CONSTANTS
    CPU_NUMBER = 6
    Procs <- MCProcs

SPECIFICATION Spec

INVARIANT OnePinPerProcess
