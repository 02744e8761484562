CONSTANTS
    CPU_NUMBER = 4
    Procs <- MCProcs

SPECIFICATION Spec

INVARIANT TypeOK
INVARIANT PinBudget
INVARIANT PinnedNeverSuspended
