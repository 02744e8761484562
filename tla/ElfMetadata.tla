----------------------------- MODULE ElfMetadata -----------------------------
(***************************************************************************)
(* metadata_elf_reader.c: at exec, getMetadataSectionPayload reads the     *)
(* section headers and the section-name table of the image, looks for the  *)
(* section ".metadata" and reads it into a kernel buffer; copyMetadataToProc *)
(* stores the buffer, its size and the return flag in the process.  Later  *)
(* the stats callout decodes the buffer with decodeMetadataSectionProc:    *)
(* a table of payload headers, each naming the decoder (payload_functions) *)
(* for the payload it describes.                                          *)
(*                                                                         *)
(* An image is the sequence of its section names and the sequence of the   *)
(* payloads of its .metadata section.  Offsets, sizes and the byte layout  *)
(* are abstracted: images are well formed.  malloc(M_WAITOK) cannot        *)
(* return NULL, so the NULL checks are dead and the only failures are the  *)
(* three vn_rdwr calls.                                                    *)
(***************************************************************************)
EXTENDS Integers, SequencesExt

SECCION_BUSCADA == ".metadata"
SectionNames == {SECCION_BUSCADA, ".text"}

\* a payload: p_function_number 1 (binary), 2 (sched) or another; a sched
\* payload carries monopolize_cpu and the class its string names (-1: none)
Payloads == [fn : {1, 2, 3}, mono : BOOLEAN, class : -1..3]

\* the vn_rdwr that fails: none, the section headers, the name table or the
\* section data
ReadErrors == {"none", "shdrs", "strtab", "section"}

\* the steps of getMetadataSectionPayload that allocate or read, in order
Steps(found) ==
    << "table", "shdrs", "buff", "strtab" >>
        \o (IF found THEN << "section", "data" >> ELSE << >>)

\* the label each failing read jumps to
GotoOf_strtab_fail1 == [r \in {"shdrs", "strtab", "data"} |->
                           IF r = "data" THEN "fail3" ELSE "fail1"]

GotoOf == [r \in {"shdrs", "strtab", "data"} |->
              CASE r = "shdrs" -> "fail1" [] r = "strtab" -> "fail2" [] OTHER -> "fail3"]

\* the error labels fall through to one another; each frees one buffer
ErrorChain == << "fail3", "fail2", "fail1", "fail" >>
FreedAt == [l \in ToSet(ErrorChain) |->
               CASE l = "fail3" -> {"section"} [] l = "fail2" -> {"buff"}
                 [] l = "fail1" -> {"table"} [] OTHER -> {}]

\* getMetadataSectionPayload(hdr, imgp, &flag, &size) on an image whose
\* failing read is err, with the vnode locked by the caller or not: where
\* control leaves the body, what it allocated by then and frees on the way
\* out, whether it unlocks, and return_flag and the returned buffer
getMetadataSectionPayload(img, err, prev_locked) ==
    LET found == SECCION_BUSCADA \in ToSet(img.sections)
        steps == Steps(found)
        rd    == IF err = "section" THEN "data" ELSE err
        fails == err # "none" /\ rd \in ToSet(steps)
        stop  == IF fails THEN CHOOSE i \in DOMAIN steps : steps[i] = rd
                 ELSE Len(steps) + 1
        held  == {steps[i] : i \in {j \in 1..(stop - 1) : steps[j] \in {"table", "buff", "section"}}}
        exit  == IF fails THEN GotoOf[rd] ELSE "ret"
        from  == IF exit = "ret" THEN Len(ErrorChain) + 1
                 ELSE CHOOSE i \in DOMAIN ErrorChain : ErrorChain[i] = exit
        freed == IF exit = "ret" THEN {"buff", "table"}
                 ELSE UNION {FreedAt[ErrorChain[i]] : i \in from..Len(ErrorChain)}
    IN  [held     |-> held,
         freed    |-> freed,
         unlocked |-> ~prev_locked /\ exit # "fail",
         flag     |-> CASE exit # "ret" -> -1 [] found -> 1 [] OTHER -> 2,
         data     |-> IF exit = "ret" /\ found THEN "section" ELSE "NULL"]

\* payload_Binary_func decodes into locals of its own and changes nothing
payload_Binary_func(st) == st

\* payload_Sched_func copies monopolize_cpu and the class string out
payload_Sched_func(st, pl) == [mono |-> pl.mono, class |-> pl.class]

\* decodeMetadataSectionProc: each payload header in turn dispatched through
\* payload_functions; an unknown function number is skipped.  st holds the
\* caller's monopolize and proc_type, untouched without a sched payload
decodeMetadataSectionProc(payloads, st) ==
    FoldLeft(LAMBDA acc, pl :
                CASE pl.fn = 1 -> payload_Binary_func(acc)
                  [] pl.fn = 2 -> payload_Sched_func(acc, pl)
                  [] OTHER     -> acc,
             st, payloads)

=============================================================================
