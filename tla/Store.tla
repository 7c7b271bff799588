------------------------------- MODULE Store -------------------------------
(***************************************************************************)
(* What the users of a FileDB rely on: a file is a single cell.  A Put     *)
(* replaces it in one step, a Get returns the content of one Put together  *)
(* with the digest of that very content.  A Put that is interrupted may    *)
(* lose the file, and never leaves a part of it.                           *)
(***************************************************************************)
CONSTANTS Files, Contents, Readers, Digest(_), NoFile

VARIABLES val,   \* the content of each file, or NoFile
          seen   \* what each reader got last: digest and data, or NoFile

vars == <<val, seen>>

Init ==
    /\ val = [f \in Files |-> NoFile]
    /\ seen = [r \in Readers |-> NoFile]

Put(f, c) ==
    /\ val' = [val EXCEPT ![f] = c]
    /\ UNCHANGED seen

Lose(f) ==
    /\ val' = [val EXCEPT ![f] = NoFile]
    /\ UNCHANGED seen

Answer(f) ==
    IF val[f] = NoFile THEN NoFile
    ELSE [file |-> f, digest |-> Digest(val[f]), data |-> val[f]]

Get(r, f) ==
    /\ seen' = [seen EXCEPT ![r] = Answer(f)]
    /\ UNCHANGED val

Forget == seen' = [r \in Readers |-> NoFile] /\ UNCHANGED val

Next ==
    \/ \E f \in Files : Lose(f) \/ (\E c \in Contents : Put(f, c))
                        \/ (\E r \in Readers : Get(r, f))
    \/ Forget

Spec == Init /\ [][Next]_vars
=============================================================================
