-------------------------------- MODULE Work --------------------------------
(***************************************************************************)
(* What the agent promises about the downloads it is asked for: a job is   *)
(* pending until it is settled, that is downloaded, found missing, or      *)
(* given up after its retries.  Jobs may be asked for again at any time,   *)
(* and one that is pending several times may be settled as often.  Only a  *)
(* restart drops jobs that are not settled.                                *)
(***************************************************************************)
CONSTANT Jobs

VARIABLES pending,  \* jobs that are still to be done
          settled   \* jobs that were settled since they were last asked for

vars == <<pending, settled>>

Init == pending = {} /\ settled = {}

Ask(J) ==
    /\ pending' = pending \cup J
    /\ settled' = settled \ J

\* A job that was asked for once more stays pending.
Settle(j) ==
    /\ j \in pending
    /\ pending' \in {pending, pending \ {j}}
    /\ settled' = settled \cup {j}

\* What is left of a job that was settled otherwise.
Drop(j) ==
    /\ j \in pending \cap settled
    /\ pending' = pending \ {j}
    /\ UNCHANGED settled

Restart == pending' = {} /\ settled' = Jobs

Next ==
    \/ \E J \in SUBSET Jobs : Ask(J)
    \/ \E j \in Jobs : Settle(j) \/ Drop(j)
    \/ Restart

Spec == Init /\ [][Next]_vars
=============================================================================
