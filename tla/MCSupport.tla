------------------------------ MODULE MCSupport ------------------------------
(***************************************************************************)
(* The log, verbose logging and authentication in one run.  They share no  *)
(* variable (logging.mu is taken by both halves of the log, and neither    *)
(* keeps it over a step of the other that reads what it writes), so their  *)
(* steps commute, and each is explored while the others have not begun.    *)
(***************************************************************************)
EXTENDS Log, Verbosity, Auth

MCFlags == [toStderr : {FALSE}, logFile : BOOLEAN, stderrThreshold : {2}]
           \cup [toStderr : {TRUE}, logFile : {FALSE}, stderrThreshold : {2}]

MCRoutes == {[method |-> "GET", path |-> "a", slash |-> TRUE],
             [method |-> "POST", path |-> "a", slash |-> FALSE],
             [method |-> "GET", path |-> "docs", slash |-> FALSE]}

MCTokens == [kind : {"jwt"}, age : {TTL, TTL + 1}, signed : {TRUE}]
            \cup [kind : {"maya"}, age : {0}, signed : {TRUE}]

SupportInit == LogInit /\ VInit /\ AuthInit

\* No process has started, with one command line and one set of rows.
NoLog == LogInit /\ flags = CHOOSE f \in Flags : TRUE
NoAuth == AuthInit /\ resources = {}

SupportNext ==
    \/ VInit /\ NoAuth /\ LogNext /\ UNCHANGED <<vVars, authVars>>
    \/ NoLog /\ NoAuth /\ VNext /\ UNCHANGED <<logVars, authVars>>
    \/ NoLog /\ VInit /\ AuthNext /\ UNCHANGED <<logVars, vVars>>

SupportSpec == SupportInit /\ [][SupportNext]_<<logVars, vVars, authVars>>

Symmetry == Permutations(Managers)
=============================================================================
