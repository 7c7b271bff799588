---------------------------- MODULE Conns_proofs ----------------------------
(***************************************************************************)
(* Proofs about Conns for any number of transports, faults and processes   *)
(* of the agent: a listener of an earlier process never takes the cluster  *)
(* row from a later one, and readyCh is closed once.                       *)
(***************************************************************************)
EXTENDS Conns, TLAPS

-----------------------------------------------------------------------------
(* The inductive invariant.                                                *)

\* A transport belongs to a process that has been started, and so does the key
\* in the row of the cluster.
KeysKnown == cluster.key <= key /\ \A t \in Tags : owner[t] <= key

CInv == TypeOK /\ KeysKnown /\ CloseOnce

\* The transports that were used are numbers of tags.
LEMMA TagFacts ==
    ASSUME TypeOK
    PROVE  /\ 1 .. used \subseteq Tags /\ used \in Nat /\ MaxTags \in Nat
           /\ used < MaxTags => used + 1 \in Tags
BY ConnsAssumption DEF TypeOK, Tags

\* Nothing has been dialled.
LEMMA InitInv == Init => CInv
BY ConnsAssumption DEF Init, CInv, TypeOK, KeysKnown, CloseOnce, Tags, Keys, Kinds

-----------------------------------------------------------------------------
(* Every step keeps the invariant.                                         *)

\* A transport that is dialled belongs to the running process.
LEMMA DialKeeps ==
    ASSUME CInv, dialGRPCConn, key' = key
    PROVE  /\ used' \in 0 .. MaxTags /\ owner' \in [Tags -> 0 .. MaxBoots]
           /\ up' \in SUBSET (1 .. used') /\ current' \in 0 .. used'
           /\ stream \in 0 .. used' /\ conns' \in [Tags -> {"absent", "begun", "saved"}]
           /\ KeysKnown'
<1>1. /\ used \in Nat /\ used' = used + 1 /\ used + 1 \in Tags /\ used' \in 0 .. MaxTags
    BY TagFacts DEF CInv, dialGRPCConn, Tags
<1>2. key \in 0 .. MaxBoots
    BY ConnsAssumption DEF CInv, TypeOK, Keys
<1>3. owner' \in [Tags -> 0 .. MaxBoots] /\ conns' \in [Tags -> {"absent", "begun", "saved"}]
    BY <1>1, <1>2 DEF CInv, TypeOK, dialGRPCConn, ConnBegin
<1>4. current' \in 0 .. used' /\ stream \in 0 .. used'
    BY <1>1 DEF CInv, TypeOK, dialGRPCConn
<1>5. up' \in SUBSET (1 .. used')
    <2>1. up \subseteq 1 .. used /\ 1 .. used \subseteq 1 .. used' /\ used + 1 \in 1 .. used'
        BY <1>1 DEF CInv, TypeOK
    <2>2. QED
        BY <2>1 DEF dialGRPCConn
<1>6. KeysKnown'
    BY <1>1, <1>2 DEF CInv, TypeOK, KeysKnown, dialGRPCConn
<1>7. QED
    BY <1>1, <1>3, <1>4, <1>5, <1>6

\* The agent dials, or gRPC restores a transport.
LEMMA DialSteps ==
    ASSUME CInv, Dial \/ Restore
    PROVE  CInv'
<1>1. dialGRPCConn /\ UNCHANGED <<key, stream, resp>>
    BY DEF Dial, Restore
<1>2. UNCHANGED <<faults, register, ended, callbacks, cluster>>
    BY <1>1 DEF dialGRPCConn
<1>3. readyCh' \in [gen : Nat, closed : BOOLEAN]
    BY DEF Dial, Restore, CInv, TypeOK
<1>4. listen' \in {"poll", "close", "dial", "execute", "listen"} /\ (listen' = "dial" => FALSE)
    BY DEF Dial, Restore, CInv, TypeOK
<1>5. TypeOK'
    BY <1>1, <1>2, <1>3, <1>4, DialKeeps DEF CInv, TypeOK
<1>6. QED
    BY <1>1, <1>4, <1>5, DialKeeps DEF CInv, CloseOnce

\* The other steps of the agent and of the transport.
LEMMA AgentSteps ==
    ASSUME CInv,
           \/ ConnLost \/ PollConn \/ CloseConn \/ Execute \/ BreakStream
           \/ Respond \/ respCmdSure \/ ConnOnReady
    PROVE  CInv'
<1>1. /\ UNCHANGED <<key, current, used, owner, conns, ended, callbacks, cluster>>
      /\ faults' \in 0 .. MaxFaults
    BY ConnsAssumption
       DEF CInv, TypeOK, ConnLost, PollConn, CloseConn, Execute, BreakStream, Respond, respCmdSure,
           ConnOnReady, netVars, managerVars
<1>2. up' \subseteq up
    BY DEF ConnLost, PollConn, CloseConn, Execute, BreakStream, Respond, respCmdSure,
           ConnOnReady, netVars
<1>3. /\ listen' \in {"poll", "close", "dial", "execute", "listen"}
      /\ stream' \in 0 .. used
    BY DEF CInv, TypeOK, ConnLost, PollConn, CloseConn, Execute, BreakStream, Respond, respCmdSure,
           ConnOnReady
<1>4. /\ readyCh' \in [gen : Nat, closed : BOOLEAN]
      /\ resp' \in [pc : {"none", "send", "wait", "sent"}, gen : Nat]
    <2>1. /\ readyCh \in [gen : Nat, closed : BOOLEAN]
          /\ resp \in [pc : {"none", "send", "wait", "sent"}, gen : Nat]
        BY DEF CInv, TypeOK
    <2>2. readyCh' = readyCh \/ readyCh' = [gen |-> readyCh.gen + 1, closed |-> FALSE]
        BY DEF ConnLost, PollConn, CloseConn, Execute, BreakStream, Respond, respCmdSure, ConnOnReady
    <2>3. \/ resp' = resp \/ resp' = [pc |-> "wait", gen |-> readyCh.gen]
          \/ \E pc \in {"send", "sent"} : resp' = [resp EXCEPT !.pc = pc]
        BY DEF ConnLost, PollConn, CloseConn, Execute, BreakStream, Respond, respCmdSure, ConnOnReady
    <2>4. readyCh' \in [gen : Nat, closed : BOOLEAN]
        <3>1. readyCh.gen + 1 \in Nat
            BY <2>1
        <3>2. [gen |-> readyCh.gen + 1, closed |-> FALSE] \in [gen : Nat, closed : BOOLEAN]
            BY <3>1
        <3>3. QED
            BY <2>1, <2>2, <3>2
    <2>5. resp' \in [pc : {"none", "send", "wait", "sent"}, gen : Nat]
        BY <2>1, <2>3
    <2>6. QED
        BY <2>4, <2>5
<1>5. register' \in [Tags -> {"none", "sent", "read"}]
    BY DEF CInv, TypeOK, ConnLost, PollConn, CloseConn, Execute, BreakStream, Respond, respCmdSure,
           ConnOnReady, managerVars, sendRegisterCmd
<1>6. TypeOK'
    BY <1>1, <1>2, <1>3, <1>4, <1>5 DEF CInv, TypeOK
<1>7. KeysKnown'
    BY <1>1 DEF CInv, KeysKnown
<1>8. CloseOnce'
    BY DEF CInv, CloseOnce, ConnLost, PollConn, CloseConn, Execute, BreakStream, Respond, respCmdSure,
           ConnOnReady
<1>9. QED
    BY <1>6, <1>7, <1>8 DEF CInv

\* Restarts of the agent and of the manager, and a transport that breaks.
LEMMA FaultSteps ==
    ASSUME CInv, AgentRestart \/ ManagerRestart \/ \E t \in Tags : Break(t)
    PROVE  CInv'
<1>1. UNCHANGED <<used, owner, cluster>> /\ faults' \in 0 .. MaxFaults /\ up' \subseteq up
    BY ConnsAssumption DEF CInv, TypeOK, AgentRestart, ManagerRestart, Break, managerVars
<1>2. key' \in Keys /\ key' >= key
    BY ConnsAssumption DEF CInv, TypeOK, AgentRestart, ManagerRestart, Break, agentVars, Keys
<1>3. /\ current' \in 0 .. used /\ stream' \in 0 .. used
      /\ listen' \in {"poll", "close", "dial", "execute", "listen"}
    BY DEF CInv, TypeOK, AgentRestart, ManagerRestart, Break, agentVars
<1>4. /\ readyCh' \in [gen : Nat, closed : BOOLEAN]
      /\ resp' \in [pc : {"none", "send", "wait", "sent"}, gen : Nat]
    <2>1. readyCh' = readyCh \/ readyCh' = [gen |-> 0, closed |-> FALSE]
        BY DEF AgentRestart, ManagerRestart, Break, agentVars
    <2>2. resp' = resp \/ resp' = [pc |-> "none", gen |-> 0]
        BY DEF AgentRestart, ManagerRestart, Break, agentVars
    <2>3. readyCh' \in [gen : Nat, closed : BOOLEAN]
        <3>1. [gen |-> 0, closed |-> FALSE] \in [gen : Nat, closed : BOOLEAN]
            OBVIOUS
        <3>2. QED
            BY <2>1, <3>1 DEF CInv, TypeOK
    <2>4. resp' \in [pc : {"none", "send", "wait", "sent"}, gen : Nat]
        BY <2>2 DEF CInv, TypeOK
    <2>5. QED
        BY <2>3, <2>4
<1>5. register' \in [Tags -> {"none", "sent", "read"}] /\ conns' \in [Tags -> {"absent", "begun", "saved"}]
    BY DEF CInv, TypeOK, AgentRestart, ManagerRestart, Break, managerVars
<1>6. ended' \in SUBSET Tags /\ callbacks' \in [Tags \X Kinds -> Nat]
    <2>1. TypeOK /\ 1 .. used \in SUBSET Tags
        BY TagFacts DEF CInv
    <2>2. ended' = ended \/ ended' = 1 .. used
        BY Zenon DEF AgentRestart, ManagerRestart, Break, managerVars
    <2>3. callbacks' = callbacks \/ callbacks' = [x \in Tags \X Kinds |-> 0]
        BY Zenon DEF AgentRestart, ManagerRestart, Break, managerVars
    <2>4. ended' \in SUBSET Tags
        BY <2>1, <2>2 DEF TypeOK
    <2>5. callbacks' \in [Tags \X Kinds -> Nat]
        BY <2>1, <2>3 DEF TypeOK
    <2>6. QED
        BY <2>4, <2>5
<1>7. TypeOK'
    BY <1>1, <1>2, <1>3, <1>4, <1>5, <1>6 DEF CInv, TypeOK
<1>8. KeysKnown'
    BY <1>1, <1>2, ConnsAssumption DEF CInv, KeysKnown, TypeOK, Keys
<1>9. CloseOnce'
    BY DEF CInv, CloseOnce, AgentRestart, ManagerRestart, Break, agentVars
<1>10. QED
    BY <1>7, <1>8, <1>9 DEF CInv

\* What UpdateClusterStatus makes of the row when a started process calls it.
LEMMA RowMoves ==
    ASSUME CInv, NEW t \in Tags, NEW s \in {"Ready", "NotReady"},
           UpdateClusterStatus(owner[t], s)
    PROVE  /\ cluster' \in [key : 0 .. MaxBoots, status : {"Ready", "NotReady"}]
           /\ cluster'.key >= cluster.key /\ cluster'.key <= key
BY ConnsAssumption DEF CInv, TypeOK, KeysKnown, Keys, UpdateClusterStatus

\* The steps of the manager.
LEMMA ManagerSteps ==
    ASSUME CInv, NEW t \in Tags,
           Receive(t) \/ handleRegisterIfNeed(t) \/ HandleConn(t) \/ Listener(t)
    PROVE  CInv'
<1>1. UNCHANGED <<key, current, listen, stream, readyCh, resp, faults, used, owner, up>>
    BY DEF Receive, handleRegisterIfNeed, HandleConn, Listener, onReady, onNotReady,
           agentVars, netVars
<1>2. register' \in [Tags -> {"none", "sent", "read"}] /\ conns' \in [Tags -> {"absent", "begun", "saved"}]
    BY DEF CInv, TypeOK, Receive, handleRegisterIfNeed, HandleConn, Listener, onReady,
           onNotReady, SaveConn
<1>3. ended' \in SUBSET Tags
    BY DEF CInv, TypeOK, Receive, handleRegisterIfNeed, HandleConn, Listener, onReady, onNotReady
<1>4. callbacks' \in [Tags \X Kinds -> Nat]
    <2>1. \A x \in Tags \X Kinds : callbacks[x] \in Nat /\ callbacks[x] + 1 \in Nat
                                    /\ (callbacks[x] > 0 => callbacks[x] - 1 \in Nat)
        BY DEF CInv, TypeOK
    <2>2. <<t, "ready">> \in Tags \X Kinds /\ <<t, "notready">> \in Tags \X Kinds
        BY DEF Kinds
    <2>3. QED
        BY <2>1, <2>2 DEF CInv, TypeOK, Receive, handleRegisterIfNeed, HandleConn, Listener,
                          onReady, onNotReady, SaveConn
<1>5. /\ cluster' \in [key : 0 .. MaxBoots, status : {"Ready", "NotReady"}]
      /\ cluster'.key <= key
    BY RowMoves DEF CInv, TypeOK, KeysKnown, Receive, handleRegisterIfNeed, HandleConn,
                    Listener, onReady, onNotReady
<1>6. TypeOK'
    BY <1>1, <1>2, <1>3, <1>4, <1>5 DEF CInv, TypeOK
<1>7. KeysKnown' /\ CloseOnce'
    BY <1>1, <1>5 DEF CInv, KeysKnown, CloseOnce
<1>8. QED
    BY <1>6, <1>7 DEF CInv

\* Every step of agent, transport and manager keeps the invariant.
LEMMA StepInv == CInv /\ [Next]_vars => CInv'
<1> SUFFICES ASSUME CInv, [Next]_vars PROVE CInv'
    OBVIOUS
<1>1. CASE Dial \/ Restore
    BY <1>1, DialSteps
<1>2. CASE \/ ConnLost \/ PollConn \/ CloseConn \/ Execute \/ BreakStream
           \/ Respond \/ respCmdSure \/ ConnOnReady
    BY <1>2, AgentSteps
<1>3. CASE AgentRestart \/ ManagerRestart \/ \E t \in Tags : Break(t)
    BY <1>3, FaultSteps
<1>4. ASSUME NEW t \in Tags,
             Receive(t) \/ handleRegisterIfNeed(t) \/ HandleConn(t) \/ Listener(t)
      PROVE  CInv'
    BY <1>4, ManagerSteps
<1>5. CASE UNCHANGED vars
    BY <1>5 DEF vars, agentVars, netVars, managerVars, CInv, TypeOK, KeysKnown, CloseOnce
<1>6. QED
    BY <1>1, <1>2, <1>3, <1>4, <1>5 DEF Next, Client

-----------------------------------------------------------------------------
(* The theorems.                                                           *)

\* The inductive invariant holds in every state.
THEOREM ConnsInvariant == Spec => []CInv
<1>1. Init => CInv
    BY InitInv
<1>2. CInv /\ [Next]_vars => CInv'
    BY StepInv
<1>3. QED
    BY <1>1, <1>2, PTL DEF Spec

\* Every variable keeps its type.
THEOREM TypeCorrect == Spec => []TypeOK
<1>1. CInv => TypeOK
    BY DEF CInv
<1>2. QED
    BY <1>1, ConnsInvariant, PTL

\* PollConn never closes a readyCh that is closed, which would end the process.
THEOREM ReadyClosedOnce == Spec => []CloseOnce
<1>1. CInv => CloseOnce
    BY DEF CInv
<1>2. QED
    BY <1>1, ConnsInvariant, PTL

\* However late the listeners of a connection run, the row of the cluster never
\* goes back to an earlier process of the agent.
THEOREM RowNeverGoesBack == Spec => LaterProcessWins
<1>1. CInv /\ [Next]_vars => [cluster'.key >= cluster.key]_vars
    <2> SUFFICES ASSUME CInv, Next PROVE cluster'.key >= cluster.key
        OBVIOUS
    <2>1. cluster.key \in Nat
        BY ConnsAssumption DEF CInv, TypeOK
    <2>2. CASE cluster' = cluster
        BY <2>1, <2>2
    <2>3. CASE \E t \in Tags : Listener(t)
        BY <2>3, RowMoves DEF Listener, onReady, onNotReady
    <2>4. QED
        BY <2>2, <2>3 DEF Next, Client, ConnLost, PollConn, CloseConn, Dial, Execute, Restore,
            BreakStream, Respond, respCmdSure, ConnOnReady, AgentRestart, ManagerRestart, Break,
            Receive, handleRegisterIfNeed, HandleConn, dialGRPCConn, managerVars
<1>2. QED
    BY <1>1, ConnsInvariant, PTL DEF Spec, LaterProcessWins
=============================================================================
