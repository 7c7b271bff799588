------------------------------- MODULE Conns -------------------------------
(***************************************************************************)
(* The connection of an agent with the manager: conns.globalClientConn and *)
(* cmdClient.StartListen on the agent, cmdServer.Execute, ConnManager and  *)
(* the cluster row on the manager.                                         *)
(*                                                                         *)
(* A tag is one transport connection.  A process of the agent has a key,   *)
(* its site and start time; the time is the number of the process here.    *)
(* gRPC restores the transport of a ClientConn by itself and a server may  *)
(* learn of a lost transport late; both are modelled from how the code     *)
(* uses them.  The listeners of a connection run in goroutines of their    *)
(* own, and so do the handlers of commands.                                *)
(***************************************************************************)
EXTENDS Naturals

CONSTANTS MaxTags,    \* bound: transport connections
          MaxFaults,  \* bound: broken transports or streams, crashes
          MaxBoots    \* bound: processes of the agent

ASSUME ConnsAssumption == MaxTags \in Nat /\ MaxFaults \in Nat /\ MaxBoots \in Nat \ {0}

VARIABLES
    key,        \* the running process of the agent
    faults,     \* faults so far
    used,       \* tags used so far
    owner,      \* the process that a tag belongs to
    up,         \* tags whose transport works
    current,    \* the transport of clientConn, 0 before the first dial
    listen,     \* StartListen and PollConn
    stream,     \* the transport of the stream StartListen receives from
    readyCh,    \* the channel: its generation, is it closed
    resp,       \* respCmdSure, and the channel it waits for
    register,   \* the Register command of a tag: none, sent or read
    conns,      \* ConnManager.conns: absent, begun or saved
    ended,      \* tags whose end the manager has seen
    callbacks,  \* listeners to run: number for each tag and kind
    cluster     \* the cluster row: ConnKey and Status

agentVars == <<key, current, listen, stream, readyCh, resp>>
netVars == <<faults, used, owner, up>>
managerVars == <<register, conns, ended, callbacks, cluster>>
vars == <<agentVars, netVars, managerVars>>

Tags == 1 .. MaxTags
Keys == 1 .. MaxBoots
Kinds == {"ready", "notready"}

\* The type invariant.
TypeOK ==
    /\ key \in Keys /\ faults \in 0 .. MaxFaults /\ used \in 0 .. MaxTags
    /\ owner \in [Tags -> 0 .. MaxBoots]
    /\ up \in SUBSET (1 .. used)
    /\ current \in 0 .. used /\ stream \in 0 .. used
    /\ listen \in {"poll", "close", "dial", "execute", "listen"}
    /\ readyCh \in [gen : Nat, closed : BOOLEAN]
    /\ resp \in [pc : {"none", "send", "wait", "sent"}, gen : Nat]
    /\ register \in [Tags -> {"none", "sent", "read"}]
    /\ conns \in [Tags -> {"absent", "begun", "saved"}]
    /\ ended \in SUBSET Tags
    /\ callbacks \in [Tags \X Kinds -> Nat]
    /\ cluster \in [key : 0 .. MaxBoots, status : {"Ready", "NotReady"}]

\* The row of the cluster was created without a ConnKey.
Init ==
    /\ key = 1 /\ faults = 0 /\ used = 0
    /\ owner = [t \in Tags |-> 0]
    /\ up = {} /\ current = 0 /\ stream = 0
    /\ listen = "poll"
    /\ readyCh = [gen |-> 0, closed |-> FALSE]
    /\ resp = [pc |-> "none", gen |-> 0]
    /\ register = [t \in Tags |-> "none"]
    /\ conns = [t \in Tags |-> "absent"]
    /\ ended = {}
    /\ callbacks = [x \in Tags \X Kinds |-> 0]
    /\ cluster = [key |-> 0, status |-> "NotReady"]

-----------------------------------------------------------------------------
(* The transport.                                                          *)

\* HandleConn of ConnBegin: the tag is stored without a key.
ConnBegin(t) == conns' = [conns EXCEPT ![t] = "begun"]

\* dialGRPCConn waits until the transport is there.  The certificates of both
\* sides are part of gRPC here.
dialGRPCConn ==
    /\ used < MaxTags
    /\ used' = used + 1
    /\ owner' = [owner EXCEPT ![used + 1] = key]
    /\ up' = up \cup {used + 1}
    /\ current' = used + 1
    /\ ConnBegin(used + 1)
    /\ UNCHANGED <<faults, register, ended, callbacks, cluster>>

\* gRPC restores a lost transport of a ClientConn that is not closed.
Restore ==
    /\ current # 0 /\ current \notin up
    /\ listen # "dial"
    /\ dialGRPCConn
    /\ UNCHANGED <<key, listen, stream, readyCh, resp>>

Break(t) ==
    /\ t \in up /\ faults < MaxFaults
    /\ up' = up \ {t}
    /\ faults' = faults + 1
    /\ UNCHANGED <<used, owner, agentVars, managerVars>>

\* The server ends the stream and the transport stays.
BreakStream ==
    /\ listen = "listen" /\ stream \in up /\ faults < MaxFaults
    /\ listen' = "poll"
    /\ faults' = faults + 1
    /\ UNCHANGED <<key, current, stream, readyCh, resp, used, owner, up, managerVars>>

-----------------------------------------------------------------------------
(* The agent.                                                              *)

IsActive == current \in up

\* The state of clientConn is Shutdown or TransientFailure.
ConnOnStates == current # 0 /\ current \notin up

\* StartListen: the stream failed, or the connection did.
ConnLost ==
    /\ listen = "listen"
    /\ stream \notin up \/ ConnOnStates
    /\ listen' = "poll"
    /\ UNCHANGED <<key, current, stream, readyCh, resp, netVars, managerVars>>

\* PollConn keeps a connection that is active.
PollConn ==
    /\ listen = "poll"
    /\ listen' = IF IsActive THEN "execute" ELSE "close"
    /\ UNCHANGED <<key, current, stream, readyCh, resp, netVars, managerVars>>

\* CloseConn makes a new readyCh and closes clientConn, which gRPC may have
\* restored since it was found not active.
CloseConn ==
    /\ listen = "close"
    /\ readyCh' = [gen |-> readyCh.gen + 1, closed |-> FALSE]
    /\ up' = up \ {current}
    /\ listen' = "dial"
    /\ UNCHANGED <<key, current, stream, resp, faults, used, owner, managerVars>>

\* Slip: nobody is told that there is a connection.
DialSlip ==
    /\ listen = "dial"
    /\ dialGRPCConn
    /\ listen' = "execute"
    /\ UNCHANGED <<key, stream, readyCh, resp>>

\* The loop of PollConn dials until it succeeds, sets clientConn and closes
\* readyCh.
Dial ==
    /\ listen = "dial"
    /\ dialGRPCConn
    /\ readyCh' = [readyCh EXCEPT !.closed = TRUE]
    /\ listen' = "execute"
    /\ UNCHANGED <<key, stream, resp>>

\* Slip: only a process that has not yet registered does.
ExecuteSlip ==
    /\ listen = "execute"
    /\ IF current \in up
       THEN /\ register' = [register EXCEPT ![current] = IF used = 1 THEN "sent" ELSE @]
            /\ listen' = "listen" /\ stream' = current
       ELSE listen' = "poll" /\ UNCHANGED <<register, stream>>
    /\ UNCHANGED <<key, current, readyCh, resp, netVars, conns, ended, callbacks,
                   cluster>>

\* The command names the process as its caller; the transport delivers it.
sendRegisterCmd(t) == register' = [register EXCEPT ![t] = "sent"]

\* The stream is created, the Register command sent and fireOnReady called.
Execute ==
    /\ listen = "execute"
    /\ IF current \in up
       THEN /\ sendRegisterCmd(current)
            /\ listen' = "listen" /\ stream' = current
       ELSE listen' = "poll" /\ UNCHANGED <<register, stream>>
    /\ UNCHANGED <<key, current, readyCh, resp, netVars, conns, ended, callbacks,
                   cluster>>

\* A handler of the agent has a response.
Respond ==
    /\ resp.pc = "none" /\ current # 0
    /\ resp' = [resp EXCEPT !.pc = "send"]
    /\ UNCHANGED <<key, current, listen, stream, readyCh, netVars, managerVars>>

\* A response has a stream of its own, of the connection of this moment.
sendCmdPackage == current \in up

\* respCmdSure: when sending fails it waits for the readyCh of this moment.
respCmdSure ==
    /\ resp.pc = "send"
    /\ resp' = IF sendCmdPackage THEN [resp EXCEPT !.pc = "sent"]
               ELSE [pc |-> "wait", gen |-> readyCh.gen]
    /\ UNCHANGED <<key, current, listen, stream, readyCh, netVars, managerVars>>

ConnOnReady ==
    /\ resp.pc = "wait"
    /\ resp.gen < readyCh.gen \/ readyCh.closed
    /\ resp' = [resp EXCEPT !.pc = "send"]
    /\ UNCHANGED <<key, current, listen, stream, readyCh, netVars, managerVars>>

\* The process ends and is started again, with a later time in its key.
AgentRestart ==
    /\ key < MaxBoots /\ faults < MaxFaults
    /\ key' = key + 1
    /\ faults' = faults + 1
    /\ up' = up \ {current}
    /\ current' = 0 /\ listen' = "poll" /\ stream' = 0
    /\ readyCh' = [gen |-> 0, closed |-> FALSE]
    /\ resp' = [pc |-> "none", gen |-> 0]
    /\ UNCHANGED <<used, owner, managerVars>>

-----------------------------------------------------------------------------
(* The manager.                                                            *)

\* Execute receives the Register command of a transport it has not seen end.
Receive(t) ==
    /\ register[t] = "sent" /\ t \notin ended
    /\ register' = [register EXCEPT ![t] = "read"]
    /\ UNCHANGED <<agentVars, netVars, conns, ended, callbacks, cluster>>

\* SaveConn stores the key and the stream under the tag, be the transport still
\* there or not, and starts the listeners.
SaveConn(t) ==
    /\ conns' = [conns EXCEPT ![t] = "saved"]
    /\ callbacks' = [callbacks EXCEPT ![<<t, "ready">>] = @ + 1]

\* What the agent is answered is of no use to it: nobody waits for it.
handleRegisterIfNeed(t) ==
    /\ register[t] = "read"
    /\ register' = [register EXCEPT ![t] = "none"]
    /\ SaveConn(t)
    /\ UNCHANGED <<agentVars, netVars, ended, cluster>>

\* HandleConn of ConnEnd.  The listeners can do nothing with an empty key.
HandleConn(t) ==
    /\ conns[t] # "absent" /\ t \notin up \cup ended
    /\ ended' = ended \cup {t}
    /\ conns' = [conns EXCEPT ![t] = "absent"]
    /\ callbacks' = IF conns[t] = "begun" THEN callbacks
                    ELSE [callbacks EXCEPT ![<<t, "notready">>] = @ + 1]
    /\ UNCHANGED <<agentVars, netVars, register, cluster>>

\* The connections a command to process k may be sent through: any that was
\* registered with its key.
GetConnValue(k) == {t \in Tags : conns[t] = "saved" /\ owner[t] = k}

\* Slip: the times are not compared.
UpdateClusterStatusSlip(k, status) ==
    cluster' = [key |-> k, status |-> status]

\* UpdateClusterStatus: a row with the key of a later process is left alone.
UpdateClusterStatus(k, status) ==
    cluster' = IF cluster.key = 0 \/ k >= cluster.key
               THEN [key |-> k, status |-> status] ELSE cluster

\* cluster.onReady.
onReady(t) ==
    /\ callbacks[<<t, "ready">>] > 0
    /\ callbacks' = [callbacks EXCEPT ![<<t, "ready">>] = @ - 1]
    /\ UpdateClusterStatus(owner[t], "Ready")
    /\ UNCHANGED <<agentVars, netVars, register, conns, ended>>

\* cluster.onNotReady: the status; the instances are in Instances.
onNotReady(t) ==
    /\ callbacks[<<t, "notready">>] > 0
    /\ callbacks' = [callbacks EXCEPT ![<<t, "notready">>] = @ - 1]
    /\ UpdateClusterStatus(owner[t], "NotReady")
    /\ UNCHANGED <<agentVars, netVars, register, conns, ended>>

\* The manager is started again: what is not in the database is gone.
ManagerRestart ==
    /\ faults < MaxFaults
    /\ faults' = faults + 1
    /\ up' = {}
    /\ register' = [t \in Tags |-> "none"]
    /\ conns' = [t \in Tags |-> "absent"]
    /\ ended' = 1 .. used
    /\ callbacks' = [x \in Tags \X Kinds |-> 0]
    /\ UNCHANGED <<agentVars, used, owner, cluster>>

-----------------------------------------------------------------------------
Client == ConnLost \/ PollConn \/ CloseConn \/ Dial \/ Execute
Listener(t) == onReady(t) \/ onNotReady(t)

Next ==
    \/ Client \/ Restore \/ BreakStream \/ AgentRestart \/ ManagerRestart
    \/ Respond \/ respCmdSure \/ ConnOnReady
    \/ \E t \in Tags :
          \/ Break(t) \/ Receive(t) \/ handleRegisterIfNeed(t) \/ HandleConn(t)
          \/ Listener(t)

\* Goroutines run, a server learns of a lost transport in the end and a dial
\* succeeds in the end.  gRPC need not restore anything.
Fairness ==
    /\ WF_vars(Client)
    /\ WF_vars(respCmdSure) /\ WF_vars(ConnOnReady)
    /\ \A t \in Tags : /\ WF_vars(Receive(t)) /\ WF_vars(handleRegisterIfNeed(t))
                       /\ WF_vars(HandleConn(t)) /\ WF_vars(Listener(t))

Spec == Init /\ [][Next]_vars /\ Fairness

-----------------------------------------------------------------------------
(* Properties.                                                             *)

\* A closed channel is never closed again, which would end the process: when
\* PollConn dials, nobody has closed the readyCh of this moment.
CloseOnce == listen = "dial" => ~readyCh.closed

\* What a later process of the agent has recorded in the cluster row is not
\* changed by a listener of an earlier one, however late it runs.
LaterProcessWins == [][cluster'.key >= cluster.key]_vars

\* Whatever breaks, in the end the agent stays registered under the key of its
\* process, and the row of the cluster, from which commands take the key they
\* are sent to, has that key.
SiteReachable == <>[](current \in GetConnValue(cluster.key) /\ cluster.key = key)

\* A response waits for a connection and is sent, unless its process ends.
ResponseSent == resp.pc = "send" ~> resp.pc \in {"sent", "none"}

\* When nothing breaks any more the cluster is Ready: it has an agent.  The code
\* does not guarantee it: onNotReady of a lost connection may run after onReady
\* of its successor of the same process.
StatusSettles == <>[](cluster.status = "Ready")

\* When nothing breaks any more the manager holds no connection that is lost:
\* GetConnValue may return any connection of the key.  The code does not
\* guarantee it: a SaveConn that comes after ConnEnd stays in the table.
OnlyLiveConns == <>[](\A t \in Tags : conns[t] = "saved" => t \in up)
=============================================================================
