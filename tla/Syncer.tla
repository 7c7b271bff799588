------------------------------- MODULE Syncer -------------------------------
(***************************************************************************)
(* pkg/agent/syncer: the agent's table of the apps that are connected to   *)
(* it, and the notification of those that use a file when the file is      *)
(* updated.  A notification that fails goes to a queue; workers try it     *)
(* again, later each time, and give it up after MaxFailed failures.        *)
(*                                                                         *)
(* There is one file.  Time is counted in units of DefualtDelayTime.  The  *)
(* listeners of a connection run in a goroutine each (agent.New), of which *)
(* there is at most one of a kind for a connection here.                   *)
(***************************************************************************)
EXTENDS Naturals, Sequences, FiniteSets

CONSTANTS Conns,         \* connections of apps, by key
          Alone,         \* those whose app has no other; the rest share one
          Required,      \* connections that name the file when they register
          Workers,       \* notify workers
          MaxFailed,     \* MAXFailedCount
          MaxDelta,      \* MAXDeltaTime, in units of DefualtDelayTime
          MaxUpdates,    \* bound: updates of the file
          MaxConnects,   \* bound: connects of all the apps together
          MaxEnds,       \* bound: connections that end
          None

Tasks == [conn : Conns, update : 1 .. MaxUpdates, failed : Nat, wait : Nat]

ASSUME SyncerAssumption ==
    /\ Alone \subseteq Conns /\ Required \subseteq Conns
    /\ {MaxFailed, MaxDelta, MaxUpdates, MaxConnects, MaxEnds} \subseteq Nat
    /\ None \notin Tasks

VARIABLES
    connected,  \* connections of the agent's ConnManager
    connects,   \* connects so far
    onReady,    \* the listener of a connect: none, apps or files
    onNotReady, \* the listener of an end: none, apps or queue
    conn2App,   \* connections that are registered
    apps,       \* Syncer.apps: the connections of an app
    regFile,    \* regFileToApp: the apps that use the file
    queue,      \* notifyQueue
    hands,      \* the task of a worker, or None
    notify,     \* NotifyUpdate
    updates,    \* updates so far
    panicked,   \* the process has ended in a panic
    tried,      \* ghost: connections and updates that NotifyUpdate has tried,
    settled,    \* and those that were told, given up or cancelled
    listed      \* ghost: connections that NotifyUpdate has to go through

connVars == <<connected, connects, onReady, onNotReady, conn2App, apps, regFile>>
taskVars == <<queue, hands>>
ghosts == <<tried, settled, listed>>
vars == <<connVars, taskVars, notify, updates, panicked, ghosts>>

\* An app is the set of its connections.
AppOf(c) == IF c \in Alone THEN {c} ELSE Conns \ Alone
Apps == {AppOf(c) : c \in Conns}

Pairs == Conns \X (1 .. MaxUpdates)

\* The type invariant.
TypeOK ==
    /\ connected \in SUBSET Conns /\ connects \in 0 .. MaxConnects
    /\ onReady \in [Conns -> {"none", "apps", "files"}]
    /\ onNotReady \in [Conns -> {"none", "apps", "queue"}]
    /\ conn2App \in SUBSET Conns
    /\ apps \in [Apps -> Seq(Conns)]
    /\ regFile \in SUBSET Apps
    /\ queue \in Seq(Tasks)
    /\ hands \in [Workers -> Tasks \cup {None}]
    /\ notify \in [pc : {"none", "apps", "each", "add"}, todo : SUBSET Apps,
                   app : Apps \cup {None}, view : Seq(Conns), i : Nat, shared : BOOLEAN,
                   con : Conns \cup {None}]
    /\ updates \in 0 .. MaxUpdates /\ panicked \in BOOLEAN
    /\ tried \in SUBSET Pairs /\ settled \in SUBSET Pairs /\ listed \in SUBSET Conns

Idle == [pc |-> "none", todo |-> {}, app |-> None, view |-> <<>>, i |-> 0,
         shared |-> FALSE, con |-> None]

Init ==
    /\ connected = {} /\ connects = 0
    /\ onReady = [c \in Conns |-> "none"] /\ onNotReady = [c \in Conns |-> "none"]
    /\ conn2App = {} /\ apps = [a \in Apps |-> <<>>] /\ regFile = {}
    /\ queue = <<>> /\ hands = [w \in Workers |-> None]
    /\ notify = Idle /\ updates = 0 /\ panicked = FALSE
    /\ tried = {} /\ settled = {} /\ listed = {}

-----------------------------------------------------------------------------
(* Connections of apps.                                                    *)

Connect(c) ==
    /\ c \notin connected /\ onReady[c] = "none" /\ connects < MaxConnects
    /\ connected' = connected \cup {c}
    /\ connects' = connects + 1
    /\ onReady' = [onReady EXCEPT ![c] = "apps"]
    /\ UNCHANGED <<onNotReady, conn2App, apps, regFile, taskVars, notify, updates, panicked, ghosts>>

Disconnect(c) ==
    /\ c \in connected /\ onNotReady[c] = "none"
    /\ connects - Cardinality(connected) < MaxEnds
    /\ connected' = connected \ {c}
    /\ onNotReady' = [onNotReady EXCEPT ![c] = "apps"]
    /\ UNCHANGED <<connects, onReady, conn2App, apps, regFile, taskVars, notify, updates, panicked,
                   ghosts>>

\* RegisterApp: the connection is added to the slice of its app.  A slice that
\* was shortened since NotifyUpdate took it is written in the same array.
RegisterApp(c) ==
    LET a == AppOf(c)
        n == Len(apps[a])
    IN
    /\ onReady[c] = "apps"
    /\ onReady' = [onReady EXCEPT ![c] = "files"]
    /\ conn2App' = conn2App \cup {c}
    /\ apps' = [apps EXCEPT ![a] = Append(@, c)]
    /\ IF notify.app = a /\ notify.shared
       THEN IF n < Len(notify.view)
            THEN notify' = [notify EXCEPT !.view[n + 1] = c]
            ELSE \E s \in BOOLEAN : notify' = [notify EXCEPT !.shared = s]
       ELSE UNCHANGED notify
    /\ UNCHANGED <<connected, connects, onNotReady, regFile, taskVars, updates, panicked, ghosts>>

\* Then its files are.
RegisterFiles(c) ==
    /\ onReady[c] = "files"
    /\ onReady' = [onReady EXCEPT ![c] = "none"]
    /\ regFile' = IF c \in Required THEN regFile \cup {AppOf(c)} ELSE regFile
    /\ UNCHANGED <<connected, connects, onNotReady, conn2App, apps, taskVars, notify,
                   updates, panicked, ghosts>>

\* The index of a connection in the slice of its app, 0 when it is not there.
IndexOf(s, c) == IF \E i \in 1 .. Len(s) : s[i] = c
                 THEN CHOOSE i \in 1 .. Len(s) : s[i] = c /\ \A j \in 1 .. i - 1 : s[j] # c
                 ELSE 0

Without(s, i) == SubSeq(s, 1, i - 1) \o SubSeq(s, i + 1, Len(s))

\* The connection that NotifyUpdate passes over when the one at i is removed: the
\* next one, if i is behind it.
Skipped(i) ==
    LET next == IF notify.pc = "add" THEN notify.i + 1 ELSE notify.i
    IN  IF i < next /\ next <= Len(notify.view) THEN {notify.view[next]} ELSE {}

\* CancelApp removes the connection from its app.  The elements behind it move
\* in the array, also for a NotifyUpdate that is going through it.
CancelApp(c) ==
    LET a == AppOf(c)
        i == IndexOf(apps[a], c)
    IN
    /\ onNotReady[c] = "apps"
    /\ IF c \in conn2App
       THEN /\ conn2App' = conn2App \ {c}
            /\ apps' = [apps EXCEPT ![a] = IF i = 0 THEN @ ELSE Without(@, i)]
            /\ onNotReady' = [onNotReady EXCEPT ![c] = "queue"]
            /\ IF notify.app = a /\ notify.shared /\ i # 0
               THEN /\ notify' = [notify EXCEPT !.view =
                                     [k \in DOMAIN @ |->
                                         IF k \in i .. Len(apps[a]) - 1
                                         THEN apps[a][k + 1] ELSE notify.view[k]]]
                    /\ listed' = listed \ ({c} \cup Skipped(i))
               ELSE UNCHANGED <<notify, listed>>
       ELSE onNotReady' = [onNotReady EXCEPT ![c] = "none"]
            /\ UNCHANGED <<conn2App, apps, notify, listed>>
    /\ UNCHANGED <<connected, connects, onReady, regFile, taskVars, updates, panicked, tried,
                   settled>>

\* The first task of the connection.
FirstTask(c) == CHOOSE i \in 1 .. Len(queue) :
                    queue[i].conn = c /\ \A j \in 1 .. i - 1 : queue[j].conn # c

HasTask(c) == \E i \in 1 .. Len(queue) : queue[i].conn = c

\* Then CancelApp removes one task of it from the queue, and the manager is told.
CancelTask(c) ==
    /\ onNotReady[c] = "queue"
    /\ onNotReady' = [onNotReady EXCEPT ![c] = "none"]
    /\ queue' = IF HasTask(c) THEN Without(queue, FirstTask(c)) ELSE queue
    /\ settled' = settled \cup {<<c, u>> : u \in 1 .. updates}
    /\ UNCHANGED <<connected, connects, onReady, conn2App, apps, regFile, hands, notify,
                   updates, panicked, tried, listed>>

\* RegisterFileToApp, called by the handler of a request for the file.  An app
\* that is not registered is a nil pointer.
RegisterFileToApp(c) ==
    /\ c \in connected
    /\ IF c \in conn2App
       THEN regFile' = regFile \cup {AppOf(c)} /\ UNCHANGED panicked
       ELSE panicked' = TRUE /\ UNCHANGED regFile
    /\ UNCHANGED <<connected, connects, onReady, onNotReady, conn2App, apps, taskVars,
                   notify, updates, ghosts>>

-----------------------------------------------------------------------------
(* Notifications.                                                          *)

Task(c, u, failed, wait) == [conn |-> c, update |-> u, failed |-> failed, wait |-> wait]

\* doNotify succeeds: SendSync of the command to the connection.
Told(c, u) == c \in connected /\ settled' = settled \cup {<<c, u>>}

\* NotifyUpdate collects the apps under the lock.
NotifyUpdate ==
    /\ notify.pc = "none" /\ updates < MaxUpdates
    /\ updates' = updates + 1
    /\ notify' = [Idle EXCEPT !.pc = "apps", !.todo = regFile]
    /\ UNCHANGED <<connVars, taskVars, panicked, ghosts>>

\* For each it ranges over the slice of this moment, without the lock.
NextApp ==
    /\ notify.pc = "apps"
    /\ IF notify.todo = {} THEN notify' = Idle /\ listed' = {}
       ELSE \E a \in notify.todo :
            /\ listed' = {apps[a][i] : i \in 1 .. Len(apps[a])}
            /\ notify' = [pc |-> "each", todo |-> notify.todo \ {a}, app |-> a,
                          view |-> apps[a], i |-> 1, shared |-> TRUE, con |-> None]
    /\ UNCHANGED <<connVars, taskVars, updates, panicked, tried, settled>>

\* The connection is told; if that fails the task goes to the queue.
NotifyEach ==
    /\ notify.pc = "each"
    /\ IF notify.i > Len(notify.view)
       THEN /\ notify' = [notify EXCEPT !.pc = "apps", !.app = None, !.shared = FALSE]
            /\ UNCHANGED <<tried, settled>>
       ELSE LET c == notify.view[notify.i] IN
            /\ tried' = tried \cup {<<c, updates>>}
            /\ \/ Told(c, updates) /\ notify' = [notify EXCEPT !.i = @ + 1]
               \/ notify' = [notify EXCEPT !.pc = "add", !.con = c] /\ UNCHANGED settled
    /\ UNCHANGED <<connVars, taskVars, updates, panicked, listed>>

\* Slip: NotifyUpdate returns the error.
AddTaskSlip ==
    /\ notify.pc = "add"
    /\ queue' = Append(queue, Task(notify.con, updates, 1, 0))
    /\ notify' = [notify EXCEPT !.pc = "apps", !.todo = {}, !.app = None, !.con = None]
    /\ UNCHANGED <<connVars, hands, updates, panicked, ghosts>>

\* addNotifyConnFileUpdateTask of a task that is due at once.
AddTask ==
    /\ notify.pc = "add"
    /\ queue' = Append(queue, Task(notify.con, updates, 1, 0))
    /\ notify' = [notify EXCEPT !.pc = "each", !.i = @ + 1, !.con = None]
    /\ UNCHANGED <<connVars, hands, updates, panicked, ghosts>>

\* popNotifyConnFileUpdateTask.
Pop(w) ==
    /\ hands[w] = None /\ queue # <<>>
    /\ hands' = [hands EXCEPT ![w] = Head(queue)]
    /\ queue' = Tail(queue)
    /\ UNCHANGED <<connVars, notify, updates, panicked, ghosts>>

\* A task that is not due goes to the end of the queue.
NotDue(w) ==
    /\ hands[w] # None /\ hands[w].wait > 0
    /\ queue' = Append(queue, hands[w])
    /\ hands' = [hands EXCEPT ![w] = None]
    /\ UNCHANGED <<connVars, notify, updates, panicked, ghosts>>

\* Slip: the failure is not counted.
RetrySlip(t) ==
    IF t.failed > MaxFailed
    THEN settled' = settled \cup {<<t.conn, t.update>>} /\ UNCHANGED queue
    ELSE /\ queue' = Append(queue, [t EXCEPT !.wait = t.failed])
         /\ UNCHANGED settled

\* After a failure the task is given up, or due after a time that grows with
\* the number of failures.
Retry(t) ==
    IF t.failed > MaxFailed
    THEN settled' = settled \cup {<<t.conn, t.update>>} /\ UNCHANGED queue
    ELSE /\ queue' = Append(queue, Task(t.conn, t.update, t.failed + 1,
                                       IF t.failed > MaxDelta THEN MaxDelta ELSE t.failed))
         /\ UNCHANGED settled

\* A worker of Run tries a task.
DoNotify(w) ==
    /\ hands[w] # None /\ hands[w].wait = 0
    /\ hands' = [hands EXCEPT ![w] = None]
    /\ \/ Told(hands[w].conn, hands[w].update) /\ UNCHANGED queue
       \/ Retry(hands[w])
    /\ UNCHANGED <<connVars, notify, updates, panicked, tried, listed>>

\* Time passes.
Elapse ==
    LET Less(t) == [t EXCEPT !.wait = IF @ > 0 THEN @ - 1 ELSE 0] IN
    /\ \/ \E i \in 1 .. Len(queue) : queue[i].wait > 0
       \/ \E w \in Workers : hands[w] # None /\ hands[w].wait > 0
    /\ queue' = [i \in DOMAIN queue |-> Less(queue[i])]
    /\ hands' = [w \in Workers |-> IF hands[w] = None THEN None ELSE Less(hands[w])]
    /\ UNCHANGED <<connVars, notify, updates, panicked, ghosts>>

-----------------------------------------------------------------------------
Listeners(c) == RegisterApp(c) \/ RegisterFiles(c) \/ CancelApp(c) \/ CancelTask(c)
Notifier == NextApp \/ NotifyEach \/ AddTask
Worker(w) == Pop(w) \/ NotDue(w) \/ DoNotify(w)

Next ==
    /\ ~panicked
    /\ \/ \E c \in Conns : \/ Connect(c) \/ Disconnect(c) \/ Listeners(c)
                            \/ RegisterFileToApp(c)
       \/ NotifyUpdate \/ Notifier
       \/ \E w \in Workers : Worker(w)
       \/ Elapse

\* Goroutines run, calls return and time passes.  No connection need stay.
Fairness ==
    /\ \A c \in Conns : WF_vars(~panicked /\ Listeners(c))
    /\ WF_vars(~panicked /\ Notifier) /\ WF_vars(~panicked /\ Elapse)
    /\ \A w \in Workers : WF_vars(~panicked /\ Worker(w))

Spec == Init /\ [][Next]_vars /\ Fairness

-----------------------------------------------------------------------------
(* Properties.                                                             *)

Pending == ({queue[i] : i \in 1 .. Len(queue)} \cup {hands[w] : w \in Workers}) \ {None}

\* A connection that NotifyUpdate has tried was told, or was given up after its
\* failures or its end, or a task of it is kept to try again, whatever other
\* connections, workers and cancellations do to the queue.
NoneForgotten ==
    \A p \in tried \ settled :
        \/ \E t \in Pending : t.conn = p[1] /\ t.update = p[2]
        \/ notify.con = p[1] /\ p[2] = updates

\* When NotifyUpdate has gone through an app, each connection that was there and
\* still is has been tried.  The end of a connection makes it pass over at most
\* the one that it would have come to next.
NoneSkipped ==
    notify.pc = "apps" => \A c \in listed \cap conn2App : <<c, updates>> \in tried

\* A task is told or given up in the end, also when its connection is gone: the
\* queue becomes empty.
QueueDrains == <>[](panicked \/ Pending = {})

\* A request of an app never ends the agent.  The code does not guarantee it:
\* RegisterFileToApp uses the app of a connection that is not yet, or no longer,
\* registered.
NoPanic == ~panicked
=============================================================================
