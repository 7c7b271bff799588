---------------------------- MODULE CmdExecutor ----------------------------
(***************************************************************************)
(* The executing side of the command tunnel, pkg/component/cmd: onReceive, *)
(* processReq and executor.  Each request has a goroutine that executes it *)
(* and answers.  When the handler returns a stream, a producer reads its   *)
(* lines into a buffer, and the request's goroutine collects them and      *)
(* sends a package when it has MaxReadLines of them or the timer fires.    *)
(*                                                                         *)
(* Reading a stream goes on to its pipe when the data ends, so that a      *)
(* stream ends when it is closed and not before.  A line is its number.    *)
(***************************************************************************)
EXTENDS Naturals, Sequences

CONSTANTS Cmds,          \* requests, by UUID
          Streams,       \* those whose handler returns a stream
          MaxReadLines,  \* MaxReadLinesNum
          BufferSize,    \* MaxBufferSize
          MaxLines       \* bound: lines of a stream

ASSUME CmdExecutorAssumption ==
    /\ Streams \subseteq Cmds
    /\ {MaxReadLines, BufferSize} \subseteq Nat \ {0}
    /\ MaxLines \in Nat

VARIABLES
    req,       \* processReq of each command
    saved,     \* executor.streams
    open,      \* is the stream open
    next,      \* the number of the next line the producer reads
    producer,  \* the producer: its state and the line it holds
    buffer,    \* the channel between them
    closed,    \* is the channel closed
    lines,     \* lines collected for the next package
    timer,     \* "armed", "fired" (a value in timer.C), both or none
    sent,      \* packages the caller was sent: sequences of lines
    failed     \* has sending a package failed

vars == <<req, saved, open, next, producer, buffer, closed, lines, timer, sent,
          failed>>

Lines == 1 .. MaxLines

\* The type invariant.
TypeOK ==
    /\ req \in [Cmds -> {"none", "exec", "answer", "select", "full", "done"}]
    /\ saved \in SUBSET Streams
    /\ open \in [Streams -> BOOLEAN]
    /\ next \in [Streams -> 1 .. MaxLines + 1]
    /\ producer \in [Streams -> {"none", "read", "put", "exit"}]
    /\ buffer \in [Streams -> Seq(Lines)]
    /\ closed \in [Streams -> BOOLEAN]
    /\ lines \in [Streams -> Seq(Lines)]
    /\ timer \in [Streams -> SUBSET {"armed", "fired"}]
    /\ sent \in [Cmds -> Seq(Seq(Lines))]
    /\ failed \in SUBSET Cmds

Init ==
    /\ req = [c \in Cmds |-> "none"]
    /\ saved = {}
    /\ open = [c \in Streams |-> TRUE]
    /\ next = [c \in Streams |-> 1]
    /\ producer = [c \in Streams |-> "none"]
    /\ buffer = [c \in Streams |-> <<>>]
    /\ closed = [c \in Streams |-> FALSE]
    /\ lines = [c \in Streams |-> <<>>]
    /\ timer = [c \in Streams |-> {}]
    /\ sent = [c \in Cmds |-> <<>>]
    /\ failed = {}

streamVars == <<open, next, producer, buffer, closed, lines, timer>>

-----------------------------------------------------------------------------
(* Requests.                                                               *)

\* onReceive starts a goroutine for a request.
OnReceive(c) ==
    /\ req[c] = "none"
    /\ req' = [req EXCEPT ![c] = "exec"]
    /\ UNCHANGED <<saved, streamVars, sent, failed>>

\* exec: the result of the handler, or of a command without one, is answered.
\* A stream is saved, so that CloseStream finds it, before anything is sent.
Exec(c) ==
    /\ req[c] = "exec"
    /\ IF c \in Streams
       THEN /\ saved' = saved \cup {c}
            /\ producer' = [producer EXCEPT ![c] = "read"]
            /\ timer' = [timer EXCEPT ![c] = {"armed"}]
            /\ req' = [req EXCEPT ![c] = "select"]
       ELSE req' = [req EXCEPT ![c] = "answer"] /\ UNCHANGED <<saved, producer, timer>>
    /\ UNCHANGED <<open, next, buffer, closed, lines, sent, failed>>

\* respCmd of an answer without stream.  onComplete is called at the end.
Answer(c) ==
    /\ req[c] = "answer"
    /\ req' = [req EXCEPT ![c] = "done"]
    /\ \/ sent' = [sent EXCEPT ![c] = Append(@, <<>>)] /\ UNCHANGED failed
       \/ failed' = failed \cup {c} /\ UNCHANGED sent
    /\ UNCHANGED <<saved, streamVars>>

-----------------------------------------------------------------------------
(* The producer.                                                           *)

ReadLine(c) ==
    /\ producer[c] = "read" /\ open[c] /\ next[c] <= MaxLines
    /\ next' = [next EXCEPT ![c] = @ + 1]
    /\ producer' = [producer EXCEPT ![c] = "put"]
    /\ UNCHANGED <<req, saved, open, buffer, closed, lines, timer, sent, failed>>

\* The producer blocks while the buffer is full.
PutLine(c) ==
    /\ producer[c] = "put"
    /\ Len(buffer[c]) < BufferSize
    /\ buffer' = [buffer EXCEPT ![c] = Append(@, next[c] - 1)]
    /\ producer' = [producer EXCEPT ![c] = "read"]
    /\ UNCHANGED <<req, saved, open, next, closed, lines, timer, sent, failed>>

\* Slip: the buffer stays open.
EndOfStreamSlip(c) ==
    /\ producer[c] = "read" /\ ~open[c]
    /\ producer' = [producer EXCEPT ![c] = "exit"]
    /\ UNCHANGED <<req, saved, open, next, buffer, closed, lines, timer, sent, failed>>

\* A stream that was closed ends; the buffer is closed.
EndOfStream(c) ==
    /\ producer[c] = "read" /\ ~open[c]
    /\ closed' = [closed EXCEPT ![c] = TRUE]
    /\ producer' = [producer EXCEPT ![c] = "exit"]
    /\ UNCHANGED <<req, saved, open, next, buffer, lines, timer, sent, failed>>

-----------------------------------------------------------------------------
(* The select loop.                                                        *)

TimerFires(c) ==
    /\ "armed" \in timer[c]
    /\ timer' = [timer EXCEPT ![c] = {"fired"}]
    /\ UNCHANGED <<req, saved, open, next, producer, buffer, closed, lines, sent, failed>>

\* Slip: the lines are not reset.
SendSlip(c, pc) ==
    IF lines[c] = <<>>
    THEN req' = [req EXCEPT ![c] = pc] /\ UNCHANGED <<lines, sent, failed>>
    ELSE \/ /\ sent' = [sent EXCEPT ![c] = Append(@, lines[c])]
            /\ req' = [req EXCEPT ![c] = pc]
            /\ UNCHANGED <<lines, failed>>
         \/ /\ failed' = failed \cup {c}
            /\ req' = [req EXCEPT ![c] = "done"]
            /\ UNCHANGED <<lines, sent>>

\* send: no package without lines.  An error ends the request.
Send(c, pc) ==
    IF lines[c] = <<>>
    THEN req' = [req EXCEPT ![c] = pc] /\ UNCHANGED <<lines, sent, failed>>
    ELSE \/ /\ sent' = [sent EXCEPT ![c] = Append(@, lines[c])]
            /\ lines' = [lines EXCEPT ![c] = <<>>]
            /\ req' = [req EXCEPT ![c] = pc]
            /\ UNCHANGED failed
         \/ /\ failed' = failed \cup {c}
            /\ req' = [req EXCEPT ![c] = "done"]
            /\ UNCHANGED <<lines, sent>>

OnTimer(c) ==
    /\ req[c] = "select" /\ "fired" \in timer[c]
    /\ timer' = [timer EXCEPT ![c] = @ \ {"fired"}]
    /\ Send(c, "select")
    /\ UNCHANGED <<saved, open, next, producer, buffer, closed>>

\* Slip: the timer is reset for the second line.
OnLineSlip(c) ==
    /\ req[c] = "select" /\ buffer[c] # <<>>
    /\ buffer' = [buffer EXCEPT ![c] = Tail(@)]
    /\ lines' = [lines EXCEPT ![c] = Append(@, Head(buffer[c]))]
    /\ req' = [req EXCEPT ![c] = IF Len(lines'[c]) >= MaxReadLines THEN "full" ELSE @]
    /\ timer' = [timer EXCEPT ![c] = IF Len(lines'[c]) = 2 THEN @ \cup {"armed"} ELSE @]
    /\ UNCHANGED <<saved, open, next, producer, closed, sent, failed>>

\* A line is collected.  The first one of a package arms the timer again; a
\* value that the timer has left in its channel stays there.
OnLine(c) ==
    /\ req[c] = "select" /\ buffer[c] # <<>>
    /\ buffer' = [buffer EXCEPT ![c] = Tail(@)]
    /\ lines' = [lines EXCEPT ![c] = Append(@, Head(buffer[c]))]
    /\ req' = [req EXCEPT ![c] = IF Len(lines'[c]) >= MaxReadLines THEN "full" ELSE @]
    /\ timer' = [timer EXCEPT ![c] = IF Len(lines'[c]) = 1 /\ MaxReadLines > 1
                                     THEN @ \cup {"armed"} ELSE @]
    /\ UNCHANGED <<saved, open, next, producer, closed, sent, failed>>

OnFull(c) ==
    /\ req[c] = "full"
    /\ Send(c, "select")
    /\ UNCHANGED <<saved, open, next, producer, buffer, closed, timer>>

\* The closed buffer yields the empty line: the rest is sent.
OnClosed(c) ==
    /\ req[c] = "select" /\ buffer[c] = <<>> /\ closed[c]
    /\ Send(c, "done")
    /\ UNCHANGED <<saved, open, next, producer, buffer, closed, timer>>

\* closeSteamHandler: a stream that was saved is closed.
CloseSteam(c) ==
    /\ c \in saved
    /\ open' = [open EXCEPT ![c] = FALSE]
    /\ UNCHANGED <<req, saved, next, producer, buffer, closed, lines, timer, sent, failed>>

-----------------------------------------------------------------------------
Producer(c) == ReadLine(c) \/ PutLine(c) \/ EndOfStream(c)
Collector(c) == OnTimer(c) \/ OnLine(c) \/ OnFull(c) \/ OnClosed(c)

Next ==
    \/ \E c \in Cmds : OnReceive(c) \/ Exec(c) \/ Answer(c)
    \/ \E c \in Streams : Producer(c) \/ Collector(c) \/ TimerFires(c) \/ CloseSteam(c)

\* Goroutines run, timers fire, and a select that is ready again and again in
\* the same case takes it in the end.  Nobody need close a stream.
Fairness ==
    /\ \A c \in Cmds : WF_vars(Exec(c)) /\ WF_vars(Answer(c))
    /\ \A c \in Streams :
          /\ WF_vars(Producer(c)) /\ WF_vars(TimerFires(c))
          /\ WF_vars(Collector(c))

Spec == Init /\ [][Next]_vars /\ Fairness

-----------------------------------------------------------------------------
(* Properties.                                                             *)

\* Sequence s is lines a + 1, a + 2 and so on.
Follows(s, a) == \A i \in 1 .. Len(s) : s[i] = a + i

\* The last line sent before package k of stream c.
Before(c, k) == IF k = 1 THEN 0 ELSE sent[c][k - 1][Len(sent[c][k - 1])]

\* Each package goes on where the one before ended, what was collected goes on
\* after the last package, the buffer after that, and the producer holds the rest.
Intact(c) ==
    LET from == Before(c, Len(sent[c]) + 1)
        held == IF producer[c] = "put" THEN 1 ELSE 0
    IN  /\ \A k \in 1 .. Len(sent[c]) :
              sent[c][k] # <<>> /\ Follows(sent[c][k], Before(c, k))
        /\ Follows(lines[c], from)
        /\ Follows(buffer[c], from + Len(lines[c]))
        /\ next[c] = from + Len(lines[c]) + Len(buffer[c]) + held + 1

\* No line is lost, doubled or out of order between the reader and the packages
\* that were sent, through buffer, timer and close.
StreamIntact == \A c \in Streams : Intact(c)

\* A package never has more than MaxReadLinesNum lines, nor none, and when the
\* request ends without an error all that was read has been sent.
PackagesFull ==
    \A c \in Streams :
        /\ \A i \in 1 .. Len(sent[c]) : Len(sent[c][i]) \in 1 .. MaxReadLines
        /\ req[c] = "done" /\ c \notin failed =>
               lines[c] = <<>> /\ buffer[c] = <<>> /\ producer[c] = "exit"

\* A line that was collected is sent although the stream pauses: the timer is
\* armed whenever lines wait.
LinesSent ==
    \A c \in Streams : lines[c] # <<>> ~> (lines[c] = <<>> \/ c \in failed)

\* When a stream is closed its request ends, and so does the producer, unless
\* sending failed.
ClosedStreamEnds ==
    \A c \in Streams : (c \in saved /\ ~open[c])
                          ~> (c \in failed \/ (req[c] = "done" /\ producer[c] = "exit"))

\* The producer of a request that ended ends too.  The code does not guarantee
\* it: after a failed send nobody reads the buffer the producer waits for.
ProducerEnds == \A c \in Streams : req[c] = "done" ~> producer[c] = "exit"
=============================================================================
