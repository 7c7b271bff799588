----------------------------- MODULE CmdManager -----------------------------
(***************************************************************************)
(* The calling side of the command tunnel, pkg/component/cmd: cmdManager's *)
(* SendSync, SendAsync, waitForResp and the response buffers, and the Resp *)
(* a caller reads a stream from.  Manager and agent use the same code.     *)
(*                                                                         *)
(* A call is served by up to five kinds of goroutines: the one in          *)
(* waitForResp, the consumer of the response buffer, one writer for every  *)
(* response package received, the user of the stream, and the closer that  *)
(* waits for the user.  The buffer is a Go channel of BufferSize packages, *)
(* the pipe of a stream has no buffer: a write ends when it is read.       *)
(*                                                                         *)
(* The lock of a buffer is held from writer[c][k] = "send" on; closing the *)
(* buffer under the lock never blocks and is one step.                     *)
(***************************************************************************)
EXTENDS Integers, Sequences, FiniteSets

CONSTANTS Cmds,        \* commands, by UUID
          Async,       \* the ones sent with SendAsync
          Streams,     \* the ones answered with a stream
          BufferSize,  \* MaxBufferSize
          MaxPackages  \* bound: packages of one stream response

ASSUME CmdManagerAssumption ==
    /\ Async \subseteq Cmds
    /\ Streams \subseteq Cmds
    /\ BufferSize \in Nat \ {0}
    /\ MaxPackages \in Nat \ {0}

VARIABLES
    call,      \* the goroutine in SendSync, or the one SendAsync starts
    result,    \* what waitForResp returns
    callback,  \* has the callback of SendAsync been called
    reg,       \* is the command in bufferLocks and respBuffers
    buf,       \* respBuffers: packages in the channel
    closed,    \* is the channel closed
    writer,    \* safeWriteBuffer for each package
    consumer,  \* the goroutine that ranges over the channel
    got,       \* the consumer's index: packages taken so far
    user,      \* the user of a stream response
    closer,    \* the goroutine that waits for resp.close
    sent,      \* packages the executor has sent
    stopped    \* has the executor closed its stream

callVars == <<call, result, callback>>
bufVars == <<reg, buf, closed>>
userVars == <<user, closer>>
execVars == <<sent, stopped>>
vars == <<callVars, bufVars, writer, consumer, got, userVars, execVars>>

Packages == 1 .. MaxPackages

\* The type invariant.
TypeOK ==
    /\ call \in [Cmds -> {"idle", "sent", "wait", "close", "done"}]
    /\ result \in [Cmds -> {"none", "error", "resp", "timeout"}]
    /\ callback \in [Cmds -> BOOLEAN]
    /\ reg \in [Cmds -> BOOLEAN]
    /\ buf \in [Cmds -> Seq(Packages)]
    /\ closed \in [Cmds -> BOOLEAN]
    /\ writer \in [Cmds -> [Packages -> {"none", "start", "lock", "send",
                                         "done", "dropped"}]]
    /\ consumer \in [Cmds -> {"none", "recv", "notify", "write", "exit"}]
    /\ got \in [Cmds -> Nat]
    /\ user \in [Cmds -> {"none", "open", "closing", "closed"}]
    /\ closer \in [Cmds -> {"none", "wait", "lock", "send", "done"}]
    /\ sent \in [Cmds -> 0 .. MaxPackages]
    /\ stopped \in [Cmds -> BOOLEAN]

Init ==
    /\ call = [c \in Cmds |-> "idle"]
    /\ result = [c \in Cmds |-> "none"]
    /\ callback = [c \in Cmds |-> FALSE]
    /\ reg = [c \in Cmds |-> FALSE]
    /\ buf = [c \in Cmds |-> <<>>]
    /\ closed = [c \in Cmds |-> FALSE]
    /\ writer = [c \in Cmds |-> [k \in Packages |-> "none"]]
    /\ consumer = [c \in Cmds |-> "none"]
    /\ got = [c \in Cmds |-> 0]
    /\ user = [c \in Cmds |-> "none"]
    /\ closer = [c \in Cmds |-> "none"]
    /\ sent = [c \in Cmds |-> 0]
    /\ stopped = [c \in Cmds |-> FALSE]

-----------------------------------------------------------------------------
(* The buffer of a command and its lock.                                   *)

LockFree(c) == \A k \in Packages : writer[c][k] # "send"

\* Slip: the channel is forgotten and not closed.
safeCloseBufferSlip(c) ==
    /\ LockFree(c)
    /\ reg' = [reg EXCEPT ![c] = FALSE]
    /\ UNCHANGED <<buf, closed>>

\* The channel is closed and forgotten, when the command has one.
safeCloseBuffer(c) ==
    /\ LockFree(c)
    /\ closed' = [closed EXCEPT ![c] = @ \/ reg[c]]
    /\ reg' = [reg EXCEPT ![c] = FALSE]
    /\ UNCHANGED buf

-----------------------------------------------------------------------------
(* SendSync and SendAsync.                                                 *)

\* sendCmd comes first; when it fails its error is returned.
SendCmd(c) ==
    /\ call[c] = "idle"
    /\ \/ call' = [call EXCEPT ![c] = "sent"] /\ UNCHANGED result
       \/ /\ call' = [call EXCEPT ![c] = "done"]
          /\ result' = [result EXCEPT ![c] = "error"]
    /\ UNCHANGED <<callback, bufVars, writer, consumer, got, userVars, execVars>>

\* waitForResp registers buffer and lock and starts the consumer.  A writer
\* looks for the lock first, so that it never sees only one of the two.
WaitForResp(c) ==
    /\ call[c] = "sent"
    /\ call' = [call EXCEPT ![c] = "wait"]
    /\ reg' = [reg EXCEPT ![c] = TRUE]
    /\ consumer' = [consumer EXCEPT ![c] = "recv"]
    /\ UNCHANGED <<result, callback, buf, closed, writer, got, userVars,
                   execVars>>

\* The select takes the result from notifyCh.  A stream gets a closer and is
\* returned at once; otherwise the buffer is closed first.
Notify(c) ==
    /\ call[c] = "wait"
    /\ consumer[c] = "notify"
    /\ result' = [result EXCEPT ![c] = "resp"]
    /\ IF c \in Streams
       THEN /\ call' = [call EXCEPT ![c] = "done"]
            /\ consumer' = [consumer EXCEPT ![c] = "write"]
            /\ user' = [user EXCEPT ![c] = "open"]
            /\ closer' = [closer EXCEPT ![c] = "wait"]
       ELSE /\ call' = [call EXCEPT ![c] = "close"]
            /\ consumer' = [consumer EXCEPT ![c] = "recv"]
            /\ UNCHANGED userVars
    /\ UNCHANGED <<callback, bufVars, writer, got, execVars>>

\* Slip: every command waits with context.Background().
TimeoutSlip(c) == FALSE /\ UNCHANGED vars

\* The select takes ctx.Done(); a command sent with SendAsync has no timeout.
Timeout(c) ==
    /\ c \notin Async
    /\ call[c] = "wait"
    /\ call' = [call EXCEPT ![c] = "close"]
    /\ result' = [result EXCEPT ![c] = "timeout"]
    /\ UNCHANGED <<callback, bufVars, writer, consumer, got, userVars, execVars>>

CloseAndReturn(c) ==
    /\ call[c] = "close"
    /\ safeCloseBuffer(c)
    /\ call' = [call EXCEPT ![c] = "done"]
    /\ UNCHANGED <<result, callback, writer, consumer, got, userVars, execVars>>

Callback(c) ==
    /\ c \in Async
    /\ call[c] = "done"
    /\ result[c] # "error"
    /\ ~callback[c]
    /\ callback' = [callback EXCEPT ![c] = TRUE]
    /\ UNCHANGED <<call, result, bufVars, writer, consumer, got, userVars,
                   execVars>>

-----------------------------------------------------------------------------
(* Response packages.                                                      *)

\* The executor, once it has the request, sends one package, or one after the
\* other until its stream is closed.  onReceive starts a goroutine for each.
OnReceive(c) ==
    /\ call[c] # "idle" /\ result[c] # "error"
    /\ ~stopped[c]
    /\ sent[c] < IF c \in Streams THEN MaxPackages ELSE 1
    /\ sent' = [sent EXCEPT ![c] = @ + 1]
    /\ writer' = [writer EXCEPT ![c][sent[c] + 1] = "start"]
    /\ UNCHANGED <<callVars, bufVars, consumer, got, userVars, stopped>>

\* safeWriteBuffer: a package whose command has no lock is skipped.
LoadLock(c, k) ==
    /\ writer[c][k] = "start"
    /\ writer' = [writer EXCEPT ![c][k] = IF reg[c] THEN "lock" ELSE "dropped"]
    /\ UNCHANGED <<callVars, bufVars, consumer, got, userVars, execVars>>

\* Slip: the buffer is not looked up again under the lock.
LockSlip(c, k) ==
    /\ writer[c][k] = "lock"
    /\ LockFree(c)
    /\ writer' = [writer EXCEPT ![c][k] = "send"]
    /\ UNCHANGED <<callVars, bufVars, consumer, got, userVars, execVars>>

\* With the lock: the buffer is gone, or the package is to be sent to it.
Lock(c, k) ==
    /\ writer[c][k] = "lock"
    /\ LockFree(c)
    /\ writer' = [writer EXCEPT ![c][k] = IF reg[c] THEN "send" ELSE "dropped"]
    /\ UNCHANGED <<callVars, bufVars, consumer, got, userVars, execVars>>

\* The send blocks, with the lock held, while the channel is full.
WriteBuffer(c, k) ==
    /\ writer[c][k] = "send"
    /\ Len(buf[c]) < BufferSize
    /\ buf' = [buf EXCEPT ![c] = Append(@, k)]
    /\ writer' = [writer EXCEPT ![c][k] = "done"]
    /\ UNCHANGED <<callVars, reg, closed, consumer, got, userVars, execVars>>

\* Slip: the index is counted before it is compared.
ConsumeSlipIndex(c) ==
    /\ consumer[c] = "recv"
    /\ buf[c] # <<>>
    /\ buf' = [buf EXCEPT ![c] = Tail(@)]
    /\ got' = [got EXCEPT ![c] = @ + 1]
    /\ consumer' = [consumer EXCEPT ![c] = IF got'[c] = 0 THEN "notify" ELSE "recv"]
    /\ UNCHANGED <<callVars, reg, closed, writer, userVars, execVars>>

\* The consumer takes a package; the first one goes to notifyCh, which blocks
\* until waitForResp takes it, the others of a stream to the pipe.
Consume(c) ==
    /\ consumer[c] = "recv"
    /\ buf[c] # <<>>
    /\ buf' = [buf EXCEPT ![c] = Tail(@)]
    /\ got' = [got EXCEPT ![c] = @ + 1]
    /\ consumer' = [consumer EXCEPT ![c] = IF got[c] = 0 THEN "notify"
                                           ELSE IF c \in Streams THEN "write"
                                           ELSE "recv"]
    /\ UNCHANGED <<callVars, reg, closed, writer, userVars, execVars>>

\* The range over a closed channel ends when the channel is empty.
ConsumerExit(c) ==
    /\ consumer[c] = "recv"
    /\ buf[c] = <<>> /\ closed[c]
    /\ consumer' = [consumer EXCEPT ![c] = "exit"]
    /\ UNCHANGED <<callVars, bufVars, writer, got, userVars, execVars>>

-----------------------------------------------------------------------------
(* The stream of a response.                                               *)

\* A read takes what the consumer writes to the pipe.
Read(c) ==
    /\ user[c] = "open"
    /\ consumer[c] = "write"
    /\ consumer' = [consumer EXCEPT ![c] = "recv"]
    /\ UNCHANGED <<callVars, bufVars, writer, got, userVars, execVars>>

\* resp.Close() closes the pipe, then waits for the closer.
Close(c) ==
    /\ user[c] = "open"
    /\ user' = [user EXCEPT ![c] = "closing"]
    /\ UNCHANGED <<callVars, bufVars, writer, consumer, got, closer, execVars>>

\* A write to the closed pipe fails and the consumer returns.
WriteFails(c) ==
    /\ user[c] \in {"closing", "closed"}
    /\ consumer[c] = "write"
    /\ consumer' = [consumer EXCEPT ![c] = "exit"]
    /\ UNCHANGED <<callVars, bufVars, writer, got, userVars, execVars>>

ReceiveClose(c) ==
    /\ user[c] = "closing"
    /\ closer[c] = "wait"
    /\ user' = [user EXCEPT ![c] = "closed"]
    /\ closer' = [closer EXCEPT ![c] = "lock"]
    /\ UNCHANGED <<callVars, bufVars, writer, consumer, got, execVars>>

CloserCloseBuffer(c) ==
    /\ closer[c] = "lock"
    /\ safeCloseBuffer(c)
    /\ closer' = [closer EXCEPT ![c] = "send"]
    /\ UNCHANGED <<callVars, writer, consumer, got, user, execVars>>

\* Slip: a CloseStream command that fails is not sent again.
closeCmdStreamSlip(c) ==
    /\ closer[c] = "send"
    /\ closer' = [closer EXCEPT ![c] = "done"]
    /\ stopped' \in {stopped, [stopped EXCEPT ![c] = TRUE]}
    /\ UNCHANGED <<callVars, bufVars, writer, consumer, got, user, sent>>

\* closeCmdStream sends CloseStream until it succeeds.  The executor saved the
\* stream before its first response, so that closeSteamHandler finds it.
closeCmdStream(c) ==
    /\ closer[c] = "send"
    /\ closer' = [closer EXCEPT ![c] = "done"]
    /\ stopped' = [stopped EXCEPT ![c] = TRUE]
    /\ UNCHANGED <<callVars, bufVars, writer, consumer, got, user, sent>>

-----------------------------------------------------------------------------
Writer(c, k) == LoadLock(c, k) \/ Lock(c, k) \/ WriteBuffer(c, k)

Consumer(c) == Consume(c) \/ ConsumerExit(c) \/ WriteFails(c)

Caller(c) == WaitForResp(c) \/ Notify(c) \/ CloseAndReturn(c) \/ Callback(c)

Closer(c) == ReceiveClose(c) \/ CloserCloseBuffer(c) \/ closeCmdStream(c)

Next == \E c \in Cmds :
            \/ SendCmd(c) \/ Caller(c) \/ Timeout(c) \/ OnReceive(c)
            \/ \E k \in Packages : Writer(c, k)
            \/ Consumer(c) \/ Read(c) \/ Close(c) \/ Closer(c)

\* Goroutines that can run do run, a timer fires, and a sync.Mutex is not
\* kept from a goroutine that waits for it forever (hence SF).  Clients need
\* not send, read or close; the executor need not answer.
Fairness == \A c \in Cmds :
    /\ SF_vars(Caller(c)) /\ WF_vars(Timeout(c))
    /\ \A k \in Packages : SF_vars(Writer(c, k))
    /\ WF_vars(Consumer(c)) /\ SF_vars(Closer(c))

Spec == Init /\ [][Next]_vars /\ Fairness

-----------------------------------------------------------------------------
(* Properties.                                                             *)

\* No writer sends on a closed channel, which would panic, although responses
\* arrive while waitForResp times out or the stream is closed.
NoSendOnClosed ==
    \A c \in Cmds, k \in Packages : writer[c][k] = "send" => ~closed[c]

\* A channel is closed once, and only after its command was answered, timed
\* out, or had its stream closed by the user.
ClosedOnlyAtEnd ==
    \A c \in Cmds : closed[c] =>
        /\ ~reg[c]
        /\ result[c] \in {"resp", "timeout"}
        /\ result[c] = "resp" /\ c \in Streams => user[c] = "closed"

\* SendSync returns: "will block until received response or timeout".
SyncReturns == \A c \in Cmds \ Async : call[c] = "sent" ~> call[c] = "done"

\* SendAsync calls the callback if a response is received.
CallbackCalled ==
    \A c \in Async : sent[c] > 0 ~> (callback[c] \/ result[c] = "error")

\* A response that arrives when the buffer is registered is not lost: the
\* callback of SendAsync is called.
BufferedResponseCalls ==
    \A c \in Async : (reg[c] /\ \E k \in Packages : writer[c][k] = "start")
                        ~> callback[c]

\* After a response without a stream the consumer goroutine ends.
ConsumerStops ==
    \A c \in Cmds \ Streams : result[c] = "resp" ~> consumer[c] = "exit"

\* Closing a stream response closes the stream of the executor.
CloseReachesExecutor == \A c \in Cmds : user[c] = "closing" ~> stopped[c]
=============================================================================
