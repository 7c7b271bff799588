-------------------------- MODULE CmdManager_proofs --------------------------
(***************************************************************************)
(* Proofs that the response buffers of CmdManager are never written after  *)
(* they are closed and are closed only at the end of a call, for any set   *)
(* of commands, any buffer size and any number of packages.                *)
(***************************************************************************)
EXTENDS CmdManager, TLAPS

\* What call, buffer, writers and closer of one command know of each other.
\* The lock is what makes the second conjunct inductive: a buffer with a
\* writer at "send" is not closed, because LockFree is false.
Buffers(c) ==
    /\ reg[c] => ~closed[c]
    /\ \A k \in Packages : writer[c][k] = "send" => reg[c]
    /\ call[c] \in {"idle", "sent"} => ~reg[c] /\ ~closed[c] /\ result[c] = "none"
    /\ call[c] = "wait" => reg[c] /\ result[c] = "none"
    /\ call[c] = "close" => \/ result[c] = "resp" /\ c \notin Streams
                            \/ result[c] = "timeout"
    /\ user[c] = "none" <=> closer[c] = "none"
    /\ closer[c] # "none" => /\ call[c] = "done"
                             /\ result[c] = "resp"
    /\ user[c] = "closed" <=> closer[c] \in {"lock", "send", "done"}
    /\ closed[c] => /\ result[c] \in {"resp", "timeout"}
                    /\ result[c] = "resp" /\ c \in Streams => user[c] = "closed"

\* The inductive invariant.
CInv == TypeOK /\ \A c \in Cmds : Buffers(c)

\* Initially no command is registered and nothing is closed.
LEMMA InitInv == Init => CInv
BY CmdManagerAssumption DEF Init, CInv, TypeOK, Buffers, Packages

\* Every step of a goroutine keeps the invariant.
LEMMA StepInv == CInv /\ [Next]_vars => CInv'
<1> SUFFICES ASSUME CInv, [Next]_vars PROVE CInv'
    OBVIOUS
<1> USE CmdManagerAssumption DEF CInv, callVars, bufVars, userVars, execVars
<1>1. CASE UNCHANGED vars
    BY <1>1 DEF vars, TypeOK, Buffers
<1>2. ASSUME NEW c \in Cmds, SendCmd(c) PROVE CInv'
    <2>1. TypeOK'
        BY <1>2 DEF SendCmd, TypeOK
    <2>2. ASSUME NEW d \in Cmds PROVE Buffers(d)'
        <3>1. CASE d = c
            BY <1>2, <3>1 DEF SendCmd, TypeOK, Buffers
        <3>2. CASE d # c
            BY <1>2, <3>2 DEF SendCmd, TypeOK, Buffers
        <3>3. QED
            BY <3>1, <3>2
    <2>3. QED
        BY <2>1, <2>2
<1>3. ASSUME NEW c \in Cmds, WaitForResp(c) PROVE CInv'
    BY <1>3 DEF WaitForResp, TypeOK, Buffers
<1>4. ASSUME NEW c \in Cmds, Notify(c) PROVE CInv'
    <2>1. TypeOK'
        <3>1. CASE c \in Streams
            <4>1. /\ result' = [result EXCEPT ![c] = "resp"]
                  /\ call' = [call EXCEPT ![c] = "done"]
                  /\ consumer' = [consumer EXCEPT ![c] = "write"]
                  /\ user' = [user EXCEPT ![c] = "open"]
                  /\ closer' = [closer EXCEPT ![c] = "wait"]
                  /\ UNCHANGED <<callback, bufVars, writer, got, execVars>>
                BY <1>4, <3>1 DEF Notify
            <4>2. QED
                BY <4>1 DEF TypeOK
        <3>2. CASE c \notin Streams
            BY <1>4, <3>2 DEF Notify, TypeOK
        <3>3. QED
            BY <3>1, <3>2
    <2>2. ASSUME NEW d \in Cmds PROVE Buffers(d)'
        <3>1. CASE d = c
            BY <1>4, <3>1 DEF Notify, TypeOK, Buffers
        <3>2. CASE d # c
            BY <1>4, <3>2 DEF Notify, TypeOK, Buffers
        <3>3. QED
            BY <3>1, <3>2
    <2>3. QED
        BY <2>1, <2>2
<1>5. ASSUME NEW c \in Cmds, CloseAndReturn(c) PROVE CInv'
    BY <1>5 DEF CloseAndReturn, safeCloseBuffer, LockFree, TypeOK, Buffers
<1>6. ASSUME NEW c \in Cmds, Callback(c) PROVE CInv'
    BY <1>6 DEF Callback, TypeOK, Buffers
<1>7. ASSUME NEW c \in Cmds, Timeout(c) PROVE CInv'
    BY <1>7 DEF Timeout, TypeOK, Buffers
<1>8. ASSUME NEW c \in Cmds, OnReceive(c) PROVE CInv'
    BY <1>8 DEF OnReceive, TypeOK, Buffers, Packages
<1>9. ASSUME NEW c \in Cmds, NEW k \in Packages, LoadLock(c, k) PROVE CInv'
    BY <1>9 DEF LoadLock, TypeOK, Buffers
<1>10. ASSUME NEW c \in Cmds, NEW k \in Packages, Lock(c, k) PROVE CInv'
    BY <1>10 DEF Lock, TypeOK, Buffers
<1>11. ASSUME NEW c \in Cmds, NEW k \in Packages, WriteBuffer(c, k) PROVE CInv'
    BY <1>11 DEF WriteBuffer, TypeOK, Buffers
<1>12. ASSUME NEW c \in Cmds, Consume(c) PROVE CInv'
    BY <1>12 DEF Consume, TypeOK, Buffers
<1>13. ASSUME NEW c \in Cmds, ConsumerExit(c) PROVE CInv'
    BY <1>13 DEF ConsumerExit, TypeOK, Buffers
<1>14. ASSUME NEW c \in Cmds, WriteFails(c) PROVE CInv'
    BY <1>14 DEF WriteFails, TypeOK, Buffers
<1>15. ASSUME NEW c \in Cmds, Read(c) PROVE CInv'
    BY <1>15 DEF Read, TypeOK, Buffers
<1>16. ASSUME NEW c \in Cmds, Close(c) PROVE CInv'
    BY <1>16 DEF Close, TypeOK, Buffers
<1>17. ASSUME NEW c \in Cmds, ReceiveClose(c) PROVE CInv'
    BY <1>17 DEF ReceiveClose, TypeOK, Buffers
<1>18. ASSUME NEW c \in Cmds, CloserCloseBuffer(c) PROVE CInv'
    BY <1>18 DEF CloserCloseBuffer, safeCloseBuffer, LockFree, TypeOK, Buffers
<1>19. ASSUME NEW c \in Cmds, closeCmdStream(c) PROVE CInv'
    BY <1>19 DEF closeCmdStream, TypeOK, Buffers
<1>20. QED
    BY <1>1, <1>2, <1>3, <1>4, <1>5, <1>6, <1>7, <1>8, <1>9, <1>10, <1>11,
       <1>12, <1>13, <1>14, <1>15, <1>16, <1>17, <1>18, <1>19
       DEF Next, Caller, Writer, Consumer, Closer

\* The invariant holds in every state the tunnel reaches.
THEOREM CmdInvariant == Spec => []CInv
BY InitInv, StepInv, PTL DEF Spec

\* Type correctness, in particular that an executor sends no more packages
\* than the bound of the model.
THEOREM CmdTypeCorrect == Spec => []TypeOK
<1>1. CInv => TypeOK
    BY DEF CInv
<1>2. QED
    BY <1>1, CmdInvariant, PTL

\* safeWriteBuffer never sends on a closed channel: responses may arrive at
\* any time before, while and after safeCloseBuffer runs.
THEOREM NoSendOnClosedHolds == Spec => []NoSendOnClosed
<1>1. CInv => NoSendOnClosed
    BY DEF CInv, Buffers, NoSendOnClosed
<1>2. QED
    BY <1>1, CmdInvariant, PTL

\* waitForResp and the closer of a stream close a buffer once, and only when
\* the command was answered, timed out or had its stream closed.
THEOREM ClosedOnlyAtEndHolds == Spec => []ClosedOnlyAtEnd
<1>1. CInv => ClosedOnlyAtEnd
    BY DEF CInv, Buffers, ClosedOnlyAtEnd
<1>2. QED
    BY <1>1, CmdInvariant, PTL
==============================================================================
