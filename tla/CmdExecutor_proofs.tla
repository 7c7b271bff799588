------------------------- MODULE CmdExecutor_proofs -------------------------
(***************************************************************************)
(* Proofs about CmdExecutor for any number of commands and streams, lines, *)
(* batch and buffer size: the lines of a stream arrive once and in order,  *)
(* and a request that ends well has sent them all.                         *)
(***************************************************************************)
EXTENDS CmdExecutor, TLAPS

-----------------------------------------------------------------------------
(* The inductive invariant.                                                *)

\* What the goroutines of stream c know of each other: the batch is below its
\* limit while the loop selects, the producer is the one who closes the buffer,
\* and a request that ended without an error has emptied it.
ReqOK(c) ==
    /\ req[c] # "answer"
    /\ req[c] \in {"none", "exec"} => producer[c] = "none"
    /\ req[c] \in {"none", "exec", "select"} => Len(lines[c]) < MaxReadLines
    /\ Len(lines[c]) <= MaxReadLines
    /\ closed[c] => producer[c] = "exit"
    /\ \A k \in 1 .. Len(sent[c]) : Len(sent[c][k]) \in 1 .. MaxReadLines
    /\ req[c] = "done" /\ c \notin failed =>
          lines[c] = <<>> /\ buffer[c] = <<>> /\ closed[c]

XInv == /\ TypeOK
        /\ StreamIntact
        /\ \A c \in Streams : ReqOK(c)

\* What a step leaves of stream d when it is the step of another command.
Same(d) ==
    /\ req'[d] = req[d] /\ next'[d] = next[d] /\ producer'[d] = producer[d]
    /\ buffer'[d] = buffer[d] /\ closed'[d] = closed[d] /\ lines'[d] = lines[d]
    /\ sent'[d] = sent[d] /\ (d \in failed' <=> d \in failed)

-----------------------------------------------------------------------------
(* Facts used by every step.                                               *)

\* The constants, as the provers like them.
LEMMA Constants == Streams \subseteq Cmds /\ MaxReadLines \in Nat /\ MaxReadLines >= 1 /\ MaxLines \in Nat
BY CmdExecutorAssumption

\* A function stays one when a value is replaced.
LEMMA ExceptType ==
    ASSUME NEW A, NEW B, NEW f \in [A -> B], NEW x, NEW v \in B
    PROVE  [f EXCEPT ![x] = v] \in [A -> B]
OBVIOUS

\* The lines of a stream do not depend on what else happens to it.
LEMMA IntactKept ==
    ASSUME NEW d \in Streams, Intact(d), sent'[d] = sent[d], lines'[d] = lines[d],
           buffer'[d] = buffer[d], next'[d] = next[d],
           producer'[d] = "put" <=> producer[d] = "put"
    PROVE  Intact(d)'
<1>1. \A k : Before(d, k)' = Before(d, k)
    BY DEF Before
<1>2. QED
    BY <1>1 DEF Intact, Follows

\* A stream that a step leaves alone stays as it should be.
LEMMA Frame ==
    ASSUME NEW d \in Streams, Intact(d), ReqOK(d), Same(d)
    PROVE  Intact(d)' /\ ReqOK(d)'
<1>1. Intact(d)'
    BY IntactKept DEF Same
<1>2. ReqOK(d)'
    BY DEF Same, ReqOK
<1>3. QED
    BY <1>1, <1>2

\* The empty sequence, Append and Tail.
LEMMA SeqFacts ==
    /\ \A S : <<>> \in Seq(S) /\ Len(<<>>) = 0
    /\ \A S : \A s \in Seq(S) :
          /\ Len(s) \in Nat /\ (s = <<>> <=> Len(s) = 0)
          /\ \A i \in 1 .. Len(s) : s[i] \in S
    /\ \A S : \A s \in Seq(S), e \in S :
          /\ Append(s, e) \in Seq(S) /\ Len(Append(s, e)) = Len(s) + 1
          /\ Append(s, e)[Len(s) + 1] = e
          /\ \A i \in 1 .. Len(s) : Append(s, e)[i] = s[i]
    /\ \A S : \A s \in Seq(S) : s # <<>> =>
          /\ Head(s) = s[1] /\ Tail(s) \in Seq(S) /\ Len(Tail(s)) = Len(s) - 1
          /\ \A i \in 1 .. Len(s) - 1 : Tail(s)[i] = s[i + 1]
<1>1. \A S : <<>> \in Seq(S) /\ Len(<<>>) = 0
    OBVIOUS
<1>2. ASSUME NEW S, NEW s \in Seq(S)
      PROVE  /\ Len(s) \in Nat /\ (s = <<>> <=> Len(s) = 0)
             /\ \A i \in 1 .. Len(s) : s[i] \in S
    OBVIOUS
<1>3. ASSUME NEW S, NEW s \in Seq(S), NEW e \in S
      PROVE  /\ Append(s, e) \in Seq(S) /\ Len(Append(s, e)) = Len(s) + 1
             /\ Append(s, e)[Len(s) + 1] = e
             /\ \A i \in 1 .. Len(s) : Append(s, e)[i] = s[i]
    OBVIOUS
<1>4. ASSUME NEW S, NEW s \in Seq(S), s # <<>>
      PROVE  /\ Head(s) = s[1] /\ Tail(s) \in Seq(S) /\ Len(Tail(s)) = Len(s) - 1
             /\ \A i \in 1 .. Len(s) - 1 : Tail(s)[i] = s[i + 1]
    BY <1>4
<1>5. QED
    BY <1>1, <1>2, <1>3, <1>4

\* Nothing is under way.
LEMMA InitInv == Init => XInv
<1> SUFFICES ASSUME Init PROVE XInv
    OBVIOUS
<1>1. TypeOK
    BY CmdExecutorAssumption, SeqFacts DEF Init, TypeOK, Lines
<1>2. ASSUME NEW c \in Streams
      PROVE  /\ sent[c] = <<>> /\ lines[c] = <<>> /\ buffer[c] = <<>> /\ next[c] = 1
             /\ req[c] = "none" /\ producer[c] = "none" /\ ~closed[c]
             /\ MaxReadLines \in Nat \ {0}
             /\ Len(sent[c]) = 0 /\ Len(lines[c]) = 0 /\ Len(buffer[c]) = 0
    <2>1. /\ sent[c] = <<>> /\ lines[c] = <<>> /\ buffer[c] = <<>> /\ next[c] = 1
          /\ req[c] = "none" /\ producer[c] = "none" /\ ~closed[c]
        BY CmdExecutorAssumption DEF Init
    <2>2. QED
        BY <2>1, SeqFacts, CmdExecutorAssumption
<1>3. ASSUME NEW c \in Streams PROVE Intact(c)
    <2>1. Before(c, Len(sent[c]) + 1) = 0
        BY <1>2 DEF Before
    <2>2. QED
        BY <1>2, <2>1 DEF Intact, Follows
<1>4. ASSUME NEW c \in Streams PROVE ReqOK(c)
    BY <1>2 DEF ReqOK
<1>5. QED
    BY <1>1, <1>3, <1>4 DEF XInv, StreamIntact

-----------------------------------------------------------------------------
(* Every step keeps the invariant.                                         *)

\* A step keeps the invariant when it keeps the types, the stream it is about
\* and every other stream.
LEMMA OneStream ==
    ASSUME XInv, NEW c, TypeOK', c \in Streams => Intact(c)' /\ ReqOK(c)',
           \A d \in Streams : d # c => Same(d)
    PROVE  XInv'
<1>1. ASSUME NEW d \in Streams PROVE Intact(d)' /\ ReqOK(d)'
    BY Frame DEF XInv, StreamIntact
<1>2. QED
    BY <1>1 DEF XInv, StreamIntact

\* Requests: neither a stream that starts nor an answer without one has lines.
LEMMA RequestSteps ==
    ASSUME XInv, NEW c \in Cmds, OnReceive(c) \/ Exec(c) \/ Answer(c)
    PROVE  XInv'
<1>1. CASE OnReceive(c)
    <2>1. TypeOK'
        BY <1>1 DEF OnReceive, XInv, TypeOK, streamVars
    <2>2. \A d \in Streams : d # c => Same(d)
        BY <1>1, Constants DEF OnReceive, XInv, TypeOK, streamVars, Same
    <2>3. c \in Streams => Intact(c)' /\ ReqOK(c)'
        <3> SUFFICES ASSUME c \in Streams PROVE Intact(c)' /\ ReqOK(c)'
            OBVIOUS
        <3>1. Intact(c)'
            BY <1>1, IntactKept DEF OnReceive, XInv, StreamIntact, streamVars
        <3>2. ReqOK(c)'
            BY <1>1 DEF OnReceive, XInv, TypeOK, streamVars, ReqOK
        <3>3. QED
            BY <3>1, <3>2
    <2>4. QED
        BY <2>1, <2>2, <2>3, OneStream
<1>2. CASE Exec(c) /\ c \in Streams
    <2>1. TypeOK'
        <3>1. /\ req' \in [Cmds -> {"none", "exec", "answer", "select", "full", "done"}]
              /\ producer' \in [Streams -> {"none", "read", "put", "exit"}]
            BY <1>2 DEF Exec, XInv, TypeOK
        <3>2. timer' \in [Streams -> SUBSET {"armed", "fired"}] /\ saved' \in SUBSET Streams
            <4>1. {"armed"} \in SUBSET {"armed", "fired"}
                OBVIOUS
            <4>2. /\ timer \in [Streams -> SUBSET {"armed", "fired"}]
                  /\ timer' = [timer EXCEPT ![c] = {"armed"}]
                  /\ saved \in SUBSET Streams /\ saved' = saved \cup {c}
                BY <1>2 DEF Exec, XInv, TypeOK
            <4>3. saved' \in SUBSET Streams
                BY <1>2, <4>2
            <4>4. QED
                BY <4>1, <4>2, <4>3, ExceptType
        <3>3. QED
            BY <1>2, <3>1, <3>2 DEF Exec, XInv, TypeOK
    <2>2. \A d \in Streams : d # c => Same(d)
        BY <1>2, Constants DEF Exec, XInv, TypeOK, Same
    <2>3. producer[c] = "none" /\ producer'[c] = "read" /\ req'[c] = "select" /\ req[c] = "exec"
        BY <1>2 DEF Exec, XInv, TypeOK, ReqOK
    <2>4. Intact(c)'
        BY <1>2, <2>3, IntactKept DEF Exec, XInv, StreamIntact
    <2>5. ReqOK(c)'
        BY <1>2, <2>3 DEF Exec, XInv, ReqOK
    <2>6. QED
        BY <2>1, <2>2, <2>4, <2>5, OneStream
<1>3. CASE Exec(c) /\ c \notin Streams
    <2>1. TypeOK'
        BY <1>3 DEF Exec, XInv, TypeOK
    <2>2. \A d \in Streams : d # c => Same(d)
        BY <1>3, Constants DEF Exec, XInv, TypeOK, Same
    <2>3. QED
        BY <1>3, <2>1, <2>2, OneStream
<1>4. CASE Answer(c)
    <2>1. c \notin Streams
        BY <1>4 DEF Answer, XInv, ReqOK
    <2>2. sent[c] \in Seq(Seq(Lines)) /\ Append(sent[c], <<>>) \in Seq(Seq(Lines))
        BY SeqFacts DEF XInv, TypeOK
    <2>3. sent' \in [Cmds -> Seq(Seq(Lines))] /\ failed' \in SUBSET Cmds
        BY <1>4, <2>2 DEF Answer, XInv, TypeOK
    <2>4. TypeOK'
        BY <1>4, <2>3 DEF Answer, XInv, TypeOK, streamVars
    <2>5. \A d \in Streams : d # c => Same(d)
        BY <1>4, Constants DEF Answer, XInv, TypeOK, Same, streamVars
    <2>6. QED
        BY <2>1, <2>4, <2>5, OneStream
<1>5. QED
    BY <1>1, <1>2, <1>3, <1>4

\* A step of the timer or a close touches no line.
LEMMA TimerAndClose ==
    ASSUME XInv, NEW c \in Streams, TimerFires(c) \/ CloseSteam(c)
    PROVE  XInv'
<1>1. UNCHANGED <<req, saved, next, producer, buffer, closed, lines, sent, failed>>
    BY DEF TimerFires, CloseSteam
<1>2. TypeOK'
    <2>1. timer' \in [Streams -> SUBSET {"armed", "fired"}]
        <3>1. {"fired"} \in SUBSET {"armed", "fired"}
            OBVIOUS
        <3>2. /\ timer \in [Streams -> SUBSET {"armed", "fired"}]
              /\ timer' = timer \/ timer' = [timer EXCEPT ![c] = {"fired"}]
            BY DEF TimerFires, CloseSteam, XInv, TypeOK
        <3>3. QED
            BY <3>1, <3>2, ExceptType
    <2>2. open' \in [Streams -> BOOLEAN]
        BY DEF TimerFires, CloseSteam, XInv, TypeOK
    <2>3. QED
        BY <1>1, <2>1, <2>2 DEF XInv, TypeOK
<1>3. \A d \in Streams : Same(d)
    BY <1>1 DEF Same
<1>4. QED
    BY <1>2, <1>3, OneStream, Frame DEF XInv, StreamIntact

\* The sequences of a stream, and the lines sent before a package.
LEMMA StreamFacts ==
    ASSUME XInv, NEW c \in Streams
    PROVE  /\ c \in Cmds /\ sent[c] \in Seq(Seq(Lines)) /\ Len(sent[c]) \in Nat
           /\ lines[c] \in Seq(Lines) /\ Len(lines[c]) \in Nat
           /\ buffer[c] \in Seq(Lines) /\ Len(buffer[c]) \in Nat
           /\ next[c] \in 1 .. MaxLines + 1
           /\ \A k \in 1 .. Len(sent[c]) + 1 : Before(c, k) \in Nat
           /\ Intact(c) /\ ReqOK(c)
<1>1. /\ c \in Cmds /\ sent[c] \in Seq(Seq(Lines)) /\ lines[c] \in Seq(Lines)
      /\ buffer[c] \in Seq(Lines) /\ next[c] \in 1 .. MaxLines + 1
    BY Constants DEF XInv, TypeOK
<1>2. Len(sent[c]) \in Nat /\ Len(lines[c]) \in Nat /\ Len(buffer[c]) \in Nat
    BY <1>1, SeqFacts
<1>3. Intact(c) /\ ReqOK(c)
    BY DEF XInv, StreamIntact
<1>4. ASSUME NEW k \in 1 .. Len(sent[c]) + 1 PROVE Before(c, k) \in Nat
    <2>1. CASE k = 1
        BY <2>1 DEF Before
    <2>2. CASE k # 1
        <3>1. k - 1 \in 1 .. Len(sent[c])
            BY <1>2, <2>2
        <3>2. sent[c][k - 1] \in Seq(Lines) /\ sent[c][k - 1] # <<>>
            BY <1>1, <1>3, <3>1, SeqFacts DEF Intact
        <3>3. Len(sent[c][k - 1]) \in 1 .. Len(sent[c][k - 1])
            BY <3>2, SeqFacts
        <3>4. sent[c][k - 1][Len(sent[c][k - 1])] \in Lines
            BY <3>2, <3>3, SeqFacts
        <3>5. QED
            BY <2>2, <3>4 DEF Before, Lines
    <2>3. QED
        BY <2>1, <2>2
<1>5. QED
    BY <1>1, <1>2, <1>3, <1>4

\* The producer reads the next line, puts it behind the last one, or closes the
\* buffer when it holds nothing.
LEMMA ProducerSteps ==
    ASSUME XInv, NEW c \in Streams, Producer(c)
    PROVE  XInv'
<1> DEFINE from == Before(c, Len(sent[c]) + 1)
<1>1. UNCHANGED <<req, saved, open, lines, timer, sent, failed>>
    BY DEF Producer, ReadLine, PutLine, EndOfStream
<1>2. \A d \in Streams : d # c => Same(d)
    BY <1>1 DEF Producer, ReadLine, PutLine, EndOfStream, XInv, TypeOK, Same
<1>3. from \in Nat /\ (\A k : Before(c, k)' = Before(c, k))
    BY <1>1, StreamFacts DEF Before
<1>4. CASE ReadLine(c)
    <2>1. next'[c] = next[c] + 1 /\ producer'[c] = "put" /\ producer[c] = "read"
        BY <1>4 DEF ReadLine, XInv, TypeOK
    <2>2. next[c] + 1 \in 1 .. MaxLines + 1
        BY <1>4, Constants, StreamFacts DEF ReadLine
    <2>3. next' \in [Streams -> 1 .. MaxLines + 1]
        BY <1>4, <2>2, ExceptType DEF ReadLine, XInv, TypeOK
    <2>4. producer' \in [Streams -> {"none", "read", "put", "exit"}]
        BY <1>4 DEF ReadLine, XInv, TypeOK
    <2>5. TypeOK'
        BY <1>4, <2>3, <2>4 DEF ReadLine, XInv, TypeOK
    <2>6. Intact(c)'
        <3>1. next'[c] = from + Len(lines[c]) + Len(buffer[c]) + 1 + 1
            <4>1. next[c] = from + Len(lines[c]) + Len(buffer[c]) + 0 + 1
                BY <2>1, StreamFacts DEF Intact
            <4>2. QED
                BY <1>3, <2>1, <4>1, StreamFacts
        <3>2. UNCHANGED <<sent, lines, buffer>>
            BY <1>4 DEF ReadLine
        <3>3. QED
            BY <1>3, <2>1, <3>1, <3>2, StreamFacts DEF Intact
    <2>7. ReqOK(c)'
        BY <1>4, <2>1, StreamFacts DEF ReadLine, ReqOK
    <2>8. QED
        BY <1>2, <2>5, <2>6, <2>7, OneStream
<1>5. CASE PutLine(c)
    <2>1. /\ buffer'[c] = Append(buffer[c], next[c] - 1)
          /\ producer'[c] = "read" /\ producer[c] = "put"
        BY <1>5 DEF PutLine, XInv, TypeOK
    <2>2. next[c] = from + Len(lines[c]) + Len(buffer[c]) + 2
        BY <1>3, <2>1, StreamFacts DEF Intact
    <2>3. next[c] - 1 \in Lines
        <3>1. /\ Len(lines[c]) \in Nat /\ Len(buffer[c]) \in Nat
              /\ next[c] \in 1 .. MaxLines + 1 /\ MaxLines \in Nat
            BY StreamFacts, Constants
        <3>2. next[c] >= 2
            BY <1>3, <2>2, <3>1
        <3>3. QED
            BY <3>1, <3>2 DEF Lines
    <2>4. /\ buffer'[c] \in Seq(Lines) /\ Len(buffer'[c]) = Len(buffer[c]) + 1
          /\ buffer'[c][Len(buffer[c]) + 1] = next[c] - 1
          /\ \A i \in 1 .. Len(buffer[c]) : buffer'[c][i] = buffer[c][i]
        BY <2>1, <2>3, StreamFacts, SeqFacts
    <2>5. buffer' \in [Streams -> Seq(Lines)]
        BY <1>5, <2>1, <2>4, ExceptType DEF PutLine, XInv, TypeOK
    <2>6. producer' \in [Streams -> {"none", "read", "put", "exit"}]
        BY <1>5 DEF PutLine, XInv, TypeOK
    <2>7. TypeOK'
        BY <1>5, <2>5, <2>6 DEF PutLine, XInv, TypeOK
    <2>8. Follows(buffer'[c], from + Len(lines[c]))
        <3>1. /\ Follows(buffer[c], from + Len(lines[c]))
              /\ Len(buffer[c]) \in Nat /\ Len(lines[c]) \in Nat
            BY StreamFacts DEF Intact
        <3>2. ASSUME NEW i \in 1 .. Len(buffer'[c])
              PROVE  buffer'[c][i] = from + Len(lines[c]) + i
            <4>1. CASE i \in 1 .. Len(buffer[c])
                BY <2>4, <3>1, <4>1 DEF Follows
            <4>2. CASE i = Len(buffer[c]) + 1
                <5>1. next[c] - 1 = from + Len(lines[c]) + (Len(buffer[c]) + 1)
                    BY <1>3, <2>2, <3>1
                <5>2. buffer'[c][i] = next[c] - 1
                    BY <2>4, <4>2
                <5>3. QED
                    BY <4>2, <5>1, <5>2
            <4>3. QED
                BY <2>4, <3>1, <4>1, <4>2
        <3>3. QED
            BY <3>2 DEF Follows
    <2>9. Intact(c)'
        <3>1. next'[c] = from + Len(lines[c]) + Len(buffer'[c]) + 0 + 1
            <4>1. /\ Len(lines[c]) \in Nat /\ Len(buffer[c]) \in Nat /\ next'[c] = next[c]
                  /\ Len(buffer'[c]) = Len(buffer[c]) + 1
                BY <1>5, <2>4, StreamFacts DEF PutLine
            <4>2. PICK p \in Nat : p = from
                BY <1>3
            <4>3. next[c] = p + Len(lines[c]) + Len(buffer[c]) + 2
                BY <2>2, <4>2, Zenon
            <4>4. next'[c] = p + Len(lines[c]) + Len(buffer'[c]) + 0 + 1
                <5>1. PICK l \in Nat, m \in Nat : l = Len(lines[c]) /\ m = Len(buffer[c])
                    BY <4>1
                <5>2. next[c] = p + l + m + 2 /\ Len(buffer'[c]) = m + 1 /\ next'[c] = next[c]
                    BY <4>1, <4>3, <5>1, Zenon
                <5>3. p + l + m + 2 = p + l + (m + 1) + 0 + 1
                    OBVIOUS
                <5>4. QED
                    BY <5>1, <5>2, <5>3, Zenon
            <4>5. QED
                BY <4>2, <4>4
        <3>2. QED
            BY <1>1, <1>3, <2>1, <2>8, <3>1, StreamFacts DEF Intact
    <2>10. req[c] # "done" \/ c \in failed
        BY <2>1, StreamFacts DEF ReqOK
    <2>11. ReqOK(c)'
        BY <1>5, <2>1, <2>10, StreamFacts DEF PutLine, ReqOK
    <2>12. QED
        BY <1>2, <2>7, <2>9, <2>11, OneStream
<1>6. CASE EndOfStream(c)
    <2>1. closed'[c] /\ producer'[c] = "exit" /\ producer[c] = "read"
        BY <1>6 DEF EndOfStream, XInv, TypeOK
    <2>2. closed' \in [Streams -> BOOLEAN]
        BY <1>6 DEF EndOfStream, XInv, TypeOK
    <2>3. producer' \in [Streams -> {"none", "read", "put", "exit"}]
        BY <1>6 DEF EndOfStream, XInv, TypeOK
    <2>4. TypeOK'
        BY <1>6, <2>2, <2>3 DEF EndOfStream, XInv, TypeOK
    <2>5. Intact(c)'
        BY <1>6, <2>1, StreamFacts, IntactKept DEF EndOfStream
    <2>6. ReqOK(c)'
        BY <1>6, <2>1, StreamFacts DEF EndOfStream, ReqOK
    <2>7. QED
        BY <1>2, <2>4, <2>5, <2>6, OneStream
<1>7. QED
    BY <1>4, <1>5, <1>6 DEF Producer

\* A package goes on where the last one ended, and the next one will go on where
\* it ends.
LEMMA SendKeepsLines ==
    ASSUME XInv, NEW c \in Streams, lines[c] # <<>>,
           sent' = [sent EXCEPT ![c] = Append(@, lines[c])],
           lines' = [lines EXCEPT ![c] = <<>>],
           UNCHANGED <<next, producer, buffer>>
    PROVE  /\ sent' \in [Cmds -> Seq(Seq(Lines))] /\ lines' \in [Streams -> Seq(Lines)]
           /\ lines'[c] = <<>> /\ Len(lines'[c]) = 0 /\ Intact(c)'
           /\ \A k \in 1 .. Len(sent'[c]) : Len(sent'[c][k]) \in 1 .. MaxReadLines
           /\ \A d \in Streams : d # c => sent'[d] = sent[d] /\ lines'[d] = lines[d]
<1> PICK n \in Nat : n = Len(sent[c])
    BY StreamFacts
<1> DEFINE from == Before(c, n + 1)
<1>1. /\ n \in Nat /\ from \in Nat /\ Len(lines[c]) \in Nat /\ Len(lines[c]) >= 1
      /\ Len(buffer[c]) \in Nat /\ lines[c] \in Seq(Lines) /\ sent[c] \in Seq(Seq(Lines))
    BY StreamFacts, SeqFacts
<1>2. sent'[c] = Append(sent[c], lines[c]) /\ lines'[c] = <<>>
    BY StreamFacts DEF XInv, TypeOK
<1>3. /\ sent'[c] \in Seq(Seq(Lines)) /\ Len(sent'[c]) = n + 1
      /\ sent'[c][n + 1] = lines[c]
      /\ \A k \in 1 .. n : sent'[c][k] = sent[c][k]
    BY <1>1, <1>2, SeqFacts
<1>4. Len(lines'[c]) = 0
    BY <1>2, SeqFacts
<1>5. sent' \in [Cmds -> Seq(Seq(Lines))]
    BY <1>2, <1>3, ExceptType DEF XInv, TypeOK
<1>6. lines' \in [Streams -> Seq(Lines)]
    BY SeqFacts, ExceptType DEF XInv, TypeOK
<1>7. \A d \in Streams : d # c => sent'[d] = sent[d] /\ lines'[d] = lines[d]
    BY Constants DEF XInv, TypeOK
<1>8. Follows(lines[c], from) /\ Follows(buffer[c], from + Len(lines[c]))
    BY StreamFacts DEF Intact
<1>9. lines[c][Len(lines[c])] = from + Len(lines[c])
    <2>1. Len(lines[c]) \in 1 .. Len(lines[c])
        BY <1>1
    <2>2. \A i \in 1 .. Len(lines[c]) : lines[c][i] = from + i
        BY <1>8 DEF Follows
    <2>3. QED
        BY <2>1, <2>2
<1>10. ASSUME NEW k \in 1 .. n + 1 PROVE Before(c, k)' = Before(c, k)
    <2>1. k = 1 \/ k - 1 \in 1 .. n
        BY <1>1
    <2>2. k # 1 => sent'[c][k - 1] = sent[c][k - 1]
        BY <1>3, <2>1
    <2>3. QED
        BY <2>2 DEF Before
<1>11. Before(c, n + 2)' = from + Len(lines[c])
    <2>1. n + 2 # 1 /\ (n + 2) - 1 = n + 1
        BY <1>1
    <2>2. Before(c, n + 2)' = sent'[c][n + 1][Len(sent'[c][n + 1])]
        BY <2>1 DEF Before
    <2>3. QED
        BY <1>3, <1>9, <2>2
<1>12. ASSUME NEW k \in 1 .. n + 1
       PROVE  sent'[c][k] # <<>> /\ Follows(sent'[c][k], Before(c, k)')
    <2>1. CASE k \in 1 .. n
        BY <1>1, <1>3, <1>10, <2>1, StreamFacts DEF Intact
    <2>2. CASE k = n + 1
        BY <1>1, <1>3, <1>8, <1>10, <2>2
    <2>3. QED
        BY <1>1, <2>1, <2>2
<1>13. next[c] = from + Len(lines[c]) + Len(buffer[c]) + (IF producer[c] = "put" THEN 1 ELSE 0) + 1
    BY StreamFacts DEF Intact
<1>14. Intact(c)'
    <2>1. Len(sent'[c]) + 1 = n + 2 /\ Before(c, Len(sent[c]) + 1)' = from + Len(lines[c])
        BY <1>1, <1>3, <1>11
    <2>2. Follows(lines'[c], from + Len(lines[c]))
        BY <1>4 DEF Follows
    <2>3. Follows(buffer'[c], from + Len(lines[c]) + Len(lines'[c]))
        BY <1>1, <1>4, <1>8
    <2>4. next'[c] = from + Len(lines[c]) + Len(lines'[c]) + Len(buffer'[c])
                       + (IF producer'[c] = "put" THEN 1 ELSE 0) + 1
        BY <1>1, <1>4, <1>13
    <2>5. QED
        BY <1>3, <1>12, <2>1, <2>2, <2>3, <2>4 DEF Intact
<1>15. \A k \in 1 .. n + 1 : Len(sent'[c][k]) \in 1 .. MaxReadLines
    <2>1. Len(lines[c]) \in 1 .. MaxReadLines
        BY <1>1, Constants, StreamFacts DEF ReqOK
    <2>2. \A k \in 1 .. n : Len(sent[c][k]) \in 1 .. MaxReadLines
        BY StreamFacts DEF ReqOK
    <2>3. QED
        BY <1>1, <1>3, <2>1, <2>2
<1>16. QED
    BY <1>2, <1>3, <1>4, <1>5, <1>6, <1>7, <1>14, <1>15

\* send of the collected lines, and the step of the loop it belongs to.
LEMMA SendSteps ==
    ASSUME XInv, NEW c \in Streams, OnTimer(c) \/ OnFull(c) \/ OnClosed(c)
    PROVE  XInv'
<1>1. UNCHANGED <<saved, open, next, producer, buffer, closed>> /\ c \in Cmds
    BY Constants DEF OnTimer, OnFull, OnClosed
<1>2. timer' \in [Streams -> SUBSET {"armed", "fired"}]
    <2>1. timer \in [Streams -> SUBSET {"armed", "fired"}]
        BY DEF XInv, TypeOK
    <2>2. timer[c] \ {"fired"} \in SUBSET {"armed", "fired"}
        BY <2>1
    <2>3. timer' = timer \/ timer' = [timer EXCEPT ![c] = timer[c] \ {"fired"}]
        BY DEF OnTimer, OnFull, OnClosed
    <2>4. QED
        BY <2>1, <2>2, <2>3, ExceptType
<1>3. PICK pc \in {"select", "done"} :
          /\ Send(c, pc)
          /\ pc = "done" => buffer[c] = <<>> /\ closed[c]
    BY DEF OnTimer, OnFull, OnClosed
<1>4. req[c] \in {"select", "full"} /\ Intact(c) /\ ReqOK(c)
    BY StreamFacts DEF OnTimer, OnFull, OnClosed
<1>5. CASE lines[c] = <<>>
    <2>1. req' = [req EXCEPT ![c] = pc] /\ UNCHANGED <<lines, sent, failed>>
        BY <1>3, <1>5 DEF Send
    <2>2. TypeOK'
        <3>1. req' \in [Cmds -> {"none", "exec", "answer", "select", "full", "done"}]
            BY <2>1 DEF XInv, TypeOK
        <3>2. QED
            BY <1>1, <1>2, <2>1, <3>1 DEF XInv, TypeOK
    <2>3. \A d \in Streams : d # c => Same(d)
        BY <1>1, <2>1, Constants DEF XInv, TypeOK, Same
    <2>4. Intact(c)'
        BY <1>1, <1>4, <2>1, IntactKept
    <2>5. req'[c] = pc /\ Len(lines[c]) = 0
        BY <1>1, <1>5, <2>1, SeqFacts DEF XInv, TypeOK
    <2>6. ReqOK(c)'
        BY <1>1, <1>3, <1>4, <1>5, <2>1, <2>5, Constants DEF ReqOK
    <2>7. QED
        BY <2>2, <2>3, <2>4, <2>6, OneStream
<1>6. CASE /\ lines[c] # <<>> /\ sent' = [sent EXCEPT ![c] = Append(@, lines[c])]
           /\ lines' = [lines EXCEPT ![c] = <<>>]
           /\ req' = [req EXCEPT ![c] = pc] /\ UNCHANGED failed
    <2>1. /\ sent' \in [Cmds -> Seq(Seq(Lines))] /\ lines' \in [Streams -> Seq(Lines)]
          /\ lines'[c] = <<>> /\ Len(lines'[c]) = 0 /\ Intact(c)'
          /\ \A k \in 1 .. Len(sent'[c]) : Len(sent'[c][k]) \in 1 .. MaxReadLines
          /\ \A d \in Streams : d # c => sent'[d] = sent[d] /\ lines'[d] = lines[d]
        BY <1>1, <1>6, SendKeepsLines
    <2>2. TypeOK'
        <3>1. req' \in [Cmds -> {"none", "exec", "answer", "select", "full", "done"}]
            BY <1>6 DEF XInv, TypeOK
        <3>2. QED
            BY <1>1, <1>2, <1>6, <2>1, <3>1 DEF XInv, TypeOK
    <2>3. \A d \in Streams : d # c => Same(d)
        BY <1>1, <1>6, <2>1, Constants DEF XInv, TypeOK, Same
    <2>4. req'[c] = pc
        BY <1>1, <1>6 DEF XInv, TypeOK
    <2>5. ReqOK(c)'
        BY <1>1, <1>3, <1>4, <1>6, <2>1, <2>4, Constants DEF ReqOK
    <2>6. QED
        BY <2>1, <2>2, <2>3, <2>5, OneStream
<1>7. CASE /\ lines[c] # <<>> /\ failed' = failed \cup {c}
           /\ req' = [req EXCEPT ![c] = "done"] /\ UNCHANGED <<lines, sent>>
    <2>1. TypeOK'
        <3>1. req' \in [Cmds -> {"none", "exec", "answer", "select", "full", "done"}]
            BY <1>7 DEF XInv, TypeOK
        <3>2. failed' \in SUBSET Cmds
            BY <1>1, <1>7 DEF XInv, TypeOK
        <3>3. QED
            BY <1>1, <1>2, <1>7, <3>1, <3>2 DEF XInv, TypeOK
    <2>2. \A d \in Streams : d # c => Same(d)
        BY <1>1, <1>7, Constants DEF XInv, TypeOK, Same
    <2>3. Intact(c)'
        BY <1>1, <1>4, <1>7, IntactKept
    <2>4. req'[c] = "done" /\ c \in failed'
        BY <1>1, <1>7 DEF XInv, TypeOK
    <2>5. ReqOK(c)'
        BY <1>1, <1>4, <1>7, <2>4 DEF ReqOK
    <2>6. QED
        BY <2>1, <2>2, <2>3, <2>5, OneStream
<1>8. QED
    BY <1>3, <1>5, <1>6, <1>7 DEF Send

\* The first line of the buffer is the one after the last that was collected.
LEMMA LineStep ==
    ASSUME XInv, NEW c \in Streams, OnLine(c)
    PROVE  XInv'
<1> PICK from \in Nat : from = Before(c, Len(sent[c]) + 1)
    BY StreamFacts
<1>1. /\ UNCHANGED <<saved, open, next, producer, closed, sent, failed>> /\ c \in Cmds
      /\ req[c] = "select" /\ buffer[c] # <<>>
    BY Constants DEF OnLine
<1>2. /\ lines[c] \in Seq(Lines) /\ Len(lines[c]) \in Nat
      /\ buffer[c] \in Seq(Lines) /\ Len(buffer[c]) \in Nat /\ Len(buffer[c]) >= 1
    BY <1>1, StreamFacts, SeqFacts
<1>3. /\ Intact(c) /\ ReqOK(c) /\ Follows(lines[c], from)
      /\ Follows(buffer[c], from + Len(lines[c]))
    BY StreamFacts DEF Intact
<1>4. Head(buffer[c]) = buffer[c][1] /\ buffer[c][1] \in Lines
    BY <1>1, <1>2, SeqFacts
<1>5. buffer[c][1] = from + Len(lines[c]) + 1
    <2>1. 1 \in 1 .. Len(buffer[c])
        BY <1>2
    <2>2. QED
        BY <1>3, <2>1 DEF Follows
<1>6. lines'[c] = Append(lines[c], buffer[c][1]) /\ buffer'[c] = Tail(buffer[c])
    BY <1>4 DEF OnLine, XInv, TypeOK
<1>7. /\ lines'[c] \in Seq(Lines) /\ Len(lines'[c]) = Len(lines[c]) + 1
      /\ lines'[c][Len(lines[c]) + 1] = buffer[c][1]
      /\ \A i \in 1 .. Len(lines[c]) : lines'[c][i] = lines[c][i]
    BY <1>2, <1>4, <1>6, SeqFacts
<1>8. /\ buffer'[c] \in Seq(Lines) /\ Len(buffer'[c]) = Len(buffer[c]) - 1
      /\ \A i \in 1 .. Len(buffer[c]) - 1 : buffer'[c][i] = buffer[c][i + 1]
    BY <1>1, <1>2, <1>6, SeqFacts
<1>9. TypeOK'
    <2>1. lines' \in [Streams -> Seq(Lines)] /\ buffer' \in [Streams -> Seq(Lines)]
        BY <1>4, <1>6, <1>7, <1>8, ExceptType DEF OnLine, XInv, TypeOK
    <2>2. req' \in [Cmds -> {"none", "exec", "answer", "select", "full", "done"}]
        BY <1>1 DEF OnLine, XInv, TypeOK
    <2>3. timer' \in [Streams -> SUBSET {"armed", "fired"}]
        <3>1. timer \in [Streams -> SUBSET {"armed", "fired"}]
            BY DEF XInv, TypeOK
        <3>2. timer[c] \cup {"armed"} \in SUBSET {"armed", "fired"} /\ timer[c] \in SUBSET {"armed", "fired"}
            BY <3>1
        <3>3. \/ timer' = [timer EXCEPT ![c] = timer[c] \cup {"armed"}]
              \/ timer' = [timer EXCEPT ![c] = timer[c]]
            BY DEF OnLine
        <3>4. QED
            BY <3>1, <3>2, <3>3, ExceptType
    <2>4. QED
        BY <1>1, <2>1, <2>2, <2>3 DEF XInv, TypeOK
<1>10. \A d \in Streams : d # c => Same(d)
    BY <1>1, Constants DEF OnLine, XInv, TypeOK, Same
<1>11. Follows(lines'[c], from)
    <2>1. ASSUME NEW i \in 1 .. Len(lines'[c]) PROVE lines'[c][i] = from + i
        <3>1. CASE i \in 1 .. Len(lines[c])
            BY <1>3, <1>7, <3>1 DEF Follows
        <3>2. CASE i = Len(lines[c]) + 1
            <4>1. lines'[c][i] = from + Len(lines[c]) + 1
                BY <1>5, <1>7, <3>2
            <4>2. QED
                BY <1>2, <3>2, <4>1
        <3>3. QED
            BY <1>2, <1>7, <3>1, <3>2
    <2>2. QED
        BY <2>1 DEF Follows
<1>12. Follows(buffer'[c], from + Len(lines'[c]))
    <2>1. ASSUME NEW i \in 1 .. Len(buffer'[c])
          PROVE  buffer'[c][i] = from + Len(lines'[c]) + i
        <3>1. i \in 1 .. Len(buffer[c]) - 1 /\ i + 1 \in 1 .. Len(buffer[c]) /\ i \in Nat
            BY <1>2, <1>8
        <3>2. buffer'[c][i] = buffer[c][i + 1]
            BY <1>8, <3>1
        <3>3. buffer[c][i + 1] = from + Len(lines[c]) + (i + 1)
            BY <1>3, <3>1 DEF Follows
        <3>4. QED
            <4>1. from + Len(lines[c]) + (i + 1) = from + (Len(lines[c]) + 1) + i
                <5>1. \A a, b, j \in Nat : a + b + (j + 1) = a + (b + 1) + j
                    OBVIOUS
                <5>2. i \in Nat /\ Len(lines[c]) \in Nat /\ from \in Nat
                    BY <1>2, <3>1
                <5>3. QED
                    BY <5>1, <5>2, Zenon
            <4>2. QED
                BY <1>7, <3>2, <3>3, <4>1
    <2>2. QED
        BY <2>1 DEF Follows
<1>13. Intact(c)'
    <2>1. \A k : Before(c, k)' = Before(c, k)
        BY <1>1 DEF Before
    <2>2. next[c] = from + Len(lines[c]) + Len(buffer[c]) + (IF producer[c] = "put" THEN 1 ELSE 0) + 1
        BY <1>3 DEF Intact
    <2>3. next'[c] = from + Len(lines'[c]) + Len(buffer'[c]) + (IF producer'[c] = "put" THEN 1 ELSE 0) + 1
        BY <1>1, <1>2, <1>7, <1>8, <2>2
    <2>4. QED
        BY <1>1, <1>3, <1>11, <1>12, <2>1, <2>3 DEF Intact
<1>14. ReqOK(c)'
    <2>1. req'[c] = IF Len(lines'[c]) >= MaxReadLines THEN "full" ELSE "select"
        BY <1>1 DEF OnLine, XInv, TypeOK
    <2>2. Len(lines[c]) < MaxReadLines
        BY <1>1, <1>3 DEF ReqOK
    <2>3. QED
        BY <1>1, <1>2, <1>3, <1>7, <2>1, <2>2, Constants DEF ReqOK
<1>15. QED
    BY <1>9, <1>10, <1>13, <1>14, OneStream

\* Every step of the executing side keeps the invariant.
LEMMA StepInv == XInv /\ [Next]_vars => XInv'
<1> SUFFICES ASSUME XInv, [Next]_vars PROVE XInv'
    OBVIOUS
<1>1. ASSUME NEW c \in Cmds, OnReceive(c) \/ Exec(c) \/ Answer(c) PROVE XInv'
    BY <1>1, RequestSteps
<1>2. ASSUME NEW c \in Streams, Producer(c) PROVE XInv'
    BY <1>2, ProducerSteps
<1>3. ASSUME NEW c \in Streams, Collector(c) PROVE XInv'
    BY <1>3, SendSteps, LineStep DEF Collector
<1>4. ASSUME NEW c \in Streams, TimerFires(c) \/ CloseSteam(c) PROVE XInv'
    BY <1>4, TimerAndClose
<1>5. CASE UNCHANGED vars
    <2>1. TypeOK'
        BY <1>5 DEF vars, XInv, TypeOK
    <2>2. \A d \in Streams : Same(d)
        BY <1>5 DEF vars, Same
    <2>3. QED
        BY <2>1, <2>2, Frame DEF XInv, StreamIntact
<1>6. QED
    BY <1>1, <1>2, <1>3, <1>4, <1>5 DEF Next

-----------------------------------------------------------------------------
(* The theorems.                                                           *)

\* The inductive invariant holds in every state of the executing side.
THEOREM ExecutorInvariant == Spec => []XInv
<1>1. Init => XInv
    BY InitInv
<1>2. XInv /\ [Next]_vars => XInv'
    BY StepInv
<1>3. QED
    BY <1>1, <1>2, PTL DEF Spec

\* Every variable keeps its type.
THEOREM TypeCorrect == Spec => []TypeOK
<1>1. XInv => TypeOK
    BY DEF XInv
<1>2. QED
    BY <1>1, ExecutorInvariant, PTL

\* The lines of a stream reach the caller once and in order, for any batch size,
\* buffer and timing of timer, close and failing sends.
THEOREM LinesOnceInOrder == Spec => []StreamIntact
<1>1. XInv => StreamIntact
    BY DEF XInv
<1>2. QED
    BY <1>1, ExecutorInvariant, PTL

\* No package is empty or above MaxReadLinesNum, and a request that ends without
\* an error has sent every line that was read.
THEOREM EndedIsSent == Spec => []PackagesFull
<1>1. XInv => PackagesFull
    BY DEF XInv, ReqOK, PackagesFull
<1>2. QED
    BY <1>1, ExecutorInvariant, PTL
=============================================================================
