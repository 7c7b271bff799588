-------------------------------- MODULE Log --------------------------------
(***************************************************************************)
(* The log of manager and agent (src/pkg/util/alog).  A caller formats its *)
(* message in a buffer of the free list, and output, which holds mu        *)
(* throughout, writes it to standard error or to the files of its severity *)
(* and of every lower one.  Files are buffered, made on first use, and     *)
(* replaced by a new one when MaxSize is reached.  A fatal message flushes *)
(* the files and ends the process.                                         *)
(*                                                                         *)
(* A step stands for a whole section under mu.  A size counts messages,    *)
(* and one unit is the header of a file.  A file is named by its severity  *)
(* and by the second it is made in, or is the one -log_file names.         *)
(***************************************************************************)
EXTENDS Integers, FiniteSets, SequencesExt

CONSTANTS Callers,      \* goroutines that log
          Flags,        \* command lines: [toStderr, logFile, stderrThreshold]
          MaxMessages,  \* bound: messages of a run
          MaxClock,     \* bound: seconds of a run
          MaxSize       \* units a file holds before it is replaced

\* A file that has just been made takes a message and a trace.
ASSUME LogAssumption ==
    /\ MaxMessages \in Nat /\ MaxClock \in Nat /\ MaxSize \in Nat /\ MaxSize > 3
    /\ IsFiniteSet(Callers)
    /\ Flags \subseteq [toStderr : BOOLEAN, logFile : BOOLEAN, stderrThreshold : 0 .. 3]

VARIABLES
    flags,          \* the command line
    file,           \* logging.file: the syncBuffer of a severity, or NoFile
    disk,           \* file name |-> messages the file holds
    stderr,         \* messages on standard error
    freeList,       \* logging.freeList
    text,           \* buffer |-> what was last formatted in it
    lpc, lbuf, lmsg,\* callers: where they are, their buffer, their message
    count,          \* messages so far
    logged,         \* messages whose output has returned
    second,         \* time.Now
    noStacks,       \* fatalNoStacks
    dumped,         \* logExitFunc is set: a fatal message has been written
    due,            \* messages output before the first fatal one, and that one
    code            \* Running, the exit code, or TimedOut: exited without a flush

logVars == <<flags, file, disk, stderr, freeList, text, lpc, lbuf, lmsg,
             count, logged, second, noStacks, dumped, due, code>>

infoLog == 0
fatalLog == 3
Severity == infoLog .. fatalLog
NoFile == [name |-> <<>>, held |-> {}, nbytes |-> 0]
Running == -1
TimedOut == -2
Nothing == [id |-> 0, sev |-> infoLog]
Buffers == 1 .. Cardinality(Callers)
FileNames == Severity \X (0 .. MaxClock)

LogInit ==
    /\ flags \in Flags
    /\ file = [s \in Severity |-> NoFile]
    /\ disk = [n \in FileNames |-> {}]
    /\ stderr = {} /\ logged = {} /\ due = {}
    /\ freeList = <<>> /\ text = [b \in Buffers |-> Nothing]
    /\ lpc = [g \in Callers |-> "idle"]
    /\ lbuf = [g \in Callers |-> 0]
    /\ lmsg = [g \in Callers |-> Nothing]
    /\ count = 0 /\ second = 0
    /\ noStacks = FALSE /\ dumped = FALSE
    /\ code = Running

-----------------------------------------------------------------------------
(* Buffers. *)

\* The buffers no caller uses and the free list does not hold: what new may return.
Unused == Buffers \ (ToSet(freeList) \cup Range(lbuf))

\* The head of the free list, which loses it, or a new buffer.
getBuffer(b) ==
    IF freeList = <<>> THEN b \in Unused /\ UNCHANGED freeList
    ELSE b = Head(freeList) /\ freeList' = Tail(freeList)

\* A buffer of 256 bytes or more is not kept.
putBuffer(b, big) == freeList' = IF big THEN freeList ELSE <<b>> \o freeList

-----------------------------------------------------------------------------
(* Files.  st is a pair of values of file and disk.                        *)

logName(s) == IF flags.logFile THEN <<infoLog, 0>> ELSE <<s, second>>

\* Flush: what the buffer of a file holds is written.
Flushed(st, s) ==
    IF st.file[s] = NoFile THEN st
    ELSE [file |-> [st.file EXCEPT ![s].held = {}],
          disk |-> [st.disk EXCEPT ![st.file[s].name] = @ \cup st.file[s].held]]

\* From the fatalLog file down to the infoLog file.
Down(Op(_, _), st) == Op(Op(Op(Op(st, 3), 2), 1), 0)

flushAll(st) == Down(Flushed, st)

\* At startup a file is opened for appending, later it is truncated.
create(d, n, startup) == IF startup THEN d ELSE [d EXCEPT ![n] = {}]

\* The old file is closed with its buffer.
rotateFileSlip(st, s, startup) ==
    [file |-> [st.file EXCEPT ![s] = [name |-> logName(s), held |-> {}, nbytes |-> 1]],
     disk |-> create(st.disk, logName(s), startup)]

rotateFile(st, s, startup) ==
    [file |-> [st.file EXCEPT ![s] = [name |-> logName(s), held |-> {}, nbytes |-> 1]],
     disk |-> create(Flushed(st, s).disk, logName(s), startup)]

\* syncBuffer.Write.
Write(st, s, m) ==
    LET r == IF st.file[s].nbytes + 1 >= MaxSize THEN rotateFile(st, s, FALSE) ELSE st
        f == [name |-> r.file[s].name, held |-> r.file[s].held \cup {m},
              nbytes |-> r.file[s].nbytes + 1]
    IN [file |-> [r.file EXCEPT ![s] = f], disk |-> r.disk]

\* Files are made from s down, until one that exists.
createFiles(st, s) ==
    LET Missing == {t \in 0 .. s : \A u \in t .. s : st.file[u] = NoFile}
        Make(acc, t) == IF t \in Missing THEN rotateFile(acc, t, TRUE) ELSE acc
    IN Down(Make, st)

\* The message in the files of s and below, by a switch that falls through.
WriteAll(st, s, m) ==
    LET W(acc, t) == IF t <= s THEN Write(acc, t, m) ELSE acc IN Down(W, createFiles(st, s))

\* Stacks of all goroutines, in every file there is.
WriteTrace(st) ==
    LET W(acc, t) == IF acc.file[t] = NoFile THEN acc ELSE Write(acc, t, Nothing)
    IN Down(W, st)

Now == [file |-> file, disk |-> disk]
Keep(st) == file' = st.file /\ disk' = st.disk

\* The environment: the 1.8 GB of MaxSize are not written within a second.
SlowEnough ==
    \A s \in Severity : file[s] # NoFile /\ ~flags.logFile =>
        file[s].nbytes + 2 < MaxSize \/ file[s].name[2] # second

-----------------------------------------------------------------------------
(* Callers. *)

\* Info, Warning, Error and Fatal, and Exit, a fatal one that wants no stacks.
Calls == (Severity \X {FALSE}) \cup {<<fatalLog, TRUE>>}

\* What a message starts with makes it different from all others.
header(s) == [id |-> count + 1, sev |-> s]

printDepth(g, s, exits) ==
    /\ code = Running /\ lpc[g] = "idle" /\ count < MaxMessages
    /\ \E b \in Buffers :
         /\ getBuffer(b)
         /\ lbuf' = [lbuf EXCEPT ![g] = b]
         /\ text' = [text EXCEPT ![b] = header(s)]
    /\ lmsg' = [lmsg EXCEPT ![g] = header(s)]
    /\ lpc' = [lpc EXCEPT ![g] = "output"]
    /\ count' = count + 1
    /\ noStacks' = (noStacks \/ exits)
    /\ UNCHANGED <<flags, file, disk, stderr, logged, second, dumped, due, code>>

\* What output writes for the buffer of g: message and, for a fatal one without
\* Exit, the stacks.
Written(g) ==
    LET m == text[lbuf[g]]
        s == lmsg[g].sev
        w == IF flags.toStderr THEN Now ELSE WriteAll(Now, s, m)
    IN IF s = fatalLog /\ ~noStacks THEN WriteTrace(w) ELSE w

ToStderr(g) == flags.toStderr \/ lmsg[g].sev >= flags.stderrThreshold

\* output: a message below fatal gives its buffer back, a fatal one lets go of
\* mu and flushes.
Output(g, big) ==
    /\ code = Running /\ lpc[g] = "output"
    /\ SlowEnough
    /\ Keep(Written(g))
    /\ stderr' = IF ToStderr(g) THEN stderr \cup {text[lbuf[g]]} ELSE stderr
    /\ IF lmsg[g].sev = fatalLog
       THEN /\ lpc' = [lpc EXCEPT ![g] = "fatal"]
            /\ dumped' = (dumped \/ ~noStacks)
            /\ due' = IF \E h \in Callers : lpc[h] \in {"fatal", "flushed"}
                      THEN due ELSE logged \cup {lmsg[g]}
            /\ UNCHANGED <<freeList, lbuf, logged>>
       ELSE /\ putBuffer(lbuf[g], big)
            /\ lpc' = [lpc EXCEPT ![g] = "idle"]
            /\ lbuf' = [lbuf EXCEPT ![g] = 0]
            /\ logged' = logged \cup {lmsg[g]}
            /\ UNCHANGED <<dumped, due>>
    /\ UNCHANGED <<flags, text, lmsg, count, second, noStacks, code>>

\* exit: a file cannot be made or written.  Standard error gets the message when
\* it cannot be made; flushAll writes what it can, unless a fatal message has
\* taken over, when the nil file ends the process all the same.
OutputFails(g, makes) ==
    /\ code = Running /\ lpc[g] = "output" /\ ~flags.toStderr
    /\ makes => file[lmsg[g].sev] = NoFile
    /\ stderr' = IF makes \/ ToStderr(g) THEN stderr \cup {text[lbuf[g]]} ELSE stderr
    /\ Keep(IF dumped THEN Now ELSE flushAll(Now))
    /\ IF dumped /\ ~makes
       THEN /\ lpc' = [lpc EXCEPT ![g] = "idle"]
            /\ lbuf' = [lbuf EXCEPT ![g] = 0]
            /\ UNCHANGED code
       ELSE code' = 2 /\ UNCHANGED <<lpc, lbuf>>
    /\ UNCHANGED <<flags, freeList, text, lmsg, count, logged, second, noStacks, dumped, due>>

\* The process exits without the flush.
timeoutFlushSlip(g) ==
    /\ code = Running /\ lpc[g] = "fatal"
    /\ lpc' = [lpc EXCEPT ![g] = "flushed"]
    /\ UNCHANGED <<flags, file, disk, stderr, freeList, text, lbuf, lmsg, count,
                   logged, second, noStacks, dumped, due, code>>

\* timeoutFlush: Flush ends, or ten seconds do.
timeoutFlush(g) ==
    /\ code = Running /\ lpc[g] = "fatal"
    /\ Keep(flushAll(Now))
    /\ lpc' = [lpc EXCEPT ![g] = "flushed"]
    /\ UNCHANGED <<flags, stderr, freeList, text, lbuf, lmsg, count, logged, second,
                   noStacks, dumped, due, code>>

FlushTimesOut(g) ==
    /\ code = Running /\ lpc[g] = "fatal"
    /\ code' = TimedOut
    /\ UNCHANGED <<flags, file, disk, stderr, freeList, text, lpc, lbuf, lmsg, count,
                   logged, second, noStacks, dumped, due>>

\* os.Exit after the flush: what others have logged since is lost.
OsExit(g) ==
    /\ code = Running /\ lpc[g] = "flushed"
    /\ code' = IF noStacks THEN 1 ELSE 255
    /\ UNCHANGED <<flags, file, disk, stderr, freeList, text, lpc, lbuf, lmsg, count,
                   logged, second, noStacks, dumped, due>>

\* flushDaemon and the Flush of logs.InitLogs, every five seconds.  (A bufio.Writer
\* that is full writes its own file earlier.)
FlushDaemon ==
    /\ code = Running
    /\ Keep(flushAll(Now))
    /\ UNCHANGED <<flags, stderr, freeList, text, lpc, lbuf, lmsg, count, logged,
                   second, noStacks, dumped, due, code>>

Tick ==
    /\ code = Running /\ second < MaxClock
    /\ second' = second + 1
    /\ UNCHANGED <<flags, file, disk, stderr, freeList, text, lpc, lbuf, lmsg, count,
                   logged, noStacks, dumped, due, code>>

LogNext ==
    \/ \E g \in Callers :
         \/ \E c \in Calls : printDepth(g, c[1], c[2])
         \/ \E big \in BOOLEAN : Output(g, big)
         \/ \E makes \in BOOLEAN : OutputFails(g, makes)
         \/ timeoutFlush(g) \/ FlushTimesOut(g) \/ OsExit(g)
    \/ FlushDaemon
    \/ Tick

LogSpec == LogInit /\ [][LogNext]_logVars

-----------------------------------------------------------------------------
(* Properties. *)

OnDisk(m, s) == \E t \in 0 .. MaxClock : m \in disk[<<s, t>>]
Held(m, s) == file[s] # NoFile /\ m \in file[s].held

\* While the process runs no message is lost: each one whose output has returned
\* is on standard error or, for its severity and every lower one, in the buffer
\* of the current file or in a file on disk, whichever callers share buffers and
\* whenever a file is replaced (alog.go, output and rotateFile).  With -log_file
\* a replacement truncates the one file, so nothing is promised for it.
NothingLost ==
    code = Running => \A m \in logged :
        \/ flags.toStderr /\ m \in stderr
        \/ ~flags.toStderr /\ flags.logFile
        \/ \A s \in 0 .. m.sev : Held(m, s) \/ OnDisk(m, s)

\* A process that a fatal message ends, after a flush in time, leaves that
\* message and every message output before it in the files of all their
\* severities (alog.go, output and timeoutFlush).
FatalDurable ==
    code \in {1, 255} /\ ~flags.logFile => \A m \in due :
        IF flags.toStderr THEN m \in stderr ELSE \A s \in 0 .. m.sev : OnDisk(m, s)
=============================================================================
