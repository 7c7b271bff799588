--------------------------- MODULE VersionManager ---------------------------
(***************************************************************************)
(* The agent's VersionManager, pkg/agent/vm: a queue of downloads without  *)
(* duplicates, the goroutine that consumes it, and the loop that retries   *)
(* what failed.  A download fetches a file or a package from the manager,  *)
(* stores it, and only then compares the digests.                          *)
(***************************************************************************)
EXTENDS Updater

CONSTANT MaxFailed  \* MaxFailedThreshold

ASSUME VersionManagerAssumption == MaxFailed \in Nat \ {0}

VARIABLES
    downloadQueue,  \* tasks: what to download and how often it failed
    downloadMap,    \* keys of the tasks that are queued
    failureQueue,   \* tasks that failed
    round,          \* the retry loop: its tasks, those that failed again and
                    \* the keys it has done; None while it sleeps
    download,       \* doDownload of the consumer and of the retry loop
    settled         \* ghost: what was downloaded, not found or given up since
                    \* it was last queued

vmVars == <<downloadQueue, downloadMap, failureQueue, round, download, settled>>

FileTask(f, v) == <<"file", f, v>>
PackageTask(p) == <<"package", p>>
Tasks == {FileTask(f, v) : f \in Files, v \in Versions}
            \cup {PackageTask(p) : p \in PackageType}

\* task.Args: a package task has only the namespace.
Args(what) == IF what[1] = "file" THEN what ELSE <<"package">>

Downloader == {"consumer", "retry"}
DownloadTask == [what : Tasks, failed : 0 .. MaxFailed]
NoDownload == [pc |-> "idle", task |-> None]
Downloading == [pc : {"idle", "get", "store", "notify"}, task : DownloadTask \cup {None}]
Rounds == [todo : Seq(DownloadTask), kept : Seq(DownloadTask),
           done : SUBSET (Tasks \cup {<<"package">>})]

ASSUME RoundsAssumption == None \notin Rounds

VmTypeOK ==
    /\ downloadQueue \in Seq(DownloadTask)
    /\ downloadMap \in SUBSET Tasks
    /\ failureQueue \in Seq(DownloadTask)
    /\ round \in Rounds \cup {None}
    /\ download \in [Downloader -> Downloading]
    /\ settled \in SUBSET Tasks

VmInit ==
    /\ downloadQueue = <<>>
    /\ downloadMap = {}
    /\ failureQueue = <<>>
    /\ round = None
    /\ download = [d \in Downloader |-> NoDownload]
    /\ settled = {}

-----------------------------------------------------------------------------
(* The queue.                                                              *)

\* AddDownloadPackageTask and AddDownloadFileTask, under queueLock: a task
\* whose key is in the map is merged.  The key of a package has its digest.
AddDownloadTask(what) ==
    IF what \in downloadMap
    THEN UNCHANGED <<downloadMap, downloadQueue, settled>>
    ELSE /\ downloadMap' = downloadMap \cup {what}
         /\ downloadQueue' = Append(downloadQueue, [what |-> what, failed |-> 0])
         /\ settled' = settled \ {what}

\* The consumer pops a task and deletes the key its Args make: for a package
\* that is the namespace, which is in no key.
popDownloadTask ==
    /\ download["consumer"].pc = "idle" /\ downloadQueue # <<>>
    /\ downloadQueue' = Tail(downloadQueue)
    /\ downloadMap' = downloadMap \ {Args(Head(downloadQueue).what)}
    /\ download' = [download EXCEPT !["consumer"] =
                      [pc |-> "get", task |-> Head(downloadQueue)]]
    /\ UNCHANGED <<hubVars, failureQueue, round, settled>>

-----------------------------------------------------------------------------
(* doDownload.                                                             *)

Goto(d, pc) == download' = [download EXCEPT ![d].pc = pc]

\* The task is done with; ghost.
Settle(what) == settled' = settled \cup {what}

Succeeds(d) ==
    /\ download' = [download EXCEPT ![d] = NoDownload]
    /\ Settle(download[d].task.what)
    /\ UNCHANGED <<failureQueue, round>>

Again(d) == [download[d].task EXCEPT !.failed = @ + 1]

\* The consumer hands a task that failed to the retry loop; the loop keeps it
\* for its next round or gives it up.
Fails(d) ==
    /\ download' = [download EXCEPT ![d] = NoDownload]
    /\ IF d = "consumer"
       THEN failureQueue' = Append(failureQueue, Again(d)) /\ UNCHANGED <<round, settled>>
       ELSE IF download[d].task.failed + 1 > MaxFailed
       THEN Settle(download[d].task.what) /\ UNCHANGED <<failureQueue, round>>
       ELSE /\ round' = [round EXCEPT !.kept = Append(@, Again(d))]
            /\ UNCHANGED <<failureQueue, settled>>

\* The manager's provider, ServePackage and ServeFile: the content, or status
\* 404 when its file database cannot be read; or no answer at all.
Serve == {"content"} \cup
         (IF "request" \in Faults THEN {"notfound", "error"} ELSE {})

\* The request fails, or for a file with status 404 an empty file with that
\* status is stored and nobody is notified.
Request(d) ==
    /\ download[d].pc = "get"
    /\ LET what == download[d].task.what
       IN  \E answer \in Serve :
           \/ /\ answer = "content"
              /\ Goto(d, "store") /\ UNCHANGED <<disk, failureQueue, round, settled>>
           \/ /\ answer \in IF what[1] = "file" THEN {"error"} ELSE {"error", "notfound"}
              /\ Fails(d) /\ UNCHANGED disk
           \/ /\ answer = "notfound" /\ what[1] = "file"
              /\ disk' = [disk EXCEPT ![what[2]] = NotFound]
              /\ Succeeds(d)
    /\ UNCHANGED <<package, packageQueue, fileQueue, pworker, fworker, fm, dumped,
                   told, downloadQueue, downloadMap>>

\* StorePackage or StoreConfig.  When the digest of what was stored is not the
\* one of the answer the download fails, and what was stored stays.
StoreDownload(d) ==
    /\ download[d].pc = "store"
    /\ LET what == download[d].task.what
       IN  \/ /\ IF what[1] = "file"
                 THEN disk' = [disk EXCEPT ![what[2]] = what[3]] /\ UNCHANGED package
                 ELSE package' = what[2] /\ UNCHANGED disk
              /\ Goto(d, "notify")
              /\ UNCHANGED <<failureQueue, round, settled>>
           \/ /\ "digest" \in Faults /\ what[1] = "file"
              /\ disk' = [disk EXCEPT ![what[2]] = Corrupt]
              /\ Fails(d)
              /\ UNCHANGED package
    /\ UNCHANGED <<packageQueue, fileQueue, pworker, fworker, fm, dumped, told,
                   downloadQueue, downloadMap>>

\* PackageUpdated or FileUpdated.
NotifyHub(d) ==
    /\ download[d].pc = "notify"
    /\ LET what == download[d].task.what
       IN  IF what[1] = "file"
           THEN FileUpdated(what[2], what[3])
           ELSE PackageUpdated(what[2])
    /\ Succeeds(d)
    /\ UNCHANGED <<disk, package, pworker, fworker, fm, dumped, told, downloadQueue,
                   downloadMap>>

-----------------------------------------------------------------------------
(* The retry loop, every CheckInterval seconds.                            *)

StartRound ==
    /\ round = None /\ failureQueue # <<>>
    /\ round' = [todo |-> failureQueue, kept |-> <<>>, done |-> {}]
    /\ failureQueue' = <<>>
    /\ UNCHANGED <<hubVars, downloadQueue, downloadMap, download, settled>>

\* The next task, unless the round has had one with the same Args.
Retry ==
    /\ round # None /\ round.todo # <<>> /\ download["retry"].pc = "idle"
    /\ LET t == Head(round.todo)
       IN  /\ round' = [round EXCEPT !.todo = Tail(@), !.done = @ \cup {Args(t.what)}]
           /\ download' = IF Args(t.what) \in round.done THEN download
                          ELSE [download EXCEPT !["retry"] =
                                  [pc |-> "get", task |-> t]]
    /\ UNCHANGED <<hubVars, downloadQueue, downloadMap, failureQueue, settled>>

\* Slip: tasks that failed meanwhile are overwritten.
EndRoundSlip ==
    /\ round # None /\ round.todo = <<>> /\ download["retry"].pc = "idle"
    /\ failureQueue' = round.kept
    /\ round' = None
    /\ UNCHANGED <<hubVars, downloadQueue, downloadMap, download, settled>>

EndRound ==
    /\ round # None /\ round.todo = <<>> /\ download["retry"].pc = "idle"
    /\ failureQueue' = failureQueue \o round.kept
    /\ round' = None
    /\ UNCHANGED <<hubVars, downloadQueue, downloadMap, download, settled>>

\* A new process starts with empty queues.
VmRestart ==
    /\ downloadQueue' = <<>> /\ downloadMap' = {} /\ failureQueue' = <<>>
    /\ round' = None
    /\ download' = [d \in Downloader |-> NoDownload]
    /\ settled' = Tasks

DoDownload(d) == Request(d) \/ StoreDownload(d) \/ NotifyHub(d)

Vm ==
    \/ popDownloadTask \/ StartRound \/ Retry \/ EndRound
    \/ \E d \in Downloader : DoDownload(d)

-----------------------------------------------------------------------------
(* Where tasks are.                                                        *)

IsFile(what) == what[1] = "file"
FileTasks == {t \in Tasks : IsFile(t)}

Whats(tasks) == {tasks[i].what : i \in 1 .. Len(tasks)}
Queued == Whats(downloadQueue)
InHand == {download[d].task.what : d \in {e \in Downloader : download[e].pc # "idle"}}

\* The tasks of a round: those it will keep, and those it has yet to retry.
Kept == IF round = None THEN {} ELSE Whats(round.kept)
Todo == IF round = None THEN {} ELSE Whats(round.todo)

Settling == Queued \cup Whats(failureQueue) \cup InHand \cup Kept
UnderWay == Settling \cup Todo

=============================================================================
