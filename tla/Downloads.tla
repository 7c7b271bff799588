----------------------------- MODULE Downloads -----------------------------
(***************************************************************************)
(* The download pipeline of the agent, from the command handlers through   *)
(* VersionManager and Updater to the application: handlers add tasks at    *)
(* any time, downloads fail, files and packages overtake each other.       *)
(***************************************************************************)
EXTENDS VersionManager

CONSTANT MaxTasks  \* bound: calls of the handlers

ASSUME DownloadsAssumption == MaxTasks \in Nat

VARIABLE added  \* how many tasks handlers have added

vars == <<hubVars, vmVars, added>>

\* The type invariant.
TypeOK == HubTypeOK /\ VmTypeOK /\ added \in 0 .. MaxTasks

Init == HubInit /\ VmInit /\ added = 0

\* CmdNSFileHandler and CmdPackageHandler.
CmdHandler(what) ==
    /\ added < MaxTasks
    /\ added' = added + 1
    /\ AddDownloadTask(what)
    /\ UNCHANGED <<hubVars, failureQueue, round, download>>

\* The application fetches what it was told of.
Fetch(f) ==
    /\ f \in told
    /\ told' = told \ {f}
    /\ UNCHANGED <<disk, package, packageQueue, fileQueue, pworker, fworker, fm,
                   dumped, vmVars, added>>

Next ==
    \/ \E what \in Tasks : CmdHandler(what)
    \/ Vm /\ UNCHANGED added
    \/ Hub /\ UNCHANGED <<vmVars, added>>
    \/ \E f \in Files : Fetch(f)

\* The goroutines run; a download or an unpacking need not succeed, and the
\* application need not fetch.
Fairness ==
    /\ WF_vars(popDownloadTask /\ UNCHANGED added)
    /\ \A d \in Downloader : WF_vars(DoDownload(d) /\ UNCHANGED added)
    /\ WF_vars((StartRound \/ Retry \/ EndRound) /\ UNCHANGED added)
    /\ \A w \in FileWorkers :
          WF_vars((TakeFile(w) \/ runFileUpdated(w)) /\ UNCHANGED <<vmVars, added>>)
    /\ \A w \in PackageWorkers :
          WF_vars((VisitPackage(w) \/ PackageUpdate(w) \/ PackageNotify(w)
                    \/ \E f \in Files : Untar(w, f)) /\ UNCHANGED <<vmVars, added>>)

Spec == Init /\ [][Next]_vars /\ Fairness

-----------------------------------------------------------------------------
(* Properties.                                                             *)

\* The key of a file task is in downloadMap as long as the task is queued and
\* no longer: no download of a file is merged with one that has already been
\* popped and may have been answered before the release, and none is queued
\* twice.
DownloadMapMatchesQueue ==
    /\ {t \in downloadMap : IsFile(t)} = {t \in Queued : IsFile(t)}
    /\ \A i, j \in 1 .. Len(downloadQueue) :
          downloadQueue[i].what = downloadQueue[j].what => i = j

\* A file that is queued is downloaded, found missing, or given up after
\* MaxFailedThreshold retries: neither a task that fails during a round nor
\* the merging of a round loses it.
FileTaskSettles ==
    \A f \in Files, v \in Versions :
        FileTask(f, v) \in downloadMap ~> FileTask(f, v) \in settled

\* A package that a handler is asked to download is downloaded or given up.  The
\* code does not guarantee it: Args of a package lack the digest, so that a retry
\* round takes two packages of a namespace for one and drops the second.
PackageTaskSettles ==
    \A p \in PackageType :
        PackageTask(p) \in Queued ~> PackageTask(p) \in settled

\* A file that was stored is told to the applications, after the mapper was
\* updated, whichever worker gets it.
UpdateNotified ==
    \A f \in Files : (\E i \in 1 .. Len(fileQueue) : fileQueue[i][1] = f)
                        ~> f \in told

\* Applications are told of a file only when the mapper knows it: otherwise
\* CmdFileRefreshHandler would take the file for missing.
ToldIsMapped == \A f \in told : fm[f] # 0

PipelineWork == INSTANCE Work WITH
    Jobs <- FileTasks, pending <- UnderWay \cap FileTasks, settled <- settled \cap FileTasks

\* Every step of the pipeline is one of Work, or changes neither what is under
\* way nor what is settled: a file task leaves the queues and the downloaders
\* only when it is settled, whatever fails, is merged or retried meanwhile.
PipelineImplementsWork == PipelineWork!Spec
=============================================================================
