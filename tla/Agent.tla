------------------------------- MODULE Agent -------------------------------
(***************************************************************************)
(* The agent of a site (pkg/agent): its command handlers and its           *)
(* synchronisation with the manager, on top of VersionManager and Updater, *)
(* with the part of the manager they talk to (releases and the handlers of *)
(* pkg/manager/configserver/cmdhandler.go) and an application.             *)
(*                                                                         *)
(* The manager tells the agent of a release in the middle of the           *)
(* transaction that records it; the transaction may still be rolled back,  *)
(* when the answer is late or the commit fails.  The agent synchronises    *)
(* when it connects.  It may stop at any time; the disk survives.          *)
(***************************************************************************)
EXTENDS VersionManager

CONSTANTS Syncs,         \* goroutines of the OnReady callback
          MaxReleases,   \* bound: releases of the manager
          MaxConnects,   \* bound: connections of the agent
          MaxRequests,   \* bound: refreshes on behalf of applications
          MaxCrashes     \* bound: restarts of the agent

ASSUME AgentAssumption ==
    /\ {MaxReleases, MaxConnects, MaxRequests, MaxCrashes} \subseteq Nat
    /\ "handler" \notin Syncs

VARIABLES
    rel,        \* the version of the latest release of each file, 0: none
    releasing,  \* the release whose transaction is open, or None
    app,        \* the application's content of each file, NotFound, or 0
    refresh,    \* refreshAgentFDBFromRemote of the sync and of handlers
    sync,       \* syncLocalData: which of its two refreshes runs
    releases, connects, requests, crashes

counters == <<releases, connects, requests, crashes>>
agentVars == <<rel, releasing, app, refresh, sync, counters>>
allVars == <<hubVars, vmVars, agentVars>>

\* NotFound files have the digest of no content, as an absent file has none.
Stored == {0, NotFound, Corrupt} \cup Versions
Refreshers == Syncs \cup {"handler"}
NoRefresh == [pc |-> "idle"]
Refresh == [pc : {"ask"}, full : BOOLEAN, required : UNION {[S -> Stored] : S \in SUBSET Files}]
             \cup [pc : {"apply"}, add : SUBSET (Files \X Versions), mark : SUBSET Files]
             \cup {NoRefresh}

\* The type invariant.
AgentTypeOK ==
    /\ HubTypeOK /\ VmTypeOK
    /\ rel \in [Files -> 0 .. MaxVersion]
    /\ releasing \in Tasks \cup {None}
    /\ app \in [Files -> {0, NotFound, Corrupt} \cup Versions]
    /\ \A r \in Refreshers : refresh[r] \in Refresh
    /\ sync \in [Syncs -> {"idle", "full", "partial"}]
    /\ releases \in 0 .. MaxReleases
    /\ connects \in 0 .. MaxConnects
    /\ requests \in 0 .. MaxRequests
    /\ crashes \in 0 .. MaxCrashes

AgentInit ==
    /\ HubInit /\ VmInit
    /\ rel = [f \in Files |-> 0]
    /\ releasing = None
    /\ app = [f \in Files |-> 0]
    /\ refresh = [r \in Refreshers |-> NoRefresh]
    /\ sync = [s \in Syncs |-> "idle"]
    /\ releases = 0 /\ connects = 0 /\ requests = 0 /\ crashes = 0

-----------------------------------------------------------------------------
(* Releases: ReleaseConfig and ReleaseNamespace of the manager.            *)

\* The transaction is open and the command has reached the agent, whose
\* handler queues the download.
NotifyAgent(what) ==
    /\ connects > 0 /\ releasing = None
    /\ releases < MaxReleases
    /\ releases' = releases + 1
    /\ releasing' = what
    /\ AddDownloadTask(what)
    /\ UNCHANGED <<hubVars, failureQueue, round, download, rel, app, refresh, sync,
                   connects, requests, crashes>>

ReleaseCommit ==
    /\ releasing # None
    /\ releasing' = None
    /\ rel' = [f \in Files |->
                 CASE releasing[1] = "file" /\ releasing[2] = f -> releasing[3]
                   [] releasing[1] = "package" /\ releasing[2][f] # 0 -> releasing[2][f]
                   [] OTHER -> rel[f]]
    /\ UNCHANGED <<hubVars, vmVars, app, refresh, sync, counters>>

\* The answer is late or negative, or the commit fails: the agent is not told.
ReleaseRollback ==
    /\ releasing # None
    /\ releasing' = None
    /\ UNCHANGED <<hubVars, vmVars, rel, app, refresh, sync, counters>>

-----------------------------------------------------------------------------
(* refreshAgentFDBFromRemote.                                              *)

\* fileRefreshHandler: the files of the request whose release has another
\* digest.
Differing(required) ==
    {<<f, rel[f]>> : f \in {g \in DOMAIN required : rel[g] # 0 /\ rel[g] # required[g]}}

\* fileSyncHandler: the files of the site whose release has another digest.
Unsynced(required) ==
    {<<f, rel[f]>> : f \in {g \in Files : /\ rel[g] # 0
                                          /\ g \in DOMAIN required => rel[g] # required[g]}}

StartRefresh(r, required, full) ==
    refresh' = [refresh EXCEPT ![r] = [pc |-> "ask", full |-> full,
                                       required |-> required]]

\* The manager answers.  The files of the answer are to be downloaded, the
\* other files of the request are marked as not found.
Answer(r) ==
    /\ refresh[r].pc = "ask"
    /\ LET required == refresh[r].required
           data == IF refresh[r].full THEN Unsynced(required) ELSE Differing(required)
       IN  /\ refresh' = [refresh EXCEPT ![r] =
                 [pc |-> "apply", add |-> data,
                  mark |-> {f \in DOMAIN required : \A d \in data : d[1] # f}]]
           /\ settled' = settled \ {FileTask(d[1], d[2]) : d \in data}
    /\ UNCHANGED <<hubVars, downloadQueue, downloadMap, failureQueue, round, download,
                   rel, releasing, app, sync, counters>>

\* The request fails: syncLocalData asks again, handlers give up.
AskFails ==
    /\ refresh["handler"].pc = "ask"
    /\ refresh' = [refresh EXCEPT !["handler"] = NoRefresh]
    /\ UNCHANGED <<hubVars, vmVars, rel, releasing, app, sync, counters>>

\* Slip: a file that is on disk is not downloaded.
AddOneSlip(r) ==
    /\ refresh[r].pc = "apply"
    /\ \E d \in refresh[r].add :
          /\ IF disk[d[1]] = d[2]
             THEN UNCHANGED <<downloadMap, downloadQueue, settled>>
             ELSE AddDownloadTask(FileTask(d[1], d[2]))
          /\ refresh' = [refresh EXCEPT ![r].add = @ \ {d}]
    /\ UNCHANGED <<hubVars, failureQueue, round, download, rel, releasing, app, sync,
                   counters>>

AddOne(r) ==
    /\ refresh[r].pc = "apply"
    /\ \E d \in refresh[r].add :
          /\ AddDownloadTask(FileTask(d[1], d[2]))
          /\ refresh' = [refresh EXCEPT ![r].add = @ \ {d}]
    /\ UNCHANGED <<hubVars, failureQueue, round, download, rel, releasing, app, sync,
                   counters>>

MarkOne(r) ==
    /\ refresh[r].pc = "apply" /\ refresh[r].add = {}
    /\ \E f \in refresh[r].mark :
          /\ disk' = [disk EXCEPT ![f] = NotFound]
          /\ refresh' = [refresh EXCEPT ![r].mark = @ \ {f}]
    /\ UNCHANGED <<package, packageQueue, fileQueue, pworker, fworker, fm, dumped,
                   told, vmVars, rel, releasing, app, sync, counters>>

Applied(r) ==
    refresh[r].pc = "apply" /\ refresh[r].add = {} /\ refresh[r].mark = {}

HandlerRefreshed ==
    /\ Applied("handler")
    /\ refresh' = [refresh EXCEPT !["handler"] = NoRefresh]
    /\ UNCHANGED <<hubVars, vmVars, rel, releasing, app, sync, counters>>

-----------------------------------------------------------------------------
(* syncLocalData, each time the agent has connected.                       *)

Known == [f \in {g \in Files : fm[g] # 0} |-> fm[f]]

OnReady(s) ==
    /\ sync[s] = "idle" /\ connects < MaxConnects
    /\ connects' = connects + 1
    /\ sync' = [sync EXCEPT ![s] = "full"]
    /\ StartRefresh(s, Known, TRUE)
    /\ UNCHANGED <<hubVars, vmVars, rel, releasing, app, releases, requests, crashes>>

\* refreshFilemapperFromLocal: files of the mapper that the disk does not
\* have, or has with another digest; they are asked for with the disk's.
Inconsistent == {f \in Files : fm[f] # 0 /\ fm[f] # disk[f]}

SyncEnds(s) ==
    /\ sync' = [sync EXCEPT ![s] = "idle"]
    /\ refresh' = [refresh EXCEPT ![s] = NoRefresh]

ScanDisk(s) ==
    /\ sync[s] = "full" /\ Applied(s)
    /\ IF Inconsistent = {} THEN SyncEnds(s)
       ELSE /\ sync' = [sync EXCEPT ![s] = "partial"]
            /\ StartRefresh(s, [f \in Inconsistent |-> disk[f]], FALSE)
    /\ UNCHANGED <<hubVars, vmVars, rel, releasing, app, counters>>

SyncEnd(s) ==
    /\ sync[s] = "partial" /\ Applied(s)
    /\ SyncEnds(s)
    /\ UNCHANGED <<hubVars, vmVars, rel, releasing, app, counters>>

-----------------------------------------------------------------------------
(* Applications.                                                           *)

\* A handler asks the manager for a file.
RequestFile(f, digest) ==
    /\ refresh["handler"].pc = "idle" /\ connects > 0
    /\ requests < MaxRequests
    /\ requests' = requests + 1
    /\ StartRefresh("handler", [g \in {f} |-> digest], FALSE)

\* CmdContentHandler: the application asks for a file it was told of, or does
\* not have.  One that is not on disk is asked for with the digest of the
\* application.
CmdContent(f) ==
    /\ f \in told \/ app[f] = 0
    /\ IF disk[f] = 0
       THEN RequestFile(f, app[f]) /\ UNCHANGED <<told, app>>
       ELSE /\ told' = told \ {f}
            /\ app' = [app EXCEPT ![f] = disk[f]]
            /\ UNCHANGED <<refresh, requests>>
    /\ UNCHANGED <<disk, package, packageQueue, fileQueue, pworker, fworker, fm, dumped,
                   vmVars, rel, releasing, sync, releases, connects, crashes>>

\* CmdFileRefreshHandler: the application reports its digest; it is told when
\* the mapper has another one or none, and then the manager is asked too.
CmdFileRefresh(f) ==
    /\ app[f] # fm[f] /\ f \notin told
    /\ told' = told \cup {f}
    /\ IF fm[f] = 0 THEN RequestFile(f, 0) ELSE UNCHANGED <<refresh, requests>>
    /\ UNCHANGED <<disk, package, packageQueue, fileQueue, pworker, fworker, fm, dumped,
                   vmVars, rel, releasing, app, sync, releases, connects, crashes>>

Crash ==
    /\ crashes < MaxCrashes
    /\ crashes' = crashes + 1
    /\ HubRestart /\ VmRestart
    /\ refresh' = [r \in Refreshers |-> NoRefresh]
    /\ sync' = [s \in Syncs |-> "idle"]
    /\ UNCHANGED <<rel, releasing, app, releases, connects, requests>>

-----------------------------------------------------------------------------
Refreshing == \E r \in Refreshers : Answer(r) \/ AddOne(r) \/ MarkOne(r)

Manager ==
    \/ \E f \in Files, v \in Versions : NotifyAgent(FileTask(f, v))
    \/ \E p \in PackageType : (\E f \in Files : p[f] # 0) /\ NotifyAgent(PackageTask(p))
    \/ ReleaseCommit \/ ReleaseRollback

Synchronise == \E s \in Syncs : OnReady(s) \/ ScanDisk(s) \/ SyncEnd(s)

Application == \E f \in Files : CmdContent(f) \/ CmdFileRefresh(f)

AgentNext ==
    \/ Hub /\ UNCHANGED <<vmVars, agentVars>>
    \/ FmDump /\ crashes < MaxCrashes /\ UNCHANGED <<vmVars, agentVars>>
    \/ Vm /\ UNCHANGED agentVars
    \/ Manager \/ Refreshing \/ AskFails \/ HandlerRefreshed \/ Synchronise
    \/ Application \/ Crash

\* The goroutines of the agent run, and the manager answers in the end: the
\* loops of syncLocalData ask until it does.
AgentFairness ==
    /\ WF_allVars(popDownloadTask /\ UNCHANGED agentVars)
    /\ \A d \in Downloader : WF_allVars(DoDownload(d) /\ UNCHANGED agentVars)
    /\ WF_allVars((StartRound \/ Retry \/ EndRound) /\ UNCHANGED agentVars)
    /\ \A s \in Syncs : WF_allVars(\/ Answer(s) \/ AddOne(s) \/ MarkOne(s)
                                \/ ScanDisk(s) \/ SyncEnd(s))

AgentSpec == AgentInit /\ [][AgentNext]_allVars /\ AgentFairness

-----------------------------------------------------------------------------
(* Properties.                                                             *)

\* What the manager finds to be out of date at a sync is downloaded, also
\* when it is merged with a task that was queued for an earlier release.
SyncCatchesUp ==
    \A s \in Syncs, f \in Files, v \in Versions :
        (refresh[s].pc = "apply" /\ <<f, v>> \in refresh[s].add)
            ~> FileTask(f, v) \in settled

\* Both parts of a sync come to an end, and the next one may start.
SyncTerminates == \A s \in Syncs : sync[s] # "idle" ~> sync[s] = "idle"

\* "Not found" is for files the manager does not have: a file that is on disk
\* as it was released is not replaced by the mark.  The code does not guarantee
\* it: the manager answers with the files that differ, and the agent marks those
\* it does not answer with, so that a sync marks every file that is up to date;
\* the second refresh finds the marks and downloads the files again.
ReleasedFileKept ==
    [][\A f \in Files : disk[f] = rel[f] /\ rel[f] # 0 => disk'[f] # NotFound]_allVars

\* The files that a refresh, and that all of them, have yet to queue.
ToQueue(q) == IF q.pc = "apply" THEN {FileTask(d[1], d[2]) : d \in q.add} ELSE {}
Promised == UNION {ToQueue(refresh[r]) : r \in Refreshers}

SyncWork == INSTANCE Work WITH
    Jobs <- FileTasks,
    pending <- (Promised \cup UnderWay) \cap FileTasks,
    settled <- settled \cap FileTasks

\* What the manager answers is asked for when the answer arrives, and from then
\* on only a restart loses it: neither another synchronisation or refresh, nor
\* merging it with a task that is queued, nor a release or a reconnect between
\* the answer and its last download.
SyncImplementsWork == SyncWork!Spec
=============================================================================
