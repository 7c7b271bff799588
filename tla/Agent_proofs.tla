---------------------------- MODULE Agent_proofs ----------------------------
(***************************************************************************)
(* Proofs about Downloads and Agent for any number of files, versions,     *)
(* workers, tasks, retries, synchronisations and restarts.  Both use       *)
(* VersionManager and Updater: the first part is about these two, the      *)
(* second about where tasks are, the others about Downloads and Agent.     *)
(***************************************************************************)
EXTENDS Downloads, Agent, TLAPS

-----------------------------------------------------------------------------
(* The inductive invariant of the version manager and the updater.         *)

\* A package that is announced to the hub is in the file database.
PackageThere == packageQueue # <<>> => package \in PackageType

\* A package worker unpacks and compares only files its package has; when it
\* has updated the mapper, which it does at the end, the mapper knows them.
UnpackOK(w) ==
    pworker[w] # None =>
        /\ \A f \in pworker[w].todo \cup pworker[w].diff : pworker[w].pkg[f] # 0
        /\ pworker[w].notify =>
              pworker[w].todo = {} /\ \A f \in pworker[w].diff : fm[f] # 0

\* A download that is under way has a task; the consumer's has never failed, the
\* retry loop's belongs to a round, and a package has been stored before the hub
\* is notified.
DownloadOK(d) ==
    download[d].pc # "idle" =>
        /\ download[d].task \in DownloadTask
        /\ d = "consumer" => download[d].task.failed = 0
        /\ d = "retry" => round \in Rounds
        /\ download[d].pc = "notify" /\ ~IsFile(download[d].task.what) => package \in PackageType

\* What is queued has never failed and has its key in downloadMap.
QueueOK ==
    /\ \A i \in 1 .. Len(downloadQueue) :
          downloadQueue[i].failed = 0 /\ downloadQueue[i].what \in downloadMap
    /\ \A t \in downloadMap : IsFile(t) =>
          \E i \in 1 .. Len(downloadQueue) : downloadQueue[i].what = t
    /\ \A i, j \in 1 .. Len(downloadQueue) :
          downloadQueue[i].what = downloadQueue[j].what => i = j

PInv ==
    /\ HubTypeOK
    /\ VmTypeOK
    /\ PackageThere
    /\ \A w \in PackageWorkers : UnpackOK(w)
    /\ \A d \in Downloader : DownloadOK(d)
    /\ QueueOK

\* What every step of the two leaves true.
KeepsMapped == ToldIsMapped => ToldIsMapped'

-----------------------------------------------------------------------------
(* Facts about tasks and sequences.                                        *)

\* A file task is its own Args; those of a package are no task.
LEMMA TaskFacts ==
    /\ \A t \in Tasks :
          \/ IsFile(t) /\ t[2] \in Files /\ t[3] \in Versions /\ Args(t) = t
          \/ ~IsFile(t) /\ t[2] \in PackageType /\ Args(t) = <<"package">>
    /\ <<"package">> \notin Tasks
BY DEF Tasks, FileTask, PackageTask, IsFile, Args

\* Versions are not 0.
LEMMA VersionFacts == Versions \subseteq 0 .. MaxVersion /\ 0 \notin Versions /\ 0 \in 0 .. MaxVersion
BY UpdaterAssumption DEF Versions

\* A function stays one when a value is replaced.
LEMMA ExceptType ==
    ASSUME NEW A, NEW B, NEW f \in [A -> B], NEW x, NEW v \in B
    PROVE  [f EXCEPT ![x] = v] \in [A -> B]
OBVIOUS

\* The empty sequence, Append and Tail.
LEMMA SeqFacts ==
    /\ \A S : <<>> \in Seq(S) /\ Len(<<>>) = 0
    /\ \A S : \A s \in Seq(S) :
          /\ Len(s) \in Nat /\ (s = <<>> <=> Len(s) = 0)
          /\ \A i \in 1 .. Len(s) : s[i] \in S
    /\ \A S : \A s \in Seq(S), e \in S :
          /\ Append(s, e) \in Seq(S) /\ Len(Append(s, e)) = Len(s) + 1
          /\ Append(s, e)[Len(s) + 1] = e /\ Append(s, e) # <<>>
          /\ \A i \in 1 .. Len(s) : Append(s, e)[i] = s[i]
    /\ \A S : \A s \in Seq(S) : s # <<>> =>
          /\ Head(s) = s[1] /\ Head(s) \in S
          /\ Tail(s) \in Seq(S) /\ Len(Tail(s)) = Len(s) - 1
          /\ \A i \in 1 .. Len(s) - 1 : Tail(s)[i] = s[i + 1]
<1>1. \A S : <<>> \in Seq(S) /\ Len(<<>>) = 0
    OBVIOUS
<1>2. ASSUME NEW S, NEW s \in Seq(S)
      PROVE  /\ Len(s) \in Nat /\ (s = <<>> <=> Len(s) = 0)
             /\ \A i \in 1 .. Len(s) : s[i] \in S
    OBVIOUS
<1>3. ASSUME NEW S, NEW s \in Seq(S), NEW e \in S
      PROVE  /\ Append(s, e) \in Seq(S) /\ Len(Append(s, e)) = Len(s) + 1
             /\ Append(s, e)[Len(s) + 1] = e /\ Append(s, e) # <<>>
             /\ \A i \in 1 .. Len(s) : Append(s, e)[i] = s[i]
    OBVIOUS
<1>4. ASSUME NEW S, NEW s \in Seq(S), s # <<>>
      PROVE  /\ Head(s) = s[1] /\ Head(s) \in S
             /\ Tail(s) \in Seq(S) /\ Len(Tail(s)) = Len(s) - 1
             /\ \A i \in 1 .. Len(s) - 1 : Tail(s)[i] = s[i + 1]
    BY <1>4
<1>5. QED
    BY <1>1, <1>2, <1>3, <1>4

\* Nothing is queued, stored or told.
LEMMA PInitInv == HubInit /\ VmInit => PInv
<1> SUFFICES ASSUME HubInit, VmInit PROVE PInv
    OBVIOUS
<1>1. HubTypeOK
    BY SeqFacts, VersionFacts DEF HubInit, HubTypeOK
<1>2. VmTypeOK
    BY SeqFacts DEF VmInit, VmTypeOK, NoDownload, Downloading
<1>3. PackageThere /\ QueueOK
    BY SeqFacts DEF HubInit, VmInit, PackageThere, QueueOK
<1>4. \A w \in PackageWorkers : UnpackOK(w)
    BY DEF HubInit, UnpackOK
<1>5. \A d \in Downloader : DownloadOK(d)
    BY DEF VmInit, DownloadOK, NoDownload
<1>6. QED
    BY <1>1, <1>2, <1>3, <1>4, <1>5 DEF PInv

-----------------------------------------------------------------------------
(* Steps of the hub.                                                       *)

\* Steps of the hub leave downloads and the queue as they are.
LEMMA HubFrame ==
    ASSUME PInv, UNCHANGED vmVars, package' = package
    PROVE  VmTypeOK' /\ QueueOK' /\ \A d \in Downloader : DownloadOK(d)'
<1>1. VmTypeOK'
    BY DEF PInv, VmTypeOK, vmVars
<1>2. QueueOK'
    BY DEF PInv, QueueOK, vmVars
<1>3. \A d \in Downloader : DownloadOK(d)'
    BY DEF PInv, DownloadOK, vmVars
<1>4. QED
    BY <1>1, <1>2, <1>3

\* What FmUpdate records of versions leaves the mapper with every file it knew.
LEMMA MapperGrows ==
    ASSUME PInv, NEW D \in SUBSET Files, NEW target \in [D -> Versions], FmUpdate(target)
    PROVE  /\ fm' \in [Files -> 0 .. MaxVersion]
           /\ \A f \in Files : fm[f] # 0 => fm'[f] # 0
           /\ \A f \in D : fm'[f] # 0
BY VersionFacts DEF PInv, HubTypeOK, FmUpdate

\* A worker starts on the package in the file database.
LEMMA VisitStep ==
    ASSUME PInv, NEW w \in PackageWorkers, VisitPackage(w), UNCHANGED vmVars
    PROVE  PInv' /\ KeepsMapped
<1> DEFINE new == [pkg |-> package, diff |-> {}, notify |-> FALSE,
                   todo |-> {f \in Files : package[f] # 0}]
<1>1. UNCHANGED <<disk, package, fileQueue, fworker, fm, dumped, told>>
    BY DEF VisitPackage
<1>2. packageQueue # <<>> /\ package \in PackageType /\ packageQueue' \in Seq(PackageType)
    BY SeqFacts DEF VisitPackage, NextPackage, PInv, PackageThere, HubTypeOK
<1>3. new \in Unpacking
    BY <1>2 DEF Unpacking
<1>4. pworker' = pworker \/ pworker' = [pworker EXCEPT ![w] = new]
    BY DEF VisitPackage
<1>5. pworker' \in [PackageWorkers -> Unpacking \cup {None}]
    BY <1>3, <1>4 DEF PInv, HubTypeOK
<1>6. HubTypeOK'
    BY <1>1, <1>2, <1>5 DEF PInv, HubTypeOK
<1>7. PackageThere' /\ KeepsMapped
    BY <1>1, <1>2 DEF PInv, PackageThere, KeepsMapped, ToldIsMapped
<1>8. ASSUME NEW v \in PackageWorkers PROVE UnpackOK(v)'
    <2>1. pworker'[v] = pworker[v] \/ pworker'[v] = new
        BY <1>4 DEF PInv, HubTypeOK
    <2>2. CASE pworker'[v] = pworker[v]
        BY <1>1, <2>2 DEF PInv, UnpackOK
    <2>3. CASE pworker'[v] = new
        BY <2>3 DEF UnpackOK
    <2>4. QED
        BY <2>1, <2>2, <2>3
<1>9. QED
    BY <1>1, <1>6, <1>7, <1>8, HubFrame DEF PInv

\* A file is unpacked: it is one the package has, and so is what it differs in.
LEMMA UntarStep ==
    ASSUME PInv, NEW w \in PackageWorkers, NEW f \in Files, Untar(w, f),
           UNCHANGED vmVars
    PROVE  PInv' /\ KeepsMapped
<1> DEFINE p == pworker[w]
           v == p.pkg[f]
<1>1. UNCHANGED <<package, packageQueue, fileQueue, fworker, fm, dumped, told>>
    BY DEF Untar
<1>2. /\ p \in Unpacking /\ p # None /\ f \in p.todo /\ UnpackOK(w)
    BY DEF Untar, PInv, HubTypeOK
<1>3. v \in Versions
    BY <1>2, UpdaterAssumption DEF UnpackOK, Unpacking, PackageType, Versions
<1>4. disk' \in [Files -> {0, NotFound, Corrupt} \cup Versions]
    BY <1>3 DEF Untar, Extract, PInv, HubTypeOK
<1>5. PICK q \in Unpacking \cup {None} :
          /\ pworker' = [pworker EXCEPT ![w] = q]
          /\ q # None => /\ q.pkg = p.pkg /\ q.notify = p.notify /\ f \in p.todo
                         /\ q.todo \subseteq p.todo /\ q.diff \subseteq p.diff \cup {f}
    <2>1. CASE pworker' = [pworker EXCEPT ![w] = None]
        BY <2>1
    <2>2. CASE Extract(w, f, v)
        <3> DEFINE q == [p EXCEPT !.todo = @ \ {f},
                                  !.diff = IF FmGet(Namespace, f) # v THEN @ \cup {f} ELSE @]
        <3>1. pworker' = [pworker EXCEPT ![w] = q]
            BY <2>2 DEF Extract, PInv, HubTypeOK
        <3>2. /\ q \in Unpacking /\ q.pkg = p.pkg /\ q.notify = p.notify
              /\ q.todo \subseteq p.todo /\ q.diff \subseteq p.diff \cup {f}
            BY <1>2 DEF Unpacking
        <3>3. QED
            BY <1>2, <3>1, <3>2
    <2>3. QED
        BY <2>1, <2>2 DEF Untar
<1>6. pworker' \in [PackageWorkers -> Unpacking \cup {None}]
    BY <1>5 DEF PInv, HubTypeOK
<1>7. HubTypeOK'
    BY <1>1, <1>4, <1>6 DEF PInv, HubTypeOK
<1>8. PackageThere' /\ KeepsMapped
    BY <1>1 DEF PInv, PackageThere, KeepsMapped, ToldIsMapped
<1>9. ASSUME NEW u \in PackageWorkers PROVE UnpackOK(u)'
    <2>1. CASE u # w
        BY <1>1, <1>5, <2>1 DEF PInv, HubTypeOK, UnpackOK
    <2>2. CASE u = w
        <3>1. pworker'[w] = q
            BY <1>5 DEF PInv, HubTypeOK
        <3>2. ~p.notify
            BY <1>2 DEF UnpackOK
        <3>3. q # None => \A g \in q.todo \cup q.diff : q.pkg[g] # 0
            BY <1>2, <1>5 DEF UnpackOK
        <3>4. QED
            BY <1>5, <2>2, <3>1, <3>2, <3>3 DEF UnpackOK
    <2>3. QED
        BY <2>1, <2>2
<1>10. QED
    BY <1>1, <1>7, <1>8, <1>9, HubFrame DEF PInv

\* The mapper learns the files the package differs in, before anybody is told.
LEMMA UpdateStep ==
    ASSUME PInv, NEW w \in PackageWorkers, PackageUpdate(w), UNCHANGED vmVars
    PROVE  PInv' /\ KeepsMapped
<1> DEFINE p == pworker[w]
           q == [p EXCEPT !.notify = TRUE]
<1>1. UNCHANGED <<disk, package, packageQueue, fileQueue, fworker, dumped, told>>
    BY DEF PackageUpdate
<1>2. p \in Unpacking /\ p # None /\ p.todo = {} /\ UnpackOK(w)
    BY DEF PackageUpdate, PInv, HubTypeOK
<1>3. p.diff \in SUBSET Files /\ [f \in p.diff |-> p.pkg[f]] \in [p.diff -> Versions]
    BY <1>2, UpdaterAssumption DEF UnpackOK, Unpacking, PackageType, Versions
<1>4. /\ fm' \in [Files -> 0 .. MaxVersion]
      /\ \A f \in Files : fm[f] # 0 => fm'[f] # 0
      /\ \A f \in p.diff : fm'[f] # 0
    BY <1>3, MapperGrows DEF PackageUpdate
<1>5. /\ q \in Unpacking /\ q.pkg = p.pkg /\ q.notify /\ q.todo = p.todo /\ q.diff = p.diff
    BY <1>2 DEF Unpacking
<1>6. pworker' = [pworker EXCEPT ![w] = q]
    BY DEF PackageUpdate
<1>7. HubTypeOK'
    BY <1>1, <1>4, <1>5, <1>6 DEF PInv, HubTypeOK
<1>8. PackageThere' /\ KeepsMapped
    BY <1>1, <1>4 DEF PInv, HubTypeOK, PackageThere, KeepsMapped, ToldIsMapped
<1>9. ASSUME NEW u \in PackageWorkers PROVE UnpackOK(u)'
    <2>1. CASE u # w
        <3>1. pworker'[u] = pworker[u] /\ UnpackOK(u)
            BY <1>6, <2>1 DEF PInv, HubTypeOK
        <3>2. pworker[u] # None => pworker[u].diff \subseteq Files
            BY DEF PInv, HubTypeOK, Unpacking
        <3>3. QED
            BY <1>4, <3>1, <3>2 DEF UnpackOK
    <2>2. CASE u = w
        <3>1. pworker'[w] = q
            BY <1>6 DEF PInv, HubTypeOK
        <3>2. QED
            BY <1>2, <1>4, <1>5, <2>2, <3>1 DEF UnpackOK
    <2>3. QED
        BY <2>1, <2>2
<1>10. QED
    BY <1>1, <1>7, <1>8, <1>9, HubFrame DEF PInv

\* The applications are told of what the mapper has learnt.
LEMMA NotifyStep ==
    ASSUME PInv, NEW w \in PackageWorkers, PackageNotify(w), UNCHANGED vmVars
    PROVE  PInv' /\ KeepsMapped
<1>1. UNCHANGED <<disk, package, packageQueue, fileQueue, fworker, fm, dumped>>
    BY DEF PackageNotify
<1>2. pworker[w] \in Unpacking /\ pworker[w] # None /\ pworker[w].notify /\ UnpackOK(w)
    BY DEF PackageNotify, PInv, HubTypeOK
<1>3. told' = told \cup pworker[w].diff /\ pworker' = [pworker EXCEPT ![w] = None]
    BY DEF PackageNotify, NotifyUpdate
<1>4. told' \in SUBSET Files
    BY <1>2, <1>3 DEF Unpacking, PInv, HubTypeOK
<1>5. HubTypeOK'
    BY <1>1, <1>3, <1>4 DEF PInv, HubTypeOK
<1>6. PackageThere' /\ KeepsMapped
    BY <1>1, <1>2, <1>3 DEF PInv, PackageThere, KeepsMapped, ToldIsMapped, UnpackOK
<1>7. ASSUME NEW u \in PackageWorkers PROVE UnpackOK(u)'
    BY <1>1, <1>3 DEF PInv, HubTypeOK, UnpackOK
<1>8. QED
    BY <1>1, <1>5, <1>6, <1>7, HubFrame DEF PInv

\* A file worker takes a file, or records and tells it.
LEMMA FileSteps ==
    ASSUME PInv, NEW w \in FileWorkers, TakeFile(w) \/ runFileUpdated(w),
           UNCHANGED vmVars
    PROVE  PInv' /\ KeepsMapped
<1>1. UNCHANGED <<disk, package, packageQueue, pworker, dumped>>
    BY DEF TakeFile, runFileUpdated
<1>2. fileQueue' \in Seq(Files \X Versions)
    <2>1. fileQueue \in Seq(Files \X Versions)
        BY DEF PInv, HubTypeOK
    <2>2. fileQueue' = fileQueue \/ (fileQueue # <<>> /\ fileQueue' = Tail(fileQueue))
        BY DEF TakeFile, runFileUpdated
    <2>3. \A S : fileQueue \in Seq(S) /\ fileQueue # <<>> => Tail(fileQueue) \in Seq(S)
        BY SeqFacts
    <2>4. QED
        BY <2>1, <2>2, <2>3
<1>3. fworker' \in [FileWorkers -> (Files \X Versions) \cup {None}]
    <2>1. \/ fworker' = [fworker EXCEPT ![w] = None]
          \/ fileQueue # <<>> /\ fworker' = [fworker EXCEPT ![w] = Head(fileQueue)]
        BY DEF TakeFile, runFileUpdated
    <2>2. fileQueue # <<>> => Head(fileQueue) \in Files \X Versions
        BY SeqFacts DEF PInv, HubTypeOK
    <2>3. fworker \in [FileWorkers -> (Files \X Versions) \cup {None}]
        BY DEF PInv, HubTypeOK
    <2>4. QED
        <3>1. PICK v \in (Files \X Versions) \cup {None} : fworker' = [fworker EXCEPT ![w] = v]
            BY <2>1, <2>2, Zenon
        <3>2. QED
            BY <2>3, <3>1, ExceptType, Zenon
<1>4. /\ fm' \in [Files -> 0 .. MaxVersion] /\ told' \in SUBSET Files
      /\ \A f \in Files : fm[f] # 0 => fm'[f] # 0
      /\ \A f \in told' : f \in told \/ fm'[f] # 0
    <2>1. CASE UNCHANGED <<fm, told>>
        BY <2>1 DEF PInv, HubTypeOK
    <2>2. CASE /\ fworker[w] # None
               /\ FmUpdate([g \in {fworker[w][1]} |-> fworker[w][2]])
               /\ NotifyUpdate({fworker[w][1]})
        <3>1. fworker[w][1] \in Files /\ fworker[w][2] \in Versions
            BY <2>2 DEF PInv, HubTypeOK
        <3>2. /\ {fworker[w][1]} \in SUBSET Files
              /\ [g \in {fworker[w][1]} |-> fworker[w][2]] \in [{fworker[w][1]} -> Versions]
            BY <3>1
        <3>3. /\ fm' \in [Files -> 0 .. MaxVersion]
              /\ \A f \in Files : fm[f] # 0 => fm'[f] # 0
              /\ fm'[fworker[w][1]] # 0
            BY <2>2, <3>2, MapperGrows
        <3>4. told' = told \cup {fworker[w][1]} /\ told \in SUBSET Files
            BY <2>2 DEF NotifyUpdate, PInv, HubTypeOK
        <3>5. QED
            BY <3>1, <3>3, <3>4
    <2>3. QED
        BY <2>1, <2>2 DEF TakeFile, runFileUpdated
<1>5. HubTypeOK'
    BY <1>1, <1>2, <1>3, <1>4 DEF PInv, HubTypeOK
<1>6. PackageThere' /\ KeepsMapped
    BY <1>1, <1>4 DEF PInv, HubTypeOK, PackageThere, KeepsMapped, ToldIsMapped
<1>7. ASSUME NEW u \in PackageWorkers PROVE UnpackOK(u)'
    <2>1. pworker[u] # None => pworker[u].diff \subseteq Files
        BY DEF PInv, HubTypeOK, Unpacking
    <2>2. QED
        BY <1>1, <1>4, <2>1 DEF PInv, UnpackOK
<1>8. QED
    BY <1>1, <1>5, <1>6, <1>7, HubFrame DEF PInv

\* Applications fetch or ask, the dump is written, a file is marked.
LEMMA OutsideStep ==
    ASSUME PInv, HubTypeOK', UNCHANGED <<package, packageQueue, pworker, fm, vmVars>>
    PROVE  PInv'
<1>1. PackageThere' /\ \A u \in PackageWorkers : UnpackOK(u)'
    BY DEF PInv, PackageThere, UnpackOK
<1>2. QED
    BY <1>1, HubFrame DEF PInv

-----------------------------------------------------------------------------
(* Steps of the version manager.                                           *)

\* Steps that leave the hub as it is.
LEMMA VmFrame ==
    ASSUME PInv, UNCHANGED hubVars
    PROVE  /\ HubTypeOK' /\ PackageThere' /\ KeepsMapped
           /\ \A w \in PackageWorkers : UnpackOK(w)'
<1>1. HubTypeOK'
    BY DEF PInv, HubTypeOK, hubVars
<1>2. PackageThere' /\ KeepsMapped /\ \A w \in PackageWorkers : UnpackOK(w)'
    BY DEF PInv, PackageThere, KeepsMapped, ToldIsMapped, UnpackOK, hubVars
<1>3. QED
    BY <1>1, <1>2

\* A handler adds a task, unless its key is in the map.
LEMMA AddTaskStep ==
    ASSUME PInv, NEW what \in Tasks, AddDownloadTask(what),
           UNCHANGED <<hubVars, failureQueue, round, download>>
    PROVE  PInv' /\ KeepsMapped
<1> DEFINE new == [what |-> what, failed |-> 0]
<1>1. \A d \in Downloader : DownloadOK(d)'
    BY DEF PInv, DownloadOK, hubVars
<1>2. new \in DownloadTask /\ downloadQueue \in Seq(DownloadTask) /\ downloadMap \in SUBSET Tasks
    BY VersionManagerAssumption DEF DownloadTask, PInv, VmTypeOK
<1>3. CASE what \in downloadMap
    <2>1. UNCHANGED <<downloadMap, downloadQueue, settled>>
        BY <1>3 DEF AddDownloadTask
    <2>2. VmTypeOK' /\ QueueOK'
        BY <2>1 DEF PInv, VmTypeOK, QueueOK
    <2>3. QED
        BY <1>1, <2>2, VmFrame DEF PInv
<1>4. CASE what \notin downloadMap
    <2>1. /\ downloadMap' = downloadMap \cup {what}
          /\ downloadQueue' = Append(downloadQueue, new)
          /\ settled' = settled \ {what}
        BY <1>4 DEF AddDownloadTask
    <2>2. /\ downloadQueue' \in Seq(DownloadTask) /\ Len(downloadQueue) \in Nat
          /\ Len(downloadQueue') = Len(downloadQueue) + 1
          /\ downloadQueue'[Len(downloadQueue) + 1] = new
          /\ \A i \in 1 .. Len(downloadQueue) : downloadQueue'[i] = downloadQueue[i]
        BY <1>2, <2>1, SeqFacts
    <2>3. VmTypeOK'
        BY <1>2, <2>1, <2>2 DEF PInv, VmTypeOK
    <2>4. new.what = what /\ new.failed = 0
        OBVIOUS
    <2>5. \A i \in 1 .. Len(downloadQueue') : i \in 1 .. Len(downloadQueue) \/ i = Len(downloadQueue) + 1
        BY <2>2
    <2>6. \A i \in 1 .. Len(downloadQueue) :
             downloadQueue[i].failed = 0 /\ downloadQueue[i].what \in downloadMap
        BY DEF PInv, QueueOK
    <2>7. \A i \in 1 .. Len(downloadQueue') :
             downloadQueue'[i].failed = 0 /\ downloadQueue'[i].what \in downloadMap'
        BY <2>1, <2>2, <2>4, <2>5, <2>6
    <2>8. ASSUME NEW t \in downloadMap', IsFile(t)
          PROVE  \E i \in 1 .. Len(downloadQueue') : downloadQueue'[i].what = t
        <3>1. CASE t = what
            <4>1. Len(downloadQueue) + 1 \in 1 .. Len(downloadQueue')
                BY <2>2
            <4>2. QED
                BY <2>2, <2>4, <3>1, <4>1
        <3>2. CASE t \in downloadMap
            <4>1. PICK i \in 1 .. Len(downloadQueue) : downloadQueue[i].what = t
                BY <2>8, <3>2 DEF PInv, QueueOK
            <4>2. i \in 1 .. Len(downloadQueue')
                BY <2>2
            <4>3. QED
                BY <2>2, <4>1, <4>2
        <3>3. QED
            BY <2>1, <3>1, <3>2
    <2>9. ASSUME NEW i \in 1 .. Len(downloadQueue'), NEW j \in 1 .. Len(downloadQueue'),
                 downloadQueue'[i].what = downloadQueue'[j].what
          PROVE  i = j
        <3>1. CASE i \in 1 .. Len(downloadQueue) /\ j \in 1 .. Len(downloadQueue)
            BY <2>2, <2>9, <3>1 DEF PInv, QueueOK
        <3>2. CASE i = Len(downloadQueue) + 1 /\ j \in 1 .. Len(downloadQueue)
            BY <1>4, <2>2, <2>4, <2>6, <2>9, <3>2
        <3>3. CASE i \in 1 .. Len(downloadQueue) /\ j = Len(downloadQueue) + 1
            BY <1>4, <2>2, <2>4, <2>6, <2>9, <3>3
        <3>4. QED
            BY <2>5, <3>1, <3>2, <3>3
    <2>10. QueueOK'
        BY <2>7, <2>8, <2>9 DEF QueueOK
    <2>11. QED
        BY <1>1, <2>3, <2>10, VmFrame DEF PInv
<1>5. QED
    BY <1>3, <1>4

\* The consumer takes the oldest task and releases its key if it is a file.
LEMMA PopStep ==
    ASSUME PInv, popDownloadTask
    PROVE  PInv' /\ KeepsMapped
<1> DEFINE h == Head(downloadQueue)
           new == [pc |-> "get", task |-> h]
<1>1. /\ UNCHANGED <<hubVars, failureQueue, round, settled>> /\ downloadQueue # <<>>
      /\ downloadQueue' = Tail(downloadQueue)
      /\ downloadMap' = downloadMap \ {Args(h.what)}
      /\ download' = [download EXCEPT !["consumer"] = new]
    BY DEF popDownloadTask
<1>2. /\ downloadQueue \in Seq(DownloadTask) /\ downloadMap \in SUBSET Tasks
      /\ download \in [Downloader -> Downloading]
    BY DEF PInv, VmTypeOK
<1>3. /\ Len(downloadQueue) \in Nat /\ Len(downloadQueue) >= 1
      /\ h = downloadQueue[1] /\ h \in DownloadTask
      /\ downloadQueue' \in Seq(DownloadTask) /\ Len(downloadQueue') = Len(downloadQueue) - 1
      /\ \A i \in 1 .. Len(downloadQueue) - 1 : downloadQueue'[i] = downloadQueue[i + 1]
    BY <1>1, <1>2, SeqFacts
<1>4. h.what \in Tasks /\ 1 \in 1 .. Len(downloadQueue)
    BY <1>3 DEF DownloadTask
<1>5. new \in Downloading /\ new.pc = "get" /\ new.task = h
    BY <1>3 DEF Downloading
<1>6. VmTypeOK'
    <2>1. download' \in [Downloader -> Downloading]
        BY <1>1, <1>2, <1>5
    <2>2. QED
        BY <1>1, <1>2, <1>3, <2>1 DEF PInv, VmTypeOK
<1>7. h.failed = 0
    BY <1>3, <1>4 DEF PInv, QueueOK
<1>8. ASSUME NEW d \in Downloader PROVE DownloadOK(d)'
    <2>1. CASE d = "consumer"
        <3>1. download'[d] = new
            BY <1>1, <1>2, <2>1
        <3>2. QED
            BY <1>3, <1>5, <1>7, <2>1, <3>1 DEF DownloadOK
    <2>2. CASE d # "consumer"
        <3>1. download'[d] = download[d]
            BY <1>1, <1>2, <2>2
        <3>2. QED
            BY <1>1, <2>2, <3>1 DEF PInv, DownloadOK, hubVars
    <2>3. QED
        BY <2>1, <2>2
<1>9. ASSUME NEW i \in 1 .. Len(downloadQueue')
      PROVE  /\ i \in Nat /\ i + 1 \in 1 .. Len(downloadQueue) /\ i + 1 # 1
             /\ downloadQueue'[i] = downloadQueue[i + 1]
    BY <1>3
<1>10. ASSUME NEW i \in 1 .. Len(downloadQueue')
       PROVE  downloadQueue'[i].failed = 0 /\ downloadQueue'[i].what \in downloadMap'
    <2>1. /\ downloadQueue'[i].failed = 0 /\ downloadQueue'[i].what \in downloadMap
          /\ downloadQueue'[i].what # h.what
        <3>1. /\ downloadQueue[i + 1].failed = 0 /\ downloadQueue[i + 1].what \in downloadMap
              /\ downloadQueue[i + 1].what # downloadQueue[1].what
            BY <1>4, <1>9 DEF PInv, QueueOK
        <3>2. QED
            BY <1>3, <1>9, <3>1
    <2>2. Args(h.what) # downloadQueue'[i].what
        BY <1>2, <1>4, <2>1, TaskFacts
    <2>3. QED
        BY <1>1, <2>1, <2>2
<1>11. ASSUME NEW t \in downloadMap', IsFile(t)
       PROVE  \E i \in 1 .. Len(downloadQueue') : downloadQueue'[i].what = t
    <2>1. t \in downloadMap /\ t # Args(h.what) /\ t \in Tasks
        BY <1>1, <1>2
    <2>2. PICK i \in 1 .. Len(downloadQueue) : downloadQueue[i].what = t
        BY <1>11, <2>1 DEF PInv, QueueOK
    <2>3. t # h.what
        BY <1>11, <2>1, TaskFacts
    <2>4. i # 1
        BY <1>3, <2>2, <2>3
    <2>5. i - 1 \in 1 .. Len(downloadQueue') /\ (i - 1) + 1 = i
        BY <1>3, <2>4
    <2>6. downloadQueue'[i - 1] = downloadQueue[i]
        BY <1>9, <2>5
    <2>7. QED
        BY <2>2, <2>5, <2>6
<1>12. ASSUME NEW i \in 1 .. Len(downloadQueue'), NEW j \in 1 .. Len(downloadQueue'),
              downloadQueue'[i].what = downloadQueue'[j].what
       PROVE  i = j
    <2>1. i + 1 = j + 1
        BY <1>9, <1>12 DEF PInv, QueueOK
    <2>2. QED
        BY <1>9, <2>1
<1>13. QueueOK'
    BY <1>10, <1>11, <1>12 DEF QueueOK
<1>14. QED
    BY <1>1, <1>6, <1>8, <1>13, VmFrame DEF PInv

\* A round starts with what has failed, takes its tasks one by one, and leaves
\* those that failed again.
LEMMA RoundSteps ==
    ASSUME PInv, StartRound \/ Retry \/ EndRound
    PROVE  PInv' /\ KeepsMapped
<1>1. UNCHANGED <<hubVars, downloadQueue, downloadMap, settled>>
    BY DEF StartRound, Retry, EndRound
<1>2. /\ failureQueue \in Seq(DownloadTask) /\ download \in [Downloader -> Downloading]
      /\ round \in Rounds \cup {None}
    BY DEF PInv, VmTypeOK
<1>3. /\ failureQueue' \in Seq(DownloadTask) /\ round' \in Rounds \cup {None}
      /\ download' \in [Downloader -> Downloading]
      /\ \A d \in Downloader : DownloadOK(d)'
    <2>1. CASE StartRound
        <3>1. round' \in Rounds /\ failureQueue' \in Seq(DownloadTask) /\ download' = download
            BY <1>2, <2>1, SeqFacts DEF StartRound, Rounds
        <3>2. QED
            BY <1>1, <1>2, <3>1 DEF PInv, DownloadOK, hubVars
    <2>2. CASE Retry
        <3> DEFINE h == Head(round.todo)
                   new == [pc |-> "get", task |-> h]
        <3>1. round \in Rounds /\ round.todo # <<>> /\ failureQueue' = failureQueue
            BY <1>2, <2>2 DEF Retry
        <3>2. round.todo \in Seq(DownloadTask) /\ round.done \in SUBSET (Tasks \cup {<<"package">>})
            BY <3>1 DEF Rounds
        <3>3. h \in DownloadTask /\ Tail(round.todo) \in Seq(DownloadTask)
            BY <3>1, <3>2, SeqFacts
        <3>4. Args(h.what) \in Tasks \cup {<<"package">>}
            BY <3>3, TaskFacts DEF DownloadTask
        <3>5. round' \in Rounds
            <4>1. round.done \cup {Args(h.what)} \in SUBSET (Tasks \cup {<<"package">>})
                BY <3>2, <3>4
            <4>2. round' = [round EXCEPT !.todo = Tail(@), !.done = @ \cup {Args(h.what)}]
                BY <2>2 DEF Retry
            <4>3. QED
                BY <3>1, <3>3, <4>1, <4>2 DEF Rounds
        <3>6. new \in Downloading /\ new.task = h
            BY <3>3 DEF Downloading
        <3>7. download' = download \/ download' = [download EXCEPT !["retry"] = new]
            BY <2>2 DEF Retry
        <3>8. ASSUME NEW d \in Downloader PROVE DownloadOK(d)'
            <4>1. download'[d] = download[d] \/ (d = "retry" /\ download'[d] = new)
                BY <1>2, <3>7
            <4>2. CASE download'[d] = download[d]
                BY <1>1, <3>5, <4>2 DEF PInv, DownloadOK, hubVars
            <4>3. CASE d = "retry" /\ download'[d] = new
                BY <3>3, <3>5, <3>6, <4>3 DEF DownloadOK
            <4>4. QED
                BY <4>1, <4>2, <4>3
        <3>9. download' \in [Downloader -> Downloading]
            BY <1>2, <3>6, <3>7
        <3>10. QED
            BY <1>2, <3>1, <3>5, <3>8, <3>9
    <2>3. CASE EndRound
        <3>1. round \in Rounds /\ round' = None /\ download' = download /\ download["retry"].pc = "idle"
            BY <1>2, <2>3 DEF EndRound
        <3>2. failureQueue' \in Seq(DownloadTask)
            <4>1. round.kept \in Seq(DownloadTask)
                BY <3>1 DEF Rounds
            <4>2. QED
                BY <1>2, <2>3, <4>1 DEF EndRound
        <3>3. ASSUME NEW d \in Downloader PROVE DownloadOK(d)'
            BY <1>1, <3>1 DEF PInv, DownloadOK, hubVars
        <3>4. QED
            BY <1>2, <3>1, <3>2, <3>3
    <2>4. QED
        BY <2>1, <2>2, <2>3
<1>4. VmTypeOK' /\ QueueOK'
    <2>1. VmTypeOK'
        BY <1>1, <1>3 DEF PInv, VmTypeOK
    <2>2. QueueOK'
        BY <1>1 DEF PInv, QueueOK
    <2>3. QED
        BY <2>1, <2>2
<1>5. QED
    BY <1>1, <1>3, <1>4, VmFrame DEF PInv

\* A download ends, well or badly: a task that fails is counted up to its limit,
\* and a round that is under way stays one.
LEMMA DownloadEnds ==
    ASSUME PInv, NEW d \in Downloader, download[d].pc # "idle", Succeeds(d) \/ Fails(d),
           UNCHANGED <<downloadQueue, downloadMap>>,
           package \in PackageType => package' \in PackageType
    PROVE  VmTypeOK' /\ QueueOK' /\ \A e \in Downloader : DownloadOK(e)'
<1> DEFINE k == download[d].task
<1>1. /\ k \in DownloadTask /\ (d = "consumer" => k.failed = 0) /\ (d = "retry" => round \in Rounds)
    BY DEF PInv, DownloadOK
<1>2. k.what \in Tasks /\ k.failed \in 0 .. MaxFailed
    BY <1>1 DEF DownloadTask
<1>3. /\ failureQueue \in Seq(DownloadTask) /\ download \in [Downloader -> Downloading]
      /\ round \in Rounds \cup {None} /\ settled \in SUBSET Tasks
    BY DEF PInv, VmTypeOK
<1>4. download' = [download EXCEPT ![d] = NoDownload]
    BY DEF Succeeds, Fails
<1>5. NoDownload \in Downloading /\ NoDownload.pc = "idle"
    BY DEF NoDownload, Downloading
<1>6. download' \in [Downloader -> Downloading]
    BY <1>3, <1>4, <1>5
<1>7. k.failed + 1 <= MaxFailed => Again(d) \in DownloadTask
    BY <1>1, <1>2, VersionManagerAssumption DEF Again, DownloadTask
<1>8. settled' \in SUBSET Tasks
    BY <1>2, <1>3 DEF Succeeds, Fails, Settle
<1>9. failureQueue' \in Seq(DownloadTask)
    <2>1. CASE failureQueue' = failureQueue
        BY <1>3, <2>1
    <2>2. CASE d = "consumer" /\ failureQueue' = Append(failureQueue, Again(d))
        <3>1. Again(d) \in DownloadTask
            BY <1>1, <1>7, <2>2, VersionManagerAssumption
        <3>2. QED
            BY <1>3, <2>2, <3>1, SeqFacts
    <2>3. QED
        BY <2>1, <2>2 DEF Succeeds, Fails
<1>10. round' \in Rounds \cup {None} /\ (round \in Rounds => round' \in Rounds)
    <2>1. CASE round' = round
        BY <1>3, <2>1
    <2>2. CASE /\ d # "consumer" /\ ~(k.failed + 1 > MaxFailed)
               /\ round' = [round EXCEPT !.kept = Append(@, Again(d))]
        <3>1. round \in Rounds
            BY <1>1, <2>2 DEF Downloader
        <3>2. Again(d) \in DownloadTask
            BY <1>2, <1>7, <2>2, VersionManagerAssumption
        <3>3. round.kept \in Seq(DownloadTask) /\ Append(round.kept, Again(d)) \in Seq(DownloadTask)
            BY <3>1, <3>2, SeqFacts DEF Rounds
        <3>4. round' \in Rounds
            BY <2>2, <3>1, <3>3 DEF Rounds
        <3>5. QED
            BY <3>4
    <2>3. QED
        BY <2>1, <2>2 DEF Succeeds, Fails
<1>11. VmTypeOK'
    BY <1>6, <1>8, <1>9, <1>10 DEF PInv, VmTypeOK
<1>12. QueueOK'
    BY DEF PInv, QueueOK
<1>13. ASSUME NEW e \in Downloader PROVE DownloadOK(e)'
    <2>1. CASE e = d
        BY <1>3, <1>4, <1>5, <2>1 DEF DownloadOK
    <2>2. CASE e # d
        <3>1. download'[e] = download[e]
            BY <1>3, <1>4, <2>2
        <3>2. QED
            BY <1>10, <3>1 DEF PInv, DownloadOK
    <2>3. QED
        BY <2>1, <2>2
<1>14. QED
    BY <1>11, <1>12, <1>13

\* A download goes on to its next step.
LEMMA DownloadMoves ==
    ASSUME PInv, NEW d \in Downloader, download[d].pc # "idle",
           NEW pc \in {"store", "notify"}, Goto(d, pc),
           UNCHANGED <<downloadQueue, downloadMap, failureQueue, round, settled>>,
           package \in PackageType => package' \in PackageType,
           pc = "notify" /\ ~IsFile(download[d].task.what) => package' \in PackageType
    PROVE  VmTypeOK' /\ QueueOK' /\ \A e \in Downloader : DownloadOK(e)'
<1>1. download \in [Downloader -> Downloading] /\ download[d] \in Downloading
    BY DEF PInv, VmTypeOK
<1>2. /\ download' \in [Downloader -> Downloading]
      /\ download'[d].pc = pc /\ download'[d].task = download[d].task
      /\ \A e \in Downloader : e # d => download'[e] = download[e]
    BY <1>1 DEF Goto, Downloading
<1>3. VmTypeOK'
    BY <1>2 DEF PInv, VmTypeOK
<1>4. QueueOK'
    BY DEF PInv, QueueOK
<1>5. ASSUME NEW e \in Downloader PROVE DownloadOK(e)'
    <2>1. CASE e = d
        BY <1>2, <2>1 DEF PInv, DownloadOK
    <2>2. CASE e # d
        BY <1>2, <2>2 DEF PInv, DownloadOK
    <2>3. QED
        BY <2>1, <2>2
<1>6. QED
    BY <1>3, <1>4, <1>5

\* What a task that is under way names.
LEMMA TaskOf ==
    ASSUME PInv, NEW d \in Downloader, download[d].pc # "idle"
    PROVE  LET what == download[d].task.what
           IN  /\ what \in Tasks /\ (IsFile(what) <=> what[1] = "file")
               /\ IsFile(what) => what[2] \in Files /\ what[3] \in Versions
               /\ ~IsFile(what) => what[2] \in PackageType
<1>1. download[d].task \in DownloadTask
    BY DEF PInv, DownloadOK
<1>2. download[d].task.what \in Tasks
    BY <1>1 DEF DownloadTask
<1>3. QED
    BY <1>2, TaskFacts DEF IsFile

\* The request and the store: only disk and package of the hub change.
LEMMA StoreSteps ==
    ASSUME PInv, NEW d \in Downloader, Request(d) \/ StoreDownload(d)
    PROVE  PInv' /\ KeepsMapped
<1> DEFINE what == download[d].task.what
<1>1. UNCHANGED <<packageQueue, fileQueue, pworker, fworker, fm, dumped, told,
                  downloadQueue, downloadMap>>
    BY DEF Request, StoreDownload
<1>2. download[d].pc # "idle"
    BY DEF Request, StoreDownload
<1>3. /\ IsFile(what) <=> what[1] = "file"
      /\ IsFile(what) => what[2] \in Files /\ what[3] \in Versions
      /\ ~IsFile(what) => what[2] \in PackageType
    BY <1>2, TaskOf
<1>4. /\ package' \in PackageType \cup {None}
      /\ package \in PackageType => package' \in PackageType
    BY <1>3 DEF Request, StoreDownload, PInv, HubTypeOK
<1>5. disk' \in [Files -> {0, NotFound, Corrupt} \cup Versions]
    <2>1. \/ disk' = disk
          \/ \E x \in {NotFound, Corrupt} : disk' = [disk EXCEPT ![what[2]] = x]
          \/ IsFile(what) /\ disk' = [disk EXCEPT ![what[2]] = what[3]]
        BY <1>3 DEF Request, StoreDownload
    <2>2. disk \in [Files -> {0, NotFound, Corrupt} \cup Versions]
        BY DEF PInv, HubTypeOK
    <2>3. QED
        BY <1>3, <2>1, <2>2
<1>6. HubTypeOK'
    BY <1>1, <1>4, <1>5 DEF PInv, HubTypeOK
<1>7. PackageThere' /\ KeepsMapped /\ \A w \in PackageWorkers : UnpackOK(w)'
    BY <1>1, <1>4 DEF PInv, PackageThere, KeepsMapped, ToldIsMapped, UnpackOK
<1>8. VmTypeOK' /\ QueueOK' /\ \A e \in Downloader : DownloadOK(e)'
    <2>1. CASE Succeeds(d) \/ Fails(d)
        BY <1>1, <1>2, <1>4, <2>1, DownloadEnds
    <2>2. CASE Goto(d, "store") /\ UNCHANGED <<failureQueue, round, settled>>
        BY <1>1, <1>2, <1>4, <2>2, DownloadMoves
    <2>3. CASE /\ Goto(d, "notify") /\ UNCHANGED <<failureQueue, round, settled>>
               /\ ~IsFile(what) => package' = what[2]
        BY <1>1, <1>2, <1>3, <1>4, <2>3, DownloadMoves
    <2>4. QED
        <3>1. CASE Request(d)
            BY <3>1, <2>1, <2>2 DEF Request
        <3>2. CASE StoreDownload(d)
            BY <1>3, <3>2, <2>1, <2>3 DEF StoreDownload
        <3>3. QED
            BY <3>1, <3>2
<1>9. QED
    BY <1>6, <1>7, <1>8 DEF PInv

\* The hub is told of what has been stored.
LEMMA NotifyHubStep ==
    ASSUME PInv, NEW d \in Downloader, NotifyHub(d)
    PROVE  PInv' /\ KeepsMapped
<1> DEFINE what == download[d].task.what
<1>1. /\ UNCHANGED <<disk, package, pworker, fworker, fm, dumped, told, downloadQueue, downloadMap>>
      /\ Succeeds(d) /\ download[d].pc = "notify"
    BY DEF NotifyHub
<1>2. /\ IsFile(what) <=> what[1] = "file"
      /\ IsFile(what) => what[2] \in Files /\ what[3] \in Versions
      /\ ~IsFile(what) => what[2] \in PackageType
    BY <1>1, TaskOf
<1>3. packageQueue \in Seq(PackageType) /\ fileQueue \in Seq(Files \X Versions)
    BY DEF PInv, HubTypeOK
<1>4. fileQueue' \in Seq(Files \X Versions)
    <2>1. CASE fileQueue' = fileQueue
        BY <1>3, <2>1
    <2>2. CASE IsFile(what) /\ fileQueue' = Append(fileQueue, <<what[2], what[3]>>)
        <3>1. <<what[2], what[3]>> \in Files \X Versions
            BY <1>2, <2>2
        <3>2. \A S : \A e \in S : fileQueue \in Seq(S) => Append(fileQueue, e) \in Seq(S)
            BY SeqFacts
        <3>3. QED
            BY <1>3, <2>2, <3>1, <3>2
    <2>3. QED
        BY <1>2, <2>1, <2>2 DEF NotifyHub, FileUpdated, PackageUpdated
<1>5. packageQueue' \in Seq(PackageType) /\ PackageThere'
    <2>1. CASE packageQueue' = packageQueue
        BY <1>1, <1>3, <2>1 DEF PInv, PackageThere
    <2>2. CASE ~IsFile(what) /\ packageQueue' = Append(packageQueue, what[2])
        <3>1. package \in PackageType
            BY <1>1, <2>2 DEF PInv, DownloadOK
        <3>2. QED
            BY <1>1, <1>2, <1>3, <2>2, <3>1, SeqFacts DEF PackageThere
    <2>3. QED
        BY <1>2, <2>1, <2>2 DEF NotifyHub, FileUpdated, PackageUpdated
<1>6. HubTypeOK'
    BY <1>1, <1>4, <1>5 DEF PInv, HubTypeOK
<1>7. KeepsMapped /\ \A w \in PackageWorkers : UnpackOK(w)'
    BY <1>1 DEF PInv, KeepsMapped, ToldIsMapped, UnpackOK
<1>8. VmTypeOK' /\ QueueOK' /\ \A e \in Downloader : DownloadOK(e)'
    BY <1>1, DownloadEnds
<1>9. QED
    BY <1>5, <1>6, <1>7, <1>8 DEF PInv

\* Steps of the hub and of the version manager.
LEMMA HubStep ==
    ASSUME PInv, Hub, UNCHANGED vmVars
    PROVE  PInv' /\ KeepsMapped
BY VisitStep, UntarStep, UpdateStep, NotifyStep, FileSteps DEF Hub

LEMMA VmStep == ASSUME PInv, Vm PROVE PInv' /\ KeepsMapped
BY PopStep, RoundSteps, StoreSteps, NotifyHubStep DEF Vm, DoDownload

-----------------------------------------------------------------------------
(* Where tasks are, and what a step of the version manager does to them.   *)

\* The step changes neither what is under way nor what is settled.
Moves == UnderWay' = UnderWay /\ settled' = settled

\* A task is settled, and may be under way a second time.
Ends(t) ==
    /\ t \in UnderWay
    /\ UnderWay' \in {UnderWay, UnderWay \ {t}}
    /\ settled' = settled \cup {t}

\* A round drops a task of which it has had the Args.
Drops(t) ==
    /\ round # None /\ Args(t) \in round.done
    /\ t \in UnderWay
    /\ UnderWay' \in {UnderWay, UnderWay \ {t}}
    /\ t \in Settling => UnderWay' = UnderWay
    /\ settled' = settled

\* A file that a round has had is settled, or under way elsewhere, or in X: the
\* round may drop it.
DoneOK(X) ==
    round # None =>
        \A t \in round.done : IsFile(t) => t \in settled \cup Settling \cup X

\* The step leaves true what DoneOK says of a file, or it did not hold.
DoneKept ==
    \A t : round' # None /\ t \in round'.done /\ IsFile(t)
             => \/ t \in settled' \cup Settling'
                \/ round # None /\ t \in round.done /\ t \notin settled \cup Settling

\* The tasks of a sequence to which one is appended, of which the first is taken,
\* or which is joined with another one.
LEMMA WhatsFacts ==
    /\ Whats(<<>>) = {}
    /\ \A S : \A s \in Seq(S), e \in S : Whats(Append(s, e)) = Whats(s) \cup {e.what}
    /\ \A S : \A s \in Seq(S) : s # <<>> => Whats(s) = {Head(s).what} \cup Whats(Tail(s))
    /\ \A S : \A s \in Seq(S), t \in Seq(S) : Whats(s \o t) = Whats(s) \cup Whats(t)
<1>1. Whats(<<>>) = {}
    BY SeqFacts DEF Whats
<1>2. ASSUME NEW S, NEW s \in Seq(S), NEW e \in S
      PROVE  Whats(Append(s, e)) = Whats(s) \cup {e.what}
    <2> DEFINE q == Append(s, e)
               n == Len(s)
    <2>1. /\ n \in Nat /\ Len(q) = n + 1 /\ q[n + 1] = e
          /\ \A i \in 1 .. n : q[i] = s[i]
        BY SeqFacts
    <2>2. \A i \in 1 .. Len(q) : i \in 1 .. n \/ i = n + 1
        BY <2>1
    <2>3. n + 1 \in 1 .. Len(q) /\ \A i \in 1 .. n : i \in 1 .. Len(q)
        BY <2>1
    <2> HIDE DEF q, n
    <2>4. {q[i].what : i \in 1 .. Len(q)} = {s[i].what : i \in 1 .. n} \cup {e.what}
        <3>1. ASSUME NEW x \in {q[i].what : i \in 1 .. Len(q)}
              PROVE  x \in {s[i].what : i \in 1 .. n} \cup {e.what}
            BY <2>1, <2>2
        <3>2. ASSUME NEW x \in {s[i].what : i \in 1 .. n} \cup {e.what}
              PROVE  x \in {q[i].what : i \in 1 .. Len(q)}
            BY <2>1, <2>3
        <3>3. QED
            BY <3>1, <3>2
    <2>5. QED
        BY <2>4 DEF Whats, q, n
<1>3. ASSUME NEW S, NEW s \in Seq(S), s # <<>>
      PROVE  Whats(s) = {Head(s).what} \cup Whats(Tail(s))
    <2> DEFINE q == Tail(s)
               n == Len(s)
    <2>1. /\ n \in Nat /\ n >= 1 /\ Head(s) = s[1] /\ Len(q) = n - 1
          /\ \A i \in 1 .. n - 1 : q[i] = s[i + 1]
        BY <1>3, SeqFacts
    <2> HIDE DEF q, n
    <2>2. \A i \in 1 .. n : i = 1 \/ (i - 1 \in 1 .. Len(q) /\ q[i - 1] = s[i])
        <3> SUFFICES ASSUME NEW i \in 1 .. n, i # 1
                     PROVE  i - 1 \in 1 .. Len(q) /\ q[i - 1] = s[i]
            OBVIOUS
        <3>1. i - 1 \in 1 .. n - 1 /\ (i - 1) + 1 = i
            BY <2>1
        <3>2. QED
            BY <2>1, <3>1
    <2>3. 1 \in 1 .. n /\ \A i \in 1 .. Len(q) : i + 1 \in 1 .. n /\ q[i] = s[i + 1]
        BY <2>1
    <2>4. {s[i].what : i \in 1 .. n} = {s[1].what} \cup {q[i].what : i \in 1 .. Len(q)}
        <3>1. ASSUME NEW x \in {s[i].what : i \in 1 .. n}
              PROVE  x \in {s[1].what} \cup {q[i].what : i \in 1 .. Len(q)}
            BY <2>2
        <3>2. ASSUME NEW x \in {s[1].what} \cup {q[i].what : i \in 1 .. Len(q)}
              PROVE  x \in {s[i].what : i \in 1 .. n}
            BY <2>3
        <3>3. QED
            BY <3>1, <3>2
    <2>5. QED
        BY <2>1, <2>4 DEF Whats, q, n
<1>4. ASSUME NEW S, NEW s \in Seq(S), NEW t \in Seq(S)
      PROVE  Whats(s \o t) = Whats(s) \cup Whats(t)
    <2> DEFINE q == s \o t
               m == Len(s)
               n == Len(t)
    <2>1. /\ m \in Nat /\ n \in Nat /\ Len(q) = m + n
          /\ \A i \in 1 .. m + n : q[i] = IF i <= m THEN s[i] ELSE t[i - m]
        OBVIOUS
    <2> HIDE DEF q, m, n
    <2>2. \A i \in 1 .. Len(q) : \/ i \in 1 .. m /\ q[i] = s[i]
                                 \/ i - m \in 1 .. n /\ q[i] = t[i - m]
        BY <2>1
    <2>3. \A i \in 1 .. m : i \in 1 .. Len(q) /\ q[i] = s[i]
        BY <2>1
    <2>4. \A i \in 1 .. n : i + m \in 1 .. Len(q) /\ q[i + m] = t[i]
        <3> SUFFICES ASSUME NEW i \in 1 .. n
                     PROVE  i + m \in 1 .. Len(q) /\ q[i + m] = t[i]
            OBVIOUS
        <3>1. i + m \in 1 .. m + n /\ ~(i + m <= m) /\ (i + m) - m = i
            BY <2>1
        <3>2. QED
            BY <2>1, <3>1
    <2>5. {q[i].what : i \in 1 .. Len(q)}
             = {s[i].what : i \in 1 .. m} \cup {t[i].what : i \in 1 .. n}
        <3>1. ASSUME NEW x \in {q[i].what : i \in 1 .. Len(q)}
              PROVE  x \in {s[i].what : i \in 1 .. m} \cup {t[i].what : i \in 1 .. n}
            BY <2>2
        <3>2. ASSUME NEW x \in {s[i].what : i \in 1 .. m} \cup {t[i].what : i \in 1 .. n}
              PROVE  x \in {q[i].what : i \in 1 .. Len(q)}
            BY <2>3, <2>4
        <3>3. QED
            BY <3>1, <3>2
    <2>6. QED
        BY <2>5 DEF Whats, q, m, n
<1>5. QED
    BY <1>1, <1>2, <1>3, <1>4

\* The tasks in hand when one downloader turns to something else.
LEMMA InHandStep ==
    ASSUME download \in [Downloader -> Downloading], NEW d \in Downloader, NEW x,
           download' = [download EXCEPT ![d] = x]
    PROVE  \E O : /\ InHand = O \cup IF download[d].pc = "idle" THEN {}
                                     ELSE {download[d].task.what}
                  /\ InHand' = O \cup IF x.pc = "idle" THEN {} ELSE {x.task.what}
<1> DEFINE O == {download[e].task.what :
                    e \in {c \in Downloader : c # d /\ download[c].pc # "idle"}}
<1>1. \A e \in Downloader : download'[e] = IF e = d THEN x ELSE download[e]
    OBVIOUS
<1>2. InHand = O \cup IF download[d].pc = "idle" THEN {} ELSE {download[d].task.what}
    BY DEF InHand
<1>3. InHand' = O \cup IF x.pc = "idle" THEN {} ELSE {x.task.what}
    BY <1>1 DEF InHand
<1>4. QED
    BY <1>2, <1>3

\* What the tasks of a round are while there is one.
LEMMA RoundTasks ==
    /\ None \notin Rounds
    /\ round \in Rounds => /\ round.todo \in Seq(DownloadTask) /\ round.kept \in Seq(DownloadTask)
                           /\ Todo = Whats(round.todo) /\ Kept = Whats(round.kept)
    /\ round = None => Todo = {} /\ Kept = {}
BY RoundsAssumption DEF Rounds, Todo, Kept

\* The consumer takes a task from the queue into its hand.
LEMMA PopFlow ==
    ASSUME PInv, popDownloadTask
    PROVE  Moves /\ DoneKept
<1> DEFINE h == Head(downloadQueue)
           new == [pc |-> "get", task |-> h]
<1>1. /\ UNCHANGED <<failureQueue, round, settled>> /\ downloadQueue # <<>>
      /\ downloadQueue' = Tail(downloadQueue)
      /\ download["consumer"].pc = "idle"
      /\ download' = [download EXCEPT !["consumer"] = new]
    BY DEF popDownloadTask
<1>2. downloadQueue \in Seq(DownloadTask) /\ download \in [Downloader -> Downloading]
    BY DEF PInv, VmTypeOK
<1>3. Queued = {h.what} \cup Queued'
    BY <1>1, <1>2, WhatsFacts DEF Queued
<1>4. InHand' = InHand \cup {h.what}
    <2>1. "consumer" \in Downloader /\ new.pc = "get" /\ new.task = h
        BY DEF Downloader
    <2>2. PICK O : /\ InHand = O \cup IF download["consumer"].pc = "idle" THEN {}
                                       ELSE {download["consumer"].task.what}
                   /\ InHand' = O \cup IF new.pc = "idle" THEN {} ELSE {new.task.what}
        BY <1>1, <1>2, <2>1, InHandStep, Zenon
    <2>3. QED
        BY <1>1, <2>1, <2>2
<1>5. UNCHANGED <<Kept, Todo, Whats(failureQueue)>>
    BY <1>1 DEF Kept, Todo
<1>6. Settling' = Settling /\ UnderWay' = UnderWay
    BY <1>3, <1>4, <1>5 DEF Settling, UnderWay
<1>7. QED
    BY <1>1, <1>6 DEF Moves, DoneKept

\* A download goes on with what it has in hand.
LEMMA GotoFlow ==
    ASSUME PInv, NEW d \in Downloader, download[d].pc # "idle", NEW pc \in {"store", "notify"},
           Goto(d, pc), UNCHANGED <<downloadQueue, failureQueue, round, settled>>
    PROVE  Moves /\ DoneKept
<1> DEFINE x == [download[d] EXCEPT !.pc = pc]
<1>1. download \in [Downloader -> Downloading] /\ download[d] \in Downloading
    BY DEF PInv, VmTypeOK
<1>2. download' = [download EXCEPT ![d] = x] /\ x.pc = pc /\ x.task = download[d].task
    BY <1>1 DEF Goto, Downloading
<1>3. InHand' = InHand
    <2>1. PICK O : /\ InHand = O \cup IF download[d].pc = "idle" THEN {}
                                       ELSE {download[d].task.what}
                   /\ InHand' = O \cup IF x.pc = "idle" THEN {} ELSE {x.task.what}
        BY <1>1, <1>2, InHandStep, Zenon
    <2>2. QED
        BY <1>2, <2>1
<1>4. UNCHANGED <<Queued, Kept, Todo, Whats(failureQueue)>>
    BY DEF Kept, Todo, Queued
<1>5. Settling' = Settling /\ UnderWay' = UnderWay
    BY <1>3, <1>4 DEF Settling, UnderWay
<1>6. QED
    BY <1>5 DEF Moves, DoneKept

\* A download ends: its task is settled, or has failed and waits to be retried.
LEMMA EndFlow ==
    ASSUME PInv, NEW d \in Downloader, download[d].pc # "idle", Succeeds(d) \/ Fails(d),
           downloadQueue' = downloadQueue
    PROVE  (Moves \/ Ends(download[d].task.what)) /\ DoneKept
<1> DEFINE k == download[d].task
           t == k.what
<1>1. download \in [Downloader -> Downloading] /\ k \in DownloadTask
      /\ failureQueue \in Seq(DownloadTask) /\ round \in Rounds \cup {None}
      /\ (d = "retry" => round \in Rounds) /\ (d # "consumer" => d = "retry")
    BY DEF PInv, VmTypeOK, DownloadOK, Downloader
<1>2. PICK O : InHand = O \cup {t} /\ InHand' = O
    <2>1. download' = [download EXCEPT ![d] = NoDownload] /\ NoDownload.pc = "idle"
        BY DEF Succeeds, Fails, NoDownload
    <2>2. PICK O : /\ InHand = O \cup IF download[d].pc = "idle" THEN {} ELSE {t}
                   /\ InHand' = O \cup IF NoDownload.pc = "idle" THEN {} ELSE {NoDownload.task.what}
        BY <1>1, <2>1, InHandStep
    <2>3. QED
        BY <2>1, <2>2
<1>3. Queued' = Queued
    BY DEF Queued
<1>4. CASE UNCHANGED <<failureQueue, round>> /\ settled' = settled \cup {t}
    <2>1. UNCHANGED <<Kept, Todo, Whats(failureQueue)>>
        BY <1>4 DEF Kept, Todo
    <2>2. /\ t \in UnderWay /\ UnderWay' \in {UnderWay, UnderWay \ {t}}
          /\ Settling' \cup {t} = Settling
        BY <1>2, <1>3, <2>1 DEF Settling, UnderWay
    <2>3. Ends(t)
        BY <1>4, <2>2 DEF Ends
    <2>4. DoneKept
        BY <1>4, <2>2 DEF DoneKept
    <2>5. QED
        BY <2>3, <2>4
<1>5. Again(d).what = t /\ Again(d).failed = k.failed + 1
    BY <1>1 DEF Again, DownloadTask
<1>6. k.failed + 1 <= MaxFailed => Again(d) \in DownloadTask
    BY <1>1, VersionManagerAssumption DEF Again, DownloadTask
<1>7. CASE /\ d = "consumer" /\ failureQueue' = Append(failureQueue, Again(d))
           /\ UNCHANGED <<round, settled>>
    <2>1. Again(d) \in DownloadTask
        <3>1. k.failed = 0
            BY <1>7 DEF PInv, DownloadOK
        <3>2. QED
            BY <1>6, <3>1, VersionManagerAssumption
    <2>2. Whats(failureQueue)' = Whats(failureQueue) \cup {t}
        <3>1. Whats(failureQueue') = Whats(failureQueue) \cup {t}
            BY <1>1, <1>5, <1>7, <2>1, WhatsFacts
        <3>2. QED
            BY <3>1 DEF Whats
    <2>3. UNCHANGED <<Kept, Todo>>
        BY <1>7 DEF Kept, Todo
    <2>4. Settling' = Settling /\ UnderWay' = UnderWay
        BY <1>2, <1>3, <2>2, <2>3 DEF Settling, UnderWay
    <2>5. QED
        BY <1>7, <2>4 DEF Moves, DoneKept
<1>8. CASE /\ d = "retry" /\ round' = [round EXCEPT !.kept = Append(@, Again(d))]
           /\ ~(k.failed + 1 > MaxFailed) /\ UNCHANGED <<failureQueue, settled>>
    <2>1. round \in Rounds /\ round.kept \in Seq(DownloadTask)
        BY <1>1, <1>8, RoundTasks
    <2>2. Again(d) \in DownloadTask
        <3>1. k.failed \in Nat /\ MaxFailed \in Nat
            BY <1>1, VersionManagerAssumption DEF DownloadTask
        <3>2. QED
            BY <1>6, <1>8, <3>1
    <2>3. /\ round'.kept = Append(round.kept, Again(d))
          /\ round'.todo = round.todo /\ round'.done = round.done
          /\ round' \in Rounds
        <3>1. Append(round.kept, Again(d)) \in Seq(DownloadTask)
            BY <2>1, <2>2, SeqFacts
        <3>2. QED
            BY <1>8, <2>1, <3>1 DEF Rounds
    <2>4. round # None /\ round' # None
        BY <2>1, <2>3, RoundTasks
    <2>5. Kept' = Kept \cup {t} /\ Todo' = Todo
        <3>1. Whats(Append(round.kept, Again(d))) = Whats(round.kept) \cup {t}
            BY <1>5, <2>1, <2>2, WhatsFacts
        <3>2. QED
            BY <2>3, <2>4, <3>1 DEF Kept, Todo
    <2>6. Settling' = Settling /\ UnderWay' = UnderWay
        <3>1. Whats(failureQueue)' = Whats(failureQueue)
            BY <1>8
        <3>2. QED
            BY <1>2, <1>3, <2>5, <3>1 DEF Settling, UnderWay
    <2>7. QED
        BY <1>8, <2>3, <2>4, <2>6 DEF Moves, DoneKept
<1>9. QED
    BY <1>1, <1>4, <1>7, <1>8 DEF Succeeds, Fails, Settle

\* A round takes over what has failed, and gives back what failed again.
LEMMA RoundFlow ==
    ASSUME PInv, StartRound \/ EndRound
    PROVE  Moves /\ DoneKept
<1>1. /\ failureQueue \in Seq(DownloadTask) /\ round \in Rounds \cup {None}
      /\ UNCHANGED <<downloadQueue, download, settled>>
    BY DEF PInv, VmTypeOK, StartRound, EndRound
<1>2. Queued' = Queued /\ InHand' = InHand
    BY <1>1 DEF Queued, InHand
<1>3. CASE StartRound
    <2>1. /\ round = None /\ failureQueue' = <<>> /\ round'.done = {}
          /\ round' = [todo |-> failureQueue, kept |-> <<>>, done |-> {}]
        BY <1>3 DEF StartRound
    <2>2. round' \in Rounds /\ round'.todo = failureQueue /\ round'.kept = <<>>
        BY <1>1, <2>1, SeqFacts DEF Rounds
    <2>3. round' # None
        BY <2>2, RoundTasks
    <2>4. Todo' = Whats(failureQueue) /\ Kept' = {} /\ Whats(failureQueue)' = {}
        BY <2>1, <2>2, <2>3, WhatsFacts DEF Todo, Kept
    <2>5. UnderWay' = UnderWay
        BY <1>2, <2>1, <2>4, RoundTasks DEF Settling, UnderWay
    <2>6. QED
        BY <1>1, <2>1, <2>5 DEF Moves, DoneKept
<1>4. CASE EndRound
    <2>1. /\ round \in Rounds /\ round.todo = <<>> /\ round' = None
          /\ failureQueue' = failureQueue \o round.kept
        BY <1>1, <1>4 DEF EndRound
    <2>2. Todo = {} /\ Kept = Whats(round.kept) /\ Todo' = {} /\ Kept' = {}
        BY <2>1, WhatsFacts, RoundTasks DEF Todo, Kept
    <2>3. Whats(failureQueue)' = Whats(failureQueue) \cup Whats(round.kept)
        BY <1>1, <2>1, RoundTasks, WhatsFacts
    <2>4. UnderWay' = UnderWay
        BY <1>2, <2>2, <2>3 DEF Settling, UnderWay
    <2>5. QED
        BY <1>1, <2>1, <2>4 DEF Moves, DoneKept
<1>5. QED
    BY <1>3, <1>4

\* A round takes its next task in hand, or drops it.
LEMMA RetryFlow ==
    ASSUME PInv, Retry
    PROVE  (Moves \/ \E t \in Tasks : Drops(t)) /\ DoneKept
<1> DEFINE h == Head(round.todo)
           t == h.what
           new == [pc |-> "get", task |-> h]
<1>1. /\ round \in Rounds /\ round.todo # <<>> /\ download["retry"].pc = "idle"
      /\ round' = [round EXCEPT !.todo = Tail(@), !.done = @ \cup {Args(t)}]
      /\ UNCHANGED <<downloadQueue, failureQueue, settled>>
      /\ download \in [Downloader -> Downloading]
    BY DEF PInv, VmTypeOK, Retry
<1>2. h \in DownloadTask /\ t \in Tasks /\ Tail(round.todo) \in Seq(DownloadTask)
      /\ Args(t) \in Tasks \cup {<<"package">>} /\ (IsFile(Args(t)) => Args(t) = t)
    <2>1. h \in DownloadTask /\ Tail(round.todo) \in Seq(DownloadTask)
        BY <1>1, SeqFacts, RoundTasks
    <2>2. t \in Tasks
        BY <2>1 DEF DownloadTask
    <2>3. ~IsFile(<<"package">>)
        BY DEF IsFile
    <2>4. QED
        BY <2>1, <2>2, <2>3, TaskFacts
<1>3. /\ round' \in Rounds /\ round'.todo = Tail(round.todo) /\ round'.kept = round.kept
      /\ round'.done = round.done \cup {Args(t)}
    BY <1>1, <1>2 DEF Rounds
<1>4. /\ Todo = {t} \cup Todo' /\ Kept' = Kept /\ round # None /\ round' # None
      /\ UNCHANGED <<Queued, Whats(failureQueue)>>
    <2>1. round # None /\ round' # None
        BY <1>1, <1>3, RoundTasks
    <2>2. Whats(round.todo) = {t} \cup Whats(Tail(round.todo))
        BY <1>1, RoundTasks, WhatsFacts
    <2>3. QED
        BY <1>1, <1>3, <2>1, <2>2 DEF Todo, Kept, Queued
<1>5. CASE Args(t) \in round.done
    <2>1. download' = download
        BY <1>5 DEF Retry
    <2>2. /\ InHand' = InHand /\ Settling' = Settling /\ t \in UnderWay
          /\ UnderWay' \in {UnderWay, UnderWay \ {t}} /\ (t \in Settling => UnderWay' = UnderWay)
        BY <1>4, <2>1 DEF InHand, Settling, UnderWay
    <2>3. Drops(t)
        BY <1>1, <1>4, <1>5, <2>2 DEF Drops
    <2>4. DoneKept
        BY <1>1, <1>3, <1>4, <1>5, <2>2 DEF DoneKept
    <2>5. QED
        BY <1>2, <2>3, <2>4
<1>6. CASE Args(t) \notin round.done
    <2>1. download' = [download EXCEPT !["retry"] = new]
        BY <1>6 DEF Retry
    <2>2. InHand' = InHand \cup {t}
        <3>1. "retry" \in Downloader /\ new.pc = "get" /\ new.task = h
            BY DEF Downloader
        <3>2. PICK O : /\ InHand = O \cup IF download["retry"].pc = "idle" THEN {}
                                           ELSE {download["retry"].task.what}
                       /\ InHand' = O \cup IF new.pc = "idle" THEN {} ELSE {new.task.what}
            BY <1>1, <2>1, <3>1, InHandStep, Zenon
        <3>3. QED
            BY <1>1, <3>1, <3>2
    <2>3. Settling' = Settling \cup {t} /\ UnderWay' = UnderWay
        BY <1>4, <2>2 DEF Settling, UnderWay
    <2>4. Moves
        BY <1>1, <2>3 DEF Moves
    <2>5. DoneKept
        BY <1>1, <1>2, <1>3, <1>4, <2>3 DEF DoneKept
    <2>6. QED
        BY <2>4, <2>5
<1>7. QED
    BY <1>5, <1>6

\* What the steps of the version manager do to the tasks under way.
LEMMA VmFlow ==
    ASSUME PInv, Vm
    PROVE  (Moves \/ \E t \in Tasks : Ends(t) \/ Drops(t)) /\ DoneKept
<1>1. ASSUME NEW d \in Downloader, DoDownload(d)
      PROVE  (Moves \/ Ends(download[d].task.what)) /\ DoneKept
    <2>1. download[d].pc # "idle" /\ downloadQueue' = downloadQueue
        BY <1>1 DEF DoDownload, Request, StoreDownload, NotifyHub
    <2>2. \/ Succeeds(d) \/ Fails(d)
          \/ \E pc \in {"store", "notify"} : Goto(d, pc) /\ UNCHANGED <<failureQueue, round, settled>>
        BY <1>1 DEF DoDownload, Request, StoreDownload, NotifyHub
    <2>3. QED
        BY <2>1, <2>2, EndFlow, GotoFlow
<1>2. ASSUME NEW d \in Downloader, DoDownload(d) PROVE download[d].task.what \in Tasks
    <2>1. download[d].pc # "idle"
        BY <1>2 DEF DoDownload, Request, StoreDownload, NotifyHub
    <2>2. QED
        BY <2>1, TaskOf
<1>3. QED
    BY <1>1, <1>2, PopFlow, RoundFlow, RetryFlow DEF Vm

\* A task that is added is queued, or was queued already.
LEMMA AddFlow ==
    ASSUME PInv, NEW what \in Tasks, AddDownloadTask(what),
           UNCHANGED <<failureQueue, round, download>>
    PROVE  /\ \/ Moves
              \/ UnderWay' = UnderWay \cup {what} /\ settled' = settled \ {what}
           /\ IsFile(what) => what \in Queued'
           /\ Settling \subseteq Settling' /\ settled \subseteq settled' \cup Settling'
<1>1. UNCHANGED <<InHand, Kept, Todo, Whats(failureQueue)>>
    BY DEF InHand, Kept, Todo
<1>2. CASE what \in downloadMap
    <2>1. UNCHANGED <<downloadQueue, settled>>
        BY <1>2 DEF AddDownloadTask
    <2>2. Queued' = Queued
        BY <2>1 DEF Queued
    <2>3. IsFile(what) => what \in Queued
        BY <1>2 DEF PInv, QueueOK, Queued, Whats
    <2>4. QED
        BY <1>1, <2>1, <2>2, <2>3 DEF Moves, Settling, UnderWay
<1>3. CASE what \notin downloadMap
    <2> DEFINE new == [what |-> what, failed |-> 0]
    <2>1. downloadQueue' = Append(downloadQueue, new) /\ settled' = settled \ {what}
        BY <1>3 DEF AddDownloadTask
    <2>2. new \in DownloadTask /\ downloadQueue \in Seq(DownloadTask) /\ new.what = what
        BY VersionManagerAssumption DEF DownloadTask, PInv, VmTypeOK
    <2>3. Queued' = Queued \cup {what}
        BY <2>1, <2>2, WhatsFacts DEF Queued
    <2>4. QED
        BY <1>1, <2>1, <2>3 DEF Settling, UnderWay
<1>4. QED
    BY <1>2, <1>3

\* Where tasks are depends on the variables of the version manager alone.
LEMMA VmSame ==
    ASSUME UNCHANGED vmVars
    PROVE  Moves /\ round' = round /\ Settling' = Settling
<1>1. UNCHANGED <<downloadQueue, failureQueue, download, round, settled>>
    BY DEF vmVars
<1>2. UNCHANGED <<Queued, InHand, Kept, Todo, Whats(failureQueue)>>
    BY <1>1 DEF Queued, InHand, Kept, Todo
<1>3. QED
    BY <1>1, <1>2 DEF Moves, Settling, UnderWay

\* DoneOK after a step that leaves X as it is.
LEMMA DoneNext ==
    ASSUME NEW X, DoneOK(X), DoneKept
    PROVE  round' # None =>
               \A t \in round'.done : IsFile(t) => t \in settled' \cup Settling' \cup X
BY DEF DoneOK, DoneKept

\* The steps of the version manager in the terms of Work, where the tasks in X are
\* pending, too: what a round drops is settled or pending elsewhere.
LEMMA FlowIsWork ==
    ASSUME NEW X, DoneOK(X), Moves \/ \E t \in Tasks : Ends(t) \/ Drops(t)
    PROVE  LET P == (X \cup UnderWay) \cap FileTasks
               Q == (X \cup UnderWay') \cap FileTasks
               S == settled \cap FileTasks
               T == settled' \cap FileTasks
           IN  \/ Q = P /\ T = S
               \/ \E t \in FileTasks : t \in P /\ Q \in {P, P \ {t}} /\ T = S \cup {t}
               \/ \E t \in FileTasks : t \in P \cap S /\ Q = P \ {t} /\ T = S
<1> DEFINE P == (X \cup UnderWay) \cap FileTasks
           Q == (X \cup UnderWay') \cap FileTasks
           S == settled \cap FileTasks
           T == settled' \cap FileTasks
<1>1. CASE Moves
    BY <1>1 DEF Moves
<1>2. ASSUME NEW t \in Tasks, Ends(t)
      PROVE  \/ Q = P /\ T = S
             \/ t \in FileTasks /\ t \in P /\ Q \in {P, P \ {t}} /\ T = S \cup {t}
    <2>1. t \in UnderWay /\ UnderWay' \in {UnderWay, UnderWay \ {t}} /\ settled' = settled \cup {t}
        BY <1>2 DEF Ends
    <2>2. CASE t \in FileTasks
        BY <2>1, <2>2
    <2>3. CASE t \notin FileTasks
        BY <2>1, <2>3
    <2>4. QED
        BY <2>2, <2>3
<1>3. ASSUME NEW t \in Tasks, Drops(t)
      PROVE  \/ Q = P /\ T = S
             \/ t \in FileTasks /\ t \in P \cap S /\ Q = P \ {t} /\ T = S
    <2>1. /\ round # None /\ Args(t) \in round.done /\ t \in UnderWay
          /\ UnderWay' \in {UnderWay, UnderWay \ {t}}
          /\ t \in Settling => UnderWay' = UnderWay
          /\ settled' = settled
        BY <1>3 DEF Drops
    <2>2. CASE t \in FileTasks
        <3>1. IsFile(t) /\ Args(t) = t
            BY <2>2, TaskFacts DEF FileTasks
        <3>2. t \in settled \cup Settling \cup X
            BY <2>1, <3>1 DEF DoneOK
        <3>3. QED
            BY <2>1, <2>2, <3>2
    <2>3. CASE t \notin FileTasks
        BY <2>1, <2>3
    <2>4. QED
        BY <2>2, <2>3
<1>4. QED
    <2>1. CASE \E t \in Tasks : Ends(t)
        BY <1>2, <2>1
    <2>2. CASE \E t \in Tasks : Drops(t)
        BY <1>3, <2>2
    <2>3. QED
        BY <1>1, <2>1, <2>2

-----------------------------------------------------------------------------
(* Downloads.                                                              *)

\* Nothing else is pending than what is under way.
DInv ==
    /\ PInv
    /\ added \in 0 .. MaxTasks
    /\ ToldIsMapped
    /\ DoneOK({})

LEMMA DInvInit == Init => DInv
<1> SUFFICES ASSUME Init PROVE DInv
    OBVIOUS
<1>1. PInv
    BY PInitInv DEF Init
<1>2. added \in 0 .. MaxTasks /\ ToldIsMapped /\ DoneOK({})
    BY DownloadsAssumption DEF Init, HubInit, VmInit, ToldIsMapped, DoneOK
<1>3. QED
    BY <1>1, <1>2 DEF DInv

\* Every step of the pipeline keeps the invariant.
LEMMA StepInv == DInv /\ [Next]_vars => DInv'
<1> SUFFICES ASSUME DInv, [Next]_vars PROVE DInv'
    OBVIOUS
<1> USE DEF DInv
<1>1. ASSUME NEW what \in Tasks, CmdHandler(what) PROVE DInv'
    <2>1. /\ AddDownloadTask(what) /\ UNCHANGED <<hubVars, failureQueue, round, download>>
          /\ added' \in 0 .. MaxTasks
        BY <1>1, DownloadsAssumption DEF CmdHandler
    <2>2. PInv' /\ KeepsMapped
        BY <2>1, AddTaskStep
    <2>3. Settling \subseteq Settling' /\ settled \subseteq settled' \cup Settling' /\ round' = round
        BY <2>1, AddFlow
    <2>4. DoneOK({})'
        BY <2>3 DEF DoneOK
    <2>5. QED
        BY <2>1, <2>2, <2>4 DEF KeepsMapped
<1>2. CASE Vm /\ UNCHANGED added
    <2>1. PInv' /\ KeepsMapped
        BY <1>2, VmStep
    <2>2. DoneOK({})'
        BY <1>2, VmFlow, DoneNext DEF DoneOK
    <2>3. QED
        BY <1>2, <2>1, <2>2 DEF KeepsMapped
<1>3. CASE UNCHANGED <<vmVars, added>> /\ PInv' /\ KeepsMapped
    <2>1. DoneOK({})'
        BY <1>3, VmSame DEF Moves, DoneOK
    <2>2. QED
        BY <1>3, <2>1 DEF KeepsMapped
<1>4. CASE Hub /\ UNCHANGED <<vmVars, added>>
    BY <1>3, <1>4, HubStep
<1>5. ASSUME NEW f \in Files, Fetch(f) PROVE DInv'
    <2>1. /\ UNCHANGED <<disk, package, packageQueue, fileQueue, pworker, fworker, fm, dumped,
                         vmVars, added>>
          /\ told' \subseteq told
        BY <1>5 DEF Fetch
    <2>2. HubTypeOK' /\ KeepsMapped
        BY <2>1 DEF PInv, HubTypeOK, KeepsMapped, ToldIsMapped
    <2>3. QED
        BY <1>3, <2>1, <2>2, OutsideStep
<1>6. CASE UNCHANGED vars
    <2>1. UNCHANGED hubVars /\ UNCHANGED vmVars /\ package' = package /\ added' = added
        BY <1>6 DEF vars, hubVars
    <2>2. PInv' /\ KeepsMapped
        BY <2>1, VmFrame, HubFrame DEF PInv
    <2>3. QED
        BY <1>3, <2>1, <2>2
<1>7. QED
    BY <1>1, <1>2, <1>4, <1>5, <1>6 DEF Next

\* The inductive invariant holds in every state of the pipeline.
THEOREM DownloadsInvariant == Spec => []DInv
<1>1. Init => DInv
    BY DInvInit
<1>2. DInv /\ [Next]_vars => DInv'
    BY StepInv
<1>3. QED
    BY <1>1, <1>2, PTL DEF Spec

\* Every variable keeps its type; above all a worker never starts on a package
\* that is not there, and a task never fails more often than MaxFailedThreshold.
THEOREM TypeCorrect == Spec => []TypeOK
<1>1. DInv => TypeOK
    BY DEF DInv, PInv, TypeOK
<1>2. QED
    BY <1>1, DownloadsInvariant, PTL

\* Applications are told of a file only when the mapper knows it, however
\* packages, files, failures and retries interleave.
THEOREM ToldOnlyMapped == Spec => []ToldIsMapped
<1>1. DInv => ToldIsMapped
    BY DEF DInv
<1>2. QED
    BY <1>1, DownloadsInvariant, PTL

\* The keys of the files in downloadMap are those of the files that are queued,
\* each once.
THEOREM MapMatchesQueue == Spec => []DownloadMapMatchesQueue
<1>1. DInv => DownloadMapMatchesQueue
    <2> SUFFICES ASSUME DInv PROVE DownloadMapMatchesQueue
        OBVIOUS
    <2>1. {t \in downloadMap : IsFile(t)} = {t \in Queued : IsFile(t)}
        BY DEF DInv, PInv, QueueOK, Queued, Whats
    <2>2. QED
        BY <2>1 DEF DInv, PInv, QueueOK, DownloadMapMatchesQueue
<1>2. QED
    BY <1>1, DownloadsInvariant, PTL

\* The steps of the pipeline are steps of Work.
LEMMA PipelineStep ==
    ASSUME DInv, [Next]_vars
    PROVE  [PipelineWork!Next]_(PipelineWork!vars)
<1> USE DEF DInv
<1>1. CASE Moves
    <2>1. UNCHANGED <<UnderWay \cap FileTasks, settled \cap FileTasks>>
        BY <1>1 DEF Moves
    <2>2. QED
        BY <2>1 DEF PipelineWork!vars
<1>2. ASSUME NEW what \in Tasks, CmdHandler(what)
      PROVE  [PipelineWork!Next]_(PipelineWork!vars)
    <2>1. CASE UnderWay' = UnderWay \cup {what} /\ settled' = settled \ {what}
        <3>1. {what} \cap FileTasks \in SUBSET FileTasks
            OBVIOUS
        <3>2. PipelineWork!Ask({what} \cap FileTasks)
            BY <2>1 DEF PipelineWork!Ask
        <3>3. QED
            BY <3>1, <3>2 DEF PipelineWork!Next
    <2>2. QED
        BY <1>1, <1>2, <2>1, AddFlow DEF CmdHandler
<1>3. CASE Vm
    <2> DEFINE P == UnderWay \cap FileTasks
               S == settled \cap FileTasks
    <2>1. ({} \cup UnderWay) \cap FileTasks = P /\ ({} \cup UnderWay') \cap FileTasks = P'
        OBVIOUS
    <2>2. \/ P' = P /\ S' = S
          \/ \E t \in FileTasks : t \in P /\ P' \in {P, P \ {t}} /\ S' = S \cup {t}
          \/ \E t \in FileTasks : t \in P \cap S /\ P' = P \ {t} /\ S' = S
        <3>1. Moves \/ \E t \in Tasks : Ends(t) \/ Drops(t)
            BY <1>3, VmFlow
        <3>2. QED
            BY <2>1, <3>1, FlowIsWork
    <2>3. CASE P' = P /\ S' = S
        BY <2>3 DEF PipelineWork!vars
    <2>4. ASSUME NEW t \in FileTasks, t \in P /\ P' \in {P, P \ {t}} /\ S' = S \cup {t}
          PROVE  PipelineWork!Next
        BY <2>4 DEF PipelineWork!Next, PipelineWork!Settle
    <2>5. ASSUME NEW t \in FileTasks, t \in P \cap S /\ P' = P \ {t} /\ S' = S
          PROVE  PipelineWork!Next
        BY <2>5 DEF PipelineWork!Next, PipelineWork!Drop
    <2>6. QED
        BY <2>2, <2>3, <2>4, <2>5
<1>4. CASE UNCHANGED vmVars
    BY <1>1, <1>4, VmSame
<1>5. QED
    BY <1>2, <1>3, <1>4 DEF Next, Fetch, vars

\* The pipeline implements Work: a file that handlers ask for is under way until it
\* is settled, though its downloads fail, are merged and are retried in any order.
THEOREM PipelineRefinesWork == Spec => PipelineImplementsWork
<1>1. Init => PipelineWork!Init
    <2> SUFFICES ASSUME Init PROVE PipelineWork!Init
        OBVIOUS
    <2>1. Queued = {} /\ Whats(failureQueue) = {} /\ Kept = {} /\ Todo = {} /\ settled = {}
        BY WhatsFacts DEF Init, VmInit, Queued, Kept, Todo
    <2>2. InHand = {}
        BY DEF Init, VmInit, InHand, NoDownload
    <2>3. QED
        BY <2>1, <2>2 DEF PipelineWork!Init, UnderWay, Settling
<1>2. DInv /\ [Next]_vars => [PipelineWork!Next]_(PipelineWork!vars)
    BY PipelineStep
<1>3. QED
    BY <1>1, <1>2, DownloadsInvariant, PTL DEF Spec, PipelineImplementsWork, PipelineWork!Spec

-----------------------------------------------------------------------------
(* Agent.                                                                  *)

\* What releases, applications and synchronisations have in their variables.  A
\* synchronisation that is not running has no refresh.
SiteOK ==
    /\ rel \in [Files -> 0 .. MaxVersion]
    /\ releasing \in Tasks \cup {None}
    /\ app \in [Files -> Stored]
    /\ refresh \in [Refreshers -> Refresh]
    /\ sync \in [Syncs -> {"idle", "full", "partial"}]
    /\ releases \in 0 .. MaxReleases
    /\ connects \in 0 .. MaxConnects
    /\ requests \in 0 .. MaxRequests
    /\ crashes \in 0 .. MaxCrashes
    /\ \A s \in Syncs : sync[s] = "idle" => refresh[s].pc = "idle"

\* The files that refreshes have yet to queue are pending, too.
AInv ==
    /\ PInv
    /\ SiteOK
    /\ DoneOK(Promised)

\* What every step has to satisfy: it keeps the invariant, and it is one of Work.
StepOK == AInv' /\ [SyncWork!Next]_(SyncWork!vars)

\* What the disk, the mapper and an application have is what they ask with.
LEMMA StoredFacts ==
    /\ Versions \subseteq Stored /\ 0 \in Stored /\ NotFound \in Stored
    /\ 0 .. MaxVersion \subseteq Stored
    /\ Stored = {0, NotFound, Corrupt} \cup Versions
<1>1. 0 .. MaxVersion \subseteq {0} \cup Versions
    BY UpdaterAssumption DEF Versions
<1>2. QED
    BY <1>1 DEF Stored

\* Initially nothing is asked for.
LEMMA AInvInit == AgentInit => AInv
<1> SUFFICES ASSUME AgentInit PROVE AInv
    OBVIOUS
<1>1. PInv
    BY PInitInv DEF AgentInit
<1>2. SiteOK
    <2>1. NoRefresh \in Refresh /\ NoRefresh.pc = "idle"
        BY DEF NoRefresh, Refresh
    <2>2. {MaxReleases, MaxConnects, MaxRequests, MaxCrashes} \subseteq Nat
        BY AgentAssumption
    <2>3. releases \in 0 .. MaxReleases /\ connects \in 0 .. MaxConnects
          /\ requests \in 0 .. MaxRequests /\ crashes \in 0 .. MaxCrashes
        BY <2>2 DEF AgentInit
    <2>4. rel \in [Files -> 0 .. MaxVersion] /\ app \in [Files -> Stored]
        BY VersionFacts, StoredFacts DEF AgentInit
    <2>5. refresh \in [Refreshers -> Refresh] /\ \A s \in Syncs : refresh[s].pc = "idle"
        BY <2>1 DEF AgentInit, Refreshers
    <2>6. QED
        BY <2>3, <2>4, <2>5 DEF SiteOK, AgentInit
<1>3. DoneOK(Promised)
    BY DEF AgentInit, VmInit, DoneOK
<1>4. QED
    BY <1>1, <1>2, <1>3 DEF AInv

\* One refresh goes on.
LEMMA RefreshSet ==
    ASSUME SiteOK, NEW r \in Refreshers, NEW x \in Refresh,
           refresh' = [refresh EXCEPT ![r] = x]
    PROVE  /\ refresh' \in [Refreshers -> Refresh] /\ refresh'[r] = x
           /\ \A p \in Refreshers : p # r => refresh'[p] = refresh[p]
           /\ \E O : Promised = O \cup ToQueue(refresh[r]) /\ Promised' = O \cup ToQueue(x)
<1>1. /\ refresh' \in [Refreshers -> Refresh] /\ refresh'[r] = x
      /\ \A p \in Refreshers : p # r => refresh'[p] = refresh[p]
    BY DEF SiteOK
<1> DEFINE O == UNION {ToQueue(refresh[p]) : p \in Refreshers \ {r}}
<1>2. Promised = O \cup ToQueue(refresh[r])
    BY DEF Promised
<1>3. Promised' = UNION {ToQueue(refresh'[p]) : p \in Refreshers}
    BY DEF Promised, ToQueue
<1>4. UNION {ToQueue(refresh'[p]) : p \in Refreshers} = O \cup ToQueue(x)
    BY <1>1
<1>5. QED
    BY <1>1, <1>2, <1>3, <1>4

\* A step that touches neither the queues nor what refreshes have yet to queue.
LEMMA QuietStep ==
    ASSUME AInv, PInv', SiteOK', UNCHANGED vmVars, Promised' = Promised
    PROVE  StepOK
<1>1. Moves /\ round' = round /\ Settling' = Settling
    BY VmSame
<1>2. DoneOK(Promised)'
    BY <1>1 DEF AInv, DoneOK, Moves
<1>3. UNCHANGED <<(Promised \cup UnderWay) \cap FileTasks, settled \cap FileTasks>>
    BY <1>1 DEF Moves
<1>4. QED
    BY <1>2, <1>3 DEF StepOK, AInv, SyncWork!vars

\* A task is queued: one of a release, or one of a refresh.
LEMMA AskStep ==
    ASSUME AInv, SiteOK', NEW what \in Tasks, AddDownloadTask(what),
           UNCHANGED <<hubVars, failureQueue, round, download>>,
           Promised' \subseteq Promised, Promised \subseteq Promised' \cup {what},
           IsFile(what) \/ Promised' = Promised
    PROVE  StepOK
<1> DEFINE P == (Promised \cup UnderWay) \cap FileTasks
           S == settled \cap FileTasks
           J == {what} \cap FileTasks
<1>1. PInv'
    BY AddTaskStep DEF AInv
<1>2. /\ \/ Moves
         \/ UnderWay' = UnderWay \cup {what} /\ settled' = settled \ {what}
      /\ IsFile(what) => what \in Queued'
      /\ Settling \subseteq Settling' /\ settled \subseteq settled' \cup Settling'
    BY AddFlow DEF AInv
<1>3. Queued' \subseteq Settling' /\ Settling' \subseteq UnderWay'
    BY DEF Settling, UnderWay
<1>4. DoneOK(Promised)'
    <2>1. Promised \subseteq Promised' \cup Settling'
        BY <1>2, <1>3
    <2>2. QED
        BY <1>2, <2>1 DEF AInv, DoneOK
<1>5. CASE Moves
    <2>1. P' = P /\ S' = S
        BY <1>2, <1>3, <1>5 DEF Moves
    <2>2. QED
        BY <1>1, <1>4, <2>1 DEF StepOK, AInv, SyncWork!vars
<1>6. CASE UnderWay' = UnderWay \cup {what} /\ settled' = settled \ {what}
    <2>1. P' = P \cup J /\ S' = S \ J /\ J \in SUBSET FileTasks
        BY <1>6
    <2>2. SyncWork!Ask(J)
        BY <2>1 DEF SyncWork!Ask
    <2>3. QED
        BY <1>1, <1>4, <2>1, <2>2 DEF StepOK, AInv, SyncWork!Next
<1>7. QED
    BY <1>2, <1>5, <1>6

\* Downloads end, fail and are retried.
LEMMA AgentVmStep ==
    ASSUME AInv, Vm, UNCHANGED agentVars
    PROVE  StepOK
<1> DEFINE P == (Promised \cup UnderWay) \cap FileTasks
           S == settled \cap FileTasks
<1>1. PInv'
    BY VmStep DEF AInv
<1>2. SiteOK' /\ Promised' = Promised
    BY DEF AInv, SiteOK, agentVars, counters, Promised
<1>3. (Moves \/ \E t \in Tasks : Ends(t) \/ Drops(t)) /\ DoneKept
    BY VmFlow DEF AInv
<1>4. DoneOK(Promised)'
    BY <1>2, <1>3, DoneNext DEF AInv, DoneOK
<1>5. \/ P' = P /\ S' = S
      \/ \E t \in FileTasks : t \in P /\ P' \in {P, P \ {t}} /\ S' = S \cup {t}
      \/ \E t \in FileTasks : t \in P \cap S /\ P' = P \ {t} /\ S' = S
    <2>1. P' = (Promised \cup UnderWay') \cap FileTasks
        BY <1>2
    <2>2. QED
        BY <1>3, <2>1, FlowIsWork DEF AInv
<1>6. [SyncWork!Next]_(SyncWork!vars)
    <2>1. CASE P' = P /\ S' = S
        BY <2>1 DEF SyncWork!vars
    <2>2. ASSUME NEW t \in FileTasks, t \in P /\ P' \in {P, P \ {t}} /\ S' = S \cup {t}
          PROVE  SyncWork!Next
        BY <2>2 DEF SyncWork!Next, SyncWork!Settle
    <2>3. ASSUME NEW t \in FileTasks, t \in P \cap S /\ P' = P \ {t} /\ S' = S
          PROVE  SyncWork!Next
        BY <2>3 DEF SyncWork!Next, SyncWork!Drop
    <2>4. QED
        BY <1>5, <2>1, <2>2, <2>3
<1>7. QED
    BY <1>1, <1>2, <1>4, <1>6 DEF StepOK, AInv

\* The hub works, or writes its dump.
LEMMA AgentHubStep ==
    ASSUME AInv, Hub \/ FmDump, UNCHANGED <<vmVars, agentVars>>
    PROVE  StepOK
<1>1. PInv'
    <2>1. CASE Hub
        BY <2>1, HubStep DEF AInv
    <2>2. CASE FmDump
        <3>1. UNCHANGED <<disk, package, packageQueue, fileQueue, pworker, fworker, fm, told>>
              /\ dumped' = fm
            BY <2>2 DEF FmDump
        <3>2. HubTypeOK'
            BY <3>1 DEF AInv, PInv, HubTypeOK
        <3>3. QED
            BY <3>1, <3>2, OutsideStep DEF AInv
    <2>3. QED
        BY <2>1, <2>2
<1>2. SiteOK' /\ Promised' = Promised
    BY DEF AInv, SiteOK, agentVars, counters, Promised
<1>3. QED
    BY <1>1, <1>2, QuietStep

\* A step that leaves hub and queues alone, and of the refreshes at most one goes
\* on, with the same files to queue.
LEMMA OneRefreshStep ==
    ASSUME AInv, PInv', SiteOK', UNCHANGED vmVars, NEW r \in Refreshers, NEW x \in Refresh,
           refresh' = [refresh EXCEPT ![r] = x], ToQueue(x) = ToQueue(refresh[r])
    PROVE  StepOK
<1>1. Promised' = Promised
    BY RefreshSet DEF AInv
<1>2. QED
    BY <1>1, QuietStep

\* A release is told, committed or rolled back.
LEMMA ReleaseSteps ==
    ASSUME AInv, Manager
    PROVE  StepOK
<1>1. ASSUME NEW what \in Tasks, NotifyAgent(what) PROVE StepOK
    <2>1. /\ AddDownloadTask(what) /\ releasing' = what
          /\ UNCHANGED <<hubVars, failureQueue, round, download, rel, app, refresh, sync,
                         connects, requests, crashes>>
          /\ releases < MaxReleases /\ releases' = releases + 1
        BY <1>1 DEF NotifyAgent
    <2>2. MaxReleases \in Nat
        BY AgentAssumption
    <2>3. releases' \in 0 .. MaxReleases
        BY <2>1, <2>2 DEF AInv, SiteOK
    <2>4. SiteOK'
        BY <2>1, <2>3 DEF AInv, SiteOK
    <2>5. Promised' = Promised
        BY <2>1 DEF Promised
    <2>6. QED
        BY <2>1, <2>4, <2>5, AskStep
<1>2. CASE ReleaseCommit
    <2>1. /\ releasing \in Tasks /\ UNCHANGED <<hubVars, vmVars, app, refresh, sync, counters>>
          /\ releasing' = None
        BY <1>2 DEF ReleaseCommit, AInv, SiteOK
    <2>2. rel' \in [Files -> 0 .. MaxVersion]
        <3>1. /\ releasing[1] = "file" => releasing[3] \in 0 .. MaxVersion
              /\ releasing[1] = "package" => \A f \in Files : releasing[2][f] \in 0 .. MaxVersion
            BY <2>1, TaskFacts, VersionFacts DEF IsFile, PackageType
        <3>2. rel \in [Files -> 0 .. MaxVersion]
            BY DEF AInv, SiteOK
        <3>3. QED
            BY <1>2, <3>1, <3>2 DEF ReleaseCommit
    <2>3. SiteOK'
        BY <2>1, <2>2 DEF AInv, SiteOK, counters
    <2>4. PInv'
        BY <2>1, VmFrame, HubFrame DEF AInv, PInv, hubVars
    <2>5. Promised' = Promised
        BY <2>1 DEF Promised
    <2>6. QED
        BY <2>1, <2>3, <2>4, <2>5, QuietStep
<1>3. CASE ReleaseRollback
    <2>1. /\ UNCHANGED <<hubVars, vmVars, rel, app, refresh, sync, counters>>
          /\ releasing' = None
        BY <1>3 DEF ReleaseRollback
    <2>2. SiteOK'
        BY <2>1 DEF AInv, SiteOK, counters
    <2>3. PInv'
        BY <2>1, VmFrame, HubFrame DEF AInv, PInv, hubVars
    <2>4. Promised' = Promised
        BY <2>1 DEF Promised
    <2>5. QED
        BY <2>1, <2>2, <2>3, <2>4, QuietStep
<1>4. \A f \in Files, v \in Versions : FileTask(f, v) \in Tasks
    BY DEF Tasks
<1>5. \A p \in PackageType : PackageTask(p) \in Tasks
    BY DEF Tasks
<1>6. QED
    BY <1>1, <1>2, <1>3, <1>4, <1>5 DEF Manager

\* The answer arrives: its files are asked for, also those that were settled.
LEMMA AnswerStep ==
    ASSUME AInv, NEW r \in Refreshers, Answer(r)
    PROVE  StepOK
<1> DEFINE required == refresh[r].required
           data == IF refresh[r].full THEN Unsynced(required) ELSE Differing(required)
           x == [pc |-> "apply", add |-> data,
                 mark |-> {f \in DOMAIN required : \A d \in data : d[1] # f}]
           T == {FileTask(d[1], d[2]) : d \in data}
           P == (Promised \cup UnderWay) \cap FileTasks
           S == settled \cap FileTasks
<1>1. /\ refresh[r].pc = "ask" /\ refresh' = [refresh EXCEPT ![r] = x]
      /\ settled' = settled \ T
      /\ UNCHANGED <<hubVars, downloadQueue, downloadMap, failureQueue, round, download,
                     rel, releasing, app, sync, counters>>
    BY DEF Answer
<1>2. DOMAIN required \subseteq Files
    <2>1. refresh[r] \in Refresh
        BY DEF AInv, SiteOK
    <2>2. required \in UNION {[A -> Stored] : A \in SUBSET Files}
        BY <1>1, <2>1 DEF Refresh, NoRefresh
    <2>3. QED
        BY <2>2
<1>3. data \in SUBSET (Files \X Versions)
    <2>1. \A f \in Files : rel[f] # 0 => rel[f] \in Versions
        BY UpdaterAssumption DEF AInv, SiteOK, Versions
    <2>2. QED
        BY <1>2, <2>1 DEF Unsynced, Differing
<1>4. x \in Refresh /\ ToQueue(x) = T /\ ToQueue(refresh[r]) = {}
    <2>1. x \in Refresh
        BY <1>2, <1>3 DEF Refresh
    <2>2. QED
        BY <1>1, <2>1 DEF ToQueue
<1> HIDE DEF x
<1>5. /\ refresh' \in [Refreshers -> Refresh] /\ refresh'[r] = x
      /\ \A p \in Refreshers : p # r => refresh'[p] = refresh[p]
      /\ Promised' = Promised \cup T
    BY <1>1, <1>4, RefreshSet DEF AInv
<1>6. SiteOK'
    <2>1. \A s \in Syncs : sync'[s] = "idle" => refresh'[s].pc = "idle"
        <3> SUFFICES ASSUME NEW s \in Syncs, sync'[s] = "idle" PROVE refresh'[s].pc = "idle"
            OBVIOUS
        <3>1. refresh[s].pc = "idle" /\ s \in Refreshers
            BY <1>1 DEF AInv, SiteOK, Refreshers
        <3>2. s # r
            BY <1>1, <3>1
        <3>3. QED
            BY <1>5, <3>1, <3>2
    <2>2. QED
        BY <1>1, <1>5, <2>1 DEF AInv, SiteOK, counters
<1>7. PInv'
    <2>1. VmTypeOK' /\ QueueOK'
        BY <1>1 DEF AInv, PInv, VmTypeOK, QueueOK
    <2>2. \A d \in Downloader : DownloadOK(d)'
        BY <1>1 DEF AInv, PInv, DownloadOK, hubVars
    <2>3. QED
        BY <1>1, <2>1, <2>2, VmFrame DEF AInv, PInv
<1>8. UNCHANGED <<UnderWay, Settling>>
    BY <1>1 DEF UnderWay, Settling, Queued, InHand, Kept, Todo
<1>9. DoneOK(Promised)'
    BY <1>1, <1>5, <1>8 DEF AInv, DoneOK
<1>10. SyncWork!Next
    <2>1. P' = P \cup (T \cap FileTasks) /\ S' = S \ (T \cap FileTasks)
        BY <1>1, <1>5, <1>8
    <2>2. SyncWork!Ask(T \cap FileTasks)
        BY <2>1 DEF SyncWork!Ask
    <2>3. T \cap FileTasks \in SUBSET FileTasks
        OBVIOUS
    <2>4. QED
        BY <2>2, <2>3 DEF SyncWork!Next
<1>11. QED
    BY <1>6, <1>7, <1>9, <1>10 DEF StepOK, AInv

\* A file of an answer is queued, unless it is queued already.
LEMMA AddOneStep ==
    ASSUME AInv, NEW r \in Refreshers, AddOne(r)
    PROVE  StepOK
<1>1. PICK d \in refresh[r].add :
          /\ AddDownloadTask(FileTask(d[1], d[2]))
          /\ refresh' = [refresh EXCEPT ![r].add = @ \ {d}]
    BY DEF AddOne
<1> DEFINE what == FileTask(d[1], d[2])
           x == [refresh[r] EXCEPT !.add = @ \ {d}]
<1>2. /\ refresh[r].pc = "apply"
      /\ UNCHANGED <<hubVars, failureQueue, round, download, rel, releasing, app, sync,
                     counters>>
    BY DEF AddOne
<1>3. refresh[r] \in [pc : {"apply"}, add : SUBSET (Files \X Versions), mark : SUBSET Files]
    BY <1>2 DEF AInv, SiteOK, Refresh, NoRefresh
<1>4. what \in Tasks /\ IsFile(what)
    BY <1>3 DEF Tasks, FileTask, IsFile
<1>5. x \in Refresh /\ x.pc = "apply" /\ x.add = refresh[r].add \ {d}
    BY <1>3 DEF Refresh
<1>6. refresh' = [refresh EXCEPT ![r] = x]
    BY <1>1 DEF AInv, SiteOK
<1>7. ToQueue(x) \subseteq ToQueue(refresh[r]) /\ ToQueue(refresh[r]) \subseteq ToQueue(x) \cup {what}
    BY <1>2, <1>5 DEF ToQueue
<1> HIDE DEF what, x
<1>8. /\ refresh' \in [Refreshers -> Refresh] /\ refresh'[r] = x
      /\ \A p \in Refreshers : p # r => refresh'[p] = refresh[p]
      /\ \E O : Promised = O \cup ToQueue(refresh[r]) /\ Promised' = O \cup ToQueue(x)
    BY <1>5, <1>6, RefreshSet DEF AInv
<1>9. Promised' \subseteq Promised /\ Promised \subseteq Promised' \cup {what}
    BY <1>7, <1>8
<1>10. SiteOK'
    <2>1. \A s \in Syncs : sync'[s] = "idle" => refresh'[s].pc = "idle"
        <3> SUFFICES ASSUME NEW s \in Syncs, sync'[s] = "idle" PROVE refresh'[s].pc = "idle"
            OBVIOUS
        <3>1. refresh[s].pc = "idle" /\ s \in Refreshers
            BY <1>2 DEF AInv, SiteOK, Refreshers
        <3>2. s # r
            BY <1>2, <3>1
        <3>3. QED
            BY <1>8, <3>1, <3>2
    <2>2. QED
        BY <1>2, <1>8, <2>1 DEF AInv, SiteOK, counters
<1>11. AddDownloadTask(what)
    BY <1>1 DEF what
<1>12. QED
    BY <1>2, <1>4, <1>9, <1>10, <1>11, AskStep

\* A file that the manager did not answer with is marked.
LEMMA MarkOneStep ==
    ASSUME AInv, NEW r \in Refreshers, MarkOne(r)
    PROVE  StepOK
<1>1. PICK f \in refresh[r].mark :
          /\ disk' = [disk EXCEPT ![f] = NotFound]
          /\ refresh' = [refresh EXCEPT ![r].mark = @ \ {f}]
    BY DEF MarkOne
<1> DEFINE x == [refresh[r] EXCEPT !.mark = @ \ {f}]
<1>2. /\ refresh[r].pc = "apply"
      /\ UNCHANGED <<package, packageQueue, fileQueue, pworker, fworker, fm, dumped,
                     told, vmVars, rel, releasing, app, sync, counters>>
    BY DEF MarkOne
<1>3. refresh[r] \in [pc : {"apply"}, add : SUBSET (Files \X Versions), mark : SUBSET Files]
    BY <1>2 DEF AInv, SiteOK, Refresh, NoRefresh
<1>4. x \in Refresh /\ x.pc = "apply" /\ x.add = refresh[r].add
    BY <1>3 DEF Refresh
<1>5. refresh' = [refresh EXCEPT ![r] = x]
    BY <1>1 DEF AInv, SiteOK
<1>6. ToQueue(x) = ToQueue(refresh[r])
    BY <1>2, <1>4 DEF ToQueue
<1> HIDE DEF x
<1>7. /\ refresh' \in [Refreshers -> Refresh] /\ refresh'[r] = x
      /\ \A p \in Refreshers : p # r => refresh'[p] = refresh[p]
    BY <1>4, <1>5, RefreshSet DEF AInv
<1>8. SiteOK'
    <2>1. \A s \in Syncs : sync'[s] = "idle" => refresh'[s].pc = "idle"
        <3> SUFFICES ASSUME NEW s \in Syncs, sync'[s] = "idle" PROVE refresh'[s].pc = "idle"
            OBVIOUS
        <3>1. refresh[s].pc = "idle" /\ s \in Refreshers
            BY <1>2 DEF AInv, SiteOK, Refreshers
        <3>2. s # r
            BY <1>2, <3>1
        <3>3. QED
            BY <1>7, <3>1, <3>2
    <2>2. QED
        BY <1>2, <1>7, <2>1 DEF AInv, SiteOK, counters
<1>9. PInv'
    <2>1. disk' \in [Files -> {0, NotFound, Corrupt} \cup Versions]
        BY <1>1 DEF AInv, PInv, HubTypeOK
    <2>2. HubTypeOK'
        BY <1>2, <2>1 DEF AInv, PInv, HubTypeOK
    <2>3. QED
        BY <1>2, <2>2, OutsideStep DEF AInv
<1>10. QED
    BY <1>2, <1>4, <1>5, <1>6, <1>8, <1>9, OneRefreshStep

\* A refresh starts, or is over, with nothing to queue.
LEMMA TurnStep ==
    ASSUME AInv, PInv', UNCHANGED <<vmVars, rel, releasing, releases, crashes>>,
           app' \in [Files -> Stored],
           connects' \in 0 .. MaxConnects, requests' \in 0 .. MaxRequests,
           NEW r \in Refreshers, NEW x \in Refresh, refresh' = [refresh EXCEPT ![r] = x],
           ToQueue(x) = {}, ToQueue(refresh[r]) = {},
           \/ r = "handler" /\ sync' = sync
           \/ /\ r \in Syncs
              /\ \E y \in {"idle", "full", "partial"} :
                    sync' = [sync EXCEPT ![r] = y] /\ (y = "idle" => x.pc = "idle")
    PROVE  StepOK
<1>1. /\ refresh' \in [Refreshers -> Refresh] /\ refresh'[r] = x
      /\ \A p \in Refreshers : p # r => refresh'[p] = refresh[p]
    BY RefreshSet DEF AInv
<1>2. /\ sync \in [Syncs -> {"idle", "full", "partial"}]
      /\ \A s \in Syncs : s \in Refreshers /\ s # "handler"
      /\ \A s \in Syncs : sync[s] = "idle" => refresh[s].pc = "idle"
    BY AgentAssumption DEF AInv, SiteOK, Refreshers
<1>3. CASE r = "handler" /\ sync' = sync
    <2>1. \A s \in Syncs : sync'[s] = "idle" => refresh'[s].pc = "idle"
        BY <1>1, <1>2, <1>3
    <2>2. SiteOK'
        BY <1>1, <1>3, <2>1 DEF AInv, SiteOK
    <2>3. QED
        BY <2>2, OneRefreshStep
<1>4. ASSUME r \in Syncs, NEW y \in {"idle", "full", "partial"},
             sync' = [sync EXCEPT ![r] = y], y = "idle" => x.pc = "idle"
      PROVE  StepOK
    <2>1. /\ sync' \in [Syncs -> {"idle", "full", "partial"}] /\ sync'[r] = y
          /\ \A s \in Syncs : s # r => sync'[s] = sync[s]
        BY <1>2, <1>4
    <2>2. \A s \in Syncs : sync'[s] = "idle" => refresh'[s].pc = "idle"
        BY <1>1, <1>2, <1>4, <2>1
    <2>3. SiteOK'
        BY <1>1, <2>1, <2>2 DEF AInv, SiteOK
    <2>4. QED
        BY <2>3, OneRefreshStep
<1>5. QED
    BY <1>3, <1>4

\* A request for files with what one stores for them is a refresh.
LEMMA AskingFacts ==
    ASSUME NEW A \in SUBSET Files, NEW required \in [A -> Stored], NEW full \in BOOLEAN
    PROVE  LET x == [pc |-> "ask", full |-> full, required |-> required]
           IN  x \in Refresh /\ x.pc = "ask" /\ ToQueue(x) = {}
BY DEF Refresh, ToQueue

\* A refresh that is idle, asks, or has applied its answer has nothing to queue.
LEMMA NothingToQueue ==
    /\ NoRefresh \in Refresh /\ NoRefresh.pc = "idle" /\ ToQueue(NoRefresh) = {}
    /\ \A r \in Refreshers : refresh[r].pc # "apply" \/ Applied(r) => ToQueue(refresh[r]) = {}
BY DEF NoRefresh, Refresh, ToQueue, Applied

\* A handler's refresh ends, one way or the other.
LEMMA HandlerSteps ==
    ASSUME AInv, AskFails \/ HandlerRefreshed
    PROVE  StepOK
<1>1. /\ refresh' = [refresh EXCEPT !["handler"] = NoRefresh]
      /\ UNCHANGED <<hubVars, vmVars, rel, releasing, app, sync, counters>>
      /\ refresh["handler"].pc # "apply" \/ Applied("handler")
    BY DEF AskFails, HandlerRefreshed
<1>2. PInv'
    BY <1>1, VmFrame, HubFrame DEF AInv, PInv, hubVars
<1>3. /\ app' \in [Files -> Stored] /\ connects' \in 0 .. MaxConnects
      /\ requests' \in 0 .. MaxRequests /\ UNCHANGED <<releases, crashes>>
    BY <1>1 DEF AInv, SiteOK, counters
<1>4. "handler" \in Refreshers
    BY DEF Refreshers
<1>5. QED
    BY <1>1, <1>2, <1>3, <1>4, NothingToQueue, TurnStep

\* A synchronisation starts, goes on to its second refresh, or ends.
LEMMA SyncSteps ==
    ASSUME AInv, Synchronise
    PROVE  StepOK
<1>1. PICK s \in Syncs : OnReady(s) \/ ScanDisk(s) \/ SyncEnd(s)
    BY DEF Synchronise
<1>2. /\ UNCHANGED <<hubVars, vmVars, rel, releasing, app, releases, requests, crashes>>
      /\ s \in Refreshers
    BY <1>1 DEF OnReady, ScanDisk, SyncEnd, counters, Refreshers
<1>3. PInv'
    BY <1>2, VmFrame, HubFrame DEF AInv, PInv, hubVars
<1>4. app' \in [Files -> Stored] /\ requests' \in 0 .. MaxRequests
    BY <1>2 DEF AInv, SiteOK
<1>5. connects' \in 0 .. MaxConnects
    <2>1. MaxConnects \in Nat /\ connects \in 0 .. MaxConnects
        BY AgentAssumption DEF AInv, SiteOK
    <2>2. \/ connects' = connects
          \/ connects < MaxConnects /\ connects' = connects + 1
        <3>1. CASE OnReady(s)
            BY <3>1 DEF OnReady
        <3>2. CASE ScanDisk(s) \/ SyncEnd(s)
            BY <3>2 DEF ScanDisk, SyncEnd, counters
        <3>3. QED
            BY <1>1, <3>1, <3>2
    <2>3. QED
        BY <2>1, <2>2
<1>6. ToQueue(refresh[s]) = {}
    <2>1. refresh[s].pc # "apply" \/ Applied(s)
        BY <1>1 DEF OnReady, ScanDisk, SyncEnd, AInv, SiteOK
    <2>2. QED
        BY <1>2, <2>1, NothingToQueue
<1>7. ASSUME SyncEnds(s) PROVE StepOK
    <2>1. refresh' = [refresh EXCEPT ![s] = NoRefresh] /\ sync' = [sync EXCEPT ![s] = "idle"]
        BY <1>7 DEF SyncEnds
    <2>2. NoRefresh \in Refresh /\ NoRefresh.pc = "idle" /\ ToQueue(NoRefresh) = {}
        BY NothingToQueue
    <2>3. QED
        BY <1>2, <1>3, <1>4, <1>5, <1>6, <2>1, <2>2, TurnStep
<1>8. ASSUME NEW A \in SUBSET Files, NEW required \in [A -> Stored], NEW full \in BOOLEAN,
             StartRefresh(s, required, full), NEW y \in {"full", "partial"},
             sync' = [sync EXCEPT ![s] = y]
      PROVE  StepOK
    <2> DEFINE x == [pc |-> "ask", full |-> full, required |-> required]
    <2>1. refresh' = [refresh EXCEPT ![s] = x]
        BY <1>8 DEF StartRefresh
    <2>2. x \in Refresh /\ ToQueue(x) = {}
        BY AskingFacts
    <2>3. \E z \in {"idle", "full", "partial"} :
             sync' = [sync EXCEPT ![s] = z] /\ (z = "idle" => x.pc = "idle")
        BY <1>8
    <2> HIDE DEF x
    <2>4. QED
        BY <1>2, <1>3, <1>4, <1>5, <1>6, <2>1, <2>2, <2>3, TurnStep
<1>9. /\ Known \in [{g \in Files : fm[g] # 0} -> Stored]
      /\ [f \in Inconsistent |-> disk[f]] \in [Inconsistent -> Stored]
      /\ {g \in Files : fm[g] # 0} \in SUBSET Files /\ Inconsistent \in SUBSET Files
    BY StoredFacts DEF AInv, PInv, HubTypeOK, Known, Inconsistent
<1>10. CASE OnReady(s)
    BY <1>8, <1>9, <1>10 DEF OnReady
<1>11. CASE ScanDisk(s)
    BY <1>7, <1>8, <1>9, <1>11 DEF ScanDisk
<1>12. CASE SyncEnd(s)
    BY <1>7, <1>12 DEF SyncEnd
<1>13. QED
    BY <1>1, <1>10, <1>11, <1>12

\* A handler starts a refresh of one file, or a file is read or told.
LEMMA ApplicationSteps ==
    ASSUME AInv, Application
    PROVE  StepOK
<1>1. PICK f \in Files : CmdContent(f) \/ CmdFileRefresh(f)
    BY DEF Application
<1>2. UNCHANGED <<disk, package, packageQueue, fileQueue, pworker, fworker, fm, dumped,
                  vmVars, rel, releasing, sync, releases, connects, crashes>>
    BY <1>1 DEF CmdContent, CmdFileRefresh
<1>3. told' \in SUBSET Files /\ app' \in [Files -> Stored]
    <2>1. told \in SUBSET Files /\ app \in [Files -> Stored] /\ disk[f] \in Stored
        BY StoredFacts DEF AInv, PInv, HubTypeOK, SiteOK
    <2>2. told' \in {told, told \ {f}, told \cup {f}}
          /\ (app' = app \/ app' = [app EXCEPT ![f] = disk[f]])
        BY <1>1 DEF CmdContent, CmdFileRefresh
    <2>3. QED
        BY <2>1, <2>2
<1>4. PInv'
    <2>1. HubTypeOK'
        BY <1>2, <1>3 DEF AInv, PInv, HubTypeOK
    <2>2. QED
        BY <1>2, <2>1, OutsideStep DEF AInv
<1>5. \/ UNCHANGED <<refresh, requests>>
      \/ \E digest \in Stored : RequestFile(f, digest)
    <2>1. app[f] \in Stored /\ 0 \in Stored
        BY StoredFacts DEF AInv, SiteOK
    <2>2. QED
        BY <1>1, <2>1 DEF CmdContent, CmdFileRefresh
<1>6. CASE UNCHANGED <<refresh, requests>>
    <2>1. SiteOK'
        BY <1>2, <1>3, <1>6 DEF AInv, SiteOK
    <2>2. Promised' = Promised
        BY <1>6 DEF Promised
    <2>3. QED
        BY <1>2, <1>4, <2>1, <2>2, QuietStep
<1>7. ASSUME NEW digest \in Stored, RequestFile(f, digest) PROVE StepOK
    <2> DEFINE required == [g \in {f} |-> digest]
               x == [pc |-> "ask", full |-> FALSE, required |-> required]
    <2>1. /\ refresh["handler"].pc = "idle" /\ requests < MaxRequests
          /\ requests' = requests + 1 /\ refresh' = [refresh EXCEPT !["handler"] = x]
        BY <1>7 DEF RequestFile, StartRefresh
    <2>2. requests' \in 0 .. MaxRequests
        <3>1. MaxRequests \in Nat /\ requests \in 0 .. MaxRequests
            BY AgentAssumption DEF AInv, SiteOK
        <3>2. QED
            BY <2>1, <3>1
    <2>3. x \in Refresh /\ ToQueue(x) = {}
        <3>1. {f} \in SUBSET Files /\ required \in [{f} -> Stored] /\ FALSE \in BOOLEAN
            OBVIOUS
        <3>2. QED
            BY <3>1, AskingFacts
    <2>4. "handler" \in Refreshers /\ ToQueue(refresh["handler"]) = {}
        BY <2>1, NothingToQueue DEF Refreshers
    <2>5. connects' \in 0 .. MaxConnects
        BY <1>2 DEF AInv, SiteOK
    <2> HIDE DEF x
    <2>6. QED
        BY <1>2, <1>3, <1>4, <2>1, <2>2, <2>3, <2>4, <2>5, TurnStep
<1>8. QED
    BY <1>5, <1>6, <1>7

\* A new process starts with the disk and the dump of the old one.
LEMMA CrashStep ==
    ASSUME AInv, Crash
    PROVE  StepOK
<1>1. /\ HubRestart /\ VmRestart
      /\ crashes < MaxCrashes /\ crashes' = crashes + 1
      /\ refresh' = [r \in Refreshers |-> NoRefresh]
      /\ sync' = [s \in Syncs |-> "idle"]
      /\ UNCHANGED <<rel, releasing, app, releases, connects, requests>>
    BY DEF Crash
<1>2. HubTypeOK'
    BY <1>1, SeqFacts DEF HubRestart, AInv, PInv, HubTypeOK
<1>3. VmTypeOK'
    BY <1>1, SeqFacts DEF VmRestart, VmTypeOK, NoDownload, Downloading
<1>4. PackageThere' /\ QueueOK'
    BY <1>1, SeqFacts DEF HubRestart, VmRestart, PackageThere, QueueOK
<1>5. \A w \in PackageWorkers : UnpackOK(w)'
    BY <1>1 DEF HubRestart, UnpackOK
<1>6. \A d \in Downloader : DownloadOK(d)'
    BY <1>1 DEF VmRestart, DownloadOK, NoDownload
<1>7. PInv'
    BY <1>2, <1>3, <1>4, <1>5, <1>6 DEF PInv
<1>8. SiteOK'
    <2>1. NoRefresh \in Refresh /\ NoRefresh.pc = "idle"
        BY NothingToQueue
    <2>2. crashes' \in 0 .. MaxCrashes
        <3>1. MaxCrashes \in Nat /\ crashes \in 0 .. MaxCrashes
            BY AgentAssumption DEF AInv, SiteOK
        <3>2. QED
            BY <1>1, <3>1
    <2>3. /\ refresh' \in [Refreshers -> Refresh]
          /\ \A s \in Syncs : refresh'[s].pc = "idle"
        BY <1>1, <2>1 DEF Refreshers
    <2>4. QED
        BY <1>1, <2>2, <2>3 DEF AInv, SiteOK
<1>9. Promised' = {}
    <2>1. \A r \in Refreshers : ToQueue(refresh'[r]) = {}
        BY <1>1, NothingToQueue
    <2>2. QED
        BY <2>1 DEF Promised, ToQueue
<1>10. UnderWay' = {} /\ settled' = Tasks /\ round' = None
    <2>1. /\ downloadQueue' = <<>> /\ failureQueue' = <<>> /\ round' = None
          /\ download' = [d \in Downloader |-> NoDownload] /\ settled' = Tasks
        BY <1>1 DEF VmRestart
    <2>2. Queued' = {} /\ Whats(failureQueue)' = {} /\ Kept' = {} /\ Todo' = {}
        BY <2>1, WhatsFacts DEF Queued, Kept, Todo, Whats
    <2>3. InHand' = {}
        BY <2>1 DEF InHand, NoDownload
    <2>4. QED
        BY <2>1, <2>2, <2>3 DEF UnderWay, Settling
<1>11. DoneOK(Promised)'
    BY <1>10 DEF DoneOK
<1>12. SyncWork!Restart
    BY <1>9, <1>10 DEF SyncWork!Restart, FileTasks
<1>13. QED
    BY <1>7, <1>8, <1>11, <1>12 DEF StepOK, AInv, SyncWork!Next

\* Every step of the agent keeps the invariant and is one of Work.
LEMMA AgentStep ==
    ASSUME AInv, [AgentNext]_allVars
    PROVE  StepOK
<1>1. CASE Refreshing
    BY <1>1, AnswerStep, AddOneStep, MarkOneStep DEF Refreshing
<1>2. CASE UNCHANGED allVars
    <2>1. UNCHANGED <<hubVars, vmVars, agentVars>> /\ package' = package
        BY <1>2 DEF allVars, hubVars
    <2>2. PInv'
        BY <2>1, VmFrame, HubFrame DEF AInv, PInv
    <2>3. SiteOK' /\ Promised' = Promised
        BY <2>1 DEF AInv, SiteOK, agentVars, counters, Promised
    <2>4. QED
        BY <2>1, <2>2, <2>3, QuietStep
<1>3. QED
    BY <1>1, <1>2, AgentHubStep, AgentVmStep, ReleaseSteps, HandlerSteps, SyncSteps,
       ApplicationSteps, CrashStep DEF AgentNext

\* The inductive invariant holds in every state of the agent.
THEOREM AgentInvariant == AgentSpec => []AInv
<1>1. AgentInit => AInv
    BY AInvInit
<1>2. AInv /\ [AgentNext]_allVars => AInv'
    BY AgentStep DEF StepOK
<1>3. QED
    BY <1>1, <1>2, PTL DEF AgentSpec

\* Every variable of the agent keeps its type, across restarts.
THEOREM AgentTypeCorrect == AgentSpec => []AgentTypeOK
<1>1. AInv => AgentTypeOK
    BY DEF AInv, PInv, SiteOK, AgentTypeOK, Stored
<1>2. QED
    BY <1>1, AgentInvariant, PTL

\* The agent implements Work with what the manager's answers name as pending from
\* the answer on: whatever happens meanwhile, only a restart loses a file of an
\* answer before it is settled.
THEOREM AgentRefinesWork == AgentSpec => SyncImplementsWork
<1>1. AgentInit => SyncWork!Init
    <2> SUFFICES ASSUME AgentInit PROVE SyncWork!Init
        OBVIOUS
    <2>1. Queued = {} /\ Whats(failureQueue) = {} /\ Kept = {} /\ Todo = {} /\ settled = {}
        BY WhatsFacts DEF AgentInit, VmInit, Queued, Kept, Todo
    <2>2. InHand = {}
        BY DEF AgentInit, VmInit, InHand, NoDownload
    <2>3. Promised = {}
        BY DEF AgentInit, Promised, ToQueue, NoRefresh
    <2>4. QED
        BY <2>1, <2>2, <2>3 DEF SyncWork!Init, UnderWay, Settling
<1>2. AInv /\ [AgentNext]_allVars => [SyncWork!Next]_(SyncWork!vars)
    BY AgentStep DEF StepOK
<1>3. QED
    BY <1>1, <1>2, AgentInvariant, PTL DEF AgentSpec, SyncImplementsWork, SyncWork!Spec
=============================================================================
