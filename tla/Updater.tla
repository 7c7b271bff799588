------------------------------ MODULE Updater ------------------------------
(***************************************************************************)
(* The agent's UpdateHub and FileMapper, pkg/agent/updater: packages and   *)
(* files that were downloaded are handed through queues to workers, which  *)
(* unpack them, record the digest of each file in the FileMapper and have  *)
(* the Syncer tell the applications.                                       *)
(*                                                                         *)
(* One namespace.  Each version of a file has its own content, so that a   *)
(* version stands for content and digest alike; 0 stands for no entry.  A  *)
(* package is a function from Files to versions, 0 for a file it lacks.    *)
(* StoreConfig is one step here; its own steps are in FileDB.              *)
(***************************************************************************)
EXTENDS Naturals, Sequences, FiniteSets

CONSTANTS Files, MaxVersion,
          FileWorkers, PackageWorkers,  \* WorkersNum goroutines each
          Faults,    \* bound: which operations may fail, of
                     \* "request", "digest", "untar"
          NotFound,  \* an empty file with _status 404 in its metadata
          Corrupt,   \* content whose digest is not the announced one
          None

ASSUME UpdaterAssumption ==
    /\ MaxVersion \in Nat \ {0}
    /\ Faults \subseteq {"request", "digest", "untar"}
    /\ None \notin {NotFound, Corrupt} \cup Nat

VARIABLES
    disk,          \* the config files of the file database
    package,       \* the package of the namespace there, or None
    packageQueue,  \* packages to be unpacked
    fileQueue,     \* files that were downloaded: <<file, version>>
    pworker,       \* runPackageUpdated of each package worker
    fworker,       \* runFileUpdated of each file worker
    fm,            \* the FileMapper's digest of each file
    dumped,        \* the dump of the FileMapper on disk
    told           \* files the applications were told of and have yet to get

hubVars == <<disk, package, packageQueue, fileQueue, pworker, fworker, fm,
             dumped, told>>

Versions == 1 .. MaxVersion
PackageType == [Files -> 0 .. MaxVersion]
Unpacking == [pkg : PackageType, todo : SUBSET Files, diff : SUBSET Files,
              notify : BOOLEAN]

HubTypeOK ==
    /\ disk \in [Files -> {0, NotFound, Corrupt} \cup Versions]
    /\ package \in PackageType \cup {None}
    /\ packageQueue \in Seq(PackageType)
    /\ fileQueue \in Seq(Files \X Versions)
    /\ pworker \in [PackageWorkers -> Unpacking \cup {None}]
    /\ fworker \in [FileWorkers -> (Files \X Versions) \cup {None}]
    /\ fm \in [Files -> 0 .. MaxVersion]
    /\ dumped \in [Files -> 0 .. MaxVersion]
    /\ told \in SUBSET Files

HubInit ==
    /\ disk = [f \in Files |-> 0]
    /\ package = None
    /\ packageQueue = <<>>
    /\ fileQueue = <<>>
    /\ pworker = [w \in PackageWorkers |-> None]
    /\ fworker = [w \in FileWorkers |-> None]
    /\ fm = [f \in Files |-> 0]
    /\ dumped = [f \in Files |-> 0]
    /\ told = {}

-----------------------------------------------------------------------------
(* The FileMapper.                                                         *)

Namespace == <<"namespace">>
DigestOf(v) == <<"digest", v>>

\* FM.Get: a namespace other than the one of the model has no files.
FmGet(ns, f) == IF ns = Namespace THEN fm[f] ELSE 0

FmUpdate(target) ==
    fm' = [f \in Files |-> IF f \in DOMAIN target THEN target[f] ELSE fm[f]]

\* Run: the mapper is dumped every FmDumpInterval seconds.
FmDump ==
    /\ dumped' = fm
    /\ UNCHANGED <<disk, package, packageQueue, fileQueue, pworker, fworker, fm,
                   told>>

-----------------------------------------------------------------------------
(* Workers.                                                                *)

NotifyUpdate(files) == told' = told \cup files

\* The VersionManager reports what it has stored.
PackageUpdated(pkg) ==
    packageQueue' = Append(packageQueue, pkg) /\ UNCHANGED fileQueue

FileUpdated(f, v) ==
    fileQueue' = Append(fileQueue, <<f, v>>) /\ UNCHANGED packageQueue

\* The pump of the packages takes the oldest entry of the queue.
NextPackage ==
    /\ packageQueue # <<>>
    /\ packageQueue' = Tail(packageQueue)

\* A package worker gets the next package; what it unpacks is the package that
\* the file database holds by now.  A package that cannot be read is skipped.
VisitPackage(w) ==
    /\ pworker[w] = None /\ NextPackage
    /\ \/ pworker' = [pworker EXCEPT ![w] =
                        [pkg |-> package, diff |-> {}, notify |-> FALSE,
                         todo |-> {f \in Files : package[f] # 0}]]
       \/ "untar" \in Faults /\ UNCHANGED pworker
    /\ UNCHANGED <<disk, package, fileQueue, fworker, fm, dumped, told>>

\* A file of the package is stored and compared with the mapper.
Extract(w, f, v) ==
    /\ disk' = [disk EXCEPT ![f] = v]
    /\ pworker' = [pworker EXCEPT
                     ![w].todo = @ \ {f},
                     ![w].diff = IF FmGet(Namespace, f) # v THEN @ \cup {f} ELSE @]

\* Untar extracts file by file.  On an error the worker returns: the files so
\* far stay, mapper and applications do not know.
Untar(w, f) ==
    /\ pworker[w] # None /\ f \in pworker[w].todo
    /\ \/ Extract(w, f, pworker[w].pkg[f])
       \/ /\ "untar" \in Faults
          /\ pworker' = [pworker EXCEPT ![w] = None]
          /\ UNCHANGED disk
    /\ UNCHANGED <<package, packageQueue, fileQueue, fworker, fm, dumped, told>>

PackageUpdate(w) ==
    /\ pworker[w] # None /\ pworker[w].todo = {} /\ ~pworker[w].notify
    /\ FmUpdate([f \in pworker[w].diff |-> pworker[w].pkg[f]])
    /\ pworker' = [pworker EXCEPT ![w].notify = TRUE]
    /\ UNCHANGED <<disk, package, packageQueue, fileQueue, fworker, dumped, told>>

PackageNotify(w) ==
    /\ pworker[w] # None /\ pworker[w].notify
    /\ NotifyUpdate(pworker[w].diff)
    /\ pworker' = [pworker EXCEPT ![w] = None]
    /\ UNCHANGED <<disk, package, packageQueue, fileQueue, fworker, fm, dumped>>

\* The pump takes a file from the queue, a free worker gets it: with several
\* workers two updates of one file may overtake each other from here on.
TakeFile(w) ==
    /\ fworker[w] = None /\ fileQueue # <<>>
    /\ fileQueue' = Tail(fileQueue)
    /\ fworker' = [fworker EXCEPT ![w] = Head(fileQueue)]
    /\ UNCHANGED <<disk, package, packageQueue, pworker, fm, dumped, told>>

\* Slip: a file that is on disk is taken for one that did not change.
runFileUpdatedSlip(w) ==
    /\ fworker[w] # None
    /\ fworker' = [fworker EXCEPT ![w] = None]
    /\ IF disk[fworker[w][1]] = fworker[w][2]
       THEN UNCHANGED <<fm, told>>
       ELSE FmUpdate([g \in {fworker[w][1]} |-> fworker[w][2]])
            /\ NotifyUpdate({fworker[w][1]})
    /\ UNCHANGED <<disk, package, packageQueue, fileQueue, pworker, dumped>>

\* The mapper is asked for the file in the namespace data.digest, where there
\* is none: the update is recorded and told whether the file changed or not.
runFileUpdated(w) ==
    /\ fworker[w] # None
    /\ fworker' = [fworker EXCEPT ![w] = None]
    /\ LET f == fworker[w][1]
           v == fworker[w][2]
       IN  IF FmGet(DigestOf(v), f) = v /\ disk[f] # 0
           THEN UNCHANGED <<fm, told>>
           ELSE FmUpdate([g \in {f} |-> v]) /\ NotifyUpdate({f})
    /\ UNCHANGED <<disk, package, packageQueue, fileQueue, pworker, dumped>>

\* NewFileMapper loads the dump; queues and workers are those of a new process.
HubRestart ==
    /\ fm' = dumped
    /\ packageQueue' = <<>> /\ fileQueue' = <<>>
    /\ pworker' = [w \in PackageWorkers |-> None]
    /\ fworker' = [w \in FileWorkers |-> None]
    /\ told' = {}
    /\ UNCHANGED <<disk, package, dumped>>

Hub ==
    \/ \E w \in PackageWorkers :
          \/ VisitPackage(w) \/ PackageUpdate(w) \/ PackageNotify(w)
          \/ \E f \in Files : Untar(w, f)
    \/ \E w \in FileWorkers : TakeFile(w) \/ runFileUpdated(w)
=============================================================================
