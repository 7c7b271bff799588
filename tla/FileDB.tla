------------------------------- MODULE FileDB -------------------------------
(***************************************************************************)
(* The file database, pkg/component/storage/filedb, with its two drivers:  *)
(* "cas" keeps a blob per digest (pkg/component/storage/cas), "fs" a blob  *)
(* per file (FSStorage).  Both write the data to a temporary file that is  *)
(* renamed, and then overwrite the metadata file in place.  No lock        *)
(* protects a file: goroutines put and get it as they like, and the        *)
(* process may stop between any two system calls.                          *)
(*                                                                         *)
(* A path (config, template, package or replacement folder, site,          *)
(* namespace, name, version) is one member of Files, data a member of      *)
(* Contents.  The blobs hold the data encrypted, which no property here    *)
(* can tell.                                                               *)
(***************************************************************************)
EXTENDS Naturals, FiniteSets

CONSTANTS Files,      \* paths
          Contents,   \* data a client stores
          Writers,    \* goroutines in Put
          Readers,    \* goroutines in Get, Exists or Package
          MaxCrashes, \* bound: restarts of the process
          Torn,       \* a metadata file that does not parse
          None        \* no such file

ASSUME FileDBAssumption ==
    /\ None \notin Contents /\ None \notin Files
    /\ Torn # None
    /\ MaxCrashes \in Nat

VARIABLES
    driver,   \* casDisable: the driver of this database
    blobs,    \* DirBlobs, by digest ("cas") or path ("fs")
    meta,     \* DirMetaInfo: the metadata of each path
    put,      \* the state of each Put (data None: delete); ghost: has it overlapped no other Put
              \* of its path (alone)
    get,      \* the state of each Get
    acked,    \* ghost: the Put of each path that was acknowledged last, None
              \* from the start of another Put of that path on
    crashes   \* restarts so far

vars == <<driver, blobs, meta, put, get, acked, crashes>>

\* The digest of stored data; two contents never share one.
Digest(c) == <<"sha256", c>>

Digests == {Digest(c) : c \in Contents}
Metas == [digest : Digests \cup {None}]
\* What stands for a missing or torn file is no metadata and no digest.
ASSUME FileDBValues == {None, Torn} \cap Metas = {} /\ None \notin Digests

Idle == [pc |-> "idle", file |-> None, data |-> None, alone |-> FALSE]
NoGet == [pc |-> "idle", file |-> None, digest |-> None, data |-> None]
Puts == [pc : {"idle", "copy", "exist", "rename", "truncate", "write"},
         file : Files \cup {None}, data : Contents \cup {None}, alone : BOOLEAN]
Gets == [pc : {"idle", "open", "done"}, file : Files \cup {None},
         digest : Digests \cup {None}, data : Contents \cup {None}]

\* The type invariant.
TypeOK ==
    /\ driver \in {"cas", "fs"}
    /\ blobs \in [Digests \cup Files -> Contents \cup {None}]
    /\ meta \in [Files -> Metas \cup {None, Torn}]
    /\ put \in [Writers -> Puts]
    /\ get \in [Readers -> Gets]
    /\ acked \in [Files -> Contents \cup {None}]
    /\ crashes \in 0 .. MaxCrashes

\* NewFileDB: the folders are created, whatever they hold is kept.
Init ==
    /\ driver \in {"cas", "fs"}
    /\ blobs = [k \in Digests \cup Files |-> None]
    /\ meta = [f \in Files |-> None]
    /\ put = [w \in Writers |-> Idle]
    /\ get = [r \in Readers |-> NoGet]
    /\ acked = [f \in Files |-> None]
    /\ crashes = 0

-----------------------------------------------------------------------------
(* Put.                                                                    *)

\* Where a driver keeps the data: the digest (cas), or the path (fs).
BlobKey(f, c) == IF driver = "cas" THEN Digest(c) ELSE f

Putting(f) == {w \in Writers : put[w].pc # "idle" /\ put[w].file = f}

PutAt(w, pc) == put' = [put EXCEPT ![w].pc = pc]

\* The Put ends; on an error nothing it did is undone.
PutReturns(w) == put' = [put EXCEPT ![w] = Idle]

\* StoreConfig, StoreTemplate, StorePackage, StoreReplacement: the path is
\* built, nil data becomes the empty buffer, and the driver's Put is called.
\* Only fs looks at extend["deleted"], and then not at the data.
StoreRawFile(w, f, c) ==
    /\ put[w].pc = "idle"
    /\ c = None => driver = "fs"
    /\ put' = [v \in Writers |->
                  IF v = w THEN [pc |-> "copy", file |-> f, data |-> c,
                                 alone |-> Putting(f) = {}]
                  ELSE [put[v] EXCEPT !.alone = @ /\ put[v].file # f]]
    /\ acked' = [acked EXCEPT ![f] = None]
    /\ UNCHANGED <<driver, blobs, meta, get, crashes>>

\* cas: the data goes through cipher and digest to a temporary file.  When
\* that fails the file is removed and Put returns the error.
CopyData(w) ==
    /\ driver = "cas" /\ put[w].pc = "copy"
    /\ PutAt(w, "exist") \/ PutReturns(w)
    /\ UNCHANGED <<driver, blobs, meta, get, acked, crashes>>

\* fs: the same, with the path as the name of the blob to come.
storageData(w) ==
    /\ driver = "fs" /\ put[w].pc = "copy" /\ put[w].data # None
    /\ PutAt(w, "rename") \/ PutReturns(w)
    /\ UNCHANGED <<driver, blobs, meta, get, acked, crashes>>

\* cas: a blob that exists is not written again, the temporary is removed.
Exist(w) ==
    /\ put[w].pc = "exist"
    /\ PutAt(w, IF blobs[Digest(put[w].data)] = None THEN "rename" ELSE "truncate")
    /\ UNCHANGED <<driver, blobs, meta, get, acked, crashes>>

\* Slip: the metadata is written although the rename failed.
RenameSlip(w) ==
    /\ put[w].pc = "rename"
    /\ \/ blobs' = [blobs EXCEPT ![BlobKey(put[w].file, put[w].data)] = put[w].data]
       \/ UNCHANGED blobs
    /\ PutAt(w, "truncate")
    /\ UNCHANGED <<driver, meta, get, acked, crashes>>

\* Slip: the blob that the new one replaces is removed, without a look at who
\* else uses it.
RenameSlipUnlink(w) ==
    /\ put[w].pc = "rename"
    /\ LET old == meta[put[w].file]
       IN  blobs' = [k \in DOMAIN blobs |->
                       IF k = BlobKey(put[w].file, put[w].data) THEN put[w].data
                       ELSE IF old \notin {None, Torn} /\ k = old.digest THEN None
                       ELSE blobs[k]]
    /\ PutAt(w, "truncate")
    /\ UNCHANGED <<driver, meta, get, acked, crashes>>

\* The temporary file is renamed to the blob; a rename that fails leaves the
\* temporary behind and ends the Put.
Rename(w) ==
    /\ put[w].pc = "rename"
    /\ \/ /\ blobs' = [blobs EXCEPT ![BlobKey(put[w].file, put[w].data)] = put[w].data]
          /\ PutAt(w, "truncate")
       \/ PutReturns(w) /\ UNCHANGED blobs
    /\ UNCHANGED <<driver, meta, get, acked, crashes>>

\* fs, extend["deleted"]: the blob is removed; without one Put fails.
deleteData(w) ==
    /\ put[w].pc = "copy" /\ put[w].data = None
    /\ IF blobs[put[w].file] = None
       THEN PutReturns(w) /\ UNCHANGED blobs
       ELSE /\ blobs' = [blobs EXCEPT ![put[w].file] = None]
            /\ PutAt(w, "truncate")
    /\ UNCHANGED <<driver, meta, get, acked, crashes>>

\* ioutil.WriteFile truncates the metadata file before it writes it.  The
\* open itself may fail, which changes nothing.
Truncate(w) ==
    /\ put[w].pc = "truncate"
    /\ \/ meta' = [meta EXCEPT ![put[w].file] = Torn] /\ PutAt(w, "write")
       \/ PutReturns(w) /\ UNCHANGED meta
    /\ UNCHANGED <<driver, blobs, get, acked, crashes>>

\* What Put records: the digest is empty for a file fs has deleted.
NewMeta(p) == [digest |-> IF p.data = None THEN None ELSE Digest(p.data)]

\* The write, after which Put returns the digest, or fails.
WriteMeta(w) ==
    /\ put[w].pc = "write"
    /\ PutReturns(w)
    /\ \/ UNCHANGED <<meta, acked>>
       \/ /\ meta' = [meta EXCEPT ![put[w].file] = NewMeta(put[w])]
          /\ acked' = [acked EXCEPT ![put[w].file] =
                          IF put[w].alone THEN put[w].data ELSE None]
    /\ UNCHANGED <<driver, blobs, get, crashes>>

-----------------------------------------------------------------------------
(* Get.                                                                    *)

\* VisitConfig, VisitTemplate, VisitPackage, VisitReplacement start with the
\* metadata: a file that is missing or torn is an error.  cas then looks at
\* the blob, whose size it needs.
Opened(f) == [pc |-> "open", file |-> f, digest |-> meta[f].digest, data |-> None]

getMetaInfo(r, f) ==
    /\ driver = "cas" /\ get[r].pc \in {"idle", "done"}
    /\ get' = [get EXCEPT ![r] =
                 IF meta[f] \in {None, Torn} THEN NoGet
                 ELSE IF blobs[meta[f].digest] = None THEN NoGet
                 ELSE Opened(f)]
    /\ UNCHANGED <<driver, blobs, meta, put, acked, crashes>>

FsGetMetainfo(r, f) ==
    /\ driver = "fs" /\ get[r].pc \in {"idle", "done"}
    /\ get' = [get EXCEPT ![r] = IF meta[f] \in {None, Torn} THEN NoGet
                                 ELSE Opened(f)]
    /\ UNCHANGED <<driver, blobs, meta, put, acked, crashes>>

\* The blob opened, or an error; a rename does not disturb a file that is open.
Open(r, data) ==
    get' = [get EXCEPT ![r] = IF data = None THEN NoGet
                              ELSE [@ EXCEPT !.pc = "done", !.data = data]]

\* Slip: the metadata is read again to find the blob.
getDatareaderSlip(r) ==
    /\ driver = "cas" /\ get[r].pc = "open"
    /\ meta[get[r].file] # Torn
    /\ Open(r, blobs[meta[get[r].file].digest])
    /\ UNCHANGED <<driver, blobs, meta, put, acked, crashes>>

\* cas: the blob the metadata names.
getDatareader(r) ==
    /\ driver = "cas" /\ get[r].pc = "open"
    /\ Open(r, blobs[get[r].digest])
    /\ UNCHANGED <<driver, blobs, meta, put, acked, crashes>>

\* fs: the blob of the path, whatever the metadata says by now.
FsGet(r) ==
    /\ driver = "fs" /\ get[r].pc = "open"
    /\ Open(r, blobs[get[r].file])
    /\ UNCHANGED <<driver, blobs, meta, put, acked, crashes>>

\* fs, a file of a package: the blob is opened without a look at the metadata.
FsPackage(r, f) ==
    /\ driver = "fs" /\ get[r].pc \in {"idle", "done"}
    /\ get' = [get EXCEPT ![r] =
                 IF blobs[f] = None THEN NoGet
                 ELSE [pc |-> "done", file |-> f, digest |-> None, data |-> blobs[f]]]
    /\ UNCHANGED <<driver, blobs, meta, put, acked, crashes>>

\* The process stops; the files are as they were, temporaries stay.
Crash ==
    /\ crashes < MaxCrashes
    /\ crashes' = crashes + 1
    /\ put' = [w \in Writers |-> Idle]
    /\ get' = [r \in Readers |-> NoGet]
    /\ UNCHANGED <<driver, blobs, meta, acked>>

-----------------------------------------------------------------------------
Next ==
    \/ \E w \in Writers :
          \/ \E f \in Files, c \in Contents \cup {None} : StoreRawFile(w, f, c)
          \/ CopyData(w) \/ Exist(w) \/ storageData(w) \/ deleteData(w) \/ Rename(w)
          \/ Truncate(w) \/ WriteMeta(w)
    \/ \E r \in Readers :
          \/ getDatareader(r) \/ FsGet(r)
          \/ \E f \in Files : getMetaInfo(r, f) \/ FsGetMetainfo(r, f) \/ FsPackage(r, f)
    \/ Crash

Spec == Init /\ [][Next]_vars

-----------------------------------------------------------------------------
(* Properties.                                                             *)

\* The metadata and the data are there: Exists of cas and of fs.
ExistPath(f) ==
    /\ meta[f] \notin {None, Torn}
    /\ meta[f].digest # None /\ blobs[meta[f].digest] # None

FsExists(f) == meta[f] \notin {None, Torn} /\ blobs[f] # None

\* What ExistsFile of path f answers now.
Readable(f) == IF driver = "cas" THEN ExistPath(f) ELSE FsExists(f)

Content(f) == IF driver = "cas" THEN blobs[meta[f].digest] ELSE blobs[f]

\* A Put that was acknowledged stays readable, with its own digest, until the
\* next Put of that path starts, whatever other paths, failures and restarts
\* do; for both drivers.
AckedIsReadable ==
    \A f \in Files : acked[f] # None =>
        /\ Readable(f)
        /\ Content(f) = acked[f]
        /\ meta[f].digest = Digest(acked[f])

\* With the cas driver a Get never pairs data with the digest of other data,
\* though Puts of the same path overlap it and the process may have stopped
\* in any of them.
DigestDescribesData ==
    driver = "cas" =>
        \A r \in Readers : get[r].pc = "done" => get[r].digest = Digest(get[r].data)

\* The refinement mapping.  The fs driver is mapped to a store that is never
\* used: between its rename and its write of the metadata a Get pairs the new
\* data with the old digest.
Cell(f) == IF driver = "cas" /\ Readable(f) THEN Content(f) ELSE None

Seen(r) ==
    IF get[r].pc = "idle" THEN None
    ELSE [file |-> get[r].file, digest |-> get[r].digest,
          data |-> IF get[r].pc = "open" THEN blobs[get[r].digest] ELSE get[r].data]

Abstract == INSTANCE Store WITH
    val <- [f \in Files |-> Cell(f)],
    seen <- [r \in Readers |-> IF driver = "cas" THEN Seen(r) ELSE None],
    NoFile <- None

\* The cas driver is a store of single cells: the blob is in place before the
\* metadata names it and is never changed, so a Get takes effect when it reads
\* the metadata.
CasImplementsStore == Abstract!Spec
=============================================================================
