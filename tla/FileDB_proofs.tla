---------------------------- MODULE FileDB_proofs ----------------------------
(***************************************************************************)
(* Proofs about FileDB for any number of paths, contents, writers, readers *)
(* and crashes: what a Put has acknowledged stays readable, with the cas   *)
(* driver data and digest go together, and the cas driver implements       *)
(* Store.                                                                  *)
(***************************************************************************)
EXTENDS FileDB, TLAPS

-----------------------------------------------------------------------------
(* The inductive invariant.                                                *)

\* cas: a blob holds the data its name is the digest of.
BlobsTrue == driver = "cas" => \A c \in Contents : blobs[Digest(c)] \in {None, c}

\* cas: metadata that parses names a blob that is there.
MetaNamesBlob ==
    driver = "cas" =>
        \A f \in Files : meta[f] \notin {None, Torn} =>
            meta[f].digest \in Digests /\ blobs[meta[f].digest] # None

\* What a Put knows at each of its system calls.  The blob is in place when the
\* metadata is written: for cas because a blob is never removed, for fs because
\* no other Put of the path has run since.
PutOK(w) ==
    /\ put[w].pc # "idle" => put[w].file \in Files
    /\ put[w].pc # "idle" /\ put[w].data = None => driver = "fs"
    /\ put[w].pc = "exist" => driver = "cas"
    /\ put[w].pc = "rename" => put[w].data # None
    /\ put[w].pc \in {"truncate", "write"} =>
          /\ driver = "cas" => blobs[Digest(put[w].data)] = put[w].data
          /\ driver = "fs" /\ put[w].alone => blobs[put[w].file] = put[w].data

\* A Put that is alone has its path for itself.
AloneOK ==
    \A v, w \in Writers :
        /\ put[w].pc # "idle" /\ put[w].alone
        /\ put[v].pc # "idle" /\ put[v].file = put[w].file
        => v = w

\* A Get of the cas driver that is on its way has found a blob, which stays.
GetOK(r) ==
    /\ get[r].pc = "open" => get[r].file \in Files
    /\ driver = "cas" =>
        /\ get[r].pc = "open" => get[r].digest \in Digests /\ blobs[get[r].digest] # None
        /\ get[r].pc = "done" => get[r].digest = Digest(get[r].data)

\* Nobody puts a path whose last Put counts as acknowledged.
AckedQuiet == \A f \in Files : acked[f] # None => Putting(f) = {}

FInv ==
    /\ TypeOK
    /\ BlobsTrue
    /\ MetaNamesBlob
    /\ \A w \in Writers : PutOK(w)
    /\ AloneOK
    /\ \A r \in Readers : GetOK(r)
    /\ AckedQuiet
    /\ AckedIsReadable
-----------------------------------------------------------------------------
(* Facts about the operators.                                              *)

\* Two contents never share a digest, and a digest is never None.
LEMMA DigestFacts ==
    /\ \A c \in Contents : Digest(c) \in Digests /\ Digest(c) # None
    /\ \A c, d : Digest(c) = Digest(d) => c = d
    /\ \A x \in Digests : \E c \in Contents : x = Digest(c)
<1>1. \A c \in Contents : Digest(c) \in Digests
    BY DEF Digests
<1>2. \A c, d : Digest(c) = Digest(d) => c = d
    BY DEF Digest
<1>3. \A x \in Digests : \E c \in Contents : x = Digest(c)
    BY DEF Digests
<1>4. QED
    BY <1>1, <1>2, <1>3, FileDBValues

\* Metadata is told from a file that is missing or torn.
LEMMA MetaFacts ==
    /\ \A m \in Metas : m \notin {None, Torn} /\ m.digest \in Digests \cup {None}
    /\ \A x \in Digests \cup {None} : [digest |-> x] \in Metas
BY FileDBValues DEF Metas

-----------------------------------------------------------------------------
(* Every step keeps the invariant.                                         *)

\* The folders are empty, nobody puts or gets.
LEMMA InitInv == Init => FInv
<1> SUFFICES ASSUME Init PROVE FInv
    OBVIOUS
<1>1. TypeOK
    BY FileDBAssumption DEF Init, TypeOK, Idle, NoGet, Puts, Gets
<1>2. BlobsTrue /\ MetaNamesBlob /\ AckedIsReadable /\ AckedQuiet
    BY DigestFacts DEF Init, BlobsTrue, MetaNamesBlob, AckedIsReadable, AckedQuiet
<1>3. AloneOK /\ \A w \in Writers : PutOK(w)
    BY DEF Init, AloneOK, PutOK, Idle
<1>4. \A r \in Readers : GetOK(r)
    BY DEF Init, GetOK, NoGet
<1>5. QED
    BY <1>1, <1>2, <1>3, <1>4 DEF FInv

\* What PutAt and PutReturns make of a Put, and that they leave the others.
LEMMA PutFacts ==
    ASSUME TypeOK, NEW w \in Writers,
           NEW pc \in {"copy", "exist", "rename", "truncate", "write"},
           PutAt(w, pc) \/ PutReturns(w)
    PROVE  /\ put' \in [Writers -> Puts]
           /\ \A v \in Writers : v # w => put'[v] = put[v]
           /\ \/ put'[w] = Idle
              \/ /\ put'[w].pc = pc
                 /\ put'[w].file = put[w].file
                 /\ put'[w].data = put[w].data
                 /\ put'[w].alone = put[w].alone
<1>1. CASE PutAt(w, pc)
    BY <1>1 DEF PutAt, TypeOK, Puts
<1>2. CASE PutReturns(w)
    BY <1>2 DEF PutReturns, TypeOK, Puts, Idle
<1>3. QED
    BY <1>1, <1>2

\* A Put that goes on or ends disturbs no other Put and starts none.
LEMMA PutFrame ==
    ASSUME FInv, NEW w \in Writers, put[w].pc # "idle",
           NEW pc \in {"copy", "exist", "rename", "truncate", "write"},
           PutAt(w, pc) \/ PutReturns(w)
    PROVE  /\ AloneOK'
           /\ \A f \in Files : Putting(f)' \subseteq Putting(f)
           /\ acked' = acked => AckedQuiet'
<1>1. AloneOK'
    BY PutFacts DEF FInv, AloneOK, Idle
<1>2. \A f \in Files : Putting(f)' \subseteq Putting(f)
    BY PutFacts DEF FInv, Putting, Idle
<1>3. acked' = acked => AckedQuiet'
    BY <1>2 DEF FInv, AckedQuiet
<1>4. QED
    BY <1>1, <1>2, <1>3

\* The steps of a Put that leave blobs and metadata alone, or fail.
LEMMA PutMoves ==
    ASSUME FInv, NEW w \in Writers, CopyData(w) \/ storageData(w) \/ Exist(w)
    PROVE  FInv'
<1>1. UNCHANGED <<driver, blobs, meta, get, acked, crashes>>
    BY DEF CopyData, storageData, Exist
<1>2. PICK pc \in {"exist", "rename", "truncate"} : PutAt(w, pc) \/ PutReturns(w)
    BY DEF CopyData, storageData, Exist
<1>3. put[w].pc # "idle"
    BY DEF CopyData, storageData, Exist
<1>4. TypeOK'
    BY <1>1, <1>2, PutFacts DEF FInv, TypeOK
<1>5. BlobsTrue' /\ MetaNamesBlob' /\ AckedIsReadable' /\ \A r \in Readers : GetOK(r)'
    BY <1>1 DEF FInv, BlobsTrue, MetaNamesBlob, AckedIsReadable, Readable, ExistPath,
                FsExists, Content, GetOK
<1>6. AloneOK' /\ AckedQuiet'
    BY <1>1, <1>2, <1>3, PutFrame
<1>7. ASSUME NEW v \in Writers PROVE PutOK(v)'
    <2>1. CASE v # w
        BY <1>1, <1>2, <2>1, PutFacts DEF FInv, PutOK
    <2>2. CASE v = w /\ CopyData(w)
        BY <1>1, <2>2, PutFacts DEF FInv, PutOK, CopyData, Idle
    <2>3. CASE v = w /\ storageData(w)
        BY <1>1, <2>3, PutFacts DEF FInv, PutOK, storageData, Idle
    <2>4. CASE v = w /\ Exist(w)
        <3>1. put[w].data \in Contents /\ driver = "cas"
            BY <2>4 DEF Exist, FInv, PutOK, TypeOK, Puts
        <3>2. blobs[Digest(put[w].data)] \in {None, put[w].data}
            BY <3>1 DEF FInv, BlobsTrue
        <3>3. QED
            BY <1>1, <2>4, <3>1, <3>2, PutFacts, FileDBAssumption
               DEF FInv, PutOK, Exist, Idle
    <2>5. QED
        BY <2>1, <2>2, <2>3, <2>4
<1>8. QED
    BY <1>4, <1>5, <1>6, <1>7 DEF FInv

\* A Put that starts ends the acknowledgement of its path, and no Put of that
\* path is alone any more.
LEMMA PutStarts ==
    ASSUME FInv, NEW w \in Writers, NEW f \in Files, NEW c \in Contents \cup {None},
           StoreRawFile(w, f, c)
    PROVE  FInv'
<1>1. UNCHANGED <<driver, blobs, meta, get, crashes>> /\ put[w].pc = "idle"
    BY DEF StoreRawFile
<1>2. /\ put' \in [Writers -> Puts]
      /\ put'[w] = [pc |-> "copy", file |-> f, data |-> c, alone |-> Putting(f) = {}]
      /\ \A v \in Writers : v # w =>
            /\ put'[v].pc = put[v].pc /\ put'[v].file = put[v].file
            /\ put'[v].data = put[v].data
            /\ put'[v].alone = (put[v].alone /\ put[v].file # f)
    <2>1. put \in [Writers -> Puts]
        BY Zenon DEF FInv, TypeOK
    <2>2. PICK new \in Puts : new = [pc |-> "copy", file |-> f, data |-> c,
                                    alone |-> Putting(f) = {}]
        <3>1. PICK alone \in BOOLEAN : alone = (Putting(f) = {})
            OBVIOUS
        <3>2. [pc |-> "copy", file |-> f, data |-> c, alone |-> alone] \in Puts
            BY DEF Puts
        <3>3. QED
            BY <3>1, <3>2
    <2>3. put' = [v \in Writers |->
                    IF v = w THEN new
                    ELSE [put[v] EXCEPT !.alone = @ /\ put[v].file # f]]
        BY <2>2, Zenon DEF StoreRawFile
    <2>4. ASSUME NEW v \in Writers, v # w
          PROVE  /\ put'[v] \in Puts
                 /\ put'[v].pc = put[v].pc /\ put'[v].file = put[v].file
                 /\ put'[v].data = put[v].data
                 /\ put'[v].alone = (put[v].alone /\ put[v].file # f)
        <3>1. put[v] \in Puts
            BY <2>1
        <3>2. put'[v] = [put[v] EXCEPT !.alone = @ /\ put[v].file # f]
            BY <2>3, <2>4, Zenon
        <3>3. QED
            BY <3>1, <3>2, Zenon DEF Puts
    <2>5. put'[w] = new /\ put' \in [Writers -> Puts]
        BY <2>2, <2>3, <2>4, Zenon
    <2>6. QED
        BY <2>2, <2>4, <2>5, Zenon
<1>3. acked' = [acked EXCEPT ![f] = None] /\ acked' \in [Files -> Contents \cup {None}]
    BY DEF StoreRawFile, FInv, TypeOK
<1>4. TypeOK'
    BY <1>1, <1>2, <1>3 DEF FInv, TypeOK
<1>5. BlobsTrue' /\ MetaNamesBlob' /\ \A r \in Readers : GetOK(r)'
    BY <1>1 DEF FInv, BlobsTrue, MetaNamesBlob, GetOK
<1>6. AckedIsReadable'
    BY <1>1, <1>3 DEF FInv, TypeOK, AckedIsReadable, Readable, ExistPath, FsExists, Content
<1>7. ASSUME NEW v \in Writers PROVE PutOK(v)'
    <2>1. CASE v = w
        BY <1>1, <1>2, <2>1 DEF PutOK, StoreRawFile
    <2>2. CASE v # w
        <3>1. /\ put'[v].pc = put[v].pc /\ put'[v].file = put[v].file
              /\ put'[v].data = put[v].data /\ (put'[v].alone => put[v].alone)
            BY <1>2, <2>2
        <3>2. PutOK(v)
            BY Zenon DEF FInv
        <3>3. QED
            BY <1>1, <3>1, <3>2 DEF PutOK
    <2>3. QED
        BY <2>1, <2>2
<1>8. AloneOK'
    <2> SUFFICES ASSUME NEW u \in Writers, NEW v \in Writers,
                        put'[v].pc # "idle", put'[v].alone,
                        put'[u].pc # "idle", put'[u].file = put'[v].file
                 PROVE  u = v
        BY DEF AloneOK
    <2>1. CASE v = w
        <3>1. put'[w].file = f /\ (put'[w].alone <=> Putting(f) = {})
            BY <1>2 DEF Puts
        <3>2. Putting(f) = {}
            BY <2>1, <3>1
        <3>3. ASSUME u # w PROVE u \in Putting(f)
            BY <1>2, <2>1, <3>1, <3>3 DEF Putting
        <3>4. QED
            BY <2>1, <3>2, <3>3
    <2>2. CASE v # w
        <3>1. /\ put[v].pc # "idle" /\ put[v].alone
              /\ put'[v].file = put[v].file /\ put[v].file # f
            BY <1>2, <2>2
        <3>2. u # w
            BY <1>2, <3>1
        <3>3. put[u].pc # "idle" /\ put[u].file = put[v].file
            BY <1>2, <3>1, <3>2
        <3>4. QED
            BY <3>1, <3>3 DEF FInv, AloneOK
    <2>3. QED
        BY <2>1, <2>2
<1>9. AckedQuiet'
    <2> SUFFICES ASSUME NEW g \in Files, acked'[g] # None PROVE Putting(g)' = {}
        BY DEF AckedQuiet
    <2>1. g # f /\ acked[g] # None
        BY <1>3 DEF FInv, TypeOK
    <2>2. Putting(g) = {}
        BY <2>1 DEF FInv, AckedQuiet
    <2>3. QED
        BY <1>2, <2>1, <2>2 DEF Putting
<1>10. QED
    BY <1>4, <1>5, <1>6, <1>7, <1>8, <1>9 DEF FInv

\* A rename of the cas driver puts a blob in place under the digest of its data.
LEMMA RenameCas ==
    ASSUME FInv, NEW w \in Writers, Rename(w), driver = "cas"
    PROVE  FInv'
<1> DEFINE c == put[w].data
<1>1. UNCHANGED <<driver, meta, get, acked, crashes>> /\ put[w].pc = "rename"
    BY DEF Rename
<1>2. PutAt(w, "truncate") \/ PutReturns(w)
    BY DEF Rename
<1>3. c \in Contents /\ Digest(c) \in Digests /\ c # None
    BY <1>1, DigestFacts, FileDBAssumption DEF FInv, PutOK, TypeOK, Puts
<1>4. /\ blobs' \in [Digests \cup Files -> Contents \cup {None}]
      /\ \A d \in Contents : blobs'[Digest(d)] \in {blobs[Digest(d)], d}
      /\ \A x \in Digests : blobs[x] # None => blobs'[x] # None
      /\ PutReturns(w) \/ blobs'[Digest(c)] = c
    <2>1. CASE blobs' = [blobs EXCEPT ![Digest(c)] = c]
        BY <1>3, <2>1, DigestFacts DEF FInv, TypeOK
    <2>2. CASE PutReturns(w) /\ UNCHANGED blobs
        BY <2>2 DEF FInv, TypeOK
    <2>3. QED
        BY <2>1, <2>2 DEF Rename, BlobKey
<1>5. \A d \in Contents : blobs[Digest(d)] \in {None, d}
    BY DEF FInv, BlobsTrue
<1>6. \A d \in Contents : blobs[Digest(d)] = d => blobs'[Digest(d)] = d
    BY <1>4
<1>7. TypeOK'
    BY <1>1, <1>2, <1>4, PutFacts DEF FInv, TypeOK
<1>8. BlobsTrue'
    BY <1>4, <1>5 DEF BlobsTrue
<1>9. MetaNamesBlob' /\ \A r \in Readers : GetOK(r)'
    BY <1>1, <1>4 DEF FInv, MetaNamesBlob, GetOK
<1>10. AckedIsReadable'
    <2> SUFFICES ASSUME NEW f \in Files, acked'[f] # None
                 PROVE  /\ Readable(f)' /\ Content(f)' = acked'[f]
                        /\ meta'[f].digest = Digest(acked'[f])
        BY DEF AckedIsReadable
    <2>1. /\ acked[f] \in Contents /\ acked[f] # None /\ meta[f].digest = Digest(acked[f])
          /\ meta[f] \notin {None, Torn} /\ blobs[meta[f].digest] = acked[f]
        BY <1>1 DEF FInv, TypeOK, AckedIsReadable, Readable, ExistPath, Content
    <2>2. blobs'[meta[f].digest] = acked[f]
        BY <1>6, <2>1
    <2>3. QED
        BY <1>1, <2>1, <2>2, DigestFacts DEF Readable, ExistPath, Content
<1>11. AloneOK' /\ AckedQuiet'
    BY <1>1, <1>2, PutFrame
<1>12. ASSUME NEW v \in Writers PROVE PutOK(v)'
    <2>1. CASE v # w
        <3>1. put'[v] = put[v] /\ (put[v].data = None => put[v].pc = "idle")
            BY <1>2, <2>1, PutFacts DEF FInv, PutOK
        <3>2. put[v].pc # "idle" => put[v].data \in Contents
            BY <3>1 DEF FInv, TypeOK, Puts
        <3>3. QED
            BY <1>1, <1>6, <3>1, <3>2 DEF FInv, PutOK
    <2>2. CASE v = w
        BY <1>1, <1>2, <1>3, <1>4, <2>2, PutFacts DEF FInv, PutOK, PutReturns, Idle, TypeOK
    <2>3. QED
        BY <2>1, <2>2
<1>13. QED
    BY <1>7, <1>8, <1>9, <1>10, <1>11, <1>12 DEF FInv

\* A rename or a removal of the fs driver changes the blob of its own path, for
\* which no Put is acknowledged and no other Put is alone.
LEMMA BlobFs ==
    ASSUME FInv, NEW w \in Writers, Rename(w) \/ deleteData(w), driver = "fs"
    PROVE  FInv'
<1> DEFINE f == put[w].file
<1>1. UNCHANGED <<driver, meta, get, acked, crashes>> /\ put[w].pc # "idle"
    BY DEF Rename, deleteData
<1>2. PutAt(w, "truncate") \/ PutReturns(w)
    BY DEF Rename, deleteData
<1>3. f \in Files /\ put[w].data \in Contents \cup {None}
    BY <1>1 DEF FInv, PutOK, TypeOK, Puts
<1>4. /\ blobs' \in [Digests \cup Files -> Contents \cup {None}]
      /\ \A g \in Files : g # f => blobs'[g] = blobs[g]
      /\ PutReturns(w) \/ blobs'[f] = put[w].data
    BY <1>3 DEF FInv, TypeOK, Rename, deleteData, BlobKey
<1>5. acked[f] = None
    BY <1>1, <1>3 DEF FInv, AckedQuiet, Putting
<1>6. TypeOK'
    BY <1>1, <1>2, <1>4, PutFacts DEF FInv, TypeOK
<1>7. BlobsTrue' /\ MetaNamesBlob' /\ \A r \in Readers : GetOK(r)'
    BY <1>1 DEF FInv, BlobsTrue, MetaNamesBlob, GetOK
<1>8. AckedIsReadable'
    BY <1>1, <1>4, <1>5 DEF FInv, AckedIsReadable, Readable, FsExists, Content
<1>9. AloneOK' /\ AckedQuiet'
    BY <1>1, <1>2, PutFrame
<1>10. ASSUME NEW v \in Writers PROVE PutOK(v)'
    <2>1. CASE v # w
        <3>1. put'[v] = put[v]
            BY <1>2, <2>1, PutFacts DEF FInv
        <3>2. put[v].pc # "idle" /\ put[v].alone => put[v].file # f
            BY <1>1, <2>1 DEF FInv, AloneOK
        <3>3. QED
            BY <1>1, <1>4, <3>1, <3>2 DEF FInv, PutOK
    <2>2. CASE v = w /\ put'[w] = Idle
        BY <2>2 DEF PutOK, Idle
    <2>3. CASE v = w /\ put'[w] # Idle
        <3>1. blobs'[f] = put[w].data
            BY <1>4, <2>3 DEF PutReturns, FInv, TypeOK
        <3>2. QED
            BY <1>1, <1>2, <1>3, <2>3, <3>1, PutFacts DEF FInv, PutOK
    <2>4. QED
        BY <2>2, <2>1, <2>3
<1>11. QED
    BY <1>6, <1>7, <1>8, <1>9, <1>10 DEF FInv

\* The metadata of a path for which a Put is under way is torn; nobody relies on it.
LEMMA MetaTruncated ==
    ASSUME FInv, NEW w \in Writers, Truncate(w)
    PROVE  FInv'
<1> DEFINE f == put[w].file
<1>1. UNCHANGED <<driver, blobs, get, acked, crashes>> /\ put[w].pc = "truncate"
    BY DEF Truncate
<1>2. PutAt(w, "write") \/ PutReturns(w)
    BY DEF Truncate
<1>3. f \in Files
    BY <1>1 DEF FInv, PutOK
<1>4. /\ meta' \in [Files -> Metas \cup {None, Torn}]
      /\ \A g \in Files : meta'[g] = meta[g] \/ (g = f /\ meta'[g] = Torn)
    BY <1>3 DEF Truncate, FInv, TypeOK
<1>5. acked[f] = None
    BY <1>1, <1>3 DEF FInv, AckedQuiet, Putting
<1>6. TypeOK'
    BY <1>1, <1>2, <1>4, PutFacts DEF FInv, TypeOK
<1>7. BlobsTrue' /\ MetaNamesBlob' /\ \A r \in Readers : GetOK(r)'
    BY <1>1, <1>4 DEF FInv, BlobsTrue, MetaNamesBlob, GetOK
<1>8. AckedIsReadable'
    BY <1>1, <1>4, <1>5 DEF FInv, AckedIsReadable, Readable, ExistPath, FsExists, Content
<1>9. AloneOK' /\ AckedQuiet'
    BY <1>1, <1>2, PutFrame
<1>10. ASSUME NEW v \in Writers PROVE PutOK(v)'
    <2>1. CASE v # w
        BY <1>1, <1>2, <2>1, PutFacts DEF FInv, PutOK
    <2>2. CASE v = w
        BY <1>1, <1>2, <2>2, PutFacts DEF FInv, PutOK, Idle
    <2>3. QED
        BY <2>1, <2>2
<1>11. QED
    BY <1>6, <1>7, <1>8, <1>9, <1>10 DEF FInv

\* The metadata is written when the blob it names is there; a Put that was alone
\* until then leaves the path to nobody.
LEMMA MetaWritten ==
    ASSUME FInv, NEW w \in Writers, WriteMeta(w)
    PROVE  FInv'
<1> DEFINE f == put[w].file
           c == put[w].data
<1>1. UNCHANGED <<driver, blobs, get, crashes>> /\ put[w].pc = "write" /\ PutReturns(w)
    BY DEF WriteMeta
<1>2. f \in Files /\ c \in Contents \cup {None}
    BY <1>1 DEF FInv, PutOK, TypeOK, Puts
<1>3. /\ put' \in [Writers -> Puts] /\ put'[w] = Idle
      /\ \A v \in Writers : v # w => put'[v] = put[v]
    BY <1>1 DEF FInv, TypeOK, PutReturns, Puts, Idle
<1>4. AloneOK' /\ (\A g \in Files : Putting(g)' \subseteq Putting(g)) /\ (acked' = acked => AckedQuiet')
    BY <1>1, PutFrame
<1>5. ASSUME NEW v \in Writers PROVE PutOK(v)'
    BY <1>1, <1>3 DEF FInv, PutOK, Idle
<1>6. BlobsTrue' /\ \A r \in Readers : GetOK(r)'
    BY <1>1 DEF FInv, BlobsTrue, GetOK
<1>7. CASE UNCHANGED <<meta, acked>>
    <2>1. TypeOK'
        BY <1>1, <1>3, <1>7 DEF FInv, TypeOK
    <2>2. MetaNamesBlob' /\ AckedIsReadable'
        BY <1>1, <1>7 DEF FInv, MetaNamesBlob, AckedIsReadable, Readable, ExistPath,
                          FsExists, Content
    <2>3. QED
        BY <1>4, <1>5, <1>6, <1>7, <2>1, <2>2 DEF FInv
<1>8. CASE /\ meta' = [meta EXCEPT ![f] = NewMeta(put[w])]
           /\ acked' = [acked EXCEPT ![f] = IF put[w].alone THEN c ELSE None]
    <2>1. NewMeta(put[w]) \in Metas /\ NewMeta(put[w]) \notin {None, Torn}
        BY <1>2, DigestFacts, MetaFacts DEF NewMeta
    <2>2. NewMeta(put[w]).digest = IF c = None THEN None ELSE Digest(c)
        BY DEF NewMeta
    <2>3. /\ meta' \in [Files -> Metas \cup {None, Torn}] /\ meta'[f] = NewMeta(put[w])
          /\ \A g \in Files : g # f => meta'[g] = meta[g]
        BY <1>2, <1>8, <2>1 DEF FInv, TypeOK
    <2>4. /\ acked' \in [Files -> Contents \cup {None}]
          /\ acked'[f] = IF put[w].alone THEN c ELSE None
          /\ \A g \in Files : g # f => acked'[g] = acked[g]
        BY <1>2, <1>8 DEF FInv, TypeOK
    <2>5. TypeOK'
        BY <1>1, <1>3, <2>3, <2>4 DEF FInv, TypeOK
    <2>6. driver = "cas" => c # None /\ blobs[Digest(c)] = c /\ Digest(c) \in Digests
        BY <1>1, <1>2, DigestFacts DEF FInv, PutOK
    <2>7. MetaNamesBlob'
        BY <1>1, <2>2, <2>3, <2>6 DEF FInv, MetaNamesBlob
    <2>8. AckedQuiet'
        <3> SUFFICES ASSUME NEW g \in Files, acked'[g] # None PROVE Putting(g)' = {}
            BY DEF AckedQuiet
        <3>1. CASE g = f
            <4>1. put[w].alone
                BY <2>4, <3>1
            <4>2. \A v \in Writers : put[v].pc # "idle" /\ put[v].file = f => v = w
                BY <1>1, <4>1 DEF FInv, AloneOK
            <4>3. QED
                BY <1>3, <3>1, <4>2 DEF Putting, Idle
        <3>2. CASE g # f
            BY <1>4, <2>4, <3>2 DEF FInv, AckedQuiet
        <3>3. QED
            BY <3>1, <3>2
    <2>9. AckedIsReadable'
        <3> SUFFICES ASSUME NEW g \in Files, acked'[g] # None
                     PROVE  /\ Readable(g)' /\ Content(g)' = acked'[g]
                            /\ meta'[g].digest = Digest(acked'[g])
            BY DEF AckedIsReadable
        <3>1. CASE g = f
            <4>1. put[w].alone /\ acked'[f] = c /\ c \in Contents /\ c # None
                BY <1>2, <2>4, <3>1
            <4>2. meta'[f].digest = Digest(c) /\ meta'[f] \notin {None, Torn}
                BY <2>1, <2>2, <2>3, <4>1
            <4>3. CASE driver = "cas"
                BY <1>1, <2>6, <3>1, <4>1, <4>2, <4>3, DigestFacts DEF Readable, ExistPath, Content
            <4>4. CASE driver = "fs"
                <5>1. blobs[f] = c
                    BY <1>1, <4>1, <4>4 DEF FInv, PutOK
                <5>2. QED
                    BY <1>1, <3>1, <4>1, <4>2, <4>4, <5>1 DEF Readable, FsExists, Content
            <4>5. QED
                BY <4>3, <4>4 DEF FInv, TypeOK
        <3>2. CASE g # f
            BY <1>1, <2>3, <2>4, <3>2 DEF FInv, AckedIsReadable, Readable, ExistPath, FsExists, Content
        <3>3. QED
            BY <3>1, <3>2
    <2>10. QED
        BY <1>4, <1>5, <1>6, <2>5, <2>7, <2>8, <2>9 DEF FInv
<1>9. QED
    BY <1>7, <1>8 DEF WriteMeta

\* A Get changes nothing but itself, and pairs data with the digest that names it.
LEMMA GetMoves ==
    ASSUME FInv, NEW r \in Readers, NEW f \in Files,
           \/ getMetaInfo(r, f) \/ FsGetMetainfo(r, f) \/ FsPackage(r, f)
           \/ getDatareader(r) \/ FsGet(r)
    PROVE  FInv'
<1>1. UNCHANGED <<driver, blobs, meta, put, acked, crashes>>
    BY DEF getMetaInfo, FsGetMetainfo, FsPackage, getDatareader, FsGet
<1>2. BlobsTrue' /\ MetaNamesBlob' /\ AckedIsReadable' /\ AloneOK' /\ AckedQuiet'
      /\ \A w \in Writers : PutOK(w)'
    BY <1>1 DEF FInv, BlobsTrue, MetaNamesBlob, AckedIsReadable, Readable, ExistPath,
                FsExists, Content, AloneOK, AckedQuiet, Putting, PutOK
<1>3. PICK g : /\ get' = [get EXCEPT ![r] = g] /\ g \in Gets
               /\ g.pc = "open" => g.file \in Files
               /\ driver = "cas" =>
                     /\ g.pc = "open" => g.digest \in Digests /\ blobs[g.digest] # None
                     /\ g.pc = "done" => g.digest = Digest(g.data)
    <2> DEFINE Fits(g) == /\ get' = [get EXCEPT ![r] = g] /\ g \in Gets
                          /\ g.pc = "open" => g.file \in Files
                          /\ driver = "cas" =>
                               /\ g.pc = "open" => g.digest \in Digests /\ blobs[g.digest] # None
                               /\ g.pc = "done" => g.digest = Digest(g.data)
    <2>1. get' = [get EXCEPT ![r] = NoGet] => Fits(NoGet)
        BY DEF Gets, NoGet
    <2>2. Opened(f).file = f /\ (meta[f] \in Metas => Opened(f) \in Gets)
        BY MetaFacts DEF Gets, Opened
    <2>3. CASE getMetaInfo(r, f)
        <3>1. CASE get' = [get EXCEPT ![r] = NoGet]
            BY <2>1, <3>1
        <3>2. CASE /\ get' = [get EXCEPT ![r] = Opened(f)] /\ meta[f] \notin {None, Torn}
                   /\ blobs[meta[f].digest] # None
            <4>1. Opened(f).pc = "open" /\ Opened(f).digest = meta[f].digest
                BY DEF Opened
            <4>2. driver = "cas" => meta[f].digest \in Digests
                BY <3>2 DEF FInv, MetaNamesBlob
            <4>3. Opened(f) \in Gets
                BY <2>2, <3>2 DEF FInv, TypeOK
            <4>4. Fits(Opened(f))
                BY <2>2, <3>2, <4>1, <4>2, <4>3
            <4>5. QED
                BY <4>4
        <3>3. QED
            BY <2>3, <3>1, <3>2 DEF getMetaInfo
    <2>4. CASE FsGetMetainfo(r, f)
        <3>1. driver # "cas"
            BY <2>4 DEF FsGetMetainfo
        <3>2. Opened(f) \in Gets \/ meta[f] \in {None, Torn}
            BY <2>2 DEF FInv, TypeOK
        <3>3. get' = [get EXCEPT ![r] = NoGet] \/ Fits(Opened(f))
            BY <2>2, <2>4, <3>1, <3>2 DEF FsGetMetainfo
        <3>4. QED
            BY <2>1, <3>3
    <2>5. CASE FsPackage(r, f)
        <3> DEFINE g == [pc |-> "done", file |-> f, digest |-> None, data |-> blobs[f]]
        <3>1. driver # "cas" /\ g \in Gets
            BY <2>5 DEF FsPackage, FInv, TypeOK, Gets
        <3>2. get' = [get EXCEPT ![r] = NoGet] \/ Fits(g)
            BY <2>5, <3>1 DEF FsPackage
        <3>3. QED
            BY <2>1, <3>2
    <2>6. ASSUME NEW x \in Contents \cup {None}, Open(r, x),
                 driver = "cas" => (x # None => get[r].digest = Digest(x))
          PROVE  \E g : Fits(g)
        <3> DEFINE g == [get[r] EXCEPT !.pc = "done", !.data = x]
        <3>1. g \in Gets /\ g.pc = "done" /\ g.data = x /\ g.digest = get[r].digest
            BY DEF FInv, TypeOK, Gets
        <3>2. CASE x = None
            BY <2>1, <2>6, <3>2 DEF Open
        <3>3. CASE x # None
            <4>1. get' = [get EXCEPT ![r] = g]
                BY <2>6, <3>3 DEF Open
            <4>2. Fits(g)
                BY <2>6, <3>1, <3>3, <4>1
            <4>3. QED
                BY <4>2
        <3>4. QED
            BY <3>2, <3>3
    <2>7. CASE getDatareader(r)
        <3>1. PICK c \in Contents : get[r].digest = Digest(c)
            BY <2>7, DigestFacts DEF getDatareader, FInv, GetOK
        <3>2. blobs[get[r].digest] \in {None, c}
            BY <2>7, <3>1 DEF getDatareader, FInv, BlobsTrue
        <3>3. QED
            BY <2>6, <2>7, <3>1, <3>2 DEF getDatareader
    <2>8. CASE FsGet(r)
        <3>1. driver # "cas" /\ Open(r, blobs[get[r].file])
            BY <2>8 DEF FsGet
        <3>2. get[r].file \in Files
            BY <2>8 DEF FsGet, FInv, GetOK
        <3>3. blobs[get[r].file] \in Contents \cup {None}
            BY <3>2 DEF FInv, TypeOK
        <3>4. QED
            BY <2>6, <3>1, <3>3
    <2>9. QED
        BY <2>3, <2>4, <2>5, <2>7, <2>8
<1>4. get'[r] = g /\ \A q \in Readers : q # r => get'[q] = get[q]
    BY <1>3 DEF FInv, TypeOK
<1>5. TypeOK'
    BY <1>1, <1>3 DEF FInv, TypeOK
<1>6. ASSUME NEW q \in Readers PROVE GetOK(q)'
    BY <1>1, <1>3, <1>4 DEF FInv, GetOK
<1>7. QED
    BY <1>2, <1>5, <1>6 DEF FInv

\* A restart keeps the files and forgets who was at work on them.
LEMMA CrashInv == ASSUME FInv, Crash PROVE FInv'
<1>1. /\ UNCHANGED <<driver, blobs, meta, acked>>
      /\ put' = [w \in Writers |-> Idle] /\ get' = [r \in Readers |-> NoGet]
    BY DEF Crash
<1>2. TypeOK'
    BY <1>1, FileDBAssumption DEF Crash, FInv, TypeOK, Idle, NoGet, Puts, Gets
<1>3. BlobsTrue' /\ MetaNamesBlob' /\ AckedIsReadable'
    BY <1>1 DEF FInv, BlobsTrue, MetaNamesBlob, AckedIsReadable, Readable, ExistPath,
                FsExists, Content
<1>4. AloneOK' /\ AckedQuiet' /\ \A w \in Writers : PutOK(w)'
    BY <1>1 DEF AloneOK, AckedQuiet, Putting, PutOK, Idle
<1>5. \A r \in Readers : GetOK(r)'
    BY <1>1 DEF GetOK, NoGet
<1>6. QED
    BY <1>2, <1>3, <1>4, <1>5 DEF FInv

\* Every step of the file database keeps the invariant.
LEMMA StepInv == FInv /\ [Next]_vars => FInv'
<1> SUFFICES ASSUME FInv, [Next]_vars PROVE FInv'
    OBVIOUS
<1>1. ASSUME NEW w \in Writers, NEW f \in Files, NEW c \in Contents \cup {None},
             StoreRawFile(w, f, c)
      PROVE  FInv'
    BY <1>1, PutStarts
<1>2. ASSUME NEW w \in Writers, CopyData(w) \/ storageData(w) \/ Exist(w)
      PROVE  FInv'
    BY <1>2, PutMoves
<1>3. ASSUME NEW w \in Writers, Rename(w) PROVE FInv'
    BY <1>3, RenameCas, BlobFs DEF FInv, TypeOK
<1>4. ASSUME NEW w \in Writers, deleteData(w) PROVE FInv'
    <2>1. driver = "fs"
        BY <1>4 DEF deleteData, FInv, PutOK
    <2>2. QED
        BY <1>4, <2>1, BlobFs
<1>5. ASSUME NEW w \in Writers, Truncate(w) \/ WriteMeta(w) PROVE FInv'
    BY <1>5, MetaTruncated, MetaWritten
<1>6. ASSUME NEW r \in Readers, NEW f \in Files,
             getMetaInfo(r, f) \/ FsGetMetainfo(r, f) \/ FsPackage(r, f)
      PROVE  FInv'
    BY <1>6, GetMoves
<1>7. ASSUME NEW r \in Readers, getDatareader(r) \/ FsGet(r)
      PROVE  FInv'
    <2>1. get[r].file \in Files
        BY <1>7 DEF getDatareader, FsGet, FInv, GetOK
    <2>2. QED
        BY <1>7, <2>1, GetMoves
<1>8. CASE Crash
    BY <1>8, CrashInv
<1>9. CASE UNCHANGED vars
    BY <1>9 DEF vars, FInv, TypeOK, BlobsTrue, MetaNamesBlob, PutOK, AloneOK, GetOK,
                AckedQuiet, Putting, AckedIsReadable, Readable, ExistPath, FsExists, Content
<1>10. QED
    BY <1>1, <1>2, <1>3, <1>4, <1>5, <1>6, <1>7, <1>8, <1>9 DEF Next

-----------------------------------------------------------------------------
(* The invariants of the run.                                              *)

\* The inductive invariant holds in every state the file database reaches.
THEOREM FileInvariant == Spec => []FInv
<1>1. Init => FInv
    BY InitInv
<1>2. FInv /\ [Next]_vars => FInv'
    BY StepInv
<1>3. QED
    BY <1>1, <1>2, PTL DEF Spec

\* Every variable keeps its type.
THEOREM TypeCorrect == Spec => []TypeOK
<1>1. FInv => TypeOK
    BY DEF FInv
<1>2. QED
    BY <1>1, FileInvariant, PTL

\* A Put that was acknowledged stays readable, with its digest, until the next
\* Put of its path starts: for both drivers, any number of goroutines, failures
\* of any system call and restarts at any moment.
THEOREM AckedStaysReadable == Spec => []AckedIsReadable
<1>1. FInv => AckedIsReadable
    BY DEF FInv
<1>2. QED
    BY <1>1, FileInvariant, PTL

\* A Get of the cas driver never pairs data with the digest of other data.
THEOREM DigestAndDataAgree == Spec => []DigestDescribesData
<1>1. FInv => DigestDescribesData
    BY DEF FInv, GetOK, DigestDescribesData
<1>2. QED
    BY <1>1, FileInvariant, PTL

-----------------------------------------------------------------------------
(* The cas driver implements Store.                                        *)

\* A blob of the cas driver is never changed.
Grows == /\ driver' = driver
         /\ driver = "cas" => \A x \in Digests : blobs[x] # None => blobs'[x] = blobs[x]

\* cas: a path whose metadata parses is a cell with the content it names.
LEMMA CellFacts ==
    ASSUME FInv, driver = "cas", NEW f \in Files
    PROVE  /\ meta[f] \in {None, Torn} => Cell(f) = None
           /\ meta[f] \notin {None, Torn} =>
                 /\ Cell(f) \in Contents /\ Cell(f) # None
                 /\ meta[f].digest = Digest(Cell(f)) /\ blobs[meta[f].digest] = Cell(f)
<1>1. CASE meta[f] \in {None, Torn}
    BY <1>1 DEF Cell, Readable, ExistPath
<1>2. CASE meta[f] \notin {None, Torn}
    <2>1. meta[f].digest \in Digests /\ blobs[meta[f].digest] # None
        BY <1>2 DEF FInv, MetaNamesBlob
    <2>2. PICK c \in Contents : meta[f].digest = Digest(c)
        BY <2>1, DigestFacts
    <2>3. blobs[meta[f].digest] = c /\ c # None
        BY <2>1, <2>2 DEF FInv, BlobsTrue
    <2>4. Cell(f) = c
        BY <1>2, <2>1, <2>3, FileDBValues DEF Cell, Readable, ExistPath, Content
    <2>5. QED
        BY <1>2, <2>2, <2>3, <2>4
<1>3. QED
    BY <1>1, <1>2

\* A path whose metadata a step leaves is the cell it was.
LEMMA CellKept ==
    ASSUME FInv, FInv', Grows, NEW f \in Files, meta'[f] = meta[f]
    PROVE  Cell(f)' = Cell(f)
<1>1. CASE driver = "cas"
    <2>1. CASE meta[f] \in {None, Torn}
        BY <1>1, <2>1 DEF Grows, Cell, Readable, ExistPath
    <2>2. CASE meta[f] \notin {None, Torn}
        <3>1. meta[f].digest \in Digests /\ blobs[meta[f].digest] # None
            BY <1>1, <2>2 DEF FInv, MetaNamesBlob
        <3>2. blobs'[meta[f].digest] = blobs[meta[f].digest]
            BY <1>1, <3>1 DEF Grows
        <3>3. QED
            BY <1>1, <3>2 DEF Grows, Cell, Readable, ExistPath, Content
    <2>3. QED
        BY <2>1, <2>2
<1>2. CASE driver # "cas"
    BY <1>2 DEF Grows, Cell
<1>3. QED
    BY <1>1, <1>2

\* A Get that a step leaves will still return what it would have returned.
LEMMA SeenKept ==
    ASSUME FInv, Grows, NEW r \in Readers, get'[r] = get[r], driver = "cas"
    PROVE  Seen(r)' = Seen(r)
<1>1. CASE get[r].pc = "open"
    <2>1. get[r].digest \in Digests /\ blobs[get[r].digest] # None
        BY <1>1 DEF FInv, GetOK
    <2>2. blobs'[get[r].digest] = blobs[get[r].digest]
        BY <2>1 DEF Grows
    <2>3. QED
        BY <1>1, <2>2 DEF Seen
<1>2. CASE get[r].pc # "open"
    BY <1>2 DEF Seen
<1>3. QED
    BY <1>1, <1>2

\* The blobs of the cas driver only grow.
LEMMA BlobsGrow == ASSUME FInv, FInv', [Next]_vars PROVE Grows
<1>1. driver' = driver
    BY DEF Next, vars, StoreRawFile, CopyData, storageData, Exist, Rename, deleteData,
           Truncate, WriteMeta, getMetaInfo, FsGetMetainfo, FsPackage, getDatareader,
           FsGet, Crash
<1>2. ASSUME driver = "cas", NEW x \in Digests, blobs[x] # None
      PROVE  blobs'[x] = blobs[x]
    <2>1. CASE UNCHANGED blobs
        BY <2>1
    <2>2. CASE \E w \in Writers : deleteData(w)
        BY <1>2, <2>2 DEF deleteData, FInv, PutOK
    <2>3. CASE \E w \in Writers : Rename(w)
        <3>1. PICK w \in Writers : Rename(w)
            BY <2>3
        <3>2. PICK c \in Contents : x = Digest(c)
            BY DigestFacts
        <3>3. blobs[x] = c /\ blobs'[x] \in {None, c}
            BY <1>1, <1>2, <3>2 DEF FInv, BlobsTrue
        <3>4. put[w].data # None
            BY <3>1 DEF Rename, FInv, PutOK
        <3>5. blobs'[x] # None
            BY <1>2, <3>1, <3>4 DEF Rename, FInv, TypeOK, BlobKey
        <3>6. QED
            BY <3>3, <3>5
    <2>4. QED
        BY <2>1, <2>2, <2>3
           DEF Next, vars, StoreRawFile, CopyData, storageData, Exist, Truncate, WriteMeta,
               getMetaInfo, FsGetMetainfo, FsPackage, getDatareader, FsGet, Crash
<1>3. QED
    BY <1>1, <1>2 DEF Grows

\* A step that leaves metadata and Gets is no step of the store.
LEMMA StoreStutters ==
    ASSUME FInv, FInv', Grows, meta' = meta,
           driver = "cas" => \A r \in Readers : Seen(r)' = Seen(r)
    PROVE  UNCHANGED Abstract!vars
<1>1. \A f \in Files : Cell(f)' = Cell(f)
    BY CellKept
<1>2. [f \in Files |-> Cell(f)]' = [f \in Files |-> Cell(f)]
    BY <1>1
<1>3. [r \in Readers |-> IF driver = "cas" THEN Seen(r) ELSE None]'
        = [r \in Readers |-> IF driver = "cas" THEN Seen(r) ELSE None]
    BY DEF Grows
<1>4. QED
    BY <1>2, <1>3 DEF Abstract!vars

\* The write of the metadata is the Put of the store, its truncation the loss of
\* the file, and both leave what a Get has found.
LEMMA MetaIsCell ==
    ASSUME FInv, FInv', Grows, driver = "cas", NEW w \in Writers, Truncate(w) \/ WriteMeta(w)
    PROVE  [Abstract!Next]_(Abstract!vars)
<1> DEFINE Val == [g \in Files |-> Cell(g)]
           Sn == [r \in Readers |-> IF driver = "cas" THEN Seen(r) ELSE None]
<1>1. PICK f \in Files : f = put[w].file
    BY DEF Truncate, WriteMeta, FInv, PutOK
<1>2. get' = get
    BY DEF Truncate, WriteMeta
<1>3. \A r \in Readers : Seen(r)' = Seen(r)
    BY <1>2, SeenKept
<1>4. Sn' = Sn
    BY <1>3 DEF Grows
<1>5. CASE meta' = meta
    BY <1>3, <1>5, StoreStutters
<1>6. ASSUME meta' # meta PROVE \A g \in Files : g # f => meta'[g] = meta[g]
    BY <1>1, <1>6 DEF Truncate, WriteMeta, FInv, TypeOK
<1>7. ASSUME meta' # meta PROVE Val' = [Val EXCEPT ![f] = Cell(f)']
    <2>1. \A g \in Files : g # f => Cell(g)' = Cell(g)
        BY <1>6, <1>7, CellKept
    <2>2. QED
        BY <1>1, <2>1
<1>8. CASE Truncate(w) /\ meta' # meta
    <2>1. meta'[f] = Torn
        BY <1>1, <1>8 DEF Truncate, FInv, TypeOK
    <2>2. Cell(f)' = None
        BY <2>1 DEF Cell, Readable, ExistPath, Grows
    <2>3. Abstract!Lose(f)
        BY <1>4, <1>7, <1>8, <2>2 DEF Abstract!Lose
    <2>4. QED
        BY <1>1, <2>3 DEF Abstract!Next
<1>9. CASE WriteMeta(w) /\ meta' # meta
    <2>1. meta'[f] = NewMeta(put[w])
        BY <1>1, <1>9 DEF WriteMeta, FInv, TypeOK
    <2>2. NewMeta(put[w]) \notin {None, Torn}
        BY <1>9, DigestFacts, MetaFacts DEF NewMeta, FInv, TypeOK, Puts
    <2>3. driver' = "cas"
        BY DEF Grows
    <2>4. Cell(f)' \in Contents
        <3>1. meta'[f].digest \in Digests /\ blobs'[meta'[f].digest] # None
            BY <1>1, <2>1, <2>2, <2>3 DEF FInv, MetaNamesBlob
        <3>2. blobs'[meta'[f].digest] \in Contents
            BY <3>1 DEF FInv, TypeOK
        <3>3. QED
            BY <2>1, <2>2, <2>3, <3>1, <3>2, FileDBValues DEF Cell, Readable, ExistPath, Content
    <2>5. Abstract!Put(f, Cell(f)')
        BY <1>4, <1>7, <1>9 DEF Abstract!Put
    <2>6. QED
        BY <1>1, <2>4, <2>5 DEF Abstract!Next
<1>10. QED
    BY <1>5, <1>8, <1>9

\* A Get of the store happens when the metadata is read: the blob it names is
\* there, and will be when it is opened.
LEMMA GetIsAtomic ==
    ASSUME FInv, FInv', Grows, NEW r \in Readers, NEW f \in Files, getMetaInfo(r, f)
    PROVE  [Abstract!Next]_(Abstract!vars)
<1> DEFINE Val == [g \in Files |-> Cell(g)]
           Sn == [q \in Readers |-> IF driver = "cas" THEN Seen(q) ELSE None]
<1>1. UNCHANGED <<driver, blobs, meta>> /\ driver = "cas"
    BY DEF getMetaInfo
<1>2. Val' = Val
    BY <1>1, CellKept
<1>3. \A q \in Readers : q # r => Seen(q)' = Seen(q)
    BY <1>1, SeenKept DEF getMetaInfo, FInv, TypeOK
<1>4. Seen(r)' = Abstract!Answer(f)
    <2>1. Val[f] = Cell(f)
        OBVIOUS
    <2>2. CASE meta[f] \in {None, Torn}
        <3>1. Cell(f) = None /\ get'[r] = NoGet
            BY <1>1, <2>2, CellFacts DEF getMetaInfo, FInv, TypeOK
        <3>2. QED
            BY <2>1, <3>1 DEF Seen, Abstract!Answer, NoGet
    <2>3. CASE meta[f] \notin {None, Torn}
        <3>1. /\ Cell(f) \in Contents /\ Cell(f) # None
              /\ meta[f].digest = Digest(Cell(f)) /\ blobs[meta[f].digest] = Cell(f)
            BY <1>1, <2>3, CellFacts
        <3>2. get'[r] = Opened(f)
            BY <2>3, <3>1 DEF getMetaInfo, FInv, TypeOK
        <3>3. Seen(r)' = [file |-> f, digest |-> Digest(Cell(f)), data |-> Cell(f)]
            BY <1>1, <3>1, <3>2 DEF Seen, Opened
        <3>4. QED
            BY <2>1, <3>1, <3>3 DEF Abstract!Answer
    <2>4. QED
        BY <2>2, <2>3
<1>5. Sn' = [Sn EXCEPT ![r] = Abstract!Answer(f)]
    BY <1>1, <1>3, <1>4
<1>6. Abstract!Get(r, f)
    BY <1>2, <1>5 DEF Abstract!Get
<1>7. QED
    BY <1>6 DEF Abstract!Next

\* Every step of the file database is a step of the store, or none.
LEMMA StepRefines ==
    ASSUME FInv, FInv', [Next]_vars
    PROVE  [Abstract!Next]_(Abstract!vars)
<1>1. Grows
    BY BlobsGrow
<1>2. CASE driver = "fs"
    <2>1. \A f \in Files : Cell(f)' = None /\ Cell(f) = None
        BY <1>1, <1>2 DEF Grows, Cell
    <2>2. [f \in Files |-> Cell(f)]' = [f \in Files |-> Cell(f)]
        BY <2>1
    <2>3. [r \in Readers |-> IF driver = "cas" THEN Seen(r) ELSE None]'
            = [r \in Readers |-> IF driver = "cas" THEN Seen(r) ELSE None]
        BY <1>1, <1>2 DEF Grows
    <2>4. QED
        BY <2>2, <2>3 DEF Abstract!vars
<1>3. CASE driver = "cas" /\ meta' = meta /\ get' = get
    BY <1>1, <1>3, SeenKept, StoreStutters
<1>4. CASE driver = "cas" /\ \E w \in Writers : Truncate(w) \/ WriteMeta(w)
    BY <1>1, <1>4, MetaIsCell
<1>5. CASE \E r \in Readers, f \in Files : getMetaInfo(r, f)
    BY <1>1, <1>5, GetIsAtomic
<1>6. CASE \E r \in Readers : getDatareader(r)
    <2>1. PICK r \in Readers : getDatareader(r)
        BY <1>6
    <2>2. driver = "cas" /\ UNCHANGED <<driver, blobs, meta>> /\ get[r].pc = "open"
        BY <2>1 DEF getDatareader
    <2>3. blobs[get[r].digest] # None
        BY <2>2 DEF FInv, GetOK
    <2>4. /\ get'[r].pc = "done" /\ get'[r].file = get[r].file
          /\ get'[r].digest = get[r].digest /\ get'[r].data = blobs[get[r].digest]
          /\ \A q \in Readers : q # r => get'[q] = get[q]
        BY <2>1, <2>3 DEF getDatareader, Open, FInv, TypeOK, Gets
    <2>5. Seen(r)' = Seen(r)
        BY <2>2, <2>4 DEF Seen
    <2>6. \A q \in Readers : Seen(q)' = Seen(q)
        BY <1>1, <2>2, <2>4, <2>5, SeenKept
    <2>7. QED
        BY <1>1, <2>2, <2>6, StoreStutters
<1>7. CASE driver = "cas" /\ Crash
    <2>1. [f \in Files |-> Cell(f)]' = [f \in Files |-> Cell(f)]
        BY <1>1, <1>7, CellKept DEF Crash
    <2>2. [r \in Readers |-> IF driver = "cas" THEN Seen(r) ELSE None]' = [r \in Readers |-> None]
        BY <1>7 DEF Crash, Seen, NoGet
    <2>3. Abstract!Forget
        BY <2>1, <2>2 DEF Abstract!Forget
    <2>4. QED
        BY <2>3 DEF Abstract!Next
<1>8. QED
    <2>1. \/ driver = "fs"
          \/ driver = "cas" /\ meta' = meta /\ get' = get
          \/ \E w \in Writers : Truncate(w) \/ WriteMeta(w)
          \/ \E r \in Readers, f \in Files : getMetaInfo(r, f)
          \/ \E r \in Readers : getDatareader(r)
          \/ Crash
        <3>1. driver = "fs" \/ driver = "cas"
            BY DEF FInv, TypeOK
        <3>2. ASSUME NEW w \in Writers,
                     \/ \E f \in Files, c \in Contents \cup {None} : StoreRawFile(w, f, c)
                     \/ CopyData(w) \/ Exist(w) \/ storageData(w) \/ deleteData(w) \/ Rename(w)
              PROVE  meta' = meta /\ get' = get
            BY <3>2 DEF StoreRawFile, CopyData, storageData, Exist, Rename, deleteData
        <3>3. ASSUME NEW r \in Readers, NEW f \in Files,
                     FsGetMetainfo(r, f) \/ FsPackage(r, f)
              PROVE  driver = "fs"
            BY <3>3 DEF FsGetMetainfo, FsPackage
        <3>4. ASSUME NEW r \in Readers, FsGet(r) PROVE driver = "fs"
            BY <3>4 DEF FsGet
        <3>5. CASE UNCHANGED vars
            BY <3>1, <3>5 DEF vars
        <3>6. CASE \E w \in Writers :
                      \/ \E f \in Files, c \in Contents \cup {None} : StoreRawFile(w, f, c)
                      \/ CopyData(w) \/ Exist(w) \/ storageData(w) \/ deleteData(w) \/ Rename(w)
                      \/ Truncate(w) \/ WriteMeta(w)
            BY <3>1, <3>2, <3>6
        <3>7. CASE \E r \in Readers :
                      \/ getDatareader(r) \/ FsGet(r)
                      \/ \E f \in Files : getMetaInfo(r, f) \/ FsGetMetainfo(r, f) \/ FsPackage(r, f)
            BY <3>3, <3>4, <3>7
        <3>8. QED
            BY <3>5, <3>6, <3>7 DEF Next
    <2>2. driver = "fs" \/ driver = "cas"
        BY DEF FInv, TypeOK
    <2>3. QED
        BY <1>2, <1>3, <1>4, <1>5, <1>6, <1>7, <2>1, <2>2

\* The cas driver implements Store: for its users a file is a single cell, though
\* Puts and Gets of it interleave at every system call, fail and are cut short.
THEOREM CasRefinesStore == Spec => CasImplementsStore
<1>1. Init => Abstract!Init
    <2> SUFFICES ASSUME Init PROVE Abstract!Init
        OBVIOUS
    <2>1. [f \in Files |-> Cell(f)] = [f \in Files |-> None]
        BY DEF Init, Cell, Readable, ExistPath
    <2>2. [r \in Readers |-> IF driver = "cas" THEN Seen(r) ELSE None] = [r \in Readers |-> None]
        BY DEF Init, Seen, NoGet
    <2>3. QED
        BY <2>1, <2>2 DEF Abstract!Init
<1>2. FInv /\ FInv' /\ [Next]_vars => [Abstract!Next]_(Abstract!vars)
    BY StepRefines
<1>3. QED
    BY <1>1, <1>2, FileInvariant, PTL DEF Spec, CasImplementsStore, Abstract!Spec
==============================================================================
