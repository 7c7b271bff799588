------------------------ MODULE ConfigServer_proofs ------------------------
(***************************************************************************)
(* Proofs about ConfigServer for any number of workers, configs, names and *)
(* contents: type correctness, and the inductive invariant from which      *)
(* ReleaseHistory, VersionHistory, References, VersionStored and           *)
(* DetailsReadable follow; then, for requests that do not overlap and no   *)
(* imports, LatestIsNewest, RollbackTarget, StatusAccurate and, while no   *)
(* name is reused, HistoryTrue.                                            *)
(***************************************************************************)
EXTENDS History, TLAPS

-----------------------------------------------------------------------------
(* The inductive invariant.                                                *)

TxSet == [ns : BOOLEAN, ver : SUBSET Versions, rel : SUBSET Releases,
          cur : SUBSET CurrentWrites, inf : SUBSET Entities]

\* A configCurrent value of config i points into V and R.
PointersIn(c, i, V, R) ==
    /\ c.ver # Null => c.ver \in V /\ c.ver.id = i
    /\ c.rel # Null => c.rel \in R /\ c.rel.id = i
    /\ c.pre # Null => c.pre \in R /\ c.pre.id = i /\ c.rel # Null

\* A committed version precedes v, a committed release precedes r.
HasPreviousVersion(v) ==
    v.num > 1 => \E u \in versions : u.id = v.id /\ u.num = v.num - 1

HasPreviousRelease(r) ==
    r.num > 1 => \E q \in releases : /\ q.id = r.id
                                     /\ q.num = r.num - 1
                                     /\ q.ver # r.ver

\* The committed rows refer to one another correctly.
RowsOK ==
    /\ \A v \in versions : Exists(v.id) /\ store[Path(v)] # Null
    /\ \A i \in IDs : /\ PointersIn(current[i], i, versions, releases)
                      /\ Exists(i) => current[i].ver # Null
    /\ \A r \in releases : r.ver \in versions /\ r.ver.id = r.id

\* The writes t of an open transaction can be committed at any time.
WritesOK(t) ==
    /\ \A v \in t.ver : /\ Exists(v.id) \/ \E e \in t.inf : e.id = v.id
                        /\ HasPreviousVersion(v)
                        /\ ~VersionExists(v)
                        /\ \A u \in t.ver : u = v
    /\ \A r \in t.rel : /\ r.ver \in versions /\ r.ver.id = r.id
                        /\ HasPreviousRelease(r)
                        /\ \A q \in releases : ~SameRelease(q, r)
                        /\ \A q \in t.rel : SameRelease(q, r) => q = r
    /\ \A c \in t.cur : PointersIn(c.val, c.id, versions \cup t.ver,
                                   releases \cup t.rel)

\* Row locks keep the writes of two open transactions apart.
Disjoint(t, u) ==
    /\ \A a \in t.ver, b \in u.ver : ~SameVersion(a, b)
    /\ \A a \in t.rel, b \in u.rel : ~SameRelease(a, b)
    /\ \A a \in t.inf, b \in u.inf : a.id # b.id

(* What the variables of a handler hold at each statement.                 *)

\* The configInfo variable is a row, or one the transaction inserts.
EntityOK(w) ==
    /\ pc[w] \in {"edit", "updRead", "updStore", "updInsert", "updInfo",
                  "updCurrent", "relRead", "relInsert", "relCurrent",
                  "relInfo", "rbkRead", "rbkInsert", "rbkStore",
                  "rbkCurrent", "rbkInfo"}
         => ent[w] # Null /\ Exists(ent[w].id)
    /\ pc[w] \in {"addStore", "addVersion"}
         => ent[w] # Null /\ ~Exists(ent[w].id) /\ ent[w] \in wr[w].inf
    /\ pc[w] \in {"impLoad", "impStore", "impInsert", "impInfo", "impCurrent"}
         => /\ ent[w] # Null
            /\ Exists(ent[w].id) \/ \E e \in wr[w].inf : e.id = ent[w].id
    /\ \A e \in todo[w] : Exists(e.id)
    /\ \A e \in wr[w].inf :
          \/ Exists(e.id)
          \/ /\ pc[w] \in {"addStore", "addVersion", "impLoad", "impStore",
                           "impInsert", "impInfo", "impCurrent"}
             /\ ent[w] # Null /\ e.id = ent[w].id

\* The new version row continues the numbering that was read.
RowOK(w) ==
    /\ pc[w] \in {"addStore", "addVersion", "impLoad", "impStore", "impInsert"}
         => row[w] # Null /\ row[w].id = ent[w].id /\ row[w].num = 1
    /\ pc[w] \in {"updStore", "updInsert", "rbkInsert"}
         => /\ row[w] # Null /\ row[w].id = ent[w].id
            /\ cur[w].ver # Null /\ row[w].num = cur[w].ver.num + 1
    /\ pc[w] \in {"rbkStore", "rbkCurrent", "impInfo", "impCurrent"}
         => row[w] \in wr[w].ver /\ row[w].id = ent[w].id
    /\ pc[w] \notin {"relRead", "relInsert", "relCurrent", "relInfo", "pack",
                     "notify", "rbkInfo"}
         => wr[w].cur = {}

\* The configCurrent variable may be stale, but points to committed rows, or
\* to rows of the transaction itself.
CurrentOK(w) ==
    /\ pc[w] \in {"updStore", "updInsert", "relInsert", "rbkInsert",
                  "rbkStore", "rbkCurrent", "impStore", "impInsert",
                  "impInfo", "impCurrent"}
         => PointersIn(cur[w], ent[w].id, versions, releases)
    /\ pc[w] \in {"updInfo", "updCurrent", "relCurrent"}
         => PointersIn(cur[w], ent[w].id, versions \cup wr[w].ver,
                       releases \cup wr[w].rel)
    /\ pc[w] = "relInsert" => /\ cur[w].ver # Null /\ row[w] = cur[w].ver
                              /\ ReleaseNum(cur[w].rel) < MaxRelease
                              /\ HasUpdates(cur[w])

\* The file of a version is stored by the time the transaction can commit.
FilesOK(w) ==
    /\ pc[w] \in {"updRead", "addStore", "updStore", "rbkInsert", "rbkStore",
                  "impLoad", "impStore"}
         => data[w] # Null
    /\ pc[w] \in {"addVersion", "updInsert", "impInsert"}
         => store[Path(row[w])] # Null
    /\ \A v \in wr[w].ver : pc[w] = "rbkStore" \/ store[Path(v)] # Null

Local(w) == EntityOK(w) /\ RowOK(w) /\ CurrentOK(w) /\ FilesOK(w)

IInv ==
    /\ TypeOK
    /\ ReleaseHistory
    /\ VersionHistory
    /\ RowsOK
    /\ \A w \in Workers : WritesOK(wr[w]) /\ Local(w)
    /\ \A w, o \in Workers : w # o => Disjoint(wr[w], wr[o])

-----------------------------------------------------------------------------
(* Type correctness.                                                       *)

\* The row chosen by its id is a row of the set and has that id.
LEMMA PickID == ASSUME NEW S, NEW i, \E e \in S : e.id = i
                PROVE  /\ (CHOOSE e \in S : e.id = i) \in S
                       /\ (CHOOSE e \in S : e.id = i).id = i
  BY Zenon

\* The empty database, file store and idle workers are typed.
LEMMA TypeInit == Init => TypeOK
  <1> SUFFICES ASSUME Init PROVE TypeOK
    OBVIOUS
  <1>1. info \in [IDs -> Infos]
    BY DEF Init, Infos, Status
  <1>2. current \in [IDs -> Currents] /\ cur \in [Workers -> Currents]
    BY DEF Init, Currents, NoCurrent
  <1>3. wr \in [Workers -> TxSet]
    BY DEF Init, NoWrites, TxSet
  <1>4. store \in [Names \X (1 .. MaxVersion) -> Data \cup {Null}]
    BY DEF Init
  <1>5. pc \in [Workers -> Steps]
    BY DEF Init, Steps
  <1> QED BY <1>1, <1>2, <1>3, <1>4, <1>5 DEF Init, TypeOK, TxSet

\* The end of a request keeps the types: the worker becomes idle.
LEMMA TypeReturn == ASSUME TypeOK, NEW w \in Workers, Return(w)
                    PROVE  /\ pc' \in [Workers -> Steps]
                           /\ ent' \in [Workers -> Entities \cup {Null}]
                           /\ todo' \in [Workers -> SUBSET Entities]
                           /\ cur' \in [Workers -> Currents]
                           /\ row' \in [Workers -> Versions \cup {Null}]
                           /\ data' \in [Workers -> Data \cup {Null}]
                           /\ wr' \in [Workers -> TxSet]
  BY DEF Return, Goto, TypeOK, Steps, Currents, NoCurrent, NoWrites, TxSet

\* A commit keeps the types: it adds the rows of a typed transaction.
LEMMA TypeCommit == ASSUME TypeOK, NEW w \in Workers, NEW t \in TxSet,
                           Commit(w, t), UNCHANGED files
                    PROVE  TypeOK'
  <1>1. info' \in [IDs -> Infos]
    <2>1. ASSUME NEW i \in IDs, \E e \in t.inf : e.id = i
          PROVE  (CHOOSE e \in t.inf : e.id = i) \in Entities
      BY <2>1, PickID DEF TxSet
    <2> QED BY <2>1 DEF Commit, TypeOK, Infos, Entities
  <1>2. current' \in [IDs -> Currents]
    <2>1. ASSUME NEW i \in IDs, \E c \in t.cur : c.id = i
          PROVE  (CHOOSE c \in t.cur : c.id = i) \in CurrentWrites
      BY <2>1, PickID DEF TxSet
    <2>2. ASSUME NEW a \in Currents, NEW b \in Currents
          PROVE  UpdateConfigCurrent(a, b) \in Currents
      BY DEF UpdateConfigCurrent, Currents
    <2> QED BY <2>1, <2>2 DEF Commit, TypeOK, CurrentWrites
  <1>3. Return(w)
    BY DEF Commit
  <1>4. nsRow' \in BOOLEAN /\ versions' \subseteq Versions
        /\ releases' \subseteq Releases
    BY DEF Commit, TypeOK, TxSet
  <1> QED BY <1>1, <1>2, <1>3, <1>4, TypeReturn DEF TypeOK, files, TxSet

-----------------------------------------------------------------------------
(* Steps that commit nothing.                                              *)

\* A step of w leaves the variables of the other workers alone.
OnlyWorker(w) ==
    \A o \in Workers : o # w =>
        /\ pc'[o] = pc[o] /\ ent'[o] = ent[o] /\ todo'[o] = todo[o]
        /\ cur'[o] = cur[o] /\ row'[o] = row[o] /\ data'[o] = data[o]
        /\ wr'[o] = wr[o]

\* The tables the invariant is about.
tables == <<info, current, versions, releases>>

\* No file disappears.
StoreGrows == \A p \in Names \X (1 .. MaxVersion) :
                 store[p] # Null => store'[p] # Null

\* Every version of a typed set has a path of the file database.
LEMMA PathType == ASSUME NEW v \in Versions
                  PROVE  Path(v) \in Names \X (1 .. MaxVersion)
  BY DEF Versions, Path

\* A step of w that commits nothing preserves the invariant when it does so
\* for w itself.
LEMMA Frame ==
    ASSUME IInv, NEW w \in Workers, UNCHANGED tables, OnlyWorker(w),
           StoreGrows, TypeOK', WritesOK(wr[w])', Local(w)',
           \A o \in Workers : o # w => Disjoint(wr'[w], wr[o])
                                       /\ Disjoint(wr[o], wr'[w])
    PROVE  IInv'
  <1>1. ReleaseHistory' /\ VersionHistory'
    BY DEF IInv, tables, ReleaseHistory, VersionHistory
  <1>2. RowsOK'
    BY PathType DEF IInv, TypeOK, tables, RowsOK, StoreGrows, Exists, PointersIn
  <1>3. ASSUME NEW o \in Workers, o # w
        PROVE  WritesOK(wr[o])'
    BY <1>3 DEF IInv, tables, OnlyWorker, WritesOK, PointersIn, Exists,
                HasPreviousVersion, HasPreviousRelease, VersionExists
  <1>4. ASSUME NEW o \in Workers, o # w
        PROVE  Local(o)'
    <2>1. Local(o) /\ wr[o].ver \subseteq Versions /\ row[o] \in Versions \cup {Null}
      BY DEF IInv, TypeOK
    <2>2. \A v \in wr[o].ver : store[Path(v)] # Null => store'[Path(v)] # Null
      BY <2>1, PathType DEF StoreGrows
    <2>3. row[o] # Null /\ store[Path(row[o])] # Null => store'[Path(row[o])] # Null
      BY <2>1, PathType DEF StoreGrows
    <2>4. EntityOK(o)'
      BY <1>4, <2>1 DEF OnlyWorker, tables, Local, EntityOK, Exists
    <2>5. RowOK(o)'
      BY <1>4, <2>1 DEF OnlyWorker, Local, RowOK
    <2>6. CurrentOK(o)'
      BY <1>4, <2>1 DEF OnlyWorker, tables, Local, CurrentOK, PointersIn
    <2>7. FilesOK(o)'
      BY <1>4, <2>1, <2>2, <2>3
         DEF OnlyWorker, Local, FilesOK, RowOK, EntityOK, Path
    <2> QED BY <2>4, <2>5, <2>6, <2>7 DEF Local
  <1>5. ASSUME NEW o \in Workers, NEW x \in Workers, o # x
        PROVE  Disjoint(wr[o], wr[x])'
    BY <1>5 DEF IInv, OnlyWorker, Disjoint
  <1> QED BY <1>1, <1>2, <1>3, <1>4, <1>5 DEF IInv

-----------------------------------------------------------------------------
(* Steps that commit.                                                      *)

\* A commit makes the config_info rows it writes exist and removes none.
LEMMA CommitExists ==
    ASSUME TypeOK, NEW w \in Workers, NEW t \in TxSet, Commit(w, t),
           NEW i \in IDs
    PROVE  Exists(i)' <=> Exists(i) \/ \E e \in t.inf : e.id = i
  <1>1. CASE \E e \in t.inf : e.id = i
    <2> DEFINE e == CHOOSE e \in t.inf : e.id = i
    <2>1. e \in t.inf
      BY <1>1, PickID
    <2>2. e.name \in Names
      BY <2>1 DEF TxSet, Entities
    <2>3. info'[i].name = e.name
      BY <1>1 DEF Commit
    <2> QED BY <1>1, <2>2, <2>3, ConfigServerAssumption DEF Exists
  <1>2. CASE ~\E e \in t.inf : e.id = i
    BY <1>2 DEF Commit, Exists
  <1> QED BY <1>1, <1>2

\* The merged config_current row points to committed rows and keeps what it
\* pointed to unless the write names another row.
LEMMA MergedPointers ==
    ASSUME NEW a \in Currents, NEW b \in Currents, NEW i, NEW V, NEW R,
           PointersIn(a, i, V, R), PointersIn(b, i, V, R)
    PROVE  /\ PointersIn(UpdateConfigCurrent(a, b), i, V, R)
           /\ a.ver # Null \/ b.ver # Null
                => UpdateConfigCurrent(a, b).ver # Null
  BY DEF PointersIn, UpdateConfigCurrent, Currents

\* tx.Commit() preserves the invariant when the writes can be committed, the
\* files are stored and every new config comes with a version.
LEMMA CommitPreserves ==
    ASSUME IInv, NEW w \in Workers, NEW t \in TxSet, Commit(w, t),
           UNCHANGED files, WritesOK(t),
           \A o \in Workers : o # w => Disjoint(t, wr[o]),
           \A v \in t.ver : store[Path(v)] # Null,
           \A e \in t.inf : \/ Exists(e.id)
                            \/ /\ \E c \in t.cur : c.id = e.id
                               /\ \A c \in t.cur : c.id = e.id
                                                      => c.val.ver # Null
    PROVE  IInv'
  <1>t. TypeOK /\ TypeOK'
    BY TypeCommit DEF IInv
  <1>ex. ASSUME NEW i \in IDs
         PROVE  Exists(i)' <=> Exists(i) \/ \E e \in t.inf : e.id = i
    BY <1>t, CommitExists
  <1>v. versions' = versions \cup t.ver /\ releases' = releases \cup t.rel
    BY DEF Commit
  <1>f. store' = store
    BY DEF files
  <1>l. /\ pc'[w] = "idle" /\ wr'[w] = NoWrites /\ todo'[w] = {}
        /\ \A o \in Workers : o # w =>
             /\ pc'[o] = pc[o] /\ ent'[o] = ent[o] /\ todo'[o] = todo[o]
             /\ cur'[o] = cur[o] /\ row'[o] = row[o] /\ data'[o] = data[o]
             /\ wr'[o] = wr[o]
    BY <1>t DEF Commit, Return, Goto, TypeOK
  <1>1. VersionHistory'
    BY <1>v DEF IInv, VersionHistory, WritesOK, HasPreviousVersion,
                VersionExists, SameVersion
  <1>2. ReleaseHistory'
    BY <1>v DEF IInv, ReleaseHistory, WritesOK, HasPreviousRelease,
                SameRelease
  <1>3. RowsOK'
    <2>1. ASSUME NEW v \in versions'
          PROVE  Exists(v.id)' /\ store'[Path(v)] # Null
      <3>1. v.id \in IDs
        BY <1>t DEF TypeOK, Versions
      <3> QED BY <3>1, <1>ex, <1>v, <1>f DEF IInv, RowsOK, WritesOK
    <2>2. ASSUME NEW i \in IDs
          PROVE  /\ PointersIn(current'[i], i, versions', releases')
                 /\ Exists(i)' => current'[i].ver # Null
      <3>1. /\ PointersIn(current[i], i, versions', releases')
            /\ Exists(i) => current[i].ver # Null
            /\ current[i] \in Currents
        BY <1>t, <1>v DEF IInv, RowsOK, PointersIn, TypeOK
      <3>2. CASE ~\E c \in t.cur : c.id = i
        <4>1. current'[i] = current[i]
          BY <3>2 DEF Commit
        <4>2. Exists(i)' => Exists(i)
          BY <3>2, <1>ex
        <4> QED BY <3>1, <4>1, <4>2
      <3>3. CASE \E c \in t.cur : c.id = i
        <4> DEFINE c == CHOOSE c \in t.cur : c.id = i
        <4>1. c \in t.cur /\ c.id = i
          BY <3>3, PickID
        <4>2. current'[i] = UpdateConfigCurrent(current[i], c.val)
          BY <3>3 DEF Commit
        <4>3. c.val \in Currents /\ PointersIn(c.val, i, versions', releases')
          BY <4>1, <1>v DEF WritesOK, TxSet, CurrentWrites
        <4>4. Exists(i)' => current[i].ver # Null \/ c.val.ver # Null
          BY <4>1, <3>1, <1>ex
        <4> HIDE DEF c
        <4> QED BY <3>1, <4>2, <4>3, <4>4, MergedPointers
      <3> QED BY <3>2, <3>3
    <2>3. ASSUME NEW r \in releases'
          PROVE  r.ver \in versions' /\ r.ver.id = r.id
      BY <1>v DEF IInv, RowsOK, WritesOK
    <2> QED BY <2>1, <2>2, <2>3 DEF RowsOK
  <1>4. ASSUME NEW o \in Workers
        PROVE  WritesOK(wr[o])'
    <2>1. CASE o = w
      BY <2>1, <1>l DEF WritesOK, NoWrites
    <2>2. CASE o # w
      <3>1. WritesOK(wr[o]) /\ Disjoint(t, wr[o]) /\ wr'[o] = wr[o]
            /\ wr[o] \in TxSet
        BY <2>2, <1>l, <1>t DEF IInv, TypeOK, TxSet
      <3>2. ASSUME NEW v \in wr[o].ver
            PROVE  /\ Exists(v.id)' \/ \E e \in wr[o].inf : e.id = v.id
                   /\ HasPreviousVersion(v)'
                   /\ ~VersionExists(v)'
                   /\ \A u \in wr[o].ver : u = v
        <4>1. v.id \in IDs
          BY <3>1 DEF TxSet, Versions
        <4> QED BY <4>1, <3>1, <1>v, <1>ex
                DEF WritesOK, HasPreviousVersion, VersionExists, Disjoint,
                    SameVersion
      <3>3. ASSUME NEW r \in wr[o].rel
            PROVE  /\ r.ver \in versions' /\ r.ver.id = r.id
                   /\ HasPreviousRelease(r)'
                   /\ \A q \in releases' : ~SameRelease(q, r)
                   /\ \A q \in wr[o].rel : SameRelease(q, r) => q = r
        BY <3>1, <1>v DEF WritesOK, HasPreviousRelease, Disjoint
      <3>4. ASSUME NEW c \in wr[o].cur
            PROVE  PointersIn(c.val, c.id, versions' \cup wr[o].ver,
                              releases' \cup wr[o].rel)
        BY <3>1, <1>v DEF WritesOK, PointersIn
      <3> QED BY <3>1, <3>2, <3>3, <3>4 DEF WritesOK
    <2> QED BY <2>1, <2>2
  <1>5. ASSUME NEW o \in Workers
        PROVE  Local(o)'
    <2>1. CASE o = w
      BY <2>1, <1>l DEF Local, EntityOK, RowOK, CurrentOK, FilesOK, NoWrites
    <2>2. CASE o # w
      <3>1. Local(o) /\ Disjoint(t, wr[o])
        BY <2>2 DEF IInv
      <3>2. /\ wr[o].inf \subseteq Entities /\ todo[o] \subseteq Entities
            /\ ent[o] \in Entities \cup {Null}
        BY <1>t DEF TypeOK
      <3>3. \A i \in IDs : info[i].name # Null => info'[i].name # Null
        BY <1>ex DEF Exists
      <3>4. ent[o] # Null /\ info[ent[o].id].name = Null /\ ent[o] \in wr[o].inf
              => info'[ent[o].id].name = Null
        BY <3>1, <3>2, <1>ex DEF Disjoint, Entities, Exists
      <3>5. \A e \in Entities : e.id \in IDs
        BY DEF Entities
      <3>6. \A c, i : PointersIn(c, i, versions, releases)
                       => PointersIn(c, i, versions', releases')
        BY <1>v DEF PointersIn
      <3>7. \A c, i : PointersIn(c, i, versions \cup wr[o].ver,
                                releases \cup wr[o].rel)
                       => PointersIn(c, i, versions' \cup wr[o].ver,
                                     releases' \cup wr[o].rel)
        BY <1>v DEF PointersIn
      <3>8. EntityOK(o)'
        BY <2>2, <3>1, <3>2, <3>3, <3>4, <3>5, <1>l DEF Local, EntityOK, Exists
      <3>9. RowOK(o)'
        BY <2>2, <3>1, <1>l DEF Local, RowOK
      <3>10. CurrentOK(o)'
        <4>1. pc'[o] = pc[o] /\ ent'[o] = ent[o] /\ cur'[o] = cur[o]
              /\ row'[o] = row[o] /\ wr'[o] = wr[o]
          BY <2>2, <1>l
        <4>2. CurrentOK(o)
          BY <3>1 DEF Local
        <4> QED BY <3>6, <3>7, <4>1, <4>2 DEF CurrentOK
      <3>11. FilesOK(o)'
        BY <2>2, <3>1, <1>l, <1>f DEF Local, FilesOK, Path
      <3> QED BY <3>8, <3>9, <3>10, <3>11 DEF Local
    <2> QED BY <2>1, <2>2
  <1>6. ASSUME NEW o \in Workers, NEW x \in Workers, o # x
        PROVE  Disjoint(wr[o], wr[x])'
    BY <1>6, <1>l DEF IInv, Disjoint, NoWrites
  <1> QED BY <1>t, <1>1, <1>2, <1>3, <1>4, <1>5, <1>6 DEF IInv

-----------------------------------------------------------------------------
(* Every step preserves the invariant.                                     *)

\* A step of w that writes no row preserves the invariant when it does so for
\* the variables of w.
LEMMA QuietFrame ==
    ASSUME IInv, NEW w \in Workers, UNCHANGED <<tables, wr>>, OnlyWorker(w),
           StoreGrows, TypeOK', Local(w)'
    PROVE  IInv'
  <1>1. WritesOK(wr[w])'
    BY DEF IInv, tables, WritesOK, PointersIn, Exists, HasPreviousVersion,
           HasPreviousRelease, VersionExists
  <1>2. \A o \in Workers : o # w => Disjoint(wr'[w], wr[o])
                                    /\ Disjoint(wr[o], wr'[w])
    BY DEF IInv
  <1> QED BY <1>1, <1>2, Frame DEF tables

\* The end of a handler that commits nothing.
LEMMA ReturnPreserves ==
    ASSUME IInv, NEW w \in Workers, Return(w), UNCHANGED <<rows, package>>,
           StoreGrows,
           store' \in [Names \X (1 .. MaxVersion) -> Data \cup {Null}]
    PROVE  IInv'
  <1>1. TypeOK'
    BY TypeReturn DEF IInv, TypeOK, rows, TxSet
  <1>2. /\ OnlyWorker(w) /\ wr'[w] = NoWrites /\ pc'[w] = "idle"
        /\ todo'[w] = {}
    BY DEF IInv, TypeOK, Return, Goto, OnlyWorker
  <1>3. WritesOK(wr[w])' /\ Local(w)'
    BY <1>2 DEF WritesOK, NoWrites, Local, EntityOK, RowOK, CurrentOK, FilesOK
  <1>4. \A o \in Workers : o # w => Disjoint(wr'[w], wr[o])
                                    /\ Disjoint(wr[o], wr'[w])
    BY <1>2 DEF Disjoint, NoWrites
  <1>5. UNCHANGED tables
    BY DEF rows, tables
  <1> QED BY <1>1, <1>2, <1>3, <1>4, <1>5, Frame

\* A handler that fails leaves the invariant true.
LEMMA AbortPreserves == ASSUME IInv, NEW w \in Workers, Abort(w) PROVE IInv'
  <1>1. StoreGrows
    BY DEF Abort, files, StoreGrows
  <1>2. store' \in [Names \X (1 .. MaxVersion) -> Data \cup {Null}]
    BY DEF IInv, TypeOK, Abort, files
  <1> QED BY <1>1, <1>2, ReturnPreserves DEF Abort, files

\* At the first statements the variables hold no more than an existing config
\* and the content a client sent.
LEMMA LocalStart ==
    ASSUME IInv, NEW w \in Workers, pc[w] \in {"idle", "edit", "impNs"},
           UNCHANGED <<info, wr, store>>,
           pc'[w] \in {"addNs", "edit", "updRead", "relRead", "rbkRead",
                       "pack", "impNs", "impRead"},
           pc'[w] \in {"edit", "updRead", "relRead", "rbkRead"}
             => ent'[w] # Null /\ info[ent'[w].id].name # Null,
           pc'[w] = "updRead" => data'[w] # Null,
           \A e \in todo'[w] : Exists(e.id)
    PROVE  Local(w)'
  <1>1. EntityOK(w) /\ FilesOK(w) /\ RowOK(w) /\ CurrentOK(w)
    BY DEF IInv, Local
  <1>2. EntityOK(w)'
    BY <1>1 DEF EntityOK, Exists
  <1>3. FilesOK(w)'
    BY <1>1 DEF FilesOK, Path
  <1>4. RowOK(w)' /\ CurrentOK(w)'
    BY <1>1 DEF RowOK, CurrentOK
  <1> QED BY <1>2, <1>3, <1>4 DEF Local

\* Steps that start a request.
LEMMA StartPreserves ==
    ASSUME IInv, NEW w \in Workers,
           \/ AddConfig(w) \/ ImportConfigs(w) \/ ImportNamespace(w)
           \/ GetConfigDetail(w) \/ ReleaseConfig(w) \/ RollbackConfig(w)
           \/ EditConfig(w) \/ ReloadTemplate(w) \/ ReleaseNamespace(w)
    PROVE  IInv'
  <1>t. TypeOK /\ EntityOK(w)
    BY DEF IInv, Local
  <1>1. UNCHANGED <<tables, wr, store>>
    BY DEF AddConfig, GetConfigDetail, EditConfig, ReloadTemplate,
           ReleaseConfig, ReleaseNamespace, RollbackConfig, ImportConfigs,
           ImportNamespace, rows, files, tables
  <1>2. OnlyWorker(w)
    BY <1>1 DEF IInv, TypeOK, OnlyWorker, Goto, locals, AddConfig,
           GetConfigDetail, EditConfig, ReloadTemplate, ReleaseConfig,
           ReleaseNamespace, RollbackConfig, ImportConfigs, ImportNamespace
  <1>3. \A i \in IDs : Exists(i) => /\ Entity(i) \in Entities
                                    /\ Entity(i).id = i
                                    /\ Entity(i) # Null
    BY <1>t, ConfigServerAssumption
       DEF TypeOK, Exists, Entity, Entities, Infos
  <1>4. TypeOK' /\ Local(w)'
    <2>1. CASE AddConfig(w) \/ ImportConfigs(w) \/ ImportNamespace(w)
      <3>1. TypeOK'
        BY <1>t, <2>1 DEF TypeOK, Steps, Goto, locals, rows, files, AddConfig,
                          ImportConfigs, ImportNamespace
      <3>2. /\ pc[w] \in {"idle", "impNs"}
            /\ pc'[w] \in {"addNs", "impNs", "impRead"} /\ todo'[w] = todo[w]
        BY <1>t, <2>1 DEF TypeOK, Goto, locals, AddConfig, ImportConfigs,
                          ImportNamespace
      <3> QED BY <1>t, <1>1, <3>1, <3>2, LocalStart DEF tables, EntityOK
    <2>2. CASE GetConfigDetail(w) \/ ReleaseConfig(w) \/ RollbackConfig(w)
      <3>1. PICK i \in IDs : Exists(i) /\ ent' = [ent EXCEPT ![w] = Entity(i)]
        BY <2>2 DEF GetConfigDetail, ReleaseConfig, RollbackConfig
      <3>2. TypeOK'
        BY <1>t, <1>3, <2>2, <3>1
           DEF TypeOK, Steps, Goto, rows, files, GetConfigDetail,
               ReleaseConfig, RollbackConfig
      <3>3. /\ pc[w] = "idle" /\ todo'[w] = todo[w] /\ ent'[w] = Entity(i)
            /\ pc'[w] \in {"edit", "relRead", "rbkRead"}
        BY <1>t, <2>2, <3>1 DEF TypeOK, Goto, GetConfigDetail, ReleaseConfig,
                                RollbackConfig
      <3>4. ent'[w] # Null /\ info[ent'[w].id].name # Null
        BY <3>1, <3>3, <1>3 DEF Exists
      <3> QED BY <1>t, <1>1, <3>2, <3>3, <3>4, LocalStart DEF tables, EntityOK
    <2>3. CASE EditConfig(w)
      <3>1. PICK n \in Names, d \in Data :
               /\ ent' = [ent EXCEPT ![w].name = n]
               /\ data' = [data EXCEPT ![w] = d]
        BY <2>3 DEF EditConfig
      <3>2. pc[w] = "edit" /\ ent[w] \in Entities /\ Exists(ent[w].id)
        BY <1>t, <2>3 DEF TypeOK, EntityOK, EditConfig
      <3>3. ent'[w] \in Entities /\ ent'[w].id = ent[w].id
        BY <1>t, <3>1, <3>2 DEF TypeOK, Entities
      <3>4. TypeOK'
        BY <1>t, <2>3, <3>1, <3>3
           DEF TypeOK, Steps, Goto, rows, files, EditConfig
      <3>5. pc'[w] = "updRead" /\ todo'[w] = todo[w] /\ data'[w] # Null
        BY <1>t, <2>3, <3>1, ConfigServerAssumption
           DEF TypeOK, Goto, EditConfig
      <3>6. ent'[w] # Null /\ info[ent'[w].id].name # Null
        BY <3>2, <3>3, ConfigServerAssumption DEF Exists
      <3> QED BY <1>t, <1>1, <3>2, <3>4, <3>5, <3>6, LocalStart
              DEF tables, EntityOK
    <2>4. CASE ReloadTemplate(w)
      <3>1. PICK i \in IDs, d \in Data :
               /\ Exists(i)
               /\ ent' = [ent EXCEPT ![w] = Entity(i)]
               /\ data' = [data EXCEPT ![w] = d]
        BY <2>4 DEF ReloadTemplate
      <3>2. TypeOK'
        BY <1>t, <1>3, <2>4, <3>1
           DEF TypeOK, Steps, Goto, rows, files, ReloadTemplate
      <3>3. /\ pc[w] = "idle" /\ todo'[w] = todo[w] /\ ent'[w] = Entity(i)
            /\ pc'[w] = "updRead" /\ data'[w] # Null
        BY <1>t, <2>4, <3>1, ConfigServerAssumption
           DEF TypeOK, Goto, ReloadTemplate
      <3>4. ent'[w] # Null /\ info[ent'[w].id].name # Null
        BY <3>1, <3>3, <1>3 DEF Exists
      <3> QED BY <1>t, <1>1, <3>2, <3>3, <3>4, LocalStart DEF tables, EntityOK
    <2>5. CASE ReleaseNamespace(w)
      <3> DEFINE changed == {e \in {Entity(i) : i \in {j \in IDs : Exists(j)}} :
                                e.status \in {"created", "updated"}}
      <3>1. changed \subseteq Entities /\ \A e \in changed : Exists(e.id)
        BY <1>3
      <3>2. /\ pc[w] = "idle" /\ todo' = [todo EXCEPT ![w] = changed]
            /\ \/ Goto(w, "pack") /\ UNCHANGED ent
               \/ \E e \in changed : /\ ent' = [ent EXCEPT ![w] = e]
                                     /\ Goto(w, "relRead")
            /\ UNCHANGED <<rows, files, cur, row, data, wr>>
        BY <2>5 DEF ReleaseNamespace, First
      <3> HIDE DEF changed
      <3>3. TypeOK'
        <4>1. pc' \in [Workers -> Steps] /\ ent' \in [Workers -> Entities \cup {Null}]
          <5>1. \E l \in {"pack", "relRead"} : pc' = [pc EXCEPT ![w] = l]
            BY <3>2 DEF Goto
          <5>2. ent' = ent \/ \E e \in Entities : ent' = [ent EXCEPT ![w] = e]
            BY <3>1, <3>2
          <5>3. pc' \in [Workers -> Steps]
            BY <1>t, <5>1 DEF TypeOK, Steps
          <5>4. ent' \in [Workers -> Entities \cup {Null}]
            BY <1>t, <5>2 DEF TypeOK
          <5> QED BY <5>3, <5>4
        <4>2. todo' \in [Workers -> SUBSET Entities]
          BY <1>t, <3>1, <3>2 DEF TypeOK
        <4> QED BY <1>t, <3>2, <4>1, <4>2, Zenon DEF TypeOK, rows, files
      <3>4. /\ todo'[w] = changed
            /\ \/ pc'[w] = "pack"
               \/ pc'[w] = "relRead" /\ ent'[w] \in changed
        BY <1>t, <3>2 DEF TypeOK, Goto
      <3>5. pc'[w] = "relRead"
               => ent'[w] # Null /\ info[ent'[w].id].name # Null
        BY <3>1, <3>4, ConfigServerAssumption DEF Exists
      <3> QED BY <1>1, <3>1, <3>2, <3>3, <3>4, <3>5, LocalStart DEF tables
    <2> QED BY <2>1, <2>2, <2>3, <2>4, <2>5
  <1> QED BY <1>1, <1>2, <1>4, QuietFrame DEF StoreGrows

\* Steps that read the config_current row: the copy points to committed rows,
\* and the number of the row to be inserted follows one of them.
LEMMA ReadPreserves ==
    ASSUME IInv, NEW w \in Workers,
           UpdateRead(w) \/ ReleaseRead(w) \/ RollbackRead(w)
    PROVE  IInv'
  <1>t. TypeOK /\ Local(w) /\ RowsOK
    BY DEF IInv
  <1>1. UNCHANGED <<tables, wr, store>> /\ OnlyWorker(w)
    BY <1>t DEF TypeOK, UpdateRead, ReleaseRead, RollbackRead, Goto, rows,
                files, tables, OnlyWorker
  <1>2. /\ pc[w] \in {"updRead", "relRead", "rbkRead"}
        /\ ent[w] \in Entities /\ Exists(ent[w].id) /\ ent[w].id \in IDs
    BY <1>t DEF TypeOK, Local, EntityOK, Entities, UpdateRead, ReleaseRead,
                RollbackRead
  <1> DEFINE c == current[ent[w].id]
  <1>3. /\ c \in Currents /\ PointersIn(c, ent[w].id, versions, releases)
        /\ c.ver \in Versions /\ c.ver # Null /\ c.ver.num \in Nat
    BY <1>t, <1>2 DEF TypeOK, RowsOK, Currents, Versions
  <1>4. /\ todo'[w] = todo[w] /\ ent'[w] = ent[w] /\ wr'[w] = wr[w]
        /\ cur'[w] = c
    BY <1>t DEF TypeOK, UpdateRead, ReleaseRead, RollbackRead
  <1>5. /\ wr[w].inf \subseteq Entities
        /\ \A e \in wr[w].inf : Exists(e.id)
        /\ \A v \in wr[w].ver : store[Path(v)] # Null
        /\ \A e \in todo[w] : Exists(e.id)
        /\ pc[w] # "relRead" => wr[w].cur = {}
    BY <1>t, <1>2 DEF TypeOK, Local, EntityOK, FilesOK, RowOK
  <1> HIDE DEF c
  <1>6. CASE UpdateRead(w)
    <2>1. /\ pc'[w] = "updStore" /\ data'[w] = data[w] /\ data[w] # Null
          /\ data[w] \in Data /\ c.ver.num < MaxVersion
          /\ row' = [row EXCEPT ![w] = [id |-> ent[w].id, name |-> ent[w].name,
                                        num |-> c.ver.num + 1,
                                        digest |-> data[w]]]
      BY <1>t, <1>6 DEF TypeOK, Local, FilesOK, UpdateRead, Goto, c
    <2>2. row'[w] \in Versions
      BY <1>t, <1>2, <1>3, <2>1, ConfigServerAssumption
         DEF TypeOK, Versions, Entities
    <2>3. TypeOK'
      BY <1>t, <1>3, <1>6, <2>1, <2>2
         DEF TypeOK, UpdateRead, Goto, Steps, rows, files, c
    <2>4. /\ row'[w].id = ent[w].id /\ row'[w].num = c.ver.num + 1
          /\ row'[w] # Null
      BY <1>t, <2>1, <2>2, ConfigServerAssumption DEF TypeOK
    <2>5. EntityOK(w)'
      BY <1>1, <1>2, <1>4, <1>5, <2>1, ConfigServerAssumption
         DEF EntityOK, Exists, tables
    <2>6. RowOK(w)'
      BY <1>3, <1>4, <1>5, <1>6, <2>1, <2>4 DEF RowOK, UpdateRead
    <2>7. CurrentOK(w)'
      BY <1>1, <1>3, <1>4, <2>1 DEF CurrentOK, PointersIn, tables
    <2>8. FilesOK(w)'
      BY <1>1, <1>4, <1>5, <2>1 DEF FilesOK, Path
    <2> QED BY <1>1, <2>3, <2>5, <2>6, <2>7, <2>8, QuietFrame
            DEF StoreGrows, Local
  <1>7. CASE ReleaseRead(w)
    <2>1. /\ pc'[w] = "relInsert" /\ row' = [row EXCEPT ![w] = c.ver]
          /\ ReleaseNum(c.rel) < MaxRelease /\ HasUpdates(c)
          /\ row'[w] = c.ver
      BY <1>t, <1>7 DEF TypeOK, ReleaseRead, Goto, c
    <2>2. TypeOK'
      BY <1>t, <1>3, <1>7, <2>1
         DEF TypeOK, ReleaseRead, Goto, Steps, rows, files, c
    <2>3. EntityOK(w)'
      BY <1>1, <1>2, <1>4, <1>5, <2>1, ConfigServerAssumption
         DEF EntityOK, Exists, tables
    <2>4. RowOK(w)' /\ CurrentOK(w)' /\ FilesOK(w)'
      BY <1>1, <1>2, <1>3, <1>4, <1>5, <2>1
         DEF RowOK, CurrentOK, FilesOK, PointersIn, tables, Path, HasUpdates,
             ReleaseNum
    <2> QED BY <1>1, <2>2, <2>3, <2>4, QuietFrame DEF StoreGrows, Local
  <1>8. CASE RollbackRead(w)
    <2>1. /\ pc'[w] = "rbkInsert" /\ c.pre # Null /\ c.ver.num < MaxVersion
          /\ row' = [row EXCEPT ![w] = [c.pre.ver EXCEPT !.num = c.ver.num + 1]]
          /\ data' = [data EXCEPT ![w] = store[Path(c.pre.ver)]]
      BY <1>t, <1>8 DEF TypeOK, RollbackRead, RollbackSource, Goto, c
    <2>2. /\ c.pre \in releases /\ c.pre.ver \in versions
          /\ c.pre.ver \in Versions /\ c.pre.ver.id = ent[w].id
          /\ store[Path(c.pre.ver)] # Null
      BY <1>t, <1>3, <2>1 DEF TypeOK, RowsOK, PointersIn
    <2>3. store[Path(c.pre.ver)] \in Data
      BY <1>t, <2>2, PathType DEF TypeOK
    <2>4. row'[w] \in Versions /\ row'[w].id = ent[w].id
          /\ row'[w].num = c.ver.num + 1 /\ row'[w] # Null
      <3>1. row'[w] = [c.pre.ver EXCEPT !.num = c.ver.num + 1]
        BY <1>t, <2>1 DEF TypeOK
      <3>2. c.ver.num + 1 \in 1 .. MaxVersion
        BY <1>3, <2>1, ConfigServerAssumption
      <3>3. row'[w] \in Versions /\ row'[w].id = c.pre.ver.id
            /\ row'[w].num = c.ver.num + 1
        BY <3>1, <3>2, <2>2 DEF Versions
      <3> QED BY <3>3, <2>2, ConfigServerAssumption
    <2>5. data'[w] # Null
      BY <1>t, <2>1, <2>2 DEF TypeOK
    <2>6. TypeOK'
      BY <1>t, <1>3, <1>8, <2>1, <2>3, <2>4
         DEF TypeOK, RollbackRead, Goto, Steps, rows, files, c
    <2>7. EntityOK(w)'
      BY <1>1, <1>2, <1>4, <1>5, <2>1, ConfigServerAssumption
         DEF EntityOK, Exists, tables
    <2>8. RowOK(w)'
      BY <1>3, <1>4, <1>5, <1>8, <2>1, <2>4 DEF RowOK, RollbackRead
    <2>9. CurrentOK(w)'
      BY <1>1, <1>3, <1>4, <2>1 DEF CurrentOK, PointersIn, tables
    <2>10. FilesOK(w)'
      BY <1>1, <1>4, <1>5, <2>1, <2>5 DEF FilesOK, Path
    <2> QED BY <1>1, <2>6, <2>7, <2>8, <2>9, <2>10, QuietFrame
            DEF StoreGrows, Local
  <1> QED BY <1>6, <1>7, <1>8

\* Storing the file of the new version row.
LEMMA StoreEffect ==
    ASSUME TypeOK, NEW w \in Workers, row[w] \in Versions, data[w] # Null,
           store' = [store EXCEPT ![Path(row[w])] = data[w]]
    PROVE  /\ store' \in [Names \X (1 .. MaxVersion) -> Data \cup {Null}]
           /\ StoreGrows
           /\ store'[Path(row[w])] # Null
  <1>1. Path(row[w]) \in Names \X (1 .. MaxVersion)
    BY PathType
  <1> QED BY <1>1 DEF TypeOK, StoreGrows

\* Steps that write the file database, whether or not their transaction will
\* commit.
LEMMA StorePreserves ==
    ASSUME IInv, NEW w \in Workers,
           AddStore(w) \/ UpdateStore(w) \/ RollbackStore(w) \/ ImportStore(w)
    PROVE  IInv'
  <1>t. TypeOK /\ Local(w) /\ WritesOK(wr[w])
    BY DEF IInv
  <1>1. /\ pc[w] \in {"addStore", "updStore", "rbkStore", "impStore"}
        /\ store' = [store EXCEPT ![Path(row[w])] = data[w]]
        /\ UNCHANGED <<rows, package>>
    BY DEF AddStore, UpdateStore, RollbackStore, ImportStore, StoreConfig
  <1>2. data[w] # Null /\ row[w] \in Versions
    BY <1>t, <1>1 DEF TypeOK, Local, RowOK, FilesOK
  <1>3. /\ store' \in [Names \X (1 .. MaxVersion) -> Data \cup {Null}]
        /\ StoreGrows
        /\ store'[Path(row[w])] # Null
    BY <1>t, <1>1, <1>2, StoreEffect
  <1>4. CASE Return(w)
    BY <1>1, <1>3, <1>4, ReturnPreserves
  <1>5. CASE ~Return(w)
    <2>1. /\ UNCHANGED <<locals, wr>>
          /\ \/ pc[w] = "addStore" /\ Goto(w, "addVersion")
             \/ pc[w] = "updStore" /\ Goto(w, "updInsert")
             \/ pc[w] = "updStore" /\ Goto(w, "updInfo")
             \/ pc[w] = "rbkStore" /\ Goto(w, "rbkCurrent")
             \/ pc[w] = "impStore" /\ Goto(w, "impInsert")
      BY <1>5 DEF AddStore, UpdateStore, RollbackStore, ImportStore,
                  StoreConfig, AfterStore
    <2>2. TypeOK' /\ OnlyWorker(w)
      BY <1>t, <1>1, <1>3, <2>1
         DEF TypeOK, OnlyWorker, Goto, Steps, rows, locals
    <2>3. \/ pc[w] = "addStore" /\ pc'[w] = "addVersion"
          \/ pc[w] = "updStore" /\ pc'[w] \in {"updInsert", "updInfo"}
          \/ pc[w] = "rbkStore" /\ pc'[w] = "rbkCurrent"
          \/ pc[w] = "impStore" /\ pc'[w] = "impInsert"
      BY <1>t, <2>1 DEF TypeOK, Goto
    <2>4. UNCHANGED tables
      BY <1>1 DEF tables, rows
    <2>5. EntityOK(w)'
      BY <1>t, <2>1, <2>3, <2>4 DEF Local, EntityOK, Exists, tables, locals
    <2>6. RowOK(w)'
      BY <1>t, <2>1, <2>3 DEF Local, RowOK, locals
    <2>7. CurrentOK(w)'
      BY <1>t, <2>1, <2>3, <2>4
         DEF Local, CurrentOK, PointersIn, tables, locals
    <2>8. ASSUME NEW v \in wr[w].ver PROVE store'[Path(v)] # Null
      <3>1. CASE pc[w] = "rbkStore"
        BY <1>t, <1>3, <3>1 DEF Local, RowOK, WritesOK
      <3>2. CASE pc[w] # "rbkStore"
        BY <1>t, <1>3, <3>2, PathType
           DEF TypeOK, Local, FilesOK, StoreGrows
      <3> QED BY <3>1, <3>2
    <2>9. FilesOK(w)'
      BY <1>t, <1>3, <2>1, <2>3, <2>8 DEF FilesOK, locals, Path
    <2> QED BY <1>3, <2>1, <2>2, <2>4, <2>5, <2>6, <2>7, <2>9, QuietFrame
            DEF Local
  <1> QED BY <1>4, <1>5

\* The namespace row, and the package, are of no concern to the invariant.
LEMMA NamespacePreserves ==
    ASSUME IInv, NEW w \in Workers, AddNamespace(w) \/ packConfigs(w)
    PROVE  IInv'
  <1>t. TypeOK /\ Local(w) /\ WritesOK(wr[w])
    BY DEF IInv
  <1>1. UNCHANGED <<tables, store, locals>> /\ StoreGrows
    BY DEF AddNamespace, packConfigs, rows, files, tables, StoreGrows
  <1>2. OnlyWorker(w)
    BY <1>t DEF TypeOK, OnlyWorker, AddNamespace, packConfigs, Goto, locals
  <1>3. /\ wr'[w].ver = wr[w].ver /\ wr'[w].rel = wr[w].rel
        /\ wr'[w].cur = wr[w].cur /\ wr'[w].inf = wr[w].inf
        /\ \/ pc[w] = "addNs" /\ pc'[w] = "addInfo"
           \/ pc[w] = "pack" /\ pc'[w] = "notify"
    BY <1>t DEF TypeOK, AddNamespace, packConfigs, Goto
  <1>4. TypeOK'
    <2>1. CASE AddNamespace(w)
      <3>1. wr' \in [Workers -> TxSet]
        <4>1. wr \in [Workers -> TxSet]
          BY <1>t DEF TypeOK, TxSet
        <4>2. ASSUME NEW t \in TxSet PROVE [t EXCEPT !.ns = TRUE] \in TxSet
          BY DEF TxSet
        <4> QED BY <2>1, <4>1, <4>2 DEF AddNamespace
      <3> QED
        BY <1>t, <2>1, <3>1 DEF TxSet, TypeOK, Steps, AddNamespace, Goto, rows, files, locals
    <2>2. CASE packConfigs(w)
      <3>1. ASSUME NEW r \in wr[w].rel
            PROVE  <<r.ver.name, store[Path(r.ver)]>>
                      \in Names \X Data
        <4>1. r.ver \in Versions
          BY <1>t DEF TypeOK, Releases
        <4> QED BY <1>t, <2>2, <4>1, PathType
                DEF TypeOK, Versions, packConfigs
      <3>2. package' \subseteq Names \X Data
        BY <3>1, <2>2 DEF packConfigs
      <3> QED BY <1>t, <2>2, <3>2
              DEF TypeOK, Steps, packConfigs, Goto, rows, locals
    <2> QED BY <2>1, <2>2
  <1>5. WritesOK(wr[w])'
    BY <1>t, <1>1, <1>3
       DEF tables, WritesOK, PointersIn, Exists, HasPreviousVersion,
           HasPreviousRelease, VersionExists
  <1>6. \A o \in Workers : o # w => Disjoint(wr'[w], wr[o])
                                    /\ Disjoint(wr[o], wr'[w])
    BY <1>3 DEF IInv, Disjoint
  <1>7. EntityOK(w)' /\ RowOK(w)'
    BY <1>t, <1>1, <1>3 DEF Local, EntityOK, RowOK, Exists, tables, locals
  <1>8. CurrentOK(w)' /\ FilesOK(w)'
    BY <1>t, <1>1, <1>3 DEF Local, CurrentOK, FilesOK, tables, locals, Path
  <1> QED BY <1>1, <1>2, <1>4, <1>5, <1>6, <1>7, <1>8, Frame DEF Local

\* A write of a config_info row whose lock was free.
LEMMA InfoWrite ==
    ASSUME IInv, NEW w \in Workers, NEW e \in Entities, NEW S,
           UNCHANGED tables, ~InfoLocked(w, e),
           wr' = [wr EXCEPT ![w].inf = S],
           S \subseteq wr[w].inf \cup {e}, e \in S,
           \A x \in wr[w].inf : Exists(x.id) \/ x.id = e.id
    PROVE  /\ wr' \in [Workers -> TxSet]
           /\ wr'[w] = [wr[w] EXCEPT !.inf = S]
           /\ WritesOK(wr[w])'
           /\ \A o \in Workers : o # w => Disjoint(wr'[w], wr[o])
                                          /\ Disjoint(wr[o], wr'[w])
  <1>t. TypeOK /\ WritesOK(wr[w])
    BY DEF IInv
  <1>1. wr' \in [Workers -> TxSet] /\ wr'[w] = [wr[w] EXCEPT !.inf = S]
    <2>1. wr \in [Workers -> TxSet] /\ wr[w] \in TxSet
      BY <1>t, Zenon DEF TypeOK, TxSet
    <2>2. S \in SUBSET Entities
      BY <2>1 DEF TxSet
    <2>3. [wr[w] EXCEPT !.inf = S] \in TxSet
      BY <2>1, <2>2, Zenon DEF TxSet
    <2>4. wr' = [wr EXCEPT ![w] = [wr[w] EXCEPT !.inf = S]]
      OBVIOUS
    <2> QED BY <2>1, <2>3, <2>4, Zenon
  <1>2. /\ wr'[w].ver = wr[w].ver /\ wr'[w].rel = wr[w].rel
        /\ wr'[w].cur = wr[w].cur /\ wr'[w].inf = S
    BY <1>t, <1>1 DEF TypeOK
  <1>3. WritesOK(wr[w])'
    BY <1>t, <1>2 DEF tables, WritesOK, PointersIn, Exists, HasPreviousVersion,
                      HasPreviousRelease, VersionExists
  <1>4. ASSUME NEW o \in Workers, o # w
        PROVE  Disjoint(wr'[w], wr[o]) /\ Disjoint(wr[o], wr'[w])
    BY <1>2, <1>4 DEF IInv, Disjoint, InfoLocked, Others
  <1> QED BY <1>1, <1>3, <1>4

\* Steps that write the config_info row of an existing config.
LEMMA InfoPreserves ==
    ASSUME IInv, NEW w \in Workers,
           UpdateInfo(w) \/ ReleaseInfo(w) \/ ImportInfo(w)
    PROVE  IInv'
  <1>t. TypeOK /\ Local(w)
    BY DEF IInv
  <1>1. UNCHANGED <<tables, store, cur, row, data>> /\ StoreGrows
    BY DEF UpdateInfo, ReleaseInfo, ImportInfo, rows, files, locals, tables,
           StoreGrows
  <1>2. ent[w] \in Entities /\ ent[w] # Null
    BY <1>t DEF TypeOK, Local, EntityOK, UpdateInfo, ReleaseInfo, ImportInfo
  <1>3. OnlyWorker(w)
    BY <1>t, <1>1 DEF TypeOK, OnlyWorker, UpdateInfo, ReleaseInfo, ImportInfo,
                      Goto, locals
  <1>4. CASE UpdateInfo(w)
    <2>1. /\ wr' = [wr EXCEPT ![w].inf = {ent[w]}] /\ ~InfoLocked(w, ent[w])
          /\ pc[w] = "updInfo" /\ UNCHANGED locals /\ pc'[w] = "updCurrent"
      BY <1>t, <1>4 DEF TypeOK, UpdateInfo, InfoWritable, Goto
    <2>2. Exists(ent[w].id) /\ \A x \in wr[w].inf : Exists(x.id)
      BY <1>t, <2>1 DEF Local, EntityOK
    <2>3. /\ wr' \in [Workers -> TxSet]
          /\ wr'[w] = [wr[w] EXCEPT !.inf = {ent[w]}]
          /\ WritesOK(wr[w])'
          /\ \A o \in Workers : o # w => Disjoint(wr'[w], wr[o])
                                         /\ Disjoint(wr[o], wr'[w])
      BY <1>1, <1>2, <2>1, <2>2, InfoWrite
    <2>4. TypeOK'
      BY <1>t, <1>4, <2>1, <2>3
         DEF TypeOK, TxSet, UpdateInfo, Steps, Goto, rows, files, locals
    <2>5. /\ wr'[w].ver = wr[w].ver /\ wr'[w].rel = wr[w].rel
          /\ wr'[w].cur = wr[w].cur /\ wr'[w].inf = {ent[w]}
      BY <1>t, <2>3 DEF TypeOK
    <2>6. EntityOK(w)' /\ RowOK(w)'
      BY <1>t, <1>1, <2>1, <2>2, <2>5
         DEF Local, EntityOK, RowOK, Exists, tables, locals
    <2>7. CurrentOK(w)' /\ FilesOK(w)'
      BY <1>t, <1>1, <2>1, <2>5
         DEF Local, CurrentOK, FilesOK, PointersIn, tables, locals, Path
    <2> QED BY <1>1, <1>3, <2>3, <2>4, <2>6, <2>7, Frame DEF Local
  <1>5. CASE ImportInfo(w)
    <2>1. PICK e : e = [ent[w] EXCEPT !.status = IF @ = "created" THEN @
                                                 ELSE "updated"]
      OBVIOUS
    <2>2. e \in Entities /\ e.id = ent[w].id
      BY <1>2, <2>1 DEF Entities, Status
    <2>3. /\ wr' = [wr EXCEPT ![w].inf = {e}] /\ ~InfoLocked(w, e)
          /\ pc[w] = "impInfo" /\ UNCHANGED locals /\ pc'[w] = "impCurrent"
      BY <1>t, <1>5, <2>1 DEF TypeOK, ImportInfo, InfoWritable, Goto
    <2>4. \A x \in wr[w].inf : Exists(x.id) \/ x.id = e.id
      BY <1>t, <2>2, <2>3 DEF Local, EntityOK
    <2>5. /\ wr' \in [Workers -> TxSet]
          /\ wr'[w] = [wr[w] EXCEPT !.inf = {e}]
          /\ WritesOK(wr[w])'
          /\ \A o \in Workers : o # w => Disjoint(wr'[w], wr[o])
                                         /\ Disjoint(wr[o], wr'[w])
      BY <1>1, <2>2, <2>3, <2>4, InfoWrite
    <2>6. TypeOK'
      BY <1>t, <1>5, <2>3, <2>5
         DEF TypeOK, TxSet, ImportInfo, Steps, Goto, rows, files, locals
    <2>7. /\ wr'[w].ver = wr[w].ver /\ wr'[w].rel = wr[w].rel
          /\ wr'[w].cur = wr[w].cur /\ wr'[w].inf = {e}
      BY <1>t, <2>5 DEF TypeOK
    <2>8. EntityOK(w)' /\ RowOK(w)'
      BY <1>t, <1>1, <1>2, <2>2, <2>3, <2>7
         DEF Local, EntityOK, RowOK, Exists, tables, locals
    <2>9. CurrentOK(w)' /\ FilesOK(w)'
      BY <1>t, <1>1, <2>3, <2>7
         DEF Local, CurrentOK, FilesOK, PointersIn, tables, locals, Path
    <2> QED BY <1>1, <1>3, <2>5, <2>6, <2>8, <2>9, Frame DEF Local
  <1>6. CASE ReleaseInfo(w)
    <2>1. PICK e : e = [ent[w] EXCEPT !.status = "released"]
      OBVIOUS
    <2>2. e \in Entities /\ e.id = ent[w].id
      BY <1>2, <2>1 DEF Entities, Status
    <2>3. /\ wr' = [wr EXCEPT ![w].inf = wr[w].inf \cup {e}]
          /\ ~InfoLocked(w, e) /\ pc[w] = "relInfo"
          /\ todo' = [todo EXCEPT ![w] = todo[w] \ {ent[w]}]
          /\ \/ Goto(w, "pack") /\ UNCHANGED ent
             \/ Goto(w, "notify") /\ UNCHANGED ent
             \/ \E f \in todo[w] : /\ ent' = [ent EXCEPT ![w] = f]
                                   /\ Goto(w, "relRead")
      BY <1>t, <1>6, <2>1 DEF TypeOK, ReleaseInfo, InfoWritable, First
    <2>4. /\ Exists(ent[w].id) /\ \A x \in wr[w].inf : Exists(x.id)
          /\ \A x \in todo[w] : Exists(x.id)
      BY <1>t, <2>3 DEF Local, EntityOK
    <2>s. PICK S : S = wr[w].inf \cup {e}
      OBVIOUS
    <2>r. /\ S \subseteq wr[w].inf \cup {e} /\ e \in S
          /\ wr' = [wr EXCEPT ![w].inf = S]
          /\ \A x \in wr[w].inf : Exists(x.id) \/ x.id = e.id
      BY <2>3, <2>4, <2>s
    <2>5. /\ wr' \in [Workers -> TxSet]
          /\ wr'[w] = [wr[w] EXCEPT !.inf = S]
          /\ WritesOK(wr[w])'
          /\ \A o \in Workers : o # w => Disjoint(wr'[w], wr[o])
                                         /\ Disjoint(wr[o], wr'[w])
      BY <1>1, <2>2, <2>3, <2>r, InfoWrite
    <2>6. TypeOK'
      <3>1. /\ pc' \in [Workers -> Steps]
            /\ ent' \in [Workers -> Entities \cup {Null}]
            /\ todo' \in [Workers -> SUBSET Entities]
        <4>1. todo' \in [Workers -> SUBSET Entities]
          BY <1>t, <2>3 DEF TypeOK
        <4>2. pc' \in [Workers -> Steps]
          BY <1>t, <2>3 DEF TypeOK, Steps, Goto
        <4>3. ASSUME NEW f \in todo[w] PROVE f \in Entities
          BY <1>t DEF TypeOK
        <4>4. ent' \in [Workers -> Entities \cup {Null}]
          BY <1>t, <2>3, <4>3 DEF TypeOK
        <4> QED BY <4>1, <4>2, <4>4
      <3> QED BY <1>t, <1>6, <2>5, <3>1
              DEF TypeOK, TxSet, ReleaseInfo, rows, files
    <2>7. /\ wr'[w].ver = wr[w].ver /\ wr'[w].rel = wr[w].rel
          /\ wr'[w].cur = wr[w].cur /\ wr'[w].inf = wr[w].inf \cup {e}
      BY <1>t, <2>5, <2>s DEF TypeOK
    <2>8. /\ todo'[w] \subseteq todo[w]
          /\ \/ pc'[w] \in {"pack", "notify"}
             \/ pc'[w] = "relRead" /\ ent'[w] \in todo[w]
      BY <1>t, <2>3 DEF TypeOK, Goto
    <2>9. pc'[w] = "relRead" => ent'[w] # Null /\ Exists(ent[w].id)'
      BY <1>t, <1>1, <2>4, <2>8, ConfigServerAssumption
         DEF TypeOK, Exists, tables
    <2>10. EntityOK(w)'
      BY <1>1, <2>2, <2>4, <2>7, <2>8, <2>9 DEF EntityOK, Exists, tables
    <2>p. pc'[w] \in {"pack", "notify", "relRead"}
      BY <2>8
    <2>11. RowOK(w)' /\ CurrentOK(w)'
      BY <2>p DEF RowOK, CurrentOK
    <2>f. \A v \in wr[w].ver : store[Path(v)] # Null
      BY <1>t, <2>3 DEF Local, FilesOK
    <2>12. FilesOK(w)'
      BY <2>f, <1>1, <2>7, <2>p DEF FilesOK, Path
    <2> QED BY <1>1, <1>3, <2>5, <2>6, <2>10, <2>11, <2>12, Frame DEF Local
  <1> QED BY <1>4, <1>5, <1>6

\* AddConfig inserts a config_info row, and so does an import of a new name.
LEMMA NewInfoPreserves ==
    ASSUME IInv, NEW w \in Workers, AddInfo(w) \/ ImportRead(w)
    PROVE  IInv'
  <1>t. TypeOK /\ Local(w) /\ RowsOK
    BY DEF IInv
  <1>1. UNCHANGED <<tables, store, todo, cur>> /\ StoreGrows
    BY DEF AddInfo, ImportRead, rows, files, tables, StoreGrows
  <1>2. OnlyWorker(w)
    <2>1. /\ \E l : pc' = [pc EXCEPT ![w] = l]
          /\ \E e : ent' = [ent EXCEPT ![w] = e]
          /\ \E r : row' = [row EXCEPT ![w] = r]
          /\ \E d : data' = [data EXCEPT ![w] = d]
          /\ wr' = wr \/ \E S : wr' = [wr EXCEPT ![w].inf = S]
          /\ todo' = todo /\ cur' = cur
      BY ZenonT(40) DEF AddInfo, ImportRead, Goto
    <2> QED BY <1>t, <2>1 DEF TypeOK, OnlyWorker
  <1>3. /\ pc[w] \in {"addInfo", "impRead"}
        /\ \A x \in wr[w].inf : Exists(x.id)
        /\ \A v \in wr[w].ver : store[Path(v)] # Null
        /\ \A x \in todo[w] : Exists(x.id)
        /\ wr[w].cur = {}
    BY <1>t DEF Local, EntityOK, RowOK, CurrentOK, FilesOK, AddInfo, ImportRead
  <1>4. PICK i \in IDs, n \in Names, d \in Data :
           /\ row' = [row EXCEPT ![w] = [id |-> i, name |-> n, num |-> 1,
                                         digest |-> d]]
           /\ data' = [data EXCEPT ![w] = d]
           /\ \/ /\ info[i].name = n
                 /\ ent' = [ent EXCEPT ![w] = Entity(i)]
                 /\ UNCHANGED wr
                 /\ ImportRead(w)
              \/ /\ FreshID(i)
                 /\ InfoWritable(w, [id |-> i, name |-> n,
                                     status |-> "created"])
                 /\ wr' = [wr EXCEPT ![w].inf =
                             {[id |-> i, name |-> n, status |-> "created"]}]
                 /\ ent' = [ent EXCEPT ![w] = [id |-> i, name |-> n,
                                               status |-> "created"]]
    BY ZenonT(40) DEF AddInfo, ImportRead
  <1>5. PICK e : e = [id |-> i, name |-> n, status |-> "created"]
    OBVIOUS
  <1>6. e \in Entities /\ e.id = i /\ e # Null
    BY <1>5, ConfigServerAssumption DEF Entities, Status
  <1>7. /\ row' = [row EXCEPT ![w] = row'[w]]
        /\ row'[w] = [id |-> i, name |-> n, num |-> 1, digest |-> d]
        /\ row'[w].id = i /\ row'[w].num = 1 /\ data'[w] = d
    BY <1>t, <1>4 DEF TypeOK
  <1>8. data'[w] # Null
    BY <1>7, ConfigServerAssumption
  <1>9. row'[w] \in Versions /\ row'[w] # Null
    BY <1>7, ConfigServerAssumption DEF Versions
  <1>10. \/ pc[w] = "addInfo" /\ pc'[w] = "addStore" /\ AddInfo(w)
         \/ pc[w] = "impRead" /\ pc'[w] = "impLoad" /\ ImportRead(w)
    BY <1>t DEF TypeOK, AddInfo, ImportRead, Goto
  <1>11. CASE /\ FreshID(i) /\ InfoWritable(w, e)
              /\ wr' = [wr EXCEPT ![w].inf = {e}]
              /\ ent' = [ent EXCEPT ![w] = e]
    <2>1. /\ wr' \in [Workers -> TxSet]
          /\ wr'[w] = [wr[w] EXCEPT !.inf = {e}]
          /\ WritesOK(wr[w])'
          /\ \A o \in Workers : o # w => Disjoint(wr'[w], wr[o])
                                         /\ Disjoint(wr[o], wr'[w])
      BY <1>1, <1>3, <1>6, <1>11, InfoWrite DEF InfoWritable
    <2>2. TypeOK'
      <3>1. /\ row' \in [Workers -> Versions \cup {Null}]
            /\ data' \in [Workers -> Data \cup {Null}]
            /\ ent' \in [Workers -> Entities \cup {Null}]
        BY <1>t, <1>4, <1>6, <1>7, <1>9, <1>11 DEF TypeOK
      <3>2. pc' \in [Workers -> Steps] /\ UNCHANGED <<rows, files, todo, cur>>
        <4>1. UNCHANGED <<rows, files, todo, cur>>
          BY Zenon DEF AddInfo, ImportRead
        <4>2. \E l \in {"addStore", "impLoad"} : pc' = [pc EXCEPT ![w] = l]
          BY Zenon DEF AddInfo, ImportRead, Goto
        <4> QED BY <1>t, <4>1, <4>2 DEF TypeOK, Steps
      <3> QED BY <1>t, <2>1, <3>1, <3>2 DEF TypeOK, TxSet, rows, files
    <2>3. /\ wr'[w].ver = wr[w].ver /\ wr'[w].inf = {e}
          /\ wr'[w].cur = {} /\ ent'[w] = e
      BY <1>t, <1>3, <1>11, <2>1 DEF TypeOK
    <2>4. info[i].name = Null
      BY <1>11 DEF FreshID, Exists
    <2>5. EntityOK(w)'
      BY <1>1, <1>3, <1>6, <1>10, <2>3, <2>4 DEF EntityOK, Exists, tables
    <2>6. RowOK(w)'
      BY <1>6, <1>7, <1>9, <1>10, <2>3 DEF RowOK
    <2>7. CurrentOK(w)'
      BY <1>10 DEF CurrentOK
    <2>8. FilesOK(w)'
      BY <1>1, <1>3, <1>8, <1>10, <2>3 DEF FilesOK, Path
    <2> QED BY <1>1, <1>2, <2>1, <2>2, <2>5, <2>6, <2>7, <2>8, Frame DEF Local
  <1>12. CASE /\ info[i].name = n /\ UNCHANGED wr /\ ImportRead(w)
              /\ ent' = [ent EXCEPT ![w] = Entity(i)]
    <2>1. /\ Exists(i) /\ Entity(i) \in Entities /\ Entity(i).id = i
          /\ Entity(i) # Null
      BY <1>t, <1>12, ConfigServerAssumption
         DEF TypeOK, Exists, Entity, Entities, Infos
    <2>2. ent'[w] = Entity(i) /\ wr'[w] = wr[w] /\ pc'[w] = "impLoad"
      BY <1>t, <1>10, <1>12 DEF TypeOK, ImportRead, Goto
    <2>3. TypeOK'
      BY <1>t, <1>4, <1>7, <1>9, <1>12, <2>1
         DEF TypeOK, Steps, Goto, ImportRead, rows, files
    <2>5. EntityOK(w)'
      BY <1>1, <1>3, <2>1, <2>2 DEF EntityOK, Exists, tables
    <2>6. RowOK(w)'
      BY <1>3, <1>7, <1>9, <2>1, <2>2 DEF RowOK
    <2>7. CurrentOK(w)'
      BY <2>2 DEF CurrentOK
    <2>8. FilesOK(w)'
      BY <1>1, <1>3, <1>8, <2>2 DEF FilesOK, Path
    <2> QED BY <1>1, <1>2, <1>12, <2>3, <2>5, <2>6, <2>7, <2>8, QuietFrame
            DEF Local
  <1> QED BY <1>4, <1>5, <1>11, <1>12

\* An import reads the config_current row.
LEMMA ImportLoadPreserves ==
    ASSUME IInv, NEW w \in Workers, ImportLoad(w)
    PROVE  IInv'
  <1>t. TypeOK /\ Local(w) /\ RowsOK
    BY DEF IInv
  <1>1. /\ UNCHANGED <<tables, wr, store, ent, todo, row, data>>
        /\ OnlyWorker(w) /\ StoreGrows
        /\ pc[w] = "impLoad" /\ pc'[w] = "impStore"
    BY <1>t DEF TypeOK, ImportLoad, Goto, rows, files, tables, OnlyWorker,
                StoreGrows
  <1>2. ent[w] \in Entities /\ ent[w].id \in IDs
    BY <1>t, <1>1 DEF TypeOK, Local, EntityOK, Entities
  <1>3. /\ cur'[w] = current[ent[w].id] /\ cur'[w] \in Currents
        /\ PointersIn(cur'[w], ent[w].id, versions, releases)
    BY <1>t, <1>2 DEF TypeOK, RowsOK, ImportLoad
  <1>4. TypeOK'
    BY <1>t, <1>3 DEF TypeOK, ImportLoad, Goto, Steps, rows, files
  <1>5. EntityOK(w)'
    BY <1>t, <1>1 DEF Local, EntityOK, Exists, tables
  <1>6. RowOK(w)'
    BY <1>t, <1>1 DEF Local, RowOK
  <1>7. CurrentOK(w)'
    BY <1>1, <1>3 DEF CurrentOK, PointersIn, tables
  <1>8. FilesOK(w)'
    BY <1>t, <1>1 DEF Local, FilesOK, Path
  <1> QED BY <1>1, <1>4, <1>5, <1>6, <1>7, <1>8, QuietFrame DEF Local

\* CreateConfigVersion with a free key whose predecessor is committed.
LEMMA VersionWrite ==
    ASSUME IInv, NEW w \in Workers, NEW v \in Versions, UNCHANGED tables,
           ~VersionLocked(w, v), ~VersionExists(v), HasPreviousVersion(v),
           Exists(v.id) \/ \E e \in wr[w].inf : e.id = v.id,
           wr' = [wr EXCEPT ![w].ver = {v}], wr[w].cur = {}
    PROVE  /\ wr' \in [Workers -> TxSet]
           /\ wr'[w].ver = {v} /\ wr'[w].rel = wr[w].rel
           /\ wr'[w].cur = {} /\ wr'[w].inf = wr[w].inf
           /\ WritesOK(wr[w])'
           /\ \A o \in Workers : o # w => Disjoint(wr'[w], wr[o])
                                          /\ Disjoint(wr[o], wr'[w])
  <1>t. TypeOK /\ WritesOK(wr[w])
    BY DEF IInv
  <1>1. wr' \in [Workers -> TxSet]
    <2>1. ASSUME NEW t \in TxSet PROVE [t EXCEPT !.ver = {v}] \in TxSet
      BY DEF TxSet
    <2>2. wr \in [Workers -> TxSet]
      BY <1>t DEF TypeOK, TxSet
    <2> QED BY <2>1, <2>2
  <1>2. /\ wr'[w].ver = {v} /\ wr'[w].rel = wr[w].rel
        /\ wr'[w].cur = {} /\ wr'[w].inf = wr[w].inf
    BY <1>t DEF TypeOK
  <1>3. WritesOK(wr[w])'
    BY <1>t, <1>2 DEF tables, WritesOK, PointersIn, Exists, HasPreviousVersion,
                      HasPreviousRelease, VersionExists
  <1>4. ASSUME NEW o \in Workers, o # w
        PROVE  Disjoint(wr'[w], wr[o]) /\ Disjoint(wr[o], wr'[w])
    BY <1>2, <1>4 DEF IInv, Disjoint, VersionLocked, Others, SameVersion
  <1> QED BY <1>1, <1>2, <1>3, <1>4

\* Steps that insert a version row.
LEMMA InsertPreserves ==
    ASSUME IInv, NEW w \in Workers,
           UpdateInsert(w) \/ RollbackInsert(w) \/ ImportInsert(w)
    PROVE  IInv'
  <1>t. TypeOK /\ Local(w)
    BY DEF IInv
  <1>1. /\ UNCHANGED <<tables, store, todo, row, data>> /\ StoreGrows
        /\ ~VersionLocked(w, row[w]) /\ ~VersionExists(row[w])
        /\ wr' = [wr EXCEPT ![w].ver = {row[w]}]
    BY DEF UpdateInsert, RollbackInsert, ImportInsert, InsertVersion, rows,
           files, locals, tables, StoreGrows
  <1>2. OnlyWorker(w)
    BY <1>t, <1>1 DEF TypeOK, OnlyWorker, UpdateInsert, RollbackInsert,
                      ImportInsert, Goto, locals
  <1>3. /\ pc[w] \in {"updInsert", "rbkInsert", "impInsert"}
        /\ row[w] \in Versions /\ row[w].id = ent[w].id /\ ent[w] \in Entities
        /\ wr[w].cur = {}
        /\ Exists(row[w].id) \/ \E e \in wr[w].inf : e.id = row[w].id
    BY <1>t DEF TypeOK, Local, EntityOK, RowOK, UpdateInsert, RollbackInsert,
                ImportInsert
  <1>4. HasPreviousVersion(row[w])
    <2>1. CASE pc[w] = "impInsert"
      BY <1>t, <2>1 DEF Local, RowOK, HasPreviousVersion
    <2>2. CASE pc[w] # "impInsert"
      <3>1. /\ cur[w].ver \in versions /\ cur[w].ver.id = row[w].id
            /\ row[w].num = cur[w].ver.num + 1 /\ cur[w].ver.num \in Nat
        BY <1>t, <1>3, <2>2
           DEF TypeOK, Local, RowOK, CurrentOK, PointersIn, Versions
      <3> QED BY <3>1 DEF HasPreviousVersion
    <2> QED BY <2>1, <2>2
  <1>5. PICK v : v = row[w]
    OBVIOUS
  <1>6. /\ wr' \in [Workers -> TxSet]
        /\ wr'[w].ver = {v} /\ wr'[w].rel = wr[w].rel
        /\ wr'[w].cur = {} /\ wr'[w].inf = wr[w].inf
        /\ WritesOK(wr[w])'
        /\ \A o \in Workers : o # w => Disjoint(wr'[w], wr[o])
                                       /\ Disjoint(wr[o], wr'[w])
    BY <1>1, <1>3, <1>4, <1>5, VersionWrite
  <1>7. CASE UpdateInsert(w)
    <2>1. /\ cur' = [cur EXCEPT ![w].ver = row[w]] /\ pc[w] = "updInsert"
          /\ ent' = [ent EXCEPT ![w].status =
                                   IF @ = "created" THEN @ ELSE "updated"]
          /\ pc' = [pc EXCEPT ![w] = "updInfo"] /\ pc'[w] = "updInfo"
      BY <1>t, <1>7 DEF TypeOK, UpdateInsert, Goto
    <2>2. ent'[w] \in Entities /\ ent'[w].id = ent[w].id /\ ent'[w] # Null
      <3>1. PICK s \in {ent[w].status, "updated"} : ent' = [ent EXCEPT ![w].status = s]
        BY <2>1
      <3>2. s \in Status /\ ent[w] \in Entities
        BY <1>3 DEF Entities, Status
      <3>3. [ent[w] EXCEPT !.status = s] \in Entities
            /\ [ent[w] EXCEPT !.status = s].id = ent[w].id
        BY <3>2 DEF Entities
      <3>4. ent'[w] = [ent[w] EXCEPT !.status = s]
        BY <1>t, <3>1, Zenon DEF TypeOK
      <3>5. \A e \in Entities : e # Null
        BY ConfigServerAssumption DEF Entities, Status
      <3> QED BY <3>3, <3>4, <3>5, Zenon
    <2>3. /\ cur'[w] \in Currents /\ cur'[w].ver = row[w]
          /\ cur'[w].rel = cur[w].rel /\ cur'[w].pre = cur[w].pre
      BY <1>t, <1>3, <2>1 DEF TypeOK, Currents
    <2>4. TypeOK'
      <3>1. pc' \in [Workers -> Steps]
        BY <1>t, <2>1 DEF TypeOK, Steps
      <3>2. ent' \in [Workers -> Entities \cup {Null}]
        BY <1>t, <2>1, <2>2 DEF TypeOK
      <3>3. cur' \in [Workers -> Currents]
        BY <1>t, <2>1, <2>3 DEF TypeOK
      <3>4. UNCHANGED <<rows, files, todo, row, data>>
        BY <1>1, <1>7, Zenon DEF UpdateInsert, rows, files
      <3> QED BY <1>t, <1>6, <3>1, <3>2, <3>3, <3>4, Zenon DEF TypeOK, TxSet, rows, files
    <2>5. EntityOK(w)'
      BY <1>t, <1>1, <1>6, <2>1, <2>2 DEF Local, EntityOK, Exists, tables
    <2>6. RowOK(w)'
      BY <1>6, <2>1 DEF RowOK
    <2>7. CurrentOK(w)'
      BY <1>t, <1>1, <1>3, <1>5, <1>6, <2>1, <2>2, <2>3
         DEF Local, CurrentOK, PointersIn, tables
    <2>8. FilesOK(w)'
      BY <1>t, <1>1, <1>5, <1>6, <2>1 DEF Local, FilesOK, Path
    <2> QED BY <1>1, <1>2, <1>6, <2>4, <2>5, <2>6, <2>7, <2>8, Frame DEF Local
  <1>8. CASE RollbackInsert(w) \/ ImportInsert(w)
    <2>1. /\ UNCHANGED locals
          /\ \/ pc[w] = "rbkInsert" /\ Goto(w, "rbkStore")
             \/ pc[w] = "impInsert" /\ Goto(w, "impInfo")
      BY <1>8 DEF RollbackInsert, ImportInsert
    <2>2. \/ pc[w] = "rbkInsert" /\ pc'[w] = "rbkStore"
          \/ pc[w] = "impInsert" /\ pc'[w] = "impInfo"
      BY <1>t, <2>1 DEF TypeOK, Goto
    <2>3. TypeOK'
      BY <1>t, <1>6, <1>8, <2>1
         DEF TypeOK, TxSet, Steps, Goto, RollbackInsert, ImportInsert, rows,
             files, locals
    <2>4. EntityOK(w)'
      BY <1>t, <1>1, <1>6, <2>1, <2>2
         DEF Local, EntityOK, Exists, tables, locals
    <2>5. RowOK(w)'
      BY <1>3, <1>5, <1>6, <2>1, <2>2 DEF RowOK, locals
    <2>6. CurrentOK(w)'
      BY <1>t, <1>1, <2>1, <2>2
         DEF Local, CurrentOK, PointersIn, tables, locals
    <2>7. FilesOK(w)'
      BY <1>t, <1>1, <1>5, <1>6, <2>1, <2>2 DEF Local, FilesOK, Path, locals
    <2> QED BY <1>1, <1>2, <1>6, <2>3, <2>4, <2>5, <2>6, <2>7, Frame DEF Local
  <1> QED BY <1>7, <1>8

\* releaseConfig inserts the release that follows the one it has read.
LEMMA ReleaseInsertPreserves ==
    ASSUME IInv, NEW w \in Workers, ReleaseInsert(w)
    PROVE  IInv'
  <1>t. TypeOK /\ Local(w) /\ WritesOK(wr[w])
    BY DEF IInv
  <1>1. /\ UNCHANGED <<tables, store, ent, todo, row, data>> /\ StoreGrows
        /\ pc[w] = "relInsert" /\ pc'[w] = "relCurrent"
    BY <1>t DEF TypeOK, ReleaseInsert, rows, files, tables, StoreGrows, Goto
  <1>2. OnlyWorker(w)
    BY <1>t DEF TypeOK, OnlyWorker, ReleaseInsert, Goto
  <1>3. /\ ent[w] \in Entities /\ ent[w] # Null /\ Exists(ent[w].id)
        /\ PointersIn(cur[w], ent[w].id, versions, releases)
        /\ cur[w].ver # Null /\ row[w] = cur[w].ver
        /\ ReleaseNum(cur[w].rel) < MaxRelease /\ HasUpdates(cur[w])
        /\ cur[w] \in Currents
    BY <1>t, <1>1 DEF TypeOK, Local, EntityOK, CurrentOK
  <1>4. PICK r : r = NewRelease(w)
    OBVIOUS
  <1>5. ReleaseNum(cur[w].rel) \in Nat
    BY <1>3 DEF Currents, Releases, ReleaseNum
  <1>6. /\ r \in Releases /\ r.id = ent[w].id /\ r.ver = cur[w].ver
        /\ r.num = ReleaseNum(cur[w].rel) + 1 /\ r # Null
    <2>1. /\ r.id = ent[w].id /\ r.ver = cur[w].ver
          /\ r.num = ReleaseNum(cur[w].rel) + 1
      BY <1>3, <1>4 DEF NewRelease
    <2>2. r \in Releases
      BY <1>3, <1>4, <1>5, ConfigServerAssumption
         DEF NewRelease, Releases, Currents, Entities
    <2> QED BY <2>1, <2>2, ConfigServerAssumption
  <1>7. HasPreviousRelease(r)
    <2>1. CASE cur[w].rel = Null
      BY <1>6, <2>1 DEF HasPreviousRelease, ReleaseNum
    <2>2. CASE cur[w].rel # Null
      BY <1>3, <1>5, <1>6, <2>2
         DEF HasPreviousRelease, ReleaseNum, PointersIn, HasUpdates
    <2> QED BY <2>1, <2>2
  <1>8. /\ ~ReleaseLocked(w, r) /\ ~ReleaseExists(w, r)
        /\ wr' = [wr EXCEPT ![w].rel = @ \cup {r}]
        /\ cur' = [cur EXCEPT ![w] = Released(cur[w], r)]
    BY <1>4 DEF ReleaseInsert
  <1>9. wr' \in [Workers -> TxSet]
    <2>1. ASSUME NEW t \in TxSet PROVE [t EXCEPT !.rel = @ \cup {r}] \in TxSet
      BY <1>6 DEF TxSet
    <2>2. wr \in [Workers -> TxSet]
      BY <1>t DEF TypeOK, TxSet
    <2> QED BY <1>8, <2>1, <2>2
  <1>10. /\ wr'[w].ver = wr[w].ver /\ wr'[w].rel = wr[w].rel \cup {r}
         /\ wr'[w].cur = wr[w].cur /\ wr'[w].inf = wr[w].inf
    BY <1>t, <1>8 DEF TypeOK
  <1>11. WritesOK(wr[w])'
    <2>1. ASSUME NEW q \in wr[w].rel \cup {r}
          PROVE  /\ q.ver \in versions /\ q.ver.id = q.id
                 /\ HasPreviousRelease(q)
                 /\ \A x \in releases : ~SameRelease(x, q)
                 /\ \A x \in wr[w].rel \cup {r} : SameRelease(x, q) => x = q
      BY <1>t, <1>3, <1>6, <1>7, <1>8
         DEF WritesOK, PointersIn, ReleaseExists, SameRelease
    <2> QED BY <1>t, <1>1, <1>10, <2>1
            DEF tables, WritesOK, PointersIn, Exists, HasPreviousVersion,
                HasPreviousRelease, VersionExists
  <1>12. ASSUME NEW o \in Workers, o # w
         PROVE  Disjoint(wr'[w], wr[o]) /\ Disjoint(wr[o], wr'[w])
    BY <1>8, <1>10, <1>12 DEF IInv, Disjoint, ReleaseLocked, Others, SameRelease
  <1>13. /\ cur'[w].ver = cur[w].ver /\ cur'[w].rel = r
         /\ cur'[w].pre = cur[w].rel /\ cur'[w] \in Currents
    BY <1>t, <1>3, <1>6, <1>8 DEF TypeOK, Released, Currents
  <1>14. TypeOK'
    <2>1. cur' \in [Workers -> Currents] /\ pc' \in [Workers -> Steps]
      BY <1>t, <1>8, <1>13 DEF TypeOK, Steps, ReleaseInsert, Goto
    <2> QED BY <1>t, <1>9, <2>1 DEF TypeOK, TxSet, ReleaseInsert, rows, files
  <1>15. EntityOK(w)'
    BY <1>t, <1>1, <1>3, <1>10 DEF Local, EntityOK, Exists, tables
  <1>16. RowOK(w)'
    BY <1>1 DEF RowOK
  <1>17. CurrentOK(w)'
    BY <1>1, <1>3, <1>6, <1>10, <1>13 DEF CurrentOK, PointersIn, tables
  <1>18. FilesOK(w)'
    BY <1>t, <1>1, <1>10 DEF Local, FilesOK, Path
  <1> QED BY <1>1, <1>2, <1>11, <1>12, <1>14, <1>15, <1>16, <1>17, <1>18, Frame
          DEF Local

\* Steps that write the config_current row before the last statement.
LEMMA CurrentPreserves ==
    ASSUME IInv, NEW w \in Workers, ReleaseCurrent(w) \/ RollbackCurrent(w)
    PROVE  IInv'
  <1>t. TypeOK /\ Local(w) /\ WritesOK(wr[w])
    BY DEF IInv
  <1>1. UNCHANGED <<tables, store, locals>> /\ StoreGrows
    BY DEF ReleaseCurrent, RollbackCurrent, WriteCurrent, rows, files, tables,
           StoreGrows
  <1>2. OnlyWorker(w)
    BY <1>t DEF TypeOK, OnlyWorker, ReleaseCurrent, RollbackCurrent,
                WriteCurrent, Goto, locals
  <1>3. PICK c : /\ wr' = [wr EXCEPT ![w].cur =
                                   @ \cup {[id |-> ent[w].id, val |-> c]}]
                 /\ \/ /\ pc[w] = "relCurrent" /\ pc'[w] = "relInfo"
                       /\ c = cur[w]
                    \/ /\ pc[w] = "rbkCurrent" /\ pc'[w] = "rbkInfo"
                       /\ c = [cur[w] EXCEPT !.ver = row[w]]
                 /\ pc' = [pc EXCEPT ![w] = pc'[w]]
    BY <1>t DEF TypeOK, ReleaseCurrent, RollbackCurrent, WriteCurrent, Goto
  <1>4. /\ ent[w] \in Entities /\ ent[w].id \in IDs /\ ent[w] # Null
        /\ Exists(ent[w].id)
        /\ c \in Currents
        /\ PointersIn(c, ent[w].id, versions \cup wr[w].ver,
                      releases \cup wr[w].rel)
    <2>1. ent[w] \in Entities /\ ent[w].id \in IDs /\ ent[w] # Null
          /\ Exists(ent[w].id)
      BY <1>t, <1>3 DEF TypeOK, Local, EntityOK, Entities
    <2>2. CASE pc[w] = "relCurrent"
      BY <1>t, <1>3, <2>1, <2>2 DEF TypeOK, Local, CurrentOK
    <2>3. CASE pc[w] = "rbkCurrent"
      <3>1. c = [cur[w] EXCEPT !.ver = row[w]] /\ cur[w] \in Currents
            /\ row[w] \in wr[w].ver /\ row[w] \in Versions
            /\ row[w].id = ent[w].id
            /\ PointersIn(cur[w], ent[w].id, versions, releases)
        BY <1>t, <1>3, <2>3 DEF TypeOK, Local, RowOK, CurrentOK
      <3> QED BY <2>1, <3>1 DEF Currents, PointersIn
    <2> QED BY <1>3, <2>1, <2>2, <2>3
  <1>5. PICK x : x = [id |-> ent[w].id, val |-> c]
    OBVIOUS
  <1>6. x \in CurrentWrites /\ x.id = ent[w].id /\ x.val = c
    BY <1>4, <1>5 DEF CurrentWrites
  <1>7. wr' \in [Workers -> TxSet]
    <2>1. ASSUME NEW t \in TxSet PROVE [t EXCEPT !.cur = @ \cup {x}] \in TxSet
      BY <1>6 DEF TxSet
    <2>2. wr \in [Workers -> TxSet]
      BY <1>t DEF TypeOK, TxSet
    <2> QED BY <1>3, <1>5, <2>1, <2>2
  <1>8. /\ wr'[w].ver = wr[w].ver /\ wr'[w].rel = wr[w].rel
        /\ wr'[w].cur = wr[w].cur \cup {x} /\ wr'[w].inf = wr[w].inf
    BY <1>t, <1>3, <1>5 DEF TypeOK
  <1>9. WritesOK(wr[w])'
    BY <1>t, <1>1, <1>4, <1>6, <1>8
       DEF tables, WritesOK, PointersIn, Exists, HasPreviousVersion,
           HasPreviousRelease, VersionExists
  <1>10. \A o \in Workers : o # w => Disjoint(wr'[w], wr[o])
                                     /\ Disjoint(wr[o], wr'[w])
    BY <1>8 DEF IInv, Disjoint
  <1>11. TypeOK'
    <2>1. UNCHANGED <<rows, files, locals>>
      BY DEF ReleaseCurrent, RollbackCurrent, WriteCurrent
    <2>2. pc' \in [Workers -> Steps]
      BY <1>t, <1>3 DEF TypeOK, Steps
    <2> QED BY <1>t, <1>7, <2>1, <2>2 DEF TypeOK, TxSet, rows, files, locals
  <1>12. EntityOK(w)'
    BY <1>t, <1>1, <1>3, <1>4, <1>8
       DEF Local, EntityOK, Exists, tables, locals
  <1>13. RowOK(w)' /\ CurrentOK(w)'
    BY <1>3 DEF RowOK, CurrentOK
  <1>14. FilesOK(w)'
    BY <1>t, <1>1, <1>3, <1>8 DEF Local, FilesOK, Path, locals
  <1> QED BY <1>1, <1>2, <1>9, <1>10, <1>11, <1>12, <1>13, <1>14, Frame
          DEF Local

\* AddConfig commits: nobody else can know the new config_info id.
LEMMA AddVersionPreserves ==
    ASSUME IInv, NEW w \in Workers, AddVersion(w)
    PROVE  IInv'
  <1>t. TypeOK /\ Local(w) /\ WritesOK(wr[w]) /\ RowsOK
    BY DEF IInv
  <1>1. /\ ent[w] \in Entities /\ ~Exists(ent[w].id) /\ ent[w] \in wr[w].inf
        /\ row[w] \in Versions /\ row[w].id = ent[w].id /\ row[w].num = 1
        /\ store[Path(row[w])] # Null
        /\ \A e \in wr[w].inf : Exists(e.id) \/ e.id = ent[w].id
        /\ row[w] # Null /\ ent[w].id \in IDs
    BY <1>t, ConfigServerAssumption
       DEF TypeOK, Local, EntityOK, RowOK, FilesOK, AddVersion, Entities
  <1>2. PICK c : c = [id |-> ent[w].id,
                      val |-> [NoCurrent EXCEPT !.ver = row[w]]]
    OBVIOUS
  <1>3. /\ c \in CurrentWrites /\ c.id = ent[w].id /\ c.val.ver = row[w]
        /\ c.val.rel = Null /\ c.val.pre = Null
    BY <1>1, <1>2 DEF CurrentWrites, Currents, NoCurrent
  <1>4. PICK t : t = [wr[w] EXCEPT !.ver = {row[w]}, !.cur = {c}]
    OBVIOUS
  <1>5. /\ t \in TxSet /\ t.ver = {row[w]} /\ t.cur = {c}
        /\ t.rel = wr[w].rel /\ t.inf = wr[w].inf
    <2>1. wr[w] \in TxSet
      BY <1>t DEF TypeOK, TxSet
    <2> QED BY <1>1, <1>3, <1>4, <2>1 DEF TxSet
  <1>6. Commit(w, t) /\ UNCHANGED files
    BY <1>2, <1>4 DEF AddVersion
  <1>7. WritesOK(t)
    <2>1. ~VersionExists(row[w])
      BY <1>t, <1>1 DEF RowsOK, VersionExists, SameVersion
    <2> QED BY <1>t, <1>1, <1>3, <1>5, <2>1
            DEF WritesOK, PointersIn, HasPreviousVersion
  <1>8. ASSUME NEW o \in Workers, o # w PROVE Disjoint(t, wr[o])
    <2>1. Disjoint(wr[w], wr[o]) /\ WritesOK(wr[o])
      BY <1>8 DEF IInv
    <2>2. \A b \in wr[o].ver : b.id # ent[w].id
      BY <1>1, <2>1 DEF Disjoint, WritesOK
    <2> QED BY <1>1, <1>5, <2>1, <2>2 DEF Disjoint, SameVersion
  <1> QED BY <1>1, <1>3, <1>5, <1>6, <1>7, <1>8, CommitPreserves

\* UpdateConfig and an import commit with the config_current row.
LEMMA CommitCurrentPreserves ==
    ASSUME IInv, NEW w \in Workers, UpdateCurrent(w) \/ ImportCurrent(w)
    PROVE  IInv'
  <1>t. TypeOK /\ Local(w) /\ WritesOK(wr[w])
    BY DEF IInv
  <1>1. PICK v : /\ CommitCurrent(w, v)
                 /\ \/ pc[w] = "updCurrent" /\ v = cur[w]
                    \/ /\ pc[w] = "impCurrent"
                       /\ v = [cur[w] EXCEPT !.ver = row[w]]
    BY DEF UpdateCurrent, ImportCurrent
  <1>2. ent[w] \in Entities /\ ent[w].id \in IDs
    BY <1>t, <1>1 DEF TypeOK, Local, EntityOK, Entities
  <1>3. /\ v \in Currents
        /\ PointersIn(v, ent[w].id, versions \cup wr[w].ver,
                      releases \cup wr[w].rel)
        /\ pc[w] = "impCurrent" => v.ver # Null
    <2>1. CASE pc[w] = "updCurrent"
      BY <1>t, <1>1, <2>1 DEF TypeOK, Local, CurrentOK
    <2>2. CASE pc[w] = "impCurrent"
      <3>1. /\ v = [cur[w] EXCEPT !.ver = row[w]] /\ cur[w] \in Currents
            /\ row[w] \in wr[w].ver /\ row[w] \in Versions
            /\ row[w].id = ent[w].id
            /\ PointersIn(cur[w], ent[w].id, versions, releases)
        BY <1>t, <1>1, <2>2 DEF TypeOK, Local, RowOK, CurrentOK
      <3> QED BY <3>1, ConfigServerAssumption DEF Currents, PointersIn
    <2> QED BY <1>1, <2>1, <2>2
  <1>4. PICK c : c = [id |-> ent[w].id, val |-> v]
    OBVIOUS
  <1>5. c \in CurrentWrites /\ c.id = ent[w].id /\ c.val = v
    BY <1>2, <1>3, <1>4 DEF CurrentWrites
  <1>6. PICK t : t = [wr[w] EXCEPT !.cur = {c}]
    OBVIOUS
  <1>7. /\ t \in TxSet /\ t.ver = wr[w].ver /\ t.cur = {c}
        /\ t.rel = wr[w].rel /\ t.inf = wr[w].inf
    <2>1. wr[w] \in TxSet
      BY <1>t DEF TypeOK, TxSet
    <2> QED BY <1>5, <1>6, <2>1 DEF TxSet
  <1>8. Commit(w, t) /\ UNCHANGED files
    BY <1>1, <1>4, <1>6 DEF CommitCurrent
  <1>9. WritesOK(t)
    BY <1>t, <1>3, <1>5, <1>7 DEF WritesOK
  <1>10. ASSUME NEW o \in Workers, o # w PROVE Disjoint(t, wr[o])
    BY <1>7, <1>10 DEF IInv, Disjoint
  <1>11. \A u \in t.ver : store[Path(u)] # Null
    BY <1>t, <1>1, <1>7 DEF Local, FilesOK
  <1>12. \A e \in t.inf : \/ Exists(e.id)
                          \/ pc[w] = "impCurrent" /\ e.id = ent[w].id
    BY <1>t, <1>1, <1>7 DEF Local, EntityOK
  <1> QED BY <1>3, <1>5, <1>7, <1>8, <1>9, <1>10, <1>11, <1>12, CommitPreserves

\* RollbackConfig commits with the config_info row, a release when the agent
\* has answered.
LEMMA CommitRestPreserves ==
    ASSUME IInv, NEW w \in Workers, RollbackInfo(w) \/ NotifyAgent(w)
    PROVE  IInv'
  <1>t. TypeOK /\ Local(w) /\ WritesOK(wr[w]) /\ wr[w] \in TxSet
    BY DEF IInv, TypeOK, TxSet
  <1>1. \A v \in wr[w].ver : store[Path(v)] # Null
    BY <1>t DEF Local, FilesOK, RollbackInfo, NotifyAgent
  <1>2. \A e \in wr[w].inf : Exists(e.id)
    BY <1>t DEF Local, EntityOK, RollbackInfo, NotifyAgent
  <1>3. CASE NotifyAgent(w)
    <2>1. PICK t : t = wr[w]
      OBVIOUS
    <2>2. t \in TxSet /\ Commit(w, t) /\ UNCHANGED files /\ WritesOK(t)
      BY <1>t, <1>3, <2>1 DEF NotifyAgent
    <2>3. \A o \in Workers : o # w => Disjoint(t, wr[o])
      BY <2>1 DEF IInv
    <2> QED BY <1>1, <1>2, <2>1, <2>2, <2>3, CommitPreserves
  <1>4. CASE RollbackInfo(w)
    <2>1. PICK e : e = RollbackEntity(ent[w])
      OBVIOUS
    <2>2. ent[w] \in Entities /\ Exists(ent[w].id)
      BY <1>t, <1>4 DEF TypeOK, Local, EntityOK, RollbackInfo
    <2>3. e \in Entities /\ e.id = ent[w].id /\ e.name = ent[w].name
      BY <2>1, <2>2 DEF RollbackEntity, Entities, Status
    <2>4. PICK t : t = [wr[w] EXCEPT !.inf = {e}]
      OBVIOUS
    <2>5. /\ t \in TxSet /\ t.ver = wr[w].ver /\ t.cur = wr[w].cur
          /\ t.rel = wr[w].rel /\ t.inf = {e}
      BY <1>t, <2>3, <2>4 DEF TxSet
    <2>6. Commit(w, t) /\ UNCHANGED files /\ ~InfoLocked(w, ent[w])
      BY <1>4, <2>1, <2>4 DEF RollbackInfo, InfoWritable
    <2>7. WritesOK(t)
      BY <1>t, <1>2, <2>5 DEF WritesOK
    <2>8. ASSUME NEW o \in Workers, o # w PROVE Disjoint(t, wr[o])
      BY <2>3, <2>5, <2>6, <2>8 DEF IInv, Disjoint, InfoLocked, Others
    <2> QED BY <1>1, <2>2, <2>3, <2>5, <2>6, <2>7, <2>8, CommitPreserves
  <1> QED BY <1>3, <1>4

-----------------------------------------------------------------------------
(* The theorems.                                                           *)

\* The invariant holds of an empty database.
LEMMA InitInvariant == Init => IInv
  <1> SUFFICES ASSUME Init PROVE IInv
    OBVIOUS
  <1>1. TypeOK
    BY TypeInit
  <1>2. ReleaseHistory /\ VersionHistory
    BY DEF Init, ReleaseHistory, VersionHistory
  <1>3. RowsOK
    BY DEF Init, RowsOK, PointersIn, NoCurrent, Exists
  <1>4. ASSUME NEW w \in Workers PROVE WritesOK(wr[w]) /\ Local(w)
    <2>1. /\ wr[w].ver = {} /\ wr[w].rel = {} /\ wr[w].cur = {}
          /\ wr[w].inf = {} /\ pc[w] = "idle" /\ todo[w] = {}
          /\ cur[w] = NoCurrent
      BY DEF Init, NoWrites
    <2> QED BY <2>1 DEF WritesOK, Local, EntityOK, RowOK, CurrentOK, FilesOK
  <1>5. ASSUME NEW w \in Workers, NEW o \in Workers
        PROVE  Disjoint(wr[w], wr[o])
    BY DEF Init, Disjoint, NoWrites
  <1> QED BY <1>1, <1>2, <1>3, <1>4, <1>5 DEF IInv

\* A step in which nothing happens.
LEMMA StutterPreserves == IInv /\ UNCHANGED vars => IInv'
  <1> SUFFICES ASSUME IInv, UNCHANGED vars PROVE IInv'
    OBVIOUS
  <1> QED BY DEF vars, rows, files, locals, IInv, TypeOK, ReleaseHistory,
             VersionHistory, RowsOK, WritesOK, Local, EntityOK, RowOK,
             CurrentOK, FilesOK, Disjoint, PointersIn, HasPreviousVersion,
             HasPreviousRelease, VersionExists, Exists

\* IInv is inductive.
THEOREM Invariant == Spec => []IInv
  <1>1. Init => IInv
    BY InitInvariant
  <1>2. ASSUME IInv, [Next]_vars PROVE IInv'
    <2>1. CASE UNCHANGED vars
      BY <1>2, <2>1, StutterPreserves
    <2>2. ASSUME NEW w \in Workers, Add(w) PROVE IInv'
      BY <1>2, <2>2, StartPreserves, NamespacePreserves, NewInfoPreserves,
         StorePreserves, AddVersionPreserves DEF Add
    <2>3. ASSUME NEW w \in Workers, Update(w) PROVE IInv'
      BY <1>2, <2>3, StartPreserves, ReadPreserves, StorePreserves,
         InsertPreserves, InfoPreserves, CommitCurrentPreserves DEF Update
    <2>4. ASSUME NEW w \in Workers, Release(w) PROVE IInv'
      BY <1>2, <2>4, StartPreserves, ReadPreserves, ReleaseInsertPreserves,
         CurrentPreserves, InfoPreserves, NamespacePreserves,
         CommitRestPreserves DEF Release
    <2>5. ASSUME NEW w \in Workers, Rollback(w) PROVE IInv'
      BY <1>2, <2>5, StartPreserves, ReadPreserves, InsertPreserves,
         StorePreserves, CurrentPreserves, CommitRestPreserves DEF Rollback
    <2>6. ASSUME NEW w \in Workers, Import(w) PROVE IInv'
      BY <1>2, <2>6, StartPreserves, NewInfoPreserves, ImportLoadPreserves,
         StorePreserves, InsertPreserves, InfoPreserves,
         CommitCurrentPreserves DEF Import
    <2>7. ASSUME NEW w \in Workers, Abort(w) PROVE IInv'
      BY <1>2, <2>7, AbortPreserves
    <2> QED BY <1>2, <2>1, <2>2, <2>3, <2>4, <2>5, <2>6, <2>7 DEF Next
  <1> QED BY <1>1, <1>2, PTL DEF Spec

\* Every variable keeps its type, for any number of concurrent requests.
THEOREM TypeCorrect == Spec => []TypeOK
  <1>1. IInv => TypeOK
    BY DEF IInv
  <1> QED BY <1>1, Invariant, PTL

\* Release numbers of a config are unique, have no gap, and two successive
\* releases never release the same version.
THEOREM ReleaseHistoryHolds == Spec => []ReleaseHistory
  <1>1. IInv => ReleaseHistory
    BY DEF IInv
  <1> QED BY <1>1, Invariant, PTL

\* Version numbers of a config have no gap, and no two rows share a key.
THEOREM VersionHistoryHolds == Spec => []VersionHistory
  <1>1. IInv => VersionHistory
    BY DEF IInv
  <1> QED BY <1>1, Invariant, PTL

\* config_current and release rows refer to committed rows of their config.
THEOREM ReferencesHold == Spec => []References
  <1>1. IInv => References
    BY DEF IInv, RowsOK, References, PointersIn
  <1> QED BY <1>1, Invariant, PTL

\* The file of every committed version is in the file database.
THEOREM VersionStoredHolds == Spec => []VersionStored
  <1>1. IInv => VersionStored
    BY DEF IInv, RowsOK, VersionStored
  <1> QED BY <1>1, Invariant, PTL

\* A file that is read is there: what is shown is never the absent row.
LEMMA FilesRead ==
    ASSUME IInv, NEW S \in SUBSET versions
    PROVE  /\ \A d \in visitConfigVersionData(S) : d # Null
           /\ \A v \in S : store[Path(v)] \in visitConfigVersionData(S)
  BY DEF IInv, RowsOK, visitConfigVersionData

\* The row of a config that exists is found by its id.
LEMMA InfoFound ==
    ASSUME NEW i \in IDs, Exists(i)
    PROVE  /\ Entity(i) \in GetConfigInfoByID(i)
           /\ \A e \in GetConfigInfoByID(i) : e.id = i
  BY DEF GetConfigInfoByID, Entity

\* What is shown of a committed version: something, and no error.
LEMMA FirstReadable ==
    ASSUME IInv, NEW v \in versions
    PROVE  FirstShown(v) # {} /\ Error \notin FirstShown(v)
  <1>1. /\ \A d \in visitConfigVersionData({v}) : d # Null
        /\ store[Path(v)] \in visitConfigVersionData({v})
    BY FilesRead
  <1> QED BY <1>1 DEF FirstShown, Error

\* What is shown of data in V against data in P.
ShownPairs(V, P, m) ==
    {[data |-> d, diff |-> diffConfigData(d, p), meta |-> m] : d \in V, p \in P}

\* Something is shown where there are data, and it is no error.
LEMMA ShownReadable ==
    ASSUME NEW V, NEW P, NEW m, \A d \in V : d # Null, V # {}, P # {}
    PROVE  ShownPairs(V, P, m) # {} /\ Error \notin ShownPairs(V, P, m)
  <1> DEFINE f(d, p) == [data |-> d, diff |-> diffConfigData(d, p), meta |-> m]
             S == {f(d, p) : d \in V, p \in P}
  <1>1. \A d, p : f(d, p).data = d
    OBVIOUS
  <1>2. Error.data = Null
    BY DEF Error
  <1> HIDE DEF f
  <1>3. Error \notin S
    BY <1>1, <1>2
  <1>4. S # {}
    <2>1. PICK d \in V, p \in P : TRUE
      OBVIOUS
    <2> QED BY <2>1
  <1> QED BY <1>3, <1>4 DEF f, ShownPairs

\* What is shown of two committed versions: something, and no error.
LEMMA ChangeReadable ==
    ASSUME IInv, NEW v \in versions, NEW u \in versions
    PROVE  Change(v, u) # {} /\ Error \notin Change(v, u)
  <1>1. /\ \A d \in visitConfigVersionData({v}) : d # Null
        /\ store[Path(v)] \in visitConfigVersionData({v})
        /\ store[Path(u)] \in visitConfigVersionData({u})
    BY FilesRead
  <1> DEFINE V == visitConfigVersionData({v})
             U == visitConfigVersionData({u})
             m == diffConfigMeta(v, u)
  <1>2. CASE v.digest = u.digest
    <2>1. Change(v, u) = {[data |-> d, diff |-> {}, meta |-> m] : d \in V}
      BY <1>2 DEF Change
    <2> HIDE DEF m
    <2> QED BY <1>1, <2>1 DEF Error
  <1>3. CASE v.digest # u.digest
    <2>1. Change(v, u) = ShownPairs(V, U, m)
      BY <1>3 DEF Change, ShownPairs
    <2>2. V # {} /\ U # {} /\ \A d \in V : d # Null
      BY <1>1
    <2> HIDE DEF m, V, U
    <2> QED BY <2>1, <2>2, ShownReadable
  <1> QED BY <1>2, <1>3

\* Answers adds an error only where there is no answer.
LEMMA AnswersReadable ==
    ASSUME NEW S, S # {}, Error \notin S
    PROVE  Error \notin Answers(S)
  BY DEF Answers

\* Every row of the change history can be opened.
LEMMA ChangesReadable ==
    ASSUME IInv, NEW v \in versions
    PROVE  Error \notin getChangeHistoryDetail(v.id, v)
  <1>1. v \in Versions /\ v.id \in IDs /\ Exists(v.id) /\ v.num \in Nat
    BY ConfigServerAssumption DEF IInv, TypeOK, RowsOK, Versions
  <1>2. ~Refused(v.id) /\ ~Refused(v)
    BY <1>1, ConfigServerAssumption DEF Refused
  <1> DEFINE Found == {y \in GetConfigVersionByID(v) : GetConfigInfoByID(v.id) # {}}
             Shown(x) == IF x.num < 2 THEN FirstShown(x)
                         ELSE UNION {Change(x, u) :
                                u \in GetConfigVersionByConfigInfoIDAndVersion(v.id, x.num - 1)}
  <1>3. Found = {v}
    BY <1>1, InfoFound DEF GetConfigVersionByID
  <1>4. Shown(v) # {} /\ Error \notin Shown(v)
    <2>1. CASE v.num < 2
      BY <2>1, FirstReadable
    <2>2. CASE ~(v.num < 2)
      <3>1. PICK u \in versions : u.id = v.id /\ u.num = v.num - 1
        BY <1>1, <2>2 DEF IInv, VersionHistory
      <3>2. u \in GetConfigVersionByConfigInfoIDAndVersion(v.id, v.num - 1)
        BY <3>1 DEF GetConfigVersionByConfigInfoIDAndVersion
      <3>3. \A x \in GetConfigVersionByConfigInfoIDAndVersion(v.id, v.num - 1) :
              Change(v, x) # {} /\ Error \notin Change(v, x)
        BY ChangeReadable DEF GetConfigVersionByConfigInfoIDAndVersion
      <3> QED BY <2>2, <3>2, <3>3
    <2> QED BY <2>1, <2>2
  <1>5. GetChangeHistoryDetail(v.id, v) = Answers(UNION {Shown(x) : x \in Found})
    BY DEF GetChangeHistoryDetail
  <1>6. UNION {Shown(x) : x \in Found} = Shown(v)
    BY <1>3
  <1> QED BY <1>2, <1>4, <1>5, <1>6, AnswersReadable DEF getChangeHistoryDetail

\* Every row of the release history can be opened.
LEMMA ReleasesReadable ==
    ASSUME IInv, NEW r \in releases
    PROVE  Error \notin getReleaseHistoryDetail(r.id, r)
  <1>1. /\ r \in Releases /\ r.id \in IDs /\ r.num \in Nat
        /\ r.ver \in versions /\ r.ver.id = r.id /\ Exists(r.id)
    BY ConfigServerAssumption DEF IInv, TypeOK, RowsOK, Releases
  <1>2. ~Refused(r.id) /\ ~Refused(r)
    BY <1>1, ConfigServerAssumption DEF Refused
  <1> DEFINE Found == {y \in GetReleaseByID(r) : GetConfigInfoByID(r.id) # {}}
             Shown(x) == IF x.num < 2 THEN FirstShown(x.ver)
                         ELSE UNION {Change(x.ver, p.ver) :
                                p \in GetReleaseByConfigInfoIDAndVersion(r.id, x.num - 1)}
  <1>3. Found = {r}
    BY <1>1, InfoFound DEF GetReleaseByID
  <1>4. Shown(r) # {} /\ Error \notin Shown(r)
    <2>1. CASE r.num < 2
      BY <1>1, <2>1, FirstReadable
    <2>2. CASE ~(r.num < 2)
      <3>1. PICK q \in releases : q.id = r.id /\ q.num = r.num - 1
        BY <1>1, <2>2 DEF IInv, ReleaseHistory
      <3>2. q \in GetReleaseByConfigInfoIDAndVersion(r.id, r.num - 1)
        BY <3>1 DEF GetReleaseByConfigInfoIDAndVersion
      <3>3. \A x \in GetReleaseByConfigInfoIDAndVersion(r.id, r.num - 1) :
              Change(r.ver, x.ver) # {} /\ Error \notin Change(r.ver, x.ver)
        <4>1. \A x \in releases : x.ver \in versions
          BY DEF IInv, RowsOK
        <4> QED BY <1>1, <4>1, ChangeReadable DEF GetReleaseByConfigInfoIDAndVersion
      <3> QED BY <2>2, <3>2, <3>3
    <2> QED BY <2>1, <2>2
  <1>5. GetReleaseHistoryDetail(r.id, r) = Answers(UNION {Shown(x) : x \in Found})
    BY DEF GetReleaseHistoryDetail
  <1>6. UNION {Shown(x) : x \in Found} = Shown(r)
    BY <1>3
  <1> QED BY <1>2, <1>4, <1>5, <1>6, AnswersReadable DEF getReleaseHistoryDetail

\* A config that exists, and what its release would change, can be shown.
LEMMA ConfigReadable ==
    ASSUME IInv, NEW i \in IDs, Exists(i)
    PROVE  Error \notin getConfigDetail(i) \cup getReleaseDetail(i)
  <1> DEFINE c == current[i].ver
             V == visitConfigVersionData({c})
             Found == GetConfigInfoByID(i)
  <1>1. c \in versions
    BY DEF IInv, RowsOK, PointersIn
  <1>2. /\ \A d \in V : d # Null
        /\ store[Path(c)] \in V
    BY <1>1, FilesRead
  <1>3. Entity(i) \in Found /\ \A e \in Found : e.id = i
    BY InfoFound
  <1>4. \A e \in Found : visitConfigData(e) = V
    <2>1. \A e \in Found : GetConfigVersionByID(current[e.id].ver) = {c}
      BY <1>1, <1>3 DEF GetConfigVersionByID
    <2> QED BY <2>1 DEF visitConfigData
  <1>5. ~Refused(i)
    BY ConfigServerAssumption DEF Refused
  <1>6. Error \notin getConfigDetail(i)
    <2>1. UNION {visitConfigData(e) : e \in Found} = V
      BY <1>3, <1>4
    <2>2. getConfigDetail(i) = Answers({[data |-> d, diff |-> {}, meta |-> {}] : d \in V})
      BY <1>5, <2>1 DEF getConfigDetail
    <2> QED BY <1>2, <2>2, AnswersReadable DEF Error
  <1>7. Error \notin getReleaseDetail(i)
    <2> DEFINE Pre == IF current[i].rel = Null THEN {Null}
                      ELSE visitConfigVersionData(UNION {GetConfigVersionByID(r.ver) :
                                r \in GetReleaseByID(current[i].rel)})
               Shown == ShownPairs(V, Pre, {})
    <2>1. Pre # {}
      <3>1. CASE current[i].rel = Null
        BY <3>1
      <3>2. CASE current[i].rel # Null
        <4> DEFINE r == current[i].rel
        <4>1. r \in releases /\ r.ver \in versions
          BY <3>2 DEF IInv, RowsOK, PointersIn
        <4>2. UNION {GetConfigVersionByID(q.ver) : q \in GetReleaseByID(r)} = {r.ver}
          <5>1. GetReleaseByID(r) = {r} /\ GetConfigVersionByID(r.ver) = {r.ver}
            BY <4>1 DEF GetReleaseByID, GetConfigVersionByID
          <5> QED BY <5>1
        <4>3. store[Path(r.ver)] \in visitConfigVersionData({r.ver})
          BY <4>1, FilesRead
        <4> QED BY <3>2, <4>2, <4>3
      <3> QED BY <3>1, <3>2
    <2>2. \A e \in Found : getReleaseConfigDetail(e) = Shown
      <3>1. ASSUME NEW e \in Found PROVE getReleaseConfigDetail(e) = Shown
        <4>1. e.id = i /\ visitConfigData(e) = V
          BY <1>3, <1>4
        <4> HIDE DEF V
        <4> QED BY <4>1 DEF getReleaseConfigDetail, ShownPairs
      <3> QED BY <3>1
    <2>3. Shown # {} /\ Error \notin Shown
      <3>1. V # {} /\ \A d \in V : d # Null
        BY <1>2
      <3> HIDE DEF V, Pre
      <3> QED BY <2>1, <3>1, ShownReadable
    <2> HIDE DEF Shown, Found
    <2>4. UNION {getReleaseConfigDetail(e) : e \in Found} = Shown
      BY <1>3, <2>2
    <2>5. getReleaseDetail(i) = Answers(Shown)
      BY <1>5, <2>4 DEF getReleaseDetail, ReleaseConfigDetail, Found
    <2> QED BY <2>3, <2>5, AnswersReadable
  <1> QED BY <1>6, <1>7

\* Every row of the histories of a config can be opened, and the config and
\* what its release would change can be shown, however requests interleave.
THEOREM DetailsReadableHolds == Spec => []DetailsReadable
  <1>1. IInv => DetailsReadable
    BY ChangesReadable, ReleasesReadable, ConfigReadable DEF DetailsReadable
  <1> QED BY <1>1, Invariant, PTL

-----------------------------------------------------------------------------
(* Requests that do not overlap: the rows.                                 *)

\* Requests do not overlap: two handlers are never both between their first
\* statement and their last.
OneByOne == \A v, w \in Workers : pc[v] # "idle" /\ pc[w] # "idle" => v = w

\* The status a request that saves a new version of config i gives it.
StatusAfter(i) == IF info[i].status = "created" THEN "created" ELSE "updated"

\* The release r is the next one of its config, and c the row it makes current.
NextRelease(r) == r.num = ReleaseNum(current[r.id].rel) + 1 /\ r.ver = current[r.id].ver

NextCurrent(id, c, r) ==
    r.id = id /\ c.ver = current[id].ver /\ c.rel = r /\ c.pre = current[id].rel

\* Statements that come before the first write of a request, and those of
\* AddConfig, of a release and of an import.
Starting == {"idle", "edit", "updRead", "updStore", "updInsert", "rbkRead", "rbkInsert"}

Adding == {"addNs", "addInfo", "addStore", "addVersion"}

Releasing == {"relRead", "relInsert", "relCurrent", "relInfo", "pack", "notify"}

Importing == {"impNs", "impRead", "impLoad", "impStore", "impInsert", "impInfo", "impCurrent"}

\* AddConfig has written the entity, as created, and nothing else.
AddTrue(w) ==
    /\ pc[w] \in Adding => wr[w].ver = {} /\ wr[w].rel = {} /\ wr[w].cur = {}
    /\ pc[w] \in {"addStore", "addVersion"} => wr[w].inf = {ent[w]} /\ ent[w].status = "created"

\* UpdateConfig knows config_current and the status as they are.
Unedited(w) == cur[w] = current[ent[w].id] /\ ent[w].status = info[ent[w].id].status

\* It has added the version after the latest.
Edited(w) ==
    /\ row[w].id = ent[w].id /\ row[w].num = current[ent[w].id].ver.num + 1
    /\ cur[w].ver = row[w] /\ cur[w].rel = current[ent[w].id].rel
    /\ cur[w].pre = current[ent[w].id].pre
    /\ ent[w].status = StatusAfter(ent[w].id)

\* UpdateConfig saves what it knows, or the version it has added.
UpdateTrue(w) ==
    /\ pc[w] \in {"edit", "updRead"} => ent[w].status = info[ent[w].id].status
    /\ pc[w] \in {"updStore", "updInsert"} => Unedited(w)
    /\ pc[w] \in {"updInfo", "updCurrent"} =>
          /\ wr[w].rel = {}
          /\ \/ wr[w].ver = {} /\ Unedited(w)
             \/ wr[w].ver = {row[w]} /\ Edited(w)
    /\ pc[w] = "updCurrent" => wr[w].inf = {ent[w]}

\* A release has written, for each config it is done with, the next release, the
\* row that makes it current and the status.
ReleaseTrue(w) ==
    /\ pc[w] \in Releasing =>
          /\ wr[w].ver = {}
          /\ \A r \in wr[w].rel : NextRelease(r)
          /\ \A c \in wr[w].cur : \E r \in wr[w].rel : NextCurrent(c.id, c.val, r)
          /\ \A e \in wr[w].inf : e.status = "released" /\ \E c \in wr[w].cur : c.id = e.id
          /\ \A r \in wr[w].rel : \/ \E c \in wr[w].cur : c.id = r.id
                                  \/ pc[w] = "relCurrent" /\ r.id = ent[w].id
          /\ \A c \in wr[w].cur : \/ \E e \in wr[w].inf : e.id = c.id
                                  \/ pc[w] = "relInfo" /\ c.id = ent[w].id
    /\ pc[w] = "relInsert" => cur[w] = current[ent[w].id]
    /\ pc[w] = "relCurrent" => \E r \in wr[w].rel : NextCurrent(ent[w].id, cur[w], r)
    /\ pc[w] = "relInfo" => \E c \in wr[w].cur : c.id = ent[w].id

\* RollbackConfig restores as the version after the latest.
RollbackTrue(w) ==
    /\ pc[w] \in {"rbkInsert", "rbkStore", "rbkCurrent", "rbkInfo"} =>
          /\ cur[w] = current[ent[w].id] /\ cur[w].pre # Null
          /\ row[w].id = ent[w].id /\ row[w].num = current[ent[w].id].ver.num + 1
    /\ pc[w] \in {"rbkStore", "rbkCurrent", "rbkInfo"} =>
          wr[w].ver = {row[w]} /\ wr[w].rel = {}
    /\ pc[w] = "rbkInfo" =>
          wr[w].cur = {[id |-> ent[w].id, val |-> [cur[w] EXCEPT !.ver = row[w]]]}

\* What the request of w has read is still so, and what it has written fits it.
RequestTrue(w) ==
    /\ pc[w] \in Starting => wr[w] = NoWrites
    /\ pc[w] \notin Importing
    /\ AddTrue(w) /\ UpdateTrue(w) /\ ReleaseTrue(w) /\ RollbackTrue(w)

\* The status of a config with this config_current row.
StatusOf(c) ==
    IF c.rel = Null THEN "created" ELSE IF c.rel.ver = c.ver THEN "released" ELSE "updated"

\* LatestIsNewest, RollbackTarget and StatusAccurate for config i.
Settled(i) ==
    /\ \A v \in versions : v.id = i => v.num <= current[i].ver.num
    /\ \A r \in releases : r.id = i => r.num <= ReleaseNum(current[i].rel)
    /\ ReleaseNum(current[i].rel) > 0 =>
          ReleaseNum(current[i].pre) = ReleaseNum(current[i].rel) - 1
    /\ Exists(i) => info[i].status = StatusOf(current[i])

\* The invariant of requests that do not overlap.
SerialInv ==
    /\ \A i \in IDs : Settled(i)
    /\ \A w \in Workers : RequestTrue(w)

-----------------------------------------------------------------------------
\* The other workers are between requests and stay there.
LEMMA OthersIdle ==
    ASSUME SerialInv, OneByOne, OneByOne', NEW w \in Workers, OnlyWorker(w),
           pc[w] # "idle" \/ pc'[w] # "idle", NEW o \in Workers, o # w
    PROVE  RequestTrue(o)'
  <1>1. pc[o] = "idle" /\ pc'[o] = "idle" /\ wr'[o] = wr[o] /\ RequestTrue(o)
    BY DEF OneByOne, OnlyWorker, SerialInv
  <1>2. wr'[o] = NoWrites
    BY <1>1 DEF RequestTrue, Starting
  <1> QED BY <1>1, <1>2 DEF RequestTrue, Starting, Importing, AddTrue, Adding, UpdateTrue,
             ReleaseTrue, Releasing, RollbackTrue

\* A step that commits nothing leaves every config settled.
LEMMA SerialQuiet ==
    ASSUME SerialInv, OneByOne, OneByOne', NEW w \in Workers, OnlyWorker(w),
           pc[w] # "idle" \/ pc'[w] # "idle", UNCHANGED tables, RequestTrue(w)'
    PROVE  SerialInv'
  <1>1. ASSUME NEW i \in IDs PROVE Settled(i)'
    BY DEF SerialInv, Settled, tables, Exists
  <1>2. ASSUME NEW o \in Workers PROVE RequestTrue(o)'
    BY OthersIdle
  <1> QED BY <1>1, <1>2 DEF SerialInv

\* A request begins, with the entity as its row says.
LEMMA SerialStart ==
    ASSUME IInv, SerialInv, NEW w \in Workers, "import" \notin Ops,
           \/ AddConfig(w) \/ GetConfigDetail(w) \/ ReloadTemplate(w) \/ ReleaseConfig(w)
           \/ ReleaseNamespace(w) \/ RollbackConfig(w) \/ ImportConfigs(w)
    PROVE  /\ RequestTrue(w)' /\ OnlyWorker(w) /\ UNCHANGED tables
           /\ pc'[w] # "idle"
  <1>1. TypeOK /\ pc[w] = "idle" /\ wr[w] = NoWrites /\ wr' = wr
    BY DEF IInv, SerialInv, RequestTrue, Starting, AddConfig, GetConfigDetail, ReloadTemplate,
           ReleaseConfig, ReleaseNamespace, RollbackConfig, ImportConfigs
  <1>2. OnlyWorker(w) /\ UNCHANGED tables
    BY <1>1 DEF TypeOK, OnlyWorker, tables, rows, locals, Goto, AddConfig, GetConfigDetail,
                ReloadTemplate, ReleaseConfig, ReleaseNamespace, RollbackConfig, ImportConfigs
  <1>3. wr'[w].ver = {} /\ wr'[w].rel = {} /\ wr'[w].cur = {} /\ wr'[w].inf = {}
    BY <1>1 DEF NoWrites
  <1>4. CASE AddConfig(w)
    <2>1. pc'[w] = "addNs"
      BY <1>1, <1>4 DEF AddConfig, Goto, TypeOK
    <2> QED BY <1>2, <1>3, <2>1 DEF RequestTrue, Starting, Importing, AddTrue, UpdateTrue,
               ReleaseTrue, Releasing, RollbackTrue
  <1>5. CASE GetConfigDetail(w) \/ ReloadTemplate(w)
    <2>1. pc'[w] \in {"edit", "updRead"} /\ ent'[w].status = info[ent'[w].id].status
      BY <1>1, <1>5 DEF GetConfigDetail, ReloadTemplate, Goto, TypeOK, Entity
    <2> QED BY <1>1, <1>2, <2>1 DEF RequestTrue, Starting, Importing, AddTrue, Adding, UpdateTrue,
               ReleaseTrue, Releasing, RollbackTrue, tables
  <1>6. CASE ReleaseConfig(w) \/ ReleaseNamespace(w)
    <2>1. pc'[w] \in {"relRead", "pack"}
      BY <1>1, <1>6 DEF ReleaseConfig, ReleaseNamespace, Goto, TypeOK
    <2> QED BY <1>2, <1>3, <2>1 DEF RequestTrue, Starting, Importing, AddTrue, Adding, UpdateTrue,
               ReleaseTrue, RollbackTrue
  <1>7. CASE RollbackConfig(w)
    <2>1. pc'[w] = "rbkRead"
      BY <1>1, <1>7 DEF RollbackConfig, Goto, TypeOK
    <2> QED BY <1>1, <1>2, <2>1 DEF RequestTrue, Starting, Importing, AddTrue, Adding, UpdateTrue,
               ReleaseTrue, Releasing, RollbackTrue
  <1>8. CASE ImportConfigs(w)
    BY <1>8 DEF ImportConfigs
  <1> QED BY <1>4, <1>5, <1>6, <1>7, <1>8

\* AddConfig up to its commit writes the entity, as created.
LEMMA SerialAdd ==
    ASSUME IInv, SerialInv, NEW w \in Workers, AddNamespace(w) \/ AddInfo(w) \/ AddStore(w)
    PROVE  RequestTrue(w)' /\ OnlyWorker(w) /\ UNCHANGED tables
  <1>1. TypeOK /\ RequestTrue(w)
    BY DEF IInv, SerialInv
  <1>2. OnlyWorker(w) /\ UNCHANGED tables
    BY <1>1 DEF TypeOK, OnlyWorker, tables, rows, locals, Goto, AddNamespace, AddInfo, AddStore,
                StoreConfig
  <1>3. /\ wr'[w].ver = wr[w].ver /\ wr'[w].rel = wr[w].rel /\ wr'[w].cur = wr[w].cur
        /\ pc[w] \in Adding
    <2>1. CASE AddNamespace(w)
      BY <1>1, <2>1 DEF TypeOK, AddNamespace, Adding
    <2>2. CASE AddInfo(w)
      BY <1>1, <2>2 DEF TypeOK, AddInfo, Adding
    <2>3. CASE AddStore(w)
      BY <1>1, <2>3 DEF AddStore, StoreConfig, Adding
    <2> QED BY <2>1, <2>2, <2>3
  <1>4. CASE AddNamespace(w)
    <2>1. pc'[w] = "addInfo"
      BY <1>1, <1>4 DEF AddNamespace, Goto, TypeOK
    <2> QED BY <1>1, <1>2, <1>3, <2>1 DEF RequestTrue, Starting, Importing, AddTrue, UpdateTrue,
               ReleaseTrue, Releasing, RollbackTrue
  <1>5. CASE AddInfo(w)
    <2>1. pc'[w] = "addStore" /\ wr'[w].inf = {ent'[w]} /\ ent'[w].status = "created"
      BY <1>1, <1>5 DEF AddInfo, Goto, TypeOK
    <2> QED BY <1>1, <1>2, <1>3, <2>1 DEF RequestTrue, Starting, Importing, AddTrue, UpdateTrue,
               ReleaseTrue, Releasing, RollbackTrue
  <1>6. CASE AddStore(w)
    <2>1. pc'[w] = "addVersion" /\ pc[w] = "addStore" /\ wr' = wr /\ ent' = ent
      BY <1>1, <1>6 DEF AddStore, StoreConfig, Goto, TypeOK, locals
    <2> QED BY <1>1, <1>2, <1>3, <2>1 DEF RequestTrue, Starting, Importing, AddTrue, UpdateTrue,
               ReleaseTrue, Releasing, RollbackTrue
  <1> QED BY <1>4, <1>5, <1>6

\* At a statement of UpdateConfig only UpdateTrue has something to say.
LEMMA AtUpdate ==
    ASSUME NEW w \in Workers, pc'[w] \in {"edit", "updRead", "updStore", "updInsert"}
           => wr'[w] = NoWrites, UpdateTrue(w)',
           pc'[w] \in {"edit", "updRead", "updStore", "updInsert", "updInfo", "updCurrent"}
    PROVE  RequestTrue(w)'
  BY DEF RequestTrue, Starting, Importing, AddTrue, Adding, ReleaseTrue, Releasing, RollbackTrue

\* At a statement of a release only ReleaseTrue has.
LEMMA AtRelease ==
    ASSUME NEW w \in Workers, ReleaseTrue(w)', pc'[w] \in Releasing
    PROVE  RequestTrue(w)'
  BY DEF RequestTrue, Starting, Importing, AddTrue, Adding, UpdateTrue, Releasing, RollbackTrue

\* At a statement of RollbackConfig only RollbackTrue has.
LEMMA AtRollback ==
    ASSUME NEW w \in Workers, RollbackTrue(w)', pc'[w] \in {"rbkRead", "rbkInsert"}
           => wr'[w] = NoWrites,
           pc'[w] \in {"rbkRead", "rbkInsert", "rbkStore", "rbkCurrent", "rbkInfo"}
    PROVE  RequestTrue(w)'
  BY DEF RequestTrue, Starting, Importing, AddTrue, Adding, UpdateTrue, ReleaseTrue, Releasing

\* UpdateConfig up to its commit: nobody changes the rows it has read, so the
\* version it adds is the one after the latest.
LEMMA SerialUpdate ==
    ASSUME IInv, SerialInv, NEW w \in Workers,
           EditConfig(w) \/ UpdateRead(w) \/ UpdateStore(w) \/ UpdateInsert(w) \/ UpdateInfo(w)
    PROVE  RequestTrue(w)' /\ OnlyWorker(w) /\ UNCHANGED tables
  <1>1. TypeOK /\ RequestTrue(w) /\ Local(w)
    BY DEF IInv, SerialInv
  <1>2. OnlyWorker(w) /\ UNCHANGED tables
    BY <1>1 DEF TypeOK, OnlyWorker, tables, rows, locals, Goto, EditConfig, UpdateRead,
                UpdateStore, UpdateInsert, UpdateInfo, InsertVersion, StoreConfig
  <1>3. CASE EditConfig(w)
    <2>1. /\ pc'[w] = "updRead" /\ pc[w] = "edit" /\ wr' = wr
          /\ ent'[w].status = ent[w].status /\ ent'[w].id = ent[w].id
      <3>1. ent[w] \in Entities
        BY <1>1, <1>3 DEF EditConfig, Local, EntityOK, TypeOK
      <3> QED BY <1>1, <1>3, <3>1 DEF EditConfig, Goto, TypeOK, Entities
    <2>2. wr'[w] = NoWrites /\ UpdateTrue(w)'
      BY <1>1, <1>2, <2>1 DEF RequestTrue, Starting, UpdateTrue, tables
    <2> QED BY <1>2, <2>1, <2>2, AtUpdate
  <1>4. CASE UpdateRead(w)
    <2>1. /\ pc'[w] = "updStore" /\ pc[w] = "updRead" /\ wr' = wr /\ ent' = ent
          /\ cur'[w] = current[ent[w].id]
      BY <1>1, <1>4 DEF UpdateRead, Goto, TypeOK
    <2>2. wr'[w] = NoWrites /\ UpdateTrue(w)'
      BY <1>1, <1>2, <2>1 DEF RequestTrue, Starting, UpdateTrue, Unedited, tables
    <2> QED BY <1>2, <2>1, <2>2, AtUpdate
  <1>5. CASE UpdateStore(w)
    <2>1. /\ pc'[w] \in {"updInsert", "updInfo"} /\ pc[w] = "updStore"
          /\ wr' = wr /\ ent' = ent /\ cur' = cur
      BY <1>1, <1>5 DEF UpdateStore, StoreConfig, AfterStore, Goto, TypeOK, locals
    <2>2. wr'[w] = NoWrites /\ wr'[w].ver = {} /\ wr'[w].rel = {} /\ Unedited(w)'
      BY <1>1, <1>2, <2>1 DEF RequestTrue, Starting, UpdateTrue, Unedited, tables, NoWrites
    <2>3. UpdateTrue(w)'
      BY <2>1, <2>2 DEF UpdateTrue
    <2> QED BY <1>2, <2>1, <2>2, <2>3, AtUpdate
  <1>6. CASE UpdateInsert(w)
    <2>1. pc'[w] = "updInfo" /\ pc[w] = "updInsert" /\ row' = row
      BY <1>1, <1>6 DEF UpdateInsert, Goto, TypeOK
    <2>2. wr[w] = NoWrites /\ Unedited(w)
      BY <1>1, <2>1 DEF RequestTrue, Starting, UpdateTrue
    <2>3. wr'[w].ver = {row[w]} /\ wr'[w].rel = {}
      BY <1>1, <1>6, <2>2 DEF UpdateInsert, InsertVersion, NoWrites, TypeOK
    <2>4. ent[w] \in Entities /\ cur[w] \in Currents
      BY <1>1, <2>1 DEF Local, EntityOK, TypeOK
    <2>5. /\ ent'[w].id = ent[w].id
          /\ ent'[w].status = IF ent[w].status = "created" THEN "created" ELSE "updated"
      BY <1>1, <1>6, <2>4 DEF UpdateInsert, Entities, TypeOK
    <2>6. cur'[w].ver = row[w] /\ cur'[w].rel = cur[w].rel /\ cur'[w].pre = cur[w].pre
      BY <1>1, <1>6, <2>4 DEF UpdateInsert, Currents, TypeOK
    <2>7. row[w].id = ent[w].id /\ row[w].num = cur[w].ver.num + 1
      BY <1>1, <2>1 DEF Local, RowOK
    <2>8. Edited(w)'
      BY <1>2, <2>1, <2>2, <2>5, <2>6, <2>7 DEF Edited, Unedited, StatusAfter, tables
    <2>9. UpdateTrue(w)'
      BY <2>1, <2>3, <2>8 DEF UpdateTrue
    <2> QED BY <1>2, <2>1, <2>9, AtUpdate
  <1>7. CASE UpdateInfo(w)
    <2>1. /\ pc'[w] = "updCurrent" /\ pc[w] = "updInfo"
          /\ ent' = ent /\ row' = row /\ cur' = cur
      BY <1>1, <1>7 DEF UpdateInfo, Goto, TypeOK, locals
    <2>2. wr'[w].ver = wr[w].ver /\ wr'[w].rel = wr[w].rel /\ wr'[w].inf = {ent[w]}
      BY <1>1, <1>7 DEF UpdateInfo, TypeOK
    <2>3. UpdateTrue(w)'
      BY <1>1, <1>2, <2>1, <2>2 DEF RequestTrue, UpdateTrue, Unedited, Edited, StatusAfter, tables
    <2> QED BY <1>2, <2>1, <2>3, AtUpdate
  <1> QED BY <1>3, <1>4, <1>5, <1>6, <1>7

\* A release up to its commit adds the release after the latest to each config.
LEMMA SerialRelease ==
    ASSUME IInv, SerialInv, NEW w \in Workers,
           \/ ReleaseRead(w) \/ ReleaseInsert(w) \/ ReleaseCurrent(w) \/ ReleaseInfo(w)
           \/ packConfigs(w)
    PROVE  RequestTrue(w)' /\ OnlyWorker(w) /\ UNCHANGED tables
  <1>1. TypeOK /\ ReleaseTrue(w) /\ Local(w)
    BY DEF IInv, SerialInv, RequestTrue
  <1>2. OnlyWorker(w) /\ UNCHANGED tables
    BY <1>1 DEF TypeOK, OnlyWorker, tables, rows, locals, Goto, ReleaseRead, ReleaseInsert,
                ReleaseCurrent, WriteCurrent, ReleaseInfo, packConfigs
  <1>3. CASE ReleaseRead(w)
    <2>1. /\ pc'[w] = "relInsert" /\ pc[w] = "relRead" /\ wr' = wr /\ ent' = ent
          /\ cur'[w] = current[ent[w].id]
      BY <1>1, <1>3 DEF ReleaseRead, Goto, TypeOK
    <2>2. ReleaseTrue(w)'
      BY <1>1, <1>2, <2>1 DEF ReleaseTrue, Releasing, NextRelease, NextCurrent, tables
    <2> QED BY <1>2, <2>1, <2>2, AtRelease DEF Releasing
  <1>4. CASE ReleaseInsert(w)
    <2>1. PICK r : r = NewRelease(w)
      OBVIOUS
    <2>2. /\ pc'[w] = "relCurrent" /\ pc[w] = "relInsert" /\ ent' = ent
          /\ cur'[w] = Released(cur[w], r)
      BY <1>1, <1>4, <2>1 DEF ReleaseInsert, Goto, TypeOK
    <2>3. /\ wr'[w].rel = wr[w].rel \cup {r} /\ wr'[w].ver = wr[w].ver
          /\ wr'[w].cur = wr[w].cur /\ wr'[w].inf = wr[w].inf
      BY <1>1, <1>4, <2>1 DEF ReleaseInsert, TypeOK
    <2>4. cur[w] = current[ent[w].id] /\ row[w] = cur[w].ver /\ cur[w] \in Currents
      BY <1>1, <2>2 DEF ReleaseTrue, Local, CurrentOK, TypeOK
    <2>5. /\ cur'[w].ver = cur[w].ver /\ cur'[w].rel = r /\ cur'[w].pre = cur[w].rel
      BY <2>2, <2>4 DEF Released, Currents
    <2>6. r.id = ent[w].id /\ r.num = ReleaseNum(cur[w].rel) + 1 /\ r.ver = row[w]
      BY <2>1 DEF NewRelease
    <2>7. NextRelease(r) /\ NextCurrent(ent[w].id, cur'[w], r)
      BY <2>4, <2>5, <2>6 DEF NextRelease, NextCurrent
    <2>8. ReleaseTrue(w)'
      BY <1>1, <1>2, <2>2, <2>3, <2>6, <2>7 DEF ReleaseTrue, Releasing, NextRelease, NextCurrent,
         tables
    <2> QED BY <1>2, <2>2, <2>8, AtRelease DEF Releasing
  <1>5. CASE ReleaseCurrent(w)
    <2>1. PICK c : c = [id |-> ent[w].id, val |-> cur[w]]
      OBVIOUS
    <2>2. pc'[w] = "relInfo" /\ pc[w] = "relCurrent" /\ ent' = ent
      BY <1>1, <1>5 DEF ReleaseCurrent, WriteCurrent, Goto, TypeOK, locals
    <2>3. /\ wr'[w].rel = wr[w].rel /\ wr'[w].ver = wr[w].ver
          /\ wr'[w].cur = wr[w].cur \cup {c} /\ wr'[w].inf = wr[w].inf
      BY <1>1, <1>5, <2>1 DEF ReleaseCurrent, WriteCurrent, TypeOK
    <2>4. c.id = ent[w].id /\ c.val = cur[w]
      BY <2>1
    <2>5. ReleaseTrue(w)'
      BY <1>1, <1>2, <2>2, <2>3, <2>4 DEF ReleaseTrue, Releasing, NextRelease, NextCurrent,
         tables
    <2> QED BY <1>2, <2>2, <2>5, AtRelease DEF Releasing
  <1>6. CASE ReleaseInfo(w)
    <2>1. PICK e : e = [ent[w] EXCEPT !.status = "released"]
      OBVIOUS
    <2>2. pc'[w] \in {"relRead", "pack", "notify"} /\ pc[w] = "relInfo"
      BY <1>1, <1>6 DEF ReleaseInfo, Goto, TypeOK
    <2>3. /\ wr'[w].rel = wr[w].rel /\ wr'[w].ver = wr[w].ver
          /\ wr'[w].cur = wr[w].cur /\ wr'[w].inf = wr[w].inf \cup {e}
      BY <1>1, <1>6, <2>1 DEF ReleaseInfo, TypeOK
    <2>4. e.id = ent[w].id /\ e.status = "released"
      <3>1. ent[w] \in Entities
        BY <1>1, <2>2 DEF Local, EntityOK, TypeOK
      <3> QED BY <2>1, <3>1 DEF Entities
    <2>5. ReleaseTrue(w)'
      BY <1>1, <1>2, <2>2, <2>3, <2>4 DEF ReleaseTrue, Releasing, NextRelease, NextCurrent,
         tables
    <2> QED BY <1>2, <2>2, <2>5, AtRelease DEF Releasing
  <1>7. CASE packConfigs(w)
    <2>1. pc'[w] = "notify" /\ pc[w] = "pack" /\ wr' = wr
      BY <1>1, <1>7 DEF packConfigs, Goto, TypeOK
    <2>2. ReleaseTrue(w)'
      BY <1>1, <1>2, <2>1 DEF ReleaseTrue, Releasing, NextRelease, NextCurrent, tables
    <2> QED BY <1>2, <2>1, <2>2, AtRelease DEF Releasing
  <1> QED BY <1>3, <1>4, <1>5, <1>6, <1>7

\* RollbackConfig up to its commit adds the version after the latest.
LEMMA SerialRollback ==
    ASSUME IInv, IInv', SerialInv, NEW w \in Workers,
           RollbackRead(w) \/ RollbackInsert(w) \/ RollbackStore(w) \/ RollbackCurrent(w)
    PROVE  RequestTrue(w)' /\ OnlyWorker(w) /\ UNCHANGED tables
  <1>1. TypeOK /\ RequestTrue(w) /\ Local(w) /\ Local(w)'
    BY DEF IInv, SerialInv
  <1>2. OnlyWorker(w) /\ UNCHANGED tables
    BY <1>1 DEF TypeOK, OnlyWorker, tables, rows, locals, Goto, RollbackRead, RollbackInsert,
                InsertVersion, RollbackStore, StoreConfig, RollbackCurrent, WriteCurrent
  <1>3. CASE RollbackRead(w)
    <2>1. /\ pc'[w] = "rbkInsert" /\ pc[w] = "rbkRead" /\ wr' = wr /\ ent' = ent
          /\ cur'[w] = current[ent[w].id] /\ cur'[w].pre # Null
      BY <1>1, <1>3 DEF RollbackRead, Goto, TypeOK
    <2>2. row'[w].id = ent'[w].id /\ row'[w].num = cur'[w].ver.num + 1
      BY <1>1, <2>1 DEF Local, RowOK
    <2>3. RollbackTrue(w)' /\ wr'[w] = NoWrites
      BY <1>1, <1>2, <2>1, <2>2 DEF RollbackTrue, RequestTrue, Starting, tables
    <2> QED BY <1>2, <2>1, <2>3, AtRollback
  <1>4. CASE RollbackInsert(w)
    <2>1. /\ pc'[w] = "rbkStore" /\ pc[w] = "rbkInsert" /\ ent' = ent /\ cur' = cur
          /\ row' = row
      BY <1>1, <1>4 DEF RollbackInsert, Goto, TypeOK, locals
    <2>2. wr'[w].ver = {row[w]} /\ wr'[w].rel = {}
      <3>1. wr[w] = NoWrites
        BY <1>1, <2>1 DEF RequestTrue, Starting
      <3> QED BY <1>1, <1>4, <3>1 DEF RollbackInsert, InsertVersion, NoWrites, TypeOK
    <2>3. RollbackTrue(w)'
      BY <1>1, <1>2, <2>1, <2>2 DEF RollbackTrue, RequestTrue, tables
    <2> QED BY <1>2, <2>1, <2>3, AtRollback
  <1>5. CASE RollbackStore(w)
    <2>1. /\ pc'[w] = "rbkCurrent" /\ pc[w] = "rbkStore" /\ ent' = ent /\ cur' = cur
          /\ row' = row /\ wr' = wr
      BY <1>1, <1>5 DEF RollbackStore, StoreConfig, Goto, TypeOK, locals
    <2>3. RollbackTrue(w)'
      BY <1>1, <1>2, <2>1 DEF RollbackTrue, RequestTrue, tables
    <2> QED BY <1>2, <2>1, <2>3, AtRollback
  <1>6. CASE RollbackCurrent(w)
    <2>1. /\ pc'[w] = "rbkInfo" /\ pc[w] = "rbkCurrent" /\ ent' = ent /\ cur' = cur
          /\ row' = row
      BY <1>1, <1>6 DEF RollbackCurrent, WriteCurrent, Goto, TypeOK, locals
    <2>2. PICK c : c = [id |-> ent[w].id, val |-> [cur[w] EXCEPT !.ver = row[w]]]
      OBVIOUS
    <2>3. wr'[w].ver = wr[w].ver /\ wr'[w].rel = wr[w].rel /\ wr'[w].cur = wr[w].cur \cup {c}
      BY <1>1, <1>6, <2>2 DEF RollbackCurrent, WriteCurrent, TypeOK
    <2>4. wr[w].cur = {}
      BY <1>1, <2>1 DEF Local, RowOK
    <2>5. wr'[w].cur = {[id |-> ent'[w].id, val |-> [cur'[w] EXCEPT !.ver = row'[w]]]}
      BY <2>1, <2>2, <2>3, <2>4
    <2>6. RollbackTrue(w)'
      BY <1>1, <1>2, <2>1, <2>3, <2>5 DEF RollbackTrue, RequestTrue, tables
    <2> QED BY <1>2, <2>1, <2>6, AtRollback
  <1> QED BY <1>3, <1>4, <1>5, <1>6

-----------------------------------------------------------------------------
\* After a commit or an abort the worker is between requests.
LEMMA SerialReturn ==
    ASSUME TypeOK, NEW w \in Workers, Return(w)
    PROVE  OnlyWorker(w) /\ RequestTrue(w)'
  <1>1. OnlyWorker(w)
    BY DEF Return, Goto, TypeOK, OnlyWorker
  <1>2. pc'[w] = "idle" /\ wr'[w] = NoWrites
    BY DEF Return, Goto, TypeOK
  <1> QED BY <1>1, <1>2 DEF RequestTrue, Starting, Importing, AddTrue, Adding, UpdateTrue,
             ReleaseTrue, Releasing, RollbackTrue

\* What a commit makes of the rows of one config.
LEMMA CommitRows ==
    ASSUME TypeOK, NEW w \in Workers, NEW t \in TxSet, Commit(w, t), NEW i \in IDs
    PROVE  /\ (\A c \in t.cur : c.id # i) => current'[i] = current[i]
           /\ (\A e \in t.inf : e.id # i) => info'[i] = info[i]
           /\ (\E c \in t.cur : c.id = i) =>
                 \E c \in t.cur : c.id = i /\ current'[i] = UpdateConfigCurrent(current[i], c.val)
           /\ (\E e \in t.inf : e.id = i) =>
                 \E e \in t.inf : e.id = i /\ info'[i].status = e.status
           /\ versions' = versions \cup t.ver /\ releases' = releases \cup t.rel
  <1>1. ASSUME \A c \in t.cur : c.id # i PROVE current'[i] = current[i]
    BY <1>1 DEF Commit
  <1>2. ASSUME \A e \in t.inf : e.id # i PROVE info'[i] = info[i]
    BY <1>2 DEF Commit
  <1>3. ASSUME \E c \in t.cur : c.id = i
        PROVE  \E c \in t.cur : c.id = i /\ current'[i] = UpdateConfigCurrent(current[i], c.val)
    <2>1. PICK c : c = CHOOSE x \in t.cur : x.id = i
      OBVIOUS
    <2>2. c \in t.cur /\ c.id = i
      BY <1>3, <2>1, PickID
    <2>3. current'[i] = UpdateConfigCurrent(current[i], c.val)
      BY <1>3, <2>1 DEF Commit
    <2> QED BY <2>2, <2>3
  <1>4. ASSUME \E e \in t.inf : e.id = i
        PROVE  \E e \in t.inf : e.id = i /\ info'[i].status = e.status
    <2>1. PICK e : e = CHOOSE x \in t.inf : x.id = i
      OBVIOUS
    <2>2. e \in t.inf /\ e.id = i
      BY <1>4, <2>1, PickID
    <2>3. info'[i].status = e.status
      BY <1>4, <2>1 DEF Commit
    <2> QED BY <2>2, <2>3
  <1> QED BY <1>1, <1>2, <1>3, <1>4 DEF Commit

\* A commit leaves a config settled that it does not write.
LEMMA UntouchedSettled ==
    ASSUME IInv, SerialInv, NEW w \in Workers, NEW t \in TxSet, Commit(w, t), NEW i \in IDs,
           \A c \in t.cur : c.id # i, \A e \in t.inf : e.id # i,
           \A v \in t.ver : v.id # i, \A r \in t.rel : r.id # i
    PROVE  Settled(i)'
  <1>1. TypeOK /\ Settled(i)
    BY DEF IInv, SerialInv
  <1>2. /\ current'[i] = current[i] /\ info'[i] = info[i]
        /\ versions' = versions \cup t.ver /\ releases' = releases \cup t.rel
    BY <1>1, CommitRows
  <1> QED BY <1>1, <1>2 DEF Settled, Exists

\* A commit that leaves every config settled keeps the invariant.
LEMMA SerialCommit ==
    ASSUME IInv, SerialInv, OneByOne, OneByOne', NEW w \in Workers, pc[w] # "idle",
           NEW t \in TxSet, Commit(w, t), \A i \in IDs : Settled(i)'
    PROVE  SerialInv'
  <1>1. OnlyWorker(w) /\ RequestTrue(w)'
    BY SerialReturn DEF IInv, Commit
  <1>2. ASSUME NEW o \in Workers PROVE RequestTrue(o)'
    BY <1>1, OthersIdle
  <1> QED BY <1>2 DEF SerialInv

\* A commit that saves a version of one config, or just its entity, settles it:
\* the version is newer than all others, and the releases stay what they were.
LEMMA SavedSettled ==
    ASSUME IInv, SerialInv, NEW w \in Workers, NEW t \in TxSet, Commit(w, t),
           NEW c \in t.cur, t.cur = {c}, NEW e \in t.inf, t.inf = {e}, t.rel = {},
           c.id \in IDs, e.id = c.id, \A v \in t.ver : v.id = c.id,
           NEW u, u = UpdateConfigCurrent(current[c.id], c.val),
           u.rel = current[c.id].rel, u.pre = current[c.id].pre,
           \A v \in versions \cup t.ver : v.id = c.id => v.num <= u.ver.num,
           e.status = StatusOf(u)
    PROVE  \A i \in IDs : Settled(i)'
  <1>1. TypeOK
    BY DEF IInv
  <1>2. SUFFICES ASSUME NEW i \in IDs PROVE Settled(i)'
    OBVIOUS
  <1>3. CASE i # c.id
    BY <1>3, UntouchedSettled
  <1>4. CASE i = c.id
    <2>1. current'[i] = u /\ info'[i].status = e.status
      BY <1>1, <1>4, CommitRows
    <2>2. versions' = versions \cup t.ver /\ releases' = releases
      <3>1. versions' = versions \cup t.ver /\ releases' = releases \cup t.rel
        BY <1>1, <1>2, CommitRows, Zenon
      <3> QED BY <3>1
    <2>3. Settled(i)
      BY DEF SerialInv
    <2> QED BY <1>4, <2>1, <2>2, <2>3 DEF Settled
  <1> QED BY <1>3, <1>4

\* The parts of a merged row.
LEMMA MergedRow ==
    ASSUME NEW a, NEW b
    PROVE  /\ UpdateConfigCurrent(a, b).ver = IF b.ver = Null THEN a.ver ELSE b.ver
           /\ UpdateConfigCurrent(a, b).rel = IF b.rel = Null THEN a.rel ELSE b.rel
           /\ UpdateConfigCurrent(a, b).pre = IF b.pre = Null THEN a.pre ELSE b.pre
  BY DEF UpdateConfigCurrent

\* A config without a row has no version, no release and an empty current row.
LEMMA NotYet ==
    ASSUME IInv, NEW i \in IDs, ~Exists(i)
    PROVE  /\ current[i].ver = Null /\ current[i].rel = Null /\ current[i].pre = Null
           /\ \A v \in versions : v.id # i
           /\ \A r \in releases : r.id # i
  <1>1. \A v \in versions : v.id # i
    BY DEF IInv, RowsOK
  <1>2. \A r \in releases : r.id # i
    BY <1>1 DEF IInv, RowsOK
  <1>3. PointersIn(current[i], i, versions, releases)
    BY DEF IInv, RowsOK
  <1> QED BY <1>1, <1>2, <1>3 DEF PointersIn

\* AddConfig commits: its config has one version and no release.
LEMMA SerialAddCommit ==
    ASSUME IInv, SerialInv, OneByOne, OneByOne', NEW w \in Workers, AddVersion(w)
    PROVE  SerialInv'
  <1>1. /\ TypeOK /\ Local(w) /\ AddTrue(w) /\ pc[w] = "addVersion"
    BY DEF IInv, SerialInv, RequestTrue, AddVersion
  <1>2. PICK c : c = [id |-> ent[w].id, val |-> [NoCurrent EXCEPT !.ver = row[w]]]
    OBVIOUS
  <1>3. PICK t : t = [wr[w] EXCEPT !.ver = {row[w]}, !.cur = {c}]
    OBVIOUS
  <1>4. /\ ent[w] \in Entities /\ ~Exists(ent[w].id) /\ row[w] \in Versions
        /\ row[w].id = ent[w].id /\ row[w].num = 1
    BY <1>1 DEF Local, EntityOK, RowOK, TypeOK
  <1>5. ent[w].id \in IDs
    BY <1>4 DEF Entities
  <1>6. /\ c.id = ent[w].id /\ c.val \in Currents /\ c \in CurrentWrites
        /\ c.val.ver = row[w] /\ c.val.rel = Null /\ c.val.pre = Null
    BY <1>2, <1>4, <1>5 DEF NoCurrent, Currents, CurrentWrites
  <1>7. wr[w] \in TxSet /\ wr[w].rel = {} /\ wr[w].inf = {ent[w]} /\ ent[w].status = "created"
    BY <1>1 DEF TypeOK, TxSet, AddTrue, Adding
  <1>8. t \in TxSet /\ t.ver = {row[w]} /\ t.rel = {} /\ t.cur = {c} /\ t.inf = {ent[w]}
    BY <1>3, <1>4, <1>6, <1>7 DEF TxSet
  <1>9. Commit(w, t)
    BY <1>2, <1>3 DEF AddVersion
  <1>10. PICK u : u = UpdateConfigCurrent(current[c.id], c.val)
    OBVIOUS
  <1>11. /\ current[c.id].ver = Null /\ current[c.id].rel = Null /\ current[c.id].pre = Null
         /\ \A v \in versions : v.id # c.id
    BY <1>4, <1>5, <1>6, NotYet
  <1>12. u.ver = row[w] /\ u.rel = Null /\ u.pre = Null
    <2>1. row[w] # Null
      BY <1>4, ConfigServerAssumption
    <2> QED BY <1>6, <1>10, <1>11, <2>1, MergedRow
  <1>13. \A v \in versions \cup t.ver : v.id = c.id => v.num <= u.ver.num
    BY <1>4, <1>8, <1>11, <1>12
  <1>14. ent[w].status = StatusOf(u)
    BY <1>7, <1>12 DEF StatusOf
  <1>15. \A i \in IDs : Settled(i)'
    BY <1>4, <1>5, <1>6, <1>8, <1>9, <1>10, <1>11, <1>12, <1>13, <1>14, SavedSettled
  <1> QED BY <1>1, <1>8, <1>9, <1>15, SerialCommit

\* A version one above the latest is above all of its config, and new.
LEMMA NewestVersion ==
    ASSUME IInv, SerialInv, NEW w \in Workers, row[w] \in Versions, NEW i \in IDs, row[w].id = i,
           Exists(i), row[w].num = current[i].ver.num + 1
    PROVE  /\ \A v \in versions : v.id = i => v.num <= row[w].num
           /\ row[w] \notin versions
  <1>1. Settled(i) /\ current[i].ver \in Versions
    <2>1. current[i].ver # Null /\ current[i] \in Currents
      BY DEF IInv, RowsOK, TypeOK
    <2> QED BY <2>1 DEF SerialInv, Currents
  <1>2. current[i].ver.num \in Nat /\ \A v \in versions : v.num \in Nat
    BY <1>1 DEF IInv, TypeOK, Versions
  <1> QED BY <1>1, <1>2 DEF Settled

\* RollbackConfig commits: the restored version is the latest and differs from
\* the released one, so the status is updated.
LEMMA SerialRollbackCommit ==
    ASSUME IInv, SerialInv, OneByOne, OneByOne', NEW w \in Workers, RollbackInfo(w)
    PROVE  SerialInv'
  <1>1. /\ TypeOK /\ Local(w) /\ RollbackTrue(w) /\ pc[w] = "rbkInfo"
    BY DEF IInv, SerialInv, RequestTrue, RollbackInfo
  <1>2. PICK c : c = [id |-> ent[w].id, val |-> [cur[w] EXCEPT !.ver = row[w]]]
    OBVIOUS
  <1>3. PICK e : e = RollbackEntity(ent[w])
    OBVIOUS
  <1>4. PICK t : t = [wr[w] EXCEPT !.inf = {e}]
    OBVIOUS
  <1>5. /\ ent[w] \in Entities /\ Exists(ent[w].id) /\ ent[w].id \in IDs
        /\ cur[w] \in Currents /\ cur[w] = current[ent[w].id] /\ cur[w].pre # Null
        /\ row[w].id = ent[w].id /\ row[w].num = current[ent[w].id].ver.num + 1
    <2>1. ent[w] \in Entities /\ Exists(ent[w].id) /\ cur[w] \in Currents
      BY <1>1 DEF Local, EntityOK, TypeOK
    <2> QED BY <1>1, <2>1 DEF RollbackTrue, Entities
  <1>6. wr[w] \in TxSet /\ wr[w].ver = {row[w]} /\ wr[w].rel = {} /\ wr[w].cur = {c}
    BY <1>1, <1>2 DEF TypeOK, TxSet, RollbackTrue
  <1>7. row[w] \in Versions /\ row[w] # Null
    BY <1>6, ConfigServerAssumption DEF TxSet
  <1>8. /\ c.id = ent[w].id /\ c.val.ver = row[w]
        /\ c.val.rel = cur[w].rel /\ c.val.pre = cur[w].pre
    BY <1>2, <1>5 DEF Currents
  <1>9. e \in Entities /\ e.id = ent[w].id /\ e.status = "updated"
    BY <1>3, <1>5 DEF RollbackEntity, Entities, Status
  <1>10. t \in TxSet /\ t.ver = {row[w]} /\ t.rel = {} /\ t.cur = {c} /\ t.inf = {e}
    BY <1>4, <1>6, <1>9 DEF TxSet
  <1>11. Commit(w, t)
    BY <1>3, <1>4 DEF RollbackInfo
  <1>12. PICK u : u = UpdateConfigCurrent(current[c.id], c.val)
    OBVIOUS
  <1>13. u.ver = row[w] /\ u.rel = current[c.id].rel /\ u.pre = current[c.id].pre
    BY <1>5, <1>7, <1>8, <1>12, MergedRow
  <1>14. row[w] \notin versions /\ \A v \in versions \cup t.ver : v.id = c.id => v.num <= u.ver.num
    <2>1. row[w].num \in Nat
      BY <1>7 DEF Versions
    <2>2. row[w] \notin versions /\ \A v \in versions : v.id = c.id => v.num <= row[w].num
      BY <1>5, <1>7, <1>8, NewestVersion
    <2> QED BY <1>10, <1>13, <2>1, <2>2
  <1>15. e.status = StatusOf(u)
    <2>1. current[c.id].rel # Null /\ current[c.id].rel.ver \in versions
      BY <1>5, <1>8 DEF IInv, RowsOK, PointersIn
    <2> QED BY <1>9, <1>13, <1>14, <2>1 DEF StatusOf
  <1>16. \A i \in IDs : Settled(i)'
    BY <1>5, <1>8, <1>9, <1>10, <1>11, <1>12, <1>13, <1>14, <1>15, SavedSettled
  <1> QED BY <1>1, <1>10, <1>11, <1>16, SerialCommit

\* UpdateConfig commits: with a new version, which no release has, or without.
LEMMA SerialUpdateCommit ==
    ASSUME IInv, SerialInv, OneByOne, OneByOne', NEW w \in Workers, UpdateCurrent(w)
    PROVE  SerialInv'
  <1>1. /\ TypeOK /\ Local(w) /\ UpdateTrue(w) /\ pc[w] = "updCurrent"
    BY DEF IInv, SerialInv, RequestTrue, UpdateCurrent
  <1>2. PICK c : c = [id |-> ent[w].id, val |-> cur[w]]
    OBVIOUS
  <1>3. PICK t : t = [wr[w] EXCEPT !.cur = {c}]
    OBVIOUS
  <1>4. /\ ent[w] \in Entities /\ Exists(ent[w].id) /\ ent[w].id \in IDs /\ cur[w] \in Currents
        /\ c.id = ent[w].id /\ c.val = cur[w] /\ c \in CurrentWrites
    <2>1. ent[w] \in Entities /\ Exists(ent[w].id) /\ cur[w] \in Currents
      BY <1>1 DEF Local, EntityOK, TypeOK
    <2> QED BY <1>2, <2>1 DEF Entities, CurrentWrites
  <1>5. /\ wr[w] \in TxSet /\ wr[w].inf = {ent[w]} /\ wr[w].rel = {}
        /\ \/ wr[w].ver = {} /\ Unedited(w)
           \/ wr[w].ver = {row[w]} /\ Edited(w)
    BY <1>1 DEF TypeOK, TxSet, UpdateTrue
  <1>6. t \in TxSet /\ t.ver = wr[w].ver /\ t.rel = {} /\ t.cur = {c} /\ t.inf = {ent[w]}
    BY <1>3, <1>4, <1>5 DEF TxSet
  <1>7. Commit(w, t)
    BY <1>2, <1>3 DEF UpdateCurrent, CommitCurrent
  <1>8. PICK u : u = UpdateConfigCurrent(current[c.id], c.val)
    OBVIOUS
  <1>9. Settled(c.id)
    BY <1>4 DEF SerialInv
  <1>10. CASE wr[w].ver = {} /\ Unedited(w)
    <2>1. u.ver = current[c.id].ver /\ u.rel = current[c.id].rel /\ u.pre = current[c.id].pre
      BY <1>4, <1>8, <1>10, MergedRow DEF Unedited
    <2>2. \A v \in versions \cup t.ver : v.id = c.id => v.num <= u.ver.num
      BY <1>6, <1>9, <1>10, <2>1 DEF Settled
    <2>3. ent[w].status = StatusOf(u)
      BY <1>4, <1>9, <1>10, <2>1 DEF Settled, StatusOf, Unedited
    <2>4. \A i \in IDs : Settled(i)'
      BY <1>4, <1>6, <1>7, <1>8, <1>10, <2>1, <2>2, <2>3, SavedSettled
    <2> QED BY <1>1, <1>6, <1>7, <2>4, SerialCommit
  <1>11. CASE wr[w].ver = {row[w]} /\ Edited(w)
    <2>1. row[w] \in Versions /\ row[w] # Null
      BY <1>5, <1>11, ConfigServerAssumption DEF TxSet
    <2>2. u.ver = row[w] /\ u.rel = current[c.id].rel /\ u.pre = current[c.id].pre
      BY <1>4, <1>8, <1>11, <2>1, MergedRow DEF Edited
    <2>3. row[w] \notin versions /\ \A v \in versions \cup t.ver : v.id = c.id => v.num <= u.ver.num
      <3>1. row[w].num \in Nat
        BY <2>1 DEF Versions
      <3>2. row[w] \notin versions /\ \A v \in versions : v.id = c.id => v.num <= row[w].num
        BY <1>4, <1>11, <2>1, NewestVersion DEF Edited
      <3> QED BY <1>6, <1>11, <2>2, <3>1, <3>2
    <2>4. ent[w].status = StatusOf(u)
      <3>1. current[c.id].rel # Null => current[c.id].rel.ver \in versions
        BY <1>4 DEF IInv, RowsOK, PointersIn
      <3> QED BY <1>4, <1>9, <1>11, <2>2, <2>3, <3>1 DEF Settled, StatusOf, Edited, StatusAfter
    <2>5. \A v \in t.ver : v.id = c.id
      BY <1>4, <1>6, <1>11 DEF Edited
    <2>6. \A i \in IDs : Settled(i)'
      BY <1>4, <1>6, <1>7, <1>8, <2>2, <2>3, <2>4, <2>5, SavedSettled
    <2> QED BY <1>1, <1>6, <1>7, <2>6, SerialCommit
  <1> QED BY <1>5, <1>10, <1>11

\* A release commits: each of its configs has the next release, of its latest
\* version, and is released.
LEMMA SerialReleaseCommit ==
    ASSUME IInv, SerialInv, OneByOne, OneByOne', NEW w \in Workers, NotifyAgent(w)
    PROVE  SerialInv'
  <1>1. PICK t : t = wr[w]
    OBVIOUS
  <1>2. /\ TypeOK /\ pc[w] = "notify" /\ Commit(w, t) /\ t \in TxSet /\ WritesOK(t)
    BY <1>1 DEF IInv, TypeOK, TxSet, NotifyAgent
  <1>3. /\ t.ver = {}
        /\ \A r \in t.rel : NextRelease(r)
        /\ \A c \in t.cur : \E r \in t.rel : NextCurrent(c.id, c.val, r)
        /\ \A e \in t.inf : e.status = "released" /\ \E c \in t.cur : c.id = e.id
        /\ \A r \in t.rel : \E c \in t.cur : c.id = r.id
        /\ \A c \in t.cur : \E e \in t.inf : e.id = c.id
    BY <1>1, <1>2 DEF SerialInv, RequestTrue, ReleaseTrue, Releasing
  <1>4. ASSUME NEW i \in IDs PROVE Settled(i)'
    <2>1. CASE \A r \in t.rel : r.id # i
      <3>1. \A c \in t.cur : c.id # i
        BY <1>3, <2>1 DEF NextCurrent
      <3>2. \A e \in t.inf : e.id # i
        BY <1>3, <3>1
      <3> QED BY <1>2, <1>3, <2>1, <3>1, <3>2, UntouchedSettled
    <2>2. CASE \E r \in t.rel : r.id = i
      <3>1. PICK r \in t.rel : r.id = i
        BY <2>2
      <3>2. \A q \in t.rel : q.id = i => q = r
        BY <1>2, <1>3, <3>1 DEF NextRelease, WritesOK, SameRelease
      <3>3. PICK c \in t.cur : c.id = i /\ current'[i] = UpdateConfigCurrent(current[i], c.val)
        <4>1. \E c \in t.cur : c.id = i
          BY <1>3, <3>1
        <4> QED BY <1>2, <4>1, CommitRows
      <3>4. c.val.ver = current[i].ver /\ c.val.rel = r /\ c.val.pre = current[i].rel
        BY <1>3, <3>2, <3>3 DEF NextCurrent
      <3>5. r \in Releases /\ r # Null
        BY <1>2, ConfigServerAssumption DEF TxSet
      <3>6. /\ Settled(i) /\ PointersIn(current[i], i, versions, releases)
            /\ current[i] \in Currents
        BY <1>2 DEF SerialInv, IInv, RowsOK, TypeOK
      <3>7. current'[i].ver = current[i].ver /\ current'[i].rel = r
        BY <3>3, <3>4, <3>5, MergedRow
      <3>8. current'[i].pre = current[i].rel
        BY <3>3, <3>4, <3>6, MergedRow DEF PointersIn
      <3>9. r.num = ReleaseNum(current[i].rel) + 1 /\ r.ver = current[i].ver
        BY <1>3, <3>1 DEF NextRelease
      <3>10. ReleaseNum(current[i].rel) \in Nat /\ r.num \in Nat
        <4>1. current[i].rel = Null \/ current[i].rel \in Releases
          BY <3>6 DEF Currents
        <4> QED BY <3>5, <4>1 DEF ReleaseNum, Releases
      <3>11. ReleaseNum(current'[i].rel) = r.num
        BY <3>5, <3>7 DEF ReleaseNum
      <3>12. info'[i].status = "released"
        <4>1. \E e \in t.inf : e.id = i
          BY <1>3, <3>3
        <4>2. PICK e \in t.inf : e.id = i /\ info'[i].status = e.status
          BY <1>2, <4>1, CommitRows
        <4> QED BY <1>3, <4>2
      <3>13. versions' = versions /\ releases' = releases \cup t.rel
        BY <1>2, <1>3 DEF Commit
      <3>14. \A v \in versions' : v.id = i => v.num <= current'[i].ver.num
        BY <3>6, <3>7, <3>13 DEF Settled
      <3>15. \A q \in releases' : q.id = i => q.num <= ReleaseNum(current'[i].rel)
        <4>1. \A q \in releases : q.num \in Nat
          BY <1>2 DEF TypeOK, Releases
        <4> QED BY <3>2, <3>6, <3>9, <3>10, <3>11, <3>13, <4>1 DEF Settled
      <3>16. ReleaseNum(current'[i].pre) = ReleaseNum(current'[i].rel) - 1
        BY <3>8, <3>9, <3>10, <3>11 DEF ReleaseNum
      <3>17. info'[i].status = StatusOf(current'[i])
        BY <3>5, <3>7, <3>9, <3>12 DEF StatusOf
      <3> QED BY <3>14, <3>15, <3>16, <3>17 DEF Settled, ReleaseNum, StatusOf
    <2> QED BY <2>1, <2>2
  <1> QED BY <1>2, <1>4, SerialCommit

\* A request that fails at any statement leaves the rows as they were.
LEMMA SerialAbort ==
    ASSUME IInv, SerialInv, OneByOne, OneByOne', NEW w \in Workers, Abort(w)
    PROVE  SerialInv'
  <1>1. OnlyWorker(w) /\ RequestTrue(w)' /\ UNCHANGED tables
    BY SerialReturn DEF IInv, Abort, tables, rows
  <1> QED BY <1>1, SerialQuiet DEF Abort

-----------------------------------------------------------------------------
\* The empty database is settled and no request has begun.
LEMMA SerialInit == Init => SerialInv
  <1> SUFFICES ASSUME Init PROVE SerialInv
    OBVIOUS
  <1>1. ASSUME NEW i \in IDs PROVE Settled(i)
    BY DEF Init, Settled, ReleaseNum, NoCurrent, Exists
  <1>2. ASSUME NEW w \in Workers PROVE RequestTrue(w)
    <2>1. pc[w] = "idle" /\ wr[w] = NoWrites
      BY DEF Init
    <2> QED BY <2>1 DEF RequestTrue, Starting, Importing, AddTrue, Adding, UpdateTrue,
               ReleaseTrue, Releasing, RollbackTrue
  <1> QED BY <1>1, <1>2 DEF SerialInv

\* A step that changes nothing keeps the invariant.
LEMMA SerialStutter == SerialInv /\ UNCHANGED vars => SerialInv'
  <1> SUFFICES ASSUME SerialInv, UNCHANGED vars PROVE SerialInv'
    OBVIOUS
  <1>1. ASSUME NEW i \in IDs PROVE Settled(i)'
    BY DEF SerialInv, Settled, vars, rows, Exists
  <1>2. ASSUME NEW w \in Workers PROVE RequestTrue(w)'
    <2>1. RequestTrue(w)
      BY DEF SerialInv
    <2>2. UNCHANGED <<pc, ent, cur, row, wr, current, info>>
      BY DEF vars, rows, locals
    <2>3. (AddTrue(w) /\ UpdateTrue(w))'
      BY <2>1, <2>2 DEF RequestTrue, AddTrue, UpdateTrue, Unedited, Edited, StatusAfter
    <2>4. (ReleaseTrue(w) /\ RollbackTrue(w))'
      BY <2>1, <2>2 DEF RequestTrue, ReleaseTrue, RollbackTrue, NextRelease, NextCurrent
    <2> QED BY <2>1, <2>2, <2>3, <2>4 DEF RequestTrue
  <1> QED BY <1>1, <1>2 DEF SerialInv

\* Every step of a worker keeps the invariant while the others are between
\* requests.
LEMMA SerialStep ==
    ASSUME IInv, IInv', SerialInv, OneByOne, OneByOne', "import" \notin Ops, NEW w \in Workers,
           Add(w) \/ Update(w) \/ Release(w) \/ Rollback(w) \/ Import(w) \/ Abort(w)
    PROVE  SerialInv'
  <1>1. CASE \/ AddConfig(w) \/ GetConfigDetail(w) \/ ReloadTemplate(w) \/ ReleaseConfig(w)
             \/ ReleaseNamespace(w) \/ RollbackConfig(w) \/ ImportConfigs(w)
    BY <1>1, SerialStart, SerialQuiet
  <1>2. CASE AddNamespace(w) \/ AddInfo(w) \/ AddStore(w)
    BY <1>2, SerialAdd, SerialQuiet DEF AddNamespace, AddInfo, AddStore
  <1>3. CASE EditConfig(w) \/ UpdateRead(w) \/ UpdateStore(w) \/ UpdateInsert(w) \/ UpdateInfo(w)
    BY <1>3, SerialUpdate, SerialQuiet
       DEF EditConfig, UpdateRead, UpdateStore, UpdateInsert, UpdateInfo
  <1>4. CASE \/ ReleaseRead(w) \/ ReleaseInsert(w) \/ ReleaseCurrent(w) \/ ReleaseInfo(w)
             \/ packConfigs(w)
    BY <1>4, SerialRelease, SerialQuiet
       DEF ReleaseRead, ReleaseInsert, ReleaseCurrent, ReleaseInfo, packConfigs
  <1>5. CASE RollbackRead(w) \/ RollbackInsert(w) \/ RollbackStore(w) \/ RollbackCurrent(w)
    BY <1>5, SerialRollback, SerialQuiet
       DEF RollbackRead, RollbackInsert, RollbackStore, RollbackCurrent
  <1>6. CASE AddVersion(w) \/ UpdateCurrent(w) \/ NotifyAgent(w) \/ RollbackInfo(w) \/ Abort(w)
    BY <1>6, SerialAddCommit, SerialUpdateCommit, SerialReleaseCommit, SerialRollbackCommit,
       SerialAbort
  <1>7. CASE \/ ImportNamespace(w) \/ ImportRead(w) \/ ImportLoad(w) \/ ImportStore(w)
             \/ ImportInsert(w) \/ ImportInfo(w) \/ ImportCurrent(w)
    BY <1>7 DEF SerialInv, RequestTrue, Importing, ImportNamespace, ImportRead, ImportLoad,
                ImportStore, ImportInsert, ImportInfo, ImportCurrent
  <1> QED BY <1>1, <1>2, <1>3, <1>4, <1>5, <1>6, <1>7 DEF Add, Update, Release, Rollback, Import

\* While requests do not overlap and none imports, every config is settled after
\* each of them, for any number of workers that take turns, and wherever a
\* request fails.
THEOREM SerialInvariant ==
    ASSUME "import" \notin Ops
    PROVE  Spec /\ []OneByOne => []SerialInv
  <1>1. IInv /\ IInv' /\ SerialInv /\ OneByOne /\ OneByOne' /\ [Next]_vars => SerialInv'
    <2> SUFFICES ASSUME IInv, IInv', SerialInv, OneByOne, OneByOne', [Next]_vars PROVE SerialInv'
      OBVIOUS
    <2>1. CASE UNCHANGED vars
      BY <2>1, SerialStutter
    <2>2. CASE Next
      <3>1. PICK w \in Workers :
              Add(w) \/ Update(w) \/ Release(w) \/ Rollback(w) \/ Import(w) \/ Abort(w)
        BY <2>2 DEF Next
      <3> QED BY <3>1, SerialStep
    <2> QED BY <2>1, <2>2
  <1> QED BY <1>1, SerialInit, Invariant, PTL DEF Spec

\* config_current names the newest version and the newest release while requests
\* of AddConfig, UpdateConfig, ReloadTemplate, ReleaseConfig, ReleaseNamespace
\* and RollbackConfig do not overlap.
THEOREM LatestIsNewestHolds ==
    ASSUME "import" \notin Ops
    PROVE  Spec /\ []OneByOne => []LatestIsNewest
  <1>1. IInv /\ SerialInv => LatestIsNewest
    <2> SUFFICES ASSUME IInv, SerialInv PROVE LatestIsNewest
      OBVIOUS
    <2>1. \A v \in versions : v.id \in IDs
      BY DEF IInv, TypeOK, Versions
    <2>2. \A r \in releases : r.id \in IDs
      BY DEF IInv, TypeOK, Releases
    <2> QED BY <2>1, <2>2 DEF SerialInv, Settled, LatestIsNewest, LatestVersionIsNewest,
               LatestReleaseIsNewest
  <1> QED BY <1>1, Invariant, SerialInvariant, PTL

\* RollbackConfig goes back to the release before the latest one while requests
\* do not overlap.
THEOREM RollbackTargetHolds ==
    ASSUME "import" \notin Ops
    PROVE  Spec /\ []OneByOne => []RollbackTarget
  <1>1. SerialInv => RollbackTarget
    BY DEF SerialInv, Settled, RollbackTarget
  <1> QED BY <1>1, SerialInvariant, PTL

\* The status ReleaseNamespace selects configs by tells created, released and
\* updated configs apart while requests do not overlap.
THEOREM StatusAccurateHolds ==
    ASSUME "import" \notin Ops
    PROVE  Spec /\ []OneByOne => []StatusAccurate
  <1>1. SerialInv => StatusAccurate
    BY DEF SerialInv, Settled, StatusOf, StatusAccurate
  <1> QED BY <1>1, SerialInvariant, PTL

-----------------------------------------------------------------------------
(* Requests that do not overlap: the files.                                *)

\* No request saves a config under a name that versions of another config have:
\* files are kept by name and version number, and would be overwritten.
NoNameReused == \A w \in Workers, v \in versions :
    row[w] # Null /\ row[w].name = v.name => row[w].id = v.id

\* The content a request is about to store is the one its row records, and the
\* file of a version it has written holds that content.
ContentTrue(w) ==
    /\ pc[w] \in {"addStore", "updStore", "rbkInsert", "rbkStore"} => data[w] = row[w].digest
    /\ pc[w] \in {"addVersion", "updInsert"} => store[Path(row[w])] = row[w].digest
    /\ \A v \in wr[w].ver : pc[w] = "rbkStore" \/ store[Path(v)] = v.digest

\* The invariant of the files of requests that do not overlap.
ContentInv == StoredContent /\ \A w \in Workers : ContentTrue(w)

\* The other workers are between requests and have nothing to store.
LEMMA OthersContent ==
    ASSUME SerialInv, OneByOne, OneByOne', NEW w \in Workers, OnlyWorker(w),
           pc[w] # "idle" \/ pc'[w] # "idle", NEW o \in Workers, o # w
    PROVE  ContentTrue(o)'
  <1>1. pc'[o] = "idle" /\ wr'[o] = wr[o] /\ wr[o] = NoWrites
    BY DEF OneByOne, OnlyWorker, SerialInv, RequestTrue, Starting
  <1>2. wr'[o].ver = {}
    BY <1>1 DEF NoWrites
  <1> QED BY <1>1, <1>2 DEF ContentTrue

\* A step that stores no file, and commits only versions whose file is right.
LEMMA ContentQuiet ==
    ASSUME SerialInv, ContentInv, OneByOne, OneByOne', NEW w \in Workers, OnlyWorker(w),
           pc[w] # "idle" \/ pc'[w] # "idle", UNCHANGED store, ContentTrue(w)',
           \A v \in versions' : v \in versions \/ store[Path(v)] = v.digest
    PROVE  ContentInv'
  <1>1. StoredContent'
    BY DEF ContentInv, StoredContent, Path
  <1>2. ASSUME NEW o \in Workers PROVE ContentTrue(o)'
    BY OthersContent
  <1> QED BY <1>1, <1>2 DEF ContentInv

\* The file of a new version replaces no committed version's.
LEMMA ContentStore ==
    ASSUME IInv, SerialInv, ContentInv, OneByOne, OneByOne', NoNameReused, NEW w \in Workers,
           AddStore(w) \/ UpdateStore(w) \/ RollbackStore(w)
    PROVE  ContentInv'
  <1>1. /\ TypeOK /\ Local(w) /\ RequestTrue(w) /\ ContentTrue(w)
        /\ pc[w] \in {"addStore", "updStore", "rbkStore"}
    BY DEF IInv, SerialInv, ContentInv, AddStore, UpdateStore, RollbackStore
  <1>2. PICK l \in {"addVersion", "updInsert", "updInfo", "rbkCurrent"} :
          StoreConfig(w, Path(row[w]), l)
    BY DEF AddStore, UpdateStore, RollbackStore, AfterStore
  <1>3. row[w] \in Versions /\ row[w].id = ent[w].id /\ ent[w] \in Entities
    <2>1. row[w] # Null
      <3>1. CASE pc[w] = "rbkStore"
        <4>1. row[w] \in wr[w].ver
          BY <1>1, <3>1 DEF Local, RowOK
        <4> QED BY <1>1, <4>1, ConfigServerAssumption DEF TypeOK
      <3> QED BY <1>1, <3>1 DEF Local, RowOK
    <2> QED BY <1>1, <2>1 DEF Local, RowOK, EntityOK, TypeOK
  <1>4. /\ store' = [store EXCEPT ![Path(row[w])] = data[w]] /\ data[w] = row[w].digest
        /\ versions' = versions /\ row' = row /\ wr' = wr /\ pc' = [pc EXCEPT ![w] = l]
        /\ OnlyWorker(w)
    BY <1>1, <1>2 DEF StoreConfig, ContentTrue, rows, locals, Goto, OnlyWorker, TypeOK
  <1>5. ASSUME NEW v \in versions PROVE Path(v) # Path(row[w])
    <2>1. SUFFICES ASSUME v.name = row[w].name, v.num = row[w].num PROVE FALSE
      BY DEF Path
    <2>2. v.id = row[w].id /\ Exists(row[w].id) /\ v.id \in IDs
      <3>1. row[w] # Null
        BY <1>3, ConfigServerAssumption
      <3> QED BY <2>1, <3>1 DEF NoNameReused, IInv, RowsOK, TypeOK, Versions
    <2>3. pc[w] # "addStore"
      BY <1>1, <1>3, <2>2 DEF Local, EntityOK
    <2>4. row[w].num = current[ent[w].id].ver.num + 1
      BY <1>1, <2>3 DEF RequestTrue, UpdateTrue, Unedited, RollbackTrue, Local, RowOK
    <2>5. v.num <= current[ent[w].id].ver.num
      BY <1>3, <2>2 DEF SerialInv, Settled
    <2>6. current[ent[w].id].ver \in Versions
      <3>1. current[ent[w].id] \in Currents /\ current[ent[w].id].ver # Null
        BY <1>1, <1>3, <2>2 DEF IInv, RowsOK, TypeOK
      <3> QED BY <3>1 DEF Currents
    <2>7. v.num \in Int /\ current[ent[w].id].ver.num \in Int
      BY <1>1, <2>6 DEF TypeOK, Versions
    <2> QED BY <2>1, <2>4, <2>5, <2>7
  <1>6. store'[Path(row[w])] = row[w].digest
    BY <1>1, <1>3, <1>4, PathType DEF TypeOK
  <1>7. StoredContent'
    BY <1>4, <1>5 DEF ContentInv, StoredContent, TypeOK
  <1>8. ASSUME NEW v \in wr[w].ver PROVE v = row[w]
    BY <1>1 DEF RequestTrue, AddTrue, Adding, Starting, RollbackTrue, NoWrites
  <1>9. ContentTrue(w)'
    BY <1>1, <1>4, <1>6, <1>8 DEF ContentTrue, TypeOK
  <1>10. ASSUME NEW o \in Workers PROVE ContentTrue(o)'
    BY <1>1, <1>4, <1>9, OthersContent
  <1> QED BY <1>7, <1>10 DEF ContentInv

\* A worker between requests has nothing to store.
LEMMA ContentReturn ==
    ASSUME TypeOK, NEW w \in Workers, Return(w)
    PROVE  OnlyWorker(w) /\ ContentTrue(w)'
  <1>1. OnlyWorker(w)
    BY SerialReturn
  <1>2. pc'[w] = "idle" /\ wr'[w].ver = {}
    BY DEF Return, Goto, TypeOK, NoWrites
  <1> QED BY <1>1, <1>2 DEF ContentTrue

\* A commit, or a failure: the files of the committed versions are right.
LEMMA ContentCommit ==
    ASSUME IInv, SerialInv, ContentInv, OneByOne, OneByOne', NEW w \in Workers,
           AddVersion(w) \/ UpdateCurrent(w) \/ NotifyAgent(w) \/ RollbackInfo(w) \/ Abort(w)
    PROVE  ContentInv'
  <1>1. /\ TypeOK /\ ContentTrue(w) /\ Return(w) /\ UNCHANGED store
    BY DEF IInv, ContentInv, AddVersion, UpdateCurrent, CommitCurrent, NotifyAgent,
           RollbackInfo, Abort, Commit, files
  <1>2. OnlyWorker(w) /\ ContentTrue(w)'
    BY <1>1, ContentReturn
  <1>3. wr[w] \in TxSet
    BY <1>1 DEF TypeOK, TxSet
  <1>4. \A v \in versions' : v \in versions \/ store[Path(v)] = v.digest
    <2>1. CASE AddVersion(w)
      <3>1. versions' = versions \cup {row[w]} /\ pc[w] = "addVersion"
        BY <1>3, <2>1 DEF AddVersion, Commit, TxSet
      <3> QED BY <1>1, <3>1 DEF ContentTrue
    <2>2. CASE UpdateCurrent(w) \/ NotifyAgent(w) \/ RollbackInfo(w)
      <3>1. versions' = versions \cup wr[w].ver /\ pc[w] # "rbkStore"
        BY <1>3, <2>2 DEF UpdateCurrent, CommitCurrent, NotifyAgent, RollbackInfo, Commit, TxSet
      <3> QED BY <1>1, <3>1 DEF ContentTrue
    <2>3. CASE Abort(w)
      BY <2>3 DEF Abort, rows
    <2> QED BY <2>1, <2>2, <2>3
  <1>5. pc[w] # "idle"
    BY DEF AddVersion, UpdateCurrent, NotifyAgent, RollbackInfo, Abort
  <1> QED BY <1>1, <1>2, <1>4, <1>5, ContentQuiet

\* A request begins: it has nothing to store yet.
LEMMA ContentStart ==
    ASSUME IInv, SerialInv, NEW w \in Workers,
           \/ AddConfig(w) \/ GetConfigDetail(w) \/ ReloadTemplate(w) \/ ReleaseConfig(w)
           \/ ReleaseNamespace(w) \/ RollbackConfig(w)
    PROVE  ContentTrue(w)' /\ UNCHANGED <<store, versions>>
  <1>1. TypeOK /\ wr[w] = NoWrites /\ wr' = wr /\ UNCHANGED <<store, versions>>
    BY DEF IInv, SerialInv, RequestTrue, Starting, AddConfig, GetConfigDetail, ReloadTemplate,
           ReleaseConfig, ReleaseNamespace, RollbackConfig, rows, files
  <1>2. pc'[w] \in {"addNs", "edit", "updRead", "relRead", "pack", "rbkRead"}
    BY <1>1 DEF TypeOK, Goto, AddConfig, GetConfigDetail, ReloadTemplate, ReleaseConfig,
                ReleaseNamespace, RollbackConfig
  <1>3. wr'[w].ver = {}
    BY <1>1 DEF NoWrites
  <1> QED BY <1>1, <1>2, <1>3 DEF ContentTrue

\* The content is decided together with the row that records it; RollbackConfig
\* finds that of the previous release in its file.
LEMMA ContentRead ==
    ASSUME IInv, SerialInv, ContentInv, NEW w \in Workers,
           AddInfo(w) \/ UpdateRead(w) \/ RollbackRead(w)
    PROVE  ContentTrue(w)' /\ UNCHANGED <<store, versions>>
  <1>1. TypeOK /\ RequestTrue(w) /\ UNCHANGED <<store, versions>>
    BY DEF IInv, SerialInv, AddInfo, UpdateRead, RollbackRead, rows, files
  <1>2. CASE AddInfo(w)
    <2>1. pc'[w] = "addStore" /\ data'[w] = row'[w].digest /\ wr'[w].ver = wr[w].ver
          /\ pc[w] = "addInfo"
      BY <1>1, <1>2 DEF AddInfo, Goto, TypeOK
    <2>2. wr[w].ver = {}
      BY <1>1, <2>1 DEF RequestTrue, AddTrue, Adding
    <2> QED BY <1>1, <2>1, <2>2 DEF ContentTrue
  <1>3. CASE UpdateRead(w)
    <2>1. pc'[w] = "updStore" /\ data'[w] = row'[w].digest /\ wr' = wr /\ pc[w] = "updRead"
      BY <1>1, <1>3 DEF UpdateRead, Goto, TypeOK
    <2>2. wr[w].ver = {}
      BY <1>1, <2>1 DEF RequestTrue, Starting, NoWrites
    <2> QED BY <1>1, <2>1, <2>2 DEF ContentTrue
  <1>4. CASE RollbackRead(w)
    <2>1. PICK p : p = current[ent[w].id].pre
      OBVIOUS
    <2>2. /\ pc'[w] = "rbkInsert" /\ wr' = wr /\ pc[w] = "rbkRead" /\ p # Null
          /\ row'[w] = [p.ver EXCEPT !.num = current[ent[w].id].ver.num + 1]
          /\ data'[w] = store[Path(p.ver)]
      BY <1>1, <1>4, <2>1 DEF RollbackRead, RollbackSource, Goto, TypeOK
    <2>3. wr[w].ver = {}
      BY <1>1, <2>2 DEF RequestTrue, Starting, NoWrites
    <2>4. p.ver \in versions
      <3>1. ent[w].id \in IDs
        <4>1. ent[w] \in Entities
          BY <1>1, <2>2 DEF IInv, Local, EntityOK, TypeOK
        <4> QED BY <4>1 DEF Entities
      <3>2. p \in releases
        BY <2>1, <2>2, <3>1 DEF IInv, RowsOK, PointersIn
      <3> QED BY <3>2 DEF IInv, RowsOK
    <2>5. row'[w].digest = p.ver.digest
      <3>1. p.ver \in Versions
        BY <1>1, <2>4 DEF TypeOK
      <3> QED BY <2>2, <3>1 DEF Versions
    <2>6. store[Path(p.ver)] = p.ver.digest
      BY <2>4 DEF ContentInv, StoredContent
    <2> QED BY <1>1, <2>2, <2>3, <2>5, <2>6 DEF ContentTrue
  <1> QED BY <1>2, <1>3, <1>4

\* The row of a version is written after its file, by RollbackConfig before.
LEMMA ContentInsert ==
    ASSUME IInv, SerialInv, ContentInv, NEW w \in Workers, UpdateInsert(w) \/ RollbackInsert(w)
    PROVE  ContentTrue(w)' /\ UNCHANGED <<store, versions>>
  <1>1. /\ TypeOK /\ ContentTrue(w) /\ row' = row /\ data' = data
        /\ UNCHANGED <<store, versions>>
    BY DEF IInv, ContentInv, UpdateInsert, RollbackInsert, rows, files, locals
  <1>2. wr'[w].ver = {row[w]}
    BY <1>1 DEF UpdateInsert, RollbackInsert, InsertVersion, TypeOK
  <1>3. CASE UpdateInsert(w)
    <2>1. pc'[w] = "updInfo" /\ pc[w] = "updInsert"
      BY <1>1, <1>3 DEF UpdateInsert, Goto, TypeOK
    <2> QED BY <1>1, <1>2, <2>1 DEF ContentTrue
  <1>4. CASE RollbackInsert(w)
    <2>1. pc'[w] = "rbkStore" /\ pc[w] = "rbkInsert"
      BY <1>1, <1>4 DEF RollbackInsert, Goto, TypeOK
    <2> QED BY <1>1, <1>2, <2>1 DEF ContentTrue
  <1> QED BY <1>3, <1>4

\* The steps that are not about files.
LEMMA ContentOther ==
    ASSUME IInv, SerialInv, ContentInv, NEW w \in Workers,
           \/ AddNamespace(w) \/ EditConfig(w) \/ UpdateInfo(w) \/ ReleaseRead(w)
           \/ ReleaseInsert(w) \/ ReleaseCurrent(w) \/ ReleaseInfo(w) \/ packConfigs(w)
           \/ RollbackCurrent(w)
    PROVE  ContentTrue(w)' /\ UNCHANGED <<store, versions>>
  <1>1. /\ TypeOK /\ ContentTrue(w) /\ UNCHANGED <<store, versions>>
    BY DEF IInv, ContentInv, AddNamespace, EditConfig, UpdateInfo, ReleaseRead, ReleaseInsert,
           ReleaseCurrent, ReleaseInfo, packConfigs, RollbackCurrent, WriteCurrent, rows, files
  <1>2. /\ pc[w] # "rbkStore"
        /\ pc'[w] \in {"addInfo", "updRead", "updCurrent", "relInsert", "relCurrent", "relInfo",
                       "relRead", "pack", "notify", "rbkInfo"}
    BY <1>1 DEF AddNamespace, EditConfig, UpdateInfo, ReleaseRead, ReleaseInsert,
           ReleaseCurrent, ReleaseInfo, packConfigs, RollbackCurrent, WriteCurrent, Goto, TypeOK
  <1>3. wr'[w].ver = wr[w].ver
    <2>1. CASE \/ AddNamespace(w) \/ EditConfig(w) \/ ReleaseRead(w) \/ packConfigs(w)
      BY <1>1, <2>1 DEF AddNamespace, EditConfig, ReleaseRead, packConfigs, TypeOK
    <2>2. CASE UpdateInfo(w) \/ ReleaseInsert(w) \/ ReleaseInfo(w)
      BY <1>1, <2>2 DEF UpdateInfo, ReleaseInsert, ReleaseInfo, TypeOK
    <2>3. CASE ReleaseCurrent(w) \/ RollbackCurrent(w)
      BY <1>1, <2>3 DEF ReleaseCurrent, RollbackCurrent, WriteCurrent, TypeOK
    <2> QED BY <2>1, <2>2, <2>3
  <1> QED BY <1>1, <1>2, <1>3 DEF ContentTrue

\* Every step of a worker keeps the files right.
LEMMA ContentStep ==
    ASSUME IInv, IInv', SerialInv, ContentInv, OneByOne, OneByOne', NoNameReused,
           "import" \notin Ops, NEW w \in Workers,
           Add(w) \/ Update(w) \/ Release(w) \/ Rollback(w) \/ Import(w) \/ Abort(w)
    PROVE  ContentInv'
  <1>1. CASE \/ AddConfig(w) \/ GetConfigDetail(w) \/ ReloadTemplate(w) \/ ReleaseConfig(w)
             \/ ReleaseNamespace(w) \/ RollbackConfig(w)
    BY <1>1, SerialStart, ContentStart, ContentQuiet
  <1>2. CASE AddStore(w) \/ UpdateStore(w) \/ RollbackStore(w)
    BY <1>2, ContentStore
  <1>3. CASE AddInfo(w) \/ UpdateRead(w) \/ RollbackRead(w)
    <2>1. OnlyWorker(w) /\ pc[w] # "idle"
      BY <1>3, SerialAdd, SerialUpdate, SerialRollback DEF AddInfo, UpdateRead, RollbackRead
    <2> QED BY <1>3, <2>1, ContentRead, ContentQuiet
  <1>4. CASE UpdateInsert(w) \/ RollbackInsert(w)
    <2>1. OnlyWorker(w) /\ pc[w] # "idle"
      BY <1>4, SerialUpdate, SerialRollback DEF UpdateInsert, RollbackInsert
    <2> QED BY <1>4, <2>1, ContentInsert, ContentQuiet
  <1>5. CASE \/ AddNamespace(w) \/ EditConfig(w) \/ UpdateInfo(w) \/ ReleaseRead(w)
             \/ ReleaseInsert(w) \/ ReleaseCurrent(w) \/ ReleaseInfo(w) \/ packConfigs(w)
             \/ RollbackCurrent(w)
    <2>1. OnlyWorker(w)
      BY <1>5, SerialAdd, SerialUpdate, SerialRelease, SerialRollback
    <2>2. pc[w] # "idle"
      BY <1>5 DEF AddNamespace, EditConfig, UpdateInfo, ReleaseRead, ReleaseInsert,
           ReleaseCurrent, ReleaseInfo, packConfigs, RollbackCurrent
    <2> QED BY <1>5, <2>1, <2>2, ContentOther, ContentQuiet
  <1>6. CASE AddVersion(w) \/ UpdateCurrent(w) \/ NotifyAgent(w) \/ RollbackInfo(w) \/ Abort(w)
    BY <1>6, ContentCommit
  <1>7. CASE ImportConfigs(w)
    BY <1>7 DEF ImportConfigs
  <1>8. CASE \/ ImportNamespace(w) \/ ImportRead(w) \/ ImportLoad(w) \/ ImportStore(w)
             \/ ImportInsert(w) \/ ImportInfo(w) \/ ImportCurrent(w)
    BY <1>8 DEF SerialInv, RequestTrue, Importing, ImportNamespace, ImportRead, ImportLoad,
                ImportStore, ImportInsert, ImportInfo, ImportCurrent
  <1> QED BY <1>1, <1>2, <1>3, <1>4, <1>5, <1>6, <1>7, <1>8
          DEF Add, Update, Release, Rollback, Import

\* The file of every version holds the content its row records, while requests do
\* not overlap, none imports and no config takes a name another one had.
THEOREM ContentInvariant ==
    ASSUME "import" \notin Ops
    PROVE  Spec /\ []OneByOne /\ []NoNameReused => []ContentInv
  <1>1. Init => ContentInv
    BY DEF Init, ContentInv, StoredContent, ContentTrue, NoWrites
  <1>2. ASSUME IInv, IInv', SerialInv, ContentInv, OneByOne, OneByOne', NoNameReused, [Next]_vars
        PROVE  ContentInv'
    <2>1. CASE UNCHANGED vars
      BY <1>2, <2>1 DEF vars, rows, files, locals, ContentInv, StoredContent, ContentTrue, Path
    <2>2. CASE Next
      <3>1. PICK w \in Workers :
              Add(w) \/ Update(w) \/ Release(w) \/ Rollback(w) \/ Import(w) \/ Abort(w)
        BY <2>2 DEF Next
      <3> QED BY <1>2, <3>1, ContentStep
    <2> QED BY <1>2, <2>1, <2>2
  <1> QED BY <1>1, <1>2, SerialInvariant, Invariant, PTL DEF Spec

-----------------------------------------------------------------------------
\* The file of a committed version is all that is read for it.
LEMMA FileTrue ==
    ASSUME IInv, ContentInv, NEW v \in versions
    PROVE  visitConfigVersionData({v}) = {v.digest}
  <1>1. visitConfigVersionData({v}) = {store[Path(v)]} \ {Null}
    BY DEF visitConfigVersionData
  <1>2. store[Path(v)] = v.digest /\ store[Path(v)] # Null
    BY DEF IInv, RowsOK, ContentInv, StoredContent
  <1> QED BY <1>1, <1>2

\* A first version is shown with its content.
LEMMA FirstTrue ==
    ASSUME IInv, ContentInv, NEW v \in versions, NEW a \in FirstShown(v)
    PROVE  a.data = v.digest
  BY FileTrue DEF FirstShown

\* A change is shown with the content of the new version and its difference from
\* the old one.
LEMMA ChangeTrue ==
    ASSUME IInv, ContentInv, NEW v \in versions, NEW u \in versions, NEW a \in Change(v, u)
    PROVE  /\ a.data = v.digest
           /\ a.diff = IF u.digest = v.digest THEN {} ELSE {<<u.digest, v.digest>>}
  <1>1. visitConfigVersionData({v}) = {v.digest} /\ visitConfigVersionData({u}) = {u.digest}
    BY FileTrue
  <1> DEFINE m == diffConfigMeta(v, u)
             V == visitConfigVersionData({v})
             U == visitConfigVersionData({u})
  <1>2. CASE v.digest = u.digest
    <2>1. Change(v, u) = {[data |-> d, diff |-> {}, meta |-> m] : d \in V}
      BY <1>2 DEF Change
    <2> HIDE DEF m
    <2> QED BY <1>1, <1>2, <2>1
  <1>3. CASE v.digest # u.digest
    <2>1. Change(v, u) = ShownPairs(V, U, m)
      BY <1>3 DEF Change, ShownPairs
    <2> HIDE DEF m
    <2>2. PICK d \in V, p \in U :
            a = [data |-> d, diff |-> diffConfigData(d, p), meta |-> m]
      BY <2>1 DEF ShownPairs
    <2> QED BY <1>1, <1>3, <2>2 DEF diffConfigData
  <1> QED BY <1>2, <1>3

\* Every row of the change history shows what was saved, and how it differs from
\* the version before.
LEMMA ChangesTrue ==
    ASSUME IInv, ContentInv, NEW v \in versions, NEW a \in getChangeHistoryDetail(v.id, v)
    PROVE  /\ a.data = v.digest
           /\ v.num > 1 => \E u \in versions :
                /\ u.id = v.id /\ u.num = v.num - 1
                /\ a.diff = IF u.digest = v.digest THEN {} ELSE {<<u.digest, v.digest>>}
  <1>1. v \in Versions /\ v.id \in IDs /\ v.num \in Nat
    BY ConfigServerAssumption DEF IInv, TypeOK, Versions
  <1>2. ~Refused(v.id) /\ ~Refused(v)
    BY <1>1, ConfigServerAssumption DEF Refused
  <1> DEFINE Found == {y \in GetConfigVersionByID(v) : GetConfigInfoByID(v.id) # {}}
             Shown(x) == IF x.num < 2 THEN FirstShown(x)
                         ELSE UNION {Change(x, u) :
                                u \in GetConfigVersionByConfigInfoIDAndVersion(v.id, x.num - 1)}
  <1>3. \A x \in Found : x = v
    BY DEF GetConfigVersionByID
  <1>4. GetChangeHistoryDetail(v.id, v) = Answers(UNION {Shown(x) : x \in Found})
    BY DEF GetChangeHistoryDetail
  <1>5. a # Error
    BY ChangesReadable
  <1>6. a \in Shown(v)
    <2>1. a \in UNION {Shown(x) : x \in Found}
      BY <1>2, <1>4, <1>5 DEF getChangeHistoryDetail, Answers
    <2> QED BY <1>3, <2>1
  <1>7. CASE v.num < 2
    BY <1>1, <1>6, <1>7, FirstTrue
  <1>8. CASE ~(v.num < 2)
    <2>1. PICK u \in versions : u.id = v.id /\ u.num = v.num - 1 /\ a \in Change(v, u)
      BY <1>6, <1>8 DEF GetConfigVersionByConfigInfoIDAndVersion
    <2>2. /\ a.data = v.digest
          /\ a.diff = IF u.digest = v.digest THEN {} ELSE {<<u.digest, v.digest>>}
      BY <2>1, ChangeTrue, Zenon
    <2> QED BY <2>1, <2>2, Zenon
  <1> QED BY <1>7, <1>8

\* Every row of the release history shows what was released.
LEMMA ReleasesTrue ==
    ASSUME IInv, ContentInv, NEW r \in releases, NEW a \in getReleaseHistoryDetail(r.id, r)
    PROVE  a.data = r.ver.digest
  <1>1. r \in Releases /\ r.id \in IDs /\ r.ver \in versions
    BY ConfigServerAssumption DEF IInv, TypeOK, RowsOK, Releases
  <1>2. ~Refused(r.id) /\ ~Refused(r)
    BY <1>1, ConfigServerAssumption DEF Refused
  <1> DEFINE Found == {y \in GetReleaseByID(r) : GetConfigInfoByID(r.id) # {}}
             Shown(x) == IF x.num < 2 THEN FirstShown(x.ver)
                         ELSE UNION {Change(x.ver, p.ver) :
                                p \in GetReleaseByConfigInfoIDAndVersion(r.id, x.num - 1)}
  <1>3. \A x \in Found : x = r
    BY DEF GetReleaseByID
  <1>4. GetReleaseHistoryDetail(r.id, r) = Answers(UNION {Shown(x) : x \in Found})
    BY DEF GetReleaseHistoryDetail
  <1>5. a # Error
    BY ReleasesReadable
  <1>6. a \in Shown(r)
    <2>1. a \in UNION {Shown(x) : x \in Found}
      BY <1>2, <1>4, <1>5 DEF getReleaseHistoryDetail, Answers
    <2> QED BY <1>3, <2>1
  <1>7. CASE r.num < 2
    BY <1>1, <1>6, <1>7, FirstTrue
  <1>8. CASE ~(r.num < 2)
    <2>1. PICK q \in releases : a \in Change(r.ver, q.ver)
      BY <1>6, <1>8 DEF GetReleaseByConfigInfoIDAndVersion
    <2>2. q.ver \in versions
      BY DEF IInv, RowsOK
    <2> QED BY <1>1, <2>1, <2>2, ChangeTrue
  <1> QED BY <1>7, <1>8

\* The release of the namespace shows the configs it releases.
LEMMA NamespaceTrue ==
    ASSUME SerialInv
    PROVE  getReleaseNamespaceDetail(TRUE) =
             {e \in {Entity(i) : i \in {j \in IDs : Exists(j)}} :
                current[e.id].rel = Null \/ current[e.id].rel.ver # current[e.id].ver}
  <1>1. ~Refused(TRUE)
    BY ConfigServerAssumption DEF Refused
  <1>2. ASSUME NEW i \in IDs, Exists(i)
        PROVE  Entity(i).status \in {"created", "updated"}
                 <=> \/ current[Entity(i).id].rel = Null
                     \/ current[Entity(i).id].rel.ver # current[Entity(i).id].ver
    BY <1>2 DEF SerialInv, Settled, StatusOf, Entity
  <1> QED BY <1>1, <1>2 DEF getReleaseNamespaceDetail, ReleaseNamespaceDetail

\* The histories show the contents that were saved and released and how they
\* differ, across renames and rollbacks, while requests do not overlap, none
\* imports and no config takes a name another one had.
THEOREM HistoryTrueHolds ==
    ASSUME "import" \notin Ops
    PROVE  Spec /\ []OneByOne /\ []NoNameReused => []HistoryTrue
  <1>1. IInv /\ SerialInv /\ ContentInv => HistoryTrue
    BY ChangesTrue, ReleasesTrue, NamespaceTrue DEF HistoryTrue
  <1> QED BY <1>1, Invariant, SerialInvariant, ContentInvariant, PTL
=============================================================================
