---------------------------- MODULE ConfigServer ----------------------------
(***************************************************************************)
(* The manager's config server: pkg/manager/configserver/configserver.go   *)
(* with its tables (pkg/manager/model/configserver) and the file database  *)
(* (pkg/component/storage/filedb).                                         *)
(*                                                                         *)
(* Every REST request runs in a goroutine of its own, here a worker.  A    *)
(* request reads rows through db.Get(), outside its transaction and        *)
(* without locks, writes rows through tx, and writes files straight to the *)
(* file database: a rollback undoes rows and never files.  Each action is  *)
(* one such access, in the order of the code; the last write of a handler  *)
(* and its tx.Commit() are one step, because nothing can block between.    *)
(*                                                                         *)
(* One site and one namespace: rows of different ones share no unique key, *)
(* and moving a config to another namespace is renaming it.                *)
(* A datum stands for a file content and for its digest, which the file    *)
(* database computes from the content alone.                               *)
(***************************************************************************)
EXTENDS Integers, FiniteSets

CONSTANTS Workers,     \* goroutines that serve requests
          IDs,         \* primary keys config_info.id can take
          Names,       \* config names
          Data,        \* file contents
          Ops,         \* the requests clients send in this instance
          MaxVersion,  \* bound: largest config version number
          MaxRelease,  \* bound: largest release number
          Null         \* an absent row, name, version, release or file

Versions == [id : IDs, name : Names, num : 1 .. MaxVersion, digest : Data]

Releases == [id : IDs, num : 1 .. MaxRelease, ver : Versions]

Status == {"created", "updated", "released"}

Entities == [id : IDs, name : Names, status : Status]

ASSUME ConfigServerAssumption ==
    /\ IDs \subseteq Nat
    /\ MaxVersion \in Nat \ {0}
    /\ MaxRelease \in Nat
    /\ Null \notin IDs \cup Names \cup Data \cup Versions \cup Releases \cup Entities
    /\ Null \notin BOOLEAN

VARIABLES
    nsRow,     \* does the config_namespace row exist
    info,      \* config_info rows, by id
    current,   \* config_current rows, by config_info id
    versions,  \* committed config_version rows
    releases,  \* committed release rows
    store,     \* file database: config file by name and version
    package,   \* file database: package of the namespace
    pc,        \* next statement of each worker
    ent,       \* the configInfo variable of each worker's handler
    todo,      \* configInfos packConfigs has not released yet
    cur,       \* the configCurrent variable, a copy that may be stale
    row,       \* the newConfigVersion (or released) variable
    data,      \* content about to be written to the file database
    wr         \* writes of the open transaction; each one locks its row

rows == <<nsRow, info, current, versions, releases>>
files == <<store, package>>
locals == <<ent, todo, cur, row, data>>
vars == <<rows, files, pc, locals, wr>>

-----------------------------------------------------------------------------
Infos == [name : Names \cup {Null}, status : Status]

Currents == [ver : Versions \cup {Null}, rel : Releases \cup {Null},
             pre : Releases \cup {Null}]

CurrentWrites == [id : IDs, val : Currents]

Steps == {"idle",
          "addNs", "addInfo", "addStore", "addVersion",
          "edit", "updRead", "updStore", "updInsert", "updInfo", "updCurrent",
          "relRead", "relInsert", "relCurrent", "relInfo", "pack", "notify",
          "rbkRead", "rbkInsert", "rbkStore", "rbkCurrent", "rbkInfo",
          "impNs", "impRead", "impLoad", "impStore", "impInsert", "impInfo",
          "impCurrent"}

NoWrites == [ns |-> FALSE, ver |-> {}, rel |-> {}, cur |-> {}, inf |-> {}]

NoCurrent == [ver |-> Null, rel |-> Null, pre |-> Null]

\* The type invariant: every variable stays in the set its declaration and
\* the table definitions give it.
TypeOK ==
    /\ nsRow \in BOOLEAN
    /\ info \in [IDs -> Infos]
    /\ current \in [IDs -> Currents]
    /\ versions \subseteq Versions
    /\ releases \subseteq Releases
    /\ store \in [Names \X (1 .. MaxVersion) -> Data \cup {Null}]
    /\ package \subseteq Names \X Data
    /\ pc \in [Workers -> Steps]
    /\ ent \in [Workers -> Entities \cup {Null}]
    /\ todo \in [Workers -> SUBSET Entities]
    /\ cur \in [Workers -> Currents]
    /\ row \in [Workers -> Versions \cup {Null}]
    /\ data \in [Workers -> Data \cup {Null}]
    /\ wr \in [Workers -> [ns : BOOLEAN, ver : SUBSET Versions,
                           rel : SUBSET Releases, cur : SUBSET CurrentWrites,
                           inf : SUBSET Entities]]

\* An empty database and file database, no request in progress.
Init ==
    /\ nsRow = FALSE
    /\ info = [i \in IDs |-> [name |-> Null, status |-> "created"]]
    /\ current = [i \in IDs |-> NoCurrent]
    /\ versions = {}
    /\ releases = {}
    /\ store = [p \in Names \X (1 .. MaxVersion) |-> Null]
    /\ package = {}
    /\ pc = [w \in Workers |-> "idle"]
    /\ ent = [w \in Workers |-> Null]
    /\ todo = [w \in Workers |-> {}]
    /\ cur = [w \in Workers |-> NoCurrent]
    /\ row = [w \in Workers |-> Null]
    /\ data = [w \in Workers |-> Null]
    /\ wr = [w \in Workers |-> NoWrites]

-----------------------------------------------------------------------------
(* Rows, unique indexes and row locks.                                     *)

Exists(i) == info[i].name # Null

Entity(i) == [id |-> i, name |-> info[i].name, status |-> info[i].status]

Path(v) == <<v.name, v.num>>

\* Two config_version rows collide on Name_Namespace_Version_ConfigInfoID.
SameVersion(a, b) == a.id = b.id /\ a.name = b.name /\ a.num = b.num

\* Two release rows collide on Version_ConfigInfoID.
SameRelease(a, b) == a.id = b.id /\ a.num = b.num

Others(w) == Workers \ {w}

\* Another open transaction has written the row w wants to write: w waits.
VersionLocked(w, v) ==
    \E o \in Others(w) : \E x \in wr[o].ver : SameVersion(x, v)

ReleaseLocked(w, r) ==
    \E o \in Others(w) : \E x \in wr[o].rel : SameRelease(x, r)

CurrentLocked(w, i) == \E o \in Others(w) : \E x \in wr[o].cur : x.id = i

\* UPDATE locks the row; a changed name also locks both keys of the unique
\* index Name_Namespace_SiteID.
InfoLocked(w, e) ==
    \E o \in Others(w) : \E x \in wr[o].inf :
        \/ x.id = e.id
        \/ /\ x.name # info[x.id].name
           /\ e.name \in {x.name, info[x.id].name}

\* Slip: the unique index also covers the digest.
VersionExistsSlip(v) == v \in versions

VersionExists(v) == \E x \in versions : SameVersion(x, v)

ReleaseExists(w, r) == \E x \in releases \cup wr[w].rel : SameRelease(x, r)

NameTaken(e) == \E i \in IDs : i # e.id /\ info[i].name = e.name

ReleaseNum(r) == IF r = Null THEN 0 ELSE r.num

\* gorm's Updates(struct) writes the fields that are not zero, so a zero
\* release id in a stale copy leaves the column as it is.
UpdateConfigCurrent(old, new) ==
    [ver |-> IF new.ver = Null THEN old.ver ELSE new.ver,
     rel |-> IF new.rel = Null THEN old.rel ELSE new.rel,
     pre |-> IF new.pre = Null THEN old.pre ELSE new.pre]

-----------------------------------------------------------------------------
(* Steps shared by the handlers.                                           *)

Goto(w, l) == pc' = [pc EXCEPT ![w] = l]

\* The handler returns; its variables are gone and its transaction ended.
Return(w) ==
    /\ Goto(w, "idle")
    /\ ent' = [ent EXCEPT ![w] = Null]
    /\ todo' = [todo EXCEPT ![w] = {}]
    /\ cur' = [cur EXCEPT ![w] = NoCurrent]
    /\ row' = [row EXCEPT ![w] = Null]
    /\ data' = [data EXCEPT ![w] = Null]
    /\ wr' = [wr EXCEPT ![w] = NoWrites]

\* tx.Commit(): the writes t of the transaction become visible at once.
Commit(w, t) ==
    /\ nsRow' = (nsRow \/ t.ns)
    /\ info' = [i \in IDs |->
                  IF \E e \in t.inf : e.id = i
                  THEN LET e == CHOOSE e \in t.inf : e.id = i
                       IN  [name |-> e.name, status |-> e.status]
                  ELSE info[i]]
    /\ current' = [i \in IDs |->
                     IF \E c \in t.cur : c.id = i
                     THEN UpdateConfigCurrent(current[i],
                                  (CHOOSE c \in t.cur : c.id = i).val)
                     ELSE current[i]]
    /\ versions' = versions \cup t.ver
    /\ releases' = releases \cup t.rel
    /\ Return(w)

\* tx.Rollback() and the error return, at any statement: a database error, a
\* duplicate key, a deadlock victim, a lock wait timeout, a failed or timed
\* out command to the agent, a client that gives up, or a manager restart.
Abort(w) ==
    /\ pc[w] # "idle"
    /\ Return(w)
    /\ UNCHANGED <<rows, files>>

\* CreateConfigVersion(row[w], tx).
InsertVersion(w) ==
    /\ ~VersionLocked(w, row[w])
    /\ ~VersionExists(row[w])
    /\ wr' = [wr EXCEPT ![w].ver = {row[w]}]

\* storage.StoreConfig: the file at path p is replaced.
StoreConfig(w, p, l) ==
    /\ store' = [store EXCEPT ![p] = data[w]]
    /\ Goto(w, l)
    /\ UNCHANGED <<rows, package, locals, wr>>

\* UpdateConfigCurrent(c, tx), with the handler going on at l.
WriteCurrent(w, c, l) ==
    /\ ~CurrentLocked(w, ent[w].id)
    /\ wr' = [wr EXCEPT ![w].cur = @ \cup {[id |-> ent[w].id, val |-> c]}]
    /\ Goto(w, l)
    /\ UNCHANGED <<rows, files, locals>>

\* UpdateConfigCurrent(c, tx) as the last write, and tx.Commit().
CommitCurrent(w, c) ==
    /\ ~CurrentLocked(w, ent[w].id)
    /\ Commit(w, [wr[w] EXCEPT !.cur = {[id |-> ent[w].id, val |-> c]}])
    /\ UNCHANGED files

InfoWritable(w, e) == ~InfoLocked(w, e) /\ ~NameTaken(e)

-----------------------------------------------------------------------------
(* AddConfig.                                                              *)

AddConfig(w) ==
    /\ "add" \in Ops
    /\ pc[w] = "idle"
    /\ Goto(w, "addNs")
    /\ UNCHANGED <<rows, files, locals, wr>>

AddNamespace(w) ==
    /\ pc[w] = "addNs"
    /\ \/ nsRow /\ UNCHANGED wr
       \/ /\ ~nsRow
          /\ \A o \in Others(w) : ~wr[o].ns
          /\ wr' = [wr EXCEPT ![w].ns = TRUE]
    /\ Goto(w, "addInfo")
    /\ UNCHANGED <<rows, files, locals>>

\* An auto-increment key is never handed to two transactions.
FreshID(i) ==
    /\ ~Exists(i)
    /\ \A o \in Workers : \A e \in wr[o].inf : e.id # i

AddInfo(w) ==
    /\ pc[w] = "addInfo"
    /\ \E i \in IDs, n \in Names, d \in Data :
         LET e == [id |-> i, name |-> n, status |-> "created"] IN
         /\ FreshID(i)
         /\ InfoWritable(w, e)
         /\ wr' = [wr EXCEPT ![w].inf = {e}]
         /\ ent' = [ent EXCEPT ![w] = e]
         /\ row' = [row EXCEPT ![w] = [id |-> i, name |-> n, num |-> 1,
                                       digest |-> d]]
         /\ data' = [data EXCEPT ![w] = d]
    /\ Goto(w, "addStore")
    /\ UNCHANGED <<rows, files, todo, cur>>

AddStore(w) == pc[w] = "addStore" /\ StoreConfig(w, Path(row[w]), "addVersion")

\* The version and current rows of a new config_info id cannot collide.
AddVersion(w) ==
    /\ pc[w] = "addVersion"
    /\ Commit(w, [wr[w] EXCEPT
                    !.ver = {row[w]},
                    !.cur = {[id |-> ent[w].id,
                              val |-> [NoCurrent EXCEPT !.ver = row[w]]]}])
    /\ UNCHANGED files

-----------------------------------------------------------------------------
(* UpdateConfig, called by the REST handler with the entity a client       *)
(* loaded and edited, or by ReloadTemplate with the one it has just read.  *)

GetConfigDetail(w) ==
    /\ "update" \in Ops
    /\ pc[w] = "idle"
    /\ \E i \in IDs : Exists(i) /\ ent' = [ent EXCEPT ![w] = Entity(i)]
    /\ Goto(w, "edit")
    /\ UNCHANGED <<rows, files, todo, cur, row, data, wr>>

\* The client sends its entity with any name and any content.
EditConfig(w) ==
    /\ pc[w] = "edit"
    /\ \E n \in Names, d \in Data :
         /\ ent' = [ent EXCEPT ![w].name = n]
         /\ data' = [data EXCEPT ![w] = d]
    /\ Goto(w, "updRead")
    /\ UNCHANGED <<rows, files, todo, cur, row, wr>>

\* The new template changes the content and nothing else.
ReloadTemplate(w) ==
    /\ "reload" \in Ops
    /\ pc[w] = "idle"
    /\ \E i \in IDs, d \in Data :
         /\ Exists(i)
         /\ ent' = [ent EXCEPT ![w] = Entity(i)]
         /\ data' = [data EXCEPT ![w] = d]
    /\ Goto(w, "updRead")
    /\ UNCHANGED <<rows, files, todo, cur, row, wr>>

UpdateRead(w) ==
    /\ pc[w] = "updRead"
    /\ LET c == current[ent[w].id] IN
         /\ c.ver.num < MaxVersion
         /\ cur' = [cur EXCEPT ![w] = c]
         /\ row' = [row EXCEPT ![w] = [id |-> ent[w].id, name |-> ent[w].name,
                                       num |-> c.ver.num + 1,
                                       digest |-> data[w]]]
    /\ Goto(w, "updStore")
    /\ UNCHANGED <<rows, files, ent, todo, data, wr>>

\* same: description, replacement and template version are what they were.
isConfigNeedNewVersion(old, new, same) ==
    ~(old.name = new.name /\ old.digest = new.digest /\ same)

\* The step after storing: a new version row, or just the entity.
AfterStore(w, same) == IF isConfigNeedNewVersion(cur[w].ver, row[w], same)
                       THEN "updInsert" ELSE "updInfo"

UpdateStore(w) ==
    /\ pc[w] = "updStore"
    /\ \E same \in BOOLEAN : StoreConfig(w, Path(row[w]), AfterStore(w, same))

\* The new version becomes configCurrent's latest one and the status of the
\* entity becomes updated, unless the client sent it as created.
UpdateInsert(w) ==
    /\ pc[w] = "updInsert"
    /\ InsertVersion(w)
    /\ cur' = [cur EXCEPT ![w].ver = row[w]]
    /\ ent' = [ent EXCEPT ![w].status =
                             IF @ = "created" THEN @ ELSE "updated"]
    /\ Goto(w, "updInfo")
    /\ UNCHANGED <<rows, files, todo, row, data>>

UpdateInfo(w) ==
    /\ pc[w] = "updInfo"
    /\ InfoWritable(w, ent[w])
    /\ wr' = [wr EXCEPT ![w].inf = {ent[w]}]
    /\ Goto(w, "updCurrent")
    /\ UNCHANGED <<rows, files, locals>>

UpdateCurrent(w) == pc[w] = "updCurrent" /\ CommitCurrent(w, cur[w])

-----------------------------------------------------------------------------
(* ReleaseConfig and ReleaseNamespace, both on top of releaseConfig.       *)

ReleaseConfig(w) ==
    /\ "release" \in Ops
    /\ pc[w] = "idle"
    /\ \E i \in IDs : Exists(i) /\ ent' = [ent EXCEPT ![w] = Entity(i)]
    /\ Goto(w, "relRead")
    /\ UNCHANGED <<rows, files, todo, cur, row, data, wr>>

\* GetAllConfigInfos returns the rows in the order of their primary keys.
First(e, s) == e \in s /\ \A f \in s : e.id <= f.id

\* Without a changed config an empty package goes out.
ReleaseNamespace(w) ==
    /\ "namespace" \in Ops
    /\ pc[w] = "idle"
    /\ LET changed == {e \in {Entity(i) : i \in {j \in IDs : Exists(j)}} :
                          e.status \in {"created", "updated"}} IN
         /\ todo' = [todo EXCEPT ![w] = changed]
         /\ \/ changed = {} /\ Goto(w, "pack") /\ UNCHANGED ent
            \/ \E e \in Entities : /\ First(e, changed)
                                   /\ ent' = [ent EXCEPT ![w] = e]
                                   /\ Goto(w, "relRead")
    /\ UNCHANGED <<rows, files, cur, row, data, wr>>

\* Slip: no check for new updates.
HasUpdatesSlip(c) == TRUE

\* releaseConfig stops when the latest version is the released one.
HasUpdates(c) == c.rel # Null => c.rel.ver # c.ver

ReleaseRead(w) ==
    /\ pc[w] = "relRead"
    /\ LET c == current[ent[w].id] IN
         /\ ReleaseNum(c.rel) < MaxRelease
         /\ HasUpdates(c)
         /\ cur' = [cur EXCEPT ![w] = c]
         /\ row' = [row EXCEPT ![w] = c.ver]
    /\ Goto(w, "relInsert")
    /\ UNCHANGED <<rows, files, ent, todo, data, wr>>

NewRelease(w) == [id |-> ent[w].id, num |-> ReleaseNum(cur[w].rel) + 1,
                  ver |-> row[w]]

\* Slips: the old release is not kept as the previous one; the new release is
\* not made the latest one.
ReleasedSlipPre(c, r) == [c EXCEPT !.rel = r]
Released(c, r) == [c EXCEPT !.rel = r, !.pre = c.rel]

ReleaseInsert(w) ==
    /\ pc[w] = "relInsert"
    /\ ~ReleaseLocked(w, NewRelease(w))
    /\ ~ReleaseExists(w, NewRelease(w))
    /\ wr' = [wr EXCEPT ![w].rel = @ \cup {NewRelease(w)}]
    /\ cur' = [cur EXCEPT ![w] = Released(cur[w], NewRelease(w))]
    /\ Goto(w, "relCurrent")
    /\ UNCHANGED <<rows, files, ent, todo, row, data>>

\* Slip: UpdateConfigCurrent is called with nil for tx and commits alone.
ReleaseCurrentSlip(w) ==
    /\ pc[w] = "relCurrent"
    /\ ~CurrentLocked(w, ent[w].id)
    /\ current' = [current EXCEPT ![ent[w].id] =
                                     UpdateConfigCurrent(@, cur[w])]
    /\ Goto(w, "relInfo")
    /\ UNCHANGED <<nsRow, info, versions, releases, files, locals, wr>>

ReleaseCurrent(w) == pc[w] = "relCurrent" /\ WriteCurrent(w, cur[w], "relInfo")

\* After the last config of a namespace comes the package, after a single
\* config the command to the agent.
ReleaseInfo(w) ==
    LET e == [ent[w] EXCEPT !.status = "released"]
        rest == todo[w] \ {ent[w]} IN
    /\ pc[w] = "relInfo"
    /\ InfoWritable(w, e)
    /\ wr' = [wr EXCEPT ![w].inf = @ \cup {e}]
    /\ todo' = [todo EXCEPT ![w] = rest]
    /\ \/ /\ rest = {}
          /\ Goto(w, IF todo[w] # {} THEN "pack" ELSE "notify")
          /\ UNCHANGED ent
       \/ \E f \in Entities : /\ First(f, rest)
                              /\ ent' = [ent EXCEPT ![w] = f]
                              /\ Goto(w, "relRead")
    /\ UNCHANGED <<rows, files, cur, row, data>>

packConfigs(w) ==
    /\ pc[w] = "pack"
    /\ \A r \in wr[w].rel : store[Path(r.ver)] # Null
    /\ package' = {<<r.ver.name, store[Path(r.ver)]>> : r \in wr[w].rel}
    /\ Goto(w, "notify")
    /\ UNCHANGED <<rows, store, locals, wr>>

\* The agent accepted the download command within the three seconds.
NotifyAgent(w) ==
    /\ pc[w] = "notify"
    /\ Commit(w, wr[w])
    /\ UNCHANGED files

-----------------------------------------------------------------------------
(* RollbackConfig.                                                         *)

RollbackConfig(w) ==
    /\ "rollback" \in Ops
    /\ pc[w] = "idle"
    /\ \E i \in IDs : Exists(i) /\ ent' = [ent EXCEPT ![w] = Entity(i)]
    /\ Goto(w, "rbkRead")
    /\ UNCHANGED <<rows, files, todo, cur, row, data, wr>>

\* Slip: the content is read from the latest version.
RollbackSourceSlip(c) == store[Path(c.ver)]

RollbackSource(c) == store[Path(c.pre.ver)]

\* The previous release's version row and the content stored for it.
RollbackRead(w) ==
    /\ pc[w] = "rbkRead"
    /\ LET c == current[ent[w].id] IN
         /\ c.pre # Null
         /\ c.ver.num < MaxVersion
         /\ cur' = [cur EXCEPT ![w] = c]
         /\ row' = [row EXCEPT ![w] = [c.pre.ver EXCEPT !.num = c.ver.num + 1]]
         /\ data' = [data EXCEPT ![w] = RollbackSource(c)]
    /\ Goto(w, "rbkInsert")
    /\ UNCHANGED <<rows, files, ent, todo, wr>>

RollbackInsert(w) ==
    /\ pc[w] = "rbkInsert"
    /\ InsertVersion(w)
    /\ Goto(w, "rbkStore")
    /\ UNCHANGED <<rows, files, locals>>

\* Slip: the restored content replaces the file of the latest version.
RollbackStoreSlip(w) ==
    /\ pc[w] = "rbkStore"
    /\ StoreConfig(w, Path(cur[w].ver), "rbkCurrent")

RollbackStore(w) ==
    /\ pc[w] = "rbkStore"
    /\ StoreConfig(w, Path(row[w]), "rbkCurrent")

\* Slip: the restored version is not made the latest one.
RollbackCurrentSlip(w) ==
    /\ pc[w] = "rbkCurrent"
    /\ WriteCurrent(w, cur[w], "rbkInfo")

RollbackCurrent(w) ==
    /\ pc[w] = "rbkCurrent"
    /\ WriteCurrent(w, [cur[w] EXCEPT !.ver = row[w]], "rbkInfo")

\* Slip: the status is left as it was.
RollbackEntitySlip(e) == e

RollbackEntity(e) == [e EXCEPT !.status = "updated"]

RollbackInfo(w) ==
    /\ pc[w] = "rbkInfo"
    /\ InfoWritable(w, ent[w])
    /\ Commit(w, [wr[w] EXCEPT !.inf = {RollbackEntity(ent[w])}])
    /\ UNCHANGED files

-----------------------------------------------------------------------------
(* ImportConfigs: createOrUpdateConfig for one file of the archive.        *)

ImportConfigs(w) ==
    /\ "import" \in Ops
    /\ pc[w] = "idle"
    /\ Goto(w, "impNs")
    /\ UNCHANGED <<rows, files, locals, wr>>

\* The namespace row is written outside any transaction.
ImportNamespace(w) ==
    /\ pc[w] = "impNs"
    /\ nsRow \/ \A o \in Others(w) : ~wr[o].ns
    /\ nsRow' = TRUE
    /\ Goto(w, "impRead")
    /\ UNCHANGED <<info, current, versions, releases, files, locals, wr>>

\* A config that is not found is created.  Finding nothing and inserting are
\* one step: when another worker creates the same name in between, the insert
\* fails, Abort.  The variable oldVersion stays 0 also when the config exists,
\* so that the imported content always gets version number 1.
ImportRead(w) ==
    /\ pc[w] = "impRead"
    /\ \E n \in Names, d \in Data, i \in IDs :
         LET e == [id |-> i, name |-> n, status |-> "created"] IN
         /\ \/ /\ info[i].name = n
               /\ ent' = [ent EXCEPT ![w] = Entity(i)]
               /\ UNCHANGED wr
            \/ /\ FreshID(i)
               /\ InfoWritable(w, e)
               /\ wr' = [wr EXCEPT ![w].inf = {e}]
               /\ ent' = [ent EXCEPT ![w] = e]
         /\ data' = [data EXCEPT ![w] = d]
         /\ row' = [row EXCEPT ![w] = [id |-> i, name |-> n, num |-> 1,
                                       digest |-> d]]
    /\ Goto(w, "impLoad")
    /\ UNCHANGED <<rows, files, todo, cur>>

\* A new config has no config_current row yet: an empty one is inserted.
ImportLoad(w) ==
    /\ pc[w] = "impLoad"
    /\ cur' = [cur EXCEPT ![w] = current[ent[w].id]]
    /\ Goto(w, "impStore")
    /\ UNCHANGED <<rows, files, ent, todo, row, data, wr>>

\* The same digest ends the import here, with the transaction left open; it
\* has written nothing and holds no lock.
ImportStore(w) ==
    /\ pc[w] = "impStore"
    /\ store' = [store EXCEPT ![Path(row[w])] = data[w]]
    /\ IF cur[w].ver # Null /\ cur[w].ver.digest = data[w]
       THEN Return(w)
       ELSE Goto(w, "impInsert") /\ UNCHANGED <<locals, wr>>
    /\ UNCHANGED <<rows, package>>

ImportInsert(w) ==
    /\ pc[w] = "impInsert"
    /\ InsertVersion(w)
    /\ Goto(w, "impInfo")
    /\ UNCHANGED <<rows, files, locals>>

ImportInfo(w) ==
    LET e == [ent[w] EXCEPT !.status = IF @ = "created" THEN @ ELSE "updated"]
    IN
    /\ pc[w] = "impInfo"
    /\ InfoWritable(w, e)
    /\ wr' = [wr EXCEPT ![w].inf = {e}]
    /\ Goto(w, "impCurrent")
    /\ UNCHANGED <<rows, files, locals>>

ImportCurrent(w) ==
    /\ pc[w] = "impCurrent"
    /\ CommitCurrent(w, [cur[w] EXCEPT !.ver = row[w]])

-----------------------------------------------------------------------------
Add(w) == AddConfig(w) \/ AddNamespace(w) \/ AddInfo(w) \/ AddStore(w)
          \/ AddVersion(w)

Update(w) == GetConfigDetail(w) \/ EditConfig(w) \/ ReloadTemplate(w)
             \/ UpdateRead(w) \/ UpdateStore(w) \/ UpdateInsert(w)
             \/ UpdateInfo(w) \/ UpdateCurrent(w)

Release(w) == ReleaseConfig(w) \/ ReleaseNamespace(w) \/ ReleaseRead(w)
              \/ ReleaseInsert(w) \/ ReleaseCurrent(w) \/ ReleaseInfo(w)
              \/ packConfigs(w) \/ NotifyAgent(w)

Rollback(w) == RollbackConfig(w) \/ RollbackRead(w) \/ RollbackInsert(w)
               \/ RollbackStore(w) \/ RollbackCurrent(w) \/ RollbackInfo(w)

Import(w) == ImportConfigs(w) \/ ImportNamespace(w) \/ ImportRead(w)
             \/ ImportLoad(w) \/ ImportStore(w) \/ ImportInsert(w)
             \/ ImportInfo(w) \/ ImportCurrent(w)

Next == \E w \in Workers : Add(w) \/ Update(w) \/ Release(w) \/ Rollback(w)
                           \/ Import(w) \/ Abort(w)

Spec == Init /\ [][Next]_vars

-----------------------------------------------------------------------------
(* Properties that hold for any number of concurrent requests.             *)

\* GetReleaseHistoryDetail shows a release as a change of the one numbered one
\* less: that release exists, is the only one with its number, and released
\* another version, however requests interleave on stale rows.
ReleaseHistory ==
    \A r \in releases :
        /\ \A q \in releases : SameRelease(q, r) => q = r
        /\ r.num > 1 => \E q \in releases : /\ q.id = r.id
                                            /\ q.num = r.num - 1
                                            /\ q.ver # r.ver

\* GetChangeHistoryDetail shows a version as a change of the one numbered one
\* less: version numbers of a config have no gap, and no two rows share name
\* and number.
VersionHistory ==
    \A v \in versions :
        /\ \A u \in versions : SameVersion(u, v) => u = v
        /\ v.num > 1 => \E u \in versions : u.id = v.id /\ u.num = v.num - 1

\* The ids the config_current row and the release rows hold are ids of
\* committed rows of the same config, although handlers copy them from reads
\* made outside their transactions and other transactions roll back.
References ==
    /\ \A i \in IDs : Exists(i) =>
          /\ current[i].ver \in {v \in versions : v.id = i}
          /\ current[i].rel \in {r \in releases : r.id = i} \cup {Null}
          /\ current[i].pre \in {r \in releases : r.id = i} \cup {Null}
          /\ current[i].pre # Null => current[i].rel # Null
    /\ \A r \in releases : r.ver \in versions /\ r.ver.id = r.id

\* The file of a committed version is there, so that the agent's download and
\* visitConfigVersionData find it, whatever transactions rolled back.
VersionStored == \A v \in versions : store[Path(v)] # Null

-----------------------------------------------------------------------------
(* Properties of requests that do not overlap.                             *)

\* The latest version of config_current is the newest version.
LatestVersionIsNewest ==
    \A v \in versions : v.num <= current[v.id].ver.num

\* The latest release of config_current is the newest release, the one the
\* next ReleaseConfig counts from.
LatestReleaseIsNewest ==
    \A r \in releases : r.num <= ReleaseNum(current[r.id].rel)

\* config_current names the newest version and the newest release, whichever
\* requests came before and at whichever statement they failed.
LatestIsNewest == LatestVersionIsNewest /\ LatestReleaseIsNewest

\* RollbackConfig goes back to the release before the latest one.
RollbackTarget ==
    \A i \in IDs : ReleaseNum(current[i].rel) > 0 =>
        ReleaseNum(current[i].pre) = ReleaseNum(current[i].rel) - 1

\* The file stored for a version has the digest its row records.  The code does
\* not guarantee it: an import of an existing config writes version 1 again, two
\* updates store before either inserts its row, and files follow names, rows ids.
StoredContent == \A v \in versions : store[Path(v)] = v.digest

\* The status tells created, released and updated configs apart: it is what
\* ReleaseNamespace selects configs by, and one wrongly selected config makes
\* releaseConfig fail the whole namespace.
StatusAccurate ==
    \A i \in IDs : Exists(i) =>
        info[i].status = CASE current[i].rel = Null -> "created"
                           [] current[i].rel # Null ->
                                IF current[i].rel.ver = current[i].ver
                                THEN "released" ELSE "updated"
=============================================================================
