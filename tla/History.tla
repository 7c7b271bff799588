------------------------------ MODULE History ------------------------------
(***************************************************************************)
(* What the manager shows of a config: the detail requests of              *)
(* pkg/manager/configserver/configserver.go and their handlers in          *)
(* pkg/manager/service/rest/configserver.go.                               *)
(*                                                                         *)
(* They only read, row by row and without a transaction.  config_version   *)
(* and release rows are never changed or deleted and a file, once there,   *)
(* stays, so what a request finds it also finds in the state at its end:   *)
(* an answer is an operator on one state.  Where a query with First() may  *)
(* meet several rows, every one of them gives an answer.                   *)
(***************************************************************************)
EXTENDS ConfigServer

\* The answer of a request that fails.
Error == [data |-> Null, diff |-> {}, meta |-> {}]

-----------------------------------------------------------------------------
(* Rows and files.                                                         *)

GetConfigInfoByID(i) == {e \in {Entity(j) : j \in IDs} : e.id = i /\ Exists(i)}

GetConfigVersionByID(v) == versions \cap {v}

GetConfigVersionByConfigInfoIDAndVersion(i, num) ==
    {v \in versions : v.id = i /\ v.num = num}

GetReleaseByID(r) == releases \cap {r}

GetReleaseByConfigInfoIDAndVersion(i, num) ==
    {r \in releases : r.id = i /\ r.num = num}

\* The files there are of the versions vs.
visitConfigVersionData(vs) == {store[Path(v)] : v \in vs} \ {Null}

visitConfigData(e) == visitConfigVersionData(GetConfigVersionByID(current[e.id].ver))

\* What is shown of two versions and of two files.
diffConfigMeta(new, old) == IF new.name = old.name THEN {} ELSE {<<old.name, new.name>>}

diffConfigData(new, old) == {<<old, new>>}

-----------------------------------------------------------------------------
(* The change from version u to version v, for the change and the release  *)
(* history.  Versions of one digest have no difference, and the old file   *)
(* is not read.                                                            *)

FirstShown(v) == {[data |-> d, diff |-> {d}, meta |-> {}] : d \in visitConfigVersionData({v})}

Change(v, u) ==
    LET meta == diffConfigMeta(v, u) IN
    IF v.digest = u.digest
    THEN {[data |-> d, diff |-> {}, meta |-> meta] : d \in visitConfigVersionData({v})}
    ELSE {[data |-> d, diff |-> diffConfigData(d, p), meta |-> meta] :
             d \in visitConfigVersionData({v}), p \in visitConfigVersionData({u})}

\* The answers there may be; none is an error.
Answers(as) == IF as = {} THEN {Error} ELSE as

GetChangeHistoryDetail(i, v) ==
    Answers(UNION {IF x.num < 2
                   THEN FirstShown(x)
                   ELSE UNION {Change(x, u) :
                           u \in GetConfigVersionByConfigInfoIDAndVersion(i, x.num - 1)} :
                   x \in {y \in GetConfigVersionByID(v) : GetConfigInfoByID(i) # {}}})

\* Slip: the release before is looked for by the number of the version.
GetReleaseHistoryDetailSlip(i, r) ==
    Answers(UNION {IF x.num < 2
                   THEN FirstShown(x.ver)
                   ELSE UNION {Change(x.ver, p.ver) :
                           p \in GetReleaseByConfigInfoIDAndVersion(i, x.ver.num - 1)} :
                   x \in {y \in GetReleaseByID(r) : GetConfigInfoByID(i) # {}}})

GetReleaseHistoryDetail(i, r) ==
    Answers(UNION {IF x.num < 2
                   THEN FirstShown(x.ver)
                   ELSE UNION {Change(x.ver, p.ver) :
                           p \in GetReleaseByConfigInfoIDAndVersion(i, x.num - 1)} :
                   x \in {y \in GetReleaseByID(r) : GetConfigInfoByID(i) # {}}})

\* What a release of the config would change: the latest version against the
\* released one, if there is one.
getReleaseConfigDetail(e) ==
    LET pre == IF current[e.id].rel = Null
               THEN {Null}
               ELSE visitConfigVersionData(UNION {GetConfigVersionByID(r.ver) :
                                                  r \in GetReleaseByID(current[e.id].rel)})
    IN {[data |-> d, diff |-> diffConfigData(d, p), meta |-> {}] :
           d \in visitConfigData(e), p \in pre}

ReleaseConfigDetail(i) ==
    Answers(UNION {getReleaseConfigDetail(e) : e \in GetConfigInfoByID(i)})

\* The configs a release of the namespace would release.
ReleaseNamespaceDetail ==
    {e \in {Entity(i) : i \in {j \in IDs : Exists(j)}} : e.status \in {"created", "updated"}}

-----------------------------------------------------------------------------
(* The handlers; a parameter that is missing or no number is refused.      *)

Refused(p) == p = Null

getConfigDetail(i) ==
    IF Refused(i) THEN {Error}
    ELSE Answers({[data |-> d, diff |-> {}, meta |-> {}] :
                     d \in UNION {visitConfigData(e) : e \in GetConfigInfoByID(i)}})

getReleaseDetail(i) == IF Refused(i) THEN {Error} ELSE ReleaseConfigDetail(i)

getChangeHistoryDetail(i, v) ==
    IF Refused(i) \/ Refused(v) THEN {Error} ELSE GetChangeHistoryDetail(i, v)

getReleaseHistoryDetail(i, r) ==
    IF Refused(i) \/ Refused(r) THEN {Error} ELSE GetReleaseHistoryDetail(i, r)

getReleaseNamespaceDetail(ns) == IF Refused(ns) THEN {} ELSE ReleaseNamespaceDetail

-----------------------------------------------------------------------------
(* Properties.                                                             *)

\* However requests interleave and fail, every row of the two histories can be
\* opened, and every config and what its release would change can be shown.
DetailsReadable ==
    /\ \A v \in versions : Error \notin getChangeHistoryDetail(v.id, v)
    /\ \A r \in releases : Error \notin getReleaseHistoryDetail(r.id, r)
    /\ \A i \in IDs : Exists(i) => Error \notin getConfigDetail(i) \cup getReleaseDetail(i)

\* Requests that do not overlap: a row of a history shows the content that was
\* saved or released and how it differs from the row before, across renames
\* and rollbacks, and a release of the namespace shows the configs it releases.
HistoryTrue ==
    /\ \A v \in versions : \A a \in getChangeHistoryDetail(v.id, v) :
          /\ a.data = v.digest
          /\ v.num > 1 => \E u \in versions :
                /\ u.id = v.id /\ u.num = v.num - 1
                /\ a.diff = IF u.digest = v.digest THEN {} ELSE {<<u.digest, v.digest>>}
    /\ \A r \in releases : \A a \in getReleaseHistoryDetail(r.id, r) :
          a.data = r.ver.digest
    /\ getReleaseNamespaceDetail(TRUE) =
          {e \in {Entity(i) : i \in {j \in IDs : Exists(j)}} :
              current[e.id].rel = Null \/ current[e.id].rel.ver # current[e.id].ver}
=============================================================================
