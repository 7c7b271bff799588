---------------------------- MODULE Rest_proofs ----------------------------
(***************************************************************************)
(* Proofs about the parts of the manager that MCRest checks in one run:    *)
(* the instances of a config, imports from images, templates and lists,    *)
(* each for any number of hosts, imports, writers, namespaces, contents,   *)
(* rows and sizes of pages.                                                *)
(***************************************************************************)
EXTENDS Import, Instances, Templates, Listing, FiniteSetTheorems, WellFoundedInduction,
        TLAPS

-----------------------------------------------------------------------------
(* Instances.                                                              *)

\* What a row or a report can hold: no row, no content, or a content that
\* reached the agent.
Arrived == reached \cup {NoDigest, NoInstance}

ReportSet == [kind : {"update", "ready", "cancel"}, host : Hosts,
              digest : Digests \cup {NoDigest, NoInstance},
              pc : {"sent", "read"}, found : BOOLEAN]

\* Everything that can become a row comes from the agent's file.
Origin ==
    /\ reached \subseteq Digests \cup {NoDigest}
    /\ file \in reached \cup {NoDigest}
    /\ held \in [Hosts -> reached \cup {NoDigest}]
    /\ shown \in [Hosts -> Arrived]
    /\ \A r \in reports : r.digest \in Arrived

\* A host whose reports neither overlapped nor were lost has had one
\* connection, and its one report in flight is the last one made.
Tight(h) ==
    /\ link /\ broken = 0 /\ resend = {}
    /\ \A r \in reports : r.host = h =>
          /\ \A q \in reports : q.host = h => q = r
          /\ r.digest = last[h]
          /\ r.kind = "cancel" => r.digest = NoInstance
          /\ r.kind # "cancel" => r.digest \in Digests
          /\ r.pc = "read" => r.found = (shown[h] # NoInstance)
    /\ (\A r \in reports : r.host # h) => shown[h] = last[h]

InstInv ==
    /\ latest \in Digests \cup {NoDigest}
    /\ broken \in Nat
    /\ reports \subseteq ReportSet
    /\ last \in [Hosts -> Digests \cup {NoDigest, NoInstance}]
    /\ loose \subseteq Hosts
    /\ Origin
    /\ \A h \in Hosts \ loose : Tight(h)

\* A new report keeps the invariant: it is the only one of its host, or the
\* host is loose from now on.
LEMMA SendSyncPreserves ==
    ASSUME InstInv, NEW r \in ReportSet, SendSync(r), r.pc = "sent",
           r.digest \in Arrived,
           r.host \notin loose =>
               IF r.kind = "cancel" THEN r.digest = NoInstance ELSE r.digest \in Digests,
           UNCHANGED <<shown, reached, link, broken>>,
           resend = {} => resend' = {}
    PROVE  /\ reports' \subseteq ReportSet
           /\ last' \in [Hosts -> Digests \cup {NoDigest, NoInstance}]
           /\ loose' \subseteq Hosts
           /\ \A q \in reports' : q.digest \in Arrived'
           /\ \A h \in Hosts \ loose' : Tight(h)'
  <1>1. /\ reports' = reports \cup {r} /\ last' = [last EXCEPT ![r.host] = r.digest]
        /\ loose' = IF \E q \in reports : q.host = r.host
                    THEN loose \cup {r.host} ELSE loose
    BY DEF SendSync
  <1>2. r.host \in Hosts /\ r.digest \in Digests \cup {NoDigest, NoInstance}
    BY DEF ReportSet
  <1>3. /\ reports' \subseteq ReportSet
        /\ last' \in [Hosts -> Digests \cup {NoDigest, NoInstance}]
        /\ loose' \subseteq Hosts
        /\ \A q \in reports' : q.digest \in Arrived'
    BY <1>1, <1>2 DEF InstInv, Origin, Arrived
  <1>4. ASSUME NEW h \in Hosts, h \notin loose' PROVE Tight(h)'
    <2>1. h \notin loose /\ Tight(h)
      BY <1>1, <1>4 DEF InstInv
    <2>2. CASE h = r.host
      <3>1. \A q \in reports : q.host # h
        BY <1>1, <1>2, <1>4, <2>2
      <3>2. last'[h] = r.digest
        BY <1>1, <2>2 DEF InstInv
      <3> QED BY <1>1, <2>1, <2>2, <3>1, <3>2 DEF Tight
    <2>3. CASE h # r.host
      <3>1. last'[h] = last[h]
        BY <1>1, <2>3 DEF InstInv
      <3> QED BY <1>1, <2>1, <2>3, <3>1 DEF Tight
    <2> QED BY <2>2, <2>3
  <1> QED BY <1>3, <1>4

\* The reports of the agent: an update, an answer to a refresh, the ones of
\* OnReady and a cancel.
LEMMA ReportPreserves ==
    ASSUME InstInv, NEW h \in Hosts,
           ContentComplete(h) \/ RefreshReport(h) \/ OnReadyReport(h) \/ CancelApp(h)
    PROVE  InstInv'
  <1>1. CASE ContentComplete(h)
    <2> DEFINE r == Report("update", h, file)
    <2>1. /\ r \in ReportSet /\ r.pc = "sent" /\ r.kind = "update" /\ r.host = h
          /\ r.digest = file /\ file \in reached /\ file \in Digests
      BY <1>1 DEF ContentComplete, Report, ReportSet, InstInv, Origin
    <2>2. SendSync(r) /\ UNCHANGED <<latest, shown, reached, link, broken, resend, file>>
      BY <1>1 DEF ContentComplete
    <2>3. held' \in [Hosts -> reached' \cup {NoDigest}]
      BY <1>1, <2>1, <2>2 DEF ContentComplete, InstInv, Origin
    <2> HIDE DEF r
    <2>4. /\ reports' \subseteq ReportSet
          /\ last' \in [Hosts -> Digests \cup {NoDigest, NoInstance}]
          /\ loose' \subseteq Hosts
          /\ \A q \in reports' : q.digest \in Arrived'
          /\ \A x \in Hosts \ loose' : Tight(x)'
      BY <2>1, <2>2, SendSyncPreserves DEF Arrived
    <2> QED BY <2>2, <2>3, <2>4 DEF InstInv, Origin, Arrived
  <1>2. CASE RefreshReport(h)
    <2> DEFINE r == Report("update", h, held[h])
    <2>1. /\ r \in ReportSet /\ r.pc = "sent" /\ r.kind = "update" /\ r.host = h
          /\ r.digest = held[h] /\ held[h] \in reached /\ held[h] \in Digests
      BY <1>2 DEF RefreshReport, Report, ReportSet, InstInv, Origin
    <2>2. SendSync(r) /\ UNCHANGED <<latest, shown, reached, link, broken, resend, file, held>>
      BY <1>2 DEF RefreshReport
    <2> HIDE DEF r
    <2>4. /\ reports' \subseteq ReportSet
          /\ last' \in [Hosts -> Digests \cup {NoDigest, NoInstance}]
          /\ loose' \subseteq Hosts
          /\ \A q \in reports' : q.digest \in Arrived'
          /\ \A x \in Hosts \ loose' : Tight(x)'
      BY <2>1, <2>2, SendSyncPreserves DEF Arrived
    <2> QED BY <2>2, <2>4 DEF InstInv, Origin, Arrived
  <1>3. CASE OnReadyReport(h)
    <2> DEFINE r == Report("ready", h, file)
    <2>1. /\ r \in ReportSet /\ r.pc = "sent" /\ r.host = h
          /\ r.digest = file /\ file \in Arrived
      BY <1>3 DEF OnReadyReport, Report, ReportSet, InstInv, Origin, Arrived
    <2>2. SendSync(r) /\ UNCHANGED <<latest, shown, reached, link, broken, file, held>>
      BY <1>3 DEF OnReadyReport
    <2>3. h \in loose /\ (resend = {} => resend' = {})
      BY <1>3 DEF OnReadyReport, InstInv, Tight
    <2> HIDE DEF r
    <2>4. /\ reports' \subseteq ReportSet
          /\ last' \in [Hosts -> Digests \cup {NoDigest, NoInstance}]
          /\ loose' \subseteq Hosts
          /\ \A q \in reports' : q.digest \in Arrived'
          /\ \A x \in Hosts \ loose' : Tight(x)'
      BY <2>1, <2>2, <2>3, SendSyncPreserves
    <2> QED BY <2>2, <2>4 DEF InstInv, Origin, Arrived
  <1>4. CASE CancelApp(h)
    <2> DEFINE r == Report("cancel", h, NoInstance)
    <2>1. /\ r \in ReportSet /\ r.pc = "sent" /\ r.kind = "cancel" /\ r.host = h
          /\ r.digest = NoInstance
      BY DEF Report, ReportSet
    <2>2. SendSync(r) /\ UNCHANGED <<latest, shown, reached, link, broken, resend, file, held>>
      BY <1>4 DEF CancelApp
    <2> HIDE DEF r
    <2>4. /\ reports' \subseteq ReportSet
          /\ last' \in [Hosts -> Digests \cup {NoDigest, NoInstance}]
          /\ loose' \subseteq Hosts
          /\ \A q \in reports' : q.digest \in Arrived'
          /\ \A x \in Hosts \ loose' : Tight(x)'
      BY <2>1, <2>2, SendSyncPreserves DEF Arrived
    <2> QED BY <2>2, <2>4 DEF InstInv, Origin, Arrived
  <1> QED BY <1>1, <1>2, <1>3, <1>4

\* The manager takes up a report: the row it finds is the row of its host.
LEMMA GetInstancePreserves ==
    ASSUME InstInv, GetConfigInstance PROVE InstInv'
  <1>1. PICK r \in reports :
          /\ r.kind # "cancel" /\ r.pc = "sent" /\ link
          /\ reports' = (reports \ {r}) \cup
                        {[r EXCEPT !.pc = "read", !.found = shown[r.host] # NoInstance]}
          /\ UNCHANGED <<latest, shown, file, held, apps, link, broken, resend, reached,
                         last, loose, events>>
    BY DEF GetConfigInstance
  <1>2. PICK n : n = [r EXCEPT !.pc = "read", !.found = shown[r.host] # NoInstance]
    OBVIOUS
  <1>3. r \in ReportSet
    BY DEF InstInv
  <1>4. /\ n \in ReportSet /\ n.kind = r.kind /\ n.host = r.host
        /\ n.digest = r.digest /\ n.pc = "read"
        /\ n.found = (shown[r.host] # NoInstance)
    BY <1>2, <1>3 DEF ReportSet
  <1>5. reports' = (reports \ {r}) \cup {n}
    BY <1>1, <1>2
  <1>6. ASSUME NEW h \in Hosts \ loose PROVE Tight(h)'
    <2>1. Tight(h)
      BY DEF InstInv
    <2>2. CASE h = r.host
      BY <1>1, <1>4, <1>5, <2>1, <2>2 DEF Tight
    <2>3. CASE h # r.host
      BY <1>1, <1>4, <1>5, <2>1, <2>3 DEF Tight
    <2> QED BY <2>2, <2>3
  <1>7. reports' \subseteq ReportSet /\ \A q \in reports' : q.digest \in Arrived
    BY <1>1, <1>4, <1>5 DEF InstInv, Origin
  <1> QED BY <1>1, <1>6, <1>7 DEF InstInv, Origin, Arrived

\* The manager is done with a report r, which changed the row of its host.
LEMMA DonePreserves ==
    ASSUME InstInv, NEW r \in reports, reports' = reports \ {r},
           NEW d \in Arrived, shown' = [shown EXCEPT ![r.host] = d],
           r.host \notin loose => d = r.digest,
           UNCHANGED <<latest, file, held, apps, link, broken, resend, reached,
                       last, loose, events>>
    PROVE  InstInv'
  <1>1. r.host \in Hosts
    BY DEF InstInv, ReportSet
  <1>2. shown' \in [Hosts -> Arrived]
    BY <1>1 DEF InstInv, Origin
  <1>3. ASSUME NEW h \in Hosts \ loose PROVE Tight(h)'
    <2>1. Tight(h)
      BY DEF InstInv
    <2>2. CASE h = r.host
      <3>1. shown'[h] = r.digest /\ \A q \in reports' : q.host # h
        BY <1>1, <2>1, <2>2 DEF InstInv, Origin, Tight
      <3> QED BY <2>1, <2>2, <3>1 DEF Tight
    <2>3. CASE h # r.host
      <3>1. shown'[h] = shown[h]
        BY <1>1, <2>3 DEF InstInv, Origin
      <3> QED BY <2>1, <2>3, <3>1 DEF Tight
    <2> QED BY <2>2, <2>3
  <1> QED BY <1>2, <1>3 DEF InstInv, Origin, Arrived

\* The row is created or updated, or the handler gives up.
LEMMA SavePreserves ==
    ASSUME InstInv, SaveConfigInstance PROVE InstInv'
  <1>1. PICK r \in reports :
          /\ r.kind # "cancel" /\ r.pc = "read"
          /\ reports' = reports \ {r}
          /\ shown' = IF /\ r.found = (shown[r.host] # NoInstance)
                         /\ r.found => r.digest # NoDigest
                      THEN [shown EXCEPT ![r.host] = Saved(r)] ELSE shown
          /\ UNCHANGED <<latest, file, held, apps, link, broken, resend, reached,
                         last, loose, events>>
    BY DEF SaveConfigInstance
  <1>2. r.digest \in Arrived /\ r.host \in Hosts
    BY DEF InstInv, Origin, ReportSet
  <1>3. r.host \notin loose => /\ r.found = (shown[r.host] # NoInstance)
                               /\ r.digest # NoDigest
    BY <1>1, <1>2, InstancesAssumption DEF InstInv, Tight
  <1>4. CASE shown' = [shown EXCEPT ![r.host] = r.digest]
    BY <1>1, <1>2, <1>4, DonePreserves
  <1>5. CASE shown' = shown /\ r.host \in loose
    <2>1. shown' = [shown EXCEPT ![r.host] = shown[r.host]] /\ shown[r.host] \in Arrived
      BY <1>2, <1>5 DEF InstInv, Origin
    <2> QED BY <1>1, <1>5, <2>1, DonePreserves
  <1> QED BY <1>1, <1>3, <1>4, <1>5 DEF Saved

\* The row of a cancelled app is deleted.
LEMMA CancelPreserves ==
    ASSUME InstInv, appCancelHandler PROVE InstInv'
  <1>1. PICK r \in reports :
          /\ r.kind = "cancel"
          /\ reports' = reports \ {r}
          /\ shown' = [shown EXCEPT ![r.host] = NoInstance]
          /\ UNCHANGED <<latest, file, held, apps, link, broken, resend, reached,
                         last, loose, events>>
    BY DEF appCancelHandler, DeleteConfigInstance
  <1>2. r.host \in Hosts /\ (r.host \notin loose => r.digest = NoInstance)
    BY <1>1 DEF InstInv, Tight, ReportSet
  <1>3. NoInstance \in Arrived
    BY DEF Arrived
  <1> QED BY <1>1, <1>2, <1>3, DonePreserves

\* Reports that get lost, and the rest of the environment.
LEMMA InstRestPreserves ==
    ASSUME InstInv,
           \/ ReportFails \/ DeleteConfigInstanceByConnKey \/ Release \/ Download
           \/ LinkBreaks \/ LinkReady \/ \E h \in Hosts : RegisterApp(h)
    PROVE  InstInv'
  <1>1. CASE ReportFails
    BY <1>1 DEF ReportFails, InstInv, Origin, Arrived, Tight, ReportSet
  <1>2. CASE DeleteConfigInstanceByConnKey
    <2>1. loose = Hosts
      BY <1>2 DEF DeleteConfigInstanceByConnKey, InstInv, Tight
    <2>2. shown' \in [Hosts -> Arrived]
      BY <1>2 DEF DeleteConfigInstanceByConnKey, Arrived
    <2>3. broken' \in Nat
      BY <1>2 DEF DeleteConfigInstanceByConnKey, InstInv
    <2> QED BY <1>2, <2>1, <2>2, <2>3 DEF DeleteConfigInstanceByConnKey, InstInv, Origin, Arrived
  <1>3. CASE Release
    BY <1>3 DEF Release, InstInv, Origin, Arrived, Tight
  <1>4. CASE Download
    <2>1. /\ reached \subseteq reached' /\ file' \in reached'
          /\ reached' \subseteq Digests \cup {NoDigest}
      BY <1>4 DEF Download, InstInv, Origin
    <2>2. held' \in [Hosts -> reached' \cup {NoDigest}] /\ shown' \in [Hosts -> Arrived']
      BY <1>4, <2>1 DEF Download, InstInv, Origin, Arrived
    <2>3. \A r \in reports' : r.digest \in Arrived'
      BY <1>4, <2>1 DEF Download, InstInv, Origin, Arrived
    <2>4. \A h \in Hosts \ loose' : Tight(h)'
      BY <1>4 DEF Download, InstInv, Tight
    <2> QED BY <1>4, <2>1, <2>2, <2>3, <2>4 DEF Download, InstInv, Origin
  <1>5. CASE LinkBreaks
    BY <1>5 DEF LinkBreaks, InstInv, Origin, Arrived
  <1>6. CASE LinkReady
    <2>1. loose = Hosts
      BY <1>6 DEF LinkReady, InstInv, Tight
    <2> QED BY <1>6, <2>1 DEF LinkReady, InstInv, Origin, Arrived
  <1>7. CASE \E h \in Hosts : RegisterApp(h)
    BY <1>7 DEF RegisterApp, InstInv, Origin, Arrived, Tight
  <1> QED BY <1>1, <1>2, <1>3, <1>4, <1>5, <1>6, <1>7

\* InstInv is inductive: it holds however reports overtake each other.
THEOREM InstancesInvariant == InstSpec => []InstInv
  <1>1. InstInit => InstInv
    BY DEF InstInit, InstInv, Origin, Arrived, Tight
  <1>2. ASSUME InstInv, [InstNext]_instVars PROVE InstInv'
    <2>1. CASE UNCHANGED instVars
      BY <1>2, <2>1 DEF instVars, InstInv, Origin, Arrived, Tight
    <2>2. CASE InstNext
      BY <1>2, <2>2, ReportPreserves, GetInstancePreserves, SavePreserves,
         CancelPreserves, InstRestPreserves DEF InstNext
    <2> QED BY <1>2, <2>1, <2>2
  <1> QED BY <1>1, <1>2, PTL DEF InstSpec

\* No instance is shown in sync with a release that never reached the agent,
\* for any number of hosts, reports and reconnects.
THEOREM SyncShownReachedHolds == InstSpec => []SyncShownReached
  <1>1. InstInv => SyncShownReached
    BY InstancesAssumption
       DEF InstInv, Origin, Arrived, SyncShownReached, getConfigInstances, IsSync
  <1> QED BY <1>1, InstancesInvariant, PTL

\* The row of an instance whose reports did not overlap is what was last
\* reported for it.
THEOREM RowFollowsAppHolds == InstSpec => []RowFollowsApp
  <1>1. InstInv => RowFollowsApp
    BY DEF InstInv, Tight, RowFollowsApp
  <1> QED BY <1>1, InstancesInvariant, PTL

-----------------------------------------------------------------------------
(* Imports.                                                                *)

\* A nonempty set of numbers has a least one.
LEMMA MinIn == ASSUME NEW S \in SUBSET Nat, S # {} PROVE Min(S) \in S
  <1> DEFINE R == {ss \in Nat \X Nat : ss[1] < ss[2]}
  <1>1. IsWellFoundedOn(R, Nat)
    BY NatLessThanWellFounded DEF OpToRel
  <1> HIDE DEF R
  <1>2. PICK x \in S : \A y \in S : ~(<<y, x>> \in R)
    BY <1>1, WFMin
  <1>3. ASSUME NEW y \in S PROVE x =< y
    <2>1. y < x => <<y, x>> \in R
      BY DEF R
    <2> QED BY <1>2, <2>1
  <1> QED BY <1>3 DEF Min

ImportStates == {"idle", "begin", "copy", "copying", "read", "walk", "file", "ok", "failed"}

ImportSet == [pc : ImportStates, source : {"", "image", "tar", "bad"},
              site : Sites \cup {None}, ns : Types \cup {OtherType, None},
              second : 0 .. MaxSecond, dir : 0 .. MaxSecond,
              todo : SUBSET Nat, took : SUBSET (Nat \X (Imports \cup {None}))]

EntrySet == [ns : Types, name : Nat, from : Imports \cup {None}]

\* What the fields of a request have to do with each other.
RequestOK(r) ==
    /\ r.dir = r.second
    /\ r.pc = "idle" => r.source = ""
    /\ r.pc \in {"idle", "begin"} => r.dir = 0 /\ r.took = {}
    /\ r.dir # 0 => r.source = "image"
    /\ r.pc \in {"copy", "copying", "read", "walk"} => r.dir # 0
    /\ r.pc \in {"file", "ok"} /\ r.source = "image" => r.dir # 0
    /\ r.pc \in {"copy", "copying"} => r.ns \in Types

\* The directory after import i has copied the files N of the namespace.
Copied(ns, N, i) == {Entry(ns, 0, None)} \cup {Entry(ns, n, i) : n \in N}

\* Request r of import i that has the directory, which holds D, for itself.
Private(i, r, D) ==
    /\ r.pc \in {"copy", "copying", "read", "walk"} => r.took = {}
    /\ r.pc = "copy" => D = {}
    /\ r.pc = "copying" => r.todo \subseteq Names /\ D = Copied(r.ns, Names \ r.todo, i)
    /\ r.pc = "read" => D = {} \/ D = Copied(r.ns, Names, i)
    /\ r.pc \in {"walk", "file"} => D = Copied(r.ns, Names, i)
    /\ r.pc = "file" => r.todo \subseteq Names /\ r.took = (Names \ r.todo) \X {i}
    /\ r.pc = "ok" => r.took = Names \X {i}

Alone(i) == imp[i].dir # 0 /\ Sharing(i) = {} => Private(i, imp[i], dirs[imp[i].dir])

\* Whose directory it is.
InUse(s) == \E i \in Imports : imp[i].dir = s /\ imp[i].pc \notin {"ok", "failed"}

ImportInv ==
    /\ clock \in Seconds
    /\ dirs \in [Seconds -> SUBSET EntrySet]
    /\ imp \in [Imports -> ImportSet]
    /\ \A i \in Imports : RequestOK(imp[i]) /\ Alone(i)
    /\ \A s \in Seconds : dirs[s] # {} => InUse(s)

\* A step of import i that turns its request into r and changes no directory
\* but its own keeps the invariant, if it keeps the parts about import i.
LEMMA StepPreserves ==
    ASSUME ImportInv, NEW i \in Imports, NEW r \in ImportSet,
           imp' = [imp EXCEPT ![i] = r], UNCHANGED clock,
           dirs' \in [Seconds -> SUBSET EntrySet],
           \A s \in Seconds : s # imp[i].dir => dirs'[s] = dirs[s],
           RequestOK(r),
           r.dir = imp[i].dir \/ imp[i].dir = 0,
           r.dir # 0 /\ r.pc \in {"ok", "failed"} => dirs'[r.dir] = {},
           r.dir # 0 /\ Sharing(i)' = {} => Private(i, r, dirs'[r.dir])
    PROVE  ImportInv'
  <1>1. /\ imp' \in [Imports -> ImportSet] /\ imp'[i] = r
        /\ \A j \in Imports : j # i => imp'[j] = imp[j]
    BY DEF ImportInv
  <1>2. /\ \A j \in Imports : imp[j].dir = imp[j].second /\ imp[j].dir \in 0 .. MaxSecond
        /\ r.dir = r.second
    BY DEF ImportInv, RequestOK, ImportSet
  <1>3. ASSUME NEW j \in Imports PROVE RequestOK(imp'[j]) /\ Alone(j)'
    <2>1. CASE j = i
      BY <1>1, <2>1 DEF Alone
    <2>2. CASE j # i
      <3>1. RequestOK(imp'[j])
        BY <1>1, <2>2 DEF ImportInv
      <3>2. ASSUME imp[j].dir # 0, Sharing(j)' = {} PROVE Sharing(j) = {} /\ imp[j].dir # imp[i].dir
        <4>1. \A k \in Imports \ {j} : imp'[k].second # imp[j].second
          BY <1>1, <2>2, <3>2 DEF Sharing
        <4>2. \A k \in Imports \ {j} : imp[k].second # imp[j].second
          BY <1>1, <1>2, <2>2, <3>2, <4>1
        <4> QED BY <1>2, <2>2, <4>2 DEF Sharing
      <3>3. ASSUME imp[j].dir # 0, imp[j].dir # imp[i].dir PROVE dirs'[imp[j].dir] = dirs[imp[j].dir]
        BY <1>2, <3>3, ImportAssumption DEF Seconds
      <3> QED BY <1>1, <2>2, <3>1, <3>2, <3>3 DEF ImportInv, Alone
    <2> QED BY <2>1, <2>2
  <1>4. ASSUME NEW s \in Seconds, dirs'[s] # {} PROVE InUse(s)'
    <2>0. s # 0
      BY ImportAssumption DEF Seconds
    <2>1. CASE s = imp[i].dir
      BY <1>1, <1>4, <2>0, <2>1 DEF InUse
    <2>2. CASE s # imp[i].dir
      <3>1. PICK j \in Imports : imp[j].dir = s /\ imp[j].pc \notin {"ok", "failed"}
        BY <1>4, <2>2 DEF ImportInv, InUse
      <3>2. j # i
        BY <2>2, <3>1
      <3> QED BY <1>1, <3>1, <3>2 DEF InUse
    <2> QED BY <2>1, <2>2
  <1> QED BY <1>1, <1>3, <1>4 DEF ImportInv

\* The entries of a copied directory.
LEMMA CopiedEntries ==
    ASSUME NEW ns \in Types, NEW N \in SUBSET Names, NEW i \in Imports
    PROVE  /\ Copied(ns, N, i) \in SUBSET EntrySet
           /\ Copied(ns, N, i) # {}
           /\ \A e \in Copied(ns, N, i) :
                 /\ e.ns = ns
                 /\ e.name = 0 \/ (e.name \in N /\ e.from = i)
           /\ \A n \in N : \E e \in Copied(ns, N, i) : e.name = n
  <1>0. N \subseteq Nat
    BY ImportAssumption
  <1>1. Entry(ns, 0, None) \in EntrySet /\ \A n \in N : Entry(ns, n, i) \in EntrySet
    BY <1>0 DEF Entry, EntrySet
  <1>2. \A n, f : Entry(ns, n, f).ns = ns /\ Entry(ns, n, f).name = n /\ Entry(ns, n, f).from = f
    BY DEF Entry
  <1>3. Copied(ns, N, i) \in SUBSET EntrySet
    BY <1>1 DEF Copied
  <1>4. \A e \in Copied(ns, N, i) :
           \/ e = Entry(ns, 0, None)
           \/ \E n \in N : e = Entry(ns, n, i)
    BY DEF Copied
  <1>5. \A n \in N : Entry(ns, n, i) \in Copied(ns, N, i)
    BY DEF Copied
  <1>6. Copied(ns, N, i) # {}
    BY DEF Copied
  <1> QED BY <1>2, <1>3, <1>4, <1>5, <1>6

\* The directory of an import is that of a second.
LEMMA OwnDir ==
    ASSUME ImportInv, NEW i \in Imports, imp[i].dir # 0
    PROVE  imp[i].dir \in Seconds
  <1>1. imp[i].dir \in 0 .. MaxSecond
    BY DEF ImportInv, ImportSet
  <1> QED BY <1>1, ImportAssumption DEF Seconds

\* A request is checked.
LEMMA ImportConfigsPreserves ==
    ASSUME ImportInv, NEW i \in Imports, importConfigs(i) PROVE ImportInv'
  <1>1. PICK source \in {"image", "tar", "bad"}, site \in Sites, ns \in Types \cup {OtherType} :
          Step(i, [imp[i] EXCEPT !.source = source, !.site = site, !.ns = ns,
                                 !.pc = IF source = "bad" THEN "failed" ELSE "begin"])
    BY DEF importConfigs
  <1>2. PICK r : r = [imp[i] EXCEPT !.source = source, !.site = site, !.ns = ns,
                                    !.pc = IF source = "bad" THEN "failed" ELSE "begin"]
    OBVIOUS
  <1>3. imp[i] \in ImportSet /\ RequestOK(imp[i]) /\ imp[i].pc = "idle"
    BY DEF ImportInv, importConfigs
  <1>4. /\ r \in ImportSet /\ r.dir = imp[i].dir /\ r.second = imp[i].second
        /\ r.took = imp[i].took /\ r.pc \in {"failed", "begin"}
    BY <1>1, <1>2, <1>3 DEF ImportSet, ImportStates
  <1>5. imp' = [imp EXCEPT ![i] = r] /\ UNCHANGED <<clock, dirs>>
    BY <1>1, <1>2 DEF Step, importConfigs
  <1>6. RequestOK(r) /\ r.dir = 0
    BY <1>3, <1>4 DEF RequestOK
  <1>7. dirs' \in [Seconds -> SUBSET EntrySet]
    BY <1>5 DEF ImportInv
  <1> QED BY <1>4, <1>5, <1>6, <1>7, StepPreserves

\* An import from an image begins: a second of its own has an empty directory.
LEMMA ImportFromImagePreserves ==
    ASSUME ImportInv, NEW i \in Imports, importFromImage(i) PROVE ImportInv'
  <1>1. PICK r : r = [imp[i] EXCEPT !.second = clock, !.dir = DistDir(clock),
                              !.pc = IF imp[i].ns \in Types THEN "copy" ELSE "read"]
    OBVIOUS
  <1>2. /\ imp[i] \in ImportSet /\ RequestOK(imp[i]) /\ imp[i].pc = "begin"
        /\ imp[i].source = "image" /\ clock \in 1 .. MaxSecond
    BY DEF ImportInv, importFromImage, Seconds
  <1>3. /\ r.dir = clock /\ r.second = clock /\ r.source = "image" /\ r.took = imp[i].took
        /\ r.pc = (IF imp[i].ns \in Types THEN "copy" ELSE "read") /\ r.ns = imp[i].ns
    BY <1>1, <1>2 DEF ImportSet, DistDir
  <1>4. r \in ImportSet
    <2>1. clock \in 0 .. MaxSecond
      BY <1>2, ImportAssumption
    <2> QED BY <1>1, <1>2, <2>1 DEF ImportSet, ImportStates, DistDir
  <1>5. imp' = [imp EXCEPT ![i] = r] /\ UNCHANGED <<clock, dirs>>
    BY <1>1 DEF Step, importFromImage
  <1>6. imp[i].dir = 0 /\ imp[i].took = {} /\ clock # 0
    BY <1>2, ImportAssumption DEF RequestOK
  <1>7. RequestOK(r)
    BY <1>2, <1>3, <1>6 DEF RequestOK
  <1>8. ASSUME Sharing(i)' = {} PROVE Private(i, r, dirs'[r.dir])
    <2>1. \A j \in Imports \ {i} : imp[j].second # clock
      BY <1>3, <1>5, <1>8 DEF Sharing, ImportInv
    <2>2. \A j \in Imports : imp[j].dir # clock
      BY <1>6, <2>1 DEF ImportInv, RequestOK
    <2>3. dirs[clock] = {}
      BY <2>2 DEF ImportInv, InUse
    <2> QED BY <1>3, <1>5, <1>6, <2>3 DEF Private
  <1>9. dirs' \in [Seconds -> SUBSET EntrySet]
    BY <1>5 DEF ImportInv
  <1>10. \A s \in Seconds : s # imp[i].dir => dirs'[s] = dirs[s]
    BY <1>5
  <1>11. r.pc \notin {"ok", "failed"}
    BY <1>3
  <1> QED BY <1>4, <1>5, <1>6, <1>7, <1>8, <1>9, <1>10, <1>11, StepPreserves

\* The directory of the namespace is made.
LEMMA CopyFromContainerPreserves ==
    ASSUME ImportInv, NEW i \in Imports, CopyFromContainer(i) PROVE ImportInv'
  <1>1. PICK r : r = [imp[i] EXCEPT !.pc = "copying", !.todo = Names]
    OBVIOUS
  <1>2. /\ imp[i] \in ImportSet /\ RequestOK(imp[i]) /\ imp[i].pc = "copy" /\ Alone(i)
    BY DEF ImportInv, CopyFromContainer
  <1>3. /\ r.dir = imp[i].dir /\ r.second = imp[i].second /\ r.source = imp[i].source
        /\ r.took = imp[i].took /\ r.pc = "copying" /\ r.ns = imp[i].ns /\ r.todo = Names
    BY <1>1, <1>2 DEF ImportSet
  <1>4. r \in ImportSet
    BY <1>1, <1>2, ImportAssumption DEF ImportSet, ImportStates
  <1>5. /\ imp' = [imp EXCEPT ![i] = r] /\ UNCHANGED clock
        /\ dirs' = [dirs EXCEPT ![r.dir] = @ \cup {Entry(r.ns, 0, None)}]
    BY <1>1, <1>3 DEF Step, CopyFromContainer
  <1>6. r.dir # 0 /\ r.ns \in Types /\ RequestOK(r)
    BY <1>2, <1>3 DEF RequestOK
  <1>7. r.dir \in Seconds
    BY <1>3, <1>6, OwnDir
  <1>8. dirs' \in [Seconds -> SUBSET EntrySet]
    <2>1. Entry(r.ns, 0, None) \in EntrySet
      BY <1>6 DEF Entry, EntrySet
    <2> QED BY <1>5, <1>7, <2>1 DEF ImportInv
  <1>9. dirs'[r.dir] = dirs[r.dir] \cup {Entry(r.ns, 0, None)}
    BY <1>5, <1>7 DEF ImportInv
  <1>10. ASSUME Sharing(i)' = {} PROVE Private(i, r, dirs'[r.dir])
    <2>1. Sharing(i) = {}
      BY <1>3, <1>5, <1>10 DEF Sharing, ImportInv
    <2>2. dirs[r.dir] = {} /\ r.took = {}
      BY <1>2, <1>3, <1>6, <2>1 DEF Alone, Private
    <2>3. Copied(r.ns, Names \ r.todo, i) = {Entry(r.ns, 0, None)}
      BY <1>3 DEF Copied
    <2> QED BY <1>3, <1>9, <2>2, <2>3 DEF Private
  <1>11. \A s \in Seconds : s # imp[i].dir => dirs'[s] = dirs[s]
    BY <1>3, <1>5 DEF ImportInv
  <1> QED BY <1>3, <1>4, <1>5, <1>6, <1>8, <1>10, <1>11, StepPreserves

\* A file is copied, the least that is left.
LEMMA CopyFilePreserves ==
    ASSUME ImportInv, NEW i \in Imports, CopyFile(i) PROVE ImportInv'
  <1>0. PICK name : name = Min(imp[i].todo)
    OBVIOUS
  <1>1. PICK r : r = [imp[i] EXCEPT !.todo = @ \ {name},
                                    !.pc = IF imp[i].todo = {name} THEN "read" ELSE @]
    OBVIOUS
  <1>2. /\ imp[i] \in ImportSet /\ RequestOK(imp[i]) /\ imp[i].pc = "copying" /\ Alone(i)
        /\ imp[i].todo # {}
    BY DEF ImportInv, CopyFile
  <1>3. imp[i].todo \in SUBSET Nat /\ name \in imp[i].todo
    BY <1>0, <1>2, MinIn DEF ImportSet
  <1>4. /\ r.dir = imp[i].dir /\ r.second = imp[i].second /\ r.source = imp[i].source
        /\ r.took = imp[i].took /\ r.ns = imp[i].ns /\ r.todo = imp[i].todo \ {name}
        /\ r.pc = (IF imp[i].todo = {name} THEN "read" ELSE "copying")
    BY <1>1, <1>2 DEF ImportSet
  <1>5. r \in ImportSet
    <2>1. imp[i].todo \ {name} \in SUBSET Nat
      BY <1>3
    <2> QED BY <1>1, <1>2, <2>1 DEF ImportSet, ImportStates
  <1>6. PICK D : D = {e \in dirs[r.dir] : e.ns # r.ns \/ e.name # name} \cup {Entry(r.ns, name, i)}
    OBVIOUS
  <1>7. /\ imp' = [imp EXCEPT ![i] = r] /\ UNCHANGED clock
        /\ dirs' = [dirs EXCEPT ![r.dir] = D]
    BY <1>0, <1>1, <1>4, <1>6 DEF Step, CopyFile
  <1>8. r.dir # 0 /\ r.ns \in Types /\ RequestOK(r)
    BY <1>2, <1>4 DEF RequestOK
  <1>9. r.dir \in Seconds
    BY <1>4, <1>8, OwnDir
  <1>10. dirs' \in [Seconds -> SUBSET EntrySet] /\ dirs'[r.dir] = D
    <2>1. Entry(r.ns, name, i) \in EntrySet
      BY <1>3, <1>8 DEF Entry, EntrySet
    <2>2. D \in SUBSET EntrySet
      BY <1>6, <1>9, <2>1 DEF ImportInv
    <2> QED BY <1>7, <1>9, <2>2 DEF ImportInv
  <1>11. ASSUME Sharing(i)' = {} PROVE Private(i, r, dirs'[r.dir])
    <2>1. Sharing(i) = {}
      BY <1>4, <1>7, <1>11 DEF Sharing, ImportInv
    <2>2. /\ r.took = {} /\ imp[i].todo \subseteq Names
          /\ dirs[r.dir] = Copied(r.ns, Names \ imp[i].todo, i)
      BY <1>2, <1>4, <1>8, <2>1 DEF Alone, Private
    <2>3. name # 0 /\ name \in Names
      BY <1>3, <2>2, ImportAssumption
    <2>4. \A e \in dirs[r.dir] : e.name # name
      BY <1>3, <1>8, <2>2, <2>3, CopiedEntries
    <2>5. D = dirs[r.dir] \cup {Entry(r.ns, name, i)}
      BY <1>6, <2>4
    <2>6. D = Copied(r.ns, Names \ r.todo, i)
      <3>1. Names \ r.todo = (Names \ imp[i].todo) \cup {name}
        BY <1>3, <1>4, <2>3
      <3> QED BY <2>2, <2>5, <3>1 DEF Copied
    <2>7. r.pc = "read" => Names \ r.todo = Names
      BY <1>4
    <2> QED BY <1>4, <1>10, <2>2, <2>6, <2>7 DEF Private
  <1>12. \A s \in Seconds : s # imp[i].dir => dirs'[s] = dirs[s]
    BY <1>4, <1>7 DEF ImportInv
  <1>13. r.pc \notin {"ok", "failed"}
    BY <1>4
  <1> QED BY <1>4, <1>5, <1>7, <1>8, <1>10, <1>11, <1>12, <1>13, StepPreserves

\* The namespace is read from the directory, then the names of its files.
LEMMA ReadPreserves ==
    ASSUME ImportInv, NEW i \in Imports, createConfigFromDir(i) \/ ReadNames(i)
    PROVE  ImportInv'
  <1>1. CASE createConfigFromDir(i)
    <2>1. PICK ns \in Types : /\ {e.ns : e \in dirs[imp[i].dir]} = {ns}
                              /\ Step(i, [imp[i] EXCEPT !.pc = "walk", !.ns = ns])
      BY <1>1 DEF createConfigFromDir
    <2>2. PICK r : r = [imp[i] EXCEPT !.pc = "walk", !.ns = ns]
      OBVIOUS
    <2>3. imp[i] \in ImportSet /\ RequestOK(imp[i]) /\ imp[i].pc = "read" /\ Alone(i)
      BY <1>1 DEF ImportInv, createConfigFromDir
    <2>4. /\ r.dir = imp[i].dir /\ r.second = imp[i].second /\ r.source = imp[i].source
          /\ r.took = imp[i].took /\ r.ns = ns /\ r.pc = "walk" /\ r \in ImportSet
      BY <2>2, <2>3 DEF ImportSet, ImportStates
    <2>5. imp' = [imp EXCEPT ![i] = r] /\ UNCHANGED <<clock, dirs>>
      BY <1>1, <2>1, <2>2 DEF Step, createConfigFromDir
    <2>6. RequestOK(r) /\ r.dir # 0
      BY <2>3, <2>4 DEF RequestOK
    <2>7. ASSUME Sharing(i)' = {} PROVE Private(i, r, dirs'[r.dir])
      <3>1. Sharing(i) = {}
        BY <2>4, <2>5, <2>7 DEF Sharing, ImportInv
      <3>2. /\ r.took = {}
            /\ dirs[r.dir] = {} \/ dirs[r.dir] = Copied(imp[i].ns, Names, i)
        BY <2>3, <2>4, <2>6, <3>1 DEF Alone, Private
      <3>3. PICK e \in dirs[r.dir] : e.ns = ns
        BY <2>1, <2>4
      <3>4. dirs[r.dir] = Copied(imp[i].ns, Names, i) /\ imp[i].ns = ns
        <4>1. dirs[r.dir] = Copied(imp[i].ns, Names, i)
          BY <3>2, <3>3
        <4>2. Entry(imp[i].ns, 0, None) \in dirs[r.dir] /\ Entry(imp[i].ns, 0, None).ns = imp[i].ns
          BY <4>1 DEF Copied, Entry
        <4> QED BY <2>1, <2>4, <4>1, <4>2
      <3> QED BY <2>4, <2>5, <3>2, <3>4 DEF Private
    <2>8. dirs' \in [Seconds -> SUBSET EntrySet] /\ r.pc \notin {"ok", "failed"}
      BY <2>4, <2>5 DEF ImportInv
    <2> QED BY <2>4, <2>5, <2>6, <2>7, <2>8, StepPreserves
  <1>2. CASE ReadNames(i)
    <2>1. PICK names : names = {e.name : e \in {x \in dirs[imp[i].dir] : x.ns = imp[i].ns}} \ {0}
      OBVIOUS
    <2>2. PICK r : r = [imp[i] EXCEPT !.pc = "file", !.todo = names]
      OBVIOUS
    <2>3. imp[i] \in ImportSet /\ RequestOK(imp[i]) /\ imp[i].pc = "walk" /\ Alone(i)
      BY <1>2 DEF ImportInv, ReadNames
    <2>4. imp[i].dir # 0 /\ imp[i].dir \in Seconds
      BY <2>3, OwnDir DEF RequestOK
    <2>5. names \in SUBSET Nat
      <3>1. dirs[imp[i].dir] \subseteq EntrySet
        BY <2>4 DEF ImportInv
      <3> QED BY <2>1, <3>1 DEF EntrySet
    <2>6. /\ r.dir = imp[i].dir /\ r.second = imp[i].second /\ r.source = imp[i].source
          /\ r.took = imp[i].took /\ r.ns = imp[i].ns /\ r.pc = "file" /\ r.todo = names
      BY <2>2, <2>3 DEF ImportSet
    <2>7. r \in ImportSet
      BY <2>2, <2>3, <2>5 DEF ImportSet, ImportStates
    <2>8. imp' = [imp EXCEPT ![i] = r] /\ UNCHANGED <<clock, dirs>>
      BY <1>2, <2>1, <2>2 DEF Step, ReadNames
    <2>9. RequestOK(r)
      BY <2>3, <2>4, <2>6 DEF RequestOK
    <2>10. ASSUME Sharing(i)' = {} PROVE Private(i, r, dirs'[r.dir])
      <3>1. Sharing(i) = {}
        BY <2>6, <2>8, <2>10 DEF Sharing, ImportInv
      <3>2. r.took = {} /\ dirs[r.dir] = Copied(r.ns, Names, i)
        BY <2>3, <2>4, <2>6, <3>1 DEF Alone, Private
      <3>3. names = Names
        <4>1. \A e \in dirs[r.dir] : /\ e.ns = r.ns
                                     /\ e.name = 0 \/ e.name \in Names
          BY <3>2 DEF Copied, Entry
        <4>2. \A n \in Names : \E e \in dirs[r.dir] : e.name = n /\ e.ns = r.ns
          <5>1. ASSUME NEW n \in Names PROVE \E e \in dirs[r.dir] : e.name = n /\ e.ns = r.ns
            <6>1. Entry(r.ns, n, i) \in dirs[r.dir]
              BY <3>2 DEF Copied
            <6>2. Entry(r.ns, n, i).name = n /\ Entry(r.ns, n, i).ns = r.ns
              BY DEF Entry
            <6> QED BY <6>1, <6>2
          <5> QED BY <5>1
        <4>3. 0 \notin Names
          BY ImportAssumption
        <4> QED BY <2>1, <2>6, <4>1, <4>2, <4>3
      <3>4. (Names \ r.todo) \X {i} = {}
        BY <2>6, <3>3
      <3> QED BY <2>6, <2>8, <3>2, <3>3, <3>4 DEF Private
    <2>11. dirs' \in [Seconds -> SUBSET EntrySet] /\ r.pc \notin {"ok", "failed"}
      BY <2>6, <2>8 DEF ImportInv
    <2> QED BY <2>6, <2>7, <2>8, <2>9, <2>10, <2>11, StepPreserves
  <1> QED BY <1>1, <1>2

\* A file is imported from the directory or from a tar file.
LEMMA FilePreserves ==
    ASSUME ImportInv, NEW i \in Imports, NEW name, NEW from \in Imports \cup {None},
           createOrUpdateConfig(i, name, from), imp[i].pc = "file",
           imp[i].todo # {}, name = Min(imp[i].todo),
           imp[i].source = "image" => \E e \in dirs[imp[i].dir] : e.name = name /\ e.from = from
    PROVE  ImportInv'
  <1>1. PICK r : r = [imp[i] EXCEPT !.todo = @ \ {name}, !.took = @ \cup {<<name, from>>}]
    OBVIOUS
  <1>2. imp[i] \in ImportSet /\ RequestOK(imp[i]) /\ Alone(i)
    BY DEF ImportInv
  <1>3. imp[i].todo \in SUBSET Nat /\ name \in imp[i].todo
    BY <1>2, MinIn DEF ImportSet
  <1>4. /\ r.dir = imp[i].dir /\ r.second = imp[i].second /\ r.source = imp[i].source
        /\ r.took = imp[i].took \cup {<<name, from>>} /\ r.ns = imp[i].ns
        /\ r.todo = imp[i].todo \ {name} /\ r.pc = "file"
    BY <1>1, <1>2 DEF ImportSet
  <1>5. r \in ImportSet
    <2>1. imp[i].took \cup {<<name, from>>} \in SUBSET (Nat \X (Imports \cup {None}))
      <3>1. imp[i].took \in SUBSET (Nat \X (Imports \cup {None}))
        BY <1>2 DEF ImportSet
      <3>2. <<name, from>> \in Nat \X (Imports \cup {None})
        BY <1>3
      <3> QED BY <3>1, <3>2, Zenon
    <2>2. imp[i].todo \ {name} \in SUBSET Nat
      BY <1>3
    <2> QED BY <1>1, <1>2, <2>1, <2>2 DEF ImportSet
  <1>6. imp' = [imp EXCEPT ![i] = r] /\ UNCHANGED <<clock, dirs>>
    BY <1>1, <1>2 DEF createOrUpdateConfig, ImportInv
  <1>7. RequestOK(r)
    BY <1>2, <1>4 DEF RequestOK
  <1>8. ASSUME r.dir # 0, Sharing(i)' = {} PROVE Private(i, r, dirs'[r.dir])
    <2>1. Sharing(i) = {}
      BY <1>4, <1>6, <1>8 DEF Sharing, ImportInv
    <2>2. /\ imp[i].todo \subseteq Names /\ imp[i].took = (Names \ imp[i].todo) \X {i}
          /\ dirs[r.dir] = Copied(r.ns, Names, i)
      BY <1>2, <1>4, <1>8, <2>1 DEF Alone, Private
    <2>3. name \in Names /\ name # 0
      BY <1>3, <2>2, ImportAssumption
    <2>4. from = i
      <3>1. PICK e \in dirs[r.dir] : e.name = name /\ e.from = from
        BY <1>2, <1>4, <1>8 DEF RequestOK
      <3>2. e = Entry(r.ns, 0, None) \/ \E n \in Names : e = Entry(r.ns, n, i)
        BY <2>2, <3>1 DEF Copied
      <3> QED BY <2>3, <3>1, <3>2 DEF Entry
    <2>5. r.took = (Names \ r.todo) \X {i}
      BY <1>3, <1>4, <2>2, <2>3, <2>4
    <2> QED BY <1>4, <1>6, <2>2, <2>5 DEF Private
  <1>9. dirs' \in [Seconds -> SUBSET EntrySet]
    BY <1>6 DEF ImportInv
  <1> QED BY <1>4, <1>5, <1>6, <1>7, <1>8, <1>9, StepPreserves

\* An import from a tar file begins; it has no directory.
LEMMA ImportFromTarPreserves ==
    ASSUME ImportInv, NEW i \in Imports, importFromTar(i) PROVE ImportInv'
  <1>1. PICK r : r = [imp[i] EXCEPT !.pc = "file", !.todo = Names]
    OBVIOUS
  <1>2. imp[i] \in ImportSet /\ RequestOK(imp[i]) /\ imp[i].pc = "begin" /\ imp[i].source = "tar"
    BY DEF ImportInv, importFromTar
  <1>3. /\ r.dir = imp[i].dir /\ r.second = imp[i].second /\ r.source = "tar" /\ r.pc = "file"
        /\ r.took = imp[i].took
    BY <1>1, <1>2 DEF ImportSet
  <1>4. r \in ImportSet
    BY <1>1, <1>2, ImportAssumption DEF ImportSet, ImportStates
  <1>5. imp' = [imp EXCEPT ![i] = r] /\ UNCHANGED <<clock, dirs>>
    BY <1>1 DEF Step, importFromTar
  <1>6. RequestOK(r) /\ r.dir = 0
    BY <1>2, <1>3 DEF RequestOK
  <1>7. dirs' \in [Seconds -> SUBSET EntrySet]
    BY <1>5 DEF ImportInv
  <1> QED BY <1>3, <1>4, <1>5, <1>6, <1>7, StepPreserves

\* An import ends, and its directory is removed.
LEMMA ReturnPreserves ==
    ASSUME ImportInv, NEW i \in Imports, Succeed(i) \/ Fail(i) PROVE ImportInv'
  <1>0. PICK result \in {"ok", "failed"} :
          /\ Return(i, result)
          /\ result = "ok" => imp[i].pc = "file" /\ imp[i].todo = {}
          /\ imp[i].pc \notin {"idle", "ok", "failed"}
    BY DEF Succeed, Fail
  <1>1. PICK r : r = [imp[i] EXCEPT !.pc = result, !.todo = {}]
    OBVIOUS
  <1>2. imp[i] \in ImportSet /\ RequestOK(imp[i]) /\ Alone(i)
    BY DEF ImportInv
  <1>3. /\ r.dir = imp[i].dir /\ r.second = imp[i].second /\ r.source = imp[i].source
        /\ r.pc = result /\ r.took = imp[i].took
    BY <1>1, <1>2 DEF ImportSet
  <1>4. r \in ImportSet
    BY <1>0, <1>1, <1>2 DEF ImportSet, ImportStates
  <1>5. imp' = [imp EXCEPT ![i] = r] /\ UNCHANGED clock
    BY <1>0, <1>1 DEF Step, Return
  <1>6. RequestOK(r)
    BY <1>0, <1>2, <1>3 DEF RequestOK
  <1>7. /\ dirs' \in [Seconds -> SUBSET EntrySet]
        /\ \A s \in Seconds : s # imp[i].dir => dirs'[s] = dirs[s]
        /\ r.dir # 0 => dirs'[r.dir] = {}
    <2>1. CASE imp[i].dir # 0
      <3>1. dirs' = [dirs EXCEPT ![imp[i].dir] = {}]
        BY <1>0, <1>2, <2>1 DEF Return, RemoveAll, RequestOK
      <3>2. imp[i].dir \in Seconds
        BY <2>1, OwnDir
      <3> QED BY <1>3, <3>1, <3>2 DEF ImportInv
    <2>2. CASE imp[i].dir = 0
      <3>1. dirs' = dirs
        BY <1>0, <2>2 DEF Return
      <3> QED BY <1>3, <2>2, <3>1 DEF ImportInv
    <2> QED BY <2>1, <2>2
  <1>8. ASSUME r.dir # 0, Sharing(i)' = {} PROVE Private(i, r, dirs'[r.dir])
    <2>1. Sharing(i) = {}
      BY <1>3, <1>5, <1>8 DEF Sharing, ImportInv
    <2>2. result = "ok" => r.took = Names \X {i}
      BY <1>0, <1>2, <1>3, <1>8, <2>1 DEF Alone, Private
    <2> QED BY <1>0, <1>3, <2>2 DEF Private
  <1> QED BY <1>3, <1>4, <1>5, <1>6, <1>7, <1>8, StepPreserves

\* ImportInv is inductive, for any number of imports.
THEOREM ImportsInvariant == ImportSpec => []ImportInv
  <1>1. ImportInit => ImportInv
    <2> SUFFICES ASSUME ImportInit PROVE ImportInv
      OBVIOUS
    <2>1. NoImport \in ImportSet /\ RequestOK(NoImport) /\ NoImport.dir = 0
      <3>1. 0 \in 0 .. MaxSecond
        BY ImportAssumption
      <3> QED BY <3>1 DEF NoImport, ImportSet, ImportStates, RequestOK
    <2>2. imp \in [Imports -> ImportSet] /\ \A i \in Imports : imp[i] = NoImport
      BY <2>1 DEF ImportInit
    <2>3. clock \in Seconds
      BY ImportAssumption DEF ImportInit, Seconds
    <2>4. dirs \in [Seconds -> SUBSET EntrySet] /\ \A s \in Seconds : dirs[s] = {}
      BY DEF ImportInit
    <2> QED BY <2>1, <2>2, <2>3, <2>4 DEF ImportInv, Alone
  <1>2. ASSUME ImportInv, [ImportNext]_importVars PROVE ImportInv'
    <2>1. CASE UNCHANGED importVars
      BY <1>2, <2>1 DEF importVars, ImportInv, Alone, Sharing, InUse
    <2>2. CASE Tick
      <3>1. clock' \in Seconds
        BY <1>2, <2>2, ImportAssumption DEF Tick, ImportInv, Seconds
      <3> QED BY <1>2, <2>2, <3>1 DEF Tick, ImportInv, Alone, Sharing, InUse
    <2>3. ASSUME NEW i \in Imports, createConfigFromFile(i) PROVE ImportInv'
      <3>1. PICK e \in dirs[imp[i].dir] : /\ e.name = Min(imp[i].todo)
                                          /\ createOrUpdateConfig(i, e.name, e.from)
        BY <2>3 DEF createConfigFromFile
      <3>2. imp[i].dir # 0 /\ imp[i].dir \in Seconds
        BY <1>2, <2>3, OwnDir DEF createConfigFromFile, ImportInv, RequestOK
      <3>3. e.from \in Imports \cup {None}
        BY <1>2, <3>1, <3>2 DEF ImportInv, EntrySet
      <3> QED BY <1>2, <2>3, <3>1, <3>3, FilePreserves DEF createConfigFromFile
    <2>4. ASSUME NEW i \in Imports, TarFile(i) PROVE ImportInv'
      BY <1>2, <2>4, FilePreserves DEF TarFile
    <2> QED BY <1>2, <2>1, <2>2, <2>3, <2>4, ImportConfigsPreserves,
               ImportFromImagePreserves, CopyFromContainerPreserves, CopyFilePreserves,
               ReadPreserves, ImportFromTarPreserves, ReturnPreserves DEF ImportNext
  <1> QED BY <1>1, <1>2, PTL DEF ImportSpec

\* An import that shares its second with no other takes all files of its image
\* and none of another's, and a directory is gone when its imports are.
THEOREM ImportsApartHolds == ImportSpec => []ImportsApart
  <1>1. ImportInv => ImportsApart
    BY DEF ImportInv, RequestOK, Alone, Private, InUse, ImportsApart
  <1> QED BY <1>1, ImportsInvariant, PTL

-----------------------------------------------------------------------------
(* Templates.                                                              *)

Contents == TemplateData \cup {Null}

TxSet == [pc : {"idle", "store", "insert", "update"}, ns : Namespaces \cup {Null},
          old : 0 .. MaxVersion, data : Contents, ins : BOOLEAN]

Repls == ReplaceData \cup {<< >>}

ConfigSet == [tv : VersionIDs \cup {Null}, repl : Repls,
              data : {mergeTemplateAndReplace(t, r) : t \in Contents, r \in Repls}]

TemplateType ==
    /\ latestVersion \in [Namespaces -> 0 .. MaxVersion]
    /\ tversion \in [VersionIDs -> Contents]
    /\ tfile \in [VersionIDs -> Contents]
    /\ tx \in [Writers -> TxSet]
    /\ raced \in BOOLEAN

ConfigType ==
    /\ env \in Namespaces \cup {Null}
    /\ info \in Infos \cup {Null}
    /\ form \in Forms \cup {Null}
    /\ config \in Seq(ConfigSet)
    /\ release \in [rel : 0 .. Len(config), pre : 0 .. Len(config)]
    /\ strayed \in BOOLEAN

\* A committed version has its file and the version before, and the version a
\* template row names is committed.
VersionsOK ==
    /\ \A n \in Namespaces :
          latestVersion[n] > 0 => tversion[<<n, latestVersion[n]>>] # Null
    /\ \A n \in Namespaces, k \in 1 .. MaxVersion : tversion[<<n, k>>] # Null =>
          /\ tfile[<<n, k>>] # Null
          /\ k > 1 => tversion[<<n, k - 1>>] # Null

\* An open transaction continues a committed version, has stored its file
\* before it inserts, and is the only one that inserts its key.
TxOK(w) ==
    LET t == tx[w] IN
    /\ t.pc = "idle" => t = Idle
    /\ t.pc # "idle" => /\ t.ns \in Namespaces /\ t.data \in TemplateData
                        /\ t.old + 1 \in 1 .. MaxVersion
                        /\ t.old > 0 => tversion[<<t.ns, t.old>>] # Null
    /\ t.pc \in {"insert", "update"} => tfile[<<t.ns, t.old + 1>>] # Null
    /\ t.pc = "update" /\ ~t.ins => t.old > 0
    /\ t.ins => /\ t.pc = "update"
                /\ tversion[<<t.ns, t.old + 1>>] = Null
                /\ \A o \in Writers \ {w} : tx[o].ins => tx[o].ns # t.ns \/ tx[o].old # t.old

\* Requests that did not overlap: a writer has its namespace for itself, and
\* nothing is committed beyond the latest version.
SerialOK ==
    /\ \A n \in Namespaces, k \in 1 .. MaxVersion : tversion[<<n, k>>] # Null =>
          k =< latestVersion[n] /\ tfile[<<n, k>>] = tversion[<<n, k>>]
    /\ \A w \in Writers : tx[w].pc # "idle" =>
          /\ tx[w].old = latestVersion[tx[w].ns]
          /\ \A o \in Writers \ {w} : tx[o].ns # tx[w].ns
          /\ tx[w].pc \in {"insert", "update"} =>
                tfile[<<tx[w].ns, tx[w].old + 1>>] = tx[w].data

\* What page and config hold of a template version is its committed content.
ConfigTrue ==
    /\ form # Null /\ form.tv # Null =>
          tversion[form.tv] # Null /\ form.data = tversion[form.tv]
    /\ info # Null /\ info.tv # Null =>
          /\ tversion[info.tv] # Null
          /\ Last.tv = info.tv
          /\ Last.data = mergeTemplateAndReplace(tversion[info.tv], Last.repl)

TemplateInv ==
    /\ TemplateType
    /\ VersionsOK
    /\ \A w \in Writers : TxOK(w)
    /\ ~raced => SerialOK

ConfigInv ==
    /\ ConfigType
    /\ info = Null => ~strayed /\ config = << >> /\ release.rel = 0 /\ release.pre = 0
    /\ info # Null => Len(config) > 0
    /\ ~raced /\ ~strayed => ConfigTrue

\* A key of a version.
LEMMA VersionKey == \A n \in Namespaces, k \in 1 .. MaxVersion : <<n, k>> \in VersionIDs
  BY DEF VersionIDs

\* A request begins, with the latest version of its namespace.
LEMMA BeginPreserves ==
    ASSUME TemplateInv, NEW w \in Writers, NEW n \in Namespaces, NEW d \in TemplateData,
           NEW k \in 0 .. MaxVersion - 1, k = latestVersion[n], NEW t \in TxSet,
           t.pc = "store", t.ns = n, t.data = d, t.old = k, ~t.ins, Begin(w, t),
           UNCHANGED <<latestVersion, tversion, tfile>>
    PROVE  TemplateInv' /\ (~raced' => ~raced)
  <1>5. tx' = [tx EXCEPT ![w] = t] /\ raced' = (raced \/ Overlaps(w, n))
    BY DEF Begin
  <1>6. /\ tx' \in [Writers -> TxSet] /\ tx'[w] = t
        /\ \A o \in Writers : o # w => tx'[o] = tx[o]
    BY <1>5 DEF TemplateInv, TemplateType
  <1>7. TemplateType'
    BY <1>5, <1>6 DEF TemplateInv, TemplateType, Overlaps
  <1>8. VersionsOK'
    BY <1>5 DEF TemplateInv, VersionsOK
  <1>9. ASSUME NEW o \in Writers PROVE TxOK(o)'
    <2>1. CASE o = w
      <3>1. t.old + 1 \in 1 .. MaxVersion /\ (k > 0 => tversion[<<n, k>>] # Null)
        BY TemplatesAssumption DEF TemplateInv, VersionsOK
      <3> QED BY <1>5, <1>6, <2>1, <3>1 DEF TxOK
    <2>2. CASE o # w
      BY <1>5, <1>6, <2>2 DEF TemplateInv, TxOK
    <2> QED BY <2>1, <2>2
  <1>10. ASSUME ~raced' PROVE SerialOK'
    <2>1. ~raced /\ SerialOK /\ \A o \in Writers \ {w} : tx[o].ns # n
      BY <1>5, <1>10 DEF TemplateInv, Overlaps
    <2>2. ASSUME NEW o \in Writers, tx'[o].pc # "idle"
          PROVE  /\ tx'[o].old = latestVersion'[tx'[o].ns]
                 /\ \A x \in Writers \ {o} : tx'[x].ns # tx'[o].ns
                 /\ tx'[o].pc \in {"insert", "update"} =>
                      tfile'[<<tx'[o].ns, tx'[o].old + 1>>] = tx'[o].data
      <3>1. CASE o = w
        BY <1>5, <1>6, <2>1, <3>1
      <3>2. CASE o # w
        BY <1>5, <1>6, <2>1, <2>2, <3>2 DEF SerialOK
      <3> QED BY <3>1, <3>2
    <2> QED BY <1>5, <2>1, <2>2 DEF SerialOK
  <1>11. ~raced' => ~raced
    BY <1>5
  <1> QED BY <1>5, <1>7, <1>8, <1>9, <1>10, <1>11 DEF TemplateInv

\* AddTemplate and UpdateTemplate begin.
LEMMA TemplateStarts ==
    ASSUME TemplateInv, NEW w \in Writers, AddTemplate(w) \/ UpdateTemplate(w)
    PROVE  TemplateInv' /\ (~raced' => ~raced) /\ UNCHANGED tversion
  <1>0. UNCHANGED <<latestVersion, tversion, tfile>>
    BY DEF AddTemplate, UpdateTemplate
  <1>1. CASE AddTemplate(w)
    <2>1. PICK n \in Namespaces, d \in TemplateData :
            /\ latestVersion[n] = 0
            /\ Begin(w, [Idle EXCEPT !.pc = "store", !.ns = n, !.data = d])
      BY <1>1 DEF AddTemplate
    <2>2. PICK t : t = [Idle EXCEPT !.pc = "store", !.ns = n, !.data = d]
      OBVIOUS
    <2>3. 0 \in 0 .. MaxVersion - 1 /\ 0 \in 0 .. MaxVersion
      BY TemplatesAssumption
    <2>4. t \in TxSet /\ t.pc = "store" /\ t.ns = n /\ t.data = d /\ t.old = 0 /\ ~t.ins
      BY <2>2, <2>3 DEF Idle, TxSet, Contents
    <2> QED BY <1>0, <2>1, <2>2, <2>3, <2>4, BeginPreserves
  <1>2. CASE UpdateTemplate(w)
    <2>1. PICK n \in Namespaces, d \in TemplateData :
            /\ latestVersion[n] \in 1 .. MaxVersion - 1
            /\ Begin(w, [Idle EXCEPT !.pc = "store", !.ns = n, !.data = d,
                                     !.old = latestVersion[n]])
      BY <1>2 DEF UpdateTemplate
    <2>2. PICK t : t = [Idle EXCEPT !.pc = "store", !.ns = n, !.data = d,
                                    !.old = latestVersion[n]]
      OBVIOUS
    <2>3. latestVersion[n] \in 0 .. MaxVersion - 1 /\ latestVersion[n] \in 0 .. MaxVersion
      BY <2>1, TemplatesAssumption
    <2>4. /\ t \in TxSet /\ t.pc = "store" /\ t.ns = n /\ t.data = d
          /\ t.old = latestVersion[n] /\ ~t.ins
      BY <2>2, <2>3 DEF Idle, TxSet, Contents
    <2> QED BY <1>0, <2>1, <2>2, <2>3, <2>4, BeginPreserves
  <1> QED BY <1>1, <1>2

\* The file is stored under a version that is not committed, or whose content
\* it replaces in a request that overlaps another.
LEMMA StoreTemplatePreserves ==
    ASSUME TemplateInv, NEW w \in Writers, storeTemplateData(w)
    PROVE  TemplateInv' /\ (~raced' => ~raced) /\ UNCHANGED tversion
  <1>1. PICK t : t = tx[w]
    OBVIOUS
  <1>2. PICK l : l = IF isTemplateNeedNewVersion(t) THEN "insert" ELSE "update"
    OBVIOUS
  <1>3. PICK u : u = [t EXCEPT !.pc = l]
    OBVIOUS
  <1>4. /\ t \in TxSet /\ TxOK(w) /\ t.pc = "store"
        /\ t.ns \in Namespaces /\ t.data \in TemplateData /\ t.old + 1 \in 1 .. MaxVersion
        /\ t.old > 0 => tversion[<<t.ns, t.old>>] # Null
        /\ ~t.ins
    BY <1>1 DEF TemplateInv, TemplateType, TxOK, storeTemplateData, TxSet
  <1>5. /\ u \in TxSet /\ u.pc = l /\ l \in {"insert", "update"} /\ u.ns = t.ns
        /\ u.old = t.old /\ u.data = t.data /\ u.ins = t.ins
    BY <1>2, <1>3, <1>4 DEF TxSet
  <1>6. PICK key : key = <<t.ns, t.old + 1>>
    OBVIOUS
  <1>7. /\ tx' = [tx EXCEPT ![w] = u] /\ tfile' = [tfile EXCEPT ![key] = t.data]
        /\ UNCHANGED <<latestVersion, tversion, raced>>
    BY <1>1, <1>2, <1>3, <1>6 DEF storeTemplateData, NewVersion
  <1>8. /\ tx' \in [Writers -> TxSet] /\ tx'[w] = u
        /\ \A o \in Writers : o # w => tx'[o] = tx[o]
    BY <1>5, <1>7 DEF TemplateInv, TemplateType
  <1>9. key \in VersionIDs
    BY <1>4, <1>6, VersionKey
  <1>10. /\ tfile' \in [VersionIDs -> Contents] /\ tfile'[key] = t.data /\ t.data # Null
         /\ \A v \in VersionIDs : v # key => tfile'[v] = tfile[v]
    BY <1>4, <1>7, <1>9, TemplatesAssumption DEF TemplateInv, TemplateType, Contents
  <1>11. TemplateType'
    BY <1>7, <1>8, <1>10 DEF TemplateInv, TemplateType
  <1>12. \A v \in VersionIDs : tfile[v] # Null => tfile'[v] # Null
    BY <1>10
  <1>13. VersionsOK'
    BY <1>7, <1>12, VersionKey DEF TemplateInv, VersionsOK
  <1>14. ASSUME NEW o \in Writers PROVE TxOK(o)'
    <2>1. CASE o = w
      <3>1. l = "update" => t.old > 0
        <4>1. l = "update" => t.old # 0
          BY <1>2 DEF isTemplateNeedNewVersion
        <4>2. t.old \in Nat
          BY <1>4, TemplatesAssumption DEF TxSet
        <4> QED BY <4>1, <4>2
      <3>2. tfile'[<<u.ns, u.old + 1>>] # Null
        BY <1>5, <1>6, <1>10
      <3> QED BY <1>4, <1>5, <1>7, <1>8, <2>1, <3>1, <3>2 DEF TxOK
    <2>2. CASE o # w
      <3>1. tx[o].pc # "idle" => <<tx[o].ns, tx[o].old + 1>> \in VersionIDs
        BY VersionKey DEF TemplateInv, TxOK
      <3>2. TxOK(o)
        BY DEF TemplateInv
      <3>3. tx'[o].pc \in {"insert", "update"} => tfile'[<<tx'[o].ns, tx'[o].old + 1>>] # Null
        BY <1>8, <1>12, <2>2, <3>1, <3>2 DEF TxOK
      <3>4. \A x \in Writers : tx'[x].ins = tx[x].ins /\ tx'[x].ns = tx[x].ns /\ tx'[x].old = tx[x].old
        BY <1>1, <1>5, <1>8
      <3> QED BY <1>7, <1>8, <2>2, <3>2, <3>3, <3>4 DEF TxOK
    <2> QED BY <2>1, <2>2
  <1>15. ASSUME ~raced' PROVE SerialOK'
    <2>1. SerialOK /\ t.old = latestVersion[t.ns] /\ \A o \in Writers \ {w} : tx[o].ns # t.ns
      BY <1>1, <1>4, <1>7, <1>15 DEF TemplateInv, SerialOK
    <2>2. tversion[key] = Null
      <3>1. t.old + 1 =< t.old => FALSE
        BY <1>4, TemplatesAssumption DEF TxSet
      <3> QED BY <1>4, <1>6, <2>1, <3>1 DEF SerialOK
    <2>3. \A n \in Namespaces, j \in 1 .. MaxVersion : tversion'[<<n, j>>] # Null =>
             j =< latestVersion'[n] /\ tfile'[<<n, j>>] = tversion'[<<n, j>>]
      BY <1>7, <1>10, <2>1, <2>2, VersionKey DEF SerialOK
    <2>4. ASSUME NEW o \in Writers, tx'[o].pc # "idle"
          PROVE  /\ tx'[o].old = latestVersion'[tx'[o].ns]
                 /\ \A x \in Writers \ {o} : tx'[x].ns # tx'[o].ns
                 /\ tx'[o].pc \in {"insert", "update"} =>
                      tfile'[<<tx'[o].ns, tx'[o].old + 1>>] = tx'[o].data
      <3>1. CASE o = w
        BY <1>5, <1>6, <1>7, <1>8, <1>10, <2>1, <3>1
      <3>2. CASE o # w
        <4>1. <<tx[o].ns, tx[o].old + 1>> \in VersionIDs /\ tx[o].ns # t.ns
          BY <1>8, <2>1, <2>4, <3>2, VersionKey DEF TemplateInv, TxOK
        <4>2. tfile'[<<tx[o].ns, tx[o].old + 1>>] = tfile[<<tx[o].ns, tx[o].old + 1>>]
          BY <1>6, <1>10, <4>1
        <4> QED BY <1>1, <1>5, <1>7, <1>8, <2>1, <2>4, <3>2, <4>2 DEF SerialOK
      <3> QED BY <3>1, <3>2
    <2> QED BY <2>3, <2>4 DEF SerialOK
  <1> QED BY <1>7, <1>11, <1>13, <1>14, <1>15 DEF TemplateInv

\* The version row is inserted; it shows when the transaction commits.
LEMMA CreateVersionPreserves ==
    ASSUME TemplateInv, NEW w \in Writers, CreateTemplateVersion(w)
    PROVE  TemplateInv' /\ (~raced' => ~raced) /\ UNCHANGED tversion
  <1>1. PICK t : t = tx[w]
    OBVIOUS
  <1>2. PICK u : u = [t EXCEPT !.pc = "update", !.ins = TRUE]
    OBVIOUS
  <1>3. /\ t \in TxSet /\ TxOK(w) /\ t.pc = "insert"
        /\ tversion[<<t.ns, t.old + 1>>] = Null
        /\ \A o \in Writers : tx[o].ins => tx[o].ns # t.ns \/ tx[o].old # t.old
    BY <1>1 DEF TemplateInv, TemplateType, CreateTemplateVersion
  <1>4. /\ u \in TxSet /\ u.pc = "update" /\ u.ins /\ u.ns = t.ns
        /\ u.old = t.old /\ u.data = t.data
    BY <1>2, <1>3 DEF TxSet
  <1>5. tx' = [tx EXCEPT ![w] = u] /\ UNCHANGED <<latestVersion, tversion, tfile, raced>>
    <2>1. tx' = [tx EXCEPT ![w].pc = "update", ![w].ins = TRUE]
      BY DEF CreateTemplateVersion
    <2>2. tx' = [tx EXCEPT ![w] = u]
      BY <1>1, <1>2, <1>3, <2>1 DEF TemplateInv, TemplateType, TxSet
    <2> QED BY <2>2 DEF CreateTemplateVersion
  <1>6. /\ tx' \in [Writers -> TxSet] /\ tx'[w] = u
        /\ \A o \in Writers : o # w => tx'[o] = tx[o]
    BY <1>4, <1>5 DEF TemplateInv, TemplateType
  <1>7. TemplateType' /\ VersionsOK'
    BY <1>5, <1>6 DEF TemplateInv, TemplateType, VersionsOK
  <1>8. ASSUME NEW o \in Writers PROVE TxOK(o)'
    <2>1. CASE o = w
      BY <1>1, <1>3, <1>4, <1>5, <1>6, <2>1 DEF TxOK
    <2>2. CASE o # w
      BY <1>3, <1>4, <1>5, <1>6, <2>2 DEF TemplateInv, TxOK
    <2> QED BY <2>1, <2>2
  <1>9. ASSUME ~raced' PROVE SerialOK'
    <2>1. SerialOK
      BY <1>5, <1>9 DEF TemplateInv
    <2>2. \A o \in Writers : /\ tx'[o].ns = tx[o].ns /\ tx'[o].old = tx[o].old
                             /\ tx'[o].data = tx[o].data
                             /\ tx'[o].pc # "idle" => tx[o].pc # "idle"
                             /\ tx'[o].pc \in {"insert", "update"} =>
                                   tx[o].pc \in {"insert", "update"}
      BY <1>1, <1>3, <1>4, <1>6
    <2> QED BY <1>5, <2>1, <2>2 DEF SerialOK
  <1> QED BY <1>5, <1>7, <1>8, <1>9 DEF TemplateInv

\* A transaction commits or is rolled back: a row that is committed stays as
\* it is.
LEMMA EndPreserves ==
    ASSUME TemplateInv, NEW w \in Writers, CommitTemplate(w) \/ Abort(w)
    PROVE  /\ TemplateInv' /\ (~raced' => ~raced)
           /\ \A v \in VersionIDs : tversion[v] # Null => tversion'[v] = tversion[v]
  <1>1. PICK t : t = tx[w]
    OBVIOUS
  <1>2. /\ tx' = [tx EXCEPT ![w] = Idle] /\ UNCHANGED <<tfile, raced>> /\ t.pc # "idle"
        /\ t \in TxSet /\ TxOK(w)
    BY <1>1 DEF TemplateInv, TemplateType, CommitTemplate, Abort
  <1>3. /\ t.ns \in Namespaces /\ t.data \in TemplateData /\ t.data # Null
        /\ t.old + 1 \in 1 .. MaxVersion /\ t.old \in 0 .. MaxVersion
        /\ t.old > 0 => tversion[<<t.ns, t.old>>] # Null
    BY <1>1, <1>2, TemplatesAssumption DEF TxOK, TxSet
  <1>4. Idle \in TxSet
    <2>1. 0 \in 0 .. MaxVersion
      BY TemplatesAssumption
    <2> QED BY <2>1 DEF Idle, TxSet, Contents
  <1>5. /\ tx' \in [Writers -> TxSet] /\ tx'[w] = Idle
        /\ \A o \in Writers : o # w => tx'[o] = tx[o]
    BY <1>2, <1>4 DEF TemplateInv, TemplateType
  <1>6. /\ Idle.pc = "idle" /\ ~Idle.ins /\ Idle.ns = Null /\ Null \notin Namespaces
    BY TemplatesAssumption DEF Idle
  <1>7. CASE UNCHANGED <<latestVersion, tversion>>
    <2>1. TemplateType' /\ VersionsOK'
      BY <1>2, <1>5, <1>7 DEF TemplateInv, TemplateType, VersionsOK
    <2>2. ASSUME NEW o \in Writers PROVE TxOK(o)'
      BY <1>2, <1>5, <1>6, <1>7 DEF TemplateInv, TxOK
    <2>3. ASSUME ~raced' PROVE SerialOK'
      <3>1. SerialOK /\ \A o \in Writers : tx[o].pc # "idle" => tx[o].ns \in Namespaces
        BY <1>2, <2>3 DEF TemplateInv, TxOK
      <3> QED BY <1>2, <1>5, <1>6, <1>7, <3>1 DEF SerialOK
    <2> QED BY <1>2, <1>7, <2>1, <2>2, <2>3 DEF TemplateInv
  <1>8. CASE CommitTemplate(w)
    <2> DEFINE key == <<t.ns, t.old + 1>>
    <2>1. /\ t.pc = "update"
          /\ latestVersion' = [latestVersion EXCEPT ![t.ns] = LatestVersionID(t)]
          /\ tversion' = IF t.ins THEN [tversion EXCEPT ![key] = t.data] ELSE tversion
      BY <1>1, <1>8 DEF CommitTemplate
    <2>2. /\ LatestVersionID(t) = IF t.ins THEN t.old + 1 ELSE t.old
          /\ LatestVersionID(t) \in 0 .. MaxVersion
      BY <1>3, TemplatesAssumption DEF LatestVersionID
    <2>3. key \in VersionIDs /\ tfile[key] # Null /\ (~t.ins => t.old > 0)
      BY <1>1, <1>2, <1>3, <2>1, VersionKey DEF TxOK
    <2>4. t.ins => tversion[key] = Null
      BY <1>1, <1>2 DEF TxOK
    <2>5. /\ latestVersion' \in [Namespaces -> 0 .. MaxVersion]
          /\ latestVersion'[t.ns] = LatestVersionID(t)
          /\ \A n \in Namespaces : n # t.ns => latestVersion'[n] = latestVersion[n]
      BY <1>3, <2>1, <2>2 DEF TemplateInv, TemplateType
    <2>6. /\ tversion' \in [VersionIDs -> Contents]
          /\ t.ins => tversion'[key] = t.data
          /\ \A v \in VersionIDs : v # key => tversion'[v] = tversion[v]
          /\ ~t.ins => tversion' = tversion
          /\ \A v \in VersionIDs : tversion[v] # Null => tversion'[v] = tversion[v]
      BY <1>3, <2>1, <2>3, <2>4 DEF TemplateInv, TemplateType, Contents
    <2> HIDE DEF key
    <2>7. TemplateType'
      BY <1>2, <1>5, <2>5, <2>6 DEF TemplateInv, TemplateType
    <2>8. VersionsOK'
      <3>1. ASSUME NEW n \in Namespaces, latestVersion'[n] > 0
            PROVE  tversion'[<<n, latestVersion'[n]>>] # Null
        <4>1. CASE n = t.ns
          <5>1. CASE t.ins
            BY <1>3, <2>2, <2>5, <2>6, <4>1, <5>1 DEF key
          <5>2. CASE ~t.ins
            BY <1>3, <2>2, <2>3, <2>5, <2>6, <4>1, <5>2
          <5> QED BY <5>1, <5>2
        <4>2. CASE n # t.ns
          <5>1. latestVersion[n] > 0 /\ latestVersion[n] \in 0 .. MaxVersion
            BY <2>5, <3>1, <4>2 DEF TemplateInv, TemplateType
          <5>2. tversion[<<n, latestVersion[n]>>] # Null /\ <<n, latestVersion[n]>> \in VersionIDs
            BY <5>1, VersionKey, TemplatesAssumption DEF TemplateInv, VersionsOK
          <5> QED BY <2>5, <2>6, <4>2, <5>2
        <4> QED BY <4>1, <4>2
      <3>2. ASSUME NEW n \in Namespaces, NEW k \in 1 .. MaxVersion, tversion'[<<n, k>>] # Null
            PROVE  tfile'[<<n, k>>] # Null /\ (k > 1 => tversion'[<<n, k - 1>>] # Null)
        <4>1. <<n, k>> \in VersionIDs /\ (k > 1 => <<n, k - 1>> \in VersionIDs)
          BY VersionKey, TemplatesAssumption
        <4>2. CASE tversion[<<n, k>>] # Null
          <5>1. tfile[<<n, k>>] # Null /\ (k > 1 => tversion[<<n, k - 1>>] # Null)
            BY <4>2 DEF TemplateInv, VersionsOK
          <5> QED BY <1>2, <2>6, <4>1, <5>1
        <4>3. CASE tversion[<<n, k>>] = Null
          <5>1. t.ins /\ <<n, k>> = key
            BY <2>6, <3>2, <4>1, <4>3
          <5>2. n = t.ns /\ k = t.old + 1
            BY <5>1 DEF key
          <5>3. k > 1 => t.old > 0 /\ k - 1 = t.old
            BY <1>3, <5>2, TemplatesAssumption
          <5>4. k > 1 => tversion[<<n, k - 1>>] # Null
            BY <1>3, <5>2, <5>3
          <5> QED BY <1>2, <2>3, <2>6, <4>1, <5>1, <5>4
        <4> QED BY <4>2, <4>3
      <3> QED BY <3>1, <3>2 DEF VersionsOK
    <2>9. ASSUME NEW o \in Writers PROVE TxOK(o)'
      <3>1. CASE o = w
        BY <1>5, <1>6, <3>1 DEF TxOK
      <3>2. CASE o # w
        <4>1. TxOK(o) /\ tx'[o] = tx[o]
          BY <1>5, <3>2 DEF TemplateInv
        <4>2. tx[o].pc # "idle" /\ tx[o].old > 0 => tversion'[<<tx[o].ns, tx[o].old>>] # Null
          <5>1. tx[o].pc # "idle" /\ tx[o].old > 0 => <<tx[o].ns, tx[o].old>> \in VersionIDs
            <6>1. tx[o].old \in 0 .. MaxVersion
              BY DEF TemplateInv, TemplateType, TxSet
            <6> QED BY <4>1, <6>1, VersionKey, TemplatesAssumption DEF TxOK
          <5> QED BY <2>6, <4>1, <5>1 DEF TxOK
        <4>3. tx[o].ins => tversion'[<<tx[o].ns, tx[o].old + 1>>] = Null
          <5>1. ASSUME tx[o].ins PROVE tversion'[<<tx[o].ns, tx[o].old + 1>>] = Null
            <6>1. /\ tversion[<<tx[o].ns, tx[o].old + 1>>] = Null
                  /\ <<tx[o].ns, tx[o].old + 1>> \in VersionIDs
              BY <4>1, <5>1, VersionKey DEF TxOK
            <6>2. t.ins => tx[o].ns # t.ns \/ tx[o].old # t.old
              BY <1>1, <3>2, <4>1, <5>1 DEF TxOK
            <6>3. tx[o].old \in Nat /\ t.old \in Nat
              BY <1>3, TemplatesAssumption DEF TemplateInv, TemplateType, TxSet
            <6>4. t.ins => <<tx[o].ns, tx[o].old + 1>> # key
              BY <6>2, <6>3 DEF key
            <6> QED BY <2>6, <6>1, <6>4
          <5> QED BY <5>1
        <4>4. \A x \in Writers : tx'[x].ins => tx'[x] = tx[x]
          BY <1>5, <1>6
        <4> QED BY <1>2, <4>1, <4>2, <4>3, <4>4 DEF TxOK
      <3> QED BY <3>1, <3>2
    <2>10. ASSUME ~raced' PROVE SerialOK'
      <3>1. /\ SerialOK /\ t.old = latestVersion[t.ns] /\ tfile[key] = t.data
            /\ \A o \in Writers \ {w} : tx[o].ns # t.ns
        BY <1>1, <1>2, <2>1, <2>10 DEF TemplateInv, SerialOK, key
      <3>2. ASSUME NEW n \in Namespaces, NEW k \in 1 .. MaxVersion, tversion'[<<n, k>>] # Null
            PROVE  k =< latestVersion'[n] /\ tfile'[<<n, k>>] = tversion'[<<n, k>>]
        <4>1. <<n, k>> \in VersionIDs /\ latestVersion[n] \in 0 .. MaxVersion
          BY VersionKey DEF TemplateInv, TemplateType
        <4>2. latestVersion'[n] >= latestVersion[n]
          BY <1>3, <2>2, <2>5, <3>1, <4>1, TemplatesAssumption
        <4>3. CASE tversion[<<n, k>>] # Null
          <5>1. k =< latestVersion[n] /\ tfile[<<n, k>>] = tversion[<<n, k>>]
            BY <3>1, <4>3 DEF SerialOK
          <5>2. latestVersion'[n] \in Nat
            BY <2>5, TemplatesAssumption
          <5>3. k =< latestVersion'[n]
            BY <4>1, <4>2, <5>1, <5>2, TemplatesAssumption
          <5> QED BY <1>2, <2>6, <4>1, <4>3, <5>1, <5>3
        <4>4. CASE tversion[<<n, k>>] = Null
          <5>1. t.ins /\ <<n, k>> = key
            BY <2>6, <3>2, <4>1, <4>4
          <5>2. n = t.ns /\ k = t.old + 1
            BY <5>1 DEF key
          <5> QED BY <1>2, <2>2, <2>5, <2>6, <3>1, <5>1, <5>2
        <4> QED BY <4>3, <4>4
      <3>3. ASSUME NEW o \in Writers, tx'[o].pc # "idle"
            PROVE  /\ tx'[o].old = latestVersion'[tx'[o].ns]
                   /\ \A x \in Writers \ {o} : tx'[x].ns # tx'[o].ns
                   /\ tx'[o].pc \in {"insert", "update"} =>
                        tfile'[<<tx'[o].ns, tx'[o].old + 1>>] = tx'[o].data
        <4>1. o # w /\ tx'[o] = tx[o] /\ tx[o].ns \in Namespaces /\ tx[o].ns # t.ns
          BY <1>5, <1>6, <3>1, <3>3 DEF TemplateInv, TxOK
        <4>2. \A x \in Writers \ {o} : tx'[x].ns # tx'[o].ns
          <5>1. \A x \in Writers \ {o} : tx[x].ns # tx[o].ns
            BY <3>1, <3>3, <4>1 DEF SerialOK
          <5>2. \A x \in Writers : tx'[x].ns = tx[x].ns \/ tx'[x].ns = Null
            BY <1>5, <1>6
          <5> QED BY <1>6, <4>1, <5>1, <5>2
        <4> QED BY <1>2, <2>5, <3>1, <3>3, <4>1, <4>2 DEF SerialOK
      <3> QED BY <3>2, <3>3 DEF SerialOK
    <2> QED BY <1>2, <2>6, <2>7, <2>8, <2>9, <2>10 DEF TemplateInv
  <1> QED BY <1>7, <1>8 DEF Abort

\* What a template request changes leaves page and config true.
LEMMA WriterKeepsConfig ==
    ASSUME ConfigInv, UNCHANGED <<env, cvars>>, ~raced' => ~raced,
           \A v \in VersionIDs : tversion[v] # Null => tversion'[v] = tversion[v]
    PROVE  ConfigInv'
  <1>1. UNCHANGED <<env, info, config, release, form, strayed>> /\ Last' = Last
    BY DEF cvars, Last
  <1>2. /\ form # Null /\ form.tv # Null => form.tv \in VersionIDs
        /\ info # Null /\ info.tv # Null => info.tv \in VersionIDs
    BY DEF ConfigInv, ConfigType, Forms, Infos
  <1>3. ASSUME ConfigTrue PROVE ConfigTrue'
    BY <1>1, <1>2, <1>3 DEF ConfigTrue
  <1> QED BY <1>1, <1>3 DEF ConfigInv, ConfigType

\* A version is read with the content of its file, which is its own when
\* requests did not overlap.
LEMMA VisitFacts ==
    ASSUME TemplateInv, NEW v \in VersionIDs \cup {Null}
    PROVE  /\ visitTemplateData(v) \in Contents
           /\ v # Null /\ tversion[v] # Null =>
                 /\ visitTemplateData(v) # Null
                 /\ ~raced => visitTemplateData(v) = tversion[v]
  <1>1. CASE v = Null
    BY <1>1 DEF visitTemplateData, Contents
  <1>2. CASE v # Null
    <2>1. PICK n \in Namespaces, k \in 1 .. MaxVersion : v = <<n, k>>
      BY <1>2 DEF VersionIDs
    <2>2. tfile[v] \in Contents /\ Null \in Contents
      BY <1>2 DEF TemplateInv, TemplateType, Contents
    <2>3. tversion[v] # Null => tfile[v] # Null /\ (~raced => tfile[v] = tversion[v])
      BY <2>1 DEF TemplateInv, VersionsOK, SerialOK
    <2> QED BY <1>2, <2>2, <2>3 DEF visitTemplateData
  <1> QED BY <1>1, <1>2

\* The version a template row names is a committed one.
LEMMA TemplateFacts ==
    ASSUME TemplateInv, NEW n
    PROVE  /\ getConfigTemplate(n) \in VersionIDs \cup {Null}
           /\ getConfigTemplate(n) # Null =>
                 n \in Namespaces /\ tversion[getConfigTemplate(n)] # Null
  <1>1. ASSUME n \in Namespaces, latestVersion[n] > 0
        PROVE  <<n, latestVersion[n]>> \in VersionIDs /\ tversion[<<n, latestVersion[n]>>] # Null
    <2>1. latestVersion[n] \in 1 .. MaxVersion
      BY <1>1, TemplatesAssumption DEF TemplateInv, TemplateType
    <2> QED BY <1>1, <2>1, VersionKey DEF TemplateInv, VersionsOK
  <1> QED BY <1>1 DEF getConfigTemplate

\* Appending to a sequence.
LEMMA AppendFacts ==
    ASSUME NEW S, NEW q \in Seq(S), NEW e \in S
    PROVE  /\ Append(q, e) \in Seq(S)
           /\ Len(Append(q, e)) = Len(q) + 1
           /\ Append(q, e)[Len(q) + 1] = e
           /\ Len(q) \in Nat
  OBVIOUS

\* A config is updated with content d of template version v.
LEMMA UpdatePreserves ==
    ASSUME TemplateInv, ConfigInv, info # Null, NEW ref \in Refs,
           NEW v \in VersionIDs \cup {Null}, NEW d \in Contents, NEW r \in Repls,
           Update(ref, v, d, r), UNCHANGED <<template, env, release, raced>>,
           form' \in {form, Null},
           ~raced /\ ~strayed /\ v # Null => tversion[v] # Null /\ d = tversion[v]
    PROVE  ConfigInv'
  <1>1. PICK new : new = [tv |-> v, repl |-> r, data |-> mergeTemplateAndReplace(d, r)]
    OBVIOUS
  <1>2. /\ new \in ConfigSet /\ new.tv = v /\ new.repl = r
        /\ new.data = mergeTemplateAndReplace(d, r)
    <2>1. mergeTemplateAndReplace(d, r) \in
            {mergeTemplateAndReplace(t, x) : t \in Contents, x \in Repls}
      OBVIOUS
    <2> HIDE DEF mergeTemplateAndReplace
    <2> QED BY <1>1, <2>1 DEF ConfigSet
  <1>3. /\ config' = IF Last # new THEN Append(config, new) ELSE config
        /\ info' = [ref |-> ref, tv |-> IF v = Null THEN info.tv ELSE v]
        /\ strayed' = (strayed \/ (v = Null /\ info.tv # Null))
    BY <1>1 DEF Update, isConfigNeedNewVersion
  <1>4. info.tv \in VersionIDs \cup {Null}
    BY DEF ConfigInv, ConfigType, Infos
  <1>5. info' \in Infos /\ info'.tv = (IF v = Null THEN info.tv ELSE v) /\ info' # Null
    BY <1>3, <1>4, TemplatesAssumption DEF Infos
  <1>6. config \in Seq(ConfigSet) /\ Len(config) > 0
    BY DEF ConfigInv, ConfigType
  <1>7. /\ config' \in Seq(ConfigSet) /\ Len(config') >= Len(config) /\ Last' = new
        /\ Len(config') \in Nat /\ Len(config) \in Nat
    <2>1. CASE Last # new
      BY <1>2, <1>3, <1>6, <2>1, AppendFacts DEF Last
    <2>2. CASE Last = new
      BY <1>2, <1>3, <1>6, <2>2 DEF Last
    <2> QED BY <2>1, <2>2
  <1>8. release' \in [rel : 0 .. Len(config'), pre : 0 .. Len(config')]
    <2>1. 0 .. Len(config) \subseteq 0 .. Len(config')
      BY <1>7
    <2> QED BY <2>1 DEF ConfigInv, ConfigType
  <1>9. ConfigType'
    <2>1. strayed' \in BOOLEAN
      BY <1>3 DEF ConfigInv, ConfigType
    <2> QED BY <1>5, <1>7, <1>8, <2>1 DEF ConfigInv, ConfigType
  <1>10. ASSUME ~raced', ~strayed' PROVE ConfigTrue'
    <2>1. ~raced /\ ~strayed /\ (v = Null => info.tv = Null) /\ ConfigTrue /\ tversion' = tversion
      BY <1>3, <1>10 DEF ConfigInv, template
    <2>2. form' # Null /\ form'.tv # Null =>
             tversion'[form'.tv] # Null /\ form'.data = tversion'[form'.tv]
      BY <2>1 DEF ConfigTrue
    <2>3. info'.tv # Null => v # Null /\ info'.tv = v
      BY <1>5, <2>1
    <2>4. ASSUME info'.tv # Null
          PROVE  /\ tversion'[info'.tv] # Null /\ Last'.tv = info'.tv
                 /\ Last'.data = mergeTemplateAndReplace(tversion'[info'.tv], Last'.repl)
      BY <1>2, <1>7, <2>1, <2>3, <2>4
    <2> QED BY <2>2, <2>4 DEF ConfigTrue
  <1>11. Len(config') > 0
    BY <1>6, <1>7
  <1> QED BY <1>5, <1>9, <1>10, <1>11 DEF ConfigInv

\* The page shows a template or the config.
LEMMA FormPreserves ==
    ASSUME TemplateInv, ConfigInv, LoadTemplate \/ GetConfigDetail
    PROVE  ConfigInv'
  <1>1. UNCHANGED <<template, env, info, config, release, strayed, raced>>
    BY DEF LoadTemplate, GetConfigDetail
  <1>2. Last' = Last /\ tversion' = tversion
    BY <1>1 DEF Last, template
  <1>3. /\ form' \in Forms
        /\ ~raced /\ ~strayed /\ form'.tv # Null =>
              tversion[form'.tv] # Null /\ form'.data = tversion[form'.tv]
    <2>1. CASE LoadTemplate
      <3>1. PICK ref, v :
              /\ ref \in GetTemplateOption
              /\ v = getConfigTemplate(renderClusterEnv(ref))
              /\ visitTemplateData(v) # Null
              /\ form' = [ref |-> ref, tv |-> v, data |-> visitTemplateData(v)]
        BY <2>1 DEF LoadTemplate
      <3>2. ref \in Refs
        BY <3>1 DEF GetTemplateOption, Refs
      <3>3. v \in VersionIDs \cup {Null} /\ (v # Null => tversion[v] # Null)
        BY <3>1, TemplateFacts
      <3>4. /\ visitTemplateData(v) \in Contents
            /\ v # Null /\ ~raced => visitTemplateData(v) = tversion[v]
        BY <3>3, VisitFacts
      <3> QED BY <3>1, <3>2, <3>3, <3>4 DEF Forms, Contents
    <2>2. CASE GetConfigDetail
      <3>1. /\ info # Null /\ info \in Infos /\ Last.tv # Null
            /\ form' = [ref |-> info.ref, tv |-> info.tv, data |-> visitTemplateData(Last.tv)]
        BY <2>2 DEF GetConfigDetail, ConfigInv, ConfigType
      <3>2. Last.tv \in VersionIDs \cup {Null}
        <4>1. Last \in ConfigSet
          BY <3>1 DEF ConfigInv, ConfigType, Last
        <4> QED BY <4>1 DEF ConfigSet
      <3>3. /\ visitTemplateData(Last.tv) \in Contents
            /\ ~raced /\ tversion[Last.tv] # Null =>
                  visitTemplateData(Last.tv) = tversion[Last.tv]
        BY <3>1, <3>2, VisitFacts
      <3>4. ~raced /\ ~strayed /\ info.tv # Null =>
              Last.tv = info.tv /\ tversion[info.tv] # Null
        BY <3>1 DEF ConfigInv, ConfigTrue
      <3> QED BY <3>1, <3>3, <3>4 DEF Forms, Infos, Contents
    <2> QED BY <2>1, <2>2
  <1>4. ConfigType'
    BY <1>1, <1>3 DEF ConfigInv, ConfigType
  <1>5. ASSUME ~raced', ~strayed' PROVE ConfigTrue'
    BY <1>1, <1>2, <1>3, <1>5 DEF ConfigInv, ConfigTrue
  <1> QED BY <1>1, <1>4, <1>5 DEF ConfigInv

\* A config is created from the page.
LEMMA AddConfigPreserves ==
    ASSUME TemplateInv, ConfigInv, AddConfig
    PROVE  ConfigInv'
  <1>1. PICK v : v = getConfigTemplate(renderClusterEnv(form.ref))
    OBVIOUS
  <1>2. /\ info = Null /\ form # Null /\ v # Null /\ form' = Null
        /\ UNCHANGED <<template, env, release, raced>>
    BY <1>1 DEF AddConfig
  <1>3. form \in Forms /\ v \in VersionIDs
    BY <1>1, <1>2, TemplateFacts DEF ConfigInv, ConfigType
  <1>4. PICK sent \in {form.tv, Null}, r \in ReplaceData :
          /\ info' = [ref |-> form.ref, tv |-> sent]
          /\ config' = <<[tv |-> v, repl |-> r, data |-> mergeTemplateAndReplace(form.data, r)]>>
    BY <1>1 DEF AddConfig
  <1>5. PICK row : row = [tv |-> v, repl |-> r, data |-> mergeTemplateAndReplace(form.data, r)]
    OBVIOUS
  <1>6. form.data \in Contents /\ r \in Repls /\ form.ref \in Refs
        /\ form.tv \in VersionIDs \cup {Null}
    BY <1>3 DEF Forms, Contents, Repls
  <1>7. /\ row \in ConfigSet /\ row.tv = v /\ row.repl = r
        /\ row.data = mergeTemplateAndReplace(form.data, r)
    <2>1. mergeTemplateAndReplace(form.data, r) \in
            {mergeTemplateAndReplace(t, x) : t \in Contents, x \in Repls}
      BY <1>6
    <2> HIDE DEF mergeTemplateAndReplace
    <2> QED BY <1>3, <1>5, <1>6, <2>1 DEF ConfigSet
  <1>8. config' = <<row>> /\ config' \in Seq(ConfigSet) /\ Len(config') = 1 /\ Last' = row
    BY <1>4, <1>5, <1>7 DEF Last
  <1>9. strayed' = (form.tv # v)
    BY <1>7, <1>8 DEF AddConfig
  <1>10. info' \in Infos /\ info'.tv \in {form.tv, Null} /\ info' # Null
    BY <1>4, <1>6, TemplatesAssumption DEF Infos
  <1>11. ConfigType'
    <2>1. release' \in [rel : 0 .. Len(config'), pre : 0 .. Len(config')]
      <3>1. release.rel = 0 /\ release.pre = 0 /\ release' = release
        BY <1>2 DEF ConfigInv
      <3>2. 0 \in 0 .. Len(config')
        BY <1>8
      <3> QED BY <3>1, <3>2 DEF ConfigInv, ConfigType
    <2> QED BY <1>2, <1>8, <1>9, <1>10, <2>1 DEF ConfigInv, ConfigType
  <1>12. ASSUME ~raced', ~strayed' PROVE ConfigTrue'
    <2>1. ~raced /\ ConfigTrue /\ form.tv = v /\ tversion' = tversion
      BY <1>2, <1>9, <1>12 DEF ConfigInv, template
    <2>2. tversion[v] # Null /\ form.data = tversion[v]
      BY <1>2, <2>1 DEF ConfigTrue
    <2>3. info'.tv # Null => info'.tv = v
      BY <1>10, <2>1
    <2> QED BY <1>2, <1>7, <1>8, <2>1, <2>2, <2>3 DEF ConfigTrue
  <1> QED BY <1>8, <1>10, <1>11, <1>12 DEF ConfigInv

\* A config is updated from the page or from its template.
LEMMA UpdateConfigPreserves ==
    ASSUME TemplateInv, ConfigInv, UpdateConfig \/ ReloadTemplate
    PROVE  ConfigInv'
  <1>1. CASE UpdateConfig
    <2>1. PICK r \in ReplaceData : Update(form.ref, form.tv, form.data, r)
      BY <1>1 DEF UpdateConfig
    <2>2. /\ info # Null /\ form # Null /\ form' = Null
          /\ UNCHANGED <<template, env, release, raced>>
      BY <1>1 DEF UpdateConfig
    <2>3. /\ form.ref \in Refs /\ form.tv \in VersionIDs \cup {Null}
          /\ form.data \in Contents /\ r \in Repls
      BY <2>2 DEF ConfigInv, ConfigType, Forms, Contents, Repls
    <2>4. ~raced /\ ~strayed /\ form.tv # Null =>
            tversion[form.tv] # Null /\ form.data = tversion[form.tv]
      BY <2>2 DEF ConfigInv, ConfigTrue
    <2> QED BY <2>1, <2>2, <2>3, <2>4, UpdatePreserves
  <1>2. CASE ReloadTemplate
    <2>1. PICK v, r : /\ v = getConfigTemplate(renderClusterEnv(info.ref)) /\ v # Null
                      /\ r = IF Last.tv = Null THEN << >> ELSE Last.repl
                      /\ Update(info.ref, v, ReloadSource(v), r)
      BY <1>2 DEF ReloadTemplate
    <2>2. info # Null /\ form' = form /\ UNCHANGED <<template, env, release, raced>>
      BY <1>2 DEF ReloadTemplate
    <2>3. v \in VersionIDs \cup {Null} /\ tversion[v] # Null
      BY <2>1, TemplateFacts
    <2>4. ReloadSource(v) \in Contents /\ (~raced => ReloadSource(v) = tversion[v])
      BY <2>1, <2>3, VisitFacts DEF ReloadSource
    <2>5. info.ref \in Refs
      BY <2>2 DEF ConfigInv, ConfigType, Infos
    <2>6. r \in Repls
      <3>1. Last \in ConfigSet
        BY <2>2 DEF ConfigInv, ConfigType, Last
      <3> QED BY <2>1, <3>1 DEF ConfigSet, Repls
    <2> QED BY <2>1, <2>2, <2>3, <2>4, <2>5, <2>6, UpdatePreserves
  <1> QED BY <1>1, <1>2

\* Releases and rollbacks of the config, and the env of its cluster.
LEMMA ConfigRestPreserves ==
    ASSUME TemplateInv, ConfigInv, ReleaseConfig \/ RollbackConfig \/ UpdateClusterEnvs
    PROVE  ConfigInv'
  <1>0. config \in Seq(ConfigSet) /\ Len(config) \in Nat
    BY DEF ConfigInv, ConfigType
  <1>1. CASE ReleaseConfig
    <2>1. UNCHANGED <<template, env, info, config, form, strayed, raced>> /\ info # Null
      BY <1>1 DEF ReleaseConfig
    <2>2. Last' = Last /\ tversion' = tversion
      BY <2>1 DEF Last, template
    <2>3. release' \in [rel : 0 .. Len(config'), pre : 0 .. Len(config')]
      <3>1. Len(config) \in 0 .. Len(config')
        BY <1>0, <2>1
      <3> QED BY <1>1, <2>1, <3>1 DEF ReleaseConfig, ConfigInv, ConfigType
    <2>4. ConfigTrue => ConfigTrue'
      BY <2>1, <2>2 DEF ConfigTrue
    <2> QED BY <2>1, <2>3, <2>4 DEF ConfigInv, ConfigType
  <1>2. CASE RollbackConfig
    <2>1. /\ UNCHANGED <<template, env, info, release, form, raced>> /\ strayed'
          /\ release.pre # 0 /\ config' = Append(config, config[release.pre])
          /\ strayed' = TRUE
      BY <1>2 DEF RollbackConfig
    <2>2. release.pre \in 1 .. Len(config)
      BY <1>0, <2>1 DEF ConfigInv, ConfigType
    <2>3. config[release.pre] \in ConfigSet
      BY <1>0, <2>2
    <2>4. config' \in Seq(ConfigSet) /\ Len(config') = Len(config) + 1
      BY <1>0, <2>1, <2>3, AppendFacts
    <2>5. release' \in [rel : 0 .. Len(config'), pre : 0 .. Len(config')]
      <3>1. 0 .. Len(config) \subseteq 0 .. Len(config')
        BY <1>0, <2>4
      <3> QED BY <2>1, <3>1 DEF ConfigInv, ConfigType
    <2>6. info # Null
      BY <2>1 DEF ConfigInv
    <2>7. Len(config') > 0
      BY <1>0, <2>4
    <2> QED BY <2>1, <2>4, <2>5, <2>6, <2>7 DEF ConfigInv, ConfigType
  <1>3. CASE UpdateClusterEnvs
    BY <1>3 DEF UpdateClusterEnvs, template, cvars, ConfigInv, ConfigType, ConfigTrue, Last
  <1> QED BY <1>1, <1>2, <1>3

\* TemplateInv and ConfigInv are inductive together.
THEOREM TemplatesInvariant == Spec => [](TemplateInv /\ ConfigInv)
  <1>1. Init => TemplateInv /\ ConfigInv
    <2> SUFFICES ASSUME Init PROVE TemplateInv /\ ConfigInv
      OBVIOUS
    <2>1. 0 \in 0 .. MaxVersion /\ ~(0 > 0)
      BY TemplatesAssumption
    <2>2. Idle \in TxSet /\ Idle.pc = "idle" /\ ~Idle.ins
      BY <2>1 DEF Idle, TxSet, Contents
    <2>3. TemplateType
      BY <2>1, <2>2 DEF Init, TemplateType, Contents
    <2>4. VersionsOK /\ SerialOK /\ \A w \in Writers : TxOK(w)
      BY <2>1, <2>2, VersionKey DEF Init, VersionsOK, SerialOK, TxOK
    <2>5. ConfigType
      <3>1. << >> \in Seq(ConfigSet) /\ Len(<< >>) = 0 /\ 0 \in 0 .. 0
        OBVIOUS
      <3> QED BY <3>1 DEF Init, ConfigType
    <2> QED BY <2>3, <2>4, <2>5 DEF Init, TemplateInv, ConfigInv, ConfigTrue
  <1>2. ASSUME TemplateInv, ConfigInv, [Next]_vars PROVE TemplateInv' /\ ConfigInv'
    <2>1. ASSUME UNCHANGED <<template, raced>> PROVE TemplateInv'
      BY <1>2, <2>1 DEF template, TemplateInv, TemplateType, VersionsOK, TxOK, SerialOK
    <2>2. CASE UNCHANGED vars
      BY <1>2, <2>1, <2>2, WriterKeepsConfig DEF vars, template
    <2>3. ASSUME NEW w \in Writers,
                 \/ AddTemplate(w) \/ UpdateTemplate(w) \/ storeTemplateData(w)
                 \/ CreateTemplateVersion(w) \/ CommitTemplate(w) \/ Abort(w)
          PROVE  TemplateInv' /\ ConfigInv'
      <3>1. UNCHANGED <<env, cvars>>
        BY <2>3 DEF AddTemplate, UpdateTemplate, storeTemplateData, CreateTemplateVersion,
                    CommitTemplate, Abort
      <3>2. /\ TemplateInv' /\ (~raced' => ~raced)
            /\ \A v \in VersionIDs : tversion[v] # Null => tversion'[v] = tversion[v]
        BY <1>2, <2>3, TemplateStarts, StoreTemplatePreserves, CreateVersionPreserves,
           EndPreserves
      <3> QED BY <1>2, <3>1, <3>2, WriterKeepsConfig
    <2>4. CASE \/ UpdateClusterEnvs \/ LoadTemplate \/ AddConfig \/ GetConfigDetail
               \/ UpdateConfig \/ ReloadTemplate \/ ReleaseConfig \/ RollbackConfig
      <3>1. UNCHANGED <<template, raced>>
        BY <2>4 DEF UpdateClusterEnvs, LoadTemplate, AddConfig, GetConfigDetail, UpdateConfig,
                    ReloadTemplate, ReleaseConfig, RollbackConfig
      <3> QED BY <1>2, <2>1, <2>4, <3>1, FormPreserves, AddConfigPreserves,
                 UpdateConfigPreserves, ConfigRestPreserves
    <2> QED BY <1>2, <2>2, <2>3, <2>4 DEF Next
  <1> QED BY <1>1, <1>2, PTL DEF Spec

\* Every committed version of a template can be shown with its change, however
\* template requests interleave and fail.
THEOREM HistoryShownHolds == Spec => []HistoryShown
  <1>1. TemplateInv => HistoryShown
    <2> SUFFICES ASSUME TemplateInv, NEW v \in VersionIDs, tversion[v] # Null
                 PROVE  GetTemplateHistoryDetail(v)
      BY DEF HistoryShown
    <2>1. PICK n \in Namespaces, k \in 1 .. MaxVersion : v = <<n, k>> /\ v[1] = n /\ v[2] = k
      BY DEF VersionIDs
    <2>2. visitTemplateData(v) # Null
      BY VisitFacts, TemplatesAssumption
    <2>3. ASSUME k >= 2
          PROVE  tversion[<<n, k - 1>>] # Null /\ visitTemplateData(<<n, k - 1>>) # Null
      <3>1. k - 1 \in 1 .. MaxVersion /\ k > 1
        BY <2>3, TemplatesAssumption
      <3>2. tversion[<<n, k - 1>>] # Null
        BY <2>1, <3>1 DEF TemplateInv, VersionsOK
      <3>3. <<n, k - 1>> \in VersionIDs /\ <<n, k - 1>> # Null
        BY <3>1, VersionKey, TemplatesAssumption
      <3> QED BY <3>2, <3>3, VisitFacts
    <2> QED BY <2>1, <2>2, <2>3 DEF GetTemplateHistoryDetail
  <1> QED BY <1>1, TemplatesInvariant, PTL

\* Without overlapping requests the latest version of a template is its newest,
\* and every file has the digest its row records.
THEOREM TemplateTruthHolds == Spec => []TemplateTruth
  <1>1. TemplateInv => TemplateTruth
    <2> SUFFICES ASSUME TemplateInv, ~raced, NEW v \in VersionIDs, tversion[v] # Null
                 PROVE  v[2] =< latestVersion[v[1]] /\ tfile[v] = tversion[v]
      BY DEF TemplateTruth
    <2>1. PICK n \in Namespaces, k \in 1 .. MaxVersion : v = <<n, k>> /\ v[1] = n /\ v[2] = k
      BY DEF VersionIDs
    <2> QED BY <2>1 DEF TemplateInv, SerialOK
  <1> QED BY <1>1, TemplatesInvariant, PTL

\* Every template namespace the page offers leads to a template, also through
\* the env of the cluster.
THEOREM OptionsResolveHolds == Spec => []OptionsResolve
  <1>1. TemplateInv /\ ConfigInv => OptionsResolve
    <2> SUFFICES ASSUME TemplateInv, ConfigInv, NEW ref \in GetTemplateOption
                 PROVE  GetTemplateDetailByNameAndNamespace(ref) # Null
      BY DEF OptionsResolve
    <2>1. PICK n \in Namespaces : latestVersion[n] > 0 /\ renderClusterEnv(ref) = n
      BY TemplatesAssumption DEF GetTemplateOption, renderClusterEnv
    <2>2. getConfigTemplate(n) = <<n, latestVersion[n]>>
      BY <2>1 DEF getConfigTemplate
    <2>3. <<n, latestVersion[n]>> \in VersionIDs
      <3>1. latestVersion[n] \in 1 .. MaxVersion
        BY <2>1, TemplatesAssumption DEF TemplateInv, TemplateType
      <3> QED BY <3>1, VersionKey
    <2>4. getConfigTemplate(n) # Null /\ tversion[getConfigTemplate(n)] # Null
      BY <2>2, <2>3, TemplateFacts, TemplatesAssumption
    <2> QED BY <2>1, <2>2, <2>3, <2>4, VisitFacts DEF GetTemplateDetailByNameAndNamespace
  <1> QED BY <1>1, TemplatesInvariant, PTL

\* A config that never got two template versions and is not marked as changed
\* has the content of its template as it is now, unless requests on the
\* template overlapped.
THEOREM ChangeSeenHolds == Spec => []ChangeSeenForward
  <1>1. ConfigInv => ChangeSeenForward
    BY DEF ConfigInv, ConfigTrue, ChangeSeenForward, ChangeSeen, checkIsTemplateChange
  <1> QED BY <1>1, TemplatesInvariant, PTL

-----------------------------------------------------------------------------
(* Lists.                                                                  *)

\* The place of a row in a list, counted from 0: how many rows of the list are newer.
Rank(S, i) == Cardinality({j \in S : j > i})

\* The states of a row, the rows that were ever inserted, and the states of a walk.
RowSet == [scope : Scopes \cup {NoFilter}, version : 0 .. MaxRows,
           status : {"absent", "", "deleted"}]
Present == {j \in IDs : rows[j] # AbsentRow}

WalkSet == [pc : {"idle", "ask", "counted", "answered", "done", "failed"},
            scope : Scopes \cup {Admin, NoFilter}, size : Int \cup {NotANumber},
            asked : Nat, count : Nat, page : Nat, pages : Nat,
            data : SUBSET IDs, seen : SUBSET IDs, first : SUBSET IDs]

\* The types the proof relies on.
ListType ==
    /\ table \in Tables /\ rows \in [IDs -> RowSet] /\ walk \in WalkSet
    /\ dels \in Nat /\ gone \in Nat /\ late \in Nat

\* Ids are given without a gap, and the rows of the first count were there.
PresentOK == Present = 1 .. Cardinality(Present) /\ walk.first \subseteq Present

\* The rows of the pages the client has been through, and those of them it has not
\* seen although they were there all the time.
Answered == walk.pc \in {"answered", "done"}
Through == (IF Answered THEN walk.page ELSE walk.asked - 1) * walk.size
Unseen == (walk.first \cap Selected) \ walk.seen
Missed == {i \in Unseen : Rank(Selected, i) < Through}

\* The list has been counted at least once: the size of a page is settled.
Walking ==
    \/ walk.pc \in {"counted", "answered", "done"}
    \/ walk.pc = "ask" /\ walk.asked > 1

\* Of the rows before the place it has come to, the client misses at most one for each
\* row deleted; and there are no more rows than were counted, but for late ones.
WalkOK ==
    /\ walk.pc \in {"ask", "counted"} => walk.asked > 0
    /\ Walking => /\ walk.size \in 1 .. MaxPageSize
                  /\ Cardinality(Missed) <= dels
    /\ walk.pc \in {"counted", "answered", "done"} =>
          Cardinality(Selected) <= walk.count + late
    /\ walk.pc = "answered" => walk.pages = PageNums(walk.count, walk.size)
    /\ walk.pc = "done" => walk.count <= Through

\* The inductive invariant.
ListInv == ListType /\ PresentOK /\ WalkOK

-----------------------------------------------------------------------------
\* A set of numbers that is not empty has a least element.
LEMMA LeastOf ==
    ASSUME NEW T \in SUBSET Nat, T # {}
    PROVE  \E x \in T : \A y \in T : x <= y
  <1> DEFINE R == {ss \in Nat \X Nat : ss[1] < ss[2]}
  <1>1. IsWellFoundedOn(R, Nat)
    BY NatLessThanWellFounded DEF OpToRel
  <1> HIDE DEF R
  <1>2. PICK x \in T : \A y \in T : ~(<<y, x>> \in R)
    BY <1>1, WFMin
  <1>3. ASSUME NEW y \in T PROVE x <= y
    <2>1. y < x => <<y, x>> \in R
      BY DEF R
    <2> QED BY <1>2, <2>1
  <1> QED BY <1>3

\* A list has finitely many rows, and ranks are numbers.
LEMMA RankType ==
    ASSUME NEW S, IsFiniteSet(S), NEW i
    PROVE  IsFiniteSet({j \in S : j > i}) /\ Rank(S, i) \in Nat
  BY FS_Subset, FS_CardinalityType DEF Rank

\* Newer rows come first.
LEMMA RankDecreases ==
    ASSUME NEW S \in SUBSET Int, IsFiniteSet(S), NEW i \in S, NEW k \in S, i < k
    PROVE  Rank(S, k) < Rank(S, i)
  <1> DEFINE A == {j \in S : j > k}
             B == {j \in S : j > i}
  <1>1. IsFiniteSet(A) /\ IsFiniteSet(B) /\ Cardinality(A) \in Nat /\ Cardinality(B) \in Nat
    BY RankType DEF Rank
  <1>2. k \notin A /\ A \cup {k} \in SUBSET B
    <2>1. i \in Int /\ k \in Int
      OBVIOUS
    <2>2. ASSUME NEW j \in A \cup {k} PROVE j \in B
      BY <2>1
    <2>3. k \notin A
      BY <2>1
    <2> HIDE DEF A, B
    <2> QED BY <2>2, <2>3
  <1> HIDE DEF A, B
  <1>3. Cardinality(A \cup {k}) = Cardinality(A) + 1
    BY <1>1, <1>2, FS_AddElement
  <1>4. Cardinality(A \cup {k}) <= Cardinality(B)
    BY <1>1, <1>2, FS_Subset
  <1>5. Cardinality(A) < Cardinality(B)
    BY <1>1, <1>3, <1>4
  <1> QED BY <1>5 DEF Rank, A, B

\* When a row is deleted the rows behind it move up by one place: of the rows U at most
\* one comes to lie before place m.
LEMMA RankRemove ==
    ASSUME NEW S \in SUBSET Int, IsFiniteSet(S), NEW U \in SUBSET S, NEW V \in SUBSET U,
           NEW d, NEW m \in Int
    PROVE  Cardinality({i \in V : Rank(S \ {d}, i) < m})
              <= Cardinality({i \in U : Rank(S, i) < m}) + 1
  <1> DEFINE New == {i \in V : Rank(S \ {d}, i) < m}
             Old == {i \in U : Rank(S, i) < m}
  <1>1. IsFiniteSet(Old) /\ Cardinality(Old) \in Nat /\ IsFiniteSet(New)
        /\ Cardinality(New) \in Nat
    <2>1. Old \in SUBSET S /\ New \in SUBSET S
      OBVIOUS
    <2> QED BY <2>1, FS_Subset, FS_CardinalityType
  <1>2. ASSUME NEW i \in New PROVE i \in U /\ Rank(S, i) <= m /\ Rank(S, i) \in Nat
    <2>1. {j \in S \ {d} : j > i} = {j \in S : j > i} \ {d}
      OBVIOUS
    <2>2. IsFiniteSet({j \in S : j > i}) /\ Rank(S, i) \in Nat
      BY RankType
    <2>3. Cardinality({j \in S : j > i} \ {d}) =
             IF d \in {j \in S : j > i} THEN Rank(S, i) - 1 ELSE Rank(S, i)
      BY <2>2, FS_RemoveElement DEF Rank
    <2>4. Rank(S \ {d}, i) = Cardinality({j \in S : j > i} \ {d})
      BY <2>1 DEF Rank
    <2>5. i \in V /\ Rank(S \ {d}, i) < m
      BY <1>2
    <2>6. Rank(S \ {d}, i) \in Int /\ Rank(S, i) <= Rank(S \ {d}, i) + 1
      BY <2>2, <2>3, <2>4
    <2> QED BY <2>2, <2>5, <2>6
  <1> SUFFICES Cardinality(New) <= Cardinality(Old) + 1
    OBVIOUS
  <1> HIDE DEF Old, New
  <1>3. CASE \E e \in U : Rank(S, e) = m
    <2>1. PICK e \in U : Rank(S, e) = m
      BY <1>3
    <2>2. ASSUME NEW i \in New, i # e PROVE i \in Old
      <3>1. Rank(S, i) # m
        <4>1. i \in S /\ e \in S /\ i \in Int /\ e \in Int
          BY <1>2
        <4>2. i < e \/ e < i
          BY <2>2, <4>1
        <4> QED BY <1>2, <2>1, <4>1, <4>2, RankDecreases
      <3> QED BY <1>2, <3>1 DEF Old
    <2>3. New \in SUBSET (Old \cup {e})
      BY <2>2
    <2>4. /\ IsFiniteSet(Old \cup {e})
          /\ Cardinality(Old \cup {e}) = IF e \in Old THEN Cardinality(Old)
                                         ELSE Cardinality(Old) + 1
      BY <1>1, FS_AddElement
    <2>5. Cardinality(New) <= Cardinality(Old \cup {e})
      BY <2>3, <2>4, FS_Subset
    <2> QED BY <1>1, <2>4, <2>5
  <1>4. CASE ~ \E e \in U : Rank(S, e) = m
    <2>1. ASSUME NEW i \in New PROVE i \in Old
      <3>1. Rank(S, i) # m
        BY <1>2, <1>4
      <3> QED BY <1>2, <3>1 DEF Old
    <2>2. Cardinality(New) <= Cardinality(Old)
      BY <1>1, <2>1, FS_Subset
    <2> QED BY <1>1, <2>2
  <1> QED BY <1>3, <1>4

\* When a row is inserted no row comes to lie further to the front.
LEMMA RankInsert ==
    ASSUME NEW S \in SUBSET Int, IsFiniteSet(S), NEW n \in Int, NEW U \in SUBSET S,
           NEW m \in Int
    PROVE  Cardinality({i \in U : Rank(S \cup {n}, i) < m})
              <= Cardinality({i \in U : Rank(S, i) < m})
  <1>1. IsFiniteSet(S \cup {n})
    BY FS_AddElement
  <1>2. ASSUME NEW i \in U, Rank(S \cup {n}, i) < m PROVE Rank(S, i) < m
    <2>1. {j \in S : j > i} \in SUBSET {j \in S \cup {n} : j > i}
      OBVIOUS
    <2>2. Rank(S, i) \in Nat /\ Rank(S \cup {n}, i) \in Nat
          /\ IsFiniteSet({j \in S \cup {n} : j > i})
      BY <1>1, RankType
    <2>3. Rank(S, i) <= Rank(S \cup {n}, i)
      BY <2>1, <2>2, FS_Subset DEF Rank
    <2> QED BY <1>2, <2>2, <2>3
  <1>3. {i \in U : Rank(S \cup {n}, i) < m} \in SUBSET {i \in U : Rank(S, i) < m}
    BY <1>2
  <1>4. IsFiniteSet({i \in U : Rank(S, i) < m})
    BY FS_Subset
  <1> QED BY <1>3, <1>4, FS_Subset

\* A list of at most m + k rows has at most k from place m on.
LEMMA RankBehind ==
    ASSUME NEW S \in SUBSET Int, IsFiniteSet(S), NEW m \in Nat, NEW k \in Nat,
           Cardinality(S) <= m + k
    PROVE  Cardinality({i \in S : Rank(S, i) >= m}) <= k
  <1> DEFINE T == {i \in S : Rank(S, i) >= m}
  <1>1. IsFiniteSet(T) /\ Cardinality(T) \in Nat
    BY FS_Subset, FS_CardinalityType
  <1>2. CASE T = {}
    BY <1>2, FS_EmptySet
  <1>3. CASE T # {}
    <2> DEFINE N == {Rank(S, i) : i \in T}
    <2>1. N \in SUBSET Nat /\ N # {}
      BY <1>3, RankType
    <2>2. PICK x \in N : \A y \in N : x <= y
      BY <2>1, LeastOf
    <2>3. PICK t \in T : x = Rank(S, t)
      BY <2>2
    <2> DEFINE A == {j \in S : j > t}
    <2>4. ASSUME NEW i \in T PROVE ~(i > t)
      <3>1. i \in S /\ t \in S /\ i \in Int /\ t \in Int /\ Rank(S, i) \in Nat
            /\ Rank(S, t) \in Nat /\ Rank(S, t) <= Rank(S, i)
        BY <2>2, <2>3, RankType
      <3> QED BY <3>1, RankDecreases
    <2>5. A \cap T = {} /\ A \cup T \in SUBSET S
      BY <2>4
    <2>6. IsFiniteSet(A) /\ Cardinality(A) \in Nat /\ Cardinality(A) >= m
      BY RankType DEF Rank
    <2> HIDE DEF A, T
    <2>7. /\ IsFiniteSet(A \cup T)
          /\ Cardinality(A \cup T) = Cardinality(A) + Cardinality(T) - Cardinality(A \cap T)
      BY <1>1, <2>6, FS_Union
    <2>8. Cardinality(A \cap T) = 0
      BY <2>5, FS_EmptySet
    <2>9. Cardinality(A \cup T) <= Cardinality(S) /\ Cardinality(S) \in Nat
      BY <2>5, FS_Subset, FS_CardinalityType
    <2> QED BY <1>1, <2>6, <2>7, <2>8, <2>9 DEF T
  <1> QED BY <1>2, <1>3

\* The pages hold all rows that were counted.
LEMMA PageNumsBound ==
    ASSUME NEW n \in Nat, NEW per \in Nat \ {0}
    PROVE  PageNums(n, per) \in Nat /\ n <= PageNums(n, per) * per
  BY SMTT(30) DEF PageNums

\* The paginator never goes beyond the page that was asked for.
LEMMA PageBound ==
    ASSUME NEW asked \in Nat \ {0}, NEW n \in Nat, NEW per \in Nat \ {0}
    PROVE  Page(asked, n, per) \in Nat \ {0} /\ Page(asked, n, per) <= asked
  <1>1. PICK p \in Nat : p = PageNums(n, per)
    BY PageNumsBound
  <1>2. Min({asked, p}) \in {asked, p} /\ \A y \in {asked, p} : Min({asked, p}) <= y
    <2>1. \E x \in {asked, p} : \A y \in {asked, p} : x <= y
      OBVIOUS
    <2> QED BY <2>1 DEF Min
  <1>3. Min({asked, p}) \in Nat /\ Min({asked, p}) <= asked
    BY <1>2
  <1> QED BY <1>1, <1>3 DEF Page
-----------------------------------------------------------------------------
\* The rows of the list the client walks, in one formula for all tables.
Match(r) ==
    LET scope == IF table \in {"config_versions", "releases", "template_versions"}
                    \/ walk.scope # Admin
                 THEN walk.scope ELSE NoFilter
    IN  (scope # NoFilter => r.scope = scope) /\ (table = "config_versions" => r.version > 1)

\* Selected, table by table, is that formula.
LEMMA SelectedRows ==
    ASSUME table \in Tables
    PROVE  Selected = {i \in IDs : rows[i].status = "" /\ Match(rows[i])}
  <1> DEFINE M == {i \in IDs : rows[i].status = "" /\ Match(rows[i])}
  <1>1. table \in {"app_infos", "apps", "clusters", "config_namespaces",
                   "config_infos", "config_versions", "releases",
                   "template_namespaces", "templates", "template_versions"}
    BY ListingAssumption
  <1>2. CASE table = "app_infos"
    BY <1>2 DEF Selected, AppInfos, appFilters, Where, Match
  <1>3. CASE table = "apps"
    BY <1>3 DEF Selected, Apps, appFilters, Where, Match
  <1>4. CASE table = "clusters"
    BY <1>4 DEF Selected, Clusters, clusterFilters, Where, Match
  <1>5. CASE table = "config_namespaces"
    BY <1>5 DEF Selected, ConfigNamespaces, configFilters, Where, Match
  <1>6. CASE table = "config_infos"
    BY <1>6 DEF Selected, ConfigInfos, configFilters, Where, Match
  <1>7. CASE table = "config_versions"
    BY <1>7 DEF Selected, ConfigVersions, Changes, Where, Match
  <1>8. CASE table = "releases"
    BY <1>8 DEF Selected, Releases, Where, Match
  <1>9. CASE table = "template_namespaces"
    BY <1>9 DEF Selected, TemplateNamespaces, templateFilters, Where, Match
  <1>10. CASE table = "templates"
    BY <1>10 DEF Selected, Templates, templateFilters, Where, Match
  <1>11. CASE table = "template_versions"
    BY <1>11 DEF Selected, TemplateVersions, Where, Match
  <1> HIDE DEF M
  <1> QED BY <1>1, <1>2, <1>3, <1>4, <1>5, <1>6, <1>7, <1>8, <1>9, <1>10, <1>11 DEF M

\* The same of the next state.
LEMMA SelectedRowsNext ==
    table' \in Tables =>
        Selected' = {i \in IDs : rows'[i].status = "" /\ Match(rows[i])'}
  <1>1. (table \in Tables =>
           Selected = {i \in IDs : rows[i].status = "" /\ Match(rows[i])})'
    BY SelectedRows, PTL
  <1> QED BY <1>1 DEF IDs

\* The handler of the table counts and lists just these rows.
LEMMA HandlerLists ==
    ASSUME Handlers
    PROVE  Count(Selected) \/ List(Selected)
  <1>1. ASSUME listAppInfo PROVE Count(Selected) \/ List(Selected)
    BY <1>1 DEF listAppInfo, Serve, Selected
  <1>2. ASSUME listApp PROVE Count(Selected) \/ List(Selected)
    BY <1>2 DEF listApp, Serve, Selected
  <1>3. ASSUME listCluster PROVE Count(Selected) \/ List(Selected)
    BY <1>3 DEF listCluster, Serve, Selected
  <1>4. ASSUME listConfigNamespaces PROVE Count(Selected) \/ List(Selected)
    BY <1>4 DEF listConfigNamespaces, Serve, Selected
  <1>5. ASSUME listConfigs PROVE Count(Selected) \/ List(Selected)
    BY <1>5 DEF listConfigs, Serve, Selected
  <1>6. ASSUME listChangeHistory PROVE Count(Selected) \/ List(Selected)
    BY <1>6 DEF listChangeHistory, Serve, Selected
  <1>7. ASSUME listReleaseHistory PROVE Count(Selected) \/ List(Selected)
    BY <1>7 DEF listReleaseHistory, Serve, Selected
  <1>8. ASSUME listTemplateNamespaces PROVE Count(Selected) \/ List(Selected)
    BY <1>8 DEF listTemplateNamespaces, Serve, Selected
  <1>9. ASSUME listTemplates PROVE Count(Selected) \/ List(Selected)
    BY <1>9 DEF listTemplates, Serve, Selected
  <1>10. ASSUME listTemplateChangeHistory PROVE Count(Selected) \/ List(Selected)
    BY <1>10 DEF listTemplateChangeHistory, Serve, Selected
  <1> QED BY <1>1, <1>2, <1>3, <1>4, <1>5, <1>6, <1>7, <1>8, <1>9, <1>10 DEF Handlers

\* A list is a finite set of ids of rows that are there.
LEMMA SelectedPresent ==
    ASSUME ListType
    PROVE  /\ Selected \in SUBSET Present /\ Selected \in SUBSET Int
           /\ IsFiniteSet(Selected) /\ Cardinality(Selected) \in Nat
           /\ IsFiniteSet(Present) /\ Cardinality(Present) \in Nat
  <1>1. IDs \in SUBSET Int /\ IsFiniteSet(IDs)
    BY ListingAssumption, FS_Interval DEF IDs
  <1>2. Selected = {i \in IDs : rows[i].status = "" /\ Match(rows[i])}
    BY SelectedRows DEF ListType
  <1> HIDE DEF Selected
  <1>3. Selected \in SUBSET Present
    <2>1. AbsentRow.status # ""
      BY DEF AbsentRow
    <2>2. ASSUME NEW i \in Selected PROVE i \in IDs /\ rows[i] # AbsentRow
      BY <1>2, <2>1
    <2> QED BY <2>2 DEF Present
  <1>4. Present \in SUBSET IDs
    BY DEF Present
  <1>5. Selected \in SUBSET IDs
    BY <1>3, <1>4
  <1> QED BY <1>1, <1>3, <1>4, <1>5, FS_Subset, FS_CardinalityType

\* A step of the walk does not change the list, unless it begins another walk.
LEMMA SelectedSame ==
    ASSUME ListType, UNCHANGED <<table, rows>>, walk'.scope = walk.scope
    PROVE  Selected' = Selected /\ Present' = Present
  <1>1. Selected = {i \in IDs : rows[i].status = "" /\ Match(rows[i])}
    BY SelectedRows DEF ListType
  <1>3. Selected' = {i \in IDs : rows'[i].status = "" /\ Match(rows[i])'}
    BY SelectedRowsNext DEF ListType
  <1>4. \A i \in IDs : Match(rows[i])' <=> Match(rows[i])
    BY DEF Match
  <1>5. Present' = Present
    BY DEF Present, IDs, AbsentRow
  <1> QED BY <1>1, <1>3, <1>4, <1>5

-----------------------------------------------------------------------------
\* Nothing has been inserted or asked for.
LEMMA ListInitOK == ListInit => ListInv
  <1> SUFFICES ASSUME ListInit PROVE ListInv
    OBVIOUS
  <1>1. ListType
    BY ListingAssumption DEF ListInit, ListType, NoWalk, WalkSet, AbsentRow, RowSet, IDs
  <1>2. Present = {}
    BY DEF ListInit, Present
  <1>3. Cardinality({}) = 0
    BY FS_EmptySet
  <1>4. PresentOK
    BY <1>2, <1>3 DEF PresentOK, ListInit, NoWalk
  <1>5. WalkOK
    BY DEF ListInit, NoWalk, WalkOK, Walking
  <1> QED BY <1>1, <1>4, <1>5 DEF ListInv

\* The rows missed so far are finitely many.
LEMMA MissedFinite ==
    ASSUME ListType
    PROVE  IsFiniteSet(Missed) /\ Cardinality(Missed) \in Nat
  <1>1. Missed \in SUBSET Selected
    BY DEF Missed, Unseen
  <1> QED BY <1>1, SelectedPresent, FS_Subset, FS_CardinalityType

\* A client that begins has been through no page.
LEMMA AskKeeps ==
    ASSUME ListInv, Ask
    PROVE  ListInv'
  <1>1. ListType /\ PresentOK /\ walk.pc = "idle"
    BY DEF ListInv, Ask
  <1>2. PICK scope \in Scopes \cup {Admin}, size \in PageSizes :
           walk' = [walk EXCEPT !.pc = "ask", !.scope = scope, !.size = size, !.asked = 1]
    BY DEF Ask
  <1>3. UNCHANGED <<table, rows, dels, gone, late>>
    BY DEF Ask
  <1>4. walk \in WalkSet /\ size \in Int \cup {NotANumber}
    BY <1>1, ListingAssumption DEF ListType
  <1>5. walk' \in WalkSet
    BY <1>2, <1>4 DEF WalkSet
  <1>6. walk'.pc = "ask" /\ walk'.asked = 1 /\ walk'.first = walk.first
    BY <1>2, <1>4 DEF WalkSet
  <1>7. ListType' /\ PresentOK'
    BY <1>1, <1>3, <1>5, <1>6 DEF ListType, PresentOK, Present, IDs, AbsentRow, RowSet
  <1>8. WalkOK'
    BY <1>6 DEF WalkOK, Walking
  <1> QED BY <1>7, <1>8 DEF ListInv

\* A walk that fails is about no rows any more.
LEMMA RefuseKeeps ==
    ASSUME ListInv, Refuse
    PROVE  ListInv'
  <1>1. ListType /\ PresentOK
    BY DEF ListInv
  <1>2. walk' = [NoWalk EXCEPT !.pc = "failed"] /\ UNCHANGED <<table, rows, dels, gone, late>>
    BY DEF Refuse
  <1>3. walk' \in WalkSet /\ walk'.pc = "failed" /\ walk'.first = {}
    BY <1>2 DEF NoWalk, WalkSet
  <1>4. ListType' /\ PresentOK'
    BY <1>1, <1>2, <1>3 DEF ListType, PresentOK, Present, IDs, AbsentRow, RowSet
  <1>5. WalkOK'
    BY <1>3 DEF WalkOK, Walking
  <1> QED BY <1>4, <1>5 DEF ListInv

\* The sizes of pages a handler uses.
LEMMA SizeOK ==
    ASSUME NEW size \in Int
    PROVE  PageSize(size) \in 1 .. MaxPageSize
  BY DEF PageSize, MaxPageSize, DefaultPageSize

\* A size within the bounds is not zero.
LEMMA SizeNat ==
    ASSUME NEW size \in 1 .. MaxPageSize
    PROVE  size \in Nat \ {0}
  BY DEF MaxPageSize

\* The place the client has come to is a number.
LEMMA ThroughType ==
    ASSUME ListType, WalkOK, Walking
    PROVE  Through \in Int
  <1>1. walk \in WalkSet /\ walk.size \in 1 .. MaxPageSize
    BY Zenon DEF ListType, WalkOK
  <1>2. walk.size \in Int /\ walk.page \in Int /\ walk.asked - 1 \in Int
    BY <1>1, SizeNat DEF WalkSet
  <1>3. walk.page * walk.size \in Int /\ (walk.asked - 1) * walk.size \in Int
    BY <1>2
  <1> QED BY <1>3, Zenon DEF Through

\* A size within the bounds is used as it is.
LEMMA SizeKept ==
    ASSUME NEW size \in 1 .. MaxPageSize
    PROVE  PageSize(size) = size
  BY DEF PageSize, MaxPageSize, DefaultPageSize

\* The handler counts the list: the first page begins a walk, and its rows are the ones
\* the walk is about.
LEMMA CountKeeps ==
    ASSUME ListInv, Count(Selected)
    PROVE  ListInv'
  <1>1. ListType /\ PresentOK /\ WalkOK /\ walk.pc = "ask" /\ walk.size # NotANumber
    BY DEF ListInv, Count
  <1>2. walk \in WalkSet /\ walk.size \in Int /\ walk.asked \in Nat \ {0}
    BY <1>1 DEF ListType, WalkSet, WalkOK
  <1>3. PICK per \in 1 .. MaxPageSize : per = PageSize(walk.size)
    BY <1>2, SizeOK
  <1>4. PICK n \in Nat : n = Cardinality(Selected)
    BY <1>1, SelectedPresent
  <1>5. PICK F \in SUBSET IDs : F = IF walk.asked = 1 THEN Selected ELSE walk.first
    BY <1>1, <1>2, SelectedPresent DEF WalkSet, Present
  <1>6. /\ walk' = [walk EXCEPT !.pc = "counted", !.size = per, !.count = n, !.first = F]
        /\ dels' = IF walk.asked = 1 THEN 0 ELSE dels
        /\ gone' = 0 /\ late' = 0 /\ UNCHANGED <<table, rows>>
    BY <1>3, <1>4, <1>5 DEF Count
  <1>7. /\ walk' \in WalkSet /\ walk'.pc = "counted" /\ walk'.size = per /\ walk'.count = n
        /\ walk'.first = F /\ walk'.asked = walk.asked /\ walk'.scope = walk.scope
        /\ walk'.seen = walk.seen
    <2>1. per \in Int \cup {NotANumber}
      BY DEF MaxPageSize
    <2>2. [walk EXCEPT !.pc = "counted", !.size = per, !.count = n, !.first = F] \in WalkSet
      BY <1>2, <2>1, Zenon DEF WalkSet
    <2>3. /\ walk'.pc = "counted" /\ walk'.size = per /\ walk'.count = n
          /\ walk'.first = F /\ walk'.asked = walk.asked /\ walk'.scope = walk.scope
          /\ walk'.seen = walk.seen
      BY <1>2, <1>6, Zenon DEF WalkSet
    <2> QED BY <1>6, <2>2, <2>3
  <1>8. Selected' = Selected /\ Present' = Present
    BY <1>1, <1>6, <1>7, SelectedSame
  <1>9. ListType'
    BY <1>1, <1>6, <1>7 DEF ListType, IDs, RowSet
  <1>10. PresentOK'
    BY <1>1, <1>5, <1>7, <1>8, SelectedPresent DEF PresentOK
  <1>11. Cardinality(Missed)' <= dels'
    <2>1. CASE walk.asked = 1
      <3>1. Through' = 0
        BY <1>3, <1>7, <2>1 DEF Through, Answered, MaxPageSize
      <3>2. ASSUME NEW i PROVE Rank(Selected', i) \in Nat
        BY <1>1, <1>8, SelectedPresent, RankType
      <3>3. Missed' = {}
        BY <3>1, <3>2 DEF Missed
      <3> QED BY <1>6, <2>1, <3>3, FS_EmptySet
    <2>2. CASE walk.asked # 1
      <3>1. Walking /\ per = walk.size
        <4>1. walk.asked > 1
          BY <1>2, <2>2
        <4>2. Walking
          BY <1>1, <4>1, Zenon DEF Walking
        <4>3. walk.size \in 1 .. MaxPageSize
          BY <1>1, <4>2, Zenon DEF WalkOK
        <4> QED BY <1>3, <4>2, <4>3, SizeKept
      <3>2. Through' = Through /\ Unseen' = Unseen
        BY <1>1, <1>5, <1>7, <1>8, <2>2, <3>1 DEF Through, Answered, Unseen
      <3>3. Missed' = Missed
        BY <1>8, <3>2 DEF Missed
      <3> QED BY <1>1, <1>6, <2>2, <3>1, <3>3 DEF WalkOK
    <2> QED BY <2>1, <2>2
  <1>12. Cardinality(Selected') <= walk'.count + late'
    BY <1>4, <1>6, <1>7, <1>8
  <1>13. WalkOK'
    BY <1>2, <1>7, <1>11, <1>12 DEF WalkOK, Walking
  <1> QED BY <1>9, <1>10, <1>13 DEF ListInv

\* More pages are more rows, by the size of a page for each.
LEMMA PagesOfRows ==
    ASSUME NEW a \in Nat, NEW b \in Nat, NEW size \in Nat, a <= b
    PROVE  /\ a * size \in Nat /\ b * size \in Nat /\ a * size <= b * size
           /\ (a + 1) * size = a * size + size
  <1>1. PICK d \in Nat : b = a + d
    <2>1. b - a \in Nat /\ b = a + (b - a)
      OBVIOUS
    <2> QED BY <2>1
  <1>2. a * size \in Nat /\ d * size \in Nat
    OBVIOUS
  <1>3. b * size = a * size + d * size
    BY <1>1
  <1>4. (a + 1) * size = a * size + size
    OBVIOUS
  <1> QED BY <1>2, <1>3, <1>4

\* The handler reads the page: what the client still misses of it was missed before.
LEMMA ListKeeps ==
    ASSUME ListInv, List(Selected)
    PROVE  ListInv'
  <1>1. ListType /\ PresentOK /\ WalkOK /\ walk.pc = "counted"
    BY DEF ListInv, List
  <1>2. walk \in WalkSet /\ walk.asked \in Nat \ {0} /\ walk.count \in Nat
        /\ walk.size \in 1 .. MaxPageSize
    <2>1. walk \in WalkSet
      BY <1>1, Zenon DEF ListType
    <2>2. walk.asked \in Nat /\ walk.count \in Nat
      BY <2>1 DEF WalkSet
    <2>3. walk.asked > 0
      BY <1>1, Zenon DEF WalkOK
    <2>4. Walking
      BY <1>1, Zenon DEF Walking
    <2>5. walk.size \in 1 .. MaxPageSize
      BY <1>1, <2>4, Zenon DEF WalkOK
    <2>6. walk.asked \in Nat \ {0}
      BY <2>2, <2>3
    <2> QED BY <2>1, <2>2, <2>5, <2>6, Zenon
  <1>3. walk.size \in Nat \ {0}
    BY <1>2, SizeNat, Zenon
  <1>4. PICK page \in Nat \ {0} : page = Page(walk.asked, walk.count, walk.size)
                                  /\ page <= walk.asked
    BY <1>2, <1>3, PageBound
  <1>5. PICK nums \in Nat : nums = PageNums(walk.count, walk.size)
    BY <1>2, <1>3, PageNumsBound
  <1>6. PICK data : data = Limit(Selected, Offset(page, walk.size), walk.size)
    OBVIOUS
  <1>7. data \in SUBSET IDs /\ walk.seen \cup data \in SUBSET IDs
    BY <1>1, <1>2, <1>6, SelectedPresent DEF Limit, Present, WalkSet
  <1>8. PICK seen \in SUBSET IDs : seen = walk.seen \cup data
    BY <1>7
  <1>9. /\ walk' = [walk EXCEPT !.pc = "answered", !.page = page, !.pages = nums,
                                !.data = data, !.seen = seen]
        /\ UNCHANGED <<table, rows, dels, gone, late>>
    BY <1>4, <1>5, <1>6, <1>8 DEF List, NewPage
  <1>10. /\ walk' \in WalkSet /\ walk'.pc = "answered" /\ walk'.page = page
         /\ walk'.pages = nums /\ walk'.seen = seen /\ walk'.scope = walk.scope
         /\ walk'.size = walk.size /\ walk'.count = walk.count /\ walk'.first = walk.first
    <2>1. page \in Nat
      OBVIOUS
    <2>2. [walk EXCEPT !.pc = "answered", !.page = page, !.pages = nums,
                       !.data = data, !.seen = seen] \in WalkSet
      BY <1>2, <1>7, <2>1, Zenon DEF WalkSet
    <2>3. /\ walk'.pc = "answered" /\ walk'.page = page
          /\ walk'.pages = nums /\ walk'.seen = seen /\ walk'.scope = walk.scope
          /\ walk'.size = walk.size /\ walk'.count = walk.count /\ walk'.first = walk.first
      BY <1>2, <1>9, Zenon DEF WalkSet
    <2> QED BY <1>9, <2>2, <2>3
  <1>11. Selected' = Selected /\ Present' = Present
    BY <1>1, <1>9, <1>10, SelectedSame
  <1>12. ListType' /\ PresentOK'
    BY <1>1, <1>9, <1>10, <1>11 DEF ListType, PresentOK, IDs, RowSet
  <1>13. Missed' \in SUBSET Missed
    <2>1. /\ (page - 1) * walk.size \in Nat
          /\ (page - 1) * walk.size <= Through
          /\ Through' = (page - 1) * walk.size + walk.size
      <3>1. page - 1 \in Nat /\ walk.asked - 1 \in Nat /\ page - 1 <= walk.asked - 1
            /\ page - 1 + 1 = page /\ walk.size \in Nat
        BY <1>2, <1>3, <1>4
      <3>2. Through = (walk.asked - 1) * walk.size /\ Through' = page * walk.size
        BY <1>1, <1>10 DEF Through, Answered
      <3> QED BY <3>1, <3>2, PagesOfRows
    <2>2. ASSUME NEW i \in Missed' PROVE i \in Missed
      <3>1. i \in Unseen /\ i \in Selected /\ i \notin data /\ Rank(Selected, i) < Through'
        BY <1>8, <1>10, <1>11, <2>2 DEF Missed, Unseen
      <3>2. Rank(Selected, i) \in Nat
        BY <1>1, SelectedPresent, RankType
      <3>3. Rank(Selected, i) \notin
               (page - 1) * walk.size .. (page - 1) * walk.size + walk.size - 1
        BY <1>6, <3>1 DEF Limit, Offset, Rank
      <3>4. Rank(Selected, i) < (page - 1) * walk.size
        BY <1>3, <2>1, <3>1, <3>2, <3>3
      <3>5. Through \in Int
        BY <1>1, <1>2, <1>3 DEF Through, Answered
      <3>6. Rank(Selected, i) < Through
        BY <2>1, <3>2, <3>4, <3>5
      <3> QED BY <3>1, <3>6 DEF Missed
    <2> QED BY <2>2
  <1>14. Cardinality(Missed') <= dels'
    <2>1. IsFiniteSet(Missed) /\ Cardinality(Missed) \in Nat /\ Cardinality(Missed) <= dels
      BY <1>1, MissedFinite DEF WalkOK, Walking
    <2>2. IsFiniteSet(Missed') /\ Cardinality(Missed') <= Cardinality(Missed)
          /\ Cardinality(Missed') \in Nat
      BY <1>13, <2>1, FS_Subset, FS_CardinalityType
    <2> QED BY <1>1, <1>9, <2>1, <2>2 DEF ListType
  <1>15. Cardinality(Selected') <= walk'.count + late'
    BY <1>1, <1>9, <1>10, <1>11 DEF WalkOK
  <1>16. walk'.pages = PageNums(walk'.count, walk'.size)
    BY <1>5, <1>10
  <1>17. WalkOK'
    <2>1. walk'.pc = "answered" /\ walk'.size \in 1 .. MaxPageSize
      BY <1>2, <1>10
    <2>2. (walk.pc \in {"ask", "counted"} => walk.asked > 0)'
      BY <2>1
    <2>3. (Walking => /\ walk.size \in 1 .. MaxPageSize
                      /\ Cardinality(Missed) <= dels)'
      BY <1>14, <2>1
    <2>4. (walk.pc = "done" => walk.count <= Through)'
      BY <2>1
    <2> QED BY <1>15, <1>16, <2>2, <2>3, <2>4, Zenon DEF WalkOK
  <1> QED BY <1>12, <1>17 DEF ListInv

\* The client asks for the next page, or has been through all pages that were counted.
LEMMA NextPageKeeps ==
    ASSUME ListInv, NextPage
    PROVE  ListInv'
  <1>1. ListType /\ PresentOK /\ WalkOK /\ walk.pc = "answered"
        /\ UNCHANGED <<table, rows, dels, gone, late>>
    BY DEF ListInv, NextPage
  <1>2. walk \in WalkSet /\ walk.page \in Nat /\ walk.pages \in Nat /\ walk.count \in Nat
        /\ walk.size \in 1 .. MaxPageSize
    <2>1. walk \in WalkSet
      BY <1>1, Zenon DEF ListType
    <2>2. walk.page \in Nat /\ walk.pages \in Nat /\ walk.count \in Nat
      BY <2>1 DEF WalkSet
    <2>3. Walking
      BY <1>1, Zenon DEF Walking
    <2>4. walk.size \in 1 .. MaxPageSize
      BY <1>1, <2>3, Zenon DEF WalkOK
    <2> QED BY <2>1, <2>2, <2>4
  <1>3. walk.size \in Nat \ {0}
    BY <1>2, SizeNat, Zenon
  <1>4. CASE walk.page < walk.pages
    <2>1. PICK p \in Nat : p = walk.page + 1
      BY <1>2
    <2>2. walk' = [walk EXCEPT !.pc = "ask", !.asked = p, !.data = {}]
      BY <1>4, <2>1 DEF NextPage
    <2>3. /\ walk' \in WalkSet /\ walk'.pc = "ask" /\ walk'.asked = p
          /\ walk'.seen = walk.seen /\ walk'.scope = walk.scope
          /\ walk'.size = walk.size /\ walk'.count = walk.count /\ walk'.first = walk.first
      <3>1. {} \in SUBSET IDs
        OBVIOUS
      <3>2. [walk EXCEPT !.pc = "ask", !.asked = p, !.data = {}] \in WalkSet
        BY <1>2, <3>1, Zenon DEF WalkSet
      <3>3. /\ walk'.pc = "ask" /\ walk'.asked = p
            /\ walk'.seen = walk.seen /\ walk'.scope = walk.scope
            /\ walk'.size = walk.size /\ walk'.count = walk.count /\ walk'.first = walk.first
        BY <1>2, <2>2, Zenon DEF WalkSet
      <3> QED BY <2>2, <3>2, <3>3
    <2>4. Selected' = Selected /\ Present' = Present
      BY <1>1, <2>3, SelectedSame
    <2>5. ListType' /\ PresentOK'
      BY <1>1, <2>3, <2>4 DEF ListType, PresentOK, IDs, RowSet
    <2>6. Through' = Through /\ Unseen' = Unseen
      BY <1>1, <1>2, <2>1, <2>3, <2>4 DEF Through, Answered, Unseen
    <2>7. Cardinality(Missed') <= dels'
      BY <1>1, <2>4, <2>6 DEF WalkOK, Walking, Missed
    <2>8. WalkOK'
      BY <1>2, <2>1, <2>3, <2>7 DEF WalkOK, Walking
    <2> QED BY <2>5, <2>8 DEF ListInv
  <1>5. CASE ~(walk.page < walk.pages)
    <2>1. walk' = [walk EXCEPT !.pc = "done"]
      BY <1>5 DEF NextPage
    <2>2. /\ walk' \in WalkSet /\ walk'.pc = "done" /\ walk'.page = walk.page
          /\ walk'.seen = walk.seen /\ walk'.scope = walk.scope
          /\ walk'.size = walk.size /\ walk'.count = walk.count /\ walk'.first = walk.first
      BY <1>2, <2>1 DEF WalkSet
    <2>3. Selected' = Selected /\ Present' = Present
      BY <1>1, <2>2, SelectedSame
    <2>4. ListType' /\ PresentOK'
      BY <1>1, <2>2, <2>3 DEF ListType, PresentOK, IDs, RowSet
    <2>5. Through' = Through /\ Unseen' = Unseen
      BY <1>1, <2>2, <2>3 DEF Through, Answered, Unseen
    <2>6. Cardinality(Missed') <= dels'
      BY <1>1, <2>3, <2>5 DEF WalkOK, Walking, Missed
    <2>7. walk.count <= Through
      <3>1. walk.pages <= walk.page /\ walk.size \in Nat
        BY <1>2, <1>3, <1>5
      <3>2. walk.pages * walk.size <= walk.page * walk.size
            /\ walk.pages * walk.size \in Nat /\ walk.page * walk.size \in Nat
        BY <1>2, <3>1, PagesOfRows
      <3>3. walk.count <= walk.pages * walk.size
        BY <1>1, <1>2, <1>3, PageNumsBound DEF WalkOK
      <3>4. Through = walk.page * walk.size
        BY <1>1 DEF Through, Answered
      <3> QED BY <1>2, <3>2, <3>3, <3>4
    <2>8. Cardinality(Selected') <= walk'.count + late'
      BY <1>1, <2>2, <2>3 DEF WalkOK
    <2>9. WalkOK'
      BY <1>2, <2>2, <2>5, <2>6, <2>7, <2>8 DEF WalkOK, Walking
    <2> QED BY <2>4, <2>9 DEF ListInv
  <1> QED BY <1>4, <1>5

\* A row is inserted: it is newer than all others, so nobody's place moves to the front.
LEMMA InsertKeeps ==
    ASSUME ListInv, NEW scope \in Scopes, Insert(scope)
    PROVE  ListInv'
  <1>1. ListType /\ PresentOK /\ WalkOK
    BY DEF ListInv
  <1>2. PICK n \in Nat : n = Cardinality(Present)
    BY <1>1, SelectedPresent
  <1>3. PICK i \in IDs : i = n + 1
    BY <1>2 DEF Insert, Present
  <1>4. PICK v : v = 1 + Cardinality({j \in IDs : rows[j].scope = scope})
    OBVIOUS
  <1>5. PICK r : r = [scope |-> scope, status |-> "", version |-> v]
    OBVIOUS
  <1>6. /\ rows' = [rows EXCEPT ![i] = r]
        /\ UNCHANGED <<table, walk, dels, gone>>
        /\ late' = late + Cardinality(Selected' \ Selected)
    BY <1>2, <1>3, <1>4, <1>5, Zenon DEF Insert, Present
  <1>7. r \in RowSet
    <2>1. ASSUME NEW j \in {k \in IDs : rows[k].scope = scope} PROVE j \in Present
      <3>1. AbsentRow.scope \notin Scopes
        BY ListingAssumption DEF AbsentRow
      <3> QED BY <3>1 DEF Present
    <2>2. Cardinality({k \in IDs : rows[k].scope = scope}) \in 0 .. n
      <3>1. {k \in IDs : rows[k].scope = scope} \in SUBSET Present
        BY <2>1
      <3> QED BY <1>1, <1>2, <3>1, SelectedPresent, FS_Subset, FS_CardinalityType
    <2>3. v \in 0 .. MaxRows
      BY <1>3, <1>4, <2>2, ListingAssumption DEF IDs
    <2> QED BY <1>5, <2>3 DEF RowSet
  <1>8. rows \in [IDs -> RowSet] /\ rows' \in [IDs -> RowSet] /\ rows'[i] = r
        /\ \A j \in IDs : j # i => rows'[j] = rows[j]
    BY <1>1, <1>6, <1>7 DEF ListType
  <1>9. i \notin Present /\ Present' = Present \cup {i} /\ Present = 1 .. n
    <2>1. r.status # AbsentRow.status
      BY <1>5 DEF AbsentRow
    <2>2. r # AbsentRow
      BY <2>1
    <2>3. Present = 1 .. n /\ i \notin Present
      BY <1>1, <1>2, <1>3 DEF PresentOK
    <2>4. \A j \in IDs : rows'[j] # AbsentRow <=> j = i \/ rows[j] # AbsentRow
      BY <1>8, <2>2
    <2>5. Present' = {j \in IDs : rows'[j] # AbsentRow}
      BY DEF Present, IDs, AbsentRow
    <2>6. Present = {j \in IDs : rows[j] # AbsentRow}
      BY DEF Present
    <2> HIDE DEF Present
    <2> QED BY <2>3, <2>4, <2>5, <2>6
  <1>10. Present' = 1 .. n + 1 /\ Cardinality(Present') = n + 1
    <2>1. Present' = 1 .. n + 1
      BY <1>3, <1>9
    <2> QED BY <2>1, FS_Interval
  <1>11. PresentOK'
    BY <1>1, <1>6, <1>9, <1>10 DEF PresentOK
  <1>12. Selected' = Selected \/ Selected' = Selected \cup {i}
    <2>1. Selected = {j \in IDs : rows[j].status = "" /\ Match(rows[j])}
      BY <1>1, SelectedRows DEF ListType
    <2>3. Selected' = {j \in IDs : rows'[j].status = "" /\ Match(rows[j])'}
      BY <1>1, <1>6, SelectedRowsNext DEF ListType
    <2>4. \A j \in IDs : j # i => (Match(rows[j])' <=> Match(rows[j]))
      BY <1>6, <1>8 DEF Match
    <2>5. \A j \in IDs : j # i => (j \in Selected' <=> j \in Selected)
      BY <1>8, <2>1, <2>3, <2>4
    <2>6. i \notin Selected /\ Selected \in SUBSET IDs /\ Selected' \in SUBSET IDs
      BY <1>1, <1>9, <2>1, <2>3, SelectedPresent
    <2> HIDE DEF Selected
    <2> QED BY <2>5, <2>6
  <1>13. i \notin Selected /\ Selected \in SUBSET Int /\ IsFiniteSet(Selected)
         /\ Cardinality(Selected) \in Nat /\ i \in Int
    BY <1>1, <1>3, <1>9, SelectedPresent
  <1>14. PICK S : S = Selected
    OBVIOUS
  <1>15. late' \in Nat /\ Cardinality(Selected') <= Cardinality(Selected) + (late' - late)
    <2>1. late \in Nat
      BY <1>1 DEF ListType
    <2>2. CASE Selected' = Selected
      <3>1. Cardinality(Selected' \ Selected) = 0
        BY <2>2, FS_EmptySet
      <3> QED BY <1>6, <1>13, <2>1, <2>2, <3>1
    <2>3. CASE Selected' = Selected \cup {i}
      <3>1. Selected' \ Selected = {i}
        BY <1>13, <2>3
      <3>2. Cardinality(Selected' \ Selected) = 1
        BY <3>1, FS_Singleton
      <3>3. Cardinality(Selected') = Cardinality(Selected) + 1
        BY <1>13, <2>3, FS_AddElement
      <3> QED BY <1>6, <1>13, <2>1, <3>2, <3>3
    <2> QED BY <1>12, <2>2, <2>3
  <1>16. ListType'
    BY <1>1, <1>6, <1>8, <1>15 DEF ListType, IDs, RowSet
  <1>17. walk' = walk /\ Unseen' = Unseen /\ Through' = Through /\ Walking' = Walking
    <2>1. walk.first \in SUBSET Present
      BY <1>1 DEF PresentOK
    <2>2. walk.first \cap Selected' = walk.first \cap Selected
      BY <1>9, <1>12, <2>1
    <2> QED BY <1>6, <2>2 DEF Unseen, Through, Answered, Walking
  <1>18. ASSUME Walking PROVE Cardinality(Missed') <= dels
    <2>1. Through \in Int
      BY <1>1, <1>18, ThroughType
    <2>2. Unseen \in SUBSET Selected
      BY DEF Unseen
    <2>3. Cardinality(Missed) <= dels /\ dels \in Nat /\ Cardinality(Missed) \in Nat
      BY <1>1, <1>18, MissedFinite DEF WalkOK, ListType
    <2>4. Missed' = {j \in Unseen : Rank(Selected', j) < Through}
      BY <1>17 DEF Missed
    <2>5. CASE Selected' = Selected
      BY <2>3, <2>4, <2>5 DEF Missed
    <2>6. CASE Selected' = Selected \cup {i}
      <3>1. Cardinality(Missed') <= Cardinality(Missed)
        <4>1. Cardinality({j \in Unseen : Rank(Selected \cup {i}, j) < Through})
                 <= Cardinality({j \in Unseen : Rank(Selected, j) < Through})
          BY <1>13, <2>1, <2>2, RankInsert
        <4>2. Missed' = {j \in Unseen : Rank(Selected \cup {i}, j) < Through}
          BY <2>4, <2>6
        <4> QED BY <4>1, <4>2 DEF Missed
      <3>2. Cardinality(Missed') \in Nat
        <4>1. Missed' \in SUBSET Selected
          BY <2>2, <2>4
        <4> QED BY <1>13, <4>1, FS_Subset, FS_CardinalityType
      <3> QED BY <2>3, <3>1, <3>2
    <2> QED BY <1>12, <2>5, <2>6
  <1>19. walk.pc \in {"counted", "answered", "done"} =>
            Cardinality(Selected') <= walk.count + late'
    <2>1. late \in Nat /\ walk.count \in Nat
      BY <1>1 DEF ListType, WalkSet
    <2>2. Cardinality(Selected') \in Nat
      BY <1>12, <1>13, FS_AddElement, FS_CardinalityType
    <2> QED BY <1>1, <1>13, <1>15, <2>1, <2>2 DEF WalkOK
  <1>20. WalkOK'
    BY <1>1, <1>6, <1>17, <1>18, <1>19 DEF WalkOK
  <1> QED BY <1>11, <1>16, <1>20 DEF ListInv

\* A row is deleted: if it is of the list the client may miss one row more.
LEMMA RemoveKeeps ==
    ASSUME ListInv, NEW i \in IDs, Remove(i)
    PROVE  ListInv'
  <1>1. ListType /\ PresentOK /\ WalkOK
    BY DEF ListInv
  <1>2. /\ rows[i].status = "" /\ rows' = [rows EXCEPT ![i].status = "deleted"]
        /\ UNCHANGED <<table, walk, late>>
        /\ dels' = dels + Cardinality(Selected \ Selected')
        /\ gone' = gone + Cardinality(Selected \ Selected')
    BY DEF Remove
  <1>3. PICK r : r = [rows[i] EXCEPT !.status = "deleted"]
    OBVIOUS
  <1>4. rows[i] \in RowSet /\ r \in RowSet /\ r.status = "deleted"
    BY <1>1, <1>3 DEF ListType, RowSet
  <1>5. rows' \in [IDs -> RowSet] /\ rows'[i] = r /\ rows \in [IDs -> RowSet]
        /\ \A j \in IDs : j # i => rows'[j] = rows[j]
    BY <1>1, <1>2, <1>3, <1>4 DEF ListType
  <1>6. Present' = Present
    <2>1. AbsentRow.status = "absent"
      BY DEF AbsentRow
    <2>2. \A j \in IDs : rows'[j] # AbsentRow <=> rows[j] # AbsentRow
      BY <1>2, <1>4, <1>5, <2>1
    <2>3. Present' = {j \in IDs : rows'[j] # AbsentRow}
      BY DEF Present, IDs, AbsentRow
    <2> QED BY <2>2, <2>3 DEF Present
  <1>7. Selected' = Selected \ {i}
    <2>1. Selected = {j \in IDs : rows[j].status = "" /\ Match(rows[j])}
      BY <1>1, SelectedRows DEF ListType
    <2>3. Selected' = {j \in IDs : rows'[j].status = "" /\ Match(rows[j])'}
      BY <1>1, <1>2, SelectedRowsNext DEF ListType
    <2>4. \A j \in IDs : j # i => (Match(rows[j])' <=> Match(rows[j]))
      BY <1>2, <1>5 DEF Match
    <2>5. \A j \in IDs : j # i => (j \in Selected' <=> j \in Selected)
      BY <1>5, <2>1, <2>3, <2>4
    <2>6. i \notin Selected' /\ Selected \in SUBSET IDs /\ Selected' \in SUBSET IDs
      BY <1>4, <1>5, <2>1, <2>3
    <2> HIDE DEF Selected
    <2> QED BY <2>5, <2>6
  <1>8. Selected \in SUBSET Int /\ IsFiniteSet(Selected) /\ Cardinality(Selected) \in Nat
    BY <1>1, SelectedPresent
  <1>9. PICK k \in {0, 1} : k = Cardinality(Selected \ Selected')
                            /\ (Selected' = Selected \/ k = 1)
    <2>1. CASE i \in Selected
      <3>1. Selected \ Selected' = {i}
        BY <1>7, <2>1
      <3> QED BY <3>1, FS_Singleton
    <2>2. CASE i \notin Selected
      <3>1. Selected \ Selected' = {} /\ Selected' = Selected
        BY <1>7, <2>2
      <3> QED BY <3>1, FS_EmptySet
    <2> QED BY <2>1, <2>2
  <1>10. dels' = dels + k /\ gone' = gone + k /\ walk' = walk /\ late' = late
         /\ table' = table /\ dels \in Nat /\ gone \in Nat /\ late \in Nat
    BY <1>1, <1>2, <1>9 DEF ListType
  <1>11. ListType' /\ PresentOK'
    <2>1. dels' \in Nat /\ gone' \in Nat /\ late' \in Nat
      BY <1>10
    <2>2. ListType'
      BY <1>1, <1>5, <1>10, <2>1 DEF ListType, WalkSet, IDs, RowSet
    <2> QED BY <1>1, <1>6, <1>10, <2>2 DEF PresentOK
  <1>12. Cardinality(Selected') \in Nat /\ Cardinality(Selected') <= Cardinality(Selected)
    <2>1. Selected' \in SUBSET Selected
      BY <1>7
    <2> QED BY <1>8, <2>1, FS_Subset, FS_CardinalityType
  <1>13. walk' = walk /\ Unseen' \in SUBSET Unseen /\ Through' = Through /\ Walking' = Walking
    BY <1>2, <1>7 DEF Unseen, Through, Answered, Walking
  <1>14. ASSUME Walking PROVE Cardinality(Missed') <= dels'
    <2>1. Through \in Int
      BY <1>1, <1>14, ThroughType
    <2>2. Unseen \in SUBSET Selected
      BY DEF Unseen
    <2>3. Cardinality(Missed) <= dels /\ dels \in Nat /\ Cardinality(Missed) \in Nat
      BY <1>1, <1>14, MissedFinite DEF WalkOK, ListType
    <2>4. Missed' = {j \in Unseen' : Rank(Selected', j) < Through}
      BY <1>13 DEF Missed
    <2>5. Missed' \in SUBSET Selected
      BY <1>13, <2>2, <2>4
    <2>6. Cardinality(Missed') \in Nat
      BY <1>8, <2>5, FS_Subset, FS_CardinalityType
    <2>7. CASE Selected' = Selected
      <3>1. Missed' \in SUBSET Missed
        BY <1>13, <2>4, <2>7 DEF Missed
      <3>2. Cardinality(Missed') <= Cardinality(Missed)
        BY <1>1, <3>1, MissedFinite, FS_Subset
      <3> QED BY <1>10, <2>3, <2>6, <3>2
    <2>8. CASE k = 1
      <3>1. Cardinality(Missed') <= Cardinality(Missed) + 1
        <4>1. PICK V \in SUBSET Unseen : V = Unseen'
          BY <1>13
        <4>2. Cardinality({j \in V : Rank(Selected \ {i}, j) < Through})
                 <= Cardinality({j \in Unseen : Rank(Selected, j) < Through}) + 1
          <5>1. \A S \in SUBSET Int : IsFiniteSet(S) =>
                   \A U \in SUBSET S : \A W \in SUBSET U : \A d : \A m \in Int :
                      Cardinality({j \in W : Rank(S \ {d}, j) < m})
                         <= Cardinality({j \in U : Rank(S, j) < m}) + 1
            BY RankRemove
          <5>2. \A U \in SUBSET Selected : \A W \in SUBSET U : \A d : \A m \in Int :
                   Cardinality({j \in W : Rank(Selected \ {d}, j) < m})
                      <= Cardinality({j \in U : Rank(Selected, j) < m}) + 1
            BY <1>8, <5>1
          <5>3. \A W \in SUBSET Unseen : \A d : \A m \in Int :
                   Cardinality({j \in W : Rank(Selected \ {d}, j) < m})
                      <= Cardinality({j \in Unseen : Rank(Selected, j) < m}) + 1
            BY <2>2, <5>2
          <5>4. \A d : Cardinality({j \in V : Rank(Selected \ {d}, j) < Through})
                      <= Cardinality({j \in Unseen : Rank(Selected, j) < Through}) + 1
            BY <2>1, <5>3
          <5> QED BY <5>4
        <4>3. Missed' = {j \in V : Rank(Selected \ {i}, j) < Through}
          BY <1>7, <2>4, <4>1
        <4> QED BY <4>2, <4>3 DEF Missed
      <3> QED BY <1>10, <2>3, <2>6, <2>8, <3>1
    <2> QED BY <1>9, <2>7, <2>8
  <1>15. walk.pc \in {"counted", "answered", "done"} =>
            Cardinality(Selected') <= walk.count + late'
    <2>1. late \in Nat /\ walk.count \in Nat
      BY <1>1 DEF ListType, WalkSet
    <2> QED BY <1>1, <1>8, <1>12, <1>10, <2>1 DEF WalkOK
  <1>16. WalkOK'
    BY <1>1, <1>13, <1>14, <1>15 DEF WalkOK
  <1> QED BY <1>11, <1>16 DEF ListInv

-----------------------------------------------------------------------------
\* Inserts, deletes and the walk of a client keep the invariant.
THEOREM ListingInvariant == ListSpec => []ListInv
  <1>1. ASSUME ListInv, [ListNext]_listVars PROVE ListInv'
    <2>1. CASE UNCHANGED listVars
      <3>1. UNCHANGED <<table, rows, walk, dels, gone, late>>
        BY <2>1 DEF listVars
      <3>2. ListType /\ Selected' = Selected /\ Present' = Present
        BY <1>1, <3>1, SelectedSame DEF ListInv
      <3>3. ListType' /\ PresentOK'
        BY <1>1, <3>1, <3>2 DEF ListInv, ListType, PresentOK, IDs, RowSet
      <3>4. Missed' = Missed /\ Walking' = Walking /\ Through' = Through
        BY <3>1, <3>2 DEF Missed, Unseen, Through, Answered, Walking
      <3>5. WalkOK'
        BY <1>1, <3>1, <3>2, <3>4 DEF ListInv, WalkOK
      <3> QED BY <3>3, <3>5 DEF ListInv
    <2>2. CASE Handlers
      BY <1>1, <2>2, HandlerLists, CountKeeps, ListKeeps
    <2>3. CASE Client
      BY <1>1, <2>3, AskKeeps, NextPageKeeps DEF Client
    <2>4. CASE Others
      BY <1>1, <2>4, InsertKeeps, RemoveKeeps
         DEF Others, addAppInfo, addApp, addCluster, deleteAppInfo, deleteApp,
             deleteCluster, Record
    <2> QED BY <1>1, <2>1, <2>2, <2>3, <2>4, RefuseKeeps DEF ListNext
  <1>2. ListInv /\ [ListNext]_listVars => ListInv'
    BY <1>1
  <1> QED BY <1>2, ListInitOK, PTL DEF ListSpec

\* WalkMisses: the rows a client that walked all pages missed, of those that were there
\* all the time, are at most as many as were deleted since the first page and inserted
\* between the last count and its list.  They lie before the place it has come to, or
\* behind the last page, which the count has made too early.
THEOREM WalkMissesHolds == ListSpec => []WalkMisses
  <1>1. ASSUME ListInv, walk.pc = "done"
        PROVE  Cardinality(Unseen) <= dels + late
    <2>1. ListType /\ WalkOK
      BY <1>1 DEF ListInv
    <2>2. /\ Selected \in SUBSET Int /\ IsFiniteSet(Selected) /\ Cardinality(Selected) \in Nat
          /\ walk.count \in Nat /\ dels \in Nat /\ late \in Nat
      BY <2>1, SelectedPresent DEF ListType, WalkSet
    <2>3. Through \in Nat
      BY <1>1, <2>1 DEF ListType, WalkSet, WalkOK, Walking, Through, Answered, MaxPageSize
    <2>4. Cardinality(Selected) <= Through + late
      BY <1>1, <2>1, <2>2, <2>3 DEF WalkOK
    <2> DEFINE Behind == {i \in Selected : Rank(Selected, i) >= Through}
    <2>5. Cardinality(Behind) <= late
      BY <2>2, <2>3, <2>4, RankBehind
    <2>6. IsFiniteSet(Behind) /\ Cardinality(Behind) \in Nat
      BY <2>2, FS_Subset, FS_CardinalityType
    <2>7. IsFiniteSet(Missed) /\ Cardinality(Missed) \in Nat /\ Cardinality(Missed) <= dels
      BY <1>1, <2>1, MissedFinite DEF WalkOK, Walking
    <2>8. ASSUME NEW i \in Unseen PROVE i \in Missed \cup Behind
      <3>1. i \in Selected /\ Rank(Selected, i) \in Nat
        BY <2>2, <2>8, RankType DEF Unseen
      <3> QED BY <2>3, <2>8, <3>1 DEF Missed
    <2> HIDE DEF Behind
    <2>9. /\ IsFiniteSet(Missed \cup Behind)
          /\ Cardinality(Missed \cup Behind)
                = Cardinality(Missed) + Cardinality(Behind) - Cardinality(Missed \cap Behind)
      BY <2>6, <2>7, FS_Union
    <2>10. Cardinality(Missed \cap Behind) \in Nat
      <3>1. Missed \cap Behind \in SUBSET Missed
        OBVIOUS
      <3> QED BY <2>7, <3>1, FS_Subset, FS_CardinalityType
    <2>11. Unseen \in SUBSET (Missed \cup Behind)
      BY <2>8
    <2>12. Cardinality(Unseen) <= Cardinality(Missed \cup Behind)
           /\ Cardinality(Unseen) \in Nat
      BY <2>9, <2>11, FS_Subset, FS_CardinalityType
    <2> QED BY <2>2, <2>5, <2>6, <2>7, <2>9, <2>10, <2>12
  <1>2. ListInv => WalkMisses
    BY <1>1 DEF WalkMisses, Unseen
  <1> QED BY <1>2, ListingInvariant, PTL

-----------------------------------------------------------------------------
(* The pages of a list.                                                    *)

\* The invariant for full pages: no more rows than were deleted since are missing from the
\* list that was counted.
FillInv ==
    /\ ListInv /\ PageFilled
    /\ walk.pc = "counted" => walk.count <= Cardinality(Selected) + gone

\* A set of numbers up to m that is not empty has a greatest element.
LEMMA GreatestOf ==
    ASSUME NEW m \in Nat, NEW T \in SUBSET Nat, T # {}, \A y \in T : y <= m
    PROVE  \E x \in T : \A y \in T : y <= x
  <1> DEFINE N == {m - y : y \in T}
  <1>1. N \in SUBSET Nat /\ N # {}
    <2>1. ASSUME NEW y \in T PROVE m - y \in Nat
      OBVIOUS
    <2> QED BY <2>1
  <1>2. PICK z \in N : \A w \in N : z <= w
    BY <1>1, LeastOf
  <1>3. PICK x \in T : z = m - x
    BY <1>2
  <1>4. ASSUME NEW y \in T PROVE y <= x
    <2>1. m - x <= m - y
      BY <1>2, <1>3
    <2> QED BY <2>1
  <1> QED BY <1>4

\* At most m rows have a place before m.
LEMMA RankBefore ==
    ASSUME NEW S \in SUBSET Int, IsFiniteSet(S), NEW m \in Nat
    PROVE  Cardinality({i \in S : Rank(S, i) < m}) <= m
  <1> DEFINE T == {i \in S : Rank(S, i) < m}
  <1>1. IsFiniteSet(T) /\ Cardinality(T) \in Nat
    BY FS_Subset, FS_CardinalityType
  <1>2. CASE T = {}
    BY <1>2, FS_EmptySet
  <1>3. CASE T # {}
    <2> DEFINE N == {Rank(S, i) : i \in T}
    <2>1. N \in SUBSET Nat /\ N # {} /\ \A y \in N : y <= m
      <3>1. ASSUME NEW i \in T PROVE Rank(S, i) \in Nat /\ Rank(S, i) <= m
        <4>1. Rank(S, i) \in Nat
          BY RankType
        <4>2. Rank(S, i) < m
          OBVIOUS
        <4> QED BY <4>1, <4>2
      <3> HIDE DEF T
      <3> QED BY <1>3, <3>1
    <2>2. PICK x \in N : \A y \in N : y <= x
      <3> HIDE DEF N
      <3> QED BY <2>1, GreatestOf
    <2>3. PICK t \in T : x = Rank(S, t)
      BY <2>2
    <2> DEFINE A == {j \in S : j > t}
    <2>4. ASSUME NEW i \in T PROVE i \in A \cup {t}
      <3>1. i \in S /\ t \in S /\ i \in Int /\ t \in Int /\ Rank(S, i) \in Nat
            /\ Rank(S, t) \in Nat /\ Rank(S, i) <= Rank(S, t)
        BY <2>2, <2>3, RankType
      <3>2. ~(i < t)
        BY <3>1, RankDecreases
      <3> QED BY <3>1, <3>2
    <2>5. IsFiniteSet(A) /\ Cardinality(A) \in Nat /\ Cardinality(A) < m /\ t \notin A
      <3>1. Cardinality(A) = Rank(S, t) /\ Rank(S, t) < m
        BY DEF Rank
      <3>2. IsFiniteSet(A) /\ Rank(S, t) \in Nat
        BY RankType
      <3>3. t \notin A
        BY t \in Int
      <3> QED BY <3>1, <3>2, <3>3
    <2> HIDE DEF A, T
    <2>6. IsFiniteSet(A \cup {t}) /\ Cardinality(A \cup {t}) = Cardinality(A) + 1
      BY <2>5, FS_AddElement
    <2>7. Cardinality(T) <= Cardinality(A \cup {t})
      <3>1. T \in SUBSET (A \cup {t})
        BY <2>4
      <3> QED BY <2>6, <3>1, FS_Subset
    <2>8. Cardinality(T) <= m
      BY <1>1, <2>5, <2>6, <2>7
    <2> QED BY <2>8 DEF T
  <1> QED BY <1>2, <1>3

\* LIMIT and OFFSET: the page has the rows there are from the offset on, as far as they fit.
LEMMA LimitFilled ==
    ASSUME NEW S \in SUBSET Int, IsFiniteSet(S), NEW off \in Nat, NEW per \in Nat
    PROVE  /\ IsFiniteSet(Limit(S, off, per)) /\ Cardinality(Limit(S, off, per)) \in Nat
           /\ \/ Cardinality(Limit(S, off, per)) >= per
              \/ Cardinality(Limit(S, off, per)) >= Cardinality(S) - off
  <1> DEFINE L == Limit(S, off, per)
             A == {i \in S : Rank(S, i) < off}
             B == {i \in S : Rank(S, i) >= off + per}
             n == Cardinality(S)
  <1>1. n \in Nat
    BY FS_CardinalityType
  <1>2. L = {i \in S : Rank(S, i) \in off .. off + per - 1}
    BY DEF Limit, Rank
  <1>3. L \in SUBSET S /\ A \in SUBSET S /\ B \in SUBSET S
    BY <1>2
  <1>4. ASSUME NEW i \in S PROVE i \in L \cup A \cup B
    <2>1. Rank(S, i) \in Nat
      BY RankType
    <2> HIDE DEF L
    <2> QED BY <1>2, <2>1
  <1>5. Cardinality(A) <= off
    BY RankBefore
  <1>6. Cardinality(B) <= IF n <= off + per THEN 0 ELSE n - (off + per)
    <2>1. PICK k \in Nat : k = IF n <= off + per THEN 0 ELSE n - (off + per)
      <3>1. (IF n <= off + per THEN 0 ELSE n - (off + per)) \in Nat
        BY <1>1
      <3> QED BY <3>1
    <2>2. n <= off + per + k /\ off + per \in Nat
      BY <1>1, <2>1
    <2>3. Cardinality(B) <= k
      BY <2>2, RankBehind
    <2> QED BY <2>1, <2>3
  <1> HIDE DEF L, A, B, n
  <1>7. /\ IsFiniteSet(L) /\ IsFiniteSet(A) /\ IsFiniteSet(B)
        /\ Cardinality(L) \in Nat /\ Cardinality(A) \in Nat /\ Cardinality(B) \in Nat
    BY <1>3, FS_Subset, FS_CardinalityType
  <1>8. IsFiniteSet(L \cup A) /\ Cardinality(L \cup A) <= Cardinality(L) + Cardinality(A)
        /\ Cardinality(L \cup A) \in Nat
    <2>1. L \cap A \in SUBSET L
      OBVIOUS
    <2>2. Cardinality(L \cap A) \in Nat
      BY <1>7, <2>1, FS_Subset, FS_CardinalityType
    <2>3. IsFiniteSet(L \cup A) /\ Cardinality(L \cup A)
             = Cardinality(L) + Cardinality(A) - Cardinality(L \cap A)
      BY <1>7, FS_Union
    <2> QED BY <1>7, <2>2, <2>3, FS_CardinalityType
  <1>9. IsFiniteSet((L \cup A) \cup B)
        /\ Cardinality((L \cup A) \cup B) <= Cardinality(L \cup A) + Cardinality(B)
        /\ Cardinality((L \cup A) \cup B) \in Nat
    <2>1. (L \cup A) \cap B \in SUBSET B
      OBVIOUS
    <2>2. Cardinality((L \cup A) \cap B) \in Nat
      BY <1>7, <2>1, FS_Subset, FS_CardinalityType
    <2>3. IsFiniteSet((L \cup A) \cup B) /\ Cardinality((L \cup A) \cup B)
             = Cardinality(L \cup A) + Cardinality(B) - Cardinality((L \cup A) \cap B)
      BY <1>7, <1>8, FS_Union
    <2> QED BY <1>7, <1>8, <2>2, <2>3, FS_CardinalityType
  <1>10. n <= Cardinality((L \cup A) \cup B)
    <2>1. S \in SUBSET ((L \cup A) \cup B)
      BY <1>4
    <2> QED BY <1>9, <2>1, FS_Subset DEF n
  <1>11. n <= Cardinality(L) + off + Cardinality(B)
    BY <1>1, <1>5, <1>7, <1>8, <1>9, <1>10
  <1>12. Cardinality(L) >= per \/ Cardinality(L) >= n - off
    BY <1>1, <1>6, <1>7, <1>11
  <1> QED BY <1>7, <1>12 DEF L, n

\* The last page that is counted has at least one row.
LEMMA LastPage ==
    ASSUME NEW n \in Nat \ {0}, NEW per \in Nat \ {0}
    PROVE  PageNums(n, per) \in Nat \ {0} /\ (PageNums(n, per) - 1) * per < n
  BY SMTT(30) DEF PageNums

\* The minimum and the maximum of two numbers.
LEMMA MinMax ==
    ASSUME NEW a \in Int, NEW b \in Int
    PROVE  Min({a, b}) = (IF a <= b THEN a ELSE b) /\ Max({a, b}) = (IF a <= b THEN b ELSE a)
  <1>1. Min({a, b}) \in {a, b} /\ \A y \in {a, b} : Min({a, b}) <= y
    <2>1. \E x \in {a, b} : \A y \in {a, b} : x <= y
      OBVIOUS
    <2> QED BY <2>1 DEF Min
  <1>2. Max({a, b}) \in {a, b} /\ \A y \in {a, b} : Max({a, b}) >= y
    <2>1. \E x \in {a, b} : \A y \in {a, b} : x >= y
      OBVIOUS
    <2> QED BY <2>1 DEF Max
  <1> QED BY <1>1, <1>2

\* What a handler answers is a page that is filled.
LEMMA ListFills ==
    ASSUME FillInv, ListInv', List(Selected)
    PROVE  FillInv'
  <1>1. ListType /\ WalkOK /\ walk.pc = "counted"
        /\ walk.count <= Cardinality(Selected) + gone
    BY DEF FillInv, ListInv, List
  <1>2. /\ walk.asked \in Nat \ {0} /\ walk.count \in Nat /\ walk.size \in Nat \ {0}
        /\ walk \in WalkSet
    BY <1>1 DEF ListType, WalkSet, WalkOK, Walking, MaxPageSize
  <1>3. PICK page \in Nat \ {0} : page = Page(walk.asked, walk.count, walk.size)
    BY <1>2, PageBound
  <1>4. PICK nums \in Nat : nums = PageNums(walk.count, walk.size)
    BY <1>2, PageNumsBound
  <1>5. PICK off \in Nat : off = (page - 1) * walk.size
    <2>1. page - 1 \in Nat /\ walk.size \in Nat
      BY <1>2
    <2>2. (page - 1) * walk.size \in Nat
      BY <2>1, PagesOfRows
    <2> QED BY <2>2
  <1>6. PICK data : data = Limit(Selected, off, walk.size)
    OBVIOUS
  <1>7. /\ walk'.pc = "answered" /\ walk'.page = page /\ walk'.pages = nums
        /\ walk'.data = data /\ walk'.size = walk.size /\ walk'.count = walk.count
    <2>1. walk' = [walk EXCEPT !.pc = "answered", !.page = page, !.pages = nums,
                               !.data = data, !.seen = walk.seen \cup data]
      BY <1>3, <1>4, <1>5, <1>6 DEF List, NewPage, Offset
    <2> QED BY <1>2, <2>1, Zenon DEF WalkSet
  <1>8. gone' = gone
    BY DEF List
  <1>9. page = IF nums = 0 THEN 1 ELSE IF walk.asked <= nums THEN walk.asked ELSE nums
    <2>1. Min({walk.asked, nums}) = IF walk.asked <= nums THEN walk.asked ELSE nums
      BY <1>2, MinMax
    <2> QED BY <1>2, <1>3, <1>4, <2>1 DEF Page
  <1>10. Max({1, nums}) = IF 1 <= nums THEN nums ELSE 1
    <2>1. 1 \in Int /\ nums \in Int
      OBVIOUS
    <2> QED BY <2>1, MinMax
  <1>11. page \in 1 .. Max({1, nums})
    BY <1>2, <1>9, <1>10
  <1>12. PICK c \in Nat : c = Cardinality(data)
    BY <1>1, <1>5, <1>6, <1>2, SelectedPresent, LimitFilled
  <1>13. ASSUME gone = 0
         PROVE  c >= walk.size \/ c >= walk.count - off
    <2>1. walk.count <= Cardinality(Selected) /\ Cardinality(Selected) \in Nat
      BY <1>1, <1>13, SelectedPresent
    <2>2. c >= walk.size \/ c >= Cardinality(Selected) - off
      BY <1>1, <1>2, <1>6, <1>12, SelectedPresent, LimitFilled
    <2> QED BY <1>2, <2>1, <2>2
  <1>14. ASSUME walk.count > 0 PROVE off < walk.count
    <2>1. nums \in Nat \ {0} /\ (nums - 1) * walk.size < walk.count
      BY <1>2, <1>4, <1>14, LastPage
    <2>2. page - 1 \in Nat /\ nums - 1 \in Nat /\ page - 1 <= nums - 1 /\ walk.size \in Nat
      BY <1>2, <1>9, <2>1
    <2>3. off <= (nums - 1) * walk.size /\ (nums - 1) * walk.size \in Nat
      BY <1>5, <2>2, PagesOfRows
    <2> QED BY <1>2, <2>1, <2>3
  <1>15. ASSUME gone = 0, walk.count > 0 PROVE data # {}
    <2>1. c > 0
      BY <1>2, <1>13, <1>14, <1>15
    <2> QED BY <1>12, <2>1, FS_EmptySet
  <1>16. ASSUME gone = 0
         PROVE  c >= Min({walk.size, walk.count - off})
    <2>1. walk.count - off \in Int /\ walk.size \in Int
      BY <1>2
    <2>2. Min({walk.size, walk.count - off})
             = IF walk.size <= walk.count - off THEN walk.size ELSE walk.count - off
      BY <2>1, MinMax
    <2> QED BY <1>2, <1>13, <1>16, <2>1, <2>2
  <1>17. Offset(page, walk.size) = off
    BY <1>5 DEF Offset
  <1>18. PageFilled'
    <2>1. SUFFICES ASSUME walk'.pc = "answered" /\ gone' = 0
                   PROVE  /\ walk'.page \in 1 .. Max({1, walk'.pages})
                          /\ Cardinality(walk'.data)
                                >= Min({walk'.size, walk'.count - Offset(walk'.page, walk'.size)})
                          /\ walk'.count > 0 => walk'.data # {}
      BY DEF PageFilled, Offset
    <2> QED BY <1>7, <1>8, <1>11, <1>12, <1>15, <1>16, <1>17, <2>1
  <1> QED BY <1>7, <1>18 DEF FillInv

\* The other steps of client and handlers: the count is of this moment, and a page that was
\* answered stays as it is.
LEMMA WalkFills ==
    ASSUME FillInv, ListInv', Count(Selected) \/ NextPage \/ Ask \/ Refuse
    PROVE  FillInv'
  <1>1. ListType /\ walk \in WalkSet
    BY DEF FillInv, ListInv, ListType
  <1>2. CASE Count(Selected)
    <2>1. walk.size \in Int /\ walk.pc = "ask"
      BY <1>1, <1>2 DEF Count, WalkSet
    <2>2. PICK per : per = PageSize(walk.size)
      OBVIOUS
    <2>3. PICK F : F = IF walk.asked = 1 THEN Selected ELSE walk.first
      OBVIOUS
    <2>4. /\ walk' = [walk EXCEPT !.pc = "counted", !.size = per,
                                  !.count = Cardinality(Selected), !.first = F]
          /\ UNCHANGED <<table, rows>> /\ gone' = 0
      BY <1>2, <2>2, <2>3 DEF Count
    <2>5. /\ walk'.pc = "counted" /\ walk'.count = Cardinality(Selected)
          /\ walk'.scope = walk.scope
      BY <1>1, <2>4, Zenon DEF WalkSet
    <2>6. Selected' = Selected /\ Cardinality(Selected) \in Nat
      BY <1>1, <2>4, <2>5, SelectedSame, SelectedPresent
    <2> QED BY <2>4, <2>5, <2>6 DEF FillInv, PageFilled
  <1>3. CASE NextPage
    <2>1. walk'.pc \in {"ask", "done"}
      BY <1>1, <1>3 DEF NextPage, WalkSet
    <2> QED BY <2>1 DEF FillInv, PageFilled
  <1>4. CASE Ask
    <2>1. walk'.pc = "ask"
      BY <1>1, <1>4 DEF Ask, WalkSet
    <2> QED BY <2>1 DEF FillInv, PageFilled
  <1>5. CASE Refuse
    <2>1. walk'.pc = "failed"
      BY <1>5 DEF Refuse, NoWalk
    <2> QED BY <2>1 DEF FillInv, PageFilled
  <1> QED BY <1>2, <1>3, <1>4, <1>5

\* Inserts and deletes: rows that were counted are missing from the list only if they were
\* deleted since.
LEMMA OthersFill ==
    ASSUME FillInv, ListInv', Others
    PROVE  FillInv'
  <1>1. ListType /\ PageFilled /\ ListType'
    BY DEF FillInv, ListInv
  <1>2. walk' = walk /\ table' = table
        /\ \/ gone' = gone /\ Selected \in SUBSET Selected'
           \/ gone' = gone + Cardinality(Selected \ Selected')
    <2>1. ASSUME NEW scope \in Scopes, Insert(scope)
          PROVE  /\ walk' = walk /\ table' = table /\ gone' = gone
                 /\ Selected \in SUBSET Selected'
      <3>1. walk' = walk /\ table' = table /\ gone' = gone
        BY <2>1 DEF Insert
      <3>2. PICK i \in IDs : i = Cardinality(Present) + 1
                 /\ \E r : rows' = [rows EXCEPT ![i] = r]
        BY <2>1 DEF Insert, Present
      <3>3. i \notin Present
        BY <3>2, <1>1, SelectedPresent DEF FillInv, ListInv, PresentOK
      <3>4. \A j \in IDs : j # i => rows'[j] = rows[j]
        BY <1>1, <3>2 DEF ListType
      <3>5. Selected = {j \in IDs : rows[j].status = "" /\ Match(rows[j])}
        BY <1>1, SelectedRows DEF ListType
      <3>6. Selected' = {j \in IDs : rows'[j].status = "" /\ Match(rows[j])'}
        BY <1>1, SelectedRowsNext DEF ListType
      <3>7. \A j \in IDs : j # i => (Match(rows[j])' <=> Match(rows[j]))
        BY <3>1, <3>4 DEF Match
      <3>8. \A j \in Selected : j # i /\ j \in IDs
        BY <1>1, <3>3, <3>5, SelectedPresent
      <3>9. \A j \in Selected : j \in Selected'
        BY <3>4, <3>5, <3>6, <3>7, <3>8
      <3> QED BY <3>1, <3>9
    <2>2. ASSUME NEW i \in IDs, Remove(i)
          PROVE  /\ walk' = walk /\ table' = table
                 /\ gone' = gone + Cardinality(Selected \ Selected')
      BY <2>2 DEF Remove
    <2> QED BY <2>1, <2>2 DEF Others, addAppInfo, addApp, addCluster, deleteAppInfo,
                              deleteApp, deleteCluster, Record
  <1>3. /\ IsFiniteSet(Selected) /\ Cardinality(Selected) \in Nat
        /\ IsFiniteSet(Selected') /\ Cardinality(Selected') \in Nat
        /\ gone \in Nat /\ gone' \in Nat /\ walk.count \in Nat
    <2>1. (ListType => IsFiniteSet(Selected) /\ Cardinality(Selected) \in Nat)'
      BY SelectedPresent, PTL
    <2> QED BY <1>1, <2>1, SelectedPresent DEF ListType, WalkSet
  <1>4. /\ IsFiniteSet(Selected \ Selected') /\ Cardinality(Selected \ Selected') \in Nat
        /\ IsFiniteSet(Selected \cap Selected') /\ Cardinality(Selected \cap Selected') \in Nat
        /\ Cardinality(Selected \cap Selected') <= Cardinality(Selected')
    <2>1. /\ Selected \ Selected' \in SUBSET Selected
          /\ Selected \cap Selected' \in SUBSET Selected'
      OBVIOUS
    <2> QED BY <1>3, <2>1, FS_Subset, FS_CardinalityType
  <1>5. Cardinality(Selected)
           <= Cardinality(Selected \ Selected') + Cardinality(Selected \cap Selected')
    <2>1. PICK A : A = Selected \ Selected'
      OBVIOUS
    <2>2. PICK B : B = Selected \cap Selected'
      OBVIOUS
    <2>3. A \cup B = Selected /\ A \cap B = {}
      BY <2>1, <2>2
    <2>4. Cardinality(A \cup B) = Cardinality(A) + Cardinality(B) - Cardinality(A \cap B)
      BY <1>4, <2>1, <2>2, FS_Union
    <2>5. Cardinality(Selected) = Cardinality(A) + Cardinality(B) - 0
      BY <2>3, <2>4, FS_EmptySet
    <2> QED BY <1>3, <1>4, <2>1, <2>2, <2>5
  <1>6. gone' >= gone /\ Cardinality(Selected) + gone <= Cardinality(Selected') + gone'
    <2>1. CASE gone' = gone /\ Selected \in SUBSET Selected'
      <3>1. Cardinality(Selected) <= Cardinality(Selected')
        BY <1>3, <2>1, FS_Subset
      <3> QED BY <1>3, <2>1, <3>1
    <2>2. CASE gone' = gone + Cardinality(Selected \ Selected')
      BY <1>3, <1>4, <1>5, <2>2
    <2> QED BY <1>2, <2>1, <2>2
  <1>7. walk'.pc = "counted" => walk'.count <= Cardinality(Selected') + gone'
    BY <1>2, <1>3, <1>6 DEF FillInv
  <1>8. PageFilled'
    <2>1. gone' = 0 => gone = 0
      BY <1>3, <1>6
    <2> QED BY <1>1, <1>2, <2>1 DEF PageFilled, Offset
  <1> QED BY <1>7, <1>8 DEF FillInv

\* PageFilled: unless rows were deleted since the count, a page the handler answers is
\* one of those it counted, and has the rows its number promises.
THEOREM PageFilledHolds == ListSpec => []PageFilled
  <1>1. ListInit => FillInv
    BY ListInitOK DEF ListInit, NoWalk, FillInv, PageFilled
  <1>2. FillInv /\ ListInv' /\ [ListNext]_listVars => FillInv'
    <2> SUFFICES ASSUME FillInv, ListInv', [ListNext]_listVars PROVE FillInv'
      OBVIOUS
    <2>1. CASE UNCHANGED listVars
      <3>1. UNCHANGED <<table, rows, walk, dels, gone, late>>
        BY <2>1 DEF listVars
      <3>2. Selected' = Selected
        BY <3>1, SelectedSame DEF FillInv, ListInv
      <3> QED BY <3>1, <3>2 DEF FillInv, PageFilled, Offset
    <2>2. CASE Handlers
      BY <2>2, HandlerLists, WalkFills, ListFills
    <2>3. CASE Others
      BY <2>3, OthersFill
    <2>4. CASE Client \/ Refuse
      BY <2>4, WalkFills DEF Client
    <2> QED BY <2>1, <2>2, <2>3, <2>4 DEF ListNext
  <1>3. FillInv => PageFilled
    BY DEF FillInv
  <1> QED BY <1>1, <1>2, <1>3, ListingInvariant, PTL DEF ListSpec

\* Linked: the links of a page are pages that exist, the page and its neighbours are among
\* them, and there are nine or all, for any number of rows, any size of a page and any page
\* that was asked for.
THEOREM PagesLinked ==
    ASSUME NEW nums \in Nat, NEW per \in Nat \ {0}, NEW asked \in Int
    PROVE  Linked(asked, nums, per)
  <1>1. PICK z \in Nat : z = PageNums(nums, per) /\ (nums > 0 => z > 0) /\ (nums = 0 => z = 0)
    <2>1. CASE nums = 0
      <3>1. PageNums(nums, per) = 0
        BY <2>1, SMTT(30) DEF PageNums
      <3> QED BY <2>1, <3>1
    <2>2. CASE nums # 0
      BY <2>2, LastPage
    <2> QED BY <2>1, <2>2
  <1>2. PICK p \in Nat \ {0} : /\ p = Page(asked, nums, per)
                               /\ p = 1 \/ p <= z
    <2>1. Min({asked, z}) = IF asked <= z THEN asked ELSE z
      BY MinMax
    <2> QED BY <1>1, <2>1 DEF Page
  <1>3. Min({9, z}) = IF 9 <= z THEN 9 ELSE z
    BY MinMax
  <1>4. Min({9, p + 4 + 1}) = 9 \/ p < 4
    <2>1. p + 4 + 1 \in Int
      OBVIOUS
    <2> QED BY <2>1, MinMax
  <1> DEFINE Fits(a, n) ==
           /\ Pages(p, nums, per) = a .. a + n - 1
           /\ n = Min({9, z}) /\ a + n - 1 <= z
           /\ nums > 0 => a <= p /\ p <= a + n - 1
           /\ p > 1 => a <= p - 1 /\ p - 1 <= a + n - 1
           /\ p < z => p + 1 <= a + n - 1
  <1>5. PICK a \in Nat \ {0}, n \in Nat : Fits(a, n)
    <2>1. CASE nums = 0
      <3>1. Pages(p, nums, per) = {}
        BY <2>1 DEF Pages
      <3>2. z = 0 /\ p = 1 /\ Min({9, z}) = 0
        BY <1>1, <1>2, <1>3, <2>1
      <3>3. {} = 1 .. 1 + 0 - 1
        OBVIOUS
      <3>4. Fits(1, 0)
        BY <2>1, <3>1, <3>2, <3>3
      <3> QED BY <3>4
    <2>2. CASE nums > 0 /\ p >= z - 4 /\ z > 9
      <3>1. Pages(p, nums, per) = z - 9 + 1 .. z - 9 + 1 + 9 - 1
        BY <1>1, <2>2 DEF Pages, PagesFrom
      <3>2. z - 8 \in Nat \ {0} /\ z - 9 + 1 = z - 8 /\ Min({9, z}) = 9
        BY <1>3, <2>2
      <3>3. Fits(z - 8, 9)
        BY <1>2, <2>2, <3>1, <3>2
      <3> HIDE DEF Fits
      <3> QED BY <3>2, <3>3
    <2>3. CASE nums > 0 /\ p < z - 4 /\ p >= 5 /\ z > 9
      <3>1. Min({9, p + 4 + 1}) = 9
        BY <1>4, <2>3
      <3>2. ~(p >= z - 4)
        BY <2>3
      <3>3. Pages(p, nums, per) = p - 5 + 1 .. p - 5 + 1 + 9 - 1
        BY <1>1, <2>3, <3>1, <3>2 DEF Pages, PagesFrom
      <3>4. p - 4 \in Nat \ {0} /\ p - 5 + 1 = p - 4 /\ Min({9, z}) = 9
        BY <1>3, <2>3
      <3>5. Pages(p, nums, per) = p - 4 .. p - 4 + 9 - 1
        BY <3>3, <3>4
      <3>6. /\ p - 4 + 9 - 1 <= z /\ p - 4 <= p /\ p <= p - 4 + 9 - 1
            /\ p - 4 <= p - 1 /\ p - 1 <= p - 4 + 9 - 1 /\ p + 1 <= p - 4 + 9 - 1
        BY <1>1, <1>2, <2>3
      <3>7. Fits(p - 4, 9)
        BY <3>4, <3>5, <3>6, Zenon
      <3> HIDE DEF Fits
      <3>8. 9 \in Nat
        OBVIOUS
      <3> QED BY <3>4, <3>7, <3>8, Zenon
    <2>4. CASE nums > 0 /\ ~(p >= z - 4 /\ z > 9) /\ ~(p < z - 4 /\ p >= 5 /\ z > 9)
      <3>1. Pages(p, nums, per) = 1 .. 1 + Min({9, z}) - 1
        BY <1>1, <2>4 DEF Pages, PagesFrom
      <3>2. Min({9, z}) \in Nat /\ 1 + Min({9, z}) - 1 <= z
        BY <1>3
      <3>3. p <= z /\ (p <= 9 \/ z <= 9) /\ (p < z => p + 1 <= 9 \/ z <= 9)
        BY <1>1, <1>2, <2>4
      <3>4. Fits(1, Min({9, z}))
        BY <1>2, <1>3, <2>4, <3>1, <3>2, <3>3
      <3> HIDE DEF Fits
      <3> QED BY <3>2, <3>4
    <2>5. nums = 0 \/ nums > 0
      OBVIOUS
    <2> QED BY <2>1, <2>2, <2>3, <2>4, <2>5
  <1>6. PICK P : P = Pages(p, nums, per)
    OBVIOUS
  <1>7. P \subseteq 1 .. z /\ (nums > 0 => p \in P)
    BY <1>5, <1>6
  <1>8. (p > 1 => p - 1 \in P) /\ (p < z => p + 1 \in P)
    <2>1. p < z => nums > 0
      BY <1>1
    <2> QED BY <1>5, <1>6, <2>1
  <1>9. Cardinality(P) = Min({9, z})
    <2>1. a + n - 1 \in Int /\ a \in Int
      OBVIOUS
    <2>2. Cardinality(a .. a + n - 1) = IF a > a + n - 1 THEN 0 ELSE a + n - 1 - a + 1
      BY <2>1, FS_Interval
    <2> QED BY <1>5, <1>6, <2>2
  <1> QED BY <1>1, <1>2, <1>6, <1>7, <1>8, <1>9 DEF Linked, HasPrev, HasNext
=============================================================================
