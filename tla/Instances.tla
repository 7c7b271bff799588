----------------------------- MODULE Instances -----------------------------
(***************************************************************************)
(* The instances of a config: which app instances hold which content.      *)
(* Reports of pkg/agent/agent.go and pkg/agent/cmdhandler.go, the handlers *)
(* of pkg/manager/configserver/cmdhandler.go, the config_instance table    *)
(* and the connection callback of pkg/manager/cluster/cluster.go.          *)
(*                                                                         *)
(* One config, one agent and the instances of one app on several hosts.    *)
(* The agent sends a report for what an app got or says it has; every      *)
(* report has a goroutine of its own at both ends, so reports overtake     *)
(* each other, and one that fails is not sent again.                       *)
(***************************************************************************)
EXTENDS Integers, FiniteSets

CONSTANTS Hosts,        \* hosts of the app's instances
          Digests,      \* digests of the config's releases
          NoDigest,     \* no content, no release, an empty digest
          NoInstance,        \* no config_instance row
          MaxReports,   \* bound: reports in flight
          MaxEvents     \* bound: releases, connects and disconnects

ASSUME InstancesAssumption == 
    /\ NoDigest \notin Digests /\ NoInstance \notin Digests \cup {NoDigest}
    /\ MaxReports \in Nat /\ MaxEvents \in Nat

VARIABLES
    latest,   \* digest of the config's latest release
    shown,    \* config_instance rows by host: the digest
    file,     \* digest of the agent's file, which its file mapper holds
    held,     \* digest of the content each app instance has
    apps,     \* hosts whose app is connected to the agent
    link,     \* is the agent connected to the manager
    broken,   \* onNotReady calls of the manager to come
    resend,   \* apps the agent's OnReady callback has still to report
    reports,  \* commands in flight from the agent to the manager
    reached,  \* digests the agent's file has had
    last,     \* what was last reported for a host
    loose,    \* hosts with reports that overlapped or were lost
    events    \* releases, connects and disconnects so far

instVars == <<latest, shown, file, held, apps, link, broken, resend, reports,
              reached, last, loose, events>>

InstInit ==
    /\ latest = NoDigest
    /\ shown = [h \in Hosts |-> NoInstance]
    /\ file = NoDigest
    /\ held = [h \in Hosts |-> NoDigest]
    /\ apps = {}
    /\ link = TRUE
    /\ broken = 0
    /\ resend = {}
    /\ reports = {}
    /\ reached = {}
    /\ last = [h \in Hosts |-> NoInstance]
    /\ loose = {}
    /\ events = 0

-----------------------------------------------------------------------------
(* The agent's reports.                                                    *)

Report(kind, h, d) == [kind |-> kind, host |-> h, digest |-> d, pc |-> "sent", found |-> FALSE]

\* A command goes to the manager.
SendSync(r) ==
    /\ Cardinality(reports) < MaxReports
    /\ r \notin reports
    /\ reports' = reports \cup {r}
    /\ last' = [last EXCEPT ![r.host] = r.digest]
    /\ loose' = IF \E q \in reports : q.host = r.host THEN loose \cup {r.host} ELSE loose

\* SendSync returns an error: the command does not arrive, and the error is
\* logged.
ReportFails ==
    \E r \in reports :
        /\ r.pc = "sent" /\ ~ link
        /\ reports' = reports \ {r}
        /\ loose' = loose \cup {r.host}
        /\ UNCHANGED <<latest, shown, file, held, apps, link, broken, resend, reached, last, events>>

\* CmdContentHandler: the app gets the file, unless it has it, and when the
\* answer is sent the agent reports the digest it sent.
ContentComplete(h) ==
    /\ h \in apps /\ file \notin {NoDigest, held[h]}
    /\ held' = [held EXCEPT ![h] = file]
    /\ SendSync(Report("update", h, file))
    /\ UNCHANGED <<latest, shown, file, apps, link, broken, resend, reached, events>>

\* CmdFileRefreshHandler: the app says what it has, and the agent passes it on.
RefreshReport(h) ==
    /\ h \in apps /\ held[h] # NoDigest
    /\ SendSync(Report("update", h, held[h]))
    /\ UNCHANGED <<latest, shown, file, held, apps, link, broken, resend, reached, events>>

\* The OnReady callback of the agent: one app after the other is reported with
\* the digest of the agent's file, whatever the app has.
OnReadyReport(h) ==
    /\ h \in resend /\ \A r \in reports : r.kind # "ready"
    /\ resend' = resend \ {h}
    /\ SendSync(Report("ready", h, file))
    /\ UNCHANGED <<latest, shown, file, held, apps, link, broken, reached, events>>

Event == events < MaxEvents /\ events' = events + 1

\* An app connects; its connection breaks, and OnNotReady cancels it.
RegisterApp(h) ==
    /\ h \notin apps /\ Event
    /\ apps' = apps \cup {h}
    /\ UNCHANGED <<latest, shown, file, held, link, broken, resend, reports, reached, last, loose>>

CancelApp(h) ==
    /\ h \in apps /\ Event
    /\ apps' = apps \ {h}
    /\ SendSync(Report("cancel", h, NoInstance))
    /\ UNCHANGED <<latest, shown, file, held, link, broken, resend, reached>>

-----------------------------------------------------------------------------
(* The manager.                                                            *)

\* fileUpdateHandler: SaveConfigInstance looks for the row of this app, host
\* and connection.
GetConfigInstance ==
    \E r \in reports :
        /\ r.kind # "cancel" /\ r.pc = "sent" /\ link
        /\ reports' = (reports \ {r}) \cup
                      {[r EXCEPT !.pc = "read", !.found = shown[r.host] # NoInstance]}
        /\ UNCHANGED <<latest, shown, file, held, apps, link, broken, resend, reached, last, loose, events>>

\* Slip: the handler saves the digest it expects.
SavedSlip(r) == latest

Saved(r) == r.digest

\* and creates or updates it: creating fails if there is a row by now, and
\* updating a row that is gone changes nothing.  gorm's Updates skips an empty
\* digest.
SaveConfigInstance ==
    \E r \in reports :
        /\ r.kind # "cancel" /\ r.pc = "read"
        /\ reports' = reports \ {r}
        /\ shown' = IF /\ r.found = (shown[r.host] # NoInstance)
                       /\ r.found => r.digest # NoDigest
                    THEN [shown EXCEPT ![r.host] = Saved(r)] ELSE shown
        /\ UNCHANGED <<latest, file, held, apps, link, broken, resend, reached, last, loose, events>>

\* appCancelHandler: the rows of the app on the host.
\* Slip: of the app on any host.
DeleteConfigInstanceSlip(h) == shown' = [x \in Hosts |-> NoInstance]

DeleteConfigInstance(h) == shown' = [shown EXCEPT ![h] = NoInstance]

appCancelHandler ==
    \E r \in reports :
        /\ r.kind = "cancel" /\ link
        /\ reports' = reports \ {r}
        /\ DeleteConfigInstance(r.host)
        /\ UNCHANGED <<latest, file, held, apps, link, broken, resend, reached, last, loose, events>>

\* onNotReady: the rows of the connection key, which the agent has again when
\* it reconnects, maybe before this runs.
DeleteConfigInstanceByConnKey ==
    /\ broken > 0
    /\ broken' = broken - 1
    /\ shown' = [h \in Hosts |-> NoInstance]
    /\ UNCHANGED <<latest, file, held, apps, link, resend, reports, reached, last, loose, events>>

-----------------------------------------------------------------------------
(* The environment: releases, downloads, the connection.                   *)

Release ==
    /\ Event
    /\ latest' \in Digests \ {latest}
    /\ UNCHANGED <<shown, file, held, apps, link, broken, resend, reports, reached, last, loose>>

Download ==
    /\ link /\ file # latest
    /\ file' = latest
    /\ reached' = reached \cup {latest}
    /\ UNCHANGED <<latest, shown, held, apps, link, broken, resend, reports, last, loose, events>>

LinkBreaks ==
    /\ link /\ Event
    /\ link' = FALSE
    /\ broken' = broken + 1
    /\ loose' = Hosts
    /\ UNCHANGED <<latest, shown, file, held, apps, resend, reports, reached, last>>

LinkReady ==
    /\ ~ link
    /\ link' = TRUE
    /\ resend' = apps
    /\ UNCHANGED <<latest, shown, file, held, apps, broken, reports, reached, last, loose, events>>

InstNext ==
    \/ ReportFails \/ GetConfigInstance \/ SaveConfigInstance \/ appCancelHandler
    \/ DeleteConfigInstanceByConnKey \/ Release \/ Download \/ LinkBreaks \/ LinkReady
    \/ \E h \in Hosts : \/ ContentComplete(h) \/ RefreshReport(h) \/ OnReadyReport(h)
                        \/ RegisterApp(h) \/ CancelApp(h)

InstSpec == InstInit /\ [][InstNext]_instVars

-----------------------------------------------------------------------------
(* What is shown, and properties.                                          *)

\* getConfigInstances: the rows, in sync or not.  A config without a release
\* has no release row to compare with, and IsSync keeps its zero value.
IsSync(h) == latest # NoDigest /\ shown[h] = latest

getConfigInstances == {<<h, IsSync(h)>> : h \in {x \in Hosts : shown[x] # NoInstance}}

\* No instance is shown in sync with a release whose content never reached the
\* agent, however reports, cancels, reconnects and rollbacks overlap.
SyncShownReached == \A h \in Hosts : <<h, TRUE>> \in getConfigInstances => latest \in reached

\* As long as the agent stays connected and the reports for an instance do not
\* overlap, its row is what was last reported for it and is gone after a
\* cancel, whatever the reports for other instances do meanwhile.
RowFollowsApp ==
    \A h \in Hosts \ loose :
        (\A r \in reports : r.host # h) => shown[h] = last[h]
=============================================================================
