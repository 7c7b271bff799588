----------------------------- MODULE Templates ------------------------------
(***************************************************************************)
(* Templates of the config server (pkg/manager/configserver/configserver.go*)
(* and the template tables of pkg/manager/model/configserver), and a       *)
(* config whose content is built from one.                                 *)
(*                                                                         *)
(* A template is written by requests of its own, each access to the        *)
(* database or the file database one step, as in ConfigServer.  All        *)
(* templates have one name: those of a namespace differ in nothing the     *)
(* code compares.  The requests on the config do not overlap each other    *)
(* here (ConfigServer has them overlap) but interleave with the template   *)
(* requests.  A content is the set of properties of the file, a function   *)
(* from keys to values; no template is empty.                              *)
(***************************************************************************)
EXTENDS Naturals, Sequences, FiniteSets

CONSTANTS Writers,        \* goroutines that serve template requests
          Namespaces,     \* template namespaces
          EnvRef,         \* the namespace "${CONFIG_...}"
          TemplateData,   \* contents a template is given
          ReplaceData,    \* replacements a config is given
          MaxVersion,     \* bound: versions of a template
          MaxConfig,      \* bound: versions of the config
          Null            \* an absent row, file or value

VersionIDs == Namespaces \X (1 .. MaxVersion)

Refs == Namespaces \cup {EnvRef}

Infos == [ref : Refs, tv : VersionIDs \cup {Null}]

Forms == [ref : Refs, tv : VersionIDs \cup {Null}, data : TemplateData \cup {Null}]

ASSUME TemplatesAssumption ==
    /\ MaxVersion \in Nat \ {0} /\ MaxConfig \in Nat
    /\ EnvRef \notin Namespaces /\ Null \notin Namespaces \cup {EnvRef}
    /\ Null \notin TemplateData \cup VersionIDs \cup Infos \cup Forms

VARIABLES
    latestVersion,  \* template rows: number of LatestVersionID, 0 without a row
    tversion,  \* template_version rows: digest by namespace and version
    tfile,     \* file database: template file by namespace and version
    tx,        \* the handler and transaction of each writer
    env,       \* value of CONFIG_... in the env of the site's cluster
    info,      \* config_info row: template reference and TemplateVersionID
    config,    \* config_version rows with their files, in order
    release,   \* LatestReleaseID and PreReleaseID, as numbers of versions
    form,      \* what the page shows and will send
    raced,     \* history: two template requests overlapped in a namespace
    strayed    \* history: the config got two template versions, or a content
               \* of another one than its row says

template == <<latestVersion, tversion, tfile, tx>>
cvars == <<info, config, release, form, strayed>>
vars == <<template, env, cvars, raced>>

Idle == [pc |-> "idle", ns |-> Null, old |-> 0, data |-> Null, ins |-> FALSE]

Init ==
    /\ latestVersion = [n \in Namespaces |-> 0]
    /\ tversion = [v \in VersionIDs |-> Null]
    /\ tfile = [v \in VersionIDs |-> Null]
    /\ tx = [w \in Writers |-> Idle]
    /\ env = Null
    /\ info = Null
    /\ config = << >>
    /\ release = [rel |-> 0, pre |-> 0]
    /\ form = Null
    /\ raced = FALSE
    /\ strayed = FALSE

-----------------------------------------------------------------------------
(* Reading templates.                                                      *)

\* A namespace "${key}" stands for the env's value of key, when it has one.
renderClusterEnv(ref) == IF ref = EnvRef /\ env # Null THEN env ELSE ref

\* LatestVersionID of the template in the namespace, Null without a template.
getConfigTemplate(n) ==
    IF n \in Namespaces /\ latestVersion[n] > 0 THEN <<n, latestVersion[n]>> ELSE Null

\* The namespaces the page offers: those that have templates, and the
\* reference when the namespace it stands for has.
GetTemplateOption ==
    LET options == {n \in Namespaces : latestVersion[n] > 0}
    IN  options \cup (IF env \in options THEN {EnvRef} ELSE {})

\* visitTemplateData and visitTemplateVersionData.
visitTemplateData(v) == IF v = Null \/ tversion[v] = Null THEN Null ELSE tfile[v]

GetTemplateDetailByNameAndNamespace(ref) ==
    visitTemplateData(getConfigTemplate(renderClusterEnv(ref)))

\* GetTemplateHistoryDetail answers with the file of the version and compares
\* it with the one before.
GetTemplateHistoryDetail(v) ==
    /\ visitTemplateData(v) # Null
    /\ v[2] >= 2 => LET pre == <<v[1], v[2] - 1>>
                    IN  /\ tversion[pre] # Null
                        /\ tversion[pre] # tversion[v] =>
                               visitTemplateData(pre) # Null

-----------------------------------------------------------------------------
(* AddTemplate and UpdateTemplate.                                         *)

Overlaps(w, n) == \E o \in Writers \ {w} : tx[o].ns = n

Begin(w, t) ==
    /\ tx' = [tx EXCEPT ![w] = t]
    /\ raced' = (raced \/ Overlaps(w, t.ns))

\* The namespace and template rows are inserted; another open transaction
\* that inserts them makes this one wait.
AddTemplate(w) ==
    /\ tx[w].pc = "idle"
    /\ \E n \in Namespaces, d \in TemplateData :
         /\ latestVersion[n] = 0
         /\ \A o \in Writers : ~(tx[o].ns = n /\ tx[o].old = 0)
         /\ Begin(w, [Idle EXCEPT !.pc = "store", !.ns = n, !.data = d])
    /\ UNCHANGED <<latestVersion, tversion, tfile, env, cvars>>

\* The template row and its latest version are read outside the transaction.
UpdateTemplate(w) ==
    /\ tx[w].pc = "idle"
    /\ \E n \in Namespaces, d \in TemplateData :
         /\ latestVersion[n] \in 1 .. MaxVersion - 1
         /\ Begin(w, [Idle EXCEPT !.pc = "store", !.ns = n, !.data = d,
                                  !.old = latestVersion[n]])
    /\ UNCHANGED <<latestVersion, tversion, tfile, env, cvars>>

\* Slip: an update replaces the file of the version it has read.
NewVersionSlip(t) == <<t.ns, IF t.old = 0 THEN 1 ELSE t.old>>

NewVersion(t) == <<t.ns, t.old + 1>>

\* Name, namespace and description are those of the row, so that only the
\* digest can differ.
isTemplateNeedNewVersion(t) == t.old = 0 \/ tversion[<<t.ns, t.old>>] # t.data

storeTemplateData(w) ==
    LET t == tx[w] IN
    /\ t.pc = "store"
    /\ tfile' = [tfile EXCEPT ![NewVersion(t)] = t.data]
    /\ tx' = [tx EXCEPT ![w].pc = IF isTemplateNeedNewVersion(t)
                                  THEN "insert" ELSE "update"]
    /\ UNCHANGED <<latestVersion, tversion, env, cvars, raced>>

\* An insert waits for an open transaction that has inserted the same key,
\* and fails (Abort) when the row is there.
CreateTemplateVersion(w) ==
    LET t == tx[w] IN
    /\ t.pc = "insert"
    /\ tversion[<<t.ns, t.old + 1>>] = Null
    /\ \A o \in Writers : tx[o].ins => tx[o].ns # t.ns \/ tx[o].old # t.old
    /\ tx' = [tx EXCEPT ![w].pc = "update", ![w].ins = TRUE]
    /\ UNCHANGED <<latestVersion, tversion, tfile, env, cvars, raced>>

LatestVersionID(t) == IF t.ins THEN t.old + 1 ELSE t.old

\* model.UpdateTemplate writes the whole row the handler has read, and
\* tx.Commit().
CommitTemplate(w) ==
    LET t == tx[w] IN
    /\ t.pc = "update"
    /\ latestVersion' = [latestVersion EXCEPT ![t.ns] = LatestVersionID(t)]
    /\ tversion' = IF t.ins THEN [tversion EXCEPT ![<<t.ns, t.old + 1>>] = t.data]
                   ELSE tversion
    /\ tx' = [tx EXCEPT ![w] = Idle]
    /\ UNCHANGED <<tfile, env, cvars, raced>>

\* tx.Rollback() after any error, or a restart of the manager.
Abort(w) ==
    /\ tx[w].pc # "idle"
    /\ tx' = [tx EXCEPT ![w] = Idle]
    /\ UNCHANGED <<latestVersion, tversion, tfile, env, cvars, raced>>

UpdateClusterEnvs ==
    /\ env' \in Namespaces \cup {Null}
    /\ UNCHANGED <<template, cvars, raced>>

-----------------------------------------------------------------------------
(* The config.                                                             *)

mergeTemplateAndReplace(t, r) ==
    [k \in DOMAIN t \cup DOMAIN r |-> IF k \in DOMAIN r THEN r[k] ELSE t[k]]

Last == config[Len(config)]

\* The page loads the template the user selects.
LoadTemplate ==
    /\ \E ref \in GetTemplateOption :
         LET v == getConfigTemplate(renderClusterEnv(ref)) IN
         /\ visitTemplateData(v) # Null
         /\ form' = [ref |-> ref, tv |-> v, data |-> visitTemplateData(v)]
    /\ UNCHANGED <<template, env, info, config, release, strayed, raced>>

\* The version row gets the template version that is the latest now, the
\* content is built from the one the page loaded.  The page may or may not
\* send the version it loaded.
AddConfig ==
    /\ info = Null /\ form # Null
    /\ LET v == getConfigTemplate(renderClusterEnv(form.ref)) IN
         /\ v # Null
         /\ \E sent \in {form.tv, Null}, r \in ReplaceData :
              /\ info' = [ref |-> form.ref, tv |-> sent]
              /\ config' = <<[tv |-> v, repl |-> r,
                              data |-> mergeTemplateAndReplace(form.data, r)]>>
    /\ form' = Null
    /\ strayed' = (form.tv # Last'.tv)
    /\ UNCHANGED <<template, env, release, raced>>

\* visitConfigVersionData: the template file is that of the version row.
GetConfigDetail ==
    /\ info # Null
    /\ Last.tv # Null
    /\ form' = [ref |-> info.ref, tv |-> info.tv,
                data |-> visitTemplateData(Last.tv)]
    /\ UNCHANGED <<template, env, info, config, release, strayed, raced>>

isConfigNeedNewVersion(old, new) == old # new

\* UpdateConfig with reference ref, template version v (0 is Null), template
\* content d and replacement r.  Zero fields leave the row's columns alone.
Update(ref, v, d, r) ==
    LET new == [tv |-> v, repl |-> r, data |-> mergeTemplateAndReplace(d, r)]
    IN  /\ config' = IF isConfigNeedNewVersion(Last, new)
                     THEN Append(config, new) ELSE config
        /\ info' = [ref |-> ref, tv |-> IF v = Null THEN info.tv ELSE v]
        /\ strayed' = (strayed \/ (v = Null /\ info.tv # Null))

UpdateConfig ==
    /\ info # Null /\ form # Null
    /\ Len(config) < MaxConfig
    /\ \E r \in ReplaceData : Update(form.ref, form.tv, form.data, r)
    /\ form' = Null
    /\ UNCHANGED <<template, env, release, raced>>

\* Slip: the template file of the config's own version is taken again.
ReloadSourceSlip(v) == IF Last.tv = Null THEN tfile[v] ELSE tfile[Last.tv]

ReloadSource(v) == visitTemplateData(v)

\* A missing template is a nil dereference in the code, which ignores the
\* error of getConfigTemplate: the request dies without having written.
ReloadTemplate ==
    /\ info # Null
    /\ Len(config) < MaxConfig
    /\ LET v == getConfigTemplate(renderClusterEnv(info.ref)) IN
         /\ v # Null
         /\ Update(info.ref, v, ReloadSource(v),
                   IF Last.tv = Null THEN << >> ELSE Last.repl)
    /\ UNCHANGED <<template, env, release, form, raced>>

ReleaseConfig ==
    /\ info # Null
    /\ release.rel # Len(config)
    /\ release' = [rel |-> Len(config), pre |-> release.rel]
    /\ UNCHANGED <<template, env, info, config, form, strayed, raced>>

\* The restored version keeps its template version; the config_info row keeps
\* the one it has.
RollbackConfig ==
    /\ release.pre # 0
    /\ Len(config) < MaxConfig
    /\ config' = Append(config, config[release.pre])
    /\ strayed' = TRUE
    /\ UNCHANGED <<template, env, info, release, form, raced>>

Next ==
    \/ \E w \in Writers : AddTemplate(w) \/ UpdateTemplate(w)
          \/ storeTemplateData(w) \/ CreateTemplateVersion(w)
          \/ CommitTemplate(w) \/ Abort(w)
    \/ UpdateClusterEnvs
    \/ LoadTemplate \/ AddConfig \/ GetConfigDetail \/ UpdateConfig
    \/ ReloadTemplate \/ ReleaseConfig \/ RollbackConfig

Spec == Init /\ [][Next]_vars

-----------------------------------------------------------------------------
\* checkIsTemplateChange, which ListConfigs shows for the config.
checkIsTemplateChange ==
    LET v == getConfigTemplate(renderClusterEnv(info.ref))
    IN  info.tv # Null /\ v # Null /\ info.tv # v

\* However template requests interleave and fail, every version that was
\* committed can be shown with its change: GetTemplateHistoryDetail finds its
\* file, the version before and that one's file.
HistoryShown ==
    \A v \in VersionIDs : tversion[v] # Null => GetTemplateHistoryDetail(v)

\* Without overlapping requests, failed ones included, the latest version of
\* a template is its newest and every file has the digest its row records.
TemplateTruth ==
    ~raced => \A v \in VersionIDs : tversion[v] # Null =>
                 v[2] <= latestVersion[v[1]] /\ tfile[v] = tversion[v]

\* Every namespace GetTemplateOption offers leads to a template when the page
\* asks GetTemplateDetailByNameAndNamespace for it, also through the env.
OptionsResolve ==
    \A ref \in GetTemplateOption :
        GetTemplateDetailByNameAndNamespace(ref) # Null

\* What ListConfigs says of the template can be relied on: a config that has
\* a template version and is not marked as changed has the content of the
\* template as it is now, with its own replacements.  The code does not guarantee
\* it for every sequence of requests; ChangeSeenForward says for which it does.
ChangeSeen ==
    info # Null =>
        LET v == getConfigTemplate(renderClusterEnv(info.ref))
        IN  info.tv # Null /\ v # Null /\ ~checkIsTemplateChange =>
               Last.data = mergeTemplateAndReplace(tversion[v], Last.repl)

\* The same for templates whose requests did not overlap and a config that was
\* never left with two template versions: by a rollback, which restores that of the
\* version row only, by AddConfig, whose row takes the latest version and not
\* the one the page loaded, or by a late update without a template version.
ChangeSeenForward == ~raced /\ ~strayed => ChangeSeen
=============================================================================
