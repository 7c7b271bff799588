------------------------------ MODULE Listing ------------------------------
(***************************************************************************)
(* The paged lists of the manager: the list handlers of                    *)
(* pkg/manager/service/rest, pkg/manager/util/pagination and the queries   *)
(* of pkg/manager/model.                                                   *)
(*                                                                         *)
(* A list handler counts the rows of its query, computes the page from the *)
(* count and then reads the rows of the page: two queries, no transaction, *)
(* while other requests insert and delete rows.  A client that wants every *)
(* row asks for page after page.                                           *)
(*                                                                         *)
(* A row has an id, which grows, and a scope: the creator of an app, the   *)
(* site or namespace of a config or template, the config or template of a  *)
(* history row.  The patterns for names select rows just as the scope does *)
(* and are left out, and so is an order a client may ask for; the default  *)
(* is the newest row first.  DeletedAt is a *time.Time, which gorm does    *)
(* not take for a soft delete: only status hides a row.                    *)
(***************************************************************************)
EXTENDS Integers, FiniteSets, FiniteSetsExt

CONSTANTS Tables,      \* the tables whose lists are walked
          Scopes,      \* scopes of rows
          PageSizes,   \* page_size parameters of requests
          MaxRows,     \* bound: ids of a table
          Admin,       \* the user "admin", who sees every app
          NotANumber,  \* a page_size that is no number
          NoFilter     \* no filter, and no scope

ASSUME ListingAssumption ==
    /\ Tables \subseteq {"app_infos", "apps", "clusters", "config_namespaces",
                         "config_infos", "config_versions", "releases",
                         "template_namespaces", "templates", "template_versions"}
    /\ PageSizes \subseteq Int \cup {NotANumber}
    /\ MaxRows \in Nat
    /\ Admin \notin Scopes /\ NoFilter \notin Scopes

VARIABLES
    table,  \* the table of the list that the client walks
    rows,   \* its rows by id: scope, version and status
    walk,   \* the client, and the handler that serves it
    dels,   \* rows of the list deleted since the client's first page
    gone,   \* those of them deleted since the last count
    late    \* rows inserted into the list since the last count

listVars == <<table, rows, walk, dels, gone, late>>

MaxPageSize == 1000
DefaultPageSize == 10

-----------------------------------------------------------------------------
(* The request parameters and the paginator.                               *)

\* checkPageParams: the size; a value out of range is replaced.
PageSize(size) == IF size <= 0 \/ size > MaxPageSize THEN DefaultPageSize ELSE size

PageNums(nums, per) == (nums + per - 1) \div per

Page(asked, nums, per) ==
    LET page == Min({asked, PageNums(nums, per)}) IN IF page <= 0 THEN 1 ELSE page

Offset(page, per) == (page - 1) * per

HasPrev(page) == page > 1
HasNext(page, nums, per) == page < PageNums(nums, per)

\* The pages offered as links, at most nine, from the first one on.
PagesFrom(first, n) == first .. first + n - 1

Pages(page, nums, per) ==
    LET last == PageNums(nums, per) IN
    CASE nums = 0 -> {}
      [] nums > 0 /\ page >= last - 4 /\ last > 9 -> PagesFrom(last - 9 + 1, 9)
      [] nums > 0 /\ page < last - 4 /\ page >= 5 /\ last > 9 ->
            PagesFrom(page - 5 + 1, Min({9, page + 4 + 1}))
      [] OTHER -> PagesFrom(1, Min({9, last}))

\* The links are pages that exist, the current one is among them, and with it
\* its neighbours, so that every page can be reached link by link.
Linked(asked, nums, per) ==
    LET page == Page(asked, nums, per)
        pages == Pages(page, nums, per)
        last == PageNums(nums, per) IN
    /\ pages \subseteq 1 .. last
    /\ nums > 0 => page \in pages
    /\ HasPrev(page) => page - 1 \in pages
    /\ HasNext(page, nums, per) => page + 1 \in pages
    /\ Cardinality(pages) = Min({9, last})

\* For short lists TLC evaluates it; PagesLinked of Rest_proofs is about all.
ASSUME PagesAssumption ==
    \A nums \in 0 .. 40, per \in 1 .. 3, asked \in 0 .. 45 : Linked(asked, nums, per)

\* Slip: the last page, if it is not full, is not counted.
NewPageSlip(page, nums, per, data) ==
    [page |-> page, pages |-> nums \div per, total |-> nums, data |-> data]

\* The answer of a list handler.
NewPage(page, nums, per, data) ==
    [page |-> page, pages |-> PageNums(nums, per), total |-> nums, data |-> data]

-----------------------------------------------------------------------------
(* Queries.                                                                *)

IDs == 1 .. MaxRows

\* The rows of table t that a query selects: of a scope unless it is NoFilter, and
\* not deleted.
Where(t, scope) ==
    {i \in IDs : /\ t = table
                 /\ rows[i].status = ""
                 /\ scope # NoFilter => rows[i].scope = scope}

\* ORDER BY id DESC LIMIT limit OFFSET offset.
Limit(ids, offset, limit) ==
    {i \in ids : Cardinality({j \in ids : j > i}) \in offset .. offset + limit - 1}

\* What the Count and the List function of a table select.
AppInfos(scope) == Where("app_infos", scope)
Apps(scope) == Where("apps", scope)
Clusters(scope) == Where("clusters", scope)
ConfigNamespaces(scope) == Where("config_namespaces", scope)
ConfigInfos(scope) == Where("config_infos", scope)
ConfigVersions(scope) == Where("config_versions", scope)
Releases(scope) == Where("releases", scope)
TemplateNamespaces(scope) == Where("template_namespaces", scope)
Templates(scope) == Where("templates", scope)
TemplateVersions(scope) == Where("template_versions", scope)

\* A user sees the apps they created; elsewhere an absent parameter selects
\* every row.
appFilters(user) == IF user = Admin THEN NoFilter ELSE user
configFilters(scope) == IF scope = Admin THEN NoFilter ELSE scope
templateFilters(scope) == IF scope = Admin THEN NoFilter ELSE scope
clusterFilters(scope) == IF scope = Admin THEN NoFilter ELSE scope

\* The version a history does not show is the first one.
Changes(ids) == {i \in ids : rows[i].version > 1}

Selected ==
    CASE table = "app_infos" -> AppInfos(appFilters(walk.scope))
      [] table = "apps" -> Apps(appFilters(walk.scope))
      [] table = "clusters" -> Clusters(clusterFilters(walk.scope))
      [] table = "config_namespaces" -> ConfigNamespaces(configFilters(walk.scope))
      [] table = "config_infos" -> ConfigInfos(configFilters(walk.scope))
      [] table = "config_versions" -> Changes(ConfigVersions(walk.scope))
      [] table = "releases" -> Releases(walk.scope)
      [] table = "template_namespaces" -> TemplateNamespaces(templateFilters(walk.scope))
      [] table = "templates" -> Templates(templateFilters(walk.scope))
      [] table = "template_versions" -> TemplateVersions(walk.scope)

-----------------------------------------------------------------------------
AbsentRow == [scope |-> NoFilter, version |-> 0, status |-> "absent"]
NoWalk == [pc |-> "idle", scope |-> NoFilter, size |-> 0, asked |-> 0, count |-> 0,
           page |-> 0, pages |-> 0, data |-> {}, seen |-> {}, first |-> {}]

\* The type invariant.
TypeOK ==
    /\ table \in Tables
    /\ rows \in [IDs -> [scope : Scopes \cup {NoFilter}, version : 0 .. MaxRows,
                         status : {"absent", "", "deleted"}]]
    /\ walk.pc \in {"idle", "ask", "counted", "answered", "done", "failed"}
    /\ walk.data \subseteq IDs /\ walk.seen \subseteq IDs
    /\ dels \in 0 .. MaxRows /\ gone \in 0 .. dels /\ late \in 0 .. MaxRows

ListInit ==
    /\ table \in Tables
    /\ rows = [i \in IDs |-> AbsentRow]
    /\ walk = NoWalk
    /\ dels = 0 /\ gone = 0 /\ late = 0

-----------------------------------------------------------------------------
(* The client and the list handlers.                                       *)

\* A client begins with page 1.  A scope of Admin is a request of the user
\* admin, or one without the parameter.
Ask ==
    /\ walk.pc = "idle"
    /\ \E scope \in Scopes \cup {Admin}, size \in PageSizes :
          walk' = [walk EXCEPT !.pc = "ask", !.scope = scope, !.size = size, !.asked = 1]
    /\ UNCHANGED <<table, rows, dels, gone, late>>

\* An error of the database, and before the count a parameter that is no number.
Refuse ==
    /\ walk.pc \in {"ask", "counted"}
    /\ walk' = [NoWalk EXCEPT !.pc = "failed"]
    /\ UNCHANGED <<table, rows, dels, gone, late>>

\* A list handler for the list `ids`: it counts, then lists.
Count(ids) ==
    /\ walk.pc = "ask" /\ walk.size # NotANumber
    /\ walk' = [walk EXCEPT !.pc = "counted", !.size = PageSize(@),
                            !.count = Cardinality(ids),
                            !.first = IF walk.asked = 1 THEN ids ELSE @]
    /\ dels' = IF walk.asked = 1 THEN 0 ELSE dels
    /\ gone' = 0 /\ late' = 0
    /\ UNCHANGED <<table, rows>>

List(ids) ==
    /\ walk.pc = "counted"
    /\ LET page == Page(walk.asked, walk.count, walk.size)
           data == Limit(ids, Offset(page, walk.size), walk.size)
           answer == NewPage(page, walk.count, walk.size, data)
       IN walk' = [walk EXCEPT !.pc = "answered", !.page = answer.page,
                               !.pages = answer.pages, !.data = answer.data,
                               !.seen = @ \cup data]
    /\ UNCHANGED <<table, rows, dels, gone, late>>

Serve(t, ids) == table = t /\ (Count(ids) \/ List(ids))

listAppInfo == Serve("app_infos", AppInfos(appFilters(walk.scope)))
listApp == Serve("apps", Apps(appFilters(walk.scope)))
listCluster == Serve("clusters", Clusters(clusterFilters(walk.scope)))
listConfigNamespaces == Serve("config_namespaces", ConfigNamespaces(configFilters(walk.scope)))
listConfigs == Serve("config_infos", ConfigInfos(configFilters(walk.scope)))
listChangeHistory == Serve("config_versions", Changes(ConfigVersions(walk.scope)))
listReleaseHistory == Serve("releases", Releases(walk.scope))
listTemplateNamespaces ==
    Serve("template_namespaces", TemplateNamespaces(templateFilters(walk.scope)))
listTemplates == Serve("templates", Templates(templateFilters(walk.scope)))
listTemplateChangeHistory == Serve("template_versions", TemplateVersions(walk.scope))

\* The client asks for the page after the one it got until that was the last.
NextPage ==
    /\ walk.pc = "answered"
    /\ walk' = IF walk.page < walk.pages
               THEN [walk EXCEPT !.pc = "ask", !.asked = walk.page + 1, !.data = {}]
               ELSE [walk EXCEPT !.pc = "done"]
    /\ UNCHANGED <<table, rows, dels, gone, late>>

-----------------------------------------------------------------------------
(* Other requests.                                                         *)

\* A new row gets the next id; a history row the next version of its scope.
Insert(scope) ==
    LET i == Cardinality({j \in IDs : rows[j] # AbsentRow}) + 1 IN
    /\ i \in IDs
    /\ rows' = [rows EXCEPT ![i] =
                  [scope |-> scope, status |-> "",
                   version |-> 1 + Cardinality({j \in IDs : rows[j].scope = scope})]]
    /\ UNCHANGED <<table, walk, dels, gone>>
    /\ late' = late + Cardinality(Selected' \ Selected)

\* The row is hidden by its status, or removed; its id is not used again.
Remove(i) ==
    /\ rows[i].status = ""
    /\ rows' = [rows EXCEPT ![i].status = "deleted"]
    /\ UNCHANGED <<table, walk, late>>
    /\ dels' = dels + Cardinality(Selected \ Selected')
    /\ gone' = gone + Cardinality(Selected \ Selected')

addAppInfo == table = "app_infos" /\ \E s \in Scopes : Insert(s)
addApp == table = "apps" /\ \E s \in Scopes : Insert(s)
addCluster == table = "clusters" /\ \E s \in Scopes : Insert(s)
deleteAppInfo == table = "app_infos" /\ \E i \in IDs : Remove(i)
deleteApp == table = "apps" /\ \E i \in IDs : Remove(i)
deleteCluster == table = "clusters" /\ \E i \in IDs : Remove(i)

\* The handlers of ConfigServer and Templates insert rows and delete none.
Record ==
    /\ table \notin {"app_infos", "apps", "clusters"}
    /\ \E s \in Scopes : Insert(s)

Handlers ==
    \/ listAppInfo \/ listApp \/ listCluster \/ listConfigNamespaces \/ listConfigs
    \/ listChangeHistory \/ listReleaseHistory \/ listTemplateNamespaces
    \/ listTemplates \/ listTemplateChangeHistory

Client == Ask \/ NextPage

Others ==
    \/ addAppInfo \/ addApp \/ addCluster \/ deleteAppInfo \/ deleteApp
    \/ deleteCluster \/ Record

ListNext == Client \/ Handlers \/ Refuse \/ Others

ListSpec == ListInit /\ [][ListNext]_listVars

-----------------------------------------------------------------------------
(* Properties.                                                             *)

\* A client that walks all pages misses a row that is there all the time only
\* because of other requests: at most one row for each row deleted since the
\* first page and for each row inserted between the last count and its list.
\* Inserts at any other time make it see rows twice and miss none.
WalkMisses ==
    walk.pc = "done" =>
        Cardinality((walk.first \cap Selected) \ walk.seen) <= dels + late

\* A page holds what its numbers say, whatever page was asked for: unless rows
\* were deleted since the count it is full, or the last one with the rest.
PageFilled ==
    walk.pc = "answered" /\ gone = 0 =>
        /\ walk.page \in 1 .. Max({1, walk.pages})
        /\ Cardinality(walk.data) >= Min({walk.size, walk.count - Offset(walk.page, walk.size)})
        /\ walk.count > 0 => walk.data # {}
=============================================================================
