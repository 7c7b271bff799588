-------------------------------- MODULE Auth --------------------------------
(***************************************************************************)
(* Authentication of the manager (src/pkg/manager/auth).  A manager that   *)
(* starts uploads the roles and one resource per route of its API to the   *)
(* auth service, and relates the two; its filter then asks the service     *)
(* for the resources of a request's user.  Every call of the service may   *)
(* fail, before or after it took effect, and a manager that is started     *)
(* again uploads again, also while another one does.                       *)
(*                                                                         *)
(* The service is external.  Its rows are a role [id, name], a resource    *)
(* [id, name, data] and relations of their ids.  The name of a resource is *)
(* the method and the path of a route without a closing slash; its data is *)
(* AnyData, "*", or the parameters of a request it is restricted to.       *)
(***************************************************************************)
EXTENDS Integers, Sequences, FiniteSets

CONSTANTS Managers,    \* processes that upload and filter
          Routes,      \* routes: [method, path, slash], slash for a closing one
          Excludes,    \* paths without authorization
          Params,      \* what the path parameters of a request may be
          AdminData,   \* what an administrator may restrict a resource to
          TTL,         \* life time of a token
          Tokens,      \* [kind, age, signed]: tokens of requests
          MaxUploads   \* bound: uploads of a run

AnyData == "*"

\* Encoded path parameters are never "*".
ASSUME AuthAssumption ==
    /\ TTL \in Nat /\ MaxUploads \in Nat
    /\ IsFiniteSet(Routes)
    /\ AnyData \notin Params

VARIABLES
    roles, resources, relations,   \* rows of the auth service
    upc,                           \* uploads: where they are
    got,                           \* what they have fetched: [roles, relations, resources]
    roleIDs,                       \* roleNameIDMap
    left,                          \* roles whose resources are still to upload
    role, resIds,                  \* the role at hand, the resources to relate to it
    uploads,                       \* uploads so far
    filled                         \* [name, id]: roles a finished upload has used

serviceVars == <<roles, resources, relations>>
uploadVars == <<upc, got, roleIDs, left, role, resIds>>
authVars == <<serviceVars, uploadVars, uploads, filled>>

NoRole == "none"
roleNames == <<"editor", "reader", "custom">>
RoleNames == {"editor", "reader", "custom"}
Nothing0 == [roles |-> {}, relations |-> {}, resources |-> {}]

\* The row AddRole of the service makes; it gives out ids one by one.
NewRole(n) == [id |-> Cardinality(roles) + 1, name |-> n]

\* What GetAllRole of the service returns: roles with their resources.
AllRoles == [roles |-> roles, relations |-> relations, resources |-> {}]

\* buildResources: the name of the resource of a route, without a closing slash.
\* parseReqResource gives a request for the route the same name.
buildResources(r) == <<r.method, r.path>>
parseReqResource(r) == <<r.method, r.path>>

\* buildRoleResources: POST, PUT and DELETE are the editor's, GET the reader's,
\* and routes of other methods have no role.
addResource(m) == CASE m \in {"POST", "PUT", "DELETE"} -> "editor"
                    [] m = "GET" -> "reader"
                    [] OTHER -> NoRole

RoutesOf(n) == {r \in Routes : addResource(r.method) = n}

\* What an administrator has made: a resource for a route of the reader,
\* restricted to some parameters.
AdminResources ==
    LET r == CHOOSE r \in Routes : r.method = "GET" /\ r.path \notin Excludes
    IN {{[id |-> 1, name |-> buildResources(r), data |-> d]} : d \in AdminData}

AuthInit ==
    /\ roles = {[id |-> 1, name |-> "root"]}
    /\ resources \in {{}} \cup AdminResources
    /\ relations = {}
    /\ upc = [m \in Managers |-> "down"]
    /\ got = [m \in Managers |-> Nothing0]
    /\ roleIDs = [m \in Managers |-> [n \in RoleNames |-> 0]]
    /\ left = [m \in Managers |-> {}]
    /\ role = [m \in Managers |-> NoRole]
    /\ resIds = [m \in Managers |-> {}]
    /\ uploads = 0 /\ filled = {}

-----------------------------------------------------------------------------
(* Upload. *)

\* The first row the service lists.
First(rows) == CHOOSE r \in rows : \A q \in rows : r.id <= q.id

containsRole(rs, n) == {r \in rs : r.name = n}
containsResource(rs, n, d) == {r \in rs : r.name = n /\ r.data = d}
containsRoleResRel(rels, rid, id) == <<rid, id>> \in rels

\* The upload returns, and its variables are gone.
Returned(m) ==
    /\ upc' = [upc EXCEPT ![m] = "down"]
    /\ got' = [got EXCEPT ![m] = Nothing0]
    /\ roleIDs' = [roleIDs EXCEPT ![m] = [n \in RoleNames |-> 0]]
    /\ left' = [left EXCEPT ![m] = {}]
    /\ role' = [role EXCEPT ![m] = NoRole]
    /\ resIds' = [resIds EXCEPT ![m] = {}]

\* A failed call ends the upload, which is not tried again.
Fails(m) == Returned(m)

At(m, l) == upc' = [upc EXCEPT ![m] = l]

\* A manager starts: GetAllRole, with the resources of the roles.
GetAllRole(m) ==
    /\ upc[m] = "down" /\ uploads < MaxUploads
    /\ uploads' = uploads + 1
    /\ \/ Fails(m)
       \/ /\ got' = [got EXCEPT ![m] = AllRoles]
          /\ left' = [left EXCEPT ![m] = {n \in RoleNames : RoutesOf(n) # {}}]
          /\ At(m, "resources")
          /\ UNCHANGED <<roleIDs, role, resIds>>
    /\ UNCHANGED <<serviceVars, filled>>

GetAllResources(m) ==
    /\ upc[m] = "resources"
    /\ \/ Fails(m)
       \/ /\ got' = [got EXCEPT ![m].resources = resources]
          /\ At(m, "roles")
          /\ UNCHANGED <<roleIDs, left, role, resIds>>
    /\ UNCHANGED <<serviceVars, uploads, filled>>

\* The next role, in the order of roleNames: the one fetched, or a new one.
AddRole(m) ==
    /\ upc[m] = "roles"
    /\ \E i \in DOMAIN roleNames :
         LET n == roleNames[i]
             known == containsRole(got[m].roles, n)
             new == NewRole(n)
             SetID(id) == /\ roleIDs' = [roleIDs EXCEPT ![m][n] = id]
                          /\ At(m, IF i = Len(roleNames) THEN "upload" ELSE "roles")
                          /\ UNCHANGED <<got, left, role, resIds>>
         IN /\ roleIDs[m][n] = 0
            /\ \A j \in 1 .. i - 1 : roleIDs[m][roleNames[j]] # 0
            /\ \/ known # {} /\ SetID(First(known).id) /\ UNCHANGED roles
               \/ known = {} /\ roles' = roles \cup {new} /\ SetID(new.id)
               \/ known = {} /\ roles' \in {roles, roles \cup {new}} /\ Fails(m)
    /\ UNCHANGED <<resources, relations, uploads, filled>>

\* The routes of role n the service has no resource for, and the resources it
\* has without a relation.
Missing(m, n) ==
    {r \in RoutesOf(n) : containsResource(got[m].resources, buildResources(r), AnyData) = {}}
\* Only the resources this upload makes are related.
UnrelatedSlip(m, n) == {}

Unrelated(m, n) ==
    {id \in {First(containsResource(got[m].resources, buildResources(r), AnyData)).id :
               r \in RoutesOf(n) \ Missing(m, n)} :
       ~containsRoleResRel(got[m].relations, roleIDs[m][n], id)}

\* The rows AddResource makes for routes rs, numbered in some order.
NewResources(rs) ==
    LET names == {buildResources(r) : r \in rs}
        number == CHOOSE f \in [names -> 1 .. Cardinality(names)] :
                    \A a, b \in names : a # b => f[a] # f[b]
    IN {[id |-> Cardinality(resources) + number[n], name |-> n, data |-> AnyData] : n \in names}

\* AddResource for one role, the roles in the order of a map; without a resource
\* to add there is no call.
AddResource(m) ==
    /\ upc[m] = "upload"
    /\ \E n \in left[m] :
         LET rows == NewResources(Missing(m, n)) IN
         \/ /\ resources' = resources \cup rows
            /\ role' = [role EXCEPT ![m] = n]
            /\ resIds' = [resIds EXCEPT ![m] = Unrelated(m, n) \cup {r.id : r \in rows}]
            /\ At(m, "relate")
            /\ UNCHANGED <<got, roleIDs, left>>
         \/ /\ rows # {}
            /\ resources' \in {resources, resources \cup rows}
            /\ Fails(m)
    /\ UNCHANGED <<roles, relations, uploads, filled>>

\* The relations AddRoleResourceRelations of the service makes.
Related(m) == {roleIDs[m][role[m]]} \X resIds[m]

\* AddRoleResourceRelations; after the last role the upload is finished.
AddRoleResourceRelations(m) ==
    /\ upc[m] = "relate"
    /\ LET n == role[m]
           pairs == Related(m)
       IN \/ /\ relations' = relations \cup pairs /\ left[m] # {n}
             /\ left' = [left EXCEPT ![m] = @ \ {n}]
             /\ At(m, "upload")
             /\ UNCHANGED <<got, roleIDs, role, resIds, filled>>
          \/ /\ relations' = relations \cup pairs /\ left[m] = {n}
             /\ Returned(m)
             /\ filled' = filled \cup {[name |-> k, id |-> roleIDs[m][k]] : k \in RoleNames}
          \/ /\ relations' \in {relations, relations \cup pairs}
             /\ Fails(m)
             /\ UNCHANGED filled
    /\ UNCHANGED <<roles, resources, uploads>>

-----------------------------------------------------------------------------
(* The administrator of the auth service (external). *)

\* A restricted resource is given to a role.
Relate(r, res) ==
    /\ r.name \in RoleNames /\ res.data # AnyData /\ <<r.id, res.id>> \notin relations
    /\ relations' = relations \cup {<<r.id, res.id>>}
    /\ UNCHANGED <<roles, resources, uploadVars, uploads, filled>>

-----------------------------------------------------------------------------
(* Requests.  The filter only reads, so it is the set of its answers in a *)
(* state, for a user with the roles rs.                                   *)

\* Authorized: a jwt signed with the manager's secret and not older than TTL, or
\* else a Maya-Token whose user and secret the auth service accepts.
Decrypt(t) == t.signed /\ t.age <= TTL
request(reached) == reached
queryTokenFromOauth2BySecret(t, reached) == request(reached) /\ t.signed
getUserByToken(reached) == request(reached)
LoginBySecret(t, reached) == queryTokenFromOauth2BySecret(t, reached) /\ getUserByToken(reached)
Authorized(t, reached) ==
    \/ t.kind = "jwt" /\ Decrypt(t)
    \/ t.kind = "maya" /\ LoginBySecret(t, reached)

\* Resources of a user, by the ids of the user's roles.
GetUserResources(rs) == {res \in resources : \E r \in rs : <<r, res.id>> \in relations}

\* Those named like the request that decide: "*", and the ones restricted to other
\* parameters.
Decisive(rs, n, p) == {res \in GetUserResources(rs) : res.name = n /\ res.data # p}

\* Authenticated: in the order the service lists them, "*" lets the request
\* through and one restricted to other parameters refuses it, so the first one
\* decides; without any the request is refused.  The set of possible answers.
Authenticated(rs, n, p) ==
    IF Decisive(rs, n, p) = {} THEN {FALSE} ELSE {res.data = AnyData : res \in Decisive(rs, n, p)}

isExcluded(r) == r.path \in Excludes

\* AuthFilter: excluded paths pass; a request without a valid token, and one whose
\* user's resources cannot be fetched, do not.
AuthFilter(rs, r, p, t, reached) ==
    IF isExcluded(r) THEN {TRUE}
    ELSE IF Authorized(t, reached) /\ reached THEN Authenticated(rs, parseReqResource(r), p)
    ELSE {FALSE}

AuthNext ==
    \/ \E m \in Managers : \/ GetAllRole(m) \/ GetAllResources(m) \/ AddRole(m)
                           \/ AddResource(m) \/ AddRoleResourceRelations(m)
    \/ \E r \in roles, res \in resources : Relate(r, res)

AuthSpec == AuthInit /\ [][AuthNext]_authVars

-----------------------------------------------------------------------------
(* Property. *)

\* A user of a role that a finished upload has filled is served every route of
\* that role: with a valid token, an auth service that answers, and no resource
\* of the same name that is restricted to other parameters.  So uploads that
\* failed half way, were repeated or ran side by side leave no route without a
\* resource or a relation, and the filter looks resources up by the name they
\* were uploaded with (auth_manager.go, UploadAuthRolesAndResources, AuthFilter).
RoleServed ==
    \A f \in filled, other \in roles, p \in Params : \A r \in RoutesOf(f.name) :
        LET rs == {f.id, other.id} IN
        \/ \E res \in Decisive(rs, parseReqResource(r), p) : res.data # AnyData
        \/ \A t \in Tokens : Authorized(t, TRUE) => AuthFilter(rs, r, p, t, TRUE) = {TRUE}
=============================================================================
