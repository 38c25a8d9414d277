---------------------------- MODULE PolicyStore -----------------------------
(***************************************************************************)
(* What the handlers of policy administration share: the collections of    *)
(* MongoDB (roles, permissions, resource templates, versions), the policy  *)
(* and data files with the OPA server that watches them, the roles of      *)
(* Keycloak, and the requests.  pc[r] is the next call of request r,       *)
(* loc[r] what its handler holds.                                          *)
(***************************************************************************)
EXTENDS Integers, Sequences, FiniteSets

CONSTANTS
    MaxRoles,    \* bound on the roles that are ever created
    Codes,       \* codes of roles
    Labels,      \* names of roles, each with an order of its permissions
    Perms,       \* keys of permissions
    Given,       \* the permission sets clients of an instance give
    Templates,   \* resource templates, by module and path
    Contents,    \* the resources of a permission, the methods of a template
    Scanned,     \* the templates the route scanner knows, in its order
    Bulk,        \* bound on the items of a bulk request
    Requests,    \* requests that may be in flight at the same time
    MaxRequests, \* bound on the requests of a behaviour that make several calls
    MaxChanges,  \* bound on those that are one write
    Policies,    \* the policy file an instance starts with
    Clients,     \* whether Keycloak has the client at the start
    Features     \* the parts of the API and the faults of an instance

None == "none"

ASSUME PolicyAssumption ==
    /\ {MaxRoles, MaxRequests, MaxChanges, Bulk} \subseteq Nat
    /\ None \notin Perms \cup Contents \cup Codes \cup Labels
    /\ Given \subseteq SUBSET Perms
    /\ Scanned \in Seq([key : Templates, content : Contents])
    /\ Policies \subseteq {"none", "foreign", "rules"}
    /\ Clients \subseteq BOOLEAN

VARIABLES
    roles,       \* the fncroles collection, by order of insertion
    permissions, \* the permissionconfigs collection
    templates,   \* the resourcetemplates collection
    versions,    \* the versions collection, in the order they were saved
    rego,        \* the policy file
    data,        \* the payload in the data file
    taken,       \* a history: the payloads OPA was given by a PUT
    live,        \* what OPA holds
    notified,    \* a file was written since OPA last loaded them
    cut,         \* a history: a PUT to OPA was followed by no file since
    answered,    \* a history: the last payload a client was told is published
    keycloak,    \* its client, roles and composites
    granted,     \* a history: the permissions roles of a code have had
    begun,       \* how many requests of several calls have arrived
    changed,     \* how many of one write
    pc, loc

catalog   == <<roles, permissions, templates, granted>>
published == <<versions, rego, data, taken, live, notified, cut, answered>>
vars      == <<catalog, published, keycloak, begun, changed, pc, loc>>

RoleIds == 1..MaxRoles

RoleRec == [state : {"absent", "stored", "deleted"},
            code  : Codes \cup {None},
            label : Labels \cup {None},
            perms : SUBSET Perms]

NoRole == [state |-> "absent", code |-> None, label |-> None, perms |-> {}]

(* Mongoose gives the resources of a permission new _ids whenever they are *)
(* written: edition counts the writes of a key and stands for the _ids.    *)
PermissionRec == [content : Contents \cup {None}, edition : Nat]

NoPermission == [content |-> None, edition |-> 0]

(* A payload of publish: two are equal when the texts that are hashed are. *)
(* The text has the _ids of the resources, and so never repeats once a     *)
(* permission was written or deleted and added again; templates are never  *)
(* deleted, which fixes their order; and of the roles it has the names,    *)
(* the lists and the order of the codes, here those listed before each.    *)
Listing  == [listed : BOOLEAN, before : SUBSET Codes,
             label  : Labels \cup {None}, perms : SUBSET Perms]
Snapshot == [templates   : [Templates -> Contents \cup {None}],
             permissions : [Perms -> PermissionRec],
             roles       : [Codes -> Listing]]

NotListed == [listed |-> FALSE, before |-> {}, label |-> None, perms |-> {}]

(* A payload with nothing in it, which also stands for the files as they   *)
(* were delivered.                                                         *)
Empty == [templates   |-> [t \in Templates |-> None],
          permissions |-> [p \in Perms |-> NoPermission],
          roles       |-> [c \in Codes |-> NotListed]]

(* A version: its text, and a history: how many versions there were when   *)
(* the publish that saved it looked for one.                               *)
VersionRec == [text : Snapshot, found : Nat]

(* OPA's document data.app: the payload, or one level below it.            *)
LiveRec == [nested : BOOLEAN, payload : Snapshot]

KeycloakRec == [client      : BOOLEAN,
                mapper      : BOOLEAN,
                clientRoles : SUBSET Perms,
                realmRoles  : SUBSET Codes,
                composites  : [Codes -> SUBSET Perms]]

Item    == [key : Templates \cup Perms, content : Contents]
RoleDoc == [id : RoleIds, code : Codes, perms : SUBSET Perms]

Steps == {"Idle", "CreateRole", "UpsertTemplate", "UpsertPermission",
          "ReadPermissions", "ReadRoles", "FindVersion", "SaveVersion",
          "PutData", "WriteFiles",
          "Client", "AddClient", "Mapper", "Permission", "AddPermission",
          "Realm", "AddRealm", "Compose"}

LocRec == [code  : Codes \cup {None},  \* the role to be created, or synchronised
           label : Labels \cup {None},
           perms : SUBSET Perms,
           items : Seq(Item),          \* what a bulk request has left to write
           draft : Snapshot,           \* the payload being built
           found : Nat,                \* a history: the versions it looked among
           todo  : SUBSET RoleDoc,     \* the roles a sync has left
           left  : SUBSET Perms,       \* permissions of the role without client role
           made  : SUBSET Perms]       \* those whose client role is there

Blank == [code |-> None, label |-> None, perms |-> {}, items |-> <<>>, draft |-> Empty,
          found |-> 0, todo |-> {}, left |-> {}, made |-> {}]

TypeOK ==
    /\ roles \in [RoleIds -> RoleRec]
    /\ permissions \in [Perms -> PermissionRec]
    /\ templates \in [Templates -> Contents \cup {None}]
    /\ versions \in Seq(VersionRec)
    /\ rego \in {"none", "foreign", "rules", "broken"}
    /\ data \in Snapshot
    /\ taken \subseteq Snapshot
    /\ live \in LiveRec
    /\ {notified, cut} \subseteq BOOLEAN
    /\ answered \in Snapshot
    /\ keycloak \in KeycloakRec
    /\ granted \in [Codes -> SUBSET Perms]
    /\ begun \in Nat
    /\ changed \in Nat
    /\ pc \in [Requests -> Steps]
    /\ loc \in [Requests -> LocRec]

Init ==
    /\ roles = [i \in RoleIds |-> NoRole]
    /\ permissions = Empty.permissions
    /\ templates = Empty.templates
    /\ versions = <<>>
    /\ rego \in Policies
    /\ data = Empty
    /\ taken = {}
    /\ live = [nested |-> FALSE, payload |-> Empty]
    /\ notified = FALSE
    /\ cut = FALSE
    /\ answered = Empty
    /\ keycloak \in {[client |-> c, mapper |-> FALSE, clientRoles |-> {},
                      realmRoles |-> {}, composites |-> [d \in Codes |-> {}]]
                       : c \in Clients}
    /\ granted = [c \in Codes |-> {}]
    /\ begun = 0
    /\ changed = 0
    /\ pc = [r \in Requests |-> "Idle"]
    /\ loc = [r \in Requests |-> Blank]

Goto(r, step, l) == /\ pc' = [pc EXCEPT ![r] = step]
                    /\ loc' = [loc EXCEPT ![r] = l]

Finish(r) == Goto(r, "Idle", Blank)

(* A request arrives. *)
Begin(r) == /\ pc[r] = "Idle"
            /\ begun < MaxRequests
            /\ begun' = begun + 1
            /\ UNCHANGED changed

(* A request that is one write is served at once.                          *)
Serve == changed < MaxChanges /\ changed' = changed + 1 /\ UNCHANGED <<begun, pc, loc>>

-----------------------------------------------------------------------------
Carries(i, code) == roles[i].state = "stored" /\ roles[i].code = code

(* No index orders the roles: a filter on a code finds the oldest first,   *)
(* and a find of all lists them by age.                                    *)
Oldest(code) == {i \in RoleIds : /\ Carries(i, code)
                                 /\ \A j \in RoleIds : Carries(j, code) => i <= j}

CallFails == "failures" \in Features

=============================================================================
