----------------------------- MODULE PolicySync -----------------------------
(***************************************************************************)
(* SyncService and KeycloakAdminService: the roles read from MongoDB are   *)
(* made realm roles of Keycloak, their permissions client roles, and the   *)
(* client roles composites of the realm role.  One action per call; the    *)
(* calls that find a thing and the calls that add it are apart.            *)
(***************************************************************************)
EXTENDS PolicyStore

RoleDocs == {[id |-> i, code |-> roles[i].code, perms |-> roles[i].perms] :
                i \in {j \in RoleIds : roles[j].state = "stored"}}

(* The role a sync works on: the first that is left.                       *)
Current(todo) == {d \in todo : \A e \in todo : d.id <= e.id}

(* Bug: the list of client roles is kept from one role to the next.        *)
MadeKept(l) == l.made

MadeAfresh(l) == {}

(* The sync takes the next role, if there is one.                          *)
TakeRole(r, todo) ==
    IF todo = {} THEN Finish(r)
    ELSE \E d \in Current(todo) :
           Goto(r, "Permission",
                [loc[r] EXCEPT !.todo = todo \ {d}, !.code = d.code, !.perms = {},
                               !.left = d.perms, !.made = MadeAfresh(loc[r])])

SyncRead(r) ==
    /\ Begin(r)
    /\ RoleDocs # {}
    /\ Goto(r, "Client", [Blank EXCEPT !.todo = RoleDocs])
    /\ UNCHANGED <<catalog, published, keycloak>>

-----------------------------------------------------------------------------
(* The client and its protocol mapper.  Without the client the sync fails, *)
(* without the mapper it goes on.                                          *)
Client(r) ==
    /\ pc[r] = "Client"
    /\ Goto(r, IF keycloak.client THEN "Mapper" ELSE "AddClient", loc[r])
    /\ UNCHANGED <<catalog, published, keycloak>>

AddClient(r) ==
    /\ pc[r] = "AddClient"
    /\ IF keycloak.client THEN Finish(r) /\ UNCHANGED keycloak
       ELSE /\ keycloak' = [keycloak EXCEPT !.client = TRUE]
            /\ Goto(r, "Mapper", loc[r])
    /\ UNCHANGED <<catalog, published>>

(* Whether the mapper is found, added, or neither, the sync goes on.       *)
Mapper(r) ==
    /\ pc[r] = "Mapper"
    /\ \/ keycloak' = [keycloak EXCEPT !.mapper = TRUE]
       \/ CallFails /\ UNCHANGED keycloak
    /\ TakeRole(r, loc[r].todo)
    /\ UNCHANGED <<catalog, published>>

-----------------------------------------------------------------------------
(* One role: a client role for each permission, the realm role, the        *)
(* composites.  The role is skipped when a call fails, an insert of what   *)
(* another sync has inserted meanwhile too.                                *)
Skip(r) == TakeRole(r, loc[r].todo)

HasClientRole(r, p) ==
    Goto(r, "Permission", [loc[r] EXCEPT !.perms = {}, !.left = @ \ {p},
                                          !.made = @ \cup {p}])

Permission(r) ==
    /\ pc[r] = "Permission"
    /\ \/ loc[r].left = {} /\ Goto(r, "Realm", loc[r])
       \/ \E p \in loc[r].left :
            IF p \in keycloak.clientRoles THEN HasClientRole(r, p)
            ELSE Goto(r, "AddPermission", [loc[r] EXCEPT !.perms = {p}])
    /\ UNCHANGED <<catalog, published, keycloak>>

AddPermission(r) ==
    /\ pc[r] = "AddPermission"
    /\ \E p \in loc[r].perms :
         IF p \in keycloak.clientRoles THEN Skip(r) /\ UNCHANGED keycloak
         ELSE /\ keycloak' = [keycloak EXCEPT !.clientRoles = @ \cup {p}]
              /\ HasClientRole(r, p)
    /\ UNCHANGED <<catalog, published>>

Realm(r) ==
    /\ pc[r] = "Realm"
    /\ Goto(r, IF loc[r].code \in keycloak.realmRoles THEN "Compose" ELSE "AddRealm", loc[r])
    /\ UNCHANGED <<catalog, published, keycloak>>

AddRealm(r) ==
    /\ pc[r] = "AddRealm"
    /\ IF loc[r].code \in keycloak.realmRoles THEN Skip(r) /\ UNCHANGED keycloak
       ELSE /\ keycloak' = [keycloak EXCEPT !.realmRoles = @ \cup {loc[r].code}]
            /\ Goto(r, "Compose", loc[r])
    /\ UNCHANGED <<catalog, published>>

(* The client roles are fetched again, those whose fetch fails are left    *)
(* out, and the rest are added to the composites: none is ever removed.    *)
Compose(r) ==
    /\ pc[r] = "Compose"
    /\ \E got \in IF CallFails THEN SUBSET loc[r].made ELSE {loc[r].made} :
         keycloak' = [keycloak EXCEPT !.composites[loc[r].code] = @ \cup got]
    /\ TakeRole(r, loc[r].todo)
    /\ UNCHANGED <<catalog, published>>

(* A call fails: before the roles the sync ends, later the role is skipped. *)
SyncFails(r) ==
    /\ CallFails
    /\ \/ pc[r] \in {"Client", "AddClient"} /\ Finish(r)
       \/ pc[r] \in {"Permission", "AddPermission", "Realm", "AddRealm"} /\ Skip(r)
    /\ UNCHANGED <<catalog, published, keycloak>>

=============================================================================
