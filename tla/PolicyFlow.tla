----------------------------- MODULE PolicyFlow -----------------------------
(***************************************************************************)
(* Policy administration: its catalog, publishing to OPA and the           *)
(* synchronisation with Keycloak together, with crashes.                   *)
(***************************************************************************)
EXTENDS PolicyCatalog, PolicyPublish, PolicySync

StartRequest(r) ==
    \/ CreateRoleRead(r)
    \/ TemplatesRead(r)
    \/ PermissionsRead(r)
    \/ PublishRead(r)
    \/ SyncRead(r)

(* The handlers that are one write.                                        *)
Change ==
    \/ UpdateRole
    \/ DeleteRole
    \/ FncRoleCreate
    \/ FncRoleUpdate
    \/ FncRoleDelete
    \/ DeletePermission

CatalogStep(r) ==
    \/ CreateRole(r)
    \/ UpsertTemplate(r)
    \/ UpsertPermission(r)
    \/ SaveFails(r)

PublishStep(r) ==
    \/ ReadPermissions(r)
    \/ ReadRoles(r)
    \/ FindVersion(r)
    \/ SaveVersion(r)
    \/ PutData(r)
    \/ PutUnanswered(r)
    \/ WriteFiles(r)
    \/ WritePolicyFails(r)
    \/ WriteDataFails(r)
    \/ PublishFails(r)

SyncStep(r) ==
    \/ Client(r)
    \/ AddClient(r)
    \/ Mapper(r)
    \/ Permission(r)
    \/ AddPermission(r)
    \/ Realm(r)
    \/ AddRealm(r)
    \/ Compose(r)
    \/ SyncFails(r)

Step(r) == CatalogStep(r) \/ PublishStep(r) \/ SyncStep(r)

(* The process stops with its requests; what they had put into OPA or      *)
(* Keycloak stays.                                                         *)
Crash ==
    /\ "crash" \in Features
    /\ \E r \in Requests : pc[r] # "Idle"
    /\ pc' = [r \in Requests |-> "Idle"]
    /\ loc' = [r \in Requests |-> Blank]
    /\ cut' = (cut \/ \E r \in Requests : pc[r] = "WriteFiles")
    /\ UNCHANGED <<catalog, versions, rego, data, taken, live, notified, answered, keycloak,
                   begun, changed>>

Next ==
    \/ \E r \in Requests :
         \/ StartRequest(r)
         \/ Step(r) /\ UNCHANGED <<begun, changed>>
    \/ Change
    \/ Reload
    \/ OpaRestart
    \/ Crash

Spec == Init /\ [][Next]_vars

-----------------------------------------------------------------------------
(* OPA is not left behind the data file: unless it is about to load it,    *)
(* or cannot read the policy, or a publish stopped between the PUT to OPA  *)
(* and the files, it holds what the file holds.                            *)
OpaFollowsFile ==
    \/ live = Loaded
    \/ notified
    \/ rego = "broken"
    \/ cut
    \/ \E r \in Requests : pc[r] = "WriteFiles"

(* Publishing a payload again, whatever was published or changed since,    *)
(* saves no second version of it: two versions are equal only when the     *)
(* later one's publish had looked for it before the earlier was saved.     *)
RepeatsOnlyFromRaces ==
    \A i, j \in 1..Len(versions) :
        i < j /\ versions[i].text = versions[j].text => versions[j].found < i

(* The index on the hash is unique, the guide says: a payload has one      *)
(* version.  The schema's index is not.                                    *)
OneVersionPerHash ==
    \A i, j \in 1..Len(versions) : versions[i].text = versions[j].text => i = j

(* Neither Keycloak nor a version nor OPA gives a role a permission that   *)
(* no stored role of its code ever had, whatever a sync or a publish held  *)
(* while the roles changed.                                                *)
OnlyGranted ==
    \A c \in Codes :
        /\ keycloak.composites[c] \subseteq granted[c]
        /\ \A v \in Versions : v.roles[c].perms \subseteq granted[c]
        /\ live.payload.roles[c].perms \subseteq granted[c]

(* Publishing is a register: only a saved version is given to OPA, OPA     *)
(* holds nothing but what it was given, whenever and from whichever file   *)
(* it loads, and clients are told only of what OPA was given.              *)
Register == INSTANCE PolicyRegister
                WITH Payloads <- Snapshot, Initially <- Empty, registered <- Versions,
                     given <- taken, held <- live.payload, announced <- answered

Registered == Register!Spec

=============================================================================
