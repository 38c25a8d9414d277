---------------------------- MODULE PolicyPublish ---------------------------
(***************************************************************************)
(* PolicyService.publish and OpaService.publishApp: the payload is built   *)
(* from three finds, saved as a version unless one has its hash, put into  *)
(* OPA, and written to the files OPA watches.                              *)
(***************************************************************************)
EXTENDS PolicyStore

Publishing == {"ReadPermissions", "ReadRoles", "FindVersion", "SaveVersion",
               "PutData", "WriteFiles"}

(* The object of roles by code: a code is listed where its oldest role is, *)
(* with what its newest has.                                               *)
Newest(code) == {i \in RoleIds : /\ Carries(i, code)
                                 /\ \A j \in RoleIds : Carries(j, code) => j <= i}

Before(code) == {c \in Codes : \E i \in Oldest(c), j \in Oldest(code) : i < j}

RoleListed(code, i) == [listed |-> TRUE, before |-> Before(code),
                        label  |-> roles[i].label, perms |-> roles[i].perms]

RolesData == [c \in Codes |-> IF Newest(c) = {} THEN NotListed
                              ELSE RoleListed(c, CHOOSE i \in Newest(c) : TRUE)]

(* Only the permissions that are stored are listed.                        *)
PermissionsData == [p \in Perms |-> IF permissions[p].content = None THEN NoPermission
                                    ELSE permissions[p]]

(* The publish reads templates, then permissions, then roles.              *)
PublishRead(r) ==
    /\ Begin(r)
    /\ Goto(r, "ReadPermissions", [Blank EXCEPT !.draft.templates = templates])
    /\ UNCHANGED <<catalog, versions, rego, data, taken, live, notified, cut, answered, keycloak>>

ReadPermissions(r) ==
    /\ pc[r] = "ReadPermissions"
    /\ Goto(r, "ReadRoles", [loc[r] EXCEPT !.draft.permissions = PermissionsData])
    /\ UNCHANGED <<catalog, published, keycloak>>

ReadRoles(r) ==
    /\ pc[r] = "ReadRoles"
    /\ Goto(r, "FindVersion", [loc[r] EXCEPT !.draft.roles = RolesData])
    /\ UNCHANGED <<catalog, published, keycloak>>

Versions == {versions[i].text : i \in 1..Len(versions)}

(* Bug: every publish saves a version.                                     *)
NeverSaved(payload) == FALSE

(* A version with the hash of the payload.                                 *)
Saved(payload) == payload \in Versions

(* A payload that has a version is published again all the same.           *)
Republish(r) == Goto(r, "PutData", loc[r])

FindVersion(r) ==
    /\ pc[r] = "FindVersion"
    /\ IF Saved(loc[r].draft) THEN Republish(r)
       ELSE Goto(r, "SaveVersion", [loc[r] EXCEPT !.found = Len(versions)])
    /\ UNCHANGED <<catalog, published, keycloak>>

SaveVersion(r) ==
    /\ pc[r] = "SaveVersion"
    /\ versions' = Append(versions, [text |-> loc[r].draft, found |-> loc[r].found])
    /\ Goto(r, "PutData", loc[r])
    /\ UNCHANGED <<catalog, rego, data, taken, live, notified, cut, answered, keycloak>>

-----------------------------------------------------------------------------
(* publishApp.  The PUT goes to data/app and its body is {app: ...}: OPA   *)
(* holds the payload as data.app.app until it loads the files, while its   *)
(* policy reads data.app.                                                  *)
PutData(r) ==
    /\ pc[r] = "PutData"
    /\ live' = [nested |-> TRUE, payload |-> loc[r].draft]
    /\ taken' = taken \cup {loc[r].draft}
    /\ Goto(r, "WriteFiles", loc[r])
    /\ UNCHANGED <<catalog, versions, rego, data, notified, cut, answered, keycloak>>

(* OPA takes the data, but its answer is lost.                             *)
PutUnanswered(r) ==
    /\ CallFails
    /\ pc[r] = "PutData"
    /\ live' = [nested |-> TRUE, payload |-> loc[r].draft]
    /\ taken' = taken \cup {loc[r].draft}
    /\ cut' = TRUE
    /\ Finish(r)
    /\ UNCHANGED <<catalog, versions, rego, data, notified, answered, keycloak>>

(* The generated rules are the policy when there is no file; a file of     *)
(* another kind, authz.rego or else policy.rego, gets them appended, and   *)
(* their package clause makes the result unreadable.                       *)
Merged(policy) ==
    CASE policy = "none"    -> "rules"
      [] policy = "foreign" -> "broken"
      [] OTHER              -> policy

(* Bug: the version saved last is written.                                 *)
FileOfLast(r) == versions[Len(versions)].text

FileWritten(r) == loc[r].draft

(* Bug: files whose content stays the same are not written.                *)
TouchedIfChanged(r) == data # loc[r].draft

(* The files are written whether or not their content changes.             *)
Touched(r) == TRUE

(* The policy file and the data file are written without a pause; OPA, in  *)
(* a process of its own, loads them some time later.                       *)
WriteFiles(r) ==
    /\ pc[r] = "WriteFiles"
    /\ rego' = Merged(rego)
    /\ data' = FileWritten(r)
    /\ notified' = (notified \/ Touched(r))
    /\ cut' = FALSE
    /\ answered' = loc[r].draft
    /\ Finish(r)
    /\ UNCHANGED <<catalog, versions, taken, live, keycloak>>

(* One of the writes fails: the first, or the second.                      *)
WritePolicyFails(r) ==
    /\ CallFails
    /\ pc[r] = "WriteFiles"
    /\ cut' = TRUE
    /\ Finish(r)
    /\ UNCHANGED <<catalog, versions, rego, data, taken, live, notified, answered, keycloak>>

WriteDataFails(r) ==
    /\ CallFails
    /\ pc[r] = "WriteFiles"
    /\ rego' = Merged(rego)
    /\ notified' = TRUE
    /\ cut' = FALSE
    /\ Finish(r)
    /\ UNCHANGED <<catalog, versions, data, taken, live, answered, keycloak>>

(* An earlier call of a publish fails: MongoDB's, OPA's health, the PUT.   *)
PublishFails(r) ==
    /\ CallFails
    /\ pc[r] \in Publishing \ {"WriteFiles"}
    /\ Finish(r)
    /\ UNCHANGED <<catalog, published, keycloak>>

-----------------------------------------------------------------------------
(* OPA loads its files after a write to them, or when it starts again.  A  *)
(* policy it cannot read leaves what it holds.                             *)
Loaded == [nested |-> FALSE, payload |-> data]

Reload ==
    /\ notified
    /\ notified' = FALSE
    /\ IF rego = "broken" THEN UNCHANGED <<live, cut>>
       ELSE live' = Loaded /\ cut' = FALSE
    /\ UNCHANGED <<catalog, versions, rego, data, taken, answered, keycloak,
                   begun, changed, pc, loc>>

OpaRestart ==
    /\ "opaRestart" \in Features
    /\ rego # "broken"
    /\ live' = Loaded
    /\ notified' = FALSE
    /\ cut' = FALSE
    /\ UNCHANGED <<catalog, versions, rego, data, taken, answered, keycloak,
                   begun, changed, pc, loc>>

=============================================================================
