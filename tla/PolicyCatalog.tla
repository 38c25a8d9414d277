---------------------------- MODULE PolicyCatalog ---------------------------
(***************************************************************************)
(* Roles, permissions and resource templates, as PolicyService, the route  *)
(* scanner and FncRoleService change them.  A handler that makes one write, *)
(* or looks a document up by its id first, is one action: the write finds  *)
(* or misses the document again.                                           *)
(***************************************************************************)
EXTENDS PolicyStore

(* A role is inserted after all others.                                    *)
Insert(code, label, perms) ==
    /\ \E i \in RoleIds :
         /\ roles[i].state = "absent"
         /\ \A j \in 1..(i - 1) : roles[j].state # "absent"
         /\ roles' = [roles EXCEPT ![i] =
                        [state |-> "stored", code |-> code, label |-> label, perms |-> perms]]
    /\ granted' = [granted EXCEPT ![code] = @ \cup perms]

(* Rewrites role i, with what the body gives.                              *)
Rewrite(i, code, label, perms) ==
    /\ roles' = [roles EXCEPT ![i].code = code, ![i].label = label, ![i].perms = perms]
    /\ granted' = [granted EXCEPT ![code] = @ \cup perms]

Remove(i) == roles' = [roles EXCEPT ![i] = [NoRole EXCEPT !.state = "deleted"]]

NotGiven == {None}

(* Bug: the update sets the permissions, given or not.                     *)
PermissionsOrUndefined(i, perms) == perms

(* Mongoose leaves a field out of the update when it is undefined.         *)
PermissionsGiven(i, perms) == IF perms = NotGiven THEN roles[i].perms ELSE perms

-----------------------------------------------------------------------------
(* createRole: the code is looked up, then the role is saved; the code has *)
(* no unique index.                                                        *)
CreateRoleRead(r) ==
    /\ Begin(r)
    /\ \E code \in Codes, label \in Labels, perms \in Given :
         /\ Oldest(code) = {}
         /\ Goto(r, "CreateRole",
                 [Blank EXCEPT !.code = code, !.label = label, !.perms = perms])
    /\ UNCHANGED <<catalog, published, keycloak>>

CreateRole(r) ==
    /\ pc[r] = "CreateRole"
    /\ Insert(loc[r].code, loc[r].label, loc[r].perms)
    /\ Finish(r)
    /\ UNCHANGED <<permissions, templates, published, keycloak>>

(* updateRole and bulkSetPermissions.                                      *)
UpdateRole ==
    /\ Serve
    /\ \E code \in Codes, label \in Labels, perms \in Given \cup {NotGiven}, i \in RoleIds :
         /\ i \in Oldest(code)
         /\ Rewrite(i, code, label, PermissionsGiven(i, perms))
    /\ UNCHANGED <<permissions, templates, published, keycloak>>

DeleteRole ==
    /\ Serve
    /\ \E code \in Codes : \E i \in Oldest(code) : Remove(i)
    /\ UNCHANGED <<permissions, templates, granted, published, keycloak>>

(* FncRoleService: any role, by its id, and with any code.                 *)
FncRoleCreate ==
    /\ "fncRoles" \in Features
    /\ Serve
    /\ \E code \in Codes, label \in Labels, perms \in Given : Insert(code, label, perms)
    /\ UNCHANGED <<permissions, templates, published, keycloak>>

FncRoleUpdate ==
    /\ "fncRoles" \in Features
    /\ Serve
    /\ \E i \in RoleIds, code \in Codes, label \in Labels, perms \in Given \cup {NotGiven} :
         /\ roles[i].state = "stored"
         /\ Rewrite(i, code, label, PermissionsGiven(i, perms))
    /\ UNCHANGED <<permissions, templates, published, keycloak>>

FncRoleDelete ==
    /\ "fncRoles" \in Features
    /\ Serve
    /\ \E i \in RoleIds : roles[i].state = "stored" /\ Remove(i)
    /\ UNCHANGED <<permissions, templates, granted, published, keycloak>>

-----------------------------------------------------------------------------
(* Bulk requests write their items one by one, each with an upsert.        *)
Items(keys) == UNION {[1..n -> [key : keys, content : Contents]] : n \in 1..Bulk}

(* The scan with apply writes the templates it knows.  With                *)
(* applyPermissions it writes nothing: no suggestion has a colon to split  *)
(* it at, and so none has a module.                                        *)
ScanItems == {Scanned} \ {<<>>}

TemplatesRead(r) ==
    /\ Begin(r)
    /\ \E items \in Items(Templates) \cup ScanItems :
         Goto(r, "UpsertTemplate", [Blank EXCEPT !.items = items])
    /\ UNCHANGED <<catalog, published, keycloak>>

PermissionsRead(r) ==
    /\ Begin(r)
    /\ \E items \in Items(Perms) :
         Goto(r, "UpsertPermission", [Blank EXCEPT !.items = items])
    /\ UNCHANGED <<catalog, published, keycloak>>

NextItem(r) ==
    IF Len(loc[r].items) = 1 THEN Finish(r)
    ELSE Goto(r, pc[r], [loc[r] EXCEPT !.items = Tail(@)])

UpsertTemplate(r) ==
    /\ pc[r] = "UpsertTemplate"
    /\ LET item == Head(loc[r].items)
       IN  templates' = [templates EXCEPT ![item.key] = item.content]
    /\ NextItem(r)
    /\ UNCHANGED <<roles, permissions, granted, published, keycloak>>

UpsertPermission(r) ==
    /\ pc[r] = "UpsertPermission"
    /\ LET item == Head(loc[r].items)
       IN  permissions' = [permissions EXCEPT ![item.key].content = item.content,
                                              ![item.key].edition = @ + 1]
    /\ NextItem(r)
    /\ UNCHANGED <<roles, templates, granted, published, keycloak>>

(* A save fails: what a bulk request has written before stays.             *)
SaveFails(r) ==
    /\ CallFails
    /\ pc[r] \in {"CreateRole", "UpsertTemplate", "UpsertPermission"}
    /\ Finish(r)
    /\ UNCHANGED <<catalog, published, keycloak>>

DeletePermission ==
    /\ Serve
    /\ \E p \in Perms : /\ permissions[p].content # None
                        /\ permissions' = [permissions EXCEPT ![p].content = None]
    /\ UNCHANGED <<roles, templates, granted, published, keycloak>>

=============================================================================
