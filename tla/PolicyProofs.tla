---------------------------- MODULE PolicyProofs ---------------------------
(***************************************************************************)
(* Theorems about PolicyFlow, for every set of codes, permissions,         *)
(* templates and requests.                                                 *)
(***************************************************************************)
EXTENDS PolicyFlow, SequenceTheorems, TLAPS

Upserts   == {"UpsertTemplate", "UpsertPermission"}
RoleCalls == {"Permission", "AddPermission", "Realm", "AddRealm", "Compose"}

(* What a request holds when it performs a call.                           *)
Holds(step, l) ==
    /\ step \in RoleCalls \cup {"CreateRole"} => l.code \in Codes
    /\ step \in Upserts => l.items # <<>>

HoldsOK == \A r \in Requests : Holds(pc[r], loc[r])

RolesOK == \A i \in RoleIds : roles[i].state = "stored" => roles[i].code \in Codes

TypeInv == TypeOK /\ HoldsOK /\ RolesOK

-----------------------------------------------------------------------------
(* Data. *)

LEMMA EmptyType == Empty \in Snapshot
  BY DEF Empty, Snapshot, Listing, NotListed, PermissionRec, NoPermission

LEMMA BlankType == Blank \in LocRec /\ Holds("Idle", Blank)
  <1>1. <<>> \in Seq(Item)
    OBVIOUS
  <1> QED
    BY <1>1, EmptyType DEF Blank, LocRec, Holds, Upserts, RoleCalls

(* The object of roles has one role of each code that is stored.           *)
LEMMA RolesDataCases ==
  ASSUME NEW c \in Codes
  PROVE  \/ RolesData[c] = NotListed
         \/ \E i \in Newest(c) : RolesData[c] = RoleListed(c, i)
  <1>1. CASE Newest(c) = {}
    BY <1>1 DEF RolesData
  <1>2. CASE Newest(c) # {}
    <2>1. (CHOOSE i \in Newest(c) : TRUE) \in Newest(c)
      BY <1>2
    <2>2. RolesData[c] = RoleListed(c, CHOOSE i \in Newest(c) : TRUE)
      BY <1>2 DEF RolesData
    <2> QED BY <2>1, <2>2
  <1> QED BY <1>1, <1>2

LEMMA RolesDataType ==
  ASSUME TypeOK PROVE RolesData \in [Codes -> Listing]
  <1>1. ASSUME NEW c \in Codes PROVE RolesData[c] \in Listing
    <2>1. NotListed \in Listing
      BY DEF NotListed, Listing
    <2>2. ASSUME NEW i \in Newest(c) PROVE RoleListed(c, i) \in Listing
      <3>1. roles[i] \in RoleRec
        BY DEF Newest, TypeOK
      <3>2. Before(c) \subseteq Codes
        BY DEF Before
      <3> QED BY <3>1, <3>2 DEF RoleListed, Listing, RoleRec
    <2> QED BY <2>1, <2>2, RolesDataCases
  <1>2. RolesData = [c \in Codes |-> RolesData[c]]
    BY DEF RolesData
  <1> QED BY <1>1, <1>2

LEMMA PermissionsDataType ==
  ASSUME TypeOK PROVE PermissionsData \in [Perms -> PermissionRec]
  BY DEF TypeOK, PermissionsData, PermissionRec, NoPermission

LEMMA RoleDocsType ==
  ASSUME TypeInv PROVE RoleDocs \subseteq RoleDoc
  BY DEF TypeInv, TypeOK, RolesOK, RoleDocs, RoleDoc, RoleRec

LEMMA LoadedType ==
  ASSUME data \in Snapshot PROVE Loaded \in LiveRec
  BY DEF Loaded, LiveRec

(* The items of a bulk request are a sequence that is not empty.           *)
LEMMA ItemsType ==
  ASSUME NEW keys \in SUBSET (Templates \cup Perms), NEW items \in Items(keys)
  PROVE  items \in Seq(Item) /\ items # <<>>
  <1>1. Bulk \in Nat
    BY PolicyAssumption
  <1>2. PICK n \in 1 .. Bulk : items \in [1 .. n -> [key : keys, content : Contents]]
    BY DEF Items
  <1>3. n \in Nat /\ n >= 1
    BY <1>1, <1>2
  <1>4. items \in [1 .. n -> Item]
    BY <1>2 DEF Item
  <1>5. items \in Seq(Item)
    BY <1>3, <1>4
  <1>6. Len(items) = n
    BY <1>3, <1>4
  <1> QED BY <1>3, <1>5, <1>6

-----------------------------------------------------------------------------
(* Type correctness, action by action. *)

(* Going to a next call with typed locals keeps the requests typed.        *)
LEMMA GotoType ==
  ASSUME TypeInv, NEW r \in Requests, NEW step \in Steps, NEW l \in LocRec,
         Goto(r, step, l), Holds(step, l)
  PROVE  pc' \in [Requests -> Steps] /\ loc' \in [Requests -> LocRec] /\ HoldsOK'
  <1>1. ASSUME NEW q \in Requests PROVE Holds(pc[q], loc[q])'
    BY DEF TypeInv, TypeOK, Goto, HoldsOK, Holds
  <1> QED BY <1>1 DEF TypeInv, TypeOK, HoldsOK, Goto

(* The last step of a handler keeps the requests typed.                    *)
LEMMA FinishType ==
  ASSUME TypeInv, NEW r \in Requests, Finish(r)
  PROVE  pc' \in [Requests -> Steps] /\ loc' \in [Requests -> LocRec] /\ HoldsOK'
  BY GotoType, BlankType DEF Finish, Steps

(* A step that changes nothing but the request.                            *)
LEMMA ReadType ==
  ASSUME TypeInv, NEW r \in Requests, NEW step \in Steps, NEW l \in LocRec,
         Goto(r, step, l), Holds(step, l),
         UNCHANGED <<catalog, published, keycloak>>, begun' \in Nat, changed' \in Nat
  PROVE  TypeInv'
  BY GotoType DEF TypeInv, TypeOK, RolesOK, catalog, published

LEMMA GiveUpType ==
  ASSUME TypeInv, NEW r \in Requests, Finish(r),
         UNCHANGED <<catalog, published, keycloak>>, begun' \in Nat, changed' \in Nat
  PROVE  TypeInv'
  BY FinishType DEF TypeInv, TypeOK, RolesOK, catalog, published

LEMMA BeginType ==
  ASSUME TypeOK, NEW r, Begin(r) PROVE begun' \in Nat /\ changed' \in Nat
  BY DEF TypeOK, Begin

(* A request that is one write of the roles.                               *)
LEMMA InsertType ==
  ASSUME TypeInv, NEW code \in Codes, NEW label \in Labels \cup {None},
         NEW perms \in SUBSET Perms, Insert(code, label, perms)
  PROVE  roles' \in [RoleIds -> RoleRec] /\ RolesOK' /\ granted' \in [Codes -> SUBSET Perms]
  BY DEF TypeInv, TypeOK, RolesOK, Insert, RoleRec

LEMMA RewriteType ==
  ASSUME TypeInv, NEW i \in RoleIds, NEW code \in Codes,
         NEW label \in Labels \cup {None}, NEW perms \in SUBSET Perms,
         Rewrite(i, code, label, perms)
  PROVE  roles' \in [RoleIds -> RoleRec] /\ RolesOK' /\ granted' \in [Codes -> SUBSET Perms]
  <1>1. roles' = [roles EXCEPT ![i].code = code, ![i].label = label, ![i].perms = perms]
    BY DEF Rewrite
  <1>2. roles \in [RoleIds -> RoleRec]
    BY DEF TypeInv, TypeOK
  <1>3. roles' \in [RoleIds -> RoleRec]
    BY <1>1, <1>2 DEF RoleRec
  <1>4. RolesOK'
    BY <1>1, <1>2 DEF TypeInv, RolesOK, RoleRec
  <1>5. granted' \in [Codes -> SUBSET Perms]
    BY DEF TypeInv, TypeOK, Rewrite
  <1> QED BY <1>3, <1>4, <1>5

LEMMA RemoveType ==
  ASSUME TypeInv, NEW i \in RoleIds, Remove(i)
  PROVE  roles' \in [RoleIds -> RoleRec] /\ RolesOK'
  BY DEF TypeInv, TypeOK, RolesOK, Remove, RoleRec, NoRole

LEMMA GivenType ==
  ASSUME TypeInv, NEW i \in RoleIds, NEW perms \in Given \cup {NotGiven}
  PROVE  PermissionsGiven(i, perms) \in SUBSET Perms
  BY PolicyAssumption DEF TypeInv, TypeOK, RoleRec, PermissionsGiven

(* The handlers that are one write.                                        *)
LEMMA ServeType ==
  ASSUME TypeInv, Serve, roles' \in [RoleIds -> RoleRec], RolesOK',
         granted' \in [Codes -> SUBSET Perms], UNCHANGED <<permissions, templates, published, keycloak>>
  PROVE  TypeInv'
  BY DEF TypeInv, TypeOK, HoldsOK, Serve, published

LEMMA ChangeType ==
  ASSUME TypeInv, Change PROVE TypeInv'
  <1>1. CASE UpdateRole
    <2>1. PICK code \in Codes, label \in Labels, perms \in Given \cup {NotGiven}, i \in RoleIds :
            Rewrite(i, code, label, PermissionsGiven(i, perms))
      BY <1>1 DEF UpdateRole
    <2> QED BY <1>1, <2>1, GivenType, RewriteType, ServeType DEF UpdateRole
  <1>2. CASE DeleteRole
    <2>1. PICK code \in Codes : \E i \in Oldest(code) : Remove(i)
      BY <1>2 DEF DeleteRole
    <2>2. PICK i \in RoleIds : Remove(i)
      BY <2>1 DEF Oldest
    <2> QED BY <1>2, <2>2, RemoveType, ServeType DEF DeleteRole, TypeInv, TypeOK
  <1>3. CASE FncRoleCreate
    BY <1>3, PolicyAssumption, InsertType, ServeType DEF FncRoleCreate
  <1>4. CASE FncRoleUpdate
    <2>1. PICK i \in RoleIds, code \in Codes, label \in Labels, perms \in Given \cup {NotGiven} :
            Rewrite(i, code, label, PermissionsGiven(i, perms))
      BY <1>4 DEF FncRoleUpdate
    <2> QED BY <1>4, <2>1, GivenType, RewriteType, ServeType DEF FncRoleUpdate
  <1>5. CASE FncRoleDelete
    BY <1>5, RemoveType, ServeType DEF FncRoleDelete, TypeInv, TypeOK
  <1>6. CASE DeletePermission
    BY <1>6 DEF DeletePermission, Serve, TypeInv, TypeOK, PermissionRec, HoldsOK, RolesOK,
                published
  <1> QED BY <1>1, <1>2, <1>3, <1>4, <1>5, <1>6 DEF Change

-----------------------------------------------------------------------------
(* The catalog's requests. *)

LEMMA CreateRoleReadType ==
  ASSUME TypeInv, NEW r \in Requests, CreateRoleRead(r) PROVE TypeInv'
  <1>1. PICK code \in Codes, label \in Labels, perms \in Given :
          Goto(r, "CreateRole", [Blank EXCEPT !.code = code, !.label = label, !.perms = perms])
    BY DEF CreateRoleRead
  <1> DEFINE l == [Blank EXCEPT !.code = code, !.label = label, !.perms = perms]
  <1>2. l \in LocRec /\ Holds("CreateRole", l)
    BY BlankType, PolicyAssumption DEF LocRec, Holds, Upserts
  <1>3. begun' \in Nat /\ changed' \in Nat
    BY BeginType DEF TypeInv, CreateRoleRead
  <1> HIDE DEF l
  <1> QED BY <1>1, <1>2, <1>3, ReadType DEF CreateRoleRead, Steps, l

LEMMA BulkReadType ==
  ASSUME TypeInv, NEW r \in Requests, NEW step \in Upserts,
         NEW items \in Seq(Item), items # <<>>,
         Goto(r, step, [Blank EXCEPT !.items = items]), Begin(r),
         UNCHANGED <<catalog, published, keycloak>>
  PROVE  TypeInv'
  <1> DEFINE l == [Blank EXCEPT !.items = items]
  <1>1. l \in LocRec /\ Holds(step, l)
    BY BlankType DEF LocRec, Holds, Upserts, RoleCalls
  <1>2. begun' \in Nat /\ changed' \in Nat
    BY BeginType DEF TypeInv
  <1>3. step \in Steps
    BY DEF Upserts, Steps
  <1> HIDE DEF l
  <1> QED BY <1>1, <1>2, <1>3, ReadType DEF l

LEMMA TemplatesReadType ==
  ASSUME TypeInv, NEW r \in Requests, TemplatesRead(r) PROVE TypeInv'
  <1>1. PICK items \in Items(Templates) \cup ScanItems :
          Goto(r, "UpsertTemplate", [Blank EXCEPT !.items = items])
    BY DEF TemplatesRead
  <1>2. items \in Seq(Item) /\ items # <<>>
    <2>1. CASE items \in Items(Templates)
      BY <2>1, ItemsType
    <2>2. CASE items \in ScanItems
      <3>1. items \in Seq([key : Templates, content : Contents]) /\ items # <<>>
        BY <2>2, PolicyAssumption DEF ScanItems
      <3>2. [key : Templates, content : Contents] \subseteq Item
        BY DEF Item
      <3> QED BY <3>1, <3>2, SeqMonotonic
    <2> QED BY <2>1, <2>2
  <1> QED BY <1>1, <1>2, BulkReadType DEF TemplatesRead, Upserts

LEMMA PermissionsReadType ==
  ASSUME TypeInv, NEW r \in Requests, PermissionsRead(r) PROVE TypeInv'
  BY ItemsType, BulkReadType DEF PermissionsRead, Upserts

(* The list of a bulk request grows shorter, and is typed until it ends.   *)
LEMMA NextItemType ==
  ASSUME TypeInv, NEW r \in Requests, pc[r] \in Upserts, NextItem(r)
  PROVE  pc' \in [Requests -> Steps] /\ loc' \in [Requests -> LocRec] /\ HoldsOK'
  <1>1. CASE Len(loc[r].items) = 1
    BY <1>1, FinishType DEF NextItem
  <1>2. CASE Len(loc[r].items) # 1
    <2>1. loc[r] \in LocRec /\ loc[r].items \in Seq(Item) /\ loc[r].items # <<>>
      BY DEF TypeInv, TypeOK, LocRec, HoldsOK, Holds
    <2>2. Tail(loc[r].items) \in Seq(Item) /\ Tail(loc[r].items) # <<>>
      <3> DEFINE s == loc[r].items
      <3>1. s \in Seq(Item) /\ s # <<>> /\ Len(s) # 1
        BY <1>2, <2>1
      <3> HIDE DEF s
      <3>2. Len(s) \in Nat /\ Len(s) > 0 /\ Tail(s) \in Seq(Item)
        BY <3>1
      <3>3. Len(Tail(s)) = Len(s) - 1
        BY <3>1, <3>2
      <3>4. Tail(s) # <<>>
        BY <3>1, <3>2, <3>3, EmptySeq
      <3> QED BY <3>2, <3>4 DEF s
    <2> DEFINE l == [loc[r] EXCEPT !.items = Tail(@)]
    <2>3. l \in LocRec /\ Holds(pc[r], l)
      BY <2>1, <2>2 DEF LocRec, Holds, Upserts, RoleCalls
    <2>4. Goto(r, pc[r], l) /\ pc[r] \in Steps
      BY <1>2 DEF NextItem, Upserts, Steps
    <2> HIDE DEF l
    <2> QED BY <2>3, <2>4, GotoType
  <1> QED BY <1>1, <1>2

LEMMA ItemType ==
  ASSUME TypeInv, NEW r \in Requests, pc[r] \in Upserts
  PROVE  Head(loc[r].items) \in Item
  BY DEF TypeInv, TypeOK, LocRec, HoldsOK, Holds

LEMMA CatalogStepType ==
  ASSUME TypeInv, NEW r \in Requests, CatalogStep(r), UNCHANGED <<begun, changed>>
  PROVE  TypeInv'
  <1>1. CASE CreateRole(r)
    <2>1. loc[r].code \in Codes /\ loc[r].label \in Labels \cup {None}
          /\ loc[r].perms \in SUBSET Perms
      BY <1>1 DEF CreateRole, TypeInv, TypeOK, LocRec, HoldsOK, Holds
    <2>2. /\ roles' \in [RoleIds -> RoleRec] /\ RolesOK'
          /\ granted' \in [Codes -> SUBSET Perms]
      BY <1>1, <2>1, InsertType DEF CreateRole
    <2> QED BY <1>1, <2>2, FinishType DEF CreateRole, TypeInv, TypeOK, published
  <1>2. CASE UpsertTemplate(r)
    <2>1. pc[r] \in Upserts /\ Head(loc[r].items) \in Item
      BY <1>2, ItemType DEF UpsertTemplate, Upserts
    <2>2. templates' \in [Templates -> Contents \cup {None}]
      BY <1>2, <2>1 DEF UpsertTemplate, TypeInv, TypeOK, Item
    <2> QED BY <1>2, <2>1, <2>2, NextItemType
            DEF UpsertTemplate, TypeInv, TypeOK, RolesOK, published
  <1>3. CASE UpsertPermission(r)
    <2>1. pc[r] \in Upserts /\ Head(loc[r].items) \in Item
      BY <1>3, ItemType DEF UpsertPermission, Upserts
    <2>2. permissions' \in [Perms -> PermissionRec]
      <3> DEFINE item == Head(loc[r].items)
      <3>1. permissions \in [Perms -> PermissionRec] /\ item.content \in Contents
        BY <2>1 DEF TypeInv, TypeOK, Item
      <3>2. permissions' = [permissions EXCEPT ![item.key].content = item.content,
                                               ![item.key].edition = @ + 1]
        BY <1>3 DEF UpsertPermission
      <3> HIDE DEF item
      <3>3. ASSUME NEW p \in Perms PROVE permissions'[p] \in PermissionRec
        <4>1. CASE p = item.key
          <5>1. permissions'[p] = [permissions[p] EXCEPT !.content = item.content,
                                                         !.edition = @ + 1]
            BY <3>1, <3>2, <4>1
          <5>2. permissions[p] \in PermissionRec /\ permissions[p].edition + 1 \in Nat
            BY <3>1 DEF PermissionRec
          <5>3. permissions'[p] = [content |-> item.content,
                                   edition |-> permissions[p].edition + 1]
            BY <5>1, <5>2 DEF PermissionRec
          <5> QED BY <3>1, <5>2, <5>3 DEF PermissionRec
        <4>2. CASE p # item.key
          BY <3>1, <3>2, <4>2
        <4> QED BY <4>1, <4>2
      <3>4. permissions' = [p \in Perms |-> permissions'[p]]
        BY <3>1, <3>2
      <3> QED BY <3>3, <3>4
    <2> QED BY <1>3, <2>1, <2>2, NextItemType
            DEF UpsertPermission, TypeInv, TypeOK, RolesOK, published
  <1>4. CASE SaveFails(r)
    BY <1>4, GiveUpType DEF SaveFails, TypeInv, TypeOK
  <1> QED BY <1>1, <1>2, <1>3, <1>4 DEF CatalogStep

-----------------------------------------------------------------------------
(* Publishing. *)

LEMMA PublishReadType ==
  ASSUME TypeInv, NEW r \in Requests, PublishRead(r) PROVE TypeInv'
  <1> DEFINE l == [Blank EXCEPT !.draft.templates = templates]
  <1>1. l \in LocRec /\ Holds("ReadPermissions", l)
    BY BlankType DEF LocRec, Snapshot, TypeInv, TypeOK, Holds, Upserts, RoleCalls
  <1>2. begun' \in Nat /\ changed' \in Nat
    BY BeginType DEF TypeInv, PublishRead
  <1>3. Goto(r, "ReadPermissions", l)
    BY DEF PublishRead
  <1> HIDE DEF l
  <1>4. pc' \in [Requests -> Steps] /\ loc' \in [Requests -> LocRec] /\ HoldsOK'
    BY <1>1, <1>3, GotoType DEF Steps
  <1> QED BY <1>2, <1>3, <1>4 DEF PublishRead, TypeInv, TypeOK, RolesOK, catalog

LEMMA PublishStepType ==
  ASSUME TypeInv, NEW r \in Requests, PublishStep(r), UNCHANGED <<begun, changed>>
  PROVE  TypeInv'
  <1>0. begun' \in Nat /\ changed' \in Nat /\ loc[r] \in LocRec /\ loc[r].draft \in Snapshot
    BY DEF TypeInv, TypeOK, LocRec
  <1>1. CASE ReadPermissions(r)
    <2> DEFINE l == [loc[r] EXCEPT !.draft.permissions = PermissionsData]
    <2>1. l \in LocRec /\ Holds("ReadRoles", l) /\ Goto(r, "ReadRoles", l)
      BY <1>0, <1>1, PermissionsDataType
         DEF ReadPermissions, LocRec, Snapshot, TypeInv, Holds, Upserts, RoleCalls
    <2> HIDE DEF l
    <2> QED BY <1>0, <1>1, <2>1, ReadType DEF ReadPermissions, Steps
  <1>2. CASE ReadRoles(r)
    <2> DEFINE l == [loc[r] EXCEPT !.draft.roles = RolesData]
    <2>1. l \in LocRec /\ Holds("FindVersion", l) /\ Goto(r, "FindVersion", l)
      BY <1>0, <1>2, RolesDataType DEF ReadRoles, LocRec, Snapshot, TypeInv, Holds, Upserts,
                        RoleCalls
    <2> HIDE DEF l
    <2> QED BY <1>0, <1>2, <2>1, ReadType DEF ReadRoles, Steps
  <1>3. ASSUME NEW step \in {"SaveVersion", "PutData", "WriteFiles"}, NEW l \in LocRec,
               Goto(r, step, l)
        PROVE  pc' \in [Requests -> Steps] /\ loc' \in [Requests -> LocRec] /\ HoldsOK'
    <2>1. Holds(step, l) /\ step \in Steps
      BY DEF Holds, Upserts, RoleCalls, Steps
    <2> QED BY <1>0, <1>3, <2>1, GotoType
  <1>4. CASE FindVersion(r)
    <2> DEFINE l == [loc[r] EXCEPT !.found = Len(versions)]
    <2>0. Len(versions) \in Nat
      BY DEF TypeInv, TypeOK
    <2>1. l \in LocRec
      BY <1>0, <2>0 DEF LocRec
    <2>2. Goto(r, "PutData", loc[r]) \/ Goto(r, "SaveVersion", l)
      BY <1>4 DEF FindVersion, Republish
    <2> HIDE DEF l
    <2> QED BY <1>0, <1>3, <1>4, <2>1, <2>2
            DEF FindVersion, TypeInv, TypeOK, RolesOK, catalog, published
  <1>5. CASE SaveVersion(r)
    <2>1. versions' \in Seq(VersionRec)
      <3>1. [text |-> loc[r].draft, found |-> loc[r].found] \in VersionRec
        BY <1>0 DEF LocRec, VersionRec
      <3> QED BY <1>5, <3>1 DEF SaveVersion, TypeInv, TypeOK
    <2> QED BY <1>0, <1>3, <1>5, <2>1 DEF SaveVersion, TypeInv, TypeOK, RolesOK, catalog
  <1>6. CASE PutData(r)
    <2>1. live' \in LiveRec
      BY <1>0, <1>6 DEF PutData, LiveRec
    <2> QED BY <1>0, <1>3, <1>6, <2>1 DEF PutData, TypeInv, TypeOK, RolesOK, catalog
  <1>7. CASE PutUnanswered(r)
    <2>1. live' \in LiveRec
      BY <1>0, <1>7 DEF PutUnanswered, LiveRec
    <2> QED BY <1>0, <1>7, <2>1, FinishType DEF PutUnanswered, TypeInv, TypeOK, RolesOK, catalog
  <1>8. rego \in {"none", "foreign", "rules", "broken"} =>
          Merged(rego) \in {"none", "foreign", "rules", "broken"}
    BY DEF Merged
  <1>9. CASE WriteFiles(r)
    BY <1>0, <1>8, <1>9, FinishType
       DEF WriteFiles, FileWritten, Touched, TypeInv, TypeOK, RolesOK, catalog
  <1>10. CASE WritePolicyFails(r)
    BY <1>0, <1>10, FinishType DEF WritePolicyFails, TypeInv, TypeOK, RolesOK, catalog
  <1>11. CASE WriteDataFails(r)
    BY <1>0, <1>8, <1>11, FinishType DEF WriteDataFails, TypeInv, TypeOK, RolesOK, catalog
  <1>12. CASE PublishFails(r)
    BY <1>0, <1>12, GiveUpType DEF PublishFails
  <1> QED BY <1>1, <1>2, <1>4, <1>5, <1>6, <1>7, <1>9, <1>10, <1>11, <1>12 DEF PublishStep

LEMMA OpaType ==
  ASSUME TypeInv, Reload \/ OpaRestart PROVE TypeInv'
  <1>1. Loaded \in LiveRec
    BY LoadedType DEF TypeInv, TypeOK
  <1>2. CASE Reload
    BY <1>1, <1>2 DEF Reload, TypeInv, TypeOK, RolesOK, HoldsOK, catalog
  <1>3. CASE OpaRestart
    BY <1>1, <1>3 DEF OpaRestart, TypeInv, TypeOK, RolesOK, HoldsOK, catalog
  <1> QED BY <1>2, <1>3

-----------------------------------------------------------------------------
(* Synchronising. *)

(* The sync goes to the next role, or ends.                                *)
LEMMA TakeRoleType ==
  ASSUME TypeInv, NEW r \in Requests, NEW todo \in SUBSET RoleDoc, TakeRole(r, todo)
  PROVE  pc' \in [Requests -> Steps] /\ loc' \in [Requests -> LocRec] /\ HoldsOK'
  <1>1. CASE todo = {}
    BY <1>1, FinishType DEF TakeRole
  <1>2. CASE todo # {}
    <2>1. PICK d \in Current(todo) :
            Goto(r, "Permission",
                 [loc[r] EXCEPT !.todo = todo \ {d}, !.code = d.code, !.perms = {},
                                !.left = d.perms, !.made = MadeAfresh(loc[r])])
      BY <1>2 DEF TakeRole
    <2> DEFINE l == [loc[r] EXCEPT !.todo = todo \ {d}, !.code = d.code, !.perms = {},
                                   !.left = d.perms, !.made = MadeAfresh(loc[r])]
    <2>2. d \in RoleDoc
      BY <2>1 DEF Current
    <2>3. l \in LocRec /\ Holds("Permission", l)
      BY <2>2 DEF RoleDoc, MadeAfresh, LocRec, TypeInv, TypeOK, Holds, Upserts
    <2> HIDE DEF l
    <2> QED BY <2>1, <2>3, GotoType DEF Steps, l
  <1> QED BY <1>1, <1>2

LEMMA SyncReadType ==
  ASSUME TypeInv, NEW r \in Requests, SyncRead(r) PROVE TypeInv'
  <1> DEFINE l == [Blank EXCEPT !.todo = RoleDocs]
  <1>1. l \in LocRec /\ Holds("Client", l)
    BY BlankType, RoleDocsType DEF LocRec, Holds, Upserts, RoleCalls
  <1>2. begun' \in Nat /\ changed' \in Nat
    BY BeginType DEF TypeInv, SyncRead
  <1>3. Goto(r, "Client", l)
    BY DEF SyncRead
  <1> HIDE DEF l
  <1> QED BY <1>1, <1>2, <1>3, ReadType DEF SyncRead, Steps

(* A permission whose client role is there.                                *)
LEMMA HasClientRoleType ==
  ASSUME TypeInv, NEW r \in Requests, NEW p \in Perms, pc[r] \in RoleCalls,
         HasClientRole(r, p)
  PROVE  pc' \in [Requests -> Steps] /\ loc' \in [Requests -> LocRec] /\ HoldsOK'
  <1> DEFINE l == [loc[r] EXCEPT !.perms = {}, !.left = @ \ {p}, !.made = @ \cup {p}]
  <1>1. l \in LocRec /\ Holds("Permission", l) /\ Goto(r, "Permission", l)
    BY DEF HasClientRole, LocRec, TypeInv, TypeOK, HoldsOK, Holds, Upserts
  <1> HIDE DEF l
  <1> QED BY <1>1, GotoType DEF Steps

LEMMA SyncStepType ==
  ASSUME TypeInv, NEW r \in Requests, SyncStep(r), UNCHANGED <<begun, changed>>
  PROVE  TypeInv'
  <1>0. /\ begun' \in Nat /\ changed' \in Nat
        /\ loc[r] \in LocRec /\ loc[r].todo \in SUBSET RoleDoc /\ loc[r].left \in SUBSET Perms
        /\ loc[r].made \in SUBSET Perms /\ loc[r].perms \in SUBSET Perms
        /\ keycloak \in KeycloakRec
    BY DEF TypeInv, TypeOK, LocRec
  <1>1. ASSUME pc' \in [Requests -> Steps] /\ loc' \in [Requests -> LocRec] /\ HoldsOK',
               keycloak' \in KeycloakRec, UNCHANGED <<catalog, published>>
        PROVE  TypeInv'
    BY <1>0, <1>1 DEF TypeInv, TypeOK, RolesOK, catalog, published
  <1>2. ASSUME NEW step \in {"AddClient", "Mapper", "Realm", "AddRealm", "Compose"},
               step \in RoleCalls => pc[r] \in RoleCalls, Goto(r, step, loc[r])
        PROVE  pc' \in [Requests -> Steps] /\ loc' \in [Requests -> LocRec] /\ HoldsOK'
    <2>1. Holds(step, loc[r]) /\ step \in Steps
      BY <1>2 DEF TypeInv, HoldsOK, Holds, Upserts, RoleCalls, Steps
    <2> QED BY <1>0, <1>2, <2>1, GotoType
  <1>3. CASE Client(r)
    BY <1>0, <1>1, <1>2, <1>3 DEF Client, RoleCalls
  <1>4. CASE AddClient(r)
    <2>1. CASE keycloak.client
      BY <1>0, <1>1, <1>4, <2>1, FinishType DEF AddClient
    <2>2. CASE ~keycloak.client
      <3>1. keycloak' \in KeycloakRec
        BY <1>0, <1>4, <2>2 DEF AddClient, KeycloakRec
      <3> QED BY <1>1, <1>2, <1>4, <2>2, <3>1 DEF AddClient, RoleCalls
    <2> QED BY <2>1, <2>2
  <1>5. CASE Mapper(r)
    <2>1. keycloak' \in KeycloakRec
      BY <1>0, <1>5 DEF Mapper, KeycloakRec
    <2> QED BY <1>0, <1>1, <1>5, <2>1, TakeRoleType DEF Mapper
  <1>6. CASE Permission(r)
    <2>1. CASE loc[r].left = {} /\ Goto(r, "Realm", loc[r])
      BY <1>0, <1>1, <1>2, <1>6, <2>1 DEF Permission, RoleCalls
    <2>2. ASSUME NEW p \in loc[r].left, HasClientRole(r, p) PROVE TypeInv'
      BY <1>0, <1>1, <1>6, <2>2, HasClientRoleType DEF Permission, RoleCalls
    <2>3. ASSUME NEW p \in loc[r].left,
                 Goto(r, "AddPermission", [loc[r] EXCEPT !.perms = {p}])
          PROVE  TypeInv'
      <3> DEFINE l == [loc[r] EXCEPT !.perms = {p}]
      <3>1. l \in LocRec /\ Holds("AddPermission", l)
        BY <1>0, <1>6 DEF Permission, LocRec, TypeInv, HoldsOK, Holds, Upserts, RoleCalls
      <3> HIDE DEF l
      <3>2. pc' \in [Requests -> Steps] /\ loc' \in [Requests -> LocRec] /\ HoldsOK'
        BY <2>3, <3>1, GotoType DEF Steps, l
      <3> QED BY <1>0, <1>1, <1>6, <3>2 DEF Permission
    <2> QED BY <1>6, <2>1, <2>2, <2>3 DEF Permission
  <1>7. CASE AddPermission(r)
    <2>1. PICK p \in loc[r].perms :
            IF p \in keycloak.clientRoles THEN Skip(r) /\ UNCHANGED keycloak
            ELSE /\ keycloak' = [keycloak EXCEPT !.clientRoles = @ \cup {p}]
                 /\ HasClientRole(r, p)
      BY <1>7 DEF AddPermission
    <2>2. CASE p \in keycloak.clientRoles
      BY <1>0, <1>1, <1>7, <2>1, <2>2, TakeRoleType DEF AddPermission, Skip
    <2>3. CASE p \notin keycloak.clientRoles
      <3>1. keycloak' \in KeycloakRec
        BY <1>0, <2>1, <2>3 DEF KeycloakRec
      <3> QED BY <1>0, <1>1, <1>7, <2>1, <2>3, <3>1, HasClientRoleType
              DEF AddPermission, RoleCalls
    <2> QED BY <2>2, <2>3
  <1>8. CASE Realm(r)
    BY <1>0, <1>1, <1>2, <1>8 DEF Realm, RoleCalls
  <1>9. CASE AddRealm(r)
    <2>1. CASE loc[r].code \in keycloak.realmRoles
      BY <1>0, <1>1, <1>9, <2>1, TakeRoleType DEF AddRealm, Skip
    <2>2. CASE loc[r].code \notin keycloak.realmRoles
      <3>1. loc[r].code \in Codes
        BY <1>9 DEF AddRealm, TypeInv, HoldsOK, Holds, RoleCalls
      <3>2. keycloak' \in KeycloakRec
        BY <1>0, <1>9, <2>2, <3>1 DEF AddRealm, KeycloakRec
      <3> QED BY <1>1, <1>2, <1>9, <2>2, <3>2 DEF AddRealm, RoleCalls
    <2> QED BY <2>1, <2>2
  <1>10. CASE Compose(r)
    <2>1. PICK got \in SUBSET loc[r].made :
            keycloak' = [keycloak EXCEPT !.composites[loc[r].code] = @ \cup got]
      BY <1>10 DEF Compose
    <2>2. keycloak' \in KeycloakRec
      BY <1>0, <2>1 DEF KeycloakRec
    <2> QED BY <1>0, <1>1, <1>10, <2>2, TakeRoleType DEF Compose
  <1>11. CASE SyncFails(r)
    BY <1>0, <1>1, <1>11, FinishType, TakeRoleType DEF SyncFails, Skip
  <1> QED BY <1>3, <1>4, <1>5, <1>6, <1>7, <1>8, <1>9, <1>10, <1>11 DEF SyncStep

-----------------------------------------------------------------------------
LEMMA CrashType ==
  ASSUME TypeInv, Crash PROVE TypeInv'
  BY BlankType DEF Crash, TypeInv, TypeOK, HoldsOK, RolesOK, Steps, catalog

LEMMA InitType ==
  ASSUME Init PROVE TypeInv
  <1>1. rego \in {"none", "foreign", "rules", "broken"}
    BY PolicyAssumption DEF Init
  <1>2. keycloak \in KeycloakRec
    <2>1. PICK c \in Clients :
            keycloak = [client |-> c, mapper |-> FALSE, clientRoles |-> {},
                        realmRoles |-> {}, composites |-> [d \in Codes |-> {}]]
      BY DEF Init
    <2> QED BY <2>1, PolicyAssumption DEF KeycloakRec
  <1>3. live \in LiveRec /\ data \in Snapshot /\ answered \in Snapshot
        /\ permissions \in [Perms -> PermissionRec]
        /\ templates \in [Templates -> Contents \cup {None}]
    BY EmptyType DEF Init, LiveRec, Snapshot
  <1>4. versions \in Seq(VersionRec)
    BY DEF Init
  <1>5. roles \in [RoleIds -> RoleRec] /\ RolesOK
    BY DEF Init, RoleRec, NoRole, RolesOK
  <1>6. pc \in [Requests -> Steps] /\ loc \in [Requests -> LocRec] /\ HoldsOK
    BY BlankType DEF Init, Steps, HoldsOK
  <1> QED BY <1>1, <1>2, <1>3, <1>4, <1>5, <1>6 DEF Init, TypeInv, TypeOK

LEMMA NextType ==
  ASSUME TypeInv, [Next]_vars PROVE TypeInv'
  <1>1. CASE UNCHANGED vars
    BY <1>1 DEF vars, catalog, published, TypeInv, TypeOK, HoldsOK, RolesOK
  <1>2. ASSUME NEW r \in Requests, StartRequest(r) PROVE TypeInv'
    BY <1>2, CreateRoleReadType, TemplatesReadType, PermissionsReadType, PublishReadType,
       SyncReadType DEF StartRequest
  <1>3. ASSUME NEW r \in Requests, Step(r), UNCHANGED <<begun, changed>> PROVE TypeInv'
    BY <1>3, CatalogStepType, PublishStepType, SyncStepType DEF Step
  <1> QED BY <1>1, <1>2, <1>3, ChangeType, OpaType, CrashType DEF Next

(* Every variable keeps its type, whatever fails or stops half way.        *)
THEOREM TypeCorrect == Spec => []TypeOK
  <1>1. Spec => []TypeInv
    BY InitType, NextType, PTL DEF Spec
  <1>2. TypeInv => TypeOK
    BY DEF TypeInv
  <1> QED BY <1>1, <1>2, PTL

-----------------------------------------------------------------------------
(* Steps that leave publishing alone: they change nothing that is           *)
(* published, and no request that publishes.                                *)
Aside ==
    /\ UNCHANGED published
    /\ \A q \in Requests :
         /\ pc[q] \in Publishing => pc'[q] = pc[q]
         /\ pc'[q] \in Publishing => pc'[q] = pc[q] /\ loc'[q] = loc[q]

LEMMA AsideGoto ==
  ASSUME TypeOK, NEW r \in Requests, NEW step, NEW l, Goto(r, step, l),
         pc[r] \notin Publishing, step \notin Publishing, UNCHANGED published
  PROVE  Aside
  BY DEF TypeOK, Goto, Aside

LEMMA AsideFinish ==
  ASSUME TypeOK, NEW r \in Requests, Finish(r), pc[r] \notin Publishing, UNCHANGED published
  PROVE  Aside
  <1>1. "Idle" \notin Publishing
    BY DEF Publishing
  <1> QED BY <1>1, AsideGoto DEF Finish

LEMMA AsideTakeRole ==
  ASSUME TypeOK, NEW r \in Requests, NEW todo, TakeRole(r, todo), pc[r] \notin Publishing,
         UNCHANGED published
  PROVE  Aside
  <1>1. "Permission" \notin Publishing
    BY DEF Publishing
  <1>2. CASE todo = {}
    BY <1>2, AsideFinish DEF TakeRole
  <1>3. CASE todo # {}
    BY <1>1, <1>3, AsideGoto DEF TakeRole
  <1> QED BY <1>2, <1>3

LEMMA AsideStart ==
  ASSUME TypeInv, NEW r \in Requests, StartRequest(r), ~PublishRead(r)
  PROVE  Aside
  <1>1. "Idle" \notin Publishing /\ "CreateRole" \notin Publishing
        /\ "UpsertTemplate" \notin Publishing /\ "UpsertPermission" \notin Publishing
        /\ "Client" \notin Publishing
    BY DEF Publishing
  <1>2. TypeOK
    BY DEF TypeInv
  <1> QED BY <1>1, <1>2, AsideGoto
          DEF StartRequest, Begin, CreateRoleRead, TemplatesRead, PermissionsRead, SyncRead

LEMMA AsideCatalog ==
  ASSUME TypeInv, NEW r \in Requests, CatalogStep(r)
  PROVE  Aside
  <1>1. "CreateRole" \notin Publishing
        /\ "UpsertTemplate" \notin Publishing /\ "UpsertPermission" \notin Publishing
    BY DEF Publishing
  <1>2. TypeOK
    BY DEF TypeInv
  <1>3. ASSUME pc[r] \in Upserts, NextItem(r), UNCHANGED published PROVE Aside
    BY <1>1, <1>2, <1>3, AsideGoto, AsideFinish DEF NextItem, Upserts
  <1>4. CASE CreateRole(r)
    BY <1>1, <1>2, <1>4, AsideFinish DEF CreateRole
  <1>5. CASE UpsertTemplate(r)
    BY <1>3, <1>5 DEF UpsertTemplate, Upserts
  <1>6. CASE UpsertPermission(r)
    BY <1>3, <1>6 DEF UpsertPermission, Upserts
  <1>7. CASE SaveFails(r)
    BY <1>1, <1>2, <1>7, AsideFinish DEF SaveFails
  <1> QED BY <1>4, <1>5, <1>6, <1>7 DEF CatalogStep

LEMMA AsideSync ==
  ASSUME TypeInv, NEW r \in Requests, SyncStep(r)
  PROVE  Aside
  <1>0. TypeOK /\ UNCHANGED published
    BY DEF TypeInv, SyncStep, Client, AddClient, Mapper, Permission, AddPermission, Realm,
           AddRealm, Compose, SyncFails
  <1>1. \A step \in {"Client", "AddClient", "Mapper"} \cup RoleCalls : step \notin Publishing
    BY DEF Publishing, RoleCalls
  <1>2. pc[r] \in {"Client", "AddClient", "Mapper"} \cup RoleCalls
    BY DEF SyncStep, Client, AddClient, Mapper, Permission, AddPermission, Realm,
           AddRealm, Compose, SyncFails, RoleCalls
  <1>3. ASSUME NEW step \in {"Client", "AddClient", "Mapper"} \cup RoleCalls, NEW l,
               Goto(r, step, l)
        PROVE  Aside
    BY <1>0, <1>1, <1>2, <1>3, AsideGoto
  <1>4. ASSUME NEW todo, TakeRole(r, todo) PROVE Aside
    BY <1>0, <1>1, <1>2, <1>4, AsideTakeRole
  <1>5. Finish(r) => Aside
    BY <1>0, <1>1, <1>2, AsideFinish
  <1>6. \A p : HasClientRole(r, p) => Aside
    BY <1>3 DEF HasClientRole, RoleCalls
  <1> QED BY <1>3, <1>4, <1>5, <1>6
          DEF SyncStep, Client, AddClient, Mapper, Permission, AddPermission, Realm, AddRealm,
              Compose, SyncFails, Skip, RoleCalls

LEMMA AsideChange ==
  ASSUME Change \/ UNCHANGED vars PROVE Aside
  BY DEF Change, UpdateRole, DeleteRole, FncRoleCreate, FncRoleUpdate, FncRoleDelete,
         DeletePermission, Serve, Aside, vars

(* Every step is one of publishing, one of OPA, a crash, or aside.         *)
LEMMA StepKinds ==
  ASSUME TypeInv, [Next]_vars
  PROVE  \/ \E r \in Requests : PublishRead(r) \/ PublishStep(r)
         \/ Reload \/ OpaRestart
         \/ Crash
         \/ Aside
  BY AsideStart, AsideCatalog, AsideSync, AsideChange DEF Next, Step

-----------------------------------------------------------------------------
(* OPA and the data file. *)

LEMMA FollowFrame ==
  ASSUME OpaFollowsFile, UNCHANGED <<rego, data, live, notified, cut>>,
         \A q \in Requests : pc[q] = "WriteFiles" => pc'[q] = "WriteFiles"
  PROVE  OpaFollowsFile'
  BY DEF OpaFollowsFile, Loaded

LEMMA FollowGoto ==
  ASSUME TypeOK, OpaFollowsFile, NEW r \in Requests, NEW step, NEW l, Goto(r, step, l),
         pc[r] # "WriteFiles", UNCHANGED <<rego, data, live, notified, cut>>
  PROVE  OpaFollowsFile'
  <1>1. \A q \in Requests : pc[q] = "WriteFiles" => pc'[q] = "WriteFiles"
    BY DEF TypeOK, Goto
  <1> QED BY <1>1, FollowFrame

LEMMA FollowStep ==
  ASSUME TypeInv, OpaFollowsFile, [Next]_vars PROVE OpaFollowsFile'
  <1>0. TypeOK
    BY DEF TypeInv
  <1>1. ASSUME NEW r \in Requests, PublishRead(r) PROVE OpaFollowsFile'
    BY <1>0, <1>1, FollowGoto DEF PublishRead, Begin
  <1>2. ASSUME NEW r \in Requests, PublishStep(r) PROVE OpaFollowsFile'
    <2>1. CASE ReadPermissions(r)
      BY <1>0, <2>1, FollowGoto DEF ReadPermissions, published
    <2>2. CASE ReadRoles(r)
      BY <1>0, <2>2, FollowGoto DEF ReadRoles, published
    <2>3. CASE FindVersion(r)
      BY <1>0, <2>3, FollowGoto DEF FindVersion, Republish, published
    <2>4. CASE SaveVersion(r)
      BY <1>0, <2>4, FollowGoto DEF SaveVersion
    <2>5. CASE PutData(r)
      <3>1. pc'[r] = "WriteFiles"
        BY <1>0, <2>5 DEF PutData, Goto, TypeOK
      <3> QED BY <3>1 DEF OpaFollowsFile
    <2>6. CASE PutUnanswered(r)
      BY <2>6 DEF PutUnanswered, OpaFollowsFile
    <2>7. CASE WriteFiles(r)
      BY <2>7 DEF WriteFiles, Touched, OpaFollowsFile
    <2>8. CASE WritePolicyFails(r)
      BY <2>8 DEF WritePolicyFails, OpaFollowsFile
    <2>9. CASE WriteDataFails(r)
      BY <2>9 DEF WriteDataFails, OpaFollowsFile
    <2>10. CASE PublishFails(r)
      BY <1>0, <2>10, FollowGoto DEF PublishFails, Finish, published
    <2> QED BY <1>2, <2>1, <2>2, <2>3, <2>4, <2>5, <2>6, <2>7, <2>8, <2>9, <2>10
            DEF PublishStep
  <1>3. CASE Reload
    BY <1>3 DEF Reload, OpaFollowsFile, Loaded
  <1>4. CASE OpaRestart
    BY <1>4 DEF OpaRestart, OpaFollowsFile, Loaded
  <1>5. CASE Crash
    BY <1>5 DEF Crash, OpaFollowsFile, Loaded
  <1>6. CASE Aside
    <2>1. \A q \in Requests : pc[q] = "WriteFiles" => pc'[q] = "WriteFiles"
      BY <1>6 DEF Aside, Publishing
    <2> QED BY <1>6, <2>1, FollowFrame DEF Aside, published
  <1> QED BY <1>1, <1>2, <1>3, <1>4, <1>5, <1>6, StepKinds

(* OPA is not left behind the data file, but for the cases the property    *)
(* names: a publish that has put its payload into OPA either writes the    *)
(* files, which OPA then loads, or is remembered as cut.                   *)
THEOREM OpaNotLeftBehind == Spec => []OpaFollowsFile
  <1>1. Init => OpaFollowsFile
    BY DEF Init, OpaFollowsFile, Loaded
  <1>2. Spec => []TypeInv
    BY InitType, NextType, PTL DEF Spec
  <1>3. TypeInv /\ OpaFollowsFile /\ [Next]_vars => OpaFollowsFile'
    BY FollowStep
  <1> QED BY <1>1, <1>2, <1>3, PTL DEF Spec

-----------------------------------------------------------------------------
(* The register of versions. *)

(* A payload is put into OPA only when it has a version, and the files are *)
(* written, and OPA told to load them, only with what it was given.        *)
DraftsSaved ==
    \A r \in Requests : pc[r] \in {"PutData", "WriteFiles"} => loc[r].draft \in Versions

DraftsTaken ==
    /\ \A r \in Requests : pc[r] = "WriteFiles" => loc[r].draft \in taken
    /\ data \in taken \cup {Empty}

GivenInv == DraftsSaved /\ DraftsTaken

LEMMA VersionsAppend ==
  ASSUME versions \in Seq(VersionRec), NEW v \in VersionRec, versions' = Append(versions, v)
  PROVE  /\ Versions' = Versions \cup {v.text}
         /\ Len(versions') = Len(versions) + 1 /\ Len(versions) \in Nat
         /\ \A i \in 1 .. Len(versions) : versions'[i] = versions[i]
         /\ versions'[Len(versions) + 1] = v
  <1>1. /\ Len(versions') = Len(versions) + 1 /\ Len(versions) \in Nat
        /\ \A i \in 1 .. Len(versions) : versions'[i] = versions[i]
        /\ versions'[Len(versions) + 1] = v
    OBVIOUS
  <1>2. 1 .. Len(versions') = (1 .. Len(versions)) \cup {Len(versions) + 1}
    BY <1>1
  <1> QED BY <1>1, <1>2 DEF Versions

LEMMA VersionsType ==
  ASSUME TypeOK PROVE Versions \subseteq Snapshot
  <1>1. \A i \in 1 .. Len(versions) : versions[i] \in VersionRec
    BY ElementOfSeq DEF TypeOK
  <1> QED BY <1>1 DEF Versions, VersionRec

(* The version a publish saves.                                            *)
LEMMA SaveAppends ==
  ASSUME TypeOK, NEW r \in Requests, SaveVersion(r)
  PROVE  /\ Versions' = Versions \cup {loc[r].draft} /\ loc[r].draft \in Snapshot
         /\ Len(versions') = Len(versions) + 1 /\ Len(versions) \in Nat
         /\ \A i \in 1 .. Len(versions) : versions'[i] = versions[i]
         /\ versions'[Len(versions) + 1].text = loc[r].draft
         /\ versions'[Len(versions) + 1].found = loc[r].found
  <1>1. [text |-> loc[r].draft, found |-> loc[r].found] \in VersionRec /\ loc[r].draft \in Snapshot
    BY DEF TypeOK, LocRec, VersionRec
  <1> QED BY <1>1, VersionsAppend DEF SaveVersion, TypeOK

LEMMA GivenGoto ==
  ASSUME TypeOK, GivenInv, NEW r \in Requests, NEW step, NEW l, Goto(r, step, l),
         step \in {"PutData", "WriteFiles"} => l.draft \in Versions',
         step = "WriteFiles" => l.draft \in taken',
         data' \in taken' \cup {Empty},
         Versions \subseteq Versions', taken \subseteq taken'
  PROVE  GivenInv'
  BY DEF TypeOK, GivenInv, DraftsSaved, DraftsTaken, Goto

LEMMA GivenFrame ==
  ASSUME GivenInv, UNCHANGED <<versions, data, taken>>,
         \A q \in Requests : pc'[q] \in Publishing => pc'[q] = pc[q] /\ loc'[q] = loc[q]
  PROVE  GivenInv'
  <1>1. Versions' = Versions
    BY DEF Versions
  <1> QED BY <1>1 DEF GivenInv, DraftsSaved, DraftsTaken, Publishing

LEMMA GivenStep ==
  ASSUME TypeInv, GivenInv, [Next]_vars PROVE GivenInv'
  <1>0. TypeOK /\ data \in taken \cup {Empty}
    BY DEF TypeInv, GivenInv, DraftsTaken
  <1>1. ASSUME UNCHANGED versions PROVE Versions' = Versions
    BY <1>1 DEF Versions
  <1>2. ASSUME NEW r \in Requests, PublishRead(r) PROVE GivenInv'
    BY <1>0, <1>1, <1>2, GivenGoto DEF PublishRead
  <1>3. ASSUME NEW r \in Requests, PublishStep(r) PROVE GivenInv'
    <2>1. CASE ReadPermissions(r)
      BY <1>0, <1>1, <2>1, GivenGoto DEF ReadPermissions, published
    <2>2. CASE ReadRoles(r)
      BY <1>0, <1>1, <2>2, GivenGoto DEF ReadRoles, published
    <2>3. CASE FindVersion(r)
      BY <1>0, <1>1, <2>3, GivenGoto DEF FindVersion, Republish, Saved, published
    <2>4. CASE SaveVersion(r)
      BY <1>0, <2>4, SaveAppends, GivenGoto DEF SaveVersion
    <2>5. CASE PutData(r)
      <3>1. loc[r].draft \in Versions
        BY <2>5 DEF PutData, GivenInv, DraftsSaved
      <3>2. taken' = taken \cup {loc[r].draft} /\ data' = data /\ Versions' = Versions
        BY <1>1, <2>5 DEF PutData
      <3> QED BY <1>0, <2>5, <3>1, <3>2, GivenGoto DEF PutData
    <2>6. CASE PutUnanswered(r)
      <3>1. taken' = taken \cup {loc[r].draft} /\ data' = data /\ Versions' = Versions
        BY <1>1, <2>6 DEF PutUnanswered
      <3> QED BY <1>0, <2>6, <3>1, GivenGoto DEF PutUnanswered, Finish
    <2>7. CASE WriteFiles(r)
      <3>1. data' \in taken /\ taken' = taken /\ Versions' = Versions
        BY <1>1, <2>7 DEF WriteFiles, FileWritten, GivenInv, DraftsTaken
      <3> QED BY <1>0, <2>7, <3>1, GivenGoto DEF WriteFiles, Finish
    <2>8. ASSUME Finish(r), UNCHANGED <<versions, data, taken>> PROVE GivenInv'
      BY <1>0, <1>1, <2>8, GivenGoto DEF Finish
    <2> QED BY <1>3, <2>1, <2>2, <2>3, <2>4, <2>5, <2>6, <2>7, <2>8
            DEF PublishStep, WritePolicyFails, WriteDataFails, PublishFails, published
  <1>4. CASE Reload \/ OpaRestart
    BY <1>4, GivenFrame DEF Reload, OpaRestart
  <1>5. CASE Crash
    BY <1>5, GivenFrame DEF Crash, Publishing
  <1>6. CASE Aside
    BY <1>6, GivenFrame DEF Aside, published
  <1> QED BY <1>2, <1>3, <1>4, <1>5, <1>6, StepKinds

(* A step of PolicyFlow is one of the register, or leaves it as it is.     *)
LEMMA RegisterStep ==
  ASSUME TypeInv, TypeInv', GivenInv, [Next]_vars
  PROVE  [Register!Next]_<<Versions, taken, live.payload, answered>>
  <1>0. TypeOK /\ TypeOK' /\ live \in LiveRec
    BY DEF TypeInv, TypeOK
  <1>1. ASSUME UNCHANGED <<versions, taken, live, answered>>
        PROVE  UNCHANGED <<Versions, taken, live.payload, answered>>
    BY <1>1 DEF Versions
  <1>2. ASSUME NEW r \in Requests, PublishStep(r)
        PROVE  [Register!Next]_<<Versions, taken, live.payload, answered>>
    <2>1. CASE SaveVersion(r)
      <3>1. Versions' = Versions \cup {loc[r].draft} /\ loc[r].draft \in Snapshot
        BY <1>0, <2>1, SaveAppends
      <3>2. Versions' \subseteq Snapshot
        BY <1>0, <3>1, VersionsType
      <3>3. Register!Register
        BY <2>1, <3>1, <3>2 DEF SaveVersion, Register!Register
      <3> QED BY <3>3 DEF Register!Next
    <2>2. CASE PutData(r) \/ PutUnanswered(r)
      <3>1. loc[r].draft \in Versions /\ Versions' = Versions
        BY <2>2 DEF PutData, PutUnanswered, GivenInv, DraftsSaved, Versions
      <3>2. /\ live'.payload = loc[r].draft
            /\ taken' = taken \cup {loc[r].draft} /\ answered' = answered
        BY <2>2 DEF PutData, PutUnanswered
      <3>3. Register!Give
        BY <3>1, <3>2 DEF Register!Give
      <3> QED BY <3>3 DEF Register!Next
    <2>3. CASE WriteFiles(r)
      <3>1. answered' \in taken /\ UNCHANGED <<taken, live>> /\ Versions' = Versions
        BY <2>3 DEF WriteFiles, GivenInv, DraftsTaken, Versions
      <3>2. Register!Announce
        BY <3>1 DEF Register!Announce
      <3> QED BY <3>2 DEF Register!Next
    <2>4. CASE UNCHANGED <<versions, taken, live, answered>>
      BY <1>1, <2>4
    <2> QED BY <1>2, <2>1, <2>2, <2>3, <2>4
            DEF PublishStep, ReadPermissions, ReadRoles, FindVersion, WritePolicyFails,
                WriteDataFails, PublishFails, published
  <1>3. CASE Reload \/ OpaRestart
    <2>1. UNCHANGED <<versions, taken, answered>> /\ (live' = live \/ live' = Loaded)
      BY <1>3 DEF Reload, OpaRestart
    <2>2. CASE live' = live
      BY <1>1, <2>1, <2>2
    <2>3. CASE live' = Loaded
      <3>1. live'.payload \in taken \cup {Empty} /\ Versions' = Versions
        BY <2>1, <2>3 DEF Loaded, GivenInv, DraftsTaken, Versions
      <3>2. Register!Load
        BY <2>1, <3>1 DEF Register!Load
      <3> QED BY <3>2 DEF Register!Next
    <2> QED BY <2>1, <2>2, <2>3
  <1>4. CASE Crash \/ Aside \/ \E r \in Requests : PublishRead(r)
    BY <1>1, <1>4 DEF Crash, Aside, PublishRead, published
  <1> QED BY <1>2, <1>3, <1>4, StepKinds

(* Publishing implements the register: OPA is given only saved versions,   *)
(* whatever it loads, from files that any publish wrote and others left,   *)
(* is something it was given, and so is what clients are told.             *)
THEOREM PublishIsRegister == Spec => Registered
  <1>1. Init => Register!Init /\ GivenInv
    <2> SUFFICES ASSUME Init PROVE Register!Init /\ GivenInv
      OBVIOUS
    <2>1. Versions = {} /\ live.payload = Empty
      BY DEF Init, Versions
    <2>2. Register!Init
      BY <2>1 DEF Init, Register!Init
    <2>3. GivenInv
      BY DEF Init, GivenInv, DraftsSaved, DraftsTaken
    <2> QED BY <2>2, <2>3
  <1>2. Spec => []TypeInv
    BY InitType, NextType, PTL DEF Spec
  <1>3. TypeInv /\ GivenInv /\ [Next]_vars => GivenInv'
    BY GivenStep
  <1>4. TypeInv /\ TypeInv' /\ GivenInv /\ [Next]_vars
          => [Register!Next]_<<Versions, taken, live.payload, answered>>
    BY RegisterStep
  <1> QED BY <1>1, <1>2, <1>3, <1>4, PTL DEF Spec, Registered, Register!Spec

-----------------------------------------------------------------------------
(* One version for a payload, but for races. *)

(* A publish about to save a version looked for one among the first found, *)
(* and its payload was not there.                                          *)
LookedFor(step, l) ==
    step = "SaveVersion" =>
        /\ l.found <= Len(versions)
        /\ \A i \in 1 .. l.found : versions[i].text # l.draft

Looked == \A r \in Requests : LookedFor(pc[r], loc[r])

RepeatInv == Looked /\ RepeatsOnlyFromRaces

LEMMA RepeatFrame ==
  ASSUME RepeatInv, UNCHANGED versions,
         \A q \in Requests : pc'[q] = "SaveVersion" => pc[q] = "SaveVersion" /\ loc'[q] = loc[q]
  PROVE  RepeatInv'
  BY DEF RepeatInv, Looked, LookedFor, RepeatsOnlyFromRaces

LEMMA RepeatGoto ==
  ASSUME TypeOK, RepeatInv, NEW r \in Requests, NEW step, NEW l, Goto(r, step, l),
         step # "SaveVersion", UNCHANGED versions
  PROVE  RepeatInv'
  <1>1. \A q \in Requests : pc'[q] = "SaveVersion" => pc[q] = "SaveVersion" /\ loc'[q] = loc[q]
    BY DEF TypeOK, Goto
  <1> QED BY <1>1, RepeatFrame

LEMMA RepeatStep ==
  ASSUME TypeInv, RepeatInv, [Next]_vars PROVE RepeatInv'
  <1>0. TypeOK /\ versions \in Seq(VersionRec) /\ Len(versions) \in Nat
    BY DEF TypeInv, TypeOK
  <1>1. ASSUME NEW r \in Requests, PublishRead(r) PROVE RepeatInv'
    BY <1>0, <1>1, RepeatGoto DEF PublishRead
  <1>2. ASSUME NEW r \in Requests, FindVersion(r) PROVE RepeatInv'
    <2>1. UNCHANGED versions
      BY <1>2 DEF FindVersion, published
    <2>2. CASE Saved(loc[r].draft)
      BY <1>0, <1>2, <2>1, <2>2, RepeatGoto DEF FindVersion, Republish
    <2>3. CASE ~Saved(loc[r].draft)
      <3> DEFINE l == [loc[r] EXCEPT !.found = Len(versions)]
      <3>1. l.found = Len(versions) /\ l.draft = loc[r].draft
        BY <1>0 DEF TypeOK, LocRec
      <3>2. Goto(r, "SaveVersion", l)
        BY <1>2, <2>3 DEF FindVersion
      <3> HIDE DEF l
      <3>3. LookedFor("SaveVersion", l)
        BY <1>0, <2>3, <3>1 DEF LookedFor, Saved, Versions
      <3>4. /\ pc'[r] = "SaveVersion" /\ loc'[r] = l
            /\ \A q \in Requests \ {r} : pc'[q] = pc[q] /\ loc'[q] = loc[q]
        BY <1>0, <3>2 DEF TypeOK, Goto
      <3> QED BY <2>1, <3>3, <3>4 DEF RepeatInv, Looked, LookedFor, RepeatsOnlyFromRaces
    <2> QED BY <2>2, <2>3
  <1>3. ASSUME NEW r \in Requests, SaveVersion(r) PROVE RepeatInv'
    <2> DEFINE n == Len(versions)
    <2>1. /\ Len(versions') = n + 1 /\ n \in Nat
          /\ \A i \in 1 .. n : versions'[i] = versions[i]
          /\ versions'[n + 1].text = loc[r].draft /\ versions'[n + 1].found = loc[r].found
      BY <1>0, <1>3, SaveAppends
    <2>2. /\ loc[r].found \in Nat /\ loc[r].found <= n
          /\ \A i \in 1 .. loc[r].found : versions[i].text # loc[r].draft
      BY <1>0, <1>3 DEF SaveVersion, RepeatInv, Looked, LookedFor, TypeOK, LocRec
    <2>3. pc'[r] = "PutData" /\ \A q \in Requests \ {r} : pc'[q] = pc[q] /\ loc'[q] = loc[q]
      BY <1>0, <1>3 DEF SaveVersion, TypeOK, Goto
    <2> HIDE DEF n
    <2>4. ASSUME NEW q \in Requests PROVE LookedFor(pc[q], loc[q])'
      <3>1. CASE pc'[q] = "SaveVersion"
        <4>1. pc[q] = "SaveVersion" /\ loc'[q] = loc[q] /\ loc[q].found \in Nat
          BY <1>0, <2>3, <3>1 DEF TypeOK, LocRec
        <4>2. loc[q].found <= n /\ \A i \in 1 .. loc[q].found : versions[i].text # loc[q].draft
          BY <4>1 DEF RepeatInv, Looked, LookedFor, n
        <4> QED BY <2>1, <4>1, <4>2 DEF LookedFor
      <3>2. CASE pc'[q] # "SaveVersion"
        BY <3>2 DEF LookedFor
      <3> QED BY <3>1, <3>2
    <2>5. ASSUME NEW i \in 1 .. (n + 1), NEW j \in 1 .. (n + 1), i < j,
                 versions'[i].text = versions'[j].text
          PROVE  versions'[j].found < i
      <3>1. CASE j = n + 1
        <4>1. i \in 1 .. n /\ versions[i].text = loc[r].draft
          BY <2>1, <2>5, <3>1
        <4>2. i \notin 1 .. loc[r].found
          BY <2>2, <4>1
        <4> QED BY <2>1, <2>2, <3>1, <4>1, <4>2
      <3>2. CASE j # n + 1
        <4>1. i \in 1 .. n /\ j \in 1 .. n
          BY <2>1, <2>5, <3>2
        <4> QED BY <2>1, <2>5, <4>1 DEF RepeatInv, RepeatsOnlyFromRaces, n
      <3> QED BY <3>1, <3>2
    <2>6. RepeatsOnlyFromRaces'
      BY <2>1, <2>5 DEF RepeatsOnlyFromRaces
    <2> QED BY <2>4, <2>6 DEF RepeatInv, Looked
  <1>4. ASSUME NEW r \in Requests, PublishStep(r), ~FindVersion(r), ~SaveVersion(r)
        PROVE  RepeatInv'
    <2>1. ASSUME NEW step \in {"Idle", "ReadRoles", "FindVersion", "WriteFiles"}, NEW l,
                 Goto(r, step, l), UNCHANGED versions
          PROVE  RepeatInv'
      BY <1>0, <2>1, RepeatGoto
    <2> QED BY <1>4, <2>1
            DEF PublishStep, ReadPermissions, ReadRoles, PutData, PutUnanswered, WriteFiles,
                WritePolicyFails, WriteDataFails, PublishFails, Finish, published
  <1>5. CASE Reload \/ OpaRestart
    BY <1>5, RepeatFrame DEF Reload, OpaRestart
  <1>6. CASE Crash
    BY <1>6, RepeatFrame DEF Crash
  <1>7. CASE Aside
    BY <1>7, RepeatFrame DEF Aside, published, Publishing
  <1> QED BY <1>1, <1>2, <1>3, <1>4, <1>5, <1>6, <1>7, StepKinds

(* Two versions are equal only when their publishes raced: the later one   *)
(* had looked before the earlier was saved.  So a payload published again, *)
(* after whatever else, gets no second version.                            *)
THEOREM OnlyRacesRepeat == Spec => []RepeatsOnlyFromRaces
  <1>1. Init => RepeatInv
    BY DEF Init, RepeatInv, Looked, LookedFor, RepeatsOnlyFromRaces
  <1>2. Spec => []TypeInv
    BY InitType, NextType, PTL DEF Spec
  <1>3. TypeInv /\ RepeatInv /\ [Next]_vars => RepeatInv'
    BY RepeatStep
  <1>4. RepeatInv => RepeatsOnlyFromRaces
    BY DEF RepeatInv
  <1> QED BY <1>1, <1>2, <1>3, <1>4, PTL DEF Spec

-----------------------------------------------------------------------------
(* One version for a payload, one request at a time. *)

OneAtATime == \A q, r \in Requests : q = r

(* Nothing is saved between a publish's lookup and its save.               *)
FoundAll ==
    /\ \A r \in Requests : pc[r] = "SaveVersion" => loc[r].found = Len(versions)
    /\ \A j \in 1 .. Len(versions) : versions[j].found = j - 1

LEMMA FoundFrame ==
  ASSUME FoundAll, UNCHANGED versions,
         \A q \in Requests : pc'[q] = "SaveVersion" => pc[q] = "SaveVersion" /\ loc'[q] = loc[q]
  PROVE  FoundAll'
  BY DEF FoundAll

LEMMA FoundGoto ==
  ASSUME TypeOK, FoundAll, NEW r \in Requests, NEW step, NEW l, Goto(r, step, l),
         step # "SaveVersion" \/ l.found = Len(versions), UNCHANGED versions
  PROVE  FoundAll'
  <1>1. /\ pc'[r] = step /\ loc'[r] = l
        /\ \A q \in Requests \ {r} : pc'[q] = pc[q] /\ loc'[q] = loc[q]
    BY DEF TypeOK, Goto
  <1> QED BY <1>1 DEF FoundAll

LEMMA FoundStep ==
  ASSUME OneAtATime, TypeInv, FoundAll, [Next]_vars PROVE FoundAll'
  <1>0. TypeOK /\ versions \in Seq(VersionRec) /\ Len(versions) \in Nat
    BY DEF TypeInv, TypeOK
  <1>1. ASSUME NEW r \in Requests, PublishRead(r) PROVE FoundAll'
    BY <1>0, <1>1, FoundGoto DEF PublishRead
  <1>2. ASSUME NEW r \in Requests, FindVersion(r) PROVE FoundAll'
    <2>1. UNCHANGED versions
      BY <1>2 DEF FindVersion, published
    <2>2. [loc[r] EXCEPT !.found = Len(versions)].found = Len(versions)
      BY <1>0 DEF TypeOK, LocRec
    <2> QED BY <1>0, <1>2, <2>1, <2>2, FoundGoto DEF FindVersion, Republish
  <1>3. ASSUME NEW r \in Requests, SaveVersion(r) PROVE FoundAll'
    <2>1. /\ Len(versions') = Len(versions) + 1
          /\ \A i \in 1 .. Len(versions) : versions'[i] = versions[i]
          /\ versions'[Len(versions) + 1].found = loc[r].found
      BY <1>0, <1>3, SaveAppends
    <2>2. loc[r].found = Len(versions)
      BY <1>3 DEF SaveVersion, FoundAll
    <2>3. \A q \in Requests : pc'[q] = "PutData"
      BY <1>0, <1>3 DEF OneAtATime, SaveVersion, TypeOK, Goto
    <2>4. \A j \in 1 .. Len(versions') : versions'[j].found = j - 1
      BY <1>0, <2>1, <2>2 DEF FoundAll
    <2> QED BY <2>3, <2>4 DEF FoundAll
  <1>4. ASSUME NEW r \in Requests, PublishStep(r), ~FindVersion(r), ~SaveVersion(r)
        PROVE  FoundAll'
    <2>1. ASSUME NEW step \in {"Idle", "ReadRoles", "FindVersion", "WriteFiles"}, NEW l,
                 Goto(r, step, l), UNCHANGED versions
          PROVE  FoundAll'
      BY <1>0, <2>1, FoundGoto
    <2> QED BY <1>4, <2>1
            DEF PublishStep, ReadPermissions, ReadRoles, PutData, PutUnanswered, WriteFiles,
                WritePolicyFails, WriteDataFails, PublishFails, Finish, published
  <1>5. CASE Reload \/ OpaRestart
    BY <1>5, FoundFrame DEF Reload, OpaRestart
  <1>6. CASE Crash
    BY <1>6, FoundFrame DEF Crash
  <1>7. CASE Aside
    BY <1>7, FoundFrame DEF Aside, published, Publishing
  <1> QED BY <1>1, <1>2, <1>3, <1>4, <1>5, <1>6, <1>7, StepKinds

(* With one request at a time a payload has one version, whatever is       *)
(* deleted, added again or renamed between publishes and wherever the      *)
(* process stops: the lookup then stands for the unique index.             *)
THEOREM OneVersionOfText == ASSUME OneAtATime PROVE Spec => []OneVersionPerHash
  <1>1. Init => FoundAll
    BY DEF Init, FoundAll
  <1>2. Spec => []TypeInv
    BY InitType, NextType, PTL DEF Spec
  <1>3. TypeInv /\ FoundAll /\ [Next]_vars => FoundAll'
    BY FoundStep
  <1>4. TypeInv /\ FoundAll /\ RepeatsOnlyFromRaces => OneVersionPerHash
    <2> SUFFICES ASSUME TypeInv, FoundAll, RepeatsOnlyFromRaces,
                        NEW i \in 1 .. Len(versions), NEW j \in 1 .. Len(versions),
                        versions[i].text = versions[j].text, i < j
                 PROVE  FALSE
      BY DEF OneVersionPerHash, TypeInv, TypeOK
    <2>1. versions[j].found < i /\ versions[j].found = j - 1
      BY DEF RepeatsOnlyFromRaces, FoundAll
    <2> QED BY <2>1
  <1> QED BY <1>1, <1>2, <1>3, <1>4, OnlyRacesRepeat, PTL DEF Spec

-----------------------------------------------------------------------------
(* Only what was granted. *)

(* What a payload lists, and what a request holds, was granted by g.       *)
Lists(payload, g) == \A c \in Codes : payload.roles[c].perms \subseteq g[c]

Keeps(step, l, g) ==
    /\ Lists(l.draft, g)
    /\ \A d \in l.todo : d.perms \subseteq g[d.code]
    /\ step \in RoleCalls => l.left \cup l.made \cup l.perms \subseteq g[l.code]

RolesGranted ==
    \A i \in RoleIds : roles[i].state = "stored" => roles[i].perms \subseteq granted[roles[i].code]

RequestsGranted == \A r \in Requests : Keeps(pc[r], loc[r], granted)

StoredGranted ==
    /\ \A c \in Codes : keycloak.composites[c] \subseteq granted[c]
    /\ \A v \in Versions : Lists(v, granted)
    /\ Lists(live.payload, granted)
    /\ Lists(data, granted)

GrantInv == RolesGranted /\ RequestsGranted /\ StoredGranted

GrantsGrow == \A c \in Codes : granted[c] \subseteq granted'[c]

LEMMA KeepsGrow ==
  ASSUME TypeInv, GrantsGrow, NEW step, NEW l \in LocRec, Holds(step, l),
         Keeps(step, l, granted)
  PROVE  Keeps(step, l, granted')
  <1>1. l.todo \in SUBSET RoleDoc
    BY DEF LocRec
  <1>2. \A d \in l.todo : d.perms \subseteq granted'[d.code]
    BY <1>1 DEF Keeps, GrantsGrow, RoleDoc
  <1>3. Lists(l.draft, granted')
    BY DEF Keeps, Lists, GrantsGrow
  <1>4. step \in RoleCalls => l.left \cup l.made \cup l.perms \subseteq granted'[l.code]
    BY DEF Keeps, GrantsGrow, Holds
  <1> QED BY <1>2, <1>3, <1>4 DEF Keeps

LEMMA BlankKeeps == \A g : Keeps("Idle", Blank, g)
  BY DEF Keeps, Blank, Lists, Empty, NotListed, RoleCalls

(* A step that changes no request but r, and grants no less.               *)
LEMMA RequestsGoto ==
  ASSUME TypeInv, GrantInv, GrantsGrow, NEW r \in Requests, NEW step, NEW l,
         Goto(r, step, l), Keeps(step, l, granted')
  PROVE  RequestsGranted'
  <1>1. ASSUME NEW q \in Requests \ {r} PROVE Keeps(pc'[q], loc'[q], granted')
    <2>1. pc'[q] = pc[q] /\ loc'[q] = loc[q] /\ loc[q] \in LocRec /\ Holds(pc[q], loc[q])
      BY DEF Goto, TypeInv, TypeOK, HoldsOK
    <2> QED BY <2>1, KeepsGrow DEF GrantInv, RequestsGranted
  <1>2. pc'[r] = step /\ loc'[r] = l
    BY DEF Goto, TypeInv, TypeOK
  <1> QED BY <1>1, <1>2 DEF RequestsGranted

LEMMA RequestsFinish ==
  ASSUME TypeInv, GrantInv, GrantsGrow, NEW r \in Requests, Finish(r)
  PROVE  RequestsGranted'
  BY BlankKeeps, RequestsGoto DEF Finish

LEMMA RequestsStay ==
  ASSUME TypeInv, GrantInv, GrantsGrow, UNCHANGED <<pc, loc>>
  PROVE  RequestsGranted'
  <1>1. ASSUME NEW q \in Requests PROVE Keeps(pc[q], loc[q], granted')
    <2>1. loc[q] \in LocRec /\ Holds(pc[q], loc[q])
      BY DEF TypeInv, TypeOK, HoldsOK
    <2> QED BY <2>1, KeepsGrow DEF GrantInv, RequestsGranted
  <1> QED BY <1>1 DEF RequestsGranted

LEMMA StoredStay ==
  ASSUME TypeInv, GrantInv, GrantsGrow, UNCHANGED <<keycloak, versions, live, data>>
  PROVE  StoredGranted'
  <1>1. Versions' = Versions
    BY DEF Versions
  <1> QED BY <1>1 DEF GrantInv, StoredGranted, Lists, GrantsGrow

(* A step in which the roles and what was granted stay.                    *)
LEMMA RolesStay ==
  ASSUME GrantInv, UNCHANGED <<roles, granted>>
  PROVE  RolesGranted' /\ GrantsGrow
  BY DEF GrantInv, RolesGranted, GrantsGrow

(* Inserting and rewriting a role grants what it gives.                    *)
LEMMA InsertGrants ==
  ASSUME TypeInv, GrantInv, NEW code \in Codes, NEW label \in Labels \cup {None},
         NEW perms \in SUBSET Perms, Insert(code, label, perms)
  PROVE  RolesGranted' /\ GrantsGrow
  <1>1. PICK i \in RoleIds :
          roles' = [roles EXCEPT ![i] =
                      [state |-> "stored", code |-> code, label |-> label, perms |-> perms]]
    BY DEF Insert
  <1>2. granted' = [granted EXCEPT ![code] = @ \cup perms]
    BY DEF Insert
  <1>3. GrantsGrow /\ perms \subseteq granted'[code]
    BY <1>2 DEF GrantsGrow, TypeInv, TypeOK
  <1>4. ASSUME NEW j \in RoleIds, roles'[j].state = "stored"
        PROVE  roles'[j].perms \subseteq granted'[roles'[j].code]
    <2>1. CASE j = i
      BY <1>1, <1>3, <2>1 DEF TypeInv, TypeOK
    <2>2. CASE j # i
      <3>1. roles'[j] = roles[j] /\ roles[j].code \in Codes
        BY <1>1, <1>4, <2>2 DEF TypeInv, TypeOK, RolesOK
      <3> QED BY <1>3, <1>4, <3>1 DEF GrantInv, RolesGranted, GrantsGrow
    <2> QED BY <2>1, <2>2
  <1> QED BY <1>3, <1>4 DEF RolesGranted

LEMMA RewriteGrants ==
  ASSUME TypeInv, GrantInv, NEW i \in RoleIds, NEW code \in Codes,
         NEW label \in Labels \cup {None}, NEW perms \in SUBSET Perms,
         Rewrite(i, code, label, perms)
  PROVE  RolesGranted' /\ GrantsGrow
  <1>1. /\ roles' = [roles EXCEPT ![i].code = code, ![i].label = label, ![i].perms = perms]
        /\ granted' = [granted EXCEPT ![code] = @ \cup perms]
    BY DEF Rewrite
  <1>2. GrantsGrow /\ perms \subseteq granted'[code]
    BY <1>1 DEF GrantsGrow, TypeInv, TypeOK
  <1>3. ASSUME NEW j \in RoleIds, roles'[j].state = "stored"
        PROVE  roles'[j].perms \subseteq granted'[roles'[j].code]
    <2>1. CASE j = i
      BY <1>1, <1>2, <2>1 DEF TypeInv, TypeOK, RoleRec
    <2>2. CASE j # i
      <3>1. roles'[j] = roles[j] /\ roles[j].code \in Codes
        BY <1>1, <1>3, <2>2 DEF TypeInv, TypeOK, RolesOK
      <3> QED BY <1>2, <1>3, <3>1 DEF GrantInv, RolesGranted, GrantsGrow
    <2> QED BY <2>1, <2>2
  <1> QED BY <1>2, <1>3 DEF RolesGranted

LEMMA RemoveGrants ==
  ASSUME TypeInv, GrantInv, NEW i \in RoleIds, Remove(i), UNCHANGED granted
  PROVE  RolesGranted' /\ GrantsGrow
  BY DEF Remove, NoRole, TypeInv, TypeOK, GrantInv, RolesGranted, GrantsGrow

LEMMA ChangeGrants ==
  ASSUME TypeInv, GrantInv, Change PROVE GrantInv'
  <1>0. UNCHANGED <<pc, loc, keycloak, versions, live, data>>
    BY DEF Change, UpdateRole, DeleteRole, FncRoleCreate, FncRoleUpdate, FncRoleDelete,
           DeletePermission, Serve, published
  <1>1. RolesGranted' /\ GrantsGrow
    <2>1. CASE UpdateRole
      <3>1. PICK code \in Codes, label \in Labels, perms \in Given \cup {NotGiven}, i \in RoleIds :
              Rewrite(i, code, label, PermissionsGiven(i, perms))
        BY <2>1 DEF UpdateRole
      <3> QED BY <3>1, GivenType, RewriteGrants
    <2>2. CASE DeleteRole
      <3>1. PICK i \in RoleIds : Remove(i)
        BY <2>2 DEF DeleteRole, Oldest
      <3> QED BY <2>2, <3>1, RemoveGrants DEF DeleteRole
    <2>3. CASE FncRoleCreate
      BY <2>3, PolicyAssumption, InsertGrants DEF FncRoleCreate
    <2>4. CASE FncRoleUpdate
      <3>1. PICK i \in RoleIds, code \in Codes, label \in Labels, perms \in Given \cup {NotGiven} :
              Rewrite(i, code, label, PermissionsGiven(i, perms))
        BY <2>4 DEF FncRoleUpdate
      <3> QED BY <3>1, GivenType, RewriteGrants
    <2>5. CASE FncRoleDelete
      BY <2>5, RemoveGrants DEF FncRoleDelete
    <2>6. CASE DeletePermission
      BY <2>6, RolesStay DEF DeletePermission
    <2> QED BY <2>1, <2>2, <2>3, <2>4, <2>5, <2>6 DEF Change
  <1> QED BY <1>0, <1>1, RequestsStay, StoredStay DEF GrantInv

(* A request that starts with fresh locals carries nothing yet.            *)
LEMMA StartGrants ==
  ASSUME TypeInv, GrantInv, NEW r \in Requests, StartRequest(r) PROVE GrantInv'
  <1>0. UNCHANGED <<roles, granted, keycloak, versions, live, data>>
    <2>1. CASE CreateRoleRead(r)
      BY <2>1 DEF CreateRoleRead, catalog, published
    <2>2. CASE TemplatesRead(r) \/ PermissionsRead(r) \/ PublishRead(r) \/ SyncRead(r)
      BY <2>2 DEF TemplatesRead, PermissionsRead, PublishRead, SyncRead, catalog, published
    <2> QED BY <2>1, <2>2 DEF StartRequest
  <1>1. RolesGranted' /\ GrantsGrow
    BY <1>0, RolesStay
  <1>2. StoredGranted'
    BY <1>0, <1>1, StoredStay
  <1>3. ASSUME NEW step, NEW l, Goto(r, step, l), l.draft.roles = Empty.roles, l.todo = {},
               step \notin RoleCalls
        PROVE  RequestsGranted'
    <2>1. Keeps(step, l, granted')
      BY <1>3 DEF Keeps, Lists, Empty, NotListed
    <2> QED BY <1>1, <1>3, <2>1, RequestsGoto
  <1>4. Blank.draft.roles = Empty.roles /\ Blank.todo = {}
    BY DEF Blank
  <1>5. ASSUME CreateRoleRead(r) PROVE RequestsGranted'
    <2>1. PICK code \in Codes, label \in Labels, perms \in Given :
            Goto(r, "CreateRole", [Blank EXCEPT !.code = code, !.label = label, !.perms = perms])
      BY <1>5 DEF CreateRoleRead
    <2> DEFINE l == [Blank EXCEPT !.code = code, !.label = label, !.perms = perms]
    <2>2. l.draft.roles = Empty.roles /\ l.todo = {}
      BY DEF Blank
    <2>3. Goto(r, "CreateRole", l)
      BY <2>1
    <2> HIDE DEF l
    <2> QED BY <1>3, <2>2, <2>3 DEF RoleCalls
  <1>6. ASSUME TemplatesRead(r) PROVE RequestsGranted'
    <2>1. PICK items : Goto(r, "UpsertTemplate", [Blank EXCEPT !.items = items])
      BY <1>6 DEF TemplatesRead
    <2> QED BY <1>3, <2>1 DEF Blank, RoleCalls
  <1>7. ASSUME PermissionsRead(r) PROVE RequestsGranted'
    <2>1. PICK items : Goto(r, "UpsertPermission", [Blank EXCEPT !.items = items])
      BY <1>7 DEF PermissionsRead
    <2> QED BY <1>3, <2>1 DEF Blank, RoleCalls
  <1>8. ASSUME PublishRead(r) PROVE RequestsGranted'
    <2> DEFINE l == [Blank EXCEPT !.draft.templates = templates]
    <2>1. Goto(r, "ReadPermissions", l)
      BY <1>8 DEF PublishRead
    <2>2. l.draft.roles = Empty.roles /\ l.todo = {}
      BY DEF Blank, Empty
    <2> HIDE DEF l
    <2> QED BY <1>3, <2>1, <2>2 DEF RoleCalls
  <1>9. ASSUME SyncRead(r) PROVE RequestsGranted'
    <2> DEFINE l == [Blank EXCEPT !.todo = RoleDocs]
    <2>1. Goto(r, "Client", l)
      BY <1>9 DEF SyncRead
    <2>2. \A d \in RoleDocs : d.perms \subseteq granted[d.code]
      BY DEF RoleDocs, GrantInv, RolesGranted
    <2>3. Keeps("Client", l, granted')
      BY <1>0, <2>2 DEF Keeps, Lists, Blank, Empty, NotListed, RoleCalls
    <2> HIDE DEF l
    <2> QED BY <1>1, <2>1, <2>3, RequestsGoto
  <1> QED BY <1>1, <1>2, <1>5, <1>6, <1>7, <1>8, <1>9 DEF GrantInv, StartRequest

LEMMA CatalogGrants ==
  ASSUME TypeInv, GrantInv, NEW r \in Requests, CatalogStep(r) PROVE GrantInv'
  <1>0. UNCHANGED <<keycloak, versions, live, data>>
    BY DEF CatalogStep, CreateRole, UpsertTemplate, UpsertPermission, SaveFails, published
  <1>1. loc[r] \in LocRec /\ Holds(pc[r], loc[r]) /\ Keeps(pc[r], loc[r], granted)
    BY DEF TypeInv, TypeOK, HoldsOK, GrantInv, RequestsGranted
  <1>2. CASE CreateRole(r)
    <2>1. loc[r].code \in Codes /\ loc[r].label \in Labels \cup {None}
          /\ loc[r].perms \in SUBSET Perms
      BY <1>1, <1>2 DEF CreateRole, Holds, LocRec
    <2>2. RolesGranted' /\ GrantsGrow
      BY <1>2, <2>1, InsertGrants DEF CreateRole
    <2>3. RequestsGranted'
      BY <1>2, <2>2, RequestsFinish DEF CreateRole
    <2> QED BY <1>0, <2>2, <2>3, StoredStay DEF GrantInv
  <1>3. CASE UpsertTemplate(r) \/ UpsertPermission(r) \/ SaveFails(r)
    <2>1. RolesGranted' /\ GrantsGrow
      BY <1>3, RolesStay DEF UpsertTemplate, UpsertPermission, SaveFails, catalog
    <2>2. StoredGranted'
      BY <1>0, <2>1, StoredStay
    <2>3. CASE Finish(r)
      BY <2>1, <2>2, <2>3, RequestsFinish DEF GrantInv
    <2>4. CASE NextItem(r)
      <3>1. Finish(r) \/ Goto(r, pc[r], [loc[r] EXCEPT !.items = Tail(@)])
        BY <2>4 DEF NextItem
      <3>2. Keeps(pc[r], [loc[r] EXCEPT !.items = Tail(@)], granted)
        BY <1>1 DEF Keeps, LocRec
      <3>3. UNCHANGED granted
        BY <1>3 DEF UpsertTemplate, UpsertPermission, SaveFails, catalog
      <3>4. Keeps(pc[r], [loc[r] EXCEPT !.items = Tail(@)], granted')
        BY <3>2, <3>3
      <3> QED BY <2>1, <2>2, <3>1, <3>4, RequestsFinish, RequestsGoto DEF GrantInv
    <2> QED BY <1>3, <2>3, <2>4 DEF UpsertTemplate, UpsertPermission, SaveFails
  <1> QED BY <1>2, <1>3 DEF CatalogStep

(* The roles of a payload are those that are stored when it is built.      *)
LEMMA RolesDataGranted ==
  ASSUME TypeInv, GrantInv, NEW c \in Codes PROVE RolesData[c].perms \subseteq granted[c]
  <1>1. CASE RolesData[c] = NotListed
    BY <1>1 DEF NotListed
  <1>2. ASSUME NEW i \in Newest(c), RolesData[c] = RoleListed(c, i)
        PROVE  RolesData[c].perms \subseteq granted[c]
    <2>1. i \in RoleIds /\ roles[i].state = "stored" /\ roles[i].code = c
      BY DEF Newest, Carries
    <2>2. roles[i].perms \subseteq granted[c]
      BY <2>1 DEF GrantInv, RolesGranted
    <2> QED BY <1>2, <2>2 DEF RoleListed
  <1> QED BY <1>1, <1>2, RolesDataCases

LEMMA PublishGrants ==
  ASSUME TypeInv, GrantInv, NEW r \in Requests, PublishStep(r) PROVE GrantInv'
  <1>0. UNCHANGED <<roles, granted, keycloak>>
    BY DEF PublishStep, ReadPermissions, ReadRoles, FindVersion, SaveVersion, PutData,
           PutUnanswered, WriteFiles, WritePolicyFails, WriteDataFails, PublishFails, catalog
  <1>1. RolesGranted' /\ GrantsGrow
    BY <1>0, RolesStay
  <1>2. loc[r] \in LocRec /\ Keeps(pc[r], loc[r], granted)
    BY DEF TypeInv, TypeOK, GrantInv, RequestsGranted
  <1>3. Lists(loc[r].draft, granted')
    BY <1>0, <1>2 DEF Keeps
  <1>4. ASSUME NEW step, NEW l, Goto(r, step, l), Lists(l.draft, granted'),
               l.todo = loc[r].todo, step \notin RoleCalls
        PROVE  RequestsGranted'
    <2>1. Keeps(step, l, granted')
      BY <1>0, <1>2, <1>4 DEF Keeps
    <2> QED BY <1>1, <1>4, <2>1, RequestsGoto
  <1>5. RequestsGranted'
    <2>1. CASE ReadPermissions(r)
      <3> DEFINE l == [loc[r] EXCEPT !.draft.permissions = PermissionsData]
      <3>1. l.todo = loc[r].todo /\ l.draft.roles = loc[r].draft.roles
        BY <1>2 DEF LocRec, Snapshot
      <3>2. Goto(r, "ReadRoles", l)
        BY <2>1 DEF ReadPermissions
      <3> HIDE DEF l
      <3>3. Lists(l.draft, granted')
        BY <1>3, <3>1 DEF Lists
      <3> QED BY <1>4, <3>1, <3>2, <3>3 DEF RoleCalls
    <2>2. CASE ReadRoles(r)
      <3> DEFINE l == [loc[r] EXCEPT !.draft.roles = RolesData]
      <3>1. l.todo = loc[r].todo /\ l.draft.roles = RolesData
        BY <1>2 DEF LocRec, Snapshot
      <3>2. Goto(r, "FindVersion", l)
        BY <2>2 DEF ReadRoles
      <3> HIDE DEF l
      <3>3. Lists(l.draft, granted')
        BY <1>0, <3>1, RolesDataGranted DEF Lists
      <3> QED BY <1>4, <3>1, <3>2, <3>3 DEF RoleCalls
    <2>3. CASE FindVersion(r) \/ SaveVersion(r) \/ PutData(r)
      <3>1. PICK step \in {"PutData", "SaveVersion", "WriteFiles"},
                 l \in {loc[r], [loc[r] EXCEPT !.found = Len(versions)]} : Goto(r, step, l)
        BY <2>3 DEF FindVersion, Republish, SaveVersion, PutData
      <3>2. l.draft = loc[r].draft /\ l.todo = loc[r].todo
        BY <1>2 DEF LocRec
      <3> QED BY <1>3, <1>4, <3>1, <3>2 DEF RoleCalls
    <2>4. CASE Finish(r)
      BY <1>1, <2>4, RequestsFinish
    <2> QED BY <2>1, <2>2, <2>3, <2>4
            DEF PublishStep, PutUnanswered, WriteFiles, WritePolicyFails, WriteDataFails,
                PublishFails
  <1>6. StoredGranted'
    <2>1. CASE SaveVersion(r)
      <3>1. Versions' = Versions \cup {loc[r].draft}
        BY <2>1, SaveAppends DEF TypeInv
      <3> QED BY <1>0, <1>3, <2>1, <3>1 DEF SaveVersion, GrantInv, StoredGranted, Lists
    <2>2. CASE PutData(r) \/ PutUnanswered(r)
      <3>1. live'.payload = loc[r].draft /\ UNCHANGED <<versions, data>>
        BY <2>2 DEF PutData, PutUnanswered
      <3>2. Versions' = Versions
        BY <3>1 DEF Versions
      <3> QED BY <1>0, <1>3, <3>1, <3>2 DEF GrantInv, StoredGranted, Lists
    <2>3. CASE WriteFiles(r)
      <3>1. data' = loc[r].draft /\ UNCHANGED <<versions, live>>
        BY <2>3 DEF WriteFiles, FileWritten
      <3>2. Versions' = Versions
        BY <3>1 DEF Versions
      <3> QED BY <1>0, <1>3, <3>1, <3>2 DEF GrantInv, StoredGranted, Lists
    <2>4. CASE UNCHANGED <<versions, live, data>>
      BY <1>0, <1>1, <2>4, StoredStay
    <2> QED BY <2>1, <2>2, <2>3, <2>4
            DEF PublishStep, ReadPermissions, ReadRoles, FindVersion, WritePolicyFails,
                WriteDataFails, PublishFails, published
  <1> QED BY <1>1, <1>5, <1>6 DEF GrantInv

(* What OPA loads was granted, for what the data file holds was.           *)
LEMMA OpaGrants ==
  ASSUME TypeInv, GrantInv, Reload \/ OpaRestart PROVE GrantInv'
  <1>0. UNCHANGED <<roles, granted, keycloak, versions, data, pc, loc>>
    BY DEF Reload, OpaRestart, catalog
  <1>1. RolesGranted' /\ GrantsGrow
    BY <1>0, RolesStay
  <1>2. RequestsGranted'
    BY <1>0, <1>1, RequestsStay
  <1>3. live' = live \/ live'.payload = data
    BY DEF Reload, OpaRestart, Loaded
  <1>4. StoredGranted'
    <2>1. Versions' = Versions
      BY <1>0 DEF Versions
    <2> QED BY <1>0, <1>3, <2>1 DEF GrantInv, StoredGranted, Lists
  <1> QED BY <1>1, <1>2, <1>4 DEF GrantInv

(* Taking the next role: the request holds the permissions of that role.   *)
LEMMA TakeGrants ==
  ASSUME TypeInv, GrantInv, GrantsGrow, UNCHANGED granted, NEW r \in Requests,
         TakeRole(r, loc[r].todo)
  PROVE  RequestsGranted'
  <1>1. loc[r] \in LocRec /\ Keeps(pc[r], loc[r], granted)
    BY DEF TypeInv, TypeOK, GrantInv, RequestsGranted
  <1>2. CASE Finish(r)
    BY <1>2, RequestsFinish
  <1>3. ASSUME NEW d \in Current(loc[r].todo),
               Goto(r, "Permission",
                    [loc[r] EXCEPT !.todo = loc[r].todo \ {d}, !.code = d.code, !.perms = {},
                                   !.left = d.perms, !.made = MadeAfresh(loc[r])])
        PROVE  RequestsGranted'
    <2> DEFINE l == [loc[r] EXCEPT !.todo = loc[r].todo \ {d}, !.code = d.code, !.perms = {},
                                   !.left = d.perms, !.made = MadeAfresh(loc[r])]
    <2>1. d \in loc[r].todo
      BY DEF Current
    <2>2. /\ l.todo = loc[r].todo \ {d} /\ l.draft = loc[r].draft /\ l.code = d.code
          /\ l.left = d.perms /\ l.made = {} /\ l.perms = {}
      BY <1>1 DEF LocRec, MadeAfresh
    <2>3. Goto(r, "Permission", l)
      BY <1>3
    <2> HIDE DEF l
    <2>4. Keeps("Permission", l, granted')
      BY <1>1, <2>1, <2>2 DEF Keeps
    <2> QED BY <2>3, <2>4, RequestsGoto
  <1>4. CASE loc[r].todo = {}
    BY <1>2, <1>4 DEF TakeRole
  <1>5. CASE loc[r].todo # {}
    <2>1. PICK d \in Current(loc[r].todo) :
            Goto(r, "Permission",
                 [loc[r] EXCEPT !.todo = loc[r].todo \ {d}, !.code = d.code, !.perms = {},
                                !.left = d.perms, !.made = MadeAfresh(loc[r])])
      BY <1>5 DEF TakeRole
    <2> QED BY <1>3, <2>1
  <1> QED BY <1>4, <1>5

(* Having a client role: only permissions of the role are ever held.       *)
LEMMA HasGrants ==
  ASSUME TypeInv, GrantInv, GrantsGrow, UNCHANGED granted, NEW r \in Requests,
         pc[r] \in RoleCalls, NEW p \in loc[r].left \cup loc[r].perms, HasClientRole(r, p)
  PROVE  RequestsGranted'
  <1>1. loc[r] \in LocRec /\ Keeps(pc[r], loc[r], granted)
    BY DEF TypeInv, TypeOK, GrantInv, RequestsGranted
  <1> DEFINE l == [loc[r] EXCEPT !.perms = {}, !.left = @ \ {p}, !.made = @ \cup {p}]
  <1>2. /\ l.todo = loc[r].todo /\ l.draft = loc[r].draft /\ l.code = loc[r].code
        /\ l.left = loc[r].left \ {p} /\ l.made = loc[r].made \cup {p} /\ l.perms = {}
    BY <1>1 DEF LocRec
  <1>3. Goto(r, "Permission", l)
    BY DEF HasClientRole
  <1> HIDE DEF l
  <1>4. Keeps("Permission", l, granted')
    BY <1>1, <1>2 DEF Keeps
  <1> QED BY <1>3, <1>4, RequestsGoto

LEMMA SyncGrants ==
  ASSUME TypeInv, GrantInv, NEW r \in Requests, SyncStep(r) PROVE GrantInv'
  <1>0. UNCHANGED <<roles, granted, versions, live, data>>
    BY DEF SyncStep, Client, AddClient, Mapper, Permission, AddPermission, Realm, AddRealm,
           Compose, SyncFails, catalog, published
  <1>1. RolesGranted' /\ GrantsGrow
    BY <1>0, RolesStay
  <1>2. loc[r] \in LocRec /\ Holds(pc[r], loc[r]) /\ Keeps(pc[r], loc[r], granted)
    BY DEF TypeInv, TypeOK, HoldsOK, GrantInv, RequestsGranted
  <1>3. ASSUME NEW step \in Steps, Goto(r, step, loc[r]),
               step \in RoleCalls => pc[r] \in RoleCalls
        PROVE  RequestsGranted'
    <2>1. Keeps(step, loc[r], granted')
      BY <1>0, <1>2, <1>3 DEF Keeps
    <2> QED BY <1>1, <1>3, <2>1, RequestsGoto
  <1>4. RequestsGranted'
    <2>1. CASE Client(r)
      BY <1>3, <2>1 DEF Client, Steps, RoleCalls
    <2>2. CASE AddClient(r)
      <3>1. CASE Finish(r)
        BY <1>1, <3>1, RequestsFinish
      <3>2. CASE Goto(r, "Mapper", loc[r])
        BY <1>3, <3>2 DEF Steps, RoleCalls
      <3> QED BY <2>2, <3>1, <3>2 DEF AddClient
    <2>3. CASE TakeRole(r, loc[r].todo)
      BY <1>0, <1>1, <2>3, TakeGrants
    <2>4. CASE Permission(r)
      <3>1. CASE Goto(r, "Realm", loc[r])
        BY <1>3, <2>4, <3>1 DEF Permission, Steps, RoleCalls
      <3>2. ASSUME NEW p \in loc[r].left, HasClientRole(r, p) PROVE RequestsGranted'
        BY <1>0, <1>1, <2>4, <3>2, HasGrants DEF Permission, RoleCalls
      <3>3. ASSUME NEW p \in loc[r].left,
                   Goto(r, "AddPermission", [loc[r] EXCEPT !.perms = {p}])
            PROVE  RequestsGranted'
        <4> DEFINE l == [loc[r] EXCEPT !.perms = {p}]
        <4>1. /\ l.todo = loc[r].todo /\ l.draft = loc[r].draft /\ l.code = loc[r].code
              /\ l.left = loc[r].left /\ l.made = loc[r].made /\ l.perms = {p}
          BY <1>2 DEF LocRec
        <4>2. Goto(r, "AddPermission", l)
          BY <3>3
        <4> HIDE DEF l
        <4>3. pc[r] \in RoleCalls
          BY <2>4 DEF Permission, RoleCalls
        <4>4. Keeps("AddPermission", l, granted')
          BY <1>0, <1>2, <4>1, <4>3 DEF Keeps
        <4> QED BY <1>1, <4>2, <4>4, RequestsGoto
      <3> QED BY <2>4, <3>1, <3>2, <3>3 DEF Permission
    <2>5. CASE AddPermission(r)
      <3>1. ASSUME NEW p \in loc[r].perms, HasClientRole(r, p) PROVE RequestsGranted'
        BY <1>0, <1>1, <2>5, <3>1, HasGrants DEF AddPermission, RoleCalls
      <3>2. PICK p \in loc[r].perms : TakeRole(r, loc[r].todo) \/ HasClientRole(r, p)
        BY <2>5 DEF AddPermission, Skip
      <3> QED BY <2>3, <3>1, <3>2
    <2>6. CASE Realm(r)
      BY <1>3, <2>6 DEF Realm, Steps, RoleCalls
    <2>7. CASE AddRealm(r)
      <3>1. CASE Goto(r, "Compose", loc[r])
        BY <1>3, <2>7, <3>1 DEF AddRealm, Steps, RoleCalls
      <3> QED BY <2>3, <2>7, <3>1 DEF AddRealm, Skip
    <2>8. CASE Finish(r)
      BY <1>1, <2>8, RequestsFinish
    <2> QED BY <2>1, <2>2, <2>3, <2>4, <2>5, <2>6, <2>7, <2>8
            DEF SyncStep, Mapper, Compose, SyncFails, Skip
  <1>5. CASE Compose(r)
    <2>1. loc[r].code \in Codes /\ loc[r].made \subseteq granted[loc[r].code]
      BY <1>2, <1>5 DEF Compose, Holds, Keeps, RoleCalls
    <2>2. PICK got \in SUBSET loc[r].made :
            keycloak' = [keycloak EXCEPT !.composites[loc[r].code] = @ \cup got]
      BY <1>5 DEF Compose
    <2>3. keycloak \in KeycloakRec
      BY DEF TypeInv, TypeOK
    <2>4. \A c \in Codes : keycloak'.composites[c] \subseteq granted[c]
      BY <2>1, <2>2, <2>3 DEF KeycloakRec, GrantInv, StoredGranted
    <2>5. Versions' = Versions
      BY <1>0 DEF Versions
    <2>6. StoredGranted'
      BY <1>0, <2>4, <2>5 DEF GrantInv, StoredGranted, Lists
    <2> QED BY <1>1, <1>4, <2>6 DEF GrantInv
  <1>6. CASE ~Compose(r)
    <2>1. keycloak'.composites = keycloak.composites
      BY <1>6 DEF SyncStep, Client, AddClient, Mapper, Permission, AddPermission, Realm,
                  AddRealm, SyncFails, TypeInv, TypeOK, KeycloakRec
    <2>2. Versions' = Versions
      BY <1>0 DEF Versions
    <2>3. StoredGranted'
      BY <1>0, <2>1, <2>2 DEF GrantInv, StoredGranted, Lists
    <2> QED BY <1>1, <1>4, <2>3 DEF GrantInv
  <1> QED BY <1>5, <1>6

LEMMA CrashGrants ==
  ASSUME TypeInv, GrantInv, Crash PROVE GrantInv'
  <1>0. UNCHANGED <<roles, granted, keycloak, versions, live, data>>
    BY DEF Crash, catalog
  <1>1. RolesGranted' /\ GrantsGrow
    BY <1>0, RolesStay
  <1>2. StoredGranted'
    BY <1>0, <1>1, StoredStay
  <1>3. \A r \in Requests : pc'[r] = "Idle" /\ loc'[r] = Blank
    BY DEF Crash
  <1>4. RequestsGranted'
    BY <1>3, BlankKeeps DEF RequestsGranted
  <1> QED BY <1>1, <1>2, <1>4 DEF GrantInv

(* Nothing gives a role a permission that no role of its code ever had:    *)
(* not Keycloak, no version, and not what OPA holds.                       *)
THEOREM OnlyGrantedHeld == Spec => []OnlyGranted
  <1>1. Init => GrantInv
    <2> SUFFICES ASSUME Init PROVE GrantInv
      OBVIOUS
    <2>1. RolesGranted
      BY DEF Init, RolesGranted, NoRole
    <2>2. RequestsGranted
      BY BlankKeeps DEF Init, RequestsGranted
    <2>3. Versions = {}
      BY DEF Init, Versions
    <2>4. StoredGranted
      BY <2>3 DEF Init, StoredGranted, Lists, Empty, NotListed
    <2> QED BY <2>1, <2>2, <2>4 DEF GrantInv
  <1>2. Spec => []TypeInv
    BY InitType, NextType, PTL DEF Spec
  <1>3. TypeInv /\ GrantInv /\ [Next]_vars => GrantInv'
    <2> SUFFICES ASSUME TypeInv, GrantInv, [Next]_vars PROVE GrantInv'
      OBVIOUS
    <2>1. CASE UNCHANGED vars
      <3>1. UNCHANGED <<roles, granted, keycloak, versions, live, data, pc, loc>>
        BY <2>1 DEF vars, catalog, published
      <3> QED BY <3>1, RolesStay, RequestsStay, StoredStay DEF GrantInv
    <2>2. CASE Next
      BY <2>2, StartGrants, CatalogGrants, PublishGrants, SyncGrants, ChangeGrants, OpaGrants,
         CrashGrants DEF Next, Step
    <2> QED BY <2>1, <2>2
  <1>4. GrantInv => OnlyGranted
    BY DEF GrantInv, StoredGranted, Lists, OnlyGranted
  <1> QED BY <1>1, <1>2, <1>3, <1>4, PTL DEF Spec

=============================================================================
