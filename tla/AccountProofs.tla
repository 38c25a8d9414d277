---------------------------- MODULE AccountProofs ---------------------------
(***************************************************************************)
(* Theorems about AccountFlow, for every finite set of users and every set *)
(* of emails, passwords, tokens and requests, whatever Keycloak finds for  *)
(* an email.                                                               *)
(***************************************************************************)
EXTENDS AccountFlow, FiniteSetTheorems, WellFoundedInduction, TLAPS

CreateSteps  == {"CreateCheck", "CreateCode", "CreateInsert"}
RefreshSteps == {"DropToken", "RefreshUser", "RotateToken"}

(* What a request holds when it performs a call.                           *)
Holds(step, l) ==
    /\ step # "Idle" => l.user \in Users
    /\ step \in RefreshSteps => l.token \in Tokens

HoldsOK == \A r \in Requests : Holds(pc[r], loc[r])

TokensOK == \A t \in Tokens : tokens[t].state # "absent" => tokens[t].user \in Users

TypeInv == TypeOK /\ HoldsOK /\ TokensOK

-----------------------------------------------------------------------------
(* Data. *)

(* A finite set of numbers that is not empty has a maximum: of the sets of *)
(* what is above a member, a smallest is that of the maximum.              *)
LEMMA MaxExists ==
  ASSUME NEW S \in SUBSET Nat, IsFiniteSet(S), S # {}
  PROVE  Max(S) \in S /\ \A y \in S : Max(S) >= y
  <1> DEFINE From(x) == {y \in S : y >= x}
             Ends == {From(x) : x \in S}
  <1>1. Ends \subseteq FiniteSubsetsOf(S) /\ Ends # {}
    <2>1. FiniteSubsetsOf(S) = SUBSET S
      BY FS_FiniteSubsetsOfFinite
    <2>2. \A x \in S : From(x) \in SUBSET S
      OBVIOUS
    <2>3. \A E \in Ends : E \in SUBSET S
      BY <2>2
    <2>4. Ends # {}
      OBVIOUS
    <2> QED BY <2>1, <2>3, <2>4
  <1>2. IsWellFoundedOn(StrictSubsetOrdering(S), FiniteSubsetsOf(S))
    BY FS_StrictSubsetOrderingWellFounded
  <1>3. PICK E \in Ends : \A F \in Ends : ~ (<<F, E>> \in StrictSubsetOrdering(S))
    BY <1>1, <1>2, WFMin
  <1>4. PICK x \in S : E = From(x)
    OBVIOUS
  <1>5. ASSUME NEW y \in S, y > x PROVE FALSE
    <2>1. x \in Nat /\ y \in Nat /\ \A z \in S : z \in Nat
      OBVIOUS
    <2>2. (\A z \in From(y) : z \in E) /\ x \in E /\ x \notin From(y)
      BY <1>4, <1>5, <2>1
    <2>3. From(y) \in Ends
      OBVIOUS
    <2>4. <<From(y), E>> \in StrictSubsetOrdering(S)
      BY <1>4, <2>2 DEF StrictSubsetOrdering
    <2> QED BY <1>3, <2>3, <2>4
  <1>6. \A y \in S : x >= y
    BY <1>5
  <1> QED BY <1>6 DEF Max

(* The code the hook gives is a number above all that are stored.          *)
LEMMA NextCodeType ==
  ASSUME TypeOK PROVE NextCode \in Nat /\ \A u \in Users : Stored(u) => NextCode > users[u].code
  <1> DEFINE kept == {v \in Users : Stored(v)}
             f == [u \in kept |-> users[u].code]
             codes == {users[u].code : u \in kept}
  <1>1. IsFiniteSet(kept)
    BY AccountAssumption, FS_Subset
  <1>2. f \in Surjection(kept, codes)
    BY DEF Surjection
  <1>3. IsFiniteSet(codes)
    BY <1>1, <1>2, FS_Surjection
  <1>4. IsFiniteSet({0} \cup codes)
    BY <1>3, FS_Singleton, FS_Union
  <1>5. {0} \cup codes \in SUBSET Nat
    BY DEF TypeOK, UserRec
  <1>6. /\ Max({0} \cup codes) \in {0} \cup codes
        /\ \A y \in {0} \cup codes : Max({0} \cup codes) >= y
    BY <1>4, <1>5, MaxExists
  <1>7. NextCode = 1 + Max({0} \cup codes)
    BY DEF NextCode
  <1> HIDE DEF codes
  <1>8. NextCode \in Nat /\ \A y \in codes : NextCode > y
    BY <1>5, <1>6, <1>7
  <1> QED BY <1>8 DEF codes

LEMMA BlankType == Blank \in LocRec /\ Holds("Idle", Blank) /\ NoUser \in UserRec
  BY DEF Blank, LocRec, NoUser, UserRec, NoBody, Body, NoSecret, Ops, UserStatuses, Holds,
         RefreshSteps

LEMMA SecretType ==
  ASSUME NEW p \in Passwords PROVE Plain(p) \in Secret /\ Hash(p) \in Secret
  BY DEF Plain, Hash, Secret

LEMMA UpdatedType ==
  ASSUME NEW doc \in UserRec, NEW body \in Body PROVE Updated(doc, body) \in UserRec
  BY DEF UserRec, Body, Updated, Given

LEMMA WrittenType ==
  ASSUME TypeOK, NEW l \in LocRec, l.user \in Users PROVE Written(l) \in UserRec
  <1>1. users[l.user] \in UserRec /\ l.body \in Body
    BY DEF TypeOK, LocRec
  <1>2. CASE l.op = "delete"
    BY <1>1, <1>2 DEF Written, NoUser, UserRec, UserStatuses, NoSecret
  <1>3. CASE l.op # "delete"
    BY <1>1, <1>3, UpdatedType DEF Written
  <1> QED BY <1>2, <1>3

LEMMA ToldType ==
  ASSUME NEW l \in LocRec, NEW doc \in UserRec
  PROVE  Told(l, doc) \in LocRec /\ Told(l, doc).user = l.user
  <1>1. NoBody \in Body
    BY DEF NoBody, Body, NoSecret
  <1>2. doc.email \in Emails \cup {None} /\ doc.status \in UserStatuses
    BY DEF UserRec
  <1>3. CASE l.op = "update"
    BY <1>1, <1>2, <1>3 DEF Told, LocRec
  <1>4. CASE l.op # "update"
    BY <1>1, <1>4 DEF Told, LocRec
  <1> QED BY <1>3, <1>4

LEMMA SnapshotType ==
  ASSUME TypeOK, NEW u \in Users, NEW op \in Ops, NEW body \in Body
  PROVE  Snapshot(u, op, body) \in LocRec
  BY BlankType DEF Snapshot, TypeOK, UserRec, LocRec

LEMMA AnsweredType ==
  ASSUME NEW l \in LocRec, NEW b \in BOOLEAN PROVE Answered(l, b) \in LocRec
  BY BlankType DEF Answered, LocRec

LEMMA MirrorType ==
  ASSUME NEW l \in LocRec PROVE Mirror(l) \in AccountRec
  BY DEF Mirror, LocRec, UserRec, AccountRec

-----------------------------------------------------------------------------
(* Type correctness, action by action. *)

LEMMA GotoType ==
  ASSUME TypeInv, NEW r \in Requests, NEW step \in Steps, NEW l \in LocRec,
         Goto(r, step, l), Holds(step, l)
  PROVE  pc' \in [Requests -> Steps] /\ loc' \in [Requests -> LocRec] /\ HoldsOK'
  <1>1. ASSUME NEW q \in Requests PROVE Holds(pc[q], loc[q])'
    BY DEF TypeInv, TypeOK, Goto, HoldsOK, Holds
  <1> QED BY <1>1 DEF TypeInv, TypeOK, HoldsOK, Goto

LEMMA FinishType ==
  ASSUME TypeInv, NEW r \in Requests, Finish(r)
  PROVE  pc' \in [Requests -> Steps] /\ loc' \in [Requests -> LocRec] /\ HoldsOK'
  BY GotoType, BlankType DEF Finish, Steps

(* A step that changes nothing but the request.                            *)
LEMMA ReadType ==
  ASSUME TypeInv, NEW r \in Requests, NEW step \in Steps, NEW l \in LocRec,
         Goto(r, step, l), Holds(step, l), begun' \in Nat,
         UNCHANGED <<users, tokens, accounts, apart, now>>
  PROVE  TypeInv'
  BY GotoType DEF TypeInv, TypeOK, TokensOK

LEMMA GiveUpType ==
  ASSUME TypeInv, NEW r \in Requests, Finish(r), begun' \in Nat,
         UNCHANGED <<users, tokens, accounts, apart, now>>
  PROVE  TypeInv'
  BY FinishType DEF TypeInv, TypeOK, TokensOK

LEMMA BeginType ==
  ASSUME TypeOK, NEW r, Begin(r) PROVE begun' \in Nat
  BY DEF TypeOK, Begin

(* The requests that create a user.                                        *)
LEMMA CreatingType ==
  ASSUME NEW email \in Emails, NEW secret \in Secret, NEW status \in UserStatuses,
         NEW role \in RoleRefs \cup {None}, NEW op \in Ops, NEW u \in Users
  PROVE  [Blank EXCEPT !.op = op, !.user = u, !.doc = NewUser(email, secret, status, role)]
           \in LocRec
  <1>1. NewUser(email, secret, status, role) \in UserRec
    BY BlankType DEF NewUser, UserRec
  <1> QED BY <1>1, BlankType DEF LocRec

LEMMA CreateStartType ==
  ASSUME TypeInv, NEW r \in Requests, CreateRead(r) \/ RegisterRead(r) PROVE TypeInv'
  <1>1. begun' \in Nat /\ UNCHANGED <<users, tokens, accounts, apart, now>>
    BY BeginType DEF TypeInv, CreateRead, RegisterRead
  <1>2. PICK step \in {"CreateCode", "CreateCheck"}, l \in LocRec :
          Goto(r, step, l) /\ l.user \in Users
    <2>1. CASE CreateRead(r)
      <3>1. PICK u \in Users, email \in Emails, given \in Secret, status \in Statuses,
                 role \in Resolves \cup {None} :
              Goto(r, "CreateCode",
                   [Blank EXCEPT !.op = "create", !.user = u,
                                 !.doc = NewUser(email, given, status, role)])
        BY <2>1 DEF CreateRead
      <3> DEFINE l == [Blank EXCEPT !.op = "create", !.user = u,
                                    !.doc = NewUser(email, given, status, role)]
      <3>2. l \in LocRec
        BY CreatingType, SecretType, AccountAssumption DEF Ops, UserStatuses
      <3>3. l.user = u
        BY DEF Blank
      <3> HIDE DEF l
      <3> QED BY <3>1, <3>2, <3>3 DEF l
    <2>2. CASE RegisterRead(r)
      <3>1. PICK u \in Users, email \in Emails, p \in Passwords :
              Goto(r, "CreateCheck",
                   [Blank EXCEPT !.op = "register", !.user = u,
                                 !.doc = NewUser(email, Hash(p), "active", None)])
        BY <2>2 DEF RegisterRead
      <3> DEFINE l == [Blank EXCEPT !.op = "register", !.user = u,
                                    !.doc = NewUser(email, Hash(p), "active", None)]
      <3>2. l \in LocRec
        BY CreatingType, SecretType DEF Ops, UserStatuses
      <3>3. l.user = u
        BY DEF Blank
      <3> HIDE DEF l
      <3> QED BY <3>1, <3>2, <3>3 DEF l
    <2> QED BY <2>1, <2>2
  <1> QED BY <1>1, <1>2, ReadType DEF Steps, Holds, RefreshSteps

(* The requests that read a user, or one of its tokens.                    *)
LEMMA OtherStartType ==
  ASSUME TypeInv, NEW r \in Requests, StartRequest(r), ~CreateRead(r), ~RegisterRead(r)
  PROVE  TypeInv'
  <1>1. begun' \in Nat /\ UNCHANGED <<users, tokens, accounts, apart, now>>
    BY BeginType DEF TypeInv, StartRequest, UpdateRead, SetPasswordRead, ChangePasswordRead,
                     DeleteRead, RoleRead, LoginRead, RefreshRead, LogoutRead, AuthChangeRead
  <1>2. TypeOK /\ NoBody \in Body
    BY DEF TypeInv, NoBody, Body, NoSecret
  <1>3. ASSUME NEW step \in Steps \ RefreshSteps, NEW l \in LocRec, Goto(r, step, l),
               l.user \in Users
        PROVE  TypeInv'
    BY <1>1, <1>3, ReadType DEF Holds
  <1>4. CASE UpdateRead(r)
    <2>1. PICK u \in Users, body \in Bodies :
            Goto(r, IF body.email \in {None, users[u].email} THEN "Write" ELSE "UpdateEmail",
                 [Blank EXCEPT !.op = "update", !.user = u, !.body = body])
      BY <1>4 DEF UpdateRead
    <2> DEFINE l == [Blank EXCEPT !.op = "update", !.user = u, !.body = body]
    <2>2. body \in Body
      BY SecretType, AccountAssumption DEF Bodies, Body, UserStatuses
    <2>3. l \in LocRec /\ l.user = u
      BY <2>2, BlankType DEF LocRec, Ops
    <2> HIDE DEF l
    <2> QED BY <1>3, <2>1, <2>3 DEF l, Steps, RefreshSteps
  <1>5. CASE SetPasswordRead(r) \/ ChangePasswordRead(r)
    <2>1. PICK u \in Users, given \in Secret :
            Goto(r, "Write", Snapshot(u, "password", [NoBody EXCEPT !.secret = given]))
      BY <1>5 DEF SetPasswordRead, ChangePasswordRead
    <2>2. [NoBody EXCEPT !.secret = given] \in Body
      BY <1>2, SecretType DEF Body
    <2>3. /\ Snapshot(u, "password", [NoBody EXCEPT !.secret = given]) \in LocRec
          /\ Snapshot(u, "password", [NoBody EXCEPT !.secret = given]).user = u
      BY <1>2, <2>2, SnapshotType DEF Ops, Snapshot, Blank
    <2> QED BY <1>3, <2>1, <2>3 DEF Steps, RefreshSteps
  <1>6. CASE DeleteRead(r)
    <2>1. PICK u \in Users :
            Goto(r, "Write", [Blank EXCEPT !.op = "delete", !.user = u, !.email = users[u].email])
      BY <1>6 DEF DeleteRead
    <2> DEFINE l == [Blank EXCEPT !.op = "delete", !.user = u, !.email = users[u].email]
    <2>2. l \in LocRec /\ l.user = u
      BY <1>2, BlankType DEF LocRec, Ops, TypeOK, UserRec
    <2> HIDE DEF l
    <2> QED BY <1>3, <2>1, <2>2 DEF l, Steps, RefreshSteps
  <1>7. CASE RoleRead(r)
    <2>1. PICK u \in Users, role \in (RoleRefs \ Resolves) \cup {None} :
            Goto(r, "Write", [Blank EXCEPT !.op = "role", !.user = u, !.email = users[u].email,
                                           !.body = [NoBody EXCEPT !.role = role]])
      BY <1>7 DEF RoleRead
    <2> DEFINE l == [Blank EXCEPT !.op = "role", !.user = u, !.email = users[u].email,
                                  !.body = [NoBody EXCEPT !.role = role]]
    <2>2. [NoBody EXCEPT !.role = role] \in Body
      BY <1>2 DEF Body
    <2>3. l \in LocRec /\ l.user = u
      BY <1>2, <2>2, BlankType DEF LocRec, Ops, TypeOK, UserRec
    <2> HIDE DEF l
    <2> QED BY <1>3, <2>1, <2>3 DEF l, Steps, RefreshSteps
  <1>8. CASE LoginRead(r)
    <2>1. PICK u \in Users :
            Goto(r, "SaveToken", [Blank EXCEPT !.op = "login", !.user = u, !.iat = now])
      BY <1>8 DEF LoginRead
    <2> DEFINE l == [Blank EXCEPT !.op = "login", !.user = u, !.iat = now]
    <2>2. l \in LocRec /\ l.user = u
      BY <1>2, BlankType DEF LocRec, Ops, TypeOK
    <2> HIDE DEF l
    <2> QED BY <1>3, <2>1, <2>2 DEF l, Steps, RefreshSteps
  <1>9. CASE RefreshRead(r)
    <2>1. PICK t \in Tokens, step \in {"DropToken", "RefreshUser"} :
            Live(t) /\ Goto(r, step, [Blank EXCEPT !.op = "refresh", !.user = tokens[t].user,
                                                   !.token = t])
      BY <1>9 DEF RefreshRead
    <2> DEFINE l == [Blank EXCEPT !.op = "refresh", !.user = tokens[t].user, !.token = t]
    <2>2. tokens[t].user \in Users
      BY <2>1 DEF Live, TypeInv, TokensOK
    <2>3. l \in LocRec /\ Holds(step, l)
      BY <2>2, BlankType DEF LocRec, Ops, Holds
    <2> HIDE DEF l
    <2> QED BY <1>1, <2>1, <2>3, ReadType DEF l, Steps
  <1>10. CASE LogoutRead(r)
    <2>1. PICK u \in Users :
            Goto(r, "LogoutDelete", [Blank EXCEPT !.op = "logout", !.user = u, !.left = TokensOf(u)])
      BY <1>10 DEF LogoutRead
    <2> DEFINE l == [Blank EXCEPT !.op = "logout", !.user = u, !.left = TokensOf(u)]
    <2>2. TokensOf(u) \in SUBSET Tokens
      BY DEF TokensOf
    <2>3. l \in LocRec /\ l.user = u
      BY <2>2, BlankType DEF LocRec, Ops
    <2> HIDE DEF l
    <2> QED BY <1>3, <2>1, <2>3 DEF l, Steps, RefreshSteps
  <1>11. CASE AuthChangeRead(r)
    <2>1. PICK u \in Users, p \in Passwords, q \in Passwords :
            Goto(r, "ChangeCheck", [Blank EXCEPT !.op = "change", !.user = u, !.old = Plain(p),
                                                 !.body = [NoBody EXCEPT !.secret = Hash(q)]])
      BY <1>11 DEF AuthChangeRead
    <2> DEFINE l == [Blank EXCEPT !.op = "change", !.user = u, !.old = Plain(p),
                                  !.body = [NoBody EXCEPT !.secret = Hash(q)]]
    <2>2. [NoBody EXCEPT !.secret = Hash(q)] \in Body
      BY <1>2, SecretType DEF Body
    <2>3. l \in LocRec /\ l.user = u
      BY <2>2, BlankType, SecretType DEF LocRec, Ops
    <2> HIDE DEF l
    <2> QED BY <1>3, <2>1, <2>3 DEF l, Steps, RefreshSteps
  <1> QED BY <1>4, <1>5, <1>6, <1>7, <1>8, <1>9, <1>10, <1>11 DEF StartRequest

(* The steps of a creation, and those before the transaction of an update. *)
LEMMA BeforeType ==
  ASSUME TypeInv, NEW r \in Requests, UNCHANGED begun,
         CreateCheck(r) \/ CreateCode(r) \/ CreateInsert(r) \/ UpdateEmail(r) \/ ChangeCheck(r)
         \/ Write(r)
  PROVE  TypeInv'
  <1>1. begun' \in Nat /\ UNCHANGED <<users, tokens, accounts, apart, now>>
    BY DEF TypeInv, TypeOK, CreateCheck, CreateCode, CreateInsert, UpdateEmail, ChangeCheck, Write
  <1>2. TypeOK /\ loc[r] \in LocRec /\ pc[r] # "Idle" /\ loc[r].user \in Users
    BY DEF TypeInv, TypeOK, HoldsOK, Holds, CreateCheck, CreateCode, CreateInsert, UpdateEmail,
           ChangeCheck, Write
  <1>3. ASSUME NEW step \in Steps \ RefreshSteps, NEW l \in LocRec, Goto(r, step, l),
               l.user \in Users
        PROVE  TypeInv'
    BY <1>1, <1>3, ReadType DEF Holds
  <1>4. CASE Finish(r)
    BY <1>1, <1>4, GiveUpType
  <1>5. CASE CreateCheck(r) \/ CreateInsert(r) \/ UpdateEmail(r)
    <2>1. Finish(r) \/ \E step \in {"CreateCode", "Commit", "Write"} : Goto(r, step, loc[r])
      BY <1>5 DEF CreateCheck, CreateInsert, UpdateEmail
    <2> QED BY <1>2, <1>3, <1>4, <2>1 DEF Steps, RefreshSteps
  <1>6. CASE CreateCode(r)
    <2> DEFINE l == [loc[r] EXCEPT !.doc.code = NextCode]
    <2>1. l \in LocRec /\ l.user = loc[r].user
      BY <1>2, NextCodeType DEF LocRec, UserRec
    <2>2. Goto(r, "CreateInsert", l)
      BY <1>6 DEF CreateCode
    <2> HIDE DEF l
    <2> QED BY <1>2, <1>3, <2>1, <2>2 DEF Steps, RefreshSteps
  <1>7. CASE ChangeCheck(r)
    <2> DEFINE l == Snapshot(loc[r].user, "change", loc[r].body)
    <2>1. l \in LocRec
      BY <1>2, SnapshotType DEF LocRec, Ops
    <2>2. l.user = loc[r].user
      BY DEF Snapshot, Blank
    <2>3. Finish(r) \/ Goto(r, "Write", l)
      BY <1>7 DEF ChangeCheck
    <2> HIDE DEF l
    <2> QED BY <1>2, <1>3, <1>4, <2>1, <2>2, <2>3 DEF Steps, RefreshSteps
  <1>8. CASE Write(r)
    <2> DEFINE doc == Written(loc[r])
    <2>1. doc \in UserRec
      BY <1>2, WrittenType
    <2> HIDE DEF doc
    <2>2. Told(loc[r], doc) \in LocRec /\ Told(loc[r], doc).user = loc[r].user
      BY <1>2, <2>1, ToldType
    <2>3. Finish(r) \/ \E step \in {"Lookup", "Commit"}, l \in {loc[r], Told(loc[r], doc)} :
                         Goto(r, step, l)
      BY <1>8 DEF Write, doc
    <2> QED BY <1>2, <1>3, <1>4, <2>2, <2>3 DEF Steps, RefreshSteps
  <1> QED BY <1>5, <1>6, <1>7, <1>8

(* The calls to Keycloak.                                                  *)
LEMMA KeycloakType ==
  ASSUME TypeInv, NEW r \in Requests, UNCHANGED begun,
         Lookup(r) \/ AccountUpdate(r) \/ AccountCreate(r) \/ AccountOther(r)
  PROVE  TypeInv'
  <1>1. UNCHANGED <<users, tokens, now, begun>>
    BY DEF Lookup, AccountUpdate, AccountCreate, AccountOther
  <1>2. TypeOK /\ loc[r] \in LocRec /\ loc[r].user \in Users
    BY DEF TypeInv, TypeOK, HoldsOK, Holds, Lookup, AccountUpdate, AccountCreate, AccountOther
  <1>3. ASSUME NEW step \in Steps \ RefreshSteps, NEW l \in LocRec, Goto(r, step, l),
               l.user \in Users
        PROVE  pc' \in [Requests -> Steps] /\ loc' \in [Requests -> LocRec] /\ HoldsOK'
    BY <1>3, GotoType DEF Holds
  <1>4. ASSUME NEW b \in BOOLEAN
        PROVE  Answered(loc[r], b) \in LocRec /\ Answered(loc[r], b).user = loc[r].user
    BY <1>2, AnsweredType DEF Answered, Blank
  <1>5. pc' \in [Requests -> Steps] /\ loc' \in [Requests -> LocRec] /\ HoldsOK'
    <2>1. CASE Finish(r)
      BY <2>1, FinishType
    <2>2. ASSUME NEW a \in Users \cup {None}, Goto(r, "Account", [loc[r] EXCEPT !.account = a])
          PROVE  pc' \in [Requests -> Steps] /\ loc' \in [Requests -> LocRec] /\ HoldsOK'
      <3> DEFINE l == [loc[r] EXCEPT !.account = a]
      <3>1. l \in LocRec /\ l.user = loc[r].user
        BY <1>2 DEF LocRec
      <3>2. Goto(r, "Account", l)
        BY <2>2
      <3> HIDE DEF l
      <3> QED BY <1>2, <1>3, <3>1, <3>2 DEF Steps, RefreshSteps
    <2>3. ASSUME Goto(r, "Account", loc[r])
          PROVE  pc' \in [Requests -> Steps] /\ loc' \in [Requests -> LocRec] /\ HoldsOK'
      BY <1>2, <1>3, <2>3 DEF Steps, RefreshSteps
    <2>4. ASSUME NEW b \in BOOLEAN, Goto(r, "Commit", Answered(loc[r], b))
          PROVE  pc' \in [Requests -> Steps] /\ loc' \in [Requests -> LocRec] /\ HoldsOK'
      BY <1>2, <1>3, <1>4, <2>4 DEF Steps, RefreshSteps
    <2>5. CASE Lookup(r)
      <3>1. \A a \in Found(loc[r].email) : a \in Users
        BY DEF Found
      <3>2. \/ Finish(r) \/ Goto(r, "Account", loc[r])
            \/ Goto(r, "Commit", Answered(loc[r], FALSE))
            \/ \E a \in Found(loc[r].email) : Goto(r, "Account", [loc[r] EXCEPT !.account = a])
        BY <2>5 DEF Lookup
      <3> QED BY <2>1, <2>2, <2>3, <2>4, <3>1, <3>2
    <2>6. CASE AccountUpdate(r)
      <3>1. \E b \in BOOLEAN : Goto(r, "Commit", Answered(loc[r], b))
        BY <2>6 DEF AccountUpdate, Together
      <3> QED BY <2>4, <3>1
    <2>7. CASE AccountCreate(r)
      <3> DEFINE l == [loc[r] EXCEPT !.account = loc[r].user]
      <3>1. Answered(l, Together(l)) = Answered(loc[r], Together(l)) /\ Together(l) \in BOOLEAN
        BY <1>2 DEF Answered, Together, LocRec
      <3>2. Finish(r) \/ Goto(r, "Commit", Answered(l, Together(l)))
        BY <2>7 DEF AccountCreate
      <3> QED BY <2>1, <2>4, <3>1, <3>2
    <2>8. CASE AccountOther(r)
      BY <2>4, <2>8 DEF AccountOther
    <2> QED BY <2>5, <2>6, <2>7, <2>8
  <1>6. ASSUME NEW a \in Users, NEW l \in LocRec PROVE [accounts EXCEPT ![a] = Mirror(l)] \in [Users -> AccountRec]
    BY <1>2, MirrorType DEF TypeOK
  <1>7. accounts' \in [Users -> AccountRec] /\ apart' \subseteq Users
    <2>1. CASE Lookup(r)
      BY <1>2, <2>1 DEF Lookup, TypeOK
    <2>2. CASE AccountUpdate(r)
      <3>1. loc[r].account \in Users
        BY <1>2, <2>2 DEF AccountUpdate, LocRec
      <3>2. accounts' = accounts \/ accounts' = [accounts EXCEPT ![loc[r].account] = Mirror(loc[r])]
        BY <2>2 DEF AccountUpdate
      <3>3. apart' \subseteq Users
        BY <1>2, <2>2, <3>1 DEF AccountUpdate, Parted, TypeOK
      <3> QED BY <1>2, <1>6, <3>1, <3>2, <3>3 DEF TypeOK
    <2>3. CASE AccountCreate(r)
      <3> DEFINE l == [loc[r] EXCEPT !.account = loc[r].user]
      <3>1. l \in LocRec /\ l.user = loc[r].user /\ l.account = loc[r].user
        BY <1>2 DEF LocRec
      <3>2. accounts' = accounts \/ accounts' = [accounts EXCEPT ![l.user] = Mirror(l)]
        BY <2>3 DEF AccountCreate
      <3>3. apart' \in {apart, apart \cup {l.user}, Parted(l)}
        BY <2>3 DEF AccountCreate
      <3> HIDE DEF l
      <3>4. apart' \subseteq Users
        BY <1>2, <3>1, <3>3 DEF Parted, TypeOK
      <3> QED BY <1>2, <1>6, <3>1, <3>2, <3>4 DEF TypeOK
    <2>4. CASE AccountOther(r)
      <3>1. NoAccount \in AccountRec
        BY DEF NoAccount, AccountRec, NoSecret
      <3> QED BY <1>2, <2>4, <3>1 DEF AccountOther, TypeOK
    <2> QED BY <2>1, <2>2, <2>3, <2>4
  <1> QED BY <1>1, <1>2, <1>5, <1>7 DEF TypeInv, TypeOK, TokensOK

LEMMA CommitType ==
  ASSUME TypeInv, NEW r \in Requests, Commit(r), UNCHANGED begun PROVE TypeInv'
  <1>1. UNCHANGED <<tokens, accounts, now, begun>>
    BY DEF Commit
  <1>2. TypeOK /\ loc[r] \in LocRec /\ loc[r].user \in Users
    BY DEF TypeInv, TypeOK, HoldsOK, Holds, Commit
  <1>3. users' \in [Users -> UserRec]
    BY <1>2 DEF Commit, TypeOK, LocRec
  <1>4. apart' \subseteq Users
    BY <1>2 DEF Commit, TypeOK
  <1>5. ASSUME NEW step \in Steps \ RefreshSteps, NEW l \in LocRec, Goto(r, step, l),
               l.user \in Users
        PROVE  pc' \in [Requests -> Steps] /\ loc' \in [Requests -> LocRec] /\ HoldsOK'
    BY <1>5, GotoType DEF Holds
  <1> DEFINE registered == [loc[r] EXCEPT !.doc = NoUser, !.iat = now]
             changed == [Blank EXCEPT !.op = "logout", !.user = loc[r].user]
  <1>6. /\ registered \in LocRec /\ registered.user = loc[r].user
        /\ changed \in LocRec /\ changed.user = loc[r].user
    <2>1. NoUser \in UserRec /\ now \in Nat
      BY <1>2, BlankType DEF TypeOK
    <2>2. registered \in LocRec /\ registered.user = loc[r].user
      BY <1>2, <2>1 DEF LocRec
    <2>3. changed \in LocRec
      BY <1>2, BlankType DEF LocRec, Ops
    <2>4. changed.user = loc[r].user
      BY DEF Blank
    <2> QED BY <2>2, <2>3, <2>4
  <1>7. Finish(r) \/ Goto(r, "SaveToken", registered) \/ Goto(r, "LogoutFind", changed)
    BY DEF Commit
  <1> HIDE DEF registered, changed
  <1>8. pc' \in [Requests -> Steps] /\ loc' \in [Requests -> LocRec] /\ HoldsOK'
    BY <1>2, <1>5, <1>6, <1>7, FinishType DEF Steps, RefreshSteps
  <1> QED BY <1>1, <1>2, <1>3, <1>4, <1>8 DEF TypeInv, TypeOK, TokensOK

(* The steps that write the records of tokens.                             *)
LEMMA DroppedType ==
  ASSUME TypeInv, NEW t \in Tokens, tokens' = Dropped(t)
  PROVE  tokens' \in [Tokens -> TokenRec] /\ TokensOK'
  BY DEF Dropped, Live, TypeInv, TypeOK, TokensOK, TokenRec

LEMMA TokenStepType ==
  ASSUME TypeInv, NEW r \in Requests, UNCHANGED begun,
         SaveToken(r) \/ DropToken(r) \/ RefreshUser(r) \/ RotateToken(r) \/ LogoutFind(r)
         \/ LogoutDelete(r)
  PROVE  TypeInv'
  <1>1. UNCHANGED <<users, accounts, apart, now, begun>>
    BY DEF SaveToken, DropToken, RefreshUser, RotateToken, LogoutFind, LogoutDelete
  <1>2. TypeOK /\ loc[r] \in LocRec /\ loc[r].user \in Users
    BY DEF TypeInv, TypeOK, HoldsOK, Holds, SaveToken, DropToken, RefreshUser, RotateToken,
           LogoutFind, LogoutDelete
  <1>3. pc[r] \in RefreshSteps => loc[r].token \in Tokens
    BY DEF TypeInv, HoldsOK, Holds
  <1>4. tokens' \in [Tokens -> TokenRec] /\ TokensOK'
    <2>1. CASE SaveToken(r)
      BY <1>2, <2>1 DEF SaveToken, FreshToken, TypeInv, TypeOK, TokensOK, TokenRec, LocRec
    <2>2. CASE DropToken(r)
      BY <1>3, <2>2, DroppedType DEF DropToken, RefreshSteps
    <2>3. CASE RotateToken(r)
      BY <1>2, <1>3, <2>3 DEF RotateToken, Rotated, Live, RefreshSteps, TypeInv, TypeOK, TokensOK,
                              TokenRec, LocRec
    <2>4. CASE LogoutDelete(r)
      <3>1. loc[r].left \subseteq Tokens
        BY <1>2 DEF LocRec
      <3> QED BY <2>4, <3>1, DroppedType DEF LogoutDelete, TypeInv, TypeOK, TokensOK
    <2>5. CASE UNCHANGED tokens
      BY <2>5 DEF TypeInv, TypeOK, TokensOK
    <2> QED BY <2>1, <2>2, <2>3, <2>4, <2>5 DEF RefreshUser, LogoutFind
  <1>5. pc' \in [Requests -> Steps] /\ loc' \in [Requests -> LocRec] /\ HoldsOK'
    <2>1. CASE Finish(r)
      BY <2>1, FinishType
    <2>2. ASSUME NEW l \in LocRec, NEW step \in Steps, Goto(r, step, l), l.user = loc[r].user,
                 step \in RefreshSteps => l.token = loc[r].token /\ pc[r] \in RefreshSteps
          PROVE  pc' \in [Requests -> Steps] /\ loc' \in [Requests -> LocRec] /\ HoldsOK'
      <3>1. Holds(step, l)
        BY <1>2, <1>3, <2>2 DEF Holds
      <3> QED BY <2>2, <3>1, GotoType
    <2>3. CASE RefreshUser(r)
      <3> DEFINE l == [loc[r] EXCEPT !.iat = now]
      <3>1. l \in LocRec /\ l.user = loc[r].user /\ l.token = loc[r].token
        BY <1>2 DEF LocRec, TypeOK
      <3>2. Finish(r) \/ Goto(r, "RotateToken", l)
        BY <2>3 DEF RefreshUser
      <3> HIDE DEF l
      <3> QED BY <2>1, <2>2, <2>3, <3>1, <3>2 DEF RefreshUser, RefreshSteps, Steps
    <2>4. CASE LogoutFind(r)
      <3> DEFINE l == [loc[r] EXCEPT !.left = TokensOf(loc[r].user)]
      <3>1. l \in LocRec /\ l.user = loc[r].user
        BY <1>2 DEF LocRec, TokensOf
      <3>2. Goto(r, "LogoutDelete", l)
        BY <2>4 DEF LogoutFind
      <3> HIDE DEF l
      <3> QED BY <2>2, <3>1, <3>2 DEF RefreshSteps, Steps
    <2>5. CASE LogoutDelete(r)
      <3>1. CASE loc[r].left # {}
        <4>1. PICK t \in loc[r].left : Goto(r, "LogoutDelete", [loc[r] EXCEPT !.left = @ \ {t}])
          BY <2>5, <3>1 DEF LogoutDelete
        <4> DEFINE l == [loc[r] EXCEPT !.left = @ \ {t}]
        <4>2. l \in LocRec /\ l.user = loc[r].user
          BY <1>2 DEF LocRec
        <4> HIDE DEF l
        <4> QED BY <2>2, <4>1, <4>2 DEF l, RefreshSteps, Steps
      <3> QED BY <2>1, <2>5, <3>1 DEF LogoutDelete
    <2> QED BY <2>1, <2>3, <2>4, <2>5 DEF SaveToken, DropToken, RotateToken
  <1> QED BY <1>1, <1>2, <1>4, <1>5 DEF TypeInv, TypeOK

LEMMA EnvironmentType ==
  ASSUME TypeInv, Tick \/ Crash \/ \E t \in Tokens : DeleteToken(t) PROVE TypeInv'
  <1>1. CASE Tick
    BY <1>1 DEF Tick, TypeInv, TypeOK, HoldsOK, TokensOK
  <1>2. CASE Crash
    <2>1. pc' \in [Requests -> Steps] /\ loc' \in [Requests -> LocRec] /\ HoldsOK'
      BY <1>2, BlankType DEF Crash, Steps, HoldsOK
    <2> QED BY <1>2, <2>1 DEF Crash, TypeInv, TypeOK, TokensOK
  <1>3. ASSUME NEW t \in Tokens, DeleteToken(t) PROVE TypeInv'
    BY <1>3, DroppedType DEF DeleteToken, TypeInv, TypeOK, HoldsOK
  <1> QED BY <1>1, <1>2, <1>3

LEMMA InitType == Init => TypeInv
  <1> SUFFICES ASSUME Init PROVE TypeInv
    OBVIOUS
  <1>1. NoToken \in TokenRec /\ NoAccount \in AccountRec /\ NoToken.state = "absent"
    BY DEF NoToken, TokenRec, NoAccount, AccountRec, NoSecret
  <1> QED BY <1>1, BlankType DEF Init, TypeInv, TypeOK, HoldsOK, TokensOK, Steps

LEMMA NextType == TypeInv /\ [Next]_vars => TypeInv'
  <1> SUFFICES ASSUME TypeInv, [Next]_vars PROVE TypeInv'
    OBVIOUS
  <1>1. CASE UNCHANGED vars
    BY <1>1 DEF vars, TypeInv, TypeOK, HoldsOK, TokensOK
  <1>2. ASSUME NEW r \in Requests, StartRequest(r) PROVE TypeInv'
    BY <1>2, CreateStartType, OtherStartType
  <1>3. ASSUME NEW r \in Requests, Step(r), UNCHANGED begun PROVE TypeInv'
    BY <1>3, BeforeType, KeycloakType, CommitType, TokenStepType DEF Step
  <1> QED BY <1>1, <1>2, <1>3, EnvironmentType DEF Next

(* Users, tokens, accounts and requests stay what they are declared to be, *)
(* whatever overlaps and fails.                                            *)
THEOREM TypeCorrect == Spec => []TypeOK
  <1>1. TypeInv => TypeOK
    BY DEF TypeInv
  <1> QED BY <1>1, InitType, NextType, PTL DEF Spec

-----------------------------------------------------------------------------
(* Sessions that were ended. *)

(* The only writes of the records insert an absent one, or find it stored. *)
LEMMA EndedStep ==
  ASSUME TypeInv, [Next]_vars, NEW t \in Tokens, tokens[t].state = "deleted"
  PROVE  tokens'[t].state = "deleted"
  <1>1. tokens \in [Tokens -> TokenRec]
    BY DEF TypeInv, TypeOK
  <1>2. ASSUME NEW d \in Tokens, tokens' = Dropped(d) PROVE tokens'[t].state = "deleted"
    BY <1>1, <1>2 DEF Dropped, Live, TokenRec
  <1>3. ASSUME NEW r \in Requests, Step(r) PROVE tokens'[t].state = "deleted"
    <2>1. CASE SaveToken(r)
      BY <1>1, <2>1 DEF SaveToken, FreshToken, TokenRec
    <2>2. CASE DropToken(r)
      <3>1. loc[r].token \in Tokens
        BY <2>2 DEF DropToken, TypeInv, HoldsOK, Holds, RefreshSteps
      <3> QED BY <1>2, <2>2, <3>1 DEF DropToken
    <2>3. CASE RotateToken(r)
      BY <1>1, <2>3 DEF RotateToken, Rotated, Live, TokenRec
    <2>4. CASE LogoutDelete(r)
      <3>1. loc[r].left \subseteq Tokens
        BY <2>4 DEF LogoutDelete, TypeInv, TypeOK, LocRec
      <3> QED BY <1>2, <2>4, <3>1 DEF LogoutDelete
    <2> QED BY <1>3, <2>1, <2>2, <2>3, <2>4
            DEF Step, CreateCheck, CreateCode, CreateInsert, UpdateEmail, ChangeCheck, Write,
                Lookup, AccountUpdate, AccountCreate, AccountOther, Commit, RefreshUser, LogoutFind
  <1>4. ASSUME NEW r \in Requests, StartRequest(r) PROVE UNCHANGED tokens
    BY <1>4 DEF StartRequest, CreateRead, RegisterRead, UpdateRead, SetPasswordRead,
                ChangePasswordRead, DeleteRead, RoleRead, LoginRead, RefreshRead, LogoutRead,
                AuthChangeRead
  <1>5. CASE UNCHANGED vars \/ Tick \/ Crash
    BY <1>5 DEF vars, Tick, Crash
  <1>6. ASSUME NEW d \in Tokens, DeleteToken(d) PROVE tokens'[t].state = "deleted"
    BY <1>2, <1>6 DEF DeleteToken
  <1> QED BY <1>3, <1>4, <1>5, <1>6 DEF Next

(* A refresh that was under way does not bring back a session that logout, *)
(* expiry or the token controller ended.                                   *)
THEOREM EndedSessionsStayEnded == Spec => EndedStaysEnded
  <1>1. TypeInv /\ [Next]_vars
          => [\A t \in Tokens : tokens[t].state = "deleted" => tokens'[t].state = "deleted"]_vars
    BY EndedStep
  <1> QED BY <1>1, InitType, NextType, PTL DEF Spec, EndedStaysEnded

-----------------------------------------------------------------------------
(* Requests and the users they work on. *)

(* A creation before its commit, and a transaction that has written.       *)
Creating(step, l) ==
    step \in CreateSteps \/ (step = "Commit" /\ l.op \in {"create", "register"})

Opened(step, l) == step \in TxnSteps /\ l.doc # NoUser

BeforeWrite == {"UpdateEmail", "ChangeCheck", "Write"}

(* How what a request holds fits the users us: the user of a creation is   *)
(* not there yet, that of any other request has been; and a transaction    *)
(* only changes what it should.                                            *)
FitsUser(us, step, l) ==
    /\ Creating(step, l) =>
         /\ us[l.user].state = "absent"
         /\ l.op \in {"create", "register"}
         /\ l.doc.state = "stored"
    /\ step # "Idle" /\ ~Creating(step, l) => us[l.user].state # "absent"

FitsDoc(us, step, l) ==
    /\ l.synced => step = "Commit" /\ NeedsKeycloak(l) /\ l.doc.state = "stored"
    /\ step \in BeforeWrite \cup {"Lookup", "Account"} =>
         l.op \in {"update", "password", "change", "delete", "role"}
    /\ step \in BeforeWrite =>
         l.doc = NoUser /\ (l.op = "role" => l.body.email = None /\ l.body.secret = NoSecret)
    /\ step \in {"Lookup", "Account"} /\ NeedsKeycloak(l) => l.doc.state = "stored"
    /\ Opened(step, l) =>
         /\ l.doc.state # "absent"
         /\ l.op = "delete" => l.doc.state = "deleted"
         /\ l.op \in Ops \ {"login", "refresh", "logout", "none"}
    /\ Opened(step, l) /\ l.op = "role" =>
         /\ us[l.user].state = "stored"
         /\ l.doc.email = us[l.user].email
         /\ l.doc.secret = us[l.user].secret

Fits(us, step, l) == FitsUser(us, step, l) /\ FitsDoc(us, step, l)

FitsOK == \A r \in Requests : Fits(users, pc[r], loc[r])

KeysDiffer(d, e) == d.email # e.email /\ d.code # e.code

(* Two requests: nobody else works on a user that is being created, and of *)
(* two open transactions each has its user and its keys.                   *)
PairOK ==
    \A r, q \in Requests : r # q =>
        /\ Creating(pc[r], loc[r]) /\ pc[q] # "Idle" => loc[q].user # loc[r].user
        /\ Opened(pc[r], loc[r]) /\ Opened(pc[q], loc[q]) =>
             /\ loc[q].user # loc[r].user
             /\ loc[r].doc.state = "stored" /\ loc[q].doc.state = "stored"
                  => KeysDiffer(loc[r].doc, loc[q].doc)

(* What an open transaction writes has keys that no other user has.        *)
PendingKeys ==
    \A r \in Requests : \A u \in Users :
        Opened(pc[r], loc[r]) /\ loc[r].doc.state = "stored" /\ u # loc[r].user /\ Stored(u)
          => KeysDiffer(loc[r].doc, users[u])

(* A token is of a user that has been stored.                              *)
TokensFit ==
    \A t \in Tokens : tokens[t].state # "absent" => users[tokens[t].user].state # "absent"

RequestInv == FitsOK /\ PairOK /\ PendingKeys /\ KeysUnique

LEMMA BlankFits == \A us : Fits(us, "Idle", Blank) /\ ~Creating("Idle", Blank) /\ ~Opened("Idle", Blank)
  BY DEF Fits, FitsUser, FitsDoc, Creating, Opened, CreateSteps, TxnSteps,
         BeforeWrite, Blank

(* A step of one request that changes no user: what it holds then has to   *)
(* fit, and to be apart from what the others hold.                         *)
LEMMA RequestGoto ==
  ASSUME TypeInv, RequestInv, UNCHANGED users, NEW r \in Requests, NEW step, NEW l,
         Goto(r, step, l), Fits(users, step, l),
         \A q \in Requests \ {r} :
           /\ Creating(step, l) /\ pc[q] # "Idle" => loc[q].user # l.user
           /\ step # "Idle" /\ Creating(pc[q], loc[q]) => loc[q].user # l.user
           /\ Opened(step, l) /\ Opened(pc[q], loc[q]) =>
                /\ loc[q].user # l.user
                /\ l.doc.state = "stored" /\ loc[q].doc.state = "stored"
                     => KeysDiffer(l.doc, loc[q].doc),
         \A u \in Users : Opened(step, l) /\ l.doc.state = "stored" /\ u # l.user /\ Stored(u)
                            => KeysDiffer(l.doc, users[u])
  PROVE  RequestInv'
  <1>1. /\ pc'[r] = step /\ loc'[r] = l
        /\ \A q \in Requests \ {r} : pc'[q] = pc[q] /\ loc'[q] = loc[q]
    BY DEF Goto, TypeInv, TypeOK
  <1>2. FitsOK'
    BY <1>1 DEF RequestInv, FitsOK
  <1>3. PairOK'
    <2>1. \A d, e : KeysDiffer(d, e) <=> KeysDiffer(e, d)
      BY DEF KeysDiffer
    <2> SUFFICES ASSUME NEW q \in Requests, NEW s \in Requests, q # s
                 PROVE  /\ Creating(pc'[q], loc'[q]) /\ pc'[s] # "Idle" => loc'[s].user # loc'[q].user
                        /\ Opened(pc'[q], loc'[q]) /\ Opened(pc'[s], loc'[s]) =>
                             /\ loc'[s].user # loc'[q].user
                             /\ loc'[q].doc.state = "stored" /\ loc'[s].doc.state = "stored"
                                  => KeysDiffer(loc'[q].doc, loc'[s].doc)
      BY DEF PairOK
    <2>2. CASE q = r
      BY <1>1, <2>1, <2>2
    <2>3. CASE s = r
      BY <1>1, <2>1, <2>3
    <2>4. CASE q # r /\ s # r
      BY <1>1, <2>4 DEF RequestInv, PairOK
    <2> QED BY <2>2, <2>3, <2>4
  <1>4. PendingKeys'
    BY <1>1 DEF RequestInv, PendingKeys, Stored
  <1>5. KeysUnique'
    BY DEF RequestInv, KeysUnique, Stored
  <1> QED BY <1>2, <1>3, <1>4, <1>5 DEF RequestInv

(* A step in which the request opens no transaction and starts no creation. *)
LEMMA RequestCalm ==
  ASSUME TypeInv, RequestInv, UNCHANGED users, NEW r \in Requests, NEW step, NEW l,
         Goto(r, step, l), Fits(users, step, l), step # "Idle" => l.user \in Users,
         Creating(step, l) => Creating(pc[r], loc[r]) /\ l.user = loc[r].user,
         Opened(step, l) => /\ Opened(pc[r], loc[r])
                            /\ l.user = loc[r].user /\ l.doc = loc[r].doc
  PROVE  RequestInv'
  <1>1. ASSUME NEW q \in Requests \ {r}, step # "Idle", Creating(pc[q], loc[q])
        PROVE  loc[q].user # l.user
    <2>1. users[loc[q].user].state = "absent"
      BY <1>1 DEF RequestInv, FitsOK, Fits, FitsUser
    <2>2. CASE Creating(step, l)
      <3>1. pc[r] # "Idle" /\ l.user = loc[r].user
        BY <2>2 DEF Creating, CreateSteps
      <3> QED BY <1>1, <3>1 DEF RequestInv, PairOK
    <2>3. CASE ~Creating(step, l)
      BY <1>1, <2>1, <2>3 DEF Fits, FitsUser
    <2> QED BY <2>2, <2>3
  <1>2. ASSUME NEW q \in Requests \ {r}, Creating(step, l), pc[q] # "Idle"
        PROVE  loc[q].user # l.user
    BY <1>2 DEF RequestInv, PairOK
  <1>3. ASSUME NEW q \in Requests \ {r}, Opened(step, l), Opened(pc[q], loc[q])
        PROVE  /\ loc[q].user # l.user
               /\ l.doc.state = "stored" /\ loc[q].doc.state = "stored"
                     => KeysDiffer(l.doc, loc[q].doc)
    BY <1>3 DEF RequestInv, PairOK
  <1>4. \A u \in Users : Opened(step, l) /\ l.doc.state = "stored" /\ u # l.user /\ Stored(u)
                            => KeysDiffer(l.doc, users[u])
    BY DEF RequestInv, PendingKeys
  <1> QED BY <1>1, <1>2, <1>3, <1>4, RequestGoto

LEMMA RequestFinish ==
  ASSUME TypeInv, RequestInv, UNCHANGED users, NEW r \in Requests, Finish(r)
  PROVE  RequestInv'
  BY BlankFits, RequestCalm DEF Finish

LEMMA RequestStay ==
  ASSUME RequestInv, UNCHANGED <<users, pc, loc>> PROVE RequestInv'
  BY DEF RequestInv, FitsOK, PairOK, PendingKeys, KeysUnique, Stored

LEMMA BlankFields ==
  /\ Blank.doc = NoUser /\ Blank.synced = FALSE /\ Blank.body.secret = NoSecret /\ NoBody.secret = NoSecret
  /\ NoUser.state = "absent"
  BY DEF Blank, NoBody, NoUser

(* A creation starts with a user nobody works on.                          *)
LEMMA CreateStartRequests ==
  ASSUME TypeInv, RequestInv, NEW r \in Requests, CreateRead(r) \/ RegisterRead(r)
  PROVE  RequestInv'
  <1>0. UNCHANGED users
    BY DEF CreateRead, RegisterRead
  <1>1. ASSUME NEW u \in Users, users[u].state = "absent", \A q \in Requests : loc[q].user # u,
               NEW op \in {"create", "register"}, NEW step \in {"CreateCode", "CreateCheck"},
               NEW doc, doc.state = "stored",
               Goto(r, step, [Blank EXCEPT !.op = op, !.user = u, !.doc = doc])
        PROVE  RequestInv'
    <2> DEFINE l == [Blank EXCEPT !.op = op, !.user = u, !.doc = doc]
    <2>1. l.user = u /\ l.doc = doc /\ l.op = op /\ l.body.secret = NoSecret
          /\ l.synced = FALSE
      BY BlankFields DEF Blank
    <2>2. Goto(r, step, l)
      BY <1>1
    <2> HIDE DEF l
    <2>3. Creating(step, l) /\ ~Opened(step, l)
      BY DEF Creating, CreateSteps, Opened, TxnSteps
    <2>4. Fits(users, step, l)
      BY <1>1, <2>1, <2>3, BlankFields DEF Fits, FitsUser, FitsDoc, BeforeWrite
    <2> QED BY <1>0, <1>1, <2>1, <2>2, <2>3, <2>4, RequestGoto
  <1>2. CASE CreateRead(r)
    <2>1. PICK u \in Users, email \in Emails, given \in Secret, status \in Statuses,
               role \in Resolves \cup {None} :
            /\ users[u].state = "absent"
            /\ \A q \in Requests : loc[q].user # u
            /\ Goto(r, "CreateCode",
                    [Blank EXCEPT !.op = "create", !.user = u,
                                  !.doc = NewUser(email, given, status, role)])
      BY <1>2 DEF CreateRead
    <2>2. NewUser(email, given, status, role).state = "stored"
      BY DEF NewUser, NoUser
    <2> QED BY <1>1, <2>1, <2>2 DEF Ops
  <1>3. CASE RegisterRead(r)
    <2>1. PICK u \in Users, email \in Emails, p \in Passwords :
            /\ users[u].state = "absent"
            /\ \A q \in Requests : loc[q].user # u
            /\ Goto(r, "CreateCheck",
                    [Blank EXCEPT !.op = "register", !.user = u,
                                  !.doc = NewUser(email, Hash(p), "active", None)])
      BY <1>3 DEF RegisterRead
    <2>2. NewUser(email, Hash(p), "active", None).state = "stored"
      BY DEF NewUser, NoUser
    <2> QED BY <1>1, <2>1, <2>2 DEF Ops
  <1> QED BY <1>2, <1>3

LEMMA OtherStartRequests ==
  ASSUME TypeInv, RequestInv, TokensFit, NEW r \in Requests, StartRequest(r),
         ~CreateRead(r), ~RegisterRead(r)
  PROVE  RequestInv'
  <1>0. UNCHANGED users
    BY DEF StartRequest, UpdateRead, SetPasswordRead, ChangePasswordRead, DeleteRead, RoleRead,
           LoginRead, RefreshRead, LogoutRead, AuthChangeRead
  <1>1. ASSUME NEW step \in {"Write", "UpdateEmail", "ChangeCheck", "SaveToken", "DropToken",
                             "RefreshUser", "LogoutDelete"},
               NEW l, Goto(r, step, l), l.user \in Users, l.doc = NoUser,
               users[l.user].state # "absent",
               l.synced = FALSE,
               step \in BeforeWrite => l.op \in {"update", "password", "change", "delete", "role"},
               l.op = "role" => l.body.email = None /\ l.body.secret = NoSecret
        PROVE  RequestInv'
    <2>1. ~Creating(step, l) /\ ~Opened(step, l)
      BY DEF Creating, CreateSteps, Opened, TxnSteps
    <2>2. Fits(users, step, l)
      BY <1>1, <2>1 DEF Fits, FitsUser, FitsDoc, BeforeWrite
    <2> QED BY <1>0, <1>1, <2>1, <2>2, RequestCalm
  <1>2. CASE UpdateRead(r)
    <2>1. PICK u \in Users, body \in Bodies, step \in {"Write", "UpdateEmail"} :
            /\ Stored(u)
            /\ Goto(r, step, [Blank EXCEPT !.op = "update", !.user = u, !.body = body])
      BY <1>2 DEF UpdateRead
    <2> DEFINE l == [Blank EXCEPT !.op = "update", !.user = u, !.body = body]
    <2>2. l.user = u /\ l.doc = NoUser /\ l.op = "update" /\ l.synced = FALSE
      BY DEF Blank
    <2>3. Goto(r, step, l)
      BY <2>1
    <2> HIDE DEF l
    <2> QED BY <1>1, <2>1, <2>2, <2>3 DEF Stored
  <1>3. CASE SetPasswordRead(r) \/ ChangePasswordRead(r)
    <2>1. PICK u \in Users, given \in Secret :
            /\ Stored(u)
            /\ Goto(r, "Write", Snapshot(u, "password", [NoBody EXCEPT !.secret = given]))
      BY <1>3 DEF SetPasswordRead, ChangePasswordRead
    <2> DEFINE l == Snapshot(u, "password", [NoBody EXCEPT !.secret = given])
    <2>2. l.user = u /\ l.doc = NoUser /\ l.op = "password"
          /\ l.synced = FALSE
      BY DEF Snapshot, Blank, NoBody
    <2>3. Goto(r, "Write", l)
      BY <2>1
    <2> HIDE DEF l
    <2> QED BY <1>1, <2>1, <2>2, <2>3, BlankFields DEF Stored
  <1>4. CASE DeleteRead(r)
    <2>1. PICK u \in Users :
            /\ Stored(u)
            /\ Goto(r, "Write", [Blank EXCEPT !.op = "delete", !.user = u, !.email = users[u].email])
      BY <1>4 DEF DeleteRead
    <2> DEFINE l == [Blank EXCEPT !.op = "delete", !.user = u, !.email = users[u].email]
    <2>2. l.user = u /\ l.doc = NoUser /\ l.op = "delete"
          /\ l.synced = FALSE /\ l.body.secret = NoSecret
      BY DEF Blank, NoBody
    <2>3. Goto(r, "Write", l)
      BY <2>1
    <2> HIDE DEF l
    <2> QED BY <1>1, <2>1, <2>2, <2>3, BlankFields DEF Stored
  <1>5. CASE RoleRead(r)
    <2>1. PICK u \in Users, role \in (RoleRefs \ Resolves) \cup {None} :
            /\ Stored(u)
            /\ Goto(r, "Write", [Blank EXCEPT !.op = "role", !.user = u, !.email = users[u].email,
                                              !.body = [NoBody EXCEPT !.role = role]])
      BY <1>5 DEF RoleRead
    <2> DEFINE l == [Blank EXCEPT !.op = "role", !.user = u, !.email = users[u].email,
                                  !.body = [NoBody EXCEPT !.role = role]]
    <2>2. l.user = u /\ l.doc = NoUser /\ l.op = "role"
          /\ l.synced = FALSE /\ l.body.email = None /\ l.body.secret = NoSecret
      BY DEF Blank, NoBody
    <2>3. Goto(r, "Write", l)
      BY <2>1
    <2> HIDE DEF l
    <2> QED BY <1>1, <2>1, <2>2, <2>3, BlankFields DEF Stored
  <1>6. CASE LoginRead(r)
    <2>1. PICK u \in Users, p \in Passwords :
            /\ Stored(u) /\ Verified(u, p)
            /\ Goto(r, "SaveToken", [Blank EXCEPT !.op = "login", !.user = u, !.iat = now])
      BY <1>6 DEF LoginRead
    <2> DEFINE l == [Blank EXCEPT !.op = "login", !.user = u, !.iat = now]
    <2>2. l.user = u /\ l.doc = NoUser /\ l.op = "login" /\ l.synced = FALSE
      BY DEF Blank
    <2>3. Goto(r, "SaveToken", l)
      BY <2>1
    <2> HIDE DEF l
    <2> QED BY <1>1, <2>1, <2>2, <2>3 DEF Stored, BeforeWrite
  <1>7. CASE RefreshRead(r)
    <2>1. PICK t \in Tokens, step \in {"DropToken", "RefreshUser"} :
            Live(t) /\ Goto(r, step, [Blank EXCEPT !.op = "refresh", !.user = tokens[t].user,
                                                   !.token = t])
      BY <1>7 DEF RefreshRead
    <2> DEFINE l == [Blank EXCEPT !.op = "refresh", !.user = tokens[t].user, !.token = t]
    <2>2. tokens[t].user \in Users /\ users[tokens[t].user].state # "absent"
      BY <2>1 DEF Live, TypeInv, TokensOK, TokensFit
    <2>3. l.user = tokens[t].user /\ l.doc = NoUser /\ l.op = "refresh"
          /\ l.synced = FALSE /\ l.body.secret = NoSecret
      BY DEF Blank, NoBody
    <2>4. Goto(r, step, l)
      BY <2>1
    <2> HIDE DEF l
    <2> QED BY <1>1, <2>2, <2>3, <2>4, BlankFields DEF BeforeWrite
  <1>8. CASE LogoutRead(r)
    <2>1. PICK u \in Users :
            /\ TokensOf(u) # {}
            /\ Goto(r, "LogoutDelete", [Blank EXCEPT !.op = "logout", !.user = u, !.left = TokensOf(u)])
      BY <1>8 DEF LogoutRead
    <2> DEFINE l == [Blank EXCEPT !.op = "logout", !.user = u, !.left = TokensOf(u)]
    <2>2. users[u].state # "absent"
      BY <2>1 DEF TokensOf, Live, TokensFit
    <2>3. l.user = u /\ l.doc = NoUser /\ l.op = "logout"
          /\ l.synced = FALSE /\ l.body.secret = NoSecret
      BY DEF Blank, NoBody
    <2>4. Goto(r, "LogoutDelete", l)
      BY <2>1
    <2> HIDE DEF l
    <2> QED BY <1>1, <2>2, <2>3, <2>4, BlankFields DEF BeforeWrite
  <1>9. CASE AuthChangeRead(r)
    <2>1. PICK u \in Users, p \in Passwords, q \in Passwords :
            /\ Stored(u) /\ Verified(u, p)
            /\ Goto(r, "ChangeCheck", [Blank EXCEPT !.op = "change", !.user = u, !.old = Plain(p),
                                                    !.body = [NoBody EXCEPT !.secret = Hash(q)]])
      BY <1>9 DEF AuthChangeRead
    <2> DEFINE l == [Blank EXCEPT !.op = "change", !.user = u, !.old = Plain(p),
                                  !.body = [NoBody EXCEPT !.secret = Hash(q)]]
    <2>2. l.user = u /\ l.doc = NoUser /\ l.op = "change" /\ l.synced = FALSE
      BY DEF Blank
    <2>3. Goto(r, "ChangeCheck", l)
      BY <2>1
    <2> HIDE DEF l
    <2> QED BY <1>1, <2>1, <2>2, <2>3 DEF Stored
  <1> QED BY <1>2, <1>3, <1>4, <1>5, <1>6, <1>7, <1>8, <1>9 DEF StartRequest

(* What a transaction writes.                                              *)
LEMMA WrittenFits ==
  ASSUME TypeInv, NEW l \in LocRec, l.user \in Users, users[l.user].state = "stored",
         Fits(users, "Write", l)
  PROVE  /\ Written(l).state = IF l.op = "delete" THEN "deleted" ELSE "stored"
         /\ l.op = "role" => /\ Written(l).email = users[l.user].email
                             /\ Written(l).secret = users[l.user].secret
  <1>1. l.op = "role" => l.body.email = None /\ l.body.secret = NoSecret
    BY DEF Fits, FitsDoc, BeforeWrite
  <1>2. users[l.user] \in UserRec
    BY DEF TypeInv, TypeOK
  <1>3. CASE l.op = "delete"
    <2>1. Written(l).state = "deleted"
      BY <1>3 DEF Written, NoUser
    <2> QED BY <1>3, <2>1
  <1>4. CASE l.op # "delete"
    <2>1. Written(l) = Updated(users[l.user], l.body)
      BY <1>4 DEF Written
    <2>2. /\ Updated(users[l.user], l.body).state = users[l.user].state
          /\ Updated(users[l.user], l.body).email = Given(l.body.email, users[l.user].email)
          /\ Updated(users[l.user], l.body).secret =
               IF l.body.secret = NoSecret THEN users[l.user].secret ELSE l.body.secret
      BY <1>2 DEF Updated, UserRec
    <2> QED BY <1>1, <1>4, <2>1, <2>2 DEF Given
  <1> QED BY <1>3, <1>4

LEMMA NotTaken ==
  ASSUME NEW r \in Requests, NEW doc, ~Taken(r, doc)
  PROVE  /\ \A u \in Users \ {loc[r].user} : Stored(u) => KeysDiffer(doc, users[u])
         /\ \A q \in Requests \ {r} :
              Opened(pc[q], loc[q]) /\ loc[q].user # loc[r].user /\ loc[q].doc.state = "stored"
                => KeysDiffer(doc, loc[q].doc)
  BY DEF Taken, KeysDiffer, Opened, Pending

LEMMA CreateRequests ==
  ASSUME TypeInv, RequestInv, NEW r \in Requests, CreateCheck(r) \/ CreateCode(r) \/ CreateInsert(r)
  PROVE  RequestInv'
  <1>0. UNCHANGED users /\ pc[r] \in CreateSteps
    BY DEF CreateCheck, CreateCode, CreateInsert, CreateSteps
  <1>1. /\ Fits(users, pc[r], loc[r]) /\ loc[r] \in LocRec /\ loc[r].user \in Users
        /\ Creating(pc[r], loc[r]) /\ pc[r] # "Idle"
    BY <1>0 DEF RequestInv, FitsOK, TypeInv, TypeOK, HoldsOK, Holds, Creating, CreateSteps
  <1>2. /\ users[loc[r].user].state = "absent" /\ loc[r].op \in {"create", "register"}
        /\ loc[r].doc.state = "stored" /\ ~loc[r].synced
    BY <1>0, <1>1 DEF Fits, FitsUser, FitsDoc, CreateSteps
  <1>3. ASSUME NEW step \in {"CreateCode", "CreateInsert", "Commit"}, NEW l, l.user = loc[r].user,
               l.op = loc[r].op, l.doc.state = "stored", l.synced = loc[r].synced
        PROVE  Fits(users, step, l) /\ Creating(step, l)
    <2>1. Creating(step, l)
      BY <1>2, <1>3 DEF Creating, CreateSteps
    <2>2. FitsUser(users, step, l)
      BY <1>2, <1>3, <2>1 DEF FitsUser
    <2>3. FitsDoc(users, step, l)
      BY <1>2, <1>3, <2>1 DEF FitsDoc, BeforeWrite, Ops
    <2> QED BY <2>1, <2>2, <2>3 DEF Fits
  <1>4. CASE Finish(r)
    BY <1>0, <1>4, RequestFinish
  <1>5. ASSUME CreateCheck(r), Goto(r, "CreateCode", loc[r]) PROVE RequestInv'
    <2>1. Fits(users, "CreateCode", loc[r]) /\ ~Opened("CreateCode", loc[r])
      BY <1>2, <1>3 DEF Opened, TxnSteps
    <2> QED BY <1>0, <1>1, <1>5, <2>1, RequestCalm
  <1>6. CASE CreateCode(r)
    <2> DEFINE l == [loc[r] EXCEPT !.doc.code = NextCode]
    <2>1. /\ l.user = loc[r].user /\ l.op = loc[r].op /\ l.doc.state = loc[r].doc.state
          /\ l.synced = loc[r].synced
      BY <1>1 DEF LocRec, UserRec
    <2>2. Goto(r, "CreateInsert", l)
      BY <1>6 DEF CreateCode
    <2> HIDE DEF l
    <2>3. Fits(users, "CreateInsert", l) /\ ~Opened("CreateInsert", l)
      BY <1>2, <1>3, <2>1 DEF Opened, TxnSteps
    <2> QED BY <1>0, <1>1, <2>1, <2>2, <2>3, RequestCalm
  <1>7. ASSUME CreateInsert(r), ~Taken(r, loc[r].doc), Goto(r, "Commit", loc[r])
        PROVE  RequestInv'
    <2>1. Fits(users, "Commit", loc[r]) /\ Creating("Commit", loc[r])
      BY <1>2, <1>3
    <2>2. ASSUME NEW q \in Requests \ {r}, pc[q] # "Idle" PROVE loc[q].user # loc[r].user
      BY <1>1, <2>2 DEF RequestInv, PairOK
    <2>3. ASSUME NEW q \in Requests \ {r}, Creating(pc[q], loc[q]) \/ Opened(pc[q], loc[q])
          PROVE  pc[q] # "Idle"
      BY <2>3 DEF Creating, CreateSteps, Opened, TxnSteps
    <2>4. ASSUME NEW q \in Requests \ {r}, Opened(pc[q], loc[q]), loc[q].doc.state = "stored"
          PROVE  KeysDiffer(loc[r].doc, loc[q].doc)
      BY <1>7, <2>2, <2>3, <2>4, NotTaken
    <2>5. \A u \in Users : u # loc[r].user /\ Stored(u) => KeysDiffer(loc[r].doc, users[u])
      BY <1>7, NotTaken
    <2> QED BY <1>0, <1>7, <2>1, <2>2, <2>3, <2>4, <2>5, RequestGoto
  <1> QED BY <1>4, <1>5, <1>6, <1>7 DEF CreateCheck, CreateInsert

LEMMA WriteRequests ==
  ASSUME TypeInv, RequestInv, NEW r \in Requests,
         UpdateEmail(r) \/ ChangeCheck(r) \/ Write(r)
  PROVE  RequestInv'
  <1>0. UNCHANGED users /\ pc[r] \in BeforeWrite
    BY DEF UpdateEmail, ChangeCheck, Write, BeforeWrite
  <1>1. /\ Fits(users, pc[r], loc[r]) /\ loc[r] \in LocRec /\ loc[r].user \in Users
        /\ ~Creating(pc[r], loc[r]) /\ pc[r] # "Idle"
    BY <1>0 DEF RequestInv, FitsOK, TypeInv, TypeOK, HoldsOK, Holds, Creating, CreateSteps, BeforeWrite
  <1>2. /\ users[loc[r].user].state # "absent"
        /\ loc[r].op \in {"update", "password", "change", "delete", "role"}
        /\ loc[r].doc = NoUser /\ ~loc[r].synced
        /\ loc[r].op = "role" => loc[r].body.email = None /\ loc[r].body.secret = NoSecret
    BY <1>0, <1>1 DEF Fits, FitsUser, FitsDoc, BeforeWrite
  <1>3. CASE Finish(r)
    BY <1>0, <1>3, RequestFinish
  <1>4. ASSUME UpdateEmail(r), Goto(r, "Write", loc[r]) PROVE RequestInv'
    <2>1. ~Creating("Write", loc[r]) /\ ~Opened("Write", loc[r])
      BY DEF Creating, CreateSteps, Opened, TxnSteps
    <2>2. Fits(users, "Write", loc[r])
      BY <1>2, <2>1 DEF Fits, FitsUser, FitsDoc
    <2> QED BY <1>0, <1>1, <1>4, <2>1, <2>2, RequestCalm
  <1>5. ASSUME Goto(r, "Write", Snapshot(loc[r].user, "change", loc[r].body)) PROVE RequestInv'
    <2> DEFINE l == Snapshot(loc[r].user, "change", loc[r].body)
    <2>1. /\ l.user = loc[r].user /\ l.op = "change" /\ l.doc = NoUser /\ l.synced = FALSE
          /\ l.body = loc[r].body
      BY DEF Snapshot, Blank
    <2>2. Goto(r, "Write", l)
      BY <1>5
    <2> HIDE DEF l
    <2>3. ~Creating("Write", l) /\ ~Opened("Write", l)
      BY DEF Creating, CreateSteps, Opened, TxnSteps
    <2>4. Fits(users, "Write", l)
      BY <1>2, <2>1, <2>3 DEF Fits, FitsUser, FitsDoc
    <2> QED BY <1>0, <1>1, <2>1, <2>2, <2>3, <2>4, RequestCalm
  <1>6. ASSUME NEW step \in {"Lookup", "Commit"}, pc[r] = "Write", ~Stored(loc[r].user),
               ~NeedsKeycloak(loc[r]), Goto(r, step, loc[r])
        PROVE  RequestInv'
    <2>1. ~Creating(step, loc[r]) /\ ~Opened(step, loc[r])
      BY <1>2 DEF Creating, CreateSteps, Opened
    <2>2. Fits(users, step, loc[r])
      BY <1>2, <1>6, <2>1 DEF Fits, FitsUser, FitsDoc, BeforeWrite
    <2> QED BY <1>0, <1>1, <1>6, <2>1, <2>2, RequestCalm
  <1>7. ASSUME NEW step \in {"Lookup", "Commit"}, pc[r] = "Write", Stored(loc[r].user),
               ~Locked(r, loc[r].user),
               Written(loc[r]).state = "stored" => ~Taken(r, Written(loc[r])),
               Goto(r, step, Told(loc[r], Written(loc[r])))
        PROVE  RequestInv'
    <2> DEFINE doc == Written(loc[r])
               l == Told(loc[r], doc)
    <2>1. /\ doc.state = IF loc[r].op = "delete" THEN "deleted" ELSE "stored"
          /\ loc[r].op = "role" => /\ doc.email = users[loc[r].user].email
                                   /\ doc.secret = users[loc[r].user].secret
      BY <1>1, <1>7, WrittenFits DEF Stored
    <2>2. /\ l.user = loc[r].user /\ l.op = loc[r].op /\ l.doc = doc /\ l.body = NoBody
          /\ l.synced = loc[r].synced
      BY <1>1 DEF Told, LocRec
    <2>3. Goto(r, step, l)
      BY <1>7
    <2> HIDE DEF doc, l
    <2>4. ~Creating(step, l) /\ (NeedsKeycloak(l) => l.op # "delete")
      BY <1>2, <2>2 DEF Creating, CreateSteps, NeedsKeycloak
    <2>5. FitsUser(users, step, l)
      BY <1>2, <2>2, <2>4 DEF FitsUser
    <2>6. FitsDoc(users, step, l)
      BY <1>2, <1>7, <2>1, <2>2, <2>4 DEF FitsDoc, BeforeWrite, Ops, Stored
    <2>7. ASSUME NEW q \in Requests \ {r}, Opened(pc[q], loc[q]) PROVE loc[q].user # l.user
      BY <1>7, <2>2, <2>7 DEF Locked, Opened, Pending
    <2>8. ASSUME NEW q \in Requests \ {r}, Creating(pc[q], loc[q]) PROVE loc[q].user # l.user
      <3>1. users[loc[q].user].state = "absent"
        BY <2>8 DEF RequestInv, FitsOK, Fits, FitsUser
      <3> QED BY <1>2, <2>2, <3>1
    <2>9. ASSUME NEW q \in Requests \ {r}, Opened(pc[q], loc[q]), doc.state = "stored",
                 loc[q].doc.state = "stored"
          PROVE  KeysDiffer(doc, loc[q].doc)
      BY <1>7, <2>2, <2>7, <2>9, NotTaken DEF doc
    <2>10. ASSUME doc.state = "stored", NEW u \in Users, u # loc[r].user, Stored(u)
           PROVE  KeysDiffer(doc, users[u])
      BY <1>7, <2>10, NotTaken DEF doc
    <2>11. Fits(users, step, l)
      BY <2>5, <2>6 DEF Fits
    <2> QED BY <1>0, <2>2, <2>3, <2>4, <2>7, <2>8, <2>9, <2>10, <2>11, RequestGoto
  <1>8. CASE UpdateEmail(r)
    BY <1>3, <1>4, <1>8 DEF UpdateEmail
  <1>9. CASE ChangeCheck(r)
    BY <1>3, <1>5, <1>9 DEF ChangeCheck
  <1>10. CASE Write(r)
    <2>1. pc[r] = "Write"
      BY <1>10 DEF Write
    <2>2. CASE ~Stored(loc[r].user) /\ ~Finish(r)
      <3>1. ~NeedsKeycloak(loc[r]) /\ \E step \in {"Lookup", "Commit"} : Goto(r, step, loc[r])
        BY <1>10, <2>2 DEF Write
      <3> QED BY <1>6, <2>1, <2>2, <3>1
    <2>3. CASE Stored(loc[r].user) /\ ~Finish(r)
      <3>1. /\ ~Locked(r, loc[r].user)
            /\ Written(loc[r]).state = "stored" => ~Taken(r, Written(loc[r]))
            /\ \E step \in {"Lookup", "Commit"} : Goto(r, step, Told(loc[r], Written(loc[r])))
        BY <1>10, <2>3 DEF Write
      <3> QED BY <1>7, <2>1, <2>3, <3>1
    <2> QED BY <1>3, <2>2, <2>3
  <1> QED BY <1>8, <1>9, <1>10

LEMMA KeycloakRequests ==
  ASSUME TypeInv, RequestInv, NEW r \in Requests,
         Lookup(r) \/ AccountUpdate(r) \/ AccountCreate(r) \/ AccountOther(r)
  PROVE  RequestInv'
  <1>0. UNCHANGED users /\ pc[r] \in {"Lookup", "Account"}
    BY DEF Lookup, AccountUpdate, AccountCreate, AccountOther
  <1>1. /\ Fits(users, pc[r], loc[r]) /\ loc[r] \in LocRec /\ loc[r].user \in Users
        /\ ~Creating(pc[r], loc[r]) /\ pc[r] # "Idle"
    BY <1>0 DEF RequestInv, FitsOK, TypeInv, TypeOK, HoldsOK, Holds, Creating, CreateSteps
  <1>2. /\ users[loc[r].user].state # "absent"
        /\ loc[r].op \in {"update", "password", "change", "delete", "role"}
        /\ ~loc[r].synced
        /\ NeedsKeycloak(loc[r]) => loc[r].doc.state = "stored"
    BY <1>0, <1>1 DEF Fits, FitsUser, FitsDoc
  <1>3. loc[r].doc # NoUser =>
          /\ Opened(pc[r], loc[r])
          /\ loc[r].doc.state # "absent"
          /\ loc[r].op = "delete" => loc[r].doc.state = "deleted"
          /\ loc[r].op = "role" => /\ users[loc[r].user].state = "stored"
                                   /\ loc[r].doc.email = users[loc[r].user].email
                                   /\ loc[r].doc.secret = users[loc[r].user].secret
    BY <1>0, <1>1 DEF Fits, FitsDoc, Opened, TxnSteps
  <1>4. ASSUME NEW step \in {"Account", "Commit"}, NEW l, Goto(r, step, l), l.user = loc[r].user,
               l.op = loc[r].op, l.doc = loc[r].doc,
               l.synced => step = "Commit" /\ NeedsKeycloak(loc[r])
        PROVE  RequestInv'
    <2>1. ~Creating(step, l) /\ (NeedsKeycloak(l) <=> NeedsKeycloak(loc[r]))
      BY <1>2, <1>4 DEF Creating, CreateSteps, NeedsKeycloak
    <2>2. FitsUser(users, step, l)
      BY <1>2, <1>4, <2>1 DEF FitsUser
    <2>3. FitsDoc(users, step, l)
      BY <1>2, <1>3, <1>4, <2>1 DEF FitsDoc, BeforeWrite, Ops, Opened
    <2>4. Opened(step, l) => Opened(pc[r], loc[r])
      BY <1>3, <1>4 DEF Opened
    <2> QED BY <1>0, <1>1, <1>4, <2>1, <2>2, <2>3, <2>4, RequestCalm DEF Fits
  <1>5. ASSUME NEW b \in BOOLEAN, b => NeedsKeycloak(loc[r]), Goto(r, "Commit", Answered(loc[r], b))
        PROVE  RequestInv'
    <2> DEFINE l == Answered(loc[r], b)
    <2>1. /\ l.user = loc[r].user /\ l.op = loc[r].op /\ l.doc = loc[r].doc /\ l.synced = b
      BY DEF Answered, Blank
    <2>2. Goto(r, "Commit", l)
      BY <1>5
    <2> HIDE DEF l
    <2> QED BY <1>4, <1>5, <2>1, <2>2
  <1>6. ASSUME NEW a, Goto(r, "Account", [loc[r] EXCEPT !.account = a]) PROVE RequestInv'
    <2> DEFINE l == [loc[r] EXCEPT !.account = a]
    <2>1. /\ l.user = loc[r].user /\ l.op = loc[r].op /\ l.doc = loc[r].doc
          /\ l.synced = loc[r].synced /\ l.body = loc[r].body
      BY <1>1 DEF LocRec
    <2>2. Goto(r, "Account", l)
      BY <1>6
    <2> HIDE DEF l
    <2> QED BY <1>2, <1>4, <2>1, <2>2
  <1>7. CASE Finish(r)
    BY <1>0, <1>7, RequestFinish
  <1>8. CASE Lookup(r)
    <2>1. \/ Finish(r) \/ Goto(r, "Account", loc[r])
          \/ Goto(r, "Commit", Answered(loc[r], FALSE))
          \/ \E a \in Found(loc[r].email) : Goto(r, "Account", [loc[r] EXCEPT !.account = a])
      BY <1>8 DEF Lookup
    <2>2. ASSUME Goto(r, "Account", loc[r]) PROVE RequestInv'
      BY <1>2, <1>4, <2>2
    <2> QED BY <1>5, <1>6, <1>7, <2>1, <2>2
  <1>9. CASE AccountUpdate(r)
    <2>1. NeedsKeycloak(loc[r]) /\ \E b \in BOOLEAN : Goto(r, "Commit", Answered(loc[r], b))
      BY <1>9 DEF AccountUpdate, Together
    <2> QED BY <1>5, <2>1
  <1>10. CASE AccountCreate(r)
    <2> DEFINE l == [loc[r] EXCEPT !.account = loc[r].user]
    <2>1. Answered(l, Together(l)) = Answered(loc[r], Together(l)) /\ Together(l) \in BOOLEAN
      BY <1>1 DEF Answered, Together, LocRec
    <2>2. NeedsKeycloak(loc[r]) /\ (Finish(r) \/ Goto(r, "Commit", Answered(l, Together(l))))
      BY <1>10 DEF AccountCreate
    <2> QED BY <1>5, <1>7, <2>1, <2>2
  <1>11. CASE AccountOther(r)
    BY <1>5, <1>11 DEF AccountOther
  <1> QED BY <1>8, <1>9, <1>10, <1>11

LEMMA TokenRequests ==
  ASSUME TypeInv, RequestInv, NEW r \in Requests,
         SaveToken(r) \/ DropToken(r) \/ RefreshUser(r) \/ RotateToken(r) \/ LogoutFind(r)
         \/ LogoutDelete(r)
  PROVE  RequestInv'
  <1>0. /\ UNCHANGED users
        /\ pc[r] \in {"SaveToken", "LogoutFind", "LogoutDelete"} \cup RefreshSteps
    BY DEF SaveToken, DropToken, RefreshUser, RotateToken, LogoutFind, LogoutDelete, RefreshSteps
  <1>1. /\ Fits(users, pc[r], loc[r]) /\ loc[r] \in LocRec /\ loc[r].user \in Users
        /\ ~Creating(pc[r], loc[r]) /\ pc[r] # "Idle"
    BY <1>0 DEF RequestInv, FitsOK, TypeInv, TypeOK, HoldsOK, Holds, Creating, CreateSteps,
                RefreshSteps
  <1>2. /\ users[loc[r].user].state # "absent" /\ ~loc[r].synced
    BY <1>0, <1>1 DEF Fits, FitsUser, FitsDoc, RefreshSteps
  <1>3. ASSUME NEW step \in {"RotateToken", "LogoutDelete"}, NEW l, Goto(r, step, l),
               l.user = loc[r].user, l.synced = loc[r].synced, l.body = loc[r].body
        PROVE  RequestInv'
    <2>1. ~Creating(step, l) /\ ~Opened(step, l)
      BY DEF Creating, CreateSteps, Opened, TxnSteps
    <2>2. Fits(users, step, l)
      BY <1>2, <1>3, <2>1 DEF Fits, FitsUser, FitsDoc, BeforeWrite
    <2> QED BY <1>0, <1>1, <1>3, <2>1, <2>2, RequestCalm
  <1>4. CASE Finish(r)
    BY <1>0, <1>4, RequestFinish
  <1>5. CASE RefreshUser(r)
    <2> DEFINE l == [loc[r] EXCEPT !.iat = now]
    <2>1. l.user = loc[r].user /\ l.synced = loc[r].synced /\ l.body = loc[r].body
      BY <1>1 DEF LocRec
    <2>2. Finish(r) \/ Goto(r, "RotateToken", l)
      BY <1>5 DEF RefreshUser
    <2> HIDE DEF l
    <2> QED BY <1>3, <1>4, <2>1, <2>2
  <1>6. ASSUME NEW left, Goto(r, "LogoutDelete", [loc[r] EXCEPT !.left = left]) PROVE RequestInv'
    <2> DEFINE l == [loc[r] EXCEPT !.left = left]
    <2>1. l.user = loc[r].user /\ l.synced = loc[r].synced /\ l.body = loc[r].body
      BY <1>1 DEF LocRec
    <2>2. Goto(r, "LogoutDelete", l)
      BY <1>6
    <2> HIDE DEF l
    <2> QED BY <1>3, <2>1, <2>2
  <1>7. CASE LogoutFind(r)
    BY <1>6, <1>7 DEF LogoutFind
  <1>8. CASE LogoutDelete(r)
    <2>1. Finish(r) \/ \E t \in loc[r].left :
                          Goto(r, "LogoutDelete", [loc[r] EXCEPT !.left = loc[r].left \ {t}])
      BY <1>8 DEF LogoutDelete
    <2> QED BY <1>4, <1>6, <2>1
  <1> QED BY <1>4, <1>5, <1>7, <1>8 DEF SaveToken, DropToken, RotateToken

(* The commit of a transaction: the others keep what they hold, and what   *)
(* they hold still fits the users.                                         *)
LEMMA CommitWrites ==
  ASSUME TypeInv, RequestInv, NEW r \in Requests, Opened(pc[r], loc[r]),
         users' = [users EXCEPT ![loc[r].user] = loc[r].doc], loc[r].user \in Users
  PROVE  /\ \A q \in Requests \ {r} : Fits(users', pc[q], loc[q])
         /\ KeysUnique'
         /\ \A q \in Requests \ {r} : \A u \in Users :
              Opened(pc[q], loc[q]) /\ loc[q].doc.state = "stored" /\ u # loc[q].user
              /\ users'[u].state = "stored" => KeysDiffer(loc[q].doc, users'[u])
         /\ \A u \in Users : users[u].state # "absent" => users'[u].state # "absent"
  <1> DEFINE u == loc[r].user
             d == loc[r].doc
  <1>1. Fits(users, pc[r], loc[r]) /\ users \in [Users -> UserRec]
    BY DEF RequestInv, FitsOK, TypeInv, TypeOK
  <1>2. d.state # "absent" /\ users'[u] = d /\ \A v \in Users \ {u} : users'[v] = users[v]
    BY <1>1 DEF Fits, FitsDoc
  <1>4. ASSUME NEW q \in Requests \ {r} PROVE Fits(users', pc[q], loc[q])
    <2>1. Fits(users, pc[q], loc[q]) /\ (pc[q] # "Idle" => loc[q].user \in Users)
      BY DEF RequestInv, FitsOK, TypeInv, HoldsOK, Holds
    <2>2. CASE pc[q] = "Idle" \/ loc[q].user # u
      BY <1>2, <2>1, <2>2 DEF Fits, FitsUser, FitsDoc, Creating, CreateSteps, Opened,
                              TxnSteps
    <2>3. CASE pc[q] # "Idle" /\ loc[q].user = u
      <3>1. pc[r] # "Idle"
        BY DEF Opened, TxnSteps
      <3>2. ~Creating(pc[q], loc[q]) /\ ~Creating(pc[r], loc[r]) /\ ~Opened(pc[q], loc[q])
        BY <2>3, <3>1 DEF RequestInv, PairOK
      <3>3. users[u].state # "absent"
        BY <2>1, <2>3, <3>2 DEF Fits, FitsUser
      <3>4. users'[u].state # "absent"
        BY <1>2
      <3>5. FitsUser(users', pc[q], loc[q])
        BY <2>1, <2>3, <3>2, <3>4 DEF Fits, FitsUser
      <3>6. FitsDoc(users', pc[q], loc[q])
        BY <2>1, <3>2 DEF Fits, FitsDoc
      <3> QED BY <3>5, <3>6 DEF Fits
    <2> QED BY <2>2, <2>3
  <1>5. KeysUnique'
    <2>1. \A v \in Users : d.state = "stored" /\ v # u /\ Stored(v) => KeysDiffer(d, users[v])
      BY DEF RequestInv, PendingKeys
    <2> QED BY <1>2, <2>1 DEF RequestInv, KeysUnique, Stored, KeysDiffer
  <1>6. ASSUME NEW q \in Requests \ {r}, NEW v \in Users, Opened(pc[q], loc[q]),
               loc[q].doc.state = "stored", v # loc[q].user, users'[v].state = "stored"
        PROVE  KeysDiffer(loc[q].doc, users'[v])
    <2>1. CASE v = u
      BY <1>2, <1>6, <2>1 DEF RequestInv, PairOK
    <2>2. CASE v # u
      BY <1>2, <1>6, <2>2 DEF RequestInv, PendingKeys, Stored
    <2> QED BY <2>1, <2>2
  <1>7. \A v \in Users : users[v].state # "absent" => users'[v].state # "absent"
    BY <1>2
  <1> QED BY <1>4, <1>5, <1>6, <1>7

LEMMA CommitRequests ==
  ASSUME TypeInv, RequestInv, NEW r \in Requests, Commit(r)
  PROVE  RequestInv' /\ \A u \in Users : users[u].state # "absent" => users'[u].state # "absent"
  <1>0. pc[r] = "Commit" /\ loc[r].user \in Users /\ loc[r] \in LocRec
    BY DEF Commit, TypeInv, TypeOK, HoldsOK, Holds
  <1>1. Fits(users, "Commit", loc[r])
    BY <1>0 DEF RequestInv, FitsOK
  <1>2. Pending(r) <=> Opened(pc[r], loc[r])
    BY DEF Pending, Opened
  <1>3. CASE UNCHANGED users /\ Finish(r)
    BY <1>3, RequestFinish
  <1> DEFINE registered == [loc[r] EXCEPT !.doc = NoUser, !.iat = now]
             changed == [Blank EXCEPT !.op = "logout", !.user = loc[r].user]
  <1>4. /\ registered.user = loc[r].user /\ registered.synced = loc[r].synced
        /\ registered.body = loc[r].body
        /\ changed.user = loc[r].user /\ changed.synced = FALSE /\ changed.body = NoBody
    BY <1>0 DEF LocRec, Blank
  <1>5. CASE UNCHANGED users /\ ~Finish(r)
    <2>1. \/ Goto(r, "SaveToken", registered) /\ loc[r].op = "register"
          \/ Goto(r, "LogoutFind", changed) /\ loc[r].op = "change"
      BY <1>5 DEF Commit
    <2>2. ~loc[r].synced \/ loc[r].op = "change"
      BY <1>1, <2>1 DEF Fits, FitsDoc, NeedsKeycloak
    <2>3. CASE loc[r].op = "register"
      <3>1. loc[r].doc.state = "stored" /\ Creating("Commit", loc[r])
        BY <1>1, <2>3 DEF Fits, FitsUser, Creating
      <3>2. Opened(pc[r], loc[r]) /\ users[loc[r].user].state = "absent"
        BY <1>0, <1>1, <3>1, BlankFields DEF Opened, TxnSteps, Fits, FitsUser
      <3>3. users' = [users EXCEPT ![loc[r].user] = loc[r].doc]
        BY <1>2, <1>5, <2>3, <3>2 DEF Commit
      <3> QED BY <1>0, <1>5, <3>1, <3>2, <3>3 DEF TypeInv, TypeOK
    <2>4. CASE loc[r].op = "change"
      <3>1. Goto(r, "LogoutFind", changed)
        BY <2>1, <2>4
      <3>2. users[loc[r].user].state # "absent"
        BY <1>1, <2>4 DEF Fits, FitsUser, Creating, CreateSteps
      <3> HIDE DEF changed
      <3>3. ~Creating("LogoutFind", changed) /\ ~Opened("LogoutFind", changed)
        BY DEF Creating, CreateSteps, Opened, TxnSteps
      <3>4. Fits(users, "LogoutFind", changed)
        BY <1>4, <3>2, <3>3, BlankFields DEF Fits, FitsUser, FitsDoc, BeforeWrite
      <3> QED BY <1>0, <1>4, <1>5, <3>1, <3>3, <3>4, RequestCalm
    <2> QED BY <2>1, <2>3, <2>4
  <1>6. CASE users' # users
    <2>1. Opened(pc[r], loc[r]) /\ users' = [users EXCEPT ![loc[r].user] = loc[r].doc]
      BY <1>2, <1>6 DEF Commit
    <2>2. PICK step \in {"Idle", "SaveToken", "LogoutFind"}, l \in {Blank, registered, changed} :
            /\ Goto(r, step, l)
            /\ step = "Idle" => l = Blank
            /\ step = "SaveToken" => l = registered /\ loc[r].op = "register"
            /\ step = "LogoutFind" => l = changed
      BY <1>6 DEF Commit, Finish
    <2>3. /\ pc'[r] = step /\ loc'[r] = l
          /\ \A q \in Requests \ {r} : pc'[q] = pc[q] /\ loc'[q] = loc[q]
      BY <2>2 DEF Goto, TypeInv, TypeOK
    <2>4. ~Creating(step, l) /\ ~Opened(step, l)
      BY DEF Creating, CreateSteps, Opened, TxnSteps
    <2>5. users'[loc[r].user] = loc[r].doc /\ loc[r].doc.state # "absent"
      BY <1>0, <1>1, <2>1 DEF TypeInv, TypeOK, Fits, FitsDoc
    <2>6. step # "Idle" => l.user = loc[r].user
      BY <1>4, <2>2
    <2> HIDE DEF registered, changed
    <2>7. Fits(users', step, l)
      <3>1. CASE step = "Idle"
        BY <2>2, <3>1, BlankFits
      <3>2. CASE step = "LogoutFind"
        BY <1>4, <2>2, <2>4, <2>5, <3>2, BlankFields
           DEF Fits, FitsUser, FitsDoc, BeforeWrite
      <3>3. CASE step = "SaveToken"
        <4>1. Creating("Commit", loc[r]) /\ ~NeedsKeycloak(loc[r])
          BY <2>2, <3>3 DEF Creating, NeedsKeycloak
        <4>2. ~loc[r].synced
          BY <1>1, <2>2, <3>3, <4>1 DEF Fits, FitsUser, FitsDoc
        <4>3. l.synced = FALSE /\ users'[l.user].state # "absent"
          BY <1>4, <2>2, <2>5, <3>3, <4>2 DEF LocRec
        <4> QED BY <2>4, <3>3, <4>3 DEF Fits, FitsUser, FitsDoc, BeforeWrite
      <3> QED BY <3>1, <3>2, <3>3
    <2>8. FitsOK'
      BY <1>0, <2>1, <2>3, <2>7, CommitWrites DEF FitsOK
    <2>9. PairOK'
      <3> SUFFICES ASSUME NEW q \in Requests, NEW s \in Requests, q # s
                   PROVE  /\ Creating(pc'[q], loc'[q]) /\ pc'[s] # "Idle" => loc'[s].user # loc'[q].user
                          /\ Opened(pc'[q], loc'[q]) /\ Opened(pc'[s], loc'[s]) =>
                               /\ loc'[s].user # loc'[q].user
                               /\ loc'[q].doc.state = "stored" /\ loc'[s].doc.state = "stored"
                                    => KeysDiffer(loc'[q].doc, loc'[s].doc)
        BY DEF PairOK
      <3>1. CASE q = r
        BY <2>3, <2>4, <3>1
      <3>2. CASE s = r
        BY <1>0, <2>3, <2>4, <2>6, <3>2 DEF RequestInv, PairOK
      <3>3. CASE q # r /\ s # r
        BY <2>3, <3>3 DEF RequestInv, PairOK
      <3> QED BY <3>1, <3>2, <3>3
    <2>10. PendingKeys'
      BY <1>0, <2>1, <2>3, <2>4, CommitWrites DEF PendingKeys, Stored
    <2> QED BY <1>0, <2>1, <2>8, <2>9, <2>10, CommitWrites DEF RequestInv
  <1> QED BY <1>3, <1>5, <1>6

(* The requests through every step.                                        *)
LEMMA RequestStep ==
  ASSUME TypeInv, RequestInv, TokensFit, [Next]_vars PROVE RequestInv'
  <1>1. CASE UNCHANGED vars
    BY <1>1, RequestStay DEF vars
  <1>2. ASSUME NEW r \in Requests, StartRequest(r) PROVE RequestInv'
    BY <1>2, CreateStartRequests, OtherStartRequests
  <1>3. ASSUME NEW r \in Requests, Step(r) PROVE RequestInv'
    BY <1>3, CreateRequests, WriteRequests, KeycloakRequests, CommitRequests, TokenRequests DEF Step
  <1>4. ASSUME NEW t \in Tokens, DeleteToken(t) PROVE RequestInv'
    BY <1>4, RequestStay DEF DeleteToken
  <1>5. CASE Tick
    BY <1>5, RequestStay DEF Tick
  <1>6. CASE Crash
    <2>1. UNCHANGED users /\ \A r \in Requests : pc'[r] = "Idle" /\ loc'[r] = Blank
      BY <1>6 DEF Crash
    <2>2. FitsOK' /\ PairOK' /\ PendingKeys'
      BY <2>1, BlankFits DEF FitsOK, PairOK, PendingKeys
    <2>3. KeysUnique'
      BY <2>1 DEF RequestInv, KeysUnique, Stored
    <2> QED BY <2>2, <2>3 DEF RequestInv
  <1> QED BY <1>1, <1>2, <1>3, <1>4, <1>5, <1>6 DEF Next

(* The users of tokens, through every step.                                *)
LEMMA TokensFitStep ==
  ASSUME TypeInv, RequestInv, TokensFit, [Next]_vars PROVE TokensFit'
  <1>1. tokens \in [Tokens -> TokenRec]
    BY DEF TypeInv, TypeOK
  <1>2. ASSUME UNCHANGED users,
               \A t \in Tokens : tokens'[t].state # "absent" =>
                 \/ tokens[t].state # "absent" /\ tokens'[t].user = tokens[t].user
                 \/ users[tokens'[t].user].state # "absent"
        PROVE  TokensFit'
    BY <1>2 DEF TokensFit
  <1>3. ASSUME UNCHANGED <<users, tokens>> PROVE TokensFit'
    BY <1>3 DEF TokensFit
  <1>4. ASSUME NEW d, tokens' = Dropped(d), UNCHANGED users PROVE TokensFit'
    <2>1. \A t \in Tokens : tokens'[t].state # "absent" =>
                            tokens[t].state # "absent" /\ tokens'[t].user = tokens[t].user
      BY <1>1, <1>4 DEF Dropped, Live, TokenRec
    <2> QED BY <1>2, <1>4, <2>1
  <1>5. ASSUME NEW r \in Requests, Step(r) PROVE TokensFit'
    <2>1. CASE SaveToken(r)
      <3>1. users[loc[r].user].state # "absent"
        BY <2>1 DEF SaveToken, RequestInv, FitsOK, Fits, FitsUser, Creating, CreateSteps
      <3>2. PICK t \in Tokens :
              tokens' = [tokens EXCEPT ![t] = [state |-> "stored", user |-> loc[r].user,
                                               iat |-> loc[r].iat]]
        BY <2>1 DEF SaveToken
      <3>3. \A s \in Tokens : tokens'[s] = tokens[s] \/ tokens'[s].user = loc[r].user
        BY <1>1, <3>2
      <3>4. UNCHANGED users
        BY <2>1 DEF SaveToken
      <3> QED BY <1>2, <3>1, <3>3, <3>4
    <2>2. CASE RotateToken(r)
      <3>1. \A t \in Tokens : tokens'[t].state # "absent" =>
                            tokens[t].state # "absent" /\ tokens'[t].user = tokens[t].user
        BY <1>1, <2>2 DEF RotateToken, Rotated, Live, TokenRec
      <3> QED BY <1>2, <2>2, <3>1 DEF RotateToken
    <2>3. CASE DropToken(r) \/ LogoutDelete(r)
      BY <1>3, <1>4, <2>3 DEF DropToken, LogoutDelete
    <2>4. CASE Commit(r)
      <3>1. tokens' = tokens /\ \A t \in Tokens : tokens[t].state # "absent" => tokens[t].user \in Users
        BY <2>4 DEF Commit, TypeInv, TokensOK
      <3> QED BY <2>4, <3>1, CommitRequests DEF TokensFit
    <2> QED BY <1>3, <1>5, <2>1, <2>2, <2>3, <2>4
            DEF Step, CreateCheck, CreateCode, CreateInsert, UpdateEmail, ChangeCheck, Write,
                Lookup, AccountUpdate, AccountCreate, AccountOther, RefreshUser, LogoutFind
  <1>6. ASSUME NEW r \in Requests, StartRequest(r) PROVE UNCHANGED <<users, tokens>>
    BY <1>6 DEF StartRequest, CreateRead, RegisterRead, UpdateRead, SetPasswordRead,
                ChangePasswordRead, DeleteRead, RoleRead, LoginRead, RefreshRead, LogoutRead,
                AuthChangeRead
  <1>7. CASE UNCHANGED vars \/ Tick \/ Crash
    BY <1>3, <1>7 DEF vars, Tick, Crash
  <1>8. ASSUME NEW t \in Tokens, DeleteToken(t) PROVE TokensFit'
    BY <1>4, <1>8 DEF DeleteToken
  <1> QED BY <1>3, <1>5, <1>6, <1>7, <1>8 DEF Next

LEMMA RequestInit == Init => RequestInv /\ TokensFit
  <1> SUFFICES ASSUME Init PROVE RequestInv /\ TokensFit
    OBVIOUS
  <1>1. \A r \in Requests : pc[r] = "Idle" /\ loc[r] = Blank
    BY DEF Init
  <1>2. FitsOK /\ PairOK /\ PendingKeys
    BY <1>1, BlankFits DEF FitsOK, PairOK, PendingKeys
  <1>3. /\ \A u \in Users : users[u].state = "absent" /\ users[u].secret = NoSecret
        /\ \A t \in Tokens : tokens[t].state = "absent"
    BY DEF Init, NoUser, NoToken
  <1>4. KeysUnique /\ TokensFit
    BY <1>3, BlankFields DEF KeysUnique, TokensFit, Stored
  <1> QED BY <1>2, <1>4 DEF RequestInv

(* No two users have one email or one code, however creations, updates and *)
(* rollbacks overlap.                                                      *)
THEOREM KeysStayUnique == Spec => []KeysUnique
  <1>1. TypeInv /\ RequestInv /\ TokensFit /\ [Next]_vars => RequestInv' /\ TokensFit'
    BY RequestStep, TokensFitStep
  <1>2. RequestInv => KeysUnique
    BY DEF RequestInv
  <1> QED BY <1>1, <1>2, InitType, NextType, RequestInit, PTL DEF Spec

-----------------------------------------------------------------------------
(* Passwords in MongoDB and in Keycloak. *)

(* A request whose synchronisation went to the account of its user, and    *)
(* which has not committed.                                                *)
Syncing(r, u) == pc[r] = "Commit" /\ loc[r].synced /\ loc[r].user = u

SecretsMeet(account, doc) ==
    account.exists /\ account.email = doc.email => account.secret = doc.secret

(* Users that no request is synchronising agree with their account, those  *)
(* that one is will when it commits, and no account is older than its user. *)
CommittedAgree ==
    \A u \in Users \ apart :
        Stored(u) /\ (\A r \in Requests : ~Syncing(r, u)) => SecretsMeet(accounts[u], users[u])

SyncedAgree ==
    \A r \in Requests : pc[r] = "Commit" /\ loc[r].synced /\ loc[r].user \notin apart
                        => SecretsMeet(accounts[loc[r].user], loc[r].doc)

AccountsOfUsers == \A u \in Users : accounts[u].exists => users[u].state # "absent"

SyncInv == CommittedAgree /\ SyncedAgree /\ AccountsOfUsers

(* A step that changes neither users nor accounts, separates no fewer      *)
(* users, and starts or ends no synchronisation of others.                 *)
LEMMA SyncFrame ==
  ASSUME SyncInv, UNCHANGED <<users, accounts>>, apart \subseteq apart',
         \A r \in Requests : pc'[r] = "Commit" /\ loc'[r].synced
                             => pc[r] = "Commit" /\ loc'[r] = loc[r],
         \A r \in Requests : pc[r] = "Commit" /\ loc[r].synced
                             => (pc'[r] = "Commit" /\ loc'[r] = loc[r]) \/ loc[r].user \in apart'
  PROVE  SyncInv'
  <1>1. CommittedAgree'
    BY DEF SyncInv, CommittedAgree, Syncing, Stored
  <1>2. SyncedAgree'
    BY DEF SyncInv, SyncedAgree
  <1>3. AccountsOfUsers'
    BY DEF SyncInv, AccountsOfUsers
  <1> QED BY <1>1, <1>2, <1>3 DEF SyncInv

(* A step of a request that leaves accounts alone and is not the commit.   *)
LEMMA SyncGoto ==
  ASSUME TypeInv, SyncInv, UNCHANGED <<users, accounts, apart>>, NEW r \in Requests, NEW step, NEW l,
         Goto(r, step, l), pc[r] # "Commit", step = "Commit" => ~l.synced
  PROVE  SyncInv'
  <1>1. /\ pc'[r] = step /\ loc'[r] = l
        /\ \A q \in Requests \ {r} : pc'[q] = pc[q] /\ loc'[q] = loc[q]
    BY DEF Goto, TypeInv, TypeOK
  <1> QED BY <1>1, SyncFrame

LEMMA SyncReads ==
  ASSUME TypeInv, RequestInv, SyncInv, NEW r \in Requests,
         StartRequest(r) \/ (Step(r) /\ ~AccountUpdate(r) /\ ~AccountCreate(r) /\ ~AccountOther(r)
                            /\ ~Commit(r))
  PROVE  SyncInv'
  <1>1. ~loc[r].synced \/ pc[r] = "Commit"
    BY DEF RequestInv, FitsOK, Fits, FitsDoc
  <1>2. loc[r] \in LocRec /\ Blank.synced = FALSE
    BY BlankFields DEF TypeInv, TypeOK
  <1>3. CASE StartRequest(r)
    <2>1. pc[r] # "Commit" /\ UNCHANGED <<users, accounts, apart>>
      BY <1>3 DEF StartRequest, Begin, CreateRead, RegisterRead, UpdateRead, SetPasswordRead,
                  ChangePasswordRead, DeleteRead, RoleRead, LoginRead, RefreshRead, LogoutRead,
                  AuthChangeRead
    <2>2. \E step \in Steps \ {"Commit"} : \E l : Goto(r, step, l)
      <3>1. CASE CreateRead(r)
        BY <3>1 DEF CreateRead, Steps
      <3>2. CASE RegisterRead(r)
        BY <3>2 DEF RegisterRead, Steps
      <3>3. CASE UpdateRead(r)
        BY <3>3 DEF UpdateRead, Steps
      <3>4. CASE SetPasswordRead(r)
        BY <3>4 DEF SetPasswordRead, Steps
      <3>5. CASE ChangePasswordRead(r)
        BY <3>5 DEF ChangePasswordRead, Steps
      <3>6. CASE DeleteRead(r)
        BY <3>6 DEF DeleteRead, Steps
      <3>7. CASE RoleRead(r)
        BY <3>7 DEF RoleRead, Steps
      <3>8. CASE LoginRead(r)
        BY <3>8 DEF LoginRead, Steps
      <3>9. CASE RefreshRead(r)
        BY <3>9 DEF RefreshRead, Steps
      <3>10. CASE LogoutRead(r)
        BY <3>10 DEF LogoutRead, Steps
      <3>11. CASE AuthChangeRead(r)
        BY <3>11 DEF AuthChangeRead, Steps
      <3> QED BY <1>3, <3>1, <3>2, <3>3, <3>4, <3>5, <3>6, <3>7, <3>8, <3>9, <3>10, <3>11
              DEF StartRequest
    <2> QED BY <2>1, <2>2, SyncGoto
  <1>4. ASSUME UNCHANGED <<users, accounts, apart>>, pc[r] # "Commit",
               \E step, l : Goto(r, step, l) /\ (step = "Commit" => ~l.synced)
        PROVE  SyncInv'
    BY <1>4, SyncGoto
  <1>5. CASE CreateCheck(r) \/ CreateInsert(r) \/ UpdateEmail(r)
    <2>1. \/ Goto(r, "Idle", Blank)
          \/ \E step \in {"CreateCode", "Commit", "Write"} : Goto(r, step, loc[r])
      BY <1>5 DEF CreateCheck, CreateInsert, UpdateEmail, Finish
    <2> QED BY <1>1, <1>4, <1>5, <2>1 DEF CreateCheck, CreateInsert, UpdateEmail
  <1>6. CASE CreateCode(r) \/ ChangeCheck(r)
    BY <1>4, <1>6 DEF CreateCode, ChangeCheck, Finish
  <1>7. CASE Write(r)
    <2>1. ~loc[r].synced /\ Told(loc[r], Written(loc[r])).synced = loc[r].synced
      BY <1>1, <1>2, <1>7 DEF Write, Told, LocRec
    <2>2. \/ Goto(r, "Idle", Blank)
          \/ \E step \in {"Lookup", "Commit"}, l \in {loc[r], Told(loc[r], Written(loc[r]))} :
               Goto(r, step, l)
      BY <1>7 DEF Write, Finish
    <2> QED BY <1>4, <1>7, <2>1, <2>2 DEF Write
  <1>8. CASE Lookup(r)
    <2>1. \/ Goto(r, "Idle", Blank)
          \/ \E l : Goto(r, "Account", l)
          \/ Goto(r, "Commit", Answered(loc[r], FALSE))
      BY <1>8 DEF Lookup, Finish
    <2>2. UNCHANGED <<users, accounts, apart>> /\ pc[r] # "Commit"
      BY <1>8 DEF Lookup
    <2>3. Answered(loc[r], FALSE).synced = FALSE
      BY DEF Answered, Blank
    <2>4. CASE Goto(r, "Idle", Blank)
      BY <1>4, <2>2, <2>4
    <2>5. ASSUME NEW l, Goto(r, "Account", l) PROVE SyncInv'
      BY <1>4, <2>2, <2>5
    <2>6. CASE Goto(r, "Commit", Answered(loc[r], FALSE))
      BY <1>4, <2>2, <2>3, <2>6
    <2> QED BY <2>1, <2>4, <2>5, <2>6
  <1>9. CASE SaveToken(r) \/ DropToken(r) \/ RotateToken(r)
    BY <1>4, <1>9 DEF SaveToken, DropToken, RotateToken, Finish
  <1>10. CASE RefreshUser(r) \/ LogoutFind(r) \/ LogoutDelete(r)
    <2>1. \E step \in {"Idle", "RotateToken", "LogoutDelete"} : \E l : Goto(r, step, l)
      <3>1. CASE RefreshUser(r)
        BY <3>1 DEF RefreshUser, Finish
      <3>2. CASE LogoutFind(r)
        BY <3>2 DEF LogoutFind
      <3>3. CASE LogoutDelete(r)
        BY <3>3 DEF LogoutDelete, Finish
      <3> QED BY <1>10, <3>1, <3>2, <3>3
    <2>2. UNCHANGED <<users, accounts, apart>> /\ pc[r] # "Commit"
      BY <1>10 DEF RefreshUser, LogoutFind, LogoutDelete
    <2> QED BY <1>4, <2>1, <2>2
  <1> QED BY <1>3, <1>5, <1>6, <1>7, <1>8, <1>9, <1>10 DEF Step

(* The calls that write an account.                                        *)
LEMMA SyncAccounts ==
  ASSUME TypeInv, RequestInv, SyncInv, NEW r \in Requests,
         AccountUpdate(r) \/ AccountCreate(r) \/ AccountOther(r)
  PROVE  SyncInv'
  <1>0. /\ pc[r] = "Account" /\ UNCHANGED users /\ loc[r] \in LocRec /\ loc[r].user \in Users
        /\ accounts \in [Users -> AccountRec] /\ apart \subseteq Users
    BY DEF AccountUpdate, AccountCreate, AccountOther, TypeInv, TypeOK, HoldsOK, Holds
  <1>1. users[loc[r].user].state # "absent" /\ (NeedsKeycloak(loc[r]) => Opened(pc[r], loc[r]))
    BY <1>0, BlankFields
       DEF RequestInv, FitsOK, Fits, FitsUser, FitsDoc, Creating, CreateSteps, Opened, TxnSteps
  <1>2. ASSUME NEW step, NEW l, Goto(r, step, l)
        PROVE  /\ pc'[r] = step /\ loc'[r] = l
               /\ \A q \in Requests \ {r} : pc'[q] = pc[q] /\ loc'[q] = loc[q]
    BY <1>2 DEF Goto, TypeInv, TypeOK
  (* The user of this request is one that no other is about to commit.     *)
  <1>3. ASSUME NEW q \in Requests \ {r}, pc[q] = "Commit", loc[q].synced, NeedsKeycloak(loc[r])
        PROVE  loc[q].user # loc[r].user
    <2>1. Opened(pc[q], loc[q])
      BY <1>3, BlankFields DEF RequestInv, FitsOK, Fits, FitsDoc, Opened, TxnSteps
    <2> QED BY <1>1, <1>3, <2>1 DEF RequestInv, PairOK
  (* Whatever is written to the account of a user that is then apart.      *)
  <1>4. ASSUME NEW a \in Users, NEW new \in AccountRec, users[a].state # "absent" \/ ~new.exists,
               accounts' = [accounts EXCEPT ![a] = new], ~new.exists \/ a \in apart',
               apart \subseteq apart',
               NEW step, NEW l, Goto(r, step, l), step = "Commit" => ~l.synced
        PROVE  SyncInv'
    <2>1. CommittedAgree'
      BY <1>0, <1>2, <1>4 DEF SyncInv, CommittedAgree, Syncing, Stored, SecretsMeet
    <2>2. SyncedAgree'
      <3> SUFFICES ASSUME NEW q \in Requests, pc'[q] = "Commit", loc'[q].synced,
                          loc'[q].user \notin apart'
                   PROVE  SecretsMeet(accounts'[loc'[q].user], loc'[q].doc)
        BY DEF SyncedAgree
      <3>1. pc[q] = "Commit" /\ loc'[q] = loc[q] /\ loc[q].user \in Users
        BY <1>2, <1>4 DEF TypeInv, HoldsOK, Holds
      <3>2. SecretsMeet(accounts[loc[q].user], loc[q].doc)
        BY <1>4, <3>1 DEF SyncInv, SyncedAgree
      <3> QED BY <1>0, <1>4, <3>1, <3>2 DEF SecretsMeet
    <2>3. AccountsOfUsers'
      BY <1>0, <1>4 DEF SyncInv, AccountsOfUsers
    <2> QED BY <2>1, <2>2, <2>3 DEF SyncInv
  (* The account of the user, which is then being synchronised.            *)
  <1>5. ASSUME NEW l \in LocRec, Together(l), l.user = loc[r].user, l.doc = loc[r].doc,
               NeedsKeycloak(loc[r]), accounts' = [accounts EXCEPT ![l.user] = Mirror(l)],
               apart' = apart \ {l.user}, Goto(r, "Commit", Answered(l, TRUE))
        PROVE  SyncInv'
    <2>0. loc'[r] = Answered(l, TRUE) /\ pc'[r] = "Commit"
      BY <1>2, <1>5
    <2>1. /\ loc'[r].user = loc[r].user /\ loc'[r].doc = loc[r].doc /\ loc'[r].synced
          /\ pc'[r] = "Commit"
      BY <1>5, <2>0 DEF Answered, Blank
    <2>2. accounts'[loc[r].user] = Mirror(l)
          /\ \A u \in Users \ {loc[r].user} : accounts'[u] = accounts[u]
      BY <1>0, <1>5
    <2>3. SecretsMeet(Mirror(l), loc[r].doc)
      BY <1>5 DEF SecretsMeet, Mirror
    <2>4. CommittedAgree'
      <3> SUFFICES ASSUME NEW u \in Users, u \notin apart', Stored(u),
                          \A q \in Requests : ~Syncing(q, u)'
                   PROVE  SecretsMeet(accounts'[u], users[u])
        BY <1>0 DEF CommittedAgree, Stored
      <3>1. u # loc[r].user
        BY <2>1 DEF Syncing
      <3>2. u \notin apart /\ \A q \in Requests : ~Syncing(q, u)
        BY <1>0, <1>2, <1>5, <3>1 DEF Syncing
      <3> QED BY <2>2, <3>1, <3>2 DEF SyncInv, CommittedAgree
    <2>5. SyncedAgree'
      <3> SUFFICES ASSUME NEW q \in Requests, pc'[q] = "Commit", loc'[q].synced,
                          loc'[q].user \notin apart'
                   PROVE  SecretsMeet(accounts'[loc'[q].user], loc'[q].doc)
        BY DEF SyncedAgree
      <3>1. CASE q = r
        BY <2>1, <2>2, <2>3, <3>1
      <3>2. CASE q # r
        <4>1. pc[q] = "Commit" /\ loc'[q] = loc[q] /\ loc[q].user \in Users
          BY <1>2, <1>5, <3>2 DEF TypeInv, HoldsOK, Holds
        <4>2. loc[q].user # loc[r].user
          BY <1>3, <1>5, <3>2, <4>1
        <4>3. SecretsMeet(accounts[loc[q].user], loc[q].doc)
          BY <1>5, <4>1, <4>2 DEF SyncInv, SyncedAgree
        <4> QED BY <2>2, <4>1, <4>2, <4>3
      <3> QED BY <3>1, <3>2
    <2>6. AccountsOfUsers'
      BY <1>0, <1>1, <2>2 DEF SyncInv, AccountsOfUsers
    <2> QED BY <2>4, <2>5, <2>6 DEF SyncInv
  (* No account is written.                                                *)
  <1>6. ASSUME UNCHANGED accounts, apart \subseteq apart', NEW step, NEW l, Goto(r, step, l),
               step = "Commit" => ~l.synced
        PROVE  SyncInv'
    BY <1>0, <1>2, <1>6, SyncFrame
  <1>7. ASSUME NEW l, NEW b PROVE Answered(l, b).synced = b
    BY DEF Answered, Blank
  <1>8. CASE AccountUpdate(r)
    <2> DEFINE l == loc[r]
    <2>1. NeedsKeycloak(l) /\ l.account \in Users
      BY <1>0, <1>8 DEF AccountUpdate, LocRec
    <2>2. CASE accounts[l.account].exists /\ accounts' = [accounts EXCEPT ![l.account] = Mirror(l)]
               /\ Goto(r, "Commit", Answered(l, Together(l))) /\ apart' = Parted(l)
      <3>1. CASE Together(l)
        BY <1>0, <1>5, <2>1, <2>2, <3>1 DEF Parted, Together
      <3>2. CASE ~Together(l)
        <4>1. apart' = apart \cup {l.account} /\ users[l.account].state # "absent"
          BY <2>1, <2>2, <3>2 DEF Parted, SyncInv, AccountsOfUsers
        <4>2. Mirror(l) \in AccountRec /\ ~Answered(l, Together(l)).synced
          BY <1>0, <1>7, <3>2, MirrorType
        <4> QED BY <1>4, <2>1, <2>2, <4>1, <4>2
      <3> QED BY <3>1, <3>2
    <2>3. CASE UNCHANGED accounts /\ apart' = apart \cup {l.user}
               /\ Goto(r, "Commit", Answered(l, FALSE))
      BY <1>6, <1>7, <2>3
    <2> QED BY <1>8, <2>2, <2>3 DEF AccountUpdate
  <1>9. CASE AccountCreate(r)
    <2> DEFINE l == [loc[r] EXCEPT !.account = loc[r].user]
    <2>1. /\ l \in LocRec /\ l.user = loc[r].user /\ l.account = loc[r].user
          /\ l.doc = loc[r].doc /\ NeedsKeycloak(loc[r])
      BY <1>0, <1>9 DEF AccountCreate, LocRec
    <2>2. \/ /\ accounts' = [accounts EXCEPT ![l.user] = Mirror(l)]
             /\ \/ Goto(r, "Commit", Answered(l, Together(l))) /\ apart' = Parted(l)
                \/ Goto(r, "Idle", Blank) /\ apart' = apart \cup {l.user}
          \/ UNCHANGED <<accounts, apart>> /\ Goto(r, "Idle", Blank)
      BY <1>9 DEF AccountCreate, Finish
    <2> HIDE DEF l
    <2>3. Mirror(l) \in AccountRec
      BY <2>1, MirrorType
    <2>4. CASE accounts' = [accounts EXCEPT ![l.user] = Mirror(l)] /\ Goto(r, "Idle", Blank)
               /\ apart' = apart \cup {l.user}
      BY <1>0, <1>1, <1>4, <2>1, <2>3, <2>4
    <2>5. CASE accounts' = [accounts EXCEPT ![l.user] = Mirror(l)]
               /\ Goto(r, "Commit", Answered(l, Together(l))) /\ apart' = Parted(l)
      <3>1. CASE Together(l)
        BY <1>5, <2>1, <2>5, <3>1 DEF Parted
      <3>2. CASE ~Together(l)
        <4>1. apart' = apart \cup {l.user} /\ ~Answered(l, Together(l)).synced
          BY <1>7, <2>1, <2>5, <3>2 DEF Parted
        <4> QED BY <1>0, <1>1, <1>4, <2>1, <2>3, <2>5, <4>1
      <3> QED BY <3>1, <3>2
    <2>6. CASE UNCHANGED <<accounts, apart>> /\ Goto(r, "Idle", Blank)
      BY <1>6, <2>6
    <2> QED BY <2>2, <2>4, <2>5, <2>6
  <1>10. CASE AccountOther(r)
    <2>1. UNCHANGED apart /\ Goto(r, "Commit", Answered(loc[r], FALSE))
          /\ (UNCHANGED accounts \/ accounts' = [accounts EXCEPT ![loc[r].account] = NoAccount])
      BY <1>10 DEF AccountOther
    <2>2. CASE UNCHANGED accounts
      BY <1>6, <1>7, <2>1, <2>2
    <2>3. CASE accounts' = [accounts EXCEPT ![loc[r].account] = NoAccount] /\ loc[r].account \in Users
      <3>1. NoAccount \in AccountRec /\ ~NoAccount.exists
        BY DEF NoAccount, AccountRec, NoSecret
      <3> QED BY <1>4, <1>7, <2>1, <2>3, <3>1
    <2>4. CASE accounts' = [accounts EXCEPT ![loc[r].account] = NoAccount] /\ loc[r].account \notin Users
      <3>1. accounts' = accounts
        BY <1>0, <2>4
      <3> QED BY <2>2, <3>1
    <2> QED BY <2>1, <2>2, <2>3, <2>4
  <1> QED BY <1>8, <1>9, <1>10

LEMMA SyncCommit ==
  ASSUME TypeInv, RequestInv, SyncInv, NEW r \in Requests, Commit(r), TokensFit
  PROVE  SyncInv'
  <1>0. /\ pc[r] = "Commit" /\ UNCHANGED accounts /\ loc[r].user \in Users /\ loc[r] \in LocRec
        /\ users \in [Users -> UserRec]
    BY DEF Commit, TypeInv, TypeOK, HoldsOK, Holds
  <1>1. Fits(users, "Commit", loc[r])
    BY <1>0 DEF RequestInv, FitsOK
  <1>2. PICK step \in {"Idle", "SaveToken", "LogoutFind"} : \E l : Goto(r, step, l)
    BY DEF Commit, Finish
  <1>3. pc'[r] = step /\ \A q \in Requests \ {r} : pc'[q] = pc[q] /\ loc'[q] = loc[q]
    BY <1>2 DEF Goto, TypeInv, TypeOK
  <1>4. \/ apart' = (IF NeedsKeycloak(loc[r]) /\ ~loc[r].synced
                      THEN apart \cup {loc[r].user} ELSE apart)
        \/ apart' = (IF NeedsKeycloak(loc[r]) THEN apart \cup {loc[r].user} ELSE apart)
    BY DEF Commit
  <1>5. apart \subseteq apart' /\ (NeedsKeycloak(loc[r]) /\ ~loc[r].synced => loc[r].user \in apart')
    BY <1>4
  <1>6. CASE UNCHANGED users /\ (loc[r].synced => loc[r].user \in apart')
    BY <1>0, <1>3, <1>5, <1>6, SyncFrame
  <1>7. ASSUME Pending(r), users' = [users EXCEPT ![loc[r].user] = loc[r].doc]
        PROVE  SyncInv'
    <2> DEFINE u == loc[r].user
               d == loc[r].doc
    <2>1. Opened(pc[r], loc[r])
      BY <1>7 DEF Pending, Opened
    <2>2. users'[u] = d /\ \A v \in Users \ {u} : users'[v] = users[v]
      BY <1>0, <1>7
    <2>3. d.state # "absent"
      BY <1>0, <1>1, <2>1 DEF Fits, FitsDoc
    <2>4. ASSUME NEW q \in Requests \ {r}, pc[q] = "Commit", loc[q].synced
          PROVE  loc[q].user # u
      <3>1. Opened(pc[q], loc[q])
        BY <2>4, BlankFields DEF RequestInv, FitsOK, Fits, FitsDoc, Opened, TxnSteps
      <3> QED BY <2>1, <2>4, <3>1 DEF RequestInv, PairOK
    <2>5. ASSUME d.state = "stored", u \notin apart' PROVE SecretsMeet(accounts[u], d)
      <3>1. CASE loc[r].synced
        BY <1>0, <1>5, <2>5, <3>1 DEF SyncInv, SyncedAgree
      <3>2. CASE ~loc[r].synced /\ loc[r].op \in {"create", "register"}
        <4>1. users[u].state = "absent"
          BY <1>1, <3>2 DEF Fits, FitsUser, Creating
        <4> QED BY <1>0, <4>1 DEF SyncInv, AccountsOfUsers, SecretsMeet
      <3>3. CASE ~loc[r].synced /\ loc[r].op = "role"
        <4>1. users[u].state = "stored" /\ d.email = users[u].email /\ d.secret = users[u].secret
          BY <1>0, <1>1, <2>1, <3>3 DEF Fits, FitsDoc
        <4>2. \A q \in Requests : ~Syncing(q, u)
          BY <2>4, <3>3 DEF Syncing
        <4>3. SecretsMeet(accounts[u], users[u])
          BY <1>0, <1>5, <2>5, <4>1, <4>2 DEF SyncInv, CommittedAgree, Stored
        <4> QED BY <4>1, <4>3 DEF SecretsMeet
      <3>4. loc[r].op \in {"create", "register", "role"} \/ NeedsKeycloak(loc[r])
        BY <1>0, <1>1, <2>1, <2>5 DEF Fits, FitsDoc, NeedsKeycloak, Ops
      <3> QED BY <1>5, <2>5, <3>1, <3>2, <3>3, <3>4
    <2>6. CommittedAgree'
      <3> SUFFICES ASSUME NEW v \in Users, v \notin apart', users'[v].state = "stored",
                          \A q \in Requests : ~Syncing(q, v)'
                   PROVE  SecretsMeet(accounts[v], users'[v])
        BY <1>0 DEF CommittedAgree, Stored
      <3>1. CASE v = u
        BY <2>2, <2>5, <3>1
      <3>2. CASE v # u
        <4>1. \A q \in Requests : ~Syncing(q, v)
          BY <1>3, <3>2 DEF Syncing
        <4> QED BY <1>5, <2>2, <3>2, <4>1 DEF SyncInv, CommittedAgree, Stored
      <3> QED BY <3>1, <3>2
    <2>7. SyncedAgree'
      BY <1>0, <1>3, <1>5 DEF SyncInv, SyncedAgree
    <2>8. AccountsOfUsers'
      BY <1>0, <2>2, <2>3 DEF SyncInv, AccountsOfUsers
    <2> QED BY <2>6, <2>7, <2>8 DEF SyncInv
  <1>8. loc[r].synced => NeedsKeycloak(loc[r]) /\ Pending(r)
    BY <1>0, <1>1, BlankFields DEF Fits, FitsDoc, Pending, TxnSteps
  <1>9. CASE Finish(r) /\ UNCHANGED users
             /\ apart' = IF NeedsKeycloak(loc[r]) THEN apart \cup {loc[r].user} ELSE apart
    BY <1>6, <1>8, <1>9
  <1>10. CASE users' = IF Pending(r) THEN [users EXCEPT ![loc[r].user] = loc[r].doc] ELSE users
    BY <1>6, <1>7, <1>8, <1>10
  <1> QED BY <1>9, <1>10 DEF Commit

LEMMA SyncStep ==
  ASSUME TypeInv, RequestInv, TokensFit, SyncInv, [Next]_vars PROVE SyncInv'
  <1>1. CASE UNCHANGED vars
    BY <1>1, SyncFrame DEF vars
  <1>2. ASSUME NEW r \in Requests, StartRequest(r) \/ Step(r) PROVE SyncInv'
    BY <1>2, SyncReads, SyncAccounts, SyncCommit
  <1>3. CASE Tick \/ \E t \in Tokens : DeleteToken(t)
    <2>1. UNCHANGED <<users, accounts, apart, pc, loc>>
      BY <1>3 DEF Tick, DeleteToken
    <2> QED BY <2>1, SyncFrame
  <1>4. CASE Crash
    <2>1. /\ UNCHANGED <<users, accounts>> /\ apart \subseteq apart'
          /\ \A r \in Requests : pc'[r] = "Idle"
      BY <1>4 DEF Crash
    <2>2. ASSUME NEW r \in Requests, pc[r] = "Commit", loc[r].synced PROVE loc[r].user \in apart'
      <3>1. loc[r].user \in Users
        BY <2>2 DEF TypeInv, HoldsOK, Holds
      <3> QED BY <1>4, <2>2, <3>1 DEF Crash
    <2> QED BY <2>1, <2>2, SyncFrame
  <1> QED BY <1>1, <1>2, <1>3, <1>4 DEF Next

(* Between transactions the passwords of a user and of its account agree,  *)
(* unless a synchronisation was cut short, or another user's went there.   *)
THEOREM PasswordsStayTogether == Spec => []PasswordsAgree
  <1>1. TypeInv /\ RequestInv /\ TokensFit /\ [Next]_vars => RequestInv' /\ TokensFit'
    BY RequestStep, TokensFitStep
  <1>2. Init => SyncInv
    BY DEF Init, SyncInv, CommittedAgree, SyncedAgree, AccountsOfUsers, NoAccount, SecretsMeet
  <1>3. TypeInv /\ RequestInv /\ TokensFit /\ SyncInv /\ [Next]_vars => SyncInv'
    BY SyncStep
  <1>4. TypeInv /\ RequestInv /\ SyncInv => PasswordsAgree
    <2> SUFFICES ASSUME TypeInv, RequestInv, SyncInv, NEW u \in Users \ apart, Stored(u),
                        accounts[u].exists, accounts[u].email = users[u].email,
                        \A r \in Requests : Pending(r) => loc[r].user # u
                 PROVE  accounts[u].secret = users[u].secret
      BY DEF PasswordsAgree
    <2>1. ASSUME NEW r \in Requests, Syncing(r, u) PROVE FALSE
      <3>1. Pending(r)
        BY <2>1, BlankFields DEF Syncing, RequestInv, FitsOK, Fits, FitsDoc, Pending, TxnSteps
      <3> QED BY <2>1, <3>1 DEF Syncing
    <2> QED BY <2>1 DEF SyncInv, CommittedAgree, SecretsMeet
  <1> QED BY <1>1, <1>2, <1>3, <1>4, InitType, NextType, RequestInit, PTL DEF Spec

=============================================================================
