---------------------------- MODULE UserAccounts ----------------------------
(***************************************************************************)
(* UserService: users are written in a MongoDB transaction that is         *)
(* committed when Keycloak has been told.  One action per awaited call; a  *)
(* call that fails aborts the transaction, unless the code swallows it.    *)
(***************************************************************************)
EXTENDS AccountStore

CallFails == "failures" \in Features

Synchronises == AuthStrategy \in {"keycloak", "both"}

-----------------------------------------------------------------------------
(* create: the email, then the code, then the insert.  AuthService.register *)
(* looks the email up itself first, and gives a hashed password.           *)
NewUser(email, secret, status, role) ==
    [NoUser EXCEPT !.state = "stored", !.email = email, !.secret = secret,
                   !.status = status, !.role = role]

CreateRead(r) ==
    /\ Begin(r)
    /\ \E u \in Users, email \in Emails, given \in Secret, status \in Statuses,
          role \in Resolves \cup {None} :
         /\ users[u].state = "absent"
         /\ \A q \in Requests : loc[q].user # u
         /\ EmailFree(email)
         /\ Goto(r, "CreateCode",
                 [Blank EXCEPT !.op = "create", !.user = u,
                               !.doc = NewUser(email, given, status, role)])
    /\ UNCHANGED <<users, tokens, accounts, apart, now>>

RegisterRead(r) ==
    /\ Begin(r)
    /\ \E u \in Users, email \in Emails, p \in Passwords :
         /\ users[u].state = "absent"
         /\ \A q \in Requests : loc[q].user # u
         /\ EmailFree(email)
         /\ Goto(r, "CreateCheck",
                 [Blank EXCEPT !.op = "register", !.user = u,
                               !.doc = NewUser(email, Hash(p), "active", None)])
    /\ UNCHANGED <<users, tokens, accounts, apart, now>>

CreateCheck(r) ==
    /\ pc[r] = "CreateCheck"
    /\ IF EmailFree(loc[r].doc.email) THEN Goto(r, "CreateCode", loc[r]) ELSE Finish(r)
    /\ UNCHANGED <<users, tokens, accounts, apart, now>>

CreateCode(r) ==
    /\ pc[r] = "CreateCode"
    /\ Goto(r, "CreateInsert", [loc[r] EXCEPT !.doc.code = NextCode])
    /\ UNCHANGED <<users, tokens, accounts, apart, now>>

CreateInsert(r) ==
    /\ pc[r] = "CreateInsert"
    /\ IF Taken(r, loc[r].doc) THEN Finish(r) ELSE Goto(r, "Commit", loc[r])
    /\ UNCHANGED <<users, tokens, accounts, apart, now>>

-----------------------------------------------------------------------------
(* What the other handlers read before their transaction.                  *)
Bodies == [email  : Emails \cup {None},
           status : Statuses \cup {None},
           secret : Secret \cup {NoSecret},
           role   : {None}] \ {NoBody}

UpdateRead(r) ==
    /\ "update" \in Features
    /\ Begin(r)
    /\ \E u \in Users, body \in Bodies :
         /\ Stored(u)
         /\ Goto(r, IF body.email \in {None, users[u].email} THEN "Write" ELSE "UpdateEmail",
                 [Blank EXCEPT !.op = "update", !.user = u, !.body = body])
    /\ UNCHANGED <<users, tokens, accounts, apart, now>>

UpdateEmail(r) ==
    /\ pc[r] = "UpdateEmail"
    /\ IF EmailFree(loc[r].body.email) THEN Goto(r, "Write", loc[r]) ELSE Finish(r)
    /\ UNCHANGED <<users, tokens, accounts, apart, now>>

(* What setPassword and changePassword keep of the user they read.         *)
Snapshot(u, op, body) ==
    [Blank EXCEPT !.op = op, !.user = u, !.body = body,
                  !.email = users[u].email, !.status = users[u].status]

SetPasswordRead(r) ==
    /\ Begin(r)
    /\ \E u \in Users, given \in Secret :
         /\ Stored(u)
         /\ Goto(r, "Write", Snapshot(u, "password", [NoBody EXCEPT !.secret = given]))
    /\ UNCHANGED <<users, tokens, accounts, apart, now>>

(* changePassword wants the string that is stored as the current password, *)
(* and another one as the new.                                             *)
ChangePasswordRead(r) ==
    /\ "change" \in Features
    /\ Begin(r)
    /\ \E u \in Users, given \in Secret :
         /\ Stored(u)
         /\ users[u].secret # given
         /\ Goto(r, "Write", Snapshot(u, "password", [NoBody EXCEPT !.secret = given]))
    /\ UNCHANGED <<users, tokens, accounts, apart, now>>

(* The same after AuthService.changePassword, which verified a hash of the *)
(* current password and hands over a hash of the new one.                  *)
ChangeCheck(r) ==
    /\ pc[r] = "ChangeCheck"
    /\ LET l == loc[r] IN
         IF Stored(l.user) /\ users[l.user].secret = l.old
         THEN Goto(r, "Write", Snapshot(l.user, "change", l.body))
         ELSE Finish(r)
    /\ UNCHANGED <<users, tokens, accounts, apart, now>>

DeleteRead(r) ==
    /\ "delete" \in Features
    /\ Begin(r)
    /\ \E u \in Users :
         /\ Stored(u)
         /\ Goto(r, "Write", [Blank EXCEPT !.op = "delete", !.user = u,
                                           !.email = users[u].email])
    /\ UNCHANGED <<users, tokens, accounts, apart, now>>

(* assignRole gives a role; removeRole gives none, which Mongoose takes as *)
(* a field not given.                                                      *)
RoleRead(r) ==
    /\ "role" \in Features
    /\ Begin(r)
    /\ \E u \in Users, role \in (RoleRefs \ Resolves) \cup {None} :
         /\ Stored(u)
         /\ Goto(r, "Write", [Blank EXCEPT !.op = "role", !.user = u,
                                           !.email = users[u].email,
                                           !.body = [NoBody EXCEPT !.role = role]])
    /\ UNCHANGED <<users, tokens, accounts, apart, now>>

-----------------------------------------------------------------------------
(* Bug: a field that is not given is cleared.                              *)
GivenOrCleared(field, old) == field

Given(field, old) == IF field = None THEN old ELSE field

(* The transaction: the write of the user ...                              *)
Updated(doc, body) ==
    [doc EXCEPT !.email  = Given(body.email, @),
                !.status = Given(body.status, @),
                !.role   = Given(body.role, @),
                !.secret = IF body.secret = NoSecret THEN @ ELSE body.secret]

Written(l) ==
    IF l.op = "delete"
    THEN [NoUser EXCEPT !.state = "deleted"]
    ELSE Updated(users[l.user], l.body)

(* The operations that give up when Keycloak does not answer with an id.   *)
NeedsKeycloak(l) == l.op \in {"update", "password", "change"}

(* update tells Keycloak what it wrote; the others what they read before.  *)
Told(l, doc) == IF l.op = "update"
                THEN [l EXCEPT !.body = NoBody, !.doc = doc, !.email = doc.email,
                               !.status = doc.status]
                ELSE [l EXCEPT !.body = NoBody, !.doc = doc]

Write(r) ==
    /\ pc[r] = "Write"
    /\ LET l == loc[r]
           doc == Written(l)
           next == IF Stored(l.user) THEN Told(l, doc) ELSE l
       IN
         IF \/ Locked(r, l.user)
            \/ Stored(l.user) /\ doc.state = "stored" /\ Taken(r, doc)
            \/ NeedsKeycloak(l) /\ ~ (Stored(l.user) /\ Synchronises)
         THEN Finish(r)
         ELSE Goto(r, IF Synchronises THEN "Lookup" ELSE "Commit", next)
    /\ UNCHANGED <<users, tokens, accounts, apart, now>>

(* What a handler holds for its commit; together is whether Keycloak took   *)
(* the user under its own name and email.                                  *)
Answered(l, together) ==
    [Blank EXCEPT !.op = l.op, !.user = l.user, !.doc = l.doc, !.synced = together]

(* ... the admin token and the account of the email, where an error is no  *)
(* account ...                                                             *)
Found(email) == {a \in Users : accounts[a].exists /\ accounts[a].email \in Matches[email]}

Lookup(r) ==
    /\ pc[r] = "Lookup"
    /\ LET l == loc[r] IN
         \/ \E a \in Found(l.email) : Goto(r, "Account", [l EXCEPT !.account = a])
         \/ /\ Found(l.email) = {} \/ CallFails
            /\ IF NeedsKeycloak(l) THEN Goto(r, "Account", l)
               ELSE Goto(r, "Commit", Answered(l, FALSE))
         \/ /\ CallFails /\ NeedsKeycloak(l)
            /\ Finish(r)
    /\ UNCHANGED <<users, tokens, accounts, apart, now>>

(* What syncUserToKeycloak sends.                                          *)
Mirror(l) ==
    [exists |-> TRUE, email |-> l.email, secret |-> l.doc.secret,
     enabled |-> l.status = "active"]

(* Whether it went to the account of the user, with the email of the user. *)
Together(l) == l.account = l.user /\ l.email = l.doc.email

Parted(l) == IF Together(l) THEN apart \ {l.user} ELSE apart \cup {l.account}

(* Keycloak allows one account per email.                                  *)
EmailHeld(email, other) ==
    \E a \in Users \ {other} : accounts[a].exists /\ accounts[a].email = email

(* ... the account updated, where an error or a missing account goes by    *)
(* unnoticed ...                                                           *)
AccountUpdate(r) ==
    /\ pc[r] = "Account" /\ NeedsKeycloak(loc[r]) /\ loc[r].account # None
    /\ LET l == loc[r] IN
         \/ /\ accounts[l.account].exists /\ ~ EmailHeld(l.email, l.account)
            /\ accounts' = [accounts EXCEPT ![l.account] = Mirror(l)]
            /\ Goto(r, "Commit", Answered(l, Together(l)))
            /\ apart' = Parted(l)
         \/ /\ ~ accounts[l.account].exists \/ EmailHeld(l.email, l.account) \/ CallFails
            /\ Goto(r, "Commit", Answered(l, FALSE))
            /\ apart' = apart \cup {l.user}
            /\ UNCHANGED accounts
    /\ UNCHANGED <<users, tokens, now>>

(* ... or created: refused for a name or an email that is there, and given *)
(* up as well when the answer is lost ...                                  *)
AccountCreate(r) ==
    /\ pc[r] = "Account" /\ NeedsKeycloak(loc[r]) /\ loc[r].account = None
    /\ LET l == [loc[r] EXCEPT !.account = loc[r].user]
           free == ~ accounts[l.user].exists /\ ~ EmailHeld(l.email, l.user)
       IN
         \/ /\ free
            /\ accounts' = [accounts EXCEPT ![l.user] = Mirror(l)]
            /\ \/ Goto(r, "Commit", Answered(l, Together(l))) /\ apart' = Parted(l)
               \/ CallFails /\ Finish(r) /\ apart' = apart \cup {l.user}
         \/ /\ ~ free \/ CallFails
            /\ Finish(r)
            /\ UNCHANGED <<accounts, apart>>
    /\ UNCHANGED <<users, tokens, now>>

(* ... or deleted, where errors are swallowed too, or given a role ...     *)
AccountOther(r) ==
    /\ pc[r] = "Account" /\ ~ NeedsKeycloak(loc[r])
    /\ LET a == loc[r].account IN
         \/ /\ loc[r].op = "delete"
            /\ accounts' = [accounts EXCEPT ![a] = NoAccount]
         \/ /\ loc[r].op = "role" \/ ~ accounts[a].exists \/ CallFails
            /\ UNCHANGED accounts
    /\ Goto(r, "Commit", Answered(loc[r], FALSE))
    /\ UNCHANGED <<users, tokens, apart, now>>

-----------------------------------------------------------------------------
(* ... and the commit, which may fail as well.                             *)
Commit(r) ==
    /\ pc[r] = "Commit"
    /\ LET l == loc[r] IN
         \/ /\ users' = IF Pending(r) THEN [users EXCEPT ![l.user] = l.doc] ELSE users
            /\ apart' = IF NeedsKeycloak(l) /\ ~ l.synced THEN apart \cup {l.user} ELSE apart
            /\ CASE l.op = "register" -> Goto(r, "SaveToken", [l EXCEPT !.doc = NoUser, !.iat = now])
                 [] l.op = "change" -> Goto(r, "LogoutFind", [Blank EXCEPT !.op = "logout", !.user = l.user])
                 [] OTHER -> Finish(r)
         \/ /\ CallFails
            /\ apart' = IF NeedsKeycloak(l) THEN apart \cup {l.user} ELSE apart
            /\ Finish(r)
            /\ UNCHANGED users
    /\ UNCHANGED <<tokens, accounts, now>>

=============================================================================
