---------------------------- MODULE AccountStore ----------------------------
(***************************************************************************)
(* What the account handlers share: the users and refresh tokens stored in *)
(* MongoDB, the accounts of Keycloak, the clock, and the requests.  pc[r]  *)
(* is the next call of request r, loc[r] what its handler holds.           *)
(*                                                                         *)
(* A write of a user is part of a MongoDB transaction: it is held in       *)
(* loc[r].doc until the commit, and other transactions that write the same *)
(* user, or take one of its unique keys, fail at once.  Keycloak is another *)
(* system, which no rollback reaches.                                      *)
(***************************************************************************)
EXTENDS Integers, FiniteSets, FiniteSetsExt

CONSTANTS
    Users,        \* ids of users, each used once, with a username of its own
    Emails,
    Matches,      \* [Emails -> SUBSET Emails], what Keycloak finds for an email
    Passwords,
    RoleRefs,     \* what may be stored as the role of a user
    Resolves,     \* the references among them that are ids of a role
    Tokens,       \* ids of refresh-token records, each used once
    Requests,     \* requests that may be in flight at the same time
    MaxRequests,  \* bound on the requests of a behaviour
    AuthStrategy, \* the setting of that name
    Statuses,     \* the statuses clients of an instance give
    JwtLife,      \* how long a signed refresh token verifies
    RecordLife,   \* how long its record lasts
    MaxTime,      \* bound on the clock
    Features      \* the parts of the API and the faults of an instance

None == "none"

ASSUME AccountAssumption ==
    /\ IsFiniteSet(Users)
    /\ Matches \in [Emails -> SUBSET Emails]
    /\ \A e \in Emails : e \in Matches[e]
    /\ None \notin Emails \cup Passwords \cup RoleRefs \cup Users \cup Tokens
    /\ Resolves \subseteq RoleRefs
    /\ Statuses \subseteq {"active", "inactive", "pending"}
    /\ {JwtLife, RecordLife, MaxTime, MaxRequests} \subseteq Nat

VARIABLES
    users,    \* the users collection
    tokens,   \* the tokens collection
    accounts, \* Keycloak's accounts, by the user whose name they carry
    apart,    \* a history: users whose last synchronisation was cut short, or
              \* whose account that of another user wrote
    now,
    begun,    \* how many requests have arrived
    pc, loc

vars == <<users, tokens, accounts, apart, now, begun, pc, loc>>

UserStatuses == {"active", "inactive", "pending"}

(* A password as it is stored: a plain one, or a bcrypt hash.  Clients may *)
(* give either where the password is stored as given.                      *)
Secret   == [password : Passwords, hashed : BOOLEAN]
NoSecret == [password |-> None, hashed |-> FALSE]
Plain(p) == [password |-> p, hashed |-> FALSE]
Hash(p)  == [password |-> p, hashed |-> TRUE]

UserRec == [state  : {"absent", "stored", "deleted"},
            email  : Emails \cup {None},
            secret : Secret \cup {NoSecret},
            status : UserStatuses,
            role   : RoleRefs \cup {None},
            code   : Nat]

NoUser == [state |-> "absent", email |-> None, secret |-> NoSecret,
           status |-> "active", role |-> None, code |-> 0]

Stored(u) == users[u].state = "stored"

(* A refresh token signed for a user is determined by the second it is     *)
(* signed in: two of one second are the same string.                       *)
TokenRec == [state : {"absent", "stored", "deleted"},
             user  : Users \cup {None},
             iat   : Nat]

NoToken == [state |-> "absent", user |-> None, iat |-> 0]

(* The roles mapped to an account, which nothing here reads, are left out. *)
AccountRec == [exists  : BOOLEAN,
               email   : Emails \cup {None},
               secret  : Secret \cup {NoSecret},
               enabled : BOOLEAN]

NoAccount == [exists |-> FALSE, email |-> None, secret |-> NoSecret,
              enabled |-> FALSE]

Ops == {"create", "register", "update", "delete", "password", "change",
        "role", "login", "refresh", "logout", "none"}

Steps == {"Idle",
          "CreateCheck", "CreateCode", "CreateInsert", "UpdateEmail",
          "ChangeCheck", "Write", "Lookup", "Account", "Commit",
          "SaveToken", "DropToken", "RefreshUser", "RotateToken",
          "LogoutFind", "LogoutDelete"}

(* The calls after the first write of a transaction.                       *)
TxnSteps == {"Lookup", "Account", "Commit"}

(* The body of an update: None where a field is not given.                 *)
Body   == [email  : Emails \cup {None},
           status : UserStatuses \cup {None},
           secret : Secret \cup {NoSecret},
           role   : RoleRefs \cup {None}]
NoBody == [email |-> None, status |-> None, secret |-> NoSecret, role |-> None]

LocRec == [op      : Ops,
           user    : Users \cup {None},
           body    : Body,
           doc     : UserRec,               \* the user the transaction writes
           email   : Emails \cup {None},    \* what Keycloak is told or asked
           status  : UserStatuses,
           account : Users \cup {None},     \* the account that was found
           synced  : BOOLEAN,               \* Keycloak took the user as its own
           old     : Secret \cup {NoSecret},\* the current password given
           token   : Tokens \cup {None},
           iat     : Nat,
           left    : SUBSET Tokens]

Blank == [op |-> "none", user |-> None, body |-> NoBody, doc |-> NoUser,
          email |-> None, status |-> "active", account |-> None,
          synced |-> FALSE, old |-> NoSecret, token |-> None, iat |-> 0,
          left |-> {}]

TypeOK ==
    /\ users \in [Users -> UserRec]
    /\ tokens \in [Tokens -> TokenRec]
    /\ accounts \in [Users -> AccountRec]
    /\ apart \subseteq Users
    /\ now \in Nat
    /\ begun \in Nat
    /\ pc \in [Requests -> Steps]
    /\ loc \in [Requests -> LocRec]

Init ==
    /\ users = [u \in Users |-> NoUser]
    /\ tokens = [t \in Tokens |-> NoToken]
    /\ accounts = [u \in Users |-> NoAccount]
    /\ apart = {}
    /\ now = 0
    /\ begun = 0
    /\ pc = [r \in Requests |-> "Idle"]
    /\ loc = [r \in Requests |-> Blank]

Goto(r, step, l) == /\ pc' = [pc EXCEPT ![r] = step]
                    /\ loc' = [loc EXCEPT ![r] = l]

Finish(r) == Goto(r, "Idle", Blank)

(* A request arrives. *)
Begin(r) == pc[r] = "Idle" /\ begun < MaxRequests /\ begun' = begun + 1

(* A transaction that has written a user.                                  *)
Pending(r) == pc[r] \in TxnSteps /\ loc[r].doc # NoUser

-----------------------------------------------------------------------------
(* The unique keys of the users, and the locks of open transactions.       *)

(* Bug: a transaction sees the committed users only.                       *)
Unlocked(r, u) == FALSE

Locked(r, u) == \E q \in Requests \ {r} : Pending(q) /\ loc[q].user = u

EmailFree(email) == \A u \in Users : Stored(u) => users[u].email # email

(* Bug: the unique indexes do not reach into other transactions.           *)
TakenAmongCommitted(r, doc) ==
    \E u \in Users \ {loc[r].user} :
        Stored(u) /\ (users[u].email = doc.email \/ users[u].code = doc.code)

(* The unique indexes refuse a document whose email or code another has,   *)
(* or is being given by another transaction.                               *)
Taken(r, doc) ==
    \/ \E u \in Users \ {loc[r].user} :
         Stored(u) /\ (users[u].email = doc.email \/ users[u].code = doc.code)
    \/ \E q \in Requests \ {r} :
         /\ Pending(q) /\ loc[q].user # loc[r].user
         /\ loc[q].doc.state = "stored"
         /\ (loc[q].doc.email = doc.email \/ loc[q].doc.code = doc.code)

(* The pre-save hook: the largest code of the committed users, plus one.   *)
NextCode == 1 + Max({0} \cup {users[u].code : u \in {v \in Users : Stored(v)}})

=============================================================================
