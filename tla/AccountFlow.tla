---------------------------- MODULE AccountFlow -----------------------------
(***************************************************************************)
(* Users, their accounts in Keycloak and their sessions together, with the *)
(* passing of time and crashes.                                            *)
(***************************************************************************)
EXTENDS UserAccounts, AuthTokens

StartRequest(r) ==
    \/ CreateRead(r)
    \/ RegisterRead(r)
    \/ UpdateRead(r)
    \/ SetPasswordRead(r)
    \/ ChangePasswordRead(r)
    \/ DeleteRead(r)
    \/ RoleRead(r)
    \/ LoginRead(r)
    \/ RefreshRead(r)
    \/ LogoutRead(r)
    \/ AuthChangeRead(r)

Step(r) ==
    \/ CreateCheck(r)
    \/ CreateCode(r)
    \/ CreateInsert(r)
    \/ UpdateEmail(r)
    \/ ChangeCheck(r)
    \/ Write(r)
    \/ Lookup(r)
    \/ AccountUpdate(r)
    \/ AccountCreate(r)
    \/ AccountOther(r)
    \/ Commit(r)
    \/ SaveToken(r)
    \/ DropToken(r)
    \/ RefreshUser(r)
    \/ RotateToken(r)
    \/ LogoutFind(r)
    \/ LogoutDelete(r)

Tick == /\ now < MaxTime
        /\ now' = now + 1
        /\ UNCHANGED <<users, tokens, accounts, apart, begun, pc, loc>>

(* The process stops: open transactions roll back, Keycloak stays as it is. *)
Crash ==
    /\ "crash" \in Features
    /\ \E r \in Requests : pc[r] # "Idle"
    /\ pc' = [r \in Requests |-> "Idle"]
    /\ loc' = [r \in Requests |-> Blank]
    /\ apart' = apart \cup {u \in Users : \E r \in Requests :
                              pc[r] = "Commit" /\ loc[r].synced /\ loc[r].user = u}
    /\ UNCHANGED <<users, tokens, accounts, now, begun>>

Next ==
    \/ \E r \in Requests : StartRequest(r) \/ (Step(r) /\ UNCHANGED begun)
    \/ \E t \in Tokens : DeleteToken(t)
    \/ Tick
    \/ Crash

Spec == Init /\ [][Next]_vars

-----------------------------------------------------------------------------
(* However creations, updates and rollbacks overlap, no two users have one *)
(* email or one code.                                                      *)
KeysUnique ==
    \A u, v \in Users :
        u # v /\ Stored(u) /\ Stored(v) =>
            users[u].email # users[v].email /\ users[u].code # users[v].code

(* A user and the Keycloak account of its name and email have the same     *)
(* password between transactions, unless the last synchronisation of the   *)
(* user was cut short or another user's went to its account.               *)
PasswordsAgree ==
    \A u \in Users \ apart :
        /\ Stored(u)
        /\ accounts[u].exists
        /\ accounts[u].email = users[u].email
        /\ \A r \in Requests : Pending(r) => loc[r].user # u
        => accounts[u].secret = users[u].secret

(* A session that was ended, by logout or expiry, is not brought back by a *)
(* refresh that was under way.                                             *)
EndedStaysEnded ==
    [][\A t \in Tokens : tokens[t].state = "deleted" => tokens'[t].state = "deleted"]_vars

=============================================================================
