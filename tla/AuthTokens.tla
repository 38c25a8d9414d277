----------------------------- MODULE AuthTokens -----------------------------
(***************************************************************************)
(* AuthService and TokenService: login, the refresh of a pair of tokens,   *)
(* logout and the change of a password.  The role of a user is looked up   *)
(* right after the user; as roles do not change here, the two are one      *)
(* action, in which the tokens are signed too.                             *)
(***************************************************************************)
EXTENDS AccountStore

(* createAuthPayload: a user without a role, or with the id of one.        *)
HasPayload(u) == users[u].role \in Resolves \cup {None}

FreshToken(t) == tokens[t].state = "absent"

Live(t) == tokens[t].state = "stored"

TokensOf(u) == {t \in Tokens : Live(t) /\ tokens[t].user = u}

(* bcrypt: the stored password is a hash of the one given.                 *)
Verified(u, p) == users[u].secret = Hash(p)

(* login *)
LoginRead(r) ==
    /\ Begin(r)
    /\ \E u \in Users, p \in Passwords :
         /\ Stored(u) /\ Verified(u, p)
         /\ users[u].status = "active"
         /\ HasPayload(u)
         /\ Goto(r, "SaveToken", [Blank EXCEPT !.op = "login", !.user = u, !.iat = now])
    /\ UNCHANGED <<users, tokens, accounts, apart, now>>

(* The end of login and register.                                          *)
SaveToken(r) ==
    /\ pc[r] = "SaveToken"
    /\ \E t \in Tokens :
         /\ FreshToken(t)
         /\ tokens' = [tokens EXCEPT ![t] = [state |-> "stored", user |-> loc[r].user,
                                             iat |-> loc[r].iat]]
    /\ Finish(r)
    /\ UNCHANGED <<users, accounts, apart, now>>

(* refreshToken: a client presents a token that verifies and is stored.    *)
RefreshRead(r) ==
    /\ Begin(r)
    /\ \E t \in Tokens :
         /\ Live(t)
         /\ now < tokens[t].iat + JwtLife
         /\ Goto(r, IF now > tokens[t].iat + RecordLife THEN "DropToken" ELSE "RefreshUser",
                 [Blank EXCEPT !.op = "refresh", !.user = tokens[t].user, !.token = t])
    /\ UNCHANGED <<users, tokens, accounts, apart, now>>

(* findByIdAndDelete of one record.                                        *)
Dropped(t) == IF Live(t) THEN [tokens EXCEPT ![t].state = "deleted"] ELSE tokens

DropToken(r) ==
    /\ pc[r] = "DropToken"
    /\ tokens' = Dropped(loc[r].token)
    /\ Finish(r)
    /\ UNCHANGED <<users, accounts, apart, now>>

(* The user has to exist, whatever its status.                             *)
RefreshUser(r) ==
    /\ pc[r] = "RefreshUser"
    /\ LET u == loc[r].user IN
         IF Stored(u) /\ HasPayload(u)
         THEN Goto(r, "RotateToken", [loc[r] EXCEPT !.iat = now])
         ELSE Finish(r)
    /\ UNCHANGED <<users, tokens, accounts, apart, now>>

(* Bug: the write of the new token inserts a record that is gone.          *)
RotatedUpsert(t, iat) == [tokens EXCEPT ![t].iat = iat, ![t].state = "stored"]

(* findByIdAndUpdate of one record.                                        *)
Rotated(t, iat) == IF Live(t) THEN [tokens EXCEPT ![t].iat = iat] ELSE tokens

RotateToken(r) ==
    /\ pc[r] = "RotateToken"
    /\ tokens' = Rotated(loc[r].token, loc[r].iat)
    /\ Finish(r)
    /\ UNCHANGED <<users, accounts, apart, now>>

-----------------------------------------------------------------------------
(* logout, and the end of changePassword: the records of a user are listed *)
(* and deleted one by one.                                                 *)
LogoutRead(r) ==
    /\ "logout" \in Features
    /\ Begin(r)
    /\ \E u \in Users :
         /\ TokensOf(u) # {}
         /\ Goto(r, "LogoutDelete", [Blank EXCEPT !.op = "logout", !.user = u,
                                                  !.left = TokensOf(u)])
    /\ UNCHANGED <<users, tokens, accounts, apart, now>>

LogoutFind(r) ==
    /\ pc[r] = "LogoutFind"
    /\ Goto(r, "LogoutDelete", [loc[r] EXCEPT !.left = TokensOf(loc[r].user)])
    /\ UNCHANGED <<users, tokens, accounts, apart, now>>

LogoutDelete(r) ==
    /\ pc[r] = "LogoutDelete"
    /\ IF loc[r].left = {}
       THEN Finish(r) /\ UNCHANGED tokens
       ELSE \E t \in loc[r].left :
              /\ tokens' = Dropped(t)
              /\ Goto(r, "LogoutDelete", [loc[r] EXCEPT !.left = @ \ {t}])
    /\ UNCHANGED <<users, accounts, apart, now>>

(* changePassword verifies the current password against the hash, hashes   *)
(* the new one and calls UserService, which compares the current password  *)
(* with what is stored then.                                               *)
AuthChangeRead(r) ==
    /\ "authChange" \in Features
    /\ Begin(r)
    /\ \E u \in Users, p, q \in Passwords :
         /\ Stored(u) /\ Verified(u, p)
         /\ Goto(r, "ChangeCheck", [Blank EXCEPT !.op = "change", !.user = u,
                                                 !.old = Plain(p),
                                                 !.body = [NoBody EXCEPT !.secret = Hash(q)]])
    /\ UNCHANGED <<users, tokens, accounts, apart, now>>

(* The token controller deletes a record.                                  *)
DeleteToken(t) ==
    /\ "tokens" \in Features
    /\ Live(t)
    /\ tokens' = Dropped(t)
    /\ UNCHANGED <<users, accounts, apart, now, begun, pc, loc>>

=============================================================================
