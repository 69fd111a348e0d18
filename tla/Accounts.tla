------------------------------ MODULE Accounts ------------------------------
(***************************************************************************)
(* The accounts of the web API (api/routes/auth.py, api/auth.py,            *)
(* api/routes/account.py, the invite codes of gateway/state_db.py).  A      *)
(* request reads the users table and writes it later, on the same or on     *)
(* another connection: other requests run in between.  Passwords and tokens *)
(* are compared by their hashes; a token is minted once, so that it is its  *)
(* own number.                                                              *)
(***************************************************************************)
EXTENDS Naturals, FiniteSets, Sequences

CONSTANTS
    Requests,                   \* requests that may be handled at once
    Emails, Codes, Passwords,
    InviteOnly,                 \* NUVRAIL_SIGNUP_MODE: "invite", or "open"
    MaxAccounts, MaxTokens      \* bounds on the rows and the tokens

ASSUME AccountAssumption ==
    /\ InviteOnly \in BOOLEAN /\ IsFiniteSet(Codes)
    /\ MaxAccounts \in Nat /\ MaxTokens \in Nat

None == "none"
Idle == [op |-> "idle", id |-> 0, email |-> None, given |-> None, new |-> None,
         read |-> None, token |-> 0]

VARIABLES
    users,          \* the rows, by their ids
    codes,          \* of each invite code "open", "revoked" or "spent"
    minted,         \* tokens minted so far: API tokens and reset tokens
    req,            \* requests under way: what they are and what they have read
    \* history
    ended,          \* API tokens that were nulled or replaced
    resets,         \* reset tokens that have set a password
    resetTwice,     \* one of them did so again
    unchecked       \* a password was changed by one who did not give it

vars == <<users, codes, minted, req, ended, resets, resetTwice, unchecked>>
History == <<ended, resets, resetTwice, unchecked>>

Ids == 1 .. Len(users)
Free(r) == req[r] = Idle
Taken(e) == \E i \in Ids : users[i].email = e
CodesIn(state) == {k \in Codes : codes[k] = state}

\* No two accounts share an email; a deleted one, and no other, has none.
TypeOK ==
    /\ \A i \in Ids :
          /\ users[i].email \in Emails \cup {None} /\ users[i].password \in Passwords \cup {None}
          /\ {users[i].token, users[i].reset} \subseteq 0 .. minted
          /\ users[i].deleted <=> users[i].email = None
    /\ \A i, j \in Ids : i # j /\ users[i].email # None => users[i].email # users[j].email
    /\ codes \in [Codes -> {"open", "revoked", "spent"}]
    /\ minted \in 0 .. MaxTokens
    /\ \A r \in Requests : req[r].id \in {0} \cup Ids

Init ==
    /\ users = <<>> /\ codes = [k \in Codes |-> "open"]
    /\ minted = 0 /\ req = [r \in Requests |-> Idle]
    /\ ended = {} /\ resets = {} /\ resetTwice = FALSE /\ unchecked = FALSE

Start(r, new) == Free(r) /\ req' = [req EXCEPT ![r] = new]
Finish(r) == req' = [req EXCEPT ![r] = Idle]
Mint == minted < MaxTokens /\ minted' = minted + 1
Row(e, pw, t) == [email |-> e, password |-> pw, token |-> t, reset |-> 0, deleted |-> FALSE]
\* UPDATE users SET api_token = t WHERE id = i
SetToken(i, t) ==
    /\ users' = [users EXCEPT ![i].token = t]
    /\ ended' = IF users[i].token = 0 THEN ended ELSE ended \cup {users[i].token}

\* get_current_user: the row is found by the token and kept for the request.
Authenticate(r, op, given, new) ==
    /\ \E i \in Ids :
          /\ users[i].token # 0 /\ ~users[i].deleted
          /\ Start(r, [Idle EXCEPT !.op = op, !.id = i, !.given = given, !.new = new,
                                   !.read = users[i].password])
    /\ UNCHANGED <<users, codes, minted>> /\ UNCHANGED History

\* register: the email is looked up first.
Register(r, e, pw) ==
    /\ ~Taken(e)
    /\ Start(r, [Idle EXCEPT !.op = "register", !.email = e, !.new = pw])
    /\ UNCHANGED <<users, codes, minted>> /\ UNCHANGED History

Insert(r) ==
    /\ ~Taken(req[r].email) /\ Len(users) < MaxAccounts /\ Mint
    /\ users' = Append(users, Row(req[r].email, req[r].new, minted'))

\* (mutant) the code is committed before the row is inserted
RegisteredTwoCommits(r) ==
    /\ req[r].op = "register"
    /\ \E k \in CodesIn("open") : codes' = [codes EXCEPT ![k] = "spent"]
    /\ Insert(r) \/ (Taken(req[r].email) /\ UNCHANGED <<users, minted>>)
    /\ Finish(r) /\ UNCHANGED History

\* The conditional UPDATE spends the code, the INSERT follows in its transaction:
\* an email taken meanwhile violates UNIQUE and rolls both back.
Registered(r) ==
    /\ req[r].op = "register"
    /\ IF InviteOnly THEN \E k \in CodesIn("open") : codes' = [codes EXCEPT ![k] = "spent"]
                     ELSE UNCHANGED codes
    /\ Insert(r)
    /\ Finish(r) /\ UNCHANGED History

\* 403: the code is unknown, spent or revoked.  Or the INSERT fails.
RegisterFails(r) ==
    /\ req[r].op = "register" /\ (InviteOnly \/ Taken(req[r].email))
    /\ Finish(r) /\ UNCHANGED <<users, codes, minted>> /\ UNCHANGED History

\* revoke_invite_code: WHERE redeemed_at IS NULL AND revoked_at IS NULL
RevokeCode(k) ==
    /\ codes[k] = "open" /\ codes' = [codes EXCEPT ![k] = "revoked"]
    /\ UNCHANGED <<users, minted, req>> /\ UNCHANGED History

\* login: the row is read by the email and the password verified.
Login(r, i) ==
    /\ users[i].email # None /\ users[i].password # None
    /\ Start(r, [Idle EXCEPT !.op = "login", !.id = i, !.token = users[i].token])
    /\ UNCHANGED <<users, codes, minted>> /\ UNCHANGED History

\* (mutant) the token that was read is kept
LoggedInAgain(r) ==
    /\ req[r].op = "login"
    /\ IF req[r].token = 0 THEN Mint /\ SetToken(req[r].id, minted')
       ELSE users' = [users EXCEPT ![req[r].id].token = req[r].token] /\ UNCHANGED <<minted, ended>>
    /\ Finish(r) /\ UNCHANGED <<codes, resets, resetTwice, unchecked>>

LoggedIn(r) ==
    /\ req[r].op = "login" /\ Mint /\ SetToken(req[r].id, minted')
    /\ Finish(r) /\ UNCHANGED <<codes, resets, resetTwice, unchecked>>

Rotated(r) ==
    /\ req[r].op = "rotate" /\ Mint /\ SetToken(req[r].id, minted')
    /\ Finish(r) /\ UNCHANGED <<codes, resets, resetTwice, unchecked>>

LoggedOut(r) ==
    /\ req[r].op = "logout" /\ SetToken(req[r].id, 0)
    /\ Finish(r) /\ UNCHANGED <<codes, minted, resets, resetTwice, unchecked>>

\* change_password: the password is verified against the row of get_current_user.
Changed(r) ==
    /\ req[r].op = "change" /\ req[r].given = req[r].read
    /\ users' = [users EXCEPT ![req[r].id].password = req[r].new]
    /\ unchecked' = (unchecked \/ req[r].given # users[req[r].id].password)
    /\ Finish(r) /\ UNCHANGED <<codes, minted, ended, resets, resetTwice>>

\* delete_account: as change_password, and the row becomes a tombstone.
Deleted(r) ==
    /\ req[r].op = "delete" /\ req[r].given = req[r].read
    /\ users' = [users EXCEPT ![req[r].id] = [Row(None, None, 0) EXCEPT !.deleted = TRUE]]
    /\ ended' = ended \cup ({users[req[r].id].token} \ {0})
    /\ Finish(r) /\ UNCHANGED <<codes, minted, resets, resetTwice, unchecked>>

\* 400: the password is wrong.
Refused(r) ==
    /\ req[r].op \in {"change", "delete"} /\ req[r].given # req[r].read
    /\ Finish(r) /\ UNCHANGED <<users, codes, minted>> /\ UNCHANGED History

\* reset_request: a new token replaces the last one.
ResetRequested(i) ==
    /\ users[i].email # None /\ Mint
    /\ users' = [users EXCEPT ![i].reset = minted']
    /\ UNCHANGED <<codes, req>> /\ UNCHANGED History

\* Its hour passes.
ResetExpires(i) ==
    /\ users[i].reset # 0 /\ users' = [users EXCEPT ![i].reset = 0]
    /\ UNCHANGED <<codes, minted, req>> /\ UNCHANGED History

\* reset_password: the row is found by the token.
Reset(r, i, pw) ==
    /\ users[i].reset # 0
    /\ Start(r, [Idle EXCEPT !.op = "reset", !.id = i, !.new = pw, !.token = users[i].reset])
    /\ UNCHANGED <<users, codes, minted>> /\ UNCHANGED History

\* Then the row is written.
WasReset(r) ==
    /\ req[r].op = "reset"
    /\ users' = [users EXCEPT ![req[r].id] = [@ EXCEPT !.password = req[r].new, !.reset = 0]]
    /\ resets' = resets \cup {req[r].token}
    /\ resetTwice' = (resetTwice \/ req[r].token \in resets)
    /\ Finish(r) /\ UNCHANGED <<codes, minted, ended, unchecked>>

\* The second half of a request.
Proceed(r) ==
    \/ Registered(r) \/ RegisterFails(r) \/ LoggedIn(r) \/ Rotated(r) \/ LoggedOut(r)
    \/ Changed(r) \/ Deleted(r) \/ Refused(r) \/ WasReset(r)

Next ==
    \/ \E r \in Requests :
          \/ Proceed(r)
          \/ \E op \in {"rotate", "logout"} : Authenticate(r, op, None, None)
          \/ \E given, new \in Passwords : Authenticate(r, "change", given, new)
          \/ \E given \in Passwords : Authenticate(r, "delete", given, None)
          \/ \E e \in Emails, pw \in Passwords : Register(r, e, pw)
          \/ \E i \in Ids : Login(r, i) \/ \E pw \in Passwords : Reset(r, i, pw)
    \/ \E k \in Codes : RevokeCode(k)
    \/ \E i \in Ids : ResetRequested(i) \/ ResetExpires(i)

Spec == Init /\ [][Next]_vars

-----------------------------------------------------------------------------
(* Properties *)

\* "no spending a code without creating an account, and no creating an account
\* without spending a code" (register), however registrations, revocations and
\* duplicate emails interleave.
CodesMatchAccounts == InviteOnly => Cardinality(CodesIn("spent")) = Len(users)

\* A token that logout, rotation, a login or the deletion ended never
\* authenticates again, whatever request was under way when it ended.
EndedStaysDead == \A i \in Ids : users[i].token \notin ended

(* What comments and docs say and the code does not keep to *)

\* api/routes/auth.py:720 - "Token must be present, unexpired, and not yet used."
ResetOnce == ~resetTwice

\* api/routes/auth.py:627 - "Verifies current_password with bcrypt before accepting
\* new_password."
ChangeIsChecked == ~unchecked

\* api/routes/account.py:263-265 - deletion "scrubs every directly-identifying field
\* (email, name, password, tokens, upstream credentials) and tombstones the account".
DeletedIsScrubbed ==
    \A i \in Ids : users[i].deleted =>
        users[i].password = None /\ users[i].token = 0 /\ users[i].reset = 0

=============================================================================
