--------------------------- MODULE Records_proofs ---------------------------
(***************************************************************************)
(* What the gateway's records promise.  Accounts, for any number of         *)
(* requests, emails, passwords, codes, accounts and tokens; LoginGuard and  *)
(* SendRate, for any limits, windows, logins and sends; AuditChain and      *)
(* Retention, for any number of writers, operations and passes: rows link   *)
(* to rows that are there, whatever locks time out and whatever is rolled   *)
(* back, a log nothing was purged from raises no alarm, and no body goes    *)
(* before its operation is decided, nor without its event.                  *)
(***************************************************************************)
EXTENDS MCAccounts, MCTrail, Filters_proofs, FiniteSetTheorems, TLAPS

Account ==
    [email : Emails \cup {None}, password : Passwords \cup {None}, token : Nat, reset : Nat,
     deleted : BOOLEAN]

\* A request that has read a row knows its id.
Known(q) ==
    /\ q.op \in {"login", "rotate", "logout", "change", "delete", "reset"} => q.id \in Ids
    /\ q.op = "register" => q.email \in Emails
    /\ q.op \in {"register", "change", "reset"} => q.new \in Passwords

Shapes ==
    /\ users \in Seq(Account) /\ codes \in [Codes -> {"open", "revoked", "spent"}]
    /\ minted \in Nat /\ DOMAIN req = Requests
    /\ \A r \in Requests : Known(req[r])

\* Tokens are minted once, and nobody has that of another.
TokensInv ==
    /\ \A i \in Ids : users[i].token <= minted /\ users[i].token \notin ended
    /\ ended \subseteq 1 .. minted
    /\ \A i, j \in Ids : i # j /\ users[i].token # 0 => users[i].token # users[j].token

AccountsInv == Shapes /\ TokensInv /\ CodesMatchAccounts

-----------------------------------------------------------------------------

\* No account, no code spent, no token minted.
LEMMA InitHolds == Init => AccountsInv
<1> SUFFICES ASSUME Init PROVE AccountsInv
  OBVIOUS
<1>1. Shapes
  BY DEF Init, Shapes, Known, Idle
<1>2. TokensInv
  BY DEF Init, TokensInv, Ids
<1>3. CodesMatchAccounts
  <2>1. CodesIn("spent") = {} /\ Len(users) = 0
    BY DEF Init, CodesIn
  <2> QED BY <2>1, FS_EmptySet DEF CodesMatchAccounts
<1> QED BY <1>1, <1>2, <1>3 DEF AccountsInv

\* A request begins, or ends without a change.
LEMMA StartHolds ==
    ASSUME AccountsInv, NEW r \in Requests, NEW q, Known(q), req' = [req EXCEPT ![r] = q],
           UNCHANGED <<users, codes, minted, ended>>
    PROVE  AccountsInv'
<1> USE DEF AccountsInv
<1>1. Shapes'
  BY DEF Shapes, Known, Ids
<1>2. TokensInv'
  BY DEF TokensInv, Ids
<1>3. CodesMatchAccounts'
  BY DEF CodesMatchAccounts, CodesIn
<1> QED BY <1>1, <1>2, <1>3

\* A row is written: its token stays, or is ended, or is ended and a new one minted.
LEMMA UpdateHolds ==
    ASSUME AccountsInv, NEW i \in Ids, NEW row \in Account, NEW new \in Nat,
           users' = [users EXCEPT ![i] = row],
           \/ row.token = users[i].token /\ ended' = ended
           \/ /\ row.token \in {0, new}
              /\ ended' = IF users[i].token = 0 THEN ended ELSE ended \cup {users[i].token},
           new = minted + 1, minted' \in {minted, new}, row.token = new => minted' = new,
           UNCHANGED codes,
           DOMAIN req' = Requests, \A r \in Requests : Known(req'[r])
    PROVE  AccountsInv'
<1> USE DEF AccountsInv
<1>1. users \in Seq(Account) /\ Len(users) \in Nat /\ Len(users') = Len(users) /\ users' \in Seq(Account)
      /\ Ids' = Ids
  BY DEF Shapes, Ids
<1>2. /\ users'[i] = row
      /\ \A j \in Ids : j # i => users'[j] = users[j]
      /\ \A j \in Ids : users[j].token \in Nat
  <2>1. \A j \in Ids : users[j] \in Account
    BY <1>1 DEF Ids
  <2> QED BY <1>1, <2>1 DEF Ids, Account
<1>3. Shapes'
  BY <1>1 DEF Shapes, Known
<1>4. row.token \in Nat /\ minted \in Nat
  BY DEF Account, Shapes
<1>5. TokensInv'
  <2> SUFFICES /\ \A j \in Ids : users'[j].token <= minted' /\ users'[j].token \notin ended'
               /\ ended' \subseteq 1 .. minted'
               /\ \A j, k \in Ids : j # k /\ users'[j].token # 0 => users'[j].token # users'[k].token
    BY <1>1 DEF TokensInv
  <2>1. CASE row.token = users[i].token /\ ended' = ended
    BY <2>1, <1>2, <1>4 DEF TokensInv
  <2>2. CASE /\ row.token \in {0, new}
             /\ ended' = IF users[i].token = 0 THEN ended ELSE ended \cup {users[i].token}
    <3> DEFINE gone == users[i].token
    <3>1. gone \in Nat /\ gone <= minted /\ gone \notin ended /\ \A e \in ended : e \in 1 .. minted
      BY <1>2 DEF TokensInv
    <3>2. ended' \subseteq 1 .. minted'
      BY <2>2, <1>4, <3>1
    <3>3. \A e \in ended' : e \in ended \/ (e = gone /\ gone # 0)
      BY <2>2
    <3>4. row.token \notin ended' /\ row.token <= minted'
      BY <2>2, <1>4, <3>1, <3>3
    <3>5. ASSUME NEW j \in Ids, j # i
          PROVE  /\ users[j].token <= minted' /\ users[j].token \notin ended'
                 /\ users[j].token # 0 => users[j].token # row.token
      <4>1. users[j].token \in Nat /\ users[j].token <= minted /\ users[j].token \notin ended
            /\ (users[j].token # 0 => users[j].token # gone)
        BY <1>2, <3>5 DEF TokensInv
      <4> QED BY <2>2, <1>4, <3>3, <4>1
    <3>6. \A j, k \in Ids : j # k /\ users'[j].token # 0 => users'[j].token # users'[k].token
      BY <1>2, <3>5 DEF TokensInv
    <3> QED BY <1>2, <3>2, <3>4, <3>5, <3>6
  <2> QED BY <2>1, <2>2
<1>6. CodesMatchAccounts'
  BY <1>1 DEF CodesMatchAccounts, CodesIn
<1> QED BY <1>3, <1>5, <1>6

\* The transaction that adds a row and spends a code.
LEMMA RegisteredHolds ==
    ASSUME AccountsInv, NEW r \in Requests, Registered(r) PROVE AccountsInv'
<1> DEFINE row == Row(req[r].email, req[r].new, minted')
<1>1. /\ users \in Seq(Account) /\ minted \in Nat /\ minted' = minted + 1 /\ DOMAIN req = Requests
      /\ req[r].email \in Emails /\ req[r].new \in Passwords
      /\ codes \in [Codes -> {"open", "revoked", "spent"}]
  BY DEF Registered, Insert, Mint, AccountsInv, Shapes, Known
<1>2. row \in Account /\ row.token = minted + 1
  BY <1>1 DEF Row, Account
<1>3. users' = Append(users, row) /\ ended' = ended /\ req' = [req EXCEPT ![r] = Idle]
  BY DEF Registered, Insert, History, Finish
<1> HIDE DEF row
<1>4. /\ Len(users) \in Nat /\ Len(users') = Len(users) + 1 /\ users' \in Seq(Account)
      /\ users'[Len(users) + 1] = row /\ \A i \in Ids : users'[i] = users[i]
  BY <1>1, <1>2, <1>3 DEF Ids
<1>5. Ids \subseteq Ids' /\ \A i \in Ids' : i \in Ids \/ i = Len(users) + 1
  BY <1>4 DEF Ids
<1>6. Shapes'
  <2>1. codes' \in [Codes -> {"open", "revoked", "spent"}]
    BY <1>1 DEF Registered, CodesIn
  <2>2. \A q \in Requests : Known(req[q])'
    BY <1>1, <1>3, <1>5 DEF AccountsInv, Shapes, Known, Idle
  <2> QED BY <1>1, <1>3, <1>4, <2>1, <2>2 DEF Shapes
<1>7. TokensInv'
  <2>1. \A i \in Ids : users[i] \in Account
    BY <1>1 DEF Ids
  <2>2. \A i \in Ids : users[i].token \in Nat /\ users[i].token <= minted
    BY <2>1 DEF Account, AccountsInv, TokensInv
  <2>3. ASSUME NEW i \in Ids'
        PROVE  /\ users'[i].token <= minted' /\ users'[i].token \notin ended'
               /\ \/ i \in Ids /\ users'[i].token = users[i].token
                  \/ i = Len(users) + 1 /\ users'[i].token = minted + 1
    <3>1. CASE i \in Ids
      <4>1. users'[i] = users[i] /\ users[i].token \notin ended
        BY <1>4, <3>1 DEF AccountsInv, TokensInv
      <4> QED BY <1>1, <1>3, <2>2, <3>1, <4>1
    <3>2. CASE i = Len(users) + 1
      <4>1. minted + 1 \notin ended
        BY <1>1 DEF AccountsInv, TokensInv
      <4> QED BY <1>1, <1>2, <1>3, <1>4, <3>2, <4>1
    <3> QED BY <1>5, <3>1, <3>2
  <2>4. ended' \subseteq 1 .. minted'
    BY <1>1, <1>3 DEF AccountsInv, TokensInv
  <2>5. ASSUME NEW i \in Ids', NEW j \in Ids', i # j, users'[i].token # 0
        PROVE  users'[i].token # users'[j].token
    BY <1>1, <2>2, <2>3, <2>5 DEF AccountsInv, TokensInv
  <2> QED BY <2>3, <2>4, <2>5 DEF TokensInv
<1>8. CodesMatchAccounts'
  <2> SUFFICES ASSUME InviteOnly' PROVE Cardinality(CodesIn("spent")') = Len(users')
    BY DEF CodesMatchAccounts
  <2>1. PICK k \in CodesIn("open") : codes' = [codes EXCEPT ![k] = "spent"]
    BY DEF Registered
  <2>2. CodesIn("spent")' = CodesIn("spent") \cup {k} /\ k \notin CodesIn("spent")
    BY <1>1, <2>1 DEF CodesIn
  <2>3. IsFiniteSet(CodesIn("spent"))
    BY AccountAssumption, FS_Subset DEF CodesIn
  <2>4. Cardinality(CodesIn("spent") \cup {k}) = Cardinality(CodesIn("spent")) + 1
    BY <2>2, <2>3, FS_AddElement
  <2> QED BY <1>4, <2>2, <2>4 DEF AccountsInv, CodesMatchAccounts
<1> QED BY <1>6, <1>7, <1>8 DEF AccountsInv

\* An invite that is revoked was open: none that is spent is lost.
LEMMA RevokeHolds ==
    ASSUME AccountsInv, NEW k \in Codes, RevokeCode(k) PROVE AccountsInv'
<1> USE DEF AccountsInv, RevokeCode, History
<1>1. Shapes'
  BY DEF Shapes, Known, Ids
<1>2. TokensInv'
  BY DEF TokensInv, Ids
<1>3. CodesIn("spent")' = CodesIn("spent")
  BY DEF CodesIn, Shapes
<1> QED
  BY <1>1, <1>2, <1>3 DEF CodesMatchAccounts

-----------------------------------------------------------------------------
(* The second halves that write a row *)

\* What a row becomes.
LEMMA Fields ==
    ASSUME NEW a \in Account
    PROVE  /\ \A t \in Nat : [a EXCEPT !.token = t] \in Account /\ [a EXCEPT !.token = t].token = t
           /\ \A t \in Nat : [a EXCEPT !.reset = t] \in Account /\ [a EXCEPT !.reset = t].token = a.token
           /\ \A pw \in Passwords :
                 /\ [a EXCEPT !.password = pw] \in Account
                 /\ [a EXCEPT !.password = pw].token = a.token
                 /\ [a EXCEPT !.password = pw, !.reset = 0] \in Account
                 /\ [a EXCEPT !.password = pw, !.reset = 0].token = a.token
BY DEF Account

\* Handlers that write the row of an account they have read before.
LEMMA WriteHolds ==
    ASSUME AccountsInv, NEW r \in Requests,
           \/ LoggedIn(r) \/ Rotated(r) \/ LoggedOut(r) \/ Changed(r) \/ Deleted(r) \/ WasReset(r)
    PROVE  AccountsInv'
<1> DEFINE i == req[r].id
           next == minted + 1
<1>1. i \in Ids /\ next \in Nat /\ next # 0 /\ Shapes
  BY DEF AccountsInv, Shapes, Known, LoggedIn, Rotated, LoggedOut, Changed, Deleted, WasReset
<1>2. DOMAIN req' = Requests /\ (\A q \in Requests : Known(req'[q])) /\ codes' = codes
  BY DEF AccountsInv, Shapes, Known, Idle, Finish, LoggedIn, Rotated, LoggedOut, Changed, Deleted, WasReset
<1> HIDE DEF i
<1>3. /\ users \in Seq(Account) /\ users[i] \in Account
      /\ users[i].token # next
  <2>1. users \in Seq(Account) /\ minted \in Nat
    BY <1>1 DEF Shapes
  <2>2. users[i] \in Account
    BY <1>1, <2>1 DEF Ids
  <2>3. users[i].token \in Nat /\ users[i].token <= minted
    BY <1>1, <2>2 DEF AccountsInv, TokensInv, Account
  <2> QED BY <2>1, <2>2, <2>3 DEF next
<1> HIDE DEF next
<1>4. CASE LoggedIn(r) \/ Rotated(r)
  <2> DEFINE row == [users[i] EXCEPT !.token = next]
  <2>1. /\ users' = [users EXCEPT ![i] = row] /\ minted' = next
        /\ ended' = IF users[i].token = 0 THEN ended ELSE ended \cup {users[i].token}
    BY <1>4 DEF LoggedIn, Rotated, Mint, SetToken, i, next
  <2>2. row \in Account /\ row.token = next
    BY <1>1, <1>3, Fields
  <2> HIDE DEF row
  <2> QED BY <1>1, <1>2, <2>1, <2>2, UpdateHolds DEF next
<1>5. CASE LoggedOut(r)
  <2> DEFINE row == [users[i] EXCEPT !.token = 0]
  <2>1. /\ users' = [users EXCEPT ![i] = row] /\ minted' = minted
        /\ ended' = IF users[i].token = 0 THEN ended ELSE ended \cup {users[i].token}
    BY <1>5 DEF LoggedOut, SetToken, i
  <2>2. row \in Account /\ row.token = 0
    BY <1>1, <1>3, Fields
  <2> HIDE DEF row
  <2> QED BY <1>1, <1>2, <2>1, <2>2, UpdateHolds DEF next
<1>6. CASE Changed(r)
  <2> DEFINE row == [users[i] EXCEPT !.password = req[r].new]
  <2>1. users' = [users EXCEPT ![i] = row] /\ minted' = minted /\ ended' = ended
    BY <1>6 DEF Changed, i
  <2>2. req[r].new \in Passwords
    BY <1>1, <1>6 DEF Changed, Shapes, Known
  <2>3. row \in Account /\ row.token = users[i].token
    BY <1>1, <1>3, <2>2, Fields
  <2> HIDE DEF row
  <2> QED BY <1>1, <1>2, <1>3, <2>1, <2>3, UpdateHolds DEF next
<1>7. CASE WasReset(r)
  <2> DEFINE row == [users[i] EXCEPT !.password = req[r].new, !.reset = 0]
  <2>1. users' = [users EXCEPT ![i] = row] /\ minted' = minted /\ ended' = ended
    BY <1>7 DEF WasReset, i
  <2>2. req[r].new \in Passwords
    BY <1>1, <1>7 DEF WasReset, Shapes, Known
  <2>3. row \in Account /\ row.token = users[i].token
    BY <1>1, <1>3, <2>2, Fields
  <2> HIDE DEF row
  <2> QED BY <1>1, <1>2, <1>3, <2>1, <2>3, UpdateHolds DEF next
<1>8. CASE Deleted(r)
  <2> DEFINE row == [Row(None, None, 0) EXCEPT !.deleted = TRUE]
  <2>1. users' = [users EXCEPT ![i] = row] /\ minted' = minted
        /\ ended' = ended \cup ({users[i].token} \ {0})
    BY <1>8 DEF Deleted, i
  <2>2. row \in Account /\ row.token = 0
    BY DEF Row, Account
  <2> HIDE DEF row
  <2>3. ended' = IF users[i].token = 0 THEN ended ELSE ended \cup {users[i].token}
    BY <2>1
  <2> QED BY <1>1, <1>2, <2>1, <2>2, <2>3, UpdateHolds DEF next
<1> QED
  BY <1>4, <1>5, <1>6, <1>7, <1>8

\* Those that begin a request, or end it without a change.
LEMMA BeginHolds ==
    ASSUME AccountsInv, NEW r \in Requests,
           \/ RegisterFails(r) \/ Refused(r)
           \/ \E op \in {"rotate", "logout"} : Authenticate(r, op, None, None)
           \/ \E given, new \in Passwords : Authenticate(r, "change", given, new)
           \/ \E given \in Passwords : Authenticate(r, "delete", given, None)
           \/ \E e \in Emails, pw \in Passwords : Register(r, e, pw)
           \/ \E i \in Ids : Login(r, i) \/ \E pw \in Passwords : Reset(r, i, pw)
    PROVE  AccountsInv'
<1> USE DEF Known, Idle, Start, Finish, History
<1>1. CASE RegisterFails(r) \/ Refused(r)
  BY <1>1, StartHolds DEF RegisterFails, Refused
<1>2. ASSUME NEW op \in {"rotate", "logout"}, Authenticate(r, op, None, None) PROVE AccountsInv'
  BY <1>2, StartHolds DEF Authenticate
<1>3. ASSUME NEW given \in Passwords, NEW new \in Passwords, Authenticate(r, "change", given, new)
      PROVE  AccountsInv'
  BY <1>3, StartHolds DEF Authenticate
<1>4. ASSUME NEW given \in Passwords, Authenticate(r, "delete", given, None) PROVE AccountsInv'
  BY <1>4, StartHolds DEF Authenticate
<1>5. ASSUME NEW e \in Emails, NEW pw \in Passwords, Register(r, e, pw) PROVE AccountsInv'
  BY <1>5, StartHolds DEF Register
<1>6. ASSUME NEW i \in Ids, Login(r, i) PROVE AccountsInv'
  BY <1>6, StartHolds DEF Login
<1>7. ASSUME NEW i \in Ids, NEW pw \in Passwords, Reset(r, i, pw) PROVE AccountsInv'
  BY <1>7, StartHolds DEF Reset
<1> QED
  BY <1>1, <1>2, <1>3, <1>4, <1>5, <1>6, <1>7

\* Reset tokens do not authenticate; they share the counter.
LEMMA ResetTokensHold ==
    ASSUME AccountsInv, NEW i \in Ids, ResetRequested(i) \/ ResetExpires(i) PROVE AccountsInv'
<1> DEFINE next == minted + 1
           row(t) == [users[i] EXCEPT !.reset = t]
<1>1. users \in Seq(Account) /\ minted \in Nat /\ DOMAIN req = Requests /\ \A r \in Requests : Known(req[r])
  BY DEF AccountsInv, Shapes
<1>2. users[i] \in Account
  BY <1>1 DEF Ids
<1>3. users[i].token \in Nat /\ users[i].token <= minted
  BY <1>2 DEF AccountsInv, TokensInv, Account
<1>4. \A t \in Nat : row(t) \in Account /\ row(t).token = users[i].token
  BY <1>2, Fields
<1>5. PICK t \in {0, next} : users' = [users EXCEPT ![i] = row(t)]
  BY DEF ResetRequested, ResetExpires, Mint
<1>6. minted' \in {minted, next} /\ codes' = codes /\ req' = req /\ ended' = ended
  BY DEF ResetRequested, ResetExpires, Mint, History
<1>7. t \in Nat /\ next \in Nat
  BY <1>1
<1>8. row(t) \in Account /\ row(t).token = users[i].token /\ (row(t).token = next => minted' = next)
  BY <1>1, <1>3, <1>4, <1>7
<1>9. DOMAIN req' = Requests /\ \A r \in Requests : Known(req'[r])
  BY <1>1, <1>6
<1> HIDE DEF row, next
<1> QED
  BY <1>5, <1>6, <1>7, <1>8, <1>9, UpdateHolds DEF next

\* All the steps of Next.
LEMMA StepHolds == AccountsInv /\ [Next]_vars => AccountsInv'
<1> SUFFICES ASSUME AccountsInv, [Next]_vars PROVE AccountsInv'
  OBVIOUS
<1>1. ASSUME NEW r \in Requests, Proceed(r) PROVE AccountsInv'
  BY <1>1, RegisteredHolds, WriteHolds, BeginHolds DEF Proceed
<1>2. CASE UNCHANGED vars
  BY <1>2 DEF vars, AccountsInv, Shapes, Known, Ids, TokensInv, CodesMatchAccounts, CodesIn
<1> QED
  BY <1>1, <1>2, BeginHolds, RevokeHolds, ResetTokensHold DEF Next

-----------------------------------------------------------------------------

\* A code is spent if and only if an account was made with it, however many requests
\* run at once: the conditional UPDATE and the INSERT are one transaction (register).
THEOREM CodesAlwaysMatch == Spec => []CodesMatchAccounts
<1>1. AccountsInv => CodesMatchAccounts
  BY DEF AccountsInv
<1> QED
  BY <1>1, InitHolds, StepHolds, PTL DEF Spec

\* A token that was ended authenticates nobody, whatever requests wrote rows that
\* they had read before (logout, rotate_token, login, delete_account).
THEOREM EndedAlwaysDead == Spec => []EndedStaysDead
<1>1. AccountsInv => EndedStaysDead
  BY DEF AccountsInv, TokensInv, EndedStaysDead
<1> QED
  BY <1>1, InitHolds, StepHolds, PTL DEF Spec

-----------------------------------------------------------------------------
(* The login guard and the ceilings: what is shown to hold *)

\* The times that still count.
AttemptsNow(k) == Filter(attempts[k], Guard!Recent(AttemptWindow, now))
FailuresNow(k) == Filter(failures[k], Guard!Recent(FailureWindow, now))

\* What the guard counts of a key is its history; enough failures have locked it for
\* the base time from each of them, and for no longer than a next lockout would.
KeyInv(k) ==
    /\ attempts[k] \in Seq(Nat) /\ failures[k] \in Seq(Nat) /\ failed[k] \in Seq(Nat)
    /\ until[k] \in Nat /\ count[k] \in Nat
    /\ allowed[k] = AttemptsNow(k) /\ failed[k] = FailuresNow(k)
    /\ Len(allowed[k]) <= Guard!Cap(k)
    /\ \A i \in 1 .. Len(failed[k]) : failed[k][i] <= now
    /\ Len(failed[k]) >= MaxFailures =>
          \A i \in 1 .. Len(failed[k]) : until[k] >= failed[k][i] + BaseLockout
    /\ IF count[k] = 0 THEN until[k] = 0 ELSE until[k] <= now + Guard!Duration(count[k])

GuardInv == now \in Nat /\ \A k \in Guard!Keys : KeyInv(k)

\* The sends of S that have passed the check of a ceiling, or were sent within the window.
Gone(S, window, passed) ==
    {s \in S : progress[s] \in passed \/ (progress[s] = "done" /\ clock - at[s] <= window)}

\* These do not exceed the ceiling by more than the sends that were checked at once.
Within(S, cap, window, passed) ==
    cap # 0 => Cardinality(Rate!Messages(Gone(S, window, passed)))
                   <= cap + (MaxInFlight - 1) * MaxRecipients

AfterAgent == {"account", "day", "relay", "audit"}
AfterAccount == {"day", "relay", "audit"}
AfterDay == {"relay", "audit"}

RateInv ==
    /\ Rate!TypeOK
    /\ Within(FirstAgentSends, AgentCap, Window, AfterAgent)
    /\ Within(Sends \ FirstAgentSends, AgentCap, Window, AfterAgent)
    /\ Within(Sends, AccountCap, Window, AfterAccount)
    /\ Within(Sends, DayCap, Day, AfterDay)

-----------------------------------------------------------------------------
(* base * 2 ** n *)

\* The values of `time` up to n.
IsDoubling(f, n) == f = [i \in 0 .. n |-> IF i = 0 THEN BaseLockout ELSE 2 * f[i - 1]]

\* There is such a function.
LEMMA DoublingExists == \A n \in Nat : \E f : IsDoubling(f, n)
  <1> DEFINE P == {n \in Nat : \E f : IsDoubling(f, n)}
  <1>1. 0 \in P
    <2>1. IsDoubling([i \in 0 .. 0 |-> BaseLockout], 0)
      BY DEF IsDoubling
    <2> QED BY <2>1
  <1>2. ASSUME NEW n \in Nat, n \in P PROVE n + 1 \in P
    <2>1. PICK f : IsDoubling(f, n)
      BY <1>2
    <2> DEFINE g == [i \in 0 .. n + 1 |-> IF i = n + 1 THEN 2 * f[n] ELSE f[i]]
    <2>2. \A i \in 0 .. n + 1 : g[i] = IF i = 0 THEN BaseLockout ELSE 2 * g[i - 1]
      <3>1. \A i \in 0 .. n : f[i] = IF i = 0 THEN BaseLockout ELSE 2 * f[i - 1]
        BY <2>1 DEF IsDoubling
      <3> TAKE i \in 0 .. n + 1
      <3>2. CASE i = n + 1
        BY <3>2
      <3>3. CASE i \in 0 .. n /\ i # 0
        <4>1. g[i] = f[i] /\ g[i - 1] = f[i - 1]
          BY <3>3
        <4> QED BY <3>1, <3>3, <4>1
      <3>4. CASE i = 0
        BY <3>1, <3>4
      <3> QED BY <3>2, <3>3, <3>4
    <2>3. g = [i \in 0 .. n + 1 |-> g[i]]
      OBVIOUS
    <2> HIDE DEF g
    <2>4. IsDoubling(g, n + 1)
      BY <2>2, <2>3 DEF IsDoubling
    <2> QED BY <2>4
  <1> HIDE DEF P
  <1>3. Nat \subseteq P
    BY <1>1, <1>2, NatSetInduction
  <1> QED BY <1>3 DEF P

\* It is one and the same as far as two of them go, and never less than the base.
LEMMA DoublingAgrees ==
    ASSUME NEW f, NEW g, NEW m \in Nat, NEW n \in Nat, IsDoubling(f, m), IsDoubling(g, n)
    PROVE  \A k \in Nat : k <= m /\ k <= n => f[k] = g[k] /\ f[k] \in Nat /\ f[k] >= BaseLockout
  <1> DEFINE P == {k \in Nat : k <= m /\ k <= n => f[k] = g[k] /\ f[k] \in Nat /\ f[k] >= BaseLockout}
  <1>0. BaseLockout \in Nat
    BY LoginsAssumption DEF Guard!GuardAssumption
  <1>1. 0 \in P
    BY <1>0 DEF IsDoubling
  <1>2. ASSUME NEW k \in Nat, k \in P PROVE k + 1 \in P
    <2> SUFFICES ASSUME k + 1 <= m, k + 1 <= n
                 PROVE  f[k + 1] = g[k + 1] /\ f[k + 1] \in Nat /\ f[k + 1] >= BaseLockout
      OBVIOUS
    <2>1. f[k] = g[k] /\ f[k] \in Nat /\ f[k] >= BaseLockout
      BY <1>2
    <2>2. k + 1 \in 0 .. m /\ k + 1 \in 0 .. n /\ k + 1 # 0 /\ (k + 1) - 1 = k
      OBVIOUS
    <2>3. f[k + 1] = 2 * f[k] /\ g[k + 1] = 2 * g[k]
      BY <2>2 DEF IsDoubling
    <2> QED BY <1>0, <2>1, <2>3
  <1> HIDE DEF P
  <1>3. Nat \subseteq P
    BY <1>1, <1>2, NatSetInduction
  <1> QED BY <1>3 DEF P

\* A lockout lasts the base time at least, the longest at most, and never less than
\* the one before.
LEMMA DurationGrows ==
    \A n \in Nat \ {0} : /\ Guard!Duration(n) \in Nat /\ Guard!Duration(n) >= BaseLockout
                         /\ Guard!Duration(n) <= Guard!Duration(n + 1)
  <1> TAKE n \in Nat \ {0}
  <1> DEFINE f == CHOOSE h : IsDoubling(h, n - 1)
             g == CHOOSE h : IsDoubling(h, n)
  <1>1. n - 1 \in Nat /\ (n + 1) - 1 = n /\ n \in Nat
    OBVIOUS
  <1>2. IsDoubling(f, n - 1) /\ IsDoubling(g, n)
    BY <1>1, DoublingExists
  <1>3. Guard!Doubled(n - 1) = f[n - 1] /\ Guard!Doubled(n) = g[n]
    BY DEF Guard!Doubled, IsDoubling
  <1> HIDE DEF f, g
  <1>4. f[n - 1] = g[n - 1] /\ f[n - 1] \in Nat /\ f[n - 1] >= BaseLockout
    BY <1>1, <1>2, DoublingAgrees
  <1>5. g[n] = 2 * g[n - 1]
    BY <1>1, <1>2 DEF IsDoubling
  <1>6. BaseLockout \in Nat /\ MaxLockout \in Nat /\ BaseLockout <= MaxLockout
    BY LoginsAssumption DEF Guard!GuardAssumption
  <1> QED BY <1>1, <1>3, <1>4, <1>5, <1>6 DEF Guard!Duration

-----------------------------------------------------------------------------
(* The steps of the guard *)

\* The operators of the instance are the ones about which the lemmas are.
LEMMA GuardFilter == \A s, T : Guard!Filter(s, T) = Filter(s, T)
  BY DEF Guard!Filter, Filter

\* The bounds of the guard.
LEMMA GuardBounds ==
    /\ AttemptWindow \in Nat \ {0} /\ FailureWindow \in Nat \ {0} /\ MaxFailures \in Nat \ {0}
    /\ BaseLockout \in Nat /\ MaxPerIp \in Nat /\ MaxPerAccount \in Nat /\ Ips \cap Targets = {}
  BY LoginsAssumption DEF Guard!GuardAssumption

\* A bucket that has been pruned stays as it is, also with the present time added.
LEMMA Pruned ==
    ASSUME NEW b \in Seq(Nat), NEW w \in Nat \ {0}, now \in Nat
    PROVE  LET p == Filter(b, Guard!Recent(w, now))
           IN  /\ Guard!Prune(b, w) = p /\ p \in Seq(Nat) /\ Append(p, now) \in Seq(Nat)
               /\ Filter(p, Guard!Recent(w, now)) = p
               /\ Filter(Append(p, now), Guard!Recent(w, now)) = Append(p, now)
  <1> DEFINE R == Guard!Recent(w, now)
             p == Filter(b, R)
  <1>1. Guard!Prune(b, w) = p
    BY GuardFilter DEF Guard!Prune
  <1>2. now \in R
    BY DEF Guard!Recent
  <1> HIDE DEF R
  <1>3. p \in Seq(Nat)
    BY FilterKeepsType
  <1>4. Filter(p, R) = p
    <2>1. Filter(Filter(b, R), R) = Filter(b, R \cap R)
      BY FilterTwice
    <2>2. R \cap R = R
      OBVIOUS
    <2> QED BY <2>1, <2>2
  <1> HIDE DEF p
  <1>5. Filter(Append(p, now), R) = IF now \in R THEN Append(Filter(p, R), now) ELSE Filter(p, R)
    BY <1>3, FilterOfAppend
  <1> QED BY <1>1, <1>2, <1>3, <1>4, <1>5 DEF p, R

\* A second later.
LEMMA Aged ==
    ASSUME now \in Nat, now' = now + 1, NEW b \in Seq(Nat), NEW w \in Nat \ {0}, NEW p, NEW q,
           p = Filter(b, Guard!Recent(w, now)), q = Filter(b, Guard!Recent(w, now'))
    PROVE  /\ Filter(p, Guard!Recent(w, now')) = q /\ Len(q) <= Len(p)
           /\ q \in Seq(Nat) /\ \A i \in DOMAIN q : \E j \in DOMAIN p : p[j] = q[i]
  <1> DEFINE R == Guard!Recent(w, now)
             T == Guard!Recent(w, now')
  <1>1. R \cap T = T
    BY DEF Guard!Recent
  <1> HIDE DEF R, T
  <1>2. Filter(p, T) = Filter(b, R \cap T)
    BY FilterTwice DEF R
  <1>3. p \in Seq(Nat)
    BY FilterKeepsType
  <1>4. Filter(p, T) \in Seq(Nat) /\ Len(Filter(p, T)) <= Len(p)
    BY <1>3, FilterKeepsType
  <1>5. \A i \in DOMAIN Filter(p, T) : \E j \in DOMAIN p : p[j] = Filter(p, T)[i]
    BY <1>3, FilterTakes
  <1>6. q = Filter(b, T)
    BY DEF T
  <1>7. Filter(p, T) = q
    BY <1>1, <1>2, <1>6
  <1>8. /\ Len(q) <= Len(p) /\ q \in Seq(Nat)
        /\ \A i \in DOMAIN q : \E j \in DOMAIN p : p[j] = q[i]
    BY <1>4, <1>5, <1>7
  <1> QED BY <1>7, <1>8 DEF T

\* Nothing is counted at first.
LEMMA GuardInit == Guard!Init => GuardInv
  <1> SUFFICES ASSUME Guard!Init, NEW k \in Guard!Keys PROVE now \in Nat /\ KeyInv(k)
    BY DEF GuardInv, Guard!Init
  <1>1. /\ now = 0 /\ attempts[k] = <<>> /\ failures[k] = <<>> /\ failed[k] = <<>> /\ allowed[k] = <<>>
        /\ until[k] = 0 /\ count[k] = 0
    BY DEF Guard!Init
  <1>2. AttemptsNow(k) = <<>> /\ FailuresNow(k) = <<>>
    BY <1>1, FilterOfEmpty DEF AttemptsNow, FailuresNow
  <1>3. Guard!Cap(k) \in Nat
    BY GuardBounds DEF Guard!Cap
  <1> QED BY <1>1, <1>2, <1>3, GuardBounds DEF KeyInv

\* What is left alone stays true.
LEMMA SameKey ==
    ASSUME NEW k \in Guard!Keys, now' = now, KeyInv(k),
           attempts'[k] = attempts[k], failures'[k] = failures[k], failed'[k] = failed[k],
           allowed'[k] = allowed[k], until'[k] = until[k], count'[k] = count[k]
    PROVE  KeyInv(k)'
  BY DEF KeyInv, AttemptsNow, FailuresNow, Guard!Cap, Guard!Recent, Guard!Duration, Guard!Doubled

\* An attempt is reserved, or there have been too many.
LEMMA AttemptHolds ==
    ASSUME GuardInv, NEW l \in Logins, NEW ip \in Ips, NEW account \in Targets,
           Guard!StartAttempt(l, ip, account)
    PROVE  GuardInv'
  <1>1. UNCHANGED <<now, failures, until, count, failed>> /\ now \in Nat
    BY DEF Guard!StartAttempt, GuardInv
  <1> SUFFICES ASSUME NEW k \in Guard!Keys PROVE KeyInv(k)'
    BY <1>1 DEF GuardInv
  <1> DEFINE p == Filter(attempts[k], Guard!Recent(AttemptWindow, now))
  <1>2. KeyInv(k) /\ allowed[k] = p /\ attempts[k] \in Seq(Nat)
    BY DEF GuardInv, KeyInv, AttemptsNow
  <1>3. /\ Guard!Prune(attempts[k], AttemptWindow) = p /\ p \in Seq(Nat) /\ Append(p, now) \in Seq(Nat)
        /\ Filter(p, Guard!Recent(AttemptWindow, now)) = p
        /\ Filter(Append(p, now), Guard!Recent(AttemptWindow, now)) = Append(p, now)
    BY <1>1, <1>2, Pruned, GuardBounds
  <1>4. CASE k \notin {ip, account}
    <2>1. attempts'[k] = attempts[k] /\ allowed'[k] = allowed[k]
      BY <1>4 DEF Guard!StartAttempt
    <2> QED BY <1>1, <1>2, <2>1, SameKey
  <1>5. CASE k \in {ip, account}
    <2>1. \/ attempts'[k] = p /\ allowed'[k] = allowed[k]
          \/ attempts'[k] = Append(p, now) /\ allowed'[k] = Append(p, now) /\ Len(p) < Guard!Cap(k)
      <3> DEFINE pruned == [j \in Guard!Keys |-> IF j \in {ip, account} THEN Guard!Prune(attempts[j], AttemptWindow)
                                                 ELSE attempts[j]]
      <3>1. pruned[k] = p
        BY <1>3, <1>5
      <3>2. CASE Len(pruned[ip]) >= MaxPerIp \/ Len(pruned[account]) >= MaxPerAccount
        BY <3>1, <3>2 DEF Guard!StartAttempt
      <3>3. CASE ~(Len(pruned[ip]) >= MaxPerIp \/ Len(pruned[account]) >= MaxPerAccount)
        <4>1. attempts'[k] = Append(pruned[k], now) /\ allowed'[k] = Append(allowed[k], now)
          BY <1>5, <3>3 DEF Guard!StartAttempt
        <4>2. Guard!Cap(k) = IF k = ip THEN MaxPerIp ELSE MaxPerAccount
          BY <1>5, GuardBounds DEF Guard!Cap
        <4>3. Len(p) \in Nat
          BY <1>3
        <4>4. Len(p) < Guard!Cap(k)
          BY <1>5, <3>1, <3>3, <4>2, <4>3, GuardBounds
        <4> QED BY <1>2, <3>1, <4>1, <4>4
      <3> QED BY <3>2, <3>3
    <2>2. /\ attempts'[k] \in Seq(Nat) /\ AttemptsNow(k)' = attempts'[k] /\ allowed'[k] = attempts'[k]
          /\ Len(allowed'[k]) <= Guard!Cap(k)
      <3>1. Guard!Cap(k) \in Nat
        BY GuardBounds DEF Guard!Cap
      <3>2. Len(Append(p, now)) = Len(p) + 1 /\ Len(p) \in Nat
        BY <1>1, <1>3
      <3>3. Filter(attempts'[k], Guard!Recent(AttemptWindow, now)) = attempts'[k]
        BY <1>3, <2>1
      <3>4. AttemptsNow(k)' = Filter(attempts'[k], Guard!Recent(AttemptWindow, now))
        BY <1>1 DEF AttemptsNow, Guard!Recent
      <3>5. attempts'[k] \in Seq(Nat) /\ allowed'[k] = attempts'[k]
        BY <1>2, <1>3, <2>1
      <3>6. Len(p) <= Guard!Cap(k)
        BY <1>2 DEF KeyInv
      <3> HIDE DEF p
      <3>7. Len(allowed'[k]) <= Guard!Cap(k)
        BY <1>2, <2>1, <3>1, <3>2, <3>6
      <3> QED BY <3>3, <3>4, <3>5, <3>7
    <2> QED BY <1>1, <1>2, <2>2 DEF KeyInv, FailuresNow, Guard!Cap, Guard!Recent, Guard!Duration, Guard!Doubled
  <1> QED BY <1>4, <1>5

\* A success forgets the failures and the lockout; a login that is given up leaves all.
LEMMA SuccessHolds ==
    ASSUME GuardInv, NEW l \in Logins, Guard!RecordSuccess(l) \/ Guard!Abandon(l) PROVE GuardInv'
  <1>1. UNCHANGED <<now, attempts, count, allowed>> /\ now \in Nat
    BY DEF Guard!RecordSuccess, Guard!Abandon, GuardInv
  <1> SUFFICES ASSUME NEW k \in Guard!Keys PROVE KeyInv(k)'
    BY <1>1 DEF GuardInv
  <1>2. KeyInv(k)
    BY DEF GuardInv
  <1>3. \/ failures'[k] = failures[k] /\ failed'[k] = failed[k] /\ until'[k] = until[k]
        \/ failures'[k] = <<>> /\ failed'[k] = <<>> /\ until'[k] = 0
    BY DEF Guard!RecordSuccess, Guard!Abandon, Guard!Clear
  <1>4. CASE failures'[k] = <<>> /\ failed'[k] = <<>> /\ until'[k] = 0
    <2>1. FailuresNow(k)' = <<>>
      BY <1>4, FilterOfEmpty DEF FailuresNow
    <2>2. count[k] \in Nat \ {0} => Guard!Duration(count[k]) \in Nat
      BY DurationGrows
    <2>3. IF count'[k] = 0 THEN until'[k] = 0 ELSE until'[k] <= now' + Guard!Duration(count[k])
      BY <1>1, <1>2, <1>4, <2>2 DEF KeyInv
    <2>4. AttemptsNow(k)' = AttemptsNow(k) /\ Guard!Duration(count[k])' = Guard!Duration(count'[k])
          /\ Guard!Cap(k)' = Guard!Cap(k)
      BY <1>1 DEF AttemptsNow, Guard!Recent, Guard!Duration, Guard!Doubled, Guard!Cap
    <2> QED BY <1>1, <1>2, <1>4, <2>1, <2>3, <2>4, GuardBounds DEF KeyInv
  <1> QED BY <1>1, <1>2, <1>3, <1>4, SameKey

\* A failure is counted, and locks if it is one too many.
LEMMA FailureHolds ==
    ASSUME GuardInv, NEW l \in Logins, Guard!RecordFailure(l)
    PROVE  GuardInv' /\ \A k \in Guard!Keys : until'[k] >= until[k]
  <1>1. UNCHANGED <<now, attempts, allowed>> /\ now \in Nat
    BY DEF Guard!RecordFailure, GuardInv
  <1> SUFFICES ASSUME NEW k \in Guard!Keys PROVE KeyInv(k)' /\ until'[k] >= until[k]
    BY <1>1 DEF GuardInv
  <1> DEFINE p == Filter(failures[k], Guard!Recent(FailureWindow, now))
             K == Guard!KeysOf(l)
             locked == k \in K /\ Len(Append(p, now)) >= MaxFailures
  <1>2. KeyInv(k) /\ failed[k] = p /\ failures[k] \in Seq(Nat) /\ until[k] \in Nat /\ count[k] \in Nat
    BY DEF GuardInv, KeyInv, FailuresNow
  <1>3. /\ Guard!Prune(failures[k], FailureWindow) = p /\ p \in Seq(Nat) /\ Append(p, now) \in Seq(Nat)
        /\ Filter(p, Guard!Recent(FailureWindow, now)) = p
        /\ Filter(Append(p, now), Guard!Recent(FailureWindow, now)) = Append(p, now)
    BY <1>1, <1>2, Pruned, GuardBounds
  <1>4. /\ failures'[k] = IF k \in K THEN Append(p, now) ELSE failures[k]
        /\ failed'[k] = IF k \in K THEN Append(p, now) ELSE p
        /\ count'[k] = IF locked THEN count[k] + 1 ELSE count[k]
        /\ until'[k] = IF locked THEN now + Guard!Duration(count[k] + 1) ELSE until[k]
    BY <1>2, <1>3 DEF Guard!RecordFailure, Guard!LockedOut
  <1>5. CASE k \notin K
    BY <1>1, <1>2, <1>4, <1>5, SameKey
  <1>6. CASE k \in K
    <2>1. failed'[k] = Append(p, now) /\ failures'[k] = Append(p, now) /\ FailuresNow(k)' = Append(p, now)
      BY <1>1, <1>3, <1>4, <1>6 DEF FailuresNow, Guard!Recent
    <2>2. Len(p) \in Nat /\ Len(Append(p, now)) = Len(p) + 1 /\ MaxFailures \in Nat
      BY <1>1, <1>3, GuardBounds
    <2>3. \A i \in 1 .. Len(Append(p, now)) : Append(p, now)[i] <= now
      <3>1. \A i \in 1 .. Len(p) : p[i] <= now
        BY <1>2 DEF KeyInv
      <3> QED BY <1>1, <1>3, <2>2, <3>1
    <2>4. Guard!Duration(count[k] + 1) \in Nat /\ Guard!Duration(count[k] + 1) >= BaseLockout
          /\ (count[k] # 0 => Guard!Duration(count[k] + 1) >= Guard!Duration(count[k])
                              /\ Guard!Duration(count[k]) \in Nat)
      <3>1. count[k] + 1 \in Nat \ {0} /\ (count[k] # 0 => count[k] \in Nat \ {0})
        BY <1>2
      <3>2. Guard!Duration(count[k] + 1) \in Nat /\ Guard!Duration(count[k] + 1) >= BaseLockout
        BY <3>1, DurationGrows
      <3>3. count[k] # 0 => Guard!Duration(count[k]) <= Guard!Duration(count[k] + 1)
                            /\ Guard!Duration(count[k]) \in Nat
        BY <3>1, DurationGrows
      <3> QED BY <3>2, <3>3
    <2>5. until'[k] >= until[k] /\ until'[k] \in Nat /\ count'[k] \in Nat
      <3>1. IF count[k] = 0 THEN until[k] = 0 ELSE until[k] <= now + Guard!Duration(count[k])
        BY <1>2 DEF KeyInv
      <3> HIDE DEF locked
      <3>2. count'[k] \in Nat
        BY <1>2, <1>4
      <3>3. until[k] <= now + Guard!Duration(count[k] + 1)
        BY <1>1, <1>2, <2>4, <3>1
      <3>4. until'[k] = until[k] \/ until'[k] = now + Guard!Duration(count[k] + 1)
        BY <1>4
      <3> QED BY <1>1, <1>2, <2>4, <3>2, <3>3, <3>4
    <2>6. IF count'[k] = 0 THEN until'[k] = 0 ELSE until'[k] <= now + Guard!Duration(count'[k])
      BY <1>1, <1>2, <1>4, <2>4 DEF KeyInv
    <2>7. Len(Append(p, now)) >= MaxFailures =>
             \A i \in 1 .. Len(Append(p, now)) : until'[k] >= Append(p, now)[i] + BaseLockout
      <3> SUFFICES ASSUME Len(Append(p, now)) >= MaxFailures, NEW i \in 1 .. Len(Append(p, now))
                   PROVE  until'[k] >= Append(p, now)[i] + BaseLockout
        OBVIOUS
      <3>1. until'[k] = now + Guard!Duration(count[k] + 1)
        BY <1>4, <1>6
      <3>2. Append(p, now)[i] <= now /\ Append(p, now)[i] \in Nat
        BY <1>3, <2>3
      <3> QED BY <1>1, <2>4, <3>1, <3>2, GuardBounds
    <2>8. AttemptsNow(k)' = AttemptsNow(k) /\ Guard!Duration(count[k])' = Guard!Duration(count'[k])
          /\ Guard!Cap(k)' = Guard!Cap(k)
      BY <1>1 DEF AttemptsNow, Guard!Recent, Guard!Duration, Guard!Doubled, Guard!Cap
    <2> HIDE DEF p
    <2>9. KeyInv(k)'
      BY <1>1, <1>2, <1>3, <2>1, <2>3, <2>5, <2>6, <2>7, <2>8 DEF KeyInv
    <2> QED BY <2>5, <2>9
  <1> QED BY <1>2, <1>4, <1>5, <1>6

\* Time goes on, and windows slide.
LEMMA TickHolds == ASSUME GuardInv, Guard!Tick PROVE GuardInv' /\ UNCHANGED until
  <1>1. /\ UNCHANGED <<attempts, failures, until, count>> /\ now \in Nat /\ now' = now + 1
    BY DEF Guard!Tick, GuardInv
  <1> SUFFICES ASSUME NEW k \in Guard!Keys PROVE KeyInv(k)'
    BY <1>1 DEF GuardInv
  <1>2. KeyInv(k) /\ attempts[k] \in Seq(Nat) /\ failures[k] \in Seq(Nat)
    BY DEF GuardInv, KeyInv
  <1>3. /\ allowed'[k] = Filter(AttemptsNow(k), Guard!Recent(AttemptWindow, now'))
        /\ failed'[k] = Filter(FailuresNow(k), Guard!Recent(FailureWindow, now'))
    BY <1>2, GuardFilter DEF Guard!Tick, KeyInv
  <1>4. /\ AttemptsNow(k)' = Filter(attempts[k], Guard!Recent(AttemptWindow, now'))
        /\ FailuresNow(k)' = Filter(failures[k], Guard!Recent(FailureWindow, now'))
    BY <1>1 DEF AttemptsNow, FailuresNow, Guard!Recent
  <1>5. allowed'[k] = AttemptsNow(k)' /\ Len(allowed'[k]) <= Len(AttemptsNow(k)) /\ allowed'[k] \in Seq(Nat)
    <2> DEFINE a == AttemptsNow(k)
               q == Filter(attempts[k], Guard!Recent(AttemptWindow, now'))
    <2>1. a = Filter(attempts[k], Guard!Recent(AttemptWindow, now))
      BY DEF AttemptsNow
    <2>2. q = Filter(attempts[k], Guard!Recent(AttemptWindow, now'))
      OBVIOUS
    <2>3. attempts[k] \in Seq(Nat) /\ AttemptWindow \in Nat \ {0} /\ now \in Nat /\ now' = now + 1
      BY <1>1, <1>2, GuardBounds
    <2> HIDE DEF a, q
    <2>4. Filter(a, Guard!Recent(AttemptWindow, now')) = q /\ Len(q) <= Len(a) /\ q \in Seq(Nat)
      BY <2>1, <2>2, <2>3, Aged
    <2>5. allowed'[k] = q /\ AttemptsNow(k)' = q
      BY <1>3, <1>4, <2>2, <2>4 DEF a
    <2> QED BY <2>4, <2>5 DEF a
  <1>6. /\ failed'[k] = FailuresNow(k)' /\ Len(failed'[k]) <= Len(FailuresNow(k)) /\ failed'[k] \in Seq(Nat)
        /\ \A i \in DOMAIN failed'[k] : \E j \in DOMAIN FailuresNow(k) : FailuresNow(k)[j] = failed'[k][i]
    <2> DEFINE f == FailuresNow(k)
               q == Filter(failures[k], Guard!Recent(FailureWindow, now'))
    <2>1. f = Filter(failures[k], Guard!Recent(FailureWindow, now))
      BY DEF FailuresNow
    <2>2. q = Filter(failures[k], Guard!Recent(FailureWindow, now'))
      OBVIOUS
    <2>3. failures[k] \in Seq(Nat) /\ FailureWindow \in Nat \ {0} /\ now \in Nat /\ now' = now + 1
      BY <1>1, <1>2, GuardBounds
    <2> HIDE DEF f, q
    <2>4. /\ Filter(f, Guard!Recent(FailureWindow, now')) = q /\ Len(q) <= Len(f)
          /\ q \in Seq(Nat) /\ \A i \in DOMAIN q : \E j \in DOMAIN f : f[j] = q[i]
      BY <2>1, <2>2, <2>3, Aged
    <2>5. failed'[k] = q /\ FailuresNow(k)' = q
      BY <1>3, <1>4, <2>2, <2>4 DEF f
    <2> QED BY <2>4, <2>5 DEF f
  <1>7. /\ allowed[k] = AttemptsNow(k) /\ failed[k] = FailuresNow(k) /\ failed[k] \in Seq(Nat)
        /\ Len(AttemptsNow(k)) \in Nat
    <2>1. AttemptsNow(k) \in Seq(Nat)
      BY <1>2, FilterKeepsType DEF AttemptsNow
    <2> QED BY <1>2, <2>1 DEF KeyInv
  <1>8. Len(allowed'[k]) <= Guard!Cap(k)
    <2>1. Guard!Cap(k) \in Nat
      BY GuardBounds DEF Guard!Cap
    <2> QED BY <1>2, <1>5, <1>7, <2>1 DEF KeyInv
  <1>9. \A i \in 1 .. Len(failed'[k]) : failed'[k][i] <= now'
    <2> TAKE i \in 1 .. Len(failed'[k])
    <2>1. PICK j \in 1 .. Len(failed[k]) : failed[k][j] = failed'[k][i]
      <3>1. DOMAIN failed[k] = 1 .. Len(failed[k]) /\ DOMAIN failed'[k] = 1 .. Len(failed'[k])
        BY <1>6, <1>7
      <3>2. i \in DOMAIN failed'[k]
        BY <3>1
      <3>3. \E j \in DOMAIN failed[k] : failed[k][j] = failed'[k][i]
        BY <1>6, <1>7, <3>2
      <3> QED BY <3>1, <3>3
    <2> QED BY <1>1, <1>2, <1>7, <2>1 DEF KeyInv
  <1>10. Len(failed'[k]) >= MaxFailures =>
            \A i \in 1 .. Len(failed'[k]) : until[k] >= failed'[k][i] + BaseLockout
    <2> SUFFICES ASSUME Len(failed'[k]) >= MaxFailures, NEW i \in 1 .. Len(failed'[k])
                 PROVE  until[k] >= failed'[k][i] + BaseLockout
      OBVIOUS
    <2>1. PICK j \in 1 .. Len(failed[k]) : failed[k][j] = failed'[k][i]
      <3>1. DOMAIN failed[k] = 1 .. Len(failed[k]) /\ DOMAIN failed'[k] = 1 .. Len(failed'[k])
        BY <1>6, <1>7
      <3>2. i \in DOMAIN failed'[k]
        BY <3>1
      <3>3. \E j \in DOMAIN failed[k] : failed[k][j] = failed'[k][i]
        BY <1>6, <1>7, <3>2
      <3> QED BY <3>1, <3>3
    <2>2. Len(failed[k]) >= MaxFailures
      BY <1>6, <1>7, GuardBounds
    <2> QED BY <1>2, <2>1, <2>2 DEF KeyInv
  <1>11. IF count[k] = 0 THEN until[k] = 0 ELSE until[k] <= now' + Guard!Duration(count[k])
    <2>1. count[k] \in Nat /\ (count[k] # 0 => Guard!Duration(count[k]) \in Nat)
      BY <1>2, DurationGrows DEF KeyInv
    <2> QED BY <1>1, <1>2, <2>1 DEF KeyInv
  <1>12. Guard!Duration(count[k])' = Guard!Duration(count'[k]) /\ Guard!Cap(k)' = Guard!Cap(k)
    BY <1>1 DEF Guard!Duration, Guard!Doubled, Guard!Cap
  <1> QED BY <1>1, <1>2, <1>5, <1>6, <1>8, <1>9, <1>10, <1>11, <1>12 DEF KeyInv

\* All the steps of the guard: they keep the invariant and shorten no lockout.
LEMMA GuardStep ==
    ASSUME GuardInv, [Guard!Next]_guardVars
    PROVE  GuardInv' /\ \A k \in Guard!Keys : until'[k] >= until[k] \/ failed'[k] = <<>>
  <1>0. \A k \in Guard!Keys : until[k] \in Nat
    BY DEF GuardInv, KeyInv
  <1>1. CASE UNCHANGED guardVars
    <2>1. \A k \in Guard!Keys : KeyInv(k)'
      BY <1>1, SameKey DEF guardVars, GuardInv
    <2> QED BY <1>0, <1>1, <2>1 DEF guardVars, GuardInv
  <1>2. CASE Guard!Tick
    BY <1>0, <1>2, TickHolds
  <1>3. ASSUME NEW l \in Logins, NEW ip \in Ips, NEW account \in Targets, Guard!StartAttempt(l, ip, account)
        PROVE  GuardInv' /\ UNCHANGED until
    BY <1>3, AttemptHolds DEF Guard!StartAttempt
  <1>4. ASSUME NEW l \in Logins, Guard!RecordSuccess(l) \/ Guard!Abandon(l)
        PROVE  \A k \in Guard!Keys : until'[k] = until[k] \/ failed'[k] = <<>>
    BY <1>4 DEF Guard!RecordSuccess, Guard!Abandon, Guard!Clear
  <1> QED BY <1>0, <1>1, <1>2, <1>3, <1>4, SuccessHolds, FailureHolds DEF Guard!Next

\* What the invariant says of attempts and of lockouts.
LEMMA GuardIsTrue == GuardInv => Guard!AttemptsBounded /\ Guard!FailuresLock
  <1> SUFFICES ASSUME GuardInv, NEW k \in Guard!Keys
               PROVE  /\ Len(allowed[k]) <= Guard!Cap(k)
                      /\ Len(failed[k]) >= MaxFailures => until[k] >= Guard!Last(failed[k]) + BaseLockout
    BY DEF Guard!AttemptsBounded, Guard!FailuresLock
  <1>1. KeyInv(k)
    BY DEF GuardInv
  <1>2. Len(failed[k]) >= MaxFailures => Len(failed[k]) \in 1 .. Len(failed[k])
    BY <1>1, GuardBounds DEF KeyInv
  <1> QED BY <1>1, <1>2 DEF KeyInv, Guard!Last

-----------------------------------------------------------------------------
(* How many messages a set of sends counts *)

Moving == {s \in Sends : progress[s] \in Rate!InFlight}

\* The operators of the instance are the ones about which the lemmas are.
LEMMA RateCardinality == \A S : Rate!Cardinality(S) = Cardinality(S)
  BY DEF Rate!Cardinality, Cardinality

\* The bounds of the ceilings.
LEMMA RateBounds ==
    /\ {AgentCap, AccountCap, DayCap} \subseteq Nat /\ {Window, Day} \subseteq Nat
    /\ MaxRecipients \in Nat \ {0} /\ MaxInFlight \in Nat \ {0} /\ MaxSendTime \in Nat
    /\ FirstAgentSends \subseteq Sends /\ IsFiniteSet(Sends)
  BY RateAssumption DEF Rate!SendsAssumption, Rate!LimitsAssumption, Rate!IsFiniteSet, IsFiniteSet

\* A product grows with its factor.
LEMMA Times == ASSUME NEW a \in Nat, NEW b \in Nat, a <= b, NEW m \in Nat PROVE a * m \in Nat /\ a * m <= b * m
  <1> DEFINE P == {n \in Nat : a * n \in Nat /\ b * n \in Nat /\ a * n <= b * n}
  <1>1. 0 \in P
    OBVIOUS
  <1>2. ASSUME NEW n \in Nat, n \in P PROVE n + 1 \in P
    <2>1. a * (n + 1) = a * n + a /\ b * (n + 1) = b * n + b
      OBVIOUS
    <2> QED BY <1>2, <2>1
  <1> HIDE DEF P
  <1>3. Nat \subseteq P
    BY <1>1, <1>2, NatSetInduction
  <1> QED BY <1>3 DEF P

\* As many numbers from one as the last says.
LEMMA UpTo == \A n \in Nat : IsFiniteSet(1 .. n) /\ Cardinality(1 .. n) = n
  <1> TAKE n \in Nat
  <1>1. 1 \in Int /\ n \in Int
    OBVIOUS
  <1>2. IsFiniteSet(1 .. n) /\ Cardinality(1 .. n) = IF 1 > n THEN 0 ELSE n - 1 + 1
    BY ONLY <1>1, FS_Interval
  <1> QED BY <1>2

\* Two sets together have no more elements than both.
LEMMA UnionIsFew ==
    ASSUME NEW S, NEW T, IsFiniteSet(S), IsFiniteSet(T)
    PROVE  IsFiniteSet(S \cup T) /\ Cardinality(S \cup T) <= Cardinality(S) + Cardinality(T)
  <1>1. IsFiniteSet(S \cup T) /\ Cardinality(S \cup T) = Cardinality(S) + Cardinality(T) - Cardinality(S \cap T)
    BY FS_Union
  <1>2. IsFiniteSet(S \cap T)
    BY FS_Intersection
  <1>3. Cardinality(S) \in Nat /\ Cardinality(T) \in Nat /\ Cardinality(S \cap T) \in Nat
    BY <1>2, FS_CardinalityType
  <1> QED BY <1>1, <1>3

\* The messages of some sends are finitely many, at most so many of each send.
LEMMA FewMessages ==
    ASSUME NEW S, S \subseteq Sends
    PROVE  /\ IsFiniteSet(S) /\ Cardinality(S) \in Nat
           /\ IsFiniteSet(Rate!Messages(S)) /\ Cardinality(Rate!Messages(S)) \in Nat
           /\ Cardinality(Rate!Messages(S)) <= Cardinality(S) * MaxRecipients
  <1> DEFINE Pairs == S \X (1 .. MaxRecipients)
  <1>1. IsFiniteSet(S) /\ Cardinality(S) \in Nat
    BY RateBounds, FS_Subset, FS_CardinalityType
  <1>2. IsFiniteSet(1 .. MaxRecipients) /\ Cardinality(1 .. MaxRecipients) = MaxRecipients
    BY RateBounds, UpTo
  <1>3. IsFiniteSet(Pairs) /\ Cardinality(Pairs) = Cardinality(S) * MaxRecipients
    BY <1>1, <1>2, FS_Product
  <1>4. Rate!Messages(S) \in SUBSET Pairs
    BY DEF Rate!Messages
  <1> HIDE DEF Pairs
  <1>5. IsFiniteSet(Rate!Messages(S)) /\ Cardinality(Rate!Messages(S)) <= Cardinality(Pairs)
    BY <1>3, <1>4, FS_Subset
  <1> QED BY <1>1, <1>3, <1>5, FS_CardinalityType

\* The messages of one send are its recipients.
LEMMA OneSend ==
    ASSUME NEW s \in Sends, recipients[s] \in 0 .. MaxRecipients
    PROVE  Cardinality(Rate!Messages({s})) <= recipients[s]
  <1> DEFINE One == {s} \X (1 .. recipients[s])
  <1>1. IsFiniteSet({s}) /\ Cardinality({s}) = 1
    BY FS_Singleton
  <1>2. IsFiniteSet(1 .. recipients[s]) /\ Cardinality(1 .. recipients[s]) = recipients[s]
    BY RateBounds, UpTo
  <1>3. IsFiniteSet(One) /\ Cardinality(One) = 1 * recipients[s]
    BY <1>1, <1>2, FS_Product
  <1>4. Rate!Messages({s}) \in SUBSET One
    BY RateBounds DEF Rate!Messages
  <1> HIDE DEF One
  <1>5. Cardinality(Rate!Messages({s})) <= Cardinality(One)
    BY <1>3, <1>4, FS_Subset
  <1> QED BY <1>3, <1>5

\* If no send is gone that was not, a ceiling stays within its bounds.
LEMMA FewerGone ==
    ASSUME NEW S, S \subseteq Sends, NEW cap \in Nat, NEW window, NEW passed,
           Within(S, cap, window, passed),
           Gone(S, window, passed)' \subseteq Gone(S, window, passed),
           \A s \in Gone(S, window, passed)' : recipients'[s] = recipients[s]
    PROVE  Within(S, cap, window, passed)'
  <1> DEFINE msgs == Rate!Messages(Gone(S, window, passed))
  <1>1. msgs' \in SUBSET msgs
    BY DEF Rate!Messages
  <1>2. IsFiniteSet(msgs) /\ Cardinality(msgs) \in Nat
    <2>1. Gone(S, window, passed) \subseteq Sends
      BY DEF Gone
    <2> QED BY <2>1, FewMessages
  <1>3. (MaxInFlight - 1) * MaxRecipients \in Nat
    BY RateBounds, Times
  <1> SUFFICES ASSUME cap # 0 PROVE Cardinality(msgs') <= cap + (MaxInFlight - 1) * MaxRecipients
    BY DEF Within
  <1>4. Cardinality(msgs) <= cap + (MaxInFlight - 1) * MaxRecipients
    BY DEF Within
  <1>5. IsFiniteSet(msgs') /\ Cardinality(msgs') <= Cardinality(msgs)
    <2> DEFINE after == msgs'
    <2>1. after \in SUBSET msgs
      BY <1>1
    <2> HIDE DEF msgs, after
    <2>2. IsFiniteSet(after) /\ Cardinality(after) <= Cardinality(msgs)
      BY <1>2, <2>1, FS_Subset
    <2> QED BY <2>2 DEF after
  <1>6. Cardinality(msgs') \in Nat
    BY <1>5, FS_CardinalityType
  <1> HIDE DEF msgs
  <1> QED BY <1>2, <1>3, <1>4, <1>5, <1>6

\* A send that is allowed was counted with all that are recorded; of the others in
\* flight each may have passed before.
LEMMA OneMore ==
    ASSUME Rate!TypeOK, NEW S, S \subseteq Sends, NEW s \in S, NEW cap \in Nat, NEW window \in Nat, NEW passed,
           passed \subseteq Rate!InFlight, progress[s] \in Rate!InFlight \ passed,
           cap = 0 \/ Rate!Counted(S, at[s], window) + recipients[s] <= cap,
           Gone(S, window, passed)' \subseteq Gone(S, window, passed) \cup {s},
           recipients' = recipients
    PROVE  Within(S, cap, window, passed)'
  <1> DEFINE done == {x \in S : progress[x] = "done" /\ at[x] + window >= at[s]}
             others == {x \in Moving : x # s}
             M(T) == Rate!Messages(T)
  <1> SUFFICES ASSUME cap # 0
               PROVE  Cardinality(Rate!Messages(Gone(S, window, passed))')
                          <= cap + (MaxInFlight - 1) * MaxRecipients
    BY DEF Within
  <1>1. /\ s \in Sends /\ s \in Moving /\ recipients[s] \in 0 .. MaxRecipients
        /\ clock \in Nat /\ \A x \in Sends : at[x] \in Nat /\ at[x] <= clock
    BY RateBounds DEF Rate!TypeOK, Moving
  <1>2. Gone(S, window, passed) \subseteq done \cup others
    <2> SUFFICES ASSUME NEW x \in Gone(S, window, passed) PROVE x \in done \cup others
      OBVIOUS
    <2>1. CASE progress[x] \in passed
      BY <2>1 DEF Gone, Moving
    <2>2. CASE progress[x] = "done" /\ clock - at[x] <= window
      BY <1>1, <2>2 DEF Gone
    <2> QED BY <2>1, <2>2 DEF Gone
  <1>3. Rate!Messages(Gone(S, window, passed))' \in SUBSET (M(done) \cup (M({s}) \cup M(others)))
    BY <1>2 DEF Rate!Messages
  <1>4. Cardinality(M(done)) + recipients[s] <= cap /\ IsFiniteSet(M(done)) /\ Cardinality(M(done)) \in Nat
    <2>1. done \subseteq Sends
      OBVIOUS
    <2>2. Rate!Counted(S, at[s], window) = Cardinality(M(done))
      BY RateCardinality DEF Rate!Counted
    <2> HIDE DEF done
    <2> QED BY <2>1, <2>2, FewMessages
  <1>5. Cardinality(M({s})) <= recipients[s] /\ IsFiniteSet(M({s})) /\ Cardinality(M({s})) \in Nat
    BY <1>1, OneSend, FewMessages
  <1>6. /\ Cardinality(M(others)) <= (MaxInFlight - 1) * MaxRecipients
        /\ IsFiniteSet(M(others)) /\ Cardinality(M(others)) \in Nat
    <2>1. IsFiniteSet(Moving) /\ Cardinality(Moving) <= MaxInFlight
      <3>1. Moving \in SUBSET Sends
        BY DEF Moving
      <3>2. Cardinality(Moving) <= MaxInFlight
        BY RateCardinality DEF Rate!TypeOK, Moving
      <3> QED BY <3>1, <3>2, RateBounds, FS_Subset
    <2>2. others = Moving \ {s}
      OBVIOUS
    <2>3. Cardinality(others) = Cardinality(Moving) - 1 /\ Cardinality(Moving) \in Nat
      BY <1>1, <2>1, <2>2, FS_RemoveElement, FS_CardinalityType
    <2>4. others \subseteq Sends
      BY DEF Moving
    <2> HIDE DEF others
    <2>5. Cardinality(others) \in Nat /\ Cardinality(others) <= MaxInFlight - 1
      BY <2>1, <2>3, <2>4, FewMessages, RateBounds
    <2>6. Cardinality(others) * MaxRecipients <= (MaxInFlight - 1) * MaxRecipients
          /\ Cardinality(others) * MaxRecipients \in Nat /\ (MaxInFlight - 1) * MaxRecipients \in Nat
      BY <2>5, RateBounds, Times
    <2> QED BY <2>4, <2>6, FewMessages
  <1>7. (MaxInFlight - 1) * MaxRecipients \in Nat
    BY RateBounds, Times
  <1> HIDE DEF M, done, others
  <1> DEFINE two == M({s}) \cup M(others)
             all == M(done) \cup two
             gone == Rate!Messages(Gone(S, window, passed))'
  <1>8. IsFiniteSet(two) /\ Cardinality(two) <= Cardinality(M({s})) + Cardinality(M(others))
    BY <1>5, <1>6, UnionIsFew
  <1>9. IsFiniteSet(all) /\ Cardinality(all) <= Cardinality(M(done)) + Cardinality(two)
    BY <1>4, <1>8, UnionIsFew
  <1>10. Cardinality(gone) <= Cardinality(all) /\ IsFiniteSet(gone)
    <2>1. gone \in SUBSET all
      BY <1>3
    <2> HIDE DEF gone, all
    <2> QED BY <1>9, <2>1, FS_Subset
  <1>11. Cardinality(gone) \in Nat /\ Cardinality(all) \in Nat /\ Cardinality(two) \in Nat
    BY <1>8, <1>9, <1>10, FS_CardinalityType
  <1> HIDE DEF gone, all, two
  <1>12. Cardinality(gone) <= cap + (MaxInFlight - 1) * MaxRecipients
    BY <1>1, <1>4, <1>5, <1>6, <1>7, <1>8, <1>9, <1>10, <1>11, RateBounds
  <1> QED BY <1>12 DEF gone

-----------------------------------------------------------------------------
(* The steps of the sends *)

\* The types of the sends, their number apart.
RateTypes ==
    /\ clock \in 0 .. MaxSendTime /\ progress \in [Sends -> Rate!Pcs]
    /\ recipients \in [Sends -> 0 .. MaxRecipients] /\ at \in [Sends -> 0 .. clock]
    /\ \A s \in Sends : (recipients[s] > 0) <=> (progress[s] \in Rate!InFlight \cup {"done"})

\* What the types are made of.
LEMMA RateTypeOK == Rate!TypeOK <=> RateTypes /\ Cardinality(Moving) <= MaxInFlight
  BY RateCardinality DEF Rate!TypeOK, RateTypes, Moving

\* If no send begins there are no more in flight.
LEMMA FewerMoving ==
    ASSUME Cardinality(Moving) <= MaxInFlight, Moving' \subseteq Moving
    PROVE  Cardinality(Moving') <= MaxInFlight
  <1> DEFINE after == Moving'
  <1>1. IsFiniteSet(Moving)
    <2>1. Moving \in SUBSET Sends
      BY DEF Moving
    <2> QED BY <2>1, RateBounds, FS_Subset
  <1>2. after \in SUBSET Moving
    OBVIOUS
  <1> HIDE DEF after
  <1>3. IsFiniteSet(after) /\ Cardinality(after) <= Cardinality(Moving)
    BY <1>1, <1>2, FS_Subset
  <1>4. Cardinality(after) \in Nat /\ Cardinality(Moving) \in Nat
    BY <1>1, <1>3, FS_CardinalityType
  <1>5. Cardinality(after) <= MaxInFlight
    BY <1>3, <1>4, RateBounds
  <1> QED BY <1>5 DEF after

\* Every ceiling stays within its bounds if no send passes a check.
LEMMA NonePasses ==
    ASSUME RateInv, Rate!TypeOK',
           \A window \in {Window, Day}, passed \in {AfterAgent, AfterAccount, AfterDay}, s \in Sends :
               s \in Gone(Sends, window, passed)' =>
                   s \in Gone(Sends, window, passed) /\ recipients'[s] = recipients[s]
    PROVE  RateInv'
  <1>1. ASSUME NEW S \in SUBSET Sends, NEW cap \in Nat, NEW window \in {Window, Day},
               NEW passed \in {AfterAgent, AfterAccount, AfterDay}, Within(S, cap, window, passed)
        PROVE  Within(S, cap, window, passed)'
    <2>1. \A s \in Sends : /\ s \in Gone(S, window, passed) <=> s \in S /\ s \in Gone(Sends, window, passed)
                           /\ s \in Gone(S, window, passed)' <=> s \in S /\ s \in Gone(Sends, window, passed)'
      BY DEF Gone
    <2>2. Gone(S, window, passed)' \subseteq Sends
      BY DEF Gone
    <2>3. Gone(S, window, passed)' \subseteq Gone(S, window, passed)
      BY <2>1, <2>2
    <2>4. \A s \in Gone(S, window, passed)' : recipients'[s] = recipients[s]
      BY <2>1, <2>2
    <2> QED BY <1>1, <2>3, <2>4, FewerGone
  <1> QED BY <1>1, RateBounds DEF RateInv

\* No send is in flight at first.
LEMMA RateInit == Rate!Init => RateInv
  <1> SUFFICES ASSUME Rate!Init PROVE RateInv
    OBVIOUS
  <1>1. Moving = {} /\ RateTypes
    BY RateBounds DEF Rate!Init, Moving, RateTypes, Rate!InFlight, Rate!Pcs
  <1>2. Rate!TypeOK
    BY <1>1, RateTypeOK, RateBounds, FS_EmptySet
  <1>3. ASSUME NEW S \in SUBSET Sends, NEW cap \in Nat, NEW window,
               NEW passed \in {AfterAgent, AfterAccount, AfterDay}
        PROVE  Within(S, cap, window, passed)
    <2>1. Gone(S, window, passed) = {}
      BY DEF Rate!Init, Gone, AfterAgent, AfterAccount, AfterDay
    <2>2. Rate!Messages({}) = {}
      BY DEF Rate!Messages
    <2>3. (MaxInFlight - 1) * MaxRecipients \in Nat
      BY RateBounds, Times
    <2>4. Cardinality(Rate!Messages(Gone(S, window, passed))) = 0
      BY <2>1, <2>2, FS_EmptySet
    <2> QED BY <2>3, <2>4 DEF Within
  <1>4. /\ FirstAgentSends \in SUBSET Sends /\ Sends \ FirstAgentSends \in SUBSET Sends
        /\ Sends \in SUBSET Sends
        /\ AgentCap \in Nat /\ AccountCap \in Nat /\ DayCap \in Nat
    BY RateBounds
  <1> QED BY <1>2, <1>3, <1>4 DEF RateInv

\* A send begins.
LEMMA StartKeeps == ASSUME RateInv, NEW s \in Sends, Rate!Start(s) PROVE RateInv'
  <1>1. Rate!TypeOK /\ RateTypes /\ Cardinality(Moving) <= MaxInFlight
    BY RateTypeOK DEF RateInv
  <1>2. PICK n \in 1 .. MaxRecipients :
           /\ progress' = [progress EXCEPT ![s] = "agent"] /\ recipients' = [recipients EXCEPT ![s] = n]
           /\ at' = [at EXCEPT ![s] = clock] /\ clock' = clock /\ progress[s] = "staged"
    BY DEF Rate!Start
  <1>3. RateTypes'
    BY <1>1, <1>2, RateBounds DEF RateTypes, Rate!Pcs, Rate!InFlight
  <1>4. Cardinality(Moving') <= MaxInFlight
    <2>1. Moving' = Moving \cup {s} /\ s \notin Moving
      BY <1>1, <1>2 DEF RateTypes, Moving, Rate!InFlight
    <2>2. Cardinality(Moving) < MaxInFlight
      BY RateCardinality DEF Rate!Start, Moving
    <2>3. IsFiniteSet(Moving)
      <3>1. Moving \in SUBSET Sends
        BY DEF Moving
      <3> QED BY <3>1, RateBounds, FS_Subset
    <2>4. Cardinality(Moving \cup {s}) = Cardinality(Moving) + 1 /\ Cardinality(Moving) \in Nat
      BY <2>1, <2>3, FS_AddElement, FS_CardinalityType
    <2> QED BY <2>1, <2>2, <2>4, RateBounds
  <1>5. Rate!TypeOK'
    <2>1. (Rate!TypeOK <=> RateTypes /\ Cardinality(Moving) <= MaxInFlight)'
      BY RateTypeOK, PTL
    <2> QED BY <1>3, <1>4, <2>1
  <1>6. ASSUME NEW window, NEW passed \in {AfterAgent, AfterAccount, AfterDay}, NEW x \in Gone(Sends, window, passed)'
        PROVE  x \in Gone(Sends, window, passed) /\ recipients'[x] = recipients[x]
    BY <1>1, <1>2, <1>6 DEF Gone, RateTypes, AfterAgent, AfterAccount, AfterDay
  <1> QED BY <1>5, <1>6, NonePasses

\* A send that is neither begun nor allowed moves on, or is given up.
LEMMA MoveKeeps ==
    ASSUME RateInv, NEW s \in Sends, progress[s] \in Rate!InFlight,
           \/ \E how \in {"refused", "failed"} : Rate!GiveUp(s, how) /\ clock' = clock
           \/ Rate!Relay(s) \/ Rate!Audit(s)
    PROVE  RateInv'
  <1>1. Rate!TypeOK /\ RateTypes /\ Cardinality(Moving) <= MaxInFlight
    BY RateTypeOK DEF RateInv
  <1>2. /\ clock' = clock /\ \A x \in Sends : x # s =>
              progress'[x] = progress[x] /\ recipients'[x] = recipients[x] /\ at'[x] = at[x]
        /\ \/ progress'[s] \in {"refused", "failed"} /\ recipients'[s] = 0
           \/ /\ progress[s] = "relay" /\ progress'[s] = "audit"
              /\ recipients'[s] = recipients[s] /\ at'[s] = at[s]
           \/ progress[s] = "audit" /\ progress'[s] = "done" /\ recipients'[s] = recipients[s]
    BY <1>1 DEF Rate!GiveUp, Rate!Relay, Rate!Audit, RateTypes
  <1>3. RateTypes'
    <2>1. CASE \E how \in {"refused", "failed"} : Rate!GiveUp(s, how) /\ clock' = clock
      BY <1>1, <2>1, RateBounds DEF RateTypes, Rate!GiveUp, Rate!Pcs, Rate!InFlight
    <2>2. CASE Rate!Relay(s)
      BY <1>1, <2>2 DEF RateTypes, Rate!Relay, Rate!Pcs, Rate!InFlight
    <2>3. CASE Rate!Audit(s)
      BY <1>1, <2>3 DEF RateTypes, Rate!Audit, Rate!Pcs, Rate!InFlight
    <2> QED BY <2>1, <2>2, <2>3
  <1>4. Cardinality(Moving') <= MaxInFlight
    <2>1. Moving' \subseteq Moving
      BY <1>2 DEF Moving
    <2> QED BY <1>1, <2>1, FewerMoving
  <1>5. Rate!TypeOK'
    <2>1. (Rate!TypeOK <=> RateTypes /\ Cardinality(Moving) <= MaxInFlight)'
      BY RateTypeOK, PTL
    <2> QED BY <1>3, <1>4, <2>1
  <1>6. ASSUME NEW window, NEW passed \in {AfterAgent, AfterAccount, AfterDay}, NEW x \in Gone(Sends, window, passed)'
        PROVE  x \in Gone(Sends, window, passed) /\ recipients'[x] = recipients[x]
    <2>1. CASE x # s
      BY <1>2, <1>6, <2>1 DEF Gone
    <2>2. CASE x = s
      BY <1>2, <1>6, <2>2 DEF Gone, AfterAgent, AfterAccount, AfterDay
    <2> QED BY <2>1, <2>2
  <1> QED BY <1>5, <1>6, NonePasses

\* Time goes on.
LEMMA TimeKeeps == ASSUME RateInv, Rate!Tick PROVE RateInv'
  <1>1. Rate!TypeOK /\ RateTypes /\ Cardinality(Moving) <= MaxInFlight
    BY RateTypeOK DEF RateInv
  <1>2. clock' = clock + 1 /\ clock' \in 0 .. MaxSendTime /\ UNCHANGED <<progress, recipients, at>>
    BY <1>1, RateBounds DEF Rate!Tick, RateTypes
  <1>3. RateTypes' /\ Moving' = Moving
    BY <1>1, <1>2 DEF RateTypes, Moving
  <1>5. Rate!TypeOK'
    <2>1. (Rate!TypeOK <=> RateTypes /\ Cardinality(Moving) <= MaxInFlight)'
      BY RateTypeOK, PTL
    <2> QED BY <1>1, <1>3, <2>1
  <1>6. ASSUME NEW window \in {Window, Day}, NEW passed \in {AfterAgent, AfterAccount, AfterDay},
               NEW x \in Gone(Sends, window, passed)'
        PROVE  x \in Gone(Sends, window, passed) /\ recipients'[x] = recipients[x]
    BY <1>1, <1>2, <1>6, RateBounds DEF Gone, RateTypes
  <1> QED BY <1>5, <1>6, NonePasses

\* A send passes one of its three checks.
LEMMA PassKeeps ==
    ASSUME RateInv, NEW s \in Sends, NEW from, NEW to, NEW S, NEW cap \in Nat, NEW window \in {Window, Day},
           <<from, to, S, cap, window>> \in
               {<<"agent", "account", Rate!Agent(s), AgentCap, Window>>,
                <<"account", "day", Sends, AccountCap, Window>>,
                <<"day", "relay", Sends, DayCap, Day>>},
           progress[s] = from, cap = 0 \/ Rate!Counted(S, at[s], window) + recipients[s] <= cap,
           progress' = [progress EXCEPT ![s] = to], UNCHANGED <<clock, recipients, at>>
    PROVE  RateInv'
  <1>1. Rate!TypeOK /\ RateTypes /\ Cardinality(Moving) <= MaxInFlight
    BY RateTypeOK DEF RateInv
  <1>2. \/ /\ from = "agent" /\ to = "account"
           /\ S = Rate!Agent(s) /\ cap = AgentCap /\ window = Window
        \/ /\ from = "account" /\ to = "day"
           /\ S = Sends /\ cap = AccountCap /\ window = Window
        \/ /\ from = "day" /\ to = "relay"
           /\ S = Sends /\ cap = DayCap /\ window = Day
    OBVIOUS
  <1>3. RateTypes'
    BY <1>1, <1>2 DEF RateTypes, Rate!Pcs, Rate!InFlight
  <1>4. Cardinality(Moving') <= MaxInFlight
    <2>1. Moving' \subseteq Moving
      BY <1>1, <1>2 DEF RateTypes, Moving, Rate!InFlight
    <2> QED BY <1>1, <2>1, FewerMoving
  <1>5. Rate!TypeOK'
    <2>1. (Rate!TypeOK <=> RateTypes /\ Cardinality(Moving) <= MaxInFlight)'
      BY RateTypeOK, PTL
    <2> QED BY <1>3, <1>4, <2>1
  <1>6. ASSUME NEW T \in SUBSET Sends, NEW limit \in Nat, NEW w \in Nat, NEW passed,
               s \notin T \/ (from \in passed /\ from # "done") \/ to \notin passed,
               Within(T, limit, w, passed)
        PROVE  Within(T, limit, w, passed)'
    <2>1. Gone(T, w, passed)' \subseteq Gone(T, w, passed)
      BY <1>1, <1>2, <1>6 DEF Gone, RateTypes
    <2> QED BY <1>6, <2>1, FewerGone
  <1>7. ASSUME NEW passed, passed \subseteq Rate!InFlight, from \notin passed, S \subseteq Sends, s \in S
        PROVE  Within(S, cap, window, passed)'
    <2>1. Gone(S, window, passed)' \subseteq Gone(S, window, passed) \cup {s}
      BY <1>1 DEF Gone, RateTypes
    <2>2. progress[s] \in Rate!InFlight \ passed
      BY <1>2, <1>7 DEF Rate!InFlight
    <2>3. window \in Nat
      BY RateBounds
    <2> QED BY <1>1, <1>7, <2>1, <2>2, <2>3, OneMore
  <1>8. /\ Within(FirstAgentSends, AgentCap, Window, AfterAgent)
        /\ Within(Sends \ FirstAgentSends, AgentCap, Window, AfterAgent)
        /\ Within(Sends, AccountCap, Window, AfterAccount)
        /\ Within(Sends, DayCap, Day, AfterDay)
    BY DEF RateInv
  <1>9. AfterAgent \subseteq Rate!InFlight /\ AfterAccount \subseteq Rate!InFlight /\ AfterDay \subseteq Rate!InFlight
    BY DEF AfterAgent, AfterAccount, AfterDay, Rate!InFlight
  <1>10. FirstAgentSends \in SUBSET Sends /\ (Sends \ FirstAgentSends) \in SUBSET Sends /\ Sends \in SUBSET Sends
         /\ AgentCap \in Nat /\ AccountCap \in Nat /\ DayCap \in Nat /\ Window \in Nat /\ Day \in Nat
    BY RateBounds
  <1>11. CASE from = "agent"
    <2>1. to = "account" /\ S = Rate!Agent(s) /\ cap = AgentCap /\ window = Window
      BY <1>2, <1>11
    <2>2. from \notin AfterAgent /\ to \notin AfterAccount /\ to \notin AfterDay
      BY <1>11, <2>1 DEF AfterAgent, AfterAccount, AfterDay
    <2>3. Within(Sends, AccountCap, Window, AfterAccount)' /\ Within(Sends, DayCap, Day, AfterDay)'
      BY <1>6, <1>8, <1>10, <2>2
    <2>4. CASE s \in FirstAgentSends
      <3>1. S = FirstAgentSends
        BY <2>1, <2>4 DEF Rate!Agent
      <3>2. Within(FirstAgentSends, AgentCap, Window, AfterAgent)'
        BY <1>7, <1>9, <1>10, <2>1, <2>2, <2>4, <3>1
      <3>3. Within(Sends \ FirstAgentSends, AgentCap, Window, AfterAgent)'
        BY <1>6, <1>8, <1>10, <2>4
      <3> QED BY <1>5, <2>3, <3>2, <3>3 DEF RateInv
    <2>5. CASE s \notin FirstAgentSends
      <3>1. S = Sends \ FirstAgentSends
        BY <2>1, <2>5 DEF Rate!Agent
      <3>2. Within(Sends \ FirstAgentSends, AgentCap, Window, AfterAgent)'
        BY <1>7, <1>9, <1>10, <2>1, <2>2, <2>5, <3>1
      <3>3. Within(FirstAgentSends, AgentCap, Window, AfterAgent)'
        BY <1>6, <1>8, <1>10, <2>5
      <3> QED BY <1>5, <2>3, <3>2, <3>3 DEF RateInv
    <2> QED BY <2>4, <2>5
  <1>12. CASE from = "account"
    <2>1. to = "day" /\ S = Sends /\ cap = AccountCap /\ window = Window
      BY <1>2, <1>12
    <2>2. from \notin AfterAccount /\ from \in AfterAgent /\ from # "done" /\ to \notin AfterDay
      BY <1>12, <2>1 DEF AfterAgent, AfterAccount, AfterDay
    <2>3. Within(Sends, AccountCap, Window, AfterAccount)'
      BY <1>7, <1>9, <1>10, <2>1, <2>2
    <2>4. /\ Within(FirstAgentSends, AgentCap, Window, AfterAgent)'
          /\ Within(Sends \ FirstAgentSends, AgentCap, Window, AfterAgent)'
          /\ Within(Sends, DayCap, Day, AfterDay)'
      BY <1>6, <1>8, <1>10, <2>2
    <2> QED BY <1>5, <2>3, <2>4 DEF RateInv
  <1>13. CASE from = "day"
    <2>1. to = "relay" /\ S = Sends /\ cap = DayCap /\ window = Day
      BY <1>2, <1>13
    <2>2. from \notin AfterDay /\ from \in AfterAgent /\ from \in AfterAccount /\ from # "done"
      BY <1>13 DEF AfterAgent, AfterAccount, AfterDay
    <2>3. Within(Sends, DayCap, Day, AfterDay)'
      BY <1>7, <1>9, <1>10, <2>1, <2>2
    <2>4. /\ Within(FirstAgentSends, AgentCap, Window, AfterAgent)'
          /\ Within(Sends \ FirstAgentSends, AgentCap, Window, AfterAgent)'
          /\ Within(Sends, AccountCap, Window, AfterAccount)'
      BY <1>6, <1>8, <1>10, <2>2
    <2> QED BY <1>5, <2>3, <2>4 DEF RateInv
  <1> QED BY <1>2, <1>11, <1>12, <1>13

\* A check passes, or refuses.
LEMMA CheckKeeps ==
    ASSUME RateInv, NEW s \in Sends, Rate!CheckAgent(s) \/ Rate!CheckAccount(s) \/ Rate!CheckDay(s)
    PROVE  RateInv'
  <1>1. ASSUME NEW from, NEW to, NEW S, NEW cap \in Nat, NEW window \in {Window, Day},
               Rate!Check(s, from, to, S, cap, window),
               <<from, to, S, cap, window>> \in
                   {<<"agent", "account", Rate!Agent(s), AgentCap, Window>>,
                    <<"account", "day", Sends, AccountCap, Window>>,
                    <<"day", "relay", Sends, DayCap, Day>>}
        PROVE  RateInv'
    <2>1. /\ progress[s] = from /\ clock' = clock
          /\ \/ /\ cap = 0 \/ Rate!Counted(S, at[s], window) + recipients[s] <= cap
                /\ progress' = [progress EXCEPT ![s] = to] /\ UNCHANGED <<recipients, at>>
             \/ Rate!GiveUp(s, "refused")
      BY <1>1 DEF Rate!Check
    <2>2. CASE Rate!GiveUp(s, "refused")
      <3>1. progress[s] \in Rate!InFlight
        BY <1>1, <2>1 DEF Rate!InFlight
      <3> QED BY <2>1, <2>2, <3>1, MoveKeeps
    <2>3. CASE /\ cap = 0 \/ Rate!Counted(S, at[s], window) + recipients[s] <= cap
               /\ progress' = [progress EXCEPT ![s] = to] /\ UNCHANGED <<recipients, at>>
      <3>1. UNCHANGED <<clock, recipients, at>>
        BY <2>1, <2>3
      <3> QED BY <1>1, <2>1, <2>3, <3>1, PassKeeps
    <2> QED BY <2>1, <2>2, <2>3
  <1> QED BY <1>1, RateBounds DEF Rate!CheckAgent, Rate!CheckAccount, Rate!CheckDay

\* All the steps of the sends.
LEMMA RateStep == ASSUME RateInv, [Rate!Next]_rateVars PROVE RateInv'
  <1>1. CASE UNCHANGED rateVars
    <2>1. RateTypes' <=> RateTypes
      BY <1>1 DEF rateVars, RateTypes
    <2> QED BY <1>1 DEF rateVars, RateInv, Rate!TypeOK, Within, Gone, Rate!Messages
  <1>2. ASSUME NEW s \in Sends, Rate!RelayFails(s) PROVE RateInv'
    <2>1. progress[s] \in Rate!InFlight /\ Rate!GiveUp(s, "failed") /\ clock' = clock
      BY <1>2 DEF Rate!RelayFails, Rate!InFlight
    <2> QED BY <2>1, MoveKeeps
  <1>3. ASSUME NEW s \in Sends, Rate!Relay(s) \/ Rate!Audit(s) PROVE RateInv'
    <2>1. progress[s] \in Rate!InFlight
      BY <1>3 DEF Rate!Relay, Rate!Audit, Rate!InFlight
    <2> QED BY <1>3, <2>1, MoveKeeps
  <1> QED BY <1>1, <1>2, <1>3, TimeKeeps, StartKeeps, CheckKeeps DEF Rate!Next, Rate!Send

\* What the invariant says of the ceilings.
LEMMA RateIsTrue == RateInv => Rate!OvershootIsBounded
  <1> SUFFICES ASSUME RateInv, NEW c \in Rate!Ceilings, c.cap # 0
               PROVE  Rate!SentWithin(c) <= c.cap + (MaxInFlight - 1) * MaxRecipients
    BY DEF Rate!OvershootIsBounded
  <1> DEFINE sent_(S, window) == {s \in S : progress[s] = "done" /\ clock - at[s] <= window}
  <1>1. ASSUME NEW S \in SUBSET Sends, NEW cap \in Nat, NEW window, NEW passed, cap # 0,
               Within(S, cap, window, passed)
        PROVE  Cardinality(Rate!Messages(sent_(S, window))) <= cap + (MaxInFlight - 1) * MaxRecipients
    <2>1. Rate!Messages(sent_(S, window)) \in SUBSET Rate!Messages(Gone(S, window, passed))
      BY DEF Rate!Messages, Gone
    <2>2. Gone(S, window, passed) \subseteq Sends /\ sent_(S, window) \subseteq Sends
      BY DEF Gone
    <2>3. /\ IsFiniteSet(Rate!Messages(Gone(S, window, passed)))
          /\ Cardinality(Rate!Messages(Gone(S, window, passed))) \in Nat
          /\ Cardinality(Rate!Messages(sent_(S, window))) \in Nat
      BY <2>2, FewMessages
    <2>4. Cardinality(Rate!Messages(sent_(S, window))) <= Cardinality(Rate!Messages(Gone(S, window, passed)))
      BY <2>1, <2>3, FS_Subset
    <2>5. (MaxInFlight - 1) * MaxRecipients \in Nat
      BY RateBounds, Times
    <2> HIDE DEF sent_
    <2> QED BY <1>1, <2>3, <2>4, <2>5 DEF Within
  <1>2. Rate!SentWithin(c) = Cardinality(Rate!Messages(sent_(c.sends, c.window)))
    BY RateCardinality DEF Rate!SentWithin
  <1>3. c.sends \in SUBSET Sends /\ c.cap \in Nat /\ \E passed : Within(c.sends, c.cap, c.window, passed)
    BY RateBounds DEF RateInv, Rate!Ceilings
  <1> HIDE DEF sent_
  <1> QED BY <1>1, <1>2, <1>3

-----------------------------------------------------------------------------

\* What the guard and the sends keep, whatever part moves.
LEMMA PartsHold == AccountsSpec => [](GuardInv /\ RateInv)
<1>1. AccountsInit => GuardInv /\ RateInv
  BY GuardInit, RateInit DEF AccountsInit
<1>2. ASSUME GuardInv /\ RateInv, [AccountsNext]_<<part, vars, guardVars, rateVars>>
      PROVE  (GuardInv /\ RateInv)'
  <2>1. [Guard!Next]_guardVars /\ [Rate!Next]_rateVars
    BY <1>2 DEF AccountsNext
  <2> QED
    BY <1>2, <2>1, GuardStep, RateStep
<1> QED
  BY <1>1, <1>2, PTL DEF AccountsSpec

\* However many logins are verified at once, no key is tried more often than its cap in
\* any window (start_attempt); and however many sends are checked at once, no ceiling
\* is overrun by more than those besides one carry (enforce_send_rate).
THEOREM RatesAlwaysBounded == AccountsSpec => []RatesAreBounded
<1>1. GuardInv /\ RateInv => RatesAreBounded
  BY GuardIsTrue, RateIsTrue DEF RatesAreBounded
<1> QED
  BY <1>1, PartsHold, PTL

\* Failures in a window lock a key for the base time at least, and no later failure
\* shortens a lockout, for any limits (record_failure).
THEOREM LockoutsAlwaysHold == AccountsSpec => LockoutsHold
<1>1. ASSUME GuardInv /\ RateInv, (GuardInv /\ RateInv)',
             [AccountsNext]_<<part, vars, guardVars, rateVars>>
      PROVE  /\ [Guard!FailuresLock']_guardVars
             /\ [\A k \in Guard!Keys : until'[k] >= until[k] \/ failed'[k] = <<>>]_Guard!vars
  <2>1. (GuardInv => Guard!AttemptsBounded /\ Guard!FailuresLock)'
    BY GuardIsTrue, PTL
  <2>2. [Guard!Next]_guardVars
    BY <1>1 DEF AccountsNext
  <2> QED
    BY <1>1, <2>1, <2>2, GuardStep DEF guardVars, Guard!vars
<1> QED
  BY <1>1, PartsHold, PTL DEF AccountsSpec, LockoutsHold, Guard!LockoutIsNotShortened

-----------------------------------------------------------------------------
(* AuditChain *)

\* Whoever wrote first, or has inserted its row, is the one that holds the write lock.
LocksInv ==
    /\ purges \in Nat /\ pc \in [Writers -> Chain!WriterPcs] /\ DOMAIN prev = Writers
    /\ \A w \in Writers :
          /\ w \notin Recorders /\ pc[w] # "idle" => dbLock = w
          /\ pc[w] \in {"release", "commit"} => dbLock = w

\* The head that such a writer has read is still the head.
HeadsInv ==
    /\ chain \in Seq(Chain!Row) /\ hashes \in Nat /\ prev \in [Writers -> Nat]
    /\ \A w \in Writers \ Recorders :
          pc[w] \in {"insert", "release", "commit"} => prev[w] = Chain!Head0(chain)

AllTx == \A i \in DOMAIN chain : chain[i].tx

\* What a row or a writer that is past reading the head links to is in the log.
LinksInv ==
    /\ \A i \in DOMAIN chain :
          chain[i].prev = 0 \/ \E j \in 1 .. i - 1 : chain[j].hash = chain[i].prev
    /\ \A w \in Writers : pc[w] \in {"insert", "release", "commit"} =>
          prev[w] = 0 \/ \E j \in DOMAIN chain : chain[j].hash = prev[w]

ChainInv ==
    /\ LocksInv /\ HeadsInv
    /\ purges = 0 => LinksInv /\ (AllTx => Chain!Intact(chain) /\ Chain!AnchorPresent /\ checker # "alarm")

\* The filters of both are the one the lemmas are about.
LEMMA SameFilter == \A s, T : Chain!Filter(s, T) = Filter(s, T) /\ Kept!Filter(s, T) = Filter(s, T)
  BY DEF Chain!Filter, Kept!Filter, Filter

\* Nobody has a lock and the chain is empty.
LEMMA ChainBegins == Chain!Init => ChainInv
BY
  DEF Chain!Init, ChainInv, LocksInv, HeadsInv, LinksInv, AllTx, Chain!Intact,
      Chain!AnchorPresent, Chain!WriterPcs

\* The locks.
LEMMA StepKeepsLocks == LocksInv /\ [Chain!Next]_chainVars => LocksInv'
<1> SUFFICES ASSUME LocksInv, [Chain!Next]_chainVars PROVE LocksInv'
  OBVIOUS
<1> USE ChainAssumption
      DEF Chain!WritersAssumption, Chain!BoundsAssumption, LocksInv, Chain!Goto,
          Chain!WriterPcs, Chain!logVars, Chain!checkVars
<1>1. ASSUME NEW w \in Writers, Chain!BeginTx(w) \/ Chain!BeginRecord(w) PROVE LocksInv'
  BY <1>1 DEF Chain!BeginTx, Chain!BeginRecord
<1>2. ASSUME NEW w \in Writers, Chain!ReadHead(w) PROVE LocksInv'
  BY <1>2 DEF Chain!ReadHead
<1>3. ASSUME NEW w \in Writers, Chain!Insert(w) PROVE LocksInv'
  BY <1>3 DEF Chain!Insert
<1>4. ASSUME NEW w \in Writers, Chain!ReleaseLock(w) PROVE LocksInv'
  BY <1>4 DEF Chain!ReleaseLock
<1>5. ASSUME NEW w \in Writers, Chain!Commit(w) \/ Chain!Rollback(w) PROVE LocksInv'
  BY <1>5 DEF Chain!Commit, Chain!Rollback
<1>6. ASSUME NEW w \in Writers, Chain!BusyTimeout(w) PROVE LocksInv'
  BY <1>6 DEF Chain!BusyTimeout
<1>7. CASE Chain!Verify \/ Chain!AnchorHead \/ Chain!ClearAlarm \/ Chain!Purge \/ UNCHANGED chainVars
  BY <1>7 DEF Chain!Verify, Chain!AnchorHead, Chain!ClearAlarm, Chain!Purge, chainVars
<1> QED
  BY <1>1, <1>2, <1>3, <1>4, <1>5, <1>6, <1>7 DEF Chain!Next, Chain!Writer

\* The hash of the last row.
LEMMA HeadIsHash ==
    ASSUME NEW c \in Seq(Chain!Row) PROVE Chain!Head0(c) \in Nat
<1>1. CASE c = <<>>
  BY <1>1 DEF Chain!Head0
<1>2. CASE c # <<>>
  <2>1. Len(c) \in 1 .. Len(c)
    BY <1>2
  <2>2. c[Len(c)] \in Chain!Row
    BY <2>1
  <2> QED BY <1>2, <2>2 DEF Chain!Head0, Chain!Row
<1> QED BY <1>1, <1>2

\* A row at the end.
LEMMA AppendRow ==
    ASSUME NEW c \in Seq(Chain!Row), NEW r \in Chain!Row
    PROVE  /\ Append(c, r) \in Seq(Chain!Row) /\ Len(Append(c, r)) = Len(c) + 1 /\ Len(c) \in Nat
           /\ Append(c, r)[Len(c) + 1] = r
           /\ \A i \in 1 .. Len(c) : Append(c, r)[i] = c[i]
           /\ Chain!Head0(Append(c, r)) = r.hash
           /\ DOMAIN Append(c, r) = 1 .. Len(c) + 1 /\ DOMAIN c = 1 .. Len(c)
BY DEF Chain!Head0

\* No step but a commit and a purge moves the head, and these only that of a log whose
\* head no other transaction has read.
LEMMA StepKeepsHeads ==
    ASSUME LocksInv, HeadsInv, [Chain!Next]_chainVars
    PROVE  HeadsInv'
<1> USE ChainAssumption
      DEF Chain!WritersAssumption, HeadsInv, Chain!Goto, Chain!logVars, Chain!checkVars
<1>1. ASSUME NEW w \in Writers, Chain!BeginTx(w) \/ Chain!BeginRecord(w) PROVE HeadsInv'
  BY <1>1 DEF Chain!BeginTx, Chain!BeginRecord, LocksInv
<1>2. ASSUME NEW w \in Writers, Chain!ReadHead(w) PROVE HeadsInv'
  BY <1>2, HeadIsHash DEF Chain!ReadHead, LocksInv
<1>3. ASSUME NEW w \in Writers, Chain!Insert(w) PROVE HeadsInv'
  BY <1>3 DEF Chain!Insert, LocksInv
<1>4. ASSUME NEW w \in Writers, Chain!ReleaseLock(w) PROVE HeadsInv'
  BY <1>4 DEF Chain!ReleaseLock, LocksInv
<1>5. ASSUME NEW w \in Writers, Chain!Commit(w) PROVE HeadsInv'
  <2>1. Chain!NewRow(w) \in Chain!Row
    BY DEF Chain!NewRow, Chain!Row
  <2>2. \A v \in Writers \ Recorders : pc'[v] = "idle"
    BY <1>5 DEF Chain!Commit, LocksInv
  <2>3. chain' \in Seq(Chain!Row) /\ hashes' \in Nat /\ prev' = prev
    BY <1>5, <2>1, AppendRow DEF Chain!Commit
  <2> QED BY <2>2, <2>3
<1>6. ASSUME NEW w \in Writers, Chain!Rollback(w) PROVE HeadsInv'
  BY <1>6 DEF Chain!Rollback, LocksInv
<1>7. ASSUME NEW w \in Writers, Chain!BusyTimeout(w) PROVE HeadsInv'
  BY <1>7 DEF Chain!BusyTimeout, LocksInv
<1>8. CASE Chain!Verify \/ Chain!AnchorHead \/ Chain!ClearAlarm \/ UNCHANGED chainVars
  BY <1>8 DEF Chain!Verify, Chain!AnchorHead, Chain!ClearAlarm, chainVars
<1>9. CASE Chain!Purge
  <2>1. \A w \in Writers \ Recorders : pc'[w] = "idle"
    BY <1>9 DEF Chain!Purge, LocksInv
  <2>2. chain' \in Seq(Chain!Row) /\ hashes' = hashes /\ prev' = prev
    BY <1>9, SameFilter, FilterKeepsType DEF Chain!Purge
  <2> QED BY <2>1, <2>2
<1> QED
  BY <1>1, <1>2, <1>3, <1>4, <1>5, <1>6, <1>7, <1>8, <1>9 DEF Chain!Next, Chain!Writer

\* As long as nothing is purged the log only grows, and so does what may be linked to.
LEMMA StepKeepsLinks ==
    ASSUME LocksInv, HeadsInv, LinksInv, [Chain!Next]_chainVars, ~Chain!Purge
    PROVE  LinksInv'
<1> USE DEF Chain!Goto, Chain!logVars, Chain!checkVars
<1>1. ASSUME NEW w \in Writers, Chain!Commit(w) PROVE LinksInv'
  <2>1. Chain!NewRow(w) \in Chain!Row /\ Chain!NewRow(w).prev = prev[w]
    BY DEF Chain!NewRow, Chain!Row, HeadsInv
  <2>2. /\ Len(chain) \in Nat /\ DOMAIN chain = 1 .. Len(chain)
        /\ DOMAIN chain' = 1 .. Len(chain) + 1 /\ chain'[Len(chain) + 1] = Chain!NewRow(w)
        /\ \A i \in 1 .. Len(chain) : chain'[i] = chain[i]
    BY <1>1, <2>1, AppendRow DEF Chain!Commit, HeadsInv
  <2>3. \A v \in Writers : pc'[v] \in {"insert", "release", "commit"} => pc'[v] = pc[v] /\ prev'[v] = prev[v]
    BY <1>1 DEF Chain!Commit, LocksInv
  <2>4. prev[w] = 0 \/ \E j \in DOMAIN chain : chain[j].hash = prev[w]
    BY <1>1 DEF Chain!Commit, LinksInv
  <2>5. ASSUME NEW i \in DOMAIN chain'
        PROVE  chain'[i].prev = 0 \/ \E j \in 1 .. i - 1 : chain'[j].hash = chain'[i].prev
    <3>1. CASE i = Len(chain) + 1
      BY <2>1, <2>2, <2>4, <3>1
    <3>2. CASE i \in 1 .. Len(chain)
      BY <2>2, <3>2 DEF LinksInv
    <3> QED BY <2>2, <3>1, <3>2
  <2>6. ASSUME NEW v \in Writers, pc'[v] \in {"insert", "release", "commit"}
        PROVE  prev'[v] = 0 \/ \E j \in DOMAIN chain' : chain'[j].hash = prev'[v]
    BY <2>2, <2>3, <2>6 DEF LinksInv
  <2> QED BY <2>5, <2>6 DEF LinksInv
<1>2. ASSUME NEW w \in Writers, Chain!ReadHead(w) PROVE LinksInv'
  <2>1. Chain!Head0(chain) = 0 \/ \E j \in DOMAIN chain : chain[j].hash = Chain!Head0(chain)
    <3>1. chain # <<>> => Len(chain) \in DOMAIN chain
      BY DEF HeadsInv
    <3> QED BY <3>1 DEF Chain!Head0
  <2> QED BY <1>2, <2>1 DEF Chain!ReadHead, LocksInv, LinksInv
<1>3. ASSUME UNCHANGED chain, UNCHANGED prev,
             \A w \in Writers : pc'[w] \in {"insert", "release", "commit"} => pc[w] \in {"insert", "release", "commit"}
      PROVE  LinksInv'
  BY <1>3 DEF LinksInv
<1>4. ASSUME NEW w \in Writers,
             \/ Chain!BeginTx(w) \/ Chain!BeginRecord(w) \/ Chain!Insert(w)
             \/ Chain!ReleaseLock(w) \/ Chain!Rollback(w) \/ Chain!BusyTimeout(w)
      PROVE  LinksInv'
  BY <1>3, <1>4
  DEF LocksInv, Chain!BeginTx, Chain!BeginRecord, Chain!Insert, Chain!ReleaseLock,
      Chain!Rollback, Chain!BusyTimeout
<1>5. CASE Chain!Verify \/ Chain!AnchorHead \/ Chain!ClearAlarm \/ UNCHANGED chainVars
  BY <1>3, <1>5 DEF Chain!Verify, Chain!AnchorHead, Chain!ClearAlarm, chainVars
<1> QED BY <1>1, <1>2, <1>4, <1>5 DEF Chain!Next, Chain!Writer

\* The links, the anchor and the verdict.
Sound == Chain!Intact(chain) /\ Chain!AnchorPresent /\ checker # "alarm"

\* A writer that commits appends the row it has linked under the locks.
LEMMA CommitKeepsLinks ==
    ASSUME LocksInv, HeadsInv, NEW w \in Writers, Chain!Commit(w), AllTx => Sound, AllTx'
    PROVE  Sound'
<1>1. Chain!NewRow(w) \in Chain!Row /\ Chain!NewRow(w).prev = prev[w] /\ Chain!NewRow(w).tx = (w \notin Recorders)
  BY DEF Chain!NewRow, Chain!Row, HeadsInv
<1>2. chain' = Append(chain, Chain!NewRow(w)) /\ chain \in Seq(Chain!Row) /\ anchor' = anchor /\ checker' = checker
  BY DEF Chain!Commit, HeadsInv, Chain!checkVars
<1> DEFINE n == Len(chain)
<1>3. /\ n \in Nat /\ Len(chain') = n + 1 /\ chain'[n + 1] = Chain!NewRow(w)
      /\ \A i \in 1 .. n : chain'[i] = chain[i]
      /\ DOMAIN chain' = 1 .. n + 1 /\ DOMAIN chain = 1 .. n
  BY <1>1, <1>2, AppendRow
<1>4. Sound
  <2>1. ASSUME NEW i \in 1 .. n PROVE chain[i].tx
    <3>1. chain'[i].tx
      BY <1>3 DEF AllTx
    <3>2. chain'[i] = chain[i]
      BY <1>3
    <3> QED BY <3>1, <3>2
  <2> QED BY <1>3, <2>1 DEF AllTx
<1>5. w \notin Recorders
  <2>1. chain'[n + 1].tx
    BY <1>3 DEF AllTx
  <2>2. Chain!NewRow(w).tx
    BY <1>3, <2>1
  <2> QED BY <2>2 DEF Chain!NewRow
<1>6. Chain!NewRow(w).prev = Chain!Head0(chain)
  BY <1>1, <1>5 DEF HeadsInv, Chain!Commit, Chain!Goto
<1>7. Chain!Intact(chain)'
  <2> SUFFICES ASSUME NEW i \in 2 .. n + 1 PROVE chain'[i].prev = chain'[i - 1].hash
    BY <1>3 DEF Chain!Intact
  <2>1. CASE i \in 2 .. n
    BY <1>3, <1>4, <2>1 DEF Sound, Chain!Intact
  <2>2. CASE i = n + 1
    <3>1. n \in 1 .. n /\ chain # <<>> /\ i - 1 = n
      BY <1>2, <1>3, <2>2
    <3>2. Chain!Head0(chain) = chain'[n].hash
      BY <1>3, <3>1 DEF Chain!Head0
    <3> QED BY <1>3, <1>6, <2>2, <3>1, <3>2
  <2> QED BY <1>3, <2>1, <2>2
<1>8. Chain!AnchorPresent'
  BY <1>2, <1>3, <1>4 DEF Sound, Chain!AnchorPresent
<1> QED
  BY <1>2, <1>4, <1>7, <1>8 DEF Sound

\* Every other step leaves the rows as they are.
LEMMA StepKeepsChain == ChainInv /\ [Chain!Next]_chainVars => ChainInv'
<1> SUFFICES ASSUME ChainInv, [Chain!Next]_chainVars PROVE ChainInv'
  OBVIOUS
<1>1. LocksInv /\ LocksInv'
  BY StepKeepsLocks DEF ChainInv
<1>4. HeadsInv /\ HeadsInv'
  BY <1>1, StepKeepsHeads DEF ChainInv
<1> SUFFICES ASSUME purges' = 0 PROVE LinksInv' /\ (AllTx' => Sound')
  BY <1>1, <1>4 DEF ChainInv, Sound
<1>2. purges = 0 /\ ~Chain!Purge
  <2>1. purges \in Nat /\ (Chain!Purge => purges' = purges + 1) /\ (~Chain!Purge => purges' = purges)
    BY <1>1
    DEF LocksInv, Chain!Next, Chain!Writer, chainVars, Chain!checkVars, Chain!Verify,
        Chain!AnchorHead, Chain!ClearAlarm, Chain!Purge, Chain!BeginTx, Chain!BeginRecord,
        Chain!ReadHead, Chain!Insert, Chain!ReleaseLock, Chain!Commit, Chain!Rollback,
        Chain!BusyTimeout
  <2> QED BY <2>1
<1>3. LinksInv /\ (AllTx => Sound)
  BY <1>2 DEF ChainInv, Sound
<1>10. LinksInv'
  BY <1>1, <1>2, <1>3, <1>4, StepKeepsLinks
<1> SUFFICES ASSUME AllTx' PROVE Sound'
  BY <1>10
<1>5. ASSUME NEW w \in Writers, Chain!Commit(w) PROVE Sound'
  BY <1>1, <1>3, <1>4, <1>5, CommitKeepsLinks
<1>6. CASE UNCHANGED <<chain, checker, anchor>>
  BY <1>3, <1>6 DEF AllTx, Sound, Chain!Intact, Chain!AnchorPresent
<1>7. CASE Chain!Verify \/ Chain!ClearAlarm
  BY <1>3, <1>7
  DEF Chain!Verify, Chain!ClearAlarm, Chain!logVars, AllTx, Sound, Chain!Intact,
      Chain!AnchorPresent
<1>8. CASE Chain!AnchorHead
  <2>1. Sound /\ chain' = chain /\ checker' = "asleep"
    BY <1>3, <1>8 DEF Chain!AnchorHead, AllTx, Chain!logVars
  <2>2. chain # <<>> => Len(chain) \in DOMAIN chain
    BY <1>4 DEF HeadsInv
  <2>3. Chain!AnchorPresent'
    BY <1>8, <2>1, <2>2 DEF Chain!AnchorHead, Sound, Chain!AnchorPresent, Chain!Head0
  <2> QED BY <2>1, <2>3 DEF Sound, Chain!Intact
<1> QED
  BY <1>2, <1>5, <1>6, <1>7, <1>8
  DEF Chain!Next, Chain!Writer, chainVars, Chain!logVars, Chain!checkVars, Chain!BeginTx,
      Chain!BeginRecord, Chain!ReadHead, Chain!Insert, Chain!ReleaseLock, Chain!Rollback,
      Chain!BusyTimeout

\* So it is in the composition, whose other half leaves the log alone.
LEMMA TrailBegins == TrailInit => ChainInv
  BY ChainBegins DEF TrailInit

\* A step of the composition is one of the log or leaves it alone,
LEMMA TrailMovesChain == [TrailNext]_<<half, chainVars, keptVars>> => [Chain!Next]_chainVars
  BY DEF TrailNext

\* and keeps what holds of it.
LEMMA TrailKeepsChain == ChainInv /\ [TrailNext]_<<half, chainVars, keptVars>> => ChainInv'
  BY TrailMovesChain, StepKeepsChain

\* A log whose rows were all written inside transactions that wrote before they read
\* the head, in whichever process and with whatever timeouts and rollbacks, never
\* raises the alarm of the hourly verification (verify_audit_chain, verify_against_anchor).
THEOREM NeverFalseAlarm == TrailSpec => []NoFalseAlarm
<1>1. ChainInv => NoFalseAlarm
  BY DEF ChainInv, AllTx, NoFalseAlarm, Chain!NoFalseAlarm
<1> QED
  BY <1>1, TrailBegins, TrailKeepsChain, PTL DEF TrailSpec

\* The row a transaction commits links to the head it found, which is still the head.
LEMMA CommitLinksToHead ==
    ASSUME LocksInv, HeadsInv, [Chain!Next]_chainVars, Len(chain') > Len(chain), chain'[Len(chain')].tx
    PROVE  chain'[Len(chain')].prev = Chain!Head0(chain)
<1>1. chain \in Seq(Chain!Row) /\ Len(chain) \in Nat
  BY DEF HeadsInv
<1>2. ~Chain!Purge
  <2>1. Chain!Purge => Len(chain') <= Len(chain)
    BY <1>1, SameFilter, FilterKeepsType DEF Chain!Purge
  <2>2. Chain!Purge => chain' \in Seq(Chain!Row)
    BY <1>1, SameFilter, FilterKeepsType DEF Chain!Purge
  <2> QED BY <1>1, <2>1, <2>2
<1>3. chain' # chain
  BY <1>1
<1>4. PICK w \in Writers : Chain!Commit(w)
  BY <1>2, <1>3
  DEF Chain!Next, Chain!Writer, chainVars, Chain!logVars, Chain!checkVars, Chain!Verify,
      Chain!AnchorHead, Chain!ClearAlarm, Chain!BeginTx, Chain!BeginRecord, Chain!ReadHead,
      Chain!Insert, Chain!ReleaseLock, Chain!Rollback, Chain!BusyTimeout
<1>5. Chain!NewRow(w) \in Chain!Row /\ Chain!NewRow(w).prev = prev[w] /\ Chain!NewRow(w).tx = (w \notin Recorders)
  BY DEF Chain!NewRow, Chain!Row, HeadsInv
<1>6. Len(chain') = Len(chain) + 1 /\ chain'[Len(chain) + 1] = Chain!NewRow(w)
  BY <1>1, <1>4, <1>5, AppendRow DEF Chain!Commit
<1>7. Chain!NewRow(w).tx
  BY <1>6
<1>8. w \in Writers \ Recorders /\ pc[w] = "commit"
  BY <1>4, <1>5, <1>7 DEF Chain!Commit, Chain!Goto
<1> QED
  BY <1>5, <1>6, <1>8 DEF HeadsInv

\* Rows that transactions wrote link to the row before, in whichever process, and no row
\* links to one that was rolled back (insert_audit_event reads the head of the committed
\* rows under the write lock).
THEOREM LinksAlwaysHold == TrailSpec => LinksHold
<1>1. ChainInv => Chain!NoDanglingLink
  BY DEF ChainInv, LinksInv, Chain!NoDanglingLink
<1>2. ChainInv' => Chain!NoDanglingLink'
  BY <1>1, PTL
<1>3. ChainInv /\ ChainInv' /\ [TrailNext]_<<half, chainVars, keptVars>> =>
         /\ [Chain!NoDanglingLink']_chainVars
         /\ [Len(chain') > Len(chain) /\ chain'[Len(chain')].tx
                => chain'[Len(chain')].prev = Chain!Head0(chain)]_(Chain!vars)
  BY <1>2, TrailMovesChain, CommitLinksToHead DEF ChainInv, chainVars, Chain!vars
<1> QED
  BY <1>3, TrailBegins, TrailKeepsChain, PTL DEF TrailSpec, LinksHold, Chain!TxRowsLink

-----------------------------------------------------------------------------
(* The forks of the log *)

\* A row is younger than what it links to.  The rows stand in the order in which their
\* hashes were minted, and one that a transaction wrote links to nothing older than any
\* row before it.
OrderInv ==
    /\ \A w \in Writers : prev[w] <= hashes
    /\ \A i \in DOMAIN chain : chain[i].prev < chain[i].hash /\ chain[i].hash <= hashes
    /\ \A i, j \in DOMAIN chain : i < j =>
          chain[i].hash < chain[j].hash /\ (chain[j].tx => chain[i].hash <= chain[j].prev)

\* Of two rows that link to the same row the later is a Recorder's: the two have read one
\* head, and only a writer that reads it outside a transaction can have.
ForksAreRecorders ==
    \A i, j \in DOMAIN chain : i < j /\ chain[i].prev = chain[j].prev => ~chain[j].tx

\* No rows, no forks.
LEMMA OrderBegins == Chain!Init => OrderInv
  BY DEF Chain!Init, OrderInv

\* The hash that a writer reads is none that is still to be minted.
LEMMA HeadIsOld == ASSUME HeadsInv, OrderInv PROVE Chain!Head0(chain) <= hashes /\ Chain!Head0(chain) \in Nat
<1>1. CASE chain = <<>>
  BY <1>1 DEF Chain!Head0, HeadsInv
<1>2. CASE chain # <<>>
  <2>1. Len(chain) \in DOMAIN chain
    BY <1>2 DEF HeadsInv
  <2>2. Chain!Head0(chain) = chain[Len(chain)].hash
    BY <1>2 DEF Chain!Head0
  <2> QED BY <2>1, <2>2, HeadIsHash DEF OrderInv, HeadsInv
<1> QED BY <1>1, <1>2

\* A row that is appended is the youngest, and no other is younger than the head.
LEMMA CommitKeepsOrder ==
    ASSUME LocksInv, HeadsInv, OrderInv, NEW w \in Writers, Chain!Commit(w)
    PROVE  OrderInv'
<1> DEFINE n == Len(chain)
           row == Chain!NewRow(w)
<1>1. row \in Chain!Row /\ row.prev = prev[w] /\ row.hash = hashes + 1 /\ row.tx = (w \notin Recorders)
  BY DEF Chain!NewRow, Chain!Row, HeadsInv
<1>2. chain' = Append(chain, row) /\ chain \in Seq(Chain!Row) /\ hashes' = hashes + 1 /\ prev' = prev
      /\ hashes \in Nat /\ prev \in [Writers -> Nat]
  BY DEF Chain!Commit, HeadsInv
<1> HIDE DEF row
<1>3. /\ n \in Nat /\ chain'[n + 1] = row /\ \A i \in 1 .. n : chain'[i] = chain[i]
      /\ DOMAIN chain' = 1 .. n + 1 /\ DOMAIN chain = 1 .. n
  BY <1>1, <1>2, AppendRow
<1>4. \A i \in 1 .. n : chain[i] \in Chain!Row
  BY <1>2
<1>5. \A i \in 1 .. n : chain[i].hash \in Nat /\ chain[i].prev \in Nat
  BY <1>4 DEF Chain!Row
<1>6. \A i \in 1 .. n : chain[i].hash <= hashes
  BY <1>3 DEF OrderInv
<1>7. row.tx => \A i \in 1 .. n : chain[i].hash <= row.prev
  <2> SUFFICES ASSUME row.tx, NEW i \in 1 .. n PROVE chain[i].hash <= row.prev
    OBVIOUS
  <2>1. w \in Writers \ Recorders /\ pc[w] = "commit"
    BY <1>1 DEF Chain!Commit, Chain!Goto
  <2>2. row.prev = Chain!Head0(chain)
    BY <1>1, <2>1 DEF HeadsInv
  <2>3. Chain!Head0(chain) = chain[n].hash /\ n \in 1 .. n
    BY <1>3 DEF Chain!Head0
  <2>4. i < n => chain[i].hash < chain[n].hash
    BY <1>3, <2>3 DEF OrderInv
  <2> QED BY <1>3, <1>5, <2>2, <2>3, <2>4
<1>8. row.prev < row.hash /\ row.hash <= hashes' /\ \A v \in Writers : prev'[v] <= hashes'
  BY <1>1, <1>2 DEF OrderInv
<1>9. \A i \in DOMAIN chain' : chain'[i].prev < chain'[i].hash /\ chain'[i].hash <= hashes'
  <2> TAKE i \in DOMAIN chain'
  <2>1. CASE i = n + 1
    BY <1>3, <1>8, <2>1
  <2>2. CASE i \in 1 .. n
    BY <1>2, <1>3, <1>5, <2>2 DEF OrderInv
  <2> QED BY <1>3, <2>1, <2>2
<1>10. ASSUME NEW i \in DOMAIN chain', NEW j \in DOMAIN chain', i < j
       PROVE  chain'[i].hash < chain'[j].hash /\ (chain'[j].tx => chain'[i].hash <= chain'[j].prev)
  <2>1. i \in 1 .. n /\ chain'[i] = chain[i]
    BY <1>3, <1>10
  <2>2. CASE j = n + 1
    BY <1>1, <1>2, <1>3, <1>5, <1>6, <1>7, <2>1, <2>2
  <2>3. CASE j \in 1 .. n
    BY <1>3, <1>10, <2>1, <2>3 DEF OrderInv
  <2> QED BY <1>3, <2>2, <2>3
<1> QED BY <1>8, <1>9, <1>10 DEF OrderInv

\* A purge leaves the others in their order.
LEMMA PurgeKeepsOrder == ASSUME HeadsInv, OrderInv, Chain!Purge PROVE OrderInv'
<1> DEFINE T == {r \in Chain!Row : ~r.user}
           f == Filter(chain, T)
<1>1. chain' = f /\ prev' = prev /\ hashes' = hashes /\ chain \in Seq(Chain!Row)
  BY SameFilter DEF Chain!Purge, HeadsInv
<1> HIDE DEF T
<1>2. \A i \in DOMAIN f : \E k \in DOMAIN chain : chain[k] = f[i]
  <2>1. \A s \in Seq(Chain!Row) : \A i \in DOMAIN Filter(s, T) :
            \E k \in DOMAIN s : s[k] = Filter(s, T)[i] /\ s[k] \in T
    BY FilterTakes
  <2> QED BY <1>1, <2>1
<1>3. InOrder(chain, f)
  <2>1. \A s \in Seq(Chain!Row) : InOrder(s, Filter(s, T))
    BY FilterKeepsOrder
  <2> QED BY <1>1, <2>1
<1> HIDE DEF f
<1>4. \A i \in DOMAIN chain' : chain'[i].prev < chain'[i].hash /\ chain'[i].hash <= hashes'
  BY <1>1, <1>2 DEF OrderInv
<1>5. \A i, j \in DOMAIN chain' : i < j =>
          chain'[i].hash < chain'[j].hash /\ (chain'[j].tx => chain'[i].hash <= chain'[j].prev)
  BY <1>1, <1>3 DEF OrderInv, InOrder
<1> QED BY <1>1, <1>4, <1>5 DEF OrderInv

\* Every other step leaves the rows alone, and reads no hash but one that is there.
LEMMA StepKeepsOrder ==
    ASSUME LocksInv, HeadsInv, OrderInv, [Chain!Next]_chainVars PROVE OrderInv'
<1> USE DEF Chain!Goto, Chain!logVars, Chain!checkVars
<1>1. ASSUME NEW w \in Writers, Chain!Commit(w) PROVE OrderInv'
  BY <1>1, CommitKeepsOrder
<1>2. ASSUME NEW w \in Writers, Chain!ReadHead(w) PROVE OrderInv'
  BY <1>2, HeadIsOld DEF Chain!ReadHead, HeadsInv, OrderInv
<1>3. ASSUME UNCHANGED <<chain, prev>>, hashes' \in {hashes, hashes + 1} PROVE OrderInv'
  <2>1. \A i \in DOMAIN chain : chain[i].hash \in Nat
    <3>1. \A i \in DOMAIN chain : chain[i] \in Chain!Row
      BY DEF HeadsInv
    <3> QED BY <3>1 DEF Chain!Row
  <2> QED BY <1>3, <2>1 DEF OrderInv, HeadsInv
<1>4. ASSUME NEW w \in Writers,
             \/ Chain!BeginTx(w) \/ Chain!BeginRecord(w) \/ Chain!Insert(w)
             \/ Chain!ReleaseLock(w) \/ Chain!Rollback(w) \/ Chain!BusyTimeout(w)
      PROVE  OrderInv'
  BY <1>3, <1>4
  DEF Chain!BeginTx, Chain!BeginRecord, Chain!Insert, Chain!ReleaseLock, Chain!Rollback,
      Chain!BusyTimeout
<1>5. CASE Chain!Verify \/ Chain!AnchorHead \/ Chain!ClearAlarm \/ UNCHANGED chainVars
  BY <1>3, <1>5 DEF Chain!Verify, Chain!AnchorHead, Chain!ClearAlarm, chainVars
<1>6. CASE Chain!Purge
  BY <1>6, PurgeKeepsOrder
<1> QED BY <1>1, <1>2, <1>4, <1>5, <1>6 DEF Chain!Next, Chain!Writer

\* How much of "can never read the same prev_hash" holds: for any number of writers, with
\* whatever timeouts, rollbacks and purges, a fork of the log is the work of a row that was
\* recorded outside a transaction (record_audit_event), never of one that was written in it.
THEOREM ForksAreAlwaysRecorders == TrailSpec => []ForksAreRecorders
<1> DEFINE Inv == ChainInv /\ OrderInv
<1>1. TrailInit => Inv
  BY TrailBegins, OrderBegins DEF TrailInit
<1>2. Inv /\ [TrailNext]_<<half, chainVars, keptVars>> => Inv'
  BY TrailMovesChain, TrailKeepsChain, StepKeepsOrder DEF ChainInv
<1>3. Inv => ForksAreRecorders
  <2> SUFFICES ASSUME Inv, NEW i \in DOMAIN chain, NEW j \in DOMAIN chain, i < j,
                      chain[i].prev = chain[j].prev, chain[j].tx
               PROVE  FALSE
    BY DEF ForksAreRecorders
  <2>1. chain[i].prev < chain[i].hash /\ chain[i].hash <= chain[j].prev
    BY DEF OrderInv
  <2>2. chain[i] \in Chain!Row /\ chain[j] \in Chain!Row
    BY DEF ChainInv, HeadsInv
  <2>3. chain[i].prev \in Nat /\ chain[i].hash \in Nat
    BY <2>2 DEF Chain!Row
  <2> QED BY <2>1, <2>3
<1> QED
  BY <1>1, <1>2, <1>3, PTL DEF TrailSpec

-----------------------------------------------------------------------------
(* Retention *)

\* What a pass has found was staged and is not pending, and never will be again.
KeptInv ==
    /\ status \in [Ops -> Kept!Statuses] /\ order \in Seq(Ops) /\ pass \in [Passes -> Seq(Ops)]
    /\ trail \in [Ops -> Nat] /\ scrubbed \subseteq Ops
    /\ \A o \in Ops : status[o] # "absent" => o \in staged
    /\ \A p \in Passes : \A i \in DOMAIN pass[p] :
          pass[p][i] \in staged /\ status[pass[p][i]] # "pending"
    /\ Kept!PendingKeepsBody /\ Kept!ScrubIsAudited

\* At the start nothing is staged.
LEMMA KeptBegins == Kept!Init => KeptInv
  BY DEF Kept!Init, KeptInv, Kept!Statuses, Kept!PendingKeepsBody, Kept!ScrubIsAudited

\* What is left of a pass was found by it.
LEMMA PassGoesOn ==
    ASSUME KeptInv, NEW p \in Passes, pass[p] # <<>>, pass' = [pass EXCEPT ![p] = Tail(@)],
           staged \subseteq staged', \A o \in Ops : status'[o] = "pending" => status[o] = "pending"
    PROVE  /\ Head(pass[p]) \in Ops /\ Head(pass[p]) \in staged /\ status[Head(pass[p])] # "pending"
           /\ pass' \in [Passes -> Seq(Ops)]
           /\ \A q \in Passes : \A i \in DOMAIN pass'[q] :
                  pass'[q][i] \in staged' /\ status'[pass'[q][i]] # "pending"
  <1>1. /\ pass[p] \in Seq(Ops) /\ Len(pass[p]) \in Nat \ {0} /\ 1 \in DOMAIN pass[p]
        /\ Head(pass[p]) = pass[p][1] /\ Tail(pass[p]) \in Seq(Ops)
        /\ \A i \in DOMAIN Tail(pass[p]) : i + 1 \in DOMAIN pass[p] /\ Tail(pass[p])[i] = pass[p][i + 1]
    BY DEF KeptInv
  <1>2. /\ Head(pass[p]) \in Ops /\ Head(pass[p]) \in staged /\ status[Head(pass[p])] # "pending"
        /\ pass' \in [Passes -> Seq(Ops)]
    BY <1>1 DEF KeptInv
  <1>3. ASSUME NEW q \in Passes, NEW i \in DOMAIN pass'[q]
        PROVE  pass'[q][i] \in staged' /\ status'[pass'[q][i]] # "pending"
    <2>1. PICK j \in DOMAIN pass[q] : pass'[q][i] = pass[q][j]
      <3>1. CASE q = p
        BY <1>1, <1>3, <3>1 DEF KeptInv
      <3>2. CASE q # p
        BY <1>3, <3>2 DEF KeptInv
      <3> QED BY <3>1, <3>2
    <2>2. pass[q][j] \in Ops
      BY DEF KeptInv
    <2> QED BY <2>1, <2>2 DEF KeptInv
  <1> QED BY <1>2, <1>3

\* No step of staging, deciding, scrubbing, deleting or purging breaks it.
LEMMA KeptSteps == KeptInv /\ [Kept!Next]_keptVars => KeptInv'
  <1> SUFFICES ASSUME KeptInv, [Kept!Next]_keptVars PROVE KeptInv'
    OBVIOUS
  <1>0. \A p \in Passes : pass[p] \in Seq(Ops) /\ \A i \in DOMAIN pass[p] : pass[p][i] \in Ops
    BY DEF KeptInv
  <1>1. ASSUME NEW o \in Ops, Kept!Stage(o) PROVE KeptInv'
    <2>1. \A p \in Passes : \A i \in DOMAIN pass[p] : pass[p][i] # o
      BY <1>1 DEF Kept!Stage, KeptInv
    <2> QED
      BY <1>0, <1>1, <2>1
      DEF Kept!Stage, KeptInv, Kept!Statuses, Kept!PendingKeepsBody, Kept!ScrubIsAudited
  <1>2. ASSUME NEW o \in Ops, Kept!Undo(o) PROVE KeptInv'
    <2>1. order' \in Seq(Ops)
      BY <1>2, SameFilter, FilterKeepsType DEF Kept!Undo, Kept!Without, KeptInv
    <2> QED
      BY <1>0, <1>2, <2>1
      DEF Kept!Undo, KeptInv, Kept!Statuses, Kept!PendingKeepsBody, Kept!ScrubIsAudited
  <1>3. ASSUME NEW o \in Ops, NEW s \in Kept!Decided, Kept!Decide(o, s) PROVE KeptInv'
    <2>1. order' \in Seq(Ops)
      BY <1>3, SameFilter, FilterKeepsType DEF Kept!Decide, Kept!Without, KeptInv
    <2>2. s \in Kept!Statuses /\ s # "pending" /\ s # "absent" /\ status[o] # "absent"
      BY <1>3 DEF Kept!Decide, Kept!Decided, Kept!Statuses
    <2> QED
      BY <1>0, <1>3, <2>1, <2>2
      DEF Kept!Decide, KeptInv, Kept!PendingKeepsBody, Kept!ScrubIsAudited
  <1>4. ASSUME NEW o \in Ops, Kept!Age(o) PROVE KeptInv'
    BY <1>4 DEF Kept!Age, KeptInv, Kept!PendingKeepsBody, Kept!ScrubIsAudited
  <1>5. CASE Kept!SessionEnds \/ Kept!WindowPasses \/ Kept!PurgeReads \/ Kept!PurgeFails
    BY <1>5 DEF Kept!SessionEnds, Kept!WindowPasses, Kept!PurgeReads, Kept!PurgeFails,
                KeptInv, Kept!PendingKeepsBody, Kept!ScrubIsAudited
  <1>6. CASE Kept!DeleteAccount
    <2> DEFINE pending == {o \in Ops : status[o] = "pending"}
    <2>1. Filter(order, Ops \ pending) \in Seq(Ops) /\ Filter(order, pending) \in Seq(Ops)
      BY FilterKeepsType DEF KeptInv
    <2>2. order' \in Seq(Ops)
      BY <1>6, <2>1, SameFilter DEF Kept!DeleteAccount
    <2> QED
      BY <1>0, <1>6, <2>2
      DEF Kept!DeleteAccount, KeptInv, Kept!Statuses, Kept!PendingKeepsBody,
          Kept!ScrubIsAudited
  <1>7. CASE Kept!PurgeDeletes
    <2>1. order' \in Seq(Ops)
      BY <1>7, SameFilter, FilterKeepsType DEF Kept!PurgeDeletes, KeptInv
    <2> QED
      BY <1>0, <1>7, <2>1
      DEF Kept!PurgeDeletes, KeptInv, Kept!Statuses, Kept!PendingKeepsBody,
          Kept!ScrubIsAudited
  <1>8. ASSUME NEW p \in Passes, Kept!FindScrubable(p) PROVE KeptInv'
    <2> DEFINE found == Filter(order, Kept!Scrubable)
               n == IF Len(found) < Limit THEN Len(found) ELSE Limit
    <2>1. found \in Seq(Ops) /\ found \in Seq(Kept!Scrubable)
      BY FilterKeepsType DEF KeptInv
    <2>2. pass' = [pass EXCEPT ![p] = SubSeq(found, 1, n)]
      BY <1>8, SameFilter DEF Kept!FindScrubable
    <2>3. n \in Nat /\ n <= Len(found)
      BY <2>1, KeptAssumption DEF Kept!RetentionAssumption
    <2> HIDE DEF found, n
    <2>4. SubSeq(found, 1, n) \in Seq(Ops) /\ \A i \in DOMAIN SubSeq(found, 1, n) : SubSeq(found, 1, n)[i] \in Kept!Scrubable
      BY <2>1, <2>3
    <2>5. \A o \in Kept!Scrubable : o \in Ops => status[o] # "pending" /\ o \in staged
      BY DEF Kept!Scrubable, Kept!Decided, KeptInv
    <2>6. \A i \in DOMAIN SubSeq(found, 1, n) : SubSeq(found, 1, n)[i] \in Ops
      BY <2>4
    <2> QED
      BY <1>8, <2>2, <2>4, <2>5, <2>6
      DEF Kept!FindScrubable, KeptInv, Kept!PendingKeepsBody, Kept!ScrubIsAudited
  <1>9. ASSUME NEW p \in Passes, Kept!ScrubOne(p) PROVE KeptInv'
    <2> DEFINE o == Head(pass[p])
    <2>1. pass[p] # <<>> /\ pass' = [pass EXCEPT ![p] = Tail(@)] /\ staged' = staged /\ status' = status
      BY <1>9 DEF Kept!ScrubOne
    <2>2. /\ o \in Ops /\ status[o] # "pending" /\ pass' \in [Passes -> Seq(Ops)]
          /\ \A q \in Passes : \A i \in DOMAIN pass'[q] :
                 pass'[q][i] \in staged' /\ status'[pass'[q][i]] # "pending"
      BY <2>1, PassGoesOn
    <2> HIDE DEF o
    <2>3. /\ trail' = [trail EXCEPT ![o] = @ + 1] /\ order' = order
          /\ \/ scrubbed' = scrubbed /\ body' = body
             \/ scrubbed' = scrubbed \cup {o} /\ body' = body \ {o}
      BY <1>9 DEF Kept!ScrubOne, o
    <2> QED
      BY <2>1, <2>2, <2>3 DEF KeptInv, Kept!PendingKeepsBody, Kept!ScrubIsAudited
  <1>10. ASSUME NEW p \in Passes, Kept!ScrubFails(p) PROVE KeptInv'
    <2>1. /\ pass' \in [Passes -> Seq(Ops)]
          /\ \A q \in Passes : \A i \in DOMAIN pass'[q] :
                 pass'[q][i] \in staged' /\ status'[pass'[q][i]] # "pending"
      BY <1>10, PassGoesOn DEF Kept!ScrubFails
    <2> QED
      BY <1>10, <2>1 DEF Kept!ScrubFails, KeptInv, Kept!PendingKeepsBody, Kept!ScrubIsAudited
  <1>11. CASE UNCHANGED keptVars
    BY <1>11 DEF keptVars, KeptInv, Kept!PendingKeepsBody, Kept!ScrubIsAudited
  <1> QED
    BY <1>1, <1>2, <1>3, <1>4, <1>5, <1>6, <1>7, <1>8, <1>9, <1>10, <1>11
    DEF Kept!Next, Kept!Purge, Kept!Pass

\* The body of an operation that may still be executed is in its row, and no body goes
\* without its event, whatever passes have found before an account is deleted or
\* purged (find_scrubable_operations, _scrub_one).
THEOREM ScrubbingAlwaysSafe == TrailSpec => []ScrubbingIsSafe
  <1>1. TrailInit => KeptInv
    BY KeptBegins DEF TrailInit
  <1>2. KeptInv /\ [TrailNext]_<<half, chainVars, keptVars>> => KeptInv'
    BY KeptSteps DEF TrailNext
  <1>3. KeptInv => ScrubbingIsSafe
    BY DEF KeptInv, ScrubbingIsSafe
  <1> QED BY <1>1, <1>2, <1>3, PTL DEF TrailSpec

=============================================================================
