------------------------------ MODULE LoginGuard ------------------------------
(***************************************************************************)
(* AuthAbuseProtector (gateway/security_controls.py) around the logins of   *)
(* the IMAP proxy, the SMTP proxy and the web API.  A login reserves an     *)
(* attempt, is verified, and records the outcome; other logins run and time *)
(* passes in between.  All state is in the memory of one process.           *)
(***************************************************************************)
EXTENDS Naturals, Sequences, FiniteSets, SequencesExt, Filters

CONSTANTS
    Logins,                         \* logins that may run at once
    Ips, Accounts,
    AttemptWindow, MaxPerIp, MaxPerAccount,
    FailureWindow, MaxFailures,
    BaseLockout, MaxLockout,
    MaxTime                         \* bound on the clock

GuardAssumption ==
    /\ {AttemptWindow, FailureWindow, MaxFailures, BaseLockout, MaxLockout} \subseteq Nat \ {0}
    /\ MaxPerIp \in Nat /\ MaxPerAccount \in Nat /\ MaxTime \in Nat
    /\ Ips \cap Accounts = {} /\ BaseLockout <= MaxLockout

VARIABLES
    now,
    attempts, failures,     \* of each key, an IP or an account: times
    until, count,           \* _lockout_until, _lockout_count
    login,                  \* of each login: its keys while it is verified
    allowed, failed         \* history, per key: times of attempts allowed, of
                            \* failures since the last success

vars == <<now, attempts, failures, until, count, login, allowed, failed>>

Keys == Ips \cup Accounts
Idle == [ip |-> "none", account |-> "none"]
Busy(l) == login[l] # Idle
KeysOf(l) == {login[l].ip, login[l].account}
Cap(k) == IF k \in Ips THEN MaxPerIp ELSE MaxPerAccount

\* No bucket outgrows its cap, and a key that was never locked out is not.
TypeOK ==
    /\ now \in 0 .. MaxTime
    /\ \A k \in Keys :
          /\ attempts[k] \in Seq(0 .. now) /\ Len(attempts[k]) <= Cap(k)
          /\ failures[k] \in Seq(0 .. now)
          /\ until[k] \in 0 .. now + MaxLockout
          /\ count[k] \in Nat /\ (count[k] = 0 => until[k] = 0)
    /\ \A l \in Logins : Busy(l) => login[l] \in [ip : Ips, account : Accounts]

Init ==
    /\ now = 0
    /\ attempts = [k \in Keys |-> <<>>] /\ failures = [k \in Keys |-> <<>>]
    /\ until = [k \in Keys |-> 0] /\ count = [k \in Keys |-> 0]
    /\ login = [l \in Logins |-> Idle]
    /\ allowed = [k \in Keys |-> <<>>] /\ failed = [k \in Keys |-> <<>>]

\* The times that are less than a window before the time given.
Recent(window, time) == {t \in Nat : t + window > time}

\* (mutant) one second is pruned too early
PruneEarly(bucket, window) == Filter(bucket, Recent(window, now + 1))
\* Times up to now - window are dropped.
Prune(bucket, window) == Filter(bucket, Recent(window, now))

StartAttempt(l, ip, account) ==
    /\ ~Busy(l)
    /\ until[ip] <= now /\ until[account] <= now
    /\ LET pruned == [k \in Keys |-> IF k \in {ip, account} THEN Prune(attempts[k], AttemptWindow)
                                     ELSE attempts[k]]
       IN  IF Len(pruned[ip]) >= MaxPerIp \/ Len(pruned[account]) >= MaxPerAccount
           THEN attempts' = pruned /\ UNCHANGED <<login, allowed>>
           ELSE /\ attempts' = [k \in Keys |-> IF k \in {ip, account} THEN Append(pruned[k], now)
                                               ELSE pruned[k]]
                /\ allowed' = [k \in Keys |-> IF k \in {ip, account} THEN Append(allowed[k], now)
                                              ELSE allowed[k]]
                /\ login' = [login EXCEPT ![l] = [ip |-> ip, account |-> account]]
    /\ UNCHANGED <<now, failures, until, count, failed>>

Clear(f, l, v) == [k \in Keys |-> IF k \in KeysOf(l) THEN v ELSE f[k]]

\* verify_agent_login, verify_password: right.  The counters are kept.
RecordSuccess(l) ==
    /\ Busy(l)
    /\ failures' = Clear(failures, l, <<>>) /\ until' = Clear(until, l, 0)
    /\ failed' = Clear(failed, l, <<>>)
    /\ login' = [login EXCEPT ![l] = Idle]
    /\ UNCHANGED <<now, attempts, count, allowed>>

\* base * 2 ** n
Doubled(n) ==
    LET time[i \in 0 .. n] == IF i = 0 THEN BaseLockout ELSE 2 * time[i - 1]
    IN  time[n]

\* (mutant) at the cap it starts again
DurationRestarts(n) == IF Doubled(n - 1) < MaxLockout THEN Doubled(n - 1) ELSE BaseLockout
Duration(n) == IF Doubled(n - 1) < MaxLockout THEN Doubled(n - 1) ELSE MaxLockout

LockedOut(l, recent) == {k \in KeysOf(l) : Len(recent[k]) >= MaxFailures}

RecordFailure(l) ==
    /\ Busy(l)
    /\ LET recent == [k \in Keys |-> IF k \in KeysOf(l) THEN Append(Prune(failures[k], FailureWindow), now)
                                     ELSE failures[k]]
           locked == LockedOut(l, recent)
       IN  /\ failures' = recent
           /\ count' = [k \in Keys |-> IF k \in locked THEN count[k] + 1 ELSE count[k]]
           /\ until' = [k \in Keys |-> IF k \in locked THEN now + Duration(count[k] + 1) ELSE until[k]]
    /\ failed' = [k \in Keys |-> IF k \in KeysOf(l) THEN Append(failed[k], now) ELSE failed[k]]
    /\ login' = [login EXCEPT ![l] = Idle]
    /\ UNCHANGED <<now, attempts, allowed>>

\* The client disconnects, or the database fails, while the login is verified.
Abandon(l) ==
    /\ Busy(l) /\ login' = [login EXCEPT ![l] = Idle]
    /\ UNCHANGED <<now, attempts, failures, until, count, allowed, failed>>

\* History no property looks at any more is forgotten.
Tick ==
    /\ now < MaxTime /\ now' = now + 1
    /\ allowed' = [k \in Keys |-> Filter(allowed[k], Recent(AttemptWindow, now'))]
    /\ failed' = [k \in Keys |-> Filter(failed[k], Recent(FailureWindow, now'))]
    /\ UNCHANGED <<attempts, failures, until, count, login>>

Next ==
    \/ Tick
    \/ \E l \in Logins :
          \/ \E ip \in Ips, account \in Accounts : StartAttempt(l, ip, account)
          \/ RecordSuccess(l) \/ RecordFailure(l) \/ Abandon(l)

Spec == Init /\ [][Next]_vars

-----------------------------------------------------------------------------
(* Properties *)

\* No account is tried, and no IP tries, more often than allowed in any window
\* of time, whatever runs at once (start_attempt reserves before it verifies).
AttemptsBounded == \A k \in Keys : Len(allowed[k]) <= Cap(k)

\* After MaxFailures failures within the window and no success the key is locked
\* for the base time at least, also when the failures were verified at once and
\* came in late (record_failure).
FailuresLock ==
    \A k \in Keys :
        Len(failed[k]) >= MaxFailures => until[k] >= Last(failed[k]) + BaseLockout

\* A lockout is ended by a success only, never shortened by a later failure:
\* "lockouts with exponential backoff" (AuthAbuseProtector).
LockoutIsNotShortened ==
    [][\A k \in Keys : until'[k] >= until[k] \/ failed'[k] = <<>>]_vars

=============================================================================
