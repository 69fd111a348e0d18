------------------------------ MODULE MCAccounts ------------------------------
(***************************************************************************)
(* Instances for TLC of the accounts, of the login guard before them and of *)
(* the ceilings on what the agents of one account may send.  The rows of    *)
(* the accounts, the guard's memory and the audited sends are apart, so     *)
(* that a behaviour moves one `part` only.                                  *)
(***************************************************************************)
EXTENDS Accounts, TLC

CONSTANTS
    Logins, Ips, Targets,                           \* of LoginGuard
    AttemptWindow, MaxPerIp, MaxPerAccount,
    FailureWindow, MaxFailures, BaseLockout, MaxLockout, MaxTime,
    Sends, FirstAgentSends, AgentCap, AccountCap, DayCap,    \* of SendRate
    Window, Day, MaxRecipients, MaxInFlight, MaxSendTime

VARIABLES
    part,                                                               \* the one that moves
    now, attempts, failures, until, count, login, allowed, failed,      \* of LoginGuard
    clock, progress, recipients, at                                     \* of SendRate

guardVars == <<now, attempts, failures, until, count, login, allowed, failed>>
rateVars  == <<clock, progress, recipients, at>>

Guard == INSTANCE LoginGuard WITH Accounts <- Targets
Rate  == INSTANCE SendRate WITH now <- clock, pc <- progress, MaxTime <- MaxSendTime

ASSUME LoginsAssumption == Guard!GuardAssumption
ASSUME RateAssumption == Rate!SendsAssumption /\ Rate!LimitsAssumption

\* Requests, logins and the accounts they try are only names.
Symmetry == Permutations(Requests) \cup Permutations(Logins) \cup Permutations(Targets)

AccountsInit ==
    /\ part \in {"accounts", "guard", "rate"}
    /\ Init /\ Guard!Init /\ Rate!Init

AccountsNext ==
    \/ part = "accounts" /\ Next /\ UNCHANGED <<part, guardVars, rateVars>>
    \/ part = "guard" /\ Guard!Next /\ UNCHANGED <<part, vars, rateVars>>
    \/ part = "rate" /\ Rate!Next /\ UNCHANGED <<part, vars, guardVars>>

AccountsSpec == AccountsInit /\ [][AccountsNext]_<<part, vars, guardVars, rateVars>>

\* No account is tried, and no IP tries, more often than allowed in any window of
\* time, whatever runs at once (start_attempt reserves before it verifies); and with
\* at most MaxInFlight sends between their check and their audit row a ceiling of
\* sends is overrun by what the others of these carry, and no more
\* (enforce_send_rate, _execute_smtp).
RatesAreBounded == Guard!AttemptsBounded /\ Rate!OvershootIsBounded

\* Enough failures in a window and no success lock the key, also when they were
\* verified at once and came in late, and a failure never ends a lockout earlier
\* than it would have ended: "lockouts with exponential backoff" (record_failure).
LockoutsHold == [][Guard!FailuresLock']_guardVars /\ Guard!LockoutIsNotShortened

=============================================================================
