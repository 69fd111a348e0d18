------------------------------ MODULE OAuthFlow ------------------------------
(***************************************************************************)
(* The XOAUTH2 setup flow of api/routes/oauth2.py: the user's browser asks  *)
(* for a state, comes back with it from the provider as often as it likes,  *)
(* and the web client fetches the result, the token of the new agent, once. *)
(* States and results are dictionaries of the process; nothing but the row  *)
(* outlives it.  The provider and the browser are external; Credentials has *)
(* the secrets and the grant.                                               *)
(***************************************************************************)
EXTENDS Naturals, FiniteSets, Sequences

CONSTANTS
    States,         \* the nonces of the flows
    Users, Providers,
    Callbacks,      \* requests to the callback that run at a time
    MaxFaults       \* bound on restarts, calls that fail and answers that are lost

None == "none"

FlowAssumption == MaxFaults \in Nat /\ None \notin Users

VARIABLES
    pending,        \* _pending: of a state, the user and the provider, or none
    old,            \* states older than _STATE_TTL
    results,        \* _results: "none", "error" or "token" of a user
    callback,       \* of each request: where it is, its state and what was pending
    rows,           \* committed agent rows: their state and user
    started,        \* history: of each state, the user that has started it
    handed,         \* history: <<state, user>> of each token that was handed out
    taken,          \* history: states whose result was asked for and consumed
    excused,        \* history: states that were forgotten, or used for another provider
    faults

flowVars == <<pending, old, results>>
histVars == <<started, handed, taken, excused>>
vars == <<flowVars, callback, rows, histVars, faults>>

Nobody == [user |-> None, provider |-> None]
NoResult == [kind |-> "none", user |-> None]
Idle == [pc |-> "idle", state |-> None, flow |-> Nobody]

Entries == [user : Users, provider : Providers]

\* A callback at work holds the flow it has popped from _pending.
TypeOK ==
    /\ pending \in [States -> Entries \cup {Nobody}] /\ old \subseteq States
    /\ results \in [States -> {NoResult} \cup [kind : {"error", "token"}, user : Users]]
    /\ \A c \in Callbacks :
          /\ callback[c].pc \in {"idle", "exchange", "store", "insert", "report", "cleanup"}
          /\ callback[c].pc # "idle" => callback[c].state \in States /\ callback[c].flow \in Entries
    /\ taken \cup excused \subseteq States

Init ==
    /\ pending = [s \in States |-> Nobody] /\ old = {} /\ results = [s \in States |-> NoResult]
    /\ callback = [c \in Callbacks |-> Idle] /\ rows = {}
    /\ started = [s \in States |-> None] /\ handed = <<>> /\ taken = {} /\ excused = {}
    /\ faults = 0

Fault == faults < MaxFaults /\ faults' = faults + 1
Result(s, k, u) == results' = [results EXCEPT ![s] = [kind |-> k, user |-> u]]
Go(c, to) == callback' = [callback EXCEPT ![c].pc = to]
Ends(c) == callback' = [callback EXCEPT ![c] = Idle]

-----------------------------------------------------------------------------

\* /start: states that are too old are forgotten, a new one is drawn.
Start(s, u, p) ==
    /\ started[s] = None /\ started' = [started EXCEPT ![s] = u]
    /\ pending' = [t \in States |-> IF t = s THEN [user |-> u, provider |-> p]
                                    ELSE IF t \in old THEN Nobody ELSE pending[t]]
    /\ excused' = excused \cup {t \in old : pending[t] # Nobody}
    /\ UNCHANGED <<old, results, callback, rows, handed, taken, faults>>

Age(s) ==
    /\ started[s] # None /\ old' = old \cup {s} /\ s \notin old
    /\ UNCHANGED <<pending, results, callback, rows, histVars, faults>>

\* (mutant) the state is given up when the callback is done with it
AcceptAndKeep(c, s, p) ==
    /\ callback[c] = Idle /\ pending[s] # Nobody /\ pending[s].provider = p
    /\ callback' = [callback EXCEPT ![c] = [pc |-> "exchange", state |-> s, flow |-> pending[s]]]
    /\ UNCHANGED <<flowVars, rows, histVars, faults>>

\* /callback, with no await from the look at _pending to its pop: of two requests
\* with a state one finds it.  A state that is not pending is only redirected.
Accept(c, s, p) ==
    /\ callback[c] = Idle /\ pending[s] # Nobody /\ pending[s].provider = p
    /\ pending' = [pending EXCEPT ![s] = Nobody]
    /\ callback' = [callback EXCEPT ![c] = [pc |-> "exchange", state |-> s, flow |-> pending[s]]]
    /\ UNCHANGED <<old, results, rows, histVars, faults>>

\* The state of another provider's flow: used up, and no result is kept.
Mismatch(s, p) ==
    /\ pending[s] # Nobody /\ pending[s].provider # p
    /\ pending' = [pending EXCEPT ![s] = Nobody] /\ excused' = excused \cup {s}
    /\ UNCHANGED <<old, results, callback, rows, started, handed, taken, faults>>

\* The user declined, there is no code, or the server has no client credentials.
Declined(s) ==
    /\ pending[s] # Nobody /\ pending' = [pending EXCEPT ![s] = Nobody]
    /\ Result(s, "error", pending[s].user)
    /\ UNCHANGED <<old, callback, rows, histVars, faults>>

\* _exchange_code and store_credential, each awaited.
Step(c, from, to) ==
    /\ callback[c].pc = from /\ Go(c, to)
    /\ UNCHANGED <<flowVars, rows, histVars, faults>>

Exchange(c) == Step(c, "exchange", "store")
Store(c) == Step(c, "store", "insert")

Insert(c) ==
    /\ callback[c].pc = "insert" /\ Go(c, "report")
    /\ rows' = rows \cup {<<c, callback[c].state, callback[c].flow.user>>}
    /\ UNCHANGED <<flowVars, histVars, faults>>

Report(c) ==
    /\ callback[c].pc = "report" /\ Ends(c)
    /\ Result(callback[c].state, "token", callback[c].flow.user)
    /\ UNCHANGED <<pending, old, rows, histVars, faults>>

\* Any of them raises: secrets that were stored are deleted, awaited too.
Fails(c) ==
    /\ callback[c].pc \in {"exchange", "store", "insert"} /\ Fault /\ Go(c, "cleanup")
    /\ UNCHANGED <<flowVars, rows, histVars>>

\* (mutant) the user of the flow is not noted with the error
CleanupQuietly(c) ==
    /\ callback[c].pc = "cleanup" /\ Ends(c)
    /\ UNCHANGED <<flowVars, rows, histVars, faults>>

Cleanup(c) ==
    /\ callback[c].pc = "cleanup" /\ Ends(c)
    /\ Result(callback[c].state, "error", callback[c].flow.user)
    /\ UNCHANGED <<pending, old, rows, histVars, faults>>

\* (mutant) whoever knows the state is given the result
PollAnyone(s, u) ==
    /\ results[s] # NoResult /\ results' = [results EXCEPT ![s] = NoResult]
    /\ handed' = IF results[s].kind = "token" THEN Append(handed, <<s, u>>) ELSE handed
    /\ taken' = taken \cup {s}
    /\ UNCHANGED <<pending, old, callback, rows, started, excused, faults>>

\* /result: consumed by its owner's first request, whether the answer arrives or
\* not; anybody else is told that there is none.
Poll(s, u) ==
    /\ results[s] # NoResult /\ results[s].user = u
    /\ results' = [results EXCEPT ![s] = NoResult] /\ taken' = taken \cup {s}
    /\ \/ /\ handed' = IF results[s].kind = "token" THEN Append(handed, <<s, u>>) ELSE handed
          /\ UNCHANGED faults
       \/ Fault /\ UNCHANGED handed
    /\ UNCHANGED <<pending, old, callback, rows, started, excused>>

\* The API process ends: states, results and requests are gone.
Restart ==
    /\ Fault
    /\ pending' = [s \in States |-> Nobody] /\ results' = [s \in States |-> NoResult]
    /\ callback' = [c \in Callbacks |-> Idle]
    /\ excused' = excused \cup {s \in States : started[s] # None}
    /\ UNCHANGED <<old, rows, started, handed, taken>>

Next ==
    \/ \E s \in States, u \in Users, p \in Providers : Start(s, u, p)
    \/ \E s \in States : Age(s) \/ Declined(s)
    \/ \E s \in States, p \in Providers : Mismatch(s, p) \/ \E c \in Callbacks : Accept(c, s, p)
    \/ \E c \in Callbacks :
          Exchange(c) \/ Store(c) \/ Insert(c) \/ Report(c) \/ Fails(c) \/ Cleanup(c)
    \/ \E s \in States, u \in Users : Poll(s, u)
    \/ Restart

Spec == Init /\ [][Next]_vars

-----------------------------------------------------------------------------
(* Properties *)

\* A flow makes one agent at most, of the user who has begun it, and its token is
\* handed out once, to that user, however often the browser comes back.
\* api/routes/oauth2.py:564-566 - "a leaked state value cannot be used to steal
\* another user's freshly minted agent token".
TokenGoesToOwner ==
    /\ \A r, q \in rows : r[3] = started[r[2]] /\ (r[2] = q[2] => r = q)
    /\ \A i, j \in DOMAIN handed : handed[i][2] = started[handed[i][1]] /\ (handed[i] = handed[j] => i = j)

Running(s) == \E c \in Callbacks : callback[c].pc # "idle" /\ callback[c].state = s

\* A state that was used up is being worked on, or has a result, waiting or taken.
\* api/routes/oauth2.py:428-430 - "On any failure: stores error in _results ... so
\* the SPA can show a useful message".
FlowReportsBack ==
    \A s \in States :
        started[s] # None /\ pending[s] = Nobody =>
            Running(s) \/ results[s] # NoResult \/ s \in taken \cup excused

(* What comments say and the code does not keep to *)

\* api/routes/oauth2.py:560-561 - /result answers 404 if the state is "expired": a
\* result does not expire.
ResultsExpire == [][\A s \in old : s \in taken' => s \in taken]_vars

=============================================================================
