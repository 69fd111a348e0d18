---------------------------- MODULE AccessTokens ----------------------------
(***************************************************************************)
(* get_access_token (gateway/oauth2_tokens.py): the access tokens of one    *)
(* agent, cached in the process and refreshed by one connection at a time.  *)
(* Other agents have a lock and an entry of their own.  The provider dates  *)
(* a token when it issues it, the cache when the answer has arrived, which  *)
(* is up to Latency later.                                                  *)
(***************************************************************************)
EXTENDS Naturals, Sequences, FiniteSets, SequencesExt

CONSTANTS
    Callers,            \* IMAP and SMTP connections of the agent, executions
    Lifetime,           \* expires_in
    Buffer,             \* _EXPIRY_BUFFER_SECONDS
    Latency,            \* the longest a request may take (timeout=15)
    MaxTime, MaxFaults  \* bounds of the model

TokenAssumption ==
    /\ {Lifetime, Buffer, Latency, MaxTime, MaxFaults} \subseteq Nat
    /\ Latency < Buffer /\ Buffer < Lifetime

NoToken == [issued |-> 0, expires |-> 0]

VARIABLES
    now,
    cache,          \* _access_token_cache[agent_id]
    queue,          \* asyncio.Lock: the holder, then the waiters in order
    pc,             \* where each caller is
    sentAt,         \* when its request was sent
    got,            \* the token it was given last
    wasted, faults  \* history: a token was refreshed that was still fresh

vars == <<now, cache, queue, pc, sentAt, got, wasted, faults>>

Token == [issued : 0 .. MaxTime, expires : 0 .. MaxTime + Lifetime]

\* A connection is in line for the lock exactly while it refreshes or waits to;
\* the first of the line alone talks to the provider, for Latency at most.
TypeOK ==
    /\ now \in 0 .. MaxTime /\ cache \in Token
    /\ queue \in Seq(Callers) /\ IsInjective(queue)
    /\ pc \in [Callers -> {"idle", "waits", "sends", "awaits", "failed", "served"}]
    /\ \A c \in Callers :
          /\ (pc[c] \in {"waits", "sends", "awaits"}) <=> c \in ToSet(queue)
          /\ pc[c] \in {"sends", "awaits"} => c = Head(queue)
          /\ pc[c] = "awaits" => sentAt[c] <= now /\ now <= sentAt[c] + Latency
    /\ faults \in 0 .. MaxFaults /\ wasted \in BOOLEAN

Init ==
    /\ now = 0 /\ cache = NoToken /\ queue = <<>>
    /\ pc = [c \in Callers |-> "idle"] /\ sentAt = [c \in Callers |-> 0]
    /\ got = [c \in Callers |-> NoToken]
    /\ wasted = FALSE /\ faults = 0

\* (mutant) without the buffer
FreshUntilExpiry == cache.expires > now
Fresh == cache.expires > now + Buffer

Goto(c, l) == pc' = [pc EXCEPT ![c] = l]
Serve(c, t) == got' = [got EXCEPT ![c] = t] /\ Goto(c, "served")

\* The fast path: no await before the entry is returned.
FastPath(c) ==
    /\ pc[c] = "idle" /\ Fresh
    /\ Serve(c, cache)
    /\ UNCHANGED <<now, cache, queue, sentAt, wasted, faults>>

SlowPath(c) ==
    /\ pc[c] = "idle" /\ ~Fresh
    /\ queue' = Append(queue, c) /\ Goto(c, "waits")
    /\ UNCHANGED <<now, cache, sentAt, got, wasted, faults>>

\* (mutant) the entry is not looked at again under the lock
AcquireUnchecked(c) ==
    /\ pc[c] = "waits" /\ Head(queue) = c
    /\ Goto(c, "sends") /\ UNCHANGED <<got, queue>>
    /\ UNCHANGED <<now, cache, sentAt, wasted, faults>>

\* async with lock: the entry is looked at again.
Acquire(c) ==
    /\ pc[c] = "waits" /\ Head(queue) = c
    /\ IF Fresh THEN Serve(c, cache) /\ queue' = Tail(queue)
                ELSE Goto(c, "sends") /\ UNCHANGED <<got, queue>>
    /\ UNCHANGED <<now, cache, sentAt, wasted, faults>>

\* The row and the secrets are read, the request is posted.
Post(c) ==
    /\ pc[c] = "sends"
    /\ sentAt' = [sentAt EXCEPT ![c] = now] /\ Goto(c, "awaits")
    /\ wasted' = (wasted \/ Fresh)
    /\ UNCHANGED <<now, cache, queue, got, faults>>

\* The provider issued the token at some time since the request.
Refreshed(c) ==
    /\ pc[c] = "awaits"
    /\ \E issued \in sentAt[c] .. now :
          /\ cache' = [issued |-> issued, expires |-> now + Lifetime]
          /\ Serve(c, cache')
    /\ queue' = Tail(queue)
    /\ UNCHANGED <<now, sentAt, wasted, faults>>

\* (mutant) the lock is not released when an exception passes
RefreshFailsLocked(c) ==
    /\ pc[c] \in {"sends", "awaits"} /\ faults < MaxFaults
    /\ faults' = faults + 1 /\ Goto(c, "failed")
    /\ UNCHANGED <<now, cache, queue, sentAt, got, wasted>>

\* OAuth2Error: no row, no secret, a status other than 200, no answer in time.
RefreshFails(c) ==
    /\ pc[c] \in {"sends", "awaits"} /\ faults < MaxFaults
    /\ faults' = faults + 1 /\ Goto(c, "failed") /\ queue' = Tail(queue)
    /\ UNCHANGED <<now, cache, sentAt, got, wasted>>

\* The connection is done with its token, or with the error.
Again(c) ==
    /\ pc[c] \in {"served", "failed"} /\ Goto(c, "idle")
    /\ UNCHANGED <<now, cache, queue, sentAt, got, wasted, faults>>

\* The post times out before it takes longer than Latency.
Tick ==
    /\ now < MaxTime
    /\ \A c \in Callers : pc[c] = "awaits" => now < sentAt[c] + Latency
    /\ now' = now + 1
    /\ pc' = [c \in Callers |-> IF pc[c] = "served" THEN "idle" ELSE pc[c]]
    /\ UNCHANGED <<cache, queue, sentAt, got, wasted, faults>>

\* What the event loop runs by itself.
Proceed(c) == Acquire(c) \/ Post(c) \/ Refreshed(c) \/ RefreshFails(c)

Next ==
    \/ Tick
    \/ \E c \in Callers : FastPath(c) \/ SlowPath(c) \/ Again(c) \/ Proceed(c)

Spec == Init /\ [][Next]_vars

\* The event loop runs every task that can run; the provider answers or the post
\* times out.
FairSpec == Spec /\ \A c \in Callers : WF_vars(Proceed(c))

-----------------------------------------------------------------------------
(* Properties *)

\* A token handed to a connection has not expired at the provider, although the
\* cache dates it from the answer (get_access_token, _EXPIRY_BUFFER_SECONDS).
ServedIsLive == \A c \in Callers : pc[c] = "served" => got[c].issued + Lifetime > now

\* "at most one refresh (single-flight) instead of a thundering herd": nobody
\* refreshes while the token another one has just fetched is fresh.
NeverWasted == ~wasted

\* Every call that waits for the lock ends, whoever fails before it.
CallsEnd == \A c \in Callers : pc[c] = "waits" ~> pc[c] \in {"served", "failed", "idle"}

=============================================================================
