---------------------------- MODULE SecretCache ----------------------------
(***************************************************************************)
(* CachingSecretStore (gateway/secret_store.py) in front of a secret        *)
(* manager.  Readers fetch one at a time per reference, connectors put,     *)
(* teardowns delete; each of them awaits the manager, and any other runs    *)
(* meanwhile.  A reference names one secret for ever: put mints a new one.  *)
(***************************************************************************)
EXTENDS Naturals, Sequences, FiniteSets, SequencesExt, FiniteSetsExt

CONSTANTS
    Refs,
    Readers, Deleters,      \* get and delete calls that may run at once
    MaxEntries,             \* NUVRAIL_SECRET_CACHE_MAX
    MaxFaults               \* bound on failing calls of the manager

CacheAssumption == MaxEntries \in Nat \ {0} /\ MaxFaults \in Nat

VARIABLES
    stored,         \* the manager: of each reference "absent", "present", "deleted"
    cached,         \* _cache: the references held in plaintext
    stale,          \* those of them whose TTL has passed
    queue,          \* _locks: of each reference the holder and the waiters
    pc, wants,      \* of each call: where it is, its reference
    fetches,        \* calls of the manager's get that are under way
    repeated,       \* history: a fetch of what was fresh, or fetched already
    faults

vars == <<stored, cached, stale, queue, pc, wants, fetches, repeated, faults>>

Calls == Readers \cup Deleters
Fresh(r) == r \in cached \ stale

\* A reader holds or awaits a lock exactly while it fetches; what is cached was
\* stored.
TypeOK ==
    /\ stored \in [Refs -> {"absent", "present", "deleted"}]
    /\ stale \subseteq cached /\ cached \subseteq Refs
    /\ \A r \in Refs : IsInjective(queue[r]) /\ ToSet(queue[r]) \subseteq Readers
    /\ \A c \in Readers : pc[c] \in {"waits", "fetches", "answered"} <=> \E r \in Refs : c \in ToSet(queue[r])
    /\ \A c \in Calls : pc[c] \in {"idle", "waits", "fetches", "answered", "deletes", "served", "failed"}
    /\ \A r \in cached : stored[r] # "absent"

Init ==
    /\ stored = [r \in Refs |-> "absent"]
    /\ cached = {} /\ stale = {}
    /\ queue = [r \in Refs |-> <<>>]
    /\ pc = [c \in Calls |-> "idle"] /\ wants \in [Calls -> Refs]
    /\ fetches = {} /\ repeated = FALSE /\ faults = 0

Goto(c, l) == pc' = [pc EXCEPT ![c] = l]
Release(r) == queue' = [queue EXCEPT ![r] = Tail(@)]

\* _store: a full cache loses the entries that had expired when the call began,
\* then entries of any kind.
Store(r) ==
    /\ \E expired \in SUBSET stale, kept \in SUBSET cached :
          /\ IF Cardinality(cached) < MaxEntries THEN kept = cached
             ELSE /\ kept \cap expired = {}
                  /\ Cardinality(kept) = Min({MaxEntries - 1, Cardinality(cached \ expired)})
          /\ cached' = kept \cup {r} /\ stale' = (stale \cap kept) \ {r}

\* The TTL of an entry passes; nothing happens to the entry.
Expire(r) ==
    /\ Fresh(r) /\ stale' = stale \cup {r}
    /\ UNCHANGED <<stored, cached, queue, pc, wants, fetches, repeated, faults>>

\* put: the secret is created, the cache warmed.
Put(r) ==
    /\ stored[r] = "absent" /\ stored' = [stored EXCEPT ![r] = "present"]
    /\ Store(r)
    /\ UNCHANGED <<queue, pc, wants, fetches, repeated, faults>>

\* get: served from the cache, or in line for the lock of the reference.
Get(c, r) ==
    /\ c \in Readers /\ pc[c] = "idle" /\ stored[r] # "absent"
    /\ wants' = [wants EXCEPT ![c] = r]
    /\ IF Fresh(r) THEN Goto(c, "served") /\ UNCHANGED queue
                   ELSE Goto(c, "waits") /\ queue' = [queue EXCEPT ![r] = Append(@, c)]
    /\ UNCHANGED <<stored, cached, stale, fetches, repeated, faults>>

\* (mutant) the cache is not looked at again under the lock
AcquireUnchecked(c) ==
    /\ pc[c] = "waits" /\ c = Head(queue[wants[c]])
    /\ Goto(c, "fetches") /\ fetches' = fetches \cup {wants[c]}
    /\ repeated' = (repeated \/ wants[c] \in fetches \/ Fresh(wants[c]))
    /\ UNCHANGED <<stored, cached, stale, queue, wants, faults>>

Acquire(c) ==
    /\ pc[c] = "waits" /\ c = Head(queue[wants[c]])
    /\ IF Fresh(wants[c])
       THEN Goto(c, "served") /\ Release(wants[c]) /\ UNCHANGED <<fetches, repeated>>
       ELSE /\ Goto(c, "fetches") /\ UNCHANGED queue
            /\ fetches' = fetches \cup {wants[c]}
            /\ repeated' = (repeated \/ wants[c] \in fetches \/ Fresh(wants[c]))
    /\ UNCHANGED <<stored, cached, stale, wants, faults>>

\* The manager reads the secret; other calls run until the answer is here.
Answer(c) ==
    /\ pc[c] = "fetches" /\ stored[wants[c]] = "present"
    /\ Goto(c, "answered")
    /\ UNCHANGED <<stored, cached, stale, queue, wants, fetches, repeated, faults>>

Fetched(c) ==
    /\ pc[c] = "answered"
    /\ Store(wants[c])
    /\ Goto(c, "served") /\ Release(wants[c]) /\ fetches' = fetches \ {wants[c]}
    /\ UNCHANGED <<stored, wants, repeated, faults>>

\* No such secret, or no answer.
FetchFails(c) ==
    /\ pc[c] = "fetches" /\ (stored[wants[c]] = "deleted" \/ faults < MaxFaults)
    /\ faults' = IF stored[wants[c]] = "deleted" THEN faults ELSE faults + 1
    /\ Goto(c, "failed") /\ Release(wants[c]) /\ fetches' = fetches \ {wants[c]}
    /\ UNCHANGED <<stored, cached, stale, wants, repeated>>

\* delete: the entry goes first, then the manager is called.
Delete(c, r) ==
    /\ c \in Deleters /\ pc[c] = "idle" /\ stored[r] = "present"
    /\ wants' = [wants EXCEPT ![c] = r] /\ Goto(c, "deletes")
    /\ cached' = cached \ {r} /\ stale' = stale \ {r}
    /\ UNCHANGED <<stored, queue, fetches, repeated, faults>>

Deleted(c) ==
    /\ pc[c] = "deletes" /\ Goto(c, "served")
    /\ stored' = [stored EXCEPT ![wants[c]] = "deleted"]
    /\ UNCHANGED <<cached, stale, queue, wants, fetches, repeated, faults>>

DeleteFails(c) ==
    /\ pc[c] = "deletes" /\ faults < MaxFaults
    /\ faults' = faults + 1 /\ Goto(c, "failed")
    /\ UNCHANGED <<stored, cached, stale, queue, wants, fetches, repeated>>

Again(c) ==
    /\ pc[c] \in {"served", "failed"} /\ Goto(c, "idle")
    /\ UNCHANGED <<stored, cached, stale, queue, wants, fetches, repeated, faults>>

\* What the event loop runs by itself.
Proceed(c) == Acquire(c) \/ Answer(c) \/ Fetched(c) \/ FetchFails(c) \/ Deleted(c) \/ DeleteFails(c)

Next ==
    \/ \E r \in Refs : Expire(r) \/ Put(r) \/ \E c \in Calls : Get(c, r) \/ Delete(c, r)
    \/ \E c \in Calls : Again(c) \/ Proceed(c)

Spec == Init /\ [][Next]_vars

\* The event loop runs every task that can run, the manager answers, time passes.
FairSpec ==
    /\ Spec /\ \A c \in Calls : WF_vars(Proceed(c))
    /\ \A r \in Refs : WF_vars(Expire(r))

-----------------------------------------------------------------------------
(* Properties *)

\* "max_entries": plaintext of at most MaxEntries secrets is held (_store).
CacheIsBounded == Cardinality(cached) <= MaxEntries

\* "only one fetch per ref at a time": the manager is not asked for a secret
\* that is fresh in the cache or being fetched (get).
SingleFlight == ~repeated

\* Every reader in line for a lock is served or fails, whoever fails before it.
ReadersEnd == \A c \in Readers : pc[c] = "waits" ~> pc[c] \in {"served", "failed"}

(* What comments and docs say and the code does not keep to *)

\* gateway/secret_store.py:228-229 - "plaintext is held briefly and then evicted".
HeldBriefly == \A r \in Refs : r \in stale ~> r \notin stale

\* gateway/secret_store.py:16-17 - "plaintext lives in memory only transiently and
\* only for accounts that are actively in use": a deleted secret is not held.
DeletedIsReleased == \A r \in Refs : stored[r] = "deleted" => r \notin cached

=============================================================================
