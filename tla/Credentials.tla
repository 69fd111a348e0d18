----------------------------- MODULE Credentials -----------------------------
(***************************************************************************)
(* The upstream secrets of agents: created by POST /agents or the OAuth     *)
(* callback, torn down when an agent is revoked, when an account is deleted *)
(* and when the retention sweep purges it.  A secret lives in an external   *)
(* store and is reached only through a column of its agent_credentials row; *)
(* the OAuth grant lives at the provider.                                   *)
(*                                                                         *)
(* An agent stands for one attempt to create one.  Every await on the       *)
(* store, the provider or the database is an interleaving point.            *)
(***************************************************************************)
EXTENDS Naturals, FiniteSets

CONSTANTS
    Users, Agents,
    Kinds,          \* of agents: "password", "google", "microsoft"
    MaxFaults       \* bound on the calls that fail

ASSUME CredentialsAssumption ==
    Kinds \subseteq {"password", "google", "microsoft"} /\ MaxFaults \in Nat

VARIABLES
    user,       \* users: active, deleted (tombstone), purged
    owner, kind,\* of each agent
    pc,         \* of its creation
    stale,      \* OAuth states older than _STATE_TTL
    row,        \* its agent_credentials row
    columns,    \* the secret columns that are not NULL
    store,      \* the external secret store: <<agent, field>>
    grant,      \* at the provider
    at, read, todo,   \* of each teardown: progress, rows read, what is left
    lock,       \* the one in a write transaction on the database
    faults

agentVars    == <<owner, kind, row, columns>>
outsideVars  == <<store, grant>>
teardownVars == <<at, read, todo, lock>>
vars == <<user, pc, stale, agentVars, outsideVars, teardownVars, faults>>

None == "none"

\* DELETE /agents/{id}, DELETE /account, the retention sweep.
Teardowns == ({"revoke"} \X Agents) \cup ({"delete", "purge"} \X Users)

Fields(k) == IF k = "password" THEN {"password"} ELSE {"client", "refresh"}
OAuth(a) == kind[a] \in {"google", "microsoft"}

\* A row that is gone has no columns; teardowns other than disconnecting run in a
\* write transaction, one at a time.
TypeOK ==
    /\ user \in [Users -> {"active", "deleted", "purged"}]
    /\ \A a \in Agents :
          /\ columns[a] \subseteq Fields(kind[a])
          /\ row[a] \in {"none", "live", "revoked", "gone"}
          /\ row[a] \in {"none", "gone"} => columns[a] = {}
          /\ pc[a] \in {"idle", "consent", "put", "insert", "cleanup", "done", "failed"}
    /\ store \subseteq Agents \X {"password", "client", "refresh"}
    /\ lock = {t \in Teardowns : at[t] = "tear" /\ t[1] # "revoke"} /\ Cardinality(lock) <= 1
    /\ \A t \in Teardowns : at[t] \in {"idle", "read", "tear"} /\ (at[t] = "idle" => read[t] = {} /\ todo[t] = {})
    /\ faults \in 0 .. MaxFaults

Init ==
    /\ user = [u \in Users |-> "active"]
    /\ owner = [a \in Agents |-> None] /\ kind = [a \in Agents |-> None]
    /\ pc = [a \in Agents |-> "idle"] /\ stale = {}
    /\ row = [a \in Agents |-> "none"] /\ columns = [a \in Agents |-> {}]
    /\ store = {} /\ grant = [a \in Agents |-> None]
    /\ at = [t \in Teardowns |-> "idle"]
    /\ read = [t \in Teardowns |-> {}] /\ todo = [t \in Teardowns |-> {}]
    /\ lock = {} /\ faults = 0

Fault == faults < MaxFaults /\ faults' = faults + 1
Go(a, to) == pc' = [pc EXCEPT ![a] = to]
Owned(u) == {a \in Agents : owner[a] = u /\ row[a] \in {"live", "revoked"}}

-----------------------------------------------------------------------------
(* Creation *)

Begin(a, u, k) ==
    /\ pc[a] = "idle" /\ user[u] = "active"
    /\ owner' = [owner EXCEPT ![a] = u] /\ kind' = [kind EXCEPT ![a] = k]

\* POST /agents: the client brings the refresh token of a grant.
CreateAgent(a, u, k) ==
    /\ Begin(a, u, k) /\ k # "microsoft"
    /\ grant' = [grant EXCEPT ![a] = IF k = "google" THEN "alive" ELSE None]
    /\ Go(a, "put")
    /\ UNCHANGED <<user, stale, row, columns, store, teardownVars, faults>>

\* /oauth2/{provider}/start forgets the states that are too old.
Start(a, u, k) ==
    /\ Begin(a, u, k) /\ k # "password"
    /\ pc' = [b \in Agents |-> IF b = a THEN "consent"
                               ELSE IF pc[b] = "consent" /\ b \in stale THEN "failed" ELSE pc[b]]
    /\ UNCHANGED <<user, stale, row, columns, outsideVars, teardownVars, faults>>

StateExpires(a) ==
    /\ pc[a] = "consent" /\ stale' = stale \cup {a} /\ a \notin stale
    /\ UNCHANGED <<user, pc, agentVars, outsideVars, teardownVars, faults>>

\* /oauth2/{provider}/callback: the state is used up and the code exchanged.
Callback(a) ==
    /\ pc[a] = "consent"
    /\ \/ grant' = [grant EXCEPT ![a] = "alive"] /\ Go(a, "put") /\ UNCHANGED faults
       \/ Fault /\ Go(a, "failed") /\ UNCHANGED grant
    /\ UNCHANGED <<user, stale, agentVars, store, teardownVars>>

Stored(a) == {f \in Fields(kind[a]) : <<a, f>> \in store}

\* (mutant) the row is inserted as soon as one secret is stored
PutOne(a) ==
    /\ pc[a] = "put"
    /\ \E f \in Fields(kind[a]) \ Stored(a) : store' = store \cup {<<a, f>>}
    /\ Go(a, "insert")
    /\ UNCHANGED <<user, stale, agentVars, grant, teardownVars, faults>>

\* store_credential, one field after the other; when one fails the handler
\* does not know of those before.
Put(a) ==
    /\ pc[a] = "put"
    /\ \/ \E f \in Fields(kind[a]) \ Stored(a) :
             /\ f = "refresh" => "client" \in Stored(a)
             /\ store' = store \cup {<<a, f>>}
             /\ Go(a, IF Stored(a) \cup {f} = Fields(kind[a]) THEN "insert" ELSE "put")
             /\ UNCHANGED faults
       \/ Fault /\ Go(a, "failed") /\ UNCHANGED store
    /\ UNCHANGED <<user, stale, agentVars, grant, teardownVars>>

\* The row is inserted whatever has become of the account: foreign keys are off.
Insert(a) ==
    /\ pc[a] = "insert"
    /\ \/ /\ lock = {}
          /\ row' = [row EXCEPT ![a] = "live"]
          /\ columns' = [columns EXCEPT ![a] = Fields(kind[a])]
          /\ Go(a, "done") /\ UNCHANGED faults
       \/ Fault /\ Go(a, "cleanup") /\ UNCHANGED <<row, columns>>
    /\ UNCHANGED <<user, stale, owner, kind, outsideVars, teardownVars>>

Cleanup(a) ==
    /\ pc[a] = "cleanup"
    /\ \/ store' = store \ ({a} \X Fields(kind[a])) /\ UNCHANGED faults
       \/ /\ Fault
          /\ \E f \in Fields(kind[a]) : store' = store \ ({a} \X (Fields(kind[a]) \ {f}))
    /\ Go(a, "failed")
    /\ UNCHANGED <<user, stale, agentVars, grant, teardownVars>>

-----------------------------------------------------------------------------
(* Teardown *)

\* purge_agent_upstream_secrets of the rows read: the grant first, of Google
\* only, then every column that is not NULL.
Duties(as) ==
    (UNION {{a} \X columns[a] : a \in as})
        \cup {<<a, "grant">> : a \in {b \in as : kind[b] = "google" /\ "refresh" \in columns[b]}}

Reads(t, as, next) ==
    /\ at[t] = "idle"
    /\ at' = [at EXCEPT ![t] = next]
    /\ read' = [read EXCEPT ![t] = as]
    /\ todo' = [todo EXCEPT ![t] = Duties(as)]

Rest(t) ==
    /\ at' = [at EXCEPT ![t] = "idle"]
    /\ read' = [read EXCEPT ![t] = {}] /\ todo' = [todo EXCEPT ![t] = {}]

Revoke(a) ==
    /\ row[a] \in {"live", "revoked"} /\ user[owner[a]] = "active"
    /\ Reads(<<"revoke", a>>, {a}, "tear")
    /\ UNCHANGED <<user, pc, stale, agentVars, outsideVars, lock, faults>>

DeleteAccount(u) ==
    /\ user[u] = "active"
    /\ Reads(<<"delete", u>>, Owned(u), "read")
    /\ UNCHANGED <<user, pc, stale, agentVars, outsideVars, lock, faults>>

\* The sweep comes NUVRAIL_RETENTION_DAYS after the deletion, when creations
\* begun before it have long ended.
PurgeUser(u) ==
    /\ user[u] = "deleted"
    /\ \A a \in Agents : owner[a] = u => pc[a] \in {"done", "failed"}
    /\ Reads(<<"purge", u>>, Owned(u), "read")
    /\ UNCHANGED <<user, pc, stale, agentVars, outsideVars, lock, faults>>

\* The first write of the transaction takes the lock, which is held through
\* the calls to the store and the provider.
BeginTx(t) ==
    /\ at[t] = "read" /\ lock = {}
    /\ lock' = {t} /\ at' = [at EXCEPT ![t] = "tear"]
    /\ UNCHANGED <<user, pc, stale, agentVars, outsideVars, read, todo, faults>>

\* revoke_google_refresh_token needs the refresh token from the store.
RevokeGrant(t, a) ==
    /\ at[t] = "tear" /\ <<a, "grant">> \in todo[t]
    /\ \/ /\ grant' = [grant EXCEPT ![a] = IF <<a, "refresh">> \in store THEN "revoked" ELSE @]
          /\ UNCHANGED faults
       \/ Fault /\ UNCHANGED grant
    /\ todo' = [todo EXCEPT ![t] = @ \ {<<a, "grant">>}]
    /\ UNCHANGED <<user, pc, stale, agentVars, store, at, read, lock>>

DeleteSecret(t, a, f) ==
    /\ at[t] = "tear" /\ <<a, f>> \in todo[t] /\ f # "grant" /\ <<a, "grant">> \notin todo[t]
    /\ \/ store' = store \ {<<a, f>>} /\ UNCHANGED faults
       \/ Fault /\ UNCHANGED store
    /\ todo' = [todo EXCEPT ![t] = @ \ {<<a, f>>}]
    /\ UNCHANGED <<user, pc, stale, agentVars, grant, at, read, lock>>

Nulled(as) == columns' = [a \in Agents |-> IF a \in as THEN {} ELSE columns[a]]
Marked(as, s) == row' = [a \in Agents |-> IF a \in as THEN s ELSE row[a]]

RevokeEnds(a) ==
    LET t == <<"revoke", a>> IN
    /\ at[t] = "tear" /\ todo[t] = {}
    /\ \/ /\ lock = {} /\ row[a] # "gone"
          /\ Nulled({a}) /\ Marked({a}, "revoked") /\ UNCHANGED faults
       \/ lock = {} /\ row[a] = "gone" /\ UNCHANGED <<row, columns, faults>>
       \/ Fault /\ UNCHANGED <<row, columns>>
    /\ Rest(t)
    /\ UNCHANGED <<user, pc, stale, owner, kind, outsideVars, lock>>

\* (mutant) the columns are set to NULL of all agents of the user
DeleteEndsForAll(u) ==
    LET t == <<"delete", u>> IN
    /\ at[t] = "tear" /\ todo[t] = {}
    /\ \/ /\ Nulled(Owned(u)) /\ Marked(Owned(u), "revoked")
          /\ user' = [user EXCEPT ![u] = "deleted"] /\ UNCHANGED faults
       \/ Fault /\ UNCHANGED <<user, row, columns>>
    /\ Rest(t) /\ lock' = {}
    /\ UNCHANGED <<pc, stale, owner, kind, outsideVars>>

\* Revoked, set to NULL and committed at once: of the agents read.
DeleteEnds(u) ==
    LET t == <<"delete", u>> IN
    /\ at[t] = "tear" /\ todo[t] = {}
    /\ \/ /\ Nulled(read[t]) /\ Marked(read[t], "revoked")
          /\ user' = [user EXCEPT ![u] = "deleted"] /\ UNCHANGED faults
       \/ Fault /\ UNCHANGED <<user, row, columns>>
    /\ Rest(t) /\ lock' = {}
    /\ UNCHANGED <<pc, stale, owner, kind, outsideVars>>

\* (mutant) a purge that failed is not tried again
PurgeGivesUp(u) ==
    LET t == <<"purge", u>> IN
    /\ at[t] = "tear" /\ todo[t] = {}
    /\ \/ /\ Nulled(Owned(u)) /\ Marked(Owned(u), "gone")
          /\ user' = [user EXCEPT ![u] = "purged"] /\ UNCHANGED faults /\ Rest(t)
       \/ Fault /\ UNCHANGED <<user, row, columns, read, todo>> /\ at' = [at EXCEPT ![t] = "off"]
    /\ lock' = {}
    /\ UNCHANGED <<pc, stale, owner, kind, outsideVars>>

PurgeEnds(u) ==
    LET t == <<"purge", u>> IN
    /\ at[t] = "tear" /\ todo[t] = {}
    /\ \/ /\ Nulled(Owned(u)) /\ Marked(Owned(u), "gone")
          /\ user' = [user EXCEPT ![u] = "purged"] /\ UNCHANGED faults
       \/ Fault /\ UNCHANGED <<user, row, columns>>
    /\ Rest(t) /\ lock' = {}
    /\ UNCHANGED <<pc, stale, owner, kind, outsideVars>>

Creation(a) ==
    \/ \E u \in Users, k \in Kinds : CreateAgent(a, u, k) \/ Start(a, u, k)
    \/ StateExpires(a) \/ Callback(a) \/ Put(a) \/ Insert(a) \/ Cleanup(a)

Proceed(t) ==
    \/ BeginTx(t)
    \/ \E a \in Agents : RevokeGrant(t, a) \/ \E f \in {"password", "client", "refresh"} : DeleteSecret(t, a, f)
    \/ t[1] = "revoke" /\ RevokeEnds(t[2])
    \/ t[1] = "delete" /\ DeleteEnds(t[2])
    \/ t[1] = "purge" /\ PurgeEnds(t[2])

Next ==
    \/ \E a \in Agents : Creation(a) \/ Revoke(a)
    \/ \E u \in Users : DeleteAccount(u) \/ PurgeUser(u)
    \/ \E t \in Teardowns : Proceed(t)

Spec == Init /\ [][Next]_vars

\* Handlers run on, requests end by their timeouts, and the sweep comes again
\* and again.
FairSpec ==
    /\ Spec
    /\ \A a \in Agents : WF_vars(Callback(a) \/ Put(a) \/ Cleanup(a)) /\ WF_vars(Insert(a))
    /\ \A u \in Users :
          /\ WF_vars(PurgeUser(u))
          /\ WF_vars(Proceed(<<"delete", u>>)) /\ WF_vars(Proceed(<<"purge", u>>))

-----------------------------------------------------------------------------
(* Properties *)

Creating(a) == pc[a] \in {"put", "insert", "cleanup"}

\* While no call fails, every secret in the store can be reached: through a
\* column of its agent's row, or by the handler that creates it.  Nothing else
\* would ever delete it (purge_agent_upstream_secrets: "MUST call this BEFORE
\* nulling or deleting the credential columns/row").
NoOrphanSecret ==
    faults = 0 => \A s \in store : s[2] \in columns[s[1]] \/ Creating(s[1])

\* A credential that may be used can be: as long as nobody tears it down and no
\* teardown has failed half way its secrets are in the store, its grant alive.
LiveCredentialWorks ==
    faults = 0 => \A a \in Agents :
        /\ row[a] = "live" /\ user[owner[a]] = "active"
        /\ \A t \in Teardowns : a \notin read[t]
        => {a} \X Fields(kind[a]) \subseteq store /\ (OAuth(a) => grant[a] = "alive")

\* A deleted account is purged in the end, and its rows with it, also when a
\* sweep fails: "the account either survives intact (retry next run) or is fully
\* gone" (_purge_user).
DeletedIsPurged ==
    \A u \in Users : user[u] = "deleted" ~> user[u] = "purged" /\ Owned(u) = {}

(* What comments and docs say and the code does not keep to *)

\* api/routes/account.py:279 - "Best-effort; the retention purge is the backstop":
\* what the deletion could not tear down the purge does.
PurgeIsBackstop ==
    \A a \in Agents : owner[a] # None /\ user[owner[a]] = "purged" => \A s \in store : s[1] # a

\* api/routes/oauth2.py:538 - "Clean up any secrets created before the failure to
\* avoid orphans."
FailureLeavesNothing ==
    \A a \in Agents : pc[a] = "failed" => \A s \in store : s[1] # a

\* api/routes/account.py:274 - "Revoke all agent credentials": a deleted account
\* has no live credential.
DeletedIsDisconnected ==
    \A a \in Agents : row[a] = "live" => user[owner[a]] # "deleted"

\* api/routes/auth.py:558 - disconnecting an agent "revokes any OAuth grant at the
\* provider".
RevokedGrantIsDead ==
    \A a \in Agents : row[a] = "revoked" => grant[a] # "alive"

\* gateway/credentials.py:281 - "Soft-revoking an agent does NOT call this -
\* secrets are retained so the agent can be un-revoked."
RevokedKeepsSecrets ==
    \A a \in Agents : row[a] = "revoked" /\ user[owner[a]] = "active" => columns[a] # {}

\* api/routes/oauth2.py:442 - "Unknown or expired state - redirect with error
\* flag": a state older than _STATE_TTL creates no agent.
ExpiredStateIsRefused == \A a \in stale : row[a] # "live"

=============================================================================
