------------------------------ MODULE MCSecrets ------------------------------
(***************************************************************************)
(* Instances for TLC of what handles the secrets of agents: creating,       *)
(* revoking and deleting them (Credentials), the OAuth flow that asks for   *)
(* them (OAuthFlow), the access tokens refreshed from them (AccessTokens)   *)
(* and the cache before the secret manager (SecretCache).  Their variables  *)
(* are apart, so that a behaviour moves one `part` only.                    *)
(***************************************************************************)
EXTENDS Credentials, Sequences

CONSTANTS
    Callers, Lifetime, Buffer, Latency, MaxTime,    \* of AccessTokens
    Refs, Readers, Deleters, MaxEntries,            \* of SecretCache
    States, Visitors, Providers, Callbacks          \* of OAuthFlow

VARIABLES
    part,                                                               \* the one that moves
    now, cache, line, caller, sentAt, got, wasted, tokenFaults,         \* of AccessTokens
    stored, cached, expired, locks, call, wants, fetches, repeated, cacheFaults, \* of SecretCache
    pending, old, results, callback, rows, started, handed, taken, excused, flowFaults  \* of OAuthFlow

tokenVars == <<now, cache, line, caller, sentAt, got, wasted, tokenFaults>>
cacheVars == <<stored, cached, expired, locks, call, wants, fetches, repeated, cacheFaults>>
flowVars == <<pending, old, results, callback, rows, started, handed, taken, excused, flowFaults>>

Tokens == INSTANCE AccessTokens WITH queue <- line, pc <- caller, faults <- tokenFaults
Cache  == INSTANCE SecretCache WITH stale <- expired, queue <- locks, pc <- call,
                                    faults <- cacheFaults
OAuth2 == INSTANCE OAuthFlow WITH Users <- Visitors, faults <- flowFaults

ASSUME TokensAssumption == Tokens!TokenAssumption
ASSUME CachesAssumption == Cache!CacheAssumption
ASSUME FlowsAssumption == OAuth2!FlowAssumption

SecretsInit ==
    /\ part \in {"credentials", "tokens", "cache", "oauth2"}
    /\ Init /\ Tokens!Init /\ Cache!Init /\ OAuth2!Init
    /\ part = "cache" \/ \A c \in DOMAIN wants : wants[c] = CHOOSE r \in Refs : TRUE

SecretsNext ==
    \/ part = "credentials" /\ Next /\ UNCHANGED <<part, tokenVars, cacheVars, flowVars>>
    \/ part = "tokens" /\ Tokens!Next /\ UNCHANGED <<part, vars, cacheVars, flowVars>>
    \/ part = "cache" /\ Cache!Next /\ UNCHANGED <<part, vars, tokenVars, flowVars>>
    \/ part = "oauth2" /\ OAuth2!Next /\ UNCHANGED <<part, vars, tokenVars, cacheVars>>

SecretsSpec ==
    /\ SecretsInit /\ [][SecretsNext]_<<part, vars, tokenVars, cacheVars, flowVars>>
    /\ \A a \in Agents :
          /\ WF_vars(part = "credentials" /\ (Callback(a) \/ Put(a) \/ Cleanup(a)))
          /\ WF_vars(part = "credentials" /\ Insert(a))
    /\ \A u \in Users :
          /\ WF_vars(part = "credentials" /\ PurgeUser(u))
          /\ WF_vars(part = "credentials" /\ Proceed(<<"delete", u>>))
          /\ WF_vars(part = "credentials" /\ Proceed(<<"purge", u>>))
    /\ \A c \in Callers : WF_tokenVars(part = "tokens" /\ Tokens!Proceed(c))
    /\ \A c \in Readers \cup Deleters : WF_cacheVars(part = "cache" /\ Cache!Proceed(c))

\* A token handed to a connection has not expired at the provider, although the
\* cache dates it from the answer.  Nobody refreshes a token another has just
\* refreshed, nobody fetches a secret that is in the cache or being fetched, and no
\* more secrets are held than may be: "fetched only as needed, then released"
\* (get_access_token, CachingSecretStore).
SecretsAreServed ==
    Tokens!ServedIsLive /\ Tokens!NeverWasted /\ Cache!SingleFlight /\ Cache!CacheIsBounded

\* A flow makes one agent, its token is handed out once and to the user who began
\* it, and no flow ends without a result (oauth2_callback, oauth2_result).
FlowIsTrue == OAuth2!TokenGoesToOwner /\ OAuth2!FlowReportsBack

\* Whoever waits for a lock of the token cache or of the secret cache is served
\* or fails, whichever call before it fails; and what is deleted is purged in the
\* end (purge_deleted_users).
CallsEnd == Tokens!CallsEnd /\ Cache!ReadersEnd /\ DeletedIsPurged

=============================================================================
