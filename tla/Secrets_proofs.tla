--------------------------- MODULE Secrets_proofs ---------------------------
(***************************************************************************)
(* Theorems about what handles the secrets of agents, for any number of     *)
(* users, agents, connections, secrets, flows and requests.  Credentials:   *)
(* while no call fails no secret is lost sight of, and what may be used     *)
(* works.  AccessTokens and SecretCache: what is served is live, and is     *)
(* fetched once.  OAuthFlow: a token goes to whoever began its flow.        *)
(***************************************************************************)
EXTENDS MCSecrets, FiniteSetTheorems, TLAPS

(* Credentials *)

Secrets == {"password", "client", "refresh"}

Shapes ==
    /\ faults \in Nat
    /\ user \in [Users -> {"active", "deleted", "purged"}]
    /\ store \subseteq Agents \X Secrets
    /\ DOMAIN owner = Agents /\ DOMAIN kind = Agents /\ DOMAIN pc = Agents
    /\ row \in [Agents -> {"none", "live", "revoked", "gone"}]
    /\ columns \in [Agents -> SUBSET Secrets] /\ DOMAIN grant = Agents
    /\ DOMAIN at = Teardowns /\ DOMAIN read = Teardowns /\ DOMAIN todo = Teardowns

\* A row is the last step of a creation; before the first put there is no secret.
CreationInv ==
    \A a \in Agents :
        /\ pc[a] # "idle" => owner[a] \in Users
        /\ pc[a] # "cleanup"
        /\ row[a] # "none" => pc[a] = "done"
        /\ pc[a] \in {"idle", "consent"} => \A s \in store : s[1] # a
        /\ pc[a] = "insert" => {a} \X Fields(kind[a]) \subseteq store
        /\ pc[a] \in {"put", "insert"} /\ OAuth(a) => grant[a] = "alive"

\* A secret is one of its agent's kind.
StoreInv == \A s \in store : s[2] \in Fields(kind[s[1]])

\* What a teardown has read is committed, and it has yet to delete every secret of it
\* that a column still names; it deletes nothing else.
TeardownInv ==
    \A t \in Teardowns :
        /\ \A a \in read[t] :
              /\ a \in Agents /\ row[a] # "none"
              /\ \A s \in store : s[1] = a /\ s[2] \in columns[a] => s \in todo[t]
        /\ \A d \in todo[t] : d[1] \in read[t]

\* A revocation is of one agent; an account's removal of its agents only, and that of a
\* deleted account has read them all.
ReadInv ==
    /\ \A t \in Teardowns : at[t] = "idle" => read[t] = {}
    /\ \A a \in Agents : /\ read[<<"revoke", a>>] \subseteq {a}
                         /\ at[<<"revoke", a>>] # "idle" => a \in read[<<"revoke", a>>]
    /\ \A u \in Users :
          /\ \A a \in read[<<"delete", u>>] : owner[a] = u
          /\ \A a \in read[<<"purge", u>>] : owner[a] = u
          /\ at[<<"delete", u>>] # "idle" => user[u] = "active"
          /\ at[<<"purge", u>>] # "idle" =>
                /\ user[u] # "active" /\ Owned(u) \subseteq read[<<"purge", u>>]
                /\ \A a \in Agents : owner[a] = u => pc[a] \in {"done", "failed"}

HealthyInv == CreationInv /\ StoreInv /\ TeardownInv /\ ReadInv /\ NoOrphanSecret /\ LiveCredentialWorks

CredInv == Shapes /\ (faults = 0 => HealthyInv)

-----------------------------------------------------------------------------

\* Nothing is created or torn down yet.
LEMMA InitHolds == Init => CredInv
<1> SUFFICES ASSUME Init PROVE CredInv
  OBVIOUS
<1> USE DEF Init
<1>1. Shapes
  BY DEF Shapes
<1>2. CreationInv /\ StoreInv
  BY DEF CreationInv, StoreInv
<1>3. TeardownInv
  BY DEF TeardownInv
<1>4. ReadInv
  BY DEF ReadInv, Teardowns
<1>5. NoOrphanSecret /\ LiveCredentialWorks
  BY DEF NoOrphanSecret, LiveCredentialWorks
<1> QED BY <1>1, <1>2, <1>3, <1>4, <1>5 DEF CredInv, HealthyInv

\* The calls that failed are counted.
LEMMA StepKeepsShapes == Shapes /\ [Next]_vars => Shapes' /\ faults' \in {faults, faults + 1}
<1> DEFINE Goal == Shapes' /\ faults' \in {faults, faults + 1}
<1> SUFFICES ASSUME Shapes, [Next]_vars PROVE Goal
  OBVIOUS
<1> USE CredentialsAssumption
    DEF Shapes, vars, agentVars, outsideVars, teardownVars, Go, Fault, Secrets, Fields
<1>1. ASSUME NEW a \in Agents, Creation(a) PROVE Goal
  BY <1>1 DEF Creation, CreateAgent, Start, Begin, StateExpires, Callback, Put, Insert, Cleanup
<1>2. ASSUME NEW a \in Agents, Revoke(a) PROVE Goal
  BY <1>2 DEF Revoke, Reads
<1>3. ASSUME NEW u \in Users, DeleteAccount(u) \/ PurgeUser(u) PROVE Goal
  BY <1>3 DEF DeleteAccount, PurgeUser, Reads
<1>4. ASSUME NEW t \in Teardowns, Proceed(t) PROVE Goal
  <2>1. CASE BeginTx(t)
    BY <2>1 DEF BeginTx
  <2>2. ASSUME NEW a \in Agents, RevokeGrant(t, a) PROVE Goal
    BY <2>2 DEF RevokeGrant
  <2>3. ASSUME NEW a \in Agents, NEW f, DeleteSecret(t, a, f) PROVE Goal
    BY <2>3 DEF DeleteSecret
  <2>4. CASE t[1] = "revoke" /\ RevokeEnds(t[2])
    BY <2>4 DEF RevokeEnds, Nulled, Marked, Rest
  <2>5. CASE (t[1] = "delete" /\ DeleteEnds(t[2])) \/ (t[1] = "purge" /\ PurgeEnds(t[2]))
    BY <2>5 DEF DeleteEnds, PurgeEnds, Nulled, Marked, Rest
  <2> QED BY <1>4, <2>1, <2>2, <2>3, <2>4, <2>5 DEF Proceed
<1>5. CASE UNCHANGED vars
  BY <1>5
<1> QED BY <1>1, <1>2, <1>3, <1>4, <1>5 DEF Next

\* The teardowns of an agent, and of an account.
LEMMA Labels ==
    /\ \A a \in Agents : <<"revoke", a>> \in Teardowns
    /\ \A u \in Users : <<"delete", u>> \in Teardowns /\ <<"purge", u>> \in Teardowns
    /\ \A t \in Teardowns : \/ t[1] = "revoke" /\ t[2] \in Agents /\ t = <<"revoke", t[2]>>
                            \/ t[1] = "delete" /\ t[2] \in Users /\ t = <<"delete", t[2]>>
                            \/ t[1] = "purge" /\ t[2] \in Users /\ t = <<"purge", t[2]>>
BY DEF Teardowns

\* A creation begins: it has no row, and nobody reads or deletes anything of it.
LEMMA BeginKeeps ==
    ASSUME Shapes, HealthyInv, faults = 0, NEW a \in Agents, NEW u \in Users, NEW k \in Kinds,
           CreateAgent(a, u, k) \/ Start(a, u, k)
    PROVE  HealthyInv'
<1> USE DEF HealthyInv, Shapes
<1>1. /\ pc[a] = "idle" /\ user[u] = "active" /\ row[a] = "none" /\ (\A s \in store : s[1] # a)
      /\ \A t \in Teardowns : a \notin read[t]
  BY DEF CreateAgent, Start, Begin, CreationInv, TeardownInv
<1>2. /\ owner' = [owner EXCEPT ![a] = u] /\ kind' = [kind EXCEPT ![a] = k]
      /\ UNCHANGED <<user, row, columns, store, at, read, todo, faults>>
  BY DEF CreateAgent, Start, Begin, teardownVars, outsideVars
<1>3. /\ pc'[a] \in {"put", "consent"}
      /\ \A b \in Agents \ {a} : /\ grant'[b] = grant[b]
                                 /\ pc'[b] = pc[b] \/ (pc[b] = "consent" /\ pc'[b] = "failed")
  BY DEF CreateAgent, Start, Go, outsideVars
<1>4. pc'[a] = "put" /\ k # "password" => grant'[a] = "alive"
  BY CredentialsAssumption DEF CreateAgent, Start, Go
<1>5. CreationInv'
  BY <1>1, <1>2, <1>3, <1>4 DEF CreationInv, OAuth
<1>6. StoreInv'
  BY <1>1, <1>2 DEF StoreInv
<1>7. TeardownInv'
  BY <1>2 DEF TeardownInv
<1>8. ReadInv'
  BY <1>1, <1>2, <1>3, Labels DEF ReadInv, Owned
<1>9. NoOrphanSecret'
  BY <1>1, <1>2, <1>3 DEF NoOrphanSecret, Creating
<1>10. LiveCredentialWorks'
  BY <1>1, <1>2, <1>3 DEF LiveCredentialWorks, OAuth
<1> QED BY <1>5, <1>6, <1>7, <1>8, <1>9, <1>10

\* A creation goes on; only its own agent is touched, which nobody has read.
LEMMA CreationKeeps ==
    ASSUME Shapes, HealthyInv, faults = 0, faults' = 0, NEW a \in Agents,
           StateExpires(a) \/ Callback(a) \/ Put(a) \/ Insert(a) \/ Cleanup(a)
    PROVE  HealthyInv'
<1> USE DEF HealthyInv, Shapes
<1>1. pc[a] \in {"consent", "put", "insert"} => \A t \in Teardowns : a \notin read[t]
  BY DEF CreationInv, TeardownInv
<1>2. CASE StateExpires(a)
  <2>1. UNCHANGED <<user, pc, owner, kind, row, columns, store, grant, at, read, todo, faults>>
    BY <1>2 DEF StateExpires, agentVars, outsideVars, teardownVars
  <2> QED
    BY <2>1 DEF CreationInv, StoreInv, TeardownInv, ReadInv, Owned, NoOrphanSecret, Creating,
                LiveCredentialWorks, OAuth
<1>3. CASE Callback(a)
  <2>1. /\ pc[a] = "consent" /\ pc' = [pc EXCEPT ![a] = "put"] /\ grant' = [grant EXCEPT ![a] = "alive"]
        /\ UNCHANGED <<user, owner, kind, row, columns, store, at, read, todo, faults>>
    BY <1>3 DEF Callback, Fault, Go, agentVars, teardownVars
  <2>2. CreationInv' /\ StoreInv' /\ TeardownInv'
    BY <2>1 DEF CreationInv, StoreInv, TeardownInv, OAuth
  <2>3. ReadInv' /\ NoOrphanSecret' /\ LiveCredentialWorks'
    BY <2>1 DEF ReadInv, Owned, NoOrphanSecret, Creating, LiveCredentialWorks, OAuth
  <2> QED BY <2>2, <2>3
<1>4. CASE Put(a)
  <2>1. PICK f \in Fields(kind[a]) :
           /\ pc[a] = "put" /\ store' = store \cup {<<a, f>>}
           /\ pc' = [pc EXCEPT ![a] = IF Stored(a) \cup {f} = Fields(kind[a]) THEN "insert" ELSE "put"]
    BY <1>4 DEF Put, Fault, Go
  <2>2. UNCHANGED <<user, owner, kind, row, columns, grant, at, read, todo, faults>>
    BY <1>4 DEF Put, Fault, agentVars, teardownVars
  <2>3. pc'[a] = "insert" => {a} \X Fields(kind[a]) \subseteq store'
    BY <2>1 DEF Stored
  <2>4. CreationInv'
    BY <2>1, <2>2, <2>3 DEF CreationInv, OAuth
  <2>5. StoreInv' /\ TeardownInv'
    BY <1>1, <2>1, <2>2 DEF StoreInv, TeardownInv
  <2>6. ReadInv'
    BY <2>1, <2>2 DEF ReadInv, Owned
  <2>7. NoOrphanSecret' /\ LiveCredentialWorks'
    BY <2>1, <2>2 DEF NoOrphanSecret, Creating, LiveCredentialWorks, OAuth
  <2> QED BY <2>4, <2>5, <2>6, <2>7
<1>5. CASE Insert(a)
  <2>1. /\ pc[a] = "insert" /\ row' = [row EXCEPT ![a] = "live"]
        /\ columns' = [columns EXCEPT ![a] = Fields(kind[a])] /\ pc' = [pc EXCEPT ![a] = "done"]
        /\ UNCHANGED <<user, owner, kind, store, grant, at, read, todo, faults>>
    BY <1>5 DEF Insert, Fault, Go, outsideVars, teardownVars
  <2>2. {a} \X Fields(kind[a]) \subseteq store /\ (OAuth(a) => grant[a] = "alive")
    BY <2>1 DEF CreationInv
  <2>3. CreationInv' /\ StoreInv'
    BY <2>1 DEF CreationInv, StoreInv, OAuth
  <2>4. TeardownInv'
    BY <1>1, <2>1 DEF TeardownInv
  <2>5. ReadInv'
    BY <2>1 DEF ReadInv, Owned
  <2>6. NoOrphanSecret'
    BY <2>1 DEF NoOrphanSecret, Creating, StoreInv
  <2>7. LiveCredentialWorks'
    BY <2>1, <2>2 DEF LiveCredentialWorks, OAuth
  <2> QED BY <2>3, <2>4, <2>5, <2>6, <2>7
<1>6. ~Cleanup(a)
  BY DEF Cleanup, CreationInv
<1> QED BY <1>2, <1>3, <1>4, <1>5, <1>6

\* What a teardown owes is of the rows it reads, and is all that their columns name.
LEMMA DutiesOfRows ==
    ASSUME NEW as
    PROVE  /\ \A d \in Duties(as) : d[1] \in as
           /\ \A a \in as : {a} \X columns[a] \subseteq Duties(as)
<1>1. ASSUME NEW d \in Duties(as) PROVE d[1] \in as
  <2>1. ASSUME NEW a \in as, d \in {a} \X columns[a] PROVE d[1] = a
    BY <2>1
  <2>2. ASSUME NEW a \in as, d = <<a, "grant">> PROVE d[1] = a
    BY <2>2
  <2>3. (\E a \in as : d \in {a} \X columns[a]) \/ (\E a \in as : d = <<a, "grant">>)
    BY <1>1 DEF Duties
  <2> QED BY <2>1, <2>2, <2>3
<1>2. ASSUME NEW a \in as PROVE {a} \X columns[a] \subseteq Duties(as)
  BY <1>2 DEF Duties
<1> QED BY <1>1, <1>2

\* A teardown that takes in rows owes all of them.
LEMMA DutiesKeep ==
    ASSUME store \subseteq Agents \X Secrets, TeardownInv,
           NEW t \in Teardowns, NEW as \in SUBSET Agents, \A a \in as : row[a] # "none",
           read'[t] = as, todo'[t] = Duties(as),
           \A u \in Teardowns \ {t} : read'[u] = read[u] /\ todo'[u] = todo[u],
           UNCHANGED <<row, columns, store>>
    PROVE  TeardownInv'
<1>1. \A d \in todo'[t] : d[1] \in read'[t]
  BY DutiesOfRows
<1>2. ASSUME NEW a \in as, NEW s \in store, s[1] = a, s[2] \in columns[a] PROVE s \in Duties(as)
  <2>1. s = <<s[1], s[2]>>
    OBVIOUS
  <2>3. {a} \X columns[a] \subseteq Duties(as)
    BY DutiesOfRows
  <2>2. <<a, s[2]>> \in {a} \X columns[a]
    BY <1>2
  <2> QED BY <1>2, <2>1, <2>2, <2>3
<1>3. \A a \in read'[t] :
          /\ a \in Agents /\ row'[a] # "none"
          /\ \A s \in store' : s[1] = a /\ s[2] \in columns'[a] => s \in todo'[t]
  BY <1>2
<1> QED BY <1>1, <1>3 DEF TeardownInv

\* A teardown reads rows: those of an agent, or of all agents of an account.
LEMMA ReadsKeep ==
    ASSUME Shapes, HealthyInv, NEW t \in Teardowns, NEW as \in SUBSET Agents, NEW next \in {"read", "tear"},
           Reads(t, as, next), \A a \in as : row[a] # "none",
           UNCHANGED <<user, pc, owner, kind, row, columns, store, grant, faults>>,
           \/ t[1] = "revoke" /\ as = {t[2]}
           \/ t[1] = "delete" /\ as = Owned(t[2]) /\ user[t[2]] = "active"
           \/ /\ t[1] = "purge" /\ as = Owned(t[2]) /\ user[t[2]] = "deleted"
              /\ \A a \in Agents : owner[a] = t[2] => pc[a] \in {"done", "failed"}
    PROVE  HealthyInv'
<1> USE Labels DEF HealthyInv, Shapes
<1>1. /\ at[t] = "idle" /\ at'[t] # "idle" /\ read'[t] = as /\ todo'[t] = Duties(as)
      /\ \A u \in Teardowns \ {t} : at'[u] = at[u] /\ read'[u] = read[u] /\ todo'[u] = todo[u]
  BY DEF Reads
<1>2. CreationInv' /\ StoreInv' /\ NoOrphanSecret'
  BY DEF CreationInv, StoreInv, NoOrphanSecret, Creating, OAuth
<1>3. TeardownInv'
  <2>1. /\ store \subseteq Agents \X Secrets /\ TeardownInv /\ (\A a \in as : row[a] # "none")
        /\ UNCHANGED <<row, columns, store>>
    OBVIOUS
  <2> QED BY ONLY <1>1, <2>1, DutiesKeep
<1>4. ReadInv'
  <2>1. ASSUME NEW a \in Agents
        PROVE  /\ read'[<<"revoke", a>>] \subseteq {a}
               /\ at'[<<"revoke", a>>] # "idle" => a \in read'[<<"revoke", a>>]
    <3>1. CASE t = <<"revoke", a>>
      BY <1>1, <3>1
    <3>2. CASE t # <<"revoke", a>>
      BY <1>1, <3>2 DEF ReadInv
    <3> QED BY <3>1, <3>2
  <2>2. \A u \in Users : Owned(u)' = Owned(u) /\ \A a \in Owned(u) : owner[a] = u
    BY DEF Owned
  <2>3. ASSUME NEW u \in Users
        PROVE  /\ \A a \in read'[<<"delete", u>>] : owner'[a] = u
               /\ at'[<<"delete", u>>] # "idle" => user'[u] = "active"
    <3>1. CASE t = <<"delete", u>>
      BY <1>1, <2>2, <3>1
    <3>2. CASE t # <<"delete", u>>
      <4>1. at'[<<"delete", u>>] = at[<<"delete", u>>] /\ read'[<<"delete", u>>] = read[<<"delete", u>>]
        BY <1>1, <3>2
      <4>2. ReadInv /\ UNCHANGED <<owner, user>>
        OBVIOUS
      <4> QED BY ONLY <4>1, <4>2 DEF ReadInv
    <3> QED BY <3>1, <3>2
  <2>4. ASSUME NEW u \in Users
        PROVE  /\ \A a \in read'[<<"purge", u>>] : owner'[a] = u
               /\ at'[<<"purge", u>>] # "idle" =>
                     /\ user'[u] # "active" /\ Owned(u)' \subseteq read'[<<"purge", u>>]
                     /\ \A a \in Agents : owner'[a] = u => pc'[a] \in {"done", "failed"}
    <3>1. CASE t = <<"purge", u>>
      BY <1>1, <2>2, <3>1
    <3>2. CASE t # <<"purge", u>>
      <4>1. at'[<<"purge", u>>] = at[<<"purge", u>>] /\ read'[<<"purge", u>>] = read[<<"purge", u>>]
        BY <1>1, <3>2
      <4>2. ReadInv /\ u \in Users
        OBVIOUS
      <4>3. /\ \A a \in read[<<"purge", u>>] : owner[a] = u
            /\ at[<<"purge", u>>] # "idle" =>
                  /\ user[u] # "active" /\ Owned(u) \subseteq read[<<"purge", u>>]
                  /\ \A a \in Agents : owner[a] = u => pc[a] \in {"done", "failed"}
        BY ONLY <4>2 DEF ReadInv
      <4>4. UNCHANGED <<owner, user, pc>> /\ Owned(u)' = Owned(u)
        BY <2>2
      <4> QED BY ONLY <4>1, <4>3, <4>4
    <3> QED BY <3>1, <3>2
  <2>5. \A u \in Teardowns : at'[u] = "idle" => read'[u] = {}
    BY <1>1 DEF ReadInv
  <2> QED BY <2>1, <2>3, <2>4, <2>5 DEF ReadInv
<1>5. LiveCredentialWorks'
  <2>1. \A u \in Teardowns : read[u] \subseteq read'[u]
    BY <1>1 DEF ReadInv
  <2> QED BY <2>1 DEF LiveCredentialWorks, OAuth
<1> QED BY <1>2, <1>3, <1>4, <1>5

\* A teardown begins.
LEMMA ReadingKeeps ==
    ASSUME Shapes, HealthyInv,
           (\E a \in Agents : Revoke(a)) \/ (\E u \in Users : DeleteAccount(u) \/ PurgeUser(u))
    PROVE  HealthyInv'
<1> USE Labels DEF agentVars, outsideVars
<1>1. ASSUME NEW a \in Agents, Revoke(a) PROVE HealthyInv'
  BY <1>1, ReadsKeep DEF Revoke
<1>2. \A u \in Users : Owned(u) \in SUBSET Agents /\ \A a \in Owned(u) : row[a] # "none"
  BY DEF Owned
<1>3. ASSUME NEW u \in Users, DeleteAccount(u) PROVE HealthyInv'
  <2>1. /\ <<"delete", u>>[1] = "delete" /\ <<"delete", u>>[2] = u /\ user[u] = "active"
        /\ Reads(<<"delete", u>>, Owned(u), "read")
        /\ UNCHANGED <<user, pc, owner, kind, row, columns, store, grant, faults>>
    BY <1>3 DEF DeleteAccount
  <2> QED BY <1>2, <2>1, ReadsKeep
<1>4. ASSUME NEW u \in Users, PurgeUser(u) PROVE HealthyInv'
  <2>1. /\ <<"purge", u>>[1] = "purge" /\ <<"purge", u>>[2] = u /\ user[u] = "deleted"
        /\ \A a \in Agents : owner[a] = u => pc[a] \in {"done", "failed"}
        /\ Reads(<<"purge", u>>, Owned(u), "read")
        /\ UNCHANGED <<user, pc, owner, kind, row, columns, store, grant, faults>>
    BY <1>4 DEF PurgeUser
  <2> QED BY <1>2, <2>1, ReadsKeep
<1> QED BY <1>1, <1>3, <1>4

\* A teardown deletes one secret, or revokes one grant, of an agent it has read.
LEMMA DeletingKeeps ==
    ASSUME Shapes, HealthyInv, NEW t \in Teardowns, NEW d \in todo[t],
           store' = store \ {d}, todo' = [todo EXCEPT ![t] = @ \ {d}],
           \A a \in Agents : a # d[1] => grant'[a] = grant[a],
           UNCHANGED <<user, pc, owner, kind, row, columns, at, read, faults>>
    PROVE  HealthyInv'
<1> USE DEF HealthyInv, Shapes
<1>1. d[1] \in read[t] /\ d[1] \in Agents /\ row[d[1]] # "none"
  BY DEF TeardownInv
<1>2. pc[d[1]] = "done"
  BY <1>1 DEF CreationInv
<1>3. CreationInv'
  <2> SUFFICES ASSUME NEW a \in Agents, a # d[1]
               PROVE  /\ pc[a] = "insert" => {a} \X Fields(kind[a]) \subseteq store'
                      /\ pc[a] \in {"put", "insert"} /\ OAuth(a) => grant'[a] = "alive"
    BY <1>2 DEF CreationInv, OAuth
  <2> QED BY DEF CreationInv
<1>4. StoreInv' /\ NoOrphanSecret'
  BY DEF StoreInv, NoOrphanSecret, Creating
<1>5. TeardownInv'
  <2> SUFFICES ASSUME NEW u \in Teardowns
               PROVE  /\ \A a \in read[u] :
                            /\ a \in Agents /\ row[a] # "none"
                            /\ \A s \in store' : s[1] = a /\ s[2] \in columns[a] => s \in todo'[u]
                      /\ \A e \in todo'[u] : e[1] \in read[u]
    BY DEF TeardownInv
  <2>1. todo'[u] = IF u = t THEN todo[u] \ {d} ELSE todo[u]
    OBVIOUS
  <2> QED BY <2>1 DEF TeardownInv
<1>6. ReadInv'
  BY DEF ReadInv, Owned
<1>7. LiveCredentialWorks'
  BY <1>1 DEF LiveCredentialWorks, OAuth
<1> QED BY <1>3, <1>4, <1>5, <1>6, <1>7

\* A teardown goes on.
LEMMA TearingKeeps ==
    ASSUME Shapes, HealthyInv, faults = 0, faults' = 0, NEW t \in Teardowns,
           \/ BeginTx(t)
           \/ \E a \in Agents : RevokeGrant(t, a) \/ \E f \in Secrets : DeleteSecret(t, a, f)
    PROVE  HealthyInv'
<1>1. CASE BeginTx(t)
  <2> USE Labels DEF HealthyInv, Shapes
  <2>1. /\ UNCHANGED <<user, pc, owner, kind, row, columns, store, grant, read, todo, faults>>
        /\ \A u \in Teardowns : at'[u] = "idle" <=> at[u] = "idle"
    BY <1>1 DEF BeginTx, agentVars, outsideVars
  <2>2. CreationInv' /\ StoreInv' /\ TeardownInv'
    BY <2>1 DEF CreationInv, StoreInv, TeardownInv, OAuth
  <2>3. ReadInv'
    BY <2>1 DEF ReadInv, Owned
  <2>4. NoOrphanSecret' /\ LiveCredentialWorks'
    BY <2>1 DEF NoOrphanSecret, Creating, LiveCredentialWorks, OAuth
  <2> QED BY <2>2, <2>3, <2>4
<1>2. ASSUME NEW a \in Agents, RevokeGrant(t, a) PROVE HealthyInv'
  <2>1. /\ <<a, "grant">> \in todo[t] /\ todo' = [todo EXCEPT ![t] = @ \ {<<a, "grant">>}]
        /\ UNCHANGED <<user, pc, owner, kind, row, columns, store, at, read, faults>>
    BY <1>2 DEF RevokeGrant, agentVars
  <2>2. \A b \in Agents : b # <<a, "grant">>[1] => grant'[b] = grant[b]
    BY <1>2 DEF RevokeGrant, Shapes
  <2>3. store' = store \ {<<a, "grant">>}
    BY <2>1 DEF Shapes, Secrets
  <2> QED BY <2>1, <2>2, <2>3, DeletingKeeps
<1>3. ASSUME NEW a \in Agents, NEW f \in Secrets, DeleteSecret(t, a, f) PROVE HealthyInv'
  <2>1. /\ <<a, f>> \in todo[t] /\ todo' = [todo EXCEPT ![t] = @ \ {<<a, f>>}]
        /\ store' = store \ {<<a, f>>}
        /\ UNCHANGED <<user, pc, owner, kind, row, columns, grant, at, read, faults>>
    BY <1>3 DEF DeleteSecret, Fault, agentVars, Shapes
  <2> QED BY <2>1, DeletingKeeps
<1> QED BY <1>1, <1>2, <1>3

\* Columns that are set to NULL owe nothing.
LEMMA NullingKeeps ==
    ASSUME TeardownInv, NEW t \in Teardowns, NEW as, read'[t] = {}, todo'[t] = {},
           store \subseteq Agents \X Secrets,
           \A u \in Teardowns \ {t} : read'[u] = read[u] /\ todo'[u] = todo[u],
           \A a \in Agents : columns'[a] = IF a \in as THEN {} ELSE columns[a],
           \A a \in Agents : row[a] # "none" => row'[a] # "none",
           UNCHANGED store
    PROVE  TeardownInv'
<1> SUFFICES ASSUME NEW u \in Teardowns \ {t}
             PROVE  /\ \A a \in read[u] :
                          /\ a \in Agents /\ row'[a] # "none"
                          /\ \A s \in store : s[1] = a /\ s[2] \in columns'[a] => s \in todo[u]
                    /\ \A d \in todo[u] : d[1] \in read[u]
  BY DEF TeardownInv
<1>1. ASSUME NEW a \in read[u]
      PROVE  /\ a \in Agents /\ row'[a] # "none"
             /\ \A s \in store : s[1] = a /\ s[2] \in columns'[a] => s \in todo[u]
  <2>1. a \in Agents /\ row[a] # "none" /\ columns'[a] \subseteq columns[a]
    BY <1>1 DEF TeardownInv
  <2> QED BY <1>1, <2>1 DEF TeardownInv
<1> QED BY <1>1 DEF TeardownInv

\* A teardown that has nothing left to delete sets columns to NULL, of rows it has read.
LEMMA EndsKeep ==
    ASSUME Shapes, HealthyInv, faults = 0, NEW t \in Teardowns, todo[t] = {}, Rest(t),
           NEW as \in SUBSET read[t], Nulled(as),
           UNCHANGED <<pc, owner, kind, store, grant, faults>>,
           \A a \in Agents \ as : row'[a] = row[a],
           \A a \in read[t] : row'[a] \in {"revoked", "gone"},
           \A u \in Users : at[<<"purge", u>>] # "idle" => Owned(u)' \subseteq Owned(u),
           \A u \in Users : /\ user[u] = "active" /\ t # <<"delete", u>> => user'[u] = "active"
                            /\ user[u] # "active" => user'[u] # "active"
    PROVE  HealthyInv'
<1> USE Labels DEF HealthyInv, Shapes
<1>1. /\ at'[t] = "idle" /\ read'[t] = {} /\ todo'[t] = {}
      /\ \A u \in Teardowns \ {t} : at'[u] = at[u] /\ read'[u] = read[u] /\ todo'[u] = todo[u]
  BY DEF Rest
<1>2. \A a \in Agents : columns'[a] = IF a \in as THEN {} ELSE columns[a]
  BY DEF Nulled
<1>3. ASSUME NEW a \in read[t] PROVE a \in Agents /\ pc[a] = "done" /\ \A s \in store : s[1] # a
  <2>1. /\ a \in Agents /\ row[a] # "none"
        /\ \A s \in store : ~(s[1] = a /\ s[2] \in columns[a])
    BY DEF TeardownInv
  <2>2. pc[a] = "done"
    BY <2>1 DEF CreationInv
  <2>3. \A s \in store : s[1] = a => s[2] \in columns[a]
    BY <2>2 DEF NoOrphanSecret, Creating
  <2> QED BY <2>1, <2>2, <2>3
<1>4. \A a \in Agents : row'[a] # row[a] => a \in as /\ pc[a] = "done"
  BY <1>3
<1>5. \A a \in Agents : row[a] # "none" => row'[a] # "none"
  BY <1>3
<1>6. CreationInv' /\ StoreInv'
  BY <1>4 DEF CreationInv, StoreInv, OAuth
<1>7. TeardownInv'
  <2>1. TeardownInv /\ store \subseteq Agents \X Secrets /\ UNCHANGED store
    OBVIOUS
  <2> QED BY ONLY <1>1, <1>2, <1>5, <2>1, NullingKeeps
<1>8. ReadInv'
  BY <1>1 DEF ReadInv
<1>9. NoOrphanSecret'
  <2> SUFFICES ASSUME NEW s \in store PROVE s[2] \in columns'[s[1]] \/ pc[s[1]] \in {"put", "insert", "cleanup"}
    BY DEF NoOrphanSecret, Creating
  <2>1. store \subseteq Agents \X Secrets /\ as \subseteq read[t]
    OBVIOUS
  <2>2. s[1] \in Agents /\ s[1] \notin as
    BY ONLY <1>3, <2>1, s \in store
  <2>3. NoOrphanSecret /\ faults = 0
    OBVIOUS
  <2> QED BY ONLY <1>2, <2>2, <2>3, s \in store DEF NoOrphanSecret, Creating
<1>10. LiveCredentialWorks'
  <2> SUFFICES ASSUME NEW a \in Agents, row'[a] = "live", user'[owner[a]] = "active",
                      \A u \in Teardowns : a \notin read'[u]
               PROVE  {a} \X Fields(kind[a]) \subseteq store /\ (OAuth(a) => grant[a] = "alive")
    BY DEF LiveCredentialWorks, OAuth
  <2>1. row[a] = "live" /\ \A u \in Teardowns : a \notin read[u]
    <3>1. a \notin read[t]
      OBVIOUS
    <3>2. row[a] = row'[a]
      BY <3>1
    <3> QED BY <1>1, <3>1, <3>2
  <2>2. user[owner[a]] = "active"
    BY <2>1 DEF CreationInv
  <2> QED BY <2>1, <2>2 DEF LiveCredentialWorks
<1> QED BY <1>6, <1>7, <1>8, <1>9, <1>10

\* A teardown ends.
LEMMA EndingKeeps ==
    ASSUME Shapes, HealthyInv, faults = 0, faults' = 0,
           (\E a \in Agents : RevokeEnds(a)) \/ (\E u \in Users : DeleteEnds(u) \/ PurgeEnds(u))
    PROVE  HealthyInv'
<1> USE Labels DEF HealthyInv, Shapes, outsideVars
<1>1. ASSUME NEW a \in Agents, RevokeEnds(a) PROVE HealthyInv'
  <2> DEFINE t == <<"revoke", a>>
  <2>1. /\ t \in Teardowns /\ todo[t] = {} /\ Rest(t) /\ read[t] = {a} /\ row[a] # "none"
        /\ UNCHANGED <<user, pc, owner, kind, store, grant, faults>>
    BY <1>1 DEF RevokeEnds, ReadInv, TeardownInv, Fault
  <2>2. CASE row[a] # "gone"
    <3>1. Nulled({a}) /\ \A b \in Agents : row'[b] = IF b = a THEN "revoked" ELSE row[b]
      BY <1>1, <2>2 DEF RevokeEnds, Marked, Fault
    <3>2. row[a] \in {"live", "revoked"}
      BY <2>1, <2>2
    <3>3. \A u \in Users : Owned(u)' \subseteq Owned(u)
      BY <2>1, <3>1, <3>2 DEF Owned
    <3> HIDE DEF t, HealthyInv, Shapes
    <3> QED BY <2>1, <3>1, <3>3, EndsKeep
  <2>3. CASE row[a] = "gone"
    <3>1. Nulled({}) /\ row' = row
      BY <1>1, <2>3 DEF RevokeEnds, Nulled, Fault
    <3>2. \A u \in Users : Owned(u)' = Owned(u)
      BY <2>1, <3>1 DEF Owned
    <3> HIDE DEF t, HealthyInv, Shapes
    <3> QED BY <2>1, <2>3, <3>1, <3>2, EndsKeep
  <2> QED BY <2>2, <2>3
<1>2. ASSUME NEW u \in Users, DeleteEnds(u) PROVE HealthyInv'
  <2> DEFINE t == <<"delete", u>>
  <2>0. ~Fault
    BY DEF Fault
  <2>1. /\ t \in Teardowns /\ at[t] = "tear" /\ todo[t] = {} /\ Rest(t) /\ Nulled(read[t])
        /\ user' = [user EXCEPT ![u] = "deleted"]
        /\ UNCHANGED <<pc, owner, kind, store, grant, faults>>
    BY <1>2, <2>0 DEF DeleteEnds
  <2>2. user[u] = "active" /\ \A a \in read[t] : a \in Agents /\ owner[a] = u
    BY <2>1 DEF ReadInv, TeardownInv
  <2>3. \A a \in Agents : row'[a] = IF a \in read[t] THEN "revoked" ELSE row[a]
    BY <1>2, <2>0 DEF DeleteEnds, Marked
  <2>4. \A w \in Users : at[<<"purge", w>>] # "idle" => Owned(w)' \subseteq Owned(w)
    BY <2>1, <2>2, <2>3 DEF ReadInv, Owned
  <2>5. \A w \in Users : /\ user[w] = "active" /\ t # <<"delete", w>> => user'[w] = "active"
                         /\ user[w] # "active" => user'[w] # "active"
    BY <2>1
  <2> HIDE DEF t, HealthyInv, Shapes
  <2> QED BY <2>1, <2>2, <2>3, <2>4, <2>5, EndsKeep
<1>3. ASSUME NEW u \in Users, PurgeEnds(u) PROVE HealthyInv'
  <2> DEFINE t == <<"purge", u>>
  <2>0. ~Fault
    BY DEF Fault
  <2>1. /\ t \in Teardowns /\ at[t] = "tear" /\ todo[t] = {} /\ Rest(t) /\ Nulled(Owned(u))
        /\ user' = [user EXCEPT ![u] = "purged"]
        /\ UNCHANGED <<pc, owner, kind, store, grant, faults>>
    BY <1>3, <2>0 DEF PurgeEnds
  <2>2. Owned(u) \subseteq read[t] /\ user[u] # "active"
    BY <2>1 DEF ReadInv
  <2>3. \A a \in Agents : row'[a] = IF a \in Owned(u) THEN "gone" ELSE row[a]
    BY <1>3, <2>0 DEF PurgeEnds, Marked
  <2>4. \A w \in Users : Owned(w)' \subseteq Owned(w)
    BY <2>1, <2>3 DEF Owned
  <2>5. \A a \in read[t] : row'[a] = "gone"
    <3>1. \A a \in read[t] : a \in Agents /\ row[a] # "none"
      BY <2>1 DEF TeardownInv
    <3>2. \A a \in read[t] : owner[a] = u
      BY <2>1 DEF ReadInv
    <3> QED BY <2>3, <3>1, <3>2 DEF Owned
  <2>6. \A w \in Users : /\ user[w] = "active" => user'[w] = "active"
                         /\ user[w] # "active" => user'[w] # "active"
    BY <2>1, <2>2
  <2> HIDE DEF t, HealthyInv, Shapes
  <2> QED BY <2>1, <2>2, <2>3, <2>4, <2>5, <2>6, EndsKeep
<1> QED BY <1>1, <1>2, <1>3

\* All the steps of Next, as long as no call has failed.
LEMMA StepKeeps == CredInv /\ [Next]_vars => CredInv'
<1> SUFFICES ASSUME CredInv, [Next]_vars, faults' = 0 PROVE HealthyInv'
  BY StepKeepsShapes DEF CredInv
<1>1. Shapes /\ HealthyInv /\ faults = 0
  BY StepKeepsShapes DEF CredInv, Shapes
<1>2. ASSUME NEW a \in Agents, Creation(a) PROVE HealthyInv'
  BY <1>1, <1>2, BeginKeeps, CreationKeeps DEF Creation
<1>3. ASSUME NEW a \in Agents, Revoke(a) PROVE HealthyInv'
  BY <1>1, <1>3, ReadingKeeps
<1>4. ASSUME NEW u \in Users, DeleteAccount(u) \/ PurgeUser(u) PROVE HealthyInv'
  BY <1>1, <1>4, ReadingKeeps
<1>5. ASSUME NEW t \in Teardowns, Proceed(t) PROVE HealthyInv'
  BY <1>1, <1>5, Labels, TearingKeeps, EndingKeeps DEF Proceed, Secrets
<1>6. CASE UNCHANGED vars
  <2> USE DEF vars, agentVars, outsideVars, teardownVars
  <2>1. CreationInv' /\ StoreInv' /\ TeardownInv'
    BY <1>1, <1>6 DEF HealthyInv, CreationInv, StoreInv, TeardownInv, OAuth
  <2>2. ReadInv'
    BY <1>1, <1>6 DEF HealthyInv, ReadInv, Owned
  <2>3. NoOrphanSecret' /\ LiveCredentialWorks'
    BY <1>1, <1>6 DEF HealthyInv, NoOrphanSecret, Creating, LiveCredentialWorks, OAuth
  <2> QED BY <2>1, <2>2, <2>3 DEF HealthyInv
<1> QED BY <1>2, <1>3, <1>4, <1>5, <1>6 DEF Next

\* The inductive invariant behind both theorems.
LEMMA CredInvAlways == Spec => []CredInv
BY InitHolds, StepKeeps, PTL DEF Spec

-----------------------------------------------------------------------------

\* However creations, revocations, deletions and purges interleave: while no call fails,
\* no secret is left in the store that only its own handler or a column can name
\* (purge_agent_upstream_secrets, and the handlers that call it).
THEOREM NoSecretIsOrphaned == Spec => []NoOrphanSecret
<1>1. CredInv => NoOrphanSecret
  BY DEF CredInv, HealthyInv, NoOrphanSecret
<1> QED BY <1>1, CredInvAlways, PTL

\* And a credential nobody tears down keeps its secrets and its grant, whatever
\* becomes of the others (create_agent, oauth2_callback).
THEOREM LiveAlwaysWorks == Spec => []LiveCredentialWorks
<1>1. CredInv => LiveCredentialWorks
  BY DEF CredInv, HealthyInv, LiveCredentialWorks
<1> QED BY <1>1, CredInvAlways, PTL

-----------------------------------------------------------------------------
(* Lines before a lock *)

InLine(q, x) == \E i \in DOMAIN q : q[i] = x
Distinct(q) == \A i, j \in DOMAIN q : q[i] = q[j] => i = j

\* Whoever joins a line stands last in it.
LEMMA Joining ==
    ASSUME NEW S, NEW q \in Seq(S), Distinct(q), NEW c \in S, ~InLine(q, c)
    PROVE  /\ Append(q, c) \in Seq(S) /\ Distinct(Append(q, c)) /\ Append(q, c) # <<>>
           /\ \A x : InLine(Append(q, c), x) <=> InLine(q, x) \/ x = c
           /\ Head(Append(q, c)) = IF q = <<>> THEN c ELSE Head(q)
  <1>1. \A x : InLine(Append(q, c), x) <=> InLine(q, x) \/ x = c
    <2>1. ASSUME NEW x, InLine(Append(q, c), x) PROVE InLine(q, x) \/ x = c
      BY <2>1 DEF InLine
    <2>2. ASSUME NEW x, InLine(q, x) PROVE InLine(Append(q, c), x)
      BY <2>2 DEF InLine
    <2>3. InLine(Append(q, c), c)
      <3>1. Append(q, c)[Len(q) + 1] = c /\ Len(q) + 1 \in DOMAIN Append(q, c)
        OBVIOUS
      <3> QED BY <3>1 DEF InLine
    <2> QED BY <2>1, <2>2, <2>3
  <1> QED BY <1>1 DEF InLine, Distinct

\* When the first leaves, all the others stay.
LEMMA Leaving ==
    ASSUME NEW S, NEW q \in Seq(S), Distinct(q), q # <<>>
    PROVE  /\ Tail(q) \in Seq(S) /\ Distinct(Tail(q))
           /\ \A x : InLine(Tail(q), x) <=> InLine(q, x) /\ x # Head(q)
  <1>0. /\ Tail(q) \in Seq(S) /\ Len(Tail(q)) = Len(q) - 1 /\ Len(q) \in Nat /\ Len(q) > 0
        /\ DOMAIN Tail(q) = 1 .. Len(q) - 1 /\ DOMAIN q = 1 .. Len(q)
        /\ \A i \in 1 .. Len(q) - 1 : Tail(q)[i] = q[i + 1]
        /\ Head(q) = q[1]
    OBVIOUS
  <1>1. Distinct(Tail(q))
    BY <1>0 DEF Distinct
  <1>2. ASSUME NEW x, InLine(Tail(q), x) PROVE InLine(q, x) /\ x # Head(q)
    <2>1. PICK i \in 1 .. Len(q) - 1 : Tail(q)[i] = x
      BY <1>0, <1>2 DEF InLine
    <2>2. i + 1 \in DOMAIN q /\ q[i + 1] = x /\ 1 \in DOMAIN q /\ i + 1 # 1
      BY <1>0, <2>1
    <2> QED BY <1>0, <2>2 DEF InLine, Distinct
  <1>3. ASSUME NEW x, InLine(q, x), x # Head(q) PROVE InLine(Tail(q), x)
    <2>1. PICK i \in 1 .. Len(q) : q[i] = x
      BY <1>0, <1>3 DEF InLine
    <2>2. i - 1 \in 1 .. Len(q) - 1 /\ Tail(q)[i - 1] = x
      BY <1>0, <1>3, <2>1
    <2> QED BY <1>0, <2>2 DEF InLine
  <1> QED BY <1>0, <1>1, <1>2, <1>3

-----------------------------------------------------------------------------
(* AccessTokens *)

Dated == [issued : Nat, expires : Nat]

TokenShapes ==
    /\ now \in Nat /\ cache \in Dated /\ line \in Seq(Callers) /\ Distinct(line)
    /\ caller \in [Callers -> {"idle", "waits", "sends", "awaits", "failed", "served"}]
    /\ sentAt \in [Callers -> Nat] /\ got \in [Callers -> Dated] /\ wasted \in BOOLEAN

\* The first of the line alone is past the second look at the cache.
LineInv ==
    \A c \in Callers :
        /\ (caller[c] \in {"waits", "sends", "awaits"}) <=> InLine(line, c)
        /\ caller[c] \in {"sends", "awaits"} => c = Head(line)

\* The cache dates a token Latency too late at most; whoever is about to ask for one
\* asks while there is no fresh one.
DatesInv ==
    /\ cache.expires <= cache.issued + Latency + Lifetime
    /\ \A c \in Callers :
          /\ caller[c] = "awaits" => sentAt[c] <= now /\ now <= sentAt[c] + Latency
          /\ caller[c] = "sends" => ~Tokens!Fresh

TokensInv == TokenShapes /\ LineInv /\ DatesInv /\ Tokens!ServedIsLive /\ Tokens!NeverWasted

\* At the start nobody is in line and there is no token.
LEMMA TokensBegin == Tokens!Init => TokensInv
  <1> SUFFICES ASSUME Tokens!Init PROVE TokensInv
    OBVIOUS
  <1>0. {Lifetime, Buffer, Latency} \subseteq Nat
    BY TokensAssumption DEF Tokens!TokenAssumption
  <1>1. TokenShapes /\ LineInv
    <2>1. TokenShapes
      <3>1. line \in Seq(Callers) /\ Distinct(line)
        BY DEF Tokens!Init, Distinct
      <3>2. cache \in Dated /\ got \in [Callers -> Dated]
        BY DEF Tokens!Init, Tokens!NoToken, Dated
      <3> QED BY <3>1, <3>2 DEF Tokens!Init, TokenShapes
    <2>2. LineInv
      BY DEF Tokens!Init, LineInv, InLine
    <2> QED BY <2>1, <2>2
  <1>2. DatesInv /\ Tokens!ServedIsLive /\ Tokens!NeverWasted
    BY <1>0 DEF Tokens!Init, Tokens!NoToken, DatesInv, Tokens!ServedIsLive, Tokens!NeverWasted
  <1> QED BY <1>1, <1>2 DEF TokensInv

\* A fresh entry is live, and stays so for all of the buffer but Latency.
LEMMA FreshIsLive == TokensInv /\ Tokens!Fresh => cache.issued + Lifetime > now
  BY TokensAssumption DEF TokensInv, TokenShapes, DatesInv, Dated, Tokens!Fresh, Tokens!TokenAssumption

\* And no step of get_access_token, nor a tick of the clock, breaks it.
LEMMA TokensStep == TokensInv /\ [Tokens!Next]_tokenVars => TokensInv'
  <1> SUFFICES ASSUME TokensInv, [Tokens!Next]_tokenVars PROVE TokensInv'
    OBVIOUS
  <1> USE DEF TokensInv
  <1>0. {Lifetime, Buffer, Latency} \subseteq Nat /\ Latency < Buffer /\ Buffer < Lifetime
    BY TokensAssumption DEF Tokens!TokenAssumption
  <1>1. CASE Tokens!Tick
    <2>1. TokenShapes' /\ LineInv'
      BY <1>1 DEF Tokens!Tick, TokenShapes, LineInv
    <2>2. DatesInv' /\ Tokens!ServedIsLive' /\ Tokens!NeverWasted'
      BY <1>0, <1>1 DEF Tokens!Tick, TokenShapes, DatesInv, Dated, Tokens!Fresh, Tokens!ServedIsLive, Tokens!NeverWasted
    <2> QED BY <2>1, <2>2
  <1>2. ASSUME NEW c \in Callers, Tokens!FastPath(c) PROVE TokensInv'
    <2>1. TokenShapes' /\ LineInv'
      BY <1>2 DEF Tokens!FastPath, Tokens!Serve, Tokens!Goto, TokenShapes, LineInv
    <2>2. DatesInv' /\ Tokens!ServedIsLive' /\ Tokens!NeverWasted'
      BY <1>0, <1>2, FreshIsLive DEF Tokens!FastPath, Tokens!Serve, Tokens!Goto, TokenShapes, DatesInv,
         Tokens!Fresh, Tokens!ServedIsLive, Tokens!NeverWasted
    <2> QED BY <2>1, <2>2
  <1>3. ASSUME NEW c \in Callers, Tokens!SlowPath(c) PROVE TokensInv'
    <2>0. ~InLine(line, c) /\ line' = Append(line, c)
      BY <1>3 DEF Tokens!SlowPath, LineInv, TokenShapes
    <2>1. /\ line' \in Seq(Callers) /\ Distinct(line')
          /\ \A x : InLine(line', x) <=> InLine(line, x) \/ x = c
          /\ Head(line') = IF line = <<>> THEN c ELSE Head(line)
      BY <2>0, Joining DEF TokenShapes
    <2>2. TokenShapes'
      BY <1>3, <2>1 DEF Tokens!SlowPath, Tokens!Goto, TokenShapes
    <2>3. \A d \in Callers : InLine(line, d) => line # <<>>
      BY DEF InLine
    <2>4. LineInv'
      BY <1>3, <2>1, <2>3 DEF Tokens!SlowPath, Tokens!Goto, TokenShapes, LineInv
    <2>5. DatesInv' /\ Tokens!ServedIsLive' /\ Tokens!NeverWasted'
      BY <1>0, <1>3 DEF Tokens!SlowPath, Tokens!Goto, TokenShapes, DatesInv, Tokens!Fresh, Tokens!ServedIsLive, Tokens!NeverWasted
    <2> QED BY <2>2, <2>4, <2>5
  <1>4. ASSUME NEW c \in Callers, Tokens!Again(c) PROVE TokensInv'
    <2>1. TokenShapes' /\ LineInv'
      BY <1>4 DEF Tokens!Again, Tokens!Goto, TokenShapes, LineInv
    <2>2. DatesInv' /\ Tokens!ServedIsLive' /\ Tokens!NeverWasted'
      BY <1>4 DEF Tokens!Again, Tokens!Goto, TokenShapes, DatesInv, Tokens!Fresh, Tokens!ServedIsLive, Tokens!NeverWasted
    <2> QED BY <2>1, <2>2
  <1>5. ASSUME NEW c \in Callers, caller[c] \in {"waits", "sends", "awaits"}, Head(line) = c
        PROVE  /\ Tail(line) \in Seq(Callers) /\ Distinct(Tail(line))
               /\ \A d \in Callers : InLine(Tail(line), d) <=> InLine(line, d) /\ d # c
    <2>1. line # <<>>
      BY <1>5 DEF LineInv, InLine
    <2> QED BY <1>5, <2>1, Leaving DEF TokenShapes
  <1>6. ASSUME NEW c \in Callers, Tokens!Acquire(c) PROVE TokensInv'
    <2>1. CASE Tokens!Fresh
      <3>1. TokenShapes' /\ LineInv'
        BY <1>5, <1>6, <2>1 DEF Tokens!Acquire, Tokens!Serve, Tokens!Goto, TokenShapes, LineInv
      <3>2. DatesInv' /\ Tokens!ServedIsLive' /\ Tokens!NeverWasted'
        BY <1>0, <1>6, <2>1, FreshIsLive DEF Tokens!Acquire, Tokens!Serve, Tokens!Goto, TokenShapes, DatesInv,
           Tokens!Fresh, Tokens!ServedIsLive, Tokens!NeverWasted
      <3> QED BY <3>1, <3>2
    <2>2. CASE ~Tokens!Fresh
      <3>0. caller[c] = "waits" /\ c = Head(line) /\ caller' = [caller EXCEPT ![c] = "sends"] /\ line' = line /\ got' = got
        BY <1>6, <2>2 DEF Tokens!Acquire, Tokens!Goto
      <3>1. TokenShapes'
        BY <1>6, <3>0 DEF Tokens!Acquire, TokenShapes, Distinct
      <3>4. LineInv'
        BY <3>0 DEF TokenShapes, LineInv
      <3>2. DatesInv' /\ Tokens!ServedIsLive' /\ Tokens!NeverWasted'
        BY <1>6, <2>2 DEF Tokens!Acquire, Tokens!Goto, TokenShapes, DatesInv, Tokens!Fresh, Tokens!ServedIsLive, Tokens!NeverWasted
      <3> QED BY <3>1, <3>2, <3>4
    <2> QED BY <2>1, <2>2
  <1>7. ASSUME NEW c \in Callers, Tokens!Post(c) PROVE TokensInv'
    <2>1. TokenShapes' /\ LineInv'
      BY <1>7 DEF Tokens!Post, Tokens!Goto, TokenShapes, LineInv
    <2>2. DatesInv' /\ Tokens!ServedIsLive' /\ Tokens!NeverWasted'
      BY <1>0, <1>7 DEF Tokens!Post, Tokens!Goto, TokenShapes, DatesInv, Tokens!Fresh, Tokens!ServedIsLive, Tokens!NeverWasted
    <2> QED BY <2>1, <2>2
  <1>8. ASSUME NEW c \in Callers, Tokens!Refreshed(c) PROVE TokensInv'
    <2>1. PICK issued \in sentAt[c] .. now :
             /\ cache' = [issued |-> issued, expires |-> now + Lifetime]
             /\ got' = [got EXCEPT ![c] = cache'] /\ caller' = [caller EXCEPT ![c] = "served"]
      BY <1>8 DEF Tokens!Refreshed, Tokens!Serve, Tokens!Goto
    <2>2. issued \in Nat /\ cache' \in Dated
      BY <1>0, <2>1 DEF TokenShapes, Dated
    <2>3. now <= issued + Latency
      BY <1>0, <1>8, <2>1 DEF Tokens!Refreshed, TokenShapes, DatesInv
    <2>4. caller[c] = "awaits" /\ Head(line) = c /\ line' = Tail(line)
      BY <1>8 DEF Tokens!Refreshed, LineInv
    <2>5. TokenShapes'
      BY <1>5, <1>8, <2>1, <2>2, <2>4 DEF Tokens!Refreshed, TokenShapes
    <2>6. LineInv' /\ \A d \in Callers : caller'[d] # "sends"
      BY <1>5, <2>1, <2>4 DEF TokenShapes, LineInv
    <2>7. DatesInv' /\ Tokens!NeverWasted'
      BY <1>0, <1>8, <2>1, <2>2, <2>3, <2>6 DEF Tokens!Refreshed, TokenShapes, DatesInv, Tokens!NeverWasted
    <2>8. Tokens!ServedIsLive'
      <3>1. ASSUME NEW d \in Callers, caller'[d] = "served" PROVE got'[d].issued + Lifetime > now
        <4>1. CASE d = c
          <5>1. got'[d].issued = issued
            BY <2>1, <4>1 DEF TokenShapes
          <5> QED BY <1>0, <2>2, <2>3, <5>1 DEF TokenShapes
        <4>2. CASE d # c
          BY <2>1, <3>1, <4>2 DEF TokenShapes, Tokens!ServedIsLive
        <4> QED BY <4>1, <4>2
      <3> QED BY <1>8, <3>1 DEF Tokens!Refreshed, Tokens!ServedIsLive
    <2> QED BY <2>5, <2>6, <2>7, <2>8
  <1>9. ASSUME NEW c \in Callers, Tokens!RefreshFails(c) PROVE TokensInv'
    <2>1. Head(line) = c
      BY <1>9 DEF Tokens!RefreshFails, LineInv
    <2>2. TokenShapes' /\ LineInv'
      BY <1>5, <1>9, <2>1 DEF Tokens!RefreshFails, Tokens!Goto, TokenShapes, LineInv
    <2>3. DatesInv' /\ Tokens!ServedIsLive' /\ Tokens!NeverWasted'
      BY <1>9 DEF Tokens!RefreshFails, Tokens!Goto, TokenShapes, DatesInv, Tokens!Fresh, Tokens!ServedIsLive, Tokens!NeverWasted
    <2> QED BY <2>2, <2>3
  <1>10. CASE UNCHANGED tokenVars
    BY <1>10 DEF tokenVars, TokenShapes, LineInv, DatesInv, Tokens!Fresh, Tokens!ServedIsLive, Tokens!NeverWasted
  <1> QED BY <1>1, <1>2, <1>3, <1>4, <1>6, <1>7, <1>8, <1>9, <1>10 DEF Tokens!Next, Tokens!Proceed

-----------------------------------------------------------------------------
(* SecretCache *)

AtWork == {"fetches", "answered"}

CacheShapes ==
    /\ stored \in [Refs -> {"absent", "present", "deleted"}]
    /\ IsFiniteSet(cached) /\ expired \subseteq cached
    /\ DOMAIN call = Cache!Calls /\ wants \in [Cache!Calls -> Refs]
    /\ DOMAIN locks = Refs
    /\ \A r \in Refs : locks[r] \in Seq(Readers) /\ Distinct(locks[r])

\* A call is in line for the secret it wants and for no other, and only the first of a
\* line is past the second look at the cache.
LocksInv ==
    /\ \A c \in Cache!Calls :
          /\ call[c] \in {"waits"} \cup AtWork <=> InLine(locks[wants[c]], c)
          /\ call[c] \in AtWork => c = Head(locks[wants[c]])
    /\ \A r \in Refs, c \in Cache!Calls : InLine(locks[r], c) => wants[c] = r

\* Each fetch that is under way is that of a call at work.
FetchesInv == \A r \in fetches : \E c \in Cache!Calls : call[c] \in AtWork /\ wants[c] = r

CachesInv == CacheShapes /\ LocksInv /\ FetchesInv /\ Cache!SingleFlight /\ Cache!CacheIsBounded

\* The cache's module counts as this one does.
LEMMA SameCount == \A S : Cache!Cardinality(S) = Cardinality(S)
  BY DEF Cache!Cardinality, Cardinality

\* At the start nothing is cached and nobody asks.
LEMMA CacheBegins == Cache!Init => CachesInv
  <1> SUFFICES ASSUME Cache!Init PROVE CachesInv
    OBVIOUS
  <1>1. CacheShapes
    BY FS_EmptySet DEF Cache!Init, CacheShapes, Distinct
  <1>2. LocksInv /\ FetchesInv
    BY DEF Cache!Init, LocksInv, FetchesInv, AtWork, InLine
  <1>3. Cache!SingleFlight /\ Cache!CacheIsBounded
    BY SameCount, CachesAssumption, FS_EmptySet DEF Cache!Init, Cache!SingleFlight, Cache!CacheIsBounded, Cache!CacheAssumption
  <1> QED BY <1>1, <1>2, <1>3 DEF CachesInv

\* The smaller of two numbers.
LEMMA MinOfTwo ==
    ASSUME NEW m \in Nat, NEW n \in Nat
    PROVE  Cache!Min({m, n}) \in {m, n} /\ Cache!Min({m, n}) <= m
  <1>1. \E x \in {m, n} : \A y \in {m, n} : x <= y
    OBVIOUS
  <1> QED BY <1>1 DEF Cache!Min

\* _store keeps the cache within its bound, whatever it throws out.
LEMMA StoreIsBounded ==
    ASSUME NEW r, Cache!Store(r), IsFiniteSet(cached), Cache!CacheIsBounded
    PROVE  IsFiniteSet(cached') /\ expired' \subseteq cached' /\ Cache!CacheIsBounded'
  <1>0. MaxEntries \in Nat \ {0}
    BY CachesAssumption DEF Cache!CacheAssumption
  <1>1. PICK gone \in SUBSET expired, kept \in SUBSET cached :
           /\ IF Cardinality(cached) < MaxEntries THEN kept = cached
              ELSE /\ kept \cap gone = {}
                   /\ Cardinality(kept) = Cache!Min({MaxEntries - 1, Cardinality(cached \ gone)})
           /\ cached' = kept \cup {r} /\ expired' = (expired \cap kept) \ {r}
    BY SameCount DEF Cache!Store
  <1>2. IsFiniteSet(kept) /\ IsFiniteSet(cached \ gone)
    BY FS_Subset
  <1>3. Cardinality(kept) \in Nat /\ Cardinality(cached \ gone) \in Nat
    BY <1>2, FS_CardinalityType
  <1>4. Cardinality(kept) <= MaxEntries - 1
    <2>1. CASE Cardinality(cached) < MaxEntries
      BY <1>0, <1>1, <1>3, <2>1
    <2>2. CASE ~(Cardinality(cached) < MaxEntries)
      <3>1. MaxEntries - 1 \in Nat
        BY <1>0
      <3>2. Cache!Min({MaxEntries - 1, Cardinality(cached \ gone)}) <= MaxEntries - 1
        BY <1>3, <3>1, MinOfTwo
      <3> QED BY <1>1, <2>2, <3>2
    <2> QED BY <2>1, <2>2
  <1>5. IsFiniteSet(cached') /\ Cardinality(cached') <= Cardinality(kept) + 1
    BY <1>1, <1>2, <1>3, FS_AddElement
  <1>6. Cardinality(cached') \in Nat
    BY <1>5, FS_CardinalityType
  <1> QED BY SameCount, <1>0, <1>1, <1>3, <1>4, <1>5, <1>6 DEF Cache!CacheIsBounded

\* Nor does a step of get, put or delete, or an entry that expires.
LEMMA CacheSteps == CachesInv /\ [Cache!Next]_cacheVars => CachesInv'
  <1> SUFFICES ASSUME CachesInv, [Cache!Next]_cacheVars PROVE CachesInv'
    OBVIOUS
  <1> USE DEF CachesInv
  <1>1. ASSUME NEW r \in Refs, Cache!Expire(r) PROVE CachesInv'
    <2>1. CacheShapes' /\ LocksInv' /\ FetchesInv'
      BY <1>1 DEF Cache!Expire, Cache!Fresh, CacheShapes, LocksInv, FetchesInv
    <2>2. Cache!SingleFlight' /\ Cache!CacheIsBounded'
      BY <1>1 DEF Cache!Expire, Cache!SingleFlight, Cache!CacheIsBounded
    <2> QED BY <2>1, <2>2
  <1>2. ASSUME NEW r \in Refs, Cache!Put(r) PROVE CachesInv'
    <2>1. IsFiniteSet(cached') /\ expired' \subseteq cached' /\ Cache!CacheIsBounded'
      BY <1>2, StoreIsBounded DEF Cache!Put, CacheShapes
    <2>2. CacheShapes'
      BY <1>2, <2>1 DEF Cache!Put, CacheShapes
    <2>3. LocksInv' /\ FetchesInv' /\ Cache!SingleFlight'
      BY <1>2 DEF Cache!Put, LocksInv, FetchesInv, Cache!SingleFlight
    <2> QED BY <2>1, <2>2, <2>3
  <1>3. ASSUME NEW c \in Cache!Calls, NEW r \in Refs, Cache!Get(c, r) PROVE CachesInv'
    <2>0. /\ c \in Readers /\ call[c] = "idle" /\ wants' = [wants EXCEPT ![c] = r]
          /\ UNCHANGED <<stored, cached, expired, fetches, repeated>>
      BY <1>3 DEF Cache!Get
    <2>1. \A q \in Refs : ~InLine(locks[q], c)
      BY <2>0 DEF LocksInv, AtWork
    <2>2. CASE Cache!Fresh(r)
      <3>1. call' = [call EXCEPT ![c] = "served"] /\ locks' = locks
        BY <1>3, <2>2 DEF Cache!Get, Cache!Goto
      <3>2. CacheShapes'
        BY <2>0, <3>1 DEF CacheShapes
      <3>3. LocksInv' /\ FetchesInv'
        BY <2>0, <2>1, <3>1 DEF CacheShapes, LocksInv, FetchesInv, AtWork
      <3>4. Cache!SingleFlight' /\ Cache!CacheIsBounded'
        BY <2>0 DEF Cache!SingleFlight, Cache!CacheIsBounded
      <3> QED BY <3>2, <3>3, <3>4
    <2>3. CASE ~Cache!Fresh(r)
      <3>1. call' = [call EXCEPT ![c] = "waits"] /\ locks' = [locks EXCEPT ![r] = Append(locks[r], c)]
        BY <1>3, <2>3 DEF Cache!Get, Cache!Goto
      <3>2. /\ Append(locks[r], c) \in Seq(Readers) /\ Distinct(Append(locks[r], c))
            /\ \A x : InLine(Append(locks[r], c), x) <=> InLine(locks[r], x) \/ x = c
            /\ Head(Append(locks[r], c)) = IF locks[r] = <<>> THEN c ELSE Head(locks[r])
        BY <2>0, <2>1, Joining DEF CacheShapes
      <3>3. CacheShapes'
        BY <2>0, <3>1, <3>2 DEF CacheShapes
      <3>4. \A q \in Refs, d \in Cache!Calls : InLine(locks[q], d) => locks[q] # <<>>
        BY DEF InLine
      <3>5. LocksInv'
        BY <2>0, <2>1, <3>1, <3>2, <3>4 DEF CacheShapes, LocksInv, AtWork
      <3>6. FetchesInv'
        BY <2>0, <3>1 DEF CacheShapes, FetchesInv, AtWork
      <3>7. Cache!SingleFlight' /\ Cache!CacheIsBounded'
        BY <2>0 DEF Cache!SingleFlight, Cache!CacheIsBounded
      <3> QED BY <3>3, <3>5, <3>6, <3>7
    <2> QED BY <2>2, <2>3
  <1>4. ASSUME NEW c \in Cache!Calls, NEW r \in Refs, Cache!Delete(c, r) PROVE CachesInv'
    <2>0. \A q \in Refs : ~InLine(locks[q], c)
      BY <1>4 DEF Cache!Delete, LocksInv, AtWork
    <2>1. IsFiniteSet(cached') /\ Cache!CacheIsBounded'
      <3>1. IsFiniteSet(cached \ {r}) /\ Cardinality(cached \ {r}) <= Cardinality(cached)
        BY FS_Subset DEF CacheShapes
      <3>2. Cardinality(cached \ {r}) \in Nat /\ Cardinality(cached) \in Nat /\ MaxEntries \in Nat
        BY <3>1, FS_CardinalityType, CachesAssumption DEF CacheShapes, Cache!CacheAssumption
      <3> QED BY SameCount, <1>4, <3>1, <3>2 DEF Cache!Delete, Cache!CacheIsBounded
    <2>2. CacheShapes'
      BY <1>4, <2>1 DEF Cache!Delete, Cache!Goto, CacheShapes
    <2>3. LocksInv' /\ FetchesInv' /\ Cache!SingleFlight'
      BY <1>4, <2>0 DEF Cache!Delete, Cache!Goto, CacheShapes, LocksInv, FetchesInv, AtWork, Cache!SingleFlight
    <2> QED BY <2>1, <2>2, <2>3
  <1>5. ASSUME NEW c \in Cache!Calls, NEW to, Cache!Goto(c, to),
               \/ call[c] \in {"served", "failed", "deletes"} /\ to \notin {"waits"} \cup AtWork
               \/ call[c] = "fetches" /\ to = "answered",
               UNCHANGED <<cached, expired, locks, wants, fetches, repeated>>,
               stored' \in [Refs -> {"absent", "present", "deleted"}]
        PROVE  CachesInv'
    <2>1. CacheShapes'
      BY <1>5 DEF Cache!Goto, CacheShapes
    <2>2. LocksInv'
      BY <1>5 DEF Cache!Goto, CacheShapes, LocksInv, AtWork
    <2>3. FetchesInv'
      BY <1>5 DEF Cache!Goto, CacheShapes, FetchesInv, AtWork
    <2>4. Cache!SingleFlight' /\ Cache!CacheIsBounded'
      BY <1>5 DEF Cache!SingleFlight, Cache!CacheIsBounded
    <2> QED BY <2>1, <2>2, <2>3, <2>4
  <1>6. ASSUME NEW c \in Cache!Calls, Cache!Again(c) \/ Cache!Answer(c) \/ Cache!Deleted(c) \/ Cache!DeleteFails(c)
        PROVE  CachesInv'
    <2>1. stored' \in [Refs -> {"absent", "present", "deleted"}]
      BY <1>6 DEF Cache!Again, Cache!Answer, Cache!Deleted, Cache!DeleteFails, CacheShapes
    <2> QED BY <1>5, <1>6, <2>1 DEF Cache!Again, Cache!Answer, Cache!Deleted, Cache!DeleteFails, AtWork
  <1>7. ASSUME NEW c \in Cache!Calls, call[c] \in {"waits"} \cup AtWork, c = Head(locks[wants[c]]),
               Cache!Release(wants[c]), wants' = wants, stored' = stored,
               call' = [call EXCEPT ![c] = "served"] \/ call' = [call EXCEPT ![c] = "failed"],
               fetches' \subseteq fetches, call[c] \in AtWork => wants[c] \notin fetches',
               IsFiniteSet(cached'), expired' \subseteq cached'
        PROVE  CacheShapes' /\ LocksInv' /\ FetchesInv'
    <2> DEFINE w == wants[c]
    <2>0. w \in Refs /\ locks[w] \in Seq(Readers) /\ Distinct(locks[w]) /\ InLine(locks[w], c)
      BY <1>7 DEF CacheShapes, LocksInv
    <2>1. locks[w] # <<>> /\ locks' = [locks EXCEPT ![w] = Tail(locks[w])]
      BY <1>7, <2>0 DEF Cache!Release, InLine
    <2>2. /\ Tail(locks[w]) \in Seq(Readers) /\ Distinct(Tail(locks[w]))
          /\ \A x : InLine(Tail(locks[w]), x) <=> InLine(locks[w], x) /\ x # c
      BY <1>7, <2>0, <2>1, Leaving
    <2>3. CacheShapes'
      BY <1>7, <2>0, <2>1, <2>2 DEF CacheShapes
    <2>4. \A d \in Cache!Calls : d # c => call'[d] = call[d]
      BY <1>7 DEF CacheShapes
    <2>5. call'[c] \notin {"waits"} \cup AtWork
      BY <1>7 DEF CacheShapes, AtWork
    <2>6. \A q \in Refs, x \in Cache!Calls : InLine(locks'[q], x) <=> InLine(locks[q], x) /\ x # c
      <3>1. ASSUME NEW q \in Refs, q # w PROVE locks'[q] = locks[q] /\ ~InLine(locks[q], c)
        BY <2>1, <3>1 DEF CacheShapes, LocksInv
      <3>2. locks'[w] = Tail(locks[w])
        BY <2>0, <2>1 DEF CacheShapes
      <3> QED BY <2>2, <3>1, <3>2
    <2>7. \A d \in Cache!Calls : d # c /\ call[d] \in AtWork => wants[d] # w
      BY <1>7 DEF LocksInv
    <2>8. LocksInv'
      <3>1. \A q \in Refs : q # w => locks'[q] = locks[q]
        BY <2>1 DEF CacheShapes
      <3> QED BY <1>7, <2>4, <2>5, <2>6, <2>7, <3>1 DEF CacheShapes, LocksInv
    <2>9. FetchesInv'
      <3>1. ASSUME NEW r \in fetches' PROVE \E d \in Cache!Calls : call'[d] \in AtWork /\ wants[d] = r
        <4>1. PICK d \in Cache!Calls : call[d] \in AtWork /\ wants[d] = r
          BY <1>7 DEF FetchesInv
        <4>2. d # c
          BY <1>7, <4>1
        <4> QED BY <2>4, <4>1, <4>2
      <3> QED BY <1>7, <3>1 DEF FetchesInv
    <2> QED BY <2>3, <2>8, <2>9
  <1>8. ASSUME NEW c \in Cache!Calls, Cache!Acquire(c) PROVE CachesInv'
    <2>1. CASE Cache!Fresh(wants[c])
      <3>1. CacheShapes' /\ LocksInv' /\ FetchesInv'
        BY <1>7, <1>8, <2>1 DEF Cache!Acquire, Cache!Goto, AtWork, CacheShapes
      <3>2. Cache!SingleFlight' /\ Cache!CacheIsBounded'
        BY <1>8, <2>1 DEF Cache!Acquire, Cache!SingleFlight, Cache!CacheIsBounded
      <3> QED BY <3>1, <3>2
    <2>2. CASE ~Cache!Fresh(wants[c])
      <3>0. /\ call[c] = "waits" /\ c = Head(locks[wants[c]]) /\ call' = [call EXCEPT ![c] = "fetches"]
            /\ fetches' = fetches \cup {wants[c]}
            /\ UNCHANGED <<stored, cached, expired, wants, locks>>
            /\ repeated' = (repeated \/ wants[c] \in fetches \/ Cache!Fresh(wants[c]))
        BY <1>8, <2>2 DEF Cache!Acquire, Cache!Goto
      <3>1. wants[c] \notin fetches
        BY <3>0 DEF FetchesInv, LocksInv, AtWork
      <3>2. CacheShapes'
        BY <3>0 DEF CacheShapes
      <3>3. LocksInv'
        BY <3>0 DEF CacheShapes, LocksInv, AtWork
      <3>4. FetchesInv'
        BY <3>0 DEF CacheShapes, FetchesInv, AtWork
      <3>5. Cache!SingleFlight' /\ Cache!CacheIsBounded'
        BY <2>2, <3>0, <3>1 DEF Cache!SingleFlight, Cache!CacheIsBounded
      <3> QED BY <3>2, <3>3, <3>4, <3>5
    <2> QED BY <2>1, <2>2
  <1>9. ASSUME NEW c \in Cache!Calls, Cache!Fetched(c) PROVE CachesInv'
    <2>0. call[c] \in AtWork /\ c = Head(locks[wants[c]])
      BY <1>9 DEF Cache!Fetched, LocksInv, AtWork
    <2>1. IsFiniteSet(cached') /\ expired' \subseteq cached' /\ Cache!CacheIsBounded'
      BY <1>9, StoreIsBounded DEF Cache!Fetched, CacheShapes
    <2>2. CacheShapes' /\ LocksInv' /\ FetchesInv'
      BY <1>7, <1>9, <2>0, <2>1 DEF Cache!Fetched, Cache!Goto
    <2> QED BY <1>9, <2>1, <2>2 DEF Cache!Fetched, Cache!SingleFlight
  <1>10. ASSUME NEW c \in Cache!Calls, Cache!FetchFails(c) PROVE CachesInv'
    <2>0. call[c] \in AtWork /\ c = Head(locks[wants[c]])
      BY <1>10 DEF Cache!FetchFails, LocksInv, AtWork
    <2>2. CacheShapes' /\ LocksInv' /\ FetchesInv'
      BY <1>7, <1>10, <2>0 DEF Cache!FetchFails, Cache!Goto, CacheShapes
    <2> QED BY <1>10, <2>2 DEF Cache!FetchFails, Cache!SingleFlight, Cache!CacheIsBounded
  <1>11. CASE UNCHANGED cacheVars
    BY <1>11 DEF cacheVars, CacheShapes, LocksInv, FetchesInv, Cache!SingleFlight, Cache!CacheIsBounded
  <1> QED BY <1>1, <1>2, <1>3, <1>4, <1>6, <1>8, <1>9, <1>10, <1>11 DEF Cache!Next, Cache!Proceed

-----------------------------------------------------------------------------

\* A token handed to a connection has not expired at the provider, nobody refreshes or
\* fetches what another has or is about to, and the cache of secrets keeps its bound.
THEOREM SecretsServed == SecretsSpec => []SecretsAreServed
  <1>1. SecretsInit => TokensInv /\ CachesInv
    BY TokensBegin, CacheBegins DEF SecretsInit
  <1>2. TokensInv /\ CachesInv /\ [SecretsNext]_<<part, vars, tokenVars, cacheVars, flowVars>> => TokensInv' /\ CachesInv'
    BY TokensStep, CacheSteps DEF SecretsNext
  <1>3. TokensInv /\ CachesInv => SecretsAreServed
    BY DEF TokensInv, CachesInv, SecretsAreServed
  <1> QED BY <1>1, <1>2, <1>3, PTL DEF SecretsSpec

-----------------------------------------------------------------------------
(* OAuthFlow *)

Flows == OAuth2!Entries \cup {OAuth2!Nobody}
Reports == {OAuth2!NoResult} \cup [kind : {"error", "token"}, user : Visitors]
Places == {"idle", "exchange", "store", "insert", "report", "cleanup"}
Requests == [pc : Places, state : States \cup {OAuth2!None}, flow : Flows]

FlowShapes ==
    /\ pending \in [States -> Flows] /\ results \in [States -> Reports]
    /\ callback \in [Callbacks -> Requests]
    /\ started \in [States -> Visitors \cup {OAuth2!None}]
    /\ rows \subseteq Callbacks \X States \X Visitors
    /\ handed \in Seq(States \X Visitors)

Works(c, s) == callback[c].pc # "idle" /\ callback[c].state = s
HandedOut(s) == \E i \in DOMAIN handed : handed[i][1] = s

\* A state that is pending has been started, and nothing has come of it yet.
PendingInv ==
    \A s \in States : pending[s] # OAuth2!Nobody =>
        /\ started[s] # OAuth2!None /\ pending[s].user = started[s]
        /\ results[s] = OAuth2!NoResult /\ ~HandedOut(s)
        /\ \A c \in Callbacks : ~Works(c, s)
        /\ \A r \in rows : r[2] # s

\* A state is used up by the one callback that works on it, and its row is the last
\* thing before the report.
CallbackInv ==
    \A c \in Callbacks, s \in States : Works(c, s) =>
        /\ started[s] # OAuth2!None /\ pending[s] = OAuth2!Nobody
        /\ callback[c].flow.user = started[s]
        /\ results[s] = OAuth2!NoResult /\ ~HandedOut(s)
        /\ \A d \in Callbacks : Works(d, s) => d = c
        /\ \A r \in rows : r[2] = s => callback[c].pc = "report"

WorksOnInv == \A c \in Callbacks : callback[c].pc # "idle" => callback[c].state \in States

\* A result belongs to the user of its flow, and no token is waiting that has been
\* handed out.
ResultInv ==
    \A s \in States : results[s] # OAuth2!NoResult =>
        /\ started[s] # OAuth2!None /\ results[s].user = started[s] /\ ~HandedOut(s)

RowInv == \A r, q \in rows : r[3] = started[r[2]] /\ (r[2] = q[2] => r = q)

HandedInv ==
    \A i, j \in DOMAIN handed :
        handed[i][2] = started[handed[i][1]] /\ (handed[i][1] = handed[j][1] => i = j)

FlowInv ==
    /\ FlowShapes /\ PendingInv /\ CallbackInv /\ WorksOnInv /\ ResultInv /\ RowInv /\ HandedInv
    /\ OAuth2!FlowReportsBack

\* At the start no state is drawn.
LEMMA FlowBegins == OAuth2!Init => FlowInv
  <1> SUFFICES ASSUME OAuth2!Init PROVE FlowInv
    OBVIOUS
  <1> USE DEF OAuth2!Init
  <1>1. FlowShapes
    BY DEF FlowShapes, Flows, Reports, Requests, Places, OAuth2!Idle, OAuth2!Nobody
  <1>2. PendingInv /\ CallbackInv /\ WorksOnInv /\ ResultInv
    BY DEF PendingInv, CallbackInv, WorksOnInv, ResultInv, Works, OAuth2!Idle
  <1>3. RowInv /\ HandedInv
    BY DEF RowInv, HandedInv
  <1>4. OAuth2!FlowReportsBack
    BY DEF OAuth2!FlowReportsBack
  <1> QED BY <1>1, <1>2, <1>3, <1>4 DEF FlowInv

\* No user is called as the lack of one.
LEMMA RealUser == \A u \in Visitors : u # OAuth2!None
  BY FlowsAssumption DEF OAuth2!FlowAssumption

\* A flow is never taken for none.
LEMMA RealFlow ==
    ASSUME NEW u \in Visitors, NEW p \in Providers
    PROVE  [user |-> u, provider |-> p] \in Flows /\ [user |-> u, provider |-> p] # OAuth2!Nobody
  <1>1. [user |-> u, provider |-> p].user = u /\ OAuth2!Nobody.user = OAuth2!None
    BY DEF OAuth2!Nobody
  <1> QED BY <1>1, RealUser DEF Flows, OAuth2!Entries

\* Nor is a result.
LEMMA RealReport ==
    ASSUME NEW u \in Visitors, NEW k \in {"error", "token"}
    PROVE  [kind |-> k, user |-> u] \in Reports /\ [kind |-> k, user |-> u] # OAuth2!NoResult
  <1>1. [kind |-> k, user |-> u].user = u /\ OAuth2!NoResult.user = OAuth2!None
    BY DEF OAuth2!NoResult
  <1> QED BY <1>1, RealUser DEF Reports

\* What a callback works on is a flow of a user.
LEMMA WorkingFlow ==
    ASSUME FlowInv, NEW c \in Callbacks, callback[c].pc # "idle"
    PROVE  /\ callback[c].state \in States /\ callback[c].flow.user \in Visitors
           /\ callback[c].flow.user = started[callback[c].state] /\ Works(c, callback[c].state)
  <1>1. callback[c].state \in States /\ Works(c, callback[c].state)
    BY DEF FlowInv, WorksOnInv, Works
  <1>2. callback[c].flow.user = started[callback[c].state] /\ started[callback[c].state] # OAuth2!None
    BY <1>1 DEF FlowInv, CallbackInv
  <1> QED BY <1>1, <1>2 DEF FlowInv, FlowShapes

\* Nor does a request of the browser or the web client, or a restart.
LEMMA FlowSteps == FlowInv /\ [OAuth2!Next]_flowVars => FlowInv'
  <1> SUFFICES ASSUME FlowInv, [OAuth2!Next]_flowVars PROVE FlowInv'
    OBVIOUS
  <1> USE DEF FlowInv
  <1>1. ASSUME NEW s \in States, NEW u \in Visitors, NEW p \in Providers, OAuth2!Start(s, u, p) PROVE FlowInv'
    <2> DEFINE e == [user |-> u, provider |-> p]
    <2>0. /\ started[s] = OAuth2!None /\ started' = [started EXCEPT ![s] = u]
          /\ pending' = [t \in States |-> IF t = s THEN e ELSE IF t \in old THEN OAuth2!Nobody ELSE pending[t]]
          /\ UNCHANGED <<results, callback, rows, handed>>
      BY <1>1 DEF OAuth2!Start
    <2>1. e \in Flows /\ e # OAuth2!Nobody /\ u # OAuth2!None /\ e.user = u
      BY RealFlow, RealUser
    <2> HIDE DEF e
    <2>2. FlowShapes'
      BY <2>0, <2>1 DEF FlowShapes, Flows
    <2>3. /\ results[s] = OAuth2!NoResult /\ ~HandedOut(s) /\ \A c \in Callbacks : ~Works(c, s)
          /\ \A r \in rows : r[2] # s
      <3>1. ASSUME NEW r \in rows PROVE r[2] # s
        <4>1. r[3] \in Visitors /\ r[3] = started[r[2]]
          BY DEF FlowShapes, RowInv
        <4> QED BY <2>0, <4>1, FlowsAssumption DEF OAuth2!FlowAssumption
      <3>2. ASSUME NEW i \in DOMAIN handed PROVE handed[i][1] # s
        <4>1. handed[i][2] \in Visitors /\ handed[i][2] = started[handed[i][1]]
          BY DEF FlowShapes, HandedInv
        <4> QED BY <2>0, <4>1, FlowsAssumption DEF OAuth2!FlowAssumption
      <3> QED BY <2>0, <3>1, <3>2 DEF ResultInv, CallbackInv, HandedOut
    <2>4. \A t \in States : t # s => started'[t] = started[t] /\ (pending'[t] # OAuth2!Nobody => pending'[t] = pending[t])
      BY <2>0 DEF FlowShapes
    <2>5. started'[s] = u /\ pending'[s] = e
      BY <2>0 DEF FlowShapes
    <2>6. /\ UNCHANGED <<results, callback, rows, handed>>
          /\ \A t : HandedOut(t)' <=> HandedOut(t)
          /\ \A c, t : Works(c, t)' <=> Works(c, t)
      BY <2>0 DEF HandedOut, Works
    <2>7. PendingInv'
      BY <2>1, <2>3, <2>4, <2>5, <2>6 DEF PendingInv
    <2>8. CallbackInv' /\ WorksOnInv'
      <3>1. ASSUME NEW c \in Callbacks, NEW t \in States, Works(c, t) PROVE t # s /\ pending'[t] = OAuth2!Nobody
        BY <2>0, <2>3, <2>4, <3>1 DEF CallbackInv
      <3> QED BY <2>4, <2>6, <3>1 DEF CallbackInv, WorksOnInv
    <2>9. ResultInv'
      BY <2>3, <2>4, <2>6 DEF ResultInv
    <2>10. RowInv'
      BY <2>0, <2>3, <2>4 DEF RowInv, FlowShapes
    <2>11. HandedInv'
      <3>1. ASSUME NEW i \in DOMAIN handed PROVE handed[i][1] \in States /\ handed[i][1] # s
        BY <2>3 DEF FlowShapes, HandedOut
      <3> QED BY <2>0, <2>4, <3>1 DEF HandedInv
    <2>12. OAuth2!FlowReportsBack'
      <3>1. ASSUME NEW t \in States, started'[t] # OAuth2!None, pending'[t] = OAuth2!Nobody
            PROVE  OAuth2!Running(t)' \/ results'[t] # OAuth2!NoResult \/ t \in taken' \cup excused'
        <4>1. t # s
          BY <2>1, <2>5, <3>1
        <4>2. CASE pending[t] = OAuth2!Nobody
          BY <1>1, <2>4, <2>6, <3>1, <4>1, <4>2 DEF OAuth2!FlowReportsBack, OAuth2!Running, OAuth2!Start
        <4>3. CASE pending[t] # OAuth2!Nobody
          BY <1>1, <2>0, <3>1, <4>1, <4>3 DEF OAuth2!Start
        <4> QED BY <4>2, <4>3
      <3> QED BY <3>1 DEF OAuth2!FlowReportsBack
    <2> QED BY <2>2, <2>7, <2>8, <2>9, <2>10, <2>11, <2>12
  <1>2. ASSUME UNCHANGED <<pending, results, callback, rows, started, handed, taken, excused>> PROVE FlowInv'
    BY <1>2 DEF FlowShapes, PendingInv, CallbackInv, WorksOnInv, ResultInv, RowInv, HandedInv, Works, HandedOut,
       OAuth2!FlowReportsBack, OAuth2!Running
  \* A state that is used up with a result, or excused, and no callback.
  <1>3. ASSUME NEW s \in States, pending[s] # OAuth2!Nobody, pending' = [pending EXCEPT ![s] = OAuth2!Nobody],
               UNCHANGED <<callback, rows, started, handed, taken>>,
               \/ results' = [results EXCEPT ![s] = [kind |-> "error", user |-> pending[s].user]] /\ excused' = excused
               \/ results' = results /\ excused' = excused \cup {s}
        PROVE  FlowInv'
    <2>0. /\ pending[s].user \in Visitors /\ pending[s].user = started[s] /\ started[s] # OAuth2!None
          /\ results[s] = OAuth2!NoResult /\ ~HandedOut(s) /\ \A c \in Callbacks : ~Works(c, s)
      BY <1>3 DEF PendingInv, FlowShapes
    <2>1. /\ \A t \in States : t # s => pending'[t] = pending[t] /\ results'[t] = results[t]
          /\ pending'[s] = OAuth2!Nobody
          /\ \/ results'[s] = [kind |-> "error", user |-> started[s]] /\ results'[s] # OAuth2!NoResult
             \/ results'[s] = OAuth2!NoResult /\ s \in excused'
          /\ excused \subseteq excused'
      <3>1. [kind |-> "error", user |-> started[s]] # OAuth2!NoResult
        BY <2>0, RealReport
      <3> QED BY <1>3, <2>0, <3>1 DEF FlowShapes
    <2>2. FlowShapes'
      <3>1. OAuth2!Nobody \in Flows /\ [kind |-> "error", user |-> pending[s].user] \in Reports
        BY <2>0 DEF Flows, Reports
      <3> QED BY <1>3, <3>1 DEF FlowShapes
    <2>3. /\ \A t : HandedOut(t)' <=> HandedOut(t)
          /\ \A c, t : Works(c, t)' <=> Works(c, t)
      BY <1>3 DEF HandedOut, Works
    <2>4. PendingInv'
      BY <1>3, <2>1, <2>3 DEF PendingInv
    <2>5. CallbackInv' /\ WorksOnInv'
      BY <1>3, <2>0, <2>1, <2>3 DEF CallbackInv, WorksOnInv
    <2>6. ResultInv'
      BY <1>3, <2>0, <2>1, <2>3 DEF ResultInv
    <2>7. RowInv' /\ HandedInv'
      BY <1>3 DEF RowInv, HandedInv
    <2>8. OAuth2!FlowReportsBack'
      BY <1>3, <2>1 DEF OAuth2!FlowReportsBack, OAuth2!Running
    <2> QED BY <2>2, <2>4, <2>5, <2>6, <2>7, <2>8
  <1>4. ASSUME NEW c \in Callbacks, NEW s \in States, NEW p \in Providers, OAuth2!Accept(c, s, p) PROVE FlowInv'
    <2> DEFINE busy == [pc |-> "exchange", state |-> s, flow |-> pending[s]]
    <2>0. /\ pending[s].user = started[s] /\ started[s] # OAuth2!None /\ pending[s] # OAuth2!Nobody
          /\ results[s] = OAuth2!NoResult /\ ~HandedOut(s) /\ \A d \in Callbacks : ~Works(d, s)
          /\ \A r \in rows : r[2] # s
      BY <1>4 DEF OAuth2!Accept, PendingInv
    <2>1. /\ callback[c] = OAuth2!Idle /\ callback' = [callback EXCEPT ![c] = busy]
          /\ pending' = [pending EXCEPT ![s] = OAuth2!Nobody]
          /\ UNCHANGED <<results, rows, started, handed, taken, excused>>
      BY <1>4 DEF OAuth2!Accept, OAuth2!flowVars, OAuth2!histVars
    <2>2. busy \in Requests /\ busy.pc = "exchange" /\ busy.state = s /\ busy.flow.user = started[s]
      BY <2>0 DEF FlowShapes, Requests, Places
    <2> HIDE DEF busy
    <2>3. FlowShapes'
      <3>1. OAuth2!Nobody \in Flows
        BY DEF Flows
      <3> QED BY <2>1, <2>2, <3>1 DEF FlowShapes
    <2>4. /\ \A d \in Callbacks : d # c => callback'[d] = callback[d]
          /\ callback'[c] = busy /\ callback[c].pc = "idle"
          /\ \A t \in States : t # s => pending'[t] = pending[t]
          /\ pending'[s] = OAuth2!Nobody
      BY <2>1 DEF FlowShapes, OAuth2!Idle
    <2>5. /\ \A t : HandedOut(t)' <=> HandedOut(t)
          /\ \A d \in Callbacks, t \in States : Works(d, t)' <=> Works(d, t) \/ (d = c /\ t = s)
      BY <2>0, <2>1, <2>2, <2>4 DEF HandedOut, Works
    <2>6. PendingInv'
      BY <2>1, <2>4, <2>5 DEF PendingInv
    <2>7. CallbackInv'
      <3>1. ASSUME NEW d \in Callbacks, NEW t \in States, Works(d, t), <<d, t>> # <<c, s>>
            PROVE  t # s /\ d # c
        BY <2>0, <2>4, <3>1 DEF Works
      <3> QED BY <2>0, <2>1, <2>2, <2>4, <2>5, <3>1 DEF CallbackInv
    <2>8. WorksOnInv' /\ ResultInv' /\ RowInv' /\ HandedInv'
      BY <2>1, <2>2, <2>4, <2>5 DEF WorksOnInv, ResultInv, RowInv, HandedInv
    <2>9. OAuth2!FlowReportsBack'
      <3>1. ASSUME NEW t \in States PROVE OAuth2!Running(t) \/ t = s => OAuth2!Running(t)'
        BY <2>2, <2>4 DEF OAuth2!Running
      <3> QED BY <2>1, <2>4, <3>1 DEF OAuth2!FlowReportsBack
    <2> QED BY <2>3, <2>6, <2>7, <2>8, <2>9
  \* A callback goes on: its row is there only when it is about to report.
  <1>5. ASSUME NEW c \in Callbacks, NEW to \in Places \ {"idle"}, callback[c].pc \notin {"idle", "report"},
               OAuth2!Go(c, to), UNCHANGED <<pending, results, started, handed, taken, excused>>,
               \/ rows' = rows
               \/ to = "report" /\ rows' = rows \cup {<<c, callback[c].state, callback[c].flow.user>>}
        PROVE  FlowInv'
    <2> DEFINE w == callback[c].state
               u == callback[c].flow.user
    <2>0. w \in States /\ u \in Visitors /\ u = started[w] /\ Works(c, w)
      BY <1>5, WorkingFlow
    <2>1. \A r \in rows : r[2] # w
      BY <1>5, <2>0 DEF CallbackInv
    <2>2. /\ \A d \in Callbacks : d # c => callback'[d] = callback[d]
          /\ callback'[c] \in Requests
          /\ callback'[c].pc = to /\ callback'[c].state = w /\ callback'[c].flow = callback[c].flow
      BY <1>5 DEF OAuth2!Go, FlowShapes, Requests
    <2>3. FlowShapes'
      <3>1. callback' \in [Callbacks -> Requests]
        BY <1>5, <2>2 DEF OAuth2!Go, FlowShapes
      <3> QED BY <1>5, <2>0, <3>1 DEF FlowShapes
    <2>4. /\ \A t : HandedOut(t)' <=> HandedOut(t)
          /\ \A d \in Callbacks, t \in States : Works(d, t)' <=> Works(d, t)
      BY <1>5, <2>2 DEF HandedOut, Works
    <2>5. \A r \in rows' : r \in rows \/ (r = <<c, w, u>> /\ to = "report")
      <3>1. CASE rows' = rows
        BY <3>1
      <3>2. CASE to = "report" /\ rows' = rows \cup {<<c, w, u>>}
        BY <3>2
      <3> QED BY <1>5, <3>1, <3>2
    <2>6. PendingInv'
      BY <1>5, <2>0, <2>4, <2>5 DEF PendingInv
    <2>7. CallbackInv'
      <3>1. ASSUME NEW d \in Callbacks, NEW t \in States, Works(d, t), NEW r \in rows', r[2] = t
            PROVE  callback'[d].pc = "report"
        <4>1. CASE d = c
          BY <2>0, <2>1, <2>2, <2>5, <3>1, <4>1 DEF Works
        <4>2. CASE d # c
          <5>1. t # w
            BY <2>0, <3>1, <4>2 DEF CallbackInv
          <5> QED BY <2>2, <2>5, <3>1, <4>2, <5>1 DEF CallbackInv
        <4> QED BY <4>1, <4>2
      <3>2. \A d \in Callbacks : callback'[d].flow = callback[d].flow
        BY <2>2
      <3> QED BY <1>5, <2>4, <3>1, <3>2 DEF CallbackInv
    <2>8. WorksOnInv' /\ ResultInv' /\ HandedInv'
      BY <1>5, <2>0, <2>2, <2>4 DEF WorksOnInv, ResultInv, HandedInv
    <2>9. RowInv'
      BY <1>5, <2>0, <2>1, <2>5 DEF RowInv
    <2>10. OAuth2!FlowReportsBack'
      <3>1. \A t \in States : OAuth2!Running(t) => OAuth2!Running(t)'
        BY <1>5, <2>2 DEF OAuth2!Running
      <3> QED BY <1>5, <3>1 DEF OAuth2!FlowReportsBack
    <2> QED BY <2>3, <2>6, <2>7, <2>8, <2>9, <2>10
  \* A callback ends with a result for the user of its flow.
  <1>6. ASSUME NEW c \in Callbacks, NEW k \in {"error", "token"}, callback[c].pc # "idle", OAuth2!Ends(c),
               OAuth2!Result(callback[c].state, k, callback[c].flow.user),
               UNCHANGED <<pending, rows, started, handed, taken, excused>>
        PROVE  FlowInv'
    <2> DEFINE w == callback[c].state
               res == [kind |-> k, user |-> callback[c].flow.user]
    <2>0. w \in States /\ callback[c].flow.user \in Visitors /\ res.user = started[w] /\ Works(c, w)
      BY <1>6, WorkingFlow
    <2>1. res \in Reports /\ res # OAuth2!NoResult
      <3>1. /\ [kind |-> k, user |-> callback[c].flow.user] \in Reports
            /\ [kind |-> k, user |-> callback[c].flow.user] # OAuth2!NoResult
        BY <1>6, <2>0, RealReport
      <3> QED BY <3>1
    <2>2. callback' = [callback EXCEPT ![c] = OAuth2!Idle] /\ results' = [results EXCEPT ![w] = res]
      BY <1>6 DEF OAuth2!Ends, OAuth2!Result
    <2>3. started[w] # OAuth2!None /\ ~HandedOut(w) /\ pending[w] = OAuth2!Nobody
          /\ \A d \in Callbacks : Works(d, w) => d = c
      BY <2>0 DEF CallbackInv
    <2> HIDE DEF w, res
    <2>4. FlowShapes'
      <3>1. OAuth2!Idle \in Requests
        BY DEF OAuth2!Idle, Requests, Places, Flows
      <3> QED BY <1>6, <2>1, <2>2, <3>1 DEF FlowShapes
    <2>5. /\ \A d \in Callbacks : d # c => callback'[d] = callback[d]
          /\ callback'[c].pc = "idle"
          /\ \A t \in States : t # w => results'[t] = results[t]
          /\ results'[w] = res
      BY <2>0, <2>2 DEF FlowShapes, OAuth2!Idle
    <2>6. /\ \A t : HandedOut(t)' <=> HandedOut(t)
          /\ \A d \in Callbacks, t \in States : Works(d, t)' <=> Works(d, t) /\ d # c
      BY <1>6, <2>5 DEF HandedOut, Works
    <2>7. PendingInv'
      BY <1>6, <2>3, <2>5, <2>6 DEF PendingInv
    <2>8. CallbackInv'
      <3>1. \A d \in Callbacks, t \in States : Works(d, t) /\ d # c => t # w
        BY <2>3
      <3> QED BY <1>6, <2>5, <2>6, <3>1 DEF CallbackInv
    <2>9. WorksOnInv' /\ RowInv' /\ HandedInv'
      BY <1>6, <2>5 DEF WorksOnInv, RowInv, HandedInv
    <2>10. ResultInv'
      BY <1>6, <2>0, <2>3, <2>5, <2>6 DEF ResultInv
    <2>11. OAuth2!FlowReportsBack'
      <3>1. \A t \in States : t # w /\ OAuth2!Running(t) => OAuth2!Running(t)'
        BY <2>5 DEF OAuth2!Running, w
      <3> QED BY <1>6, <2>1, <2>5, <3>1 DEF OAuth2!FlowReportsBack
    <2> QED BY <2>4, <2>7, <2>8, <2>9, <2>10, <2>11
  <1>7. ASSUME NEW s \in States, NEW u \in Visitors, OAuth2!Poll(s, u) PROVE FlowInv'
    <2>0. /\ results[s] # OAuth2!NoResult /\ results[s].user = u
          /\ results' = [results EXCEPT ![s] = OAuth2!NoResult] /\ taken' = taken \cup {s}
          /\ handed' = handed \/ handed' = Append(handed, <<s, u>>)
          /\ UNCHANGED <<pending, callback, rows, started, excused>>
      BY <1>7 DEF OAuth2!Poll
    <2>1. u = started[s] /\ started[s] # OAuth2!None /\ ~HandedOut(s)
      BY <2>0 DEF ResultInv
    <2>2. FlowShapes'
      <3>1. OAuth2!NoResult \in Reports
        BY DEF Reports
      <3>2. handed' \in Seq(States \X Visitors)
        <4>1. <<s, u>> \in States \X Visitors /\ handed \in Seq(States \X Visitors)
          BY DEF FlowShapes
        <4> QED BY <2>0, <4>1
      <3>3. results' \in [States -> Reports]
        BY <2>0, <3>1 DEF FlowShapes
      <3> QED BY <2>0, <3>2, <3>3 DEF FlowShapes
    <2>3. /\ \A t \in States : t # s => results'[t] = results[t]
          /\ results'[s] = OAuth2!NoResult
      BY <2>0 DEF FlowShapes
    <2>4. /\ handed \in Seq(States \X Visitors) /\ Len(handed) \in Nat /\ DOMAIN handed = 1 .. Len(handed)
          /\ \/ handed' = handed
             \/ /\ DOMAIN handed' = 1 .. Len(handed) + 1
                /\ \A i \in DOMAIN handed : handed'[i] = handed[i]
                /\ handed'[Len(handed) + 1] = <<s, u>>
      BY <2>0 DEF FlowShapes
    <2>5. \A t \in States : HandedOut(t)' => HandedOut(t) \/ t = s
      BY <2>4 DEF HandedOut
    <2>6. \A c, t : Works(c, t)' <=> Works(c, t)
      BY <2>0 DEF Works
    <2>7. PendingInv' /\ CallbackInv' /\ ResultInv'
      BY <2>0, <2>3, <2>5, <2>6 DEF PendingInv, CallbackInv, ResultInv
    <2>8. WorksOnInv' /\ RowInv'
      BY <2>0 DEF WorksOnInv, RowInv
    <2>9. HandedInv'
      <3>1. CASE handed' = handed
        BY <2>0, <3>1 DEF HandedInv
      <3>2. CASE handed' # handed
        <4>1. \A i \in DOMAIN handed' :
                 \/ i \in DOMAIN handed /\ handed'[i] = handed[i] /\ handed[i][1] # s
                 \/ i = Len(handed) + 1 /\ handed'[i] = <<s, u>>
          <5>1. /\ DOMAIN handed' = 1 .. Len(handed) + 1
                /\ \A i \in DOMAIN handed : handed'[i] = handed[i]
                /\ handed'[Len(handed) + 1] = <<s, u>>
            BY <2>4, <3>2
          <5>2. \A i \in DOMAIN handed' : i \in DOMAIN handed \/ i = Len(handed) + 1
            BY <2>4, <5>1
          <5>3. \A i \in DOMAIN handed : handed[i][1] # s
            BY <2>1 DEF HandedOut
          <5> QED BY <5>1, <5>2, <5>3
        <4> QED BY <2>0, <2>1, <4>1 DEF HandedInv
      <3> QED BY <3>1, <3>2
    <2>10. OAuth2!FlowReportsBack'
      BY <2>0, <2>3 DEF OAuth2!FlowReportsBack, OAuth2!Running
    <2> QED BY <2>2, <2>7, <2>8, <2>9, <2>10
  <1>8. CASE OAuth2!Restart
    <2>0. /\ pending' = [s \in States |-> OAuth2!Nobody] /\ results' = [s \in States |-> OAuth2!NoResult]
          /\ callback' = [c \in Callbacks |-> OAuth2!Idle]
          /\ excused' = excused \cup {s \in States : started[s] # OAuth2!None}
          /\ UNCHANGED <<rows, started, handed, taken>>
      BY <1>8 DEF OAuth2!Restart
    <2>1. FlowShapes'
      BY <2>0 DEF FlowShapes, Flows, Reports, Requests, Places, OAuth2!Idle
    <2>2. PendingInv' /\ CallbackInv' /\ WorksOnInv' /\ ResultInv' /\ RowInv' /\ HandedInv'
      BY <2>0 DEF PendingInv, CallbackInv, WorksOnInv, ResultInv, RowInv, HandedInv, Works, OAuth2!Idle
    <2>3. OAuth2!FlowReportsBack'
      BY <2>0 DEF OAuth2!FlowReportsBack
    <2> QED BY <2>1, <2>2, <2>3
  <1>9. ASSUME NEW s \in States, OAuth2!Age(s) \/ OAuth2!Declined(s) PROVE FlowInv'
    <2>1. CASE OAuth2!Age(s)
      BY <1>2, <2>1 DEF OAuth2!Age, OAuth2!histVars
    <2>2. CASE OAuth2!Declined(s)
      BY <1>3, <2>2 DEF OAuth2!Declined, OAuth2!Result, OAuth2!histVars
    <2> QED BY <1>9, <2>1, <2>2
  <1>10. ASSUME NEW s \in States, NEW p \in Providers, OAuth2!Mismatch(s, p) PROVE FlowInv'
    BY <1>3, <1>10 DEF OAuth2!Mismatch
  <1>11. ASSUME NEW c \in Callbacks,
                \/ OAuth2!Exchange(c) \/ OAuth2!Store(c) \/ OAuth2!Insert(c)
                \/ OAuth2!Report(c) \/ OAuth2!Fails(c) \/ OAuth2!Cleanup(c)
         PROVE  FlowInv'
    <2>1. CASE OAuth2!Exchange(c) \/ OAuth2!Store(c)
      BY <1>5, <2>1 DEF OAuth2!Exchange, OAuth2!Store, OAuth2!Step, OAuth2!flowVars, OAuth2!histVars, Places
    <2>2. CASE OAuth2!Insert(c)
      BY <1>5, <2>2 DEF OAuth2!Insert, OAuth2!flowVars, OAuth2!histVars, Places
    <2>3. CASE OAuth2!Fails(c)
      BY <1>5, <2>3 DEF OAuth2!Fails, OAuth2!flowVars, OAuth2!histVars, Places
    <2>4. CASE OAuth2!Report(c)
      BY <1>6, <2>4 DEF OAuth2!Report, OAuth2!histVars
    <2>5. CASE OAuth2!Cleanup(c)
      BY <1>6, <2>5 DEF OAuth2!Cleanup, OAuth2!histVars
    <2> QED BY <1>11, <2>1, <2>2, <2>3, <2>4, <2>5
  <1>12. CASE UNCHANGED flowVars
    BY <1>2, <1>12 DEF flowVars
  <1> QED BY <1>1, <1>4, <1>7, <1>8, <1>9, <1>10, <1>11, <1>12 DEF OAuth2!Next

\* What the invariant says of rows and tokens is the property.
LEMMA FlowHolds == FlowInv => FlowIsTrue
  BY DEF FlowInv, FlowIsTrue, RowInv, HandedInv, OAuth2!TokenGoesToOwner

\* A flow makes one agent, its token is handed out once and to the user who began it,
\* and no flow ends without a result, however callbacks, polls, expiry and restarts
\* interleave (oauth2_callback, oauth2_result).
THEOREM FlowsAreTrue == SecretsSpec => []FlowIsTrue
  <1>1. SecretsInit => FlowInv
    BY FlowBegins DEF SecretsInit
  <1>2. FlowInv /\ [SecretsNext]_<<part, vars, tokenVars, cacheVars, flowVars>> => FlowInv'
    BY FlowSteps DEF SecretsNext
  <1> QED BY <1>1, <1>2, FlowHolds, PTL DEF SecretsSpec

=============================================================================
