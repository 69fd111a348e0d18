------------------------------- MODULE SendRate -------------------------------
(***************************************************************************)
(* gateway/send_rate_limiter.py inside execute_operation: the outbound      *)
(* ceilings, counted from the 'executed' rows of the audit log.             *)
(*                                                                         *)
(* A send counts the rows under three ceilings, one query after the other,  *)
(* relays, and only then writes the row that later sends count.  Every      *)
(* query is an await: sends of one process and of several interleave.       *)
(* The sends here are those of one user, through two agents.                *)
(***************************************************************************)
EXTENDS Naturals, FiniteSets

CONSTANTS
    Sends,             \* SMTP operations
    FirstAgentSends,   \* those of the user's first agent
    AgentCap, AccountCap, DayCap,    \* messages; 0 switches a ceiling off
    Window, Day,       \* seconds
    MaxRecipients, MaxInFlight, MaxTime    \* bounds

SendsAssumption == FirstAgentSends \subseteq Sends /\ IsFiniteSet(Sends)
LimitsAssumption ==
    /\ {AgentCap, AccountCap, DayCap} \subseteq Nat
    /\ {Window, Day, MaxRecipients, MaxInFlight} \subseteq Nat \ {0}
    /\ MaxTime \in Nat

VARIABLES
    now,
    pc,           \* of each send
    recipients,   \* len(relay_recipients), 0 while no one knows them
    at            \* now_ts of enforce_send_rate; once pc is "done" the
                  \* timestamp of the 'executed' row

vars == <<now, pc, recipients, at>>

InFlight == {"agent", "account", "day", "relay", "audit"}
Pcs == InFlight \cup {"staged", "done", "refused", "failed"}

\* No more sends are in flight than may be; each in flight has a recipient.
TypeOK ==
    /\ now \in 0 .. MaxTime
    /\ pc \in [Sends -> Pcs]
    /\ recipients \in [Sends -> 0 .. MaxRecipients]
    /\ at \in [Sends -> 0 .. now]
    /\ Cardinality({s \in Sends : pc[s] \in InFlight}) <= MaxInFlight
    /\ \A s \in Sends : (recipients[s] > 0) <=> (pc[s] \in InFlight \cup {"done"})

Init ==
    /\ now = 0
    /\ pc = [s \in Sends |-> "staged"]
    /\ recipients = [s \in Sends |-> 0]
    /\ at = [s \in Sends |-> 0]

Agent(s) == IF s \in FirstAgentSends THEN FirstAgentSends ELSE Sends \ FirstAgentSends

\* A sum of recipients counts the messages, one to each recipient of each send.
Messages(S) == {m \in S \X (1 .. MaxRecipients) : m[2] <= recipients[m[1]]}

\* SUM(recipient_count) WHERE event = 'executed' AND ... AND timestamp >= since;
\* since is written on the other side, time being a natural number here.
Counted(S, t, window) ==
    Cardinality(Messages({s \in S : pc[s] = "done" /\ at[s] + window >= t}))

\* max(1, recipient_count): an envelope has at least one recipient.
Start(s) ==
    /\ pc[s] = "staged"
    /\ Cardinality({x \in Sends : pc[x] \in InFlight}) < MaxInFlight
    /\ pc' = [pc EXCEPT ![s] = "agent"]
    /\ \E n \in 1 .. MaxRecipients : recipients' = [recipients EXCEPT ![s] = n]
    /\ at' = [at EXCEPT ![s] = now]
    /\ UNCHANGED now

\* The call that knew the recipients and the time raises.
GiveUp(s, how) ==
    /\ pc' = [pc EXCEPT ![s] = how]
    /\ recipients' = [recipients EXCEPT ![s] = 0] /\ at' = [at EXCEPT ![s] = 0]

\* _check: a ceiling of 0 is disabled, a failing count query refuses.
Check(s, from, to, S, cap, window) ==
    /\ pc[s] = from
    /\ \/ /\ cap = 0 \/ Counted(S, at[s], window) + recipients[s] <= cap
          /\ pc' = [pc EXCEPT ![s] = to] /\ UNCHANGED <<recipients, at>>
       \/ cap # 0 /\ GiveUp(s, "refused")
    /\ UNCHANGED now

CheckAgent(s)   == Check(s, "agent", "account", Agent(s), AgentCap, Window)
\* (mutant) the account ceiling looks at one agent only
CheckAccountOfAgent(s) == Check(s, "account", "day", Agent(s), AccountCap, Window)
CheckAccount(s) == Check(s, "account", "day", Sends, AccountCap, Window)
CheckDay(s)     == Check(s, "day", "relay", Sends, DayCap, Day)

\* The relay raises, or the process dies before the row is written: the send,
\* which may have reached the upstream, is never counted.
RelayFails(s) ==
    /\ pc[s] \in {"relay", "audit"}
    /\ GiveUp(s, "failed") /\ UNCHANGED now

Relay(s) ==
    /\ pc[s] = "relay"
    /\ pc' = [pc EXCEPT ![s] = "audit"]
    /\ UNCHANGED <<now, recipients, at>>

Audit(s) ==
    /\ pc[s] = "audit"
    /\ pc' = [pc EXCEPT ![s] = "done"]
    /\ at' = [at EXCEPT ![s] = now]
    /\ UNCHANGED <<now, recipients>>

Tick ==
    /\ now < MaxTime /\ now' = now + 1
    /\ UNCHANGED <<pc, recipients, at>>

Send(s) ==
    \/ Start(s) \/ CheckAgent(s) \/ CheckAccount(s) \/ CheckDay(s)
    \/ Relay(s) \/ RelayFails(s) \/ Audit(s)

Next == Tick \/ \E s \in Sends : Send(s)

Spec == Init /\ [][Next]_vars

-----------------------------------------------------------------------------
(* Properties *)

Ceilings == {
    [sends |-> FirstAgentSends,         cap |-> AgentCap,   window |-> Window],
    [sends |-> Sends \ FirstAgentSends, cap |-> AgentCap,   window |-> Window],
    [sends |-> Sends,                   cap |-> AccountCap, window |-> Window],
    [sends |-> Sends,                   cap |-> DayCap,     window |-> Day]}

\* What really went out in the last window seconds and was recorded.
SentWithin(c) ==
    Cardinality(Messages({s \in c.sends : pc[s] = "done" /\ now - at[s] <= c.window}))

\* How far a ceiling can be overrun: every send in flight besides the last one
\* to be allowed may have been checked before any of them was counted.  With
\* one send at a time the ceilings hold exactly, across agents, restarts and
\* window boundaries.
OvershootIsBounded ==
    \A c \in Ceilings : c.cap # 0 =>
        SentWithin(c) <= c.cap + (MaxInFlight - 1) * MaxRecipients

\* gateway/send_rate_limiter.py, enforce_send_rate - "Refuse the send if it
\* would push this agent over its window cap."
CeilingHolds ==
    \A c \in Ceilings : c.cap # 0 => SentWithin(c) <= c.cap

=============================================================================
