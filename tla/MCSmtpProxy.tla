----------------------------- MODULE MCSmtpProxy -----------------------------
(***************************************************************************)
(* Instances for TLC of the SMTP proxy: one connection (SmtpSession), and   *)
(* the notices of rejected sends that several connections of an agent are   *)
(* told after AUTH (RejectionNotices).  The two share no variable, so that  *)
(* a behaviour moves one `part` only.                                       *)
(***************************************************************************)
EXTENDS SmtpSession

CONSTANTS Ops, Conns, Limit, MaxFaults

VARIABLES
    part,                                                            \* the one that moves
    rejected, notified, pc, batch, reached, wrote, read, faults      \* of RejectionNotices

noticeVars == <<rejected, notified, pc, batch, reached, wrote, read, faults>>

Told == INSTANCE RejectionNotices

ASSUME ToldAssumption == Told!NoticesAssumption

SmtpInit == part \in {"session", "notices"} /\ Init /\ Told!Init

SmtpNext ==
    \/ part = "session" /\ Next /\ UNCHANGED <<part, noticeVars>>
    \/ part = "notices" /\ Told!Next /\ UNCHANGED <<part, vars>>

SmtpSpec ==
    /\ SmtpInit /\ [][SmtpNext]_<<part, vars, noticeVars>>
    /\ WF_vars(part = "session" /\ Handler)
    /\ WF_vars(part = "session" /\ Upstream)
    /\ WF_vars(part = "session" /\ Receive)
    /\ \A c \in Conns :
          /\ WF_noticeVars(part = "notices" /\ Told!Login(c))
          /\ WF_noticeVars(part = "notices" /\ Told!Proceed(c))

\* The answer that a client reads is the one to its last command; a notice that is
\* marked was written to some connection (it is marked after drain), and rejections
\* are told oldest first, also over several sessions.
\* SPEC.md:197 - "oldest first, up to 10 per session".
ClientIsToldTrue == AnswersMatch /\ Told!NotifiedWasWritten /\ Told!ToldInOrder

\* Every command is answered or the connection ends, and an agent that keeps
\* logging in hears of every rejection, though a session tells it of so many only
\* (handle_smtp_client, _send_smtp_rejection_notices).
ClientIsTold == CommandsAreAnswered /\ Told!AllAreTold

=============================================================================
