# Verification of nuvrail

nuvrail puts a human between AI agents and a mailbox. An agent speaks plain
IMAP and SMTP to two proxies; reads pass through, every write is *staged* as a
row of `staged_operations`, answered `OK [STAGED]`, shown to the agent as if it
had happened, and executed on the real mailbox only when its owner, a rule or a
cool-down timer lets it. A FastAPI service holds the approval queue, the
accounts and the background loops; everything meets in one SQLite file.

This directory holds TLA+ models of that program, translated from the code
under `src/`, the TLC configurations that check them on small instances, and
proofs that TLAPS checks for every value of the constants. `PROJECT.json` maps
each definition to the lines it models.

Run a check with `tlc -config approvals.cfg MCOperations.tla`, the proofs of a
module with `tlapm Operations_proofs.tla`.

## Inventory

| Component | Source | State | Operations | What is hard | What makes it correct |
|---|---|---|---|---|---|
| Approval queue | `gateway/staging.py`, `execution.py`, `scheduler.py`, `expiry.py`, `undo.py`, `api/routes/operations.py` | rows of `staged_operations`, `audit_log`, credential state | stage, auto-decide, approve, reject, execute, cool-down, expire, undo | handlers of three processes read a status in one transaction and write it in another; status, effect and audit row are separate steps; crashes between them | effects only with permission, reports that are true, decisions that are final and audited, refusals reverted, nothing pending for ever |
| Audit chain | `gateway/audit.py` | hash-chained rows, a lock per process, SQLite's write lock, an external anchor | insert, verify, anchor, purge | two locks taken in opposite orders; the lock is released before the commit | links to the neighbour, no dangling link, no false alarm, no deadlock |
| Messages of an operation | `gateway/execution.py`, `undo.py` | messages, their UIDs, `execution_detail` | MOVE or COPY and EXPUNGE, COPYUID, STORE, undo | the server may lack MOVE or UIDPLUS, UIDs are looked up and acted on later, others move messages meanwhile, an answer is lost | an undo takes back what was moved and nothing else |
| Send ceilings | `gateway/send_rate_limiter.py` | counts taken from the audit log | count, refuse, record | check and record are far apart, windows slide | a bounded overrun |
| IMAP relay | `gateway/proxy.py` `_upstream_to_client` | a buffer, bytes of a literal to come | cut, filter, rewrite, relay | TCP chunks end anywhere | nothing lost, literals verbatim, filters applied |
| Reader of commands | `gateway/proxy.py` `_client_to_upstream`, `_handle_append`, `_discard_literal` | bytes of the agent not read yet | read a line, a literal, refuse, discard, forward | literals of two kinds, limits, a client that waits for `+` or does not, a connection that ends within a line | commands are read from where they begin, an APPEND whole or not at all |
| Agent login | `gateway/proxy.py` `handle_client`, `_discover_special_use`, `agent_auth.py` | one connection before its tasks | verify, log in upstream, ask for special-use folders | the answers to the proxy's own questions and to the agent's share a stream; time limits | every command answered once, OK only after both logins, own questions hidden |
| IMAP session | `gateway/proxy.py` `_client_to_upstream`, `_sync_upstream_line` | the `session` dict of two tasks, the held COPY | stage, hold, flush, rewrite, sync, inject | the tasks interleave at every `await` | right folder, staged once, answered always |
| State mirror | `gateway/state_db.py` | `messages`, snapshots, `pending_reverts` | snapshot, optimistic change, patch, hide, roll back, inject | several pending changes, ranges, mail that arrives | rollback restores, agent sees the mirror, hidden means pending |
| SMTP session | `gateway/smtp_proxy.py` | its own envelope beside the upstream's | forward, stage DATA | two transactions that should be one, answers of two origins | staged for all accepted, answers in step |
| Rejection notices | `gateway/smtp_proxy.py` | `rejection_notified` | read, tell, mark | several connections, broken ones | everything told, oldest first |
| Upstream credentials | `gateway/credentials.py`, `api/routes/auth.py`, `oauth2.py`, `account.py`, `gateway/retention.py` | rows, external secrets, grants | create, revoke, delete, purge | three stores without a common transaction | no orphan, live ones work, deletion ends |
| OAuth flow | `api/routes/oauth2.py` | `_pending` and `_results` in memory | start, callback, poll | callbacks repeated or at once, ageing, restarts between two steps | one agent of a flow, its token to its owner, always a result |
| OAuth2 tokens | `gateway/oauth2_tokens.py` | a cache and a lock per agent | get, refresh | expiry while waiting | served tokens live, one refresh |
| Secret cache | `gateway/secret_store.py` | a bounded cache, a lock per reference | get, put, delete, evict | a fetch under way while others change the cache | bounded, one fetch at a time |
| Accounts | `api/auth.py`, `api/routes/auth.py`, `api/routes/account.py`, invite codes in `state_db.py` | `users`, `invite_codes` | register, login, rotate, logout, change, reset, delete | a row is read before and written after an `await` | codes match accounts, ended tokens stay dead |
| Login guard | `gateway/security_controls.py` | attempts, failures, lockouts in memory | start, succeed, fail | outcomes come in late and in any order | attempts bounded, lockouts hold |
| Start-up | `gateway/state_db.py` `init_db`, `docker-entrypoint.sh` | the schema and its version by inspection | create, add columns, rebuild two tables | run by every process and every connection, DDL that commits by itself, crashes within it | no row lost, complete in the end, the container comes up |
| Operator scripts | `scripts/rotate_master_key.py`, `scripts/migrate_secrets.py`, `gateway/secret_store.py` | ciphertexts or references, the hosted secrets, the key in use | rotate, migrate, clear | they run while the services write; end anywhere; are run again | every secret in use can be read |
| Retention | `gateway/scrubber.py`, `gateway/retention.py`, `api/routes/account.py` | bodies, dates, audit rows | scrub, delete, purge | overlapping passes, sessions that outlive the account | pending bodies kept, decided ones go |

The parts call each other in few ways. The proxies call `create_operation`,
which writes the row and its audit event in one transaction and lets a rule
decide. The API and the two loops call the executor, which reads the credential
(secret cache, token cache), asks the send ceilings, talks to the upstream
server and writes the audit log. A refusal rolls the mirror back and queues
reverts, which the relay of the agent's session injects. Deleting an account
cancels its operations, tears its credentials down and starts the retention
window. There is no shared memory between the API process and the proxies.

Not modelled, and why:

- `gateway/batching.py`, `batch_summary.py`: group operations for display.
  The batch endpoints decide operation by operation, which `Operations` has; that
  one of several fails leaves the others as they are.
- `imap_parser.py`, `command_router.py`, `operation_parser.py`,
  `imap_response_parser.py`, `mime_render.py`, `intent.py`: pure functions on
  text. What they tell apart (read, write, refused; the kind of a response
  line; the kinds of literals) are the cases of the session, relay and reader modules.
  Only the readers of UID sets, which have to agree with each other, are
  compared (`UidSetReaders`).
- The copy of a sent mail in the Sent folder (`execution.py` 250-484): after the send
  and its audit row, every failure swallowed; no property of the queue depends on it.
- `extensions.py`, `entitlements.py`: registries with trivial defaults. The
  decision provider is a free choice in `Operations`.
- `push.py`, `loop_health.py`, the audit, feature, configuration and health
  endpoints, `api/main.py`, `deps.py`, `limiter.py`: reads, best-effort
  notifications, wiring. `api/models.py` declares the bodies of requests.
- The web client. It may send any request at any time, and the API models allow
  for that.
- Inside modelled components: TLS, capability filtering, HTTP serialisation, the
  GDPR export and the mail with the reset link, folder statistics.

## Modules

| Module | Models | State and actions |
|---|---|---|
| `Operations` | The life of an operation with every handler | A task per handler with a program counter (`pc`), its operation (`cur`) and, for passes, its list (`todo`). One action per `async with get_db` block or upstream call; every `await` between two of them is an interleaving point. `Crash` ends all tasks of a process, `Fault` one database call |
| `ApprovalPromise` | What the queue promises: permissions, effects, phases | Abstract specification; `Operations` implements it (`KeepsPromise`) |
| `Operations_proofs`, `ImapProxy_proofs`, `SmtpSession_proofs`, `Mirror_proofs`, `Secrets_proofs`, `Records_proofs`, `Startup_proofs`, `Filters_proofs` | Theorems: about `Operations`; `ImapSession`, `UidSetReaders`, `LineRelay` and `CommandReader`; `Mirror` and `MailActions`; `SmtpSession` with `RejectionNotices`; `Credentials`, `AccessTokens`, `SecretCache` and `OAuthFlow`; `Accounts`, `LoginGuard`, `SendRate`, `AuditChain` and `Retention`; `SchemaMigration`, `ImapLogin` and `SecretScripts`. `Filters_proofs` has lemmas for all of them | see Proofs |
| `Filters` | What of a sequence belongs to a set, as a recursive function, which the provers can unfold | Used by `AuditChain`, `Retention`, `RejectionNotices`, `LoginGuard`, `Mirror` |
| `SendRate` | The three ceilings | A send goes through one count after another, is relayed and recorded; `Tick` |
| `AuditChain` | Insertion under two locks, verification, anchor, purge | `Recorders` read the head before their transaction writes, the other writers after |
| `Retention` | Scrub passes, deletion, hard purge | Bodies and audit rows of one user's operations, a `Pass` of at most `Limit` rows |
| `MailActions` | Execution and undo, on the messages | Where each message is and under which UID; a task looks UIDs up, acts, reads COPYUID, writes `detail`; servers with and without MOVE and UIDPLUS; faults that lose an answer; others who move messages |
| `Mirror` | The data of the mirror | Flags by UID in the mailbox, in the rows and in each session's view; snapshots and reverts |
| `UidSets`, `UidSetReaders` | The three readers of UID sets | Operators, and a module that compares them over every mailbox and set |
| `ImapSession` | The two tasks of a connection | The `session` dict, one command and one line in hand, the upstream as a queue |
| `LineRelay` | The cutting of the upstream's bytes | Fragments of lines and literals, read in chunks that may end anywhere |
| `CommandReader` | The reading of the agent's commands | A script of commands as units (line ends, literals, `+`), one in `hand`; what was forwarded, staged and answered. A client that sends ahead or waits, and may give up |
| `ImapLogin` | A connection before its two tasks | `handle_client` as a coroutine with a `phase`; the upstream's lines as a queue, given-up questions included |
| `SmtpSession` | One SMTP connection | The coroutine, its envelope, the upstream's transaction, both channels |
| `RejectionNotices` | Notices after AUTH | Read, write and mark, over several connections |
| `Credentials` | Secrets, rows and grants | Creation by password or OAuth, three teardowns, the database's write lock |
| `OAuthFlow` | The browser's flow | States `pending` or `old`, callbacks with their awaits, `results` and their owners; `Restart` loses both dicts |
| `SecretScripts` | Key rotation and migration | Each credential column as a ciphertext under a key or a reference; the scripts row by row beside teardown and the running services |
| `SchemaMigration` | `init_db` | One action per statement; `committed` beside `db`, since Python opens a transaction at the first write only; restarts of the container |
| `AccessTokens`, `SecretCache` | The two caches | An `asyncio.Lock` is the sequence of its holder and waiters |
| `Accounts` | Accounts and invite codes | A request reads, then writes; what it read is in `req` |
| `LoginGuard` | `AuthAbuseProtector` | Attempts and failures by key, lockouts, a clock |
| `MC*` | Instances for TLC | see Runs |

Conventions. A definition has the name of the function it models where there is
one. An operator whose comment begins with *(mutant)* is a plausible bug, kept
beside the definition it would replace; no specification uses it. Replacing the
definition's body by it must break the property it is listed with in
`PROJECT.json`, so that no property holds only because the model cannot
express its violation. Variables marked *history* record what a property needs
and no action reads.

External, and modelled only by what the code relies on: SQLite (a transaction
is atomic; one writer at a time; `busy_timeout` raises), `asyncio` (a coroutine
runs between two awaits undisturbed; a lock serves its waiters in order), the
upstream IMAP and SMTP servers (answer in order, may refuse or close), the
OAuth provider, the secret manager.

### Components checked side by side

An MC module that takes in several components has a variable `part` (`half` in `MCTrail`), chosen at
the start: the components share no variable, so that one of them moves in a
behaviour while the others stand still, and a run costs the sum of the state
spaces and not their product. A property of one component is a property of its
part. The initial states of the parts that stand still are cut down to one
where that is safe. Fairness is that of the component, asked of its part.
TLC's coverage of these runs (`-coverage 1`) shows every action of every part taken.

A property that such a module defines itself is the conjunction of properties of its
components that answer one question, named there: `StreamsAreFaithful`,
`SetsAreRead`, `AllIsAnswered`, `ClientIsToldTrue`, `ClientIsTold`,
`SecretsAreServed`, `FlowIsTrue`, `CallsEnd`, `RatesAreBounded`, `LockoutsHold`,
`LinksHold`, `ScrubbingIsSafe`, `WritersAndPassesEnd`, `LoginIsTrue`,
`SecretsAreReadable`, `AgentsAreServed`, `UndoIsTrue`. `NoFalseAlarm` and `NoSharedPrev` of `MCTrail` are those of
`AuditChain`. `PROJECT.json` lists one mutant of each; the
other *(mutant)* definitions break the other conjuncts in the same way.

## Runs

| Run | Question | Properties | Bounds | Distinct states |
|---|---|---|---|---|
| `approvals` | Is the queue true, final, audited, reverted and live? | `TypeOK`, `ExecutedIsTrue`, `RefusalIsReverted`, `DecisionIsAudited`, `SettledIsFinal`, `PendingIsDecided` | one IMAP operation; one task of each kind; one fault or crash anywhere | 306,000 |
| `sends` | Does every effect spend a permission, and is an operation that got stuck unsent? | `StrandedIsUnsent`, `KeepsPromise` | an IMAP operation (an APPEND without its message) and a send, two cool-down passes, expiry, a stager | 759,000 |
| `mirror` | Does a rejection restore what the agent saw, and an undo what was in the mailbox? | `AgentSeesMirror`, `RefusalReachesAgent`, `HiddenWillMove`, `RollbackIsTrue`, `UndoIsTrue` | two operations on disjoint messages of three, one session, mail and flags from outside; two messages, two folders, two tasks, one move from outside, one fault | 3,900,000 |
| `imap_proxy` | Do the two tasks, the relay, the reader and the readers of UID sets agree? | `SyncedInItsFolder`, `StagedOnce`, `CopyIsKept`, `StreamsAreFaithful`, `SetsAreRead`, `AllIsAnswered` | four commands (three for a client that sends ahead), two folders, two UID sets; streams of three responses; four UIDs, sets of two parts; scripts of two commands with literals | 878,000 |
| `smtp_proxy` | Are staged sends complete and answers in step? Is every rejection told? | `AcceptedAreStaged`, `ClientIsToldTrue`, `ClientIsTold` | eight commands, two agents, two recipients, one notice; three rejections, two connections, two at a login, two failures | 242,000 |
| `secrets` | Are secrets reachable, credentials usable, caches sparing, flows handed to their owner? | `NoOrphanSecret`, `LiveCredentialWorks`, `SecretsAreServed`, `FlowIsTrue`, `CallsEnd` | one user, two agents of either kind; two callers, six ticks; two references, a cache of one; two users, two flows, two callbacks; a fault in each | 268,000 |
| `accounts` | Do codes and accounts match, do ended tokens stay dead, do the guard and the ceilings hold? | `CodesMatchAccounts`, `EndedStaysDead`, `RatesAreBounded`, `LockoutsHold` | two requests, two emails, codes and passwords, two accounts, three tokens; two logins, one address, two accounts, four ticks; four sends of two agents, two in flight, three ticks | 2,070,000 |
| `trail` | Is the log linked, and what remains of an operation? | `NoFalseAlarm`, `LinksHold`, `ScrubbingIsSafe`, `WritersAndPassesEnd` | four writers in two processes, three rows, a purge; two operations, two passes of one row, a fault | 156,000 |
| `startup` | Does the program come up with all its rows, does a login tell the truth, are secrets readable beside the scripts? | `RowsSurvive`, `MigratedWhole`, `LoginIsTrue`, `SecretsAreReadable`, `AgentsAreServed` | API, proxy and one connection, two new agents, a crash; three commands, one line out of turn, a fault; two agents, three keys, two references, a fault | 652,000 |
| `ops_claim_race` | `ClaimBarsApproval` is violated | | see below | |
| `audit_fork` | `NoSharedPrev` is violated | | | |
| `smtp_reset` | `StagedIsTransaction` is violated | | | |

What they show:

- **`approvals`**. An API request, a cool-down pass, the expiry loop and a
  stager, with a suspension, revocation or deletion of the account, may
  interleave at every await, and one of them may be cut short anywhere. A status
  `executed` or `reverted` and an audit row `executed` still mean that the
  effect happened; a refusal leaves mirror and agent as before; an operation
  nobody works on has the audit row of its status; once the handlers that saw it
  pending have drained, nobody touches it but an undo. `SettledIsFinal` is the
  one to argue about: `update_operation_status` has no condition on the status,
  so a late handler does overwrite a decision, and what can be said is that this
  ends with the handlers already under way.
- **`sends`**. Permissions are given while an operation is open and each is spent
  once, even with two overlapping passes: `_claim` is conditional. The refinement
  allows several permissions at a time, as the code does. `StrandedIsUnsent` says what
an operation may be taken for that stays `approved` with nobody at work on it: its
effect has not happened, unless a crash or a fault hit it on the way.
- **`mirror`**. For operations that share no message every rollback is exact,
  mail that arrives and flags changed elsewhere included. On the messages
  themselves, an undo looks for the UIDs that `COPYUID` or its own search gave, in
  the folder of the move, and takes back these only; where nothing has disturbed
  them, everything is restored, under a new UID.
- **`imap_proxy`**. `SyncedInItsFolder` needs a client that waits for its answers
  and `LiteralsVerbatim`/`FiltersApply` need chunks of whole lines; both conditions
  are in the properties and their absence is in the table below. Whatever literals a
  command carries, announced, synchronising or too long, the next command is read
  from its beginning, and an APPEND is staged with its whole message or refused.
- **`smtp_proxy`**. The proxy's own recipients always include those the upstream
  accepted, whatever is reset or repeated. They may be more (`smtp_reset`).
- **`secrets`**. With no failing call nothing is orphaned and a live credential
  works under every interleaving of creation and the teardowns; with failing calls
  a deleted account is still purged, and nobody waits for a lock for ever. The result
  of an OAuth flow, with the token of the new agent, is popped by the user who
  started it and by no other; a repeated callback finds no state and makes no second agent.
- **`accounts`**. A spent code and an account always come together, and no write
  of a stale row brings back a token that was ended. The guard reserves before it
  verifies, so that concurrent logins do not exceed the limits. The ceilings of
  sends, which are checked and recorded later, are not exact: they may be overrun by
  `(MaxInFlight - 1) * MaxRecipients` and no more, and with one send at a time not
  at all.
- **`trail`**. Writers that wrote first link to their neighbour in whichever
  process; the deadlock between the two locks ends by `busy_timeout`; scrubbing
  never takes the body of an operation that may still be executed.

- **`startup`**. `init_db` runs in two processes and on each connection at once.
  Statements on the schema commit by themselves, so that a crash leaves the schema in
  between; no row of `agent_credentials` is ever lost by that, and each restart
  finds less to do until all are up. That the rows can be reached again is not so
  (`RowsAreReached` below). A login answers `OK` only after the key was verified
  and the upstream has agreed, and the LIST that the proxy sends between is
  invisible to the agent as long as it is answered in time. While keys are rotated
  or secrets moved, each row is changed in one transaction with what it refers to.

Why the bounds are enough. The hazards are races of two or three handlers, a
handler against a loop, or one handler cut short: two tasks that compete and one
operation (two where passes have lists or operations meet in the mirror) reach
every order of their steps, and one fault every step at which something can fail.
Program counters are finite, so that only counters need bounds: commands, rows,
tokens, ticks, faults. They are large enough for every action to be taken and
every mutant to be found. UID sets of two parts are every shape the parsers tell
apart. Two windows fit into the clock of `SendRate` and `LoginGuard`, and a token
expires twice in that of `AccessTokens`.

Symmetry (over tasks and names that are only compared) is used in `sends` and
`accounts`, which check no liveness property; `KeepsPromise`, `SettledIsFinal`
and the like are action properties.

Deadlock checking is off in every run. The instances do end: operations are all
staged and decided, commands, rows and tokens used up, a stream relayed, a
connection closed. What must not stop has a liveness property instead
(`PendingIsDecided`, `AllIsAnswered`, `ClientIsTold`, `CallsEnd`,
`WritersAndPassesEnd`, `AgentsAreServed`).

### Fairness

Weak fairness stands for an event loop that runs every coroutine that can run,
a loop that polls for ever (`while True: ... await asyncio.sleep`), a clock that
does not stop, and a server that answers or a call that times out. Nobody is
forced to log in to the API, to decide, to send a command or to fail.

| Component | Fair | Because |
|---|---|---|
| `Operations` | each stager under way, each pass, each handler at work, the cool-down and the deadline | coroutines run; `run_scheduler_loop`, `run_expiry_loop`; time |
| `AuditChain` | strong for `ReadHead`, weak for the other steps of a writer | an `asyncio.Lock` serves its waiters in order, so a writer gets its turn although the lock is taken again and again |
| `Retention` | passes, purge, ageing, the end of the window | `run_scrubber_loop`, `run_retention_loop`, time |
| `LineRelay` | any step | the upstream goes on sending, the task goes on |
| `ImapSession` | staging, the upstream-to-client task, the upstream server | the same; not the client, nor its next command |
| `SmtpSession` | the handler, the upstream server, the client's reading | the same; not the client's next command |
| `CommandReader` | the reader; a client within a command goes on or gives up | `StreamReader` calls run or time out; not the next command |
| `ImapLogin` | the handler, the server | the same; `asyncio.wait_for` bounds what the server does not answer |
| `SchemaMigration` | the statements of each process | a process runs; the container restarts (`docker-entrypoint.sh`, `restart: unless-stopped`) |
| `RejectionNotices` | login and the steps after it | the property is about an agent that keeps logging in |
| `Credentials` | a creation under way, deletion and purge under way, the sweep | requests end by their timeouts; `run_retention_loop` |
| `AccessTokens`, `SecretCache` | a call under way | `timeout=15`, the client's own timeouts |

`SendRate`, `Accounts`, `LoginGuard`, `Mirror`, `MailActions`, `OAuthFlow`, `SecretScripts`
and `UidSetReaders` have no liveness property and no fairness.

## Proofs

Each theorem holds for every value of its module's constants: any number of
operations, tasks, agents, commands, processes, crashes and faults. What is assumed of
the constants is in the named ASSUME of the module, or of the MC module that takes it in
(`MCSecrets`, `MCAccounts`, `MCTrail`, `MCStartup`, `MCSmtpProxy`, `MCImapProxy`, `MCMirror`), and TLC
evaluates it in the run. Four theorems about `Mirror` ask more of the operations; it is in their statements.

| Module | Theorem | States | By |
|---|---|---|---|
| `Operations_proofs` | `TypeCorrect` | `Spec => []TypeOK` | inductive as it stands; `TypeOK` includes which kind of task can be where, and that a task has an operation in hand exactly while it works |
| | `ExecutedIsTrueAlways` | `Spec => []ExecutedIsTrue` | `EvidenceInv` |
| | `ClaimIsExclusiveAlways` | `Spec => []ClaimIsExclusive` | `ClaimedIsDecided` |
| | `SettledIsFinalAlways` | `Spec => SettledIsFinal` | `TypeOK` |
| | `PromiseKept` | `Spec => KeepsPromise` | `RowsExist`; refinement of `ApprovalPromise` |
| | `DecisionAlwaysAudited`, `RefusalAlwaysReverted`, `StrandedAlwaysUnsent` | `DecisionIsAudited`, `RefusalIsReverted`, `StrandedIsUnsent` | `DecisionInv` |
| | `OneExecutorOneEffect` | `[]OneExecutor`: `faulted[o] = FALSE => effects[o] <= 1` | `Once` |
| `Mirror_proofs` | `QueueAlways`, `HiddenAlwaysMoves` | `[]QueueInv`, `HiddenWillMove` | `QueueInv` |
| | `MirrorAlways`, `RollbackAlwaysTrue` | `Apart`: `[]MirrorInv`, `RollbackIsTrue` | `MirrorInv` |
| | `AgentAlwaysSeesMirror` | `Apart`, `Starless`, `OneSession`: `AgentSeesMirror` | `AgreeInv` with `MirrorInv` |
| | `RefusalAlwaysReaches` | `Apart`, `OneSession`: `RefusalReachesAgent` | `RefusalInv` with `MirrorInv` |
| | `UndoAlwaysTrue` | `UndoIsTrue` | `AllInv`: `PlaceInv`, `StateInv`, `DestInv`, `RestoreInv` |
| `ImapProxy_proofs` | `AlwaysStagedOnce`, `CopyAlwaysKept` | `StagedOnce`, `CopyIsKept` | `WritesInv` |
| | `AlwaysSyncedInItsFolder` | `SyncedInItsFolder` | `SyncInv` |
| | `SetsAlwaysRead` | `SetsAreRead` | `SetsInv` |
| | `StreamsAlwaysFaithful` | `StreamsAreFaithful` | `RelayInv`, `ReaderInv` |
| `SmtpSession_proofs` | `AcceptedAlwaysStaged` | `AcceptedAreStaged` | `SmtpInv` |
| | `ClientAlwaysToldTrue` | `ClientIsToldTrue` | `TellingInv`: `SmtpInv`, `AnswerInv`, `NoticesInv` |
| | `SteadyIsStaged` | `[][Steady]_vars`: `StagedIsTransaction` | `SteadyInv` |
| `Secrets_proofs` | `NoSecretIsOrphaned`, `LiveAlwaysWorks` | `NoOrphanSecret`, `LiveCredentialWorks` | `CredInv` |
| | `SecretsServed` | `SecretsAreServed` | `TokensInv` (`LineInv`, `DatesInv`), `CachesInv` (`LocksInv`, `FetchesInv`) |
| | `FlowsAreTrue` | `FlowIsTrue` | `FlowInv` |
| `Records_proofs` | `CodesAlwaysMatch`, `EndedAlwaysDead` | `CodesMatchAccounts`, `EndedStaysDead` | `AccountsInv` |
| | `RatesAlwaysBounded`, `LockoutsAlwaysHold` | `RatesAreBounded`, `LockoutsHold` | `GuardInv`, `RateInv` |
| | `NeverFalseAlarm`, `LinksAlwaysHold` | `NoFalseAlarm`, `LinksHold` | `ChainInv` |
| | `ForksAreAlwaysRecorders` | `ForksAreRecorders` | `OrderInv` |
| | `ScrubbingAlwaysSafe` | `ScrubbingIsSafe` | `KeptInv` |
| `Startup_proofs` | `RowsAlwaysSurvive` | `RowsSurvive` | `RowsInv` |
| | `AlwaysMigratedWhole` | `MigratedWhole` | `WholeInv` |
| | `LoginsAreTrue` | `LoginIsTrue` | `ToldInv` |
| | `SecretsAlwaysReadable` | `SecretsAreReadable` | `ReadInv` |

**Sequences.** The library's induction theorems take an operator as a parameter and
cannot be used here. `Filters_proofs` states induction with a *set* in its place: a set of
numbers with 0 and with the successor of each holds all of them (`NatSetInduction`), and
so for the sequences over a set (`SeqSetInduction`). With these, and with `Filter` a
recursive function, what a filter keeps, its order and its length are lemmas.

**The queue.** `OpsAssumption` says that sends and APPENDs without a body are operations and
different ones and that "no operation" is none, `TasksAssumption` that the kinds of tasks are
disjoint, `FaultsAssumption` that the bound on faults is a natural number.
`ExecutedIsTrue` is not inductive: a task that is about to write `executed` says
nothing of the mailbox by itself. `EvidenceInv` adds `Evidence(t)`: a task past
the relay has an effect of its operation behind it, one past the undo has undone it.
`ClaimIsExclusive` needs `ClaimedIsDecided`: what a cool-down pass executes is no
longer pending. `Claim` takes a pending row, so no other pass executes it, and a decided row never becomes pending
again, so no second claim succeeds. `SettledIsFinal` is an action
property and follows from `TypeOK` step by step: each action either belongs to a
task that works on the operation, which `Settled` excludes, or has a guard on
`pending`. For `PromiseKept` every step is shown to be `Stage`, `Grant`, `Execute`,
`Withdraw` or `Close` of the promise or to leave it unchanged, with lemmas for the
ways a task can move (`GotoKeeps`, `GotoLoses`, `RestKeeps`, `RestLoses`);
`RowsExist` says that a task works on rows that exist.

**What is left behind.** `DecisionIsAudited`, `RefusalIsReverted` and `StrandedIsUnsent` are about operations
nobody works on; to be inductive they have to say what is owed while somebody does.
`Accounted` does so for the audit log: for each status, the row is there or a task
is at the label that writes it, and an effect not yet in the status is in the hands of
a task that is about to write it. `Restored` and `Reverting` do so for the mirror: a
refusal has restored and queued, or a task is at it; the expiry loop, which writes
the status last, has restored before. None of them says *which* task: a rejection and
an expiry may both be under way, and the statuses overwrite each other. An operation
whose handler was cut short (`faulted`) owes nothing; how it looks then is the subject of
`ExecutedIsTrue` and of the promise, which have no such condition.

**What the refuted comments would take.** Three comments of the code are refuted by runs (see the table of disagreements), and for
each a theorem says how much of it is true. The claim does not bar a second execution, but
`OneExecutor` would: it is a hypothesis on behaviours, that no two tasks have the same operation in hand to execute it, up to
the row that records the effect, which the code does not provide and a lock around approval, rule and cool-down would; an operation
that no failure met then takes effect once. Two rows of the audit log may name one predecessor, but the later of
them was recorded outside a transaction: under the lock of the database a head that is read is still the
head when the row is inserted, and the order of the rows is that of their hashes (`OrderInv`), also after a purge (`FilterKeepsOrder`).
The envelope of the SMTP proxy is the one the server accepted as long as the server refuses no recipient and its
transaction ends with a message only (`Steady`), and `SteadyInv` says that who is in the one is in the other or is being asked for.

**The mirror.** `HiddenWillMove` holds of whatever operations there are: it only needs that the queue is
what is pending. The others do not, as the table of disagreements below shows, so that
their theorems assume what it would take: no two operations name a message in common (`Apart`), for `AgentSeesMirror`
and `RefusalReachesAgent` one session (`OneSession`), and for the former no `*` (`Starless`).
`Disjoint`, the instance of the run, is such a case; messages, operations and their number are otherwise any. The
properties speak of views, mirror and mailbox, none of which determines another, and
`MirrorInv` says when they agree. What is shown exists, or was made up (`PresentInv`). Until
an operation is executed its snapshot holds the real flags (`KeptInv`), since with `Apart` nobody
else reaches its messages; these flags have to be in the mirror when the snapshot is taken
(`ExactInv`: wherever no store has shown its change, mirror and views are the mailbox). A rolled
back operation leaves its snapshot in the mirror for good (`BackInv`), and each revert is of a
snapshot that was rolled back (`RevertsInv`). Snapshots are made up only for a store that
found no rows (`SnapshotInv`). `AgreeInv` and `RefusalInv` then say of the agent's view that where it differs from the
mirror, or from the mailbox after a refusal, a revert is waiting for it.

**Undo.** `UndoIsTrue` says three things. That an undo takes only messages of its own operation back is `DestInv`:
a recorded destination finds none but messages the operation has moved there, as long as the folder's
UIDVALIDITY is the recorded one, since whatever arrives later gets a higher UID; after a
renumbering the record is stale and the undo refuses it. That what nobody disturbed is restored is `RestoreInv`, which
follows the one execution and the one undo there can then be: `PhaseInv` says where their task is for each
status of the operation, `WhereInv` where its messages are meanwhile (in place until they are taken, then exactly
what the recorded destinations find, then back), `FlagInv` the same for flags. Both rest on `PlaceInv`:
every message in a folder has a UID below the next one to be given out there. `MailAssumption` asks for finitely many messages and that "none" is no folder.

**The IMAP session.** Two tasks run, and one command may be held back while later ones
arrive. `StagedOnce` follows from the sets of commands that each staged operation stands for being
disjoint, which is kept only because the held COPY (`HeldInv`) and the command in hand (`CmdInv`) are
in none of these sets and not in each other. `OptimisticInv` gives each change of the
mirror the operation it is staged with, one step later. `SessionAssumption` says among other things that
"none" is no folder. `SyncedInItsFolder` is about a line, and a line is true
only in its place in the stream: `WaitingInv` lists, for a client that waits, the one
command that can be under way and what is left of its answer on the wire (`Stages`), so that the
cached folder is the selected one or the line in hand will make it so (`Settled`), and a FETCH
in hand is of that folder (`FetchInHand`). `NewsInv` is the same for an `EXISTS`, which starts an accumulation: while
new mail is announced with SELECT only, the end of the answer comes next.
`SetsAreRead` compares three recursive readings of a set: that `*` is the highest UID is an induction over the mailbox
(`HighestUid`), and each part of a set then means the same UIDs to each reader that understands it (`PartIsMeant`).

**The upstream's bytes.** That each response is a head, its end and the literal it announces is `Shaped`, shown by
an induction over the responses (`StreamShaped`); the library's `FlattenSeq` is a recursive function, of
which `FlatExists` shows that it exists and `FlatIsIn` what it can hold. `NothingLost` and the place of the pump (`CutInv`) are
inductive together. The two other parts hold as long as no chunk ends inside a line, and need `WholeInv`: then
what has arrived ends with a line or inside a literal, no line is relayed before its end is there, and the count of
literal bytes still to come is zero exactly where a line begins.

**The agent's bytes.** A client that sends ahead has pieces of several commands under way, so `ReaderInv` is about
what has been sent and not read. `Sound` says that each piece is what follows the one before it in the script, and
`InputInv` that the last is where the client stopped. `NextInv` relates the reader to that: the first
piece under way is the one that it awaits, and with none under way both wait at one place, so that a literal which must be
discarded has been sent, and one which must be asked for has not. `RepliesInv` says that nobody was answered before its command
was read, except a line with a bare CR or NUL, after which the literal it announces is still to come (`Spoilt`); a client that
gives up has therefore had all it sent read (`RefusalTaken`). `HandInv` says what the command in hand is, `KeptInv` what was staged
and told. The order of the answers follows from the order of the pieces. What a client sends up to the literal
where it stops is an induction over its lines (`LinesSent`).

**The SMTP session.** The upstream's recipients are those that were *answered*, the proxy's those
that were *sent*, so that the invariant is about what is on its way: at most one command
or answer (`ChannelInv`), a RCPT only after its recipient was noted, and after a message
was staged either nothing accepted or the RSET still under way (`EnvelopeInv`).
That answers are counted right needs to know who owes one: `AnswerInv` says that until a client has taken a notice for its
answer, its oldest command is on its way, or in the proxy's hands, or answered, or will
never be (`Owed`), and that what goes upstream and comes back is what the proxy waits for (`InStep`).
`NoticesInv` is about several logins of one agent: the batch of each is what was rejected
and not yet marked when it read, so that all write in the order of the rejections.

**Credentials.** `CredentialsAssumption` fixes the kinds of credentials and that the bound on
failures is a number. Both properties hold while no call fails, so `HealthyInv` does.
`CreationInv` orders a creation: secrets and grant first, the row last. `TeardownInv` is what
the three teardowns owe: whatever row one has read, each secret that a column of it still
names is on its list. The columns are emptied when the list is, so that
no secret loses its name before it is deleted, even when two teardowns run over the same agent.
`ReadInv` says whose rows a teardown reads; a purge of an account has read all of them,
since it comes days after the deletion, when every creation has ended (the guard of `PurgeUser`),
and a deleted user starts no other.

**Caches and flows.** In both caches a lock is a line, and only its first is past
the second look at the cache (`LineInv`, `LocksInv`): whoever fetches has found nothing. `DatesInv` dates
a cached token by when its request was sent: the cache may take it for live `Latency` too long,
which the `Buffer` before its expiry covers (`TokenAssumption`). For the flows `CallbackInv` says that a state
taken by a callback is in nobody else's hands, and its row the last thing before the
report; `ResultInv` that a result belongs to the user of its flow and nothing
has been handed out for it. `FlowAssumption` says that "nobody" is no user.

**Accounts.** `CodesMatchAccounts` counts spent codes, which is why `AccountAssumption` makes
the set of codes finite. It is inductive with the types, the `UPDATE ... WHERE` of the code and the
INSERT being one transaction. `EndedStaysDead` needs `TokensInv`: tokens are minted
once and no two accounts share one, so that a handler which writes a stale row puts no ended token
back.

**Guard and ceilings.** The guard forgets what has aged out of its windows, and `KeyInv` says that
what it counts of a key, pruned, is what the history holds in the window. A failure may come in late, so that
lockouts must not shrink: `DurationGrows` shows that the doubling up to the maximum, which the model
writes as a recursive function, never does. `RateInv` counts for each
ceiling the messages *gone*, recorded or past its check: a check sees all that are recorded and
misses the other sends in flight only, so that the ceiling is overrun by what these carry, at
most `(MaxInFlight - 1) * MaxRecipients`. The lemmas on how many messages a set of sends counts are the
larger part.

**The audit chain.** `WritersAssumption` says who writes in which process, `BoundsAssumption` that the bounds are numbers. `LocksInv`: a writer that wrote first holds SQLite's
write lock from then on; `HeadsInv`: therefore the head it has read is still the
head when it inserts. A log of such rows only is intact, and the anchored
row is in it. For writers that read first (`Recorders`), and after a purge, the theorem claims
nothing, and `audit_fork` and the remark on purges below show why. That no row links to one that was
rolled back holds of the `Recorders` too: what any writer has read is a row of the log (`LinksInv`), which
only a purge takes away.

**Retention.** What a pass has found stays decided while it waits in the list of the pass, an undo or
a deletion notwithstanding (`KeptInv`): a status never goes back to `pending`, and a row that
was purged is not staged again.

**Start-up.** `MigrationAssumption` says that the processes that start and the
connections are different ones and that "no process" is neither. `Keeps` holds of what the processes see
(`db`) and of what a crash would leave (`committed`). `Isolated` makes it
inductive: the table that was set aside is dropped only by the process whose open
transaction has copied it, and outside a transaction both views are one. `MigratedWhole` needs
that whatever a process has come past is done (`Reached`), also in what is committed, unless somebody
failed; that no step undoes what another has done (`Later`); and that what takes several statements
is in the hands of one who is at them (`Begun`), so that nothing is half done when nobody is.

**A login.** `ToldInv` numbers the commands of the client: each is answered before the next is
taken (`Numbered`). Of the upstream it says which question is open in which `phase`, and that the lines still to be read
answer it or none (`ServerInv`); a question that was given up leaves its lines behind, which is the
case that `LoginIsTrue` excepts.

**The scripts.** A secret can be read if its ciphertext is under the key in use or its reference in
the store. `Referred`: a reference is in one column, one teardown or one pending write, and leaves the store with
it. `Keyed`: what a rotation has read is what the rows hold, but for those written since, which
the property excepts and `RotationReachesAll` shows.

Only model-checked: liveness, which needs fairness and ENABLED. Every safety property of the passing runs is the
subject of a theorem. Of `Mirror`, the properties fail for operations
that share messages, and `RefusalReachesAgent` for two sessions.

## Where the code and its documents disagree

Three disagreements have runs of their own, which end in a counterexample:

| Run | The text | What the run shows |
|---|---|---|
| `ops_claim_race` | `gateway/scheduler.py:69` "a concurrent manual approve/reject ... and this loop can never both execute the same op" | A request that read `pending` before the claim approves and executes the same send: `update_operation_status` (`gateway/staging.py:435`) writes WHERE id only |
| `audit_fork` | `gateway/audit.py:14` "two concurrent coroutines can never read the same prev_hash" | Two rows with one `prev_hash`: `_AUDIT_LOCK` is released before the caller commits (`gateway/audit.py:127`) |
| `smtp_reset` | `gateway/smtp_proxy.py:713` "The upstream transaction (MAIL FROM + RCPT TO already forwarded)" | After RSET or a refused RCPT a send is staged with recipients outside that transaction (`gateway/smtp_proxy.py:868`, 692) |

The definitions below state what a comment or document promises too, and TLC
refutes each one. They stand at the end of their modules. To reproduce one, take
the named configuration and put the definition in the place of its properties
(`PROPERTY` for a definition with `[]`, `<>` or `~>`, else `INVARIANT`), with the prefix of its instance
where the component is one (`Rate!`, `Chain!`, `Pump!`, `Commands!`, `Told!`, `Tokens!`, `Cache!`, `OAuth2!`,
`Guard!`, `Kept!`, `Mail!`, `Imap!`, `Scripts!`), through a definition of the MC module; *(with ...)* names the
constants to change.

| Definition | Configuration | The text | What happens |
|---|---|---|---|
| `CaughtIsRecorded` | `sends` | `gateway/scheduler.py:117` "The executor already marked the op 'failed' and wrote an audit row" | A blocked agent, a missing password or an empty envelope raises before the row is touched (`gateway/execution.py:748`); the operation stays `approved` |
| `ExpiredRowIsTrue` | `approvals` | `gateway/expiry.py:124` "Safe to call concurrently" | The row count of the UPDATE is not looked at; an approved operation gets an audit row `expired` (`gateway/expiry.py:93`) |
| `CeilingHolds` | `accounts` | `gateway/send_rate_limiter.py:287` "Refuse the send if it would push this agent over its window cap" | Two approvals at once are checked before either is counted (279) |
| `AnchorsOnlyIntact` | `trail` | `docs/security/audit-chain-anchoring.md:37` "re-anchors only a head it just verified intact" | The head is read again after the verification (`gateway/audit.py:411`) |
| `NoRowLost` | `trail` | `README.md:943` "every staged operation, approval, rejection, and execution is recorded" | The INSERT raises after `busy_timeout`, its decision was committed before (`gateway/audit.py:142`) |
| `ScrubbedOnce` | `trail` | `gateway/scrubber.py:134` "UPDATE is conditional on body_scrubbed_at IS NULL" | It is WHERE id (112) |
| `TerminalIsScrubbed` | `trail` | `SPEC.md:313` bodies "scrubbed 7 days after a terminal decision" | `reverted` and `cancelled` are not in `_TERMINAL_STATUSES` (`gateway/scrubber.py:53`) |
| `PurgedLeavesNothing` | `trail` | `gateway/retention.py:132` "after the window nothing about this user remains" | Audit rows of operations carry no `user_id` (135) |
| `OptimisticInItsFolder` | `imap_proxy` | `gateway/proxy.py:1985` "cached DB id for current folder" | A SELECT sent ahead gets the id of the one before (453) |
| `MovedFromItsFolder` | `imap_proxy` | `gateway/proxy.py:978` "as a single UID MOVE to the COPY destination" | SELECT does not end a held COPY; a deletion in another folder becomes a MOVE out of that (984) |
| `HeldIsFlushed` | `imap_proxy` | `gateway/proxy.py:903` "flush the held COPY as staged before processing the new command" | STORE \Deleted of another set does not flush (906) |
| `HeldIsNotLost` | `imap_proxy` | `gateway/proxy.py:894` "otherwise the held COPY is flushed" | It is gone with the connection (938) |
| `FetchIsSynced` | `imap_proxy` | `gateway/proxy.py:409` "upsert into messages table" | New mail's EXISTS starts the accumulation of a SELECT answer that never ends (432) |
| `SelectInjects` | `imap_proxy` | `gateway/state_db.py:1297` "on the AI's next SELECT/NOOP/FETCH" | Reverts are injected before the new folder is known (`gateway/proxy.py:1285`) |
| `OptimisticIsBacked` | `imap_proxy` | `gateway/proxy.py:1009` "stored in staged_operations for later revert" | A connection that ends in between leaves the change (1050) |
| `StagedIsTrue` | `imap_proxy` | `SPEC.md:181` record, then `OK [STAGED]` | A failed staging is answered so too (`gateway/proxy.py:1172`) |
| `SyncedInItsFolder` without `~eager` | `imap_proxy` | `gateway/proxy.py:812` "so the u2c pump knows which folder we're in" | For a client that sends ahead the folder changes before the answers are read (816) |
| `LiteralsVerbatim` without `~splits` | `imap_proxy` | `gateway/proxy.py:1221` "never treated as response lines" | The line that announces the literal came in two chunks (1525) |
| `FiltersApply` without `~splits` | `imap_proxy` | `gateway/proxy.py:1524` "will be re-buffered on the next chunk" | They are forwarded and forgotten (1525) |
| `MovedIsHidden` | `imap_proxy` | `gateway/proxy.py:1422` "Suppress FETCH lines for UIDs that are pending MOVE" | Not those with a literal (1351) |
| `NoticeIsNoAnswer` | `smtp_proxy` | `SPEC.md:197` "out-of-band and the session continues normally" | Written after the 235, it is read as the next answer (`gateway/smtp_proxy.py:315`) |
| `OnlyWholeBodies` | `smtp_proxy` | `gateway/smtp_proxy.py:48` "until the terminating "." line" | End of file ends the body too (724) |
| `StagedIsTrue` | `smtp_proxy` | `SPEC.md:194` "All sends staged" | A failed staging is answered 250 (`gateway/smtp_proxy.py:815`) |
| `CommandsAreAnswered` without `UpstreamIsGone` | `smtp_proxy` | `gateway/smtp_proxy.py:41` "exactly one response" | With the upstream gone, none (682) |
| `NotifiedOnce` | `smtp_proxy` | `SPEC.md:197` "so each op is notified once" | Two logins at once read the same rows (`gateway/smtp_proxy.py:290`) |
| `MarkedIsDelivered` | `smtp_proxy` | `gateway/smtp_proxy.py:279` "After delivery" | `drain` returns before the client reads (323) |
| `PurgeIsBackstop` | `secrets` | `api/routes/account.py:279` "the retention purge is the backstop" | The columns that refer to the secret are already NULL (338) |
| `FailureLeavesNothing` | `secrets` | `api/routes/oauth2.py:538` "to avoid orphans" | `created_refs` is set after both secrets are stored (494) |
| `DeletedIsDisconnected` | `secrets` | `api/routes/account.py:274` "Revoke all agent credentials" | A creation under way inserts its row afterwards (`api/routes/oauth2.py:417`) |
| `RevokedGrantIsDead` | `secrets` *(with "microsoft" in Kinds)* | `api/routes/auth.py:558` "revokes any OAuth grant at the provider" | Only Google's (`gateway/credentials.py:339`) |
| `RevokedKeepsSecrets` | `secrets` | `gateway/credentials.py:281` "secrets are retained" | Revoking purges them (`api/routes/auth.py:550`) |
| `ExpiredStateIsRefused` | `secrets` | `api/routes/oauth2.py:442` "Unknown or expired state" | Only unknown ones are refused (443) |
| `HeldBriefly` | `secrets` | `gateway/secret_store.py:228` "held briefly and then evicted" | Expired entries go only when the cache is full (247) |
| `DeletedIsReleased` | `secrets` | `gateway/secret_store.py:16` "only transiently" | A read under way puts a deleted secret back (285) |
| `ResetOnce` | `accounts` | `api/routes/auth.py:720` "not yet used" | SELECT and UPDATE apart (736) |
| `ChangeIsChecked` | `accounts` | `api/routes/auth.py:627` "Verifies current_password" | In the row read before (635) |
| `DeletedIsScrubbed` | `accounts` | `api/routes/account.py:263` "tombstones the account" | Requests under way write a token or a password into it (`api/routes/auth.py:327`) |
| `RollbackCanRun` | `mirror` *(Commands <- Ranges)* | `gateway/proxy.py:1038` "this ensures revert can still fire" | The made-up snapshot has `1:2` for a key, on which `int()` raises (`gateway/state_db.py:1250`) |
| `RollbackIsTrue` | `mirror` *(Commands <- Same)* | `gateway/state_db.py:1297` "so the AI re-syncs to true state" | The snapshot of the second operation on a message holds the optimistic flags of the first, and its rollback restores these (1218) |
| `PatchedInOrder` | `mirror` *(Commands <- Same)* | `gateway/proxy.py:1453` "so the agent sees its own staged change immediately" | Additions before removals, in whatever order they were sent (1477) |
| `ExecutesWhatWasStaged` | `mirror` *(Commands <- Later)* | `gateway/proxy.py:958` "stable across sessions and mailbox changes" | `1:*` is read again on execution (1146) |
| `PendingMoveIsHidden` | `mirror` *(Commands <- Lists)* | `gateway/state_db.py:1006` "Return UIDs that are pending MOVE" | Comma-separated sets are passed over (1038) |
| `ExistsIsConsistent` | `mirror` *(Commands <- Wide, MaxUid = 4)* | `gateway/proxy.py:1287` "consistent with its staged operations" | UIDs that no message has are subtracted (1299) |
| `AgentSeesMirror` | `mirror` *(Commands <- Same)* | `gateway/proxy.py:1008` "so the AI sees the proposed state immediately" | A FETCH stores the server's flags and shows others (389) |
| `RefusalReachesAgent` | `mirror` *(two Sessions)* | `gateway/state_db.py:1297` "picked up by the proxy on the AI's next SELECT/NOOP/FETCH" | The first session to ask marks the revert for all (1342) |
| `UndoReverses` | `mirror` | `gateway/undo.py:144` "Reverse an executed operation" | The undo of a mark takes the flag from messages that had it before, too |
| `ExecutedIsUndoable` | `mirror` | `gateway/execution.py:505` "so undo can address the messages in the destination mailbox" | An undo between the status and the audit row finds no destination |
| `InitIsIdempotent` | `startup` | `gateway/state_db.py:551` "This is idempotent" | The rebuilt `agent_credentials` (552-589) lacks `upstream_smtp_host` and `sent_folder`; the next start adds them, and one that runs beside it raises |
| `StraysAreWiped` | `startup` | `gateway/state_db.py:503` "the only fail-closed option" | The folders are rebuilt by statements that commit by themselves; a crash before the DELETE leaves the messages for ever |
| `RowsAreReached` | `startup` | `gateway/state_db.py:550` "rename, recreate, copy, and drop" | A crash between leaves the credentials in the table set aside, where no later start looks |
| `NewTokenLives` | `startup` | `gateway/state_db.py:316` tokens in plain text are hashed | A token issued after they were read is overwritten by the hash of the old one |
| `StraysAreUntagged` | `startup` | `gateway/proxy.py:252` "surface to the client as unsolicited responses" | The tagged end of an exchange that was given up reaches the client too |
| `PumpsAreLoggedIn` | `startup` | `gateway/proxy.py:1557` "Rewrite LOGIN ... forward" | The pumps start after a LOGIN that the upstream refused, and stage |
| `RotationReachesAll` | `startup` | `scripts/rotate_master_key.py:6` "every encrypted credential in the DB" | Not one stored between its SELECT and its UPDATEs |
| `RerunLeavesNothing` | `startup` | `scripts/migrate_secrets.py:9` "safe to re-run" | A secret that was put and not written to its row stays in the store |
| `DisconnectedStaysEmpty` | `startup` | `api/routes/auth.py:586` deleted "BEFORE nulling the reference columns" | Both scripts write back what they read before the account was disconnected |
| `ResultsExpire` | `secrets` | `api/routes/oauth2.py:560` 404 if "expired" | A result waits for its owner without end |
| `MultiappendIsAtomic` | `imap_proxy` | `gateway/proxy.py:688` "nothing is staged" | Where the connection ends after the first message, that one is staged |
| `CutLinesAreDropped` | `imap_proxy` | `gateway/proxy.py:595` "Fails closed" | A line cut off by the end of the connection is staged as if it were whole |

Two more were met while reading. Without its condition on purges, `NoFalseAlarm` fails: the
hard purge removes rows from the middle of the chain (`gateway/retention.py:135`),
which the verification reports as tampering (`gateway/audit.py:542`). And
`undo_expires_at` is read by `gateway/undo.py:175` and never written, so the
undo window never closes.

## Plan

Done, in this order: the approval queue with its promise and proofs; audit
chain; send ceilings; mirror and UID sets; the IMAP relay and session; the SMTP
session and notices; credentials and caches; accounts and guard; retention; the
reader of commands; what execution and undo do to messages; the OAuth flow; agent
login; start-up and migrations; the operator scripts.

Next, in the model:

1. Compose `Operations` with `SendRate` and `AuditChain` on shared rows, so that a
   refused ceiling and a lost audit row meet the lifecycle, and show that each
   still keeps what it keeps alone.
2. `gateway/batching.py` under its lock, and the copy in the Sent folder.
3. UNSELECT in `ImapSession`, the undo window once it is set, the GDPR export.
4. An abstract specification of the mirror (the agent sees the mailbox with its
   pending operations applied) that `Mirror` implements for disjoint operations.

Next, to prove:

1. `Operations` with `SendRate` on shared rows, once they are composed.
