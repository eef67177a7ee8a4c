# A verification project for the AI-SDLC platform

The platform (`src/backend`, a FastAPI application on Postgres and Redis, with a
Next.js front end in `src/frontend`) lets delivery teams run language-model
agents over a project and puts human decisions around what the agents do. This
directory models the parts where those decisions, and the things they set in
motion, meet concurrency and failure. The specifications are translated from
the Python source and the migrations; `PROJECT.json` maps every definition to
its lines. The modules are checked with TLC, and every safety and action property
the passing runs check is proved with TLAPS for all nine components modelled;
liveness is checked by TLC alone.

## The system

| Component | State it keeps | Operations | Talks to |
|---|---|---|---|
| Deployment gate and executor (`shared/services/deployment_gate.py`, `deployment_executor.py`, migration 0043) | the `deployments` row, audit rows | request, approve, reject, claim, call, record, refresh | Azure DevOps (ADO) over HTTP |
| Artifact versions (`artifact_versions.py`, `artifact_consumption.py`, migration 0045) | numbered rows per project and stage, grants, consumption records | freeze, publish, reject, read upstream, grant | agents that build on another stage's work; governance effects |
| Governance requests (`governance_requests.py`, `governance/routing.py`, `effects.py`) | one row per request, its timeline, what an approval grants | create, decide in one or two stages, escalate, cancel, complete | the model selection, agent access and artifact grants |
| Event streams (`webhooks/`, `workers/base_worker.py`) | dedup keys, a Redis stream, a consumer group, dead letters, each worker's own counts | deliver, publish, claim, read, handle, acknowledge, dead-letter | providers' webhooks, Redis |
| Audit pipeline (`shared/audit/service.py`, `workers/audit_retry_worker.py`) | `audit_events`, a dead-letter stream, a cursor in memory | emit, dead-letter, retry | all of the above |
| Runs (`routers/runs.py`, `workers/run_sweeper.py`, `process_api.py`) | the `runs` row | create, cancel, delete, approve, advance on an artifact event, sweep | Redis pub/sub, budgets |
| Budgets and metering (`budget_*.py`, `model_rate_limit.py`) | caps per scope, a monthly rollup, Redis windows, a cache per process | allocate, check, record | run creation, model calls |
| Tokens (`token_epoch.py`, `denylist.py`, `password_setup.py`) | an epoch per user, a denylist, one-time links | mint, revoke, log out, issue, consume | every authenticated request |
| Agent Studio (`agent_profiles.py`, `agent_skills.py`, `skill_store.py`, `eval_gate.py`) | versioned profiles and skills, evaluations | draft, publish, activate, propose, evaluate | governance requests |
| Orchestrator chat (`agents_orchestrator/orchestrator2/`, `conversation_service.py`) | a socket's turn, its task's context variables, a run's transcript and deliverables | receive a frame, route, run an agent, capture, append to the transcript | the delivery agents, runs, budgets |

The remaining parts (the agents' graphs, authorization tables, connectors,
observability, SCIM, the front end) hold no state of their own that the above
depends on; `PROJECT.json` lists each with the reason it is left out.

### What is hard here

Requests are served by several processes against one Postgres at READ
COMMITTED. Three idioms decide what can go wrong:

* **load, judge, write.** An ORM handler loads a row, decides on the copy and
  emits `UPDATE ... WHERE id = pk` at commit. Other transactions commit in
  between. The models give such a handler a Load and a Commit step.
* **conditional UPDATE.** A guard in the `WHERE` clause is evaluated under the
  row lock. The models make it one step with the guard in it; when more
  statements follow in the transaction, the lock is a variable.
* **side effects outside the transaction.** Calls to ADO, a commit in a second
  session, Redis commands. A crash, or a lost reply, falls between them.

What makes each part correct: the gate - one launch per approval, a decision by
somebody else, an honest record; the versions - frozen content, independent
decisions, no draft consumed by accident; the requests - the right person
answers, the first outcome is final, an approval takes effect; the streams - no
entry lost, none given up early, an end to every entry; the audit trail - an
event is stored or its loss has a cause, and repeats have one too; the runs - a
gate closes by a fit decision only, an abandoned run is swept; the budgets -
overshoot is bounded by the turns in flight, an edit reaches every process; the
studio - what an approval publishes was evaluated, and a publish that nothing
overtook leaves one active version; the chat - every frame that does not end its
socket ends once, a turn runs in its own run's context and leaves nothing on the socket, answers stand
behind their questions.

## Modules

| Module | Role |
|---|---|
| `DeploymentGate` | gate and executor as transactions, ADO as environment |
| `ExecutionTicket` | abstract: a one-shot ticket; `DeploymentGate` refines it |
| `DeploymentGateProofs` | theorems about `DeploymentGate` |
| `ArtifactVersions` | one stage of one project |
| `VersionShelf` | abstract: numbered works that are never altered and the one readers are shown; `ArtifactVersions` refines it |
| `ArtifactVersionsProofs` | theorems about `ArtifactVersions` |
| `GovernanceRequests` | one project's requests, with routing and effects |
| `Petition` | abstract: a petition heard by others and closed once; `GovernanceRequests` refines it |
| `GovernanceRequestsProofs` | theorems about `GovernanceRequests` |
| `EventStream` | producer, consumer group and workers of one stream |
| `DeliveryQueue` | abstract: a queue that delivers at least once; `EventStream` refines it |
| `EventStreamProofs` | theorems about `EventStream` |
| `AuditPipeline` | emit, the dead-letter stream and the retry workers of every process |
| `AuditPipelineProofs` | theorems about `AuditPipeline` |
| `Runs` | the row of a run and its five kinds of writer |
| `Budgets` | caps of one organization, their caches, the guard and the charge |
| `RunsAndBudgetsProofs` | theorems about `Runs` and about `Budgets`, which guards every start of a run |
| `AgentStudio` | the versions of one profile or skill, their evaluation and approval |
| `AgentStudioProofs` | theorems about `AgentStudio` |
| `Chat` | the Orchestrator's sockets, the turn of a delivery agent, the transcript |
| `ChatProofs` | theorems about `Chat` |
| `MC*` | instances for TLC: symmetry sets, roles of named people |

`ArtifactVersions` and `GovernanceRequests` meet at the artifact consumption
grant: `GrantAccess` is the effect of an approved request, which
`GovernanceRequests` treats as an approval that grants nothing of its own.
`AgentStudio` holds the effect of an approved publication (`Approve`), whose
request `GovernanceRequests` decides. `Runs`, `Budgets` and `Chat` meet where a
turn starts: `Turn` in `Runs` is any turn, `Begin` in `Budgets` is its guard,
and a spent budget is one of the failures behind `Raise` in `Chat`.

### DeploymentGate

`rows[d]` is the committed row, `job[s]` a request being served, `ado[d]` and
`launches[d]` what really happened in ADO. `ApproveLoad`/`ApproveCommit` and
`RejectLoad`/`RejectCommit` are the ORM handlers; migration 0043's check
constraint is a condition of the commit. `Claim` is `claim_for_execution`, a
conditional UPDATE in its own transaction. The call has four outcomes: answered,
accepted with the reply lost, refused, never sent. `RecordLoad`/`RecordWrite` are
`record_outcome`, which writes only columns that differ from the loaded copy.
`RefreshRead`, `RefreshPoll`, `RefreshUnreadable` are `refresh_status`. `Crash`
ends a request between any two steps. Assumed: an approver's id is not empty, an
answer of ADO carries an id, and a request for a deployment of another project
is a 404 without effect.

### ArtifactVersions

Each SELECT is a step and the writes with their commit are one. `Freeze`,
`Allocate`, `Insert`, `Collide`, `Retry` are `snapshot_stage_payload` with its
retry loop (its limit of five tries is covered by `Abort`, which may end any
request). `PublishLoad`, `PublishCompare`, `Publish` are `publish_version`, with
supersession and notices in the last. `ReadPublished`, `ReadGranted`,
`RecordConsumption` are the upstream read. `RowSecurity` says whether the
database role is subject to row-level security: `migrations/env.py` and
`test_rls_coverage.py` intend it, while a comment in `effective_role.py` says
that today's deployment connects as a superuser. `NoWorkAssumption` says that
NULL is not a version's content. The read of a project that does
not enforce publication, and covers as separate from payloads, are not modelled.

### GovernanceRequests

Every operation loads, judges, and updates with "still open" in the WHERE
clause. `lock[r]` is held from that UPDATE to the commit, which matters where an
effect runs in between: `CloseAndApply`, `ReadGrants`, then `GrantAgent` (same
transaction) or `SelectModel` and `CommitDecision` (the selection commits on its
own). `CloseHollow` is the role assignment that cannot be approved by hand.
Routing (`NextApprover`, `InitialApprover`, `Ceiling`, `CanEscalate`) is
translated case by case. An agent access has two stages (`TwoStages`) unless the
Project Admin owns the agent or the phase names none; nothing validates the
phase, and where it names none the Project Admin's yes is the decision and the
phase is granted as it came. `Names` says which targets a type may name. Of the
effects, those on agent access and on the model selection are modelled; the
others are single guarded writes in the same transaction. An effect may be
unavailable at any time; a project starts with no models selected; notifications
are left out and the `timeline` keeps the answers, assignments and
cancellations; the permission to assign a role is reduced to holding an admin
role.

### EventStream

Entry `i` is the `i`-th XADD. `Receive` is the SET NX mark, `Publish` the XADD,
`PublishFails` everything that can end between them, `Forget` the key's expiry.
A worker's loop goes claim, batch, read: `Claim` is XAUTOCLAIM from 0-0,
`TakeUp`/`GiveUp` the two branches on `_reclaim_counts`, `Read` XREADGROUP.
`Succeed`, `Fail`, `Ack`, `AckUnheard` are `_process_one`, with an XACK whose
answer is lost; `Bury` and `AckBuried` are `_dead_letter`. `Crash` is a
cancellation, a kill or a Redis error outside `_process_one`; `Start` a new
process with an empty `_reclaim_counts`. `late` and `reclaims` are history
variables. A handler either returns or raises; copies in the dead-letter stream
are not counted, so `dead` is a set.

### AuditPipeline

`Emit` schedules the detached task; `WriteCommits`, `WriteRaises` and
`WriteReplyLost` are its write, `DeadLetter` and `DeadLetterFails` the XADD that
follows a failure. Each process runs a retry worker that reads the stream with
XREAD from a cursor in memory (`Read`), writes with up to `MaxTries` attempts
(`RetryCommits`, `RetryRaises`, `RetryReplyLost`) and deletes (`Delete`). No
consumer group divides the entries, so every process works on all of them.
`ProcessDies` drops the tasks of its process; `RedisRaises` ends the loop, which
nothing restarts. `dropped` and `replies` are history variables.

### Runs

`run[r]` is the row; a request (`req`), a process's listener and the sweeper
each hold what they loaded. `AskCancel`/`Cancel`, `AskDelete`/`Delete` and
`AskDecision`/`Decide`/`DecideNothing` are the routes, split at the load;
`DecideNothing` is the decision on a row seen without a gate, which writes only
columns that differ and so leaves a gate that has opened since. `Load` and
`Advance` are the artifact-event listener every process runs, `Skip` its
unrouted types, `SweepRead` and `SweepWrite` the sweeper; `Turn` and `GoStale`
are the agents' work and its absence. The types that
`register_generated_file` publishes today (document, diagram, presentation) are
not in `_ORCHESTRATOR_ROUTING`, so a gate opens only for callers of
`publish_artifact_ready` that name a stage's type; the listener accepts those
and the model has both.

### Budgets

An edit is `Ask` (it reads the limit it is judged against), `Judge` (it reads
the sums; both reads are inside one validation), `Commit` and `Clear` (the
caches of its own process only), in the order `todo` gives for its kind:
`patch`, an approved request (`grant`) and a restored project are not judged.
The guard is `Begin`, `Read`, `Store`, one `CheckScope` per scope and `Admit`;
that is one turn's model being resolved. After it `Charge` may happen for each
completion of the turn, `PerTurn` at most, with no further check, until
`EndTurn`; a completion whose charge is lost is one that was not charged.
`ReadFails`, `SpendUnreadable` and `LookupFails` are the errors that
`BUDGET_ENFORCE_FAIL_CLOSED` decides about. 0 stands for NULL, one metered
project for the one cache key of a chain, and the chain's cache is "full" or,
after a failed lookup, "short" of the business unit. The caps are loaded in one
step. An amount is a number of dollars and a sum of amounts the number of their
dollars (`Dollars`); the code's amounts are non-negative too. The window of
requests per minute (`model_rate_limit.py`) is left out.

### AgentStudio

`rows` are the versions of one line, in order of insertion, and ids are their
positions. An operation loads its target, then the siblings (`Siblings`), then
writes by primary key (`Insert`, `Flip`, `Withdraw`). A failed evaluation
(`GiveUp`) leaves nothing. A deleted skill keeps the version number that the
unique constraint holds against later ones. Personal scope, toggles, vendor
skills, cloning and previews are left out. Bounds: a row is passed once and has
one open proposal at a time.

### Chat

`pc[s]` is where a socket's loop stands ("dropped" once an exception has ended
it), `turn[s]` the frame in hand, `wire[s]` what the client was sent since,
`ctx[s]` the context variables of the socket's task. `Refuse` answers a
malformed frame; `Choke` is the frame whose text, agent or run is not a string,
which raises before anything is sent and ends the socket. `Accept` verifies the
run and makes sure of its conversation; `Choose`, `AnswerDirectly`,
`FailToChoose` are what routing may come to. `run_agent` is `Enter` (the context
is cleared, the agent announced), `Resolve` or `FindNoModel`, `Chunk` and `End`
or `Raise`, `Capture`, `Conclude`. `append_message` is `ReadSeq` and `Insert`,
two statements without a lock whose failure is swallowed. `Unsendable` and
`PeerGone` close the generator at a yield, and its `finally` runs in the
socket's own task. A peer's leaving is noticed only at a send or a receive, so a
reconnection beside a waiting socket is two talkers. `Completed("refused")` is
true: the branch that found no model also reaches the capture, although the
comment at `dispatch.py:753` says that only a finished graph does; nothing has
been said by then, so nothing is filed. An unknown agent id fails while its
hand-off is read and is part of `FailToChoose`. Reduced: a reply to whether any
text reached the client, a resolved model to the project it was resolved for.
Left out: opening the socket, the router's own model call, what goes into a
prompt, connector, MCP and workspace binding, renaming and deleting
conversations.

## Runs

Passing runs:

| Run | States | Question |
|---|---|---|
| `DeploymentGate_safety` | 1 076 419 | Do racing requests, one of which may die, keep one launch, four eyes and an honest record, implement the ticket, and follow up every claim if nothing crashes? |
| `ArtifactVersions_safety` | about 245 000 | Two sessions: independent decisions, signed or granted reads, no stale publication, and the shelf of `VersionShelf` |
| `GovernanceRequests_safety` | 253 122 | Two requests, five people, an agent with an owner and a phase that names none: who answers, how far a request climbs, that the outcome is final, grants are earned, and a request is the petition of `Petition` |
| `EventStream_safety` | about 2 380 000 | Two deliveries of an event across its key's expiry, two workers, two entries, a crash: nothing lost, nothing put aside early, overlap only when late |
| `EventStream_settles` | about 311 000 | Is a pending entry settled although handlers fail and workers crash twice? |
| `AuditPipeline_retry` | 51 492 | Two processes, a poison event, a database that comes and goes: is every loss and every repeated row explained, and does poison hold nothing up? |
| `Runs_gates` | 745 131 | Two requests, two listeners, a sweeper on one row: no gate closes unanswered or by the wrong person, an abandoned run is swept |
| `Budgets_spend` | 1 754 892 | Two editors, two callers whose turns make up to two completions, two processes with caches: bounded overshoot, explained over-allocation, and does an edit arrive in every process? |
| `AgentStudio_publish` | 2 736 793 | Two requests on a profile or a skill: a publish heals what races left, an approval publishes what was evaluated |
| `Chat_turns` | 304 391 | Two sockets, two runs of two projects: frames end once, turns run in their own context, transcripts stay in order |

Runs that are expected to fail, each for a sentence of the repository that the
code does not keep:

| Run | What TLC shows |
|---|---|
| `DeploymentGate_nothingsent` | a `create_pipeline` accepted with its reply lost is recorded as "Nothing was sent" |
| `Chat_replied` | `run_agent` turns its failures into events and returns, so a refused agent becomes the one in conversation, which is "set ONLY after an agent actually produced a reply" |

More configurations are kept beside these and not listed as runs.

* `DeploymentGate_disputed`, `ArtifactVersions_disputed`,
  `GovernanceRequests_disputed`, `Runs_disputed`, `AgentStudio_disputed`,
  `EventStream_disputed`, `Budgets_disputed`, `Chat_lost` and `Chat_killed`
  check what a comment promises and the code does not keep; each definition quotes its sentence. TLC
  finds every one of their properties violated when it is checked alone (with
  `-continue`, one violation on a path can hide another).
* `DeploymentGate_inv`, `GovernanceRequests_inv`, `AuditPipeline_inv` and
  `Runs_inv` check the inductive invariants of the proofs (`GateInv` and
  `OutcomeInv`, `GovernanceInv`, `PipelineInv`, `RunsInv`), the second with
  artifact consumption among the types (1 750 678 states). The others were
  checked with the configuration of their run, the invariant in place of its
  properties: `VersionsInv` (`ArtifactVersions_safety`), `StreamInv`
  (`EventStream_safety`), `StudioInv` (`AgentStudio_publish`), `BudgetsInv`
  (`Budgets_spend`), `ChatInv` (`Chat_turns`). In the same way `VersionsAreFrozen`
  (which the shelf implies) and the refinement of `DeliveryQueue` were checked.
  All hold.

| Disputed property | What happens |
|---|---|
| `DecisionIsClosed`, `SignatureIsKept` | approve and reject race; the later commit overturns the earlier decision |
| `OnePublishedVersion` | two publications that both found nothing published leave two published versions |
| `DecisionStands`, `ConsumersAreTold` | a decision is overwritten by one judged earlier; a consumption recorded after the version it read was superseded gets no notice |
| `LoserRetries` | only under row-level security (`RowSecurity`): the retry after a collision runs in a new transaction that has lost its tenant |
| `AnsweredByTwoPeople` | escalating stage two of an agent request returns it to the Project Admin who answered stage one |
| `CurrentApproverDecides`, `CountIsTiersClimbed` | a decision judged before another one moved the request on is recorded after it; two escalations loaded together both commit, and the count and the tier disagree |
| `ApprovalTookEffect` | two approvals for one person: the second writes back a list read before the first |
| `FinishedStaysFinished`, `OneDecisionPerGate`, `ClosedForItsOwnStage`, `ParkedIsNotSwept` | a cancellation, a second decision, a decision for another stage, a sweep: each judged on a row that has moved on |
| `AllocationHolds`, `EditAppliesAtOnce` | two judged edits overtake each other; another process's cache keeps the old cap for its minute |
| `OneActive`, `ScoredIsTheDraft` | two activations leave two active versions; an evaluation reads its text again by version number |
| `AttemptsAreBounded`, `NotDropped` | attempts are counted per process; the mark is set before the XADD |
| `NoExceptionKillsTheSocket` | a frame whose text is a number raises outside the inner `try`, and the socket ends with nothing sent |
| `NoMessageIsLost` | two sockets on one run read the same number, and one message is lost in silence |

### Bounds

* Deployments: one, since rows share nothing; three sessions are an execution,
  a competing one and a stale decision or refresh. One crash suffices for
  every half-finished execution of one deployment, which cannot be claimed
  again.
* Versions: two numbers and two payloads give a collision, a supersession and a
  stale publication; two sessions because each race in the code is between two.
* Requests: two requests raised by any of five people at every tier, for an
  agent with an owner or one without (the targets are several only where they
  are granted as a list); the violation runs add a second Project Admin and one from elsewhere.
* Streams: two entries, so that a batch and a new entry coexist; a limit of one
  or two attempts instead of three, so that the dead-letter path is reached soon
  (nothing in the loop depends on the number); each dedup key may expire once.
  `reclaims` stops one above the limit. `ClaimCount` 2 does not bind with two
  entries; `EventStream_settles` was also run with `ClaimCount` 1, one worker, one
  attempt and one crash (34 398 states, no error).
* Audit: two processes read one stream, a poison event and a sound one cover
  what a cursor can pass; starts and lost replies are bounded by history counters.
* Runs: one row, since rows share nothing but a sweep; two decisions and two
  events give every overtaking of one writer by another.
* Budgets: two units of one organization with a project each have siblings at
  both levels; two callers are the two turns in flight of the overshoot, with
  two completions each, the second of which nothing checks; one fault, one change
  of month.
* Studio: two rows give a predecessor and its successor, with two requests
  between them.
* Chat: two frames in all are two turns of one socket on two projects, or two
  sockets on one run. Three frames with two agents were also checked
  (12 329 701 states, no error).

Deadlock is not checked: every bounded system here may simply stop when its
requests, entries or crashes are used up.

### Fairness

* `DeploymentGate!FairSpec`: a request under way goes on (`WF` on its
  continuation). The event loop drives it and the ADO calls have timeouts.
  Nobody is obliged to ask, approve or refresh, and ADO need not finish a run.
  `ClaimIsResolved` is checked without crashes: after one, the row stays
  "running" with no id and nothing in the code looks at it again.
* `EventStream!FairSpec`: a running worker keeps taking steps, its handler ends
  somehow, and time passes for a pending entry. There is no fairness on `Start`,
  on success or on a provider's redelivery, so `Settles` holds even if every
  handler fails, and only as long as some worker is up.
* `AuditPipeline!FairSpec`: the event loop runs every task and retry loop of a
  live process. Nothing obliges the database to come back or a process to start.
* `Runs!FairSpec`: `RunSweeper.run` never ends; it survives a failed sweep.
* `Budgets!FairBudgetsSpec`: the minute of a cached entry passes.

## Proofs

Checked by TLAPS for any number of deployments, users, sessions, versions,
events, requests, workers and entries, and any limits; the assumptions are those
named in the modules (NULL is neither a person nor a work, bounds are naturals).
Every inductive invariant below was first checked with TLC (see "More
configurations").

**The gate** (`DeploymentGateProofs`). `LaunchedAtMostOnce` is not inductive: a
second caller between claim and call would break it. `GateInv` adds that a
caller holds the only claim on a spent row that has launched nothing (`OneCaller`),
that spent rows are approved and unspent ones have started nothing
(`SpentIsApproved`), that an approval is signed and audited by another
(`SignedByAnother`), and that work under way is on a filed row and never an
approval by its requester (`JobsAreBound`). From it follow `TypeCorrect`,
`OneLaunch`, `FourEyes`, `SpentIsFinal` (an action property) and
`GateIsATicket`, the refinement of `ExecutionTicket` step by step.

What a row reports needs a second invariant on top, `OutcomeInv`. Its core is
`OnlyTheClaimant`: until the external id is recorded, the request that claimed a
row is the only one that can record anything about it, and it will record an id
or an error over the status it loaded. So what a caller learned is still true
when it writes it (`RecordsTheTruth`), and a row cannot be left "running" with
neither an id nor a request behind it. A refresh needs the id, so every request
beside the claimant reports what ADO holds, and a run that has finished there
stays as it finished (`FinishedRunStays`). Theorems: `ReportsAreTrue`
(`HonestOutcome`), `NoClaimIsOrphaned` (`UnfollowedIsInFlight`) and the action
property `OneVerdict` (`VerdictNeverContradicted`).

**The streams** (`EventStreamProofs`). `NothingLost` depends on every XACK being
earned: `AckIsEarned` says that an acknowledging worker's entry has been handled
or put aside. `DeadAfterTries` depends on `CountsAreReal`: a worker's own count
never exceeds the handlers really started. `OverlapMeansLate` depends on
`HeldInTime`: what a worker has in hand in time is its own or settled, and it is
stale only if the worker is late; `HandsOK` says that nothing is left over
between batches and nobody holds what was not delivered. The conjunction is
`StreamInv`. Each kind of step is first reduced to the fields of the loop it
changes (`LoopMoves` and the effect lemmas), then each conjunct is shown to
survive it. Theorems: `StreamTypeCorrect`, `NoEntryLost`, `DeadOnlyAfterTries`,
`OverlapOnlyWhenLate`.

`EnteredOnce` is a count and is not inductive either: a request that has marked
its event and not added it, and an unset key, are entries to come.
`EntriesArePaidFor` bounds the sum of the three by the lives of the key; every
step of the producer trades one for another, ends one or adds a life
(`OneEntryPerLife`). `StreamIsAQueue` is the refinement of `DeliveryQueue`:
XREADGROUP gives, an XACK of a pending entry settles, and everything else the
workers do - claims, failures, late and repeated handling, crashes - is a stutter
or leaves what is owed alone. It needs `GroupIsOpen` (only workers of an existing
group read) besides `StreamInv`.

**The versions** (`ArtifactVersionsProofs`). A decision and a read go by a copy
that may be stale. `VersionsInv` says what outlives the read: the version exists,
the decision is not its producer's, what it will supersede was published and is
not newer (`Decides`); what is about to be recorded as read has been signed or is
in the consumer's grants (`Reads`). `PublishersAreOnRecord` ties the row's
publisher to the audit. A step only ever writes status and publisher of an
existing row, so `VersionsAreFrozen` is a fact about each action; for
`PublicationNeverGoesBackwards` the version consumers read is the highest
published number. That a nonempty set of naturals has a least member comes from
the library's well-founded induction (`LeastNatural`), with a set in place of the
predicate the provers cannot instantiate. Theorems: `VersionsTyped`,
`NobodyDecidesTheirOwn`, `DraftsAreNeverRead`, and the action properties
`NothingRewritesAVersion` and `NoPublicationGoesBackwards`.

`StageIsAShelf` is the refinement of `VersionShelf`, whose shelf is the stored
works, whose signatures come from the audit and whose shown work is the highest
published number. An insertion is the only step that changes the shelf, and puts
one work on an empty place. A publication supersedes a row that is not newer, so
what is shown after it is the higher of what was shown and what was signed; a
rejection of the shown version falls back on an older one that was signed
(`SignedOnRecord`); a consumption is of a signed or granted version because
`Reads` holds when it is recorded. Loads, comparisons, collisions, retries, lost
races and notices are stutters.

**The requests** (`GovernanceRequestsProofs`). `GovernanceInv` says what a
loaded operation still knows of its request when it comes to write: that its
actor did not raise it and governs the project (`JudgedOf`), that an effect
under way holds the row of an open request that went through the stages it has
and puts back only what was approved (`HoldsRow`), that a stale escalation still
climbs to a tier its requester may reach (`ClimbsWithin`). `RaisedInFull` ties
the second stage of a request that has one to the event that advanced it.
Theorems: `RequestsTyped`, `NobodyAnswersTheirOwn`, `AsksStopAtCeiling`,
`HeldWasApproved`, and the action property `OutcomesStand`.

`RequestIsAPetition` is the refinement of `Petition`: whatever the tier, the
stage, the escalations and the effects, a request is filed once, passed on and
closed by somebody other than its author, withdrawn by its author only, arranged
only by somebody who may assign roles, and approved, where its kind has two
stages, only after it was passed on. `JudgedOf` carries what a loaded copy
established until the write; `RaisedInFull` gives the passing on; "still open" in
the UPDATE gives the single closing. Escalations, lost races and effects that
grant are stutters.

**The audit trail** (`AuditPipelineProofs`). `NothingVanishes` needs
`DeletedIsStored`: a worker about to delete an entry has seen its row committed.
`RepeatsAreExplained` compares counts, and needs to know which rows may still
come: `RepeatsAreBudgeted` adds to the rows of an event the workers that have
its entry ahead of them (`MayStore`, a finite set because each was started), and
every step that stores moves one worker out of the set or is paid for by a lost
reply. `TasksComeFirst`, `IdsAreDistinct` and `BatchesAreAhead` are why a worker
is past an entry for good. Theorems: `PipelineTyped`, `EventsAreAccountedFor`,
`RepeatsHaveACause`.

**The studio** (`AgentStudioProofs`). `ApprovedWasEvaluated` needs
`PassesWereEarned` (a pass is by somebody who might evaluate, for a good text of
that version) and `ApprovedHasPass`; an evaluation reads its text again by number,
which is why both speak of rows that share a version. `PublishHeals` needs to know
what an operation saw: as long as nothing overtook it the flags it loaded are
those of the rows it will write (`KnowsFlags`), and a draft or a member's version
sets no other row's flag, overtaken or not (`LeavesAlone`). `VersionsAreInOrder`
bounds version numbers by positions, so that the highest exists (`LeastNatural`
again). Theorems: `StudioTyped`, `ApprovalsWereEvaluated`, `CleanPublishesHeal`.

**The runs** (`RunsAndBudgetsProofs`). `UnansweredStaysOpen` counts openings and answers
of a gate and needs to know that a row that never was has neither
(`NoGateWithoutRun`); `GateClosesUnderFourEyes` needs `DecidersAreFit`, that
whoever is about to decide was fit when the row was loaded and the initiator
never changes; the listeners' queue needs `ListenersAreFed`. Every step is first
shown to change a row in one of the few ways `RowMoves` names. Theorems:
`RunsTyped`, `GatesNeedAnswers`, `GatesCloseUnderFourEyes`.

**The chat** (`ChatProofs`). `ChatInv` says for each socket how its place, its
turn, its wire and its context go together (`Fits`), and for each run that its
messages are numbered 1, 2, ... without a gap and a number in hand is one of
them (`NumbersRunOn`): that is why an insertion either takes the very next
number or collides. `QuestionsWait` adds that on a run nothing disturbs the last
message is the question being answered. Each action is shown to be a move of one
socket (`Moved`) that is quiet about what is kept, or one of the three that are
not. Theorems: `ChatTyped`, `FramesEnd`, `GraphsRunAsAnnounced`, `FiledWhole`,
`AnswersBehindQuestions`.

**The budgets** (`RunsAndBudgetsProofs`). `OvershootIsBounded` is not inductive:
a turn that has passed a scope's check is charges nothing will stop.
`PassesAreBounded` counts what those turns may still be charged (`Owed`) with the
spend. A check lets a call pass
only while the spend is below the cap it was handed, and that cap, however old
its cache or its load, is one the scope really had (`CachesAreFair`,
`CallsAreFair`, `CapsAreKnown`), so the count stays below the largest cap plus
what a turn of every caller may cost; a scope that was ever uncapped, or was let through by a fault,
is excused (`ShortIsExcused` for a chain cached without its business unit).
`OverAllocationIsExplained` needs what an edit found when it was judged still to
hold when it commits, as long as no other edit came between (`ReadsStillHold`),
and that a judged edit commits only after its judgement (`CoursesAreKept`); of a
commit that nothing overtook the sum of the siblings is then the one that was
judged (`SumAfterSet`, `CommitAllocates`). Sums are cardinalities of sets of
dollars, so that changing one term is a fact about disjoint sets and needs no
induction. `AllocatedAtFirst` assumes caps that judged edits would have left.
Theorems: `BudgetsTyped`, `OvershootStaysBounded`, `OverAllocationHasACause`.

Only model-checked: liveness (`ClaimIsResolved`, `Settles`, `PoisonDoesNotWedge`,
`AbandonedIsSwept`, `EditReachesEveryProcess`), which is beyond the prover.

## Not modelled

* Tokens (revocation epochs, denylist, password links): they decide who a caller
  is before any handler modelled here runs.
* The delivery agents: LangGraph graphs around language-model calls; what they
  produce is constrained by nothing in the code. Most of the repository's lines
  are theirs, and the front end's.
* Authorization tables: decision tables without state; the modules take their
  verdicts as guards.
* Artifact documents and their review, model resolution: lookups, and rows of
  the same load-judge-write shape as the versions.
* Connectors, observability, SCIM, the front end: I/O, mirrors, single-row
  writes, rendering.

## Plan

What is left, in order:

1. An abstract specification for the transcript (`Chat`), proved to be
   implemented as the ticket, the queue, the shelf and the petition are.
2. More of the routes around the artifact documents, and the effects of
   `GovernanceRequests` that are now folded into its approval.

## Running

    tlc -workers 2 -config DeploymentGate_safety.cfg MCDeploymentGate
    tlapm EventStreamProofs.tla

Each configuration belongs to the module `MC<prefix>` of its name.
