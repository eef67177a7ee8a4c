--------------------------- MODULE DeploymentGate ---------------------------
(***************************************************************************)
(* The approval gate in front of everything that reaches an environment:   *)
(* backend/shared/services/deployment_gate.py (the decisions) and          *)
(* deployment_executor.py (performing an approved deployment).             *)
(*                                                                         *)
(* Every handler is one or more database transactions at READ COMMITTED.   *)
(* An ORM handler loads a row, decides on the loaded copy and later emits  *)
(* UPDATE ... WHERE id = pk, so it is a Load step and a Commit step with   *)
(* other requests in between.  The conditional UPDATE of                   *)
(* claim_for_execution evaluates its WHERE under the row lock: one step.   *)
(* Azure DevOps (ADO) is an external service.                              *)
(***************************************************************************)
EXTENDS Naturals, FiniteSets

CONSTANTS
    Deployments,  \* rows of the deployments table that may be filed
    Users,        \* people who ask for and decide deployments
    Sessions,     \* concurrent requests being served
    None,         \* NULL, or no user
    MaxCrashes    \* bound: how many requests may die half way

ASSUME NoneAssumption == None \notin Users
ASSUME MaxCrashesAssumption == MaxCrashes \in Nat

VARIABLES
    rows,     \* rows[d]: the committed row of deployment d
    job,      \* job[s]: the local state of the request served by session s
    ado,      \* ado[d]: what deployment d started in Azure DevOps
    launches, \* launches[d]: how many times ADO accepted a call for d
    audit,    \* committed audit rows: <<deployment, event, actor>>
    crashes   \* how many requests have died so far

vars == <<rows, job, ado, launches, audit, crashes>>

-----------------------------------------------------------------------------
GatedActions == {"create_pipeline", "run_pipeline", "direct_apply"}

\* direct_apply is gated and recorded but not performed yet.
Performs == {"create_pipeline", "run_pipeline"}

\* How an ADO run can finish; "other" is a result the connector does not know.
RunResults == {"succeeded", "failed", "canceled", "partially_succeeded", "other"}

TerminalStatus == {"succeeded", "failed", "canceled"}
ExecutionStatus == {"not_started", "running", "error"} \cup TerminalStatus

\* What the recorded outcome tells the reader about what was started.
Details == {"none", "nothing_sent", "started_unknown", "not_performed"}

Row == [action    : GatedActions \cup {None},
        requester : Users \cup {None},
        approval  : {"absent", "pending", "approved", "rejected"},
        approver  : Users \cup {None},
        executed  : BOOLEAN,            \* executed_at IS NOT NULL
        status    : ExecutionStatus,    \* execution_status
        followed  : BOOLEAN,            \* external_id is set
        detail    : Details]

Absent == [action |-> None, requester |-> None, approval |-> "absent",
           approver |-> None, executed |-> FALSE, status |-> "not_started",
           followed |-> FALSE, detail |-> "none"]

Job == [pc     : {"idle", "approving", "rejecting", "calling",
                  "polling", "recording", "writing"},
        dep    : Deployments \cup {None},
        user   : Users \cup {None},     \* who decides
        out    : ExecutionStatus,       \* the status to record
        id     : BOOLEAN,               \* ADO answered with an external id
        detail : Details,
        seen   : ExecutionStatus]       \* execution_status as loaded

Idle == [pc |-> "idle", dep |-> None, user |-> None, out |-> "not_started",
         id |-> FALSE, detail |-> "none", seen |-> "not_started"]

AuditRow == Deployments \X {"request", "approve", "reject", "execute"} \X Users

TypeOK ==
    /\ rows \in [Deployments -> Row]
    /\ job \in [Sessions -> Job]
    /\ ado \in [Deployments -> {"absent", "active", "created"} \cup RunResults]
    /\ launches \in [Deployments -> Nat]
    /\ audit \subseteq AuditRow
    /\ crashes \in 0 .. MaxCrashes

Init ==
    /\ rows = [d \in Deployments |-> Absent]
    /\ job = [s \in Sessions |-> Idle]
    /\ ado = [d \in Deployments |-> "absent"]
    /\ launches = [d \in Deployments |-> 0]
    /\ audit = {}
    /\ crashes = 0

-----------------------------------------------------------------------------
(* The gate.  A refused or idempotent call changes nothing, so it is no    *)
(* step; the constraints of migration 0043 are conjuncts of the commits.   *)

\* request_deployment: one INSERT with its audit row.
RequestDeployment(d, u, a) ==
    /\ rows[d].approval = "absent"
    /\ rows' = [rows EXCEPT ![d] = [Absent EXCEPT !.action = a, !.requester = u,
                                                  !.approval = "pending"]]
    /\ audit' = audit \cup {<<d, "request", u>>}
    /\ UNCHANGED <<job, ado, launches, crashes>>

\* approve_deployment up to the assignments: the row is read and judged.
ApproveLoad(s, d, u) ==
    /\ job[s].pc = "idle"
    /\ rows[d].approval = "pending"
    /\ u # rows[d].requester
    /\ job' = [job EXCEPT ![s] = [Idle EXCEPT !.pc = "approving", !.dep = d,
                                              !.user = u]]
    /\ UNCHANGED <<rows, ado, launches, audit, crashes>>

\* The UPDATE by primary key, whatever the row holds by now.
ApproveCommit(s) ==
    LET d == job[s].dep
        u == job[s].user IN
    /\ job[s].pc = "approving"
    /\ rows' = [rows EXCEPT ![d] = [@ EXCEPT !.approval = "approved", !.approver = u]]
    /\ audit' = audit \cup {<<d, "approve", u>>}
    /\ job' = [job EXCEPT ![s] = Idle]
    /\ UNCHANGED <<ado, launches, crashes>>

\* reject_deployment: anyone, the requester included, may refuse.
RejectLoad(s, d, u) ==
    /\ job[s].pc = "idle"
    /\ rows[d].approval = "pending"
    /\ job' = [job EXCEPT ![s] = [Idle EXCEPT !.pc = "rejecting", !.dep = d,
                                              !.user = u]]
    /\ UNCHANGED <<rows, ado, launches, audit, crashes>>

\* ck_deployments_executed_only_when_approved: the UPDATE fails on a row that
\* has fired, and the transaction rolls back with its audit row.
NoExecutedCheck(row) == TRUE                              \* mutant: no constraint
ExecutedOnlyWhenApproved(row) == row.executed => row.approval = "approved"

RejectCommit(s) ==
    LET d == job[s].dep
        u == job[s].user
        rejected == [rows[d] EXCEPT !.approval = "rejected", !.approver = u] IN
    /\ job[s].pc = "rejecting"
    /\ \/ /\ ExecutedOnlyWhenApproved(rejected)
          /\ rows' = [rows EXCEPT ![d] = rejected]
          /\ audit' = audit \cup {<<d, "reject", u>>}
       \/ /\ ~ExecutedOnlyWhenApproved(rejected)
          /\ UNCHANGED <<rows, audit>>
    /\ job' = [job EXCEPT ![s] = Idle]
    /\ UNCHANGED <<ado, launches, crashes>>

-----------------------------------------------------------------------------
(* The executor: claim, call ADO with no transaction open, record.         *)

ClaimableAgain(row) == row.approval = "approved"          \* mutant: not one-shot
Claimable(row) == row.approval = "approved" /\ ~row.executed

\* claim_for_execution; an action the platform cannot perform skips the call.
Claim(s, d) ==
    /\ job[s].pc = "idle"
    /\ Claimable(rows[d])
    /\ rows' = [rows EXCEPT ![d] = [@ EXCEPT !.executed = TRUE, !.status = "running"]]
    /\ audit' = audit \cup {<<d, "execute", rows[d].approver>>}
    /\ job' = [job EXCEPT ![s] =
                 IF rows[d].action \in Performs
                 THEN [Idle EXCEPT !.pc = "calling", !.dep = d]
                 ELSE [Idle EXCEPT !.pc = "recording", !.dep = d,
                                   !.out = "error", !.detail = "not_performed"]]
    /\ UNCHANGED <<ado, launches, crashes>>

\* The job that goes on to record status `out`.
Recording(d, out, id, detail) ==
    [Idle EXCEPT !.pc = "recording", !.dep = d, !.out = out, !.id = id,
                 !.detail = detail]

\* ADO accepts the call: a queued run, or a pipeline definition.
AdoAccepts(d) ==
    /\ launches' = [launches EXCEPT ![d] = @ + 1]
    /\ ado' = [ado EXCEPT ![d] = IF rows[d].action = "create_pipeline"
                                 THEN "created" ELSE "active"]

\* A queued run has not succeeded: it is running.
QueuedIsSuccess(d) == "succeeded"                         \* mutant
AnsweredStatus(d) ==
    IF rows[d].action = "create_pipeline" THEN "succeeded" ELSE "running"

CallAnswered(s) ==
    LET d == job[s].dep IN
    /\ job[s].pc = "calling"
    /\ AdoAccepts(d)
    /\ job' = [job EXCEPT ![s] =
                 Recording(d, AnsweredStatus(d), TRUE, "none")]
    /\ UNCHANGED <<rows, audit, crashes>>

\* What the error branch writes when the call was, or may have been, sent.
SentDetail(d) ==
    IF rows[d].action = "run_pipeline" THEN "started_unknown" ELSE "nothing_sent"

\* Accepted by ADO, the reply lost.
CallReplyLost(s) ==
    LET d == job[s].dep IN
    /\ job[s].pc = "calling"
    /\ AdoAccepts(d)
    /\ job' = [job EXCEPT ![s] = Recording(d, "error", FALSE, SentDetail(d))]
    /\ UNCHANGED <<rows, audit, crashes>>

\* Sent and refused by ADO, or never delivered.
CallRefused(s) ==
    LET d == job[s].dep IN
    /\ job[s].pc = "calling"
    /\ job' = [job EXCEPT ![s] = Recording(d, "error", FALSE, SentDetail(d))]
    /\ UNCHANGED <<rows, ado, launches, audit, crashes>>

\* No credential, no grant or a bad argument: the request never left.
CallNeverSent(s) ==
    LET d == job[s].dep IN
    /\ job[s].pc = "calling"
    /\ job' = [job EXCEPT ![s] = Recording(d, "error", FALSE, "nothing_sent")]
    /\ UNCHANGED <<rows, ado, launches, audit, crashes>>

\* A known external id is kept when the new outcome brings none.
IdForgotten(known, new) == known                          \* mutant: id not saved
KeepsId(known, new) == known \/ new

\* record_outcome loads the row ...
RecordLoad(s) ==
    /\ job[s].pc = "recording"
    /\ job' = [job EXCEPT ![s] = [@ EXCEPT !.pc = "writing",
                                           !.seen = rows[job[s].dep].status]]
    /\ UNCHANGED <<rows, ado, launches, audit, crashes>>

\* ... and writes the columns whose value differs from the loaded one, over
\* whatever the row holds by now.  No status is protected.
Recorded(row, j) ==
    [row EXCEPT !.status = IF j.out = j.seen THEN @ ELSE j.out,
                !.followed = KeepsId(@, j.id),
                !.detail = j.detail]

RecordWrite(s) ==
    LET j == job[s] IN
    /\ j.pc = "writing"
    /\ rows' = [rows EXCEPT ![j.dep] = Recorded(@, j)]
    /\ job' = [job EXCEPT ![s] = Idle]
    /\ UNCHANGED <<ado, launches, audit, crashes>>

-----------------------------------------------------------------------------
(* refresh_status: read the row, ask ADO, record.                          *)

\* A finished deployment, or one with no external id, is left unchanged.
RefreshRead(s, d) ==
    /\ job[s].pc = "idle"
    /\ rows[d].status \notin TerminalStatus
    /\ rows[d].followed
    /\ job' = [job EXCEPT ![s] = [Idle EXCEPT !.pc = "polling", !.dep = d]]
    /\ UNCHANGED <<rows, ado, launches, audit, crashes>>

\* The status to record for a run as ADO reports it.
RawResult(run) == IF run = "active" THEN "running" ELSE run      \* mutant
UnfinishedIsFailed(run) ==                                       \* mutant
    IF run \in TerminalStatus THEN run ELSE "failed"
StatusOfRun(run) ==
    CASE run = "active" -> "running"
      [] run = "partially_succeeded" -> "failed"
      [] run \in TerminalStatus -> run
      [] OTHER -> "error"

RefreshPoll(s) ==
    LET d == job[s].dep IN
    /\ job[s].pc = "polling"
    /\ job' = [job EXCEPT ![s] = Recording(d, StatusOfRun(ado[d]), FALSE, "none")]
    /\ UNCHANGED <<rows, ado, launches, audit, crashes>>

\* The read failed: that is not a failed deployment, nothing is written.
RefreshUnreadable(s) ==
    /\ job[s].pc = "polling"
    /\ job' = [job EXCEPT ![s] = Idle]
    /\ UNCHANGED <<rows, ado, launches, audit, crashes>>

-----------------------------------------------------------------------------
(* The environment.                                                        *)

AdoFinishes(d, r) ==
    /\ ado[d] = "active"
    /\ ado' = [ado EXCEPT ![d] = r]
    /\ UNCHANGED <<rows, job, launches, audit, crashes>>

\* The process dies or the request is cancelled: its open transaction rolls
\* back; what it committed, and what ADO accepted, stays.
Crash(s) ==
    /\ job[s].pc # "idle"
    /\ crashes < MaxCrashes
    /\ crashes' = crashes + 1
    /\ job' = [job EXCEPT ![s] = Idle]
    /\ UNCHANGED <<rows, ado, launches, audit>>

-----------------------------------------------------------------------------
\* The steps a request takes by itself once it is under way.
Continue(s) ==
    \/ ApproveCommit(s)
    \/ RejectCommit(s)
    \/ CallAnswered(s)
    \/ CallReplyLost(s)
    \/ CallRefused(s)
    \/ CallNeverSent(s)
    \/ RecordLoad(s)
    \/ RecordWrite(s)
    \/ RefreshPoll(s)
    \/ RefreshUnreadable(s)

\* The steps somebody has to ask for.
Arrive(s, d) ==
    \/ \E u \in Users : ApproveLoad(s, d, u) \/ RejectLoad(s, d, u)
    \/ Claim(s, d)
    \/ RefreshRead(s, d)

Next ==
    \/ \E d \in Deployments, u \in Users, a \in GatedActions : RequestDeployment(d, u, a)
    \/ \E s \in Sessions, d \in Deployments : Arrive(s, d)
    \/ \E s \in Sessions : Continue(s) \/ Crash(s)
    \/ \E d \in Deployments, r \in RunResults : AdoFinishes(d, r)

Spec == Init /\ [][Next]_vars

\* A request under way is driven by the event loop, and every ADO call has a
\* timeout, so it goes on; nobody is obliged to ask for anything.
FairSpec == Spec /\ \A s \in Sessions : WF_vars(Continue(s))

-----------------------------------------------------------------------------
(* Properties.                                                             *)

\* deployment_gate.py, ONE APPROVAL, ONE DEPLOYMENT: however many requests race
\* to execute a deployment, crash or lose a reply, ADO starts it at most once.
LaunchedAtMostOnce == \A d \in Deployments : launches[d] <= 1

\* Whatever has been fired, or is in ADO, was signed for by somebody other than
\* the person who asked, and that approval still stands.
FiredUnderFourEyes ==
    \A d \in Deployments :
        rows[d].executed \/ launches[d] > 0 =>
            /\ rows[d].executed
            /\ rows[d].approval = "approved"
            /\ rows[d].approver \in Users \ {rows[d].requester}
            /\ <<d, "approve", rows[d].approver>> \in audit

\* What ADO must hold for a reported status, and for the recorded detail.
VerdictIsTrue(status, d) ==
    /\ status = "succeeded" => ado[d] \in {"succeeded", "created"}
    /\ status = "failed" => ado[d] \in {"failed", "partially_succeeded"}
    /\ status = "canceled" => ado[d] = "canceled"
DetailIsTrue(detail, d) ==
    /\ detail = "not_performed" => launches[d] = 0
    /\ detail = "nothing_sent" /\ rows[d].action = "run_pipeline" => launches[d] = 0

\* A deployment is reported succeeded, failed or canceled only when Azure DevOps
\* says so, and "cannot perform" or "nothing was sent" for a run only when no
\* run was started.
HonestOutcome ==
    \A d \in Deployments :
        /\ VerdictIsTrue(rows[d].status, d)
        /\ DetailIsTrue(rows[d].detail, d)

\* A row that says "running" with no external id cannot be followed and is never
\* refreshed: unless a request died, somebody is still executing it.
UnfollowedIsInFlight ==
    \A d \in Deployments :
        rows[d].status = "running" /\ ~rows[d].followed /\ crashes = 0 =>
            \E s \in Sessions :
                job[s].dep = d /\ job[s].pc \in {"calling", "recording", "writing"}

\* Once a deployment has fired, its decision can no longer be overturned and it
\* stays fired; the external id, once known, is never lost.
SpentStaysSpent ==
    [][\A d \in Deployments :
          rows[d].executed =>
              /\ rows'[d].executed
              /\ rows'[d].approval = "approved"
              /\ rows[d].followed => rows'[d].followed]_vars

\* Late answers and overlapping refreshes may send a finished deployment back to
\* "running", but never from one verdict to another.
VerdictNeverContradicted ==
    [][\A d \in Deployments :
          /\ rows[d].status \in TerminalStatus
          /\ rows'[d].status \in TerminalStatus
          => rows'[d].status = rows[d].status]_vars

\* As long as no request has crashed every claimed deployment is followed up:
\* its external id or an error is recorded.
ClaimIsResolved ==
    \A d \in Deployments :
        rows[d].executed ~> \/ rows[d].followed \/ rows[d].status = "error"
                            \/ crashes > 0

\* Every behaviour of the gate is a behaviour of a one-shot ticket.
TicketOf(row) ==
    IF row.executed THEN "spent"
    ELSE IF row.approval = "absent" THEN "none" ELSE row.approval

Ticket == INSTANCE ExecutionTicket
            WITH Tickets <- Deployments,
                 state <- [d \in Deployments |-> TicketOf(rows[d])],
                 fired <- launches

ImplementsTicket == Ticket!Spec

\* The gate's rule "a second decision: an approved or rejected deployment is
\* closed", which the module says the database enforces too.
DecisionIsClosed ==
    [][\A d \in Deployments :
          rows[d].approval \in {"approved", "rejected"} =>
              rows'[d].approval = rows[d].approval]_vars

\* approve_deployment's comment: a second person approving an already approved
\* row does not rewrite who signed for it.
SignatureIsKept ==
    [][\A d \in Deployments :
          rows[d].approval = "approved" /\ rows'[d].approval = "approved" =>
              rows'[d].approver = rows[d].approver]_vars

\* The recorded advice "Nothing was sent, so nothing has been deployed" is true.
NothingSentIsTrue ==
    \A d \in Deployments : rows[d].detail = "nothing_sent" => launches[d] = 0

-----------------------------------------------------------------------------
(* The inductive invariant behind LaunchedAtMostOnce and FiredUnderFourEyes. *)

\* Every request works on a filed row; a decision names who takes it, and no
\* approval under way is the requester's own.
JobsAreBound ==
    \A s \in Sessions : job[s].pc # "idle" =>
        /\ job[s].dep \in Deployments
        /\ rows[job[s].dep].approval # "absent"
        /\ job[s].pc \in {"approving", "rejecting"} => job[s].user \in Users
        /\ job[s].pc = "approving" => job[s].user # rows[job[s].dep].requester

\* An approved row is signed by somebody else, and the audit says so.
SignedByAnother ==
    \A d \in Deployments : rows[d].approval = "approved" =>
        /\ rows[d].approver \in Users \ {rows[d].requester}
        /\ <<d, "approve", rows[d].approver>> \in audit

\* The approval of a spent row stands; an unspent one has started nothing, and
\* only a filed row can have an external id.
SpentIsApproved ==
    \A d \in Deployments :
        /\ rows[d].executed => rows[d].approval = "approved"
        /\ ~rows[d].executed => launches[d] = 0
        /\ rows[d].followed => rows[d].approval # "absent"

\* The claim makes its request the only caller, and the first.
OneCaller ==
    \A s \in Sessions : job[s].pc = "calling" =>
        /\ rows[job[s].dep].executed
        /\ launches[job[s].dep] = 0
        /\ \A t \in Sessions : job[t].pc = "calling" /\ job[t].dep = job[s].dep => t = s

GateInv ==
    /\ TypeOK
    /\ JobsAreBound
    /\ SignedByAnother
    /\ SpentIsApproved
    /\ OneCaller
    /\ LaunchedAtMostOnce

(* What HonestOutcome and UnfollowedIsInFlight need besides.               *)

\* ADO holds something for a deployment exactly when it accepted a call.
AdoHoldsLaunched == \A d \in Deployments : launches[d] = 0 <=> ado[d] = "absent"

\* A row nobody has claimed reports nothing.
UnclaimedIsBlank ==
    \A d \in Deployments : ~rows[d].executed =>
        rows[d].status = "not_started" /\ ~rows[d].followed /\ rows[d].detail = "none"

\* Requests that call ADO or read from it, and will record what they learn.
FollowsUp(s, d) ==
    job[s].dep = d /\ job[s].pc \in {"calling", "polling", "recording", "writing"}

\* Until its external id is known, a claimed row has one such request, the one
\* that claimed it, and no outcome but the one this request will write.
OnlyTheClaimant ==
    \A d \in Deployments, s \in Sessions : FollowsUp(s, d) =>
        /\ rows[d].executed
        /\ ~rows[d].followed =>
              /\ \A t \in Sessions : FollowsUp(t, d) => t = s
              /\ job[s].pc # "polling"
              /\ job[s].pc \in {"recording", "writing"} => job[s].id \/ job[s].out = "error"
              /\ job[s].pc = "writing" => job[s].seen = rows[d].status
        /\ job[s].pc = "calling" => ~rows[d].followed /\ rows[d].detail = "none"

\* What a request is about to record is true already, and stays so.
RecordsTheTruth ==
    \A d \in Deployments, s \in Sessions :
        FollowsUp(s, d) /\ job[s].pc \in {"recording", "writing"} =>
            VerdictIsTrue(job[s].out, d) /\ DetailIsTrue(job[s].detail, d)

OutcomeInv ==
    /\ AdoHoldsLaunched
    /\ UnclaimedIsBlank
    /\ OnlyTheClaimant
    /\ RecordsTheTruth
    /\ HonestOutcome
    /\ UnfollowedIsInFlight

=============================================================================
