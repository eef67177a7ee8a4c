------------------------ MODULE GovernanceRequests -------------------------
(***************************************************************************)
(* Governance requests: raised, routed, decided, escalated and withdrawn.  *)
(* backend/shared/services/governance_requests.py, governance/routing.py   *)
(* and the effects of governance/effects.py that grant something.          *)
(*                                                                         *)
(* One project.  Every operation reads the request, judges the copy, and   *)
(* then issues an UPDATE guarded by "still open", which takes the row lock *)
(* until the transaction ends; reads see committed rows only.              *)
(***************************************************************************)
EXTENDS Integers, Sequences, FiniteSets

CONSTANTS
    People,         \* everybody who raises or decides
    DeliveryRoles,  \* the roles below the governance ladder
    Role,           \* Role[u]: the platform role u holds
    InScope,        \* those whose binding covers this project and its unit
    Targets,        \* agents and models that can be asked for
    Owner,          \* Owner[t]: the role that owns t; None where t names no agent
    Requests,       \* bound: requests that may be raised
    Types,          \* the request types raised
    Names,          \* Names[k]: what a request of type k may name
    Sessions,       \* concurrent HTTP requests
    Project,        \* the project, holder of a model selection
    None            \* NULL

Ladder == <<"project_admin", "bu_admin", "org_admin">>

Tiers == {"project_admin", "bu_admin", "org_admin"}

Roles == DeliveryRoles \cup Tiers

RequestTypes == {"agent_access", "model_credential", "artifact_consumption",
                 "role_assignment", "other"}

ASSUME RolesAssumption ==
    /\ DeliveryRoles \cap Tiers = {}
    /\ Role \in [People -> Roles]
    /\ Owner \in [Targets -> DeliveryRoles \cup {"project_admin", None}]
    /\ InScope \subseteq People
ASSUME TypesAssumption ==
    /\ Types \subseteq RequestTypes
    /\ Names \in [Types -> SUBSET Targets]
ASSUME NoneAssumption ==
    /\ Project \notin People
    /\ None \notin People \cup Targets \cup Requests \cup Roles \cup Sessions
                   \cup RequestTypes

VARIABLES
    req,       \* req[r]: governance_requests
    timeline,  \* governance_request_events, as far as rules mention them
    lock,      \* lock[r]: session whose transaction has updated r's row
    grants,    \* grants[h]: agents (of a person) or models (of the project)
    job        \* job[s]: the operation session s is performing

vars == <<req, timeline, lock, grants, job>>

Open == {"submitted", "pending_review", "escalated"}

Holders == People \cup {Project}

Request == [status : Open \cup {"absent", "approved", "rejected", "cancelled"},
            type : Types \cup {None},
            target : Targets \cup {None},
            by : People \cup {None},
            approver : Roles \cup {None},
            stage : {"project_admin", "agent_owner", None},
            escalations : Nat]

Absent == [status |-> "absent", type |-> None, target |-> None, by |-> None,
           approver |-> None, stage |-> None, escalations |-> 0]

Answers == {"advanced", "approved", "rejected"}

Event == [request : Requests,
          kind : Answers \cup {"assigned", "cancelled"},
          actor : People]

Job == [pc : {"idle", "advancing", "closing", "reading", "writing", "committing",
              "escalating", "cancelling", "completing"},
        actor : People \cup {None},
        request : Requests \cup {None},
        verdict : {"approved", "rejected", None},
        to : Roles \cup {None},
        seen : SUBSET Targets]

Idle == [pc |-> "idle", actor |-> None, request |-> None, verdict |-> None,
         to |-> None, seen |-> {}]

\* The second conjunct is ck_governance_request_approver_when_open: an open
\* request waits on somebody, a closed one on nobody.
TypeOK ==
    /\ req \in [Requests -> Request]
    /\ \A r \in Requests : req[r].status \in Open <=> req[r].approver # None
    /\ timeline \subseteq Event
    /\ lock \in [Requests -> Sessions \cup {None}]
    /\ grants \in [Holders -> SUBSET Targets]
    /\ job \in [Sessions -> Job]

Init ==
    /\ req = [r \in Requests |-> Absent]
    /\ timeline = {}
    /\ lock = [r \in Requests |-> None]
    /\ grants = [h \in Holders |-> {}]
    /\ job = [s \in Sessions |-> Idle]

-----------------------------------------------------------------------------
(* Routing.                                                                *)

\* Everybody off the ladder enters it at the bottom.
NextApprover(role) ==
    CASE role = "org_admin"     -> None
      [] role = "bu_admin"      -> "org_admin"
      [] role = "project_admin" -> "bu_admin"
      [] OTHER                  -> "project_admin"

MayRaise(role, type) ==
    CASE type = "agent_access"     -> role \in DeliveryRoles
      [] type = "model_credential" -> role \in DeliveryRoles \cup {"project_admin"}
      [] type = "role_assignment"  -> role = "org_admin"
      [] type = "other"            -> role # "org_admin"
      [] OTHER                     -> TRUE

InitialApprover(type, role, target) ==
    CASE type = "agent_access"         -> "project_admin"
      [] type = "artifact_consumption" -> Owner[target]
      [] type = "role_assignment"      -> "bu_admin"
      [] OTHER                         -> NextApprover(role)

Ceiling(role) == IF role \in Tiers THEN "org_admin" ELSE "project_admin"

\* An agent is asked for twice, unless the Project Admin owns it or the phase
\* that came with the request names no agent: nothing validates it.
TwoStages(q) ==
    q.type = "agent_access" /\ Owner[q.target] \notin {"project_admin", None}

AlwaysClimbs(current, requesterRole) == TRUE                 \* mutant: no ceiling
CanEscalate(current, requesterRole) ==
    /\ current # Ceiling(requesterRole)
    /\ NextApprover(current) # None

-----------------------------------------------------------------------------
NeverClosed(r) == req[r].status # "absent"                   \* mutant: no status guard
StillOpen(r) == req[r].status \in Open

\* An UPDATE of r waits for the transaction that has already updated it.
Free(r) == lock[r] = None

Goto(s, j) == job' = [job EXCEPT ![s] = j]

Finish(s) == Goto(s, Idle)

Record(r, kind, u) ==
    timeline' = timeline \cup {[request |-> r, kind |-> kind, actor |-> u]}

\* A decided or withdrawn request waits on nobody.
Shut(r, status) ==
    req' = [req EXCEPT ![r] = [@ EXCEPT !.status = status, !.approver = None,
                                        !.stage = None]]

Create(r, u, type, target) ==
    /\ req[r].status = "absent"
    /\ MayRaise(Role[u], type)
    /\ target \in Names[type]
    /\ type = "artifact_consumption" => Owner[target] # None
    /\ req' = [req EXCEPT ![r] =
                 [status |-> "submitted", type |-> type, target |-> target, by |-> u,
                  approver |-> InitialApprover(type, Role[u], target),
                  stage |-> IF type = "agent_access" THEN "project_admin" ELSE None,
                  escalations |-> 0]]
    /\ UNCHANGED <<timeline, lock, grants, job>>

-----------------------------------------------------------------------------
(* decide().                                                               *)

\* decider_covers_scope: an Organization Admin covers everything.
Covers(u) == Role[u] = "org_admin" \/ u \in InScope

AnyRoleDecides(u, r) ==                                      \* mutant: self-approval
    /\ Role[u] = req[r].approver
    /\ Covers(u)
MayDecide(u, r) ==
    /\ u # req[r].by
    /\ Role[u] = req[r].approver
    /\ Covers(u)

NoStages(r) == FALSE                                         \* mutant: one stage
AtStageOne(r) == TwoStages(req[r]) /\ req[r].stage = "project_admin"

DecideLoad(s, u, r, verdict) ==
    /\ job[s].pc = "idle"
    /\ StillOpen(r)
    /\ MayDecide(u, r)
    /\ Goto(s, [Idle EXCEPT
                  !.pc = IF verdict = "approved" /\ AtStageOne(r)
                         THEN "advancing" ELSE "closing",
                  !.actor = u, !.request = r, !.verdict = verdict])
    /\ UNCHANGED <<req, timeline, lock, grants>>

\* Stage one says yes: the agent's owner decides next.
Advance(s) ==
    LET j == job[s]
        r == job[s].request IN
    /\ j.pc = "advancing"
    /\ Free(r)
    /\ StillOpen(r)
    /\ req' = [req EXCEPT ![r] =
                 [@ EXCEPT !.status = "pending_review", !.stage = "agent_owner",
                           !.approver = Owner[req[r].target]]]
    /\ Record(r, "advanced", j.actor)
    /\ Finish(s)
    /\ UNCHANGED <<lock, grants>>

\* What approving r would grant.
Grants(r) == req[r].type \in {"agent_access", "model_credential"}

\* A rejection, or an approval that grants nothing here: one UPDATE and commit.
Close(s) ==
    LET j == job[s]
        r == job[s].request IN
    /\ j.pc = "closing"
    /\ Free(r)
    /\ StillOpen(r)
    /\ j.verdict = "rejected" \/ (~Grants(r) /\ req[r].type # "role_assignment")
    /\ Shut(r, j.verdict)
    /\ Record(r, j.verdict, j.actor)
    /\ Finish(s)
    /\ UNCHANGED <<lock, grants>>

\* The guarded UPDATE of an approval with an effect, not yet committed.
CloseAndApply(s) ==
    LET j == job[s]
        r == job[s].request IN
    /\ j.pc = "closing"
    /\ Free(r)
    /\ StillOpen(r)
    /\ j.verdict = "approved"
    /\ Grants(r)
    /\ lock' = [lock EXCEPT ![r] = s]
    /\ Goto(s, [j EXCEPT !.pc = "reading"])
    /\ UNCHANGED <<req, timeline, grants>>

\* A role assignment closes by assigning a role, never by approving.
CloseHollow(s) ==
    LET j == job[s]
        r == job[s].request IN
    /\ j.pc = "closing"
    /\ Free(r)
    /\ StillOpen(r)
    /\ j.verdict = "approved"
    /\ req[r].type = "role_assignment"
    /\ Finish(s)
    /\ UNCHANGED <<req, timeline, lock, grants>>

\* No row is updated: AlreadyClosed, whatever the operation was.
LostRace(s) ==
    /\ job[s].pc \in {"advancing", "closing", "escalating", "cancelling", "completing"}
    /\ Free(job[s].request)
    /\ ~StillOpen(job[s].request)
    /\ Finish(s)
    /\ UNCHANGED <<req, timeline, lock, grants>>

Holder(r) == IF req[r].type = "agent_access" THEN req[r].by ELSE Project

\* SELECT extra_agents, or get_project_selection.
ReadGrants(s) ==
    LET j == job[s] IN
    /\ j.pc = "reading"
    /\ Goto(s, [j EXCEPT !.pc = "writing", !.seen = grants[Holder(j.request)]])
    /\ UNCHANGED <<req, timeline, lock, grants>>

\* The requester has left the project, or the unit does not allow the model:
\* the approval is refused and rolled back.
EffectUnavailable(s) ==
    /\ job[s].pc = "reading"
    /\ lock' = [lock EXCEPT ![job[s].request] = None]
    /\ Finish(s)
    /\ UNCHANGED <<req, timeline, grants>>

\* The whole list is written back; a target already in it is not.
WriteBack(r, seen) ==
    grants' = IF req[r].target \in seen
              THEN grants
              ELSE [grants EXCEPT ![Holder(r)] = seen \cup {req[r].target}]

\* agent_access writes in the transaction of the decision.
GrantAgent(s) ==
    LET j == job[s]
        r == job[s].request IN
    /\ j.pc = "writing"
    /\ req[r].type = "agent_access"
    /\ WriteBack(r, j.seen)
    /\ Shut(r, "approved")
    /\ Record(r, "approved", j.actor)
    /\ lock' = [lock EXCEPT ![r] = None]
    /\ Finish(s)

\* set_project_selection commits in a session of its own.
SelectModel(s) ==
    LET j == job[s]
        r == job[s].request IN
    /\ j.pc = "writing"
    /\ req[r].type = "model_credential"
    /\ WriteBack(r, j.seen)
    /\ Goto(s, [j EXCEPT !.pc = "committing"])
    /\ UNCHANGED <<req, timeline, lock>>

CommitDecision(s) ==
    LET j == job[s]
        r == job[s].request IN
    /\ j.pc = "committing"
    /\ Shut(r, "approved")
    /\ Record(r, "approved", j.actor)
    /\ lock' = [lock EXCEPT ![r] = None]
    /\ Finish(s)
    /\ UNCHANGED grants

-----------------------------------------------------------------------------
(* escalate(), cancel(), complete_role_assignment().                       *)

EscalateLoad(s, u, r) ==
    /\ job[s].pc = "idle"
    /\ StillOpen(r)
    /\ u = req[r].by \/ Role[u] = req[r].approver
    /\ CanEscalate(req[r].approver, Role[req[r].by])
    /\ Goto(s, [Idle EXCEPT !.pc = "escalating", !.actor = u, !.request = r,
                            !.to = NextApprover(req[r].approver)])
    /\ UNCHANGED <<req, timeline, lock, grants>>

Escalate(s) ==
    LET j == job[s]
        r == job[s].request IN
    /\ j.pc = "escalating"
    /\ Free(r)
    /\ StillOpen(r)
    /\ req' = [req EXCEPT ![r] =
                 [@ EXCEPT !.status = "escalated", !.approver = j.to,
                           !.escalations = req[r].escalations + 1]]
    /\ Finish(s)
    /\ UNCHANGED <<timeline, lock, grants>>

CancelLoad(s, u, r) ==
    /\ job[s].pc = "idle"
    /\ StillOpen(r)
    /\ u = req[r].by
    /\ Goto(s, [Idle EXCEPT !.pc = "cancelling", !.actor = u, !.request = r])
    /\ UNCHANGED <<req, timeline, lock, grants>>

Cancel(s) ==
    LET r == job[s].request IN
    /\ job[s].pc = "cancelling"
    /\ Free(r)
    /\ StillOpen(r)
    /\ Shut(r, "cancelled")
    /\ Record(r, "cancelled", job[s].actor)
    /\ Finish(s)
    /\ UNCHANGED <<lock, grants>>

\* An admin has just given the waiting person a role.
Clerks == {u \in People : Role[u] \in {"bu_admin", "org_admin"}}

\* Mutant of CompleteLoad: the newest open request, whatever it asks for.
CompleteAny(s, u, r) ==
    /\ job[s].pc = "idle"
    /\ StillOpen(r)
    /\ u \in Clerks
    /\ Goto(s, [Idle EXCEPT !.pc = "completing", !.actor = u, !.request = r])
    /\ UNCHANGED <<req, timeline, lock, grants>>

CompleteLoad(s, u, r) ==
    /\ job[s].pc = "idle"
    /\ StillOpen(r)
    /\ req[r].type = "role_assignment"
    /\ u \in Clerks
    /\ Goto(s, [Idle EXCEPT !.pc = "completing", !.actor = u, !.request = r])
    /\ UNCHANGED <<req, timeline, lock, grants>>

Complete(s) ==
    LET r == job[s].request IN
    /\ job[s].pc = "completing"
    /\ Free(r)
    /\ StillOpen(r)
    /\ Shut(r, "approved")
    /\ Record(r, "assigned", job[s].actor)
    /\ Finish(s)
    /\ UNCHANGED <<lock, grants>>

\* The process dies or the request is cancelled: the transaction rolls back.
Abort(s) ==
    /\ job[s].pc # "idle"
    /\ lock' = [r \in Requests |-> IF lock[r] = s THEN None ELSE lock[r]]
    /\ Finish(s)
    /\ UNCHANGED <<req, timeline, grants>>

-----------------------------------------------------------------------------
Load(s, u, r) ==
    \/ \E verdict \in {"approved", "rejected"} : DecideLoad(s, u, r, verdict)
    \/ EscalateLoad(s, u, r)
    \/ CancelLoad(s, u, r)
    \/ CompleteLoad(s, u, r)

Decide(s) ==
    \/ Advance(s)
    \/ Close(s)
    \/ CloseAndApply(s)
    \/ CloseHollow(s)
    \/ LostRace(s)
    \/ ReadGrants(s)
    \/ EffectUnavailable(s)
    \/ GrantAgent(s)
    \/ SelectModel(s)
    \/ CommitDecision(s)

Next ==
    \/ \E r \in Requests, u \in People, type \in Types, target \in Targets :
           Create(r, u, type, target)
    \/ \E s \in Sessions, u \in People, r \in Requests : Load(s, u, r)
    \/ \E s \in Sessions :
           Decide(s) \/ Escalate(s) \/ Cancel(s) \/ Complete(s) \/ Abort(s)

Spec == Init /\ [][Next]_vars

-----------------------------------------------------------------------------
(* Properties.                                                             *)

Verdicts(r) == {e \in timeline : e.request = r /\ e.kind \in Answers}

\* Rule 1: nobody answers a request of their own, at whichever tier and stage
\* it has arrived; and whoever answers it governs this project.
NoSelfApproval ==
    \A e \in timeline : e.kind \in Answers =>
        /\ e.actor # req[e.request].by
        /\ Covers(e.actor)

\* However decisions, withdrawals and escalations race, the first to commit is
\* the outcome for good.
ClosedStays ==
    [][\A r \in Requests :
          req[r].status \notin Open \cup {"absent"} => req'[r] = req[r]]_vars

\* A person holds an extra agent only by an approved request of theirs for it,
\* and where another than the Project Admin owns the agent no such request was
\* approved before the Project Admin's stage.
GrantsAreApproved ==
    /\ \A u \in People : \A t \in grants[u] : \E r \in Requests :
          req[r].type = "agent_access" /\ req[r].status = "approved"
            /\ req[r].by = u /\ req[r].target = t
    /\ \A r \in Requests :
          TwoStages(req[r]) /\ req[r].status = "approved" =>
              \E e \in timeline : e.request = r /\ e.kind = "advanced"

\* Rule 3: a contributor's ask never lands in front of anybody above their
\* Project Admin, and the Organization Admin's queue is the last.
StopsAtCeiling ==
    \A r \in Requests :
        StillOpen(r) /\ Role[req[r].by] \in DeliveryRoles =>
            req[r].approver \in DeliveryRoles \cup {"project_admin"}

\* Rule 2: only the current approver decides.
CurrentApproverDecides ==
    [][\A e \in timeline' \ timeline :
          e.kind \in Answers => Role[e.actor] = req[e.request].approver]_vars

\* Rule 4: an approval takes effect, so an approved grant is held.
ApprovalTookEffect ==
    \A r \in Requests :
        req[r].status = "approved" /\ Grants(r) => req[r].target \in grants[Holder(r)]

\* agent_access "is answered twice, by two people asking different questions",
\* where the request names an agent that somebody else owns.
AnsweredByTwoPeople ==
    \A r \in Requests :
        TwoStages(req[r]) /\ req[r].status = "approved" =>
            Cardinality({e.actor : e \in Verdicts(r)}) >= 2

\* The escalation count shown is the number of tiers climbed.
CountIsTiersClimbed ==
    \A r \in Requests :
        req[r].type = "other" /\ StillOpen(r) =>
            \E i, k \in 1 .. 3 :
                /\ Ladder[i] = InitialApprover("other", Role[req[r].by], req[r].target)
                /\ Ladder[k] = req[r].approver
                /\ req[r].escalations = k - i

DocketOf(q) ==
    [state |-> IF q.status \in Open THEN "open" ELSE q.status,
     kind |-> IF TwoStages(q) THEN "owned_agent" ELSE q.type,
     author |-> q.by]

Petitions == INSTANCE Petition
               WITH Petitions <- Requests,
                    Kinds <- Types \cup {"owned_agent"},
                    Twice <- {"owned_agent"},
                    Arranged <- {"role_assignment"},
                    Nothing <- None,
                    docket <- [r \in Requests |-> DocketOf(req[r])],
                    said <- {<<e.request, e.kind, e.actor>> : e \in timeline}

\* A request is a petition: whatever copies the deciders, the requester and the
\* assigner of a role went by, it is closed once, each answer is by another
\* than who asked, an agent with an owner is approved only after it was passed
\* on, only who asked withdraws it, and only a role's assignment approves a role's request.
ImplementsPetition == Petitions!Spec

-----------------------------------------------------------------------------
(* The inductive invariant: what a loaded operation still knows of its     *)
(* request when it comes to write.                                         *)

\* Operations that have updated the row and hold its lock until they commit.
Holding == {"reading", "writing", "committing"}

Deciding == {"advancing", "closing"} \cup Holding

WasAdvanced(r) == \E e \in timeline : e.request = r /\ e.kind = "advanced"

ApprovedFor(u, t) ==
    \E r \in Requests : /\ req[r].type = "agent_access" /\ req[r].status = "approved"
                        /\ req[r].by = u /\ req[r].target = t

\* A request that exists has everything it was raised with; one that has two
\* stages and is past the first was advanced.
RaisedInFull ==
    \A r \in Requests : req[r].status # "absent" =>
        /\ req[r].type \in Types /\ req[r].target \in Targets /\ req[r].by \in People
        /\ TwoStages(req[r]) /\ StillOpen(r) /\ req[r].stage # "project_admin" =>
               WasAdvanced(r)

EventsNameRequests == \A e \in timeline : req[e.request].status # "absent"

\* Whatever was judged on the copy and cannot change under it.
JudgedOf(s) ==
    LET j == job[s]
        r == job[s].request IN
    /\ j.actor \in People /\ r \in Requests /\ req[r].status # "absent"
    /\ j.pc \in Deciding => j.actor # req[r].by /\ Covers(j.actor)
    /\ j.pc = "advancing" => TwoStages(req[r])
    /\ j.pc = "closing" => j.verdict \in {"approved", "rejected"}
    /\ j.pc = "cancelling" => j.actor = req[r].by
    /\ j.pc = "completing" => req[r].type = "role_assignment" /\ j.actor \in Clerks
    /\ j.pc = "closing" /\ j.verdict = "approved" /\ TwoStages(req[r]) =>
           WasAdvanced(r)

\* Who holds the row decides an open request, and only approvals hold it.
HoldsRow(s) ==
    LET j == job[s]
        r == job[s].request IN
    j.pc \in Holding =>
        /\ lock[r] = s /\ StillOpen(r) /\ Grants(r)
        /\ TwoStages(req[r]) => WasAdvanced(r)
        /\ j.pc = "writing" /\ req[r].type = "agent_access" =>
               \A t \in j.seen : ApprovedFor(req[r].by, t)
        /\ j.pc = "committing" => req[r].type = "model_credential"

\* However stale, an escalation climbs to a tier its requester may reach.
ClimbsWithin(s) ==
    LET j == job[s] IN
    j.pc = "escalating" =>
        /\ j.to \in Roles
        /\ Role[req[j.request].by] \in DeliveryRoles => j.to = "project_admin"

JobsAreJudged ==
    \A s \in Sessions : job[s].pc # "idle" => JudgedOf(s) /\ HoldsRow(s) /\ ClimbsWithin(s)

GovernanceInv ==
    /\ TypeOK /\ NoSelfApproval /\ StopsAtCeiling /\ GrantsAreApproved
    /\ RaisedInFull /\ EventsNameRequests /\ JobsAreJudged

=============================================================================
