---------------------- MODULE GovernanceRequestsProofs ----------------------
(***************************************************************************)
(* Proofs about GovernanceRequests for any people, roles, targets,         *)
(* requests and sessions: nobody answers their own request, the first      *)
(* outcome to commit is final, a contributor's ask stays below the ladder  *)
(* and what a person holds was approved in both stages.                    *)
(***************************************************************************)
EXTENDS GovernanceRequests, TLAPS

USE RolesAssumption, TypesAssumption, NoneAssumption

LEMMA RoleOfPerson ==
    ASSUME NEW u \in People
    PROVE  Role[u] \in Roles /\ Role[u] # None
BY DEF Roles

\* Who owns a target is below the ladder or the Project Admin, and who is asked
\* second is below it.
LEMMA OwnerIsBelowTheLadder ==
    ASSUME NEW t \in Targets, Owner[t] # None
    PROVE  /\ Owner[t] \in DeliveryRoles \cup {"project_admin"}
           /\ Owner[t] \in Roles
           /\ Owner[t] # "project_admin" => Owner[t] \in DeliveryRoles
BY DEF Roles, Tiers

(* Routing.                                                                *)

\* One tier up is on the ladder, unless there is none.
LEMMA NextIsHigher ==
    ASSUME NEW role \in Roles
    PROVE  /\ NextApprover(role) \in Tiers \cup {None}
           /\ role # "org_admin" => NextApprover(role) \in Roles
           /\ role \in DeliveryRoles => NextApprover(role) = "project_admin"
           /\ role = "project_admin" => NextApprover(role) = "bu_admin"
<1>1. CASE role = "org_admin"
  BY <1>1 DEF NextApprover, Roles, Tiers
<1>2. CASE role = "bu_admin"
  BY <1>2 DEF NextApprover, Roles, Tiers
<1>3. CASE role = "project_admin"
  BY <1>3 DEF NextApprover, Roles, Tiers
<1>4. CASE role \in DeliveryRoles
  <2>1. role \notin {"org_admin", "bu_admin", "project_admin"}
    BY <1>4 DEF Tiers
  <2> QED BY <1>4, <2>1 DEF NextApprover, Roles, Tiers
<1> QED BY <1>1, <1>2, <1>3, <1>4 DEF Roles, Tiers

\* Whoever may raise a request has somebody to answer it, and a contributor's
\* answer comes from below the ladder or from the Project Admin.
LEMMA FirstApprover ==
    ASSUME NEW u \in People, NEW type \in RequestTypes, NEW target \in Targets,
           MayRaise(Role[u], type),
           type = "artifact_consumption" => Owner[target] # None
    PROVE  /\ InitialApprover(type, Role[u], target) \in Roles
           /\ Role[u] \in DeliveryRoles =>
                  InitialApprover(type, Role[u], target) \in DeliveryRoles \cup {"project_admin"}
<1>1. Role[u] \in Roles
  BY RoleOfPerson
<1>2. CASE type = "agent_access"
  BY <1>2 DEF InitialApprover, Roles, Tiers
<1>3. CASE type = "artifact_consumption"
  BY <1>3, OwnerIsBelowTheLadder DEF InitialApprover
<1>4. CASE type = "role_assignment"
  BY <1>4 DEF InitialApprover, MayRaise, Roles, Tiers
<1>5. CASE type = "model_credential"
  <2>1. Role[u] # "org_admin"
    BY <1>5 DEF MayRaise, Tiers
  <2>2. InitialApprover(type, Role[u], target) = NextApprover(Role[u])
    BY <1>5 DEF InitialApprover
  <2> QED BY <1>1, <2>1, <2>2, NextIsHigher
<1>6. CASE type = "other"
  <2>1. Role[u] # "org_admin"
    BY <1>6 DEF MayRaise
  <2>2. InitialApprover(type, Role[u], target) = NextApprover(Role[u])
    BY <1>6 DEF InitialApprover
  <2> QED BY <1>1, <2>1, <2>2, NextIsHigher
<1> QED BY <1>2, <1>3, <1>4, <1>5, <1>6 DEF RequestTypes

\* What may be escalated has a tier to go to, the Project Admin's for a
\* contributor whose request is below it.
LEMMA EscalationTarget ==
    ASSUME NEW current \in Roles, NEW role \in Roles, CanEscalate(current, role)
    PROVE  /\ NextApprover(current) \in Roles
           /\ role \in DeliveryRoles /\ current \in DeliveryRoles \cup {"project_admin"} =>
                  NextApprover(current) = "project_admin"
<1>1. NextApprover(current) # None
  BY DEF CanEscalate
<1>2. role \in DeliveryRoles => current # "project_admin"
  BY DEF CanEscalate, Ceiling
<1> QED BY <1>1, <1>2, NextIsHigher DEF Roles

-----------------------------------------------------------------------------
(* What one step does to a request, whoever takes it.                      *)

Born(r) ==
    /\ req[r].status = "absent"
    /\ \E u \in People, type \in Types, target \in Targets :
          /\ MayRaise(Role[u], type)
          /\ type = "artifact_consumption" => Owner[target] # None
          /\ req'[r] = [status |-> "submitted", type |-> type, target |-> target, by |-> u,
                        approver |-> InitialApprover(type, Role[u], target),
                        stage |-> IF type = "agent_access" THEN "project_admin" ELSE None,
                        escalations |-> 0]

PassedOn(r) ==
    /\ StillOpen(r) /\ TwoStages(req[r])
    /\ \E e \in timeline' : e.request = r /\ e.kind = "advanced"
    /\ req'[r] = [req[r] EXCEPT !.status = "pending_review", !.stage = "agent_owner",
                                !.approver = Owner[req[r].target]]

Climbed(r) ==
    /\ StillOpen(r)
    /\ \E to \in Roles :
          /\ Role[req[r].by] \in DeliveryRoles => to = "project_admin"
          /\ req'[r] = [req[r] EXCEPT !.status = "escalated", !.approver = to,
                                      !.escalations = req[r].escalations + 1]

Answered(r) ==
    /\ StillOpen(r)
    /\ \E st \in {"approved", "rejected", "cancelled"} :
          /\ st = "approved" /\ TwoStages(req[r]) => WasAdvanced(r)
          /\ req'[r] = [req[r] EXCEPT !.status = st, !.approver = None, !.stage = None]

RequestMoves(r) ==
    req'[r] = req[r] \/ Born(r) \/ PassedOn(r) \/ Climbed(r) \/ Answered(r)

\* A session that is at work has a request, and knows what was judged.
LEMMA JobFacts ==
    ASSUME GovernanceInv, NEW s \in Sessions, job[s].pc # "idle"
    PROVE  job[s].request \in Requests /\ JudgedOf(s) /\ HoldsRow(s) /\ ClimbsWithin(s)
BY DEF GovernanceInv, JobsAreJudged, JudgedOf

LEMMA EventsStay ==
    ASSUME [Next]_vars
    PROVE  timeline \subseteq timeline'
<1>1. ASSUME NEW s \in Sessions, NEW u \in People, NEW r \in Requests, Load(s, u, r)
      PROVE  timeline' = timeline
  BY <1>1 DEF Load, DecideLoad, EscalateLoad, CancelLoad, CompleteLoad
<1>2. ASSUME NEW s \in Sessions, Decide(s)
      PROVE  timeline \subseteq timeline'
  BY <1>2 DEF Decide, Advance, Close, CloseAndApply, CloseHollow, LostRace, ReadGrants,
       EffectUnavailable, GrantAgent, SelectModel, CommitDecision, Record
<1>3. ASSUME NEW s \in Sessions, Escalate(s) \/ Cancel(s) \/ Complete(s) \/ Abort(s)
      PROVE  timeline \subseteq timeline'
  BY <1>3 DEF Escalate, Cancel, Complete, Abort, Record
<1>4. CASE UNCHANGED vars
  BY <1>4 DEF vars
<1> QED BY <1>1, <1>2, <1>3, <1>4 DEF Next, Create

\* The actions that write the request of a session.
Writes(s) ==
    \/ Advance(s) \/ Close(s) \/ GrantAgent(s) \/ CommitDecision(s)
    \/ Escalate(s) \/ Cancel(s) \/ Complete(s)

LEMMA WhoWrites ==
    ASSUME [Next]_vars
    PROVE  \/ req' = req
           \/ \E r \in Requests, u \in People, type \in Types, target \in Targets :
                 Create(r, u, type, target)
           \/ \E s \in Sessions : Writes(s)
BY DEF Next, vars, Load, Decide, Writes, DecideLoad, CloseAndApply,
       CloseHollow, LostRace, ReadGrants, EffectUnavailable, SelectModel,
       EscalateLoad, CancelLoad, CompleteLoad, Abort

LEMMA OneRequest ==
    ASSUME GovernanceInv, NEW r \in Requests, NEW q, req' = [req EXCEPT ![r] = q]
    PROVE  req'[r] = q /\ \A z \in Requests \ {r} : req'[z] = req[z]
BY DEF GovernanceInv, TypeOK

LEMMA CreateMoves ==
    ASSUME GovernanceInv, NEW r \in Requests, NEW u \in People, NEW type \in Types,
           NEW target \in Targets, Create(r, u, type, target)
    PROVE  \A z \in Requests : RequestMoves(z)
<1>1. /\ req[r].status = "absent" /\ MayRaise(Role[u], type)
      /\ type = "artifact_consumption" => Owner[target] # None
  BY DEF Create
<1>2. /\ req'[r] = [status |-> "submitted", type |-> type, target |-> target, by |-> u,
                    approver |-> InitialApprover(type, Role[u], target),
                    stage |-> IF type = "agent_access" THEN "project_admin" ELSE None,
                    escalations |-> 0]
      /\ \A z \in Requests \ {r} : req'[z] = req[z]
  BY OneRequest DEF Create
<1>3. Born(r)
  BY <1>1, <1>2 DEF Born
<1> QED BY <1>2, <1>3 DEF RequestMoves

LEMMA AdvanceMoves ==
    ASSUME GovernanceInv, NEW s \in Sessions, Advance(s)
    PROVE  \A z \in Requests : RequestMoves(z)
<1>1. PICK r \in Requests : r = job[s].request
  BY JobFacts DEF Advance
<1>2. TwoStages(req[r]) /\ StillOpen(r)
  BY <1>1, JobFacts DEF Advance, JudgedOf
<1>3. \E e \in timeline' : e.request = r /\ e.kind = "advanced"
  <2>1. [request |-> r, kind |-> "advanced", actor |-> job[s].actor] \in timeline'
    BY <1>1 DEF Advance, Record
  <2> QED BY <2>1
<1>4. /\ req'[r] = [req[r] EXCEPT !.status = "pending_review", !.stage = "agent_owner",
                                  !.approver = Owner[req[r].target]]
      /\ \A z \in Requests \ {r} : req'[z] = req[z]
  BY <1>1, OneRequest DEF Advance
<1>5. PassedOn(r)
  BY <1>2, <1>3, <1>4 DEF PassedOn
<1> QED BY <1>4, <1>5 DEF RequestMoves

LEMMA EscalateMoves ==
    ASSUME GovernanceInv, NEW s \in Sessions, Escalate(s)
    PROVE  \A z \in Requests : RequestMoves(z)
<1>1. PICK r \in Requests : r = job[s].request
  BY JobFacts DEF Escalate
<1>2. /\ StillOpen(r)
      /\ job[s].to \in Roles
      /\ Role[req[r].by] \in DeliveryRoles => job[s].to = "project_admin"
  BY <1>1, JobFacts DEF Escalate, ClimbsWithin
<1>3. /\ req'[r] = [req[r] EXCEPT !.status = "escalated", !.approver = job[s].to,
                                  !.escalations = req[r].escalations + 1]
      /\ \A z \in Requests \ {r} : req'[z] = req[z]
  BY <1>1, OneRequest DEF Escalate
<1>4. Climbed(r)
  BY <1>2, <1>3 DEF Climbed
<1> QED BY <1>3, <1>4 DEF RequestMoves

\* Every end of a request: shut by whom its status still lets in, or by the
\* holder of its row, and an agent is not approved before it was advanced.
LEMMA ShutMoves ==
    ASSUME GovernanceInv, NEW r \in Requests, StillOpen(r),
           NEW st \in {"approved", "rejected", "cancelled"}, Shut(r, st),
           st = "approved" /\ TwoStages(req[r]) => WasAdvanced(r)
    PROVE  \A z \in Requests : RequestMoves(z)
<1>1. /\ req'[r] = [req[r] EXCEPT !.status = st, !.approver = None, !.stage = None]
      /\ \A z \in Requests \ {r} : req'[z] = req[z]
  BY OneRequest DEF Shut
<1>2. Answered(r)
  BY <1>1 DEF Answered
<1> QED BY <1>1, <1>2 DEF RequestMoves

LEMMA EndingMoves ==
    ASSUME GovernanceInv, NEW s \in Sessions,
           Close(s) \/ GrantAgent(s) \/ CommitDecision(s) \/ Cancel(s) \/ Complete(s)
    PROVE  \A z \in Requests : RequestMoves(z)
<1>1. PICK r \in Requests : r = job[s].request
  BY JobFacts DEF Close, GrantAgent, CommitDecision, Cancel, Complete
<1>2. CASE Close(s)
  <2>1. StillOpen(r) /\ Shut(r, job[s].verdict) /\ job[s].verdict \in {"approved", "rejected"}
    BY <1>1, <1>2, JobFacts DEF Close, JudgedOf
  <2>2. job[s].verdict = "approved" => ~ TwoStages(req[r])
    BY <1>1, <1>2 DEF Close, Grants, TwoStages
  <2> QED BY <2>1, <2>2, ShutMoves
<1>3. CASE GrantAgent(s)
  <2>1. StillOpen(r) /\ Shut(r, "approved") /\ (TwoStages(req[r]) => WasAdvanced(r))
    BY <1>1, <1>3, JobFacts DEF GrantAgent, HoldsRow, Holding
  <2> QED BY <2>1, ShutMoves
<1>4. CASE CommitDecision(s)
  <2>1. StillOpen(r) /\ Shut(r, "approved") /\ req[r].type = "model_credential"
    BY <1>1, <1>4, JobFacts DEF CommitDecision, HoldsRow, Holding
  <2> QED BY <2>1, ShutMoves DEF TwoStages
<1>5. CASE Cancel(s)
  <2>1. StillOpen(r) /\ Shut(r, "cancelled")
    BY <1>1, <1>5 DEF Cancel
  <2> QED BY <2>1, ShutMoves
<1>6. CASE Complete(s)
  <2>1. StillOpen(r) /\ Shut(r, "approved") /\ req[r].type = "role_assignment"
    BY <1>1, <1>6, JobFacts DEF Complete, JudgedOf
  <2> QED BY <2>1, ShutMoves DEF TwoStages
<1> QED BY <1>2, <1>3, <1>4, <1>5, <1>6

LEMMA StepMoves ==
    ASSUME GovernanceInv, [Next]_vars
    PROVE  \A z \in Requests : RequestMoves(z)
<1>1. CASE req' = req
  BY <1>1 DEF RequestMoves
<1>2. ASSUME NEW s \in Sessions, Writes(s)
      PROVE  \A z \in Requests : RequestMoves(z)
  BY <1>2, AdvanceMoves, EscalateMoves, EndingMoves DEF Writes
<1> QED BY <1>1, <1>2, CreateMoves, WhoWrites

-----------------------------------------------------------------------------
(* What the moves of a request preserve.                                   *)

LEMMA RequestFacts ==
    ASSUME GovernanceInv, NEW r \in Requests
    PROVE  /\ req[r] \in Request
           /\ req[r].status \in Open <=> req[r].approver # None
           /\ req[r].status # "absent" => /\ req[r].type \in Types
                                          /\ req[r].target \in Targets
                                          /\ req[r].by \in People
BY DEF GovernanceInv, TypeOK, RaisedInFull

\* A request keeps what it was raised with, waits on somebody exactly while it
\* is open, and does not move once it is closed.
Keeps(r) ==
    /\ req'[r] \in Request
    /\ req'[r].status \in Open <=> req'[r].approver # None
    /\ req[r].status # "absent" => /\ req'[r].status # "absent"
                                   /\ req'[r].type = req[r].type
                                   /\ req'[r].target = req[r].target
                                   /\ req'[r].by = req[r].by
    /\ req[r].status \notin Open \cup {"absent"} => req'[r] = req[r]
    /\ req'[r].status # "absent" => /\ req'[r].type \in Types
                                    /\ req'[r].target \in Targets
                                    /\ req'[r].by \in People

LEMMA BornKeeps ==
    ASSUME GovernanceInv, NEW r \in Requests, Born(r)
    PROVE  /\ Keeps(r)
           /\ req'[r].status = "submitted"
           /\ req'[r].type = "agent_access" => req'[r].stage = "project_admin"
           /\ Role[req'[r].by] \in DeliveryRoles =>
                  req'[r].approver \in DeliveryRoles \cup {"project_admin"}
<1>1. PICK u \in People, type \in Types, target \in Targets :
          /\ MayRaise(Role[u], type)
          /\ type = "artifact_consumption" => Owner[target] # None
          /\ req'[r] = [status |-> "submitted", type |-> type, target |-> target, by |-> u,
                        approver |-> InitialApprover(type, Role[u], target),
                        stage |-> IF type = "agent_access" THEN "project_admin" ELSE None,
                        escalations |-> 0]
  BY DEF Born
<1>2. req[r].status = "absent"
  BY DEF Born
<1> DEFINE ap == InitialApprover(type, Role[u], target)
<1>3. ap \in Roles /\ ap # None
      /\ (Role[u] \in DeliveryRoles => ap \in DeliveryRoles \cup {"project_admin"})
  BY <1>1, FirstApprover DEF Roles
<1> HIDE DEF ap
<1>4. /\ req'[r].status = "submitted" /\ req'[r].type = type /\ req'[r].target = target
      /\ req'[r].by = u /\ req'[r].approver = ap
      /\ req'[r].stage = IF type = "agent_access" THEN "project_admin" ELSE None
  BY <1>1 DEF ap
<1>5. req'[r] \in Request
  BY <1>1, <1>3 DEF Request, Open, ap
<1> QED BY <1>2, <1>3, <1>4, <1>5 DEF Keeps, Open

LEMMA PassedOnKeeps ==
    ASSUME GovernanceInv, NEW r \in Requests, PassedOn(r)
    PROVE  /\ Keeps(r)
           /\ req'[r].status = "pending_review"
           /\ req'[r].approver \in DeliveryRoles
           /\ \E e \in timeline' : e.request = r /\ e.kind = "advanced"
<1>1. /\ req[r] \in Request /\ req[r].status \in Open
      /\ req[r].type \in Types /\ req[r].target \in Targets /\ req[r].by \in People
      /\ req[r].status # "absent"
  BY RequestFacts DEF PassedOn, StillOpen, Open
<1> DEFINE ap == Owner[req[r].target]
<1>2. ap \in DeliveryRoles /\ ap \in Roles /\ ap # None
  BY <1>1, OwnerIsBelowTheLadder DEF PassedOn, TwoStages
<1>3. req'[r] = [req[r] EXCEPT !.status = "pending_review", !.stage = "agent_owner",
                               !.approver = ap]
  BY DEF PassedOn
<1> HIDE DEF ap
<1>4. /\ req'[r].status = "pending_review" /\ req'[r].type = req[r].type
      /\ req'[r].target = req[r].target /\ req'[r].by = req[r].by /\ req'[r].approver = ap
      /\ req'[r] \in Request
  BY <1>1, <1>2, <1>3 DEF Request, Open
<1> QED BY <1>1, <1>2, <1>4 DEF Keeps, Open, PassedOn

LEMMA ClimbedKeeps ==
    ASSUME GovernanceInv, NEW r \in Requests, Climbed(r)
    PROVE  /\ Keeps(r)
           /\ req'[r].stage = req[r].stage /\ StillOpen(r)
           /\ Role[req'[r].by] \in DeliveryRoles => req'[r].approver = "project_admin"
           /\ req'[r].status = "escalated"
<1>1. /\ req[r] \in Request /\ req[r].status \in Open
      /\ req[r].type \in Types /\ req[r].target \in Targets /\ req[r].by \in People
      /\ req[r].status # "absent"
  BY RequestFacts DEF Climbed, StillOpen, Open
<1>2. PICK to \in Roles :
          /\ Role[req[r].by] \in DeliveryRoles => to = "project_admin"
          /\ req'[r] = [req[r] EXCEPT !.status = "escalated", !.approver = to,
                                      !.escalations = req[r].escalations + 1]
  BY DEF Climbed
<1>3. PICK n \in Nat : req'[r] = [req[r] EXCEPT !.status = "escalated", !.approver = to,
                                              !.escalations = n]
  <2>1. req[r].escalations + 1 \in Nat
    BY <1>1 DEF Request
  <2> QED BY <1>2, <2>1
<1>4. /\ req'[r].status = "escalated" /\ req'[r].type = req[r].type
      /\ req'[r].target = req[r].target /\ req'[r].by = req[r].by /\ req'[r].approver = to
      /\ req'[r].stage = req[r].stage /\ req'[r] \in Request
  BY <1>1, <1>2, <1>3 DEF Request, Open
<1> QED BY <1>1, <1>2, <1>4 DEF Keeps, Open, StillOpen

LEMMA AnsweredKeeps ==
    ASSUME GovernanceInv, NEW r \in Requests, Answered(r)
    PROVE  /\ Keeps(r)
           /\ StillOpen(r) /\ req'[r].status \in {"approved", "rejected", "cancelled"}
           /\ req'[r].status = "approved" /\ TwoStages(req'[r]) => WasAdvanced(r)
<1>1. /\ req[r] \in Request /\ req[r].status \in Open
      /\ req[r].type \in Types /\ req[r].target \in Targets /\ req[r].by \in People
      /\ req[r].status # "absent"
  BY RequestFacts DEF Answered, StillOpen, Open
<1>2. PICK st \in {"approved", "rejected", "cancelled"} :
          /\ st = "approved" /\ TwoStages(req[r]) => WasAdvanced(r)
          /\ req'[r] = [req[r] EXCEPT !.status = st, !.approver = None, !.stage = None]
  BY DEF Answered
<1>3. /\ req'[r].status = st /\ req'[r].type = req[r].type /\ req'[r].target = req[r].target
      /\ req'[r].by = req[r].by /\ req'[r].approver = None /\ req'[r] \in Request
  BY <1>1, <1>2 DEF Request, Open
<1> QED BY <1>1, <1>2, <1>3 DEF Keeps, Open, StillOpen, TwoStages

LEMMA StepKeeps ==
    ASSUME GovernanceInv, [Next]_vars, NEW r \in Requests
    PROVE  Keeps(r)
<1>1. CASE req'[r] = req[r]
  BY <1>1, RequestFacts DEF Keeps
<1> QED BY <1>1, StepMoves, BornKeeps, PassedOnKeeps, ClimbedKeeps, AnsweredKeeps
        DEF RequestMoves

-----------------------------------------------------------------------------
(* Requests, their timeline and the ceiling.                               *)

LEMMA RequestsStay ==
    ASSUME GovernanceInv, [Next]_vars
    PROVE  /\ req' \in [Requests -> Request]
           /\ \A r \in Requests : req'[r].status \in Open <=> req'[r].approver # None
<1>1. \A r \in Requests : Keeps(r)
  BY StepKeeps
<1>2. req \in [Requests -> Request]
  BY DEF GovernanceInv, TypeOK
<1>3. req' = req \/ \E r, q : req' = [req EXCEPT ![r] = q]
  <2>1. ASSUME NEW s \in Sessions, Writes(s)
        PROVE  \E r, q : req' = [req EXCEPT ![r] = q]
    BY <2>1 DEF Writes, Advance, Close, GrantAgent, CommitDecision, Escalate, Cancel,
                Complete, Shut
  <2>2. ASSUME NEW r \in Requests, NEW u \in People, NEW type \in Types,
               NEW target \in Targets, Create(r, u, type, target)
        PROVE  \E x, q : req' = [req EXCEPT ![x] = q]
    BY <2>2 DEF Create
  <2> QED BY <2>1, <2>2, WhoWrites
<1>4. req' = [r \in Requests |-> req'[r]]
  BY <1>2, <1>3
<1> QED BY <1>1, <1>4 DEF Keeps

\* Events are added by sessions at work on a request that exists.
LEMMA NewEvents ==
    ASSUME GovernanceInv, [Next]_vars, NEW e \in timeline', e \notin timeline
    PROVE  \E s \in Sessions :
              /\ job[s].pc # "idle" /\ e.request = job[s].request /\ e.actor = job[s].actor
              /\ e \in Event
              /\ e.kind \in Answers => job[s].pc \in Deciding
<1>1. PICK s \in Sessions, kind \in Answers \cup {"assigned", "cancelled"} :
          /\ Record(job[s].request, kind, job[s].actor)
          /\ kind \in Answers => job[s].pc \in Deciding
          /\ job[s].pc # "idle"
  <2>1. ASSUME NEW s \in Sessions, Writes(s)
        PROVE  \/ timeline' = timeline
               \/ \E kind \in Answers \cup {"assigned", "cancelled"} :
                     /\ Record(job[s].request, kind, job[s].actor)
                     /\ kind \in Answers => job[s].pc \in Deciding
                     /\ job[s].pc # "idle"
    <3>1. CASE Close(s)
      <4>1. job[s].verdict \in {"approved", "rejected"} /\ job[s].pc = "closing"
        BY <3>1, JobFacts DEF Close, JudgedOf
      <4> QED BY <3>1, <4>1 DEF Close, Deciding, Answers
    <3>2. CASE \/ Advance(s) \/ GrantAgent(s) \/ CommitDecision(s) \/ Complete(s)
               \/ Cancel(s)
      BY <3>2 DEF Advance, GrantAgent, CommitDecision, Complete, Cancel, Deciding, Holding,
                  Answers
    <3>3. CASE Escalate(s)
      BY <3>3 DEF Escalate
    <3> QED BY <2>1, <3>1, <3>2, <3>3 DEF Writes
  <2>2. timeline' = timeline \/ \E s \in Sessions : Writes(s)
    BY DEF Next, vars, Load, Decide, Writes, Create, DecideLoad, CloseAndApply,
           CloseHollow, LostRace, ReadGrants, EffectUnavailable, SelectModel,
           EscalateLoad, CancelLoad, CompleteLoad, Abort
  <2> QED BY <2>1, <2>2
<1>2. e = [request |-> job[s].request, kind |-> kind, actor |-> job[s].actor]
  BY <1>1 DEF Record
<1>3. job[s].request \in Requests /\ job[s].actor \in People
  BY <1>1, JobFacts DEF JudgedOf
<1> QED BY <1>1, <1>2, <1>3 DEF Event

LEMMA TimelineStays ==
    ASSUME GovernanceInv, [Next]_vars
    PROVE  timeline' \subseteq Event /\ NoSelfApproval' /\ EventsNameRequests'
<1>1. ASSUME NEW e \in timeline'
      PROVE  /\ e \in Event
             /\ req'[e.request].status # "absent"
             /\ e.kind \in Answers => e.actor # req'[e.request].by /\ Covers(e.actor)
  <2>1. CASE e \in timeline
    <3>1. /\ e \in Event /\ req[e.request].status # "absent"
          /\ e.kind \in Answers => e.actor # req[e.request].by /\ Covers(e.actor)
      BY <2>1 DEF GovernanceInv, TypeOK, EventsNameRequests, NoSelfApproval
    <3>2. Keeps(e.request)
      BY <3>1, StepKeeps DEF Event
    <3> QED BY <3>1, <3>2 DEF Keeps
  <2>2. CASE e \notin timeline
    <3>1. PICK s \in Sessions :
              /\ job[s].pc # "idle" /\ e.request = job[s].request /\ e.actor = job[s].actor
              /\ e \in Event
              /\ e.kind \in Answers => job[s].pc \in Deciding
      BY <2>2, NewEvents
    <3>2. JudgedOf(s) /\ job[s].request \in Requests
      BY <3>1, JobFacts
    <3>3. Keeps(job[s].request)
      BY <3>2, StepKeeps
    <3> QED BY <3>1, <3>2, <3>3 DEF JudgedOf, Keeps
  <2> QED BY <2>1, <2>2
<1> QED BY <1>1 DEF NoSelfApproval, EventsNameRequests, Covers

LEMMA CeilingHolds ==
    ASSUME GovernanceInv, [Next]_vars
    PROVE  StopsAtCeiling'
<1> SUFFICES ASSUME NEW r \in Requests, req'[r].status \in Open,
                    Role[req'[r].by] \in DeliveryRoles
             PROVE  req'[r].approver \in DeliveryRoles \cup {"project_admin"}
  BY DEF StopsAtCeiling, StillOpen
<1>1. CASE req'[r] = req[r]
  BY <1>1 DEF GovernanceInv, StopsAtCeiling, StillOpen
<1>2. CASE Answered(r)
  BY <1>2, AnsweredKeeps DEF Open
<1> QED BY <1>1, <1>2, StepMoves, BornKeeps, PassedOnKeeps, ClimbedKeeps DEF RequestMoves

LEMMA AdvancedStays ==
    ASSUME GovernanceInv, [Next]_vars, NEW r \in Requests, WasAdvanced(r)
    PROVE  \E e \in timeline' : e.request = r /\ e.kind = "advanced"
BY EventsStay DEF WasAdvanced

\* A request of two stages leaves the first, and is approved, only advanced.
LEMMA StagesHold ==
    ASSUME GovernanceInv, [Next]_vars
    PROVE  /\ RaisedInFull'
           /\ \A r \in Requests :
                 TwoStages(req'[r]) /\ req'[r].status = "approved" =>
                     \E e \in timeline' : e.request = r /\ e.kind = "advanced"
<1>1. ASSUME NEW r \in Requests, req'[r].status # "absent"
      PROVE  /\ req'[r].type \in Types /\ req'[r].target \in Targets /\ req'[r].by \in People
             /\ \/ ~ TwoStages(req'[r])
                \/ req'[r].status \notin Open \cup {"approved"}
                \/ req'[r].status \in Open /\ req'[r].stage = "project_admin"
                \/ \E e \in timeline' : e.request = r /\ e.kind = "advanced"
  <2>1. Keeps(r)
    BY StepKeeps
  <2>2. (/\ TwoStages(req[r])
         /\ \/ StillOpen(r) /\ req[r].stage # "project_admin"
            \/ req[r].status = "approved") => WasAdvanced(r)
    BY DEF GovernanceInv, RaisedInFull, GrantsAreApproved, WasAdvanced, StillOpen, Open
  <2>3. CASE req'[r] = req[r]
    BY <1>1, <2>1, <2>2, <2>3, AdvancedStays DEF Keeps, StillOpen
  <2>4. CASE Born(r)
    BY <2>1, <2>4, <1>1, BornKeeps DEF Keeps, Open, TwoStages
  <2>5. CASE PassedOn(r)
    BY <2>1, <2>5, <1>1, PassedOnKeeps DEF Keeps
  <2>6. CASE Climbed(r)
    <3>1. req'[r].type = req[r].type /\ req'[r].stage = req[r].stage /\ StillOpen(r)
          /\ req'[r].status \in Open
      BY <2>6, ClimbedKeeps DEF Keeps, StillOpen, Open
    <3>2. TwoStages(req'[r]) => TwoStages(req[r])
      BY <2>1, <2>6 DEF Keeps, TwoStages, Climbed, StillOpen, Open
    <3> QED BY <1>1, <2>1, <2>2, <3>1, <3>2, AdvancedStays DEF Keeps
  <2>7. CASE Answered(r)
    <3>1. req'[r].status \in {"approved", "rejected", "cancelled"}
          /\ (req'[r].status = "approved" /\ TwoStages(req'[r]) => WasAdvanced(r))
      BY <2>7, AnsweredKeeps
    <3> QED BY <1>1, <2>1, <3>1, AdvancedStays DEF Keeps, Open
  <2> QED BY <2>3, <2>4, <2>5, <2>6, <2>7, StepMoves DEF RequestMoves
<1> QED BY <1>1 DEF RaisedInFull, StillOpen, WasAdvanced, Open

-----------------------------------------------------------------------------
(* A held row: nobody else writes it, and nobody takes it away.            *)

LEMMA WriterLetGo ==
    ASSUME GovernanceInv, NEW s \in Sessions, Writes(s)
    PROVE  /\ job'[s] = Idle
           /\ \/ Free(job[s].request) /\ lock' = lock
              \/ /\ job[s].pc \in Holding /\ lock[job[s].request] = s
                 /\ lock' = [lock EXCEPT ![job[s].request] = None]
<1>1. job' = [job EXCEPT ![s] = Idle] /\ job[s].pc # "idle"
  BY DEF Writes, Advance, Close, GrantAgent, CommitDecision, Escalate, Cancel, Complete,
         Finish, Goto
<1>2. job'[s] = Idle
  BY <1>1 DEF GovernanceInv, TypeOK
<1>3. CASE Advance(s) \/ Close(s) \/ Escalate(s) \/ Cancel(s) \/ Complete(s)
  BY <1>2, <1>3 DEF Advance, Close, Escalate, Cancel, Complete
<1>4. CASE GrantAgent(s) \/ CommitDecision(s)
  BY <1>1, <1>2, <1>4, JobFacts DEF GrantAgent, CommitDecision, HoldsRow, Holding
<1> QED BY <1>3, <1>4 DEF Writes

\* The actions that touch a lock.
LEMMA WhoLocks ==
    ASSUME [Next]_vars
    PROVE  \/ lock' = lock
           \/ \E s \in Sessions : CloseAndApply(s) \/ EffectUnavailable(s) \/ GrantAgent(s)
                                   \/ CommitDecision(s) \/ Abort(s)
BY DEF Next, vars, Load, Decide, Create, DecideLoad, Advance, Close,
       CloseHollow, LostRace, ReadGrants, SelectModel, EscalateLoad, Escalate,
       CancelLoad, Cancel, CompleteLoad, Complete

LEMMA HeldStaysHeld ==
    ASSUME GovernanceInv, [Next]_vars, NEW z \in Sessions, NEW r \in Requests, lock[r] = z,
           job'[z] # Idle
    PROVE  lock'[r] = z
<1>1. lock \in [Requests -> Sessions \cup {None}] /\ job \in [Sessions -> Job] /\ z # None
  BY DEF GovernanceInv, TypeOK
<1>2. ASSUME NEW s \in Sessions, CloseAndApply(s)
      PROVE  lock'[r] = z
  BY <1>1, <1>2 DEF CloseAndApply, Free
<1>3. ASSUME NEW s \in Sessions, EffectUnavailable(s)
      PROVE  lock'[r] = z
  <2>1. lock[job[s].request] = s /\ job'[s] = Idle
    BY <1>1, <1>3, JobFacts DEF EffectUnavailable, HoldsRow, Holding, Finish, Goto
  <2> QED BY <1>1, <1>3, <2>1 DEF EffectUnavailable
<1>4. ASSUME NEW s \in Sessions, GrantAgent(s) \/ CommitDecision(s)
      PROVE  lock'[r] = z
  <2>1. lock[job[s].request] = s /\ job'[s] = Idle
    BY <1>1, <1>4, JobFacts DEF GrantAgent, CommitDecision, HoldsRow, Holding, Finish, Goto
  <2> QED BY <1>1, <1>4, <2>1 DEF GrantAgent, CommitDecision
<1>5. ASSUME NEW s \in Sessions, Abort(s)
      PROVE  lock'[r] = z
  <2>1. job'[s] = Idle
    BY <1>1, <1>5 DEF Abort, Finish, Goto
  <2> QED BY <1>1, <1>5, <2>1 DEF Abort
<1> QED BY <1>2, <1>3, <1>4, <1>5, WhoLocks

LEMMA HeldIsNotWritten ==
    ASSUME GovernanceInv, [Next]_vars, NEW z \in Sessions, job[z].pc \in Holding,
           job'[z] # Idle
    PROVE  req'[job[z].request] = req[job[z].request]
<1> DEFINE r == job[z].request
<1>1. r \in Requests /\ lock[r] = z /\ StillOpen(r) /\ z # None
  BY JobFacts DEF Holding, HoldsRow
<1> HIDE DEF r
<1>2. ASSUME NEW s \in Sessions, Writes(s)
      PROVE  req'[r] = req[r]
  <2>1. job[s].request \in Requests
    BY <1>2, JobFacts DEF Writes, Advance, Close, GrantAgent, CommitDecision, Escalate,
                          Cancel, Complete
  <2>2. job[s].request # r
    BY <1>1, <1>2, WriterLetGo DEF Free
  <2>3. \E q : req' = [req EXCEPT ![job[s].request] = q]
    BY <1>2 DEF Writes, Advance, Close, GrantAgent, CommitDecision, Escalate, Cancel,
                Complete, Shut
  <2> QED BY <1>1, <2>1, <2>2, <2>3, OneRequest
<1>3. ASSUME NEW x \in Requests, NEW u \in People, NEW type \in Types,
             NEW target \in Targets, Create(x, u, type, target)
      PROVE  req'[r] = req[r]
  <2>1. x # r
    BY <1>1, <1>3 DEF Create, StillOpen, Open
  <2>2. \E q : req' = [req EXCEPT ![x] = q]
    BY <1>3 DEF Create
  <2> QED BY <1>1, <2>1, <2>2, OneRequest
<1>4. req'[r] = req[r]
  BY <1>2, <1>3, WhoWrites
<1> QED BY <1>4 DEF r

LEMMA LocksStay ==
    ASSUME GovernanceInv, [Next]_vars
    PROVE  lock' \in [Requests -> Sessions \cup {None}]
<1>1. lock \in [Requests -> Sessions \cup {None}]
  BY DEF GovernanceInv, TypeOK
<1>2. ASSUME NEW s \in Sessions,
             CloseAndApply(s) \/ EffectUnavailable(s) \/ GrantAgent(s)
                \/ CommitDecision(s) \/ Abort(s)
      PROVE  lock' \in [Requests -> Sessions \cup {None}]
  BY <1>1, <1>2 DEF CloseAndApply, EffectUnavailable, GrantAgent, CommitDecision, Abort
<1> QED BY <1>1, <1>2, WhoLocks

-----------------------------------------------------------------------------
(* Grants.                                                                 *)

LEMMA ApprovedForStays ==
    ASSUME GovernanceInv, [Next]_vars, NEW u, NEW t, ApprovedFor(u, t)
    PROVE  ApprovedFor(u, t)'
<1>1. PICK r \in Requests : /\ req[r].type = "agent_access" /\ req[r].status = "approved"
                            /\ req[r].by = u /\ req[r].target = t
  BY DEF ApprovedFor
<1>2. req'[r] = req[r]
  BY <1>1, StepKeeps DEF Keeps, Open
<1> QED BY <1>1, <1>2 DEF ApprovedFor

\* Who writes back a list of grants, and whose.
LEMMA GrantsStay ==
    ASSUME GovernanceInv, [Next]_vars
    PROVE  /\ grants' \in [Holders -> SUBSET Targets]
           /\ \A u \in People : \A t \in grants'[u] : ApprovedFor(u, t)'
<1>1. grants \in [Holders -> SUBSET Targets]
  BY DEF GovernanceInv, TypeOK
<1>2. \A u \in People : \A t \in grants[u] : ApprovedFor(u, t)
  BY DEF GovernanceInv, GrantsAreApproved, ApprovedFor
<1>3. CASE grants' = grants
  BY <1>1, <1>2, <1>3, ApprovedForStays
<1>4. ASSUME NEW s \in Sessions, GrantAgent(s) \/ SelectModel(s), grants' # grants
      PROVE  /\ grants' \in [Holders -> SUBSET Targets]
             /\ \A u \in People : \A t \in grants'[u] : ApprovedFor(u, t)'
  <2>1. PICK r \in Requests : r = job[s].request
    BY <1>4, JobFacts DEF GrantAgent, SelectModel
  <2>2. /\ job[s].pc = "writing" /\ job[s].seen \in SUBSET Targets
        /\ req[r].type \in {"agent_access", "model_credential"}
        /\ req[r].target \in Targets /\ req[r].by \in People
        /\ HoldsRow(s)
    <3>1. job[s].seen \in SUBSET Targets
      BY DEF GovernanceInv, TypeOK, Job
    <3>2. req[r].status # "absent"
      BY <1>4, <2>1, JobFacts DEF GrantAgent, SelectModel, JudgedOf
    <3> QED BY <1>4, <2>1, <3>1, <3>2, RequestFacts, JobFacts DEF GrantAgent, SelectModel
  <2>3. grants' = [grants EXCEPT ![Holder(r)] = job[s].seen \cup {req[r].target}]
    BY <1>4, <2>1 DEF GrantAgent, SelectModel, WriteBack
  <2>4. Holder(r) \in Holders
    BY <2>2 DEF Holder, Holders
  <2>5. grants' \in [Holders -> SUBSET Targets]
    BY <1>1, <2>2, <2>3, <2>4
  <2>6. CASE SelectModel(s)
    <3>1. Holder(r) \notin People
      BY <2>1, <2>6 DEF SelectModel, Holder
    <3>2. \A u \in People : grants'[u] = grants[u]
      BY <1>1, <2>3, <3>1 DEF Holders
    <3> QED BY <1>2, <2>5, <3>2, ApprovedForStays
  <2>7. CASE GrantAgent(s)
    <3>1. /\ Holder(r) = req[r].by /\ req[r].type = "agent_access"
          /\ \A t \in job[s].seen : ApprovedFor(req[r].by, t)
      BY <2>1, <2>2, <2>7 DEF GrantAgent, Holder, HoldsRow, Holding
    <3>2. req'[r] = [req[r] EXCEPT !.status = "approved", !.approver = None, !.stage = None]
      <4>1. Shut(r, "approved")
        BY <2>1, <2>7 DEF GrantAgent
      <4> QED BY <4>1, OneRequest DEF Shut
    <3>3. /\ req'[r].status = "approved" /\ req'[r].type = "agent_access"
          /\ req'[r].by = req[r].by /\ req'[r].target = req[r].target
      BY <2>2, <3>1, <3>2, RequestFacts DEF Request
    <3> SUFFICES ASSUME NEW u \in People, NEW t \in grants'[u]
                 PROVE  ApprovedFor(u, t)'
      BY <2>5
    <3>5. CASE u # Holder(r)
      BY <1>1, <1>2, <2>3, <3>5, ApprovedForStays DEF Holders
    <3>6. CASE u = Holder(r) /\ t = req[r].target
      BY <3>1, <3>3, <3>6 DEF ApprovedFor
    <3>7. CASE u = Holder(r) /\ t \in job[s].seen
      <4>1. ApprovedFor(u, t)
        BY <3>1, <3>7
      <4> QED BY <4>1, ApprovedForStays
    <3> QED BY <1>1, <2>3, <2>4, <3>5, <3>6, <3>7
  <2> QED BY <1>4, <2>6, <2>7
<1>5. grants' = grants \/ \E s \in Sessions : GrantAgent(s) \/ SelectModel(s)
  BY DEF Next, vars, Load, Decide, Create, DecideLoad, Advance, Close, CloseAndApply,
         CloseHollow, LostRace, ReadGrants, EffectUnavailable, CommitDecision,
         EscalateLoad, Escalate, CancelLoad, Cancel, CompleteLoad, Complete, Abort
<1> QED BY <1>3, <1>4, <1>5

-----------------------------------------------------------------------------
(* The operations in progress.                                             *)

\* A load changes nothing else, and keeps what it judged.
LoadedOf(z) ==
    /\ UNCHANGED <<req, timeline, lock, grants>>
    /\ \E u \in People, r \in Requests :
          /\ StillOpen(r)
          /\ \/ \E verdict \in {"approved", "rejected"} :
                   /\ MayDecide(u, r)
                   /\ job'[z] = [Idle EXCEPT
                                   !.pc = IF verdict = "approved" /\ AtStageOne(r)
                                          THEN "advancing" ELSE "closing",
                                   !.actor = u, !.request = r, !.verdict = verdict]
             \/ /\ CanEscalate(req[r].approver, Role[req[r].by])
                /\ job'[z] = [Idle EXCEPT !.pc = "escalating", !.actor = u, !.request = r,
                                          !.to = NextApprover(req[r].approver)]
             \/ /\ u = req[r].by
                /\ job'[z] = [Idle EXCEPT !.pc = "cancelling", !.actor = u, !.request = r]
             \/ /\ req[r].type = "role_assignment" /\ u \in Clerks
                /\ job'[z] = [Idle EXCEPT !.pc = "completing", !.actor = u, !.request = r]

\* The steps of an approval that grants something.
WentOn(z) ==
    /\ UNCHANGED <<req, timeline>>
    /\ \/ /\ job[z].pc = "closing" /\ job[z].verdict = "approved"
          /\ StillOpen(job[z].request) /\ Grants(job[z].request)
          /\ lock' = [lock EXCEPT ![job[z].request] = z]
          /\ job'[z] = [job[z] EXCEPT !.pc = "reading"]
       \/ /\ job[z].pc = "reading" /\ lock' = lock
          /\ job'[z] = [job[z] EXCEPT !.pc = "writing",
                                      !.seen = grants[Holder(job[z].request)]]
       \/ /\ job[z].pc = "writing" /\ lock' = lock
          /\ req[job[z].request].type = "model_credential"
          /\ job'[z] = [job[z] EXCEPT !.pc = "committing"]

LEMMA OneJob ==
    ASSUME GovernanceInv, NEW s \in Sessions, NEW j, job' = [job EXCEPT ![s] = j]
    PROVE  job'[s] = j /\ \A z \in Sessions \ {s} : job'[z] = job[z]
BY DEF GovernanceInv, TypeOK

LEMMA LoadMoves ==
    ASSUME GovernanceInv, NEW s \in Sessions, NEW u \in People, NEW r \in Requests,
           Load(s, u, r)
    PROVE  LoadedOf(s) /\ \A z \in Sessions \ {s} : job'[z] = job[z]
<1>1. ASSUME NEW verdict \in {"approved", "rejected"}, DecideLoad(s, u, r, verdict)
      PROVE  LoadedOf(s) /\ \A z \in Sessions \ {s} : job'[z] = job[z]
  <2>1. /\ job'[s] = [Idle EXCEPT
                        !.pc = IF verdict = "approved" /\ AtStageOne(r)
                               THEN "advancing" ELSE "closing",
                        !.actor = u, !.request = r, !.verdict = verdict]
        /\ \A z \in Sessions \ {s} : job'[z] = job[z]
    BY <1>1, OneJob DEF DecideLoad, Goto
  <2>2. MayDecide(u, r) /\ StillOpen(r) /\ UNCHANGED <<req, timeline, lock, grants>>
    BY <1>1 DEF DecideLoad
  <2>3. \E v \in {"approved", "rejected"} :
            /\ MayDecide(u, r)
            /\ job'[s] = [Idle EXCEPT
                            !.pc = IF v = "approved" /\ AtStageOne(r)
                                   THEN "advancing" ELSE "closing",
                            !.actor = u, !.request = r, !.verdict = v]
    BY <2>1, <2>2, Zenon
  <2>4. LoadedOf(s)
    BY <2>2, <2>3, Zenon DEF LoadedOf
  <2> QED BY <2>1, <2>4
<1>2. CASE EscalateLoad(s, u, r)
  <2>1. /\ job'[s] = [Idle EXCEPT !.pc = "escalating", !.actor = u, !.request = r,
                                  !.to = NextApprover(req[r].approver)]
        /\ \A z \in Sessions \ {s} : job'[z] = job[z]
    BY <1>2, OneJob DEF EscalateLoad, Goto
  <2> QED BY <1>2, <2>1 DEF LoadedOf, EscalateLoad
<1>3. CASE CancelLoad(s, u, r)
  <2>1. /\ job'[s] = [Idle EXCEPT !.pc = "cancelling", !.actor = u, !.request = r]
        /\ \A z \in Sessions \ {s} : job'[z] = job[z]
    BY <1>3, OneJob DEF CancelLoad, Goto
  <2> QED BY <1>3, <2>1 DEF LoadedOf, CancelLoad
<1>4. CASE CompleteLoad(s, u, r)
  <2>1. /\ job'[s] = [Idle EXCEPT !.pc = "completing", !.actor = u, !.request = r]
        /\ \A z \in Sessions \ {s} : job'[z] = job[z]
    BY <1>4, OneJob DEF CompleteLoad, Goto
  <2> QED BY <1>4, <2>1 DEF LoadedOf, CompleteLoad
<1> QED BY <1>1, <1>2, <1>3, <1>4 DEF Load

LEMMA GoingOnMoves ==
    ASSUME GovernanceInv, NEW s \in Sessions,
           CloseAndApply(s) \/ ReadGrants(s) \/ SelectModel(s)
    PROVE  WentOn(s) /\ \A z \in Sessions \ {s} : job'[z] = job[z]
<1>1. CASE CloseAndApply(s)
  <2>1. /\ job'[s] = [job[s] EXCEPT !.pc = "reading"]
        /\ \A z \in Sessions \ {s} : job'[z] = job[z]
    BY <1>1, OneJob DEF CloseAndApply, Goto
  <2> QED BY <1>1, <2>1 DEF WentOn, CloseAndApply
<1>2. CASE ReadGrants(s)
  <2>1. /\ job'[s] = [job[s] EXCEPT !.pc = "writing", !.seen = grants[Holder(job[s].request)]]
        /\ \A z \in Sessions \ {s} : job'[z] = job[z]
    BY <1>2, OneJob DEF ReadGrants, Goto
  <2> QED BY <1>2, <2>1 DEF WentOn, ReadGrants
<1>3. CASE SelectModel(s)
  <2>1. /\ job'[s] = [job[s] EXCEPT !.pc = "committing"]
        /\ \A z \in Sessions \ {s} : job'[z] = job[z]
    BY <1>3, OneJob DEF SelectModel, Goto
  <2> QED BY <1>3, <2>1 DEF WentOn, SelectModel
<1> QED BY <1>1, <1>2, <1>3

LEMMA FinishMoves ==
    ASSUME GovernanceInv, NEW s \in Sessions, Finish(s)
    PROVE  job'[s] = Idle /\ \A z \in Sessions \ {s} : job'[z] = job[z]
BY OneJob DEF Finish, Goto

LEMMA JobMoves ==
    ASSUME GovernanceInv, [Next]_vars, NEW z \in Sessions
    PROVE  job'[z] = job[z] \/ job'[z] = Idle \/ LoadedOf(z) \/ WentOn(z)
<1>1. ASSUME NEW s \in Sessions, Finish(s)
      PROVE  job'[z] = job[z] \/ job'[z] = Idle
  BY <1>1, FinishMoves
<1>2. ASSUME NEW s \in Sessions, NEW u \in People, NEW r \in Requests, Load(s, u, r)
      PROVE  job'[z] = job[z] \/ LoadedOf(z)
  BY <1>2, LoadMoves
<1>3. ASSUME NEW s \in Sessions, CloseAndApply(s) \/ ReadGrants(s) \/ SelectModel(s)
      PROVE  job'[z] = job[z] \/ WentOn(z)
  BY <1>3, GoingOnMoves
<1>4. \/ job' = job
      \/ \E s \in Sessions : Finish(s)
      \/ \E s \in Sessions, u \in People, r \in Requests : Load(s, u, r)
      \/ \E s \in Sessions : CloseAndApply(s) \/ ReadGrants(s) \/ SelectModel(s)
  BY DEF Next, vars, Decide, Create, Advance, Close, CloseHollow, LostRace,
         EffectUnavailable, GrantAgent, CommitDecision, Escalate, Cancel, Complete, Abort
<1> QED BY <1>1, <1>2, <1>3, <1>4

LEMMA SameJobFits ==
    ASSUME GovernanceInv, [Next]_vars, NEW z \in Sessions, job[z].pc # "idle",
           job'[z] = job[z]
    PROVE  JudgedOf(z)' /\ HoldsRow(z)' /\ ClimbsWithin(z)'
<1>1. PICK r \in Requests : r = job[z].request
  BY JobFacts
<1>2. JudgedOf(z) /\ HoldsRow(z) /\ ClimbsWithin(z)
  BY JobFacts
<1>3. /\ req'[r].status # "absent" /\ req'[r].type = req[r].type
      /\ req'[r].by = req[r].by /\ TwoStages(req'[r]) = TwoStages(req[r])
  BY <1>1, <1>2, StepKeeps DEF JudgedOf, Keeps, TwoStages
<1>4. WasAdvanced(r) => \E e \in timeline' : e.request = r /\ e.kind = "advanced"
  BY AdvancedStays
<1>5. JudgedOf(z)'
  BY <1>1, <1>2, <1>3, <1>4 DEF JudgedOf, WasAdvanced, Covers
<1>6. HoldsRow(z)'
  <2> SUFFICES ASSUME job[z].pc \in Holding PROVE HoldsRow(z)'
    BY DEF HoldsRow
  <2>1. job'[z] # Idle
    BY DEF Idle, Holding
  <2>2. lock'[r] = z /\ req'[r] = req[r]
    BY <1>1, <1>2, <2>1, HeldStaysHeld, HeldIsNotWritten DEF HoldsRow
  <2>3. \A t : ApprovedFor(req[r].by, t) =>
           \E q \in Requests : /\ req'[q].type = "agent_access" /\ req'[q].status = "approved"
                               /\ req'[q].by = req[r].by /\ req'[q].target = t
    <3> SUFFICES ASSUME NEW u, NEW t, ApprovedFor(u, t)
                 PROVE  \E q \in Requests :
                           /\ req'[q].type = "agent_access" /\ req'[q].status = "approved"
                           /\ req'[q].by = u /\ req'[q].target = t
      OBVIOUS
    <3> QED BY ApprovedForStays DEF ApprovedFor
  <2>4. /\ StillOpen(r) /\ Grants(r)
        /\ TwoStages(req[r]) => WasAdvanced(r)
        /\ job[z].pc = "writing" /\ req[r].type = "agent_access" =>
               \A t \in job[z].seen : ApprovedFor(req[r].by, t)
        /\ job[z].pc = "committing" => req[r].type = "model_credential"
    BY <1>1, <1>2 DEF HoldsRow
  <2>5. job'[z].request = r /\ job'[z].pc = job[z].pc /\ job'[z].seen = job[z].seen
    BY <1>1
  <2> QED BY <1>4, <2>2, <2>3, <2>4, <2>5
          DEF HoldsRow, StillOpen, Grants, WasAdvanced, ApprovedFor
<1>7. ClimbsWithin(z)'
  BY <1>1, <1>2, <1>3 DEF ClimbsWithin
<1> QED BY <1>5, <1>6, <1>7

LEMMA LoadedFits ==
    ASSUME GovernanceInv, NEW z \in Sessions, LoadedOf(z)
    PROVE  JudgedOf(z)' /\ HoldsRow(z)' /\ ClimbsWithin(z)' /\ job'[z] \in Job
<1>1. PICK u \in People, r \in Requests :
          /\ StillOpen(r)
          /\ \/ \E verdict \in {"approved", "rejected"} :
                   /\ MayDecide(u, r)
                   /\ job'[z] = [Idle EXCEPT
                                   !.pc = IF verdict = "approved" /\ AtStageOne(r)
                                          THEN "advancing" ELSE "closing",
                                   !.actor = u, !.request = r, !.verdict = verdict]
             \/ /\ CanEscalate(req[r].approver, Role[req[r].by])
                /\ job'[z] = [Idle EXCEPT !.pc = "escalating", !.actor = u, !.request = r,
                                          !.to = NextApprover(req[r].approver)]
             \/ /\ u = req[r].by
                /\ job'[z] = [Idle EXCEPT !.pc = "cancelling", !.actor = u, !.request = r]
             \/ /\ req[r].type = "role_assignment" /\ u \in Clerks
                /\ job'[z] = [Idle EXCEPT !.pc = "completing", !.actor = u, !.request = r]
  BY DEF LoadedOf
<1>2. req' = req /\ timeline' = timeline
  BY DEF LoadedOf
<1>3. /\ req[r].status # "absent" /\ req[r].by \in People /\ req[r].approver \in Roles
      /\ req[r].status \in Open
  BY <1>1, RequestFacts DEF StillOpen, Open, Request
<1>4. CASE \E verdict \in {"approved", "rejected"} :
              /\ MayDecide(u, r)
              /\ job'[z] = [Idle EXCEPT
                              !.pc = IF verdict = "approved" /\ AtStageOne(r)
                                     THEN "advancing" ELSE "closing",
                              !.actor = u, !.request = r, !.verdict = verdict]
  <2>1. PICK verdict \in {"approved", "rejected"} :
              /\ MayDecide(u, r)
              /\ job'[z] = [Idle EXCEPT
                              !.pc = IF verdict = "approved" /\ AtStageOne(r)
                                     THEN "advancing" ELSE "closing",
                              !.actor = u, !.request = r, !.verdict = verdict]
    BY <1>4
  <2>2. u # req[r].by /\ Covers(u)
    BY <2>1 DEF MayDecide
  <2>3. verdict = "approved" /\ ~ AtStageOne(r) /\ TwoStages(req[r]) =>
            WasAdvanced(r)
    BY <1>3 DEF AtStageOne, GovernanceInv, RaisedInFull, StillOpen
  <2>4. /\ job'[z].actor = u /\ job'[z].request = r /\ job'[z].verdict = verdict
        /\ job'[z].pc = IF verdict = "approved" /\ AtStageOne(r) THEN "advancing" ELSE "closing"
        /\ job'[z] \in Job
    BY <2>1 DEF Idle, Job
  <2>5. AtStageOne(r) => TwoStages(req[r])
    BY DEF AtStageOne
  <2>6. JudgedOf(z)'
    BY <1>2, <1>3, <2>2, <2>3, <2>4, <2>5 DEF JudgedOf, WasAdvanced, Covers
  <2>7. HoldsRow(z)' /\ ClimbsWithin(z)'
    BY <2>4 DEF HoldsRow, ClimbsWithin, Holding
  <2> QED BY <2>4, <2>6, <2>7
<1>5. CASE /\ CanEscalate(req[r].approver, Role[req[r].by])
           /\ job'[z] = [Idle EXCEPT !.pc = "escalating", !.actor = u, !.request = r,
                                     !.to = NextApprover(req[r].approver)]
  <2> DEFINE to == NextApprover(req[r].approver)
  <2>1. Role[req[r].by] \in Roles
    BY <1>3, RoleOfPerson
  <2>2. Role[req[r].by] \in DeliveryRoles => req[r].approver \in DeliveryRoles \cup {"project_admin"}
    BY <1>1 DEF GovernanceInv, StopsAtCeiling
  <2>3. to \in Roles /\ (Role[req[r].by] \in DeliveryRoles => to = "project_admin")
    BY <1>3, <1>5, <2>1, <2>2, EscalationTarget
  <2>4. /\ job'[z].actor = u /\ job'[z].request = r /\ job'[z].to = to
        /\ job'[z].pc = "escalating" /\ job'[z] \in Job
    <3> HIDE DEF to
    <3>1. job'[z] = [Idle EXCEPT !.pc = "escalating", !.actor = u, !.request = r, !.to = to]
      BY <1>5 DEF to
    <3> QED BY <2>3, <3>1 DEF Idle, Job
  <2> HIDE DEF to
  <2> QED BY <1>2, <1>3, <2>3, <2>4
          DEF JudgedOf, HoldsRow, ClimbsWithin, Holding, Deciding
<1>6. CASE \/ /\ u = req[r].by
              /\ job'[z] = [Idle EXCEPT !.pc = "cancelling", !.actor = u, !.request = r]
           \/ /\ req[r].type = "role_assignment" /\ u \in Clerks
              /\ job'[z] = [Idle EXCEPT !.pc = "completing", !.actor = u, !.request = r]
  <2>1. /\ job'[z].actor = u /\ job'[z].request = r /\ job'[z] \in Job
        /\ \/ job'[z].pc = "cancelling" /\ u = req[r].by
           \/ job'[z].pc = "completing" /\ req[r].type = "role_assignment" /\ u \in Clerks
    BY <1>6 DEF Idle, Job
  <2> QED BY <1>2, <1>3, <2>1 DEF JudgedOf, HoldsRow, ClimbsWithin, Holding, Deciding, Clerks
<1> QED BY <1>1, <1>4, <1>5, <1>6

LEMMA WentOnFits ==
    ASSUME GovernanceInv, NEW z \in Sessions, WentOn(z)
    PROVE  JudgedOf(z)' /\ HoldsRow(z)' /\ ClimbsWithin(z)' /\ job'[z] \in Job
<1>1. /\ job[z] \in Job /\ job[z].pc \in {"closing", "reading", "writing"}
      /\ req' = req /\ timeline' = timeline
  BY DEF WentOn, GovernanceInv, TypeOK
<1>2. PICK r \in Requests : r = job[z].request
  BY <1>1, JobFacts
<1>3. JudgedOf(z) /\ HoldsRow(z)
  BY <1>1, JobFacts
<1>4. /\ job[z].actor \in People /\ req[r].status # "absent"
      /\ job[z].actor # req[r].by /\ Covers(job[z].actor)
  BY <1>1, <1>2, <1>3 DEF JudgedOf, Deciding, Holding
<1>5. CASE /\ job[z].pc = "closing" /\ job[z].verdict = "approved"
           /\ StillOpen(job[z].request) /\ Grants(job[z].request)
           /\ lock' = [lock EXCEPT ![job[z].request] = z]
           /\ job'[z] = [job[z] EXCEPT !.pc = "reading"]
  <2>1. /\ job'[z].actor = job[z].actor /\ job'[z].request = r /\ job'[z].pc = "reading"
        /\ job'[z] \in Job
    BY <1>1, <1>2, <1>5 DEF Job
  <2>2. lock'[r] = z /\ StillOpen(r) /\ Grants(r) /\ (TwoStages(req[r]) => WasAdvanced(r))
    BY <1>2, <1>3, <1>5 DEF GovernanceInv, TypeOK, JudgedOf
  <2> QED BY <1>1, <1>4, <2>1, <2>2
          DEF JudgedOf, HoldsRow, ClimbsWithin, StillOpen, Grants, WasAdvanced, Covers
<1>6. CASE /\ job[z].pc = "reading" /\ lock' = lock
           /\ job'[z] = [job[z] EXCEPT !.pc = "writing",
                                       !.seen = grants[Holder(job[z].request)]]
  <2> DEFINE seen == grants[Holder(r)]
  <2>1. /\ lock[r] = z /\ StillOpen(r) /\ Grants(r)
        /\ TwoStages(req[r]) => WasAdvanced(r)
    BY <1>2, <1>3, <1>6 DEF HoldsRow, Holding
  <2>2. Holder(r) \in Holders /\ (req[r].type = "agent_access" => Holder(r) = req[r].by)
    BY <1>4, RequestFacts DEF Holder, Holders
  <2>3. seen \in SUBSET Targets
    BY <2>2 DEF GovernanceInv, TypeOK
  <2>4. req[r].type = "agent_access" => \A t \in seen : ApprovedFor(req[r].by, t)
    BY <1>4, <2>2, RequestFacts DEF GovernanceInv, GrantsAreApproved, ApprovedFor
  <2>5. job'[z] = [job[z] EXCEPT !.pc = "writing", !.seen = seen]
    BY <1>2, <1>6
  <2> HIDE DEF seen
  <2>6. /\ job'[z].actor = job[z].actor /\ job'[z].request = r /\ job'[z].pc = "writing"
        /\ job'[z].seen = seen /\ job'[z] \in Job
    BY <1>1, <1>2, <2>3, <2>5 DEF Job
  <2>7. JudgedOf(z)' /\ ClimbsWithin(z)'
    BY <1>1, <1>4, <2>6 DEF JudgedOf, ClimbsWithin, Covers
  <2>8. HoldsRow(z)'
    BY <1>1, <1>6, <2>1, <2>4, <2>6 DEF HoldsRow, StillOpen, Grants, WasAdvanced, ApprovedFor
  <2> QED BY <2>6, <2>7, <2>8
<1>7. CASE /\ job[z].pc = "writing" /\ lock' = lock
           /\ req[job[z].request].type = "model_credential"
           /\ job'[z] = [job[z] EXCEPT !.pc = "committing"]
  <2>1. /\ job'[z].actor = job[z].actor /\ job'[z].request = r /\ job'[z].pc = "committing"
        /\ job'[z] \in Job /\ req[r].type = "model_credential"
    BY <1>1, <1>2, <1>7 DEF Job
  <2>2. lock[r] = z /\ StillOpen(r) /\ Grants(r)
    BY <1>2, <1>3, <1>7 DEF HoldsRow, Holding
  <2>3. ~ TwoStages(req[r])
    BY <2>1 DEF TwoStages
  <2> QED BY <1>1, <1>4, <1>7, <2>1, <2>2, <2>3
          DEF JudgedOf, HoldsRow, ClimbsWithin, StillOpen, Grants, WasAdvanced, Covers
<1> QED BY <1>5, <1>6, <1>7 DEF WentOn

LEMMA JobsStay ==
    ASSUME GovernanceInv, [Next]_vars
    PROVE  job' \in [Sessions -> Job] /\ JobsAreJudged'
<1>1. ASSUME NEW z \in Sessions
      PROVE  /\ job'[z] \in Job
             /\ job'[z].pc # "idle" => JudgedOf(z)' /\ HoldsRow(z)' /\ ClimbsWithin(z)'
  <2>1. job[z] \in Job
    BY DEF GovernanceInv, TypeOK
  <2>2. CASE job'[z] = job[z]
    BY <2>1, <2>2, SameJobFits
  <2>3. CASE job'[z] = Idle
    BY <2>3 DEF Idle, Job
  <2> QED BY <2>2, <2>3, JobMoves, LoadedFits, WentOnFits
<1>2. job' = [z \in Sessions |-> job'[z]]
  <2>1. job' = job \/ \E s, j : job' = [job EXCEPT ![s] = j]
    <3>1. \/ job' = job
          \/ \E s \in Sessions : Finish(s)
          \/ \E s \in Sessions, u \in People, r \in Requests : Load(s, u, r)
          \/ \E s \in Sessions : CloseAndApply(s) \/ ReadGrants(s) \/ SelectModel(s)
      BY DEF Next, vars, Decide, Create, Advance, Close, CloseHollow, LostRace,
             EffectUnavailable, GrantAgent, CommitDecision, Escalate, Cancel, Complete, Abort
    <3>2. ASSUME NEW s \in Sessions, NEW u \in People, NEW r \in Requests, Load(s, u, r)
          PROVE  \E x, j : job' = [job EXCEPT ![x] = j]
      BY <3>2 DEF Load, DecideLoad, EscalateLoad, CancelLoad, CompleteLoad, Goto
    <3>3. ASSUME NEW s \in Sessions, CloseAndApply(s) \/ ReadGrants(s) \/ SelectModel(s)
          PROVE  \E x, j : job' = [job EXCEPT ![x] = j]
      BY <3>3 DEF CloseAndApply, ReadGrants, SelectModel, Goto
    <3> QED BY <3>1, <3>2, <3>3 DEF Finish, Goto
  <2> QED BY <2>1 DEF GovernanceInv, TypeOK
<1> QED BY <1>1, <1>2 DEF JobsAreJudged

-----------------------------------------------------------------------------
(* The inductive invariant and what follows from it.                       *)

LEMMA GovernanceInvInit == Init => GovernanceInv
<1> SUFFICES ASSUME Init PROVE GovernanceInv
  OBVIOUS
<1>1. Absent \in Request /\ Absent.status = "absent" /\ Absent.approver = None
  BY DEF Absent, Request
<1>2. Idle \in Job /\ Idle.pc = "idle"
  BY DEF Idle, Job
<1>3. TypeOK
  BY <1>1, <1>2 DEF Init, TypeOK, Open
<1>4. NoSelfApproval /\ StopsAtCeiling /\ GrantsAreApproved
  BY <1>1 DEF Init, NoSelfApproval, StopsAtCeiling, GrantsAreApproved, StillOpen, Open, Holders
<1>5. RaisedInFull /\ EventsNameRequests /\ JobsAreJudged
  BY <1>1, <1>2 DEF Init, RaisedInFull, EventsNameRequests, JobsAreJudged
<1> QED BY <1>3, <1>4, <1>5 DEF GovernanceInv

LEMMA GovernanceInvStep == GovernanceInv /\ [Next]_vars => GovernanceInv'
<1> SUFFICES ASSUME GovernanceInv, [Next]_vars PROVE GovernanceInv'
  OBVIOUS
<1>1. TypeOK'
  BY RequestsStay, TimelineStays, LocksStay, GrantsStay, JobsStay DEF TypeOK
<1>2. NoSelfApproval' /\ EventsNameRequests'
  BY TimelineStays
<1>3. StopsAtCeiling'
  BY CeilingHolds
<1>4. GrantsAreApproved'
  <2>1. \A u \in People : \A t \in grants'[u] : \E r \in Requests :
           req'[r].type = "agent_access" /\ req'[r].status = "approved"
             /\ req'[r].by = u /\ req'[r].target = t
    BY GrantsStay DEF ApprovedFor
  <2> QED BY <2>1, StagesHold DEF GrantsAreApproved
<1>5. RaisedInFull' /\ JobsAreJudged'
  BY StagesHold, JobsStay
<1> QED BY <1>1, <1>2, <1>3, <1>4, <1>5 DEF GovernanceInv

LEMMA GovernanceInvHolds == Spec => []GovernanceInv
BY GovernanceInvInit, GovernanceInvStep, PTL DEF Spec

\* Every value in GovernanceRequests keeps its type, and a request waits on
\* somebody exactly while it is open, for any constants.
THEOREM RequestsTyped == Spec => []TypeOK
<1>1. GovernanceInv => TypeOK
  BY DEF GovernanceInv
<1> QED BY <1>1, GovernanceInvHolds, PTL

\* Rule 1 of governance_requests.py: no answer on the timeline comes from the
\* person who asked, nor from somebody whose binding does not cover the project.
THEOREM NobodyAnswersTheirOwn == Spec => []NoSelfApproval
<1>1. GovernanceInv => NoSelfApproval
  BY DEF GovernanceInv
<1> QED BY <1>1, GovernanceInvHolds, PTL

\* Rule 3: escalations, however many and however stale the copies they were
\* judged on, never take a contributor's ask above the Project Admin.
THEOREM AsksStopAtCeiling == Spec => []StopsAtCeiling
<1>1. GovernanceInv => StopsAtCeiling
  BY DEF GovernanceInv
<1> QED BY <1>1, GovernanceInvHolds, PTL

\* The effects of effects.py: what a person holds came from an approved request
\* of theirs for it, and no agent request was approved before it was advanced.
THEOREM HeldWasApproved == Spec => []GrantsAreApproved
<1>1. GovernanceInv => GrantsAreApproved
  BY DEF GovernanceInv
<1> QED BY <1>1, GovernanceInvHolds, PTL

\* The guarded UPDATE: the first outcome that commits is never overwritten.
THEOREM OutcomesStand == Spec => ClosedStays
<1>1. GovernanceInv /\ [Next]_vars =>
        [\A r \in Requests : req[r].status \notin Open \cup {"absent"} => req'[r] = req[r]]_vars
  BY StepKeeps DEF Keeps
<1> QED BY <1>1, GovernanceInvHolds, PTL DEF Spec, ClosedStays

-----------------------------------------------------------------------------
(* A request is a petition.                                                *)

DocketNow == [r \in Requests |-> DocketOf(req[r])]
SaidNow == {<<e.request, e.kind, e.actor>> : e \in timeline}

LEMMA PetitionInit ==
    ASSUME Init
    PROVE  Petitions!Init
<1>1. DocketOf(Absent) = Petitions!Unfiled
  BY DEF DocketOf, Absent, Petitions!Unfiled, Open, TwoStages, RequestTypes
<1> QED BY <1>1 DEF Init, Petitions!Init

LEMMA PetitionStill ==
    ASSUME DocketNow' = DocketNow, SaidNow' = SaidNow
    PROVE  UNCHANGED Petitions!vars
BY DEF Petitions!vars, DocketNow, SaidNow

LEMMA SaysOne ==
    ASSUME NEW r, NEW kind, NEW u, Record(r, kind, u)
    PROVE  SaidNow' = SaidNow \cup {<<r, kind, u>>}
<1> DEFINE e == [request |-> r, kind |-> kind, actor |-> u]
<1>1. timeline' = timeline \cup {e} /\ <<e.request, e.kind, e.actor>> = <<r, kind, u>>
  BY DEF Record
<1> HIDE DEF e
<1>2. \A x : x \in SaidNow' <=> x \in SaidNow \/ x = <<r, kind, u>>
  BY <1>1 DEF SaidNow
<1> QED BY <1>2

LEMMA OneDocket ==
    ASSUME GovernanceInv, NEW r \in Requests, NEW q, req' = [req EXCEPT ![r] = q]
    PROVE  DocketNow' = [DocketNow EXCEPT ![r] = DocketOf(q)]
<1>1. req'[r] = q /\ \A z \in Requests \ {r} : req'[z] = req[z]
  BY OneRequest
<1>2. \A z \in Requests : DocketOf(req'[z]) = IF z = r THEN DocketOf(q) ELSE DocketOf(req[z])
  BY <1>1
<1> HIDE DEF DocketOf
<1> QED BY <1>2 DEF DocketNow

\* Shutting an open request closes its petition.
LEMMA ShutCloses ==
    ASSUME GovernanceInv, NEW r \in Requests, StillOpen(r),
           NEW st \in {"approved", "rejected", "cancelled"}, Shut(r, st)
    PROVE  Petitions!Close(r, st)
<1> DEFINE q == [req[r] EXCEPT !.status = st, !.approver = None, !.stage = None]
<1>1. req[r] \in Request
  BY RequestFacts
<1>2. /\ q.status = st /\ q.type = req[r].type /\ q.by = req[r].by
      /\ TwoStages(q) = TwoStages(req[r])
  BY <1>1 DEF Request, TwoStages
<1>3. req' = [req EXCEPT ![r] = q]
  BY DEF Shut
<1> HIDE DEF q
<1>4. DocketNow' = [DocketNow EXCEPT ![r] = DocketOf(q)]
  BY <1>3, OneDocket
<1>5. DocketOf(q) = [state |-> st, kind |-> DocketNow[r].kind, author |-> DocketNow[r].author]
  BY <1>2 DEF DocketOf, DocketNow, Open
<1>6. DocketNow[r].state = "open"
  BY DEF DocketNow, DocketOf, StillOpen
<1> QED BY <1>4, <1>5, <1>6 DEF Petitions!Close, DocketNow

LEMMA DocketFacts ==
    ASSUME NEW r \in Requests
    PROVE  /\ DocketNow[r].kind = IF TwoStages(req[r]) THEN "owned_agent" ELSE req[r].type
           /\ DocketNow[r].author = req[r].by
BY DEF DocketNow, DocketOf

LEMMA PassedOnSaid ==
    ASSUME GovernanceInv, NEW r \in Requests, WasAdvanced(r)
    PROVE  Petitions!PassedOn(r)
<1>1. PICK e \in timeline : e.request = r /\ e.kind = "advanced"
  BY DEF WasAdvanced
<1>2. e.actor \in People
  BY DEF GovernanceInv, TypeOK, Event
<1>3. <<r, "advanced", e.actor>> \in SaidNow
  BY <1>1 DEF SaidNow
<1> QED BY <1>2, <1>3 DEF Petitions!PassedOn, SaidNow

LEMMA CreateFiles ==
    ASSUME GovernanceInv, NEW r \in Requests, NEW u \in People, NEW type \in Types,
           NEW target \in Targets, Create(r, u, type, target)
    PROVE  Petitions!Next
<1> DEFINE q == [status |-> "submitted", type |-> type, target |-> target, by |-> u,
                 approver |-> InitialApprover(type, Role[u], target),
                 stage |-> IF type = "agent_access" THEN "project_admin" ELSE None,
                 escalations |-> 0]
<1>1. req' = [req EXCEPT ![r] = q] /\ req[r].status = "absent" /\ timeline' = timeline
  BY DEF Create
<1> DEFINE kind == IF TwoStages(q) THEN "owned_agent" ELSE type
<1>2. DocketOf(q) = [state |-> "open", kind |-> kind, author |-> u]
  BY DEF DocketOf, Open
<1> HIDE DEF q
<1>3. DocketNow' = [DocketNow EXCEPT ![r] = DocketOf(q)]
  BY <1>1, OneDocket
<1>4. DocketNow[r].state = "absent" /\ SaidNow' = SaidNow
  BY <1>1 DEF DocketNow, DocketOf, Open, SaidNow
<1>5. kind \in Types \cup {"owned_agent"}
  OBVIOUS
<1> HIDE DEF kind
<1>6. Petitions!File(r, kind, u)
  BY <1>2, <1>3, <1>4 DEF Petitions!File, DocketNow, SaidNow
<1> QED BY <1>5, <1>6 DEF Petitions!Next

LEMMA AdvancePassesOn ==
    ASSUME GovernanceInv, NEW s \in Sessions, Advance(s)
    PROVE  Petitions!Next
<1>1. PICK r \in Requests, u \in People : r = job[s].request /\ u = job[s].actor
  BY JobFacts DEF Advance, JudgedOf
<1>2. /\ StillOpen(r) /\ TwoStages(req[r]) /\ u # req[r].by
      /\ Record(r, "advanced", u)
  BY <1>1, JobFacts DEF Advance, JudgedOf, Deciding
<1> DEFINE q == [req[r] EXCEPT !.status = "pending_review", !.stage = "agent_owner",
                               !.approver = Owner[req[r].target]]
<1>3. req' = [req EXCEPT ![r] = q]
  BY <1>1 DEF Advance
<1>4. /\ q.status = "pending_review" /\ q.type = req[r].type /\ q.by = req[r].by
      /\ TwoStages(q) = TwoStages(req[r])
  BY RequestFacts DEF Request, TwoStages
<1> HIDE DEF q
<1>5. DocketOf(q) = DocketNow[r]
  BY <1>2, <1>4 DEF DocketOf, DocketNow, Open, StillOpen
<1>6. DocketNow' = DocketNow
  <2>1. DocketNow' = [DocketNow EXCEPT ![r] = DocketOf(q)]
    BY <1>3, OneDocket
  <2> QED BY <1>5, <2>1 DEF DocketNow
<1>7. SaidNow' = SaidNow \cup {<<r, "advanced", u>>}
  BY <1>2, SaysOne
<1>8. DocketNow[r].state = "open"
  BY <1>2 DEF DocketNow, DocketOf, StillOpen
<1>9. Petitions!PassOn(r, u)
  BY <1>2, <1>6, <1>7, <1>8, DocketFacts
     DEF Petitions!PassOn, Petitions!Say, DocketNow, SaidNow
<1> QED BY <1>9 DEF Petitions!Next

\* An approval that is not an arrangement.
LEMMA ApprovalApproves ==
    ASSUME GovernanceInv, NEW r \in Requests, NEW u \in People,
           StillOpen(r), Shut(r, "approved"), Record(r, "approved", u),
           u # req[r].by, req[r].type # "role_assignment",
           TwoStages(req[r]) => WasAdvanced(r)
    PROVE  Petitions!Next
<1>1. Petitions!Close(r, "approved")
  BY ShutCloses
<1>2. SaidNow' = SaidNow \cup {<<r, "approved", u>>}
  BY SaysOne
<1>3. /\ DocketNow[r].kind # "role_assignment"
      /\ DocketNow[r].kind = "owned_agent" => Petitions!PassedOn(r)
  <2>1. req[r].type \in RequestTypes
    BY RequestFacts DEF StillOpen, Open
  <2>2. req[r].type # "owned_agent"
    BY <2>1 DEF RequestTypes
  <2> QED BY <2>2, DocketFacts, PassedOnSaid
<1>4. Petitions!Approve(r, u)
  BY <1>1, <1>2, <1>3, DocketFacts
     DEF Petitions!Approve, Petitions!Say, DocketNow, SaidNow
<1> QED BY <1>4 DEF Petitions!Next

LEMMA EndingCloses ==
    ASSUME GovernanceInv, NEW s \in Sessions,
           Close(s) \/ GrantAgent(s) \/ CommitDecision(s) \/ Cancel(s) \/ Complete(s)
    PROVE  Petitions!Next
<1>1. PICK r \in Requests, u \in People : r = job[s].request /\ u = job[s].actor
  BY JobFacts DEF Close, GrantAgent, CommitDecision, Cancel, Complete, JudgedOf
<1>2. CASE Close(s)
  <2>1. /\ StillOpen(r) /\ u # req[r].by /\ job[s].verdict \in {"approved", "rejected"}
        /\ Shut(r, job[s].verdict) /\ Record(r, job[s].verdict, u)
        /\ job[s].verdict = "approved" => ~ Grants(r) /\ req[r].type # "role_assignment"
    BY <1>1, <1>2, JobFacts DEF Close, JudgedOf, Deciding
  <2>2. CASE job[s].verdict = "approved"
    BY <2>1, <2>2, ApprovalApproves DEF Grants, TwoStages
  <2>3. CASE job[s].verdict = "rejected"
    <3>1. Petitions!Close(r, "rejected")
      BY <2>1, <2>3, ShutCloses
    <3>2. SaidNow' = SaidNow \cup {<<r, "rejected", u>>}
      BY <2>1, <2>3, SaysOne
    <3>3. Petitions!Reject(r, u)
      BY <2>1, <3>1, <3>2, DocketFacts
         DEF Petitions!Reject, Petitions!Say, DocketNow, SaidNow
    <3> QED BY <3>3 DEF Petitions!Next
  <2> QED BY <2>1, <2>2, <2>3
<1>3. CASE GrantAgent(s)
  <2>1. /\ StillOpen(r) /\ u # req[r].by /\ req[r].type = "agent_access"
        /\ (TwoStages(req[r]) => WasAdvanced(r))
        /\ Shut(r, "approved") /\ Record(r, "approved", u)
    BY <1>1, <1>3, JobFacts DEF GrantAgent, JudgedOf, HoldsRow, Holding, Deciding
  <2> QED BY <2>1, ApprovalApproves
<1>4. CASE CommitDecision(s)
  <2>1. /\ StillOpen(r) /\ u # req[r].by /\ req[r].type = "model_credential"
        /\ Shut(r, "approved") /\ Record(r, "approved", u)
    BY <1>1, <1>4, JobFacts DEF CommitDecision, JudgedOf, HoldsRow, Holding, Deciding
  <2> QED BY <2>1, ApprovalApproves DEF TwoStages
<1>5. CASE Cancel(s)
  <2>1. /\ StillOpen(r) /\ u = req[r].by
        /\ Shut(r, "cancelled") /\ Record(r, "cancelled", u)
    BY <1>1, <1>5, JobFacts DEF Cancel, JudgedOf
  <2>2. Petitions!Close(r, "cancelled") /\ SaidNow' = SaidNow \cup {<<r, "cancelled", u>>}
    BY <2>1, ShutCloses, SaysOne
  <2>3. Petitions!Withdraw(r, u)
    BY <2>1, <2>2, DocketFacts DEF Petitions!Withdraw, Petitions!Say, DocketNow, SaidNow
  <2> QED BY <2>3 DEF Petitions!Next
<1>6. CASE Complete(s)
  <2>1. /\ StillOpen(r) /\ u \in Clerks /\ req[r].type = "role_assignment"
        /\ Shut(r, "approved") /\ Record(r, "assigned", u)
    BY <1>1, <1>6, JobFacts DEF Complete, JudgedOf
  <2>2. Petitions!Close(r, "approved") /\ SaidNow' = SaidNow \cup {<<r, "assigned", u>>}
    BY <2>1, ShutCloses, SaysOne
  <2>3. Petitions!Arrange(r, u)
    BY <2>1, <2>2, DocketFacts DEF TwoStages, Petitions!Arrange, Petitions!Say, DocketNow, SaidNow
  <2> QED BY <2>3 DEF Petitions!Next
<1> QED BY <1>2, <1>3, <1>4, <1>5, <1>6

\* To the petition an escalation, like a lost race, is nothing.
LEMMA EscalateIsSilent ==
    ASSUME GovernanceInv, NEW s \in Sessions, Escalate(s)
    PROVE  UNCHANGED Petitions!vars
<1>1. PICK r \in Requests : r = job[s].request
  BY JobFacts DEF Escalate
<1> DEFINE q == [req[r] EXCEPT !.status = "escalated", !.approver = job[s].to,
                               !.escalations = req[r].escalations + 1]
<1>2. req' = [req EXCEPT ![r] = q] /\ StillOpen(r) /\ timeline' = timeline
  BY <1>1 DEF Escalate
<1>3. /\ q.status = "escalated" /\ q.type = req[r].type /\ q.by = req[r].by
      /\ TwoStages(q) = TwoStages(req[r])
  BY RequestFacts DEF Request, TwoStages
<1> HIDE DEF q
<1>4. DocketOf(q) = DocketNow[r]
  BY <1>2, <1>3 DEF DocketOf, DocketNow, Open, StillOpen
<1>5. DocketNow' = DocketNow
  <2>1. DocketNow' = [DocketNow EXCEPT ![r] = DocketOf(q)]
    BY <1>2, OneDocket
  <2> QED BY <1>4, <2>1 DEF DocketNow
<1>6. SaidNow' = SaidNow
  BY <1>2 DEF SaidNow
<1> QED BY <1>5, <1>6, PetitionStill

LEMMA PetitionStep ==
    ASSUME GovernanceInv, [Next]_vars
    PROVE  [Petitions!Next]_(Petitions!vars)
<1>1. CASE UNCHANGED <<req, timeline>>
  <2>1. DocketNow' = DocketNow /\ SaidNow' = SaidNow
    BY <1>1 DEF DocketNow, SaidNow
  <2> QED BY <2>1, PetitionStill
<1>2. \/ UNCHANGED <<req, timeline>>
      \/ \E r \in Requests, u \in People, type \in Types, target \in Targets :
            Create(r, u, type, target)
      \/ \E s \in Sessions : Writes(s)
  <2>1. ASSUME NEW s \in Sessions, NEW u \in People, NEW r \in Requests, Load(s, u, r)
        PROVE  UNCHANGED <<req, timeline>>
    BY <2>1 DEF Load, DecideLoad, EscalateLoad, CancelLoad, CompleteLoad
  <2>2. ASSUME NEW s \in Sessions, Decide(s)
        PROVE  Writes(s) \/ UNCHANGED <<req, timeline>>
    BY <2>2 DEF Decide, Writes, CloseAndApply, CloseHollow, LostRace, ReadGrants,
                EffectUnavailable, SelectModel
  <2>3. ASSUME NEW s \in Sessions, Escalate(s) \/ Cancel(s) \/ Complete(s) \/ Abort(s)
        PROVE  Writes(s) \/ UNCHANGED <<req, timeline>>
    BY <2>3 DEF Writes, Abort
  <2> QED BY <2>1, <2>2, <2>3 DEF Next, vars
<1> QED BY <1>1, <1>2, CreateFiles, AdvancePassesOn, EndingCloses, EscalateIsSilent DEF Writes

\* decide, escalate, cancel and complete_role_assignment, each going by a copy
\* that may be stale, implement the petition that is closed once: by another
\* than who asked, after the stage it has to pass, or withdrawn by who asked.
THEOREM RequestIsAPetition == Spec => ImplementsPetition
<1>1. GovernanceInv /\ [Next]_vars => [Petitions!Next]_(Petitions!vars)
  BY PetitionStep
<1> QED BY <1>1, PetitionInit, GovernanceInvHolds, PTL
        DEF Spec, ImplementsPetition, Petitions!Spec
=============================================================================
