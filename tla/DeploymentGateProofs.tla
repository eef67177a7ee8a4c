------------------------ MODULE DeploymentGateProofs ------------------------
(***************************************************************************)
(* Proofs about DeploymentGate, for any number of deployments, users,      *)
(* sessions and crashes.  GateInv is inductive; LaunchedAtMostOnce needs   *)
(* OneCaller (the conditional UPDATE hands the call to one request), and   *)
(* FiredUnderFourEyes needs JobsAreBound (an approval judged on a stale    *)
(* copy still is not the requester's) and SpentIsApproved (the CHECK       *)
(* constraint keeps a late rejection from undoing a spent approval).  What *)
(* a row reports is proved from OutcomeInv, further down.                  *)
(***************************************************************************)
EXTENDS DeploymentGate, TLAPS

LEMMA GateInvInit == Init => GateInv
BY NoneAssumption, MaxCrashesAssumption
   DEF Init, GateInv, TypeOK, JobsAreBound, SignedByAnother, SpentIsApproved,
       OneCaller, LaunchedAtMostOnce, Row, Job, Absent, Idle, Details,
       ExecutionStatus, TerminalStatus, AuditRow

(* Every form in which a handler rewrites a row or a request's local state. *)
LEMMA RowForms ==
    ASSUME NEW row \in Row, NEW u \in Users
    PROVE  /\ [row EXCEPT !.approval = "approved", !.approver = u] \in Row
           /\ [row EXCEPT !.approval = "rejected", !.approver = u] \in Row
           /\ [row EXCEPT !.executed = TRUE, !.status = "running"] \in Row
BY DEF Row, ExecutionStatus

LEMMA RecordedRow ==
    ASSUME NEW row \in Row, NEW j \in Job
    PROVE  Recorded(row, j) \in Row
BY DEF Row, Job, Recorded, KeepsId

LEMMA RowFilled ==
    ASSUME NEW u \in Users, NEW a \in GatedActions
    PROVE  [Absent EXCEPT !.action = a, !.requester = u, !.approval = "pending"] \in Row
BY DEF Absent, Row, Details, ExecutionStatus

LEMMA JobForms ==
    ASSUME NEW d \in Deployments, NEW u \in Users
    PROVE  /\ Idle \in Job
           /\ [Idle EXCEPT !.pc = "approving", !.dep = d, !.user = u] \in Job
           /\ [Idle EXCEPT !.pc = "rejecting", !.dep = d, !.user = u] \in Job
BY DEF Idle, Job, Details, ExecutionStatus

LEMMA JobStarts ==
    ASSUME NEW d \in Deployments
    PROVE  /\ Idle \in Job
           /\ [Idle EXCEPT !.pc = "calling", !.dep = d] \in Job
           /\ [Idle EXCEPT !.pc = "polling", !.dep = d] \in Job
           /\ [Idle EXCEPT !.pc = "recording", !.dep = d,
                           !.out = "error", !.detail = "not_performed"] \in Job
BY DEF Idle, Job, Details, ExecutionStatus

LEMMA JobRecords ==
    ASSUME NEW d \in Deployments, NEW out \in ExecutionStatus, NEW id \in BOOLEAN,
           NEW detail \in Details
    PROVE  Recording(d, out, id, detail) \in Job
BY DEF Recording, Idle, Job, Details, ExecutionStatus

LEMMA JobLoads ==
    ASSUME NEW j \in Job, NEW st \in ExecutionStatus
    PROVE  [j EXCEPT !.pc = "writing", !.seen = st] \in Job
BY DEF Job

LEMMA StatusTypes ==
    /\ \A run \in {"absent", "active", "created"} \cup RunResults :
           StatusOfRun(run) \in ExecutionStatus
    /\ \A d : AnsweredStatus(d) \in ExecutionStatus
    /\ "error" \in ExecutionStatus
    /\ \A d : SentDetail(d) \in Details
    /\ {"none", "nothing_sent"} \subseteq Details
BY DEF StatusOfRun, ExecutionStatus, TerminalStatus, RunResults, AnsweredStatus,
       SentDetail, Details

(* The request that takes a step has a row, and a user when it decides.    *)
LEMMA StepperHasRow ==
    ASSUME TypeOK, JobsAreBound, NEW s \in Sessions, job[s].pc # "idle"
    PROVE  /\ job[s] \in Job
           /\ job[s].dep \in Deployments
           /\ rows[job[s].dep] \in Row
           /\ job[s].pc \in {"approving", "rejecting"} => job[s].user \in Users
BY DEF TypeOK, JobsAreBound

-----------------------------------------------------------------------------
LEMMA TypeStep == TypeOK /\ JobsAreBound /\ SignedByAnother /\ [Next]_vars => TypeOK'
<1> SUFFICES ASSUME TypeOK, JobsAreBound, SignedByAnother, [Next]_vars PROVE TypeOK'
  OBVIOUS
<1>1. ASSUME NEW d \in Deployments, NEW u \in Users, NEW a \in GatedActions,
             RequestDeployment(d, u, a)
      PROVE  TypeOK'
  <2>1. rows' \in [Deployments -> Row]
    BY <1>1, RowFilled DEF TypeOK, RequestDeployment
  <2>2. audit' \subseteq AuditRow
    BY <1>1 DEF TypeOK, RequestDeployment, AuditRow
  <2> QED BY <1>1, <2>1, <2>2 DEF TypeOK, RequestDeployment
<1>2. ASSUME NEW s \in Sessions, NEW d \in Deployments, NEW u \in Users,
             ApproveLoad(s, d, u)
      PROVE  TypeOK'
  BY <1>2, JobForms DEF TypeOK, ApproveLoad
<1>3. ASSUME NEW s \in Sessions, NEW d \in Deployments, NEW u \in Users,
             RejectLoad(s, d, u)
      PROVE  TypeOK'
  BY <1>3, JobForms DEF TypeOK, RejectLoad
<1>4. ASSUME NEW s \in Sessions, NEW d \in Deployments, Claim(s, d)
      PROVE  TypeOK'
  <2>1. rows[d] \in Row /\ rows[d].approver \in Users
    BY <1>4 DEF TypeOK, Claim, Claimable, SignedByAnother
  <2>2. rows' \in [Deployments -> Row]
    BY <1>4, <2>1, RowForms DEF TypeOK, Claim
  <2>3. job' \in [Sessions -> Job]
    BY <1>4, JobStarts DEF TypeOK, Claim
  <2>4. audit' \subseteq AuditRow
    BY <1>4, <2>1 DEF TypeOK, Claim, AuditRow
  <2> QED BY <1>4, <2>2, <2>3, <2>4 DEF TypeOK, Claim
<1>5. ASSUME NEW s \in Sessions, NEW d \in Deployments, RefreshRead(s, d)
      PROVE  TypeOK'
  BY <1>5, JobStarts DEF TypeOK, RefreshRead
<1>6. ASSUME NEW s \in Sessions, ApproveCommit(s)
      PROVE  TypeOK'
  <2>1. job[s].dep \in Deployments /\ rows[job[s].dep] \in Row /\ job[s].user \in Users
    BY <1>6, StepperHasRow DEF ApproveCommit
  <2>2. rows' \in [Deployments -> Row]
    BY <1>6, <2>1, RowForms DEF TypeOK, ApproveCommit
  <2>3. audit' \subseteq AuditRow
    BY <1>6, <2>1 DEF TypeOK, ApproveCommit, AuditRow
  <2> QED BY <1>6, <2>1, <2>2, <2>3, JobForms DEF TypeOK, ApproveCommit
<1>7. ASSUME NEW s \in Sessions, RejectCommit(s)
      PROVE  TypeOK'
  <2>1. job[s].dep \in Deployments /\ rows[job[s].dep] \in Row /\ job[s].user \in Users
    BY <1>7, StepperHasRow DEF RejectCommit
  <2>2. rows' \in [Deployments -> Row]
    <3> DEFINE refused == [rows[job[s].dep] EXCEPT !.approval = "rejected",
                                                   !.approver = job[s].user]
    <3>1. refused \in Row
      BY <2>1, RowForms
    <3>2. rows' = [rows EXCEPT ![job[s].dep] = refused] \/ rows' = rows
      BY <1>7 DEF RejectCommit
    <3> QED BY <3>1, <3>2 DEF TypeOK
  <2>3. audit' \subseteq AuditRow
    BY <1>7, <2>1 DEF TypeOK, RejectCommit, AuditRow
  <2> QED BY <1>7, <2>1, <2>2, <2>3, JobForms DEF TypeOK, RejectCommit
<1>8. ASSUME NEW s \in Sessions, CallAnswered(s)
      PROVE  TypeOK'
  <2>1. job[s].dep \in Deployments
    BY <1>8, StepperHasRow DEF CallAnswered
  <2>2. Recording(job[s].dep, AnsweredStatus(job[s].dep), TRUE, "none") \in Job
    BY <2>1, JobRecords, StatusTypes
  <2>3. job' \in [Sessions -> Job]
    BY <1>8, <2>2 DEF TypeOK, CallAnswered
  <2>4. ado' \in [Deployments -> {"absent", "active", "created"} \cup RunResults]
    BY <1>8, <2>1 DEF TypeOK, CallAnswered, AdoAccepts
  <2>5. launches' \in [Deployments -> Nat]
    BY <1>8, <2>1 DEF TypeOK, CallAnswered, AdoAccepts
  <2> QED BY <1>8, <2>3, <2>4, <2>5 DEF TypeOK, CallAnswered
<1>9. ASSUME NEW s \in Sessions, CallReplyLost(s)
      PROVE  TypeOK'
  <2>1. job[s].dep \in Deployments
    BY <1>9, StepperHasRow DEF CallReplyLost
  <2>2. Recording(job[s].dep, "error", FALSE, SentDetail(job[s].dep)) \in Job
    BY <2>1, JobRecords, StatusTypes
  <2>3. job' \in [Sessions -> Job]
    BY <1>9, <2>2 DEF TypeOK, CallReplyLost
  <2>4. ado' \in [Deployments -> {"absent", "active", "created"} \cup RunResults]
    BY <1>9, <2>1 DEF TypeOK, CallReplyLost, AdoAccepts
  <2>5. launches' \in [Deployments -> Nat]
    BY <1>9, <2>1 DEF TypeOK, CallReplyLost, AdoAccepts
  <2> QED BY <1>9, <2>3, <2>4, <2>5 DEF TypeOK, CallReplyLost
<1>10. ASSUME NEW s \in Sessions, CallRefused(s) \/ CallNeverSent(s)
       PROVE  TypeOK'
  <2>1. job[s].pc = "calling"
    BY <1>10 DEF CallRefused, CallNeverSent
  <2>2. job[s].dep \in Deployments
    BY <2>1, StepperHasRow
  <2>3. /\ Recording(job[s].dep, "error", FALSE, SentDetail(job[s].dep)) \in Job
        /\ Recording(job[s].dep, "error", FALSE, "nothing_sent") \in Job
    BY <2>2, JobRecords, StatusTypes
  <2>4. job' \in [Sessions -> Job]
    BY <1>10, <2>3 DEF TypeOK, CallRefused, CallNeverSent
  <2> QED BY <1>10, <2>4 DEF TypeOK, CallRefused, CallNeverSent
<1>11. ASSUME NEW s \in Sessions, RecordLoad(s)
       PROVE  TypeOK'
  <2>1. job[s] \in Job /\ rows[job[s].dep] \in Row
    BY <1>11, StepperHasRow DEF RecordLoad
  <2>2. rows[job[s].dep].status \in ExecutionStatus
    BY <2>1 DEF Row
  <2> QED BY <1>11, <2>1, <2>2, JobLoads DEF TypeOK, RecordLoad
<1>12. ASSUME NEW s \in Sessions, RecordWrite(s)
       PROVE  TypeOK'
  <2>1. job[s] \in Job /\ job[s].dep \in Deployments /\ rows[job[s].dep] \in Row
    BY <1>12, StepperHasRow DEF RecordWrite
  <2> QED BY <1>12, <2>1, RecordedRow, JobStarts DEF TypeOK, RecordWrite
<1>13. ASSUME NEW s \in Sessions, RefreshPoll(s)
       PROVE  TypeOK'
  <2>1. job[s].dep \in Deployments
    BY <1>13, StepperHasRow DEF RefreshPoll
  <2>2. StatusOfRun(ado[job[s].dep]) \in ExecutionStatus
    BY <2>1, StatusTypes DEF TypeOK
  <2> QED BY <1>13, <2>1, <2>2, JobRecords, StatusTypes DEF TypeOK, RefreshPoll
<1>14. ASSUME NEW s \in Sessions, RefreshUnreadable(s)
       PROVE  TypeOK'
  BY <1>14, StepperHasRow, JobStarts DEF TypeOK, RefreshUnreadable
<1>15. ASSUME NEW s \in Sessions, Crash(s)
       PROVE  TypeOK'
  <2>1. job[s].dep \in Deployments
    BY <1>15, StepperHasRow DEF Crash
  <2>2. job' \in [Sessions -> Job]
    BY <1>15, <2>1, JobStarts DEF TypeOK, Crash
  <2>3. crashes' \in 0 .. MaxCrashes
    BY <1>15, MaxCrashesAssumption DEF TypeOK, Crash
  <2> QED BY <1>15, <2>2, <2>3 DEF TypeOK, Crash
<1>16. ASSUME NEW d \in Deployments, NEW r \in RunResults, AdoFinishes(d, r)
       PROVE  TypeOK'
  BY <1>16 DEF TypeOK, AdoFinishes
<1>17. CASE UNCHANGED vars
  BY <1>17 DEF TypeOK, vars
<1> QED
  BY <1>1, <1>2, <1>3, <1>4, <1>5, <1>6, <1>7, <1>8, <1>9, <1>10, <1>11, <1>12,
     <1>13, <1>14, <1>15, <1>16, <1>17 DEF Next, Arrive, Continue

-----------------------------------------------------------------------------
(* What RejectCommit and RecordWrite do to the columns the invariant reads.*)
LEMMA RejectEffect ==
    ASSUME TypeOK, JobsAreBound, NEW s \in Sessions, RejectCommit(s)
    PROVE  \/ UNCHANGED <<rows, audit>>
           \/ /\ ~rows[job[s].dep].executed
              /\ audit \subseteq audit'
              /\ \A d \in Deployments :
                    /\ rows'[d].executed = rows[d].executed
                    /\ rows'[d].requester = rows[d].requester
                    /\ rows'[d].followed = rows[d].followed
                    /\ IF d = job[s].dep THEN rows'[d].approval = "rejected"
                                         ELSE rows'[d] = rows[d]
<1>1. job[s].dep \in Deployments /\ rows[job[s].dep] \in Row
  BY StepperHasRow DEF RejectCommit
<1> DEFINE refused == [rows[job[s].dep] EXCEPT !.approval = "rejected",
                                               !.approver = job[s].user]
<1>2. /\ refused.executed = rows[job[s].dep].executed
      /\ refused.requester = rows[job[s].dep].requester
      /\ refused.followed = rows[job[s].dep].followed
      /\ refused.approval = "rejected"
  BY <1>1 DEF Row
<1>3. CASE ExecutedOnlyWhenApproved(refused)
  <2>1. rows' = [rows EXCEPT ![job[s].dep] = refused] /\ audit \subseteq audit'
    BY <1>3 DEF RejectCommit
  <2>2. ~rows[job[s].dep].executed
    BY <1>2, <1>3 DEF ExecutedOnlyWhenApproved
  <2> QED BY <1>1, <1>2, <2>1, <2>2 DEF TypeOK
<1>4. CASE ~ExecutedOnlyWhenApproved(refused)
  BY <1>4 DEF RejectCommit
<1> QED BY <1>3, <1>4

LEMMA RecordEffect ==
    ASSUME TypeOK, JobsAreBound, NEW s \in Sessions, RecordWrite(s)
    PROVE  \A d \in Deployments :
               /\ rows'[d].approval = rows[d].approval
               /\ rows'[d].approver = rows[d].approver
               /\ rows'[d].requester = rows[d].requester
               /\ rows'[d].executed = rows[d].executed
               /\ d # job[s].dep => rows'[d] = rows[d]
<1>1. job[s].dep \in Deployments /\ rows[job[s].dep] \in Row
  BY StepperHasRow DEF RecordWrite
<1> QED BY <1>1 DEF TypeOK, RecordWrite, Recorded, Row

-----------------------------------------------------------------------------
(* Most steps write no decision and start nothing: they only move one       *)
(* request to a state in which it is not about to call ADO.                 *)
LEMMA QuietStep ==
    ASSUME GateInv, TypeOK', UNCHANGED <<rows, audit, launches>>,
           NEW s \in Sessions, NEW j, job' = [job EXCEPT ![s] = j],
           j.pc # "calling",
           j.pc # "idle" => /\ j.dep \in Deployments
                            /\ rows[j.dep].approval # "absent"
                            /\ j.pc \in {"approving", "rejecting"} => j.user \in Users
                            /\ j.pc = "approving" => j.user # rows[j.dep].requester
    PROVE  GateInv'
<1> USE DEF GateInv
<1>1. \A t \in Sessions : job'[t] = IF t = s THEN j ELSE job[t]
  BY DEF TypeOK
<1>2. JobsAreBound'
  BY <1>1 DEF JobsAreBound
<1>3. SignedByAnother' /\ SpentIsApproved' /\ LaunchedAtMostOnce'
  BY DEF SignedByAnother, SpentIsApproved, LaunchedAtMostOnce
<1>4. OneCaller'
  BY <1>1 DEF OneCaller
<1> QED BY <1>2, <1>3, <1>4

LEMMA GateInvStep == GateInv /\ [Next]_vars => GateInv'
<1> SUFFICES ASSUME GateInv, [Next]_vars PROVE GateInv'
  OBVIOUS
<1> USE DEF GateInv
<1>0. TypeOK'
  BY TypeStep
<1>1. ASSUME NEW d \in Deployments, NEW u \in Users, NEW a \in GatedActions,
             RequestDeployment(d, u, a)
      PROVE  GateInv'
  <2>1. JobsAreBound'
    BY <1>1 DEF RequestDeployment, JobsAreBound, TypeOK, Row, Absent
  <2>2. SignedByAnother'
    BY <1>1 DEF RequestDeployment, SignedByAnother, TypeOK, Row, Absent
  <2>3. SpentIsApproved'
    BY <1>1 DEF RequestDeployment, SpentIsApproved, TypeOK, Row, Absent
  <2>4. OneCaller'
    BY <1>1 DEF RequestDeployment, OneCaller, SpentIsApproved, JobsAreBound, TypeOK,
                Row, Absent
  <2> QED BY <1>0, <1>1, <2>1, <2>2, <2>3, <2>4 DEF RequestDeployment, LaunchedAtMostOnce
<1>2. ASSUME NEW s \in Sessions, NEW d \in Deployments, NEW u \in Users, ApproveLoad(s, d, u)
      PROVE  GateInv'
  <2> DEFINE j == [Idle EXCEPT !.pc = "approving", !.dep = d, !.user = u]
  <2>1. /\ j.pc # "calling"
        /\ j.pc # "idle" => 
           /\ j.dep \in Deployments /\ rows[j.dep].approval # "absent"
           /\ j.pc \in {"approving", "rejecting"} => j.user \in Users
           /\ j.pc = "approving" => j.user # rows[j.dep].requester
    BY <1>2 DEF ApproveLoad, Idle
  <2>2. job' = [job EXCEPT ![s] = j] /\ UNCHANGED <<rows, audit, launches>>
    BY <1>2 DEF ApproveLoad
  <2> HIDE DEF j
  <2> QED BY <1>0, <2>1, <2>2, QuietStep
<1>3. ASSUME NEW s \in Sessions, NEW d \in Deployments, NEW u \in Users, RejectLoad(s, d, u)
      PROVE  GateInv'
  <2> DEFINE j == [Idle EXCEPT !.pc = "rejecting", !.dep = d, !.user = u]
  <2>1. /\ j.pc # "calling"
        /\ j.pc # "idle" => 
           /\ j.dep \in Deployments /\ rows[j.dep].approval # "absent"
           /\ j.pc \in {"approving", "rejecting"} => j.user \in Users
           /\ j.pc = "approving" => j.user # rows[j.dep].requester
    BY <1>3 DEF RejectLoad, Idle
  <2>2. job' = [job EXCEPT ![s] = j] /\ UNCHANGED <<rows, audit, launches>>
    BY <1>3 DEF RejectLoad
  <2> HIDE DEF j
  <2> QED BY <1>0, <2>1, <2>2, QuietStep
<1>4. ASSUME NEW s \in Sessions, NEW d \in Deployments, Claim(s, d)
      PROVE  GateInv'
  <2>1. JobsAreBound'
    <3>1. rows[d] \in Row /\ rows[d].approval = "approved"
      BY <1>4 DEF Claim, Claimable, TypeOK
    <3>2. \A e \in Deployments : /\ rows'[e].approval = rows[e].approval
                                 /\ rows'[e].requester = rows[e].requester
      BY <1>4, <3>1 DEF Claim, TypeOK, Row
    <3>3. /\ job'[s].dep = d /\ job'[s].pc \in {"calling", "recording"}
          /\ \A t \in Sessions \ {s} : job'[t] = job[t]
      BY <1>4 DEF Claim, TypeOK, Idle
    <3> QED BY <3>1, <3>2, <3>3 DEF JobsAreBound
  <2>2. SignedByAnother'
    BY <1>4 DEF Claim, SignedByAnother, TypeOK, Row
  <2>3. SpentIsApproved'
    BY <1>4 DEF Claim, SpentIsApproved, TypeOK, Row, Claimable
  <2>4. OneCaller'
    BY <1>4 DEF Claim, OneCaller, TypeOK, Idle, Row, Claimable, SpentIsApproved
  <2>5. LaunchedAtMostOnce'
    BY <1>4 DEF Claim, LaunchedAtMostOnce, TypeOK
  <2> QED BY <1>0, <2>1, <2>2, <2>3, <2>4, <2>5
<1>5. ASSUME NEW s \in Sessions, NEW d \in Deployments, RefreshRead(s, d)
      PROVE  GateInv'
  <2> DEFINE j == [Idle EXCEPT !.pc = "polling", !.dep = d]
  <2>1. /\ j.pc # "calling"
        /\ j.pc # "idle" => 
           /\ j.dep \in Deployments /\ rows[j.dep].approval # "absent"
           /\ j.pc \in {"approving", "rejecting"} => j.user \in Users
           /\ j.pc = "approving" => j.user # rows[j.dep].requester
    BY <1>5 DEF RefreshRead, Idle, SpentIsApproved
  <2>2. job' = [job EXCEPT ![s] = j] /\ UNCHANGED <<rows, audit, launches>>
    BY <1>5 DEF RefreshRead
  <2> HIDE DEF j
  <2> QED BY <1>0, <2>1, <2>2, QuietStep
<1>6. ASSUME NEW s \in Sessions, ApproveCommit(s)
      PROVE  GateInv'
  <2>1. JobsAreBound'
    BY <1>6 DEF ApproveCommit, JobsAreBound, TypeOK, Idle, Row
  <2>2. SignedByAnother'
    BY <1>6 DEF ApproveCommit, SignedByAnother, TypeOK, Row, JobsAreBound
  <2>3. SpentIsApproved'
    BY <1>6 DEF ApproveCommit, SpentIsApproved, TypeOK, Row, JobsAreBound
  <2>4. OneCaller'
    BY <1>6 DEF ApproveCommit, OneCaller, TypeOK, Idle, Row
  <2>5. LaunchedAtMostOnce'
    BY <1>6 DEF ApproveCommit, LaunchedAtMostOnce, TypeOK
  <2> QED BY <1>0, <2>1, <2>2, <2>3, <2>4, <2>5
<1>7. ASSUME NEW s \in Sessions, RejectCommit(s)
      PROVE  GateInv'
  <2>0. \A t \in Sessions : IF t = s THEN job'[t].pc = "idle" ELSE job'[t] = job[t]
    BY <1>7 DEF RejectCommit, TypeOK, Idle
  <2>1. JobsAreBound'
    BY <2>0, <1>7, RejectEffect DEF JobsAreBound
  <2>2. SignedByAnother'
    BY <1>7, RejectEffect DEF RejectCommit, SignedByAnother, TypeOK
  <2>3. SpentIsApproved'
    BY <1>7, RejectEffect DEF RejectCommit, SpentIsApproved, TypeOK
  <2>4. OneCaller'
    <3>1. \A t \in Sessions : job'[t].pc = "calling" =>
               job'[t] = job[t] /\ job[t].dep \in Deployments
      BY <2>0 DEF JobsAreBound
    <3>2. \A d \in Deployments : rows'[d].executed = rows[d].executed
      BY <1>7, RejectEffect
    <3>3. launches' = launches
      BY <1>7 DEF RejectCommit
    <3> QED BY <3>1, <3>2, <3>3 DEF OneCaller
  <2>5. LaunchedAtMostOnce'
    BY <1>7, RejectEffect DEF RejectCommit, LaunchedAtMostOnce, TypeOK
  <2> QED BY <1>0, <2>1, <2>2, <2>3, <2>4, <2>5
<1>8. ASSUME NEW s \in Sessions, CallAnswered(s)
      PROVE  GateInv'
  <2>1. JobsAreBound'
    BY <1>8 DEF CallAnswered, JobsAreBound, TypeOK, Idle, Recording
  <2>2. SignedByAnother'
    BY <1>8 DEF CallAnswered, SignedByAnother, TypeOK
  <2>3. SpentIsApproved'
    BY <1>8 DEF CallAnswered, SpentIsApproved, TypeOK, AdoAccepts, OneCaller, JobsAreBound
  <2>4. OneCaller'
    BY <1>8 DEF CallAnswered, OneCaller, TypeOK, Idle, AdoAccepts, Recording, JobsAreBound
  <2>5. LaunchedAtMostOnce'
    BY <1>8 DEF CallAnswered, LaunchedAtMostOnce, TypeOK, AdoAccepts, OneCaller, JobsAreBound
  <2> QED BY <1>0, <2>1, <2>2, <2>3, <2>4, <2>5
<1>9. ASSUME NEW s \in Sessions, CallReplyLost(s)
      PROVE  GateInv'
  <2>1. JobsAreBound'
    BY <1>9 DEF CallReplyLost, JobsAreBound, TypeOK, Idle, Recording
  <2>2. SignedByAnother'
    BY <1>9 DEF CallReplyLost, SignedByAnother, TypeOK
  <2>3. SpentIsApproved'
    BY <1>9 DEF CallReplyLost, SpentIsApproved, TypeOK, AdoAccepts, OneCaller, JobsAreBound
  <2>4. OneCaller'
    BY <1>9 DEF CallReplyLost, OneCaller, TypeOK, Idle, AdoAccepts, Recording, JobsAreBound
  <2>5. LaunchedAtMostOnce'
    BY <1>9 DEF CallReplyLost, LaunchedAtMostOnce, TypeOK, AdoAccepts, OneCaller, JobsAreBound
  <2> QED BY <1>0, <2>1, <2>2, <2>3, <2>4, <2>5
<1>10. ASSUME NEW s \in Sessions, CallRefused(s)
       PROVE  GateInv'
  <2> DEFINE j == Recording(job[s].dep, "error", FALSE, SentDetail(job[s].dep))
  <2>1. /\ j.pc # "calling"
        /\ j.pc # "idle" => 
           /\ j.dep \in Deployments /\ rows[j.dep].approval # "absent"
           /\ j.pc \in {"approving", "rejecting"} => j.user \in Users
           /\ j.pc = "approving" => j.user # rows[j.dep].requester
    BY <1>10 DEF CallRefused, Idle, JobsAreBound, Recording
  <2>2. job' = [job EXCEPT ![s] = j] /\ UNCHANGED <<rows, audit, launches>>
    BY <1>10 DEF CallRefused
  <2> HIDE DEF j
  <2> QED BY <1>0, <2>1, <2>2, QuietStep
<1>11. ASSUME NEW s \in Sessions, CallNeverSent(s)
       PROVE  GateInv'
  <2> DEFINE j == Recording(job[s].dep, "error", FALSE, "nothing_sent")
  <2>1. /\ j.pc # "calling"
        /\ j.pc # "idle" => 
           /\ j.dep \in Deployments /\ rows[j.dep].approval # "absent"
           /\ j.pc \in {"approving", "rejecting"} => j.user \in Users
           /\ j.pc = "approving" => j.user # rows[j.dep].requester
    BY <1>11 DEF CallNeverSent, Idle, JobsAreBound, Recording
  <2>2. job' = [job EXCEPT ![s] = j] /\ UNCHANGED <<rows, audit, launches>>
    BY <1>11 DEF CallNeverSent
  <2> HIDE DEF j
  <2> QED BY <1>0, <2>1, <2>2, QuietStep
<1>12. ASSUME NEW s \in Sessions, RecordLoad(s)
       PROVE  GateInv'
  <2> DEFINE j == [job[s] EXCEPT !.pc = "writing", !.seen = rows[job[s].dep].status]
  <2>1. /\ j.pc # "calling"
        /\ j.pc # "idle" => 
           /\ j.dep \in Deployments /\ rows[j.dep].approval # "absent"
           /\ j.pc \in {"approving", "rejecting"} => j.user \in Users
           /\ j.pc = "approving" => j.user # rows[j.dep].requester
    BY <1>12 DEF RecordLoad, Idle, JobsAreBound, TypeOK, Job
  <2>2. job' = [job EXCEPT ![s] = j] /\ UNCHANGED <<rows, audit, launches>>
    BY <1>12 DEF RecordLoad
  <2> HIDE DEF j
  <2> QED BY <1>0, <2>1, <2>2, QuietStep
<1>13. ASSUME NEW s \in Sessions, RecordWrite(s)
       PROVE  GateInv'
  <2>0. \A t \in Sessions : IF t = s THEN job'[t].pc = "idle" ELSE job'[t] = job[t]
    BY <1>13 DEF RecordWrite, TypeOK, Idle
  <2>1. JobsAreBound'
    BY <2>0, <1>13, RecordEffect DEF JobsAreBound
  <2>2. SignedByAnother'
    BY <1>13, RecordEffect DEF RecordWrite, SignedByAnother, TypeOK
  <2>3. SpentIsApproved'
    <3>1. \A d \in Deployments : rows'[d].followed =>
               rows[d].followed \/ rows[d].approval # "absent"
      BY <1>13, RecordEffect DEF RecordWrite, JobsAreBound
    <3> QED BY <1>13, <3>1, RecordEffect DEF RecordWrite, SpentIsApproved
  <2>4. OneCaller'
    <3>1. \A t \in Sessions : job'[t].pc = "calling" =>
               job'[t] = job[t] /\ job[t].dep \in Deployments
      BY <2>0 DEF JobsAreBound
    <3>2. \A d \in Deployments : rows'[d].executed = rows[d].executed
      BY <1>13, RecordEffect
    <3>3. launches' = launches
      BY <1>13 DEF RecordWrite
    <3> QED BY <3>1, <3>2, <3>3 DEF OneCaller
  <2>5. LaunchedAtMostOnce'
    BY <1>13, RecordEffect DEF RecordWrite, LaunchedAtMostOnce, TypeOK
  <2> QED BY <1>0, <2>1, <2>2, <2>3, <2>4, <2>5
<1>14. ASSUME NEW s \in Sessions, RefreshPoll(s)
       PROVE  GateInv'
  <2> DEFINE j == Recording(job[s].dep, StatusOfRun(ado[job[s].dep]), FALSE, "none")
  <2>1. /\ j.pc # "calling"
        /\ j.pc # "idle" => 
           /\ j.dep \in Deployments /\ rows[j.dep].approval # "absent"
           /\ j.pc \in {"approving", "rejecting"} => j.user \in Users
           /\ j.pc = "approving" => j.user # rows[j.dep].requester
    BY <1>14 DEF RefreshPoll, Idle, JobsAreBound, Recording
  <2>2. job' = [job EXCEPT ![s] = j] /\ UNCHANGED <<rows, audit, launches>>
    BY <1>14 DEF RefreshPoll
  <2> HIDE DEF j
  <2> QED BY <1>0, <2>1, <2>2, QuietStep
<1>15. ASSUME NEW s \in Sessions, RefreshUnreadable(s)
       PROVE  GateInv'
  <2>1. Idle.pc = "idle" /\ job' = [job EXCEPT ![s] = Idle]
    BY <1>15 DEF RefreshUnreadable, Idle
  <2>2. UNCHANGED <<rows, audit, launches>>
    BY <1>15 DEF RefreshUnreadable
  <2> QED BY <1>0, <2>1, <2>2, QuietStep
<1>16. ASSUME NEW s \in Sessions, Crash(s)
       PROVE  GateInv'
  <2>1. Idle.pc = "idle" /\ job' = [job EXCEPT ![s] = Idle]
    BY <1>16 DEF Crash, Idle
  <2>2. UNCHANGED <<rows, audit, launches>>
    BY <1>16 DEF Crash
  <2> QED BY <1>0, <2>1, <2>2, QuietStep
<1>17. ASSUME NEW d \in Deployments, NEW r \in RunResults, AdoFinishes(d, r)
       PROVE  GateInv'
  <2>1. JobsAreBound'
    BY <1>17 DEF AdoFinishes, JobsAreBound, TypeOK, Idle
  <2>2. SignedByAnother'
    BY <1>17 DEF AdoFinishes, SignedByAnother, TypeOK
  <2>3. SpentIsApproved'
    BY <1>17 DEF AdoFinishes, SpentIsApproved, TypeOK
  <2>4. OneCaller'
    BY <1>17 DEF AdoFinishes, OneCaller, TypeOK, Idle
  <2>5. LaunchedAtMostOnce'
    BY <1>17 DEF AdoFinishes, LaunchedAtMostOnce, TypeOK
  <2> QED BY <1>0, <2>1, <2>2, <2>3, <2>4, <2>5
<1>18. CASE UNCHANGED vars
  BY <1>18 DEF vars, TypeOK, JobsAreBound, SignedByAnother, SpentIsApproved, OneCaller,
               LaunchedAtMostOnce
<1> QED
  BY <1>1, <1>2, <1>3, <1>4, <1>5, <1>6, <1>7, <1>8, <1>9, <1>10, <1>11, <1>12,
     <1>13, <1>14, <1>15, <1>16, <1>17, <1>18 DEF Next, Arrive, Continue

-----------------------------------------------------------------------------
LEMMA GateInvariant == Spec => []GateInv
<1>1. Init => GateInv
  BY GateInvInit
<1>2. GateInv /\ [Next]_vars => GateInv'
  BY GateInvStep
<1> QED BY <1>1, <1>2, PTL DEF Spec

(* Every reachable state has the declared types.                           *)
THEOREM TypeCorrect == Spec => []TypeOK
<1>1. GateInv => TypeOK
  BY DEF GateInv
<1> QED BY <1>1, GateInvariant, PTL

(* One approval, one deployment: whatever the interleaving of executions,  *)
(* crashes and lost replies, ADO accepts at most one call per deployment.  *)
THEOREM OneLaunch == Spec => []LaunchedAtMostOnce
<1>1. GateInv => LaunchedAtMostOnce
  BY DEF GateInv
<1> QED BY <1>1, GateInvariant, PTL

(* Nothing is fired without a standing approval by somebody other than the *)
(* requester, recorded in the audit.                                       *)
THEOREM FourEyes == Spec => []FiredUnderFourEyes
<1>1. GateInv => FiredUnderFourEyes
  <2> SUFFICES ASSUME GateInv, NEW d \in Deployments,
                      rows[d].executed \/ launches[d] > 0
               PROVE  /\ rows[d].executed
                      /\ rows[d].approval = "approved"
                      /\ rows[d].approver \in Users \ {rows[d].requester}
                      /\ <<d, "approve", rows[d].approver>> \in audit
    BY DEF FiredUnderFourEyes
  <2>1. rows[d].executed
    BY DEF GateInv, SpentIsApproved
  <2> QED BY <2>1 DEF GateInv, SpentIsApproved, SignedByAnother
<1> QED BY <1>1, GateInvariant, PTL

-----------------------------------------------------------------------------
(* Which columns a step can change, action by action.                      *)
LEMMA SpentStep ==
    ASSUME GateInv, [Next]_vars, NEW e \in Deployments
    PROVE  /\ rows[e].executed => rows'[e].executed
           /\ rows[e].executed /\ rows[e].followed => rows'[e].followed
<1> USE DEF GateInv
<1>1. ASSUME NEW d \in Deployments, NEW u \in Users, NEW a \in GatedActions,
             RequestDeployment(d, u, a)
      PROVE  rows'[e] = rows[e] \/ ~rows[e].executed
  BY <1>1 DEF RequestDeployment, SpentIsApproved, TypeOK
<1>2. ASSUME NEW s \in Sessions, NEW d \in Deployments, Claim(s, d)
      PROVE  rows'[e] = rows[e] \/ ~rows[e].executed
  BY <1>2 DEF Claim, Claimable, TypeOK
<1>3. ASSUME NEW s \in Sessions, ApproveCommit(s)
      PROVE  /\ rows'[e].executed = rows[e].executed
             /\ rows'[e].followed = rows[e].followed
  <2>1. rows[e] \in Row
    BY DEF TypeOK
  <2> QED BY <1>3, <2>1 DEF ApproveCommit, TypeOK, Row
<1>4. ASSUME NEW s \in Sessions, RejectCommit(s)
      PROVE  /\ rows'[e].executed = rows[e].executed
             /\ rows'[e].followed = rows[e].followed
  BY <1>4, RejectEffect
<1>5. ASSUME NEW s \in Sessions, RecordWrite(s)
      PROVE  /\ rows'[e].executed = rows[e].executed
             /\ rows[e].followed => rows'[e].followed
  <2>1. rows[e] \in Row /\ job[s] \in Job
    BY DEF TypeOK
  <2>2. rows'[e] = rows[e] \/ rows'[e] = Recorded(rows[e], job[s])
    BY <1>5 DEF RecordWrite, TypeOK
  <2> QED BY <2>1, <2>2 DEF Recorded, KeepsId, Row, Job
<1>6. CASE rows' = rows
  BY <1>6
<1> QED
  BY <1>1, <1>2, <1>3, <1>4, <1>5, <1>6
     DEF Next, Arrive, Continue, vars, ApproveLoad, RejectLoad, RefreshRead,
         CallAnswered, CallReplyLost, CallRefused, CallNeverSent, RecordLoad,
         RefreshPoll, RefreshUnreadable, AdoFinishes, Crash

(* Once fired, a deployment's decision is closed for good and its external *)
(* id is never lost, even to a decision judged before it fired.            *)
THEOREM SpentIsFinal == Spec => SpentStaysSpent
<1>1. GateInv /\ GateInv' /\ [Next]_vars =>
         [\A d \in Deployments :
             rows[d].executed =>
                 /\ rows'[d].executed
                 /\ rows'[d].approval = "approved"
                 /\ rows[d].followed => rows'[d].followed]_vars
  <2> SUFFICES ASSUME GateInv, GateInv', [Next]_vars,
                      NEW d \in Deployments, rows[d].executed
               PROVE  /\ rows'[d].executed
                      /\ rows'[d].approval = "approved"
                      /\ rows[d].followed => rows'[d].followed
    OBVIOUS
  <2>1. rows'[d].executed /\ (rows[d].followed => rows'[d].followed)
    BY SpentStep
  <2> QED BY <2>1 DEF GateInv, SpentIsApproved
<1> QED BY <1>1, GateInvariant, PTL DEF Spec, SpentStaysSpent

-----------------------------------------------------------------------------
(* Refinement: the gate is a one-shot ticket.                              *)
StateOfTickets == [d \in Deployments |-> TicketOf(rows[d])]

LEMMA TicketInit == Init => Ticket!Init
BY DEF Init, Ticket!Init, TicketOf, Absent

(* A step that rewrites the row of one deployment moves only its ticket.   *)
LEMMA OneTicketMoves ==
    ASSUME NEW d \in Deployments,
           \A e \in Deployments \ {d} : TicketOf(rows'[e]) = TicketOf(rows[e])
    PROVE  StateOfTickets' = [StateOfTickets EXCEPT ![d] = TicketOf(rows'[d])]
BY DEF StateOfTickets

LEMMA TicketsStill ==
    ASSUME \A e \in Deployments : TicketOf(rows'[e]) = TicketOf(rows[e]),
           launches' = launches
    PROVE  UNCHANGED Ticket!vars
BY DEF Ticket!vars

LEMMA TicketStep == GateInv /\ [Next]_vars => [Ticket!Next]_(Ticket!vars)
<1> SUFFICES ASSUME GateInv, [Next]_vars PROVE [Ticket!Next]_(Ticket!vars)
  OBVIOUS
<1> USE DEF GateInv
<1>1. ASSUME NEW d \in Deployments, NEW u \in Users, NEW a \in GatedActions,
             RequestDeployment(d, u, a)
      PROVE  Ticket!Next
  <2>1. TicketOf(rows[d]) = "none" /\ TicketOf(rows'[d]) = "pending"
    BY <1>1 DEF RequestDeployment, TicketOf, SpentIsApproved, TypeOK, Absent
  <2>2. \A e \in Deployments \ {d} : rows'[e] = rows[e]
    BY <1>1 DEF RequestDeployment, TypeOK
  <2>3. Ticket!File(d)
    BY <1>1, <2>1, <2>2, OneTicketMoves DEF Ticket!File, StateOfTickets, RequestDeployment
  <2> QED BY <2>3 DEF Ticket!Next
<1>2. ASSUME NEW s \in Sessions, NEW d \in Deployments, Claim(s, d)
      PROVE  Ticket!Next
  <2>1. TicketOf(rows[d]) = "approved" /\ TicketOf(rows'[d]) = "spent"
    <3>1. rows[d] \in Row
      BY DEF TypeOK
    <3> QED BY <1>2, <3>1 DEF Claim, Claimable, TicketOf, TypeOK, Row
  <2>2. \A e \in Deployments \ {d} : rows'[e] = rows[e]
    BY <1>2 DEF Claim, TypeOK
  <2>3. Ticket!Spend(d)
    BY <1>2, <2>1, <2>2, OneTicketMoves DEF Ticket!Spend, StateOfTickets, Claim
  <2> QED BY <2>3 DEF Ticket!Next
<1>3. ASSUME NEW s \in Sessions, ApproveCommit(s)
      PROVE  Ticket!Next \/ UNCHANGED Ticket!vars
  <2> DEFINE d == job[s].dep
  <2>1. d \in Deployments /\ rows[d] \in Row /\ rows[d].approval # "absent"
    BY <1>3, StepperHasRow DEF ApproveCommit, JobsAreBound
  <2>2. \A e \in Deployments \ {d} : rows'[e] = rows[e]
    BY <1>3 DEF ApproveCommit, TypeOK
  <2>3. rows'[d].executed = rows[d].executed /\ rows'[d].approval = "approved"
    BY <1>3, <2>1 DEF ApproveCommit, TypeOK, Row
  <2>4. launches' = launches
    BY <1>3 DEF ApproveCommit
  <2>5. CASE rows[d].executed
    BY <2>1, <2>2, <2>3, <2>4, <2>5, TicketsStill DEF TicketOf
  <2>6. CASE ~rows[d].executed
    <3>1. /\ TicketOf(rows[d]) \in {"pending", "approved", "rejected"}
          /\ TicketOf(rows'[d]) = "approved"
      BY <2>1, <2>3, <2>6 DEF TicketOf, Row
    <3> HIDE DEF d
    <3>2. Ticket!Decide(d, "approved")
      BY <2>1, <2>2, <2>4, <3>1, OneTicketMoves DEF Ticket!Decide, StateOfTickets
    <3> QED BY <2>1, <3>2 DEF Ticket!Next
  <2> QED BY <2>5, <2>6
<1>4. ASSUME NEW s \in Sessions, RejectCommit(s)
      PROVE  Ticket!Next \/ UNCHANGED Ticket!vars
  <2> DEFINE d == job[s].dep
  <2>1. d \in Deployments /\ rows[d] \in Row /\ rows[d].approval # "absent"
    BY <1>4, StepperHasRow DEF RejectCommit, JobsAreBound
  <2>2. launches' = launches
    BY <1>4 DEF RejectCommit
  <2>3. CASE UNCHANGED rows
    BY <2>2, <2>3, TicketsStill
  <2>4. CASE ~UNCHANGED rows
    <3>1. /\ ~rows[d].executed /\ ~rows'[d].executed /\ rows'[d].approval = "rejected"
          /\ \A e \in Deployments \ {d} : rows'[e] = rows[e]
      BY <1>4, <2>1, <2>4, RejectEffect
    <3>2. /\ TicketOf(rows[d]) \in {"pending", "approved", "rejected"}
          /\ TicketOf(rows'[d]) = "rejected"
      BY <2>1, <3>1 DEF TicketOf, Row
    <3> HIDE DEF d
    <3>3. Ticket!Decide(d, "rejected")
      BY <2>1, <2>2, <3>1, <3>2, OneTicketMoves DEF Ticket!Decide, StateOfTickets
    <3> QED BY <2>1, <3>3 DEF Ticket!Next
  <2> QED BY <2>3, <2>4
<1>5. ASSUME NEW s \in Sessions, CallAnswered(s) \/ CallReplyLost(s)
      PROVE  Ticket!Next
  <2> DEFINE d == job[s].dep
  <2>1. d \in Deployments /\ rows[d].executed /\ launches[d] = 0
    BY <1>5, StepperHasRow DEF CallAnswered, CallReplyLost, OneCaller
  <2>2. launches' = [launches EXCEPT ![d] = 1] /\ rows' = rows
    <3>1. launches' = [launches EXCEPT ![d] = launches[d] + 1] /\ rows' = rows
      BY <1>5 DEF CallAnswered, CallReplyLost, AdoAccepts
    <3> QED BY <2>1, <3>1
  <2> HIDE DEF d
  <2>3. StateOfTickets[d] = "spent" /\ UNCHANGED StateOfTickets
    <3>1. TicketOf(rows[d]) = "spent"
      BY <2>1 DEF TicketOf
    <3>2. \A e \in Deployments : TicketOf(rows'[e]) = TicketOf(rows[e])
      BY <2>2
    <3> QED BY <2>1, <3>1, <3>2 DEF StateOfTickets
  <2>4. Ticket!Fire(d)
    BY <2>1, <2>2, <2>3 DEF Ticket!Fire, StateOfTickets
  <2> QED BY <2>1, <2>4 DEF Ticket!Next
<1>6. ASSUME NEW s \in Sessions, RecordWrite(s)
      PROVE  UNCHANGED Ticket!vars
  <2>1. \A e \in Deployments : TicketOf(rows'[e]) = TicketOf(rows[e])
    BY <1>6, RecordEffect DEF TicketOf
  <2> QED BY <1>6, <2>1, TicketsStill DEF RecordWrite
<1>7. CASE UNCHANGED <<rows, launches>>
  BY <1>7, TicketsStill
<1> QED
  BY <1>1, <1>2, <1>3, <1>4, <1>5, <1>6, <1>7
     DEF Next, Arrive, Continue, vars, ApproveLoad, RejectLoad, RefreshRead,
         CallRefused, CallNeverSent, RecordLoad, RefreshPoll, RefreshUnreadable,
         AdoFinishes, Crash

(* The gate and its executor implement the one-shot ticket.                *)
THEOREM GateIsATicket == Spec => ImplementsTicket
<1>1. GateInv /\ [Next]_vars => [Ticket!Next]_(Ticket!vars)
  BY TicketStep
<1> QED BY <1>1, TicketInit, GateInvariant, PTL DEF Spec, ImplementsTicket, Ticket!Spec

-----------------------------------------------------------------------------
(* HonestOutcome and UnfollowedIsInFlight, from OutcomeInv on top of        *)
(* GateInv.  The work is in OnlyTheClaimant: before the external id is      *)
(* recorded nobody but the claimant can record anything, so what it found   *)
(* out about its call is still true when it writes.                         *)

LEMMA OutcomeInit == Init => OutcomeInv
BY DEF Init, OutcomeInv, AdoHoldsLaunched, UnclaimedIsBlank, FollowsUp, OnlyTheClaimant,
       RecordsTheTruth, HonestOutcome, VerdictIsTrue, DetailIsTrue, UnfollowedIsInFlight,
       Absent, Idle, TypeOK, Row, Job

(* Of a follow-up only the approval half of the row can change meanwhile.  *)
LEMMA SameReport ==
    ASSUME GateInv, OutcomeInv, TypeOK',
           UNCHANGED <<ado, launches, crashes>>,
           \A d \in Deployments :
               /\ rows'[d].executed = rows[d].executed
               /\ rows'[d].status = rows[d].status
               /\ rows'[d].followed = rows[d].followed
               /\ rows'[d].detail = rows[d].detail
               /\ rows[d].approval # "absent" => rows'[d].action = rows[d].action
               /\ rows'[d].action = rows[d].action \/ rows'[d].detail = "none",
           \A s \in Sessions, d \in Deployments : FollowsUp(s, d)' <=> FollowsUp(s, d),
           \A s \in Sessions, d \in Deployments : FollowsUp(s, d) => job'[s] = job[s]
    PROVE  OutcomeInv'
<1> USE DEF OutcomeInv
<1>1. AdoHoldsLaunched' /\ UnclaimedIsBlank'
  BY DEF AdoHoldsLaunched, UnclaimedIsBlank
<1>2. OnlyTheClaimant'
  BY DEF OnlyTheClaimant
<1>3. RecordsTheTruth'
  <2> SUFFICES ASSUME NEW d \in Deployments, NEW s \in Sessions, FollowsUp(s, d),
                      job[s].pc \in {"recording", "writing"}, job'[s] = job[s]
               PROVE  VerdictIsTrue(job[s].out, d)' /\ DetailIsTrue(job[s].detail, d)'
    BY DEF RecordsTheTruth
  <2>1. VerdictIsTrue(job[s].out, d) /\ DetailIsTrue(job[s].detail, d)
    BY DEF RecordsTheTruth
  <2>2. rows[d].approval # "absent"
    BY DEF FollowsUp, GateInv, JobsAreBound
  <2> QED BY <2>1, <2>2 DEF VerdictIsTrue, DetailIsTrue
<1>4. HonestOutcome'
  BY DEF HonestOutcome, VerdictIsTrue, DetailIsTrue
<1>5. UnfollowedIsInFlight'
  <2> SUFFICES ASSUME NEW d \in Deployments, rows[d].status = "running",
                      ~rows[d].followed, crashes = 0
               PROVE  \E s \in Sessions : job'[s].dep = d
                          /\ job'[s].pc \in {"calling", "recording", "writing"}
    BY DEF UnfollowedIsInFlight
  <2>1. PICK s \in Sessions : job[s].dep = d /\ job[s].pc \in {"calling", "recording", "writing"}
    BY DEF UnfollowedIsInFlight
  <2>2. job'[s] = job[s]
    BY <2>1 DEF FollowsUp
  <2> QED BY <2>1, <2>2
<1> QED BY <1>1, <1>2, <1>3, <1>4, <1>5

LEMMA OneJob ==
    ASSUME TypeOK, NEW s \in Sessions, NEW j, job' = [job EXCEPT ![s] = j]
    PROVE  \A t \in Sessions : job'[t] = IF t = s THEN j ELSE job[t]
BY DEF TypeOK

(* A new row reports nothing, as the missing one did.                      *)
LEMMA RequestOutcome ==
    ASSUME GateInv, OutcomeInv, TypeOK', NEW d \in Deployments, NEW u \in Users,
           NEW a \in GatedActions, RequestDeployment(d, u, a)
    PROVE  OutcomeInv'
<1> USE DEF GateInv, OutcomeInv
<1>1. /\ rows[d].status = "not_started" /\ ~rows[d].followed /\ rows[d].detail = "none"
      /\ ~rows[d].executed /\ rows[d] \in Row
  BY DEF RequestDeployment, UnclaimedIsBlank, SpentIsApproved, TypeOK
<1>2. rows' = [rows EXCEPT ![d] = [Absent EXCEPT !.action = a, !.requester = u,
                                                 !.approval = "pending"]]
  BY DEF RequestDeployment
<1>3. /\ rows'[d].executed = rows[d].executed
      /\ rows'[d].status = rows[d].status
      /\ rows'[d].followed = rows[d].followed
      /\ rows'[d].detail = rows[d].detail
  BY <1>1, <1>2 DEF TypeOK, Absent, Row
<1>4. \A e \in Deployments \ {d} : rows'[e] = rows[e]
  BY <1>2 DEF TypeOK
<1>5. UNCHANGED <<job, ado, launches, crashes>> /\ rows[d].approval = "absent"
  BY DEF RequestDeployment
<1>6. \A t \in Sessions, e \in Deployments : FollowsUp(t, e)' <=> FollowsUp(t, e)
  BY <1>5 DEF FollowsUp
<1> QED BY <1>1, <1>3, <1>4, <1>5, <1>6, SameReport

(* A decision leaves every report and every follow-up as it is.            *)
LEMMA DecisionOutcome ==
    ASSUME GateInv, OutcomeInv, TypeOK', NEW s \in Sessions,
           \/ \E d \in Deployments, u \in Users : ApproveLoad(s, d, u) \/ RejectLoad(s, d, u)
           \/ ApproveCommit(s) \/ RejectCommit(s)
    PROVE  OutcomeInv'
<1> USE DEF GateInv, OutcomeInv
<1>1. CASE \E d \in Deployments, u \in Users : ApproveLoad(s, d, u) \/ RejectLoad(s, d, u)
  <2>1. /\ UNCHANGED <<rows, ado, launches, crashes>>
        /\ \A t \in Sessions : \/ job'[t] = job[t]
                               \/ /\ job[t].pc = "idle"
                                  /\ job'[t].pc \in {"approving", "rejecting"}
    BY <1>1 DEF ApproveLoad, RejectLoad, TypeOK, Idle
  <2>2. \A t \in Sessions, e \in Deployments : FollowsUp(t, e)' <=> FollowsUp(t, e)
    BY <2>1 DEF FollowsUp
  <2>3. \A t \in Sessions, e \in Deployments : FollowsUp(t, e) => job'[t] = job[t]
    BY <2>1 DEF FollowsUp
  <2> QED BY <2>1, <2>2, <2>3, SameReport
<1>2. CASE ApproveCommit(s) \/ RejectCommit(s)
  <2>1. /\ UNCHANGED <<ado, launches, crashes>>
        /\ \A t \in Sessions : \/ job'[t] = job[t]
                               \/ /\ job[t].pc \in {"approving", "rejecting"}
                                  /\ job'[t].pc = "idle"
    BY <1>2 DEF ApproveCommit, RejectCommit, TypeOK, Idle
  <2>2. \A t \in Sessions, e \in Deployments : FollowsUp(t, e)' <=> FollowsUp(t, e)
    BY <2>1 DEF FollowsUp
  <2>3. \A t \in Sessions, e \in Deployments : FollowsUp(t, e) => job'[t] = job[t]
    BY <2>1 DEF FollowsUp
  <2> DEFINE d == job[s].dep
             decided(approval) == [rows[d] EXCEPT !.approval = approval,
                                                  !.approver = job[s].user]
  <2>4. \/ rows' = rows
        \/ rows' = [rows EXCEPT ![d] = decided("approved")]
        \/ rows' = [rows EXCEPT ![d] = decided("rejected")]
    BY <1>2 DEF ApproveCommit, RejectCommit
  <2>5. ASSUME NEW e \in Deployments
        PROVE  /\ rows'[e].executed = rows[e].executed
               /\ rows'[e].status = rows[e].status
               /\ rows'[e].followed = rows[e].followed
               /\ rows'[e].detail = rows[e].detail
               /\ rows'[e].action = rows[e].action
    <3>1. rows'[e] \in {rows[e], decided("approved"), decided("rejected")} /\ rows[e] \in Row
      BY <2>4 DEF TypeOK
    <3>2. e # d => rows'[e] = rows[e]
      BY <2>4 DEF TypeOK
    <3>3. CASE e = d
      BY <3>1, <3>3 DEF Row
    <3> QED BY <3>2, <3>3
  <2> QED BY <2>1, <2>2, <2>3, <2>5, SameReport
<1> QED BY <1>1, <1>2

(* A claim is won on a row that reports nothing and that nobody follows.   *)
LEMMA ClaimOutcome ==
    ASSUME GateInv, OutcomeInv, TypeOK', NEW s \in Sessions, NEW d \in Deployments, Claim(s, d)
    PROVE  OutcomeInv'
<1> USE DEF GateInv, OutcomeInv
<1>1. /\ rows[d] \in Row /\ ~rows[d].executed /\ ~rows[d].followed
      /\ rows[d].detail = "none" /\ launches[d] = 0
      /\ UNCHANGED <<ado, launches, crashes>>
  BY DEF Claim, Claimable, UnclaimedIsBlank, SpentIsApproved, TypeOK
<1>2. rows' = [rows EXCEPT ![d] = [rows[d] EXCEPT !.executed = TRUE, !.status = "running"]]
  BY DEF Claim
<1>3. /\ rows'[d].executed /\ rows'[d].status = "running" /\ ~rows'[d].followed
      /\ rows'[d].detail = "none" /\ rows'[d].action = rows[d].action
  BY <1>1, <1>2 DEF TypeOK, Row
<1>4. \A e \in Deployments \ {d} : rows'[e] = rows[e]
  BY <1>2 DEF TypeOK
<1>5. \A t \in Sessions : ~FollowsUp(t, d)
  BY <1>1 DEF OnlyTheClaimant
<1> DEFINE calls == [Idle EXCEPT !.pc = "calling", !.dep = d]
           skips == [Idle EXCEPT !.pc = "recording", !.dep = d,
                                 !.out = "error", !.detail = "not_performed"]
<1>5a. /\ calls.dep = d /\ calls.pc = "calling"
       /\ skips.dep = d /\ skips.pc = "recording"
       /\ skips.out = "error" /\ skips.detail = "not_performed"
  BY DEF Idle
<1>5b. job' = [job EXCEPT ![s] = calls] \/ job' = [job EXCEPT ![s] = skips]
  BY DEF Claim
<1> HIDE DEF calls, skips
<1>6. PICK j : /\ job' = [job EXCEPT ![s] = j]
               /\ j.dep = d
               /\ \/ j.pc = "calling"
                  \/ j.pc = "recording" /\ j.out = "error" /\ j.detail = "not_performed"
  BY <1>5a, <1>5b
<1>7. \A t \in Sessions : job'[t] = IF t = s THEN j ELSE job[t]
  BY <1>6, OneJob
<1>8. job[s].pc = "idle"
  BY DEF Claim
<1>9. \A t \in Sessions, e \in Deployments :
          FollowsUp(t, e)' <=> (t = s /\ e = d) \/ FollowsUp(t, e)
  BY <1>6, <1>7, <1>8 DEF FollowsUp
<1>10. AdoHoldsLaunched' /\ UnclaimedIsBlank'
  BY <1>1, <1>3, <1>4 DEF AdoHoldsLaunched, UnclaimedIsBlank
<1>11. OnlyTheClaimant'
  <2>1. ASSUME NEW e \in Deployments \ {d}, NEW t \in Sessions, FollowsUp(t, e)
        PROVE  rows'[e] = rows[e] /\ job'[t] = job[t]
    BY <2>1, <1>4, <1>7, <1>8 DEF FollowsUp
  <2> QED BY <1>3, <1>5, <1>6, <1>7, <1>9, <2>1 DEF OnlyTheClaimant
<1>12. RecordsTheTruth'
  <2> SUFFICES ASSUME NEW e \in Deployments, NEW t \in Sessions, FollowsUp(t, e)',
                      job'[t].pc \in {"recording", "writing"}
               PROVE  VerdictIsTrue(job[t].out, e)' /\ DetailIsTrue(job[t].detail, e)'
    BY DEF RecordsTheTruth
  <2>1. CASE t = s
    BY <1>1, <1>6, <1>7, <1>8, <1>9, <2>1 DEF FollowsUp, VerdictIsTrue, DetailIsTrue
  <2>2. CASE t # s
    <3>1. FollowsUp(t, e) /\ e # d /\ job'[t] = job[t] /\ rows'[e] = rows[e]
      BY <1>4, <1>5, <1>7, <1>9, <2>2
    <3> QED BY <1>1, <3>1 DEF RecordsTheTruth, VerdictIsTrue, DetailIsTrue
  <2> QED BY <2>1, <2>2
<1>13. HonestOutcome'
  BY <1>1, <1>3, <1>4 DEF HonestOutcome, VerdictIsTrue, DetailIsTrue
<1>14. UnfollowedIsInFlight'
  <2> SUFFICES ASSUME NEW e \in Deployments, rows'[e].status = "running",
                      ~rows'[e].followed, crashes = 0
               PROVE  \E t \in Sessions : job'[t].dep = e
                          /\ job'[t].pc \in {"calling", "recording", "writing"}
    BY <1>1 DEF UnfollowedIsInFlight
  <2>1. CASE e = d
    BY <1>6, <1>7, <2>1
  <2>2. CASE e # d
    <3>1. PICK t \in Sessions : job[t].dep = e
                   /\ job[t].pc \in {"calling", "recording", "writing"}
      BY <1>4, <2>2 DEF UnfollowedIsInFlight
    <3> QED BY <1>7, <1>8, <3>1
  <2> QED BY <2>1, <2>2
<1> QED BY <1>10, <1>11, <1>12, <1>13, <1>14

(* The call ends, however it does: the claimant goes on to record it.      *)
LEMMA CallEnds ==
    ASSUME GateInv, OutcomeInv, NEW s \in Sessions, NEW d \in Deployments, NEW j,
           job[s].pc = "calling", job[s].dep = d,
           job' = [job EXCEPT ![s] = j],
           j.dep = d, j.pc = "recording", j.id \/ j.out = "error",
           UNCHANGED <<rows, crashes>>,
           \A e \in Deployments \ {d} : ado'[e] = ado[e] /\ launches'[e] = launches[e],
           launches'[d] = 0 <=> ado'[d] = "absent",
           VerdictIsTrue(j.out, d)', DetailIsTrue(j.detail, d)'
    PROVE  OutcomeInv'
<1> USE DEF GateInv, OutcomeInv
<1>1. FollowsUp(s, d) /\ launches[d] = 0 /\ ado[d] = "absent"
  BY DEF FollowsUp, OneCaller, AdoHoldsLaunched
<1>2. /\ ~rows[d].followed /\ rows[d].detail = "none"
      /\ \A t \in Sessions : FollowsUp(t, d) => t = s
  BY <1>1 DEF OnlyTheClaimant
<1>3. \A t \in Sessions : job'[t] = IF t = s THEN j ELSE job[t]
  BY OneJob
<1>4. \A t \in Sessions, e \in Deployments : FollowsUp(t, e)' <=> FollowsUp(t, e)
  BY <1>1, <1>3 DEF FollowsUp
<1>5. AdoHoldsLaunched' /\ UnclaimedIsBlank'
  BY DEF AdoHoldsLaunched, UnclaimedIsBlank
<1>6. OnlyTheClaimant'
  <2>1. ASSUME NEW e \in Deployments, NEW t \in Sessions \ {s}, FollowsUp(t, e)
        PROVE  job'[t] = job[t] /\ e # d
    BY <2>1, <1>2, <1>3
  <2>2. rows[d].executed
    BY <1>1 DEF OnlyTheClaimant
  <2>3. \A e \in Deployments : FollowsUp(s, e) => e = d
    BY DEF FollowsUp
  <2> QED BY <1>2, <1>3, <1>4, <2>1, <2>2, <2>3 DEF OnlyTheClaimant
<1>7. RecordsTheTruth'
  <2> SUFFICES ASSUME NEW e \in Deployments, NEW t \in Sessions, FollowsUp(t, e)',
                      job'[t].pc \in {"recording", "writing"}
               PROVE  VerdictIsTrue(job[t].out, e)' /\ DetailIsTrue(job[t].detail, e)'
    BY DEF RecordsTheTruth
  <2>1. CASE t = s
    <3>1. e = d /\ job'[t] = j
      BY <1>3, <1>4, <2>1 DEF FollowsUp
    <3> QED BY <3>1 DEF VerdictIsTrue, DetailIsTrue
  <2>2. CASE t # s
    <3>1. FollowsUp(t, e) /\ e # d /\ job'[t] = job[t]
      BY <1>2, <1>3, <1>4, <2>2
    <3> QED BY <3>1 DEF RecordsTheTruth, VerdictIsTrue, DetailIsTrue
  <2> QED BY <2>1, <2>2
<1>8. HonestOutcome'
  BY <1>1, <1>2 DEF HonestOutcome, VerdictIsTrue, DetailIsTrue
<1>9. UnfollowedIsInFlight'
  <2> SUFFICES ASSUME NEW e \in Deployments, rows[e].status = "running",
                      ~rows[e].followed, crashes = 0
               PROVE  \E t \in Sessions : job'[t].dep = e
                          /\ job'[t].pc \in {"calling", "recording", "writing"}
    BY DEF UnfollowedIsInFlight
  <2>1. PICK t \in Sessions : job[t].dep = e
                 /\ job[t].pc \in {"calling", "recording", "writing"}
    BY DEF UnfollowedIsInFlight
  <2> QED BY <1>3, <2>1
<1> QED BY <1>5, <1>6, <1>7, <1>8, <1>9

LEMMA CallOutcome ==
    ASSUME GateInv, OutcomeInv, NEW s \in Sessions,
           CallAnswered(s) \/ CallReplyLost(s) \/ CallRefused(s) \/ CallNeverSent(s)
    PROVE  OutcomeInv'
<1> USE DEF GateInv, OutcomeInv
<1>0. PICK d \in Deployments : job[s].dep = d /\ job[s].pc = "calling"
  BY DEF JobsAreBound, CallAnswered, CallReplyLost, CallRefused, CallNeverSent
<1>1. launches[d] = 0 /\ ado[d] = "absent" /\ rows[d] \in Row
  BY <1>0 DEF OneCaller, AdoHoldsLaunched, TypeOK
<1>2. UNCHANGED <<rows, crashes>>
  BY DEF CallAnswered, CallReplyLost, CallRefused, CallNeverSent
<1>3. CASE CallAnswered(s) \/ CallReplyLost(s)
  <2>1. /\ launches' = [launches EXCEPT ![d] = launches[d] + 1]
        /\ ado' = [ado EXCEPT ![d] = IF rows[d].action = "create_pipeline"
                                     THEN "created" ELSE "active"]
    BY <1>0, <1>3 DEF CallAnswered, CallReplyLost, AdoAccepts
  <2>2. /\ \A e \in Deployments \ {d} : ado'[e] = ado[e] /\ launches'[e] = launches[e]
        /\ launches'[d] # 0 /\ ado'[d] # "absent"
        /\ rows[d].action = "create_pipeline" => ado'[d] = "created"
    BY <1>1, <2>1 DEF TypeOK
  <2>3. CASE CallAnswered(s)
    <3> DEFINE j == Recording(d, AnsweredStatus(d), TRUE, "none")
    <3>1. job' = [job EXCEPT ![s] = j]
      BY <1>0, <2>3 DEF CallAnswered
    <3>2. /\ j.dep = d /\ j.pc = "recording" /\ j.id
          /\ j.out = AnsweredStatus(d) /\ j.detail = "none"
      BY DEF Recording, Idle
    <3> HIDE DEF j
    <3>3. PICK k : k = j
      OBVIOUS
    <3>4. VerdictIsTrue(k.out, d)' /\ DetailIsTrue(k.detail, d)'
      BY <2>2, <3>2, <3>3 DEF VerdictIsTrue, DetailIsTrue, AnsweredStatus
    <3> QED BY <1>0, <1>2, <2>2, <3>1, <3>2, <3>3, <3>4, CallEnds
  <2>4. CASE CallReplyLost(s)
    <3> DEFINE j == Recording(d, "error", FALSE, SentDetail(d))
    <3>1. job' = [job EXCEPT ![s] = j]
      BY <1>0, <2>4 DEF CallReplyLost
    <3>2. /\ j.dep = d /\ j.pc = "recording"
          /\ j.out = "error" /\ j.detail = SentDetail(d)
      BY DEF Recording, Idle
    <3> HIDE DEF j
    <3>3. PICK k : k = j
      OBVIOUS
    <3>4. VerdictIsTrue(k.out, d)' /\ DetailIsTrue(k.detail, d)'
      BY <1>2, <3>2, <3>3 DEF VerdictIsTrue, DetailIsTrue, SentDetail
    <3> QED BY <1>0, <1>2, <2>2, <3>1, <3>2, <3>3, <3>4, CallEnds
  <2> QED BY <1>3, <2>3, <2>4
<1>4. CASE CallRefused(s) \/ CallNeverSent(s)
  <2>1. UNCHANGED <<ado, launches>>
    BY <1>4 DEF CallRefused, CallNeverSent
  <2>2. PICK detail : job' = [job EXCEPT ![s] = Recording(d, "error", FALSE, detail)]
                      /\ detail \in {SentDetail(d), "nothing_sent"}
    BY <1>0, <1>4 DEF CallRefused, CallNeverSent
  <2>3. PICK j : j = Recording(d, "error", FALSE, detail)
    OBVIOUS
  <2>4. j.dep = d /\ j.pc = "recording" /\ j.out = "error" /\ j.detail = detail
    BY <2>3 DEF Recording, Idle
  <2>5. VerdictIsTrue(j.out, d)' /\ DetailIsTrue(j.detail, d)'
    BY <1>1, <2>1, <2>4 DEF VerdictIsTrue, DetailIsTrue
  <2> QED BY <1>0, <1>1, <1>2, <2>1, <2>2, <2>3, <2>4, <2>5, CallEnds
<1> QED BY <1>3, <1>4

(* Only one request's state moves: it loads the row, polls, gives up, dies. *)
LEMMA FollowUpMoves ==
    ASSUME GateInv, OutcomeInv, TypeOK', NEW s \in Sessions, NEW d \in Deployments, NEW j,
           job' = [job EXCEPT ![s] = j], UNCHANGED <<rows, ado, launches>>,
           j.pc \in {"idle", "polling", "recording", "writing"},
           j.pc # "idle" =>
               /\ j.dep = d /\ rows[d].executed
               /\ ~rows[d].followed =>
                     /\ FollowsUp(s, d) /\ j.pc # "polling"
                     /\ j.pc \in {"recording", "writing"} => j.id \/ j.out = "error"
                     /\ j.pc = "writing" => j.seen = rows[d].status,
           j.pc \in {"recording", "writing"} =>
               VerdictIsTrue(j.out, d) /\ DetailIsTrue(j.detail, d),
           \/ crashes' # 0
           \/ /\ crashes' = crashes
              /\ \A e \in Deployments : FollowsUp(s, e) /\ ~rows[e].followed =>
                     j.dep = e /\ j.pc \in {"recording", "writing"}
    PROVE  OutcomeInv'
<1> USE DEF GateInv, OutcomeInv
<1>1. \A t \in Sessions : job'[t] = IF t = s THEN j ELSE job[t]
  BY OneJob
<1>2. AdoHoldsLaunched' /\ UnclaimedIsBlank'
  BY DEF AdoHoldsLaunched, UnclaimedIsBlank
<1>3. HonestOutcome'
  BY DEF HonestOutcome, VerdictIsTrue, DetailIsTrue
<1>4. ASSUME NEW e \in Deployments, NEW t \in Sessions \ {s}
      PROVE  job'[t] = job[t] /\ (FollowsUp(t, e)' <=> FollowsUp(t, e))
  BY <1>1 DEF FollowsUp
<1>5. ASSUME NEW e \in Deployments, FollowsUp(s, e)'
      PROVE  job'[s] = j /\ e = d /\ j.pc # "idle"
  BY <1>1, <1>5 DEF FollowsUp
<1>6. OnlyTheClaimant'
  BY <1>4, <1>5 DEF OnlyTheClaimant
<1>7. RecordsTheTruth'
  <2> SUFFICES ASSUME NEW e \in Deployments, NEW t \in Sessions, FollowsUp(t, e)',
                      job'[t].pc \in {"recording", "writing"}
               PROVE  VerdictIsTrue(job[t].out, e)' /\ DetailIsTrue(job[t].detail, e)'
    BY DEF RecordsTheTruth
  <2>1. CASE t = s
    BY <1>5, <2>1 DEF VerdictIsTrue, DetailIsTrue
  <2>2. CASE t # s
    BY <1>4, <2>2 DEF RecordsTheTruth, VerdictIsTrue, DetailIsTrue
  <2> QED BY <2>1, <2>2
<1>8. UnfollowedIsInFlight'
  <2> SUFFICES ASSUME NEW e \in Deployments, rows[e].status = "running",
                      ~rows[e].followed, crashes' = 0
               PROVE  \E t \in Sessions : job'[t].dep = e
                          /\ job'[t].pc \in {"calling", "recording", "writing"}
    BY DEF UnfollowedIsInFlight
  <2>1. PICK t \in Sessions : job[t].dep = e
                 /\ job[t].pc \in {"calling", "recording", "writing"}
    BY DEF UnfollowedIsInFlight
  <2>2. CASE t = s
    BY <1>1, <2>1, <2>2 DEF FollowsUp
  <2>3. CASE t # s
    BY <1>1, <2>1, <2>3
  <2> QED BY <2>2, <2>3
<1> QED BY <1>2, <1>3, <1>6, <1>7, <1>8

(* What a step of the rest of the executor or of a refresh, or a crash, is. *)
LEMMA MoveOutcome ==
    ASSUME GateInv, OutcomeInv, TypeOK', NEW s \in Sessions,
           \/ \E d \in Deployments : RefreshRead(s, d)
           \/ RecordLoad(s) \/ RefreshPoll(s) \/ RefreshUnreadable(s) \/ Crash(s)
    PROVE  OutcomeInv'
<1> USE DEF GateInv, OutcomeInv
<1>0. UNCHANGED <<rows, ado, launches>>
  BY DEF RefreshRead, RecordLoad, RefreshPoll, RefreshUnreadable, Crash
<1>1. ASSUME NEW d \in Deployments, RefreshRead(s, d)
      PROVE  OutcomeInv'
  <2>1. PICK j : j = [Idle EXCEPT !.pc = "polling", !.dep = d]
    OBVIOUS
  <2>2. j.pc = "polling" /\ j.dep = d
    BY <2>1 DEF Idle
  <2>3. /\ job' = [job EXCEPT ![s] = j] /\ crashes' = crashes
        /\ rows[d].followed /\ job[s].pc = "idle"
    BY <1>1, <2>1 DEF RefreshRead
  <2>4. rows[d].executed
    BY <2>3 DEF UnclaimedIsBlank
  <2> QED BY <1>0, <2>2, <2>3, <2>4, FollowUpMoves DEF FollowsUp
<1>2. CASE RecordLoad(s)
  <2>1. PICK d \in Deployments : job[s].dep = d /\ job[s] \in Job /\ job[s].pc = "recording"
    BY <1>2, StepperHasRow DEF RecordLoad
  <2>2. PICK j : j = [job[s] EXCEPT !.pc = "writing", !.seen = rows[d].status]
    OBVIOUS
  <2>3. /\ j.pc = "writing" /\ j.dep = d /\ j.seen = rows[d].status
        /\ j.out = job[s].out /\ j.id = job[s].id /\ j.detail = job[s].detail
    BY <2>1, <2>2 DEF Job
  <2>4. job' = [job EXCEPT ![s] = j] /\ crashes' = crashes
    BY <1>2, <2>1, <2>2 DEF RecordLoad
  <2>5. FollowsUp(s, d) /\ (\A e \in Deployments : FollowsUp(s, e) => e = d)
    BY <2>1 DEF FollowsUp
  <2>6. rows[d].executed /\ (~rows[d].followed => j.id \/ j.out = "error")
    BY <2>1, <2>3, <2>5 DEF OnlyTheClaimant
  <2>7. VerdictIsTrue(j.out, d) /\ DetailIsTrue(j.detail, d)
    BY <2>1, <2>3, <2>5 DEF RecordsTheTruth
  <2> QED BY <1>0, <2>3, <2>4, <2>5, <2>6, <2>7, FollowUpMoves
<1>3. CASE RefreshPoll(s)
  <2>1. PICK d \in Deployments : job[s].dep = d /\ job[s].pc = "polling"
    BY <1>3, StepperHasRow DEF RefreshPoll
  <2>2. rows[d].executed /\ rows[d].followed
    BY <2>1 DEF OnlyTheClaimant, FollowsUp
  <2>3. PICK j : j = Recording(d, StatusOfRun(ado[d]), FALSE, "none")
    OBVIOUS
  <2>4. /\ j.pc = "recording" /\ j.dep = d
        /\ j.out = StatusOfRun(ado[d]) /\ j.detail = "none"
    BY <2>3 DEF Recording, Idle
  <2>5. job' = [job EXCEPT ![s] = j] /\ crashes' = crashes
    BY <1>3, <2>1, <2>3 DEF RefreshPoll
  <2>6. VerdictIsTrue(j.out, d) /\ DetailIsTrue(j.detail, d)
    <3>1. ado[d] \in {"absent", "active", "created"} \cup RunResults
      BY DEF TypeOK
    <3> QED BY <2>4, <3>1
            DEF VerdictIsTrue, DetailIsTrue, StatusOfRun, RunResults, TerminalStatus
  <2>7. \A e \in Deployments : FollowsUp(s, e) => rows[e].followed
    BY <2>1, <2>2 DEF FollowsUp
  <2> QED BY <1>0, <2>2, <2>4, <2>5, <2>6, <2>7, FollowUpMoves
<1>4. CASE RefreshUnreadable(s)
  <2>1. job' = [job EXCEPT ![s] = Idle] /\ crashes' = crashes /\ job[s].pc = "polling"
    BY <1>4 DEF RefreshUnreadable
  <2>2. \A e \in Deployments : FollowsUp(s, e) => rows[e].followed
    BY <2>1 DEF OnlyTheClaimant
  <2>3. job[s].dep \in Deployments /\ Idle.pc = "idle"
    BY <1>4, StepperHasRow DEF RefreshUnreadable, Idle
  <2> QED BY <1>0, <2>1, <2>2, <2>3, FollowUpMoves
<1>5. CASE Crash(s)
  <2>1. job' = [job EXCEPT ![s] = Idle] /\ crashes' # 0
    BY <1>5 DEF Crash, TypeOK
  <2>2. job[s].dep \in Deployments /\ Idle.pc = "idle"
    BY <1>5, StepperHasRow DEF Crash, Idle
  <2> QED BY <1>0, <2>1, <2>2, FollowUpMoves
<1> QED BY <1>1, <1>2, <1>3, <1>4, <1>5

LEMMA WriteOutcome ==
    ASSUME GateInv, OutcomeInv, TypeOK', NEW s \in Sessions, RecordWrite(s)
    PROVE  OutcomeInv'
<1> USE DEF GateInv, OutcomeInv
<1>1. PICK d \in Deployments :
          /\ job[s].dep = d /\ job[s].pc = "writing"
          /\ job[s] \in Job /\ rows[d] \in Row
  BY StepperHasRow DEF RecordWrite
<1>2. FollowsUp(s, d) /\ (\A e \in Deployments : FollowsUp(s, e) => e = d)
  BY <1>1 DEF FollowsUp
<1>3. /\ rows[d].executed
      /\ ~rows[d].followed => /\ \A t \in Sessions : FollowsUp(t, d) => t = s
                              /\ job[s].id \/ job[s].out = "error"
                              /\ job[s].seen = rows[d].status
  BY <1>1, <1>2 DEF OnlyTheClaimant
<1>4. VerdictIsTrue(job[s].out, d) /\ DetailIsTrue(job[s].detail, d)
  BY <1>1, <1>2 DEF RecordsTheTruth
<1>5. /\ rows' = [rows EXCEPT ![d] = Recorded(rows[d], job[s])]
      /\ job' = [job EXCEPT ![s] = Idle] /\ UNCHANGED <<ado, launches, crashes>>
  BY <1>1 DEF RecordWrite
<1>6. /\ rows'[d].executed
      /\ rows'[d].action = rows[d].action
      /\ rows'[d].status = IF job[s].out = job[s].seen THEN rows[d].status ELSE job[s].out
      /\ rows'[d].followed <=> rows[d].followed \/ job[s].id
      /\ rows'[d].detail = job[s].detail
  BY <1>1, <1>3, <1>5 DEF TypeOK, Recorded, KeepsId, Row, Job
<1>7. \A e \in Deployments \ {d} : rows'[e] = rows[e]
  BY <1>5 DEF TypeOK
<1>8. \A t \in Sessions : job'[t] = IF t = s THEN Idle ELSE job[t]
  BY <1>5, OneJob
<1>9. \A t \in Sessions, e \in Deployments : FollowsUp(t, e)' <=> t # s /\ FollowsUp(t, e)
  BY <1>8 DEF FollowsUp, Idle
<1>10. AdoHoldsLaunched' /\ UnclaimedIsBlank'
  BY <1>5, <1>6, <1>7 DEF AdoHoldsLaunched, UnclaimedIsBlank
<1>11. OnlyTheClaimant'
  <2> SUFFICES ASSUME NEW e \in Deployments, NEW t \in Sessions \ {s}, FollowsUp(t, e)
               PROVE  /\ rows'[e].executed
                      /\ ~rows'[e].followed =>
                           /\ \A u \in Sessions \ {s} : FollowsUp(u, e) => u = t
                           /\ job[t].pc # "polling"
                           /\ job[t].pc \in {"recording", "writing"} =>
                                  job[t].id \/ job[t].out = "error"
                           /\ job[t].pc = "writing" => job[t].seen = rows'[e].status
                      /\ job[t].pc = "calling" => ~rows'[e].followed /\ rows'[e].detail = "none"
    BY <1>8, <1>9 DEF OnlyTheClaimant
  <2>1. CASE e = d
    BY <1>3, <1>6, <2>1 DEF OnlyTheClaimant
  <2>2. CASE e # d
    BY <1>7, <2>2 DEF OnlyTheClaimant
  <2> QED BY <2>1, <2>2
<1>12. RecordsTheTruth'
  <2> SUFFICES ASSUME NEW e \in Deployments, NEW t \in Sessions \ {s}, FollowsUp(t, e),
                      job[t].pc \in {"recording", "writing"}, job'[t] = job[t]
               PROVE  VerdictIsTrue(job[t].out, e)' /\ DetailIsTrue(job[t].detail, e)'
    BY <1>8, <1>9 DEF RecordsTheTruth
  <2>1. rows'[e].action = rows[e].action
    BY <1>6, <1>7
  <2> QED BY <1>5, <2>1 DEF RecordsTheTruth, VerdictIsTrue, DetailIsTrue
<1>13. HonestOutcome'
  <2>1. ASSUME NEW e \in Deployments \ {d}
        PROVE  VerdictIsTrue(rows[e].status, e)' /\ DetailIsTrue(rows[e].detail, e)'
    BY <1>5, <1>7, <2>1 DEF HonestOutcome, VerdictIsTrue, DetailIsTrue
  <2>2. VerdictIsTrue(rows[d].status, d)'
    BY <1>4, <1>5, <1>6 DEF HonestOutcome, VerdictIsTrue
  <2>3. DetailIsTrue(rows[d].detail, d)'
    BY <1>4, <1>5, <1>6 DEF DetailIsTrue
  <2> QED BY <2>1, <2>2, <2>3 DEF HonestOutcome
<1>14. UnfollowedIsInFlight'
  <2> SUFFICES ASSUME NEW e \in Deployments, rows'[e].status = "running",
                      ~rows'[e].followed, crashes = 0
               PROVE  \E t \in Sessions : job'[t].dep = e
                          /\ job'[t].pc \in {"calling", "recording", "writing"}
    BY <1>5 DEF UnfollowedIsInFlight
  <2>1. e # d
    BY <1>3, <1>6
  <2>2. PICK t \in Sessions : job[t].dep = e
                 /\ job[t].pc \in {"calling", "recording", "writing"}
    BY <1>7, <2>1 DEF UnfollowedIsInFlight
  <2> QED BY <1>1, <1>8, <2>1, <2>2
<1> QED BY <1>10, <1>11, <1>12, <1>13, <1>14

LEMMA FinishOutcome ==
    ASSUME GateInv, OutcomeInv, NEW d \in Deployments, NEW r \in RunResults, AdoFinishes(d, r)
    PROVE  OutcomeInv'
<1> USE DEF GateInv, OutcomeInv
<1>1. /\ ado[d] = "active" /\ ado'[d] = r
      /\ \A e \in Deployments \ {d} : ado'[e] = ado[e]
      /\ UNCHANGED <<rows, job, launches, crashes>>
  BY DEF AdoFinishes, TypeOK
<1>2. AdoHoldsLaunched' /\ UnclaimedIsBlank' /\ OnlyTheClaimant' /\ UnfollowedIsInFlight'
  BY <1>1 DEF AdoHoldsLaunched, UnclaimedIsBlank, OnlyTheClaimant, FollowsUp,
              UnfollowedIsInFlight, RunResults
<1>3. RecordsTheTruth' /\ HonestOutcome'
  BY <1>1 DEF RecordsTheTruth, HonestOutcome, FollowsUp, VerdictIsTrue, DetailIsTrue
<1> QED BY <1>2, <1>3

LEMMA OutcomeStep == GateInv /\ OutcomeInv /\ [Next]_vars => OutcomeInv'
<1> SUFFICES ASSUME GateInv, OutcomeInv, [Next]_vars PROVE OutcomeInv'
  OBVIOUS
<1>1. TypeOK'
  BY GateInvStep DEF GateInv
<1>2. ASSUME NEW d \in Deployments, NEW u \in Users, NEW a \in GatedActions,
             RequestDeployment(d, u, a)
      PROVE  OutcomeInv'
  BY <1>1, <1>2, RequestOutcome
<1>3. ASSUME NEW s \in Sessions, NEW d \in Deployments, Arrive(s, d)
      PROVE  OutcomeInv'
  BY <1>1, <1>3, DecisionOutcome, ClaimOutcome, MoveOutcome DEF Arrive
<1>4. ASSUME NEW s \in Sessions, Continue(s) \/ Crash(s)
      PROVE  OutcomeInv'
  BY <1>1, <1>4, DecisionOutcome, CallOutcome, MoveOutcome, WriteOutcome DEF Continue
<1>5. ASSUME NEW d \in Deployments, NEW r \in RunResults, AdoFinishes(d, r)
      PROVE  OutcomeInv'
  BY <1>5, FinishOutcome
<1>6. CASE UNCHANGED vars
  <2>1. \A t \in Sessions, e \in Deployments : FollowsUp(t, e)' <=> FollowsUp(t, e)
    BY <1>6 DEF FollowsUp, vars
  <2> QED BY <1>1, <1>6, <2>1, SameReport DEF vars
<1> QED BY <1>2, <1>3, <1>4, <1>5, <1>6 DEF Next

LEMMA OutcomeInvariant == Spec => []OutcomeInv
<1>1. GateInv /\ OutcomeInv /\ [Next]_vars => OutcomeInv'
  BY OutcomeStep
<1> QED BY <1>1, OutcomeInit, GateInvariant, PTL DEF Spec

(* What a row reports about its deployment is what Azure DevOps holds, in  *)
(* whatever order outcomes, refreshes and lost replies are recorded.       *)
THEOREM ReportsAreTrue == Spec => []HonestOutcome
<1>1. OutcomeInv => HonestOutcome
  BY DEF OutcomeInv
<1> QED BY <1>1, OutcomeInvariant, PTL

(* A claim nobody can follow is still being worked on, unless a request    *)
(* died: no order of writes leaves a row "running" with nobody behind it.  *)
THEOREM NoClaimIsOrphaned == Spec => []UnfollowedIsInFlight
<1>1. OutcomeInv => UnfollowedIsInFlight
  BY DEF OutcomeInv
<1> QED BY <1>1, OutcomeInvariant, PTL

-----------------------------------------------------------------------------
(* A run that has finished in ADO stays as it finished.                    *)
LEMMA FinishedRunStays ==
    ASSUME GateInv, OutcomeInv, [Next]_vars, NEW d \in Deployments,
           ado[d] \notin {"absent", "active"}
    PROVE  ado'[d] = ado[d]
<1> USE DEF GateInv, OutcomeInv
<1>1. ASSUME NEW s \in Sessions, CallAnswered(s) \/ CallReplyLost(s)
      PROVE  ado'[d] = ado[d]
  <2>1. job[s].dep # d
    BY <1>1 DEF CallAnswered, CallReplyLost, OneCaller, AdoHoldsLaunched
  <2> QED BY <1>1, <2>1 DEF CallAnswered, CallReplyLost, AdoAccepts, TypeOK
<1>2. ASSUME NEW e \in Deployments, NEW r \in RunResults, AdoFinishes(e, r)
      PROVE  ado'[d] = ado[d]
  BY <1>2 DEF AdoFinishes, TypeOK
<1>3. CASE ado' = ado
  BY <1>3
<1> QED
  BY <1>1, <1>2, <1>3
     DEF Next, Arrive, Continue, vars, RequestDeployment, ApproveLoad, RejectLoad, Claim,
         RefreshRead, ApproveCommit, RejectCommit, CallRefused, CallNeverSent, RecordLoad,
         RecordWrite, RefreshPoll, RefreshUnreadable, Crash

(* Two verdicts a row reports, one after the other, are the same verdict:  *)
(* both are what ADO holds, and ADO does not change its mind.              *)
THEOREM OneVerdict == Spec => VerdictNeverContradicted
<1>1. GateInv /\ OutcomeInv /\ OutcomeInv' /\ [Next]_vars =>
         [\A d \in Deployments :
             /\ rows[d].status \in TerminalStatus
             /\ rows'[d].status \in TerminalStatus
             => rows'[d].status = rows[d].status]_vars
  <2> SUFFICES ASSUME GateInv, OutcomeInv, OutcomeInv', [Next]_vars,
                      NEW d \in Deployments, rows[d].status \in TerminalStatus,
                      rows'[d].status \in TerminalStatus
               PROVE  rows'[d].status = rows[d].status
    OBVIOUS
  <2>1. VerdictIsTrue(rows[d].status, d)
    BY DEF OutcomeInv, HonestOutcome
  <2>2. VerdictIsTrue(rows[d].status, d)'
    BY DEF OutcomeInv, HonestOutcome
  <2>3. ado'[d] = ado[d]
    BY <2>1, FinishedRunStays DEF VerdictIsTrue, TerminalStatus
  <2> QED BY <2>1, <2>2, <2>3 DEF VerdictIsTrue, TerminalStatus
<1> QED BY <1>1, GateInvariant, OutcomeInvariant, PTL DEF Spec, VerdictNeverContradicted
=============================================================================
