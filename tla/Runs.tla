-------------------------------- MODULE Runs --------------------------------
(***************************************************************************)
(* The life of a row of runs in src/backend.  Four kinds of writer meet on *)
(* it, and none of them locks it or states its condition in the UPDATE:    *)
(* the routes of shared/routers/runs.py, the artifact-event listener every *)
(* API process runs (process_api.py), the RunSweeper, and the agents'      *)
(* turns.  Each loads the row, judges its copy and writes by primary key.  *)
(* The ORM writes only the columns whose value differs from the loaded     *)
(* one, and a write to a row that is gone fails.                           *)
(***************************************************************************)
EXTENDS Naturals, Sequences, FiniteSets

CONSTANTS
    RunIds, Users, Sessions, Procs, None,
    Published,   \* artifact types handed to publish_artifact_ready
    Approvers,   \* Approvers[stage]: who holds the stage's permission or
                 \* administers the project
    BornAt,      \* stages at which chats and ingested boards open runs
    MaxEvents,   \* bound: published artifact events
    MaxDecisions \* bound: recorded decisions

Stages == {"requirements", "design", "development", "testing", "deployment"}
Operations == {"decide", "cancel", "delete"}

ASSUME RunsAssumption ==
    /\ Approvers \in [Stages -> SUBSET Users]
    /\ None \notin Users \cup RunIds /\ BornAt \subseteq Stages
    /\ MaxEvents \in Nat /\ MaxDecisions \in Nat

VARIABLES
    run,       \* run[r]: the row
    req,       \* req[s]: the request a session serves, with the row it loaded
    inbox,     \* inbox[p]: artifact events delivered to p's subscription
    listener,  \* listener[p]: the row p's listener has loaded for the first event
    sweep,     \* the runs the sweeper has read and is about to write
    events,    \* history: events published
    raised,    \* history: raised[r], how often r's gate was opened
    answered   \* history: answered[r], decisions recorded on a gate seen open

vars == <<run, req, inbox, listener, sweep, events, raised, answered>>
others == <<inbox, listener, sweep, events, raised, answered>>

Statuses == {"none", "running", "completed", "cancelled", "deleted"}
Row == [status : Statuses, stage : Stages, gate : BOOLEAN,
        by : Users \cup {None}, idle : BOOLEAN]
Absent == [status |-> "none", stage |-> "requirements", gate |-> FALSE,
           by |-> None, idle |-> FALSE]
\* What a loaded copy tells its holder later: the rest of the row is judged
\* when it is loaded, or never changes (by).
View == [stage : Stages, gate : BOOLEAN]
NoView == [stage |-> "requirements", gate |-> FALSE]
Seen(r) == [stage |-> run[r].stage, gate |-> run[r].gate]
Free == [op |-> "free", user |-> None, id |-> None, view |-> NoView]
Waiting == [loaded |-> FALSE, view |-> NoView]

TypeOK ==
    /\ run \in [RunIds -> Row]
    /\ req \in [Sessions -> [op : Operations \cup {"free"}, user : Users \cup {None},
                             id : RunIds \cup {None}, view : View]]
    /\ inbox \in [Procs -> Seq([id : RunIds, type : Published])]
    /\ listener \in [Procs -> [loaded : BOOLEAN, view : View]]
    /\ sweep \in SUBSET RunIds
    /\ events \in Nat
    /\ raised \in [RunIds -> Nat] /\ answered \in [RunIds -> Nat]

Init ==
    /\ run = [r \in RunIds |-> Absent]
    /\ req = [s \in Sessions |-> Free]
    /\ inbox = [p \in Procs |-> <<>>]
    /\ listener = [p \in Procs |-> Waiting]
    /\ sweep = {} /\ events = 0
    /\ raised = [r \in RunIds |-> 0] /\ answered = [r \in RunIds |-> 0]

Exists(r) == run[r].status \notin {"none", "deleted"}

----------------------------------------------------------------------------
(* Creation and turns *)

\* POST /runs: running, at the first stage, with its initiator.
Create(r, u) ==
    /\ run[r].status = "none"
    /\ run' = [run EXCEPT ![r] = [Absent EXCEPT !.status = "running", !.by = u]]
    /\ UNCHANGED <<req, others>>

\* A chat's run for its files, or an ingested board: born completed.
CreateCompleted(r, st, u) ==
    /\ run[r].status = "none"
    /\ run' = [run EXCEPT ![r] =
                 [Absent EXCEPT !.status = "completed", !.stage = st, !.by = u]]
    /\ UNCHANGED <<req, others>>

\* A turn persists its artifact on the row, whatever the run's status.
Turn(r) ==
    /\ Exists(r)
    /\ run' = [run EXCEPT ![r].idle = FALSE]
    /\ UNCHANGED <<req, others>>

\* RUN_STALE_HOURS pass without an UPDATE.
GoStale(r) ==
    /\ Exists(r) /\ ~ run[r].idle
    /\ run' = [run EXCEPT ![r].idle = TRUE]
    /\ UNCHANGED <<req, others>>

----------------------------------------------------------------------------
(* Artifact events: Redis pub/sub, delivered to every listening process *)

Publish(r, t) ==
    /\ Exists(r) /\ events < MaxEvents
    /\ inbox' = [p \in Procs |-> Append(inbox[p], [id |-> r, type |-> t])]
    /\ events' = events + 1
    /\ UNCHANGED <<run, req, listener, sweep, raised, answered>>

\* Mutant of Routing: a stage name that does not exist.
RoutingMisspelt ==
    [requirements |-> "design", design |-> "dev",
     development |-> "testing", testing |-> "deployment"]

\* _ORCHESTRATOR_ROUTING.
Routing ==
    [requirements |-> "design", design |-> "development",
     development |-> "testing", testing |-> "deployment"]

Routed(m) == m.type \in DOMAIN Routing /\ Exists(m.id)

Skip(p) ==
    /\ inbox[p] # <<>> /\ ~ listener[p].loaded /\ ~ Routed(Head(inbox[p]))
    /\ inbox' = [inbox EXCEPT ![p] = Tail(@)]
    /\ UNCHANGED <<run, req, listener, sweep, events, raised, answered>>

Load(p) ==
    /\ inbox[p] # <<>> /\ ~ listener[p].loaded /\ Routed(Head(inbox[p]))
    /\ listener' = [listener EXCEPT ![p] =
                      [loaded |-> TRUE, view |-> Seen(Head(inbox[p]).id)]]
    /\ UNCHANGED <<run, req, inbox, sweep, events, raised, answered>>

\* The row with stage and gate set, as the ORM emits it: a column whose loaded
\* value is already the new one is not written.
Advanced(r, view, next) ==
    IF view.stage = next /\ view.gate THEN run[r]
    ELSE [run[r] EXCEPT !.stage = IF view.stage = next THEN @ ELSE next,
                        !.gate = IF view.gate THEN @ ELSE TRUE,
                        !.idle = FALSE]

Advance(p) ==
    /\ listener[p].loaded
    /\ LET r == Head(inbox[p]).id
           row == Advanced(r, listener[p].view, Routing[Head(inbox[p]).type])
       IN IF Exists(r)
          THEN /\ run' = [run EXCEPT ![r] = row]
               /\ raised' = IF row.gate /\ ~ run[r].gate
                            THEN [raised EXCEPT ![r] = @ + 1] ELSE raised
          ELSE UNCHANGED <<run, raised>>   \* StaleDataError, logged
    /\ inbox' = [inbox EXCEPT ![p] = Tail(@)]
    /\ listener' = [listener EXCEPT ![p] = Waiting]
    /\ UNCHANGED <<req, sweep, events, answered>>

\* The process restarts, or Redis drops the subscription: pub/sub keeps nothing.
ListenerRestarts(p) ==
    /\ inbox[p] # <<>>
    /\ inbox' = [inbox EXCEPT ![p] = <<>>]
    /\ listener' = [listener EXCEPT ![p] = Waiting]
    /\ UNCHANGED <<run, req, sweep, events, raised, answered>>

----------------------------------------------------------------------------
(* The routes of runs.py: load and judge, then write *)

\* The statuses cancel_run leaves alone; of these the model has one.
CancelNoOp == {"approved", "rejected", "failed", "merged", "cancelled"}

\* Mutant of MayDecide: the initiator is not looked at.
MayDecideOwn(u, row) == u \in Approvers[row.stage]

\* record_approval: the permission of the stage seen, never the initiator.
MayDecide(u, row) == u \in Approvers[row.stage] /\ row.by # u

AskCancel(s, r) ==
    /\ req[s] = Free /\ Exists(r) /\ run[r].status \notin CancelNoOp
    /\ req' = [req EXCEPT ![s] = [Free EXCEPT !.op = "cancel", !.id = r]]
    /\ UNCHANGED <<run, others>>

\* Approve or reject: the route does the same with the row for both.
AskDecision(s, u, r) ==
    /\ req[s] = Free /\ Exists(r) /\ MayDecide(u, run[r])
    /\ req' = [req EXCEPT ![s] = [op |-> "decide", user |-> u, id |-> r, view |-> Seen(r)]]
    /\ UNCHANGED <<run, others>>

AskDelete(s, r) ==
    /\ req[s] = Free /\ Exists(r)
    /\ req' = [req EXCEPT ![s] = [Free EXCEPT !.op = "delete", !.id = r]]
    /\ UNCHANGED <<run, others>>

Cancel(s) ==
    /\ req[s].op = "cancel"
    /\ run' = IF Exists(req[s].id)
              THEN [run EXCEPT ![req[s].id].status = "cancelled",
                               ![req[s].id].idle = FALSE]
              ELSE run
    /\ req' = [req EXCEPT ![s] = Free]
    /\ UNCHANGED others

\* A decision on a gate its copy shows open: the flag and the audit row commit
\* together, and nothing commits when the row is gone.
Decide(s) ==
    /\ req[s].op = "decide" /\ req[s].view.gate
    /\ LET r == req[s].id IN
         IF Exists(r)
         THEN /\ answered[r] < MaxDecisions
              /\ run' = [run EXCEPT ![r].gate = FALSE, ![r].idle = FALSE]
              /\ answered' = [answered EXCEPT ![r] = @ + 1]
         ELSE UNCHANGED <<run, answered>>
    /\ req' = [req EXCEPT ![s] = Free]
    /\ UNCHANGED <<inbox, listener, sweep, events, raised>>

\* Mutant of DecideNothing: the flag is cleared in the row, not in the copy.
DecideNothingBlindly(s) ==
    /\ req[s].op = "decide" /\ ~ req[s].view.gate
    /\ run' = IF Exists(req[s].id) THEN [run EXCEPT ![req[s].id].gate = FALSE] ELSE run
    /\ req' = [req EXCEPT ![s] = Free]
    /\ UNCHANGED others

\* A decision on a gate its copy shows closed writes its audit row and no
\* column of the run.
DecideNothing(s) ==
    /\ req[s].op = "decide" /\ ~ req[s].view.gate
    /\ req' = [req EXCEPT ![s] = Free]
    /\ UNCHANGED <<run, others>>

Delete(s) ==
    /\ req[s].op = "delete"
    /\ run' = IF Exists(req[s].id)
              THEN [run EXCEPT ![req[s].id] = [Absent EXCEPT !.status = "deleted"]]
              ELSE run
    /\ req' = [req EXCEPT ![s] = Free]
    /\ UNCHANGED others

----------------------------------------------------------------------------
(* RunSweeper.sweep_once *)

\* Mutant of Sweepable: the cutoff is compared the wrong way round.
SweepableFresh(r) == run[r].status = "running" /\ ~ run[r].gate /\ ~ run[r].idle

Sweepable(r) == run[r].status = "running" /\ ~ run[r].gate /\ run[r].idle

SweepRead ==
    /\ sweep = {} /\ \E r \in RunIds : Sweepable(r)
    /\ sweep' = {r \in RunIds : Sweepable(r)}
    /\ UNCHANGED <<run, req, inbox, listener, events, raised, answered>>

\* One flush for all of them: a row deleted meanwhile fails the whole sweep,
\* and the loop tries again at the next interval.
SweepWrite ==
    /\ sweep # {}
    /\ run' = IF \A r \in sweep : Exists(r)
              THEN [r \in RunIds |->
                      IF r \in sweep
                      THEN [run[r] EXCEPT !.status = "cancelled", !.idle = FALSE]
                      ELSE run[r]]
              ELSE run
    /\ sweep' = {}
    /\ UNCHANGED <<req, inbox, listener, events, raised, answered>>

Next ==
    \/ \E r \in RunIds :
         \/ \E u \in Users : Create(r, u)
         \/ \E st \in BornAt, u \in Users \cup {None} : CreateCompleted(r, st, u)
         \/ Turn(r) \/ GoStale(r)
         \/ \E t \in Published : Publish(r, t)
         \/ \E s \in Sessions :
              \/ AskCancel(s, r) \/ AskDelete(s, r)
              \/ \E u \in Users : AskDecision(s, u, r)
    \/ \E p \in Procs : Skip(p) \/ Load(p) \/ Advance(p) \/ ListenerRestarts(p)
    \/ \E s \in Sessions : Cancel(s) \/ Decide(s) \/ DecideNothing(s) \/ Delete(s)
    \/ SweepRead \/ SweepWrite

Spec == Init /\ [][Next]_vars

\* RunSweeper.run never ends: it sweeps, survives a failed sweep and sleeps.
FairSpec == Spec /\ WF_vars(SweepRead) /\ WF_vars(SweepWrite)

----------------------------------------------------------------------------
(* Properties *)

\* No gate closes unanswered: every time an existing run's gate was opened,
\* it is either still open or a decision taken on an open gate is on record,
\* however events, cancellations, sweeps and decisions interleave.
UnansweredStaysOpen ==
    \A r \in RunIds :
        Exists(r) => raised[r] <= answered[r] + (IF run[r].gate THEN 1 ELSE 0)

\* An open gate of a run that stays is closed only by somebody who saw one
\* open, held the permission of the stage it was seen at and did not start
\* the run.
GateClosesUnderFourEyes ==
    [][\A r \in RunIds :
         (run[r].gate /\ ~ run'[r].gate /\ run'[r].status # "deleted") =>
            \E s \in Sessions :
                /\ req[s].id = r /\ req[s].op = "decide" /\ req[s].view.gate
                /\ req'[s] = Free
                /\ req[s].user \in Approvers[req[s].view.stage]
                /\ req[s].user # run[r].by]_vars

\* An abandoned run is not left running: it is swept, unless somebody touches
\* it or its gate opens.
Abandoned(r) == run[r].status = "running" /\ ~ run[r].gate /\ run[r].idle
AbandonedIsSwept == \A r \in RunIds : []<> ~ Abandoned(r)

\* The first event's row is loaded only if its type is routed.
ListenersAreFed ==
    \A p \in Procs : listener[p].loaded =>
        inbox[p] # <<>> /\ Head(inbox[p]).type \in DOMAIN Routing

\* A request in hand names a run; whoever is about to decide on it held the
\* permission of the stage seen and did not start it.
DecidersAreFit ==
    \A s \in Sessions :
        /\ req[s].op # "free" => req[s].id \in RunIds /\ run[req[s].id].status # "none"
        /\ req[s].op = "decide" =>
              /\ req[s].user \in Approvers[req[s].view.stage]
              /\ req[s].user # run[req[s].id].by

\* A run that is not there has no open gate, one that never was had none.
NoGateWithoutRun ==
    \A r \in RunIds : /\ ~ Exists(r) => ~ run[r].gate
                      /\ run[r].status = "none" => raised[r] = 0

RunsInv == TypeOK /\ ListenersAreFed /\ DecidersAreFit /\ NoGateWithoutRun
           /\ UnansweredStaysOpen

----------------------------------------------------------------------------
(* What the comments promise *)

\* cancel_run: "Terminal runs are left as-is".
FinishedStaysFinished ==
    [][\A r \in RunIds : run[r].status = "completed" => run'[r].status # "cancelled"]_vars

\* record_approval: "The run's OWN stage decides the permission".
ClosedForItsOwnStage ==
    [][\A r \in RunIds, s \in Sessions :
         (/\ run[r].gate /\ ~ run'[r].gate /\ run'[r].status # "deleted"
          /\ req[s].id = r /\ req[s].op = "decide" /\ req'[s] = Free)
         => req[s].user \in Approvers[run[r].stage]]_vars

\* record_approval: "one decision closes the gate".
OneDecisionPerGate == \A r \in RunIds : answered[r] <= raised[r]

\* run_sweeper: "Runs parked at a human gate (awaiting_*) are excluded".
ParkedIsNotSwept ==
    [][\A r \in sweep : run[r].gate => run'[r].status = run[r].status \/ sweep' # {}]_vars
=============================================================================
