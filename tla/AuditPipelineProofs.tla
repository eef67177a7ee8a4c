------------------------ MODULE AuditPipelineProofs ------------------------
(***************************************************************************)
(* Proofs about AuditPipeline for any number of processes and events, any  *)
(* set of poison events, batch size and number of attempts: no event       *)
(* vanishes without a fault the code accepts, and every repeated row has a *)
(* lost reply or a started retry worker of its own.                        *)
(***************************************************************************)
EXTENDS AuditPipeline, FiniteSetTheorems, TLAPS

USE PipelineAssumption

WorkerState == [pc : LoopStates, cursor : Nat, batch : SUBSET Events, tries : Nat]

LEMMA TypesOf ==
    ASSUME PipelineInv
    PROVE  /\ TypeOK /\ loop \in [Procs -> WorkerState] /\ id \in [Events -> Nat]
           /\ rows \in [Events -> Nat] /\ starts \in Nat /\ replies \in Nat
BY DEF PipelineInv, TypeOK, WorkerState

LEMMA OneWorker ==
    ASSUME PipelineInv, NEW p \in Procs, NEW w, loop' = [loop EXCEPT ![p] = w]
    PROVE  loop'[p] = w /\ \A q \in Procs \ {p} : loop'[q] = loop[q]
BY TypesOf

\* The first entry of a batch is one entry, and it has an id.
LEMMA OneIsCurrent ==
    ASSUME PipelineInv, NEW p \in Procs, NEW e \in Events, IsCurrent(p, e)
    PROVE  /\ id[e] > 0 /\ id[e] > loop[p].cursor
           /\ \A f \in loop[p].batch \ {e} : id[f] > id[e]
           /\ \A f \in Events : IsCurrent(p, f) => f = e
<1>1. /\ loop[p] \in WorkerState /\ id \in [Events -> Nat]
      /\ \A f \in loop[p].batch : f \in Events /\ id[f] > loop[p].cursor
  BY TypesOf DEF PipelineInv, BatchesAreAhead, WorkerState
<1>2. id[e] > 0 /\ id[e] > loop[p].cursor
  BY <1>1 DEF IsCurrent, WorkerState
<1>3. \A f \in Events : id[f] = id[e] => f = e
  BY <1>2 DEF PipelineInv, IdsAreDistinct
<1>4. \A f \in loop[p].batch \ {e} : id[f] > id[e]
  BY <1>1, <1>3 DEF IsCurrent
<1>5. \A f \in Events : IsCurrent(p, f) => f = e
  BY <1>1, <1>3 DEF IsCurrent
<1> QED BY <1>2, <1>4, <1>5

-----------------------------------------------------------------------------
(* How a step moves one retry worker.                                      *)

Loads(p) ==
    \E b \in SUBSET Ahead(p) :
        /\ loop[p].pc = "read"
        /\ loop'[p] = [pc |-> "write", cursor |-> loop[p].cursor, tries |-> 0, batch |-> b]

TriesAgain(p) ==
    /\ loop[p].pc = "write"
    /\ loop'[p] = [loop[p] EXCEPT !.tries = loop[p].tries + 1]

Commits(p) ==
    /\ loop[p].pc = "write" /\ loop'[p] = [loop[p] EXCEPT !.pc = "delete"]
    /\ \E e \in Events : RetryCommits(p, e)

Passes(p) ==
    \E e \in Events : /\ loop[p].pc \in {"write", "delete"} /\ IsCurrent(p, e)
                      /\ loop'[p] = Passed(p, e)

Ends(p) == loop'[p] \in {Off, [Off EXCEPT !.pc = "stopped"]}

WorkerMoves(p) ==
    \/ Loads(p) \/ TriesAgain(p) \/ Commits(p) \/ Passes(p) \/ Ends(p)
    \/ ProcessStarts(p) /\ loop'[p] = Started

LEMMA RetriesMove ==
    ASSUME PipelineInv, NEW p \in Procs, RetryStep(p)
    PROVE  /\ WorkerMoves(p)
           /\ \A q \in Procs \ {p} : loop'[q] = loop[q]
           /\ id' = id /\ task' = task /\ dropped' = dropped /\ starts' = starts
<1>1. CASE Read(p)
  <2> DEFINE b == {e \in Ahead(p) :
                     Cardinality({f \in Ahead(p) : id[f] < id[e]}) < BatchSize}
  <2>1. b \in SUBSET Ahead(p)
    OBVIOUS
  <2>2. /\ loop[p].pc = "read"
        /\ loop' = [loop EXCEPT ![p] =
              [pc |-> "write", cursor |-> loop[p].cursor, tries |-> 0, batch |-> b]]
    BY <1>1 DEF Read
  <2> HIDE DEF b
  <2>3. /\ loop'[p] = [pc |-> "write", cursor |-> loop[p].cursor, tries |-> 0, batch |-> b]
        /\ \A q \in Procs \ {p} : loop'[q] = loop[q]
    BY <2>2, OneWorker
  <2>4. Loads(p)
    BY <2>1, <2>2, <2>3 DEF Loads
  <2> QED BY <1>1, <2>3, <2>4 DEF Read, queue, WorkerMoves
<1>2. ASSUME NEW e \in Events, RetryCommits(p, e)
      PROVE  Commits(p) /\ \A q \in Procs \ {p} : loop'[q] = loop[q]
  <2>1. loop' = [loop EXCEPT ![p] = [loop[p] EXCEPT !.pc = "delete"]] /\ loop[p].pc = "write"
    BY <1>2 DEF RetryCommits
  <2> QED BY <1>2, <2>1, OneWorker DEF Commits
<1>3. ASSUME NEW e \in Events, RetryRaises(p, e) \/ RetryReplyLost(p, e)
      PROVE  (TriesAgain(p) \/ Passes(p)) /\ \A q \in Procs \ {p} : loop'[q] = loop[q]
  <2>1. /\ loop[p].pc = "write" /\ IsCurrent(p, e)
        /\ loop' = [loop EXCEPT ![p] = AfterFailure(p, e)]
    BY <1>3 DEF RetryRaises, RetryReplyLost
  <2>2. loop'[p] = AfterFailure(p, e) /\ \A q \in Procs \ {p} : loop'[q] = loop[q]
    BY <2>1, OneWorker
  <2> QED BY <2>1, <2>2 DEF AfterFailure, TriesAgain, Passes
<1>4. ASSUME NEW e \in Events, Delete(p, e)
      PROVE  Passes(p) /\ \A q \in Procs \ {p} : loop'[q] = loop[q]
  <2>1. /\ loop[p].pc = "delete" /\ IsCurrent(p, e)
        /\ loop' = [loop EXCEPT ![p] = Passed(p, e)]
    BY <1>4 DEF Delete
  <2> QED BY <2>1, OneWorker DEF Passes
<1>5. id' = id /\ task' = task /\ dropped' = dropped /\ starts' = starts
  BY DEF RetryStep, Read, RetryCommits, RetryRaises, RetryReplyLost, Delete, queue
<1> QED BY <1>1, <1>2, <1>3, <1>4, <1>5 DEF RetryStep, WorkerMoves

LEMMA StepMovesWorkers ==
    ASSUME PipelineInv, [Next]_vars, NEW p \in Procs
    PROVE  loop'[p] = loop[p] \/ (WorkerMoves(p) /\ id' = id)
<1>1. \/ loop' = loop
      \/ \E q \in Procs : RetryStep(q) \/ RedisRaises(q) \/ ProcessDies(q) \/ ProcessStarts(q)
  BY DEF Next, vars, TaskStep, WriteCommits, WriteRaises, WriteReplyLost, DeadLetter,
         DeadLetterFails, Emit, DatabaseFlips
<1>2. ASSUME NEW q \in Procs, RedisRaises(q) \/ ProcessDies(q) \/ ProcessStarts(q)
      PROVE  loop'[p] = loop[p] \/ (WorkerMoves(p) /\ id' = id)
  <2>1. id' = id
    BY <1>2 DEF RedisRaises, ProcessDies, ProcessStarts, queue
  <2>2. \/ loop' = [loop EXCEPT ![q] = [Off EXCEPT !.pc = "stopped"]]
        \/ loop' = [loop EXCEPT ![q] = Off]
        \/ ProcessStarts(q) /\ loop' = [loop EXCEPT ![q] = Started]
    BY <1>2 DEF RedisRaises, ProcessDies, ProcessStarts
  <2> QED BY <2>1, <2>2, OneWorker DEF WorkerMoves, Ends
<1> QED BY <1>1, <1>2, RetriesMove

-----------------------------------------------------------------------------
(* Entry ids: given once, and never twice.                                 *)

LEMMA IdsAreGiven ==
    ASSUME [Next]_vars
    PROVE  id' = id \/ \E e \in Events : DeadLetter(e)
BY DEF Next, vars, TaskStep, WriteCommits, WriteRaises, WriteReplyLost, DeadLetterFails, Emit,
       DatabaseFlips, RetryStep, Read, RetryCommits, RetryRaises, RetryReplyLost, Delete,
       RedisRaises, ProcessDies, ProcessStarts, queue

LEMMA NewId ==
    ASSUME PipelineInv, NEW e \in Events, DeadLetter(e)
    PROVE  /\ id[e] = 0
           /\ \E n \in Nat \ {0} : /\ \A f \in Events : id[f] < n
                                   /\ id' = [id EXCEPT ![e] = n]
<1>1. id[e] = 0
  BY DEF PipelineInv, TasksComeFirst, DeadLetter
<1>2. Cardinality(Events) \in Nat
  BY FS_CardinalityType
<1>3. PICK n \in 1 .. Cardinality(Events) : Fresh(n) /\ id' = [id EXCEPT ![e] = n]
  BY DEF DeadLetter
<1>4. n \in Nat \ {0}
  BY <1>2
<1> QED BY <1>1, <1>3, <1>4 DEF Fresh

LEMMA IdsStay ==
    ASSUME PipelineInv, [Next]_vars
    PROVE  /\ id' \in [Events -> Nat]
           /\ \A e \in Events : id[e] > 0 => id'[e] = id[e]
           /\ IdsAreDistinct'
<1>1. id \in [Events -> Nat] /\ IdsAreDistinct
  BY TypesOf DEF PipelineInv
<1>2. CASE id' = id
  BY <1>1, <1>2 DEF IdsAreDistinct
<1>3. ASSUME NEW e \in Events, DeadLetter(e)
      PROVE  /\ id' \in [Events -> Nat]
             /\ \A f \in Events : id[f] > 0 => id'[f] = id[f]
             /\ IdsAreDistinct'
  <2>1. PICK n \in Nat \ {0} : /\ \A f \in Events : id[f] < n
                               /\ id' = [id EXCEPT ![e] = n]
    BY <1>3, NewId
  <2>2. id' \in [Events -> Nat] /\ id'[e] = n /\ \A f \in Events \ {e} : id'[f] = id[f]
    BY <1>1, <2>1
  <2>3. id[e] = 0
    BY <1>3, NewId
  <2>4. IdsAreDistinct'
    BY <1>1, <2>1, <2>2 DEF IdsAreDistinct
  <2> QED BY <2>2, <2>3, <2>4
<1> QED BY <1>2, <1>3, IdsAreGiven

\* What a worker is at does not change while it stands still.
LEMMA StillCurrent ==
    ASSUME PipelineInv, [Next]_vars, NEW p \in Procs,
           loop'[p].batch = loop[p].batch
    PROVE  \A e \in Events : IsCurrent(p, e)' <=> IsCurrent(p, e)
<1>1. \A f \in loop[p].batch : f \in Events /\ id'[f] = id[f]
  <2>1. /\ loop[p] \in WorkerState /\ id \in [Events -> Nat]
        /\ \A f \in loop[p].batch : f \in Events /\ id[f] > loop[p].cursor
    BY TypesOf DEF PipelineInv, BatchesAreAhead, WorkerState
  <2>2. \A f \in loop[p].batch : id[f] > 0
    BY <2>1 DEF WorkerState
  <2> QED BY <2>1, <2>2, IdsStay
<1> QED BY <1>1 DEF IsCurrent

LEMMA MovesKeepType ==
    ASSUME PipelineInv, NEW p \in Procs, WorkerMoves(p), id' = id
    PROVE  /\ loop'[p] \in WorkerState
           /\ \A e \in loop'[p].batch : id'[e] > loop'[p].cursor
<1>1. /\ loop[p] \in WorkerState /\ id \in [Events -> Nat] /\ stream \in SUBSET Events
      /\ \A e \in loop[p].batch : id[e] > loop[p].cursor
  BY TypesOf DEF PipelineInv, BatchesAreAhead, TypeOK
<1>2. CASE Loads(p)
  <2>1. PICK b \in SUBSET Ahead(p) :
           loop'[p] = [pc |-> "write", cursor |-> loop[p].cursor, tries |-> 0, batch |-> b]
    BY <1>2 DEF Loads
  <2>2. \A e \in b : e \in Events /\ id[e] > loop[p].cursor
    BY <1>1, <2>1 DEF Ahead
  <2> QED BY <1>1, <2>1, <2>2 DEF WorkerState, LoopStates
<1>3. CASE TriesAgain(p) \/ Commits(p)
  <2>1. /\ loop'[p] \in WorkerState
        /\ loop'[p].batch = loop[p].batch /\ loop'[p].cursor = loop[p].cursor
    BY <1>1, <1>3 DEF TriesAgain, Commits, WorkerState, LoopStates
  <2> QED BY <1>1, <2>1
<1>4. CASE Passes(p)
  <2>1. PICK e \in Events : IsCurrent(p, e) /\ loop'[p] = Passed(p, e)
    BY <1>4 DEF Passes
  <2>2. /\ loop'[p] \in WorkerState
        /\ loop'[p].batch = loop[p].batch \ {e} /\ loop'[p].cursor = id[e]
    BY <1>1, <2>1 DEF Passed, WorkerState, LoopStates
  <2> QED BY <2>1, <2>2, OneIsCurrent
<1>5. CASE Ends(p) \/ loop'[p] = Started
  BY <1>5 DEF Ends, Off, Started, WorkerState, LoopStates
<1> QED BY <1>2, <1>3, <1>4, <1>5 DEF WorkerMoves

LEMMA WorkersStay ==
    ASSUME PipelineInv, [Next]_vars
    PROVE  loop' \in [Procs -> WorkerState] /\ BatchesAreAhead'
<1>1. loop \in [Procs -> WorkerState] /\ id \in [Events -> Nat]
  BY TypesOf
<1>2. ASSUME NEW p \in Procs
      PROVE  /\ loop'[p] \in WorkerState
             /\ \A e \in loop'[p].batch : id'[e] > loop'[p].cursor
  <2>1. CASE loop'[p] = loop[p]
    <3>1. \A e \in loop[p].batch : e \in Events /\ id[e] > loop[p].cursor
      BY <1>1 DEF PipelineInv, BatchesAreAhead, WorkerState
    <3>2. \A e \in loop[p].batch : id[e] > 0
      BY <1>1, <3>1 DEF WorkerState
    <3> QED BY <1>1, <2>1, <3>1, <3>2, IdsStay
  <2> QED BY <2>1, StepMovesWorkers, MovesKeepType
<1>3. loop' = [p \in Procs |-> loop'[p]]
  <2>1. \E q, w : loop' = loop \/ loop' = [loop EXCEPT ![q] = w]
    BY DEF Next, vars, TaskStep, WriteCommits, WriteRaises, WriteReplyLost, DeadLetter,
           DeadLetterFails, Emit, DatabaseFlips, RetryStep, Read, RetryCommits, RetryRaises,
           RetryReplyLost, Delete, RedisRaises, ProcessDies, ProcessStarts
  <2> QED BY <1>1, <2>1
<1> QED BY <1>2, <1>3 DEF BatchesAreAhead

-----------------------------------------------------------------------------
(* Tasks and rows.                                                         *)

TaskRecord == [st : TaskStates, proc : Procs \cup {None}]

LEMMA WhoMovesTasks ==
    ASSUME [Next]_vars
    PROVE  \/ task' = task
           \/ \E e \in Events, s \in {"failed", "done"} :
                 /\ InFlight(e) /\ task' = [task EXCEPT ![e].st = s]
           \/ \E p \in Procs, e \in Events :
                 /\ task[e].st = "none"
                 /\ task' = [task EXCEPT ![e] = [st |-> "writing", proc |-> p]]
           \/ \E p \in Procs :
                 task' = [e \in Events |->
                            IF InFlight(e) /\ task[e].proc = p
                            THEN [st |-> "done", proc |-> p] ELSE task[e]]
<1>1. ASSUME NEW e \in Events, TaskStep(e)
      PROVE  \E s \in {"failed", "done"} :
                InFlight(e) /\ task' = [task EXCEPT ![e].st = s]
  BY <1>1 DEF TaskStep, WriteCommits, WriteRaises, WriteReplyLost, DeadLetter,
              DeadLetterFails, InFlight
<1>2. ASSUME NEW p \in Procs, ProcessDies(p)
      PROVE  task' = [e \in Events |->
                        IF InFlight(e) /\ task[e].proc = p
                        THEN [st |-> "done", proc |-> p] ELSE task[e]]
  BY <1>2 DEF ProcessDies
<1>3. ASSUME NEW p \in Procs, RetryStep(p) \/ RedisRaises(p) \/ ProcessStarts(p)
      PROVE  task' = task
  BY <1>3 DEF RetryStep, Read, RetryCommits, RetryRaises, RetryReplyLost, Delete, RedisRaises,
              ProcessStarts
<1>4. CASE \E p \in Procs, e \in Events : Emit(p, e)
  BY <1>4 DEF Emit
<1>5. CASE DatabaseFlips \/ UNCHANGED vars
  BY <1>5 DEF DatabaseFlips, vars
<1> QED BY <1>1, <1>2, <1>3, <1>4, <1>5 DEF Next

\* A task only goes forward.
LEMMA TasksGoForward ==
    ASSUME PipelineInv, [Next]_vars, NEW f \in Events
    PROVE  /\ task'[f] \in TaskRecord
           /\ task[f].st = "done" => task'[f].st = "done"
           /\ task'[f].st = "none" => task[f].st = "none"
           /\ task'[f].st = "writing" => task[f].st \in {"none", "writing"}
           /\ task' \in [Events -> TaskRecord]
<1>1. task \in [Events -> TaskRecord] /\ task[f] \in TaskRecord
  BY DEF PipelineInv, TypeOK, TaskRecord
<1>2. CASE task' = task
  BY <1>1, <1>2
<1>3. ASSUME NEW e \in Events, NEW s \in {"failed", "done"}, InFlight(e),
             task' = [task EXCEPT ![e].st = s]
      PROVE  /\ task' \in [Events -> TaskRecord]
             /\ task[f].st = "done" => task'[f].st = "done"
             /\ task'[f].st = "none" => task[f].st = "none"
             /\ task'[f].st = "writing" => task[f].st \in {"none", "writing"}
  BY <1>1, <1>3 DEF TaskRecord, TaskStates, InFlight
<1>4. ASSUME NEW p \in Procs, NEW e \in Events, task[e].st = "none",
             task' = [task EXCEPT ![e] = [st |-> "writing", proc |-> p]]
      PROVE  /\ task' \in [Events -> TaskRecord]
             /\ task[f].st = "done" => task'[f].st = "done"
             /\ task'[f].st = "none" => task[f].st = "none"
             /\ task'[f].st = "writing" => task[f].st \in {"none", "writing"}
  BY <1>1, <1>4 DEF TaskRecord, TaskStates
<1>5. ASSUME NEW p \in Procs,
             task' = [e \in Events |->
                        IF InFlight(e) /\ task[e].proc = p
                        THEN [st |-> "done", proc |-> p] ELSE task[e]]
      PROVE  /\ task' \in [Events -> TaskRecord]
             /\ task[f].st = "done" => task'[f].st = "done"
             /\ task'[f].st = "none" => task[f].st = "none"
             /\ task'[f].st = "writing" => task[f].st \in {"none", "writing"}
  BY <1>1, <1>5 DEF TaskRecord, TaskStates
<1>6. task' \in [Events -> TaskRecord] => task'[f] \in TaskRecord
  OBVIOUS
<1> QED BY <1>1, <1>2, <1>3, <1>4, <1>5, <1>6, WhoMovesTasks

\* Who stores a row of e.
Stores(e) ==
    \/ WriteCommits(e) \/ WriteReplyLost(e)
    \/ \E p \in Procs : RetryCommits(p, e) \/ RetryReplyLost(p, e)

LEMMA OneRowMore ==
    ASSUME PipelineInv, [Next]_vars
    PROVE  /\ rows' \in [Events -> Nat]
           /\ \A e \in Events : \/ rows'[e] = rows[e]
                                \/ Stores(e) /\ rows'[e] = rows[e] + 1
<1>1. rows' = rows \/ \E e \in Events : Stores(e) /\ rows' = [rows EXCEPT ![e] = @ + 1]
  <2>1. ASSUME NEW e \in Events, TaskStep(e)
        PROVE  rows' = rows \/ (Stores(e) /\ rows' = [rows EXCEPT ![e] = @ + 1])
    BY <2>1 DEF TaskStep, Stores, WriteCommits, WriteRaises, WriteReplyLost, DeadLetter,
                DeadLetterFails, log
  <2>2. ASSUME NEW p \in Procs, RetryStep(p)
        PROVE  rows' = rows \/ \E e \in Events : Stores(e) /\ rows' = [rows EXCEPT ![e] = @ + 1]
    BY <2>2 DEF RetryStep, Stores, Read, RetryCommits, RetryRaises, RetryReplyLost, Delete, log
  <2>3. ASSUME NEW p \in Procs,
               RedisRaises(p) \/ ProcessDies(p) \/ ProcessStarts(p) \/ \E e \in Events : Emit(p, e)
        PROVE  rows' = rows
    BY <2>3 DEF RedisRaises, ProcessDies, ProcessStarts, Emit, log
  <2>4. CASE DatabaseFlips \/ UNCHANGED vars
    BY <2>4 DEF DatabaseFlips, vars, log
  <2> QED BY <2>1, <2>2, <2>3, <2>4 DEF Next
<1>2. rows \in [Events -> Nat]
  BY TypesOf
<1> QED BY <1>1, <1>2

\* The retry workers store only what is on the stream.
LEMMA TasksStoreFirst ==
    ASSUME PipelineInv, NEW e \in Events, Stores(e), id[e] = 0
    PROVE  /\ WriteCommits(e) \/ WriteReplyLost(e)
           /\ task[e].st = "writing" /\ task'[e].st \notin {"none", "writing"}
<1>1. \A p \in Procs : ~ IsCurrent(p, e)
  BY TypesOf, OneIsCurrent
<1>2. WriteCommits(e) \/ WriteReplyLost(e)
  BY <1>1 DEF Stores, RetryCommits, RetryReplyLost
<1>3. task \in [Events -> TaskRecord]
  BY DEF PipelineInv, TypeOK, TaskRecord
<1> QED BY <1>2, <1>3 DEF WriteCommits, WriteReplyLost, TaskRecord

LEMMA TasksStay ==
    ASSUME PipelineInv, [Next]_vars
    PROVE  TasksComeFirst'
<1>1. ASSUME NEW e \in Events, task'[e].st \in {"none", "writing"}
      PROVE  rows'[e] = 0
  <2>1. task[e].st \in {"none", "writing"}
    BY <1>1, TasksGoForward
  <2>2. rows[e] = 0 /\ id[e] = 0
    BY <2>1 DEF PipelineInv, TasksComeFirst
  <2> QED BY <1>1, <2>2, OneRowMore, TasksStoreFirst
<1>2. ASSUME NEW e \in Events, task'[e].st # "done"
      PROVE  id'[e] = 0
  <2>1. id[e] = 0
    BY <1>2, TasksGoForward DEF PipelineInv, TasksComeFirst
  <2>2. ~ DeadLetter(e)
    BY <1>2 DEF DeadLetter, PipelineInv, TypeOK
  <2>3. ASSUME NEW f \in Events, DeadLetter(f)
        PROVE  id'[e] = 0
    BY <2>1, <2>2, <2>3, NewId, TypesOf
  <2> QED BY <2>1, <2>3, IdsAreGiven
<1> QED BY <1>1, <1>2 DEF TasksComeFirst

-----------------------------------------------------------------------------
(* Nothing vanishes.                                                       *)

LEMMA DeletedStays ==
    ASSUME PipelineInv, [Next]_vars
    PROVE  DeletedIsStored'
<1> SUFFICES ASSUME NEW p \in Procs, NEW e \in Events,
                    loop'[p].pc = "delete", IsCurrent(p, e)'
             PROVE  rows'[e] > 0
  BY DEF DeletedIsStored
<1>1. rows[e] \in Nat /\ rows \in [Events -> Nat] /\ loop[p] \in WorkerState
  BY TypesOf
<1>2. CASE loop'[p] = loop[p]
  <2>1. rows[e] > 0
    BY <1>2, StillCurrent DEF PipelineInv, DeletedIsStored
  <2> QED BY <1>1, <2>1, OneRowMore
<1>3. CASE Commits(p)
  <2>1. PICK f \in Events : RetryCommits(p, f)
    BY <1>3 DEF Commits
  <2>2. loop'[p].batch = loop[p].batch
    BY <1>1, <1>3 DEF Commits, WorkerState
  <2>3. IsCurrent(p, e) /\ IsCurrent(p, f)
    BY <2>1, <2>2, StillCurrent DEF RetryCommits
  <2>4. e = f
    BY <2>3, OneIsCurrent
  <2> QED BY <1>1, <2>1, <2>4 DEF RetryCommits
<1>4. ~ (Loads(p) \/ TriesAgain(p) \/ Passes(p) \/ Ends(p) \/ loop'[p] = Started)
  <2>1. ~ Loads(p)
    <3> SUFFICES ASSUME Loads(p) PROVE FALSE
      OBVIOUS
    <3>1. loop'[p].pc = "write"
      BY DEF Loads
    <3> QED BY <3>1
  <2>2. ~ Passes(p)
    <3> SUFFICES ASSUME NEW f \in Events, loop'[p] = Passed(p, f) PROVE FALSE
      BY DEF Passes
    <3>1. loop'[p].pc \in {"read", "write"}
      BY DEF Passed
    <3> QED BY <3>1
  <2>3. ~ TriesAgain(p)
    <3> SUFFICES ASSUME TriesAgain(p) PROVE FALSE
      OBVIOUS
    <3>1. loop'[p].pc = "write"
      BY <1>1 DEF TriesAgain, WorkerState
    <3> QED BY <3>1
  <2>4. ~ Ends(p) /\ loop'[p] # Started
    BY DEF Ends, Off, Started
  <2> QED BY <2>1, <2>2, <2>3, <2>4
<1> QED BY <1>2, <1>3, <1>4, StepMovesWorkers DEF WorkerMoves

\* A task that ends has stored its event, queued it, or given it up.
LEMMA EndedTasks ==
    ASSUME PipelineInv, [Next]_vars, NEW e \in Events,
           task[e].st = "none" \/ InFlight(e)
    PROVE  \/ task'[e].st \in {"none", "writing", "failed"}
           \/ rows'[e] > 0 \/ e \in stream' \/ e \in dropped'
<1>1. /\ task \in [Events -> TaskRecord] /\ rows \in [Events -> Nat]
      /\ task[e] \in TaskRecord
  BY DEF PipelineInv, TypeOK, TaskRecord
<1>2. ASSUME NEW f \in Events, TaskStep(f)
      PROVE  \/ task'[e].st \in {"none", "writing", "failed"}
             \/ rows'[e] > 0 \/ e \in stream' \/ e \in dropped'
  <2>1. CASE f = e
    <3>1. CASE WriteCommits(e)
      BY <1>1, <3>1 DEF WriteCommits
    <3>2. CASE WriteRaises(e) \/ WriteReplyLost(e)
      BY <1>1, <3>2 DEF WriteRaises, WriteReplyLost, TaskRecord
    <3>3. CASE DeadLetter(e) \/ DeadLetterFails(e)
      BY <3>3 DEF DeadLetter, DeadLetterFails
    <3> QED BY <1>2, <2>1, <3>1, <3>2, <3>3 DEF TaskStep
  <2>2. CASE f # e
    <3>1. task'[e] = task[e]
      BY <1>1, <1>2, <2>2 DEF TaskStep, WriteCommits, WriteRaises, WriteReplyLost, DeadLetter,
                              DeadLetterFails
    <3> QED BY <3>1 DEF InFlight
  <2> QED BY <2>1, <2>2
<1>3. ASSUME NEW p \in Procs, ProcessDies(p)
      PROVE  task'[e] = task[e] \/ e \in dropped'
  BY <1>1, <1>3 DEF ProcessDies
<1>4. ASSUME NEW p \in Procs, NEW f \in Events, Emit(p, f)
      PROVE  task'[e].st \in {"none", "writing", "failed"}
  BY <1>1, <1>4 DEF Emit, InFlight, TaskRecord
<1>5. ASSUME NEW p \in Procs, RetryStep(p) \/ RedisRaises(p) \/ ProcessStarts(p)
      PROVE  task' = task
  BY <1>5 DEF RetryStep, Read, RetryCommits, RetryRaises, RetryReplyLost, Delete, RedisRaises,
              ProcessStarts
<1>6. CASE DatabaseFlips \/ UNCHANGED vars
  BY <1>6 DEF DatabaseFlips, vars, InFlight
<1> QED BY <1>2, <1>3, <1>4, <1>5, <1>6 DEF Next, InFlight

LEMMA NothingVanishesStep ==
    ASSUME PipelineInv, [Next]_vars
    PROVE  NothingVanishes'
<1> SUFFICES ASSUME NEW e \in Events
             PROVE  \/ task'[e].st \in {"none", "writing", "failed"}
                    \/ rows'[e] > 0 \/ e \in stream' \/ e \in dropped'
  BY DEF NothingVanishes, InFlight
<1>1. rows[e] \in Nat
  BY TypesOf
<1>2. CASE rows[e] > 0
  BY <1>1, <1>2, OneRowMore
<1>3. CASE e \in stream /\ rows[e] = 0
  <2>1. \/ stream \subseteq stream'
        \/ \E p \in Procs, f \in Events : Delete(p, f)
    BY DEF Next, vars, TaskStep, WriteCommits, WriteRaises, WriteReplyLost, DeadLetter,
           DeadLetterFails, Emit, DatabaseFlips, RetryStep, Read, RetryCommits, RetryRaises,
           RetryReplyLost, RedisRaises, ProcessDies, ProcessStarts, queue
  <2>2. ASSUME NEW p \in Procs, NEW f \in Events, Delete(p, f)
        PROVE  e \in stream'
    <3>1. rows[f] > 0
      BY <2>2 DEF Delete, PipelineInv, DeletedIsStored
    <3>2. f # e
      BY <1>3, <3>1
    <3> QED BY <1>3, <2>2, <3>2 DEF Delete
  <2> QED BY <1>3, <2>1, <2>2
<1>4. CASE e \in dropped
  <2>1. dropped \subseteq dropped'
    BY DEF Next, vars, TaskStep, WriteCommits, WriteRaises, WriteReplyLost, DeadLetter,
           DeadLetterFails, Emit, DatabaseFlips, RetryStep, Read, RetryCommits, RetryRaises,
           RetryReplyLost, Delete, RedisRaises, ProcessDies, ProcessStarts
  <2> QED BY <1>4, <2>1
<1> QED BY <1>1, <1>2, <1>3, <1>4, EndedTasks DEF PipelineInv, NothingVanishes

-----------------------------------------------------------------------------
(* Repeated rows.                                                          *)

Eligible(p, e) ==
    /\ Running(p)
    /\ id[e] = 0 \/ id[e] > loop[p].cursor
    /\ ~ (loop[p].pc = "delete" /\ IsCurrent(p, e))

\* Once a worker has stored or passed an entry, only a start brings it back.
LEMMA StaysOut ==
    ASSUME PipelineInv, [Next]_vars, NEW p \in Procs, NEW f \in Events, Eligible(p, f)'
    PROVE  Eligible(p, f) \/ ProcessStarts(p)
<1>1. loop[p] \in WorkerState /\ id \in [Events -> Nat]
  BY TypesOf
<1>2. CASE loop'[p] = loop[p]
  <2>1. IsCurrent(p, f)' <=> IsCurrent(p, f)
    BY <1>2, StillCurrent
  <2>2. IsCurrent(p, f) => id[f] > 0
    BY OneIsCurrent
  <2>3. id[f] > 0 => id'[f] = id[f]
    BY IdsStay
  <2> QED BY <1>1, <1>2, <2>1, <2>2, <2>3 DEF Eligible, Running
<1>3. CASE WorkerMoves(p) /\ id' = id
  <2>1. CASE Loads(p)
    BY <1>1, <1>3, <2>1 DEF Loads, Eligible, Running
  <2>2. CASE TriesAgain(p) \/ Commits(p)
    <3>1. loop[p].pc = "write" /\ loop'[p].cursor = loop[p].cursor
      BY <1>1, <2>2 DEF TriesAgain, Commits, WorkerState
    <3> QED BY <1>3, <3>1 DEF Eligible, Running
  <2>3. CASE Passes(p)
    <3>1. PICK e \in Events : /\ loop[p].pc \in {"write", "delete"}
                              /\ IsCurrent(p, e) /\ loop'[p] = Passed(p, e)
      BY <2>3 DEF Passes
    <3>2. loop'[p].cursor = id[e]
      BY <3>1 DEF Passed
    <3>3. id[e] > loop[p].cursor /\ id[e] > 0 /\ (IsCurrent(p, f) => f = e)
      BY <3>1, OneIsCurrent
    <3>4. id[f] = 0 \/ id[f] > id[e]
      BY <1>3, <3>2 DEF Eligible
    <3>5. ~ IsCurrent(p, f)
      BY <1>1, <3>3, <3>4
    <3>6. id[f] = 0 \/ id[f] > loop[p].cursor
      BY <1>1, <3>3, <3>4 DEF WorkerState
    <3> QED BY <3>1, <3>5, <3>6 DEF Eligible, Running
  <2>4. CASE Ends(p)
    BY <2>4 DEF Ends, Off, Eligible, Running
  <2> QED BY <1>3, <2>1, <2>2, <2>3, <2>4 DEF WorkerMoves
<1> QED BY <1>2, <1>3, StepMovesWorkers

\* A retry worker stores an entry once: it may before, it may not after.
LEMMA CommitUsesUp ==
    ASSUME PipelineInv, [Next]_vars, NEW p \in Procs, NEW e \in Events, RetryCommits(p, e)
    PROVE  Eligible(p, e) /\ ~ Eligible(p, e)'
<1>1. loop[p] \in WorkerState /\ loop[p].pc = "write" /\ IsCurrent(p, e)
  BY TypesOf DEF RetryCommits
<1>2. loop'[p] = [loop[p] EXCEPT !.pc = "delete"]
  <2>1. loop' = [loop EXCEPT ![p] = [loop[p] EXCEPT !.pc = "delete"]]
    BY DEF RetryCommits
  <2> QED BY <2>1, OneWorker
<1>3. loop'[p].pc = "delete" /\ loop'[p].batch = loop[p].batch
  BY <1>1, <1>2 DEF WorkerState
<1>4. IsCurrent(p, e)'
  BY <1>1, <1>3, StillCurrent
<1>5. id[e] > loop[p].cursor
  BY <1>1, OneIsCurrent
<1> QED BY <1>1, <1>3, <1>4, <1>5 DEF Eligible, Running

LEMMA Counted ==
    ASSUME NEW S \in SUBSET Procs, NEW T \in SUBSET Procs, NEW p
    PROVE  /\ Cardinality(S) \in Nat /\ Cardinality(T) \in Nat
           /\ T \subseteq S => Cardinality(T) <= Cardinality(S)
           /\ p \in S /\ T \subseteq S \ {p} => Cardinality(T) + 1 <= Cardinality(S)
           /\ T \subseteq S \cup {p} => Cardinality(T) <= Cardinality(S) + 1
<1>1. IsFiniteSet(S) /\ IsFiniteSet(T)
  BY FS_Subset
<1>2. Cardinality(S) \in Nat /\ Cardinality(T) \in Nat
  BY <1>1, FS_CardinalityType
<1>3. T \subseteq S => Cardinality(T) <= Cardinality(S)
  BY <1>1, FS_Subset
<1>4. p \in S /\ T \subseteq S \ {p} => Cardinality(T) + 1 <= Cardinality(S)
  <2>1. /\ IsFiniteSet(S \ {p})
        /\ p \in S => Cardinality(S \ {p}) = Cardinality(S) - 1
    BY <1>1, FS_RemoveElement
  <2>2. T \subseteq S \ {p} => Cardinality(T) <= Cardinality(S \ {p})
    BY <2>1, FS_Subset
  <2> QED BY <1>2, <2>1, <2>2
<1>5. T \subseteq S \cup {p} => Cardinality(T) <= Cardinality(S) + 1
  <2>1. /\ IsFiniteSet(S \cup {p})
        /\ Cardinality(S \cup {p}) \in {Cardinality(S), Cardinality(S) + 1}
    BY <1>1, FS_AddElement
  <2>2. T \subseteq S \cup {p} => Cardinality(T) <= Cardinality(S \cup {p})
    BY <2>1, FS_Subset
  <2> QED BY <1>2, <2>1, <2>2
<1> QED BY <1>2, <1>3, <1>4, <1>5

LEMMA HistoryGrows ==
    ASSUME PipelineInv, [Next]_vars
    PROVE  /\ starts' \in Nat /\ replies' \in Nat /\ replies' >= replies
           /\ starts' = starts \/ \E p \in Procs : ProcessStarts(p) /\ starts' = starts + 1
<1>1. starts \in Nat /\ replies \in Nat
  BY TypesOf
<1>2. starts' = starts \/ \E p \in Procs : ProcessStarts(p) /\ starts' = starts + 1
  BY DEF Next, vars, TaskStep, WriteCommits, WriteRaises, WriteReplyLost, DeadLetter,
         DeadLetterFails, Emit, DatabaseFlips, RetryStep, Read, RetryCommits, RetryRaises,
         RetryReplyLost, Delete, RedisRaises, ProcessDies, ProcessStarts
<1>3. replies' = replies \/ replies' = replies + 1
  BY DEF Next, vars, TaskStep, WriteCommits, WriteRaises, WriteReplyLost, DeadLetter,
         DeadLetterFails, Emit, DatabaseFlips, RetryStep, Read, RetryCommits, RetryRaises,
         RetryReplyLost, Delete, RedisRaises, ProcessDies, ProcessStarts, log
<1> QED BY <1>1, <1>2, <1>3

\* What a step adds to the rows and the rows to come, and what it pays with.
LEMMA RepeatsStep ==
    ASSUME PipelineInv, [Next]_vars
    PROVE  RepeatsAreBudgeted'
<1> SUFFICES ASSUME NEW e \in Events
             PROVE  \/ id'[e] = 0 /\ task'[e].st = "done" /\ rows'[e] <= 1
                    \/ rows'[e] + Cardinality(MayStore(e)') <= replies' + starts'
  BY DEF RepeatsAreBudgeted
<1> DEFINE S == MayStore(e)
           T == MayStore(e)'
<1>1. /\ rows \in [Events -> Nat] /\ starts \in Nat /\ replies \in Nat
      /\ starts' \in Nat /\ replies' \in Nat /\ replies' >= replies /\ rows[e] \in Nat
  BY TypesOf, HistoryGrows
<1>2. S \in SUBSET Procs /\ T \in SUBSET Procs
  BY DEF MayStore
<1>3. \A p \in Procs : (p \in S <=> Eligible(p, e)) /\ (p \in T <=> Eligible(p, e)')
  BY DEF MayStore, Eligible
<1> HIDE DEF S, T
<1>4. \A p \in T : p \in S \/ ProcessStarts(p)
  BY <1>2, <1>3, StaysOut
<1>5. Cardinality(S) \in Nat /\ Cardinality(T) \in Nat
  BY <1>2, Counted
<1>6. starts' = starts => Cardinality(T) <= Cardinality(S)
  <2> SUFFICES ASSUME starts' = starts PROVE T \subseteq S
    BY <1>2, Counted
  <2>1. \A p \in Procs : ~ ProcessStarts(p)
    BY <1>1 DEF ProcessStarts
  <2> QED BY <1>2, <1>4, <2>1
<1>7. starts' # starts => /\ starts' = starts + 1
                          /\ Cardinality(T) <= Cardinality(S) + 1
  <2> SUFFICES ASSUME starts' # starts
               PROVE  starts' = starts + 1 /\ Cardinality(T) <= Cardinality(S) + 1
    OBVIOUS
  <2>1. PICK p \in Procs : ProcessStarts(p) /\ starts' = starts + 1
    BY HistoryGrows
  <2>2. \A q \in Procs \ {p} : loop'[q] = loop[q]
    BY <2>1, OneWorker DEF ProcessStarts
  <2>3. \A q \in Procs \ {p} : q \in T => ~ ProcessStarts(q)
    BY <1>3, <2>2 DEF ProcessStarts, Up, Eligible, Running
  <2>4. T \subseteq S \cup {p}
    BY <1>2, <1>4, <2>3
  <2> QED BY <1>2, <2>1, <2>4, Counted
<1>8. CASE rows'[e] = rows[e]
  <2>1. CASE id[e] = 0 /\ task[e].st = "done" /\ rows[e] <= 1
    <3>1. task'[e].st = "done"
      BY <2>1, TasksGoForward
    <3>2. \A f \in Events : DeadLetter(f) => f # e
      BY <2>1 DEF DeadLetter
    <3>3. id'[e] = 0
      BY <2>1, <3>2, IdsAreGiven, NewId, TypesOf
    <3> QED BY <1>8, <2>1, <3>1, <3>3
  <2>2. CASE rows[e] + Cardinality(S) <= replies + starts
    <3>1. rows'[e] + Cardinality(T) <= replies' + starts'
      BY <1>1, <1>5, <1>6, <1>7, <1>8, <2>2
    <3> QED BY <3>1 DEF T
  <2> QED BY <2>1, <2>2 DEF PipelineInv, RepeatsAreBudgeted, S
<1>9. CASE Stores(e) /\ rows'[e] = rows[e] + 1
  <2>1. starts' = starts
    BY <1>9 DEF Stores, WriteCommits, WriteReplyLost, RetryCommits, RetryReplyLost
  <2>2. CASE WriteCommits(e)
    <3>1. task[e].st = "writing" /\ rows[e] = 0 /\ id[e] = 0
      BY <2>2 DEF WriteCommits, PipelineInv, TasksComeFirst
    <3>2. id'[e] = 0 /\ task'[e].st = "done"
      BY <2>2, <3>1 DEF WriteCommits, queue, PipelineInv, TypeOK
    <3> QED BY <1>9, <3>1, <3>2
  <2>3. ASSUME id[e] > 0 \/ task[e].st # "done"
        PROVE  rows[e] + Cardinality(S) <= replies + starts
    <3>1. ~ (id[e] = 0 /\ task[e].st = "done")
      BY <2>3, TypesOf
    <3> QED BY <3>1 DEF PipelineInv, RepeatsAreBudgeted, S
  <2>4. CASE WriteReplyLost(e) \/ \E p \in Procs : RetryReplyLost(p, e)
    <3>1. id[e] > 0 \/ task[e].st # "done"
      BY <2>4, OneIsCurrent DEF WriteReplyLost, RetryReplyLost
    <3>2. replies' = replies + 1
      BY <2>4 DEF WriteReplyLost, RetryReplyLost
    <3>3. rows'[e] + Cardinality(T) <= replies' + starts'
      BY <1>1, <1>5, <1>6, <1>9, <2>1, <2>3, <3>1, <3>2
    <3> QED BY <3>3 DEF T
  <2>5. ASSUME NEW p \in Procs, RetryCommits(p, e)
        PROVE  rows'[e] + Cardinality(T) <= replies' + starts'
    <3>1. id[e] > 0
      BY <2>5, OneIsCurrent DEF RetryCommits
    <3>2. p \in S /\ p \notin T
      BY <1>3, <2>5, CommitUsesUp
    <3>3. \A q \in Procs : ~ ProcessStarts(q)
      BY <1>1, <2>1 DEF ProcessStarts
    <3>4. T \subseteq S \ {p}
      BY <1>2, <1>4, <3>2, <3>3
    <3>5. Cardinality(T) + 1 <= Cardinality(S)
      BY <1>2, <3>2, <3>4, Counted
    <3> QED BY <1>1, <1>5, <1>9, <2>1, <2>3, <3>1, <3>5
  <2> QED BY <1>9, <2>2, <2>4, <2>5 DEF Stores, T
<1> QED BY <1>8, <1>9, OneRowMore

-----------------------------------------------------------------------------
(* The invariant, and what it implies.                                     *)

LEMMA PipelineInvInit ==
    ASSUME Init
    PROVE  PipelineInv
<1>1. /\ task = [e \in Events |-> [st |-> "none", proc |-> None]]
      /\ rows = [e \in Events |-> 0] /\ id = [e \in Events |-> 0]
      /\ stream = {} /\ loop = [p \in Procs |-> Started] /\ dbUp = TRUE
      /\ starts = Cardinality(Procs) /\ replies = 0 /\ dropped = {}
  BY DEF Init
<1>2. Cardinality(Procs) \in Nat
  BY FS_CardinalityType
<1>3. Started \in WorkerState /\ Started.batch = {} /\ Started.pc = "read"
  BY DEF Started, WorkerState, LoopStates
<1>4. TypeOK
  BY <1>1, <1>2, <1>3 DEF TypeOK, WorkerState, TaskStates
<1>5. NothingVanishes /\ TasksComeFirst /\ IdsAreDistinct /\ BatchesAreAhead
  BY <1>1, <1>3 DEF NothingVanishes, TasksComeFirst, IdsAreDistinct, BatchesAreAhead
<1>6. DeletedIsStored
  BY <1>1, <1>3 DEF DeletedIsStored, IsCurrent
<1>7. ASSUME NEW e \in Events
      PROVE  rows[e] + Cardinality(MayStore(e)) <= replies + starts
  <2>1. Cardinality(MayStore(e)) \in Nat /\ Cardinality(MayStore(e)) <= Cardinality(Procs)
    <3>1. MayStore(e) \in SUBSET Procs
      BY DEF MayStore
    <3> QED BY <3>1, Counted
  <2> QED BY <1>1, <1>2, <2>1
<1> QED BY <1>4, <1>5, <1>6, <1>7 DEF PipelineInv, RepeatsAreBudgeted

LEMMA PipelineInvStep ==
    ASSUME PipelineInv, [Next]_vars
    PROVE  PipelineInv'
<1>1. task' \in [Events -> TaskRecord]
  <2>1. CASE Events = {}
    <3>1. task \in [Events -> TaskRecord]
      BY DEF PipelineInv, TypeOK, TaskRecord
    <3> QED BY <2>1, <3>1, WhoMovesTasks
  <2> QED BY <2>1, TasksGoForward
<1>2. stream' \in SUBSET Events /\ dropped' \in SUBSET Events /\ dbUp' \in BOOLEAN
  <2>1. stream \in SUBSET Events /\ dropped \in SUBSET Events /\ dbUp \in BOOLEAN
    BY DEF PipelineInv, TypeOK
  <2>2. stream' \subseteq stream \cup Events
    BY DEF Next, vars, TaskStep, WriteCommits, WriteRaises, WriteReplyLost, DeadLetter,
           DeadLetterFails, Emit, DatabaseFlips, RetryStep, Read, RetryCommits, RetryRaises,
           RetryReplyLost, Delete, RedisRaises, ProcessDies, ProcessStarts, queue
  <2>3. dropped' \subseteq dropped \cup Events
    BY DEF Next, vars, TaskStep, WriteCommits, WriteRaises, WriteReplyLost, DeadLetter,
           DeadLetterFails, Emit, DatabaseFlips, RetryStep, Read, RetryCommits, RetryRaises,
           RetryReplyLost, Delete, RedisRaises, ProcessDies, ProcessStarts
  <2>4. dbUp' = dbUp \/ dbUp' = ~ dbUp
    BY DEF Next, vars, TaskStep, WriteCommits, WriteRaises, WriteReplyLost, DeadLetter,
           DeadLetterFails, Emit, DatabaseFlips, RetryStep, Read, RetryCommits, RetryRaises,
           RetryReplyLost, Delete, RedisRaises, ProcessDies, ProcessStarts
  <2>5. dbUp' \in BOOLEAN
    BY <2>1, <2>4
  <2> QED BY <2>1, <2>2, <2>3, <2>5
<1>3. TypeOK'
  BY <1>1, <1>2, OneRowMore, IdsStay, WorkersStay, HistoryGrows
     DEF TypeOK, TaskRecord, WorkerState
<1> QED BY <1>3, NothingVanishesStep, TasksStay, IdsStay, WorkersStay, DeletedStays, RepeatsStep
        DEF PipelineInv

LEMMA PipelineInvHolds == Spec => []PipelineInv
<1>1. Init => PipelineInv
  BY PipelineInvInit
<1>2. PipelineInv /\ [Next]_vars => PipelineInv'
  BY PipelineInvStep
<1> QED BY <1>1, <1>2, PTL DEF Spec

\* Every variable keeps the type the module gives it.
THEOREM PipelineTyped == Spec => []TypeOK
<1>1. PipelineInv => TypeOK
  BY DEF PipelineInv
<1> QED BY <1>1, PipelineInvHolds, PTL

\* However many retry workers read the same entry, die between the row and the
\* XDEL and start over, an emitted event is stored, waiting, or was given up by
\* a fault that emit accepts.
THEOREM EventsAreAccountedFor == Spec => []NothingVanishes
<1>1. PipelineInv => NothingVanishes
  BY DEF PipelineInv
<1> QED BY <1>1, PipelineInvHolds, PTL

\* A row of an event beyond its first has a lost commit reply or a started
\* retry worker of its own: a worker that keeps running stores no entry twice.
THEOREM RepeatsHaveACause == Spec => []RepeatsAreExplained
<1>1. PipelineInv => RepeatsAreExplained
  <2> SUFFICES ASSUME PipelineInv, NEW e \in Events
               PROVE  rows[e] <= 1 \/ rows[e] <= replies + starts
    BY DEF RepeatsAreExplained
  <2>1. rows[e] \in Nat /\ replies \in Nat /\ starts \in Nat
    BY TypesOf
  <2>2. Cardinality(MayStore(e)) \in Nat
    BY Counted DEF MayStore
  <2> QED BY <2>1, <2>2 DEF PipelineInv, RepeatsAreBudgeted
<1> QED BY <1>1, PipelineInvHolds, PTL
=============================================================================
