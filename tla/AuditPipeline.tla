--------------------------- MODULE AuditPipeline ---------------------------
(***************************************************************************)
(* The audit trail of src/backend: AuditEventService.emit schedules a      *)
(* detached task that writes one row of audit_events and, when the write   *)
(* raises, adds the event to the Redis stream audit:dead_letter.  Every    *)
(* API process also runs an AuditRetryWorker: it reads the stream with     *)
(* XREAD from a cursor of its own (there is no consumer group), writes     *)
(* each entry with emit_blocking and deletes it.  A process may die at any *)
(* step, the database may be away, a commit's reply may be lost, and Redis *)
(* may refuse a command.                                                   *)
(***************************************************************************)
EXTENDS Naturals, FiniteSets

CONSTANTS
    Procs,      \* API processes, each with one retry worker
    Events,     \* audit events, each emitted at most once
    Poison,     \* events whose write always raises (a tenant id that is no UUID)
    None,       \* no process
    BatchSize,  \* _BATCH_SIZE
    MaxTries,   \* stop_after_attempt of emit_blocking
    MaxStarts,  \* bound: process starts, the first of each process included
    MaxReplies  \* bound: commits whose reply is lost

ASSUME PipelineAssumption ==
    /\ IsFiniteSet(Procs) /\ IsFiniteSet(Events) /\ Poison \subseteq Events
    /\ None \notin Procs
    /\ BatchSize \in Nat \ {0} /\ MaxTries \in Nat \ {0}
    /\ MaxStarts \in Nat /\ MaxReplies \in Nat

VARIABLES
    task,     \* task[e]: the detached task that writes e, and its process
    rows,     \* rows[e]: rows of audit_events that hold e (each write a fresh id)
    stream,   \* the events that have an entry on audit:dead_letter
    id,       \* id[e]: the entry's stream id, 0 before it was added
    loop,     \* loop[p]: the retry worker of process p
    dbUp,     \* the database answers
    starts,   \* history: retry workers started so far
    replies,  \* history: commits whose reply was lost
    dropped   \* history: events given up by a fault the code accepts

vars == <<task, rows, stream, id, loop, dbUp, starts, replies, dropped>>
log == <<rows, replies>>
queue == <<stream, id>>

TaskStates == {"none", "writing", "failed", "done"}
LoopStates == {"off", "read", "write", "delete", "stopped"}

TypeOK ==
    /\ task \in [Events -> [st : TaskStates, proc : Procs \cup {None}]]
    /\ rows \in [Events -> Nat]
    /\ stream \in SUBSET Events
    /\ id \in [Events -> Nat]
    /\ loop \in [Procs -> [pc : LoopStates, cursor : Nat, batch : SUBSET Events,
                           tries : Nat]]
    /\ dbUp \in BOOLEAN
    /\ starts \in Nat /\ replies \in Nat
    /\ dropped \in SUBSET Events

Started == [pc |-> "read", cursor |-> 0, batch |-> {}, tries |-> 0]
Off == [pc |-> "off", cursor |-> 0, batch |-> {}, tries |-> 0]
Up(p) == loop[p].pc # "off"

Init ==
    /\ task = [e \in Events |-> [st |-> "none", proc |-> None]]
    /\ rows = [e \in Events |-> 0]
    /\ stream = {} /\ id = [e \in Events |-> 0]
    /\ loop = [p \in Procs |-> Started]
    /\ dbUp = TRUE
    /\ starts = Cardinality(Procs) /\ replies = 0
    /\ dropped = {}

----------------------------------------------------------------------------
(* emit and its detached task *)

CanWrite(e) == dbUp /\ e \notin Poison

Emit(p, e) ==
    /\ Up(p) /\ task[e].st = "none"
    /\ task' = [task EXCEPT ![e] = [st |-> "writing", proc |-> p]]
    /\ UNCHANGED <<log, queue, loop, dbUp, starts, dropped>>

\* _write returns: the transaction committed.
WriteCommits(e) ==
    /\ task[e].st = "writing" /\ CanWrite(e)
    /\ rows' = [rows EXCEPT ![e] = @ + 1]
    /\ task' = [task EXCEPT ![e].st = "done"]
    /\ UNCHANGED <<replies, queue, loop, dbUp, starts, dropped>>

\* _write raises and nothing was committed.
WriteRaises(e) ==
    /\ task[e].st = "writing" /\ ~ CanWrite(e)
    /\ task' = [task EXCEPT ![e].st = "failed"]
    /\ UNCHANGED <<log, queue, loop, dbUp, starts, dropped>>

\* _write raises because the connection went away after the server committed.
WriteReplyLost(e) ==
    /\ task[e].st = "writing" /\ CanWrite(e) /\ replies < MaxReplies
    /\ rows' = [rows EXCEPT ![e] = @ + 1] /\ replies' = replies + 1
    /\ task' = [task EXCEPT ![e].st = "failed"]
    /\ UNCHANGED <<queue, loop, dbUp, starts, dropped>>

\* Entry ids grow: a new entry is behind every entry the stream ever held.
Fresh(n) == \A f \in Events : id[f] < n

DeadLetter(e) ==
    /\ task[e].st = "failed"
    /\ stream' = stream \cup {e}
    /\ \E n \in 1 .. Cardinality(Events) :
         /\ Fresh(n) /\ \A m \in 1 .. (n - 1) : ~ Fresh(m)
         /\ id' = [id EXCEPT ![e] = n]
    /\ task' = [task EXCEPT ![e].st = "done"]
    /\ UNCHANGED <<log, loop, dbUp, starts, dropped>>

\* _send_to_dead_letter swallows every exception: the event is gone.
DeadLetterFails(e) ==
    /\ task[e].st = "failed"
    /\ task' = [task EXCEPT ![e].st = "done"]
    /\ dropped' = dropped \cup {e}
    /\ UNCHANGED <<log, queue, loop, dbUp, starts>>

----------------------------------------------------------------------------
(* AuditRetryWorker.run *)

\* Mutant of Ahead: every read starts at 0-0, as the loop once did.
AheadFromStart(p) == stream

Ahead(p) == {e \in stream : id[e] > loop[p].cursor}

\* XREAD COUNT BatchSize from the cursor.
Read(p) ==
    /\ loop[p].pc = "read" /\ Ahead(p) # {}
    /\ loop' = [loop EXCEPT ![p] =
          [pc |-> "write", cursor |-> loop[p].cursor, tries |-> 0,
           batch |-> {e \in Ahead(p) :
                        Cardinality({f \in Ahead(p) : id[f] < id[e]}) < BatchSize}]]
    /\ UNCHANGED <<task, log, queue, dbUp, starts, dropped>>

\* The message the for loop is at.
IsCurrent(p, e) ==
    e \in loop[p].batch /\ \A f \in loop[p].batch : id[e] <= id[f]

\* The for loop moves on: last_id is this message's, whatever became of it.
Passed(p, e) ==
    [pc |-> IF loop[p].batch = {e} THEN "read" ELSE "write",
     cursor |-> id[e], batch |-> loop[p].batch \ {e}, tries |-> 0]

\* An attempt of emit_blocking raised: the next one, or the entry is left on
\* the stream and the loop moves on.
AfterFailure(p, e) ==
    IF loop[p].tries + 1 < MaxTries
    THEN [loop[p] EXCEPT !.tries = @ + 1]
    ELSE Passed(p, e)

\* Mutant of RetryCommits: a committed write is tried again.
RetryCommitsAgain(p, e) ==
    /\ loop[p].pc = "write" /\ IsCurrent(p, e) /\ CanWrite(e)
    /\ rows' = [rows EXCEPT ![e] = @ + 1]
    /\ loop' = [loop EXCEPT ![p] = AfterFailure(p, e)]
    /\ UNCHANGED <<task, replies, queue, dbUp, starts, dropped>>

RetryCommits(p, e) ==
    /\ loop[p].pc = "write" /\ IsCurrent(p, e) /\ CanWrite(e)
    /\ rows' = [rows EXCEPT ![e] = @ + 1]
    /\ loop' = [loop EXCEPT ![p].pc = "delete"]
    /\ UNCHANGED <<task, replies, queue, dbUp, starts, dropped>>

\* Mutant of RetryRaises: the entry is deleted whatever came of its write.
RetryRaisesAndDeletes(p, e) ==
    /\ loop[p].pc = "write" /\ IsCurrent(p, e) /\ ~ CanWrite(e)
    /\ stream' = IF loop[p].tries + 1 < MaxTries THEN stream ELSE stream \ {e}
    /\ loop' = [loop EXCEPT ![p] = AfterFailure(p, e)]
    /\ UNCHANGED <<task, log, id, dbUp, starts, dropped>>

RetryRaises(p, e) ==
    /\ loop[p].pc = "write" /\ IsCurrent(p, e) /\ ~ CanWrite(e)
    /\ loop' = [loop EXCEPT ![p] = AfterFailure(p, e)]
    /\ UNCHANGED <<task, log, queue, dbUp, starts, dropped>>

RetryReplyLost(p, e) ==
    /\ loop[p].pc = "write" /\ IsCurrent(p, e) /\ CanWrite(e)
    /\ replies < MaxReplies
    /\ rows' = [rows EXCEPT ![e] = @ + 1] /\ replies' = replies + 1
    /\ loop' = [loop EXCEPT ![p] = AfterFailure(p, e)]
    /\ UNCHANGED <<task, queue, dbUp, starts, dropped>>

\* XDEL after the commit.
Delete(p, e) ==
    /\ loop[p].pc = "delete" /\ IsCurrent(p, e)
    /\ stream' = stream \ {e}
    /\ loop' = [loop EXCEPT ![p] = Passed(p, e)]
    /\ UNCHANGED <<task, log, id, dbUp, starts, dropped>>

\* A Redis error in XREAD or XDEL leaves run(): nothing in the process
\* starts the task again.
RedisRaises(p) ==
    /\ loop[p].pc \in {"read", "delete"}
    /\ loop' = [loop EXCEPT ![p] = [Off EXCEPT !.pc = "stopped"]]
    /\ UNCHANGED <<task, log, queue, dbUp, starts, dropped>>

----------------------------------------------------------------------------
(* Faults *)

InFlight(e) == task[e].st \in {"writing", "failed"}

ProcessDies(p) ==
    /\ Up(p)
    /\ loop' = [loop EXCEPT ![p] = Off]
    /\ LET cut == {e \in Events : InFlight(e) /\ task[e].proc = p} IN
         /\ task' = [e \in Events |->
                       IF e \in cut THEN [st |-> "done", proc |-> p] ELSE task[e]]
         /\ dropped' = dropped \cup cut
    /\ UNCHANGED <<log, queue, dbUp, starts>>

ProcessStarts(p) ==
    /\ ~ Up(p) /\ starts < MaxStarts
    /\ loop' = [loop EXCEPT ![p] = Started]
    /\ starts' = starts + 1
    /\ UNCHANGED <<task, log, queue, dbUp, dropped>>

DatabaseFlips ==
    /\ dbUp' = ~ dbUp
    /\ UNCHANGED <<task, log, queue, loop, starts, dropped>>

TaskStep(e) ==
    \/ WriteCommits(e) \/ WriteRaises(e) \/ WriteReplyLost(e)
    \/ DeadLetter(e) \/ DeadLetterFails(e)

RetryStep(p) ==
    \/ Read(p)
    \/ \E e \in Events :
         RetryCommits(p, e) \/ RetryRaises(p, e) \/ RetryReplyLost(p, e) \/ Delete(p, e)

Next ==
    \/ \E e \in Events : TaskStep(e)
    \/ \E p \in Procs : \/ RetryStep(p) \/ RedisRaises(p)
                        \/ ProcessDies(p) \/ ProcessStarts(p)
                        \/ \E e \in Events : Emit(p, e)
    \/ DatabaseFlips

Spec == Init /\ [][Next]_vars

\* The event loop runs every task of a live process.
Fairness ==
    /\ \A e \in Events : WF_vars(TaskStep(e))
    /\ \A p \in Procs : WF_vars(RetryStep(p))

FairSpec == Spec /\ Fairness

----------------------------------------------------------------------------
(* Properties *)

\* An event handed to emit is stored, or its task is still running, or it is
\* on the dead-letter stream; it is gone only when its process died with the
\* task or the dead letter itself failed.  The retry worker, in any number of
\* copies, never deletes an entry whose event has no row.
NothingVanishes ==
    \A e \in Events :
        \/ task[e].st = "none" \/ InFlight(e)
        \/ rows[e] > 0 \/ e \in stream \/ e \in dropped

\* Rows are repeated only for a reason: beyond the first, there are no more
\* rows of an event than lost commit replies and started retry workers.  A
\* worker that keeps running never stores an entry a second time.
RepeatsAreExplained ==
    \A e \in Events : rows[e] <= 1 \/ rows[e] <= replies + starts

\* A running worker reaches every entry ahead of its cursor: what stands
\* before it, entries whose write always raises included, cannot hold it up.
\* Only an absent database or the end of the loop excuses it.
Running(p) == loop[p].pc \in {"read", "write", "delete"}

PoisonDoesNotWedge ==
    \A p \in Procs : \A e \in Events \ Poison :
        (Running(p) /\ e \in Ahead(p)) ~> (rows[e] > 0 \/ ~ dbUp \/ ~ Running(p))

----------------------------------------------------------------------------
(* The inductive invariant *)

\* An event is on the stream, if ever, after its task wrote it in vain; the
\* rows from then on are the retry workers'.
TasksComeFirst ==
    \A e \in Events :
        /\ task[e].st \in {"none", "writing"} => rows[e] = 0
        /\ task[e].st # "done" => id[e] = 0

IdsAreDistinct == \A e, f \in Events : id[e] = id[f] /\ id[e] > 0 => e = f

BatchesAreAhead == \A p \in Procs : \A e \in loop[p].batch : id[e] > loop[p].cursor

DeletedIsStored ==
    \A p \in Procs, e \in Events :
        loop[p].pc = "delete" /\ IsCurrent(p, e) => rows[e] > 0

\* The workers that may yet store e: its entry is to come, or is ahead of the
\* cursor and not the one just committed.
MayStore(e) ==
    {p \in Procs : /\ Running(p)
                   /\ id[e] = 0 \/ id[e] > loop[p].cursor
                   /\ ~ (loop[p].pc = "delete" /\ IsCurrent(p, e))}

\* Rows there are and rows that may still come have a start or a lost reply
\* each, unless the event's own task stored it and no entry exists.
RepeatsAreBudgeted ==
    \A e \in Events :
        \/ id[e] = 0 /\ task[e].st = "done" /\ rows[e] <= 1
        \/ rows[e] + Cardinality(MayStore(e)) <= replies + starts

PipelineInv ==
    /\ TypeOK /\ NothingVanishes
    /\ TasksComeFirst /\ IdsAreDistinct /\ BatchesAreAhead /\ DeletedIsStored
    /\ RepeatsAreBudgeted
=============================================================================
