---------------------------- MODULE EventStream ----------------------------
(***************************************************************************)
(* A Redis stream from webhook delivery to consumer: the deduplicating     *)
(* producer of backend/webhooks and the consumer-group worker loop of      *)
(* backend/workers/base_worker.py, with its reclaims and dead letters.     *)
(*                                                                         *)
(* Entry i is the i-th XADD.  Redis is external and does what its commands *)
(* promise; the process between two commands can be cancelled or die.      *)
(***************************************************************************)
EXTENDS Integers, Sequences, FiniteSets

CONSTANTS
    Events,       \* event ids a provider delivers, any number of times
    Calls,        \* concurrent webhook requests
    Workers,      \* consumers of the group
    MaxAttempts,  \* _MAX_RECLAIM_ATTEMPTS
    ClaimCount,   \* entries one XAUTOCLAIM returns
    MaxEntries,   \* bound: entries added to the stream
    MaxExpiries,  \* bound: dedup keys that outlive their TTL
    MaxCrashes,   \* bound: consumers lost
    None          \* no event, no entry, no consumer

ASSUME BoundsAssumption ==
    /\ MaxAttempts \in Nat /\ ClaimCount \in Nat \ {0}
    /\ MaxEntries \in Nat /\ MaxExpiries \in Nat /\ MaxCrashes \in Nat
ASSUME NoneAssumption == None \notin Events \cup Workers \cup Nat

VARIABLES
    seen,      \* events whose dedup key is set
    expiries,  \* expiries[e]: keys of e that expired
    call,      \* call[d]: the event request d has marked and not yet added
    stream,    \* the events in the stream, in XADD order
    group,     \* the group exists
    origin,    \* the last entry when it was created: read by nobody
    cursor,    \* the group's last delivered entry
    owner,     \* owner[i]: consumer that holds i pending, None if nobody
    stale,     \* pending entries idle for longer than the reclaim timeout
    handled,   \* entries whose handler has returned
    dead,      \* entries in the dead-letter stream
    reclaims,  \* reclaims[i]: handlers started on i after a reclaim (history)
    worker,    \* worker[w]: the consume loop of w
    crashes    \* consumers lost so far

redis == <<seen, expiries, call>>
log == <<stream, group, origin, cursor>>
vars == <<redis, log, owner, stale, handled, dead, reclaims, worker, crashes>>

Ids == 1..MaxEntries

Places == {"down", "claim", "batch", "read", "handle", "ack", "bury", "buried"}

Busy == {"handle", "ack", "bury", "buried"}

\* new: msg came from XREADGROUP; rest: claimed, not yet taken up;
\* counts: _reclaim_counts; late: turned stale in w's hands (history)
Loop == [at : Places, msg : Ids \cup {None}, new : BOOLEAN,
         rest : SUBSET Ids, counts : [Ids -> 0..MaxAttempts],
         late : SUBSET Ids]

Fresh(place) == [at |-> place, msg |-> None, new |-> FALSE, rest |-> {},
                 counts |-> [i \in Ids |-> 0], late |-> {}]

Pending == {i \in Ids : owner[i] # None}

Copies(e) == {i \in 1..Len(stream) : stream[i] = e}

InHand(w) == worker[w].rest \cup
             (IF worker[w].at \in Busy THEN {worker[w].msg} ELSE {})

Init ==
    /\ seen = {} /\ stream = <<>> /\ group = FALSE
    /\ expiries = [e \in Events |-> 0]
    /\ call = [d \in Calls |-> None]
    /\ origin = 0 /\ cursor = 0 /\ crashes = 0
    /\ owner = [i \in Ids |-> None]
    /\ stale = {} /\ handled = {} /\ dead = {}
    /\ reclaims = [i \in Ids |-> 0]
    /\ worker = [w \in Workers |-> Fresh("down")]

-----------------------------------------------------------------------------
(* Webhook delivery.  A delivery whose key is already set is answered      *)
(* "duplicate" and changes nothing.                                        *)

NoMark(e) == TRUE                                    \* mutant: no NX
Unmarked(e) == e \notin seen

Receive(d, e) ==
    /\ call[d] = None
    /\ Unmarked(e)
    /\ seen' = seen \cup {e}
    /\ call' = [call EXCEPT ![d] = e]
    /\ UNCHANGED <<expiries, log, owner, stale, handled, dead, reclaims,
                   worker, crashes>>

Publish(d) ==
    /\ call[d] # None
    /\ Len(stream) < MaxEntries
    /\ stream' = Append(stream, call[d])
    /\ call' = [call EXCEPT ![d] = None]
    /\ UNCHANGED <<seen, expiries, group, origin, cursor, owner, stale,
                   handled, dead, reclaims, worker, crashes>>

(* The normalizer refuses the payload, XADD raises, or the process dies.   *)
PublishFails(d) ==
    /\ call[d] # None
    /\ call' = [call EXCEPT ![d] = None]
    /\ UNCHANGED <<seen, expiries, log, owner, stale, handled, dead, reclaims,
                   worker, crashes>>

Forget(e) ==
    /\ e \in seen
    /\ expiries[e] < MaxExpiries
    /\ seen' = seen \ {e}
    /\ expiries' = [expiries EXCEPT ![e] = @ + 1]
    /\ UNCHANGED <<call, log, owner, stale, handled, dead, reclaims, worker,
                   crashes>>

-----------------------------------------------------------------------------
(* The consume loop.                                                       *)

Start(w) ==
    /\ worker[w].at = "down"
    /\ group' = TRUE
    /\ IF group THEN UNCHANGED <<origin, cursor>>
       ELSE origin' = Len(stream) /\ cursor' = Len(stream)
    /\ worker' = [worker EXCEPT ![w] = Fresh("claim")]
    /\ UNCHANGED <<redis, stream, owner, stale, handled, dead, reclaims,
                   crashes>>

AnyPending(S) ==                                     \* mutant: no idle time
    S \subseteq Pending /\ Cardinality(S) <= ClaimCount

\* XAUTOCLAIM from 0-0: the first ClaimCount entries of those it may take.
Claimed(S) ==
    /\ S \subseteq stale
    /\ Cardinality(S) <= ClaimCount
    /\ \A i \in stale \ S : Cardinality(S) = ClaimCount
                            /\ \A j \in S : j < i

Claim(w) ==
    /\ worker[w].at = "claim"
    /\ \E S \in SUBSET Ids :
          /\ Claimed(S)
          /\ owner' = [i \in Ids |-> IF i \in S THEN w ELSE owner[i]]
          /\ stale' = stale \ S
          /\ worker' = [worker EXCEPT ![w] =
                [@ EXCEPT !.at = "batch", !.rest = S, !.late = {}]]
    /\ UNCHANGED <<redis, log, handled, dead, reclaims, crashes>>

BatchDone(w) ==
    /\ worker[w].at = "batch"
    /\ worker[w].rest = {}
    /\ worker' = [worker EXCEPT ![w] = [@ EXCEPT !.at = "read"]]
    /\ UNCHANGED <<redis, log, owner, stale, handled, dead, reclaims, crashes>>

OneMore(w, i) == worker[w].counts[i] > MaxAttempts   \* mutant: off by one
OneLess(w, i) == worker[w].counts[i] + 1 >= MaxAttempts
Exhausted(w, i) == worker[w].counts[i] >= MaxAttempts

First(S) == CHOOSE i \in S : \A j \in S : i <= j

TakeUp(w) ==
    /\ worker[w].at = "batch"
    /\ \E i \in worker[w].rest :
          /\ i = First(worker[w].rest)
          /\ ~Exhausted(w, i)
          /\ worker' = [worker EXCEPT ![w] =
                [@ EXCEPT !.at = "handle", !.msg = i, !.new = FALSE,
                          !.rest = worker[w].rest \ {i},
                          !.counts[i] = worker[w].counts[i] + 1]]
          /\ reclaims' = [reclaims EXCEPT ![i] =
                IF @ > MaxAttempts THEN @ ELSE @ + 1]
    /\ UNCHANGED <<redis, log, owner, stale, handled, dead, crashes>>

GiveUp(w) ==
    /\ worker[w].at = "batch"
    /\ \E i \in worker[w].rest :
          /\ i = First(worker[w].rest)
          /\ Exhausted(w, i)
          /\ worker' = [worker EXCEPT ![w] =
                [@ EXCEPT !.at = "bury", !.msg = i, !.new = FALSE,
                          !.rest = worker[w].rest \ {i}]]
    /\ UNCHANGED <<redis, log, owner, stale, handled, dead, reclaims, crashes>>

Read(w) ==
    /\ worker[w].at = "read"
    /\ cursor < Len(stream)
    /\ cursor' = cursor + 1
    /\ owner' = [owner EXCEPT ![cursor + 1] = w]
    /\ worker' = [worker EXCEPT ![w] =
          [@ EXCEPT !.at = "handle", !.msg = cursor + 1, !.new = TRUE,
                    !.late = {}]]
    /\ UNCHANGED <<redis, stream, group, origin, stale, handled, dead,
                   reclaims, crashes>>

ReadNothing(w) ==
    /\ worker[w].at = "read"
    /\ cursor = Len(stream)
    /\ worker' = [worker EXCEPT ![w] = [@ EXCEPT !.at = "claim"]]
    /\ UNCHANGED <<redis, log, owner, stale, handled, dead, reclaims, crashes>>

-----------------------------------------------------------------------------
(* One entry: _process_one and _dead_letter.                               *)

\* XACK.
Settle(i) ==
    /\ owner' = [owner EXCEPT ![i] = None]
    /\ stale' = stale \ {i}

Resume(w) == IF worker[w].new THEN "claim" ELSE "batch"

Succeed(w) ==
    /\ worker[w].at = "handle"
    /\ handled' = handled \cup {worker[w].msg}
    /\ worker' = [worker EXCEPT ![w] = [@ EXCEPT !.at = "ack"]]
    /\ UNCHANGED <<redis, log, owner, stale, dead, reclaims, crashes>>

FailAcks(w) ==                                       \* mutant: ack in finally
    /\ worker[w].at \in {"handle", "ack"}
    /\ Settle(worker[w].msg)
    /\ worker' = [worker EXCEPT ![w] = [@ EXCEPT !.at = Resume(w)]]
    /\ UNCHANGED <<redis, log, handled, dead, reclaims, crashes>>

FailForgets(w) ==                                    \* mutant: pop in finally
    /\ worker[w].at \in {"handle", "ack"}
    /\ worker' = [worker EXCEPT ![w] =
          [@ EXCEPT !.at = Resume(w), !.counts[worker[w].msg] = 0]]
    /\ UNCHANGED <<redis, log, owner, stale, handled, dead, reclaims, crashes>>

(* The handler raises, or the XACK after it does without taking effect:    *)
(* the entry stays pending.                                                *)
Fail(w) ==
    /\ worker[w].at \in {"handle", "ack"}
    /\ worker' = [worker EXCEPT ![w] = [@ EXCEPT !.at = Resume(w)]]
    /\ UNCHANGED <<redis, log, owner, stale, handled, dead, reclaims, crashes>>

Ack(w) ==
    /\ worker[w].at = "ack"
    /\ Settle(worker[w].msg)
    /\ worker' = [worker EXCEPT ![w] =
          [@ EXCEPT !.at = Resume(w), !.counts[worker[w].msg] = 0]]
    /\ UNCHANGED <<redis, log, handled, dead, reclaims, crashes>>

(* XACK takes effect and its answer is lost: the count is not popped.      *)
AckUnheard(w) ==
    /\ worker[w].at = "ack"
    /\ Settle(worker[w].msg)
    /\ worker' = [worker EXCEPT ![w] = [@ EXCEPT !.at = Resume(w)]]
    /\ UNCHANGED <<redis, log, handled, dead, reclaims, crashes>>

Bury(w) ==
    /\ worker[w].at = "bury"
    /\ dead' = dead \cup {worker[w].msg}
    /\ worker' = [worker EXCEPT ![w] = [@ EXCEPT !.at = "buried"]]
    /\ UNCHANGED <<redis, log, owner, stale, handled, reclaims, crashes>>

AckBuried(w) ==
    /\ worker[w].at = "buried"
    /\ Settle(worker[w].msg)
    /\ worker' = [worker EXCEPT ![w] =
          [@ EXCEPT !.at = "batch", !.counts[worker[w].msg] = 0]]
    /\ UNCHANGED <<redis, log, handled, dead, reclaims, crashes>>

-----------------------------------------------------------------------------
(* The environment: time passes for a pending entry, and a consumer is     *)
(* cancelled, killed, or ended by a Redis error outside _process_one; its  *)
(* hands and its counts are gone.                                          *)

TurnStale(i) ==
    /\ i \in Pending \ stale
    /\ stale' = stale \cup {i}
    /\ worker' = [w \in Workers |->
          IF owner[i] = w /\ i \in InHand(w)
            THEN [worker[w] EXCEPT !.late = @ \cup {i}] ELSE worker[w]]
    /\ UNCHANGED <<redis, log, owner, handled, dead, reclaims, crashes>>

Crash(w) ==
    /\ worker[w].at # "down"
    /\ crashes < MaxCrashes
    /\ crashes' = crashes + 1
    /\ worker' = [worker EXCEPT ![w] = Fresh("down")]
    /\ UNCHANGED <<redis, log, owner, stale, handled, dead, reclaims>>

WorkerStep(w) ==
    \/ Claim(w) \/ BatchDone(w) \/ TakeUp(w) \/ GiveUp(w)
    \/ Read(w) \/ ReadNothing(w)
    \/ Succeed(w) \/ Fail(w) \/ Ack(w) \/ AckUnheard(w)
    \/ Bury(w) \/ AckBuried(w)

Next ==
    \/ \E d \in Calls : \/ \E e \in Events : Receive(d, e)
                        \/ Publish(d)
                        \/ PublishFails(d)
    \/ \E e \in Events : Forget(e)
    \/ \E w \in Workers : Start(w) \/ WorkerStep(w) \/ Crash(w)
    \/ \E i \in Ids : TurnStale(i)

Spec == Init /\ [][Next]_vars

(* A consumer that runs keeps taking steps, its handlers end one way or    *)
(* the other, and time passes.  Nothing makes a lost consumer start again. *)
FairSpec ==
    /\ Spec
    /\ \A w \in Workers : WF_vars(WorkerStep(w))
    /\ \A i \in Ids : WF_vars(TurnStale(i))

-----------------------------------------------------------------------------
(* Properties.                                                             *)

(* Types of the stream's bookkeeping; a worker never counts more reclaims  *)
(* of an entry than _MAX_RECLAIM_ATTEMPTS.                                 *)
TypeOK ==
    /\ seen \subseteq Events
    /\ expiries \in [Events -> 0..MaxExpiries]
    /\ call \in [Calls -> Events \cup {None}]
    /\ stream \in Seq(Events) /\ Len(stream) <= MaxEntries
    /\ group \in BOOLEAN
    /\ origin \in 0..MaxEntries
    /\ cursor \in origin..Len(stream)
    /\ owner \in [Ids -> Workers \cup {None}]
    /\ stale \subseteq Pending
    /\ handled \subseteq Ids /\ dead \subseteq Ids
    /\ reclaims \in [Ids -> 0..MaxAttempts + 1]
    /\ worker \in [Workers -> Loop]
    /\ \A w \in Workers : worker[w].at \in Busy => worker[w].msg \in Ids
    /\ crashes \in 0..MaxCrashes

(* An entry the group has delivered is pending, or its handler has         *)
(* returned, or it is in the dead-letter stream: whatever crashes, fails   *)
(* or is reclaimed, no XACK loses it.                                      *)
NothingLost ==
    \A i \in Ids : origin < i /\ i <= cursor =>
        owner[i] # None \/ i \in handled \/ i \in dead

(* Only an entry that was taken up _MAX_RECLAIM_ATTEMPTS times after a     *)
(* reclaim is put aside as a dead letter.                                  *)
DeadAfterTries == \A i \in dead : reclaims[i] >= MaxAttempts

(* Two consumers have the same entry in hand only when one of them has     *)
(* kept it past the reclaim timeout: the timeout is the only way two       *)
(* handlers run on one entry at once.                                      *)
OverlapMeansLate ==
    \A w, v \in Workers : w # v =>
        InHand(w) \cap InHand(v) \subseteq worker[w].late \cup worker[v].late

(* However a provider repeats its deliveries, and however they race, an    *)
(* event is in the stream once per life of its dedup key.                  *)
EnteredOnce == \A e \in Events : Cardinality(Copies(e)) <= 1 + expiries[e]

(* A pending entry is settled - acknowledged or put aside - as long as     *)
(* some consumer stays up, even if every handler of it fails.              *)
Settles ==
    \A i \in Ids : (owner[i] # None) ~>
        (owner[i] = None \/ \A w \in Workers : worker[w].at = "down")

(* Whatever the workers of a group do, it is a queue that delivers each    *)
(* entry at least once and settles none before it is handled or put aside. *)
Queue == INSTANCE DeliveryQueue
           WITH length <- Len(stream), opened <- group, given <- cursor,
                owed <- Pending, aside <- dead

ImplementsQueue == Queue!Spec

(* base_worker.py:5-6: a message that fails repeatedly is moved to the     *)
(* dead-letter stream after _MAX_RECLAIM_ATTEMPTS.  The counts are each    *)
(* worker's own.                                                           *)
AttemptsAreBounded == \A i \in Ids : reclaims[i] <= MaxAttempts

(* process_api.py:702-703: deliveries are not silently dropped.  A marked  *)
(* event, whose redelivery is refused as a duplicate, is in the stream or  *)
(* about to be.                                                            *)
NotDropped ==
    \A e \in seen : Copies(e) # {} \/ \E d \in Calls : call[d] = e

-----------------------------------------------------------------------------
(* The inductive invariant behind the safety properties.                   *)

\* Between two batches nothing is left over, and nobody has in hand, or
\* pending, what the group has not delivered.
HandsOK ==
    /\ \A w \in Workers : worker[w].at \in {"down", "claim", "read"}
                              => worker[w].rest = {}
    /\ \A w \in Workers : worker[w].at \in Busy /\ worker[w].new
                              => worker[w].rest = {}
    /\ \A w \in Workers : InHand(w) \subseteq 1..cursor
    /\ Pending \subseteq 1..cursor

\* What a consumer has in hand and not kept too long is its own, unless a
\* late consumer has settled it; it is its own and stale only if late.
HeldInTime ==
    \A w \in Workers : \A i \in InHand(w) :
        /\ i \in worker[w].late \/ owner[i] \in {w, None}
        /\ i \in stale /\ owner[i] = w => i \in worker[w].late

\* An XACK follows the handler's return or the dead letter.
AckIsEarned ==
    \A w \in Workers :
        /\ worker[w].at = "ack" => worker[w].msg \in handled
        /\ worker[w].at = "buried" => worker[w].msg \in dead

\* A worker's count is never ahead of what has happened.
CountsAreReal ==
    /\ \A w \in Workers : \A i \in Ids : worker[w].counts[i] <= reclaims[i]
    /\ \A w \in Workers : worker[w].at = "bury"
                              => reclaims[worker[w].msg] >= MaxAttempts

StreamInv ==
    /\ TypeOK /\ HandsOK /\ HeldInTime /\ AckIsEarned /\ CountsAreReal
    /\ NothingLost /\ DeadAfterTries /\ OverlapMeansLate

\* A dedup key that is not set, a request that has marked its event and not
\* added it, an entry: each of them uses up one life of the key.
Carriers(e) == {d \in Calls : call[d] = e}

Lives(e) == Cardinality(Copies(e)) + Cardinality(Carriers(e))
            + (IF e \in seen THEN 0 ELSE 1)

EntriesArePaidFor ==
    \A e \in Events : IsFiniteSet(Carriers(e)) /\ Lives(e) <= 1 + expiries[e]

\* Only a worker of an existing group runs.
GroupIsOpen == \A w \in Workers : worker[w].at # "down" => group

=============================================================================
