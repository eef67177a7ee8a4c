------------------------- MODULE EventStreamProofs -------------------------
(***************************************************************************)
(* Proofs about EventStream for any number of events, requests, consumers  *)
(* and entries, and any limits: an entry is never lost by an XACK, none is *)
(* put aside early, two consumers hold one entry only past the reclaim     *)
(* timeout, an event is entered once per life of its dedup key, and the    *)
(* whole implements DeliveryQueue.                                         *)
(***************************************************************************)
EXTENDS EventStream, FiniteSetTheorems, TLAPS

LEMMA StreamInvInit == Init => StreamInv
<1> SUFFICES ASSUME Init PROVE StreamInv
  OBVIOUS
<1>1. TypeOK
  <2>1. worker \in [Workers -> Loop]
    BY BoundsAssumption DEF Init, Fresh, Loop, Places
  <2>2. \A w \in Workers : worker[w].at = "down"
    BY DEF Init, Fresh
  <2>3. /\ seen \subseteq Events /\ call \in [Calls -> Events \cup {None}]
        /\ expiries \in [Events -> 0..MaxExpiries] /\ crashes \in 0..MaxCrashes
    BY BoundsAssumption DEF Init
  <2>4. /\ stream \in Seq(Events) /\ Len(stream) = 0 /\ group \in BOOLEAN
        /\ origin \in 0..MaxEntries /\ cursor \in origin..Len(stream)
    <3>1. stream = <<>> /\ origin = 0 /\ cursor = 0 /\ group = FALSE
      BY DEF Init
    <3>2. Len(stream) = 0 /\ stream \in Seq(Events)
      BY <3>1
    <3>3. origin \in 0..MaxEntries /\ cursor \in origin..Len(stream)
      BY <3>1, <3>2, BoundsAssumption
    <3>4. group \in BOOLEAN
      BY <3>1
    <3> QED BY <3>2, <3>3, <3>4
  <2>5. reclaims \in [Ids -> 0..MaxAttempts + 1]
    BY BoundsAssumption DEF Init
  <2>6. owner \in [Ids -> Workers \cup {None}]
    BY DEF Init
  <2> QED
    BY <2>1, <2>2, <2>3, <2>4, <2>5, <2>6, BoundsAssumption
       DEF Init, TypeOK, Busy
<1>2. \A w \in Workers : InHand(w) = {} /\ worker[w].rest = {}
                         /\ worker[w].at = "down" /\ worker[w].counts = [i \in Ids |-> 0]
  BY DEF Init, Fresh, InHand, Busy
<1>3. HandsOK /\ HeldInTime /\ AckIsEarned
  BY <1>2 DEF Init, HandsOK, HeldInTime, AckIsEarned, Pending, Busy
<1>4. CountsAreReal
  <2>1. \A w \in Workers : \A i \in Ids : worker[w].counts[i] = 0 /\ reclaims[i] = 0
    BY <1>2 DEF Init
  <2> QED BY <1>2, <2>1 DEF CountsAreReal
<1>5. NothingLost /\ DeadAfterTries /\ OverlapMeansLate
  BY <1>2 DEF Init, NothingLost, DeadAfterTries, OverlapMeansLate, Ids
<1> QED BY <1>1, <1>3, <1>4, <1>5 DEF StreamInv

-----------------------------------------------------------------------------
(* What one step of a consumer does to its loop.                           *)

LEMMA FreshLoop == Fresh("down") \in Loop /\ Fresh("claim") \in Loop
BY BoundsAssumption DEF Fresh, Loop, Places

\* The loop f, field by field.
IsLoop(f, at, msg, new, rest, counts, late) ==
    /\ f \in Loop
    /\ f.at = at /\ f.msg = msg /\ f.new = new
    /\ f.rest = rest /\ f.counts = counts /\ f.late = late

(* Every form in which a consumer's loop is rewritten.                     *)
LEMMA GoForm ==
    ASSUME NEW r \in Loop, NEW p \in Places
    PROVE  IsLoop([r EXCEPT !.at = p], p, r.msg, r.new, r.rest, r.counts, r.late)
BY DEF Loop, IsLoop

LEMMA ClaimForm ==
    ASSUME NEW r \in Loop, NEW p \in Places, NEW S \in SUBSET Ids
    PROVE  IsLoop([r EXCEPT !.at = p, !.rest = S, !.late = {}],
                  p, r.msg, r.new, S, r.counts, {})
BY DEF Loop, IsLoop

LEMMA ReadForm ==
    ASSUME NEW r \in Loop, NEW p \in Places, NEW i \in Ids
    PROVE  IsLoop([r EXCEPT !.at = p, !.msg = i, !.new = TRUE, !.late = {}],
                  p, i, TRUE, r.rest, r.counts, {})
BY DEF Loop, IsLoop

LEMMA GiveForm ==
    ASSUME NEW r \in Loop, NEW p \in Places, NEW i \in Ids, NEW S \in SUBSET Ids
    PROVE  IsLoop([r EXCEPT !.at = p, !.msg = i, !.new = FALSE, !.rest = S],
                  p, i, FALSE, S, r.counts, r.late)
BY DEF Loop, IsLoop

LEMMA TakeForm ==
    ASSUME NEW r \in Loop, NEW p \in Places, NEW i \in Ids, NEW S \in SUBSET Ids,
           NEW k \in 0..MaxAttempts
    PROVE  IsLoop([r EXCEPT !.at = p, !.msg = i, !.new = FALSE, !.rest = S,
                            !.counts[i] = k],
                  p, i, FALSE, S, [r.counts EXCEPT ![i] = k], r.late)
BY DEF Loop, IsLoop

LEMMA PopForm ==
    ASSUME NEW r \in Loop, NEW p \in Places, NEW i \in Ids
    PROVE  IsLoop([r EXCEPT !.at = p, !.counts[i] = 0],
                  p, r.msg, r.new, r.rest, [r.counts EXCEPT ![i] = 0], r.late)
<1>1. ASSUME NEW k \in 0..MaxAttempts
      PROVE  IsLoop([r EXCEPT !.at = p, !.counts[i] = k],
                    p, r.msg, r.new, r.rest, [r.counts EXCEPT ![i] = k], r.late)
  BY DEF Loop, IsLoop
<1>2. 0 \in 0..MaxAttempts
  BY BoundsAssumption
<1> QED BY <1>1, <1>2

LEMMA LateForm ==
    ASSUME NEW r \in Loop, NEW S \in SUBSET Ids
    PROVE  IsLoop([r EXCEPT !.late = S], r.at, r.msg, r.new, r.rest, r.counts, S)
BY DEF Loop, IsLoop

LEMMA Typed ==
    ASSUME TypeOK, NEW w \in Workers
    PROVE  /\ worker \in [Workers -> Loop] /\ worker[w] \in Loop
           /\ worker[w].rest \in SUBSET Ids
           /\ worker[w].late \in SUBSET Ids
           /\ worker[w].new \in BOOLEAN
           /\ worker[w].at \in Places
           /\ Resume(w) \in Places
           /\ \A i \in Ids : worker[w].counts[i] \in 0..MaxAttempts
           /\ worker[w].at \in Busy => worker[w].msg \in Ids
BY DEF TypeOK, Loop, Resume, Places

\* Consumer w moves to the given loop; the others stay where they are.
Moves(w, at, msg, new, rest, counts, late) ==
    /\ worker' \in [Workers -> Loop]
    /\ IsLoop(worker'[w], at, msg, new, rest, counts, late)
    /\ \A v \in Workers \ {w} : worker'[v] = worker[v]

LEMMA LoopMoves ==
    ASSUME TypeOK, NEW w \in Workers, NEW r, worker' = [worker EXCEPT ![w] = r],
           NEW at, NEW msg, NEW new, NEW rest, NEW counts, NEW late,
           IsLoop(r, at, msg, new, rest, counts, late)
    PROVE  Moves(w, at, msg, new, rest, counts, late)
BY DEF TypeOK, Moves, IsLoop

LEMMA StartEffect ==
    ASSUME TypeOK, NEW w \in Workers, Start(w)
    PROVE  Moves(w, "claim", None, FALSE, {}, [i \in Ids |-> 0], {})
<1>1. IsLoop(Fresh("claim"), "claim", None, FALSE, {}, [i \in Ids |-> 0], {})
  BY FreshLoop DEF Fresh, IsLoop
<1> QED BY <1>1, LoopMoves DEF Start

LEMMA CrashEffect ==
    ASSUME TypeOK, NEW w \in Workers, Crash(w)
    PROVE  Moves(w, "down", None, FALSE, {}, [i \in Ids |-> 0], {})
<1>1. IsLoop(Fresh("down"), "down", None, FALSE, {}, [i \in Ids |-> 0], {})
  BY FreshLoop DEF Fresh, IsLoop
<1> QED BY <1>1, LoopMoves DEF Crash

LEMMA ClaimEffect ==
    ASSUME TypeOK, NEW w \in Workers, Claim(w)
    PROVE  \E S \in SUBSET stale :
              /\ S \subseteq Ids
              /\ owner' = [i \in Ids |-> IF i \in S THEN w ELSE owner[i]]
              /\ stale' = stale \ S
              /\ Moves(w, "batch", worker[w].msg, worker[w].new, S,
                       worker[w].counts, {})
<1>1. PICK S \in SUBSET Ids :
        /\ Claimed(S)
        /\ owner' = [i \in Ids |-> IF i \in S THEN w ELSE owner[i]]
        /\ stale' = stale \ S
        /\ worker' = [worker EXCEPT ![w] =
              [worker[w] EXCEPT !.at = "batch", !.rest = S, !.late = {}]]
  BY DEF Claim
<1> DEFINE r == [worker[w] EXCEPT !.at = "batch", !.rest = S, !.late = {}]
<1>2. IsLoop(r, "batch", worker[w].msg, worker[w].new, S, worker[w].counts, {})
  BY Typed, ClaimForm DEF Places
<1>3. worker' = [worker EXCEPT ![w] = r]
  BY <1>1
<1> HIDE DEF r
<1>4. Moves(w, "batch", worker[w].msg, worker[w].new, S, worker[w].counts, {})
  BY <1>2, <1>3, LoopMoves
<1> QED BY <1>1, <1>4 DEF Claimed

LEMMA TakeUpEffect ==
    ASSUME TypeOK, NEW w \in Workers, TakeUp(w)
    PROVE  \E i \in worker[w].rest :
              /\ i \in Ids /\ worker[w].counts[i] < MaxAttempts
              /\ reclaims' = [reclaims EXCEPT ![i] =
                    IF reclaims[i] > MaxAttempts THEN reclaims[i] ELSE reclaims[i] + 1]
              /\ Moves(w, "handle", i, FALSE, worker[w].rest \ {i},
                       [worker[w].counts EXCEPT ![i] = worker[w].counts[i] + 1],
                       worker[w].late)
<1>1. PICK i \in worker[w].rest :
        /\ ~Exhausted(w, i)
        /\ worker' = [worker EXCEPT ![w] =
              [worker[w] EXCEPT !.at = "handle", !.msg = i, !.new = FALSE,
                        !.rest = worker[w].rest \ {i},
                        !.counts[i] = worker[w].counts[i] + 1]]
        /\ reclaims' = [reclaims EXCEPT ![i] =
              IF reclaims[i] > MaxAttempts THEN reclaims[i] ELSE reclaims[i] + 1]
  BY DEF TakeUp
<1> DEFINE k == worker[w].counts[i] + 1
           S == worker[w].rest \ {i}
           r == [worker[w] EXCEPT !.at = "handle", !.msg = i, !.new = FALSE,
                                  !.rest = S, !.counts[i] = k]
<1>2. i \in Ids /\ worker[w].counts[i] < MaxAttempts /\ k \in 0..MaxAttempts
  BY <1>1, BoundsAssumption, Typed DEF Exhausted
<1>3. S \in SUBSET Ids
  BY Typed
<1>4. worker' = [worker EXCEPT ![w] = r]
  BY <1>1
<1>5. IsLoop(r, "handle", i, FALSE, S, [worker[w].counts EXCEPT ![i] = k],
             worker[w].late)
  <2> HIDE DEF k, S
  <2> QED BY <1>2, <1>3, Typed, TakeForm DEF Places
<1>6. Moves(w, "handle", i, FALSE, S, [worker[w].counts EXCEPT ![i] = k],
            worker[w].late)
  <2> HIDE DEF r, k, S
  <2> QED BY <1>4, <1>5, LoopMoves
<1> QED BY <1>1, <1>2, <1>6

LEMMA GiveUpEffect ==
    ASSUME TypeOK, NEW w \in Workers, GiveUp(w)
    PROVE  \E i \in worker[w].rest :
              /\ i \in Ids /\ worker[w].counts[i] >= MaxAttempts
              /\ Moves(w, "bury", i, FALSE, worker[w].rest \ {i},
                       worker[w].counts, worker[w].late)
<1>1. PICK i \in worker[w].rest :
        /\ Exhausted(w, i)
        /\ worker' = [worker EXCEPT ![w] =
              [worker[w] EXCEPT !.at = "bury", !.msg = i, !.new = FALSE,
                                !.rest = worker[w].rest \ {i}]]
  BY DEF GiveUp
<1> DEFINE S == worker[w].rest \ {i}
           r == [worker[w] EXCEPT !.at = "bury", !.msg = i, !.new = FALSE, !.rest = S]
<1>2. i \in Ids /\ S \in SUBSET Ids
  BY Typed
<1>3. worker' = [worker EXCEPT ![w] = r]
  BY <1>1
<1>4. IsLoop(r, "bury", i, FALSE, S, worker[w].counts, worker[w].late)
  <2> HIDE DEF S
  <2> QED BY <1>2, Typed, GiveForm DEF Places
<1>5. Moves(w, "bury", i, FALSE, S, worker[w].counts, worker[w].late)
  <2> HIDE DEF r, S
  <2> QED BY <1>3, <1>4, LoopMoves
<1> QED BY <1>1, <1>2, <1>5 DEF Exhausted

LEMMA ReadEffect ==
    ASSUME TypeOK, NEW w \in Workers, Read(w)
    PROVE  /\ cursor + 1 \in Ids /\ cursor + 1 <= Len(stream)
           /\ Moves(w, "handle", cursor + 1, TRUE, worker[w].rest,
                    worker[w].counts, {})
<1> DEFINE i == cursor + 1
           r == [worker[w] EXCEPT !.at = "handle", !.msg = i, !.new = TRUE, !.late = {}]
<1>1. i \in Ids /\ i <= Len(stream) /\ worker' = [worker EXCEPT ![w] = r]
  BY BoundsAssumption DEF Read, TypeOK, Ids
<1>2. IsLoop(r, "handle", i, TRUE, worker[w].rest, worker[w].counts, {})
  <2> HIDE DEF i
  <2> QED BY <1>1, Typed, ReadForm DEF Places
<1>3. Moves(w, "handle", i, TRUE, worker[w].rest, worker[w].counts, {})
  <2> HIDE DEF r, i
  <2> QED BY <1>1, <1>2, LoopMoves
<1> QED BY <1>1, <1>3

(* The steps that only go to another place of the loop.                    *)
LEMMA GoEffect ==
    ASSUME TypeOK, NEW w \in Workers, NEW p \in Places,
           worker' = [worker EXCEPT ![w] = [worker[w] EXCEPT !.at = p]]
    PROVE  Moves(w, p, worker[w].msg, worker[w].new, worker[w].rest,
                 worker[w].counts, worker[w].late)
<1> DEFINE r == [worker[w] EXCEPT !.at = p]
<1>1. IsLoop(r, p, worker[w].msg, worker[w].new, worker[w].rest, worker[w].counts,
             worker[w].late)
  BY Typed, GoForm
<1>2. worker' = [worker EXCEPT ![w] = r]
  OBVIOUS
<1> HIDE DEF r
<1> QED BY <1>1, <1>2, LoopMoves

(* The steps that also pop the count of the entry in hand.                 *)
LEMMA PopEffect ==
    ASSUME TypeOK, NEW w \in Workers, NEW p \in Places, worker[w].msg \in Ids,
           worker' = [worker EXCEPT ![w] =
                        [worker[w] EXCEPT !.at = p, !.counts[worker[w].msg] = 0]]
    PROVE  Moves(w, p, worker[w].msg, worker[w].new, worker[w].rest,
                 [worker[w].counts EXCEPT ![worker[w].msg] = 0], worker[w].late)
<1> DEFINE i == worker[w].msg
           r == [worker[w] EXCEPT !.at = p, !.counts[i] = 0]
<1>1. IsLoop(r, p, worker[w].msg, worker[w].new, worker[w].rest,
             [worker[w].counts EXCEPT ![i] = 0], worker[w].late)
  BY Typed, PopForm
<1>2. worker' = [worker EXCEPT ![w] = r]
  OBVIOUS
<1> HIDE DEF r
<1> QED BY <1>1, <1>2, LoopMoves

LEMMA TurnStaleEffect ==
    ASSUME TypeOK, NEW i \in Ids, TurnStale(i)
    PROVE  /\ worker' \in [Workers -> Loop]
           /\ \A w \in Workers :
                IsLoop(worker'[w], worker[w].at, worker[w].msg, worker[w].new,
                       worker[w].rest, worker[w].counts,
                       IF owner[i] = w /\ i \in InHand(w)
                         THEN worker[w].late \cup {i} ELSE worker[w].late)
<1>1. ASSUME NEW w \in Workers
      PROVE  IsLoop(worker'[w], worker[w].at, worker[w].msg, worker[w].new,
                    worker[w].rest, worker[w].counts,
                    IF owner[i] = w /\ i \in InHand(w)
                      THEN worker[w].late \cup {i} ELSE worker[w].late)
  <2>1. IsLoop([worker[w] EXCEPT !.late = worker[w].late \cup {i}],
               worker[w].at, worker[w].msg, worker[w].new, worker[w].rest,
               worker[w].counts, worker[w].late \cup {i})
    BY Typed, LateForm
  <2>2. IsLoop(worker[w], worker[w].at, worker[w].msg, worker[w].new,
               worker[w].rest, worker[w].counts, worker[w].late)
    BY Typed DEF IsLoop
  <2>3. worker'[w] = IF owner[i] = w /\ i \in InHand(w)
                       THEN [worker[w] EXCEPT !.late = worker[w].late \cup {i}]
                       ELSE worker[w]
    BY DEF TurnStale
  <2> QED BY <2>1, <2>2, <2>3
<1> QED BY <1>1 DEF TurnStale, IsLoop

-----------------------------------------------------------------------------
(* Type correctness.                                                       *)

LEMMA MovesTyped ==
    ASSUME TypeOK, NEW w \in Workers,
           NEW at, NEW msg, NEW new, NEW rest, NEW counts, NEW late,
           Moves(w, at, msg, new, rest, counts, late), at \in Busy => msg \in Ids
    PROVE  /\ worker' \in [Workers -> Loop]
           /\ \A v \in Workers : worker'[v].at \in Busy => worker'[v].msg \in Ids
BY DEF TypeOK, Moves, IsLoop

LEMMA OnlyLoopTyped ==
    ASSUME TypeOK, NEW w \in Workers,
           NEW at, NEW msg, NEW new, NEW rest, NEW counts, NEW late,
           Moves(w, at, msg, new, rest, counts, late), at \in Busy => msg \in Ids,
           UNCHANGED <<redis, log, owner, stale, handled, dead, reclaims, crashes>>
    PROVE  TypeOK'
BY MovesTyped DEF TypeOK, redis, log, Pending

LEMMA SettleTyped ==
    ASSUME TypeOK, NEW w \in Workers, NEW i \in Ids,
           NEW at, NEW msg, NEW new, NEW rest, NEW counts, NEW late,
           Moves(w, at, msg, new, rest, counts, late), at \in Busy => msg \in Ids,
           Settle(i), UNCHANGED <<redis, log, handled, dead, reclaims, crashes>>
    PROVE  TypeOK'
<1>1. /\ owner' \in [Ids -> Workers \cup {None}]
      /\ stale' \subseteq Pending'
  BY DEF TypeOK, Settle, Pending
<1> QED BY <1>1, MovesTyped DEF TypeOK, redis, log

LEMMA TypeStep == TypeOK /\ [Next]_vars => TypeOK'
<1> SUFFICES ASSUME TypeOK, [Next]_vars PROVE TypeOK'
  OBVIOUS
<1> USE BoundsAssumption
<1>1. ASSUME NEW d \in Calls, NEW e \in Events, Receive(d, e) PROVE TypeOK'
  BY <1>1 DEF Receive, TypeOK, log, Pending
<1>2. ASSUME NEW d \in Calls, Publish(d) PROVE TypeOK'
  <2>1. stream' \in Seq(Events) /\ Len(stream') = Len(stream) + 1
    BY <1>2, NoneAssumption DEF Publish, TypeOK
  <2>2. Len(stream') <= MaxEntries /\ cursor' \in origin'..Len(stream')
    BY <1>2, <2>1 DEF Publish, TypeOK
  <2>3. call' \in [Calls -> Events \cup {None}]
    BY <1>2 DEF Publish, TypeOK
  <2> QED BY <1>2, <2>1, <2>2, <2>3 DEF Publish, TypeOK, Pending
<1>3. ASSUME NEW d \in Calls, PublishFails(d) PROVE TypeOK'
  BY <1>3 DEF PublishFails, TypeOK, log, Pending
<1>4. ASSUME NEW e \in Events, Forget(e) PROVE TypeOK'
  <2>1. expiries' \in [Events -> 0..MaxExpiries] /\ seen' \subseteq Events
    BY <1>4 DEF Forget, TypeOK
  <2> QED BY <1>4, <2>1 DEF Forget, TypeOK, log, Pending
<1>5. ASSUME NEW w \in Workers, Start(w) PROVE TypeOK'
  <2>1. /\ worker' \in [Workers -> Loop]
        /\ \A v \in Workers : worker'[v].at \in Busy => worker'[v].msg \in Ids
    BY <1>5, StartEffect, MovesTyped DEF Busy
  <2>2. origin' \in 0..MaxEntries /\ cursor' \in origin'..Len(stream')
    BY <1>5 DEF Start, TypeOK
  <2> QED BY <1>5, <2>1, <2>2 DEF Start, TypeOK, redis, Pending
<1>6. ASSUME NEW w \in Workers, Claim(w) PROVE TypeOK'
  <2>1. PICK S \in SUBSET stale :
          /\ S \subseteq Ids
          /\ owner' = [i \in Ids |-> IF i \in S THEN w ELSE owner[i]]
          /\ stale' = stale \ S
          /\ Moves(w, "batch", worker[w].msg, worker[w].new, S,
                   worker[w].counts, {})
    BY <1>6, ClaimEffect
  <2>2. /\ worker' \in [Workers -> Loop]
        /\ \A v \in Workers : worker'[v].at \in Busy => worker'[v].msg \in Ids
    BY <2>1, MovesTyped DEF Busy
  <2>3. owner' \in [Ids -> Workers \cup {None}] /\ stale' \subseteq Pending'
    BY <2>1, NoneAssumption DEF TypeOK, Pending
  <2> QED BY <1>6, <2>2, <2>3 DEF Claim, TypeOK, redis, log
<1>7. ASSUME NEW w \in Workers, BatchDone(w) PROVE TypeOK'
  BY <1>7, GoEffect, OnlyLoopTyped DEF BatchDone, Places, Busy
<1>8. ASSUME NEW w \in Workers, TakeUp(w) PROVE TypeOK'
  <2>1. PICK i \in worker[w].rest :
          /\ i \in Ids /\ worker[w].counts[i] < MaxAttempts
          /\ reclaims' = [reclaims EXCEPT ![i] =
                IF reclaims[i] > MaxAttempts THEN reclaims[i] ELSE reclaims[i] + 1]
          /\ Moves(w, "handle", i, FALSE, worker[w].rest \ {i},
                   [worker[w].counts EXCEPT ![i] = worker[w].counts[i] + 1],
                   worker[w].late)
    BY <1>8, TakeUpEffect
  <2>2. /\ worker' \in [Workers -> Loop]
        /\ \A v \in Workers : worker'[v].at \in Busy => worker'[v].msg \in Ids
    BY <2>1, MovesTyped
  <2>3. reclaims' \in [Ids -> 0..MaxAttempts + 1]
    BY <2>1 DEF TypeOK
  <2> QED BY <1>8, <2>2, <2>3 DEF TakeUp, TypeOK, redis, log, Pending
<1>9. ASSUME NEW w \in Workers, GiveUp(w) PROVE TypeOK'
  BY <1>9, GiveUpEffect, OnlyLoopTyped DEF GiveUp
<1>10. ASSUME NEW w \in Workers, Read(w) PROVE TypeOK'
  <2>1. /\ cursor + 1 \in Ids /\ cursor' = cursor + 1
        /\ cursor' \in origin'..Len(stream')
    <3>1. cursor + 1 \in Ids /\ cursor + 1 <= Len(stream)
      BY <1>10, ReadEffect
    <3> QED BY <1>10, <3>1 DEF Read, TypeOK
  <2>2. /\ worker' \in [Workers -> Loop]
        /\ \A v \in Workers : worker'[v].at \in Busy => worker'[v].msg \in Ids
    BY <1>10, ReadEffect, MovesTyped
  <2>3. owner' \in [Ids -> Workers \cup {None}] /\ stale' \subseteq Pending'
    BY <1>10, <2>1, NoneAssumption DEF Read, TypeOK, Pending
  <2> QED BY <1>10, <2>1, <2>2, <2>3 DEF Read, TypeOK, redis
<1>11. ASSUME NEW w \in Workers, ReadNothing(w) PROVE TypeOK'
  BY <1>11, GoEffect, OnlyLoopTyped DEF ReadNothing, Places, Busy
<1>12. ASSUME NEW w \in Workers, Succeed(w) PROVE TypeOK'
  <2>1. worker[w].msg \in Ids
    BY <1>12, Typed DEF Succeed, Busy
  <2>2. /\ worker' \in [Workers -> Loop]
        /\ \A v \in Workers : worker'[v].at \in Busy => worker'[v].msg \in Ids
    BY <1>12, <2>1, GoEffect, MovesTyped DEF Succeed, Places
  <2> QED BY <1>12, <2>1, <2>2 DEF Succeed, TypeOK, redis, log, Pending
<1>13. ASSUME NEW w \in Workers, Fail(w) PROVE TypeOK'
  BY <1>13, GoEffect, Typed, OnlyLoopTyped DEF Fail, Resume, Busy
<1>14. ASSUME NEW w \in Workers, Ack(w) PROVE TypeOK'
  <2>1. worker[w].msg \in Ids
    BY <1>14, Typed DEF Ack, Busy
  <2>2. Moves(w, Resume(w), worker[w].msg, worker[w].new, worker[w].rest,
              [worker[w].counts EXCEPT ![worker[w].msg] = 0], worker[w].late)
    BY <1>14, <2>1, Typed, PopEffect DEF Ack
  <2>3. Resume(w) \notin Busy
    BY DEF Resume, Busy
  <2> QED BY <1>14, <2>1, <2>2, <2>3, SettleTyped DEF Ack
<1>15. ASSUME NEW w \in Workers, AckUnheard(w) PROVE TypeOK'
  <2>1. worker[w].msg \in Ids
    BY <1>15, Typed DEF AckUnheard, Busy
  <2> QED BY <1>15, <2>1, GoEffect, Typed, SettleTyped DEF AckUnheard, Resume, Busy
<1>16. ASSUME NEW w \in Workers, Bury(w) PROVE TypeOK'
  <2>1. worker[w].msg \in Ids
    BY <1>16, Typed DEF Bury, Busy
  <2>2. /\ worker' \in [Workers -> Loop]
        /\ \A v \in Workers : worker'[v].at \in Busy => worker'[v].msg \in Ids
    BY <1>16, <2>1, GoEffect, MovesTyped DEF Bury, Places
  <2> QED BY <1>16, <2>1, <2>2 DEF Bury, TypeOK, redis, log, Pending
<1>17. ASSUME NEW w \in Workers, AckBuried(w) PROVE TypeOK'
  <2>1. worker[w].msg \in Ids
    BY <1>17, Typed DEF AckBuried, Busy
  <2>2. Moves(w, "batch", worker[w].msg, worker[w].new, worker[w].rest,
              [worker[w].counts EXCEPT ![worker[w].msg] = 0], worker[w].late)
    BY <1>17, <2>1, PopEffect DEF AckBuried, Places
  <2> QED BY <1>17, <2>1, <2>2, SettleTyped DEF AckBuried, Busy
<1>18. ASSUME NEW i \in Ids, TurnStale(i) PROVE TypeOK'
  <2>1. /\ worker' \in [Workers -> Loop]
        /\ \A w \in Workers : /\ worker'[w].at = worker[w].at
                              /\ worker'[w].msg = worker[w].msg
    BY <1>18, TurnStaleEffect DEF IsLoop
  <2>2. stale' \subseteq Pending'
    BY <1>18 DEF TurnStale, TypeOK, Pending
  <2> QED BY <1>18, <2>1, <2>2 DEF TurnStale, TypeOK, redis, log
<1>19. ASSUME NEW w \in Workers, Crash(w) PROVE TypeOK'
  <2>1. /\ worker' \in [Workers -> Loop]
        /\ \A v \in Workers : worker'[v].at \in Busy => worker'[v].msg \in Ids
    BY <1>19, CrashEffect, MovesTyped DEF Busy
  <2> QED BY <1>19, <2>1 DEF Crash, TypeOK, redis, log, Pending
<1>20. CASE UNCHANGED vars
  BY <1>20 DEF vars, redis, log, TypeOK, Pending
<1> QED
  BY <1>1, <1>2, <1>3, <1>4, <1>5, <1>6, <1>7, <1>8, <1>9, <1>10, <1>11, <1>12,
     <1>13, <1>14, <1>15, <1>16, <1>17, <1>18, <1>19, <1>20 DEF Next, WorkerStep

-----------------------------------------------------------------------------
(* Whose an entry is.                                                      *)

(* A step of one consumer that takes nothing into its hands.               *)
LEMMA HandsShrink ==
    ASSUME TypeOK, HandsOK, HeldInTime, OverlapMeansLate, NEW w \in Workers,
           \A v \in Workers \ {w} : worker'[v] = worker[v],
           InHand(w)' \subseteq InHand(w),
           worker'[w].late = worker[w].late \/ InHand(w)' = {},
           stale' \subseteq stale, \A i \in Ids : owner'[i] \in {owner[i], None},
           cursor' \in Nat, cursor <= cursor'
    PROVE  /\ HeldInTime' /\ OverlapMeansLate'
           /\ \A v \in Workers : InHand(v)' \subseteq 1..cursor'
           /\ Pending' \subseteq 1..cursor'
<1>1. \A v \in Workers \ {w} : InHand(v)' = InHand(v)
  BY DEF InHand
<1>2. cursor \in Nat /\ cursor <= cursor' /\ cursor' \in Nat
  BY BoundsAssumption DEF TypeOK
<1>3. ASSUME NEW v \in Workers
      PROVE  /\ InHand(v)' \subseteq InHand(v)
             /\ InHand(v)' = {} \/ worker'[v].late = worker[v].late
  BY <1>1
<1>4. ASSUME NEW v \in Workers PROVE InHand(v)' \subseteq 1..cursor'
  <2>1. InHand(v)' \subseteq InHand(v) /\ InHand(v) \subseteq 1..cursor
    BY <1>3 DEF HandsOK
  <2>2. 1..cursor \subseteq 1..cursor'
    BY <1>2
  <2> QED BY <2>1, <2>2
<1>5. Pending' \subseteq 1..cursor'
  BY <1>2 DEF HandsOK, Pending
<1>6. \A v \in Workers : InHand(v) \subseteq Ids /\ v # None
  BY Typed, NoneAssumption DEF InHand
<1>7. HeldInTime'
  <2> SUFFICES ASSUME NEW v \in Workers, NEW i \in InHand(v)'
               PROVE  /\ i \in worker'[v].late \/ owner'[i] \in {v, None}
                      /\ i \in stale' /\ owner'[i] = v => i \in worker'[v].late
    BY DEF HeldInTime
  <2>1. i \in InHand(v) /\ worker'[v].late = worker[v].late /\ i \in Ids /\ v # None
    BY <1>3, <1>6
  <2> QED BY <2>1 DEF HeldInTime
<1>8. OverlapMeansLate'
  <2> SUFFICES ASSUME NEW v \in Workers, NEW u \in Workers, v # u,
                      NEW i \in InHand(v)', i \in InHand(u)'
               PROVE  i \in worker'[v].late \cup worker'[u].late
    BY DEF OverlapMeansLate
  <2>1. /\ i \in InHand(v) /\ worker'[v].late = worker[v].late
        /\ i \in InHand(u) /\ worker'[u].late = worker[u].late
    BY <1>3
  <2> QED BY <2>1 DEF OverlapMeansLate
<1> QED BY <1>4, <1>5, <1>7, <1>8

(* Nobody has in hand, in time, an entry that turned stale.                *)
LEMMA StaleInHandIsLate ==
    ASSUME TypeOK, HeldInTime
    PROVE  \A v \in Workers : InHand(v) \cap stale \subseteq worker[v].late
BY DEF TypeOK, HeldInTime, Pending

LEMMA ClaimHands ==
    ASSUME StreamInv, NEW w \in Workers, Claim(w)
    PROVE  HandsOK' /\ HeldInTime' /\ OverlapMeansLate'
<1> USE DEF StreamInv
<1>1. PICK S \in SUBSET stale :
        /\ S \subseteq Ids
        /\ owner' = [i \in Ids |-> IF i \in S THEN w ELSE owner[i]]
        /\ stale' = stale \ S
        /\ Moves(w, "batch", worker[w].msg, worker[w].new, S, worker[w].counts, {})
  BY ClaimEffect
<1>2. /\ InHand(w)' = S /\ worker'[w].late = {} /\ worker'[w].at = "batch"
      /\ \A v \in Workers \ {w} : worker'[v] = worker[v] /\ InHand(v)' = InHand(v)
  BY <1>1 DEF Moves, IsLoop, InHand, Busy
<1>3. \A v \in Workers \ {w} : InHand(v) \cap S \subseteq worker[v].late
  BY <1>1, StaleInHandIsLate
<1>4. S \subseteq Pending /\ S \subseteq 1..cursor /\ cursor' = cursor
  BY <1>1 DEF TypeOK, HandsOK, Claim, log
<1>5. Pending' \subseteq 1..cursor'
  BY <1>1, <1>4 DEF Pending, HandsOK
<1>6. HandsOK'
  BY <1>2, <1>4, <1>5 DEF HandsOK, Busy
<1>7. \A v \in Workers : InHand(v) \subseteq Ids
  BY Typed DEF InHand
<1>8. HeldInTime'
  <2> SUFFICES ASSUME NEW v \in Workers, NEW i \in InHand(v)'
               PROVE  /\ i \in worker'[v].late \/ owner'[i] \in {v, None}
                      /\ i \in stale' /\ owner'[i] = v => i \in worker'[v].late
    BY DEF HeldInTime
  <2>1. CASE v = w
    BY <1>1, <1>2, <2>1
  <2>2. CASE v # w
    BY <1>1, <1>2, <1>3, <1>7, <2>2 DEF HeldInTime
  <2> QED BY <2>1, <2>2
<1>9. OverlapMeansLate'
  BY <1>2, <1>3 DEF OverlapMeansLate
<1> QED BY <1>6, <1>8, <1>9

LEMMA ReadHands ==
    ASSUME StreamInv, NEW w \in Workers, Read(w)
    PROVE  HandsOK' /\ HeldInTime' /\ OverlapMeansLate'
<1> USE DEF StreamInv
<1> DEFINE new == cursor + 1
<1>1. /\ new \in Ids /\ cursor \in Nat /\ cursor' = new /\ stale' = stale
      /\ owner' = [owner EXCEPT ![new] = w] /\ worker[w].at = "read"
  <2>1. cursor + 1 \in Ids
    BY ReadEffect
  <2>2. cursor \in Nat
    BY BoundsAssumption DEF TypeOK
  <2> QED BY <2>1, <2>2 DEF Read
<1>2. Moves(w, "handle", new, TRUE, worker[w].rest, worker[w].counts, {})
  BY ReadEffect
<1>3. worker[w].rest = {}
  BY <1>1 DEF HandsOK
<1>4. /\ InHand(w)' = {new} /\ worker'[w].late = {} /\ worker'[w].at = "handle"
      /\ worker'[w].rest = {}
      /\ \A v \in Workers \ {w} : worker'[v] = worker[v] /\ InHand(v)' = InHand(v)
  BY <1>2, <1>3 DEF Moves, IsLoop, InHand, Busy
<1>5. new \notin 1..cursor /\ 1..cursor \subseteq 1..cursor' /\ new \in 1..cursor'
  BY <1>1
<1>6. new \notin stale /\ \A v \in Workers : new \notin InHand(v)
  BY <1>5 DEF HandsOK, TypeOK
<1> HIDE DEF new
<1>7. Pending' \subseteq 1..cursor'
  BY <1>1, <1>5 DEF Pending, HandsOK, TypeOK
<1>8. HandsOK'
  BY <1>4, <1>5, <1>7 DEF HandsOK, Busy
<1>9. \A v \in Workers : InHand(v) \subseteq Ids
  BY Typed DEF InHand
<1>10. HeldInTime'
  <2> SUFFICES ASSUME NEW v \in Workers, NEW i \in InHand(v)'
               PROVE  /\ i \in worker'[v].late \/ owner'[i] \in {v, None}
                      /\ i \in stale' /\ owner'[i] = v => i \in worker'[v].late
    BY DEF HeldInTime
  <2>1. CASE v = w
    BY <1>1, <1>4, <1>6, <2>1 DEF TypeOK
  <2>2. CASE v # w
    <3>1. i # new /\ i \in InHand(v) /\ i \in Ids
      BY <1>4, <1>6, <1>9, <2>2
    <3> QED BY <1>1, <1>4, <2>2, <3>1 DEF HeldInTime, TypeOK
  <2> QED BY <2>1, <2>2
<1>11. OverlapMeansLate'
  BY <1>4, <1>6 DEF OverlapMeansLate
<1> QED BY <1>8, <1>10, <1>11

LEMMA TurnStaleHands ==
    ASSUME StreamInv, NEW i \in Ids, TurnStale(i)
    PROVE  HandsOK' /\ HeldInTime' /\ OverlapMeansLate'
<1> USE DEF StreamInv
<1>1. \A v \in Workers :
        /\ worker'[v].at = worker[v].at /\ worker'[v].msg = worker[v].msg
        /\ worker'[v].new = worker[v].new /\ worker'[v].rest = worker[v].rest
        /\ worker'[v].late = IF owner[i] = v /\ i \in InHand(v)
                               THEN worker[v].late \cup {i} ELSE worker[v].late
  BY TurnStaleEffect DEF IsLoop
<1>2. stale' = stale \cup {i} /\ owner' = owner /\ cursor' = cursor
  BY DEF TurnStale, log
<1>3. \A v \in Workers : InHand(v)' = InHand(v)
  BY <1>1 DEF InHand
<1>4. HandsOK'
  BY <1>1, <1>2, <1>3 DEF HandsOK, Pending
<1>5. HeldInTime'
  <2> SUFFICES ASSUME NEW v \in Workers, NEW j \in InHand(v)'
               PROVE  /\ j \in worker'[v].late \/ owner'[j] \in {v, None}
                      /\ j \in stale' /\ owner'[j] = v => j \in worker'[v].late
    BY DEF HeldInTime
  <2>1. j \in InHand(v)
    BY <1>3
  <2> QED BY <1>1, <1>2, <2>1 DEF HeldInTime
<1>6. OverlapMeansLate'
  <2> SUFFICES ASSUME NEW v \in Workers, NEW u \in Workers, v # u,
                      NEW j \in InHand(v)', j \in InHand(u)'
               PROVE  j \in worker'[v].late \cup worker'[u].late
    BY DEF OverlapMeansLate
  <2>1. j \in InHand(v) /\ j \in InHand(u)
    BY <1>3
  <2> QED BY <1>1, <2>1 DEF OverlapMeansLate
<1> QED BY <1>4, <1>5, <1>6

(* The consumer lets go of the entry it was at, if any.                    *)
LEMMA LetGo ==
    ASSUME TypeOK, HandsOK, HeldInTime, OverlapMeansLate, NEW w \in Workers,
           \A v \in Workers \ {w} : worker'[v] = worker[v],
           worker'[w].at \notin Busy, worker'[w].rest \subseteq InHand(w),
           worker'[w].late = worker[w].late \/ worker'[w].rest = {},
           worker'[w].at \in {"down", "claim", "read"} => worker'[w].rest = {},
           stale' \subseteq stale, \A i \in Ids : owner'[i] \in {owner[i], None},
           cursor' \in Nat, cursor <= cursor'
    PROVE  HandsOK' /\ HeldInTime' /\ OverlapMeansLate'
<1>1. InHand(w)' = worker'[w].rest
  BY DEF InHand
<1>2. /\ HeldInTime' /\ OverlapMeansLate'
      /\ \A v \in Workers : InHand(v)' \subseteq 1..cursor'
      /\ Pending' \subseteq 1..cursor'
  BY <1>1, HandsShrink
<1>3. \A v \in Workers : /\ worker'[v].at \in {"down", "claim", "read"}
                              => worker'[v].rest = {}
                         /\ worker'[v].at \in Busy /\ worker'[v].new
                              => worker'[v].rest = {}
  BY DEF HandsOK
<1> QED BY <1>2, <1>3 DEF HandsOK

(* The consumer goes on with an entry it has in hand.                      *)
LEMMA GoOn ==
    ASSUME TypeOK, HandsOK, HeldInTime, OverlapMeansLate, NEW w \in Workers,
           \A v \in Workers \ {w} : worker'[v] = worker[v],
           worker'[w].at \in Busy, worker'[w].late = worker[w].late,
           worker'[w].rest \cup {worker'[w].msg} \subseteq InHand(w),
           worker'[w].new => worker'[w].rest = {},
           stale' = stale, owner' = owner, cursor' = cursor
    PROVE  HandsOK' /\ HeldInTime' /\ OverlapMeansLate'
<1>1. InHand(w)' = worker'[w].rest \cup {worker'[w].msg}
  BY DEF InHand
<1>2. cursor \in Nat
  BY BoundsAssumption DEF TypeOK
<1>3. /\ HeldInTime' /\ OverlapMeansLate'
      /\ \A v \in Workers : InHand(v)' \subseteq 1..cursor'
      /\ Pending' \subseteq 1..cursor'
  BY <1>1, <1>2, HandsShrink
<1>4. \A v \in Workers : /\ worker'[v].at \in {"down", "claim", "read"}
                              => worker'[v].rest = {}
                         /\ worker'[v].at \in Busy /\ worker'[v].new
                              => worker'[v].rest = {}
  BY DEF HandsOK, Busy
<1> QED BY <1>3, <1>4 DEF HandsOK

(* Steps that leave the loops, the owners and the idle times alone.        *)
LEMMA OutsideHands ==
    ASSUME HandsOK, HeldInTime, OverlapMeansLate, UNCHANGED <<worker, owner, stale, cursor>>
    PROVE  HandsOK' /\ HeldInTime' /\ OverlapMeansLate'
BY DEF HandsOK, HeldInTime, OverlapMeansLate, InHand, Pending

LEMMA HandsStep == StreamInv /\ [Next]_vars => HandsOK' /\ HeldInTime' /\ OverlapMeansLate'
<1> SUFFICES ASSUME StreamInv, [Next]_vars
             PROVE  HandsOK' /\ HeldInTime' /\ OverlapMeansLate'
  OBVIOUS
<1> USE DEF StreamInv
<1>0. cursor \in Nat /\ \A i \in Ids : owner[i] \in {owner[i], None}
  BY BoundsAssumption DEF TypeOK
<1>1. CASE \/ \E d \in Calls : \/ \E e \in Events : Receive(d, e)
                               \/ Publish(d)
                               \/ PublishFails(d)
           \/ \E e \in Events : Forget(e)
           \/ UNCHANGED vars
  BY <1>1, OutsideHands DEF Receive, Publish, PublishFails, Forget, vars, log
<1>2. ASSUME NEW w \in Workers, Start(w)
      PROVE  HandsOK' /\ HeldInTime' /\ OverlapMeansLate'
  <2>1. cursor' \in Nat /\ cursor <= cursor' /\ stale' = stale /\ owner' = owner
    BY <1>0, <1>2 DEF Start, TypeOK
  <2>2. /\ worker'[w].at \notin Busy /\ worker'[w].rest = {}
        /\ \A v \in Workers \ {w} : worker'[v] = worker[v]
    BY <1>2, StartEffect DEF Moves, IsLoop, Busy
  <2> QED BY <1>0, <2>1, <2>2, LetGo
<1>3. ASSUME NEW w \in Workers, Crash(w)
      PROVE  HandsOK' /\ HeldInTime' /\ OverlapMeansLate'
  <2>1. cursor' = cursor /\ stale' = stale /\ owner' = owner
    BY <1>3 DEF Crash, log
  <2>2. /\ worker'[w].at \notin Busy /\ worker'[w].rest = {}
        /\ \A v \in Workers \ {w} : worker'[v] = worker[v]
    BY <1>3, CrashEffect DEF Moves, IsLoop, Busy
  <2> QED BY <1>0, <2>1, <2>2, LetGo
<1>4. ASSUME NEW w \in Workers, BatchDone(w) \/ ReadNothing(w)
      PROVE  HandsOK' /\ HeldInTime' /\ OverlapMeansLate'
  <2>1. PICK p \in {"read", "claim"} :
          worker' = [worker EXCEPT ![w] = [worker[w] EXCEPT !.at = p]]
    BY <1>4 DEF BatchDone, ReadNothing
  <2>2. Moves(w, p, worker[w].msg, worker[w].new, worker[w].rest,
              worker[w].counts, worker[w].late)
    BY <2>1, GoEffect DEF Places
  <2>3. worker[w].rest = {}
    BY <1>4 DEF BatchDone, ReadNothing, HandsOK
  <2>4. stale' = stale /\ owner' = owner /\ cursor' = cursor
    BY <1>4 DEF BatchDone, ReadNothing, log
  <2>5. /\ worker'[w].at \notin Busy /\ worker'[w].rest = {}
        /\ \A v \in Workers \ {w} : worker'[v] = worker[v]
    BY <2>2, <2>3 DEF Moves, IsLoop, Busy
  <2> QED BY <1>0, <2>4, <2>5, LetGo
<1>5. ASSUME NEW w \in Workers, TakeUp(w)
      PROVE  HandsOK' /\ HeldInTime' /\ OverlapMeansLate'
  <2>1. PICK i \in worker[w].rest :
          Moves(w, "handle", i, FALSE, worker[w].rest \ {i},
                [worker[w].counts EXCEPT ![i] = worker[w].counts[i] + 1],
                worker[w].late)
    BY <1>5, TakeUpEffect
  <2>2. stale' = stale /\ owner' = owner /\ cursor' = cursor
    BY <1>5 DEF TakeUp, log
  <2>3. /\ worker'[w].at \in Busy /\ worker'[w].late = worker[w].late
        /\ worker'[w].rest \cup {worker'[w].msg} \subseteq InHand(w)
        /\ ~worker'[w].new
        /\ \A v \in Workers \ {w} : worker'[v] = worker[v]
    BY <2>1 DEF Moves, IsLoop, Busy, InHand
  <2> QED BY <2>2, <2>3, GoOn
<1>6. ASSUME NEW w \in Workers, GiveUp(w)
      PROVE  HandsOK' /\ HeldInTime' /\ OverlapMeansLate'
  <2>1. PICK i \in worker[w].rest :
          Moves(w, "bury", i, FALSE, worker[w].rest \ {i}, worker[w].counts,
                worker[w].late)
    BY <1>6, GiveUpEffect
  <2>2. stale' = stale /\ owner' = owner /\ cursor' = cursor
    BY <1>6 DEF GiveUp, log
  <2>3. /\ worker'[w].at \in Busy /\ worker'[w].late = worker[w].late
        /\ worker'[w].rest \cup {worker'[w].msg} \subseteq InHand(w)
        /\ ~worker'[w].new
        /\ \A v \in Workers \ {w} : worker'[v] = worker[v]
    BY <2>1 DEF Moves, IsLoop, Busy, InHand
  <2> QED BY <2>2, <2>3, GoOn
<1>7. ASSUME NEW w \in Workers, Succeed(w) \/ Bury(w)
      PROVE  HandsOK' /\ HeldInTime' /\ OverlapMeansLate'
  <2>1. PICK p \in {"ack", "buried"} :
          worker' = [worker EXCEPT ![w] = [worker[w] EXCEPT !.at = p]]
    BY <1>7 DEF Succeed, Bury
  <2>2. Moves(w, p, worker[w].msg, worker[w].new, worker[w].rest,
              worker[w].counts, worker[w].late)
    BY <2>1, GoEffect DEF Places
  <2>3. worker[w].at \in Busy
    BY <1>7 DEF Succeed, Bury, Busy
  <2>4. stale' = stale /\ owner' = owner /\ cursor' = cursor
    BY <1>7 DEF Succeed, Bury, log
  <2>5. /\ worker'[w].at \in Busy /\ worker'[w].late = worker[w].late
        /\ worker'[w].rest \cup {worker'[w].msg} \subseteq InHand(w)
        /\ worker'[w].new = worker[w].new /\ worker'[w].rest = worker[w].rest
        /\ \A v \in Workers \ {w} : worker'[v] = worker[v]
    BY <2>2, <2>3 DEF Moves, IsLoop, Busy, InHand
  <2>6. worker'[w].new => worker'[w].rest = {}
    BY <2>3, <2>5 DEF HandsOK
  <2> QED BY <2>4, <2>5, <2>6, GoOn
<1>8. ASSUME NEW w \in Workers, Fail(w) \/ Ack(w) \/ AckUnheard(w) \/ AckBuried(w)
      PROVE  HandsOK' /\ HeldInTime' /\ OverlapMeansLate'
  <2>1. worker[w].at \in Busy /\ worker[w].msg \in Ids
    BY <1>8, Typed DEF Fail, Ack, AckUnheard, AckBuried, Busy
  <2>2. \E p \in {"batch", Resume(w)}, counts \in [Ids -> 0..MaxAttempts] :
          Moves(w, p, worker[w].msg, worker[w].new, worker[w].rest, counts,
                worker[w].late)
    <3>1. Resume(w) \in Places /\ "batch" \in Places
      BY DEF Resume, Places
    <3>2. /\ worker[w].counts \in [Ids -> 0..MaxAttempts]
          /\ [worker[w].counts EXCEPT ![worker[w].msg] = 0] \in [Ids -> 0..MaxAttempts]
      <4>1. worker[w].counts \in [Ids -> 0..MaxAttempts]
        BY Typed DEF Loop
      <4>2. 0 \in 0..MaxAttempts
        BY BoundsAssumption
      <4> QED BY <4>1, <4>2
    <3>3. CASE Fail(w) \/ AckUnheard(w)
      BY <3>1, <3>2, <3>3, GoEffect DEF Fail, AckUnheard
    <3>4. CASE Ack(w)
      BY <2>1, <3>1, <3>2, <3>4, PopEffect DEF Ack
    <3>5. CASE AckBuried(w)
      BY <2>1, <3>1, <3>2, <3>5, PopEffect DEF AckBuried
    <3> QED BY <1>8, <3>3, <3>4, <3>5
  <2>3. /\ stale' \subseteq stale /\ \A i \in Ids : owner'[i] \in {owner[i], None}
        /\ cursor' = cursor
    BY <1>8 DEF Fail, Ack, AckUnheard, AckBuried, Settle, log, TypeOK
  <2>4. worker[w].rest \subseteq InHand(w) /\ (worker[w].new => worker[w].rest = {})
    BY <2>1 DEF InHand, HandsOK
  <2>5. Resume(w) \in {"claim", "batch"} /\ (Resume(w) = "claim" => worker[w].new)
    BY DEF Resume
  <2>6. /\ worker'[w].at \in {"batch", Resume(w)}
        /\ worker'[w].late = worker[w].late /\ worker'[w].rest = worker[w].rest
        /\ \A v \in Workers \ {w} : worker'[v] = worker[v]
    BY <2>2 DEF Moves, IsLoop
  <2>7. /\ worker'[w].at \notin Busy
        /\ worker'[w].at \in {"down", "claim", "read"} => worker'[w].rest = {}
    BY <2>4, <2>5, <2>6 DEF Busy
  <2> QED BY <1>0, <2>3, <2>4, <2>6, <2>7, LetGo
<1> QED
  BY <1>1, <1>2, <1>3, <1>4, <1>5, <1>6, <1>7, <1>8, ClaimHands, ReadHands,
     TurnStaleHands DEF Next, WorkerStep

-----------------------------------------------------------------------------
(* What has been handled, put aside and counted.                           *)

(* Where a consumer stands after a step of its own.                        *)
LEMMA WorkerMoved ==
    ASSUME TypeOK, NEW w \in Workers, WorkerStep(w)
    PROVE  /\ \A v \in Workers \ {w} : worker'[v] = worker[v]
           /\ worker'[w].at = "ack" => Succeed(w) /\ worker'[w].msg = worker[w].msg
           /\ worker'[w].at = "buried" => Bury(w) /\ worker'[w].msg = worker[w].msg
           /\ worker'[w].at = "bury" =>
                 \E i \in Ids : /\ worker'[w].msg = i /\ reclaims' = reclaims
                                /\ worker[w].counts[i] >= MaxAttempts
           /\ \A i \in Ids : \/ worker'[w].counts[i] \in {worker[w].counts[i], 0}
                             \/ /\ worker'[w].counts[i] = worker[w].counts[i] + 1
                                /\ worker[w].counts[i] < MaxAttempts
                                /\ reclaims' = [reclaims EXCEPT ![i] =
                                      IF reclaims[i] > MaxAttempts
                                        THEN reclaims[i] ELSE reclaims[i] + 1]
<1>1. CASE Claim(w)
  BY <1>1, ClaimEffect DEF Moves, IsLoop
<1>2. CASE TakeUp(w)
  <2>1. PICK i \in worker[w].rest :
          /\ i \in Ids /\ worker[w].counts[i] < MaxAttempts
          /\ reclaims' = [reclaims EXCEPT ![i] =
                IF reclaims[i] > MaxAttempts THEN reclaims[i] ELSE reclaims[i] + 1]
          /\ Moves(w, "handle", i, FALSE, worker[w].rest \ {i},
                   [worker[w].counts EXCEPT ![i] = worker[w].counts[i] + 1],
                   worker[w].late)
    BY <1>2, TakeUpEffect
  <2>2. /\ worker'[w].at = "handle"
        /\ worker'[w].counts = [worker[w].counts EXCEPT ![i] = worker[w].counts[i] + 1]
        /\ \A v \in Workers \ {w} : worker'[v] = worker[v]
    BY <2>1 DEF Moves, IsLoop
  <2>3. worker[w].counts \in [Ids -> 0..MaxAttempts]
    BY Typed DEF Loop
  <2> QED BY <2>1, <2>2, <2>3
<1>3. CASE GiveUp(w)
  <2>1. PICK i \in worker[w].rest :
          /\ i \in Ids /\ worker[w].counts[i] >= MaxAttempts
          /\ Moves(w, "bury", i, FALSE, worker[w].rest \ {i}, worker[w].counts,
                   worker[w].late)
    BY <1>3, GiveUpEffect
  <2>2. reclaims' = reclaims
    BY <1>3 DEF GiveUp
  <2> QED BY <2>1, <2>2 DEF Moves, IsLoop
<1>4. CASE Read(w)
  BY <1>4, ReadEffect DEF Moves, IsLoop
<1>5. ASSUME NEW p \in {"read", "claim", "batch"},
             worker' = [worker EXCEPT ![w] = [worker[w] EXCEPT !.at = p]]
      PROVE  /\ worker'[w].at = p /\ worker'[w].counts = worker[w].counts
             /\ \A v \in Workers \ {w} : worker'[v] = worker[v]
  BY <1>5, GoEffect DEF Moves, IsLoop, Places
<1>6. CASE BatchDone(w) \/ ReadNothing(w) \/ Fail(w) \/ AckUnheard(w)
  <2>1. PICK p \in {"read", "claim", "batch"} :
          worker' = [worker EXCEPT ![w] = [worker[w] EXCEPT !.at = p]]
    BY <1>6 DEF BatchDone, ReadNothing, Fail, AckUnheard, Resume
  <2> QED BY <1>5, <2>1
<1>7. CASE Succeed(w)
  <2>1. Moves(w, "ack", worker[w].msg, worker[w].new, worker[w].rest,
              worker[w].counts, worker[w].late)
    BY <1>7, GoEffect DEF Succeed, Places
  <2> QED BY <1>7, <2>1 DEF Moves, IsLoop
<1>8. CASE Bury(w)
  <2>1. Moves(w, "buried", worker[w].msg, worker[w].new, worker[w].rest,
              worker[w].counts, worker[w].late)
    BY <1>8, GoEffect DEF Bury, Places
  <2> QED BY <1>8, <2>1 DEF Moves, IsLoop
<1>9. CASE Ack(w) \/ AckBuried(w)
  <2>1. worker[w].msg \in Ids
    BY <1>9, Typed DEF Ack, AckBuried, Busy
  <2>2. PICK p \in {"claim", "batch"} : worker' = [worker EXCEPT ![w] =
          [worker[w] EXCEPT !.at = p, !.counts[worker[w].msg] = 0]]
    BY <1>9 DEF Ack, AckBuried, Resume
  <2>3. Moves(w, p, worker[w].msg, worker[w].new, worker[w].rest,
              [worker[w].counts EXCEPT ![worker[w].msg] = 0], worker[w].late)
    BY <2>1, <2>2, PopEffect DEF Places
  <2>4. /\ worker'[w].at = p
        /\ worker'[w].counts = [worker[w].counts EXCEPT ![worker[w].msg] = 0]
        /\ \A v \in Workers \ {w} : worker'[v] = worker[v]
    BY <2>3 DEF Moves, IsLoop
  <2>5. worker[w].counts \in [Ids -> 0..MaxAttempts]
    BY Typed DEF Loop
  <2> QED BY <2>4, <2>5
<1> QED BY <1>1, <1>2, <1>3, <1>4, <1>6, <1>7, <1>8, <1>9 DEF WorkerStep

(* Nothing that was handled, put aside or counted is forgotten.            *)
LEMMA RecordsGrow ==
    ASSUME TypeOK, [Next]_vars
    PROVE  /\ handled \subseteq handled' /\ dead \subseteq dead'
           /\ \A i \in Ids : reclaims[i] <= reclaims'[i]
<1>1. \A i \in Ids : reclaims[i] \in Nat
  BY BoundsAssumption DEF TypeOK
<1>2. ASSUME NEW w \in Workers, TakeUp(w)
      PROVE  /\ handled \subseteq handled' /\ dead \subseteq dead'
             /\ \A i \in Ids : reclaims[i] <= reclaims'[i]
  <2>1. PICK i \in worker[w].rest : reclaims' = [reclaims EXCEPT ![i] =
          IF reclaims[i] > MaxAttempts THEN reclaims[i] ELSE reclaims[i] + 1]
    BY <1>2, TakeUpEffect
  <2> QED BY <1>1, <1>2, <2>1 DEF TakeUp, TypeOK
<1>3. CASE \E w \in Workers : Succeed(w) \/ Bury(w)
  BY <1>1, <1>3 DEF Succeed, Bury
<1>4. CASE ~\E w \in Workers : TakeUp(w) \/ Succeed(w) \/ Bury(w)
  <2>1. handled' = handled /\ dead' = dead /\ reclaims' = reclaims
    BY <1>4 DEF Next, WorkerStep, Receive, Publish, PublishFails, Forget, Start,
       Claim, BatchDone, GiveUp, Read, ReadNothing, Fail, Ack, AckUnheard,
       AckBuried, TurnStale, Crash, vars
  <2> QED BY <1>1, <2>1
<1> QED BY <1>2, <1>3, <1>4

(* A consumer that takes no step of its own keeps its loop, or starts one, *)
(* or ends, or has an entry turn stale.                                    *)
LEMMA OthersMove ==
    ASSUME TypeOK, [Next]_vars, ~\E w \in Workers : WorkerStep(w), NEW v \in Workers
    PROVE  /\ worker'[v].at \in {"ack", "bury", "buried"} =>
                 worker'[v].at = worker[v].at /\ worker'[v].msg = worker[v].msg
           /\ \A i \in Ids : worker'[v].counts[i] \in {worker[v].counts[i], 0}
<1>1. CASE \E w \in Workers : Start(w) \/ Crash(w)
  <2>1. PICK w \in Workers : Start(w) \/ Crash(w)
    BY <1>1
  <2>2. PICK p \in {"claim", "down"} :
          Moves(w, p, None, FALSE, {}, [i \in Ids |-> 0], {})
    BY <2>1, StartEffect, CrashEffect
  <2>3. /\ worker'[w].at \notin {"ack", "bury", "buried"}
        /\ worker'[w].counts = [i \in Ids |-> 0]
        /\ \A u \in Workers \ {w} : worker'[u] = worker[u]
    BY <2>2 DEF Moves, IsLoop
  <2>4. CASE v = w
    BY <2>3, <2>4
  <2>5. CASE v # w
    BY <2>3, <2>5
  <2> QED BY <2>4, <2>5
<1>2. CASE \E i \in Ids : TurnStale(i)
  BY <1>2, TurnStaleEffect DEF IsLoop
<1>3. CASE worker' = worker
  BY <1>3
<1> QED
  BY <1>1, <1>2, <1>3 DEF Next, Receive, Publish, PublishFails, Forget, vars

LEMMA EarnedStep == StreamInv /\ [Next]_vars => AckIsEarned' /\ CountsAreReal'
<1> SUFFICES ASSUME StreamInv, [Next]_vars PROVE AckIsEarned' /\ CountsAreReal'
  OBVIOUS
<1> USE DEF StreamInv
<1>1. /\ handled \subseteq handled' /\ dead \subseteq dead'
      /\ \A i \in Ids : reclaims[i] <= reclaims'[i]
  BY RecordsGrow
<1>2. /\ TypeOK'
      /\ \A i \in Ids : reclaims[i] \in Nat /\ reclaims'[i] \in Nat
      /\ \A v \in Workers : \A i \in Ids : worker[v].counts[i] \in 0..MaxAttempts
      /\ \A v \in Workers : worker[v].at \in Busy => worker[v].msg \in Ids
  BY TypeStep, Typed, BoundsAssumption DEF TypeOK
<1>3. ASSUME NEW v \in Workers, worker'[v] = worker[v]
      PROVE  /\ worker'[v].at = "ack" => worker'[v].msg \in handled'
             /\ worker'[v].at = "buried" => worker'[v].msg \in dead'
             /\ \A i \in Ids : worker'[v].counts[i] <= reclaims'[i]
             /\ worker'[v].at = "bury" => reclaims'[worker'[v].msg] >= MaxAttempts
  BY <1>1, <1>2, <1>3, BoundsAssumption DEF AckIsEarned, CountsAreReal, Busy
<1>4. ASSUME NEW w \in Workers, WorkerStep(w)
      PROVE  /\ worker'[w].at = "ack" => worker'[w].msg \in handled'
             /\ worker'[w].at = "buried" => worker'[w].msg \in dead'
             /\ \A i \in Ids : worker'[w].counts[i] <= reclaims'[i]
             /\ worker'[w].at = "bury" => reclaims'[worker'[w].msg] >= MaxAttempts
  <2>1. /\ worker'[w].at = "ack" => worker'[w].msg \in handled'
        /\ worker'[w].at = "buried" => worker'[w].msg \in dead'
    BY <1>4, WorkerMoved DEF Succeed, Bury
  <2>2. worker'[w].at = "bury" => reclaims'[worker'[w].msg] >= MaxAttempts
    BY <1>2, <1>4, WorkerMoved, BoundsAssumption DEF CountsAreReal
  <2>3. ASSUME NEW i \in Ids PROVE worker'[w].counts[i] <= reclaims'[i]
    <3>1. worker[w].counts[i] <= reclaims[i]
      BY DEF CountsAreReal
    <3>2. CASE worker'[w].counts[i] \in {worker[w].counts[i], 0}
      BY <1>1, <1>2, <3>1, <3>2, BoundsAssumption
    <3>3. CASE /\ worker'[w].counts[i] = worker[w].counts[i] + 1
               /\ worker[w].counts[i] < MaxAttempts
               /\ reclaims' = [reclaims EXCEPT ![i] =
                     IF reclaims[i] > MaxAttempts THEN reclaims[i] ELSE reclaims[i] + 1]
      <4>1. reclaims'[i] = IF reclaims[i] > MaxAttempts THEN reclaims[i]
                           ELSE reclaims[i] + 1
        BY <3>3 DEF TypeOK
      <4> QED BY <1>2, <3>1, <3>3, <4>1, BoundsAssumption
    <3> QED BY <1>4, WorkerMoved, <3>2, <3>3
  <2> QED BY <2>1, <2>2, <2>3
<1>5. ASSUME ~\E w \in Workers : WorkerStep(w), NEW v \in Workers
      PROVE  /\ worker'[v].at = "ack" => worker'[v].msg \in handled'
             /\ worker'[v].at = "buried" => worker'[v].msg \in dead'
             /\ \A i \in Ids : worker'[v].counts[i] <= reclaims'[i]
             /\ worker'[v].at = "bury" => reclaims'[worker'[v].msg] >= MaxAttempts
  <2>1. /\ worker'[v].at \in {"ack", "bury", "buried"} =>
              worker'[v].at = worker[v].at /\ worker'[v].msg = worker[v].msg
        /\ \A i \in Ids : worker'[v].counts[i] \in {worker[v].counts[i], 0}
    BY <1>5, OthersMove
  <2>2. /\ worker'[v].at = "ack" => worker'[v].msg \in handled'
        /\ worker'[v].at = "buried" => worker'[v].msg \in dead'
    BY <1>1, <2>1 DEF AckIsEarned
  <2>3. \A i \in Ids : worker'[v].counts[i] <= reclaims'[i]
    BY <1>1, <1>2, <2>1, BoundsAssumption DEF CountsAreReal
  <2>4. worker'[v].at = "bury" => reclaims'[worker'[v].msg] >= MaxAttempts
    BY <1>1, <1>2, <2>1, BoundsAssumption DEF CountsAreReal, Busy
  <2> QED BY <2>2, <2>3, <2>4
<1>6. \A v \in Workers :
        /\ worker'[v].at = "ack" => worker'[v].msg \in handled'
        /\ worker'[v].at = "buried" => worker'[v].msg \in dead'
        /\ \A i \in Ids : worker'[v].counts[i] <= reclaims'[i]
        /\ worker'[v].at = "bury" => reclaims'[worker'[v].msg] >= MaxAttempts
  <2> SUFFICES ASSUME NEW v \in Workers
               PROVE  /\ worker'[v].at = "ack" => worker'[v].msg \in handled'
                      /\ worker'[v].at = "buried" => worker'[v].msg \in dead'
                      /\ \A i \in Ids : worker'[v].counts[i] <= reclaims'[i]
                      /\ worker'[v].at = "bury"
                            => reclaims'[worker'[v].msg] >= MaxAttempts
    OBVIOUS
  <2>1. CASE \E w \in Workers : WorkerStep(w)
    <3>1. PICK w \in Workers : WorkerStep(w)
      BY <2>1
    <3>2. v = w \/ worker'[v] = worker[v]
      BY <3>1, WorkerMoved
    <3> QED BY <1>3, <1>4, <3>1, <3>2
  <2>2. CASE ~\E w \in Workers : WorkerStep(w)
    BY <1>5, <2>2
  <2> QED BY <2>1, <2>2
<1> QED BY <1>6 DEF AckIsEarned, CountsAreReal

-----------------------------------------------------------------------------
(* The safety properties, and the theorems.                                *)

(* While no new entry is delivered, nothing is lost that is not settled    *)
(* unearned.                                                               *)
LEMMA NoneLost ==
    ASSUME TypeOK, NothingLost, origin' = origin, cursor' = cursor,
           handled \subseteq handled', dead \subseteq dead',
           \A i \in Ids : owner'[i] = None =>
               owner[i] = None \/ i \in handled \/ i \in dead
    PROVE  NothingLost'
BY DEF NothingLost, Ids

LEMMA LostStep == StreamInv /\ [Next]_vars => NothingLost'
<1> SUFFICES ASSUME StreamInv, [Next]_vars PROVE NothingLost'
  OBVIOUS
<1> USE DEF StreamInv
<1>1. handled \subseteq handled' /\ dead \subseteq dead'
  BY RecordsGrow
<1>2. ASSUME NEW w \in Workers, Start(w) PROVE NothingLost'
  <2>1. CASE group
    BY <1>1, <1>2, <2>1, NoneLost DEF Start
  <2>2. CASE ~group
    <3>1. origin' = Len(stream) /\ cursor' = Len(stream) /\ Len(stream) \in Nat
      BY <1>2, <2>2 DEF Start, TypeOK
    <3>2. \A i \in Ids : ~(Len(stream) < i /\ i <= Len(stream))
      BY <3>1 DEF Ids
    <3> QED BY <3>1, <3>2 DEF NothingLost, Ids
  <2> QED BY <2>1, <2>2
<1>3. ASSUME NEW w \in Workers, Claim(w) PROVE NothingLost'
  <2>1. \A i \in Ids : owner'[i] \in {w, owner[i]}
    BY <1>3, ClaimEffect
  <2>2. w # None
    BY NoneAssumption
  <2> QED BY <1>1, <1>3, <2>1, <2>2, NoneLost DEF Claim, log
<1>4. ASSUME NEW w \in Workers, Read(w) PROVE NothingLost'
  <2>1. /\ cursor + 1 \in Ids /\ cursor' = cursor + 1 /\ origin' = origin
        /\ owner' = [owner EXCEPT ![cursor + 1] = w]
    BY <1>4, ReadEffect DEF Read
  <2>2. w # None
    BY NoneAssumption
  <2>3. owner \in [Ids -> Workers \cup {None}] /\ cursor \in Int /\ origin \in Int
    BY BoundsAssumption DEF TypeOK
  <2> SUFFICES ASSUME NEW i \in Ids, origin < i, i <= cursor + 1
               PROVE  owner'[i] # None \/ i \in handled' \/ i \in dead'
    BY <2>1 DEF NothingLost, Ids
  <2>4. CASE i = cursor + 1
    BY <2>1, <2>2, <2>3, <2>4
  <2>5. CASE i # cursor + 1
    <3>1. i <= cursor
      BY <2>3, <2>5 DEF Ids
    <3>2. owner[i] # None \/ i \in handled \/ i \in dead
      BY <3>1 DEF NothingLost
    <3> QED BY <1>1, <2>1, <2>3, <2>5, <3>2
  <2> QED BY <2>4, <2>5
<1>5. ASSUME NEW w \in Workers, Ack(w) \/ AckUnheard(w) \/ AckBuried(w)
      PROVE  NothingLost'
  <2>1. worker[w].msg \in handled \/ worker[w].msg \in dead
    BY <1>5 DEF AckIsEarned, Ack, AckUnheard, AckBuried
  <2>2. /\ owner' = [owner EXCEPT ![worker[w].msg] = None]
        /\ origin' = origin /\ cursor' = cursor
    BY <1>5 DEF Ack, AckUnheard, AckBuried, Settle, log
  <2>3. \A i \in Ids : owner'[i] = None =>
            owner[i] = None \/ i \in handled \/ i \in dead
    BY <2>1, <2>2 DEF TypeOK
  <2> QED BY <1>1, <2>2, <2>3, NoneLost
<1>6. CASE ~\E w \in Workers : \/ Start(w) \/ Claim(w) \/ Read(w)
                               \/ Ack(w) \/ AckUnheard(w) \/ AckBuried(w)
  <2>1. owner' = owner /\ origin' = origin /\ cursor' = cursor
    BY <1>6 DEF Next, WorkerStep, Receive, Publish, PublishFails, Forget,
       BatchDone, TakeUp, GiveUp, ReadNothing, Succeed, Fail, Bury, TurnStale,
       Crash, vars, log
  <2> QED BY <1>1, <2>1, NoneLost
<1> QED BY <1>2, <1>3, <1>4, <1>5, <1>6

LEMMA DeadStep == StreamInv /\ [Next]_vars => DeadAfterTries'
<1> SUFFICES ASSUME StreamInv, [Next]_vars PROVE DeadAfterTries'
  OBVIOUS
<1> USE DEF StreamInv
<1>1. \A i \in Ids : reclaims[i] <= reclaims'[i]
  BY RecordsGrow
<1>2. TypeOK'
  BY TypeStep
<1>3. \A i \in Ids : reclaims[i] \in Nat /\ reclaims'[i] \in Nat
  BY <1>2, BoundsAssumption DEF TypeOK
<1>4. \A i \in dead' : i \in Ids /\ reclaims[i] >= MaxAttempts
  <2>1. \A i \in dead : i \in Ids /\ reclaims[i] >= MaxAttempts
    BY DEF TypeOK, DeadAfterTries
  <2>2. ASSUME NEW w \in Workers, Bury(w)
        PROVE  \A i \in dead' : i \in Ids /\ reclaims[i] >= MaxAttempts
    <3>1. worker[w].msg \in Ids /\ reclaims[worker[w].msg] >= MaxAttempts
      BY <2>2, Typed DEF Bury, CountsAreReal, Busy, TypeOK
    <3> QED BY <2>1, <2>2, <3>1 DEF Bury
  <2>3. CASE ~\E w \in Workers : Bury(w)
    <3>1. dead' = dead
      BY <2>3 DEF Next, WorkerStep, Receive, Publish, PublishFails, Forget, Start,
         Claim, BatchDone, TakeUp, GiveUp, Read, ReadNothing, Succeed, Fail, Ack,
         AckUnheard, AckBuried, TurnStale, Crash, vars
    <3> QED BY <2>1, <3>1
  <2> QED BY <2>2, <2>3
<1> QED BY <1>1, <1>3, <1>4, BoundsAssumption DEF DeadAfterTries

LEMMA StreamInvStep == StreamInv /\ [Next]_vars => StreamInv'
<1> SUFFICES ASSUME StreamInv, [Next]_vars PROVE StreamInv'
  OBVIOUS
<1>1. TypeOK'
  BY TypeStep DEF StreamInv
<1>2. HandsOK' /\ HeldInTime' /\ OverlapMeansLate'
  BY HandsStep
<1>3. AckIsEarned' /\ CountsAreReal'
  BY EarnedStep
<1>4. NothingLost' /\ DeadAfterTries'
  BY LostStep, DeadStep
<1> QED BY <1>1, <1>2, <1>3, <1>4 DEF StreamInv

(* The types of the stream's bookkeeping always hold; a worker's count of  *)
(* reclaims never passes _MAX_RECLAIM_ATTEMPTS.                            *)
THEOREM StreamTypeCorrect == Spec => []TypeOK
<1>1. StreamInv => TypeOK
  BY DEF StreamInv
<1> QED BY <1>1, StreamInvInit, StreamInvStep, PTL DEF Spec

(* Whatever crashes, fails or is reclaimed, an entry the group delivered   *)
(* is pending, handled or in the dead-letter stream.                       *)
THEOREM NoEntryLost == Spec => []NothingLost
<1>1. StreamInv => NothingLost
  BY DEF StreamInv
<1> QED BY <1>1, StreamInvInit, StreamInvStep, PTL DEF Spec

(* No entry becomes a dead letter before _MAX_RECLAIM_ATTEMPTS handlers    *)
(* were started on it after a reclaim.                                     *)
THEOREM DeadOnlyAfterTries == Spec => []DeadAfterTries
<1>1. StreamInv => DeadAfterTries
  BY DEF StreamInv
<1> QED BY <1>1, StreamInvInit, StreamInvStep, PTL DEF Spec

(* Two consumers have one entry in hand only if one of them kept it past   *)
(* the reclaim timeout.                                                    *)
THEOREM OverlapOnlyWhenLate == Spec => []OverlapMeansLate
<1>1. StreamInv => OverlapMeansLate
  BY DEF StreamInv
<1> QED BY <1>1, StreamInvInit, StreamInvStep, PTL DEF Spec

-----------------------------------------------------------------------------
(* EnteredOnce counts: an entry, a request under way with the event and an  *)
(* unset dedup key each use up one life of the key, and every step trades   *)
(* one of the three for another or adds a life.                             *)

LEMMA CopiesCounted ==
    ASSUME TypeOK, NEW e \in Events
    PROVE  IsFiniteSet(Copies(e)) /\ Cardinality(Copies(e)) \in Nat
<1>1. Len(stream) \in Nat /\ Copies(e) \in SUBSET (1..Len(stream))
  BY DEF TypeOK, Copies
<1>2. IsFiniteSet(1..Len(stream))
  BY <1>1, FS_Interval
<1>3. IsFiniteSet(Copies(e))
  BY <1>1, <1>2, FS_Subset
<1> QED BY <1>3, FS_CardinalityType

(* A request takes up an event, or is done with it.                        *)
LEMMA CarriersMove ==
    ASSUME TypeOK, NEW e \in Events, NEW d \in Calls, NEW c \in Events \cup {None},
           call' = [call EXCEPT ![d] = c],
           IsFiniteSet(Carriers(e))
    PROVE  /\ IsFiniteSet(Carriers(e)')
           /\ call[d] = None /\ c # e => Carriers(e)' = Carriers(e)
           /\ call[d] = None /\ c = e =>
                  Cardinality(Carriers(e)') = Cardinality(Carriers(e)) + 1
           /\ call[d] = e /\ c = None =>
                  Cardinality(Carriers(e)') = Cardinality(Carriers(e)) - 1
           /\ call[d] # e /\ c = None => Carriers(e)' = Carriers(e)
<1>1. \A b \in Calls : call'[b] = IF b = d THEN c ELSE call[b]
  BY DEF TypeOK
<1>2. None # e
  BY NoneAssumption
<1>3. CASE c = e
  <2>1. Carriers(e)' = Carriers(e) \cup {d}
    BY <1>1, <1>3 DEF Carriers
  <2>2. call[d] = None => d \notin Carriers(e)
    BY <1>2 DEF Carriers
  <2> QED BY <1>2, <1>3, <2>1, <2>2, FS_AddElement
<1>4. CASE c # e
  <2>1. Carriers(e)' = Carriers(e) \ {d}
    BY <1>1, <1>4 DEF Carriers
  <2>2. d \in Carriers(e) <=> call[d] = e
    BY DEF Carriers
  <2>3. d \notin Carriers(e) => Carriers(e)' = Carriers(e)
    BY <2>1
  <2>4. /\ IsFiniteSet(Carriers(e)')
        /\ d \in Carriers(e) => Cardinality(Carriers(e)') = Cardinality(Carriers(e)) - 1
    BY <2>1, FS_RemoveElement
  <2> QED BY <1>2, <1>4, <2>2, <2>3, <2>4
<1> QED BY <1>3, <1>4

LEMMA CopiesAppended ==
    ASSUME TypeOK, NEW e \in Events, NEW x \in Events, stream' = Append(stream, x)
    PROVE  Cardinality(Copies(e)') = Cardinality(Copies(e)) + (IF x = e THEN 1 ELSE 0)
<1> DEFINE n == Len(stream)
<1>1. /\ n \in Nat /\ Len(stream') = n + 1 /\ stream'[n + 1] = x
      /\ \A i \in 1..n : stream'[i] = stream[i]
  BY DEF TypeOK
<1>2. n + 1 \notin Copies(e)
  BY <1>1 DEF Copies
<1>3. CASE x = e
  <2>1. Copies(e)' = Copies(e) \cup {n + 1}
    BY <1>1, <1>3 DEF Copies
  <2> QED BY <1>2, <1>3, <2>1, CopiesCounted, FS_AddElement
<1>4. CASE x # e
  <2>1. Copies(e)' = Copies(e)
    BY <1>1, <1>4 DEF Copies
  <2> QED BY <1>4, <2>1, CopiesCounted
<1> QED BY <1>3, <1>4

LEMMA PaidForInit == Init => EntriesArePaidFor
<1> SUFFICES ASSUME Init, NEW e \in Events
             PROVE  IsFiniteSet(Carriers(e)) /\ Lives(e) <= 1 + expiries[e]
  BY DEF EntriesArePaidFor
<1>1. Copies(e) = {}
  BY DEF Init, Copies
<1>2. Carriers(e) = {}
  BY NoneAssumption DEF Init, Carriers
<1> QED BY <1>1, <1>2, FS_EmptySet DEF Init, Lives

LEMMA PaidForStep == TypeOK /\ EntriesArePaidFor /\ [Next]_vars => EntriesArePaidFor'
<1> SUFFICES ASSUME TypeOK, EntriesArePaidFor, [Next]_vars, NEW e \in Events
             PROVE  IsFiniteSet(Carriers(e)') /\ Lives(e)' <= 1 + expiries'[e]
  BY DEF EntriesArePaidFor
<1>0. /\ Cardinality(Copies(e)) \in Nat
      /\ IsFiniteSet(Carriers(e)) /\ Cardinality(Carriers(e)) \in Nat
      /\ expiries[e] \in Nat
      /\ Lives(e) <= 1 + expiries[e]
  BY CopiesCounted, FS_CardinalityType, BoundsAssumption DEF EntriesArePaidFor, TypeOK
<1>1. ASSUME NEW d \in Calls, NEW f \in Events, Receive(d, f)
      PROVE  IsFiniteSet(Carriers(e)') /\ Lives(e)' <= 1 + expiries'[e]
  <2>1. /\ call[d] = None /\ f \notin seen /\ seen' = seen \cup {f}
        /\ call' = [call EXCEPT ![d] = f] /\ UNCHANGED <<stream, expiries>>
    BY <1>1 DEF Receive, Unmarked, log
  <2>2. Copies(e)' = Copies(e)
    BY <2>1 DEF Copies
  <2>3. /\ IsFiniteSet(Carriers(e)')
        /\ f # e => Carriers(e)' = Carriers(e)
        /\ f = e => Cardinality(Carriers(e)') = Cardinality(Carriers(e)) + 1
    BY <1>0, <2>1, CarriersMove
  <2> QED BY <1>0, <2>1, <2>2, <2>3 DEF Lives
<1>2. ASSUME NEW d \in Calls, Publish(d)
      PROVE  IsFiniteSet(Carriers(e)') /\ Lives(e)' <= 1 + expiries'[e]
  <2>1. /\ call[d] \in Events /\ stream' = Append(stream, call[d])
        /\ call' = [call EXCEPT ![d] = None] /\ UNCHANGED <<seen, expiries>>
    BY <1>2 DEF Publish, TypeOK
  <2>2. Cardinality(Copies(e)') = Cardinality(Copies(e)) + (IF call[d] = e THEN 1 ELSE 0)
    BY <2>1, CopiesAppended
  <2>3. /\ IsFiniteSet(Carriers(e)')
        /\ call[d] # e => Carriers(e)' = Carriers(e)
        /\ call[d] = e => Cardinality(Carriers(e)') = Cardinality(Carriers(e)) - 1
    BY <1>0, <2>1, CarriersMove
  <2> QED BY <1>0, <2>1, <2>2, <2>3 DEF Lives
<1>3. ASSUME NEW d \in Calls, PublishFails(d)
      PROVE  IsFiniteSet(Carriers(e)') /\ Lives(e)' <= 1 + expiries'[e]
  <2>1. /\ call[d] \in Events /\ UNCHANGED <<stream, seen, expiries>>
        /\ call' = [call EXCEPT ![d] = None]
    BY <1>3 DEF PublishFails, TypeOK, log
  <2>2. Copies(e)' = Copies(e)
    BY <2>1 DEF Copies
  <2>3. /\ IsFiniteSet(Carriers(e)')
        /\ call[d] # e => Carriers(e)' = Carriers(e)
        /\ call[d] = e => Cardinality(Carriers(e)') = Cardinality(Carriers(e)) - 1
    BY <1>0, <2>1, CarriersMove
  <2> QED BY <1>0, <2>1, <2>2, <2>3 DEF Lives
<1>4. ASSUME NEW f \in Events, Forget(f)
      PROVE  IsFiniteSet(Carriers(e)') /\ Lives(e)' <= 1 + expiries'[e]
  <2>1. /\ f \in seen /\ seen' = seen \ {f} /\ UNCHANGED <<call, stream>>
        /\ expiries' = [expiries EXCEPT ![f] = expiries[f] + 1]
    BY <1>4 DEF Forget, log
  <2>2. Copies(e)' = Copies(e) /\ Carriers(e)' = Carriers(e)
    BY <2>1 DEF Copies, Carriers
  <2>3. expiries'[e] = expiries[e] + (IF f = e THEN 1 ELSE 0)
    BY <1>0, <2>1 DEF TypeOK
  <2> QED BY <1>0, <2>1, <2>2, <2>3 DEF Lives
<1>5. CASE UNCHANGED <<redis, stream>>
  <2>1. Copies(e)' = Copies(e) /\ Carriers(e)' = Carriers(e) /\ UNCHANGED <<seen, expiries>>
    BY <1>5 DEF Copies, Carriers, redis
  <2> QED BY <1>0, <2>1 DEF Lives
<1>6. ASSUME NEW w \in Workers, Start(w) \/ WorkerStep(w) \/ Crash(w)
      PROVE  UNCHANGED <<redis, stream>>
  BY <1>6 DEF Start, WorkerStep, Crash, Claim, BatchDone, TakeUp, GiveUp, Read, ReadNothing,
              Succeed, Fail, Ack, AckUnheard, Bury, AckBuried, log
<1>7. ASSUME NEW i \in Ids, TurnStale(i)
      PROVE  UNCHANGED <<redis, stream>>
  BY <1>7 DEF TurnStale, log
<1> QED BY <1>1, <1>2, <1>3, <1>4, <1>5, <1>6, <1>7 DEF Next, vars, log

(* However deliveries repeat and race, an event is in the stream at most   *)
(* once per life of its dedup key.                                         *)
THEOREM OneEntryPerLife == Spec => []EnteredOnce
<1>1. TypeOK /\ EntriesArePaidFor => EnteredOnce
  <2> SUFFICES ASSUME TypeOK, EntriesArePaidFor, NEW e \in Events
               PROVE  Cardinality(Copies(e)) <= 1 + expiries[e]
    BY DEF EnteredOnce
  <2>1. /\ Cardinality(Copies(e)) \in Nat /\ Cardinality(Carriers(e)) \in Nat
        /\ expiries[e] \in Nat /\ Lives(e) <= 1 + expiries[e]
    BY CopiesCounted, FS_CardinalityType, BoundsAssumption DEF EntriesArePaidFor, TypeOK
  <2> QED BY <2>1 DEF Lives
<1>2. TypeOK /\ EntriesArePaidFor /\ [Next]_vars => EntriesArePaidFor'
  BY PaidForStep
<1> QED BY <1>1, <1>2, PaidForInit, StreamTypeCorrect, PTL DEF Spec

-----------------------------------------------------------------------------
(* Refinement: the stream and its workers are a queue that delivers at      *)
(* least once.                                                              *)

LEMMA QueueInit == Init => Queue!Init
BY DEF Init, Queue!Init, Pending

LEMMA OpenStep == StreamInv /\ GroupIsOpen /\ [Next]_vars => GroupIsOpen'
<1> SUFFICES ASSUME StreamInv, GroupIsOpen, [Next]_vars,
                    NEW v \in Workers, worker'[v].at # "down"
             PROVE  group'
  BY DEF GroupIsOpen
<1> USE DEF StreamInv
<1>1. CASE group
  BY <1>1 DEF Next, WorkerStep, Receive, Publish, PublishFails, Forget, Start, Claim,
     BatchDone, TakeUp, GiveUp, Read, ReadNothing, Succeed, Fail, Ack, AckUnheard, Bury,
     AckBuried, TurnStale, Crash, vars, log
<1>2. CASE \E w \in Workers : Start(w)
  BY <1>2 DEF Start
<1>3. CASE ~group /\ ~\E w \in Workers : Start(w)
  <2>1. \A w \in Workers : worker[w].at = "down"
    BY <1>3 DEF GroupIsOpen
  <2>2. \A w \in Workers : ~WorkerStep(w) /\ ~Crash(w)
    BY <2>1 DEF WorkerStep, Claim, BatchDone, TakeUp, GiveUp, Read, ReadNothing, Succeed,
       Fail, Ack, AckUnheard, Bury, AckBuried, Crash
  <2>3. ASSUME NEW i \in Ids, TurnStale(i) PROVE worker'[v].at = worker[v].at
    BY <2>3, TurnStaleEffect DEF IsLoop
  <2>4. worker'[v].at = worker[v].at
    BY <1>3, <2>2, <2>3 DEF Next, Receive, Publish, PublishFails, Forget, vars
  <2> QED BY <2>1, <2>4
<1> QED BY <1>1, <1>2, <1>3

(* An XACK settles what is pending, and does nothing to what is not.       *)
LEMMA SettleIsSettle ==
    ASSUME TypeOK, NEW i \in Ids, i \in 1..cursor, i \in handled \/ i \in dead,
           Settle(i), UNCHANGED <<log, handled, dead>>
    PROVE  Queue!Next \/ UNCHANGED Queue!vars
<1>1. Pending' = Pending \ {i}
  BY DEF Settle, Pending, TypeOK
<1>2. CASE i \in Pending
  <2>1. Queue!Settle(i)
    BY <1>1, <1>2 DEF Queue!Settle, log
  <2> QED BY <2>1 DEF Queue!Next
<1>3. CASE i \notin Pending
  BY <1>1, <1>3 DEF Queue!vars, log
<1> QED BY <1>2, <1>3

LEMMA QueueStep == StreamInv /\ GroupIsOpen /\ [Next]_vars => [Queue!Next]_(Queue!vars)
<1> SUFFICES ASSUME StreamInv, GroupIsOpen, [Next]_vars
             PROVE  Queue!Next \/ UNCHANGED Queue!vars
  OBVIOUS
<1> USE DEF StreamInv
<1>0. \A w \in Workers : worker[w].at \in Busy => worker[w].msg \in Ids
                                                  /\ worker[w].msg \in 1..cursor
  BY DEF TypeOK, HandsOK, InHand
<1>1. ASSUME NEW d \in Calls, Publish(d)
      PROVE  Queue!Next
  <2>1. Len(stream') = Len(stream) + 1
    BY <1>1 DEF Publish, TypeOK
  <2>2. Queue!Add
    BY <1>1, <2>1 DEF Queue!Add, Publish, Pending
  <2> QED BY <2>2 DEF Queue!Next
<1>2. ASSUME NEW w \in Workers, Start(w)
      PROVE  Queue!Next \/ UNCHANGED Queue!vars
  <2>1. CASE group
    BY <1>2, <2>1 DEF Start, Queue!vars, Pending
  <2>2. CASE ~group
    <3>1. Queue!Open
      BY <1>2, <2>2 DEF Start, Queue!Open, Pending
    <3> QED BY <3>1 DEF Queue!Next
  <2> QED BY <2>1, <2>2
<1>3. ASSUME NEW w \in Workers, Claim(w)
      PROVE  UNCHANGED Queue!vars
  <2>1. PICK S \in SUBSET Ids :
            S \subseteq stale /\ owner' = [i \in Ids |-> IF i \in S THEN w ELSE owner[i]]
    BY <1>3 DEF Claim, Claimed
  <2>2. Pending' = Pending
    BY <2>1, NoneAssumption DEF Pending, TypeOK
  <2> QED BY <1>3, <2>2 DEF Claim, Queue!vars, log
<1>4. ASSUME NEW w \in Workers, Read(w)
      PROVE  Queue!Next
  <2>1. cursor + 1 \in Ids /\ cursor' = cursor + 1 /\ owner' = [owner EXCEPT ![cursor + 1] = w]
    BY <1>4, ReadEffect DEF Read
  <2>2. Pending' = Pending \cup {cursor + 1}
    BY <2>1, NoneAssumption DEF Pending, TypeOK
  <2>3. group
    BY <1>4 DEF Read, GroupIsOpen
  <2>4. Queue!Give
    BY <1>4, <2>2, <2>3 DEF Read, Queue!Give
  <2> QED BY <2>4 DEF Queue!Next
<1>5. ASSUME NEW w \in Workers, Succeed(w)
      PROVE  Queue!Next
  <2>1. worker[w].msg \in 1..cursor
    BY <1>0, <1>5 DEF Succeed, Busy
  <2>2. Queue!Handle(worker[w].msg)
    BY <1>5 DEF Succeed, Queue!Handle, Pending, log
  <2> QED BY <2>1, <2>2 DEF Queue!Next
<1>6. ASSUME NEW w \in Workers, Bury(w)
      PROVE  Queue!Next
  <2>1. worker[w].msg \in 1..cursor
    BY <1>0, <1>6 DEF Bury, Busy
  <2>2. Queue!PutAside(worker[w].msg)
    BY <1>6 DEF Bury, Queue!PutAside, Pending, log
  <2> QED BY <2>1, <2>2 DEF Queue!Next
<1>7. ASSUME NEW w \in Workers, Ack(w) \/ AckUnheard(w) \/ AckBuried(w)
      PROVE  Queue!Next \/ UNCHANGED Queue!vars
  <2>1. worker[w].at \in Busy
    BY <1>7 DEF Ack, AckUnheard, AckBuried, Busy
  <2>2. worker[w].msg \in handled \/ worker[w].msg \in dead
    BY <1>7 DEF AckIsEarned, Ack, AckUnheard, AckBuried
  <2>3. Settle(worker[w].msg) /\ UNCHANGED <<log, handled, dead>>
    BY <1>7 DEF Ack, AckUnheard, AckBuried
  <2> QED BY <1>0, <2>1, <2>2, <2>3, SettleIsSettle
<1>8. CASE UNCHANGED <<log, owner, handled, dead>>
  BY <1>8 DEF Queue!vars, log, Pending
<1> QED
  BY <1>1, <1>2, <1>3, <1>4, <1>5, <1>6, <1>7, <1>8
     DEF Next, WorkerStep, Receive, PublishFails, Forget, BatchDone, TakeUp, GiveUp,
         ReadNothing, Fail, TurnStale, Crash, vars

(* Whatever its workers do, a consumer group delivers each entry at least  *)
(* once, in order, and settles none before it is handled or put aside.     *)
THEOREM StreamIsAQueue == Spec => ImplementsQueue
<1>1. Init => GroupIsOpen
  BY DEF Init, GroupIsOpen, Fresh
<1>2. StreamInv /\ GroupIsOpen /\ [Next]_vars => GroupIsOpen'
  BY OpenStep
<1>3. StreamInv /\ GroupIsOpen /\ [Next]_vars => [Queue!Next]_(Queue!vars)
  BY QueueStep
<1> QED BY <1>1, <1>2, <1>3, QueueInit, StreamInvInit, StreamInvStep, PTL
        DEF Spec, ImplementsQueue, Queue!Spec
=============================================================================
