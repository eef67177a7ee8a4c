------------------------ MODULE RunsAndBudgetsProofs ------------------------
(***************************************************************************)
(* Proofs about Runs and about Budgets, whose guard stands in front of     *)
(* every run; two specifications, side by side.  Runs: for any number of   *)
(* runs, requests, processes, users, event types and any bounds, a gate    *)
(* does not close unanswered, and who closes one held the permission of    *)
(* the stage seen and is not the initiator.  Budgets: for any tree of      *)
(* scopes and any number of processes, editors, calls and months, spend    *)
(* overshoots by the calls in flight and no more, and children exceed a    *)
(* parent only after a write that nothing judged in time.                  *)
(***************************************************************************)
EXTENDS Runs, Budgets, FiniteSetTheorems, TLAPS

USE RunsAssumption

LEMMA RunsInvInit == Init => RunsInv
<1> SUFFICES ASSUME Init PROVE RunsInv
  OBVIOUS
<1>1. Absent \in Row /\ Free.op = "free" /\ ~ Absent.gate /\ ~ Waiting.loaded
  BY DEF Absent, Row, Statuses, Stages, Free, Waiting
<1>2. Free \in [op : Operations \cup {"free"}, user : Users \cup {None},
                id : RunIds \cup {None}, view : View]
  BY DEF Free, NoView, View, Stages
<1>3. Waiting \in [loaded : BOOLEAN, view : View]
  BY DEF Waiting, NoView, View, Stages
<1>4. TypeOK
  <2>1. <<>> \in Seq([id : RunIds, type : Published])
    OBVIOUS
  <2> QED BY <1>1, <1>2, <1>3, <2>1 DEF Init, TypeOK
<1>5. ListenersAreFed /\ DecidersAreFit
  BY <1>1 DEF Init, ListenersAreFed, DecidersAreFit
<1>6. NoGateWithoutRun /\ UnansweredStaysOpen
  BY <1>1 DEF Init, NoGateWithoutRun, UnansweredStaysOpen
<1> QED BY <1>4, <1>5, <1>6 DEF RunsInv

-----------------------------------------------------------------------------
(* What one step does to a row, whoever takes it.                          *)

\* The row before and after, told apart by what the invariant is about.
RowMoves(r) ==
    /\ run'[r] \in Row
    /\ run[r].status # "none" =>
         /\ run'[r].status # "none"
         /\ run'[r].by = run[r].by \/ run'[r].by = None
    /\ run[r].status = "deleted" => run'[r].status = "deleted"
    /\ run'[r].status \in {"none", "deleted"} => ~ run'[r].gate
    /\ raised' \in [RunIds -> Nat] /\ answered' \in [RunIds -> Nat]
    /\ run'[r].status = "none" => raised'[r] = raised[r] /\ run[r].status = "none"
    /\ answered'[r] >= answered[r]
    /\ \/ raised'[r] = raised[r] /\ (run'[r].gate \/ ~ run[r].gate)
       \/ raised'[r] = raised[r] + 1 /\ ~ run[r].gate /\ run'[r].gate
       \/ raised'[r] = raised[r] /\ answered'[r] = answered[r] + 1
       \/ raised'[r] = raised[r] /\ run'[r].status = "deleted"

(* A row that a single write changes, and the counts it leaves alone.      *)
LEMMA OneRow ==
    ASSUME TypeOK, NoGateWithoutRun, NEW r \in RunIds, NEW row \in Row,
           run' = [run EXCEPT ![r] = row], UNCHANGED <<raised, answered>>,
           row.status # "none", run[r].status = "deleted" => row.status = "deleted",
           run[r].status # "none" => row.by = run[r].by \/ row.by = None,
           row.status = "deleted" => ~ row.gate,
           row.gate \/ ~ run[r].gate \/ row.status = "deleted"
    PROVE  \A q \in RunIds : RowMoves(q)
<1> SUFFICES ASSUME NEW q \in RunIds PROVE RowMoves(q)
  OBVIOUS
<1>1. run'[r] = row /\ (q # r => run'[q] = run[q])
  BY DEF TypeOK
<1>2. run[q] \in Row /\ raised[q] \in Nat /\ answered[q] \in Nat
  BY DEF TypeOK
<1>3. run[q].status \in {"none", "deleted"} => ~ run[q].gate
  BY <1>2 DEF NoGateWithoutRun, Exists, Row
<1>4. raised' \in [RunIds -> Nat] /\ answered' \in [RunIds -> Nat]
  BY DEF TypeOK
<1>5. CASE q = r
  BY <1>1, <1>2, <1>4, <1>5 DEF RowMoves
<1>6. CASE q # r
  BY <1>1, <1>2, <1>3, <1>4, <1>6 DEF RowMoves
<1> QED BY <1>5, <1>6

(* No row and no count changes.                                            *)
LEMMA NoRow ==
    ASSUME TypeOK, NoGateWithoutRun, UNCHANGED <<run, raised, answered>>
    PROVE  \A q \in RunIds : RowMoves(q)
<1> SUFFICES ASSUME NEW q \in RunIds PROVE RowMoves(q)
  OBVIOUS
<1>2. run[q] \in Row /\ raised[q] \in Nat /\ answered[q] \in Nat
  BY DEF TypeOK
<1>3. run[q].status \in {"none", "deleted"} => ~ run[q].gate
  BY <1>2 DEF NoGateWithoutRun, Exists, Row
<1>4. raised' \in [RunIds -> Nat] /\ answered' \in [RunIds -> Nat]
  BY DEF TypeOK
<1> QED BY <1>2, <1>3, <1>4 DEF RowMoves

LEMMA RowType ==
    ASSUME NEW row \in Row
    PROVE  /\ row.status \in Statuses /\ row.stage \in Stages /\ row.gate \in BOOLEAN
           /\ row.by \in Users \cup {None} /\ row.idle \in BOOLEAN
BY DEF Row

(* The rewritten forms of a row.                                           *)
LEMMA IdleForm ==
    ASSUME NEW row \in Row, NEW b \in BOOLEAN
    PROVE  LET new == [row EXCEPT !.idle = b]
           IN new \in Row /\ new.status = row.status /\ new.by = row.by
              /\ new.gate = row.gate
BY DEF Row

LEMMA StatusForm ==
    ASSUME NEW row \in Row, NEW st \in Statuses
    PROVE  LET new == [row EXCEPT !.status = st, !.idle = FALSE]
           IN new \in Row /\ new.status = st /\ new.by = row.by /\ new.gate = row.gate
BY DEF Row

LEMMA ClosedForm ==
    ASSUME NEW row \in Row
    PROVE  LET new == [row EXCEPT !.gate = FALSE, !.idle = FALSE]
           IN new \in Row /\ new.status = row.status /\ new.by = row.by /\ ~ new.gate
BY DEF Row

LEMMA AdvancedForm ==
    ASSUME TypeOK, NEW r \in RunIds, NEW view \in View, NEW next \in Stages
    PROVE  LET new == Advanced(r, view, next)
           IN new \in Row /\ new.status = run[r].status /\ new.by = run[r].by
              /\ (run[r].gate => new.gate)
<1>1. run[r] \in Row
  BY DEF TypeOK
<1>2. CASE view.stage = next /\ view.gate
  BY <1>1, <1>2 DEF Advanced
<1>3. CASE ~ (view.stage = next /\ view.gate)
  <2> DEFINE st == IF view.stage = next THEN run[r].stage ELSE next
             g == IF view.gate THEN run[r].gate ELSE TRUE
             new == [run[r] EXCEPT !.stage = st, !.gate = g, !.idle = FALSE]
  <2>1. st \in Stages /\ g \in BOOLEAN /\ (run[r].gate => g)
    BY <1>1, RowType
  <2>2. Advanced(r, view, next) = new
    BY <1>3 DEF Advanced
  <2>3. new \in Row /\ new.status = run[r].status /\ new.by = run[r].by /\ new.gate = g
    <3> HIDE DEF st, g
    <3> QED BY <1>1, <2>1 DEF Row
  <2> QED BY <2>1, <2>2, <2>3
<1> QED BY <1>2, <1>3

-----------------------------------------------------------------------------
(* Every step makes only such moves.                                       *)

LEMMA CreationMoves ==
    ASSUME TypeOK, NoGateWithoutRun, NEW r \in RunIds,
           \/ \E u \in Users : Create(r, u)
           \/ \E st \in BornAt, u \in Users \cup {None} : CreateCompleted(r, st, u)
    PROVE  \A q \in RunIds : RowMoves(q)
<1>1. ~ run[r].gate /\ run[r].status = "none" /\ UNCHANGED <<raised, answered>>
  BY RowType DEF TypeOK, NoGateWithoutRun, Exists, Create, CreateCompleted, others
<1>2. ASSUME NEW u \in Users, Create(r, u)
      PROVE  \A q \in RunIds : RowMoves(q)
  <2> DEFINE row == [Absent EXCEPT !.status = "running", !.by = u]
  <2>1. row \in Row /\ row.status = "running"
    BY DEF Absent, Row, Statuses, Stages
  <2>2. run' = [run EXCEPT ![r] = row]
    BY <1>2 DEF Create
  <2> HIDE DEF row
  <2> QED BY <1>1, <2>1, <2>2, OneRow
<1>3. ASSUME NEW st \in BornAt, NEW u \in Users \cup {None}, CreateCompleted(r, st, u)
      PROVE  \A q \in RunIds : RowMoves(q)
  <2> DEFINE row == [Absent EXCEPT !.status = "completed", !.stage = st, !.by = u]
  <2>1. st \in Stages
    BY DEF RunsAssumption
  <2>2. row \in Row /\ row.status = "completed"
    BY <2>1 DEF Absent, Row, Statuses
  <2>3. run' = [run EXCEPT ![r] = row]
    BY <1>3 DEF CreateCompleted
  <2> HIDE DEF row
  <2> QED BY <1>1, <2>2, <2>3, OneRow
<1> QED BY <1>2, <1>3

LEMMA TouchesMove ==
    ASSUME TypeOK, NoGateWithoutRun, NEW r \in RunIds, Turn(r) \/ GoStale(r)
    PROVE  \A q \in RunIds : RowMoves(q)
<1> PICK b \in BOOLEAN : /\ Exists(r)
                         /\ run' = [run EXCEPT ![r].idle = b]
                         /\ UNCHANGED <<raised, answered>>
  BY DEF Turn, GoStale, others
<1> DEFINE row == [run[r] EXCEPT !.idle = b]
<1>1. run[r] \in Row
  BY DEF TypeOK
<1>2. row \in Row /\ row.status = run[r].status /\ row.by = run[r].by /\ row.gate = run[r].gate
  BY <1>1, IdleForm
<1>3. run' = [run EXCEPT ![r] = row]
  OBVIOUS
<1>4. run[r].status \notin {"none", "deleted"} /\ run[r].gate \in BOOLEAN
  BY <1>1, RowType DEF Exists
<1> HIDE DEF row
<1> QED BY <1>2, <1>3, <1>4, OneRow

LEMMA HeadType ==
    ASSUME NEW S, NEW q \in Seq(S), q # <<>>
    PROVE  Head(q) \in S /\ Tail(q) \in Seq(S)
OBVIOUS

\* What the listener holds is a routed event of an existing type.
LEMMA HeadIsRouted ==
    ASSUME TypeOK, ListenersAreFed, NEW p \in Procs, listener[p].loaded
    PROVE  /\ inbox[p] # <<>>
           /\ Head(inbox[p]).id \in RunIds
           /\ Routing[Head(inbox[p]).type] \in Stages
           /\ listener[p].view \in View
<1>1. inbox[p] \in Seq([id : RunIds, type : Published]) /\ inbox[p] # <<>>
  BY DEF TypeOK, ListenersAreFed
<1>2. Head(inbox[p]) \in [id : RunIds, type : Published]
  BY <1>1, HeadType
<1>3. Head(inbox[p]).type \in DOMAIN Routing
  BY DEF ListenersAreFed
<1>4. \A t \in DOMAIN Routing : Routing[t] \in Stages
  BY DEF Routing, Stages
<1>5. listener[p].view \in View
  BY DEF TypeOK
<1> QED BY <1>1, <1>2, <1>3, <1>4, <1>5

LEMMA AdvanceMoves ==
    ASSUME TypeOK, NoGateWithoutRun, ListenersAreFed, NEW p \in Procs, Advance(p)
    PROVE  \A q \in RunIds : RowMoves(q)
<1> DEFINE r == Head(inbox[p]).id
           next == Routing[Head(inbox[p]).type]
           row == Advanced(r, listener[p].view, next)
<1>1. listener[p].loaded /\ answered' = answered
  BY DEF Advance
<1>2. r \in RunIds /\ next \in Stages /\ listener[p].view \in View
  BY <1>1, HeadIsRouted
<1>3. run[r] \in Row /\ run[r].gate \in BOOLEAN
  BY <1>2, RowType DEF TypeOK
<1>4. row \in Row /\ row.status = run[r].status /\ row.by = run[r].by
      /\ (run[r].gate => row.gate) /\ row.gate \in BOOLEAN
  BY <1>2, AdvancedForm, RowType
<1>5. CASE ~ Exists(r)
  <2>1. UNCHANGED <<run, raised, answered>>
    BY <1>1, <1>5 DEF Advance
  <2> QED BY <2>1, NoRow
<1>6. CASE Exists(r)
  <2>1. run' = [run EXCEPT ![r] = row]
        /\ raised' = IF row.gate /\ ~ run[r].gate THEN [raised EXCEPT ![r] = @ + 1] ELSE raised
    BY <1>6 DEF Advance
  <2>2. run[r].status \notin {"none", "deleted"}
    BY <1>6 DEF Exists
  <2> HIDE DEF row, next, r
  <2>3. CASE ~ (row.gate /\ ~ run[r].gate)
    BY <1>1, <1>2, <1>4, <2>1, <2>2, <2>3, OneRow
  <2>4. CASE row.gate /\ ~ run[r].gate
    <3> SUFFICES ASSUME NEW q \in RunIds PROVE RowMoves(q)
      OBVIOUS
    <3>1. run'[r] = row /\ (q # r => run'[q] = run[q])
      BY <1>2, <2>1 DEF TypeOK
    <3>2. raised' \in [RunIds -> Nat] /\ answered' \in [RunIds -> Nat]
          /\ raised'[r] = raised[r] + 1 /\ (q # r => raised'[q] = raised[q])
          /\ answered'[q] = answered[q] /\ answered[q] \in Nat
      BY <1>1, <1>2, <2>1, <2>4 DEF TypeOK
    <3>3. run[q] \in Row
      BY DEF TypeOK
    <3>4. run[q].status \in {"none", "deleted"} => ~ run[q].gate
      BY <3>3 DEF NoGateWithoutRun, Exists, Row
    <3>5. CASE q = r
      BY <1>4, <2>2, <2>4, <3>1, <3>2, <3>5 DEF RowMoves
    <3>6. CASE q # r
      BY <3>1, <3>2, <3>3, <3>4, <3>6 DEF RowMoves
    <3> QED BY <3>5, <3>6
  <2> QED BY <2>3, <2>4
<1> QED BY <1>5, <1>6

\* A request in hand names a run that is or was there.
LEMMA RequestNames ==
    ASSUME TypeOK, DecidersAreFit, NEW s \in Sessions, req[s].op # "free"
    PROVE  req[s].id \in RunIds /\ run[req[s].id] \in Row
BY DEF DecidersAreFit, TypeOK

LEMMA RequestsMove ==
    ASSUME TypeOK, NoGateWithoutRun, DecidersAreFit, NEW s \in Sessions,
           Cancel(s) \/ Delete(s) \/ DecideNothing(s)
    PROVE  \A q \in RunIds : RowMoves(q)
<1> DEFINE r == req[s].id
<1>1. req[s].op # "free" /\ UNCHANGED <<raised, answered>>
  BY DEF Cancel, Delete, DecideNothing, others
<1>2. r \in RunIds /\ run[r] \in Row
  BY <1>1, RequestNames
<1>3. CASE run' = run
  BY <1>1, <1>3, NoRow
<1>4. CASE Cancel(s) /\ Exists(r)
  <2> DEFINE row == [run[r] EXCEPT !.status = "cancelled", !.idle = FALSE]
  <2>1. row \in Row /\ row.status = "cancelled" /\ row.by = run[r].by /\ row.gate = run[r].gate
    BY <1>2, StatusForm DEF Statuses
  <2>2. run' = [run EXCEPT ![r] = row]
    BY <1>4 DEF Cancel
  <2>3. row.gate \/ ~ run[r].gate
    BY <1>2, <2>1, RowType
  <2>4. run[r].status \notin {"none", "deleted"}
    BY <1>4 DEF Exists
  <2> HIDE DEF row, r
  <2> QED BY <1>1, <1>2, <2>1, <2>2, <2>3, <2>4, OneRow
<1>5. CASE Delete(s) /\ Exists(r)
  <2> DEFINE row == [Absent EXCEPT !.status = "deleted"]
  <2>1. row \in Row /\ row.status = "deleted" /\ row.by = None /\ ~ row.gate
    BY DEF Absent, Row, Statuses, Stages
  <2>2. run' = [run EXCEPT ![r] = row]
    BY <1>5 DEF Delete
  <2> HIDE DEF row, r
  <2> QED BY <1>1, <1>2, <2>1, <2>2, OneRow
<1>6. run' = run \/ (Cancel(s) /\ Exists(r)) \/ (Delete(s) /\ Exists(r))
  BY DEF Cancel, Delete, DecideNothing
<1> QED BY <1>3, <1>4, <1>5, <1>6

LEMMA DecideMoves ==
    ASSUME TypeOK, NoGateWithoutRun, DecidersAreFit, NEW s \in Sessions, Decide(s)
    PROVE  \A q \in RunIds : RowMoves(q)
<1> DEFINE r == req[s].id
           row == [run[r] EXCEPT !.gate = FALSE, !.idle = FALSE]
<1>1. req[s].op # "free" /\ raised' = raised
  BY DEF Decide
<1>2. r \in RunIds /\ run[r] \in Row
  BY <1>1, RequestNames
<1>3. CASE ~ Exists(r)
  <2>1. UNCHANGED <<run, raised, answered>>
    BY <1>1, <1>3 DEF Decide
  <2> QED BY <2>1, NoRow
<1>4. CASE Exists(r)
  <2>1. row \in Row /\ row.status = run[r].status /\ row.by = run[r].by /\ ~ row.gate
    BY <1>2, ClosedForm
  <2>2. run' = [run EXCEPT ![r] = row] /\ answered' = [answered EXCEPT ![r] = @ + 1]
    BY <1>4 DEF Decide
  <2>3. run[r].status \notin {"none", "deleted"}
    BY <1>4 DEF Exists
  <2> HIDE DEF row, r
  <2> SUFFICES ASSUME NEW q \in RunIds PROVE RowMoves(q)
    OBVIOUS
  <2>4. run'[r] = row /\ (q # r => run'[q] = run[q])
    BY <1>2, <2>2 DEF TypeOK
  <2>5. raised' \in [RunIds -> Nat] /\ answered' \in [RunIds -> Nat]
        /\ answered'[r] = answered[r] + 1 /\ (q # r => answered'[q] = answered[q])
        /\ raised'[q] = raised[q] /\ answered[q] \in Nat
    BY <1>1, <1>2, <2>2 DEF TypeOK
  <2>6. run[q] \in Row
    BY DEF TypeOK
  <2>7. run[q].status \in {"none", "deleted"} => ~ run[q].gate
    BY <2>6 DEF NoGateWithoutRun, Exists, Row
  <2>8. CASE q = r
    BY <1>2, <2>1, <2>3, <2>4, <2>5, <2>8 DEF RowMoves
  <2>9. CASE q # r
    BY <2>4, <2>5, <2>6, <2>7, <2>9 DEF RowMoves
  <2> QED BY <2>8, <2>9
<1> QED BY <1>3, <1>4

LEMMA SweepMoves ==
    ASSUME TypeOK, NoGateWithoutRun, SweepWrite
    PROVE  \A q \in RunIds : RowMoves(q)
<1>1. UNCHANGED <<raised, answered>>
  BY DEF SweepWrite
<1>2. CASE run' = run
  BY <1>1, <1>2, NoRow
<1>3. CASE run' # run
  <2> SUFFICES ASSUME NEW q \in RunIds PROVE RowMoves(q)
    OBVIOUS
  <2> DEFINE row == [run[q] EXCEPT !.status = "cancelled", !.idle = FALSE]
  <2>1. run'[q] = (IF q \in sweep THEN row ELSE run[q])
        /\ (q \in sweep => Exists(q))
    BY <1>3 DEF SweepWrite
  <2>2. run[q] \in Row /\ raised[q] \in Nat /\ answered[q] \in Nat
        /\ raised' \in [RunIds -> Nat] /\ answered' \in [RunIds -> Nat]
    BY <1>1 DEF TypeOK
  <2>3. row \in Row /\ row.status = "cancelled" /\ row.by = run[q].by /\ row.gate = run[q].gate
    BY <2>2, StatusForm DEF Statuses
  <2>4. run[q].status \in {"none", "deleted"} => ~ run[q].gate
    BY <2>2 DEF NoGateWithoutRun, Exists, Row
  <2> HIDE DEF row
  <2>5. CASE q \in sweep
    BY <1>1, <2>1, <2>2, <2>3, <2>5 DEF RowMoves, Exists
  <2>6. CASE q \notin sweep
    BY <1>1, <2>1, <2>2, <2>4, <2>6 DEF RowMoves
  <2> QED BY <2>5, <2>6
<1> QED BY <1>2, <1>3

LEMMA StepMoves ==
    ASSUME TypeOK, NoGateWithoutRun, ListenersAreFed, DecidersAreFit, [Next]_vars
    PROVE  \A q \in RunIds : RowMoves(q)
<1>1. CASE \E r \in RunIds : \/ \E u \in Users : Create(r, u)
                            \/ \E st \in BornAt, u \in Users \cup {None} :
                                  CreateCompleted(r, st, u)
  BY <1>1, CreationMoves
<1>2. CASE \E r \in RunIds : Turn(r) \/ GoStale(r)
  BY <1>2, TouchesMove
<1>3. CASE \E p \in Procs : Advance(p)
  BY <1>3, AdvanceMoves
<1>4. CASE \E s \in Sessions : Cancel(s) \/ Delete(s) \/ DecideNothing(s)
  BY <1>4, RequestsMove
<1>5. CASE \E s \in Sessions : Decide(s)
  BY <1>5, DecideMoves
<1>6. CASE SweepWrite
  BY <1>6, SweepMoves
<1>7. CASE UNCHANGED <<run, raised, answered>>
  BY <1>7, NoRow
<1>8. \/ UNCHANGED <<run, raised, answered>>
      \/ SweepWrite
      \/ \E s \in Sessions : Cancel(s) \/ Delete(s) \/ DecideNothing(s) \/ Decide(s)
      \/ \E p \in Procs : Advance(p)
      \/ \E r \in RunIds :
            \/ Turn(r) \/ GoStale(r)
            \/ \E u \in Users : Create(r, u)
            \/ \E st \in BornAt, u \in Users \cup {None} : CreateCompleted(r, st, u)
  BY DEF Next, vars, others, Publish, Skip, Load, ListenerRestarts, AskCancel,
         AskDelete, AskDecision, SweepRead
<1> QED BY <1>1, <1>2, <1>3, <1>4, <1>5, <1>6, <1>7, <1>8

-----------------------------------------------------------------------------
(* The table of runs stays a table of runs.                                *)

LEMMA RunsStayRuns ==
    ASSUME TypeOK, NoGateWithoutRun, ListenersAreFed, DecidersAreFit, [Next]_vars
    PROVE  run' \in [RunIds -> Row]
<1>1. \A q \in RunIds : run'[q] \in Row
  BY StepMoves DEF RowMoves
<1>2. run' = [q \in RunIds |-> run'[q]]
  <2>1. run = [q \in RunIds |-> run[q]]
    BY DEF TypeOK
  <2>2. \/ run' = run
        \/ \E r, e : run' = [run EXCEPT ![r] = e]
        \/ \E S : run' = [r \in RunIds |-> IF r \in S
                              THEN [run[r] EXCEPT !.status = "cancelled", !.idle = FALSE]
                              ELSE run[r]]
    <3>1. ASSUME NEW r \in RunIds,
                 \/ \E u \in Users : Create(r, u)
                 \/ \E st \in BornAt, u \in Users \cup {None} : CreateCompleted(r, st, u)
          PROVE  \E e : run' = [run EXCEPT ![r] = e]
      BY <3>1 DEF Create, CreateCompleted
    <3>2. ASSUME NEW r \in RunIds, Turn(r) \/ GoStale(r)
          PROVE  \E e : run' = [run EXCEPT ![r] = e]
      BY <3>2 DEF Turn, GoStale
    <3>3. ASSUME NEW p \in Procs, Advance(p)
          PROVE  run' = run \/ \E r, e : run' = [run EXCEPT ![r] = e]
      BY <3>3 DEF Advance
    <3>4. ASSUME NEW s \in Sessions, Cancel(s)
          PROVE  run' = run \/ \E r, e : run' = [run EXCEPT ![r] = e]
      <4> DEFINE r == req[s].id
                 row == [run[r] EXCEPT !.status = "cancelled", !.idle = FALSE]
      <4>1. r \in RunIds /\ run[r] \in Row
        BY <3>4, RequestNames DEF Cancel
      <4>2. run' = run \/ run' = [run EXCEPT ![r] = row]
        BY <3>4, <4>1 DEF Cancel
      <4> QED BY <4>2
    <3>5. ASSUME NEW s \in Sessions, Delete(s) \/ DecideNothing(s)
          PROVE  run' = run \/ \E r, e : run' = [run EXCEPT ![r] = e]
      BY <3>5 DEF Delete, DecideNothing, others
    <3>6. ASSUME NEW s \in Sessions, Decide(s)
          PROVE  run' = run \/ \E r, e : run' = [run EXCEPT ![r] = e]
      <4> DEFINE r == req[s].id
                 row == [run[r] EXCEPT !.gate = FALSE, !.idle = FALSE]
      <4>1. r \in RunIds /\ run[r] \in Row
        BY <3>6, RequestNames DEF Decide
      <4>2. run' = run \/ run' = [run EXCEPT ![r] = row]
        BY <3>6, <4>1 DEF Decide
      <4> QED BY <4>2
    <3>7. ASSUME SweepWrite
          PROVE  run' = run \/ \E S : run' = [r \in RunIds |-> IF r \in S
                              THEN [run[r] EXCEPT !.status = "cancelled", !.idle = FALSE]
                              ELSE run[r]]
      BY <3>7 DEF SweepWrite
    <3>8. \/ run' = run
          \/ SweepWrite
          \/ \E s \in Sessions : Cancel(s) \/ Delete(s) \/ DecideNothing(s) \/ Decide(s)
          \/ \E p \in Procs : Advance(p)
          \/ \E r \in RunIds :
                \/ Turn(r) \/ GoStale(r)
                \/ \E u \in Users : Create(r, u)
                \/ \E st \in BornAt, u \in Users \cup {None} : CreateCompleted(r, st, u)
      BY DEF Next, vars, others, Publish, Skip, Load, ListenerRestarts, AskCancel,
             AskDelete, AskDecision, SweepRead
    <3> QED BY <3>1, <3>2, <3>3, <3>4, <3>5, <3>6, <3>7, <3>8
  <2> QED BY <2>1, <2>2
<1> QED BY <1>1, <1>2

(* Events and the rows loaded for them.                                    *)
LEMMA ListenersStayFed ==
    ASSUME TypeOK, ListenersAreFed, [Next]_vars
    PROVE  /\ inbox' \in [Procs -> Seq([id : RunIds, type : Published])]
           /\ listener' \in [Procs -> [loaded : BOOLEAN, view : View]]
           /\ events' \in Nat
           /\ ListenersAreFed'
<1> DEFINE Msg == [id : RunIds, type : Published]
           Lst == [loaded : BOOLEAN, view : View]
<1>1. inbox \in [Procs -> Seq(Msg)] /\ listener \in [Procs -> Lst] /\ events \in Nat
  BY DEF TypeOK
<1>2. Waiting \in Lst /\ ~ Waiting.loaded /\ <<>> \in Seq(Msg)
  BY DEF Waiting, NoView, View, Stages
<1>3. ASSUME NEW r \in RunIds, NEW t \in Published, Publish(r, t)
      PROVE  inbox' \in [Procs -> Seq(Msg)] /\ listener' \in [Procs -> Lst]
             /\ events' \in Nat /\ ListenersAreFed'
  <2> DEFINE m == [id |-> r, type |-> t]
  <2>1. m \in Msg
    OBVIOUS
  <2>2. inbox' = [p \in Procs |-> Append(inbox[p], m)] /\ listener' = listener
        /\ events' = events + 1
    BY <1>3 DEF Publish
  <2> HIDE DEF m, Msg
  <2>3. ASSUME NEW p \in Procs
        PROVE  /\ Append(inbox[p], m) \in Seq(Msg) /\ Append(inbox[p], m) # <<>>
               /\ inbox[p] # <<>> => Head(Append(inbox[p], m)) = Head(inbox[p])
    <3>1. inbox[p] \in Seq(Msg)
      BY <1>1
    <3> QED BY <2>1, <3>1
  <2>4. inbox' \in [Procs -> Seq(Msg)]
    BY <2>2, <2>3
  <2>5. ASSUME NEW p \in Procs, listener'[p].loaded
        PROVE  inbox'[p] # <<>> /\ Head(inbox'[p]).type \in DOMAIN Routing
    <3>1. inbox'[p] = Append(inbox[p], m) /\ listener[p].loaded
      BY <2>2, <2>5
    <3>2. inbox[p] # <<>> /\ Head(inbox[p]).type \in DOMAIN Routing
      BY <3>1 DEF ListenersAreFed
    <3>3. inbox'[p] # <<>> /\ Head(inbox'[p]) = Head(inbox[p])
      BY <2>3, <3>1, <3>2
    <3> QED BY <3>2, <3>3
  <2>6. ListenersAreFed'
    BY <2>5 DEF ListenersAreFed
  <2>7. listener' \in [Procs -> Lst] /\ events' \in Nat
    BY <1>1, <2>2
  <2> QED BY <2>4, <2>6, <2>7
<1>4. ASSUME NEW p \in Procs, Skip(p) \/ Advance(p) \/ ListenerRestarts(p)
      PROVE  inbox' \in [Procs -> Seq(Msg)] /\ listener' \in [Procs -> Lst]
             /\ events' \in Nat /\ ListenersAreFed'
  <2>1. inbox[p] \in Seq(Msg) /\ (Skip(p) \/ Advance(p) => inbox[p] # <<>>)
    BY <1>1, <1>4 DEF Skip, Advance, ListenersAreFed
  <2>2. \E q \in Seq(Msg) : inbox' = [inbox EXCEPT ![p] = q]
    <3>1. CASE Skip(p) \/ Advance(p)
      <4> HIDE DEF Msg
      <4>1. Tail(inbox[p]) \in Seq(Msg)
        BY <2>1, <3>1, HeadType
      <4> QED BY <3>1, <4>1 DEF Skip, Advance
    <3>2. CASE ListenerRestarts(p)
      BY <1>2, <3>2 DEF ListenerRestarts
    <3> QED BY <1>4, <3>1, <3>2
  <2>3. \/ listener' = listener /\ ~ listener[p].loaded
        \/ listener' = [listener EXCEPT ![p] = Waiting]
    BY <1>4 DEF Skip, Advance, ListenerRestarts
  <2>4. events' = events
    BY <1>4 DEF Skip, Advance, ListenerRestarts
  <2> HIDE DEF Msg, Lst
  <2>5. listener' \in [Procs -> Lst] /\ ~ listener'[p].loaded
        /\ \A q \in Procs \ {p} : listener'[q] = listener[q] /\ inbox'[q] = inbox[q]
    BY <1>1, <1>2, <2>2, <2>3
  <2> QED BY <1>1, <2>2, <2>4, <2>5 DEF ListenersAreFed
<1>5. ASSUME NEW p \in Procs, Load(p)
      PROVE  inbox' \in [Procs -> Seq(Msg)] /\ listener' \in [Procs -> Lst]
             /\ events' \in Nat /\ ListenersAreFed'
  <2> DEFINE r == Head(inbox[p]).id
             l == [loaded |-> TRUE, view |-> Seen(r)]
  <2>1. inbox[p] # <<>> /\ inbox[p] \in Seq(Msg) /\ Head(inbox[p]).type \in DOMAIN Routing
    BY <1>1, <1>5 DEF Load, Routed
  <2>2. Head(inbox[p]) \in Msg
    <3> HIDE DEF Msg
    <3> QED BY <2>1, HeadType
  <2>3. run[r] \in Row
    BY <2>2 DEF TypeOK
  <2>4. l \in Lst
    BY <2>3, RowType DEF Seen, View
  <2>5. listener' = [listener EXCEPT ![p] = l] /\ inbox' = inbox /\ events' = events
    BY <1>5 DEF Load
  <2> HIDE DEF l, Msg, Lst
  <2> QED BY <1>1, <2>1, <2>4, <2>5 DEF ListenersAreFed
<1>6. ASSUME UNCHANGED <<inbox, listener, events>>
      PROVE  inbox' \in [Procs -> Seq(Msg)] /\ listener' \in [Procs -> Lst]
             /\ events' \in Nat /\ ListenersAreFed'
  BY <1>1, <1>6 DEF ListenersAreFed
<1>7. \/ UNCHANGED <<inbox, listener, events>>
      \/ \E r \in RunIds, t \in Published : Publish(r, t)
      \/ \E p \in Procs : Skip(p) \/ Load(p) \/ Advance(p) \/ ListenerRestarts(p)
  BY DEF Next, vars, others, Create, CreateCompleted, Turn, GoStale, AskCancel,
         AskDelete, AskDecision, Cancel, Decide, DecideNothing, Delete, SweepRead,
         SweepWrite
<1> QED BY <1>3, <1>4, <1>5, <1>6, <1>7

(* Requests: the loaded copy is judged when it is loaded, and what was     *)
(* judged of the row never changes while the row is there.                 *)
Request == [op : Operations \cup {"free"}, user : Users \cup {None},
            id : RunIds \cup {None}, view : View]

LEMMA StillFit ==
    ASSUME TypeOK, NoGateWithoutRun, ListenersAreFed, DecidersAreFit, [Next]_vars,
           NEW z \in Sessions
    PROVE  /\ req[z].op # "free" => req[z].id \in RunIds /\ run'[req[z].id].status # "none"
           /\ req[z].op = "decide" => /\ req[z].user \in Approvers[req[z].view.stage]
                                      /\ req[z].user # run'[req[z].id].by
<1>1. CASE req[z].op = "free"
  BY <1>1
<1>2. CASE req[z].op # "free"
  <2> DEFINE r == req[z].id
  <2>1. r \in RunIds /\ run[r].status # "none"
    BY <1>2 DEF DecidersAreFit
  <2>2. run'[r].status # "none" /\ (run'[r].by = run[r].by \/ run'[r].by = None)
    BY <2>1, StepMoves DEF RowMoves
  <2>3. req[z].view.stage \in Stages
    BY DEF TypeOK, View
  <2>4. req[z].op = "decide" => req[z].user \in Approvers[req[z].view.stage]
                                /\ req[z].user # run[r].by
    BY DEF DecidersAreFit
  <2>5. req[z].op = "decide" => req[z].user # None
    BY <2>3, <2>4 DEF RunsAssumption
  <2> QED BY <2>1, <2>2, <2>4, <2>5
<1> QED BY <1>1, <1>2

LEMMA RequestsStayFit ==
    ASSUME TypeOK, NoGateWithoutRun, ListenersAreFed, DecidersAreFit, [Next]_vars
    PROVE  req' \in [Sessions -> Request] /\ DecidersAreFit'
<1>1. req \in [Sessions -> Request]
  BY DEF TypeOK, Request
<1>2. Free \in Request /\ Free.op = "free"
  BY DEF Free, Request, NoView, View, Stages
<1>3. ASSUME NEW s \in Sessions, NEW r \in RunIds,
             \/ AskCancel(s, r) \/ AskDelete(s, r)
             \/ \E u \in Users : AskDecision(s, u, r)
      PROVE  \E q \in Request :
               /\ req' = [req EXCEPT ![s] = q]
               /\ q.op # "free" => q.id \in RunIds /\ run'[q.id].status # "none"
               /\ q.op = "decide" => /\ q.user \in Approvers[q.view.stage]
                                     /\ q.user # run'[q.id].by
  <2>1. run[r].status # "none" /\ run' = run /\ run[r] \in Row
    BY <1>3 DEF AskCancel, AskDelete, AskDecision, Exists, others, TypeOK
  <2>2. CASE AskCancel(s, r)
    <3> DEFINE q == [Free EXCEPT !.op = "cancel", !.id = r]
    <3>1. q \in Request /\ q.op = "cancel" /\ q.id = r
      BY DEF Free, Request, NoView, View, Stages, Operations
    <3> QED BY <2>1, <2>2, <3>1 DEF AskCancel
  <2>3. CASE AskDelete(s, r)
    <3> DEFINE q == [Free EXCEPT !.op = "delete", !.id = r]
    <3>1. q \in Request /\ q.op = "delete" /\ q.id = r
      BY DEF Free, Request, NoView, View, Stages, Operations
    <3> QED BY <2>1, <2>3, <3>1 DEF AskDelete
  <2>4. ASSUME NEW u \in Users, AskDecision(s, u, r)
        PROVE  \E q \in Request :
               /\ req' = [req EXCEPT ![s] = q]
               /\ q.op # "free" => q.id \in RunIds /\ run'[q.id].status # "none"
               /\ q.op = "decide" => /\ q.user \in Approvers[q.view.stage]
                                     /\ q.user # run'[q.id].by
    <3> DEFINE q == [op |-> "decide", user |-> u, id |-> r, view |-> Seen(r)]
    <3>1. Seen(r) \in View /\ Seen(r).stage = run[r].stage
      BY <2>1, RowType DEF Seen, View
    <3>2. q \in Request /\ q.op = "decide" /\ q.id = r
      BY <3>1 DEF Request, Operations
    <3>3. u \in Approvers[Seen(r).stage] /\ u # run[r].by
      BY <2>4, <3>1 DEF AskDecision, MayDecide
    <3>4. req' = [req EXCEPT ![s] = q]
      BY <2>4 DEF AskDecision
    <3> QED BY <2>1, <3>2, <3>3, <3>4
  <2> QED BY <1>3, <2>2, <2>3, <2>4
<1>4. ASSUME NEW s \in Sessions, NEW q \in Request, req' = [req EXCEPT ![s] = q],
             q.op # "free" => q.id \in RunIds /\ run'[q.id].status # "none",
             q.op = "decide" => /\ q.user \in Approvers[q.view.stage]
                                /\ q.user # run'[q.id].by
      PROVE  req' \in [Sessions -> Request] /\ DecidersAreFit'
  <2>1. req' \in [Sessions -> Request]
    BY <1>1, <1>4
  <2>2. ASSUME NEW z \in Sessions
        PROVE  /\ req'[z].op # "free" => req'[z].id \in RunIds /\ run'[req'[z].id].status # "none"
               /\ req'[z].op = "decide" => /\ req'[z].user \in Approvers[req'[z].view.stage]
                                           /\ req'[z].user # run'[req'[z].id].by
    <3>1. CASE z = s
      BY <1>1, <1>4, <3>1
    <3>2. CASE z # s
      BY <1>1, <1>4, <3>2, StillFit
    <3> QED BY <3>1, <3>2
  <2> QED BY <2>1, <2>2 DEF DecidersAreFit
<1>5. CASE req' = req
  BY <1>1, <1>5, StillFit DEF DecidersAreFit
<1>6. CASE \E s \in Sessions : req' = [req EXCEPT ![s] = Free]
  BY <1>2, <1>4, <1>6
<1>7. \/ req' = req
      \/ \E s \in Sessions : req' = [req EXCEPT ![s] = Free]
      \/ \E s \in Sessions, r \in RunIds :
            \/ AskCancel(s, r) \/ AskDelete(s, r)
            \/ \E u \in Users : AskDecision(s, u, r)
  BY DEF Next, vars, others, Create, CreateCompleted, Turn, GoStale, Publish, Skip,
         Load, Advance, ListenerRestarts, Cancel, Decide, DecideNothing, Delete,
         SweepRead, SweepWrite
<1> QED BY <1>3, <1>4, <1>5, <1>6, <1>7

-----------------------------------------------------------------------------
(* Who counts what, and what a sweep holds.                                *)

LEMMA OnlyDecisionsCount ==
    ASSUME TypeOK, ListenersAreFed, DecidersAreFit, [Next]_vars
    PROVE  /\ raised' = raised \/ \E p \in Procs : Advance(p)
           /\ answered' = answered \/ \E s \in Sessions : Decide(s)
BY DEF Next, vars, others, Create, CreateCompleted, Turn, GoStale, Publish, Skip, Load,
       Advance, ListenerRestarts, AskCancel, AskDelete, AskDecision, Cancel, DecideNothing,
       Decide, Delete, SweepRead, SweepWrite

LEMMA CountsStayCounts ==
    ASSUME TypeOK, ListenersAreFed, DecidersAreFit, [Next]_vars
    PROVE  raised' \in [RunIds -> Nat] /\ answered' \in [RunIds -> Nat]
<1>1. raised \in [RunIds -> Nat] /\ answered \in [RunIds -> Nat]
  BY DEF TypeOK
<1>2. ASSUME NEW p \in Procs, Advance(p)
      PROVE  raised' \in [RunIds -> Nat]
  <2>1. raised' = raised \/ \E r \in RunIds : raised' = [raised EXCEPT ![r] = @ + 1]
    BY <1>2, HeadIsRouted DEF Advance
  <2> QED BY <1>1, <2>1
<1>3. ASSUME NEW s \in Sessions, Decide(s)
      PROVE  answered' \in [RunIds -> Nat]
  <2>1. answered' = answered \/ \E r \in RunIds : answered' = [answered EXCEPT ![r] = @ + 1]
    BY <1>3, RequestNames DEF Decide
  <2> QED BY <1>1, <2>1
<1> QED BY <1>1, <1>2, <1>3, OnlyDecisionsCount

LEMMA SweepsRuns ==
    ASSUME TypeOK, [Next]_vars
    PROVE  sweep' \in SUBSET RunIds
<1>1. sweep' = sweep \/ SweepRead \/ SweepWrite
  BY DEF Next, vars, others, Create, CreateCompleted, Turn, GoStale, Publish, Skip, Load,
         Advance, ListenerRestarts, AskCancel, AskDelete, AskDecision, Cancel, DecideNothing,
         Decide, Delete
<1> QED BY <1>1 DEF TypeOK, SweepRead, SweepWrite

-----------------------------------------------------------------------------
(* The inductive invariant and what follows from it.                       *)

LEMMA RunsInvStep == RunsInv /\ [Next]_vars => RunsInv'
<1> SUFFICES ASSUME RunsInv, [Next]_vars PROVE RunsInv'
  OBVIOUS
<1> USE DEF RunsInv
<1>1. \A q \in RunIds : RowMoves(q)
  BY StepMoves
<1>2. TypeOK'
  <2>1. run' \in [RunIds -> Row]
    BY RunsStayRuns
  <2>2. req' \in [Sessions -> Request]
    BY RequestsStayFit
  <2>3. /\ inbox' \in [Procs -> Seq([id : RunIds, type : Published])]
        /\ listener' \in [Procs -> [loaded : BOOLEAN, view : View]]
        /\ events' \in Nat
    BY ListenersStayFed
  <2>4. sweep' \in SUBSET RunIds
    BY SweepsRuns
  <2>5. raised' \in [RunIds -> Nat] /\ answered' \in [RunIds -> Nat]
    BY CountsStayCounts
  <2> QED BY <2>1, <2>2, <2>3, <2>4, <2>5 DEF TypeOK, Request
<1>3. ListenersAreFed' /\ DecidersAreFit'
  BY ListenersStayFed, RequestsStayFit
<1>4. NoGateWithoutRun'
  <2> SUFFICES ASSUME NEW q \in RunIds
               PROVE  /\ run'[q].status \in {"none", "deleted"} => ~ run'[q].gate
                      /\ run'[q].status = "none" => raised'[q] = 0
    BY DEF NoGateWithoutRun, Exists
  <2>1. RowMoves(q)
    BY <1>1
  <2>2. run[q].status = "none" => raised[q] = 0
    BY DEF NoGateWithoutRun
  <2> QED BY <2>1, <2>2 DEF RowMoves
<1>5. UnansweredStaysOpen'
  <2> SUFFICES ASSUME NEW q \in RunIds, run'[q].status \notin {"none", "deleted"}
               PROVE  raised'[q] <= answered'[q] + (IF run'[q].gate THEN 1 ELSE 0)
    BY DEF UnansweredStaysOpen, Exists
  <2>1. RowMoves(q)
    BY <1>1
  <2>2. /\ raised[q] \in Nat /\ answered[q] \in Nat
        /\ raised'[q] \in Nat /\ answered'[q] \in Nat
    BY <2>1 DEF TypeOK, RowMoves
  <2>3. raised[q] <= answered[q] + (IF run[q].gate THEN 1 ELSE 0)
    <3>1. CASE run[q].status \notin {"none", "deleted"}
      BY <3>1 DEF UnansweredStaysOpen, Exists
    <3>2. CASE run[q].status = "none"
      BY <2>2, <3>2 DEF NoGateWithoutRun
    <3>3. CASE run[q].status = "deleted"
      BY <2>1, <3>3 DEF RowMoves
    <3> QED BY <3>1, <3>2, <3>3
  <2>4. /\ answered'[q] >= answered[q]
        /\ \/ raised'[q] = raised[q] /\ (run'[q].gate \/ ~ run[q].gate)
           \/ raised'[q] = raised[q] + 1 /\ ~ run[q].gate /\ run'[q].gate
           \/ raised'[q] = raised[q] /\ answered'[q] = answered[q] + 1
    BY <2>1 DEF RowMoves
  <2> QED BY <2>2, <2>3, <2>4
<1> QED BY <1>2, <1>3, <1>4, <1>5

\* Every value in Runs keeps its type, for any constants.
THEOREM RunsTyped == Spec => []TypeOK
<1>1. Init => RunsInv
  BY RunsInvInit
<1>2. RunsInv /\ [Next]_vars => RunsInv'
  BY RunsInvStep
<1>3. RunsInv => TypeOK
  BY DEF RunsInv
<1> QED BY <1>1, <1>2, <1>3, PTL DEF Spec

\* No gate of runs.py closes without a decision taken on an open gate, whatever
\* listeners, cancellations and sweeps write over each other.
THEOREM GatesNeedAnswers == Spec => []UnansweredStaysOpen
<1>1. Init => RunsInv
  BY RunsInvInit
<1>2. RunsInv /\ [Next]_vars => RunsInv'
  BY RunsInvStep
<1>3. RunsInv => UnansweredStaysOpen
  BY DEF RunsInv
<1> QED BY <1>1, <1>2, <1>3, PTL DEF Spec

LEMMA ClosersAreFit ==
    ASSUME RunsInv, [Next]_vars, NEW r \in RunIds,
           run[r].gate, ~ run'[r].gate, run'[r].status # "deleted"
    PROVE  \E s \in Sessions :
              /\ req[s].id = r /\ req[s].op = "decide" /\ req[s].view.gate
              /\ req'[s] = Free
              /\ req[s].user \in Approvers[req[s].view.stage]
              /\ req[s].user # run[r].by
<1> USE DEF RunsInv
<1>1. answered'[r] = answered[r] + 1
  BY StepMoves DEF RowMoves
<1>2. answered \in [RunIds -> Nat]
  BY DEF TypeOK
<1>3. answered' # answered
  BY <1>1, <1>2
<1>4. PICK s \in Sessions : Decide(s)
  BY <1>3, OnlyDecisionsCount
<1>5. req[s].op = "decide" /\ req[s].view.gate /\ req'[s] = Free
  <2>1. req' = [req EXCEPT ![s] = Free] /\ req[s].op = "decide" /\ req[s].view.gate
    BY <1>4 DEF Decide
  <2> QED BY <2>1 DEF TypeOK
<1>6. req[s].id = r
  <2>1. answered' = [answered EXCEPT ![req[s].id] = @ + 1]
    BY <1>3, <1>4 DEF Decide
  <2> QED BY <1>1, <1>2, <2>1
<1>7. req[s].user \in Approvers[req[s].view.stage] /\ req[s].user # run[r].by
  BY <1>5, <1>6 DEF DecidersAreFit
<1> QED BY <1>5, <1>6, <1>7

\* Whoever closes the gate of a run that stays had seen one open, held the
\* permission of the stage seen and is not the run's initiator.
THEOREM GatesCloseUnderFourEyes == Spec => GateClosesUnderFourEyes
<1> DEFINE FourEyes ==
      \A r \in RunIds :
         (run[r].gate /\ ~ run'[r].gate /\ run'[r].status # "deleted") =>
            \E s \in Sessions :
                /\ req[s].id = r /\ req[s].op = "decide" /\ req[s].view.gate
                /\ req'[s] = Free
                /\ req[s].user \in Approvers[req[s].view.stage]
                /\ req[s].user # run[r].by
<1>1. Init => RunsInv
  BY RunsInvInit
<1>2. RunsInv /\ [Next]_vars => RunsInv'
  BY RunsInvStep
<1>3. RunsInv /\ [Next]_vars => [FourEyes]_vars
  BY ClosersAreFit
<1> QED BY <1>1, <1>2, <1>3, PTL DEF Spec, GateClosesUnderFourEyes

HIDE RunsAssumption

-----------------------------------------------------------------------------
(* Sums: the numbers of dollars.                                           *)

LEMMA OnesFinite ==
    ASSUME NEW x, NEW n \in Nat
    PROVE  IsFiniteSet({x} \X (1..n)) /\ Cardinality({x} \X (1..n)) = n
<1>1. IsFiniteSet({x}) /\ Cardinality({x}) = 1
  BY FS_Singleton
<1>2. IsFiniteSet(1..n) /\ Cardinality(1..n) = n
  BY FS_Interval
<1>3. /\ IsFiniteSet({x} \X (1..n))
      /\ Cardinality({x} \X (1..n)) = Cardinality({x}) * Cardinality(1..n)
  BY <1>1, <1>2, FS_Product
<1> QED BY <1>1, <1>2, <1>3

LEMMA DollarsFinite ==
    ASSUME NEW S, IsFiniteSet(S), NEW f, \A x \in S : f[x] \in Nat
    PROVE  IsFiniteSet(Dollars(f, S))
<1> DEFINE Of(x) == {x} \X (1..f[x])
           T == {Of(x) : x \in S}
           g == [x \in S |-> Of(x)]
<1>1. g \in Surjection(S, T)
  BY DEF Surjection
<1>2. IsFiniteSet(T)
  <2> HIDE DEF T, g
  <2> QED BY <1>1, FS_Surjection
<1>3. \A t \in T : IsFiniteSet(t)
  <2>1. \A x \in S : IsFiniteSet(Of(x))
    BY OnesFinite
  <2> HIDE DEF Of
  <2> QED BY <2>1
<1>4. IsFiniteSet(UNION T)
  <2> HIDE DEF T
  <2> QED BY <1>2, <1>3, FS_UNION
<1> QED BY <1>4 DEF Dollars

LEMMA SumType ==
    ASSUME NEW S, IsFiniteSet(S), NEW f, \A x \in S : f[x] \in Nat
    PROVE  Sum(f, S) \in Nat
BY DollarsFinite, FS_CardinalityType DEF Sum

LEMMA SumSplit ==
    ASSUME NEW S, IsFiniteSet(S), NEW f, \A x \in S : f[x] \in Nat, NEW x \in S
    PROVE  Sum(f, S) = f[x] + Sum(f, S \ {x})
<1> DEFINE A == {x} \X (1..f[x])
           R == S \ {x}
           D == Dollars(f, R)
<1>1. IsFiniteSet(R)
  BY FS_Subset
<1>2. IsFiniteSet(D) /\ Cardinality(D) \in Nat
  <2>1. \A y \in R : f[y] \in Nat
    OBVIOUS
  <2> HIDE DEF R
  <2> QED BY <1>1, <2>1, DollarsFinite, FS_CardinalityType
<1>3. IsFiniteSet(A) /\ Cardinality(A) = f[x]
  BY OnesFinite
<1>4. Dollars(f, S) = A \cup D
  BY DEF Dollars
<1>5. A \cap D = {}
  BY DEF Dollars
<1>6. Cardinality(A \cap D) = 0
  BY <1>5, FS_EmptySet
<1>7. Cardinality(A \cup D) = Cardinality(A) + Cardinality(D) - Cardinality(A \cap D)
  <2> HIDE DEF A, D
  <2> QED BY <1>2, <1>3, FS_Union
<1> QED BY <1>2, <1>3, <1>4, <1>6, <1>7 DEF Sum

LEMMA SumSubset ==
    ASSUME NEW S, IsFiniteSet(S), NEW f, \A x \in S : f[x] \in Nat, NEW T \in SUBSET S
    PROVE  Sum(f, T) <= Sum(f, S)
<1>1. Dollars(f, T) \subseteq Dollars(f, S)
  BY DEF Dollars
<1> QED BY <1>1, DollarsFinite, FS_Subset DEF Sum

LEMMA SumSame ==
    ASSUME NEW S, NEW f, NEW g, \A x \in S : f[x] = g[x]
    PROVE  Sum(f, S) = Sum(g, S)
<1>1. Dollars(f, S) = Dollars(g, S)
  BY DEF Dollars
<1> QED BY <1>1 DEF Sum

-----------------------------------------------------------------------------
(* What a scope has spent, before and after a charge.                      *)

LEMMA Months == IsFiniteSet(0..MaxTime)
BY FS_Interval, BudgetsAssumption

LEMMA SpentType ==
    ASSUME ledger \in [0..MaxTime -> [Scopes -> Nat]], NEW s \in Scopes
    PROVE  Spent(s) \in Nat /\ \A m \in 0..MaxTime : ledger[m][s] <= Spent(s)
<1> DEFINE f == [m \in 0..MaxTime |-> ledger[m][s]]
           M == 0..MaxTime
<1>1. \A m \in M : f[m] \in Nat /\ f[m] = ledger[m][s]
  OBVIOUS
<1>2. IsFiniteSet(M) /\ \A m \in M : IsFiniteSet(M \ {m})
  BY Months, FS_Subset
<1>3. Spent(s) = Sum(f, M)
  BY DEF Spent
<1> HIDE DEF f, M
<1>4. Sum(f, M) \in Nat
  BY <1>1, <1>2, SumType
<1>5. ASSUME NEW m \in M PROVE f[m] <= Sum(f, M)
  <2>1. Sum(f, M) = f[m] + Sum(f, M \ {m})
    BY <1>1, <1>2, SumSplit
  <2>2. Sum(f, M \ {m}) \in Nat
    BY <1>1, <1>2, SumType
  <2> QED BY <2>1, <2>2, <1>1
<1> QED BY <1>1, <1>3, <1>4, <1>5 DEF M

LEMMA SpentAfterCharge ==
    ASSUME ledger \in [0..MaxTime -> [Scopes -> Nat]], now \in 0..MaxTime, NEW S,
           ledger' = [ledger EXCEPT ![now] =
                        [s \in Scopes |-> IF s \in S THEN @[s] + 1 ELSE @[s]]],
           NEW s \in Scopes
    PROVE  Spent(s)' = IF s \in S THEN Spent(s) + 1 ELSE Spent(s)
<1> DEFINE f == [m \in 0..MaxTime |-> ledger[m][s]]
           g == [m \in 0..MaxTime |-> ledger'[m][s]]
           M == 0..MaxTime
           R == M \ {now}
<1>1. (\A m \in M : f[m] \in Nat /\ g[m] \in Nat) /\ (\A m \in R : f[m] = g[m])
  OBVIOUS
<1>2. g[now] = IF s \in S THEN f[now] + 1 ELSE f[now]
  OBVIOUS
<1>3. IsFiniteSet(M) /\ IsFiniteSet(R) /\ now \in M
  BY Months, FS_Subset
<1>4. Spent(s) = Sum(f, M) /\ Spent(s)' = Sum(g, M)
  BY DEF Spent
<1>5. R = M \ {now}
  OBVIOUS
<1> HIDE DEF f, g, M, R
<1>6. Sum(f, M) = f[now] + Sum(f, R) /\ Sum(g, M) = g[now] + Sum(g, R)
  BY <1>1, <1>3, <1>5, SumSplit
<1>7. Sum(f, R) = Sum(g, R)
  BY <1>1, SumSame
<1>8. Sum(f, R) \in Nat /\ f[now] \in Nat
  BY <1>1, <1>3, <1>5, SumType
<1> QED BY <1>2, <1>4, <1>6, <1>7, <1>8

-----------------------------------------------------------------------------
(* The one metered project, and the types of the calls.                    *)

LEMMA OneMetered == \E q \in Projects : Metered = {q}
<1>1. IsFiniteSet(Metered) /\ Cardinality(Metered) = 1
  BY BudgetsAssumption, FS_Subset
<1>2. PICK q : Metered = {q}
  BY <1>1, FS_Singleton
<1> QED BY <1>2, BudgetsAssumption

Places == {"idle", "read", "store", "check", "run"}
CallForm(x) ==
    /\ x = [at |-> x.at, project |-> x.project, budgets |-> x.budgets, left |-> x.left,
            made |-> x.made]
    /\ x.made \in 0..PerTurn
    /\ x.at \in Places /\ x.project \in Metered \cup {Nothing}
    /\ IsSnapshot(x.budgets) /\ x.left \subseteq Scopes

CallsTyped ==
    /\ call \in [Callers -> [at : Places, project : Metered \cup {Nothing},
                             budgets : {call[c].budgets : c \in Callers},
                             left : SUBSET Scopes, made : 0..PerTurn]]
    /\ \A c \in Callers : IsSnapshot(call[c].budgets)

CallsFormed ==
    call = [c \in Callers |-> call[c]] /\ \A c \in Callers : CallForm(call[c])

LEMMA CallsForm == CallsTyped <=> CallsFormed
<1>1. ASSUME CallsTyped PROVE call = [c \in Callers |-> call[c]] /\ \A c \in Callers : CallForm(call[c])
  BY <1>1 DEF CallsTyped, CallForm
<1>2. ASSUME call = [c \in Callers |-> call[c]], \A c \in Callers : CallForm(call[c])
      PROVE  CallsTyped
  <2> DEFINE B == {call[c].budgets : c \in Callers}
             R == [at : Places, project : Metered \cup {Nothing}, budgets : B, left : SUBSET Scopes,
                   made : 0..PerTurn]
  <2>1. ASSUME NEW c \in Callers PROVE call[c] \in R
    <3>1. call[c].budgets \in B
      OBVIOUS
    <3> HIDE DEF B
    <3> QED BY <1>2, <3>1 DEF CallForm
  <2>2. call \in [Callers -> R]
    <3> HIDE DEF R
    <3> QED BY <1>2, <2>1
  <2> QED BY <1>2, <2>2 DEF CallsTyped, CallForm
<1> QED BY <1>1, <1>2 DEF CallsFormed

\* One caller goes on, to a state of that form and with no completion made.
Shape(at, p, b, l) == [at |-> at, project |-> p, budgets |-> b, left |-> l, made |-> 0]
Goes(c, at, p, b, l) == call' = [call EXCEPT ![c] = Shape(at, p, b, l)]

\* Whatever a caller's call becomes, it and the others are typed as before.
LEMMA CallTyped ==
    ASSUME CallsTyped, NEW c \in Callers, NEW x, CallForm(x), call' = [call EXCEPT ![c] = x]
    PROVE  /\ CallsTyped' /\ call'[c] = x
           /\ \A d \in Callers \ {c} : call'[d] = call[d]
<1>1. call = [d \in Callers |-> call[d]] /\ \A d \in Callers : CallForm(call[d])
  BY CallsForm DEF CallsFormed
<1>2. /\ call' = [d \in Callers |-> call'[d]]
      /\ call'[c] = x
      /\ \A d \in Callers \ {c} : call'[d] = call[d]
  BY <1>1
<1>3. \A d \in Callers : CallForm(call'[d])
  BY <1>1, <1>2
<1>4. (CallsTyped <=> CallsFormed)'
  BY CallsForm, PTL
<1>5. \A d \in Callers : CallForm(call[d])'
  BY <1>3 DEF CallForm, IsSnapshot
<1> QED BY <1>2, <1>4, <1>5 DEF CallsFormed

LEMMA GoesTyped ==
    ASSUME CallsTyped, NEW c \in Callers, NEW at \in Places,
           NEW p \in Metered \cup {Nothing}, NEW b, IsSnapshot(b), NEW l \in SUBSET Scopes,
           Goes(c, at, p, b, l)
    PROVE  /\ CallsTyped' /\ call'[c] = Shape(at, p, b, l)
           /\ \A d \in Callers \ {c} : call'[d] = call[d]
<1>1. CallForm(Shape(at, p, b, l))
  BY BudgetsAssumption DEF CallForm, Shape
<1> QED BY <1>1, CallTyped DEF Goes

LEMMA MoveGoes ==
    ASSUME CallsTyped, NEW c \in Callers, NEW at, NEW b, NEW l, Move(c, at, b, l)
    PROVE  Goes(c, at, call[c].project, b, l)
<1>1. DOMAIN call = Callers
  BY CallsForm DEF CallsFormed
<1> QED BY <1>1 DEF Move, Goes, Shape

LEMMA NoCallForm ==
    /\ NoCall = Shape("idle", Nothing, NoBudgets, {})
    /\ IsSnapshot(NoBudgets) /\ DOMAIN NoBudgets = {}
<1>1. NoBudgets \in [{} -> Nat] /\ DOMAIN NoBudgets = {}
  BY DEF NoBudgets
<1> QED BY <1>1 DEF NoCall, Shape, IsSnapshot

LEMMA TypeFacts ==
    ASSUME BudgetsTypeOK
    PROVE  /\ CallsTyped
           /\ \A c \in Callers : CallForm(call[c]) /\ Home[c] \in Servers
           /\ \A e \in Editors : Home[e] \in Servers
           /\ \A p \in Servers : cache[p] = Nothing \/ IsSnapshot(cache[p])
           /\ ledger \in [0..MaxTime -> [Scopes -> Nat]] /\ now \in 0..MaxTime
           /\ high \in [Scopes -> Nat] /\ excused \subseteq Scopes
<1>1. CallsTyped
  BY DEF BudgetsTypeOK, CallsTyped, Places
<1>2. \A c \in Callers : CallForm(call[c])
  BY <1>1, CallsForm DEF CallsFormed
<1>3. \A x \in Editors \cup Callers : Home[x] \in Servers
  BY BudgetsAssumption
<1>4. ledger \in [0..MaxTime -> [Scopes -> Nat]]
  BY BudgetsAssumption DEF BudgetsTypeOK
<1> QED BY <1>1, <1>2, <1>3, <1>4 DEF BudgetsTypeOK

-----------------------------------------------------------------------------
(* The histories only grow.                                                *)

Grown ==
    /\ high' \in [Scopes -> Nat] /\ \A s \in Scopes : high[s] <= high'[s]
    /\ excused \subseteq excused' /\ excused' \subseteq Scopes

LEMMA HistoriesStay ==
    ASSUME BudgetsTypeOK, UNCHANGED <<high, excused>> PROVE Grown
BY DEF BudgetsTypeOK, Grown

LEMMA EditTyped ==
    ASSUME BudgetsTypeOK, NEW e \in Editors
    PROVE  /\ edit[e].how \in Hows /\ edit[e].scope \in Scopes /\ edit[e].value \in Nat
           /\ edit[e].limit \in Nat /\ edit[e].overtaken \in BOOLEAN
           /\ edit[e].todo \in Seq(Steps)
BY DEF BudgetsTypeOK

LEMMA CommitGrows ==
    ASSUME BudgetsTypeOK, NEW e \in Editors, Commit(e) PROVE Grown
<1> DEFINE x == edit[e]
           s == edit[e].scope
<1>1. x.value \in Nat /\ s \in Scopes
  BY EditTyped
<1>2. high \in [Scopes -> Nat] /\ excused \subseteq Scopes
  BY DEF BudgetsTypeOK
<1>3. CASE UNCHANGED <<cap, high, excused>>
  BY <1>3, HistoriesStay
<1>4. CASE ~ UNCHANGED <<cap, high, excused>>
  <2>1. /\ high' = [high EXCEPT ![s] = IF x.value > @ THEN x.value ELSE @]
        /\ excused' = IF x.value = 0 THEN excused \cup {s} ELSE excused
    BY <1>4 DEF Commit
  <2> HIDE DEF x, s
  <2> QED BY <1>1, <1>2, <2>1 DEF Grown
<1> QED BY <1>3, <1>4

LEMMA StepGrows ==
    ASSUME BudgetsTypeOK, [BudgetsNext]_budgetVars PROVE Grown
<1>1. CASE UNCHANGED budgetVars
  BY <1>1, HistoriesStay DEF budgetVars
<1>2. CASE \E e \in Editors : Commit(e)
  BY <1>2, CommitGrows
<1>3. CASE \E e \in Editors : (\E o \in Offers : Ask(e, o)) \/ Judge(e) \/ Clear(e)
  BY <1>3, HistoriesStay DEF Ask, Judge, Clear
<1>4. CASE \E c \in Callers :
             \/ \E proj \in Metered : Begin(c, proj)
             \/ \E s \in Scopes : CheckScope(c, s)
             \/ Read(c) \/ Store(c) \/ Admit(c) \/ Charge(c) \/ EndTurn(c)
  <2>1. UNCHANGED <<high, excused>>
    BY <1>4 DEF Begin, CheckScope, Read, Store, Admit, Charge, EndTurn, caps
  <2> QED BY <2>1, HistoriesStay
<1>5. CASE \E c \in Callers : ReadFails(c) \/ \E s \in Scopes : SpendUnreadable(c, s)
  <2>1. high' = high /\ (excused' = excused \/ excused' = Scopes
                         \/ \E s \in Scopes : excused' = excused \cup {s})
    BY <1>5 DEF ReadFails, SpendUnreadable, caps
  <2> QED BY <2>1 DEF BudgetsTypeOK, Grown
<1>6. CASE \E p \in Servers : LookupFails(p)
  <2>1. high' = high /\ excused' = excused \cup Units
    BY <1>6 DEF LookupFails, caps
  <2> QED BY <2>1 DEF BudgetsTypeOK, Grown, Scopes
<1>7. CASE Tick \/ \E p \in Servers : Expire(p) \/ ChainExpires(p)
  BY <1>7, HistoriesStay DEF Tick, Expire, ChainExpires, caps
<1> QED BY <1>1, <1>2, <1>3, <1>4, <1>5, <1>6, <1>7 DEF BudgetsNext

\* Fair by the histories as they are after the step.
FairNext(b, p) ==
    /\ \A s \in DOMAIN b \ excused' : b[s] \in 1..high'[s]
    /\ Whole(p) \ excused' \subseteq DOMAIN b

LEMMA FairStays ==
    ASSUME BudgetsTypeOK, Grown, NEW b, IsSnapshot(b), NEW p, Fair(b, p)
    PROVE  FairNext(b, p)
<1>1. DOMAIN b \subseteq Scopes
  BY DEF IsSnapshot
<1>2. ASSUME NEW s \in DOMAIN b \ excused' PROVE b[s] \in 1..high'[s]
  <2>1. s \in Scopes /\ s \notin excused /\ high[s] \in Nat /\ high'[s] \in Nat /\ high[s] <= high'[s]
    BY <1>1, <1>2 DEF Grown, BudgetsTypeOK
  <2>2. b[s] \in 1..high[s]
    BY <1>2, <2>1 DEF Fair
  <2> QED BY <2>1, <2>2
<1> QED BY <1>2 DEF Fair, FairNext, Grown

-----------------------------------------------------------------------------
(* What a caller's step does to its call.                                  *)

ShapedNext(x) ==
    /\ x.at # "idle" => x.project \in Metered
    /\ x.at \in {"store", "check"} =>
          FairNext(x.budgets, x.project) /\ x.left \subseteq DOMAIN x.budgets
    /\ x.at = "store" => x.left = DOMAIN x.budgets
    /\ x.at \in {"idle", "read", "run"} => x.left = {}
    /\ x.at # "run" => x.made = 0

\* The call keeps its shape, and passes a scope only with spend left.
CallStep(c) ==
    /\ CallsTyped' /\ \A d \in Callers \ {c} : call'[d] = call[d]
    /\ ShapedNext(call'[c])
    /\ \A s \in Scopes \ excused' :
          c \in Passed(s)' =>
             (c \in Passed(s) /\ call[c].made <= call'[c].made) \/ Spent(s) < high[s]

LEMMA Known ==
    ASSUME BudgetsTypeOK, CallsAreFair, Grown, NEW c \in Callers
    PROVE  /\ CallForm(call[c])
           /\ ShapedNext(call[c])
<1>1. CallForm(call[c])
  BY TypeFacts
<1>2. IsSnapshot(call[c].budgets)
  BY <1>1 DEF CallForm
<1> QED BY <1>1, <1>2, FairStays DEF CallsAreFair, ShapedNext

LEMMA CallStepForm ==
    ASSUME CallsTyped, NEW c \in Callers, NEW at \in Places,
           NEW p \in Metered \cup {Nothing}, NEW b, IsSnapshot(b), NEW l \in SUBSET Scopes,
           Goes(c, at, p, b, l), ShapedNext(Shape(at, p, b, l)),
           \A s \in Scopes \ excused' :
              at \in {"check", "run"} /\ s \in Whole(p) \ l =>
                 (c \in Passed(s) /\ call[c].made = 0) \/ Spent(s) < high[s]
    PROVE  CallStep(c)
<1> DEFINE x == Shape(at, p, b, l)
<1>1. CallsTyped' /\ call'[c] = x /\ \A d \in Callers \ {c} : call'[d] = call[d]
  BY GoesTyped
<1>2. ASSUME NEW s \in Scopes \ excused', c \in Passed(s)'
      PROVE  (c \in Passed(s) /\ call[c].made <= call'[c].made) \/ Spent(s) < high[s]
  <2>1. at \in {"check", "run"} /\ s \in Whole(p) \ l
    BY <1>1, <1>2 DEF Passed, Whole, Shape
  <2>2. x.made = 0
    BY DEF Shape
  <2> QED BY <1>1, <2>1, <2>2
<1> QED BY <1>1, <1>2 DEF CallStep

LEMMA EndsCall ==
    ASSUME CallsTyped, NEW c \in Callers, call' = [call EXCEPT ![c] = NoCall]
    PROVE  CallStep(c)
<1>1. Goes(c, "idle", Nothing, NoBudgets, {}) /\ IsSnapshot(NoBudgets)
  BY NoCallForm DEF Goes
<1>2. ShapedNext(Shape("idle", Nothing, NoBudgets, {}))
  BY DEF ShapedNext, Shape
<1> QED BY <1>1, <1>2, CallStepForm DEF Places

LEMMA BeginStep ==
    ASSUME BudgetsTypeOK, CachesAreFair, Grown, NEW c \in Callers, NEW proj \in Metered, Begin(c, proj)
    PROVE  CallStep(c)
<1> DEFINE b == cache[Home[c]]
<1>0. CallsTyped /\ excused' = excused /\ call[c].at = "idle"
  BY TypeFacts DEF Begin
<1>1. CASE b = Nothing
  <2>1. Goes(c, "read", proj, NoBudgets, {}) /\ IsSnapshot(NoBudgets)
    BY <1>1, NoCallForm DEF Goes, Shape, Begin
  <2>2. ShapedNext(Shape("read", proj, NoBudgets, {}))
    BY DEF ShapedNext, Shape
  <2> QED BY <1>0, <2>1, <2>2, CallStepForm DEF Places
<1>2. CASE b # Nothing
  <2>1. IsSnapshot(b) /\ Fair(b, proj)
    BY <1>2, TypeFacts DEF CachesAreFair
  <2>2. DOMAIN b \in SUBSET Scopes
    BY <2>1 DEF IsSnapshot
  <2>3. FairNext(b, proj)
    BY <2>1, FairStays
  <2>4. Goes(c, "check", proj, b, DOMAIN b)
    BY <1>2 DEF Goes, Shape, Begin
  <2> HIDE DEF b
  <2>5. ShapedNext(Shape("check", proj, b, DOMAIN b))
    BY <2>3 DEF ShapedNext, Shape
  <2>6. \A s \in Scopes \ excused' : s \notin Whole(proj) \ DOMAIN b
    BY <2>3 DEF FairNext
  <2> QED BY <1>0, <2>1, <2>2, <2>4, <2>5, <2>6, CallStepForm DEF Places
<1> QED BY <1>1, <1>2

LEMMA ReadStep ==
    ASSUME BudgetsTypeOK, CallsAreFair, CapsAreKnown, ShortIsExcused, Grown,
           NEW c \in Callers, Read(c)
    PROVE  CallStep(c)
<1> DEFINE S == ChainOf(call[c].project, Home[c])
           b == [s \in S |-> cap[s]]
<1>1. /\ CallsTyped /\ excused' = excused /\ high' = high
      /\ call[c].project \in Metered /\ call[c].project \in Projects
  BY TypeFacts, BudgetsAssumption DEF Read, CallsAreFair, caps
<1>2. UnitOf[call[c].project] \in Units /\ Home[c] \in Servers
  BY <1>1, TypeFacts, BudgetsAssumption
<1>3. S \in SUBSET Scopes /\ \A s \in S : cap[s] \in Nat
  BY <1>1, <1>2 DEF ChainOf, Scopes, BudgetsTypeOK
<1>4. IsSnapshot(b) /\ DOMAIN b = S
  BY <1>3 DEF IsSnapshot
<1>5. FairNext(b, call[c].project)
  <2>1. \A s \in DOMAIN b \ excused : b[s] \in 1..high[s]
    BY <1>3, <1>4 DEF CapsAreKnown
  <2>2. Whole(call[c].project) \ excused \subseteq S
    BY <1>2 DEF Whole, ChainOf, ShortIsExcused
  <2> QED BY <1>1, <1>4, <2>1, <2>2 DEF FairNext
<1>6. Goes(c, "store", call[c].project, b, S)
  BY <1>1, MoveGoes DEF Read
<1> HIDE DEF b, S
<1>7. ShapedNext(Shape("store", call[c].project, b, S))
  BY <1>1, <1>4, <1>5 DEF ShapedNext, Shape
<1> QED BY <1>1, <1>3, <1>4, <1>6, <1>7, CallStepForm DEF Places

LEMMA StoreStep ==
    ASSUME BudgetsTypeOK, CallsAreFair, Grown, NEW c \in Callers, Store(c)
    PROVE  CallStep(c)
<1> DEFINE b == call[c].budgets
           l == call[c].left
           p == call[c].project
<1>1. /\ CallsTyped /\ excused' = excused /\ IsSnapshot(b) /\ l \in SUBSET Scopes
      /\ p \in Metered /\ FairNext(b, p) /\ l = DOMAIN b
  BY TypeFacts, Known DEF Store, CallsAreFair, CallForm, ShapedNext
<1>2. Goes(c, "check", p, b, l)
  BY <1>1, MoveGoes DEF Store
<1> HIDE DEF b, l, p
<1>3. ShapedNext(Shape("check", p, b, l))
  BY <1>1 DEF ShapedNext, Shape
<1>4. \A s \in Scopes \ excused' : s \notin Whole(p) \ l
  BY <1>1 DEF FairNext
<1> QED BY <1>1, <1>2, <1>3, <1>4, CallStepForm DEF Places

LEMMA ReadFailsStep ==
    ASSUME BudgetsTypeOK, CallsAreFair, NEW c \in Callers, ReadFails(c)
    PROVE  CallStep(c)
<1>1. CallsTyped /\ call[c].project \in Metered /\ excused' = Scopes
  BY TypeFacts DEF ReadFails, CallsAreFair
<1>2. Goes(c, "run", call[c].project, NoBudgets, {}) /\ IsSnapshot(NoBudgets)
  BY <1>1, MoveGoes, NoCallForm DEF ReadFails
<1>3. ShapedNext(Shape("run", call[c].project, NoBudgets, {}))
  BY <1>1 DEF ShapedNext, Shape
<1> QED BY <1>1, <1>2, <1>3, CallStepForm DEF Places

\* A scope is dropped from the list of a call that is being checked.
LEMMA PassesStep ==
    ASSUME BudgetsTypeOK, CallsAreFair, Grown, NEW c \in Callers, NEW s \in call[c].left,
           call[c].at = "check", Move(c, "check", call[c].budgets, call[c].left \ {s}),
           s \in excused' \/ Spent(s) < high[s]
    PROVE  CallStep(c)
<1> DEFINE b == call[c].budgets
           l == call[c].left
           p == call[c].project
<1>1. /\ CallsTyped /\ IsSnapshot(b) /\ l \in SUBSET Scopes
      /\ p \in Metered /\ FairNext(b, p) /\ l \subseteq DOMAIN b
  BY TypeFacts, Known DEF CallsAreFair, CallForm, ShapedNext
<1>2. Goes(c, "check", p, b, l \ {s})
  BY <1>1, MoveGoes
<1>3. call[c].made = 0 /\ \A t \in Scopes : t \in Whole(p) \ l => c \in Passed(t)
  BY DEF Passed, CallsAreFair
<1>4. l \ {s} \in SUBSET Scopes
  BY <1>1
<1> HIDE DEF b, l, p
<1>5. ShapedNext(Shape("check", p, b, l \ {s}))
  BY <1>1 DEF ShapedNext, Shape
<1>6. \A t \in Scopes \ excused' : t \in Whole(p) \ (l \ {s}) =>
         (c \in Passed(t) /\ call[c].made = 0) \/ Spent(t) < high[t]
  BY <1>3
<1> QED BY <1>1, <1>2, <1>4, <1>5, <1>6, CallStepForm DEF Places

LEMMA CheckScopeStep ==
    ASSUME BudgetsTypeOK, CallsAreFair, Grown, NEW c \in Callers, NEW s \in Scopes, CheckScope(c, s)
    PROVE  CallStep(c)
<1> DEFINE budget == call[c].budgets[s]
<1>1. /\ call[c].at = "check" /\ s \in call[c].left /\ excused' = excused /\ CallsTyped
      /\ high \in [Scopes -> Nat] /\ Spent(s) \in Nat
  BY TypeFacts, SpentType DEF CheckScope
<1>2. CASE budget > 0 /\ (Outside(s) \/ Exhausted(s, budget))
  BY <1>1, <1>2, EndsCall DEF CheckScope
<1>3. CASE ~ (budget > 0 /\ (Outside(s) \/ Exhausted(s, budget)))
  <2>1. Move(c, "check", call[c].budgets, call[c].left \ {s})
    BY <1>3 DEF CheckScope
  <2>2. ASSUME s \notin excused PROVE Spent(s) < high[s]
    <3>1. budget \in 1..high[s]
      BY <1>1, <2>2 DEF CallsAreFair, Fair
    <3>2. ~ Exhausted(s, budget)
      BY <1>1, <1>3, <3>1
    <3> HIDE DEF budget
    <3> QED BY <1>1, <3>1, <3>2 DEF Exhausted
  <2> QED BY <1>1, <2>1, <2>2, PassesStep
<1> QED BY <1>2, <1>3

LEMMA SpendUnreadableStep ==
    ASSUME BudgetsTypeOK, CallsAreFair, Grown, NEW c \in Callers, NEW s \in Scopes,
           SpendUnreadable(c, s)
    PROVE  CallStep(c)
<1>1. call[c].at = "check" /\ s \in call[c].left /\ CallsTyped
  BY TypeFacts DEF SpendUnreadable
<1>2. CASE FailClosed
  BY <1>1, <1>2, EndsCall DEF SpendUnreadable
<1>3. CASE ~ FailClosed
  BY <1>1, <1>3, PassesStep DEF SpendUnreadable
<1> QED BY <1>2, <1>3

LEMMA AdmitStep ==
    ASSUME BudgetsTypeOK, CallsAreFair, NEW c \in Callers, Admit(c)
    PROVE  CallStep(c)
<1> DEFINE p == call[c].project
<1>1. CallsTyped /\ p \in Metered /\ call[c].at = "check" /\ call[c].left = {}
  BY TypeFacts DEF Admit, CallsAreFair
<1>2. Goes(c, "run", p, NoBudgets, {}) /\ IsSnapshot(NoBudgets)
  BY <1>1, MoveGoes, NoCallForm DEF Admit
<1>3. call[c].made = 0 /\ \A t \in Scopes : t \in Whole(p) => c \in Passed(t)
  BY <1>1 DEF Passed, Admit, CallsAreFair
<1> HIDE DEF p
<1>4. ShapedNext(Shape("run", p, NoBudgets, {}))
  BY <1>1 DEF ShapedNext, Shape
<1> QED BY <1>1, <1>2, <1>3, <1>4, CallStepForm DEF Places

\* A turn in flight is charged for one more completion.
LEMMA ChargeStep ==
    ASSUME BudgetsTypeOK, CallsAreFair, Grown, NEW c \in Callers, Charge(c)
    PROVE  /\ CallStep(c) /\ call[c].at = "run"
           /\ call'[c] = [call[c] EXCEPT !.made = @ + 1]
           /\ call[c].made \in 0..PerTurn /\ call[c].made < PerTurn
<1> DEFINE x == [call[c] EXCEPT !.made = @ + 1]
<1>1. /\ CallsTyped /\ CallForm(call[c]) /\ ShapedNext(call[c])
      /\ call[c].at = "run" /\ call[c].made < PerTurn
  BY TypeFacts, Known DEF Charge
<1>2. call' = [call EXCEPT ![c] = x]
  <2>1. DOMAIN call = Callers
    BY <1>1, CallsForm DEF CallsFormed
  <2> QED BY <2>1 DEF Charge
<1>3. /\ x.at = call[c].at /\ x.project = call[c].project /\ x.budgets = call[c].budgets
      /\ x.left = call[c].left /\ x.made = call[c].made + 1
      /\ x = [at |-> x.at, project |-> x.project, budgets |-> x.budgets, left |-> x.left,
              made |-> x.made]
  BY <1>1 DEF CallForm
<1>4. call[c].made \in 0..PerTurn /\ PerTurn \in Nat
  BY <1>1, BudgetsAssumption DEF CallForm
<1> HIDE DEF x
<1>5. CallForm(x)
  <2>1. x.made \in 0..PerTurn
    BY <1>1, <1>3, <1>4
  <2> QED BY <1>1, <1>3, <2>1 DEF CallForm
<1>6. ShapedNext(x)
  BY <1>1, <1>3 DEF ShapedNext
<1>7. CallsTyped' /\ call'[c] = x /\ \A d \in Callers \ {c} : call'[d] = call[d]
  BY <1>1, <1>2, <1>5, CallTyped
<1>8. ASSUME NEW s, c \in Passed(s)' PROVE c \in Passed(s) /\ call[c].made <= call'[c].made
  <2>1. c \in Passed(s)
    BY <1>1, <1>3, <1>7, <1>8 DEF Passed, Whole
  <2> QED BY <1>3, <1>4, <1>7, <2>1
<1> QED BY <1>1, <1>4, <1>6, <1>7, <1>8 DEF CallStep, x

LEMMA CallerSteps ==
    ASSUME BudgetsInv, Grown, NEW c \in Callers,
           \/ \E proj \in Metered : Begin(c, proj)
           \/ \E s \in Scopes : CheckScope(c, s) \/ SpendUnreadable(c, s)
           \/ Read(c) \/ ReadFails(c) \/ Store(c) \/ Admit(c) \/ Charge(c) \/ EndTurn(c)
    PROVE  CallStep(c)
<1>1. CASE Charge(c) \/ EndTurn(c)
  BY <1>1, TypeFacts, ChargeStep, EndsCall DEF BudgetsInv, EndTurn
<1>2. CASE ~ (Charge(c) \/ EndTurn(c))
  BY <1>2, BeginStep, CheckScopeStep, SpendUnreadableStep, ReadStep, ReadFailsStep,
     StoreStep, AdmitStep DEF BudgetsInv
<1> QED BY <1>1, <1>2

\* Every step of the model, told apart by whether a call changes.
StepKinds ==
    \/ call' = call
    \/ \E c \in Callers : CallStep(c)

LEMMA CallsStepOrStay ==
    ASSUME BudgetsInv, [BudgetsNext]_budgetVars PROVE StepKinds
<1>1. Grown /\ BudgetsTypeOK
  BY StepGrows DEF BudgetsInv
<1>2. CASE \E c \in Callers :
             \/ \E proj \in Metered : Begin(c, proj)
             \/ \E s \in Scopes : CheckScope(c, s) \/ SpendUnreadable(c, s)
             \/ Read(c) \/ ReadFails(c) \/ Store(c) \/ Admit(c) \/ Charge(c) \/ EndTurn(c)
  BY <1>1, <1>2, CallerSteps DEF StepKinds
<1>3. CASE \E e \in Editors : (\E o \in Offers : Ask(e, o)) \/ Judge(e) \/ Commit(e) \/ Clear(e)
  BY <1>3 DEF Ask, Judge, Commit, Clear, StepKinds
<1>4. CASE Tick \/ \E p \in Servers : LookupFails(p) \/ Expire(p) \/ ChainExpires(p)
  BY <1>4 DEF Tick, LookupFails, Expire, ChainExpires, StepKinds
<1>5. CASE UNCHANGED budgetVars
  BY <1>5 DEF budgetVars, StepKinds
<1> QED BY <1>2, <1>3, <1>4, <1>5 DEF BudgetsNext

LEMMA CallsStayFair ==
    ASSUME BudgetsInv, Grown, StepKinds PROVE CallsTyped' /\ CallsAreFair'
<1>1. BudgetsTypeOK /\ CallsAreFair /\ CallsTyped
  BY TypeFacts DEF BudgetsInv
<1>2. \A c \in Callers : ShapedNext(call[c])
  BY <1>1, Known
<1>3. CallsTyped' /\ \A c \in Callers : ShapedNext(call'[c])
  <2>1. CASE call' = call
    BY <1>1, <1>2, <2>1 DEF CallsTyped
  <2>2. CASE \E c \in Callers : CallStep(c)
    BY <1>2, <2>2 DEF CallStep
  <2> QED BY <2>1, <2>2 DEF StepKinds
<1> QED BY <1>3 DEF CallsAreFair, ShapedNext, FairNext, Fair, Whole

LEMMA CachesStayFair ==
    ASSUME BudgetsInv, [BudgetsNext]_budgetVars
    PROVE  /\ DOMAIN cache' = Servers
           /\ \A p \in Servers : cache'[p] = Nothing \/ IsSnapshot(cache'[p])
           /\ CachesAreFair'
<1>1. Grown /\ BudgetsTypeOK /\ CachesAreFair /\ DOMAIN cache = Servers
  BY StepGrows DEF BudgetsInv, BudgetsTypeOK
<1>2. PICK q \in Projects : Metered = {q}
  BY OneMetered
<1>3. /\ DOMAIN cache' = Servers
      /\ \A p \in Servers :
            \/ cache'[p] = cache[p]
            \/ cache'[p] = Nothing
            \/ \E c \in Callers : call[c].at = "store" /\ cache'[p] = call[c].budgets
  <2>1. CASE \E c \in Callers : Store(c)
    <3>1. PICK c \in Callers : Store(c)
      BY <2>1
    <3>2. cache' = [cache EXCEPT ![Home[c]] = call[c].budgets] /\ call[c].at = "store"
      BY <3>1 DEF Store
    <3> QED BY <1>1, <3>2
  <2>2. CASE \E p \in Servers : cache' = [cache EXCEPT ![p] = Nothing]
    BY <1>1, <2>2
  <2>3. CASE cache' = cache
    BY <1>1, <2>3
  <2>4. CASE \E e \in Editors : Clear(e)
    BY <2>2, <2>4, <1>1, TypeFacts DEF Clear
  <2>5. CASE \E p \in Servers : Expire(p)
    BY <2>2, <2>5 DEF Expire
  <2>6. CASE \E e \in Editors : (\E o \in Offers : Ask(e, o)) \/ Judge(e) \/ Commit(e)
    BY <2>3, <2>6 DEF Ask, Judge, Commit
  <2>7. CASE \E c \in Callers :
             \/ \E proj \in Metered : Begin(c, proj)
             \/ \E s \in Scopes : CheckScope(c, s) \/ SpendUnreadable(c, s)
             \/ Read(c) \/ ReadFails(c) \/ Admit(c) \/ Charge(c) \/ EndTurn(c)
    BY <2>3, <2>7 DEF Begin, CheckScope, SpendUnreadable, Read, ReadFails, Admit, Charge, EndTurn
  <2>8. CASE Tick \/ UNCHANGED budgetVars \/ \E p \in Servers : LookupFails(p) \/ ChainExpires(p)
    BY <2>3, <2>8 DEF Tick, budgetVars, LookupFails, ChainExpires
  <2> QED BY <2>1, <2>4, <2>5, <2>6, <2>7, <2>8 DEF BudgetsNext
<1>4. \A c \in Callers : call[c].at = "store" =>
          IsSnapshot(call[c].budgets) /\ FairNext(call[c].budgets, q)
  BY <1>1, <1>2, Known DEF BudgetsInv, CallForm, ShapedNext
<1>5. \A p \in Servers : cache[p] # Nothing => IsSnapshot(cache[p]) /\ FairNext(cache[p], q)
  BY <1>1, <1>2, TypeFacts, FairStays DEF CachesAreFair
<1>6. \A p \in Servers : cache'[p] # Nothing => IsSnapshot(cache'[p]) /\ FairNext(cache'[p], q)
  BY <1>3, <1>4, <1>5
<1>7. CachesAreFair'
  <2> SUFFICES ASSUME NEW p \in Servers, cache'[p] # Nothing, NEW r \in Metered
               PROVE  Fair(cache[p], r)'
    BY DEF CachesAreFair
  <2>1. FairNext(cache'[p], r)
    BY <1>2, <1>6
  <2> QED BY <2>1 DEF FairNext, Fair, Whole
<1>8. \A p \in Servers : cache'[p] = Nothing \/ IsSnapshot(cache'[p])
  BY <1>6
<1>9. DOMAIN cache' = Servers
  BY <1>3
<1> QED BY <1>7, <1>8, <1>9

LEMMA ShortStaysExcused ==
    ASSUME BudgetsInv, [BudgetsNext]_budgetVars
    PROVE  ShortIsExcused' /\ chain' \in [Servers -> {"full", "short"}]
<1>1. Grown /\ BudgetsTypeOK /\ ShortIsExcused
  BY StepGrows DEF BudgetsInv
<1>2. CASE \E p \in Servers : LookupFails(p)
  <2>1. PICK p \in Servers : LookupFails(p)
    BY <1>2
  <2>2. Units \subseteq excused' /\ chain' = [chain EXCEPT ![p] = "short"]
    BY <2>1 DEF LookupFails
  <2> QED BY <1>1, <2>2 DEF ShortIsExcused, BudgetsTypeOK
<1>3. CASE \E p \in Servers : ChainExpires(p)
  <2>1. PICK p \in Servers : ChainExpires(p)
    BY <1>3
  <2>2. chain' = [chain EXCEPT ![p] = "full"] /\ chain[p] = "short"
    BY <2>1 DEF ChainExpires
  <2> QED BY <1>1, <2>2 DEF ShortIsExcused, BudgetsTypeOK, Grown
<1>4. CASE chain' = chain
  BY <1>1, <1>4 DEF ShortIsExcused, BudgetsTypeOK, Grown
<1>5. CASE \E c \in Callers :
             \/ \E proj \in Metered : Begin(c, proj)
             \/ \E s \in Scopes : CheckScope(c, s) \/ SpendUnreadable(c, s)
             \/ Read(c) \/ ReadFails(c) \/ Store(c) \/ Admit(c) \/ Charge(c) \/ EndTurn(c)
  BY <1>4, <1>5 DEF Begin, CheckScope, SpendUnreadable, Read, ReadFails, Store, Admit, Charge, EndTurn
<1>6. CASE \E e \in Editors : (\E o \in Offers : Ask(e, o)) \/ Judge(e) \/ Commit(e) \/ Clear(e)
  BY <1>4, <1>6 DEF Ask, Judge, Commit, Clear
<1>7. CASE Tick \/ UNCHANGED budgetVars \/ \E p \in Servers : Expire(p)
  BY <1>4, <1>7 DEF Tick, budgetVars, Expire
<1> QED BY <1>2, <1>3, <1>5, <1>6, <1>7 DEF BudgetsNext

-----------------------------------------------------------------------------
(* The bounds on what is spent.                                            *)

LEMMA CallersFinite ==
    ASSUME NEW S \in SUBSET Callers
    PROVE  /\ IsFiniteSet(S) /\ Cardinality(S) \in Nat
           /\ Cardinality(S) <= Cardinality(Callers) /\ Cardinality(Callers) \in Nat
BY BudgetsAssumption, FS_Subset, FS_CardinalityType

LEMMA LedgerStaysOrCharge ==
    ASSUME [BudgetsNext]_budgetVars
    PROVE  ledger' = ledger \/ \E c \in Callers : Charge(c)
<1>1. CASE \E c \in Callers :
             \/ \E proj \in Metered : Begin(c, proj)
             \/ \E s \in Scopes : CheckScope(c, s) \/ SpendUnreadable(c, s)
             \/ Read(c) \/ ReadFails(c) \/ Store(c) \/ Admit(c) \/ EndTurn(c)
  BY <1>1 DEF Begin, CheckScope, SpendUnreadable, Read, ReadFails, Store, Admit, EndTurn
<1>2. CASE \E e \in Editors : (\E o \in Offers : Ask(e, o)) \/ Judge(e) \/ Commit(e) \/ Clear(e)
  BY <1>2 DEF Ask, Judge, Commit, Clear
<1>3. CASE Tick \/ UNCHANGED budgetVars \/ \E p \in Servers : LookupFails(p) \/ Expire(p) \/ ChainExpires(p)
  BY <1>3 DEF Tick, budgetVars, LookupFails, Expire, ChainExpires
<1> QED BY <1>1, <1>2, <1>3 DEF BudgetsNext

\* The completions that are still to come are finitely many.
LEMMA OwedFinite ==
    ASSUME NEW s
    PROVE  /\ IsFiniteSet(Callers \X (1..PerTurn))
           /\ Cardinality(Callers \X (1..PerTurn)) = PerTurn * Cardinality(Callers)
           /\ PerTurn * Cardinality(Callers) \in Nat
           /\ \A S \in SUBSET (Callers \X (1..PerTurn)) :
                 /\ IsFiniteSet(S) /\ Cardinality(S) \in Nat
                 /\ Cardinality(S) <= PerTurn * Cardinality(Callers)
           /\ Owed(s) \subseteq Callers \X (1..PerTurn)
<1> DEFINE D == Callers \X (1..PerTurn)
<1>1. PerTurn \in Nat /\ IsFiniteSet(Callers) /\ Cardinality(Callers) \in Nat
  BY BudgetsAssumption, CallersFinite
<1>2. IsFiniteSet(1..PerTurn) /\ Cardinality(1..PerTurn) = PerTurn
  BY <1>1, FS_Interval
<1>3. IsFiniteSet(D) /\ Cardinality(D) = Cardinality(Callers) * Cardinality(1..PerTurn)
  BY <1>1, <1>2, FS_Product
<1>4. Cardinality(D) = PerTurn * Cardinality(Callers)
  BY <1>1, <1>2, <1>3
<1>5. Owed(s) \subseteq D
  BY DEF Owed
<1> HIDE DEF D
<1>6. \A S \in SUBSET D : IsFiniteSet(S) /\ Cardinality(S) \in Nat /\ Cardinality(S) <= Cardinality(D)
  BY <1>3, FS_Subset, FS_CardinalityType
<1>7. Cardinality(D) \in Nat
  BY <1>3, FS_CardinalityType
<1> QED BY <1>3, <1>4, <1>5, <1>6, <1>7 DEF D

\* A charge takes a completion from those to come and adds its cost.
LEMMA ChargePays ==
    ASSUME BudgetsTypeOK, CallsAreFair, Grown, NEW c \in Callers, Charge(c), NEW s \in Scopes
    PROVE  \/ Spent(s)' = Spent(s) /\ Owed(s)' \subseteq Owed(s)
           \/ /\ Spent(s)' = Spent(s) + 1
              /\ \E d \in Owed(s) : Owed(s)' \subseteq Owed(s) \ {d}
<1> DEFINE S == ChainOf(call[c].project, Home[c])
           d == <<c, call[c].made + 1>>
<1>1. /\ CallStep(c) /\ call[c].at = "run" /\ call[c].left = {}
      /\ call'[c] = [call[c] EXCEPT !.made = @ + 1]
      /\ call[c].made \in 0..PerTurn /\ call[c].made < PerTurn
  BY ChargeStep DEF CallsAreFair
<1>2. PerTurn \in Nat /\ CallForm(call[c])
  BY BudgetsAssumption, TypeFacts
<1>3. /\ call'[c].made = call[c].made + 1 /\ call'[c].at = call[c].at
      /\ call'[c].project = call[c].project /\ call'[c].left = call[c].left
      /\ \A e \in Callers \ {c} : call'[e] = call[e]
  BY <1>1, <1>2 DEF CallForm, CallStep
<1>4. Passed(s)' = Passed(s)
  BY <1>3 DEF Passed, Whole
<1>5. Owed(s)' \subseteq Owed(s) \ {d}
  <2> SUFFICES ASSUME NEW e \in Callers, NEW i \in 1..PerTurn,
                      e \in Passed(s)', i > call'[e].made
               PROVE  <<e, i>> \in Owed(s) \ {d}
    BY DEF Owed
  <2>1. CASE e = c
    <3>1. call[c].made \in Nat /\ i \in Nat /\ i > call[c].made + 1
      <4>1. call[c].made \in Nat /\ i \in Nat
        BY <1>1, <1>2
      <4>2. call'[e].made = call[c].made + 1
        BY <1>3, <2>1
      <4> QED BY <4>1, <4>2
    <3>2. i > call[c].made /\ i # call[c].made + 1
      BY <3>1
    <3> QED BY <1>4, <2>1, <3>2 DEF Owed
  <2>2. CASE e # c
    BY <1>3, <1>4, <2>2 DEF Owed
  <2> QED BY <2>1, <2>2
<1>6. S \subseteq Whole(call[c].project)
  BY DEF ChainOf, Whole
<1>7. s \in S => d \in Owed(s)
  <2>1. s \in S => c \in Passed(s)
    BY <1>1, <1>6 DEF Passed
  <2>2. call[c].made + 1 \in 1..PerTurn /\ call[c].made + 1 > call[c].made
    BY <1>1, <1>2
  <2> QED BY <2>1, <2>2 DEF Owed
<1>8. ledger' = [ledger EXCEPT ![now] =
                   [t \in Scopes |-> IF t \in S THEN @[t] + 1 ELSE @[t]]]
  BY DEF Charge
<1>9. Spent(s)' = IF s \in S THEN Spent(s) + 1 ELSE Spent(s)
  <2> HIDE DEF S
  <2> QED BY <1>8, TypeFacts, SpentAfterCharge
<1> QED BY <1>5, <1>7, <1>9

LEMMA PassesStayBounded ==
    ASSUME BudgetsInv, [BudgetsNext]_budgetVars PROVE PassesAreBounded'
<1> SUFFICES ASSUME NEW s \in Scopes \ excused'
             PROVE  Spent(s)' + Cardinality(Owed(s)') + 1
                       <= high'[s] + PerTurn * Cardinality(Callers)
  BY DEF PassesAreBounded
<1> DEFINE N == PerTurn * Cardinality(Callers)
           n == Cardinality(Owed(s))
           m == Cardinality(Owed(s)')
<1>1. Grown /\ BudgetsTypeOK /\ CallsAreFair /\ StepKinds
  BY StepGrows, CallsStepOrStay DEF BudgetsInv
<1>2. /\ Spent(s) \in Nat /\ high[s] \in Nat /\ high'[s] \in Nat /\ high[s] <= high'[s]
      /\ s \in Scopes \ excused
  BY <1>1, TypeFacts, SpentType DEF Grown
<1>3. Owed(s)' \subseteq Callers \X (1..PerTurn) /\ IsFiniteSet(Owed(s))
  BY OwedFinite DEF Owed
<1>4. n \in Nat /\ m \in Nat /\ N \in Nat /\ m <= N
  BY <1>3, OwedFinite
<1>5. Spent(s) + n + 1 <= high[s] + N
  BY <1>2 DEF BudgetsInv, PassesAreBounded
<1>6. Owed(s)' \subseteq Owed(s) => m <= n
  BY <1>3, FS_Subset
<1>7. CASE \E c \in Callers : Charge(c)
  <2>1. PICK c \in Callers : Charge(c)
    BY <1>7
  <2>2. CASE Spent(s)' = Spent(s) /\ Owed(s)' \subseteq Owed(s)
    <3> HIDE DEF n, m, N
    <3> QED BY <1>2, <1>4, <1>5, <1>6, <2>2 DEF m, N
  <2>3. CASE Spent(s)' = Spent(s) + 1 /\ \E d \in Owed(s) : Owed(s)' \subseteq Owed(s) \ {d}
    <3>1. PICK d \in Owed(s) : Owed(s)' \subseteq Owed(s) \ {d}
      BY <2>3
    <3>2. Cardinality(Owed(s) \ {d}) = n - 1 /\ IsFiniteSet(Owed(s) \ {d})
      BY <1>3, FS_RemoveElement
    <3>3. m <= n - 1
      BY <3>1, <3>2, FS_Subset
    <3> HIDE DEF n, m, N
    <3> QED BY <1>2, <1>4, <1>5, <2>3, <3>3 DEF m, N
  <2> QED BY <1>1, <2>1, <2>2, <2>3, ChargePays
<1>8. CASE ledger' = ledger
  <2>1. Spent(s)' = Spent(s)
    BY <1>8 DEF Spent
  <2>2. Owed(s)' \subseteq Owed(s) \/ Spent(s) < high[s]
    <3>1. CASE call' = call
      BY <3>1 DEF Owed, Passed, Whole
    <3>2. CASE \E c \in Callers : CallStep(c)
      <4>1. PICK c \in Callers : CallStep(c)
        BY <3>2
      <4>2. ASSUME ~ Spent(s) < high[s], NEW e \in Callers, NEW i \in 1..PerTurn,
                   e \in Passed(s)', i > call'[e].made
            PROVE  <<e, i>> \in Owed(s)
        <5>1. call[e].made \in Nat /\ (e # c => call'[e] = call[e])
          <6>1. PerTurn \in Nat /\ CallForm(call[e])
            BY <1>1, TypeFacts, BudgetsAssumption
          <6> QED BY <4>1, <6>1 DEF CallStep, CallForm
        <5>2. CASE e # c
          BY <4>2, <5>1, <5>2 DEF Owed, Passed, Whole
        <5>3. CASE e = c
          <6>1. e \in Passed(s) /\ call[e].made <= call'[e].made
            BY <4>1, <4>2, <5>3 DEF CallStep
          <6>2. call'[e].made \in Nat
            <7>1. CallForm(call'[e])
              <8>1. (CallsTyped <=> CallsFormed)'
                BY CallsForm, PTL
              <8>2. CallForm(call[e])'
                BY <4>1, <8>1 DEF CallStep, CallsFormed
              <8> QED BY <8>2 DEF CallForm, IsSnapshot
            <7> QED BY <7>1, BudgetsAssumption DEF CallForm
          <6> QED BY <4>2, <5>1, <6>1, <6>2 DEF Owed
        <5> QED BY <5>2, <5>3
      <4> QED BY <4>2 DEF Owed
    <3> QED BY <1>1, <3>1, <3>2 DEF StepKinds
  <2>3. CASE Owed(s)' \subseteq Owed(s)
    <3> HIDE DEF n, m, N
    <3> QED BY <1>2, <1>4, <1>5, <1>6, <2>1, <2>3 DEF m, N
  <2>4. CASE Spent(s) < high[s]
    <3> HIDE DEF n, m, N
    <3> QED BY <1>2, <1>4, <2>1, <2>4 DEF m, N
  <2> QED BY <2>2, <2>3, <2>4
<1> QED BY <1>7, <1>8, LedgerStaysOrCharge

LEMMA Counters ==
    ASSUME BudgetsTypeOK
    PROVE  requests \in Nat /\ requests <= MaxRequests /\ MaxRequests \in Nat
<1>1. MaxRequests \in Nat
  BY BudgetsAssumption
<1>2. requests \in 0..MaxRequests
  BY DEF BudgetsTypeOK
<1> QED BY <1>1, <1>2

-----------------------------------------------------------------------------
(* The types, and what an edit does.                                       *)

\* What the caps and the edits are made of.
EditsTyped ==
    /\ cap \in [Scopes -> Nat] /\ present \subseteq Scopes
    /\ archived \subseteq Projects \cap present
    /\ edit \in [Editors -> [how : Hows, scope : Scopes, value : Nat, limit : Nat,
                             overtaken : BOOLEAN, todo : Seq(Steps)]]
    /\ lax \in BOOLEAN

LEMMA ParentIsScope ==
    ASSUME NEW s \in Scopes
    PROVE  /\ Parent(s) \in {Org} \cup Units /\ Parent(s) \in Scopes
           /\ (s # Org => s \in Children(Parent(s)) /\ Parent(s) # s)
           /\ \A u \in {Org} \cup Units : s \in Children(u) => s # Org /\ Parent(s) = u
BY BudgetsAssumption DEF Parent, Scopes, Children

LEMMA NoEditForm ==
    /\ NoEdit.how = "set" /\ NoEdit.todo = <<>>
    /\ NoEdit \in [how : Hows, scope : Scopes, value : Nat, limit : Nat,
                   overtaken : BOOLEAN, todo : Seq(Steps)]
<1>1. <<>> \in Seq(Steps)
  OBVIOUS
<1> QED BY <1>1 DEF NoEdit, Hows, Scopes

LEMMA CourseIsSteps == ASSUME NEW o PROVE Course(o) \in Seq(Steps) /\ Course(o) # <<>>
<1>1. <<"judge", "commit", "clear">> \in Seq(Steps) /\ <<"judge", "commit">> \in Seq(Steps)
      /\ <<"commit", "clear">> \in Seq(Steps) /\ <<"clear", "commit">> \in Seq(Steps)
      /\ <<"commit">> \in Seq(Steps)
  BY DEF Steps
<1> QED BY <1>1 DEF Course

LEMMA PoppedTyped ==
    ASSUME BudgetsTypeOK, NEW e \in Editors, edit[e].todo # <<>>
    PROVE  /\ Popped(edit[e]) \in [how : Hows, scope : Scopes, value : Nat, limit : Nat,
                                   overtaken : BOOLEAN, todo : Seq(Steps)]
           /\ \/ Popped(edit[e]) = NoEdit
              \/ Popped(edit[e]) = [edit[e] EXCEPT !.todo = Tail(@)]
<1>1. edit[e] \in [how : Hows, scope : Scopes, value : Nat, limit : Nat,
                   overtaken : BOOLEAN, todo : Seq(Steps)]
  BY DEF BudgetsTypeOK
<1>2. Tail(edit[e].todo) \in Seq(Steps)
  BY <1>1
<1> QED BY <1>1, <1>2, NoEditForm DEF Popped

LEMMA AskTyped ==
    ASSUME BudgetsTypeOK, NEW e \in Editors, NEW o \in Offers, Ask(e, o) PROVE EditsTyped'
<1>1. o \in [how : Hows, scope : Scopes, value : Nat]
  BY BudgetsAssumption
<1> DEFINE l == IF o.scope = Org THEN 0 ELSE cap[Parent(o.scope)]
           x == [how |-> o.how, scope |-> o.scope, value |-> o.value, limit |-> l,
                 overtaken |-> FALSE, todo |-> Course(o)]
<1>2. l \in Nat
  BY <1>1, ParentIsScope DEF BudgetsTypeOK
<1>3. edit' = [edit EXCEPT ![e] = x] /\ UNCHANGED <<cap, present, archived, lax>>
  BY DEF Ask
<1>4. x \in [how : Hows, scope : Scopes, value : Nat, limit : Nat,
             overtaken : BOOLEAN, todo : Seq(Steps)]
  <2> HIDE DEF l
  <2> QED BY <1>1, <1>2, CourseIsSteps
<1> HIDE DEF x
<1> QED BY <1>3, <1>4 DEF EditsTyped, BudgetsTypeOK

LEMMA JudgeTyped ==
    ASSUME BudgetsTypeOK, NEW e \in Editors, Judge(e) PROVE EditsTyped'
<1> DEFINE x == edit[e]
           y == IF Allowed(x) THEN [x EXCEPT !.todo = Tail(@)] ELSE NoEdit
           R == [how : Hows, scope : Scopes, value : Nat, limit : Nat,
                 overtaken : BOOLEAN, todo : Seq(Steps)]
<1>1. edit' = [edit EXCEPT ![e] = y] /\ x.todo # <<>> /\ UNCHANGED <<cap, present, archived, lax>>
  BY DEF Judge
<1>2. x \in R
  BY DEF BudgetsTypeOK
<1>3. y \in R
  <2>1. Tail(x.todo) \in Seq(Steps)
    BY <1>1, <1>2
  <2>2. [x EXCEPT !.todo = Tail(@)] \in R
    <3> HIDE DEF x
    <3> QED BY <1>2, <2>1
  <2> QED BY <2>2, NoEditForm
<1> HIDE DEF x, y
<1> QED BY <1>1, <1>3 DEF EditsTyped, BudgetsTypeOK

LEMMA ClearTyped ==
    ASSUME BudgetsTypeOK, NEW e \in Editors, Clear(e) PROVE EditsTyped'
<1>1. /\ edit' = [edit EXCEPT ![e] = Popped(edit[e])] /\ edit[e].todo # <<>>
      /\ UNCHANGED <<cap, present, archived, lax>>
  BY DEF Clear
<1> QED BY <1>1, PoppedTyped DEF EditsTyped, BudgetsTypeOK

LEMMA CommitTyped ==
    ASSUME BudgetsTypeOK, CoursesAreKept, NEW e \in Editors, Commit(e) PROVE EditsTyped'
<1> DEFINE x == edit[e]
           s == edit[e].scope
           R == [how : Hows, scope : Scopes, value : Nat, limit : Nat,
                 overtaken : BOOLEAN, todo : Seq(Steps)]
<1>1. x.todo # <<>> /\ x.value \in Nat /\ s \in Scopes /\ x.overtaken \in BOOLEAN
  BY EditTyped DEF Commit
<1>2. cap' \in [Scopes -> Nat]
  <2>1. cap' = cap \/ cap' = [cap EXCEPT ![s] = x.value]
    BY DEF Commit
  <2> HIDE DEF x, s
  <2> QED BY <1>1, <2>1 DEF BudgetsTypeOK
<1>3. present' \subseteq Scopes /\ archived' \subseteq Projects \cap present'
  <2>1. present' = present \cup {s}
    BY DEF Commit
  <2>2. \/ archived' = archived \cup {s} /\ x.how = "archive"
        \/ archived' = archived \ {s}
        \/ archived' = archived
    BY DEF Commit
  <2>3. x.how = "archive" => s \in Projects \cap present
    BY <1>1 DEF CoursesAreKept
  <2> QED BY <1>1, <2>1, <2>2, <2>3 DEF BudgetsTypeOK
<1>4. lax' \in BOOLEAN
  BY DEF Commit
<1>5. edit' \in [Editors -> R]
  <2>1. edit' = [f \in Editors |->
                   IF f = e THEN Popped(x)
                   ELSE IF edit[f].todo = <<>> THEN edit[f]
                   ELSE [edit[f] EXCEPT !.overtaken = TRUE]]
    BY DEF Commit
  <2>2. Popped(x) \in R
    BY <1>1, PoppedTyped
  <2>3. \A f \in Editors : edit[f] \in R
    BY DEF BudgetsTypeOK
  <2>4. \A f \in Editors : [edit[f] EXCEPT !.overtaken = TRUE] \in R
    BY <2>3
  <2> HIDE DEF R
  <2> QED BY <2>1, <2>2, <2>3, <2>4
<1> QED BY <1>2, <1>3, <1>4, <1>5 DEF EditsTyped

\* Steps that leave caps and edits alone.
LEMMA EditsStayOrStep ==
    ASSUME [BudgetsNext]_budgetVars
    PROVE  \/ UNCHANGED <<cap, present, archived, edit, lax, high>>
           \/ \E e \in Editors : (\E o \in Offers : Ask(e, o)) \/ Judge(e) \/ Commit(e) \/ Clear(e)
<1>1. CASE \E c \in Callers :
             \/ \E proj \in Metered : Begin(c, proj)
             \/ \E s \in Scopes : CheckScope(c, s) \/ SpendUnreadable(c, s)
             \/ Read(c) \/ ReadFails(c) \/ Store(c) \/ Admit(c) \/ Charge(c) \/ EndTurn(c)
  <2>1. UNCHANGED caps
    BY <1>1 DEF Begin, CheckScope, SpendUnreadable, Read, ReadFails, Store, Admit, Charge,
                EndTurn
  <2> QED BY <2>1 DEF caps
<1>2. CASE Tick \/ UNCHANGED budgetVars \/ \E p \in Servers : LookupFails(p) \/ Expire(p) \/ ChainExpires(p)
  BY <1>2 DEF Tick, budgetVars, LookupFails, Expire, ChainExpires, caps
<1> QED BY <1>1, <1>2 DEF BudgetsNext

LEMMA EditsStayTyped ==
    ASSUME BudgetsInv, [BudgetsNext]_budgetVars PROVE EditsTyped'
<1>1. BudgetsTypeOK /\ CoursesAreKept
  BY DEF BudgetsInv
<1>2. CASE UNCHANGED <<cap, present, archived, edit, lax, high>>
  BY <1>1, <1>2 DEF BudgetsTypeOK, EditsTyped
<1> QED BY <1>1, <1>2, EditsStayOrStep, AskTyped, JudgeTyped, CommitTyped, ClearTyped

LEMMA CountersStayTyped ==
    ASSUME BudgetsInv, [BudgetsNext]_budgetVars
    PROVE  /\ now' \in 0..MaxTime /\ requests' \in 0..MaxRequests /\ faults' \in 0..MaxFaults
<1>1. /\ now \in 0..MaxTime /\ requests \in 0..MaxRequests /\ faults \in 0..MaxFaults
      /\ MaxTime \in Nat /\ MaxRequests \in Nat /\ MaxFaults \in Nat
  BY BudgetsAssumption DEF BudgetsInv, BudgetsTypeOK
<1>2. now' = now \/ (now < MaxTime /\ now' = now + 1)
  <2>1. CASE Tick
    BY <2>1 DEF Tick
  <2>2. CASE UNCHANGED now
    BY <2>2
  <2>3. CASE \E c \in Callers :
             \/ \E proj \in Metered : Begin(c, proj)
             \/ \E s \in Scopes : CheckScope(c, s) \/ SpendUnreadable(c, s)
             \/ Read(c) \/ ReadFails(c) \/ Store(c) \/ Admit(c) \/ Charge(c) \/ EndTurn(c)
    BY <2>3 DEF Begin, CheckScope, SpendUnreadable, Read, ReadFails, Store, Admit, Charge, EndTurn
  <2>4. CASE \E e \in Editors : (\E o \in Offers : Ask(e, o)) \/ Judge(e) \/ Commit(e) \/ Clear(e)
    BY <2>4 DEF Ask, Judge, Commit, Clear
  <2>5. CASE UNCHANGED budgetVars \/ \E p \in Servers : LookupFails(p) \/ Expire(p) \/ ChainExpires(p)
    BY <2>5 DEF budgetVars, LookupFails, Expire, ChainExpires
  <2> QED BY <2>1, <2>3, <2>4, <2>5 DEF BudgetsNext
<1>3. requests' = requests \/ (requests < MaxRequests /\ requests' = requests + 1)
  <2>3. CASE \E c \in Callers :
             \/ \E proj \in Metered : Begin(c, proj)
             \/ \E s \in Scopes : CheckScope(c, s) \/ SpendUnreadable(c, s)
             \/ Read(c) \/ ReadFails(c) \/ Store(c) \/ Admit(c) \/ Charge(c) \/ EndTurn(c)
    BY <2>3 DEF Begin, CheckScope, SpendUnreadable, Read, ReadFails, Store, Admit, Charge, EndTurn
  <2>4. CASE \E e \in Editors : (\E o \in Offers : Ask(e, o)) \/ Judge(e) \/ Commit(e) \/ Clear(e)
    BY <2>4 DEF Ask, Judge, Commit, Clear
  <2>5. CASE Tick \/ UNCHANGED budgetVars \/ \E p \in Servers : LookupFails(p) \/ Expire(p) \/ ChainExpires(p)
    BY <2>5 DEF Tick, budgetVars, LookupFails, Expire, ChainExpires
  <2> QED BY <2>3, <2>4, <2>5 DEF BudgetsNext
<1>4. faults' = faults \/ (faults < MaxFaults /\ faults' = faults + 1)
  <2>3. CASE \E c \in Callers :
             \/ \E proj \in Metered : Begin(c, proj)
             \/ \E s \in Scopes : CheckScope(c, s) \/ SpendUnreadable(c, s)
             \/ Read(c) \/ ReadFails(c) \/ Store(c) \/ Admit(c) \/ Charge(c) \/ EndTurn(c)
    BY <2>3 DEF Begin, CheckScope, SpendUnreadable, Read, ReadFails, Store, Admit, Charge, EndTurn
  <2>4. CASE \E e \in Editors : (\E o \in Offers : Ask(e, o)) \/ Judge(e) \/ Commit(e) \/ Clear(e)
    BY <2>4 DEF Ask, Judge, Commit, Clear
  <2>5. CASE Tick \/ UNCHANGED budgetVars \/ \E p \in Servers : LookupFails(p) \/ Expire(p) \/ ChainExpires(p)
    BY <2>5 DEF Tick, budgetVars, LookupFails, Expire, ChainExpires
  <2> QED BY <2>3, <2>4, <2>5 DEF BudgetsNext
<1> QED BY <1>1, <1>2, <1>3, <1>4

LEMMA LedgerStaysTyped ==
    ASSUME BudgetsInv, [BudgetsNext]_budgetVars
    PROVE  ledger' \in [0..MaxTime -> [Scopes -> Nat]]
<1>1. ledger \in [0..MaxTime -> [Scopes -> Nat]] /\ now \in 0..MaxTime
  BY DEF BudgetsInv, BudgetsTypeOK
<1>2. CASE ledger' = ledger
  BY <1>1, <1>2
<1>3. CASE \E c \in Callers : Charge(c)
  <2>1. PICK S : ledger' = [ledger EXCEPT ![now] =
                       [s \in Scopes |-> IF s \in S THEN @[s] + 1 ELSE @[s]]]
    BY <1>3 DEF Charge
  <2>2. [s \in Scopes |-> IF s \in S THEN ledger[now][s] + 1 ELSE ledger[now][s]]
          \in [Scopes -> Nat]
    BY <1>1
  <2> QED BY <1>1, <2>1, <2>2
<1> QED BY <1>2, <1>3, LedgerStaysOrCharge

LEMMA BudgetsStayTyped ==
    ASSUME BudgetsInv, [BudgetsNext]_budgetVars PROVE BudgetsTypeOK'
<1>1. Grown /\ StepKinds
  BY StepGrows, CallsStepOrStay DEF BudgetsInv
<1>2. CallsTyped'
  BY <1>1, CallsStayFair
<1>3. /\ DOMAIN cache' = Servers
      /\ \A p \in Servers : cache'[p] = Nothing \/ IsSnapshot(cache'[p])
  BY CachesStayFair
<1>4. chain' \in [Servers -> {"full", "short"}]
  BY ShortStaysExcused
<1> QED BY <1>1, <1>2, <1>3, <1>4, EditsStayTyped, CountersStayTyped, LedgerStaysTyped
        DEF BudgetsTypeOK, CallsTyped, Places, EditsTyped, Grown, IsSnapshot

-----------------------------------------------------------------------------
(* Edits keep to their course, and what they read stays so.                *)

LEMMA CapsStayKnown ==
    ASSUME BudgetsInv, [BudgetsNext]_budgetVars PROVE CapsAreKnown'
<1> SUFFICES ASSUME NEW s \in Scopes \ excused' PROVE cap'[s] \in 1..high'[s]
  BY DEF CapsAreKnown
<1>1. BudgetsTypeOK /\ Grown
  BY StepGrows DEF BudgetsInv
<1>2. /\ cap[s] \in Nat /\ high[s] \in Nat /\ high'[s] \in Nat /\ high[s] <= high'[s]
      /\ cap[s] \in 1..high[s]
  BY <1>1 DEF BudgetsInv, CapsAreKnown, BudgetsTypeOK, Grown
<1>3. CASE cap'[s] = cap[s]
  BY <1>2, <1>3
<1>4. CASE cap'[s] # cap[s]
  <2>1. PICK e \in Editors : Commit(e)
    BY <1>4, EditsStayOrStep DEF Ask, Judge, Clear
  <2>2. /\ edit[e].scope = s /\ cap'[s] = edit[e].value
        /\ high' = [high EXCEPT ![s] = IF edit[e].value > @ THEN edit[e].value ELSE @]
        /\ edit[e].value # 0
    BY <2>1, <1>1, <1>4 DEF Commit, BudgetsTypeOK
  <2>3. edit[e].value \in Nat /\ high \in [Scopes -> Nat]
    BY <1>1, EditTyped DEF BudgetsTypeOK
  <2> QED BY <2>2, <2>3
<1> QED BY <1>3, <1>4

\* The steps a judged edit may have left.
OnCourse(x) ==
    /\ x.how = "set" => x.todo \in {<<>>, <<"clear">>, <<"commit", "clear">>,
                                    <<"judge", "commit", "clear">>}
    /\ x.how = "create" => x.todo \in {<<>>, <<"commit">>, <<"judge", "commit">>}

LEMMA Heads ==
    /\ Head(<<"clear">>) = "clear" /\ Head(<<"commit">>) = "commit"
    /\ Head(<<"commit", "clear">>) = "commit" /\ Head(<<"judge", "commit">>) = "judge"
    /\ Head(<<"judge", "commit", "clear">>) = "judge"
    /\ Tail(<<"clear">>) = <<>> /\ Tail(<<"commit">>) = <<>>
    /\ Tail(<<"commit", "clear">>) = <<"clear">> /\ Tail(<<"judge", "commit">>) = <<"commit">>
    /\ Tail(<<"judge", "commit", "clear">>) = <<"commit", "clear">>
    /\ Len(<<"clear">>) = 1 /\ Len(<<"commit">>) = 1
OBVIOUS

LEMMA TailOnCourse ==
    ASSUME BudgetsTypeOK, NEW e \in Editors, OnCourse(edit[e]), edit[e].todo # <<>>
    PROVE  LET y == [edit[e] EXCEPT !.todo = Tail(@)]
           IN  /\ OnCourse(y) /\ y.how = edit[e].how /\ y.scope = edit[e].scope
               /\ y.value = edit[e].value /\ y.limit = edit[e].limit
               /\ y.overtaken = edit[e].overtaken /\ y.todo = Tail(edit[e].todo)
<1> DEFINE y == [edit[e] EXCEPT !.todo = Tail(@)]
<1>1. /\ y.how = edit[e].how /\ y.scope = edit[e].scope
      /\ y.value = edit[e].value /\ y.limit = edit[e].limit
      /\ y.overtaken = edit[e].overtaken /\ y.todo = Tail(edit[e].todo)
  BY DEF BudgetsTypeOK
<1> HIDE DEF y
<1>2. OnCourse(y)
  BY <1>1, Heads DEF OnCourse
<1> QED BY <1>1, <1>2 DEF y

\* After a commit or the dropping of the cache a judged edit is past judging.
LEMMA PoppedIsDone ==
    ASSUME BudgetsTypeOK, NEW e \in Editors, OnCourse(edit[e]), edit[e].todo # <<>>,
           Head(edit[e].todo) \in {"commit", "clear"}
    PROVE  LET y == Popped(edit[e])
           IN  /\ OnCourse(y)
               /\ y.how \in {"set", "create"} /\ y.todo # <<>> => Head(y.todo) = "clear"
               /\ y = NoEdit \/ (y.how = edit[e].how /\ y.scope = edit[e].scope)
<1> DEFINE x == edit[e]
           z == [x EXCEPT !.todo = Tail(@)]
           y == Popped(x)
<1>1. y = NoEdit \/ y = z
  BY PoppedTyped
<1>2. OnCourse(z) /\ z.how = x.how /\ z.scope = x.scope /\ z.todo = Tail(x.todo)
  BY TailOnCourse
<1>3. OnCourse(NoEdit) /\ NoEdit.todo = <<>>
  BY NoEditForm DEF OnCourse
<1>4. x.how \in {"set", "create"} => x.todo \in {<<"clear">>, <<"commit", "clear">>, <<"commit">>}
  <2> HIDE DEF x
  <2> QED BY Heads DEF OnCourse, x
<1>5. x.how \in {"set", "create"} /\ Tail(x.todo) # <<>> => Head(Tail(x.todo)) = "clear"
  <2> HIDE DEF x
  <2> QED BY <1>4, Heads
<1> HIDE DEF x, y, z
<1>6. y.how \in {"set", "create"} /\ y.todo # <<>> => Head(y.todo) = "clear"
  BY <1>1, <1>2, <1>3, <1>5
<1> QED BY <1>1, <1>2, <1>3, <1>6 DEF y, x

LEMMA CourseOnCourse ==
    ASSUME NEW x, NEW o, x.how = o.how, x.todo = Course(o)
    PROVE  /\ OnCourse(x)
           /\ x.how \in {"set", "create"} => Head(x.todo) = "judge"
<1>1. x.how = "set" => x.todo = <<"judge", "commit", "clear">>
  BY DEF Course
<1>2. x.how = "create" => x.todo = <<"judge", "commit">>
  BY DEF Course
<1> QED BY <1>1, <1>2, Heads DEF OnCourse

OnPresent(x) == x.how = "archive" /\ x.todo # <<>> => x.scope \in Projects \cap present

LEMMA CoursesForm ==
    CoursesAreKept <=> \A e \in Editors : OnCourse(edit[e]) /\ OnPresent(edit[e])
BY DEF CoursesAreKept, OnCourse, OnPresent

LEMMA EditsForm ==
    ASSUME BudgetsTypeOK, NEW e \in Editors, NEW y, edit' = [edit EXCEPT ![e] = y]
    PROVE  edit'[e] = y /\ \A f \in Editors \ {e} : edit'[f] = edit[f]
BY DEF BudgetsTypeOK

LEMMA AskedForm ==
    ASSUME BudgetsTypeOK, NEW e \in Editors, NEW o \in Offers, Ask(e, o)
    PROVE  /\ edit'[e].how = o.how /\ edit'[e].todo = Course(o) /\ edit'[e].scope = o.scope
           /\ o.scope # Org => edit'[e].limit = cap[Parent(o.scope)]
           /\ \A f \in Editors \ {e} : edit'[f] = edit[f]
<1> DEFINE x == [how |-> o.how, scope |-> o.scope, value |-> o.value,
                 limit |-> IF o.scope = Org THEN 0 ELSE cap[Parent(o.scope)],
                 overtaken |-> FALSE, todo |-> Course(o)]
<1>1. edit' = [edit EXCEPT ![e] = x]
  BY DEF Ask
<1>2. /\ x.how = o.how /\ x.todo = Course(o) /\ x.scope = o.scope
      /\ o.scope # Org => x.limit = cap[Parent(o.scope)]
  OBVIOUS
<1> HIDE DEF x
<1> QED BY <1>1, <1>2, EditsForm

LEMMA CoursesStayKept ==
    ASSUME BudgetsInv, [BudgetsNext]_budgetVars PROVE CoursesAreKept'
<1>0. BudgetsTypeOK /\ \A e \in Editors : OnCourse(edit[e]) /\ OnPresent(edit[e])
  BY CoursesForm DEF BudgetsInv
<1> SUFFICES ASSUME NEW f \in Editors
             PROVE  /\ OnCourse(edit'[f])
                    /\ edit'[f].how = "archive" /\ edit'[f].todo # <<>> =>
                          edit'[f].scope \in Projects \cap present'
  BY DEF CoursesAreKept, OnCourse
<1>1. present \subseteq present'
  <2>1. CASE UNCHANGED present
    BY <2>1
  <2>2. CASE \E e \in Editors : Commit(e)
    BY <2>2 DEF Commit
  <2> QED BY <2>1, <2>2, EditsStayOrStep DEF Ask, Judge, Clear
<1>2. CASE edit'[f] = edit[f]
  BY <1>0, <1>1, <1>2 DEF OnPresent
<1>3. OnCourse(NoEdit) /\ NoEdit.todo = <<>>
  BY NoEditForm DEF OnCourse
<1>4. CASE \E o \in Offers : Ask(f, o)
  <2>1. PICK o \in Offers : Ask(f, o)
    BY <1>4
  <2>2. o.how = "archive" => o.scope \in Projects \cap present
    BY <2>1 DEF Ask, Applies
  <2> QED BY <1>0, <1>1, <2>1, <2>2, AskedForm, CourseOnCourse
<1>5. CASE Judge(f)
  <2> DEFINE y == [edit[f] EXCEPT !.todo = Tail(@)]
  <2>1. (edit'[f] = y \/ edit'[f] = NoEdit) /\ edit[f].todo # <<>>
    <3>1. /\ edit' = [edit EXCEPT ![f] = IF Allowed(edit[f]) THEN y ELSE NoEdit]
          /\ edit[f].todo # <<>>
      BY <1>5 DEF Judge
    <3> HIDE DEF y
    <3> QED BY <1>0, <3>1, EditsForm
  <2>2. OnCourse(y) /\ y.how = edit[f].how /\ y.scope = edit[f].scope
    BY <1>0, <2>1, TailOnCourse
  <2> HIDE DEF y
  <2> QED BY <1>0, <1>1, <1>3, <2>1, <2>2 DEF OnPresent
<1>6. CASE Commit(f) \/ Clear(f)
  <2>1. /\ edit'[f] = Popped(edit[f]) /\ edit[f].todo # <<>>
        /\ Head(edit[f].todo) \in {"commit", "clear"}
    <3>1. CASE Commit(f)
      BY <3>1 DEF Commit
    <3>2. CASE Clear(f)
      BY <1>0, <3>2, EditsForm DEF Clear
    <3> QED BY <1>6, <3>1, <3>2
  <2>2. /\ OnCourse(edit'[f])
        /\ edit'[f] = NoEdit \/ (edit'[f].how = edit[f].how /\ edit'[f].scope = edit[f].scope)
    BY <1>0, <2>1, PoppedIsDone
  <2> QED BY <1>0, <1>1, <1>3, <2>1, <2>2 DEF OnPresent
<1>7. CASE \E e \in Editors \ {f} : Commit(e)
  <2>1. edit'[f] = edit[f] \/ edit'[f] = [edit[f] EXCEPT !.overtaken = TRUE]
    BY <1>7 DEF Commit
  <2>2. /\ edit'[f].how = edit[f].how /\ edit'[f].scope = edit[f].scope
        /\ edit'[f].todo = edit[f].todo
    BY <1>0, <2>1 DEF BudgetsTypeOK
  <2> QED BY <1>0, <1>1, <2>2 DEF OnCourse, OnPresent
<1>8. CASE \E e \in Editors \ {f} : (\E o \in Offers : Ask(e, o)) \/ Judge(e) \/ Clear(e)
  <2>1. edit'[f] = edit[f]
    BY <1>0, <1>8, EditsForm DEF Ask, Judge, Clear
  <2> QED BY <1>2, <2>1
<1>9. CASE edit' = edit
  BY <1>2, <1>9
<1> QED BY <1>4, <1>5, <1>6, <1>7, <1>8, <1>9, EditsStayOrStep

LEMMA AllowedSame ==
    ASSUME NEW x, NEW y, x.scope = y.scope, x.value = y.value, x.limit = y.limit
    PROVE  Allowed(x) <=> Allowed(y)
BY DEF Allowed, Fits, Covers

\* What ReadsStillHold says of one edit, and of the same edit after a step.
Holds(x) ==
    x.how \in {"set", "create"} /\ x.todo # <<>> /\ ~ x.overtaken
        /\ Head(x.todo) \in {"judge", "commit"} =>
      /\ x.scope # Org => x.limit = cap[Parent(x.scope)]
      /\ Head(x.todo) = "commit" => Allowed(x)

LEMMA HoldsOn ==
    ASSUME UNCHANGED <<cap, present, archived>>,
           \A f \in Editors : Holds(edit'[f])
    PROVE  ReadsStillHold'
BY DEF ReadsStillHold, Holds, Allowed, Fits, Covers, Committed

LEMMA ReadsStayTrue ==
    ASSUME BudgetsInv, [BudgetsNext]_budgetVars PROVE ReadsStillHold'
<1>0. /\ BudgetsTypeOK /\ \A e \in Editors : OnCourse(edit[e]) /\ Holds(edit[e])
  BY CoursesForm DEF BudgetsInv, ReadsStillHold, Holds
<1>1. Holds(NoEdit)
  BY NoEditForm DEF Holds
<1>2. CASE \E e \in Editors : Commit(e)
  <2>1. PICK e \in Editors : Commit(e)
    BY <1>2
  <2>2. ASSUME NEW f \in Editors
        PROVE  edit'[f].how \in {"set", "create"} /\ edit'[f].todo # <<>> =>
                  edit'[f].overtaken \/ Head(edit'[f].todo) = "clear"
    <3>1. CASE f = e
      BY <1>0, <2>1, <3>1, PoppedIsDone DEF Commit
    <3>2. CASE f # e
      <4>1. CASE edit[f].todo = <<>>
        BY <2>1, <3>2, <4>1 DEF Commit
      <4>2. CASE edit[f].todo # <<>>
        <5>1. edit'[f] = [edit[f] EXCEPT !.overtaken = TRUE]
          BY <2>1, <3>2, <4>2 DEF Commit
        <5> QED BY <1>0, <5>1 DEF BudgetsTypeOK
      <4> QED BY <4>1, <4>2
    <3> QED BY <3>1, <3>2
  <2> QED BY <2>2 DEF ReadsStillHold
<1>3. CASE UNCHANGED <<cap, present, archived>> /\ \A f \in Editors : Holds(edit'[f])
  BY <1>3, HoldsOn
<1>4. CASE UNCHANGED <<cap, present, archived, edit, lax, high>>
  BY <1>0, <1>3, <1>4
<1>5. CASE \E e \in Editors : (\E o \in Offers : Ask(e, o)) \/ Judge(e) \/ Clear(e)
  <2>1. PICK e \in Editors : (\E o \in Offers : Ask(e, o)) \/ Judge(e) \/ Clear(e)
    BY <1>5
  <2>2. UNCHANGED <<cap, present, archived>>
    BY <2>1 DEF Ask, Judge, Clear
  <2>3. \A f \in Editors \ {e} : edit'[f] = edit[f]
    BY <1>0, <2>1, EditsForm DEF Ask, Judge, Clear
  <2>4. Holds(edit'[e])
    <3>1. CASE \E o \in Offers : Ask(e, o)
      <4>1. PICK o \in Offers : Ask(e, o)
        BY <3>1
      <4> QED BY <1>0, <4>1, AskedForm, CourseOnCourse DEF Holds
    <3>2. CASE Judge(e)
      <4> DEFINE y == [edit[e] EXCEPT !.todo = Tail(@)]
      <4>1. /\ edit'[e] = (IF Allowed(edit[e]) THEN y ELSE NoEdit)
            /\ edit[e].todo # <<>> /\ Head(edit[e].todo) = "judge"
        BY <1>0, <3>2, EditsForm DEF Judge
      <4>2. /\ y.how = edit[e].how /\ y.scope = edit[e].scope
            /\ y.value = edit[e].value /\ y.limit = edit[e].limit
            /\ y.overtaken = edit[e].overtaken /\ y.todo = Tail(edit[e].todo)
        BY <1>0, <4>1, TailOnCourse
      <4> HIDE DEF y
      <4>3. Allowed(y) <=> Allowed(edit[e])
        BY <4>2, AllowedSame
      <4> QED BY <1>0, <1>1, <4>1, <4>2, <4>3 DEF Holds
    <3>3. CASE Clear(e)
      <4>1. /\ edit'[e] = Popped(edit[e]) /\ edit[e].todo # <<>> /\ Head(edit[e].todo) = "clear"
        BY <1>0, <3>3, EditsForm DEF Clear
      <4> QED BY <1>0, <4>1, PoppedIsDone DEF Holds
    <3> QED BY <2>1, <3>1, <3>2, <3>3
  <2> QED BY <1>0, <1>3, <2>2, <2>3, <2>4
<1> QED BY <1>2, <1>4, <1>5, EditsStayOrStep

-----------------------------------------------------------------------------
(* What the children of a scope commit, after a commit.                    *)

LEMMA ScopesFinite ==
    ASSUME NEW S \in SUBSET Scopes PROVE IsFiniteSet(S)
<1>1. IsFiniteSet(Scopes)
  BY BudgetsAssumption, FS_Singleton, FS_Union DEF Scopes
<1> QED BY <1>1, FS_Subset

\* The sum over S with one scope at a new value, and over a smaller set.
LEMMA SumAfterSet ==
    ASSUME NEW S \in SUBSET Scopes, NEW K \in SUBSET Scopes, NEW s \in Scopes,
           NEW f \in [Scopes -> Nat], NEW v \in Nat, K \ {s} \subseteq S
    PROVE  Sum([f EXCEPT ![s] = v], K) <= v + Sum(f, S)
<1> DEFINE g == [f EXCEPT ![s] = v]
           R == K \ {s}
<1>1. (\A x \in Scopes : g[x] \in Nat) /\ g[s] = v /\ (\A x \in R : g[x] = f[x])
  OBVIOUS
<1>2. IsFiniteSet(S) /\ IsFiniteSet(K) /\ IsFiniteSet(R) /\ R \subseteq S
  BY ScopesFinite
<1> HIDE DEF g
<1>3. Sum(g, R) = Sum(f, R)
  BY <1>1, SumSame
<1>4. Sum(f, R) <= Sum(f, S) /\ Sum(f, R) \in Nat /\ Sum(f, S) \in Nat
  <2> HIDE DEF R
  <2> QED BY <1>2, SumSubset, SumType
<1>5. CASE s \in K
  <2>1. Sum(g, K) = g[s] + Sum(g, R)
    BY <1>1, <1>2, <1>5, SumSplit
  <2> QED BY <1>1, <1>3, <1>4, <2>1 DEF g
<1>6. CASE s \notin K
  <2>1. K = R
    BY <1>6
  <2> HIDE DEF R
  <2>2. Sum(g, K) <= v + Sum(f, S)
    BY <1>3, <1>4, <2>1
  <2> QED BY <2>2 DEF g
<1> QED BY <1>5, <1>6

CountedOf(u) == (Children(u) \cap present) \ (archived \cup {Nothing})

LEMMA CommitAllocates ==
    ASSUME BudgetsInv, NEW e \in Editors, Commit(e), ~ lax',
           NEW u \in {Org} \cup Units, cap'[u] > 0
    PROVE  Committed(u, Nothing)' <= cap'[u]
<1> DEFINE x == edit[e]
           s == edit[e].scope
           v == edit[e].value
           K == CountedOf(u)
           L == (Children(u) \cap present') \ (archived' \cup {Nothing})
<1>1. BudgetsTypeOK /\ cap \in [Scopes -> Nat] /\ OverAllocationIsExplained
  BY DEF BudgetsInv, BudgetsTypeOK
<1>2. /\ x.todo # <<>> /\ Head(x.todo) = "commit" /\ ~ lax /\ ~ x.overtaken
      /\ x.how \in {"set", "create", "archive"} /\ present' = present \cup {s}
  <2>1. x.how \in Hows /\ lax \in BOOLEAN /\ x.overtaken \in BOOLEAN
    BY <1>1, EditTyped DEF BudgetsTypeOK
  <2>2. ~ (lax \/ x.how \in {"patch", "grant", "restore"} \/ x.overtaken)
    BY DEF Commit
  <2> QED BY <2>1, <2>2 DEF Commit, Hows
<1>3. s \in Scopes /\ v \in Nat /\ u \in Scopes /\ Children(u) \subseteq Scopes /\ u \notin Projects
  BY <1>1, EditTyped, BudgetsAssumption DEF Scopes, Children
<1>4. K \in SUBSET Scopes /\ Committed(u, Nothing) = Sum(cap, K) /\ Sum(cap, K) \in Nat
  <2>1. K \in SUBSET Scopes /\ Committed(u, Nothing) = Sum(cap, K)
    BY <1>3 DEF CountedOf, Committed
  <2> HIDE DEF K
  <2> QED BY <1>1, <2>1, ScopesFinite, SumType
<1>5. L \in SUBSET Scopes /\ Committed(u, Nothing)' = Sum(cap', L)
  BY <1>3 DEF Committed, Children
<1>6. cap[u] > 0 => Sum(cap, K) <= cap[u]
  BY <1>1, <1>2, <1>3, <1>4 DEF OverAllocationIsExplained
<1>7. CASE x.how = "archive"
  <2>1. cap' = cap /\ archived' = archived \cup {s} /\ s \in present
    BY <1>2, <1>7 DEF Commit, BudgetsInv, CoursesAreKept
  <2>2. L \subseteq K
    BY <1>2, <2>1 DEF CountedOf
  <2>3. Sum(cap, L) <= Sum(cap, K) /\ Sum(cap, L) \in Nat
    <3> HIDE DEF L, K
    <3> QED BY <1>1, <1>4, <1>5, <2>2, ScopesFinite, SumSubset, SumType
  <2> HIDE DEF K, L
  <2> QED BY <1>1, <1>3, <1>4, <1>5, <1>6, <2>1, <2>3
<1>8. CASE x.how \in {"set", "create"}
  <2>1. /\ cap' = [cap EXCEPT ![s] = v] /\ archived' = archived
        /\ cap'[s] = v /\ (u # s => cap'[u] = cap[u])
    BY <1>1, <1>3, <1>8 DEF Commit
  <2>2. (s # Org => x.limit = cap[Parent(s)]) /\ Allowed(x)
    BY <1>2, <1>8 DEF BudgetsInv, ReadsStillHold
  <2>3. CASE s \notin Children(u)
    <3>1. L = K /\ \A y \in K : cap'[y] = cap[y]
      BY <1>2, <1>3, <1>4, <2>1, <2>3 DEF CountedOf
    <3>2. Sum(cap', L) = Sum(cap, K)
      <4> HIDE DEF L, K
      <4> QED BY <3>1, SumSame
    <3>3. CASE u # s
      <4> HIDE DEF K, L
      <4> QED BY <1>5, <1>6, <2>1, <3>2, <3>3
    <3>4. CASE u = s
      <4>1. Committed(u, Nothing) <= v
        BY <1>3, <2>1, <2>2, <3>4 DEF Allowed, Covers
      <4> HIDE DEF K, L
      <4> QED BY <1>4, <1>5, <2>1, <3>2, <3>4, <4>1
    <3> QED BY <3>3, <3>4
  <2>4. CASE s \in Children(u)
    <3> DEFINE C == (Children(u) \cap present) \ (archived \cup {s})
    <3>1. s # Org /\ Parent(s) = u /\ u # s
      BY <1>3, <2>4, ParentIsScope
    <3>2. C \in SUBSET Scopes /\ L \ {s} \subseteq C /\ C \subseteq K
      BY <1>2, <1>3, <2>1, BudgetsAssumption DEF CountedOf
    <3>3. Sum(cap', L) <= v + Sum(cap, C)
      <4> HIDE DEF L, C
      <4> QED BY <1>1, <1>3, <1>5, <2>1, <3>2, SumAfterSet
    <3>4. Sum(cap, C) <= Sum(cap, K) /\ Sum(cap, C) \in Nat
      <4> HIDE DEF C, K
      <4> QED BY <1>1, <1>4, <3>2, ScopesFinite, SumSubset, SumType
    <3>5. cap'[u] = cap[u] /\ cap[u] \in Nat /\ cap[u] > 0
      BY <1>1, <1>3, <2>1, <3>1
    <3>6. Committed(u, s) = Sum(cap, C)
      BY DEF Committed
    <3>7. v = 0 \/ Sum(cap, C) + v <= cap[u]
      BY <2>2, <3>1, <3>5, <3>6 DEF Allowed, Fits
    <3>8. Sum(cap', L) \in Nat
      <4>1. \A y \in Scopes : cap'[y] \in Nat
        BY <1>1, <1>3, <2>1
      <4> HIDE DEF L
      <4> QED BY <1>5, <4>1, ScopesFinite, SumType
    <3> HIDE DEF C, K, L
    <3> QED BY <1>3, <1>4, <1>5, <1>6, <3>3, <3>4, <3>5, <3>7, <3>8
  <2> QED BY <2>3, <2>4
<1> QED BY <1>2, <1>7, <1>8

LEMMA AllocationStaysExplained ==
    ASSUME BudgetsInv, [BudgetsNext]_budgetVars PROVE OverAllocationIsExplained'
<1> SUFFICES ASSUME NEW u \in {Org} \cup Units, cap'[u] > 0, ~ lax'
             PROVE  ~ (Committed(u, Nothing)' > cap'[u])
  BY DEF OverAllocationIsExplained
<1>1. CASE \E e \in Editors : Commit(e)
  <2>1. Committed(u, Nothing)' <= cap'[u]
    BY <1>1, CommitAllocates
  <2>2. cap'[u] \in Nat /\ Committed(u, Nothing)' \in Nat
    <3>1. EditsTyped'
      BY EditsStayTyped
    <3>2. cap' \in [Scopes -> Nat] /\ u \in Scopes /\ Children(u) \subseteq Scopes
      BY <3>1 DEF EditsTyped, Scopes, Children
    <3> DEFINE L == (Children(u) \cap present') \ (archived' \cup {Nothing})
    <3>3. Committed(u, Nothing)' = Sum(cap', L) /\ L \in SUBSET Scopes
      BY <3>2 DEF Committed, Children
    <3> HIDE DEF L
    <3> QED BY <3>2, <3>3, ScopesFinite, SumType
  <2> QED BY <2>1, <2>2
<1>2. CASE UNCHANGED <<cap, present, archived, lax>>
  BY <1>2 DEF BudgetsInv, OverAllocationIsExplained, Committed
<1> QED BY <1>1, <1>2, EditsStayOrStep DEF Ask, Judge, Clear

-----------------------------------------------------------------------------
(* The invariant.                                                          *)

LEMMA BudgetsInvInit == BudgetsInit => BudgetsInv
<1> SUFFICES ASSUME BudgetsInit PROVE BudgetsInv
  OBVIOUS
<1>1. \A c \in Callers : call[c] = NoCall
  BY DEF BudgetsInit
<1>2. \A c \in Callers : /\ call[c].at = "idle" /\ call[c].left = {}
                         /\ call[c].project = Nothing /\ call[c].budgets = NoBudgets
                         /\ call[c].made = 0
  BY <1>1 DEF NoCall
<1>3. BudgetsTypeOK
  <2>1. CallsTyped
    <3>1. call = [c \in Callers |-> NoCall]
      BY DEF BudgetsInit
    <3>2. CallForm(NoCall)
      BY NoCallForm, BudgetsAssumption DEF CallForm, Places, Shape
    <3> QED BY <1>1, <3>1, <3>2, CallsForm DEF CallsFormed
  <2>2. edit \in [Editors -> [how : Hows, scope : Scopes, value : Nat, limit : Nat,
                             overtaken : BOOLEAN, todo : Seq(Steps)]]
    BY NoEditForm DEF BudgetsInit
  <2>3. /\ cap \in [Scopes -> Nat] /\ present \subseteq Scopes
        /\ archived \subseteq Projects \cap present
        /\ lax \in BOOLEAN /\ high \in [Scopes -> Nat] /\ excused \subseteq Scopes
    BY BudgetsAssumption DEF BudgetsInit
  <2>4. /\ DOMAIN cache = Servers /\ \A p \in Servers : cache[p] = Nothing
        /\ chain \in [Servers -> {"full", "short"}]
    BY DEF BudgetsInit
  <2>5. MaxTime \in Nat /\ MaxRequests \in Nat /\ MaxFaults \in Nat
    BY BudgetsAssumption
  <2>6. /\ ledger \in [0..MaxTime -> [Scopes -> Nat]] /\ now \in 0..MaxTime
        /\ requests \in 0..MaxRequests /\ faults \in 0..MaxFaults
    BY <2>5 DEF BudgetsInit
  <2> QED BY <2>1, <2>2, <2>3, <2>4, <2>6 DEF BudgetsTypeOK, CallsTyped, Places
<1>4. CapsAreKnown
  <2> SUFFICES ASSUME NEW s \in Scopes \ excused PROVE cap[s] \in 1..high[s]
    BY DEF CapsAreKnown
  <2>1. Cap0[s] \in Nat /\ Cap0[s] # 0 /\ cap[s] = Cap0[s] /\ high[s] = Cap0[s]
    BY BudgetsAssumption DEF BudgetsInit
  <2> QED BY <2>1
<1>5. CachesAreFair /\ CallsAreFair /\ ShortIsExcused
  BY <1>2 DEF BudgetsInit, CachesAreFair, CallsAreFair, ShortIsExcused
<1>6. \A s \in Scopes : Spent(s) = 0
  <2> TAKE s \in Scopes
  <2> DEFINE f == [m \in 0..MaxTime |-> ledger[m][s]]
  <2>1. Dollars(f, 0..MaxTime) = {}
    <3>1. \A m \in 0..MaxTime : f[m] = 0
      BY DEF BudgetsInit
    <3> HIDE DEF f
    <3> QED BY <3>1 DEF Dollars
  <2>2. Spent(s) = Cardinality(Dollars(f, 0..MaxTime))
    BY DEF Spent, Sum
  <2> QED BY <2>1, <2>2, FS_EmptySet
<1>7. PassesAreBounded
  <2> SUFFICES ASSUME NEW s \in Scopes \ excused
               PROVE  Spent(s) + Cardinality(Owed(s)) + 1
                         <= high[s] + PerTurn * Cardinality(Callers)
    BY DEF PassesAreBounded
  <2>1. Owed(s) = {}
    BY <1>2 DEF Owed, Passed
  <2>2. Cardinality(Owed(s)) = 0 /\ PerTurn * Cardinality(Callers) \in Nat
    BY <2>1, FS_EmptySet, OwedFinite
  <2>3. high[s] \in Nat /\ high[s] # 0
    BY BudgetsAssumption DEF BudgetsInit
  <2> QED BY <1>6, <2>2, <2>3
<1>8. CoursesAreKept /\ ReadsStillHold
  BY NoEditForm DEF BudgetsInit, CoursesAreKept, ReadsStillHold
<1>10. OverAllocationIsExplained
  <2> SUFFICES ASSUME NEW u \in {Org} \cup Units, cap[u] > 0
               PROVE  ~ (Committed(u, Nothing) > cap[u])
    BY DEF OverAllocationIsExplained
  <2> DEFINE K == Children(u) \cap Present0
  <2>1. cap = Cap0 /\ present = Present0 /\ archived = {}
    BY DEF BudgetsInit
  <2>2. (Children(u) \cap present) \ (archived \cup {Nothing}) = K
    BY <2>1, BudgetsAssumption
  <2>3. Committed(u, Nothing) = Sum(Cap0, K) /\ K \in SUBSET Scopes
    BY <2>1, <2>2, BudgetsAssumption DEF Committed
  <2>4. Cap0 \in [Scopes -> Nat] /\ u \in Scopes
    BY BudgetsAssumption DEF Scopes
  <2>5. Cap0[u] = 0 \/ Sum(Cap0, K) <= Cap0[u]
    BY AllocatedAtFirst
  <2> HIDE DEF K
  <2>6. Sum(Cap0, K) \in Nat
    BY <2>3, <2>4, ScopesFinite, SumType
  <2> QED BY <2>1, <2>3, <2>4, <2>5, <2>6
<1> QED BY <1>3, <1>4, <1>5, <1>7, <1>8, <1>10 DEF BudgetsInv

LEMMA BudgetsInvStep == BudgetsInv /\ [BudgetsNext]_budgetVars => BudgetsInv'
<1> SUFFICES ASSUME BudgetsInv, [BudgetsNext]_budgetVars PROVE BudgetsInv'
  OBVIOUS
<1>1. Grown /\ StepKinds
  BY StepGrows, CallsStepOrStay DEF BudgetsInv
<1>2. CallsAreFair' /\ CachesAreFair' /\ ShortIsExcused'
  BY <1>1, CallsStayFair, CachesStayFair, ShortStaysExcused
<1>3. BudgetsTypeOK' /\ CapsAreKnown'
  BY BudgetsStayTyped, CapsStayKnown
<1>4. PassesAreBounded'
  BY PassesStayBounded
<1>5. CoursesAreKept' /\ ReadsStillHold' /\ OverAllocationIsExplained'
  BY CoursesStayKept, ReadsStayTrue, AllocationStaysExplained
<1> QED BY <1>2, <1>3, <1>4, <1>5 DEF BudgetsInv

\* Every value in Budgets keeps its type.
THEOREM BudgetsTyped == BudgetsSpec => []BudgetsTypeOK
<1>1. BudgetsInv => BudgetsTypeOK
  BY DEF BudgetsInv
<1> QED BY <1>1, BudgetsInvInit, BudgetsInvStep, PTL DEF BudgetsSpec

\* budget_guard.py, usage_meter.py: for any number of processes, callers, edits
\* and months, and however many completions one check covers, a scope that
\* always had a cap passes the largest it had by less than what the turns of
\* all callers may cost between them.
THEOREM OvershootStaysBounded == BudgetsSpec => []OvershootIsBounded
<1>1. BudgetsInv => OvershootIsBounded
  <2> SUFFICES ASSUME BudgetsInv, NEW s \in Scopes \ excused
               PROVE  Spent(s) + 1 <= high[s] + PerTurn * Cardinality(Callers)
    BY DEF OvershootIsBounded
  <2>1. Spent(s) \in Nat /\ high[s] \in Nat
    BY TypeFacts, SpentType DEF BudgetsInv
  <2>2. Cardinality(Owed(s)) \in Nat /\ PerTurn * Cardinality(Callers) \in Nat
    BY OwedFinite
  <2>3. Spent(s) + Cardinality(Owed(s)) + 1 <= high[s] + PerTurn * Cardinality(Callers)
    BY DEF BudgetsInv, PassesAreBounded
  <2> QED BY <2>1, <2>2, <2>3
<1> QED BY <1>1, BudgetsInvInit, BudgetsInvStep, PTL DEF BudgetsSpec

\* budget_alloc.py: for any tree of scopes and any number of editors, children
\* pass their parent's cap only by a write nothing judged, or one judged on
\* reads that another commit overtook.
THEOREM OverAllocationHasACause == BudgetsSpec => []OverAllocationIsExplained
<1>1. BudgetsInv => OverAllocationIsExplained
  BY DEF BudgetsInv
<1> QED BY <1>1, BudgetsInvInit, BudgetsInvStep, PTL DEF BudgetsSpec
=============================================================================
