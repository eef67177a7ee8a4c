------------------------- MODULE AgentStudioProofs -------------------------
(***************************************************************************)
(* Proofs about AgentStudio for any users, owners, proposers, lines and    *)
(* number of rows, and any number of requests at a time: what an approval  *)
(* published was evaluated, and a publish that no other write overtook     *)
(* leaves the row it published active and no other.                        *)
(***************************************************************************)
EXTENDS AgentStudio, WellFoundedInduction, TLAPS

USE AgentStudioAssumption

-----------------------------------------------------------------------------
(* Sequences of rows, and the highest of some versions.                    *)

LEMMA RowSequence ==
    ASSUME NEW n \in Nat, NEW f \in [1 .. n -> Row]
    PROVE  f \in Seq(Row) /\ Len(f) = n /\ DOMAIN f = 1 .. n
OBVIOUS

LEMMA OneRowMore ==
    ASSUME NEW q \in Seq(Row), NEW r \in Row
    PROVE  /\ Append(q, r) \in Seq(Row) /\ Len(Append(q, r)) = Len(q) + 1
           /\ Append(q, r)[Len(q) + 1] = r
           /\ \A i \in 1 .. Len(q) : Append(q, r)[i] = q[i]
OBVIOUS

LEMMA LeastNatural ==
    ASSUME NEW T \in SUBSET Nat, T # {}
    PROVE  \E x \in T : \A y \in T : x <= y
<1> DEFINE R == {r \in Nat \X Nat : r[1] < r[2]}
<1>1. IsWellFoundedOn(R, Nat)
  BY NatLessThanWellFounded DEF OpToRel
<1>2. PICK x \in T : \A y \in T : <<y, x>> \notin R
  <2> HIDE DEF R
  <2> QED BY <1>1, WFMin
<1>3. \A y \in T : ~ (y < x)
  BY <1>2
<1> QED BY <1>3

LEMMA HighestVersion ==
    ASSUME NEW n \in Nat, NEW S \in SUBSET (1 .. n), S # {}
    PROVE  Max(S) \in S
<1> DEFINE T == {k \in Nat : n - k \in S}
<1>1. T \in SUBSET Nat /\ T # {}
  <2>1. \A v \in S : n - v \in T
    OBVIOUS
  <2> QED BY <2>1
<1>2. PICK x \in T : \A y \in T : x <= y
  <2> HIDE DEF T
  <2> QED BY <1>1, LeastNatural
<1>3. \A w \in S : n - x >= w
  <2> SUFFICES ASSUME NEW w \in S PROVE n - x >= w
    OBVIOUS
  <2>1. n - w \in T
    OBVIOUS
  <2>2. x <= n - w /\ x \in Nat /\ w \in Nat
    BY <1>2, <2>1
  <2> QED BY <2>2
<1>4. n - x \in S
  OBVIOUS
<1> QED BY <1>3, <1>4 DEF Max

LEMMA TypesOf ==
    ASSUME StudioInv
    PROVE  /\ TypeOK /\ line \in Lines /\ rows \in Seq(Row)
           /\ Ids = 1 .. Len(rows) /\ Len(rows) \in Nat /\ Len(rows) <= MaxRows
           /\ \A i \in Ids : rows[i] \in Row
           /\ op \in [Sessions -> Op]
BY DEF StudioInv, TypeOK, Ids

LEMMA OneOp ==
    ASSUME StudioInv, NEW s \in Sessions, NEW x, op' = [op EXCEPT ![s] = x]
    PROVE  op'[s] = x /\ \A t \in Sessions \ {s} : op'[t] = op[t]
BY TypesOf

LEMMA SeenIsSeen ==
    ASSUME StudioInv, NEW s \in Sessions
    PROVE  \E S \in SUBSET Ids : op[s].seen \in [S -> BOOLEAN] /\ DOMAIN op[s].seen = S
<1>1. op[s].seen \in UNION {[S -> BOOLEAN] : S \in SUBSET Ids}
  BY TypesOf DEF Op
<1>2. PICK S \in SUBSET Ids : op[s].seen \in [S -> BOOLEAN]
  BY <1>1
<1> QED BY <1>2

LEMMA NextVersionInOrder ==
    ASSUME StudioInv, NEW s \in Sessions
    PROVE  NextVersion(op[s]) \in 1 .. Len(rows) + 1
<1>1. DOMAIN op[s].seen \subseteq Ids
  BY SeenIsSeen
<1> DEFINE V == {rows[i].version : i \in DOMAIN op[s].seen}
<1>2. V \subseteq 1 .. Len(rows)
  <2>1. \A i \in Ids : rows[i].version \in 1 .. MaxRows /\ rows[i].version <= i
    BY TypesOf DEF Row, StudioInv, VersionsAreInOrder
  <2> QED BY <1>1, <2>1, TypesOf
<1>3. CASE DOMAIN op[s].seen = {}
  BY <1>3, TypesOf DEF NextVersion
<1>4. CASE DOMAIN op[s].seen # {}
  <2>1. V # {}
    BY <1>4
  <2>2. Max(V) \in 1 .. Len(rows)
    <3> HIDE DEF V
    <3> QED BY <1>2, <2>1, HighestVersion, TypesOf
  <2> QED BY <1>4, <2>2, TypesOf DEF NextVersion
<1> QED BY <1>3, <1>4

-----------------------------------------------------------------------------
(* What a step does to the rows.                                           *)

\* Everything but the two flags stays; what is deleted stays deleted.
Keeps(i) ==
    /\ i \in DOMAIN rows' /\ rows'[i] \in Row
    /\ rows'[i].version = rows[i].version /\ rows'[i].author = rows[i].author
    /\ rows'[i].good = rows[i].good
    /\ rows[i].deleted => rows'[i].deleted

RowsKeep ==
    /\ rows' \in Seq(Row) /\ Len(rows') <= MaxRows /\ Ids' = 1 .. Len(rows')
    /\ Len(rows') >= Len(rows)
    /\ \A i \in Ids : Keeps(i)
    /\ \A i \in Ids' \ Ids : rows'[i].version <= i /\ i = Len(rows) + 1

LEMMA SameRows ==
    ASSUME StudioInv, rows' = rows
    PROVE  RowsKeep
BY TypesOf DEF RowsKeep, Keeps, Ids

\* The rows an insertion leaves: flags taken off, and the new one.
Inserted(s) ==
    /\ Len(rows) < MaxRows
    /\ \E good \in BOOLEAN :
          rows'[Len(rows) + 1] =
              [version |-> NextVersion(op[s]), author |-> op[s].by, good |-> good,
               active |-> line.kind = "skill" /\ op[s].by \in Owners, deleted |-> FALSE]
    /\ rows' \in Seq(Row) /\ Len(rows') = Len(rows) + 1
    /\ \A i \in Ids :
          rows'[i] = IF i \in DOMAIN op[s].seen /\ op[s].seen[i]
                     THEN [rows[i] EXCEPT !.active = FALSE] ELSE rows[i]

LEMMA InsertInserts ==
    ASSUME StudioInv, NEW s \in Sessions, Insert(s)
    PROVE  \/ rows' = rows /\ live' = live /\ clean' = clean /\ op' = [op EXCEPT ![s] = Idle]
           \/ Inserted(s) /\ op' = Commit(s)
<1> SUFFICES ASSUME ~ Refused(NextVersion(op[s]))
             PROVE  Inserted(s) /\ op' = Commit(s)
  BY DEF Insert
<1> DEFINE v == NextVersion(op[s])
           lives == line.kind = "skill" /\ op[s].by \in Owners
           flagged == [i \in Ids |->
                         IF i \in DOMAIN op[s].seen /\ op[s].seen[i]
                         THEN [rows[i] EXCEPT !.active = FALSE] ELSE rows[i]]
           new(good) == [version |-> v, author |-> op[s].by, good |-> good,
                         active |-> lives, deleted |-> FALSE]
<1>1. Len(rows) < MaxRows /\ op' = Commit(s)
  BY DEF Insert
<1>2. PICK good \in BOOLEAN : rows' = Append(flagged, new(good))
  BY DEF Insert
<1>3. flagged \in [1 .. Len(rows) -> Row]
  BY TypesOf DEF Row
<1>4. new(good) \in Row
  <2>1. v \in 1 .. MaxRows
    BY <1>1, NextVersionInOrder, TypesOf
  <2>2. op[s].by \in Users
    BY DEF Insert, StudioInv, Allowed
  <2> QED BY <2>1, <2>2 DEF Row
<1>5. /\ \A i \in Ids : flagged[i] = IF i \in DOMAIN op[s].seen /\ op[s].seen[i]
                                     THEN [rows[i] EXCEPT !.active = FALSE] ELSE rows[i]
  OBVIOUS
<1>6. flagged \in Seq(Row) /\ Len(flagged) = Len(rows)
  <2> HIDE DEF flagged
  <2> QED BY <1>3, RowSequence, TypesOf
<1>7. /\ rows' \in Seq(Row) /\ Len(rows') = Len(rows) + 1
      /\ rows'[Len(rows) + 1] = new(good) /\ \A i \in 1 .. Len(rows) : rows'[i] = flagged[i]
  <2> HIDE DEF flagged, new
  <2> QED BY <1>2, <1>4, <1>6, OneRowMore
<1> HIDE DEF flagged
<1> QED BY <1>1, <1>5, <1>7, TypesOf DEF Inserted

LEMMA InsertedKeeps ==
    ASSUME StudioInv, NEW s \in Sessions, Inserted(s)
    PROVE  RowsKeep
<1>1. \A i \in Ids : Keeps(i)
  <2> SUFFICES ASSUME NEW i \in Ids PROVE Keeps(i)
    OBVIOUS
  <2>1. rows'[i] \in {rows[i], [rows[i] EXCEPT !.active = FALSE]} /\ rows[i] \in Row
    BY TypesOf DEF Inserted
  <2>2. i \in DOMAIN rows'
    BY TypesOf DEF Inserted
  <2> QED BY <2>1, <2>2 DEF Keeps, Row
<1>2. rows'[Len(rows) + 1].version <= Len(rows) + 1
  BY NextVersionInOrder, TypesOf DEF Inserted
<1> QED BY <1>1, <1>2, TypesOf DEF RowsKeep, Inserted, Ids

\* A step that sets flags of the rows there are.
LEMMA FlagsKeep ==
    ASSUME StudioInv, NEW f \in [Ids -> Row], rows' = f,
           \A i \in Ids : /\ f[i].version = rows[i].version /\ f[i].author = rows[i].author
                          /\ f[i].good = rows[i].good
                          /\ rows[i].deleted => f[i].deleted
    PROVE  RowsKeep /\ Len(rows') = Len(rows)
<1>1. f \in [1 .. Len(rows) -> Row]
  BY TypesOf
<1>2. rows' \in Seq(Row) /\ Len(rows') = Len(rows) /\ DOMAIN rows' = 1 .. Len(rows)
  BY <1>1, RowSequence, TypesOf
<1>3. \A i \in Ids : Keeps(i)
  BY <1>2, TypesOf DEF Keeps
<1>4. Ids' = 1 .. Len(rows') /\ Ids' = Ids
  BY <1>2, TypesOf DEF Ids
<1>5. Len(rows') <= MaxRows /\ Len(rows') >= Len(rows)
  BY <1>2, TypesOf
<1> QED BY <1>2, <1>3, <1>4, <1>5 DEF RowsKeep

LEMMA FlipKeeps ==
    ASSUME StudioInv, NEW s \in Sessions, Flip(s)
    PROVE  /\ RowsKeep /\ Len(rows') = Len(rows)
           /\ \A i \in Ids :
                 rows'[i] = IF i \in DOMAIN op[s].seen /\ op[s].seen[i] # Wanted(op[s], i)
                            THEN [rows[i] EXCEPT !.active = Wanted(op[s], i)] ELSE rows[i]
<1> DEFINE f == [i \in Ids |->
                   IF i \in DOMAIN op[s].seen /\ op[s].seen[i] # Wanted(op[s], i)
                   THEN [rows[i] EXCEPT !.active = Wanted(op[s], i)] ELSE rows[i]]
<1>1. rows' = f
  BY DEF Flip
<1>2. f \in [Ids -> Row]
  BY TypesOf DEF Row, Wanted
<1>3. \A i \in Ids : /\ f[i].version = rows[i].version /\ f[i].author = rows[i].author
                     /\ f[i].good = rows[i].good
                     /\ rows[i].deleted => f[i].deleted
  BY TypesOf DEF Row
<1>4. RowsKeep /\ Len(rows') = Len(rows)
  <2> HIDE DEF f
  <2> QED BY <1>1, <1>2, <1>3, FlagsKeep
<1> QED BY <1>1, <1>4

LEMMA WithdrawKeeps ==
    ASSUME StudioInv, NEW s \in Sessions, Withdraw(s)
    PROVE  /\ RowsKeep /\ Len(rows') = Len(rows)
           /\ \A i \in Ids :
                 rows'[i] = IF i \notin DOMAIN op[s].seen THEN rows[i]
                            ELSE [rows[i] EXCEPT !.active = rows[i].active /\ ~ op[s].seen[i],
                                                 !.deleted = rows[i].deleted
                                                             \/ op[s].how = "delete"]
<1> DEFINE f == [i \in Ids |->
                   IF i \notin DOMAIN op[s].seen THEN rows[i]
                   ELSE [rows[i] EXCEPT !.active = rows[i].active /\ ~ op[s].seen[i],
                                        !.deleted = rows[i].deleted \/ op[s].how = "delete"]]
<1>1. rows' = f
  BY DEF Withdraw
<1>2. f \in [Ids -> Row]
  BY TypesOf DEF Row
<1>3. \A i \in Ids : /\ f[i].version = rows[i].version /\ f[i].author = rows[i].author
                     /\ f[i].good = rows[i].good
                     /\ rows[i].deleted => f[i].deleted
  BY TypesOf DEF Row
<1>4. RowsKeep /\ Len(rows') = Len(rows)
  <2> HIDE DEF f
  <2> QED BY <1>1, <1>2, <1>3, FlagsKeep
<1> QED BY <1>1, <1>4

\* The requests that start: none writes anything but its own state.
Begins(s) ==
    \E u \in Users :
        \/ Draft(s, u) \/ Create(s, u) \/ Update(s, u) \/ Delete(s, u)
        \/ \E i \in Ids : \/ Publish(s, u, i) \/ Unpublish(s, u, i)
                          \/ Activate(s, u, i) \/ Evaluate(s, u, i)
        \/ \E p \in proposals : Approve(s, u, p)

LEMMA BeginsEnters ==
    ASSUME NEW s \in Sessions, Begins(s)
    PROVE  \E x : Enter(s, x)
<1>1. ASSUME NEW u \in Users, Draft(s, u) \/ Create(s, u) \/ Update(s, u) \/ Delete(s, u)
      PROVE  \E x : Enter(s, x)
  BY <1>1 DEF Draft, Create, Update, Delete, Start
<1>2. ASSUME NEW u \in Users, NEW i \in Ids,
             Unpublish(s, u, i) \/ Activate(s, u, i) \/ Evaluate(s, u, i)
      PROVE  \E x : Enter(s, x)
  BY <1>2 DEF Unpublish, Activate, Evaluate, Start
<1>3. ASSUME NEW u \in Users, NEW i \in Ids, Publish(s, u, i)
      PROVE  \E x : Enter(s, x)
  BY <1>3 DEF Publish, StartAt
<1>4. ASSUME NEW u \in Users, NEW p \in proposals, Approve(s, u, p)
      PROVE  \E x : Enter(s, x)
  BY <1>4 DEF Approve, StartAt
<1> QED BY <1>1, <1>2, <1>3, <1>4 DEF Begins

\* The kinds of step there are.
LEMMA Steps ==
    ASSUME [Next]_vars
    PROVE  \/ UNCHANGED vars
           \/ \E u \in Proposers, i \in Ids : Propose(u, i)
           \/ \E s \in Sessions : Begins(s) \/ Siblings(s) \/ GiveUp(s)
           \/ \E s \in Sessions, i \in Ids : Score(s, i)
           \/ \E s \in Sessions : Insert(s) \/ Flip(s) \/ Withdraw(s)
BY DEF Next, Begins

LEMMA WhoWrites ==
    ASSUME [Next]_vars
    PROVE  /\ line' = line
           /\ \/ rows' = rows /\ live' = live /\ clean' = clean /\ approved' = approved
              \/ \E s \in Sessions : Insert(s) \/ Flip(s) \/ Withdraw(s)
<1>1. ASSUME NEW s \in Sessions, Begins(s)
      PROVE  UNCHANGED <<line, rows, live, clean, approved>>
  <2>1. PICK x : Enter(s, x)
    BY <1>1, BeginsEnters
  <2> QED BY <2>1 DEF Enter
<1>2. ASSUME NEW s \in Sessions, Siblings(s) \/ GiveUp(s) \/ \E i \in Ids : Score(s, i)
      PROVE  UNCHANGED <<line, rows, live, clean, approved>>
  BY <1>2 DEF Siblings, GiveUp, Score
<1>3. ASSUME NEW u \in Proposers, NEW i \in Ids, Propose(u, i)
      PROVE  UNCHANGED <<line, rows, live, clean, approved>>
  BY <1>3 DEF Propose
<1>4. ASSUME NEW s \in Sessions, Insert(s) \/ Flip(s) \/ Withdraw(s)
      PROVE  line' = line
  BY <1>4 DEF Insert, Flip, Withdraw
<1> QED BY <1>1, <1>2, <1>3, <1>4, Steps DEF vars

LEMMA StepKeeps ==
    ASSUME StudioInv, [Next]_vars
    PROVE  RowsKeep /\ line' = line
<1>1. ASSUME NEW s \in Sessions, Insert(s)
      PROVE  RowsKeep
  BY <1>1, InsertInserts, InsertedKeeps, SameRows
<1> QED BY <1>1, SameRows, FlipKeeps, WithdrawKeeps, WhoWrites

-----------------------------------------------------------------------------
(* The evaluation gate.                                                    *)

LEMMA TwinsStay ==
    ASSUME StudioInv, [Next]_vars, NEW i \in Ids
    PROVE  Twins(i) \subseteq Twins(i)'
<1> SUFFICES ASSUME NEW j \in Twins(i) PROVE j \in Twins(i)'
  OBVIOUS
<1>1. j \in Ids \ {i} /\ rows[j].version = rows[i].version
  BY DEF Twins
<1>2. j \in Ids' /\ rows'[j].version = rows[j].version /\ rows'[i].version = rows[i].version
  BY <1>1, StepKeeps DEF RowsKeep, Keeps, Ids
<1> QED BY <1>1, <1>2 DEF Twins

LEMMA NewPass ==
    ASSUME StudioInv, [Next]_vars
    PROVE  /\ passes \subseteq passes'
           /\ \A e \in passes' \ passes :
                 /\ e \in [row : Ids, by : Users, text : Ids] /\ MayEvaluate(e.by, e.row)
                 /\ rows[e.text].good /\ (e.text = e.row \/ e.text \in Twins(e.row))
<1>1. passes' = passes \/ \E s \in Sessions, t \in Ids : Score(s, t)
  <2>1. ASSUME NEW s \in Sessions, Begins(s)
        PROVE  passes' = passes
    <3>1. PICK x : Enter(s, x)
      BY <2>1, BeginsEnters
    <3> QED BY <3>1 DEF Enter
  <2>2. ASSUME NEW s \in Sessions,
               Siblings(s) \/ GiveUp(s) \/ Insert(s) \/ Flip(s) \/ Withdraw(s)
        PROVE  passes' = passes
    BY <2>2 DEF Siblings, GiveUp, Insert, Flip, Withdraw
  <2> QED BY <2>1, <2>2, Steps DEF vars, Propose
<1>2. ASSUME NEW s \in Sessions, NEW t \in Ids, Score(s, t)
      PROVE  /\ passes \subseteq passes'
             /\ \A e \in passes' \ passes :
                   /\ e \in [row : Ids, by : Users, text : Ids] /\ MayEvaluate(e.by, e.row)
                   /\ rows[e.text].good /\ (e.text = e.row \/ e.text \in Twins(e.row))
  <2>1. passes' = passes \cup {[row |-> op[s].target, by |-> op[s].by, text |-> t]}
    BY <1>2 DEF Score
  <2>2. /\ op[s].how = "evaluate" /\ rows[t].good
        /\ t = op[s].target \/ t \in Twins(op[s].target)
    BY <1>2 DEF Score
  <2>3. /\ op[s].by \in Users /\ op[s].target \in Ids
        /\ MayEvaluate(op[s].by, op[s].target)
    BY <2>2 DEF StudioInv, Allowed
  <2> QED BY <2>1, <2>2, <2>3
<1> QED BY <1>1, <1>2

LEMMA PassesStay ==
    ASSUME StudioInv, [Next]_vars
    PROVE  passes' \subseteq [row : Ids', by : Users, text : Ids'] /\ PassesWereEarned'
<1>1. Ids \subseteq Ids'
  BY StepKeeps, TypesOf DEF RowsKeep
<1>2. ASSUME NEW e \in passes'
      PROVE  /\ e \in [row : Ids, by : Users, text : Ids] /\ MayEvaluate(e.by, e.row)
             /\ rows[e.text].good /\ (e.text = e.row \/ e.text \in Twins(e.row))
  BY NewPass DEF StudioInv, TypeOK, PassesWereEarned
<1>3. ASSUME NEW e \in passes'
      PROVE  /\ line'.scope = "org" => rows'[e.row].author # e.by
             /\ rows'[e.text].good /\ (e.text = e.row \/ e.text \in Twins(e.row)')
  <2>1. PICK r \in Ids, t \in Ids : r = e.row /\ t = e.text
    BY <1>2
  <2>2. rows'[r].author = rows[r].author /\ rows'[t].good = rows[t].good /\ line' = line
    BY StepKeeps DEF RowsKeep, Keeps
  <2>3. Twins(r) \subseteq Twins(r)'
    BY TwinsStay
  <2>4. /\ line.scope = "org" => rows[r].author # e.by
        /\ rows[t].good /\ (t = r \/ t \in Twins(r))
    BY <1>2, <2>1 DEF MayEvaluate
  <2>5. t = r \/ t \in Twins(r)'
    BY <2>3, <2>4
  <2>6. e.text = e.row \/ e.text \in Twins(e.row)'
    BY <2>1, <2>5 DEF Twins
  <2> QED BY <2>1, <2>2, <2>4, <2>6
<1>4. PassesWereEarned'
  BY <1>3 DEF PassesWereEarned, MayEvaluate
<1> QED BY <1>1, <1>2, <1>4

-----------------------------------------------------------------------------
(* The operations under way.                                               *)

OpFits(t) == op[t] \in Op /\ Allowed(t) /\ KnowsFlags(t) /\ LeavesAlone(t)

LEMMA IdleFits ==
    ASSUME NEW t \in Sessions, op'[t] = Idle
    PROVE  OpFits(t)'
<1>1. Idle.seen \in UNION {[S -> BOOLEAN] : S \in SUBSET Ids'} /\ DOMAIN Idle.seen = {}
  <2>1. Idle.seen \in [{} -> BOOLEAN] /\ DOMAIN Idle.seen = {}
    BY DEF Idle
  <2>2. {} \in SUBSET Ids'
    OBVIOUS
  <2> QED BY <2>1, <2>2
<1>2. /\ Idle.by = None /\ Idle.how = "none" /\ Idle.at = "idle" /\ Idle.target = 0
      /\ ~ Idle.late
  BY DEF Idle
<1>3. Idle \in Op'
  BY <1>1, <1>2 DEF Idle, Op
<1>4. Allowed(t)' /\ KnowsFlags(t)' /\ LeavesAlone(t)'
  BY <1>1, <1>2 DEF Allowed, KnowsFlags, LeavesAlone, Flips
<1> QED BY <1>3, <1>4 DEF OpFits

\* What an operation is allowed is not taken away, and its target stays.
LEMMA AllowedStays ==
    ASSUME StudioInv, [Next]_vars, NEW t \in Sessions,
           op'[t].by = op[t].by, op'[t].how = op[t].how, op'[t].target = op[t].target,
           op'[t].at = "read" => op[t].at = "read" /\ op'[t].seen = op[t].seen
    PROVE  Allowed(t)'
<1>1. Allowed(t) /\ line' = line /\ passes \subseteq passes'
  BY NewPass, StepKeeps DEF StudioInv
<1>2. \A i \in Ids : i \in Ids' /\ rows'[i].author = rows[i].author
  BY StepKeeps DEF RowsKeep, Keeps, Ids
<1> QED BY <1>1, <1>2 DEF Allowed, MayEvaluate

LEMMA OpGrows ==
    ASSUME StudioInv, [Next]_vars
    PROVE  Ids \subseteq Ids' /\ Op \subseteq Op'
<1>1. Ids \subseteq Ids'
  BY StepKeeps, TypesOf DEF RowsKeep
<1>2. UNION {[S -> BOOLEAN] : S \in SUBSET Ids} \subseteq UNION {[S -> BOOLEAN] : S \in SUBSET Ids'}
  BY <1>1
<1> QED BY <1>1, <1>2 DEF Op

LEMMA SameOpFits ==
    ASSUME StudioInv, [Next]_vars, NEW t \in Sessions, op'[t] = op[t], rows' = rows
    PROVE  OpFits(t)'
<1>1. op[t] \in Op' /\ line' = line
  BY TypesOf, OpGrows, StepKeeps
<1>2. KnowsFlags(t)' /\ LeavesAlone(t)'
  BY <1>1 DEF StudioInv, KnowsFlags, LeavesAlone, Ids, Undeleted, Rewrites
<1> QED BY <1>1, <1>2, AllowedStays DEF OpFits

\* After a commit the others go by flags that may be wrong, and are known to.
LEMMA CommitFits ==
    ASSUME StudioInv, [Next]_vars, NEW s \in Sessions, op' = Commit(s), NEW t \in Sessions
    PROVE  OpFits(t)'
<1>1. CASE t = s
  BY <1>1, IdleFits DEF Commit
<1>2. CASE t # s
  <2> DEFINE due == op[t].how \notin {"none", "draft", "evaluate"} /\ op[t].by \in Owners
  <2>1. op'[t] = [op[t] EXCEPT !.late = op[t].late \/ due]
    BY <1>2 DEF Commit
  <2>2. op[t] \in Op
    BY TypesOf
  <2>3. /\ op'[t] \in Op
        /\ op'[t].by = op[t].by /\ op'[t].how = op[t].how /\ op'[t].at = op[t].at
        /\ op'[t].target = op[t].target /\ op'[t].seen = op[t].seen
        /\ due => op'[t].late
    BY <2>1, <2>2 DEF Op
  <2>4. KnowsFlags(t)'
    BY <2>3 DEF KnowsFlags
  <2>5. LeavesAlone(t)'
    BY <2>3 DEF StudioInv, LeavesAlone, Rewrites
  <2> QED BY <2>3, <2>4, <2>5, AllowedStays, OpGrows DEF OpFits
<1> QED BY <1>1, <1>2

LEMMA SiblingsFits ==
    ASSUME StudioInv, [Next]_vars, NEW t \in Sessions, Siblings(t)
    PROVE  OpFits(t)'
<1> DEFINE x == op[t]
           S == IF line.kind = "profile" THEN Ids ELSE Undeleted
           read == [i \in S |-> IF i = x.target THEN x.seen[i] ELSE rows[i].active]
<1>1. x \in Op /\ Allowed(t) /\ KnowsFlags(t) /\ LeavesAlone(t) /\ x.at = "read"
  BY TypesOf DEF Siblings, StudioInv
<1>2. x.how \in Flips /\ x.by \in Owners /\ x.target \in Ids
  BY <1>1 DEF Allowed
<1>3. op'[t] = [x EXCEPT !.at = "write", !.seen = read]
  <2>1. op' = [op EXCEPT ![t] = [x EXCEPT !.at = "write", !.seen = read]]
    BY TypesOf DEF Siblings
  <2> QED BY <2>1, OneOp
<1>4. DOMAIN read = S /\ S \subseteq Ids
  BY DEF Undeleted
<1>5. read \in [S -> BOOLEAN]
  <2>1. x.target \in S => x.seen[x.target] \in BOOLEAN
    <3>1. PICK D \in SUBSET Ids : x.seen \in [D -> BOOLEAN] /\ DOMAIN x.seen = D
      BY SeenIsSeen
    <3>2. x.target \in D
      BY <1>1, <3>1 DEF Allowed
    <3> QED BY <3>1, <3>2
  <2>2. \A i \in S : rows[i].active \in BOOLEAN
    BY <1>4, TypesOf DEF Row
  <2> QED BY <2>1, <2>2
<1> HIDE DEF read
<1>6. /\ op'[t] \in Op
      /\ op'[t].by = x.by /\ op'[t].how = x.how /\ op'[t].target = x.target
      /\ op'[t].at = "write" /\ op'[t].seen = read /\ op'[t].late = x.late
  <2>1. read \in UNION {[D -> BOOLEAN] : D \in SUBSET Ids}
    BY <1>4, <1>5
  <2> QED BY <1>1, <1>3, <2>1 DEF Op
<1>7. rows' = rows /\ line' = line
  BY DEF Siblings
<1>8. KnowsFlags(t)'
  <2> SUFFICES ASSUME ~ x.late
               PROVE  /\ DOMAIN read = S
                      /\ \A i \in S : read[i] = rows[i].active
                      /\ line.kind = "skill" => x.target \in Undeleted
    BY <1>2, <1>4, <1>6, <1>7 DEF KnowsFlags, Ids, Undeleted, Flips
  <2>1. /\ DOMAIN x.seen = {x.target} /\ x.seen[x.target] = rows[x.target].active
        /\ line.kind = "skill" => x.target \in Undeleted
    BY <1>1, <1>2 DEF KnowsFlags, Flips
  <2> QED BY <1>4, <2>1 DEF read
<1>9. LeavesAlone(t)'
  BY <1>2, <1>6 DEF LeavesAlone, Rewrites, Flips
<1> QED BY <1>6, <1>8, <1>9, AllowedStays, OpGrows DEF OpFits

\* The rows a request must have read to know every flag it is to set.
ToRead(how, i) ==
    IF how = "unpublish" THEN {i} ELSE IF line.kind = "profile" THEN Ids ELSE Undeleted

LEMMA StartFits ==
    ASSUME StudioInv, [Next]_vars, NEW t \in Sessions, NEW u \in Users, NEW how \in Hows,
           NEW i \in Ids \cup {0}, NEW S \in SUBSET Ids, Start(t, u, how, i, S),
           how \in {"draft", "publish", "unpublish"} => line.kind = "profile",
           how \in {"create", "update", "delete", "activate"} => line.kind = "skill",
           how \in Flips \cup {"unpublish", "delete"} => u \in Owners,
           how \in Flips \cup {"unpublish", "evaluate"} => i \in Ids,
           how = "evaluate" => MayEvaluate(u, i),
           how # "approve",
           how \notin {"draft", "evaluate"} /\ u \in Owners =>
               /\ S = ToRead(how, i) /\ (how = "create" => S = {})
               /\ line.kind = "skill" /\ how \in Flips => i \in Undeleted
    PROVE  OpFits(t)'
<1> DEFINE seen == [j \in S |-> rows[j].active /\ Rewrites(u, how)]
           x == [by |-> u, how |-> how, at |-> "write", target |-> i, seen |-> seen,
                 late |-> FALSE]
<1>1. rows' = rows /\ line' = line /\ op' = [op EXCEPT ![t] = x]
  BY DEF Start, Enter
<1>2. op'[t] = x
  <2> HIDE DEF x
  <2> QED BY <1>1, OneOp
<1>3. seen \in [S -> BOOLEAN] /\ DOMAIN seen = S
  OBVIOUS
<1>4. \A j \in S : /\ seen[j] => Rewrites(u, how)
                   /\ Rewrites(u, how) => seen[j] = rows[j].active
  BY TypesOf DEF Row
<1> HIDE DEF seen
<1>5. /\ op'[t] \in Op
      /\ op'[t].by = u /\ op'[t].how = how /\ op'[t].at = "write" /\ op'[t].target = i
      /\ op'[t].seen = seen
  <2>1. seen \in UNION {[D -> BOOLEAN] : D \in SUBSET Ids}
    BY <1>3
  <2> QED BY <1>2, <2>1 DEF Op
<1>6. Allowed(t)'
  <2>1. how = "evaluate" => MayEvaluate(u, i)'
    BY <1>1 DEF MayEvaluate
  <2>2. Ids' = Ids
    BY <1>1 DEF Ids
  <2> QED BY <1>1, <1>5, <2>1, <2>2 DEF Allowed
<1>7. KnowsFlags(t)'
  <2> SUFFICES ASSUME how \notin {"draft", "evaluate"}, u \in Owners
               PROVE  /\ DOMAIN seen = ToRead(how, i)
                      /\ \A j \in S : seen[j] = rows[j].active
                      /\ line.kind = "skill" /\ how \in Flips => i \in Undeleted
    BY <1>1, <1>3, <1>5 DEF KnowsFlags, ToRead, Ids, Undeleted
  <2>1. how = "create" \/ Rewrites(u, how)
    BY DEF Rewrites
  <2> QED BY <1>3, <1>4, <2>1
<1>8. LeavesAlone(t)'
  BY <1>3, <1>4, <1>5 DEF LeavesAlone, Rewrites
<1> QED BY <1>5, <1>6, <1>7, <1>8, OpGrows DEF OpFits

LEMMA StartAtFits ==
    ASSUME StudioInv, [Next]_vars, NEW t \in Sessions, NEW u \in Owners,
           NEW how \in {"publish", "approve"}, NEW i \in Ids, StartAt(t, u, how, i),
           how = "publish" => line.kind = "profile",
           how = "approve" => \E e \in passes : e.row = i,
           line.kind = "skill" => i \in Undeleted
    PROVE  OpFits(t)'
<1> DEFINE seen == [j \in {i} |-> rows[j].active]
           x == [by |-> u, how |-> how, at |-> "read", target |-> i, seen |-> seen,
                 late |-> FALSE]
<1>1. /\ rows' = rows /\ line' = line /\ passes' = passes
      /\ op' = [op EXCEPT ![t] = x]
  BY DEF StartAt, Enter
<1>2. op'[t] = x
  <2> HIDE DEF x
  <2> QED BY <1>1, OneOp
<1>3. seen \in [{i} -> BOOLEAN] /\ DOMAIN seen = {i} /\ seen[i] = rows[i].active
  BY TypesOf DEF Row
<1> HIDE DEF seen
<1>4. /\ op'[t] \in Op
      /\ op'[t].by = u /\ op'[t].how = how /\ op'[t].at = "read" /\ op'[t].target = i
      /\ op'[t].seen = seen
  <2>1. {i} \in SUBSET Ids
    OBVIOUS
  <2>2. seen \in UNION {[D -> BOOLEAN] : D \in SUBSET Ids}
    BY <1>3, <2>1
  <2> QED BY <1>2, <2>2 DEF Op, Hows, Flips
<1>5. Allowed(t)'
  BY <1>1, <1>3, <1>4 DEF Allowed, Flips, Ids
<1>6. KnowsFlags(t)'
  BY <1>1, <1>3, <1>4 DEF KnowsFlags, Undeleted, Ids
<1>7. LeavesAlone(t)'
  BY <1>4 DEF LeavesAlone, Rewrites
<1> QED BY <1>4, <1>5, <1>6, <1>7, OpGrows DEF OpFits

LEMMA BeginsFits ==
    ASSUME StudioInv, [Next]_vars, NEW t \in Sessions, Begins(t)
    PROVE  OpFits(t)'
<1>1. Undeleted \subseteq Ids /\ line.kind \in {"profile", "skill"}
  BY TypesOf DEF Undeleted
<1>2. ASSUME NEW u \in Users, Draft(t, u)
      PROVE  OpFits(t)'
  BY <1>1, <1>2, StartFits DEF Draft, Hows, Flips
<1>3. ASSUME NEW u \in Users, Create(t, u)
      PROVE  OpFits(t)'
  <2>1. {} = ToRead("create", 0) /\ line.kind = "skill" /\ Start(t, u, "create", 0, {})
    BY <1>3 DEF Create, ToRead
  <2> QED BY <1>1, <2>1, StartFits DEF Hows, Flips
<1>4. ASSUME NEW u \in Users, Update(t, u)
      PROVE  OpFits(t)'
  <2>1. /\ Undeleted = ToRead("update", 0) /\ line.kind = "skill"
        /\ Start(t, u, "update", 0, Undeleted)
    BY <1>4 DEF Update, ToRead
  <2> QED BY <1>1, <2>1, StartFits DEF Hows, Flips
<1>5. ASSUME NEW u \in Users, Delete(t, u)
      PROVE  OpFits(t)'
  <2>1. /\ Undeleted = ToRead("delete", 0) /\ line.kind = "skill" /\ u \in Owners
        /\ Start(t, u, "delete", 0, Undeleted)
    BY <1>5 DEF Delete, ToRead
  <2> QED BY <1>1, <2>1, StartFits DEF Hows, Flips
<1>6. ASSUME NEW u \in Users, NEW i \in Ids, Unpublish(t, u, i)
      PROVE  OpFits(t)'
  <2>1. /\ {i} = ToRead("unpublish", i) /\ line.kind = "profile" /\ u \in Owners
        /\ Start(t, u, "unpublish", i, {i})
    BY <1>6 DEF Unpublish, ToRead
  <2> QED BY <1>1, <2>1, StartFits DEF Hows, Flips
<1>7. ASSUME NEW u \in Users, NEW i \in Ids, Activate(t, u, i)
      PROVE  OpFits(t)'
  <2>1. /\ Undeleted = ToRead("activate", i) /\ line.kind = "skill" /\ u \in Owners
        /\ i \in Undeleted /\ Start(t, u, "activate", i, Undeleted)
    BY <1>7 DEF Activate, ToRead
  <2> QED BY <1>1, <2>1, StartFits DEF Hows, Flips
<1>8. ASSUME NEW u \in Users, NEW i \in Ids, Evaluate(t, u, i)
      PROVE  OpFits(t)'
  <2>1. MayEvaluate(u, i) /\ Start(t, u, "evaluate", i, {})
    BY <1>8 DEF Evaluate
  <2> QED BY <1>1, <2>1, StartFits DEF Hows, Flips
<1>9. ASSUME NEW u \in Users, NEW i \in Ids, Publish(t, u, i)
      PROVE  OpFits(t)'
  BY <1>9, StartAtFits DEF Publish
<1>10. ASSUME NEW u \in Users, NEW p \in proposals, Approve(t, u, p)
       PROVE  OpFits(t)'
  <2>1. p.row \in Ids
    BY DEF StudioInv, TypeOK
  <2>2. /\ u \in Owners /\ (line.kind = "skill" => p.row \in Undeleted)
        /\ \E e \in passes : e.row = p.row
        /\ StartAt(t, u, "approve", p.row)
    BY <1>10 DEF Approve
  <2> QED BY <2>1, <2>2, StartAtFits
<1> QED BY <1>2, <1>3, <1>4, <1>5, <1>6, <1>7, <1>8, <1>9, <1>10 DEF Begins

LEMMA OpsStay ==
    ASSUME StudioInv, [Next]_vars
    PROVE  op' \in [Sessions -> Op'] /\ \A t \in Sessions : OpFits(t)'
<1>1. ASSUME NEW s \in Sessions,
             op' = Commit(s) \/ \E x : rows' = rows /\ OpFits(s)' /\ op' = [op EXCEPT ![s] = x]
      PROVE  \A t \in Sessions : OpFits(t)'
  <2>1. CASE op' = Commit(s)
    BY <2>1, CommitFits
  <2>2. ASSUME NEW x, rows' = rows, OpFits(s)', op' = [op EXCEPT ![s] = x]
        PROVE  \A t \in Sessions : OpFits(t)'
    BY <2>2, OneOp, SameOpFits
  <2> QED BY <1>1, <2>1, <2>2
<1>2. ASSUME NEW s \in Sessions, op' = [op EXCEPT ![s] = Idle]
      PROVE  OpFits(s)'
  BY <1>2, OneOp, IdleFits
<1>3. ASSUME NEW s \in Sessions, Insert(s) \/ Flip(s) \/ Withdraw(s)
      PROVE  op' = Commit(s) \/ (rows' = rows /\ op' = [op EXCEPT ![s] = Idle])
  BY <1>3, InsertInserts DEF Flip, Withdraw
<1>4. ASSUME NEW s \in Sessions, Begins(s)
      PROVE  \E x : rows' = rows /\ OpFits(s)' /\ op' = [op EXCEPT ![s] = x]
  <2>1. PICK x : Enter(s, x)
    BY <1>4, BeginsEnters
  <2> QED BY <1>4, <2>1, BeginsFits DEF Enter
<1>5. ASSUME NEW s \in Sessions, Siblings(s)
      PROVE  \E x : rows' = rows /\ OpFits(s)' /\ op' = [op EXCEPT ![s] = x]
  <2>1. rows' = rows /\ \E x : op' = [op EXCEPT ![s] = x]
    BY <1>5 DEF Siblings
  <2> QED BY <1>5, <2>1, SiblingsFits
<1>6. ASSUME NEW s \in Sessions, GiveUp(s) \/ \E i \in Ids : Score(s, i)
      PROVE  rows' = rows /\ op' = [op EXCEPT ![s] = Idle]
  BY <1>6 DEF GiveUp, Score
<1>7. ASSUME UNCHANGED vars \/ \E u \in Proposers, i \in Ids : Propose(u, i)
      PROVE  rows' = rows /\ op' = op
  BY <1>7 DEF vars, Propose
<1>8. \A t \in Sessions : OpFits(t)'
  <2>1. CASE rows' = rows /\ op' = op
    BY <2>1, SameOpFits
  <2>2. ASSUME NEW s \in Sessions,
               \/ Begins(s) \/ Siblings(s) \/ GiveUp(s) \/ \E i \in Ids : Score(s, i)
               \/ Insert(s) \/ Flip(s) \/ Withdraw(s)
        PROVE  \A t \in Sessions : OpFits(t)'
    BY <1>1, <1>2, <1>3, <1>4, <1>5, <1>6, <2>2
  <2> QED BY <1>7, <2>1, <2>2, Steps
<1>9. op' = [t \in Sessions |-> op'[t]]
  <2>1. \E s, x : op' = op \/ op' = [op EXCEPT ![s] = x] \/ op' = Commit(s)
    BY <1>3, <1>4, <1>5, <1>6, <1>7, Steps
  <2>2. op = [t \in Sessions |-> op[t]]
    BY TypesOf
  <2>3. ASSUME NEW s, op' = Commit(s)
        PROVE  op' = [t \in Sessions |-> op'[t]]
    BY <2>3 DEF Commit
  <2>4. ASSUME NEW s, NEW x, op' = [op EXCEPT ![s] = x]
        PROVE  op' = [t \in Sessions |-> op'[t]]
    BY <2>2, <2>4
  <2> QED BY <2>1, <2>2, <2>3, <2>4
<1> QED BY <1>8, <1>9 DEF OpFits

-----------------------------------------------------------------------------
(* What was published, and what was approved.                              *)

LEMMA ApprovedStays ==
    ASSUME StudioInv, [Next]_vars
    PROVE  /\ approved' \subseteq Ids' /\ ApprovedHasPass'
           /\ proposals' \subseteq [row : Ids', by : Users]
<1>1. Ids \subseteq Ids' /\ passes \subseteq passes'
  BY OpGrows, NewPass
<1>2. approved \subseteq Ids /\ ApprovedHasPass /\ proposals \subseteq [row : Ids, by : Users]
  BY DEF StudioInv, TypeOK
<1>3. \/ approved' = approved
      \/ \E s \in Sessions : /\ op[s].how = "approve"
                             /\ approved' = approved \cup {op[s].target}
  <2>1. ASSUME NEW s \in Sessions, Insert(s) \/ Flip(s) \/ Withdraw(s)
        PROVE  \/ approved' = approved
               \/ op[s].how = "approve" /\ approved' = approved \cup {op[s].target}
    BY <2>1 DEF Insert, Flip, Withdraw
  <2> QED BY <2>1, WhoWrites
<1>4. \A s \in Sessions : op[s].how = "approve" =>
         op[s].target \in Ids /\ \E e \in passes : e.row = op[s].target
  BY DEF StudioInv, Allowed, Flips
<1>5. \A i \in approved' : i \in Ids /\ \E e \in passes : e.row = i
  BY <1>2, <1>3, <1>4 DEF ApprovedHasPass
<1>6. proposals' \subseteq [row : Ids, by : Users]
  <2>1. ASSUME NEW s \in Sessions, Begins(s)
        PROVE  proposals' = proposals
    <3>1. PICK x : Enter(s, x)
      BY <2>1, BeginsEnters
    <3> QED BY <3>1 DEF Enter
  <2>2. ASSUME NEW s \in Sessions,
               Siblings(s) \/ GiveUp(s) \/ Insert(s) \/ Flip(s) \/ Withdraw(s)
        PROVE  proposals' \subseteq proposals
    BY <2>2 DEF Siblings, GiveUp, Insert, Flip, Withdraw
  <2>3. ASSUME NEW s \in Sessions, NEW i \in Ids, Score(s, i)
        PROVE  proposals' = proposals
    BY <2>3 DEF Score
  <2>4. ASSUME NEW u \in Proposers, NEW i \in Ids, Propose(u, i)
        PROVE  proposals' \subseteq [row : Ids, by : Users]
    BY <1>2, <2>4 DEF Propose
  <2> QED BY <1>2, <2>1, <2>2, <2>3, <2>4, Steps DEF vars
<1>7. ApprovedHasPass'
  BY <1>1, <1>5 DEF ApprovedHasPass
<1> QED BY <1>1, <1>5, <1>6, <1>7

\* What the invariant says of the published row, and of the flags.
Healed ==
    /\ live \in Ids \cup {0} /\ clean \in BOOLEAN
    /\ PublishHeals /\ ProfilesAreSimple

LEMMA NothingNewHeals ==
    ASSUME StudioInv, UNCHANGED <<line, rows, live, clean>>
    PROVE  Healed'
BY DEF StudioInv, TypeOK, Healed, PublishHeals, ProfilesAreSimple, Active, Undeleted, Twins, Ids

\* A new row that does not go live changes no flag.
LEMMA DraftHeals ==
    ASSUME StudioInv, NEW s \in Sessions, Inserted(s), line' = line,
           op[s].how \in {"draft", "create", "update"},
           ~ (line.kind = "skill" /\ op[s].by \in Owners),
           live' = live, clean' = clean
    PROVE  Healed'
<1>1. /\ live \in Ids \cup {0} /\ clean \in BOOLEAN /\ PublishHeals /\ ProfilesAreSimple
      /\ Allowed(s) /\ LeavesAlone(s)
  BY DEF StudioInv, TypeOK
<1>2. Ids' = Ids \cup {Len(rows) + 1} /\ Len(rows) + 1 \notin Ids /\ Len(rows) + 1 # 0
  BY TypesOf DEF Inserted, Ids
<1>3. \A i \in Ids : rows'[i] = rows[i]
  BY <1>1 DEF Inserted, Allowed, LeavesAlone, Rewrites
<1>4. ~ rows'[Len(rows) + 1].active /\ ~ rows'[Len(rows) + 1].deleted
  <2>1. PICK good \in BOOLEAN :
           rows'[Len(rows) + 1] =
               [version |-> NextVersion(op[s]), author |-> op[s].by, good |-> good,
                active |-> line.kind = "skill" /\ op[s].by \in Owners, deleted |-> FALSE]
    BY DEF Inserted
  <2>2. /\ rows'[Len(rows) + 1].active = (line.kind = "skill" /\ op[s].by \in Owners)
        /\ rows'[Len(rows) + 1].deleted = FALSE
    BY <2>1
  <2> QED BY <2>2
<1>5. Undeleted' = Undeleted \cup {Len(rows) + 1} /\ Active' = Active
  BY <1>2, <1>3, <1>4 DEF Undeleted, Active
<1>6. \A i \in Ids : Twins(i) \subseteq Twins(i)'
  BY <1>2, <1>3 DEF Twins
<1>7. Active \subseteq Ids
  BY DEF Active, Undeleted
<1>8. PublishHeals'
  <2> SUFFICES ASSUME clean
               PROVE  /\ live # 0 => live \in Active
                      /\ \A i \in Active : live # 0 /\ (i = live \/ i \in Twins(live)')
    BY <1>5 DEF PublishHeals
  <2>1. /\ live # 0 => live \in Active
        /\ \A i \in Active : live # 0 /\ (i = live \/ i \in Twins(live))
    BY <1>1 DEF PublishHeals
  <2>2. live # 0 => Twins(live) \subseteq Twins(live)'
    BY <1>1, <1>6
  <2> QED BY <2>1, <2>2
<1>9. ProfilesAreSimple'
  BY <1>1, <1>2, <1>5 DEF ProfilesAreSimple
<1> QED BY <1>1, <1>2, <1>8, <1>9 DEF Healed

\* An owner's new skill version that was not overtaken is the only active one.
LEMMA LiveHeals ==
    ASSUME StudioInv, NEW s \in Sessions, Inserted(s), line' = line,
           op[s].how \in {"draft", "create", "update"}, op[s].at = "write",
           line.kind = "skill", op[s].by \in Owners,
           live' = Len(rows) + 1, clean' = ~ op[s].late
    PROVE  Healed'
<1> DEFINE n == Len(rows) + 1
<1>1. Ids' = Ids \cup {n} /\ n \notin Ids /\ n # 0 /\ \A i \in Ids : rows[i] \in Row
  BY TypesOf DEF Inserted, Ids
<1>2. clean' \in BOOLEAN /\ ProfilesAreSimple'
  BY DEF ProfilesAreSimple
<1>3. rows'[n].active /\ ~ rows'[n].deleted
  <2>1. PICK good \in BOOLEAN :
           rows'[n] = [version |-> NextVersion(op[s]), author |-> op[s].by, good |-> good,
                       active |-> line.kind = "skill" /\ op[s].by \in Owners,
                       deleted |-> FALSE]
    BY DEF Inserted
  <2>2. /\ rows'[n].active = (line.kind = "skill" /\ op[s].by \in Owners)
        /\ rows'[n].deleted = FALSE
    BY <2>1
  <2> QED BY <2>2
<1>4. ASSUME ~ op[s].late
      PROVE  Active' = {n}
  <2>1. op[s].how \in {"create", "update"}
    BY DEF StudioInv, Allowed
  <2>2. DOMAIN op[s].seen = Undeleted /\ \A i \in Undeleted : op[s].seen[i] = rows[i].active
    BY <1>4, <2>1 DEF StudioInv, KnowsFlags
  <2>3. \A i \in Ids : ~ (rows'[i].active /\ ~ rows'[i].deleted)
    <3> SUFFICES ASSUME NEW i \in Ids
                 PROVE  ~ (rows'[i].active /\ ~ rows'[i].deleted)
      OBVIOUS
    <3>1. rows'[i] = IF i \in DOMAIN op[s].seen /\ op[s].seen[i]
                     THEN [rows[i] EXCEPT !.active = FALSE] ELSE rows[i]
      BY DEF Inserted
    <3>2. rows[i] \in Row
      BY <1>1
    <3>3. CASE i \in Undeleted /\ rows[i].active
      <4>1. rows'[i] = [rows[i] EXCEPT !.active = FALSE]
        BY <2>2, <3>1, <3>3
      <4> QED BY <3>2, <4>1 DEF Row
    <3>4. CASE ~ (i \in Undeleted /\ rows[i].active)
      <4>1. rows'[i] = rows[i]
        BY <2>2, <3>1, <3>4
      <4> QED BY <3>4, <4>1 DEF Undeleted
    <3> QED BY <3>3, <3>4
  <2> HIDE DEF n
  <2> QED BY <1>1, <1>3, <2>3 DEF Active, Undeleted
<1>5. live' \in Ids' \cup {0}
  BY <1>1
<1>6. PublishHeals'
  BY <1>1, <1>4 DEF PublishHeals
<1> QED BY <1>2, <1>5, <1>6 DEF Healed

LEMMA FlipHeals ==
    ASSUME StudioInv, NEW s \in Sessions, Flip(s)
    PROVE  Healed'
<1> DEFINE x == op[s]
<1>1. /\ x.at = "write" /\ x.how \in Flips /\ x.by \in Owners /\ x.target \in Ids
      /\ live' = x.target /\ clean' = ~ x.late /\ line' = line
      /\ x.how = "activate" => line.kind = "skill"
      /\ line.kind \in {"profile", "skill"}
  BY TypesOf DEF Flip, StudioInv, Allowed
<1>2. /\ Len(rows') = Len(rows)
      /\ \A i \in Ids :
            rows'[i] = IF i \in DOMAIN x.seen /\ x.seen[i] # Wanted(x, i)
                       THEN [rows[i] EXCEPT !.active = Wanted(x, i)] ELSE rows[i]
  BY FlipKeeps
<1>3. Ids' = Ids
  BY <1>2, FlipKeeps, TypesOf DEF RowsKeep
<1>4. \A i \in Ids : /\ rows'[i].deleted = rows[i].deleted
                     /\ rows'[i].version = rows[i].version
  BY <1>2, TypesOf DEF Row
<1>5. Undeleted' = Undeleted /\ Undeleted \subseteq Ids
  BY <1>3, <1>4 DEF Undeleted
<1>6. line.kind = "profile" => Undeleted = Ids
  BY DEF StudioInv, ProfilesAreSimple
<1>7. ASSUME ~ x.late
      PROVE  /\ Active' = {i \in Undeleted : Wanted(x, i)}
             /\ x.target \in Undeleted
  <2>1. /\ DOMAIN x.seen = Undeleted
        /\ \A i \in Undeleted : x.seen[i] = rows[i].active
        /\ x.target \in Undeleted
    BY <1>1, <1>6, <1>7 DEF StudioInv, KnowsFlags, Flips
  <2>2. ASSUME NEW i \in Undeleted
        PROVE  rows'[i].active <=> Wanted(x, i)
    <3>1. rows[i] \in Row /\ rows[i].active \in BOOLEAN /\ i \in Ids
      BY <1>5, TypesOf DEF Row
    <3>2. CASE rows[i].active = Wanted(x, i)
      BY <1>2, <2>1, <3>1, <3>2
    <3>3. CASE rows[i].active # Wanted(x, i)
      <4>1. rows'[i] = [rows[i] EXCEPT !.active = Wanted(x, i)]
        BY <1>2, <2>1, <3>1, <3>3
      <4>2. rows'[i].active = Wanted(x, i)
        BY <3>1, <4>1 DEF Row
      <4> QED BY <4>2
    <3> QED BY <3>2, <3>3
  <2> QED BY <1>5, <2>1, <2>2 DEF Active
<1>8. \A i \in Ids : Wanted(x, i) =>
         /\ i = x.target \/ rows[i].version = rows[x.target].version
         /\ line.kind = "profile" => i = x.target
  BY <1>1 DEF Wanted
<1>9. Wanted(x, x.target)
  BY DEF Wanted
<1> HIDE DEF x
<1>10. PublishHeals'
  <2>1. PICK r \in Ids : r = x.target /\ r = live' /\ r # 0
    BY <1>1, TypesOf
  <2> SUFFICES ASSUME ~ x.late
               PROVE  r \in Active' /\ \A i \in Active' : i = r \/ i \in Twins(r)'
    BY <1>1, <2>1 DEF PublishHeals, Twins
  <2>2. \A i \in Active' : i \in Ids /\ Wanted(x, i)
    BY <1>5, <1>7
  <2>3. \A i \in Active' : i = r \/ i \in Twins(r)'
    BY <1>3, <1>4, <1>8, <2>1, <2>2 DEF Twins
  <2> QED BY <1>7, <1>9, <2>1, <2>3
<1>11. ProfilesAreSimple'
  <2>1. line.kind = "profile" /\ ~ x.late => Active' \subseteq {x.target}
    BY <1>5, <1>7, <1>8
  <2> QED BY <1>1, <1>3, <1>5, <1>6, <2>1 DEF ProfilesAreSimple
<1>12. live' \in Ids' \cup {0} /\ clean' \in BOOLEAN
  BY <1>1, <1>3
<1> QED BY <1>10, <1>11, <1>12 DEF Healed

LEMMA WithdrawHeals ==
    ASSUME StudioInv, NEW s \in Sessions, Withdraw(s)
    PROVE  Healed'
<1> DEFINE x == op[s]
<1>1. /\ x.at = "write" /\ x.how \in {"unpublish", "delete"} /\ x.by \in Owners
      /\ live' = IF x.how = "delete" \/ live = x.target THEN 0 ELSE live
      /\ clean' = (clean /\ ~ x.late) /\ line' = line
      /\ x.how = "delete" => line.kind = "skill"
      /\ x.how = "unpublish" => line.kind = "profile"
  BY DEF Withdraw, StudioInv, Allowed
<1>2. /\ Len(rows') = Len(rows)
      /\ \A i \in Ids :
            rows'[i] = IF i \notin DOMAIN x.seen THEN rows[i]
                       ELSE [rows[i] EXCEPT !.active = rows[i].active /\ ~ x.seen[i],
                                            !.deleted = rows[i].deleted \/ x.how = "delete"]
  BY WithdrawKeeps
<1>3. Ids' = Ids /\ \A i \in Ids : rows[i] \in Row
  BY <1>2, WithdrawKeeps, TypesOf DEF RowsKeep
<1>4. live \in Ids \cup {0} /\ live' \in Ids' \cup {0} /\ clean' \in BOOLEAN
  BY <1>1, <1>3 DEF StudioInv, TypeOK
<1>5. CASE x.how = "delete"
  <2>1. live' = 0 /\ ProfilesAreSimple'
    BY <1>1, <1>5 DEF ProfilesAreSimple
  <2>2. ASSUME ~ x.late
        PROVE  Active' = {}
    <3>1. DOMAIN x.seen = Undeleted
      BY <1>1, <1>5, <2>2 DEF StudioInv, KnowsFlags
    <3>2. ASSUME NEW i \in Ids
          PROVE  rows'[i].deleted
      <4>1. CASE i \in Undeleted
        <5>1. rows'[i] = [rows[i] EXCEPT !.active = rows[i].active /\ ~ x.seen[i],
                                         !.deleted = rows[i].deleted \/ x.how = "delete"]
          BY <1>2, <3>1, <4>1
        <5>2. rows'[i].deleted = (rows[i].deleted \/ x.how = "delete")
          BY <1>3, <5>1 DEF Row
        <5> QED BY <1>5, <5>2
      <4>2. CASE i \notin Undeleted
        BY <1>2, <3>1, <4>2 DEF Undeleted
      <4> QED BY <4>1, <4>2
    <3> QED BY <1>3, <3>2 DEF Active, Undeleted
  <2> HIDE DEF x
  <2>3. PublishHeals'
    BY <1>1, <2>1, <2>2 DEF PublishHeals
  <2> QED BY <1>4, <2>1, <2>3 DEF Healed
<1>6. CASE x.how = "unpublish"
  <2>1. line.kind = "profile" /\ Undeleted = Ids /\ (clean => Active \subseteq {live})
    BY <1>1, <1>6 DEF StudioInv, ProfilesAreSimple
  <2>2. \A i \in Ids : ~ rows'[i].deleted
    <3> SUFFICES ASSUME NEW i \in Ids PROVE ~ rows'[i].deleted
      OBVIOUS
    <3>1. CASE i \notin DOMAIN x.seen
      BY <1>2, <2>1, <3>1 DEF Undeleted
    <3>2. CASE i \in DOMAIN x.seen
      <4>1. rows'[i] = [rows[i] EXCEPT !.active = rows[i].active /\ ~ x.seen[i],
                                       !.deleted = rows[i].deleted \/ x.how = "delete"]
        BY <1>2, <3>2
      <4>2. rows'[i].deleted = (rows[i].deleted \/ x.how = "delete")
        BY <1>3, <4>1 DEF Row
      <4> QED BY <1>6, <2>1, <4>2 DEF Undeleted
    <3> QED BY <3>1, <3>2
  <2>3. Undeleted' = Ids'
    BY <1>3, <2>2 DEF Undeleted
  <2>4. ASSUME clean, ~ x.late
        PROVE  Active' = Active \ {x.target}
    <3>1. DOMAIN x.seen = {x.target} /\ x.seen[x.target] = rows[x.target].active
      BY <1>1, <1>6, <2>4 DEF StudioInv, KnowsFlags
    <3>2. \A i \in Ids \ {x.target} : rows'[i] = rows[i]
      BY <1>2, <3>1
    <3>3. x.target \in Ids => ~ rows'[x.target].active
      <4> SUFFICES ASSUME x.target \in Ids PROVE ~ rows'[x.target].active
        OBVIOUS
      <4>1. rows'[x.target] =
               [rows[x.target] EXCEPT
                   !.active = rows[x.target].active /\ ~ x.seen[x.target],
                   !.deleted = rows[x.target].deleted \/ x.how = "delete"]
        BY <1>2, <3>1
      <4>2. rows'[x.target].active = (rows[x.target].active /\ ~ x.seen[x.target])
        BY <1>3, <4>1 DEF Row
      <4> QED BY <3>1, <4>2
    <3> HIDE DEF x
    <3> QED BY <1>3, <2>1, <2>3, <3>2, <3>3 DEF Active
  <2> HIDE DEF x
  <2>5. PublishHeals'
    <3> SUFFICES ASSUME clean, ~ x.late
                 PROVE  /\ live' # 0 => live' \in Active'
                        /\ \A i \in Active' : live' # 0 /\ i = live'
      BY <1>1 DEF PublishHeals
    <3>1. /\ live # 0 => live \in Active
          /\ \A i \in Active : live # 0 /\ i = live
      BY <2>1 DEF StudioInv, PublishHeals
    <3> QED BY <1>1, <1>6, <2>4, <3>1
  <2>6. ProfilesAreSimple'
    <3>1. clean /\ ~ x.late => Active' \subseteq {live'}
      BY <1>1, <1>6, <2>1, <2>4
    <3> QED BY <1>1, <2>3, <3>1 DEF ProfilesAreSimple
  <2> QED BY <1>4, <2>5, <2>6 DEF Healed
<1> QED BY <1>1, <1>5, <1>6

LEMMA StepHeals ==
    ASSUME StudioInv, [Next]_vars
    PROVE  Healed'
<1>1. line' = line
  BY StepKeeps
<1>2. CASE UNCHANGED <<rows, live, clean>>
  BY <1>1, <1>2, NothingNewHeals
<1>3. ASSUME NEW s \in Sessions, Insert(s)
      PROVE  Healed'
  <2>1. CASE rows' = rows /\ live' = live /\ clean' = clean
    BY <1>2, <2>1
  <2>2. CASE Inserted(s)
    <3>1. /\ op[s].at = "write" /\ op[s].how \in {"draft", "create", "update"}
          /\ Len(rows') = Len(rows) + 1
      BY <1>3, <2>2 DEF Insert, Inserted
    <3>2. ~ Refused(NextVersion(op[s]))
      <4>1. Len(rows) # Len(rows) + 1
        BY TypesOf
      <4> QED BY <1>3, <3>1, <4>1 DEF Insert
    <3>3. CASE line.kind = "skill" /\ op[s].by \in Owners
      <4>1. live' = Len(rows) + 1 /\ clean' = ~ op[s].late
        BY <1>3, <3>2, <3>3 DEF Insert
      <4> QED BY <1>1, <2>2, <3>1, <3>3, <4>1, LiveHeals
    <3>4. CASE ~ (line.kind = "skill" /\ op[s].by \in Owners)
      <4>1. live' = live /\ clean' = clean
        BY <1>3, <3>2, <3>4 DEF Insert
      <4> QED BY <1>1, <2>2, <3>1, <3>4, <4>1, DraftHeals
    <3> QED BY <3>3, <3>4
  <2> QED BY <1>3, <2>1, <2>2, InsertInserts
<1> QED BY <1>2, <1>3, FlipHeals, WithdrawHeals, WhoWrites

-----------------------------------------------------------------------------
(* The invariant, and what it implies.                                     *)

LEMMA StudioInvInit ==
    ASSUME Init
    PROVE  StudioInv
<1>1. /\ line \in Lines /\ rows = <<>> /\ op = [s \in Sessions |-> Idle]
      /\ passes = {} /\ proposals = {} /\ live = 0 /\ clean = TRUE /\ approved = {}
  BY DEF Init
<1>2. rows \in Seq(Row) /\ Len(rows) <= MaxRows /\ Ids = {}
  BY <1>1 DEF Ids
<1>3. Idle.seen \in [{} -> BOOLEAN] /\ DOMAIN Idle.seen = {}
  BY DEF Idle
<1>4. Idle \in Op
  <2>1. Idle.seen \in UNION {[S -> BOOLEAN] : S \in SUBSET Ids}
    BY <1>3
  <2> QED BY <2>1 DEF Idle, Op
<1>5. TypeOK
  BY <1>1, <1>2, <1>4 DEF TypeOK
<1>6. ASSUME NEW s \in Sessions
      PROVE  Allowed(s) /\ KnowsFlags(s) /\ LeavesAlone(s)
  <2>1. op[s] = Idle
    BY <1>1
  <2>2. Idle.how = "none" /\ Idle.at = "idle"
    BY DEF Idle
  <2> QED BY <1>3, <2>1, <2>2 DEF Allowed, KnowsFlags, LeavesAlone, Flips
<1>7. Undeleted = {} /\ Active = {}
  BY <1>2 DEF Undeleted, Active
<1>8. ProfilesAreSimple /\ PublishHeals
  BY <1>1, <1>2, <1>7 DEF ProfilesAreSimple, PublishHeals
<1> QED BY <1>1, <1>2, <1>5, <1>6, <1>8
        DEF StudioInv, VersionsAreInOrder, PassesWereEarned, ApprovedHasPass

LEMMA StudioInvStep ==
    ASSUME StudioInv, [Next]_vars
    PROVE  StudioInv'
<1>1. TypeOK'
  BY TypesOf, StepKeeps, OpsStay, PassesStay, ApprovedStays, StepHeals
     DEF TypeOK, RowsKeep, Healed
<1>2. VersionsAreInOrder'
  <2> SUFFICES ASSUME NEW i \in Ids' PROVE rows'[i].version <= i
    BY DEF VersionsAreInOrder
  <2>1. CASE i \in Ids
    BY <2>1, StepKeeps DEF RowsKeep, Keeps, StudioInv, VersionsAreInOrder
  <2>2. CASE i \notin Ids
    BY <2>2, StepKeeps DEF RowsKeep
  <2> QED BY <2>1, <2>2
<1>3. \A t \in Sessions : Allowed(t)' /\ KnowsFlags(t)' /\ LeavesAlone(t)'
  BY OpsStay DEF OpFits
<1> QED BY <1>1, <1>2, <1>3, PassesStay, ApprovedStays, StepHeals DEF StudioInv, Healed

LEMMA StudioInvHolds == Spec => []StudioInv
<1>1. Init => StudioInv
  BY StudioInvInit
<1>2. StudioInv /\ [Next]_vars => StudioInv'
  BY StudioInvStep
<1> QED BY <1>1, <1>2, PTL DEF Spec

\* Every variable keeps the type the module gives it; in particular no version
\* number exceeds the number of rows that were ever inserted.
THEOREM StudioTyped == Spec => []TypeOK
<1>1. StudioInv => TypeOK
  BY DEF StudioInv
<1> QED BY <1>1, StudioInvHolds, PTL

\* What an approval published has a pass of its own, at the organization by
\* somebody other than its author, however propose, evaluate and decide
\* interleave; only a row of the same version can have lent it its text.
THEOREM ApprovalsWereEvaluated == Spec => []ApprovedWasEvaluated
<1>1. StudioInv => ApprovedWasEvaluated
  <2> SUFFICES ASSUME StudioInv, NEW i \in approved
               PROVE  /\ \E e \in passes :
                           e.row = i /\ (line.scope = "org" => e.by # rows[i].author)
                      /\ rows[i].good \/ Twins(i) # {}
    BY DEF ApprovedWasEvaluated
  <2>1. PICK e \in passes : e.row = i
    BY DEF StudioInv, ApprovedHasPass
  <2>2. /\ MayEvaluate(e.by, i)
        /\ rows[e.text].good /\ (e.text = i \/ e.text \in Twins(i))
    BY <2>1 DEF StudioInv, PassesWereEarned
  <2> QED BY <2>1, <2>2 DEF MayEvaluate
<1> QED BY <1>1, StudioInvHolds, PTL

\* A publish, activation, approval, withdrawal or deletion that no other write
\* overtook leaves its row active and no other but rows that share its version,
\* whatever flags the races before it had left behind.
THEOREM CleanPublishesHeal == Spec => []PublishHeals
<1>1. StudioInv => PublishHeals
  BY DEF StudioInv
<1> QED BY <1>1, StudioInvHolds, PTL
=============================================================================
