----------------------- MODULE ArtifactVersionsProofs -----------------------
(***************************************************************************)
(* Proofs about ArtifactVersions for any people, payloads, consumers,      *)
(* sessions and number of versions, row security on or off: what is        *)
(* published was decided by somebody else, what a stage built on was       *)
(* published or granted, versions are frozen, and no publication takes     *)
(* consumers back to an older version.                                     *)
(***************************************************************************)
EXTENDS ArtifactVersions, WellFoundedInduction, TLAPS

USE NoneAssumption, RowSecurityAssumption, MaxVersionAssumption

(* Highest: a set of version numbers has one.                              *)

LEMMA LeastNatural ==
    ASSUME NEW T \in SUBSET Nat, T # {}
    PROVE  \E x \in T : \A y \in T : x <= y
<1> DEFINE R == {r \in Nat \X Nat : r[1] < r[2]}
<1>1. IsWellFoundedOn(R, Nat)
  BY NatLessThanWellFounded DEF OpToRel
<1>2. PICK x \in T : \A y \in T : <<y, x>> \notin R
  <2> HIDE DEF R
  <2> QED BY <1>1, WFMin
<1>3. \A y \in T : ~ (y < x)
  BY <1>2
<1> QED BY <1>3

LEMMA HighestIsHighest ==
    ASSUME NEW S \in SUBSET Numbers, S # {}
    PROVE  Highest(S) \in S /\ \A w \in S : w <= Highest(S)
<1> DEFINE T == {n \in Nat : MaxVersion - n \in S}
<1>1. \A v \in S : MaxVersion - v \in T
  BY DEF Numbers
<1>2. T \in SUBSET Nat /\ T # {}
  BY <1>1
<1>3. PICK x \in T : \A y \in T : x <= y
  <2> HIDE DEF T
  <2> QED BY <1>2, LeastNatural
<1>4. MaxVersion - x \in S
  OBVIOUS
<1>5. \A w \in S : w <= MaxVersion - x
  <2> SUFFICES ASSUME NEW w \in S PROVE w <= MaxVersion - x
    OBVIOUS
  <2>1. x <= MaxVersion - w
    BY <1>1, <1>3
  <2> QED BY <2>1 DEF Numbers
<1>6. \E v \in S : \A w \in S : w <= v
  BY <1>4, <1>5
<1> QED BY <1>6 DEF Highest

LEMMA NextNumberIsFree ==
    ASSUME TypeOK
    PROVE  NextNumber \in Nat \ {0} /\ NextNumber \notin Existing
<1>1. CASE Existing = {}
  BY <1>1 DEF NextNumber
<1>2. CASE Existing # {}
  <2>1. Highest(Existing) \in Numbers /\ \A w \in Existing : w <= Highest(Existing)
    BY <1>2, HighestIsHighest DEF Existing
  <2> QED BY <1>2, <2>1 DEF NextNumber, Numbers
<1> QED BY <1>1, <1>2

Signed == {v \in Numbers : rows[v].status = "published"}

LEMMA LatestIsSigned ==
    /\ Signed = {} => LatestPublished = None
    /\ Signed # {} => /\ LatestPublished \in Signed /\ LatestPublished \in Numbers
                      /\ LatestPublished # None
                      /\ \A v \in Signed : v <= LatestPublished
<1>1. Signed # {} => Highest(Signed) \in Signed /\ \A v \in Signed : v <= Highest(Signed)
  <2>1. Signed \in SUBSET Numbers
    BY DEF Signed
  <2> QED BY <2>1, HighestIsHighest
<1>2. LatestPublished = IF Signed = {} THEN None ELSE Highest(Signed)
  BY DEF LatestPublished, Signed
<1>3. \A v \in Signed : v \in Numbers /\ v # None
  BY DEF Signed, Numbers
<1> QED BY <1>1, <1>2, <1>3

-----------------------------------------------------------------------------
(* What one step does to a version, whoever takes it.                      *)

Frozen(v) ==
    /\ rows[v].status = "absent"
    /\ \E p \in Payloads, u \in People :
          rows'[v] = [status |-> "draft", payload |-> p, producer |-> u, publisher |-> None]

\* The signature of a publication, on record from then on.
SignedBy(v) ==
    /\ rows[v].status # "absent"
    /\ \E u \in People :
          /\ <<"publish", v, u>> \in audit'
          /\ rows'[v] = [rows[v] EXCEPT !.status = "published", !.publisher = u]

Superseded(v) ==
    /\ rows[v].publisher # None
    /\ rows'[v] = [rows[v] EXCEPT !.status = "superseded"]

Rejected(v) ==
    /\ rows[v].status # "absent"
    /\ rows'[v] = [rows[v] EXCEPT !.status = "rejected"]

VersionMoves(v) ==
    rows'[v] = rows[v] \/ Frozen(v) \/ SignedBy(v) \/ Superseded(v) \/ Rejected(v)

LEMMA OneRow ==
    ASSUME TypeOK, NEW v \in Numbers, NEW x, rows' = [rows EXCEPT ![v] = x]
    PROVE  rows'[v] = x /\ \A w \in Numbers \ {v} : rows'[w] = rows[w]
BY DEF TypeOK

LEMMA InsertMoves ==
    ASSUME VersionsInv, NEW s \in Sessions, Insert(s)
    PROVE  \A w \in Numbers : VersionMoves(w)
<1>1. PICK v \in Numbers : v = job[s].version
  BY DEF Insert, VersionsInv, Freezes
<1>2. job[s].user \in People /\ job[s].payload \in Payloads /\ rows[v].status = "absent"
  BY <1>1 DEF Insert, VersionsInv, Freezes, NumberIsFree
<1>3. /\ rows'[v] = [status |-> "draft", payload |-> job[s].payload,
                     producer |-> job[s].user, publisher |-> None]
      /\ \A w \in Numbers \ {v} : rows'[w] = rows[w]
  <2>1. rows' = [rows EXCEPT ![v] =
                   [status |-> "draft", payload |-> job[s].payload,
                    producer |-> job[s].user, publisher |-> None]]
    BY <1>1 DEF Insert
  <2> QED BY <2>1, OneRow DEF VersionsInv
<1>4. Frozen(v)
  BY <1>2, <1>3 DEF Frozen
<1> QED BY <1>3, <1>4 DEF VersionMoves

LEMMA RejectMoves ==
    ASSUME VersionsInv, NEW s \in Sessions, Reject(s)
    PROVE  \A w \in Numbers : VersionMoves(w)
<1>1. PICK v \in Numbers : v = job[s].version
  BY DEF Reject, VersionsInv, Decides
<1>2. rows[v].status # "absent"
  BY <1>1 DEF Reject, VersionsInv, Decides
<1>3. rows'[v] = [rows[v] EXCEPT !.status = "rejected"]
      /\ \A w \in Numbers \ {v} : rows'[w] = rows[w]
  BY <1>1, OneRow DEF Reject, VersionsInv
<1>4. Rejected(v)
  BY <1>2, <1>3 DEF Rejected
<1> QED BY <1>3, <1>4 DEF VersionMoves

\* A publication signs one version and supersedes the one it had compared with.
LEMMA PublishMoves ==
    ASSUME VersionsInv, NEW s \in Sessions, Publish(s)
    PROVE  \E v \in Numbers :
              /\ v = job[s].version /\ SignedBy(v)
              /\ job[s].current # None => job[s].current <= v
              /\ \A w \in Numbers \ {v} :
                    \/ rows'[w] = rows[w]
                    \/ w = job[s].current /\ Superseded(w)
<1>1. PICK v \in Numbers : v = job[s].version
  BY DEF Publish, VersionsInv, Decides
<1>2. /\ rows[v].status # "absent" /\ job[s].user \in People
      /\ job[s].current # None =>
             job[s].current <= v /\ rows[job[s].current].publisher # None
  BY <1>1 DEF Publish, VersionsInv, Decides
<1>3. <<"publish", v, job[s].user>> \in audit'
  BY <1>1 DEF Publish
<1> DEFINE signed == [rows EXCEPT ![v] =
                        [rows[v] EXCEPT !.status = "published", !.publisher = job[s].user]]
<1>4. rows' = IF job[s].current \in Numbers \ {v}
              THEN [signed EXCEPT ![job[s].current].status = "superseded"]
              ELSE signed
  BY <1>1 DEF Publish
<1>5. rows \in [Numbers -> Row]
  BY DEF VersionsInv, TypeOK
<1>6. /\ signed[v] = [rows[v] EXCEPT !.status = "published", !.publisher = job[s].user]
      /\ \A w \in Numbers \ {v} : signed[w] = rows[w]
      /\ DOMAIN signed = Numbers
  BY <1>5
<1> HIDE DEF signed
<1>7. rows'[v] = [rows[v] EXCEPT !.status = "published", !.publisher = job[s].user]
  BY <1>4, <1>6
<1>8. \A w \in Numbers \ {v} :
         \/ rows'[w] = rows[w]
         \/ w = job[s].current /\ rows'[w] = [rows[w] EXCEPT !.status = "superseded"]
  BY <1>4, <1>6
<1>9. SignedBy(v)
  BY <1>2, <1>3, <1>7 DEF SignedBy
<1>10. \A w \in Numbers \ {v} : rows'[w] = rows[w] \/ (w = job[s].current /\ Superseded(w))
  BY <1>2, <1>8 DEF Superseded, Numbers
<1> QED BY <1>1, <1>2, <1>9, <1>10

LEMMA WhoWrites ==
    ASSUME [Next]_vars
    PROVE  rows' = rows \/ \E s \in Sessions : Insert(s) \/ Publish(s) \/ Reject(s)
BY DEF Next, vars, Start, Continue, Freeze, PublishLoad, RejectLoad, ReadPublished, Allocate,
       Collide, Retry, PublishCompare, ReadGranted, RecordConsumption, Abort, GrantAccess

LEMMA StepMoves ==
    ASSUME VersionsInv, [Next]_vars, NEW v \in Numbers
    PROVE  VersionMoves(v)
<1>1. CASE rows' = rows
  BY <1>1 DEF VersionMoves
<1>2. ASSUME NEW s \in Sessions, Publish(s)
      PROVE  VersionMoves(v)
  BY <1>2, PublishMoves DEF VersionMoves
<1> QED BY <1>1, <1>2, InsertMoves, RejectMoves, WhoWrites

-----------------------------------------------------------------------------
(* What the moves of a version preserve.                                   *)

\* A version that exists keeps its content and its producer; its publisher is
\* replaced, never removed, and is on record.
Keeps(v) ==
    /\ rows'[v] \in Row
    /\ rows[v].status # "absent" => /\ rows'[v].status # "absent"
                                    /\ rows'[v].payload = rows[v].payload
                                    /\ rows'[v].producer = rows[v].producer
    /\ rows[v].publisher # None => rows'[v].publisher # None
    /\ rows'[v].publisher # None => <<"publish", v, rows'[v].publisher>> \in audit'
    /\ rows'[v].status \in {"published", "superseded"} => rows'[v].publisher # None

LEMMA AuditGrows ==
    ASSUME [Next]_vars
    PROVE  audit \subseteq audit'
BY DEF Next, vars, Start, Continue, Freeze, PublishLoad, RejectLoad, ReadPublished, Allocate,
       Insert, Collide, Retry, PublishCompare, Publish, Reject, ReadGranted,
       RecordConsumption, Abort, GrantAccess

LEMMA StepKeeps ==
    ASSUME VersionsInv, [Next]_vars, NEW v \in Numbers
    PROVE  Keeps(v)
<1>1. /\ rows[v] \in Row
      /\ rows[v].publisher # None => <<"publish", v, rows[v].publisher>> \in audit'
      /\ rows[v].status \in {"published", "superseded"} => rows[v].publisher # None
  BY AuditGrows DEF VersionsInv, TypeOK, PublishersAreOnRecord
<1>2. CASE rows'[v] = rows[v]
  BY <1>1, <1>2 DEF Keeps
<1>3. CASE Frozen(v)
  <2>1. PICK p \in Payloads, u \in People :
          rows'[v] = [status |-> "draft", payload |-> p, producer |-> u, publisher |-> None]
    BY <1>3 DEF Frozen
  <2>2. rows'[v] \in Row /\ rows'[v].status = "draft" /\ rows'[v].publisher = None
    BY <2>1 DEF Row
  <2>3. rows[v].status = "absent"
    BY <1>3 DEF Frozen
  <2>4. rows[v].publisher = None
    BY <2>3 DEF VersionsInv, PublishersAreOnRecord, AuditNamesVersions
  <2> QED BY <2>2, <2>3, <2>4 DEF Keeps
<1>4. CASE SignedBy(v)
  <2>1. PICK u \in People :
          /\ <<"publish", v, u>> \in audit'
          /\ rows'[v] = [rows[v] EXCEPT !.status = "published", !.publisher = u]
    BY <1>4 DEF SignedBy
  <2>2. /\ rows'[v] \in Row /\ rows'[v].status = "published" /\ rows'[v].publisher = u
        /\ rows'[v].payload = rows[v].payload /\ rows'[v].producer = rows[v].producer
    BY <1>1, <2>1 DEF Row
  <2> QED BY <2>1, <2>2 DEF Keeps
<1>5. ASSUME NEW st \in {"superseded", "rejected"},
             rows'[v] = [rows[v] EXCEPT !.status = st],
             st = "superseded" => rows[v].publisher # None
      PROVE  Keeps(v)
  <2>1. /\ rows'[v] \in Row /\ rows'[v].status = st
        /\ rows'[v].publisher = rows[v].publisher
        /\ rows'[v].payload = rows[v].payload /\ rows'[v].producer = rows[v].producer
    BY <1>1, <1>5 DEF Row
  <2> QED BY <1>1, <1>5, <2>1 DEF Keeps
<1> QED BY <1>2, <1>3, <1>4, <1>5, StepMoves DEF VersionMoves, Superseded, Rejected

LEMMA RowsStay ==
    ASSUME VersionsInv, [Next]_vars
    PROVE  rows' \in [Numbers -> Row] /\ PublishersAreOnRecord'
<1>1. \A v \in Numbers : Keeps(v)
  BY StepKeeps
<1>2. rows \in [Numbers -> Row]
  BY DEF VersionsInv, TypeOK
<1>3. rows' = [v \in Numbers |-> rows'[v]]
  <2>1. ASSUME NEW s \in Sessions, Insert(s) \/ Reject(s) \/ Publish(s)
        PROVE  rows' = [v \in Numbers |-> rows'[v]]
    <3>1. CASE Insert(s) \/ Reject(s)
      BY <1>2, <3>1 DEF Insert, Reject
    <3>2. CASE Publish(s)
      BY <1>2, <3>2 DEF Publish
    <3> QED BY <2>1, <3>1, <3>2
  <2> QED BY <1>2, <2>1, WhoWrites
<1> QED BY <1>1, <1>3 DEF Keeps, PublishersAreOnRecord

LEMMA GrantsGrow ==
    ASSUME VersionsInv, [Next]_vars, NEW c \in Consumers
    PROVE  /\ grants' \in [Consumers -> Seq(Numbers)]
           /\ \A i \in DOMAIN grants[c] :
                 i \in DOMAIN grants'[c] /\ grants'[c][i] = grants[c][i]
<1>1. grants \in [Consumers -> Seq(Numbers)]
  BY DEF VersionsInv, TypeOK
<1>2. \/ grants' = grants
      \/ \E x \in Consumers, v \in Numbers : grants' = [grants EXCEPT ![x] = Append(@, v)]
  BY DEF Next, vars, Start, Continue, Freeze, PublishLoad, RejectLoad, ReadPublished, Allocate,
         Insert, Collide, Retry, PublishCompare, Publish, Reject, ReadGranted,
         RecordConsumption, Abort, GrantAccess
<1>3. ASSUME NEW x \in Consumers, NEW v \in Numbers,
             grants' = [grants EXCEPT ![x] = Append(grants[x], v)]
      PROVE  /\ grants' \in [Consumers -> Seq(Numbers)]
             /\ \A i \in DOMAIN grants[c] :
                   i \in DOMAIN grants'[c] /\ grants'[c][i] = grants[c][i]
  <2>1. grants[x] \in Seq(Numbers) /\ grants[c] \in Seq(Numbers)
    BY <1>1
  <2>2. Append(grants[x], v) \in Seq(Numbers)
    BY <2>1
  <2>3. grants' \in [Consumers -> Seq(Numbers)]
    BY <1>1, <1>3, <2>2
  <2>4. \A i \in DOMAIN grants[x] :
            i \in DOMAIN Append(grants[x], v) /\ Append(grants[x], v)[i] = grants[x][i]
    BY <2>1
  <2>5. grants'[c] = IF c = x THEN Append(grants[x], v) ELSE grants[c]
    BY <1>1, <1>3
  <2> QED BY <2>3, <2>4, <2>5
<1> QED BY <1>1, <1>2, <1>3

-----------------------------------------------------------------------------
(* Decisions on record, and what was read.                                 *)

LEMMA NewDecisions ==
    ASSUME VersionsInv, [Next]_vars, NEW a \in audit', a \notin audit
    PROVE  \E s \in Sessions, ev \in {"publish", "reject"} :
              /\ a = <<ev, job[s].version, job[s].user>>
              /\ job[s].user \in People /\ job[s].version \in Numbers
              /\ rows[job[s].version].status # "absent"
              /\ job[s].user # rows[job[s].version].producer
<1>1. audit' = audit \/ \E s \in Sessions : Publish(s) \/ Reject(s)
  BY DEF Next, vars, Start, Continue, Freeze, PublishLoad, RejectLoad, ReadPublished, Allocate,
         Insert, Collide, Retry, PublishCompare, ReadGranted, RecordConsumption, Abort,
         GrantAccess
<1>2. PICK s \in Sessions : Publish(s) \/ Reject(s)
  BY <1>1
<1>3. \E ev \in {"publish", "reject"} : a = <<ev, job[s].version, job[s].user>>
  BY <1>2 DEF Publish, Reject
<1>4. job[s].pc \in {"signing", "rejecting"}
  BY <1>2 DEF Publish, Reject
<1> QED BY <1>3, <1>4 DEF VersionsInv, Decides, MayDecide

LEMMA DecisionsStay ==
    ASSUME VersionsInv, [Next]_vars
    PROVE  /\ audit' \subseteq {"publish", "reject"} \X Numbers \X People
           /\ DecidedByAnother' /\ AuditNamesVersions'
<1>1. ASSUME NEW a \in audit'
      PROVE  /\ a \in {"publish", "reject"} \X Numbers \X People
             /\ rows'[a[2]].status # "absent"
             /\ a[3] # rows'[a[2]].producer
  <2>1. /\ a \in {"publish", "reject"} \X Numbers \X People
        /\ rows[a[2]].status # "absent" /\ a[3] # rows[a[2]].producer
    <3>1. CASE a \in audit
      BY <3>1 DEF VersionsInv, TypeOK, DecidedByAnother, AuditNamesVersions
    <3>2. CASE a \notin audit
      BY <3>2, NewDecisions
    <3> QED BY <3>1, <3>2
  <2>2. a[2] \in Numbers
    BY <2>1
  <2> QED BY <2>1, <2>2, StepKeeps DEF Keeps
<1>2. \A v \in Numbers : rows'[v].status \in {"published", "superseded"} =>
           <<"publish", v, rows'[v].publisher>> \in audit'
  BY StepKeeps DEF Keeps
<1> QED BY <1>1, <1>2 DEF DecidedByAnother, AuditNamesVersions

\* What entitles a read outlives whatever happens to the version.
LEMMA EntitlementsStay ==
    ASSUME VersionsInv, [Next]_vars, NEW c \in Consumers, NEW v
    PROVE  /\ (\E i \in DOMAIN grants[c] : grants[c][i] = v) =>
                  \E i \in DOMAIN grants'[c] : grants'[c][i] = v
           /\ SignedOnRecord(v) => \E u \in People : <<"publish", v, u>> \in audit'
BY GrantsGrow, AuditGrows DEF SignedOnRecord

LEMMA ReadsStay ==
    ASSUME VersionsInv, [Next]_vars
    PROVE  /\ consumed' \subseteq Consumers \X Numbers \X BOOLEAN
           /\ ConsumedIsSignedOrGranted'
           /\ notices' \subseteq Consumers \X Numbers
<1>1. consumed' = consumed \/ \E s \in Sessions : RecordConsumption(s)
  BY DEF Next, vars, Start, Continue, Freeze, PublishLoad, RejectLoad, ReadPublished, Allocate,
         Insert, Collide, Retry, PublishCompare, Publish, Reject, ReadGranted, Abort,
         GrantAccess
<1>2. ASSUME NEW r \in consumed'
      PROVE  /\ r \in Consumers \X Numbers \X BOOLEAN
             /\ IF r[3] THEN \E i \in DOMAIN grants[r[1]] : grants[r[1]][i] = r[2]
                        ELSE SignedOnRecord(r[2])
  <2>1. CASE r \in consumed
    BY <2>1 DEF VersionsInv, TypeOK, ConsumedIsSignedOrGranted, SignedOnRecord
  <2>2. CASE r \notin consumed
    <3>1. PICK s \in Sessions : RecordConsumption(s)
      BY <1>1, <2>2
    <3>2. r = <<job[s].consumer, job[s].version, job[s].granted>> /\ job[s].pc = "reading"
      BY <2>2, <3>1 DEF RecordConsumption
    <3>3. job[s].granted \in BOOLEAN
      BY DEF VersionsInv, TypeOK, Job
    <3> QED BY <3>2, <3>3 DEF VersionsInv, Reads
  <2> QED BY <2>1, <2>2
<1>3. ConsumedIsSignedOrGranted'
  <2> SUFFICES ASSUME NEW r \in consumed'
               PROVE  IF r[3] THEN \E i \in DOMAIN grants'[r[1]] : grants'[r[1]][i] = r[2]
                              ELSE \E u \in People : <<"publish", r[2], u>> \in audit'
    BY DEF ConsumedIsSignedOrGranted
  <2>1. r[1] \in Consumers
    BY <1>2
  <2> QED BY <1>2, <2>1, EntitlementsStay
<1>4. notices' \subseteq Consumers \X Numbers
  <2>1. notices \subseteq Consumers \X Numbers /\ consumed \subseteq Consumers \X Numbers \X BOOLEAN
    BY DEF VersionsInv, TypeOK
  <2>2. notices' = notices \/ \E s \in Sessions : Publish(s)
    BY DEF Next, vars, Start, Continue, Freeze, PublishLoad, RejectLoad, ReadPublished,
           Allocate, Insert, Collide, Retry, PublishCompare, Reject, ReadGranted,
           RecordConsumption, Abort, GrantAccess
  <2>3. ASSUME NEW s \in Sessions, Publish(s)
        PROVE  notices' \subseteq Consumers \X Numbers
    <3>1. notices' = notices \cup
             {n \in Consumers \X {job[s].current} :
                 \E g \in BOOLEAN : <<n[1], n[2], g>> \in consumed}
      BY <2>3 DEF Publish
    <3>2. \A n, g : <<n[1], n[2], g>> \in consumed => n[2] \in Numbers
      BY <2>1
    <3> QED BY <2>1, <3>1, <3>2
  <2> QED BY <2>1, <2>2, <2>3
<1> QED BY <1>2, <1>3, <1>4

-----------------------------------------------------------------------------
(* The jobs in progress.                                                   *)

LEMMA OneJob ==
    ASSUME TypeOK, NEW s \in Sessions, NEW j, job' = [job EXCEPT ![s] = j]
    PROVE  job'[s] = j /\ \A z \in Sessions \ {s} : job'[z] = job[z]
BY DEF TypeOK

JobFits(z) == Freezes(z) /\ Decides(z) /\ Reads(z)

LEMMA SameJobFits ==
    ASSUME VersionsInv, [Next]_vars, NEW z \in Sessions, job'[z] = job[z]
    PROVE  JobFits(z)'
<1>1. Freezes(z) /\ Decides(z) /\ Reads(z) /\ job[z] \in Job
  BY DEF VersionsInv, TypeOK
<1>2. Freezes(z)'
  BY <1>1 DEF Freezes
<1>3. Decides(z)'
  <2>1. \A v \in Numbers : Keeps(v)
    BY StepKeeps
  <2>2. job[z].current \in Numbers \cup {None}
    BY <1>1 DEF Job
  <2> QED BY <1>1, <2>1, <2>2 DEF Decides, Keeps, MayDecide
<1>4. Reads(z)'
  <2>1. job[z].pc = "reading" =>
           IF job[z].granted
           THEN \E i \in DOMAIN grants'[job[z].consumer] :
                   grants'[job[z].consumer][i] = job[z].version
           ELSE \E u \in People : <<"publish", job[z].version, u>> \in audit'
    BY <1>1, EntitlementsStay DEF Reads
  <2> QED BY <1>1, <2>1 DEF Reads, SignedOnRecord
<1> QED BY <1>2, <1>3, <1>4 DEF JobFits

LEMMA WhoMoves ==
    ASSUME [Next]_vars
    PROVE  job' = job \/ \E s \in Sessions : Start(s) \/ Continue(s) \/ Abort(s)
BY DEF Next, vars, GrantAccess

\* One session moves at a time.
LEMMA OthersWait ==
    ASSUME VersionsInv, NEW s \in Sessions, Start(s) \/ Continue(s) \/ Abort(s)
    PROVE  \E j : job' = [job EXCEPT ![s] = j]
BY DEF Start, Continue, Freeze, PublishLoad, RejectLoad, ReadPublished, Allocate, Insert,
       Collide, Retry, PublishCompare, Publish, Reject, ReadGranted, RecordConsumption, Abort,
       Goto, Finish

\* A session that has nothing loaded.
LEMMA RestingFits ==
    ASSUME NEW z \in Sessions, job'[z] \in {Idle, [Idle EXCEPT !.pc = "failed"]}
    PROVE  job'[z] \in Job /\ JobFits(z)'
<1>1. CASE job'[z] = Idle
  BY <1>1 DEF Idle, Job, JobFits, Freezes, Decides, Reads
<1>2. CASE job'[z] = [Idle EXCEPT !.pc = "failed"]
  <2>1. job'[z] \in Job /\ job'[z].pc = "failed"
    BY <1>2 DEF Idle, Job
  <2> QED BY <2>1 DEF JobFits, Freezes, Decides, Reads
<1> QED BY <1>1, <1>2

LEMMA FreezingFits ==
    ASSUME VersionsInv, NEW z \in Sessions,
           \/ \E u \in People, p \in Payloads : Freeze(z, u, p)
           \/ Allocate(z) \/ Collide(z) \/ Retry(z)
    PROVE  job'[z] \in Job /\ JobFits(z)'
<1>1. job[z] \in Job /\ TypeOK /\ Freezes(z)
  BY DEF VersionsInv, TypeOK
<1>2. ASSUME NEW u \in People, NEW p \in Payloads, Freeze(z, u, p)
      PROVE  job'[z] \in Job /\ JobFits(z)'
  <2>1. job'[z] = [Idle EXCEPT !.pc = "allocating", !.user = u, !.payload = p]
    BY <1>1, <1>2, OneJob DEF Freeze, Goto
  <2>2. /\ job'[z] \in Job /\ job'[z].pc = "allocating"
        /\ job'[z].user = u /\ job'[z].payload = p
    BY <2>1 DEF Idle, Job
  <2> QED BY <2>2 DEF JobFits, Freezes, Decides, Reads
<1>3. CASE Allocate(z)
  <2>1. PICK n \in Numbers : n = NextNumber
    BY <1>3 DEF Allocate
  <2>2. job'[z] = [job[z] EXCEPT !.pc = "inserting", !.version = n]
    BY <1>1, <1>3, <2>1, OneJob DEF Allocate, Goto
  <2>3. /\ job'[z] \in Job /\ job'[z].pc = "inserting" /\ job'[z].version = n
        /\ job'[z].user = job[z].user /\ job'[z].payload = job[z].payload
    BY <1>1, <2>2 DEF Job
  <2>4. job[z].pc = "allocating"
    BY <1>3 DEF Allocate
  <2> QED BY <1>1, <2>3, <2>4 DEF JobFits, Freezes, Decides, Reads
<1>4. CASE Collide(z)
  <2>1. job'[z] = [job[z] EXCEPT !.pc = "retrying", !.version = None]
    BY <1>1, <1>4, OneJob DEF Collide, Goto
  <2>2. /\ job'[z] \in Job /\ job'[z].pc = "retrying"
        /\ job'[z].user = job[z].user /\ job'[z].payload = job[z].payload
    BY <1>1, <2>1 DEF Job
  <2>3. job[z].pc = "inserting"
    BY <1>4 DEF Collide
  <2> QED BY <1>1, <2>2, <2>3 DEF JobFits, Freezes, Decides, Reads
<1>5. CASE Retry(z)
  <2>1. job[z].pc = "retrying"
    BY <1>5 DEF Retry
  <2>2. CASE RowSecurity
    BY <1>1, <1>5, <2>2, OneJob, RestingFits DEF Retry, Goto
  <2>3. CASE ~ RowSecurity
    <3>1. job'[z] = [job[z] EXCEPT !.pc = "allocating"]
      BY <1>1, <1>5, <2>3, OneJob DEF Retry, Goto
    <3>2. /\ job'[z] \in Job /\ job'[z].pc = "allocating"
          /\ job'[z].user = job[z].user /\ job'[z].payload = job[z].payload
      BY <1>1, <3>1 DEF Job
    <3> QED BY <1>1, <2>1, <3>2 DEF JobFits, Freezes, Decides, Reads
  <2> QED BY <2>2, <2>3
<1> QED BY <1>2, <1>3, <1>4, <1>5

LEMMA DecidingFits ==
    ASSUME VersionsInv, NEW z \in Sessions,
           \/ \E u \in People, v \in Numbers : PublishLoad(z, u, v) \/ RejectLoad(z, u, v)
           \/ PublishCompare(z)
    PROVE  job'[z] \in Job /\ JobFits(z)'
<1>1. job[z] \in Job /\ TypeOK /\ Decides(z)
  BY DEF VersionsInv, TypeOK
<1>2. rows' = rows
  BY DEF PublishLoad, RejectLoad, PublishCompare
<1>3. ASSUME NEW u \in People, NEW v \in Numbers, NEW p \in {"publishing", "rejecting"},
             rows[v].status = "draft", MayDecide(u, v),
             job' = [job EXCEPT ![z] = [Idle EXCEPT !.pc = p, !.user = u, !.version = v]]
      PROVE  job'[z] \in Job /\ JobFits(z)'
  <2>1. job'[z] = [Idle EXCEPT !.pc = p, !.user = u, !.version = v]
    BY <1>1, <1>3, OneJob
  <2>2. job'[z] \in Job /\ job'[z].pc = p /\ job'[z].user = u /\ job'[z].version = v
    BY <2>1 DEF Idle, Job
  <2> QED BY <1>2, <1>3, <2>2 DEF JobFits, Freezes, Decides, Reads, MayDecide
<1>4. CASE PublishCompare(z)
  <2>1. CASE GoesBackwards(LatestPublished, job[z].version)
    BY <1>1, <1>4, <2>1, OneJob, RestingFits DEF PublishCompare, Finish, Goto
  <2>2. CASE ~ GoesBackwards(LatestPublished, job[z].version)
    <3>1. job'[z] = [job[z] EXCEPT !.pc = "signing", !.current = LatestPublished]
      BY <1>1, <1>4, <2>2, OneJob DEF PublishCompare, Goto
    <3>2. LatestPublished \in Numbers \cup {None}
      BY LatestIsSigned
    <3>3. /\ job'[z] \in Job /\ job'[z].pc = "signing"
          /\ job'[z].user = job[z].user /\ job'[z].version = job[z].version
          /\ job'[z].current = LatestPublished
      BY <1>1, <3>1, <3>2 DEF Job
    <3>4. job[z].pc = "publishing"
      BY <1>4 DEF PublishCompare
    <3>5. job[z].version \in Numbers
      BY <1>1, <3>4 DEF Decides
    <3>6. LatestPublished # None =>
             LatestPublished <= job[z].version /\ rows[LatestPublished].publisher # None
      <4> SUFFICES ASSUME LatestPublished # None
                   PROVE  /\ LatestPublished <= job[z].version
                          /\ rows[LatestPublished].publisher # None
        OBVIOUS
      <4>1. PICK v \in Numbers : v = LatestPublished /\ rows[v].status = "published"
        BY LatestIsSigned DEF Signed
      <4>2. v <= job[z].version
        BY <2>2, <3>5, <4>1 DEF GoesBackwards, Numbers
      <4> QED BY <4>1, <4>2 DEF VersionsInv, PublishersAreOnRecord
    <3> QED BY <1>1, <1>2, <3>3, <3>4, <3>6
            DEF JobFits, Freezes, Decides, Reads, MayDecide
  <2> QED BY <2>1, <2>2
<1> QED BY <1>3, <1>4 DEF PublishLoad, RejectLoad, Goto

LEMMA ReadingFits ==
    ASSUME VersionsInv, NEW z \in Sessions,
           (\E c \in Consumers : ReadPublished(z, c)) \/ ReadGranted(z)
    PROVE  job'[z] \in Job /\ JobFits(z)'
<1>1. job[z] \in Job /\ TypeOK /\ Reads(z)
  BY DEF VersionsInv, TypeOK
<1>2. audit' = audit /\ grants' = grants
  BY DEF ReadPublished, ReadGranted
<1>3. ASSUME NEW c \in Consumers, ReadPublished(z, c)
      PROVE  job'[z] \in Job /\ JobFits(z)'
  <2>1. CASE LatestPublished = None
    <3>1. job'[z] = [Idle EXCEPT !.pc = "asking", !.consumer = c]
      BY <1>1, <1>3, <2>1, OneJob DEF ReadPublished, Goto
    <3>2. /\ job'[z] \in Job /\ job'[z].pc = "asking" /\ job'[z].consumer = c
          /\ ~ job'[z].granted
      BY <3>1 DEF Idle, Job
    <3> QED BY <3>2 DEF JobFits, Freezes, Decides, Reads
  <2>2. CASE LatestPublished # None
    <3>1. PICK v \in Signed : v = LatestPublished /\ v \in Numbers
      BY <2>2, LatestIsSigned
    <3>2. job'[z] = [Idle EXCEPT !.pc = "reading", !.consumer = c, !.version = v]
      BY <1>1, <1>3, <2>2, <3>1, OneJob DEF ReadPublished, Goto
    <3>3. /\ job'[z] \in Job /\ job'[z].pc = "reading" /\ job'[z].consumer = c
          /\ ~ job'[z].granted /\ job'[z].version = v
      BY <3>1, <3>2 DEF Idle, Job
    <3>4. \E u \in People : <<"publish", v, u>> \in audit
      <4>1. <<"publish", v, rows[v].publisher>> \in audit
        BY <3>1 DEF Signed, VersionsInv, DecidedByAnother
      <4>2. audit \subseteq {"publish", "reject"} \X Numbers \X People
        BY <1>1 DEF TypeOK
      <4> QED BY <4>1, <4>2
    <3> QED BY <1>2, <3>1, <3>3, <3>4
            DEF JobFits, Freezes, Decides, Reads, SignedOnRecord
  <2> QED BY <2>1, <2>2
<1>4. CASE ReadGranted(z)
  <2>1. PICK c \in Consumers : c = job[z].consumer
    BY <1>1, <1>4 DEF ReadGranted, Reads
  <2>2. grants[c] \in Seq(Numbers)
    BY <1>1 DEF TypeOK
  <2>3. CASE grants[c] = <<>>
    BY <1>1, <1>4, <2>1, <2>3, OneJob, RestingFits DEF ReadGranted, Finish, Goto
  <2>4. CASE grants[c] # <<>>
    <3>1. Len(grants[c]) \in DOMAIN grants[c] /\ grants[c][Len(grants[c])] \in Numbers
      BY <2>2, <2>4
    <3>2. PICK v \in Numbers : v = grants[c][Len(grants[c])]
      BY <3>1
    <3>3. job'[z] = [job[z] EXCEPT !.pc = "reading", !.granted = TRUE, !.version = v]
      BY <1>1, <1>4, <2>1, <2>4, <3>2, OneJob DEF ReadGranted, Goto
    <3>4. /\ job'[z] \in Job /\ job'[z].pc = "reading" /\ job'[z].consumer = c
          /\ job'[z].granted /\ job'[z].version = v
      BY <1>1, <2>1, <3>3 DEF Job
    <3> QED BY <1>2, <3>1, <3>2, <3>4 DEF JobFits, Freezes, Decides, Reads
  <2> QED BY <2>3, <2>4
<1> QED BY <1>3, <1>4

LEMMA JobsStay ==
    ASSUME VersionsInv, [Next]_vars
    PROVE  job' \in [Sessions -> Job] /\ \A z \in Sessions : JobFits(z)'
<1>1. TypeOK /\ job \in [Sessions -> Job]
  BY DEF VersionsInv, TypeOK
<1>2. ASSUME NEW z \in Sessions
      PROVE  job'[z] \in Job /\ JobFits(z)'
  <2>1. CASE job'[z] = job[z]
    BY <1>1, <2>1, SameJobFits
  <2>2. CASE job'[z] # job[z]
    <3>1. PICK s \in Sessions : Start(s) \/ Continue(s) \/ Abort(s)
      BY <2>2, WhoMoves
    <3>2. s = z
      BY <1>1, <2>2, <3>1, OthersWait, OneJob
    <3>3. CASE \/ Insert(z) \/ Publish(z) \/ Reject(z)
               \/ RecordConsumption(z) \/ Abort(z)
      <4>1. job'[z] = Idle
        BY <1>1, <3>3, OneJob DEF Insert, Publish, Reject, RecordConsumption, Abort, Finish, Goto
      <4> QED BY <4>1, RestingFits
    <3> QED BY <3>1, <3>2, <3>3, FreezingFits, DecidingFits, ReadingFits DEF Start, Continue
  <2> QED BY <2>1, <2>2
<1>3. \E s, j : job' = job \/ job' = [job EXCEPT ![s] = j]
  BY WhoMoves, OthersWait
<1>4. job' = [z \in Sessions |-> job'[z]]
  BY <1>1, <1>3
<1> QED BY <1>2, <1>4

-----------------------------------------------------------------------------
(* The invariant, and what it implies.                                     *)

LEMMA VersionsInvInit ==
    ASSUME Init
    PROVE  VersionsInv
<1>1. /\ rows = [v \in Numbers |-> Absent] /\ job = [s \in Sessions |-> Idle]
      /\ grants = [c \in Consumers |-> <<>>]
      /\ consumed = {} /\ notices = {} /\ audit = {}
  BY DEF Init
<1>2. Absent \in Row /\ Absent.status = "absent" /\ Absent.publisher = None
  BY DEF Absent, Row
<1>3. Idle \in Job /\ Idle.pc = "idle"
  BY DEF Idle, Job
<1>4. TypeOK
  <2>1. <<>> \in Seq(Numbers)
    OBVIOUS
  <2> QED BY <1>1, <1>2, <1>3, <2>1 DEF TypeOK
<1>5. /\ \A v \in Numbers : rows[v].status = "absent" /\ rows[v].publisher = None
      /\ \A s \in Sessions : job[s].pc = "idle"
  BY <1>1, <1>2, <1>3
<1>6. \A s \in Sessions : Freezes(s) /\ Decides(s) /\ Reads(s)
  BY <1>5 DEF Freezes, Decides, Reads
<1> QED BY <1>1, <1>4, <1>5, <1>6
        DEF VersionsInv, DecidedByAnother, ConsumedIsSignedOrGranted, PublishersAreOnRecord,
            AuditNamesVersions

LEMMA VersionsInvStep ==
    ASSUME VersionsInv, [Next]_vars
    PROVE  VersionsInv'
<1>1. grants' \in [Consumers -> Seq(Numbers)]
  <2>1. CASE Consumers = {}
    BY <2>1 DEF VersionsInv, TypeOK, Next, vars, Start, Continue, Freeze, PublishLoad,
           RejectLoad, ReadPublished, Allocate, Insert, Collide, Retry, PublishCompare, Publish,
           Reject, ReadGranted, RecordConsumption, Abort, GrantAccess
  <2> QED BY <2>1, GrantsGrow
<1>2. TypeOK'
  BY <1>1, RowsStay, JobsStay, ReadsStay, DecisionsStay DEF TypeOK
<1>3. \A z \in Sessions : Freezes(z)' /\ Decides(z)' /\ Reads(z)'
  BY JobsStay DEF JobFits
<1> QED BY <1>2, <1>3, RowsStay, ReadsStay, DecisionsStay DEF VersionsInv

LEMMA VersionsInvHolds == Spec => []VersionsInv
<1>1. Init => VersionsInv
  BY VersionsInvInit
<1>2. VersionsInv /\ [Next]_vars => VersionsInv'
  BY VersionsInvStep
<1> QED BY <1>1, <1>2, PTL DEF Spec

\* Every variable keeps the type the module gives it; in particular the row a
\* job names when it writes is one that exists.
THEOREM VersionsTyped == Spec => []TypeOK
<1>1. VersionsInv => TypeOK
  BY DEF VersionsInv
<1> QED BY <1>1, VersionsInvHolds, PTL

\* No decision on record, publish_version's or reject_version's, was taken by
\* the version's producer, and a version that is or was published carries the
\* signature that is on record, whatever two deciders wrote over each other.
THEOREM NobodyDecidesTheirOwn == Spec => []DecidedByAnother
<1>1. VersionsInv => DecidedByAnother
  BY DEF VersionsInv
<1> QED BY <1>1, VersionsInvHolds, PTL

\* What record_consumption writes down had been published, or granted to that
\* consumer, even when the version was decided on between read and record.
THEOREM DraftsAreNeverRead == Spec => []ConsumedIsSignedOrGranted
<1>1. VersionsInv => ConsumedIsSignedOrGranted
  BY DEF VersionsInv
<1> QED BY <1>1, VersionsInvHolds, PTL

\* The trigger of migration 0045 has nothing to refuse: no handler ever changes
\* the content or the producer of a version that exists.
THEOREM NothingRewritesAVersion == Spec => VersionsAreFrozen
<1>1. VersionsInv /\ [Next]_vars =>
         \A v \in Existing : /\ rows'[v].payload = rows[v].payload
                             /\ rows'[v].producer = rows[v].producer
  BY StepKeeps DEF Keeps, Existing
<1> QED BY <1>1, VersionsInvHolds, PTL DEF Spec, VersionsAreFrozen

-----------------------------------------------------------------------------
(* What consumers read from one step to the next.                          *)

LEMMA LatestIsSignedNext ==
    /\ \A v \in Numbers : rows'[v].status = "published" =>
           LatestPublished' \in Numbers /\ LatestPublished' >= v
    /\ LatestPublished' \in Numbers \cup {None}
<1> DEFINE S == {v \in Numbers : rows'[v].status = "published"}
<1>1. LatestPublished' = IF S = {} THEN None ELSE Highest(S)
  BY DEF LatestPublished
<1>2. S \in SUBSET Numbers
  OBVIOUS
<1>3. S # {} => Highest(S) \in S /\ \A w \in S : w <= Highest(S)
  <2> HIDE DEF S
  <2> QED BY <1>2, HighestIsHighest
<1> QED BY <1>1, <1>2, <1>3 DEF Numbers

\* A version as new as the one consumers were reading is published after any
\* step that rejects nothing.
LEMMA AsNewIsPublished ==
    ASSUME VersionsInv, [Next]_vars, NEW c \in Numbers, rows[c].status = "published"
    PROVE  \/ \E v \in Numbers : v >= c /\ rows'[v].status = "published"
           \/ \E v \in Numbers : rows'[v].status = "rejected" /\ rows[v].status # "rejected"
<1>1. c >= c
  BY DEF Numbers
<1>2. CASE rows'[c].status = "published"
  BY <1>1, <1>2
<1>3. CASE rows'[c].status # "published"
  <2>1. PICK s \in Sessions : Insert(s) \/ Publish(s) \/ Reject(s)
    BY <1>3, WhoWrites
  <2>2. CASE Publish(s)
    <3>1. PICK v \in Numbers :
            /\ SignedBy(v) /\ (job[s].current # None => job[s].current <= v)
            /\ \A w \in Numbers \ {v} :
                  rows'[w] = rows[w] \/ (w = job[s].current /\ Superseded(w))
      BY <2>2, PublishMoves
    <3>2. rows'[v].status = "published"
      BY <3>1 DEF SignedBy, VersionsInv, TypeOK, Row
    <3>3. c = job[s].current /\ c # None
      BY <1>3, <3>1, <3>2 DEF Numbers
    <3> QED BY <3>1, <3>2, <3>3 DEF Numbers
  <2>3. CASE Reject(s)
    <3>1. PICK v \in Numbers : v = job[s].version
      BY <2>3 DEF Reject, VersionsInv, Decides
    <3>2. /\ rows'[v] = [rows[v] EXCEPT !.status = "rejected"]
          /\ \A w \in Numbers \ {v} : rows'[w] = rows[w]
      <4>1. rows' = [rows EXCEPT ![v] = [rows[v] EXCEPT !.status = "rejected"]]
        BY <2>3, <3>1 DEF Reject
      <4> QED BY <4>1, OneRow DEF VersionsInv
    <3>3. c = v
      BY <1>3, <3>2
    <3>4. rows'[v].status = "rejected"
      BY <3>2 DEF VersionsInv, TypeOK, Row
    <3> QED BY <3>3, <3>4
  <2>4. CASE Insert(s)
    <3>1. PICK v \in Numbers : v = job[s].version
      BY <2>4 DEF Insert, VersionsInv, Freezes
    <3>2. rows[v].status = "absent"
      BY <2>4, <3>1 DEF Insert, NumberIsFree
    <3>3. rows' = [rows EXCEPT ![v] =
                     [status |-> "draft", payload |-> job[s].payload,
                      producer |-> job[s].user, publisher |-> None]]
      BY <2>4, <3>1 DEF Insert
    <3> QED BY <1>3, <3>2, <3>3, OneRow DEF VersionsInv
  <2> QED BY <2>1, <2>2, <2>3, <2>4
<1> QED BY <1>2, <1>3

\* However stale the comparison publish_version made, and whatever another
\* publication committed since, it never takes consumers to an older version.
THEOREM NoPublicationGoesBackwards == Spec => PublicationNeverGoesBackwards
<1>1. VersionsInv /\ [Next]_vars =>
        (LatestPublished # None =>
           \/ LatestPublished' # None /\ LatestPublished' >= LatestPublished
           \/ \E v \in Numbers : rows'[v].status = "rejected" /\ rows[v].status # "rejected")
  <2> SUFFICES ASSUME VersionsInv, [Next]_vars, LatestPublished # None,
                      ~ \E v \in Numbers :
                          rows'[v].status = "rejected" /\ rows[v].status # "rejected"
               PROVE  LatestPublished' # None /\ LatestPublished' >= LatestPublished
    OBVIOUS
  <2>1. PICK c \in Numbers : c = LatestPublished /\ rows[c].status = "published"
    BY LatestIsSigned DEF Signed
  <2>2. PICK v \in Numbers : v >= c /\ rows'[v].status = "published"
    BY <2>1, AsNewIsPublished
  <2>3. PICK n \in Numbers : n = LatestPublished' /\ n >= v
    BY <2>2, LatestIsSignedNext
  <2>4. n >= c /\ n # None
    BY <2>2, <2>3 DEF Numbers
  <2> QED BY <2>1, <2>3, <2>4
<1> QED BY <1>1, VersionsInvHolds, PTL DEF Spec, PublicationNeverGoesBackwards

-----------------------------------------------------------------------------
(* The shelf that readers see.                                             *)

WorksNow == [v \in Numbers |-> WorkOf(rows[v])]
SignedNow == {v \in Numbers : SignedOnRecord(v)}
LentNow == {x \in Consumers \X Numbers : IsGranted(x[1], x[2])}
UsedNow == {<<r[1], r[2]>> : r \in consumed}

LEMMA ShelfInit ==
    ASSUME Init
    PROVE  Shelf!Init
<1>1. /\ \A v \in Numbers : rows[v].status = "absent"
      /\ grants = [c \in Consumers |-> <<>>] /\ consumed = {} /\ audit = {}
  BY DEF Init, Absent
<1>2. LatestPublished = None
  BY <1>1, LatestIsSigned DEF Signed
<1> QED BY <1>1, <1>2 DEF Shelf!Init, WorkOf, SignedOnRecord, IsGranted

LEMMA ShelfStill ==
    ASSUME WorksNow' = WorksNow, SignedNow' = SignedNow,
           LatestPublished' = LatestPublished, LentNow' = LentNow, UsedNow' = UsedNow
    PROVE  UNCHANGED Shelf!vars
BY DEF Shelf!vars, WorksNow, SignedNow, LentNow, UsedNow

LEMMA SameLatest ==
    ASSUME Signed' = Signed
    PROVE  LatestPublished' = LatestPublished
BY DEF LatestPublished, Signed

LEMMA LatestIsSignedThen ==
    /\ Signed' = {} => LatestPublished' = None
    /\ Signed' # {} => LatestPublished' \in Signed'
<1>1. LatestPublished' = IF Signed' = {} THEN None ELSE Highest(Signed')
  BY DEF LatestPublished, Signed
<1>2. Signed' \in SUBSET Numbers
  BY DEF Signed
<1> HIDE DEF Signed
<1> QED BY <1>1, <1>2, HighestIsHighest

LEMMA InsertPuts ==
    ASSUME VersionsInv, NEW s \in Sessions, Insert(s)
    PROVE  Shelf!Next
<1>1. PICK v \in Numbers : v = job[s].version
  BY DEF Insert, VersionsInv, Freezes
<1>2. job[s].user \in People /\ job[s].payload \in Payloads /\ rows[v].status = "absent"
  BY <1>1 DEF Insert, VersionsInv, Freezes, NumberIsFree
<1> DEFINE w == [content |-> job[s].payload, author |-> job[s].user]
<1>3. /\ rows'[v] = [status |-> "draft", payload |-> job[s].payload,
                     producer |-> job[s].user, publisher |-> None]
      /\ \A n \in Numbers \ {v} : rows'[n] = rows[n]
  <2>1. rows' = [rows EXCEPT ![v] =
                   [status |-> "draft", payload |-> job[s].payload,
                    producer |-> job[s].user, publisher |-> None]]
    BY <1>1 DEF Insert
  <2> QED BY <2>1, OneRow DEF VersionsInv
<1>4. Signed' = Signed
  BY <1>2, <1>3 DEF Signed
<1>5. WorksNow[v] = None /\ WorksNow' = [WorksNow EXCEPT ![v] = w]
  <2>1. WorkOf(rows[v]) = None /\ WorkOf(rows'[v]) = w
    BY <1>2, <1>3 DEF WorkOf
  <2>2. \A n \in Numbers \ {v} : WorkOf(rows'[n]) = WorkOf(rows[n])
    BY <1>3
  <2> HIDE DEF w
  <2> QED BY <2>1, <2>2 DEF WorksNow
<1>6. SignedNow' = SignedNow /\ LentNow' = LentNow /\ UsedNow' = UsedNow
  BY DEF Insert, SignedNow, SignedOnRecord, LentNow, IsGranted, UsedNow
<1>7. w \in [content : Payloads, author : People]
  BY <1>2
<1> HIDE DEF w
<1>8. Shelf!Put(v, w)
  BY <1>4, <1>5, <1>6, SameLatest DEF Shelf!Put, WorksNow, SignedNow, LentNow, UsedNow
<1> QED BY <1>7, <1>8 DEF Shelf!Next

\* A decision is by somebody other than the author of an existing work.
LEMMA DecidedByOther ==
    ASSUME VersionsInv, NEW s \in Sessions, Publish(s) \/ Reject(s)
    PROVE  \E u \in People, v \in Numbers :
              u = job[s].user /\ v = job[s].version /\ Shelf!ByAnother(u, v)
<1>1. PICK u \in People, v \in Numbers :
        /\ u = job[s].user /\ v = job[s].version
        /\ rows[v].status # "absent" /\ MayDecide(u, v)
  BY DEF Publish, Reject, VersionsInv, Decides
<1>2. WorkOf(rows[v]) = [content |-> rows[v].payload, author |-> rows[v].producer]
  BY <1>1 DEF WorkOf
<1>3. rows[v] \in Row
  BY DEF VersionsInv, TypeOK
<1>4. WorkOf(rows[v]) # None /\ WorkOf(rows[v]).author # u
  <2>1. WorkOf(rows[v]) \in [content : Payloads \cup {None}, author : People \cup {None}]
    BY <1>2, <1>3 DEF Row
  <2> QED BY <1>1, <1>2, <2>1, NoWorkAssumption DEF MayDecide
<1> QED BY <1>1, <1>4 DEF Shelf!ByAnother

\* Only an insertion changes what stands on the shelf.
LEMMA WorksStay ==
    ASSUME VersionsInv, [Next]_vars, \A v \in Numbers : rows[v].status = "absent" =>
                                                         rows'[v].status = "absent"
    PROVE  WorksNow' = WorksNow
<1>1. \A v \in Numbers : WorkOf(rows'[v]) = WorkOf(rows[v])
  BY StepKeeps DEF Keeps, WorkOf
<1> QED BY <1>1 DEF WorksNow

LEMMA PublishSigns ==
    ASSUME VersionsInv, NEW s \in Sessions, Publish(s)
    PROVE  Shelf!Next
<1>1. PICK u \in People, v \in Numbers :
        u = job[s].user /\ v = job[s].version /\ Shelf!ByAnother(u, v)
  BY DecidedByOther
<1>2. /\ SignedBy(v) /\ (job[s].current # None => job[s].current <= v)
      /\ \A n \in Numbers \ {v} :
            rows'[n] = rows[n] \/ (n = job[s].current /\ Superseded(n))
  BY <1>1, PublishMoves
<1>3. rows \in [Numbers -> Row] /\ \A n \in Numbers : n # None
  BY DEF VersionsInv, TypeOK, Numbers
<1>4. rows'[v].status = "published" /\ rows[v].status # "absent"
  BY <1>2, <1>3 DEF SignedBy, Row
<1>5. ASSUME NEW n \in Numbers \ {v}
      PROVE  /\ rows'[n].status \in {rows[n].status, "superseded"}
             /\ rows'[n].status # rows[n].status => n <= v
             /\ rows[n].status = "absent" => rows'[n].status = "absent"
  <2>1. CASE rows'[n] = rows[n]
    BY <2>1
  <2>2. CASE n = job[s].current /\ Superseded(n)
    <3>1. n <= v
      BY <1>2, <1>3, <2>2
    <3>2. rows'[n].status = "superseded"
      BY <1>3, <2>2 DEF Superseded, Row
    <3>3. rows[n].status # "absent"
      BY <2>2 DEF Superseded, VersionsInv, PublishersAreOnRecord, AuditNamesVersions
    <3> QED BY <3>1, <3>2, <3>3
  <2> QED BY <1>2, <2>1, <2>2
<1>6. WorksNow' = WorksNow
  BY <1>4, <1>5, WorksStay DEF Next, Continue
<1>7. SignedNow' = SignedNow \cup {v}
  <2>1. audit' = audit \cup {<<"publish", v, u>>}
    BY <1>1 DEF Publish
  <2> QED BY <2>1 DEF SignedNow, SignedOnRecord
<1>8. LatestPublished' = IF LatestPublished = None \/ LatestPublished < v
                         THEN v ELSE LatestPublished
  <2>1. /\ v \in Signed' /\ Signed' \subseteq Signed \cup {v}
        /\ \A n \in Signed : n \notin Signed' => n <= v /\ n # v
    BY <1>4, <1>5 DEF Signed
  <2>2. \A n \in Signed' : n <= LatestPublished'
    BY LatestIsSignedNext DEF Signed
  <2>3. LatestPublished' \in Signed'
    BY <2>1, LatestIsSignedThen
  <2> QED BY <2>1, <2>2, <2>3, LatestIsSigned DEF Numbers, Signed
<1>9. LentNow' = LentNow /\ UsedNow' = UsedNow
  BY DEF Publish, LentNow, IsGranted, UsedNow
<1>10. Shelf!Sign(u, v)
  BY <1>1, <1>6, <1>7, <1>8, <1>9 DEF Shelf!Sign, WorksNow, SignedNow, LentNow, UsedNow
<1> QED BY <1>10 DEF Shelf!Next

\* A rejection of what readers were shown gives them an older signed version,
\* or none; any other one shows them nothing new.
LEMMA RejectWithdraws ==
    ASSUME VersionsInv, NEW s \in Sessions, Reject(s)
    PROVE  Shelf!Next \/ UNCHANGED Shelf!vars
<1>1. PICK u \in People, v \in Numbers :
        u = job[s].user /\ v = job[s].version /\ Shelf!ByAnother(u, v)
  BY DecidedByOther
<1>2. rows[v].status # "absent"
  BY <1>1 DEF Reject, VersionsInv, Decides
<1>3. /\ rows'[v] = [rows[v] EXCEPT !.status = "rejected"]
      /\ \A n \in Numbers \ {v} : rows'[n] = rows[n]
  <2>1. rows' = [rows EXCEPT ![v] = [rows[v] EXCEPT !.status = "rejected"]]
    BY <1>1 DEF Reject
  <2> QED BY <2>1, OneRow DEF VersionsInv
<1>4. rows'[v].status = "rejected"
  BY <1>3 DEF VersionsInv, TypeOK, Row
<1>5. WorksNow' = WorksNow
  BY <1>2, <1>3, <1>4, WorksStay DEF Next, Continue
<1>6. SignedNow' = SignedNow
  <2>1. audit' = audit \cup {<<"reject", v, u>>}
    BY <1>1 DEF Reject
  <2> QED BY <2>1 DEF SignedNow, SignedOnRecord
<1>7. LentNow' = LentNow /\ UsedNow' = UsedNow
  BY DEF Reject, LentNow, IsGranted, UsedNow
<1>8. Signed' = Signed \ {v}
  BY <1>3, <1>4 DEF Signed
<1>9. CASE LatestPublished # v
  <2>1. Signed' = {} => Signed = {}
    BY <1>8, <1>9, LatestIsSigned
  <2>2. LatestPublished' = LatestPublished
    <3>1. CASE Signed' = {}
      BY <2>1, <3>1, SameLatest
    <3>2. CASE Signed' # {}
      <4>1. LatestPublished \in Signed' /\ LatestPublished \in Numbers
        BY <1>8, <1>9, <3>2, LatestIsSigned
      <4>2. /\ LatestPublished' \in Signed'
            /\ \A n \in Signed' : n <= LatestPublished'
        BY <3>2, LatestIsSignedThen, LatestIsSignedNext DEF Signed
      <4> QED BY <1>8, <4>1, <4>2, LatestIsSigned DEF Numbers, Signed
    <3> QED BY <3>1, <3>2
  <2> QED BY <1>5, <1>6, <1>7, <2>2, ShelfStill
<1>10. CASE LatestPublished = v
  <2>1. LatestPublished' \in {n \in SignedNow : n < v} \cup {None}
    <3>1. CASE Signed' = {}
      BY <3>1, LatestIsSignedThen
    <3>2. CASE Signed' # {}
      <4>1. PICK n \in Signed' : n = LatestPublished'
        BY <3>2, LatestIsSignedThen
      <4>2. n \in Signed /\ n # v /\ n \in Numbers
        BY <1>8, <4>1 DEF Signed
      <4>3. n < v
        BY <1>10, <4>2, LatestIsSigned DEF Numbers
      <4>4. SignedOnRecord(n)
        <5>1. <<"publish", n, rows[n].publisher>> \in audit
          BY <4>2 DEF Signed, VersionsInv, DecidedByAnother
        <5>2. audit \subseteq {"publish", "reject"} \X Numbers \X People
          BY DEF VersionsInv, TypeOK
        <5> QED BY <5>1, <5>2 DEF SignedOnRecord
      <4> QED BY <4>1, <4>2, <4>3, <4>4 DEF SignedNow
    <3> QED BY <3>1, <3>2
  <2>2. Shelf!Withdraw(u, v)
    BY <1>1, <1>5, <1>6, <1>7, <1>10, <2>1
       DEF Shelf!Withdraw, WorksNow, SignedNow, LentNow, UsedNow
  <2> QED BY <2>2 DEF Shelf!Next
<1> QED BY <1>9, <1>10

LEMMA RecordUses ==
    ASSUME VersionsInv, NEW s \in Sessions, RecordConsumption(s)
    PROVE  Shelf!Next
<1>1. PICK c \in Consumers, v \in Numbers :
        /\ c = job[s].consumer /\ v = job[s].version
        /\ SignedOnRecord(v) \/ IsGranted(c, v)
  BY DEF RecordConsumption, VersionsInv, Reads, IsGranted
<1>2. v \in SignedNow \/ <<c, v>> \in LentNow
  BY <1>1 DEF SignedNow, LentNow
<1>3. consumed' = consumed \cup {<<c, v, job[s].granted>>}
  BY <1>1 DEF RecordConsumption
<1>4. UsedNow' = UsedNow \cup {<<c, v>>}
  <2>1. <<c, v, job[s].granted>>[1] = c /\ <<c, v, job[s].granted>>[2] = v
    OBVIOUS
  <2>2. \A x : x \in UsedNow' <=> x \in UsedNow \/ x = <<c, v>>
    BY <1>3, <2>1 DEF UsedNow
  <2> QED BY <2>2
<1>5. /\ WorksNow' = WorksNow /\ SignedNow' = SignedNow /\ LentNow' = LentNow
      /\ LatestPublished' = LatestPublished
  BY DEF RecordConsumption, WorksNow, WorkOf, SignedNow, SignedOnRecord, LentNow, IsGranted,
         LatestPublished
<1>6. Shelf!Use(c, v)
  BY <1>2, <1>4, <1>5 DEF Shelf!Use, WorksNow, SignedNow, LentNow, UsedNow
<1> QED BY <1>6 DEF Shelf!Next

LEMMA GrantLends ==
    ASSUME VersionsInv, NEW c \in Consumers, NEW v \in Numbers, GrantAccess(c, v)
    PROVE  Shelf!Next
<1>1. /\ WorksNow' = WorksNow /\ SignedNow' = SignedNow /\ UsedNow' = UsedNow
      /\ LatestPublished' = LatestPublished
  BY DEF GrantAccess, WorksNow, WorkOf, SignedNow, SignedOnRecord, UsedNow, LatestPublished
<1>2. WorksNow[v] # None
  <2>1. rows[v] \in Row /\ rows[v].status # "absent"
    BY DEF VersionsInv, TypeOK, GrantAccess
  <2>2. WorkOf(rows[v]) \in [content : Payloads \cup {None}, author : People \cup {None}]
    BY <2>1 DEF WorkOf, Row
  <2> QED BY <2>2, NoWorkAssumption DEF WorksNow
<1>3. LentNow' = LentNow \cup {<<c, v>>}
  <2>1. grants \in [Consumers -> Seq(Numbers)]
    BY DEF VersionsInv, TypeOK
  <2>2. /\ grants'[c] = Append(grants[c], v)
        /\ \A d \in Consumers \ {c} : grants'[d] = grants[d]
    BY <2>1 DEF GrantAccess
  <2>3. \A n \in Numbers : IsGranted(c, n)' <=> IsGranted(c, n) \/ n = v
    <3>1. grants[c] \in Seq(Numbers)
      BY <2>1
    <3>2. /\ DOMAIN grants'[c] = 1..Len(grants[c]) + 1 /\ DOMAIN grants[c] = 1..Len(grants[c])
          /\ \A i \in DOMAIN grants[c] : grants'[c][i] = grants[c][i]
          /\ grants'[c][Len(grants[c]) + 1] = v
      BY <2>2, <3>1
    <3>3. Len(grants[c]) \in Nat
      BY <3>1
    <3> QED BY <3>2, <3>3 DEF IsGranted
  <2>4. \A d \in Consumers \ {c}, n \in Numbers : IsGranted(d, n)' <=> IsGranted(d, n)
    BY <2>2 DEF IsGranted
  <2> QED BY <2>3, <2>4 DEF LentNow
<1>4. Shelf!Lend(c, v)
  BY <1>1, <1>2, <1>3 DEF Shelf!Lend, WorksNow, SignedNow, LentNow, UsedNow
<1> QED BY <1>4 DEF Shelf!Next

LEMMA ShelfStep ==
    ASSUME VersionsInv, [Next]_vars
    PROVE  [Shelf!Next]_(Shelf!vars)
<1>1. CASE UNCHANGED <<rows, grants, consumed, audit>>
  <2>1. /\ WorksNow' = WorksNow /\ SignedNow' = SignedNow /\ LentNow' = LentNow
        /\ UsedNow' = UsedNow /\ LatestPublished' = LatestPublished
    BY <1>1 DEF WorksNow, WorkOf, SignedNow, SignedOnRecord, LentNow, IsGranted, UsedNow,
                LatestPublished
  <2> QED BY <2>1, ShelfStill
<1>2. \/ UNCHANGED <<rows, grants, consumed, audit>>
      \/ \E s \in Sessions : Insert(s) \/ Publish(s) \/ Reject(s) \/ RecordConsumption(s)
      \/ \E c \in Consumers, v \in Numbers : GrantAccess(c, v)
  BY DEF Next, vars, Start, Continue, Freeze, PublishLoad, RejectLoad, ReadPublished, Allocate,
         Collide, Retry, PublishCompare, ReadGranted, Abort
<1> QED BY <1>1, <1>2, InsertPuts, PublishSigns, RejectWithdraws, RecordUses, GrantLends

\* The versions, their stale decisions and their readers implement the shelf:
\* works are never altered, signed by others, shown newest first, and used
\* only when signed or lent.
THEOREM StageIsAShelf == Spec => ImplementsShelf
<1>1. VersionsInv /\ [Next]_vars => [Shelf!Next]_(Shelf!vars)
  BY ShelfStep
<1> QED BY <1>1, ShelfInit, VersionsInvHolds, PTL DEF Spec, ImplementsShelf, Shelf!Spec

=============================================================================
