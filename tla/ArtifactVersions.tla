-------------------------- MODULE ArtifactVersions --------------------------
(***************************************************************************)
(* The numbered, frozen versions of one project stage's artifact, their    *)
(* publication, and the reads of other stages:                             *)
(* backend/shared/services/artifact_versions.py, artifact_consumption.py   *)
(* and the constraints and trigger of migration 0045.                      *)
(*                                                                         *)
(* Stages are independent of each other, so the module is one stage of one *)
(* project that enforces publication.  Handlers are READ COMMITTED         *)
(* transactions: each SELECT is a step, the writes and the commit are one. *)
(***************************************************************************)
EXTENDS Integers, FiniteSets, Sequences

CONSTANTS
    People,      \* producers and publishers
    Payloads,    \* what a stage's working draft may hold, covers included
    Consumers,   \* stages that read this one
    Sessions,    \* concurrent requests and agent tool calls
    None,        \* NULL
    RowSecurity, \* the database role is subject to row-level security
    MaxVersion   \* bound: highest version number allocated

ASSUME NoneAssumption ==
    None \notin People \cup Payloads \cup Consumers \cup (1 .. MaxVersion)
ASSUME NoWorkAssumption ==
    None \notin [content : Payloads \cup {None}, author : People \cup {None}]
ASSUME RowSecurityAssumption == RowSecurity \in BOOLEAN
ASSUME MaxVersionAssumption == MaxVersion \in Nat

VARIABLES
    rows,      \* rows[v]: version v of the stage
    job,       \* job[s]: the request or tool call session s is serving
    grants,    \* grants[c]: versions granted to consumer c, newest last
    consumed,  \* artifact_consumptions: <<consumer, version, via grant>>
    notices,   \* supersession notices: <<consumer, superseded version>>
    audit      \* decisions on versions: <<event, version, actor>>

vars == <<rows, job, grants, consumed, notices, audit>>

Numbers == 1 .. MaxVersion

Row == [status    : {"absent", "draft", "published", "rejected", "superseded"},
        payload   : Payloads \cup {None},
        producer  : People \cup {None},
        publisher : People \cup {None}]

Absent == [status |-> "absent", payload |-> None, producer |-> None,
           publisher |-> None]

Job == [pc       : {"idle", "allocating", "inserting", "retrying", "publishing",
                    "signing", "rejecting", "asking", "reading", "failed"},
        version  : Numbers \cup {None},
        current  : Numbers \cup {None},   \* the version found published
        user     : People \cup {None},
        payload  : Payloads \cup {None},
        consumer : Consumers \cup {None},
        granted  : BOOLEAN]

Idle == [pc |-> "idle", version |-> None, current |-> None, user |-> None,
         payload |-> None, consumer |-> None, granted |-> FALSE]

TypeOK ==
    /\ rows \in [Numbers -> Row]
    /\ job \in [Sessions -> Job]
    /\ grants \in [Consumers -> Seq(Numbers)]
    /\ consumed \subseteq Consumers \X Numbers \X BOOLEAN
    /\ notices \subseteq Consumers \X Numbers
    /\ audit \subseteq {"publish", "reject"} \X Numbers \X People

Init ==
    /\ rows = [v \in Numbers |-> Absent]
    /\ job = [s \in Sessions |-> Idle]
    /\ grants = [c \in Consumers |-> <<>>]
    /\ consumed = {}
    /\ notices = {}
    /\ audit = {}

-----------------------------------------------------------------------------
Existing == {v \in Numbers : rows[v].status # "absent"}

Highest(S) == CHOOSE v \in S : \A w \in S : w <= v

\* latest_published: the newest signed version, or None.
NewestAnything == IF Existing = {} THEN None ELSE Highest(Existing)  \* mutant: drafts
LatestPublished ==
    LET signed == {v \in Numbers : rows[v].status = "published"} IN
    IF signed = {} THEN None ELSE Highest(signed)

\* SELECT COALESCE(MAX(version), 0) + 1
NextNumber == IF Existing = {} THEN 1 ELSE Highest(Existing) + 1

Goto(s, j) == job' = [job EXCEPT ![s] = j]

Finish(s) == Goto(s, Idle)

-----------------------------------------------------------------------------
(* Freezing the working payload: snapshot_stage_payload.                   *)

\* An unchanged payload reuses the latest version: nothing is frozen.
AlreadyFrozen(p) == Existing # {} /\ rows[Highest(Existing)].payload = p

Freeze(s, u, p) ==
    /\ job[s].pc = "idle"
    /\ ~AlreadyFrozen(p)
    /\ Goto(s, [Idle EXCEPT !.pc = "allocating", !.user = u, !.payload = p])
    /\ UNCHANGED <<rows, grants, consumed, notices, audit>>

Allocate(s) ==
    /\ job[s].pc = "allocating"
    /\ NextNumber \in Numbers
    /\ Goto(s, [job[s] EXCEPT !.pc = "inserting", !.version = NextNumber])
    /\ UNCHANGED <<rows, grants, consumed, notices, audit>>

\* uq_artifact_versions_project_stage_version
AlwaysFree(v) == TRUE                                    \* mutant: no constraint
NumberIsFree(v) == rows[v].status = "absent"

Insert(s) ==
    LET j == job[s] IN
    /\ j.pc = "inserting"
    /\ NumberIsFree(j.version)
    /\ rows' = [rows EXCEPT ![j.version] =
                  [status |-> "draft", payload |-> j.payload,
                   producer |-> j.user, publisher |-> None]]
    /\ Finish(s)
    /\ UNCHANGED <<grants, consumed, notices, audit>>

\* Somebody took the number: IntegrityError, and db.rollback().
Collide(s) ==
    /\ job[s].pc = "inserting"
    /\ ~NumberIsFree(job[s].version)
    /\ Goto(s, [job[s] EXCEPT !.pc = "retrying", !.version = None])
    /\ UNCHANGED <<rows, grants, consumed, notices, audit>>

\* The rollback also ended the transaction-local tenant: under row-level
\* security the INSERT of the retry is refused, with an error that is not an
\* IntegrityError and ends the request.
Retry(s) ==
    /\ job[s].pc = "retrying"
    /\ IF RowSecurity
       THEN Goto(s, [Idle EXCEPT !.pc = "failed"])
       ELSE Goto(s, [job[s] EXCEPT !.pc = "allocating"])
    /\ UNCHANGED <<rows, grants, consumed, notices, audit>>

-----------------------------------------------------------------------------
(* Publication: publish_version.                                           *)

AnyoneDecides(u, v) == TRUE                                    \* mutant: anybody decides
MayDecide(u, v) == u # rows[v].producer

\* get_version and the refusals it allows; publishing twice changes nothing.
PublishLoad(s, u, v) ==
    /\ job[s].pc = "idle"
    /\ rows[v].status = "draft"
    /\ MayDecide(u, v)
    /\ Goto(s, [Idle EXCEPT !.pc = "publishing", !.user = u, !.version = v])
    /\ UNCHANGED <<rows, grants, consumed, notices, audit>>

NeverBackwards(current, v) == FALSE                      \* mutant: check dropped
GoesBackwards(current, v) == current # None /\ current > v

\* latest_published, and the refusal to supersede newer approved work.
PublishCompare(s) ==
    LET current == LatestPublished IN
    /\ job[s].pc = "publishing"
    /\ IF GoesBackwards(current, job[s].version)
       THEN Finish(s)
       ELSE Goto(s, [job[s] EXCEPT !.pc = "signing", !.current = current])
    /\ UNCHANGED <<rows, grants, consumed, notices, audit>>

\* Both rows are updated by primary key, whatever they hold by now; whoever
\* has consumed the replaced version is told.
Publish(s) ==
    LET j == job[s]
        signed == [rows EXCEPT ![j.version] =
                     [@ EXCEPT !.status = "published", !.publisher = j.user]] IN
    /\ j.pc = "signing"
    /\ rows' = IF j.current \in Numbers \ {j.version}
               THEN [signed EXCEPT ![j.current].status = "superseded"]
               ELSE signed
    /\ notices' = notices \cup
         {n \in Consumers \X {j.current} : \E g \in BOOLEAN : <<n[1], n[2], g>> \in consumed}
    /\ audit' = audit \cup {<<"publish", j.version, j.user>>}
    /\ Finish(s)
    /\ UNCHANGED <<grants, consumed>>

-----------------------------------------------------------------------------
(* reject_version: only a draft, only by somebody else.                    *)

RejectLoad(s, u, v) ==
    /\ job[s].pc = "idle"
    /\ rows[v].status = "draft"
    /\ MayDecide(u, v)
    /\ Goto(s, [Idle EXCEPT !.pc = "rejecting", !.user = u, !.version = v])
    /\ UNCHANGED <<rows, grants, consumed, notices, audit>>

Reject(s) ==
    LET j == job[s] IN
    /\ j.pc = "rejecting"
    /\ rows' = [rows EXCEPT ![j.version].status = "rejected"]
    /\ audit' = audit \cup {<<"reject", j.version, j.user>>}
    /\ Finish(s)
    /\ UNCHANGED <<grants, consumed, notices>>

-----------------------------------------------------------------------------
(* Consumption: read_upstream_for_agent, read_upstream.                    *)

\* An approved artifact_consumption request: one version, one consumer; a
\* second grant for the pair does nothing.
GrantAccess(c, v) ==
    /\ rows[v].status # "absent"
    /\ \A i \in DOMAIN grants[c] : grants[c][i] # v
    /\ grants' = [grants EXCEPT ![c] = Append(@, v)]
    /\ UNCHANGED <<rows, job, consumed, notices, audit>>

ReadPublished(s, c) ==
    /\ job[s].pc = "idle"
    /\ Goto(s, IF LatestPublished = None
               THEN [Idle EXCEPT !.pc = "asking", !.consumer = c]
               ELSE [Idle EXCEPT !.pc = "reading", !.consumer = c,
                                 !.version = LatestPublished])
    /\ UNCHANGED <<rows, grants, consumed, notices, audit>>

\* Nothing published: the newest grant, or "no approved version" and no draft.
ReadGranted(s) ==
    LET allowed == grants[job[s].consumer] IN
    /\ job[s].pc = "asking"
    /\ IF allowed = <<>>
       THEN Finish(s)
       ELSE Goto(s, [job[s] EXCEPT !.pc = "reading", !.granted = TRUE,
                                   !.version = allowed[Len(allowed)]])
    /\ UNCHANGED <<rows, grants, consumed, notices, audit>>

\* record_consumption and the commit, after the reads that build the answer.
RecordConsumption(s) ==
    LET j == job[s] IN
    /\ j.pc = "reading"
    /\ consumed' = consumed \cup {<<j.consumer, j.version, j.granted>>}
    /\ Finish(s)
    /\ UNCHANGED <<rows, grants, notices, audit>>

\* The process dies or the request is cancelled: the transaction rolls back.
Abort(s) ==
    /\ job[s].pc # "idle"
    /\ Finish(s)
    /\ UNCHANGED <<rows, grants, consumed, notices, audit>>

-----------------------------------------------------------------------------
Start(s) ==
    \/ \E u \in People, p \in Payloads : Freeze(s, u, p)
    \/ \E u \in People, v \in Numbers : PublishLoad(s, u, v) \/ RejectLoad(s, u, v)
    \/ \E c \in Consumers : ReadPublished(s, c)

Continue(s) ==
    \/ Allocate(s)
    \/ Insert(s)
    \/ Collide(s)
    \/ Retry(s)
    \/ PublishCompare(s)
    \/ Publish(s)
    \/ Reject(s)
    \/ ReadGranted(s)
    \/ RecordConsumption(s)

Next ==
    \/ \E s \in Sessions : Start(s) \/ Continue(s) \/ Abort(s)
    \/ \E c \in Consumers, v \in Numbers : GrantAccess(c, v)

Spec == Init /\ [][Next]_vars

-----------------------------------------------------------------------------
(* Properties.                                                             *)

\* Every decision on record was taken by somebody other than the producer, and
\* a version that is or was published was signed, on record, by its publisher.
DecidedByAnother ==
    /\ \A a \in audit : a[3] # rows[a[2]].producer
    /\ \A v \in Numbers : rows[v].status \in {"published", "superseded"} =>
           <<"publish", v, rows[v].publisher>> \in audit

\* What a consumer built on had been published, or was granted to that very
\* consumer: a draft is never a fallback.
ConsumedIsSignedOrGranted ==
    \A r \in consumed :
        IF r[3] THEN \E i \in DOMAIN grants[r[1]] : grants[r[1]][i] = r[2]
                ELSE \E u \in People : <<"publish", r[2], u>> \in audit

\* Content and producer of a version never change once it exists.
VersionsAreFrozen ==
    [][\A v \in Existing :
          /\ rows'[v].payload = rows[v].payload
          /\ rows'[v].producer = rows[v].producer]_vars

\* What consumers read moves back to an older version only when a rejection
\* takes the newest one away; no publication, however stale, does it.
PublicationNeverGoesBackwards ==
    [][LatestPublished # None =>
         \/ LatestPublished' # None /\ LatestPublished' >= LatestPublished
         \/ \E v \in Numbers : rows'[v].status = "rejected" /\ rows[v].status # "rejected"]_vars

\* publish_version: "the previous published version becomes superseded".
OnePublishedVersion ==
    Cardinality({v \in Numbers : rows[v].status = "published"}) <= 1

\* publish_version and reject_version: a decided version is not decided again.
DecisionStands ==
    [][\A v \in Numbers :
          /\ rows[v].status = "rejected" => rows'[v].status = "rejected"
          /\ rows[v].status = "published" =>
                 rows'[v].status \in {"published", "superseded"}]_vars

\* publish_version: consumers that built on the version being replaced are told.
ConsumersAreTold ==
    \A r \in consumed :
        ~r[3] /\ rows[r[2]].status = "superseded" => <<r[1], r[2]>> \in notices

\* snapshot_stage_payload: the loser of a number race retries; a collision does
\* not fail a run.
LoserRetries == \A s \in Sessions : job[s].pc # "failed"

-----------------------------------------------------------------------------
(* What the stages that read this one may rely on.                         *)

SignedOnRecord(v) == \E u \in People : <<"publish", v, u>> \in audit

WorkOf(row) ==
    IF row.status = "absent" THEN None
    ELSE [content |-> row.payload, author |-> row.producer]

IsGranted(c, v) == \E i \in DOMAIN grants[c] : grants[c][i] = v

Shelf == INSTANCE VersionShelf
           WITH Works <- [content : Payloads, author : People],
                Readers <- Consumers,
                Nothing <- None,
                shelf <- [v \in Numbers |-> WorkOf(rows[v])],
                signed <- {v \in Numbers : SignedOnRecord(v)},
                shown <- LatestPublished,
                lent <- {x \in Consumers \X Numbers : IsGranted(x[1], x[2])},
                used <- {<<r[1], r[2]>> : r \in consumed}

\* A shelf of numbered works that are never altered, shown once somebody other
\* than the author signed them, the newest first however publications race:
\* what readers of a stage may rely on while its versions are written, decided
\* and consumed in transactions that go by stale reads.
ImplementsShelf == Shelf!Spec

-----------------------------------------------------------------------------
(* The inductive invariant: what outlives the read that a job goes by.     *)

\* A publisher is never taken off a version, and signed on record.
PublishersAreOnRecord ==
    \A v \in Numbers :
        /\ rows[v].publisher # None => <<"publish", v, rows[v].publisher>> \in audit
        /\ rows[v].status \in {"published", "superseded"} => rows[v].publisher # None

AuditNamesVersions == \A a \in audit : rows[a[2]].status # "absent"

Freezes(s) ==
    LET j == job[s] IN
    /\ j.pc \in {"allocating", "inserting", "retrying"} =>
           j.user \in People /\ j.payload \in Payloads
    /\ j.pc = "inserting" => j.version \in Numbers

\* A decision is not the producer's; what it supersedes was published and is
\* not newer.
Decides(s) ==
    LET j == job[s] IN
    /\ j.pc \in {"publishing", "signing", "rejecting"} =>
           /\ j.user \in People /\ j.version \in Numbers
           /\ rows[j.version].status # "absent" /\ MayDecide(j.user, j.version)
    /\ j.pc = "signing" /\ j.current # None =>
           j.current <= j.version /\ rows[j.current].publisher # None

\* What is about to be recorded as read was published, or granted.
Reads(s) ==
    LET j == job[s] IN
    /\ j.pc = "asking" => j.consumer \in Consumers /\ ~ j.granted
    /\ j.pc = "reading" =>
           /\ j.consumer \in Consumers /\ j.version \in Numbers
           /\ IF j.granted
              THEN \E i \in DOMAIN grants[j.consumer] : grants[j.consumer][i] = j.version
              ELSE SignedOnRecord(j.version)

VersionsInv ==
    /\ TypeOK /\ DecidedByAnother /\ ConsumedIsSignedOrGranted
    /\ PublishersAreOnRecord /\ AuditNamesVersions
    /\ \A s \in Sessions : Freezes(s) /\ Decides(s) /\ Reads(s)

=============================================================================
