---------------------------- MODULE AgentStudio ----------------------------
(***************************************************************************)
(* Agent Studio: the versions of one agent's behaviour profile or of one   *)
(* of its skills at one shared scope (routers/agent_profiles.py,           *)
(* services/skill_store.py), the evaluation that a proposal needs          *)
(* (services/eval_gate.py, routers/agent_skills.py) and the approval that  *)
(* publishes it (governance_requests.py, governance/effects.py).           *)
(*                                                                         *)
(* Every operation loads rows, decides, and writes in its own transaction  *)
(* at read committed, with no lock: only columns it changed are written,   *)
(* by primary key.  Row ids are the positions of the sequence rows.        *)
(***************************************************************************)
EXTENDS Naturals, Sequences, FiniteSets, FiniteSetsExt

CONSTANTS
    Sessions,   \* requests that may be under way at once
    Users, None,
    Owners,     \* who may change the scope's default without a proposal
    Proposers,  \* who does propose
    Lines,      \* the profiles and skills, and the scope each is at
    MaxRows     \* bound: rows ever inserted; also, a row is passed once and
                \* has one open proposal at a time

ASSUME AgentStudioAssumption ==
    /\ Owners \subseteq Users /\ Proposers \subseteq Users
    /\ Lines \subseteq [kind : {"profile", "skill"}, scope : {"org", "workspace"}]
    /\ MaxRows \in Nat

VARIABLES
    line,       \* which profile or skill this is: its kind and its scope
    rows,       \* AgentProfile or AgentSkill, in order of insertion
    op,         \* op[s]: the operation request s is in the middle of
    passes,     \* AgentDefaultEvaluation rows with result "pass"
    proposals,  \* open governance requests: the row and who asked
    live,       \* history: the row last published, 0 after it was withdrawn
    clean,      \* history: no write since that publish was overtaken
    approved    \* history: rows an approval has published

vars == <<line, rows, op, passes, proposals, live, clean, approved>>

Ids == DOMAIN rows
Undeleted == {i \in Ids : ~rows[i].deleted}
\* A deleted row may keep or regain the flag; every reader leaves it out.
Active == {i \in Undeleted : rows[i].active}
Twins(i) == {j \in Ids \ {i} : rows[j].version = rows[i].version}
Newest(S) == {i \in S : \A j \in S : rows[j].version <= rows[i].version}

Flips == {"publish", "activate", "approve"}
Hows == Flips \cup {"draft", "create", "update", "unpublish", "delete", "evaluate"}
Idle == [by |-> None, how |-> "none", at |-> "idle", target |-> 0,
         seen |-> <<>>, late |-> FALSE]

Row == [version : 1..MaxRows, author : Users, good : BOOLEAN,
        active : BOOLEAN, deleted : BOOLEAN]

Op == [by : Users \cup {None}, how : Hows \cup {"none"}, at : {"idle", "read", "write"},
       target : Ids \cup {0}, seen : UNION {[S -> BOOLEAN] : S \in SUBSET Ids},
       late : BOOLEAN]

TypeOK ==
    /\ line \in Lines
    /\ rows \in Seq(Row) /\ Len(rows) <= MaxRows
    /\ op \in [Sessions -> Op]
    /\ passes \subseteq [row : Ids, by : Users, text : Ids]
    /\ proposals \subseteq [row : Ids, by : Users]
    /\ live \in Ids \cup {0} /\ clean \in BOOLEAN /\ approved \subseteq Ids

Init ==
    /\ line \in Lines
    /\ rows = <<>> /\ op = [s \in Sessions |-> Idle]
    /\ passes = {} /\ proposals = {}
    /\ live = 0 /\ clean = TRUE /\ approved = {}

Enter(s, x) ==
    /\ op[s].at = "idle" /\ op' = [op EXCEPT ![s] = x]
    /\ UNCHANGED <<line, rows, passes, proposals, live, clean, approved>>

\* A draft leaves the other rows alone, and so does a member's new version.
Rewrites(u, how) == how \notin {"draft", "create"} /\ (how = "update" => u \in Owners)

\* A request that selects the rows it goes by, and keeps what it read.
Start(s, u, how, target, S) ==
    Enter(s, [by |-> u, how |-> how, at |-> "write", target |-> target,
              seen |-> [i \in S |-> rows[i].active /\ Rewrites(u, how)], late |-> FALSE])

Draft(s, u) ==
    line.kind = "profile" /\ Len(rows) < MaxRows /\ Start(s, u, "draft", 0, Ids)
Unpublish(s, u, i) ==
    line.kind = "profile" /\ u \in Owners /\ Start(s, u, "unpublish", i, {i})
Create(s, u) ==
    /\ line.kind = "skill" /\ Undeleted = {} /\ Len(rows) < MaxRows
    /\ Start(s, u, "create", 0, {})
Update(s, u) ==
    /\ line.kind = "skill" /\ Undeleted # {} /\ Len(rows) < MaxRows
    /\ Start(s, u, "update", 0, Undeleted)
Delete(s, u) ==
    /\ line.kind = "skill" /\ u \in Owners /\ Undeleted # {}
    /\ Start(s, u, "delete", 0, Undeleted)
Activate(s, u, i) ==
    /\ line.kind = "skill" /\ u \in Owners /\ i \in Undeleted
    /\ Start(s, u, "activate", i, Undeleted)

\* A request that loads its target before it selects the target's siblings.
StartAt(s, u, how, i) ==
    Enter(s, [by |-> u, how |-> how, at |-> "read", target |-> i,
              seen |-> [j \in {i} |-> rows[j].active], late |-> FALSE])

Publish(s, u, i) == line.kind = "profile" /\ u \in Owners /\ StartAt(s, u, "publish", i)

\* decide() looks the pass up again; the guarded UPDATE lets one decision in.
Approve(s, u, p) ==
    /\ p \in proposals /\ u \in Owners /\ u # p.by
    /\ \E e \in passes : e.row = p.row
    /\ \A t \in Sessions : op[t].how # "approve" \/ op[t].target # p.row
    /\ line.kind = "skill" => p.row \in Undeleted
    /\ StartAt(s, u, "approve", p.row)

\* A row loaded before keeps the flag it had then.
Siblings(s) ==
    LET S == IF line.kind = "profile" THEN Ids ELSE Undeleted
    IN  /\ op[s].at = "read"
        /\ op' = [op EXCEPT ![s].at = "write",
                            ![s].seen = [i \in S |-> IF i = op[s].target THEN @[i]
                                                     ELSE rows[i].active]]
        /\ UNCHANGED <<line, rows, passes, proposals, live, clean, approved>>

\* A committed write overtakes every change of flags that has already read.
Commit(s) == [t \in Sessions |->
    IF t = s THEN Idle
    ELSE [op[t] EXCEPT !.late = @ \/ (op[t].how \notin {"none", "draft", "evaluate"}
                                   /\ op[t].by \in Owners)]]

\* next_version and its kin: one more than the highest version read.
NextVersion(x) ==
    IF DOMAIN x.seen = {} THEN 1 ELSE 1 + Max({rows[i].version : i \in DOMAIN x.seen})

\* The unique constraint: a scope_id of NULL equals no other.
Refused(v) == line.scope = "workspace" /\ \E i \in Ids : rows[i].version = v

\* draft, create, update: a new row; an owner's skill goes live at once.
Insert(s) ==
    LET x == op[s]  v == NextVersion(op[s])
        lives == line.kind = "skill" /\ x.by \in Owners
    IN  /\ x.at = "write" /\ x.how \in {"draft", "create", "update"}
        /\ IF Refused(v)
           THEN op' = [op EXCEPT ![s] = Idle] /\ UNCHANGED <<rows, live, clean>>
           ELSE /\ Len(rows) < MaxRows
                /\ \E good \in BOOLEAN :
                     rows' = Append([i \in Ids |->
                         IF i \in DOMAIN x.seen /\ x.seen[i]
                         THEN [rows[i] EXCEPT !.active = FALSE] ELSE rows[i]],
                         [version |-> v, author |-> x.by, good |-> good,
                          active |-> lives, deleted |-> FALSE])
                /\ live' = IF lives THEN Len(rows) + 1 ELSE live
                /\ clean' = IF lives THEN ~x.late ELSE clean
                /\ op' = Commit(s)
        /\ UNCHANGED <<line, passes, proposals, approved>>

\* Mutant of Wanted: the other rows keep their flag.
WantedToo(x, i) == rows[i].version = rows[x.target].version \/ x.seen[i]
\* apply_publish_flip goes by row, activate_custom_version by version.
Wanted(x, i) ==
    IF x.how = "activate" THEN rows[i].version = rows[x.target].version
    ELSE i = x.target

\* The one flip of publish, activate and an approved proposal.
Flip(s) ==
    LET x == op[s]
    IN  /\ x.at = "write" /\ x.how \in Flips
        /\ rows' = [i \in Ids |->
             IF i \in DOMAIN x.seen /\ x.seen[i] # Wanted(x, i)
             THEN [rows[i] EXCEPT !.active = Wanted(x, i)] ELSE rows[i]]
        /\ live' = x.target /\ clean' = ~x.late
        /\ IF x.how = "approve"
           THEN /\ approved' = approved \cup {x.target}
                /\ proposals' = {p \in proposals : p.row # x.target}
           ELSE UNCHANGED <<approved, proposals>>
        /\ op' = Commit(s)
        /\ UNCHANGED <<line, passes>>

\* unpublish takes one row back, soft_delete_custom_skill every row it read.
Withdraw(s) ==
    LET x == op[s]
    IN  /\ x.at = "write" /\ x.how \in {"unpublish", "delete"}
        /\ rows' = [i \in Ids |->
             IF i \notin DOMAIN x.seen THEN rows[i]
             ELSE [rows[i] EXCEPT !.active = @ /\ ~x.seen[i],
                                  !.deleted = @ \/ x.how = "delete"]]
        /\ live' = IF x.how = "delete" \/ live = x.target THEN 0 ELSE live
        /\ clean' = (clean /\ ~x.late)
        /\ op' = Commit(s)
        /\ UNCHANGED <<line, passes, proposals, approved>>

------------------------------------------------------------------------------
(* The evaluation gate.                                                     *)

\* Mutant of MayEvaluate: authors score their own drafts everywhere.
MayEvaluateAny(u, i) == TRUE
\* SELF_EVALUATION_BLOCKED
MayEvaluate(u, i) == line.scope = "org" => rows[i].author # u

\* evaluate: the profile's own text; evaluate_skill: the newest draft.
Evaluate(s, u, i) ==
    /\ line.kind = "skill" => i \in Newest(Undeleted \ Active)
    /\ MayEvaluate(u, i) /\ ~\E e \in passes : e.row = i
    /\ Start(s, u, "evaluate", i, {})

\* A skill's text is read again by version, and not at all while two
\* versions are active.  A failed score leaves nothing the gates read.
Score(s, t) ==
    LET x == op[s]
    IN  /\ x.at = "write" /\ x.how = "evaluate"
        /\ t = x.target \/ (line.kind = "skill" /\ t \in Twins(x.target))
        /\ line.kind = "skill" => t \in Undeleted /\ Cardinality(Active) < 2
        /\ rows[t].good
        /\ passes' = passes \cup {[row |-> x.target, by |-> x.by, text |-> t]}
        /\ op' = [op EXCEPT ![s] = Idle]
        /\ UNCHANGED <<line, rows, proposals, live, clean, approved>>

GiveUp(s) ==
    /\ op[s].at = "write" /\ op[s].how = "evaluate"
    /\ op' = [op EXCEPT ![s] = Idle]
    /\ UNCHANGED <<line, rows, passes, proposals, live, clean, approved>>

\* propose, propose_skill
Propose(u, i) ==
    /\ line.kind = "skill" =>
         i \in Newest({j \in Undeleted \ Active : rows[j].author = u})
    /\ \E e \in passes : e.row = i
    /\ ~\E q \in proposals : q.row = i
    /\ proposals' = proposals \cup {[row |-> i, by |-> u]}
    /\ UNCHANGED <<line, rows, op, passes, live, clean, approved>>

Next ==
    \/ \E s \in Sessions :
        \/ Siblings(s) \/ Insert(s) \/ Flip(s) \/ Withdraw(s) \/ GiveUp(s)
        \/ \E i \in Ids : Score(s, i)
        \/ \E u \in Users :
            \/ Draft(s, u) \/ Create(s, u) \/ Update(s, u) \/ Delete(s, u)
            \/ \E i \in Ids : \/ Publish(s, u, i) \/ Unpublish(s, u, i)
                              \/ Activate(s, u, i) \/ Evaluate(s, u, i)
            \/ \E p \in proposals : Approve(s, u, p)
    \/ \E u \in Proposers : \E i \in Ids : Propose(u, i)

Spec == Init /\ [][Next]_vars

------------------------------------------------------------------------------
(* Properties.                                                             *)

\* A publish that no other write overtook heals whatever races left behind:
\* its row is active and no other, but for rows that share its version, which
\* an organization-wide line can have.
PublishHeals ==
    clean => /\ live # 0 => live \in Active
             /\ \A i \in Active : live # 0 /\ (i = live \/ i \in Twins(live))

\* Nothing an approval published skipped the gate: it has a pass of its own,
\* at the organization by somebody other than its author, and only a row that
\* shares its version can have lent it the text that passed.
ApprovedWasEvaluated ==
    \A i \in approved :
        /\ \E e \in passes :
             e.row = i /\ (line.scope = "org" => e.by # rows[i].author)
        /\ rows[i].good \/ Twins(i) # {}

\* effects.py:780, "exactly one active version per agent+scope, or per
\* agent+scope+skill_key for Skills": no two are ever active.
OneActive == Cardinality(Active) <= 1

\* eval_gate.py:56, "Scoped to the exact version": the text that passed is the
\* text of the row that the pass is for.
ScoredIsTheDraft == \A e \in passes : e.text = e.row

------------------------------------------------------------------------------
(* The inductive invariant.                                                 *)

\* A new version is one more than some rows before it have.
VersionsAreInOrder == \A i \in Ids : rows[i].version <= i

\* A pass is somebody's who might evaluate, for a good text of that version.
PassesWereEarned ==
    \A e \in passes : /\ MayEvaluate(e.by, e.row)
                      /\ rows[e.text].good /\ (e.text = e.row \/ e.text \in Twins(e.row))

ApprovedHasPass == \A i \in approved : \E e \in passes : e.row = i

\* The operations a profile has and those a skill has, and who may do which.
Allowed(s) ==
    LET x == op[s]
    IN  /\ x.how # "none" => x.by \in Users
        /\ x.how \in {"draft", "publish", "unpublish"} => line.kind = "profile"
        /\ x.how \in {"create", "update", "delete", "activate"} => line.kind = "skill"
        /\ x.how \in Flips \cup {"unpublish", "delete"} => x.by \in Owners
        /\ x.how \in Flips \cup {"unpublish", "evaluate"} => x.target \in Ids
        /\ x.how = "evaluate" => MayEvaluate(x.by, x.target)
        /\ x.how = "approve" => \E e \in passes : e.row = x.target
        /\ x.at = "read" => x.how \in Flips /\ DOMAIN x.seen = {x.target}

\* What has not been overtaken knows the flag of every row it is to set.
KnowsFlags(s) ==
    LET x == op[s]
        selected == IF x.how = "unpublish" \/ x.at = "read" THEN {x.target}
                    ELSE IF line.kind = "profile" THEN Ids ELSE Undeleted
    IN  x.how \notin {"none", "draft", "evaluate"} /\ x.by \in Owners /\ ~x.late =>
            /\ DOMAIN x.seen = selected
            /\ \A i \in DOMAIN x.seen : x.seen[i] = rows[i].active
            /\ line.kind = "skill" /\ x.how \in Flips => x.target \in Undeleted

\* A draft and a member's version set no other row's flag, overtaken or not.
LeavesAlone(s) ==
    \A i \in DOMAIN op[s].seen : op[s].seen[i] => Rewrites(op[s].by, op[s].how)

\* A profile is never deleted, and no two of its rows are ever wanted.
ProfilesAreSimple ==
    line.kind = "profile" => /\ Undeleted = Ids
                             /\ clean => Active \subseteq {live}

StudioInv ==
    /\ TypeOK /\ VersionsAreInOrder /\ PassesWereEarned /\ ApprovedHasPass
    /\ \A s \in Sessions : Allowed(s) /\ KnowsFlags(s) /\ LeavesAlone(s)
    /\ ProfilesAreSimple /\ PublishHeals
=============================================================================
