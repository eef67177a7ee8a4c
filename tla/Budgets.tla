------------------------------ MODULE Budgets ------------------------------
(***************************************************************************)
(* Budgets of src/backend/shared/services: caps on an organization, its    *)
(* business units and their projects (budget_alloc.py and its callers in   *)
(* routers/cost.py, workspaces.py, projects.py and governance/effects.py), *)
(* the guard in front of every run and model resolution (budget_guard.py)  *)
(* and the spend it compares with (budget_store.py).                       *)
(*                                                                         *)
(* An edit reads, judges and commits in separate statements without a      *)
(* lock; every process keeps its own cache of the caps; an agent's turn is *)
(* checked when its model is resolved and charged for each completion it   *)
(* then makes (usage_meter.py).  0 stands for NULL: no cap.                *)
(***************************************************************************)
EXTENDS Naturals, Sequences, FiniteSets

CONSTANTS
    Org, Units, Projects, UnitOf,
    Editors, Callers, Servers, Nothing,
    Home,         \* Home[x]: the process that serves x's requests
    Offers,       \* the edits that are asked for: [how, scope, value]
    Cap0, Present0,
    Metered,      \* the project runs are started in, the key of the caches
    Window,       \* Window[p]: first and last day of p's funding period
    FailClosed,   \* BUDGET_ENFORCE_FAIL_CLOSED
    PerTurn,      \* completions one check may cover: a graph's recursion limit
    MaxRequests, MaxFaults, MaxTime   \* bounds

Scopes == {Org} \cup Units \cup Projects
Hows == {"set", "create", "patch", "grant", "archive", "restore"}

Parent(s) == IF s \in Projects THEN UnitOf[s] ELSE Org
Children(s) == IF s = Org THEN Units ELSE {p \in Projects : UnitOf[p] = s}

\* The dollars of f over S, one by one: their number is the sum of f over S.
Dollars(f, S) == UNION {{x} \X (1..f[x]) : x \in S}
Sum(f, S) == Cardinality(Dollars(f, S))

ASSUME BudgetsAssumption ==
    /\ Org \notin Units \cup Projects /\ Units \cap Projects = {} /\ Nothing \notin Scopes
    /\ IsFiniteSet(Units) /\ IsFiniteSet(Projects) /\ IsFiniteSet(Callers)
    /\ UnitOf \in [Projects -> Units]
    /\ Cap0 \in [Scopes -> Nat] /\ Present0 \subseteq Scopes /\ Org \in Present0
    /\ Offers \subseteq [how : Hows, scope : Scopes, value : Nat]
    /\ Metered \subseteq Projects /\ Cardinality(Metered) = 1
    /\ Window \in [Projects -> [from : Nat, to : Nat]]
    /\ FailClosed \in BOOLEAN
    /\ Home \in [Editors \cup Callers -> Servers] /\ Editors \cap Callers = {}
    /\ {PerTurn, MaxRequests, MaxFaults, MaxTime} \subseteq Nat

\* The caps at first are such as judged edits leave.
ASSUME AllocatedAtFirst ==
    \A s \in {Org} \cup Units :
        Cap0[s] = 0 \/ Sum(Cap0, Children(s) \cap Present0) <= Cap0[s]

VARIABLES
    cap,       \* monthly_budget_usd of each scope
    present,   \* scopes whose row exists
    archived,  \* archived projects
    edit,      \* edit[e]: the budget edit an editor's request carries out
    cache,     \* cache[p]: _BUDGET_CACHE of process p
    chain,     \* chain[p]: _CHAIN_CACHE of process p
    call,      \* call[c]: a run start or model resolution, and its turn's charges
    ledger,    \* usage_monthly: ledger[month][scope]
    now,       \* the calendar: a day that starts a new month
    requests, faults,
    lax,       \* history: a cap was written unjudged, or judged on old reads
    high,      \* history: high[s], the largest cap s ever had
    excused    \* history: scopes once uncapped, or let through by a fault

caps == <<cap, present, archived, edit, lax, high>>
budgetVars == <<cap, present, archived, edit, cache, chain, call, ledger, now,
                requests, faults, lax, high, excused>>

\* What the children of s already commit; archived projects do not count.
Committed(s, except) == Sum(cap, (Children(s) \cap present) \ (archived \cup {except}))

NoEdit == [how |-> "set", scope |-> Org, value |-> 0, limit |-> 0,
           overtaken |-> FALSE, todo |-> <<>>]
Steps == {"judge", "commit", "clear"}

\* Months a scope was charged in are summed: a budget is a total.
Spent(s) == Sum([m \in 0..MaxTime |-> ledger[m][s]], 0..MaxTime)
ChainOf(p, proc) == (IF chain[proc] = "short" THEN {} ELSE {UnitOf[p]}) \cup {Org, p}
NoBudgets == [s \in {} |-> 0]
NoCall == [at |-> "idle", project |-> Nothing, budgets |-> NoBudgets, left |-> {},
           made |-> 0]

IsSnapshot(b) == \E S \in SUBSET Scopes : b \in [S -> Nat]

BudgetsTypeOK ==
    /\ cap \in [Scopes -> Nat] /\ present \subseteq Scopes
    /\ archived \subseteq Projects \cap present
    /\ edit \in [Editors -> [how : Hows, scope : Scopes, value : Nat, limit : Nat,
                             overtaken : BOOLEAN, todo : Seq(Steps)]]
    /\ DOMAIN cache = Servers
    /\ \A p \in Servers : cache[p] = Nothing \/ IsSnapshot(cache[p])
    /\ chain \in [Servers -> {"full", "short"}]
    /\ call \in [Callers -> [at : {"idle", "read", "store", "check", "run"},
                             project : Metered \cup {Nothing},
                             budgets : {call[c].budgets : c \in Callers},
                             left : SUBSET Scopes, made : 0..PerTurn]]
    /\ \A c \in Callers : IsSnapshot(call[c].budgets)
    /\ ledger \in [0..MaxTime -> [Scopes -> Nat]] /\ now \in 0..MaxTime
    /\ requests \in 0..MaxRequests /\ faults \in 0..MaxFaults
    /\ lax \in BOOLEAN /\ high \in [Scopes -> Nat] /\ excused \subseteq Scopes

BudgetsInit ==
    /\ cap = Cap0 /\ present = Present0 /\ archived = {}
    /\ edit = [e \in Editors |-> NoEdit]
    /\ cache = [p \in Servers |-> Nothing]
    /\ chain = [p \in Servers |-> "full"]
    /\ call = [c \in Callers |-> NoCall]
    /\ ledger = [m \in 0..MaxTime |-> [s \in Scopes |-> 0]]
    /\ now = 0 /\ requests = 0 /\ faults = 0
    /\ lax = FALSE /\ high = Cap0
    /\ excused = {s \in Scopes : Cap0[s] = 0}

------------------------------------------------------------------------------
(* Edits of caps.                                                           *)

\* What an edit still does once its parent's cap is read.  Only set_budget
\* and the two creations are judged; patch_project and the effects of an
\* approved request drop the cache before their transaction commits.
Course(o) ==
    CASE o.how = "set" -> <<"judge", "commit", "clear">>
      [] o.how = "create" -> <<"judge", "commit">>
      [] o.how = "patch" /\ o.scope \in Units -> <<"commit", "clear">>
      [] o.how = "patch" /\ o.scope \in Projects -> <<"clear", "commit">>
      [] o.how = "grant" -> <<"clear", "commit">>
      [] OTHER -> <<"commit">>

Applies(o) ==
    CASE o.how = "create" -> o.scope \notin present /\ Parent(o.scope) \in present
      [] o.how = "archive" -> o.scope \in (Projects \cap present) \ archived
      [] o.how = "restore" -> o.scope \in archived
      [] OTHER -> o.scope \in present

Ask(e, o) ==
    /\ edit[e].todo = <<>> /\ requests < MaxRequests /\ Applies(o)
    /\ requests' = requests + 1
    /\ edit' = [edit EXCEPT ![e] =
                 [how |-> o.how, scope |-> o.scope, value |-> o.value,
                  limit |-> IF o.scope = Org THEN 0 ELSE cap[Parent(o.scope)],
                  overtaken |-> FALSE, todo |-> Course(o)]]
    /\ UNCHANGED <<cap, present, archived, cache, chain, call, ledger, now,
                   faults, lax, high, excused>>

\* Mutant of Fits: the siblings are left out of the sum.
FitsAlone(s, value, limit) == limit = 0 \/ value = 0 \/ value <= limit
\* assert_workspace_fits, assert_project_fits
Fits(s, value, limit) ==
    limit = 0 \/ value = 0 \/ Committed(Parent(s), s) + value <= limit
\* assert_org_covers_workspaces, assert_workspace_covers_projects
Covers(s, value) == value = 0 \/ s \in Projects \/ Committed(s, Nothing) <= value

Allowed(x) ==
    /\ x.scope = Org \/ Fits(x.scope, x.value, x.limit)
    /\ Covers(x.scope, x.value)

Judge(e) ==
    LET x == edit[e]
    IN  /\ x.todo # <<>> /\ Head(x.todo) = "judge"
        /\ edit' = [edit EXCEPT ![e] =
                      IF Allowed(x) THEN [x EXCEPT !.todo = Tail(@)] ELSE NoEdit]
    /\ UNCHANGED <<cap, present, archived, cache, chain, call, ledger, now,
                   requests, faults, lax, high, excused>>

Popped(x) == IF Len(x.todo) = 1 THEN NoEdit ELSE [x EXCEPT !.todo = Tail(@)]

Commit(e) ==
    LET x == edit[e]  s == edit[e].scope
        keeps == x.how \in {"archive", "restore"}
    IN  /\ x.todo # <<>> /\ Head(x.todo) = "commit"
        /\ IF keeps THEN UNCHANGED <<cap, high, excused>>
           ELSE /\ cap' = [cap EXCEPT ![s] = x.value]
                /\ high' = [high EXCEPT ![s] = IF x.value > @ THEN x.value ELSE @]
                /\ excused' = IF x.value = 0 THEN excused \cup {s} ELSE excused
        /\ present' = present \cup {s}
        /\ archived' = CASE x.how = "archive" -> archived \cup {s}
                         [] x.how = "restore" -> archived \ {s}
                         [] OTHER -> archived
        /\ lax' = (lax \/ x.how \in {"patch", "grant", "restore"} \/ x.overtaken)
        /\ edit' = [f \in Editors |->
                     IF f = e THEN Popped(x)
                     ELSE IF edit[f].todo = <<>> THEN edit[f]
                     ELSE [edit[f] EXCEPT !.overtaken = TRUE]]
        /\ UNCHANGED <<cache, chain, call, ledger, now, requests, faults>>

\* clear_budget_cache: the cache of the process that served the edit
Clear(e) ==
    LET x == edit[e]
    IN  /\ x.todo # <<>> /\ Head(x.todo) = "clear"
        /\ cache' = [cache EXCEPT ![Home[e]] = Nothing]
        /\ edit' = [edit EXCEPT ![e] = Popped(x)]
        /\ UNCHANGED <<cap, present, archived, chain, call, ledger, now,
                       requests, faults, lax, high, excused>>

------------------------------------------------------------------------------
(* The guard and the charge.                                               *)

Move(c, at, budgets, left) ==
    call' = [call EXCEPT ![c] = [at |-> at, project |-> @.project,
                                 budgets |-> budgets, left |-> left, made |-> 0]]

\* create_run, resolve_model_for_run: check_budgets before anything is spent
Begin(c, proj) ==
    /\ call[c].at = "idle" /\ requests < MaxRequests
    /\ proj \in present \ archived
    /\ requests' = requests + 1
    /\ call' = [call EXCEPT ![c] =
         IF cache[Home[c]] = Nothing
         THEN [at |-> "read", project |-> proj, budgets |-> NoBudgets, left |-> {},
               made |-> 0]
         ELSE [at |-> "check", project |-> proj, budgets |-> cache[Home[c]],
               left |-> DOMAIN cache[Home[c]], made |-> 0]]
    /\ UNCHANGED <<caps, cache, chain, ledger, now, faults, excused>>

\* resolve_scope_chain: a project lookup that failed is cached like any other.
LookupFails(p) ==
    /\ chain[p] = "full" /\ faults < MaxFaults
    /\ \E c \in Callers : Home[c] = p /\ call[c].at \in {"read", "run"}
    /\ chain' = [chain EXCEPT ![p] = "short"]
    /\ faults' = faults + 1 /\ excused' = excused \cup Units
    /\ UNCHANGED <<caps, cache, call, ledger, now, requests>>

Read(c) ==
    LET S == ChainOf(call[c].project, Home[c])
    IN  /\ call[c].at = "read"
        /\ Move(c, "store", [s \in S |-> cap[s]], S)
        /\ UNCHANGED <<caps, cache, chain, ledger, now, requests, faults, excused>>

\* A failed read of the caps is no caps at all, and is not cached.
ReadFails(c) ==
    /\ call[c].at = "read" /\ faults < MaxFaults
    /\ Move(c, "run", NoBudgets, {})
    /\ faults' = faults + 1 /\ excused' = Scopes
    /\ UNCHANGED <<caps, cache, chain, ledger, now, requests>>

Store(c) ==
    /\ call[c].at = "store"
    /\ cache' = [cache EXCEPT ![Home[c]] = call[c].budgets]
    /\ Move(c, "check", call[c].budgets, call[c].left)
    /\ UNCHANGED <<caps, chain, ledger, now, requests, faults, excused>>

Outside(s) == s \in Projects /\ now \notin Window[s].from..Window[s].to
\* Mutant of Exhausted: a budget that is free again on the first of a month.
ExhaustedThisMonth(s, budget) == ledger[now][s] >= budget
Exhausted(s, budget) == Spent(s) >= budget

\* The loop of check_budgets, from the organization down.
Upper(s) == CASE s = Org -> {} [] s \in Units -> {Org} [] OTHER -> {Org} \cup Units
CheckScope(c, s) ==
    LET budget == call[c].budgets[s]
    IN  /\ call[c].at = "check" /\ s \in call[c].left /\ Upper(s) \cap call[c].left = {}
        /\ IF budget > 0 /\ (Outside(s) \/ Exhausted(s, budget))
           THEN call' = [call EXCEPT ![c] = NoCall]
           ELSE Move(c, "check", call[c].budgets, call[c].left \ {s})
        /\ UNCHANGED <<caps, cache, chain, ledger, now, requests, faults, excused>>

SpendUnreadable(c, s) ==
    /\ call[c].at = "check" /\ s \in call[c].left /\ Upper(s) \cap call[c].left = {}
    /\ call[c].budgets[s] > 0 /\ ~Outside(s)
    /\ faults < MaxFaults /\ faults' = faults + 1
    /\ IF FailClosed
       THEN call' = [call EXCEPT ![c] = NoCall] /\ UNCHANGED excused
       ELSE /\ Move(c, "check", call[c].budgets, call[c].left \ {s})
            /\ excused' = excused \cup {s}
    /\ UNCHANGED <<caps, cache, chain, ledger, now, requests>>

Admit(c) ==
    /\ call[c].at = "check" /\ call[c].left = {}
    /\ Move(c, "run", NoBudgets, {})
    /\ UNCHANGED <<caps, cache, chain, ledger, now, requests, faults, excused>>

\* on_llm_end, record_usage_rollup: one transaction adds a completion's cost
\* to every scope.  Nothing is checked again before the turn's next one.
Charge(c) ==
    LET S == ChainOf(call[c].project, Home[c])
    IN  /\ call[c].at = "run" /\ call[c].made < PerTurn
        /\ ledger' = [ledger EXCEPT ![now] =
                       [s \in Scopes |-> IF s \in S THEN @[s] + 1 ELSE @[s]]]
        /\ call' = [call EXCEPT ![c].made = @ + 1]
        /\ UNCHANGED <<caps, cache, chain, now, requests, faults, excused>>

\* The last completion of a turn is charged for, or its charge failed and was
\* swallowed; the agent's next turn resolves its model again.
EndTurn(c) ==
    /\ call[c].at = "run"
    /\ call' = [call EXCEPT ![c] = NoCall]
    /\ UNCHANGED <<caps, cache, chain, ledger, now, requests, faults, excused>>

\* Mutant of Expire: an entry is stamped anew instead of dropped.
ExpireRestamps(p) == cache[p] # Nothing /\ UNCHANGED budgetVars

\* _BUDGET_TTL_SECONDS, _CHAIN_TTL_SECONDS
Expire(p) ==
    /\ cache[p] # Nothing
    /\ cache' = [cache EXCEPT ![p] = Nothing]
    /\ UNCHANGED <<caps, chain, call, ledger, now, requests, faults, excused>>

ChainExpires(p) ==
    /\ chain[p] = "short"
    /\ chain' = [chain EXCEPT ![p] = "full"]
    /\ UNCHANGED <<caps, cache, call, ledger, now, requests, faults, excused>>

Tick ==
    /\ now < MaxTime /\ now' = now + 1
    /\ UNCHANGED <<caps, cache, chain, call, ledger, requests, faults, excused>>

BudgetsNext ==
    \/ \E e \in Editors :
        \/ \E o \in Offers : Ask(e, o)
        \/ Judge(e) \/ Commit(e) \/ Clear(e)
    \/ \E c \in Callers :
        \/ \E proj \in Metered : Begin(c, proj)
        \/ \E s \in Scopes : CheckScope(c, s) \/ SpendUnreadable(c, s)
        \/ Read(c) \/ ReadFails(c) \/ Store(c) \/ Admit(c) \/ Charge(c) \/ EndTurn(c)
    \/ \E p \in Servers : LookupFails(p) \/ Expire(p) \/ ChainExpires(p)
    \/ Tick

BudgetsSpec == BudgetsInit /\ [][BudgetsNext]_budgetVars

\* The minute of a cached entry passes.
FairBudgetsSpec == BudgetsSpec /\ \A p \in Servers : WF_budgetVars(Expire(p))

------------------------------------------------------------------------------
(* Properties.                                                             *)

\* budget_guard.py compares when a turn's model is resolved, and each of the
\* turn's completions is charged: a scope that always had a cap passes the
\* largest it had by less than what the turns of all callers may cost, whatever
\* edits, stale caches and new months do.
OvershootIsBounded ==
    \A s \in Scopes \ excused :
        Spent(s) + 1 <= high[s] + PerTurn * Cardinality(Callers)

\* budget_alloc.py: children exceed their parent's cap only after a write that
\* nothing judged (PATCH, an approved request, a restored project), or that
\* was judged on reads another edit overtook.
OverAllocationIsExplained ==
    \A s \in {Org} \cup Units :
        cap[s] > 0 /\ Committed(s, Nothing) > cap[s] => lax

\* An edited cap reaches the cache of every process, also of those that did
\* not serve the edit and of a guard that was reading while it was made.
EditReachesEveryProcess ==
    <>[](\A p \in Servers :
            cache[p] # Nothing => \A s \in DOMAIN cache[p] : cache[p][s] = cap[s])

\* budget_guard.py:82, "call after a budget edit so it applies immediately":
\* no guard starts on a cached cap once the edit that changed it is finished.
EditAppliesAtOnce ==
    \A p \in Servers :
        (cache[p] # Nothing /\ \A e \in Editors : edit[e].todo = <<>>)
            => \A s \in DOMAIN cache[p] : cache[p][s] = cap[s]

\* budget_alloc.py:3, "a child's budget can't push the sum of its siblings
\* past the parent's budget, and a parent can't be dropped below what its
\* children already commit".
AllocationHolds ==
    \A s \in {Org} \cup Units : cap[s] = 0 \/ Committed(s, Nothing) <= cap[s]

------------------------------------------------------------------------------
(* The inductive invariant behind them.                                    *)

Whole(p) == {Org, UnitOf[p], p}

\* A cap of a scope that never went without one is no larger than its highest.
CapsAreKnown == \A s \in Scopes \ excused : cap[s] \in 1..high[s]

\* What a guard compares with: each scope of p's chain at a cap it once had.
Fair(b, p) ==
    /\ \A s \in DOMAIN b \ excused : b[s] \in 1..high[s]
    /\ Whole(p) \ excused \subseteq DOMAIN b

CachesAreFair ==
    \A p \in Servers : cache[p] # Nothing => \A q \in Metered : Fair(cache[p], q)

CallsAreFair ==
    \A c \in Callers :
        /\ call[c].at # "idle" => call[c].project \in Metered
        /\ call[c].at \in {"store", "check"} =>
              /\ Fair(call[c].budgets, call[c].project)
              /\ call[c].left \subseteq DOMAIN call[c].budgets
        /\ call[c].at = "store" => call[c].left = DOMAIN call[c].budgets
        /\ call[c].at \in {"idle", "read", "run"} => call[c].left = {}
        /\ call[c].at # "run" => call[c].made = 0

ShortIsExcused == (\E p \in Servers : chain[p] = "short") => Units \subseteq excused

\* Calls that s lets through, and whose turn may still be charged to it.
Passed(s) ==
    {c \in Callers : /\ call[c].at \in {"check", "run"}
                     /\ s \in Whole(call[c].project) \ call[c].left}

\* The completions those turns may still make.
Owed(s) == {d \in Callers \X (1..PerTurn) : d[1] \in Passed(s) /\ d[2] > call[d[1]].made}

PassesAreBounded ==
    \A s \in Scopes \ excused :
        Spent(s) + Cardinality(Owed(s)) + 1 <= high[s] + PerTurn * Cardinality(Callers)

\* The steps a judged edit has left: it is judged before it commits, once.
CoursesAreKept ==
    \A e \in Editors :
        /\ edit[e].how = "set" =>
              edit[e].todo \in {<<>>, <<"clear">>, <<"commit", "clear">>,
                                <<"judge", "commit", "clear">>}
        /\ edit[e].how = "create" =>
              edit[e].todo \in {<<>>, <<"commit">>, <<"judge", "commit">>}
        /\ edit[e].how = "archive" /\ edit[e].todo # <<>> =>
              edit[e].scope \in Projects \cap present

\* What an edit read and found is still so, as long as none overtook it.
ReadsStillHold ==
    \A e \in Editors :
        LET x == edit[e]
        IN  x.how \in {"set", "create"} /\ x.todo # <<>> /\ ~ x.overtaken
                /\ Head(x.todo) \in {"judge", "commit"} =>
              /\ x.scope # Org => x.limit = cap[Parent(x.scope)]
              /\ Head(x.todo) = "commit" => Allowed(x)

BudgetsInv ==
    /\ BudgetsTypeOK /\ CapsAreKnown /\ CachesAreFair /\ CallsAreFair
    /\ ShortIsExcused /\ PassesAreBounded
    /\ CoursesAreKept /\ ReadsStillHold /\ OverAllocationIsExplained
=============================================================================
