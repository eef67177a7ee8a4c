----------------------------- MODULE MCBudgets -----------------------------
(* Model-checking instance of Budgets: one organization, two units, two    *)
(* projects in the first (one to be created).                              *)
EXTENDS Budgets, TLC

CONSTANTS org, w1, w2, p1, p2, e1, e2, c1, c2, a, b

McHome == (e1 :> a) @@ (e2 :> b) @@ (c1 :> a) @@ (c2 :> b)

McUnitOf == [p \in {p1, p2} |-> w1]
McCap0 == (org :> 3) @@ (w1 :> 2) @@ (p1 :> 1) @@ (w2 :> 1) @@ (p2 :> 0)
McWindow == (p1 :> [from |-> 0, to |-> 1]) @@ (p2 :> [from |-> 1, to |-> 1])
Edit(how, scope, value) == [how |-> how, scope |-> scope, value |-> value]
McOffers == {Edit("set", p1, 2), Edit("set", w1, 1), Edit("set", org, 2),
             Edit("create", p2, 1), Edit("patch", p1, 0), Edit("grant", p1, 2),
             Edit("archive", p1, 0), Edit("restore", p1, 0)}
\* Only edits that are judged before they are written.
McJudged == {o \in McOffers : o.how \in {"set", "create"}}
=============================================================================
