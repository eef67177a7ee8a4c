---------------------------- MODULE VersionShelf -----------------------------
(***************************************************************************)
(* What a stage's artifact promises the stages that read it: a shelf of    *)
(* numbered works.  A work, once put there, is never altered.  Somebody    *)
(* other than its author may sign it, and readers are shown the highest    *)
(* signed work ever put forward, until somebody other than its author      *)
(* withdraws it.  A reader uses signed works and those it was let see.     *)
(***************************************************************************)
EXTENDS Naturals

CONSTANTS
    Numbers,  \* places on the shelf
    Works,    \* works: records with an author
    People,   \* those who sign and withdraw
    Readers,
    Nothing   \* an empty place

VARIABLES
    shelf,    \* shelf[n]: the work with number n
    signed,   \* numbers that were ever signed
    shown,    \* the number readers are given
    lent,     \* <<r, n>>: reader r was let see n, signed or not
    used      \* <<r, n>>: reader r built on n

vars == <<shelf, signed, shown, lent, used>>

Init ==
    /\ shelf = [n \in Numbers |-> Nothing]
    /\ signed = {} /\ shown = Nothing /\ lent = {} /\ used = {}

Put(n, w) ==
    /\ shelf[n] = Nothing
    /\ shelf' = [shelf EXCEPT ![n] = w]
    /\ UNCHANGED <<signed, shown, lent, used>>

ByAnother(u, n) == shelf[n] # Nothing /\ shelf[n].author # u

\* A work signed late does not hide a newer one.
Sign(u, n) ==
    /\ ByAnother(u, n)
    /\ signed' = signed \cup {n}
    /\ shown' = IF shown = Nothing \/ shown < n THEN n ELSE shown
    /\ UNCHANGED <<shelf, lent, used>>

\* Readers fall back on an older signed work, or on none.
Withdraw(u, n) ==
    /\ ByAnother(u, n) /\ shown = n
    /\ shown' \in {m \in signed : m < n} \cup {Nothing}
    /\ UNCHANGED <<shelf, signed, lent, used>>

Lend(r, n) ==
    /\ shelf[n] # Nothing
    /\ lent' = lent \cup {<<r, n>>}
    /\ UNCHANGED <<shelf, signed, shown, used>>

Use(r, n) ==
    /\ n \in signed \/ <<r, n>> \in lent
    /\ used' = used \cup {<<r, n>>}
    /\ UNCHANGED <<shelf, signed, shown, lent>>

Next ==
    \E n \in Numbers :
        \/ \E w \in Works : Put(n, w)
        \/ \E u \in People : Sign(u, n) \/ Withdraw(u, n)
        \/ \E r \in Readers : Lend(r, n) \/ Use(r, n)

Spec == Init /\ [][Next]_vars
=============================================================================
