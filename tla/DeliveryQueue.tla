---------------------------- MODULE DeliveryQueue ----------------------------
(***************************************************************************)
(* What a stream with a consumer group promises its producers: a log whose *)
(* entries are given out in order, each at least once from the moment the  *)
(* group is opened.  An entry given out stays the group's debt until it    *)
(* has been handled or put aside; what is settled is never owed again.     *)
(***************************************************************************)
EXTENDS Naturals

VARIABLES
    length,   \* entries in the log
    opened,   \* the group exists
    given,    \* the last entry given out, or skipped when it was opened
    owed,     \* given out and not settled
    handled,  \* handled at least once
    aside     \* put aside as undeliverable

vars == <<length, opened, given, owed, handled, aside>>

Init ==
    /\ length = 0 /\ given = 0 /\ opened = FALSE
    /\ owed = {} /\ handled = {} /\ aside = {}

Add ==
    /\ length' = length + 1
    /\ UNCHANGED <<opened, given, owed, handled, aside>>

Open ==
    /\ ~opened
    /\ opened' = TRUE
    /\ given' = length
    /\ UNCHANGED <<length, owed, handled, aside>>

Give ==
    /\ opened
    /\ given < length
    /\ given' = given + 1
    /\ owed' = owed \cup {given + 1}
    /\ UNCHANGED <<length, opened, handled, aside>>

\* Handling may come late, or again: nobody takes the entry from a slow hand.
Handle(i) ==
    /\ handled' = handled \cup {i}
    /\ UNCHANGED <<length, opened, given, owed, aside>>

PutAside(i) ==
    /\ aside' = aside \cup {i}
    /\ UNCHANGED <<length, opened, given, owed, handled>>

Settle(i) ==
    /\ i \in owed
    /\ i \in handled \cup aside
    /\ owed' = owed \ {i}
    /\ UNCHANGED <<length, opened, given, handled, aside>>

Next ==
    \/ Add \/ Open \/ Give
    \/ \E i \in 1..given : Handle(i) \/ PutAside(i) \/ Settle(i)

Spec == Init /\ [][Next]_vars
=============================================================================
