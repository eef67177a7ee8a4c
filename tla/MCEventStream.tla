--------------------------- MODULE MCEventStream ---------------------------
(* Model-checking instance of EventStream: two API requests deliver two    *)
(* events, two consumers share the group.                                  *)
EXTENDS EventStream, TLC

CONSTANTS e1, e2, w1, w2, d1, d2

Symmetry == Permutations(Workers) \cup Permutations(Calls)
            \cup Permutations(Events)

=============================================================================
