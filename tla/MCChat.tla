-------------------------------- MODULE MCChat ------------------------------
EXTENDS Chat, TLC

CONSTANTS r1, r2, p1, p2, design, testing, discovery

\* Two runs of two projects, one of them on another track.
MCProjectOf == [r \in Runs |-> IF r = r1 THEN p1 ELSE p2]

MCRoster == [r \in Runs |-> IF r = r1 THEN {design, testing} ELSE {discovery}]

Symmetry == Permutations(Sockets)
=============================================================================
