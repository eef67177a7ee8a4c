------------------------------- MODULE MCRuns -------------------------------
EXTENDS Runs, TLC

CONSTANTS u1, u2

\* u1 approves requirements and design, u2 design and development.
MCApprovers ==
    [st \in Stages |-> CASE st = "requirements" -> {u1}
                         [] st = "design" -> {u1, u2}
                         [] st = "development" -> {u2}
                         [] OTHER -> {}]
=============================================================================
