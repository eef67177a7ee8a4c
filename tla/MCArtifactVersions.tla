------------------------- MODULE MCArtifactVersions -------------------------
(* Model-checking instance of ArtifactVersions.                            *)
EXTENDS ArtifactVersions, TLC

Symmetry == Permutations(People) \cup Permutations(Payloads)
              \cup Permutations(Sessions) \cup Permutations(Consumers)
=============================================================================
