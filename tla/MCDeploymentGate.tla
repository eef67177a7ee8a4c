-------------------------- MODULE MCDeploymentGate --------------------------
(* Model-checking instance of DeploymentGate.  Users and sessions are      *)
(* interchangeable in every formula checked under Symmetry.                *)
EXTENDS DeploymentGate, TLC

Symmetry == Permutations(Users) \cup Permutations(Sessions)
=============================================================================
