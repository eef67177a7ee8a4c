------------------------ MODULE MCGovernanceRequests -----------------------
(* Model-checking instance of GovernanceRequests: one person per role that *)
(* matters, two Project Admins, one of the Project Admins of another       *)
(* project, whose binding does not cover this one, and a target that names *)
(* no agent.                                                               *)
EXTENDS GovernanceRequests, TLC

CONSTANTS dev, arch, pa, pa2, bu, org, stranger, t1, odd

RoleOf ==
    [u \in People |->
        CASE u = dev -> "developer"
          [] u = arch -> "architect"
          [] u \in {pa, pa2, stranger} -> "project_admin"
          [] u = bu -> "bu_admin"
          [] OTHER -> "org_admin"]

OwnerOf == [t \in Targets |-> IF t = odd THEN None ELSE "architect"]

\* Only agents are granted as a list here, so they alone need to be several.
NamesOf == [k \in Types |-> IF k = "agent_access" THEN {t1, odd} ELSE {t1}]

Symmetry == Permutations(Sessions) \cup Permutations(Requests)

=============================================================================
