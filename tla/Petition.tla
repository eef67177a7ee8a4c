------------------------------- MODULE Petition ------------------------------
(***************************************************************************)
(* What the governance requests promise: a petition is filed once, heard   *)
(* by others than its author, and closed once, on record and for good.     *)
(* Some kinds are approved only after somebody has passed them on; some    *)
(* are never approved but arranged, by doing what was asked for.           *)
(***************************************************************************)
CONSTANTS
    Petitions, Kinds, People,
    Twice,     \* kinds that are passed on before they are approved
    Arranged,  \* kinds that close when what they ask for has been done
    Clerks,    \* people who arrange
    Nothing

VARIABLES
    docket,  \* docket[p]: state, kind and author of petition p
    said     \* <<p, what, u>>: what u did with p

vars == <<docket, said>>

Unfiled == [state |-> "absent", kind |-> Nothing, author |-> Nothing]

Init ==
    /\ docket = [p \in Petitions |-> Unfiled]
    /\ said = {}

File(p, k, u) ==
    /\ docket[p].state = "absent"
    /\ docket' = [docket EXCEPT ![p] = [state |-> "open", kind |-> k, author |-> u]]
    /\ UNCHANGED said

Say(p, what, u) == said' = said \cup {<<p, what, u>>}

Close(p, state) ==
    /\ docket[p].state = "open"
    /\ docket' = [docket EXCEPT ![p] = [state |-> state, kind |-> docket[p].kind,
                                        author |-> docket[p].author]]

PassedOn(p) == \E x \in People : <<p, "advanced", x>> \in said

PassOn(p, u) ==
    /\ docket[p].state = "open" /\ docket[p].kind \in Twice
    /\ u # docket[p].author
    /\ Say(p, "advanced", u)
    /\ UNCHANGED docket

Approve(p, u) ==
    /\ docket[p].kind \notin Arranged
    /\ docket[p].kind \in Twice => PassedOn(p)
    /\ u # docket[p].author
    /\ Close(p, "approved") /\ Say(p, "approved", u)

Reject(p, u) ==
    /\ u # docket[p].author
    /\ Close(p, "rejected") /\ Say(p, "rejected", u)

Withdraw(p, u) ==
    /\ u = docket[p].author
    /\ Close(p, "cancelled") /\ Say(p, "cancelled", u)

Arrange(p, u) ==
    /\ docket[p].kind \in Arranged /\ u \in Clerks
    /\ Close(p, "approved") /\ Say(p, "assigned", u)

Next ==
    \E p \in Petitions, u \in People :
        \/ \E k \in Kinds : File(p, k, u)
        \/ PassOn(p, u) \/ Approve(p, u) \/ Reject(p, u)
        \/ Withdraw(p, u) \/ Arrange(p, u)

Spec == Init /\ [][Next]_vars
=============================================================================
