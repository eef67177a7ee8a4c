--------------------------- MODULE ExecutionTicket ---------------------------
(***************************************************************************)
(* What the deployment gate promises: a deployment is a one-shot ticket.   *)
(* Somebody files it, it is decided, an approved ticket can be spent once, *)
(* and only a spent ticket fires, at most once.  A decision is open to     *)
(* revision until the ticket is spent and closed from then on.             *)
(***************************************************************************)
EXTENDS Naturals

CONSTANT Tickets

VARIABLES
    state,  \* state[t]: how far ticket t has come
    fired   \* fired[t]: how many times it took effect

vars == <<state, fired>>

Init ==
    /\ state = [t \in Tickets |-> "none"]
    /\ fired = [t \in Tickets |-> 0]

File(t) ==
    /\ state[t] = "none"
    /\ state' = [state EXCEPT ![t] = "pending"]
    /\ UNCHANGED fired

Decide(t, verdict) ==
    /\ state[t] \in {"pending", "approved", "rejected"}
    /\ state' = [state EXCEPT ![t] = verdict]
    /\ UNCHANGED fired

Spend(t) ==
    /\ state[t] = "approved"
    /\ state' = [state EXCEPT ![t] = "spent"]
    /\ UNCHANGED fired

Fire(t) ==
    /\ state[t] = "spent"
    /\ fired[t] = 0
    /\ fired' = [fired EXCEPT ![t] = 1]
    /\ UNCHANGED state

Next ==
    \E t \in Tickets :
        \/ File(t)
        \/ \E verdict \in {"approved", "rejected"} : Decide(t, verdict)
        \/ Spend(t)
        \/ Fire(t)

Spec == Init /\ [][Next]_vars
=============================================================================
