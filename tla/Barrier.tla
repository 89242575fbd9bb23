------------------------------ MODULE Barrier ------------------------------
(***************************************************************************)
(* What a barrier promises, whatever its implementation: no processor      *)
(* leaves its k-th barrier before every processor has entered its k-th     *)
(* barrier, and once all have entered, all leave.  `enter' and `leave' are *)
(* the counters BARRIER_ENTER and BARRIER_LEAVE of embedded/ensemble.c.    *)
(***************************************************************************)
EXTENDS Naturals

CONSTANTS
    Proc,       \* the processors that meet
    MaxRounds   \* bound: barriers executed by each processor

VARIABLES
    enter,      \* enter[p]: barriers p has entered
    leave       \* leave[p]: barriers p has left

vars == <<enter, leave>>

Init ==
    /\ enter = [p \in Proc |-> 0]
    /\ leave = [p \in Proc |-> 0]

Enter(p) ==
    /\ enter[p] = leave[p]
    /\ enter[p] < MaxRounds
    /\ enter' = [enter EXCEPT ![p] = @ + 1]
    /\ UNCHANGED leave

Leave(p) ==
    /\ enter[p] = leave[p] + 1
    /\ \A q \in Proc : enter[q] >= enter[p]
    /\ leave' = [leave EXCEPT ![p] = @ + 1]
    /\ UNCHANGED enter

Next == \E p \in Proc : Enter(p) \/ Leave(p)

Spec == Init /\ [][Next]_vars /\ \A p \in Proc : WF_vars(Leave(p))
=============================================================================
