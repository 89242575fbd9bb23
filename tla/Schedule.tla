------------------------------ MODULE Schedule ------------------------------
(***************************************************************************)
(* What a scheduler of the scheduler engine promises: tasks are added one  *)
(* at a time, each behind what is on its processor and not before its      *)
(* messages are there, and nothing that was decided is changed.            *)
(***************************************************************************)
EXTENDS Integers, Functions

CONSTANTS
    Graphs,    \* the task graphs: flops, edges, speed
    Times      \* when a task may start
VARIABLES
    graph,    \* the one that is scheduled
    placed    \* placed[n]: where and when task n runs

vars == <<graph, placed>>

Nowhere == [proc |-> -1, start |-> -1, finish |-> -1]
Edges == Range(graph.edges)
IsPlaced(n) == placed[n] # Nowhere

\* What the message along e takes between two processors.
Delay(e, src, dest) == IF src = dest THEN 0 ELSE e.size

Init ==
    /\ graph \in Graphs
    /\ placed = [n \in DOMAIN graph.flops |-> Nowhere]

\* Task n is put on processor p, behind what is there, when its messages are in.
Place(n, p) ==
    /\ ~ IsPlaced(n)
    /\ \A e \in Edges : e.to = n => IsPlaced(e.from)
    /\ \E start \in Times :
          /\ \A e \in Edges : e.to = n =>
                placed[e.from].finish + Delay(e, placed[e.from].proc, p) <= start
          /\ \A m \in DOMAIN graph.flops : IsPlaced(m) /\ placed[m].proc = p => placed[m].finish <= start
          /\ placed' = [placed EXCEPT ![n] = [proc |-> p, start |-> start,
                                            finish |-> start + (graph.flops[n] \div graph.speed[p])]]
    /\ UNCHANGED graph

Next == \E n \in DOMAIN graph.flops, p \in DOMAIN graph.speed : Place(n, p)
Spec == Init /\ [][Next]_vars

-----------------------------------------------------------------------------
Tasks == DOMAIN graph.flops

\* The edges are between tasks of their graph.
GraphsOK ==
    \A g \in Graphs : \A e \in Range(g.edges) :
        e.from \in DOMAIN g.flops /\ e.to \in DOMAIN g.flops

\* A processor runs one task at a time.
OneAtATime ==
    \A m, n \in Tasks :
        IsPlaced(m) /\ IsPlaced(n) /\ m # n /\ placed[m].proc = placed[n].proc =>
            placed[m].finish <= placed[n].start \/ placed[n].finish <= placed[m].start

\* A task that is placed has its predecessors placed, and starts when all its
\* messages are there.
MessagesInTime ==
    \A e \in Edges : IsPlaced(e.to) =>
        /\ IsPlaced(e.from)
        /\ placed[e.from].finish + Delay(e, placed[e.from].proc, placed[e.to].proc)
               <= placed[e.to].start

\* Every partial schedule can be carried out as it is.
Feasible == OneAtATime /\ MessagesInTime

\* What was decided is not changed.
Decided == [][\A n \in Tasks : IsPlaced(n) => placed'[n] = placed[n]]_vars
=============================================================================
