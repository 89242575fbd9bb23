------------------------------ MODULE TaskDag ------------------------------
(***************************************************************************)
(* The task graph and the processors of the scheduler engine               *)
(* (engines/scheduler/dag and processors): the times that all schedulers   *)
(* reckon with.  The network is EXEC_TIME (io.cc:150): a message takes its *)
(* size.  Times are integers: the speeds divide the flops.                 *)
(***************************************************************************)
EXTENDS PrioHeap, FiniteSetsExt

VARIABLES
    dag,          \* flops of the tasks, edges in the order of AddEdge, speed of the
                  \* processors
    schedule,     \* schedule[p]: the tasks added to processor p, in order
    item,         \* item[n]: the processor and the times of task n
    unscheduled   \* unscheduled[n]: the predecessors of n that are not yet scheduled

Tasks == DOMAIN dag.flops
Procs == DOMAIN dag.speed

InEdges(n) == SelectSeq(dag.edges, LAMBDA e : e.to = n)
OutEdges(n) == SelectSeq(dag.edges, LAMBDA e : e.from = n)
Preds(n) == {e.from : e \in Range(InEdges(n))}

MeanExecTime(n) ==
    (dag.flops[n] * Cardinality(Procs)) \div FoldSet(LAMBDA p, s : s + dag.speed[p], 0, Procs)
ExecTime(n, p) == dag.flops[n] \div dag.speed[p]

\* Mutant: a message to another processor costs nothing either.
CommTimeFree(e, src, dest) == IF src = NONE \/ dest = NONE THEN e.size ELSE 0

CommTime(e, src, dest) == IF src = dest /\ src # NONE THEN 0 ELSE e.size

Largest(S, default) == Max(S \cup {default})

\* Levels of the graph, with mean execution times and all messages paid for.
ComputeBLevel[n \in Tasks] ==
    Largest({ComputeBLevel[e.to] + e.size + MeanExecTime(n) : e \in Range(OutEdges(n))}, MeanExecTime(n))
\* FLB, LLB and FCP_p leave the messages out.
ComputeBLevelFree[n \in Tasks] ==
    Largest({ComputeBLevelFree[e.to] + MeanExecTime(n) : e \in Range(OutEdges(n))}, MeanExecTime(n))
\* ComputeAEST, and ComputeTopLevel of DPS.
ComputeAEST[n \in Tasks] ==
    Largest({ComputeAEST[e.from] + MeanExecTime(e.from) + e.size : e \in Range(InEdges(n))}, 0)
ComputeALST[n \in Tasks] ==
    IF OutEdges(n) = <<>> THEN ComputeAEST[n]
    ELSE Min({ComputeALST[e.to] - MeanExecTime(n) - e.size : e \in Range(OutEdges(n))})
ComputeLevel[n \in Tasks] == Largest({ComputeLevel[m] : m \in Preds(n)}, 0) + 1

-----------------------------------------------------------------------------
NoItem == [proc |-> NONE, start |-> NONE, finish |-> NONE]
Placed(n) == item[n].proc # NONE
ProcReadyTime(p) == IF schedule[p] = <<>> THEN 0 ELSE item[Last(schedule[p])].finish

\* When the message along e is there if the receiver is on processor p.
Arrival(e, p) == item[e.from].finish + CommTime(e, item[e.from].proc, p)

StartTimeOnProc(n, p) ==
    Largest({Arrival(e, p) : e \in Range(InEdges(n))}, ProcReadyTime(p))

\* The edge of the last message, the first such edge; 0 for an entry task.
LastEdge(n) ==
    LET in == InEdges(n)
    IN  SelectInSeq(in, LAMBDA e : \A f \in Range(in) : Arrival(e, NONE) >= Arrival(f, NONE))
LastMsgProc(n) == IF InEdges(n) = <<>> THEN NONE ELSE item[InEdges(n)[LastEdge(n)].from].proc
LastMsgTime(n) == Largest({Arrival(e, NONE) : e \in Range(InEdges(n))}, 0)

\* emt of CP_Node, min_ST of FLB: the start on LastMsgProc, computed when n
\* becomes ready.
EarliestOnLastProc(n) ==
    Largest({Arrival(e, NONE) : e \in {f \in Range(InEdges(n)) : item[f.from].proc # LastMsgProc(n)}},
            ProcReadyTime(LastMsgProc(n)))

\* DecNrUnschedPred, and whether this makes the task ready.
Dec(count, n) == [count EXCEPT ![n] = @ - 1]

AddTask(n, p, start) ==
    /\ schedule' = [schedule EXCEPT ![p] = Append(@, n)]
    /\ item' = [item EXCEPT ![n] = [proc |-> p, start |-> start, finish |-> start + ExecTime(n, p)]]
=============================================================================
