------------------------------- MODULE Engine -------------------------------
(***************************************************************************)
(* A run of the scheduler engine (engines/scheduler): one of its schedulers *)
(* for one task graph (ScheduleDAG.C), and then the simulation of the      *)
(* schedule (processors/Simulator.C).                                      *)
(***************************************************************************)
EXTENDS LoadBalance

CONSTANTS
    Jobs,     \* [dag, alg]: the graphs and the schedulers they are given to
    MaxTime   \* bound on the times of a schedule

VARIABLES
    planned,   \* the items as they were scheduled; the simulator overwrites them
    sim        \* Run: p, the next item of each processor (nl), its time,
               \* unsched_pred of the items, and nr_tasks

simVars == <<planned, sim>>
vars == <<dagVars, schedVars, ownVars, simVars>>

IdleSim ==
    [p |-> 0, nl |-> [p \in Procs |-> 1], time |-> [p \in Procs |-> 0],
     pred |-> [n \in Tasks |-> Len(InEdges(n))], left |-> Cardinality(Tasks)]

Init ==
    /\ \E job \in Jobs : dag = job.dag /\ alg = job.alg
    /\ schedule = [p \in Procs |-> <<>>]
    /\ item = [n \in Tasks |-> NoItem]
    /\ unscheduled = [n \in Tasks |-> Len(InEdges(n))]
    /\ virt = NoVirt /\ mapping = [n \in Tasks |-> NONE]
    /\ phase = IF alg.cluster = "none" THEN "new" ELSE "unclustered"
    /\ current = NONE /\ queue = EmptyQueue /\ procs = <<>>
    /\ mine = [p \in Procs |-> <<>>] /\ others = <<>>
    /\ node = [n \in Tasks |-> NoNode]
    /\ planned = item /\ sim = IdleSim

-----------------------------------------------------------------------------
RunSimulation ==
    /\ phase = "scheduled" /\ phase' = "simulate"
    /\ planned' = item
    /\ item' = [n \in Tasks |-> IF Placed(n) THEN [item[n] EXCEPT !.start = 0, !.finish = 0] ELSE NoItem]
    /\ sim' = IdleSim
    /\ UNCHANGED <<dagVars, schedule, unscheduled, current, queue, procs, ownVars>>

\* The inner loop of Run: the next item of processor p, unless it waits for
\* a predecessor.
NextItem == schedule[sim.p][sim.nl[sim.p]]
CanRun == sim.nl[sim.p] <= Len(schedule[sim.p]) /\ sim.pred[NextItem] = 0

Simulated(n, start) ==
    /\ item' = [item EXCEPT ![n].start = start, ![n].finish = start + ExecTime(n, sim.p)]
    /\ sim' = [sim EXCEPT !.nl[sim.p] = @ + 1,
                          !.time[sim.p] = start + ExecTime(n, sim.p),
                          !.pred = FoldLeft(LAMBDA count, e : Dec(count, e.to), @, OutEdges(n)),
                          !.left = @ - 1]
    /\ UNCHANGED <<dagVars, schedule, unscheduled, phase, current, queue, procs, ownVars, planned>>

\* Mutant: messages on one processor are paid for too.
SimulateTaskPaid ==
    /\ phase = "simulate" /\ sim.left > 0 /\ CanRun
    /\ Simulated(NextItem, Largest({Arrival(e, NONE) : e \in Range(InEdges(NextItem))}, sim.time[sim.p]))

SimulateTask ==
    /\ phase = "simulate" /\ sim.left > 0 /\ CanRun
    /\ Simulated(NextItem, Largest({Arrival(e, sim.p) : e \in Range(InEdges(NextItem))}, sim.time[sim.p]))

\* The loops over the processors, and over all of them again.
NextProcessor ==
    /\ phase = "simulate" /\ sim.left > 0 /\ ~ CanRun
    /\ sim' = [sim EXCEPT !.p = (@ + 1) % Cardinality(Procs)]
    /\ UNCHANGED <<dagVars, schedVars, ownVars, planned>>

SimulationDone ==
    /\ phase = "simulate" /\ sim.left = 0
    /\ phase' = "done"
    /\ UNCHANGED <<dagVars, schedule, item, unscheduled, current, queue, procs, ownVars, simVars>>

Exited == phase \in {"done", "crashed"} /\ UNCHANGED vars

Next ==
    \/ ClusterNext /\ UNCHANGED <<ownVars, simVars>>
    \/ ListNext /\ UNCHANGED <<ownVars, simVars>>
    \/ BalanceNext /\ UNCHANGED simVars
    \/ RunSimulation \/ SimulateTask \/ NextProcessor \/ SimulationDone \/ Exited

Spec == Init /\ [][Next]_vars

-----------------------------------------------------------------------------
(* Properties *)

Over == phase \in {"scheduled", "simulate", "done"}
Ids(heap) == {i.id : i \in Range(heap)}
Final == IF phase \in {"simulate", "done"} THEN planned ELSE item

\* Every heap of the engine keeps its order through the priority changes of
\* processors (BalanceHeap) and the removals of tasks from the middle
\* (RemoveItem): the head is the item that the comments on the schedulers mean.
\* RemoveItem lets the item it moves only go down; the graphs here are too small
\* for a heap in which that item would have to go up, which takes seven tasks.
HeapOrdered ==
    /\ IsHeap(queue.heap) /\ IsHeap(procs) /\ IsHeap(others)
    /\ IsHeap(virt.free) /\ IsHeap(virt.partial)
    /\ \A p \in Procs : IsHeap(mine[p])

\* Type and range: every index is one of an existing task or processor, and the
\* counters of unscheduled predecessors never pass zero; and heaps are heaps.
TypeOK ==
    /\ HeapOrdered
    /\ \A n \in Tasks : item[n].proc \in Procs \cup {NONE} /\ unscheduled[n] \in 0 .. Len(InEdges(n))
    /\ current \in Tasks \cup {NONE}
    /\ Ids(queue.heap) \subseteq Tasks
    /\ Ids(procs) \subseteq Procs /\ Cardinality(Ids(procs)) = Len(procs)
    /\ \A n \in Tasks : sim.pred[n] \in 0 .. Len(InEdges(n))
    /\ sim.p \in Procs /\ sim.left \in 0 .. Cardinality(Tasks)

\* Between two steps of a scheduler every task that is ready and not scheduled
\* is in exactly one place of one queue, and nothing else is: the tasks that FLB
\* and LLB move between queues are not lost and not scheduled twice.
Ready == {n \in Tasks : ~ Placed(n) /\ \A m \in Preds(n) : Placed(m)}
Waiting ==
    IF alg.kind \in OnLists THEN queue.list
    ELSE LET shared == queue.heap \o queue.list IN [i \in DOMAIN shared |-> shared[i].id]
Places(n) ==
    {<<NONE, i>> : i \in {j \in DOMAIN Waiting : Waiting[j] = n}}
    \cup UNION {{<<p, i>> : i \in {j \in DOMAIN mine[p] : mine[p][j].id = n}} : p \in Procs}
ReadyOnce ==
    phase = "schedule" /\ alg.kind \notin OnAllTasks =>
        \A n \in Tasks : Cardinality(Places(n)) = IF n \in Ready THEN 1 ELSE 0

\* The second view that FLB and LLB keep of the queues of the processors agrees
\* with them: the active processors are those with tasks, the mapped ready
\* tasks those in some queue.
ViewsAgree ==
    phase = "schedule" =>
        /\ IsFLB => Ids(others) = {p \in Procs : mine[p] # <<>>}
        /\ alg.kind = "LLB" => Ids(others) = UNION {Ids(mine[p]) : p \in Procs}

\* DSC: the free tasks are those of which every predecessor is in a cluster,
\* the partially free ones those of which some are; each is queued once, by the
\* priority that it has now.
Examined(n) == {m \in Preds(n) : virt.at[m] # NoItem}
FreeOnce ==
    phase = "cluster" =>
        LET waiting == {n \in Tasks : virt.at[n] = NoItem}
            free == {n \in waiting : Examined(n) = Preds(n)}
            queued == virt.free \o virt.partial
        IN  /\ Ids(virt.free) = free
            /\ Ids(virt.partial) = {n \in waiting \ free : Examined(n) # {}}
            /\ IsInjective(queued) /\ \A i \in Range(queued) : i = DSCItem(virt, i.id)

QueuesAgree == ReadyOnce /\ ViewsAgree /\ FreeOnce

\* ETF schedules the task that can start earliest (ETFScheduling.C): the starts
\* it decides never go back.
EarliestFirst ==
    [][alg.kind = "ETF" /\ phase = "schedule" /\ phase' = "update" =>
           \A m \in Tasks : Placed(m) => item[m].start <= item'[current'].start]_vars

\* A clustering puts every task in one cluster, also when DSC moves it to another;
\* the clusters of LC are paths; and the tasks of a cluster end on one processor,
\* although LLB maps a cluster when some of its tasks are not ready yet.
Clustered == alg.cluster # "none" /\ phase \notin {"unclustered", "cluster"}
ClustersKept ==
    Clustered =>
        LET all == FlattenSeq(virt.clusters)
        IN  /\ IsInjective(all) /\ Range(all) = Tasks
            /\ \A c \in DOMAIN virt.clusters : \A n \in Range(virt.clusters[c]) : ClusterOf(n) = c
            /\ alg.cluster = "LC" =>
                   \A c \in DOMAIN virt.clusters : \A i \in 2 .. Len(virt.clusters[c]) :
                       virt.clusters[c][i - 1] \in Preds(virt.clusters[c][i])
            /\ \A m, n \in Tasks :
                   Placed(m) /\ Placed(n) /\ ClusterOf(m) = ClusterOf(n) => item[m].proc = item[n].proc

\* When Schedule returns, every task has its place, in an order that the loop of
\* the simulator can finish: while tasks are left, some processor has one whose
\* predecessors have all run.
Complete ==
    /\ ClustersKept
    /\ Over => \A n \in Tasks : Placed(n)
    /\ phase = "simulate" /\ sim.left > 0 =>
           \E p \in Procs : sim.nl[p] <= Len(schedule[p]) /\ sim.pred[schedule[p][sim.nl[p]]] = 0

\* The simulation of a schedule takes no task later than the schedule has it.
SimulatedInTime == phase = "done" => \A n \in Tasks : item[n].finish <= planned[n].finish

\* Every scheduler implements Schedule: no task is placed before a predecessor,
\* before its messages or before the end of what its processor has.
Dags == {job.dag : job \in Jobs}
Abstract == INSTANCE Schedule WITH
    Graphs <- Dags,
    Times <- 0 .. MaxTime,
    graph <- dag,
    placed <- Final
AbstractSpec == Abstract!Spec
=============================================================================
