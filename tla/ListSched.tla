------------------------------ MODULE ListSched ------------------------------
(***************************************************************************)
(* The list schedulers of the scheduler engine (engines/scheduler/         *)
(* scheduler): each takes a ready task from a queue of its own order and   *)
(* adds it behind the last task of a processor.  A scheduler is            *)
(*   - ETF, ERT, DLS: a list of ready tasks, searched with all processors; *)
(*   - MCP, DPS, DPS_F: all the tasks, ordered beforehand;                 *)
(*   - LSA, LSF, LSA1, LSA2: a queue of ready tasks with the priority MD,  *)
(*     HDFET, HLFET, SCFET or SDFET;                                       *)
(*   - FCP_f, FCP_p: a queue by b_level, in FCP_p without messages, and a  *)
(*     queue of processors;                                                *)
(*   - STE, LEV, RCP: OrderTasks, for tasks that have a processor.         *)
(***************************************************************************)
EXTENDS TaskDag

VARIABLES
    alg,       \* [kind, prio, size]: the scheduler, its priority, its pseudo_heap_size;
               \* [cluster, merge]: what comes before it, if anything
    virt,      \* the virtual processors of a clustering.  clusters: the tasks of each,
               \* in order; at[n]: the processor and the times of task n there; and of
               \* DSC free_tasks, partial_free_tasks, t_level, examined_parents, start_time
    mapping,   \* the processors that the clusters of the tasks are mapped to
    phase,     \* unclustered, cluster, merge; new, schedule, update, scheduled;
               \* simulate, done; crashed
    current,   \* the task that was scheduled last
    queue,     \* the ready tasks: [heap, list]
    procs      \* the heap of processors, of the schedulers that have one

dagVars == <<dag, alg, virt, mapping>>
schedVars == <<schedule, item, unscheduled, phase, current, queue, procs>>

\* FCP_f has std::priority_queue, whose choice among equals is not specified.
OnLists == {"ETF", "ERT", "DLS", "FCP_f"}
OnAllTasks == {"MCP", "DPS", "DPS_F"}
Ordering == {"STE", "LEV", "RCP"}
\* Those that go on until all the tasks are scheduled; the others until their
\* queue is empty.
Counting == OnLists \cup {"FCP_p", "FLB_f", "FLB_f_b", "LLB"}

\* Those with queues of their own, in LoadBalance.
OnBoth == {"FLB_f", "FLB_f_b", "LLB"}

EmptyQueue == [heap |-> <<>>, list |-> <<>>]

-----------------------------------------------------------------------------
(* Priorities.  A level that ComputePrio returns without storing it reads    *)
(* as NONE: of exit tasks in HLFET and HDFET, of entry tasks in the others.  *)

BLevelStored(n) == IF OutEdges(n) = <<>> THEN NONE ELSE ComputeBLevel[n]
\* LSA1 computes the priority of the wrong task: these stay NONE.
TLevelStored(n) == IF InEdges(n) = <<>> \/ alg.kind = "LSA1" THEN NONE ELSE ComputeAEST[n]
DynTLevelStored(n) == IF InEdges(n) = <<>> \/ alg.kind = "LSA1" THEN NONE ELSE LastMsgTime(n)

PrioMD(n) ==
    LET mobility == ComputeALST[n] - ComputeAEST[n]
    IN  Key(IF alg.kind = "LSA1" THEN mobility ELSE - mobility, MeanExecTime(n), 0)
PrioHDFET(n) == Key(BLevelStored(n) - DynTLevelStored(n), 1, 0)
PrioHLFET(n) == Key(BLevelStored(n), 1, 0)
PrioSCFET(n) == Key(- TLevelStored(n), 1, 0)
PrioSDFET(n) == Key(- DynTLevelStored(n), 1, 0)

PrioMCP(n) == Key(- ComputeALST[n], 1, - ComputeLevel[n])
PrioDPS(n) == Key(ComputeAEST[n] + MeanExecTime(n), 1, 0)
PrioFCP(n) == Key(ComputeBLevelFree[n], 1, Len(OutEdges(n)))      \* of FCP_p

\* order_prio: the length of the longest path from n, on the processors given;
\* for STE when the messages of n arrive at its processor.  SAR has computed it
\* before the tasks had processors, and RCP does not compute it again.
OrderPrio[n \in Tasks] ==
    LET run == ExecTime(n, mapping[n])
    IN  Largest({OrderPrio[e.to] + run + CommTime(e, mapping[n], mapping[e.to]) :
                    e \in Range(OutEdges(n))}, run)
ArrivalAtMapping(n) == Largest({Arrival(e, mapping[n]) : e \in Range(InEdges(n))}, 0)
PrioOrder(n) ==
    Key(CASE alg.kind = "STE" -> ArrivalAtMapping(n)
          [] alg.kind = "RCP" /\ alg.merge = "SAR" -> ComputeBLevel[n]
          [] OTHER -> OrderPrio[n], 1, - ComputeLevel[n])

Prio(n) ==
    CASE alg.kind = "MCP" -> PrioMCP(n)
      [] alg.kind = "FCP_p" -> PrioFCP(n)
      [] alg.kind \in Ordering -> PrioOrder(n)
      [] alg.prio = "MD" -> PrioMD(n)
      [] alg.prio = "HDFET" -> PrioHDFET(n)
      [] alg.prio = "HLFET" -> PrioHLFET(n)
      [] alg.prio = "SCFET" -> PrioSCFET(n)
      [] alg.prio = "SDFET" -> PrioSDFET(n)

-----------------------------------------------------------------------------
(* The queue of ready tasks. *)

\* Heaps without a bound are PseudoHeaps that are never full.
Size == IF alg.size = NONE THEN Cardinality(Tasks) ELSE Largest({alg.size * Cardinality(Procs)}, 1)

EnqueueReady(q, n) ==
    IF alg.kind \in OnLists THEN [q EXCEPT !.list = Append(@, n)]
    ELSE PseudoEnqueue(q, Size, Item(n, Prio(n)))

InTaskOrder == SetToSortSeq(Tasks, <)

\* AddTask of DPS: the predecessors first, in the order of their priority.
RECURSIVE InDependenceOrder(_, _), AllDequeued(_)
AllDequeued(heap) == IF heap = <<>> THEN <<>> ELSE <<Head(heap).id>> \o AllDequeued(Dequeue(heap))
InDependenceOrder(list, n) ==
    LET preds == AllDequeued(HeapOf(LAMBDA e : Item(e.from, PrioDPS(e.from)), InEdges(n)))
        after == FoldLeft(LAMBDA l, m : IF Contains(l, m) THEN l ELSE InDependenceOrder(l, m), list, preds)
    IN  Append(after, n)

\* What the constructors, MakePrioList and BuildTaskList leave in the queue.
FirstQueue ==
    CASE alg.kind \in {"DPS", "DPS_F"} ->
             [EmptyQueue EXCEPT !.list = InDependenceOrder(<<>>, Max(Tasks))]
      [] alg.kind = "MCP" -> FoldLeft(EnqueueReady, EmptyQueue, InTaskOrder)
      [] OTHER -> FoldLeft(EnqueueReady, EmptyQueue, SelectSeq(InTaskOrder, LAMBDA n : InEdges(n) = <<>>))

\* The priority of a processor in FCP: minus the time at which it would finish
\* a mean task.
SumFlops == FoldSet(LAMBDA n, s : s + dag.flops[n], 0, Tasks)
MeanFinish(p, ready) ==
    LET den == Cardinality(Tasks) * dag.speed[p]
    IN  Key(- (ready * den + SumFlops), den, dag.speed[p])
FirstProcKey(p) == IF alg.kind \in {"LSA2", "LLB"} THEN Key(0, 1, 0) ELSE MeanFinish(p, 0)

FirstProcs ==
    HeapOf(LAMBDA p : Item(p, FirstProcKey(p)), SetToSortSeq(Procs, <))

NewScheduler ==
    /\ phase = "new" /\ alg.kind \notin OnBoth
    /\ phase' = "schedule"
    /\ queue' = FirstQueue
    /\ procs' = IF alg.kind \in {"LSA2", "FCP_p"} THEN FirstProcs ELSE <<>>
    /\ UNCHANGED <<dagVars, schedule, item, unscheduled, current>>

-----------------------------------------------------------------------------
(* ScheduleTask of each scheduler. *)

Next1 == queue.heap[1].id
Queued == phase = "schedule" /\ queue.heap # <<>>
Scheduled(n) == current' = n /\ phase' = "update" /\ UNCHANGED <<dagVars, unscheduled>>

\* The first processor of the lowest cost.
FirstProc(cost(_)) == Min({p \in Procs : \A q \in Procs : cost(p) <= cost(q)})
FinishTimeOnProc(n, p) == StartTimeOnProc(n, p) + ExecTime(n, p)
EarliestStart(n) == FirstProc(LAMBDA p : StartTimeOnProc(n, p))
EarliestFinish(n) == FirstProc(LAMBDA p : FinishTimeOnProc(n, p))

\* The loops over the ready list and the processors: the first pair of the
\* lowest cost.
FirstPair(cost(_, _)) ==
    LET list == queue.list
        pairs == (DOMAIN list) \X Procs
        best == {c \in pairs : \A d \in pairs : cost(list[c[1]], c[2]) <= cost(list[d[1]], d[2])}
        i == Min({c[1] : c \in best})
    IN  <<list[i], Min({c[2] : c \in {d \in best : d[1] = i}})>>

TakeFromList(kind, pair, start(_, _)) ==
    /\ phase = "schedule" /\ alg.kind = kind /\ queue.list # <<>>
    /\ AddTask(pair[1], pair[2], start(pair[1], pair[2]))
    /\ queue' = [queue EXCEPT !.list = SelectSeq(@, LAMBDA m : m # pair[1])]
    /\ Scheduled(pair[1]) /\ UNCHANGED procs

\* Mutant: the processor is taken to be idle already.
ETFScheduleTaskEarly ==
    TakeFromList("ETF", FirstPair(StartTimeOnProc),
                 LAMBDA n, p : Largest({Arrival(e, p) : e \in Range(InEdges(n))}, 0))

ETFScheduleTask == TakeFromList("ETF", FirstPair(StartTimeOnProc), StartTimeOnProc)
ERTScheduleTask == TakeFromList("ERT", FirstPair(FinishTimeOnProc), StartTimeOnProc)

\* CP_Node::ComputeStartTimeOnProc: every message is paid for, except on the
\* processor that the last one comes from.
StartTimeOfCP(n, p) ==
    Largest({IF InEdges(n) = <<>> THEN 0
             ELSE IF p = LastMsgProc(n) THEN EarliestOnLastProc(n) ELSE LastMsgTime(n)}, ProcReadyTime(p))
DLSScheduleTask ==
    TakeFromList("DLS", FirstPair(LAMBDA n, p : StartTimeOfCP(n, p) - ComputeBLevel[n]), StartTimeOfCP)

\* A task taken from the head of the queue, and where it goes.
TakeNext(p, start) ==
    /\ queue' = PseudoDequeue(queue)
    /\ AddTask(Next1, p, start)
    /\ Scheduled(Next1)

OnProc(p) == TakeNext(p, StartTimeOnProc(Next1, p)) /\ UNCHANGED procs

MCPScheduleTask == Queued /\ alg.kind = "MCP" /\ OnProc(EarliestStart(Next1))
LSAScheduleTask == Queued /\ alg.kind = "LSA" /\ OnProc(EarliestStart(Next1))
LSA1ScheduleTask == Queued /\ alg.kind = "LSA1" /\ OnProc(EarliestStart(Next1))
LSFScheduleTask == Queued /\ alg.kind = "LSF" /\ OnProc(EarliestFinish(Next1))
OrderTask == Queued /\ alg.kind \in Ordering /\ OnProc(mapping[Next1])

TakeInOrder(p) ==
    /\ phase = "schedule" /\ queue.list # <<>>
    /\ AddTask(Head(queue.list), p, StartTimeOnProc(Head(queue.list), p))
    /\ queue' = [queue EXCEPT !.list = Tail(@)]
    /\ Scheduled(Head(queue.list)) /\ UNCHANGED procs
DPSScheduleTask == alg.kind = "DPS" /\ TakeInOrder(EarliestStart(Head(queue.list)))
DPSFScheduleTask == alg.kind = "DPS_F" /\ TakeInOrder(EarliestFinish(Head(queue.list)))

\* LSA2: the processor of the last message, or else the one that is idle first.
\* An entry task has no such processor, and may not go to processor NONE: then
\* AddTask indexes before the array, and no step is modelled.
LSA2ScheduleTask ==
    LET p1 == LastMsgProc(Next1)
        p2 == procs[1].id
        t1 == IF p1 = NONE THEN 0 ELSE StartTimeOnProc(Next1, p1)
        p == IF t1 < StartTimeOnProc(Next1, p2) THEN p1 ELSE p2
    IN  /\ Queued /\ alg.kind = "LSA2" /\ p # NONE
        /\ TakeNext(p, StartTimeOnProc(Next1, p))
        /\ procs' = Rebalance(procs, p, Key(- FinishTimeOnProc(Next1, p), 1, 0))

\* FCP: of the processor p that would finish a mean task first and that of the
\* last message, the one that finishes the task first.
FCPProc(n, p) ==
    LET p2 == LastMsgProc(n)
    IN  IF p2 # NONE /\ FinishTimeOnProc(n, p2) < FinishTimeOnProc(n, p) THEN p2 ELSE p

FCPpScheduleTask ==
    LET p == FCPProc(Next1, procs[1].id)
    IN  /\ Queued /\ alg.kind = "FCP_p"
        /\ TakeNext(p, StartTimeOnProc(Next1, p))
        /\ procs' = Rebalance(procs, p, MeanFinish(p, FinishTimeOnProc(Next1, p)))

\* FCP_f: std::make_heap does not specify its choice among equals either.
IdleFirst(p) ==
    LET value(q) == Item(q, [MeanFinish(q, ProcReadyTime(q)) EXCEPT !.tie = 0])
    IN  \A q \in Procs : ~ MorePrioThan(value(q), value(p))

FCPfScheduleTask ==
    /\ phase = "schedule" /\ alg.kind = "FCP_f"
    /\ \E n \in Range(queue.list), first \in Procs :
          LET p == FCPProc(n, first)
          IN  /\ \A m \in Range(queue.list) : ComputeBLevel[n] >= ComputeBLevel[m]
              /\ IdleFirst(first)
              /\ AddTask(n, p, StartTimeOnProc(n, p))
              /\ queue' = [queue EXCEPT !.list = SelectSeq(@, LAMBDA m : m # n)]
              /\ Scheduled(n)
    /\ UNCHANGED procs

-----------------------------------------------------------------------------
\* UpdateReadyTaskList: the successors of which this was the last predecessor
\* to be scheduled.  MCP and DPS have all the tasks in their queue.
UpdateReadyTaskList ==
    LET step(s, e) ==
            [count |-> Dec(s.count, e.to),
             queue |-> IF s.count[e.to] = 1 THEN EnqueueReady(s.queue, e.to) ELSE s.queue]
        after == FoldLeft(step, [count |-> unscheduled, queue |-> queue], OutEdges(current))
    IN  /\ phase = "update" /\ alg.kind \notin OnAllTasks \cup OnBoth
        /\ unscheduled' = after.count
        /\ queue' = after.queue
        /\ phase' = "schedule"
        /\ UNCHANGED <<dagVars, schedule, item, current, procs>>

NextOfAllTasks ==
    /\ phase = "update" /\ alg.kind \in OnAllTasks
    /\ phase' = "schedule"
    /\ UNCHANGED <<dagVars, schedule, item, unscheduled, current, queue, procs>>

\* The loop of Schedule ends.
ScheduleDone ==
    /\ phase = "schedule"
    /\ IF alg.kind \in Counting THEN \A n \in Tasks : Placed(n) ELSE queue = EmptyQueue
    /\ phase' = "scheduled"
    /\ UNCHANGED <<dagVars, schedule, item, unscheduled, current, queue, procs>>

ListNext ==
    \/ NewScheduler \/ ETFScheduleTask \/ ERTScheduleTask \/ DLSScheduleTask
    \/ MCPScheduleTask \/ LSAScheduleTask \/ LSA1ScheduleTask \/ LSFScheduleTask
    \/ OrderTask \/ DPSScheduleTask \/ DPSFScheduleTask \/ LSA2ScheduleTask
    \/ FCPpScheduleTask \/ FCPfScheduleTask
    \/ UpdateReadyTaskList \/ NextOfAllTasks \/ ScheduleDone
=============================================================================
