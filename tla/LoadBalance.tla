---------------------------- MODULE LoadBalance ----------------------------
(***************************************************************************)
(* FLB-f and LLB of the scheduler engine: the ready tasks are spread over  *)
(* a global queue (queue.heap) and one queue for each processor, and tasks *)
(* move between them while others are scheduled.                           *)
(***************************************************************************)
EXTENDS Clustering

VARIABLES
    mine,      \* mine[p]: proc_ready_task[p], ready_mapped_tasks[p]
    others,    \* FLB: active_proc_list; LLB: all_ready_mapped_tasks
    node       \* node[n]: proc_id, and the t_level and min_ST of FLB

ownVars == <<mine, others, node>>
NoNode == [proc |-> NONE, tLevel |-> NONE, minST |-> NONE]

IsFLB == alg.kind \in {"FLB_f", "FLB_f_b"}

-----------------------------------------------------------------------------
(* FLB-f: a ready task waits for the processor of its last message while   *)
(* that is idle when the message comes, and else for any processor.        *)

\* GetPrio of FLB_f_Node, smaller first, then the larger b_level.
FLBItem(n, at) ==
    LET prio == CASE at.proc # NONE -> at.minST + ExecTime(n, at.proc)
                  [] alg.kind = "FLB_f" -> at.tLevel
                  [] OTHER -> - ComputeBLevelFree[n]
    IN  Item(n, Key(- prio, 1, ComputeBLevelFree[n]))

FLBStartTimeOnProc(n, p) ==
    Largest({IF p = node[n].proc THEN node[n].minST ELSE node[n].tLevel}, ProcReadyTime(p))
FLBFinishTime(n, p) == FLBStartTimeOnProc(n, p) + ExecTime(n, p)

FLBNewScheduler ==
    /\ phase = "new" /\ IsFLB
    /\ LET entries == SelectSeq(InTaskOrder, LAMBDA n : InEdges(n) = <<>>)
       IN  queue' = [EmptyQueue EXCEPT !.heap = HeapOf(LAMBDA n : FLBItem(n, NoNode), entries)]
    /\ procs' = FirstProcs
    /\ phase' = "schedule"
    /\ UNCHANGED <<dagVars, schedule, item, unscheduled, current, ownVars>>

\* Which of the two candidates ScheduleTask takes: the first task of the first
\* active processor, or else the first global task on the processor that is
\* idle first.
TakesActive ==
    /\ others # <<>> /\ mine[others[1].id] # <<>>
    /\ LET p == others[1].id
       IN  queue.heap # <<>> =>
               FLBFinishTime(mine[p][1].id, p) < FLBFinishTime(Next1, procs[1].id)

FLBScheduleActive ==
    /\ phase = "schedule" /\ IsFLB /\ TakesActive
    /\ LET p == others[1].id
           n == mine[p][1].id
       IN  /\ AddTask(n, p, FLBStartTimeOnProc(n, p))
           /\ mine' = [mine EXCEPT ![p] = Dequeue(@)]
           /\ others' = Dequeue(others)
           /\ Scheduled(n)
    /\ UNCHANGED <<queue, procs, node>>

FLBScheduleGlobal ==
    /\ Queued /\ IsFLB /\ ~ TakesActive
    /\ AddTask(Next1, procs[1].id, FLBStartTimeOnProc(Next1, procs[1].id))
    /\ queue' = [queue EXCEPT !.heap = Dequeue(@)]
    /\ Scheduled(Next1)
    /\ UNCHANGED <<procs, ownVars>>

\* Step 2.8: the first tasks of p whose last message comes before p is idle
\* go to the global queue.
RECURSIVE MoveToGlobal(_, _)
MoveToGlobal(s, p) ==
    IF s.mine[p] = <<>> \/ node[s.mine[p][1].id].tLevel >= ProcReadyTime(p) THEN s
    ELSE LET n == s.mine[p][1].id
             at == [node[n] EXCEPT !.proc = NONE]
         IN  MoveToGlobal([s EXCEPT !.mine[p] = Dequeue(@),
                                    !.node[n] = at,
                                    !.global = Enqueue(@, FLBItem(n, at))], p)

\* Mutant: a processor without tasks stays in the list of active processors.
StillActiveStale(s, p) ==
    IF s.mine[p] = <<>> THEN s
    ELSE LET t == s.mine[p][1].id
             finish == node[t].minST + ExecTime(t, p)
             key(time) == Key(- time, 1, dag.speed[p])
             kept == Rebalance(s.active, p, key(finish))
             late == key(Largest({finish}, ProcReadyTime(p)))
         IN  [s EXCEPT !.active = IF IndexInHeap(kept, p) = 0 THEN Enqueue(kept, Item(p, late))
                                  ELSE Rebalance(kept, p, late)]

\* Steps 2.8 and 2.9: p stays in the list of active processors while it has tasks.
StillActive(s, p) ==
    IF s.mine[p] = <<>> THEN [s EXCEPT !.active = RemoveItem(@, p)]
    ELSE LET t == s.mine[p][1].id
             finish == node[t].minST + ExecTime(t, p)
             key(time) == Key(- time, 1, dag.speed[p])
             kept == Rebalance(s.active, p, key(finish))
             late == key(Largest({finish}, ProcReadyTime(p)))
         IN  [s EXCEPT !.active = IF IndexInHeap(kept, p) = 0 THEN Enqueue(kept, Item(p, late))
                                  ELSE Rebalance(kept, p, late)]

\* Step 2.10, for one successor that becomes ready: ComputeReadyVals, and its
\* queue.
FLBReady(s, n) ==
    LET p == LastMsgProc(n)
        at == [proc |-> p, tLevel |-> LastMsgTime(n), minST |-> EarliestOnLastProc(n)]
        any == [at EXCEPT !.proc = NONE]
        wake == Item(p, Key(- Largest({at.minST}, ProcReadyTime(p)) - ExecTime(n, p), 1, dag.speed[p]))
    IN  IF at.tLevel >= ProcReadyTime(p)
        THEN [s EXCEPT !.node[n] = at,
                       !.active = IF s.mine[p] = <<>> THEN Enqueue(@, wake) ELSE @,
                       !.mine[p] = Enqueue(@, FLBItem(n, at))]
        ELSE [s EXCEPT !.node[n] = any, !.global = Enqueue(@, FLBItem(n, any))]

FLBUpdate ==
    LET p == item[current].proc
        step(s, e) == LET t == [s EXCEPT !.count = Dec(@, e.to)]
                      IN  IF t.count[e.to] = 0 THEN FLBReady(t, e.to) ELSE t
        now == [mine |-> mine, active |-> others, global |-> queue.heap, node |-> node, count |-> unscheduled]
        after == FoldLeft(step, StillActive(MoveToGlobal(now, p), p), OutEdges(current))
    IN  /\ phase = "update" /\ IsFLB
        /\ mine' = after.mine /\ others' = after.active /\ node' = after.node
        /\ queue' = [queue EXCEPT !.heap = after.global]
        /\ unscheduled' = after.count
        /\ procs' = Rebalance(procs, p, MeanFinish(p, ProcReadyTime(p)))
        /\ phase' = "schedule"
        /\ UNCHANGED <<dagVars, schedule, item, current>>

-----------------------------------------------------------------------------
(* LLB: tasks of one cluster go to one processor, that of the first of them *)
(* to be scheduled.  CPM and WL are LLB without clusters.                   *)

LLBItem(n) == Item(n, Key(IF alg.prio = "WL" THEN MeanExecTime(n) ELSE ComputeBLevelFree[n], 1, 0))

LLBNewScheduler ==
    /\ phase = "new" /\ alg.kind = "LLB"
    /\ LET entries == SelectSeq(InTaskOrder, LAMBDA n : InEdges(n) = <<>>)
       IN  queue' = [EmptyQueue EXCEPT !.heap = HeapOf(LLBItem, entries)]
    /\ procs' = FirstProcs
    /\ phase' = "schedule"
    /\ UNCHANGED <<dagVars, schedule, item, unscheduled, current, ownVars>>

\* The rest of the cluster of n, in the order of the first scheduling.
Cluster(n) == IF virt.clusters = <<>> THEN <<>> ELSE virt.clusters[virt.at[n].proc]

\* MapTaskCluster: ready tasks of the cluster move to the queue of p.
MapTaskCluster(s, n, p) ==
    LET step(t, m) ==
            LET at == [t EXCEPT !.node[m].proc = p]
            IN  IF IndexInHeap(t.unmapped, m) = 0 THEN at
                ELSE [at EXCEPT !.unmapped = RemoveItem(@, m),
                                !.mine[p] = Enqueue(@, LLBItem(m)),
                                !.mapped = Enqueue(@, LLBItem(m))]
    IN  FoldLeft(step, s, Cluster(n))

LLBQueued == phase = "schedule" /\ alg.kind = "LLB"

\* Of the first mapped and the first unmapped task, the one that starts first.
LLBTakesMapped(p) ==
    /\ mine[p] # <<>>
    /\ queue.heap # <<>> => StartTimeOnProc(mine[p][1].id, p) <= StartTimeOnProc(Next1, p)

LLBScheduleMapped ==
    LET p == procs[1].id
        n == mine[p][1].id
    IN  /\ LLBQueued /\ LLBTakesMapped(p)
        /\ AddTask(n, p, StartTimeOnProc(n, p))
        /\ mine' = [mine EXCEPT ![p] = Dequeue(@)]
        /\ others' = RemoveItem(others, n)
        /\ Scheduled(n)
        /\ UNCHANGED <<queue, procs, node>>

LLBScheduleUnmapped ==
    LET p == procs[1].id
        left == [unmapped |-> Dequeue(queue.heap), mine |-> mine, mapped |-> others, node |-> node]
        after == MapTaskCluster(left, Next1, p)
    IN  /\ LLBQueued /\ queue.heap # <<>> /\ ~ LLBTakesMapped(p)
        /\ AddTask(Next1, p, StartTimeOnProc(Next1, p))
        /\ queue' = [queue EXCEPT !.heap = after.unmapped]
        /\ mine' = after.mine /\ others' = after.mapped /\ node' = after.node
        /\ Scheduled(Next1)
        /\ UNCHANGED procs

\* Step 2.5: the processor has no task, and only mapped ones are ready.
LLBScheduleElsewhere ==
    LET n == others[1].id
        p == node[n].proc
    IN  /\ LLBQueued /\ queue.heap = <<>> /\ mine[procs[1].id] = <<>> /\ others # <<>>
        /\ AddTask(n, p, StartTimeOnProc(n, p))
        /\ others' = Dequeue(others)
        /\ mine' = [mine EXCEPT ![p] = RemoveItem(@, n)]
        /\ Scheduled(n)
        /\ UNCHANGED <<queue, procs, node>>

LLBUpdate ==
    LET p == item[current].proc
        step(s, e) ==
            LET t == [s EXCEPT !.count = Dec(@, e.to)]
                q == node[e.to].proc
            IN  CASE t.count[e.to] # 0 -> t
                  [] t.count[e.to] = 0 /\ q = NONE -> [t EXCEPT !.unmapped = Enqueue(@, LLBItem(e.to))]
                  [] OTHER -> [t EXCEPT !.mine[q] = Enqueue(@, LLBItem(e.to)),
                                        !.mapped = Enqueue(@, LLBItem(e.to))]
        now == [mine |-> mine, mapped |-> others, unmapped |-> queue.heap, count |-> unscheduled]
        after == FoldLeft(step, now, OutEdges(current))
    IN  /\ phase = "update" /\ alg.kind = "LLB"
        /\ mine' = after.mine /\ others' = after.mapped
        /\ queue' = [queue EXCEPT !.heap = after.unmapped]
        /\ unscheduled' = after.count
        /\ procs' = Rebalance(procs, p, Key(- ProcReadyTime(p), 1, 0))
        /\ phase' = "schedule"
        /\ UNCHANGED <<dagVars, schedule, item, current, node>>

BalanceNext ==
    \/ FLBNewScheduler \/ FLBScheduleActive \/ FLBScheduleGlobal \/ FLBUpdate
    \/ LLBNewScheduler \/ LLBScheduleMapped \/ LLBScheduleUnmapped
    \/ LLBScheduleElsewhere \/ LLBUpdate
=============================================================================
