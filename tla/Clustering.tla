----------------------------- MODULE Clustering -----------------------------
(***************************************************************************)
(* The two-step schedulers of the scheduler engine: DSC or LC puts the     *)
(* tasks in clusters, each on a virtual processor of mean speed; GLB, SAR  *)
(* or WCM maps the clusters to the processors, and OrderTasks (ListSched)  *)
(* orders the tasks there, or LLB (LoadBalance) maps and orders them.      *)
(***************************************************************************)
EXTENDS ListSched

NoVirt ==
    [clusters |-> <<>>, at |-> [n \in Tasks |-> NoItem], free |-> <<>>, partial |-> <<>>,
     tLevel |-> [n \in Tasks |-> 0], examined |-> [n \in Tasks |-> 0], start |-> NONE]

OthersUnchanged == UNCHANGED <<dag, alg, schedule, item, unscheduled, current, queue, procs>>

-----------------------------------------------------------------------------
(* The virtual processors: AddTask, RemoveTask and the times on them, for a  *)
(* value v of virt.                                                          *)

VirtualReady(v, c) == IF v.clusters[c] = <<>> THEN 0 ELSE v.at[Last(v.clusters[c])].finish
OnVirtual(v, n, c, start) ==
    [v EXCEPT !.clusters[c] = Append(@, n),
              !.at[n] = [proc |-> c, start |-> start, finish |-> start + MeanExecTime(n)]]
OnNewVirtual(v, n, start) ==
    OnVirtual([v EXCEPT !.clusters = Append(@, <<>>)], n, Len(v.clusters) + 1, start)
VirtualStart(v, n, c, ready) ==
    Largest({v.at[e.from].finish + CommTime(e, v.at[e.from].proc, c) : e \in Range(InEdges(n))}, ready)

\* Mutant: the task that is moved stays in its old cluster too.
RemoveTaskNot(v, m) == v

RemoveTask(v, m) == [v EXCEPT !.clusters[v.at[m].proc] = SelectSeq(@, LAMBDA k : k # m)]

-----------------------------------------------------------------------------
(* DSC: the task on the longest path first, on the cluster that lets it      *)
(* start earliest; a task that is not on the longest path leaves alone the   *)
(* cluster that one on it will want.                                         *)

DSCItem(v, n) == Item(n, Key(v.tLevel[n] + ComputeBLevelFree[n], 1, Len(OutEdges(n))))

DSCNewScheduler ==
    LET entries == SelectSeq(InTaskOrder, LAMBDA n : InEdges(n) = <<>>)
    IN  /\ phase = "unclustered" /\ alg.cluster = "DSC"
        /\ virt' = [virt EXCEPT !.free = HeapOf(LAMBDA n : DSCItem(virt, n), entries)]
        /\ phase' = "cluster"
        /\ OthersUnchanged /\ UNCHANGED mapping

\* MakePredList: the predecessors, the last to end first.
PredPrio(v, m) == v.tLevel[m] + MeanExecTime(m)
PredList(v, n) ==
    AllDequeued(HeapOf(LAMBDA e : Item(e.from, Key(PredPrio(v, e.from), 1, 0)), InEdges(n)))

\* GetDestCluster: the first cluster in the list that is not forbidden.  Only
\* when that is the first of all is start_time set; else it keeps its value.
GetDestCluster(v, list, forbidden) ==
    LET i == SelectInSeq(list, LAMBDA m : v.at[m].proc # forbidden)
    IN  CASE i = 0 -> [cluster |-> NONE, start |-> v.start]
          [] i = 1 -> [cluster |-> v.at[list[1]].proc,
                       start |-> Largest({PredPrio(v, list[j]) : j \in 2 .. Min({2, Len(list)})},
                                         v.at[list[1]].finish)]
          [] OTHER -> [cluster |-> v.at[list[i]].proc, start |-> v.start]

\* The decision of FindCluster: a cluster, or NONE for a new one.  As long as
\* start_time is not set, garbage is what it holds.
FindCluster(v, n, forbidden, garbage) ==
    LET dest == GetDestCluster(v, PredList(v, n), forbidden)
        late == Largest({IF dest.start = NONE THEN garbage ELSE dest.start}, v.tLevel[n])
    IN  CASE InEdges(n) = <<>> -> [cluster |-> NONE, start |-> v.start]
          [] dest.cluster # NONE /\ VirtualReady(v, dest.cluster) > late -> [dest EXCEPT !.cluster = NONE]
          [] OTHER -> dest

\* MakeCandidateTasks: predecessors that have no other successor, up to the
\* first that has.
Candidates(v, n, c) ==
    LET elsewhere == SelectSeq(PredList(v, n), LAMBDA m : v.at[m].proc # c)
        shared == SelectInSeq(elsewhere, LAMBDA m : Len(OutEdges(m)) > 1)
    IN  IF shared = 0 THEN elsewhere ELSE SubSeq(elsewhere, 1, shared - 1)

\* TryMappingPred: candidates move to the cluster if they end there before
\* their message would arrive.  The second test of the loop never holds, since
\* ST is at least level.
TryMappingPred(v, n, c) ==
    LET try(t, m) ==
            LET arrival == t.virt.at[m].finish + OutEdges(m)[1].size
                start == VirtualStart(t.virt, m, c, t.level)
            IN  IF start + MeanExecTime(m) >= arrival THEN [t EXCEPT !.arrived = Largest({@}, arrival)]
                ELSE [t EXCEPT !.virt = OnVirtual(RemoveTask(@, m), m, c, start),
                               !.level = start + start + MeanExecTime(m)]
    IN  FoldLeft(try, [virt |-> v, level |-> VirtualReady(v, c), arrived |-> 0], Candidates(v, n, c))

MapTask(v, n, c) ==
    LET tried == TryMappingPred(v, n, c)
        start == Largest({tried.arrived}, VirtualReady(tried.virt, c))
    IN  [OnVirtual(tried.virt, n, c, start) EXCEPT !.tLevel[n] = start]

\* A successor m of the task n that was mapped: ModifyTLevel, and its queue.
Examine(v, n, m) ==
    LET w == [v EXCEPT !.tLevel[m] = Largest({@}, PredPrio(v, n)), !.examined[m] = @ + 1]
    IN  CASE w.examined[m] = Len(InEdges(m)) ->
                 [w EXCEPT !.partial = RemoveItem(@, m), !.free = Enqueue(@, DSCItem(w, m))]
          [] w.examined[m] = 1 /\ Len(InEdges(m)) > 1 -> [w EXCEPT !.partial = Enqueue(@, DSCItem(w, m))]
          [] OTHER -> [w EXCEPT !.partial = Rebalance(@, m, DSCItem(w, m).key)]

DSCScheduleTask ==
    /\ phase = "cluster" /\ virt.free # <<>>
    /\ \E garbage \in {0} \cup {virt.at[m].finish : m \in Tasks} :
          LET first == virt.free[1]
              n == first.id
              wanted == virt.partial # <<>> /\ MorePrioThan(virt.partial[1], first)
              kept == IF wanted THEN FindCluster(virt, virt.partial[1].id, NONE, garbage)
                      ELSE [cluster |-> NONE, start |-> virt.start]
              dest == FindCluster([virt EXCEPT !.start = kept.start], n, kept.cluster, garbage)
              taken == [virt EXCEPT !.free = Dequeue(@), !.start = dest.start]
              mapped == IF dest.cluster = NONE THEN OnNewVirtual(taken, n, virt.tLevel[n])
                        ELSE MapTask(taken, n, dest.cluster)
          IN  virt' = FoldLeft(LAMBDA v, e : Examine(v, n, e.to), mapped, OutEdges(n))
    /\ OthersUnchanged /\ UNCHANGED <<phase, mapping>>

DSCDone ==
    /\ phase = "cluster" /\ virt.free = <<>>
    /\ phase' = IF alg.merge = "LLB" THEN "new" ELSE "merge"
    /\ OthersUnchanged /\ UNCHANGED <<virt, mapping>>

-----------------------------------------------------------------------------
(* LC: the tasks on the longest path of those without a cluster become one. *)

Unmapped == {n \in Tasks : virt.at[n].proc = NONE}

\* b_level: a message within a cluster costs nothing; tasks outside `tasks'
\* are left out.
LCBLevel(tasks) ==
    LET level[n \in tasks] ==
            Largest({level[e.to] + CommTime(e, virt.at[n].proc, virt.at[e.to].proc) :
                        e \in {f \in Range(OutEdges(n)) : f.to \in tasks}}, 0) + MeanExecTime(n)
    IN  level

\* The longest path from n: the last of the best successors each time.
RECURSIVE CriticalPath(_, _)
CriticalPath(level, n) ==
    LET out == SelectSeq(OutEdges(n), LAMBDA e : e.to \in DOMAIN level)
        length(e) == level[e.to] + e.size
        best == SelectLastInSeq(out, LAMBDA e : \A f \in Range(out) : length(e) >= length(f))
    IN  IF out = <<>> THEN <<n>> ELSE <<n>> \o CriticalPath(level, out[best].to)

MapNextCluster ==
    /\ phase = "unclustered" /\ alg.cluster = "LC" /\ Unmapped # {}
    /\ LET level == LCBLevel(Unmapped)
           first == Min({n \in Unmapped : \A m \in Unmapped : level[n] >= level[m]})
           path == CriticalPath(level, first)
       IN  virt' = [virt EXCEPT !.clusters = Append(@, <<>>),
                                !.at = [n \in Tasks |-> IF Contains(path, n)
                                                        THEN [NoItem EXCEPT !.proc = Len(virt.clusters) + 1]
                                                        ELSE @[n]]]
    /\ OthersUnchanged /\ UNCHANGED <<phase, mapping>>

\* AssignTasksToProcessors
LCAssign(v, n) == OnVirtual(v, n, v.at[n].proc, VirtualStart(v, n, v.at[n].proc, VirtualReady(v, v.at[n].proc)))
AssignTasksToProcessors ==
    /\ phase = "unclustered" /\ alg.cluster = "LC" /\ Unmapped = {}
    /\ LET level == LCBLevel(Tasks)
           list == HeapOf(LAMBDA n : Item(n, Key(level[n], 1, 0)), InTaskOrder)
       IN  virt' = FoldLeft(LCAssign, virt, AllDequeued(list))
    /\ phase' = "merge"
    /\ OthersUnchanged /\ UNCHANGED mapping

-----------------------------------------------------------------------------
(* The merging of clusters: onto[c] is the processor of cluster c.           *)

ClusterOf(n) == virt.at[n].proc
InCluster(c) == {n \in Tasks : ClusterOf(n) = c}

Merged(kind, onto) ==
    /\ phase = "merge" /\ alg.merge = kind
    /\ mapping' = onto
    /\ phase' = "new"
    /\ OthersUnchanged /\ UNCHANGED virt

\* GLB: the clusters in the order of their start, each to the processor with
\* the least work.  A cluster that lost its tasks in TryMappingPred has the
\* start time NONE.
GLBWork(c) == MapThenSumSet(LAMBDA n : dag.flops[n], InCluster(c))
GLBClusterItem(c) ==
    LET starts == {virt.at[n].start : n \in InCluster(c)}
    IN  Item(c, Key(- (IF starts = {} THEN NONE ELSE Min(starts)), 1, GLBWork(c)))
GLBMergeTaskClusters ==
    LET list == HeapOf(GLBClusterItem, [c \in 1 .. Max({ClusterOf(n) : n \in Tasks}) |-> c])
        idle == HeapOf(LAMBDA p : Item(p, Key(0, dag.speed[p], 0)), SetToSortSeq(Procs, <))
        step(s, c) ==
            LET least == s.procs[1]
            IN  [onto |-> [s.onto EXCEPT ![c] = least.id],
                 procs |-> Rebalance(s.procs, least.id, [least.key EXCEPT !.num = @ - GLBWork(c)])]
        merged == FoldLeft(step, [onto |-> [c \in DOMAIN virt.clusters |-> NONE], procs |-> idle], AllDequeued(list))
    IN  Merged("GLB", [n \in Tasks |-> merged.onto[ClusterOf(n)]])

\* SAR: the completion time if cluster c goes to processor p, clusters without
\* a processor have one of their own, and what is mapped stays where it is.
SARItem(n) == Item(n, Key(ComputeBLevel[n], 1, 0))
SARCompletion(onto, c, p) ==
    LET place(n) == CASE onto[n] # NONE -> onto[n]
                      [] ClusterOf(n) = c -> p
                      [] OTHER -> Cardinality(Procs) + ClusterOf(n)
        run(n) == IF place(n) \in Procs THEN ExecTime(n, place(n)) ELSE MeanExecTime(n)
        \* GetFinishTime knows only the processors that are decided.
        finish(s, n) == s.start[n] + (IF onto[n] = NONE THEN MeanExecTime(n) ELSE run(n))
        release(s, e) ==
            LET count == Dec(s.count, e.to)
            IN  [s EXCEPT !.count = count, !.ready = IF count[e.to] = 0 THEN Enqueue(@, SARItem(e.to)) ELSE @]
        step(s, i) ==
            LET n == s.ready[1].id
                arrivals == {finish(s, e.from) + (IF place(e.from) = place(n) THEN 0 ELSE e.size) :
                                e \in Range(InEdges(n))}
                start == Largest(arrivals, s.idle[place(n)])
            IN  FoldLeft(release,
                         [s EXCEPT !.ready = Dequeue(@), !.start[n] = start, !.idle[place(n)] = start + run(n)],
                         OutEdges(n))
        first == [ready |-> HeapOf(SARItem, SelectSeq(InTaskOrder, LAMBDA n : InEdges(n) = <<>>)),
                  count |-> [n \in Tasks |-> Len(InEdges(n))],
                  start |-> [n \in Tasks |-> 0],
                  idle |-> [q \in {place(n) : n \in Tasks} |-> 0]]
        last == FoldLeft(step, first, InTaskOrder)
    IN  Max({finish(last, n) : n \in Tasks})

\* Each cluster to the first processor of the earliest completion, in the order
\* of the levels of their tasks.
SARMapClusters ==
    LET list == HeapOf(SARItem, InTaskOrder)
        best(time) == Min({p \in Procs : \A q \in Procs : time[p] <= time[q]})
        mapCluster(onto, c) ==
            LET p == best([q \in Procs |-> SARCompletion(onto, c, q)])
            IN  [n \in Tasks |-> IF ClusterOf(n) = c THEN p ELSE onto[n]]
        step(onto, n) == IF onto[n] = NONE THEN mapCluster(onto, ClusterOf(n)) ELSE onto
    IN  Merged("SAR", FoldLeft(step, [n \in Tasks |-> NONE], AllDequeued(list)))

\* WCM: the first clusters, of at least the average load, to a processor each
\* from the last down, the others in turn to the processors that are left.
WCMLoad(c) == MapThenSumSet(MeanExecTime, InCluster(c))
WCMList == AllDequeued(HeapOf(LAMBDA c : Item(c, Key(WCMLoad(c), 1, 0)), [c \in DOMAIN virt.clusters |-> c]))
WCMHeavy(list) ==
    LET light(c) == WCMLoad(c) * Cardinality(Procs) < MapThenSumSet(MeanExecTime, Tasks)
        first == SelectInSeq(list, light)
    IN  Min({Cardinality(Procs), IF first = 0 THEN Len(list) ELSE first - 1})
WCMMapClusters ==
    LET list == WCMList
        left == Cardinality(Procs) - WCMHeavy(list)
        onto(c) == LET i == SelectInSeq(list, LAMBDA d : d = c)
                   IN  IF i <= WCMHeavy(list) THEN Cardinality(Procs) - i ELSE (c - 1) % left
    IN  left > 0 /\ Merged("WCM", [n \in Tasks |-> onto(ClusterOf(n))])

\* With as many of them as there are processors, limit ends as zero, and the
\* last of them is mapped again, to item % limit: the program ends there.
WCMNoProcessorLeft ==
    /\ phase = "merge" /\ alg.merge = "WCM" /\ WCMHeavy(WCMList) = Cardinality(Procs)
    /\ phase' = "crashed"
    /\ OthersUnchanged /\ UNCHANGED <<virt, mapping>>

ClusterNext ==
    \/ DSCNewScheduler \/ DSCScheduleTask \/ DSCDone \/ MapNextCluster \/ AssignTasksToProcessors
    \/ GLBMergeTaskClusters \/ SARMapClusters \/ WCMMapClusters \/ WCMNoProcessorLeft
=============================================================================
