-------------------------- MODULE Schedule_proofs --------------------------
(***************************************************************************)
(* Proofs about Schedule: what every scheduler decides can be carried out. *)
(***************************************************************************)
EXTENDS Schedule, TLAPS

\* The tasks and the edges stay what they are, and belong together.
Shape ==
    /\ graph \in Graphs
    /\ DOMAIN placed = Tasks

IInv == Shape /\ Feasible

\* An edge joins two tasks.
LEMMA EdgeEnds ==
    ASSUME GraphsOK, graph \in Graphs, NEW e \in Edges
    PROVE  e.from \in Tasks /\ e.to \in Tasks
  BY DEF GraphsOK, Edges, Tasks

\* In the beginning nothing is placed.
LEMMA InitIInv ==
    ASSUME GraphsOK, Init
    PROVE  IInv
<1>1. Shape
  BY DEF Init, Shape, Tasks
<1>2. \A n \in Tasks : ~ IsPlaced(n)
  BY DEF Init, IsPlaced, Tasks
<1>3. OneAtATime
  BY <1>2 DEF OneAtATime
<1>4. MessagesInTime
  BY <1>1, <1>2, EdgeEnds DEF MessagesInTime, Shape
<1> QED
  BY <1>1, <1>3, <1>4 DEF IInv, Feasible

\* Placing a task changes that task only.
LEMMA PlaceChanges ==
    ASSUME Shape, NEW n \in Tasks, NEW p, Place(n, p)
    PROVE  /\ Shape'
           /\ Tasks' = Tasks /\ Edges' = Edges
           /\ \A m \in Tasks : m # n => placed'[m] = placed[m]
           /\ placed'[n].proc = p
  BY DEF Shape, Place, Tasks, Edges

\* It starts behind what is on its processor, and when its messages are there.
LEMMA PlaceBehind ==
    ASSUME Shape, NEW n \in Tasks, NEW p, Place(n, p)
    PROVE  /\ \A m \in Tasks : IsPlaced(m) /\ placed[m].proc = p =>
                 placed[m].finish <= placed'[n].start
           /\ \A e \in Edges : e.to = n =>
                 placed[e.from].finish + Delay(e, placed[e.from].proc, p) <= placed'[n].start
<1>1. PICK start \in Times :
        /\ \A e \in Edges : e.to = n =>
              placed[e.from].finish + Delay(e, placed[e.from].proc, p) <= start
        /\ \A m \in DOMAIN graph.flops : IsPlaced(m) /\ placed[m].proc = p => placed[m].finish <= start
        /\ placed' = [placed EXCEPT ![n] = [proc |-> p, start |-> start,
                                          finish |-> start + (graph.flops[n] \div graph.speed[p])]]
  BY DEF Place
<1>2. placed'[n].start = start
  BY <1>1 DEF Shape, Tasks
<1> QED
  BY <1>1, <1>2 DEF Tasks

\* A step keeps the schedule feasible: the new task comes after all that is on
\* its processor, and no task that is placed already waits for it.
LEMMA PlaceFeasible ==
    ASSUME GraphsOK, IInv, NEW n \in Tasks, NEW p, Place(n, p)
    PROVE  Feasible'
<1>0. /\ Tasks' = Tasks /\ Edges' = Edges
      /\ \A m \in Tasks : m # n => placed'[m] = placed[m]
      /\ placed'[n].proc = p
  BY PlaceChanges DEF IInv
<1>1. ~ IsPlaced(n)
  BY DEF Place
<1>2. \A m \in Tasks : m # n => (IsPlaced(m)' <=> IsPlaced(m))
  BY <1>0 DEF IsPlaced
<1>3. OneAtATime'
  <2> SUFFICES ASSUME NEW k \in Tasks, NEW m \in Tasks,
                      IsPlaced(k)', IsPlaced(m)', k # m, placed'[k].proc = placed'[m].proc
               PROVE  placed'[k].finish <= placed'[m].start \/ placed'[m].finish <= placed'[k].start
    BY <1>0 DEF OneAtATime
  <2>1. CASE k = n
    <3>1. IsPlaced(m) /\ placed[m].proc = p
      BY <2>1, <1>0, <1>2
    <3>2. placed[m].finish <= placed'[n].start
      BY <3>1, PlaceBehind DEF IInv
    <3> QED
      BY <2>1, <3>2, <1>0
  <2>2. CASE m = n
    <3>1. IsPlaced(k) /\ placed[k].proc = p
      BY <2>2, <1>0, <1>2
    <3>2. placed[k].finish <= placed'[n].start
      BY <3>1, PlaceBehind DEF IInv
    <3> QED
      BY <2>2, <3>2, <1>0
  <2>3. CASE k # n /\ m # n
    BY <2>3, <1>0, <1>2 DEF IInv, Feasible, OneAtATime
  <2> QED
    BY <2>1, <2>2, <2>3
<1>4. MessagesInTime'
  <2> SUFFICES ASSUME NEW e \in Edges, IsPlaced(e.to)'
               PROVE  /\ IsPlaced(e.from)'
                      /\ placed'[e.from].finish + Delay(e, placed'[e.from].proc, placed'[e.to].proc)
                            <= placed'[e.to].start
    BY <1>0 DEF MessagesInTime
  <2>1. e.from \in Tasks /\ e.to \in Tasks
    BY EdgeEnds DEF IInv, Shape
  <2>2. IsPlaced(e.from) /\ e.from # n
    <3>1. CASE e.to = n
      BY <3>1, <1>1 DEF Place
    <3>2. CASE e.to # n
      BY <3>2, <2>1, <1>1, <1>2 DEF IInv, Feasible, MessagesInTime
    <3> QED
      BY <3>1, <3>2
  <2>3. placed'[e.from] = placed[e.from]
    BY <2>1, <2>2, <1>0
  <2>4. placed[e.from].finish + Delay(e, placed[e.from].proc, placed'[e.to].proc)
          <= placed'[e.to].start
    <3>1. CASE e.to = n
      BY <3>1, <1>0, PlaceBehind DEF IInv
    <3>2. CASE e.to # n
      BY <3>2, <2>1, <1>0, <1>2 DEF IInv, Feasible, MessagesInTime
    <3> QED
      BY <3>1, <3>2
  <2>5. IsPlaced(e.from)'
    BY <2>2, <2>3 DEF IsPlaced
  <2> QED
    BY <2>3, <2>4, <2>5
<1> QED
  BY <1>3, <1>4 DEF Feasible

\* The invariant holds in every step.
LEMMA NextIInv ==
    ASSUME GraphsOK, IInv, [Next]_vars
    PROVE  IInv'
<1>1. CASE Next
  <2> PICK n \in Tasks, p \in DOMAIN graph.speed : Place(n, p)
    BY <1>1 DEF Next, Tasks
  <2> QED
    BY PlaceFeasible, PlaceChanges DEF IInv
<1>2. CASE UNCHANGED vars
  BY <1>2 DEF vars, IInv, Shape, Feasible, OneAtATime, MessagesInTime, Tasks, Edges, IsPlaced, Delay
<1> QED
  BY <1>1, <1>2

\* At every moment the tasks that are placed do not overlap on a processor and
\* come after the messages they need, for all graphs and processors.
THEOREM FeasibleAlways ==
    ASSUME GraphsOK
    PROVE  Spec => []Feasible
<1>1. Init => IInv
  BY InitIInv
<1>2. IInv /\ [Next]_vars => IInv'
  BY NextIInv
<1>3. IInv => Feasible
  BY DEF IInv
<1> QED
  BY <1>1, <1>2, <1>3, PTL DEF Spec

\* No scheduler takes back where and when it put a task.
THEOREM DecidedAlways ==
    ASSUME GraphsOK
    PROVE  Spec => Decided
<1>1. Init => IInv
  BY InitIInv
<1>2. IInv /\ [Next]_vars => IInv'
  BY NextIInv
<1>3. IInv /\ [Next]_vars => [\A n \in Tasks : IsPlaced(n) => placed'[n] = placed[n]]_vars
  <2> SUFFICES ASSUME IInv, Next, NEW m \in Tasks, IsPlaced(m)
               PROVE  placed'[m] = placed[m]
    OBVIOUS
  <2> PICK n \in Tasks, p \in DOMAIN graph.speed : Place(n, p)
    BY DEF Next, Tasks
  <2>1. m # n
    BY DEF Place
  <2> QED
    BY <2>1, PlaceChanges DEF IInv
<1> QED
  BY <1>1, <1>2, <1>3, PTL DEF Spec, Decided
=============================================================================
