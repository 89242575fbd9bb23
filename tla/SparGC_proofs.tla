---------------------------- MODULE SparGC_proofs ----------------------------
(***************************************************************************)
(* Proofs about SparGC, for every set of objects, every size of the        *)
(* reference stack and every program.                                      *)
(*                                                                         *)
(* The inductive invariant says how far marking has come.  Marked objects  *)
(* are reachable.  While a pass runs, every root is marked or ahead of it, *)
(* and a marked object that refers to an unmarked one is still on the      *)
(* stack, or ahead of the pass over the blocks, or the overflow flag       *)
(* announces another pass.                                                 *)
(***************************************************************************)
EXTENDS SparGC, FiniteSetTheorems, TLAPS

Marking == phase \in {"roots", "blocks"}

MarkedReachable == phase # "idle" => marked \subseteq Reachable
RootsCovered ==
    /\ phase = "roots" => ahead \subseteq roots /\ roots \subseteq marked \union ahead
    /\ phase \in {"blocks", "sweep"} => roots \subseteq marked
KidsCovered ==
    /\ Marking => \A o \in marked : \/ o \in stack
                                    \/ kids[o] \subseteq marked
                                    \/ overflow
                                    \/ phase = "blocks" /\ o \in ahead
    /\ phase = "sweep" => \A o \in marked : kids[o] \subseteq marked
StackEmpty == ~Marking => stack = {}

IInv ==
    /\ TypeOK
    /\ NoDangling
    /\ MarkedReachable
    /\ RootsCovered
    /\ KidsCovered
    /\ StackEmpty

-----------------------------------------------------------------------------
(***************************************************************************)
(* The reachable objects are the least closed set.                         *)
(***************************************************************************)
LEMMA ReachableClosed == ASSUME TypeOK PROVE Closed(Reachable)
  BY DEF TypeOK, Closed, Reachable

\* Every set that holds the roots and is closed under references holds all that is reachable.
LEMMA ReachableLeast ==
  ASSUME NEW S \in SUBSET Obj, Closed(S) PROVE Reachable \subseteq S
  BY DEF Closed, Reachable

\* Steps of the collector do not change what is reachable.
LEMMA ReachableStable ==
  ASSUME UNCHANGED <<kids, roots>> PROVE Reachable' = Reachable
  BY DEF Reachable, Closed

-----------------------------------------------------------------------------
\* An empty heap satisfies the invariant,
LEMMA InitInvariant == Init => IInv
<1> SUFFICES ASSUME Init PROVE IInv
  OBVIOUS
<1> USE DEF Init, HeapInit
<1>1. PICK h \in Heaps : blocks = h.blocks /\ kids = h.kids /\ roots = h.roots
  OBVIOUS
<1>2. /\ h.blocks \subseteq Obj /\ h.roots \subseteq Obj /\ h.kids \in [Obj -> SUBSET Obj]
      /\ h.roots \subseteq h.blocks
      /\ \A o \in h.blocks : h.kids[o] \subseteq h.blocks
  BY HeapAssumption DEF Heap0
<1>3. Cardinality({}) = 0
  BY FS_EmptySet
<1>4. TypeOK
  <2>1. Cardinality(stack) <= StackSize
    BY <1>3, StackAssumption
  <2>2. blocks \subseteq Obj /\ roots \subseteq Obj /\ kids \in [Obj -> SUBSET Obj]
    BY <1>1, <1>2, Zenon
  <2> QED
    BY <2>1, <2>2 DEF TypeOK, Phases
<1>5. NoDangling
  <2>1. blocks \in SUBSET Obj /\ Closed(blocks)
    BY <1>1, <1>2 DEF Closed
  <2> QED
    BY <2>1, ReachableLeast DEF NoDangling
<1> QED
  BY <1>4, <1>5 DEF IInv, MarkedReachable, RootsCovered, KidsCovered, StackEmpty, Marking

(***************************************************************************)
(* The program keeps what it can reach inside the allocated blocks.        *)
(***************************************************************************)
LEMMA ProgramKeepsHeap ==
  ASSUME TypeOK, NoDangling, Program
  PROVE  /\ blocks' \subseteq Obj /\ roots' \subseteq Obj
         /\ kids' \in [Obj -> SUBSET Obj]
         /\ NoDangling'
<1>1. Closed(Reachable)
  BY ReachableClosed
<1> USE DEF TypeOK
<1>2. Reachable \subseteq Obj /\ Reachable \subseteq blocks
  BY DEF Reachable, NoDangling
<1>3. PICK o \in Obj : \/ Allocate(o) \/ Load(o) \/ Forget(o)
                       \/ \E p \in Obj : Store(o, p) \/ Erase(o, p)
  BY DEF Program
<1>4. ASSUME NEW S \in SUBSET Obj, roots' \subseteq S,
             \A x \in S : kids'[x] \subseteq S, S \subseteq blocks'
      PROVE  NoDangling'
  BY <1>4 DEF NoDangling, Reachable, Closed
<1>5. CASE Allocate(o)
  <2> USE <1>5 DEF Allocate
  <2>1. /\ blocks' \subseteq Obj /\ roots' \subseteq Obj
        /\ kids' \in [Obj -> SUBSET Obj]
    OBVIOUS
  <2> DEFINE S == Reachable \union {o}
  <2>2. S \in SUBSET Obj /\ S \subseteq blocks'
    BY <1>2
  <2>3. roots' \subseteq S
    BY <1>1 DEF Closed
  <2>4. ASSUME NEW x \in S PROVE kids'[x] \subseteq S
    <3>1. CASE x = o
      BY <3>1
    <3>2. CASE x # o
      BY <3>2, <1>1, <1>2 DEF Closed
    <3> QED
      BY <3>1, <3>2
  <2> HIDE DEF S
  <2>5. NoDangling'
    BY <2>2, <2>3, <2>4, <1>4
  <2> QED
    BY <2>1, <2>5
<1>6. CASE Load(o)
  <2> USE <1>6 DEF Load
  <2>1. roots' \subseteq Reachable /\ \A x \in Reachable : kids'[x] \subseteq Reachable
    BY <1>1 DEF Closed
  <2>2. NoDangling'
    BY <2>1, <1>2, <1>4
  <2> QED
    BY <2>2
<1>7. CASE Forget(o)
  <2> USE <1>7 DEF Forget
  <2>1. roots' \subseteq Reachable /\ \A x \in Reachable : kids'[x] \subseteq Reachable
    BY <1>1 DEF Closed
  <2>2. NoDangling'
    BY <2>1, <1>2, <1>4
  <2> QED
    BY <2>2
<1>8. ASSUME NEW p \in Obj, Store(o, p)
      PROVE  /\ blocks' \subseteq Obj /\ roots' \subseteq Obj
             /\ kids' \in [Obj -> SUBSET Obj]
             /\ NoDangling'
  <2> USE <1>8 DEF Store
  <2>1. kids' \in [Obj -> SUBSET Obj]
    OBVIOUS
  <2>2. roots' \subseteq Reachable /\ \A x \in Reachable : kids'[x] \subseteq Reachable
    BY <1>1, <1>2 DEF Closed
  <2>3. NoDangling'
    BY <2>2, <1>2, <1>4
  <2> QED
    BY <2>1, <2>3
<1>9. ASSUME NEW p \in Obj, Erase(o, p)
      PROVE  /\ blocks' \subseteq Obj /\ roots' \subseteq Obj
             /\ kids' \in [Obj -> SUBSET Obj]
             /\ NoDangling'
  <2> USE <1>9 DEF Erase
  <2>1. kids' \in [Obj -> SUBSET Obj]
    OBVIOUS
  <2>2. roots' \subseteq Reachable /\ \A x \in Reachable : kids'[x] \subseteq Reachable
    BY <1>1, <1>2 DEF Closed
  <2>3. NoDangling'
    BY <2>2, <1>2, <1>4
  <2> QED
    BY <2>1, <2>3
<1> QED
  BY <1>3, <1>5, <1>6, <1>7, <1>8, <1>9

(***************************************************************************)
(* pushRef: what becomes marked is on the stack, and what does not is      *)
(* announced by the overflow flag.                                         *)
(***************************************************************************)
LEMMA PushAllMarks ==
  ASSUME TypeOK, NEW S \in SUBSET Obj, NEW rest \in SUBSET marked, PushAll(S, rest)
  PROVE  /\ marked \subseteq marked' /\ marked' \subseteq marked \union S
         /\ marked' \subseteq marked \union stack'
         /\ rest \subseteq stack' /\ stack' \subseteq marked'
         /\ S \subseteq marked' \/ overflow'
         /\ overflow => overflow'
         /\ overflow' \in BOOLEAN
         /\ Cardinality(stack') <= StackSize
  BY DEF PushAll, TypeOK

\* A push on the empty stack always finds room.
LEMMA PushOneMarks ==
  ASSUME TypeOK, NEW o \in Obj, PushAll({o}, {})
  PROVE  o \in marked'
<1>1. Cardinality({}) = 0 /\ StackSize # 0
  BY FS_EmptySet, StackAssumption
<1>2. PICK P \in SUBSET ({o} \ marked) :
          /\ P = {o} \ marked \/ Cardinality({} \union P) = StackSize
          /\ marked' = marked \union P
  BY DEF PushAll
<1>3. P # {} => o \in marked'
  BY <1>2
<1>4. P = {} => {o} \ marked = {}
  BY <1>1, <1>2
<1> QED
  BY <1>2, <1>3, <1>4

-----------------------------------------------------------------------------
\* the program keeps it between collections,
LEMMA MutateInvariant == IInv /\ Mutate => IInv'
<1> SUFFICES ASSUME IInv, Mutate PROVE IInv'
  OBVIOUS
<1> USE DEF IInv
<1>1. Program /\ phase = "idle" /\ stack = {}
  BY DEF Mutate, StackEmpty, Marking
<1>2. /\ blocks' \subseteq Obj /\ roots' \subseteq Obj
      /\ kids' \in [Obj -> SUBSET Obj]
      /\ NoDangling'
  BY <1>1, ProgramKeepsHeap
<1>3. /\ phase' = "idle" /\ stack' = {} /\ marked' \subseteq marked
      /\ mutations' = mutations + 1 /\ UNCHANGED <<chain, ahead, overflow, stack>>
  BY <1>1 DEF Mutate
<1>4. TypeOK'
  BY <1>2, <1>3 DEF TypeOK, Phases
<1>5. MarkedReachable' /\ RootsCovered' /\ KidsCovered' /\ StackEmpty'
  BY <1>3 DEF MarkedReachable, RootsCovered, KidsCovered, StackEmpty, Marking
<1> QED
  BY <1>2, <1>4, <1>5

\* and so does the start of collect(),
LEMMA BeginInvariant == IInv /\ (OpenChain \/ BeginCollect) => IInv'
<1> SUFFICES ASSUME IInv, OpenChain \/ BeginCollect PROVE IInv'
  OBVIOUS
<1> USE DEF IInv
<1>1. Reachable' = Reachable
  BY ReachableStable DEF OpenChain, BeginCollect, heapVars
<1>2. stack = {}
  BY DEF OpenChain, BeginCollect, StackEmpty, Marking
<1>3. CASE OpenChain
  <2> USE <1>3 DEF OpenChain, heapVars, gcVars
  <2>1. TypeOK'
    BY DEF TypeOK
  <2>2. NoDangling'
    BY <1>1 DEF NoDangling
  <2>3. MarkedReachable' /\ RootsCovered' /\ KidsCovered' /\ StackEmpty'
    BY DEF MarkedReachable, RootsCovered, KidsCovered, StackEmpty, Marking
  <2> QED
    BY <2>1, <2>2, <2>3
<1>4. CASE BeginCollect
  <2> USE <1>4 DEF BeginCollect, heapVars
  <2>1. TypeOK'
    BY <1>2 DEF TypeOK, Phases
  <2>2. NoDangling'
    BY <1>1 DEF NoDangling
  <2>3. MarkedReachable' /\ RootsCovered' /\ KidsCovered' /\ StackEmpty'
    BY DEF MarkedReachable, RootsCovered, KidsCovered, StackEmpty, Marking
  <2> QED
    BY <2>1, <2>2, <2>3
<1> QED
  BY <1>3, <1>4

(***************************************************************************)
(* The steps that push.  marked grows inside Reachable, and a new mark is  *)
(* on the stack.                                                           *)
(***************************************************************************)
LEMMA PushInvariant ==
  ASSUME IInv, Marking,
         NEW S \in SUBSET Reachable, NEW rest \in SUBSET stack, PushAll(S, rest),
         ahead' \subseteq ahead,
         UNCHANGED <<heapVars, chain, phase, mutations>>
  PROVE  /\ TypeOK' /\ NoDangling' /\ MarkedReachable' /\ StackEmpty'
         /\ Reachable' = Reachable
         /\ marked \subseteq marked' /\ marked' \subseteq marked \union stack'
         /\ rest \subseteq stack'
         /\ S \subseteq marked' \/ overflow'
         /\ overflow => overflow'
<1> USE DEF IInv, heapVars
<1>1. Reachable' = Reachable
  BY ReachableStable
<1>2. S \in SUBSET Obj /\ rest \in SUBSET marked
  BY DEF Reachable, TypeOK
<1>3. /\ marked \subseteq marked' /\ marked' \subseteq marked \union S
      /\ marked' \subseteq marked \union stack'
      /\ rest \subseteq stack' /\ stack' \subseteq marked'
      /\ S \subseteq marked' \/ overflow'
      /\ overflow => overflow'
      /\ overflow' \in BOOLEAN
      /\ Cardinality(stack') <= StackSize
  BY <1>2, PushAllMarks
<1>4. TypeOK'
  <2>1. marked' \subseteq Obj /\ ahead' \subseteq Obj
    BY <1>2, <1>3 DEF TypeOK
  <2> QED
    BY <2>1, <1>3 DEF TypeOK
<1>5. NoDangling' /\ MarkedReachable' /\ StackEmpty'
  BY <1>1, <1>3 DEF NoDangling, MarkedReachable, StackEmpty, Marking
<1> QED
  BY <1>1, <1>3, <1>4, <1>5

\* an iteration over the roots,
LEMMA NextReferenceInvariant ==
  ASSUME IInv, NEW o \in Obj, NextReference(o) PROVE IInv'
<1> USE DEF NextReference
<1>1. o \in roots /\ o \in Reachable /\ Marking
  BY ReachableClosed DEF IInv, RootsCovered, Closed, Marking
<1>2. {o} \in SUBSET Reachable /\ stack \in SUBSET stack /\ ahead' \subseteq ahead
  BY <1>1
<1>3. /\ TypeOK' /\ NoDangling' /\ MarkedReachable' /\ StackEmpty'
      /\ marked \subseteq marked' /\ marked' \subseteq marked \union stack'
      /\ overflow => overflow'
  BY <1>1, <1>2, PushInvariant
<1>4. o \in marked'
  BY PushOneMarks DEF IInv
<1>5. RootsCovered'
  BY <1>3, <1>4 DEF IInv, RootsCovered, heapVars
<1>6. KidsCovered'
  <2> SUFFICES ASSUME NEW x \in marked', x \notin stack', ~overflow'
               PROVE  kids[x] \subseteq marked'
    BY DEF KidsCovered, Marking, heapVars
  <2>1. x \in marked /\ ~overflow /\ x \notin stack
    BY <1>3
  <2> QED
    BY <2>1, <1>3 DEF IInv, KidsCovered, Marking
<1> QED
  BY <1>3, <1>5, <1>6 DEF IInv

\* an iteration of the draining of the stack,
LEMMA DrainInvariant ==
  ASSUME IInv, NEW o \in Obj, Drain(o) PROVE IInv'
<1> USE DEF Drain
<1>1. Marking /\ o \in marked /\ o \in Reachable
  BY DEF IInv, TypeOK, MarkedReachable, Marking
<1>2. kids[o] \in SUBSET Reachable /\ stack \ {o} \in SUBSET stack /\ ahead' \subseteq ahead
  BY <1>1, ReachableClosed DEF IInv, Closed
<1>3. /\ TypeOK' /\ NoDangling' /\ MarkedReachable' /\ StackEmpty'
      /\ marked \subseteq marked' /\ marked' \subseteq marked \union stack'
      /\ stack \ {o} \subseteq stack'
      /\ kids[o] \subseteq marked' \/ overflow'
      /\ overflow => overflow'
  BY <1>1, <1>2, PushInvariant
<1>4. RootsCovered'
  BY <1>3 DEF IInv, RootsCovered, heapVars
<1>5. KidsCovered'
  <2> SUFFICES ASSUME NEW x \in marked', x \notin stack', ~overflow',
                      ~(phase = "blocks" /\ x \in ahead)
               PROVE  kids[x] \subseteq marked'
    BY <1>1 DEF KidsCovered, Marking, heapVars
  <2>1. CASE x = o
    BY <2>1, <1>3
  <2>2. CASE x # o
    <3>1. x \in marked /\ ~overflow /\ x \notin stack
      BY <2>2, <1>3
    <3> QED
      BY <3>1, <1>1, <1>3 DEF IInv, KidsCovered
  <2> QED
    BY <2>1, <2>2
<1> QED
  BY <1>3, <1>4, <1>5 DEF IInv

\* an iteration over the blocks of a recovery pass,
LEMMA NextBlockInvariant ==
  ASSUME IInv, NEW o \in Obj, NextBlock(o) PROVE IInv'
<1> USE DEF NextBlock
<1>1. Marking /\ ahead' \subseteq ahead /\ stack = {}
  BY DEF Marking
<1>2. CASE o \in marked
  <2>1. kids[o] \in SUBSET Reachable /\ stack \in SUBSET stack
    BY <1>1, <1>2, ReachableClosed DEF IInv, Closed, MarkedReachable, Marking
  <2>2. /\ TypeOK' /\ NoDangling' /\ MarkedReachable' /\ StackEmpty'
        /\ marked \subseteq marked' /\ marked' \subseteq marked \union stack'
        /\ kids[o] \subseteq marked' \/ overflow'
        /\ overflow => overflow'
    BY <1>1, <1>2, <2>1, PushInvariant
  <2>3. RootsCovered'
    BY <2>2 DEF IInv, RootsCovered, heapVars
  <2>4. KidsCovered'
    <3> SUFFICES ASSUME NEW x \in marked', x \notin stack', ~overflow', x \notin ahead'
                 PROVE  kids[x] \subseteq marked'
      BY DEF KidsCovered, Marking, heapVars
    <3>1. CASE x = o
      BY <3>1, <2>2
    <3>2. CASE x # o
      <4>1. x \in marked /\ ~overflow /\ x \notin stack /\ x \notin ahead
        BY <3>2, <2>2, <1>1
      <4> QED
        BY <4>1, <1>1, <2>2 DEF IInv, KidsCovered
    <3> QED
      BY <3>1, <3>2
  <2> QED
    BY <2>2, <2>3, <2>4 DEF IInv
<1>3. CASE o \notin marked
  <2>1. UNCHANGED <<heapVars, chain, phase, mutations, marked, stack, overflow>>
    BY <1>3
  <2>2. Reachable' = Reachable
    BY <2>1, ReachableStable DEF heapVars
  <2>3. TypeOK'
    BY <2>1, <1>1 DEF IInv, TypeOK, heapVars
  <2>4. NoDangling' /\ MarkedReachable' /\ RootsCovered' /\ StackEmpty'
    BY <2>1, <2>2
       DEF IInv, NoDangling, MarkedReachable, RootsCovered, StackEmpty, Marking, heapVars
  <2>5. KidsCovered'
    BY <2>1, <1>3 DEF IInv, KidsCovered, Marking, heapVars
  <2> QED
    BY <2>3, <2>4, <2>5 DEF IInv
<1> QED
  BY <1>2, <1>3

(***************************************************************************)
(* The end of a pass: with the flag clear, the marked objects are closed.  *)
(***************************************************************************)
LEMMA PassDoneInvariant == IInv /\ PassDone => IInv'
<1> SUFFICES ASSUME IInv, PassDone PROVE IInv'
  OBVIOUS
<1> USE DEF IInv, PassDone, heapVars
<1>1. Reachable' = Reachable
  BY ReachableStable
<1>2. Marking /\ roots \subseteq marked /\ marked \subseteq Reachable
  BY DEF Marking, RootsCovered, MarkedReachable
<1>3. phase' \in {"blocks", "sweep"} /\ ahead' \subseteq Obj
  BY DEF TypeOK
<1>4. TypeOK'
  BY <1>3 DEF TypeOK, Phases
<1>5. NoDangling' /\ MarkedReachable' /\ RootsCovered' /\ StackEmpty'
  BY <1>1, <1>2, <1>3 DEF NoDangling, MarkedReachable, RootsCovered, StackEmpty, Marking
<1>6. KidsCovered'
  <2>1. CASE overflow
    <3>1. phase' = "blocks" /\ ahead' = blocks /\ marked \subseteq blocks
      BY <2>1, <1>2 DEF NoDangling
    <3> QED
      BY <3>1 DEF KidsCovered, Marking
  <2>2. CASE ~overflow
    <3>1. phase' = "sweep" /\ \A x \in marked : kids[x] \subseteq marked
      BY <2>2, <1>2 DEF KidsCovered, Marking
    <3> QED
      BY <3>1 DEF KidsCovered, Marking
  <2> QED
    BY <2>1, <2>2
<1> QED
  BY <1>4, <1>5, <1>6

\* Then the marked objects are the reachable ones.
LEMMA SweepExact == IInv => MarksExact
<1> SUFFICES ASSUME IInv, phase = "sweep" PROVE marked = Reachable
  BY DEF MarksExact
<1>1. Closed(marked) /\ marked \in SUBSET Obj
  BY DEF IInv, Closed, RootsCovered, KidsCovered, TypeOK
<1>2. marked \subseteq Reachable
  BY DEF IInv, MarkedReachable
<1> QED
  BY <1>1, <1>2, ReachableLeast

\* and an iteration of the sweep.
LEMMA SweepInvariant ==
  ASSUME IInv, SweepDone \/ \E o \in Obj : DeleteBlock(o) PROVE IInv'
<1> USE DEF IInv
<1>1. CASE SweepDone
  <2> USE <1>1 DEF SweepDone, heapVars
  <2>1. Reachable' = Reachable
    BY ReachableStable
  <2>2. stack = {}
    BY DEF StackEmpty, Marking
  <2>3. TypeOK'
    BY DEF TypeOK, Phases
  <2> QED
    BY <2>1, <2>2, <2>3
       DEF NoDangling, MarkedReachable, RootsCovered, KidsCovered, StackEmpty, Marking
<1>2. ASSUME NEW o \in Obj, DeleteBlock(o) PROVE IInv'
  <2> USE <1>2 DEF DeleteBlock, gcVars
  <2>1. Reachable' = Reachable
    BY ReachableStable
  <2>2. o \notin Reachable
    BY SweepExact DEF MarksExact
  <2>3. TypeOK'
    BY DEF TypeOK
  <2>4. NoDangling'
    BY <2>1, <2>2 DEF NoDangling
  <2> QED
    BY <2>1, <2>3, <2>4
       DEF MarkedReachable, RootsCovered, KidsCovered, StackEmpty, Marking
<1> QED
  BY <1>1, <1>2

\* Every step of the collector keeps the invariant,
LEMMA NextInvariant == IInv /\ [Next]_vars => IInv'
<1> SUFFICES ASSUME IInv, [Next]_vars PROVE IInv'
  OBVIOUS
<1>1. CASE Mutate
  BY <1>1, MutateInvariant
<1>2. CASE OpenChain \/ BeginCollect
  BY <1>2, BeginInvariant
<1>3. CASE PassDone
  BY <1>3, PassDoneInvariant
<1>4. CASE SweepDone \/ \E o \in Obj : DeleteBlock(o)
  BY <1>4, SweepInvariant
<1>5. CASE \E o \in Obj : NextReference(o) \/ Drain(o) \/ NextBlock(o)
  BY <1>5, NextReferenceInvariant, DrainInvariant, NextBlockInvariant
<1>6. CASE UNCHANGED vars
  <2>1. Reachable' = Reachable
    BY <1>6, ReachableStable DEF vars, heapVars
  <2>2. TypeOK'
    BY <1>6 DEF vars, heapVars, gcVars, IInv, TypeOK
  <2> QED
    BY <1>6, <2>1, <2>2
       DEF vars, heapVars, gcVars, IInv, NoDangling, MarkedReachable, RootsCovered,
           KidsCovered, StackEmpty, Marking
<1> QED
  BY <1>1, <1>2, <1>3, <1>4, <1>5, <1>6 DEF Next, CollectStep

-----------------------------------------------------------------------------
\* so it holds always.
LEMMA Invariant == Spec => []IInv
  BY InitInvariant, NextInvariant, PTL DEF Spec

\* Types are as declared, and the reference stack never exceeds STACKSIZE.
THEOREM TypeCorrect == Spec => []TypeOK
<1>1. IInv => TypeOK
  BY DEF IInv
<1> QED
  BY <1>1, Invariant, PTL

\* No collection, whatever the program did before and however often the
\* reference stack overflowed, frees an object that the program can reach.
THEOREM CollectorSafe == Spec => []NoDangling
<1>1. IInv => NoDangling
  BY DEF IInv
<1> QED
  BY <1>1, Invariant, PTL

\* When marking ends, the marked blocks are exactly the reachable ones: all
\* garbage is freed by the sweep that follows.
THEOREM CollectorExact == Spec => []MarksExact
  BY Invariant, SweepExact, PTL

\* Before a pass over the block list, all roots were marked.
THEOREM RecoveryHasRoots == Spec => []RootsMarked
<1>1. IInv => RootsMarked
  BY DEF IInv, RootsCovered, RootsMarked
<1> QED
  BY <1>1, Invariant, PTL

\* The collector implements Heap: every step of it is a step of the program,
\* frees an unreachable block, or changes nothing the program can see.
THEOREM CollectorImplements == Spec => AbstractSpec
<1>1. Init => HeapInit
  BY DEF Init
<1>2. ASSUME IInv, [Next]_vars
      PROVE  [Program \/ \E o \in Obj : Reclaim(o)]_heapVars
  <2>1. CASE Mutate
    BY <2>1 DEF Mutate
  <2>2. ASSUME NEW o \in Obj, DeleteBlock(o) PROVE Reclaim(o)
    BY <1>2, <2>2, SweepExact DEF MarksExact, DeleteBlock, Reclaim
  <2>3. CASE OpenChain \/ BeginCollect \/ PassDone \/ SweepDone
    BY <2>3 DEF OpenChain, BeginCollect, PassDone, SweepDone
  <2>4. CASE \E o \in Obj : NextReference(o) \/ Drain(o) \/ NextBlock(o)
    BY <2>4 DEF NextReference, Drain, NextBlock
  <2>5. CASE UNCHANGED vars
    BY <2>5 DEF vars
  <2> QED
    BY <1>2, <2>1, <2>2, <2>3, <2>4, <2>5 DEF Next, CollectStep
<1> QED
  BY <1>1, <1>2, Invariant, PTL DEF Spec, AbstractSpec, HeapSpec
=============================================================================
