------------------------------- MODULE SparGC -------------------------------
(***************************************************************************)
(* The mark and sweep collector of Spar: frontends/sparlib/.../GC.spar,    *)
(* which drives the block list, the mark flags and the reference stack of  *)
(* backends/runtime/vnusalloc.cc.                                          *)
(*                                                                         *)
(* collect() resets all marks, then pushes every root and drains the stack *)
(* after each.  A reference that finds the stack full is dropped, and a    *)
(* flag set; as long as a pass ended with the flag set, another pass over  *)
(* the block list follows, in which every marked block is processed again. *)
(* At last all blocks without a mark are deleted.                          *)
(*                                                                         *)
(* The program stands still during a collection.  The order of the roots,  *)
(* of the block list, of the fields of a block and of the stack is left    *)
(* open: an object is pushed only when it is not marked, so the stack      *)
(* holds it at most once and is a set here.                                *)
(***************************************************************************)
EXTENDS Heap

CONSTANTS
    StackSize,      \* STACKSIZE
    MaxMutations    \* bound: steps of the program

ASSUME StackAssumption == StackSize \in Nat \ {0}
ASSUME ObjAssumption == IsFiniteSet(Obj)
ASSUME MutationsAssumption == MaxMutations \in Nat

VARIABLES
    chain,      \* thereIsARootSet(): __gc_reflink_chain is set
    phase,      \* where collect() is, or "idle"
    ahead,      \* the roots, or blocks, that the current pass still has to visit
    marked,     \* the blocks with GCFLAG_MARK
    stack,      \* the reference stack
    overflow,   \* stackoverflow
    mutations   \* steps of the program so far

gcVars == <<phase, ahead, marked, stack, overflow>>
vars == <<heapVars, chain, gcVars, mutations>>

Init ==
    /\ HeapInit
    /\ chain = FALSE
    /\ phase = "idle"
    /\ ahead = {}
    /\ marked = {}
    /\ stack = {}
    /\ overflow = FALSE
    /\ mutations = 0

\* The start of main() opens the chain of root sets.
OpenChain ==
    /\ phase = "idle"
    /\ chain' = TRUE
    /\ UNCHANGED <<heapVars, gcVars, mutations>>

\* A fresh block has no mark.
Mutate ==
    /\ phase = "idle"
    /\ mutations < MaxMutations
    /\ mutations' = mutations + 1
    /\ Program
    /\ marked' = marked \ (blocks' \ blocks)
    /\ UNCHANGED <<chain, phase, ahead, stack, overflow>>

\* Mutant: pushes while stackptr <= STACKSIZE.
PushAllOverrun(S, rest) ==
    LET new == S \ marked IN
    \E P \in SUBSET new :
        /\ Cardinality(rest \union P) <= StackSize + 1
        /\ P = new \/ Cardinality(rest \union P) = StackSize + 1
        /\ stack' = rest \union P
        /\ marked' = marked \union P
        /\ overflow' = (overflow \/ P # new)

\* pushRef of each object in S, on top of a stack that holds `rest'.
PushAll(S, rest) ==
    LET new == S \ marked IN
    \E P \in SUBSET new :
        /\ Cardinality(rest \union P) <= StackSize
        /\ P = new \/ Cardinality(rest \union P) = StackSize
        /\ stack' = rest \union P
        /\ marked' = marked \union P
        /\ overflow' = (overflow \/ P # new)

\* Mutant: the marks of the previous collection are kept.
BeginCollectNoReset ==
    /\ phase = "idle"
    /\ chain
    /\ phase' = "roots"
    /\ ahead' = roots
    /\ overflow' = FALSE
    /\ UNCHANGED <<heapVars, chain, marked, stack, mutations>>

\* collect() up to its first loop; without a root set it does nothing.
BeginCollect ==
    /\ phase = "idle"
    /\ chain
    /\ phase' = "roots"
    /\ ahead' = roots
    /\ marked' = {}
    /\ overflow' = FALSE
    /\ UNCHANGED <<heapVars, chain, stack, mutations>>

\* One iteration of markFromActiveRefs, up to drainRefStack.
NextReference(o) ==
    /\ phase = "roots"
    /\ stack = {}
    /\ o \in ahead
    /\ ahead' = ahead \ {o}
    /\ PushAll({o}, stack)
    /\ UNCHANGED <<heapVars, chain, phase, mutations>>

\* One iteration of drainRefStack.
Drain(o) ==
    /\ phase \in {"roots", "blocks"}
    /\ o \in stack
    /\ PushAll(kids[o], stack \ {o})
    /\ UNCHANGED <<heapVars, chain, phase, ahead, mutations>>

\* One iteration of markFromBlockSet, up to drainRefStack.
NextBlock(o) ==
    /\ phase = "blocks"
    /\ stack = {}
    /\ o \in ahead
    /\ ahead' = ahead \ {o}
    /\ IF o \in marked THEN PushAll(kids[o], stack) ELSE UNCHANGED <<marked, stack, overflow>>
    /\ UNCHANGED <<heapVars, chain, phase, mutations>>

\* Mutant: overflow is not looked at.
PassDoneNoRecovery ==
    /\ phase \in {"roots", "blocks"}
    /\ stack = {}
    /\ ahead = {}
    /\ phase' = "sweep" /\ ahead' = {}
    /\ overflow' = FALSE
    /\ UNCHANGED <<heapVars, chain, marked, stack, mutations>>

\* Mutant: the flag is not cleared before the next pass.
PassDoneFlagKept ==
    /\ phase \in {"roots", "blocks"}
    /\ stack = {}
    /\ ahead = {}
    /\ IF overflow THEN phase' = "blocks" /\ ahead' = blocks
                   ELSE phase' = "sweep" /\ ahead' = {}
    /\ UNCHANGED <<heapVars, chain, marked, stack, overflow, mutations>>

\* The test of the while in collect(), after a pass over roots or blocks.
PassDone ==
    /\ phase \in {"roots", "blocks"}
    /\ stack = {}
    /\ ahead = {}
    /\ IF overflow THEN phase' = "blocks" /\ ahead' = blocks
                   ELSE phase' = "sweep" /\ ahead' = {}
    /\ overflow' = FALSE
    /\ UNCHANGED <<heapVars, chain, marked, stack, mutations>>

\* One iteration of sweepUnmarkedBlocks: finalize and delete.
DeleteBlock(o) ==
    /\ phase = "sweep"
    /\ o \in blocks \ marked
    /\ blocks' = blocks \ {o}
    /\ UNCHANGED <<kids, roots, chain, gcVars, mutations>>

SweepDone ==
    /\ phase = "sweep"
    /\ blocks \subseteq marked
    /\ phase' = "idle"
    /\ UNCHANGED <<heapVars, chain, ahead, marked, stack, overflow, mutations>>

CollectStep ==
    \/ PassDone \/ SweepDone
    \/ \E o \in Obj : NextReference(o) \/ Drain(o) \/ NextBlock(o) \/ DeleteBlock(o)

Next == OpenChain \/ Mutate \/ BeginCollect \/ CollectStep

\* collect() runs on; nothing makes the program take a step or collect.
Spec == Init /\ [][Next]_vars /\ WF_vars(CollectStep)

-----------------------------------------------------------------------------
(***************************************************************************)
(* Properties.                                                             *)
(***************************************************************************)
Phases == {"idle", "roots", "blocks", "sweep"}

\* Types; the stack never holds more than its array has room for, and only
\* marked blocks.
TypeOK ==
    /\ blocks \subseteq Obj /\ roots \subseteq Obj
    /\ kids \in [Obj -> SUBSET Obj]
    /\ chain \in BOOLEAN /\ overflow \in BOOLEAN
    /\ phase \in Phases
    /\ ahead \subseteq Obj /\ marked \subseteq Obj
    /\ stack \subseteq marked
    /\ Cardinality(stack) <= StackSize
    /\ mutations \in Nat

\* What the program can reach is never freed, through any sequence of
\* allocations, stores and collections.
NoDangling == Reachable \subseteq blocks

\* The comment in collect(): when the recovery passes begin, all active
\* references were marked, overflow or not.
RootsMarked == phase = "blocks" => roots \subseteq marked

\* When marking ends, exactly the reachable blocks are marked, however often
\* the stack overflowed: nothing reachable is deleted, nothing else survives.
MarksExact == phase = "sweep" => marked = Reachable

\* The comment in collect(): the loop of recovery passes terminates, and with
\* it every collection.
CollectReturns == phase # "idle" ~> phase = "idle"

\* The collector implements the promise of Heap.
AbstractSpec == HeapSpec
=============================================================================
