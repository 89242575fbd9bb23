-------------------------------- MODULE Heap --------------------------------
(***************************************************************************)
(* The heap of a Spar program, and what garbage collection promises it: a  *)
(* block is freed only when the program cannot reach it.                   *)
(*                                                                         *)
(* kids[o] are the objects that the reference fields (or the elements) of  *)
(* block o refer to, as the generated marking method of o enumerates them; *)
(* roots are the objects that the chain of __gc_reflink records of the     *)
(* active methods refers to.  Null references are left out of both.        *)
(***************************************************************************)
EXTENDS Integers, FiniteSets

CONSTANTS
    Obj,        \* the names (addresses) blocks can have
    MaxFields,  \* bound: objects that one object refers to
    Heaps       \* the heaps to start from: [blocks, kids, roots]

Heap0 == [blocks : SUBSET Obj, kids : [Obj -> SUBSET Obj], roots : SUBSET Obj]
ASSUME HeapAssumption ==
    \A h \in Heaps : /\ h \in Heap0
                     /\ h.roots \subseteq h.blocks
                     /\ \A o \in h.blocks : h.kids[o] \subseteq h.blocks

VARIABLES
    blocks,     \* the allocated blocks, the list gc_blocks
    kids,       \* what each block refers to
    roots       \* the references of active methods

heapVars == <<blocks, kids, roots>>

\* A set that contains all the program can reach.
Closed(S) == roots \subseteq S /\ \A o \in S : kids[o] \subseteq S
Reachable == {o \in Obj : \A S \in SUBSET Obj : Closed(S) => o \in S}

HeapInit == \E h \in Heaps : blocks = h.blocks /\ kids = h.kids /\ roots = h.roots

(***************************************************************************)
(* The program: it gets hold only of what it can reach.                    *)
(***************************************************************************)
Allocate(o) ==
    /\ o \notin blocks
    /\ blocks' = blocks \union {o}
    /\ kids' = [kids EXCEPT ![o] = {}]
    /\ roots' = roots \union {o}

Store(o, p) ==
    /\ o \in Reachable /\ p \in Reachable
    /\ Cardinality(kids[o] \union {p}) <= MaxFields
    /\ kids' = [kids EXCEPT ![o] = @ \union {p}]
    /\ UNCHANGED <<blocks, roots>>

Erase(o, p) ==
    /\ o \in Reachable
    /\ kids' = [kids EXCEPT ![o] = @ \ {p}]
    /\ UNCHANGED <<blocks, roots>>

Load(o) ==
    /\ o \in Reachable
    /\ roots' = roots \union {o}
    /\ UNCHANGED <<blocks, kids>>

Forget(o) ==
    /\ roots' = roots \ {o}
    /\ UNCHANGED <<blocks, kids>>

Program ==
    \E o \in Obj : \/ Allocate(o) \/ Load(o) \/ Forget(o)
                   \/ \E p \in Obj : Store(o, p) \/ Erase(o, p)

(***************************************************************************)
(* The collector.                                                          *)
(***************************************************************************)
Reclaim(o) ==
    /\ o \in blocks \ Reachable
    /\ blocks' = blocks \ {o}
    /\ UNCHANGED <<kids, roots>>

HeapSpec == HeapInit /\ [][Program \/ \E o \in Obj : Reclaim(o)]_heapVars
=============================================================================
