------------------------------ MODULE MCSparGC ------------------------------
(***************************************************************************)
(* Model checking of SparGC: the heaps to start from.                      *)
(***************************************************************************)
EXTENDS SparGC, TLC

CONSTANTS a, b, c, d

\* Heap of the blocks bs with the given references.
HeapOf(bs, refs, rs) ==
    [blocks |-> bs, kids |-> [o \in Obj |-> IF o \in DOMAIN refs THEN refs[o] ELSE {}],
     roots |-> rs]

\* A tree whose references branch twice, with a cycle back to its root; two
\* roots of which one is reachable from the other, with garbage; a small heap
\* with a free block, and an empty one.
Starts ==
    {HeapOf(Obj, a :> {b, c} @@ c :> {d, a}, {a}),
     HeapOf(Obj, a :> {b, c, d} @@ d :> {a}, {a}),
     HeapOf(Obj, a :> {b} @@ b :> {c} @@ d :> {b}, {a, c}),
     HeapOf({a, b, c}, a :> {b, c}, {a}),
     HeapOf({}, <<>>, {})}
=============================================================================
