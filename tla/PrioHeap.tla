------------------------------ MODULE PrioHeap ------------------------------
(***************************************************************************)
(* The queues of the scheduler engine (engines/scheduler/data): the binary *)
(* heap of Heap.C and the heap of bounded size with a list behind it of    *)
(* PseudoHeap.C.  A heap is the sequence arr[0 .. sz - 1] of items         *)
(* [id, key]; SetIndexInHeap is the position of an item in it.             *)
(***************************************************************************)
EXTENDS Integers, SequencesExt

NONE == -1

\* A priority is num / den, then tie: the fields that MorePrioThan compares.
Key(num, den, tie) == [num |-> num, den |-> den, tie |-> tie]
Item(id, key) == [id |-> id, key |-> key]
MorePrioThan(a, b) ==
    LET x == a.key.num * b.key.den
        y == b.key.num * a.key.den
    IN  x > y \/ (x = y /\ a.key.tie > b.key.tie)
LessPrioThan(a, b) == MorePrioThan(b, a)

\* x and y are positions in the sequence: one more than the index in arr.
Exchange(arr, x, y) == [arr EXCEPT ![x] = arr[y], ![y] = arr[x]]
Child(arr, x) ==
    IF 2 * x + 1 <= Len(arr) /\ ~ MorePrioThan(arr[2 * x], arr[2 * x + 1]) THEN 2 * x + 1 ELSE 2 * x

RECURSIVE PropagateDown(_, _), PropagateUp(_, _)
PropagateDown(arr, x) ==
    IF 2 * x > Len(arr) \/ ~ LessPrioThan(arr[x], arr[Child(arr, x)]) THEN arr
    ELSE PropagateDown(Exchange(arr, x, Child(arr, x)), Child(arr, x))
PropagateUp(arr, x) ==
    IF x = 1 \/ ~ MorePrioThan(arr[x], arr[x \div 2]) THEN arr
    ELSE PropagateUp(Exchange(arr, x, x \div 2), x \div 2)

\* Mutant: the last item takes the place of the root and stays there.
DequeueNoSift(arr) == IF Len(arr) = 1 THEN <<>> ELSE [Front(arr) EXCEPT ![1] = Last(arr)]

Enqueue(arr, item) == PropagateUp(Append(arr, item), Len(arr) + 1)

\* A heap that the items of a list are put into one by one.
HeapOf(entry(_), list) == FoldLeft(LAMBDA arr, i : Enqueue(arr, entry(i)), <<>>, list)

\* Dequeue without its result, Head(arr); the heap is not empty.
Dequeue(arr) ==
    IF Len(arr) = 1 THEN <<>> ELSE PropagateDown([Front(arr) EXCEPT ![1] = Last(arr)], 1)

\* GetIndexInHeap: 0 stands for NONE.
IndexInHeap(arr, id) == SelectInSeq(arr, LAMBDA i : i.id = id)

\* RemoveItem: the last item takes its place and can only go down from it.
RemoveItem(arr, id) ==
    LET idx == IndexInHeap(arr, id)
    IN  CASE idx = 0 -> arr
          [] idx = Len(arr) -> Front(arr)
          [] OTHER -> PropagateDown([Front(arr) EXCEPT ![idx] = Last(arr)], idx)

\* SetPrio, then BalanceHeap; an item that is not in the heap has only its
\* priority set, which is given again when it is enqueued.
Rebalance(arr, id, key) ==
    LET x == IndexInHeap(arr, id)
        set == [arr EXCEPT ![x].key = key]
    IN  CASE x = 0 -> arr
          [] x > 1 /\ MorePrioThan(set[x], set[x \div 2]) -> PropagateUp(set, x)
          [] OTHER -> PropagateDown(set, x)

\* PseudoHeap: the first `size' items are in the heap, the others wait.
PseudoEnqueue(q, size, item) ==
    IF Len(q.heap) < size THEN [q EXCEPT !.heap = Enqueue(@, item)]
    ELSE [q EXCEPT !.list = Append(@, item)]
PseudoDequeue(q) ==
    LET heap == Dequeue(q.heap)
    IN  IF q.list = <<>> THEN [q EXCEPT !.heap = heap]
        ELSE [heap |-> Enqueue(heap, Head(q.list)), list |-> Tail(q.list)]

-----------------------------------------------------------------------------
\* No item has a higher priority than the one above it.
IsHeap(arr) == \A x \in 2 .. Len(arr) : ~ MorePrioThan(arr[x], arr[x \div 2])
=============================================================================
