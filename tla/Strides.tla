------------------------------ MODULE Strides ------------------------------
(***************************************************************************)
(* The Stride-Copy Manager of backends/runtime/embedded/ensemble.c: a      *)
(* strided section of an array is copied to or from buffers, one buffer at *)
(* a call.  An address is a number of bytes from the base of the array.    *)
(***************************************************************************)
EXTENDS Integers, SequencesExt

CONSTANT BUFFER_SIZE     \* a number of bytes, at least 1

\* The arguments of emb_send and emb_recv; the first dimension varies fastest.
Section(elmSz, offset, dims) == [elmSz |-> elmSz, offset |-> offset, dims |-> dims]
Dim(increment, count) == [increment |-> increment, count |-> count]

Product(s) == FoldLeft(LAMBDA x, y : x * y, 1, s)

\* Strides s and counts c in bytes, with neighbouring dimensions collapsed.
Collapsed(section) ==
    LET add(levels, dim) ==
            LET n == Len(levels)
                incr == dim.increment * section.elmSz
            IN  CASE dim.count = 1 -> levels
                  [] dim.count # 1 /\ incr = levels[n].c * levels[n].s ->
                         [levels EXCEPT ![n].c = @ * dim.count]
                  [] dim.count # 1 /\ incr # levels[n].c * levels[n].s ->
                         Append(levels, [s |-> incr, c |-> dim.count])
    IN  FoldLeft(add, <<[s |-> 1, c |-> section.elmSz]>>, section.dims)

\* setup_scs: the innermost dimension becomes one of words when it can.
setup_scs(section) ==
    LET all == Collapsed(section)
        size == all[1].c
        elmSz == IF size % 4 = 0 THEN 4 ELSE size
        inner == size \div elmSz
        levels == IF inner = 1 THEN Tail(all) ELSE <<[s |-> elmSz, c |-> inner]>> \o Tail(all)
        counts == [k \in DOMAIN levels |-> levels[k].c]
    IN  [ptr |-> section.offset * section.elmSz, elmSz |-> elmSz, i |-> counts, c |-> counts,
         d |-> [k \in DOMAIN levels |->
                   IF k = 1 THEN levels[1].s ELSE levels[k].s - levels[k - 1].c * levels[k - 1].s],
         remaining |-> elmSz * Product(counts), finished |-> FALSE, contiguous |-> Len(all) = 1]

\* At the end of a row: the dimensions that end with it start again, and the
\* next one is a step further.  `ends' counts them.
RowEnds(scs) ==
    CHOOSE z \in DOMAIN scs.c :
        /\ z = Len(scs.c) \/ scs.i[z + 1] # 1
        /\ \A y \in 1 .. z - 1 : scs.i[y + 1] = 1

\* Mutant: the pointer moves as if one dimension only had come to its end.
NextRowOneStep(scs) ==
    LET ends == RowEnds(scs)
    IN  [scs EXCEPT !.i = [k \in DOMAIN @ |-> CASE k <= ends -> scs.c[k]
                                                [] k = ends + 1 -> @[k] - 1
                                                [] k > ends + 1 -> @[k]],
                    !.ptr = @ + IF ends < Len(scs.d) THEN scs.d[ends + 1] ELSE 0]

NextRow(scs) ==
    LET ends == RowEnds(scs)
        steps == SubSeq(scs.d, 2, IF ends < Len(scs.d) THEN ends + 1 ELSE ends)
    IN  [scs EXCEPT !.i = [k \in DOMAIN @ |-> CASE k <= ends -> scs.c[k]
                                                [] k = ends + 1 -> @[k] - 1
                                                [] k > ends + 1 -> @[k]],
                    !.ptr = @ + FoldLeft(LAMBDA x, y : x + y, 0, steps)]

Moved(scs, elements) ==
    [scs EXCEPT !.remaining = @ - scs.elmSz * Len(elements),
                !.finished = (scs.remaining = scs.elmSz * Len(elements))]

\* The loop of both copy functions: the addresses of the elements it copies,
\* after those of `elements', and the state it leaves.
RECURSIVE CopyRows(_, _, _)
CopyRows(scs, maxElm, elements) ==
    LET room == maxElm - Len(elements)
        count == IF scs.i[1] < room THEN scs.i[1] ELSE room
        copied == elements \o [k \in 1 .. count |-> scs.ptr + (k - 1) * scs.d[1]]
        after == [scs EXCEPT !.i[1] = @ - count, !.ptr = @ + count * scs.d[1]]
    IN  CASE Len(copied) >= maxElm -> [scs |-> Moved(after, copied), elements |-> copied]
          [] Len(copied) < maxElm /\ RowEnds(after) = Len(after.c) ->
                 [scs |-> Moved(NextRow(after), copied), elements |-> copied]
          [] Len(copied) < maxElm /\ RowEnds(after) < Len(after.c) ->
                 CopyRows(NextRow(after), maxElm, copied)

\* do_memcpy_stride_to_linear and do_memcpy_linear_to_stride.
CopyBuffer(scs, maxBytes) ==
    IF scs.c = <<>>
    THEN [scs |-> [scs EXCEPT !.remaining = 0, !.finished = TRUE], elements |-> <<scs.ptr>>]
    ELSE CopyRows(scs, maxBytes \div scs.elmSz, <<>>)

Bytes(elements, elmSz) ==
    FlattenSeq([k \in DOMAIN elements |-> [b \in 1 .. elmSz |-> elements[k] + b - 1]])

\* The calls of one end, up to the one that finishes: what each copies.
RECURSIVE Fragments(_)
Fragments(scs) ==
    LET copy == CopyBuffer(scs, BUFFER_SIZE)
        fragment == Bytes(copy.elements, scs.elmSz)
    IN  IF copy.scs.finished THEN <<fragment>> ELSE <<fragment>> \o Fragments(copy.scs)

\* A contiguous end that is not copied through buffers (cases 203 and 303).
RECURSIVE DirectFragments(_)
DirectFragments(scs) ==
    LET sz == IF scs.remaining > BUFFER_SIZE THEN BUFFER_SIZE ELSE scs.remaining
        fragment == [b \in 1 .. sz |-> scs.ptr + b - 1]
    IN  IF scs.remaining = sz THEN <<fragment>>
        ELSE <<fragment>> \o DirectFragments([scs EXCEPT !.remaining = @ - sz, !.ptr = @ + sz])

-----------------------------------------------------------------------------
\* The bytes of a section in the order of its elements.
Elements(section) == Product([k \in DOMAIN section.dims |-> section.dims[k].count])
Index(section, n, k) ==
    (n \div Product([j \in 1 .. k - 1 |-> section.dims[j].count])) % section.dims[k].count
InOrder(section) ==
    LET place(n) == FoldLeft(LAMBDA x, y : x + y, section.offset,
                        [k \in DOMAIN section.dims |-> Index(section, n, k) * section.dims[k].increment])
    IN  Bytes([n \in 1 .. Elements(section) |-> section.elmSz * place(n - 1)], section.elmSz)

\* A buffer holds a whole number of the elements that setup_scs chose, as those
\* that fill their buffers need.
Fills(section) == BUFFER_SIZE % setup_scs(section).elmSz = 0

Cuts(scs) == {Fragments(scs)} \cup (IF scs.contiguous THEN {DirectFragments(scs)} ELSE {})

\* What an end of a transfer does with its section: whether it goes through
\* the elements in order, and the sizes of the fragments that it cuts them into.
End(section, scs, cuts) ==
    [bytes |-> section.elmSz * Elements(section),
     contiguous |-> scs.contiguous,
     frags |-> Len(Fragments(scs)),
     inOrder |-> {FlattenSeq(cut) : cut \in cuts} = {InOrder(section)},
     sizes |-> {[k \in DOMAIN cut |-> Len(cut[k])] : cut \in cuts}]
EndOf(section, scs) == End(section, scs, Cuts(scs))

\* Whatever the strides of the two ends, and whether a contiguous end goes
\* through buffers or not, every element arrives at its place: each end goes
\* through its section in order, and both are cut at the same places.
SectionArrives(from, to) ==
    /\ from.inOrder /\ to.inOrder
    /\ \A sent \in from.sizes, received \in to.sizes :
           sent = received /\ \A k \in DOMAIN sent : sent[k] \in 1 .. BUFFER_SIZE
=============================================================================
