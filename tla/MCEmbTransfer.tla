--------------------------- MODULE MCEmbTransfer ---------------------------
(***************************************************************************)
(* Model checking of EmbTransfer: the programs of each run.                *)
(***************************************************************************)
EXTENDS EmbTransfer, TLC

E(s, r, n) == [sendContiguous |-> s, recvContiguous |-> r, frags |-> n]
\* One fence: what each link carries; links not given carry nothing.
Fence(loads) == [l \in Link |-> IF l \in DOMAIN loads THEN loads[l] ELSE <<>>]

Kinds(sizes) == {E(s, r, f) : s \in BOOLEAN, r \in BOOLEAN, f \in sizes}
Strided(n) == E(FALSE, FALSE, n)

Three == {0, 1, 2}
Between(ps, hosts, fences) == [procs |-> ps, pentium |-> hosts, fences |-> fences]

\* Two fences, each with one element from 0 to 1: every kind; three fragments
\* more than BPQ, so that the buffers are used again.
OneWay ==
    {Between({0, 1}, {}, <<Fence(<<0, 1>> :> <<a>>), Fence(<<0, 1>> :> <<b>>)>>) : a \in Kinds({1, 2, 6}), b \in Kinds({1})}

\* The host 0 and a Trimedia 1 send to each other, then 1 to itself as well.
WithHost ==
    {Between({0, 1}, {0},
             <<Fence(<<0, 1>> :> <<E(FALSE, c, 3), Strided(1)>> @@ <<1, 0>> :> <<b>>),
               Fence(<<0, 1>> :> <<b>> @@ <<1, 1>> :> <<Strided(2)>>)>>) :
         c \in BOOLEAN, b \in {E(d, d, 2) : d \in BOOLEAN}}

\* Three Trimedias in a ring, whose fences overlap.
Around(a, b) ==
    Between(Three, {}, <<Fence(<<0, 1>> :> <<a>> @@ <<1, 2>> :> <<b>>),
                         Fence(<<2, 0>> :> <<a>> @@ <<0, 1>> :> <<b>>)>>)
Ring == {Around(Strided(3), E(TRUE, TRUE, 1)), Around(E(FALSE, TRUE, 2), E(TRUE, FALSE, 2))}
OneWayHostRing == OneWay \union WithHost \union Ring

\* Sections with one to three dimensions, dense, spread, reversed or in another
\* order than in memory, of elements of one to four bytes, and buffers of eight.
Buffers == INSTANCE Strides WITH BUFFER_SIZE <- 8
D(i, n) == Buffers!Dim(i, n)
Shapes ==
    {<<>>} \union {<<D(i, n)>> : i \in {1, 2, -1}, n \in (1 .. 6) \union {12}}
    \union {<<D(i, n), D(j, k)>> : i \in {1, 2}, n \in {1, 3}, j \in {3, 10, -12}, k \in {2, 3}}
    \union {<<D(1, n), D(j, k), D(20, 2)>> : n \in {1, 2}, j \in {2, 6}, k \in {2, 3}}
Sections(offset) ==
    LET all == {Buffers!Section(e, offset, s) : e \in 1 .. 4, s \in Shapes}
    IN  {x \in all : Buffers!Fills(x)}

\* Two ends with as many bytes, the element that EmbTransfer makes of them, and
\* whether it arrives.
EndsAt(offset) == {Buffers!EndOf(x, Buffers!setup_scs(x)) : x \in Sections(offset)}
Ends == {<<x, y>> \in EndsAt(0) \X EndsAt(5) : x.bytes = y.bytes}
Outcomes ==
    {<<E(z[1].contiguous, z[2].contiguous, z[1].frags), Buffers!SectionArrives(z[1], z[2])>> : z \in Ends}

\* The elements that the program transfers as so many whole fragments: whatever
\* the strides at their two ends, the bytes of a section arrive in order, and
\* both ends cut them into these fragments (do_memcpy_stride_to_linear,
\* do_memcpy_linear_to_stride).
SectionsArrive ==
    \A r \in DOMAIN prog.fences : \A l \in Link : \A k \in DOMAIN prog.fences[r][l] :
        LET elem == prog.fences[r][l][k] IN {o \in Outcomes : o[1] = elem} = {<<elem, TRUE>>}
=============================================================================
