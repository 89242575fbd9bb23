------------------------------ MODULE Sections ------------------------------
(***************************************************************************)
(* Loops over a distributed array.  The mapper turns                       *)
(*     foreach [x: l:u:s] if (p owns A[a * x + b]) body                    *)
(* into loops over the x that p owns only (engines/mapper: normalise_      *)
(* cardinalities in service.cc, applyoa5.ct, applyio3.ct), with bounds     *)
(* that the run-time system computes (backends/runtime/vnusrtl.h).         *)
(***************************************************************************)
EXTENDS Service, SequencesExt

\* A distribution of one dimension: block, cyclic, or blocks dealt out (bc).
Block(size, extent) == [kind |-> "block", size |-> size, extent |-> extent]
Cyclic(extent) == [kind |-> "cyclic", size |-> 1, extent |-> extent]
BlockCyclic(size, extent) == [kind |-> "bc", size |-> size, extent |-> extent]

\* gen_inline: the processor that owns an index.
GenInline(d, index) ==
    CASE d.kind = "block" -> Quot(index, d.size)
      [] d.kind = "cyclic" -> Rem(index, d.extent)
      [] d.kind = "bc" -> Rem(Quot(index, d.size), d.extent)

\* A loop over x = lower, lower + stride, ... below upper, as `count' rounds of a
\* new variable u, with x the secondary lower + u * stride of that.
Normalised(loop) ==
    [count |-> Quot(loop.upper - loop.lower + loop.stride - 1, loop.stride),
     lower |-> loop.lower, stride |-> loop.stride]

\* extract_lineair: the index a * x + b in terms of the new variable.
Linear(card, index) ==
    [a |-> index.a * card.stride, b |-> index.a * card.lower + index.b]

\* The iterations that a processor has, as rounds of a loop: n of them, from
\* `offset' in steps of `di'; by the bounds HACK never a negative number.
Larger(x, y) == IF x < y THEN y ELSE x
Smaller(x, y) == IF x < y THEN x ELSE y
Rounds(it, offset, di) == [n |-> Larger(0, it.n), offset |-> offset + it.shift * di, di |-> di]

\* Mutant: the last elements are not cut off at the end of the loop.
vnus_blusUncut(m, a, b, ni, p) ==
    LET start == m * p
    IN  Rounds(IF a > 0 THEN iterations(Larger(start, b) - b, start + m - b, a)
               ELSE iterations(Smaller(start + m, b) - b, Larger(start, a * ni + b) - b, a), 0, 1)

vnus_blus(m, a, b, ni, p) ==
    LET start == m * p
        stopelm == a * ni + b
    IN  Rounds(IF a > 0 THEN iterations(Larger(start, b) - b, Smaller(start + m, stopelm) - b, a)
               ELSE iterations(Smaller(start + m, b) - b, Larger(start, stopelm) - b, a), 0, 1)

vnus_clus(np, a, b, ni, p) ==
    LET from(t, dx) == Rounds(iterations(- t, ni - t, dx), t, dx)
        owned(e) == IF Rem(p - b, e.g) = 0 THEN from(e.x0 * ceildiv(p - b, e.g), e.dx)
                    ELSE [n |-> 0, offset |-> 0, di |-> 1]
    IN  owned(euclid(a, np))

vnus_bclus1(m, np, a, b, p) ==
    LET offset1 == b - m * p
        outer(it, e) == [n_u1 |-> Larger(0, it.n), i0 |-> e.x0, j1_low |-> it.shift, di |-> e.dx]
        owned(e) == outer(iterations(- offset1, m - offset1, e.g), e)
    IN  owned(euclid(a, np * m))

vnus_bclus2(u1, i0, j1_low, ni, di) ==
    LET t == i0 * u1 + i0 * j1_low
    IN  Rounds(iterations(- t, ni - t, di), t, di)

\* The secondary when u is the variable offset + di * u' of n rounds
\* (update_secondaries).
Inner(card, rounds) ==
    [count |-> rounds.n, lower |-> card.lower + rounds.offset * card.stride,
     stride |-> rounds.di * card.stride]

\* gen_blus_code, gen_clus_code, gen_bclus_code: the loops that run, one after
\* the other, when the condition that p owns the index goes into the loop.
Absorbed(d, card, index, p) ==
    LET inner(outer) ==
            [u1 \in 1 .. outer.n_u1 |->
                Inner(card, vnus_bclus2(u1 - 1, outer.i0, outer.j1_low, card.count, outer.di))]
        loops(lin) ==
            CASE d.kind = "block" -> <<Inner(card, vnus_blus(d.size, lin.a, lin.b, card.count, p))>>
              [] d.kind = "cyclic" -> <<Inner(card, vnus_clus(d.extent, lin.a, lin.b, card.count, p))>>
              [] d.kind = "bc" -> inner(vnus_bclus1(d.size, d.extent, lin.a, lin.b, p))
    IN  loops(Linear(card, index))

\* The values of x, in order.
Values(card) == [u \in 1 .. card.count |-> card.lower + (u - 1) * card.stride]
=============================================================================
