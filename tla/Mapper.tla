------------------------------- MODULE Mapper -------------------------------
(***************************************************************************)
(* The SPMD mapper (engines/mapper, spmd.cc): from a statement over        *)
(* distributed arrays to the Vnus statements of every processor.  The      *)
(* passes that decide who communicates what, and in which order, are here: *)
(* clear_on, breakout, red1, ca2, ca3, ot2, oa5 and io3.                   *)
(*                                                                         *)
(* A statement runs over a loop nest: x[k] goes through `loop[k]'.  Its    *)
(* operands are references: the element `array' has at the indices         *)
(* a * x[var] + b.  An array has an owner: it is replicated, or each       *)
(* dimension of the processors has a distribution of the index of that     *)
(* dimension (or there is one distribution, over all processors).          *)
(***************************************************************************)
EXTENDS Sections, PartSend

Everywhere == [replicated |-> TRUE, distr |-> <<>>]
Distributed(distr) == [replicated |-> FALSE, distr |-> distr]

\* build_procList: the numbers of a processor in the dimensions of an owner.
ProcList(owner, q, k) == IF Len(owner.distr) = 1 THEN q ELSE Position(q, k)

Indices(ref, x) == [k \in DOMAIN ref.index |-> ref.index[k].a * x[ref.index[k].var] + ref.index[k].b]
Place(ref, x) == <<ref.array, Indices(ref, x)>>

\* The tests IsNewOwner and IsNewMaster of processor q, as the conjuncts that
\* applyoa5 sees: the first processor is the master of what is replicated.
IsNewOwner(ref, q) ==
    [k \in DOMAIN ref.owner.distr |->
        [d |-> ref.owner.distr[k], index |-> ref.index[k], p |-> ProcList(ref.owner, q, k)]]

IsNewMaster(ref, q) ==
    IF ref.owner.replicated
    THEN <<[d |-> [kind |-> "first"], index |-> [var |-> 1, a |-> 0, b |-> 0], p |-> q]>>
    ELSE IsNewOwner(ref, q)

Holds(c, x) ==
    IF c.d.kind = "first" THEN c.p = 0
    ELSE c.p = GenInline(c.d, c.index.a * x[c.index.var] + c.index.b)
AllHold(conds, x) == \A k \in DOMAIN conds : Holds(conds[k], x)

\* ExprGetNewMaster: a processor.  ExprGetNewOwner: a destination of vnus_send.
GetNewMaster(ref, x) ==
    IF ref.owner.replicated THEN 0
    ELSE FoldFunction(+, 0, [k \in DOMAIN ref.owner.distr |->
             Multiplier[k - 1] * GenInline(ref.owner.distr[k], Indices(ref, x)[k])])
GetNewOwner(ref, x) ==
    IF ref.owner.replicated THEN AllProcessorBits * numberOfProcessors ELSE GetNewMaster(ref, x)

\* issubset_owner: whoever owns the one owns the other.
IsSubset(ref, of) ==
    \/ of.owner.replicated
    \/ /\ ~ref.owner.replicated
       /\ ref.owner.distr = of.owner.distr
       /\ \A k \in DOMAIN ref.owner.distr : ref.index[k] = of.index[k]

-----------------------------------------------------------------------------
(***************************************************************************)
(* applyoa5: the x of a nest of loops that its one conditional statement   *)
(* lets through, in order.  A loop takes the first condition that is       *)
(* linear in its variable, and what comes of it is a loop over the same    *)
(* variable that takes the next; after a bc distribution it is two loops,  *)
(* and the inner one does.                                                 *)
(***************************************************************************)
Over(xs, Op(_)) == [i \in DOMAIN xs |-> Op(xs[i])]

RECURSIVE VisitNest(_, _, _)
VisitNest(cards, conds, x) ==
    IF Len(x) = Len(cards) THEN IF AllHold(conds, x) THEN <<x>> ELSE <<>>
    ELSE LET var == Len(x) + 1
             card == cards[var]
             linear == {k \in DOMAIN conds : /\ conds[k].d.kind # "first"
                                             /\ conds[k].index.var = var /\ conds[k].index.a # 0}
         IN  IF linear = {}
             THEN FlattenSeq(Over(Values(card), LAMBDA v : VisitNest(cards, conds, Append(x, v))))
             ELSE LET c == conds[Min(linear)]
                      others == RemoveAt(conds, Min(linear))
                  IN  FlattenSeq(Over(Absorbed(c.d, card, c.index, c.p), LAMBDA loop :
                          VisitNest([cards EXCEPT ![var] = loop], others, x)))

Visits(loop, conds) == VisitNest([k \in DOMAIN loop |-> Normalised(loop[k])], conds, <<>>)

\* Every x, in the order of the loops.
All(loop) == Visits(loop, <<>>)

-----------------------------------------------------------------------------
(***************************************************************************)
(* The Vnus statements: a send of some elements to a processor, a receive  *)
(* of elements, assignments (the sum of some elements goes to an element). *)
(* `xs' are the x for which the elements are.                              *)
(***************************************************************************)
SendTo(q, xs, places) == <<[op |-> "send", peer |-> q, xs |-> xs, places |-> places]>>
ReceiveFrom(q, xs, places) == <<[op |-> "receive", peer |-> q, xs |-> xs, places |-> places]>>
Compute(assignments) == IF assignments = <<>> THEN <<>>
                        ELSE <<[op |-> "compute", assignments |-> assignments]>>
Assign(place, operands) == [place |-> place, operands |-> operands]

\* The operand of a send statement goes to every processor of its destination.
VnusSend(dest, x, place) ==
    FlattenSeq(Over(Destinations(dest), LAMBDA q : SendTo(q, <<x>>, <<place>>)))

\* check_stencil: a block distribution of x[k] + offset on both sides.
IsBlocked(ref) ==
    /\ ~ref.owner.replicated /\ Len(ref.owner.distr) = 1 /\ ref.owner.distr[1].kind = "block"
    /\ ref.index[1].a = 1
    /\ Abs(ref.index[1].b) <= ref.owner.distr[1].size
CheckStencil(on, rhs) ==
    /\ IsBlocked(on) /\ IsBlocked(rhs)
    /\ on.owner.distr[1].size = rhs.owner.distr[1].size
    /\ on.index[1].var = rhs.index[1].var

\* The processors that p may send to and receive from: in a stencil (that the
\* program says it is) only its neighbours.
Partners(stencil, p) ==
    LET first == IF stencil THEN Larger(0, p - 1) ELSE 0
        last == IF stencil THEN Smaller(numberOfProcessors, p + 2) - 1 ELSE numberOfProcessors - 1
    IN  [i \in 1 .. last - first + 1 |-> first + i - 1]

\* applyca3, the transfers of the loop lhs := rhs for the owners of `on': the x
\* for which q sends to r, the loops over the processors to send to and over
\* those to receive from.  If lhs is rhs (`isAssignToSelf') there is nothing to
\* copy within a processor.
Passes(s, on, rhs, q, r) == Visits(s.loop, IsNewOwner(on, r) \o IsNewMaster(rhs, q))
IsMe(on, q, p) == q = p /\ ~on.owner.replicated     \* the send-to-self test

PlacesOf(ref, xs) == Over(xs, LAMBDA x : Place(ref, x))

\* Mutant: a message is sent also if there is nothing in it.
SendLoopEmpty(s, on, rhs, p) ==
    LET send(q, xs) == IF IsMe(on, q, p) THEN <<>> ELSE SendTo(q, xs, PlacesOf(rhs, xs))
    IN  FlattenSeq(Over(Partners(s.stencil /\ CheckStencil(on, rhs), p),
                        LAMBDA q : send(q, Passes(s, on, rhs, p, q))))

SendLoop(s, on, rhs, p) ==
    LET send(q, xs) == IF IsMe(on, q, p) \/ xs = <<>> THEN <<>>
                       ELSE SendTo(q, xs, PlacesOf(rhs, xs))
    IN  FlattenSeq(Over(Partners(s.stencil /\ CheckStencil(on, rhs), p),
                        LAMBDA q : send(q, Passes(s, on, rhs, p, q))))

CopyLoop(lhs, rhs, xs) ==
    IF lhs = rhs THEN <<>>
    ELSE Compute(Over(xs, LAMBDA x : Assign(Place(lhs, x), <<Place(rhs, x)>>)))

\* Mutant: what a processor owns on both sides is not copied.
ReceiveLoopNoCopy(s, on, lhs, rhs, p) ==
    LET receive(q, xs) == IF IsMe(on, q, p) \/ xs = <<>> THEN <<>>
                          ELSE ReceiveFrom(q, xs, PlacesOf(lhs, xs))
    IN  FlattenSeq(Over(Partners(s.stencil /\ CheckStencil(on, rhs), p),
                        LAMBDA q : receive(q, Passes(s, on, rhs, q, p))))

ReceiveLoop(s, on, lhs, rhs, p) ==
    LET receive(q, xs) == IF IsMe(on, q, p) THEN CopyLoop(lhs, rhs, xs)
                          ELSE IF xs = <<>> THEN <<>>
                          ELSE ReceiveFrom(q, xs, PlacesOf(lhs, xs))
    IN  FlattenSeq(Over(Partners(s.stencil /\ CheckStencil(on, rhs), p),
                        LAMBDA q : receive(q, Passes(s, on, rhs, q, p))))

Transfers(s, on, lhs, rhs, p) == SendLoop(s, on, rhs, p) \o ReceiveLoop(s, on, lhs, rhs, p)

\* Mutant: the owner sends, not the master of the other side.
ElementByOwner(on, lhs, rhs, p, x) ==
    (IF AllHold(IsNewOwner(on, p), x) THEN VnusSend(GetNewOwner(on, x), x, Place(rhs, x)) ELSE <<>>)
    \o (IF AllHold(IsNewOwner(on, p), x)
        THEN ReceiveFrom(GetNewMaster(rhs, x), <<x>>, <<Place(lhs, x)>>) ELSE <<>>)

\* applyot2: the same for one x.
Element(on, lhs, rhs, p, x) ==
    (IF AllHold(IsNewMaster(rhs, p), x) THEN VnusSend(GetNewOwner(on, x), x, Place(rhs, x)) ELSE <<>>)
    \o (IF AllHold(IsNewOwner(on, p), x)
        THEN ReceiveFrom(GetNewMaster(rhs, x), <<x>>, <<Place(lhs, x)>>) ELSE <<>>)

\* clear_on: the operands that an owner of the left-hand side may not have.
Remote(s) == SelectSeq(s.rhs, LAMBDA r : ~IsSubset(s.lhs, r))
Operands(s, x) == [k \in DOMAIN s.rhs |-> Place(s.rhs[k], x)]
IsCopy(s) == Len(s.rhs) = 1 /\ Remote(s) = s.rhs

\* What the owners of the left-hand side do when they have the operands.
Computation(s, p, xs) ==
    Compute(Over(xs, LAMBDA x : Assign(Place(s.lhs, x), Operands(s, x))))

\* breakout: an operand in an expression is first assigned to itself at the
\* owners of the left-hand side (a copy needs no such thing); ca2: in a loop of
\* its own.
Target(s, r) == IF IsCopy(s) THEN s.lhs ELSE r

Independent(s, p) ==
    FlattenSeq(Over(Remote(s), LAMBDA r : Transfers(s, s.lhs, Target(s, r), r, p)))
    \o IF IsCopy(s) THEN <<>> ELSE Computation(s, p, Visits(s.loop, IsNewOwner(s.lhs, p)))

Sequential(s, p) ==
    IF Remote(s) = <<>> THEN Computation(s, p, Visits(s.loop, IsNewOwner(s.lhs, p)))
    ELSE FlattenSeq(Over(All(s.loop), LAMBDA x :
             FlattenSeq(Over(Remote(s), LAMBDA r : Element(s.lhs, Target(s, r), r, p, x)))
             \o IF ~IsCopy(s) /\ AllHold(IsNewOwner(s.lhs, p), x) THEN Computation(s, p, <<x>>) ELSE <<>>))

\* applyred1: lhs := lhs + rhs.  Every processor sums what it is the master of,
\* and these sums go to the owners of the left-hand side one after the other.
Local(name) == <<name, <<>>>>
Gathered(s, p) ==
    <<Assign(Local("sum"), <<>>)>>
    \o Over(Visits(s.loop, IsNewMaster(s.rhs[1], p)),
            LAMBDA x : Assign(Local("sum"), <<Local("sum"), Place(s.rhs[1], x)>>))
Reduction(s, p) ==
    LET x0 == [k \in DOMAIN s.loop |-> 0]
        owner == AllHold(IsNewOwner(s.lhs, p), x0)
        from(q) ==
            (IF q = p THEN VnusSend(GetNewOwner(s.lhs, x0), <<q>>, Local("sum")) ELSE <<>>)
            \o IF owner
               THEN ReceiveFrom(q, <<<<q>>>>, <<Local("tmp")>>)
                    \o Compute(<<Assign(Place(s.lhs, x0), <<Place(s.lhs, x0), Local("tmp")>>)>>)
               ELSE <<>>
    IN  Compute(Gathered(s, p)) \o FlattenSeq([q \in 1 .. numberOfProcessors |-> from(q - 1)])

\* Not of the mapper: a program written in Vnus sends an element to a number of
\* its choice.
Multicast(s, p) ==
    LET x0 == <<0>>
    IN  (IF p = s.from THEN VnusSend(s.dest, x0, Place(s.rhs[1], x0)) ELSE <<>>)
        \o IF p \in Named(s.dest) THEN ReceiveFrom(s.from, <<x0>>, <<Place(s.lhs, x0)>>) ELSE <<>>

Compiled(s, p) ==
    CASE s.kind = "foreach" /\ s.independent -> Independent(s, p)
      [] s.kind = "foreach" /\ ~s.independent -> Sequential(s, p)
      [] s.kind = "reduction" -> Reduction(s, p)
      [] s.kind = "multicast" -> Multicast(s, p)
=============================================================================
