-------------------------- MODULE EmbTransfer_proofs --------------------------
(***************************************************************************)
(* Proofs about EmbTransfer, for any number of processors and buffers and  *)
(* all programs: no DMA engine touches memory too late, none writes a word *)
(* or a counter for an element that is through, and no ring overflows.     *)
(* First comes the inductive invariant, and that the machines              *)
(* emb_process_outgoing and emb_process_incoming keep it in every call for *)
(* an element to another processor; then the calls to the processor        *)
(* itself, the processors' own steps, the DMA engines and the theorems.    *)
(*                                                                         *)
(* An element of a link is, one after the other, Asked for by the receiver *)
(* (its machine has left state 0), Active at the sender (its machine has), *)
(* and Passed by the sender; then the receiver passes it too.  The words   *)
(* request and confirm, and the writes to them that are still in a ring,   *)
(* count the fragments in between.                                         *)
(***************************************************************************)
EXTENDS EmbTransfer, FiniteSetTheorems, TLAPS

-----------------------------------------------------------------------------
(* The requests in a ring.  What a request does last belongs to a link: it *)
(* writes a word, or it notes a number in a counter.                       *)

\* What request x does last: it notes a number in the counter of queue out or in,
\* or it writes the word request or confirm, or neither ("none").
Kind(x) == IF x.note.queue # "none" THEN x.note.queue ELSE x.word.name
LinkOf(x) == IF x.note.queue # "none" THEN x.note.link ELSE x.word.link
Value(x) == IF x.note.queue # "none" THEN x.note.value ELSE x.word.value
RequestKinds == {"confirm", "request", "out", "in"}

\* The positions of those of kind k for link l in ring s.
Of(s, k, l) == {j \in DOMAIN s : Kind(s[j]) = k /\ LinkOf(s[j]) = l}

\* The values of a word in their order: first, then 2, 3, ... total, and 0.
Rank(v, first, total) ==
    IF v = 0 THEN total + 1 ELSE IF v = first THEN 1 ELSE v

\* They come in order, with ranks above lo and up to hi.
Run(s, k, l, first, total, lo, hi) ==
    /\ \A j \in Of(s, k, l) : Rank(Value(s[j]), first, total) \in lo + 1 .. hi
    /\ \A i, j \in Of(s, k, l) :
           i < j => Rank(Value(s[i]), first, total) < Rank(Value(s[j]), first, total)
Valued(s, k, l, values) == \A j \in Of(s, k, l) : Value(s[j]) \in values
\* Those of kind k come before those of kind m.
Before(s, k, m, l) == \A i \in Of(s, k, l), j \in Of(s, m, l) : i < j
Noted(s, k, l, elm) == \A j \in Of(s, k, l) : s[j].note.elm = elm

-----------------------------------------------------------------------------
(* Where the two ends of a link are.                                       *)

\* The receiver works on an element, the sender does, and the sender has passed
\* the one that the receiver is at.
Asked(l) == in[l].st # 0
Active(l) == out[l].st # 0
Passed(l) == OutDone(l, round[l[2]], in[l].cur)

\* The four ways to receive: an element put into user memory, put into
\* buffers, fetched to user memory, and fetched to buffers.
Zero(l) == InElem(l).recvContiguous /\ ~Host(l[1]) /\ ~Host(l[2])
Gets(l) == InElem(l).recvContiguous /\ Host(l[1])
Fetches(l) == ~InElem(l).recvContiguous /\ Host(l[1])

\* The steps of the transfer, those that the receiver and the sender have done,
\* and those that the receiver has asked for.
First(l) == IF Zero(l) THEN Address(round[l[2]], in[l].cur) + 3 ELSE 1
Total(l) == IF Zero(l) THEN 1 ELSE InElem(l).frags
Taken(l) == IF Zero(l) THEN (IF in[l].st = 298 THEN 0 ELSE 1)
            ELSE IF Gets(l) THEN in[l].taken ELSE in[l].unpacked
Given(l) == IF Zero(l) THEN (IF out[l].st = 201 THEN 0 ELSE 1) ELSE out[l].taken
Wanted(l) == IF request[l] # 0 THEN Rank(request[l], First(l), Total(l))
             ELSE IF Active(l) \/ Passed(l) THEN Total(l) + 1 ELSE 0

\* The ring of the sender and that of the receiver.
SRing(l) == dma[l[1]]
RRing(l) == dma[l[2]]

\* The sender has nothing in its ring for link l.
Quiet(l) == \A k \in {"confirm", "out"} : Of(SRing(l), k, l) = {}
Rested(q) == q.taken = 0 /\ q.completed = 0 /\ q.unpacked = 0

\* Nobody has asked for anything.
RestInv(l) ==
    /\ ~Active(l) /\ request[l] = 0 /\ confirm[l] = 0
    /\ Rested(in[l])
    /\ Quiet(l)
    /\ \A k \in {"request", "in"} : Of(RRing(l), k, l) = {}

\* The receiver is at an element.
ReceiverInv(l) ==
    /\ Busy(in[l])
    /\ in[l].st \in (IF Zero(l) THEN {298, 299} ELSE IF Gets(l) THEN {303, 304}
                     ELSE IF Fetches(l) THEN {302, 299} ELSE {202, 299})
    /\ in[l].st \in {299, 304} <=> Taken(l) = Total(l)
    /\ Taken(l) <= Total(l)
    /\ request[l] = 0 \/ request[l] = First(l) \/ (~Zero(l) /\ request[l] <= Total(l))
    /\ Wanted(l) <= Taken(l) + 1
    /\ Run(RRing(l), "request", l, First(l), Total(l), Wanted(l), Taken(l) + 1)
    /\ Valued(RRing(l), "request", l, IF Zero(l) THEN {0, First(l)} ELSE 0 .. Total(l))
    /\ IF Fetches(l)
       THEN /\ in[l].unpacked <= in[l].completed /\ in[l].completed <= in[l].taken
            /\ in[l].taken <= Total(l)
            /\ Run(RRing(l), "in", l, 1, Total(l), in[l].completed, in[l].taken)
            /\ Noted(RRing(l), "in", l, in[l].cur)
       ELSE Of(RRing(l), "in", l) = {}

\* The sender has not begun.
IdleInv(l) ==
    /\ confirm[l] = 0
    /\ Rested(in[l]) /\ Taken(l) = 0
    /\ Quiet(l)

\* Both are at the element.
ActiveInv(l) ==
    /\ Busy(out[l])
    /\ round[l[1]] = round[l[2]] /\ out[l].cur = in[l].cur
    /\ out[l].st \in (IF Zero(l) THEN {201, 299} ELSE IF Host(l[1]) THEN {302, 304} ELSE {202, 203, 299})
    /\ out[l].st \in {299, 304} <=> Given(l) = Total(l)
    /\ Given(l) <= Total(l)
    /\ 1 <= Wanted(l) /\ Taken(l) <= confirm[l] /\ confirm[l] <= Given(l)
    /\ Host(l[1]) => confirm[l] = Given(l) /\ in[l].taken <= confirm[l]
    /\ ~Zero(l) => Given(l) <= Wanted(l) - 1 + BPQ
    /\ Run(SRing(l), "confirm", l, 1, Total(l), confirm[l], Given(l))
    /\ IF Zero(l)
       THEN /\ out[l].completed <= out[l].taken /\ out[l].taken - out[l].completed <= BPQ
            /\ out[l].st = 201 => /\ out[l].taken < InElem(l).frags
                                  /\ out[l].address = Address(round[l[2]], in[l].cur)
            /\ out[l].taken <= InElem(l).frags
            /\ Run(SRing(l), "out", l, 1, InElem(l).frags, out[l].completed,
                   IF out[l].st = 201 THEN out[l].taken ELSE out[l].taken - 1)
            /\ Before(SRing(l), "out", "confirm", l)
            /\ Noted(SRing(l), "out", l, out[l].cur)
            /\ confirm[l] # 0 => Of(SRing(l), "out", l) = {}
       ELSE Of(SRing(l), "out", l) = {}

\* The sender has passed the element.
PassedInv(l) ==
    /\ ~Active(l)
    /\ request[l] = 0
    /\ Of(SRing(l), "out", l) = {}
    /\ Valued(SRing(l), "confirm", l, {0})
    /\ Run(SRing(l), "confirm", l, 1, Total(l), Total(l), Total(l) + 1)
    /\ confirm[l] = 0 => Of(SRing(l), "confirm", l) = {}

\* The phases of the current element of a link, and what holds in each.
LinkInv(l) ==
    /\ ~Asked(l) => RestInv(l)
    /\ Asked(l) => ReceiverInv(l)
    /\ Asked(l) /\ ~Active(l) /\ ~Passed(l) => IdleInv(l)
    /\ Active(l) => ActiveInv(l)
    /\ Asked(l) /\ Passed(l) => PassedInv(l)

\* The receiver never is past an element before the sender, nor the sender before
\* the receiver has asked for it.
OrderInv(l) ==
    \A r \in DOMAIN prog.fences : \A e \in DOMAIN prog.fences[r][l] :
        /\ InDone(l, r, e) => OutDone(l, r, e)
        /\ OutDone(l, r, e) => InDone(l, r, e) \/ (Asked(l) /\ r = round[l[2]] /\ e = in[l].cur)

\* A processor sends to itself without words and without rings.
SelfInv(l) ==
    /\ in[l].st = 0 /\ out[l].st \in {0, 100, 101}
    /\ request[l] = 0 /\ confirm[l] = 0

-----------------------------------------------------------------------------
(* Types, the queues and the requests.                                     *)

\* The words that requests write, the numbers that they note, and the queues.
Words == {NoWord} \union [name : {"request", "confirm"}, link : Link, value : Nat]
Notes == {NoNote} \union [queue : {"out", "in"}, link : Link, elm : Nat, value : Nat]
Queues == [nElm : Nat, cur : Nat \ {0}, st : States, taken : Nat, completed : Nat,
           unpacked : Nat, address : Nat]

\* The copies a request makes, and the requests.
CopySet == [from : Cells(prog.fences) \union ({"src"} \X Link \X Nat \X Nat \X Nat),
            to : Cells(prog.fences)]
DmaRequests == [copies : Seq(CopySet), word : Words, note : Notes]

\* The types of the variables.
TypeInv ==
    /\ prog \in Programs
    /\ pc \in [Proc -> {"register", "fence", "drain", "done"}]
    /\ round \in [Proc -> 1 .. Len(prog.fences) + 1]
    /\ out \in [Link -> Queues] /\ in \in [Link -> Queues]
    /\ request \in [Link -> Nat] /\ confirm \in [Link -> Nat]
    /\ DOMAIN mem = Cells(prog.fences)
    /\ dma \in [Proc -> Seq(DmaRequests)]

\* q is a queue of p, for link l.
QueueInv(q, p, l) ==
    /\ q.cur <= q.nElm + 1
    /\ q.st # 0 => pc[p] = "fence" /\ Busy(q)
    /\ q.st = 0 => Rested(q)
    /\ pc[p] = "register" => q.cur = 1 /\ q.nElm <= Len(Elements(l, round[p]))
    /\ pc[p] = "fence" => q.nElm = Len(Elements(l, round[p]))
    /\ pc[p] \in {"drain", "done"} => q.cur = 1 /\ q.nElm = 0
PlaceInv ==
    /\ \A p \in Proc : pc[p] = "done" <=> round[p] = Len(prog.fences) + 1
    /\ \A l \in Link : QueueInv(out[l], l[1], l) /\ QueueInv(in[l], l[2], l)

\* What request x still copies, where rounds, queues out and queues in are r, o
\* and i: from the sender's element, and to the receiver's.
CopiesAt(x, r, o, i) ==
    \A n \in DOMAIN x.copies :
        LET c == x.copies[n]
            l == LinkOf(x)
        IN
        /\ Kind(x) # "none"
        /\ Kind(x) = "confirm" => Value(x) # 0
        /\ c.from[1] = "src" => /\ Kind(x) = "confirm"
                                /\ c.from[2] = l /\ c.from[3] = r[l[1]] /\ c.from[4] = o[l].cur
        /\ c.to[1] = "dst" => /\ Kind(x) \in {"confirm", "out", "request"}
                              /\ c.to[2] = l /\ c.to[3] = r[l[2]] /\ c.to[4] = i[l].cur
\* Request x is one of processor p.
RequestOf(p, x) ==
    /\ x.word = NoWord \/ x.note = NoNote
    /\ Kind(x) # "none" => LinkOf(x) \in Link /\ ~Self(LinkOf(x))
    /\ Kind(x) \in {"confirm", "out"} => LinkOf(x)[1] = p
    /\ Kind(x) \in {"request", "in"} => LinkOf(x)[2] = p
RingInv(p) ==
    /\ dma[p] # <<>> => ~Host(p) /\ \E q \in Proc : q # p
    /\ \A j \in DOMAIN dma[p] :
           /\ RequestOf(p, dma[p][j])
           /\ Kind(dma[p][j]) = "none" => j = 1
           /\ CopiesAt(dma[p][j], round, out, in)

\* The inductive invariant.
IInv ==
    /\ TypeInv /\ PlaceInv
    /\ \A p \in Proc : RingInv(p)
    /\ \A l \in Link : IF Self(l) THEN SelfInv(l) ELSE LinkInv(l) /\ OrderInv(l)

-----------------------------------------------------------------------------
(* Lemmas about rings. *)

\* Ring t has nothing for link l that s does not have, in the same order.
Embeds(t, s, l) ==
    \E m \in Nat : \A j \in DOMAIN t :
        Kind(t[j]) # "none" /\ LinkOf(t[j]) = l =>
            j + m \in DOMAIN s /\ t[j].word = s[j + m].word /\ t[j].note = s[j + m].note

\* What a ring has no more, it does not ask for: the order and the bounds remain.
LEMMA EmbedsOf ==
    ASSUME NEW S, NEW s \in Seq(S), NEW t \in Seq(S), NEW l, Embeds(t, s, l)
    PROVE  \E m \in Nat : \A k \in RequestKinds : \A j \in Of(t, k, l) :
               /\ j + m \in Of(s, k, l)
               /\ Value(t[j]) = Value(s[j + m]) /\ t[j].note.elm = s[j + m].note.elm
<1>1. PICK m \in Nat : \A j \in DOMAIN t :
          Kind(t[j]) # "none" /\ LinkOf(t[j]) = l =>
              j + m \in DOMAIN s /\ t[j].word = s[j + m].word /\ t[j].note = s[j + m].note
  BY DEF Embeds
<1>2. ASSUME NEW k \in RequestKinds, NEW j \in Of(t, k, l)
      PROVE  /\ j + m \in Of(s, k, l)
             /\ Value(t[j]) = Value(s[j + m]) /\ t[j].note.elm = s[j + m].note.elm
  <2>1. j \in DOMAIN t /\ Kind(t[j]) = k /\ LinkOf(t[j]) = l /\ k # "none"
    BY DEF Of, RequestKinds
  <2>2. j + m \in DOMAIN s /\ t[j].word = s[j + m].word /\ t[j].note = s[j + m].note
    BY <1>1, <2>1
  <2> QED
    BY <2>1, <2>2 DEF Of, Kind, LinkOf, Value
<1> QED
  BY <1>2

\* What is left of a ring is in order within the same bounds, ...
LEMMA EmbedsRun ==
    ASSUME NEW S, NEW s \in Seq(S), NEW t \in Seq(S), NEW l, Embeds(t, s, l),
           NEW k \in RequestKinds, NEW first, NEW total, NEW lo, NEW hi,
           Run(s, k, l, first, total, lo, hi)
    PROVE  Run(t, k, l, first, total, lo, hi)
<1>1. PICK m \in Nat : \A j \in Of(t, k, l) : j + m \in Of(s, k, l) /\ Value(t[j]) = Value(s[j + m])
  BY EmbedsOf
<1>2. \A j \in Of(t, k, l) : j \in Nat
  BY DEF Of
<1>3. \A i, j \in Of(t, k, l) : i < j => i + m < j + m
  BY <1>2
<1> QED
  BY <1>1, <1>3 DEF Run

\* ... and has no values, elements or kinds that the ring did not have.
LEMMA EmbedsRest ==
    ASSUME NEW S, NEW s \in Seq(S), NEW t \in Seq(S), NEW l, Embeds(t, s, l)
    PROVE  /\ \A k \in RequestKinds : Of(s, k, l) = {} => Of(t, k, l) = {}
           /\ \A k \in RequestKinds : \A V : Valued(s, k, l, V) => Valued(t, k, l, V)
           /\ \A k \in RequestKinds : \A e : Noted(s, k, l, e) => Noted(t, k, l, e)
           /\ \A k, k2 \in RequestKinds : Before(s, k, k2, l) => Before(t, k, k2, l)
<1>1. PICK m \in Nat : \A k \in RequestKinds : \A j \in Of(t, k, l) :
               /\ j + m \in Of(s, k, l)
               /\ Value(t[j]) = Value(s[j + m]) /\ t[j].note.elm = s[j + m].note.elm
  BY EmbedsOf
<1>2. \A k \in RequestKinds : \A j \in Of(t, k, l) : j \in Nat
  BY DEF Of
<1>3. \A k \in RequestKinds : Of(s, k, l) = {} => Of(t, k, l) = {}
  BY <1>1
<1>4. \A k \in RequestKinds : \A V : Valued(s, k, l, V) => Valued(t, k, l, V)
  BY <1>1 DEF Valued
<1>5. \A k \in RequestKinds : \A e : Noted(s, k, l, e) => Noted(t, k, l, e)
  BY <1>1 DEF Noted
<1>6. ASSUME NEW k \in RequestKinds, NEW k2 \in RequestKinds, Before(s, k, k2, l)
      PROVE  Before(t, k, k2, l)
  <2> SUFFICES ASSUME NEW i \in Of(t, k, l), NEW j \in Of(t, k2, l) PROVE i < j
    BY DEF Before
  <2>1. i + m < j + m
    BY <1>1, <1>6 DEF Before
  <2> QED
    BY <1>2, <2>1
<1> QED
  BY <1>3, <1>4, <1>5, <1>6

\* Every ring embeds in itself.
LEMMA EmbedsSelf == ASSUME NEW S, NEW s \in Seq(S), NEW l PROVE Embeds(s, s, l)
<1>1. \A j \in DOMAIN s : j + 0 = j
  OBVIOUS
<1> QED
  BY <1>1 DEF Embeds

\* Requests for others, or none, are appended.
LEMMA EmbedsConcat ==
    ASSUME NEW S, NEW s \in Seq(S), NEW t \in Seq(S), NEW l,
           \A j \in DOMAIN t : LinkOf(t[j]) # l \/ Kind(t[j]) = "none"
    PROVE  Embeds(s \o t, s, l)
<1>1. ASSUME NEW j \in DOMAIN (s \o t), Kind((s \o t)[j]) # "none", LinkOf((s \o t)[j]) = l
      PROVE  j \in DOMAIN s /\ (s \o t)[j] = s[j]
  <2>1. CASE j \in DOMAIN s
    BY <2>1
  <2>2. CASE j \notin DOMAIN s
    <3>1. j - Len(s) \in DOMAIN t /\ (s \o t)[j] = t[j - Len(s)]
      BY <2>2
    <3> QED
      BY <1>1, <3>1
  <2> QED
    BY <2>1, <2>2
<1>2. \A j \in DOMAIN (s \o t) : j + 0 = j
  OBVIOUS
<1> QED
  BY <1>1, <1>2 DEF Embeds

\* The oldest request is completed.
LEMMA EmbedsTail ==
    ASSUME NEW S, NEW s \in Seq(S), s # <<>>, NEW l
    PROVE  Embeds(Tail(s), s, l)
<1>1. \A j \in DOMAIN Tail(s) : j + 1 \in DOMAIN s /\ Tail(s)[j] = s[j + 1]
  OBVIOUS
<1> QED
  BY <1>1 DEF Embeds

\* The oldest request is begun, or writes its word.
LEMMA EmbedsHead ==
    ASSUME NEW S, NEW s \in Seq(S), NEW t \in Seq(S), NEW l, Len(t) = Len(s),
           \A j \in DOMAIN s : j # 1 => t[j] = s[j],
           s # <<>> => \/ Kind(t[1]) = "none"
                       \/ LinkOf(t[1]) # l
                       \/ t[1].word = s[1].word /\ t[1].note = s[1].note
    PROVE  Embeds(t, s, l)
<1>1. \A j \in DOMAIN t : j + 0 = j /\ j \in DOMAIN s
  OBVIOUS
<1>2. ASSUME NEW j \in DOMAIN t, Kind(t[j]) # "none", LinkOf(t[j]) = l
      PROVE  j + 0 \in DOMAIN s /\ t[j].word = s[j + 0].word /\ t[j].note = s[j + 0].note
  <2>1. CASE j = 1
    BY <1>1, <1>2, <2>1
  <2>2. CASE j # 1
    BY <1>1, <2>2
  <2> QED
    BY <2>1, <2>2
<1> QED
  BY <1>2 DEF Embeds

\* Ring u is ring s with t appended, as far as requests of kind k for l go.
Appended(u, s, t, k, l) ==
    \A j \in Of(u, k, l) :
        /\ j \in Nat
        /\ \/ j \in Of(s, k, l) /\ j <= Len(s) /\ u[j] = s[j]
           \/ j - Len(s) \in Of(t, k, l) /\ j > Len(s) /\ u[j] = t[j - Len(s)]

\* The positions of one kind in two sequences of requests, one after the other.
LEMMA ConcatOf ==
    ASSUME NEW S, NEW s \in Seq(S), NEW t \in Seq(S), NEW k, NEW l
    PROVE  Appended(s \o t, s, t, k, l)
<1> SUFFICES ASSUME NEW j \in Of(s \o t, k, l)
             PROVE  /\ j \in Nat
                    /\ \/ j \in Of(s, k, l) /\ j <= Len(s) /\ (s \o t)[j] = s[j]
                       \/ j - Len(s) \in Of(t, k, l) /\ j > Len(s) /\ (s \o t)[j] = t[j - Len(s)]
  BY DEF Appended
<1>1. j \in DOMAIN (s \o t) /\ Kind((s \o t)[j]) = k /\ LinkOf((s \o t)[j]) = l
  BY DEF Of
<1>2. CASE j \in DOMAIN s
  <2>1. (s \o t)[j] = s[j] /\ j <= Len(s) /\ j \in Nat
    BY <1>2
  <2> QED
    BY <1>1, <1>2, <2>1 DEF Of
<1>3. CASE j \notin DOMAIN s
  <2>1. j - Len(s) \in DOMAIN t /\ (s \o t)[j] = t[j - Len(s)] /\ j > Len(s) /\ j \in Nat
    BY <1>1, <1>3
  <2> QED
    BY <1>1, <2>1 DEF Of
<1> QED
  BY <1>2, <1>3

\* Two runs make one when the second begins where the first ends, ...
LEMMA RunConcat ==
    ASSUME NEW S, NEW s \in Seq(S), NEW t \in Seq(S), NEW k, NEW l, NEW first, NEW total,
           NEW lo \in Int, NEW mid \in Int, NEW hi \in Int, lo <= mid, mid <= hi,
           Run(s, k, l, first, total, lo, mid), Run(t, k, l, first, total, mid, hi)
    PROVE  Run(s \o t, k, l, first, total, lo, hi)
<1> DEFINE r(x) == Rank(Value(x), first, total)
           u == s \o t
<1>1. \A j \in Of(s, k, l) : r(s[j]) \in lo + 1 .. mid
  BY DEF Run
<1>2. \A j \in Of(t, k, l) : r(t[j]) \in mid + 1 .. hi
  BY DEF Run
<1>3. \A j \in Of(u, k, l) :
          /\ j \in Nat
          /\ \/ j \in Of(s, k, l) /\ j <= Len(s) /\ u[j] = s[j]
             \/ j - Len(s) \in Of(t, k, l) /\ j > Len(s) /\ u[j] = t[j - Len(s)]
  <2>1. Appended(u, s, t, k, l)
    BY ConcatOf
  <2> HIDE DEF u
  <2> QED
    BY <2>1 DEF Appended
<1> HIDE DEF u
<1>4. \A j \in Of(u, k, l) : r(u[j]) \in lo + 1 .. hi
  <2> SUFFICES ASSUME NEW j \in Of(u, k, l) PROVE r(u[j]) \in lo + 1 .. hi
    OBVIOUS
  <2>1. CASE j \in Of(s, k, l) /\ u[j] = s[j]
    <3>1. r(u[j]) \in lo + 1 .. mid
      BY <1>1, <2>1
    <3> HIDE DEF r
    <3> QED
      BY <3>1
  <2>2. CASE j - Len(s) \in Of(t, k, l) /\ u[j] = t[j - Len(s)]
    <3>1. r(u[j]) \in mid + 1 .. hi
      BY <1>2, <2>2
    <3> HIDE DEF r
    <3> QED
      BY <3>1
  <2> QED
    BY <1>3, <2>1, <2>2
<1>5. ASSUME NEW i \in Of(u, k, l), NEW j \in Of(u, k, l), i < j
      PROVE  r(u[i]) < r(u[j])
  <2>1. i \in Nat /\ j \in Nat /\ Len(s) \in Nat
    BY <1>3
  <2>2. CASE i \in Of(s, k, l) /\ j \in Of(s, k, l) /\ u[i] = s[i] /\ u[j] = s[j]
    BY <1>5, <2>2 DEF Run
  <2>3. CASE /\ i - Len(s) \in Of(t, k, l) /\ u[i] = t[i - Len(s)]
             /\ j - Len(s) \in Of(t, k, l) /\ u[j] = t[j - Len(s)]
    <3>1. i - Len(s) < j - Len(s)
      BY <1>5, <2>1
    <3> QED
      BY <2>3, <3>1 DEF Run
  <2>4. CASE /\ i \in Of(s, k, l) /\ u[i] = s[i]
             /\ j - Len(s) \in Of(t, k, l) /\ u[j] = t[j - Len(s)]
    <3>1. r(u[i]) \in lo + 1 .. mid /\ r(u[j]) \in mid + 1 .. hi
      BY <1>1, <1>2, <2>4
    <3> HIDE DEF r
    <3> QED
      BY <3>1
  <2>5. CASE i > Len(s) /\ j <= Len(s)
    BY <1>5, <2>1, <2>5
  <2> QED
    BY <1>3, <2>2, <2>3, <2>4, <2>5
<1> QED
  BY <1>4, <1>5 DEF Run, u

\* ... and what is known of the values, elements and places of both is known of
\* the two together.
LEMMA ConcatRest ==
    ASSUME NEW S, NEW s \in Seq(S), NEW t \in Seq(S), NEW k, NEW l
    PROVE  /\ Of(s, k, l) = {} /\ Of(t, k, l) = {} => Of(s \o t, k, l) = {}
           /\ \A V : Valued(s, k, l, V) /\ Valued(t, k, l, V) => Valued(s \o t, k, l, V)
           /\ \A e : Noted(s, k, l, e) /\ Noted(t, k, l, e) => Noted(s \o t, k, l, e)
           /\ \A m : Before(s, k, m, l) /\ Of(t, k, l) = {} => Before(s \o t, k, m, l)
<1> DEFINE u == s \o t
<1>1. \A m : Appended(u, s, t, m, l)
  BY ConcatOf
<1> HIDE DEF u
<1>2. \A m : \A j \in Of(u, m, l) :
               /\ j \in Nat
               /\ \/ j \in Of(s, m, l) /\ j <= Len(s) /\ u[j] = s[j]
                  \/ j - Len(s) \in Of(t, m, l) /\ j > Len(s) /\ u[j] = t[j - Len(s)]
  BY <1>1 DEF Appended
<1>3. Of(s, k, l) = {} /\ Of(t, k, l) = {} => Of(u, k, l) = {}
  BY <1>2
<1>4. \A V : Valued(s, k, l, V) /\ Valued(t, k, l, V) => Valued(u, k, l, V)
  BY <1>2 DEF Valued
<1>5. \A e : Noted(s, k, l, e) /\ Noted(t, k, l, e) => Noted(u, k, l, e)
  BY <1>2 DEF Noted
<1>6. ASSUME NEW m, Before(s, k, m, l), Of(t, k, l) = {}
      PROVE  Before(u, k, m, l)
  <2> SUFFICES ASSUME NEW i \in Of(u, k, l), NEW j \in Of(u, m, l) PROVE i < j
    BY DEF Before
  <2>1. i \in Nat /\ j \in Nat /\ Len(s) \in Nat
    BY <1>2
  <2>2. i \in Of(s, k, l) /\ i <= Len(s)
    BY <1>2, <1>6
  <2>3. CASE j \in Of(s, m, l)
    BY <1>6, <2>2, <2>3 DEF Before
  <2>4. CASE j > Len(s)
    BY <2>1, <2>2, <2>4
  <2> QED
    BY <1>2, <2>3, <2>4
<1> QED
  BY <1>3, <1>4, <1>5, <1>6 DEF u

\* Runs of none or one.
LEMMA RunEmpty ==
    ASSUME NEW s, NEW k, NEW l, Of(s, k, l) = {}
    PROVE  \A first, total, lo, hi : Run(s, k, l, first, total, lo, hi)
  BY DEF Run

\* A run between bounds that leave no rank is empty.
LEMMA RunNone ==
    ASSUME NEW s, NEW k, NEW l, NEW first, NEW total, NEW lo \in Int, NEW hi \in Int, hi <= lo,
           Run(s, k, l, first, total, lo, hi)
    PROVE  Of(s, k, l) = {}
<1> SUFFICES ASSUME NEW j \in Of(s, k, l) PROVE FALSE
  OBVIOUS
<1>1. Rank(Value(s[j]), first, total) \in lo + 1 .. hi
  BY DEF Run
<1> QED
  BY <1>1

\* A run is one between wider bounds too.
LEMMA RunWider ==
    ASSUME NEW s, NEW k, NEW l, NEW first, NEW total, NEW lo \in Int, NEW hi \in Int,
           NEW low \in Int, NEW high \in Int, low <= lo, hi <= high,
           Run(s, k, l, first, total, lo, hi)
    PROVE  Run(s, k, l, first, total, low, high)
<1>1. \A x : x \in lo + 1 .. hi => x \in low + 1 .. high
  OBVIOUS
<1> QED
  BY <1>1 DEF Run

\* The requests of one kind in a sequence of one request.
LEMMA OfOne ==
    ASSUME NEW x, NEW k, NEW l
    PROVE  /\ Kind(x) = k /\ LinkOf(x) = l => Of(<<x>>, k, l) = {1}
           /\ Kind(x) # k \/ LinkOf(x) # l => Of(<<x>>, k, l) = {}
           /\ <<x>>[1] = x
  BY DEF Of

\* One request whose rank is between the bounds is a run.
LEMMA RunOne ==
    ASSUME NEW x, NEW k, NEW l, NEW first, NEW total, NEW lo, NEW hi,
           Rank(Value(x), first, total) \in lo + 1 .. hi
    PROVE  Run(<<x>>, k, l, first, total, lo, hi)
<1>1. \A j \in Of(<<x>>, k, l) : j = 1 /\ <<x>>[j] = x
  BY DEF Of
<1>2. \A i, j \in Of(<<x>>, k, l) : ~(i < j)
  BY <1>1
<1> QED
  BY <1>1, <1>2 DEF Run

\* One request is appended.
LEMMA RunAppend ==
    ASSUME NEW S, NEW s \in Seq(S), NEW x \in S, NEW k, NEW l, NEW first, NEW total,
           NEW lo \in Int, NEW hi \in Int, NEW high \in Int, lo <= hi, hi <= high,
           Run(s, k, l, first, total, lo, hi),
           Kind(x) = k /\ LinkOf(x) = l => Rank(Value(x), first, total) \in hi + 1 .. high
    PROVE  Run(s \o <<x>>, k, l, first, total, lo, high)
<1>1. Run(<<x>>, k, l, first, total, hi, high)
  <2>1. CASE Kind(x) = k /\ LinkOf(x) = l
    BY <2>1, RunOne
  <2>2. CASE ~(Kind(x) = k /\ LinkOf(x) = l)
    BY <2>2, OfOne, RunEmpty
  <2> QED
    BY <2>1, <2>2
<1>2. <<x>> \in Seq(S)
  OBVIOUS
<1> QED
  BY <1>1, <1>2, RunConcat

\* A request of another kind or link does not disturb those of kind k of link l.
LEMMA RestAppend ==
    ASSUME NEW S, NEW s \in Seq(S), NEW x \in S, NEW k, NEW l, Kind(x) # k \/ LinkOf(x) # l
    PROVE  /\ Of(s, k, l) = {} => Of(s \o <<x>>, k, l) = {}
           /\ \A V : Valued(s, k, l, V) => Valued(s \o <<x>>, k, l, V)
           /\ \A e : Noted(s, k, l, e) => Noted(s \o <<x>>, k, l, e)
           /\ \A m : Before(s, k, m, l) => Before(s \o <<x>>, k, m, l)
<1>1. Of(<<x>>, k, l) = {} /\ <<x>> \in Seq(S)
  BY OfOne
<1>2. (\A V : Valued(<<x>>, k, l, V)) /\ (\A e : Noted(<<x>>, k, l, e))
  BY <1>1 DEF Valued, Noted
<1> QED
  BY <1>1, <1>2, ConcatRest

\* The oldest request of a run has landed.
LEMMA HeadOf ==
    ASSUME NEW S, NEW s \in Seq(S), NEW t \in Seq(S), s # <<>>,
           NEW k, k # "none", NEW l,
           t = Tail(s) \/ (Kind(t[1]) = "none" /\ Len(t) = Len(s) /\ \A j \in DOMAIN s : j # 1 => t[j] = s[j])
    PROVE  \E m \in Nat : \A j \in Of(t, k, l) :
               j + m \in Of(s, k, l) /\ t[j] = s[j + m] /\ j + m > 1 /\ j \in Nat
<1>1. CASE t = Tail(s)
  <2>1. \A j \in DOMAIN t : j + 1 \in DOMAIN s /\ t[j] = s[j + 1] /\ j + 1 > 1 /\ j \in Nat
    BY <1>1
  <2> QED
    BY <2>1 DEF Of
<1>2. CASE Kind(t[1]) = "none" /\ Len(t) = Len(s) /\ \A j \in DOMAIN s : j # 1 => t[j] = s[j]
  <2>1. \A j \in Of(t, k, l) : j \in DOMAIN s /\ j # 1 /\ t[j] = s[j]
    BY <1>2 DEF Of
  <2>2. \A j \in Of(t, k, l) : j + 0 = j /\ j + 0 > 1 /\ j \in Nat
    BY <2>1
  <2>3. \A j \in Of(t, k, l) : j + 0 \in Of(s, k, l)
    BY <2>1, <2>2 DEF Of
  <2> QED
    BY <2>1, <2>2, <2>3
<1> QED
  BY <1>1, <1>2

\* When the oldest request leaves a ring, or loses its word or note, it was the
\* lowest of its run, and the others are above it.
LEMMA RunHead ==
    ASSUME NEW S, NEW s \in Seq(S), NEW t \in Seq(S), s # <<>>,
           NEW k, k # "none", NEW l, NEW first, NEW total, NEW lo \in Int, NEW hi \in Int,
           t = Tail(s) \/ (Kind(t[1]) = "none" /\ Len(t) = Len(s) /\ \A j \in DOMAIN s : j # 1 => t[j] = s[j]),
           Kind(s[1]) = k, LinkOf(s[1]) = l,
           Run(s, k, l, first, total, lo, hi)
    PROVE  /\ Rank(Value(s[1]), first, total) \in lo + 1 .. hi
           /\ Run(t, k, l, first, total, Rank(Value(s[1]), first, total), hi)
<1> DEFINE r(x) == Rank(Value(x), first, total)
<1>1. PICK m \in Nat : \A j \in Of(t, k, l) :
               j + m \in Of(s, k, l) /\ t[j] = s[j + m] /\ j + m > 1 /\ j \in Nat
  BY HeadOf
<1>2. 1 \in Of(s, k, l)
  BY DEF Of
<1>3. r(s[1]) \in lo + 1 .. hi
  BY <1>2 DEF Run
<1>4. ASSUME NEW j \in Of(t, k, l) PROVE r(t[j]) \in r(s[1]) + 1 .. hi
  <2>1. r(s[1]) < r(s[j + m]) /\ r(s[j + m]) \in lo + 1 .. hi
    BY <1>1, <1>2 DEF Run
  <2>2. r(t[j]) = r(s[j + m])
    BY <1>1
  <2> HIDE DEF r
  <2> QED
    BY <1>3, <2>1, <2>2
<1>5. ASSUME NEW i \in Of(t, k, l), NEW j \in Of(t, k, l), i < j PROVE r(t[i]) < r(t[j])
  <2>1. i + m < j + m
    BY <1>1, <1>5
  <2> QED
    BY <1>1, <2>1 DEF Run
<1> QED
  BY <1>3, <1>4, <1>5 DEF Run

\* When requests of kind k come before those of kind m and the oldest is of kind m,
\* there are none of kind k.
LEMMA BeforeHead ==
    ASSUME NEW S, NEW s \in Seq(S), s # <<>>, NEW k, NEW m, NEW l,
           Kind(s[1]) = m, LinkOf(s[1]) = l, Before(s, k, m, l)
    PROVE  Of(s, k, l) = {}
<1>1. 1 \in Of(s, m, l)
  BY DEF Of
<1>2. \A i \in Of(s, k, l) : i \in Nat /\ i >= 1
  BY DEF Of
<1> QED
  BY <1>1, <1>2 DEF Before

\* The requests that write a word are of the kind, link and value they are made of, ...
LEMMA Constructors ==
    ASSUME NEW c, NEW l, NEW v
    PROVE  /\ Kind(DmaRequest(c, Confirm(l, v), NoNote)) = "confirm"
           /\ LinkOf(DmaRequest(c, Confirm(l, v), NoNote)) = l
           /\ Value(DmaRequest(c, Confirm(l, v), NoNote)) = v
           /\ Kind(DmaRequest(c, Request(l, v), NoNote)) = "request"
           /\ LinkOf(DmaRequest(c, Request(l, v), NoNote)) = l
           /\ Value(DmaRequest(c, Request(l, v), NoNote)) = v
  BY DEF Kind, LinkOf, Value, DmaRequest, Confirm, Request, NoNote, NoWord

\* ... and so are those that note a number.
LEMMA NoteConstructors ==
    ASSUME NEW c, NEW k \in {"out", "in"}, NEW l, NEW e, NEW v
    PROVE  LET x == DmaRequest(c, NoWord, [queue |-> k, link |-> l, elm |-> e, value |-> v])
           IN  Kind(x) = k /\ LinkOf(x) = l /\ Value(x) = v /\ x.note.elm = e
  BY DEF Kind, LinkOf, Value, DmaRequest, NoNote, NoWord

\* A link is a pair of processors.
LEMMA LinkEnds == ASSUME NEW l \in Link PROVE l[1] \in Proc /\ l[2] \in Proc /\ l = <<l[1], l[2]>>
  BY DEF Link

\* A program's elements.
LEMMA ElementTypes ==
    ASSUME TypeInv, NEW l \in Link, NEW r \in DOMAIN prog.fences
    PROVE  /\ prog.fences[r][l] \in Seq(Elem)
           /\ Len(prog.fences[r][l]) <= MAX_QUEUE_ELM
           /\ r \in Nat \ {0} /\ Len(prog.fences) \in Nat \ {0} /\ DOMAIN prog.fences = 1 .. Len(prog.fences)
           /\ \A e \in DOMAIN prog.fences[r][l] : e \in Nat \ {0} /\ prog.fences[r][l][e] \in Elem
<1>1. /\ prog.fences \in Seq([Link -> Seq(Elem)]) /\ prog.fences # <<>>
      /\ Len(prog.fences[r][l]) <= MAX_QUEUE_ELM
  BY ProgramAssumption DEF TypeInv
<1>2. prog.fences[r] \in [Link -> Seq(Elem)]
  BY <1>1
<1>3. prog.fences[r][l] \in Seq(Elem)
  BY <1>2
<1>4. r \in Nat \ {0} /\ Len(prog.fences) \in Nat \ {0} /\ DOMAIN prog.fences = 1 .. Len(prog.fences)
  BY <1>1
<1>5. \A e \in DOMAIN prog.fences[r][l] : e \in Nat \ {0} /\ prog.fences[r][l][e] \in Elem
  BY <1>3
<1> QED
  BY <1>1, <1>3, <1>4, <1>5

\* In the loop of emb_fence, a queue that is not through is at an element.
LEMMA AtElement ==
    ASSUME TypeInv, PlaceInv, NEW l \in Link, NEW p \in {l[1], l[2]}, NEW q \in Queues, QueueInv(q, p, l),
           pc[p] = "fence", Busy(q)
    PROVE  /\ round[p] \in DOMAIN prog.fences
           /\ q.cur \in DOMAIN prog.fences[round[p]][l]
           /\ Elements(l, round[p])[q.cur] \in Elem
           /\ Elements(l, round[p])[q.cur].frags \in Nat \ {0}
<1>1. p \in Proc /\ round[p] \in 1 .. Len(prog.fences) + 1 /\ round[p] # Len(prog.fences) + 1
  BY LinkEnds DEF TypeInv, PlaceInv
<1>2. prog.fences \in Seq([Link -> Seq(Elem)])
  BY ProgramAssumption DEF TypeInv
<1>3. round[p] \in DOMAIN prog.fences
  BY <1>1, <1>2
<1>4. /\ prog.fences[round[p]][l] \in Seq(Elem)
      /\ \A e \in DOMAIN prog.fences[round[p]][l] : prog.fences[round[p]][l][e] \in Elem
  BY <1>3, ElementTypes
<1>5. q.nElm = Len(prog.fences[round[p]][l]) /\ q.cur <= q.nElm /\ q.cur \in Nat \ {0}
  BY DEF QueueInv, Elements, Busy, Queues
<1>6. q.cur \in DOMAIN prog.fences[round[p]][l]
  BY <1>4, <1>5
<1> QED
  BY <1>3, <1>4, <1>6 DEF Elements, Elem

\* The types of the two queues, the words and the rings of a link.
LEMMA QueueTypes ==
    ASSUME TypeInv, PlaceInv, NEW l \in Link
    PROVE  /\ out[l] \in Queues /\ in[l] \in Queues /\ QueueInv(out[l], l[1], l) /\ QueueInv(in[l], l[2], l)
           /\ out[l].taken \in Nat /\ out[l].completed \in Nat /\ out[l].unpacked \in Nat
           /\ in[l].taken \in Nat /\ in[l].completed \in Nat /\ in[l].unpacked \in Nat
           /\ request[l] \in Nat /\ confirm[l] \in Nat
           /\ l[1] \in Proc /\ l[2] \in Proc
           /\ SRing(l) \in Seq(DmaRequests) /\ RRing(l) \in Seq(DmaRequests)
<1>1. out[l] \in Queues /\ in[l] \in Queues /\ request[l] \in Nat /\ confirm[l] \in Nat
  BY DEF TypeInv
<1>2. l[1] \in Proc /\ l[2] \in Proc
  BY LinkEnds
<1>3. SRing(l) \in Seq(DmaRequests) /\ RRing(l) \in Seq(DmaRequests)
  BY <1>2 DEF TypeInv, SRing, RRing
<1> QED
  BY <1>1, <1>2, <1>3 DEF PlaceInv, Queues

\* The types of what the phases are stated with, at a link whose receiver is at an
\* element.
LEMMA AskedTypes ==
    ASSUME TypeInv, PlaceInv, NEW l \in Link, Asked(l)
    PROVE  /\ pc[l[2]] = "fence" /\ Busy(in[l])
           /\ round[l[2]] \in DOMAIN prog.fences
           /\ in[l].cur \in DOMAIN prog.fences[round[l[2]]][l]
           /\ InElem(l) \in Elem /\ InElem(l).frags \in Nat \ {0}
           /\ First(l) \in Nat \ {0} /\ Total(l) \in Nat \ {0}
           /\ Taken(l) \in Nat /\ Given(l) \in Nat /\ Wanted(l) \in Nat
<1>1. in[l] \in Queues /\ out[l] \in Queues /\ QueueInv(in[l], l[2], l) /\ request[l] \in Nat
  BY QueueTypes
<1>2. pc[l[2]] = "fence" /\ Busy(in[l])
  BY <1>1 DEF Asked, QueueInv
<1>3. /\ round[l[2]] \in DOMAIN prog.fences
      /\ in[l].cur \in DOMAIN prog.fences[round[l[2]]][l]
      /\ InElem(l) \in Elem /\ InElem(l).frags \in Nat \ {0}
  BY <1>1, <1>2, AtElement DEF InElem
<1>4. round[l[2]] \in Nat \ {0} /\ in[l].cur \in Nat \ {0}
  BY <1>3, ElementTypes
<1>5. First(l) \in Nat \ {0}
  BY <1>4 DEF First, Address, Slots, MAX_QUEUE_ELM
<1>6. Total(l) \in Nat \ {0} /\ Taken(l) \in Nat /\ Given(l) \in Nat
  BY <1>1, <1>3 DEF Total, Taken, Given, Queues
<1>7. Wanted(l) \in Nat
  BY <1>1, <1>6 DEF Wanted, Rank
<1> QED
  BY <1>2, <1>3, <1>5, <1>6, <1>7

\* A step that is not about link m keeps what is known of it.
LEMMA LinkFrame ==
    ASSUME TypeInv, TypeInv', NEW m \in Link, LinkInv(m), prog' = prog,
           in'[m].st = in[m].st, out'[m].st = out[m].st,
           request'[m] = request[m], confirm'[m] = confirm[m],
           ~Asked(m) => Rested(in'[m]),
           Asked(m) => in'[m] = in[m] /\ round'[m[2]] = round[m[2]] /\ (Passed(m)' <=> Passed(m)),
           Active(m) => out'[m] = out[m] /\ round'[m[1]] = round[m[1]],
           Embeds(SRing(m)', SRing(m), m), Embeds(RRing(m)', RRing(m), m)
    PROVE  LinkInv(m)'
<1>1. /\ SRing(m) \in Seq(DmaRequests) /\ SRing(m)' \in Seq(DmaRequests)
      /\ RRing(m) \in Seq(DmaRequests) /\ RRing(m)' \in Seq(DmaRequests)
  <2>1. DmaRequests' = DmaRequests
    BY DEF DmaRequests, CopySet
  <2>2. dma \in [Proc -> Seq(DmaRequests)] /\ dma' \in [Proc -> Seq(DmaRequests)]
    BY <2>1 DEF TypeInv
  <2> QED
    BY <2>2, LinkEnds DEF SRing, RRing
<1>2. \A k \in RequestKinds :
          /\ Of(SRing(m), k, m) = {} => Of(SRing(m)', k, m) = {}
          /\ Of(RRing(m), k, m) = {} => Of(RRing(m)', k, m) = {}
          /\ \A e : Noted(SRing(m), k, m, e) => Noted(SRing(m)', k, m, e)
          /\ \A e : Noted(RRing(m), k, m, e) => Noted(RRing(m)', k, m, e)
          /\ \A V : Valued(SRing(m), k, m, V) => Valued(SRing(m)', k, m, V)
          /\ \A V : Valued(RRing(m), k, m, V) => Valued(RRing(m)', k, m, V)
          /\ \A first, total, lo, hi :
                 Run(SRing(m), k, m, first, total, lo, hi) => Run(SRing(m)', k, m, first, total, lo, hi)
          /\ \A first, total, lo, hi :
                 Run(RRing(m), k, m, first, total, lo, hi) => Run(RRing(m)', k, m, first, total, lo, hi)
  <2> SUFFICES ASSUME NEW k \in RequestKinds
               PROVE  /\ Of(SRing(m), k, m) = {} => Of(SRing(m)', k, m) = {}
                      /\ Of(RRing(m), k, m) = {} => Of(RRing(m)', k, m) = {}
                      /\ \A e : Noted(SRing(m), k, m, e) => Noted(SRing(m)', k, m, e)
                      /\ \A e : Noted(RRing(m), k, m, e) => Noted(RRing(m)', k, m, e)
                      /\ \A V : Valued(SRing(m), k, m, V) => Valued(SRing(m)', k, m, V)
                      /\ \A V : Valued(RRing(m), k, m, V) => Valued(RRing(m)', k, m, V)
                      /\ \A first, total, lo, hi :
                             Run(SRing(m), k, m, first, total, lo, hi)
                                 => Run(SRing(m)', k, m, first, total, lo, hi)
                      /\ \A first, total, lo, hi :
                             Run(RRing(m), k, m, first, total, lo, hi)
                                 => Run(RRing(m)', k, m, first, total, lo, hi)
    OBVIOUS
  <2>1. \A first, total, lo, hi :
           Run(SRing(m), k, m, first, total, lo, hi) => Run(SRing(m)', k, m, first, total, lo, hi)
    BY <1>1, EmbedsRun
  <2>2. \A first, total, lo, hi :
           Run(RRing(m), k, m, first, total, lo, hi) => Run(RRing(m)', k, m, first, total, lo, hi)
    BY <1>1, EmbedsRun
  <2>3. /\ Of(SRing(m), k, m) = {} => Of(SRing(m)', k, m) = {}
        /\ \A e : Noted(SRing(m), k, m, e) => Noted(SRing(m)', k, m, e)
        /\ \A V : Valued(SRing(m), k, m, V) => Valued(SRing(m)', k, m, V)
    BY <1>1, EmbedsRest
  <2>4. /\ Of(RRing(m), k, m) = {} => Of(RRing(m)', k, m) = {}
        /\ \A e : Noted(RRing(m), k, m, e) => Noted(RRing(m)', k, m, e)
        /\ \A V : Valued(RRing(m), k, m, V) => Valued(RRing(m)', k, m, V)
    BY <1>1, EmbedsRest
  <2> QED
    BY <2>1, <2>2, <2>3, <2>4
<1>3. Before(SRing(m), "out", "confirm", m) => Before(SRing(m)', "out", "confirm", m)
  BY <1>1, EmbedsRest DEF RequestKinds
<1>4. (Asked(m)' <=> Asked(m)) /\ (Active(m)' <=> Active(m))
  BY DEF Asked, Active
<1>5. CASE ~Asked(m)
  BY <1>2, <1>4, <1>5 DEF LinkInv, RestInv, Quiet, RequestKinds, Active, ActiveInv, Asked
<1>6. CASE Asked(m)
  <2>1. in'[m] = in[m] /\ round'[m[2]] = round[m[2]] /\ (Passed(m)' <=> Passed(m))
    BY <1>6
  <2>2. InElem(m)' = InElem(m) /\ \A p : Host(p)' <=> Host(p)
    BY <2>1 DEF InElem, Elements, Host
  <2>3. (Zero(m)' <=> Zero(m)) /\ (Gets(m)' <=> Gets(m)) /\ (Fetches(m)' <=> Fetches(m))
    BY <2>2 DEF Zero, Gets, Fetches
  <2>4. First(m)' = First(m) /\ Total(m)' = Total(m) /\ Taken(m)' = Taken(m)
    BY <2>1, <2>2, <2>3 DEF First, Total, Taken
  <2>5. Wanted(m)' = Wanted(m)
    BY <2>1, <2>4, <1>4 DEF Wanted
  <2>6. ReceiverInv(m)'
    <3>1. ReceiverInv(m)
      BY <1>6 DEF LinkInv
    <3> QED
      BY <1>2, <2>1, <2>3, <2>4, <2>5, <3>1 DEF ReceiverInv, RequestKinds
  <2>7. IdleInv(m) => IdleInv(m)'
    BY <1>2, <2>1, <2>4 DEF IdleInv, Quiet, RequestKinds
  <2>8. PassedInv(m) => PassedInv(m)'
    BY <1>2, <1>4, <2>4 DEF PassedInv, RequestKinds
  <2>9. Active(m) /\ ActiveInv(m) => ActiveInv(m)'
    <3> SUFFICES ASSUME Active(m), ActiveInv(m) PROVE ActiveInv(m)'
      OBVIOUS
    <3>1. out'[m] = out[m] /\ round'[m[1]] = round[m[1]]
      OBVIOUS
    <3>2. Given(m)' = Given(m)
      BY <2>3, <3>1 DEF Given
    <3> QED
      BY <1>2, <1>3, <2>1, <2>2, <2>3, <2>4, <2>5, <3>1, <3>2 DEF ActiveInv, RequestKinds
  <2> QED
    BY <1>4, <1>6, <2>1, <2>6, <2>7, <2>8, <2>9 DEF LinkInv
<1> QED
  BY <1>5, <1>6

\* A request of a kind has the word or the note of that kind.
LEMMA KindOf ==
    ASSUME NEW x \in DmaRequests, x.word = NoWord \/ x.note = NoNote
    PROVE  /\ Kind(x) \in RequestKinds \union {"none"}
           /\ Kind(x) = "none" <=> x.word = NoWord /\ x.note = NoNote
           /\ Kind(x) # "none" => LinkOf(x) \in Link /\ Value(x) \in Nat
           /\ Kind(x) = "confirm" => x.word = Confirm(LinkOf(x), Value(x)) /\ x.note = NoNote
           /\ Kind(x) = "request" => x.word = Request(LinkOf(x), Value(x)) /\ x.note = NoNote
           /\ Kind(x) \in {"out", "in"} => x.note.queue = Kind(x) /\ x.note.link = LinkOf(x)
                                           /\ x.note.value = Value(x) /\ x.word = NoWord
<1>1. x.word \in Words /\ x.note \in Notes
  BY DEF DmaRequests
<1>2. CASE x.note = NoNote
  BY <1>1, <1>2 DEF Words, Notes, NoWord, NoNote, Kind, LinkOf, Value, RequestKinds, Confirm, Request
<1>3. CASE x.note # NoNote
  BY <1>1, <1>3 DEF Words, Notes, NoWord, NoNote, Kind, LinkOf, Value, RequestKinds, Confirm, Request
<1> QED
  BY <1>2, <1>3

\* The copies of the requests stay those of their elements, unless the element
\* is through and nothing is left to copy for it.
LEMMA RingFrame ==
    ASSUME TypeInv, \A p \in Proc : RingInv(p), prog' = prog,
           \A m \in Link :
               ~Self(m) =>
                   /\ \/ out'[m].cur = out[m].cur /\ round'[m[1]] = round[m[1]]
                      \/ Valued(SRing(m), "confirm", m, {0})
                   /\ \/ in'[m].cur = in[m].cur /\ round'[m[2]] = round[m[2]]
                      \/ /\ Valued(SRing(m), "confirm", m, {0})
                         /\ Of(SRing(m), "out", m) = {} /\ Of(RRing(m), "request", m) = {},
           NEW p \in Proc, NEW t \in Seq(DmaRequests),
           \A q \in Proc : dma'[q] = IF q = p THEN dma[p] \o t ELSE dma[q],
           t # <<>> => ~Host(p) /\ \E q \in Proc : q # p,
           \A j \in DOMAIN t : RequestOf(p, t[j]) /\ Kind(t[j]) # "none" /\ CopiesAt(t[j], round', out', in')
    PROVE  \A q \in Proc : RingInv(q)'
<1>1. ASSUME NEW q \in Proc, NEW j \in DOMAIN dma[q] PROVE CopiesAt(dma[q][j], round', out', in')
  <2> DEFINE x == dma[q][j]
             l == LinkOf(x)
  <2>1. CopiesAt(x, round, out, in) /\ RequestOf(q, x)
    BY DEF RingInv
  <2>2. dma[q] \in Seq(DmaRequests)
    BY DEF TypeInv
  <2>3. Kind(x) \in {"confirm", "out"} => l \in Link /\ ~Self(l) /\ l[1] = q /\ j \in Of(SRing(l), Kind(x), l)
    BY <2>1 DEF RequestOf, Of, SRing
  <2>4. Kind(x) \in {"request", "in"} => l \in Link /\ ~Self(l) /\ l[2] = q /\ j \in Of(RRing(l), Kind(x), l)
    BY <2>1 DEF RequestOf, Of, RRing
  <2>5. Kind(x) = "confirm" /\ Valued(SRing(l), "confirm", l, {0}) => Value(x) = 0
    BY <2>3 DEF Valued, SRing
  <2> HIDE DEF x
  <2> SUFFICES ASSUME NEW n \in DOMAIN x.copies
               PROVE  LET c == x.copies[n] IN
                      /\ Kind(x) # "none"
                      /\ Kind(x) = "confirm" => Value(x) # 0
                      /\ c.from[1] = "src" => /\ Kind(x) = "confirm"
                                              /\ c.from[2] = l /\ c.from[3] = round'[l[1]] /\ c.from[4] = out'[l].cur
                      /\ c.to[1] = "dst" => /\ Kind(x) \in {"confirm", "out", "request"}
                                            /\ c.to[2] = l /\ c.to[3] = round'[l[2]] /\ c.to[4] = in'[l].cur
    BY DEF CopiesAt, x
  <2> DEFINE c == x.copies[n]
  <2>6. /\ Kind(x) # "none"
        /\ Kind(x) = "confirm" => Value(x) # 0
        /\ c.from[1] = "src" => /\ Kind(x) = "confirm"
                                /\ c.from[2] = l /\ c.from[3] = round[l[1]] /\ c.from[4] = out[l].cur
        /\ c.to[1] = "dst" => /\ Kind(x) \in {"confirm", "out", "request"}
                              /\ c.to[2] = l /\ c.to[3] = round[l[2]] /\ c.to[4] = in[l].cur
    BY <2>1 DEF CopiesAt
  <2>7. c.from[1] = "src" => out'[l].cur = out[l].cur /\ round'[l[1]] = round[l[1]]
    BY <2>3, <2>5, <2>6
  <2>8. c.to[1] = "dst" => in'[l].cur = in[l].cur /\ round'[l[2]] = round[l[2]]
    BY <2>3, <2>4, <2>5, <2>6
  <2> QED
    BY <2>6, <2>7, <2>8
<1>2. \A q : Host(q)' <=> Host(q)
  BY DEF Host
<1>3. ASSUME NEW q \in Proc, q # p PROVE RingInv(q)'
  <2>1. dma'[q] = dma[q]
    BY <1>3
  <2> QED
    BY <1>1, <1>2, <2>1 DEF RingInv
<1>4. RingInv(p)'
  <2>1. dma'[p] = dma[p] \o t /\ dma[p] \in Seq(DmaRequests)
    BY DEF TypeInv
  <2>2. dma'[p] # <<>> => ~Host(p) /\ \E q \in Proc : q # p
    BY <2>1 DEF RingInv
  <2>3. ASSUME NEW j \in DOMAIN dma'[p]
        PROVE  RequestOf(p, dma'[p][j]) /\ (Kind(dma'[p][j]) = "none" => j = 1)
               /\ CopiesAt(dma'[p][j], round', out', in')
    <3>1. CASE j \in DOMAIN dma[p] /\ dma'[p][j] = dma[p][j]
      BY <1>1, <3>1 DEF RingInv
    <3>2. CASE j - Len(dma[p]) \in DOMAIN t /\ dma'[p][j] = t[j - Len(dma[p])]
      BY <3>2
    <3> QED
      BY <2>1, <3>1, <3>2
  <2> QED
    BY <1>2, <2>2, <2>3 DEF RingInv
<1> QED
  BY <1>3, <1>4

\* What a step appends for another link is nothing to link m.
LEMMA OtherRings ==
    ASSUME TypeInv, NEW m, NEW p \in Proc, NEW t \in Seq(DmaRequests),
           \A q \in Proc : dma'[q] = IF q = p THEN dma[p] \o t ELSE dma[q],
           \A j \in DOMAIN t : LinkOf(t[j]) # m
    PROVE  \A q \in Proc : Embeds(dma'[q], dma[q], m)
<1> SUFFICES ASSUME NEW q \in Proc PROVE Embeds(dma'[q], dma[q], m)
  OBVIOUS
<1>1. dma[q] \in Seq(DmaRequests)
  BY DEF TypeInv
<1>2. CASE q = p
  <2>1. dma'[q] = dma[q] \o t
    BY <1>2
  <2> QED
    BY <1>1, <2>1, EmbedsConcat
<1>3. CASE q # p
  BY <1>1, <1>3, EmbedsSelf
<1> QED
  BY <1>2, <1>3

\* Nothing is passed, and what was asked for still is.
LEMMA OrderKept ==
    ASSUME NEW l, OrderInv(l), prog' = prog, round' = round, in'[l].cur = in[l].cur,
           Asked(l) => Asked(l)',
           \A r, e : (OutDone(l, r, e)' <=> OutDone(l, r, e)) /\ (InDone(l, r, e)' <=> InDone(l, r, e))
    PROVE  OrderInv(l)'
<1> SUFFICES ASSUME NEW r \in DOMAIN prog.fences, NEW e \in DOMAIN prog.fences[r][l]
             PROVE  /\ InDone(l, r, e)' => OutDone(l, r, e)'
                    /\ OutDone(l, r, e)' => InDone(l, r, e)' \/ (Asked(l)' /\ r = round'[l[2]] /\ e = in'[l].cur)
  BY DEF OrderInv
<1>1. /\ InDone(l, r, e) => OutDone(l, r, e)
      /\ OutDone(l, r, e) => InDone(l, r, e) \/ (Asked(l) /\ r = round[l[2]] /\ e = in[l].cur)
  BY DEF OrderInv
<1> QED
  BY <1>1

\* A step of one end of a link is nothing to the other links.
LEMMA OtherLinks ==
    ASSUME TypeInv, TypeInv', PlaceInv, prog' = prog, pc' = pc, round' = round,
           NEW m \in Link, LinkInv(m), OrderInv(m),
           out'[m] = out[m], in'[m] = in[m], request'[m] = request[m], confirm'[m] = confirm[m],
           \A q \in Proc : Embeds(dma'[q], dma[q], m)
    PROVE  LinkInv(m)' /\ OrderInv(m)'
<1>1. Embeds(SRing(m)', SRing(m), m) /\ Embeds(RRing(m)', RRing(m), m)
  BY LinkEnds DEF SRing, RRing
<1>2. \A r, e : (OutDone(m, r, e)' <=> OutDone(m, r, e)) /\ (InDone(m, r, e)' <=> InDone(m, r, e))
  BY DEF OutDone, InDone
<1>3. Passed(m)' <=> Passed(m)
  BY DEF Passed, OutDone
<1>4. ~Asked(m) => Rested(in'[m])
  BY DEF PlaceInv, QueueInv, Asked
<1>5. LinkInv(m)'
  BY <1>1, <1>3, <1>4, LinkFrame
<1>6. in'[m].cur = in[m].cur /\ (Asked(m) => Asked(m)')
  BY DEF Asked
<1> QED
  BY <1>2, <1>5, <1>6, OrderKept

\* While the sender is before or at the element that the receiver asks for, no
\* earlier one is left: both are at the same.
LEMMA SameElement ==
    ASSUME TypeInv, PlaceInv, NEW l \in Link, OrderInv(l), LinkInv(l),
           pc[l[1]] = "fence", Busy(out[l]), Asked(l), ~Passed(l)
    PROVE  /\ round[l[1]] = round[l[2]] /\ out[l].cur = in[l].cur
           /\ OutElem(l) = InElem(l)
<1>1. /\ round[l[1]] \in DOMAIN prog.fences
      /\ out[l].cur \in DOMAIN prog.fences[round[l[1]]][l]
  BY QueueTypes, AtElement
<1>2. ~OutDone(l, round[l[1]], out[l].cur)
  <2>1. round[l[1]] \in Nat /\ out[l].cur \in Nat
    BY <1>1, ElementTypes
  <2> QED
    BY <2>1 DEF OutDone
<1>3. ~InDone(l, round[l[1]], out[l].cur)
  BY <1>1, <1>2 DEF OrderInv
<1>4. /\ round[l[2]] \in DOMAIN prog.fences
      /\ in[l].cur \in DOMAIN prog.fences[round[l[2]]][l]
      /\ pc[l[2]] = "fence"
  BY AskedTypes
<1>5. /\ round[l[1]] \in Nat /\ out[l].cur \in Nat
      /\ round[l[2]] \in Nat /\ in[l].cur \in Nat
  BY <1>1, <1>4, ElementTypes
<1>6. ~(round[l[1]] < round[l[2]]) /\ ~(round[l[1]] = round[l[2]] /\ out[l].cur < in[l].cur)
  BY <1>3 DEF InDone
<1>7. ~(round[l[2]] < round[l[1]]) /\ ~(round[l[2]] = round[l[1]] /\ in[l].cur < out[l].cur)
  BY DEF Passed, OutDone
<1>8. round[l[1]] = round[l[2]] /\ out[l].cur = in[l].cur
  BY <1>5, <1>6, <1>7
<1> QED
  BY <1>8 DEF OutElem, InElem

\* What a step of one end of link l does: it appends t to the ring of p, and
\* moves to another element only when nothing is left to copy for this one.
EndStep(l, p, t) ==
    /\ prog' = prog /\ pc' = pc /\ round' = round
    /\ out' \in [Link -> Queues] /\ in' \in [Link -> Queues]
    /\ request' \in [Link -> Nat] /\ confirm' \in [Link -> Nat] /\ DOMAIN mem' = DOMAIN mem
    /\ \A m \in Link \ {l} : /\ out'[m] = out[m] /\ in'[m] = in[m]
                             /\ request'[m] = request[m] /\ confirm'[m] = confirm[m]
    /\ QueueInv(out'[l], l[1], l) /\ QueueInv(in'[l], l[2], l)
    /\ ~Self(l) => \/ out'[l].cur = out[l].cur
                   \/ Valued(SRing(l), "confirm", l, {0})
    /\ ~Self(l) => \/ in'[l].cur = in[l].cur
                   \/ /\ Valued(SRing(l), "confirm", l, {0})
                      /\ Of(SRing(l), "out", l) = {} /\ Of(RRing(l), "request", l) = {}
    /\ dma' = [dma EXCEPT ![p] = @ \o t]
    /\ t # <<>> => ~Host(p) /\ ~Self(l)
    /\ \A j \in DOMAIN t : /\ RequestOf(p, t[j]) /\ Kind(t[j]) # "none" /\ LinkOf(t[j]) = l
                           /\ CopiesAt(t[j], round, out', in')

\* Such a step leaves to be shown what becomes of l itself.
LEMMA EndFrame ==
    ASSUME IInv, NEW l \in Link, NEW p \in {l[1], l[2]}, NEW t \in Seq(DmaRequests), EndStep(l, p, t),
           IF Self(l) THEN SelfInv(l)' ELSE LinkInv(l)' /\ OrderInv(l)'
    PROVE  IInv'
<1>1. TypeInv /\ PlaceInv /\ (\A q \in Proc : RingInv(q)) /\ p \in Proc /\ l[1] \in Proc /\ l[2] \in Proc
  BY LinkEnds DEF IInv
<1>2. TypeInv'
  <2>1. DmaRequests' = DmaRequests
    BY DEF EndStep, DmaRequests, CopySet
  <2>2. dma' \in [Proc -> Seq(DmaRequests)]
    BY <1>1 DEF EndStep, TypeInv
  <2> QED
    BY <1>1, <2>1, <2>2 DEF EndStep, TypeInv
<1>3. PlaceInv'
  <2>1. ASSUME NEW m \in Link PROVE QueueInv(out[m], m[1], m)' /\ QueueInv(in[m], m[2], m)'
    <3>1. CASE m = l
      BY <3>1 DEF EndStep, QueueInv, Elements
    <3>2. CASE m # l
      <4>1. out'[m] = out[m] /\ in'[m] = in[m]
        BY <3>2 DEF EndStep
      <4> QED
        BY <1>1, <4>1 DEF EndStep, PlaceInv, QueueInv, Elements
    <3> QED
      BY <3>1, <3>2
  <2> QED
    BY <1>1, <2>1 DEF EndStep, PlaceInv
<1>4. \A q \in Proc : dma'[q] = IF q = p THEN dma[p] \o t ELSE dma[q]
  BY <1>1 DEF EndStep, TypeInv
<1>5. \A q \in Proc : RingInv(q)'
  <2>1. \A m \in Link :
            ~Self(m) =>
                /\ \/ out'[m].cur = out[m].cur /\ round'[m[1]] = round[m[1]]
                   \/ Valued(SRing(m), "confirm", m, {0})
                /\ \/ in'[m].cur = in[m].cur /\ round'[m[2]] = round[m[2]]
                   \/ /\ Valued(SRing(m), "confirm", m, {0})
                      /\ Of(SRing(m), "out", m) = {} /\ Of(RRing(m), "request", m) = {}
    BY DEF EndStep
  <2>2. t # <<>> => ~Host(p) /\ \E q \in Proc : q # p
    BY <1>1 DEF EndStep, Self
  <2>3. \A j \in DOMAIN t : RequestOf(p, t[j]) /\ Kind(t[j]) # "none" /\ CopiesAt(t[j], round', out', in')
    BY DEF EndStep
  <2>4. prog' = prog
    BY DEF EndStep
  <2> QED
    BY <1>1, <1>4, <2>1, <2>3, <2>2, <2>4, RingFrame
<1>6. ASSUME NEW m \in Link, m # l, ~Self(m) PROVE LinkInv(m)' /\ OrderInv(m)'
  <2>1. LinkInv(m) /\ OrderInv(m)
    BY <1>6 DEF IInv
  <2>2. out'[m] = out[m] /\ in'[m] = in[m] /\ request'[m] = request[m] /\ confirm'[m] = confirm[m]
    BY <1>6 DEF EndStep
  <2>3. \A j \in DOMAIN t : LinkOf(t[j]) # m
    BY <1>6 DEF EndStep
  <2>4. \A q \in Proc : Embeds(dma'[q], dma[q], m)
    BY <1>1, <1>4, <2>3, OtherRings
  <2>5. prog' = prog /\ pc' = pc /\ round' = round
    BY DEF EndStep
  <2> QED
    BY <1>1, <1>2, <2>1, <2>2, <2>4, <2>5, OtherLinks
<1>7. ASSUME NEW m \in Link, m # l, Self(m) PROVE SelfInv(m)'
  <2>1. SelfInv(m)
    BY <1>7 DEF IInv
  <2> QED
    BY <1>7, <2>1 DEF EndStep, SelfInv
<1>8. \A m \in Link : Self(m)' <=> Self(m)
  BY DEF Self
<1> QED
  BY <1>2, <1>3, <1>5, <1>6, <1>7, <1>8 DEF IInv

-----------------------------------------------------------------------------
(* Cells and words. *)

\* The buffers of a link are cells of memory, ...
LEMMA Buffers ==
    ASSUME TypeInv, NEW l \in Link, NEW k \in Nat
    PROVE  OutBuf(l, k) \in Cells(prog.fences) /\ InBuf(l, k) \in Cells(prog.fences)
<1>1. k % BPQ \in 0 .. BPQ - 1 /\ (k % BPQ) % BPQ = k % BPQ
  BY BpqAssumption
<1>2. OutBuf(l, k) = OutBuf(l, k % BPQ) /\ InBuf(l, k) = InBuf(l, k % BPQ)
  BY <1>1 DEF OutBuf, InBuf
<1> QED
  BY <1>1, <1>2 DEF Cells

\* ... and so are the fragments of the receiver's elements.
LEMMA DstCellsOf ==
    ASSUME TypeInv, NEW l \in Link, NEW r \in DOMAIN prog.fences,
           NEW e \in DOMAIN prog.fences[r][l], NEW k \in 0 .. prog.fences[r][l][e].frags - 1
    PROVE  DstCell(l, r, e, k) \in Cells(prog.fences)
<1>1. DstCell(l, r, e, k) \in DstCells(prog.fences, l)
  BY DEF DstCells
<1> QED
  BY <1>1 DEF Cells

\* A direct put goes where the request says.
LEMMA AddressOf ==
    ASSUME NEW l, NEW r \in Nat, NEW e \in Nat, e <= MAX_QUEUE_ELM
    PROVE  /\ Address(r, e) + MASK_ZEROCOPY + MASK_REQUEST = Address(r, e) + 3
           /\ AddressIn(Address(r, e) + 3) = Address(r, e)
           /\ AsksZeroCopy(Address(r, e) + 3)
           /\ \A k : DstAt(l, Address(r, e), k) = DstCell(l, r, e, k)
<1> DEFINE a == Slots * r + e
<1>1. a \in Nat /\ Address(r, e) = 4 * a
  BY DEF Address, Slots, MAX_QUEUE_ELM
<1>2. /\ 4 * a + 2 + 1 = 4 * a + 3
      /\ (4 * a + 3) \div 4 = a /\ (4 * a) \div 4 = a
      /\ ((4 * a + 3) \div 2) % 2 = 1
  <2> HIDE DEF a
  <2> QED
    BY <1>1
<1>3. a \div Slots = r /\ a % Slots = e
  BY DEF Slots, MAX_QUEUE_ELM
<1> HIDE DEF a
<1> QED
  BY <1>1, <1>2, <1>3 DEF AddressIn, AsksZeroCopy, DstAt, MASK_ZEROCOPY, MASK_REQUEST

\* The words 0 and 1 are no addresses: they do not ask to put into user memory.
LEMMA RequestWord ==
    ~AsksZeroCopy(1) /\ ~AsksZeroCopy(0)
  BY DEF AsksZeroCopy

\* The requests that the machines make are well typed.
LEMMA WordTypes ==
    ASSUME NEW l \in Link, NEW v \in Nat, NEW e \in Nat, NEW c \in Seq(CopySet)
    PROVE  /\ DmaRequest(c, Confirm(l, v), NoNote) \in DmaRequests
           /\ DmaRequest(c, Request(l, v), NoNote) \in DmaRequests
           /\ \A k \in {"out", "in"} :
                  DmaRequest(c, NoWord, [queue |-> k, link |-> l, elm |-> e, value |-> v]) \in DmaRequests
  BY DEF DmaRequests, DmaRequest, Words, Notes, Confirm, Request, NoNote, NoWord

\* What the sender may count on in a call that moves data.
Sending(l, case) ==
    /\ Asked(l) /\ ~Passed(l) /\ request[l] # 0
    /\ round[l[1]] = round[l[2]] /\ out[l].cur = in[l].cur /\ OutElem(l) = InElem(l)
    /\ out[l].st \in {0, case}
    /\ 1 <= Wanted(l) /\ Taken(l) <= confirm[l]
    /\ Zero(l) <=> case \in {201, 204}
    /\ Host(l[1]) <=> case = 302
    /\ out[l].taken < InElem(l).frags
    /\ Zero(l) =>
           /\ case = 204 => out[l].st = 0
           /\ confirm[l] = 0 /\ Of(SRing(l), "confirm", l) = {}
           /\ (IF out[l].st = 201 THEN out[l].address ELSE AddressIn(request[l]))
                  = Address(round[l[2]], in[l].cur)
           /\ out[l].completed <= out[l].taken /\ out[l].taken - out[l].completed <= BPQ
           /\ Run(SRing(l), "out", l, 1, InElem(l).frags, out[l].completed, out[l].taken)
           /\ Noted(SRing(l), "out", l, out[l].cur)
           /\ out[l].st = 0 => out[l].taken = 0 /\ out[l].completed = 0 /\ Of(SRing(l), "out", l) = {}
    /\ ~Zero(l) =>
           /\ request[l] = Wanted(l)
           /\ confirm[l] <= out[l].taken
           /\ Run(SRing(l), "confirm", l, 1, Total(l), confirm[l], out[l].taken)
           /\ Of(SRing(l), "out", l) = {}
           /\ Host(l[1]) => confirm[l] = out[l].taken /\ in[l].taken <= confirm[l]

\* The facts of a link and of its ends.
LEMMA LinkFacts ==
    ASSUME IInv, NEW l \in Link, ~Self(l)
    PROVE  /\ TypeInv /\ PlaceInv /\ LinkInv(l) /\ OrderInv(l)
           /\ Active(l) => Asked(l) /\ ~Passed(l) /\ ActiveInv(l) /\ ReceiverInv(l)
           /\ request[l] # 0 => Asked(l) /\ ~Passed(l)
           /\ l[1] # l[2]
  BY DEF IInv, LinkInv, RestInv, PassedInv, Self

\* The first request of a receiver.
LEMMA FirstRequest ==
    ASSUME IInv, NEW l \in Link, ~Self(l), ~Active(l), request[l] # 0
    PROVE  /\ IdleInv(l) /\ request[l] = First(l) /\ Wanted(l) = 1
           /\ AsksZeroCopy(request[l]) <=> Zero(l)
           /\ Zero(l) => AddressIn(request[l]) = Address(round[l[2]], in[l].cur)
<1>1. IdleInv(l) /\ ReceiverInv(l) /\ Asked(l)
  BY LinkFacts DEF LinkInv
<1>2. Taken(l) = 0 /\ Wanted(l) <= 1
  BY <1>1, LinkFacts, AskedTypes DEF IdleInv, ReceiverInv
<1>3. request[l] \in Nat /\ Total(l) \in Nat \ {0} /\ First(l) \in Nat \ {0}
  BY <1>1, LinkFacts, AskedTypes, QueueTypes
<1>4. request[l] = First(l) \/ (~Zero(l) /\ request[l] <= Total(l))
  BY <1>1 DEF ReceiverInv
<1>5. ~Zero(l) => First(l) = 1
  BY DEF First
<1>6. Wanted(l) = IF request[l] = First(l) THEN 1 ELSE request[l]
  BY <1>3 DEF Wanted, Rank
<1>7. request[l] = First(l) /\ Wanted(l) = 1
  BY <1>2, <1>3, <1>4, <1>5, <1>6
<1>8. /\ round[l[2]] \in Nat /\ in[l].cur \in Nat /\ in[l].cur <= MAX_QUEUE_ELM
  <2>1. /\ round[l[2]] \in DOMAIN prog.fences
        /\ in[l].cur \in DOMAIN prog.fences[round[l[2]]][l]
    BY <1>1, LinkFacts, AskedTypes
  <2> QED
    BY <2>1, LinkFacts, ElementTypes DEF MAX_QUEUE_ELM
<1>9. CASE Zero(l)
  BY <1>1, <1>7, <1>8, <1>9, AddressOf DEF First
<1>10. CASE ~Zero(l)
  BY <1>1, <1>7, <1>10, RequestWord DEF First
<1> QED
  BY <1>9, <1>10

\* A call of the sender's machine can count on Sending: the case that the receiver's
\* word made it choose is the one for the receiver's element.
LEMMA SenderCalls ==
    ASSUME IInv, NEW l \in Link, ~Self(l), NEW case \in {201, 202, 203, 204, 302}, OutCall(l, case)
    PROVE  Sending(l, case)
<1>1. pc[l[1]] = "fence" /\ Busy(out[l]) /\ OutCase(l) = case
  BY DEF OutCall
<1>2. CASE Active(l)
  <2>1. ActiveInv(l) /\ ReceiverInv(l) /\ Asked(l) /\ ~Passed(l)
    BY <1>2, LinkFacts
  <2>2. out[l].st \in {201, 299, 302, 304, 202, 203}
    BY <2>1 DEF ActiveInv
  <2>3. out[l].st = case
    BY <1>1, <2>2 DEF OutCase
  <2>4. Zero(l) => ~Host(l[1])
    BY DEF Zero
  <2>5. (Zero(l) <=> case = 201) /\ (Host(l[1]) <=> case = 302)
    BY <2>1, <2>3, <2>4 DEF ActiveInv
  <2>6. /\ Total(l) \in Nat \ {0} /\ Taken(l) \in Nat /\ Given(l) \in Nat /\ InElem(l).frags \in Nat \ {0}
        /\ out[l].taken \in Nat /\ confirm[l] \in Nat /\ request[l] \in Nat /\ First(l) \in Nat \ {0}
        /\ out[l].completed \in Nat
    BY <2>1, LinkFacts, AskedTypes, QueueTypes
  <2>7. Given(l) < Total(l) /\ Taken(l) <= confirm[l] /\ confirm[l] <= Given(l) /\ 1 <= Wanted(l)
    BY <2>1, <2>3, <2>6 DEF ActiveInv
  <2>8. request[l] # 0
    <3> SUFFICES ASSUME request[l] = 0 PROVE FALSE
      OBVIOUS
    <3>1. Wanted(l) = Total(l) + 1
      BY <1>2 DEF Wanted
    <3>2. Wanted(l) <= Taken(l) + 1
      BY <2>1 DEF ReceiverInv
    <3> QED
      BY <2>6, <2>7, <3>1, <3>2
  <2>9. OutElem(l) = InElem(l) /\ round[l[1]] = round[l[2]] /\ out[l].cur = in[l].cur
    BY <2>1, <1>1, LinkFacts, SameElement
  <2>10. CASE Zero(l)
    <3>1. Given(l) = 0 /\ Total(l) = 1 /\ out[l].st = 201
      BY <2>3, <2>5, <2>10 DEF Given, Total
    <3>2. confirm[l] = 0
      BY <2>6, <2>7, <3>1
    <3>3. Of(SRing(l), "confirm", l) = {}
      <4>1. Run(SRing(l), "confirm", l, 1, Total(l), 0, 0)
        BY <2>1, <3>1, <3>2 DEF ActiveInv
      <4> QED
        BY <4>1, RunNone
    <3>4. /\ out[l].completed <= out[l].taken /\ out[l].taken - out[l].completed <= BPQ
          /\ out[l].taken < InElem(l).frags
          /\ out[l].address = Address(round[l[2]], in[l].cur)
          /\ Run(SRing(l), "out", l, 1, InElem(l).frags, out[l].completed, out[l].taken)
          /\ Noted(SRing(l), "out", l, out[l].cur)
      BY <2>1, <2>10, <3>1 DEF ActiveInv
    <3> QED
      BY <2>1, <2>3, <2>5, <2>7, <2>8, <2>9, <2>10, <3>1, <3>2, <3>3, <3>4 DEF Sending
  <2>11. CASE ~Zero(l)
    <3>1. Given(l) = out[l].taken /\ Total(l) = InElem(l).frags /\ First(l) = 1
      BY <2>11 DEF Given, Total, First
    <3>2. request[l] = Wanted(l)
      BY <2>6, <2>8, <3>1 DEF Wanted, Rank
    <3>3. /\ Run(SRing(l), "confirm", l, 1, Total(l), confirm[l], out[l].taken)
          /\ Of(SRing(l), "out", l) = {}
          /\ Host(l[1]) => confirm[l] = out[l].taken /\ in[l].taken <= confirm[l]
      BY <2>1, <2>11, <3>1 DEF ActiveInv
    <3>4. case # 204
      BY <2>2, <2>3
    <3> QED
      BY <2>1, <2>3, <2>5, <2>7, <2>8, <2>9, <2>11, <3>1, <3>2, <3>3, <3>4 DEF Sending
  <2> QED
    BY <2>10, <2>11
<1>3. CASE ~Active(l)
  <2>1. out[l].st = 0 /\ request[l] # 0
    BY <1>1, <1>3 DEF Active, OutCase
  <2>2. /\ IdleInv(l) /\ request[l] = First(l) /\ Wanted(l) = 1
        /\ AsksZeroCopy(request[l]) <=> Zero(l)
        /\ Zero(l) => AddressIn(request[l]) = Address(round[l[2]], in[l].cur)
    BY <1>3, <2>1, FirstRequest
  <2>3. Asked(l) /\ ~Passed(l)
    BY <2>1, LinkFacts
  <2>4. OutElem(l) = InElem(l) /\ round[l[1]] = round[l[2]] /\ out[l].cur = in[l].cur
    BY <1>1, <2>3, LinkFacts, SameElement
  <2>5. Zero(l) => ~Host(l[1])
    BY DEF Zero
  <2>6. (Zero(l) <=> case \in {201, 204}) /\ (Host(l[1]) <=> case = 302)
    BY <1>1, <2>1, <2>2, <2>5 DEF OutCase
  <2>7. Rested(out[l])
    BY <2>1, LinkFacts, QueueTypes DEF QueueInv
  <2>8. InElem(l).frags \in Nat \ {0} /\ BPQ \in Nat
    BY <2>3, LinkFacts, AskedTypes, BpqAssumption
  <2>9. confirm[l] = 0 /\ Taken(l) = 0 /\ in[l].taken = 0
        /\ Of(SRing(l), "confirm", l) = {} /\ Of(SRing(l), "out", l) = {}
    BY <2>2 DEF IdleInv, Quiet, Rested
  <2>10. out[l].taken = 0 /\ out[l].completed = 0
    BY <2>7 DEF Rested
  <2>11. /\ Run(SRing(l), "out", l, 1, InElem(l).frags, 0, 0)
         /\ Run(SRing(l), "confirm", l, 1, Total(l), 0, 0)
         /\ Noted(SRing(l), "out", l, out[l].cur)
    BY <2>9, RunEmpty DEF Noted
  <2>12. ~Zero(l) => request[l] = Wanted(l)
    BY <2>2 DEF First
  <2> QED
    BY <2>1, <2>2, <2>3, <2>4, <2>6, <2>8, <2>9, <2>10, <2>11, <2>12 DEF Sending
<1> QED
  BY <1>2, <1>3

\* A step of the sender leaves what is known of the receiver.
LEMMA ReceiverKept ==
    ASSUME IInv, UNCHANGED <<prog, pc, round>>, NEW l \in Link, ~Self(l), Asked(l),
           in'[l] = in[l], request'[l] = request[l], RRing(l)' = RRing(l),
           request[l] # 0 \/ ((Active(l) \/ Passed(l))' <=> (Active(l) \/ Passed(l)))
    PROVE  /\ Asked(l)' /\ InElem(l)' = InElem(l)
           /\ (Zero(l)' <=> Zero(l)) /\ (Host(l[1])' <=> Host(l[1]))
           /\ First(l)' = First(l) /\ Total(l)' = Total(l)
           /\ Taken(l)' = Taken(l) /\ Wanted(l)' = Wanted(l)
           /\ ReceiverInv(l)'
<1>1. ReceiverInv(l)
  BY LinkFacts DEF LinkInv
<1>2. InElem(l)' = InElem(l) /\ \A p : Host(p)' <=> Host(p)
  BY DEF InElem, Elements, Host
<1>3. (Zero(l)' <=> Zero(l)) /\ (Gets(l)' <=> Gets(l)) /\ (Fetches(l)' <=> Fetches(l))
  BY <1>2 DEF Zero, Gets, Fetches
<1>4. First(l)' = First(l) /\ Total(l)' = Total(l) /\ Taken(l)' = Taken(l)
  BY <1>2, <1>3 DEF First, Total, Taken
<1>5. Wanted(l)' = Wanted(l)
  BY <1>4 DEF Wanted
<1>6. ReceiverInv(l)'
  BY <1>1, <1>2, <1>3, <1>4, <1>5 DEF ReceiverInv
<1> QED
  BY <1>2, <1>3, <1>4, <1>5, <1>6 DEF Asked

\* The element at which a sender is in its loop.
LEMMA SenderElement ==
    ASSUME IInv, NEW l \in Link, pc[l[1]] = "fence", Busy(out[l])
    PROVE  /\ round[l[1]] \in DOMAIN prog.fences
           /\ out[l].cur \in DOMAIN prog.fences[round[l[1]]][l]
           /\ OutElem(l) \in Elem /\ OutElem(l).frags \in Nat \ {0}
           /\ round[l[1]] \in Nat /\ out[l].cur \in Nat
<1>1. TypeInv /\ PlaceInv
  BY DEF IInv
<1>2. /\ round[l[1]] \in DOMAIN prog.fences
      /\ out[l].cur \in DOMAIN prog.fences[round[l[1]]][l]
      /\ OutElem(l) \in Elem /\ OutElem(l).frags \in Nat \ {0}
  BY <1>1, QueueTypes, AtElement DEF OutElem
<1> QED
  BY <1>1, <1>2, ElementTypes

\* A call of the sender that moves data: it appends t to its ring.
SendStep(l, case, t) ==
    /\ OutCall(l, case)
    /\ out' \in [Link -> Queues] /\ \A m \in Link \ {l} : out'[m] = out[m]
    /\ out'[l].nElm = out[l].nElm /\ out'[l].cur = out[l].cur /\ out'[l].st # 0
    /\ request' = request /\ DOMAIN mem' = DOMAIN mem
    /\ confirm' \in [Link -> Nat] /\ \A m \in Link \ {l} : confirm'[m] = confirm[m]
    /\ dma' = [dma EXCEPT ![l[1]] = @ \o t]
    /\ t # <<>> => ~Host(l[1])
    /\ \A j \in DOMAIN t : /\ RequestOf(l[1], t[j]) /\ Kind(t[j]) # "none" /\ LinkOf(t[j]) = l
                           /\ CopiesAt(t[j], round, out', in')

\* Such a call leaves the sender's side to be shown.
LEMMA SenderFrame ==
    ASSUME IInv, NEW l \in Link, ~Self(l), NEW case \in {201, 202, 203, 204, 302},
           NEW t \in Seq(DmaRequests), SendStep(l, case, t),
           ReceiverInv(l)' => ActiveInv(l)'
    PROVE  IInv'
<1> USE DEF SendStep
<1>1. /\ Asked(l) /\ ~Passed(l) /\ request[l] # 0
  BY SenderCalls DEF Sending
<1>2. /\ UNCHANGED <<prog, pc, round, in>>
      /\ pc[l[1]] = "fence" /\ Busy(out[l])
  BY DEF OutCall
<1>3. /\ TypeInv /\ PlaceInv /\ OrderInv(l) /\ l[1] # l[2] /\ l[1] \in Proc /\ l[2] \in Proc
      /\ out[l] \in Queues /\ in[l] \in Queues /\ QueueInv(out[l], l[1], l) /\ QueueInv(in[l], l[2], l)
  BY LinkFacts, QueueTypes
<1>4. out' \in [Link -> Queues] /\ \A m \in Link \ {l} : out'[m] = out[m]
  OBVIOUS
<1>5. in' \in [Link -> Queues] /\ request' \in [Link -> Nat]
  BY <1>2, <1>3 DEF TypeInv
<1>6. QueueInv(out'[l], l[1], l)
  BY <1>2, <1>3, <1>4 DEF QueueInv, Busy
<1>7. RRing(l)' = RRing(l)
  BY <1>3 DEF RRing, TypeInv
<1>8. ReceiverInv(l)' /\ Asked(l)'
  BY <1>1, <1>2, <1>7, ReceiverKept
<1>9. Active(l)'
  BY <1>4 DEF Active
<1>10. \A r, e : (OutDone(l, r, e)' <=> OutDone(l, r, e)) /\ (InDone(l, r, e)' <=> InDone(l, r, e))
  BY <1>2, <1>4 DEF OutDone, InDone
<1>11. OrderInv(l)'
  <2>1. round' = round /\ in'[l].cur = in[l].cur /\ (Asked(l) => Asked(l)')
    BY <1>2, <1>8
  <2> QED
    BY <1>2, <1>3, <1>10, <2>1, OrderKept
<1>12. ~Passed(l)'
  BY <1>1, <1>2, <1>4 DEF Passed, OutDone
<1>13. LinkInv(l)'
  BY <1>8, <1>9, <1>12 DEF LinkInv
<1>14. /\ out'[l].cur = out[l].cur /\ in'[l].cur = in[l].cur /\ QueueInv(in'[l], l[2], l)
       /\ \A m \in Link \ {l} : out'[m] = out[m] /\ in'[m] = in[m]
  BY <1>2, <1>3, <1>4
<1>15. EndStep(l, l[1], t)
  BY <1>2, <1>4, <1>5, <1>6, <1>14 DEF EndStep
<1> QED
  BY <1>3, <1>11, <1>13, <1>15, EndFrame

\* What a call of the sender that sends fragment n leaves in its queue.
Update(q, n, st) == [q EXCEPT !.taken = n, !.st = st]

\* The fields of that queue.
LEMMA QueueUpdate ==
    ASSUME NEW q \in Queues, NEW n, NEW st
    PROVE  /\ n \in Nat /\ st \in States => Update(q, n, st) \in Queues
           /\ Update(q, n, st).taken = n /\ Update(q, n, st).st = st
           /\ Update(q, n, st).nElm = q.nElm /\ Update(q, n, st).cur = q.cur
BY DEF Queues, Update

\* A request that writes v to the word confirm of link l, after its copies.
LEMMA ConfirmRequest ==
    ASSUME NEW l \in Link, ~Self(l), NEW v \in Nat \ {0}, NEW copies \in Seq(CopySet)
    PROVE  LET x == DmaRequest(copies, Confirm(l, v), NoNote)
           IN  /\ x \in DmaRequests /\ RequestOf(l[1], x)
               /\ Kind(x) = "confirm" /\ LinkOf(x) = l /\ Value(x) = v /\ x.copies = copies
<1> DEFINE x == DmaRequest(copies, Confirm(l, v), NoNote)
<1>1. Kind(x) = "confirm" /\ LinkOf(x) = l /\ Value(x) = v
  BY Constructors
<1>2. x \in DmaRequests
  BY WordTypes
<1>3. x.copies = copies /\ x.note = NoNote
  BY DEF DmaRequest
<1> HIDE DEF x
<1>4. RequestOf(l[1], x)
  BY <1>1, <1>3 DEF RequestOf
<1> QED
  BY <1>1, <1>2, <1>3, <1>4 DEF x

\* The puts into staging buffers, and the buffers that a host announces: `last'
\* is the state after the last one, `copies' what the put copies.
BufferedSend(l, case, last, copies) ==
    /\ OutCall(l, case) /\ ~WindowShut(l)
    /\ last = IF case = 302 THEN 304 ELSE 299
    /\ out' = [out EXCEPT ![l].taken = out[l].taken + 1, ![l].st = IF LastTaken(l) THEN last ELSE case]
    /\ request' = request /\ DOMAIN mem' = DOMAIN mem
    /\ CopiesAt(DmaRequest(copies, Confirm(l, out[l].taken + 1), NoNote), round, out', in)
    /\ IF Host(l[1])
       THEN confirm' = [confirm EXCEPT ![l] = out[l].taken + 1] /\ dma' = dma
       ELSE /\ Dispatch(l[1], <<DmaRequest(copies, Confirm(l, out[l].taken + 1), NoNote)>>)
            /\ confirm' = confirm

\* A call that sends one fragment through a buffer (cases 202, 203 and 302 of
\* emb_process_outgoing) keeps the invariant.
LEMMA SendBuffered ==
    ASSUME IInv, NEW l \in Link, ~Self(l), NEW case \in {202, 203, 302}, NEW last,
           NEW copies \in Seq(CopySet), BufferedSend(l, case, last, copies)
    PROVE  IInv'
<1>1. TypeInv /\ PlaceInv /\ l[1] # l[2] /\ l[1] \in Proc /\ l[2] \in Proc
  BY LinkFacts, LinkEnds
<1>2. out \in [Link -> Queues] /\ confirm \in [Link -> Nat] /\ dma \in [Proc -> Seq(DmaRequests)]
  BY <1>1 DEF TypeInv
<1>3. OutCall(l, case) /\ request' = request /\ DOMAIN mem' = DOMAIN mem
  BY DEF BufferedSend
<1>4. Sending(l, case)
  BY <1>3, SenderCalls
<1>5. PICK k \in Nat : k = out[l].taken
  BY <1>1, QueueTypes
<1>6. PICK n \in Nat \ {0} : n = k + 1
  OBVIOUS
<1>7. /\ k \in Int /\ confirm[l] \in Nat /\ confirm[l] \in Int
      /\ n \in Nat /\ n \in Int /\ k <= n
      /\ SRing(l) \in Seq(DmaRequests)
  BY <1>1, <1>6, QueueTypes
<1>8. ~Zero(l) /\ Asked(l) /\ (Host(l[1]) <=> case = 302)
  BY <1>4 DEF Sending
<1>9. /\ Total(l) = InElem(l).frags /\ Total(l) \in Nat \ {0} /\ Given(l) = k
      /\ Taken(l) \in Nat /\ Wanted(l) \in Nat
  BY <1>1, <1>8, <1>5, AskedTypes DEF Total, Given
<1>10. /\ k < Total(l) /\ Taken(l) <= confirm[l] /\ confirm[l] <= k /\ 1 <= Wanted(l)
       /\ request[l] = Wanted(l) /\ OutElem(l) = InElem(l)
       /\ Run(SRing(l), "confirm", l, 1, Total(l), confirm[l], k)
       /\ Of(SRing(l), "out", l) = {}
       /\ Host(l[1]) => confirm[l] = k /\ in[l].taken <= confirm[l]
       /\ request[l] # 0 /\ round[l[1]] = round[l[2]] /\ out[l].cur = in[l].cur
  BY <1>4, <1>8, <1>9, <1>5 DEF Sending
<1>11. n <= Total(l) /\ n <= Wanted(l) - 1 + BPQ
  <2>1. ~WindowShut(l)
    BY DEF BufferedSend
  <2>2. ~(k - (request[l] - 1) >= BPQ)
    BY <2>1, <1>5 DEF WindowShut
  <2>3. /\ k \in Int /\ Total(l) \in Int /\ Wanted(l) \in Int /\ BPQ \in Int
        /\ k < Total(l) /\ request[l] = Wanted(l)
    BY <1>7, <1>9, <1>10, BpqAssumption
  <2> QED
    BY <1>6, <2>2, <2>3
<1>12. PICK st \in States \ {0} : st = IF n = Total(l) THEN last ELSE case
  BY DEF BufferedSend, States
<1>13. PICK x \in DmaRequests : /\ x = DmaRequest(copies, Confirm(l, n), NoNote) /\ RequestOf(l[1], x)
                                /\ Kind(x) = "confirm" /\ LinkOf(x) = l /\ Value(x) = n
  BY ConfirmRequest
<1>14. /\ out' = [out EXCEPT ![l].taken = n, ![l].st = st]
       /\ CopiesAt(x, round, out', in)
       /\ IF Host(l[1]) THEN confirm' = [confirm EXCEPT ![l] = n] /\ dma' = dma
          ELSE dma' = [dma EXCEPT ![l[1]] = @ \o <<x>>] /\ confirm' = confirm
  <2>1. LastTaken(l) <=> n = Total(l)
    BY <1>10, <1>9, <1>5, <1>6 DEF LastTaken
  <2>2. out[l].taken + 1 = n /\ st = IF LastTaken(l) THEN last ELSE case
    BY <1>12, <1>5, <1>6, <2>1
  <2>3. /\ out' = [out EXCEPT ![l].taken = out[l].taken + 1, ![l].st = IF LastTaken(l) THEN last ELSE case]
        /\ CopiesAt(DmaRequest(copies, Confirm(l, out[l].taken + 1), NoNote), round, out', in)
    BY DEF BufferedSend
  <2>4. IF Host(l[1]) THEN confirm' = [confirm EXCEPT ![l] = out[l].taken + 1] /\ dma' = dma
        ELSE /\ dma' = [dma EXCEPT ![l[1]] = @ \o <<DmaRequest(copies, Confirm(l, out[l].taken + 1), NoNote)>>]
             /\ confirm' = confirm
    BY DEF BufferedSend, Dispatch
  <2>5. x = DmaRequest(copies, Confirm(l, out[l].taken + 1), NoNote)
    BY <1>13, <2>2
  <2> QED
    BY <2>2, <2>3, <2>4, <2>5
<1>15. /\ out' \in [Link -> Queues] /\ \A m \in Link \ {l} : out'[m] = out[m]
       /\ out'[l].nElm = out[l].nElm /\ out'[l].cur = out[l].cur /\ out'[l].taken = n /\ out'[l].st = st
  <2>1. out \in [Link -> Queues] /\ n \in Nat /\ st \in States /\ out' = [out EXCEPT ![l].taken = n, ![l].st = st]
    BY <1>7, <1>2, <1>14
  <2>2. \A m \in Link \ {l} : out'[m] = out[m]
    BY <2>1
  <2>3. out'[l] = [out[l] EXCEPT !.taken = n, !.st = st] /\ out[l] \in Queues
    BY <2>1
  <2>4. /\ out'[l] \in Queues /\ out'[l].taken = n /\ out'[l].st = st
        /\ out'[l].nElm = out[l].nElm /\ out'[l].cur = out[l].cur
    <3>1. out'[l] = Update(out[l], n, st)
      BY <2>3 DEF Update
    <3>2. out[l] \in Queues /\ n \in Nat /\ st \in States
      BY <2>1, <2>3
    <3>3. PICK q : q = out[l]
      OBVIOUS
    <3>4. PICK g : g = out'[l]
      OBVIOUS
    <3>5. g = Update(q, n, st) /\ q \in Queues
      BY <3>1, <3>2, <3>3, <3>4
    <3>6. g \in Queues
      BY <3>2, <3>5, QueueUpdate
    <3>7. g.taken = n
      BY <3>2, <3>5, QueueUpdate
    <3>8. g.st = st
      BY <3>2, <3>5, QueueUpdate
    <3>9. g.nElm = q.nElm /\ g.cur = q.cur
      BY <3>2, <3>5, QueueUpdate
    <3> QED
      BY <3>3, <3>4, <3>6, <3>7, <3>8, <3>9
  <2>5. out' \in [Link -> Queues]
    BY <2>1, <2>2, <2>4
  <2> QED
    BY <2>2, <2>4, <2>5
<1> DEFINE t == IF Host(l[1]) THEN <<>> ELSE <<x>>
<1>16. /\ t \in Seq(DmaRequests) /\ dma' = [dma EXCEPT ![l[1]] = @ \o t] /\ (t # <<>> => ~Host(l[1]))
       /\ SRing(l)' = SRing(l) \o t /\ RRing(l)' = RRing(l)
  <2>1. CASE Host(l[1])
    <3>1. t = <<>> /\ dma' = dma
      BY <1>14, <2>1
    <3>2. dma[l[1]] \o <<>> = dma[l[1]] /\ <<>> \in Seq(DmaRequests)
      BY <1>1, <1>2
    <3>3. dma' = [dma EXCEPT ![l[1]] = @ \o <<>>]
      BY <1>1, <1>2, <3>1, <3>2
    <3> QED
      BY <2>1, <3>1, <3>2, <3>3 DEF SRing, RRing
  <2>2. CASE ~Host(l[1])
    <3>1. t = <<x>> /\ <<x>> \in Seq(DmaRequests)
      BY <2>2
    <3>2. dma' = [dma EXCEPT ![l[1]] = @ \o <<x>>]
      BY <1>14, <2>2
    <3>3. dma'[l[1]] = dma[l[1]] \o <<x>> /\ dma'[l[2]] = dma[l[2]]
      BY <1>1, <1>2, <3>2
    <3> QED
      BY <2>2, <3>1, <3>2, <3>3 DEF SRing, RRing
  <2> QED
    BY <2>1, <2>2
<1>17. prog' = prog /\ pc' = pc /\ round' = round /\ in' = in /\ Busy(out[l])
  BY <1>3 DEF OutCall
<1>18. \A j \in DOMAIN t : /\ RequestOf(l[1], t[j]) /\ Kind(t[j]) # "none" /\ LinkOf(t[j]) = l
                           /\ CopiesAt(t[j], round, out', in')
  BY <1>14, <1>13, <1>17
<1>19. /\ confirm' \in [Link -> Nat] /\ \A m \in Link \ {l} : confirm'[m] = confirm[m]
       /\ confirm'[l] = IF Host(l[1]) THEN n ELSE confirm[l]
  <2>1. confirm' = IF Host(l[1]) THEN [confirm EXCEPT ![l] = n] ELSE confirm
    BY <1>14
  <2> QED
    BY <1>7, <1>2, <2>1
<1>20. ASSUME ReceiverInv(l)' PROVE ActiveInv(l)'
  <2>1. /\ InElem(l)' = InElem(l)
        /\ (Zero(l)' <=> Zero(l)) /\ (Host(l[1])' <=> Host(l[1]))
        /\ Total(l)' = Total(l) /\ Taken(l)' = Taken(l) /\ Wanted(l)' = Wanted(l)
    <3>1. in'[l] = in[l] /\ request'[l] = request[l] /\ request[l] # 0
      BY <1>10, <1>3, <1>17
    <3> QED
      BY <1>8, <1>16, <1>17, <3>1, ReceiverKept
  <2>2. Given(l)' = n
    BY <1>8, <1>15, <2>1 DEF Given
  <2>3. Run(SRing(l)', "confirm", l, 1, Total(l), confirm'[l], n)
    <3>1. CASE Host(l[1])
      <4>1. Run(SRing(l), "confirm", l, 1, Total(l), k, k) /\ k \in Int /\ k <= k
        BY <1>7, <1>10, <3>1
      <4>2. Of(SRing(l), "confirm", l) = {}
        BY <4>1, RunNone
      <4>3. SRing(l)' = SRing(l)
        BY <1>14, <3>1 DEF SRing
      <4> QED
        BY <4>2, <4>3, RunEmpty
    <3>2. CASE ~Host(l[1])
      <4>1. SRing(l)' = SRing(l) \o <<x>> /\ confirm'[l] = confirm[l]
        BY <1>16, <1>19, <3>2
      <4>2. Rank(Value(x), 1, Total(l)) \in k + 1 .. n
        BY <1>7, <1>6, <1>13 DEF Rank
      <4>3. /\ confirm[l] <= k /\ k <= n /\ Run(SRing(l), "confirm", l, 1, Total(l), confirm[l], k)
            /\ SRing(l) \in Seq(DmaRequests) /\ x \in DmaRequests /\ k \in Int /\ n \in Int /\ confirm[l] \in Int
        BY <1>7, <1>10
      <4> QED
        BY <4>1, <4>2, <4>3, RunAppend
    <3> QED
      BY <3>1, <3>2
  <2>4. Of(SRing(l)', "out", l) = {}
    <3>1. Of(SRing(l), "out", l) = {}
      BY <1>10
    <3>2. CASE Host(l[1])
      BY <1>7, <1>16, <3>1, <3>2
    <3>3. CASE ~Host(l[1])
      <4>1. SRing(l)' = SRing(l) \o <<x>> /\ SRing(l) \in Seq(DmaRequests) /\ x \in DmaRequests /\ Kind(x) # "out"
        BY <1>7, <1>13, <1>16, <3>3
      <4> QED
        BY <3>1, <4>1, RestAppend
    <3> QED
      BY <3>2, <3>3
  <2>5. /\ Busy(out[l])' /\ round'[l[1]] = round'[l[2]] /\ out'[l].cur = in'[l].cur
    BY <1>10, <1>15, <1>17 DEF Busy
  <2>6. Host(l[1]) => in'[l].taken <= confirm'[l]
    <3>1. in[l].taken \in Nat
      BY <1>1, QueueTypes
    <3> QED
      BY <1>7, <1>10, <1>17, <1>19, <3>1
  <2>7. out'[l].st = IF n = Total(l) THEN last ELSE case
    BY <1>12, <1>15
  <2>8. /\ out'[l].st \in (IF Host(l[1]) THEN {302, 304} ELSE {202, 203, 299})
        /\ out'[l].st \in {299, 304} <=> n = Total(l)
    BY <1>8, <2>7 DEF BufferedSend
  <2>9. Taken(l) <= confirm'[l] /\ confirm'[l] <= n /\ (Host(l[1]) => confirm'[l] = n)
    BY <1>7, <1>9, <1>10, <1>19
  <2> HIDE DEF t
  <2>10. 1 <= Wanted(l)' /\ n <= Total(l)' /\ n <= Wanted(l)' - 1 + BPQ
    BY <1>11, <1>10, <2>1
  <2>11. ~Zero(l)'
    BY <1>8, <2>1
  <2>12. Zero(l)' <=> FALSE
    BY <2>11
  <2>13. /\ Busy(out[l])'
         /\ (round[l[1]] = round[l[2]] /\ out[l].cur = in[l].cur)'
    BY <2>5
  <2>14. (out[l].st \in (IF Zero(l) THEN {201, 299} ELSE IF Host(l[1]) THEN {302, 304} ELSE {202, 203, 299}))'
    BY <2>1, <2>8, <2>12
  <2>15. (out[l].st \in {299, 304} <=> Given(l) = Total(l))'
    BY <2>1, <2>2, <2>8
  <2>16. (/\ Given(l) <= Total(l)
          /\ 1 <= Wanted(l) /\ Taken(l) <= confirm[l] /\ confirm[l] <= Given(l))'
    BY <2>1, <2>2, <2>9, <2>10
  <2>17. (Host(l[1]) => confirm[l] = Given(l) /\ in[l].taken <= confirm[l])'
    BY <2>1, <2>2, <2>6, <2>9
  <2>18. (~Zero(l) => Given(l) <= Wanted(l) - 1 + BPQ)'
    BY <2>2, <2>10
  <2>19. Run(SRing(l), "confirm", l, 1, Total(l), confirm[l], Given(l))'
    BY <2>1, <2>2, <2>3
  <2> QED
    BY <2>4, <2>12, <2>13, <2>14, <2>15, <2>16, <2>17, <2>18, <2>19 DEF ActiveInv
<1> HIDE DEF t
<1>21. SendStep(l, case, t)
  BY <1>12, <1>15, <1>3, <1>16, <1>18, <1>19 DEF SendStep
<1> QED
  BY <1>16, <1>20, <1>21, SenderFrame

\* One copy between buffers, or from user memory of the sender to a buffer.
LEMMA OneCopy ==
    ASSUME IInv, NEW l \in Link, pc[l[1]] = "fence", Busy(out[l]), NEW n \in Nat \ {0},
           out'[l].cur = out[l].cur,
           NEW c, c = Copy(OutBuf(l, out[l].taken), InBuf(l, out[l].taken))
                  \/ c = Copy(Src(l, out[l].taken), InBuf(l, out[l].taken))
    PROVE  /\ <<c>> \in Seq(CopySet)
           /\ CopiesAt(DmaRequest(<<c>>, Confirm(l, n), NoNote), round, out', in)
<1>1. TypeInv /\ PlaceInv
  BY DEF IInv
<1>2. PICK k \in Nat : k = out[l].taken
  BY <1>1, QueueTypes
<1>3. PICK r \in Nat : r = round[l[1]]
  BY SenderElement
<1>4. PICK e \in Nat : e = out[l].cur
  BY SenderElement
<1>5. OutBuf(l, k) \in Cells(prog.fences) /\ InBuf(l, k) \in Cells(prog.fences)
  BY <1>1, Buffers
<1>6. Src(l, k) = <<"src", l, r, e, k>>
  BY <1>3, <1>4 DEF Src, SrcCell
<1>7. OutBuf(l, k)[1] = "out" /\ InBuf(l, k)[1] = "in"
  BY DEF OutBuf, InBuf
<1>8. /\ c.to = InBuf(l, k) /\ (c.from = OutBuf(l, k) \/ c.from = <<"src", l, r, e, k>>)
      /\ c = [from |-> c.from, to |-> c.to]
  BY <1>2, <1>6 DEF Copy
<1>9. c.from \in Cells(prog.fences) \union ({"src"} \X Link \X Nat \X Nat \X Nat) /\ c.to \in Cells(prog.fences)
  <2>1. <<"src", l, r, e, k>> \in {"src"} \X Link \X Nat \X Nat \X Nat
    OBVIOUS
  <2> QED
    BY <1>5, <1>8, <2>1
<1>10. c \in CopySet
  BY <1>8, <1>9 DEF CopySet
<1>11. PICK x : x = DmaRequest(<<c>>, Confirm(l, n), NoNote)
  OBVIOUS
<1>12. Kind(x) = "confirm" /\ LinkOf(x) = l /\ Value(x) = n
  BY <1>11, Constructors
<1>13. x.copies = <<c>>
  BY <1>11 DEF DmaRequest
<1>14. c.to[1] # "dst"
  BY <1>7, <1>8
<1>15. c.from[1] = "src" => c.from[2] = l /\ c.from[3] = r /\ c.from[4] = e
  BY <1>7, <1>8
<1>16. \A i \in DOMAIN <<c>> : <<c>>[i] = c
  OBVIOUS
<1>17. CopiesAt(x, round, out', in)
  BY <1>3, <1>4, <1>12, <1>13, <1>14, <1>15, <1>16 DEF CopiesAt
<1> QED
  BY <1>10, <1>11, <1>17

\* A put that copies nothing.
LEMMA NoCopy ==
    ASSUME NEW w, NEW note
    PROVE  <<>> \in Seq(CopySet) /\ CopiesAt(DmaRequest(<<>>, w, note), round', out', in')
<1>1. DmaRequest(<<>>, w, note).copies = <<>>
  BY DEF DmaRequest
<1> QED
  BY <1>1 DEF CopiesAt

\* The call of the host stores its confirmation.
LEMMA HostWrites ==
    ASSUME NEW p, Host(p), NEW l, NEW v
    PROVE  /\ PioWriteRemote(p, Confirm(l, v)) =>
                  request' = request /\ confirm' = [confirm EXCEPT ![l] = v] /\ dma' = dma
           /\ PioWriteRemote(p, Request(l, v)) =>
                  confirm' = confirm /\ request' = [request EXCEPT ![l] = v] /\ dma' = dma
  BY DEF PioWriteRemote, DispatchAndWrite, StoreWord, Confirm, Request

\* A processor with a ring writes no word itself: it appends a request that does.
LEMMA BoardWrites ==
    ASSUME NEW p \in Proc, ~Host(p), NEW w, PioWriteRemote(p, w)
    PROVE  /\ request' = request /\ confirm' = confirm
           /\ Dispatch(p, <<DmaRequest(<<>>, w, NoNote)>>)
<1>1. <<>> \o <<DmaRequest(<<>>, w, NoNote)>> = <<DmaRequest(<<>>, w, NoNote)>>
  OBVIOUS
<1> QED
  BY <1>1 DEF PioWriteRemote, DispatchAndWrite

\* Such a call does not change the sender's current element.
LEMMA TakenUpdate ==
    ASSUME TypeInv, NEW l \in Link, NEW n, NEW st,
           out' = [out EXCEPT ![l].taken = n, ![l].st = st]
    PROVE  out'[l].cur = out[l].cur
<1>1. out \in [Link -> Queues]
  BY DEF TypeInv
<1>2. out'[l] = Update(out[l], n, st) /\ out[l] \in Queues
  BY <1>1 DEF Update
<1> QED
  BY <1>2, QueueUpdate

\* PutBuffer, which packs a fragment and puts it into the receiver's buffer, keeps the invariant.
LEMMA PutBufferKeeps == ASSUME IInv, NEW l \in Link, ~Self(l), PutBuffer(l) PROVE IInv'
<1>1. TypeInv /\ PlaceInv
  BY DEF IInv
<1> DEFINE k == out[l].taken
           copies == <<Copy(OutBuf(l, k), InBuf(l, k))>>
<1>2. OutCall(l, 202) /\ ~WindowShut(l) /\ pc[l[1]] = "fence" /\ Busy(out[l])
  BY DEF PutBuffer, OutCall
<1>3. Sending(l, 202)
  BY <1>2, SenderCalls
<1>4. ~Host(l[1])
  BY <1>3 DEF Sending
<1>5. /\ out' = [out EXCEPT ![l].taken = k + 1, ![l].st = IF LastTaken(l) THEN 299 ELSE 202]
      /\ Dispatch(l[1], <<DmaRequest(copies, Confirm(l, k + 1), NoNote)>>)
      /\ request' = request /\ confirm' = confirm /\ DOMAIN mem' = DOMAIN mem
  BY DEF PutBuffer
<1>6. k \in Nat /\ k + 1 \in Nat \ {0}
  BY <1>1, QueueTypes
<1>7. out'[l].cur = out[l].cur
  BY <1>1, <1>5, TakenUpdate
<1>8. copies \in Seq(CopySet) /\ CopiesAt(DmaRequest(copies, Confirm(l, k + 1), NoNote), round, out', in)
  BY <1>2, <1>6, <1>7, OneCopy
<1> HIDE DEF copies
<1>9. BufferedSend(l, 202, 299, copies)
  BY <1>2, <1>4, <1>5, <1>8 DEF BufferedSend
<1> QED
  BY <1>8, <1>9, SendBuffered

\* PutDirect, which puts a fragment from user memory into the receiver's buffer, keeps the invariant.
LEMMA PutDirectKeeps == ASSUME IInv, NEW l \in Link, ~Self(l), PutDirect(l) PROVE IInv'
<1>1. TypeInv /\ PlaceInv
  BY DEF IInv
<1> DEFINE k == out[l].taken
           copies == <<Copy(Src(l, k), InBuf(l, k))>>
<1>2. OutCall(l, 203) /\ ~WindowShut(l) /\ pc[l[1]] = "fence" /\ Busy(out[l])
  BY DEF PutDirect, OutCall
<1>3. Sending(l, 203)
  BY <1>2, SenderCalls
<1>4. ~Host(l[1])
  BY <1>3 DEF Sending
<1>5. /\ out' = [out EXCEPT ![l].taken = k + 1, ![l].st = IF LastTaken(l) THEN 299 ELSE 203]
      /\ Dispatch(l[1], <<DmaRequest(copies, Confirm(l, k + 1), NoNote)>>)
      /\ request' = request /\ confirm' = confirm /\ DOMAIN mem' = DOMAIN mem
  BY DEF PutDirect
<1>6. k \in Nat /\ k + 1 \in Nat \ {0}
  BY <1>1, QueueTypes
<1>7. out'[l].cur = out[l].cur
  BY <1>1, <1>5, TakenUpdate
<1>8. copies \in Seq(CopySet) /\ CopiesAt(DmaRequest(copies, Confirm(l, k + 1), NoNote), round, out', in)
  BY <1>2, <1>6, <1>7, OneCopy
<1> HIDE DEF copies
<1>9. BufferedSend(l, 203, 299, copies)
  BY <1>2, <1>4, <1>5, <1>8 DEF BufferedSend
<1> QED
  BY <1>8, <1>9, SendBuffered

\* HostPack, with which the host packs a fragment for the receiver to fetch, keeps the invariant.
LEMMA HostPackKeeps == ASSUME IInv, NEW l \in Link, ~Self(l), HostPack(l) PROVE IInv'
<1>1. TypeInv /\ PlaceInv
  BY DEF IInv
<1> DEFINE k == out[l].taken
           copies == <<>>
<1>2. OutCall(l, 302) /\ ~WindowShut(l)
  BY DEF HostPack
<1>3. Sending(l, 302)
  BY <1>2, SenderCalls
<1>4. Host(l[1])
  BY <1>3 DEF Sending
<1>5. /\ out' = [out EXCEPT ![l].taken = k + 1, ![l].st = IF LastTaken(l) THEN 304 ELSE 302]
      /\ PioWriteRemote(l[1], Confirm(l, k + 1)) /\ DOMAIN mem' = DOMAIN mem
  BY DEF HostPack
<1>6. request' = request /\ confirm' = [confirm EXCEPT ![l] = k + 1] /\ dma' = dma
  BY <1>4, <1>5, HostWrites
<1>7. round' = round /\ in' = in
  BY <1>2 DEF OutCall
<1>8. copies \in Seq(CopySet) /\ CopiesAt(DmaRequest(copies, Confirm(l, k + 1), NoNote), round, out', in)
  BY <1>7, NoCopy
<1> HIDE DEF copies
<1>9. BufferedSend(l, 302, 304, copies)
  BY <1>2, <1>4, <1>5, <1>6, <1>8 DEF BufferedSend
<1> QED
  BY <1>8, <1>9, SendBuffered

\* What a put into user memory leaves: request x is appended, the last one
\* confirms.
ZeroStep(l, case, x) ==
    /\ OutCall(l, case) /\ request' = request /\ confirm' = confirm /\ DOMAIN mem' = DOMAIN mem
    /\ out' \in [Link -> Queues] /\ \A m \in Link \ {l} : out'[m] = out[m]
    /\ out'[l].nElm = out[l].nElm /\ out'[l].cur = out[l].cur /\ out'[l].st \in {201, 299}
    /\ Dispatch(l[1], <<x>>)
    /\ RequestOf(l[1], x) /\ LinkOf(x) = l /\ CopiesAt(x, round, out', in)
    /\ out'[l].completed = out[l].completed /\ out[l].completed <= out'[l].taken
    /\ out'[l].taken - out[l].completed <= BPQ /\ out'[l].taken <= InElem(l).frags
    /\ Run(SRing(l), "out", l, 1, InElem(l).frags, out[l].completed, out'[l].taken - 1)
    /\ IF out'[l].st = 201
       THEN /\ Kind(x) = "out" /\ Value(x) = out'[l].taken /\ x.note.elm = out[l].cur
            /\ out[l].completed < out'[l].taken
            /\ out'[l].taken < InElem(l).frags /\ out'[l].address = Address(round[l[2]], in[l].cur)
       ELSE Kind(x) = "confirm" /\ Value(x) = 1

\* What the ring of the sender then holds.
ZeroRing(l, x) ==
    /\ SRing(l)' = SRing(l) \o <<x>>
    /\ out'[l].st = 201 => /\ Run(SRing(l)', "confirm", l, 1, 1, 0, 0)
                           /\ Run(SRing(l)', "out", l, 1, InElem(l).frags,
                                  out[l].completed, out'[l].taken)
    /\ out'[l].st # 201 => /\ Run(SRing(l)', "confirm", l, 1, 1, 0, 1)
                           /\ Run(SRing(l)', "out", l, 1, InElem(l).frags,
                                  out[l].completed, out'[l].taken - 1)
    /\ Before(SRing(l)', "out", "confirm", l)
    /\ Noted(SRing(l)', "out", l, out[l].cur)

\* The rings after such a call: the requests that note are in order and come before
\* the one that confirms.
LEMMA ZeroRings ==
    ASSUME IInv, NEW l \in Link, ~Self(l), NEW case \in {201, 204},
           NEW x \in DmaRequests, ZeroStep(l, case, x)
    PROVE  ZeroRing(l, x)
<1>1. TypeInv /\ l[1] \in Proc /\ SRing(l) \in Seq(DmaRequests) /\ out[l].completed \in Nat
  BY QueueTypes DEF IInv
<1>2. SRing(l)' = SRing(l) \o <<x>>
  BY <1>1 DEF ZeroStep, Dispatch, SRing, TypeInv
<1>3. Sending(l, case)
  BY SenderCalls DEF ZeroStep
<1>4. Of(SRing(l), "confirm", l) = {} /\ Noted(SRing(l), "out", l, out[l].cur)
  BY <1>3 DEF Sending
<1>5. Before(SRing(l), "out", "confirm", l)
  BY <1>4 DEF Before
<1>6. PICK n \in Nat : n = out'[l].taken
  BY DEF ZeroStep, Queues
<1>7. PICK c \in Nat : c = out[l].completed
  BY <1>1
<1>8. LinkOf(x) = l /\ Run(SRing(l), "out", l, 1, InElem(l).frags, c, n - 1) /\ c <= n
  BY <1>6, <1>7 DEF ZeroStep
<1>9. CASE out'[l].st = 201
  <2>1. Kind(x) = "out" /\ Value(x) = n /\ x.note.elm = out[l].cur /\ c < n
    BY <1>6, <1>7, <1>9 DEF ZeroStep
  <2>2. Of(SRing(l) \o <<x>>, "confirm", l) = {}
    BY <1>1, <1>4, <2>1, RestAppend
  <2>3. n - 1 \in Int /\ c <= n - 1 /\ n - 1 <= n /\ n \in Int /\ c \in Int
    BY <2>1
  <2>4. Rank(Value(x), 1, InElem(l).frags) \in (n - 1) + 1 .. n
    BY <2>1 DEF Rank
  <2>5. Run(SRing(l) \o <<x>>, "out", l, 1, InElem(l).frags, c, n)
    BY <1>1, <1>8, <2>3, <2>4, RunAppend
  <2>6. Noted(<<x>>, "out", l, out[l].cur)
    BY <2>1 DEF Noted, Of
  <2>7. Noted(SRing(l) \o <<x>>, "out", l, out[l].cur)
    <3>1. <<x>> \in Seq(DmaRequests)
      OBVIOUS
    <3>2. PICK e : e = out[l].cur
      OBVIOUS
    <3>3. Noted(SRing(l), "out", l, e) /\ Noted(<<x>>, "out", l, e)
      BY <1>4, <2>6, <3>2
    <3>4. PICK s \in Seq(DmaRequests) : s = SRing(l)
      BY <1>1
    <3>5. PICK t \in Seq(DmaRequests) : t = <<x>>
      BY <3>1
    <3>6. Noted(s \o t, "out", l, e)
      BY <3>3, <3>4, <3>5, ConcatRest
    <3> QED
      BY <3>2, <3>4, <3>5, <3>6
  <2>8. Before(SRing(l) \o <<x>>, "out", "confirm", l)
    BY <2>2 DEF Before
  <2>9. Run(SRing(l) \o <<x>>, "confirm", l, 1, 1, 0, 0)
    BY <2>2, RunEmpty
  <2> QED
    BY <1>2, <1>6, <1>7, <1>9, <2>5, <2>7, <2>8, <2>9 DEF ZeroRing
<1>10. CASE out'[l].st # 201
  <2>1. Kind(x) = "confirm" /\ Value(x) = 1
    BY <1>10 DEF ZeroStep
  <2>2. Noted(SRing(l) \o <<x>>, "out", l, out[l].cur) /\ Before(SRing(l) \o <<x>>, "out", "confirm", l)
    BY <1>1, <1>4, <1>5, <2>1, RestAppend
  <2>3. Rank(Value(x), 1, 1) \in 0 + 1 .. 1
    BY <2>1 DEF Rank
  <2>4. Run(SRing(l), "confirm", l, 1, 1, 0, 0)
    BY <1>4, RunEmpty
  <2>5. Run(SRing(l) \o <<x>>, "confirm", l, 1, 1, 0, 1)
    BY <1>1, <2>3, <2>4, RunAppend
  <2>6. CASE c < n
    <3>1. n - 1 \in Int /\ c \in Int /\ c <= n - 1
      BY <2>6
    <3>2. Run(SRing(l) \o <<x>>, "out", l, 1, InElem(l).frags, c, n - 1)
      BY <1>1, <1>8, <2>1, <3>1, RunAppend
    <3> QED
      BY <1>2, <1>6, <1>7, <1>10, <2>2, <2>5, <3>2 DEF ZeroRing
  <2>7. CASE ~(c < n)
    <3>1. n - 1 \in Int /\ c \in Int /\ n - 1 <= c
      BY <1>8, <2>7
    <3>2. Of(SRing(l), "out", l) = {}
      BY <1>8, <3>1, RunNone
    <3>3. Of(SRing(l) \o <<x>>, "out", l) = {}
      BY <1>1, <2>1, <3>2, RestAppend
    <3>4. Run(SRing(l) \o <<x>>, "out", l, 1, InElem(l).frags, c, n - 1)
      BY <3>3, RunEmpty
    <3> QED
      BY <1>2, <1>6, <1>7, <1>10, <2>2, <2>5, <3>4 DEF ZeroRing
  <2> QED
    BY <2>6, <2>7
<1> QED
  BY <1>9, <1>10 DEF ZeroRing

\* A call that puts into the receiver's user memory keeps the invariant.
LEMMA ZeroKeeps ==
    ASSUME IInv, NEW l \in Link, ~Self(l), NEW case \in {201, 204},
           NEW x \in DmaRequests, ZeroStep(l, case, x)
    PROVE  IInv'
<1>1. TypeInv /\ PlaceInv /\ l[1] # l[2] /\ l[1] \in Proc /\ l[2] \in Proc
  BY LinkFacts, LinkEnds
<1>2. Sending(l, case) /\ UNCHANGED <<prog, pc, round, in, request>>
  BY SenderCalls DEF ZeroStep, OutCall
<1>3. /\ Zero(l) /\ Asked(l) /\ ~Host(l[1]) /\ request[l] # 0 /\ 1 <= Wanted(l) /\ Taken(l) <= confirm[l]
      /\ confirm[l] = 0 /\ round[l[1]] = round[l[2]] /\ out[l].cur = in[l].cur
  BY <1>2 DEF Sending, Zero
<1>4. <<x>> \in Seq(DmaRequests) /\ <<x>> # <<>> /\ \A j \in DOMAIN <<x>> : <<x>>[j] = x
  OBVIOUS
<1>5. confirm \in [Link -> Nat] /\ confirm' = confirm
  BY <1>1 DEF TypeInv, ZeroStep
<1>6. SendStep(l, case, <<x>>)
  <2>1. Kind(x) # "none"
    BY DEF ZeroStep
  <2>2. out'[l].st # 0 /\ dma' = [dma EXCEPT ![l[1]] = @ \o <<x>>]
    BY DEF ZeroStep, Dispatch
  <2>3. \A j \in DOMAIN <<x>> : /\ RequestOf(l[1], <<x>>[j]) /\ Kind(<<x>>[j]) # "none" /\ LinkOf(<<x>>[j]) = l
                                /\ CopiesAt(<<x>>[j], round, out', in')
    BY <1>2, <1>4, <2>1 DEF ZeroStep
  <2> QED
    BY <1>3, <1>5, <2>2, <2>3 DEF ZeroStep, SendStep
<1>7. ZeroRing(l, x)
  BY ZeroRings
<1>8. ASSUME ReceiverInv(l)' PROVE ActiveInv(l)'
  <2>1. /\ InElem(l)' = InElem(l) /\ Zero(l)' /\ ~Host(l[1])'
        /\ Total(l)' = 1 /\ Taken(l)' = Taken(l) /\ Wanted(l)' = Wanted(l)
    <3>1. in'[l] = in[l] /\ request'[l] = request[l] /\ RRing(l)' = RRing(l) /\ Total(l) = 1
      BY <1>1, <1>2, <1>3 DEF Total, RRing, TypeInv, ZeroStep, Dispatch
    <3> QED
      BY <1>2, <1>3, <3>1, ReceiverKept
  <2>2. /\ Busy(out[l])' /\ (round[l[1]] = round[l[2]] /\ out[l].cur = in[l].cur)'
    BY <1>2, <1>3 DEF ZeroStep, OutCall, Busy
  <2>3. PICK st : st = out'[l].st
    OBVIOUS
  <2>4. st \in {201, 299} /\ Given(l)' = (IF st = 201 THEN 0 ELSE 1)
    BY <2>1, <2>3 DEF Given, ZeroStep
  <2>5. (out[l].st \in (IF Zero(l) THEN {201, 299} ELSE IF Host(l[1]) THEN {302, 304} ELSE {202, 203, 299}))'
    BY <2>1, <2>3, <2>4
  <2>6. (out[l].st \in {299, 304} <=> Given(l) = Total(l))' /\ (Given(l) <= Total(l))'
    BY <2>1, <2>3, <2>4
  <2>7. (1 <= Wanted(l) /\ Taken(l) <= confirm[l] /\ confirm[l] <= Given(l))'
    BY <1>3, <1>5, <2>1, <2>4
  <2>8. (Run(SRing(l), "confirm", l, 1, Total(l), confirm[l], Given(l)))'
    <3>1. confirm'[l] = 0
      BY <1>3, <1>5
    <3>2. /\ out'[l].st = 201 => Run(SRing(l)', "confirm", l, 1, 1, 0, 0)
          /\ out'[l].st # 201 => Run(SRing(l)', "confirm", l, 1, 1, 0, 1)
      BY <1>7 DEF ZeroRing
    <3> QED
      BY <2>1, <2>3, <2>4, <3>1, <3>2
  <2>9. /\ (out[l].completed <= out[l].taken /\ out[l].taken - out[l].completed <= BPQ)'
        /\ (out[l].st = 201 => /\ out[l].taken < InElem(l).frags
                                  /\ out[l].address = Address(round[l[2]], in[l].cur))'
        /\ (out[l].taken <= InElem(l).frags)'
    BY <1>2, <2>1 DEF ZeroStep
  <2>10. /\ (Run(SRing(l), "out", l, 1, InElem(l).frags, out[l].completed,
                   IF out[l].st = 201 THEN out[l].taken ELSE out[l].taken - 1))'
         /\ Before(SRing(l), "out", "confirm", l)'
         /\ Noted(SRing(l), "out", l, out[l].cur)'
    <3>1. out'[l].completed = out[l].completed /\ out'[l].cur = out[l].cur
      BY DEF ZeroStep
    <3>2. /\ out'[l].st = 201 => Run(SRing(l)', "out", l, 1, InElem(l).frags, out[l].completed, out'[l].taken)
          /\ out'[l].st # 201 => Run(SRing(l)', "out", l, 1, InElem(l).frags, out[l].completed, out'[l].taken - 1)
          /\ Before(SRing(l)', "out", "confirm", l)
          /\ Noted(SRing(l)', "out", l, out[l].cur)
      BY <1>7 DEF ZeroRing
    <3> QED
      BY <2>1, <3>1, <3>2
  <2>11. confirm'[l] = 0
    BY <1>3, <1>5
  <2> QED
    BY <2>1, <2>2, <2>5, <2>6, <2>7, <2>8, <2>9, <2>10, <2>11 DEF ActiveInv
<1>9. PICK t \in Seq(DmaRequests) : t = <<x>>
  BY <1>4
<1>10. SendStep(l, case, t)
  BY <1>6, <1>9
<1>11. case \in {201, 202, 203, 204, 302}
  OBVIOUS
<1> QED
  BY <1>8, <1>10, <1>11, SenderFrame

\* Cell c is user memory of the element at which the receiver is.
Arrives(c, l) ==
    /\ c \in Cells(prog.fences)
    /\ c[1] = "dst" /\ c[2] = l /\ c[3] = round[l[2]] /\ c[4] = in[l].cur

\* A fragment of the receiver's element is a cell of that element, also when its
\* place is computed from the address in the word request.
LEMMA DstOf ==
    ASSUME IInv, NEW l \in Link, ~Self(l), Asked(l), NEW k \in 0 .. InElem(l).frags - 1
    PROVE  /\ Arrives(Dst(l, k), l)
           /\ Arrives(DstAt(l, Address(round[l[2]], in[l].cur), k), l)
<1>1. TypeInv /\ PlaceInv
  BY DEF IInv
<1>2. PICK r \in DOMAIN prog.fences : r = round[l[2]]
  BY <1>1, AskedTypes
<1>3. PICK e \in DOMAIN prog.fences[r][l] : e = in[l].cur
  BY <1>1, <1>2, AskedTypes
<1>4. InElem(l) = prog.fences[r][l][e]
  BY <1>2, <1>3 DEF InElem, Elements
<1>5. DstCell(l, r, e, k) \in Cells(prog.fences)
  BY <1>1, <1>4, DstCellsOf
<1>6. r \in Nat /\ e \in Nat /\ e <= MAX_QUEUE_ELM
  BY <1>1, ElementTypes DEF MAX_QUEUE_ELM
<1>7. DstAt(l, Address(r, e), k) = DstCell(l, r, e, k) /\ Dst(l, k) = DstCell(l, r, e, k)
  BY <1>2, <1>3, <1>6, AddressOf DEF Dst
<1>8. DstCell(l, r, e, k)[1] = "dst" /\ DstCell(l, r, e, k)[2] = l
      /\ DstCell(l, r, e, k)[3] = r /\ DstCell(l, r, e, k)[4] = e
  BY DEF DstCell
<1> QED
  BY <1>2, <1>3, <1>5, <1>7, <1>8 DEF Arrives

\* What a call leaves in its queue.
Advance(q, n, a, st) == [q EXCEPT !.taken = n, !.address = a, !.st = st]

\* The fields of that queue.
LEMMA QueueAdvance ==
    ASSUME NEW q \in Queues, NEW n, NEW a, NEW st
    PROVE  /\ n \in Nat /\ a \in Nat /\ st \in States => Advance(q, n, a, st) \in Queues
           /\ Advance(q, n, a, st).taken = n /\ Advance(q, n, a, st).st = st
           /\ Advance(q, n, a, st).address = a /\ Advance(q, n, a, st).completed = q.completed
           /\ Advance(q, n, a, st).nElm = q.nElm /\ Advance(q, n, a, st).cur = q.cur
  BY DEF Queues, Advance

\* The request of a put from a staging buffer into user memory.
PackedRequest(l, c, n, last) ==
    IF last THEN DmaRequest(<<c>>, Confirm(l, 1), NoNote)
    ELSE DmaRequest(<<c>>, NoWord, [queue |-> "out", link |-> l, elm |-> out[l].cur, value |-> n])

\* The requests that PutPacked makes: all but the last note, the last confirms.
LEMMA PackedRequests ==
    ASSUME IInv, NEW l \in Link, ~Self(l), NEW n \in Nat \ {0}, NEW last \in BOOLEAN, NEW k \in Nat,
           pc[l[1]] = "fence", Busy(out[l]), NEW to, Arrives(to, l)
    PROVE  LET x == PackedRequest(l, Copy(OutBuf(l, k), to), n, last) IN
           /\ x \in DmaRequests /\ RequestOf(l[1], x) /\ LinkOf(x) = l
           /\ CopiesAt(x, round, out', in)
           /\ IF last THEN Kind(x) = "confirm" /\ Value(x) = 1
              ELSE Kind(x) = "out" /\ Value(x) = n /\ x.note.elm = out[l].cur
<1>1. TypeInv /\ PlaceInv
  BY DEF IInv
<1>2. PICK e \in Nat : e = out[l].cur
  BY SenderElement
<1>3. OutBuf(l, k) \in Cells(prog.fences) /\ OutBuf(l, k)[1] = "out"
  BY <1>1, Buffers DEF OutBuf
<1>4. PICK c : c = Copy(OutBuf(l, k), to)
  OBVIOUS
<1>5. c.from = OutBuf(l, k) /\ c.to = to /\ c \in CopySet
  BY <1>3, <1>4 DEF Copy, CopySet, Arrives
<1>6. PICK x : x = PackedRequest(l, c, n, last)
  OBVIOUS
<1>7. x \in DmaRequests
  <2>1. <<c>> \in Seq(CopySet)
    BY <1>5
  <2>2. PICK cs \in Seq(CopySet) : cs = <<c>>
    BY <2>1
  <2>3. n \in Nat /\ 1 \in Nat
    OBVIOUS
  <2>4. DmaRequest(cs, Confirm(l, 1), NoNote) \in DmaRequests
    BY <2>3, WordTypes
  <2>5. DmaRequest(cs, NoWord, [queue |-> "out", link |-> l, elm |-> e, value |-> n]) \in DmaRequests
    BY <2>3, WordTypes
  <2> QED
    BY <1>2, <1>6, <2>2, <2>4, <2>5 DEF PackedRequest
<1>8. /\ LinkOf(x) = l
      /\ IF last THEN Kind(x) = "confirm" /\ Value(x) = 1
         ELSE Kind(x) = "out" /\ Value(x) = n /\ x.note.elm = out[l].cur
  BY <1>6, Constructors, NoteConstructors DEF PackedRequest
<1>9. x.copies = <<c>> /\ (x.word = NoWord \/ x.note = NoNote)
  BY <1>6 DEF PackedRequest, DmaRequest
<1>10. RequestOf(l[1], x)
  BY <1>8, <1>9 DEF RequestOf
<1>11. \A i \in DOMAIN <<c>> : <<c>>[i] = c
  OBVIOUS
<1>12. CopiesAt(x, round, out', in)
  BY <1>3, <1>5, <1>8, <1>9, <1>11 DEF CopiesAt, Arrives
<1> QED
  BY <1>4, <1>6, <1>7, <1>8, <1>10, <1>12

\* PutPacked, which packs fragments and puts them into user memory, keeps the invariant.
LEMMA PutPackedKeeps == ASSUME IInv, NEW l \in Link, ~Self(l), PutPacked(l) PROVE IInv'
<1>1. TypeInv /\ PlaceInv
  BY DEF IInv
<1>2. OutCall(l, 201) /\ pc[l[1]] = "fence" /\ Busy(out[l])
  BY DEF PutPacked, OutCall
<1>3. Sending(l, 201)
  BY <1>2, SenderCalls
<1>4. PICK k \in Nat : k = out[l].taken
  BY <1>1, QueueTypes
<1>5. PICK n \in Nat \ {0} : n = k + 1
  OBVIOUS
<1>6. PICK a : a = Address(round[l[2]], in[l].cur)
  OBVIOUS
<1>7. /\ Asked(l) /\ Zero(l) /\ k < InElem(l).frags /\ OutElem(l) = InElem(l)
      /\ (IF out[l].st = 201 THEN out[l].address ELSE AddressIn(request[l])) = a
      /\ out[l].completed <= k
      /\ Run(SRing(l), "out", l, 1, InElem(l).frags, out[l].completed, k)
  BY <1>3, <1>4, <1>6 DEF Sending
<1>8. InElem(l).frags \in Nat /\ BPQ \in Nat /\ out[l].completed \in Nat
  BY <1>1, <1>7, AskedTypes, QueueTypes, BpqAssumption
<1>9. PICK last \in BOOLEAN : last <=> n = InElem(l).frags
  OBVIOUS
<1>10. LastTaken(l) <=> last
  BY <1>7, <1>9, <1>4, <1>5 DEF LastTaken
<1>11. PICK st \in {201, 299} : st = IF last THEN 299 ELSE 201
  OBVIOUS
<1>12. Arrives(DstAt(l, a, k), l)
  BY <1>7, <1>8, <1>6, DstOf
<1>13. PICK x \in DmaRequests :
          /\ x = PackedRequest(l, Copy(OutBuf(l, k), DstAt(l, a, k)), n, last)
          /\ RequestOf(l[1], x) /\ LinkOf(x) = l
          /\ CopiesAt(x, round, out', in)
          /\ IF last THEN Kind(x) = "confirm" /\ Value(x) = 1
             ELSE Kind(x) = "out" /\ Value(x) = n /\ x.note.elm = out[l].cur
  BY <1>2, <1>12, PackedRequests
<1>14. /\ out[l].taken - out[l].completed < BPQ
       /\ out' = [out EXCEPT ![l].taken = n, ![l].address = a, ![l].st = st]
       /\ Dispatch(l[1], <<x>>)
       /\ request' = request /\ confirm' = confirm /\ DOMAIN mem' = DOMAIN mem
  <2> DEFINE address == IF out[l].st = 201 THEN out[l].address ELSE AddressIn(request[l])
  <2>1. /\ out[l].taken - out[l].completed < BPQ
        /\ out' = [out EXCEPT ![l].taken = out[l].taken + 1, ![l].address = address,
                              ![l].st = IF LastTaken(l) THEN 299 ELSE 201]
        /\ Dispatch(l[1], <<PackedRequest(l, Copy(OutBuf(l, out[l].taken), DstAt(l, address, out[l].taken)),
                                         out[l].taken + 1, LastTaken(l))>>)
        /\ request' = request /\ confirm' = confirm
    BY DEF PutPacked, PackedRequest
  <2>2. out[l].taken = k /\ out[l].taken + 1 = n /\ address = a /\ LastTaken(l) = last
    BY <1>7, <1>10, <1>4, <1>5 DEF LastTaken
  <2>3. x = PackedRequest(l, Copy(OutBuf(l, k), DstAt(l, a, k)), n, last)
    BY <1>13
  <2>4. DOMAIN mem' = DOMAIN mem
    BY DEF PutPacked
  <2> HIDE DEF address
  <2> QED
    BY <1>11, <2>1, <2>2, <2>3, <2>4
<1>15. a \in Nat /\ st \in States
  <2>1. round[l[2]] \in Nat /\ in[l].cur \in Nat
    <3>1. round[l[2]] \in DOMAIN prog.fences /\ in[l].cur \in DOMAIN prog.fences[round[l[2]]][l]
      BY <1>1, <1>7, AskedTypes
    <3> QED
      BY <1>1, <3>1, ElementTypes
  <2> QED
    BY <2>1, <1>6 DEF Address, Slots, MAX_QUEUE_ELM, States
<1>16. /\ out' \in [Link -> Queues] /\ \A m \in Link \ {l} : out'[m] = out[m]
       /\ out'[l].nElm = out[l].nElm /\ out'[l].cur = out[l].cur /\ out'[l].taken = n /\ out'[l].st = st
       /\ out'[l].address = a /\ out'[l].completed = out[l].completed
  <2>1. out \in [Link -> Queues]
    BY <1>1 DEF TypeInv
  <2>2. /\ DOMAIN out' = Link /\ \A m \in Link \ {l} : out'[m] = out[m]
        /\ out'[l] = [out[l] EXCEPT !.taken = n, !.address = a, !.st = st]
    BY <1>14, <2>1
  <2>3. out'[l] = Advance(out[l], n, a, st) /\ out[l] \in Queues
    BY <2>1, <2>2 DEF Advance
  <2>4. Advance(out[l], n, a, st) \in Queues
    BY <1>15, <2>3, QueueAdvance
  <2>5. out' \in [Link -> Queues]
    <3>1. out'[l] \in Queues
      BY <2>3, <2>4
    <3>2. out' = [out EXCEPT ![l].taken = n, ![l].address = a, ![l].st = st]
      BY <1>14
    <3> QED
      BY <2>1, <2>2, <3>1, <3>2
  <2> QED
    BY <2>2, <2>3, <2>5, QueueAdvance
<1>17. n - 1 = k /\ n <= InElem(l).frags /\ out[l].completed <= n /\ n - out[l].completed <= BPQ
       /\ out[l].completed < n /\ (~last => n < InElem(l).frags)
  BY <1>7, <1>8, <1>9, <1>14, <1>4, <1>5
<1>18. ZeroStep(l, 201, x)
  <2>1. /\ out'[l].taken - 1 = k /\ out'[l].st \in {201, 299}
        /\ out'[l].st = 201 <=> ~last
    BY <1>11, <1>16, <1>17
  <2>2. /\ out'[l].completed = out[l].completed /\ out[l].completed <= out'[l].taken
        /\ out'[l].taken - out[l].completed <= BPQ /\ out'[l].taken <= InElem(l).frags
    BY <1>16, <1>17
  <2>3. Run(SRing(l), "out", l, 1, InElem(l).frags, out[l].completed, out'[l].taken - 1)
    BY <1>7, <2>1
  <2>4. IF out'[l].st = 201
       THEN /\ Kind(x) = "out" /\ Value(x) = out'[l].taken /\ x.note.elm = out[l].cur
            /\ out[l].completed < out'[l].taken
            /\ out'[l].taken < InElem(l).frags /\ out'[l].address = Address(round[l[2]], in[l].cur)
       ELSE Kind(x) = "confirm" /\ Value(x) = 1
    BY <1>6, <1>13, <1>16, <1>17, <2>1
  <2> QED
    BY <1>2, <1>14, <1>13, <1>16, <2>1, <2>2, <2>3, <2>4 DEF ZeroStep
<1> QED
  BY <1>18, ZeroKeeps

\* What a call that only changes the state leaves in its queue.
Restate(q, st) == [q EXCEPT !.st = st]

\* The fields of that queue.
LEMMA QueueRestate ==
    ASSUME NEW q \in Queues, NEW st
    PROVE  /\ st \in States => Restate(q, st) \in Queues
           /\ Restate(q, st).st = st /\ Restate(q, st).taken = q.taken
           /\ Restate(q, st).completed = q.completed /\ Restate(q, st).unpacked = q.unpacked
           /\ Restate(q, st).nElm = q.nElm /\ Restate(q, st).cur = q.cur
  BY DEF Queues, Restate

\* Cell c is user memory of the element at which the sender is.
Departs(c, l) ==
    /\ c \in {"src"} \X Link \X Nat \X Nat \X Nat
    /\ c[1] = "src" /\ c[2] = l /\ c[3] = round[l[1]] /\ c[4] = out[l].cur

\* A fragment of the sender's element is a cell of that element.
LEMMA SrcOf ==
    ASSUME IInv, NEW l \in Link, pc[l[1]] = "fence", Busy(out[l]), NEW k \in Nat
    PROVE  Departs(Src(l, k), l)
<1>1. PICK r \in Nat : r = round[l[1]]
  BY SenderElement
<1>2. PICK e \in Nat : e = out[l].cur
  BY SenderElement
<1>3. Src(l, k) = <<"src", l, r, e, k>>
  BY <1>1, <1>2 DEF Src, SrcCell
<1>4. <<"src", l, r, e, k>> \in {"src"} \X Link \X Nat \X Nat \X Nat
  OBVIOUS
<1> QED
  BY <1>1, <1>2, <1>3, <1>4 DEF Departs

\* One request with all the copies of an element.
ZeroCopies(l, a, n) == [k \in 1 .. n |-> Copy(Src(l, k - 1), DstAt(l, a, k - 1))]

\* The request that PutZeroCopy makes: it copies the whole element and confirms.
LEMMA ZeroCopyRequest ==
    ASSUME IInv, NEW l \in Link, ~Self(l), Asked(l), pc[l[1]] = "fence", Busy(out[l]),
           NEW a, a = Address(round[l[2]], in[l].cur), out'[l].cur = out[l].cur
    PROVE  LET x == DmaRequest(ZeroCopies(l, a, InElem(l).frags), Confirm(l, 1), NoNote) IN
           /\ x \in DmaRequests /\ RequestOf(l[1], x)
           /\ Kind(x) = "confirm" /\ LinkOf(x) = l /\ Value(x) = 1
           /\ CopiesAt(x, round, out', in)
<1>1. TypeInv /\ PlaceInv
  BY DEF IInv
<1>2. PICK n \in Nat : n = InElem(l).frags
  BY <1>1, AskedTypes
<1>3. PICK cs : cs = ZeroCopies(l, a, n)
  OBVIOUS
<1>4. DOMAIN cs = 1 .. n /\ \A k \in 1 .. n : cs[k] = Copy(Src(l, k - 1), DstAt(l, a, k - 1))
  BY <1>3 DEF ZeroCopies
<1>5. ASSUME NEW k \in 1 .. n
      PROVE  cs[k] \in CopySet /\ Departs(cs[k].from, l) /\ Arrives(cs[k].to, l)
  <2>1. k - 1 \in 0 .. n - 1 /\ k - 1 \in Nat
    OBVIOUS
  <2>2. Departs(Src(l, k - 1), l) /\ Arrives(DstAt(l, a, k - 1), l)
    BY <1>2, <2>1, SrcOf, DstOf
  <2>3. cs[k].from = Src(l, k - 1) /\ cs[k].to = DstAt(l, a, k - 1)
        /\ cs[k] = [from |-> Src(l, k - 1), to |-> DstAt(l, a, k - 1)]
    BY <1>4 DEF Copy
  <2> QED
    BY <2>2, <2>3 DEF CopySet, Departs, Arrives
<1>6. cs \in Seq(CopySet)
  <2>1. cs = [k \in 1 .. n |-> cs[k]]
    BY <1>3 DEF ZeroCopies
  <2> QED
    BY <1>5, <2>1
<1>7. PICK x \in DmaRequests :
          /\ x = DmaRequest(cs, Confirm(l, 1), NoNote) /\ RequestOf(l[1], x)
          /\ Kind(x) = "confirm" /\ LinkOf(x) = l /\ Value(x) = 1 /\ x.copies = cs
  <2>1. 1 \in Nat \ {0}
    OBVIOUS
  <2> QED
    BY <1>6, <2>1, ConfirmRequest
<1>8. \A i \in DOMAIN cs : /\ cs[i].from[2] = l /\ cs[i].from[3] = round[l[1]] /\ cs[i].from[4] = out'[l].cur
                           /\ cs[i].to[2] = l /\ cs[i].to[3] = round[l[2]] /\ cs[i].to[4] = in[l].cur
  BY <1>4, <1>5 DEF Departs, Arrives
<1>9. CopiesAt(x, round, out', in)
  BY <1>7, <1>8 DEF CopiesAt
<1> QED
  BY <1>2, <1>3, <1>7, <1>9

\* PutZeroCopy, which puts a whole element into user memory, keeps the invariant.
LEMMA PutZeroCopyKeeps == ASSUME IInv, NEW l \in Link, ~Self(l), PutZeroCopy(l) PROVE IInv'
<1>1. TypeInv /\ PlaceInv
  BY DEF IInv
<1>2. OutCall(l, 204) /\ pc[l[1]] = "fence" /\ Busy(out[l])
  BY DEF PutZeroCopy, OutCall
<1>3. Sending(l, 204)
  BY <1>2, SenderCalls
<1>4. PICK a : a = Address(round[l[2]], in[l].cur)
  OBVIOUS
<1>5. /\ Asked(l) /\ Zero(l) /\ OutElem(l) = InElem(l) /\ out[l].st = 0
  BY <1>3 DEF Sending
<1>6. AddressIn(request[l]) = a /\ out[l].taken = 0 /\ out[l].completed = 0 /\ Of(SRing(l), "out", l) = {}
  BY <1>3, <1>5, <1>4 DEF Sending
<1>7. InElem(l).frags \in Nat /\ BPQ \in Nat
  BY <1>1, <1>5, AskedTypes, BpqAssumption
<1>8. /\ out' = [out EXCEPT ![l].st = 299]
      /\ Dispatch(l[1], <<DmaRequest(ZeroCopies(l, a, InElem(l).frags), Confirm(l, 1), NoNote)>>)
      /\ request' = request /\ confirm' = confirm /\ DOMAIN mem' = DOMAIN mem
  BY <1>5, <1>6 DEF PutZeroCopy, ZeroCopies
<1>9. /\ out' \in [Link -> Queues] /\ \A m \in Link \ {l} : out'[m] = out[m]
      /\ out'[l].nElm = out[l].nElm /\ out'[l].cur = out[l].cur /\ out'[l].taken = 0 /\ out'[l].st = 299
      /\ out'[l].completed = out[l].completed
  <2>1. out \in [Link -> Queues]
    BY <1>1 DEF TypeInv
  <2>2. /\ \A m \in Link \ {l} : out'[m] = out[m]
        /\ out'[l] = [out[l] EXCEPT !.st = 299]
    BY <1>8, <2>1
  <2>3. out'[l] = Restate(out[l], 299) /\ out[l] \in Queues
    BY <2>1, <2>2 DEF Restate
  <2>4. Restate(out[l], 299) \in Queues
    BY <2>3, QueueRestate DEF States
  <2>5. out' \in [Link -> Queues]
    <3>1. out'[l] \in Queues
      BY <2>3, <2>4
    <3> QED
      BY <1>8, <2>1, <2>2, <3>1
  <2> QED
    BY <1>6, <2>2, <2>3, <2>5, QueueRestate
<1>10. PICK x \in DmaRequests :
           /\ x = DmaRequest(ZeroCopies(l, a, InElem(l).frags), Confirm(l, 1), NoNote) /\ RequestOf(l[1], x)
           /\ Kind(x) = "confirm" /\ LinkOf(x) = l /\ Value(x) = 1
           /\ CopiesAt(x, round, out', in)
  BY <1>2, <1>5, <1>4, <1>9, ZeroCopyRequest
<1>11. ZeroStep(l, 204, x)
  <2>1. Run(SRing(l), "out", l, 1, InElem(l).frags, out[l].completed, out'[l].taken - 1)
    BY <1>6, RunEmpty
  <2>2. /\ out[l].completed <= out'[l].taken
        /\ out'[l].taken - out[l].completed <= BPQ /\ out'[l].taken <= InElem(l).frags
    BY <1>6, <1>7, <1>9
  <2>3. out'[l].st # 201 /\ out'[l].st \in {201, 299}
    BY <1>9
  <2>4. Dispatch(l[1], <<x>>)
    BY <1>8, <1>10
  <2> QED
    BY <1>2, <1>8, <1>10, <1>9, <2>1, <2>2, <2>3, <2>4 DEF ZeroStep
<1> QED
  BY <1>11, ZeroKeeps

\* What emb_send, emb_recv and the fence leave in a queue: another number of elements,
\* another current one.
Renew(q, n, c) == [q EXCEPT !.nElm = n, !.cur = c]

\* The fields of that queue.
LEMMA QueueRenew ==
    ASSUME NEW q \in Queues, NEW n, NEW c
    PROVE  /\ n \in Nat /\ c \in Nat \ {0} => Renew(q, n, c) \in Queues
           /\ Renew(q, n, c).nElm = n /\ Renew(q, n, c).cur = c
           /\ Renew(q, n, c).taken = q.taken /\ Renew(q, n, c).completed = q.completed
           /\ Renew(q, n, c).unpacked = q.unpacked /\ Renew(q, n, c).st = q.st
  BY DEF Queues, Renew

\* The fields of a queue whose element is through.
LEMMA FinishedQueue ==
    ASSUME NEW q \in Queues
    PROVE  /\ Finished(q) \in Queues /\ Rested(Finished(q)) /\ Finished(q).st = 0
           /\ Finished(q).nElm = q.nElm /\ Finished(q).cur = q.cur + 1
<1>1. EmptyQueue \in Queues /\ Rested(EmptyQueue) /\ EmptyQueue.st = 0
  BY DEF Queues, EmptyQueue, Rested, States
<1>2. PICK f : f = EmptyQueue
  OBVIOUS
<1>3. Finished(q) = Renew(f, q.nElm, q.cur + 1)
  BY <1>2 DEF Finished, Renew
<1>4. q.nElm \in Nat /\ q.cur + 1 \in Nat \ {0}
  BY DEF Queues
<1> QED
  BY <1>1, <1>2, <1>3, <1>4, QueueRenew DEF Rested

\* The machine of a queue of p passes its element.
LEMMA FinishedInv ==
    ASSUME NEW q \in Queues, NEW p, NEW l, QueueInv(q, p, l), pc[p] = "fence", Busy(q)
    PROVE  QueueInv(Finished(q), p, l)
<1>1. /\ Rested(Finished(q)) /\ Finished(q).st = 0
      /\ Finished(q).nElm = q.nElm /\ Finished(q).cur = q.cur + 1
  BY FinishedQueue
<1>2. q.cur \in Nat /\ q.nElm \in Nat /\ q.cur <= q.nElm
  BY DEF Queues, Busy
<1> QED
  BY <1>1, <1>2 DEF QueueInv

\* What is appended to the ring of p is one request or none.
LEMMA AppendOne ==
    ASSUME TypeInv, NEW p \in Proc, NEW x \in DmaRequests,
           IF Host(p) THEN dma' = dma ELSE Dispatch(p, <<x>>)
    PROVE  LET t == IF Host(p) THEN <<>> ELSE <<x>> IN
           /\ t \in Seq(DmaRequests) /\ dma' = [dma EXCEPT ![p] = @ \o t]
           /\ dma'[p] = dma[p] \o t /\ \A q \in Proc \ {p} : dma'[q] = dma[q]
           /\ t # <<>> => ~Host(p)
           /\ \A j \in DOMAIN t : t[j] = x
<1>1. dma \in [Proc -> Seq(DmaRequests)]
  BY DEF TypeInv
<1>2. CASE Host(p)
  <2>1. dma[p] \o <<>> = dma[p]
    BY <1>1
  <2>2. dma' = [dma EXCEPT ![p] = @ \o <<>>]
    BY <1>1, <1>2, <2>1
  <2>3. <<>> \in Seq(DmaRequests) /\ DOMAIN <<>> = {}
    OBVIOUS
  <2> QED
    BY <1>1, <1>2, <2>1, <2>2, <2>3
<1>3. CASE ~Host(p)
  <2>1. dma' = [dma EXCEPT ![p] = @ \o <<x>>]
    BY <1>3 DEF Dispatch
  <2>2. <<x>> \in Seq(DmaRequests) /\ \A j \in DOMAIN <<x>> : <<x>>[j] = x
    OBVIOUS
  <2> QED
    BY <1>1, <1>3, <2>1, <2>2
<1> QED
  BY <1>2, <1>3

\* When the sender may finish, everything is through.
LEMMA AllThrough ==
    ASSUME IInv, NEW l \in Link, ~Self(l), OutCall(l, 299) \/ OutCall(l, 304), request[l] = 0
    PROVE  /\ Active(l) /\ Asked(l) /\ ReceiverInv(l)
           /\ round[l[1]] = round[l[2]] /\ out[l].cur = in[l].cur
           /\ confirm[l] = Total(l)
           /\ Of(SRing(l), "confirm", l) = {} /\ Of(SRing(l), "out", l) = {}
<1>1. OutCase(l) \in {299, 304}
  BY DEF OutCall
<1>2. out[l].st \in {299, 304}
  BY <1>1 DEF OutCase
<1>3. Active(l) /\ Asked(l) /\ ActiveInv(l) /\ ReceiverInv(l) /\ TypeInv /\ PlaceInv
  BY <1>2, LinkFacts DEF Active
<1>4. /\ Total(l) \in Nat \ {0} /\ Taken(l) \in Nat /\ Given(l) \in Nat /\ confirm[l] \in Nat
  BY <1>3, AskedTypes, QueueTypes
<1>5. Wanted(l) = Total(l) + 1
  BY <1>3 DEF Wanted
<1>6. Wanted(l) <= Taken(l) + 1 /\ Taken(l) <= Total(l)
  BY <1>3 DEF ReceiverInv
<1>7. Given(l) = Total(l) /\ Taken(l) <= confirm[l] /\ confirm[l] <= Given(l)
  BY <1>2, <1>3 DEF ActiveInv
<1>8. confirm[l] = Total(l)
  BY <1>4, <1>5, <1>6, <1>7
<1>9. Of(SRing(l), "confirm", l) = {}
  <2>1. PICK total \in Int : total = Total(l)
    BY <1>4
  <2>2. Run(SRing(l), "confirm", l, 1, total, total, total)
    BY <1>3, <1>7, <1>8, <2>1 DEF ActiveInv
  <2> QED
    BY <2>2, RunNone
<1>10. Of(SRing(l), "out", l) = {}
  BY <1>3, <1>4, <1>8 DEF ActiveInv
<1> QED
  BY <1>3, <1>8, <1>9, <1>10 DEF ActiveInv

\* OutFinish, with which the sender passes an element, keeps the invariant.
LEMMA OutFinishKeeps == ASSUME IInv, NEW l \in Link, ~Self(l), OutFinish(l) PROVE IInv'
<1>1. TypeInv /\ PlaceInv /\ l[1] # l[2] /\ l[1] \in Proc /\ l[2] \in Proc /\ OrderInv(l)
  BY LinkFacts, LinkEnds
<1>2. request[l] = 0 /\ (OutCall(l, 299) \/ OutCall(l, 304))
      /\ UNCHANGED <<prog, pc, round, in>> /\ pc[l[1]] = "fence" /\ Busy(out[l]) /\ mem' = mem
      /\ out' = [out EXCEPT ![l] = Finished(out[l])] /\ PioWriteRemote(l[1], Confirm(l, 0))
  BY DEF OutFinish, OutCall
<1>3. /\ Active(l) /\ Asked(l) /\ ReceiverInv(l)
      /\ round[l[1]] = round[l[2]] /\ out[l].cur = in[l].cur
      /\ confirm[l] = Total(l)
      /\ Of(SRing(l), "confirm", l) = {} /\ Of(SRing(l), "out", l) = {}
  BY <1>2, AllThrough
<1>4. PICK total \in Nat \ {0} : total = Total(l)
  BY <1>1, <1>3, AskedTypes
<1>5. /\ out[l] \in Queues /\ QueueInv(out[l], l[1], l) /\ QueueInv(in[l], l[2], l)
      /\ SRing(l) \in Seq(DmaRequests) /\ RRing(l) \in Seq(DmaRequests) /\ out[l].cur \in Nat
  <2>1. out[l] \in Queues /\ QueueInv(out[l], l[1], l) /\ QueueInv(in[l], l[2], l)
        /\ SRing(l) \in Seq(DmaRequests) /\ RRing(l) \in Seq(DmaRequests)
    BY <1>1, QueueTypes
  <2> QED
    BY <2>1 DEF Queues
<1>6. /\ out'[l] = Finished(out[l]) /\ \A m \in Link \ {l} : out'[m] = out[m]
      /\ out' \in [Link -> Queues]
  <2>1. out \in [Link -> Queues] /\ Finished(out[l]) \in Queues
    BY <1>1, <1>5, FinishedQueue DEF TypeInv
  <2> QED
    BY <1>2, <2>1
<1>7. out'[l].st = 0 /\ out'[l].cur = out[l].cur + 1 /\ QueueInv(out'[l], l[1], l)
  BY <1>2, <1>5, <1>6, FinishedQueue, FinishedInv
<1>8. PICK x \in DmaRequests :
         /\ x = DmaRequest(<<>>, Confirm(l, 0), NoNote) /\ RequestOf(l[1], x)
         /\ Kind(x) = "confirm" /\ LinkOf(x) = l /\ Value(x) = 0 /\ CopiesAt(x, round', out', in')
  <2>1. PICK x : x = DmaRequest(<<>>, Confirm(l, 0), NoNote)
    OBVIOUS
  <2>2. PICK cs \in Seq(CopySet) : cs = <<>>
    BY NoCopy
  <2>3. x \in DmaRequests
    BY <2>1, <2>2, WordTypes
  <2>4. Kind(x) = "confirm" /\ LinkOf(x) = l /\ Value(x) = 0
    BY <2>1, Constructors
  <2>5. x.note = NoNote /\ CopiesAt(x, round', out', in')
    BY <2>1, NoCopy DEF DmaRequest
  <2> QED
    BY <2>1, <2>3, <2>4, <2>5 DEF RequestOf
<1>9. /\ request' = request
      /\ IF Host(l[1]) THEN confirm' = [confirm EXCEPT ![l] = 0] ELSE confirm' = confirm
      /\ IF Host(l[1]) THEN dma' = dma ELSE Dispatch(l[1], <<x>>)
  BY <1>1, <1>2, <1>8, HostWrites, BoardWrites
<1> DEFINE t == IF Host(l[1]) THEN <<>> ELSE <<x>>
<1>10. /\ t \in Seq(DmaRequests) /\ dma' = [dma EXCEPT ![l[1]] = @ \o t]
       /\ dma'[l[1]] = dma[l[1]] \o t /\ \A q \in Proc \ {l[1]} : dma'[q] = dma[q]
       /\ t # <<>> => ~Host(l[1])
       /\ \A j \in DOMAIN t : t[j] = x
  BY <1>1, <1>9, AppendOne
<1>11. /\ confirm' \in [Link -> Nat] /\ \A m \in Link \ {l} : confirm'[m] = confirm[m]
       /\ confirm'[l] = IF Host(l[1]) THEN 0 ELSE confirm[l]
  <2>1. confirm' = IF Host(l[1]) THEN [confirm EXCEPT ![l] = 0] ELSE confirm
    BY <1>9
  <2>2. confirm \in [Link -> Nat]
    BY <1>1 DEF TypeInv
  <2> QED
    BY <2>1, <2>2
<1>12. SRing(l)' = SRing(l) \o t /\ RRing(l)' = RRing(l)
  BY <1>1, <1>10 DEF SRing, RRing
<1>13. (t = <<>> /\ SRing(l)' = SRing(l) /\ confirm'[l] = 0) \/ (t = <<x>> /\ confirm'[l] = total)
  BY <1>3, <1>4, <1>5, <1>11, <1>12
<1>14. Passed(l)'
  BY <1>2, <1>3, <1>5, <1>7 DEF Passed, OutDone
<1>15. /\ ReceiverInv(l)' /\ Asked(l)' /\ Total(l)' = total
  <2>1. in'[l] = in[l] /\ request'[l] = request[l]
    BY <1>2, <1>9
  <2>2. (Active(l) \/ Passed(l))' <=> (Active(l) \/ Passed(l))
    BY <1>3, <1>14
  <2> QED
    BY <1>2, <1>3, <1>4, <1>12, <2>1, <2>2, ReceiverKept
<1>16. PassedInv(l)'
  <2>1. Of(SRing(l)', "out", l) = {}
    BY <1>3, <1>5, <1>12, <1>13, <1>8, RestAppend
  <2>2. /\ Valued(SRing(l)', "confirm", l, {0})
        /\ Run(SRing(l)', "confirm", l, 1, total, total, total + 1)
        /\ confirm'[l] = 0 => Of(SRing(l)', "confirm", l) = {}
    <3>1. CASE SRing(l)' = SRing(l) /\ confirm'[l] = 0
      BY <1>3, <3>1, RunEmpty DEF Valued
    <3>2. CASE t = <<x>> /\ confirm'[l] = total
      <4>1. Rank(Value(x), 1, total) \in total + 1 .. total + 1
        BY <1>8 DEF Rank
      <4>2. Run(SRing(l), "confirm", l, 1, total, total, total)
        BY <1>3, RunEmpty
      <4>3. PICK high \in Int : high = total + 1
        OBVIOUS
      <4>4. total \in Int /\ total <= total /\ total <= high
        BY <4>3
      <4>5. Run(SRing(l) \o <<x>>, "confirm", l, 1, total, total, high)
        BY <1>5, <4>1, <4>2, <4>3, <4>4, RunAppend
      <4>6. Valued(SRing(l), "confirm", l, {0}) /\ Valued(<<x>>, "confirm", l, {0})
        BY <1>3, <1>8 DEF Valued, Of
      <4>7. Valued(SRing(l) \o <<x>>, "confirm", l, {0})
        <5>1. PICK s \in Seq(DmaRequests) : s = SRing(l)
          BY <1>5
        <5>2. PICK u \in Seq(DmaRequests) : u = <<x>>
          BY <1>10, <3>2
        <5>3. PICK V : V = {0}
          OBVIOUS
        <5>4. Valued(s \o u, "confirm", l, V)
          BY <4>6, <5>1, <5>2, <5>3, ConcatRest
        <5> QED
          BY <5>1, <5>2, <5>3, <5>4
      <4> QED
        BY <1>12, <3>2, <4>3, <4>5, <4>7
    <3> QED
      BY <1>13, <3>1, <3>2
  <2>3. ~Active(l)' /\ request'[l] = 0
    BY <1>2, <1>7, <1>9 DEF Active
  <2> QED
    BY <1>15, <2>1, <2>2, <2>3 DEF PassedInv
<1>17. LinkInv(l)'
  BY <1>7, <1>14, <1>15, <1>16 DEF LinkInv, Active
<1>18. OrderInv(l)'
  <2>1. \A r, e : InDone(l, r, e)' <=> InDone(l, r, e)
    BY <1>2 DEF InDone
  <2>2. \A e \in Nat : e < out[l].cur => e < out'[l].cur
    BY <1>5, <1>7
  <2>3. \A r : \A e \in Nat : OutDone(l, r, e) => OutDone(l, r, e)'
    BY <1>2, <2>2 DEF OutDone
  <2>4. \A r \in DOMAIN prog.fences : \A e \in DOMAIN prog.fences[r][l] : e \in Nat
    BY <1>1, ElementTypes
  <2>5. \A e \in Nat : e < out'[l].cur => e < out[l].cur \/ e = out[l].cur
    BY <1>5, <1>7
  <2>6. \A r : \A e \in Nat :
            OutDone(l, r, e)' => OutDone(l, r, e) \/ (r = round[l[1]] /\ e = out[l].cur)
    BY <1>2, <2>5 DEF OutDone
  <2>7. Asked(l)' /\ round' = round /\ in' = in /\ prog' = prog
    BY <1>2, <1>15
  <2> SUFFICES ASSUME NEW r \in DOMAIN prog.fences, NEW e \in DOMAIN prog.fences[r][l]
               PROVE  /\ InDone(l, r, e)' => OutDone(l, r, e)'
                      /\ OutDone(l, r, e)' =>
                             InDone(l, r, e)' \/ (Asked(l)' /\ r = round'[l[2]] /\ e = in'[l].cur)
    BY <2>7 DEF OrderInv
  <2>8. /\ InDone(l, r, e) => OutDone(l, r, e)
        /\ OutDone(l, r, e) => InDone(l, r, e) \/ (Asked(l) /\ r = round[l[2]] /\ e = in[l].cur)
    BY <1>1 DEF OrderInv
  <2>9. e \in Nat
    BY <2>4
  <2> QED
    BY <1>3, <2>1, <2>3, <2>6, <2>7, <2>8, <2>9
<1> HIDE DEF t
<1>19. EndStep(l, l[1], t)
  <2>1. Valued(SRing(l), "confirm", l, {0})
    BY <1>3 DEF Valued
  <2>2. /\ in' \in [Link -> Queues] /\ request' \in [Link -> Nat]
        /\ \A m \in Link : in'[m] = in[m] /\ request'[m] = request[m]
    BY <1>1, <1>2, <1>9 DEF TypeInv
  <2>3. \A j \in DOMAIN t : /\ RequestOf(l[1], t[j]) /\ Kind(t[j]) # "none" /\ LinkOf(t[j]) = l
                           /\ CopiesAt(t[j], round, out', in')
    BY <1>2, <1>8, <1>10
  <2>4. QueueInv(in'[l], l[2], l) /\ in'[l].cur = in[l].cur
    BY <1>2, <1>5
  <2> QED
    BY <1>2, <1>6, <1>7, <1>10, <1>11, <2>1, <2>2, <2>3, <2>4 DEF EndStep
<1> QED
  BY <1>10, <1>17, <1>18, <1>19, EndFrame

\* A receiver that asked, and has not got everything, finds the sender at the
\* same element.
Receiving(l, case) ==
    /\ Asked(l) /\ Active(l) /\ ReceiverInv(l) /\ ActiveInv(l) /\ in[l].st = case
    /\ pc[l[2]] = "fence" /\ Busy(in[l])
    /\ Taken(l) < Total(l)
    /\ (Zero(l) <=> case = 298) /\ (Gets(l) <=> case = 303) /\ (Fetches(l) <=> case = 302)

\* What makes a call of the receiver do something.
Finds(l, case) ==
    /\ case = 202 => confirm[l] # in[l].unpacked
    /\ case = 298 => confirm[l] # 0
    /\ case = 302 => in[l].unpacked # in[l].completed \/ in[l].taken < confirm[l]
    /\ case = 303 => in[l].taken < confirm[l]

\* A call of the receiver's machine that finds what it waits for can count on
\* Receiving.
LEMMA ReceiverCalls ==
    ASSUME IInv, NEW l \in Link, ~Self(l), NEW case \in {202, 298, 302, 303}, InCall(l, case), Finds(l, case)
    PROVE  Receiving(l, case)
<1>1. TypeInv /\ PlaceInv /\ LinkInv(l)
  BY LinkFacts
<1>2. pc[l[2]] = "fence" /\ Busy(in[l]) /\ InCase(l) = case
  BY DEF InCall
<1>3. in[l].st = case /\ Asked(l)
  BY <1>2 DEF InCase, Asked
<1>4. ReceiverInv(l)
  BY <1>1, <1>3 DEF LinkInv
<1>5. Total(l) \in Nat \ {0} /\ Taken(l) \in Nat /\ confirm[l] \in Nat /\ in[l].taken \in Nat
  BY <1>1, <1>3, AskedTypes, QueueTypes
<1>6. Taken(l) < Total(l)
  BY <1>3, <1>4, <1>5 DEF ReceiverInv
<1>7. ~Passed(l)
  <2> SUFFICES ASSUME Passed(l) PROVE FALSE
    OBVIOUS
  <2>1. request[l] = 0
    BY <1>1, <1>3 DEF LinkInv, PassedInv
  <2>2. Wanted(l) = Total(l) + 1
    BY <2>1 DEF Wanted
  <2>3. Wanted(l) <= Taken(l) + 1
    BY <1>4 DEF ReceiverInv
  <2> QED
    BY <1>5, <1>6, <2>2, <2>3
<1>8. Active(l)
  <2> SUFFICES ASSUME ~Active(l) PROVE FALSE
    OBVIOUS
  <2>1. confirm[l] = 0 /\ Rested(in[l])
    BY <1>1, <1>3, <1>7 DEF LinkInv, IdleInv
  <2> QED
    BY <1>3, <2>1 DEF Finds, Rested
<1>9. (Zero(l) <=> case = 298) /\ (Gets(l) <=> case = 303) /\ (Fetches(l) <=> case = 302)
  <2>1. case \in (IF Zero(l) THEN {298, 299} ELSE IF Gets(l) THEN {303, 304}
                  ELSE IF Fetches(l) THEN {302, 299} ELSE {202, 299})
    BY <1>3, <1>4 DEF ReceiverInv
  <2>2. ~(Zero(l) /\ Gets(l)) /\ ~(Zero(l) /\ Fetches(l)) /\ ~(Gets(l) /\ Fetches(l))
    BY DEF Zero, Gets, Fetches
  <2> QED
    BY <2>1, <2>2
<1>10. ActiveInv(l)
  BY <1>8, LinkFacts
<1> QED
  BY <1>2, <1>3, <1>4, <1>6, <1>8, <1>9, <1>10 DEF Receiving

\* A call of the receiver that goes on with its element: it appends t to its ring.
RecvStep(l, case, t) ==
    /\ InCall(l, case)
    /\ in' \in [Link -> Queues] /\ \A m \in Link \ {l} : in'[m] = in[m]
    /\ in'[l].nElm = in[l].nElm /\ in'[l].cur = in[l].cur /\ in'[l].st # 0
    /\ confirm' = confirm /\ DOMAIN mem' = DOMAIN mem
    /\ request' \in [Link -> Nat] /\ \A m \in Link \ {l} : request'[m] = request[m]
    /\ dma' = [dma EXCEPT ![l[2]] = @ \o t]
    /\ t # <<>> => ~Host(l[2])
    /\ \A j \in DOMAIN t : /\ RequestOf(l[2], t[j]) /\ Kind(t[j]) # "none" /\ LinkOf(t[j]) = l
                           /\ CopiesAt(t[j], round, out', in')

\* Such a call leaves the two ends of l to be shown.
LEMMA ReceiverFrame ==
    ASSUME IInv, NEW l \in Link, ~Self(l), NEW case \in {200, 202, 298, 302, 303},
           NEW t \in Seq(DmaRequests), RecvStep(l, case, t), LinkInv(l)'
    PROVE  IInv'
<1>1. /\ UNCHANGED <<prog, pc, round, out>> /\ pc[l[2]] = "fence" /\ Busy(in[l])
  BY DEF RecvStep, InCall
<1>2. /\ TypeInv /\ PlaceInv /\ OrderInv(l) /\ l[1] # l[2] /\ l[1] \in Proc /\ l[2] \in Proc
      /\ out[l] \in Queues /\ in[l] \in Queues /\ QueueInv(out[l], l[1], l) /\ QueueInv(in[l], l[2], l)
  BY LinkFacts, QueueTypes
<1>3. QueueInv(in'[l], l[2], l)
  BY <1>1, <1>2 DEF QueueInv, Busy, RecvStep
<1>4. \A r, e : (OutDone(l, r, e)' <=> OutDone(l, r, e)) /\ (InDone(l, r, e)' <=> InDone(l, r, e))
  BY <1>1 DEF OutDone, InDone, RecvStep
<1>5. OrderInv(l)'
  <2>1. in'[l].cur = in[l].cur /\ (Asked(l) => Asked(l)')
    BY DEF RecvStep, Asked
  <2> QED
    BY <1>1, <1>2, <1>4, <2>1, OrderKept
<1>6. /\ out' \in [Link -> Queues] /\ confirm' \in [Link -> Nat] /\ QueueInv(out'[l], l[1], l)
      /\ out'[l].cur = out[l].cur /\ \A m \in Link : out'[m] = out[m] /\ confirm'[m] = confirm[m]
  BY <1>1, <1>2 DEF TypeInv, RecvStep
<1>7. EndStep(l, l[2], t)
  BY <1>1, <1>3, <1>6 DEF EndStep, RecvStep
<1> QED
  BY <1>5, <1>7, EndFrame

\* What is known of the sender does not suffer when the receiver goes on.
LEMMA ActiveKept ==
    ASSUME IInv, NEW l \in Link, ~Self(l), NEW case \in {202, 298, 302, 303},
           NEW t \in Seq(DmaRequests), RecvStep(l, case, t), Receiving(l, case),
           NEW taken \in Nat, taken = Taken(l)', taken <= confirm[l],
           NEW wanted \in Nat, wanted = Wanted(l)', Wanted(l) <= wanted,
           Host(l[1]) => in'[l].taken <= confirm[l]
    PROVE  ActiveInv(l)' /\ Active(l)'
<1>1. TypeInv /\ PlaceInv /\ l[1] # l[2] /\ l[1] \in Proc /\ l[2] \in Proc
  BY LinkFacts, LinkEnds
<1>2. UNCHANGED <<prog, pc, round, out>> /\ confirm' = confirm /\ in'[l].cur = in[l].cur
  BY DEF RecvStep, InCall
<1>3. SRing(l)' = SRing(l)
  BY <1>1 DEF RecvStep, SRing, TypeInv
<1>4. InElem(l)' = InElem(l) /\ (Host(l[1])' <=> Host(l[1])) /\ (Zero(l)' <=> Zero(l))
  BY <1>2 DEF InElem, Elements, Host, Zero
<1>5. Total(l)' = Total(l) /\ Given(l)' = Given(l)
  BY <1>2, <1>4 DEF Total, Given
<1>6. ActiveInv(l) /\ Active(l)
  BY DEF Receiving
<1>7. Wanted(l) \in Nat /\ Given(l) \in Nat /\ BPQ \in Nat
  <2>1. Asked(l)
    BY DEF Receiving
  <2> QED
    BY <1>1, <2>1, AskedTypes, BpqAssumption
<1>8. 1 <= Wanted(l) /\ (~Zero(l) => Given(l) <= Wanted(l) - 1 + BPQ)
  BY <1>6 DEF ActiveInv
<1>9. (1 <= Wanted(l) /\ Taken(l) <= confirm[l] /\ confirm[l] <= Given(l))'
  BY <1>2, <1>5, <1>6, <1>7, <1>8 DEF ActiveInv
<1>10. (~Zero(l) => Given(l) <= Wanted(l) - 1 + BPQ)'
  BY <1>4, <1>5, <1>7, <1>8
<1>11. (Host(l[1]) => confirm[l] = Given(l) /\ in[l].taken <= confirm[l])'
  BY <1>2, <1>4, <1>5, <1>6 DEF ActiveInv
<1>12. ActiveInv(l)'
  BY <1>2, <1>3, <1>4, <1>5, <1>6, <1>9, <1>10, <1>11 DEF ActiveInv, Busy
<1> QED
  BY <1>2, <1>6, <1>12 DEF Active

\* When the receiver may finish, the sender is past the element, and nothing is
\* under way.
LEMMA AllReceived ==
    ASSUME IInv, NEW l \in Link, ~Self(l), InCall(l, 299) \/ InCall(l, 304), confirm[l] = 0
    PROVE  /\ Asked(l) /\ Passed(l) /\ ~Active(l) /\ request[l] = 0
           /\ Of(SRing(l), "confirm", l) = {} /\ Of(SRing(l), "out", l) = {}
           /\ Of(RRing(l), "request", l) = {} /\ Of(RRing(l), "in", l) = {}
<1>1. TypeInv /\ PlaceInv /\ LinkInv(l)
  BY LinkFacts
<1>2. InCase(l) \in {299, 304}
  BY DEF InCall
<1>3. in[l].st \in {299, 304} /\ Asked(l)
  BY <1>2 DEF InCase, Asked
<1>4. ReceiverInv(l)
  BY <1>1, <1>3 DEF LinkInv
<1>5. PICK total \in Nat \ {0} : total = Total(l)
  BY <1>1, <1>3, AskedTypes
<1>6. Taken(l) = total
  BY <1>3, <1>4, <1>5 DEF ReceiverInv
<1>7. ~Active(l)
  <2> SUFFICES ASSUME Active(l) PROVE FALSE
    OBVIOUS
  <2>1. Taken(l) <= confirm[l]
    BY LinkFacts DEF ActiveInv
  <2> QED
    BY <1>5, <1>6, <2>1
<1>8. Passed(l)
  <2> SUFFICES ASSUME ~Passed(l) PROVE FALSE
    OBVIOUS
  <2>1. Taken(l) = 0
    BY <1>1, <1>3, <1>7 DEF LinkInv, IdleInv
  <2> QED
    BY <1>5, <1>6, <2>1
<1>9. PassedInv(l)
  BY <1>1, <1>3, <1>8 DEF LinkInv
<1>10. request[l] = 0 /\ Of(SRing(l), "confirm", l) = {} /\ Of(SRing(l), "out", l) = {}
  BY <1>9 DEF PassedInv
<1>11. Of(RRing(l), "request", l) = {}
  <2>1. PICK n \in Int : n = total + 1
    BY <1>5
  <2>2. Wanted(l) = n
    BY <1>5, <1>8, <1>10, <2>1 DEF Wanted
  <2>3. Run(RRing(l), "request", l, First(l), Total(l), n, n)
    BY <1>4, <1>6, <2>1, <2>2 DEF ReceiverInv
  <2> QED
    BY <2>1, <2>3, RunNone
<1>12. Of(RRing(l), "in", l) = {}
  <2>1. CASE Fetches(l)
    <3>1. /\ in[l].unpacked <= in[l].completed /\ in[l].completed <= in[l].taken
          /\ in[l].taken <= total
          /\ Run(RRing(l), "in", l, 1, Total(l), in[l].completed, in[l].taken)
      BY <1>4, <1>5, <2>1 DEF ReceiverInv
    <3>2. in[l].unpacked = total
      BY <1>6, <2>1 DEF Fetches, Taken, Zero, Gets
    <3>3. in[l].taken \in Int /\ in[l].completed \in Int /\ in[l].taken <= in[l].completed
      BY <1>1, <3>1, <3>2, QueueTypes
    <3> QED
      BY <3>1, <3>3, RunNone
  <2>2. CASE ~Fetches(l)
    BY <1>4, <2>2 DEF ReceiverInv
  <2> QED
    BY <2>1, <2>2
<1> QED
  BY <1>3, <1>7, <1>8, <1>10, <1>11, <1>12

\* InFinish, with which the receiver passes an element, keeps the invariant.
LEMMA InFinishKeeps == ASSUME IInv, NEW l \in Link, ~Self(l), InFinish(l) PROVE IInv'
<1>1. TypeInv /\ PlaceInv /\ l[1] # l[2] /\ l[1] \in Proc /\ l[2] \in Proc /\ OrderInv(l)
  BY LinkFacts, LinkEnds
<1>2. confirm[l] = 0 /\ (InCall(l, 299) \/ InCall(l, 304))
      /\ UNCHANGED <<prog, pc, round, out, request, confirm, mem, dma>> /\ pc[l[2]] = "fence" /\ Busy(in[l])
      /\ in' = [in EXCEPT ![l] = Finished(in[l])]
  BY DEF InFinish, InCall
<1>3. /\ Passed(l) /\ ~Active(l) /\ request[l] = 0
      /\ Of(SRing(l), "confirm", l) = {} /\ Of(SRing(l), "out", l) = {}
      /\ Of(RRing(l), "request", l) = {} /\ Of(RRing(l), "in", l) = {}
  BY <1>2, AllReceived
<1>4. in[l] \in Queues /\ QueueInv(out[l], l[1], l) /\ QueueInv(in[l], l[2], l)
  BY <1>1, QueueTypes
<1>5. in[l].cur \in Nat
  BY <1>4 DEF Queues
<1>6. /\ in'[l] = Finished(in[l]) /\ \A m \in Link \ {l} : in'[m] = in[m]
      /\ in' \in [Link -> Queues]
  <2>1. in \in [Link -> Queues] /\ Finished(in[l]) \in Queues
    BY <1>1, <1>4, FinishedQueue DEF TypeInv
  <2> QED
    BY <1>2, <2>1
<1>7. in'[l].st = 0 /\ Rested(in'[l]) /\ in'[l].cur = in[l].cur + 1 /\ QueueInv(in'[l], l[2], l)
  BY <1>2, <1>4, <1>6, FinishedQueue, FinishedInv
<1>8. SRing(l)' = SRing(l) /\ RRing(l)' = RRing(l)
  BY <1>2 DEF SRing, RRing
<1>9. ~Asked(l)' /\ ~Active(l)' /\ RestInv(l)'
  BY <1>2, <1>3, <1>7, <1>8 DEF RestInv, Quiet, Asked, Active
<1>10. LinkInv(l)'
  BY <1>9 DEF LinkInv
<1>11. OrderInv(l)'
  <2>1. \A r, e : OutDone(l, r, e)' <=> OutDone(l, r, e)
    BY <1>2 DEF OutDone
  <2>2. \A e \in Nat : e < in'[l].cur => e < in[l].cur \/ e = in[l].cur
    BY <1>5, <1>7
  <2>3. OutDone(l, round[l[2]], in[l].cur)
    BY <1>3 DEF Passed
  <2>4. \A r : \A e \in Nat :
            InDone(l, r, e)' => InDone(l, r, e) \/ (r = round[l[2]] /\ e = in[l].cur)
    BY <1>2, <2>2 DEF InDone
  <2>5. \A r \in DOMAIN prog.fences : \A e \in DOMAIN prog.fences[r][l] : e \in Nat
    BY <1>1, ElementTypes
  <2>6. \A e \in Nat : e < in[l].cur \/ e = in[l].cur => e < in'[l].cur
    BY <1>5, <1>7
  <2>7. \A r : \A e \in Nat :
            InDone(l, r, e) \/ (r = round[l[2]] /\ e = in[l].cur) => InDone(l, r, e)'
    BY <1>2, <2>6 DEF InDone
  <2> SUFFICES ASSUME NEW r \in DOMAIN prog.fences, NEW e \in DOMAIN prog.fences[r][l]
               PROVE  /\ InDone(l, r, e)' => OutDone(l, r, e)'
                      /\ OutDone(l, r, e)' => InDone(l, r, e)'
    BY <1>2 DEF OrderInv
  <2>8. /\ InDone(l, r, e) => OutDone(l, r, e)
        /\ OutDone(l, r, e) => InDone(l, r, e) \/ (Asked(l) /\ r = round[l[2]] /\ e = in[l].cur)
    BY <1>1 DEF OrderInv
  <2>9. e \in Nat
    BY <2>5
  <2> QED
    BY <2>1, <2>3, <2>4, <2>7, <2>8, <2>9
<1>12. PICK t \in Seq(DmaRequests) : t = <<>>
  <2>1. <<>> \in Seq(DmaRequests)
    OBVIOUS
  <2> QED
    BY <2>1
<1>13. dma' = [dma EXCEPT ![l[2]] = @ \o t] /\ DOMAIN t = {}
  <2>1. dma \in [Proc -> Seq(DmaRequests)]
    BY <1>1 DEF TypeInv
  <2>2. dma[l[2]] \o <<>> = dma[l[2]]
    BY <1>1, <2>1
  <2> QED
    BY <1>1, <1>2, <1>12, <2>1, <2>2
<1>14. EndStep(l, l[2], t)
  <2>1. Valued(SRing(l), "confirm", l, {0})
    BY <1>3 DEF Valued
  <2>2. out' \in [Link -> Queues] /\ request' \in [Link -> Nat] /\ confirm' \in [Link -> Nat]
    BY <1>1, <1>2 DEF TypeInv
  <2> QED
    BY <1>2, <1>3, <1>4, <1>6, <1>7, <1>12, <1>13, <2>1, <2>2 DEF EndStep
<1> QED
  BY <1>10, <1>11, <1>14, EndFrame

\* A call of the receiver that moves data: t, or the word that a host stores,
\* asks for the fragments from Taken(l) + 1 to taken, the new Taken(l).
ReceiverMove(l, case, t, taken, v) ==
    /\ RecvStep(l, case, t)
    /\ taken = Taken(l)' /\ Taken(l) <= taken /\ taken <= confirm[l] /\ taken <= Total(l)
    /\ in'[l].st = IF taken = Total(l) THEN (IF Gets(l) THEN 304 ELSE 299) ELSE case
    /\ Host(l[1]) => in'[l].taken <= confirm[l]
    /\ \/ /\ Host(l[2]) /\ t = <<>>
          /\ request'[l] = v /\ Rank(v, First(l), Total(l)) = taken + 1
          /\ v = 0 \/ (~Zero(l) /\ v <= Total(l))
       \/ /\ ~Host(l[2]) /\ request'[l] = request[l]
          /\ Run(t, "request", l, First(l), Total(l), Taken(l) + 1, taken + 1)
          /\ Valued(t, "request", l, IF Zero(l) THEN {0, First(l)} ELSE 0 .. Total(l))
    /\ IF Fetches(l)
       THEN /\ in'[l].unpacked <= in'[l].completed /\ in'[l].completed = in[l].completed
            /\ in[l].taken <= in'[l].taken
            /\ Run(t, "in", l, 1, Total(l), in[l].taken, in'[l].taken)
            /\ Noted(t, "in", l, in[l].cur)
       ELSE Of(t, "in", l) = {}

\* The ring of a host is empty.
LEMMA HostRing == ASSUME IInv, NEW p \in Proc, Host(p) PROVE dma[p] = <<>>
  BY DEF IInv, RingInv

\* What a call of the receiver that moves data does not change.
LEMMA MoveConstants ==
    ASSUME IInv, NEW l \in Link, ~Self(l), NEW case \in {202, 298, 302, 303},
           NEW t \in Seq(DmaRequests), RecvStep(l, case, t)
    PROVE  /\ UNCHANGED <<prog, pc, round, out>> /\ confirm' = confirm /\ in'[l].cur = in[l].cur
           /\ InElem(l)' = InElem(l)
           /\ (Host(l[1])' <=> Host(l[1])) /\ (Zero(l)' <=> Zero(l))
           /\ (Gets(l)' <=> Gets(l)) /\ (Fetches(l)' <=> Fetches(l))
           /\ Total(l)' = Total(l) /\ First(l)' = First(l)
           /\ (Passed(l)' <=> Passed(l)) /\ (Active(l)' <=> Active(l))
           /\ RRing(l)' = RRing(l) \o t /\ Asked(l)'
<1>1. TypeInv /\ l[2] \in Proc
  BY LinkFacts, LinkEnds
<1>2. UNCHANGED <<prog, pc, round, out>> /\ confirm' = confirm /\ in'[l].cur = in[l].cur
  BY DEF RecvStep, InCall
<1>3. InElem(l)' = InElem(l) /\ \A p : Host(p)' <=> Host(p)
  BY <1>2 DEF InElem, Elements, Host
<1>4. (Zero(l)' <=> Zero(l)) /\ (Gets(l)' <=> Gets(l)) /\ (Fetches(l)' <=> Fetches(l))
  BY <1>3 DEF Zero, Gets, Fetches
<1>5. Total(l)' = Total(l) /\ First(l)' = First(l)
  BY <1>2, <1>3, <1>4 DEF Total, First
<1>6. (Passed(l)' <=> Passed(l)) /\ (Active(l)' <=> Active(l))
  BY <1>2 DEF Passed, OutDone, Active
<1>7. RRing(l)' = RRing(l) \o t /\ Asked(l)'
  BY <1>1 DEF RecvStep, RRing, TypeInv, Asked
<1> QED
  BY <1>2, <1>3, <1>4, <1>5, <1>6, <1>7

\* A call of the receiver that moves data keeps the invariant.
LEMMA MoveKeeps ==
    ASSUME IInv, NEW l \in Link, ~Self(l), NEW case \in {202, 298, 302, 303},
           NEW t \in Seq(DmaRequests), NEW taken \in Nat, NEW v, Receiving(l, case),
           ReceiverMove(l, case, t, taken, v)
    PROVE  IInv'
<1>1. TypeInv /\ PlaceInv /\ l[1] \in Proc /\ l[2] \in Proc
  BY LinkFacts, LinkEnds
<1>2. RecvStep(l, case, t)
  BY DEF ReceiverMove
<1>3. /\ UNCHANGED <<prog, pc, round, out>> /\ confirm' = confirm /\ in'[l].cur = in[l].cur
      /\ InElem(l)' = InElem(l)
      /\ (Host(l[1])' <=> Host(l[1])) /\ (Zero(l)' <=> Zero(l))
      /\ (Gets(l)' <=> Gets(l)) /\ (Fetches(l)' <=> Fetches(l))
      /\ Total(l)' = Total(l) /\ First(l)' = First(l)
      /\ (Passed(l)' <=> Passed(l)) /\ (Active(l)' <=> Active(l))
      /\ RRing(l)' = RRing(l) \o t /\ Asked(l)'
  BY <1>2, MoveConstants
<1>4. /\ Asked(l) /\ Active(l) /\ ReceiverInv(l) /\ ActiveInv(l) /\ in[l].st = case
      /\ Busy(in[l]) /\ Taken(l) < Total(l)
      /\ (Zero(l) <=> case = 298) /\ (Gets(l) <=> case = 303) /\ (Fetches(l) <=> case = 302)
  BY DEF Receiving
<1>5. PICK old \in Nat : old = Taken(l)
  BY <1>1, <1>4, AskedTypes
<1>6. PICK total \in Nat \ {0} : total = Total(l)
  BY <1>1, <1>4, AskedTypes
<1>7. PICK w \in Nat : w = Wanted(l)
  BY <1>1, <1>4, AskedTypes
<1>8. w <= old + 1 /\ Run(RRing(l), "request", l, First(l), total, w, old + 1)
      /\ old <= taken /\ taken <= total /\ taken <= confirm[l]
  BY <1>4, <1>5, <1>6, <1>7 DEF ReceiverInv, ReceiverMove
<1>9. RRing(l) \in Seq(DmaRequests) /\ request[l] \in Nat /\ request'[l] \in Nat /\ First(l) \in Nat \ {0}
  BY <1>1, <1>2, <1>4, QueueTypes, AskedTypes DEF RecvStep
<1>10. Busy(in[l])'
  BY <1>2, <1>4 DEF RecvStep, Busy
\* What is asked for.
<1>11. PICK wanted \in Nat : wanted = Wanted(l)' /\ w <= wanted /\ wanted <= taken + 1
  <2>1. CASE Host(l[2])
    <3>1. Rank(request'[l], First(l), total) = taken + 1
      BY <1>6, <2>1 DEF ReceiverMove
    <3>2. Wanted(l)' = taken + 1
      BY <1>3, <1>4, <1>6, <3>1 DEF Wanted, Rank
    <3> QED
      BY <1>8, <3>2
  <2>2. CASE ~Host(l[2])
    <3>1. request'[l] = request[l]
      BY <2>2 DEF ReceiverMove
    <3>2. Wanted(l)' = w
      BY <1>3, <1>4, <1>7, <3>1 DEF Wanted
    <3> QED
      BY <1>8, <3>2
  <2> QED
    BY <2>1, <2>2
<1>12. PICK lo \in Int : lo = old + 1
  OBVIOUS
<1>13. PICK hi \in Int : hi = taken + 1
  OBVIOUS
<1>14. Run(RRing(l)', "request", l, First(l), total, wanted, hi)
       /\ Valued(RRing(l)', "request", l, IF Zero(l) THEN {0, First(l)} ELSE 0 .. total)
       /\ (request'[l] = 0 \/ request'[l] = First(l) \/ (~Zero(l) /\ request'[l] <= total))
  <2>1. CASE Host(l[2])
    <3>1. t = <<>> /\ RRing(l) = <<>>
      BY <1>1, <2>1, HostRing DEF ReceiverMove, RRing
    <3>2. RRing(l)' = <<>>
      BY <1>3, <3>1
    <3>3. Of(RRing(l)', "request", l) = {}
      BY <3>2 DEF Of
    <3>4. request'[l] = 0 \/ (~Zero(l) /\ request'[l] <= total)
      BY <1>6, <2>1 DEF ReceiverMove
    <3> QED
      BY <3>3, <3>4, RunEmpty DEF Valued
  <2>2. CASE ~Host(l[2])
    <3>1. /\ request'[l] = request[l]
          /\ Run(t, "request", l, First(l), total, lo, hi)
          /\ Valued(t, "request", l, IF Zero(l) THEN {0, First(l)} ELSE 0 .. total)
      BY <1>5, <1>6, <1>12, <1>13, <2>2 DEF ReceiverMove
    <3>2. wanted = w
      BY <1>3, <1>4, <1>7, <1>11, <3>1 DEF Wanted
    <3>3. Run(RRing(l), "request", l, First(l), total, w, lo) /\ w <= lo /\ lo <= hi /\ w \in Int
      BY <1>8, <1>12, <1>13
    <3>4. Run(RRing(l) \o t, "request", l, First(l), total, w, hi)
      BY <1>9, <3>1, <3>3, RunConcat
    <3>5. PICK V : V = IF Zero(l) THEN {0, First(l)} ELSE 0 .. total
      OBVIOUS
    <3>6. Valued(RRing(l), "request", l, V)
      BY <1>4, <1>6, <3>5 DEF ReceiverInv
    <3>7. Valued(RRing(l) \o t, "request", l, V)
      BY <1>9, <3>1, <3>5, <3>6, ConcatRest
    <3> QED
      BY <1>3, <1>4, <1>6, <3>1, <3>2, <3>4, <3>5, <3>7 DEF ReceiverInv
  <2> QED
    BY <2>1, <2>2
\* What is being fetched.
<1>15. IF Fetches(l)
       THEN /\ in'[l].unpacked <= in'[l].completed /\ in'[l].completed <= in'[l].taken
            /\ in'[l].taken <= total
            /\ Run(RRing(l)', "in", l, 1, total, in'[l].completed, in'[l].taken)
            /\ Noted(RRing(l)', "in", l, in'[l].cur)
       ELSE Of(RRing(l)', "in", l) = {}
  <2>1. CASE Fetches(l)
    <3>1. in[l].completed \in Nat /\ in[l].taken \in Nat
      BY <1>1, QueueTypes
    <3>2. PICK a \in Int : a = in[l].completed
      BY <3>1
    <3>3. PICK b \in Int : b = in[l].taken
      BY <3>1
    <3>4. PICK c \in Int : c = in'[l].taken
      BY <1>2 DEF RecvStep, Queues
    <3>5. /\ a <= b /\ Run(RRing(l), "in", l, 1, total, a, b) /\ Noted(RRing(l), "in", l, in[l].cur)
      BY <1>4, <1>6, <2>1, <3>2, <3>3 DEF ReceiverInv
    <3>6. /\ in'[l].unpacked <= in'[l].completed /\ in'[l].completed = a /\ b <= c
          /\ Run(t, "in", l, 1, total, b, c) /\ Noted(t, "in", l, in[l].cur)
      BY <1>6, <2>1, <3>2, <3>3, <3>4 DEF ReceiverMove
    <3>7. Run(RRing(l) \o t, "in", l, 1, total, a, c)
      BY <1>9, <3>5, <3>6, RunConcat
    <3>8. PICK e : e = in[l].cur
      OBVIOUS
    <3>9. Noted(RRing(l) \o t, "in", l, e)
      <4>1. Noted(RRing(l), "in", l, e) /\ Noted(t, "in", l, e)
        BY <3>5, <3>6, <3>8
      <4> QED
        BY <1>9, <4>1, ConcatRest
    <3>10. c <= total
      <4>1. Host(l[1])
        BY <2>1 DEF Fetches
      <4>2. c <= confirm[l] /\ confirm[l] <= Given(l) /\ Given(l) <= total
        BY <1>4, <1>6, <3>4, <4>1 DEF ActiveInv, ReceiverMove
      <4>3. confirm[l] \in Nat /\ Given(l) \in Nat
        BY <1>1, <1>4, QueueTypes, AskedTypes
      <4> QED
        BY <4>2, <4>3
    <3> QED
      BY <1>3, <2>1, <3>4, <3>5, <3>6, <3>7, <3>8, <3>9, <3>10
  <2>2. CASE ~Fetches(l)
    <3>1. Of(t, "in", l) = {} /\ Of(RRing(l), "in", l) = {}
      BY <1>4, <2>2 DEF ReceiverInv, ReceiverMove
    <3>2. Of(RRing(l) \o t, "in", l) = {}
      BY <1>9, <3>1, ConcatRest
    <3> QED
      BY <1>3, <2>2, <3>2
  <2> QED
    BY <2>1, <2>2
<1>16. ReceiverInv(l)'
  <2>1. PICK st : st = in'[l].st
    OBVIOUS
  <2>2. st = IF taken = total THEN (IF Gets(l) THEN 304 ELSE 299) ELSE case
    BY <1>6, <2>1 DEF ReceiverMove
  <2>3. ~(Zero(l) /\ Gets(l)) /\ ~(Zero(l) /\ Fetches(l)) /\ ~(Gets(l) /\ Fetches(l))
    BY DEF Zero, Gets, Fetches
  <2>4. st \in (IF Zero(l) THEN {298, 299} ELSE IF Gets(l) THEN {303, 304}
                     ELSE IF Fetches(l) THEN {302, 299} ELSE {202, 299})
    BY <1>4, <2>2, <2>3
  <2>5. st \in {299, 304} <=> taken = total
    BY <1>4, <2>2
  <2>6. Taken(l)' = taken /\ Total(l)' = total
    BY <1>3, <1>6 DEF ReceiverMove
  <2>7. (in[l].st \in (IF Zero(l) THEN {298, 299} ELSE IF Gets(l) THEN {303, 304}
                     ELSE IF Fetches(l) THEN {302, 299} ELSE {202, 299}))'
    BY <1>3, <2>1, <2>4
  <2>8. (in[l].st \in {299, 304} <=> Taken(l) = Total(l))' /\ (Taken(l) <= Total(l))'
    BY <1>8, <2>1, <2>5, <2>6
  <2>9. (request[l] = 0 \/ request[l] = First(l) \/ (~Zero(l) /\ request[l] <= Total(l)))'
    BY <1>3, <1>14, <2>6
  <2>10. (Wanted(l) <= Taken(l) + 1)' /\ Run(RRing(l), "request", l, First(l), Total(l), Wanted(l), Taken(l) + 1)'
    BY <1>3, <1>11, <1>13, <1>14, <2>6
  <2>11. Valued(RRing(l), "request", l, IF Zero(l) THEN {0, First(l)} ELSE 0 .. Total(l))'
    BY <1>3, <1>14, <2>6
  <2>12. (IF Fetches(l)
       THEN /\ in[l].unpacked <= in[l].completed /\ in[l].completed <= in[l].taken
            /\ in[l].taken <= Total(l)
            /\ Run(RRing(l), "in", l, 1, Total(l), in[l].completed, in[l].taken)
            /\ Noted(RRing(l), "in", l, in[l].cur)
       ELSE Of(RRing(l), "in", l) = {})'
    BY <1>3, <1>15, <2>6
  <2> QED
    BY <1>10, <2>7, <2>8, <2>9, <2>10, <2>11, <2>12 DEF ReceiverInv
<1>17. ActiveInv(l)' /\ Active(l)'
  <2>1. Host(l[1]) => in'[l].taken <= confirm[l]
    BY DEF ReceiverMove
  <2>2. taken = Taken(l)'
    BY DEF ReceiverMove
  <2> QED
    BY <1>2, <1>7, <1>8, <1>11, <2>1, <2>2, ActiveKept
<1>18. ~Passed(l)
  BY <1>4, LinkFacts
<1>19. LinkInv(l)'
  BY <1>3, <1>16, <1>17, <1>18 DEF LinkInv
<1> QED
  BY <1>2, <1>19, ReceiverFrame

\* The word after fragment n has been taken: that all is through, or the next
\* fragment that is wanted.
NextWord(l, n) == IF n = Total(l) THEN 0 ELSE n + 1

\* NextWord is the word after n, in the order of the words.
LEMMA NextWords ==
    ASSUME IInv, NEW l \in Link, ~Self(l), Asked(l), NEW n \in Nat \ {0}, n <= Total(l)
    PROVE  /\ NextWord(l, n) \in Nat
           /\ Rank(NextWord(l, n), First(l), Total(l)) = n + 1
           /\ NextWord(l, n) = 0 \/ (~Zero(l) /\ NextWord(l, n) <= Total(l))
           /\ NextWord(l, n) \in (IF Zero(l) THEN {0, First(l)} ELSE 0 .. Total(l))
<1>1. PICK total \in Nat \ {0} : total = Total(l)
  BY AskedTypes, LinkFacts
<1>2. CASE n = total
  <2>1. NextWord(l, n) = 0
    BY <1>1, <1>2 DEF NextWord
  <2> QED
    BY <1>1, <1>2, <2>1 DEF Rank
<1>3. CASE n # total
  <2>1. NextWord(l, n) = n + 1 /\ n + 1 <= total /\ n + 1 # 0 /\ n + 1 # 1
    BY <1>1, <1>3 DEF NextWord
  <2>2. ~Zero(l) /\ First(l) = 1
    BY <1>1, <1>3 DEF Total, First
  <2> QED
    BY <1>1, <2>1, <2>2 DEF Rank
<1> QED
  BY <1>2, <1>3

\* The request that writes it.
LEMMA NextWordRequest ==
    ASSUME IInv, NEW l \in Link, ~Self(l), NEW v \in Nat
    PROVE  LET x == DmaRequest(<<>>, Request(l, v), NoNote) IN
           /\ x \in DmaRequests /\ RequestOf(l[2], x)
           /\ Kind(x) = "request" /\ LinkOf(x) = l /\ Value(x) = v
           /\ CopiesAt(x, round, out', in')
<1>1. PICK x : x = DmaRequest(<<>>, Request(l, v), NoNote)
  OBVIOUS
<1>2. PICK cs \in Seq(CopySet) : cs = <<>>
  BY NoCopy
<1>3. x \in DmaRequests
  BY <1>1, <1>2, WordTypes
<1>4. Kind(x) = "request" /\ LinkOf(x) = l /\ Value(x) = v
  BY <1>1, Constructors
<1>5. x.note = NoNote /\ x.copies = <<>>
  BY <1>1 DEF DmaRequest
<1>6. CopiesAt(x, round, out', in')
  BY <1>5 DEF CopiesAt
<1> QED
  BY <1>1, <1>3, <1>4, <1>5, <1>6 DEF RequestOf

\* A processor appends t, a request x or nothing, to its ring.
Appends(p, x, t) ==
    /\ dma' = [dma EXCEPT ![p] = @ \o t]
    /\ Host(p) => t = <<>>
    /\ ~Host(p) => t = <<x>>
    /\ t # <<>> => ~Host(p)
    /\ \A j \in DOMAIN t : t[j] = x

\* A host appends nothing to its ring, another processor the request x.
LEMMA AppendSome ==
    ASSUME TypeInv, NEW p \in Proc, NEW x \in DmaRequests,
           IF Host(p) THEN dma' = dma ELSE Dispatch(p, <<x>>)
    PROVE  \E t \in Seq(DmaRequests) : Appends(p, x, t)
<1>1. dma \in [Proc -> Seq(DmaRequests)]
  BY DEF TypeInv
<1>2. CASE Host(p)
  <2>1. dma' = [dma EXCEPT ![p] = @ \o <<>>]
    <3>1. dma[p] \o <<>> = dma[p]
      BY <1>1
    <3> QED
      BY <1>1, <1>2, <3>1
  <2>2. <<>> \in Seq(DmaRequests) /\ DOMAIN <<>> = {}
    OBVIOUS
  <2>3. Appends(p, x, <<>>)
    BY <1>2, <2>1, <2>2 DEF Appends
  <2> QED
    BY <2>2, <2>3
<1>3. CASE ~Host(p)
  <2>1. <<x>> \in Seq(DmaRequests) /\ \A j \in DOMAIN <<x>> : <<x>>[j] = x
    OBVIOUS
  <2>2. Appends(p, x, <<x>>)
    BY <1>3, <2>1 DEF Appends, Dispatch
  <2> QED
    BY <2>1, <2>2
<1> QED
  BY <1>2, <1>3

\* A call that takes fragment n and tells the sender so.
ConfirmStep(l, case, n) ==
    /\ InCall(l, case) /\ Finds(l, case)
    /\ in' \in [Link -> Queues] /\ \A m \in Link \ {l} : in'[m] = in[m]
    /\ in'[l].nElm = in[l].nElm /\ in'[l].cur = in[l].cur
    /\ in'[l].st = (IF n = Total(l) THEN 299 ELSE case)
    /\ n = Taken(l) + 1 /\ n = Taken(l)'
    /\ PioWriteRemote(l[2], Request(l, NextWord(l, n))) /\ DOMAIN mem' = DOMAIN mem

\* A call of the receiver that takes what has been put, and asks for what follows,
\* keeps the invariant.
LEMMA ConfirmKeeps ==
    ASSUME IInv, NEW l \in Link, ~Self(l), NEW case \in {202, 298}, NEW n \in Nat, ConfirmStep(l, case, n)
    PROVE  IInv'
<1>1. TypeInv /\ PlaceInv /\ l[1] \in Proc /\ l[2] \in Proc
  BY LinkFacts, LinkEnds
<1>2. Receiving(l, case)
  BY ReceiverCalls DEF ConfirmStep
<1>3. /\ Asked(l) /\ Active(l) /\ ReceiverInv(l) /\ ActiveInv(l) /\ in[l].st = case
      /\ Taken(l) < Total(l)
      /\ (Zero(l) <=> case = 298) /\ (Gets(l) <=> case = 303) /\ (Fetches(l) <=> case = 302)
  BY <1>2 DEF Receiving
<1>4. PICK old \in Nat : old = Taken(l)
  BY <1>1, <1>3, AskedTypes
<1>5. PICK total \in Nat \ {0} : total = Total(l)
  BY <1>1, <1>3, AskedTypes
<1>6. n = old + 1 /\ n = Taken(l)' /\ n <= total /\ n \in Nat \ {0}
  BY <1>3, <1>4, <1>5 DEF ConfirmStep
<1>7. n <= confirm[l]
  <2>1. old <= confirm[l] /\ confirm[l] \in Nat
    BY <1>1, <1>3, <1>4, QueueTypes DEF ActiveInv
  <2>2. case = 202 => old = in[l].unpacked
    BY <1>3, <1>4 DEF Taken
  <2>3. case = 298 => old = 0
    BY <1>3, <1>4 DEF Taken
  <2>4. old # confirm[l]
    BY <2>2, <2>3 DEF ConfirmStep, Finds
  <2> QED
    BY <1>6, <2>1, <2>4
<1>8. PICK v \in Nat : /\ v = NextWord(l, n) /\ Rank(v, First(l), total) = n + 1
                       /\ v = 0 \/ (~Zero(l) /\ v <= total)
                       /\ v \in (IF Zero(l) THEN {0, First(l)} ELSE 0 .. total)
  BY <1>3, <1>5, <1>6, NextWords
<1>9. PICK x \in DmaRequests :
          /\ x = DmaRequest(<<>>, Request(l, v), NoNote) /\ RequestOf(l[2], x)
          /\ Kind(x) = "request" /\ LinkOf(x) = l /\ Value(x) = v /\ CopiesAt(x, round, out', in')
  BY NextWordRequest
<1>10. /\ confirm' = confirm
       /\ IF Host(l[2]) THEN request' = [request EXCEPT ![l] = v] ELSE request' = request
       /\ IF Host(l[2]) THEN dma' = dma ELSE Dispatch(l[2], <<x>>)
  <2>1. PioWriteRemote(l[2], Request(l, v))
    BY <1>8 DEF ConfirmStep
  <2> QED
    BY <1>1, <1>9, <2>1, HostWrites, BoardWrites
<1>11. PICK t \in Seq(DmaRequests) : Appends(l[2], x, t)
  BY <1>1, <1>10, AppendSome
<1>12. /\ request' \in [Link -> Nat] /\ \A m \in Link \ {l} : request'[m] = request[m]
       /\ request'[l] = IF Host(l[2]) THEN v ELSE request[l]
  <2>1. request' = IF Host(l[2]) THEN [request EXCEPT ![l] = v] ELSE request
    BY <1>10
  <2>2. request \in [Link -> Nat]
    BY <1>1 DEF TypeInv
  <2> QED
    BY <2>1, <2>2
<1>13. RecvStep(l, case, t)
  <2>1. \A j \in DOMAIN t : /\ RequestOf(l[2], t[j]) /\ Kind(t[j]) # "none" /\ LinkOf(t[j]) = l
                           /\ CopiesAt(t[j], round, out', in')
    BY <1>9, <1>11 DEF Appends
  <2>2. in'[l].st # 0
    BY DEF ConfirmStep
  <2> QED
    BY <1>10, <1>11, <1>12, <2>1, <2>2 DEF ConfirmStep, RecvStep, Appends
<1>14. ~Host(l[1]) /\ ~Fetches(l) /\ ~Gets(l)
  <2>1. ~Fetches(l) /\ ~Gets(l)
    BY <1>3
  <2>2. Host(l[1]) => Fetches(l) \/ Gets(l)
    BY DEF Fetches, Gets
  <2> QED
    BY <2>1, <2>2
<1>15. Of(t, "in", l) = {}
  BY <1>9, <1>11 DEF Of, Appends
<1>16. \/ /\ Host(l[2]) /\ t = <<>>
          /\ request'[l] = v /\ Rank(v, First(l), Total(l)) = n + 1
          /\ v = 0 \/ (~Zero(l) /\ v <= Total(l))
       \/ /\ ~Host(l[2]) /\ request'[l] = request[l]
          /\ Run(t, "request", l, First(l), Total(l), Taken(l) + 1, n + 1)
          /\ Valued(t, "request", l, IF Zero(l) THEN {0, First(l)} ELSE 0 .. Total(l))
  <2>1. CASE Host(l[2])
    BY <1>5, <1>8, <1>11, <1>12, <2>1 DEF Appends
  <2>2. CASE ~Host(l[2])
    <3>1. t = <<x>> /\ request'[l] = request[l]
      BY <1>11, <1>12, <2>2 DEF Appends
    <3>2. Rank(Value(x), First(l), total) \in (old + 1) + 1 .. n + 1
      <4>1. Rank(Value(x), First(l), total) = n + 1
        BY <1>8, <1>9
      <4> QED
        BY <1>6, <4>1
    <3>3. Run(<<x>>, "request", l, First(l), total, old + 1, n + 1)
      BY <3>2, RunOne
    <3>4. Valued(t, "request", l, IF Zero(l) THEN {0, First(l)} ELSE 0 .. Total(l))
      <4>1. Value(x) \in (IF Zero(l) THEN {0, First(l)} ELSE 0 .. Total(l))
        BY <1>5, <1>8, <1>9
      <4>2. \A j \in Of(t, "request", l) : t[j] = x
        BY <1>11 DEF Of, Appends
      <4> QED
        BY <4>1, <4>2 DEF Valued
    <3> QED
      BY <1>4, <1>5, <2>2, <3>1, <3>3, <3>4
  <2> QED
    BY <2>1, <2>2
<1>17. ReceiverMove(l, case, t, n, v)
  <2>1. Taken(l) <= n /\ n <= Total(l) /\ n = Taken(l)'
    BY <1>4, <1>5, <1>6
  <2>2. in'[l].st = IF n = Total(l) THEN (IF Gets(l) THEN 304 ELSE 299) ELSE case
    BY <1>14 DEF ConfirmStep
  <2> QED
    BY <1>7, <1>13, <1>14, <1>15, <1>16, <2>1, <2>2 DEF ReceiverMove
<1> QED
  BY <1>2, <1>17, MoveKeeps

\* There is at most one host.
LEMMA OneHost ==
    ASSUME TypeInv, NEW p \in Proc, NEW q \in Proc, Host(p), Host(q)
    PROVE  p = q
<1> SUFFICES ASSUME p # q PROVE FALSE
  OBVIOUS
<1>1. prog.pentium \subseteq Proc /\ Cardinality(prog.pentium) <= 1 /\ {p, q} \subseteq prog.pentium
  BY ProgramAssumption DEF TypeInv, Host
<1>2. IsFiniteSet(prog.pentium)
  BY <1>1, ProcAssumption, FS_Subset
<1>3. Cardinality({p, q}) <= Cardinality(prog.pentium) /\ IsFiniteSet(prog.pentium)
  BY <1>1, <1>2, FS_Subset
<1>4. IsFiniteSet({p}) /\ Cardinality({p}) = 1
  BY FS_Singleton
<1>5. Cardinality({p} \union {q}) = 2
  BY <1>4, FS_AddElement
<1>6. {p} \union {q} = {p, q} /\ Cardinality(prog.pentium) \in Nat
  BY <1>2, FS_CardinalityType
<1> QED
  BY <1>1, <1>3, <1>5, <1>6

\* What a call that unpacks or fetches leaves in its queue.
Unpacked(q, u, n, st) == [q EXCEPT !.unpacked = u, !.taken = n, !.st = st]

\* The fields of that queue.
LEMMA QueueUnpacked ==
    ASSUME NEW q \in Queues, NEW u, NEW n, NEW st
    PROVE  /\ u \in Nat /\ n \in Nat /\ st \in States => Unpacked(q, u, n, st) \in Queues
           /\ Unpacked(q, u, n, st).taken = n /\ Unpacked(q, u, n, st).st = st
           /\ Unpacked(q, u, n, st).unpacked = u /\ Unpacked(q, u, n, st).completed = q.completed
           /\ Unpacked(q, u, n, st).nElm = q.nElm /\ Unpacked(q, u, n, st).cur = q.cur
  BY DEF Queues, Unpacked

\* The receiver's queue of link l becomes q.
SetIn(l, q) == in' = [in EXCEPT ![l] = q]

\* The receiver's queues when one of them is so changed.
LEMMA InUnpacked ==
    ASSUME TypeInv, NEW l \in Link, NEW u \in Nat, NEW n \in Nat, NEW st \in States,
           SetIn(l, Unpacked(in[l], u, n, st))
    PROVE  /\ in' \in [Link -> Queues] /\ \A m \in Link \ {l} : in'[m] = in[m]
           /\ in'[l].taken = n /\ in'[l].st = st /\ in'[l].unpacked = u
           /\ in'[l].completed = in[l].completed
           /\ in'[l].nElm = in[l].nElm /\ in'[l].cur = in[l].cur
<1>1. in \in [Link -> Queues] /\ in[l] \in Queues
  BY DEF TypeInv
<1>2. Unpacked(in[l], u, n, st) \in Queues
  BY <1>1, QueueUnpacked
<1>3. in'[l] = Unpacked(in[l], u, n, st)
  BY <1>1 DEF SetIn
<1>4. in' \in [Link -> Queues] /\ \A m \in Link \ {l} : in'[m] = in[m]
  BY <1>1, <1>2 DEF SetIn
<1> QED
  BY <1>1, <1>3, <1>4, QueueUnpacked

\* UnpackPut, which unpacks a fragment from a buffer that has been filled, keeps the invariant.
LEMMA UnpackPutKeeps == ASSUME IInv, NEW l \in Link, ~Self(l), UnpackPut(l) PROVE IInv'
<1>1. TypeInv /\ PlaceInv
  BY LinkFacts
<1>2. InCall(l, 202) /\ Finds(l, 202)
  BY DEF UnpackPut, Finds
<1>3. Receiving(l, 202)
  BY <1>2, ReceiverCalls
<1>4. Asked(l) /\ in[l].st = 202 /\ ~Zero(l) /\ ~Gets(l) /\ ~Fetches(l)
  BY <1>3 DEF Receiving
<1>5. PICK k \in Nat : k = in[l].unpacked
  BY <1>1, QueueTypes
<1>6. PICK n \in Nat \ {0} : n = k + 1
  OBVIOUS
<1>7. Taken(l) = k /\ Total(l) = InElem(l).frags
  BY <1>4, <1>5 DEF Taken, Total
<1>8. PICK st \in States : st = IF n = Total(l) THEN 299 ELSE 202
  BY DEF States
<1>9. PICK taken \in Nat : taken = in[l].taken
  BY <1>1, QueueTypes
<1>10. /\ in' = [in EXCEPT ![l].unpacked = n, ![l].taken = taken, ![l].st = st]
       /\ PioWriteRemote(l[2], Request(l, NextWord(l, n))) /\ DOMAIN mem' = DOMAIN mem
       /\ UNCHANGED <<prog, pc, round, out>>
  <2>1. UnpackAndConfirm(l, <<>>, taken) /\ k + 2 = n + 1 /\ UNCHANGED <<prog, pc, round, out>>
    BY <1>9, <1>6 DEF UnpackPut, InCall
  <2> QED
    BY <1>4, <1>7, <1>8, <1>5, <1>6, <2>1 DEF UnpackAndConfirm, PioWriteRemote, NextWord
<1>11. /\ in' \in [Link -> Queues] /\ \A m \in Link \ {l} : in'[m] = in[m]
       /\ in'[l].taken = taken /\ in'[l].st = st /\ in'[l].unpacked = n
       /\ in'[l].nElm = in[l].nElm /\ in'[l].cur = in[l].cur
  <2>1. SetIn(l, Unpacked(in[l], n, taken, st))
    BY <1>10 DEF Unpacked, SetIn
  <2> QED
    BY <1>1, <2>1, InUnpacked
<1>12. Taken(l)' = n
  <2>1. InElem(l)' = InElem(l) /\ \A p : Host(p)' <=> Host(p)
    BY <1>10, <1>11 DEF InElem, Elements, Host
  <2> QED
    BY <1>4, <1>11, <2>1 DEF Taken, Zero, Gets
<1>13. ConfirmStep(l, 202, n)
  BY <1>2, <1>7, <1>8, <1>10, <1>11, <1>12, <1>6 DEF ConfirmStep
<1> QED
  BY <1>13, ConfirmKeeps

\* PutArrived, which finds the whole element put into user memory, keeps the invariant.
LEMMA PutArrivedKeeps == ASSUME IInv, NEW l \in Link, ~Self(l), PutArrived(l) PROVE IInv'
<1>1. TypeInv /\ PlaceInv
  BY LinkFacts
<1>2. InCall(l, 298) /\ Finds(l, 298) /\ UNCHANGED <<prog, pc, round, out>>
  BY DEF PutArrived, Finds, InCall
<1>3. Receiving(l, 298)
  BY <1>2, ReceiverCalls
<1>4. Asked(l) /\ in[l].st = 298 /\ Zero(l)
  BY <1>3 DEF Receiving
<1>5. Taken(l) = 0 /\ Total(l) = 1
  BY <1>4 DEF Taken, Total
<1>6. NextWord(l, 1) = 0
  BY <1>5 DEF NextWord
<1>7. /\ in' = [in EXCEPT ![l].st = 299] /\ PioWriteRemote(l[2], Request(l, 0)) /\ mem' = mem
  BY DEF PutArrived
<1>8. /\ in' \in [Link -> Queues] /\ \A m \in Link \ {l} : in'[m] = in[m]
      /\ in'[l].nElm = in[l].nElm /\ in'[l].cur = in[l].cur /\ in'[l].st = 299
  <2>1. in \in [Link -> Queues]
    BY <1>1 DEF TypeInv
  <2>2. /\ \A m \in Link \ {l} : in'[m] = in[m]
        /\ in'[l] = [in[l] EXCEPT !.st = 299]
    BY <1>7, <2>1
  <2>3. in'[l] = Restate(in[l], 299) /\ in[l] \in Queues
    BY <2>1, <2>2 DEF Restate
  <2>4. Restate(in[l], 299) \in Queues
    BY <2>3, QueueRestate DEF States
  <2>5. in' \in [Link -> Queues]
    <3>1. in'[l] \in Queues
      BY <2>3, <2>4
    <3> QED
      BY <1>7, <2>1, <2>2, <3>1
  <2> QED
    BY <2>2, <2>3, <2>5, QueueRestate
<1>9. Taken(l)' = 1
  <2>1. InElem(l)' = InElem(l) /\ \A p : Host(p)' <=> Host(p)
    BY <1>2, <1>8 DEF InElem, Elements, Host
  <2> QED
    BY <1>4, <1>8, <2>1 DEF Taken, Zero
<1>10. ConfirmStep(l, 298, 1)
  BY <1>2, <1>5, <1>6, <1>7, <1>8, <1>9 DEF ConfirmStep
<1> QED
  BY <1>10, ConfirmKeeps

\* A sequence of m requests of one kind, numbered from lo + 1.
LEMMA RunMade ==
    ASSUME NEW s, NEW k, NEW l, NEW first, NEW total, NEW lo \in Int, NEW hi \in Int, NEW m \in Nat,
           hi = lo + m, DOMAIN s = 1 .. m,
           \A j \in 1 .. m : Rank(Value(s[j]), first, total) = lo + j
    PROVE  Run(s, k, l, first, total, lo, hi)
<1>1. \A j \in Of(s, k, l) : j \in 1 .. m
  BY DEF Of
<1>2. \A j \in 1 .. m : lo + j \in lo + 1 .. hi
  OBVIOUS
<1>3. \A i, j \in 1 .. m : i < j => lo + i < lo + j
  OBVIOUS
<1> QED
  BY <1>1, <1>2, <1>3 DEF Run

\* The requests of kind k of which sequence s consists.
Made(s, k, l, m) ==
    /\ DOMAIN s = 1 .. m
    /\ \A j \in 1 .. m : /\ RequestOf(l[2], s[j]) /\ Kind(s[j]) = k /\ LinkOf(s[j]) = l
                         /\ CopiesAt(s[j], round, out', in')

\* The requests that GetBuffers makes, for the m fragments after from: each notes
\* the number of its fragment.
LEMMA Gotten ==
    ASSUME IInv, NEW l \in Link, ~Self(l), Asked(l),
           NEW from \in Nat, NEW m \in Nat
    PROVE  LET s == GetBuffers(l, from, from + m) IN
           /\ s \in Seq(DmaRequests) /\ Made(s, "in", l, m)
           /\ \A j \in 1 .. m : Value(s[j]) = from + j /\ s[j].note.elm = in[l].cur
<1>1. TypeInv /\ PlaceInv
  BY LinkFacts
<1>2. PICK s : s = GetBuffers(l, from, from + m)
  OBVIOUS
<1>3. PICK e \in Nat : e = in[l].cur
  BY <1>1 DEF TypeInv, Queues
<1>4. /\ s = [j \in 1 .. m |-> s[j]]
      /\ \A j \in 1 .. m :
             s[j] = DmaRequest(<<Copy(OutBuf(l, from + j - 1), InBuf(l, from + j - 1))>>, NoWord,
                               [queue |-> "in", link |-> l, elm |-> e, value |-> from + j])
  <2>1. from + m - from = m
    OBVIOUS
  <2> QED
    BY <1>2, <1>3, <2>1 DEF GetBuffers
<1>5. ASSUME NEW j \in 1 .. m
      PROVE  /\ s[j] \in DmaRequests /\ RequestOf(l[2], s[j]) /\ Kind(s[j]) = "in" /\ LinkOf(s[j]) = l
             /\ Value(s[j]) = from + j /\ s[j].note.elm = e
             /\ CopiesAt(s[j], round, out', in')
  <2>1. PICK k \in Nat : k = from + j - 1
    OBVIOUS
  <2>2. PICK n \in Nat : n = from + j
    OBVIOUS
  <2>3. PICK c : c = Copy(OutBuf(l, k), InBuf(l, k))
    OBVIOUS
  <2>4. /\ OutBuf(l, k) \in Cells(prog.fences) /\ InBuf(l, k) \in Cells(prog.fences)
        /\ OutBuf(l, k)[1] = "out" /\ InBuf(l, k)[1] = "in"
    BY <1>1, Buffers DEF OutBuf, InBuf
  <2>5. c \in CopySet /\ c.from[1] = "out" /\ c.to[1] = "in"
    BY <2>3, <2>4 DEF Copy, CopySet
  <2>6. PICK x : x = DmaRequest(<<c>>, NoWord, [queue |-> "in", link |-> l, elm |-> e, value |-> n])
    OBVIOUS
  <2>7. Kind(x) = "in" /\ LinkOf(x) = l /\ Value(x) = n /\ x.note.elm = e
    BY <2>6, NoteConstructors
  <2>8. x \in DmaRequests
    <3>1. <<c>> \in Seq(CopySet)
      BY <2>5
    <3>2. PICK cs \in Seq(CopySet) : cs = <<c>>
      BY <3>1
    <3> QED
      BY <2>6, <3>2, WordTypes
  <2>9. x.word = NoWord /\ x.copies = <<c>>
    BY <2>6 DEF DmaRequest
  <2>10. \A i \in DOMAIN <<c>> : <<c>>[i] = c
    OBVIOUS
  <2>11. CopiesAt(x, round, out', in')
    BY <2>5, <2>7, <2>9, <2>10 DEF CopiesAt
  <2>12. RequestOf(l[2], x)
    BY <2>7, <2>9 DEF RequestOf
  <2>13. s[j] = x
    BY <1>4, <2>1, <2>2, <2>3, <2>6
  <2> QED
    BY <2>2, <2>7, <2>8, <2>11, <2>12, <2>13
<1>6. s \in Seq(DmaRequests)
  <2>1. \A j \in 1 .. m : s[j] \in DmaRequests
    BY <1>5
  <2> QED
    BY <1>4, <2>1
<1>7. DOMAIN s = 1 .. m
  BY <1>4
<1>8. Made(s, "in", l, m)
  BY <1>5, <1>7 DEF Made
<1>9. \A j \in 1 .. m : Value(s[j]) = from + j /\ s[j].note.elm = in[l].cur
  BY <1>3, <1>5
<1> QED
  BY <1>2, <1>6, <1>8, <1>9

\* The requests that GetDirect makes, for the m fragments after from: each asks for
\* the next fragment.
LEMMA GottenDirect ==
    ASSUME IInv, NEW l \in Link, ~Self(l), Asked(l), in'[l].cur = in[l].cur,
           NEW from \in Nat, NEW m \in Nat, from + m <= InElem(l).frags, ~Zero(l)
    PROVE  LET s == GetDirect(l, from, from + m) IN
           /\ s \in Seq(DmaRequests) /\ Made(s, "request", l, m)
           /\ \A j \in 1 .. m : Value(s[j]) = NextWord(l, from + j)
<1>1. TypeInv /\ PlaceInv /\ InElem(l).frags \in Nat
  BY LinkFacts, AskedTypes
<1>2. PICK s : s = GetDirect(l, from, from + m)
  OBVIOUS
<1>3. Total(l) = InElem(l).frags
  BY DEF Total
<1>4. /\ s = [j \in 1 .. m |-> s[j]]
      /\ \A j \in 1 .. m :
             s[j] = DmaRequest(<<Copy(OutBuf(l, from + j - 1), Dst(l, from + j - 1))>>,
                        Request(l, IF from + j - 1 + 1 = InElem(l).frags THEN 0 ELSE from + j - 1 + 2), NoNote)
  <2>1. from + m - from = m
    OBVIOUS
  <2> QED
    BY <1>2, <2>1 DEF GetDirect
<1>5. ASSUME NEW j \in 1 .. m
      PROVE  /\ s[j] \in DmaRequests /\ RequestOf(l[2], s[j]) /\ Kind(s[j]) = "request" /\ LinkOf(s[j]) = l
             /\ Value(s[j]) = NextWord(l, from + j)
             /\ CopiesAt(s[j], round, out', in')
  <2>1. PICK k \in 0 .. InElem(l).frags - 1 : k = from + j - 1 /\ k \in Nat
    BY <1>1
  <2>2. PICK v \in Nat : v = NextWord(l, from + j)
    BY DEF NextWord
  <2>3. PICK c : c = Copy(OutBuf(l, k), Dst(l, k))
    OBVIOUS
  <2>4. OutBuf(l, k) \in Cells(prog.fences) /\ OutBuf(l, k)[1] = "out"
    BY <1>1, <2>1, Buffers DEF OutBuf
  <2>5. Arrives(Dst(l, k), l)
    BY <2>1, DstOf
  <2>6. c \in CopySet /\ c.from[1] = "out" /\ c.to[2] = l /\ c.to[3] = round[l[2]] /\ c.to[4] = in'[l].cur
    BY <2>3, <2>4, <2>5 DEF Copy, CopySet, Arrives
  <2>7. PICK x : x = DmaRequest(<<c>>, Request(l, v), NoNote)
    OBVIOUS
  <2>8. Kind(x) = "request" /\ LinkOf(x) = l /\ Value(x) = v
    BY <2>7, Constructors
  <2>9. x \in DmaRequests
    <3>1. <<c>> \in Seq(CopySet)
      BY <2>6
    <3>2. PICK cs \in Seq(CopySet) : cs = <<c>>
      BY <3>1
    <3> QED
      BY <2>7, <3>2, WordTypes
  <2>10. x.note = NoNote /\ x.copies = <<c>>
    BY <2>7 DEF DmaRequest
  <2>11. \A i \in DOMAIN <<c>> : <<c>>[i] = c
    OBVIOUS
  <2>12. CopiesAt(x, round, out', in')
    BY <2>6, <2>8, <2>10, <2>11 DEF CopiesAt
  <2>13. RequestOf(l[2], x)
    BY <2>8, <2>10 DEF RequestOf
  <2>14. s[j] = x
    <3>1. from + j - 1 + 1 = from + j /\ from + j - 1 + 2 = from + j + 1
      OBVIOUS
    <3>2. v = IF from + j - 1 + 1 = InElem(l).frags THEN 0 ELSE from + j - 1 + 2
      BY <1>3, <2>2, <3>1 DEF NextWord
    <3> QED
      BY <1>4, <2>1, <2>3, <2>7, <3>2
  <2> QED
    BY <2>2, <2>8, <2>9, <2>12, <2>13, <2>14
<1>6. s \in Seq(DmaRequests)
  <2>1. \A j \in 1 .. m : s[j] \in DmaRequests
    BY <1>5
  <2> QED
    BY <1>4, <2>1
<1>7. DOMAIN s = 1 .. m
  BY <1>4
<1>8. Made(s, "request", l, m)
  BY <1>5, <1>7 DEF Made
<1>9. \A j \in 1 .. m : Value(s[j]) = NextWord(l, from + j)
  BY <1>5
<1> QED
  BY <1>2, <1>6, <1>8, <1>9

\* A board that receives from the host: what it has begun to get, from, and what
\* the host has announced, from + m.
LEMMA FromHost ==
    ASSUME IInv, NEW l \in Link, ~Self(l), NEW case \in {302, 303}, Receiving(l, case)
    PROVE  /\ Asked(l) /\ in[l].st = case /\ ReceiverInv(l)
           /\ Host(l[1]) /\ ~Host(l[2]) /\ ~Zero(l)
           /\ Total(l) = InElem(l).frags /\ Total(l) \in Nat \ {0} /\ First(l) = 1
           /\ \E from, m \in Nat : /\ from = in[l].taken /\ from + m = confirm[l]
                                   /\ from + m <= Total(l) /\ confirm[l] - from = m
<1>1. TypeInv /\ PlaceInv /\ l[1] # l[2] /\ l[1] \in Proc /\ l[2] \in Proc
  BY LinkFacts, LinkEnds
<1>2. /\ Asked(l) /\ ActiveInv(l) /\ ReceiverInv(l) /\ in[l].st = case
      /\ (Zero(l) <=> case = 298) /\ (Gets(l) <=> case = 303) /\ (Fetches(l) <=> case = 302)
  BY DEF Receiving
<1>3. Host(l[1]) /\ ~Zero(l)
  BY <1>2 DEF Gets, Fetches
<1>4. ~Host(l[2])
  BY <1>1, <1>3, OneHost
<1>5. Total(l) = InElem(l).frags /\ Total(l) \in Nat \ {0} /\ First(l) = 1
  BY <1>1, <1>2, <1>3, AskedTypes DEF Total, First
<1>6. in[l].taken <= confirm[l] /\ confirm[l] <= Given(l) /\ Given(l) <= Total(l)
  BY <1>2, <1>3 DEF ActiveInv
<1>7. in[l].taken \in Nat /\ confirm[l] \in Nat /\ Given(l) \in Nat
  BY <1>1, <1>2, QueueTypes, AskedTypes
<1>8. PICK from \in Nat : from = in[l].taken
  BY <1>7
<1>9. PICK m \in Nat : m = confirm[l] - from
  BY <1>6, <1>7, <1>8
<1>10. from + m = confirm[l] /\ from + m <= Total(l) /\ confirm[l] - from = m
  BY <1>5, <1>6, <1>7, <1>8, <1>9
<1> QED
  BY <1>2, <1>3, <1>4, <1>5, <1>8, <1>10

\* Such a call does not store words, it appends t to its ring.
GetStep(l, case, t) ==
    /\ InCall(l, case) /\ Finds(l, case)
    /\ in' \in [Link -> Queues] /\ \A m \in Link \ {l} : in'[m] = in[m]
    /\ in'[l].nElm = in[l].nElm /\ in'[l].cur = in[l].cur /\ in'[l].st # 0
    /\ request' = request /\ confirm' = confirm /\ DOMAIN mem' = DOMAIN mem
    /\ dma' = [dma EXCEPT ![l[2]] = @ \o t]
    /\ \A j \in DOMAIN t : /\ RequestOf(l[2], t[j]) /\ Kind(t[j]) # "none" /\ LinkOf(t[j]) = l
                           /\ CopiesAt(t[j], round, out', in')

\* A call that fetches is one that only its receiver does.
LEMMA GetRecvStep ==
    ASSUME IInv, NEW l \in Link, ~Self(l), NEW case \in {302, 303}, ~Host(l[2]),
           NEW t \in Seq(DmaRequests), GetStep(l, case, t)
    PROVE  RecvStep(l, case, t)
<1>1. request' \in [Link -> Nat] /\ \A m \in Link \ {l} : request'[m] = request[m]
  BY LinkFacts DEF GetStep, TypeInv
<1> QED
  BY <1>1 DEF GetStep, RecvStep

\* GetToUser, which fetches fragments from the host to user memory, keeps the invariant.
LEMMA GetToUserKeeps == ASSUME IInv, NEW l \in Link, ~Self(l), GetToUser(l) PROVE IInv'
<1>1. TypeInv /\ PlaceInv
  BY LinkFacts
<1>2. InCall(l, 303) /\ Finds(l, 303) /\ UNCHANGED <<prog, pc, round, out>>
  BY DEF GetToUser, Finds, InCall
<1>3. Receiving(l, 303)
  BY <1>2, ReceiverCalls
<1>4. /\ Asked(l) /\ in[l].st = 303 /\ ReceiverInv(l) /\ Host(l[1]) /\ ~Host(l[2]) /\ ~Zero(l)
      /\ Total(l) = InElem(l).frags /\ Total(l) \in Nat \ {0} /\ First(l) = 1
  BY <1>3, FromHost
<1>5. PICK from \in Nat, m \in Nat : /\ from = in[l].taken /\ from + m = confirm[l]
                                     /\ from + m <= Total(l) /\ confirm[l] - from = m
  BY <1>3, FromHost
<1>6. PICK total \in Nat \ {0} : total = Total(l)
  BY <1>4
<1>7. PICK n \in Nat : n = from + m
  OBVIOUS
<1>8. PICK st \in States : st = IF n = total THEN 304 ELSE 303
  BY DEF States
<1>9. PICK u \in Nat : u = in[l].unpacked
  BY <1>1, QueueTypes
<1>10. PICK t : t = GetDirect(l, from, n)
  OBVIOUS
<1>11. /\ in' = [in EXCEPT ![l].taken = n, ![l].st = st]
       /\ Dispatch(l[2], t) /\ request' = request /\ confirm' = confirm /\ mem' = mem
  <2>1. in[l].taken = from /\ confirm[l] = n /\ InElem(l).frags = total
    BY <1>4, <1>5, <1>6, <1>7
  <2>2. /\ in' = [in EXCEPT ![l].taken = confirm[l],
                            ![l].st = IF confirm[l] = InElem(l).frags THEN 304 ELSE 303]
        /\ Dispatch(l[2], GetDirect(l, in[l].taken, confirm[l]))
        /\ request' = request /\ confirm' = confirm /\ mem' = mem
    BY DEF GetToUser
  <2> QED
    BY <1>8, <1>10, <2>1, <2>2
<1>12. /\ in' \in [Link -> Queues] /\ \A k \in Link \ {l} : in'[k] = in[k]
       /\ in'[l].taken = n /\ in'[l].st = st
       /\ in'[l].nElm = in[l].nElm /\ in'[l].cur = in[l].cur
  <2>1. in \in [Link -> Queues] /\ in[l] \in Queues
    BY <1>1 DEF TypeInv
  <2>2. in'[l] = [in[l] EXCEPT !.taken = n, !.st = st] /\ \A k \in Link \ {l} : in'[k] = in[k]
    BY <1>11, <2>1
  <2>3. in'[l] = Update(in[l], n, st)
    BY <2>2 DEF Update
  <2>4. in'[l] \in Queues
    BY <2>1, <2>3, QueueUpdate
  <2>5. in' \in [Link -> Queues]
    BY <1>11, <2>1, <2>2, <2>4
  <2> QED
    BY <2>1, <2>2, <2>3, <2>5, QueueUpdate
<1>13. /\ t \in Seq(DmaRequests) /\ Made(t, "request", l, m)
       /\ \A j \in 1 .. m : Value(t[j]) = NextWord(l, from + j)
  <2>1. from + m <= InElem(l).frags /\ in'[l].cur = in[l].cur
    BY <1>4, <1>5, <1>12
  <2>2. t = GetDirect(l, from, from + m)
    BY <1>7, <1>10
  <2>3. /\ GetDirect(l, from, from + m) \in Seq(DmaRequests)
        /\ Made(GetDirect(l, from, from + m), "request", l, m)
        /\ \A j \in 1 .. m : Value(GetDirect(l, from, from + m)[j]) = NextWord(l, from + j)
    <3>1. Asked(l) /\ ~Zero(l)
      BY <1>4
    <3> QED
      BY <2>1, <3>1, GottenDirect
  <2> QED
    BY <2>2, <2>3
<1>14. DOMAIN t = 1 .. m
       /\ \A j \in DOMAIN t : /\ RequestOf(l[2], t[j]) /\ Kind(t[j]) = "request" /\ LinkOf(t[j]) = l
                              /\ CopiesAt(t[j], round, out', in')
  BY <1>13 DEF Made
<1>15. GetStep(l, 303, t)
  <2>1. in'[l].st # 0
    BY <1>8, <1>12
  <2>2. dma' = [dma EXCEPT ![l[2]] = @ \o t]
    BY <1>11 DEF Dispatch
  <2>3. \A j \in DOMAIN t : Kind(t[j]) # "none"
    BY <1>14
  <2> QED
    BY <1>2, <1>11, <1>12, <1>14, <2>1, <2>2, <2>3 DEF GetStep
<1>16. RecvStep(l, 303, t)
  BY <1>4, <1>13, <1>15, GetRecvStep
<1>17. Gets(l) /\ ~Fetches(l)
  <2>1. Gets(l)
    BY <1>3 DEF Receiving
  <2> QED
    BY <2>1 DEF Gets, Fetches
<1>18. Taken(l) = from /\ Taken(l)' = n
  <2>1. InElem(l)' = InElem(l) /\ \A p : Host(p)' <=> Host(p)
    BY <1>2, <1>12 DEF InElem, Elements, Host
  <2>2. (Zero(l)' <=> Zero(l)) /\ (Gets(l)' <=> Gets(l))
    BY <2>1 DEF Zero, Gets
  <2> QED
    BY <1>4, <1>5, <1>12, <1>17, <2>2 DEF Taken
<1>19. \A j \in 1 .. m : Rank(Value(t[j]), 1, total) = from + 1 + j /\ Value(t[j]) \in 0 .. total
  <2> SUFFICES ASSUME NEW j \in 1 .. m
               PROVE  Rank(Value(t[j]), 1, total) = from + 1 + j /\ Value(t[j]) \in 0 .. total
    OBVIOUS
  <2>1. PICK i \in Nat \ {0} : i = from + j
    OBVIOUS
  <2>2. i <= Total(l)
    BY <1>4, <1>5, <2>1
  <2>3. Value(t[j]) = NextWord(l, i)
    BY <1>13, <2>1
  <2>4. Rank(NextWord(l, i), First(l), Total(l)) = i + 1
    BY <1>4, <2>2, NextWords
  <2>5. NextWord(l, i) \in (IF Zero(l) THEN {0, First(l)} ELSE 0 .. Total(l))
    BY <1>4, <2>2, NextWords
  <2>6. i + 1 = from + 1 + j
    BY <2>1
  <2> QED
    BY <1>4, <1>6, <2>3, <2>4, <2>5, <2>6
<1>20. Run(t, "request", l, 1, total, from + 1, n + 1)
  <2>1. PICK lo \in Int : lo = from + 1
    OBVIOUS
  <2>2. PICK hi \in Int : hi = n + 1
    OBVIOUS
  <2>3. hi = lo + m
    BY <1>7, <2>1, <2>2
  <2>4. \A j \in 1 .. m : Rank(Value(t[j]), 1, total) = lo + j
    BY <1>19, <2>1
  <2>5. Run(t, "request", l, 1, total, lo, hi)
    BY <1>14, <2>3, <2>4, RunMade
  <2> QED
    BY <2>1, <2>2, <2>5
<1>21. Valued(t, "request", l, 0 .. total)
  BY <1>14, <1>19 DEF Valued, Of
<1>22. Of(t, "in", l) = {}
  BY <1>14 DEF Of
<1>23. ReceiverMove(l, 303, t, n, 0)
  <2>1. from <= n /\ n <= total /\ n <= confirm[l]
    BY <1>5, <1>6, <1>7
  <2>2. in'[l].st = IF n = Total(l) THEN (IF Gets(l) THEN 304 ELSE 299) ELSE 303
    BY <1>6, <1>8, <1>12, <1>17
  <2>3. in'[l].taken <= confirm[l]
    BY <1>12, <2>1
  <2>4. request'[l] = request[l]
    BY <1>11
  <2>5. /\ Run(t, "request", l, First(l), Total(l), Taken(l) + 1, n + 1)
        /\ Valued(t, "request", l, IF Zero(l) THEN {0, First(l)} ELSE 0 .. Total(l))
    BY <1>4, <1>6, <1>18, <1>20, <1>21
  <2> QED
    BY <1>4, <1>6, <1>16, <1>17, <1>18, <1>22, <2>1, <2>2, <2>3, <2>4, <2>5 DEF ReceiverMove
<1> QED
  BY <1>3, <1>13, <1>23, MoveKeeps

\* A call that fetches without unpacking changes one field.
LEMMA QueueFetched ==
    ASSUME NEW q \in Queues, NEW n \in Nat
    PROVE  [q EXCEPT !.taken = n] = Unpacked(q, q.unpacked, n, q.st)
<1>1. PICK u : u = q.unpacked
  OBVIOUS
<1>2. PICK st : st = q.st
  OBVIOUS
<1>3. [q EXCEPT !.unpacked = u] = q
  BY <1>1 DEF Queues
<1>4. [[q EXCEPT !.taken = n] EXCEPT !.st = st] = [q EXCEPT !.taken = n]
  BY <1>2 DEF Queues
<1> QED
  BY <1>1, <1>2, <1>3, <1>4 DEF Unpacked

\* A step of GetAndUnpack that unpacks nothing, as no buffer is complete, keeps
\* the invariant.
LEMMA FetchOnly ==
    ASSUME IInv, NEW l \in Link, ~Self(l), GetAndUnpack(l), in[l].unpacked = in[l].completed
    PROVE  IInv'
<1>1. TypeInv /\ PlaceInv
  BY LinkFacts
<1>2. /\ InCall(l, 302) /\ Finds(l, 302) /\ UNCHANGED <<prog, pc, round, out>>
      /\ in' = [in EXCEPT ![l].taken = confirm[l]]
      /\ Dispatch(l[2], GetBuffers(l, in[l].taken, confirm[l]))
      /\ request' = request /\ confirm' = confirm /\ mem' = mem
  BY DEF GetAndUnpack, Finds, InCall
<1>3. Receiving(l, 302)
  BY <1>2, ReceiverCalls
<1>4. /\ Asked(l) /\ in[l].st = 302 /\ ReceiverInv(l) /\ Host(l[1]) /\ ~Host(l[2]) /\ ~Zero(l)
      /\ Total(l) \in Nat \ {0}
  BY <1>3, FromHost
<1>5. PICK from \in Nat, m \in Nat : /\ from = in[l].taken /\ from + m = confirm[l]
                                     /\ from + m <= Total(l) /\ confirm[l] - from = m
  BY <1>3, FromHost
<1>6. PICK n \in Nat : n = from + m
  OBVIOUS
<1>7. PICK u \in Nat : u = in[l].unpacked
  BY <1>1, QueueTypes
<1>8. PICK t : t = GetBuffers(l, from, n)
  OBVIOUS
<1>9. /\ in' = [in EXCEPT ![l].taken = n] /\ Dispatch(l[2], t)
  BY <1>2, <1>5, <1>6, <1>8
<1>10. /\ in' \in [Link -> Queues] /\ \A k \in Link \ {l} : in'[k] = in[k]
       /\ in'[l].taken = n /\ in'[l].st = 302 /\ in'[l].unpacked = u
       /\ in'[l].completed = in[l].completed
       /\ in'[l].nElm = in[l].nElm /\ in'[l].cur = in[l].cur
  <2>1. in \in [Link -> Queues] /\ in[l] \in Queues
    BY <1>1 DEF TypeInv
  <2>2. in'[l] = [in[l] EXCEPT !.taken = n] /\ \A k \in Link \ {l} : in'[k] = in[k]
    BY <1>9, <2>1
  <2>3. 302 \in States
    BY DEF States
  <2>4. in'[l] = Unpacked(in[l], u, n, 302)
    BY <1>4, <1>7, <2>1, <2>2, QueueFetched
  <2>5. in' = [in EXCEPT ![l] = Unpacked(in[l], u, n, 302)]
    BY <1>9, <2>1, <2>2, <2>4
  <2>6. SetIn(l, Unpacked(in[l], u, n, 302))
    BY <2>5 DEF SetIn
  <2> QED
    BY <1>1, <2>3, <2>6, InUnpacked
<1>11. /\ t \in Seq(DmaRequests) /\ Made(t, "in", l, m)
       /\ \A j \in 1 .. m : Value(t[j]) = from + j /\ t[j].note.elm = in[l].cur
  <2>1. t = GetBuffers(l, from, from + m)
    BY <1>6, <1>8
  <2>2. Asked(l)
    BY <1>4
  <2>3. /\ GetBuffers(l, from, from + m) \in Seq(DmaRequests)
        /\ Made(GetBuffers(l, from, from + m), "in", l, m)
        /\ \A j \in 1 .. m : /\ Value(GetBuffers(l, from, from + m)[j]) = from + j
                             /\ GetBuffers(l, from, from + m)[j].note.elm = in[l].cur
    BY <2>2, Gotten
  <2> QED
    BY <2>1, <2>3
<1>12. DOMAIN t = 1 .. m
       /\ \A j \in DOMAIN t : /\ RequestOf(l[2], t[j]) /\ Kind(t[j]) = "in" /\ LinkOf(t[j]) = l
                              /\ CopiesAt(t[j], round, out', in')
  BY <1>11 DEF Made
<1>13. GetStep(l, 302, t)
  <2>1. in'[l].st # 0
    BY <1>10
  <2>2. dma' = [dma EXCEPT ![l[2]] = @ \o t]
    BY <1>9 DEF Dispatch
  <2>3. \A j \in DOMAIN t : Kind(t[j]) # "none"
    BY <1>12
  <2> QED
    BY <1>2, <1>10, <1>12, <2>1, <2>2, <2>3 DEF GetStep
<1>14. RecvStep(l, 302, t)
  BY <1>4, <1>11, <1>13, GetRecvStep
<1>15. Fetches(l) /\ ~Gets(l) /\ Taken(l) = u /\ u < Total(l)
  <2>1. Fetches(l) /\ Taken(l) < Total(l)
    BY <1>3 DEF Receiving
  <2>2. ~Gets(l)
    BY <2>1 DEF Gets, Fetches
  <2> QED
    BY <1>4, <1>7, <2>1, <2>2 DEF Taken
<1>16. Taken(l)' = u
  <2>1. InElem(l)' = InElem(l) /\ \A p : Host(p)' <=> Host(p)
    BY <1>2, <1>10 DEF InElem, Elements, Host
  <2>2. (Zero(l)' <=> Zero(l)) /\ (Gets(l)' <=> Gets(l))
    BY <2>1 DEF Zero, Gets
  <2> QED
    BY <1>4, <1>10, <1>15, <2>2 DEF Taken
<1>17. Run(t, "in", l, 1, Total(l), from, n) /\ Noted(t, "in", l, in[l].cur)
  <2>1. \A j \in 1 .. m : Rank(Value(t[j]), 1, Total(l)) = from + j
    BY <1>4, <1>11 DEF Rank
  <2>2. Run(t, "in", l, 1, Total(l), from, n)
    <3>1. DOMAIN t = 1 .. m /\ from \in Int /\ n \in Int
      BY <1>12
    <3> QED
      BY <1>6, <2>1, <3>1, RunMade
  <2> QED
    BY <1>11, <1>12, <2>2 DEF Noted, Of
<1>18. Of(t, "request", l) = {}
  BY <1>12 DEF Of
<1>19. u <= in[l].completed /\ from <= n /\ n <= confirm[l] /\ u <= confirm[l]
  <2>1. in[l].completed <= in[l].taken /\ in[l].unpacked <= in[l].completed /\ in[l].completed \in Nat
    BY <1>1, <1>4, <1>15, QueueTypes DEF ReceiverInv
  <2> QED
    BY <1>5, <1>6, <1>7, <2>1
<1>20. ReceiverMove(l, 302, t, u, 0)
  <2>1. in'[l].st = IF u = Total(l) THEN (IF Gets(l) THEN 304 ELSE 299) ELSE 302
    BY <1>4, <1>10, <1>15
  <2>2. request'[l] = request[l]
    BY <1>2
  <2>3. /\ Run(t, "request", l, First(l), Total(l), Taken(l) + 1, u + 1)
        /\ Valued(t, "request", l, IF Zero(l) THEN {0, First(l)} ELSE 0 .. Total(l))
    BY <1>18, RunEmpty DEF Valued
  <2>4. u <= Total(l)
    BY <1>4, <1>15
  <2> QED
    BY <1>4, <1>5, <1>10, <1>14, <1>15, <1>16, <1>17, <1>19, <2>1, <2>2, <2>3, <2>4 DEF ReceiverMove
<1>21. t \in Seq(DmaRequests) /\ u \in Nat /\ 302 \in {202, 298, 302, 303}
  BY <1>7, <1>11
<1> QED
  BY <1>3, <1>20, <1>21, MoveKeeps

\* A step of GetAndUnpack that unpacks a complete buffer keeps the invariant.
LEMMA FetchAndUnpack ==
    ASSUME IInv, NEW l \in Link, ~Self(l), GetAndUnpack(l), in[l].unpacked # in[l].completed
    PROVE  IInv'
<1>1. TypeInv /\ PlaceInv /\ l[2] \in Proc
  BY LinkFacts, LinkEnds
<1>2. /\ InCall(l, 302) /\ Finds(l, 302) /\ UNCHANGED <<prog, pc, round, out>>
      /\ UnpackAndConfirm(l, GetBuffers(l, in[l].taken, confirm[l]),
                          IF in[l].taken < confirm[l] THEN confirm[l] ELSE in[l].taken)
  BY DEF GetAndUnpack, Finds, InCall
<1>3. Receiving(l, 302)
  BY <1>2, ReceiverCalls
<1>4. /\ Asked(l) /\ in[l].st = 302 /\ ReceiverInv(l) /\ Host(l[1]) /\ ~Host(l[2]) /\ ~Zero(l)
      /\ Total(l) = InElem(l).frags /\ Total(l) \in Nat \ {0} /\ First(l) = 1
  BY <1>3, FromHost
<1>5. PICK from \in Nat, m \in Nat : /\ from = in[l].taken /\ from + m = confirm[l]
                                     /\ from + m <= Total(l) /\ confirm[l] - from = m
  BY <1>3, FromHost
<1>6. PICK n \in Nat : n = from + m
  OBVIOUS
<1>7. PICK u \in Nat : u = in[l].unpacked
  BY <1>1, QueueTypes
<1>8. PICK w \in Nat \ {0} : w = u + 1 /\ u + 2 = w + 1
  OBVIOUS
<1>9. PICK gets : gets = GetBuffers(l, from, n)
  OBVIOUS
<1>10. PICK total \in Nat \ {0} : total = Total(l)
  BY <1>4
<1>11. PICK st \in States : st = IF w = total THEN 299 ELSE 302
  BY DEF States
<1>12. Fetches(l) /\ ~Gets(l) /\ Taken(l) = u /\ w <= total /\ w <= in[l].completed /\ w <= n
  <2>1. Fetches(l) /\ Taken(l) < Total(l)
    BY <1>3 DEF Receiving
  <2>2. ~Gets(l)
    BY <2>1 DEF Gets, Fetches
  <2>3. Taken(l) = u
    BY <1>4, <1>7, <2>2 DEF Taken
  <2>4. in[l].unpacked <= in[l].completed /\ in[l].completed <= in[l].taken
    BY <1>4, <2>1 DEF ReceiverInv
  <2>5. in[l].completed \in Nat
    BY <1>1, QueueTypes
  <2>6. u # in[l].completed
    BY <1>7
  <2>7. w <= in[l].completed
    BY <1>7, <1>8, <2>4, <2>5, <2>6
  <2>8. w <= n
    BY <1>5, <1>6, <2>4, <2>5, <2>7
  <2> QED
    BY <1>8, <1>10, <2>1, <2>2, <2>3, <2>7, <2>8
<1>13. PICK v : v = NextWord(l, w)
  OBVIOUS
<1>14. /\ in' = [in EXCEPT ![l].unpacked = w, ![l].taken = n, ![l].st = st]
       /\ DispatchAndWrite(l[2], gets, Request(l, v))
       /\ DOMAIN mem' = DOMAIN mem
  <2>1. (IF in[l].taken < confirm[l] THEN confirm[l] ELSE in[l].taken) = n
    BY <1>5, <1>6
  <2>2. GetBuffers(l, in[l].taken, confirm[l]) = gets
    BY <1>5, <1>6, <1>9
  <2>3. UnpackAndConfirm(l, gets, n)
    BY <1>2, <2>1, <2>2
  <2> QED
    BY <1>4, <1>7, <1>8, <1>10, <1>11, <1>13, <2>3 DEF UnpackAndConfirm, NextWord
<1>15. /\ in' \in [Link -> Queues] /\ \A k \in Link \ {l} : in'[k] = in[k]
       /\ in'[l].taken = n /\ in'[l].st = st /\ in'[l].unpacked = w
       /\ in'[l].completed = in[l].completed
       /\ in'[l].nElm = in[l].nElm /\ in'[l].cur = in[l].cur
  <2>1. SetIn(l, Unpacked(in[l], w, n, st))
    BY <1>14 DEF Unpacked, SetIn
  <2> QED
    BY <1>1, <2>1, InUnpacked
<1>16. /\ gets \in Seq(DmaRequests) /\ Made(gets, "in", l, m)
       /\ \A j \in 1 .. m : Value(gets[j]) = from + j /\ gets[j].note.elm = in[l].cur
  <2>1. gets = GetBuffers(l, from, from + m)
    BY <1>6, <1>9
  <2>2. Asked(l)
    BY <1>4
  <2>3. /\ GetBuffers(l, from, from + m) \in Seq(DmaRequests)
        /\ Made(GetBuffers(l, from, from + m), "in", l, m)
        /\ \A j \in 1 .. m : /\ Value(GetBuffers(l, from, from + m)[j]) = from + j
                             /\ GetBuffers(l, from, from + m)[j].note.elm = in[l].cur
    BY <2>2, Gotten
  <2> QED
    BY <2>1, <2>3
<1>17. DOMAIN gets = 1 .. m
       /\ \A j \in DOMAIN gets : /\ RequestOf(l[2], gets[j]) /\ Kind(gets[j]) = "in" /\ LinkOf(gets[j]) = l
                                 /\ CopiesAt(gets[j], round, out', in')
  BY <1>16 DEF Made
<1>18. /\ v \in Nat /\ Rank(v, 1, total) = w + 1 /\ v \in 0 .. total
  <2>1. w <= Total(l) /\ Asked(l)
    BY <1>4, <1>10, <1>12
  <2>2. /\ NextWord(l, w) \in Nat
        /\ Rank(NextWord(l, w), First(l), Total(l)) = w + 1
        /\ NextWord(l, w) \in (IF Zero(l) THEN {0, First(l)} ELSE 0 .. Total(l))
    BY <2>1, NextWords
  <2> QED
    BY <1>4, <1>10, <1>13, <2>2
<1>19. PICK x \in DmaRequests :
           /\ x = DmaRequest(<<>>, Request(l, v), NoNote) /\ RequestOf(l[2], x)
           /\ Kind(x) = "request" /\ LinkOf(x) = l /\ Value(x) = v /\ CopiesAt(x, round, out', in')
  BY <1>18, NextWordRequest
<1>20. <<x>> \in Seq(DmaRequests)
  OBVIOUS
<1>21. PICK t \in Seq(DmaRequests) : t = gets \o <<x>>
  <2>1. gets \o <<x>> \in Seq(DmaRequests)
    BY <1>16, <1>20
  <2> QED
    BY <2>1
<1>22. \A j \in DOMAIN t : t[j] = x \/ (j \in DOMAIN gets /\ t[j] = gets[j])
  BY <1>16, <1>20, <1>21
<1>23. Dispatch(l[2], t) /\ request' = request /\ confirm' = confirm
  BY <1>4, <1>14, <1>19, <1>21 DEF DispatchAndWrite
<1>24. \A j \in DOMAIN t : /\ RequestOf(l[2], t[j]) /\ Kind(t[j]) \in {"request", "in"} /\ LinkOf(t[j]) = l
                           /\ CopiesAt(t[j], round, out', in')
  BY <1>17, <1>19, <1>22
<1>25. GetStep(l, 302, t)
  <2>1. in'[l].st # 0
    BY <1>11, <1>15
  <2>2. dma' = [dma EXCEPT ![l[2]] = @ \o t]
    BY <1>23 DEF Dispatch
  <2>3. \A j \in DOMAIN t : Kind(t[j]) # "none"
    BY <1>24
  <2> QED
    BY <1>2, <1>14, <1>15, <1>23, <1>24, <2>1, <2>2, <2>3 DEF GetStep
<1>26. RecvStep(l, 302, t)
  BY <1>4, <1>25, GetRecvStep
<1>27. Taken(l)' = w
  <2>1. InElem(l)' = InElem(l) /\ \A p : Host(p)' <=> Host(p)
    BY <1>2, <1>15 DEF InElem, Elements, Host
  <2>2. (Zero(l)' <=> Zero(l)) /\ (Gets(l)' <=> Gets(l))
    BY <2>1 DEF Zero, Gets
  <2> QED
    BY <1>4, <1>12, <1>15, <2>2 DEF Taken
<1>28. Run(t, "in", l, 1, total, from, n) /\ Noted(t, "in", l, in[l].cur)
  <2>1. \A j \in 1 .. m : Rank(Value(gets[j]), 1, total) = from + j
    BY <1>16 DEF Rank
  <2>2. Run(gets, "in", l, 1, total, from, n)
    <3>1. DOMAIN gets = 1 .. m /\ from \in Int /\ n \in Int
      BY <1>17
    <3> QED
      BY <1>6, <2>1, <3>1, RunMade
  <2>3. Noted(gets, "in", l, in[l].cur)
    BY <1>16, <1>17 DEF Noted, Of
  <2>4. Kind(x) # "in"
    BY <1>19
  <2>5. Run(gets \o <<x>>, "in", l, 1, total, from, n)
    <3>1. from \in Int /\ n \in Int /\ from <= n /\ n <= n
      BY <1>6
    <3> QED
      BY <1>16, <2>2, <2>4, <3>1, RunAppend
  <2>6. Noted(gets \o <<x>>, "in", l, in[l].cur)
    BY <1>16, <2>3, <2>4, RestAppend
  <2> QED
    BY <1>21, <2>5, <2>6
<1>29. PICK lo \in Int : lo = u + 1
  OBVIOUS
<1>30. PICK hi \in Int : hi = w + 1
  OBVIOUS
<1>31. Run(t, "request", l, 1, total, lo, hi) /\ Valued(t, "request", l, 0 .. total)
  <2>1. Of(gets, "request", l) = {}
    BY <1>17 DEF Of
  <2>2. Run(gets, "request", l, 1, total, lo, lo)
    BY <2>1, RunEmpty
  <2>3. lo <= lo /\ lo <= hi /\ Rank(Value(x), 1, total) \in lo + 1 .. hi
    BY <1>8, <1>18, <1>19, <1>29, <1>30
  <2>4. Run(gets \o <<x>>, "request", l, 1, total, lo, hi)
    BY <1>16, <2>2, <2>3, RunAppend
  <2>5. \A j \in Of(t, "request", l) : t[j] = x
    BY <1>17, <1>22 DEF Of
  <2> QED
    BY <1>18, <1>19, <1>21, <2>4, <2>5 DEF Valued
<1>32. ReceiverMove(l, 302, t, w, 0)
  <2>1. in'[l].st = IF w = Total(l) THEN (IF Gets(l) THEN 304 ELSE 299) ELSE 302
    BY <1>10, <1>11, <1>12, <1>15
  <2>2. request'[l] = request[l]
    BY <1>23
  <2>3. /\ Run(t, "request", l, First(l), Total(l), Taken(l) + 1, w + 1)
        /\ Valued(t, "request", l, IF Zero(l) THEN {0, First(l)} ELSE 0 .. Total(l))
    BY <1>4, <1>10, <1>12, <1>29, <1>30, <1>31
  <2>4. Taken(l) <= w /\ w <= Total(l) /\ w <= confirm[l] /\ in'[l].taken <= confirm[l] /\ from <= n
    BY <1>5, <1>6, <1>8, <1>10, <1>12, <1>15
  <2>5. Run(t, "in", l, 1, Total(l), in[l].taken, in'[l].taken)
    BY <1>5, <1>10, <1>15, <1>28
  <2>6. in'[l].unpacked <= in'[l].completed /\ in[l].taken <= in'[l].taken
    BY <1>5, <1>12, <1>15, <2>4
  <2> QED
    BY <1>4, <1>12, <1>15, <1>26, <1>27, <1>28, <2>1, <2>2, <2>3, <2>4, <2>5, <2>6 DEF ReceiverMove
<1> QED
  BY <1>3, <1>32, MoveKeeps

\* GetAndUnpack, which fetches fragments to buffers and unpacks them, keeps the invariant.
LEMMA GetAndUnpackKeeps == ASSUME IInv, NEW l \in Link, ~Self(l), GetAndUnpack(l) PROVE IInv'
  BY FetchOnly, FetchAndUnpack

\* The sender is not past what the receiver has not asked for.
LEMMA NotPassed ==
    ASSUME IInv, NEW l \in Link, ~Self(l), ~Asked(l), pc[l[2]] = "fence", Busy(in[l])
    PROVE  /\ ~Passed(l) /\ RestInv(l)
           /\ InElem(l) \in Elem /\ InElem(l).frags \in Nat \ {0}
           /\ round[l[2]] \in Nat \ {0} /\ in[l].cur \in Nat \ {0}
<1>1. TypeInv /\ PlaceInv /\ OrderInv(l) /\ LinkInv(l)
  BY LinkFacts
<1>2. /\ round[l[2]] \in DOMAIN prog.fences
      /\ in[l].cur \in DOMAIN prog.fences[round[l[2]]][l]
      /\ InElem(l) \in Elem /\ InElem(l).frags \in Nat \ {0}
  <2>1. in[l] \in Queues /\ QueueInv(in[l], l[2], l)
    BY <1>1, QueueTypes
  <2> QED
    BY <1>1, <2>1, AtElement DEF InElem
<1>3. round[l[2]] \in Nat \ {0} /\ in[l].cur \in Nat \ {0}
  BY <1>1, <1>2, ElementTypes
<1>4. ~InDone(l, round[l[2]], in[l].cur)
  BY <1>3 DEF InDone
<1>5. ~Passed(l)
  BY <1>1, <1>2, <1>4 DEF Passed, OrderInv
<1>6. RestInv(l)
  BY <1>1 DEF LinkInv
<1> QED
  BY <1>2, <1>3, <1>5, <1>6

\* The first request of an element, in the ring of a board or stored by a host.
LEMMA PostRequestKeeps == ASSUME IInv, NEW l \in Link, ~Self(l), PostRequest(l) PROVE IInv'
<1>1. TypeInv /\ PlaceInv /\ l[1] \in Proc /\ l[2] \in Proc /\ l[1] # l[2]
  BY LinkFacts, LinkEnds
<1>2. InCall(l, 200) /\ UNCHANGED <<prog, pc, round, out>> /\ pc[l[2]] = "fence" /\ Busy(in[l])
  BY DEF PostRequest, InCall
<1>3. ~Asked(l)
  <2>1. Asked(l) => in[l].st \in (IF Zero(l) THEN {298, 299} ELSE IF Gets(l) THEN {303, 304}
                                  ELSE IF Fetches(l) THEN {302, 299} ELSE {202, 299})
    <3>1. Asked(l) => ReceiverInv(l)
      BY LinkFacts DEF LinkInv
    <3> QED
      BY <3>1 DEF ReceiverInv
  <2>2. Asked(l) => in[l].st # 200
    BY <2>1
  <2>3. in[l].st \in {0, 200}
    BY <1>2 DEF InCall, InCase
  <2> QED
    BY <2>2, <2>3 DEF Asked
<1>4. /\ ~Passed(l) /\ RestInv(l)
      /\ InElem(l) \in Elem /\ InElem(l).frags \in Nat \ {0}
      /\ round[l[2]] \in Nat \ {0} /\ in[l].cur \in Nat \ {0}
  BY <1>2, <1>3, NotPassed
<1>5. PICK st : st = IF Zero(l) THEN 298 ELSE IF ~Host(l[1]) THEN 202
                     ELSE IF InElem(l).recvContiguous THEN 303 ELSE 302
  OBVIOUS
<1>6. PICK v : v = First(l)
  OBVIOUS
<1>7. in' = [in EXCEPT ![l].st = st] /\ PioWriteRemote(l[2], Request(l, v)) /\ mem' = mem
  <2>1. Address(round[l[2]], in[l].cur) + MASK_ZEROCOPY + MASK_REQUEST = Address(round[l[2]], in[l].cur) + 3
    BY <1>4 DEF MASK_ZEROCOPY, MASK_REQUEST, Address, Slots, MAX_QUEUE_ELM
  <2>2. v = IF Zero(l) THEN Address(round[l[2]], in[l].cur) + MASK_ZEROCOPY + MASK_REQUEST ELSE MASK_REQUEST
    BY <1>6, <2>1 DEF First, MASK_REQUEST
  <2> DEFINE zero == InElem(l).recvContiguous /\ ~Host(l[1]) /\ ~Host(l[2])
  <2>3. /\ in' = [in EXCEPT ![l].st = IF zero THEN 298 ELSE IF ~Host(l[1]) THEN 202
                                     ELSE IF InElem(l).recvContiguous THEN 303 ELSE 302]
        /\ PioWriteRemote(l[2], Request(l, IF zero THEN Address(round[l[2]], in[l].cur)
                                                       + MASK_ZEROCOPY + MASK_REQUEST
                                           ELSE MASK_REQUEST))
        /\ mem' = mem
    BY DEF PostRequest
  <2>4. zero = Zero(l)
    BY DEF Zero
  <2> HIDE DEF zero
  <2> QED
    BY <1>5, <2>2, <2>3, <2>4
<1>8. /\ in' \in [Link -> Queues] /\ \A m \in Link \ {l} : in'[m] = in[m]
      /\ in'[l].nElm = in[l].nElm /\ in'[l].cur = in[l].cur /\ in'[l].st = st
      /\ Rested(in'[l])
  <2>1. in \in [Link -> Queues] /\ in[l] \in Queues
    BY <1>1 DEF TypeInv
  <2>2. /\ \A m \in Link \ {l} : in'[m] = in[m]
        /\ in'[l] = [in[l] EXCEPT !.st = st]
    BY <1>7, <2>1
  <2>3. in'[l] = Restate(in[l], st)
    BY <2>2 DEF Restate
  <2>4. st \in States
    BY <1>5 DEF States
  <2>5. Restate(in[l], st) \in Queues
    BY <2>1, <2>4, QueueRestate
  <2>6. in' \in [Link -> Queues]
    <3>1. in'[l] \in Queues
      BY <2>3, <2>5
    <3> QED
      BY <1>7, <2>1, <2>2, <3>1
  <2>7. Rested(in'[l])
    BY <1>4, <2>1, <2>2 DEF RestInv, Rested, Queues
  <2> QED
    BY <2>1, <2>2, <2>3, <2>6, <2>7, QueueRestate
<1>9. v \in Nat \ {0} /\ Rank(v, First(l), Total(l)) = 1
  <2>1. v \in Nat \ {0}
    BY <1>4, <1>6 DEF First, Address, Slots, MAX_QUEUE_ELM
  <2> QED
    BY <1>6, <2>1 DEF Rank
<1>10. PICK x \in DmaRequests :
          /\ x = DmaRequest(<<>>, Request(l, v), NoNote) /\ RequestOf(l[2], x)
          /\ Kind(x) = "request" /\ LinkOf(x) = l /\ Value(x) = v /\ CopiesAt(x, round, out', in')
  BY <1>9, NextWordRequest
<1>11. /\ confirm' = confirm
       /\ IF Host(l[2]) THEN request' = [request EXCEPT ![l] = v] ELSE request' = request
       /\ IF Host(l[2]) THEN dma' = dma ELSE Dispatch(l[2], <<x>>)
  BY <1>1, <1>7, <1>10, HostWrites, BoardWrites
<1>12. PICK t \in Seq(DmaRequests) : Appends(l[2], x, t)
  BY <1>1, <1>11, AppendSome
<1>13. /\ request' \in [Link -> Nat] /\ \A m \in Link \ {l} : request'[m] = request[m]
       /\ request'[l] = IF Host(l[2]) THEN v ELSE 0
  <2>1. request' = IF Host(l[2]) THEN [request EXCEPT ![l] = v] ELSE request
    BY <1>11
  <2>2. request \in [Link -> Nat] /\ request[l] = 0
    BY <1>1, <1>4 DEF TypeInv, RestInv
  <2> QED
    BY <1>9, <2>1, <2>2
<1>14. RecvStep(l, 200, t)
  <2>1. \A j \in DOMAIN t : /\ RequestOf(l[2], t[j]) /\ Kind(t[j]) # "none" /\ LinkOf(t[j]) = l
                           /\ CopiesAt(t[j], round, out', in')
    BY <1>10, <1>12 DEF Appends
  <2>2. in'[l].st # 0
    BY <1>5, <1>8
  <2>3. DOMAIN mem' = DOMAIN mem
    BY <1>7
  <2> QED
    BY <1>2, <1>8, <1>11, <1>12, <1>13, <2>1, <2>2, <2>3 DEF RecvStep, Appends
<1>15. /\ Asked(l)' /\ ~Active(l)' /\ ~Passed(l)'
  <2>1. Asked(l)'
    BY <1>5, <1>8 DEF Asked
  <2> QED
    BY <1>2, <1>4, <1>8, <2>1 DEF Passed, OutDone, Active, RestInv
<1>16. InElem(l)' = InElem(l) /\ \A p : Host(p)' <=> Host(p)
  BY <1>2, <1>8 DEF InElem, Elements, Host
<1>17. (Zero(l)' <=> Zero(l)) /\ (Gets(l)' <=> Gets(l)) /\ (Fetches(l)' <=> Fetches(l))
  BY <1>16 DEF Zero, Gets, Fetches
<1>18. Total(l)' = Total(l) /\ First(l)' = First(l)
  BY <1>2, <1>8, <1>16, <1>17 DEF Total, First
<1>19. Taken(l)' = 0
  BY <1>5, <1>8, <1>17 DEF Taken, Rested
<1>20. /\ SRing(l)' = SRing(l)
       /\ RRing(l)' = RRing(l) \o t
  BY <1>1, <1>14 DEF RecvStep, SRing, RRing, TypeInv
<1>21. IdleInv(l)'
  <2>1. Quiet(l)'
    BY <1>4, <1>20 DEF Quiet, RestInv
  <2>2. confirm'[l] = 0
    BY <1>4, <1>11 DEF RestInv
  <2> QED
    BY <1>8, <1>19, <2>1, <2>2 DEF IdleInv
<1>22. RRing(l) \in Seq(DmaRequests) /\ Of(RRing(l), "request", l) = {} /\ Of(RRing(l), "in", l) = {}
  BY <1>1, <1>4, QueueTypes DEF RestInv
<1>23. PICK total \in Nat \ {0} : total = Total(l)
  BY <1>4 DEF Total
<1>24. /\ Wanted(l)' \in {0, 1}
       /\ Run(RRing(l)', "request", l, First(l), total, Wanted(l)', 1)
       /\ Valued(RRing(l)', "request", l, IF Zero(l) THEN {0, First(l)} ELSE 0 .. total)
       /\ Of(RRing(l)', "in", l) = {}
  <2>1. CASE Host(l[2])
    <3>1. t = <<>> /\ RRing(l) = <<>>
      BY <1>1, <1>12, <2>1, HostRing DEF RRing, Appends
    <3>2. RRing(l)' = <<>>
      BY <1>20, <3>1
    <3>3. Of(RRing(l)', "request", l) = {} /\ Of(RRing(l)', "in", l) = {}
      BY <3>2 DEF Of
    <3>4. Wanted(l)' = 1
      BY <1>9, <1>13, <1>18, <2>1 DEF Wanted, Rank
    <3> QED
      BY <3>3, <3>4, RunEmpty DEF Valued
  <2>2. CASE ~Host(l[2])
    <3>1. t = <<x>>
      BY <1>12, <2>2 DEF Appends
    <3>2. Wanted(l)' = 0
      BY <1>13, <1>15, <2>2 DEF Wanted
    <3>3. Run(RRing(l), "request", l, First(l), total, 0, 0)
      BY <1>22, RunEmpty
    <3>4. Rank(Value(x), First(l), total) \in 0 + 1 .. 1
      BY <1>9, <1>10, <1>23
    <3>5. Run(RRing(l) \o <<x>>, "request", l, First(l), total, 0, 1)
      BY <1>22, <3>3, <3>4, RunAppend
    <3>6. Of(RRing(l) \o <<x>>, "in", l) = {}
      BY <1>10, <1>22, RestAppend
    <3>7. PICK V : V = IF Zero(l) THEN {0, First(l)} ELSE 0 .. total
      OBVIOUS
    <3>8. Valued(RRing(l), "request", l, V) /\ Valued(t, "request", l, V)
      <4>1. v \in V
        BY <1>6, <1>23, <3>7 DEF First
      <4> QED
        BY <1>10, <1>12, <1>22, <4>1 DEF Valued, Of, Appends
    <3>9. Valued(RRing(l) \o t, "request", l, V)
      BY <1>22, <3>8, ConcatRest
    <3> QED
      BY <1>20, <3>1, <3>2, <3>5, <3>6, <3>7, <3>9
  <2> QED
    BY <2>1, <2>2
<1>25. ReceiverInv(l)'
  <2>1. in'[l].st \in (IF Zero(l) THEN {298, 299} ELSE IF Gets(l) THEN {303, 304}
                     ELSE IF Fetches(l) THEN {302, 299} ELSE {202, 299})
    BY <1>5, <1>8 DEF Gets, Fetches, Zero
  <2>2. Busy(in[l])'
    BY <1>2, <1>8 DEF Busy
  <2>3. (in[l].st \in {299, 304} <=> Taken(l) = Total(l))' /\ (Taken(l) <= Total(l))'
    BY <1>5, <1>8, <1>18, <1>19, <1>23
  <2>4. (request[l] = 0 \/ request[l] = First(l) \/ (~Zero(l) /\ request[l] <= Total(l)))'
    BY <1>6, <1>13, <1>18
  <2>5. (Wanted(l) <= Taken(l) + 1)'
    BY <1>19, <1>24
  <2>6. /\ Run(RRing(l), "request", l, First(l), Total(l), Wanted(l), Taken(l) + 1)'
        /\ Valued(RRing(l), "request", l, IF Zero(l) THEN {0, First(l)} ELSE 0 .. Total(l))'
    <3>1. Taken(l)' + 1 = 1
      BY <1>19
    <3> QED
      BY <1>17, <1>18, <1>23, <1>24, <3>1
  <2>7. (IF Fetches(l)
       THEN /\ in[l].unpacked <= in[l].completed /\ in[l].completed <= in[l].taken
            /\ in[l].taken <= Total(l)
            /\ Run(RRing(l), "in", l, 1, Total(l), in[l].completed, in[l].taken)
            /\ Noted(RRing(l), "in", l, in[l].cur)
       ELSE Of(RRing(l), "in", l) = {})'
    <3>1. Run(RRing(l), "in", l, 1, Total(l), in[l].completed, in[l].taken)' /\ Noted(RRing(l), "in", l, in[l].cur)'
      BY <1>24, RunEmpty DEF Noted
    <3>2. in'[l].unpacked = 0 /\ in'[l].completed = 0 /\ in'[l].taken = 0 /\ 0 <= Total(l)'
      BY <1>8, <1>18, <1>23 DEF Rested
    <3> QED
      BY <1>24, <3>1, <3>2
  <2> QED
    BY <1>17, <2>1, <2>2, <2>3, <2>4, <2>5, <2>6, <2>7 DEF ReceiverInv
<1>26. LinkInv(l)'
  BY <1>15, <1>21, <1>25 DEF LinkInv
<1> QED
  BY <1>14, <1>26, ReceiverFrame

-----------------------------------------------------------------------------

\* Which calls a link to itself has, and which not.
LEMMA SelfCalls ==
    ASSUME IInv, NEW l \in Link
    PROVE  /\ Self(l) => /\ \A case : OutCall(l, case) => case \in {100, 101}
                         /\ \A case : InCall(l, case) => case = 100
           /\ ~Self(l) => /\ ~OutCall(l, 100) /\ ~OutCall(l, 101) /\ ~InCall(l, 100)
<1>1. CASE Self(l)
  <2>1. in[l].st = 0 /\ out[l].st \in {0, 100, 101}
    BY <1>1 DEF IInv, SelfInv
  <2> QED
    BY <1>1, <2>1 DEF OutCall, OutCase, InCall, InCase
<1>2. CASE ~Self(l)
  <2>1. /\ Active(l) => ActiveInv(l)
        /\ Asked(l) => ReceiverInv(l)
    BY <1>2, LinkFacts DEF LinkInv
  <2>2. /\ Active(l) => out[l].st \in (IF Zero(l) THEN {201, 299}
                                       ELSE IF Host(l[1]) THEN {302, 304} ELSE {202, 203, 299})
        /\ Asked(l) => in[l].st \in (IF Zero(l) THEN {298, 299} ELSE IF Gets(l) THEN {303, 304}
                                     ELSE IF Fetches(l) THEN {302, 299} ELSE {202, 299})
    BY <2>1 DEF ActiveInv, ReceiverInv
  <2>3. out[l].st \notin {100, 101} /\ in[l].st # 100
    BY <2>2 DEF Active, Asked
  <2>4. ~OutCall(l, 100) /\ ~OutCall(l, 101)
    BY <1>2, <2>3 DEF OutCall, OutCase
  <2>5. ~InCall(l, 100)
    BY <1>2, <2>3 DEF InCall, InCase
  <2> QED
    BY <1>2, <2>4, <2>5
<1> QED
  BY <1>1, <1>2

\* What a call for an element to the processor itself leaves.
SelfStep(l) ==
    /\ UNCHANGED <<prog, pc, round, request, confirm, dma>> /\ DOMAIN mem' = DOMAIN mem
    /\ out' \in [Link -> Queues] /\ \A m \in Link \ {l} : out'[m] = out[m]
    /\ in' \in [Link -> Queues] /\ \A m \in Link \ {l} : in'[m] = in[m]
    /\ QueueInv(out'[l], l[1], l) /\ QueueInv(in'[l], l[2], l)
    /\ in'[l].st = 0 /\ out'[l].st \in {0, 100, 101}

\* A call for an element to the processor itself keeps the invariant.
LEMMA SelfFrame == ASSUME IInv, NEW l \in Link, Self(l), SelfStep(l) PROVE IInv'
<1>1. TypeInv /\ l[1] \in Proc
  BY LinkEnds DEF IInv
<1>2. SelfInv(l)'
  <2>1. request[l] = 0 /\ confirm[l] = 0
    BY DEF IInv, SelfInv
  <2> QED
    BY <2>1 DEF SelfStep, SelfInv
<1>3. PICK t \in Seq(DmaRequests) : t = <<>>
  <2>1. <<>> \in Seq(DmaRequests)
    OBVIOUS
  <2> QED
    BY <2>1
<1>4. dma' = [dma EXCEPT ![l[1]] = @ \o t] /\ DOMAIN t = {}
  <2>1. dma \in [Proc -> Seq(DmaRequests)]
    BY <1>1 DEF TypeInv
  <2>2. dma[l[1]] \o <<>> = dma[l[1]] /\ dma' = dma
    BY <1>1, <2>1 DEF SelfStep
  <2> QED
    BY <1>1, <1>3, <2>1, <2>2
<1>5. /\ request' \in [Link -> Nat] /\ confirm' \in [Link -> Nat] /\ request' = request /\ confirm' = confirm
  BY <1>1 DEF SelfStep, TypeInv
<1>6. EndStep(l, l[1], t)
  BY <1>3, <1>4, <1>5 DEF SelfStep, EndStep
<1> QED
  BY <1>2, <1>6, EndFrame

\* SelfPack, which packs an element for the processor itself, keeps the invariant.
LEMMA SelfPackKeeps == ASSUME IInv, NEW l \in Link, SelfPack(l) PROVE IInv'
<1>1. TypeInv /\ PlaceInv /\ Self(l)
  BY SelfCalls DEF SelfPack, IInv
<1>2. PICK n \in Nat : n = out[l].taken + 1
  BY <1>1, QueueTypes
<1>3. /\ UNCHANGED <<prog, pc, round, in, request, confirm, dma>> /\ DOMAIN mem' = DOMAIN mem
      /\ out' = [out EXCEPT ![l].st = 101, ![l].taken = @ + 1] /\ pc[l[1]] = "fence" /\ Busy(out[l])
  BY DEF SelfPack, OutCall
<1>4. out \in [Link -> Queues] /\ in \in [Link -> Queues] /\ 101 \in States
      /\ QueueInv(out[l], l[1], l) /\ QueueInv(in[l], l[2], l)
  BY <1>1, QueueTypes DEF TypeInv, States
<1>5. out'[l] = [out[l] EXCEPT !.st = 101, !.taken = @ + 1] /\ \A m \in Link \ {l} : out'[m] = out[m]
  BY <1>3, <1>4
<1>6. out'[l] = Update(out[l], n, 101)
  BY <1>2, <1>4, <1>5 DEF Update, Queues
<1>7. out[l] \in Queues
  BY <1>4
<1>8. /\ out'[l] \in Queues /\ out'[l].st = 101
      /\ out'[l].nElm = out[l].nElm /\ out'[l].cur = out[l].cur
  BY <1>4, <1>6, <1>7, QueueUpdate
<1>9. out' \in [Link -> Queues]
  BY <1>3, <1>4, <1>5, <1>8
<1>10. QueueInv(out'[l], l[1], l)
  BY <1>3, <1>4, <1>8 DEF QueueInv, Busy
<1>11. in[l].st = 0
  BY <1>1 DEF IInv, SelfInv
<1>12. SelfStep(l)
  BY <1>3, <1>4, <1>5, <1>8, <1>9, <1>10, <1>11 DEF SelfStep
<1> QED
  BY <1>1, <1>12, SelfFrame

\* SelfUnpack, which copies it to where it is received, keeps the invariant.
LEMMA SelfUnpackKeeps == ASSUME IInv, NEW l \in Link, SelfUnpack(l) PROVE IInv'
<1>1. TypeInv /\ PlaceInv /\ Self(l)
  BY SelfCalls DEF SelfUnpack, IInv
<1>2. PICK k \in Nat : k = out[l].unpacked
  BY <1>1, QueueTypes
<1>3. PICK last \in BOOLEAN : last <=> k + 1 = OutElem(l).frags
  OBVIOUS
<1>4. PICK n \in Nat : n = k + 1
  OBVIOUS
<1>5. /\ UNCHANGED <<prog, pc, round, in, request, confirm, dma>> /\ DOMAIN mem' = DOMAIN mem
      /\ out' = [out EXCEPT ![l] = IF last THEN Finished(out[l]) ELSE [out[l] EXCEPT !.st = 100, !.unpacked = n]]
      /\ pc[l[1]] = "fence" /\ Busy(out[l])
  BY <1>1, <1>2, <1>3, <1>4 DEF SelfUnpack, OutCall, TypeInv
<1>6. out \in [Link -> Queues] /\ in \in [Link -> Queues] /\ out[l] \in Queues
      /\ QueueInv(out[l], l[1], l) /\ QueueInv(in[l], l[2], l)
  BY <1>1, QueueTypes DEF TypeInv
<1>7. /\ out'[l] = IF last THEN Finished(out[l]) ELSE [out[l] EXCEPT !.st = 100, !.unpacked = n]
      /\ \A m \in Link \ {l} : out'[m] = out[m]
  BY <1>5, <1>6
<1>8. out'[l] \in Queues /\ QueueInv(out'[l], l[1], l) /\ out'[l].st \in {0, 100, 101}
  <2>1. CASE last
    <3>1. out'[l] = Finished(out[l])
      BY <1>7, <2>1
    <3> QED
      BY <1>5, <1>6, <3>1, FinishedQueue, FinishedInv
  <2>2. CASE ~last
    <3>1. PICK t \in Nat : t = out[l].taken
      BY <1>1, QueueTypes
    <3>2. out'[l] = [out[l] EXCEPT !.st = 100, !.unpacked = n]
      BY <1>7, <2>2
    <3>3. out'[l] = Unpacked(out[l], n, t, 100)
      BY <1>6, <3>1, <3>2 DEF Unpacked, Queues
    <3>4. 100 \in States
      BY DEF States
    <3>5. /\ out'[l] \in Queues /\ out'[l].st = 100
          /\ out'[l].nElm = out[l].nElm /\ out'[l].cur = out[l].cur
      BY <1>6, <3>3, <3>4, QueueUnpacked
    <3>6. QueueInv(out'[l], l[1], l)
      BY <1>5, <1>6, <3>5 DEF QueueInv, Busy
    <3> QED
      BY <3>5, <3>6
  <2> QED
    BY <2>1, <2>2
<1>9. out' \in [Link -> Queues]
  BY <1>5, <1>6, <1>7, <1>8
<1>10. in[l].st = 0
  BY <1>1 DEF IInv, SelfInv
<1>11. SelfStep(l)
  BY <1>5, <1>6, <1>7, <1>8, <1>9, <1>10 DEF SelfStep
<1> QED
  BY <1>1, <1>11, SelfFrame

\* SelfSkip, with which the incoming queue passes an element to itself, keeps the invariant.
LEMMA SelfSkipKeeps == ASSUME IInv, NEW l \in Link, SelfSkip(l) PROVE IInv'
<1>1. TypeInv /\ PlaceInv /\ Self(l)
  BY SelfCalls DEF SelfSkip, IInv
<1>2. /\ UNCHANGED <<prog, pc, round, out, request, confirm, dma>> /\ DOMAIN mem' = DOMAIN mem
      /\ in' = [in EXCEPT ![l] = Finished(in[l])] /\ pc[l[2]] = "fence" /\ Busy(in[l])
  BY DEF SelfSkip, InCall
<1>3. out \in [Link -> Queues] /\ in \in [Link -> Queues] /\ in[l] \in Queues
      /\ QueueInv(out[l], l[1], l) /\ QueueInv(in[l], l[2], l)
  BY <1>1, QueueTypes DEF TypeInv
<1>4. in'[l] = Finished(in[l]) /\ \A m \in Link \ {l} : in'[m] = in[m]
  BY <1>2, <1>3
<1>5. in'[l] \in Queues /\ QueueInv(in'[l], l[2], l) /\ in'[l].st = 0
  BY <1>2, <1>3, <1>4, FinishedQueue, FinishedInv
<1>6. in' \in [Link -> Queues]
  BY <1>2, <1>3, <1>4, <1>5
<1>7. out[l].st \in {0, 100, 101}
  BY <1>1 DEF IInv, SelfInv
<1>8. SelfStep(l)
  BY <1>2, <1>3, <1>4, <1>5, <1>6, <1>7 DEF SelfStep
<1> QED
  BY <1>1, <1>8, SelfFrame

\* What a step of processor p outside the machines does: they are at rest.
ProcFrameStep(p) ==
    /\ UNCHANGED <<prog, request, confirm, mem, dma>> /\ TypeInv' /\ PlaceInv'
    /\ \A q \in Proc \ {p} : pc'[q] = pc[q] /\ round'[q] = round[q]
    /\ \A m \in Link : /\ m[1] # p => out'[m] = out[m]
                       /\ m[2] # p => in'[m] = in[m]
                       /\ m[1] = p => out[m].st = 0 /\ out'[m].st = 0
                       /\ m[2] = p => in[m].st = 0 /\ in'[m].st = 0 /\ Rested(in'[m])
    /\ \A m \in Link : \A r \in DOMAIN prog.fences : \A e \in DOMAIN prog.fences[r][m] :
           (OutDone(m, r, e)' <=> OutDone(m, r, e)) /\ (InDone(m, r, e)' <=> InDone(m, r, e))

\* A step of a processor whose machines are at rest keeps the invariant.
LEMMA ProcFrame == ASSUME IInv, NEW p \in Proc, ProcFrameStep(p) PROVE IInv'
<1>1. /\ TypeInv /\ TypeInv' /\ PlaceInv /\ PlaceInv' /\ \A q \in Proc : RingInv(q)
      /\ prog' = prog /\ request' = request /\ confirm' = confirm /\ dma' = dma
  BY DEF IInv, ProcFrameStep
<1>2. ASSUME NEW m \in Link
      PROVE  /\ m[1] # p => out'[m] = out[m] /\ round'[m[1]] = round[m[1]] /\ pc'[m[1]] = pc[m[1]]
             /\ m[2] # p => in'[m] = in[m] /\ round'[m[2]] = round[m[2]] /\ pc'[m[2]] = pc[m[2]]
             /\ m[1] = p => ~Active(m) /\ out'[m].st = 0
             /\ m[2] = p => ~Asked(m) /\ in'[m].st = 0 /\ Rested(in'[m])
  BY LinkEnds DEF ProcFrameStep, Active, Asked
<1>3. ASSUME NEW m \in Link, ~Self(m) PROVE LinkInv(m)' /\ OrderInv(m)'
  <2>1. LinkInv(m) /\ OrderInv(m)
    BY <1>3, LinkFacts
  <2>2. out'[m].st = out[m].st /\ in'[m].st = in[m].st
    BY <1>2 DEF Active, Asked
  <2>3. ~Asked(m) => Rested(in'[m])
    <3>1. ~Asked(m) /\ m[2] # p => Rested(in[m])
      BY <1>1, QueueTypes DEF QueueInv, Asked
    <3> QED
      BY <1>2, <3>1
  <2>4. Asked(m) => in'[m] = in[m] /\ round'[m[2]] = round[m[2]] /\ (Passed(m)' <=> Passed(m))
    <3> SUFFICES ASSUME Asked(m)
                 PROVE  in'[m] = in[m] /\ round'[m[2]] = round[m[2]] /\ (Passed(m)' <=> Passed(m))
      OBVIOUS
    <3>1. in'[m] = in[m] /\ round'[m[2]] = round[m[2]]
      BY <1>2
    <3>2. round[m[2]] \in DOMAIN prog.fences /\ in[m].cur \in DOMAIN prog.fences[round[m[2]]][m]
      BY <1>1, AskedTypes
    <3>3. OutDone(m, round[m[2]], in[m].cur)' <=> OutDone(m, round'[m[2]], in'[m].cur)
      BY <3>1, <3>2 DEF ProcFrameStep, OutDone
    <3> QED
      BY <3>1, <3>3 DEF Passed
  <2>5. Active(m) => out'[m] = out[m] /\ round'[m[1]] = round[m[1]]
    BY <1>2
  <2>6. Embeds(SRing(m)', SRing(m), m) /\ Embeds(RRing(m)', RRing(m), m)
    <3>1. SRing(m)' = SRing(m) /\ RRing(m)' = RRing(m)
      BY <1>1 DEF SRing, RRing
    <3> QED
      BY <1>1, <3>1, QueueTypes, EmbedsSelf
  <2>7. LinkInv(m)'
    BY <1>1, <2>1, <2>2, <2>3, <2>4, <2>5, <2>6, LinkFrame
  <2>8. OrderInv(m)'
    <3> SUFFICES ASSUME NEW r \in DOMAIN prog.fences, NEW e \in DOMAIN prog.fences[r][m]
                 PROVE  /\ InDone(m, r, e)' => OutDone(m, r, e)'
                        /\ OutDone(m, r, e)' =>
                               InDone(m, r, e)' \/ (Asked(m)' /\ r = round'[m[2]] /\ e = in'[m].cur)
      BY <1>1 DEF OrderInv
    <3>1. (OutDone(m, r, e)' <=> OutDone(m, r, e)) /\ (InDone(m, r, e)' <=> InDone(m, r, e))
      BY DEF ProcFrameStep
    <3>2. /\ InDone(m, r, e) => OutDone(m, r, e)
          /\ OutDone(m, r, e) => InDone(m, r, e) \/ (Asked(m) /\ r = round[m[2]] /\ e = in[m].cur)
      BY <2>1 DEF OrderInv
    <3>3. Asked(m) => Asked(m)'
      BY <2>2 DEF Asked
    <3> QED
      BY <2>4, <3>1, <3>2, <3>3
  <2> QED
    BY <2>7, <2>8
<1>4. ASSUME NEW m \in Link, Self(m) PROVE SelfInv(m)'
  <2>1. SelfInv(m)
    BY <1>4 DEF IInv
  <2> QED
    BY <1>1, <1>2, <2>1 DEF SelfInv
<1>5. ASSUME NEW m \in Link, ~Self(m)
      PROVE  /\ \/ out'[m].cur = out[m].cur /\ round'[m[1]] = round[m[1]]
                \/ Valued(SRing(m), "confirm", m, {0})
             /\ \/ in'[m].cur = in[m].cur /\ round'[m[2]] = round[m[2]]
                \/ /\ Valued(SRing(m), "confirm", m, {0})
                   /\ Of(SRing(m), "out", m) = {} /\ Of(RRing(m), "request", m) = {}
  <2>1. LinkInv(m)
    BY <1>5, LinkFacts
  <2>2. ~Asked(m) => RestInv(m)
    BY <2>1 DEF LinkInv
  <2>3. ~Active(m) => Quiet(m) \/ PassedInv(m)
    BY <2>1 DEF LinkInv, RestInv, IdleInv
  <2>4. Quiet(m) => Valued(SRing(m), "confirm", m, {0}) /\ Of(SRing(m), "out", m) = {}
    BY DEF Quiet, Valued
  <2>5. PassedInv(m) => Valued(SRing(m), "confirm", m, {0})
    BY DEF PassedInv
  <2>6. RestInv(m) => Quiet(m) /\ Of(RRing(m), "request", m) = {}
    BY DEF RestInv
  <2> QED
    BY <1>2, <2>2, <2>3, <2>4, <2>5, <2>6
<1>6. PICK t \in Seq(DmaRequests) : t = <<>>
  <2>1. <<>> \in Seq(DmaRequests)
    OBVIOUS
  <2> QED
    BY <2>1
<1>7. \A q \in Proc : dma'[q] = IF q = p THEN dma[p] \o t ELSE dma[q]
  <2>1. dma[p] \o <<>> = dma[p]
    BY <1>1 DEF TypeInv
  <2> QED
    BY <1>1, <1>6, <2>1
<1>8. \A q \in Proc : RingInv(q)'
  <2>1. \A j \in DOMAIN t : RequestOf(p, t[j]) /\ Kind(t[j]) # "none" /\ CopiesAt(t[j], round', out', in')
    BY <1>6
  <2> QED
    BY <1>1, <1>5, <1>6, <1>7, <2>1, RingFrame
<1> QED
  BY <1>1, <1>3, <1>4, <1>8 DEF IInv, Self

\* Its types and its places, and those of its queues, are left to be shown.
LEMMA ProcTypes ==
    ASSUME IInv, NEW p \in Proc, UNCHANGED <<prog, request, confirm, mem, dma>>,
           pc' \in [Proc -> {"register", "fence", "drain", "done"}],
           round' \in [Proc -> 1 .. Len(prog.fences) + 1],
           out' \in [Link -> Queues], in' \in [Link -> Queues],
           \A q \in Proc \ {p} : pc'[q] = pc[q] /\ round'[q] = round[q],
           pc'[p] = "done" <=> round'[p] = Len(prog.fences) + 1,
           \A m \in Link : /\ m[1] # p => out'[m] = out[m]
                           /\ m[2] # p => in'[m] = in[m]
                           /\ m[1] = p => QueueInv(out[m], p, m)'
                           /\ m[2] = p => QueueInv(in[m], p, m)'
    PROVE  TypeInv' /\ PlaceInv'
<1>1. TypeInv /\ PlaceInv
  BY DEF IInv
<1>2. DmaRequests' = DmaRequests
  BY DEF DmaRequests, CopySet
<1>3. TypeInv'
  BY <1>1, <1>2 DEF TypeInv
<1>4. \A q \in Proc : (pc[q] = "done" <=> round[q] = Len(prog.fences) + 1)'
  BY <1>1 DEF PlaceInv
<1>5. ASSUME NEW m \in Link PROVE (QueueInv(out[m], m[1], m) /\ QueueInv(in[m], m[2], m))'
  <2>1. QueueInv(out[m], m[1], m) /\ QueueInv(in[m], m[2], m) /\ m[1] \in Proc /\ m[2] \in Proc
    BY <1>1, LinkEnds DEF PlaceInv
  <2>2. m[1] # p => QueueInv(out[m], m[1], m)'
    <3>1. m[1] # p => out'[m] = out[m] /\ pc'[m[1]] = pc[m[1]] /\ round'[m[1]] = round[m[1]]
      BY <2>1
    <3> QED
      BY <2>1, <3>1 DEF QueueInv, Elements
  <2>3. m[2] # p => QueueInv(in[m], m[2], m)'
    <3>1. m[2] # p => in'[m] = in[m] /\ pc'[m[2]] = pc[m[2]] /\ round'[m[2]] = round[m[2]]
      BY <2>1
    <3> QED
      BY <2>1, <3>1 DEF QueueInv, Elements
  <2> QED
    BY <2>2, <2>3
<1> QED
  BY <1>3, <1>4, <1>5 DEF PlaceInv

\* The queues of a processor that is not in the loop of emb_fence.
LEMMA AtRest ==
    ASSUME IInv, NEW p \in Proc, NEW m \in Link, pc[p] # "fence"
    PROVE  /\ m[1] = p => out[m].st = 0 /\ Rested(out[m])
           /\ m[2] = p => in[m].st = 0 /\ Rested(in[m])
  BY QueueTypes DEF IInv, QueueInv

\* A processor that has not reached the end is at a fence of the program.
LEMMA AtFence ==
    ASSUME TypeInv, PlaceInv, NEW p \in Proc, pc[p] # "done"
    PROVE  /\ round[p] \in DOMAIN prog.fences /\ round[p] \in Nat
           /\ \A l \in Link : Len(Elements(l, round[p])) \in Nat
                            /\ DOMAIN Elements(l, round[p]) = 1 .. Len(Elements(l, round[p]))
<1>1. round[p] \in 1 .. Len(prog.fences) + 1 /\ round[p] # Len(prog.fences) + 1
  BY DEF TypeInv, PlaceInv
<1>2. prog.fences \in Seq([Link -> Seq(Elem)])
  BY ProgramAssumption DEF TypeInv
<1>3. round[p] \in DOMAIN prog.fences /\ round[p] \in Nat
  BY <1>1, <1>2
<1>4. \A l \in Link : Elements(l, round[p]) \in Seq(Elem)
  BY <1>3, ElementTypes DEF Elements
<1> QED
  BY <1>3, <1>4

\* EmbSend, with which a processor queues an element to send, keeps the invariant.
LEMMA EmbSendFrame == ASSUME IInv, NEW l \in Link, EmbSend(l) PROVE ProcFrameStep(l[1])
<1>1. TypeInv /\ PlaceInv /\ l[1] \in Proc
  BY LinkEnds DEF IInv
<1>2. /\ UNCHANGED <<prog, pc, round, in, request, confirm, mem, dma>> /\ pc[l[1]] = "register"
      /\ out[l].nElm < Len(Elements(l, round[l[1]]))
      /\ out' = [out EXCEPT ![l].nElm = @ + 1]
  BY DEF EmbSend
<1>3. out \in [Link -> Queues] /\ out[l] \in Queues /\ QueueInv(out[l], l[1], l)
  BY <1>1, QueueTypes DEF TypeInv
<1>4. PICK n \in Nat : n = out[l].nElm + 1
  BY <1>3 DEF Queues
<1>5. out'[l] = [out[l] EXCEPT !.nElm = @ + 1] /\ \A m \in Link \ {l} : out'[m] = out[m]
  BY <1>2, <1>3
<1>6. out[l].cur \in Nat \ {0} /\ out[l].nElm \in Nat
  BY <1>3 DEF Queues
<1>7. out'[l] = Renew(out[l], n, out[l].cur)
  BY <1>3, <1>4, <1>5 DEF Renew, Queues
<1>8. /\ out'[l] \in Queues /\ out'[l].st = out[l].st /\ out'[l].cur = out[l].cur
      /\ out'[l].nElm = n /\ (Rested(out'[l]) <=> Rested(out[l]))
  BY <1>3, <1>6, <1>7, QueueRenew DEF Rested
<1>9. out' \in [Link -> Queues]
  BY <1>2, <1>3, <1>5, <1>8
<1>10. QueueInv(out[l], l[1], l)'
  <2>1. Len(Elements(l, round[l[1]])) \in Nat
    BY <1>1, <1>2, AtFence
  <2>2. /\ out[l].st = 0 /\ Rested(out[l]) /\ out[l].cur = 1 /\ out[l].nElm <= Len(Elements(l, round[l[1]]))
    BY <1>1, <1>2, <1>3, AtRest DEF QueueInv
  <2>3. n <= Len(Elements(l, round[l[1]])) /\ 1 <= n + 1
    BY <1>2, <1>4, <1>6, <2>1
  <2> QED
    BY <1>2, <1>8, <2>2, <2>3 DEF QueueInv, Elements
<1>11. ASSUME NEW m \in Link
       PROVE  /\ m[1] # l[1] => out'[m] = out[m]
              /\ m[1] = l[1] => QueueInv(out[m], l[1], m)'
              /\ QueueInv(in[m], m[2], m)'
  <2>1. QueueInv(out[m], m[1], m) /\ QueueInv(in[m], m[2], m)
    BY <1>1 DEF PlaceInv
  <2>2. QueueInv(in[m], m[2], m)'
    BY <1>2, <2>1 DEF QueueInv, Elements
  <2>3. m # l => out'[m] = out[m] /\ QueueInv(out[m], m[1], m)'
    BY <1>2, <1>5, <2>1 DEF QueueInv, Elements
  <2> QED
    BY <1>10, <2>2, <2>3
<1>12. TypeInv' /\ PlaceInv'
  <2>1. /\ in' \in [Link -> Queues] /\ in' = in
        /\ pc' \in [Proc -> {"register", "fence", "drain", "done"}] /\ pc' = pc
        /\ round' \in [Proc -> 1 .. Len(prog.fences) + 1] /\ round' = round
    BY <1>1, <1>2 DEF TypeInv
  <2>2. pc'[l[1]] = "done" <=> round'[l[1]] = Len(prog.fences) + 1
    BY <1>1, <1>2 DEF PlaceInv
  <2> QED
    BY <1>1, <1>2, <1>9, <1>11, <2>1, <2>2, ProcTypes
<1>13. \A m \in Link : /\ m[1] = l[1] => out[m].st = 0 /\ out'[m].st = 0
                       /\ m[2] = l[1] => in[m].st = 0 /\ in'[m].st = 0 /\ Rested(in'[m])
  BY <1>1, <1>2, <1>5, <1>8, AtRest
<1>14. \A m \in Link : \A r, e : (OutDone(m, r, e)' <=> OutDone(m, r, e)) /\ (InDone(m, r, e)' <=> InDone(m, r, e))
  <2>1. \A m \in Link : out'[m].cur = out[m].cur
    BY <1>5, <1>8
  <2> QED
    BY <1>2, <2>1 DEF OutDone, InDone
<1> QED
  BY <1>2, <1>11, <1>12, <1>13, <1>14 DEF ProcFrameStep
\* Registering an element to send keeps the invariant,
LEMMA EmbSendKeeps == ASSUME IInv, NEW l \in Link, EmbSend(l) PROVE IInv'
  BY LinkEnds, EmbSendFrame, ProcFrame

\* EmbRecv, with which a processor queues an element to receive, keeps the invariant.
LEMMA EmbRecvFrame == ASSUME IInv, NEW l \in Link, EmbRecv(l) PROVE ProcFrameStep(l[2])
<1>1. TypeInv /\ PlaceInv /\ l[2] \in Proc
  BY LinkEnds DEF IInv
<1>2. /\ UNCHANGED <<prog, pc, round, out, request, confirm, mem, dma>> /\ pc[l[2]] = "register"
      /\ in[l].nElm < Len(Elements(l, round[l[2]]))
      /\ in' = [in EXCEPT ![l].nElm = @ + 1]
  BY DEF EmbRecv
<1>3. in \in [Link -> Queues] /\ in[l] \in Queues /\ QueueInv(in[l], l[2], l)
  BY <1>1, QueueTypes DEF TypeInv
<1>4. PICK n \in Nat : n = in[l].nElm + 1
  BY <1>3 DEF Queues
<1>5. in'[l] = [in[l] EXCEPT !.nElm = @ + 1] /\ \A m \in Link \ {l} : in'[m] = in[m]
  BY <1>2, <1>3
<1>6. in[l].cur \in Nat \ {0} /\ in[l].nElm \in Nat
  BY <1>3 DEF Queues
<1>7. in'[l] = Renew(in[l], n, in[l].cur)
  BY <1>3, <1>4, <1>5 DEF Renew, Queues
<1>8. /\ in'[l] \in Queues /\ in'[l].st = in[l].st /\ in'[l].cur = in[l].cur
      /\ in'[l].nElm = n /\ (Rested(in'[l]) <=> Rested(in[l]))
  BY <1>3, <1>6, <1>7, QueueRenew DEF Rested
<1>9. in' \in [Link -> Queues]
  BY <1>2, <1>3, <1>5, <1>8
<1>10. QueueInv(in[l], l[2], l)'
  <2>1. Len(Elements(l, round[l[2]])) \in Nat
    BY <1>1, <1>2, AtFence
  <2>2. /\ in[l].st = 0 /\ Rested(in[l]) /\ in[l].cur = 1 /\ in[l].nElm <= Len(Elements(l, round[l[2]]))
    BY <1>1, <1>2, <1>3, AtRest DEF QueueInv
  <2>3. n <= Len(Elements(l, round[l[2]])) /\ 1 <= n + 1
    BY <1>2, <1>4, <1>6, <2>1
  <2> QED
    BY <1>2, <1>8, <2>2, <2>3 DEF QueueInv, Elements
<1>11. ASSUME NEW m \in Link
       PROVE  /\ m[2] # l[2] => in'[m] = in[m]
              /\ m[2] = l[2] => QueueInv(in[m], l[2], m)'
              /\ QueueInv(out[m], m[1], m)'
  <2>1. QueueInv(in[m], m[2], m) /\ QueueInv(out[m], m[1], m)
    BY <1>1 DEF PlaceInv
  <2>2. QueueInv(out[m], m[1], m)'
    BY <1>2, <2>1 DEF QueueInv, Elements
  <2>3. m # l => in'[m] = in[m] /\ QueueInv(in[m], m[2], m)'
    BY <1>2, <1>5, <2>1 DEF QueueInv, Elements
  <2> QED
    BY <1>10, <2>2, <2>3
<1>12. TypeInv' /\ PlaceInv'
  <2>1. /\ out' \in [Link -> Queues] /\ out' = out
        /\ pc' \in [Proc -> {"register", "fence", "drain", "done"}] /\ pc' = pc
        /\ round' \in [Proc -> 1 .. Len(prog.fences) + 1] /\ round' = round
    BY <1>1, <1>2 DEF TypeInv
  <2>2. pc'[l[2]] = "done" <=> round'[l[2]] = Len(prog.fences) + 1
    BY <1>1, <1>2 DEF PlaceInv
  <2> QED
    BY <1>1, <1>2, <1>9, <1>11, <2>1, <2>2, ProcTypes
<1>13. \A m \in Link : /\ m[2] = l[2] => in[m].st = 0 /\ in'[m].st = 0 /\ Rested(in'[m])
                       /\ m[1] = l[2] => out[m].st = 0 /\ out'[m].st = 0
  BY <1>1, <1>2, <1>5, <1>8, AtRest
<1>14. \A m \in Link : \A r, e : (OutDone(m, r, e)' <=> OutDone(m, r, e)) /\ (InDone(m, r, e)' <=> InDone(m, r, e))
  <2>1. \A m \in Link : in'[m].cur = in[m].cur
    BY <1>5, <1>8
  <2> QED
    BY <1>2, <2>1 DEF OutDone, InDone
<1> QED
  BY <1>2, <1>11, <1>12, <1>13, <1>14 DEF ProcFrameStep
\* and so do registering one to receive,
LEMMA EmbRecvKeeps == ASSUME IInv, NEW l \in Link, EmbRecv(l) PROVE IInv'
  BY LinkEnds, EmbRecvFrame, ProcFrame

\* EnterFence, with which a processor enters emb_fence, keeps the invariant.
LEMMA EnterFenceFrame == ASSUME IInv, NEW p \in Proc, EnterFence(p) PROVE ProcFrameStep(p)
<1>1. TypeInv /\ PlaceInv
  BY DEF IInv
<1>2. /\ UNCHANGED <<prog, round, out, in, request, confirm, mem, dma>> /\ pc[p] = "register"
      /\ pc' = [pc EXCEPT ![p] = "fence"]
      /\ \A q \in Proc : /\ out[<<p, q>>].nElm = Len(Elements(<<p, q>>, round[p]))
                         /\ in[<<q, p>>].nElm = Len(Elements(<<q, p>>, round[p]))
  BY DEF EnterFence
<1>3. /\ pc' \in [Proc -> {"register", "fence", "drain", "done"}]
      /\ \A q \in Proc \ {p} : pc'[q] = pc[q]
      /\ pc'[p] = "fence"
  BY <1>1, <1>2 DEF TypeInv
<1>4. ASSUME NEW m \in Link
      PROVE  /\ m[1] = p => QueueInv(out[m], p, m)'
             /\ m[2] = p => QueueInv(in[m], p, m)'
  <2>1. QueueInv(out[m], m[1], m) /\ QueueInv(in[m], m[2], m) /\ m[1] \in Proc /\ m[2] \in Proc
        /\ m = <<m[1], m[2]>>
    BY <1>1, LinkEnds DEF PlaceInv
  <2>2. /\ m[1] = p => out[m].nElm = Len(Elements(m, round[p]))
        /\ m[2] = p => in[m].nElm = Len(Elements(m, round[p]))
    BY <1>2, <2>1
  <2> QED
    BY <1>2, <1>3, <2>1, <2>2 DEF QueueInv, Elements
<1>5. TypeInv' /\ PlaceInv'
  <2>1. /\ in' \in [Link -> Queues] /\ in' = in /\ out' \in [Link -> Queues] /\ out' = out
        /\ round' \in [Proc -> 1 .. Len(prog.fences) + 1] /\ round' = round
    BY <1>1, <1>2 DEF TypeInv
  <2>2. pc'[p] = "done" <=> round'[p] = Len(prog.fences) + 1
    BY <1>1, <1>2, <1>3 DEF PlaceInv
  <2> QED
    BY <1>1, <1>2, <1>3, <1>4, <2>1, <2>2, ProcTypes
<1>6. \A m \in Link : /\ m[1] = p => out[m].st = 0 /\ out'[m].st = 0
                      /\ m[2] = p => in[m].st = 0 /\ in'[m].st = 0 /\ Rested(in'[m])
  BY <1>1, <1>2, AtRest
<1>7. \A m \in Link : \A r, e : (OutDone(m, r, e)' <=> OutDone(m, r, e)) /\ (InDone(m, r, e)' <=> InDone(m, r, e))
  <2>1. \A q \in Proc : pc'[q] = "drain" <=> pc[q] = "drain"
    BY <1>2, <1>3
  <2> QED
    BY <1>2, <2>1, LinkEnds DEF OutDone, InDone
<1> QED
  BY <1>2, <1>3, <1>5, <1>6, <1>7 DEF ProcFrameStep
\* entering emb_fence,
LEMMA EnterFenceKeeps == ASSUME IInv, NEW p \in Proc, EnterFence(p) PROVE IInv'
  BY LinkEnds, EnterFenceFrame, ProcFrame

\* A queue without work left has passed all its elements.
LEMMA AllPassed ==
    ASSUME TypeInv, PlaceInv, NEW p \in Proc, pc[p] = "fence", NEW m \in Link,
           NEW q \in Queues, QueueInv(q, p, m), ~Busy(q)
    PROVE  q.st = 0 /\ \A e \in DOMAIN Elements(m, round[p]) : e < q.cur
<1>1. q.cur \in Nat /\ q.nElm \in Nat /\ q.nElm < q.cur
  BY DEF Queues, Busy
<1>2. q.nElm = Len(Elements(m, round[p])) /\ q.st = 0
  BY DEF QueueInv
<1>3. DOMAIN Elements(m, round[p]) = 1 .. q.nElm
  BY <1>2, AtFence
<1> QED
  BY <1>1, <1>2, <1>3

\* LeaveLoop, at which both machines of a processor are through all elements, keeps the invariant.
LEMMA LeaveLoopFrame == ASSUME IInv, NEW p \in Proc, LeaveLoop(p) PROVE ProcFrameStep(p)
<1>1. TypeInv /\ PlaceInv
  BY DEF IInv
<1>2. /\ UNCHANGED <<prog, round, request, confirm, mem, dma>> /\ pc[p] = "fence"
      /\ pc' = [pc EXCEPT ![p] = "drain"]
      /\ \A q \in Proc : ~Busy(out[<<p, q>>]) /\ ~Busy(in[<<q, p>>])
      /\ out' = [l \in Link |-> IF l[1] = p THEN EmptyQueue ELSE out[l]]
      /\ in' = [l \in Link |-> IF l[2] = p THEN EmptyQueue ELSE in[l]]
  BY DEF LeaveLoop
<1>3. /\ pc' \in [Proc -> {"register", "fence", "drain", "done"}]
      /\ \A q \in Proc \ {p} : pc'[q] = pc[q]
      /\ pc'[p] = "drain"
  BY <1>1, <1>2 DEF TypeInv
<1>4. /\ EmptyQueue \in Queues /\ EmptyQueue.st = 0 /\ EmptyQueue.cur = 1 /\ EmptyQueue.nElm = 0
      /\ Rested(EmptyQueue)
  BY DEF Queues, EmptyQueue, Rested, States
<1>5. /\ \A m \in Link : /\ m[1] # p => out'[m] = out[m]
                         /\ m[2] # p => in'[m] = in[m]
                         /\ m[1] = p => out'[m] = EmptyQueue
                         /\ m[2] = p => in'[m] = EmptyQueue
      /\ out' \in [Link -> Queues] /\ in' \in [Link -> Queues]
  <2>1. out \in [Link -> Queues] /\ in \in [Link -> Queues]
    BY <1>1 DEF TypeInv
  <2> QED
    BY <1>2, <1>4, <2>1
<1>6. ASSUME NEW m \in Link
      PROVE  /\ m[1] = p => QueueInv(out[m], p, m)'
             /\ m[2] = p => QueueInv(in[m], p, m)'
  BY <1>3, <1>4, <1>5 DEF QueueInv
<1>7. TypeInv' /\ PlaceInv'
  <2>1. /\ round' \in [Proc -> 1 .. Len(prog.fences) + 1] /\ round' = round
    BY <1>1, <1>2 DEF TypeInv
  <2>2. pc'[p] = "done" <=> round'[p] = Len(prog.fences) + 1
    BY <1>1, <1>2, <1>3 DEF PlaceInv
  <2> QED
    BY <1>1, <1>2, <1>3, <1>5, <1>6, <2>1, <2>2, ProcTypes
<1>8. ASSUME NEW m \in Link
      PROVE  /\ m[1] = p => out[m].st = 0 /\ \A e \in DOMAIN Elements(m, round[p]) : e < out[m].cur
             /\ m[2] = p => in[m].st = 0 /\ \A e \in DOMAIN Elements(m, round[p]) : e < in[m].cur
  <2>1. /\ out[m] \in Queues /\ in[m] \in Queues
        /\ QueueInv(out[m], m[1], m) /\ QueueInv(in[m], m[2], m)
        /\ m[1] \in Proc /\ m[2] \in Proc /\ m = <<m[1], m[2]>>
    BY <1>1, QueueTypes, LinkEnds
  <2>2. (m[1] = p => ~Busy(out[m])) /\ (m[2] = p => ~Busy(in[m]))
    BY <1>2, <2>1
  <2> QED
    BY <1>1, <1>2, <2>1, <2>2, AllPassed
<1>9. \A m \in Link : /\ m[1] = p => out[m].st = 0 /\ out'[m].st = 0
                      /\ m[2] = p => in[m].st = 0 /\ in'[m].st = 0 /\ Rested(in'[m])
  BY <1>4, <1>5, <1>8
<1>10. ASSUME NEW m \in Link, NEW r \in DOMAIN prog.fences, NEW e \in DOMAIN prog.fences[r][m]
       PROVE  (OutDone(m, r, e)' <=> OutDone(m, r, e)) /\ (InDone(m, r, e)' <=> InDone(m, r, e))
  <2>1. m[1] \in Proc /\ m[2] \in Proc
    BY LinkEnds
  <2>2. OutDone(m, r, e)' <=> OutDone(m, r, e)
    <3>1. CASE m[1] # p
      <4>1. pc'[m[1]] = pc[m[1]] /\ out'[m] = out[m]
        BY <1>3, <1>5, <2>1, <3>1
      <4> QED
        BY <1>2, <4>1 DEF OutDone
    <3>2. CASE m[1] = p
      <4>1. r = round[p] => e < out[m].cur
        BY <1>8, <3>2 DEF Elements
      <4> QED
        BY <1>2, <1>3, <3>2, <4>1 DEF OutDone
    <3> QED
      BY <3>1, <3>2
  <2>3. InDone(m, r, e)' <=> InDone(m, r, e)
    <3>1. CASE m[2] # p
      <4>1. pc'[m[2]] = pc[m[2]] /\ in'[m] = in[m]
        BY <1>3, <1>5, <2>1, <3>1
      <4> QED
        BY <1>2, <4>1 DEF InDone
    <3>2. CASE m[2] = p
      <4>1. r = round[p] => e < in[m].cur
        BY <1>8, <3>2 DEF Elements
      <4> QED
        BY <1>2, <1>3, <3>2, <4>1 DEF InDone
    <3> QED
      BY <3>1, <3>2
  <2> QED
    BY <2>2, <2>3
<1> QED
  BY <1>2, <1>3, <1>5, <1>7, <1>9, <1>10 DEF ProcFrameStep
\* leaving its loop,
LEMMA LeaveLoopKeeps == ASSUME IInv, NEW p \in Proc, LeaveLoop(p) PROVE IInv'
  BY LinkEnds, LeaveLoopFrame, ProcFrame

\* LeaveFence, at which the processor's ring is empty and it goes on, keeps the invariant.
LEMMA LeaveFenceFrame == ASSUME IInv, NEW p \in Proc, LeaveFence(p) PROVE ProcFrameStep(p)
<1>1. TypeInv /\ PlaceInv
  BY DEF IInv
<1>2. /\ UNCHANGED <<prog, out, in, request, confirm, mem, dma>> /\ pc[p] = "drain"
      /\ round' = [round EXCEPT ![p] = @ + 1]
      /\ pc' = [pc EXCEPT ![p] = IF round[p] = Len(prog.fences) THEN "done" ELSE "register"]
  BY DEF LeaveFence
<1>3. /\ round[p] \in 1 .. Len(prog.fences) /\ Len(prog.fences) \in Nat
      /\ DOMAIN prog.fences = 1 .. Len(prog.fences)
      /\ \A q \in Proc : round[q] \in Nat
  <2>1. round[p] \in DOMAIN prog.fences
    BY <1>1, <1>2, AtFence
  <2>2. prog.fences \in Seq([Link -> Seq(Elem)])
    BY <1>1, ProgramAssumption DEF TypeInv
  <2>3. round \in [Proc -> 1 .. Len(prog.fences) + 1] /\ Len(prog.fences) \in Nat
        /\ DOMAIN prog.fences = 1 .. Len(prog.fences)
    BY <1>1, <2>2 DEF TypeInv
  <2> QED
    BY <2>1, <2>3
<1>4. /\ pc' \in [Proc -> {"register", "fence", "drain", "done"}]
      /\ \A q \in Proc \ {p} : pc'[q] = pc[q] /\ round'[q] = round[q]
      /\ pc'[p] = IF round[p] = Len(prog.fences) THEN "done" ELSE "register"
      /\ round'[p] = round[p] + 1 /\ round' \in [Proc -> 1 .. Len(prog.fences) + 1]
  BY <1>1, <1>2, <1>3 DEF TypeInv
<1>5. ASSUME NEW m \in Link
      PROVE  /\ m[1] = p => /\ out[m].st = 0 /\ Rested(out[m]) /\ out[m].cur = 1 /\ out[m].nElm = 0
             /\ m[2] = p => /\ in[m].st = 0 /\ Rested(in[m]) /\ in[m].cur = 1 /\ in[m].nElm = 0
  BY <1>1, <1>2, QueueTypes DEF QueueInv
<1>6. TypeInv' /\ PlaceInv'
  <2>1. /\ in' \in [Link -> Queues] /\ in' = in /\ out' \in [Link -> Queues] /\ out' = out
    BY <1>1, <1>2 DEF TypeInv
  <2>2. pc'[p] = "done" <=> round'[p] = Len(prog.fences) + 1
    BY <1>3, <1>4
  <2>3. ASSUME NEW m \in Link
        PROVE  /\ m[1] = p => QueueInv(out[m], p, m)'
               /\ m[2] = p => QueueInv(in[m], p, m)'
    <3>1. pc'[p] = "register" => 0 <= Len(Elements(m, round'[p]))
      <4>1. pc'[p] = "register" => round'[p] \in DOMAIN prog.fences
        BY <1>3, <1>4
      <4>2. pc'[p] = "register" => Elements(m, round'[p]) \in Seq(Elem)
        BY <1>1, <4>1, ElementTypes DEF Elements
      <4> QED
        BY <4>2
    <3>2. pc'[p] \in {"done", "register"}
      BY <1>4
    <3>3. Elements(m, round[p])' = Elements(m, round'[p])
      BY <1>2 DEF Elements
    <3> QED
      BY <1>2, <1>5, <3>1, <3>2, <3>3 DEF QueueInv
  <2> QED
    BY <1>1, <1>2, <1>4, <2>1, <2>2, <2>3, ProcTypes
<1>7. ASSUME NEW m \in Link, NEW r \in DOMAIN prog.fences, NEW e \in DOMAIN prog.fences[r][m]
      PROVE  (OutDone(m, r, e)' <=> OutDone(m, r, e)) /\ (InDone(m, r, e)' <=> InDone(m, r, e))
  <2>1. m[1] \in Proc /\ m[2] \in Proc /\ r \in Nat /\ e \in Nat \ {0}
    BY <1>1, LinkEnds, ElementTypes
  <2>2. OutDone(m, r, e)' <=> OutDone(m, r, e)
    <3>1. CASE m[1] # p
      BY <1>2, <1>4, <2>1, <3>1 DEF OutDone
    <3>2. CASE m[1] = p
      <4>1. out'[m].cur = 1 /\ ~(e < out'[m].cur)
        BY <1>2, <1>5, <2>1, <3>2
      <4>2. r < round'[p] <=> r < round[p] \/ r = round[p]
        BY <1>3, <1>4, <2>1
      <4>3. pc'[p] # "drain"
        BY <1>4
      <4> QED
        BY <1>2, <3>2, <4>1, <4>2, <4>3 DEF OutDone
    <3> QED
      BY <3>1, <3>2
  <2>3. InDone(m, r, e)' <=> InDone(m, r, e)
    <3>1. CASE m[2] # p
      BY <1>2, <1>4, <2>1, <3>1 DEF InDone
    <3>2. CASE m[2] = p
      <4>1. in'[m].cur = 1 /\ ~(e < in'[m].cur)
        BY <1>2, <1>5, <2>1, <3>2
      <4>2. r < round'[p] <=> r < round[p] \/ r = round[p]
        BY <1>3, <1>4, <2>1
      <4>3. pc'[p] # "drain"
        BY <1>4
      <4> QED
        BY <1>2, <3>2, <4>1, <4>2, <4>3 DEF InDone
    <3> QED
      BY <3>1, <3>2
  <2> QED
    BY <2>2, <2>3
<1> QED
  BY <1>2, <1>4, <1>5, <1>6, <1>7 DEF ProcFrameStep
\* and leaving the fence.
LEMMA LeaveFenceKeeps == ASSUME IInv, NEW p \in Proc, LeaveFence(p) PROVE IInv'
  BY LinkEnds, LeaveFenceFrame, ProcFrame

\* What a step of the DMA engine of p does: t becomes its ring, and a word or a
\* counter of the links in L changes.
EngineStep(p, t, L) ==
    /\ prog' = prog /\ pc' = pc /\ round' = round /\ DOMAIN mem' = DOMAIN mem
    /\ out' \in [Link -> Queues] /\ in' \in [Link -> Queues]
    /\ request' \in [Link -> Nat] /\ confirm' \in [Link -> Nat]
    /\ \A m \in Link :
           /\ out'[m].cur = out[m].cur /\ in'[m].cur = in[m].cur /\ in'[m].st = in[m].st
           /\ QueueInv(out'[m], m[1], m) /\ QueueInv(in'[m], m[2], m)
    /\ \A m \in Link \ L : /\ out'[m] = out[m] /\ in'[m] = in[m]
                           /\ request'[m] = request[m] /\ confirm'[m] = confirm[m]
                           /\ Embeds(t, dma[p], m)
    /\ \A m \in L : ~Self(m)
    /\ dma' = [dma EXCEPT ![p] = t] /\ dma[p] # <<>>
    /\ \A j \in DOMAIN t : /\ RequestOf(p, t[j]) /\ (Kind(t[j]) = "none" => j = 1)
                           /\ CopiesAt(t[j], round, out, in)

\* A step of the DMA engine of processor p that disturbs only the links L keeps the
\* invariant.
LEMMA EngineFrame ==
    ASSUME IInv, NEW p \in Proc, NEW t \in Seq(DmaRequests), NEW L, EngineStep(p, t, L),
           \A m \in L : m \in Link => LinkInv(m)'
    PROVE  IInv'
<1>1. TypeInv /\ PlaceInv /\ \A q \in Proc : RingInv(q)
  BY DEF IInv
<1>2. /\ dma \in [Proc -> Seq(DmaRequests)]
      /\ dma'[p] = t /\ \A q \in Proc \ {p} : dma'[q] = dma[q]
      /\ prog' = prog /\ pc' = pc /\ round' = round
  BY <1>1 DEF EngineStep, TypeInv
<1>3. TypeInv'
  <2>1. DmaRequests' = DmaRequests
    BY <1>2 DEF DmaRequests, CopySet
  <2>2. dma' \in [Proc -> Seq(DmaRequests)]
    BY <1>2 DEF EngineStep
  <2> QED
    BY <1>1, <2>1, <2>2 DEF EngineStep, TypeInv
<1>4. PlaceInv'
  <2>1. ASSUME NEW m \in Link PROVE QueueInv(out[m], m[1], m)' /\ QueueInv(in[m], m[2], m)'
    <3>1. QueueInv(out'[m], m[1], m) /\ QueueInv(in'[m], m[2], m)
      BY DEF EngineStep
    <3> QED
      BY <1>2, <3>1 DEF QueueInv, Elements
  <2> QED
    BY <1>1, <1>2, <2>1 DEF PlaceInv
<1>5. ASSUME NEW q \in Proc PROVE RingInv(q)'
  <2>1. \A l : l \in Link => out'[l].cur = out[l].cur /\ in'[l].cur = in[l].cur
    BY DEF EngineStep
  <2>2. ASSUME NEW j \in DOMAIN dma'[q]
        PROVE  /\ RequestOf(q, dma'[q][j]) /\ (Kind(dma'[q][j]) = "none" => j = 1)
               /\ CopiesAt(dma'[q][j], round', out', in')
    <3>1. PICK x : x = dma'[q][j]
      OBVIOUS
    <3>2. /\ RequestOf(q, x) /\ (Kind(x) = "none" => j = 1)
          /\ CopiesAt(x, round, out, in)
      <4>1. CASE q = p
        BY <1>2, <3>1, <4>1 DEF EngineStep
      <4>2. CASE q # p
        BY <1>1, <1>2, <3>1, <4>2 DEF RingInv
      <4> QED
        BY <4>1, <4>2
    <3>3. CopiesAt(x, round', out', in')
      <4>1. Kind(x) # "none" => LinkOf(x) \in Link
        BY <3>2 DEF RequestOf
      <4> QED
        BY <1>2, <2>1, <3>2, <4>1 DEF CopiesAt
    <3> QED
      BY <3>1, <3>2, <3>3
  <2>3. dma'[q] # <<>> => ~Host(q) /\ \E k \in Proc : k # q
    <3>1. dma[q] # <<>> => ~Host(q) /\ \E k \in Proc : k # q
      BY <1>1 DEF RingInv
    <3> QED
      BY <1>2, <3>1 DEF EngineStep
  <2>4. Host(q)' <=> Host(q)
    BY <1>2 DEF Host
  <2>5. \A x : RequestOf(q, x)' <=> RequestOf(q, x)
    BY DEF RequestOf
  <2> QED
    BY <2>2, <2>3, <2>4, <2>5 DEF RingInv
<1>6. ASSUME NEW m \in Link, ~Self(m) PROVE LinkInv(m)' /\ OrderInv(m)'
  <2>1. LinkInv(m) /\ OrderInv(m)
    BY <1>6, LinkFacts
  <2>2. CASE m \in L
    <3>1. \A r, e : (OutDone(m, r, e)' <=> OutDone(m, r, e)) /\ (InDone(m, r, e)' <=> InDone(m, r, e))
      <4>1. out'[m].cur = out[m].cur /\ in'[m].cur = in[m].cur
        BY DEF EngineStep
      <4> QED
        BY <1>2, <4>1 DEF OutDone, InDone
    <3>2. in'[m].cur = in[m].cur /\ (Asked(m) => Asked(m)')
      BY DEF EngineStep, Asked
    <3>3. OrderInv(m)'
      BY <1>2, <2>1, <3>1, <3>2, OrderKept
    <3> QED
      BY <2>2, <3>3
  <2>3. CASE m \notin L
    <3>1. /\ out'[m] = out[m] /\ in'[m] = in[m]
          /\ request'[m] = request[m] /\ confirm'[m] = confirm[m]
          /\ Embeds(t, dma[p], m)
      BY <2>3 DEF EngineStep
    <3>2. \A q \in Proc : Embeds(dma'[q], dma[q], m)
      <4> SUFFICES ASSUME NEW q \in Proc PROVE Embeds(dma'[q], dma[q], m)
        OBVIOUS
      <4>1. CASE q = p
        BY <1>2, <3>1, <4>1
      <4>2. CASE q # p
        <5>1. dma'[q] = dma[q] /\ dma[q] \in Seq(DmaRequests)
          BY <1>2, <4>2
        <5> QED
          BY <5>1, EmbedsSelf
      <4> QED
        BY <4>1, <4>2
    <3> QED
      BY <1>1, <1>2, <1>3, <2>1, <3>1, <3>2, OtherLinks
  <2> QED
    BY <2>2, <2>3
<1>7. ASSUME NEW m \in Link, Self(m) PROVE SelfInv(m)'
  <2>1. SelfInv(m)
    BY <1>7 DEF IInv
  <2>2. m \notin L
    BY <1>7 DEF EngineStep
  <2> QED
    BY <2>1, <2>2 DEF EngineStep, SelfInv
<1> QED
  BY <1>3, <1>4, <1>5, <1>6, <1>7 DEF IInv, Self

\* The oldest request of a ring.
LEMMA Oldest ==
    ASSUME IInv, NEW p \in Proc, dma[p] # <<>>
    PROVE  /\ TypeInv /\ PlaceInv /\ dma[p] \in Seq(DmaRequests) /\ 1 \in DOMAIN dma[p]
           /\ dma[p][1] \in DmaRequests /\ RequestOf(p, dma[p][1]) /\ CopiesAt(dma[p][1], round, out, in)
           /\ ~Host(p) /\ dma \in [Proc -> Seq(DmaRequests)]
           /\ \A j \in DOMAIN dma[p] :
                  /\ RequestOf(p, dma[p][j]) /\ (Kind(dma[p][j]) = "none" => j = 1)
                  /\ CopiesAt(dma[p][j], round, out, in)
<1>1. TypeInv /\ PlaceInv /\ RingInv(p)
  BY DEF IInv
<1>2. dma \in [Proc -> Seq(DmaRequests)] /\ dma[p] \in Seq(DmaRequests)
  BY <1>1 DEF TypeInv
<1>3. 1 \in DOMAIN dma[p] /\ dma[p][1] \in DmaRequests
  BY <1>2
<1> QED
  BY <1>1, <1>2, <1>3 DEF RingInv

\* The oldest request of a ring is replaced.
LEMMA ReplaceHead ==
    ASSUME NEW S, NEW s \in Seq(S), s # <<>>, NEW y \in S
    PROVE  LET t == [s EXCEPT ![1] = y] IN
           /\ t \in Seq(S) /\ Len(t) = Len(s) /\ DOMAIN t = DOMAIN s /\ t # <<>> /\ t[1] = y
           /\ \A j \in DOMAIN s : j # 1 => t[j] = s[j]
<1>1. Len(s) \in Nat \ {0} /\ DOMAIN s = 1 .. Len(s) /\ \A j \in DOMAIN s : s[j] \in S
  OBVIOUS
<1>2. PICK t : t = [s EXCEPT ![1] = y]
  OBVIOUS
<1>3. DOMAIN t = 1 .. Len(s) /\ t[1] = y /\ \A j \in DOMAIN s : j # 1 => t[j] = s[j]
  BY <1>1, <1>2
<1>4. \A j \in 1 .. Len(s) : t[j] \in S
  BY <1>1, <1>3
<1>5. t \in Seq(S)
  <2>1. t = [j \in 1 .. Len(s) |-> t[j]]
    BY <1>1, <1>2
  <2> QED
    BY <1>1, <1>4, <2>1
<1>6. Len(t) = Len(s) /\ t # <<>>
  BY <1>1, <1>3, <1>5
<1> QED
  BY <1>1, <1>2, <1>3, <1>5, <1>6

\* DmaCopy, a copy of the oldest request, keeps the invariant.
LEMMA DmaCopyKeeps == ASSUME IInv, NEW p \in Proc, DmaCopy(p) PROVE IInv'
<1>1. /\ dma[p] # <<>> /\ dma[p][1].copies # <<>>
      /\ UNCHANGED <<prog, pc, round, out, in, request, confirm>>
      /\ DOMAIN mem' = DOMAIN mem
      /\ dma' = [dma EXCEPT ![p][1].copies = Tail(@)]
  BY DEF DmaCopy
<1>2. PICK s \in Seq(DmaRequests) : s = dma[p]
  BY <1>1, Oldest
<1>3. /\ TypeInv /\ PlaceInv /\ s # <<>> /\ 1 \in DOMAIN s
      /\ dma \in [Proc -> Seq(DmaRequests)]
      /\ \A j \in DOMAIN s :
                  /\ RequestOf(p, s[j]) /\ (Kind(s[j]) = "none" => j = 1)
                  /\ CopiesAt(s[j], round, out, in)
  BY <1>1, <1>2, Oldest
<1>4. PICK x \in DmaRequests : x = s[1]
  BY <1>1, <1>2, Oldest
<1>5. PICK c \in Seq(CopySet) : c = x.copies /\ c # <<>>
  BY <1>1, <1>2, <1>4 DEF DmaRequests
<1>6. PICK y : y = [x EXCEPT !.copies = Tail(c)]
  OBVIOUS
<1>7. /\ y \in DmaRequests /\ y.word = x.word /\ y.note = x.note /\ y.copies = Tail(c)
  <2>1. Tail(c) \in Seq(CopySet)
    BY <1>5
  <2> QED
    BY <1>6, <2>1 DEF DmaRequests
<1>8. /\ Kind(y) = Kind(x) /\ LinkOf(y) = LinkOf(x) /\ Value(y) = Value(x)
  BY <1>7 DEF Kind, LinkOf, Value
<1>9. PICK t : t = [s EXCEPT ![1] = y]
  OBVIOUS
<1>10. /\ t \in Seq(DmaRequests) /\ Len(t) = Len(s) /\ DOMAIN t = DOMAIN s /\ t[1] = y
       /\ \A j \in DOMAIN s : j # 1 => t[j] = s[j]
  BY <1>3, <1>7, <1>9, ReplaceHead
<1>11. dma' = [dma EXCEPT ![p] = t]
  <2>1. dma' = [dma EXCEPT ![p] = [s EXCEPT ![1] = [x EXCEPT !.copies = Tail(x.copies)]]]
    BY <1>1, <1>2, <1>3, <1>4
  <2> QED
    BY <1>5, <1>6, <1>9, <2>1
<1>12. /\ RequestOf(p, y) /\ CopiesAt(y, round, out, in)
  <2>1. RequestOf(p, x) /\ CopiesAt(x, round, out, in)
    BY <1>3, <1>4
  <2>2. \A n \in DOMAIN y.copies : n + 1 \in DOMAIN c /\ y.copies[n] = c[n + 1]
    BY <1>5, <1>7
  <2>3. RequestOf(p, y)
    BY <1>7, <1>8, <2>1 DEF RequestOf
  <2>4. CopiesAt(y, round, out, in)
    BY <1>5, <1>8, <2>1, <2>2 DEF CopiesAt
  <2> QED
    BY <2>3, <2>4
<1>13. \A j \in DOMAIN t : /\ RequestOf(p, t[j]) /\ (Kind(t[j]) = "none" => j = 1)
                           /\ CopiesAt(t[j], round, out, in)
  BY <1>3, <1>10, <1>12
<1>14. \A m \in Link : Embeds(t, s, m)
  <2>1. t[1].word = s[1].word /\ t[1].note = s[1].note
    BY <1>4, <1>7, <1>10
  <2> QED
    BY <1>10, <2>1, EmbedsHead
<1>15. EngineStep(p, t, {})
  <2>1. /\ out' \in [Link -> Queues] /\ in' \in [Link -> Queues]
        /\ request' \in [Link -> Nat] /\ confirm' \in [Link -> Nat]
    BY <1>1, <1>3 DEF TypeInv
  <2>2. \A m \in Link : QueueInv(out'[m], m[1], m) /\ QueueInv(in'[m], m[2], m)
    BY <1>1, <1>3 DEF PlaceInv
  <2> QED
    BY <1>1, <1>2, <1>11, <1>13, <1>14, <2>1, <2>2 DEF EngineStep
<1> QED
  BY <1>10, <1>15, EngineFrame

\* Ring t of p is s without the word of its oldest request, of kind k for link l
\* and with value v.
WordLanded(p, s, t, k, l, v) ==
    /\ dma[p] = s /\ s # <<>> /\ dma' = [dma EXCEPT ![p] = t]
    /\ Kind(s[1]) = k /\ LinkOf(s[1]) = l /\ Value(s[1]) = v
    /\ Kind(t[1]) = "none" /\ Len(t) = Len(s) /\ \A j \in DOMAIN s : j # 1 => t[j] = s[j]
    /\ UNCHANGED <<prog, pc, round, out, in, mem>>

\* What that keeps of the rings of a link.
LEMMA LandedRings ==
    ASSUME IInv, NEW p \in Proc, NEW s \in Seq(DmaRequests), NEW t \in Seq(DmaRequests),
           NEW k, NEW l, NEW v, WordLanded(p, s, t, k, l, v)
    PROVE  /\ \A m : Embeds(t, s, m)
           /\ dma'[p] = t /\ \A q \in Proc \ {p} : dma'[q] = dma[q]
           /\ 1 \in Of(s, k, l)
<1>1. \A m : Embeds(t, s, m)
  BY EmbedsHead DEF WordLanded
<1>2. dma'[p] = t /\ \A q \in Proc \ {p} : dma'[q] = dma[q]
  <2>1. dma \in [Proc -> Seq(DmaRequests)]
    BY DEF IInv, TypeInv
  <2> QED
    BY <2>1 DEF WordLanded
<1>3. 1 \in DOMAIN s
  BY DEF WordLanded
<1>4. 1 \in Of(s, k, l)
  BY <1>3 DEF Of, WordLanded
<1> QED
  BY <1>1, <1>2, <1>4

\* A confirmation arrives.
LEMMA ConfirmLands ==
    ASSUME IInv, NEW l \in Link, ~Self(l), NEW s \in Seq(DmaRequests), NEW t \in Seq(DmaRequests),
           NEW v \in Nat, WordLanded(l[1], s, t, "confirm", l, v),
           request' = request, confirm'[l] = v
    PROVE  LinkInv(l)'
<1>1. /\ TypeInv /\ PlaceInv /\ LinkInv(l) /\ l[1] \in Proc /\ l[2] \in Proc /\ l[1] # l[2]
  BY LinkFacts, LinkEnds
<1>2. /\ Embeds(t, s, l) /\ 1 \in Of(s, "confirm", l)
      /\ SRing(l) = s /\ SRing(l)' = t /\ RRing(l)' = RRing(l)
  <2>1. /\ \A m : Embeds(t, s, m)
        /\ dma'[l[1]] = t /\ \A q \in Proc \ {l[1]} : dma'[q] = dma[q]
        /\ 1 \in Of(s, "confirm", l)
    BY <1>1, LandedRings
  <2>2. dma[l[1]] = s
    BY DEF WordLanded
  <2> QED
    BY <1>1, <2>1, <2>2 DEF SRing, RRing
<1>3. UNCHANGED <<prog, pc, round, out, in>>
  BY DEF WordLanded
<1>4. ~Quiet(l)
  BY <1>2 DEF Quiet
<1>5. Asked(l) /\ (Active(l) \/ Passed(l))
  BY <1>1, <1>4 DEF LinkInv, RestInv, IdleInv
<1>6. /\ Asked(l)' /\ InElem(l)' = InElem(l)
      /\ (Zero(l)' <=> Zero(l)) /\ (Host(l[1])' <=> Host(l[1]))
      /\ First(l)' = First(l) /\ Total(l)' = Total(l)
      /\ Taken(l)' = Taken(l) /\ Wanted(l)' = Wanted(l)
      /\ ReceiverInv(l)'
  <2>1. (Active(l) \/ Passed(l))' <=> (Active(l) \/ Passed(l))
    BY <1>3 DEF Active, Passed, OutDone
  <2>2. request'[l] = request[l] /\ in'[l] = in[l]
    BY <1>3
  <2> QED
    BY <1>2, <1>3, <1>5, <2>1, <2>2, ReceiverKept
<1>7. PICK total \in Nat \ {0} : total = Total(l)
  BY <1>1, <1>5, AskedTypes
<1>8. PICK r : r = Rank(v, 1, total)
  OBVIOUS
<1>9. ASSUME NEW lo \in Int, NEW hi \in Int, Run(s, "confirm", l, 1, total, lo, hi)
      PROVE  r \in lo + 1 .. hi /\ Run(t, "confirm", l, 1, total, r, hi)
  <2>1. /\ s # <<>> /\ Kind(s[1]) = "confirm" /\ LinkOf(s[1]) = l /\ Value(s[1]) = v
        /\ Kind(t[1]) = "none" /\ Len(t) = Len(s) /\ \A j \in DOMAIN s : j # 1 => t[j] = s[j]
    BY DEF WordLanded
  <2>2. /\ Rank(Value(s[1]), 1, total) \in lo + 1 .. hi
        /\ Run(t, "confirm", l, 1, total, Rank(Value(s[1]), 1, total), hi)
    <3>1. \/ t = Tail(s)
          \/ (Kind(t[1]) = "none" /\ Len(t) = Len(s) /\ \A j \in DOMAIN s : j # 1 => t[j] = s[j])
      BY <2>1
    <3>2. s # <<>> /\ Kind(s[1]) = "confirm" /\ LinkOf(s[1]) = l /\ "confirm" # "none"
      BY <2>1
    <3>3. Run(s, "confirm", l, 1, total, lo, hi)
      BY <1>9
    <3> QED
      BY <3>1, <3>2, <3>3, RunHead
  <2> QED
    BY <1>8, <2>1, <2>2
\* While the sender is active: the next fragment.
<1>10. ASSUME Active(l) PROVE LinkInv(l)'
  <2>1. ActiveInv(l) /\ ~Passed(l)
    BY <1>10, LinkFacts
  <2>2. PICK given \in Nat : given = Given(l)
    BY <1>1, <1>5, AskedTypes
  <2>3. PICK c \in Nat : c = confirm[l]
    BY <1>1, QueueTypes
  <2>4. Taken(l) <= c /\ c <= given /\ given <= total /\ Run(s, "confirm", l, 1, total, c, given)
    BY <1>2, <1>7, <2>1, <2>2, <2>3 DEF ActiveInv
  <2>5. r \in c + 1 .. given /\ Run(t, "confirm", l, 1, total, r, given)
    BY <1>9, <2>4
  <2>6. v = r /\ v # 0
    BY <1>7, <1>8, <2>2, <2>4, <2>5 DEF Rank
  <2>7. Taken(l) \in Nat
    BY <1>1, <1>5, AskedTypes
  <2>8. Taken(l)' <= v /\ v <= given /\ Run(t, "confirm", l, 1, total, v, given)
    BY <1>6, <2>3, <2>4, <2>5, <2>6, <2>7
  <2>9. ~Host(l[1])
    BY <1>1, HostRing DEF WordLanded
  <2>10. Zero(l) => Of(s, "out", l) = {}
    <3> SUFFICES ASSUME Zero(l) PROVE Of(s, "out", l) = {}
      OBVIOUS
    <3>1. Before(s, "out", "confirm", l)
      BY <1>2, <2>1 DEF ActiveInv
    <3>2. s # <<>> /\ Kind(s[1]) = "confirm" /\ LinkOf(s[1]) = l
      BY DEF WordLanded
    <3> QED
      BY <3>1, <3>2, BeforeHead
  <2>11. Of(s, "out", l) = {}
    BY <1>2, <2>1, <2>10 DEF ActiveInv
  <2>12. Of(t, "out", l) = {}
    BY <1>2, <2>11, EmbedsRest DEF RequestKinds
  <2>13. Given(l)' = given
    BY <1>3, <1>6, <2>2 DEF Given
  <2>14. (IF Zero(l)
       THEN /\ out[l].completed <= out[l].taken /\ out[l].taken - out[l].completed <= BPQ
            /\ out[l].st = 201 => /\ out[l].taken < InElem(l).frags
                                  /\ out[l].address = Address(round[l[2]], in[l].cur)
            /\ out[l].taken <= InElem(l).frags
            /\ Run(SRing(l), "out", l, 1, InElem(l).frags, out[l].completed,
                   IF out[l].st = 201 THEN out[l].taken ELSE out[l].taken - 1)
            /\ Before(SRing(l), "out", "confirm", l)
            /\ Noted(SRing(l), "out", l, out[l].cur)
            /\ confirm[l] # 0 => Of(SRing(l), "out", l) = {}
       ELSE Of(SRing(l), "out", l) = {})'
    <3>1. \A first, tot, lo, hi, e : /\ Run(t, "out", l, first, tot, lo, hi)
                                     /\ Before(t, "out", "confirm", l) /\ Noted(t, "out", l, e)
      BY <2>12, RunEmpty DEF Before, Noted
    <3>2. Zero(l) => /\ out[l].completed <= out[l].taken /\ out[l].taken - out[l].completed <= BPQ
                     /\ out[l].st = 201 => /\ out[l].taken < InElem(l).frags
                                           /\ out[l].address = Address(round[l[2]], in[l].cur)
                     /\ out[l].taken <= InElem(l).frags
      BY <2>1 DEF ActiveInv
    <3>3. /\ out'[l] = out[l] /\ Address(round[l[2]], in[l].cur)' = Address(round[l[2]], in[l].cur)
          /\ InElem(l)' = InElem(l) /\ (Zero(l)' <=> Zero(l)) /\ SRing(l)' = t
      BY <1>2, <1>3, <1>6 DEF Address
    <3> QED
      BY <2>12, <3>1, <3>2, <3>3
  <2>15. ActiveInv(l)'
    <3>1. (Taken(l) <= confirm[l] /\ confirm[l] <= Given(l) /\ Given(l) <= Total(l))'
      BY <1>6, <1>7, <2>4, <2>8, <2>13
    <3>2. Run(SRing(l), "confirm", l, 1, Total(l), confirm[l], Given(l))'
      BY <1>2, <1>6, <1>7, <2>8, <2>13
    <3>3. Busy(out[l])' /\ Given(l)' = Given(l)
      BY <1>3, <2>1, <2>2, <2>13 DEF ActiveInv, Busy
    <3> QED
      BY <1>3, <1>6, <2>1, <2>9, <2>14, <3>1, <3>2, <3>3 DEF ActiveInv
  <2>16. Active(l)' /\ ~Passed(l)'
    BY <1>3, <1>10, <2>1 DEF Active, Passed, OutDone
  <2> QED
    BY <1>6, <2>15, <2>16 DEF LinkInv
\* After that: 0, the last.
<1>11. ASSUME ~Active(l) PROVE LinkInv(l)'
  <2>1. PassedInv(l) /\ Passed(l)
    BY <1>1, <1>5, <1>11 DEF LinkInv
  <2>2. v = 0
    <3>1. Value(s[1]) \in {0}
      BY <1>2, <2>1 DEF PassedInv, Valued
    <3> QED
      BY <3>1 DEF WordLanded
  <2>3. PICK lo \in Int : lo = total
    BY <1>7
  <2>4. PICK hi \in Int : hi = total + 1
    BY <1>7
  <2>5. Run(s, "confirm", l, 1, total, lo, hi)
    BY <1>2, <1>7, <2>1, <2>3, <2>4 DEF PassedInv
  <2>6. Run(t, "confirm", l, 1, total, r, hi) /\ r = hi
    BY <1>8, <1>9, <2>2, <2>4, <2>5 DEF Rank
  <2>7. Of(t, "confirm", l) = {}
    BY <2>6, RunNone
  <2>8. Of(t, "out", l) = {}
    BY <1>2, <2>1, EmbedsRest DEF PassedInv, RequestKinds
  <2>9. ~Active(l)' /\ request'[l] = 0 /\ Passed(l)'
    BY <1>3, <1>11, <2>1 DEF Active, PassedInv, Passed, OutDone
  <2>10. PassedInv(l)'
    <3>1. Run(t, "confirm", l, 1, Total(l)', Total(l)', Total(l)' + 1) /\ Valued(t, "confirm", l, {0})
      BY <2>7, RunEmpty DEF Valued
    <3> QED
      BY <1>2, <2>7, <2>8, <2>9, <3>1 DEF PassedInv
  <2> QED
    BY <1>6, <2>9, <2>10 DEF LinkInv
<1> QED
  BY <1>10, <1>11

\* A request arrives.
LEMMA RequestLands ==
    ASSUME IInv, NEW l \in Link, ~Self(l), NEW s \in Seq(DmaRequests), NEW t \in Seq(DmaRequests),
           NEW v \in Nat, WordLanded(l[2], s, t, "request", l, v),
           confirm' = confirm, request'[l] = v
    PROVE  LinkInv(l)'
<1>1. /\ TypeInv /\ PlaceInv /\ LinkInv(l) /\ l[1] \in Proc /\ l[2] \in Proc /\ l[1] # l[2]
  BY LinkFacts, LinkEnds
<1>2. /\ Embeds(t, s, l) /\ 1 \in Of(s, "request", l)
      /\ RRing(l) = s /\ RRing(l)' = t /\ SRing(l)' = SRing(l)
  <2>1. /\ \A m : Embeds(t, s, m)
        /\ dma'[l[2]] = t /\ \A q \in Proc \ {l[2]} : dma'[q] = dma[q]
        /\ 1 \in Of(s, "request", l)
    BY <1>1, LandedRings
  <2>2. dma[l[2]] = s
    BY DEF WordLanded
  <2> QED
    BY <1>1, <2>1, <2>2 DEF SRing, RRing
<1>3. UNCHANGED <<prog, pc, round, out, in>>
  BY DEF WordLanded
<1>4. Asked(l) /\ ReceiverInv(l)
  BY <1>1, <1>2 DEF LinkInv, RestInv
<1>5. PICK total \in Nat \ {0} : total = Total(l)
  BY <1>1, <1>4, AskedTypes
<1>6. PICK w \in Nat : w = Wanted(l)
  BY <1>1, <1>4, AskedTypes
<1>7. PICK taken \in Nat : taken = Taken(l)
  BY <1>1, <1>4, AskedTypes
<1>8. PICK first \in Nat \ {0} : first = First(l)
  BY <1>1, <1>4, AskedTypes
<1>9. PICK hi \in Int : hi = taken + 1
  OBVIOUS
<1>10. PICK r : r = Rank(v, first, total)
  OBVIOUS
<1>11. r \in w + 1 .. hi /\ Run(t, "request", l, first, total, r, hi)
  <2>1. /\ s # <<>> /\ Kind(s[1]) = "request" /\ LinkOf(s[1]) = l /\ Value(s[1]) = v
        /\ Kind(t[1]) = "none" /\ Len(t) = Len(s) /\ \A j \in DOMAIN s : j # 1 => t[j] = s[j]
    BY DEF WordLanded
  <2>2. Run(s, "request", l, first, total, w, hi)
    BY <1>2, <1>4, <1>5, <1>6, <1>7, <1>8, <1>9 DEF ReceiverInv
  <2>3. \/ t = Tail(s)
        \/ (Kind(t[1]) = "none" /\ Len(t) = Len(s) /\ \A j \in DOMAIN s : j # 1 => t[j] = s[j])
    BY <2>1
  <2>4. s # <<>> /\ Kind(s[1]) = "request" /\ LinkOf(s[1]) = l /\ "request" # "none" /\ w \in Int
    BY <2>1
  <2>5. /\ Rank(Value(s[1]), first, total) \in w + 1 .. hi
        /\ Run(t, "request", l, first, total, Rank(Value(s[1]), first, total), hi)
    BY <2>2, <2>3, <2>4, RunHead
  <2> QED
    BY <1>10, <2>1, <2>5
<1>12. taken <= total /\ r <= taken + 1 /\ w < r /\ r \in Nat \ {0}
  <2>1. Taken(l) <= Total(l)
    BY <1>4 DEF ReceiverInv
  <2>2. r \in w + 1 .. hi /\ taken \in Nat /\ w \in Nat /\ hi = taken + 1
    BY <1>9, <1>11
  <2>3. taken <= total
    BY <1>5, <1>7, <2>1
  <2> QED
    BY <2>2, <2>3
\* The sender cannot be past the element: it has not been asked for all.
<1>13. ~Passed(l)
  <2> SUFFICES ASSUME Passed(l) PROVE FALSE
    OBVIOUS
  <2>1. request[l] = 0
    BY <1>1, <1>4 DEF LinkInv, PassedInv
  <2>2. w = total + 1
    BY <1>5, <1>6, <2>1 DEF Wanted
  <2> QED
    BY <1>5, <1>12, <2>2
<1>14. ~Active(l) => v # 0
  <2> SUFFICES ASSUME ~Active(l), v = 0 PROVE FALSE
    OBVIOUS
  <2>1. taken = 0
    BY <1>1, <1>4, <1>7, <1>13 DEF LinkInv, IdleInv
  <2>2. r = total + 1
    BY <1>10 DEF Rank
  <2> QED
    BY <1>12, <2>1, <2>2
<1>15. InElem(l)' = InElem(l) /\ \A p : Host(p)' <=> Host(p)
  BY <1>3 DEF InElem, Elements, Host
<1>16. (Zero(l)' <=> Zero(l)) /\ (Gets(l)' <=> Gets(l)) /\ (Fetches(l)' <=> Fetches(l))
  BY <1>15 DEF Zero, Gets, Fetches
<1>17. /\ Total(l)' = total /\ First(l)' = first /\ Taken(l)' = taken /\ Given(l)' = Given(l)
       /\ Asked(l)' /\ (Active(l)' <=> Active(l)) /\ ~Passed(l)'
  BY <1>3, <1>4, <1>5, <1>7, <1>8, <1>13, <1>15, <1>16
     DEF Total, First, Taken, Given, Asked, Active, Passed, OutDone
<1>18. Wanted(l)' = r
  BY <1>10, <1>14, <1>17 DEF Wanted, Rank
<1>19. ReceiverInv(l)'
  <2>1. PICK V : V = IF Zero(l) THEN {0, first} ELSE 0 .. total
    OBVIOUS
  <2>2. Valued(s, "request", l, V)
    BY <1>2, <1>4, <1>5, <1>8, <2>1 DEF ReceiverInv
  <2>3. Valued(t, "request", l, V)
    BY <1>2, <2>2, EmbedsRest DEF RequestKinds
  <2>4. v \in V
    BY <1>2, <2>2 DEF Valued, WordLanded
  <2>5. (request[l] = 0 \/ request[l] = First(l) \/ (~Zero(l) /\ request[l] <= Total(l)))'
    BY <1>5, <1>8, <1>16, <1>17, <2>1, <2>4
  <2>6. (Valued(RRing(l), "request", l, IF Zero(l) THEN {0, First(l)} ELSE 0 .. Total(l)))'
    BY <1>2, <1>16, <1>17, <2>1, <2>3
  <2>7. (Wanted(l) <= Taken(l) + 1 /\ Run(RRing(l), "request", l, First(l), Total(l), Wanted(l), Taken(l) + 1))'
    BY <1>2, <1>9, <1>11, <1>12, <1>17, <1>18
  <2>8. (IF Fetches(l)
       THEN /\ in[l].unpacked <= in[l].completed /\ in[l].completed <= in[l].taken
            /\ in[l].taken <= Total(l)
            /\ Run(RRing(l), "in", l, 1, Total(l), in[l].completed, in[l].taken)
            /\ Noted(RRing(l), "in", l, in[l].cur)
       ELSE Of(RRing(l), "in", l) = {})'
    <3>1. \A lo, up : Run(s, "in", l, 1, total, lo, up) => Run(t, "in", l, 1, total, lo, up)
      BY <1>2, EmbedsRun DEF RequestKinds
    <3>2. \A e : Noted(s, "in", l, e) => Noted(t, "in", l, e)
      BY <1>2, EmbedsRest DEF RequestKinds
    <3>3. Of(s, "in", l) = {} => Of(t, "in", l) = {}
      BY <1>2, EmbedsRest DEF RequestKinds
    <3> QED
      BY <1>2, <1>3, <1>4, <1>5, <1>16, <1>17, <3>1, <3>2, <3>3 DEF ReceiverInv
  <2>9. /\ (in[l].st \in (IF Zero(l) THEN {298, 299} ELSE IF Gets(l) THEN {303, 304}
                     ELSE IF Fetches(l) THEN {302, 299} ELSE {202, 299}))'
        /\ (in[l].st \in {299, 304} <=> Taken(l) = Total(l))' /\ (Taken(l) <= Total(l))' /\ Busy(in[l])'
    BY <1>3, <1>4, <1>5, <1>7, <1>16, <1>17 DEF ReceiverInv, Busy
  <2> QED
    BY <2>5, <2>6, <2>7, <2>8, <2>9 DEF ReceiverInv
<1>20. IdleInv(l) => IdleInv(l)'
  BY <1>2, <1>3, <1>7, <1>17 DEF IdleInv, Quiet
<1>21. ASSUME Active(l) PROVE ActiveInv(l)'
  <2>1. ActiveInv(l)
    BY <1>21, LinkFacts
  <2>2. Given(l) \in Nat /\ BPQ \in Nat
    BY <1>1, <1>4, AskedTypes, BpqAssumption
  <2>3. 1 <= r /\ (~Zero(l) => Given(l) <= r - 1 + BPQ)
    BY <1>6, <1>12, <2>1, <2>2 DEF ActiveInv
  <2>4. Busy(out[l])'
    BY <1>3, <2>1 DEF ActiveInv, Busy
  <2> QED
    BY <1>2, <1>3, <1>5, <1>7, <1>15, <1>16, <1>17, <1>18, <2>1, <2>3, <2>4 DEF ActiveInv
<1> QED
  BY <1>1, <1>4, <1>13, <1>17, <1>19, <1>20, <1>21 DEF LinkInv

\* DmaWord, with which the oldest request writes its word, keeps the invariant.
LEMMA DmaWordKeeps == ASSUME IInv, NEW p \in Proc, DmaWord(p) PROVE IInv'
<1>1. /\ dma[p] # <<>> /\ dma[p][1].copies = <<>> /\ dma[p][1].word # NoWord
      /\ StoreWord(dma[p][1].word)
      /\ UNCHANGED <<prog, pc, round, out, in, mem>>
      /\ dma' = [dma EXCEPT ![p][1].word = NoWord]
  BY DEF DmaWord
<1>2. PICK s \in Seq(DmaRequests) : s = dma[p]
  BY <1>1, Oldest
<1>3. /\ TypeInv /\ PlaceInv /\ s # <<>> /\ 1 \in DOMAIN s
      /\ dma \in [Proc -> Seq(DmaRequests)]
      /\ \A j \in DOMAIN s :
                  /\ RequestOf(p, s[j]) /\ (Kind(s[j]) = "none" => j = 1)
                  /\ CopiesAt(s[j], round, out, in)
  BY <1>1, <1>2, Oldest
<1>4. PICK x \in DmaRequests : x = s[1]
  BY <1>1, <1>2, Oldest
<1>5. RequestOf(p, x) /\ x.word # NoWord /\ x.copies = <<>> /\ StoreWord(x.word) /\ x.note = NoNote
  <2>1. RequestOf(p, x)
    BY <1>3, <1>4
  <2> QED
    BY <1>1, <1>2, <1>4, <2>1 DEF RequestOf
<1>6. PICK l \in Link, v \in Nat, k \in {"confirm", "request"} :
          /\ Kind(x) = k /\ LinkOf(x) = l /\ Value(x) = v /\ ~Self(l)
          /\ x.word.name = k /\ x.word.link = l /\ x.word.value = v
          /\ k = "confirm" => l[1] = p
          /\ k = "request" => l[2] = p
  <2>1. x.word \in [name : {"request", "confirm"}, link : Link, value : Nat]
    BY <1>5 DEF DmaRequests, Words
  <2>2. Kind(x) = x.word.name /\ LinkOf(x) = x.word.link /\ Value(x) = x.word.value
    BY <1>5 DEF Kind, LinkOf, Value, NoNote
  <2>3. Kind(x) \in {"confirm", "request"}
    BY <2>1, <2>2
  <2> QED
    BY <1>5, <2>1, <2>2, <2>3 DEF RequestOf
<1>7. PICK y : y = [x EXCEPT !.word = NoWord]
  OBVIOUS
<1>8. y \in DmaRequests /\ y.word = NoWord /\ y.note = NoNote /\ y.copies = <<>>
  BY <1>5, <1>7 DEF DmaRequests, Words
<1>9. Kind(y) = "none"
  BY <1>8 DEF Kind, NoNote, NoWord
<1>10. PICK t : t = [s EXCEPT ![1] = y]
  OBVIOUS
<1>11. /\ t \in Seq(DmaRequests) /\ Len(t) = Len(s) /\ DOMAIN t = DOMAIN s /\ t[1] = y
       /\ \A j \in DOMAIN s : j # 1 => t[j] = s[j]
  BY <1>3, <1>8, <1>10, ReplaceHead
<1>12. dma' = [dma EXCEPT ![p] = t]
  BY <1>1, <1>2, <1>3, <1>4, <1>7, <1>10
<1>13. WordLanded(p, s, t, k, l, v)
  BY <1>1, <1>2, <1>3, <1>4, <1>6, <1>9, <1>11, <1>12 DEF WordLanded
<1>14. /\ k = "confirm" => request' = request /\ confirm' = [confirm EXCEPT ![l] = v]
       /\ k = "request" => confirm' = confirm /\ request' = [request EXCEPT ![l] = v]
  BY <1>5, <1>6 DEF StoreWord
<1>15. /\ request' \in [Link -> Nat] /\ confirm' \in [Link -> Nat]
       /\ \A m \in Link \ {l} : request'[m] = request[m] /\ confirm'[m] = confirm[m]
       /\ k = "confirm" => request' = request /\ confirm'[l] = v
       /\ k = "request" => confirm' = confirm /\ request'[l] = v
  <2>1. request \in [Link -> Nat] /\ confirm \in [Link -> Nat]
    BY <1>3 DEF TypeInv
  <2> QED
    BY <1>6, <1>14, <2>1
<1>16. LinkInv(l)'
  <2>1. CASE k = "confirm"
    BY <1>6, <1>11, <1>13, <1>15, <2>1, ConfirmLands
  <2>2. CASE k = "request"
    BY <1>6, <1>11, <1>13, <1>15, <2>2, RequestLands
  <2> QED
    BY <2>1, <2>2
<1>17. /\ RequestOf(p, y) /\ CopiesAt(y, round, out, in)
  BY <1>8, <1>9 DEF RequestOf, CopiesAt
<1>18. \A j \in DOMAIN t : /\ RequestOf(p, t[j]) /\ (Kind(t[j]) = "none" => j = 1)
                           /\ CopiesAt(t[j], round, out, in)
  BY <1>3, <1>11, <1>17
<1>19. EngineStep(p, t, {l})
  <2>1. /\ out' \in [Link -> Queues] /\ in' \in [Link -> Queues]
        /\ out' = out /\ in' = in /\ DOMAIN mem' = DOMAIN mem
    BY <1>1, <1>3 DEF TypeInv
  <2>2. \A m \in Link : QueueInv(out'[m], m[1], m) /\ QueueInv(in'[m], m[2], m)
    BY <1>3, <2>1 DEF PlaceInv
  <2>3. \A m \in Link : Embeds(t, s, m)
    BY <1>11, <1>13, LandedRings
  <2> QED
    BY <1>1, <1>2, <1>6, <1>12, <1>15, <1>18, <2>1, <2>2, <2>3 DEF EngineStep
<1> QED
  BY <1>11, <1>16, <1>19, EngineFrame

\* Ring t of p is s without its oldest request, which notes v in a counter of the
\* queue k of link l.
Noticed(p, s, t, k, l, v) ==
    /\ dma[p] = s /\ s # <<>> /\ t = Tail(s) /\ dma' = [dma EXCEPT ![p] = t]
    /\ Kind(s[1]) = k /\ LinkOf(s[1]) = l /\ Value(s[1]) = v
    /\ UNCHANGED <<prog, pc, round, request, confirm, mem>>

\* Queue u is queue q with v noted.
Counted(u, q, v) ==
    /\ u.nElm = q.nElm /\ u.cur = q.cur /\ u.st = q.st /\ u.taken = q.taken
    /\ u.unpacked = q.unpacked /\ u.address = q.address /\ u.completed = v

\* The fields of that queue.
LEMMA QueueCounted ==
    ASSUME NEW q \in Queues, NEW v \in Nat, NEW u, u = [q EXCEPT !.completed = v]
    PROVE  u \in Queues /\ Counted(u, q, v)
  BY DEF Queues, Counted

\* What that keeps of the rings of a link.
LEMMA NoticedRings ==
    ASSUME IInv, NEW p \in Proc, NEW s \in Seq(DmaRequests), NEW t \in Seq(DmaRequests),
           NEW k, NEW l, NEW v, Noticed(p, s, t, k, l, v)
    PROVE  /\ \A m : Embeds(t, s, m)
           /\ dma'[p] = t /\ \A q \in Proc \ {p} : dma'[q] = dma[q]
           /\ 1 \in Of(s, k, l)
<1>1. \A m : Embeds(t, s, m)
  BY EmbedsTail DEF Noticed
<1>2. dma'[p] = t /\ \A q \in Proc \ {p} : dma'[q] = dma[q]
  <2>1. dma \in [Proc -> Seq(DmaRequests)]
    BY DEF IInv, TypeInv
  <2> QED
    BY <2>1 DEF Noticed
<1>3. 1 \in DOMAIN s
  BY DEF Noticed
<1>4. 1 \in Of(s, k, l)
  BY <1>3 DEF Of, Noticed
<1> QED
  BY <1>1, <1>2, <1>4

\* The oldest request of a run is noted.
LEMMA NoticedRun ==
    ASSUME NEW p \in Proc, NEW s \in Seq(DmaRequests), NEW t \in Seq(DmaRequests),
           NEW k \in {"in", "out"}, NEW l, NEW v \in Nat, Noticed(p, s, t, k, l, v),
           NEW total \in Nat, NEW lo \in Nat, NEW hi \in Int, hi <= total,
           Run(s, k, l, 1, total, lo, hi)
    PROVE  lo < v /\ v <= hi /\ Run(t, k, l, 1, total, v, hi)
<1>1. s # <<>> /\ t = Tail(s) /\ Kind(s[1]) = k /\ LinkOf(s[1]) = l /\ Value(s[1]) = v /\ k # "none"
  BY DEF Noticed
<1>2. \/ t = Tail(s)
      \/ (Kind(t[1]) = "none" /\ Len(t) = Len(s) /\ \A j \in DOMAIN s : j # 1 => t[j] = s[j])
  BY <1>1
<1>3. /\ Rank(Value(s[1]), 1, total) \in lo + 1 .. hi
      /\ Run(t, k, l, 1, total, Rank(Value(s[1]), 1, total), hi)
  <2>1. lo \in Int
    OBVIOUS
  <2> QED
    BY <1>1, <1>2, <2>1, RunHead
<1>4. Rank(v, 1, total) \in lo + 1 .. hi /\ Run(t, k, l, 1, total, Rank(v, 1, total), hi)
  BY <1>1, <1>3
<1>5. Rank(v, 1, total) = v
  BY <1>4 DEF Rank
<1> QED
  BY <1>4, <1>5

\* The sender's counter.
LEMMA OutCompletes ==
    ASSUME IInv, NEW l \in Link, ~Self(l), NEW s \in Seq(DmaRequests), NEW t \in Seq(DmaRequests),
           NEW v \in Nat, Noticed(l[1], s, t, "out", l, v),
           in' = in, Counted(out'[l], out[l], v)
    PROVE  LinkInv(l)'
<1>1. /\ TypeInv /\ PlaceInv /\ LinkInv(l) /\ l[1] \in Proc /\ l[2] \in Proc /\ l[1] # l[2]
  BY LinkFacts, LinkEnds
<1>2. /\ Embeds(t, s, l) /\ 1 \in Of(s, "out", l)
      /\ SRing(l) = s /\ SRing(l)' = t /\ RRing(l)' = RRing(l)
  <2>1. /\ \A m : Embeds(t, s, m)
        /\ dma'[l[1]] = t /\ \A q \in Proc \ {l[1]} : dma'[q] = dma[q]
        /\ 1 \in Of(s, "out", l)
    BY <1>1, NoticedRings
  <2>2. dma[l[1]] = s
    BY DEF Noticed
  <2> QED
    BY <1>1, <2>1, <2>2 DEF SRing, RRing
<1>3. UNCHANGED <<prog, pc, round, request, confirm, in>>
  BY DEF Noticed
<1>4. Asked(l) /\ Active(l) /\ ~Passed(l) /\ ActiveInv(l)
  <2>1. Asked(l) /\ ~IdleInv(l) /\ ~PassedInv(l)
    BY <1>1, <1>2 DEF LinkInv, RestInv, IdleInv, PassedInv, Quiet
  <2>2. Active(l)
    BY <1>1, <2>1 DEF LinkInv
  <2> QED
    BY <2>2, LinkFacts
<1>5. Zero(l)
  BY <1>2, <1>4 DEF ActiveInv
<1>6. /\ out'[l].nElm = out[l].nElm /\ out'[l].cur = out[l].cur /\ out'[l].st = out[l].st
      /\ out'[l].taken = out[l].taken /\ out'[l].address = out[l].address /\ out'[l].completed = v
  BY DEF Counted
<1>7. /\ Asked(l)' /\ InElem(l)' = InElem(l)
      /\ (Zero(l)' <=> Zero(l)) /\ (Host(l[1])' <=> Host(l[1]))
      /\ First(l)' = First(l) /\ Total(l)' = Total(l)
      /\ Taken(l)' = Taken(l) /\ Wanted(l)' = Wanted(l)
      /\ ReceiverInv(l)'
  <2>1. (Active(l) \/ Passed(l))' <=> (Active(l) \/ Passed(l))
    BY <1>3, <1>6 DEF Active, Passed, OutDone
  <2>2. request'[l] = request[l] /\ in'[l] = in[l]
    BY <1>3
  <2> QED
    BY <1>2, <1>3, <1>4, <2>1, <2>2, ReceiverKept
<1>8. PICK frags \in Nat \ {0} : frags = InElem(l).frags
  BY <1>1, <1>4, AskedTypes
<1>9. PICK taken \in Nat : taken = out[l].taken
  BY <1>1, QueueTypes
<1>10. PICK done \in Nat : done = out[l].completed
  BY <1>1, QueueTypes
<1>11. PICK hi \in Int : hi = IF out[l].st = 201 THEN taken ELSE taken - 1
  OBVIOUS
<1>12. /\ done <= taken /\ taken - done <= BPQ /\ taken <= frags
       /\ out[l].st = 201 => taken < frags
       /\ Run(s, "out", l, 1, frags, done, hi)
  BY <1>2, <1>4, <1>5, <1>8, <1>9, <1>10, <1>11 DEF ActiveInv
<1>13. hi <= frags /\ hi <= taken
  BY <1>11, <1>12
<1>14. done < v /\ v <= hi /\ Run(t, "out", l, 1, frags, v, hi)
  BY <1>1, <1>12, <1>13, NoticedRun
<1>15. v <= taken /\ taken - v <= BPQ
  BY <1>12, <1>13, <1>14, BpqAssumption
<1>16. Given(l)' = Given(l) /\ Busy(out[l])' /\ Active(l)' /\ ~Passed(l)'
  BY <1>3, <1>4, <1>6, <1>7 DEF Given, ActiveInv, Busy, Active, Passed, OutDone
<1>17. \A lo, up, total : Run(s, "confirm", l, 1, total, lo, up) => Run(t, "confirm", l, 1, total, lo, up)
  BY <1>2, EmbedsRun DEF RequestKinds
<1>18. /\ Before(s, "out", "confirm", l) => Before(t, "out", "confirm", l)
       /\ \A e : Noted(s, "out", l, e) => Noted(t, "out", l, e)
       /\ Of(s, "out", l) = {} => Of(t, "out", l) = {}
  BY <1>2, EmbedsRest DEF RequestKinds
<1>19. (/\ out[l].completed <= out[l].taken /\ out[l].taken - out[l].completed <= BPQ
        /\ out[l].st = 201 => /\ out[l].taken < InElem(l).frags
                              /\ out[l].address = Address(round[l[2]], in[l].cur)
        /\ out[l].taken <= InElem(l).frags
        /\ Run(SRing(l), "out", l, 1, InElem(l).frags, out[l].completed,
               IF out[l].st = 201 THEN out[l].taken ELSE out[l].taken - 1)
        /\ Before(SRing(l), "out", "confirm", l)
        /\ Noted(SRing(l), "out", l, out[l].cur)
        /\ confirm[l] # 0 => Of(SRing(l), "out", l) = {})'
  <2>1. (out[l].completed <= out[l].taken /\ out[l].taken - out[l].completed <= BPQ)'
    BY <1>6, <1>9, <1>15
  <2>2. (out[l].st = 201 => /\ out[l].taken < InElem(l).frags
                            /\ out[l].address = Address(round[l[2]], in[l].cur))'
    BY <1>3, <1>4, <1>5, <1>6, <1>7 DEF ActiveInv
  <2>3. (out[l].taken <= InElem(l).frags)'
    BY <1>6, <1>7, <1>8, <1>9, <1>12
  <2>4. (Run(SRing(l), "out", l, 1, InElem(l).frags, out[l].completed,
               IF out[l].st = 201 THEN out[l].taken ELSE out[l].taken - 1))'
    BY <1>2, <1>6, <1>7, <1>8, <1>9, <1>11, <1>14
  <2>5. (/\ Before(SRing(l), "out", "confirm", l)
         /\ Noted(SRing(l), "out", l, out[l].cur)
         /\ confirm[l] # 0 => Of(SRing(l), "out", l) = {})'
    BY <1>2, <1>3, <1>4, <1>5, <1>6, <1>18 DEF ActiveInv
  <2> QED
    BY <2>1, <2>2, <2>3, <2>4, <2>5
<1>20. ActiveInv(l)'
  BY <1>2, <1>3, <1>4, <1>5, <1>6, <1>7, <1>16, <1>17, <1>19 DEF ActiveInv
<1> QED
  BY <1>7, <1>16, <1>20 DEF LinkInv

\* The receiver's counter.
LEMMA InCompletes ==
    ASSUME IInv, NEW l \in Link, ~Self(l), NEW s \in Seq(DmaRequests), NEW t \in Seq(DmaRequests),
           NEW v \in Nat, Noticed(l[2], s, t, "in", l, v),
           out' = out, Counted(in'[l], in[l], v)
    PROVE  LinkInv(l)'
<1>1. /\ TypeInv /\ PlaceInv /\ LinkInv(l) /\ l[1] \in Proc /\ l[2] \in Proc /\ l[1] # l[2]
  BY LinkFacts, LinkEnds
<1>2. /\ Embeds(t, s, l) /\ 1 \in Of(s, "in", l)
      /\ RRing(l) = s /\ RRing(l)' = t /\ SRing(l)' = SRing(l)
  <2>1. /\ \A m : Embeds(t, s, m)
        /\ dma'[l[2]] = t /\ \A q \in Proc \ {l[2]} : dma'[q] = dma[q]
        /\ 1 \in Of(s, "in", l)
    BY <1>1, NoticedRings
  <2>2. dma[l[2]] = s
    BY DEF Noticed
  <2> QED
    BY <1>1, <2>1, <2>2 DEF SRing, RRing
<1>3. UNCHANGED <<prog, pc, round, request, confirm, out>>
  BY DEF Noticed
<1>4. Asked(l) /\ ReceiverInv(l)
  BY <1>1, <1>2 DEF LinkInv, RestInv
<1>5. Fetches(l)
  BY <1>2, <1>4 DEF ReceiverInv
<1>6. /\ in'[l].nElm = in[l].nElm /\ in'[l].cur = in[l].cur /\ in'[l].st = in[l].st
      /\ in'[l].taken = in[l].taken /\ in'[l].unpacked = in[l].unpacked /\ in'[l].completed = v
  BY DEF Counted
<1>7. PICK total \in Nat \ {0} : total = Total(l)
  BY <1>1, <1>4, AskedTypes
<1>8. PICK taken \in Nat : taken = in[l].taken
  BY <1>1, QueueTypes
<1>9. PICK done \in Nat : done = in[l].completed
  BY <1>1, QueueTypes
<1>10. PICK unpacked \in Nat : unpacked = in[l].unpacked
  BY <1>1, QueueTypes
<1>11. unpacked <= done /\ done <= taken /\ taken <= total /\ Run(s, "in", l, 1, total, done, taken)
  BY <1>2, <1>4, <1>5, <1>7, <1>8, <1>9, <1>10 DEF ReceiverInv
<1>12. done < v /\ v <= taken /\ Run(t, "in", l, 1, total, v, taken)
  <2>1. taken \in Int
    OBVIOUS
  <2> QED
    BY <1>1, <1>11, <2>1, NoticedRun
<1>13. unpacked <= v
  BY <1>11, <1>12
<1>14. InElem(l)' = InElem(l) /\ \A p : Host(p)' <=> Host(p)
  BY <1>3, <1>6 DEF InElem, Elements, Host
<1>15. (Zero(l)' <=> Zero(l)) /\ (Gets(l)' <=> Gets(l)) /\ (Fetches(l)' <=> Fetches(l))
  BY <1>14 DEF Zero, Gets, Fetches
<1>16. /\ Total(l)' = Total(l) /\ First(l)' = First(l) /\ Taken(l)' = Taken(l) /\ Given(l)' = Given(l)
       /\ Asked(l)' /\ (Active(l)' <=> Active(l)) /\ (Passed(l)' <=> Passed(l))
  BY <1>3, <1>4, <1>6, <1>14, <1>15
     DEF Total, First, Taken, Given, Asked, Active, Passed, OutDone
<1>17. Wanted(l)' = Wanted(l)
  BY <1>3, <1>16 DEF Wanted
<1>18. /\ \A first, lo, up : Run(s, "request", l, first, total, lo, up) => Run(t, "request", l, first, total, lo, up)
       /\ \A V : Valued(s, "request", l, V) => Valued(t, "request", l, V)
       /\ \A e : Noted(s, "in", l, e) => Noted(t, "in", l, e)
  <2>1. "request" \in RequestKinds /\ "in" \in RequestKinds
    BY DEF RequestKinds
  <2>2. \A V : Valued(s, "request", l, V) => Valued(t, "request", l, V)
    BY <1>2, <2>1, EmbedsRest
  <2>3. \A e : Noted(s, "in", l, e) => Noted(t, "in", l, e)
    BY <1>2, <2>1, EmbedsRest
  <2> QED
    BY <1>2, <2>1, <2>2, <2>3, EmbedsRun
<1>19. ReceiverInv(l)'
  <2>1. (/\ in[l].unpacked <= in[l].completed /\ in[l].completed <= in[l].taken
         /\ in[l].taken <= Total(l)
         /\ Run(RRing(l), "in", l, 1, Total(l), in[l].completed, in[l].taken)
         /\ Noted(RRing(l), "in", l, in[l].cur))'
    <3>1. Noted(s, "in", l, in[l].cur)
      BY <1>2, <1>4, <1>5 DEF ReceiverInv
    <3>2. Noted(t, "in", l, in'[l].cur)
      BY <1>6, <1>18, <3>1
    <3> QED
      BY <1>2, <1>6, <1>7, <1>8, <1>10, <1>11, <1>12, <1>13, <1>16, <3>2
  <2>2. /\ Busy(in[l])' /\ request'[l] = request[l]
        /\ (Wanted(l) <= Taken(l) + 1)' /\ (Taken(l) <= Total(l))'
        /\ (in[l].st \in {299, 304} <=> Taken(l) = Total(l))'
    BY <1>3, <1>4, <1>6, <1>16, <1>17 DEF ReceiverInv, Busy
  <2>3. (/\ Run(RRing(l), "request", l, First(l), Total(l), Wanted(l), Taken(l) + 1)
         /\ Valued(RRing(l), "request", l, IF Zero(l) THEN {0, First(l)} ELSE 0 .. Total(l)))'
    <3>1. /\ Run(s, "request", l, First(l), total, Wanted(l), Taken(l) + 1)
          /\ Valued(s, "request", l, IF Zero(l) THEN {0, First(l)} ELSE 0 .. Total(l))
      BY <1>2, <1>4, <1>7 DEF ReceiverInv
    <3>2. /\ Run(t, "request", l, First(l), total, Wanted(l), Taken(l) + 1)
          /\ Valued(t, "request", l, IF Zero(l) THEN {0, First(l)} ELSE 0 .. Total(l))
      BY <1>18, <3>1
    <3> QED
      BY <1>2, <1>7, <1>15, <1>16, <1>17, <3>2
  <2>4. (in[l].st \in (IF Zero(l) THEN {298, 299} ELSE IF Gets(l) THEN {303, 304}
                     ELSE IF Fetches(l) THEN {302, 299} ELSE {202, 299}))'
    BY <1>4, <1>6, <1>15 DEF ReceiverInv
  <2>5. (request[l] = 0 \/ request[l] = First(l) \/ (~Zero(l) /\ request[l] <= Total(l)))'
    BY <1>3, <1>4, <1>15, <1>16 DEF ReceiverInv
  <2> QED
    BY <1>5, <1>15, <2>1, <2>2, <2>3, <2>4, <2>5 DEF ReceiverInv
<1>20. ~IdleInv(l)
  <2> SUFFICES ASSUME IdleInv(l) PROVE FALSE
    OBVIOUS
  <2>1. taken = 0
    BY <1>8 DEF IdleInv, Rested
  <2> QED
    BY <1>12, <2>1
<1>21. PassedInv(l) => PassedInv(l)'
  BY <1>2, <1>3, <1>16 DEF PassedInv
<1>22. ActiveInv(l) => ActiveInv(l)'
  <2> SUFFICES ASSUME ActiveInv(l) PROVE ActiveInv(l)'
    OBVIOUS
  <2>1. Busy(out[l])'
    BY <1>3 DEF ActiveInv, Busy
  <2> QED
    BY <1>2, <1>3, <1>6, <1>14, <1>15, <1>16, <1>17, <2>1 DEF ActiveInv
<1> QED
  BY <1>1, <1>4, <1>16, <1>19, <1>20, <1>21, <1>22 DEF LinkInv

\* The step of an engine that completes its oldest request, of kind k.
CompleteStep(p, s, t, k) ==
    /\ dma[p] = s /\ s # <<>> /\ t = Tail(s) /\ dma' = [dma EXCEPT ![p] = t]
    /\ Kind(s[1]) = k
    /\ UNCHANGED <<prog, pc, round, request, confirm, mem>>

\* The ring without its oldest request is a ring.
LEMMA RingTail ==
    ASSUME IInv, NEW p \in Proc, NEW s \in Seq(DmaRequests), NEW t \in Seq(DmaRequests),
           NEW k, CompleteStep(p, s, t, k)
    PROVE  /\ \A m : Embeds(t, s, m)
           /\ \A j \in DOMAIN t : /\ RequestOf(p, t[j]) /\ (Kind(t[j]) = "none" => j = 1)
                                  /\ CopiesAt(t[j], round, out, in)
           /\ dma[p] # <<>>
<1>1. dma[p] = s /\ s # <<>> /\ t = Tail(s)
  BY DEF CompleteStep
<1>2. \A m : Embeds(t, s, m)
  BY <1>1, EmbedsTail
<1>3. \A j \in DOMAIN s : /\ RequestOf(p, s[j]) /\ (Kind(s[j]) = "none" => j = 1)
                          /\ CopiesAt(s[j], round, out, in)
  BY <1>1, Oldest
<1>4. \A j \in DOMAIN t : j + 1 \in DOMAIN s /\ t[j] = s[j + 1] /\ j + 1 # 1
  BY <1>1
<1> QED
  BY <1>1, <1>2, <1>3, <1>4

\* A request without note is completed.
LEMMA CompleteNone ==
    ASSUME IInv, NEW p \in Proc, NEW s \in Seq(DmaRequests), NEW t \in Seq(DmaRequests),
           CompleteStep(p, s, t, "none"), out' = out, in' = in
    PROVE  IInv'
<1>1. TypeInv /\ PlaceInv
  BY DEF IInv
<1>2. UNCHANGED <<prog, pc, round, request, confirm, mem>> /\ dma[p] = s /\ dma' = [dma EXCEPT ![p] = t]
  BY DEF CompleteStep
<1>3. /\ out' \in [Link -> Queues] /\ in' \in [Link -> Queues]
      /\ request' \in [Link -> Nat] /\ confirm' \in [Link -> Nat]
  BY <1>1, <1>2 DEF TypeInv
<1>4. \A m \in Link : QueueInv(out'[m], m[1], m) /\ QueueInv(in'[m], m[2], m)
  BY <1>1 DEF PlaceInv
<1>5. EngineStep(p, t, {})
  BY <1>2, <1>3, <1>4, RingTail DEF EngineStep
<1> QED
  BY <1>5, EngineFrame

\* A request with a note is completed.
LEMMA CompleteNoted ==
    ASSUME IInv, NEW p \in Proc, NEW s \in Seq(DmaRequests), NEW t \in Seq(DmaRequests),
           NEW k \in {"out", "in"}, NEW l \in Link, ~Self(l), NEW v \in Nat,
           CompleteStep(p, s, t, k), LinkOf(s[1]) = l, Value(s[1]) = v,
           k = "out" => l[1] = p /\ in' = in /\ out' = [out EXCEPT ![l].completed = v],
           k = "in" => l[2] = p /\ out' = out /\ in' = [in EXCEPT ![l].completed = v]
    PROVE  IInv'
<1>1. TypeInv /\ PlaceInv /\ Asked(l)
  <2>1. TypeInv /\ PlaceInv /\ LinkInv(l)
    BY LinkFacts
  <2>2. 1 \in DOMAIN s /\ Kind(s[1]) = k /\ dma[p] = s
    BY DEF CompleteStep
  <2>3. 1 \in Of(s, k, l)
    BY <2>2 DEF Of
  <2> QED
    BY <2>1, <2>2, <2>3 DEF LinkInv, RestInv, Quiet, SRing, RRing
<1>2. UNCHANGED <<prog, pc, round, request, confirm, mem>> /\ dma[p] = s /\ dma' = [dma EXCEPT ![p] = t]
  BY DEF CompleteStep
<1>3. Noticed(p, s, t, k, l, v)
  BY DEF CompleteStep, Noticed
<1>4. /\ out \in [Link -> Queues] /\ in \in [Link -> Queues] /\ out[l] \in Queues /\ in[l] \in Queues
      /\ request' \in [Link -> Nat] /\ confirm' \in [Link -> Nat]
  BY <1>1, <1>2 DEF TypeInv
<1>5. \A m \in Link : QueueInv(out[m], m[1], m) /\ QueueInv(in[m], m[2], m)
  BY <1>1 DEF PlaceInv
<1>6. CASE k = "out"
  <2>1. in' = in /\ out' = [out EXCEPT ![l].completed = v] /\ l[1] = p
    BY <1>6
  <2>2. out'[l] = [out[l] EXCEPT !.completed = v] /\ \A m \in Link \ {l} : out'[m] = out[m]
    BY <1>4, <2>1
  <2>3. out'[l] \in Queues /\ Counted(out'[l], out[l], v)
    BY <1>4, <2>2, QueueCounted
  <2>4. out' \in [Link -> Queues]
    BY <1>4, <2>1, <2>2, <2>3
  <2>5. LinkInv(l)'
    BY <1>3, <1>6, <2>1, <2>3, OutCompletes
  <2>6. QueueInv(out'[l], l[1], l)
    <3>1. out[l].st # 0
      <4>1. LinkInv(l)
        BY LinkFacts
      <4>2. 1 \in DOMAIN s /\ Kind(s[1]) = k
        BY DEF CompleteStep
      <4>3. 1 \in Of(SRing(l), "out", l)
        BY <1>2, <1>6, <2>1, <4>2 DEF Of, SRing
      <4> QED
        BY <1>1, <4>1, <4>3 DEF LinkInv, IdleInv, PassedInv, Quiet, Active
    <3> QED
      BY <1>5, <2>3, <3>1 DEF QueueInv, Counted, Busy
  <2>7. \A m \in Link : /\ out'[m].cur = out[m].cur
                        /\ QueueInv(out'[m], m[1], m) /\ QueueInv(in'[m], m[2], m)
    BY <1>5, <2>1, <2>2, <2>3, <2>6 DEF Counted
  <2>8. EngineStep(p, t, {l})
    BY <1>2, <1>4, <2>1, <2>2, <2>4, <2>7, RingTail DEF EngineStep
  <2> QED
    BY <2>5, <2>8, EngineFrame
<1>7. CASE k = "in"
  <2>1. out' = out /\ in' = [in EXCEPT ![l].completed = v] /\ l[2] = p
    BY <1>7
  <2>2. in'[l] = [in[l] EXCEPT !.completed = v] /\ \A m \in Link \ {l} : in'[m] = in[m]
    BY <1>4, <2>1
  <2>3. in'[l] \in Queues /\ Counted(in'[l], in[l], v)
    BY <1>4, <2>2, QueueCounted
  <2>4. in' \in [Link -> Queues]
    BY <1>4, <2>1, <2>2, <2>3
  <2>5. LinkInv(l)'
    BY <1>3, <1>7, <2>1, <2>3, InCompletes
  <2>6. QueueInv(in'[l], l[2], l)
    BY <1>1, <1>5, <2>3 DEF QueueInv, Counted, Busy, Asked
  <2>7. \A m \in Link : /\ in'[m].cur = in[m].cur /\ in'[m].st = in[m].st
                        /\ QueueInv(out'[m], m[1], m) /\ QueueInv(in'[m], m[2], m)
    BY <1>5, <2>1, <2>2, <2>3, <2>6 DEF Counted
  <2>8. EngineStep(p, t, {l})
    BY <1>2, <1>4, <2>1, <2>2, <2>4, <2>7, RingTail DEF EngineStep
  <2> QED
    BY <2>5, <2>8, EngineFrame
<1> QED
  BY <1>6, <1>7

\* DmaComplete, the interrupt that notes and drops the oldest request, keeps the invariant.
LEMMA DmaCompleteKeeps == ASSUME IInv, NEW p \in Proc, DmaComplete(p) PROVE IInv'
<1>1. /\ dma[p] # <<>> /\ dma[p][1].copies = <<>> /\ dma[p][1].word = NoWord
      /\ UNCHANGED <<prog, pc, round, request, confirm, mem>>
      /\ dma' = [dma EXCEPT ![p] = Tail(@)]
  BY DEF DmaComplete
<1>2. PICK s \in Seq(DmaRequests) : s = dma[p]
  BY <1>1, Oldest
<1>3. /\ TypeInv /\ s # <<>> /\ 1 \in DOMAIN s /\ dma \in [Proc -> Seq(DmaRequests)]
  BY <1>1, <1>2, Oldest
<1>4. PICK x \in DmaRequests : x = s[1]
  BY <1>1, <1>2, Oldest
<1>5. RequestOf(p, x) /\ x.word = NoWord
  BY <1>1, <1>2, <1>4, Oldest
<1>6. PICK t \in Seq(DmaRequests) : t = Tail(s)
  <2>1. Tail(s) \in Seq(DmaRequests)
    BY <1>3
  <2> QED
    BY <2>1
<1>7. dma' = [dma EXCEPT ![p] = t]
  BY <1>1, <1>2, <1>3, <1>6
<1>8. CompleteStep(p, s, t, Kind(x))
  BY <1>1, <1>2, <1>3, <1>4, <1>6, <1>7 DEF CompleteStep
<1>9. /\ out' = IF x.note.queue = "out" THEN [out EXCEPT ![x.note.link].completed = x.note.value] ELSE out
      /\ in' = IF x.note.queue = "in" THEN [in EXCEPT ![x.note.link].completed = x.note.value] ELSE in
  BY <1>2, <1>4 DEF DmaComplete
<1>10. Kind(x) = x.note.queue /\ Kind(x) \in {"none", "out", "in"}
  BY <1>4, <1>5 DEF DmaRequests, Notes, Kind, NoNote, NoWord
<1>11. CASE Kind(x) = "none"
  BY <1>8, <1>9, <1>10, <1>11, CompleteNone
<1>12. CASE Kind(x) \in {"out", "in"}
  <2>1. PICK l \in Link, v \in Nat, k \in {"out", "in"} :
            /\ l = LinkOf(x) /\ v = Value(x) /\ k = Kind(x) /\ ~Self(l)
            /\ x.note.link = l /\ x.note.value = v /\ x.note.queue = k
            /\ k = "out" => l[1] = p
            /\ k = "in" => l[2] = p
    <3>1. x.word = NoWord \/ x.note = NoNote
      BY <1>5
    <3>2. /\ LinkOf(x) \in Link /\ Value(x) \in Nat
          /\ x.note.link = LinkOf(x) /\ x.note.value = Value(x) /\ x.note.queue = Kind(x)
      BY <1>12, <3>1, KindOf
    <3> QED
      BY <1>5, <1>12, <3>2 DEF RequestOf
  <2>2. /\ k = "out" => l[1] = p /\ in' = in /\ out' = [out EXCEPT ![l].completed = v]
        /\ k = "in" => l[2] = p /\ out' = out /\ in' = [in EXCEPT ![l].completed = v]
    BY <1>9, <2>1
  <2>3. CompleteStep(p, s, t, k) /\ LinkOf(s[1]) = l /\ Value(s[1]) = v
    BY <1>4, <1>8, <2>1
  <2> QED
    BY <2>1, <2>2, <2>3, CompleteNoted
<1> QED
  BY <1>10, <1>11, <1>12

\* The initial states satisfy the invariant.
LEMMA InitInv == ASSUME Init PROVE IInv
<1>1. /\ prog \in Programs
      /\ pc = [p \in Proc |-> IF p \in prog.procs THEN "register" ELSE "done"]
      /\ round = [p \in Proc |-> IF p \in prog.procs THEN 1 ELSE Len(prog.fences) + 1]
      /\ out = [l \in Link |-> EmptyQueue] /\ in = [l \in Link |-> EmptyQueue]
      /\ request = [l \in Link |-> 0] /\ confirm = [l \in Link |-> 0]
      /\ DOMAIN mem = Cells(prog.fences)
      /\ dma = [p \in Proc |-> <<>>]
  BY DEF Init
<1>2. /\ prog.fences \in Seq([Link -> Seq(Elem)]) /\ prog.fences # <<>>
      /\ \A r \in DOMAIN prog.fences : \A l \in Link :
             prog.fences[r][l] # <<>> => {l[1], l[2]} \subseteq prog.procs
  BY <1>1, ProgramAssumption
<1>3. Len(prog.fences) \in Nat \ {0} /\ 1 \in DOMAIN prog.fences
  BY <1>2
<1>4. /\ EmptyQueue \in Queues /\ EmptyQueue.st = 0 /\ EmptyQueue.cur = 1 /\ EmptyQueue.nElm = 0
      /\ Rested(EmptyQueue)
  BY DEF Queues, EmptyQueue, Rested, States
<1>5. TypeInv
  <2>1. <<>> \in Seq(DmaRequests)
    OBVIOUS
  <2>2. dma \in [Proc -> Seq(DmaRequests)]
    BY <1>1, <2>1
  <2>3. round \in [Proc -> 1 .. Len(prog.fences) + 1]
    BY <1>1, <1>3
  <2>4. pc \in [Proc -> {"register", "fence", "drain", "done"}]
    BY <1>1
  <2>5. out \in [Link -> Queues] /\ in \in [Link -> Queues]
    BY <1>1, <1>4
  <2>6. request \in [Link -> Nat] /\ confirm \in [Link -> Nat]
    BY <1>1
  <2> QED
    BY <1>1, <2>2, <2>3, <2>4, <2>5, <2>6 DEF TypeInv
<1>6. PlaceInv
  <2>1. \A p \in Proc : pc[p] = "done" <=> round[p] = Len(prog.fences) + 1
    BY <1>1, <1>3
  <2>2. ASSUME NEW l \in Link, NEW p \in Proc PROVE QueueInv(EmptyQueue, p, l)
    <3>1. pc[p] = "register" => round[p] = 1
      BY <1>1
    <3>2. prog.fences[1][l] \in Seq(Elem)
      BY <1>3, <1>5, ElementTypes
    <3>3. pc[p] \in {"register", "done"}
      BY <1>1
    <3> QED
      BY <1>4, <3>1, <3>2, <3>3 DEF QueueInv, Elements
  <2> QED
    BY <1>1, <2>1, <2>2, LinkEnds DEF PlaceInv
<1>7. ASSUME NEW p \in Proc PROVE RingInv(p)
  BY <1>1 DEF RingInv
<1>8. ASSUME NEW l \in Link PROVE LinkInv(l) /\ OrderInv(l) /\ SelfInv(l)
  <2>1. l[1] \in Proc /\ l[2] \in Proc
    BY LinkEnds
  <2>2. in[l] = EmptyQueue /\ out[l] = EmptyQueue /\ request[l] = 0 /\ confirm[l] = 0
        /\ SRing(l) = <<>> /\ RRing(l) = <<>>
    BY <1>1, <2>1 DEF SRing, RRing
  <2>3. \A k : Of(SRing(l), k, l) = {} /\ Of(RRing(l), k, l) = {}
    BY <2>2 DEF Of
  <2>4. LinkInv(l)
    BY <1>4, <2>2, <2>3 DEF LinkInv, Asked, Active, RestInv, Quiet
  <2>5. ASSUME NEW r \in DOMAIN prog.fences, NEW e \in DOMAIN prog.fences[r][l]
        PROVE  ~InDone(l, r, e) /\ ~OutDone(l, r, e)
    <3>1. prog.fences[r][l] \in Seq(Elem) /\ r \in Nat \ {0} /\ e \in Nat \ {0}
      BY <1>5, ElementTypes
    <3>2. prog.fences[r][l] # <<>>
      BY <3>1
    <3>3. l[1] \in prog.procs /\ l[2] \in prog.procs
      BY <1>2, <3>2
    <3>4. round[l[1]] = 1 /\ round[l[2]] = 1 /\ pc[l[1]] = "register" /\ pc[l[2]] = "register"
      BY <1>1, <2>1, <3>3
    <3> QED
      BY <1>4, <2>2, <3>1, <3>4 DEF InDone, OutDone
  <2>6. OrderInv(l)
    BY <2>5 DEF OrderInv
  <2> QED
    BY <1>4, <2>2, <2>4, <2>6 DEF SelfInv
<1> QED
  BY <1>5, <1>6, <1>7, <1>8 DEF IInv

\* A call of emb_process_outgoing keeps the invariant.
LEMMA OutStepKeeps == ASSUME IInv, NEW l \in Link, OutStep(l) PROVE IInv'
<1>1. CASE SelfPack(l)
  BY <1>1, SelfPackKeeps
<1>2. CASE SelfUnpack(l)
  BY <1>2, SelfUnpackKeeps
<1>3. CASE PutPacked(l)
  <2>1. ~Self(l)
    BY <1>3, SelfCalls DEF PutPacked
  <2> QED
    BY <1>3, <2>1, PutPackedKeeps
<1>4. CASE PutBuffer(l)
  <2>1. ~Self(l)
    BY <1>4, SelfCalls DEF PutBuffer
  <2> QED
    BY <1>4, <2>1, PutBufferKeeps
<1>5. CASE PutDirect(l)
  <2>1. ~Self(l)
    BY <1>5, SelfCalls DEF PutDirect
  <2> QED
    BY <1>5, <2>1, PutDirectKeeps
<1>6. CASE PutZeroCopy(l)
  <2>1. ~Self(l)
    BY <1>6, SelfCalls DEF PutZeroCopy
  <2> QED
    BY <1>6, <2>1, PutZeroCopyKeeps
<1>7. CASE HostPack(l)
  <2>1. ~Self(l)
    BY <1>7, SelfCalls DEF HostPack
  <2> QED
    BY <1>7, <2>1, HostPackKeeps
<1>8. CASE OutFinish(l)
  <2>1. ~Self(l)
    BY <1>8, SelfCalls DEF OutFinish
  <2> QED
    BY <1>8, <2>1, OutFinishKeeps
<1> QED
  BY <1>1, <1>2, <1>3, <1>4, <1>5, <1>6, <1>7, <1>8 DEF OutStep

\* A call of emb_process_incoming keeps the invariant.
LEMMA InStepKeeps == ASSUME IInv, NEW l \in Link, InStep(l) PROVE IInv'
<1>1. CASE SelfSkip(l)
  BY <1>1, SelfSkipKeeps
<1>2. CASE PostRequest(l)
  <2>1. ~Self(l)
    BY <1>2, SelfCalls DEF PostRequest
  <2> QED
    BY <1>2, <2>1, PostRequestKeeps
<1>3. CASE UnpackPut(l)
  <2>1. ~Self(l)
    BY <1>3, SelfCalls DEF UnpackPut
  <2> QED
    BY <1>3, <2>1, UnpackPutKeeps
<1>4. CASE PutArrived(l)
  <2>1. ~Self(l)
    BY <1>4, SelfCalls DEF PutArrived
  <2> QED
    BY <1>4, <2>1, PutArrivedKeeps
<1>5. CASE GetAndUnpack(l)
  <2>1. ~Self(l)
    BY <1>5, SelfCalls DEF GetAndUnpack
  <2> QED
    BY <1>5, <2>1, GetAndUnpackKeeps
<1>6. CASE GetToUser(l)
  <2>1. ~Self(l)
    BY <1>6, SelfCalls DEF GetToUser
  <2> QED
    BY <1>6, <2>1, GetToUserKeeps
<1>7. CASE InFinish(l)
  <2>1. ~Self(l)
    BY <1>7, SelfCalls DEF InFinish
  <2> QED
    BY <1>7, <2>1, InFinishKeeps
<1> QED
  BY <1>1, <1>2, <1>3, <1>4, <1>5, <1>6, <1>7 DEF InStep

\* Every step keeps the invariant.
LEMMA NextInv == ASSUME IInv, [Next]_vars PROVE IInv'
<1>1. CASE UNCHANGED vars
  <2>1. UNCHANGED <<prog, pc, round, out, in, request, confirm, mem, dma>>
    BY <1>1 DEF vars
  <2>2. TypeInv'
    BY <2>1 DEF IInv, TypeInv, DmaRequests, CopySet
  <2>3. PlaceInv'
    BY <2>1 DEF IInv, PlaceInv, QueueInv, Elements
  <2>4. \A p \in Proc : RingInv(p)'
    BY <2>1 DEF IInv, RingInv, Host
  <2>5. ASSUME NEW l \in Link, ~Self(l) PROVE LinkInv(l)' /\ OrderInv(l)'
    <3>1. TypeInv /\ PlaceInv /\ LinkInv(l) /\ OrderInv(l)
      BY <2>5, LinkFacts
    <3>2. \A q \in Proc : Embeds(dma'[q], dma[q], l)
      BY <2>1, <3>1, EmbedsSelf DEF TypeInv
    <3> QED
      BY <2>1, <2>2, <3>1, <3>2, OtherLinks
  <2>6. ASSUME NEW l \in Link, Self(l) PROVE SelfInv(l)'
    BY <2>1, <2>6 DEF IInv, SelfInv
  <2> QED
    BY <2>2, <2>3, <2>4, <2>5, <2>6 DEF IInv, Self
<1>2. ASSUME NEW p \in Proc, NEW q \in Proc,
             EmbSend(<<p, q>>) \/ EmbRecv(<<q, p>>) \/ OutStep(<<p, q>>) \/ InStep(<<q, p>>)
      PROVE  IInv'
  <2>1. PICK l \in Link : l = <<p, q>>
    BY DEF Link
  <2>2. PICK m \in Link : m = <<q, p>>
    BY DEF Link
  <2>3. EmbSend(l) \/ EmbRecv(m) \/ OutStep(l) \/ InStep(m)
    BY <1>2, <2>1, <2>2
  <2> QED
    BY <2>3, EmbSendKeeps, EmbRecvKeeps, OutStepKeeps, InStepKeeps
<1>3. ASSUME NEW p \in Proc, ProcStep(p) PROVE IInv'
  BY <1>2, <1>3, EnterFenceKeeps, LeaveLoopKeeps, LeaveFenceKeeps DEF ProcStep
<1>4. ASSUME NEW p \in Proc, DmaStep(p) PROVE IInv'
  BY <1>4, DmaCopyKeeps, DmaWordKeeps, DmaCompleteKeeps DEF DmaStep
<1> QED
  BY <1>1, <1>3, <1>4 DEF Next, Terminated

\* The words, the counters and the requests in the rings of ensemble.c fit together
\* in every reachable state: what the receiver has asked for, what the sender has
\* given and what the receiver has taken of an element never overtake each other,
\* whatever order the processors and the DMA engines run in.
THEOREM Inductive == Spec => []IInv
<1>1. Init => IInv
  BY InitInv
<1>2. IInv /\ [Next]_vars => IInv'
  BY NextInv
<1> QED
  BY <1>1, <1>2, PTL DEF Spec

\* What a request in a ring says of its link.
LEMMA RequestIn ==
    ASSUME IInv, NEW p \in Proc, NEW j \in DOMAIN dma[p], NEW x, x = dma[p][j], Kind(x) # "none"
    PROVE  /\ x \in DmaRequests /\ RequestOf(p, x) /\ CopiesAt(x, round, out, in)
           /\ LinkOf(x) \in Link /\ ~Self(LinkOf(x)) /\ Asked(LinkOf(x))
           /\ Kind(x) \in RequestKinds
           /\ Kind(x) \in {"confirm", "out"} => p = LinkOf(x)[1] /\ j \in Of(SRing(LinkOf(x)), Kind(x), LinkOf(x))
           /\ Kind(x) \in {"request", "in"} => p = LinkOf(x)[2] /\ j \in Of(RRing(LinkOf(x)), Kind(x), LinkOf(x))
<1>1. dma[p] \in Seq(DmaRequests) /\ RingInv(p)
  BY DEF IInv, TypeInv
<1>2. x \in DmaRequests /\ RequestOf(p, x) /\ CopiesAt(x, round, out, in)
  BY <1>1 DEF RingInv
<1>3. Kind(x) \in RequestKinds
  <2>1. x.word = NoWord \/ x.note = NoNote
    BY <1>2 DEF RequestOf
  <2> QED
    BY <1>2, <2>1, KindOf
<1>4. PICK l \in Link : l = LinkOf(x) /\ ~Self(l)
  BY <1>2 DEF RequestOf
<1>5. /\ Kind(x) \in {"confirm", "out"} => p = l[1] /\ j \in Of(SRing(l), Kind(x), l)
      /\ Kind(x) \in {"request", "in"} => p = l[2] /\ j \in Of(RRing(l), Kind(x), l)
  BY <1>2, <1>4 DEF RequestOf, Of, SRing, RRing
<1>6. Asked(l)
  <2>1. LinkInv(l)
    BY <1>4, LinkFacts
  <2> QED
    BY <1>3, <1>5, <2>1 DEF RequestKinds, LinkInv, RestInv, Quiet
<1> QED
  BY <1>2, <1>3, <1>4, <1>5, <1>6

\* No engine works for an element that is through.
LEMMA LateAccess == ASSUME IInv PROVE NoLateAccess
<1> SUFFICES ASSUME NEW p \in Proc, NEW j \in DOMAIN dma[p], NEW c \in Range(dma[p][j].copies)
             PROVE  /\ c.from[1] = "src" => ~OutDone(c.from[2], c.from[3], c.from[4])
                    /\ c.to[1] = "dst" => ~InDone(c.to[2], c.to[3], c.to[4])
  BY DEF NoLateAccess
<1>1. PICK x : x = dma[p][j]
  OBVIOUS
<1>2. PICK n \in DOMAIN x.copies : c = x.copies[n]
  BY <1>1 DEF Range
<1>3. CopiesAt(x, round, out, in)
  BY <1>1 DEF IInv, RingInv
<1>4. Kind(x) # "none"
  BY <1>2, <1>3 DEF CopiesAt
<1>5. PICK l \in Link : l = LinkOf(x)
  BY <1>1, <1>4, RequestIn
<1>6. /\ ~Self(l) /\ Asked(l)
      /\ Kind(x) \in {"confirm", "out"} => j \in Of(SRing(l), Kind(x), l)
      /\ SRing(l) = dma[p] \/ Kind(x) \in {"request", "in"}
  BY <1>1, <1>4, <1>5, RequestIn DEF RequestKinds, SRing
<1>7. /\ TypeInv /\ PlaceInv /\ LinkInv(l) /\ l[1] \in Proc /\ l[2] \in Proc
  BY <1>6, LinkFacts, LinkEnds
<1>8. /\ Kind(x) = "confirm" => Value(x) # 0
      /\ c.from[1] = "src" => /\ Kind(x) = "confirm"
                              /\ c.from[2] = l /\ c.from[3] = round[l[1]] /\ c.from[4] = out[l].cur
      /\ c.to[1] = "dst" => c.to[2] = l /\ c.to[3] = round[l[2]] /\ c.to[4] = in[l].cur
  BY <1>2, <1>3, <1>5 DEF CopiesAt
<1>9. round[l[1]] \in Nat /\ round[l[2]] \in Nat /\ out[l].cur \in Nat /\ in[l].cur \in Nat
  <2>1. out[l] \in Queues /\ in[l] \in Queues
    BY <1>7, QueueTypes
  <2>2. prog.fences \in Seq([Link -> Seq(Elem)])
    BY <1>7, ProgramAssumption DEF TypeInv
  <2>3. round \in [Proc -> 1 .. Len(prog.fences) + 1] /\ Len(prog.fences) \in Nat
    BY <1>7, <2>2 DEF TypeInv
  <2>4. out[l].cur \in Nat /\ in[l].cur \in Nat
    BY <2>1 DEF Queues
  <2>5. \A p1 \in Proc : round[p1] \in Nat
    BY <2>3
  <2> QED
    BY <1>7, <2>4, <2>5
<1>10. c.from[1] = "src" => ~OutDone(c.from[2], c.from[3], c.from[4])
  <2> SUFFICES ASSUME c.from[1] = "src" PROVE ~OutDone(l, round[l[1]], out[l].cur)
    BY <1>8
  <2>1. j \in Of(SRing(l), "confirm", l) /\ Value(SRing(l)[j]) # 0
    BY <1>1, <1>6, <1>8
  <2>2. Active(l)
    BY <1>6, <1>7, <2>1 DEF LinkInv, IdleInv, PassedInv, Quiet, Valued
  <2>3. pc[l[1]] = "fence"
    BY <1>7, <2>2, QueueTypes DEF Active, QueueInv
  <2> QED
    BY <1>9, <2>3 DEF OutDone
<1>11. c.to[1] = "dst" => ~InDone(c.to[2], c.to[3], c.to[4])
  <2>1. pc[l[2]] = "fence"
    BY <1>6, <1>7, AskedTypes
  <2> QED
    BY <1>8, <1>9, <2>1 DEF InDone
<1> QED
  BY <1>10, <1>11

\* Words and counters are written for the element that is in the queue.
LEMMA CurrentWrites == ASSUME IInv PROVE WritesCurrent
<1>1. NotesCurrent
  <2> SUFFICES ASSUME NEW p \in Proc, NEW j \in DOMAIN dma[p], NEW note, note = dma[p][j].note
               PROVE  /\ note.queue = "out" => Busy(out[note.link]) /\ out[note.link].cur = note.elm
                      /\ note.queue = "in" => Busy(in[note.link]) /\ in[note.link].cur = note.elm
    BY DEF NotesCurrent
  <2>1. PICK x : x = dma[p][j]
    OBVIOUS
  <2>2. CASE note.queue \in {"out", "in"}
    <3>1. Kind(x) = note.queue /\ LinkOf(x) = note.link /\ Kind(x) # "none"
      BY <2>1, <2>2 DEF Kind, LinkOf
    <3>2. PICK l \in Link : l = note.link
      BY <2>1, <3>1, RequestIn
    <3>3. /\ ~Self(l) /\ Asked(l)
          /\ note.queue = "out" => p = l[1] /\ j \in Of(SRing(l), "out", l)
          /\ note.queue = "in" => p = l[2] /\ j \in Of(RRing(l), "in", l)
      BY <2>1, <2>2, <3>1, <3>2, RequestIn
    <3>4. LinkInv(l) /\ ReceiverInv(l)
      BY <3>3, LinkFacts DEF LinkInv
    <3>5. CASE note.queue = "out"
      <4>1. Active(l) /\ ActiveInv(l)
        BY <3>3, <3>4, <3>5 DEF LinkInv, IdleInv, PassedInv, Quiet
      <4>2. Busy(out[l]) /\ Noted(SRing(l), "out", l, out[l].cur)
        BY <3>3, <3>5, <4>1 DEF ActiveInv
      <4> QED
        BY <3>2, <3>3, <3>5, <4>2 DEF Noted, SRing
    <3>6. CASE note.queue = "in"
      <4>1. Busy(in[l]) /\ Noted(RRing(l), "in", l, in[l].cur)
        BY <3>3, <3>4, <3>6 DEF ReceiverInv
      <4> QED
        BY <3>2, <3>3, <3>6, <4>1 DEF Noted, RRing
    <3> QED
      BY <2>2, <3>5, <3>6
  <2> QED
    BY <2>2
<1>2. IdleWords
  <2> SUFFICES ASSUME NEW l \in Link, in[l].st = 0
               PROVE  /\ confirm[l] = 0
                      /\ \A j \in DOMAIN dma[l[1]] :
                             ~(dma[l[1]][j].word.name = "confirm" /\ dma[l[1]][j].word.link = l)
    BY DEF IdleWords
  <2>1. confirm[l] = 0
    <3>1. CASE Self(l)
      BY <3>1 DEF IInv, SelfInv
    <3>2. CASE ~Self(l)
      BY <3>2, LinkFacts DEF LinkInv, RestInv, Asked
    <3> QED
      BY <3>1, <3>2
  <2>2. ASSUME NEW j \in DOMAIN dma[l[1]],
               dma[l[1]][j].word.name = "confirm", dma[l[1]][j].word.link = l
        PROVE  FALSE
    <3>1. PICK x : x = dma[l[1]][j]
      OBVIOUS
    <3>2. l[1] \in Proc /\ RingInv(l[1])
      BY LinkEnds DEF IInv
    <3>3. x.word = NoWord \/ x.note = NoNote
      BY <3>1, <3>2 DEF RingInv, RequestOf
    <3>4. x.note = NoNote
      BY <2>2, <3>1, <3>3 DEF NoWord
    <3>5. Kind(x) = "confirm" /\ LinkOf(x) = l
      BY <2>2, <3>1, <3>4 DEF Kind, LinkOf, NoNote
    <3> QED
      BY <3>1, <3>2, <3>5, RequestIn DEF Asked
  <2> QED
    BY <2>1, <2>2
<1> QED
  BY <1>1, <1>2 DEF WritesCurrent

\* The counters that the code asserts to agree do.
LEMMA Counters == ASSUME IInv PROVE CountersAgree
<1> SUFFICES ASSUME NEW l \in Link
             PROVE  /\ out[l].st = 201 => out[l].taken - out[l].completed \in 0 .. BPQ
                    /\ in[l].st = 202 => in[l].unpacked <= confirm[l]
  BY DEF CountersAgree
<1>1. CASE Self(l)
  BY <1>1 DEF IInv, SelfInv
<1>2. CASE ~Self(l)
  <2>1. TypeInv /\ PlaceInv /\ LinkInv(l)
    BY <1>2, LinkFacts
  <2>2. out[l].taken \in Nat /\ out[l].completed \in Nat /\ in[l].unpacked \in Nat /\ confirm[l] \in Nat
    BY <2>1, QueueTypes
  <2>3. ASSUME out[l].st = 201 PROVE out[l].taken - out[l].completed \in 0 .. BPQ
    <3>1. ActiveInv(l)
      BY <2>1, <2>3 DEF LinkInv, Active
    <3>2. Zero(l)
      BY <2>3, <3>1 DEF ActiveInv
    <3>3. out[l].completed <= out[l].taken /\ out[l].taken - out[l].completed <= BPQ
      BY <3>1, <3>2 DEF ActiveInv
    <3> QED
      BY <2>2, <3>3, BpqAssumption
  <2>4. ASSUME in[l].st = 202 PROVE in[l].unpacked <= confirm[l]
    <3>1. Asked(l) /\ ReceiverInv(l)
      BY <2>1, <2>4 DEF LinkInv, Asked
    <3>2. ~Zero(l) /\ ~Gets(l)
      BY <2>4, <3>1 DEF ReceiverInv
    <3>3. Taken(l) = in[l].unpacked /\ Taken(l) < Total(l)
      <4>1. Taken(l) # Total(l) /\ Taken(l) <= Total(l)
        BY <2>4, <3>1 DEF ReceiverInv
      <4>2. Taken(l) \in Nat /\ Total(l) \in Nat
        BY <2>1, <3>1, AskedTypes
      <4> QED
        BY <3>2, <4>1, <4>2 DEF Taken
    <3>4. CASE Active(l)
      BY <2>1, <3>3, <3>4 DEF LinkInv, ActiveInv
    <3>5. CASE ~Active(l) /\ ~Passed(l)
      BY <2>1, <2>2, <3>1, <3>3, <3>5 DEF LinkInv, IdleInv
    <3>6. CASE Passed(l)
      <4>1. request[l] = 0
        BY <2>1, <3>1, <3>6 DEF LinkInv, PassedInv
      <4>2. Wanted(l) = Total(l) + 1 /\ Wanted(l) <= Taken(l) + 1
        BY <3>1, <3>6, <4>1 DEF Wanted, ReceiverInv
      <4>3. Taken(l) \in Nat /\ Total(l) \in Nat
        BY <2>1, <3>1, AskedTypes
      <4> QED
        BY <3>3, <4>2, <4>3
    <3> QED
      BY <3>4, <3>5, <3>6
  <2> QED
    BY <2>3, <2>4
<1> QED
  BY <1>1, <1>2

\* Requests of one kind have different ranks.
LEMMA RunDistinct ==
    ASSUME NEW S, NEW s \in Seq(S), NEW k, NEW l, NEW first, NEW total, NEW lo, NEW hi,
           Run(s, k, l, first, total, lo, hi),
           NEW i \in Of(s, k, l), NEW j \in Of(s, k, l), i # j
    PROVE  Rank(Value(s[i]), first, total) # Rank(Value(s[j]), first, total)
<1>1. i \in Nat /\ j \in Nat
  BY DEF Of
<1>2. PICK a : a = Rank(Value(s[i]), first, total)
  OBVIOUS
<1>3. PICK b : b = Rank(Value(s[j]), first, total)
  OBVIOUS
<1>4. a \in lo + 1 .. hi /\ b \in lo + 1 .. hi
  BY <1>2, <1>3 DEF Run
<1>5. (i < j => a < b) /\ (j < i => b < a)
  BY <1>2, <1>3 DEF Run
<1>6. a # b
  BY <1>1, <1>4, <1>5
<1> QED
  BY <1>2, <1>3, <1>6

\* Each request for a link has a slot: the sender's in 1 .. BPQ, the receiver's
\* in BPQ + 1 .. 2 * BPQ.
SendSlot(l, x) ==
    IF Kind(x) = "out" THEN Rank(Value(x), 1, InElem(l).frags) - out[l].completed
    ELSE IF Zero(l) \/ Passed(l) THEN BPQ
    ELSE Rank(Value(x), 1, Total(l)) - confirm[l]
RecvSlot(l, x) ==
    IF Kind(x) = "request" THEN BPQ + Rank(Value(x), First(l), Total(l)) - Wanted(l)
    ELSE BPQ + Taken(l) + 1 - Wanted(l) + Rank(Value(x), 1, Total(l)) - in[l].completed

\* One confirmation at most is under way when there is only one step.
LEMMA SingleRun ==
    ASSUME NEW S, NEW s \in Seq(S), NEW k, NEW l, NEW first, NEW total,
           NEW lo \in Int, NEW hi \in Int, hi <= lo + 1,
           Run(s, k, l, first, total, lo, hi),
           NEW i \in Of(s, k, l), NEW j \in Of(s, k, l)
    PROVE  i = j
<1> SUFFICES ASSUME i # j PROVE FALSE
  OBVIOUS
<1>1. Rank(Value(s[i]), first, total) # Rank(Value(s[j]), first, total)
  BY RunDistinct
<1>2. PICK a : a = Rank(Value(s[i]), first, total)
  OBVIOUS
<1>3. PICK b : b = Rank(Value(s[j]), first, total)
  OBVIOUS
<1>4. a \in lo + 1 .. hi /\ b \in lo + 1 .. hi
  BY <1>2, <1>3 DEF Run
<1> QED
  BY <1>1, <1>2, <1>3, <1>4

\* The requests of the sender of a link have different slots from 1 to BPQ, ...
LEMMA SendSlots ==
    ASSUME IInv, NEW l \in Link, ~Self(l), NEW s, s = SRing(l),
           NEW i \in Of(s, "confirm", l) \union Of(s, "out", l)
    PROVE  /\ SendSlot(l, s[i]) \in 1 .. BPQ
           /\ \A j \in Of(s, "confirm", l) \union Of(s, "out", l) :
                  j # i => SendSlot(l, s[j]) # SendSlot(l, s[i])
<1>1. TypeInv /\ PlaceInv /\ LinkInv(l) /\ BPQ \in Nat \ {0} /\ s \in Seq(DmaRequests)
  BY LinkFacts, QueueTypes, BpqAssumption
<1>2. Asked(l) /\ ReceiverInv(l)
  BY <1>1 DEF LinkInv, RestInv, Quiet
<1>3. PICK total \in Nat \ {0} : total = Total(l)
  BY <1>1, <1>2, AskedTypes
<1>4. PICK frags \in Nat \ {0} : frags = InElem(l).frags
  BY <1>1, <1>2, AskedTypes
<1>5. PICK c \in Nat : c = confirm[l]
  BY <1>1, QueueTypes
<1>6. PICK given \in Nat : given = Given(l)
  BY <1>1, <1>2, AskedTypes
<1>7. PICK wanted \in Nat : wanted = Wanted(l)
  BY <1>1, <1>2, AskedTypes
<1>8. PICK taken \in Nat : taken = Taken(l)
  BY <1>1, <1>2, AskedTypes
<1>9. /\ \A j \in Of(s, "confirm", l) : Kind(s[j]) = "confirm"
      /\ \A j \in Of(s, "out", l) : Kind(s[j]) = "out"
  BY DEF Of
<1>10. CASE Passed(l)
  <2>1. Of(s, "out", l) = {} /\ Run(s, "confirm", l, 1, total, total, total + 1)
    BY <1>1, <1>2, <1>3, <1>10 DEF LinkInv, PassedInv
  <2>2. \A j \in Of(s, "confirm", l) : SendSlot(l, s[j]) = BPQ
    BY <1>9, <1>10 DEF SendSlot
  <2>3. \A j \in Of(s, "confirm", l) : j = i
    <3>1. total \in Int /\ total + 1 \in Int /\ total + 1 <= total + 1 /\ i \in Of(s, "confirm", l)
      BY <2>1
    <3> QED
      BY <1>1, <2>1, <3>1, SingleRun
  <2> QED
    BY <1>1, <2>1, <2>2, <2>3
<1>11. CASE ~Passed(l) /\ ~Zero(l)
  <2>1. Active(l) /\ ActiveInv(l)
    BY <1>1, <1>2, <1>11 DEF LinkInv, IdleInv, Quiet
  <2>2. /\ Of(s, "out", l) = {} /\ Run(s, "confirm", l, 1, total, c, given)
        /\ given <= wanted - 1 + BPQ /\ taken <= c
    BY <1>3, <1>5, <1>6, <1>7, <1>8, <1>11, <2>1 DEF ActiveInv
  <2>3. wanted <= taken + 1
    BY <1>2, <1>7, <1>8 DEF ReceiverInv
  <2>4. given <= c + BPQ
    BY <1>1, <2>2, <2>3
  <2>5. \A j \in Of(s, "confirm", l) : /\ SendSlot(l, s[j]) = Rank(Value(s[j]), 1, total) - c
                                       /\ Rank(Value(s[j]), 1, total) \in c + 1 .. given
    BY <1>3, <1>5, <1>9, <1>11, <2>2 DEF SendSlot, Run
  <2>6. \A j \in Of(s, "confirm", l) : j # i => Rank(Value(s[j]), 1, total) # Rank(Value(s[i]), 1, total)
    BY <1>1, <2>2, RunDistinct
  <2>7. PICK a : a = Rank(Value(s[i]), 1, total)
    OBVIOUS
  <2>8. a \in c + 1 .. given /\ SendSlot(l, s[i]) = a - c
    BY <2>2, <2>5, <2>7
  <2>9. SendSlot(l, s[i]) \in 1 .. BPQ
    BY <1>1, <2>4, <2>8
  <2>10. ASSUME NEW j \in Of(s, "confirm", l), j # i PROVE SendSlot(l, s[j]) # SendSlot(l, s[i])
    <3>1. PICK b : b = Rank(Value(s[j]), 1, total)
      OBVIOUS
    <3>2. b \in c + 1 .. given /\ SendSlot(l, s[j]) = b - c /\ b # a
      BY <2>5, <2>6, <2>7, <2>10, <3>1
    <3> QED
      BY <2>8, <3>2
  <2> QED
    BY <2>2, <2>9, <2>10
<1>12. CASE ~Passed(l) /\ Zero(l)
  <2>1. Active(l) /\ ActiveInv(l)
    BY <1>1, <1>2, <1>12 DEF LinkInv, IdleInv, Quiet
  <2>2. PICK n \in Nat : n = out[l].taken
    BY <1>1, QueueTypes
  <2>3. PICK done \in Nat : done = out[l].completed
    BY <1>1, QueueTypes
  <2>4. PICK hi \in Int : hi = IF out[l].st = 201 THEN n ELSE n - 1
    OBVIOUS
  <2>5. /\ Run(s, "confirm", l, 1, total, c, given) /\ Run(s, "out", l, 1, frags, done, hi)
        /\ n - done <= BPQ /\ given = (IF out[l].st = 201 THEN 0 ELSE 1)
    BY <1>3, <1>4, <1>5, <1>6, <1>12, <2>1, <2>2, <2>3, <2>4 DEF ActiveInv, Given
  <2>6. \A j, k \in Of(s, "confirm", l) : j = k
    <3>1. c \in Int /\ given \in Int /\ given <= c + 1
      BY <2>5
    <3> QED
      BY <1>1, <2>5, <3>1, SingleRun
  <2>7. \A j \in Of(s, "confirm", l) : SendSlot(l, s[j]) = BPQ
    BY <1>9, <1>12 DEF SendSlot
  <2>8. out[l].st = 201 => Of(s, "confirm", l) = {}
    <3>1. out[l].st = 201 => c \in Int /\ given \in Int /\ given <= c
      BY <2>5
    <3> QED
      BY <2>5, <3>1, RunNone
  <2>9. \A j \in Of(s, "out", l) : /\ SendSlot(l, s[j]) = Rank(Value(s[j]), 1, frags) - done
                                   /\ Rank(Value(s[j]), 1, frags) \in done + 1 .. hi
    BY <1>4, <1>9, <2>3, <2>5 DEF SendSlot, Run
  <2>10. \A j, k \in Of(s, "out", l) : j # k => Rank(Value(s[j]), 1, frags) # Rank(Value(s[k]), 1, frags)
    BY <1>1, <2>5, RunDistinct
  <2>11. ASSUME NEW j \in Of(s, "out", l)
         PROVE  SendSlot(l, s[j]) \in 1 .. BPQ /\ (out[l].st # 201 => SendSlot(l, s[j]) < BPQ)
    <3>1. PICK b : b = Rank(Value(s[j]), 1, frags)
      OBVIOUS
    <3>2. b \in done + 1 .. hi /\ SendSlot(l, s[j]) = b - done
      BY <2>9, <3>1
    <3> QED
      BY <1>1, <2>4, <2>5, <3>2
  <2>12. ASSUME NEW j \in Of(s, "out", l), NEW k \in Of(s, "out", l), j # k
         PROVE  SendSlot(l, s[j]) # SendSlot(l, s[k])
    <3>1. PICK b : b = Rank(Value(s[j]), 1, frags)
      OBVIOUS
    <3>2. PICK a : a = Rank(Value(s[k]), 1, frags)
      OBVIOUS
    <3>3. /\ b \in done + 1 .. hi /\ SendSlot(l, s[j]) = b - done
          /\ a \in done + 1 .. hi /\ SendSlot(l, s[k]) = a - done /\ a # b
      BY <2>9, <2>10, <2>12, <3>1, <3>2
    <3> QED
      BY <3>3
  <2>13. ASSUME NEW j \in Of(s, "out", l), NEW k \in Of(s, "confirm", l)
         PROVE  SendSlot(l, s[j]) # SendSlot(l, s[k])
    <3>1. SendSlot(l, s[j]) \in 1 .. BPQ /\ SendSlot(l, s[j]) < BPQ
      BY <2>8, <2>11
    <3> QED
      BY <2>7, <3>1
  <2> QED
    BY <1>1, <2>6, <2>7, <2>11, <2>12, <2>13
<1> QED
  BY <1>10, <1>11, <1>12

\* What the receiver of a link has outstanding fits into BPQ slots.
LEMMA ReceiverWindow ==
    ASSUME IInv, NEW l \in Link, ~Self(l), Asked(l)
    PROVE  /\ Taken(l) + 1 - Wanted(l) \in 0 .. BPQ
           /\ Fetches(l) => Taken(l) + 1 - Wanted(l) + in[l].taken - in[l].completed <= BPQ
<1>1. TypeInv /\ PlaceInv /\ LinkInv(l) /\ ReceiverInv(l) /\ BPQ \in Nat \ {0}
  BY LinkFacts, BpqAssumption DEF LinkInv
<1>2. PICK total \in Nat \ {0} : total = Total(l)
  BY <1>1, AskedTypes
<1>3. PICK wanted \in Nat : wanted = Wanted(l)
  BY <1>1, AskedTypes
<1>4. PICK taken \in Nat : taken = Taken(l)
  BY <1>1, AskedTypes
<1>5. PICK n \in Nat : n = in[l].taken
  BY <1>1, QueueTypes
<1>6. PICK done \in Nat : done = in[l].completed
  BY <1>1, QueueTypes
<1>7. wanted <= taken + 1 /\ taken <= total
  BY <1>1, <1>2, <1>3, <1>4 DEF ReceiverInv
<1>8. Fetches(l) => taken <= done /\ done <= n /\ n <= total
  <2>1. Fetches(l) => Taken(l) = in[l].unpacked
    BY DEF Fetches, Taken, Zero, Gets
  <2> QED
    BY <1>1, <1>2, <1>4, <1>5, <1>6, <2>1 DEF ReceiverInv
<1>9. CASE Passed(l)
  <2>1. wanted = total + 1
    <3>1. request[l] = 0
      BY <1>1, <1>9 DEF LinkInv, PassedInv
    <3> QED
      BY <1>2, <1>3, <1>9, <3>1 DEF Wanted
  <2>2. taken = total
    BY <1>7, <2>1
  <2>3. Fetches(l) => done = total /\ n = total
    BY <1>8, <2>2
  <2> QED
    BY <1>1, <1>3, <1>4, <1>5, <1>6, <2>1, <2>2, <2>3
<1>10. CASE ~Active(l) /\ ~Passed(l)
  <2>1. taken = 0 /\ n = 0 /\ done = 0
    BY <1>1, <1>4, <1>5, <1>6, <1>10 DEF LinkInv, IdleInv, Rested
  <2> QED
    BY <1>1, <1>3, <1>4, <1>5, <1>6, <1>7, <2>1
<1>11. CASE Active(l)
  <2>1. ActiveInv(l)
    BY <1>11, LinkFacts
  <2>2. PICK given \in Nat : given = Given(l)
    BY <1>1, AskedTypes
  <2>3. PICK c \in Nat : c = confirm[l]
    BY <1>1, QueueTypes
  <2>4. /\ 1 <= wanted /\ taken <= c /\ c <= given /\ given <= total
        /\ ~Zero(l) => given <= wanted - 1 + BPQ
        /\ Host(l[1]) => n <= c
    BY <1>2, <1>3, <1>4, <1>5, <2>1, <2>2, <2>3 DEF ActiveInv
  <2>5. CASE Zero(l)
    <3>1. total = 1 /\ ~Fetches(l)
      BY <1>2, <2>5 DEF Total, Fetches, Zero
    <3> QED
      BY <1>1, <1>3, <1>4, <1>7, <2>4, <3>1
  <2>6. CASE ~Zero(l)
    <3>1. Fetches(l) => Host(l[1])
      BY DEF Fetches
    <3> QED
      BY <1>1, <1>3, <1>4, <1>5, <1>6, <1>7, <1>8, <2>4, <2>6, <3>1
  <2> QED
    BY <2>5, <2>6
<1> QED
  BY <1>9, <1>10, <1>11

\* ... and those of the receiver different slots from BPQ + 1 to 2 * BPQ.
LEMMA RecvSlots ==
    ASSUME IInv, NEW l \in Link, ~Self(l), NEW s, s = RRing(l),
           NEW i \in Of(s, "request", l) \union Of(s, "in", l)
    PROVE  /\ RecvSlot(l, s[i]) \in BPQ + 1 .. 2 * BPQ
           /\ \A j \in Of(s, "request", l) \union Of(s, "in", l) :
                  j # i => RecvSlot(l, s[j]) # RecvSlot(l, s[i])
<1>1. TypeInv /\ PlaceInv /\ LinkInv(l) /\ BPQ \in Nat \ {0} /\ s \in Seq(DmaRequests)
  BY LinkFacts, QueueTypes, BpqAssumption
<1>2. Asked(l) /\ ReceiverInv(l)
  BY <1>1 DEF LinkInv, RestInv
<1>3. PICK total \in Nat \ {0} : total = Total(l)
  BY <1>1, <1>2, AskedTypes
<1>4. PICK first \in Nat : first = First(l)
  BY <1>1, <1>2, AskedTypes
<1>5. PICK wanted \in Nat : wanted = Wanted(l)
  BY <1>1, <1>2, AskedTypes
<1>6. PICK taken \in Nat : taken = Taken(l)
  BY <1>1, <1>2, AskedTypes
<1>7. PICK n \in Nat : n = in[l].taken
  BY <1>1, QueueTypes
<1>8. PICK done \in Nat : done = in[l].completed
  BY <1>1, QueueTypes
<1>9. /\ taken + 1 - wanted \in 0 .. BPQ
      /\ Fetches(l) => taken + 1 - wanted + n - done <= BPQ
  BY <1>2, <1>5, <1>6, <1>7, <1>8, ReceiverWindow
<1>10. /\ \A j \in Of(s, "request", l) : Kind(s[j]) = "request"
       /\ \A j \in Of(s, "in", l) : Kind(s[j]) = "in"
  BY DEF Of
<1>11. Run(s, "request", l, first, total, wanted, taken + 1)
  BY <1>2, <1>3, <1>4, <1>5, <1>6 DEF ReceiverInv
<1>12. /\ Of(s, "in", l) # {} => Fetches(l)
       /\ Fetches(l) => Run(s, "in", l, 1, total, done, n)
  BY <1>2, <1>3, <1>7, <1>8 DEF ReceiverInv
<1>13. \A j \in Of(s, "request", l) : /\ RecvSlot(l, s[j]) = BPQ + Rank(Value(s[j]), first, total) - wanted
                                      /\ Rank(Value(s[j]), first, total) \in wanted + 1 .. taken + 1
  BY <1>3, <1>4, <1>5, <1>10, <1>11 DEF RecvSlot, Run
<1>14. \A j \in Of(s, "in", l) : /\ RecvSlot(l, s[j]) = BPQ + taken + 1 - wanted + Rank(Value(s[j]), 1, total) - done
                                 /\ Rank(Value(s[j]), 1, total) \in done + 1 .. n
  BY <1>3, <1>5, <1>6, <1>8, <1>10, <1>12 DEF RecvSlot, Run
<1>15. ASSUME NEW j \in Of(s, "request", l)
       PROVE  RecvSlot(l, s[j]) \in BPQ + 1 .. BPQ + taken + 1 - wanted
  <2>1. PICK a : a = Rank(Value(s[j]), first, total)
    OBVIOUS
  <2>2. a \in wanted + 1 .. taken + 1 /\ RecvSlot(l, s[j]) = BPQ + a - wanted
    BY <1>13, <2>1
  <2> QED
    BY <1>1, <2>2
<1>16. ASSUME NEW j \in Of(s, "in", l)
       PROVE  RecvSlot(l, s[j]) \in BPQ + taken + 1 - wanted + 1 .. BPQ + taken + 1 - wanted + n - done
  <2>1. PICK a : a = Rank(Value(s[j]), 1, total)
    OBVIOUS
  <2>2. a \in done + 1 .. n /\ RecvSlot(l, s[j]) = BPQ + taken + 1 - wanted + a - done
    BY <1>14, <2>1
  <2> QED
    BY <1>1, <2>2
<1>17. ASSUME NEW j \in Of(s, "request", l), NEW k \in Of(s, "request", l), j # k
       PROVE  RecvSlot(l, s[j]) # RecvSlot(l, s[k])
  <2>1. PICK b : b = Rank(Value(s[j]), first, total)
    OBVIOUS
  <2>2. PICK a : a = Rank(Value(s[k]), first, total)
    OBVIOUS
  <2>3. b # a
    BY <1>1, <1>11, <1>17, <2>1, <2>2, RunDistinct
  <2>4. /\ b \in wanted + 1 .. taken + 1 /\ RecvSlot(l, s[j]) = BPQ + b - wanted
        /\ a \in wanted + 1 .. taken + 1 /\ RecvSlot(l, s[k]) = BPQ + a - wanted
    BY <1>13, <2>1, <2>2
  <2> QED
    BY <1>1, <2>3, <2>4
<1>18. ASSUME NEW j \in Of(s, "in", l), NEW k \in Of(s, "in", l), j # k
       PROVE  RecvSlot(l, s[j]) # RecvSlot(l, s[k])
  <2>1. PICK b : b = Rank(Value(s[j]), 1, total)
    OBVIOUS
  <2>2. PICK a : a = Rank(Value(s[k]), 1, total)
    OBVIOUS
  <2>3. b # a
    BY <1>1, <1>12, <1>18, <2>1, <2>2, RunDistinct
  <2>4. /\ b \in done + 1 .. n /\ RecvSlot(l, s[j]) = BPQ + taken + 1 - wanted + b - done
        /\ a \in done + 1 .. n /\ RecvSlot(l, s[k]) = BPQ + taken + 1 - wanted + a - done
    BY <1>14, <2>1, <2>2
  <2> QED
    BY <1>1, <2>3, <2>4
<1>19. ASSUME NEW j \in Of(s, "request", l), NEW k \in Of(s, "in", l)
       PROVE  RecvSlot(l, s[j]) # RecvSlot(l, s[k])
  BY <1>1, <1>15, <1>16
<1>20. RecvSlot(l, s[i]) \in BPQ + 1 .. 2 * BPQ
  <2>1. CASE i \in Of(s, "request", l)
    BY <1>1, <1>9, <1>15, <2>1
  <2>2. CASE i \in Of(s, "in", l)
    <3>1. Fetches(l)
      BY <1>12, <2>2
    <3> QED
      BY <1>1, <1>9, <1>16, <2>2, <3>1
  <2> QED
    BY <2>1, <2>2
<1> QED
  BY <1>17, <1>18, <1>19, <1>20

\* The ring of a processor never holds more requests than it has slots: those of
\* each peer, and one for an oldest request whose word is written.
LEMMA RingFits == ASSUME IInv PROVE DmaRing
<1> SUFFICES ASSUME NEW p \in Proc
             PROVE  Len(dma[p]) <= (Cardinality(Proc) - 1) * (2 * BPQ + 1)
  BY DEF DmaRing
<1>1. PICK s \in Seq(DmaRequests) : s = dma[p]
  BY DEF IInv, TypeInv
<1>2. BPQ \in Nat \ {0}
  BY BpqAssumption
<1>3. IsFiniteSet(Proc) /\ Cardinality(Proc) \in Nat /\ Cardinality(Proc) >= 1
  <2>1. Cardinality(Proc \ {p}) = Cardinality(Proc) - 1 /\ IsFiniteSet(Proc \ {p})
    BY ProcAssumption, FS_RemoveElement
  <2> QED
    BY <2>1, ProcAssumption, FS_CardinalityType
<1>4. CASE s = <<>>
  <2>1. (Cardinality(Proc) - 1) * (2 * BPQ + 1) >= 0
    <3>1. PICK a \in Nat : a = Cardinality(Proc) - 1
      BY <1>3
    <3>2. PICK b \in Nat : b = 2 * BPQ + 1
      BY <1>2
    <3>3. a * b \in Nat
      OBVIOUS
    <3> QED
      BY <3>1, <3>2, <3>3
  <2> QED
    BY <1>1, <1>4, <2>1
<1>5. CASE s # <<>>
  <2>1. PICK peer \in Proc : peer # p
    BY <1>1, <1>5 DEF IInv, RingInv
  <2> DEFINE slots == (Proc \ {p}) \X (1 .. 2 * BPQ + 1)
             Slot(x) == IF Kind(x) = "none" THEN <<peer, 2 * BPQ + 1>>
                        ELSE IF Kind(x) \in {"confirm", "out"}
                             THEN <<LinkOf(x)[2], SendSlot(LinkOf(x), x)>>
                             ELSE <<LinkOf(x)[1], RecvSlot(LinkOf(x), x)>>
             f == [j \in DOMAIN s |-> Slot(s[j])]
  <2>2. ASSUME NEW j \in DOMAIN s
        PROVE  \/ Kind(s[j]) = "none" /\ j = 1 /\ Slot(s[j]) = <<peer, 2 * BPQ + 1>>
               \/ \E l \in Link : /\ ~Self(l) /\ l[1] = p /\ l[2] # p /\ s = SRing(l)
                                  /\ j \in Of(s, "confirm", l) \union Of(s, "out", l)
                                  /\ Slot(s[j]) = <<l[2], SendSlot(l, s[j])>>
                                  /\ SendSlot(l, s[j]) \in 1 .. BPQ
               \/ \E l \in Link : /\ ~Self(l) /\ l[2] = p /\ l[1] # p /\ s = RRing(l)
                                  /\ j \in Of(s, "request", l) \union Of(s, "in", l)
                                  /\ Slot(s[j]) = <<l[1], RecvSlot(l, s[j])>>
                                  /\ RecvSlot(l, s[j]) \in BPQ + 1 .. 2 * BPQ
    <3>1. PICK x : x = s[j]
      OBVIOUS
    <3>2. CASE Kind(x) = "none"
      BY <1>1, <3>1, <3>2 DEF IInv, RingInv
    <3>3. CASE Kind(x) # "none"
      <4>1. PICK l \in Link : /\ l = LinkOf(x) /\ ~Self(l) /\ Kind(x) \in RequestKinds
                              /\ Kind(x) \in {"confirm", "out"} => p = l[1] /\ j \in Of(SRing(l), Kind(x), l)
                              /\ Kind(x) \in {"request", "in"} => p = l[2] /\ j \in Of(RRing(l), Kind(x), l)
        BY <1>1, <3>1, <3>3, RequestIn
      <4>2. CASE Kind(x) \in {"confirm", "out"}
        <5>1. l[1] = p /\ l[2] # p /\ s = SRing(l)
          BY <1>1, <4>1, <4>2 DEF SRing, Self
        <5>2. j \in Of(s, "confirm", l) \union Of(s, "out", l)
          BY <4>1, <4>2, <5>1
        <5>3. SendSlot(l, s[j]) \in 1 .. BPQ
          BY <4>1, <5>1, <5>2, SendSlots
        <5>4. Slot(s[j]) = <<l[2], SendSlot(l, s[j])>>
          BY <3>1, <3>3, <4>1, <4>2
        <5> QED
          BY <4>1, <5>1, <5>2, <5>3, <5>4
      <4>3. CASE Kind(x) \in {"request", "in"}
        <5>1. l[2] = p /\ l[1] # p /\ s = RRing(l)
          BY <1>1, <4>1, <4>3 DEF RRing, Self
        <5>2. j \in Of(s, "request", l) \union Of(s, "in", l)
          BY <4>1, <4>3, <5>1
        <5>3. RecvSlot(l, s[j]) \in BPQ + 1 .. 2 * BPQ
          BY <4>1, <5>1, <5>2, RecvSlots
        <5>4. Slot(s[j]) = <<l[1], RecvSlot(l, s[j])>>
          BY <3>1, <3>3, <4>1, <4>3
        <5> QED
          BY <4>1, <5>1, <5>2, <5>3, <5>4
      <4> QED
        BY <4>1, <4>2, <4>3 DEF RequestKinds
    <3> QED
      BY <3>1, <3>2, <3>3
  <2> HIDE DEF Slot
  <2>3. \A j \in DOMAIN s : Slot(s[j]) \in slots
    <3> SUFFICES ASSUME NEW j \in DOMAIN s PROVE Slot(s[j]) \in slots
      OBVIOUS
    <3>1. CASE Slot(s[j]) = <<peer, 2 * BPQ + 1>>
      <4>1. 2 * BPQ + 1 \in 1 .. 2 * BPQ + 1
        BY <1>2
      <4> QED
        BY <2>1, <3>1, <4>1
    <3>2. CASE \E l \in Link : /\ l[2] # p
                               /\ Slot(s[j]) = <<l[2], SendSlot(l, s[j])>> /\ SendSlot(l, s[j]) \in 1 .. BPQ
      <4>1. PICK l \in Link : /\ l[2] # p
                              /\ Slot(s[j]) = <<l[2], SendSlot(l, s[j])>> /\ SendSlot(l, s[j]) \in 1 .. BPQ
        BY <3>2
      <4>2. SendSlot(l, s[j]) \in 1 .. 2 * BPQ + 1 /\ l[2] \in Proc \ {p}
        BY <1>2, <4>1, LinkEnds
      <4> QED
        BY <4>1, <4>2
    <3>3. CASE \E l \in Link : /\ l[1] # p
                               /\ Slot(s[j]) = <<l[1], RecvSlot(l, s[j])>> /\ RecvSlot(l, s[j]) \in BPQ + 1 .. 2 * BPQ
      <4>1. PICK l \in Link : /\ l[1] # p
                              /\ Slot(s[j]) = <<l[1], RecvSlot(l, s[j])>> /\ RecvSlot(l, s[j]) \in BPQ + 1 .. 2 * BPQ
        BY <3>3
      <4>2. RecvSlot(l, s[j]) \in 1 .. 2 * BPQ + 1 /\ l[1] \in Proc \ {p}
        BY <1>2, <4>1, LinkEnds
      <4> QED
        BY <4>1, <4>2
    <3> QED
      BY <2>2, <3>1, <3>2, <3>3
  <2>4. ASSUME NEW i \in DOMAIN s, NEW j \in DOMAIN s, i # j PROVE Slot(s[i]) # Slot(s[j])
    <3> DEFINE None(a) == Kind(s[a]) = "none" /\ a = 1 /\ Slot(s[a]) = <<peer, 2 * BPQ + 1>>
               Sent(a, l) == /\ ~Self(l) /\ l[1] = p /\ l[2] # p /\ s = SRing(l)
                             /\ a \in Of(s, "confirm", l) \union Of(s, "out", l)
                             /\ Slot(s[a]) = <<l[2], SendSlot(l, s[a])>>
                             /\ SendSlot(l, s[a]) \in 1 .. BPQ
               Received(a, l) == /\ ~Self(l) /\ l[2] = p /\ l[1] # p /\ s = RRing(l)
                                 /\ a \in Of(s, "request", l) \union Of(s, "in", l)
                                 /\ Slot(s[a]) = <<l[1], RecvSlot(l, s[a])>>
                                 /\ RecvSlot(l, s[a]) \in BPQ + 1 .. 2 * BPQ
    <3>1. \A a \in DOMAIN s : \/ None(a) \/ (\E l \in Link : Sent(a, l)) \/ (\E l \in Link : Received(a, l))
      BY <2>2
    <3>2. ASSUME NEW l \in Link, NEW m \in Link, Sent(i, l), Sent(j, m) PROVE Slot(s[i]) # Slot(s[j])
      <4>1. CASE l = m
        <5>1. SendSlot(l, s[i]) # SendSlot(l, s[j])
          BY <2>4, <3>2, <4>1, SendSlots
        <5> QED
          BY <3>2, <4>1, <5>1
      <4>2. CASE l # m
        <5>1. l[2] # m[2]
          BY <3>2, <4>2, LinkEnds
        <5> QED
          BY <3>2, <5>1
      <4> QED
        BY <4>1, <4>2
    <3>3. ASSUME NEW l \in Link, NEW m \in Link, Received(i, l), Received(j, m) PROVE Slot(s[i]) # Slot(s[j])
      <4>1. CASE l = m
        <5>1. RecvSlot(l, s[i]) # RecvSlot(l, s[j])
          BY <2>4, <3>3, <4>1, RecvSlots
        <5> QED
          BY <3>3, <4>1, <5>1
      <4>2. CASE l # m
        <5>1. l[1] # m[1]
          BY <3>3, <4>2, LinkEnds
        <5> QED
          BY <3>3, <5>1
      <4> QED
        BY <4>1, <4>2
    <3>4. \A a \in DOMAIN s :
              /\ None(a) => a = 1 /\ \E q : Slot(s[a]) = <<q, 2 * BPQ + 1>>
              /\ (\E l \in Link : Sent(a, l)) => \E q : \E n \in 1 .. BPQ : Slot(s[a]) = <<q, n>>
              /\ (\E l \in Link : Received(a, l)) => \E q : \E n \in BPQ + 1 .. 2 * BPQ : Slot(s[a]) = <<q, n>>
      OBVIOUS
    <3>5. (\A q, n : <<q, n>>[2] = n)
      OBVIOUS
    <3>6. \A a \in DOMAIN s :
              /\ None(a) => a = 1 /\ Slot(s[a])[2] = 2 * BPQ + 1
              /\ (\E l \in Link : Sent(a, l)) => Slot(s[a])[2] \in 1 .. BPQ
              /\ (\E l \in Link : Received(a, l)) => Slot(s[a])[2] \in BPQ + 1 .. 2 * BPQ
      BY <3>4, <3>5
    <3> HIDE DEF None, Sent, Received
    <3>7. CASE (\E l \in Link : Sent(i, l)) /\ (\E l \in Link : Sent(j, l))
      BY <3>2, <3>7
    <3>8. CASE (\E l \in Link : Received(i, l)) /\ (\E l \in Link : Received(j, l))
      BY <3>3, <3>8
    <3>9. CASE None(i) /\ None(j)
      BY <2>4, <3>6, <3>9
    <3>10. ASSUME Slot(s[i])[2] # Slot(s[j])[2] PROVE Slot(s[i]) # Slot(s[j])
      BY <3>10
    <3>11. CASE None(i) /\ ((\E l \in Link : Sent(j, l)) \/ (\E l \in Link : Received(j, l)))
      BY <1>2, <3>6, <3>10, <3>11
    <3>12. CASE None(j) /\ ((\E l \in Link : Sent(i, l)) \/ (\E l \in Link : Received(i, l)))
      BY <1>2, <3>6, <3>10, <3>12
    <3>13. CASE (\E l \in Link : Sent(i, l)) /\ (\E l \in Link : Received(j, l))
      BY <1>2, <3>6, <3>10, <3>13
    <3>14. CASE (\E l \in Link : Sent(j, l)) /\ (\E l \in Link : Received(i, l))
      BY <1>2, <3>6, <3>10, <3>14
    <3> QED
      BY <3>1, <3>7, <3>8, <3>9, <3>11, <3>12, <3>13, <3>14
  <2> HIDE DEF slots
  <2>5. f \in Injection(DOMAIN s, slots)
    <3>1. f \in [DOMAIN s -> slots]
      BY <2>3
    <3>2. \A i, j \in DOMAIN s : f[i] = f[j] => i = j
      BY <2>4
    <3> QED
      BY <3>1, <3>2 DEF Injection, IsInjective
  <2>6. IsFiniteSet(slots) /\ Cardinality(slots) = (Cardinality(Proc) - 1) * (2 * BPQ + 1)
    <3>1. IsFiniteSet(Proc \ {p}) /\ Cardinality(Proc \ {p}) = Cardinality(Proc) - 1
      BY <1>3, FS_RemoveElement
    <3>2. IsFiniteSet(1 .. 2 * BPQ + 1) /\ Cardinality(1 .. 2 * BPQ + 1) = 2 * BPQ + 1
      <4>1. 1 \in Int /\ 2 * BPQ + 1 \in Int /\ ~(1 > 2 * BPQ + 1) /\ 2 * BPQ + 1 - 1 + 1 = 2 * BPQ + 1
        BY <1>2
      <4> QED
        BY <4>1, FS_Interval
    <3>3. Cardinality((Proc \ {p}) \X (1 .. 2 * BPQ + 1)) = Cardinality(Proc \ {p}) * Cardinality(1 .. 2 * BPQ + 1)
      BY <3>1, <3>2, FS_Product
    <3>4. IsFiniteSet((Proc \ {p}) \X (1 .. 2 * BPQ + 1))
      BY <3>1, <3>2, FS_Product
    <3> QED
      BY <3>1, <3>2, <3>3, <3>4 DEF slots
  <2>7. Cardinality(DOMAIN s) <= Cardinality(slots)
    BY <2>5, <2>6, FS_Injection
  <2>8. Cardinality(DOMAIN s) = Len(s)
    <3>1. DOMAIN s = 1 .. Len(s) /\ Len(s) \in Nat /\ 1 \in Int /\ Len(s) \in Int
      OBVIOUS
    <3>2. Cardinality(1 .. Len(s)) = IF 1 > Len(s) THEN 0 ELSE Len(s) - 1 + 1
      BY <3>1, FS_Interval
    <3> QED
      BY <3>1, <3>2
  <2> QED
    BY <1>1, <2>6, <2>7, <2>8
<1> QED
  BY <1>4, <1>5

\* IInv contains the type invariant.
LEMMA Types == ASSUME IInv PROVE TypeOK
<1>1. TypeInv /\ PlaceInv
  BY DEF IInv
<1>2. CountersAgree /\ DmaRing
  BY Counters, RingFits
<1>3. ASSUME NEW l \in Link, NEW q \in {out[l], in[l]}
      PROVE  /\ {q.nElm, q.taken, q.completed, q.unpacked, q.address} \subseteq Nat
             /\ q.cur \in 1 .. q.nElm + 1
             /\ q.st \in States
  <2>1. q \in Queues
    BY <1>1, QueueTypes
  <2>2. q.cur <= q.nElm + 1
    BY <1>1, QueueTypes DEF QueueInv
  <2> QED
    BY <2>1, <2>2 DEF Queues
<1>4. ASSUME NEW p \in Proc, NEW j \in DOMAIN dma[p], NEW c \in Range(dma[p][j].copies)
      PROVE  c.to \in DOMAIN mem
  <2>1. dma[p] \in Seq(DmaRequests) /\ DOMAIN mem = Cells(prog.fences)
    BY <1>1 DEF TypeInv
  <2>2. dma[p][j].copies \in Seq(CopySet)
    <3>1. dma[p][j] \in DmaRequests
      BY <2>1
    <3> QED
      BY <3>1 DEF DmaRequests
  <2>3. PICK n \in DOMAIN dma[p][j].copies : c = dma[p][j].copies[n]
    BY DEF Range
  <2>4. c \in CopySet
    BY <2>2, <2>3
  <2> QED
    BY <2>1, <2>4 DEF CopySet
<1>5. \A q \in {out[l] : l \in Link} \union {in[l] : l \in Link} :
             /\ {q.nElm, q.taken, q.completed, q.unpacked, q.address} \subseteq Nat
             /\ q.cur \in 1 .. q.nElm + 1
             /\ q.st \in States
  BY <1>3
<1>6. /\ prog \in Programs
      /\ pc \in [Proc -> {"register", "fence", "drain", "done"}]
      /\ round \in [Proc -> 1 .. Len(prog.fences) + 1]
      /\ request \in [Link -> Nat] /\ confirm \in [Link -> Nat]
  BY <1>1 DEF TypeInv
<1> QED
  BY <1>2, <1>4, <1>5, <1>6 DEF TypeOK

\* The counters that emb_process_outgoing and emb_process_incoming compare stay apart
\* by no more than the buffers, no DMA ring ever holds more than 2 * BPQ + 1 requests
\* for each other processor, so that the ring of set_up_dma_ring cannot overflow,
\* and every variable has its type.
THEOREM TypeCorrect == Spec => []TypeOK
<1>1. IInv => TypeOK
  BY Types
<1> QED
  BY <1>1, Inductive, PTL

\* No DMA engine reads an element that emb_process_outgoing has passed nor writes one
\* that emb_process_incoming has passed: after emb_fence the program may use the
\* memory again, whatever requests are still in the rings.
THEOREM NoLateAccessAlways == Spec => []NoLateAccess
<1>1. IInv => NoLateAccess
  BY LateAccess
<1> QED
  BY <1>1, Inductive, PTL

\* dma_completion_function counts a completed request for the element that its queue
\* is at, never for a later one; and between two elements the word confirm is 0 and no
\* write to it is under way, so that emb_process_incoming cannot take a confirmation
\* for one of the next element.
THEOREM WritesCurrentAlways == Spec => []WritesCurrent
<1>1. IInv => WritesCurrent
  BY CurrentWrites
<1> QED
  BY <1>1, Inductive, PTL
=============================================================================
