------------------------- MODULE EmbContents_proofs --------------------------
(***************************************************************************)
(* What the transfers of EmbTransfer bring, and that they are those of     *)
(* Exchange.                                                               *)
(*                                                                         *)
(* A fragment of the element that a link works on is, one after the other, *)
(* in the sender's user memory, in a buffer, on its way, and in the        *)
(* receiver's user memory; or it goes directly.                            *)
(***************************************************************************)
EXTENDS EmbTransfer_proofs

-----------------------------------------------------------------------------
(* The invariant of the contents. *)

\* Ring s carries copy c for link l, in a request of kind k and value v.
Carries(s, l, k, v, c) ==
    \E j \in DOMAIN s : /\ Kind(s[j]) = k /\ LinkOf(s[j]) = l /\ Value(s[j]) = v
                        /\ \E i \in DOMAIN s[j].copies : s[j].copies[i] = c
Moving(l, k, v, c) == Carries(SRing(l), l, k, v, c) \/ Carries(RRing(l), l, k, v, c)

\* Where fragment n of the receiver's element comes from, and where a DMA engine
\* brings it.
Source(l, n) == SrcCell(l, round[l[2]], in[l].cur, n)
Direct(l) == Zero(l) \/ Gets(l)
Target(l, n) == IF Direct(l) THEN Dst(l, n) ELSE InBuf(l, n)

\* The fragments that the engines have been told to bring.
Issued(l) == IF Host(l[1]) THEN in[l].taken
             ELSE IF Zero(l) /\ out[l].st = 299 THEN InElem(l).frags ELSE out[l].taken

\* The copy is one of fragment n, from where that still is.
Brings(l, k, v, c, n) ==
    /\ c.to = Target(l, n)
    /\ c.from = Source(l, n) \/ (c.from = OutBuf(l, n) /\ mem[OutBuf(l, n)] = Source(l, n))
    /\ k = "request" => Gets(l) /\ Rank(v, 1, InElem(l).frags) = n + 2
    /\ k \in {"out", "in"} \/ (k = "confirm" /\ ~Zero(l)) => v = n + 1
    /\ k = "confirm" /\ Zero(l) /\ c.from # Source(l, n) => n + 1 = InElem(l).frags
MoveInv(l) ==
    \A k, v, c : Moving(l, k, v, c) => \E n \in 0 .. InElem(l).frags - 1 : Brings(l, k, v, c, n)
\* The host's buffers hold what it has announced and nobody has begun to fetch.
HoldInv(l) ==
    Host(l[1]) =>
        \A n \in Nat : in[l].taken <= n /\ n < out[l].taken => mem[OutBuf(l, n)] = Source(l, n)
\* What has been brought is where it belongs.
PartInv(l) ==
    /\ \A n \in Nat : n < in[l].unpacked => mem[Dst(l, n)] = Source(l, n)
    /\ \A n \in Nat :
           /\ in[l].unpacked <= n /\ n < Issued(l)
           /\ \A k, v, c : Moving(l, k, v, c) => c.to # Target(l, n)
           => mem[Target(l, n)] = Source(l, n)
DirectInv(l) == Asked(l) /\ Direct(l) => in[l].unpacked = 0
\* What the sender is through with has arrived.
DoneInv(l) ==
    \A r \in DOMAIN prog.fences : \A e \in DOMAIN prog.fences[r][l] :
        OutDone(l, r, e) => Arrived(l, r, e)

\* A processor to itself: its one buffer holds the fragment that it packed last.
SelfPart(l) ==
    /\ out[l].unpacked < OutElem(l).frags
    /\ out[l].taken = IF out[l].st = 101 THEN out[l].unpacked + 1 ELSE out[l].unpacked
    /\ out[l].st = 101 => mem[OutBuf(l, 0)] = Src(l, out[l].unpacked)
    /\ \A n \in Nat : n < out[l].unpacked =>
           mem[DstCell(l, round[l[1]], out[l].cur, n)] = Src(l, n)

ContentInv(l) ==
    /\ DoneInv(l)
    /\ IF Self(l) THEN Active(l) => SelfPart(l)
       ELSE MoveInv(l) /\ DirectInv(l) /\ (Active(l) => HoldInv(l) /\ PartInv(l))

-----------------------------------------------------------------------------
(* Lemmas about what rings carry. *)

\* A sequence carries what its parts carry.
LEMMA CarriesConcat ==
    ASSUME NEW S, NEW s \in Seq(S), NEW t \in Seq(S), NEW l, NEW k, NEW v, NEW c
    PROVE  Carries(s \o t, l, k, v, c) <=> Carries(s, l, k, v, c) \/ Carries(t, l, k, v, c)
<1>1. \A j \in DOMAIN s : j \in DOMAIN (s \o t) /\ (s \o t)[j] = s[j]
  OBVIOUS
<1>2. \A j \in DOMAIN t : Len(s) + j \in DOMAIN (s \o t) /\ (s \o t)[Len(s) + j] = t[j]
  OBVIOUS
<1>3. \A j \in DOMAIN (s \o t) : \/ j \in DOMAIN s /\ (s \o t)[j] = s[j]
                                 \/ j - Len(s) \in DOMAIN t /\ (s \o t)[j] = t[j - Len(s)]
  OBVIOUS
<1>4. PICK u : u = s \o t
  OBVIOUS
<1>5. Carries(u, l, k, v, c) => Carries(s, l, k, v, c) \/ Carries(t, l, k, v, c)
  BY <1>3, <1>4 DEF Carries
<1>6. Carries(s, l, k, v, c) => Carries(u, l, k, v, c)
  BY <1>1, <1>4 DEF Carries
<1>7. Carries(t, l, k, v, c) => Carries(u, l, k, v, c)
  BY <1>2, <1>4 DEF Carries
<1> QED
  BY <1>4, <1>5, <1>6, <1>7

\* What a ring of one request carries.
LEMMA CarriesOne ==
    ASSUME NEW x, NEW l, NEW k, NEW v, NEW c
    PROVE  Carries(<<x>>, l, k, v, c) <=>
               /\ Kind(x) = k /\ LinkOf(x) = l /\ Value(x) = v
               /\ \E i \in DOMAIN x.copies : x.copies[i] = c
<1>1. DOMAIN <<x>> = {1} /\ <<x>>[1] = x
  OBVIOUS
<1> QED
  BY <1>1 DEF Carries

\* Requests for other links, and those without copies, carry nothing for link l.
LEMMA CarriesNone ==
    ASSUME NEW s, NEW l, \A j \in DOMAIN s : LinkOf(s[j]) # l \/ s[j].copies = <<>>
    PROVE  \A k, v, c : ~Carries(s, l, k, v, c)
<1>1. DOMAIN <<>> = {}
  OBVIOUS
<1> QED
  BY <1>1 DEF Carries

\* Fragments less than BPQ apart use different buffers.
LEMMA ModDistinct ==
    ASSUME NEW a \in Nat, NEW b \in Nat, a < b, b - a < BPQ
    PROVE  a % BPQ # b % BPQ
<1> SUFFICES ASSUME a % BPQ = b % BPQ PROVE FALSE
  OBVIOUS
<1>1. PICK n \in Nat \ {0} : n = BPQ
  BY BpqAssumption
<1>2. PICK i \in Int, j \in Int, r \in Int : a = n * i + r /\ b = n * j + r
  <2>1. a = n * (a \div n) + (a % n) /\ b = n * (b \div n) + (b % n)
    OBVIOUS
  <2>2. a \div n \in Int /\ b \div n \in Int /\ a % n \in Int
    OBVIOUS
  <2> QED
    BY <1>1, <2>1, <2>2
<1>3. b - a = n * (j - i)
  BY <1>2
<1>4. j - i <= 0 \/ j - i >= 1
  BY <1>2
<1>5. j - i <= 0 => n * (j - i) <= 0
  BY <1>1, <1>2
<1>6. j - i >= 1 => n * (j - i) >= n
  BY <1>1, <1>2
<1> QED
  BY <1>1, <1>3, <1>4, <1>5, <1>6

\* Two counts less than BPQ apart use different staging buffers.
LEMMA BuffersApart ==
    ASSUME NEW l, NEW a \in Nat, NEW b \in Nat, a # b, a - b < BPQ, b - a < BPQ
    PROVE  OutBuf(l, a) # OutBuf(l, b) /\ InBuf(l, a) # InBuf(l, b)
<1>1. a % BPQ # b % BPQ
  BY ModDistinct
<1> QED
  BY <1>1 DEF OutBuf, InBuf

-----------------------------------------------------------------------------
(* Lemmas about the links that a step does not touch. *)

\* The two ends of link l stay in their fences, the receiver at its element.
AtSame(l) ==
    /\ prog' = prog /\ round'[l[1]] = round[l[1]] /\ round'[l[2]] = round[l[2]]
    /\ in'[l].cur = in[l].cur

\* Then the terms of the invariant keep their values.
LEMMA SameTerms ==
    ASSUME NEW l, AtSame(l)
    PROVE  /\ InElem(l)' = InElem(l)
           /\ (Host(l[1])' <=> Host(l[1])) /\ (Host(l[2])' <=> Host(l[2]))
           /\ (Zero(l)' <=> Zero(l)) /\ (Gets(l)' <=> Gets(l)) /\ (Fetches(l)' <=> Fetches(l))
           /\ (Direct(l)' <=> Direct(l))
           /\ \A n : /\ Source(l, n)' = Source(l, n) /\ Target(l, n)' = Target(l, n)
                     /\ Dst(l, n)' = Dst(l, n)
<1>1. InElem(l)' = InElem(l) /\ (Host(l[1])' <=> Host(l[1])) /\ (Host(l[2])' <=> Host(l[2]))
  BY DEF AtSame, InElem, Elements, Host
<1>2. (Zero(l)' <=> Zero(l)) /\ (Gets(l)' <=> Gets(l)) /\ (Fetches(l)' <=> Fetches(l))
  BY <1>1 DEF Zero, Gets, Fetches
<1>3. Direct(l)' <=> Direct(l)
  BY <1>2 DEF Direct
<1>4. \A n : Source(l, n)' = Source(l, n) /\ Dst(l, n)' = Dst(l, n)
  BY DEF AtSame, Source, Dst
<1>5. \A n : Target(l, n)' = Target(l, n)
  BY <1>3, <1>4 DEF Target
<1> QED
  BY <1>1, <1>2, <1>3, <1>4, <1>5

\* What a step keeps of link l: its cells, and what is moving.
CellsKept(l) ==
    \A n : /\ mem'[OutBuf(l, n)] = mem[OutBuf(l, n)] /\ mem'[InBuf(l, n)] = mem[InBuf(l, n)]
           /\ \A r, e : mem'[DstCell(l, r, e, n)] = mem[DstCell(l, r, e, n)]
MovesKept(l) == \A k, v, c : Moving(l, k, v, c)' <=> Moving(l, k, v, c)

\* The sender is through with the same elements.
LEMMA OutDoneKept ==
    ASSUME NEW l, AtSame(l), out'[l].cur = out[l].cur,
           (pc'[l[1]] = "drain") <=> (pc[l[1]] = "drain")
    PROVE  \A r, e : OutDone(l, r, e)' <=> OutDone(l, r, e)
  BY DEF AtSame, OutDone

\* Cells of user memory of elements that the sender is through with keep their content.
LEMMA DoneKept ==
    ASSUME NEW l, DoneInv(l), prog' = prog,
           \A r \in DOMAIN prog.fences : \A e \in DOMAIN prog.fences[r][l] :
               OutDone(l, r, e)' =>
                   /\ OutDone(l, r, e)
                   /\ \A n \in 0 .. prog.fences[r][l][e].frags - 1 :
                          mem'[DstCell(l, r, e, n)] = mem[DstCell(l, r, e, n)]
    PROVE  DoneInv(l)'
  BY DEF DoneInv, Arrived

\* What a step does to a link that it does not touch.
Still(l) ==
    /\ AtSame(l) /\ CellsKept(l) /\ MovesKept(l)
    /\ (pc'[l[1]] = "drain") <=> (pc[l[1]] = "drain")
    /\ out'[l].cur = out[l].cur /\ out'[l].st = out[l].st
    /\ out'[l].taken = out[l].taken /\ out'[l].unpacked = out[l].unpacked
    /\ in'[l].taken = in[l].taken /\ in'[l].unpacked = in[l].unpacked
    /\ Asked(l)' => Asked(l) \/ in'[l].unpacked = 0

\* A step that leaves the whole of link l alone keeps what is said of its contents.
LEMMA Untouched == ASSUME NEW l, ContentInv(l), Still(l) PROVE ContentInv(l)'
<1>1. /\ AtSame(l) /\ CellsKept(l) /\ MovesKept(l)
      /\ (pc'[l[1]] = "drain") <=> (pc[l[1]] = "drain")
      /\ out'[l].cur = out[l].cur /\ out'[l].st = out[l].st
      /\ out'[l].taken = out[l].taken /\ out'[l].unpacked = out[l].unpacked
      /\ in'[l].taken = in[l].taken /\ in'[l].unpacked = in[l].unpacked
      /\ Asked(l)' => Asked(l) \/ in'[l].unpacked = 0
  BY DEF Still
<1>2. DoneInv(l)'
  <2>1. \A r, e : OutDone(l, r, e)' <=> OutDone(l, r, e)
    BY <1>1, OutDoneKept
  <2>2. DoneInv(l) /\ prog' = prog
    BY <1>1 DEF ContentInv, AtSame
  <2> QED
    BY <1>1, <2>1, <2>2, DoneKept DEF CellsKept
<1>3. Active(l)' <=> Active(l)
  BY <1>1 DEF Active
<1>4. CASE Self(l)
  <2>1. SelfPart(l) => SelfPart(l)'
    BY <1>1 DEF SelfPart, AtSame, CellsKept, Src, OutElem, Elements
  <2> QED
    BY <1>2, <1>3, <1>4, <2>1 DEF ContentInv, Self
<1>5. CASE ~Self(l)
  <2>1. /\ InElem(l)' = InElem(l)
        /\ (Host(l[1])' <=> Host(l[1]))
        /\ (Zero(l)' <=> Zero(l)) /\ (Gets(l)' <=> Gets(l))
        /\ (Direct(l)' <=> Direct(l))
        /\ \A n : /\ Source(l, n)' = Source(l, n) /\ Target(l, n)' = Target(l, n)
                  /\ Dst(l, n)' = Dst(l, n)
    BY <1>1, SameTerms
  <2>2. Issued(l)' = Issued(l)
    BY <1>1, <2>1 DEF Issued
  <2>3. MoveInv(l)'
    <3>1. \A k, v, c, n : Brings(l, k, v, c, n) => Brings(l, k, v, c, n)'
      BY <1>1, <2>1 DEF Brings, CellsKept
    <3>2. MoveInv(l)
      BY <1>5 DEF ContentInv
    <3> QED
      BY <1>1, <2>1, <3>1, <3>2 DEF MoveInv, MovesKept
  <2>4. DirectInv(l)'
    <3>1. DirectInv(l)
      BY <1>5 DEF ContentInv
    <3> QED
      BY <1>1, <2>1, <3>1 DEF DirectInv
  <2>5. HoldInv(l) => HoldInv(l)'
    BY <1>1, <2>1 DEF HoldInv, CellsKept
  <2>6. PartInv(l) => PartInv(l)'
    <3>1. \A n : mem'[Target(l, n)] = mem[Target(l, n)] /\ mem'[Dst(l, n)] = mem[Dst(l, n)]
      BY <1>1 DEF Target, Dst, CellsKept
    <3> QED
      BY <1>1, <2>1, <2>2, <3>1 DEF PartInv, MovesKept
  <2> QED
    BY <1>2, <1>3, <1>5, <2>3, <2>4, <2>5, <2>6 DEF ContentInv, Self
<1> QED
  BY <1>4, <1>5

\* A link whose sender is before or past an element has nothing moving.
LEMMA Closed ==
    ASSUME NEW l, ~Active(l)', DoneInv(l)', ~Self(l) => DirectInv(l)',
           ~Self(l) => \A k, v, c : ~Moving(l, k, v, c)'
    PROVE  ContentInv(l)'
  BY DEF ContentInv, MoveInv, Self

\* A step appends requests t to the ring of p.
LEMMA MovingAppend ==
    ASSUME TypeInv, NEW p \in Proc, NEW t \in Seq(DmaRequests), dma' = [dma EXCEPT ![p] = @ \o t],
           NEW l \in Link, NEW k, NEW v, NEW c
    PROVE  Moving(l, k, v, c)' <=> \/ Moving(l, k, v, c)
                                   \/ p \in {l[1], l[2]} /\ Carries(t, l, k, v, c)
<1>1. dma \in [Proc -> Seq(DmaRequests)] /\ l[1] \in Proc /\ l[2] \in Proc
  BY LinkEnds DEF TypeInv
<1>2. ASSUME NEW q \in Proc
      PROVE  Carries(dma'[q], l, k, v, c) <=>
                 Carries(dma[q], l, k, v, c) \/ (q = p /\ Carries(t, l, k, v, c))
  <2>1. CASE q = p
    <3>1. PICK s \in Seq(DmaRequests) : s = dma[p]
      BY <1>1
    <3>2. dma'[p] = s \o t
      BY <1>1, <3>1
    <3>3. Carries(s \o t, l, k, v, c) <=> Carries(s, l, k, v, c) \/ Carries(t, l, k, v, c)
      BY CarriesConcat
    <3> QED
      BY <2>1, <3>1, <3>2, <3>3
  <2>2. CASE q # p
    BY <1>1, <2>2
  <2> QED
    BY <2>1, <2>2
<1>3. /\ Carries(dma'[l[1]], l, k, v, c) <=>
             Carries(dma[l[1]], l, k, v, c) \/ (l[1] = p /\ Carries(t, l, k, v, c))
      /\ Carries(dma'[l[2]], l, k, v, c) <=>
             Carries(dma[l[2]], l, k, v, c) \/ (l[2] = p /\ Carries(t, l, k, v, c))
  BY <1>1, <1>2
<1>4. Moving(l, k, v, c)' <=> Carries(dma'[l[1]], l, k, v, c) \/ Carries(dma'[l[2]], l, k, v, c)
  BY DEF Moving, SRing, RRing, Carries
<1>5. Moving(l, k, v, c) <=> Carries(dma[l[1]], l, k, v, c) \/ Carries(dma[l[2]], l, k, v, c)
  BY DEF Moving, SRing, RRing
<1> QED
  BY <1>3, <1>4, <1>5

\* Nothing more moves for a link for which they carry nothing.
LEMMA MovesAppend ==
    ASSUME TypeInv, NEW p \in Proc, NEW t \in Seq(DmaRequests), dma' = [dma EXCEPT ![p] = @ \o t],
           NEW l \in Link, \A j \in DOMAIN t : LinkOf(t[j]) # l \/ t[j].copies = <<>>
    PROVE  MovesKept(l)
<1>1. \A k, v, c : ~Carries(t, l, k, v, c)
  BY CarriesNone
<1> QED
  BY <1>1, MovingAppend DEF MovesKept

\* The moving copies are those of the DMA requests.
LEMMA MovesSame ==
    ASSUME NEW l, dma' = dma
    PROVE  MovesKept(l)
  BY DEF MovesKept, Moving, Carries, SRing, RRing

\* Writing a word moves nothing.
LEMMA MovesWrite ==
    ASSUME TypeInv, NEW p \in Proc, NEW m \in Link, NEW n \in Nat, NEW w,
           w = Confirm(m, n) \/ w = Request(m, n),
           PioWriteRemote(p, w), NEW l \in Link
    PROVE  MovesKept(l)
<1>1. CASE Host(p)
  BY <1>1, MovesSame DEF PioWriteRemote, DispatchAndWrite
<1>2. CASE ~Host(p)
  <2>1. PICK t : t = <<DmaRequest(<<>>, w, NoNote)>>
    OBVIOUS
  <2>2. dma' = [dma EXCEPT ![p] = @ \o t]
    BY <1>2, <2>1, BoardWrites DEF Dispatch
  <2>3. <<>> \in Seq(CopySet)
    OBVIOUS
  <2>4. DmaRequest(<<>>, w, NoNote) \in DmaRequests
    BY <2>3, WordTypes
  <2>5. t \in Seq(DmaRequests)
    BY <2>1, <2>4
  <2>6. \A j \in DOMAIN t : t[j].copies = <<>>
    BY <2>1 DEF DmaRequest
  <2> QED
    BY <2>2, <2>5, <2>6, MovesAppend
<1> QED
  BY <1>1, <1>2

-----------------------------------------------------------------------------
(* Where the fragments on their way are. *)

\* What moves for a link is in the ring of the end that asked for it.
LEMMA MovingIn ==
    ASSUME IInv, NEW l \in Link, ~Self(l), NEW k, NEW v, NEW c, Moving(l, k, v, c)
    PROVE  /\ k \in RequestKinds /\ v \in Nat
           /\ k = "confirm" => v # 0
           /\ k \in {"confirm", "out"} => ~Host(l[1]) /\ \E j \in Of(SRing(l), k, l) : Value(SRing(l)[j]) = v
           /\ k \in {"request", "in"} => \E j \in Of(RRing(l), k, l) : Value(RRing(l)[j]) = v
<1>1. l[1] \in Proc /\ l[2] \in Proc /\ l[1] # l[2] /\ TypeInv
  BY LinkEnds, LinkFacts
<1>2. PICK p \in {l[1], l[2]} : Carries(dma[p], l, k, v, c)
  BY DEF Moving, SRing, RRing
<1>3. PICK j \in DOMAIN dma[p] : /\ Kind(dma[p][j]) = k /\ LinkOf(dma[p][j]) = l /\ Value(dma[p][j]) = v
                                 /\ \E i \in DOMAIN dma[p][j].copies : dma[p][j].copies[i] = c
  BY <1>2 DEF Carries
<1>4. PICK x \in DmaRequests : x = dma[p][j]
  BY <1>1 DEF TypeInv
<1>5. RequestOf(p, x) /\ CopiesAt(x, round, out, in) /\ (dma[p] # <<>> => ~Host(p))
  BY <1>1, <1>4 DEF IInv, RingInv
<1>6. k # "none" /\ (k = "confirm" => v # 0)
  BY <1>3, <1>4, <1>5 DEF CopiesAt
<1>7. k \in RequestKinds /\ v \in Nat
  BY <1>3, <1>4, <1>5, <1>6, KindOf DEF RequestOf
<1>8. /\ k \in {"confirm", "out"} => l[1] = p
      /\ k \in {"request", "in"} => l[2] = p
  BY <1>3, <1>4, <1>5 DEF RequestOf
<1>9. j \in Of(dma[p], k, l)
  BY <1>3 DEF Of
<1>10. dma[p] # <<>>
  BY <1>3
<1> QED
  BY <1>3, <1>5, <1>6, <1>7, <1>8, <1>9, <1>10 DEF SRing, RRing

\* Fragment n of link l is between what is through and what has been told.
Within(l, n) ==
    /\ in[l].unpacked <= n /\ n < Issued(l)
    /\ ~Direct(l) => IF Fetches(l) THEN in[l].completed <= n ELSE confirm[l] <= n
    /\ Gets(l) => Wanted(l) <= n + 1
    /\ Zero(l) /\ out[l].st = 201 => out[l].completed <= n /\ n < out[l].taken

\* A copy that will be confirmed brings a fragment that is given but not yet through, in a transfer under way.
LEMMA WithinConfirm ==
    ASSUME IInv, NEW l \in Link, ~Self(l), DirectInv(l), NEW v, NEW c, Moving(l, "confirm", v, c),
           NEW n \in Nat, n < InElem(l).frags, Brings(l, "confirm", v, c, n)
    PROVE  Active(l) /\ Within(l, n)
<1>1. TypeInv /\ PlaceInv /\ LinkInv(l)
  BY LinkFacts
<1>2. v \in Nat /\ v # 0 /\ ~Host(l[1])
  BY MovingIn
<1>3. PICK j \in Of(SRing(l), "confirm", l) : Value(SRing(l)[j]) = v
  BY MovingIn
<1>4. Active(l)
  BY <1>1, <1>2, <1>3 DEF LinkInv, RestInv, IdleInv, PassedInv, Quiet, Valued
<1>5. Asked(l) /\ ActiveInv(l) /\ ReceiverInv(l)
  BY <1>4, LinkFacts
<1>6. /\ Total(l) \in Nat /\ Given(l) \in Nat /\ Taken(l) \in Nat /\ confirm[l] \in Nat
      /\ out[l].taken \in Nat /\ in[l].unpacked \in Nat
  BY <1>1, <1>5, AskedTypes, QueueTypes
<1>7. Rank(v, 1, Total(l)) = v
  BY <1>2 DEF Rank
<1>8. v \in confirm[l] + 1 .. Given(l)
  <2>1. Run(SRing(l), "confirm", l, 1, Total(l), confirm[l], Given(l))
    BY <1>5 DEF ActiveInv
  <2> QED
    BY <1>3, <1>7, <2>1 DEF Run
<1>9. ~Gets(l) /\ ~Fetches(l)
  BY <1>2 DEF Gets, Fetches
<1>10. CASE Zero(l)
  <2>1. out[l].st # 201
    BY <1>6, <1>8, <1>10 DEF Given
  <2>2. out[l].st = 299
    BY <1>5, <1>10, <2>1 DEF ActiveInv
  <2>3. in[l].unpacked = 0
    BY <1>5, <1>10 DEF DirectInv, Direct
  <2> QED
    BY <1>2, <1>4, <1>9, <1>10, <2>1, <2>2, <2>3 DEF Within, Issued, Direct
<1>11. CASE ~Zero(l)
  <2>1. v = n + 1
    BY <1>11 DEF Brings
  <2>2. Given(l) = out[l].taken /\ Taken(l) = in[l].unpacked /\ Issued(l) = out[l].taken
    BY <1>2, <1>9, <1>11 DEF Given, Taken, Issued
  <2>3. Taken(l) <= confirm[l]
    BY <1>5 DEF ActiveInv
  <2> QED
    BY <1>4, <1>6, <1>8, <1>9, <1>11, <2>1, <2>2, <2>3 DEF Within
<1> QED
  BY <1>10, <1>11

\* So does a copy out of the sender's staging buffers,
LEMMA WithinOut ==
    ASSUME IInv, NEW l \in Link, ~Self(l), DirectInv(l), NEW v, NEW c, Moving(l, "out", v, c),
           NEW n \in Nat, n < InElem(l).frags, Brings(l, "out", v, c, n)
    PROVE  Active(l) /\ Within(l, n)
<1>1. TypeInv /\ PlaceInv /\ LinkInv(l)
  BY LinkFacts
<1>2. PICK j \in Of(SRing(l), "out", l) : Value(SRing(l)[j]) = v
  BY MovingIn
<1>3. Active(l)
  BY <1>1, <1>2 DEF LinkInv, RestInv, IdleInv, PassedInv, Quiet
<1>4. Asked(l) /\ ActiveInv(l) /\ ReceiverInv(l)
  BY <1>3, LinkFacts
<1>5. Zero(l)
  BY <1>2, <1>4 DEF ActiveInv
<1>6. out[l].taken \in Nat /\ out[l].completed \in Nat /\ in[l].unpacked = 0
  BY <1>1, <1>4, <1>5, QueueTypes DEF DirectInv, Direct
<1>7. v = n + 1
  BY DEF Brings
<1>8. Rank(v, 1, InElem(l).frags) = v
  BY <1>7 DEF Rank
<1>9. v \in out[l].completed + 1 .. IF out[l].st = 201 THEN out[l].taken ELSE out[l].taken - 1
  <2>1. Run(SRing(l), "out", l, 1, InElem(l).frags, out[l].completed,
            IF out[l].st = 201 THEN out[l].taken ELSE out[l].taken - 1)
    BY <1>4, <1>5 DEF ActiveInv
  <2> QED
    BY <1>2, <1>8, <2>1 DEF Run
<1>10. out[l].st \in {201, 299} /\ ~Host(l[1]) /\ ~Gets(l)
  BY <1>4, <1>5 DEF ActiveInv, Zero, Gets
<1>11. out[l].completed <= n /\ n < out[l].taken
  BY <1>6, <1>7, <1>9
<1> QED
  BY <1>3, <1>5, <1>6, <1>10, <1>11 DEF Within, Issued, Direct

\* a copy that answers a request,
LEMMA WithinRequest ==
    ASSUME IInv, NEW l \in Link, ~Self(l), DirectInv(l), NEW v, NEW c, Moving(l, "request", v, c),
           NEW n \in Nat, n < InElem(l).frags, Brings(l, "request", v, c, n)
    PROVE  Active(l) /\ Within(l, n)
<1>1. TypeInv /\ PlaceInv /\ LinkInv(l)
  BY LinkFacts
<1>2. PICK j \in Of(RRing(l), "request", l) : Value(RRing(l)[j]) = v
  BY MovingIn
<1>3. Asked(l) /\ ReceiverInv(l)
  BY <1>1, <1>2 DEF LinkInv, RestInv
<1>4. Gets(l) /\ Rank(v, 1, InElem(l).frags) = n + 2
  BY DEF Brings
<1>5. Host(l[1]) /\ ~Zero(l) /\ ~Fetches(l) /\ First(l) = 1 /\ Total(l) = InElem(l).frags
      /\ Taken(l) = in[l].taken /\ Issued(l) = in[l].taken
  BY <1>4 DEF Gets, Zero, Fetches, First, Total, Taken, Issued
<1>6. in[l].unpacked = 0 /\ in[l].taken \in Nat /\ Wanted(l) \in Nat /\ Total(l) \in Nat
  BY <1>1, <1>3, <1>4, QueueTypes, AskedTypes DEF DirectInv, Direct
<1>7. n + 2 \in Wanted(l) + 1 .. in[l].taken + 1
  <2>1. Run(RRing(l), "request", l, 1, InElem(l).frags, Wanted(l), in[l].taken + 1)
    BY <1>3, <1>5 DEF ReceiverInv
  <2> QED
    BY <1>2, <1>4, <2>1 DEF Run
<1>8. Wanted(l) <= n + 1 /\ n < in[l].taken
  BY <1>6, <1>7
<1>9. Active(l)
  <2> SUFFICES ASSUME ~Active(l) PROVE FALSE
    OBVIOUS
  <2>1. CASE Passed(l)
    <3>1. request[l] = 0
      BY <1>1, <1>3, <2>1 DEF LinkInv, PassedInv
    <3>2. Wanted(l) = Total(l) + 1
      BY <2>1, <3>1 DEF Wanted
    <3>3. Taken(l) <= Total(l)
      BY <1>3 DEF ReceiverInv
    <3> QED
      BY <1>5, <1>6, <1>8, <3>2, <3>3
  <2>2. CASE ~Passed(l)
    <3>1. Taken(l) = 0
      BY <1>1, <1>3, <2>2 DEF LinkInv, IdleInv
    <3> QED
      BY <1>5, <1>6, <1>8, <3>1
  <2> QED
    BY <2>1, <2>2
<1> QED
  BY <1>4, <1>5, <1>6, <1>8, <1>9 DEF Within, Direct

\* and a copy into the receiver's memory or buffers.
LEMMA WithinIn ==
    ASSUME IInv, NEW l \in Link, ~Self(l), DirectInv(l), NEW v, NEW c, Moving(l, "in", v, c),
           NEW n \in Nat, n < InElem(l).frags, Brings(l, "in", v, c, n)
    PROVE  Active(l) /\ Within(l, n)
<1>1. TypeInv /\ PlaceInv /\ LinkInv(l)
  BY LinkFacts
<1>2. PICK j \in Of(RRing(l), "in", l) : Value(RRing(l)[j]) = v
  BY MovingIn
<1>3. Asked(l) /\ ReceiverInv(l)
  BY <1>1, <1>2 DEF LinkInv, RestInv
<1>4. Fetches(l)
  BY <1>2, <1>3 DEF ReceiverInv
<1>5. Host(l[1]) /\ ~Zero(l) /\ ~Gets(l) /\ Total(l) = InElem(l).frags
      /\ Taken(l) = in[l].unpacked /\ Issued(l) = in[l].taken
  BY <1>4 DEF Gets, Zero, Fetches, Total, Taken, Issued
<1>6. /\ in[l].unpacked \in Nat /\ in[l].completed \in Nat /\ in[l].taken \in Nat
      /\ Wanted(l) \in Nat /\ Total(l) \in Nat
  BY <1>1, <1>3, QueueTypes, AskedTypes
<1>7. v = n + 1 /\ Rank(v, 1, Total(l)) = v
  <2>1. v = n + 1
    BY DEF Brings
  <2> QED
    BY <2>1 DEF Rank
<1>8. /\ in[l].unpacked <= in[l].completed /\ in[l].taken <= Total(l) /\ Taken(l) <= Total(l)
      /\ v \in in[l].completed + 1 .. in[l].taken
  <2>1. /\ in[l].unpacked <= in[l].completed /\ in[l].taken <= Total(l) /\ Taken(l) <= Total(l)
        /\ Run(RRing(l), "in", l, 1, Total(l), in[l].completed, in[l].taken)
    BY <1>3, <1>4 DEF ReceiverInv
  <2> QED
    BY <1>2, <1>7, <2>1 DEF Run
<1>9. in[l].completed <= n /\ n < in[l].taken
  BY <1>6, <1>7, <1>8
<1>10. Active(l)
  <2> SUFFICES ASSUME ~Active(l) PROVE FALSE
    OBVIOUS
  <2>1. CASE Passed(l)
    <3>1. request[l] = 0
      BY <1>1, <1>3, <2>1 DEF LinkInv, PassedInv
    <3>2. Wanted(l) = Total(l) + 1
      BY <2>1, <3>1 DEF Wanted
    <3>3. Wanted(l) <= Taken(l) + 1
      BY <1>3 DEF ReceiverInv
    <3> QED
      BY <1>5, <1>6, <1>8, <1>9, <3>2, <3>3
  <2>2. CASE ~Passed(l)
    <3>1. in[l].taken = 0
      BY <1>1, <1>3, <2>2 DEF LinkInv, IdleInv, Rested
    <3> QED
      BY <1>6, <1>9, <3>1
  <2> QED
    BY <2>1, <2>2
<1> QED
  BY <1>4, <1>5, <1>6, <1>8, <1>9, <1>10 DEF Within

\* A fragment on its way belongs to the element that both ends are at, and is within
\* the window of the buffers.
LEMMA MovingWithin ==
    ASSUME IInv, NEW l \in Link, ~Self(l), ContentInv(l), NEW k, NEW v, NEW c, Moving(l, k, v, c)
    PROVE  Active(l) /\ \E n \in Nat : n < InElem(l).frags /\ Brings(l, k, v, c, n) /\ Within(l, n)
<1>1. MoveInv(l) /\ DirectInv(l)
  BY DEF ContentInv
<1>2. PICK n \in 0 .. InElem(l).frags - 1 : Brings(l, k, v, c, n)
  BY <1>1 DEF MoveInv
<1>3. k \in RequestKinds
  BY MovingIn
<1>4. n \in Nat /\ n < InElem(l).frags
  <2>1. Asked(l)
    <3>1. Asked(l) \/ RestInv(l)
      BY LinkFacts DEF LinkInv
    <3> QED
      BY <1>3, <3>1, MovingIn DEF RestInv, Quiet, RequestKinds
  <2>2. InElem(l).frags \in Nat
    BY <2>1, LinkFacts, AskedTypes
  <2> QED
    BY <2>2
<1>5. Active(l) /\ Within(l, n)
  BY <1>1, <1>2, <1>3, <1>4, WithinConfirm, WithinOut, WithinRequest, WithinIn DEF RequestKinds
<1> QED
  BY <1>2, <1>4, <1>5

-----------------------------------------------------------------------------
(* The sender's calls. *)

\* What an end of link l does to link m: it writes a cell of link l only.
Elsewhere(l, m) ==
    /\ m # l /\ prog' = prog /\ pc' = pc /\ round' = round
    /\ out'[m] = out[m] /\ in'[m] = in[m] /\ MovesKept(m)
    /\ \/ mem' = mem
       \/ \E a, x : a[2] = l /\ mem' = [mem EXCEPT ![a] = x]

\* A step at other words, buffers and elements keeps what is said of link m.
LEMMA OthersKept == ASSUME NEW l, NEW m, ContentInv(m), Elsewhere(l, m) PROVE ContentInv(m)'
<1> USE DEF Elsewhere
<1>1. CellsKept(m)
  <2>1. CASE mem' = mem
    BY <2>1 DEF CellsKept
  <2>2. ASSUME NEW a, NEW x, a[2] = l, mem' = [mem EXCEPT ![a] = x] PROVE CellsKept(m)
    <3>1. \A b : b # a => mem'[b] = mem[b]
      BY <2>2
    <3>2. \A n : OutBuf(m, n)[2] = m /\ InBuf(m, n)[2] = m
      BY DEF OutBuf, InBuf
    <3>3. \A r, e, n : DstCell(m, r, e, n)[2] = m
      BY DEF DstCell
    <3>4. \A n : OutBuf(m, n) # a /\ InBuf(m, n) # a
      BY <2>2, <3>2
    <3>5. \A r, e, n : DstCell(m, r, e, n) # a
      BY <2>2, <3>3
    <3> QED
      BY <3>1, <3>4, <3>5 DEF CellsKept
  <2> QED
    BY <2>1, <2>2
<1>2. Still(m)
  BY <1>1 DEF Still, AtSame, Asked
<1> QED
  BY <1>2, Untouched

\* When the sender may fill a buffer, what is in the window is less than BPQ
\* fragments behind.
MayFill(l, case) ==
    /\ case = 201 => out[l].taken - out[l].completed < BPQ
    /\ case # 201 => ~WindowShut(l)
\* A sender that may fill a buffer has less than BPQ fragments that are not through, so the buffer is free.
LEMMA WindowOpen ==
    ASSUME IInv, NEW l \in Link, ~Self(l), NEW case \in {201, 202, 302}, Sending(l, case),
           MayFill(l, case), Active(l)
    PROVE  \A n \in Nat : \/ Within(l, n)
                          \/ Host(l[1]) /\ in[l].taken <= n /\ n < out[l].taken
                          => n < out[l].taken /\ out[l].taken - n < BPQ
<1>1. TypeInv /\ PlaceInv /\ Asked(l) /\ ActiveInv(l) /\ ReceiverInv(l)
  BY LinkFacts
<1>2. /\ out[l].taken \in Nat /\ out[l].completed \in Nat /\ in[l].taken \in Nat
      /\ in[l].unpacked \in Nat /\ in[l].completed \in Nat
      /\ request[l] \in Nat /\ confirm[l] \in Nat
      /\ Taken(l) \in Nat /\ Wanted(l) \in Nat
  BY <1>1, QueueTypes, AskedTypes
<1>3. BPQ \in Nat
  BY BpqAssumption
<1>4. CASE case = 201
  <2>1. Zero(l) /\ ~Host(l[1]) /\ out[l].st = 201
    BY <1>4 DEF Sending, Active
  <2>2. out[l].taken - out[l].completed < BPQ
    BY <1>4 DEF MayFill
  <2>3. \A n \in Nat : Within(l, n) => out[l].completed <= n /\ n < out[l].taken
    BY <2>1 DEF Within
  <2> QED
    BY <1>2, <1>3, <2>1, <2>2, <2>3
<1>5. CASE case # 201
  <2>1. ~Zero(l) /\ request[l] = Wanted(l) /\ Taken(l) <= confirm[l] /\ (Host(l[1]) <=> case = 302)
        /\ (Host(l[1]) => confirm[l] = out[l].taken /\ in[l].taken <= confirm[l])
    BY <1>5 DEF Sending
  <2>2. out[l].taken - (Wanted(l) - 1) < BPQ
    BY <1>2, <1>3, <1>5, <2>1 DEF MayFill, WindowShut
  <2>3. Wanted(l) - 1 <= Taken(l)
    BY <1>1, <1>2 DEF ReceiverInv
  <2>4. CASE ~Host(l[1])
    <3>1. ~Gets(l) /\ ~Fetches(l) /\ Issued(l) = out[l].taken /\ ~Direct(l)
      BY <2>1, <2>4 DEF Gets, Fetches, Issued, Direct
    <3>2. \A n \in Nat : Within(l, n) => confirm[l] <= n /\ n < out[l].taken
      BY <3>1 DEF Within
    <3> QED
      BY <1>2, <1>3, <2>1, <2>2, <2>3, <2>4, <3>2
  <2>5. CASE Host(l[1]) /\ Gets(l)
    <3>1. Issued(l) = in[l].taken /\ Taken(l) = in[l].taken
      BY <2>1, <2>5 DEF Issued, Taken
    <3>2. \A n \in Nat : Within(l, n) => Wanted(l) <= n + 1 /\ n < in[l].taken
      BY <2>5, <3>1 DEF Within
    <3> QED
      BY <1>2, <1>3, <2>1, <2>2, <2>3, <2>5, <3>1, <3>2
  <2>6. CASE Host(l[1]) /\ ~Gets(l)
    <3>1. Fetches(l)
      BY <2>6 DEF Gets, Fetches
    <3>2. Issued(l) = in[l].taken /\ Taken(l) = in[l].unpacked /\ ~Direct(l)
      BY <2>1, <2>6 DEF Issued, Taken, Direct
    <3>3. in[l].unpacked <= in[l].completed /\ in[l].completed <= in[l].taken
      BY <1>1, <3>1 DEF ReceiverInv
    <3>4. \A n \in Nat : Within(l, n) => in[l].completed <= n /\ n < in[l].taken
      BY <3>1, <3>2 DEF Within
    <3> QED
      BY <1>2, <1>3, <2>1, <2>2, <2>3, <2>6, <3>2, <3>3, <3>4
  <2> QED
    BY <2>4, <2>5, <2>6
<1> QED
  BY <1>4, <1>5

\* Before the sender begins with an element there is nothing to hold.
LEMMA Opened ==
    ASSUME IInv, NEW l \in Link, ~Self(l), ContentInv(l), Asked(l), ~Passed(l)
    PROVE  HoldInv(l) /\ PartInv(l)
<1>1. CASE Active(l)
  BY <1>1 DEF ContentInv
<1>2. CASE ~Active(l)
  <2>1. TypeInv /\ PlaceInv /\ LinkInv(l)
    BY LinkFacts
  <2>2. Rested(in[l])
    BY <1>2, <2>1 DEF LinkInv, IdleInv
  <2>3. out[l].st = 0 /\ Rested(out[l])
    BY <1>2, <2>1 DEF Active, PlaceInv, QueueInv
  <2>4. in[l].taken = 0 /\ in[l].unpacked = 0 /\ out[l].taken = 0 /\ Issued(l) = 0
    BY <2>2, <2>3 DEF Rested, Issued
  <2> QED
    BY <2>4 DEF HoldInv, PartInv
<1> QED
  BY <1>1, <1>2

\* A call of the sender that fills at most the next buffer, and gives the engines
\* copies of the fragments that it issues.
Fills(l, case) ==
    \/ mem' = mem /\ ~Host(l[1])
    \/ /\ MayFill(l, case) /\ case \in {201, 202, 302}
       /\ mem' = [mem EXCEPT ![OutBuf(l, out[l].taken)] = Source(l, out[l].taken)]
Gives(l) ==
    /\ \A k, v, c : Moving(l, k, v, c) => Moving(l, k, v, c)'
    /\ \A k, v, c : Moving(l, k, v, c)' =>
           Moving(l, k, v, c) \/ \E n \in 0 .. InElem(l).frags - 1 : Brings(l, k, v, c, n)'
    /\ \A n \in Nat : Issued(l) <= n /\ n < Issued(l)' =>
           \E k, v, c : Moving(l, k, v, c)' /\ c.to = Target(l, n)

Sends(l, case) ==
    /\ OutCall(l, case) /\ out'[l].cur = out[l].cur /\ out'[l].st # 0
    /\ Fills(l, case) /\ Gives(l)
    /\ Host(l[1]) => out'[l].taken = out[l].taken + 1

\* Filling a buffer, or giving the address of the element, keeps the contents of the link,
LEMMA SendContent ==
    ASSUME IInv, NEW l \in Link, ~Self(l), ContentInv(l), NEW case \in {201, 202, 203, 204, 302},
           Sends(l, case)
    PROVE  ContentInv(l)'
<1> USE DEF Sends
<1>1. /\ Sending(l, case) /\ TypeInv /\ PlaceInv
      /\ prog' = prog /\ pc' = pc /\ round' = round /\ in' = in
  BY SenderCalls, LinkFacts DEF OutCall
<1>2. /\ AtSame(l) /\ Asked(l) /\ ~Passed(l)
  BY <1>1 DEF AtSame, Sending
<1>3. PICK t \in Nat : t = out[l].taken
  BY <1>1, QueueTypes
<1>4. /\ InElem(l)' = InElem(l)
      /\ (Host(l[1])' <=> Host(l[1]))
      /\ (Zero(l)' <=> Zero(l)) /\ (Gets(l)' <=> Gets(l))
      /\ (Direct(l)' <=> Direct(l))
      /\ \A n : /\ Source(l, n)' = Source(l, n) /\ Target(l, n)' = Target(l, n)
                /\ Dst(l, n)' = Dst(l, n)
  BY <1>2, SameTerms
<1>5. OutBuf(l, t) \in DOMAIN mem
  BY <1>1, Buffers DEF TypeInv
<1>6. \A a : a # OutBuf(l, t) => mem'[a] = mem[a]
  <2>1. CASE mem' = mem
    BY <2>1
  <2>2. ASSUME NEW x, mem' = [mem EXCEPT ![OutBuf(l, t)] = x]
        PROVE  \A a : a # OutBuf(l, t) => mem'[a] = mem[a]
    BY <2>2
  <2> QED
    BY <1>3, <2>1, <2>2 DEF Fills
<1>7. /\ \A n : InBuf(l, n) # OutBuf(l, t) /\ Dst(l, n) # OutBuf(l, t) /\ Target(l, n) # OutBuf(l, t)
      /\ \A r, e, n : DstCell(l, r, e, n) # OutBuf(l, t)
  BY DEF InBuf, OutBuf, Dst, DstCell, Target
<1>8. DoneInv(l)'
  <2>1. \A r, e : OutDone(l, r, e)' <=> OutDone(l, r, e)
    BY <1>1, <1>2, OutDoneKept
  <2>2. \A r, e, n : mem'[DstCell(l, r, e, n)] = mem[DstCell(l, r, e, n)]
    BY <1>6, <1>7
  <2>3. DoneInv(l) /\ prog' = prog
    BY <1>1 DEF ContentInv
  <2> QED
    BY <2>1, <2>2, <2>3, DoneKept
<1>9. DirectInv(l)'
  <2>1. DirectInv(l)
    BY DEF ContentInv
  <2> QED
    BY <1>1, <1>4, <2>1 DEF DirectInv, Asked
<1>10. ASSUME NEW n \in Nat, n # t,
              Active(l) => \/ Within(l, n)
                           \/ Host(l[1]) /\ in[l].taken <= n /\ n < t,
              Active(l)
       PROVE  mem'[OutBuf(l, n)] = mem[OutBuf(l, n)]
  <2>1. CASE mem' = mem
    BY <2>1
  <2>2. CASE MayFill(l, case) /\ case \in {201, 202, 302}
    <3>1. n < t /\ t - n < BPQ
      BY <1>1, <1>3, <1>10, <2>2, WindowOpen
    <3>2. n - t < BPQ
      BY <3>1, BpqAssumption
    <3>3. OutBuf(l, n) # OutBuf(l, t)
      BY <3>1, <3>2, BuffersApart
    <3> QED
      BY <1>6, <3>3
  <2> QED
    BY <2>1, <2>2 DEF Fills
<1>11. MoveInv(l)'
  <2> SUFFICES ASSUME NEW k, NEW v, NEW c, Moving(l, k, v, c)'
               PROVE  \E n \in 0 .. InElem(l)'.frags - 1 : Brings(l, k, v, c, n)'
    BY DEF MoveInv
  <2>1. CASE \E n \in 0 .. InElem(l).frags - 1 : Brings(l, k, v, c, n)'
    BY <1>4, <2>1
  <2>2. CASE Moving(l, k, v, c)
    <3>1. PICK n \in Nat : n < InElem(l).frags /\ Brings(l, k, v, c, n) /\ Within(l, n)
      BY <2>2, MovingWithin
    <3>2. Active(l)
      BY <2>2, MovingWithin
    <3>3. mem[OutBuf(l, n)] = Source(l, n) => mem'[OutBuf(l, n)] = Source(l, n)
      <4>1. CASE n # t
        BY <1>10, <3>1, <3>2, <4>1
      <4>2. CASE n = t
        BY <1>3, <1>5, <4>2 DEF Fills
      <4> QED
        BY <4>1, <4>2
    <3>4. Brings(l, k, v, c, n)'
      BY <1>4, <3>1, <3>3 DEF Brings
    <3>5. InElem(l).frags \in Nat
      BY <1>1, <1>2, AskedTypes
    <3>6. n \in 0 .. InElem(l).frags - 1
      BY <3>1, <3>5
    <3> QED
      BY <1>4, <3>4, <3>6
  <2> QED
    BY <2>1, <2>2 DEF Gives
<1>12. HoldInv(l) /\ PartInv(l)
  BY <1>2, Opened
<1>13. HoldInv(l)'
  <2> SUFFICES ASSUME Host(l[1]), NEW n \in Nat, in[l].taken <= n, n < out'[l].taken
               PROVE  mem'[OutBuf(l, n)] = Source(l, n)
    BY <1>1, <1>4 DEF HoldInv
  <2>1. n < t + 1
    BY <1>3
  <2>2. CASE n = t
    BY <1>3, <1>5, <2>2 DEF Fills
  <2>3. CASE n # t
    <3>1. n < t
      BY <2>1, <2>3
    <3>2. Active(l)
      <4>1. QueueInv(out[l], l[1], l)
        BY <1>1, QueueTypes
      <4>2. t # 0
        BY <3>1
      <4> QED
        BY <1>3, <4>1, <4>2 DEF QueueInv, Active, Rested
    <3>3. mem[OutBuf(l, n)] = Source(l, n)
      BY <1>3, <1>12, <3>1 DEF HoldInv
    <3> QED
      BY <1>10, <2>3, <3>1, <3>2, <3>3
  <2> QED
    BY <2>2, <2>3
<1>14. PartInv(l)'
  <2>1. \A n : mem'[Dst(l, n)] = mem[Dst(l, n)] /\ mem'[Target(l, n)] = mem[Target(l, n)]
    BY <1>6, <1>7
  <2>2. ASSUME NEW n \in Nat, in[l].unpacked <= n, n < Issued(l)',
               \A k, v, c : Moving(l, k, v, c)' => c.to # Target(l, n)
        PROVE  mem'[Target(l, n)] = Source(l, n)
    <3>1. ~(Issued(l) <= n)
      BY <2>2 DEF Gives
    <3>2. Issued(l) \in Nat
      <4>1. in[l].taken \in Nat /\ out[l].taken \in Nat /\ InElem(l).frags \in Nat
        BY <1>1, <1>2, QueueTypes, AskedTypes
      <4> QED
        BY <4>1 DEF Issued
    <3>3. n < Issued(l)
      BY <3>1, <3>2
    <3>4. \A k, v, c : Moving(l, k, v, c) => c.to # Target(l, n)
      BY <2>2 DEF Gives
    <3> QED
      BY <1>12, <2>1, <2>2, <3>3, <3>4 DEF PartInv
  <2>3. \A n \in Nat : n < in[l].unpacked => mem'[Dst(l, n)] = Source(l, n)
    BY <1>12, <2>1 DEF PartInv
  <2>4. PICK unp : unp = in[l].unpacked
    OBVIOUS
  <2> QED
    BY <1>1, <1>4, <2>2, <2>3 DEF PartInv
<1> QED
  BY <1>8, <1>9, <1>11, <1>13, <1>14 DEF ContentInv, Self

\* One more copy is on its way.
Adds(p, l, x, c) ==
    p \in {l[1], l[2]} /\ LinkOf(x) = l /\ x.copies = <<c>> /\ dma' = [dma EXCEPT ![p] = @ \o <<x>>]

\* A request that is added to a ring is the one new moving copy.
LEMMA OneGiven ==
    ASSUME TypeInv, NEW l \in Link, NEW p, NEW x \in DmaRequests, NEW c, Adds(p, l, x, c)
    PROVE  /\ \A m \in Link \ {l} : MovesKept(m)
           /\ \A k, v, d : Moving(l, k, v, d)' <=>
                  Moving(l, k, v, d) \/ (k = Kind(x) /\ v = Value(x) /\ d = c)
<1> USE DEF Adds
<1>1. PICK t \in Seq(DmaRequests) : t = <<x>>
  <2>1. <<x>> \in Seq(DmaRequests)
    OBVIOUS
  <2> QED
    BY <2>1
<1>2. p \in Proc
  BY LinkEnds
<1>3. dma' = [dma EXCEPT ![p] = @ \o t]
  BY <1>1
<1>4. \A m \in Link \ {l} : MovesKept(m)
  <2> SUFFICES ASSUME NEW m \in Link, m # l PROVE MovesKept(m)
    OBVIOUS
  <2>1. \A j \in DOMAIN t : LinkOf(t[j]) # m
    BY <1>1
  <2> QED
    BY <1>2, <1>3, <2>1, MovesAppend
<1>5. DOMAIN <<c>> = {1} /\ <<c>>[1] = c
  OBVIOUS
<1>6. \A k, v, d : Carries(t, l, k, v, d) <=> k = Kind(x) /\ v = Value(x) /\ d = c
  <2> SUFFICES ASSUME NEW k, NEW v, NEW d
               PROVE  Carries(t, l, k, v, d) <=> k = Kind(x) /\ v = Value(x) /\ d = c
    OBVIOUS
  <2>1. (\E i \in DOMAIN x.copies : x.copies[i] = d) <=> d = c
    BY <1>5
  <2>2. DOMAIN t = {1} /\ t[1] = x
    BY <1>1
  <2>3. Carries(t, l, k, v, d) <=> /\ Kind(x) = k /\ LinkOf(x) = l /\ Value(x) = v
                                  /\ \E i \in DOMAIN x.copies : x.copies[i] = d
    BY <2>2 DEF Carries
  <2> QED
    BY <2>1, <2>3
<1>7. \A k, v, d : Moving(l, k, v, d)' <=> Moving(l, k, v, d) \/ Carries(t, l, k, v, d)
  BY <1>2, <1>3, MovingAppend
<1> QED
  BY <1>4, <1>6, <1>7

\* The element of the sender is that of the receiver.
LEMMA SameSource ==
    ASSUME NEW l, NEW case, Sending(l, case)
    PROVE  \A n : Src(l, n) = Source(l, n)
  BY DEF Sending, Src, Source

\* A put into a buffer of the receiver.
Puts(l, case, t, st, c) ==
    /\ OutCall(l, case) /\ ~WindowShut(l) /\ t = out[l].taken
    /\ out' = [out EXCEPT ![l].taken = t + 1, ![l].st = st]
    /\ Dispatch(l[1], <<DmaRequest(<<c>>, Confirm(l, t + 1), NoNote)>>) /\ <<c>> \in Seq(CopySet)
    /\ c.to = InBuf(l, t)
    /\ \/ c.from = Source(l, t) /\ mem' = mem
       \/ c.from = OutBuf(l, t) /\ mem' = [mem EXCEPT ![OutBuf(l, t)] = Source(l, t)] /\ case = 202

\* and so does giving a copy to the DMA engine of the sender.
LEMMA PutContent ==
    ASSUME IInv, NEW l \in Link, ~Self(l), ContentInv(l), NEW case \in {202, 203}, NEW t \in Nat,
           NEW st \in {202, 203, 299}, NEW c, Puts(l, case, t, st, c)
    PROVE  ContentInv(l)' /\ \A m \in Link \ {l} : MovesKept(m)
<1> USE DEF Puts
<1>1. /\ Sending(l, case) /\ TypeInv /\ PlaceInv
      /\ prog' = prog /\ pc' = pc /\ round' = round /\ in' = in
  BY SenderCalls, LinkFacts DEF OutCall
<1>2. PICK x \in DmaRequests :
          /\ x = DmaRequest(<<c>>, Confirm(l, t + 1), NoNote) /\ Kind(x) = "confirm" /\ LinkOf(x) = l
          /\ Value(x) = t + 1 /\ x.copies = <<c>>
  <2>1. PICK cs \in Seq(CopySet) : cs = <<c>>
    OBVIOUS
  <2>2. PICK n \in Nat \ {0} : n = t + 1
    OBVIOUS
  <2>3. PICK x : x = DmaRequest(cs, Confirm(l, n), NoNote)
    OBVIOUS
  <2>4. x \in DmaRequests /\ Kind(x) = "confirm" /\ LinkOf(x) = l /\ Value(x) = n /\ x.copies = cs
    BY <2>3, ConfirmRequest
  <2> QED
    BY <2>1, <2>2, <2>3, <2>4
<1>3. /\ \A m \in Link \ {l} : MovesKept(m)
      /\ \A k, v, d : Moving(l, k, v, d)' <=>
             Moving(l, k, v, d) \/ (k = "confirm" /\ v = t + 1 /\ d = c)
  <2>1. dma' = [dma EXCEPT ![l[1]] = @ \o <<x>>]
    BY <1>2 DEF Dispatch
  <2>2. Adds(l[1], l, x, c)
    BY <1>2, <2>1 DEF Adds
  <2>3. /\ \A m \in Link \ {l} : MovesKept(m)
        /\ \A k, v, d : Moving(l, k, v, d)' <=>
               Moving(l, k, v, d) \/ (k = Kind(x) /\ v = Value(x) /\ d = c)
    <3>1. x \in DmaRequests /\ TypeInv
      BY <1>1
    <3> HIDE DEF Puts
    <3> QED
      BY <2>2, <3>1, OneGiven
  <2> QED
    BY <1>2, <2>3
<1>4. /\ out'[l].taken = t + 1 /\ out'[l].st = st /\ out'[l].cur = out[l].cur
  <2>1. out \in [Link -> Queues]
    BY <1>1 DEF TypeInv
  <2>2. out'[l] = Update(out[l], t + 1, st) /\ out[l] \in Queues
    BY <2>1 DEF Update
  <2> QED
    BY <2>2, QueueUpdate
<1>5. ~Zero(l) /\ ~Host(l[1]) /\ ~Direct(l) /\ t < InElem(l).frags /\ Asked(l)
  BY <1>1 DEF Sending, Direct, Gets
<1>6. AtSame(l)
  BY <1>1 DEF AtSame
<1>7. /\ InElem(l)' = InElem(l) /\ ~Zero(l)' /\ ~Host(l[1])' /\ ~Direct(l)'
      /\ \A n : Source(l, n)' = Source(l, n) /\ Target(l, n)' = Target(l, n)
  BY <1>5, <1>6, SameTerms
<1>8. Issued(l) = t /\ Issued(l)' = t + 1
  BY <1>4, <1>5, <1>7 DEF Issued
<1>9. c.to = Target(l, t)
  BY <1>5 DEF Target
<1>10. Brings(l, "confirm", t + 1, c, t)'
  <2>1. c.from = Source(l, t) \/ (c.from = OutBuf(l, t) /\ mem'[OutBuf(l, t)] = Source(l, t))
    <3>1. OutBuf(l, t) \in DOMAIN mem
      BY <1>1, Buffers DEF TypeInv
    <3> QED
      BY <3>1
  <2> QED
    BY <1>7, <1>9, <2>1 DEF Brings
<1>11. Gives(l)
  <2>1. InElem(l).frags \in Nat
    BY <1>1, <1>5, AskedTypes
  <2>2. t \in 0 .. InElem(l).frags - 1
    BY <1>5, <2>1
  <2>3. \A n \in Nat : t <= n /\ n < t + 1 => n = t
    OBVIOUS
  <2>4. Moving(l, "confirm", t + 1, c)'
    BY <1>3
  <2>5. \A k, v, d : Moving(l, k, v, d)' =>
           Moving(l, k, v, d) \/ \E n \in 0 .. InElem(l).frags - 1 : Brings(l, k, v, d, n)'
    <3> SUFFICES ASSUME NEW k, NEW v, NEW d, Moving(l, k, v, d)', ~Moving(l, k, v, d)
                 PROVE  Brings(l, k, v, d, t)'
      BY <2>2
    <3>1. k = "confirm" /\ v = t + 1 /\ d = c
      BY <1>3
    <3> QED
      BY <1>10, <3>1
  <2>6. \A n \in Nat : Issued(l) <= n /\ n < Issued(l)' =>
           \E k, v, d : Moving(l, k, v, d)' /\ d.to = Target(l, n)
    BY <1>8, <1>9, <2>3, <2>4
  <2>7. \A k, v, d : Moving(l, k, v, d) => Moving(l, k, v, d)'
    BY <1>3
  <2> QED
    BY <2>5, <2>6, <2>7 DEF Gives
<1>12. Fills(l, case)
  BY <1>5 DEF Fills, MayFill
<1>13. ContentInv(l)'
  <2>1. Sends(l, case)
    BY <1>4, <1>5, <1>11, <1>12 DEF Sends
  <2> QED
    BY <2>1, SendContent
<1> QED
  BY <1>3, <1>13

Contents == \A l \in Link : ContentInv(l)

\* PutBuffer and PutDirect bring what they should.
LEMMA PutBufferBrings == ASSUME IInv, Contents, NEW l \in Link, ~Self(l), PutBuffer(l) PROVE Contents'
<1>1. PICK t \in Nat : t = out[l].taken
  BY LinkFacts, QueueTypes
<1>2. OutCall(l, 202) /\ ~WindowShut(l) /\ pc[l[1]] = "fence" /\ Busy(out[l])
      /\ prog' = prog /\ pc' = pc /\ round' = round /\ in' = in
  BY DEF PutBuffer, OutCall
<1>3. Sending(l, 202)
  BY <1>2, SenderCalls
<1>4. PICK c : c = Copy(OutBuf(l, t), InBuf(l, t))
  OBVIOUS
<1>5. PICK st \in {202, 203, 299} : st = IF LastTaken(l) THEN 299 ELSE 202
  OBVIOUS
<1>6. /\ out' = [out EXCEPT ![l].taken = t + 1, ![l].st = st]
      /\ mem' = [mem EXCEPT ![OutBuf(l, t)] = Source(l, t)]
      /\ Dispatch(l[1], <<DmaRequest(<<c>>, Confirm(l, t + 1), NoNote)>>)
  <2>1. Src(l, t) = Source(l, t)
    BY <1>3, SameSource
  <2> QED
    BY <1>1, <1>4, <1>5, <2>1 DEF PutBuffer
<1>7. out'[l].cur = out[l].cur
  BY <1>6, LinkFacts, TakenUpdate
<1>8. <<c>> \in Seq(CopySet) /\ CopiesAt(DmaRequest(<<c>>, Confirm(l, 1), NoNote), round, out', in)
  <2>1. 1 \in Nat \ {0}
    OBVIOUS
  <2>2. c = Copy(OutBuf(l, out[l].taken), InBuf(l, out[l].taken))
    BY <1>1, <1>4
  <2> QED
    BY <1>2, <1>7, <2>1, <2>2, OneCopy
<1>9. ContentInv(l)' /\ \A m \in Link \ {l} : MovesKept(m)
  <2>1. c.from = OutBuf(l, t) /\ c.to = InBuf(l, t)
    BY <1>4 DEF Copy
  <2>2. Puts(l, 202, t, st, c)
    BY <1>1, <1>2, <1>6, <1>8, <2>1 DEF Puts
  <2> QED
    BY <2>2, PutContent DEF Contents
<1>10. ASSUME NEW m \in Link, m # l PROVE ContentInv(m)'
  <2>1. out'[m] = out[m] /\ in'[m] = in[m]
    BY <1>2, <1>6, <1>10, LinkFacts DEF TypeInv
  <2>2. \E a, x : a[2] = l /\ mem' = [mem EXCEPT ![a] = x]
    BY <1>6 DEF OutBuf
  <2>3. Elsewhere(l, m)
    BY <1>2, <1>9, <1>10, <2>1, <2>2 DEF Elsewhere
  <2> QED
    BY <2>3, OthersKept DEF Contents
<1> QED
  BY <1>9, <1>10 DEF Contents

\* emb_process_outgoing, direct put.
LEMMA PutDirectBrings == ASSUME IInv, Contents, NEW l \in Link, ~Self(l), PutDirect(l) PROVE Contents'
<1>1. PICK t \in Nat : t = out[l].taken
  BY LinkFacts, QueueTypes
<1>2. OutCall(l, 203) /\ ~WindowShut(l) /\ pc[l[1]] = "fence" /\ Busy(out[l])
      /\ prog' = prog /\ pc' = pc /\ round' = round /\ in' = in
  BY DEF PutDirect, OutCall
<1>3. Sending(l, 203)
  BY <1>2, SenderCalls
<1>4. PICK c : c = Copy(Src(l, t), InBuf(l, t))
  OBVIOUS
<1>5. PICK st \in {202, 203, 299} : st = IF LastTaken(l) THEN 299 ELSE 203
  OBVIOUS
<1>6. /\ out' = [out EXCEPT ![l].taken = t + 1, ![l].st = st]
      /\ mem' = mem
      /\ Dispatch(l[1], <<DmaRequest(<<c>>, Confirm(l, t + 1), NoNote)>>)
  BY <1>1, <1>4, <1>5 DEF PutDirect
<1>7. out'[l].cur = out[l].cur
  BY <1>6, LinkFacts, TakenUpdate
<1>8. <<c>> \in Seq(CopySet) /\ CopiesAt(DmaRequest(<<c>>, Confirm(l, 1), NoNote), round, out', in)
  <2>1. 1 \in Nat \ {0}
    OBVIOUS
  <2>2. c = Copy(Src(l, out[l].taken), InBuf(l, out[l].taken))
    BY <1>1, <1>4
  <2> QED
    BY <1>2, <1>7, <2>1, <2>2, OneCopy
<1>9. ContentInv(l)' /\ \A m \in Link \ {l} : MovesKept(m)
  <2>1. c.from = Source(l, t) /\ c.to = InBuf(l, t)
    BY <1>3, <1>4, SameSource DEF Copy
  <2>2. Puts(l, 203, t, st, c)
    BY <1>1, <1>2, <1>6, <1>8, <2>1 DEF Puts
  <2> QED
    BY <2>2, PutContent DEF Contents
<1>10. ASSUME NEW m \in Link, m # l PROVE ContentInv(m)'
  <2>1. out'[m] = out[m] /\ in'[m] = in[m]
    BY <1>2, <1>6, <1>10, LinkFacts DEF TypeInv
  <2>2. Elsewhere(l, m)
    BY <1>2, <1>6, <1>9, <1>10, <2>1 DEF Elsewhere
  <2> QED
    BY <2>2, OthersKept DEF Contents
<1> QED
  BY <1>9, <1>10 DEF Contents

\* One more copy gives the fragment that it brings.
LEMMA OneGives ==
    ASSUME TypeInv, NEW l \in Link, NEW p, NEW x \in DmaRequests, NEW c, Adds(p, l, x, c), NEW t \in Nat,
           InElem(l).frags \in Nat, t < InElem(l).frags, Issued(l) = t, Issued(l)' = t + 1,
           c.to = Target(l, t), Brings(l, Kind(x), Value(x), c, t)'
    PROVE  Gives(l)
<1>1. \A k, v, d : Moving(l, k, v, d)' <=>
          Moving(l, k, v, d) \/ (k = Kind(x) /\ v = Value(x) /\ d = c)
  BY OneGiven
<1>2. t \in 0 .. InElem(l).frags - 1
  OBVIOUS
<1>3. \A n \in Nat : t <= n /\ n < t + 1 => n = t
  OBVIOUS
<1>4. Moving(l, Kind(x), Value(x), c)'
  BY <1>1
<1>5. \A k, v, d : Moving(l, k, v, d)' =>
         Moving(l, k, v, d) \/ \E n \in 0 .. InElem(l).frags - 1 : Brings(l, k, v, d, n)'
  <2> SUFFICES ASSUME NEW k, NEW v, NEW d, Moving(l, k, v, d)', ~Moving(l, k, v, d)
               PROVE  Brings(l, k, v, d, t)'
    BY <1>2
  <2>1. k = Kind(x) /\ v = Value(x) /\ d = c
    BY <1>1
  <2> QED
    BY <2>1
<1>6. \A n \in Nat : Issued(l) <= n /\ n < Issued(l)' =>
         \E k, v, d : Moving(l, k, v, d)' /\ d.to = Target(l, n)
  BY <1>3, <1>4
<1>7. \A k, v, d : Moving(l, k, v, d) => Moving(l, k, v, d)'
  BY <1>1
<1> QED
  BY <1>5, <1>6, <1>7 DEF Gives

\* Other links keep their contents when an end of link l writes at most a cell of it.
ActsFor(l) ==
    /\ prog' = prog /\ pc' = pc /\ round' = round
    /\ \A m \in Link \ {l} : out'[m] = out[m] /\ in'[m] = in[m] /\ MovesKept(m)
    /\ mem' = mem \/ \E a, x : a[2] = l /\ mem' = [mem EXCEPT ![a] = x]
\* An action at one link keeps the contents of the others, so that link is all that remains to be shown.
LEMMA OthersToo == ASSUME Contents, NEW l \in Link, ContentInv(l)', ActsFor(l) PROVE Contents'
<1>1. ASSUME NEW m \in Link, m # l PROVE ContentInv(m)'
  <2>1. Elsewhere(l, m)
    BY <1>1 DEF Elsewhere, ActsFor
  <2> QED
    BY <2>1, OthersKept DEF Contents
<1> QED
  BY <1>1 DEF Contents

\* emb_process_outgoing, put of a packed fragment.
LEMMA PutPackedBrings == ASSUME IInv, Contents, NEW l \in Link, ~Self(l), PutPacked(l) PROVE Contents'
<1>1. TypeInv /\ PlaceInv
  BY DEF IInv
<1>2. OutCall(l, 201) /\ pc[l[1]] = "fence" /\ Busy(out[l])
      /\ prog' = prog /\ pc' = pc /\ round' = round /\ in' = in
  BY DEF PutPacked, OutCall
<1>3. Sending(l, 201)
  BY <1>2, SenderCalls
<1>4. PICK t \in Nat : t = out[l].taken
  BY <1>1, QueueTypes
<1>5. PICK n \in Nat \ {0} : n = t + 1
  OBVIOUS
<1>6. PICK a : a = Address(round[l[2]], in[l].cur)
  OBVIOUS
<1>7. /\ Asked(l) /\ Zero(l) /\ t < InElem(l).frags /\ OutElem(l) = InElem(l)
      /\ (IF out[l].st = 201 THEN out[l].address ELSE AddressIn(request[l])) = a
      /\ ~Host(l[1]) /\ ~Gets(l) /\ Direct(l)
  BY <1>3, <1>4, <1>6 DEF Sending, Direct, Zero, Gets
<1>8. InElem(l).frags \in Nat
  BY <1>1, <1>7, AskedTypes
<1>9. PICK last \in BOOLEAN : last <=> n = InElem(l).frags
  OBVIOUS
<1>10. LastTaken(l) <=> last
  BY <1>7, <1>9, <1>4, <1>5 DEF LastTaken
<1>11. PICK st \in {201, 299} : st = IF last THEN 299 ELSE 201
  OBVIOUS
<1>12. DstAt(l, a, t) = Target(l, t) /\ Arrives(DstAt(l, a, t), l)
  <2>1. round[l[2]] \in Nat /\ in[l].cur \in Nat /\ in[l].cur <= MAX_QUEUE_ELM
    <3>1. PICK r \in DOMAIN prog.fences : r = round[l[2]]
      BY <1>1, <1>7, AskedTypes
    <3>2. PICK e \in DOMAIN prog.fences[r][l] : e = in[l].cur
      BY <1>1, <1>7, <3>1, AskedTypes
    <3>3. r \in Nat /\ e \in Nat /\ prog.fences[r][l] \in Seq(Elem)
          /\ Len(prog.fences[r][l]) <= MAX_QUEUE_ELM
      BY <1>1, ElementTypes
    <3>4. e <= Len(prog.fences[r][l]) /\ Len(prog.fences[r][l]) \in Nat /\ MAX_QUEUE_ELM \in Nat
      BY <3>3 DEF MAX_QUEUE_ELM
    <3> QED
      BY <3>1, <3>2, <3>3, <3>4
  <2>2. DstAt(l, a, t) = Dst(l, t)
    BY <1>6, <2>1, AddressOf DEF Dst
  <2>3. Target(l, t) = Dst(l, t)
    BY <1>7 DEF Target
  <2>4. Arrives(DstAt(l, a, t), l)
    BY <1>6, <1>7, <1>8, DstOf
  <2> QED
    BY <2>2, <2>3, <2>4
<1>13. PICK c : c = Copy(OutBuf(l, t), DstAt(l, a, t))
  OBVIOUS
<1>14. PICK x \in DmaRequests :
          /\ x = PackedRequest(l, c, n, last) /\ LinkOf(x) = l
          /\ IF last THEN Kind(x) = "confirm" /\ Value(x) = 1 ELSE Kind(x) = "out" /\ Value(x) = n
  BY <1>2, <1>12, <1>13, PackedRequests
<1>15. x.copies = <<c>>
  BY <1>14 DEF PackedRequest, DmaRequest
<1>16. /\ out[l].taken - out[l].completed < BPQ
       /\ out' = [out EXCEPT ![l].taken = n, ![l].address = a, ![l].st = st]
       /\ Dispatch(l[1], <<x>>)
       /\ mem' = [mem EXCEPT ![OutBuf(l, t)] = Source(l, t)]
  <2> DEFINE address == IF out[l].st = 201 THEN out[l].address ELSE AddressIn(request[l])
  <2>1. /\ out[l].taken - out[l].completed < BPQ
        /\ out' = [out EXCEPT ![l].taken = out[l].taken + 1, ![l].address = address,
                              ![l].st = IF LastTaken(l) THEN 299 ELSE 201]
        /\ Dispatch(l[1], <<PackedRequest(l, Copy(OutBuf(l, out[l].taken), DstAt(l, address, out[l].taken)),
                                         out[l].taken + 1, LastTaken(l))>>)
        /\ mem' = [mem EXCEPT ![OutBuf(l, out[l].taken)] = Src(l, out[l].taken)]
    BY DEF PutPacked, PackedRequest
  <2>2. out[l].taken = t /\ out[l].taken + 1 = n /\ address = a /\ LastTaken(l) = last
    BY <1>7, <1>10, <1>4, <1>5 DEF LastTaken
  <2>3. x = PackedRequest(l, Copy(OutBuf(l, t), DstAt(l, a, t)), n, last)
    BY <1>13, <1>14
  <2>4. Src(l, t) = Source(l, t)
    BY <1>3, SameSource
  <2> HIDE DEF address
  <2> QED
    BY <1>11, <2>1, <2>2, <2>3, <2>4
<1>17. /\ \A m \in Link \ {l} : out'[m] = out[m]
       /\ out'[l].cur = out[l].cur /\ out'[l].taken = n /\ out'[l].st = st
  <2>1. out \in [Link -> Queues]
    BY <1>1 DEF TypeInv
  <2>2. /\ \A m \in Link \ {l} : out'[m] = out[m]
        /\ out'[l] = [out[l] EXCEPT !.taken = n, !.address = a, !.st = st]
    BY <1>16, <2>1
  <2>3. out'[l] = Advance(out[l], n, a, st) /\ out[l] \in Queues
    BY <2>1, <2>2 DEF Advance
  <2> QED
    BY <2>2, <2>3, QueueAdvance
<1>18. AtSame(l)
  BY <1>2 DEF AtSame
<1>19. /\ InElem(l)' = InElem(l) /\ Zero(l)' /\ ~Host(l[1])' /\ Direct(l)' /\ ~Gets(l)'
       /\ \A k : Source(l, k)' = Source(l, k) /\ Target(l, k)' = Target(l, k)
  BY <1>7, <1>18, SameTerms
<1>20. Issued(l) = t /\ Issued(l)' = t + 1
  <2>1. out[l].st # 299
    BY <1>3 DEF Sending
  <2>2. Issued(l) = t
    BY <1>4, <1>7, <2>1 DEF Issued
  <2>3. Issued(l)' = n
    BY <1>7, <1>9, <1>11, <1>17, <1>19 DEF Issued
  <2> QED
    BY <1>5, <2>2, <2>3
<1>21. Adds(l[1], l, x, c)
  BY <1>14, <1>15, <1>16 DEF Adds, Dispatch
<1>22. c.to = Target(l, t) /\ c.from = OutBuf(l, t)
  BY <1>12, <1>13 DEF Copy
<1>23. Brings(l, Kind(x), Value(x), c, t)'
  <2>1. mem'[OutBuf(l, t)] = Source(l, t)
    <3>1. OutBuf(l, t) \in DOMAIN mem
      BY <1>1, Buffers DEF TypeInv
    <3> QED
      BY <1>16, <3>1
  <2> QED
    BY <1>5, <1>9, <1>14, <1>19, <1>22, <2>1 DEF Brings
<1>24. Gives(l)
  BY <1>1, <1>7, <1>8, <1>20, <1>21, <1>22, <1>23, OneGives
<1>25. Sends(l, 201)
  <2>1. Fills(l, 201)
    BY <1>4, <1>16 DEF Fills, MayFill
  <2> QED
    BY <1>2, <1>7, <1>11, <1>17, <1>24, <2>1 DEF Sends
<1>26. ContentInv(l)'
  BY <1>25, SendContent DEF Contents
<1>27. \A m \in Link \ {l} : MovesKept(m)
  BY <1>1, <1>21, OneGiven
<1>28. \E b, y : b[2] = l /\ mem' = [mem EXCEPT ![b] = y]
  BY <1>16 DEF OutBuf
<1>29. ActsFor(l)
  BY <1>2, <1>17, <1>27, <1>28 DEF ActsFor
<1> QED
  BY <1>26, <1>29, OthersToo

\* emb_process_outgoing, the address of an element for a receiver that gets it itself.
LEMMA PutZeroCopyBrings == ASSUME IInv, Contents, NEW l \in Link, ~Self(l), PutZeroCopy(l) PROVE Contents'
<1>1. TypeInv /\ PlaceInv /\ l[1] \in Proc
  BY LinkEnds DEF IInv
<1>2. OutCall(l, 204) /\ pc[l[1]] = "fence" /\ Busy(out[l])
      /\ prog' = prog /\ pc' = pc /\ round' = round /\ in' = in /\ mem' = mem
  BY DEF PutZeroCopy, OutCall
<1>3. Sending(l, 204)
  BY <1>2, SenderCalls
<1>4. PICK a : a = Address(round[l[2]], in[l].cur)
  OBVIOUS
<1>5. /\ Asked(l) /\ Zero(l) /\ OutElem(l) = InElem(l) /\ out[l].st = 0
      /\ ~Host(l[1]) /\ ~Gets(l) /\ Direct(l)
  BY <1>3 DEF Sending, Direct, Zero, Gets
<1>6. AddressIn(request[l]) = a /\ out[l].taken = 0
  BY <1>3, <1>5, <1>4 DEF Sending
<1>7. PICK frags \in Nat : frags = InElem(l).frags
  BY <1>1, <1>5, AskedTypes
<1>8. PICK copies : copies = ZeroCopies(l, a, frags)
  OBVIOUS
<1>9. /\ out' = [out EXCEPT ![l].st = 299]
      /\ Dispatch(l[1], <<DmaRequest(copies, Confirm(l, 1), NoNote)>>)
  BY <1>5, <1>6, <1>7, <1>8 DEF PutZeroCopy, ZeroCopies
<1>10. /\ \A m \in Link \ {l} : out'[m] = out[m]
       /\ out'[l].cur = out[l].cur /\ out'[l].taken = 0 /\ out'[l].st = 299
  <2>1. out \in [Link -> Queues]
    BY <1>1 DEF TypeInv
  <2>2. /\ \A m \in Link \ {l} : out'[m] = out[m]
        /\ out'[l] = [out[l] EXCEPT !.st = 299]
    BY <1>9, <2>1
  <2>3. out'[l] = Restate(out[l], 299) /\ out[l] \in Queues
    BY <2>1, <2>2 DEF Restate
  <2> QED
    BY <1>6, <2>2, <2>3, QueueRestate
<1>11. PICK x \in DmaRequests :
           /\ x = DmaRequest(copies, Confirm(l, 1), NoNote)
           /\ Kind(x) = "confirm" /\ LinkOf(x) = l /\ Value(x) = 1
  BY <1>2, <1>5, <1>4, <1>7, <1>8, <1>10, ZeroCopyRequest
<1>12. x.copies = copies
  BY <1>11 DEF DmaRequest
<1>13. DOMAIN copies = 1 .. frags /\ \A i \in 1 .. frags : copies[i] = Copy(Src(l, i - 1), DstAt(l, a, i - 1))
  BY <1>8 DEF ZeroCopies
<1>14. AtSame(l)
  BY <1>2 DEF AtSame
<1>15. /\ InElem(l)' = InElem(l) /\ Zero(l)' /\ ~Host(l[1])' /\ Direct(l)' /\ ~Gets(l)'
       /\ \A k : Source(l, k)' = Source(l, k) /\ Target(l, k)' = Target(l, k)
  BY <1>5, <1>14, SameTerms
<1>16. \A i \in 1 .. frags : copies[i].from = Source(l, i - 1) /\ copies[i].to = Target(l, i - 1)
  <2>1. round[l[2]] \in Nat /\ in[l].cur \in Nat /\ in[l].cur <= MAX_QUEUE_ELM
    <3>1. PICK r \in DOMAIN prog.fences : r = round[l[2]]
      BY <1>1, <1>5, AskedTypes
    <3>2. PICK e \in DOMAIN prog.fences[r][l] : e = in[l].cur
      BY <1>1, <1>5, <3>1, AskedTypes
    <3>3. r \in Nat /\ e \in Nat /\ prog.fences[r][l] \in Seq(Elem)
          /\ Len(prog.fences[r][l]) <= MAX_QUEUE_ELM
      BY <1>1, ElementTypes
    <3>4. e <= Len(prog.fences[r][l]) /\ Len(prog.fences[r][l]) \in Nat /\ MAX_QUEUE_ELM \in Nat
      BY <3>3 DEF MAX_QUEUE_ELM
    <3> QED
      BY <3>1, <3>2, <3>3, <3>4
  <2>2. \A k : DstAt(l, a, k) = Target(l, k)
    BY <1>4, <1>5, <2>1, AddressOf DEF Dst, Target
  <2>3. \A k : Src(l, k) = Source(l, k)
    BY <1>3, SameSource
  <2> QED
    BY <1>13, <2>2, <2>3 DEF Copy
<1>17. PICK t \in Seq(DmaRequests) : t = <<x>>
  <2>1. <<x>> \in Seq(DmaRequests)
    OBVIOUS
  <2> QED
    BY <2>1
<1>18. dma' = [dma EXCEPT ![l[1]] = @ \o t]
  BY <1>9, <1>11, <1>17 DEF Dispatch
<1>19. \A k, v, d : Carries(t, l, k, v, d) <=> k = "confirm" /\ v = 1 /\ \E i \in 1 .. frags : copies[i] = d
  <2>1. DOMAIN t = {1} /\ t[1] = x
    BY <1>17
  <2> QED
    BY <1>11, <1>12, <1>13, <2>1 DEF Carries
<1>20. \A k, v, d : Moving(l, k, v, d)' <=> Moving(l, k, v, d) \/ Carries(t, l, k, v, d)
  BY <1>1, <1>18, MovingAppend
<1>21. \A i \in 1 .. frags : Brings(l, "confirm", 1, copies[i], i - 1)'
  BY <1>15, <1>16 DEF Brings
<1>22. Issued(l) = 0 /\ Issued(l)' = frags
  BY <1>5, <1>6, <1>7, <1>10, <1>15 DEF Issued
<1>23. Gives(l)
  <2>1. \A k, v, d : Moving(l, k, v, d)' =>
           Moving(l, k, v, d) \/ \E n \in 0 .. InElem(l).frags - 1 : Brings(l, k, v, d, n)'
    <3> SUFFICES ASSUME NEW k, NEW v, NEW d, Carries(t, l, k, v, d)
                 PROVE  \E n \in 0 .. frags - 1 : Brings(l, k, v, d, n)'
      BY <1>7, <1>20
    <3>1. PICK i \in 1 .. frags : k = "confirm" /\ v = 1 /\ d = copies[i]
      BY <1>19
    <3>2. i - 1 \in 0 .. frags - 1
      OBVIOUS
    <3> QED
      BY <1>21, <3>1, <3>2
  <2>2. ASSUME NEW n \in Nat, n < frags
        PROVE  \E k, v, d : Moving(l, k, v, d)' /\ d.to = Target(l, n)
    <3>1. n + 1 \in 1 .. frags /\ (n + 1) - 1 = n
      BY <2>2
    <3>2. copies[n + 1].to = Target(l, n)
      BY <1>16, <3>1
    <3>3. Moving(l, "confirm", 1, copies[n + 1])'
      BY <1>19, <1>20, <3>1
    <3> QED
      BY <3>2, <3>3
  <2>3. \A k, v, d : Moving(l, k, v, d) => Moving(l, k, v, d)'
    BY <1>20
  <2> QED
    BY <1>22, <2>1, <2>2, <2>3 DEF Gives
<1>24. Sends(l, 204)
  <2>1. Fills(l, 204)
    BY <1>2, <1>5 DEF Fills
  <2> QED
    BY <1>2, <1>5, <1>10, <1>23, <2>1 DEF Sends
<1>25. ContentInv(l)'
  BY <1>24, SendContent DEF Contents
<1>26. \A m \in Link \ {l} : MovesKept(m)
  <2> SUFFICES ASSUME NEW m \in Link, m # l PROVE MovesKept(m)
    OBVIOUS
  <2>1. \A j \in DOMAIN t : LinkOf(t[j]) # m
    BY <1>11, <1>17
  <2> QED
    BY <1>1, <1>18, <2>1, MovesAppend
<1>27. ActsFor(l)
  BY <1>2, <1>10, <1>26 DEF ActsFor
<1> QED
  BY <1>25, <1>27, OthersToo

\* emb_process_outgoing on a host, which packs and leaves the copy to the receiver.
LEMMA HostPackBrings == ASSUME IInv, Contents, NEW l \in Link, ~Self(l), HostPack(l) PROVE Contents'
<1>1. TypeInv /\ PlaceInv
  BY DEF IInv
<1>2. OutCall(l, 302) /\ ~WindowShut(l)
      /\ prog' = prog /\ pc' = pc /\ round' = round /\ in' = in
  BY DEF HostPack, OutCall
<1>3. Sending(l, 302)
  BY <1>2, SenderCalls
<1>4. PICK t \in Nat : t = out[l].taken
  BY <1>1, QueueTypes
<1>5. Host(l[1]) /\ Src(l, t) = Source(l, t)
  <2>1. Host(l[1])
    BY <1>3 DEF Sending
  <2> QED
    BY <1>3, <2>1, SameSource
<1>6. PICK st \in {302, 304} : st = IF LastTaken(l) THEN 304 ELSE 302
  OBVIOUS
<1>7. /\ out' = [out EXCEPT ![l].taken = t + 1, ![l].st = st]
      /\ PioWriteRemote(l[1], Confirm(l, t + 1)) /\ mem' = [mem EXCEPT ![OutBuf(l, t)] = Source(l, t)]
  BY <1>4, <1>5, <1>6 DEF HostPack
<1>8. dma' = dma
  BY <1>5, <1>7, HostWrites
<1>9. /\ out'[l].taken = t + 1 /\ out'[l].st = st /\ out'[l].cur = out[l].cur
      /\ \A m \in Link \ {l} : out'[m] = out[m]
  <2>1. out \in [Link -> Queues]
    BY <1>1 DEF TypeInv
  <2>2. out'[l] = Update(out[l], t + 1, st) /\ out[l] \in Queues /\ \A m \in Link \ {l} : out'[m] = out[m]
    BY <1>7, <2>1 DEF Update
  <2> QED
    BY <2>2, QueueUpdate
<1>10. \A m : MovesKept(m)
  BY <1>8, MovesSame
<1>11. Gives(l)
  <2>1. \A k, v, d : Moving(l, k, v, d)' <=> Moving(l, k, v, d)
    BY <1>10 DEF MovesKept
  <2>2. AtSame(l)
    BY <1>2 DEF AtSame
  <2>3. Host(l[1])'
    BY <1>5, <2>2, SameTerms
  <2>4. in[l].taken \in Nat
    BY <1>1, LinkFacts, QueueTypes
  <2>5. Issued(l) = in[l].taken /\ Issued(l)' = in[l].taken
    BY <1>2, <1>5, <2>3 DEF Issued
  <2> QED
    BY <2>1, <2>4, <2>5 DEF Gives
<1>12. Sends(l, 302)
  <2>1. Fills(l, 302)
    BY <1>2, <1>4, <1>7 DEF Fills, MayFill
  <2>2. out'[l].st # 0
    BY <1>9
  <2> QED
    BY <1>2, <1>4, <1>9, <1>11, <2>1, <2>2 DEF Sends
<1>13. ContentInv(l)'
  BY <1>12, SendContent DEF Contents
<1>14. \E b, y : b[2] = l /\ mem' = [mem EXCEPT ![b] = y]
  BY <1>7 DEF OutBuf
<1>15. ActsFor(l)
  BY <1>2, <1>9, <1>10, <1>14 DEF ActsFor
<1> QED
  BY <1>13, <1>15, OthersToo

\* When the receiver has all of the element, nothing of it is on its way, and all
\* is where it belongs.
LEMMA Emptied ==
    ASSUME IInv, NEW l \in Link, ~Self(l), ContentInv(l), OutCall(l, 299) \/ OutCall(l, 304), request[l] = 0
    PROVE  /\ \A k, v, c : ~Moving(l, k, v, c)
           /\ Arrived(l, round[l[2]], in[l].cur)
<1>1. /\ TypeInv /\ PlaceInv /\ Active(l) /\ Asked(l) /\ ReceiverInv(l) /\ ActiveInv(l)
      /\ confirm[l] = Total(l)
      /\ Of(SRing(l), "confirm", l) = {} /\ Of(SRing(l), "out", l) = {}
  BY AllThrough, LinkFacts
<1>2. out[l].st \in {299, 304}
  <2>1. OutCase(l) \in {299, 304}
    BY DEF OutCall
  <2> QED
    BY <2>1 DEF OutCase
<1>3. /\ InElem(l).frags \in Nat /\ Total(l) \in Nat /\ Taken(l) \in Nat
      /\ in[l].taken \in Nat /\ in[l].completed \in Nat /\ in[l].unpacked \in Nat
  BY <1>1, AskedTypes, QueueTypes
<1>4. Wanted(l) = Total(l) + 1
  BY <1>1 DEF Wanted
<1>5. Taken(l) = Total(l)
  <2>1. Wanted(l) <= Taken(l) + 1 /\ Taken(l) <= Total(l)
    BY <1>1 DEF ReceiverInv
  <2> QED
    BY <1>3, <1>4, <2>1
<1>6. /\ DirectInv(l) /\ HoldInv(l) /\ PartInv(l)
  BY <1>1 DEF ContentInv
<1>7. ASSUME NEW k, NEW v, NEW c, Moving(l, k, v, c) PROVE FALSE
  <2>1. PICK n \in Nat : n < InElem(l).frags /\ Brings(l, k, v, c, n) /\ Within(l, n)
    BY <1>7, MovingWithin
  <2>2. CASE Gets(l)
    <3>1. Total(l) = InElem(l).frags
      BY <2>2 DEF Gets, Zero, Total
    <3>2. Wanted(l) <= n + 1
      BY <2>1, <2>2 DEF Within
    <3> QED
      BY <1>3, <1>4, <2>1, <3>1, <3>2
  <2>3. CASE Zero(l)
    <3>1. k \in RequestKinds /\ ~Gets(l) /\ ~Fetches(l)
      BY <1>7, <2>3, MovingIn DEF Zero, Gets, Fetches
    <3>2. k # "confirm" /\ k # "out"
      BY <1>1, <1>7, MovingIn
    <3>3. k # "request"
      BY <2>1, <3>1 DEF Brings
    <3>4. Of(RRing(l), "in", l) = {}
      BY <1>1, <3>1 DEF ReceiverInv
    <3>5. k # "in"
      BY <1>7, <3>4, MovingIn
    <3> QED
      BY <3>1, <3>2, <3>3, <3>5 DEF RequestKinds
  <2>4. CASE ~Gets(l) /\ ~Zero(l)
    <3>1. Total(l) = InElem(l).frags /\ Taken(l) = in[l].unpacked /\ ~Direct(l)
      BY <2>4 DEF Total, Taken, Direct
    <3>2. CASE Fetches(l)
      <4>1. in[l].completed <= n
        BY <2>1, <3>1, <3>2 DEF Within
      <4>2. in[l].unpacked <= in[l].completed
        BY <1>1, <3>2 DEF ReceiverInv
      <4> QED
        BY <1>3, <1>5, <2>1, <3>1, <4>1, <4>2
    <3>3. CASE ~Fetches(l)
      <4>1. confirm[l] <= n
        BY <2>1, <3>1, <3>3 DEF Within
      <4> QED
        BY <1>1, <1>3, <2>1, <3>1, <4>1
    <3> QED
      BY <3>2, <3>3
  <2> QED
    BY <2>2, <2>3, <2>4
<1>8. ASSUME NEW n \in Nat, n < InElem(l).frags
      PROVE  mem[Dst(l, n)] = Source(l, n)
  <2>1. CASE Direct(l)
    <3>1. in[l].unpacked = 0 /\ Target(l, n) = Dst(l, n)
      BY <1>1, <1>6, <2>1 DEF DirectInv, Target
    <3>2. Issued(l) = InElem(l).frags
      <4>1. CASE Zero(l)
        <5>1. out[l].st = 299 /\ ~Host(l[1])
          BY <1>1, <1>2, <4>1 DEF ActiveInv, Zero
        <5> QED
          BY <4>1, <5>1 DEF Issued
      <4>2. CASE Gets(l)
        <5>1. Host(l[1]) /\ ~Zero(l)
          BY <4>2 DEF Gets, Zero
        <5> QED
          BY <1>5, <4>2, <5>1 DEF Issued, Total, Taken
      <4> QED
        BY <2>1, <4>1, <4>2 DEF Direct
    <3>3. in[l].unpacked <= n /\ n < Issued(l)
      BY <1>8, <3>1, <3>2
    <3> QED
      BY <1>6, <1>7, <3>1, <3>3 DEF PartInv
  <2>2. CASE ~Direct(l)
    <3>1. Total(l) = InElem(l).frags /\ Taken(l) = in[l].unpacked
      BY <2>2 DEF Total, Taken, Direct
    <3>2. n < in[l].unpacked
      BY <1>5, <1>8, <3>1
    <3> QED
      BY <1>6, <3>2 DEF PartInv
  <2> QED
    BY <2>1, <2>2
<1>9. \A n \in 0 .. InElem(l).frags - 1 : n \in Nat /\ n < InElem(l).frags
  BY <1>3
<1>10. \A n \in 0 .. InElem(l).frags - 1 : mem[Dst(l, n)] = Source(l, n)
  BY <1>8, <1>9
<1> QED
  BY <1>7, <1>10 DEF Arrived, Dst, Source, InElem, Elements

\* emb_process_outgoing, the end of an element.
LEMMA OutFinishBrings == ASSUME IInv, Contents, NEW l \in Link, ~Self(l), OutFinish(l) PROVE Contents'
<1>1. TypeInv /\ PlaceInv /\ l[1] \in Proc
  BY LinkEnds DEF IInv
<1>2. /\ request[l] = 0 /\ (OutCall(l, 299) \/ OutCall(l, 304))
      /\ prog' = prog /\ pc' = pc /\ round' = round /\ in' = in /\ mem' = mem
      /\ pc[l[1]] = "fence" /\ Busy(out[l])
      /\ out' = [out EXCEPT ![l] = Finished(out[l])] /\ PioWriteRemote(l[1], Confirm(l, 0))
  BY DEF OutFinish, OutCall
<1>3. /\ \A k, v, c : ~Moving(l, k, v, c)
      /\ Arrived(l, round[l[2]], in[l].cur)
      /\ round[l[1]] = round[l[2]] /\ out[l].cur = in[l].cur
  <2>1. ContentInv(l)
    BY DEF Contents
  <2> QED
    BY <1>2, <2>1, Emptied, AllThrough
<1>4. \A m \in Link : MovesKept(m)
  <2>1. 0 \in Nat
    OBVIOUS
  <2>2. PICK w : w = Confirm(l, 0)
    OBVIOUS
  <2>3. PioWriteRemote(l[1], w)
    BY <1>2, <2>2
  <2> QED
    BY <1>1, <2>1, <2>2, <2>3, MovesWrite
<1>5. out[l] \in Queues /\ out[l].cur \in Nat
  <2>1. out[l] \in Queues
    BY <1>1, QueueTypes
  <2> QED
    BY <2>1 DEF Queues
<1>6. /\ out'[l].st = 0 /\ out'[l].cur = out[l].cur + 1
      /\ \A m \in Link \ {l} : out'[m] = out[m]
  <2>1. out \in [Link -> Queues]
    BY <1>1 DEF TypeInv
  <2>2. out'[l] = Finished(out[l]) /\ \A m \in Link \ {l} : out'[m] = out[m]
    BY <1>2, <2>1
  <2> QED
    BY <1>5, <2>2, FinishedQueue
<1>7. DoneInv(l)'
  <2>1. \A e \in Nat : e < out'[l].cur => e < out[l].cur \/ e = out[l].cur
    BY <1>5, <1>6
  <2>2. \A r : \A e \in Nat :
            OutDone(l, r, e)' => OutDone(l, r, e) \/ (r = round[l[1]] /\ e = out[l].cur)
    BY <1>2, <2>1 DEF OutDone
  <2>3. \A r \in DOMAIN prog.fences : \A e \in DOMAIN prog.fences[r][l] : e \in Nat
    BY <1>1, ElementTypes
  <2>4. \A r, e : Arrived(l, r, e)' <=> Arrived(l, r, e)
    BY <1>2 DEF Arrived
  <2>5. DoneInv(l)
    BY DEF Contents, ContentInv
  <2> SUFFICES ASSUME NEW r \in DOMAIN prog.fences, NEW e \in DOMAIN prog.fences[r][l], OutDone(l, r, e)'
               PROVE  Arrived(l, r, e)
    BY <1>2, <2>4 DEF DoneInv
  <2>6. OutDone(l, r, e) \/ (r = round[l[1]] /\ e = out[l].cur)
    BY <2>2, <2>3
  <2> QED
    BY <1>3, <2>5, <2>6 DEF DoneInv
<1>8. ContentInv(l)'
  <2>1. ~Active(l)'
    BY <1>6 DEF Active
  <2>2. \A k, v, c : ~Moving(l, k, v, c)'
    BY <1>3, <1>4 DEF MovesKept
  <2>3. DirectInv(l)'
    <3>1. AtSame(l)
      BY <1>2 DEF AtSame
    <3>2. Direct(l)' <=> Direct(l)
      BY <3>1, SameTerms
    <3>3. DirectInv(l)
      BY DEF Contents, ContentInv
    <3> QED
      BY <1>2, <3>2, <3>3 DEF DirectInv, Asked
  <2> QED
    BY <1>7, <2>1, <2>2, <2>3, Closed
<1>9. ActsFor(l)
  BY <1>2, <1>4, <1>6 DEF ActsFor
<1> QED
  BY <1>8, <1>9, OthersToo

-----------------------------------------------------------------------------
(* The receiver's calls. *)

\* The next buffer to unpack holds its fragment, and none that is on its way is
\* brought there.
LEMMA BufferFull ==
    ASSUME IInv, NEW l \in Link, ~Self(l), ContentInv(l), Active(l), ~Direct(l),
           NEW u \in Nat, u = in[l].unpacked,
           IF Fetches(l) THEN u < in[l].completed ELSE u < confirm[l]
    PROVE  mem[InBuf(l, u)] = Source(l, u)
<1>1. TypeInv /\ PlaceInv /\ Asked(l) /\ ActiveInv(l) /\ ReceiverInv(l) /\ PartInv(l)
  BY LinkFacts DEF ContentInv
<1>2. /\ out[l].taken \in Nat /\ in[l].taken \in Nat /\ in[l].completed \in Nat /\ confirm[l] \in Nat
      /\ Wanted(l) \in Nat /\ BPQ \in Nat
  BY <1>1, QueueTypes, AskedTypes, BpqAssumption
<1>3. ~Zero(l) /\ ~Gets(l) /\ Taken(l) = u /\ Given(l) = out[l].taken
  BY DEF Direct, Taken, Given
<1>4. out[l].taken <= Wanted(l) - 1 + BPQ /\ Wanted(l) <= u + 1 /\ confirm[l] <= out[l].taken
  BY <1>1, <1>3 DEF ActiveInv, ReceiverInv
<1>5. out[l].taken <= u + BPQ
  BY <1>2, <1>4
<1>6. Issued(l) <= out[l].taken /\ u < Issued(l)
  <2>1. CASE Fetches(l)
    <3>1. Host(l[1]) /\ Issued(l) = in[l].taken
      BY <2>1 DEF Fetches, Issued
    <3>2. in[l].taken <= confirm[l]
      BY <1>1, <3>1 DEF ActiveInv
    <3>3. in[l].completed <= in[l].taken
      BY <1>1, <2>1 DEF ReceiverInv
    <3> QED
      BY <1>2, <1>4, <2>1, <3>1, <3>2, <3>3
  <2>2. CASE ~Fetches(l)
    <3>1. ~Host(l[1])
      BY <1>3, <2>2 DEF Fetches, Gets
    <3>2. Issued(l) = out[l].taken
      BY <1>3, <3>1 DEF Issued
    <3> QED
      BY <1>2, <1>4, <2>2, <3>2
  <2> QED
    BY <2>1, <2>2
<1>7. \A k : Target(l, k) = InBuf(l, k)
  BY DEF Target
<1>8. ASSUME NEW k, NEW v, NEW c, Moving(l, k, v, c) PROVE c.to # Target(l, u)
  <2>1. PICK n \in Nat : n < InElem(l).frags /\ Brings(l, k, v, c, n) /\ Within(l, n)
    BY <1>8, MovingWithin
  <2>2. n < Issued(l) /\ (IF Fetches(l) THEN in[l].completed <= n ELSE confirm[l] <= n)
    BY <2>1 DEF Within
  <2>3. Issued(l) \in Nat
    BY <1>2, <1>3 DEF Issued
  <2>4. u < n /\ n < u + BPQ
    BY <1>2, <1>5, <1>6, <2>2, <2>3
  <2>5. InBuf(l, n) # InBuf(l, u)
    <3>1. u # n /\ u - n < BPQ /\ n - u < BPQ
      BY <1>2, <2>4
    <3> QED
      BY <3>1, BuffersApart
  <2>6. c.to = Target(l, n)
    BY <2>1 DEF Brings
  <2> QED
    BY <1>7, <2>5, <2>6
<1> QED
  BY <1>1, <1>6, <1>7, <1>8 DEF PartInv

\* A call of the receiver that unpacks at most one buffer, and asks the engine for
\* what it counts as taken.
Unpacks(l) ==
    \/ mem' = mem /\ in'[l].unpacked = in[l].unpacked
    \/ /\ ~Direct(l) /\ in'[l].unpacked = in[l].unpacked + 1 /\ in[l].unpacked < InElem(l).frags
       /\ mem' = [mem EXCEPT ![Dst(l, in[l].unpacked)] = Source(l, in[l].unpacked)]
Recvs(l) ==
    /\ prog' = prog /\ pc' = pc /\ round' = round /\ out' = out
    /\ in'[l].cur = in[l].cur /\ in'[l].st # 0
    /\ in'[l].taken \in Nat /\ in[l].taken <= in'[l].taken
    /\ Unpacks(l) /\ Gives(l)

\* Unpacking or counting what has arrived keeps the contents of the link,
LEMMA RecvContent ==
    ASSUME IInv, NEW l \in Link, ~Self(l), ContentInv(l), Active(l), Recvs(l)
    PROVE  ContentInv(l)'
<1> USE DEF Recvs
<1>1. /\ TypeInv /\ PlaceInv /\ Asked(l) /\ ~Passed(l) /\ ActiveInv(l)
      /\ DoneInv(l) /\ MoveInv(l) /\ DirectInv(l) /\ HoldInv(l) /\ PartInv(l)
  BY LinkFacts DEF ContentInv
<1>2. AtSame(l)
  BY DEF AtSame
<1>3. /\ InElem(l)' = InElem(l) /\ (Host(l[1])' <=> Host(l[1])) /\ (Direct(l)' <=> Direct(l))
      /\ \A n : Source(l, n)' = Source(l, n) /\ Target(l, n)' = Target(l, n) /\ Dst(l, n)' = Dst(l, n)
  BY <1>2, SameTerms
<1>4. PICK u \in Nat : u = in[l].unpacked
  BY <1>1, QueueTypes
<1>5. InElem(l).frags \in Nat /\ in[l].taken \in Nat /\ out[l].taken \in Nat
  BY <1>1, AskedTypes, QueueTypes
<1>6. \A a : a # Dst(l, u) => mem'[a] = mem[a]
  <2>1. ASSUME NEW x, mem' = [mem EXCEPT ![Dst(l, u)] = x]
        PROVE  \A a : a # Dst(l, u) => mem'[a] = mem[a]
    BY <2>1
  <2> QED
    BY <1>4, <2>1 DEF Unpacks
<1>7. \A n : mem'[OutBuf(l, n)] = mem[OutBuf(l, n)] /\ mem'[InBuf(l, n)] = mem[InBuf(l, n)]
  <2>1. \A n : OutBuf(l, n) # Dst(l, u) /\ InBuf(l, n) # Dst(l, u)
    BY DEF OutBuf, InBuf, Dst, DstCell
  <2> QED
    BY <1>6, <2>1
<1>8. DoneInv(l)'
  <2>1. \A r, e : OutDone(l, r, e)' <=> OutDone(l, r, e)
    BY <1>2, OutDoneKept
  <2>2. ASSUME NEW r, NEW e, OutDone(l, r, e)
        PROVE  \A n : mem'[DstCell(l, r, e, n)] = mem[DstCell(l, r, e, n)]
    <3>1. r # round[l[2]] \/ e # in[l].cur
      BY <1>1, <2>2 DEF Passed
    <3>2. \A n : DstCell(l, r, e, n) # Dst(l, u)
      BY <3>1 DEF Dst, DstCell
    <3> QED
      BY <1>6, <3>2
  <2> QED
    BY <1>1, <2>1, <2>2, DoneKept
<1>9. MoveInv(l)'
  <2> SUFFICES ASSUME NEW k, NEW v, NEW c, Moving(l, k, v, c)'
               PROVE  \E n \in 0 .. InElem(l).frags - 1 : Brings(l, k, v, c, n)'
    BY <1>3 DEF MoveInv
  <2>1. CASE Moving(l, k, v, c)
    <3>1. PICK n \in 0 .. InElem(l).frags - 1 : Brings(l, k, v, c, n)
      BY <1>1, <2>1 DEF MoveInv
    <3>2. (Zero(l)' <=> Zero(l)) /\ (Gets(l)' <=> Gets(l))
      BY <1>2, SameTerms
    <3>3. Brings(l, k, v, c, n)'
      BY <1>3, <1>7, <3>1, <3>2 DEF Brings
    <3> QED
      BY <3>3
  <2> QED
    BY <2>1 DEF Gives
<1>10. DirectInv(l)'
  BY <1>1, <1>3 DEF DirectInv, Unpacks
<1>11. HoldInv(l)'
  <2> SUFFICES ASSUME Host(l[1]), NEW n \in Nat, in'[l].taken <= n, n < out[l].taken
               PROVE  mem'[OutBuf(l, n)] = Source(l, n)
    BY <1>3 DEF HoldInv
  <2>1. in[l].taken <= n
    BY <1>5
  <2> QED
    BY <1>1, <1>7, <2>1 DEF HoldInv
<1>12. PartInv(l)'
  <2>1. ASSUME NEW n \in Nat, n < in'[l].unpacked
        PROVE  mem'[Dst(l, n)] = Source(l, n)
    <3>1. CASE n < u
      <4>1. mem[Dst(l, n)] = Source(l, n)
        BY <1>1, <1>4, <3>1 DEF PartInv
      <4>2. Dst(l, n) # Dst(l, u)
        BY <3>1 DEF Dst, DstCell
      <4> QED
        BY <1>6, <4>1, <4>2
    <3>2. CASE ~(n < u)
      <4>1. in'[l].unpacked = u + 1 /\ u < InElem(l).frags /\ mem' = [mem EXCEPT ![Dst(l, u)] = Source(l, u)]
        BY <1>4, <2>1, <3>2 DEF Unpacks
      <4>2. n = u
        BY <2>1, <3>2, <4>1
      <4>3. u \in 0 .. InElem(l).frags - 1
        BY <1>5, <4>1
      <4>4. Dst(l, u) \in DOMAIN mem
        BY <1>1, <4>3, DstOf DEF Arrives, TypeInv
      <4> QED
        BY <4>1, <4>2, <4>4
    <3> QED
      BY <3>1, <3>2
  <2>2. ASSUME NEW n \in Nat, in'[l].unpacked <= n, n < Issued(l)',
               \A k, v, c : Moving(l, k, v, c)' => c.to # Target(l, n)
        PROVE  mem'[Target(l, n)] = Source(l, n)
    <3>1. ~(Issued(l) <= n)
      BY <2>2 DEF Gives
    <3>2. Issued(l) \in Nat
      BY <1>5 DEF Issued
    <3>3. n < Issued(l)
      BY <3>1, <3>2
    <3>4. \A k, v, c : Moving(l, k, v, c) => c.to # Target(l, n)
      BY <2>2 DEF Gives
    <3>5. in[l].unpacked <= n
      BY <1>4, <2>2 DEF Unpacks
    <3>6. mem[Target(l, n)] = Source(l, n)
      BY <1>1, <3>3, <3>4, <3>5 DEF PartInv
    <3>7. mem'[Target(l, n)] = mem[Target(l, n)]
      <4>1. CASE mem' = mem
        BY <4>1
      <4>2. CASE ~Direct(l)
        BY <1>7, <4>2 DEF Target
      <4> QED
        BY <4>1, <4>2 DEF Unpacks
    <3> QED
      BY <3>6, <3>7
  <2> QED
    BY <1>3, <2>1, <2>2 DEF PartInv
<1> QED
  BY <1>8, <1>9, <1>10, <1>11, <1>12 DEF ContentInv, Self

\* A call of the receiver that only writes its word.
Posts(l, st, v) ==
    /\ prog' = prog /\ pc' = pc /\ round' = round /\ out' = out /\ mem' = mem
    /\ in' = [in EXCEPT ![l].st = st] /\ PioWriteRemote(l[2], Request(l, v))
    /\ Asked(l) \/ in[l].unpacked = 0
\* and so does a word that the receiver writes to the sender.
LEMMA PostContent ==
    ASSUME IInv, Contents, NEW l \in Link, NEW st, NEW v \in Nat, Posts(l, st, v)
    PROVE  Contents'
<1> USE DEF Posts
<1>1. TypeInv /\ l[2] \in Proc
  BY LinkEnds DEF IInv
<1>2. /\ \A m \in Link \ {l} : in'[m] = in[m]
      /\ in'[l].cur = in[l].cur /\ in'[l].taken = in[l].taken /\ in'[l].unpacked = in[l].unpacked
  <2>1. in \in [Link -> Queues]
    BY <1>1 DEF TypeInv
  <2>2. /\ \A m \in Link \ {l} : in'[m] = in[m]
        /\ in'[l] = Restate(in[l], st) /\ in[l] \in Queues
    BY <2>1 DEF Restate
  <2> QED
    BY <2>2, QueueRestate
<1>3. \A m \in Link : MovesKept(m)
  <2>1. PICK w : w = Request(l, v)
    OBVIOUS
  <2>2. PioWriteRemote(l[2], w)
    BY <2>1
  <2> QED
    BY <1>1, <2>1, <2>2, MovesWrite
<1>4. \A m : CellsKept(m)
  BY DEF CellsKept
<1>5. Still(l)
  BY <1>2, <1>3, <1>4 DEF Still, AtSame
<1>6. ContentInv(l)'
  BY <1>5, Untouched DEF Contents
<1>7. ActsFor(l)
  BY <1>2, <1>3 DEF ActsFor
<1> QED
  BY <1>6, <1>7, OthersToo

\* emb_process_incoming, the request to start.
LEMMA PostRequestBrings == ASSUME IInv, Contents, NEW l \in Link, ~Self(l), PostRequest(l) PROVE Contents'
<1>1. TypeInv /\ PlaceInv
  BY DEF IInv
<1>2. InCall(l, 200) /\ UNCHANGED <<prog, pc, round, out>> /\ pc[l[2]] = "fence" /\ Busy(in[l])
  BY DEF PostRequest, InCall
<1>3. PICK v : v = IF InElem(l).recvContiguous /\ ~Host(l[1]) /\ ~Host(l[2])
                   THEN Address(round[l[2]], in[l].cur) + MASK_ZEROCOPY + MASK_REQUEST
                   ELSE MASK_REQUEST
  OBVIOUS
<1>4. PICK st : /\ in' = [in EXCEPT ![l].st = st] /\ PioWriteRemote(l[2], Request(l, v)) /\ mem' = mem
  BY <1>3 DEF PostRequest
<1>5. Asked(l) \/ in[l].unpacked = 0
  <2>1. QueueInv(in[l], l[2], l)
    BY <1>1, QueueTypes
  <2> QED
    BY <2>1 DEF QueueInv, Asked, Rested
<1>6. v \in Nat
  <2>1. round[l[2]] \in Nat /\ in[l].cur \in Nat
    <3>1. in[l] \in Queues /\ round[l[2]] \in Nat
      BY <1>1, QueueTypes DEF TypeInv
    <3> QED
      BY <3>1 DEF Queues
  <2> QED
    BY <1>3, <2>1 DEF Address, Slots, MAX_QUEUE_ELM, MASK_ZEROCOPY, MASK_REQUEST
<1>7. Posts(l, st, v)
  BY <1>2, <1>4, <1>5 DEF Posts
<1> QED
  BY <1>6, <1>7, PostContent

\* emb_process_incoming, fragments that were put where they belong.
LEMMA PutArrivedBrings == ASSUME IInv, Contents, NEW l \in Link, ~Self(l), PutArrived(l) PROVE Contents'
<1>1. InCall(l, 298) /\ UNCHANGED <<prog, pc, round, out>>
      /\ in' = [in EXCEPT ![l].st = 299] /\ PioWriteRemote(l[2], Request(l, 0)) /\ mem' = mem
  BY DEF PutArrived, InCall
<1>2. Asked(l)
  <2>1. InCase(l) = 298
    BY <1>1 DEF InCall
  <2> QED
    BY <2>1 DEF InCase, Asked
<1>3. PICK st : st = 299
  OBVIOUS
<1>4. PICK v \in Nat : v = 0
  OBVIOUS
<1>5. Posts(l, st, v)
  BY <1>1, <1>2, <1>3, <1>4 DEF Posts
<1> QED
  BY <1>5, PostContent

\* emb_process_incoming, fragments unpacked from the staging buffers.
LEMMA UnpackPutBrings == ASSUME IInv, Contents, NEW l \in Link, ~Self(l), UnpackPut(l) PROVE Contents'
<1>1. TypeInv /\ PlaceInv /\ l[2] \in Proc
  BY LinkEnds DEF IInv
<1>2. InCall(l, 202) /\ Finds(l, 202) /\ UNCHANGED <<prog, pc, round, out>> /\ confirm[l] # in[l].unpacked
  BY DEF UnpackPut, Finds, InCall
<1>3. Receiving(l, 202) /\ ContentInv(l)
  BY <1>2, ReceiverCalls DEF Contents
<1>4. /\ Asked(l) /\ Active(l) /\ in[l].st = 202 /\ ~Zero(l) /\ ~Gets(l) /\ ~Fetches(l)
      /\ ReceiverInv(l) /\ ActiveInv(l) /\ Taken(l) < Total(l)
  BY <1>3 DEF Receiving
<1>5. PICK u \in Nat : u = in[l].unpacked
  BY <1>1, QueueTypes
<1>6. confirm[l] \in Nat /\ InElem(l).frags \in Nat /\ out[l].taken \in Nat
  BY <1>1, <1>4, QueueTypes, AskedTypes
<1>7. u < confirm[l] /\ u < InElem(l).frags /\ Total(l) = InElem(l).frags
  <2>1. Taken(l) = u /\ Total(l) = InElem(l).frags
    BY <1>4, <1>5 DEF Taken, Total
  <2>2. Taken(l) <= confirm[l]
    BY <1>4 DEF ActiveInv
  <2> QED
    BY <1>2, <1>4, <1>5, <1>6, <2>1, <2>2
<1>8. mem[InBuf(l, u)] = Source(l, u)
  BY <1>3, <1>4, <1>5, <1>7, BufferFull DEF Direct
<1>9. PICK taken \in Nat : taken = in[l].taken
  BY <1>1, QueueTypes
<1>10. PICK n \in Nat : n = u + 1
  OBVIOUS
<1>11. PICK v \in Nat : v = IF n = Total(l) THEN 0 ELSE u + 2
  OBVIOUS
<1>12. PICK st \in States : st = IF n = Total(l) THEN 299 ELSE 202
  BY DEF States
<1>13. /\ in' = [in EXCEPT ![l].unpacked = n, ![l].taken = taken, ![l].st = st]
       /\ PioWriteRemote(l[2], Request(l, v))
       /\ mem' = [mem EXCEPT ![Dst(l, u)] = Source(l, u)]
  <2>1. UnpackAndConfirm(l, <<>>, taken)
    BY <1>9 DEF UnpackPut
  <2> QED
    BY <1>4, <1>5, <1>7, <1>8, <1>10, <1>11, <1>12, <2>1 DEF UnpackAndConfirm, PioWriteRemote
<1>14. /\ \A m \in Link \ {l} : in'[m] = in[m]
       /\ in'[l].taken = taken /\ in'[l].st = st /\ in'[l].unpacked = n /\ in'[l].cur = in[l].cur
  <2>1. SetIn(l, Unpacked(in[l], n, taken, st))
    <3>1. in' = [in EXCEPT ![l].unpacked = n, ![l].taken = taken, ![l].st = st]
      BY <1>13
    <3> QED
      BY <3>1 DEF Unpacked, SetIn
  <2> QED
    BY <1>1, <2>1, InUnpacked
<1>15. \A m \in Link : MovesKept(m)
  <2>1. PICK w : w = Request(l, v)
    OBVIOUS
  <2>2. PioWriteRemote(l[2], w)
    BY <1>13, <2>1
  <2> QED
    BY <1>1, <2>1, <2>2, MovesWrite
<1>16. Gives(l)
  <2>1. AtSame(l)
    BY <1>2, <1>14 DEF AtSame
  <2>2. ~Host(l[1]) /\ ~Host(l[1])' /\ ~Zero(l)'
    BY <1>4, <2>1, SameTerms DEF Gets, Fetches
  <2>3. Issued(l) = out[l].taken /\ Issued(l)' = out[l].taken
    BY <1>2, <1>4, <2>2 DEF Issued
  <2>4. \A k, v1, c : Moving(l, k, v1, c)' <=> Moving(l, k, v1, c)
    BY <1>15 DEF MovesKept
  <2> QED
    BY <1>6, <2>3, <2>4 DEF Gives
<1>17. Recvs(l)
  <2>1. Unpacks(l)
    BY <1>4, <1>5, <1>7, <1>10, <1>13, <1>14 DEF Unpacks, Direct
  <2>2. in'[l].st # 0 /\ in'[l].taken \in Nat /\ in[l].taken <= in'[l].taken
    BY <1>9, <1>12, <1>14
  <2> QED
    BY <1>2, <1>14, <1>16, <2>1, <2>2 DEF Recvs
<1>18. ContentInv(l)'
  BY <1>3, <1>4, <1>17, RecvContent
<1>19. \E b, y : b[2] = l /\ mem' = [mem EXCEPT ![b] = y]
  BY <1>13 DEF Dst, DstCell
<1>20. ActsFor(l)
  BY <1>2, <1>14, <1>15, <1>19 DEF ActsFor
<1> QED
  BY <1>18, <1>20, OthersToo

\* The receiver's engine is told to fetch m fragments, from fragment from on.
Fetched(l, t, from, m) ==
    \A k, v, d : Carries(t, l, k, v, d) <=>
        \E j \in 1 .. m : /\ k = IF Gets(l) THEN "request" ELSE "in"
                          /\ v = IF Gets(l) THEN NextWord(l, from + j) ELSE from + j
                          /\ d = Copy(OutBuf(l, from + j - 1), Target(l, from + j - 1))

\* Arithmetic: m fragments from a count on, numbered from 1,
LEMMA Indices ==
    ASSUME NEW from \in Nat, NEW m \in Nat
    PROVE  \A j \in 1 .. m : /\ from + j <= from + m
                            /\ \A n \in Nat : from + m <= n => from + j <= n /\ from + j - 1 \in 0 .. n - 1
  OBVIOUS

\* and every count among them has its number.
LEMMA IndexOf ==
    ASSUME NEW from \in Nat, NEW m \in Nat, NEW n \in Nat, from <= n, n < from + m
    PROVE  \E j \in 1 .. m : from + j - 1 = n
<1>1. n - from + 1 \in 1 .. m /\ from + (n - from + 1) - 1 = n
  OBVIOUS
<1> QED
  BY <1>1

\* Requests for the next fragments, one for each, are all the copies that are added.
LEMMA FetchGives ==
    ASSUME IInv, NEW l \in Link, ~Self(l), Receiving(l, 302) \/ Receiving(l, 303), HoldInv(l),
           NEW from \in Nat, NEW m \in Nat, from = in[l].taken, from + m = confirm[l],
           NEW t \in Seq(DmaRequests), dma' = [dma EXCEPT ![l[2]] = @ \o t], Fetched(l, t, from, m),
           AtSame(l), out' = out, in'[l].taken = from + m,
           \A n : mem'[OutBuf(l, n)] = mem[OutBuf(l, n)]
    PROVE  Gives(l)
<1>1. /\ TypeInv /\ PlaceInv /\ Asked(l) /\ ActiveInv(l) /\ l[2] \in Proc
  BY LinkFacts, LinkEnds DEF Receiving
<1>2. /\ Host(l[1]) /\ ~Zero(l) /\ Total(l) = InElem(l).frags /\ First(l) = 1 /\ from + m <= Total(l)
  BY FromHost
<1>3. from + m = out[l].taken
  BY <1>1, <1>2 DEF ActiveInv, Given
<1>4. PICK frags \in Nat : frags = InElem(l).frags
  BY <1>1, AskedTypes
<1>5. /\ InElem(l)' = InElem(l) /\ Host(l[1])' /\ (Gets(l)' <=> Gets(l)) /\ ~Zero(l)'
      /\ \A n : Source(l, n)' = Source(l, n) /\ Target(l, n)' = Target(l, n)
  BY <1>2, SameTerms
<1>6. Issued(l) = from /\ Issued(l)' = from + m
  BY <1>2, <1>5 DEF Issued
<1>7. \A k, v, d : Moving(l, k, v, d)' <=> Moving(l, k, v, d) \/ Carries(t, l, k, v, d)
  BY <1>1, MovingAppend
<1>8. ASSUME NEW j \in 1 .. m, NEW k, NEW v, NEW d,
             k = IF Gets(l) THEN "request" ELSE "in",
             v = IF Gets(l) THEN NextWord(l, from + j) ELSE from + j,
             d = Copy(OutBuf(l, from + j - 1), Target(l, from + j - 1))
      PROVE  Brings(l, k, v, d, from + j - 1)'
  <2>1. PICK n \in Nat : n = from + j - 1
    OBVIOUS
  <2>2. d.from = OutBuf(l, n) /\ d.to = Target(l, n)
    BY <1>8, <2>1 DEF Copy
  <2>3. mem'[OutBuf(l, n)] = Source(l, n)
    <3>1. in[l].taken <= n /\ n < out[l].taken
      BY <1>3, <2>1
    <3> QED
      BY <1>2, <3>1 DEF HoldInv
  <2>4. k = "request" => Gets(l) /\ Rank(v, 1, InElem(l).frags) = n + 2
    <3> SUFFICES ASSUME Gets(l) PROVE Rank(v, 1, InElem(l).frags) = n + 2
      BY <1>8
    <3>1. PICK w \in Nat \ {0} : w = from + j
      OBVIOUS
    <3>2. w <= from + m /\ w <= Total(l)
      BY <1>2, <1>4, <3>1, Indices
    <3>4. v = NextWord(l, w)
      BY <1>8, <3>1
    <3>3. Rank(NextWord(l, w), First(l), Total(l)) = w + 1
      BY <1>1, <3>2, NextWords
    <3>5. w + 1 = n + 2
      BY <2>1, <3>1
    <3> QED
      BY <1>2, <3>3, <3>4, <3>5
  <2>5. k # "out" /\ k # "confirm" /\ (k = "in" => v = n + 1)
    BY <1>8, <2>1
  <2> QED
    BY <1>5, <2>1, <2>2, <2>3, <2>4, <2>5 DEF Brings
<1>9. \A k, v, d : Moving(l, k, v, d)' =>
         Moving(l, k, v, d) \/ \E n \in 0 .. InElem(l).frags - 1 : Brings(l, k, v, d, n)'
  <2> SUFFICES ASSUME NEW k, NEW v, NEW d, Carries(t, l, k, v, d)
               PROVE  \E n \in 0 .. frags - 1 : Brings(l, k, v, d, n)'
    BY <1>4, <1>7
  <2>1. PICK j \in 1 .. m : /\ k = IF Gets(l) THEN "request" ELSE "in"
                            /\ v = IF Gets(l) THEN NextWord(l, from + j) ELSE from + j
                            /\ d = Copy(OutBuf(l, from + j - 1), Target(l, from + j - 1))
    BY DEF Fetched
  <2>2. from + j - 1 \in 0 .. frags - 1
    <3>1. from + m <= frags
      BY <1>2, <1>4
    <3> QED
      BY <3>1, Indices
  <2> QED
    BY <1>8, <2>1, <2>2
<1>10. ASSUME NEW n \in Nat, from <= n, n < from + m
       PROVE  \E k, v, d : Moving(l, k, v, d)' /\ d.to = Target(l, n)
  <2>1. PICK j \in 1 .. m : from + j - 1 = n
    BY <1>10, IndexOf
  <2>2. from + j - 1 = n
    BY <2>1
  <2>3. PICK k : k = IF Gets(l) THEN "request" ELSE "in"
    OBVIOUS
  <2>4. PICK v : v = IF Gets(l) THEN NextWord(l, from + j) ELSE from + j
    OBVIOUS
  <2>5. PICK d : d = Copy(OutBuf(l, from + j - 1), Target(l, from + j - 1))
    OBVIOUS
  <2>6. Carries(t, l, k, v, d)
    BY <2>3, <2>4, <2>5 DEF Fetched
  <2>7. d.to = Target(l, n)
    BY <2>2, <2>5 DEF Copy
  <2> QED
    BY <1>7, <2>6, <2>7
<1> QED
  BY <1>6, <1>7, <1>9, <1>10 DEF Gives

\* The requests of the two ways to fetch.
LEMMA BuffersFetched ==
    ASSUME IInv, NEW l \in Link, ~Gets(l), ~Zero(l), NEW from \in Nat, NEW m \in Nat,
           NEW s, s = GetBuffers(l, from, from + m)
    PROVE  Fetched(l, s, from, m)
<1>1. PICK n \in Nat : n = from + m /\ n - from = m
  OBVIOUS
<1>2. s = GetBuffers(l, from, n)
  BY <1>1
<1>3. DOMAIN s = 1 .. m
      /\ \A j \in 1 .. m :
            s[j] = DmaRequest(<<Copy(OutBuf(l, from + j - 1), InBuf(l, from + j - 1))>>, NoWord,
                              [queue |-> "in", link |-> l, elm |-> in[l].cur, value |-> from + j])
  BY <1>1, <1>2 DEF GetBuffers
<1>4. ASSUME NEW j \in 1 .. m
      PROVE  /\ Kind(s[j]) = "in" /\ LinkOf(s[j]) = l /\ Value(s[j]) = from + j
             /\ s[j].copies = <<Copy(OutBuf(l, from + j - 1), Target(l, from + j - 1))>>
  <2>1. PICK c : c = <<Copy(OutBuf(l, from + j - 1), InBuf(l, from + j - 1))>>
    OBVIOUS
  <2>2. PICK v : v = from + j
    OBVIOUS
  <2>3. PICK e : e = in[l].cur
    OBVIOUS
  <2>4. s[j] = DmaRequest(c, NoWord, [queue |-> "in", link |-> l, elm |-> e, value |-> v])
    BY <1>3, <2>1, <2>2, <2>3
  <2>5. Kind(s[j]) = "in" /\ LinkOf(s[j]) = l /\ Value(s[j]) = v
    BY <2>4 DEF Kind, LinkOf, Value, DmaRequest
  <2>6. s[j].copies = c
    BY <2>4 DEF DmaRequest
  <2>7. \A k : Target(l, k) = InBuf(l, k)
    BY DEF Target, Direct
  <2> QED
    BY <2>1, <2>2, <2>5, <2>6, <2>7
<1>5. \A c : DOMAIN <<c>> = {1} /\ <<c>>[1] = c
  OBVIOUS
<1>6. \A j \in 1 .. m : \A d : (\E i \in DOMAIN s[j].copies : s[j].copies[i] = d)
                               <=> d = Copy(OutBuf(l, from + j - 1), Target(l, from + j - 1))
  BY <1>4, <1>5
<1>7. DOMAIN s = 1 .. m
  BY <1>3
<1>8. \A k, v, d : Carries(s, l, k, v, d) <=>
         \E j \in 1 .. m : /\ k = IF Gets(l) THEN "request" ELSE "in"
                           /\ v = IF Gets(l) THEN NextWord(l, from + j) ELSE from + j
                           /\ d = Copy(OutBuf(l, from + j - 1), Target(l, from + j - 1))
  <2> SUFFICES ASSUME NEW k, NEW v, NEW d
               PROVE  Carries(s, l, k, v, d) <=>
                          \E j \in 1 .. m : /\ k = IF Gets(l) THEN "request" ELSE "in"
                                            /\ v = IF Gets(l) THEN NextWord(l, from + j) ELSE from + j
                                            /\ d = Copy(OutBuf(l, from + j - 1), Target(l, from + j - 1))
    OBVIOUS
  <2>1. ASSUME NEW j \in 1 .. m
        PROVE  /\ Kind(s[j]) = k /\ LinkOf(s[j]) = l /\ Value(s[j]) = v
               /\ \E i \in DOMAIN s[j].copies : s[j].copies[i] = d
               <=> /\ k = IF Gets(l) THEN "request" ELSE "in"
                   /\ v = IF Gets(l) THEN NextWord(l, from + j) ELSE from + j
                   /\ d = Copy(OutBuf(l, from + j - 1), Target(l, from + j - 1))
    BY <1>4, <1>6
  <2> QED
    BY <1>7, <2>1 DEF Carries
<1> QED
  BY <1>8 DEF Fetched

\* GetDirect makes one request for every fragment.
LEMMA DirectFetched ==
    ASSUME IInv, NEW l \in Link, ~Self(l), Asked(l), Gets(l), NEW from \in Nat, NEW m \in Nat,
           in'[l].cur = in[l].cur, from + m <= InElem(l).frags,
           NEW s, s = GetDirect(l, from, from + m)
    PROVE  Fetched(l, s, from, m)
<1>1. PICK n \in Nat : n = from + m /\ n - from = m
  OBVIOUS
<1>2. ~Zero(l)
  BY DEF Gets, Zero
<1>3. /\ DOMAIN s = 1 .. m
      /\ \A j \in 1 .. m : /\ Kind(s[j]) = "request" /\ LinkOf(s[j]) = l
                           /\ Value(s[j]) = NextWord(l, from + j)
  <2>1. /\ Made(GetDirect(l, from, from + m), "request", l, m)
        /\ \A j \in 1 .. m : Value(GetDirect(l, from, from + m)[j]) = NextWord(l, from + j)
    BY <1>2, GottenDirect
  <2>2. Made(s, "request", l, m) /\ \A j \in 1 .. m : Value(s[j]) = NextWord(l, from + j)
    BY <2>1
  <2> QED
    BY <2>2 DEF Made
<1>4. \A j \in 1 .. m : s[j].copies = <<Copy(OutBuf(l, from + j - 1), Target(l, from + j - 1))>>
  <2>1. s = GetDirect(l, from, n)
    BY <1>1
  <2>2. \A k : Target(l, k) = Dst(l, k)
    BY DEF Target, Direct
  <2>3. \A j \in 1 .. m : s[j].copies = <<Copy(OutBuf(l, from + j - 1), Dst(l, from + j - 1))>>
    BY <1>1, <2>1 DEF GetDirect, DmaRequest
  <2> QED
    BY <2>2, <2>3
<1>5. \A c : DOMAIN <<c>> = {1} /\ <<c>>[1] = c
  OBVIOUS
<1>6. \A j \in 1 .. m : \A d : (\E i \in DOMAIN s[j].copies : s[j].copies[i] = d)
                               <=> d = Copy(OutBuf(l, from + j - 1), Target(l, from + j - 1))
  BY <1>4, <1>5
<1>7. \A k, v, d : Carries(s, l, k, v, d) <=>
         \E j \in 1 .. m : /\ k = IF Gets(l) THEN "request" ELSE "in"
                           /\ v = IF Gets(l) THEN NextWord(l, from + j) ELSE from + j
                           /\ d = Copy(OutBuf(l, from + j - 1), Target(l, from + j - 1))
  <2> SUFFICES ASSUME NEW k, NEW v, NEW d
               PROVE  Carries(s, l, k, v, d) <=>
                          \E j \in 1 .. m : /\ k = IF Gets(l) THEN "request" ELSE "in"
                                            /\ v = IF Gets(l) THEN NextWord(l, from + j) ELSE from + j
                                            /\ d = Copy(OutBuf(l, from + j - 1), Target(l, from + j - 1))
    OBVIOUS
  <2>1. ASSUME NEW j \in 1 .. m
        PROVE  /\ Kind(s[j]) = k /\ LinkOf(s[j]) = l /\ Value(s[j]) = v
               /\ \E i \in DOMAIN s[j].copies : s[j].copies[i] = d
               <=> /\ k = IF Gets(l) THEN "request" ELSE "in"
                   /\ v = IF Gets(l) THEN NextWord(l, from + j) ELSE from + j
                   /\ d = Copy(OutBuf(l, from + j - 1), Target(l, from + j - 1))
    BY <1>3, <1>6
  <2>2. DOMAIN s = 1 .. m
    BY <1>3
  <2> QED
    BY <2>1, <2>2 DEF Carries
<1> QED
  BY <1>7 DEF Fetched

\* emb_process_incoming, fragments got straight into the element.
LEMMA GetToUserBrings == ASSUME IInv, Contents, NEW l \in Link, ~Self(l), GetToUser(l) PROVE Contents'
<1>1. TypeInv /\ PlaceInv /\ l[2] \in Proc
  BY LinkEnds DEF IInv
<1>2. InCall(l, 303) /\ Finds(l, 303) /\ UNCHANGED <<prog, pc, round, out>>
  BY DEF GetToUser, Finds, InCall
<1>3. Receiving(l, 303) /\ ContentInv(l)
  BY <1>2, ReceiverCalls DEF Contents
<1>4. /\ Asked(l) /\ Active(l) /\ Gets(l) /\ HoldInv(l)
  BY <1>3 DEF Receiving, ContentInv
<1>5. PICK from \in Nat, m \in Nat : /\ from = in[l].taken /\ from + m = confirm[l]
                                     /\ from + m <= Total(l) /\ confirm[l] - from = m
  BY <1>3, FromHost
<1>6. Total(l) = InElem(l).frags
  BY <1>3, FromHost
<1>7. PICK n \in Nat : n = from + m
  OBVIOUS
<1>8. PICK st \in States : st = IF n = InElem(l).frags THEN 304 ELSE 303
  BY DEF States
<1>9. PICK s : s = GetDirect(l, from, n)
  OBVIOUS
<1>10. /\ in' = [in EXCEPT ![l].taken = n, ![l].st = st]
       /\ Dispatch(l[2], s) /\ mem' = mem
  <2>1. in[l].taken = from /\ confirm[l] = n
    BY <1>5, <1>7
  <2>2. /\ in' = [in EXCEPT ![l].taken = confirm[l],
                            ![l].st = IF confirm[l] = InElem(l).frags THEN 304 ELSE 303]
        /\ Dispatch(l[2], GetDirect(l, in[l].taken, confirm[l])) /\ mem' = mem
    BY DEF GetToUser
  <2> QED
    BY <1>8, <1>9, <2>1, <2>2
<1>11. /\ \A k \in Link \ {l} : in'[k] = in[k]
       /\ in'[l].taken = n /\ in'[l].st = st /\ in'[l].cur = in[l].cur /\ in'[l].unpacked = in[l].unpacked
  <2>1. in \in [Link -> Queues] /\ in[l] \in Queues
    BY <1>1 DEF TypeInv
  <2>2. in'[l] = [in[l] EXCEPT !.taken = n, !.st = st] /\ \A k \in Link \ {l} : in'[k] = in[k]
    BY <1>10, <2>1
  <2>3. in'[l] = Update(in[l], n, st)
    BY <2>2 DEF Update
  <2>4. in'[l].unpacked = in[l].unpacked
    BY <2>1, <2>2 DEF Queues
  <2> QED
    BY <2>1, <2>2, <2>3, <2>4, QueueUpdate
<1>12. s = GetDirect(l, from, from + m) /\ from + m <= InElem(l).frags /\ ~Zero(l)
  BY <1>4, <1>5, <1>6, <1>7, <1>9 DEF Gets, Zero
<1>13. PICK t \in Seq(DmaRequests) : t = s
  <2>1. GetDirect(l, from, from + m) \in Seq(DmaRequests)
    BY <1>4, <1>11, <1>12, GottenDirect
  <2> QED
    BY <1>12, <2>1
<1>14. Fetched(l, t, from, m)
  BY <1>4, <1>11, <1>12, <1>13, DirectFetched
<1>15. dma' = [dma EXCEPT ![l[2]] = @ \o t]
  BY <1>10, <1>13 DEF Dispatch
<1>16. AtSame(l)
  BY <1>2, <1>11 DEF AtSame
<1>17. Gives(l)
  <2>1. in'[l].taken = from + m /\ out' = out /\ \A k : mem'[OutBuf(l, k)] = mem[OutBuf(l, k)]
    BY <1>2, <1>7, <1>10, <1>11
  <2> QED
    BY <1>3, <1>4, <1>5, <1>14, <1>15, <1>16, <2>1, FetchGives
<1>18. Recvs(l)
  <2>1. in[l].taken <= in'[l].taken /\ in'[l].st # 0
    BY <1>5, <1>7, <1>8, <1>11
  <2>2. Unpacks(l)
    BY <1>10, <1>11 DEF Unpacks
  <2> QED
    BY <1>2, <1>11, <1>17, <2>1, <2>2 DEF Recvs
<1>19. ContentInv(l)'
  BY <1>3, <1>4, <1>18, RecvContent
<1>20. \A k \in Link \ {l} : MovesKept(k)
  <2> SUFFICES ASSUME NEW k \in Link, k # l PROVE MovesKept(k)
    OBVIOUS
  <2>1. Made(GetDirect(l, from, from + m), "request", l, m)
    BY <1>4, <1>11, <1>12, GottenDirect
  <2>2. \A j \in DOMAIN t : LinkOf(t[j]) # k
    BY <1>12, <1>13, <2>1 DEF Made
  <2> QED
    BY <1>1, <1>15, <2>2, MovesAppend
<1>21. ActsFor(l)
  BY <1>2, <1>10, <1>11, <1>20 DEF ActsFor
<1> QED
  BY <1>19, <1>21, OthersToo

\* A step of GetAndUnpack that only fetches.
LEMMA FetchOnlyBrings ==
    ASSUME IInv, Contents, NEW l \in Link, ~Self(l), GetAndUnpack(l), in[l].unpacked = in[l].completed
    PROVE  Contents'
<1>1. TypeInv /\ PlaceInv /\ l[2] \in Proc
  BY LinkEnds DEF IInv
<1>2. /\ InCall(l, 302) /\ Finds(l, 302) /\ UNCHANGED <<prog, pc, round, out>>
      /\ in' = [in EXCEPT ![l].taken = confirm[l]]
      /\ Dispatch(l[2], GetBuffers(l, in[l].taken, confirm[l])) /\ mem' = mem
  BY DEF GetAndUnpack, Finds, InCall
<1>3. Receiving(l, 302) /\ ContentInv(l)
  BY <1>2, ReceiverCalls DEF Contents
<1>4. /\ Asked(l) /\ Active(l) /\ ~Gets(l) /\ ~Zero(l) /\ HoldInv(l) /\ in[l].st = 302
  BY <1>3 DEF Receiving, ContentInv
<1>5. PICK from \in Nat, m \in Nat : /\ from = in[l].taken /\ from + m = confirm[l]
                                     /\ from + m <= Total(l) /\ confirm[l] - from = m
  BY <1>3, FromHost
<1>6. PICK n \in Nat : n = from + m
  OBVIOUS
<1>7. PICK u \in Nat : u = in[l].unpacked
  BY <1>1, QueueTypes
<1>8. PICK s : s = GetBuffers(l, from, from + m)
  OBVIOUS
<1>9. /\ in' = [in EXCEPT ![l].taken = n] /\ Dispatch(l[2], s)
  BY <1>2, <1>5, <1>6, <1>8
<1>10. /\ \A k \in Link \ {l} : in'[k] = in[k]
       /\ in'[l].taken = n /\ in'[l].st = 302 /\ in'[l].unpacked = u /\ in'[l].cur = in[l].cur
  <2>1. in \in [Link -> Queues] /\ in[l] \in Queues
    BY <1>1 DEF TypeInv
  <2>2. in'[l] = [in[l] EXCEPT !.taken = n] /\ \A k \in Link \ {l} : in'[k] = in[k]
    BY <1>9, <2>1
  <2>3. in'[l] = Unpacked(in[l], u, n, 302)
    BY <1>4, <1>7, <2>1, <2>2, QueueFetched
  <2>4. 302 \in States
    BY DEF States
  <2>5. in' = [in EXCEPT ![l] = Unpacked(in[l], u, n, 302)]
    BY <1>9, <2>1, <2>2, <2>3
  <2>6. SetIn(l, Unpacked(in[l], u, n, 302))
    BY <2>5 DEF SetIn
  <2> QED
    BY <1>1, <2>4, <2>6, InUnpacked
<1>11. /\ s \in Seq(DmaRequests) /\ Made(s, "in", l, m)
  <2>1. /\ GetBuffers(l, from, from + m) \in Seq(DmaRequests)
        /\ Made(GetBuffers(l, from, from + m), "in", l, m)
    BY <1>4, Gotten
  <2> QED
    BY <1>8, <2>1
<1>12. PICK t \in Seq(DmaRequests) : t = s
  BY <1>11
<1>13. Fetched(l, t, from, m)
  BY <1>4, <1>8, <1>12, BuffersFetched
<1>14. dma' = [dma EXCEPT ![l[2]] = @ \o t]
  BY <1>9, <1>12 DEF Dispatch
<1>15. AtSame(l)
  BY <1>2, <1>10 DEF AtSame
<1>16. Gives(l)
  <2>1. in'[l].taken = from + m /\ out' = out /\ \A k : mem'[OutBuf(l, k)] = mem[OutBuf(l, k)]
    BY <1>2, <1>6, <1>10
  <2> QED
    BY <1>3, <1>4, <1>5, <1>13, <1>14, <1>15, <2>1, FetchGives
<1>17. Recvs(l)
  <2>1. in[l].taken <= in'[l].taken /\ in'[l].st # 0
    BY <1>5, <1>6, <1>10
  <2>2. Unpacks(l)
    BY <1>2, <1>7, <1>10 DEF Unpacks
  <2> QED
    BY <1>2, <1>10, <1>16, <2>1, <2>2 DEF Recvs
<1>18. ContentInv(l)'
  BY <1>3, <1>4, <1>17, RecvContent
<1>19. \A k \in Link \ {l} : MovesKept(k)
  <2> SUFFICES ASSUME NEW k \in Link, k # l PROVE MovesKept(k)
    OBVIOUS
  <2>1. \A j \in DOMAIN t : LinkOf(t[j]) # k
    BY <1>11, <1>12 DEF Made
  <2> QED
    BY <1>1, <1>14, <2>1, MovesAppend
<1>20. ActsFor(l)
  BY <1>2, <1>10, <1>19 DEF ActsFor
<1> QED
  BY <1>18, <1>20, OthersToo

\* Requests that copy the same fetch the same.
LEMMA CarriesAlike ==
    ASSUME NEW l, NEW s, NEW t, NEW from, NEW m, Fetched(l, s, from, m),
           \A k, v, d : Carries(t, l, k, v, d) <=> Carries(s, l, k, v, d)
    PROVE  Fetched(l, t, from, m)
<1> DEFINE F(k, v, d) == \E j \in 1 .. m :
                /\ k = IF Gets(l) THEN "request" ELSE "in"
                /\ v = IF Gets(l) THEN NextWord(l, from + j) ELSE from + j
                /\ d = Copy(OutBuf(l, from + j - 1), Target(l, from + j - 1))
<1>1. \A k, v, d : Carries(s, l, k, v, d) <=> F(k, v, d)
  BY Zenon DEF Fetched
<1>2. (\A k, v, d : Carries(t, l, k, v, d) <=> F(k, v, d)) => Fetched(l, t, from, m)
  BY Zenon DEF Fetched
<1> HIDE DEF F
<1> QED
  BY <1>1, <1>2

\* A step of GetAndUnpack that unpacks a complete buffer.
LEMMA FetchAndUnpackBrings ==
    ASSUME IInv, Contents, NEW l \in Link, ~Self(l), GetAndUnpack(l), in[l].unpacked # in[l].completed
    PROVE  Contents'
<1>1. TypeInv /\ PlaceInv /\ l[2] \in Proc
  BY LinkEnds DEF IInv
<1>2. /\ InCall(l, 302) /\ Finds(l, 302) /\ UNCHANGED <<prog, pc, round, out>>
      /\ UnpackAndConfirm(l, GetBuffers(l, in[l].taken, confirm[l]),
                          IF in[l].taken < confirm[l] THEN confirm[l] ELSE in[l].taken)
  BY DEF GetAndUnpack, Finds, InCall
<1>3. Receiving(l, 302) /\ ContentInv(l)
  BY <1>2, ReceiverCalls DEF Contents
<1>4. /\ Asked(l) /\ Active(l) /\ Fetches(l) /\ ~Gets(l) /\ ~Zero(l) /\ HoldInv(l) /\ in[l].st = 302
      /\ ReceiverInv(l) /\ ~Host(l[2])
  BY <1>3, FromHost DEF Receiving, ContentInv
<1>5. PICK from \in Nat, m \in Nat : /\ from = in[l].taken /\ from + m = confirm[l]
                                     /\ from + m <= Total(l) /\ confirm[l] - from = m
  BY <1>3, FromHost
<1>6. PICK n \in Nat : n = from + m
  OBVIOUS
<1>7. PICK u \in Nat : u = in[l].unpacked
  BY <1>1, QueueTypes
<1>8. PICK w \in Nat \ {0} : w = u + 1 /\ u + 2 = w + 1
  OBVIOUS
<1>9. PICK gets : gets = GetBuffers(l, from, from + m)
  OBVIOUS
<1>10. u < in[l].completed /\ u < InElem(l).frags
  <2>1. in[l].unpacked <= in[l].completed /\ in[l].completed <= in[l].taken /\ in[l].taken <= Total(l)
        /\ in[l].completed \in Nat
    BY <1>1, <1>4, QueueTypes DEF ReceiverInv
  <2>2. Total(l) = InElem(l).frags /\ Total(l) \in Nat
    BY <1>3, FromHost
  <2>3. u < in[l].completed
    BY <1>7, <2>1
  <2> QED
    BY <1>5, <2>1, <2>2, <2>3
<1>11. mem[InBuf(l, u)] = Source(l, u)
  BY <1>3, <1>4, <1>7, <1>10, BufferFull DEF Direct
<1>12. PICK st \in States : st = IF w = InElem(l).frags THEN 299 ELSE 302
  BY DEF States
<1>13. PICK v \in Nat : v = IF w = InElem(l).frags THEN 0 ELSE w + 1
  OBVIOUS
<1>14. /\ in' = [in EXCEPT ![l].unpacked = w, ![l].taken = n, ![l].st = st]
       /\ DispatchAndWrite(l[2], gets, Request(l, v))
       /\ mem' = [mem EXCEPT ![Dst(l, u)] = Source(l, u)]
  <2>1. (IF in[l].taken < confirm[l] THEN confirm[l] ELSE in[l].taken) = n
    BY <1>5, <1>6
  <2>2. GetBuffers(l, in[l].taken, confirm[l]) = gets
    BY <1>5, <1>9
  <2>3. UnpackAndConfirm(l, gets, n)
    BY <1>2, <2>1, <2>2
  <2> QED
    BY <1>4, <1>7, <1>8, <1>11, <1>12, <1>13, <2>3 DEF UnpackAndConfirm
<1>15. /\ \A k \in Link \ {l} : in'[k] = in[k]
       /\ in'[l].taken = n /\ in'[l].st = st /\ in'[l].unpacked = w /\ in'[l].cur = in[l].cur
  <2>1. SetIn(l, Unpacked(in[l], w, n, st))
    <3>1. in' = [in EXCEPT ![l].unpacked = w, ![l].taken = n, ![l].st = st]
      BY <1>14
    <3> QED
      BY <3>1 DEF Unpacked, SetIn
  <2> QED
    BY <1>1, <2>1, InUnpacked
<1>16. PICK s \in Seq(DmaRequests) : s = gets /\ Made(s, "in", l, m) /\ Fetched(l, s, from, m)
  <2>0. Asked(l)
    BY <1>4
  <2>1. /\ GetBuffers(l, from, from + m) \in Seq(DmaRequests)
        /\ Made(GetBuffers(l, from, from + m), "in", l, m)
    BY <2>0, Gotten
  <2>2. Fetched(l, gets, from, m)
    BY <1>4, <1>9, BuffersFetched
  <2> QED
    BY <1>9, <2>1, <2>2
<1>17. PICK x \in DmaRequests : x = DmaRequest(<<>>, Request(l, v), NoNote) /\ LinkOf(x) = l
  BY NextWordRequest
<1>18. x.copies = <<>>
  <2>1. DmaRequest(<<>>, Request(l, v), NoNote).copies = <<>>
    BY DEF DmaRequest
  <2> QED
    BY <1>17, <2>1
<1>19. PICK e \in Seq(DmaRequests) : e = <<x>>
  <2>1. <<x>> \in Seq(DmaRequests)
    OBVIOUS
  <2> QED
    BY <2>1
<1>20. PICK t \in Seq(DmaRequests) : t = s \o e
  <2>1. s \o e \in Seq(DmaRequests)
    OBVIOUS
  <2> QED
    BY <2>1
<1>21. dma' = [dma EXCEPT ![l[2]] = @ \o t]
  BY <1>4, <1>14, <1>16, <1>17, <1>19, <1>20 DEF DispatchAndWrite, Dispatch
<1>22. Fetched(l, t, from, m)
  <2>1. \A k, b, d : ~Carries(e, l, k, b, d)
    <3>1. \A j \in DOMAIN e : e[j].copies = <<>>
      BY <1>18, <1>19
    <3> QED
      BY <3>1, CarriesNone
  <2>2. \A k, b, d : Carries(s \o e, l, k, b, d) <=> Carries(s, l, k, b, d) \/ Carries(e, l, k, b, d)
    BY CarriesConcat
  <2>3. \A k, b, d : Carries(t, l, k, b, d) <=> Carries(s, l, k, b, d)
    BY <1>20, <2>1, <2>2
  <2>4. Fetched(l, s, from, m)
    BY <1>16
  <2> QED
    BY <2>3, <2>4, CarriesAlike
<1>23. AtSame(l)
  BY <1>2, <1>15 DEF AtSame
<1>24. Gives(l)
  <2>1. \A k : mem'[OutBuf(l, k)] = mem[OutBuf(l, k)]
    <3>1. \A k : OutBuf(l, k) # Dst(l, u)
      BY DEF OutBuf, Dst, DstCell
    <3> QED
      BY <1>14, <3>1
  <2>2. in'[l].taken = from + m /\ out' = out
    BY <1>2, <1>6, <1>15
  <2>3. Receiving(l, 302) /\ HoldInv(l)
    BY <1>3, <1>4
  <2>4. from = in[l].taken /\ from + m = confirm[l]
    BY <1>5
  <2> QED
    BY <2>3, <2>4, <1>21, <1>22, <1>23, <2>1, <2>2, FetchGives
<1>25. Recvs(l)
  <2>1. in[l].taken <= in'[l].taken /\ in'[l].st # 0
    BY <1>5, <1>6, <1>12, <1>15
  <2>2. Unpacks(l)
    BY <1>4, <1>7, <1>8, <1>10, <1>14, <1>15 DEF Unpacks, Direct
  <2> QED
    BY <1>2, <1>15, <1>24, <2>1, <2>2 DEF Recvs
<1>26. ContentInv(l)'
  BY <1>3, <1>4, <1>25, RecvContent
<1>27. \A k \in Link \ {l} : MovesKept(k)
  <2> SUFFICES ASSUME NEW k \in Link, k # l PROVE MovesKept(k)
    OBVIOUS
  <2>1. \A j \in DOMAIN t : LinkOf(t[j]) # k
    <3>1. \A j \in DOMAIN t : t[j] = x \/ (j \in DOMAIN s /\ t[j] = s[j])
      BY <1>19, <1>20
    <3>2. \A j \in DOMAIN s : LinkOf(s[j]) = l
      BY <1>16 DEF Made
    <3> QED
      BY <1>17, <3>1, <3>2
  <2> QED
    BY <1>1, <1>21, <2>1, MovesAppend
<1>28. \E b, y : b[2] = l /\ mem' = [mem EXCEPT ![b] = y]
  BY <1>14 DEF Dst, DstCell
<1>29. ActsFor(l)
  BY <1>2, <1>15, <1>27, <1>28 DEF ActsFor
<1> QED
  BY <1>26, <1>29, OthersToo

\* emb_process_incoming, fragments got into the staging buffers and unpacked.
LEMMA GetAndUnpackBrings == ASSUME IInv, Contents, NEW l \in Link, ~Self(l), GetAndUnpack(l) PROVE Contents'
  BY FetchOnlyBrings, FetchAndUnpackBrings

\* emb_process_incoming, the end of an element.
LEMMA InFinishBrings == ASSUME IInv, Contents, NEW l \in Link, ~Self(l), InFinish(l) PROVE Contents'
<1>1. TypeInv /\ PlaceInv
  BY DEF IInv
<1>2. /\ InCall(l, 299) \/ InCall(l, 304)
      /\ UNCHANGED <<prog, pc, round, out, mem, dma>> /\ confirm[l] = 0
      /\ in' = [in EXCEPT ![l] = Finished(in[l])]
  BY DEF InFinish, InCall
<1>3. ~Active(l) /\ Asked(l) /\ Passed(l)
  BY <1>2, AllReceived
<1>4. \A k, v, c : ~Moving(l, k, v, c)
  BY <1>3, MovingWithin DEF Contents
<1>5. \A m : MovesKept(m)
  BY <1>2, MovesSame
<1>6. in'[l].st = 0 /\ \A m \in Link \ {l} : in'[m] = in[m]
  <2>1. in \in [Link -> Queues] /\ in[l] \in Queues
    BY <1>1 DEF TypeInv
  <2>2. in'[l] = Finished(in[l]) /\ \A m \in Link \ {l} : in'[m] = in[m]
    BY <1>2, <2>1
  <2> QED
    BY <2>1, <2>2, FinishedQueue
<1>7. DoneInv(l)'
  <2>1. \A r, e : (OutDone(l, r, e)' <=> OutDone(l, r, e)) /\ (Arrived(l, r, e)' <=> Arrived(l, r, e))
    BY <1>2 DEF OutDone, Arrived
  <2>2. DoneInv(l)
    BY DEF Contents, ContentInv
  <2> QED
    BY <1>2, <2>1, <2>2 DEF DoneInv
<1>8. ContentInv(l)'
  <2>1. ~Active(l)'
    BY <1>2, <1>3 DEF Active
  <2>2. \A k, v, c : ~Moving(l, k, v, c)'
    BY <1>4, <1>5 DEF MovesKept
  <2>3. DirectInv(l)'
    BY <1>6 DEF DirectInv, Asked
  <2> QED
    BY <1>7, <2>1, <2>2, <2>3, Closed
<1>9. ActsFor(l)
  BY <1>2, <1>5, <1>6 DEF ActsFor
<1> QED
  BY <1>8, <1>9, OthersToo

-----------------------------------------------------------------------------
(* The calls for an element to the processor itself. *)

\* Where such a call finds its element.
LEMMA SelfAt ==
    ASSUME IInv, Contents, NEW l \in Link, Self(l), pc[l[1]] = "fence", Busy(out[l])
    PROVE  /\ SelfPart(l) /\ out[l].unpacked \in Nat /\ OutElem(l).frags \in Nat
           /\ round[l[1]] \in DOMAIN prog.fences
           /\ out[l].cur \in DOMAIN prog.fences[round[l[1]]][l]
<1>1. TypeInv /\ PlaceInv
  BY DEF IInv
<1>2. out[l] \in Queues /\ QueueInv(out[l], l[1], l) /\ out[l].unpacked \in Nat
  BY <1>1, QueueTypes
<1>3. /\ round[l[1]] \in DOMAIN prog.fences
      /\ out[l].cur \in DOMAIN prog.fences[round[l[1]]][l]
      /\ OutElem(l).frags \in Nat \ {0}
  BY <1>1, <1>2, AtElement DEF OutElem
<1>4. CASE Active(l)
  <2>1. SelfPart(l)
    BY <1>4 DEF Contents, ContentInv
  <2> QED
    BY <1>2, <1>3, <2>1
<1>5. CASE ~Active(l)
  <2>1. out[l].st = 0 /\ out[l].taken = 0 /\ out[l].unpacked = 0
    BY <1>2, <1>5 DEF Active, QueueInv, Rested
  <2> QED
    BY <1>2, <1>3, <2>1 DEF SelfPart
<1> QED
  BY <1>4, <1>5

\* What a call leaves when it does not finish the element.
SelfActs(l) ==
    /\ pc[l[1]] = "fence" /\ UNCHANGED <<prog, pc, round, in, dma>>
    /\ \A m \in Link \ {l} : out'[m] = out[m]
    /\ out'[l].cur = out[l].cur
    /\ \E a, x : /\ a[2] = l /\ mem' = [mem EXCEPT ![a] = x]
                 /\ a[1] = "dst" => a[3] = round[l[1]] /\ a[4] = out[l].cur
\* A step of a processor on its link to itself leaves the other links alone.
LEMMA SelfKeeps ==
    ASSUME IInv, Contents, NEW l \in Link, Self(l), SelfActs(l), SelfPart(l)'
    PROVE  Contents'
<1> USE DEF SelfActs
<1>1. PICK a, x : /\ a[2] = l /\ mem' = [mem EXCEPT ![a] = x]
                  /\ a[1] = "dst" => a[3] = round[l[1]] /\ a[4] = out[l].cur
  OBVIOUS
<1>2. PICK r0 \in Nat, e0 \in Nat : r0 = round[l[1]] /\ e0 = out[l].cur
  <2>1. TypeInv /\ PlaceInv
    BY DEF IInv
  <2>2. out[l] \in Queues /\ l[1] \in Proc
    BY <2>1, QueueTypes
  <2>3. Len(prog.fences) \in Nat
    BY <2>1, ProgramAssumption DEF TypeInv
  <2>4. round[l[1]] \in Nat
    BY <2>1, <2>2, <2>3 DEF TypeInv
  <2>5. out[l].cur \in Nat
    BY <2>2 DEF Queues
  <2> QED
    BY <2>4, <2>5
<1>3. \A r, e : OutDone(l, r, e)' <=> OutDone(l, r, e)
  BY DEF OutDone
<1>4. \A r, e, n : ~(r = r0 /\ e = e0) => mem'[DstCell(l, r, e, n)] = mem[DstCell(l, r, e, n)]
  <2>1. \A r, e, n : /\ DstCell(l, r, e, n)[1] = "dst" /\ DstCell(l, r, e, n)[3] = r
                     /\ DstCell(l, r, e, n)[4] = e
    BY DEF DstCell
  <2> QED
    BY <1>1, <1>2, <2>1
<1>5. ~OutDone(l, r0, e0)
  BY <1>2 DEF OutDone
<1>6. DoneInv(l)'
  <2>1. DoneInv(l)
    BY DEF Contents, ContentInv
  <2> QED
    BY <1>3, <1>4, <1>5, <2>1, DoneKept
<1>7. ContentInv(l)'
  BY <1>6 DEF ContentInv, Self
<1>8. ActsFor(l)
  <2>1. \A m : MovesKept(m)
    BY MovesSame
  <2> QED
    BY <1>1, <2>1 DEF ActsFor
<1> QED
  BY <1>7, <1>8, OthersToo

\* A processor's element to itself: packing,
LEMMA SelfPackBrings == ASSUME IInv, Contents, NEW l \in Link, SelfPack(l) PROVE Contents'
<1>1. TypeInv /\ PlaceInv /\ Self(l)
  BY SelfCalls DEF SelfPack, IInv
<1>2. /\ UNCHANGED <<prog, pc, round, in, dma>> /\ OutCase(l) = 100
      /\ out' = [out EXCEPT ![l].st = 101, ![l].taken = @ + 1] /\ pc[l[1]] = "fence" /\ Busy(out[l])
      /\ mem' = [mem EXCEPT ![OutBuf(l, 0)] = Src(l, out[l].taken)]
  BY DEF SelfPack, OutCall
<1>3. SelfPart(l)
  BY <1>1, <1>2, SelfAt
<1>4. PICK u \in Nat : u = out[l].unpacked
  BY <1>1, QueueTypes
<1>5. out[l].taken = u
  <2>1. out[l].st # 101
    BY <1>2 DEF OutCase
  <2> QED
    BY <1>3, <1>4, <2>1 DEF SelfPart
<1>6. /\ out'[l].st = 101 /\ out'[l].taken = u + 1 /\ out'[l].unpacked = u /\ out'[l].cur = out[l].cur
      /\ \A m \in Link \ {l} : out'[m] = out[m]
  <2>1. out \in [Link -> Queues] /\ out[l] \in Queues
    BY <1>1 DEF TypeInv
  <2>2. out'[l] = [out[l] EXCEPT !.st = 101, !.taken = u + 1] /\ \A m \in Link \ {l} : out'[m] = out[m]
    BY <1>2, <1>5, <2>1
  <2> QED
    BY <1>4, <2>1, <2>2 DEF Queues
<1>7. OutBuf(l, 0) \in DOMAIN mem
  BY <1>1, Buffers DEF TypeInv
<1>8. SelfPart(l)'
  <2>1. \A n : Src(l, n)' = Src(l, n)
    BY <1>2, <1>6 DEF Src
  <2>2. mem'[OutBuf(l, 0)] = Src(l, u)
    BY <1>2, <1>5, <1>7
  <2>3. \A r, e, n : mem'[DstCell(l, r, e, n)] = mem[DstCell(l, r, e, n)]
    <3>1. \A r, e, n : OutBuf(l, 0) # DstCell(l, r, e, n)
      BY DEF OutBuf, DstCell
    <3> QED
      BY <1>2, <3>1
  <2>4. OutElem(l)' = OutElem(l) /\ OutBuf(l, 0)' = OutBuf(l, 0)
    BY <1>2, <1>6 DEF OutElem, Elements, OutBuf
  <2>5. /\ out[l].unpacked < OutElem(l).frags
        /\ \A n \in Nat : n < out[l].unpacked =>
               mem[DstCell(l, round[l[1]], out[l].cur, n)] = Src(l, n)
    BY <1>3 DEF SelfPart
  <2>6. /\ out'[l].unpacked < OutElem(l)'.frags
        /\ out'[l].taken = IF out'[l].st = 101 THEN out'[l].unpacked + 1 ELSE out'[l].unpacked
        /\ mem'[OutBuf(l, 0)] = Src(l, out[l].unpacked)'
    BY <1>4, <1>6, <2>1, <2>2, <2>4, <2>5
  <2>7. \A n \in Nat : n < out'[l].unpacked =>
            mem'[DstCell(l, round'[l[1]], out'[l].cur, n)] = Src(l, n)'
    BY <1>2, <1>4, <1>6, <2>1, <2>3, <2>5
  <2> QED
    BY <2>4, <2>6, <2>7 DEF SelfPart
<1>9. SelfActs(l)
  <2>1. OutBuf(l, 0)[2] = l /\ OutBuf(l, 0)[1] # "dst"
    BY DEF OutBuf
  <2> QED
    BY <1>2, <1>6, <2>1 DEF SelfActs
<1> QED
  BY <1>1, <1>8, <1>9, SelfKeeps

\* unpacking,
LEMMA SelfUnpackBrings == ASSUME IInv, Contents, NEW l \in Link, SelfUnpack(l) PROVE Contents'
<1>1. TypeInv /\ PlaceInv /\ Self(l)
  BY SelfCalls DEF SelfUnpack, IInv
<1>2. PICK u \in Nat : u = out[l].unpacked
  BY <1>1, QueueTypes
<1>3. PICK w \in Nat : w = u + 1
  OBVIOUS
<1>4. /\ UNCHANGED <<prog, pc, round, in, dma>> /\ OutCase(l) = 101
      /\ out' = [out EXCEPT ![l] = IF w = OutElem(l).frags THEN Finished(out[l])
                                   ELSE [out[l] EXCEPT !.st = 100, !.unpacked = w]]
      /\ pc[l[1]] = "fence" /\ Busy(out[l])
      /\ mem' = [mem EXCEPT ![DstCell(l, round[l[1]], out[l].cur, u)] = mem[OutBuf(l, 0)]]
  BY <1>1, <1>2, <1>3 DEF SelfUnpack, OutCall, TypeInv
<1>5. /\ SelfPart(l) /\ OutElem(l).frags \in Nat
      /\ round[l[1]] \in DOMAIN prog.fences /\ out[l].cur \in DOMAIN prog.fences[round[l[1]]][l]
  BY <1>1, <1>4, SelfAt
<1>6. PICK r \in DOMAIN prog.fences : r = round[l[1]]
  BY <1>5
<1>7. PICK e \in DOMAIN prog.fences[r][l] : e = out[l].cur
  BY <1>5, <1>6
<1>8. PICK f \in Nat : f = OutElem(l).frags /\ f = prog.fences[r][l][e].frags
  BY <1>5, <1>6, <1>7 DEF OutElem, Elements
<1>9. out[l].st = 101
  BY <1>1, <1>4 DEF OutCase
<1>10. u < f /\ mem[OutBuf(l, 0)] = SrcCell(l, r, e, u) /\ out[l].taken = w
       /\ \A n \in Nat : n < u => mem[DstCell(l, r, e, n)] = SrcCell(l, r, e, n)
  BY <1>2, <1>3, <1>5, <1>6, <1>7, <1>8, <1>9 DEF SelfPart, Src
<1>11. DstCell(l, r, e, u) \in DOMAIN mem
  <2>1. u \in 0 .. prog.fences[r][l][e].frags - 1
    BY <1>8, <1>10
  <2> QED
    BY <1>1, <2>1, DstCellsOf DEF TypeInv
<1>12. mem' = [mem EXCEPT ![DstCell(l, r, e, u)] = SrcCell(l, r, e, u)]
  BY <1>4, <1>6, <1>7, <1>10
<1>13. \A n \in Nat : n < w => mem'[DstCell(l, r, e, n)] = SrcCell(l, r, e, n)
  <2>1. \A n : n # u => DstCell(l, r, e, n) # DstCell(l, r, e, u)
    BY DEF DstCell
  <2> QED
    BY <1>3, <1>10, <1>11, <1>12, <2>1
<1>14. out \in [Link -> Queues] /\ out[l] \in Queues
  BY <1>1 DEF TypeInv
<1>15. CASE w # f
  <2>1. /\ out'[l] = [out[l] EXCEPT !.st = 100, !.unpacked = w]
        /\ \A m \in Link \ {l} : out'[m] = out[m]
    BY <1>4, <1>8, <1>14, <1>15
  <2>2. out'[l].st = 100 /\ out'[l].unpacked = w /\ out'[l].taken = w /\ out'[l].cur = out[l].cur
    BY <1>10, <1>14, <2>1 DEF Queues
  <2>3. SelfPart(l)'
    <3>1. OutElem(l)' = OutElem(l)
      BY <1>4, <2>2 DEF OutElem, Elements
    <3>2. w < f
      BY <1>3, <1>10, <1>15
    <3>3. \A n : Src(l, n)' = SrcCell(l, r, e, n)
      BY <1>4, <1>6, <1>7, <2>2 DEF Src
    <3>4. /\ out'[l].unpacked < OutElem(l)'.frags
          /\ out'[l].taken = out'[l].unpacked /\ out'[l].st # 101
      <4>1. (OutElem(l)').frags = f
        BY <1>8, <3>1
      <4>2. 100 # 101
        OBVIOUS
      <4> QED
        BY <2>2, <3>2, <4>1, <4>2
    <3>5. \A n \in Nat : n < out'[l].unpacked =>
              mem'[DstCell(l, round'[l[1]], out'[l].cur, n)] = Src(l, n)'
      BY <1>4, <1>6, <1>7, <1>13, <2>2, <3>3
    <3> QED
      BY <3>4, <3>5 DEF SelfPart
  <2>4. SelfActs(l)
    <3>1. DstCell(l, r, e, u)[2] = l /\ DstCell(l, r, e, u)[3] = r /\ DstCell(l, r, e, u)[4] = e
      BY DEF DstCell
    <3>2. \E a, x : /\ a[2] = l /\ mem' = [mem EXCEPT ![a] = x]
                    /\ a[1] = "dst" => a[3] = round[l[1]] /\ a[4] = out[l].cur
      BY <1>6, <1>7, <1>12, <3>1
    <3> QED
      BY <1>4, <2>1, <2>2, <3>2 DEF SelfActs
  <2> QED
    BY <1>1, <2>3, <2>4, SelfKeeps
<1>16. CASE w = f
  <2>1. /\ out'[l].st = 0 /\ out'[l].cur = e + 1
        /\ \A m \in Link \ {l} : out'[m] = out[m]
    <3>1. out'[l] = Finished(out[l]) /\ \A m \in Link \ {l} : out'[m] = out[m]
      BY <1>4, <1>8, <1>14, <1>16
    <3> QED
      BY <1>7, <1>14, <3>1, FinishedQueue
  <2>2. Arrived(l, r, e)'
    BY <1>4, <1>8, <1>13, <1>16 DEF Arrived
  <2>3. ~OutDone(l, r, e)
    BY <1>1, <1>4, <1>6, <1>7, ElementTypes DEF OutDone
  <2>4. DoneInv(l)'
    <3>1. \A r1 \in DOMAIN prog.fences : \A e1 \in DOMAIN prog.fences[r1][l] :
              OutDone(l, r1, e1)' => OutDone(l, r1, e1) \/ (r1 = r /\ e1 = e)
      <4>1. \A r1 \in DOMAIN prog.fences : \A e1 \in DOMAIN prog.fences[r1][l] : e1 \in Nat
        BY <1>1, ElementTypes
      <4>2. e \in Nat
        BY <4>1
      <4>3. \A e1 \in Nat : e1 < e + 1 => e1 < e \/ e1 = e
        BY <4>2
      <4> QED
        BY <1>4, <1>6, <1>7, <2>1, <4>1, <4>3 DEF OutDone
    <3>2. \A r1, e1, n : ~(r1 = r /\ e1 = e) => mem'[DstCell(l, r1, e1, n)] = mem[DstCell(l, r1, e1, n)]
      <4>1. \A r1, e1, n : DstCell(l, r1, e1, n)[3] = r1 /\ DstCell(l, r1, e1, n)[4] = e1
        BY DEF DstCell
      <4> QED
        BY <1>12, <4>1
    <3>3. DoneInv(l)
      BY DEF Contents, ContentInv
    <3> SUFFICES ASSUME NEW r1 \in DOMAIN prog.fences, NEW e1 \in DOMAIN prog.fences[r1][l],
                        OutDone(l, r1, e1)'
                 PROVE  Arrived(l, r1, e1)'
      BY <1>4 DEF DoneInv
    <3>4. CASE r1 = r /\ e1 = e
      BY <2>2, <3>4
    <3>5. CASE ~(r1 = r /\ e1 = e)
      <4>1. Arrived(l, r1, e1)
        BY <3>1, <3>3, <3>5 DEF DoneInv
      <4> QED
        BY <1>4, <3>2, <3>5, <4>1 DEF Arrived
    <3> QED
      BY <3>4, <3>5
  <2>5. ContentInv(l)'
    <3>1. ~Active(l)'
      BY <2>1 DEF Active
    <3> QED
      BY <1>1, <2>4, <3>1, Closed DEF Self
  <2>6. ActsFor(l)
    <3>1. \A m : MovesKept(m)
      BY <1>4, MovesSame
    <3>2. DstCell(l, r, e, u)[2] = l
      BY DEF DstCell
    <3>3. \E a, x : a[2] = l /\ mem' = [mem EXCEPT ![a] = x]
      BY <1>12, <3>2
    <3> QED
      BY <1>4, <2>1, <3>1, <3>3 DEF ActsFor
  <2> QED
    BY <2>5, <2>6, OthersToo
<1> QED
  BY <1>15, <1>16

\* and passing the receiver's end of it.
LEMMA SelfSkipBrings == ASSUME IInv, Contents, NEW l \in Link, SelfSkip(l) PROVE Contents'
<1>1. TypeInv /\ PlaceInv /\ Self(l)
  BY SelfCalls DEF SelfSkip, IInv
<1>2. /\ UNCHANGED <<prog, pc, round, out, mem, dma>> /\ \A m \in Link \ {l} : in'[m] = in[m]
  BY <1>1 DEF SelfSkip, InCall, TypeInv
<1>3. ContentInv(l)
  BY DEF Contents
<1>4. DoneInv(l)'
  BY <1>2, <1>3 DEF ContentInv, DoneInv, OutDone, Arrived
<1>5. (Active(l)' <=> Active(l)) /\ (SelfPart(l) => SelfPart(l)')
  BY <1>2 DEF Active, SelfPart, Src, OutElem, Elements
<1>6. ContentInv(l)'
  BY <1>1, <1>3, <1>4, <1>5 DEF ContentInv, Self
<1>7. ActsFor(l)
  <2>1. \A m : MovesKept(m)
    BY <1>2, MovesSame
  <2> QED
    BY <1>2, <2>1 DEF ActsFor
<1> QED
  BY <1>6, <1>7, OthersToo

-----------------------------------------------------------------------------
(* The processors' own steps. *)

\* A step of a processor whose machines are at rest brings nothing.
LEMMA ProcBrings == ASSUME IInv, Contents, NEW p \in Proc, ProcFrameStep(p) PROVE Contents'
<1> SUFFICES ASSUME NEW l \in Link PROVE ContentInv(l)'
  BY DEF Contents
<1>1. /\ prog' = prog /\ mem' = mem /\ dma' = dma
      /\ \A q \in Proc \ {p} : pc'[q] = pc[q] /\ round'[q] = round[q]
      /\ l[1] # p => out'[l] = out[l]
      /\ l[2] # p => in'[l] = in[l]
      /\ l[1] = p => out[l].st = 0 /\ out'[l].st = 0
      /\ l[2] = p => in[l].st = 0 /\ in'[l].st = 0
      /\ \A r \in DOMAIN prog.fences : \A e \in DOMAIN prog.fences[r][l] : OutDone(l, r, e)' <=> OutDone(l, r, e)
  BY DEF ProcFrameStep
<1>2. l[1] \in Proc /\ l[2] \in Proc /\ ContentInv(l)
  BY LinkEnds DEF Contents
<1>3. MovesKept(l)
  BY <1>1, MovesSame
<1>4. DoneInv(l)'
  <2>1. DoneInv(l)
    BY <1>2 DEF ContentInv
  <2> QED
    BY <1>1, <2>1, DoneKept
<1>5. ASSUME ~Active(l), ~Self(l) PROVE \A k, v, c : ~Moving(l, k, v, c)'
  <2>1. \A k, v, c : ~Moving(l, k, v, c)
    BY <1>2, <1>5, MovingWithin
  <2> QED
    BY <1>3, <2>1 DEF MovesKept
<1>6. CASE l[1] = p
  <2>1. ~Active(l) /\ ~Active(l)'
    BY <1>1, <1>6 DEF Active
  <2>2. ASSUME ~Self(l) PROVE DirectInv(l)'
    <3>1. in'[l] = in[l] /\ round'[l[2]] = round[l[2]]
      BY <1>1, <1>2, <1>6, <2>2 DEF Self
    <3>2. Asked(l)' <=> Asked(l)
      BY <3>1 DEF Asked
    <3>3. Direct(l)' <=> Direct(l)
      BY <1>1, <3>1 DEF Direct, Zero, Gets, InElem, Elements, Host
    <3>4. DirectInv(l)
      BY <1>2, <2>2 DEF ContentInv
    <3> QED
      BY <3>1, <3>2, <3>3, <3>4 DEF DirectInv
  <2> QED
    BY <1>4, <1>5, <2>1, <2>2, Closed
<1>7. CASE l[1] # p /\ l[2] = p
  <2>1. ~Self(l)
    BY <1>7 DEF Self
  <2>2. ~Asked(l) /\ ~Asked(l)'
    BY <1>1, <1>7 DEF Asked
  <2>3. ~Active(l)
    BY <2>1, <2>2, LinkFacts
  <2>4. ~Active(l)'
    BY <1>1, <1>7, <2>3 DEF Active
  <2>5. DirectInv(l)'
    BY <2>2 DEF DirectInv
  <2> QED
    BY <1>4, <1>5, <2>1, <2>3, <2>4, <2>5, Closed
<1>8. CASE l[1] # p /\ l[2] # p
  <2>1. /\ pc'[l[1]] = pc[l[1]] /\ round'[l[1]] = round[l[1]] /\ round'[l[2]] = round[l[2]]
        /\ out'[l] = out[l] /\ in'[l] = in[l]
    BY <1>1, <1>2, <1>8
  <2>2. Still(l)
    BY <1>1, <1>3, <2>1 DEF Still, AtSame, CellsKept, Asked
  <2> QED
    BY <1>2, <2>2, Untouched
<1> QED
  BY <1>6, <1>7, <1>8

\* Registering an element to send,
LEMMA EmbSendBrings == ASSUME IInv, Contents, NEW l \in Link, EmbSend(l) PROVE Contents'
  BY LinkEnds, EmbSendFrame, ProcBrings
\* registering one to receive,
LEMMA EmbRecvBrings == ASSUME IInv, Contents, NEW l \in Link, EmbRecv(l) PROVE Contents'
  BY LinkEnds, EmbRecvFrame, ProcBrings
\* entering emb_fence,
LEMMA EnterFenceBrings == ASSUME IInv, Contents, NEW p \in Proc, EnterFence(p) PROVE Contents'
  BY EnterFenceFrame, ProcBrings
\* leaving its loop,
LEMMA LeaveLoopBrings == ASSUME IInv, Contents, NEW p \in Proc, LeaveLoop(p) PROVE Contents'
  BY LeaveLoopFrame, ProcBrings
\* and leaving the fence.
LEMMA LeaveFenceBrings == ASSUME IInv, Contents, NEW p \in Proc, LeaveFence(p) PROVE Contents'
  BY LeaveFenceFrame, ProcBrings

-----------------------------------------------------------------------------
(* The DMA engines. *)

\* The ring of p becomes t.
LEMMA RingMoves ==
    ASSUME TypeInv, NEW p \in Proc, NEW t, dma' = [dma EXCEPT ![p] = t],
           NEW l \in Link, NEW k, NEW v, NEW c
    PROVE  /\ (Carries(t, l, k, v, c) => Carries(dma[p], l, k, v, c)) =>
                  (Moving(l, k, v, c)' => Moving(l, k, v, c))
           /\ (Carries(dma[p], l, k, v, c) => Carries(t, l, k, v, c)) =>
                  (Moving(l, k, v, c) => Moving(l, k, v, c)')
<1>1. dma \in [Proc -> Seq(DmaRequests)] /\ l[1] \in Proc /\ l[2] \in Proc
  BY LinkEnds DEF TypeInv
<1>2. \A q \in Proc : dma'[q] = IF q = p THEN t ELSE dma[q]
  BY <1>1
<1>3. Moving(l, k, v, c)' <=> Carries(dma'[l[1]], l, k, v, c) \/ Carries(dma'[l[2]], l, k, v, c)
  BY DEF Moving, SRing, RRing, Carries
<1>4. Moving(l, k, v, c) <=> Carries(dma[l[1]], l, k, v, c) \/ Carries(dma[l[2]], l, k, v, c)
  BY DEF Moving, SRing, RRing
<1> QED
  BY <1>1, <1>2, <1>3, <1>4

\* A step that changes neither what moves nor memory brings nothing.
LEMMA EngineBrings ==
    ASSUME TypeInv, Contents, NEW p \in Proc, NEW t, dma' = [dma EXCEPT ![p] = t],
           \A l, k, v, c : Carries(t, l, k, v, c) <=> Carries(dma[p], l, k, v, c),
           UNCHANGED <<prog, pc, round, mem>>,
           \A l \in Link : /\ in'[l].st = in[l].st /\ in'[l].cur = in[l].cur
                           /\ in'[l].taken = in[l].taken /\ in'[l].unpacked = in[l].unpacked
                           /\ out'[l].st = out[l].st /\ out'[l].cur = out[l].cur
                           /\ out'[l].taken = out[l].taken /\ out'[l].unpacked = out[l].unpacked
    PROVE  Contents'
<1> SUFFICES ASSUME NEW l \in Link PROVE ContentInv(l)'
  BY DEF Contents
<1>1. MovesKept(l)
  <2> SUFFICES ASSUME NEW k, NEW v, NEW c PROVE Moving(l, k, v, c)' <=> Moving(l, k, v, c)
    BY DEF MovesKept
  <2> QED
    BY RingMoves
<1>2. Still(l)
  BY <1>1 DEF Still, AtSame, CellsKept, Asked
<1> QED
  BY <1>2, Untouched DEF Contents

\* A DMA engine writes a word of its request.
LEMMA DmaWordBrings == ASSUME IInv, Contents, NEW p \in Proc, DmaWord(p) PROVE Contents'
<1>1. /\ dma[p] # <<>> /\ dma[p][1].copies = <<>> /\ UNCHANGED <<prog, pc, round, out, in, mem>>
      /\ dma' = [dma EXCEPT ![p][1].word = NoWord]
  BY DEF DmaWord
<1>2. PICK s \in Seq(DmaRequests) : s = dma[p] /\ s # <<>> /\ 1 \in DOMAIN s
  BY <1>1, Oldest
<1>3. TypeInv /\ dma \in [Proc -> Seq(DmaRequests)]
  BY <1>1, Oldest
<1>4. PICK x \in DmaRequests : x = s[1]
  BY <1>1, <1>2, Oldest
<1>5. PICK y : y = [x EXCEPT !.word = NoWord]
  OBVIOUS
<1>6. y \in DmaRequests /\ y.copies = <<>>
  <2>1. x.copies = <<>>
    BY <1>1, <1>2, <1>4
  <2> QED
    BY <1>5, <2>1 DEF DmaRequests, Words
<1>7. PICK t : t = [s EXCEPT ![1] = y]
  OBVIOUS
<1>8. DOMAIN t = DOMAIN s /\ t[1] = y /\ \A j \in DOMAIN s : j # 1 => t[j] = s[j]
  BY <1>2, <1>6, <1>7, ReplaceHead
<1>9. dma' = [dma EXCEPT ![p] = t]
  BY <1>1, <1>2, <1>3, <1>4, <1>5, <1>7
<1>10. \A l, k, v, c : Carries(t, l, k, v, c) <=> Carries(s, l, k, v, c)
  <2>1. DOMAIN (s[1].copies) = {} /\ DOMAIN (t[1].copies) = {}
    <3>1. s[1].copies = <<>> /\ t[1].copies = <<>>
      BY <1>1, <1>2, <1>6, <1>8
    <3> QED
      BY <3>1
  <2>2. \A j \in DOMAIN s : (\E i \in DOMAIN s[j].copies : TRUE) => j # 1
    BY <2>1
  <2>3. \A j \in DOMAIN t : (\E i \in DOMAIN t[j].copies : TRUE) => j # 1
    BY <2>1
  <2> QED
    BY <1>8, <2>2, <2>3 DEF Carries
<1> QED
  BY <1>1, <1>2, <1>3, <1>9, <1>10, EngineBrings

\* The completion function takes a finished request out of the ring.
LEMMA DmaCompleteBrings == ASSUME IInv, Contents, NEW p \in Proc, DmaComplete(p) PROVE Contents'
<1>1. /\ dma[p] # <<>> /\ dma[p][1].copies = <<>> /\ UNCHANGED <<prog, pc, round, mem>>
      /\ dma' = [dma EXCEPT ![p] = Tail(@)]
  BY DEF DmaComplete
<1>2. PICK s \in Seq(DmaRequests) : s = dma[p] /\ s # <<>> /\ 1 \in DOMAIN s
  BY <1>1, Oldest
<1>3. TypeInv /\ dma \in [Proc -> Seq(DmaRequests)]
  BY <1>1, Oldest
<1>4. PICK t : t = Tail(s)
  OBVIOUS
<1>5. dma' = [dma EXCEPT ![p] = t]
  BY <1>1, <1>2, <1>3, <1>4
<1>6. \A l, k, v, c : Carries(t, l, k, v, c) <=> Carries(s, l, k, v, c)
  <2>1. DOMAIN (s[1].copies) = {}
    BY <1>1, <1>2
  <2>2. \A j \in DOMAIN t : j + 1 \in DOMAIN s /\ t[j] = s[j + 1]
    BY <1>2, <1>4
  <2>3. \A j \in DOMAIN s : j # 1 => j - 1 \in DOMAIN t /\ s[j] = t[j - 1]
    BY <1>2, <1>4
  <2>4. \A j \in DOMAIN s : (\E i \in DOMAIN s[j].copies : TRUE) => j # 1
    BY <2>1
  <2>5. \A l, k, v, c : Carries(t, l, k, v, c) => Carries(s, l, k, v, c)
    BY <2>2 DEF Carries
  <2>6. \A l, k, v, c : Carries(s, l, k, v, c) => Carries(t, l, k, v, c)
    BY <2>3, <2>4 DEF Carries
  <2> QED
    BY <2>5, <2>6
<1>7. \A l \in Link : /\ in'[l].st = in[l].st /\ in'[l].cur = in[l].cur
                      /\ in'[l].taken = in[l].taken /\ in'[l].unpacked = in[l].unpacked
                      /\ out'[l].st = out[l].st /\ out'[l].cur = out[l].cur
                      /\ out'[l].taken = out[l].taken /\ out'[l].unpacked = out[l].unpacked
  <2>1. PICK note : /\ out' = IF note.queue = "out" THEN [out EXCEPT ![note.link].completed = note.value] ELSE out
                    /\ in' = IF note.queue = "in" THEN [in EXCEPT ![note.link].completed = note.value] ELSE in
    BY DEF DmaComplete
  <2>2. out \in [Link -> Queues] /\ in \in [Link -> Queues]
    BY <1>3 DEF TypeInv
  <2>3. ASSUME NEW q \in Queues
        PROVE  LET z == [q EXCEPT !.completed = note.value] IN
               z.st = q.st /\ z.cur = q.cur /\ z.taken = q.taken /\ z.unpacked = q.unpacked
    BY DEF Queues
  <2>4. \A l \in Link : out'[l] = out[l] \/ out'[l] = [out[l] EXCEPT !.completed = note.value]
    BY <2>1, <2>2
  <2>5. \A l \in Link : in'[l] = in[l] \/ in'[l] = [in[l] EXCEPT !.completed = note.value]
    BY <2>1, <2>2
  <2> QED
    BY <2>2, <2>3, <2>4, <2>5
<1> QED
  BY <1>1, <1>2, <1>3, <1>5, <1>6, <1>7, EngineBrings

\* The fragments that are issued and not unpacked use different cells.
LEMMA TargetsApart ==
    ASSUME IInv, NEW l \in Link, ~Self(l), Active(l), NEW a \in Nat, NEW b \in Nat, a # b,
           in[l].unpacked <= a, a < Issued(l), in[l].unpacked <= b, b < Issued(l)
    PROVE  Target(l, a) # Target(l, b)
<1>1. TypeInv /\ PlaceInv /\ Asked(l) /\ ActiveInv(l) /\ ReceiverInv(l)
  BY LinkFacts
<1>2. CASE Direct(l)
  <2>1. Target(l, a) = Dst(l, a) /\ Target(l, b) = Dst(l, b)
    BY <1>2 DEF Target
  <2> QED
    BY <2>1 DEF Dst, DstCell
<1>3. CASE ~Direct(l)
  <2>1. /\ out[l].taken \in Nat /\ in[l].taken \in Nat /\ in[l].unpacked \in Nat
        /\ confirm[l] \in Nat /\ Wanted(l) \in Nat /\ BPQ \in Nat
    BY <1>1, QueueTypes, AskedTypes, BpqAssumption
  <2>2. ~Zero(l) /\ Given(l) = out[l].taken /\ Taken(l) = in[l].unpacked
    BY <1>3 DEF Direct, Given, Taken
  <2>3. Wanted(l) <= in[l].unpacked + 1 /\ out[l].taken <= Wanted(l) - 1 + BPQ
    BY <1>1, <2>2 DEF ActiveInv, ReceiverInv
  <2>4. Issued(l) \in Nat /\ Issued(l) <= out[l].taken
    BY <1>1, <2>1, <2>2 DEF Issued, ActiveInv
  <2>5. a - b < BPQ /\ b - a < BPQ
    BY <2>1, <2>3, <2>4
  <2>6. InBuf(l, a) # InBuf(l, b)
    BY <2>5, BuffersApart
  <2> QED
    BY <1>3, <2>6 DEF Target
<1> QED
  BY <1>2, <1>3

\* Ring t is ring s without copy c, the first of its oldest request.
Dropped(s, t, x, y, cs, c) ==
    /\ 1 \in DOMAIN s /\ DOMAIN t = DOMAIN s /\ s[1] = x /\ t[1] = y
    /\ \A j \in DOMAIN s : j # 1 => t[j] = s[j]
    /\ x.copies = cs /\ cs # <<>> /\ c = cs[1] /\ y.copies = Tail(cs)
    /\ Kind(y) = Kind(x) /\ LinkOf(y) = LinkOf(x) /\ Value(y) = Value(x)
\* A copy that is made leaves its request, and all other moving copies stay.
LEMMA CopyDropped ==
    ASSUME NEW S, NEW s, NEW t, NEW x, NEW y, NEW cs \in Seq(S), NEW c, Dropped(s, t, x, y, cs, c),
           NEW l, NEW k, NEW v, NEW d
    PROVE  /\ Carries(t, l, k, v, d) => Carries(s, l, k, v, d)
           /\ Carries(s, l, k, v, d) => Carries(t, l, k, v, d) \/ (d = c /\ l = LinkOf(x))
<1> USE DEF Dropped
<1>1. \A i \in DOMAIN y.copies : i + 1 \in DOMAIN x.copies /\ x.copies[i + 1] = y.copies[i]
  OBVIOUS
<1>2. \A i \in DOMAIN x.copies : i # 1 => i - 1 \in DOMAIN y.copies /\ x.copies[i] = y.copies[i - 1]
  OBVIOUS
<1>3. Carries(t, l, k, v, d) => Carries(s, l, k, v, d)
  <2> SUFFICES ASSUME NEW j \in DOMAIN t, Kind(t[j]) = k, LinkOf(t[j]) = l, Value(t[j]) = v,
                      NEW i \in DOMAIN t[j].copies, t[j].copies[i] = d
               PROVE  Carries(s, l, k, v, d)
    BY DEF Carries
  <2>1. CASE j = 1
    <3>1. Kind(s[1]) = k /\ LinkOf(s[1]) = l /\ Value(s[1]) = v
      BY <2>1
    <3>2. i + 1 \in DOMAIN s[1].copies /\ s[1].copies[i + 1] = d
      BY <1>1, <2>1
    <3> QED
      BY <3>1, <3>2 DEF Carries
  <2>2. CASE j # 1
    BY <2>2 DEF Carries
  <2> QED
    BY <2>1, <2>2
<1>4. Carries(s, l, k, v, d) => Carries(t, l, k, v, d) \/ (d = c /\ l = LinkOf(x))
  <2> SUFFICES ASSUME NEW j \in DOMAIN s, Kind(s[j]) = k, LinkOf(s[j]) = l, Value(s[j]) = v,
                      NEW i \in DOMAIN s[j].copies, s[j].copies[i] = d
               PROVE  Carries(t, l, k, v, d) \/ (d = c /\ l = LinkOf(x))
    BY DEF Carries
  <2>1. CASE j = 1 /\ i # 1
    <3>1. Kind(t[1]) = k /\ LinkOf(t[1]) = l /\ Value(t[1]) = v
      BY <2>1
    <3>2. i - 1 \in DOMAIN t[1].copies /\ t[1].copies[i - 1] = d
      BY <1>2, <2>1
    <3> QED
      BY <3>1, <3>2 DEF Carries
  <2>2. CASE j # 1
    BY <2>2 DEF Carries
  <2>3. CASE j = 1 /\ i = 1
    BY <2>3
  <2> QED
    BY <2>1, <2>2, <2>3
<1> QED
  BY <1>3, <1>4

\* Fragment n arrives where copy c brings it.
Lands(l, n, c) ==
    /\ prog' = prog /\ pc' = pc /\ round' = round /\ out' = out /\ in' = in
    /\ mem' = [mem EXCEPT ![Target(l, n)] = Source(l, n)]
    /\ c.to = Target(l, n) /\ Within(l, n) /\ n < InElem(l).frags
    /\ \A k, v, d : /\ Moving(l, k, v, d)' => Moving(l, k, v, d)
                    /\ Moving(l, k, v, d) => Moving(l, k, v, d)' \/ d = c
\* A fragment that lands in the element of the receiver keeps the contents of the link.
LEMMA LandContent ==
    ASSUME IInv, NEW l \in Link, ~Self(l), ContentInv(l), Active(l), NEW n \in Nat, NEW c, Lands(l, n, c)
    PROVE  ContentInv(l)'
<1> USE DEF Lands
<1>1. /\ TypeInv /\ PlaceInv /\ Asked(l) /\ ~Passed(l) /\ ActiveInv(l)
      /\ DoneInv(l) /\ MoveInv(l) /\ DirectInv(l) /\ HoldInv(l) /\ PartInv(l)
  BY LinkFacts DEF ContentInv
<1>2. AtSame(l)
  BY DEF AtSame
<1>3. /\ InElem(l)' = InElem(l) /\ (Host(l[1])' <=> Host(l[1])) /\ (Direct(l)' <=> Direct(l))
      /\ (Zero(l)' <=> Zero(l)) /\ (Gets(l)' <=> Gets(l))
      /\ \A i : Source(l, i)' = Source(l, i) /\ Target(l, i)' = Target(l, i) /\ Dst(l, i)' = Dst(l, i)
  BY <1>2, SameTerms
<1>4. PICK a : a = Target(l, n)
  OBVIOUS
<1>5. a \in DOMAIN mem /\ (a = Dst(l, n) \/ a = InBuf(l, n))
  <2>1. InElem(l).frags \in Nat
    BY <1>1, AskedTypes
  <2>2. n \in 0 .. InElem(l).frags - 1
    BY <2>1
  <2>3. Dst(l, n) \in Cells(prog.fences)
    BY <1>1, <2>2, DstOf DEF Arrives
  <2>4. InBuf(l, n) \in Cells(prog.fences)
    BY <1>1, Buffers
  <2> QED
    BY <1>1, <1>4, <2>3, <2>4 DEF Target, TypeInv
<1>6. mem' = [mem EXCEPT ![a] = Source(l, n)] /\ mem'[a] = Source(l, n)
      /\ \A b : b # a => mem'[b] = mem[b]
  BY <1>4, <1>5
<1>7. \A i : mem'[OutBuf(l, i)] = mem[OutBuf(l, i)]
  <2>1. \A i : OutBuf(l, i) # a
    BY <1>5 DEF OutBuf, InBuf, Dst, DstCell
  <2> QED
    BY <1>6, <2>1
<1>8. DoneInv(l)'
  <2>1. \A r, e : OutDone(l, r, e)' <=> OutDone(l, r, e)
    BY <1>2, OutDoneKept
  <2>2. ASSUME NEW r, NEW e, OutDone(l, r, e)
        PROVE  \A i : mem'[DstCell(l, r, e, i)] = mem[DstCell(l, r, e, i)]
    <3>1. r # round[l[2]] \/ e # in[l].cur
      BY <1>1, <2>2 DEF Passed
    <3>2. \A i : DstCell(l, r, e, i) # a
      BY <1>5, <3>1 DEF Dst, DstCell, InBuf
    <3> QED
      BY <1>6, <3>2
  <2> QED
    BY <1>1, <2>1, <2>2, DoneKept
<1>9. MoveInv(l)'
  <2> SUFFICES ASSUME NEW k, NEW v, NEW d, Moving(l, k, v, d)'
               PROVE  \E i \in 0 .. InElem(l).frags - 1 : Brings(l, k, v, d, i)'
    BY <1>3 DEF MoveInv
  <2>1. PICK i \in 0 .. InElem(l).frags - 1 : Brings(l, k, v, d, i)
    BY <1>1 DEF MoveInv
  <2>2. Brings(l, k, v, d, i)'
    BY <1>3, <1>7, <2>1 DEF Brings
  <2> QED
    BY <2>2
<1>10. DirectInv(l)'
  BY <1>1, <1>3 DEF DirectInv, Asked
<1>11. HoldInv(l)'
  BY <1>1, <1>3, <1>7 DEF HoldInv
<1>12. Issued(l)' = Issued(l)
  BY <1>3 DEF Issued
<1>13. PartInv(l)'
  <2>1. ASSUME NEW i \in Nat, i < in[l].unpacked
        PROVE  mem'[Dst(l, i)] = Source(l, i)
    <3>1. mem[Dst(l, i)] = Source(l, i)
      BY <1>1, <2>1 DEF PartInv
    <3>2. Dst(l, i) = a => i = n
      BY <1>5 DEF Dst, DstCell, InBuf
    <3> QED
      BY <1>6, <3>1, <3>2
  <2>2. ASSUME NEW i \in Nat, in[l].unpacked <= i, i < Issued(l),
               \A k, v, d : Moving(l, k, v, d)' => d.to # Target(l, i)
        PROVE  mem'[Target(l, i)] = Source(l, i)
    <3>1. CASE i = n
      BY <1>4, <1>6, <3>1
    <3>2. CASE i # n
      <4>1. Target(l, i) # a
        BY <1>4, <2>2, <3>2, TargetsApart DEF Within
      <4>2. \A k, v, d : Moving(l, k, v, d) => d.to # Target(l, i)
        BY <1>4, <2>2, <4>1
      <4>3. mem[Target(l, i)] = Source(l, i)
        BY <1>1, <2>2, <4>2 DEF PartInv
      <4> QED
        BY <1>6, <4>1, <4>3
    <3> QED
      BY <3>1, <3>2
  <2> QED
    BY <1>3, <1>12, <2>1, <2>2 DEF PartInv
<1> QED
  BY <1>8, <1>9, <1>10, <1>11, <1>13 DEF ContentInv, Self

\* A DMA engine makes one copy of a request.
LEMMA DmaCopyBrings == ASSUME IInv, Contents, NEW p \in Proc, DmaCopy(p) PROVE Contents'
<1>1. /\ dma[p] # <<>> /\ dma[p][1].copies # <<>>
      /\ UNCHANGED <<prog, pc, round, out, in>>
      /\ mem' = [mem EXCEPT ![Head(dma[p][1].copies).to] = Content(Head(dma[p][1].copies).from)]
      /\ dma' = [dma EXCEPT ![p][1].copies = Tail(@)]
  BY DEF DmaCopy
<1>2. PICK s \in Seq(DmaRequests) : s = dma[p] /\ s # <<>> /\ 1 \in DOMAIN s
  BY <1>1, Oldest
<1>3. TypeInv /\ dma \in [Proc -> Seq(DmaRequests)]
  BY <1>1, Oldest
<1>4. PICK x \in DmaRequests : x = s[1] /\ RequestOf(p, x) /\ CopiesAt(x, round, out, in)
  BY <1>1, <1>2, Oldest
<1>5. PICK cs \in Seq(CopySet) : cs = x.copies /\ cs # <<>>
  BY <1>1, <1>2, <1>4 DEF DmaRequests
<1>6. PICK c : c = cs[1] /\ 1 \in DOMAIN cs /\ c = Head(cs)
  <2>1. \A z \in Seq(CopySet) : z # <<>> => 1 \in DOMAIN z /\ z[1] = Head(z)
    OBVIOUS
  <2> QED
    BY <1>5, <2>1
<1>7. PICK y : y = [x EXCEPT !.copies = Tail(cs)]
  OBVIOUS
<1>8. /\ y \in DmaRequests /\ y.word = x.word /\ y.note = x.note /\ y.copies = Tail(cs)
  <2>1. Tail(cs) \in Seq(CopySet)
    BY <1>5
  <2> QED
    BY <1>7, <2>1 DEF DmaRequests
<1>9. /\ Kind(y) = Kind(x) /\ LinkOf(y) = LinkOf(x) /\ Value(y) = Value(x)
  BY <1>8 DEF Kind, LinkOf, Value
<1>10. PICK t : t = [s EXCEPT ![1] = y]
  OBVIOUS
<1>11. DOMAIN t = DOMAIN s /\ t[1] = y /\ \A j \in DOMAIN s : j # 1 => t[j] = s[j]
  BY <1>2, <1>8, <1>10, ReplaceHead
<1>12. dma' = [dma EXCEPT ![p] = t]
  <2>1. dma' = [dma EXCEPT ![p] = [s EXCEPT ![1] = [x EXCEPT !.copies = Tail(x.copies)]]]
    BY <1>1, <1>2, <1>3, <1>4
  <2> QED
    BY <1>5, <1>7, <1>10, <2>1
<1>13. Kind(x) # "none"
  BY <1>4, <1>5, <1>6 DEF CopiesAt
<1>14. PICK l \in Link : l = LinkOf(x) /\ ~Self(l) /\ p \in {l[1], l[2]}
  <2>1. LinkOf(x) \in Link /\ ~Self(LinkOf(x))
    BY <1>4, <1>13 DEF RequestOf
  <2>2. Kind(x) \in RequestKinds
    BY <1>4, <1>13, KindOf DEF RequestOf
  <2>3. p \in {LinkOf(x)[1], LinkOf(x)[2]}
    BY <1>4, <2>2 DEF RequestOf, RequestKinds
  <2> QED
    BY <2>1, <2>3
<1>15. Moving(l, Kind(x), Value(x), c)
  <2>1. Carries(s, l, Kind(x), Value(x), c)
    BY <1>2, <1>4, <1>5, <1>6, <1>14 DEF Carries
  <2> QED
    BY <1>2, <1>14, <2>1 DEF Moving, SRing, RRing
<1>16. ContentInv(l)
  BY DEF Contents
<1>17. PICK n \in Nat : n < InElem(l).frags /\ Brings(l, Kind(x), Value(x), c, n) /\ Within(l, n)
  BY <1>14, <1>15, <1>16, MovingWithin
<1>18. Active(l)
  BY <1>14, <1>15, <1>16, MovingWithin
<1>19. mem' = [mem EXCEPT ![Target(l, n)] = Source(l, n)] /\ c.to = Target(l, n)
  <2>1. mem' = [mem EXCEPT ![c.to] = Content(c.from)]
    BY <1>1, <1>2, <1>4, <1>5, <1>6
  <2>2. c.to = Target(l, n)
    BY <1>17 DEF Brings
  <2>3. Content(c.from) = Source(l, n)
    <3>1. c.from = Source(l, n) \/ (c.from = OutBuf(l, n) /\ mem[OutBuf(l, n)] = Source(l, n))
      BY <1>17 DEF Brings
    <3>2. Source(l, n)[1] = "src" /\ OutBuf(l, n)[1] = "out"
      BY DEF Source, SrcCell, OutBuf
    <3> QED
      BY <3>1, <3>2 DEF Content
  <2> QED
    BY <2>1, <2>2, <2>3
<1>20. \A m, k, v, d : /\ Carries(t, m, k, v, d) => Carries(s, m, k, v, d)
                       /\ Carries(s, m, k, v, d) => Carries(t, m, k, v, d) \/ (d = c /\ m = l)
  <2>1. Dropped(s, t, x, y, cs, c)
    BY <1>2, <1>4, <1>5, <1>6, <1>8, <1>9, <1>11 DEF Dropped
  <2> QED
    BY <1>14, <2>1, CopyDropped
<1>21. ContentInv(l)'
  <2>1. \A k, v, d : /\ Moving(l, k, v, d)' => Moving(l, k, v, d)
                     /\ Moving(l, k, v, d) => Moving(l, k, v, d)' \/ d = c
    <3> SUFFICES ASSUME NEW k, NEW v, NEW d
                 PROVE  /\ Moving(l, k, v, d)' => Moving(l, k, v, d)
                        /\ Moving(l, k, v, d) => Moving(l, k, v, d)' \/ d = c
      OBVIOUS
    <3> QED
      BY <1>2, <1>3, <1>12, <1>20, RingMoves
  <2>2. Lands(l, n, c)
    BY <1>1, <1>17, <1>19, <2>1 DEF Lands
  <2> QED
    BY <1>14, <1>16, <1>18, <2>2, LandContent
<1>22. ActsFor(l)
  <2>1. ASSUME NEW m \in Link, m # l PROVE MovesKept(m)
    <3> SUFFICES ASSUME NEW k, NEW v, NEW d PROVE Moving(m, k, v, d)' <=> Moving(m, k, v, d)
      BY DEF MovesKept
    <3>1. Carries(t, m, k, v, d) <=> Carries(dma[p], m, k, v, d)
      BY <1>2, <1>20, <2>1
    <3> QED
      BY <1>3, <1>12, <3>1, RingMoves
  <2>2. Target(l, n)[2] = l
    BY DEF Target, Dst, DstCell, InBuf
  <2>3. \E a, z : a[2] = l /\ mem' = [mem EXCEPT ![a] = z]
    BY <1>19, <2>2
  <2> QED
    BY <1>1, <2>1, <2>3 DEF ActsFor
<1> QED
  BY <1>21, <1>22, OthersToo

-----------------------------------------------------------------------------
(* The invariant holds. *)

\* No element is through when the program starts, and nothing is moving.
LEMMA InitUndone ==
    ASSUME Init, NEW l \in Link, NEW r \in DOMAIN prog.fences, NEW e \in DOMAIN prog.fences[r][l]
    PROVE  ~OutDone(l, r, e)
<1>1. /\ out = [m \in Link |-> EmptyQueue] /\ EmptyQueue.cur = 1
      /\ pc = [p \in Proc |-> IF p \in prog.procs THEN "register" ELSE "done"]
      /\ round = [p \in Proc |-> IF p \in prog.procs THEN 1 ELSE Len(prog.fences) + 1]
      /\ prog \in Programs
  BY DEF Init, EmptyQueue
<1>2. prog.fences[r][l] \in Seq(Elem) /\ r \in Nat \ {0} /\ e \in Nat \ {0}
  BY InitInv, ElementTypes DEF IInv
<1>3. prog.fences[r][l] # <<>>
  BY <1>2
<1>4. l[1] \in prog.procs /\ l[1] \in Proc
  BY <1>1, <1>3, LinkEnds, ProgramAssumption
<1>5. round[l[1]] = 1 /\ pc[l[1]] = "register"
  BY <1>1, <1>4
<1> QED
  BY <1>1, <1>2, <1>5 DEF OutDone
\* Before the first step no element is done.
LEMMA InitContents == ASSUME Init PROVE Contents
<1>1. /\ out = [l \in Link |-> EmptyQueue] /\ in = [l \in Link |-> EmptyQueue]
      /\ dma = [p \in Proc |-> <<>>] /\ EmptyQueue.st = 0
  BY DEF Init, EmptyQueue
<1> SUFFICES ASSUME NEW l \in Link PROVE ContentInv(l)
  BY DEF Contents
<1>2. l[1] \in Proc /\ l[2] \in Proc
  BY LinkEnds
<1>3. ~Active(l) /\ ~Asked(l) /\ SRing(l) = <<>> /\ RRing(l) = <<>>
  BY <1>1, <1>2 DEF Active, Asked, SRing, RRing
<1>4. \A k, v, c : ~Moving(l, k, v, c)
  <2>1. DOMAIN <<>> = {}
    OBVIOUS
  <2> QED
    BY <1>3, <2>1 DEF Moving, Carries
<1> QED
  BY <1>3, <1>4, InitUndone DEF ContentInv, DoneInv, MoveInv, DirectInv

\* A call of emb_process_outgoing keeps the contents.
LEMMA OutStepBrings == ASSUME IInv, Contents, NEW l \in Link, OutStep(l) PROVE Contents'
<1>1. CASE SelfPack(l)
  BY <1>1, SelfPackBrings
<1>2. CASE SelfUnpack(l)
  BY <1>2, SelfUnpackBrings
<1>3. CASE PutPacked(l)
  <2>1. ~Self(l)
    BY <1>3, SelfCalls DEF PutPacked
  <2> QED
    BY <1>3, <2>1, PutPackedBrings
<1>4. CASE PutBuffer(l)
  <2>1. ~Self(l)
    BY <1>4, SelfCalls DEF PutBuffer
  <2> QED
    BY <1>4, <2>1, PutBufferBrings
<1>5. CASE PutDirect(l)
  <2>1. ~Self(l)
    BY <1>5, SelfCalls DEF PutDirect
  <2> QED
    BY <1>5, <2>1, PutDirectBrings
<1>6. CASE PutZeroCopy(l)
  <2>1. ~Self(l)
    BY <1>6, SelfCalls DEF PutZeroCopy
  <2> QED
    BY <1>6, <2>1, PutZeroCopyBrings
<1>7. CASE HostPack(l)
  <2>1. ~Self(l)
    BY <1>7, SelfCalls DEF HostPack
  <2> QED
    BY <1>7, <2>1, HostPackBrings
<1>8. CASE OutFinish(l)
  <2>1. ~Self(l)
    BY <1>8, SelfCalls DEF OutFinish
  <2> QED
    BY <1>8, <2>1, OutFinishBrings
<1> QED
  BY <1>1, <1>2, <1>3, <1>4, <1>5, <1>6, <1>7, <1>8 DEF OutStep

\* A call of emb_process_incoming keeps the contents.
LEMMA InStepBrings == ASSUME IInv, Contents, NEW l \in Link, InStep(l) PROVE Contents'
<1>1. CASE SelfSkip(l)
  BY <1>1, SelfSkipBrings
<1>2. CASE PostRequest(l)
  <2>1. ~Self(l)
    BY <1>2, SelfCalls DEF PostRequest
  <2> QED
    BY <1>2, <2>1, PostRequestBrings
<1>3. CASE UnpackPut(l)
  <2>1. ~Self(l)
    BY <1>3, SelfCalls DEF UnpackPut
  <2> QED
    BY <1>3, <2>1, UnpackPutBrings
<1>4. CASE PutArrived(l)
  <2>1. ~Self(l)
    BY <1>4, SelfCalls DEF PutArrived
  <2> QED
    BY <1>4, <2>1, PutArrivedBrings
<1>5. CASE GetAndUnpack(l)
  <2>1. ~Self(l)
    BY <1>5, SelfCalls DEF GetAndUnpack
  <2> QED
    BY <1>5, <2>1, GetAndUnpackBrings
<1>6. CASE GetToUser(l)
  <2>1. ~Self(l)
    BY <1>6, SelfCalls DEF GetToUser
  <2> QED
    BY <1>6, <2>1, GetToUserBrings
<1>7. CASE InFinish(l)
  <2>1. ~Self(l)
    BY <1>7, SelfCalls DEF InFinish
  <2> QED
    BY <1>7, <2>1, InFinishBrings
<1> QED
  BY <1>1, <1>2, <1>3, <1>4, <1>5, <1>6, <1>7 DEF InStep

\* Every step keeps the contents.
LEMMA NextContents == ASSUME IInv, Contents, [Next]_vars PROVE Contents'
<1>1. CASE UNCHANGED vars
  <2>1. UNCHANGED <<prog, pc, round, out, in, mem, dma>>
    BY <1>1 DEF vars
  <2>2. ASSUME NEW l \in Link PROVE ContentInv(l)'
    <3>1. MovesKept(l)
      BY <2>1, MovesSame
    <3>2. Still(l)
      BY <2>1, <3>1 DEF Still, AtSame, CellsKept, Asked
    <3>3. ContentInv(l)
      BY DEF Contents
    <3> QED
      BY <3>2, <3>3, Untouched
  <2> QED
    BY <2>2 DEF Contents
<1>2. ASSUME NEW p \in Proc, NEW q \in Proc,
             EmbSend(<<p, q>>) \/ EmbRecv(<<q, p>>) \/ OutStep(<<p, q>>) \/ InStep(<<q, p>>)
      PROVE  Contents'
  <2>1. PICK l \in Link : l = <<p, q>>
    BY DEF Link
  <2>2. PICK m \in Link : m = <<q, p>>
    BY DEF Link
  <2>3. EmbSend(l) \/ EmbRecv(m) \/ OutStep(l) \/ InStep(m)
    BY <1>2, <2>1, <2>2
  <2> QED
    BY <2>3, EmbSendBrings, EmbRecvBrings, OutStepBrings, InStepBrings
<1>3. ASSUME NEW p \in Proc, ProcStep(p) PROVE Contents'
  BY <1>2, <1>3, EnterFenceBrings, LeaveLoopBrings, LeaveFenceBrings DEF ProcStep
<1>4. ASSUME NEW p \in Proc, DmaStep(p) PROVE Contents'
  BY <1>4, DmaCopyBrings, DmaWordBrings, DmaCompleteBrings DEF DmaStep
<1> QED
  BY <1>1, <1>3, <1>4 DEF Next, Terminated

\* Whatever way a fragment takes from ensemble.c's user memory to user memory,
\* through two staging buffers, one or none, each of its copies is made before its
\* buffer is filled again, and it comes to rest in its place.
THEOREM ContentsAlways == Spec => []Contents
<1>1. Init => Contents
  BY InitContents
<1>2. IInv /\ Contents /\ [Next]_vars => Contents'
  BY NextContents
<1> QED
  BY <1>1, <1>2, Inductive, PTL DEF Spec

-----------------------------------------------------------------------------
(* The transfers are those of Exchange. *)

\* The elements that a link has, with their fences.
LEMMA RegisteredAre ==
    ASSUME NEW l, NEW x
    PROVE  x \in Registered(l) <=>
               \E r \in DOMAIN prog.fences : \E e \in DOMAIN prog.fences[r][l] : x = <<r, e>>
  BY DEF Registered

\* What Exchange is told of a program.
Loads == [r \in DOMAIN prog.fences |-> [l \in Link |-> Len(prog.fences[r][l])]]
\* What the abstract exchange is told to carry, read off the program.
LEMMA LoadTypes ==
    ASSUME TypeInv
    PROVE  /\ Loads \in Seq([Link -> Nat]) /\ Len(Loads) = Len(prog.fences)
           /\ DOMAIN Loads = DOMAIN prog.fences /\ Len(prog.fences) \in Nat
           /\ \A r \in DOMAIN prog.fences : \A l \in Link :
                  1 .. Loads[r][l] = DOMAIN prog.fences[r][l]
<1>1. /\ prog.fences \in Seq([Link -> Seq(Elem)]) /\ Len(prog.fences) \in Nat
      /\ DOMAIN prog.fences = 1 .. Len(prog.fences)
  BY ProgramAssumption DEF TypeInv
<1>2. ASSUME NEW r \in DOMAIN prog.fences, NEW l \in Link
      PROVE  /\ Len(prog.fences[r][l]) \in Nat
             /\ DOMAIN prog.fences[r][l] = 1 .. Len(prog.fences[r][l])
  <2>1. prog.fences[r][l] \in Seq(Elem)
    BY ElementTypes
  <2> QED
    BY <2>1
<1>3. \A r \in DOMAIN prog.fences : Loads[r] \in [Link -> Nat]
  BY <1>2 DEF Loads
<1>4. Loads \in [1 .. Len(prog.fences) -> [Link -> Nat]]
  BY <1>1, <1>3 DEF Loads
<1>5. \A n \in Nat : \A S, f : f \in [1 .. n -> S] => f \in Seq(S) /\ Len(f) = n
  OBVIOUS
<1>6. Loads \in Seq([Link -> Nat]) /\ Len(Loads) = Len(prog.fences)
  BY <1>1, <1>4, <1>5
<1>7. \A r \in DOMAIN prog.fences : \A l \in Link : 1 .. Loads[r][l] = DOMAIN prog.fences[r][l]
  BY <1>2 DEF Loads
<1> QED
  BY <1>1, <1>6, <1>7 DEF Loads

\* The elements up to a fence, and those that both ends have come to.
LEMMA PostedAre ==
    ASSUME TypeInv, NEW l \in Link, NEW r
    PROVE  Abstract!Posted(l, r) = {x \in Registered(l) : x[1] <= r}
<1>1. Abstract!Posted(l, r) = UNION {{s} \X (1 .. Loads[s][l]) : s \in {t \in DOMAIN Loads : t <= r}}
  BY DEF Abstract!Posted, Loads
<1>2. ASSUME NEW x
      PROVE  x \in Abstract!Posted(l, r) <=>
                 \E s \in DOMAIN prog.fences : \E e \in DOMAIN prog.fences[s][l] :
                     s <= r /\ x = <<s, e>>
  <2>1. x \in Abstract!Posted(l, r) <=>
            \E s \in DOMAIN Loads : s <= r /\ \E e \in 1 .. Loads[s][l] : x = <<s, e>>
    BY <1>1
  <2> QED
    BY <2>1, LoadTypes
<1>3. ASSUME NEW x
      PROVE  x \in {y \in Registered(l) : y[1] <= r} <=>
                 \E s \in DOMAIN prog.fences : \E e \in DOMAIN prog.fences[s][l] :
                     s <= r /\ x = <<s, e>>
  BY RegisteredAre
<1> QED
  BY <1>2, <1>3
\* Elements of which both ends have come to the fence.
LEMMA ReadyAre ==
    ASSUME TypeInv, NEW l \in Link
    PROVE  Abstract!Ready(l) = {x \in Registered(l) : x[1] <= round[l[1]] /\ x[1] <= round[l[2]]}
<1>1. Len(prog.fences) \in Nat /\ l[1] \in Proc /\ l[2] \in Proc
  BY LoadTypes, LinkEnds
<1>2. round[l[1]] - 1 + 1 = round[l[1]] /\ round[l[2]] - 1 + 1 = round[l[2]]
  BY <1>1 DEF TypeInv
<1>3. Abstract!Ready(l) = Abstract!Posted(l, round[l[1]]) \intersect Abstract!Posted(l, round[l[2]])
  BY <1>1, <1>2 DEF Abstract!Ready
<1> QED
  BY <1>3, PostedAre

\* What the sender is through with has arrived, before a step and after it.
AllArrived == \A l \in Link : ArrivedThrough(l) = SentThrough(l)
\* An element that its sender is through with has arrived,
LEMMA ContentsArrived == Contents => AllArrived
<1> SUFFICES ASSUME Contents, NEW l \in Link, NEW x \in SentThrough(l) PROVE Arrived(l, x[1], x[2])
  BY DEF AllArrived, ArrivedThrough
<1>1. DoneInv(l)
  BY DEF Contents, ContentInv
<1>2. PICK r \in DOMAIN prog.fences : \E e \in DOMAIN prog.fences[r][l] : x = <<r, e>>
  BY RegisteredAre DEF SentThrough
<1>3. PICK e \in DOMAIN prog.fences[r][l] : x = <<r, e>>
  BY <1>2
<1>4. OutDone(l, r, e)
  BY <1>3 DEF SentThrough
<1> QED
  BY <1>1, <1>3, <1>4 DEF DoneInv
\* before and after a step.
LEMMA ContentsArrive == ASSUME Contents, Contents' PROVE AllArrived /\ AllArrived'
<1>1. Contents' => AllArrived'
  BY ContentsArrived, PTL
<1> QED
  BY <1>1, ContentsArrived

\* A step after which both ends of link l are through with the same elements.
LEMMA SameThrough ==
    ASSUME NEW l, prog' = prog,
           \A r \in DOMAIN prog.fences : \A e \in DOMAIN prog.fences[r][l] :
               OutDone(l, r, e)' <=> OutDone(l, r, e)
    PROVE  SentThrough(l)' = SentThrough(l)
<1>1. Registered(l)' = Registered(l)
  BY DEF Registered
<1>2. \A x \in Registered(l) : OutDone(l, x[1], x[2])' <=> OutDone(l, x[1], x[2])
  BY RegisteredAre
<1> QED
  BY <1>1, <1>2 DEF SentThrough
\* Ends that pass no element leave the receiver's set as it is.
LEMMA SameReceived ==
    ASSUME NEW l, prog' = prog,
           ~Self(l) => \A r \in DOMAIN prog.fences : \A e \in DOMAIN prog.fences[r][l] :
                           InDone(l, r, e)' <=> InDone(l, r, e)
    PROVE  ReceivedThrough(l)' = ReceivedThrough(l)
<1>1. Registered(l)' = Registered(l) /\ (Self(l)' <=> Self(l))
  BY DEF Registered, Self
<1>2. ~Self(l) => \A x \in Registered(l) : InDone(l, x[1], x[2])' <=> InDone(l, x[1], x[2])
  BY RegisteredAre
<1> QED
  BY <1>1, <1>2 DEF ReceivedThrough

\* A step that finishes nothing does not show.
Unseen ==
    /\ prog' = prog /\ round' = round
    /\ \A l \in Link : \A r \in DOMAIN prog.fences : \A e \in DOMAIN prog.fences[r][l] :
           /\ OutDone(l, r, e)' <=> OutDone(l, r, e)
           /\ ~Self(l) => (InDone(l, r, e)' <=> InDone(l, r, e))
\* A step that ends no element and passes no fence is no step of the exchange.
LEMMA Stutters == ASSUME Contents, Contents', Unseen PROVE UNCHANGED Abstract!vars
<1>1. prog' = prog /\ round' = round
  BY DEF Unseen
<1>2. ASSUME NEW l \in Link
      PROVE  /\ SentThrough(l)' = SentThrough(l) /\ ReceivedThrough(l)' = ReceivedThrough(l)
             /\ ArrivedThrough(l)' = ArrivedThrough(l)
  <2>1. SentThrough(l)' = SentThrough(l) /\ ReceivedThrough(l)' = ReceivedThrough(l)
    BY <1>1, SameThrough, SameReceived DEF Unseen
  <2>2. ArrivedThrough(l) = SentThrough(l) /\ ArrivedThrough(l)' = SentThrough(l)'
    BY ContentsArrive DEF AllArrived
  <2> QED
    BY <2>1, <2>2
<1> QED
  BY <1>1, <1>2 DEF Abstract!vars
\* So it is when no machine goes on to another element and nobody begins to drain.
LEMMA StaysUnseen ==
    ASSUME UNCHANGED <<prog, round, pc>>, \A l \in Link : out'[l].cur = out[l].cur,
           \A l \in Link : ~Self(l) => in'[l].cur = in[l].cur
    PROVE  Unseen
  BY DEF Unseen, OutDone, InDone

\* The next element that both ends have come to and the sender is not through with.
LEMMA NextToSend ==
    ASSUME TypeInv, NEW l \in Link, pc[l[1]] = "fence", round[l[1]] = round[l[2]],
           NEW x, x = <<round[l[1]], out[l].cur>>, out[l].cur \in Nat, x \in Registered(l)
    PROVE  x \in Abstract!Ready(l) /\ Abstract!IsFirst(x, Abstract!Ready(l) \ SentThrough(l))
<1>1. round[l[1]] \in Nat /\ Len(prog.fences) \in Nat
  <2>1. Len(prog.fences) \in Nat /\ l[1] \in Proc
    BY LoadTypes, LinkEnds
  <2> QED
    BY <2>1 DEF TypeInv
<1>2. PICK r0 \in Nat, e0 \in Nat : r0 = round[l[1]] /\ e0 = out[l].cur /\ x = <<r0, e0>>
  BY <1>1
<1>3. x \in Abstract!Ready(l)
  BY <1>2, ReadyAre
<1>4. \A r, e : OutDone(l, r, e) <=> r < r0 \/ (r = r0 /\ e < e0)
  BY <1>2 DEF OutDone
<1>5. x \notin SentThrough(l)
  BY <1>2, <1>4 DEF SentThrough
<1>6. ASSUME NEW y \in Abstract!Ready(l) \ SentThrough(l), y # x PROVE Abstract!Earlier(x, y)
  <2>1. y \in Registered(l) /\ y[1] <= r0
    BY <1>2, <1>6, ReadyAre
  <2>2. PICK r \in DOMAIN prog.fences : \E e \in DOMAIN prog.fences[r][l] : y = <<r, e>>
    BY <2>1, RegisteredAre
  <2>3. PICK e \in DOMAIN prog.fences[r][l] : y = <<r, e>>
    BY <2>2
  <2>4. r \in Nat /\ e \in Nat
    BY ElementTypes
  <2>5. r <= r0 /\ ~(r < r0 \/ (r = r0 /\ e < e0))
    BY <1>4, <1>6, <2>1, <2>3 DEF SentThrough
  <2>6. r = r0 /\ e0 < e
    BY <1>2, <1>6, <2>3, <2>4, <2>5
  <2> QED
    BY <1>2, <2>3, <2>6 DEF Abstract!Earlier
<1> QED
  BY <1>3, <1>5, <1>6 DEF Abstract!IsFirst

\* A call with which the sender goes on to its next element.
Sent(l) ==
    /\ UNCHANGED <<prog, pc, round, in>> /\ pc[l[1]] = "fence" /\ Busy(out[l])
    /\ round[l[1]] = round[l[2]]
    /\ out'[l].cur = out[l].cur + 1 /\ \A m \in Link \ {l} : out'[m] = out[m]
\* When the sender passes an element, that is the abstract Transfer.
LEMMA SentTransfers ==
    ASSUME IInv, Contents, Contents', NEW l \in Link, Sent(l)
    PROVE  Abstract!Transfer(l)
<1>1. TypeInv /\ PlaceInv
  BY DEF IInv
<1>2. /\ UNCHANGED <<prog, pc, round, in>> /\ pc[l[1]] = "fence" /\ Busy(out[l])
      /\ round[l[1]] = round[l[2]]
      /\ out'[l].cur = out[l].cur + 1 /\ \A m \in Link \ {l} : out'[m] = out[m]
  BY DEF Sent
<1>3. /\ round[l[1]] \in DOMAIN prog.fences /\ out[l].cur \in DOMAIN prog.fences[round[l[1]]][l]
  BY <1>1, <1>2, QueueTypes, AtElement
<1>4. PICK r0 \in DOMAIN prog.fences : r0 = round[l[1]]
  BY <1>3
<1>5. PICK e0 \in DOMAIN prog.fences[r0][l] : e0 = out[l].cur
  BY <1>3, <1>4
<1>6. r0 \in Nat /\ e0 \in Nat
  BY <1>1, ElementTypes
<1>7. PICK x : x = <<r0, e0>>
  OBVIOUS
<1>8. x \in Registered(l)
  BY <1>4, <1>5, <1>7, RegisteredAre
<1>9. x \in Abstract!Ready(l) /\ Abstract!IsFirst(x, Abstract!Ready(l) \ SentThrough(l))
  BY <1>1, <1>2, <1>4, <1>5, <1>6, <1>7, <1>8, NextToSend
<1>10. \A m \in Link \ {l} : SentThrough(m)' = SentThrough(m)
  BY <1>2, SameThrough DEF OutDone
<1>11. \A m \in Link : ReceivedThrough(m)' = ReceivedThrough(m)
  BY <1>2, SameReceived DEF InDone
<1>12. SentThrough(l)' = SentThrough(l) \union {x}
  <2>1. Registered(l)' = Registered(l)
    BY <1>2 DEF Registered
  <2>2. ASSUME NEW y \in Registered(l)
        PROVE  OutDone(l, y[1], y[2])' <=> OutDone(l, y[1], y[2]) \/ y = x
    <3>1. PICK r \in DOMAIN prog.fences : \E e \in DOMAIN prog.fences[r][l] : y = <<r, e>>
      BY RegisteredAre
    <3>2. PICK e \in DOMAIN prog.fences[r][l] : y = <<r, e>>
      BY <3>1
    <3>3. r \in Nat /\ e \in Nat
      BY <1>1, ElementTypes
    <3>4. e < e0 + 1 <=> e < e0 \/ e = e0
      BY <1>6, <3>3
    <3>5. OutDone(l, r, e)' <=> r < r0 \/ (r = r0 /\ e < e0 + 1)
      BY <1>2, <1>4, <1>5 DEF OutDone
    <3>6. OutDone(l, r, e) <=> r < r0 \/ (r = r0 /\ e < e0)
      BY <1>2, <1>4, <1>5 DEF OutDone
    <3> QED
      BY <1>7, <3>2, <3>4, <3>5, <3>6
  <2> QED
    BY <1>8, <2>1, <2>2 DEF SentThrough
<1>13. PICK S : S = [m \in Link |-> SentThrough(m)]
  OBVIOUS
<1>14. [m \in Link |-> SentThrough(m)]' = [S EXCEPT ![l] = @ \union {x}]
  BY <1>10, <1>12, <1>13
<1>15. /\ S = [m \in Link |-> ArrivedThrough(m)]
       /\ [m \in Link |-> ArrivedThrough(m)]' = [m \in Link |-> SentThrough(m)]'
  BY <1>13, ContentsArrive DEF AllArrived
<1>16. S[l] = SentThrough(l)
  BY <1>13
<1>17. UNCHANGED [m \in Link |-> ReceivedThrough(m)]
  BY <1>11
<1> QED
  BY <1>2, <1>9, <1>13, <1>14, <1>15, <1>16, <1>17 DEF Abstract!Transfer

\* The receiver is through with what the sender was through with.
LEMMA FinishReceives ==
    ASSUME IInv, Contents, Contents', NEW l \in Link, ~Self(l), InFinish(l)
    PROVE  Abstract!Receive(l)
<1>1. TypeInv /\ PlaceInv /\ OrderInv(l)
  BY DEF IInv
<1>2. /\ InCall(l, 299) \/ InCall(l, 304)
      /\ UNCHANGED <<prog, pc, round, out, mem, dma>> /\ confirm[l] = 0
      /\ in' = [in EXCEPT ![l] = Finished(in[l])] /\ pc[l[2]] = "fence" /\ Busy(in[l])
  BY DEF InFinish, InCall
<1>3. Passed(l)
  BY <1>2, AllReceived
<1>4. in'[l].cur = in[l].cur + 1 /\ \A m \in Link \ {l} : in'[m] = in[m]
  <2>1. in \in [Link -> Queues] /\ in[l] \in Queues
    BY <1>1 DEF TypeInv
  <2>2. in'[l] = Finished(in[l]) /\ \A m \in Link \ {l} : in'[m] = in[m]
    BY <1>2, <2>1
  <2> QED
    BY <2>1, <2>2, FinishedQueue
<1>5. /\ round[l[2]] \in DOMAIN prog.fences /\ in[l].cur \in DOMAIN prog.fences[round[l[2]]][l]
  BY <1>1, <1>2, QueueTypes, AtElement
<1>6. PICK r0 \in DOMAIN prog.fences : r0 = round[l[2]]
  BY <1>5
<1>7. PICK e0 \in DOMAIN prog.fences[r0][l] : e0 = in[l].cur
  BY <1>5, <1>6
<1>8. r0 \in Nat /\ e0 \in Nat
  BY <1>1, ElementTypes
<1>9. PICK x : x = <<r0, e0>>
  OBVIOUS
<1>10. x \in Registered(l) /\ x \in SentThrough(l)
  <2>1. x \in Registered(l)
    BY <1>9, RegisteredAre
  <2> QED
    BY <1>3, <1>6, <1>7, <1>9, <2>1 DEF SentThrough, Passed
<1>11. \A r, e : InDone(l, r, e) <=> r < r0 \/ (r = r0 /\ e < e0)
  BY <1>2, <1>6, <1>7 DEF InDone
<1>12. \A y \in SentThrough(l) \ ReceivedThrough(l) : y = x
  <2> SUFFICES ASSUME NEW y \in SentThrough(l) \ ReceivedThrough(l) PROVE y = x
    OBVIOUS
  <2>1. y \in Registered(l) /\ OutDone(l, y[1], y[2]) /\ ~InDone(l, y[1], y[2])
    BY DEF SentThrough, ReceivedThrough
  <2>2. PICK r \in DOMAIN prog.fences : \E e \in DOMAIN prog.fences[r][l] : y = <<r, e>>
    BY <2>1, RegisteredAre
  <2>3. PICK e \in DOMAIN prog.fences[r][l] : y = <<r, e>>
    BY <2>2
  <2>4. OutDone(l, r, e) /\ ~InDone(l, r, e)
    BY <2>1, <2>3
  <2>5. r = round[l[2]] /\ e = in[l].cur
    BY <1>1, <2>4 DEF OrderInv
  <2> QED
    BY <1>6, <1>7, <1>9, <2>3, <2>5
<1>13. x \notin ReceivedThrough(l)
  BY <1>8, <1>9, <1>11 DEF ReceivedThrough
<1>14. Abstract!IsFirst(x, SentThrough(l) \ ReceivedThrough(l))
  BY <1>10, <1>12, <1>13 DEF Abstract!IsFirst
<1>15. ReceivedThrough(l)' = ReceivedThrough(l) \union {x}
  <2>1. Registered(l)' = Registered(l) /\ ~Self(l)'
    BY <1>2 DEF Registered, Self
  <2>2. ASSUME NEW y \in Registered(l)
        PROVE  InDone(l, y[1], y[2])' <=> InDone(l, y[1], y[2]) \/ y = x
    <3>1. PICK r \in DOMAIN prog.fences : \E e \in DOMAIN prog.fences[r][l] : y = <<r, e>>
      BY RegisteredAre
    <3>2. PICK e \in DOMAIN prog.fences[r][l] : y = <<r, e>>
      BY <3>1
    <3>3. r \in Nat /\ e \in Nat
      BY <1>1, ElementTypes
    <3>4. e < e0 + 1 <=> e < e0 \/ e = e0
      BY <1>8, <3>3
    <3>5. InDone(l, r, e)' <=> r < r0 \/ (r = r0 /\ e < e0 + 1)
      BY <1>2, <1>4, <1>6, <1>7 DEF InDone
    <3> QED
      BY <1>9, <1>11, <3>2, <3>4, <3>5
  <2> QED
    BY <1>10, <2>1, <2>2 DEF ReceivedThrough
<1>16. \A m \in Link \ {l} : ReceivedThrough(m)' = ReceivedThrough(m)
  BY <1>2, <1>4, SameReceived DEF InDone
<1>17. \A m \in Link : SentThrough(m)' = SentThrough(m)
  BY <1>2, SameThrough DEF OutDone
<1>18. PICK S, R : S = [m \in Link |-> SentThrough(m)] /\ R = [m \in Link |-> ReceivedThrough(m)]
  OBVIOUS
<1>19. [m \in Link |-> ReceivedThrough(m)]' = [R EXCEPT ![l] = @ \union {x}]
  BY <1>15, <1>16, <1>18
<1>20. S[l] = SentThrough(l) /\ R[l] = ReceivedThrough(l)
  BY <1>18
<1>21. UNCHANGED [m \in Link |-> SentThrough(m)] /\ UNCHANGED [m \in Link |-> ArrivedThrough(m)]
  BY <1>17, ContentsArrive DEF AllArrived
<1> QED
  BY <1>2, <1>10, <1>14, <1>18, <1>19, <1>20, <1>21 DEF Abstract!Receive, Self

\* A processor that leaves its fence is through with all that it registered.
LEMMA LeaveFencePasses ==
    ASSUME IInv, Contents, Contents', NEW p \in Proc, LeaveFence(p)
    PROVE  Abstract!Pass(p)
<1>1. TypeInv /\ PlaceInv /\ Len(prog.fences) \in Nat
  BY LoadTypes DEF IInv
<1>2. /\ prog' = prog /\ pc[p] = "drain" /\ round' = [round EXCEPT ![p] = @ + 1]
  BY DEF LeaveFence
<1>3. /\ round \in [Proc -> 1 .. Len(prog.fences) + 1] /\ round[p] \in Nat
      /\ round[p] - 1 < Len(prog.fences) /\ round[p] - 1 + 1 = round[p]
  <2>1. round \in [Proc -> 1 .. Len(prog.fences) + 1]
    BY <1>1 DEF TypeInv
  <2>2. round[p] # Len(prog.fences) + 1
    BY <1>1, <1>2 DEF PlaceInv
  <2> QED
    BY <1>1, <2>1, <2>2
<1>4. ASSUME NEW l \in Link
      PROVE  /\ l[1] = p => SentThrough(l) = Abstract!Posted(l, round[p])
             /\ l[2] = p /\ ~Self(l) => ReceivedThrough(l) = Abstract!Posted(l, round[p])
  <2>1. \A x \in Registered(l) : x[1] \in Nat
    BY <1>1, RegisteredAre, ElementTypes
  <2>2. /\ \A r \in Nat : \A e : l[1] = p => (OutDone(l, r, e) <=> r <= round[p])
        /\ \A r \in Nat : \A e : l[2] = p => (InDone(l, r, e) <=> r <= round[p])
    BY <1>2, <1>3 DEF OutDone, InDone
  <2>3. Abstract!Posted(l, round[p]) = {x \in Registered(l) : x[1] <= round[p]}
    BY <1>1, PostedAre
  <2> QED
    BY <2>1, <2>2, <2>3 DEF SentThrough, ReceivedThrough
<1>5. ASSUME NEW q \in Proc
      PROVE  /\ SentThrough(<<p, q>>) = Abstract!Posted(<<p, q>>, round[p])
             /\ q # p => ReceivedThrough(<<q, p>>) = Abstract!Posted(<<q, p>>, round[p])
  <2>1. <<p, q>> \in Link /\ <<q, p>> \in Link
    BY DEF Link
  <2> QED
    BY <1>4, <2>1 DEF Self
<1>6. /\ \A m \in Link : SentThrough(m)' = SentThrough(m)
      /\ \A m \in Link : ReceivedThrough(m)' = ReceivedThrough(m)
  BY <1>2, LeaveFenceFrame, SameThrough, SameReceived DEF ProcFrameStep
<1>7. /\ UNCHANGED [m \in Link |-> SentThrough(m)] /\ UNCHANGED [m \in Link |-> ReceivedThrough(m)]
      /\ UNCHANGED [m \in Link |-> ArrivedThrough(m)]
  BY <1>6, ContentsArrive DEF AllArrived
<1>8. PICK P : P = [q \in Proc |-> round[q] - 1]
  OBVIOUS
<1>9. [q \in Proc |-> round[q] - 1]' = [P EXCEPT ![p] = @ + 1]
  <2>1. \A q \in Proc : round'[q] = IF q = p THEN round[q] + 1 ELSE round[q]
    BY <1>2, <1>3
  <2>2. \A q \in Proc : round'[q] - 1 = IF q = p THEN P[q] + 1 ELSE P[q]
    BY <1>3, <1>8, <2>1
  <2>3. PICK R : R = [q \in Proc |-> round'[q] - 1]
    OBVIOUS
  <2>4. R = [P EXCEPT ![p] = @ + 1]
    BY <1>8, <2>2, <2>3
  <2> QED
    BY <2>3, <2>4
<1>10. /\ [m \in Link |-> SentThrough(m)] = [m \in Abstract!Link |-> SentThrough(m)]
       /\ \A q \in Proc : /\ [m \in Link |-> SentThrough(m)][<<p, q>>] = SentThrough(<<p, q>>)
                          /\ [m \in Link |-> ReceivedThrough(m)][<<q, p>>] = ReceivedThrough(<<q, p>>)
  BY DEF Link, Abstract!Link
<1>11. P[p] < Len(Loads) /\ P[p] + 1 = round[p]
  BY <1>1, <1>3, <1>8, LoadTypes
<1>12. UNCHANGED Loads
  BY <1>2 DEF Loads
<1> QED
  BY <1>5, <1>7, <1>8, <1>9, <1>10, <1>11, <1>12 DEF Abstract!Pass, Loads

\* Nothing is through at the start.
LEMMA InitImplements == ASSUME Init PROVE Abstract!Init
<1>1. IInv /\ TypeInv
  BY InitInv DEF IInv
<1>2. /\ out = [l \in Link |-> EmptyQueue]
      /\ pc = [p \in Proc |-> IF p \in prog.procs THEN "register" ELSE "done"]
      /\ round = [p \in Proc |-> IF p \in prog.procs THEN 1 ELSE Len(prog.fences) + 1]
      /\ prog \in Programs
  BY DEF Init
<1>3. ASSUME NEW l \in Link
      PROVE  SentThrough(l) = {} /\ ReceivedThrough(l) = {} /\ ArrivedThrough(l) = {}
  <2>1. \A x \in Registered(l) : ~OutDone(l, x[1], x[2])
    BY InitUndone, RegisteredAre
  <2>2. ~Self(l) => \A x \in Registered(l) : ~InDone(l, x[1], x[2])
    <3> SUFFICES ASSUME ~Self(l), NEW x \in Registered(l) PROVE ~InDone(l, x[1], x[2])
      OBVIOUS
    <3>1. PICK r \in DOMAIN prog.fences : \E e \in DOMAIN prog.fences[r][l] : x = <<r, e>>
      BY RegisteredAre
    <3>2. PICK e \in DOMAIN prog.fences[r][l] : x = <<r, e>>
      BY <3>1
    <3>3. OrderInv(l)
      BY <1>1 DEF IInv
    <3> QED
      BY <3>2, <3>3, InitUndone DEF OrderInv
  <2> QED
    BY <2>1, <2>2 DEF SentThrough, ReceivedThrough, ArrivedThrough
<1>4. \A p \in Proc : round[p] - 1 = IF p \in prog.procs THEN 0 ELSE Len(prog.fences)
  BY <1>1, <1>2, LoadTypes
<1>5. /\ [p \in Proc |-> round[p] - 1] \in [Proc -> {0, Len(Loads)}]
  BY <1>1, <1>4, LoadTypes
<1>6. ASSUME NEW p \in Proc, round[p] - 1 # 0, NEW r \in DOMAIN Loads, NEW q \in Proc
      PROVE  Loads[r][<<p, q>>] = 0 /\ Loads[r][<<q, p>>] = 0
  <2>1. p \notin prog.procs /\ r \in DOMAIN prog.fences
    BY <1>1, <1>4, <1>6, LoadTypes
  <2>2. <<p, q>> \in Link /\ <<q, p>> \in Link
    BY DEF Link
  <2>3. prog.fences[r][<<p, q>>] = <<>> /\ prog.fences[r][<<q, p>>] = <<>>
    BY <1>2, <2>1, <2>2, ProgramAssumption
  <2>4. Len(<<>>) = 0
    OBVIOUS
  <2> QED
    BY <2>1, <2>2, <2>3, <2>4 DEF Loads
<1>7. Loads \in Seq([Link -> Nat])
  BY <1>1, LoadTypes
<1>8. Abstract!Link = Link
  BY DEF Link, Abstract!Link
<1> QED
  BY <1>3, <1>5, <1>6, <1>7, <1>8 DEF Abstract!Init, Loads

\* Every step is one of Exchange or does not show.
LEMMA CallImplements ==
    ASSUME IInv, Contents, Contents', NEW l \in Link, OutStep(l) \/ InStep(l)
    PROVE  Abstract!Transfer(l) \/ (~Self(l) /\ Abstract!Receive(l)) \/ UNCHANGED Abstract!vars
<1>1. TypeInv /\ PlaceInv
  BY DEF IInv
<1>2. out \in [Link -> Queues] /\ in \in [Link -> Queues] /\ out[l] \in Queues /\ in[l] \in Queues
  BY <1>1 DEF TypeInv
<1>3. UNCHANGED <<prog, pc, round>>
  BY DEF OutStep, InStep, SelfPack, SelfUnpack, PutPacked, PutBuffer, PutDirect, PutZeroCopy, HostPack,
         OutFinish, SelfSkip, PostRequest, UnpackPut, PutArrived, GetAndUnpack, GetToUser, InFinish,
         OutCall, InCall
<1>4. CASE OutFinish(l)
  <2>1. ~Self(l)
    BY <1>4, SelfCalls DEF OutFinish
  <2>2. round[l[1]] = round[l[2]]
    BY <1>4, <2>1, AllThrough DEF OutFinish
  <2>3. out'[l] = Finished(out[l]) /\ \A m \in Link \ {l} : out'[m] = out[m]
    BY <1>2, <1>4 DEF OutFinish
  <2>4. Sent(l)
    BY <1>2, <1>3, <1>4, <2>2, <2>3, FinishedQueue DEF Sent, OutFinish, OutCall
  <2> QED
    BY <2>4, SentTransfers
<1>5. CASE SelfUnpack(l)
  <2>1. Self(l)
    BY <1>5, SelfCalls DEF SelfUnpack
  <2>2. PICK w : w = out[l].unpacked + 1
    OBVIOUS
  <2>3. /\ out'[l] = IF w = OutElem(l).frags THEN Finished(out[l])
                     ELSE [out[l] EXCEPT !.st = 100, !.unpacked = w]
        /\ \A m \in Link \ {l} : out'[m] = out[m]
        /\ in' = in /\ pc[l[1]] = "fence" /\ Busy(out[l])
    BY <1>2, <1>5, <2>2 DEF SelfUnpack, OutCall
  <2>4. CASE w = OutElem(l).frags
    <3>1. out'[l].cur = out[l].cur + 1
      BY <1>2, <2>3, <2>4, FinishedQueue
    <3>2. Sent(l)
      BY <1>3, <2>1, <2>3, <3>1 DEF Sent, Self
    <3> QED
      BY <3>2, SentTransfers
  <2>5. CASE w # OutElem(l).frags
    <3>1. out'[l].cur = out[l].cur
      BY <1>2, <2>3, <2>5 DEF Queues
    <3> QED
      BY <1>3, <2>3, <3>1, StaysUnseen, Stutters
  <2> QED
    BY <2>4, <2>5
<1>6. CASE InFinish(l)
  <2>1. ~Self(l)
    BY <1>6, SelfCalls DEF InFinish
  <2> QED
    BY <1>6, <2>1, FinishReceives
<1>7. CASE SelfSkip(l)
  <2>1. Self(l)
    BY <1>7, SelfCalls DEF SelfSkip
  <2>2. out' = out /\ \A m \in Link \ {l} : in'[m] = in[m]
    BY <1>2, <1>7 DEF SelfSkip, InCall
  <2> QED
    BY <1>3, <2>1, <2>2, StaysUnseen, Stutters
<1>8. CASE OutStep(l) /\ ~OutFinish(l) /\ ~SelfUnpack(l)
  <2>1. in' = in
    BY <1>8 DEF OutStep, SelfPack, PutPacked, PutBuffer, PutDirect, PutZeroCopy, HostPack, OutCall
  <2> DEFINE Same == out'[l].cur = out[l].cur /\ \A m \in Link \ {l} : out'[m] = out[m]
  <2>2. ASSUME SelfPack(l) PROVE Same
    BY <1>2, <2>2 DEF SelfPack, Queues
  <2>3. ASSUME PutPacked(l) PROVE Same
    BY <1>2, <2>3 DEF PutPacked, Queues
  <2>4. ASSUME PutBuffer(l) PROVE Same
    BY <1>2, <2>4 DEF PutBuffer, Queues
  <2>5. ASSUME PutDirect(l) PROVE Same
    BY <1>2, <2>5 DEF PutDirect, Queues
  <2>6. ASSUME PutZeroCopy(l) PROVE Same
    BY <1>2, <2>6 DEF PutZeroCopy, Queues
  <2>7. ASSUME HostPack(l) PROVE Same
    BY <1>2, <2>7 DEF HostPack, Queues
  <2>8. Same
    BY <1>8, <2>2, <2>3, <2>4, <2>5, <2>6, <2>7 DEF OutStep
  <2> QED
    BY <1>3, <2>1, <2>8, StaysUnseen, Stutters
<1>9. CASE InStep(l) /\ ~InFinish(l) /\ ~SelfSkip(l)
  <2>1. out' = out
    BY <1>9 DEF InStep, PostRequest, UnpackPut, PutArrived, GetAndUnpack, GetToUser, InCall
  <2> DEFINE Same == in'[l].cur = in[l].cur /\ \A m \in Link \ {l} : in'[m] = in[m]
  <2>2. ASSUME PostRequest(l) PROVE Same
    BY <1>2, <2>2 DEF PostRequest, Queues
  <2>3. ASSUME UnpackPut(l) PROVE Same
    BY <1>2, <2>3 DEF UnpackPut, UnpackAndConfirm, Queues
  <2>4. ASSUME PutArrived(l) PROVE Same
    BY <1>2, <2>4 DEF PutArrived, Queues
  <2>5. ASSUME GetAndUnpack(l) PROVE Same
    BY <1>2, <2>5 DEF GetAndUnpack, UnpackAndConfirm, Queues
  <2>6. ASSUME GetToUser(l) PROVE Same
    BY <1>2, <2>6 DEF GetToUser, Queues
  <2>7. Same
    BY <1>9, <2>2, <2>3, <2>4, <2>5, <2>6 DEF InStep
  <2> QED
    BY <1>3, <2>1, <2>7, StaysUnseen, Stutters
<1> QED
  BY <1>4, <1>5, <1>6, <1>7, <1>8, <1>9

\* Every step is a step of the exchange or none.
LEMMA NextImplements ==
    ASSUME IInv, Contents, Contents', [Next]_vars
    PROVE  [Abstract!Next]_(Abstract!vars)
<1>1. CASE UNCHANGED vars
  <2>1. Unseen
    BY <1>1, StaysUnseen DEF vars
  <2> QED
    BY <2>1, Stutters
<1>2. ASSUME NEW p \in Proc, ProcFrameStep(p), round' = round PROVE UNCHANGED Abstract!vars
  <2>1. Unseen
    BY <1>2 DEF ProcFrameStep, Unseen
  <2> QED
    BY <2>1, Stutters
<1>3. ASSUME NEW l \in Link, EmbSend(l) \/ EmbRecv(l) PROVE UNCHANGED Abstract!vars
  <2>1. round' = round
    BY <1>3 DEF EmbSend, EmbRecv
  <2>2. \E p \in Proc : ProcFrameStep(p)
    BY <1>3, LinkEnds, EmbSendFrame, EmbRecvFrame
  <2> QED
    BY <1>2, <2>1, <2>2
<1>4. ASSUME NEW l \in Link, OutStep(l) \/ InStep(l) PROVE Abstract!Next \/ UNCHANGED Abstract!vars
  <2>1. Abstract!Transfer(l) \/ Abstract!Receive(l) \/ UNCHANGED Abstract!vars
    BY <1>4, CallImplements
  <2>2. l \in Abstract!Link
    BY DEF Link, Abstract!Link
  <2> QED
    BY <2>1, <2>2 DEF Abstract!Next
<1>5. ASSUME NEW p \in Proc, EnterFence(p) \/ LeaveLoop(p) PROVE UNCHANGED Abstract!vars
  <2>1. round' = round /\ ProcFrameStep(p)
    BY <1>5, EnterFenceFrame, LeaveLoopFrame DEF EnterFence, LeaveLoop
  <2> QED
    BY <1>2, <2>1
<1>6. ASSUME NEW p \in Proc, ProcStep(p) PROVE Abstract!Next \/ UNCHANGED Abstract!vars
  <2>1. CASE LeaveFence(p)
    BY <2>1, LeaveFencePasses DEF Abstract!Next
  <2>2. CASE EnterFence(p) \/ LeaveLoop(p)
    BY <1>5, <2>2
  <2>3. ASSUME NEW q \in Proc,
               EmbSend(<<p, q>>) \/ EmbRecv(<<q, p>>) \/ OutStep(<<p, q>>) \/ InStep(<<q, p>>)
        PROVE  Abstract!Next \/ UNCHANGED Abstract!vars
    <3>1. PICK l \in Link, m \in Link : l = <<p, q>> /\ m = <<q, p>>
      BY DEF Link
    <3>2. EmbSend(l) \/ EmbRecv(m) \/ OutStep(l) \/ InStep(m)
      BY <2>3, <3>1
    <3> QED
      BY <1>3, <1>4, <3>2
  <2> QED
    BY <1>6, <2>1, <2>2, <2>3 DEF ProcStep
<1>7. ASSUME NEW p \in Proc, DmaStep(p) PROVE UNCHANGED Abstract!vars
  <2>1. UNCHANGED <<prog, pc, round>>
    BY <1>7 DEF DmaStep, DmaCopy, DmaWord, DmaComplete
  <2>2. \A l \in Link : out'[l].cur = out[l].cur /\ in'[l].cur = in[l].cur
    <3>1. out \in [Link -> Queues] /\ in \in [Link -> Queues]
      BY DEF IInv, TypeInv
    <3>2. \/ out' = out
          \/ \E l, n : out' = [out EXCEPT ![l].completed = n]
      BY <1>7 DEF DmaStep, DmaCopy, DmaWord, DmaComplete
    <3>3. \/ in' = in
          \/ \E l, n : in' = [in EXCEPT ![l].completed = n]
      BY <1>7 DEF DmaStep, DmaCopy, DmaWord, DmaComplete
    <3> QED
      BY <3>1, <3>2, <3>3 DEF Queues
  <2> QED
    BY <2>1, <2>2, StaysUnseen, Stutters
<1> QED
  BY <1>1, <1>6, <1>7 DEF Next, Terminated

\* The state machines of emb_process_outgoing and emb_process_incoming carry out
\* the rendezvous of Exchange, each element once, in order, and whole: a step of
\* theirs is one of Exchange's or does not show in it.
THEOREM TransfersImplemented == Spec => AbstractSpec
<1>1. Init => Abstract!Init
  BY InitImplements
<1>2. IInv /\ Contents /\ Contents' /\ [Next]_vars => [Abstract!Next]_(Abstract!vars)
  BY NextImplements
<1> QED
  BY <1>1, <1>2, Inductive, ContentsAlways, PTL DEF Spec, AbstractSpec, Abstract!Spec
=============================================================================
