--------------------------- MODULE TaskPar_proofs ---------------------------
(***************************************************************************)
(* Proofs about TaskPar, for every number of processors and all programs   *)
(* whose processors match their calls.                                     *)
(*                                                                         *)
(* Between two processors there is one stream of messages.  What the       *)
(* calls of the sender put into it comes first and is counted; what its    *)
(* tasks put into it comes in pairs of a size and a message.  The last     *)
(* part is about the barrier, whose bytes are among what is counted.       *)
(***************************************************************************)
EXTENDS TaskPar, FiniteSetTheorems, SequenceTheorems, WellFoundedInduction, TLAPS

-----------------------------------------------------------------------------
(* Streams, as sequences. *)

Plain == [what : {"data", "byte"}]
Tagged == [what : {"size", "message"}, src : Nat, dest : Nat, call : Nat]
Msg == Plain \union Tagged

\* The first k messages of q are plain, the others in A; these take turns,
\* beginning with what is due, and ending with what was sent last.
Good(q, k, A, due, last) ==
    /\ k \in 0 .. Len(q)
    /\ \A i \in 1 .. k : q[i] \in Plain
    /\ \A i \in k + 1 .. Len(q) : q[i] \in A
    /\ \A i \in k + 1 .. Len(q) - 1 : q[i].what # q[i + 1].what
    /\ IF Len(q) = k THEN due # last ELSE q[k + 1].what = due /\ q[Len(q)].what = last
TwoKinds(A) == A \subseteq Msg /\ \A m \in A : m.what \in {"size", "message"}

\* Facts about the first element and the rest.
LEMMA HeadTail ==
    ASSUME NEW S, NEW q \in Seq(S), q # <<>>
    PROVE  /\ Head(q) \in S /\ Tail(q) \in Seq(S) /\ Head(q) = q[1]
           /\ Len(q) \in Nat /\ Len(q) >= 1 /\ Len(Tail(q)) = Len(q) - 1
           /\ \A i \in 1 .. Len(q) - 1 : Tail(q)[i] = q[i + 1]
  OBVIOUS

\* and about an element more.
LEMMA Appended ==
    ASSUME NEW S, NEW q \in Seq(S), NEW m \in S
    PROVE  /\ Append(q, m) \in Seq(S) /\ Len(q) \in Nat /\ Len(Append(q, m)) = Len(q) + 1
           /\ \A i \in 1 .. Len(q) : Append(q, m)[i] = q[i]
           /\ Append(q, m)[Len(q) + 1] = m
  OBVIOUS

\* A plain message goes in while there are only plain ones.
LEMMA AddPlain ==
    ASSUME NEW A, TwoKinds(A), NEW q \in Seq(Msg), NEW k, NEW due, NEW last, NEW m \in Plain,
           Good(q, k, A, due, last), Len(q) = k
    PROVE  Good(Append(q, m), k + 1, A, due, last) /\ Len(Append(q, m)) = k + 1
<1>1. m \in Msg
  BY DEF Msg
<1>2. PICK r : r = Append(q, m)
  OBVIOUS
<1>3. /\ Len(q) \in Nat /\ Len(r) = Len(q) + 1
      /\ \A i \in 1 .. Len(q) : r[i] = q[i]
      /\ r[Len(q) + 1] = m
  BY <1>1, <1>2, Appended
<1> QED
  BY <1>2, <1>3 DEF Good

\* A plain message is taken.
LEMMA TakePlain ==
    ASSUME NEW A, TwoKinds(A), NEW q \in Seq(Msg), NEW k, NEW due, NEW last,
           Good(q, k, A, due, last), k > 0
    PROVE  q # <<>> /\ Head(q) \in Plain /\ Good(Tail(q), k - 1, A, due, last)
<1>1. q # <<>> /\ k \in Nat
  BY DEF Good
<1>2. PICK r : r = Tail(q)
  OBVIOUS
<1>3. /\ Head(q) = q[1] /\ Len(q) \in Nat /\ Len(q) >= 1 /\ Len(r) = Len(q) - 1
      /\ \A i \in 1 .. Len(q) - 1 : r[i] = q[i + 1]
  BY <1>1, <1>2, HeadTail
<1>4. Head(q) \in Plain
  BY <1>1, <1>3 DEF Good
<1>5. k - 1 \in 0 .. Len(r) /\ \A i \in 1 .. k - 1 : r[i] \in Plain
  <2>1. \A i \in 1 .. k - 1 : i + 1 \in 1 .. k /\ r[i] = q[i + 1]
    BY <1>1, <1>3 DEF Good
  <2> QED
    BY <1>1, <1>3, <2>1 DEF Good
<1>6. /\ \A i \in k .. Len(r) : r[i] \in A
      /\ \A i \in k .. Len(r) - 1 : r[i].what # r[i + 1].what
  <2>1. \A i \in k .. Len(r) : i + 1 \in k + 1 .. Len(q) /\ r[i] = q[i + 1]
    BY <1>1, <1>3 DEF Good
  <2>2. \A i \in k .. Len(r) - 1 : i + 1 \in k + 1 .. Len(q) - 1 /\ r[i] = q[i + 1] /\ r[i + 1] = q[i + 1 + 1]
    BY <1>1, <1>3 DEF Good
  <2> QED
    BY <2>1, <2>2 DEF Good
<1>7. IF Len(r) = k - 1 THEN due # last ELSE r[k].what = due /\ r[Len(r)].what = last
  <2>1. Len(r) # k - 1 => r[k] = q[k + 1] /\ r[Len(r)] = q[Len(q)]
    BY <1>1, <1>3 DEF Good
  <2>2. Len(r) = k - 1 <=> Len(q) = k
    BY <1>1, <1>3
  <2> QED
    BY <2>1, <2>2 DEF Good
<1>8. k - 1 + 1 = k
  BY <1>1
<1> QED
  BY <1>1, <1>2, <1>4, <1>5, <1>6, <1>7, <1>8 DEF Good

\* A message of the other kind than the last one goes in.
LEMMA AddTagged ==
    ASSUME NEW A, TwoKinds(A), NEW q \in Seq(Msg), NEW k, NEW due \in {"size", "message"},
           NEW last \in {"size", "message"}, NEW m \in A, m.what # last,
           Good(q, k, A, due, last)
    PROVE  Good(Append(q, m), k, A, due, m.what)
<1>1. m \in Msg /\ m.what \in {"size", "message"}
  BY DEF TwoKinds
<1>2. PICK r : r = Append(q, m)
  OBVIOUS
<1>3. /\ Len(q) \in Nat /\ Len(r) = Len(q) + 1
      /\ \A i \in 1 .. Len(q) : r[i] = q[i]
      /\ r[Len(q) + 1] = m
  BY <1>1, <1>2, Appended
<1>4. k \in 0 .. Len(r) /\ \A i \in 1 .. k : r[i] \in Plain
  BY <1>3 DEF Good
<1>5. \A i \in k + 1 .. Len(r) : r[i] \in A
  <2>1. \A i \in k + 1 .. Len(r) : i \in k + 1 .. Len(q) \/ i = Len(q) + 1
    BY <1>3
  <2> QED
    BY <1>3, <2>1 DEF Good
<1>6. ASSUME NEW i \in k + 1 .. Len(r) - 1
      PROVE  r[i].what # r[i + 1].what
  <2>1. CASE i = Len(q)
    <3>1. Len(q) # k /\ r[i] = q[Len(q)] /\ r[i + 1] = m
      BY <1>3, <2>1 DEF Good
    <3> QED
      BY <3>1 DEF Good
  <2>2. CASE i # Len(q)
    <3>1. i \in k + 1 .. Len(q) - 1 /\ i \in 1 .. Len(q) /\ i + 1 \in 1 .. Len(q)
      BY <1>3, <2>2 DEF Good
    <3> QED
      BY <1>3, <3>1 DEF Good
  <2> QED
    BY <2>1, <2>2
<1>7. Len(r) # k /\ r[k + 1].what = due /\ r[Len(r)].what = m.what
  <2>1. CASE Len(q) = k
    BY <1>1, <1>3, <2>1 DEF Good
  <2>2. CASE Len(q) # k
    BY <1>3, <2>2 DEF Good
  <2> QED
    BY <2>1, <2>2
<1> QED
  BY <1>2, <1>4, <1>5, <1>6, <1>7 DEF Good

\* A message that is due is taken; the other kind is due then.
LEMMA TakeTagged ==
    ASSUME NEW A, TwoKinds(A), NEW q \in Seq(Msg), NEW due \in {"size", "message"},
           NEW last \in {"size", "message"}, NEW other \in {"size", "message"}, other # due,
           Good(q, 0, A, due, last), q # <<>>
    PROVE  Head(q) \in A /\ Head(q).what = due /\ Good(Tail(q), 0, A, other, last)
<1>2. PICK r : r = Tail(q)
  OBVIOUS
<1>3. /\ Head(q) = q[1] /\ Len(q) \in Nat /\ Len(q) >= 1 /\ Len(r) = Len(q) - 1
      /\ \A i \in 1 .. Len(q) - 1 : r[i] = q[i + 1]
  BY <1>2, HeadTail
<1>4. Head(q) \in A /\ Head(q).what = due
  BY <1>3 DEF Good
<1>5. /\ \A i \in 0 + 1 .. Len(r) : r[i] \in A
      /\ \A i \in 0 + 1 .. Len(r) - 1 : r[i].what # r[i + 1].what
  <2>1. \A i \in 0 + 1 .. Len(r) : i + 1 \in 0 + 1 .. Len(q) /\ r[i] = q[i + 1]
    BY <1>3
  <2>2. \A i \in 0 + 1 .. Len(r) - 1 : i + 1 \in 0 + 1 .. Len(q) - 1 /\ r[i] = q[i + 1] /\ r[i + 1] = q[i + 1 + 1]
    BY <1>3
  <2> QED
    BY <2>1, <2>2 DEF Good
<1>6. IF Len(r) = 0 THEN other # last ELSE r[0 + 1].what = other /\ r[Len(r)].what = last
  <2>1. CASE Len(r) = 0
    <3>1. Len(q) = 1 /\ 0 + 1 = 1
      BY <1>3, <2>1
    <3>2. q[1].what = due /\ q[1].what = last
      BY <3>1 DEF Good
    <3> QED
      BY <2>1, <3>2
  <2>2. CASE Len(r) # 0
    <3>1. r[1] = q[2] /\ r[Len(r)] = q[Len(q)] /\ Len(q) >= 2
      <4>1. 1 \in 1 .. Len(q) - 1 /\ Len(r) \in 1 .. Len(q) - 1 /\ Len(r) + 1 = Len(q)
        BY <1>3, <2>2
      <4> QED
        BY <1>3, <4>1
    <3>2. 2 \in 0 + 1 .. Len(q) /\ 1 \in 0 + 1 .. Len(q) - 1 /\ 1 + 1 = 2 /\ 0 + 1 = 1
      BY <1>3, <3>1
    <3>3. q[2] \in A /\ q[1].what # q[2].what
      BY <3>2 DEF Good
    <3>4. q[2].what \in {"size", "message"} /\ q[1].what = due
      BY <1>3, <1>4, <3>3 DEF TwoKinds
    <3>5. r[0 + 1].what = other
      BY <3>1, <3>2, <3>3, <3>4
    <3>6. r[Len(r)].what = last
      BY <1>3, <3>1 DEF Good
    <3> QED
      BY <2>2, <3>5, <3>6
  <2> QED
    BY <2>1, <2>2
<1> QED
  BY <1>2, <1>3, <1>4, <1>5, <1>6 DEF Good

-----------------------------------------------------------------------------
(* The messages from task s to task d in some sequences. *)

\* The calls that sent those in q.
Calls(q, d, s) == {q[i].call : i \in {j \in DOMAIN q : Own(q[j], d, s)}}
InOrder(q, d, s) ==
    \A i, j \in DOMAIN q : i < j /\ Own(q[i], d, s) /\ Own(q[j], d, s) => q[i].call < q[j].call
Below(S, T) == \A x \in S, y \in T : x < y

\* The calls of S sent those in h, in e and in c, in this order.
Chain(h, e, c, S, d, s) ==
    /\ Calls(h, d, s) \union Calls(e, d, s) \union Calls(c, d, s) = S
    /\ InOrder(h, d, s) /\ InOrder(e, d, s) /\ InOrder(c, d, s)
    /\ Below(Calls(h, d, s), Calls(e, d, s) \union Calls(c, d, s))
    /\ Below(Calls(e, d, s), Calls(c, d, s))

\* What steps do with a sequence.
Added(r, q, m) == r = Append(q, m)
Cut(r, q, i) == r = RemoveAt(q, i)

\* A sequence without its i-th element.
LEMMA Removed ==
    ASSUME NEW S, NEW q \in Seq(S), NEW i \in 1 .. Len(q)
    PROVE  /\ RemoveAt(q, i) \in Seq(S) /\ Len(q) \in Nat /\ Len(RemoveAt(q, i)) = Len(q) - 1
           /\ \A j \in 1 .. i - 1 : RemoveAt(q, i)[j] = q[j]
           /\ \A j \in i .. Len(q) - 1 : RemoveAt(q, i)[j] = q[j + 1]
<1> DEFINE a == SubSeq(q, 1, i - 1)
           b == SubSeq(q, i + 1, Len(q))
<1>1. Len(q) \in Nat
  OBVIOUS
<1>2. a \in Seq(S) /\ Len(a) = i - 1 /\ \A j \in 1 .. i - 1 : a[j] = q[j]
  BY <1>1
<1>3. b \in Seq(S) /\ Len(b) = Len(q) - i /\ \A j \in 1 .. Len(q) - i : b[j] = q[j + i]
  BY <1>1
<1>4. RemoveAt(q, i) = a \o b
  BY DEF RemoveAt
<1> HIDE DEF a, b
<1>5. Len(a \o b) = Len(a) + Len(b) /\ a \o b \in Seq(S)
  BY <1>2, <1>3, ConcatProperties
<1>6. \A j \in 1 .. i - 1 : (a \o b)[j] = q[j]
  BY <1>1, <1>2, <1>3
<1>7. ASSUME NEW j \in i .. Len(q) - 1
      PROVE  (a \o b)[j] = q[j + 1]
  <2>1. j - Len(a) \in 1 .. Len(b) /\ j - Len(a) + i = j + 1 /\ j > Len(a) /\ j <= Len(a) + Len(b)
    BY <1>1, <1>2, <1>3
  <2>2. (a \o b)[j] = b[j - Len(a)]
    BY <1>2, <1>3, <2>1
  <2> QED
    BY <1>1, <1>2, <1>3, <2>1, <2>2
<1> QED
  BY <1>1, <1>2, <1>3, <1>4, <1>5, <1>6, <1>7

\* An element more, and the messages.
LEMMA CallsAppend ==
    ASSUME NEW q \in Seq(Msg), NEW m \in Msg, NEW r, Added(r, q, m), NEW d, NEW s
    PROVE  /\ Own(m, d, s) => Calls(r, d, s) = Calls(q, d, s) \union {m.call}
           /\ ~Own(m, d, s) => Calls(r, d, s) = Calls(q, d, s)
<1>2. /\ Len(q) \in Nat /\ DOMAIN q = 1 .. Len(q) /\ DOMAIN r = 1 .. Len(q) + 1
      /\ \A i \in 1 .. Len(q) : r[i] = q[i]
      /\ r[Len(q) + 1] = m
  BY DEF Added
<1>3. ASSUME NEW i \in DOMAIN r
      PROVE  (i \in DOMAIN q /\ r[i] = q[i]) \/ (i = Len(q) + 1 /\ r[i] = m)
  BY <1>2
<1>4. \A i \in DOMAIN q : i \in DOMAIN r /\ r[i] = q[i] /\ i < Len(q) + 1
  BY <1>2
<1>5. Len(q) + 1 \in DOMAIN r
  BY <1>2
<1>6. ASSUME Own(m, d, s)
      PROVE  Calls(r, d, s) = Calls(q, d, s) \union {m.call}
  BY <1>2, <1>3, <1>4, <1>5, <1>6 DEF Calls
<1>7. ASSUME ~Own(m, d, s)
      PROVE  Calls(r, d, s) = Calls(q, d, s)
  BY <1>3, <1>4, <1>7 DEF Calls
<1> QED
  BY <1>6, <1>7

\* and their order.
LEMMA OrderAppend ==
    ASSUME NEW q \in Seq(Msg), NEW m \in Msg, NEW r, Added(r, q, m), NEW d, NEW s,
           InOrder(q, d, s), Own(m, d, s) => Below(Calls(q, d, s), {m.call})
    PROVE  InOrder(r, d, s)
<1>2. /\ Len(q) \in Nat /\ DOMAIN q = 1 .. Len(q) /\ DOMAIN r = 1 .. Len(q) + 1
      /\ \A i \in 1 .. Len(q) : r[i] = q[i]
      /\ r[Len(q) + 1] = m
  BY DEF Added
<1>3. ASSUME NEW i \in DOMAIN r
      PROVE  (i \in DOMAIN q /\ r[i] = q[i]) \/ (i = Len(q) + 1 /\ r[i] = m)
  BY <1>2
<1> SUFFICES ASSUME NEW i \in DOMAIN r, NEW j \in DOMAIN r, i < j, Own(r[i], d, s), Own(r[j], d, s)
             PROVE  r[i].call < r[j].call
  BY DEF InOrder
<1>4. i \in DOMAIN q /\ r[i] = q[i]
  BY <1>2
<1>5. CASE j \in DOMAIN q /\ r[j] = q[j]
  BY <1>4, <1>5 DEF InOrder
<1>6. CASE j = Len(q) + 1 /\ r[j] = m
  <2>1. q[i].call \in Calls(q, d, s)
    BY <1>4 DEF Calls
  <2> QED
    BY <1>4, <1>6, <2>1 DEF Below
<1> QED
  BY <1>3, <1>5, <1>6

\* An element less: the i-th, if it is one of the messages the first of them.
LEMMA CallsLess ==
    ASSUME NEW q, NEW r, NEW n \in Nat, NEW i \in 1 .. n, NEW d, NEW s,
           DOMAIN q = 1 .. n, DOMAIN r = 1 .. n - 1,
           \A j \in 1 .. i - 1 : r[j] = q[j], \A j \in i .. n - 1 : r[j] = q[j + 1],
           Own(q[i], d, s) => \A j \in 1 .. i - 1 : ~Own(q[j], d, s)
    PROVE  /\ Own(q[i], d, s) => Calls(q, d, s) = Calls(r, d, s) \union {q[i].call}
           /\ ~Own(q[i], d, s) => Calls(r, d, s) = Calls(q, d, s)
           /\ InOrder(q, d, s) => /\ InOrder(r, d, s)
                                  /\ Own(q[i], d, s) => Below({q[i].call}, Calls(r, d, s))
<1>1. ASSUME NEW j \in DOMAIN r
      PROVE  \/ j < i /\ j \in DOMAIN q /\ r[j] = q[j]
             \/ j >= i /\ j + 1 \in DOMAIN q /\ r[j] = q[j + 1]
  BY <1>1
<1>2. ASSUME NEW j \in DOMAIN q
      PROVE  \/ j = i
             \/ j \in DOMAIN r /\ r[j] = q[j]
             \/ j - 1 \in DOMAIN r /\ r[j - 1] = q[j]
  <2>1. CASE j < i
    BY <2>1
  <2>2. CASE j > i
    <3>1. j - 1 \in i .. n - 1 /\ j - 1 + 1 = j
      BY <2>2
    <3> QED
      BY <3>1
  <2> QED
    BY <2>1, <2>2
<1>3. i \in DOMAIN q
  OBVIOUS
<1>4. \A x \in Calls(r, d, s) : x \in Calls(q, d, s)
  BY <1>1 DEF Calls
<1>5. \A x \in Calls(q, d, s) : x \in Calls(r, d, s) \/ (Own(q[i], d, s) /\ x = q[i].call)
  <2> SUFFICES ASSUME NEW j \in DOMAIN q, Own(q[j], d, s), j # i
               PROVE  q[j].call \in Calls(r, d, s)
    BY Zenon DEF Calls
  <2>1. CASE j \in DOMAIN r /\ r[j] = q[j]
    BY <2>1 DEF Calls
  <2>2. CASE j - 1 \in DOMAIN r /\ r[j - 1] = q[j]
    BY <2>2 DEF Calls
  <2> QED
    BY <1>2, <2>1, <2>2
<1>6. Own(q[i], d, s) => q[i].call \in Calls(q, d, s)
  BY <1>3 DEF Calls
<1>7. ASSUME InOrder(q, d, s)
      PROVE  InOrder(r, d, s)
  <2> SUFFICES ASSUME NEW j \in DOMAIN r, NEW k \in DOMAIN r, j < k, Own(r[j], d, s), Own(r[k], d, s)
               PROVE  r[j].call < r[k].call
    BY DEF InOrder
  <2> DEFINE jj == IF j < i THEN j ELSE j + 1
             kk == IF k < i THEN k ELSE k + 1
  <2>1. jj \in DOMAIN q /\ r[j] = q[jj]
    BY <1>1
  <2>2. kk \in DOMAIN q /\ r[k] = q[kk]
    BY <1>1
  <2>3. jj < kk
    OBVIOUS
  <2> HIDE DEF jj, kk
  <2> QED
    BY <1>7, <2>1, <2>2, <2>3 DEF InOrder
<1>8. ASSUME InOrder(q, d, s), Own(q[i], d, s)
      PROVE  Below({q[i].call}, Calls(r, d, s))
  <2> SUFFICES ASSUME NEW k \in DOMAIN r, Own(r[k], d, s)
               PROVE  q[i].call < r[k].call
    BY DEF Below, Calls
  <2>1. k >= i /\ k + 1 \in DOMAIN q /\ r[k] = q[k + 1] /\ i < k + 1
    BY <1>1, <1>8
  <2> QED
    BY <1>3, <1>8, <2>1 DEF InOrder
<1> QED
  BY <1>4, <1>5, <1>6, <1>7, <1>8

\* The first element less.
LEMMA CallsTail ==
    ASSUME NEW q \in Seq(Msg), q # <<>>, NEW d, NEW s
    PROVE  /\ Own(Head(q), d, s) => Calls(q, d, s) = Calls(Tail(q), d, s) \union {Head(q).call}
           /\ ~Own(Head(q), d, s) => Calls(Tail(q), d, s) = Calls(q, d, s)
           /\ InOrder(q, d, s) => /\ InOrder(Tail(q), d, s)
                                  /\ Own(Head(q), d, s) => Below({Head(q).call}, Calls(Tail(q), d, s))
<1>1. PICK r : r = Tail(q)
  OBVIOUS
<1>2. PICK n \in Nat : n = Len(q)
  OBVIOUS
<1>3. /\ n \in Nat /\ 1 \in 1 .. n /\ DOMAIN q = 1 .. n /\ DOMAIN r = 1 .. n - 1
      /\ \A j \in 1 .. n - 1 : r[j] = q[j + 1]
      /\ Head(q) = q[1]
  BY <1>1, <1>2, HeadTail
<1>4. PICK i \in 1 .. n : i = 1
  BY <1>3
<1>5. (\A j \in 1 .. i - 1 : r[j] = q[j]) /\ (\A j \in 1 .. i - 1 : ~Own(q[j], d, s))
  BY <1>4
<1>6. \A j \in i .. n - 1 : r[j] = q[j + 1]
  BY <1>3, <1>4
<1>7. /\ Own(q[i], d, s) => Calls(q, d, s) = Calls(r, d, s) \union {q[i].call}
      /\ ~Own(q[i], d, s) => Calls(r, d, s) = Calls(q, d, s)
      /\ InOrder(q, d, s) => /\ InOrder(r, d, s)
                             /\ Own(q[i], d, s) => Below({q[i].call}, Calls(r, d, s))
  BY <1>3, <1>5, <1>6, CallsLess
<1>8. q[i] = Head(q)
  BY <1>3, <1>4
<1> QED
  BY <1>1, <1>7, <1>8

\* If the i-th element is one of the messages then it is the first of them.
First(q, i, d, s) == Own(q[i], d, s) => \A j \in 1 .. i - 1 : ~Own(q[j], d, s)
\* The messages of q are those of r, and m if it is one; then it is the first.
Rest(q, m, r, d, s) ==
    /\ Own(m, d, s) => Calls(q, d, s) = Calls(r, d, s) \union {m.call}
    /\ ~Own(m, d, s) => Calls(r, d, s) = Calls(q, d, s)
    /\ InOrder(q, d, s) => /\ InOrder(r, d, s)
                           /\ Own(m, d, s) => Below({m.call}, Calls(r, d, s))

\* Another element less.
LEMMA CallsRemoved ==
    ASSUME NEW q \in Seq(Msg), NEW i \in 1 .. Len(q), NEW r, Cut(r, q, i), NEW d, NEW s,
           First(q, i, d, s)
    PROVE  Rest(q, q[i], r, d, s)
<1>2. PICK n \in Nat : n = Len(q)
  OBVIOUS
<1>3. /\ DOMAIN q = 1 .. n /\ DOMAIN r = 1 .. n - 1 /\ i \in 1 .. n
      /\ \A j \in 1 .. i - 1 : r[j] = q[j]
      /\ \A j \in i .. n - 1 : r[j] = q[j + 1]
  <2>1. r \in Seq(Msg) /\ Len(r) = n - 1
    BY <1>2, Removed DEF Cut
  <2> QED
    BY <1>2, <2>1, Removed DEF Cut
<1>4. /\ Own(q[i], d, s) => Calls(q, d, s) = Calls(r, d, s) \union {q[i].call}
      /\ ~Own(q[i], d, s) => Calls(r, d, s) = Calls(q, d, s)
      /\ InOrder(q, d, s) => /\ InOrder(r, d, s)
                             /\ Own(q[i], d, s) => Below({q[i].call}, Calls(r, d, s))
  BY <1>3, CallsLess DEF First
<1> QED
  BY <1>4 DEF Rest

-----------------------------------------------------------------------------
(* What the steps do with a chain of messages. *)

\* A message is sent: of these two tasks,
LEMMA ChainSent ==
    ASSUME NEW h, NEW e, NEW c \in Seq(Msg), NEW S, NEW d, NEW s, NEW m \in Msg,
           Chain(h, e, c, S, d, s), Own(m, d, s), Below(S, {m.call}),
           NEW cc, Added(cc, c, m)
    PROVE  Chain(h, e, cc, S \union {m.call}, d, s)
<1>1. Calls(cc, d, s) = Calls(c, d, s) \union {m.call}
  BY CallsAppend
<1>2. InOrder(cc, d, s)
  <2>1. Below(Calls(c, d, s), {m.call})
    BY DEF Chain, Below
  <2> QED
    BY <2>1, OrderAppend DEF Chain
<1> QED
  BY <1>1, <1>2 DEF Chain, Below

\* or of others.
LEMMA ChainPut ==
    ASSUME NEW h, NEW e, NEW c \in Seq(Msg), NEW S, NEW d, NEW s, NEW m \in Msg,
           Chain(h, e, c, S, d, s), ~Own(m, d, s),
           NEW cc, Added(cc, c, m)
    PROVE  Chain(h, e, cc, S, d, s)
<1>1. InOrder(c, d, s)
  BY DEF Chain
<1>2. Calls(cc, d, s) = Calls(c, d, s)
  BY CallsAppend
<1>3. InOrder(cc, d, s)
  BY <1>1, OrderAppend
<1> QED
  BY <1>2, <1>3 DEF Chain

\* A message of others is taken, a size for example.
LEMMA ChainDrop ==
    ASSUME NEW h, NEW e, NEW c \in Seq(Msg), c # <<>>, NEW S, NEW d, NEW s,
           Chain(h, e, c, S, d, s), ~Own(Head(c), d, s)
    PROVE  Chain(h, e, Tail(c), S, d, s)
<1>1. Calls(Tail(c), d, s) = Calls(c, d, s) /\ InOrder(Tail(c), d, s)
  BY CallsTail DEF Chain
<1> QED
  BY <1>1 DEF Chain

\* The first message on the way is kept for later.
LEMMA ChainKeep ==
    ASSUME NEW h, NEW e \in Seq(Msg), NEW c \in Seq(Msg), c # <<>>, NEW S, NEW d, NEW s,
           Chain(h, e, c, S, d, s),
           NEW ee, Added(ee, e, Head(c))
    PROVE  Chain(h, ee, Tail(c), S, d, s)
<1>0. Head(c) \in Msg
  BY HeadTail
<1>1. CASE Own(Head(c), d, s)
  <2>1. /\ Calls(c, d, s) = Calls(Tail(c), d, s) \union {Head(c).call}
        /\ InOrder(Tail(c), d, s) /\ Below({Head(c).call}, Calls(Tail(c), d, s))
    BY <1>1, CallsTail DEF Chain
  <2>2. Calls(ee, d, s) = Calls(e, d, s) \union {Head(c).call}
    BY <1>0, <1>1, CallsAppend
  <2>3. Below(Calls(e, d, s), {Head(c).call})
    BY <2>1 DEF Chain, Below
  <2>4. InOrder(ee, d, s)
    BY <1>0, <2>3, OrderAppend DEF Chain
  <2>5. Below(Calls(e, d, s) \union {Head(c).call}, Calls(Tail(c), d, s))
    BY <2>1 DEF Chain, Below
  <2>6. Calls(ee, d, s) \union Calls(Tail(c), d, s) = Calls(e, d, s) \union Calls(c, d, s)
    BY <2>1, <2>2
  <2> QED
    BY <2>1, <2>2, <2>4, <2>5, <2>6 DEF Chain
<1>2. CASE ~Own(Head(c), d, s)
  <2>1. Calls(Tail(c), d, s) = Calls(c, d, s) /\ InOrder(Tail(c), d, s)
    BY <1>2, CallsTail DEF Chain
  <2>2. InOrder(e, d, s)
    BY DEF Chain
  <2>3. Calls(ee, d, s) = Calls(e, d, s)
    BY <1>0, <1>2, CallsAppend
  <2>4. InOrder(ee, d, s)
    BY <1>0, <1>2, <2>2, OrderAppend
  <2> QED
    BY <2>1, <2>3, <2>4 DEF Chain
<1> QED
  BY <1>1, <1>2

\* It is received; the task has none of its sender for later.
LEMMA ChainGot ==
    ASSUME NEW h \in Seq(Msg), NEW e, NEW c \in Seq(Msg), c # <<>>, NEW S, NEW d, NEW s,
           Chain(h, e, c, S, d, s), Own(Head(c), d, s) => Calls(e, d, s) = {},
           NEW hh, Added(hh, h, Head(c))
    PROVE  Chain(hh, e, Tail(c), S, d, s)
<1>0. Head(c) \in Msg
  BY HeadTail
<1>1. CASE Own(Head(c), d, s)
  <2>1. /\ Calls(c, d, s) = Calls(Tail(c), d, s) \union {Head(c).call}
        /\ InOrder(Tail(c), d, s) /\ Below({Head(c).call}, Calls(Tail(c), d, s))
    BY <1>1, CallsTail DEF Chain
  <2>2. Calls(hh, d, s) = Calls(h, d, s) \union {Head(c).call}
    BY <1>0, <1>1, CallsAppend
  <2>3. Below(Calls(h, d, s), {Head(c).call})
    BY <2>1 DEF Chain, Below
  <2>4. InOrder(hh, d, s)
    BY <1>0, <2>3, OrderAppend DEF Chain
  <2>5. Below(Calls(h, d, s) \union {Head(c).call}, Calls(e, d, s) \union Calls(Tail(c), d, s))
    BY <1>1, <2>1 DEF Chain, Below
  <2>6. Calls(hh, d, s) \union Calls(e, d, s) \union Calls(Tail(c), d, s)
            = Calls(h, d, s) \union Calls(e, d, s) \union Calls(c, d, s)
    BY <2>1, <2>2
  <2>7. Below(Calls(e, d, s), Calls(Tail(c), d, s))
    BY <2>1 DEF Chain, Below
  <2> QED
    BY <2>1, <2>2, <2>4, <2>5, <2>6, <2>7 DEF Chain
<1>2. CASE ~Own(Head(c), d, s)
  <2>1. Calls(Tail(c), d, s) = Calls(c, d, s) /\ InOrder(Tail(c), d, s)
    BY <1>2, CallsTail DEF Chain
  <2>2. InOrder(h, d, s)
    BY DEF Chain
  <2>3. Calls(hh, d, s) = Calls(h, d, s)
    BY <1>0, <1>2, CallsAppend
  <2>4. InOrder(hh, d, s)
    BY <1>0, <1>2, <2>2, OrderAppend
  <2> QED
    BY <2>1, <2>3, <2>4 DEF Chain
<1> QED
  BY <1>1, <1>2

\* One that waits for the task is received: the first of its sender.
LEMMA ChainFound ==
    ASSUME NEW h \in Seq(Msg), NEW e \in Seq(Msg), NEW i \in 1 .. Len(e), NEW c, NEW S, NEW d, NEW s,
           Chain(h, e, c, S, d, s), First(e, i, d, s),
           NEW hh, Added(hh, h, e[i]), NEW ee, Cut(ee, e, i)
    PROVE  Chain(hh, ee, c, S, d, s)
<1>0. e[i] \in Msg
  OBVIOUS
<1>1. CASE Own(e[i], d, s)
  <2>1. /\ Calls(e, d, s) = Calls(ee, d, s) \union {e[i].call}
        /\ InOrder(ee, d, s) /\ Below({e[i].call}, Calls(ee, d, s))
    <3>1. Rest(e, e[i], ee, d, s)
      BY CallsRemoved
    <3> QED
      BY <1>1, <3>1 DEF Chain, Rest
  <2>2. Calls(hh, d, s) = Calls(h, d, s) \union {e[i].call}
    BY <1>0, <1>1, CallsAppend
  <2>3. Below(Calls(h, d, s), {e[i].call})
    BY <2>1 DEF Chain, Below
  <2>4. InOrder(hh, d, s)
    BY <1>0, <2>3, OrderAppend DEF Chain
  <2>5. Below(Calls(h, d, s) \union {e[i].call}, Calls(ee, d, s) \union Calls(c, d, s))
    BY <2>1 DEF Chain, Below
  <2>6. Calls(hh, d, s) \union Calls(ee, d, s) = Calls(h, d, s) \union Calls(e, d, s)
    BY <2>1, <2>2
  <2>7. Below(Calls(ee, d, s), Calls(c, d, s))
    BY <2>1 DEF Chain, Below
  <2> QED
    BY <2>1, <2>2, <2>4, <2>5, <2>6, <2>7 DEF Chain
<1>2. CASE ~Own(e[i], d, s)
  <2>1. Calls(ee, d, s) = Calls(e, d, s) /\ InOrder(ee, d, s)
    <3>1. Rest(e, e[i], ee, d, s)
      BY CallsRemoved
    <3> QED
      BY <1>2, <3>1 DEF Chain, Rest
  <2>2. InOrder(h, d, s)
    BY DEF Chain
  <2>3. Calls(hh, d, s) = Calls(h, d, s)
    BY <1>0, <1>2, CallsAppend
  <2>4. InOrder(hh, d, s)
    BY <1>0, <1>2, <2>2, OrderAppend
  <2> QED
    BY <2>1, <2>3, <2>4 DEF Chain
<1> QED
  BY <1>1, <1>2

\* A message that waits for another task is received.
LEMMA ChainPast ==
    ASSUME NEW h, NEW e \in Seq(Msg), NEW i \in 1 .. Len(e), NEW c, NEW S, NEW d, NEW s,
           Chain(h, e, c, S, d, s), ~Own(e[i], d, s),
           NEW ee, Cut(ee, e, i)
    PROVE  Chain(h, ee, c, S, d, s)
<1>1. Calls(ee, d, s) = Calls(e, d, s) /\ InOrder(ee, d, s)
  <2>1. First(e, i, d, s)
    BY DEF First
  <2>2. Rest(e, e[i], ee, d, s)
    BY <2>1, CallsRemoved
  <2> QED
    BY <2>2 DEF Chain, Rest
<1> QED
  BY <1>1 DEF Chain

-----------------------------------------------------------------------------
(* The invariant. *)

AtWork == {"task", "tsend", "size", "message"}
Place == AtWork \union {"run", "barrier", "release", "done", "error"}
Error == \E p \in Proc : pc[p] = "error"

MailTypes ==
    /\ wire \in [Pair -> Seq(Msg)]
    /\ queue \in [Pair -> Seq(Msg)]
    /\ waiting \in [Pair -> {0, 1}]
    /\ asleep \in [Pair -> BOOLEAN]
    /\ hack \in [Proc -> Seq(Msg)]
TypeInv ==
    /\ program \in Programs
    /\ glue = program.glue
    /\ MailTypes
    /\ pc \in [Proc -> Place]
    /\ at \in [Proc -> Nat \ {0}]
    /\ loop \in [Proc -> Nat \ {0}]
    /\ theTaskQueue \in [Proc -> Seq(Tasks)]
    /\ next \in [Proc -> Nat \ {0}]
    /\ step \in [Proc -> Nat \ {0}]
    /\ theQueue \in [Proc -> Seq(Tagged)]
    /\ received \in [Tasks -> Seq(Tagged)]
    /\ enter \in [Proc -> Nat]
    /\ leave \in [Proc -> Nat]

\* Where p is in its calls.
CallInv(p) ==
    /\ at[p] <= Len(program.calls[p]) + 1
    /\ pc[p] \in {"barrier", "release"} => InCall(p, "barrier")
    /\ pc[p] = "release" => p = 0 /\ glue = "panda" /\ loop[p] \in 1 .. N
    /\ pc[p] = "barrier" /\ p = 0 /\ glue = "panda" => loop[p] \in 1 .. N - 1
    /\ pc[p] = "run" /\ InCall(p, "send") => loop[p] \in 1 .. Len(Destinations(Arg(p).dest))
    /\ pc[p] = "run" /\ InCall(p, "barrier") => loop[p] = 1

\* Where p is among its tasks.
TaskInv(p) ==
    /\ next[p] <= Len(theTaskQueue[p]) + 1
    /\ Len(theTaskQueue[p]) <= Len(program.tasks)
    /\ ~AllAdded(p) => next[p] = 1
    /\ next[p] > 1 \/ theTaskQueue[p] # <<>> \/ pc[p] \in AtWork \union {"done"} =>
           at[p] > Len(program.calls[p])
    /\ pc[p] \in AtWork => /\ next[p] > 1
                           /\ Mapping(Current(p)) = p
                           /\ step[p] <= Len(Body(p)) + 1
    /\ pc[p] = "tsend" => step[p] <= Len(Body(p)) /\ Body(p)[step[p]].op = "tsend"
    /\ pc[p] \in {"size", "message"} => step[p] <= Len(Body(p)) /\ Body(p)[step[p]].op = "treceive"
    /\ pc[p] = "done" => AllAdded(p) /\ next[p] > Len(theTaskQueue[p])

\* The queue of tasks has the tasks that were added, in the order of their
\* priorities.
Precedes(t, u) ==
    \/ program.tasks[t].priority < program.tasks[u].priority
    \/ program.tasks[t].priority = program.tasks[u].priority /\ t < u
SortedInv(p) ==
    /\ \A i, j \in DOMAIN theTaskQueue[p] : i < j => Precedes(theTaskQueue[p][i], theTaskQueue[p][j])
    /\ \A i \in DOMAIN theTaskQueue[p] : theTaskQueue[p][i] <= Len(theTaskQueue[p])
    /\ \A t \in 1 .. Len(theTaskQueue[p]) : \E i \in DOMAIN theTaskQueue[p] : theTaskQueue[p][i] = t

SleepInv(p, s) ==
    /\ glue = "mpi" => ~asleep[<<p, s>>] /\ queue[<<p, s>>] = <<>>
    /\ asleep[<<p, s>>] => waiting[<<p, s>>] = 1 /\ s \in Awaited(p) /\ queue[<<p, s>>] = <<>>

\* What waits in theQueue is for tasks of p, and p waits for none of it.
EarlyInv(p) ==
    /\ \A i \in DOMAIN theQueue[p] : theQueue[p][i].dest \in Tasks /\ Mapping(theQueue[p][i].dest) = p
    /\ pc[p] \in {"size", "message"} => \A i \in DOMAIN theQueue[p] : ~Matches(p, theQueue[p][i])

\* The list of messages to oneself: a message is in front of its size, but for
\* that of a tsend to oneself that is under way.
Slot(p) == IF pc[p] = "tsend" /\ Kept(p, Mapping(Peer(p))) THEN "open" ELSE "closed"
Hacked(list, slot) ==
    \A i \in DOMAIN list :
        list[i].what = "size" => (i = 1 /\ slot = "open") \/ (i > 1 /\ list[i - 1].what = "message")
HackInv(p) ==
    /\ Hacked(hack[p], Slot(p))
    /\ glue = "mpi" /\ pc[p] = "message" => Mapping(Peer(p)) # p

\* The messages of calls that s has sent to d, and the calls in which d has
\* taken one.
Past(s, i, j) ==
    \/ i < at[s]
    \/ i = at[s] /\ IF Arg(s).op = "send" THEN j < loop[s]
                    ELSE IF s = 0 THEN pc[0] = "release" /\ j < loop[0] ELSE pc[s] = "barrier"
Gave(d, s) == {x \in Sendings(program, d, s) : Past(s, x[1], x[2])}
Gone(d, s, i) ==
    \/ i < at[d]
    \/ i = at[d] /\ d = 0 /\ (pc[d] = "release" \/ (pc[d] = "barrier" /\ s < loop[d]))
Took(d, s) == {i \in Takings(program, d, s) : Gone(d, s, i)}
Ahead(d, s) == Cardinality(Gave(d, s)) - Cardinality(Took(d, s))

\* What s sent in its calls comes first, and d has still to take it in its
\* calls; after it come the sizes and messages of tasks of s for tasks of d.
Addressed(d, s) == {m \in Tagged : /\ m.src \in Tasks /\ Mapping(m.src) = s
                                   /\ m.dest \in Tasks /\ Mapping(m.dest) = d}
Due(d, s) == IF pc[d] = "message" /\ Mapping(Peer(d)) = s THEN "message" ELSE "size"
Latest(d, s) == IF pc[s] = "tsend" /\ Mapping(Peer(s)) = d THEN "size" ELSE "message"
Flow(d, s) ==
    /\ Good(Stream(d, s), Ahead(d, s), Addressed(d, s), Due(d, s), Latest(d, s))
    /\ at[s] <= Len(program.calls[s]) => Len(Stream(d, s)) = Ahead(d, s)

\* What task s has sent task d, and where it is.
Arrives(d, s) ==
    Chain(received[d], theQueue[Mapping(d)], Stream(Mapping(d), Mapping(s)), SentTo(d, s), d, s)

IInv ==
    /\ TypeInv
    /\ \A p \in Proc : CallInv(p) /\ TaskInv(p) /\ SortedInv(p) /\ EarlyInv(p)
    /\ \A p, s \in Proc : SleepInv(p, s)
    /\ ~Error => /\ \A p \in Proc : HackInv(p)
                 /\ \A d, s \in Proc : ~Kept(s, d) => Flow(d, s)
                 /\ \A d, s \in Tasks : ~Kept(Mapping(s), Mapping(d)) => Arrives(d, s)

-----------------------------------------------------------------------------
(* What the operations of Mailboxes do to the streams. *)

\* The streams stay as they are, m is added to that from s to d, or its first
\* message is taken.
Still == \A d, s \in Proc : Stream(d, s)' = Stream(d, s)
StillBut(d, s) == \A q, r \in Proc : q # d \/ r # s => Stream(q, r)' = Stream(q, r)
Put(d, s, m) == Added(Stream(d, s)', Stream(d, s), m) /\ StillBut(d, s)
Taken(d, s) == Stream(d, s) # <<>> /\ Stream(d, s)' = Tail(Stream(d, s)) /\ StillBut(d, s)

\* Pairs of processors.
LEMMA PairFact == \A d, s \in Proc : <<d, s>> \in Pair
  BY DEF Pair

\* Streams are sequences of messages.
LEMMA StreamType ==
    ASSUME MailTypes, NEW d \in Proc, NEW s \in Proc
    PROVE  Stream(d, s) \in Seq(Msg) /\ queue[<<d, s>>] \in Seq(Msg) /\ wire[<<d, s>>] \in Seq(Msg)
<1>1. queue[<<d, s>>] \in Seq(Msg) /\ wire[<<d, s>>] \in Seq(Msg)
  BY PairFact DEF MailTypes
<1> QED
  BY <1>1, ConcatProperties DEF Stream

\* Two sequences, and an element at the end of the second,
LEMMA ConcatAppend ==
    ASSUME NEW S, NEW a \in Seq(S), NEW b \in Seq(S), NEW m \in S, NEW r, Added(r, b, m)
    PROVE  Added(a \o r, a \o b, m)
  BY DEF Added

\* or no first element any more in the first, 
LEMMA ConcatHead ==
    ASSUME NEW S, NEW a \in Seq(S), NEW b \in Seq(S), a # <<>>
    PROVE  a \o b # <<>> /\ Head(a \o b) = Head(a) /\ Tail(a \o b) = Tail(a) \o b
<1>1. PICK r \in Seq(S) : r = a \o b
  BY ConcatProperties
<1>2. PICK t \in Seq(S) : t = Tail(a)
  BY HeadTailProperties
<1>3. /\ Len(a) \in Nat /\ Len(b) \in Nat /\ Len(a) >= 1 /\ Len(r) = Len(a) + Len(b)
      /\ \A i \in 1 .. Len(a) + Len(b) : r[i] = IF i <= Len(a) THEN a[i] ELSE b[i - Len(a)]
  BY <1>1, ConcatProperties, HeadTail
<1>4. r # <<>> /\ Head(r) = r[1] /\ Head(a) = a[1] /\ Len(t) = Len(a) - 1 /\ \A i \in 1 .. Len(a) - 1 : t[i] = a[i + 1]
  BY <1>2, <1>3, HeadTail
<1>5. Head(r) = Head(a)
  BY <1>3, <1>4
<1>6. PICK u \in Seq(S) : u = Tail(r)
  BY <1>4, HeadTailProperties
<1>7. Len(u) = Len(r) - 1 /\ \A i \in 1 .. Len(r) - 1 : u[i] = r[i + 1]
  BY <1>4, <1>6, HeadTail
<1>8. PICK v \in Seq(S) : v = t \o b
  BY ConcatProperties
<1>9. /\ Len(v) = Len(t) + Len(b)
      /\ \A i \in 1 .. Len(t) + Len(b) : v[i] = IF i <= Len(t) THEN t[i] ELSE b[i - Len(t)]
  BY <1>8, ConcatProperties
<1>10. Len(u) = Len(v)
  BY <1>3, <1>4, <1>7, <1>9
<1>11. ASSUME NEW i \in 1 .. Len(u)
       PROVE  u[i] = v[i]
  <2>1. CASE i <= Len(a) - 1
    <3>1. u[i] = a[i + 1]
      BY <1>3, <1>7, <2>1
    <3>2. i \in 1 .. Len(a) - 1 /\ i <= Len(t) /\ i \in 1 .. Len(t) + Len(b)
      BY <1>3, <1>4, <1>7, <2>1
    <3>3. v[i] = t[i] /\ t[i] = a[i + 1]
      BY <1>4, <1>9, <3>2
    <3> QED
      BY <3>1, <3>3
  <2>2. CASE i > Len(a) - 1
    <3>1. u[i] = b[i + 1 - Len(a)]
      BY <1>3, <1>7, <2>2
    <3>2. v[i] = b[i - (Len(a) - 1)] /\ i - (Len(a) - 1) = i + 1 - Len(a)
      BY <1>3, <1>4, <1>7, <1>9, <2>2
    <3> QED
      BY <3>1, <3>2
  <2> QED
    BY <1>3, <1>7, <2>1, <2>2
<1>12. u = v
  BY <1>10, <1>11, SeqEqual
<1> QED
  BY <1>1, <1>2, <1>4, <1>5, <1>6, <1>8, <1>12

\* or one that moves from the second to the first.
LEMMA ConcatMove ==
    ASSUME NEW S, NEW a \in Seq(S), NEW b \in Seq(S), b # <<>>
    PROVE  Append(a, Head(b)) \o Tail(b) = a \o b
<1>1. PICK r \in Seq(S) : r = a \o b
  BY ConcatProperties
<1>2. PICK t \in Seq(S) : t = Tail(b)
  BY HeadTailProperties
<1>3. PICK h \in S : h = Head(b)
  BY HeadTailProperties
<1>4. PICK c \in Seq(S) : c = Append(a, h)
  BY Appended
<1>5. /\ Len(a) \in Nat /\ Len(b) \in Nat /\ Len(b) >= 1 /\ Len(r) = Len(a) + Len(b)
      /\ \A i \in 1 .. Len(a) + Len(b) : r[i] = IF i <= Len(a) THEN a[i] ELSE b[i - Len(a)]
  BY <1>1, ConcatProperties, HeadTail
<1>6. h = b[1] /\ Len(t) = Len(b) - 1 /\ \A i \in 1 .. Len(b) - 1 : t[i] = b[i + 1]
  BY <1>2, <1>3, HeadTail
<1>7. Len(c) = Len(a) + 1 /\ c[Len(a) + 1] = h /\ \A i \in 1 .. Len(a) : c[i] = a[i]
  BY <1>4, Appended
<1>8. PICK v \in Seq(S) : v = c \o t
  BY ConcatProperties
<1>9. /\ Len(v) = Len(c) + Len(t)
      /\ \A i \in 1 .. Len(c) + Len(t) : v[i] = IF i <= Len(c) THEN c[i] ELSE t[i - Len(c)]
  BY <1>8, ConcatProperties
<1>10. Len(v) = Len(r)
  BY <1>5, <1>6, <1>7, <1>9
<1>11. ASSUME NEW i \in 1 .. Len(v)
       PROVE  v[i] = r[i]
  <2>0. i \in 1 .. Len(a) + Len(b) /\ i \in 1 .. Len(c) + Len(t)
    BY <1>5, <1>9, <1>10
  <2>1. CASE i <= Len(a)
    <3>1. i \in 1 .. Len(a) /\ i <= Len(c)
      BY <1>5, <1>7, <2>1, <2>0
    <3>2. v[i] = c[i] /\ c[i] = a[i] /\ r[i] = a[i]
      BY <1>5, <1>7, <1>9, <2>0, <2>1, <3>1
    <3> QED
      BY <3>2
  <2>2. CASE i = Len(a) + 1
    <3>1. i <= Len(c) /\ ~(i <= Len(a)) /\ i - Len(a) = 1
      BY <1>5, <1>7, <2>2
    <3>2. v[i] = c[i] /\ c[i] = h /\ r[i] = b[1]
      BY <1>5, <1>7, <1>9, <2>0, <2>2, <3>1
    <3> QED
      BY <1>6, <3>2
  <2>3. CASE i > Len(a) + 1
    <3>1. v[i] = t[i - Len(c)]
      BY <1>5, <1>7, <1>9, <1>10, <2>3
    <3>2. i - Len(c) \in 1 .. Len(b) - 1 /\ i - Len(c) + 1 = i - Len(a)
      BY <1>5, <1>7, <1>10, <2>3
    <3>3. r[i] = b[i - Len(a)]
      BY <1>5, <1>10, <2>3
    <3> QED
      BY <1>6, <3>1, <3>2, <3>3
  <2> QED
    BY <1>5, <1>10, <2>1, <2>2, <2>3
<1>12. v = r
  BY <1>10, <1>11, SeqEqual
<1> QED
  BY <1>1, <1>2, <1>3, <1>4, <1>8, <1>12

\* vnus_send_real.
LEMMA SendEffect ==
    ASSUME MailTypes, NEW d \in Proc, NEW s \in Proc, NEW m \in Msg, SendReal(s, d, m)
    PROVE  /\ MailTypes' /\ glue' = glue /\ queue' = queue /\ waiting' = waiting /\ asleep' = asleep
           /\ Kept(s, d) => Still /\ hack' = [hack EXCEPT ![s] = <<m>> \o @]
           /\ ~Kept(s, d) => Put(d, s, m) /\ hack' = hack
<1>1. glue' = glue /\ queue' = queue /\ waiting' = waiting /\ asleep' = asleep
  BY DEF SendReal
<1>2. CASE Kept(s, d)
  <2>1. wire' = wire /\ hack' = [hack EXCEPT ![s] = <<m>> \o @]
    BY <1>2 DEF SendReal
  <2>2. <<m>> \o hack[s] \in Seq(Msg)
    <3>1. <<m>> \in Seq(Msg) /\ hack[s] \in Seq(Msg)
      BY DEF MailTypes
    <3> QED
      BY <3>1, ConcatProperties
  <2>3. MailTypes'
    BY <1>1, <2>1, <2>2 DEF MailTypes
  <2> QED
    BY <1>1, <1>2, <2>1, <2>3 DEF Still, Stream
<1>3. CASE ~Kept(s, d)
  <2>1. hack' = hack /\ wire' = [wire EXCEPT ![<<d, s>>] = Append(@, m)]
    BY <1>3 DEF SendReal
  <2>2. queue[<<d, s>>] \in Seq(Msg) /\ wire[<<d, s>>] \in Seq(Msg) /\ <<d, s>> \in Pair
    BY StreamType, PairFact
  <2>3. Append(wire[<<d, s>>], m) \in Seq(Msg)
    BY <2>2, Appended
  <2>4. MailTypes'
    BY <1>1, <2>1, <2>3 DEF MailTypes
  <2>5. wire'[<<d, s>>] = Append(wire[<<d, s>>], m)
    BY <2>1, <2>2 DEF MailTypes
  <2>6. Added(Stream(d, s)', Stream(d, s), m)
    <3>1. Added(wire'[<<d, s>>], wire[<<d, s>>], m)
      BY <2>5 DEF Added
    <3>2. Added(queue[<<d, s>>] \o wire'[<<d, s>>], queue[<<d, s>>] \o wire[<<d, s>>], m)
      BY <2>2, <3>1, ConcatAppend
    <3> QED
      BY <1>1, <3>2 DEF Stream
  <2>7. StillBut(d, s)
    <3>1. ASSUME NEW q \in Proc, NEW r \in Proc, q # d \/ r # s
          PROVE  wire'[<<q, r>>] = wire[<<q, r>>]
      <4>1. <<q, r>> \in Pair /\ <<q, r>> # <<d, s>>
        BY <3>1, PairFact
      <4> QED
        BY <2>1, <4>1 DEF MailTypes
    <3> QED
      BY <1>1, <3>1 DEF StillBut, Stream
  <2> QED
    BY <1>1, <1>3, <2>1, <2>4, <2>6, <2>7 DEF Put
<1> QED
  BY <1>2, <1>3

\* vnus_receive.
LEMMA TakeEffect ==
    ASSUME MailTypes, glue \in {"panda", "mpi"}, NEW d \in Proc, NEW s \in Proc,
           glue = "mpi" => queue[<<d, s>>] = <<>>, Take(d, s)
    PROVE  /\ MailTypes' /\ glue' = glue /\ asleep' = asleep
           /\ glue = "panda" => ~asleep[<<d, s>>]
           /\ glue = "mpi" => queue' = queue
           /\ \A q, r \in Proc : q # d => /\ queue'[<<q, r>>] = queue[<<q, r>>]
                                          /\ waiting'[<<q, r>>] = waiting[<<q, r>>]
           /\ Kept(s, d) => Still /\ hack[d] # <<>> /\ Box(d, s) = hack[d] /\ hack' = [hack EXCEPT ![d] = Tail(@)]
           /\ ~Kept(s, d) => Taken(d, s) /\ Head(Box(d, s)) = Head(Stream(d, s)) /\ hack' = hack
<1>0. queue[<<d, s>>] \in Seq(Msg) /\ wire[<<d, s>>] \in Seq(Msg) /\ <<d, s>> \in Pair
  BY StreamType, PairFact
<1>1. glue' = glue /\ asleep' = asleep /\ Box(d, s) # <<>>
  BY DEF Take
<1>2. CASE glue = "panda"
  <2>1. /\ ~asleep[<<d, s>>] /\ Box(d, s) = queue[<<d, s>>] /\ queue[<<d, s>>] # <<>>
        /\ wire' = wire /\ hack' = hack /\ ~Kept(s, d)
        /\ queue' = [queue EXCEPT ![<<d, s>>] = Tail(@)]
        /\ waiting' = [waiting EXCEPT ![<<d, s>>] = 0]
    BY <1>1, <1>2 DEF Take, Box, Kept
  <2>2. Tail(queue[<<d, s>>]) \in Seq(Msg)
    BY <1>0, <2>1, HeadTail
  <2>3. MailTypes'
    <3>1. wire' \in [Pair -> Seq(Msg)] /\ hack' \in [Proc -> Seq(Msg)] /\ asleep' \in [Pair -> BOOLEAN]
      BY <1>1, <2>1 DEF MailTypes
    <3>2. queue' \in [Pair -> Seq(Msg)]
      BY <2>1, <2>2 DEF MailTypes
    <3>3. waiting' \in [Pair -> {0, 1}]
      BY <2>1 DEF MailTypes
    <3> QED
      BY <3>1, <3>2, <3>3 DEF MailTypes
  <2>4. queue'[<<d, s>>] = Tail(queue[<<d, s>>])
    BY <1>0, <2>1 DEF MailTypes
  <2>5. ASSUME NEW q \in Proc, NEW r \in Proc, q # d \/ r # s
        PROVE  queue'[<<q, r>>] = queue[<<q, r>>] /\ waiting'[<<q, r>>] = waiting[<<q, r>>]
    <3>1. <<q, r>> \in Pair /\ <<q, r>> # <<d, s>>
      BY <2>5, PairFact
    <3>2. queue'[<<q, r>>] = queue[<<q, r>>]
      BY <2>1, <3>1 DEF MailTypes
    <3>3. waiting'[<<q, r>>] = waiting[<<q, r>>]
      BY <2>1, <3>1 DEF MailTypes
    <3> QED
      BY <3>2, <3>3
  <2>6. StillBut(d, s)
    BY <2>1, <2>5 DEF StillBut, Stream
  <2>7. Taken(d, s) /\ Head(Stream(d, s)) = Head(queue[<<d, s>>])
    <3>1. /\ queue[<<d, s>>] \o wire[<<d, s>>] # <<>>
          /\ Head(queue[<<d, s>>] \o wire[<<d, s>>]) = Head(queue[<<d, s>>])
          /\ Tail(queue[<<d, s>>] \o wire[<<d, s>>]) = Tail(queue[<<d, s>>]) \o wire[<<d, s>>]
      BY <1>0, <2>1, ConcatHead
    <3>2. Stream(d, s) # <<>> /\ Head(Stream(d, s)) = Head(queue[<<d, s>>])
      BY <3>1 DEF Stream
    <3>3. Stream(d, s)' = Tail(Stream(d, s))
      BY <2>1, <2>4, <3>1 DEF Stream
    <3> QED
      BY <2>6, <3>2, <3>3 DEF Taken
  <2> QED
    BY <1>1, <1>2, <2>1, <2>3, <2>5, <2>7
<1>3. CASE glue = "mpi" /\ Kept(s, d)
  <2>1. /\ Box(d, s) = hack[d] /\ hack[d] # <<>> /\ queue' = queue /\ waiting' = waiting /\ wire' = wire
        /\ hack' = [hack EXCEPT ![d] = Tail(@)]
    BY <1>1, <1>3 DEF Take, Box
  <2>2. Tail(hack[d]) \in Seq(Msg)
    BY <2>1, HeadTail DEF MailTypes
  <2>3. MailTypes'
    BY <1>1, <2>1, <2>2 DEF MailTypes
  <2>4. Still
    BY <2>1 DEF Still, Stream
  <2> QED
    BY <1>1, <1>3, <2>1, <2>3, <2>4
<1>4. CASE glue = "mpi" /\ ~Kept(s, d)
  <2>1. /\ Box(d, s) = wire[<<d, s>>] /\ wire[<<d, s>>] # <<>> /\ queue' = queue /\ waiting' = waiting /\ hack' = hack
        /\ wire' = [wire EXCEPT ![<<d, s>>] = Tail(@)]
    BY <1>1, <1>4 DEF Take, Box
  <2>2. Tail(wire[<<d, s>>]) \in Seq(Msg)
    BY <1>0, <2>1, HeadTail
  <2>3. MailTypes'
    BY <1>1, <2>1, <2>2 DEF MailTypes
  <2>4. wire'[<<d, s>>] = Tail(wire[<<d, s>>])
    BY <1>0, <2>1 DEF MailTypes
  <2>5. StillBut(d, s)
    <3>1. ASSUME NEW q \in Proc, NEW r \in Proc, q # d \/ r # s
          PROVE  wire'[<<q, r>>] = wire[<<q, r>>]
      <4>1. <<q, r>> \in Pair /\ <<q, r>> # <<d, s>>
        BY <3>1, PairFact
      <4> QED
        BY <2>1, <4>1 DEF MailTypes
    <3> QED
      BY <2>1, <3>1 DEF StillBut, Stream
  <2>6. Stream(d, s) = wire[<<d, s>>] /\ Stream(d, s)' = wire'[<<d, s>>]
    <3>1. <<>> \o wire[<<d, s>>] = wire[<<d, s>>] /\ <<>> \o Tail(wire[<<d, s>>]) = Tail(wire[<<d, s>>])
      BY <1>0, <2>2, ConcatEmptySeq
    <3> QED
      BY <1>4, <2>1, <2>4, <3>1 DEF Stream
  <2> QED
    BY <1>1, <1>4, <2>1, <2>3, <2>4, <2>5, <2>6 DEF Taken
<1> QED
  BY <1>2, <1>3, <1>4

\* vnus_receive, whether or not Hack_Recv finds a message.
LEMMA ReceiveEffect ==
    ASSUME MailTypes, glue \in {"panda", "mpi"}, NEW d \in Proc, NEW s \in Proc,
           glue = "mpi" => queue[<<d, s>>] = <<>>, VnusReceive(d, s)
    PROVE  /\ MailTypes' /\ glue' = glue /\ asleep' = asleep
           /\ glue = "panda" => ~asleep[<<d, s>>]
           /\ glue = "mpi" => queue' = queue
           /\ \A q, r \in Proc : q # d => /\ queue'[<<q, r>>] = queue[<<q, r>>]
                                          /\ waiting'[<<q, r>>] = waiting[<<q, r>>]
           /\ \A q \in Proc : q # d => hack'[q] = hack[q]
<1>1. CASE NoneKept(d, s)
  <2>1. /\ glue' = glue /\ wire' = wire /\ queue' = queue /\ waiting' = waiting
        /\ asleep' = asleep /\ hack' = hack
    BY <1>1 DEF VnusReceive, mailVars
  <2>2. glue = "mpi"
    BY <1>1 DEF NoneKept, Kept
  <2>3. MailTypes'
    BY <2>1 DEF MailTypes
  <2> QED
    BY <2>1, <2>2, <2>3
<1>2. CASE ~NoneKept(d, s)
  <2>1. Take(d, s)
    BY <1>2 DEF VnusReceive
  <2>2. hack' = hack \/ hack' = [hack EXCEPT ![d] = Tail(@)]
    BY <2>1, TakeEffect
  <2>3. \A q \in Proc : q # d => hack'[q] = hack[q]
    BY <2>2 DEF MailTypes
  <2> QED
    BY <2>1, <2>3, TakeEffect
<1> QED
  BY <1>1, <1>2

\* handle_msg.
LEMMA UpcallEffect ==
    ASSUME MailTypes, NEW d \in Proc, NEW s \in Proc, Upcall(d, s)
    PROVE  /\ MailTypes' /\ glue = "panda" /\ glue' = glue /\ hack' = hack /\ waiting' = waiting /\ Still
           /\ \A q, r \in Proc : q # d \/ r # s => /\ queue'[<<q, r>>] = queue[<<q, r>>]
                                                   /\ asleep'[<<q, r>>] = asleep[<<q, r>>]
           /\ asleep'[<<d, s>>] = (asleep[<<d, s>>] /\ waiting[<<d, s>>] = 0)
<1>0. queue[<<d, s>>] \in Seq(Msg) /\ wire[<<d, s>>] \in Seq(Msg) /\ <<d, s>> \in Pair
  BY StreamType, PairFact
<1>1. /\ glue = "panda" /\ glue' = glue /\ hack' = hack /\ waiting' = waiting /\ wire[<<d, s>>] # <<>>
      /\ wire' = [wire EXCEPT ![<<d, s>>] = Tail(@)]
      /\ queue' = [queue EXCEPT ![<<d, s>>] = Append(@, Head(wire[<<d, s>>]))]
      /\ asleep' = [asleep EXCEPT ![<<d, s>>] = @ /\ waiting[<<d, s>>] = 0]
  BY DEF Upcall
<1>2. Head(wire[<<d, s>>]) \in Msg /\ Tail(wire[<<d, s>>]) \in Seq(Msg)
  BY <1>0, <1>1, HeadTail
<1>3. Append(queue[<<d, s>>], Head(wire[<<d, s>>])) \in Seq(Msg)
  BY <1>0, <1>2, Appended
<1>4. asleep'[<<d, s>>] = (asleep[<<d, s>>] /\ waiting[<<d, s>>] = 0)
  BY <1>0, <1>1 DEF MailTypes
<1>5. MailTypes'
  <2>1. wire' \in [Pair -> Seq(Msg)]
    BY <1>1, <1>2 DEF MailTypes
  <2>2. queue' \in [Pair -> Seq(Msg)]
    BY <1>1, <1>3 DEF MailTypes
  <2>3. asleep' \in [Pair -> BOOLEAN]
    BY <1>1 DEF MailTypes
  <2> QED
    BY <1>1, <2>1, <2>2, <2>3 DEF MailTypes
<1>6. ASSUME NEW q \in Proc, NEW r \in Proc, q # d \/ r # s
      PROVE  /\ wire'[<<q, r>>] = wire[<<q, r>>] /\ queue'[<<q, r>>] = queue[<<q, r>>]
             /\ asleep'[<<q, r>>] = asleep[<<q, r>>]
  <2>1. <<q, r>> \in Pair /\ <<q, r>> # <<d, s>>
    BY <1>6, PairFact
  <2>2. wire'[<<q, r>>] = wire[<<q, r>>]
    BY <1>1, <2>1 DEF MailTypes
  <2>3. queue'[<<q, r>>] = queue[<<q, r>>]
    BY <1>1, <2>1 DEF MailTypes
  <2>4. asleep'[<<q, r>>] = asleep[<<q, r>>]
    BY <1>1, <2>1 DEF MailTypes
  <2> QED
    BY <2>2, <2>3, <2>4
<1>7. Stream(d, s)' = Stream(d, s)
  <2>1. wire'[<<d, s>>] = Tail(wire[<<d, s>>])
    BY <1>0, <1>1 DEF MailTypes
  <2>2. queue'[<<d, s>>] = Append(queue[<<d, s>>], Head(wire[<<d, s>>]))
    BY <1>0, <1>1 DEF MailTypes
  <2>3. Append(queue[<<d, s>>], Head(wire[<<d, s>>])) \o Tail(wire[<<d, s>>]) = queue[<<d, s>>] \o wire[<<d, s>>]
    BY <1>0, <1>1, ConcatMove
  <2> QED
    BY <2>1, <2>2, <2>3 DEF Stream
<1>8. Still
  <2> SUFFICES ASSUME NEW q \in Proc, NEW r \in Proc
               PROVE  Stream(q, r)' = Stream(q, r)
    BY DEF Still
  <2>1. CASE q = d /\ r = s
    BY <1>7, <2>1
  <2>2. CASE q # d \/ r # s
    BY <1>6, <2>2 DEF Stream
  <2> QED
    BY <2>1, <2>2
<1> QED
  BY <1>1, <1>4, <1>5, <1>6, <1>8

\* Nobody else sleeps.
LEMMA SleepEffect ==
    ASSUME MailTypes, NEW d \in Proc, NEW s \in Proc, Sleep(d, s)
    PROVE  /\ MailTypes' /\ glue = "panda" /\ glue' = glue /\ hack' = hack /\ queue' = queue /\ Still
           /\ queue[<<d, s>>] = <<>> /\ waiting'[<<d, s>>] = 1
           /\ \A q, r \in Proc : q # d \/ r # s => /\ waiting'[<<q, r>>] = waiting[<<q, r>>]
                                                   /\ asleep'[<<q, r>>] = asleep[<<q, r>>]
<1>1. /\ glue = "panda" /\ glue' = glue /\ hack' = hack /\ wire' = wire /\ queue' = queue
      /\ queue[<<d, s>>] = <<>>
      /\ asleep' = [asleep EXCEPT ![<<d, s>>] = TRUE]
      /\ waiting' = [waiting EXCEPT ![<<d, s>>] = 1]
  BY DEF Sleep
<1>2. waiting'[<<d, s>>] = 1
  BY <1>1, PairFact DEF MailTypes
<1>3. MailTypes'
  <2>1. waiting' \in [Pair -> {0, 1}]
    BY <1>1 DEF MailTypes
  <2>2. asleep' \in [Pair -> BOOLEAN]
    BY <1>1 DEF MailTypes
  <2> QED
    BY <1>1, <2>1, <2>2 DEF MailTypes
<1>4. ASSUME NEW q \in Proc, NEW r \in Proc, q # d \/ r # s
      PROVE  waiting'[<<q, r>>] = waiting[<<q, r>>] /\ asleep'[<<q, r>>] = asleep[<<q, r>>]
  <2>1. <<q, r>> \in Pair /\ <<q, r>> # <<d, s>>
    BY <1>4, PairFact
  <2>2. waiting'[<<q, r>>] = waiting[<<q, r>>]
    BY <1>1, <2>1 DEF MailTypes
  <2>3. asleep'[<<q, r>>] = asleep[<<q, r>>]
    BY <1>1, <2>1 DEF MailTypes
  <2> QED
    BY <2>2, <2>3
<1>5. Still
  BY <1>1 DEF Still, Stream
<1> QED
  BY <1>1, <1>2, <1>3, <1>4, <1>5

-----------------------------------------------------------------------------
(* Programs, and the messages of their calls. *)

LEMMA CallFacts ==
    ASSUME TypeInv
    PROVE  /\ glue \in {"panda", "mpi"} /\ program.glue = glue
           /\ \A p \in Proc :
                  /\ DOMAIN program.calls[p] = 1 .. Len(program.calls[p]) /\ Len(program.calls[p]) \in Nat
                  /\ \A i \in DOMAIN program.calls[p] :
                         /\ program.calls[p][i].op \in {"send", "receive", "barrier"}
                         /\ program.calls[p][i].op = "receive" => program.calls[p][i].peer \in Proc
                         /\ program.calls[p][i].op = "send" =>
                                Destinations(program.calls[p][i].dest) \in Seq(Proc) \ {<<>>}
<1>1. /\ program \in Programs /\ program.glue = glue /\ glue \in {"panda", "mpi"}
      /\ program.calls \in [Proc -> Seq(Call)]
  BY ProgramAssumption DEF TypeInv
<1>2. ASSUME NEW p \in Proc
      PROVE  program.calls[p] \in Seq(Call)
  BY <1>1
<1>3. ASSUME NEW p \in Proc
      PROVE  /\ DOMAIN program.calls[p] = 1 .. Len(program.calls[p]) /\ Len(program.calls[p]) \in Nat
             /\ \A i \in DOMAIN program.calls[p] : program.calls[p][i] \in Call
  BY <1>2, LenProperties, ElementOfSeq
<1>4. ASSUME NEW c \in Call
      PROVE  c.op \in {"send", "receive", "barrier"} /\ (c.op = "receive" => c.peer \in Proc)
  BY DEF Call
<1>5. ASSUME NEW p \in Proc, NEW i \in DOMAIN program.calls[p], program.calls[p][i].op = "send"
      PROVE  Destinations(program.calls[p][i].dest) \in Seq(Proc) \ {<<>>}
  BY <1>1, <1>5, ProgramAssumption
<1> QED
  BY <1>1, <1>3, <1>4, <1>5

\* What is known of a task.
LEMMA TaskFacts ==
    ASSUME TypeInv
    PROVE  /\ Tasks = 1 .. Len(program.tasks) /\ Len(program.tasks) \in Nat
           /\ \A t \in Tasks :
                  /\ Mapping(t) \in Proc /\ program.tasks[t].priority \in Nat
                  /\ DOMAIN program.tasks[t].body = 1 .. Len(program.tasks[t].body)
                  /\ Len(program.tasks[t].body) \in Nat
                  /\ \A i \in DOMAIN program.tasks[t].body :
                         /\ program.tasks[t].body[i].op \in {"tsend", "treceive"}
                         /\ program.tasks[t].body[i].peer \in Tasks
                         /\ DOMAIN program.tasks[t].body[i] = {"op", "peer"}
                         /\ program.tasks[t].body[i] =
                                [op |-> program.tasks[t].body[i].op, peer |-> program.tasks[t].body[i].peer]
<1> DEFINE Task == [mapping : Proc, priority : Nat, body : Seq(TaskCall)]
<1>1. program \in Programs /\ program.tasks \in Seq(Task)
  BY ProgramAssumption DEF TypeInv
<1>2. Tasks = 1 .. Len(program.tasks) /\ Len(program.tasks) \in Nat
  BY <1>1, LenProperties DEF Tasks
<1>3. ASSUME NEW t \in Tasks
      PROVE  program.tasks[t] \in Task
  BY <1>1, <1>2, ElementOfSeq
<1>4. ASSUME NEW t \in Tasks
      PROVE  Mapping(t) \in Proc /\ program.tasks[t].priority \in Nat /\ program.tasks[t].body \in Seq(TaskCall)
  BY <1>3 DEF Mapping
<1>5. ASSUME NEW t \in Tasks
      PROVE  /\ DOMAIN program.tasks[t].body = 1 .. Len(program.tasks[t].body)
             /\ Len(program.tasks[t].body) \in Nat
             /\ \A i \in DOMAIN program.tasks[t].body : program.tasks[t].body[i] \in TaskCall
  BY <1>4, LenProperties, ElementOfSeq
<1>6. ASSUME NEW t \in Tasks, NEW i \in DOMAIN program.tasks[t].body
      PROVE  program.tasks[t].body[i].peer \in Tasks
  BY <1>1, ProgramAssumption DEF Tasks
<1>7. ASSUME NEW c \in TaskCall
      PROVE  /\ c.op \in {"tsend", "treceive"} /\ DOMAIN c = {"op", "peer"}
             /\ c = [op |-> c.op, peer |-> c.peer]
  BY DEF TaskCall
<1> QED
  BY <1>2, <1>4, <1>5, <1>6, <1>7

\* A message that a call sends, as a pair.
LEMMA SendingsFact ==
    ASSUME NEW d, NEW s, NEW x
    PROVE  x \in Sendings(program, d, s) <=>
               /\ x = <<x[1], x[2]>>
               /\ x[1] \in DOMAIN program.calls[s] /\ x[2] \in SendsIn(program, d, s, x[1])
<1>1. ASSUME x \in Sendings(program, d, s)
      PROVE  /\ x = <<x[1], x[2]>>
             /\ x[1] \in DOMAIN program.calls[s] /\ x[2] \in SendsIn(program, d, s, x[1])
  <2>1. PICK i \in DOMAIN program.calls[s] : x \in {i} \X SendsIn(program, d, s, i)
    BY <1>1 DEF Sendings
  <2> QED
    BY <2>1
<1>2. ASSUME x = <<x[1], x[2]>>, x[1] \in DOMAIN program.calls[s], x[2] \in SendsIn(program, d, s, x[1])
      PROVE  x \in Sendings(program, d, s)
  <2>1. <<x[1], x[2]>> \in {x[1]} \X SendsIn(program, d, s, x[1])
    BY <1>2
  <2> QED
    BY <1>2, <2>1 DEF Sendings
<1> QED
  BY <1>1, <1>2

\* There are finitely many,
LEMMA Finitely ==
    ASSUME TypeInv, NEW d \in Proc, NEW s \in Proc
    PROVE  IsFiniteSet(Sendings(program, d, s)) /\ IsFiniteSet(Takings(program, d, s))
<1> DEFINE D == DOMAIN program.calls[s]
           Each == [i \in D |-> {i} \X SendsIn(program, d, s, i)]
           All == {Each[i] : i \in D}
<1>1. D = 1 .. Len(program.calls[s]) /\ Len(program.calls[s]) \in Nat
  BY CallFacts
<1>2. IsFiniteSet(D)
  BY <1>1, FS_Interval
<1>3. ASSUME NEW i \in D
      PROVE  IsFiniteSet(SendsIn(program, d, s, i))
  <2>1. CASE program.calls[s][i].op = "send"
    <3> DEFINE to == Destinations(program.calls[s][i].dest)
    <3>1. to \in Seq(Proc)
      BY <2>1, CallFacts
    <3>2. IsFiniteSet(DOMAIN to)
      BY <3>1, LenProperties, FS_Interval
    <3>3. SendsIn(program, d, s, i) \in SUBSET DOMAIN to
      BY <2>1 DEF SendsIn
    <3> QED
      BY <3>2, <3>3, FS_Subset
  <2>2. CASE program.calls[s][i].op # "send"
    <3>1. SendsIn(program, d, s, i) = {d} \/ SendsIn(program, d, s, i) = {}
      BY <2>2 DEF SendsIn
    <3> QED
      BY <3>1, FS_Singleton, FS_EmptySet
  <2> QED
    BY <2>1, <2>2
<1>4. ASSUME NEW i \in D
      PROVE  IsFiniteSet(Each[i])
  <2>1. IsFiniteSet({i} \X SendsIn(program, d, s, i))
    BY <1>3, FS_Singleton, FS_Product
  <2> QED
    BY <2>1
<1>5. IsFiniteSet(All)
  <2>1. Each \in Surjection(D, All)
    BY DEF Surjection
  <2> QED
    BY <1>2, <2>1, FS_Surjection
<1>6. IsFiniteSet(UNION All)
  BY <1>4, <1>5, FS_UNION
<1>7. Sendings(program, d, s) = UNION All
  BY DEF Sendings
<1>8. IsFiniteSet(DOMAIN program.calls[d])
  BY CallFacts, FS_Interval
<1>9. Takings(program, d, s) \in SUBSET DOMAIN program.calls[d]
  BY DEF Takings
<1> QED
  BY <1>6, <1>7, <1>8, <1>9, FS_Subset

\* and as many are sent as are taken.
LEMMA Counted ==
    ASSUME TypeInv, NEW d \in Proc, NEW s \in Proc
    PROVE  /\ IsFiniteSet(Gave(d, s)) /\ Cardinality(Gave(d, s)) \in Nat
           /\ IsFiniteSet(Took(d, s)) /\ Cardinality(Took(d, s)) \in Nat
           /\ Cardinality(Gave(d, s)) <= Cardinality(Sendings(program, d, s))
           /\ Cardinality(Took(d, s)) <= Cardinality(Takings(program, d, s))
           /\ Cardinality(Took(d, s)) = Cardinality(Takings(program, d, s)) => Took(d, s) = Takings(program, d, s)
           /\ Cardinality(Takings(program, d, s)) \in Nat
           /\ ~Kept(s, d) => Cardinality(Sendings(program, d, s)) = Cardinality(Takings(program, d, s))
<1>1. Gave(d, s) \in SUBSET Sendings(program, d, s) /\ Took(d, s) \in SUBSET Takings(program, d, s)
  BY DEF Gave, Took
<1>2. IsFiniteSet(Gave(d, s)) /\ Cardinality(Gave(d, s)) <= Cardinality(Sendings(program, d, s))
  BY <1>1, Finitely, FS_Subset
<1>3. /\ IsFiniteSet(Took(d, s)) /\ Cardinality(Took(d, s)) <= Cardinality(Takings(program, d, s))
      /\ Cardinality(Took(d, s)) = Cardinality(Takings(program, d, s)) => Took(d, s) = Takings(program, d, s)
  BY <1>1, Finitely, FS_Subset
<1>4. /\ Cardinality(Gave(d, s)) \in Nat /\ Cardinality(Took(d, s)) \in Nat
      /\ Cardinality(Takings(program, d, s)) \in Nat
  BY <1>2, <1>3, Finitely, FS_CardinalityType
<1>5. ~Kept(s, d) => Cardinality(Sendings(program, d, s)) = Cardinality(Takings(program, d, s))
  BY CallFacts, MatchAssumption DEF Kept, TypeInv
<1> QED
  BY <1>2, <1>3, <1>4, <1>5

\* A processor after its calls has taken all,
LEMMA AheadNone ==
    ASSUME TypeInv, NEW d \in Proc, NEW s \in Proc, ~Kept(s, d), at[d] > Len(program.calls[d]),
           Ahead(d, s) >= 0
    PROVE  Ahead(d, s) = 0
<1>0. DOMAIN program.calls[d] = 1 .. Len(program.calls[d]) /\ Len(program.calls[d]) \in Nat /\ at[d] \in Nat
  BY CallFacts DEF TypeInv
<1>1. \A i \in DOMAIN program.calls[d] : i < at[d]
  BY <1>0
<1>2. Took(d, s) = Takings(program, d, s)
  BY <1>1 DEF Took, Takings, Gone
<1> QED
  BY <1>2, Counted DEF Ahead

\* and one that takes a message of a processor after its calls has not.
LEMMA AheadSome ==
    ASSUME TypeInv, NEW d \in Proc, NEW s \in Proc, ~Kept(s, d), at[s] > Len(program.calls[s]),
           NEW i \in Takings(program, d, s), ~Gone(d, s, i)
    PROVE  Ahead(d, s) > 0
<1>0. DOMAIN program.calls[s] = 1 .. Len(program.calls[s]) /\ Len(program.calls[s]) \in Nat /\ at[s] \in Nat
  BY CallFacts DEF TypeInv
<1>1. \A x \in Sendings(program, d, s) : x[1] < at[s]
  BY <1>0, SendingsFact
<1>2. Gave(d, s) = Sendings(program, d, s)
  BY <1>1 DEF Gave, Past
<1>3. i \notin Took(d, s)
  BY DEF Took
<1> QED
  BY <1>2, <1>3, Counted DEF Ahead

\* A step of another kind gives and takes nothing;
SamePast(d, s) == \A i \in DOMAIN program.calls[s] : \A j \in SendsIn(program, d, s, i) :
                      Past(s, i, j)' <=> Past(s, i, j)
SameGone(d, s) == \A i \in Takings(program, d, s) : Gone(d, s, i)' <=> Gone(d, s, i)

\* what was given is the same,
LEMMA GaveSame ==
    ASSUME program' = program, NEW d \in Proc, NEW s \in Proc, SamePast(d, s)
    PROVE  Gave(d, s)' = Gave(d, s)
<1>1. Sendings(program, d, s)' = Sendings(program, d, s)
  OBVIOUS
<1>2. \A x \in Sendings(program, d, s) : Past(s, x[1], x[2])' <=> Past(s, x[1], x[2])
  BY SendingsFact DEF SamePast
<1>3. Gave(d, s)' = {x \in Sendings(program, d, s)' : Past(s, x[1], x[2])'}
  BY DEF Gave
<1> QED
  BY <1>1, <1>2, <1>3 DEF Gave

\* and what was taken;
LEMMA TookSame ==
    ASSUME program' = program, NEW d \in Proc, NEW s \in Proc, SameGone(d, s)
    PROVE  Took(d, s)' = Took(d, s)
<1>1. Takings(program, d, s)' = Takings(program, d, s)
  OBVIOUS
<1>2. Took(d, s)' = {i \in Takings(program, d, s)' : Gone(d, s, i)'}
  BY DEF Took
<1> QED
  BY <1>1, <1>2 DEF Took, SameGone

\* a step that sends gives one message more,
LEMMA GaveMore ==
    ASSUME TypeInv, program' = program, NEW d \in Proc, NEW s \in Proc,
           NEW k \in DOMAIN program.calls[s], NEW l \in SendsIn(program, d, s, k), ~Past(s, k, l),
           \A i \in DOMAIN program.calls[s] : \A j \in SendsIn(program, d, s, i) :
               Past(s, i, j)' <=> (Past(s, i, j) \/ (i = k /\ j = l))
    PROVE  Cardinality(Gave(d, s))' = Cardinality(Gave(d, s)) + 1
<1> DEFINE x0 == <<k, l>>
<1>1. Sendings(program, d, s)' = Sendings(program, d, s)
  OBVIOUS
<1>2. x0 \in Sendings(program, d, s) /\ x0[1] = k /\ x0[2] = l
  BY SendingsFact
<1>3. \A x \in Sendings(program, d, s) : Past(s, x[1], x[2])' <=> (Past(s, x[1], x[2]) \/ x = x0)
  BY SendingsFact
<1>4. Gave(d, s)' = {x \in Sendings(program, d, s)' : Past(s, x[1], x[2])'}
  BY DEF Gave
<1> HIDE DEF x0
<1>5. Gave(d, s)' = Gave(d, s) \union {x0} /\ x0 \notin Gave(d, s)
  BY <1>1, <1>2, <1>3, <1>4 DEF Gave
<1> QED
  BY <1>5, Counted, FS_AddElement

\* and one that takes a message takes one.
LEMMA TookMore ==
    ASSUME TypeInv, program' = program, NEW d \in Proc, NEW s \in Proc,
           NEW k \in Takings(program, d, s), ~Gone(d, s, k),
           \A i \in Takings(program, d, s) : Gone(d, s, i)' <=> (Gone(d, s, i) \/ i = k)
    PROVE  Cardinality(Took(d, s))' = Cardinality(Took(d, s)) + 1
<1>1. Takings(program, d, s)' = Takings(program, d, s)
  OBVIOUS
<1>2. Took(d, s)' = {i \in Takings(program, d, s)' : Gone(d, s, i)'}
  BY DEF Took
<1>3. Took(d, s)' = Took(d, s) \union {k} /\ k \notin Took(d, s)
  BY <1>1, <1>2 DEF Took
<1> QED
  BY <1>3, Counted, FS_AddElement

\* Where a processor does nothing, or has done its calls, nothing changes.
LEMMA PastStays ==
    ASSUME TypeInv, program' = program, NEW d \in Proc, NEW s \in Proc, at'[s] = at[s],
           \/ loop'[s] = loop[s] /\ pc'[s] = pc[s]
           \/ at[s] > Len(program.calls[s])
    PROVE  SamePast(d, s) /\ SameGone(s, d)
<1>0. DOMAIN program.calls[s] = 1 .. Len(program.calls[s]) /\ Len(program.calls[s]) \in Nat /\ at[s] \in Nat
  BY CallFacts DEF TypeInv
<1>1. CASE loop'[s] = loop[s] /\ pc'[s] = pc[s]
  <2>1. ASSUME NEW i, NEW j
        PROVE  Past(s, i, j)' <=> Past(s, i, j)
    <3>1. CASE s = 0
      BY <1>1, <3>1 DEF Past, Arg
    <3>2. CASE s # 0
      BY <1>1, <3>2 DEF Past, Arg
    <3> QED
      BY <3>1, <3>2
  <2>2. ASSUME NEW i
        PROVE  Gone(s, d, i)' <=> Gone(s, d, i)
    BY <1>1 DEF Gone
  <2> QED
    BY <2>1, <2>2 DEF SamePast, SameGone
<1>2. CASE at[s] > Len(program.calls[s])
  <2>1. \A i \in DOMAIN program.calls[s] : i < at[s]
    BY <1>0, <1>2
  <2>2. SamePast(d, s)
    BY <2>1 DEF SamePast, Past
  <2>3. \A i \in Takings(program, s, d) : i < at[s]
    BY <2>1 DEF Takings
  <2> QED
    BY <2>2, <2>3 DEF SameGone, Gone
<1> QED
  BY <1>1, <1>2

-----------------------------------------------------------------------------
(* What a step of processor p leaves alone. *)

Elsewhere(p) ==
    /\ program' = program /\ glue' = glue
    /\ \A q \in Proc : q # p =>
           /\ pc'[q] = pc[q] /\ at'[q] = at[q] /\ loop'[q] = loop[q]
           /\ theTaskQueue'[q] = theTaskQueue[q] /\ next'[q] = next[q]
           /\ step'[q] = step[q] /\ theQueue'[q] = theQueue[q]

\* p is in a call, or with its tasks.
CallStep(p) ==
    /\ Elsewhere(p) /\ UNCHANGED taskVars
    /\ at[p] <= Len(program.calls[p]) /\ at'[p] \in {at[p], at[p] + 1}
    /\ pc[p] \in {"run", "barrier", "release"} /\ pc'[p] \in {"run", "barrier", "release", "error"}
TaskStep(p) ==
    /\ Elsewhere(p) /\ UNCHANGED callVars
    /\ at[p] > Len(program.calls[p])
    /\ pc[p] \in AtWork \union {"run"} /\ pc'[p] \in AtWork \union {"run", "done", "error"}

Local(p) == CallInv(p) /\ TaskInv(p) /\ SortedInv(p) /\ EarlyInv(p)

\* Of the other processors,
LEMMA OthersLocal ==
    ASSUME NEW p \in Proc, Elsewhere(p), NEW q \in Proc, q # p, Local(q)
    PROVE  Local(q)'
<1>1. /\ program' = program /\ glue' = glue /\ pc'[q] = pc[q] /\ at'[q] = at[q] /\ loop'[q] = loop[q]
      /\ theTaskQueue'[q] = theTaskQueue[q] /\ next'[q] = next[q]
      /\ step'[q] = step[q] /\ theQueue'[q] = theQueue[q]
  BY DEF Elsewhere
<1>2. CallInv(q) /\ TaskInv(q) /\ SortedInv(q) /\ EarlyInv(q)
  BY DEF Local
<1>3. CallInv(q)'
  BY <1>1, <1>2 DEF CallInv, InCall, Arg
<1>4. TaskInv(q)'
  BY <1>1, <1>2 DEF TaskInv, AllAdded, Current, Body, Mapping
<1>5. SortedInv(q)'
  BY <1>1, <1>2 DEF SortedInv, Precedes
<1>6. EarlyInv(q)'
  BY <1>1, <1>2 DEF EarlyInv, Tasks, Mapping, Matches, Peer, Body, Current
<1> QED
  BY <1>3, <1>4, <1>5, <1>6 DEF Local

\* and what they wait for.
LEMMA OthersAwait ==
    ASSUME NEW p \in Proc, Elsewhere(p), NEW q \in Proc, q # p
    PROVE  Awaited(q)' = Awaited(q)
<1>1. /\ program' = program /\ glue' = glue /\ pc'[q] = pc[q] /\ at'[q] = at[q] /\ loop'[q] = loop[q]
      /\ theTaskQueue'[q] = theTaskQueue[q] /\ next'[q] = next[q] /\ step'[q] = step[q]
  BY DEF Elsewhere
<1>2. InCall(q, "receive")' = InCall(q, "receive") /\ Arg(q)' = Arg(q)
  BY <1>1 DEF InCall, Arg
<1>3. Mapping(Peer(q))' = Mapping(Peer(q))
  BY <1>1 DEF Mapping, Peer, Body, Current
<1> QED
  BY <1>1, <1>2, <1>3 DEF Awaited

\* Who acts does not sleep.
SleepInvs == \A p, s \in Proc : SleepInv(p, s)

\* Nobody sleeps because of it, and nobody that sleeps is disturbed.
LEMMA SleepStays ==
    ASSUME SleepInvs, NEW p \in Proc, Elsewhere(p), asleep' = asleep,
           \A s \in Proc : ~asleep[<<p, s>>], glue = "mpi" => queue' = queue,
           \A q, s \in Proc : q # p => /\ queue'[<<q, s>>] = queue[<<q, s>>]
                                       /\ waiting'[<<q, s>>] = waiting[<<q, s>>]
    PROVE  SleepInvs'
<1> SUFFICES ASSUME NEW q \in Proc, NEW s \in Proc
             PROVE  SleepInv(q, s)'
  BY DEF SleepInvs
<1>0. glue' = glue /\ SleepInv(q, s)
  BY DEF Elsewhere, SleepInvs
<1>1. CASE q = p
  BY <1>0, <1>1 DEF SleepInv
<1>2. CASE q # p
  <2>1. Awaited(q)' = Awaited(q)
    BY <1>2, OthersAwait
  <2> QED
    BY <1>0, <1>2, <2>1 DEF SleepInv
<1> QED
  BY <1>1, <1>2

\* A call does nothing to the tasks of p,
LEMMA CallStepTasks ==
    ASSUME TypeInv, NEW p \in Proc, CallStep(p), TaskInv(p), SortedInv(p), EarlyInv(p)
    PROVE  TaskInv(p)' /\ SortedInv(p)' /\ EarlyInv(p)'
<1>1. /\ program' = program /\ theTaskQueue' = theTaskQueue /\ next' = next /\ step' = step
      /\ theQueue' = theQueue /\ received' = received
      /\ pc'[p] \notin AtWork /\ pc'[p] # "done"
  BY DEF CallStep, Elsewhere, taskVars, AtWork
<1>2. at[p] \in Nat /\ Len(program.calls[p]) \in Nat
  BY CallFacts DEF TypeInv
<1>3. at[p] > Len(program.calls[p]) => at'[p] > Len(program.calls[p])
  BY <1>2 DEF CallStep
<1>4. TaskInv(p)'
  BY <1>1, <1>3 DEF TaskInv, AllAdded, AtWork
<1>5. SortedInv(p)'
  BY <1>1 DEF SortedInv, Precedes
<1>6. EarlyInv(p)'
  BY <1>1 DEF EarlyInv, Tasks, Mapping, AtWork
<1> QED
  BY <1>4, <1>5, <1>6

\* and the tasks do nothing to the calls.
LEMMA TaskStepCalls ==
    ASSUME TypeInv, NEW p \in Proc, TaskStep(p), CallInv(p)
    PROVE  CallInv(p)'
<1>1. /\ program' = program /\ at' = at /\ loop' = loop /\ glue' = glue
      /\ pc'[p] \notin {"barrier", "release"} /\ at[p] > Len(program.calls[p])
  BY DEF TaskStep, Elsewhere, callVars, AtWork
<1>2. at[p] \in Nat /\ Len(program.calls[p]) \in Nat
  BY CallFacts DEF TypeInv
<1> QED
  BY <1>1, <1>2 DEF CallInv, InCall

-----------------------------------------------------------------------------
(* The calls. *)

Ready(p) == TypeInv /\ SleepInvs /\ Local(p)
After(p) == TypeInv' /\ CallStep(p) /\ CallInv(p)' /\ SleepInvs'

\* The types of what a call leaves alone.
LEMMA CallTypes ==
    ASSUME TypeInv, MailTypes', program' = program, glue' = glue, UNCHANGED taskVars,
           pc' \in [Proc -> Place], at' \in [Proc -> Nat \ {0}], loop' \in [Proc -> Nat \ {0}],
           enter' \in [Proc -> Nat], leave' \in [Proc -> Nat]
    PROVE  TypeInv'
<1>1. Tasks' = Tasks /\ theTaskQueue' = theTaskQueue /\ next' = next /\ step' = step
      /\ theQueue' = theQueue /\ received' = received
  BY DEF Tasks, taskVars
<1> QED
  BY <1>1 DEF TypeInv

\* A processor that is not at a receive waits for nobody.
LEMMA Awake ==
    ASSUME SleepInvs, NEW p \in Proc, Awaited(p) = {}
    PROVE  \A s \in Proc : ~asleep[<<p, s>>]
  BY DEF SleepInvs, SleepInv

\* One that has received of the only processor it waits for sleeps nowhere.
LEMMA AwakeFor ==
    ASSUME SleepInvs, NEW p \in Proc, NEW s \in Proc, Awaited(p) = {s}, glue = "panda" => ~asleep[<<p, s>>],
           glue \in {"panda", "mpi"}
    PROVE  \A t \in Proc : ~asleep[<<p, t>>]
  BY DEF SleepInvs, SleepInv

\* A send goes to a processor.
LEMMA SendTo1 ==
    ASSUME TypeInv, NEW p \in Proc, CallInv(p), pc[p] = "run", InCall(p, "send")
    PROVE  /\ Destinations(Arg(p).dest) \in Seq(Proc) /\ loop[p] \in DOMAIN Destinations(Arg(p).dest)
           /\ Destinations(Arg(p).dest)[loop[p]] \in Proc
           /\ Len(Destinations(Arg(p).dest)) \in Nat
           /\ DOMAIN Destinations(Arg(p).dest) = 1 .. Len(Destinations(Arg(p).dest))
           /\ at[p] \in DOMAIN program.calls[p]
<1>1. at[p] \in DOMAIN program.calls[p] /\ Arg(p) = program.calls[p][at[p]] /\ Arg(p).op = "send"
  <2>1. at[p] \in Nat \ {0} /\ Len(program.calls[p]) \in Nat /\ DOMAIN program.calls[p] = 1 .. Len(program.calls[p])
    BY CallFacts DEF TypeInv
  <2> QED
    BY <2>1 DEF InCall, Arg
<1>2. PICK to : to = Destinations(Arg(p).dest)
  OBVIOUS
<1>3. to \in Seq(Proc) /\ loop[p] \in 1 .. Len(to)
  BY <1>1, <1>2, CallFacts DEF CallInv
<1>4. DOMAIN to = 1 .. Len(to) /\ Len(to) \in Nat /\ to[loop[p]] \in Proc
  BY <1>3, LenProperties, ElementOfSeq
<1> QED
  BY <1>1, <1>2, <1>3, <1>4

\* There is a place for the next call.
LEMMA NextCall ==
    ASSUME TypeInv, NEW p \in Proc, at[p] <= Len(program.calls[p])
    PROVE  at[p] \in DOMAIN program.calls[p] /\ at[p] + 1 \in Nat \ {0} /\ at[p] + 1 <= Len(program.calls[p]) + 1
<1>1. at[p] \in Nat \ {0} /\ Len(program.calls[p]) \in Nat /\ DOMAIN program.calls[p] = 1 .. Len(program.calls[p])
  BY CallFacts DEF TypeInv
<1> QED
  BY <1>1

\* The next call begins with the first index.
LEMMA Returned ==
    ASSUME TypeInv, TypeInv', NEW p \in Proc, program' = program, at'[p] <= Len(program.calls[p]) + 1,
           loop'[p] = 1, pc'[p] \in {"run", "error"}
    PROVE  CallInv(p)'
<1>1. at'[p] \in Nat \ {0} /\ Len(program.calls[p]) \in Nat /\ DOMAIN program.calls[p] = 1 .. Len(program.calls[p])
  BY CallFacts DEF TypeInv
<1>2. ASSUME InCall(p, "send")'
      PROVE  loop'[p] \in 1 .. Len(Destinations(Arg(p)'.dest))
  <2>1. at'[p] \in DOMAIN program.calls[p] /\ Arg(p)' = program.calls[p][at'[p]] /\ Arg(p)'.op = "send"
    BY <1>1, <1>2 DEF InCall, Arg
  <2>2. PICK to : to = Destinations(Arg(p)'.dest)
    OBVIOUS
  <2>3. to \in Seq(Proc) /\ to # <<>>
    BY <2>1, <2>2, CallFacts
  <2>4. Len(to) \in Nat /\ Len(to) >= 1
    BY <2>3, HeadTail
  <2> QED
    BY <2>2, <2>4
<1> QED
  BY <1>2 DEF CallInv, Arg

\* The steps of the calls: vnus_send,
LEMMA SendStep ==
    ASSUME NEW p \in Proc, Ready(p), Send(p)
    PROVE  After(p)
<1> DEFINE to == Destinations(Arg(p).dest)
<1>1. TypeInv /\ SleepInvs /\ CallInv(p) /\ pc[p] = "run" /\ InCall(p, "send")
  BY DEF Ready, Local, Send
<1>2. /\ SendReal(p, to[loop[p]], [what |-> "data"])
      /\ program' = program /\ pc' = pc /\ enter' = enter /\ leave' = leave /\ UNCHANGED taskVars
  BY DEF Send
<1>3. /\ to[loop[p]] \in Proc /\ loop[p] \in Nat /\ loop[p] \in 1 .. Len(to)
      /\ at[p] <= Len(program.calls[p]) /\ at[p] + 1 <= Len(program.calls[p]) + 1
      /\ at[p] + 1 \in Nat \ {0} /\ at[p] \in Nat \ {0} /\ Len(program.calls[p]) \in Nat
  BY <1>1, SendTo1, NextCall, CallFacts DEF InCall, TypeInv
<1>4. [what |-> "data"] \in Msg
  BY DEF Msg, Plain
<1> HIDE DEF to
<1>5. MailTypes /\ MailTypes' /\ glue' = glue /\ queue' = queue /\ waiting' = waiting /\ asleep' = asleep
  BY <1>1, <1>2, <1>3, <1>4, SendEffect DEF TypeInv
<1>6. \/ loop[p] = Len(to) /\ at' = [at EXCEPT ![p] = @ + 1] /\ loop' = [loop EXCEPT ![p] = 1]
      \/ loop[p] # Len(to) /\ loop' = [loop EXCEPT ![p] = @ + 1] /\ at' = at
  BY DEF Send, Return, to
<1>7. at' \in [Proc -> Nat \ {0}] /\ loop' \in [Proc -> Nat \ {0}]
  <2>1. at \in [Proc -> Nat \ {0}] /\ loop \in [Proc -> Nat \ {0}]
    BY <1>1 DEF TypeInv
  <2>2. CASE at' = [at EXCEPT ![p] = @ + 1] /\ loop' = [loop EXCEPT ![p] = 1]
    BY <1>3, <2>1, <2>2
  <2>3. CASE loop' = [loop EXCEPT ![p] = @ + 1] /\ at' = at
    <3>1. loop[p] + 1 \in Nat \ {0}
      BY <1>3
    <3> QED
      BY <2>1, <2>3, <3>1
  <2> QED
    BY <1>6, <2>2, <2>3
<1>8. TypeInv'
  BY <1>1, <1>2, <1>5, <1>7, CallTypes DEF TypeInv
<1>9. Elsewhere(p)
  <2>1. \A q \in Proc : q # p => at'[q] = at[q] /\ loop'[q] = loop[q]
    BY <1>1, <1>6 DEF TypeInv
  <2> QED
    BY <1>2, <1>5, <2>1 DEF Elsewhere, taskVars
<1>10. CallStep(p)
  <2>1. at'[p] \in {at[p], at[p] + 1}
    BY <1>1, <1>6 DEF TypeInv
  <2> QED
    BY <1>1, <1>2, <1>3, <1>9, <2>1 DEF CallStep
<1>11. CallInv(p)'
  <2>1. CASE loop[p] = Len(to)
    <3>1. at'[p] = at[p] + 1 /\ loop'[p] = 1 /\ pc'[p] = "run"
      BY <1>1, <1>2, <1>6, <2>1 DEF TypeInv
    <3> QED
      BY <1>1, <1>2, <1>3, <1>8, <3>1, Returned
  <2>2. CASE loop[p] # Len(to)
    <3>1. at' = at /\ loop'[p] = loop[p] + 1 /\ pc'[p] = "run" /\ glue' = glue /\ program' = program
      BY <1>1, <1>2, <1>5, <1>6, <2>2 DEF TypeInv
    <3>2. loop[p] + 1 \in 1 .. Len(to)
      BY <1>3, <2>2
    <3>3. InCall(p, "send") /\ InCall(p, "send")' /\ Arg(p)' = Arg(p)
      BY <1>1, <3>1 DEF InCall, Arg
    <3>4. ~InCall(p, "barrier")'
      BY <1>1, <3>1 DEF InCall
    <3> QED
      BY <1>3, <3>1, <3>2, <3>3, <3>4 DEF CallInv, to
  <2> QED
    BY <2>1, <2>2
<1>12. SleepInvs'
  <2>1. Awaited(p) = {}
    BY <1>1 DEF Awaited, InCall
  <2>2. \A s \in Proc : ~asleep[<<p, s>>]
    BY <1>1, <2>1, Awake
  <2> QED
    BY <1>1, <1>5, <1>9, <2>2, SleepStays
<1> QED
  BY <1>8, <1>10, <1>11, <1>12 DEF After

\* vnus_receive,
LEMMA ReceiveStep ==
    ASSUME NEW p \in Proc, Ready(p), Receive(p)
    PROVE  After(p) /\ Arg(p).peer \in Proc
<1>1. TypeInv /\ SleepInvs /\ CallInv(p) /\ pc[p] = "run" /\ InCall(p, "receive") /\ glue \in {"panda", "mpi"}
  BY CallFacts DEF Ready, Local, Receive
<1>2. /\ VnusReceive(p, Arg(p).peer)
      /\ program' = program /\ enter' = enter /\ leave' = leave /\ UNCHANGED taskVars
  BY DEF Receive
<1>3. /\ at[p] \in DOMAIN program.calls[p] /\ at[p] <= Len(program.calls[p]) /\ at[p] \in Nat \ {0}
      /\ at[p] + 1 <= Len(program.calls[p]) + 1 /\ at[p] + 1 \in Nat \ {0} /\ Len(program.calls[p]) \in Nat
  BY <1>1, NextCall, CallFacts DEF InCall, TypeInv
<1>4. PICK s \in Proc : s = Arg(p).peer
  BY <1>1, <1>3, CallFacts DEF InCall, Arg
<1>5. /\ MailTypes /\ MailTypes' /\ glue' = glue /\ asleep' = asleep
      /\ glue = "panda" => ~asleep[<<p, s>>]
      /\ glue = "mpi" => queue' = queue
      /\ \A q, r \in Proc : q # p => /\ queue'[<<q, r>>] = queue[<<q, r>>]
                                     /\ waiting'[<<q, r>>] = waiting[<<q, r>>]
  <2>1. MailTypes /\ (glue = "mpi" => queue[<<p, s>>] = <<>>)
    BY <1>1 DEF TypeInv, SleepInvs, SleepInv
  <2> QED
    BY <1>1, <1>2, <1>4, <2>1, ReceiveEffect
<1>6. \/ pc' = [pc EXCEPT ![p] = "error"] /\ at' = at /\ loop' = loop
      \/ pc' = pc /\ at' = [at EXCEPT ![p] = @ + 1] /\ loop' = [loop EXCEPT ![p] = 1]
  BY DEF Receive, Return, Goto
<1>7. at' \in [Proc -> Nat \ {0}] /\ loop' \in [Proc -> Nat \ {0}] /\ pc' \in [Proc -> Place]
  <2>1. at \in [Proc -> Nat \ {0}] /\ loop \in [Proc -> Nat \ {0}] /\ pc \in [Proc -> Place] /\ "error" \in Place
    BY <1>1 DEF TypeInv, Place
  <2>2. CASE pc' = [pc EXCEPT ![p] = "error"] /\ at' = at /\ loop' = loop
    BY <2>1, <2>2
  <2>3. CASE pc' = pc /\ at' = [at EXCEPT ![p] = @ + 1] /\ loop' = [loop EXCEPT ![p] = 1]
    BY <1>3, <2>1, <2>3
  <2> QED
    BY <1>6, <2>2, <2>3
<1>8. TypeInv'
  BY <1>1, <1>2, <1>5, <1>7, CallTypes DEF TypeInv
<1>9. Elsewhere(p)
  <2>1. \A q \in Proc : q # p => at'[q] = at[q] /\ loop'[q] = loop[q] /\ pc'[q] = pc[q]
    BY <1>1, <1>6 DEF TypeInv
  <2> QED
    BY <1>2, <1>5, <2>1 DEF Elsewhere, taskVars
<1>10. CallStep(p)
  <2>1. at'[p] \in {at[p], at[p] + 1} /\ pc'[p] \in {"run", "error"}
    BY <1>1, <1>6 DEF TypeInv
  <2> QED
    BY <1>1, <1>2, <1>3, <1>9, <2>1 DEF CallStep
<1>11. CallInv(p)'
  <2>1. CASE pc' = [pc EXCEPT ![p] = "error"] /\ at' = at /\ loop' = loop
    <3>1. pc'[p] = "error" /\ at'[p] = at[p] /\ program' = program
      BY <1>1, <1>2, <2>1 DEF TypeInv
    <3> QED
      BY <1>3, <3>1 DEF CallInv
  <2>2. CASE pc' = pc /\ at' = [at EXCEPT ![p] = @ + 1] /\ loop' = [loop EXCEPT ![p] = 1]
    <3>1. at'[p] = at[p] + 1 /\ loop'[p] = 1 /\ pc'[p] = "run"
      BY <1>1, <2>2 DEF TypeInv
    <3> QED
      BY <1>1, <1>2, <1>3, <1>8, <3>1, Returned
  <2> QED
    BY <1>6, <2>1, <2>2
<1>12. SleepInvs'
  <2>1. Awaited(p) = {s}
    BY <1>1, <1>4 DEF Awaited
  <2>2. \A t \in Proc : ~asleep[<<p, t>>]
    BY <1>1, <1>5, <2>1, AwakeFor
  <2> QED
    BY <1>1, <1>5, <1>9, <2>2, SleepStays
<1> QED
  BY <1>4, <1>8, <1>10, <1>11, <1>12 DEF After

\* Processor 0 collects the bytes of a barrier.
LEMMA Zero == 0 \in Proc /\ N \in Nat \ {0}
  BY NAssumption DEF Proc

\* The messages of calls are plain.
LEMMA ByteMsg == [what |-> "byte"] \in Msg /\ [what |-> "data"] \in Msg /\ [what |-> "byte"] \in Plain /\ [what |-> "data"] \in Plain
  BY DEF Msg, Plain

\* the byte of another processor,
LEMMA BarrierSendStep ==
    ASSUME NEW p \in Proc, Ready(p), BarrierSend(p)
    PROVE  After(p)
<1>1. /\ TypeInv /\ SleepInvs /\ CallInv(p) /\ pc[p] = "run" /\ InCall(p, "barrier") /\ glue = "panda" /\ p # 0
      /\ pc \in [Proc -> Place] /\ at \in [Proc -> Nat \ {0}] /\ loop \in [Proc -> Nat \ {0}]
      /\ enter \in [Proc -> Nat] /\ leave \in [Proc -> Nat] /\ MailTypes /\ "barrier" \in Place
  BY DEF Ready, Local, BarrierSend, TypeInv, Place
<1>2. /\ SendReal(p, 0, [what |-> "byte"])
      /\ program' = program /\ at' = at /\ loop' = loop /\ leave' = leave /\ UNCHANGED taskVars
      /\ enter' = [enter EXCEPT ![p] = @ + 1] /\ pc' = [pc EXCEPT ![p] = "barrier"]
  BY DEF BarrierSend, Goto
<1>3. MailTypes' /\ glue' = glue /\ queue' = queue /\ waiting' = waiting /\ asleep' = asleep
  BY <1>1, <1>2, Zero, ByteMsg, SendEffect
<1>4. enter' \in [Proc -> Nat] /\ pc' \in [Proc -> Place]
  BY <1>1, <1>2
<1>5. TypeInv'
  BY <1>1, <1>2, <1>3, <1>4, CallTypes
<1>6. Elsewhere(p) /\ pc'[p] = "barrier"
  BY <1>1, <1>2, <1>3 DEF Elsewhere, taskVars
<1>7. CallStep(p)
  BY <1>1, <1>2, <1>6 DEF CallStep, InCall
<1>8. CallInv(p)'
  <2>1. InCall(p, "barrier")' /\ at[p] <= Len(program.calls[p]) + 1
    BY <1>1, <1>2 DEF InCall, CallInv
  <2> QED
    BY <1>1, <1>2, <1>6, <2>1 DEF CallInv
<1>9. SleepInvs'
  <2>1. Awaited(p) = {}
    BY <1>1 DEF Awaited, InCall
  <2>2. \A s \in Proc : ~asleep[<<p, s>>]
    BY <1>1, <2>1, Awake
  <2> QED
    BY <1>1, <1>3, <1>6, <2>2, SleepStays
<1> QED
  BY <1>5, <1>7, <1>8, <1>9 DEF After

\* the answer to it,
LEMMA BarrierAnswerStep ==
    ASSUME NEW p \in Proc, Ready(p), BarrierAnswer(p)
    PROVE  After(p)
<1>1. /\ TypeInv /\ SleepInvs /\ CallInv(p) /\ pc[p] = "barrier" /\ glue = "panda" /\ p # 0
      /\ pc \in [Proc -> Place] /\ at \in [Proc -> Nat \ {0}] /\ loop \in [Proc -> Nat \ {0}]
      /\ enter \in [Proc -> Nat] /\ leave \in [Proc -> Nat] /\ MailTypes /\ "run" \in Place
  BY DEF Ready, Local, BarrierAnswer, TypeInv, Place
<1>2. /\ Take(p, 0)
      /\ program' = program /\ enter' = enter /\ UNCHANGED taskVars
      /\ leave' = [leave EXCEPT ![p] = @ + 1] /\ pc' = [pc EXCEPT ![p] = "run"]
      /\ at' = [at EXCEPT ![p] = @ + 1] /\ loop' = [loop EXCEPT ![p] = 1]
  BY DEF BarrierAnswer, Goto, Return
<1>3. /\ at[p] <= Len(program.calls[p]) /\ at[p] + 1 <= Len(program.calls[p]) + 1 /\ at[p] + 1 \in Nat \ {0}
      /\ InCall(p, "barrier")
  BY <1>1, NextCall DEF InCall, CallInv
<1>4. /\ MailTypes' /\ glue' = glue /\ asleep' = asleep /\ ~asleep[<<p, 0>>]
      /\ \A q, r \in Proc : q # p => /\ queue'[<<q, r>>] = queue[<<q, r>>]
                                     /\ waiting'[<<q, r>>] = waiting[<<q, r>>]
  BY <1>1, <1>2, Zero, TakeEffect
<1>5. /\ leave' \in [Proc -> Nat] /\ pc' \in [Proc -> Place]
      /\ at' \in [Proc -> Nat \ {0}] /\ loop' \in [Proc -> Nat \ {0}]
  BY <1>1, <1>2, <1>3
<1>6. TypeInv'
  BY <1>1, <1>2, <1>4, <1>5, CallTypes
<1>7. Elsewhere(p) /\ pc'[p] = "run" /\ at'[p] = at[p] + 1 /\ loop'[p] = 1
  BY <1>1, <1>2, <1>4 DEF Elsewhere, taskVars
<1>8. CallStep(p)
  BY <1>1, <1>2, <1>3, <1>7 DEF CallStep
<1>9. CallInv(p)'
  BY <1>1, <1>2, <1>3, <1>6, <1>7, Returned
<1>10. SleepInvs'
  <2>1. Awaited(p) = {0}
    BY <1>1 DEF Awaited
  <2>2. \A s \in Proc : ~asleep[<<p, s>>]
    BY <1>1, <1>4, <2>1, Zero, AwakeFor
  <2> QED
    BY <1>1, <1>4, <1>7, <2>2, SleepStays
<1> QED
  BY <1>6, <1>8, <1>9, <1>10 DEF After

\* processor 0 that enters,
LEMMA BarrierEnter0Step ==
    ASSUME Ready(0), BarrierEnter0
    PROVE  After(0)
<1>0. 0 \in Proc /\ N \in Nat \ {0}
  BY Zero
<1>1. /\ TypeInv /\ SleepInvs /\ CallInv(0) /\ pc[0] = "run" /\ InCall(0, "barrier") /\ glue = "panda"
      /\ pc \in [Proc -> Place] /\ at \in [Proc -> Nat \ {0}] /\ loop \in [Proc -> Nat \ {0}]
      /\ enter \in [Proc -> Nat] /\ leave \in [Proc -> Nat] /\ MailTypes
      /\ "barrier" \in Place /\ "release" \in Place /\ loop[0] = 1
  BY <1>0 DEF Ready, Local, BarrierEnter0, TypeInv, Place, CallInv
<1>2. /\ program' = program /\ at' = at /\ loop' = loop /\ leave' = leave /\ UNCHANGED taskVars
      /\ enter' = [enter EXCEPT ![0] = @ + 1]
      /\ pc' = [pc EXCEPT ![0] = IF N = 1 THEN "release" ELSE "barrier"]
      /\ wire' = wire /\ queue' = queue /\ waiting' = waiting /\ asleep' = asleep /\ hack' = hack /\ glue' = glue
  BY DEF BarrierEnter0, Goto, mailVars
<1>3. MailTypes'
  BY <1>1, <1>2 DEF MailTypes
<1>4. enter' \in [Proc -> Nat] /\ pc' \in [Proc -> Place]
  BY <1>0, <1>1, <1>2
<1>5. TypeInv'
  BY <1>1, <1>2, <1>3, <1>4, CallTypes
<1>6. Elsewhere(0) /\ pc'[0] = IF N = 1 THEN "release" ELSE "barrier"
  BY <1>0, <1>1, <1>2 DEF Elsewhere, taskVars
<1>7. CallStep(0)
  BY <1>1, <1>2, <1>6 DEF CallStep, InCall
<1>8. CallInv(0)'
  <2>1. InCall(0, "barrier")' /\ at[0] <= Len(program.calls[0]) + 1
    BY <1>1, <1>2 DEF InCall, CallInv
  <2> QED
    BY <1>0, <1>1, <1>2, <1>6, <2>1 DEF CallInv
<1>9. SleepInvs'
  <2>1. Awaited(0) = {}
    BY <1>1 DEF Awaited, InCall
  <2>2. \A s \in Proc : ~asleep[<<0, s>>]
    BY <1>0, <1>1, <2>1, Awake
  <2> QED
    BY <1>0, <1>1, <1>2, <1>6, <2>2, SleepStays
<1> QED
  BY <1>5, <1>7, <1>8, <1>9 DEF After

\* collects,
LEMMA BarrierCollectStep ==
    ASSUME Ready(0), BarrierCollect
    PROVE  After(0) /\ loop[0] \in Proc /\ loop[0] # 0
<1>0. 0 \in Proc /\ N \in Nat \ {0}
  BY Zero
<1>1. /\ TypeInv /\ SleepInvs /\ CallInv(0) /\ pc[0] = "barrier" /\ glue = "panda"
      /\ pc \in [Proc -> Place] /\ at \in [Proc -> Nat \ {0}] /\ loop \in [Proc -> Nat \ {0}]
      /\ enter \in [Proc -> Nat] /\ leave \in [Proc -> Nat] /\ MailTypes
      /\ "release" \in Place /\ loop[0] \in 1 .. N - 1 /\ InCall(0, "barrier")
  BY DEF Ready, Local, BarrierCollect, TypeInv, Place, CallInv
<1>2. /\ Take(0, loop[0])
      /\ program' = program /\ at' = at /\ enter' = enter /\ leave' = leave /\ UNCHANGED taskVars
  BY DEF BarrierCollect
<1>3. \/ loop[0] = N - 1 /\ pc' = [pc EXCEPT ![0] = "release"] /\ loop' = [loop EXCEPT ![0] = 1]
      \/ loop[0] # N - 1 /\ pc' = pc /\ loop' = [loop EXCEPT ![0] = @ + 1]
  BY DEF BarrierCollect, Goto
<1>4. PICK s \in Proc : s = loop[0] /\ s # 0 /\ s + 1 \in Nat \ {0}
  BY <1>0, <1>1 DEF Proc
<1>5. /\ MailTypes' /\ glue' = glue /\ asleep' = asleep /\ ~asleep[<<0, s>>]
      /\ \A q, r \in Proc : q # 0 => /\ queue'[<<q, r>>] = queue[<<q, r>>]
                                     /\ waiting'[<<q, r>>] = waiting[<<q, r>>]
  BY <1>0, <1>1, <1>2, <1>4, TakeEffect
<1>6. /\ loop' \in [Proc -> Nat \ {0}] /\ pc' \in [Proc -> Place]
      /\ pc'[0] \in {"barrier", "release"}
      /\ \A q \in Proc : q # 0 => loop'[q] = loop[q] /\ pc'[q] = pc[q]
      /\ loop[0] = N - 1 => pc'[0] = "release" /\ loop'[0] = 1
      /\ loop[0] # N - 1 => pc'[0] = "barrier" /\ loop'[0] = loop[0] + 1
  <2>1. CASE loop[0] = N - 1 /\ pc' = [pc EXCEPT ![0] = "release"] /\ loop' = [loop EXCEPT ![0] = 1]
    BY <1>0, <1>1, <2>1
  <2>2. CASE loop[0] # N - 1 /\ pc' = pc /\ loop' = [loop EXCEPT ![0] = @ + 1]
    BY <1>0, <1>1, <1>4, <2>2
  <2> QED
    BY <1>3, <2>1, <2>2
<1>7. TypeInv'
  BY <1>1, <1>2, <1>5, <1>6, CallTypes
<1>8. Elsewhere(0)
  BY <1>1, <1>2, <1>5, <1>6 DEF Elsewhere, taskVars
<1>9. CallStep(0)
  BY <1>1, <1>2, <1>6, <1>8 DEF CallStep, InCall
<1>10. CallInv(0)'
  <2>1. InCall(0, "barrier")' /\ at[0] <= Len(program.calls[0]) + 1
    BY <1>1, <1>2 DEF InCall, CallInv
  <2>2. loop[0] # N - 1 => loop[0] + 1 \in 1 .. N - 1
    BY <1>0, <1>1
  <2>3. 1 \in 1 .. N
    BY <1>0
  <2> QED
    BY <1>0, <1>1, <1>2, <1>5, <1>6, <2>1, <2>2, <2>3 DEF CallInv
<1>11. SleepInvs'
  <2>1. Awaited(0) = {s}
    BY <1>1, <1>4 DEF Awaited
  <2>2. \A t \in Proc : ~asleep[<<0, t>>]
    BY <1>0, <1>1, <1>5, <2>1, AwakeFor
  <2> QED
    BY <1>0, <1>1, <1>5, <1>8, <2>2, SleepStays
<1> QED
  BY <1>4, <1>7, <1>9, <1>10, <1>11 DEF After

\* and answers,
LEMMA BarrierReleaseStep ==
    ASSUME Ready(0), BarrierRelease
    PROVE  After(0) /\ (loop[0] < N => loop[0] \in Proc /\ loop[0] # 0)
<1>0. 0 \in Proc /\ N \in Nat \ {0}
  BY Zero
<1>1. /\ TypeInv /\ SleepInvs /\ CallInv(0) /\ pc[0] = "release" /\ glue = "panda"
      /\ pc \in [Proc -> Place] /\ at \in [Proc -> Nat \ {0}] /\ loop \in [Proc -> Nat \ {0}]
      /\ enter \in [Proc -> Nat] /\ leave \in [Proc -> Nat] /\ MailTypes
      /\ "run" \in Place /\ loop[0] \in 1 .. N /\ InCall(0, "barrier")
  BY <1>0 DEF Ready, Local, BarrierRelease, TypeInv, Place, CallInv
<1>2. program' = program /\ enter' = enter /\ UNCHANGED taskVars
  BY DEF BarrierRelease
<1>3. SleepInvs /\ \A s \in Proc : ~asleep[<<0, s>>]
  <2>1. Awaited(0) = {}
    BY <1>0, <1>1 DEF Awaited
  <2> QED
    BY <1>0, <1>1, <2>1, Awake
<1>4. loop[0] \in Nat /\ at[0] <= Len(program.calls[0]) /\ at[0] + 1 <= Len(program.calls[0]) + 1 /\ at[0] + 1 \in Nat \ {0}
  BY <1>0, <1>1, NextCall DEF InCall
<1>5. CASE loop[0] < N
  <2>1. /\ SendReal(0, loop[0], [what |-> "byte"]) /\ loop' = [loop EXCEPT ![0] = @ + 1]
        /\ pc' = pc /\ at' = at /\ leave' = leave
    BY <1>5 DEF BarrierRelease
  <2>2. PICK d \in Proc : d = loop[0] /\ d # 0 /\ d + 1 \in 1 .. N
    BY <1>0, <1>1, <1>5 DEF Proc
  <2>3. MailTypes' /\ glue' = glue /\ queue' = queue /\ waiting' = waiting /\ asleep' = asleep
    BY <1>0, <1>1, <2>1, <2>2, ByteMsg, SendEffect
  <2>4. loop' \in [Proc -> Nat \ {0}] /\ loop'[0] = loop[0] + 1 /\ \A q \in Proc : q # 0 => loop'[q] = loop[q]
    BY <1>0, <1>1, <1>4, <2>1
  <2>5. TypeInv'
    BY <1>1, <1>2, <2>1, <2>3, <2>4, CallTypes
  <2>6. Elsewhere(0)
    BY <1>1, <1>2, <2>1, <2>3, <2>4 DEF Elsewhere, taskVars
  <2>7. CallStep(0)
    BY <1>1, <1>2, <1>4, <2>1, <2>6 DEF CallStep
  <2>8. CallInv(0)'
    <3>1. InCall(0, "barrier")' /\ at[0] <= Len(program.calls[0]) + 1
      BY <1>1, <1>2, <2>1 DEF InCall, CallInv
    <3> QED
      BY <1>0, <1>1, <1>2, <2>1, <2>2, <2>3, <2>4, <3>1 DEF CallInv
  <2>9. SleepInvs'
    BY <1>0, <1>3, <2>3, <2>6, SleepStays
  <2> QED
    BY <2>2, <2>5, <2>7, <2>8, <2>9 DEF After
<1>6. CASE ~(loop[0] < N)
  <2>1. /\ leave' = [leave EXCEPT ![0] = @ + 1] /\ pc' = [pc EXCEPT ![0] = "run"]
        /\ at' = [at EXCEPT ![0] = @ + 1] /\ loop' = [loop EXCEPT ![0] = 1]
        /\ wire' = wire /\ queue' = queue /\ waiting' = waiting /\ asleep' = asleep /\ hack' = hack /\ glue' = glue
    BY <1>6 DEF BarrierRelease, Goto, Return, mailVars
  <2>2. MailTypes'
    BY <1>1, <2>1 DEF MailTypes
  <2>3. /\ leave' \in [Proc -> Nat] /\ pc' \in [Proc -> Place]
        /\ at' \in [Proc -> Nat \ {0}] /\ loop' \in [Proc -> Nat \ {0}]
    BY <1>0, <1>1, <1>4, <2>1
  <2>4. TypeInv'
    BY <1>1, <1>2, <2>1, <2>2, <2>3, CallTypes
  <2>5. Elsewhere(0) /\ pc'[0] = "run" /\ at'[0] = at[0] + 1 /\ loop'[0] = 1
    BY <1>0, <1>1, <1>2, <2>1 DEF Elsewhere, taskVars
  <2>6. CallStep(0)
    BY <1>1, <1>2, <1>4, <2>5 DEF CallStep
  <2>7. CallInv(0)'
    BY <1>0, <1>1, <1>2, <1>4, <2>4, <2>5, Returned
  <2>8. SleepInvs'
    BY <1>0, <1>3, <2>1, <2>5, SleepStays
  <2> QED
    BY <1>6, <2>4, <2>6, <2>7, <2>8 DEF After
<1> QED
  BY <1>5, <1>6

\* and the barrier of MPI.
LEMMA MpiBarrierStep ==
    ASSUME NEW p \in Proc, Ready(p), MpiBarrier(p)
    PROVE  After(p)
<1>1. /\ TypeInv /\ SleepInvs /\ CallInv(p) /\ pc[p] \in {"run", "barrier"} /\ InCall(p, "barrier") /\ glue = "mpi"
      /\ pc \in [Proc -> Place] /\ at \in [Proc -> Nat \ {0}] /\ loop \in [Proc -> Nat \ {0}]
      /\ enter \in [Proc -> Nat] /\ leave \in [Proc -> Nat] /\ MailTypes /\ "barrier" \in Place /\ "run" \in Place
  BY DEF Ready, Local, MpiBarrier, TypeInv, Place, CallInv
<1>2. /\ program' = program /\ UNCHANGED taskVars
      /\ wire' = wire /\ queue' = queue /\ waiting' = waiting /\ asleep' = asleep /\ hack' = hack /\ glue' = glue
  BY DEF MpiBarrier, mailVars
<1>3. MailTypes'
  BY <1>1, <1>2 DEF MailTypes
<1>4. /\ at[p] <= Len(program.calls[p]) /\ at[p] + 1 <= Len(program.calls[p]) + 1 /\ at[p] + 1 \in Nat \ {0}
  BY <1>1, NextCall DEF InCall
<1>5. \A s \in Proc : ~asleep[<<p, s>>]
  BY <1>1 DEF SleepInvs, SleepInv
<1>6. CASE pc[p] = "run"
  <2>1. enter' = [enter EXCEPT ![p] = @ + 1] /\ pc' = [pc EXCEPT ![p] = "barrier"] /\ at' = at /\ loop' = loop /\ leave' = leave
    BY <1>6 DEF MpiBarrier, Goto
  <2>2. enter' \in [Proc -> Nat] /\ pc' \in [Proc -> Place]
    BY <1>1, <2>1
  <2>3. TypeInv'
    BY <1>1, <1>2, <1>3, <2>1, <2>2, CallTypes
  <2>4. Elsewhere(p) /\ pc'[p] = "barrier"
    BY <1>1, <1>2, <2>1 DEF Elsewhere, taskVars
  <2>5. CallStep(p)
    BY <1>2, <1>4, <1>6, <2>1, <2>4 DEF CallStep
  <2>6. CallInv(p)'
    <3>1. InCall(p, "barrier")' /\ at[p] <= Len(program.calls[p]) + 1
      BY <1>1, <1>2, <2>1 DEF InCall, CallInv
    <3> QED
      BY <1>1, <1>2, <2>1, <2>4, <3>1 DEF CallInv
  <2>7. SleepInvs'
    BY <1>1, <1>2, <1>5, <2>4, SleepStays
  <2> QED
    BY <2>3, <2>5, <2>6, <2>7 DEF After
<1>7. CASE pc[p] = "barrier"
  <2>1. /\ leave' = [leave EXCEPT ![p] = @ + 1] /\ pc' = [pc EXCEPT ![p] = "run"] /\ enter' = enter
        /\ at' = [at EXCEPT ![p] = @ + 1] /\ loop' = [loop EXCEPT ![p] = 1]
    BY <1>7 DEF MpiBarrier, Goto, Return
  <2>2. /\ leave' \in [Proc -> Nat] /\ pc' \in [Proc -> Place]
        /\ at' \in [Proc -> Nat \ {0}] /\ loop' \in [Proc -> Nat \ {0}]
    BY <1>1, <1>4, <2>1
  <2>3. TypeInv'
    BY <1>1, <1>2, <1>3, <2>1, <2>2, CallTypes
  <2>4. Elsewhere(p) /\ pc'[p] = "run" /\ at'[p] = at[p] + 1 /\ loop'[p] = 1
    BY <1>1, <1>2, <2>1 DEF Elsewhere, taskVars
  <2>5. CallStep(p)
    BY <1>2, <1>4, <1>7, <2>1, <2>4 DEF CallStep
  <2>6. CallInv(p)'
    BY <1>1, <1>2, <1>4, <2>3, <2>4, Returned
  <2>7. SleepInvs'
    BY <1>1, <1>2, <1>5, <2>4, SleepStays
  <2> QED
    BY <2>3, <2>5, <2>6, <2>7 DEF After
<1> QED
  BY <1>1, <1>6, <1>7

-----------------------------------------------------------------------------
(* What the calls count. *)

\* A call of p sends a message to d, takes one of s, or does neither.
SentOne(p, d) ==
    /\ Cardinality(Gave(d, p))' = Cardinality(Gave(d, p)) + 1
    /\ \A q \in Proc : q # d => SamePast(q, p)
    /\ \A q \in Proc : SameGone(p, q)
TookOne(p, s) ==
    /\ Cardinality(Took(p, s))' = Cardinality(Took(p, s)) + 1
    /\ \A q \in Proc : q # s => SameGone(p, q)
    /\ \A q \in Proc : SamePast(q, p)
    /\ at[p] \in Takings(program, p, s) /\ ~Gone(p, s, at[p])
Neither(p) == \A q \in Proc : SamePast(q, p) /\ SameGone(p, q)

\* A call is complete.
LEMMA PastReturn ==
    ASSUME TypeInv, program' = program, NEW p \in Proc, at'[p] = at[p] + 1, loop'[p] = 1, pc'[p] = "run"
    PROVE  /\ \A q \in Proc : \A i \in DOMAIN program.calls[p] : \A j \in SendsIn(program, q, p, i) :
                  Past(p, i, j)' <=> i <= at[p]
           /\ \A q \in Proc : \A i \in DOMAIN program.calls[p] : Gone(p, q, i)' <=> i <= at[p]
<1>0. /\ DOMAIN program.calls[p] = 1 .. Len(program.calls[p]) /\ Len(program.calls[p]) \in Nat
      /\ at[p] \in Nat \ {0}
  BY CallFacts DEF TypeInv
<1>1. ASSUME NEW q \in Proc, NEW i \in DOMAIN program.calls[p], NEW j \in SendsIn(program, q, p, i)
      PROVE  Past(p, i, j)' <=> i <= at[p]
  <2>1. CASE i # at[p] + 1
    BY <1>0, <2>1 DEF Past
  <2>2. CASE i = at[p] + 1
    <3>1. ~(i < at'[p]) /\ ~(i <= at[p]) /\ Arg(p)' = program.calls[p][i]
      BY <1>0, <2>2 DEF Arg
    <3>2. CASE program.calls[p][i].op = "send"
      <4>1. j \in DOMAIN Destinations(program.calls[p][i].dest)
        BY <3>2 DEF SendsIn
      <4>2. Destinations(program.calls[p][i].dest) \in Seq(Proc)
        BY <3>2, CallFacts
      <4>3. j \in Nat \ {0}
        BY <4>1, <4>2, LenProperties
      <4> QED
        BY <3>1, <3>2, <4>3 DEF Past
    <3>3. CASE program.calls[p][i].op # "send"
      BY <3>1, <3>3 DEF Past
    <3> QED
      BY <3>2, <3>3
  <2> QED
    BY <2>1, <2>2
<1>2. ASSUME NEW q \in Proc, NEW i \in DOMAIN program.calls[p]
      PROVE  Gone(p, q, i)' <=> i <= at[p]
  BY <1>0 DEF Gone
<1> QED
  BY <1>1, <1>2

\* What each call gives and takes: a send gives one message to a processor,
LEMMA SendCounts ==
    ASSUME NEW p \in Proc, Ready(p), Send(p)
    PROVE  SentOne(p, Destinations(Arg(p).dest)[loop[p]])
<1>0. TypeInv /\ CallInv(p) /\ pc[p] = "run" /\ InCall(p, "send") /\ program' = program /\ pc' = pc
  BY DEF Ready, Local, Send
<1>1. PICK to \in Seq(Proc) : to = Destinations(Arg(p).dest)
  BY <1>0, SendTo1
<1>2. PICK k : k = at[p]
  OBVIOUS
<1>3. PICK l : l = loop[p]
  OBVIOUS
<1>4. /\ l \in DOMAIN to /\ DOMAIN to = 1 .. Len(to) /\ Len(to) \in Nat /\ l \in Nat
      /\ k \in DOMAIN program.calls[p] /\ k \in Nat
      /\ DOMAIN program.calls[p] = 1 .. Len(program.calls[p]) /\ Len(program.calls[p]) \in Nat
  <2>1. l \in DOMAIN to /\ DOMAIN to = 1 .. Len(to) /\ Len(to) \in Nat /\ k \in DOMAIN program.calls[p]
    BY <1>0, <1>1, <1>2, <1>3, SendTo1
  <2>2. /\ DOMAIN program.calls[p] = 1 .. Len(program.calls[p]) /\ Len(program.calls[p]) \in Nat
    BY <1>0, CallFacts
  <2> QED
    BY <2>1, <2>2
<1>5. program.calls[p][k].op = "send" /\ Arg(p) = program.calls[p][k] /\ to = Destinations(program.calls[p][k].dest)
  BY <1>0, <1>1, <1>2 DEF InCall, Arg
<1>6. \A q \in Proc : SendsIn(program, q, p, k) = {j \in DOMAIN to : to[j] = q}
  BY <1>5 DEF SendsIn
<1>7. ASSUME NEW q \in Proc, NEW i \in DOMAIN program.calls[p], NEW j \in SendsIn(program, q, p, i)
      PROVE  /\ Past(p, i, j)' <=> (Past(p, i, j) \/ (i = k /\ j = l))
             /\ Past(p, i, j) <=> (i < k \/ (i = k /\ j < l))
  <2>1. Past(p, i, j) <=> (i < k \/ (i = k /\ j < l))
    BY <1>2, <1>3, <1>5 DEF Past
  <2>2. i = k => j \in 1 .. Len(to)
    BY <1>4, <1>6
  <2>3. CASE l = Len(to)
    <3>1. at'[p] = at[p] + 1 /\ loop'[p] = 1 /\ pc'[p] = "run"
      BY <1>0, <1>1, <1>3, <2>3 DEF Send, Return, TypeInv
    <3>2. Past(p, i, j)' <=> i <= k
      BY <1>0, <1>2, <3>1, PastReturn
    <3> QED
      BY <1>4, <2>1, <2>2, <2>3, <3>2
  <2>4. CASE l # Len(to)
    <3>1. at' = at /\ loop'[p] = l + 1
      BY <1>0, <1>1, <1>3, <2>4 DEF Send, TypeInv
    <3>2. Arg(p)' = Arg(p)
      BY <1>0, <3>1 DEF Arg
    <3>3. Past(p, i, j)' <=> (i < k \/ (i = k /\ j < l + 1))
      BY <1>2, <1>5, <3>1, <3>2 DEF Past
    <3> QED
      BY <1>4, <2>1, <2>2, <3>3
  <2> QED
    BY <2>1, <2>3, <2>4
<1>8. PICK d \in Proc : d = to[l]
  BY <1>4, ElementOfSeq
<1>9. l \in SendsIn(program, d, p, k)
  BY <1>4, <1>6, <1>8
<1>10. ~Past(p, k, l)
  BY <1>4, <1>7, <1>8, <1>9
<1>11. Cardinality(Gave(d, p))' = Cardinality(Gave(d, p)) + 1
  BY <1>0, <1>4, <1>7, <1>8, <1>9, <1>10, GaveMore
<1>12. ASSUME NEW q \in Proc, q # d
       PROVE  SamePast(q, p)
  <2>1. l \notin SendsIn(program, q, p, k)
    BY <1>6, <1>8, <1>12
  <2> QED
    BY <1>7, <2>1 DEF SamePast
<1>13. ASSUME NEW q \in Proc
       PROVE  SameGone(p, q)
  <2>0. ASSUME NEW i \in Takings(program, p, q)
        PROVE  i \in DOMAIN program.calls[p] /\ i # k /\ (Gone(p, q, i) <=> i < k)
    <3>1. TakesIn(program, p, q, i) /\ i \in DOMAIN program.calls[p]
      BY <2>0 DEF Takings
    <3>2. i # k
      BY <1>5, <3>1 DEF TakesIn, ByteIn
    <3> QED
      BY <1>0, <1>2, <3>1, <3>2 DEF Gone
  <2>1. CASE l = Len(to)
    <3>1. at'[p] = at[p] + 1 /\ loop'[p] = 1 /\ pc'[p] = "run"
      BY <1>0, <1>1, <1>3, <2>1 DEF Send, Return, TypeInv
    <3>2. \A i \in DOMAIN program.calls[p] : Gone(p, q, i)' <=> i <= k
      BY <1>0, <1>2, <3>1, PastReturn
    <3> QED
      BY <1>4, <2>0, <3>2 DEF SameGone
  <2>2. CASE l # Len(to)
    <3>1. at' = at
      BY <1>0, <1>1, <1>3, <2>2 DEF Send, TypeInv
    <3>2. \A i \in Takings(program, p, q) : Gone(p, q, i)' <=> i < k
      BY <1>0, <1>2, <2>0, <3>1 DEF Gone
    <3> QED
      BY <2>0, <3>2 DEF SameGone
  <2> QED
    BY <2>1, <2>2
<1>14. SentOne(p, d)
  BY <1>11, <1>12, <1>13 DEF SentOne
<1> QED
  BY <1>1, <1>3, <1>8, <1>14

\* a receive takes one,
LEMMA ReceiveCounts ==
    ASSUME NEW p \in Proc, Ready(p), Receive(p), pc'[p] # "error"
    PROVE  TookOne(p, Arg(p).peer)
<1>0. /\ TypeInv /\ CallInv(p) /\ pc[p] = "run" /\ InCall(p, "receive") /\ program' = program
      /\ at'[p] = at[p] + 1 /\ loop'[p] = 1 /\ pc'[p] = "run"
  BY DEF Ready, Local, Receive, Return, Goto, TypeInv
<1>1. PICK k : k = at[p]
  OBVIOUS
<1>2. /\ k \in DOMAIN program.calls[p] /\ k \in Nat
      /\ DOMAIN program.calls[p] = 1 .. Len(program.calls[p]) /\ Len(program.calls[p]) \in Nat
  <2>1. k \in DOMAIN program.calls[p]
    BY <1>0, <1>1, NextCall DEF InCall
  <2> QED
    BY <2>1, CallFacts, <1>0
<1>3. program.calls[p][k].op = "receive" /\ Arg(p) = program.calls[p][k]
  BY <1>0, <1>1 DEF InCall, Arg
<1>4. PICK s \in Proc : s = Arg(p).peer
  BY <1>0, <1>2, <1>3, CallFacts
<1>5. \A q \in Proc : k \in Takings(program, p, q) <=> q = s
  BY <1>2, <1>3, <1>4 DEF Takings, TakesIn, ByteIn
<1>6. ASSUME NEW q \in Proc, NEW i \in Takings(program, p, q)
      PROVE  (Gone(p, q, i) <=> i < k) /\ (Gone(p, q, i)' <=> i <= k) /\ i \in Nat
  <2>1. i \in DOMAIN program.calls[p]
    BY <1>6 DEF Takings
  <2>2. Gone(p, q, i)' <=> i <= k
    BY <1>0, <1>1, <2>1, PastReturn
  <2>3. Gone(p, q, i) <=> i < k
    BY <1>0, <1>1 DEF Gone
  <2> QED
    BY <1>2, <2>1, <2>2, <2>3
<1>7. Cardinality(Took(p, s))' = Cardinality(Took(p, s)) + 1 /\ ~Gone(p, s, k)
  <2>1. k \in Takings(program, p, s)
    BY <1>5
  <2>2. ~Gone(p, s, k) /\ \A i \in Takings(program, p, s) : Gone(p, s, i)' <=> (Gone(p, s, i) \/ i = k)
    BY <1>2, <1>6, <2>1
  <2> QED
    BY <1>0, <2>1, <2>2, TookMore
<1>8. ASSUME NEW q \in Proc, q # s
      PROVE  SameGone(p, q)
  <2>1. k \notin Takings(program, p, q)
    BY <1>5, <1>8
  <2> QED
    BY <1>2, <1>6, <2>1 DEF SameGone
<1>9. ASSUME NEW q \in Proc
      PROVE  SamePast(q, p)
  <2>1. ASSUME NEW i \in DOMAIN program.calls[p], NEW j \in SendsIn(program, q, p, i)
        PROVE  Past(p, i, j)' <=> Past(p, i, j)
    <3>1. Past(p, i, j)' <=> i <= k
      BY <1>0, <1>1, <2>1, PastReturn
    <3>2. i # k
      BY <1>3, <2>1 DEF SendsIn, ByteIn
    <3>3. Past(p, i, j) <=> i < k
      BY <1>1, <3>2 DEF Past
    <3> QED
      BY <1>2, <3>1, <3>2, <3>3
  <2> QED
    BY <2>1 DEF SamePast
<1>10. TookOne(p, s)
  BY <1>1, <1>5, <1>7, <1>8, <1>9 DEF TookOne
<1> QED
  BY <1>4, <1>10

\* The call of a barrier,
LEMMA BarrierCall ==
    ASSUME TypeInv, NEW p \in Proc, InCall(p, "barrier"), NEW k, k = at[p]
    PROVE  /\ k \in DOMAIN program.calls[p] /\ k \in Nat /\ Arg(p) = program.calls[p][k]
           /\ DOMAIN program.calls[p] = 1 .. Len(program.calls[p]) /\ Len(program.calls[p]) \in Nat
           /\ program.calls[p][k].op = "barrier" /\ Arg(p).op = "barrier"
<1>1. k \in DOMAIN program.calls[p]
  BY NextCall DEF InCall
<1>2. DOMAIN program.calls[p] = 1 .. Len(program.calls[p]) /\ Len(program.calls[p]) \in Nat
  BY CallFacts
<1>3. program.calls[p][k].op = "barrier" /\ Arg(p) = program.calls[p][k]
  BY DEF InCall, Arg
<1> QED
  BY <1>1, <1>2, <1>3

\* and what a barrier of Panda sends and takes.
LEMMA ByteFacts ==
    ASSUME TypeInv, NEW p \in Proc, InCall(p, "barrier"), NEW q \in Proc, NEW k, k = at[p]
    PROVE  /\ \A j : j \in SendsIn(program, q, p, k) <=> j = q /\ glue = "panda" /\ p # q /\ (p = 0 \/ q = 0)
           /\ k \in Takings(program, p, q) <=> glue = "panda" /\ p # q /\ (p = 0 \/ q = 0)
<1>1. k \in DOMAIN program.calls[p] /\ program.calls[p][k].op = "barrier"
  BY BarrierCall
<1>2. program.glue = glue
  BY CallFacts
<1> QED
  BY <1>1, <1>2 DEF SendsIn, Takings, TakesIn, ByteIn

\* a barrier gives a byte to processor 0
LEMMA BarrierSendCounts ==
    ASSUME NEW p \in Proc, Ready(p), BarrierSend(p)
    PROVE  SentOne(p, 0)
<1>0. /\ TypeInv /\ pc[p] = "run" /\ InCall(p, "barrier") /\ program' = program /\ glue = "panda" /\ p # 0
      /\ at' = at /\ loop' = loop /\ pc'[p] = "barrier" /\ 0 \in Proc
  BY Zero DEF Ready, BarrierSend, Goto, TypeInv
<1>1. PICK k : k = at[p]
  OBVIOUS
<1>2. /\ k \in DOMAIN program.calls[p] /\ k \in Nat /\ Arg(p).op = "barrier" /\ Arg(p)' = Arg(p)
      /\ DOMAIN program.calls[p] = 1 .. Len(program.calls[p]) /\ Len(program.calls[p]) \in Nat
      /\ \A q \in Proc : \A j : j \in SendsIn(program, q, p, k) <=> j = q /\ q = 0
  <2>1. Arg(p)' = Arg(p)
    BY <1>0 DEF Arg
  <2>2. ASSUME NEW q \in Proc
        PROVE  \A j : j \in SendsIn(program, q, p, k) <=> j = q /\ q = 0
    BY <1>0, <1>1, ByteFacts
  <2> QED
    BY <1>0, <1>1, <2>1, <2>2, BarrierCall
<1>3. ASSUME NEW q \in Proc, NEW i \in DOMAIN program.calls[p], NEW j \in SendsIn(program, q, p, i)
      PROVE  (Past(p, i, j)' <=> i <= k) /\ (Past(p, i, j) <=> i < k)
  BY <1>0, <1>1, <1>2 DEF Past
<1>4. 0 \in SendsIn(program, 0, p, k)
  BY <1>0, <1>2
<1>5. Cardinality(Gave(0, p))' = Cardinality(Gave(0, p)) + 1
  <2>1. ~Past(p, k, 0)
    BY <1>0, <1>2, <1>3, <1>4
  <2>2. \A i \in DOMAIN program.calls[p] : \A j \in SendsIn(program, 0, p, i) :
            Past(p, i, j)' <=> (Past(p, i, j) \/ (i = k /\ j = 0))
    BY <1>0, <1>2, <1>3
  <2> QED
    BY <1>0, <1>2, <1>4, <2>1, <2>2, GaveMore
<1>6. ASSUME NEW q \in Proc, q # 0
      PROVE  SamePast(q, p)
  <2>1. ASSUME NEW i \in DOMAIN program.calls[p], NEW j \in SendsIn(program, q, p, i)
        PROVE  Past(p, i, j)' <=> Past(p, i, j)
    <3>1. i # k
      BY <1>2, <1>6, <2>1
    <3> QED
      BY <1>2, <1>3, <3>1
  <2> QED
    BY <2>1 DEF SamePast
<1>7. ASSUME NEW q \in Proc
      PROVE  SameGone(p, q)
  BY <1>0 DEF SameGone, Gone
<1>8. \A q \in Proc : SameGone(p, q)
  BY <1>7
<1> QED
  BY <1>5, <1>6, <1>8 DEF SentOne

\* and takes one of it,
LEMMA BarrierAnswerCounts ==
    ASSUME NEW p \in Proc, Ready(p), BarrierAnswer(p)
    PROVE  TookOne(p, 0)
<1>0. /\ TypeInv /\ CallInv(p) /\ pc[p] = "barrier" /\ InCall(p, "barrier") /\ program' = program /\ glue = "panda" /\ p # 0
      /\ at'[p] = at[p] + 1 /\ loop'[p] = 1 /\ pc'[p] = "run" /\ 0 \in Proc
  BY Zero DEF Ready, Local, CallInv, BarrierAnswer, Goto, Return, TypeInv
<1>1. PICK k : k = at[p]
  OBVIOUS
<1>2. /\ k \in DOMAIN program.calls[p] /\ k \in Nat /\ Arg(p).op = "barrier"
      /\ DOMAIN program.calls[p] = 1 .. Len(program.calls[p]) /\ Len(program.calls[p]) \in Nat
      /\ \A q \in Proc : k \in Takings(program, p, q) <=> q = 0
  <2>1. ASSUME NEW q \in Proc
        PROVE  k \in Takings(program, p, q) <=> q = 0
    BY <1>0, <1>1, ByteFacts
  <2> QED
    BY <1>0, <1>1, <2>1, BarrierCall
<1>3. ASSUME NEW q \in Proc, NEW i \in Takings(program, p, q)
      PROVE  (Gone(p, q, i) <=> i < k) /\ (Gone(p, q, i)' <=> i <= k) /\ i \in Nat
  <2>1. i \in DOMAIN program.calls[p]
    BY <1>3 DEF Takings
  <2>2. Gone(p, q, i)' <=> i <= k
    BY <1>0, <1>1, <2>1, PastReturn
  <2>3. Gone(p, q, i) <=> i < k
    BY <1>0, <1>1 DEF Gone
  <2> QED
    BY <1>2, <2>1, <2>2, <2>3
<1>4. Cardinality(Took(p, 0))' = Cardinality(Took(p, 0)) + 1 /\ ~Gone(p, 0, k) /\ k \in Takings(program, p, 0)
  <2>1. k \in Takings(program, p, 0)
    BY <1>0, <1>2
  <2>2. ~Gone(p, 0, k)
    BY <1>0, <1>2, <1>3, <2>1
  <2>3. ASSUME NEW i \in Takings(program, p, 0)
        PROVE  Gone(p, 0, i)' <=> (Gone(p, 0, i) \/ i = k)
    <3>1. (Gone(p, 0, i) <=> i < k) /\ (Gone(p, 0, i)' <=> i <= k) /\ i \in Nat
      BY <1>0, <1>3, <2>3
    <3> QED
      BY <1>2, <3>1
  <2> QED
    BY <1>0, <2>1, <2>2, <2>3, TookMore
<1>5. ASSUME NEW q \in Proc, q # 0
      PROVE  SameGone(p, q)
  <2>1. k \notin Takings(program, p, q)
    BY <1>2, <1>5
  <2> QED
    BY <1>2, <1>3, <2>1 DEF SameGone
<1>6. ASSUME NEW q \in Proc
      PROVE  SamePast(q, p)
  <2>1. ASSUME NEW i \in DOMAIN program.calls[p], NEW j \in SendsIn(program, q, p, i)
        PROVE  Past(p, i, j)' <=> Past(p, i, j)
    <3>1. Past(p, i, j)' <=> i <= k
      BY <1>0, <1>1, <2>1, PastReturn
    <3>2. Past(p, i, j) <=> i <= k
      BY <1>0, <1>1, <1>2 DEF Past
    <3> QED
      BY <3>1, <3>2
  <2> QED
    BY <2>1 DEF SamePast
<1> QED
  BY <1>1, <1>4, <1>5, <1>6 DEF TookOne

\* processor 0 enters it without,
LEMMA BarrierEnter0Counts ==
    ASSUME Ready(0), BarrierEnter0
    PROVE  Neither(0)
<1>0. /\ TypeInv /\ CallInv(0) /\ pc[0] = "run" /\ InCall(0, "barrier") /\ program' = program /\ glue = "panda"
      /\ at' = at /\ loop' = loop /\ loop[0] = 1 /\ pc'[0] = (IF N = 1 THEN "release" ELSE "barrier")
      /\ 0 \in Proc /\ N \in Nat
  BY Zero DEF Ready, Local, CallInv, BarrierEnter0, Goto, TypeInv
<1>1. PICK k : k = at[0]
  OBVIOUS
<1>2. /\ k \in DOMAIN program.calls[0] /\ k \in Nat /\ Arg(0).op = "barrier" /\ Arg(0)' = Arg(0)
      /\ DOMAIN program.calls[0] = 1 .. Len(program.calls[0]) /\ Len(program.calls[0]) \in Nat
      /\ \A q \in Proc : k \in Takings(program, 0, q) <=> q # 0
      /\ \A q \in Proc : \A j : j \in SendsIn(program, q, 0, k) <=> j = q /\ q # 0
  <2>1. Arg(0)' = Arg(0)
    BY <1>0 DEF Arg
  <2>2. ASSUME NEW q \in Proc
        PROVE  /\ k \in Takings(program, 0, q) <=> q # 0
               /\ \A j : j \in SendsIn(program, q, 0, k) <=> j = q /\ q # 0
    BY <1>0, <1>1, ByteFacts
  <2> QED
    BY <1>0, <1>1, <2>1, <2>2, BarrierCall
<1>3. ASSUME NEW q \in Proc
      PROVE  SamePast(q, 0)
  <2>1. ASSUME NEW i \in DOMAIN program.calls[0], NEW j \in SendsIn(program, q, 0, i)
        PROVE  Past(0, i, j)' <=> Past(0, i, j)
    <3>1. CASE i # k
      BY <1>0, <1>1, <1>2, <3>1 DEF Past
    <3>2. CASE i = k
      <4>1. j = q /\ q # 0 /\ ~(j < 1)
        BY <1>2, <2>1, <3>2 DEF Proc
      <4> QED
        BY <1>0, <1>1, <1>2, <3>2, <4>1 DEF Past
    <3> QED
      BY <3>1, <3>2
  <2> QED
    BY <2>1 DEF SamePast
<1>4. ASSUME NEW q \in Proc
      PROVE  SameGone(0, q)
  <2>1. ASSUME NEW i \in Takings(program, 0, q)
        PROVE  Gone(0, q, i)' <=> Gone(0, q, i)
    <3>1. CASE i # k
      BY <1>0, <1>1, <1>2, <3>1 DEF Gone
    <3>2. CASE i = k
      <4>1. q # 0 /\ q >= 1 /\ q \in Nat /\ N # 1
        BY <1>0, <1>2, <2>1, <3>2 DEF Proc
      <4>2. pc'[0] = "barrier" /\ loop'[0] = 1 /\ at'[0] = k /\ ~(k < k)
        BY <1>0, <1>1, <1>2, <4>1
      <4>3. ~Gone(0, q, k)
        BY <1>0, <1>1, <1>2 DEF Gone
      <4>4. ~Gone(0, q, k)'
        BY <1>0, <4>1, <4>2 DEF Gone
      <4> QED
        BY <3>2, <4>3, <4>4
    <3> QED
      BY <3>1, <3>2
  <2> QED
    BY <2>1 DEF SameGone
<1> QED
  BY <1>3, <1>4 DEF Neither

\* takes one of each of the others,
LEMMA BarrierCollectCounts ==
    ASSUME Ready(0), BarrierCollect
    PROVE  TookOne(0, loop[0])
<1>0. /\ TypeInv /\ CallInv(0) /\ pc[0] = "barrier" /\ InCall(0, "barrier") /\ program' = program /\ glue = "panda"
      /\ at' = at /\ loop[0] \in 1 .. N - 1 /\ 0 \in Proc /\ N \in Nat
      /\ loop[0] = N - 1 => pc'[0] = "release" /\ loop'[0] = 1
      /\ loop[0] # N - 1 => pc'[0] = "barrier" /\ loop'[0] = loop[0] + 1
  BY Zero DEF Ready, Local, CallInv, BarrierCollect, Goto, TypeInv
<1>1. PICK k : k = at[0]
  OBVIOUS
<1>2. /\ k \in DOMAIN program.calls[0] /\ k \in Nat /\ Arg(0).op = "barrier" /\ Arg(0)' = Arg(0)
      /\ DOMAIN program.calls[0] = 1 .. Len(program.calls[0]) /\ Len(program.calls[0]) \in Nat
      /\ \A q \in Proc : k \in Takings(program, 0, q) <=> q # 0
      /\ \A q \in Proc : \A j : j \in SendsIn(program, q, 0, k) <=> j = q /\ q # 0
  <2>1. Arg(0)' = Arg(0)
    BY <1>0 DEF Arg
  <2>2. ASSUME NEW q \in Proc
        PROVE  /\ k \in Takings(program, 0, q) <=> q # 0
               /\ \A j : j \in SendsIn(program, q, 0, k) <=> j = q /\ q # 0
    BY <1>0, <1>1, ByteFacts
  <2> QED
    BY <1>0, <1>1, <2>1, <2>2, BarrierCall
<1>3. PICK s \in Proc : s = loop[0] /\ s # 0
  BY <1>0 DEF Proc
<1>4. ASSUME NEW q \in Proc
      PROVE  SamePast(q, 0)
  <2>1. ASSUME NEW i \in DOMAIN program.calls[0], NEW j \in SendsIn(program, q, 0, i)
        PROVE  Past(0, i, j)' <=> Past(0, i, j)
    <3>1. CASE i # k
      BY <1>0, <1>1, <1>2, <3>1 DEF Past
    <3>2. CASE i = k
      <4>1. j = q /\ q # 0 /\ ~(j < 1)
        BY <1>2, <2>1, <3>2 DEF Proc
      <4> QED
        BY <1>0, <1>1, <1>2, <3>2, <4>1 DEF Past
    <3> QED
      BY <3>1, <3>2
  <2> QED
    BY <2>1 DEF SamePast
<1>5. ASSUME NEW q \in Proc, NEW i \in Takings(program, 0, q)
      PROVE  Gone(0, q, i)' <=> (Gone(0, q, i) \/ (i = k /\ q = s))
  <2>1. CASE i # k
    BY <1>0, <1>1, <1>2, <2>1 DEF Gone
  <2>2. CASE i = k
    <3>1. q # 0 /\ q \in 1 .. N - 1 /\ s \in 1 .. N - 1
      BY <1>0, <1>2, <1>3, <1>5, <2>2 DEF Proc
    <3>2. Gone(0, q, i) <=> q < s
      BY <1>0, <1>1, <1>2, <1>3, <2>2 DEF Gone
    <3>3. Gone(0, q, i)' <=> q <= s
      <4>1. CASE loop[0] = N - 1
        BY <1>0, <1>1, <1>2, <1>3, <2>2, <3>1, <4>1 DEF Gone
      <4>2. CASE loop[0] # N - 1
        BY <1>0, <1>1, <1>2, <1>3, <2>2, <3>1, <4>2 DEF Gone
      <4> QED
        BY <4>1, <4>2
    <3> QED
      BY <2>2, <3>1, <3>2, <3>3
  <2> QED
    BY <2>1, <2>2
<1>6. k \in Takings(program, 0, s) /\ ~Gone(0, s, k)
  <2>1. s \in Nat
    BY DEF Proc
  <2> QED
    BY <1>0, <1>1, <1>2, <1>3, <2>1 DEF Gone
<1>7. Cardinality(Took(0, s))' = Cardinality(Took(0, s)) + 1
  BY <1>0, <1>5, <1>6, TookMore
<1>8. ASSUME NEW q \in Proc, q # s
      PROVE  SameGone(0, q)
  BY <1>5, <1>8 DEF SameGone
<1>9. TookOne(0, s)
  BY <1>1, <1>4, <1>6, <1>7, <1>8 DEF TookOne
<1> QED
  BY <1>3, <1>9

\* and gives each of them one,
LEMMA BarrierReleaseCounts ==
    ASSUME Ready(0), BarrierRelease
    PROVE  /\ loop[0] < N => SentOne(0, loop[0])
           /\ ~(loop[0] < N) => Neither(0)
<1>0. /\ TypeInv /\ CallInv(0) /\ pc[0] = "release" /\ InCall(0, "barrier") /\ program' = program /\ glue = "panda"
      /\ loop[0] \in 1 .. N /\ 0 \in Proc /\ N \in Nat
      /\ loop[0] < N => at' = at /\ pc'[0] = "release" /\ loop'[0] = loop[0] + 1
      /\ ~(loop[0] < N) => at'[0] = at[0] + 1 /\ pc'[0] = "run" /\ loop'[0] = 1
  BY Zero DEF Ready, Local, CallInv, BarrierRelease, Goto, Return, TypeInv
<1>1. PICK k : k = at[0]
  OBVIOUS
<1>2. /\ k \in DOMAIN program.calls[0] /\ k \in Nat /\ Arg(0).op = "barrier"
      /\ DOMAIN program.calls[0] = 1 .. Len(program.calls[0]) /\ Len(program.calls[0]) \in Nat
      /\ \A q \in Proc : \A j : j \in SendsIn(program, q, 0, k) <=> j = q /\ q # 0
  <2>1. ASSUME NEW q \in Proc
        PROVE  \A j : j \in SendsIn(program, q, 0, k) <=> j = q /\ q # 0
    BY <1>0, <1>1, ByteFacts
  <2> QED
    BY <1>0, <1>1, <2>1, BarrierCall
<1>3. ASSUME NEW q \in Proc, NEW i \in DOMAIN program.calls[0]
      PROVE  Gone(0, q, i) <=> i <= k
  BY <1>0, <1>1, <1>2 DEF Gone
<1>4. ASSUME loop[0] < N
      PROVE  SentOne(0, loop[0])
  <2>1. PICK d \in Proc : d = loop[0] /\ d # 0 /\ d \in Nat
    BY <1>0, <1>4 DEF Proc
  <2>2. ASSUME NEW q \in Proc, NEW i \in DOMAIN program.calls[0], NEW j \in SendsIn(program, q, 0, i)
        PROVE  /\ Past(0, i, j)' <=> (Past(0, i, j) \/ (i = k /\ j = d))
               /\ i = k => j = q
    <3>1. CASE i # k
      BY <1>0, <1>1, <1>2, <1>4, <3>1 DEF Past
    <3>2. CASE i = k
      <4>1. j = q /\ j \in Nat
        BY <1>2, <2>2, <3>2 DEF Proc
      <4>2. Past(0, i, j) <=> j < d
        BY <1>0, <1>1, <1>2, <2>1, <3>2 DEF Past
      <4>3. Arg(0)' = Arg(0)
        BY <1>0, <1>4 DEF Arg
      <4>4. Past(0, i, j)' <=> j < d + 1
        BY <1>0, <1>1, <1>2, <1>4, <2>1, <3>2, <4>3 DEF Past
      <4> QED
        BY <2>1, <3>2, <4>1, <4>2, <4>4
    <3> QED
      BY <3>1, <3>2
  <2>3. d \in SendsIn(program, d, 0, k)
    BY <1>2, <2>1
  <2>4. ~Past(0, k, d)
    BY <1>0, <1>1, <1>2, <2>1 DEF Past
  <2>5. Cardinality(Gave(d, 0))' = Cardinality(Gave(d, 0)) + 1
    BY <1>0, <1>2, <2>2, <2>3, <2>4, GaveMore
  <2>6. ASSUME NEW q \in Proc, q # d
        PROVE  SamePast(q, 0)
    BY <2>2, <2>6 DEF SamePast
  <2>7. ASSUME NEW q \in Proc
        PROVE  SameGone(0, q)
    BY <1>0, <1>4 DEF SameGone, Gone
  <2>8. \A q \in Proc : SameGone(0, q)
    BY <2>7
  <2>9. SentOne(0, d)
    BY <2>5, <2>6, <2>8 DEF SentOne
  <2> QED
    BY <2>1, <2>9
<1>5. ASSUME ~(loop[0] < N)
      PROVE  Neither(0)
  <2>1. ASSUME NEW q \in Proc
        PROVE  SamePast(q, 0)
    <3>1. ASSUME NEW i \in DOMAIN program.calls[0], NEW j \in SendsIn(program, q, 0, i)
          PROVE  Past(0, i, j)' <=> Past(0, i, j)
      <4>1. Past(0, i, j)' <=> i <= k
        BY <1>0, <1>1, <1>5, <3>1, PastReturn
      <4>2. i = k => j < loop[0]
        BY <1>0, <1>2, <1>5, <3>1 DEF Proc
      <4>3. Past(0, i, j) <=> i <= k
        BY <1>0, <1>1, <1>2, <4>2 DEF Past
      <4> QED
        BY <4>1, <4>3
    <3> QED
      BY <3>1 DEF SamePast
  <2>2. ASSUME NEW q \in Proc
        PROVE  SameGone(0, q)
    <3>1. \A i \in DOMAIN program.calls[0] : Gone(0, q, i)' <=> i <= k
      BY <1>0, <1>1, <1>5, PastReturn
    <3> QED
      BY <1>3, <3>1 DEF SameGone, Takings
  <2> QED
    BY <2>1, <2>2 DEF Neither
<1> QED
  BY <1>4, <1>5

\* and that of MPI does neither.
LEMMA MpiBarrierCounts ==
    ASSUME NEW p \in Proc, Ready(p), MpiBarrier(p)
    PROVE  Neither(p)
<1>0. /\ TypeInv /\ CallInv(p) /\ InCall(p, "barrier") /\ program' = program /\ glue = "mpi"
      /\ pc[p] \in {"run", "barrier"}
      /\ pc[p] = "run" => at' = at /\ pc'[p] = "barrier"
      /\ pc[p] = "barrier" => at'[p] = at[p] + 1 /\ pc'[p] = "run" /\ loop'[p] = 1
  BY DEF Ready, Local, CallInv, MpiBarrier, Goto, Return, TypeInv
<1>1. PICK k : k = at[p]
  OBVIOUS
<1>2. /\ k \in DOMAIN program.calls[p] /\ k \in Nat
      /\ DOMAIN program.calls[p] = 1 .. Len(program.calls[p]) /\ Len(program.calls[p]) \in Nat
      /\ \A q \in Proc : k \notin Takings(program, p, q)
      /\ \A q \in Proc : \A j : j \notin SendsIn(program, q, p, k)
  <2>1. ASSUME NEW q \in Proc
        PROVE  k \notin Takings(program, p, q) /\ \A j : j \notin SendsIn(program, q, p, k)
    BY <1>0, <1>1, ByteFacts
  <2> QED
    BY <1>0, <1>1, <2>1, BarrierCall
<1>3. ASSUME NEW q \in Proc, NEW i \in DOMAIN program.calls[p], NEW j \in SendsIn(program, q, p, i)
      PROVE  Past(p, i, j)' <=> Past(p, i, j)
  <2>1. i # k
    BY <1>2, <1>3
  <2>2. Past(p, i, j) <=> i < k
    BY <1>1, <2>1 DEF Past
  <2>3. CASE pc[p] = "run"
    BY <1>0, <1>1, <2>1, <2>2, <2>3 DEF Past
  <2>4. CASE pc[p] = "barrier"
    <3>1. Past(p, i, j)' <=> i <= k
      BY <1>0, <1>1, <1>3, <2>4, PastReturn
    <3> QED
      BY <1>2, <2>1, <2>2, <3>1
  <2> QED
    BY <1>0, <2>3, <2>4
<1>4. ASSUME NEW q \in Proc, NEW i \in Takings(program, p, q)
      PROVE  Gone(p, q, i)' <=> Gone(p, q, i)
  <2>1. i # k /\ i \in DOMAIN program.calls[p]
    BY <1>2, <1>4 DEF Takings
  <2>2. Gone(p, q, i) <=> i < k
    BY <1>1, <2>1 DEF Gone
  <2>3. CASE pc[p] = "run"
    BY <1>0, <1>1, <2>1, <2>2, <2>3 DEF Gone
  <2>4. CASE pc[p] = "barrier"
    <3>1. Gone(p, q, i)' <=> i <= k
      BY <1>0, <1>1, <2>1, <2>4, PastReturn
    <3> QED
      BY <1>2, <2>1, <2>2, <3>1
  <2> QED
    BY <1>0, <2>3, <2>4
<1> QED
  BY <1>3, <1>4 DEF Neither, SamePast, SameGone


-----------------------------------------------------------------------------
(* The streams after a call. *)

Flows == \A d, s \in Proc : ~Kept(s, d) => Flow(d, s)
Arrivals == \A d, s \in Tasks : ~Kept(Mapping(s), Mapping(d)) => Arrives(d, s)
Sound == (\A p \in Proc : HackInv(p)) /\ Flows /\ Arrivals

\* A pair of processors between which nothing happens.
LEMMA AheadSame ==
    ASSUME program' = program, NEW d \in Proc, NEW s \in Proc, SamePast(d, s), SameGone(d, s)
    PROVE  Ahead(d, s)' = Ahead(d, s)
<1>1. Gave(d, s)' = Gave(d, s) /\ Took(d, s)' = Took(d, s)
  BY GaveSame, TookSame
<1> QED
  BY <1>1 DEF Ahead

\* A processor that does nothing.
LEMMA Idle ==
    ASSUME TypeInv, NEW p \in Proc, Elsewhere(p), NEW q \in Proc, q # p, NEW r \in Proc
    PROVE  SamePast(r, q) /\ SameGone(q, r)
<1>1. program' = program /\ pc'[q] = pc[q] /\ at'[q] = at[q] /\ loop'[q] = loop[q]
  BY DEF Elsewhere
<1> QED
  BY <1>1, PastStays

\* What is due stays so.
LEMMA CallStepKinds ==
    ASSUME TypeInv, NEW p \in Proc, CallStep(p), NEW d \in Proc, NEW s \in Proc
    PROVE  /\ Due(d, s)' = Due(d, s) /\ Latest(d, s)' = Latest(d, s) /\ Addressed(d, s)' = Addressed(d, s)
           /\ program' = program /\ Kept(s, d)' = Kept(s, d)
           /\ at'[s] <= Len(program.calls[s]) => at[s] <= Len(program.calls[s])
<1>1. /\ program' = program /\ glue' = glue /\ theTaskQueue' = theTaskQueue /\ next' = next /\ step' = step
      /\ \A q \in Proc : q # p => pc'[q] = pc[q] /\ at'[q] = at[q]
      /\ at[p] <= Len(program.calls[p])
      /\ pc[p] \notin {"message", "tsend"} /\ pc'[p] \notin {"message", "tsend"}
  BY DEF CallStep, Elsewhere, taskVars
<1>2. \A q \in Proc : Mapping(Peer(q))' = Mapping(Peer(q))
  BY <1>1 DEF Mapping, Peer, Body, Current
<1>3. Due(d, s)' = Due(d, s)
  BY <1>1, <1>2 DEF Due
<1>4. Latest(d, s)' = Latest(d, s)
  BY <1>1, <1>2 DEF Latest
<1>5. Addressed(d, s)' = Addressed(d, s)
  BY <1>1 DEF Addressed, Tasks, Mapping
<1> QED
  BY <1>1, <1>3, <1>4, <1>5 DEF Kept

\* The streams of all pairs: of the others, and of the one where something
\* happens, if it does.
LEMMA FlowCall ==
    ASSUME TypeInv, NEW p \in Proc, CallStep(p), Flows, NEW d \in Proc, NEW s \in Proc,
           \A q, r \in Proc : q # d \/ r # s =>
               Stream(q, r)' = Stream(q, r) /\ Ahead(q, r)' = Ahead(q, r),
           ~Kept(s, d) => Flow(d, s)'
    PROVE  Flows'
<1> SUFFICES ASSUME NEW q \in Proc, NEW r \in Proc, ~Kept(r, q)'
             PROVE  Flow(q, r)'
  BY DEF Flows
<1>1. ~Kept(r, q)
  BY CallStepKinds
<1>2. CASE q = d /\ r = s
  BY <1>1, <1>2
<1>3. CASE q # d \/ r # s
  <2>1. Flow(q, r)
    BY <1>1 DEF Flows
  <2>2. Stream(q, r)' = Stream(q, r) /\ Ahead(q, r)' = Ahead(q, r)
    BY <1>3
  <2>3. /\ Due(q, r)' = Due(q, r) /\ Latest(q, r)' = Latest(q, r) /\ Addressed(q, r)' = Addressed(q, r)
        /\ program' = program
        /\ at'[r] <= Len(program.calls[r]) => at[r] <= Len(program.calls[r])
    BY CallStepKinds
  <2> QED
    BY <2>1, <2>2, <2>3 DEF Flow
<1> QED
  BY <1>2, <1>3

\* The messages of tasks are sizes and messages.
LEMMA TwoKindsHere ==
    ASSUME NEW d, NEW s
    PROVE  TwoKinds(Addressed(d, s)) /\ Due(d, s) \in {"size", "message"} /\ Latest(d, s) \in {"size", "message"}
<1>1. Addressed(d, s) \subseteq Msg /\ \A m \in Addressed(d, s) : m.what \in {"size", "message"}
  BY DEF Addressed, Msg, Tagged
<1> QED
  BY <1>1 DEF TwoKinds, Due, Latest

\* A call sends,
LEMMA FlowSent ==
    ASSUME TypeInv, NEW p \in Proc, CallStep(p), Flows, NEW d \in Proc, SentOne(p, d),
           NEW m \in Plain, IF Kept(p, d) THEN Still ELSE Put(d, p, m)
    PROVE  Flows'
<1>0. program' = program /\ Elsewhere(p)
  BY DEF CallStep, Elsewhere
<1>1. ASSUME NEW q \in Proc, NEW r \in Proc, q # d \/ r # p
      PROVE  Stream(q, r)' = Stream(q, r) /\ Ahead(q, r)' = Ahead(q, r)
  <2>1. Stream(q, r)' = Stream(q, r)
    BY <1>1 DEF Still, Put, StillBut
  <2>2. SamePast(q, r)
    BY <1>0, <1>1, Idle DEF SentOne
  <2>3. SameGone(q, r)
    BY <1>0, Idle DEF SentOne
  <2> QED
    BY <1>0, <2>1, <2>2, <2>3, AheadSame
<1>2. ASSUME ~Kept(p, d)
      PROVE  Flow(d, p)'
  <2>1. Flow(d, p) /\ at[p] <= Len(program.calls[p])
    BY <1>2 DEF Flows, CallStep
  <2>2. Ahead(d, p)' = Ahead(d, p) + 1
    <3>1. SameGone(d, p)
      BY <1>0, Idle DEF SentOne
    <3>2. Took(d, p)' = Took(d, p)
      BY <1>0, <3>1, TookSame
    <3>3. Cardinality(Gave(d, p))' = Cardinality(Gave(d, p)) + 1
      BY DEF SentOne
    <3> QED
      BY <3>2, <3>3, Counted DEF Ahead
  <2>3. PICK q \in Seq(Msg) : q = Stream(d, p)
    BY StreamType DEF TypeInv
  <2>4. Good(q, Ahead(d, p), Addressed(d, p), Due(d, p), Latest(d, p)) /\ Len(q) = Ahead(d, p)
    BY <2>1, <2>3 DEF Flow
  <2>5. PICK r : r = Append(q, m)
    OBVIOUS
  <2>6. Good(r, Ahead(d, p) + 1, Addressed(d, p), Due(d, p), Latest(d, p)) /\ Len(r) = Ahead(d, p) + 1
    BY <2>4, <2>5, TwoKindsHere, AddPlain
  <2>7. Stream(d, p)' = r
    BY <1>2, <2>3, <2>5 DEF Put, Added
  <2>8. Due(d, p)' = Due(d, p) /\ Latest(d, p)' = Latest(d, p) /\ Addressed(d, p)' = Addressed(d, p)
    BY CallStepKinds
  <2> QED
    BY <2>2, <2>6, <2>7, <2>8 DEF Flow
<1> QED
  BY <1>1, <1>2, FlowCall

\* one that takes takes one of a call,
LEMMA TakenCounted ==
    ASSUME TypeInv, NEW p \in Proc, NEW s \in Proc, Flow(p, s), ~Kept(s, p), Stream(p, s) # <<>>,
           at[p] \in Takings(program, p, s), ~Gone(p, s, at[p])
    PROVE  Ahead(p, s) > 0
<1>1. PICK q \in Seq(Msg) : q = Stream(p, s)
  BY StreamType DEF TypeInv
<1>2. at[s] <= Len(program.calls[s]) => Len(q) = Ahead(p, s)
  BY <1>1 DEF Flow
<1>3. CASE at[s] <= Len(program.calls[s])
  <2>1. Len(q) \in Nat /\ Len(q) >= 1
    BY <1>1, HeadTail
  <2> QED
    BY <1>2, <1>3, <2>1
<1>4. CASE ~(at[s] <= Len(program.calls[s]))
  <2>1. at[s] \in Nat /\ Len(program.calls[s]) \in Nat
    BY CallFacts DEF TypeInv
  <2>2. at[s] > Len(program.calls[s])
    BY <1>4, <2>1
  <2> QED
    BY <2>2, AheadSome
<1> QED
  BY <1>3, <1>4

\* and leaves the others,
LEMMA FlowTook ==
    ASSUME TypeInv, NEW p \in Proc, CallStep(p), Flows, NEW s \in Proc, TookOne(p, s),
           IF Kept(s, p) THEN Still ELSE Taken(p, s)
    PROVE  Flows' /\ (~Kept(s, p) => Head(Stream(p, s)) \in Plain)
<1>0. program' = program /\ Elsewhere(p)
  BY DEF CallStep, Elsewhere
<1>1. ASSUME NEW q \in Proc, NEW r \in Proc, q # p \/ r # s
      PROVE  Stream(q, r)' = Stream(q, r) /\ Ahead(q, r)' = Ahead(q, r)
  <2>1. Stream(q, r)' = Stream(q, r)
    BY <1>1 DEF Still, Taken, StillBut
  <2>2. SamePast(q, r)
    BY <1>0, Idle DEF TookOne
  <2>3. SameGone(q, r)
    BY <1>0, <1>1, Idle DEF TookOne
  <2> QED
    BY <1>0, <2>1, <2>2, <2>3, AheadSame
<1>2. ASSUME ~Kept(s, p)
      PROVE  Flow(p, s)' /\ Head(Stream(p, s)) \in Plain
  <2>1. Flow(p, s)
    BY <1>2 DEF Flows
  <2>2. Ahead(p, s)' = Ahead(p, s) - 1
    <3>1. SamePast(p, s)
      BY <1>0, Idle DEF TookOne
    <3>2. Gave(p, s)' = Gave(p, s)
      BY <1>0, <3>1, GaveSame
    <3>3. Cardinality(Took(p, s))' = Cardinality(Took(p, s)) + 1
      BY DEF TookOne
    <3> QED
      BY <3>2, <3>3, Counted DEF Ahead
  <2>3. PICK q \in Seq(Msg) : q = Stream(p, s)
    BY StreamType DEF TypeInv
  <2>4. /\ Good(q, Ahead(p, s), Addressed(p, s), Due(p, s), Latest(p, s)) /\ q # <<>>
        /\ at[s] <= Len(program.calls[s]) => Len(q) = Ahead(p, s)
    BY <1>2, <2>1, <2>3 DEF Flow, Taken
  <2>5. Ahead(p, s) > 0
    BY <1>2, <2>1, TakenCounted DEF TookOne, Taken
  <2>6. PICK r : r = Tail(q)
    OBVIOUS
  <2>7. Good(r, Ahead(p, s) - 1, Addressed(p, s), Due(p, s), Latest(p, s)) /\ Head(q) \in Plain
    BY <2>4, <2>5, <2>6, TwoKindsHere, TakePlain
  <2>8. Stream(p, s)' = r
    BY <1>2, <2>3, <2>6 DEF Taken
  <2>9. /\ Due(p, s)' = Due(p, s) /\ Latest(p, s)' = Latest(p, s) /\ Addressed(p, s)' = Addressed(p, s)
        /\ program' = program
        /\ at'[s] <= Len(program.calls[s]) => at[s] <= Len(program.calls[s])
    BY CallStepKinds
  <2>10. Len(r) = Len(q) - 1
    BY <2>4, <2>6, HeadTail
  <2> QED
    BY <2>2, <2>3, <2>4, <2>7, <2>8, <2>9, <2>10 DEF Flow
<1> QED
  BY <1>1, <1>2, FlowCall

\* or does neither.
LEMMA FlowNeither ==
    ASSUME TypeInv, NEW p \in Proc, CallStep(p), Flows, Neither(p), Still
    PROVE  Flows'
<1>0. program' = program /\ Elsewhere(p)
  BY DEF CallStep, Elsewhere
<1>1. ASSUME NEW q \in Proc, NEW r \in Proc
      PROVE  Stream(q, r)' = Stream(q, r) /\ Ahead(q, r)' = Ahead(q, r)
  <2>1. Stream(q, r)' = Stream(q, r)
    BY DEF Still
  <2>2. SamePast(q, r) /\ SameGone(q, r)
    BY <1>0, Idle DEF Neither
  <2> QED
    BY <1>0, <2>1, <2>2, AheadSame
<1> SUFFICES ASSUME NEW q \in Proc, NEW r \in Proc, ~Kept(r, q)'
             PROVE  Flow(q, r)'
  BY DEF Flows
<1>2. ~Kept(r, q)
  BY CallStepKinds
<1>3. Flow(q, r)
  BY <1>2 DEF Flows
<1>4. /\ Due(q, r)' = Due(q, r) /\ Latest(q, r)' = Latest(q, r) /\ Addressed(q, r)' = Addressed(q, r)
      /\ program' = program
      /\ at'[r] <= Len(program.calls[r]) => at[r] <= Len(program.calls[r])
  BY CallStepKinds
<1> QED
  BY <1>1, <1>3, <1>4 DEF Flow

-----------------------------------------------------------------------------
(* What is sound before a call is sound after it. *)

\* A call sends for no task.
LEMMA CallStepSentTo ==
    ASSUME TypeInv, NEW p \in Proc, CallStep(p), NEW d \in Tasks, NEW s \in Tasks
    PROVE  /\ SentTo(d, s)' = SentTo(d, s) /\ Mapping(s)' = Mapping(s) /\ Mapping(d)' = Mapping(d)
           /\ Mapping(s) \in Proc /\ Mapping(d) \in Proc
<1>1. /\ program' = program /\ theTaskQueue' = theTaskQueue /\ next' = next /\ step' = step
      /\ \A q \in Proc : pc'[q] \in AtWork <=> pc[q] \in AtWork
  BY DEF CallStep, Elsewhere, taskVars, AtWork
<1>2. Mapping(s)' = Mapping(s) /\ Mapping(d)' = Mapping(d)
  BY <1>1 DEF Mapping
<1>3. Mapping(s) \in Proc /\ Mapping(d) \in Proc
  BY TaskFacts
<1>4. Completed(s)' = Completed(s)
  BY <1>1, <1>2, <1>3 DEF Completed, Began, Runs, Current, AtWork
<1> QED
  BY <1>1, <1>2, <1>3, <1>4 DEF SentTo

\* What the tasks have sent and have stays as it is.
LEMMA ArriveCall ==
    ASSUME TypeInv, NEW p \in Proc, CallStep(p), Arrivals, NEW d \in Proc, NEW s \in Proc,
           \A q, r \in Proc : (q # d \/ r # s) => Stream(q, r)' = Stream(q, r),
           \A t, u \in Tasks : \A S :
               Mapping(t) = d /\ Mapping(u) = s /\ ~Kept(s, d) /\
               Chain(received[t], theQueue[d], Stream(d, s), S, t, u) =>
                   Chain(received[t], theQueue[d], Stream(d, s)', S, t, u)
    PROVE  Arrivals'
<1>1. Tasks' = Tasks /\ theQueue' = theQueue /\ received' = received /\ program' = program
  BY DEF CallStep, Elsewhere, taskVars, Tasks
<1> SUFFICES ASSUME NEW t \in Tasks, NEW u \in Tasks, ~Kept(Mapping(u), Mapping(t))'
             PROVE  Arrives(t, u)'
  BY <1>1 DEF Arrivals
<1>2. /\ SentTo(t, u)' = SentTo(t, u) /\ Mapping(u)' = Mapping(u) /\ Mapping(t)' = Mapping(t)
      /\ Mapping(u) \in Proc /\ Mapping(t) \in Proc
  BY CallStepSentTo
<1>3. PICK q \in Proc : q = Mapping(t)
  BY <1>2
<1>4. PICK r \in Proc : r = Mapping(u)
  BY <1>2
<1>5. ~Kept(r, q)
  <2>1. ~Kept(r, q)'
    BY <1>2, <1>3, <1>4 DEF Kept
  <2> QED
    BY <2>1, CallStepKinds
<1>6. Chain(received[t], theQueue[q], Stream(q, r), SentTo(t, u), t, u)
  <2>1. Arrives(t, u)
    BY <1>3, <1>4, <1>5 DEF Arrivals
  <2> QED
    BY <1>3, <1>4, <2>1 DEF Arrives
<1>7. Chain(received[t], theQueue[q], Stream(q, r)', SentTo(t, u), t, u)
  <2>1. CASE q = d /\ r = s
    BY <1>3, <1>4, <1>5, <1>6, <2>1
  <2>2. CASE q # d \/ r # s
    BY <1>6, <2>2
  <2> QED
    BY <2>1, <2>2
<1>8. Stream(Mapping(t), Mapping(u))' = Stream(q, r)'
  BY <1>2, <1>3, <1>4 DEF Stream
<1> QED
  BY <1>1, <1>2, <1>3, <1>7, <1>8 DEF Arrives

\* A plain message is of no task.
LEMMA PlainOfNone ==
    ASSUME NEW m \in Plain, NEW d, NEW s
    PROVE  ~Own(m, d, s) /\ m \in Msg
  BY DEF Plain, Own, Msg

\* A call sends,
LEMMA ArriveSent ==
    ASSUME TypeInv, NEW p \in Proc, CallStep(p), Arrivals, NEW d \in Proc,
           NEW m \in Plain, IF Kept(p, d) THEN Still ELSE Put(d, p, m)
    PROVE  Arrivals'
<1>1. \A q, r \in Proc : (q # d \/ r # p) => Stream(q, r)' = Stream(q, r)
  BY DEF Still, Put, StillBut
<1>2. ASSUME NEW t, NEW u, NEW S, ~Kept(p, d),
             Chain(received[t], theQueue[d], Stream(d, p), S, t, u)
      PROVE  Chain(received[t], theQueue[d], Stream(d, p)', S, t, u)
  <2>1. Stream(d, p) \in Seq(Msg)
    BY StreamType DEF TypeInv
  <2>2. Added(Stream(d, p)', Stream(d, p), m)
    BY <1>2 DEF Put
  <2>3. PICK c \in Seq(Msg) : c = Stream(d, p)
    BY <2>1
  <2>4. PICK cc : cc = Stream(d, p)'
    OBVIOUS
  <2>5. PICK h : h = received[t]
    OBVIOUS
  <2>6. PICK e : e = theQueue[d]
    OBVIOUS
  <2>7. Chain(h, e, c, S, t, u) /\ Added(cc, c, m)
    BY <1>2, <2>2, <2>3, <2>4, <2>5, <2>6
  <2>8. Chain(h, e, cc, S, t, u)
    BY <2>7, ChainPut, PlainOfNone
  <2> QED
    BY <2>4, <2>5, <2>6, <2>8
<1> QED
  BY <1>1, <1>2, ArriveCall

\* takes,
LEMMA ArriveTook ==
    ASSUME TypeInv, NEW p \in Proc, CallStep(p), Arrivals, NEW s \in Proc,
           IF Kept(s, p) THEN Still ELSE Taken(p, s), ~Kept(s, p) => Head(Stream(p, s)) \in Plain
    PROVE  Arrivals'
<1>1. \A q, r \in Proc : (q # p \/ r # s) => Stream(q, r)' = Stream(q, r)
  BY DEF Still, Taken, StillBut
<1>2. ASSUME NEW t, NEW u, NEW S, ~Kept(s, p),
             Chain(received[t], theQueue[p], Stream(p, s), S, t, u)
      PROVE  Chain(received[t], theQueue[p], Stream(p, s)', S, t, u)
  <2>1. PICK c \in Seq(Msg) : c = Stream(p, s)
    BY StreamType DEF TypeInv
  <2>2. Stream(p, s)' = Tail(c) /\ c # <<>> /\ Head(c) \in Plain
    BY <1>2, <2>1 DEF Taken
  <2>3. PICK h : h = received[t]
    OBVIOUS
  <2>4. PICK e : e = theQueue[p]
    OBVIOUS
  <2>5. Chain(h, e, c, S, t, u) /\ ~Own(Head(c), t, u)
    BY <1>2, <2>1, <2>2, <2>3, <2>4, PlainOfNone
  <2>6. Chain(h, e, Tail(c), S, t, u)
    BY <2>2, <2>5, ChainDrop
  <2> QED
    BY <2>2, <2>3, <2>4, <2>6
<1> QED
  BY <1>1, <1>2, ArriveCall

\* or does neither.
LEMMA ArriveNeither ==
    ASSUME TypeInv, NEW p \in Proc, CallStep(p), Arrivals, Still
    PROVE  Arrivals'
<1>1. \A q, r \in Proc : Stream(q, r)' = Stream(q, r)
  BY DEF Still
<1> QED
  BY <1>1, ArriveCall

\* The list of messages to oneself with a message in front,
LEMMA HackedPut ==
    ASSUME NEW q \in Seq(Msg), NEW a, Hacked(q, a), NEW m \in Msg, NEW b,
           m.what = "size" => b = "open", a = "open" => m.what = "message"
    PROVE  Hacked(<<m>> \o q, b) /\ <<m>> \o q \in Seq(Msg)
<1>0. <<m>> \in Seq(Msg)
  OBVIOUS
<1>1. PICK o \in Seq(Msg) : o = <<m>>
  BY <1>0
<1>2. PICK r \in Seq(Msg) : r = o \o q
  BY ConcatProperties
<1>3. /\ Len(r) = Len(o) + Len(q) /\ Len(o) = 1 /\ o[1] = m /\ Len(q) \in Nat
      /\ \A i \in 1 .. Len(o) + Len(q) : r[i] = IF i <= Len(o) THEN o[i] ELSE q[i - Len(o)]
  BY <1>1, <1>2, ConcatProperties
<1>4. r[1] = m /\ \A i \in 1 .. Len(q) : r[i + 1] = q[i]
  <2>1. r[1] = m
    BY <1>3
  <2>2. ASSUME NEW i \in 1 .. Len(q)
        PROVE  r[i + 1] = q[i]
    <3>1. i + 1 \in 1 .. Len(o) + Len(q) /\ ~(i + 1 <= Len(o)) /\ i + 1 - Len(o) = i
      BY <1>3
    <3> QED
      BY <1>3, <3>1
  <2> QED
    BY <2>1, <2>2
<1>5. ASSUME NEW i \in DOMAIN r, r[i].what = "size"
      PROVE  (i = 1 /\ b = "open") \/ (i > 1 /\ r[i - 1].what = "message")
  <2>1. i \in 1 .. Len(q) + 1
    BY <1>3
  <2>2. CASE i = 1
    BY <1>4, <1>5, <2>2
  <2>3. CASE i # 1
    <3>1. PICK j \in 1 .. Len(q) : i = j + 1
      <4>1. i - 1 \in 1 .. Len(q) /\ i = (i - 1) + 1
        BY <1>3, <2>1, <2>3
      <4> QED
        BY <4>1
    <3>2. q[j].what = "size" /\ j \in DOMAIN q
      BY <1>4, <1>5, <3>1
    <3>3. CASE j = 1 /\ a = "open"
      BY <1>4, <3>1, <3>3
    <3>4. CASE j > 1 /\ q[j - 1].what = "message"
      <4>1. j - 1 \in 1 .. Len(q) /\ (j - 1) + 1 = i - 1
        BY <1>3, <3>1, <3>4
      <4> QED
        BY <1>4, <3>1, <3>4, <4>1
    <3> QED
      BY <3>2, <3>3, <3>4 DEF Hacked
  <2> QED
    BY <2>2, <2>3
<1> QED
  BY <1>1, <1>2, <1>5 DEF Hacked

\* or one that is taken.
LEMMA HackedTake ==
    ASSUME NEW q \in Seq(Msg), q # <<>>, NEW a, Hacked(q, a), NEW b, Head(q).what # "message"
    PROVE  Hacked(Tail(q), b)
<1>1. PICK r \in Seq(Msg) : r = Tail(q)
  BY HeadTail
<1>2. /\ Len(q) \in Nat /\ Len(q) >= 1 /\ Len(r) = Len(q) - 1 /\ Head(q) = q[1]
      /\ \A i \in 1 .. Len(q) - 1 : r[i] = q[i + 1]
  BY <1>1, HeadTail
<1>3. ASSUME NEW i \in DOMAIN r, r[i].what = "size"
      PROVE  i > 1 /\ r[i - 1].what = "message"
  <2>1. i \in 1 .. Len(q) - 1 /\ i + 1 \in DOMAIN q /\ i + 1 # 1 /\ (i + 1) - 1 = i
    BY <1>2
  <2>2. q[i + 1].what = "size"
    BY <1>2, <1>3, <2>1
  <2>3. q[i].what = "message"
    BY <2>1, <2>2 DEF Hacked
  <2>4. i > 1
    <3>1. q[1].what # "message"
      BY <1>2
    <3>2. i # 1
      BY <2>3, <3>1
    <3> QED
      BY <1>2, <2>1, <3>2
  <2>5. i - 1 \in 1 .. Len(q) - 1 /\ (i - 1) + 1 = i
    BY <1>2, <2>1, <2>4
  <2> QED
    BY <1>2, <2>3, <2>4, <2>5
<1> QED
  BY <1>1, <1>3 DEF Hacked

\* A processor is at no tsend to itself.
LEMMA SlotClosed ==
    ASSUME NEW p, pc[p] # "tsend"
    PROVE  Slot(p) = "closed"
  BY DEF Slot

\* A call leaves the lists sound.
LEMMA HackCall ==
    ASSUME TypeInv, NEW p \in Proc, CallStep(p), \A q \in Proc : HackInv(q),
           \A q \in Proc : q # p => hack'[q] = hack[q],
           Hacked(hack[p], "closed") => Hacked(hack'[p], "closed")
    PROVE  \A q \in Proc : HackInv(q)'
<1> SUFFICES ASSUME NEW q \in Proc
             PROVE  HackInv(q)'
  OBVIOUS
<1>1. /\ program' = program /\ glue' = glue /\ theTaskQueue' = theTaskQueue /\ next' = next /\ step' = step
      /\ q # p => pc'[q] = pc[q]
      /\ pc'[p] # "message"
  BY DEF CallStep, Elsewhere, taskVars
<1>2. Mapping(Peer(q))' = Mapping(Peer(q))
  BY <1>1 DEF Mapping, Peer, Body, Current
<1>3. q # p => Slot(q)' = Slot(q)
  BY <1>1, <1>2 DEF Slot, Kept
<1>4. Slot(p) = "closed" /\ Slot(p)' = "closed"
  BY DEF Slot, CallStep
<1>5. HackInv(q) /\ HackInv(p)
  OBVIOUS
<1>6. CASE q = p
  BY <1>1, <1>4, <1>5, <1>6 DEF HackInv
<1>7. CASE q # p
  BY <1>1, <1>2, <1>3, <1>5, <1>7 DEF HackInv
<1> QED
  BY <1>6, <1>7

\* Each call.
LEMMA SentSound ==
    ASSUME TypeInv, NEW p \in Proc, CallStep(p), Sound, pc'[p] # "tsend", NEW d \in Proc, SentOne(p, d),
           NEW m \in Plain, SendReal(p, d, m)
    PROVE  Sound'
<1>1. MailTypes /\ m \in Msg /\ pc[p] # "tsend"
  BY PlainOfNone DEF TypeInv, CallStep
<1>2. /\ Kept(p, d) => Still /\ hack' = [hack EXCEPT ![p] = <<m>> \o @]
      /\ ~Kept(p, d) => Put(d, p, m) /\ hack' = hack
  BY <1>1, SendEffect
<1>3. Flows'
  BY <1>2, FlowSent DEF Sound
<1>4. Arrivals'
  BY <1>2, ArriveSent DEF Sound
<1>5. \A q \in Proc : q # p => hack'[q] = hack[q]
  BY <1>2 DEF TypeInv, MailTypes
<1>6. ASSUME Hacked(hack[p], "closed")
      PROVE  Hacked(hack'[p], "closed")
  <2>1. CASE Kept(p, d)
    <3>1. hack'[p] = <<m>> \o hack[p] /\ hack[p] \in Seq(Msg)
      BY <1>1, <1>2, <2>1 DEF MailTypes
    <3>2. m.what # "size"
      BY DEF Plain
    <3>3. Hacked(<<m>> \o hack[p], "closed")
      BY <1>1, <1>6, <3>1, <3>2, HackedPut
    <3> QED
      BY <3>1, <3>3
  <2>2. CASE ~Kept(p, d)
    BY <1>1, <1>2, <1>6, <2>2 DEF Hacked
  <2> QED
    BY <2>1, <2>2
<1>7. \A q \in Proc : HackInv(q)'
  BY <1>5, <1>6, HackCall DEF Sound
<1> QED
  BY <1>3, <1>4, <1>7 DEF Sound

\* A step that takes a message,
LEMMA TookSound ==
    ASSUME TypeInv, SleepInvs, NEW p \in Proc, CallStep(p), Sound, NEW s \in Proc, TookOne(p, s),
           Take(p, s), Kept(s, p) => Head(Box(p, s)).what # "message"
    PROVE  Sound'
<1>1. MailTypes /\ glue \in {"panda", "mpi"} /\ pc[p] # "tsend" /\ (glue = "mpi" => queue[<<p, s>>] = <<>>)
  BY CallFacts DEF TypeInv, CallStep, SleepInvs, SleepInv
<1>2. /\ Kept(s, p) => Still /\ hack[p] # <<>> /\ Box(p, s) = hack[p] /\ hack' = [hack EXCEPT ![p] = Tail(@)]
      /\ ~Kept(s, p) => Taken(p, s) /\ hack' = hack
  BY <1>1, TakeEffect
<1>3. Flows' /\ (~Kept(s, p) => Head(Stream(p, s)) \in Plain)
  BY <1>2, FlowTook DEF Sound
<1>4. Arrivals'
  BY <1>2, <1>3, ArriveTook DEF Sound
<1>5. \A q \in Proc : q # p => hack'[q] = hack[q]
  BY <1>2 DEF TypeInv, MailTypes
<1>6. ASSUME Hacked(hack[p], "closed")
      PROVE  Hacked(hack'[p], "closed")
  <2>1. CASE Kept(s, p)
    <3>1. hack'[p] = Tail(hack[p]) /\ hack[p] \in Seq(Msg) /\ hack[p] # <<>> /\ Head(hack[p]).what # "message"
      BY <1>1, <1>2, <2>1 DEF MailTypes
    <3>2. Hacked(Tail(hack[p]), "closed")
      BY <1>6, <3>1, HackedTake
    <3> QED
      BY <3>1, <3>2
  <2>2. CASE ~Kept(s, p)
    BY <1>1, <1>2, <1>6, <2>2 DEF Hacked
  <2> QED
    BY <2>1, <2>2
<1>7. \A q \in Proc : HackInv(q)'
  BY <1>5, <1>6, HackCall DEF Sound
<1> QED
  BY <1>3, <1>4, <1>7 DEF Sound

\* and one that does neither.
LEMMA NeitherSound ==
    ASSUME TypeInv, NEW p \in Proc, CallStep(p), Sound, Neither(p), mailVars' = mailVars
    PROVE  Sound'
<1>1. pc[p] # "tsend" /\ hack' = hack /\ Still
  BY DEF CallStep, mailVars, Still, Stream
<1>2. Flows' /\ Arrivals'
  BY <1>1, FlowNeither, ArriveNeither DEF Sound
<1>3. \A q \in Proc : HackInv(q)'
  BY <1>1, HackCall DEF Sound, Hacked
<1> QED
  BY <1>2, <1>3 DEF Sound

\* Before a call of p, and after it.
Kind(p) == After(p) /\ (pc'[p] # "error" => Sound')

\* Each call keeps what is sound: vnus_send,
LEMMA SendSound ==
    ASSUME NEW p \in Proc, Ready(p), Sound, Send(p)
    PROVE  Kind(p)
<1>1. TypeInv /\ After(p) /\ pc' = pc /\ pc[p] = "run"
  BY SendStep DEF Ready, Send
<1>2. PICK d : d = Destinations(Arg(p).dest)[loop[p]]
  OBVIOUS
<1>3. d \in Proc /\ SentOne(p, d) /\ SendReal(p, d, [what |-> "data"])
  BY <1>1, <1>2, SendTo1, SendCounts DEF Ready, Local, Send
<1>4. [what |-> "data"] \in Plain
  BY DEF Plain
<1> QED
  BY <1>1, <1>3, <1>4, SentSound DEF After, Kind

\* vnus_receive,
LEMMA ReceiveSound ==
    ASSUME NEW p \in Proc, Ready(p), Sound, Receive(p)
    PROVE  Kind(p)
<1>1. TypeInv /\ SleepInvs /\ After(p) /\ CallStep(p)
  BY ReceiveStep DEF Ready, After
<1>2. PICK s \in Proc : s = Arg(p).peer
  BY ReceiveStep
<1>3. VnusReceive(p, s)
  BY <1>2 DEF Receive
<1>4. ASSUME pc'[p] # "error"
      PROVE  Sound'
  <2>1. TookOne(p, s)
    BY <1>2, <1>4, ReceiveCounts
  <2>2. ~Refused(p, s, "data")
    BY <1>1, <1>2, <1>4 DEF Receive, Goto, TypeInv
  <2>3. Kept(s, p) => Head(Box(p, s)).what # "message"
    BY <2>2 DEF Refused, Kept
  <2>4. Take(p, s)
    BY <1>3, <2>2 DEF Refused, VnusReceive
  <2> QED
    BY <1>1, <2>1, <2>3, <2>4, TookSound
<1> QED
  BY <1>1, <1>4 DEF Kind

\* and the steps of a barrier
LEMMA BarrierSendSound ==
    ASSUME NEW p \in Proc, Ready(p), Sound, BarrierSend(p)
    PROVE  Kind(p)
<1>1. TypeInv /\ After(p) /\ CallStep(p) /\ SentOne(p, 0) /\ SendReal(p, 0, [what |-> "byte"]) /\ 0 \in Proc
  BY BarrierSendStep, BarrierSendCounts, Zero DEF Ready, BarrierSend, After
<1>2. [what |-> "byte"] \in Plain /\ pc'[p] # "tsend"
  BY <1>1 DEF Plain, CallStep
<1> QED
  BY <1>1, <1>2, SentSound DEF Kind

\* of another processor,
LEMMA BarrierAnswerSound ==
    ASSUME NEW p \in Proc, Ready(p), Sound, BarrierAnswer(p)
    PROVE  Kind(p)
<1>1. /\ TypeInv /\ SleepInvs /\ After(p) /\ CallStep(p) /\ TookOne(p, 0) /\ Take(p, 0) /\ 0 \in Proc
      /\ ~Kept(0, p)
  BY BarrierAnswerStep, BarrierAnswerCounts, Zero DEF Ready, BarrierAnswer, After, Kept
<1> QED
  BY <1>1, TookSound DEF Kind

\* and of processor 0, which collects,
LEMMA BarrierCollectSound ==
    ASSUME Ready(0), Sound, BarrierCollect
    PROVE  Kind(0)
<1>1. /\ TypeInv /\ SleepInvs /\ After(0) /\ CallStep(0) /\ 0 \in Proc
      /\ Take(0, loop[0]) /\ loop[0] \in Proc /\ ~Kept(loop[0], 0)
  BY BarrierCollectStep, Zero DEF Ready, BarrierCollect, After, Kept
<1>2. PICK s \in Proc : s = loop[0]
  BY <1>1
<1>3. TookOne(0, s) /\ Take(0, s) /\ ~Kept(s, 0)
  BY <1>1, <1>2, BarrierCollectCounts
<1> QED
  BY <1>1, <1>3, TookSound DEF Kind

\* enters,
LEMMA BarrierEnter0Sound ==
    ASSUME Ready(0), Sound, BarrierEnter0
    PROVE  Kind(0)
<1>1. /\ TypeInv /\ After(0) /\ CallStep(0) /\ 0 \in Proc /\ mailVars' = mailVars /\ Neither(0)
  BY BarrierEnter0Step, BarrierEnter0Counts, Zero DEF Ready, BarrierEnter0, After
<1> QED
  BY <1>1, NeitherSound DEF Kind

\* and answers,
LEMMA BarrierReleaseSound ==
    ASSUME Ready(0), Sound, BarrierRelease
    PROVE  Kind(0)
<1>1. TypeInv /\ After(0) /\ CallStep(0) /\ 0 \in Proc /\ pc'[0] # "tsend"
  BY BarrierReleaseStep, Zero DEF Ready, After, CallStep
<1>2. CASE loop[0] < N
  <2>1. PICK d : d = loop[0]
    OBVIOUS
  <2>2. SentOne(0, d) /\ SendReal(0, d, [what |-> "byte"])
    BY <1>2, <2>1, BarrierReleaseCounts DEF BarrierRelease
  <2>3. d \in Proc /\ [what |-> "byte"] \in Plain
    BY <1>1, <1>2, <2>1, NAssumption DEF Plain, Proc, TypeInv
  <2> QED
    BY <1>1, <2>2, <2>3, SentSound DEF Kind
<1>3. CASE ~(loop[0] < N)
  <2>1. Neither(0) /\ mailVars' = mailVars
    BY <1>3, BarrierReleaseCounts DEF BarrierRelease
  <2> QED
    BY <1>1, <2>1, NeitherSound DEF Kind
<1> QED
  BY <1>2, <1>3

\* and of MPI.
LEMMA MpiBarrierSound ==
    ASSUME NEW p \in Proc, Ready(p), Sound, MpiBarrier(p)
    PROVE  Kind(p)
<1>1. TypeInv /\ After(p) /\ CallStep(p) /\ mailVars' = mailVars /\ Neither(p)
  BY MpiBarrierStep, MpiBarrierCounts DEF Ready, MpiBarrier, After
<1> QED
  BY <1>1, NeitherSound DEF Kind

\* All calls.
LEMMA CallSound ==
    ASSUME NEW p \in Proc, Ready(p), Sound,
           \/ Send(p) \/ Receive(p) \/ BarrierSend(p) \/ BarrierAnswer(p) \/ MpiBarrier(p)
           \/ p = 0 /\ (BarrierEnter0 \/ BarrierCollect \/ BarrierRelease)
    PROVE  TypeInv' /\ SleepInvs' /\ Elsewhere(p) /\ Local(p)' /\ (pc'[p] # "error" => Sound')
<1>1. Kind(p)
  BY SendSound, ReceiveSound, BarrierSendSound, BarrierAnswerSound, MpiBarrierSound,
     BarrierEnter0Sound, BarrierCollectSound, BarrierReleaseSound
<1>2. CallStep(p) /\ CallInv(p)' /\ TypeInv /\ TaskInv(p) /\ SortedInv(p) /\ EarlyInv(p)
  BY <1>1 DEF Kind, After, Ready, Local
<1>3. TaskInv(p)' /\ SortedInv(p)' /\ EarlyInv(p)'
  BY <1>2, CallStepTasks
<1> QED
  BY <1>1, <1>2, <1>3 DEF Kind, After, Local, CallStep

-----------------------------------------------------------------------------
(* Messages that move inside a processor, and processors that fall asleep. *)

\* The task that p runs, and the one that its call names.
LEMMA AtTask ==
    ASSUME TypeInv, NEW p \in Proc, TaskInv(p), pc[p] \in AtWork
    PROVE  /\ Current(p) \in Tasks /\ Mapping(Current(p)) = p /\ next[p] - 1 \in DOMAIN theTaskQueue[p]
           /\ DOMAIN theTaskQueue[p] = 1 .. Len(theTaskQueue[p]) /\ Len(theTaskQueue[p]) \in Nat
           /\ step[p] \in Nat \ {0} /\ Len(Body(p)) \in Nat /\ step[p] <= Len(Body(p)) + 1
           /\ next[p] \in Nat /\ next[p] > 1 /\ next[p] <= Len(theTaskQueue[p]) + 1
           /\ step[p] <= Len(Body(p)) =>
                  /\ step[p] \in DOMAIN Body(p) /\ Peer(p) \in Tasks /\ Mapping(Peer(p)) \in Proc
                  /\ Body(p)[step[p]].op \in {"tsend", "treceive"}
                  /\ Body(p)[step[p]] = [op |-> Body(p)[step[p]].op, peer |-> Peer(p)]
<1>1. /\ next[p] > 1 /\ Mapping(Current(p)) = p /\ step[p] <= Len(Body(p)) + 1
      /\ next[p] <= Len(theTaskQueue[p]) + 1
  BY DEF TaskInv
<1>2. theTaskQueue[p] \in Seq(Tasks) /\ next[p] \in Nat \ {0} /\ step[p] \in Nat \ {0}
  BY DEF TypeInv
<1>3. DOMAIN theTaskQueue[p] = 1 .. Len(theTaskQueue[p]) /\ Len(theTaskQueue[p]) \in Nat
  BY <1>2, LenProperties
<1>4. next[p] - 1 \in 1 .. Len(theTaskQueue[p])
  BY <1>1, <1>2, <1>3
<1>5. Current(p) \in Tasks
  BY <1>2, <1>4, ElementOfSeq DEF Current
<1>6. DOMAIN Body(p) = 1 .. Len(Body(p)) /\ Len(Body(p)) \in Nat
  BY <1>5, TaskFacts DEF Body
<1>7. ASSUME step[p] <= Len(Body(p))
      PROVE  /\ step[p] \in DOMAIN Body(p) /\ Peer(p) \in Tasks /\ Mapping(Peer(p)) \in Proc
             /\ Body(p)[step[p]].op \in {"tsend", "treceive"}
             /\ Body(p)[step[p]] = [op |-> Body(p)[step[p]].op, peer |-> Peer(p)]
  <2>1. step[p] \in DOMAIN Body(p)
    BY <1>2, <1>6, <1>7
  <2>2. PICK t \in Tasks : t = Current(p)
    BY <1>5
  <2>3. PICK i \in DOMAIN program.tasks[t].body : i = step[p]
    BY <2>1, <2>2 DEF Body
  <2>4. /\ program.tasks[t].body[i].op \in {"tsend", "treceive"}
        /\ program.tasks[t].body[i].peer \in Tasks
        /\ program.tasks[t].body[i] =
               [op |-> program.tasks[t].body[i].op, peer |-> program.tasks[t].body[i].peer]
    BY TaskFacts
  <2>5. Body(p)[step[p]] = program.tasks[t].body[i] /\ Peer(p) = program.tasks[t].body[i].peer
    BY <2>2, <2>3 DEF Body, Peer
  <2> QED
    BY <2>1, <2>4, <2>5, TaskFacts
<1> QED
  BY <1>1, <1>2, <1>3, <1>4, <1>5, <1>6, <1>7

\* Nothing but the mail changes, and the streams and the lists do not.
Quiet ==
    /\ program' = program /\ glue' = glue /\ pc' = pc /\ UNCHANGED callVars /\ UNCHANGED taskVars
    /\ hack' = hack /\ Still

\* All that is made of these is the same,
LEMMA QuietEqual ==
    ASSUME Quiet
    PROVE  /\ program' = program /\ glue' = glue /\ pc' = pc /\ at' = at /\ loop' = loop /\ enter' = enter
           /\ leave' = leave /\ theTaskQueue' = theTaskQueue /\ next' = next /\ step' = step
           /\ theQueue' = theQueue /\ received' = received /\ hack' = hack /\ Tasks' = Tasks
           /\ \A t : Mapping(t)' = Mapping(t)
           /\ \A q : Peer(q)' = Peer(q) /\ Awaited(q)' = Awaited(q) /\ Current(q)' = Current(q)
<1>1. /\ program' = program /\ glue' = glue /\ pc' = pc /\ at' = at /\ loop' = loop /\ enter' = enter
      /\ leave' = leave /\ theTaskQueue' = theTaskQueue /\ next' = next /\ step' = step
      /\ theQueue' = theQueue /\ received' = received /\ hack' = hack
  BY DEF Quiet, callVars, taskVars
<1>2. Tasks' = Tasks /\ \A t : Mapping(t)' = Mapping(t)
  BY <1>1 DEF Tasks, Mapping
<1>3. \A q : Peer(q)' = Peer(q) /\ Current(q)' = Current(q)
  BY <1>1 DEF Peer, Body, Current
<1>4. ASSUME NEW q
      PROVE  Awaited(q)' = Awaited(q)
  BY <1>1, <1>3 DEF Awaited, InCall, Arg, Mapping
<1> QED
  BY <1>1, <1>2, <1>3, <1>4

\* where each processor is,
LEMMA QuietLocal ==
    ASSUME TypeInv, Quiet, NEW q \in Proc, Local(q)
    PROVE  Local(q)'
<1>1. CallInv(q)'
  BY QuietEqual DEF Local, CallInv, InCall, Arg
<1>2. TaskInv(q)'
  BY QuietEqual DEF Local, TaskInv, AllAdded, Body, Current
<1>3. SortedInv(q)'
  BY QuietEqual DEF Local, SortedInv, Precedes
<1>4. EarlyInv(q)'
  BY QuietEqual DEF Local, EarlyInv, Matches
<1> QED
  BY <1>1, <1>2, <1>3, <1>4 DEF Local

\* and the messages.
LEMMA QuietSound ==
    ASSUME TypeInv, Quiet, Sound
    PROVE  Sound'
<1>1. ASSUME NEW q \in Proc
      PROVE  HackInv(q)'
  <2>1. HackInv(q)
    BY DEF Sound
  <2>2. Slot(q)' = Slot(q)
    BY QuietEqual DEF Slot, Kept
  <2> QED
    BY <2>1, <2>2, QuietEqual DEF HackInv
<1>2. Flows'
  <2> SUFFICES ASSUME NEW d \in Proc, NEW s \in Proc, ~Kept(s, d)'
               PROVE  Flow(d, s)'
    BY DEF Flows
  <2>1. Flow(d, s)
    BY QuietEqual DEF Sound, Flows, Kept
  <2>2. Stream(d, s)' = Stream(d, s)
    BY DEF Quiet, Still
  <2>3. SamePast(d, s) /\ SameGone(d, s)
    BY QuietEqual, PastStays
  <2>4. Ahead(d, s)' = Ahead(d, s)
    BY <2>3, QuietEqual, AheadSame
  <2>5. Due(d, s)' = Due(d, s) /\ Latest(d, s)' = Latest(d, s) /\ Addressed(d, s)' = Addressed(d, s)
    BY QuietEqual DEF Due, Latest, Addressed
  <2> QED
    BY <2>1, <2>2, <2>4, <2>5, QuietEqual DEF Flow
<1>3. Arrivals'
  <2> SUFFICES ASSUME NEW d \in Tasks, NEW s \in Tasks, ~Kept(Mapping(s), Mapping(d))'
               PROVE  Arrives(d, s)'
    BY QuietEqual DEF Arrivals
  <2>1. Arrives(d, s)
    BY QuietEqual DEF Sound, Arrivals, Kept
  <2>2. SentTo(d, s)' = SentTo(d, s)
    BY QuietEqual DEF SentTo, Completed, Began, Runs
  <2>3. Mapping(d) \in Proc /\ Mapping(s) \in Proc
    BY TaskFacts
  <2>4. Stream(Mapping(d), Mapping(s))' = Stream(Mapping(d), Mapping(s))
    <3>1. PICK q \in Proc : q = Mapping(d)
      BY <2>3
    <3>2. PICK r \in Proc : r = Mapping(s)
      BY <2>3
    <3>3. Stream(q, r)' = Stream(q, r)
      BY DEF Quiet, Still
    <3>4. Mapping(d)' = q /\ Mapping(s)' = r
      BY <3>1, <3>2, QuietEqual
    <3> QED
      BY <3>1, <3>2, <3>3, <3>4 DEF Stream
  <2> QED
    BY <2>1, <2>2, <2>4, QuietEqual DEF Arrives
<1> QED
  BY <1>1, <1>2, <1>3 DEF Sound

\* All of it.
LEMMA QuietAll ==
    ASSUME TypeInv, Quiet, MailTypes', \A q \in Proc : Local(q), Sound
    PROVE  TypeInv' /\ (\A q \in Proc : Local(q)') /\ Sound'
<1>1. TypeInv'
  BY QuietEqual DEF TypeInv
<1> QED
  BY <1>1, QuietLocal, QuietSound

\* handle_msg finds the receiver asleep and wakes it, or not asleep.
LEMMA HandleMessageAll ==
    ASSUME NEW d \in Proc, NEW s \in Proc, TypeInv, SleepInvs, \A q \in Proc : Local(q), Sound, HandleMessage(d, s)
    PROVE  TypeInv' /\ SleepInvs' /\ (\A q \in Proc : Local(q)') /\ Sound' /\ pc' = pc
<1>1. MailTypes /\ Upcall(d, s)
  BY DEF TypeInv, HandleMessage
<1>2. /\ MailTypes' /\ glue = "panda" /\ glue' = glue /\ hack' = hack /\ waiting' = waiting /\ Still
      /\ \A q, r \in Proc : q # d \/ r # s => /\ queue'[<<q, r>>] = queue[<<q, r>>]
                                              /\ asleep'[<<q, r>>] = asleep[<<q, r>>]
      /\ asleep'[<<d, s>>] = (asleep[<<d, s>>] /\ waiting[<<d, s>>] = 0)
  BY <1>1, UpcallEffect
<1>3. Quiet
  BY <1>2 DEF Quiet, HandleMessage
<1>4. SleepInvs'
  <2> SUFFICES ASSUME NEW q \in Proc, NEW r \in Proc
               PROVE  SleepInv(q, r)'
    BY DEF SleepInvs
  <2>1. SleepInv(q, r) /\ glue' = "panda" /\ Awaited(q)' = Awaited(q)
    BY <1>2, <1>3, QuietEqual DEF SleepInvs
  <2>2. CASE q # d \/ r # s
    BY <1>2, <2>1, <2>2 DEF SleepInv
  <2>3. CASE q = d /\ r = s
    <3>0. asleep[<<d, s>>] => waiting[<<d, s>>] = 1
      BY <2>1, <2>3 DEF SleepInv
    <3>1. ~(asleep[<<d, s>>] /\ waiting[<<d, s>>] = 0)
      BY <3>0
    <3>2. ~asleep'[<<d, s>>]
      BY <1>2, <3>1, Zenon
    <3>3. ~asleep'[<<q, r>>]
      BY <2>3, <3>2
    <3> QED
      BY <2>1, <3>3 DEF SleepInv
  <2> QED
    BY <2>2, <2>3
<1> QED
  BY <1>2, <1>3, <1>4, QuietAll, QuietEqual

\* msg_q_deq waits for a processor.
LEMMA AwaitedProc ==
    ASSUME NEW p \in Proc, TypeInv, Local(p), glue = "panda"
    PROVE  Awaited(p) \subseteq Proc
<1>1. CASE pc[p] = "run" /\ InCall(p, "receive")
  <2>1. at[p] \in DOMAIN program.calls[p] /\ Arg(p) = program.calls[p][at[p]] /\ Arg(p).op = "receive"
    BY <1>1, NextCall DEF InCall, Arg
  <2>2. Arg(p).peer \in Proc
    BY <2>1, CallFacts
  <2> QED
    BY <1>1, <2>2 DEF Awaited
<1>2. CASE pc[p] = "barrier"
  <2>1. p = 0 => loop[p] \in 1 .. N - 1
    BY <1>2 DEF Local, CallInv
  <2>2. 0 \in Proc /\ (p = 0 => loop[p] \in Proc)
    BY <2>1, Zero DEF Proc
  <2>3. Awaited(p) = {0} \/ (p = 0 /\ Awaited(p) = {loop[p]})
    BY <1>2 DEF Awaited
  <2> QED
    BY <2>2, <2>3
<1>3. CASE pc[p] \in {"size", "message"}
  <2>1. TaskInv(p) /\ pc[p] \in AtWork /\ step[p] <= Len(Body(p))
    BY <1>3 DEF Local, TaskInv, AtWork
  <2>2. Mapping(Peer(p)) \in Proc
    BY <2>1, AtTask
  <2> QED
    BY <1>3, <2>2 DEF Awaited
<1>4. CASE ~(pc[p] = "run" /\ InCall(p, "receive")) /\ pc[p] # "barrier" /\ pc[p] \notin {"size", "message"}
  BY <1>4 DEF Awaited
<1> QED
  BY <1>1, <1>2, <1>3, <1>4

\* msg_q_deq falls asleep beside an empty queue.
LEMMA FallAsleepAll ==
    ASSUME NEW p \in Proc, TypeInv, SleepInvs, \A q \in Proc : Local(q), Sound, FallAsleep(p)
    PROVE  TypeInv' /\ SleepInvs' /\ (\A q \in Proc : Local(q)') /\ Sound' /\ pc' = pc
<1>1. PICK s \in Awaited(p) : Sleep(p, s)
  BY DEF FallAsleep
<1>2. s \in Proc /\ MailTypes
  <2>1. glue = "panda"
    BY <1>1 DEF Sleep
  <2> QED
    BY <1>1, <2>1, AwaitedProc DEF TypeInv
<1>3. /\ MailTypes' /\ glue = "panda" /\ glue' = glue /\ hack' = hack /\ queue' = queue /\ Still
      /\ queue[<<p, s>>] = <<>> /\ waiting'[<<p, s>>] = 1
      /\ \A q, r \in Proc : q # p \/ r # s => /\ waiting'[<<q, r>>] = waiting[<<q, r>>]
                                              /\ asleep'[<<q, r>>] = asleep[<<q, r>>]
  BY <1>1, <1>2, SleepEffect
<1>4. Quiet
  BY <1>3 DEF Quiet, FallAsleep
<1>5. SleepInvs'
  <2> SUFFICES ASSUME NEW q \in Proc, NEW r \in Proc
               PROVE  SleepInv(q, r)'
    BY DEF SleepInvs
  <2>1. SleepInv(q, r) /\ glue' = "panda" /\ Awaited(q)' = Awaited(q)
    BY <1>3, <1>4, QuietEqual DEF SleepInvs
  <2>2. CASE q # p \/ r # s
    BY <1>3, <2>1, <2>2 DEF SleepInv
  <2>3. CASE q = p /\ r = s
    <3>1. s \in Awaited(p)
      BY <1>1
    <3> QED
      BY <1>3, <2>1, <2>3, <3>1 DEF SleepInv
  <2> QED
    BY <2>2, <2>3
<1> QED
  BY <1>3, <1>4, <1>5, QuietAll, QuietEqual

-----------------------------------------------------------------------------
(* The tasks. *)

TaskReady(p) == Ready(p) /\ Sound /\ at[p] > Len(program.calls[p])
TaskAfter(p) ==
    /\ TypeInv' /\ TaskStep(p) /\ SleepInvs'
    /\ TaskInv(p)' /\ SortedInv(p)' /\ EarlyInv(p)'
    /\ pc'[p] # "error" => Sound'

\* The types of what a step of a task leaves alone.
LEMMA TaskTypes ==
    ASSUME TypeInv, MailTypes', program' = program, glue' = glue, UNCHANGED callVars,
           pc' \in [Proc -> Place], theTaskQueue' \in [Proc -> Seq(Tasks)], next' \in [Proc -> Nat \ {0}],
           step' \in [Proc -> Nat \ {0}], theQueue' \in [Proc -> Seq(Tagged)], received' \in [Tasks -> Seq(Tagged)]
    PROVE  TypeInv'
<1>1. Tasks' = Tasks /\ at' = at /\ loop' = loop /\ enter' = enter /\ leave' = leave
  BY DEF Tasks, callVars
<1> QED
  BY <1>1 DEF TypeInv

\* The calls are past.
LEMMA TaskAhead ==
    ASSUME TypeInv, NEW p \in Proc, TaskStep(p), NEW d \in Proc, NEW s \in Proc
    PROVE  /\ Ahead(d, s)' = Ahead(d, s) /\ at' = at /\ program' = program /\ glue' = glue
           /\ Addressed(d, s)' = Addressed(d, s) /\ (Kept(s, d)' <=> Kept(s, d))
<1>1. /\ program' = program /\ glue' = glue /\ at' = at /\ loop' = loop /\ at[p] > Len(program.calls[p])
      /\ \A q \in Proc : q # p => pc'[q] = pc[q]
  BY DEF TaskStep, Elsewhere, callVars
<1>2. \A q, r \in Proc : SamePast(r, q) /\ SameGone(q, r)
  BY <1>1, PastStays
<1>3. Ahead(d, s)' = Ahead(d, s)
  BY <1>1, <1>2, AheadSame
<1>4. Addressed(d, s)' = Addressed(d, s)
  BY <1>1 DEF Addressed, Tasks, Mapping
<1> QED
  BY <1>1, <1>3, <1>4 DEF Kept

\* What other processors send or receive last.
LEMMA OthersKinds ==
    ASSUME NEW p \in Proc, Elsewhere(p), NEW q \in Proc, q # p, NEW r \in Proc
    PROVE  Due(q, r)' = Due(q, r) /\ Latest(r, q)' = Latest(r, q)
<1>1. /\ program' = program /\ pc'[q] = pc[q] /\ theTaskQueue'[q] = theTaskQueue[q]
      /\ next'[q] = next[q] /\ step'[q] = step[q]
  BY DEF Elsewhere
<1>2. Mapping(Peer(q))' = Mapping(Peer(q))
  BY <1>1 DEF Mapping, Peer, Body, Current
<1> QED
  BY <1>1, <1>2 DEF Due, Latest

\* The streams of all pairs of processors.
LEMMA FlowTask ==
    ASSUME TypeInv, NEW p \in Proc, TaskStep(p), Flows, NEW d \in Proc, NEW s \in Proc,
           \A q, r \in Proc : q # d \/ r # s => Stream(q, r)' = Stream(q, r),
           \A r \in Proc : p # d \/ r # s => Due(p, r)' = Due(p, r),
           \A q \in Proc : q # d \/ p # s => Latest(q, p)' = Latest(q, p),
           ~Kept(s, d) => Flow(d, s)'
    PROVE  Flows'
<1> SUFFICES ASSUME NEW q \in Proc, NEW r \in Proc, ~Kept(r, q)'
             PROVE  Flow(q, r)'
  BY DEF Flows
<1>1. ~Kept(r, q) /\ Elsewhere(p)
  BY TaskAhead DEF TaskStep
<1>2. CASE q = d /\ r = s
  BY <1>1, <1>2
<1>3. CASE q # d \/ r # s
  <2>1. Flow(q, r)
    BY <1>1 DEF Flows
  <2>2. Due(q, r)' = Due(q, r)
    BY <1>1, <1>3, OthersKinds
  <2>3. Latest(q, r)' = Latest(q, r)
    BY <1>1, <1>3, OthersKinds
  <2>4. Stream(q, r)' = Stream(q, r)
    BY <1>3
  <2>5. Ahead(q, r)' = Ahead(q, r) /\ at' = at /\ program' = program /\ Addressed(q, r)' = Addressed(q, r)
    BY TaskAhead
  <2> QED
    BY <2>1, <2>2, <2>3, <2>4, <2>5 DEF Flow
<1> QED
  BY <1>2, <1>3

\* The messages to oneself.
LEMMA HackTask ==
    ASSUME TypeInv, NEW p \in Proc, TaskStep(p), \A q \in Proc : HackInv(q),
           \A q \in Proc : q # p => hack'[q] = hack[q],
           Hacked(hack[p], Slot(p)) => Hacked(hack'[p], Slot(p)'),
           glue = "mpi" /\ pc'[p] = "message" => Mapping(Peer(p))' # p
    PROVE  \A q \in Proc : HackInv(q)'
<1> SUFFICES ASSUME NEW q \in Proc
             PROVE  HackInv(q)'
  OBVIOUS
<1>1. /\ program' = program /\ glue' = glue
      /\ q # p => /\ pc'[q] = pc[q] /\ theTaskQueue'[q] = theTaskQueue[q] /\ next'[q] = next[q] /\ step'[q] = step[q]
  BY DEF TaskStep, Elsewhere
<1>2. q # p => Mapping(Peer(q))' = Mapping(Peer(q))
  BY <1>1 DEF Mapping, Peer, Body, Current
<1>3. q # p => Slot(q)' = Slot(q)
  BY <1>1, <1>2 DEF Slot, Kept
<1>5. HackInv(q) /\ HackInv(p)
  OBVIOUS
<1>6. CASE q = p
  BY <1>1, <1>5, <1>6 DEF HackInv
<1>7. CASE q # p
  BY <1>1, <1>2, <1>3, <1>5, <1>7 DEF HackInv
<1> QED
  BY <1>6, <1>7

\* The calls that tasks have completed: those of other processors,
LEMMA CompletedElse ==
    ASSUME TypeInv, NEW p \in Proc, Elsewhere(p), NEW t \in Tasks, Mapping(t) # p
    PROVE  Completed(t)' = Completed(t) /\ Mapping(t)' = Mapping(t)
<1>1. PICK q \in Proc : q = Mapping(t) /\ q # p
  BY TaskFacts
<1>2. /\ program' = program /\ pc'[q] = pc[q] /\ theTaskQueue'[q] = theTaskQueue[q]
      /\ next'[q] = next[q] /\ step'[q] = step[q]
  BY <1>1 DEF Elsewhere
<1>3. Mapping(t)' = q
  BY <1>1, <1>2 DEF Mapping
<1>4. Completed(t) = CASE ~Began(q, t) -> 0
                       [] Runs(q, t) -> step[q] - 1
                       [] OTHER -> Len(program.tasks[t].body)
  BY <1>1 DEF Completed
<1>5. Completed(t)' = CASE ~Began(q, t)' -> 0
                        [] Runs(q, t)' -> step'[q] - 1
                        [] OTHER -> Len(program'.tasks[t].body)
  BY <1>3 DEF Completed, Began, Runs, Current
<1>6. Began(q, t)' = Began(q, t) /\ Runs(q, t)' = Runs(q, t)
  BY <1>2 DEF Began, Runs, Current
<1> QED
  BY <1>1, <1>2, <1>3, <1>4, <1>5, <1>6

\* those of p while it runs a task,
LEMMA CompletedHere ==
    ASSUME TypeInv, NEW p \in Proc, TaskInv(p), NEW t \in Tasks, Mapping(t) = p
    PROVE  /\ ~Began(p, t) => Completed(t) = 0
           /\ Began(p, t) /\ Runs(p, t) => Completed(t) = step[p] - 1
           /\ Began(p, t) /\ ~Runs(p, t) => Completed(t) = Len(program.tasks[t].body)
           /\ pc[p] \in AtWork /\ t = Current(p) => Began(p, t) /\ Runs(p, t)
           /\ Runs(p, t) <=> pc[p] \in AtWork /\ Current(p) = t
<1>1. Runs(p, t) <=> pc[p] \in AtWork /\ Current(p) = t
  BY DEF Runs, AtWork
<1>2. ASSUME pc[p] \in AtWork, t = Current(p)
      PROVE  Began(p, t)
  <2>0. next[p] \in Nat /\ next[p] > 1
    BY <1>2 DEF TaskInv, TypeInv
  <2>1. next[p] - 1 \in 1 .. next[p] - 1
    BY <2>0
  <2> QED
    BY <1>2, <2>1 DEF Began, Current
<1> QED
  BY <1>1, <1>2 DEF Completed

\* and of its current task, as far as it has come.
LEMMA CompletedWork ==
    ASSUME TypeInv, TypeInv', NEW p \in Proc, TaskInv(p), TaskInv(p)', program' = program,
           theTaskQueue' = theTaskQueue, next' = next, pc[p] \in AtWork, pc'[p] \in AtWork
    PROVE  \A t \in Tasks : Mapping(t) = p =>
               /\ t = Current(p) => Completed(t) = step[p] - 1 /\ Completed(t)' = step'[p] - 1
               /\ t # Current(p) => Completed(t)' = Completed(t)
<1> SUFFICES ASSUME NEW t \in Tasks, Mapping(t) = p
             PROVE  /\ t = Current(p) => Completed(t) = step[p] - 1 /\ Completed(t)' = step'[p] - 1
                    /\ t # Current(p) => Completed(t)' = Completed(t)
  OBVIOUS
<1>1. Tasks' = Tasks /\ Mapping(t)' = p /\ Current(p)' = Current(p) /\ Began(p, t)' = Began(p, t)
  BY DEF Tasks, Mapping, Current, Began
<1>2. Runs(p, t)' <=> Runs(p, t)
  BY <1>1 DEF Runs, AtWork
<1>3. Completed(t)' = CASE ~Began(p, t)' -> 0
                        [] Runs(p, t)' -> step'[p] - 1
                        [] OTHER -> Len(program'.tasks[t].body)
  BY <1>1 DEF Completed, Began, Runs, Current
<1>4. t = Current(p) => Began(p, t) /\ Runs(p, t) /\ Completed(t) = step[p] - 1
  BY CompletedHere
<1>5. t # Current(p) => ~Runs(p, t)
  BY DEF Runs
<1>6. t # Current(p) => Completed(t)' = Completed(t)
  <2>1. Completed(t) = CASE ~Began(p, t) -> 0
                         [] Runs(p, t) -> step[p] - 1
                         [] OTHER -> Len(program.tasks[t].body)
    BY DEF Completed
  <2> QED
    BY <1>1, <1>2, <1>3, <1>5, <2>1
<1> QED
  BY <1>1, <1>2, <1>3, <1>4, <1>6

\* What a task has sent.
LEMMA SentToSame ==
    ASSUME program' = program, NEW d, NEW s, Completed(s)' = Completed(s)
    PROVE  SentTo(d, s)' = SentTo(d, s)
  BY DEF SentTo

\* Where it is.
LEMMA ArriveGoal ==
    ASSUME TypeInv, program' = program, NEW t \in Tasks, NEW u \in Tasks,
           NEW q, q = Mapping(t), NEW r, r = Mapping(u), NEW S, SentTo(t, u)' = S,
           Chain(received'[t], theQueue'[q], Stream(q, r)', S, t, u)
    PROVE  Arrives(t, u)'
<1>1. Mapping(t)' = q /\ Mapping(u)' = r
  BY DEF Mapping
<1>2. Stream(Mapping(t), Mapping(u))' = Stream(q, r)'
  BY <1>1 DEF Stream
<1> QED
  BY <1>1, <1>2 DEF Arrives

\* Where it was.
LEMMA ArriveGiven ==
    ASSUME TypeInv, NEW p \in Proc, TaskStep(p), Arrivals, NEW t \in Tasks, NEW u \in Tasks,
           ~Kept(Mapping(u), Mapping(t))'
    PROVE  /\ Mapping(t) \in Proc /\ Mapping(u) \in Proc /\ ~Kept(Mapping(u), Mapping(t))
           /\ Chain(received[t], theQueue[Mapping(t)], Stream(Mapping(t), Mapping(u)), SentTo(t, u), t, u)
<1>1. program' = program /\ glue' = glue
  BY DEF TaskStep, Elsewhere
<1>2. Mapping(t) \in Proc /\ Mapping(u) \in Proc
  BY TaskFacts
<1>3. ~Kept(Mapping(u), Mapping(t))
  BY <1>1 DEF Kept, Mapping
<1> QED
  BY <1>2, <1>3 DEF Arrivals, Arrives

\* A step without messages.
LEMMA TaskStillMail ==
    ASSUME TypeInv, NEW p \in Proc, TaskStep(p), Sound, mailVars' = mailVars,
           pc[p] \notin {"tsend", "message"}, pc'[p] \notin {"tsend", "message"}
    PROVE  Flows' /\ \A q \in Proc : HackInv(q)'
<1>1. hack' = hack /\ Still
  BY DEF mailVars, Still, Stream
<1>2. Flows'
  <2>1. \A q, r \in Proc : Stream(q, r)' = Stream(q, r)
    BY <1>1 DEF Still
  <2>2. \A r : Due(p, r)' = Due(p, r) /\ Latest(r, p)' = Latest(r, p)
    BY DEF Due, Latest
  <2>3. ASSUME ~Kept(p, p)
        PROVE  Flow(p, p)'
    <3>1. Flow(p, p)
      BY <2>3 DEF Sound, Flows
    <3>2. Ahead(p, p)' = Ahead(p, p) /\ at' = at /\ program' = program /\ Addressed(p, p)' = Addressed(p, p)
      BY TaskAhead
    <3> QED
      BY <2>1, <2>2, <3>1, <3>2 DEF Flow
  <2> QED
    BY <2>1, <2>2, <2>3, FlowTask DEF Sound
<1>3. \A q \in Proc : HackInv(q)'
  <2>1. Slot(p) = "closed" /\ Slot(p)' = "closed"
    BY DEF Slot
  <2> QED
    BY <1>1, <2>1, HackTask DEF Sound
<1> QED
  BY <1>2, <1>3

\* It keeps what is sound when no call of a body is completed in it.
LEMMA TaskStill ==
    ASSUME TypeInv, NEW p \in Proc, TaskStep(p), Sound, mailVars' = mailVars,
           pc[p] \notin {"tsend", "message"}, pc'[p] \notin {"tsend", "message"},
           theQueue' = theQueue, received' = received, \A t \in Tasks : Completed(t)' = Completed(t)
    PROVE  Sound'
<1>1. Tasks' = Tasks /\ program' = program
  BY DEF TaskStep, Elsewhere, Tasks
<1>2. Arrivals'
  <2> SUFFICES ASSUME NEW t \in Tasks, NEW u \in Tasks, ~Kept(Mapping(u), Mapping(t))'
               PROVE  Arrives(t, u)'
    BY <1>1 DEF Arrivals
  <2>1. /\ Mapping(t) \in Proc /\ Mapping(u) \in Proc
        /\ Chain(received[t], theQueue[Mapping(t)], Stream(Mapping(t), Mapping(u)), SentTo(t, u), t, u)
    BY ArriveGiven DEF Sound
  <2>2. PICK q \in Proc : q = Mapping(t)
    BY <2>1
  <2>3. PICK r \in Proc : r = Mapping(u)
    BY <2>1
  <2>4. Stream(q, r)' = Stream(q, r)
    BY DEF mailVars, Stream
  <2>5. SentTo(t, u)' = SentTo(t, u)
    BY <1>1, SentToSame
  <2>6. Chain(received'[t], theQueue'[q], Stream(q, r)', SentTo(t, u), t, u)
    BY <2>1, <2>2, <2>3, <2>4
  <2> QED
    BY <1>1, <2>2, <2>3, <2>5, <2>6, ArriveGoal
<1> QED
  BY <1>2, TaskStillMail DEF Sound

\* A processor with its tasks, and those that sleep.
LEMMA TaskSleep ==
    ASSUME TypeInv, SleepInvs, NEW p \in Proc, TaskStep(p), mailVars' = mailVars, pc[p] \notin {"size", "message"}
    PROVE  SleepInvs'
<1>1. pc[p] \in AtWork \union {"run"} /\ at[p] > Len(program.calls[p]) /\ Elsewhere(p)
  BY DEF TaskStep
<1>2. Awaited(p) = {}
  <2>0. at[p] \in Nat /\ Len(program.calls[p]) \in Nat
    BY CallFacts DEF TypeInv
  <2>1. ~InCall(p, "receive") /\ pc[p] # "barrier"
    BY <1>1, <2>0 DEF InCall, AtWork
  <2> QED
    BY <2>1 DEF Awaited
<1>3. \A s \in Proc : ~asleep[<<p, s>>]
  BY <1>2, Awake
<1> QED
  BY <1>1, <1>3, SleepStays DEF mailVars

\* The least element of a set of numbers.
LEMMA MinFact ==
    ASSUME NEW S, S \subseteq Nat, S # {}
    PROVE  Min(S) \in S /\ \A y \in S : Min(S) <= y
<1>0. IsWellFoundedOn({ss \in Nat \X Nat : ss[1] < ss[2]}, Nat)
  BY NatLessThanWellFounded DEF OpToRel
<1>1. PICK R : R = {ss \in Nat \X Nat : ss[1] < ss[2]}
  OBVIOUS
<1>2. PICK x \in S : \A y \in S : ~(<<y, x>> \in R)
  BY <1>0, <1>1, WFMin
<1>3. \A y \in S : ~(y < x)
  BY <1>1, <1>2
<1>4. \E z \in S : \A y \in S : z <= y
  BY <1>2, <1>3
<1> QED
  BY <1>4 DEF Min

\* A sequence with an element more.
LEMMA Inserted ==
    ASSUME NEW S, NEW q \in Seq(S), NEW k \in 1 .. Len(q) + 1, NEW e \in S
    PROVE  /\ InsertAt(q, k, e) \in Seq(S) /\ Len(q) \in Nat /\ Len(InsertAt(q, k, e)) = Len(q) + 1
           /\ \A j \in 1 .. k - 1 : InsertAt(q, k, e)[j] = q[j]
           /\ InsertAt(q, k, e)[k] = e
           /\ \A j \in k + 1 .. Len(q) + 1 : InsertAt(q, k, e)[j] = q[j - 1]
<1>0. <<e>> \in Seq(S) /\ Len(<<e>>) = 1 /\ <<e>>[1] = e /\ Len(q) \in Nat /\ k \in Nat
  OBVIOUS
<1>1. PICK a \in Seq(S) : a = SubSeq(q, 1, k - 1) /\ Len(a) = k - 1 /\ \A j \in 1 .. k - 1 : a[j] = q[j]
  <2>1. SubSeq(q, 1, k - 1) \in Seq(S) /\ Len(SubSeq(q, 1, k - 1)) = k - 1
        /\ \A j \in 1 .. k - 1 : SubSeq(q, 1, k - 1)[j] = q[j]
    BY <1>0
  <2> QED
    BY <2>1
<1>2. PICK c \in Seq(S) : /\ c = SubSeq(q, k, Len(q)) /\ Len(c) = Len(q) - k + 1
                          /\ \A j \in 1 .. Len(q) - k + 1 : c[j] = q[k + j - 1]
  <2>1. SubSeq(q, k, Len(q)) \in Seq(S) /\ Len(SubSeq(q, k, Len(q))) = Len(q) - k + 1
        /\ \A j \in 1 .. Len(q) - k + 1 : SubSeq(q, k, Len(q))[j] = q[k + j - 1]
    BY <1>0
  <2> QED
    BY <2>1
<1>3. PICK b \in Seq(S) : b = a \o <<e>> /\ Len(b) = k /\ b[k] = e /\ \A j \in 1 .. k - 1 : b[j] = a[j]
  <2>1. a \o <<e>> \in Seq(S) /\ Len(a \o <<e>>) = Len(a) + 1
        /\ \A j \in 1 .. Len(a) + 1 : (a \o <<e>>)[j] = IF j <= Len(a) THEN a[j] ELSE <<e>>[j - Len(a)]
    BY <1>0, ConcatProperties
  <2>2. (a \o <<e>>)[k] = e
    <3>1. k \in 1 .. Len(a) + 1 /\ ~(k <= Len(a)) /\ k - Len(a) = 1
      BY <1>0, <1>1
    <3> QED
      BY <1>0, <2>1, <3>1
  <2>3. \A j \in 1 .. k - 1 : (a \o <<e>>)[j] = a[j]
    BY <1>0, <1>1, <2>1
  <2>4. Len(a \o <<e>>) = k
    BY <1>0, <1>1, <2>1
  <2> QED
    BY <2>1, <2>2, <2>3, <2>4
<1>4. PICK r \in Seq(S) : r = b \o c
  BY ConcatProperties
<1>5. /\ Len(r) = Len(b) + Len(c)
      /\ \A j \in 1 .. Len(b) + Len(c) : r[j] = IF j <= Len(b) THEN b[j] ELSE c[j - Len(b)]
  BY <1>4, ConcatProperties
<1>6. r = InsertAt(q, k, e)
  BY <1>1, <1>2, <1>3, <1>4 DEF InsertAt
<1>7. Len(r) = Len(q) + 1
  BY <1>0, <1>2, <1>3, <1>5
<1>8. ASSUME NEW j \in 1 .. k - 1
      PROVE  r[j] = q[j]
  <2>1. j \in 1 .. Len(b) + Len(c) /\ j <= Len(b)
    BY <1>0, <1>2, <1>3
  <2> QED
    BY <1>1, <1>3, <1>5, <2>1
<1>9. r[k] = e
  <2>1. k \in 1 .. Len(b) + Len(c) /\ k <= Len(b)
    BY <1>0, <1>2, <1>3
  <2> QED
    BY <1>3, <1>5, <2>1
<1>10. ASSUME NEW j \in k + 1 .. Len(q) + 1
       PROVE  r[j] = q[j - 1]
  <2>1. j \in 1 .. Len(b) + Len(c) /\ ~(j <= Len(b)) /\ j - Len(b) = j - k
    BY <1>0, <1>2, <1>3
  <2>2. j - k \in 1 .. Len(q) - k + 1 /\ k + (j - k) - 1 = j - 1
    BY <1>0
  <2> QED
    BY <1>2, <1>5, <2>1, <2>2
<1> QED
  BY <1>0, <1>6, <1>7, <1>8, <1>9, <1>10

\* Where TaskQueue::append puts a task.
LEMMA AppendPlace ==
    ASSUME TypeInv, NEW q \in Seq(Tasks), NEW t \in Tasks
    PROVE  \E k \in 1 .. Len(q) + 1 :
               /\ AppendTask(q, t) = InsertAt(q, k, t)
               /\ k <= Len(q) => program.tasks[q[k]].priority > program.tasks[t].priority
               /\ \A i \in 1 .. k - 1 : program.tasks[q[i]].priority <= program.tasks[t].priority
<1> DEFINE K == {i \in 1 .. Len(q) + 1 :
                     i <= Len(q) => program.tasks[q[i]].priority > program.tasks[t].priority}
<1>1. Len(q) \in Nat /\ Len(q) + 1 \in K /\ K \subseteq Nat
  OBVIOUS
<1>2. PICK k : k = Min(K)
  OBVIOUS
<1>3. k \in K /\ \A y \in K : k <= y
  BY <1>1, <1>2, MinFact
<1>4. AppendTask(q, t) = InsertAt(q, k, t)
  BY <1>2 DEF AppendTask
<1>5. ASSUME NEW i \in 1 .. k - 1
      PROVE  program.tasks[q[i]].priority <= program.tasks[t].priority
  <2>1. i \in 1 .. Len(q) /\ i < k
    BY <1>1, <1>3
  <2>2. i \notin K
    BY <1>1, <1>3, <2>1
  <2>3. ~(program.tasks[q[i]].priority > program.tasks[t].priority)
    BY <1>1, <2>1, <2>2
  <2>4. program.tasks[q[i]].priority \in Nat /\ program.tasks[t].priority \in Nat
    <3>1. q[i] \in Tasks
      BY <2>1, ElementOfSeq
    <3> QED
      BY <3>1, TaskFacts
  <2> QED
    BY <2>3, <2>4
<1> QED
  BY <1>3, <1>4, <1>5

\* The queue is sorted: in the order of the tasks in q.
Sorted(q) ==
    /\ \A i, j \in DOMAIN q : i < j => Precedes(q[i], q[j])
    /\ \A i \in DOMAIN q : q[i] <= Len(q)
    /\ \A t \in 1 .. Len(q) : \E i \in DOMAIN q : q[i] = t

\* It stays so when the next task is added.
LEMMA SortedStays ==
    ASSUME TypeInv, NEW q \in Seq(Tasks), Sorted(q), Len(q) + 1 \in Tasks
    PROVE  /\ AppendTask(q, Len(q) + 1) \in Seq(Tasks) /\ Len(AppendTask(q, Len(q) + 1)) = Len(q) + 1
           /\ Sorted(AppendTask(q, Len(q) + 1))
<1>1. PICK n \in Nat : n = Len(q)
  OBVIOUS
<1>2. PICK t \in Tasks : t = n + 1
  BY <1>1
<1>3. PICK k \in 1 .. n + 1 :
          /\ AppendTask(q, t) = InsertAt(q, k, t)
          /\ k <= n => program.tasks[q[k]].priority > program.tasks[t].priority
          /\ \A i \in 1 .. k - 1 : program.tasks[q[i]].priority <= program.tasks[t].priority
  BY <1>1, AppendPlace
<1>4. PICK r : r = InsertAt(q, k, t)
  OBVIOUS
<1>5. /\ r \in Seq(Tasks) /\ Len(r) = n + 1 /\ r[k] = t
      /\ \A j \in 1 .. k - 1 : r[j] = q[j]
      /\ \A j \in k + 1 .. n + 1 : r[j] = q[j - 1]
  <2>1. k \in 1 .. Len(q) + 1
    BY <1>1
  <2>2. /\ InsertAt(q, k, t) \in Seq(Tasks) /\ Len(InsertAt(q, k, t)) = Len(q) + 1
        /\ InsertAt(q, k, t)[k] = t
        /\ \A j \in 1 .. k - 1 : InsertAt(q, k, t)[j] = q[j]
        /\ \A j \in k + 1 .. Len(q) + 1 : InsertAt(q, k, t)[j] = q[j - 1]
    BY <2>1, Inserted
  <2> QED
    BY <1>1, <1>4, <2>2
<1>6. DOMAIN q = 1 .. n /\ DOMAIN r = 1 .. n + 1
  BY <1>1, <1>5, LenProperties
<1>7. \A i \in 1 .. n : q[i] \in Tasks /\ q[i] <= n /\ q[i] \in Nat /\ program.tasks[q[i]].priority \in Nat
  <2>1. ASSUME NEW i \in 1 .. n
        PROVE  q[i] \in Tasks /\ q[i] <= n
    BY <1>1, <1>6, ElementOfSeq DEF Sorted
  <2> QED
    BY <2>1, TaskFacts
<1>8. program.tasks[t].priority \in Nat
  BY TaskFacts
<1>9. ASSUME NEW i \in 1 .. n + 1, NEW j \in 1 .. n + 1, i < j
      PROVE  Precedes(r[i], r[j])
  <2>1. CASE i = k
    <3>1. r[j] = q[j - 1] /\ j - 1 \in 1 .. n /\ k \in 1 .. n /\ k <= n /\ r[i] = t
      BY <1>5, <1>9, <2>1
    <3>2. k = j - 1 \/ Precedes(q[k], q[j - 1])
      <4>1. k < j - 1 \/ k = j - 1
        BY <1>9, <2>1, <3>1
      <4>2. k \in DOMAIN q /\ j - 1 \in DOMAIN q
        BY <1>6, <3>1
      <4> QED
        BY <4>1, <4>2 DEF Sorted
    <3>3. program.tasks[q[k]].priority > program.tasks[t].priority
      BY <1>3, <3>1
    <3>4. /\ program.tasks[q[k]].priority \in Nat
          /\ program.tasks[q[j - 1]].priority \in Nat
      BY <1>7, <3>1
    <3>5. program.tasks[q[k]].priority <= program.tasks[q[j - 1]].priority
      <4>1. CASE k = j - 1
        BY <3>4, <4>1
      <4>2. CASE Precedes(q[k], q[j - 1])
        BY <3>4, <4>2 DEF Precedes
      <4> QED
        BY <3>2, <4>1, <4>2
    <3>6. program.tasks[t].priority < program.tasks[q[j - 1]].priority
      <4>1. PICK x : x = program.tasks[t].priority
        OBVIOUS
      <4>2. PICK y : y = program.tasks[q[k]].priority
        OBVIOUS
      <4>3. PICK z : z = program.tasks[q[j - 1]].priority
        OBVIOUS
      <4>4. x \in Nat /\ y \in Nat /\ z \in Nat /\ y > x /\ y <= z
        BY <1>8, <3>3, <3>4, <3>5, <4>1, <4>2, <4>3
      <4>5. x < z
        BY <4>4
      <4> QED
        BY <4>1, <4>3, <4>5
    <3> QED
      BY <3>1, <3>6 DEF Precedes
  <2>2. CASE j = k
    <3>1. r[i] = q[i] /\ i \in 1 .. k - 1 /\ i \in 1 .. n /\ r[j] = t
      BY <1>5, <1>9, <2>2
    <3>2. program.tasks[q[i]].priority <= program.tasks[t].priority /\ q[i] < t
      BY <1>2, <1>3, <1>7, <3>1
    <3> QED
      BY <1>7, <1>8, <3>1, <3>2 DEF Precedes
  <2>3. CASE i # k /\ j # k
    <3>1. PICK ii \in 1 .. n : r[i] = q[ii] /\ ii = (IF i < k THEN i ELSE i - 1)
      <4>1. CASE i < k
        BY <1>5, <4>1
      <4>2. CASE ~(i < k)
        BY <1>5, <2>3, <4>2
      <4> QED
        BY <4>1, <4>2
    <3>2. PICK jj \in 1 .. n : r[j] = q[jj] /\ jj = (IF j < k THEN j ELSE j - 1)
      <4>1. CASE j < k
        BY <1>5, <4>1
      <4>2. CASE ~(j < k)
        BY <1>5, <2>3, <4>2
      <4> QED
        BY <4>1, <4>2
    <3>3. ii < jj
      BY <1>9, <2>3, <3>1, <3>2
    <3> QED
      BY <1>6, <3>1, <3>2, <3>3 DEF Sorted
  <2> QED
    BY <2>1, <2>2, <2>3
<1>10. ASSUME NEW i \in 1 .. n + 1
       PROVE  r[i] <= n + 1
  <2>1. CASE i = k
    BY <1>2, <1>5, <2>1
  <2>2. CASE i < k
    <3>1. r[i] = q[i] /\ i \in 1 .. n
      BY <1>5, <2>2
    <3>2. r[i] <= n /\ r[i] \in Nat
      BY <1>7, <3>1
    <3> QED
      BY <3>2
  <2>3. CASE i > k
    <3>1. r[i] = q[i - 1] /\ i - 1 \in 1 .. n
      BY <1>5, <2>3
    <3> QED
      BY <1>7, <3>1
  <2> QED
    BY <2>1, <2>2, <2>3
<1>11. ASSUME NEW u \in 1 .. n + 1
       PROVE  \E i \in 1 .. n + 1 : r[i] = u
  <2>1. CASE u = n + 1
    BY <1>2, <1>5, <2>1
  <2>2. CASE u \in 1 .. n
    <3>1. PICK i \in 1 .. n : q[i] = u
      BY <1>1, <1>6, <2>2 DEF Sorted
    <3>2. CASE i < k
      BY <1>5, <3>1, <3>2
    <3>3. CASE i >= k
      <4>1. i + 1 \in k + 1 .. n + 1 /\ i + 1 \in 1 .. n + 1 /\ (i + 1) - 1 = i
        BY <3>3
      <4> QED
        BY <1>5, <3>1, <4>1
    <3> QED
      BY <3>2, <3>3
  <2> QED
    BY <2>1, <2>2
<1>12. Sorted(r)
  BY <1>5, <1>6, <1>9, <1>10, <1>11 DEF Sorted
<1> QED
  BY <1>1, <1>2, <1>3, <1>4, <1>5, <1>12

\* add_task.
LEMMA AddTaskAfter ==
    ASSUME NEW p \in Proc, TaskReady(p), AddTask(p)
    PROVE  TaskAfter(p)
<1>1. /\ TypeInv /\ SleepInvs /\ Sound /\ TaskInv(p) /\ SortedInv(p) /\ EarlyInv(p)
      /\ at[p] > Len(program.calls[p]) /\ pc[p] = "run" /\ ~AllAdded(p)
  BY DEF TaskReady, Ready, Local, AddTask
<1>2. /\ program' = program /\ mailVars' = mailVars /\ pc' = pc /\ UNCHANGED callVars /\ next' = next
      /\ step' = step /\ theQueue' = theQueue /\ received' = received /\ glue' = glue
  BY DEF AddTask, mailVars
<1>3. PICK q \in Seq(Tasks) : q = theTaskQueue[p]
  BY <1>1 DEF TypeInv
<1>4. PICK r : r = AppendTask(q, Len(q) + 1)
  OBVIOUS
<1>5. theTaskQueue' = [theTaskQueue EXCEPT ![p] = r]
  BY <1>3, <1>4 DEF AddTask
<1>6. /\ Len(q) \in Nat /\ Len(q) <= Len(program.tasks) /\ Len(q) # Len(program.tasks)
      /\ Tasks = 1 .. Len(program.tasks) /\ Len(program.tasks) \in Nat
  BY <1>1, <1>3, TaskFacts DEF TaskInv, AllAdded
<1>7. Len(q) + 1 \in Tasks
  BY <1>6
<1>8. Sorted(q)
  BY <1>1, <1>3 DEF SortedInv, Sorted
<1>9. r \in Seq(Tasks) /\ Len(r) = Len(q) + 1 /\ Sorted(r)
  BY <1>1, <1>4, <1>7, <1>8, SortedStays
<1>10. /\ theTaskQueue' \in [Proc -> Seq(Tasks)] /\ theTaskQueue'[p] = r
       /\ \A s \in Proc : s # p => theTaskQueue'[s] = theTaskQueue[s]
  BY <1>1, <1>5, <1>9 DEF TypeInv
<1>11. TypeInv'
  <2>1. MailTypes'
    BY <1>1, <1>2 DEF TypeInv, MailTypes, mailVars
  <2> QED
    BY <1>1, <1>2, <1>10, <2>1, TaskTypes DEF TypeInv
<1>12. TaskStep(p)
  BY <1>1, <1>2, <1>10 DEF TaskStep, Elsewhere, callVars
<1>13. TaskInv(p)'
  <2>1. next'[p] = 1 /\ at'[p] > Len(program.calls[p]) /\ pc'[p] = "run"
    BY <1>1, <1>2 DEF TaskInv, callVars
  <2>2. Len(theTaskQueue'[p]) = Len(q) + 1 /\ Len(q) + 1 <= Len(program.tasks)
    BY <1>6, <1>9, <1>10
  <2>3. 1 <= Len(q) + 1 + 1
    BY <1>6
  <2> QED
    BY <1>2, <2>1, <2>2, <2>3 DEF TaskInv, AtWork
<1>14. SortedInv(p)'
  BY <1>2, <1>9, <1>10 DEF SortedInv, Sorted, Precedes
<1>15. EarlyInv(p)'
  BY <1>1, <1>2 DEF EarlyInv, Tasks, Mapping
<1>16. ASSUME NEW t \in Tasks
       PROVE  Completed(t)' = Completed(t)
  <2>1. CASE Mapping(t) # p
    BY <1>1, <1>12, <2>1, CompletedElse DEF TaskStep
  <2>2. CASE Mapping(t) = p
    <3>1. next[p] = 1 /\ next'[p] = 1 /\ Mapping(t)' = p
      BY <1>1, <1>2, <2>2 DEF TaskInv, Mapping
    <3>2. ~Began(p, t) /\ ~Began(p, t)'
      BY <3>1 DEF Began
    <3>3. Completed(t) = CASE ~Began(p, t) -> 0
                           [] Runs(p, t) -> step[p] - 1
                           [] OTHER -> Len(program.tasks[t].body)
      BY <2>2 DEF Completed
    <3>4. Completed(t)' = CASE ~Began(p, t)' -> 0
                            [] Runs(p, t)' -> step'[p] - 1
                            [] OTHER -> Len(program'.tasks[t].body)
      BY <3>1 DEF Completed, Began, Runs, Current
    <3>5. ~Runs(p, t) /\ ~Runs(p, t)'
      BY <1>1, <1>2 DEF Runs
    <3>6. Completed(t) = 0 /\ Completed(t)' = 0
      BY <3>2, <3>3, <3>4, <3>5
    <3> QED
      BY <3>6
  <2> QED
    BY <2>1, <2>2
<1>17. SleepInvs'
  BY <1>1, <1>2, <1>12, TaskSleep
<1>18. Sound'
  BY <1>1, <1>2, <1>12, <1>16, TaskStill
<1> QED
  BY <1>11, <1>12, <1>13, <1>14, <1>15, <1>17, <1>18 DEF TaskAfter

\* execute_tasks: the task that comes next has not begun before.
LEMMA ExecuteTaskCompleted ==
    ASSUME NEW p \in Proc, TaskReady(p), ExecuteTask(p), TypeInv', TaskInv(p)', Elsewhere(p), NEW t \in Tasks
    PROVE  Completed(t)' = Completed(t)
<1>1. /\ TypeInv /\ TaskInv(p) /\ SortedInv(p) /\ pc[p] = "run" /\ program' = program /\ theTaskQueue' = theTaskQueue
      /\ pc \in [Proc -> Place] /\ next \in [Proc -> Nat \ {0}] /\ step \in [Proc -> Nat \ {0}]
  BY DEF TaskReady, Ready, Local, ExecuteTask, TypeInv
<1>2. CASE Mapping(t) # p
  BY <1>1, <1>2, CompletedElse
<1>3. CASE Mapping(t) = p
  <2>0. Mapping(t)' = p /\ ~Runs(p, t)
    BY <1>1, <1>3 DEF Mapping, Runs
  <2>1. CASE next[p] > Len(theTaskQueue[p])
    <3>1. next' = next /\ pc'[p] = "done"
      BY <1>1, <2>1 DEF ExecuteTask, Goto
    <3>2. (Began(p, t)' <=> Began(p, t)) /\ ~Runs(p, t)'
      BY <1>1, <3>1 DEF Began, Runs
    <3>3. Completed(t) = IF Began(p, t) THEN Len(program.tasks[t].body) ELSE 0
      BY <1>3, <2>0 DEF Completed
    <3>4. Completed(t)' = CASE ~Began(p, t)' -> 0
                            [] Runs(p, t)' -> step'[p] - 1
                            [] OTHER -> Len(program'.tasks[t].body)
      BY <2>0 DEF Completed, Began, Runs, Current
    <3> QED
      BY <1>1, <3>2, <3>3, <3>4
  <2>2. CASE ~(next[p] > Len(theTaskQueue[p]))
    <3>1. PICK n \in Nat \ {0} : n = next[p]
      BY <1>1
    <3>2. next'[p] = n + 1 /\ step'[p] = 1 /\ pc'[p] = (IF Mapping(theTaskQueue[p][n]) = p THEN "task" ELSE "run")
      BY <1>1, <2>2, <3>1 DEF ExecuteTask, Goto
    <3>3. PICK q \in Seq(Tasks) : q = theTaskQueue[p]
      BY <1>1 DEF TypeInv
    <3>4. DOMAIN q = 1 .. Len(q) /\ Len(q) \in Nat /\ n \in 1 .. Len(q)
      BY <2>2, <3>1, <3>3, LenProperties
    <3>5. Began(p, t) <=> \E i \in 1 .. n - 1 : q[i] = t
      BY <3>1, <3>3 DEF Began
    <3>6. Began(p, t)' <=> \E i \in 1 .. n : q[i] = t
      <4>1. next'[p] - 1 = n
        BY <3>1, <3>2
      <4>2. Began(p, t)' <=> \E i \in 1 .. next'[p] - 1 : theTaskQueue'[p][i] = t
        BY DEF Began
      <4> QED
        BY <1>1, <3>3, <4>1, <4>2
    <3>7. Completed(t) = IF Began(p, t) THEN Len(program.tasks[t].body) ELSE 0
      BY <1>3, <2>0 DEF Completed
    <3>8. Completed(t)' = CASE ~Began(p, t)' -> 0
                            [] Runs(p, t)' -> step'[p] - 1
                            [] OTHER -> Len(program'.tasks[t].body)
      BY <2>0 DEF Completed, Began, Runs, Current
    <3>9. Runs(p, t)' <=> (pc'[p] = "task" /\ q[n] = t)
      <4>1. Runs(p, t)' <=> pc'[p] \in {"task", "tsend", "size", "message"} /\ Current(p)' = t
        BY DEF Runs
      <4>2. Current(p)' = q[n]
        <5>1. next'[p] - 1 = n
          BY <3>1, <3>2
        <5> QED
          BY <1>1, <3>3, <5>1 DEF Current
      <4> QED
        BY <3>2, <4>1, <4>2
    <3>10. CASE q[n] = t
      <4>1. ~Began(p, t)
        <5> SUFFICES ASSUME NEW i \in 1 .. n - 1, q[i] = t
                     PROVE  FALSE
          BY <3>5
        <5>1. i \in DOMAIN q /\ n \in DOMAIN q /\ i < n
          BY <3>4
        <5>2. Precedes(q[i], q[n])
          BY <1>1, <3>3, <5>1 DEF SortedInv
        <5>3. program.tasks[t].priority \in Nat /\ t \in Nat
          BY <1>1, TaskFacts
        <5> QED
          BY <3>10, <5>2, <5>3 DEF Precedes
      <4>2. pc'[p] = "task"
        BY <1>3, <3>2, <3>3, <3>10
      <4>3. Began(p, t)' /\ Runs(p, t)'
        BY <3>4, <3>6, <3>9, <3>10, <4>2
      <4>4. Completed(t)' = step'[p] - 1 /\ step'[p] - 1 = 0
        BY <3>2, <3>8, <4>3
      <4> QED
        BY <3>7, <4>1, <4>4
    <3>11. CASE q[n] # t
      <4>1. Began(p, t)' <=> Began(p, t)
        BY <3>1, <3>5, <3>6, <3>11
      <4>2. ~Runs(p, t)'
        BY <3>9, <3>11
      <4> QED
        BY <1>1, <3>7, <3>8, <4>1, <4>2
    <3> QED
      BY <3>10, <3>11
  <2> QED
    BY <2>1, <2>2
<1> QED
  BY <1>2, <1>3

\* execute_tasks keeps what is sound.
LEMMA ExecuteTaskAfter ==
    ASSUME NEW p \in Proc, TaskReady(p), ExecuteTask(p)
    PROVE  TaskAfter(p)
<1>1. /\ TypeInv /\ SleepInvs /\ Sound /\ TaskInv(p) /\ SortedInv(p) /\ EarlyInv(p)
      /\ at[p] > Len(program.calls[p]) /\ pc[p] = "run" /\ AllAdded(p)
      /\ pc \in [Proc -> Place] /\ next \in [Proc -> Nat \ {0}] /\ step \in [Proc -> Nat \ {0}]
  BY DEF TaskReady, Ready, Local, ExecuteTask, TypeInv
<1>2. /\ program' = program /\ mailVars' = mailVars /\ UNCHANGED callVars /\ theTaskQueue' = theTaskQueue
      /\ theQueue' = theQueue /\ received' = received /\ glue' = glue
  BY DEF ExecuteTask, mailVars
<1>3. PICK q \in Seq(Tasks) : q = theTaskQueue[p]
  BY <1>1 DEF TypeInv
<1>4. PICK n \in Nat \ {0} : n = next[p]
  BY <1>1
<1>5. DOMAIN q = 1 .. Len(q) /\ Len(q) \in Nat /\ n <= Len(q) + 1 /\ n + 1 \in Nat \ {0} /\ n + 1 > 1 /\ (n + 1) - 1 = n
  BY <1>1, <1>3, <1>4, LenProperties DEF TaskInv
<1>6. \/ n > Len(q) /\ next' = next /\ step' = step /\ pc' = [pc EXCEPT ![p] = "done"]
      \/ /\ n <= Len(q) /\ Mapping(q[n]) = p
         /\ next' = [next EXCEPT ![p] = n + 1] /\ step' = [step EXCEPT ![p] = 1] /\ pc' = [pc EXCEPT ![p] = "task"]
      \/ n <= Len(q) /\ next' = [next EXCEPT ![p] = n + 1] /\ step' = [step EXCEPT ![p] = 1] /\ pc' = pc
  BY <1>3, <1>4, <1>5 DEF ExecuteTask, Goto
<1>7. /\ pc' \in [Proc -> Place] /\ next' \in [Proc -> Nat \ {0}] /\ step' \in [Proc -> Nat \ {0}]
      /\ \A s \in Proc : s # p => pc'[s] = pc[s] /\ next'[s] = next[s] /\ step'[s] = step[s]
  <2>1. CASE next' = next /\ step' = step /\ pc' = [pc EXCEPT ![p] = "done"]
    BY <1>1, <2>1 DEF Place
  <2>2. CASE next' = [next EXCEPT ![p] = n + 1] /\ step' = [step EXCEPT ![p] = 1] /\ pc' = [pc EXCEPT ![p] = "task"]
    BY <1>1, <1>5, <2>2 DEF Place, AtWork
  <2>3. CASE next' = [next EXCEPT ![p] = n + 1] /\ step' = [step EXCEPT ![p] = 1] /\ pc' = pc
    BY <1>1, <1>5, <2>3
  <2> QED
    BY <1>6, <2>1, <2>2, <2>3
<1>8. \/ n > Len(q) /\ next'[p] = n /\ pc'[p] = "done"
      \/ n <= Len(q) /\ Mapping(q[n]) = p /\ next'[p] = n + 1 /\ step'[p] = 1 /\ pc'[p] = "task"
      \/ n <= Len(q) /\ next'[p] = n + 1 /\ step'[p] = 1 /\ pc'[p] = "run"
  BY <1>1, <1>4, <1>6
<1>9. TypeInv'
  <2>1. MailTypes'
    BY <1>1, <1>2 DEF TypeInv, MailTypes, mailVars
  <2> QED
    BY <1>1, <1>2, <1>7, <2>1, TaskTypes DEF TypeInv
<1>10. TaskStep(p) /\ Elsewhere(p)
  BY <1>1, <1>2, <1>7, <1>8 DEF TaskStep, Elsewhere, callVars, AtWork
<1>11. TaskInv(p)'
  <2>1. /\ AllAdded(p)' /\ at'[p] > Len(program.calls[p]) /\ theTaskQueue'[p] = q
        /\ Len(q) <= Len(program.tasks)
    BY <1>1, <1>2, <1>3 DEF AllAdded, callVars, TaskInv
  <2>2. CASE n > Len(q) /\ next'[p] = n /\ pc'[p] = "done"
    BY <1>2, <1>5, <2>1, <2>2 DEF TaskInv, AtWork
  <2>3. CASE n <= Len(q) /\ Mapping(q[n]) = p /\ next'[p] = n + 1 /\ step'[p] = 1 /\ pc'[p] = "task"
    <3>1. Current(p)' = q[n]
      BY <1>5, <2>1, <2>3 DEF Current
    <3>2. Mapping(Current(p))' = p
      BY <1>2, <2>3, <3>1 DEF Mapping
    <3>3. n \in DOMAIN q
      BY <1>5, <2>3
    <3>4. q[n] \in Tasks
      BY <1>5, <3>3, ElementOfSeq
    <3>5. Body(p)' = program.tasks[q[n]].body /\ Len(program.tasks[q[n]].body) \in Nat
      BY <1>1, <1>2, <3>1, <3>4, TaskFacts DEF Body
    <3>6. step'[p] <= Len(Body(p)') + 1
      BY <2>3, <3>5
    <3>7. next'[p] <= Len(theTaskQueue'[p]) + 1 /\ next'[p] > 1
      BY <1>5, <2>1, <2>3
    <3> QED
      BY <1>2, <2>1, <2>3, <3>2, <3>6, <3>7 DEF TaskInv
  <2>4. CASE n <= Len(q) /\ next'[p] = n + 1 /\ step'[p] = 1 /\ pc'[p] = "run"
    <3>1. next'[p] <= Len(theTaskQueue'[p]) + 1
      BY <1>5, <2>1, <2>4
    <3> QED
      BY <1>2, <2>1, <2>4, <3>1 DEF TaskInv, AtWork
  <2> QED
    BY <1>8, <2>2, <2>3, <2>4
<1>12. SortedInv(p)'
  BY <1>1, <1>2 DEF SortedInv, Precedes
<1>13. EarlyInv(p)'
  BY <1>1, <1>2, <1>8 DEF EarlyInv, Tasks, Mapping
<1>14. \A t \in Tasks : Completed(t)' = Completed(t)
  BY <1>9, <1>10, <1>11, ExecuteTaskCompleted
<1>15. SleepInvs'
  BY <1>1, <1>2, <1>10, TaskSleep
<1>16. Sound'
  BY <1>1, <1>2, <1>8, <1>10, <1>14, TaskStill
<1> QED
  BY <1>9, <1>10, <1>11, <1>12, <1>13, <1>15, <1>16 DEF TaskAfter

\* A task returns after the last call of its body.
LEMMA TaskReturnsAfter ==
    ASSUME NEW p \in Proc, TaskReady(p), TaskReturns(p)
    PROVE  TaskAfter(p)
<1>1. /\ TypeInv /\ SleepInvs /\ Sound /\ TaskInv(p) /\ SortedInv(p) /\ EarlyInv(p)
      /\ at[p] > Len(program.calls[p]) /\ pc[p] = "task" /\ step[p] > Len(Body(p))
      /\ pc \in [Proc -> Place]
  BY DEF TaskReady, Ready, Local, TaskReturns, TypeInv
<1>2. /\ program' = program /\ mailVars' = mailVars /\ UNCHANGED callVars /\ theTaskQueue' = theTaskQueue
      /\ theQueue' = theQueue /\ received' = received /\ glue' = glue /\ next' = next /\ step' = step
      /\ pc' = [pc EXCEPT ![p] = "run"]
  BY DEF TaskReturns, mailVars, taskVars, Goto
<1>3. pc' \in [Proc -> Place] /\ pc'[p] = "run" /\ \A s \in Proc : s # p => pc'[s] = pc[s]
  BY <1>1, <1>2 DEF Place
<1>4. TypeInv'
  <2>1. MailTypes'
    BY <1>1, <1>2 DEF TypeInv, MailTypes, mailVars
  <2> QED
    BY <1>1, <1>2, <1>3, <2>1, TaskTypes DEF TypeInv
<1>5. TaskStep(p) /\ Elsewhere(p)
  BY <1>1, <1>2, <1>3 DEF TaskStep, Elsewhere, callVars, AtWork
<1>6. TaskInv(p)'
  BY <1>1, <1>2, <1>3 DEF TaskInv, AllAdded, callVars, AtWork
<1>7. SortedInv(p)'
  BY <1>1, <1>2 DEF SortedInv, Precedes
<1>8. EarlyInv(p)'
  BY <1>1, <1>2, <1>3 DEF EarlyInv, Tasks, Mapping
<1>9. ASSUME NEW t \in Tasks
      PROVE  Completed(t)' = Completed(t)
  <2>1. CASE Mapping(t) # p
    BY <1>1, <1>5, <2>1, CompletedElse
  <2>2. CASE Mapping(t) = p
    <3>0. Mapping(t)' = p /\ Began(p, t)' = Began(p, t) /\ ~Runs(p, t)' /\ (Runs(p, t) <=> t = Current(p))
      BY <1>1, <1>2, <1>3, <2>2 DEF Mapping, Began, Runs
    <3>1. Completed(t) = CASE ~Began(p, t) -> 0
                           [] Runs(p, t) -> step[p] - 1
                           [] OTHER -> Len(program.tasks[t].body)
      BY <2>2 DEF Completed
    <3>2. Completed(t)' = CASE ~Began(p, t)' -> 0
                            [] Runs(p, t)' -> step'[p] - 1
                            [] OTHER -> Len(program'.tasks[t].body)
      BY <3>0 DEF Completed, Began, Runs, Current
    <3>3. t = Current(p) => step[p] - 1 = Len(program.tasks[t].body)
      <4>1. pc[p] \in AtWork
        BY <1>1 DEF AtWork
      <4>2. Len(Body(p)) \in Nat /\ step[p] \in Nat /\ step[p] <= Len(Body(p)) + 1
        BY <1>1, <4>1, AtTask
      <4>3. step[p] - 1 = Len(Body(p))
        BY <1>1, <4>2
      <4> QED
        BY <4>3 DEF Body
    <3> QED
      BY <1>2, <3>0, <3>1, <3>2, <3>3
  <2> QED
    BY <2>1, <2>2
<1>10. SleepInvs'
  BY <1>1, <1>2, <1>5, TaskSleep
<1>11. Sound'
  BY <1>1, <1>2, <1>3, <1>5, <1>9, TaskStill
<1> QED
  BY <1>4, <1>5, <1>6, <1>7, <1>8, <1>10, <1>11 DEF TaskAfter

-----------------------------------------------------------------------------
(* tsend. *)

\* What the task of p sends.
LEMMA MessageType ==
    ASSUME TypeInv, NEW p \in Proc, TaskInv(p), pc[p] \in AtWork, step[p] <= Len(Body(p)),
           NEW what \in {"size", "message"}
    PROVE  /\ Message(p, what) \in Addressed(Mapping(Peer(p)), p) /\ Message(p, what) \in Msg
           /\ Message(p, what).what = what /\ Message(p, what).src = Current(p)
           /\ Message(p, what).dest = Peer(p) /\ Message(p, what).call = step[p]
<1>1. /\ Current(p) \in Tasks /\ Mapping(Current(p)) = p /\ Peer(p) \in Tasks /\ step[p] \in Nat
  BY AtTask
<1>2. Tasks \subseteq Nat
  BY TaskFacts
<1>3. Message(p, what) = [what |-> what, src |-> Current(p), dest |-> Peer(p), call |-> step[p]]
  BY DEF Message
<1>4. Message(p, what) \in Tagged
  <2>1. Current(p) \in Nat /\ Peer(p) \in Nat
    BY <1>1, <1>2
  <2> QED
    BY <1>1, <1>3, <2>1 DEF Tagged
<1> QED
  BY <1>1, <1>3, <1>4 DEF Addressed, Msg

\* A task sends to tasks of d.
LEMMA FlowTSend ==
    ASSUME TypeInv, NEW p \in Proc, TaskStep(p), Flows, NEW d \in Proc,
           NEW m \in Addressed(d, p), IF Kept(p, d) THEN Still ELSE Put(d, p, m),
           m.what # Latest(d, p), Latest(d, p)' = m.what,
           \A q \in Proc : q # d => Latest(q, p)' = Latest(q, p),
           pc[p] # "message", pc'[p] # "message"
    PROVE  Flows'
<1>1. \A q, r \in Proc : q # d \/ r # p => Stream(q, r)' = Stream(q, r)
  BY DEF Still, Put, StillBut
<1>2. \A r \in Proc : Due(p, r)' = Due(p, r)
  BY DEF Due
<1>3. ASSUME ~Kept(p, d)
      PROVE  Flow(d, p)'
  <2>1. Flow(d, p)
    BY <1>3 DEF Flows
  <2>2. /\ Ahead(d, p)' = Ahead(d, p) /\ at' = at /\ program' = program
        /\ Addressed(d, p)' = Addressed(d, p)
    BY TaskAhead
  <2>3. PICK q \in Seq(Msg) : q = Stream(d, p)
    BY StreamType DEF TypeInv
  <2>4. Good(q, Ahead(d, p), Addressed(d, p), Due(d, p), Latest(d, p))
    BY <2>1, <2>3 DEF Flow
  <2>5. PICK r : r = Append(q, m)
    OBVIOUS
  <2>6. Good(r, Ahead(d, p), Addressed(d, p), Due(d, p), m.what)
    BY <2>4, <2>5, TwoKindsHere, AddTagged
  <2>7. Stream(d, p)' = r
    BY <1>3, <2>3, <2>5 DEF Put, Added
  <2>8. Due(d, p)' = Due(d, p)
    <3>1. Elsewhere(p)
      BY DEF TaskStep
    <3> QED
      BY <1>2, <3>1, OthersKinds
  <2>9. ~(at[p] <= Len(program.calls[p]))
    <3>1. at[p] \in Nat /\ Len(program.calls[p]) \in Nat
      BY CallFacts DEF TypeInv
    <3> QED
      BY <3>1 DEF TaskStep
  <2>10. Good(Stream(d, p)', Ahead(d, p)', Addressed(d, p)', Due(d, p)', Latest(d, p)')
    BY <2>2, <2>6, <2>7, <2>8
  <2> QED
    BY <2>2, <2>9, <2>10 DEF Flow
<1> QED
  BY <1>1, <1>2, <1>3, FlowTask

\* The message is the last of its tasks.
LEMMA ArriveTSend ==
    ASSUME TypeInv, NEW p \in Proc, TaskStep(p), Arrivals, NEW d \in Proc,
           NEW m \in Addressed(d, p), IF Kept(p, d) THEN Still ELSE Put(d, p, m),
           theQueue' = theQueue, received' = received,
           \A t, u \in Tasks :
               /\ Own(m, t, u) => /\ SentTo(t, u)' = SentTo(t, u) \union {m.call}
                                  /\ Below(SentTo(t, u), {m.call})
               /\ ~Own(m, t, u) => SentTo(t, u)' = SentTo(t, u)
    PROVE  Arrivals'
<1>1. Tasks' = Tasks /\ program' = program
  BY DEF TaskStep, Elsewhere, Tasks
<1>2. \A q, r \in Proc : q # d \/ r # p => Stream(q, r)' = Stream(q, r)
  BY DEF Still, Put, StillBut
<1>3. m \in Msg
  BY DEF Addressed, Msg
<1> SUFFICES ASSUME NEW t \in Tasks, NEW u \in Tasks, ~Kept(Mapping(u), Mapping(t))'
             PROVE  Arrives(t, u)'
  BY <1>1 DEF Arrivals
<1>4. /\ Mapping(t) \in Proc /\ Mapping(u) \in Proc /\ ~Kept(Mapping(u), Mapping(t))
      /\ Chain(received[t], theQueue[Mapping(t)], Stream(Mapping(t), Mapping(u)), SentTo(t, u), t, u)
  BY ArriveGiven
<1>5. PICK q \in Proc : q = Mapping(t)
  BY <1>4
<1>6. PICK r \in Proc : r = Mapping(u)
  BY <1>4
<1>7. PICK S : S = SentTo(t, u)
  OBVIOUS
<1>8. PICK h : h = received[t]
  OBVIOUS
<1>9. PICK e : e = theQueue[q]
  OBVIOUS
<1>10. PICK c \in Seq(Msg) : c = Stream(q, r)
  BY StreamType DEF TypeInv
<1>11. PICK cc : cc = Stream(q, r)'
  OBVIOUS
<1>12. Chain(h, e, c, S, t, u)
  BY <1>4, <1>5, <1>6, <1>7, <1>8, <1>9, <1>10
<1>13. CASE q = d /\ r = p
  <2>1. Added(cc, c, m)
    BY <1>4, <1>5, <1>6, <1>10, <1>11, <1>13 DEF Put
  <2>2. CASE Own(m, t, u)
    <3>1. Chain(h, e, cc, S \union {m.call}, t, u)
      BY <1>3, <1>7, <1>12, <2>1, <2>2, ChainSent
    <3>2. SentTo(t, u)' = S \union {m.call}
      BY <1>7, <2>2
    <3>3. Chain(received'[t], theQueue'[q], Stream(q, r)', S \union {m.call}, t, u)
      BY <1>8, <1>9, <1>11, <3>1
    <3> QED
      BY <1>1, <1>5, <1>6, <3>2, <3>3, ArriveGoal
  <2>3. CASE ~Own(m, t, u)
    <3>1. Chain(h, e, cc, S, t, u)
      BY <1>3, <1>12, <2>1, <2>3, ChainPut
    <3>2. SentTo(t, u)' = S
      BY <1>7, <2>3
    <3>3. Chain(received'[t], theQueue'[q], Stream(q, r)', S, t, u)
      BY <1>8, <1>9, <1>11, <3>1
    <3> QED
      BY <1>1, <1>5, <1>6, <3>2, <3>3, ArriveGoal
  <2> QED
    BY <2>2, <2>3
<1>14. CASE q # d \/ r # p
  <2>1. ~Own(m, t, u)
    BY <1>5, <1>6, <1>14 DEF Addressed, Own
  <2>2. SentTo(t, u)' = S
    BY <1>7, <2>1
  <2>3. cc = c
    BY <1>2, <1>10, <1>11, <1>14
  <2>4. Chain(received'[t], theQueue'[q], Stream(q, r)', S, t, u)
    BY <1>8, <1>9, <1>11, <1>12, <2>3
  <2> QED
    BY <1>1, <1>5, <1>6, <2>2, <2>4, ArriveGoal
<1> QED
  BY <1>13, <1>14

\* The list of messages to oneself, when a task sends.
LEMMA HackTSend ==
    ASSUME TypeInv, NEW p \in Proc, TaskStep(p), \A q \in Proc : HackInv(q), NEW d \in Proc, NEW m \in Msg,
           Kept(p, d) => hack' = [hack EXCEPT ![p] = <<m>> \o @],
           ~Kept(p, d) => hack' = hack /\ Slot(p) = "closed",
           pc'[p] # "message",
           \/ m.what = "size" /\ Slot(p) = "closed" /\ (Kept(p, d) => Slot(p)' = "open")
           \/ m.what = "message"
    PROVE  \A q \in Proc : HackInv(q)'
<1>1. hack \in [Proc -> Seq(Msg)]
  BY DEF TypeInv, MailTypes
<1>2. \A q \in Proc : q # p => hack'[q] = hack[q]
  BY <1>1
<1>3. ASSUME Hacked(hack[p], Slot(p))
      PROVE  Hacked(hack'[p], Slot(p)')
  <2>1. CASE Kept(p, d)
    <3>1. hack'[p] = <<m>> \o hack[p] /\ hack[p] \in Seq(Msg)
      BY <1>1, <2>1
    <3>2. PICK a : a = Slot(p)
      OBVIOUS
    <3>3. PICK b : b = Slot(p)'
      OBVIOUS
    <3>4. (m.what = "size" => b = "open") /\ (a = "open" => m.what = "message")
      BY <2>1, <3>2, <3>3
    <3>5. Hacked(<<m>> \o hack[p], b)
      BY <1>3, <3>1, <3>2, <3>4, HackedPut
    <3> QED
      BY <3>1, <3>3, <3>5
  <2>2. CASE ~Kept(p, d)
    BY <1>3, <2>2 DEF Hacked
  <2> QED
    BY <2>1, <2>2
<1> QED
  BY <1>2, <1>3, HackTask

\* What is the same in a call of a task's body.
LEMMA InBody ==
    ASSUME NEW p \in Proc, TypeInv, TaskInv(p), SortedInv(p), pc[p] \in AtWork, pc'[p] \in AtWork \union {"error"},
           at[p] > Len(program.calls[p]), at' = at,
           program' = program, theTaskQueue' = theTaskQueue, next' = next,
           pc'[p] \in AtWork => step'[p] <= Len(Body(p)) + 1,
           pc'[p] = "tsend" => step'[p] <= Len(Body(p)) /\ Body(p)[step'[p]].op = "tsend",
           pc'[p] \in {"size", "message"} => step'[p] <= Len(Body(p)) /\ Body(p)[step'[p]].op = "treceive"
    PROVE  /\ TaskInv(p)' /\ SortedInv(p)' /\ Current(p)' = Current(p) /\ Body(p)' = Body(p)
           /\ \A t : Mapping(t)' = Mapping(t)
<1>1. Current(p)' = Current(p) /\ Body(p)' = Body(p) /\ \A t : Mapping(t)' = Mapping(t)
  BY DEF Current, Body, Mapping
<1>2. SortedInv(p)'
  BY DEF SortedInv, Precedes
<1>3. TaskInv(p)'
  BY <1>1 DEF TaskInv, AllAdded, AtWork
<1> QED
  BY <1>1, <1>2, <1>3

\* tsend sends a size
LEMMA TSendSizeAfter ==
    ASSUME NEW p \in Proc, TaskReady(p), TSendSize(p)
    PROVE  TaskAfter(p)
<1>1. /\ TypeInv /\ SleepInvs /\ Sound /\ TaskInv(p) /\ SortedInv(p) /\ EarlyInv(p)
      /\ at[p] > Len(program.calls[p]) /\ pc[p] = "task" /\ step[p] <= Len(Body(p)) /\ Body(p)[step[p]].op = "tsend"
      /\ pc \in [Proc -> Place] /\ pc[p] \in AtWork /\ MailTypes
  BY DEF TaskReady, Ready, Local, TSendSize, InTask, TypeInv, AtWork
<1>2. /\ program' = program /\ UNCHANGED callVars /\ at' = at /\ theTaskQueue' = theTaskQueue
      /\ theQueue' = theQueue /\ received' = received /\ next' = next /\ step' = step
      /\ pc' = [pc EXCEPT ![p] = "tsend"] /\ SendReal(p, Mapping(Peer(p)), Message(p, "size"))
  BY DEF TSendSize, callVars, taskVars, Goto
<1>3. PICK d \in Proc : d = Mapping(Peer(p))
  BY <1>1, AtTask
<1>4. PICK m \in Msg : /\ m = Message(p, "size") /\ m \in Addressed(d, p) /\ m.what = "size"
  BY <1>1, <1>3, MessageType
<1>5. /\ MailTypes' /\ glue' = glue /\ queue' = queue /\ waiting' = waiting /\ asleep' = asleep
      /\ Kept(p, d) => Still /\ hack' = [hack EXCEPT ![p] = <<m>> \o @]
      /\ ~Kept(p, d) => Put(d, p, m) /\ hack' = hack
  BY <1>1, <1>2, <1>3, <1>4, SendEffect
<1>6. pc' \in [Proc -> Place] /\ pc'[p] = "tsend" /\ pc'[p] \in AtWork /\ \A s \in Proc : s # p => pc'[s] = pc[s]
  BY <1>1, <1>2 DEF Place, AtWork
<1>7. TypeInv'
  BY <1>1, <1>2, <1>5, <1>6, TaskTypes DEF TypeInv
<1>8. TaskStep(p) /\ Elsewhere(p)
  BY <1>1, <1>2, <1>5, <1>6 DEF TaskStep, Elsewhere, AtWork, callVars
<1>9. /\ TaskInv(p)' /\ SortedInv(p)' /\ Current(p)' = Current(p) /\ Body(p)' = Body(p)
      /\ \A t : Mapping(t)' = Mapping(t)
  <2>1. step'[p] <= Len(Body(p)) + 1
    BY <1>1, <1>2, AtTask
  <2> QED
    BY <1>1, <1>2, <1>6, <2>1, InBody
<1>10. EarlyInv(p)'
  BY <1>1, <1>2, <1>6 DEF EarlyInv, Tasks, Mapping
<1>11. SleepInvs'
  <2>1. Awaited(p) = {}
    BY <1>1 DEF Awaited
  <2>2. \A s \in Proc : ~asleep[<<p, s>>]
    BY <1>1, <2>1, Awake
  <2> QED
    BY <1>1, <1>5, <1>8, <2>2, SleepStays
<1>12. Peer(p)' = Peer(p)
  BY <1>2, <1>9 DEF Peer
<1>13. Flows'
  <2>1. \A q : Latest(q, p) = "message" /\ Latest(q, p)' = (IF q = d THEN "size" ELSE "message")
    BY <1>1, <1>3, <1>6, <1>9, <1>12 DEF Latest
  <2>2. IF Kept(p, d) THEN Still ELSE Put(d, p, m)
    BY <1>5
  <2> QED
    BY <1>1, <1>4, <1>6, <1>8, <2>1, <2>2, FlowTSend DEF Sound
<1>14. Arrivals'
  <2>1. ASSUME NEW t \in Tasks, NEW u \in Tasks
        PROVE  ~Own(m, t, u) /\ SentTo(t, u)' = SentTo(t, u)
    <3>1. Completed(u)' = Completed(u)
      <4>1. CASE Mapping(u) = p
        BY <1>1, <1>2, <1>6, <1>7, <1>9, <4>1, CompletedWork
      <4>2. CASE Mapping(u) # p
        BY <1>1, <1>8, <4>2, CompletedElse
      <4> QED
        BY <4>1, <4>2
    <3> QED
      BY <1>2, <1>4, <3>1, SentToSame DEF Own
  <2>2. IF Kept(p, d) THEN Still ELSE Put(d, p, m)
    BY <1>5
  <2> QED
    BY <1>1, <1>2, <1>4, <1>8, <2>1, <2>2, ArriveTSend DEF Sound
<1>15. \A q \in Proc : HackInv(q)'
  <2>1. Slot(p) = "closed" /\ (Kept(p, d) => Slot(p)' = "open")
    BY <1>1, <1>3, <1>5, <1>6, <1>9, <1>12 DEF Slot, Kept
  <2> QED
    BY <1>1, <1>4, <1>5, <1>6, <1>8, <2>1, HackTSend DEF Sound
<1> QED
  BY <1>7, <1>8, <1>9, <1>10, <1>11, <1>13, <1>14, <1>15 DEF TaskAfter, Sound

\* and then the message.
LEMMA TSendMessageAfter ==
    ASSUME NEW p \in Proc, TaskReady(p), TSendMessage(p)
    PROVE  TaskAfter(p)
<1>1. /\ TypeInv /\ SleepInvs /\ Sound /\ TaskInv(p) /\ SortedInv(p) /\ EarlyInv(p)
      /\ at[p] > Len(program.calls[p]) /\ pc[p] = "tsend" /\ step[p] <= Len(Body(p)) /\ Body(p)[step[p]].op = "tsend"
      /\ pc \in [Proc -> Place] /\ step \in [Proc -> Nat \ {0}] /\ pc[p] \in AtWork /\ MailTypes
  BY DEF TaskReady, Ready, Local, TSendMessage, TypeInv, AtWork, TaskInv
<1>2. /\ program' = program /\ UNCHANGED callVars /\ at' = at /\ theTaskQueue' = theTaskQueue
      /\ theQueue' = theQueue /\ received' = received /\ next' = next /\ step' = [step EXCEPT ![p] = @ + 1]
      /\ pc' = [pc EXCEPT ![p] = "task"] /\ SendReal(p, Mapping(Peer(p)), Message(p, "message"))
  BY DEF TSendMessage, callVars, Goto
<1>3. PICK d \in Proc : d = Mapping(Peer(p))
  BY <1>1, AtTask
<1>4. PICK m \in Msg : /\ m = Message(p, "message") /\ m \in Addressed(d, p) /\ m.what = "message"
                       /\ m.src = Current(p) /\ m.dest = Peer(p) /\ m.call = step[p]
  BY <1>1, <1>3, MessageType
<1>5. /\ MailTypes' /\ glue' = glue /\ queue' = queue /\ waiting' = waiting /\ asleep' = asleep
      /\ Kept(p, d) => Still /\ hack' = [hack EXCEPT ![p] = <<m>> \o @]
      /\ ~Kept(p, d) => Put(d, p, m) /\ hack' = hack
  BY <1>1, <1>2, <1>3, <1>4, SendEffect
<1>6. pc' \in [Proc -> Place] /\ pc'[p] = "task" /\ pc'[p] \in AtWork /\ \A s \in Proc : s # p => pc'[s] = pc[s]
  BY <1>1, <1>2 DEF Place, AtWork
<1>60. PICK k \in Nat \ {0} : k = step[p] /\ k + 1 \in Nat \ {0} /\ k <= Len(Body(p)) /\ k + 1 <= Len(Body(p)) + 1
  BY <1>1, AtTask
<1>61. step' \in [Proc -> Nat \ {0}] /\ step'[p] = k + 1 /\ \A s \in Proc : s # p => step'[s] = step[s]
  BY <1>1, <1>2, <1>60
<1>7. TypeInv'
  BY <1>1, <1>2, <1>5, <1>6, <1>61, TaskTypes DEF TypeInv
<1>8. TaskStep(p) /\ Elsewhere(p)
  BY <1>1, <1>2, <1>5, <1>6, <1>61 DEF TaskStep, Elsewhere, AtWork, callVars
<1>9. /\ TaskInv(p)' /\ SortedInv(p)' /\ Current(p)' = Current(p) /\ Body(p)' = Body(p)
      /\ \A t : Mapping(t)' = Mapping(t)
  BY <1>1, <1>2, <1>6, <1>60, <1>61, InBody
<1>10. EarlyInv(p)'
  BY <1>1, <1>2, <1>6 DEF EarlyInv, Tasks, Mapping
<1>11. SleepInvs'
  <2>1. Awaited(p) = {}
    BY <1>1 DEF Awaited
  <2>2. \A s \in Proc : ~asleep[<<p, s>>]
    BY <1>1, <2>1, Awake
  <2> QED
    BY <1>1, <1>5, <1>8, <2>2, SleepStays
<1>13. Flows'
  <2>1. \A q : Latest(q, p) = (IF q = d THEN "size" ELSE "message") /\ Latest(q, p)' = "message"
    BY <1>1, <1>3, <1>6 DEF Latest
  <2>2. IF Kept(p, d) THEN Still ELSE Put(d, p, m)
    BY <1>5
  <2> QED
    BY <1>1, <1>4, <1>6, <1>8, <2>1, <2>2, FlowTSend DEF Sound
<1>14. Arrivals'
  <2>1. ASSUME NEW t \in Tasks, NEW u \in Tasks
        PROVE  /\ Own(m, t, u) => /\ SentTo(t, u)' = SentTo(t, u) \union {m.call}
                                  /\ Below(SentTo(t, u), {m.call})
               /\ ~Own(m, t, u) => SentTo(t, u)' = SentTo(t, u)
    <3>1. CASE u # Current(p)
      <4>1. Completed(u)' = Completed(u)
        <5>1. CASE Mapping(u) = p
          BY <1>1, <1>2, <1>6, <1>7, <1>9, <3>1, <5>1, CompletedWork
        <5>2. CASE Mapping(u) # p
          BY <1>1, <1>8, <5>2, CompletedElse
        <5> QED
          BY <5>1, <5>2
      <4> QED
        BY <1>2, <1>4, <3>1, <4>1, SentToSame DEF Own
    <3>2. CASE u = Current(p)
      <4>1. Mapping(u) = p
        BY <1>1, <3>2, AtTask
      <4>2. Completed(u) = k - 1 /\ Completed(u)' = k
        <5>1. Completed(u) = step[p] - 1 /\ Completed(u)' = step'[p] - 1
          BY <1>1, <1>2, <1>6, <1>7, <1>9, <3>2, <4>1, CompletedWork
        <5> QED
          BY <1>60, <1>61, <5>1
      <4>3. SentTo(t, u) = {i \in 1 .. k - 1 : program.tasks[u].body[i] = [op |-> "tsend", peer |-> t]}
        BY <4>2 DEF SentTo
      <4>4. SentTo(t, u)' = {i \in 1 .. k : program.tasks[u].body[i] = [op |-> "tsend", peer |-> t]}
        BY <1>2, <4>2 DEF SentTo
      <4>5. program.tasks[u].body[k] = [op |-> "tsend", peer |-> Peer(p)]
        <5>1. Body(p)[step[p]] = [op |-> "tsend", peer |-> Peer(p)]
          BY <1>1, AtTask
        <5> QED
          BY <1>60, <3>2, <5>1 DEF Body
      <4>6. CASE t = Peer(p)
        <5>1. SentTo(t, u)' = SentTo(t, u) \union {k}
          BY <4>3, <4>4, <4>5, <4>6
        <5>2. Below(SentTo(t, u), {k})
          BY <4>3 DEF Below
        <5> QED
          BY <1>4, <1>60, <3>2, <4>6, <5>1, <5>2 DEF Own
      <4>7. CASE t # Peer(p)
        <5>1. [op |-> "tsend", peer |-> Peer(p)] # [op |-> "tsend", peer |-> t]
          BY <4>7
        <5>2. SentTo(t, u)' = SentTo(t, u)
          BY <4>3, <4>4, <4>5, <5>1
        <5> QED
          BY <1>4, <4>7, <5>2 DEF Own
      <4> QED
        BY <4>6, <4>7
    <3> QED
      BY <3>1, <3>2
  <2>2. IF Kept(p, d) THEN Still ELSE Put(d, p, m)
    BY <1>5
  <2> QED
    BY <1>1, <1>2, <1>4, <1>8, <2>1, <2>2, ArriveTSend DEF Sound
<1>15. \A q \in Proc : HackInv(q)'
  <2>1. ~Kept(p, d) => Slot(p) = "closed"
    BY <1>3 DEF Slot
  <2> QED
    BY <1>1, <1>4, <1>5, <1>6, <1>8, <2>1, HackTSend DEF Sound
<1> QED
  BY <1>7, <1>8, <1>9, <1>10, <1>11, <1>13, <1>14, <1>15 DEF TaskAfter, Sound

-----------------------------------------------------------------------------
(* treceive. *)

\* A message of tasks is a message.
LEMMA TaggedMsg ==
    ASSUME NEW q \in Seq(Tagged)
    PROVE  q \in Seq(Msg)
<1>1. Tagged \subseteq Msg
  BY DEF Msg
<1> QED
  BY <1>1

\* A treceive adds nothing to what tasks have sent.
LEMMA SentToReceive ==
    ASSUME TypeInv, TypeInv', NEW p \in Proc, TaskInv(p), TaskInv(p)', Elsewhere(p),
           theTaskQueue' = theTaskQueue, next' = next, pc[p] \in AtWork, pc'[p] \in AtWork,
           step[p] <= Len(Body(p)), Body(p)[step[p]].op = "treceive", step'[p] \in {step[p], step[p] + 1},
           NEW t \in Tasks, NEW u \in Tasks
    PROVE  SentTo(t, u)' = SentTo(t, u)
<1>0. program' = program
  BY DEF Elsewhere
<1>1. PICK k \in Nat \ {0} : k = step[p]
  BY DEF TypeInv
<1>2. CASE Mapping(u) = p /\ u = Current(p)
  <2>1. Completed(u) = step[p] - 1 /\ Completed(u)' = step'[p] - 1
    BY <1>0, <1>2, CompletedWork
  <2>2. Completed(u) = k - 1 /\ Completed(u)' \in {k - 1, k}
    BY <1>1, <2>1
  <2>3. program.tasks[u].body[k] # [op |-> "tsend", peer |-> t]
    BY <1>1, <1>2 DEF Body
  <2>4. SentTo(t, u) = {i \in 1 .. k - 1 : program.tasks[u].body[i] = [op |-> "tsend", peer |-> t]}
    BY <2>2 DEF SentTo
  <2>5. SentTo(t, u)' = {i \in 1 .. Completed(u)' : program.tasks[u].body[i] = [op |-> "tsend", peer |-> t]}
    BY <1>0 DEF SentTo
  <2> QED
    BY <2>2, <2>3, <2>4, <2>5
<1>3. CASE Mapping(u) = p /\ u # Current(p)
  BY <1>0, <1>3, CompletedWork, SentToSame
<1>4. CASE Mapping(u) # p
  BY <1>0, <1>4, CompletedElse, SentToSame
<1> QED
  BY <1>2, <1>3, <1>4

\* The task receives a message that waits in theQueue.
LEMMA FoundArrivals ==
    ASSUME TypeInv, NEW p \in Proc, TaskStep(p), Arrivals, EarlyInv(p), mailVars' = mailVars,
           NEW i \in DOMAIN theQueue[p], Matches(p, theQueue[p][i]),
           \A j \in DOMAIN theQueue[p] : Matches(p, theQueue[p][j]) => i <= j,
           Current(p) \in Tasks, Mapping(Current(p)) = p,
           theQueue' = [theQueue EXCEPT ![p] = RemoveAt(@, i)],
           received' = [received EXCEPT ![Current(p)] = Append(@, theQueue[p][i])],
           \A t, u \in Tasks : SentTo(t, u)' = SentTo(t, u)
    PROVE  Arrivals'
<1>1. Tasks' = Tasks /\ program' = program
  BY DEF TaskStep, Elsewhere, Tasks
<1> SUFFICES ASSUME NEW t \in Tasks, NEW u \in Tasks, ~Kept(Mapping(u), Mapping(t))'
             PROVE  Arrives(t, u)'
  BY <1>1 DEF Arrivals
<1>4. /\ Mapping(t) \in Proc /\ Mapping(u) \in Proc
      /\ Chain(received[t], theQueue[Mapping(t)], Stream(Mapping(t), Mapping(u)), SentTo(t, u), t, u)
  BY ArriveGiven
<1>5. PICK q \in Proc : q = Mapping(t)
  BY <1>4
<1>6. PICK r \in Proc : r = Mapping(u)
  BY <1>4
<1>7. PICK S : S = SentTo(t, u)
  OBVIOUS
<1>8. PICK h \in Seq(Msg) : h = received[t]
  BY TaggedMsg DEF TypeInv
<1>9. PICK e \in Seq(Msg) : e = theQueue[q]
  BY TaggedMsg DEF TypeInv
<1>10. PICK c : c = Stream(q, r)
  OBVIOUS
<1>11. Stream(q, r)' = c
  BY <1>10 DEF mailVars, Stream
<1>12. Chain(h, e, c, S, t, u)
  BY <1>4, <1>5, <1>6, <1>7, <1>8, <1>9, <1>10
<1>13. PICK m : m = theQueue[p][i]
  OBVIOUS
<1>14. m.dest = Current(p) /\ m.src = Peer(p)
  BY <1>13 DEF Matches
<1>15. PICK hh : hh = received'[t]
  OBVIOUS
<1>16. PICK ee : ee = theQueue'[q]
  OBVIOUS
<1>17. /\ theQueue \in [Proc -> Seq(Tagged)] /\ received \in [Tasks -> Seq(Tagged)]
  BY DEF TypeInv
<1>18. Chain(hh, ee, c, S, t, u)
  <2>1. CASE t = Current(p)
    <3>1. q = p
      BY <1>5, <2>1
    <3>2. Added(hh, h, m)
      BY <1>8, <1>13, <1>15, <1>17, <2>1 DEF Added
    <3>3. Cut(ee, e, i) /\ e[i] = m /\ i \in 1 .. Len(e)
      BY <1>9, <1>13, <1>16, <1>17, <3>1 DEF Cut
    <3>4. First(e, i, t, u)
      <4> SUFFICES ASSUME Own(e[i], t, u), NEW j \in 1 .. i - 1, Own(e[j], t, u)
                   PROVE  FALSE
        BY DEF First
      <4>1. j \in DOMAIN theQueue[p] /\ Matches(p, theQueue[p][j])
        BY <1>9, <1>14, <2>1, <3>1, <3>3 DEF Own, Matches
      <4>2. i <= j
        BY <4>1
      <4> QED
        BY <3>3, <4>2
    <3> QED
      BY <1>12, <3>2, <3>3, <3>4, ChainFound
  <2>2. CASE t # Current(p)
    <3>1. hh = h
      BY <1>8, <1>15, <1>17, <2>2
    <3>2. CASE q = p
      <4>1. Cut(ee, e, i) /\ e[i] = m /\ i \in 1 .. Len(e)
        BY <1>9, <1>13, <1>16, <1>17, <3>2 DEF Cut
      <4>2. ~Own(m, t, u)
        BY <1>14, <2>2 DEF Own
      <4> QED
        BY <1>12, <3>1, <4>1, <4>2, ChainPast
    <3>3. CASE q # p
      <4>1. ee = e
        BY <1>9, <1>16, <1>17, <3>3
      <4> QED
        BY <1>12, <3>1, <4>1
    <3> QED
      BY <3>2, <3>3
  <2> QED
    BY <2>1, <2>2
<1>19. SentTo(t, u)' = S
  BY <1>7
<1>20. Chain(received'[t], theQueue'[q], Stream(q, r)', S, t, u)
  BY <1>11, <1>15, <1>16, <1>18
<1> QED
  BY <1>1, <1>5, <1>6, <1>19, <1>20, ArriveGoal

\* treceive looks in theQueue, and begins to wait when the message is not there
LEMMA TReceiveWaits ==
    ASSUME NEW p \in Proc, TaskReady(p), TReceive(p), pc'[p] = "size"
    PROVE  TaskAfter(p)
<1>1. /\ TypeInv /\ SleepInvs /\ Sound /\ TaskInv(p) /\ SortedInv(p) /\ EarlyInv(p)
      /\ at[p] > Len(program.calls[p]) /\ pc[p] = "task" /\ step[p] <= Len(Body(p)) /\ Body(p)[step[p]].op = "treceive"
      /\ pc \in [Proc -> Place] /\ pc[p] \in AtWork
  BY DEF TaskReady, Ready, Local, TReceive, InTask, TypeInv, AtWork
<1>2. /\ program' = program /\ mailVars' = mailVars /\ UNCHANGED callVars /\ theTaskQueue' = theTaskQueue
      /\ next' = next /\ glue' = glue /\ at' = at
  BY DEF TReceive, mailVars, callVars
<1>3. /\ \A i \in DOMAIN theQueue[p] : ~Matches(p, theQueue[p][i])
      /\ pc' = [pc EXCEPT ![p] = "size"] /\ step' = step /\ theQueue' = theQueue /\ received' = received
  <2>1. pc' # pc
    BY <1>1
  <2> QED
    BY <2>1 DEF TReceive, Goto
<1>4. pc' \in [Proc -> Place] /\ pc'[p] = "size" /\ pc'[p] \in AtWork /\ \A s \in Proc : s # p => pc'[s] = pc[s]
  BY <1>1, <1>3 DEF Place, AtWork
<1>5. TypeInv'
  <2>1. MailTypes'
    BY <1>1, <1>2 DEF TypeInv, MailTypes, mailVars
  <2> QED
    BY <1>1, <1>2, <1>3, <1>4, <2>1, TaskTypes DEF TypeInv
<1>6. TaskStep(p) /\ Elsewhere(p)
  BY <1>1, <1>2, <1>3, <1>4 DEF TaskStep, Elsewhere, callVars
<1>7. TaskInv(p)' /\ SortedInv(p)' /\ Current(p)' = Current(p) /\ Body(p)' = Body(p) /\ \A t : Mapping(t)' = Mapping(t)
  <2>1. step'[p] <= Len(Body(p)) + 1
    BY <1>1, <1>3, AtTask
  <2> QED
    BY <1>1, <1>2, <1>3, <1>4, <2>1, InBody
<1>8. EarlyInv(p)'
  <2>1. \A m : Matches(p, m)' <=> Matches(p, m)
    BY <1>3, <1>7 DEF Matches, Peer
  <2>2. Tasks' = Tasks
    BY <1>2 DEF Tasks
  <2> QED
    BY <1>1, <1>3, <1>7, <2>1, <2>2 DEF EarlyInv
<1>9. \A t \in Tasks : Completed(t)' = Completed(t)
  BY <1>1, <1>2, <1>3, <1>4, <1>5, <1>6, <1>7, CompletedWork, CompletedElse
<1>10. SleepInvs'
  BY <1>1, <1>2, <1>6, TaskSleep
<1>11. Sound'
  BY <1>1, <1>2, <1>3, <1>4, <1>6, <1>9, TaskStill
<1> QED
  BY <1>5, <1>6, <1>7, <1>8, <1>10, <1>11 DEF TaskAfter

\* or takes it from there.
LEMMA TReceiveFinds ==
    ASSUME NEW p \in Proc, TaskReady(p), TReceive(p), pc'[p] # "size"
    PROVE  TaskAfter(p)
<1>1. /\ TypeInv /\ SleepInvs /\ Sound /\ TaskInv(p) /\ SortedInv(p) /\ EarlyInv(p)
      /\ at[p] > Len(program.calls[p]) /\ pc[p] = "task" /\ step[p] <= Len(Body(p)) /\ Body(p)[step[p]].op = "treceive"
      /\ pc \in [Proc -> Place] /\ pc[p] \in AtWork /\ step \in [Proc -> Nat \ {0}]
      /\ theQueue \in [Proc -> Seq(Tagged)] /\ received \in [Tasks -> Seq(Tagged)]
  BY DEF TaskReady, Ready, Local, TReceive, InTask, TypeInv, AtWork
<1>2. /\ program' = program /\ mailVars' = mailVars /\ UNCHANGED callVars /\ theTaskQueue' = theTaskQueue
      /\ next' = next /\ glue' = glue /\ at' = at
  BY DEF TReceive, mailVars, callVars
<1> DEFINE found == {j \in DOMAIN theQueue[p] : Matches(p, theQueue[p][j])}
<1>3. /\ found # {} /\ pc' = pc /\ step' = [step EXCEPT ![p] = @ + 1]
      /\ received' = [received EXCEPT ![Current(p)] = Append(@, theQueue[p][Min(found)])]
      /\ theQueue' = [theQueue EXCEPT ![p] = RemoveAt(@, Min(found))]
  <2>1. pc' # [pc EXCEPT ![p] = "size"]
    BY <1>1
  <2> QED
    BY <2>1 DEF TReceive, Goto, Got
<1>31. theQueue[p] \in Seq(Tagged) /\ DOMAIN theQueue[p] = 1 .. Len(theQueue[p]) /\ Len(theQueue[p]) \in Nat
  BY <1>1
<1>4. PICK i \in found : i = Min(found) /\ \A j \in found : i <= j
  <2>1. found \subseteq Nat
    BY <1>31
  <2> HIDE DEF found
  <2> QED
    BY <1>3, <2>1, MinFact
<1>5. /\ i \in DOMAIN theQueue[p] /\ Matches(p, theQueue[p][i])
      /\ \A j \in DOMAIN theQueue[p] : Matches(p, theQueue[p][j]) => i <= j
      /\ received' = [received EXCEPT ![Current(p)] = Append(@, theQueue[p][i])]
      /\ theQueue' = [theQueue EXCEPT ![p] = RemoveAt(@, i)]
  BY <1>3, <1>4
<1> HIDE DEF found
<1>6. Current(p) \in Tasks /\ Mapping(Current(p)) = p
  BY <1>1, AtTask
<1>60. PICK k \in Nat \ {0} : k = step[p] /\ k + 1 \in Nat \ {0} /\ k <= Len(Body(p)) /\ k + 1 <= Len(Body(p)) + 1
  BY <1>1, AtTask
<1>61. step' \in [Proc -> Nat \ {0}] /\ step'[p] = k + 1 /\ \A s \in Proc : s # p => step'[s] = step[s]
  BY <1>1, <1>3, <1>60
<1>7. /\ RemoveAt(theQueue[p], i) \in Seq(Tagged) /\ Len(RemoveAt(theQueue[p], i)) = Len(theQueue[p]) - 1
      /\ \A j \in 1 .. i - 1 : RemoveAt(theQueue[p], i)[j] = theQueue[p][j]
      /\ \A j \in i .. Len(theQueue[p]) - 1 : RemoveAt(theQueue[p], i)[j] = theQueue[p][j + 1]
  BY <1>5, <1>31, Removed
<1>8. /\ theQueue' \in [Proc -> Seq(Tagged)] /\ theQueue'[p] = RemoveAt(theQueue[p], i)
      /\ \A s \in Proc : s # p => theQueue'[s] = theQueue[s]
  BY <1>1, <1>5, <1>7
<1>9. received' \in [Tasks -> Seq(Tagged)]
  <2>1. received[Current(p)] \in Seq(Tagged) /\ theQueue[p][i] \in Tagged
    BY <1>1, <1>5, <1>6, <1>31, ElementOfSeq
  <2>2. Append(received[Current(p)], theQueue[p][i]) \in Seq(Tagged)
    BY <2>1, Appended
  <2> QED
    BY <1>1, <1>5, <2>2
<1>10. TypeInv'
  <2>1. MailTypes'
    BY <1>1, <1>2 DEF TypeInv, MailTypes, mailVars
  <2> QED
    BY <1>1, <1>2, <1>3, <1>61, <1>8, <1>9, <2>1, TaskTypes DEF TypeInv
<1>11. TaskStep(p) /\ Elsewhere(p)
  BY <1>1, <1>2, <1>3, <1>61, <1>8 DEF TaskStep, Elsewhere, callVars
<1>12. TaskInv(p)' /\ SortedInv(p)' /\ Current(p)' = Current(p) /\ Body(p)' = Body(p) /\ \A t : Mapping(t)' = Mapping(t)
  BY <1>1, <1>2, <1>3, <1>60, <1>61, InBody
<1>13. EarlyInv(p)'
  <2>1. pc'[p] = "task" /\ Tasks' = Tasks
    BY <1>1, <1>2, <1>3 DEF Tasks
  <2>2. ASSUME NEW j \in DOMAIN theQueue'[p]
        PROVE  theQueue'[p][j].dest \in Tasks /\ Mapping(theQueue'[p][j].dest) = p
    <3>1. theQueue'[p] \in Seq(Tagged) /\ Len(theQueue'[p]) = Len(theQueue[p]) - 1
      BY <1>7, <1>8
    <3>2. j \in 1 .. Len(theQueue[p]) - 1
      BY <3>1
    <3>3. PICK l \in DOMAIN theQueue[p] : theQueue'[p][j] = theQueue[p][l]
      <4>1. CASE j < i
        BY <1>5, <1>7, <1>8, <1>31, <3>2, <4>1
      <4>2. CASE ~(j < i)
        <5>1. j \in i .. Len(theQueue[p]) - 1 /\ j + 1 \in DOMAIN theQueue[p]
          BY <1>5, <1>31, <3>2, <4>2
        <5> QED
          BY <1>7, <1>8, <5>1
      <4> QED
        BY <4>1, <4>2
    <3> QED
      BY <1>1, <3>3 DEF EarlyInv
  <2> QED
    BY <1>12, <2>1, <2>2 DEF EarlyInv
<1>14. SleepInvs'
  BY <1>1, <1>2, <1>11, TaskSleep
<1>15. \A t, u \in Tasks : SentTo(t, u)' = SentTo(t, u)
  BY <1>1, <1>2, <1>3, <1>10, <1>11, <1>12, <1>60, <1>61, SentToReceive
<1>16. Arrivals'
  BY <1>1, <1>2, <1>5, <1>6, <1>11, <1>15, FoundArrivals DEF Sound
<1>17. Flows' /\ \A q \in Proc : HackInv(q)'
  BY <1>1, <1>2, <1>3, <1>11, TaskStillMail
<1> QED
  BY <1>10, <1>11, <1>12, <1>13, <1>14, <1>16, <1>17 DEF TaskAfter, Sound

-----------------------------------------------------------------------------
(* treceive waits for a message. *)

\* A task of p takes a message of s.
LEMMA TaskTakes ==
    ASSUME NEW p \in Proc, TypeInv, SleepInvs, NEW s \in Proc, Awaited(p) = {s}, Take(p, s), Elsewhere(p)
    PROVE  /\ MailTypes' /\ SleepInvs' /\ glue' = glue /\ (\A q \in Proc : q # p => hack'[q] = hack[q])
           /\ Kept(s, p) => Still /\ hack[p] \in Seq(Msg) /\ hack[p] # <<>> /\ Box(p, s) = hack[p]
                            /\ hack'[p] = Tail(hack[p])
           /\ ~Kept(s, p) => Taken(p, s) /\ Head(Box(p, s)) = Head(Stream(p, s)) /\ hack' = hack
<1>1. MailTypes /\ glue \in {"panda", "mpi"} /\ (glue = "mpi" => queue[<<p, s>>] = <<>>) /\ hack \in [Proc -> Seq(Msg)]
  BY CallFacts DEF TypeInv, SleepInvs, SleepInv, MailTypes
<1>2. /\ MailTypes' /\ glue' = glue /\ asleep' = asleep
      /\ glue = "panda" => ~asleep[<<p, s>>]
      /\ glue = "mpi" => queue' = queue
      /\ \A q, r \in Proc : q # p => /\ queue'[<<q, r>>] = queue[<<q, r>>]
                                     /\ waiting'[<<q, r>>] = waiting[<<q, r>>]
      /\ Kept(s, p) => Still /\ hack[p] # <<>> /\ Box(p, s) = hack[p] /\ hack' = [hack EXCEPT ![p] = Tail(@)]
      /\ ~Kept(s, p) => Taken(p, s) /\ Head(Box(p, s)) = Head(Stream(p, s)) /\ hack' = hack
  BY <1>1, TakeEffect
<1>3. \A t \in Proc : ~asleep[<<p, t>>]
  BY <1>1, <1>2, AwakeFor
<1>4. SleepInvs'
  BY <1>2, <1>3, SleepStays
<1>5. \A q \in Proc : q # p => hack'[q] = hack[q]
  BY <1>1, <1>2
<1>6. Kept(s, p) => hack[p] \in Seq(Msg) /\ hack'[p] = Tail(hack[p])
  BY <1>1, <1>2
<1> QED
  BY <1>2, <1>4, <1>5, <1>6

\* It looks for one, and there may be none that p sent itself.
LEMMA TaskReceives ==
    ASSUME NEW p \in Proc, TypeInv, SleepInvs, NEW s \in Proc, Awaited(p) = {s}, VnusReceive(p, s), Elsewhere(p)
    PROVE  MailTypes' /\ SleepInvs' /\ glue' = glue /\ (\A q \in Proc : q # p => hack'[q] = hack[q])
<1>1. MailTypes /\ glue \in {"panda", "mpi"} /\ (glue = "mpi" => queue[<<p, s>>] = <<>>)
  BY CallFacts DEF TypeInv, SleepInvs, SleepInv
<1>2. /\ MailTypes' /\ glue' = glue /\ asleep' = asleep
      /\ glue = "panda" => ~asleep[<<p, s>>]
      /\ glue = "mpi" => queue' = queue
      /\ \A q, r \in Proc : q # p => /\ queue'[<<q, r>>] = queue[<<q, r>>]
                                     /\ waiting'[<<q, r>>] = waiting[<<q, r>>]
      /\ \A q \in Proc : q # p => hack'[q] = hack[q]
  BY <1>1, ReceiveEffect
<1>3. \A t \in Proc : ~asleep[<<p, t>>]
  BY <1>1, <1>2, AwakeFor
<1>4. SleepInvs'
  BY <1>2, <1>3, SleepStays
<1> QED
  BY <1>2, <1>4

\* A processor with its tasks finds what is due next.
LEMMA NextDue ==
    ASSUME TypeInv, NEW p \in Proc, at[p] > Len(program.calls[p]), Flows, NEW s \in Proc, ~Kept(s, p),
           Stream(p, s) # <<>>
    PROVE  /\ Head(Stream(p, s)) \in Addressed(p, s) /\ Head(Stream(p, s)).what = Due(p, s)
           /\ Ahead(p, s) = 0
           /\ \A other \in {"size", "message"} : other # Due(p, s) =>
                  Good(Tail(Stream(p, s)), 0, Addressed(p, s), other, Latest(p, s))
<1>1. PICK q \in Seq(Msg) : q = Stream(p, s) /\ q # <<>>
  BY StreamType DEF TypeInv
<1>2. Good(q, Ahead(p, s), Addressed(p, s), Due(p, s), Latest(p, s))
  BY <1>1 DEF Flows, Flow
<1>3. Ahead(p, s) = 0
  <2>1. Ahead(p, s) >= 0
    <3>1. Ahead(p, s) \in 0 .. Len(q)
      BY <1>2 DEF Good
    <3> QED
      BY <1>1, <3>1
  <2> QED
    BY <2>1, AheadNone
<1>4. Good(q, 0, Addressed(p, s), Due(p, s), Latest(p, s))
  BY <1>2, <1>3
<1>5. TwoKinds(Addressed(p, s)) /\ Due(p, s) \in {"size", "message"} /\ Latest(p, s) \in {"size", "message"}
  BY TwoKindsHere
<1>6. PICK other \in {"size", "message"} : other # Due(p, s)
  OBVIOUS
<1>7. Head(q) \in Addressed(p, s) /\ Head(q).what = Due(p, s)
  BY <1>1, <1>4, <1>5, <1>6, TakeTagged
<1>8. ASSUME NEW o \in {"size", "message"}, o # Due(p, s)
      PROVE  Good(Tail(q), 0, Addressed(p, s), o, Latest(p, s))
  BY <1>1, <1>4, <1>5, <1>8, TakeTagged
<1> QED
  BY <1>1, <1>3, <1>7, <1>8

\* It takes that.
LEMMA FlowTReceive ==
    ASSUME TypeInv, NEW p \in Proc, TaskStep(p), Flows, NEW s \in Proc, ~Kept(s, p), Taken(p, s),
           Due(p, s)' # Due(p, s), \A r \in Proc : r # s => Due(p, r)' = Due(p, r),
           pc[p] # "tsend", pc'[p] # "tsend"
    PROVE  Flows'
<1>1. \A q, r \in Proc : q # p \/ r # s => Stream(q, r)' = Stream(q, r)
  BY DEF Taken, StillBut
<1>2. \A q : Latest(q, p)' = Latest(q, p)
  BY DEF Latest
<1>3. Latest(p, s)' = Latest(p, s)
  <2>1. Elsewhere(p)
    BY DEF TaskStep
  <2>2. CASE s = p
    BY <1>2, <2>2
  <2>3. CASE s # p
    BY <2>1, <2>3, OthersKinds
  <2> QED
    BY <2>2, <2>3
<1>4. Flow(p, s)'
  <2>1. /\ Ahead(p, s)' = Ahead(p, s) /\ at' = at /\ program' = program
        /\ Addressed(p, s)' = Addressed(p, s)
    BY TaskAhead
  <2>2. Flow(p, s) /\ at[p] > Len(program.calls[p]) /\ Stream(p, s) # <<>> /\ Stream(p, s)' = Tail(Stream(p, s))
    BY DEF Flows, TaskStep, Taken
  <2>3. Due(p, s)' \in {"size", "message"}
    BY DEF Due
  <2>4. PICK due \in {"size", "message"} : due = Due(p, s)' /\ due # Due(p, s)
    BY <2>3
  <2>5. Ahead(p, s) = 0 /\ Good(Tail(Stream(p, s)), 0, Addressed(p, s), due, Latest(p, s))
    BY <2>2, <2>4, NextDue
  <2>6. Good(Stream(p, s)', Ahead(p, s)', Addressed(p, s)', Due(p, s)', Latest(p, s)')
    BY <1>3, <2>1, <2>2, <2>4, <2>5
  <2>7. ASSUME at'[s] <= Len(program'.calls[s])
        PROVE  Len(Stream(p, s)') = Ahead(p, s)'
    <3>1. PICK q \in Seq(Msg) : q = Stream(p, s) /\ q # <<>>
      BY <2>2, StreamType DEF TypeInv
    <3>2. Len(q) = 0 /\ Len(q) >= 1
      BY <2>1, <2>2, <2>5, <2>7, <3>1, HeadTail DEF Flow
    <3> QED
      BY <3>2
  <2> QED
    BY <2>6, <2>7 DEF Flow
<1> QED
  BY <1>1, <1>2, <1>4, FlowTask

\* A size is for no task.
LEMMA ArriveTSize ==
    ASSUME TypeInv, NEW p \in Proc, TaskStep(p), Arrivals, NEW s \in Proc, ~Kept(s, p), Taken(p, s),
           Head(Stream(p, s)).what = "size", theQueue' = theQueue, received' = received,
           \A t, u \in Tasks : SentTo(t, u)' = SentTo(t, u)
    PROVE  Arrivals'
<1>1. Tasks' = Tasks /\ program' = program
  BY DEF TaskStep, Elsewhere, Tasks
<1> SUFFICES ASSUME NEW t \in Tasks, NEW u \in Tasks, ~Kept(Mapping(u), Mapping(t))'
             PROVE  Arrives(t, u)'
  BY <1>1 DEF Arrivals
<1>4. /\ Mapping(t) \in Proc /\ Mapping(u) \in Proc
      /\ Chain(received[t], theQueue[Mapping(t)], Stream(Mapping(t), Mapping(u)), SentTo(t, u), t, u)
  BY ArriveGiven
<1>5. PICK q \in Proc : q = Mapping(t)
  BY <1>4
<1>6. PICK r \in Proc : r = Mapping(u)
  BY <1>4
<1>7. PICK S : S = SentTo(t, u)
  OBVIOUS
<1>8. PICK h : h = received[t]
  OBVIOUS
<1>9. PICK e : e = theQueue[q]
  OBVIOUS
<1>10. PICK c \in Seq(Msg) : c = Stream(q, r)
  BY StreamType DEF TypeInv
<1>11. PICK cc : cc = Stream(q, r)'
  OBVIOUS
<1>12. Chain(h, e, c, S, t, u)
  BY <1>4, <1>5, <1>6, <1>7, <1>8, <1>9, <1>10
<1>13. Chain(h, e, cc, S, t, u)
  <2>1. CASE q = p /\ r = s
    <3>1. cc = Tail(c) /\ c # <<>> /\ Head(c).what = "size"
      BY <1>10, <1>11, <2>1 DEF Taken
    <3>2. ~Own(Head(c), t, u)
      BY <3>1 DEF Own
    <3> QED
      BY <1>12, <3>1, <3>2, ChainDrop
  <2>2. CASE q # p \/ r # s
    BY <1>10, <1>11, <1>12, <2>2 DEF Taken, StillBut
  <2> QED
    BY <2>1, <2>2
<1>14. SentTo(t, u)' = S
  BY <1>7
<1>15. Chain(received'[t], theQueue'[q], Stream(q, r)', S, t, u)
  BY <1>8, <1>9, <1>11, <1>13
<1> QED
  BY <1>1, <1>5, <1>6, <1>14, <1>15, ArriveGoal

\* The size of a message is received, or refused.
LEMMA TReceiveSizeAfter ==
    ASSUME NEW p \in Proc, TaskReady(p), TReceiveSize(p)
    PROVE  TaskAfter(p)
<1>1. /\ TypeInv /\ SleepInvs /\ Sound /\ TaskInv(p) /\ SortedInv(p) /\ EarlyInv(p)
      /\ at[p] > Len(program.calls[p]) /\ pc[p] = "size" /\ step[p] <= Len(Body(p)) /\ Body(p)[step[p]].op = "treceive"
      /\ pc \in [Proc -> Place] /\ pc[p] \in AtWork
  BY DEF TaskReady, Ready, Local, TReceiveSize, TypeInv, AtWork, TaskInv
<1>2. /\ program' = program /\ UNCHANGED callVars /\ at' = at /\ theTaskQueue' = theTaskQueue
      /\ theQueue' = theQueue /\ received' = received /\ next' = next /\ step' = step
      /\ VnusReceive(p, Mapping(Peer(p)))
      /\ pc' = [pc EXCEPT ![p] = IF Refused(p, Mapping(Peer(p)), "size") THEN "error" ELSE "message"]
  BY DEF TReceiveSize, callVars, taskVars, Goto
<1>3. PICK s \in Proc : s = Mapping(Peer(p))
  BY <1>1, AtTask
<1>4. /\ pc' \in [Proc -> Place] /\ pc'[p] = (IF Refused(p, s, "size") THEN "error" ELSE "message")
      /\ pc'[p] \in AtWork \union {"error"} /\ \A q \in Proc : q # p => pc'[q] = pc[q]
  <2>1. "error" \in Place /\ "message" \in Place /\ "message" \in AtWork
    BY DEF Place, AtWork
  <2>2. CASE Refused(p, s, "size")
    BY <1>1, <1>2, <1>3, <2>1, <2>2
  <2>3. CASE ~Refused(p, s, "size")
    BY <1>1, <1>2, <1>3, <2>1, <2>3
  <2> QED
    BY <2>2, <2>3
<1>5. TaskStep(p) /\ Elsewhere(p)
  <2>1. glue' = glue
    BY <1>2 DEF VnusReceive, mailVars, Take
  <2> QED
    BY <1>1, <1>2, <1>4, <2>1 DEF TaskStep, Elsewhere, callVars
<1>6. VnusReceive(p, s) /\ Awaited(p) = {s}
  BY <1>1, <1>2, <1>3 DEF Awaited, AtWork
<1>7. MailTypes' /\ SleepInvs' /\ glue' = glue /\ (\A q \in Proc : q # p => hack'[q] = hack[q])
  BY <1>1, <1>5, <1>6, TaskReceives
<1>8. TypeInv'
  BY <1>1, <1>2, <1>4, <1>7, TaskTypes DEF TypeInv
<1>9. TaskInv(p)' /\ SortedInv(p)' /\ Current(p)' = Current(p) /\ Body(p)' = Body(p) /\ \A t : Mapping(t)' = Mapping(t)
  <2>1. step'[p] <= Len(Body(p)) + 1 /\ (pc'[p] = "tsend" => FALSE)
    BY <1>1, <1>2, <1>4, AtTask
  <2> QED
    BY <1>1, <1>2, <1>4, <2>1, InBody
<1>10. Peer(p)' = Peer(p) /\ Tasks' = Tasks
  BY <1>2, <1>9 DEF Peer, Tasks
<1>11. EarlyInv(p)'
  <2>1. \A m : Matches(p, m)' <=> Matches(p, m)
    BY <1>9, <1>10 DEF Matches
  <2> QED
    BY <1>1, <1>2, <1>9, <1>10, <2>1 DEF EarlyInv
<1>12. ASSUME pc'[p] # "error"
       PROVE  Sound'
  <2>1. pc'[p] = "message" /\ ~Refused(p, s, "size")
    BY <1>4, <1>12
  <2>0. /\ Kept(s, p) => hack[p] \in Seq(Msg) /\ hack[p] # <<>> /\ Box(p, s) = hack[p]
        /\ ~Kept(s, p) => Taken(p, s) /\ Head(Box(p, s)) = Head(Stream(p, s)) /\ hack' = hack
    <3>1. Take(p, s)
      BY <1>6, <2>1 DEF Refused, VnusReceive
    <3> QED
      BY <1>1, <1>5, <1>6, <3>1, TaskTakes
  <2>2. ~Kept(s, p)
    <3> SUFFICES ASSUME Kept(s, p)
                 PROVE  FALSE
      OBVIOUS
    <3>1. Head(hack[p]).what = "size" /\ hack[p] \in Seq(Msg) /\ hack[p] # <<>>
      BY <2>0, <2>1 DEF Refused, Kept
    <3>2. hack[p][1].what = "size" /\ 1 \in DOMAIN hack[p]
      BY <3>1, HeadTail
    <3>3. Hacked(hack[p], "closed")
      BY <1>1 DEF Sound, HackInv, Slot
    <3> QED
      BY <3>2, <3>3 DEF Hacked
  <2>3. Taken(p, s) /\ hack' = hack /\ Stream(p, s) # <<>>
    BY <2>0, <2>2 DEF Taken
  <2>4. Due(p, s) = "size" /\ Due(p, s)' = "message" /\ \A r \in Proc : r # s => Due(p, r)' = Due(p, r)
    BY <1>1, <1>3, <1>9, <1>10, <2>1 DEF Due
  <2>5. Head(Stream(p, s)).what = "size"
    BY <1>1, <2>0, <2>2, <2>3, <2>4, NextDue DEF Sound
  <2>6. Flows'
    BY <1>1, <1>5, <2>1, <2>2, <2>3, <2>4, FlowTReceive DEF Sound
  <2>7. \A t, u \in Tasks : SentTo(t, u)' = SentTo(t, u)
    <3>1. pc'[p] \in AtWork
      BY <2>1 DEF AtWork
    <3> QED
      BY <1>1, <1>2, <1>5, <1>8, <1>9, <3>1, SentToReceive
  <2>8. Arrivals'
    BY <1>1, <1>2, <1>5, <2>2, <2>3, <2>5, <2>7, ArriveTSize DEF Sound
  <2>9. \A q \in Proc : HackInv(q)'
    <3>1. Slot(p) = "closed" /\ Slot(p)' = "closed"
      BY <1>1, <2>1 DEF Slot
    <3>2. glue = "mpi" => Mapping(Peer(p))' # p
      BY <1>3, <1>9, <1>10, <2>2 DEF Kept
    <3> QED
      BY <1>1, <1>5, <2>3, <3>1, <3>2, HackTask DEF Sound
  <2> QED
    BY <2>6, <2>8, <2>9 DEF Sound
<1> QED
  BY <1>5, <1>7, <1>8, <1>9, <1>11, <1>12 DEF TaskAfter

-----------------------------------------------------------------------------
(* treceive receives a message. *)

\* A message of another pair of tasks comes in, for the task,
LEMMA ChainReceive ==
    ASSUME NEW h \in Seq(Msg), NEW e, NEW c, NEW S, NEW d, NEW s, NEW m \in Msg,
           Chain(h, e, c, S, d, s), ~Own(m, d, s), NEW hh, Added(hh, h, m)
    PROVE  Chain(hh, e, c, S, d, s)
<1>1. InOrder(h, d, s)
  BY DEF Chain
<1>2. Calls(hh, d, s) = Calls(h, d, s)
  BY CallsAppend
<1>3. InOrder(hh, d, s)
  BY <1>1, OrderAppend
<1> QED
  BY <1>2, <1>3 DEF Chain

\* or for later.
LEMMA ChainLater ==
    ASSUME NEW h, NEW e \in Seq(Msg), NEW c, NEW S, NEW d, NEW s, NEW m \in Msg,
           Chain(h, e, c, S, d, s), ~Own(m, d, s), NEW ee, Added(ee, e, m)
    PROVE  Chain(h, ee, c, S, d, s)
<1>1. InOrder(e, d, s)
  BY DEF Chain
<1>2. Calls(ee, d, s) = Calls(e, d, s)
  BY CallsAppend
<1>3. InOrder(ee, d, s)
  BY <1>1, OrderAppend
<1> QED
  BY <1>2, <1>3 DEF Chain

\* Where the messages of the tasks are then: one more in received, or in
\* theQueue.
LEMMA ArriveTMessage ==
    ASSUME TypeInv, NEW p \in Proc, TaskStep(p), Arrivals, NEW s \in Proc, ~Kept(s, p), Taken(p, s),
           NEW m \in Msg, m = Head(Stream(p, s)), Mapping(m.src) = s,
           Current(p) \in Tasks, Mapping(Current(p)) = p,
           \/ /\ Matches(p, m) /\ theQueue' = theQueue
              /\ received' = [received EXCEPT ![Current(p)] = Append(@, m)]
              /\ \A i \in DOMAIN theQueue[p] : ~Matches(p, theQueue[p][i])
           \/ received' = received /\ theQueue' = [theQueue EXCEPT ![p] = Append(@, m)],
           \A t, u \in Tasks : SentTo(t, u)' = SentTo(t, u)
    PROVE  Arrivals'
<1>1. Tasks' = Tasks /\ program' = program
  BY DEF TaskStep, Elsewhere, Tasks
<1> SUFFICES ASSUME NEW t \in Tasks, NEW u \in Tasks, ~Kept(Mapping(u), Mapping(t))'
             PROVE  Arrives(t, u)'
  BY <1>1 DEF Arrivals
<1>4. /\ Mapping(t) \in Proc /\ Mapping(u) \in Proc
      /\ Chain(received[t], theQueue[Mapping(t)], Stream(Mapping(t), Mapping(u)), SentTo(t, u), t, u)
  BY ArriveGiven
<1>5. PICK q \in Proc : q = Mapping(t)
  BY <1>4
<1>6. PICK r \in Proc : r = Mapping(u)
  BY <1>4
<1>7. PICK S : S = SentTo(t, u)
  OBVIOUS
<1>8. PICK h \in Seq(Msg) : h = received[t]
  BY TaggedMsg DEF TypeInv
<1>9. PICK e \in Seq(Msg) : e = theQueue[q]
  BY TaggedMsg DEF TypeInv
<1>10. PICK c \in Seq(Msg) : c = Stream(q, r)
  BY StreamType DEF TypeInv
<1>11. PICK cc : cc = Stream(q, r)'
  OBVIOUS
<1>12. Chain(h, e, c, S, t, u)
  BY <1>4, <1>5, <1>6, <1>7, <1>8, <1>9, <1>10
<1>13. PICK hh : hh = received'[t]
  OBVIOUS
<1>14. PICK ee : ee = theQueue'[q]
  OBVIOUS
<1>15. /\ theQueue \in [Proc -> Seq(Tagged)] /\ received \in [Tasks -> Seq(Tagged)]
  BY DEF TypeInv
<1>16. r # s => ~Own(m, t, u)
  BY <1>6 DEF Own
<1>17. q = p /\ r = s => c # <<>> /\ Head(c) = m /\ cc = Tail(c)
  BY <1>10, <1>11 DEF Taken
<1>18. q # p \/ r # s => cc = c
  BY <1>10, <1>11 DEF Taken, StillBut
<1>19. CASE /\ Matches(p, m) /\ theQueue' = theQueue
            /\ received' = [received EXCEPT ![Current(p)] = Append(@, m)]
            /\ \A i \in DOMAIN theQueue[p] : ~Matches(p, theQueue[p][i])
  <2>1. ee = e
    BY <1>9, <1>14, <1>19
  <2>2. m.src = Peer(p) /\ m.dest = Current(p)
    BY <1>19 DEF Matches
  <2>3. ASSUME t = Current(p)
        PROVE  Chain(hh, ee, cc, S, t, u)
    <3>1. q = p /\ Added(hh, h, m)
      BY <1>5, <1>8, <1>13, <1>15, <1>19, <2>3 DEF Added
    <3>2. CASE r = s
      <4>1. Head(c) = m /\ c # <<>> /\ cc = Tail(c) /\ Added(hh, h, Head(c))
        BY <1>17, <3>1, <3>2
      <4>2. ASSUME Own(Head(c), t, u)
            PROVE  Calls(e, t, u) = {}
        <5>1. \A i \in DOMAIN e : ~Own(e[i], t, u)
          BY <1>9, <1>19, <2>2, <3>1, <4>1, <4>2 DEF Own, Matches
        <5> QED
          BY <5>1 DEF Calls
      <4>3. Chain(hh, e, Tail(c), S, t, u)
        BY <1>12, <4>1, <4>2, ChainGot
      <4> QED
        BY <2>1, <4>1, <4>3
    <3>3. CASE r # s
      <4>1. Chain(hh, e, c, S, t, u)
        BY <1>12, <1>16, <3>1, <3>3, ChainReceive
      <4> QED
        BY <1>18, <2>1, <3>3, <4>1
    <3> QED
      BY <3>2, <3>3
  <2>4. ASSUME t # Current(p)
        PROVE  Chain(hh, ee, cc, S, t, u)
    <3>1. hh = h /\ ~Own(m, t, u)
      BY <1>8, <1>13, <1>15, <1>19, <2>2, <2>4 DEF Own
    <3>2. CASE q = p /\ r = s
      <4>1. Chain(h, e, Tail(c), S, t, u)
        BY <1>12, <1>17, <3>1, <3>2, ChainDrop
      <4> QED
        BY <1>17, <2>1, <3>1, <3>2, <4>1
    <3>3. CASE q # p \/ r # s
      BY <1>12, <1>18, <2>1, <3>1, <3>3
    <3> QED
      BY <3>2, <3>3
  <2>5. Chain(hh, ee, cc, S, t, u)
    BY <2>3, <2>4
  <2>6. Chain(received'[t], theQueue'[q], Stream(q, r)', S, t, u) /\ SentTo(t, u)' = S
    BY <1>7, <1>11, <1>13, <1>14, <2>5
  <2> QED
    BY <1>1, <1>5, <1>6, <2>6, ArriveGoal
<1>20. CASE received' = received /\ theQueue' = [theQueue EXCEPT ![p] = Append(@, m)]
  <2>1. hh = h
    BY <1>8, <1>13, <1>20
  <2>2. ASSUME q = p
        PROVE  Chain(hh, ee, cc, S, t, u)
    <3>1. Added(ee, e, m)
      BY <1>9, <1>14, <1>15, <1>20, <2>2 DEF Added
    <3>2. CASE r = s
      <4>1. Head(c) = m /\ c # <<>> /\ cc = Tail(c) /\ Added(ee, e, Head(c))
        BY <1>17, <2>2, <3>1, <3>2
      <4>2. Chain(h, ee, Tail(c), S, t, u)
        BY <1>12, <4>1, ChainKeep
      <4> QED
        BY <2>1, <4>1, <4>2
    <3>3. CASE r # s
      <4>1. Chain(h, ee, c, S, t, u)
        BY <1>12, <1>16, <3>1, <3>3, ChainLater
      <4> QED
        BY <1>18, <2>1, <3>3, <4>1
    <3> QED
      BY <3>2, <3>3
  <2>3. ASSUME q # p
        PROVE  Chain(hh, ee, cc, S, t, u)
    <3>1. ee = e
      BY <1>9, <1>14, <1>15, <1>20, <2>3
    <3> QED
      BY <1>12, <1>18, <2>1, <2>3, <3>1
  <2>5. Chain(hh, ee, cc, S, t, u)
    BY <2>2, <2>3
  <2>6. Chain(received'[t], theQueue'[q], Stream(q, r)', S, t, u) /\ SentTo(t, u)' = S
    BY <1>7, <1>11, <1>13, <1>14, <2>5
  <2> QED
    BY <1>1, <1>5, <1>6, <2>6, ArriveGoal
<1> QED
  BY <1>19, <1>20

\* Which task the message is for.
LEMMA TReceiveMessageAfter ==
    ASSUME NEW p \in Proc, TaskReady(p), TReceiveMessage(p)
    PROVE  TaskAfter(p)
<1>1. /\ TypeInv /\ SleepInvs /\ Sound /\ TaskInv(p) /\ SortedInv(p) /\ EarlyInv(p)
      /\ at[p] > Len(program.calls[p]) /\ pc[p] = "message" /\ step[p] <= Len(Body(p)) /\ Body(p)[step[p]].op = "treceive"
      /\ pc \in [Proc -> Place] /\ pc[p] \in AtWork /\ step \in [Proc -> Nat \ {0}]
      /\ theQueue \in [Proc -> Seq(Tagged)] /\ received \in [Tasks -> Seq(Tagged)]
  BY DEF TaskReady, Ready, Local, TReceiveMessage, TypeInv, AtWork, TaskInv
<1>2. PICK s \in Proc : s = Mapping(Peer(p))
  BY <1>1, AtTask
<1>3. ~Kept(s, p)
  BY <1>1, <1>2 DEF Sound, HackInv, Kept
<1>4. PICK m : m = Head(Box(p, s))
  OBVIOUS
<1>5. /\ program' = program /\ UNCHANGED callVars /\ at' = at /\ theTaskQueue' = theTaskQueue /\ next' = next
      /\ Take(p, s) /\ glue' = glue
      /\ \/ /\ Matches(p, m) /\ pc' = [pc EXCEPT ![p] = "task"] /\ theQueue' = theQueue
            /\ received' = [received EXCEPT ![Current(p)] = Append(@, m)]
            /\ step' = [step EXCEPT ![p] = @ + 1]
         \/ /\ ~Matches(p, m) /\ pc' = [pc EXCEPT ![p] = "size"] /\ step' = step /\ received' = received
            /\ theQueue' = [theQueue EXCEPT ![p] = Append(@, m)]
  BY <1>2, <1>4 DEF TReceiveMessage, callVars, Goto, Got, Take
<1>6. /\ pc' \in [Proc -> Place] /\ pc'[p] \in {"task", "size"} /\ pc'[p] \in AtWork
      /\ (Matches(p, m) => pc'[p] = "task") /\ (~Matches(p, m) => pc'[p] = "size")
      /\ \A q \in Proc : q # p => pc'[q] = pc[q]
  <2>1. "size" \in Place /\ "task" \in Place /\ "task" \in AtWork /\ "size" \in AtWork
    BY DEF Place, AtWork
  <2>2. CASE Matches(p, m) /\ pc' = [pc EXCEPT ![p] = "task"]
    BY <1>1, <2>1, <2>2
  <2>3. CASE ~Matches(p, m) /\ pc' = [pc EXCEPT ![p] = "size"]
    BY <1>1, <2>1, <2>3
  <2> QED
    BY <1>5, <2>2, <2>3
<1>60. PICK k \in Nat \ {0} : k = step[p] /\ k + 1 \in Nat \ {0} /\ k <= Len(Body(p)) /\ k + 1 <= Len(Body(p)) + 1
  BY <1>1, AtTask
<1>61. /\ step' \in [Proc -> Nat \ {0}] /\ \A q \in Proc : q # p => step'[q] = step[q]
       /\ Matches(p, m) => step'[p] = k + 1
       /\ ~Matches(p, m) => step'[p] = k
  <2>1. CASE Matches(p, m) /\ step' = [step EXCEPT ![p] = k + 1]
    BY <1>1, <1>60, <2>1
  <2>2. CASE ~Matches(p, m) /\ step' = step
    BY <1>1, <1>60, <2>2
  <2>3. step[p] + 1 = k + 1
    BY <1>60
  <2> QED
    BY <1>5, <2>1, <2>2, <2>3
<1>7. /\ \A q \in Proc : q # p => theQueue'[q] = theQueue[q]
      /\ Matches(p, m) => theQueue' = theQueue
      /\ ~Matches(p, m) => theQueue'[p] = Append(theQueue[p], m)
  BY <1>1, <1>5
<1>8. TaskStep(p) /\ Elsewhere(p)
  BY <1>1, <1>5, <1>6, <1>61, <1>7 DEF TaskStep, Elsewhere, callVars
<1>9. /\ MailTypes' /\ SleepInvs' /\ Taken(p, s) /\ m = Head(Stream(p, s)) /\ hack' = hack
  <2>1. Awaited(p) = {s}
    BY <1>1, <1>2 DEF Awaited, AtWork
  <2> QED
    BY <1>1, <1>3, <1>4, <1>5, <1>8, <2>1, TaskTakes
<1>10. Due(p, s) = "message"
  BY <1>1, <1>2 DEF Due
<1>11. m \in Addressed(p, s)
  <2>1. Stream(p, s) # <<>>
    BY <1>9 DEF Taken
  <2> QED
    BY <1>1, <1>3, <1>9, <2>1, NextDue DEF Sound
<1>12. m \in Tagged /\ m \in Msg /\ m.dest \in Tasks /\ Mapping(m.dest) = p /\ Mapping(m.src) = s
  BY <1>11 DEF Addressed, Msg
<1>13. Current(p) \in Tasks /\ Mapping(Current(p)) = p
  BY <1>1, AtTask
<1>14. theQueue' \in [Proc -> Seq(Tagged)] /\ received' \in [Tasks -> Seq(Tagged)]
  <2>1. Append(received[Current(p)], m) \in Seq(Tagged) /\ Append(theQueue[p], m) \in Seq(Tagged)
    BY <1>1, <1>12, <1>13
  <2>2. CASE Matches(p, m)
    <3>1. theQueue' = theQueue /\ received' = [received EXCEPT ![Current(p)] = Append(@, m)]
      BY <1>5, <2>2
    <3> QED
      BY <1>1, <2>1, <3>1
  <2>3. CASE ~Matches(p, m)
    <3>1. received' = received /\ theQueue' = [theQueue EXCEPT ![p] = Append(@, m)]
      BY <1>5, <2>3
    <3> QED
      BY <1>1, <2>1, <3>1
  <2> QED
    BY <2>2, <2>3
<1>15. TypeInv'
  BY <1>1, <1>5, <1>6, <1>61, <1>9, <1>14, TaskTypes DEF TypeInv
<1>16. TaskInv(p)' /\ SortedInv(p)' /\ Current(p)' = Current(p) /\ Body(p)' = Body(p) /\ \A t : Mapping(t)' = Mapping(t)
  <2>1. step'[p] <= Len(Body(p)) + 1 /\ (pc'[p] = "tsend" => FALSE)
        /\ (pc'[p] \in {"size", "message"} => step'[p] <= Len(Body(p)) /\ Body(p)[step'[p]].op = "treceive")
    <3>1. CASE Matches(p, m)
      BY <1>6, <1>60, <1>61, <3>1
    <3>2. CASE ~Matches(p, m)
      BY <1>1, <1>6, <1>60, <1>61, <3>2
    <3> QED
      BY <3>1, <3>2
  <2> QED
    BY <1>1, <1>5, <1>6, <2>1, InBody
<1>17. EarlyInv(p)'
  <2>1. CASE Matches(p, m)
    <3>1. pc'[p] = "task" /\ theQueue' = theQueue /\ Tasks' = Tasks
      BY <1>5, <1>6, <1>7, <2>1 DEF Tasks
    <3> QED
      BY <1>1, <1>16, <3>1 DEF EarlyInv
  <2>2. CASE ~Matches(p, m)
    <3>1. Peer(p)' = Peer(p) /\ Tasks' = Tasks
      BY <1>5, <1>16, <1>60, <1>61, <2>2 DEF Peer, Tasks
    <3>2. \A x : Matches(p, x)' <=> Matches(p, x)
      BY <1>16, <3>1 DEF Matches
    <3>3. PICK n \in Nat : n = Len(theQueue[p])
      BY <1>1
    <3>4. ASSUME NEW i \in DOMAIN theQueue'[p]
          PROVE  (i \in DOMAIN theQueue[p] /\ theQueue'[p][i] = theQueue[p][i]) \/ theQueue'[p][i] = m
      <4>1. theQueue[p] \in Seq(Tagged)
        BY <1>1
      <4> QED
        BY <1>7, <2>2, <4>1
    <3>5. \A i \in DOMAIN theQueue'[p] : /\ theQueue'[p][i].dest \in Tasks /\ Mapping(theQueue'[p][i].dest) = p
                                        /\ ~Matches(p, theQueue'[p][i])
      BY <1>1, <1>12, <2>2, <3>4 DEF EarlyInv
    <3> QED
      BY <1>16, <3>1, <3>2, <3>5 DEF EarlyInv
  <2> QED
    BY <2>1, <2>2
<1>18. Flows'
  <2>1. Due(p, s)' # Due(p, s) /\ \A r \in Proc : r # s => Due(p, r)' = Due(p, r)
    BY <1>1, <1>2, <1>6, <1>10 DEF Due
  <2> QED
    BY <1>1, <1>3, <1>6, <1>8, <1>9, <2>1, FlowTReceive DEF Sound
<1>19. Arrivals'
  <2>1. \A t, u \in Tasks : SentTo(t, u)' = SentTo(t, u)
    <3>1. step'[p] \in {step[p], step[p] + 1}
      BY <1>60, <1>61
    <3> QED
      BY <1>1, <1>5, <1>6, <1>8, <1>15, <1>16, <3>1, SentToReceive
  <2>2. \/ /\ Matches(p, m) /\ theQueue' = theQueue
           /\ received' = [received EXCEPT ![Current(p)] = Append(@, m)]
           /\ \A i \in DOMAIN theQueue[p] : ~Matches(p, theQueue[p][i])
        \/ received' = received /\ theQueue' = [theQueue EXCEPT ![p] = Append(@, m)]
    BY <1>1, <1>5 DEF EarlyInv
  <2> QED
    BY <1>1, <1>3, <1>8, <1>9, <1>12, <1>13, <2>1, <2>2, ArriveTMessage DEF Sound
<1>20. \A q \in Proc : HackInv(q)'
  <2>1. Slot(p) = "closed" /\ Slot(p)' = "closed" /\ pc'[p] # "message"
    BY <1>1, <1>6 DEF Slot
  <2> QED
    BY <1>1, <1>8, <1>9, <2>1, HackTask DEF Sound
<1> QED
  BY <1>8, <1>9, <1>15, <1>16, <1>17, <1>18, <1>19, <1>20 DEF TaskAfter, Sound

-----------------------------------------------------------------------------
(* All steps. *)

\* The invariant in its parts.
LEMMA InvParts ==
    IInv <=> TypeInv /\ SleepInvs /\ (\A p \in Proc : Local(p)) /\ (~Error => Sound)
  BY DEF IInv, SleepInvs, Local, Sound, Flows, Arrivals

\* What a processor does with its tasks,
LEMMA TasksSound ==
    ASSUME NEW p \in Proc, Ready(p), Sound,
           \/ AddTask(p) \/ ExecuteTask(p) \/ TaskReturns(p) \/ TSendSize(p) \/ TSendMessage(p)
           \/ TReceive(p) \/ TReceiveSize(p) \/ TReceiveMessage(p)
    PROVE  TaskAfter(p)
<1>1. TaskInv(p)
  BY DEF Ready, Local
<1>2. at[p] > Len(program.calls[p])
  <2>1. pc[p] \in AtWork => at[p] > Len(program.calls[p])
    BY <1>1 DEF TaskInv
  <2> QED
    BY <2>1 DEF AddTask, ExecuteTask, TaskReturns, TSendSize, TSendMessage, TReceive, TReceiveSize,
                TReceiveMessage, InTask, AtWork
<1>3. TaskReady(p)
  BY <1>2 DEF TaskReady
<1>4. CASE TReceive(p)
  BY <1>3, <1>4, TReceiveWaits, TReceiveFinds
<1> QED
  BY <1>3, <1>4, AddTaskAfter, ExecuteTaskAfter, TaskReturnsAfter, TSendSizeAfter, TSendMessageAfter,
     TReceiveSizeAfter, TReceiveMessageAfter

\* and in a call.
LEMMA ActSound ==
    ASSUME NEW p \in Proc, Ready(p), Sound, ProcStep(p), ~FallAsleep(p)
    PROVE  TypeInv' /\ SleepInvs' /\ Elsewhere(p) /\ Local(p)' /\ (pc'[p] # "error" => Sound')
<1>1. CASE \/ Send(p) \/ Receive(p) \/ BarrierSend(p) \/ BarrierAnswer(p) \/ MpiBarrier(p)
           \/ p = 0 /\ (BarrierEnter0 \/ BarrierCollect \/ BarrierRelease)
  BY <1>1, CallSound
<1>2. CASE \/ AddTask(p) \/ ExecuteTask(p) \/ TaskReturns(p) \/ TSendSize(p) \/ TSendMessage(p)
           \/ TReceive(p) \/ TReceiveSize(p) \/ TReceiveMessage(p)
  <2>1. TypeInv /\ CallInv(p)
    BY DEF Ready, Local
  <2>2. TaskAfter(p)
    BY <1>2, TasksSound
  <2>3. CallInv(p)'
    BY <2>1, <2>2, TaskStepCalls DEF TaskAfter
  <2> QED
    BY <2>2, <2>3 DEF TaskAfter, TaskStep, Local
<1> QED
  BY <1>1, <1>2 DEF ProcStep

\* A step of a processor,
LEMMA ProcStepInv ==
    ASSUME IInv, ~Error, NEW p \in Proc, ProcStep(p)
    PROVE  IInv'
<1>1. TypeInv /\ SleepInvs /\ (\A q \in Proc : Local(q)) /\ Sound
  BY InvParts
<1>2. CASE FallAsleep(p)
  <2>1. TypeInv' /\ SleepInvs' /\ (\A q \in Proc : Local(q)') /\ Sound'
    BY <1>1, <1>2, FallAsleepAll
  <2> QED
    BY <2>1 DEF IInv, SleepInvs, Local, Sound, Flows, Arrivals
<1>3. CASE ~FallAsleep(p)
  <2>1. TypeInv' /\ SleepInvs' /\ Elsewhere(p) /\ Local(p)' /\ (pc'[p] # "error" => Sound')
    BY <1>1, <1>3, ActSound DEF Ready
  <2>2. \A q \in Proc : Local(q)'
    BY <1>1, <2>1, OthersLocal
  <2>3. ~Error' => Sound'
    BY <2>1 DEF Error
  <2> QED
    BY <2>1, <2>2, <2>3 DEF IInv, SleepInvs, Local, Sound, Flows, Arrivals
<1> QED
  BY <1>2, <1>3

\* a message that comes in,
LEMMA HandleInv ==
    ASSUME IInv, ~Error, NEW d \in Proc, NEW s \in Proc, HandleMessage(d, s)
    PROVE  IInv'
<1>1. TypeInv /\ SleepInvs /\ (\A q \in Proc : Local(q)) /\ Sound
  BY InvParts
<1>2. TypeInv' /\ SleepInvs' /\ (\A q \in Proc : Local(q)') /\ Sound'
  BY <1>1, HandleMessageAll
<1> QED
  BY <1>2 DEF IInv, SleepInvs, Local, Sound, Flows, Arrivals

\* and nothing.
LEMMA StutterInv ==
    ASSUME IInv, UNCHANGED vars
    PROVE  IInv'
<1>1. TypeInv /\ SleepInvs /\ (\A q \in Proc : Local(q)) /\ (~Error => Sound)
  BY InvParts
<1>2. /\ mailVars' = mailVars /\ program' = program /\ pc' = pc /\ UNCHANGED callVars /\ UNCHANGED taskVars
  BY DEF vars
<1>3. /\ glue' = glue /\ wire' = wire /\ queue' = queue /\ waiting' = waiting /\ asleep' = asleep /\ hack' = hack
  BY <1>2 DEF mailVars
<1>4. Quiet
  BY <1>2, <1>3 DEF Quiet, Still, Stream
<1>5. TypeInv'
  BY <1>1, <1>3, <1>4, QuietEqual DEF TypeInv, MailTypes
<1>6. SleepInvs'
  BY <1>1, <1>3, <1>4, QuietEqual DEF SleepInvs, SleepInv
<1>7. \A q \in Proc : Local(q)'
  BY <1>1, <1>4, QuietLocal
<1>8. ~Error' => Sound'
  BY <1>1, <1>2, <1>4, QuietSound DEF Error
<1> QED
  BY <1>5, <1>6, <1>7, <1>8 DEF IInv, SleepInvs, Local, Sound, Flows, Arrivals

\* The invariant is inductive.
LEMMA NextInv == IInv /\ [Next]_vars => IInv'
<1> SUFFICES ASSUME IInv, [Next]_vars
             PROVE  IInv'
  OBVIOUS
<1>1. ~Ended => ~Error
  BY DEF Ended, Error
<1>2. CASE ~Ended /\ \E p \in Proc : ProcStep(p)
  BY <1>1, <1>2, ProcStepInv
<1>3. CASE ~Ended /\ \E d, s \in Proc : HandleMessage(d, s)
  BY <1>1, <1>3, HandleInv
<1>4. CASE UNCHANGED vars
  BY <1>4, StutterInv
<1> QED
  BY <1>2, <1>3, <1>4 DEF Next

-----------------------------------------------------------------------------
(* The initial states. *)

\* All sequences are empty.
LEMMA InitTypes ==
    ASSUME Init
    PROVE  /\ TypeInv /\ \A p \in Proc : pc[p] = "run" /\ at[p] = 1 /\ loop[p] = 1 /\ next[p] = 1
           /\ \A p \in Proc : theTaskQueue[p] = <<>> /\ theQueue[p] = <<>> /\ hack[p] = <<>>
           /\ \A t \in Tasks : received[t] = <<>>
           /\ \A d, s \in Proc : queue[<<d, s>>] = <<>> /\ wire[<<d, s>>] = <<>> /\ ~asleep[<<d, s>>]
<1>1. \A d, s \in Proc : <<d, s>> \in Pair
  BY PairFact
<1>2. \A S : <<>> \in Seq(S)
  OBVIOUS
<1>3. MailTypes
  BY <1>2 DEF Init, MailInit, MailTypes
<1>4. TypeInv
  BY <1>2, <1>3 DEF Init, TypeInv, Place
<1>5. \A d, s \in Proc : queue[<<d, s>>] = <<>> /\ wire[<<d, s>>] = <<>>
  BY <1>1 DEF Init, MailInit
<1>6. \A d, s \in Proc : ~asleep[<<d, s>>]
  BY <1>1 DEF Init, MailInit
<1> QED
  BY <1>4, <1>5, <1>6 DEF Init, MailInit

\* Nobody has done a call.
LEMMA InitAhead ==
    ASSUME Init, NEW d \in Proc, NEW s \in Proc
    PROVE  Ahead(d, s) = 0
<1>1. /\ TypeInv /\ pc[s] = "run" /\ at[s] = 1 /\ loop[s] = 1 /\ pc[d] = "run" /\ at[d] = 1
      /\ pc[0] = "run" /\ loop[0] = 1
  BY InitTypes, Zero
<1>2. ASSUME NEW i \in DOMAIN program.calls[s], NEW j \in SendsIn(program, d, s, i), Past(s, i, j)
      PROVE  FALSE
  <2>1. i \in Nat /\ i >= 1
    <3>1. DOMAIN program.calls[s] = 1 .. Len(program.calls[s])
      BY <1>1, CallFacts
    <3> QED
      BY <3>1
  <2>2. i = 1 /\ Arg(s).op = "send" /\ j < 1
    <3>1. ~(i < at[s])
      BY <1>1, <2>1
    <3>2. i = at[s] /\ (IF Arg(s).op = "send" THEN j < loop[s]
                        ELSE IF s = 0 THEN pc[0] = "release" /\ j < loop[0] ELSE pc[s] = "barrier")
      BY <1>2, <3>1 DEF Past
    <3> QED
      BY <1>1, <3>2
  <2>3. program.calls[s][i].op = "send"
    BY <1>1, <2>2 DEF Arg
  <2>4. PICK to \in Seq(Proc) : to = Destinations(program.calls[s][i].dest)
    BY <1>1, <2>3, CallFacts
  <2>5. j \in DOMAIN to
    BY <2>3, <2>4 DEF SendsIn
  <2> QED
    BY <2>2, <2>4, <2>5
<1>3. Gave(d, s) = {}
  <2>1. \A x \in Sendings(program, d, s) : ~Past(s, x[1], x[2])
    BY <1>2, SendingsFact
  <2> QED
    BY <2>1 DEF Gave
<1>4. Took(d, s) = {}
  <2>1. \A i \in Takings(program, d, s) : i \in Nat /\ i >= 1
    <3>1. DOMAIN program.calls[d] = 1 .. Len(program.calls[d])
      BY <1>1, CallFacts
    <3> QED
      BY <3>1 DEF Takings
  <2>2. \A i \in Takings(program, d, s) : ~Gone(d, s, i)
    BY <1>1, <2>1 DEF Gone
  <2> QED
    BY <2>2 DEF Took
<1> QED
  BY <1>3, <1>4, FS_EmptySet DEF Ahead

\* It holds in the initial states.
LEMMA InitInv == Init => IInv
<1> SUFFICES ASSUME Init
             PROVE  IInv
  OBVIOUS
<1>1. /\ TypeInv /\ \A p \in Proc : pc[p] = "run" /\ at[p] = 1 /\ loop[p] = 1 /\ next[p] = 1
      /\ \A p \in Proc : theTaskQueue[p] = <<>> /\ theQueue[p] = <<>> /\ hack[p] = <<>>
      /\ \A t \in Tasks : received[t] = <<>>
      /\ \A d, s \in Proc : queue[<<d, s>>] = <<>> /\ wire[<<d, s>>] = <<>> /\ ~asleep[<<d, s>>]
  BY InitTypes
<1>2. ASSUME NEW p \in Proc
      PROVE  Local(p)
  <2>1. CallInv(p)
    <3>1. Len(program.calls[p]) \in Nat /\ DOMAIN program.calls[p] = 1 .. Len(program.calls[p])
      BY <1>1, CallFacts
    <3>2. ASSUME InCall(p, "send")
          PROVE  loop[p] \in 1 .. Len(Destinations(Arg(p).dest))
      <4>1. 1 \in DOMAIN program.calls[p] /\ program.calls[p][1].op = "send" /\ Arg(p) = program.calls[p][1]
        BY <1>1, <3>1, <3>2 DEF InCall, Arg
      <4>2. PICK to \in Seq(Proc) : to = Destinations(Arg(p).dest) /\ to # <<>>
        BY <1>1, <4>1, CallFacts
      <4>3. Len(to) \in Nat /\ Len(to) >= 1
        BY <4>2, HeadTail
      <4> QED
        BY <1>1, <4>2, <4>3
    <3> QED
      BY <1>1, <3>1, <3>2 DEF CallInv
  <2>2. TaskInv(p)
    <3>1. Len(program.tasks) \in Nat /\ Len(<<>>) = 0
      BY <1>1, TaskFacts
    <3> QED
      BY <1>1, <3>1 DEF TaskInv, AtWork
  <2>3. SortedInv(p)
    BY <1>1 DEF SortedInv
  <2>4. EarlyInv(p)
    BY <1>1 DEF EarlyInv
  <2> QED
    BY <2>1, <2>2, <2>3, <2>4 DEF Local
<1>3. SleepInvs
  BY <1>1 DEF SleepInvs, SleepInv
<1>4. \A p \in Proc : HackInv(p)
  BY <1>1 DEF HackInv, Hacked
<1>5. \A d, s \in Proc : Stream(d, s) = <<>>
  <2>1. <<>> \in Seq(Msg)
    OBVIOUS
  <2>2. <<>> \o <<>> = <<>>
    BY <2>1, ConcatEmptySeq
  <2> QED
    BY <1>1, <2>2 DEF Stream
<1>6. Flows
  <2> SUFFICES ASSUME NEW d \in Proc, NEW s \in Proc
               PROVE  Flow(d, s)
    BY DEF Flows
  <2>1. Ahead(d, s) = 0 /\ Due(d, s) = "size" /\ Latest(d, s) = "message" /\ Stream(d, s) = <<>> /\ Len(<<>>) = 0
    BY <1>1, <1>5, InitAhead DEF Due, Latest
  <2>2. PICK A : A = Addressed(d, s)
    OBVIOUS
  <2>3. Good(<<>>, 0, A, "size", "message")
    BY DEF Good
  <2> QED
    BY <2>1, <2>2, <2>3 DEF Flow
<1>7. Arrivals
  <2> SUFFICES ASSUME NEW t \in Tasks, NEW u \in Tasks
               PROVE  Arrives(t, u)
    BY DEF Arrivals
  <2>1. Mapping(t) \in Proc /\ Mapping(u) \in Proc
    BY <1>1, TaskFacts
  <2>2. Completed(u) = 0
    <3>1. next[Mapping(u)] = 1
      BY <1>1, <2>1
    <3>2. ~Began(Mapping(u), u) /\ ~Runs(Mapping(u), u)
      BY <1>1, <2>1, <3>1 DEF Began, Runs
    <3> QED
      BY <3>2 DEF Completed
  <2>3. SentTo(t, u) = {}
    BY <2>2 DEF SentTo
  <2>4. received[t] = <<>> /\ theQueue[Mapping(t)] = <<>> /\ Stream(Mapping(t), Mapping(u)) = <<>>
    BY <1>1, <1>5, <2>1
  <2>5. Calls(<<>>, t, u) = {} /\ InOrder(<<>>, t, u)
    BY DEF Calls, InOrder
  <2>6. Chain(<<>>, <<>>, <<>>, {}, t, u)
    BY <2>5 DEF Chain, Below
  <2> QED
    BY <2>3, <2>4, <2>6 DEF Arrives
<1> QED
  BY <1>1, <1>2, <1>3, <1>4, <1>6, <1>7, InvParts DEF Sound

-----------------------------------------------------------------------------
(* What the invariant says of the properties. *)

\* The messages of two sequences, one after the other.
LEMMA CallsConcat ==
    ASSUME NEW a \in Seq(Msg), NEW b \in Seq(Msg), NEW d, NEW s
    PROVE  /\ a \o b \in Seq(Msg)
           /\ Calls(a \o b, d, s) = Calls(a, d, s) \union Calls(b, d, s)
           /\ InOrder(a, d, s) /\ InOrder(b, d, s) /\ Below(Calls(a, d, s), Calls(b, d, s)) => InOrder(a \o b, d, s)
<1>1. PICK r \in Seq(Msg) : r = a \o b
  BY ConcatProperties
<1>2. PICK n \in Nat : n = Len(a)
  OBVIOUS
<1>3. PICK k \in Nat : k = Len(b)
  OBVIOUS
<1>4. /\ DOMAIN a = 1 .. n /\ DOMAIN b = 1 .. k /\ DOMAIN r = 1 .. n + k
      /\ \A i \in 1 .. n + k : r[i] = IF i <= n THEN a[i] ELSE b[i - n]
  BY <1>1, <1>2, <1>3, ConcatProperties
<1>5. ASSUME NEW i \in DOMAIN r
      PROVE  \/ i <= n /\ i \in DOMAIN a /\ r[i] = a[i]
             \/ i > n /\ i - n \in DOMAIN b /\ r[i] = b[i - n]
  BY <1>4
<1>6. \A i \in DOMAIN a : i \in DOMAIN r /\ r[i] = a[i]
  BY <1>4
<1>7. \A i \in DOMAIN b : i + n \in DOMAIN r /\ r[i + n] = b[i]
  <2> SUFFICES ASSUME NEW i \in DOMAIN b
               PROVE  i + n \in DOMAIN r /\ r[i + n] = b[i]
    OBVIOUS
  <2>1. i + n \in 1 .. n + k /\ ~(i + n <= n) /\ (i + n) - n = i
    BY <1>4
  <2> QED
    BY <1>4, <2>1
<1>8. Calls(r, d, s) \subseteq Calls(a, d, s) \union Calls(b, d, s)
  <2> SUFFICES ASSUME NEW i \in DOMAIN r, Own(r[i], d, s)
               PROVE  r[i].call \in Calls(a, d, s) \union Calls(b, d, s)
    BY DEF Calls
  <2> QED
    BY <1>5 DEF Calls
<1>9. Calls(a, d, s) \subseteq Calls(r, d, s)
  BY <1>6 DEF Calls
<1>10. Calls(b, d, s) \subseteq Calls(r, d, s)
  BY <1>7 DEF Calls
<1>11. ASSUME InOrder(a, d, s), InOrder(b, d, s), Below(Calls(a, d, s), Calls(b, d, s))
       PROVE  InOrder(r, d, s)
  <2> SUFFICES ASSUME NEW i \in DOMAIN r, NEW j \in DOMAIN r, i < j, Own(r[i], d, s), Own(r[j], d, s)
               PROVE  r[i].call < r[j].call
    BY DEF InOrder
  <2>1. CASE i <= n /\ i \in DOMAIN a /\ r[i] = a[i]
    <3>1. CASE j <= n /\ j \in DOMAIN a /\ r[j] = a[j]
      BY <1>11, <2>1, <3>1 DEF InOrder
    <3>2. CASE j > n /\ j - n \in DOMAIN b /\ r[j] = b[j - n]
      <4>1. a[i].call \in Calls(a, d, s)
        BY <2>1 DEF Calls
      <4>2. b[j - n].call \in Calls(b, d, s)
        BY <3>2 DEF Calls
      <4> QED
        BY <1>11, <2>1, <3>2, <4>1, <4>2 DEF Below
    <3> QED
      BY <1>5, <3>1, <3>2
  <2>2. CASE i > n /\ i - n \in DOMAIN b /\ r[i] = b[i - n]
    <3>1. j > n /\ j \in Nat /\ i \in Nat
      BY <1>4, <2>2
    <3>2. j - n \in DOMAIN b /\ r[j] = b[j - n] /\ i - n < j - n
      BY <1>5, <3>1
    <3> QED
      BY <1>11, <2>2, <3>2 DEF InOrder
  <2> QED
    BY <1>5, <2>1, <2>2
<1> QED
  BY <1>1, <1>8, <1>9, <1>10, <1>11

\* Delivered is the chain of each pair of tasks,
LEMMA InvDelivered == IInv => Delivered
<1> SUFFICES ASSUME IInv, ~Ended, NEW d \in Tasks, NEW s \in Tasks, ~Kept(Mapping(s), Mapping(d))
             PROVE  LET mail == Mail(d, s)
                        own == {i \in DOMAIN mail : Own(mail[i], d, s)}
                    IN  /\ {mail[i].call : i \in own} = SentTo(d, s)
                        /\ \A i, j \in own : i < j => mail[i].call < mail[j].call
  BY DEF Delivered
<1>1. TypeInv /\ Arrives(d, s)
  BY InvParts DEF Ended, Error, Sound, Arrivals
<1>2. Mapping(d) \in Proc /\ Mapping(s) \in Proc
  BY <1>1, TaskFacts
<1>3. PICK h \in Seq(Msg) : h = received[d]
  BY <1>1, TaggedMsg DEF TypeInv
<1>4. PICK e \in Seq(Msg) : e = theQueue[Mapping(d)]
  BY <1>1, <1>2, TaggedMsg DEF TypeInv
<1>5. PICK c \in Seq(Msg) : c = Stream(Mapping(d), Mapping(s))
  BY <1>1, <1>2, StreamType DEF TypeInv
<1>6. Chain(h, e, c, SentTo(d, s), d, s)
  BY <1>1, <1>3, <1>4, <1>5 DEF Arrives
<1>7. PICK he \in Seq(Msg) : he = h \o e
  BY CallsConcat
<1>8. PICK mail \in Seq(Msg) : mail = he \o c
  BY CallsConcat
<1>9. mail = Mail(d, s)
  BY <1>3, <1>4, <1>5, <1>7, <1>8 DEF Mail
<1>10. Calls(he, d, s) = Calls(h, d, s) \union Calls(e, d, s) /\ InOrder(he, d, s)
  <2>1. Below(Calls(h, d, s), Calls(e, d, s))
    BY <1>6 DEF Chain, Below
  <2> QED
    BY <1>6, <1>7, <2>1, CallsConcat DEF Chain
<1>11. Calls(mail, d, s) = SentTo(d, s) /\ InOrder(mail, d, s)
  <2>1. Below(Calls(he, d, s), Calls(c, d, s))
    BY <1>6, <1>10 DEF Chain, Below
  <2>2. Calls(mail, d, s) = Calls(he, d, s) \union Calls(c, d, s)
    BY <1>8, CallsConcat
  <2>3. InOrder(mail, d, s)
    BY <1>6, <1>8, <1>10, <2>1, CallsConcat DEF Chain
  <2> QED
    BY <1>6, <1>10, <2>2, <2>3 DEF Chain
<1> QED
  BY <1>9, <1>11 DEF Calls, InOrder

\* the types are those of the invariant,
LEMMA InvTypeOK == IInv => TypeOK
<1> SUFFICES ASSUME IInv
             PROVE  TypeOK
  OBVIOUS
<1>1. TypeInv /\ SleepInvs /\ \A p \in Proc : Local(p)
  BY InvParts
<1>2. pc \in [Proc -> {"run", "barrier", "release", "task", "tsend", "size", "message", "done", "error"}]
  <2>1. Place = {"run", "barrier", "release", "task", "tsend", "size", "message", "done", "error"}
    BY DEF Place, AtWork
  <2> QED
    BY <1>1, <2>1 DEF TypeInv
<1>3. ASSUME NEW p \in Proc
      PROVE  /\ at[p] \in 1 .. Len(program.calls[p]) + 1
             /\ next[p] \in 1 .. Len(theTaskQueue[p]) + 1
             /\ \A i \in DOMAIN theQueue[p] : Mapping(theQueue[p][i].dest) = p
  <2>1. /\ at[p] \in Nat \ {0} /\ Len(program.calls[p]) \in Nat /\ next[p] \in Nat \ {0}
        /\ theTaskQueue[p] \in Seq(Tasks)
    BY <1>1, CallFacts DEF TypeInv
  <2>2. at[p] <= Len(program.calls[p]) + 1 /\ next[p] <= Len(theTaskQueue[p]) + 1
    BY <1>1 DEF Local, CallInv, TaskInv
  <2>3. \A i \in DOMAIN theQueue[p] : Mapping(theQueue[p][i].dest) = p
    BY <1>1 DEF Local, EarlyInv
  <2> QED
    BY <2>1, <2>2, <2>3
<1>4. ASSUME NEW p \in Proc, NEW s \in Proc
      PROVE  /\ waiting[<<p, s>>] \in {0, 1}
             /\ asleep[<<p, s>>] => /\ waiting[<<p, s>>] = 1 /\ s \in Awaited(p)
                                    /\ queue[<<p, s>>] = <<>>
  <2>1. waiting[<<p, s>>] \in {0, 1}
    BY <1>1, PairFact DEF TypeInv, MailTypes
  <2> QED
    BY <1>1, <2>1 DEF SleepInvs, SleepInv
<1> QED
  BY <1>2, <1>3, <1>4 DEF TypeOK

\* A processor runs its tasks in order, and all of them.
RanInOrder(p) ==
    /\ \A i, j \in Begun(p) :
           LET t == theTaskQueue[p][i]
               u == theTaskQueue[p][j]
           IN  i < j => \/ program.tasks[t].priority < program.tasks[u].priority
                        \/ program.tasks[t].priority = program.tasks[u].priority /\ t < u
    /\ pc[p] = "done" => {t \in Tasks : Mapping(t) = p} = {theTaskQueue[p][i] : i \in Begun(p)}
LEMMA InvRan ==
    ASSUME IInv, NEW p \in Proc
    PROVE  RanInOrder(p)
<1>1. TypeInv /\ TaskInv(p) /\ SortedInv(p)
  BY InvParts DEF Local
<1>2. PICK q \in Seq(Tasks) : q = theTaskQueue[p]
  BY <1>1 DEF TypeInv
<1>3. PICK n \in Nat : n = Len(q) /\ DOMAIN q = 1 .. n
  OBVIOUS
<1>4. next[p] \in Nat \ {0} /\ next[p] <= n + 1
  BY <1>1, <1>2, <1>3 DEF TypeInv, TaskInv
<1>5. Begun(p) \subseteq DOMAIN q
  BY <1>3, <1>4 DEF Begun
<1>6. \A i, j \in Begun(p) : i < j => Precedes(q[i], q[j])
  BY <1>1, <1>2, <1>5 DEF SortedInv
<1>7. ASSUME pc[p] = "done"
      PROVE  {t \in Tasks : Mapping(t) = p} = {q[i] : i \in Begun(p)}
  <2>1. n = Len(program.tasks) /\ next[p] > n
    BY <1>1, <1>2, <1>3, <1>7 DEF TaskInv, AllAdded
  <2>2. Begun(p) = {i \in DOMAIN q : Mapping(q[i]) = p}
    <3>1. 1 .. next[p] - 1 = DOMAIN q
      BY <1>3, <1>4, <2>1
    <3> QED
      BY <1>2, <3>1 DEF Begun
  <2>3. \A t \in Tasks : \E i \in DOMAIN q : q[i] = t
    BY <1>1, <1>2, <1>3, <2>1, TaskFacts DEF SortedInv
  <2>4. \A i \in DOMAIN q : q[i] \in Tasks
    BY <1>3
  <2> QED
    BY <2>2, <2>3, <2>4
<1> QED
  BY <1>2, <1>6, <1>7 DEF Precedes, RanInOrder

\* There is one way to sort the tasks.
LEMMA SortedOnce ==
    ASSUME TypeInv, NEW q \in Seq(Tasks), NEW r \in Seq(Tasks), Sorted(q), Sorted(r), Len(q) = Len(r)
    PROVE  q = r
<1>1. PICK n \in Nat : n = Len(q)
  OBVIOUS
<1>2. DOMAIN q = 1 .. n /\ DOMAIN r = 1 .. n
  BY <1>1, LenProperties
<1>3. \A i \in 1 .. n : /\ q[i] \in Tasks /\ r[i] \in Tasks /\ q[i] \in Nat /\ r[i] \in Nat
                        /\ q[i] \in 1 .. n /\ r[i] \in 1 .. n
                        /\ program.tasks[q[i]].priority \in Nat /\ program.tasks[r[i]].priority \in Nat
  <2>1. \A i \in 1 .. n : q[i] \in Tasks /\ r[i] \in Tasks
    BY <1>2, ElementOfSeq
  <2>2. \A i \in 1 .. n : q[i] <= n /\ r[i] <= n
    BY <1>1, <1>2 DEF Sorted
  <2>3. \A t \in Tasks : t \in Nat /\ t >= 1 /\ program.tasks[t].priority \in Nat
    BY TaskFacts
  <2> QED
    BY <2>1, <2>2, <2>3
<1> DEFINE differ == {i \in 1 .. n : q[i] # r[i]}
<1>4. ASSUME NEW a \in Seq(Tasks), NEW b \in Seq(Tasks), Sorted(a), Sorted(b),
             DOMAIN a = 1 .. n, DOMAIN b = 1 .. n, NEW i \in 1 .. n, \A j \in 1 .. i - 1 : a[j] = b[j],
             a[i] # b[i], a[i] \in 1 .. n, \A j \in 1 .. n : program.tasks[a[j]].priority \in Nat /\ a[j] \in Nat
      PROVE  Precedes(b[i], a[i])
  <2>1. PICK j \in 1 .. n : b[j] = a[i]
    <3>1. Len(b) = n
      BY <1>4, LenProperties
    <3> QED
      BY <1>4, <3>1 DEF Sorted
  <2>2. CASE j < i
    <3>1. j \in 1 .. i - 1
      BY <2>2
    <3>2. a[j] = a[i]
      BY <1>4, <2>1, <3>1
    <3>3. Precedes(a[j], a[i])
      BY <1>4, <2>2 DEF Sorted
    <3> QED
      BY <1>4, <3>2, <3>3 DEF Precedes
  <2>3. CASE i < j
    BY <1>4, <2>1, <2>3 DEF Sorted
  <2>4. j # i
    BY <1>4, <2>1
  <2> QED
    BY <2>2, <2>3, <2>4
<1>5. differ = {}
  <2> SUFFICES ASSUME differ # {}
               PROVE  FALSE
    OBVIOUS
  <2>1. PICK i \in differ : \A y \in differ : i <= y
    <3>1. differ \subseteq Nat
      OBVIOUS
    <3> QED
      BY <3>1, MinFact
  <2>2. i \in 1 .. n /\ q[i] # r[i] /\ \A j \in 1 .. i - 1 : q[j] = r[j]
    BY <2>1
  <2> HIDE DEF differ
  <2>3. Precedes(r[i], q[i])
    BY <1>2, <1>3, <1>4, <2>2
  <2>4. Precedes(q[i], r[i])
    BY <1>2, <1>3, <1>4, <2>2
  <2> QED
    BY <1>3, <2>2, <2>3, <2>4 DEF Precedes
<1>6. \A i \in 1 .. n : q[i] = r[i]
  BY <1>5
<1> QED
  BY <1>1, <1>2, <1>6, SeqEqual

\* and the queues are sorted and complete.
LEMMA InvInOrder == IInv => TasksInOrder
<1> SUFFICES ASSUME IInv
             PROVE  TasksInOrder
  OBVIOUS
<1>1. ASSUME NEW p \in Proc, NEW r \in Proc, AllAdded(p), AllAdded(r)
      PROVE  theTaskQueue[p] = theTaskQueue[r]
  <2>1. TypeInv /\ SortedInv(p) /\ SortedInv(r)
    BY InvParts DEF Local
  <2>2. theTaskQueue[p] \in Seq(Tasks) /\ theTaskQueue[r] \in Seq(Tasks)
    BY <2>1 DEF TypeInv
  <2>3. Sorted(theTaskQueue[p]) /\ Sorted(theTaskQueue[r]) /\ Len(theTaskQueue[p]) = Len(theTaskQueue[r])
    BY <1>1, <2>1 DEF SortedInv, Sorted, AllAdded
  <2> QED
    BY <2>1, <2>2, <2>3, SortedOnce
<1>2. ASSUME NEW p \in Proc
      PROVE  RanInOrder(p)
  BY <1>2, InvRan
<1> QED
  BY <1>1, <1>2 DEF TasksInOrder, RanInOrder

\* So it always holds.
LEMMA IInvAlways == Spec => []IInv
  BY InitInv, NextInv, PTL DEF Spec

\* No wakeup is lost: a processor sleeps in msg_q_deq only beside the empty queue
\* of the sender it waits for, with its counter of waiting threads at 1.
THEOREM TypeCorrect == Spec => []TypeOK
  BY IInvAlways, InvTypeOK, PTL

\* treceive returns what tsend was given, in order and once, for any tasks, in
\* whatever order the tasks of two processors send and receive: a message that
\* is not yet received waits in theQueue of its processor or is on the way.
THEOREM DeliveredAlways == Spec => []Delivered
  BY IInvAlways, InvDelivered, PTL

\* execute_tasks runs the tasks in the order of their priorities and of the calls
\* of add_task, and each of them on its processor.
THEOREM TasksInOrderAlways == Spec => []TasksInOrder
  BY IInvAlways, InvInOrder, PTL
-----------------------------------------------------------------------------
(* The barrier. *)

\* How many barriers p has entered and left; on Panda, nobody is behind a
\* barrier that processor 0 has left, or in which it has collected its byte.
InBarrier(p) == pc[p] \in {"barrier", "release"}
CountInv(p) ==
    /\ leave[p] = Cardinality(BarriersBefore(program, p, at[p]))
    /\ enter[p] = leave[p] + (IF InBarrier(p) THEN 1 ELSE 0)
MeetInv ==
    glue = "panda" =>
        /\ \A q \in Proc : leave[0] <= enter[q]
        /\ pc[0] = "barrier" => \A q \in Proc \ {0} : q < loop[0] => enter[0] <= enter[q]
        /\ pc[0] = "release" => \A q \in Proc : enter[0] <= enter[q]
RoundInv == (\A p \in Proc : CountInv(p)) /\ MeetInv
AbstractStep == [AbstractBarrier!Next]_(AbstractBarrier!vars)

\* Barriers before a call,
LEMMA BeforeFact ==
    ASSUME TypeInv, NEW p \in Proc, NEW i \in Nat
    PROVE  /\ IsFiniteSet(BarriersBefore(program, p, i))
           /\ Cardinality(BarriersBefore(program, p, i)) \in Nat
<1>1. IsFiniteSet(DOMAIN program.calls[p])
  <2>1. DOMAIN program.calls[p] = 1 .. Len(program.calls[p]) /\ Len(program.calls[p]) \in Nat
    BY CallFacts
  <2>2. \A n \in Nat : IsFiniteSet(1 .. n)
    BY FS_Interval
  <2> QED
    BY <2>1, <2>2, Zenon
<1>2. BarriersBefore(program, p, i) \in SUBSET DOMAIN program.calls[p]
  BY DEF BarriersBefore
<1>3. IsFiniteSet(BarriersBefore(program, p, i))
  BY <1>1, <1>2, FS_Subset
<1> QED
  BY <1>3, FS_CardinalityType

\* and before the next one.
LEMMA BeforeNext ==
    ASSUME TypeInv, NEW p \in Proc, NEW i \in DOMAIN program.calls[p]
    PROVE  /\ i \in Nat /\ i + 1 \in Nat
           /\ program.calls[p][i].op # "barrier" =>
                  BarriersBefore(program, p, i + 1) = BarriersBefore(program, p, i)
           /\ program.calls[p][i].op = "barrier" =>
                  Cardinality(BarriersBefore(program, p, i + 1)) = Cardinality(BarriersBefore(program, p, i)) + 1
<1>1. DOMAIN program.calls[p] = 1 .. Len(program.calls[p]) /\ Len(program.calls[p]) \in Nat
  BY CallFacts
<1>2. \A k \in DOMAIN program.calls[p] : k < i + 1 <=> (k < i \/ k = i)
  BY <1>1
<1>3. CASE program.calls[p][i].op # "barrier"
  BY <1>1, <1>2, <1>3 DEF BarriersBefore
<1>4. CASE program.calls[p][i].op = "barrier"
  <2>1. BarriersBefore(program, p, i + 1) = BarriersBefore(program, p, i) \union {i}
    BY <1>2, <1>4 DEF BarriersBefore
  <2>2. i \notin BarriersBefore(program, p, i)
    BY <1>1 DEF BarriersBefore
  <2>3. IsFiniteSet(BarriersBefore(program, p, i))
    BY <1>1, BeforeFact
  <2> QED
    BY <1>1, <1>4, <2>1, <2>2, <2>3, FS_AddElement
<1> QED
  BY <1>1, <1>3, <1>4

\* A processor enters its next barrier only if there is one more.
LEMMA RoundsLeft ==
    ASSUME TypeInv, NEW p \in Proc, InCall(p, "barrier"), CountInv(p)
    PROVE  MaxRounds \in Nat /\ leave[p] < MaxRounds
<1> DEFINE All == BarriersBefore(program, p, Len(program.calls[p]) + 1)
<1>1. PICK k : k = at[p]
  OBVIOUS
<1>2. /\ k \in DOMAIN program.calls[p] /\ k \in Nat /\ program.calls[p][k].op = "barrier"
      /\ DOMAIN program.calls[p] = 1 .. Len(program.calls[p]) /\ Len(program.calls[p]) \in Nat
  BY <1>1, BarrierCall
<1>3. program \in Programs /\ leave[p] = Cardinality(BarriersBefore(program, p, k)) /\ k + 1 \in Nat
      /\ Len(program.calls[p]) + 1 \in Nat
  BY <1>1, <1>2 DEF TypeInv, CountInv
<1>4. MaxRounds \in Nat /\ Cardinality(All) <= MaxRounds
  BY <1>3, RoundAssumption
<1>5. BarriersBefore(program, p, k + 1) \in SUBSET All
  BY <1>2 DEF BarriersBefore
<1>6. IsFiniteSet(All) /\ Cardinality(All) \in Nat
  BY <1>3, BeforeFact
<1>7. Cardinality(BarriersBefore(program, p, k + 1)) <= Cardinality(All)
  BY <1>5, <1>6, FS_Subset
<1>8. Cardinality(BarriersBefore(program, p, k + 1)) = leave[p] + 1 /\ leave[p] \in Nat
  BY <1>2, <1>3, BeforeNext, BeforeFact
<1> QED
  BY <1>4, <1>6, <1>7, <1>8

\* s is in a barrier and has begun to give its bytes there.
Meeting(s) == InCall(s, "barrier") /\ (IF s = 0 THEN pc[0] = "release" ELSE pc[s] = "barrier")

\* What s has given d in its calls comes from calls in front of a certain one,
\* and the barriers in front of that are those that s has left or has begun to
\* give its bytes in.
LEMMA FrontCall ==
    ASSUME TypeInv, NEW d \in Proc, NEW s \in Proc, CallInv(s)
    PROVE  \E j \in 1 .. Len(program.calls[s]) + 1 :
               /\ \A x \in Gave(d, s) : x[1] < j
               /\ Cardinality(BarriersBefore(program, s, j)) =
                      Cardinality(BarriersBefore(program, s, at[s])) + (IF Meeting(s) THEN 1 ELSE 0)
<1>1. PICK k : k = at[s]
  OBVIOUS
<1>2. /\ DOMAIN program.calls[s] = 1 .. Len(program.calls[s]) /\ Len(program.calls[s]) \in Nat
      /\ k \in Nat \ {0} /\ k <= Len(program.calls[s]) + 1
  BY <1>1, CallFacts DEF TypeInv, CallInv
<1>3. Cardinality(BarriersBefore(program, s, k)) \in Nat
  BY <1>2, BeforeFact
<1>4. ASSUME NEW x \in Gave(d, s)
      PROVE  x[1] \in Nat /\ x[1] \in DOMAIN program.calls[s] /\ Past(s, x[1], x[2]) /\ x[1] <= k
  <2>1. x[1] \in DOMAIN program.calls[s] /\ Past(s, x[1], x[2])
    BY <1>4, SendingsFact DEF Gave
  <2>2. x[1] \in Nat
    BY <1>2, <2>1
  <2>3. x[1] < k \/ x[1] = k
    BY <1>1, <2>1 DEF Past
  <2> QED
    BY <1>2, <2>1, <2>2, <2>3
<1>5. CASE InCall(s, "barrier") /\ ~Meeting(s)
  <2>1. Arg(s).op = "barrier"
    BY <1>1, <1>5, BarrierCall
  <2>2. ASSUME NEW x \in Gave(d, s)
        PROVE  x[1] < k
    <3>1. x[1] < at[s]
      BY <1>4, <1>5, <2>1, <2>2 DEF Past, Meeting
    <3> QED
      BY <1>1, <3>1
  <2>3. k \in 1 .. Len(program.calls[s]) + 1
    BY <1>2
  <2> QED
    BY <1>1, <1>3, <1>5, <2>2, <2>3
<1>6. CASE k = Len(program.calls[s]) + 1
  <2>1. ~Meeting(s)
    BY <1>1, <1>2, <1>6 DEF Meeting, InCall
  <2>2. \A x \in Gave(d, s) : x[1] < k
    BY <1>2, <1>4, <1>6
  <2>3. k \in 1 .. Len(program.calls[s]) + 1
    BY <1>2
  <2> QED
    BY <1>1, <1>3, <2>1, <2>2, <2>3
<1>7. CASE k <= Len(program.calls[s]) /\ (InCall(s, "barrier") => Meeting(s))
  <2>1. k \in DOMAIN program.calls[s] /\ k + 1 \in 1 .. Len(program.calls[s]) + 1
    BY <1>2, <1>7
  <2>2. \A x \in Gave(d, s) : x[1] < k + 1
    BY <1>2, <1>4
  <2>3. InCall(s, "barrier") <=> program.calls[s][k].op = "barrier"
    BY <1>1, <1>7 DEF InCall
  <2>4. Meeting(s) => InCall(s, "barrier")
    BY DEF Meeting
  <2>5. Cardinality(BarriersBefore(program, s, k + 1)) =
            Cardinality(BarriersBefore(program, s, k)) + (IF Meeting(s) THEN 1 ELSE 0)
    BY <1>3, <1>7, <2>1, <2>3, <2>4, BeforeNext
  <2> QED
    BY <1>1, <2>1, <2>2, <2>5
<1> QED
  BY <1>2, <1>5, <1>6, <1>7

\* Whoever takes a byte in a barrier finds that its sender has begun this barrier:
\* all that was sent before is taken.
LEMMA NotBehind ==
    ASSUME TypeInv, NEW d \in Proc, NEW s \in Proc, d # s, 0 \in {d, s}, glue = "panda",
           CallInv(s), InCall(d, "barrier"), pc[d] = "barrier", d = 0 => s >= loop[0],
           Ahead(d, s) > 0, CountInv(d), CountInv(s)
    PROVE  leave[s] + (IF Meeting(s) THEN 1 ELSE 0) > leave[d]
<1>1. PICK i : i = at[d]
  OBVIOUS
<1>2. i \in DOMAIN program.calls[d] /\ i \in Nat /\ program.calls[d][i].op = "barrier"
  BY <1>1, BarrierCall
<1>3. PICK j \in 1 .. Len(program.calls[s]) + 1 :
          /\ \A x \in Gave(d, s) : x[1] < j
          /\ Cardinality(BarriersBefore(program, s, j)) = leave[s] + (IF Meeting(s) THEN 1 ELSE 0)
  BY FrontCall DEF CountInv
<1>4. leave[d] = Cardinality(BarriersBefore(program, d, i)) /\ leave[d] \in Nat /\ leave[s] \in Nat
  BY <1>1 DEF CountInv, TypeInv
<1> DEFINE S == {x \in Sendings(program, d, s) : x[1] < j}
           T == {k \in Takings(program, d, s) : k < i}
<1>5. SUFFICES ASSUME leave[s] + (IF Meeting(s) THEN 1 ELSE 0) <= leave[d]
               PROVE  FALSE
  BY <1>4
<1>6. program \in Programs /\ program.glue = "panda"
  BY CallFacts DEF TypeInv
<1>7. Cardinality(S) <= Cardinality(T)
  BY <1>2, <1>3, <1>4, <1>5, <1>6, RoundAssumption
<1>8. Took(d, s) = T
  <2>1. ASSUME NEW k \in Takings(program, d, s)
        PROVE  Gone(d, s, k) <=> k < i
    <3>1. d = 0 => ~(s < loop[d])
      BY DEF TypeInv, Proc
    <3> QED
      BY <1>1, <3>1 DEF Gone
  <2> QED
    BY <2>1 DEF Took
<1>9. Gave(d, s) \in SUBSET S
  BY <1>3 DEF Gave
<1>10. IsFiniteSet(S) /\ Cardinality(S) \in Nat
  <2>1. S \in SUBSET Sendings(program, d, s)
    OBVIOUS
  <2> QED
    BY <2>1, Finitely, FS_Subset, FS_CardinalityType
<1>11. Cardinality(Gave(d, s)) <= Cardinality(S)
  BY <1>9, <1>10, FS_Subset
<1>12. Cardinality(Gave(d, s)) \in Nat /\ Cardinality(Took(d, s)) \in Nat
  BY Counted
<1> QED
  BY <1>7, <1>8, <1>10, <1>11, <1>12 DEF Ahead

-----------------------------------------------------------------------------
(* Steps of the abstract barrier. *)

\* p enters the barrier, leaves it, or nobody does.
Enters(p) ==
    /\ pc[p] = "run" /\ InCall(p, "barrier") /\ program' = program /\ glue' = glue
    /\ at' = at /\ loop' = loop /\ leave' = leave /\ enter' = [enter EXCEPT ![p] = @ + 1]
    /\ \A q \in Proc : q # p => pc'[q] = pc[q]
    /\ pc'[p] = "barrier" \/ (pc'[p] = "release" /\ N = 1)
Leaves(p) ==
    /\ InBarrier(p) /\ program' = program /\ glue' = glue
    /\ enter' = enter /\ leave' = [leave EXCEPT ![p] = @ + 1]
    /\ at' = [at EXCEPT ![p] = @ + 1] /\ pc'[p] = "run"
    /\ \A q \in Proc : q # p => pc'[q] = pc[q] /\ loop'[q] = loop[q]
    /\ \A q \in Proc : enter[p] <= enter[q]
Steady ==
    /\ program' = program /\ glue' = glue /\ enter' = enter /\ leave' = leave
    /\ \A q \in Proc : InBarrier(q)' <=> InBarrier(q)
    /\ \A q \in Proc : BarriersBefore(program, q, at'[q]) = BarriersBefore(program, q, at[q])

\* Entering is a step of the abstract barrier,
LEMMA EntersRound ==
    ASSUME TypeInv, NEW p \in Proc, \A q \in Proc : CallInv(q), RoundInv, Enters(p)
    PROVE  RoundInv' /\ AbstractStep
<1>1. /\ enter \in [Proc -> Nat] /\ leave \in [Proc -> Nat] /\ pc \in [Proc -> Place] /\ 0 \in Proc
      /\ CountInv(p) /\ MeetInv
  BY Zero DEF TypeInv, RoundInv
<1>2. enter[p] = leave[p]
  BY <1>1 DEF CountInv, InBarrier, Enters
<1>3. leave[p] < MaxRounds /\ MaxRounds \in Nat
  BY <1>1, RoundsLeft DEF Enters
<1>4. AbstractBarrier!Enter(p)
  BY <1>1, <1>2, <1>3 DEF AbstractBarrier!Enter, Enters
<1>5. enter'[p] = enter[p] + 1 /\ \A q \in Proc : q # p => enter'[q] = enter[q]
  BY <1>1 DEF Enters
<1>6. \A q \in Proc : enter[q] <= enter'[q]
  BY <1>1, <1>5
<1>7. ASSUME NEW q \in Proc
      PROVE  CountInv(q)'
  <2>1. CountInv(q) /\ BarriersBefore(program, q, at[q])' = BarriersBefore(program, q, at[q]) /\ leave'[q] = leave[q]
    BY DEF RoundInv, Enters
  <2>2. CASE q = p
    <3>1. InBarrier(p)' /\ ~InBarrier(p)
      BY DEF InBarrier, Enters
    <3> QED
      BY <1>1, <1>2, <1>5, <2>1, <2>2, <3>1 DEF CountInv
  <2>3. CASE q # p
    <3>1. InBarrier(q)' <=> InBarrier(q)
      BY <2>3 DEF InBarrier, Enters
    <3> QED
      BY <1>5, <2>1, <2>3, <3>1 DEF CountInv
  <2> QED
    BY <2>2, <2>3
<1>8. ASSUME glue = "panda"
      PROVE  MeetInv'
  <2>1. \A q \in Proc : leave'[0] <= enter'[q]
    <3>1. ASSUME NEW q \in Proc
          PROVE  leave'[0] <= enter'[q]
      <4>1. leave[0] <= enter[q] /\ leave'[0] = leave[0] /\ enter[q] <= enter'[q]
        BY <1>1, <1>6, <1>8 DEF MeetInv, Enters
      <4>2. leave[0] \in Nat /\ enter[q] \in Nat /\ enter'[q] \in Nat
        BY <1>1, <1>5
      <4> QED
        BY <4>1, <4>2
    <3> QED
      BY <3>1
  <2>2. CASE p = 0
    <3>1. loop'[0] = 1
      BY <1>1, <2>2 DEF CallInv, Enters
    <3>2. \A q \in Proc \ {0} : ~(q < loop'[0])
      BY <3>1 DEF Proc
    <3>3. pc'[0] = "release" => \A q \in Proc : enter'[0] <= enter'[q]
      <4>1. pc'[0] = "release" => Proc = {0}
        BY <2>2 DEF Enters, Proc
      <4>2. enter'[0] \in Nat
        BY <1>1, <1>5, <2>2
      <4> QED
        BY <4>1, <4>2
    <3> QED
      BY <2>1, <3>2, <3>3 DEF MeetInv
  <2>3. CASE p # 0
    <3>1. pc'[0] = pc[0] /\ loop'[0] = loop[0] /\ enter'[0] = enter[0]
      BY <1>1, <1>5, <2>3 DEF Enters
    <3>2. ASSUME NEW q \in Proc, enter[0] <= enter[q]
          PROVE  enter'[0] <= enter'[q]
      <4>1. enter[0] \in Nat /\ enter[q] \in Nat /\ enter'[q] \in Nat
        BY <1>1, <1>5
      <4> QED
        BY <1>6, <3>1, <3>2, <4>1
    <3> QED
      BY <1>1, <1>8, <2>1, <3>1, <3>2 DEF MeetInv
  <2> QED
    BY <2>2, <2>3
<1>9. RoundInv'
  BY <1>7, <1>8 DEF RoundInv, MeetInv, Enters
<1> QED
  BY <1>4, <1>9 DEF AbstractStep, AbstractBarrier!Next

\* leaving is, when all have entered,
LEMMA LeavesRound ==
    ASSUME TypeInv, NEW p \in Proc, CallInv(p), RoundInv, Leaves(p)
    PROVE  RoundInv' /\ AbstractStep
<1>1. /\ enter \in [Proc -> Nat] /\ leave \in [Proc -> Nat] /\ at \in [Proc -> Nat \ {0}] /\ 0 \in Proc
      /\ CountInv(p) /\ MeetInv
  BY Zero DEF TypeInv, RoundInv
<1>2. enter[p] = leave[p] + 1
  BY <1>1 DEF CountInv, Leaves
<1>3. AbstractBarrier!Leave(p)
  <2>1. \A q \in Proc : enter[q] >= enter[p]
    BY <1>1 DEF Leaves
  <2> QED
    BY <1>2, <2>1 DEF AbstractBarrier!Leave, Leaves
<1>4. leave'[p] = leave[p] + 1 /\ \A q \in Proc : q # p => leave'[q] = leave[q]
  BY <1>1 DEF Leaves
<1>5. ASSUME NEW q \in Proc
      PROVE  CountInv(q)'
  <2>1. CountInv(q) /\ enter'[q] = enter[q] /\ program' = program
    BY DEF RoundInv, Leaves
  <2>2. CASE q = p
    <3>1. PICK k : k = at[p]
      OBVIOUS
    <3>2. InCall(p, "barrier")
      BY DEF CallInv, Leaves, InBarrier
    <3>3. k \in DOMAIN program.calls[p] /\ program.calls[p][k].op = "barrier" /\ at'[p] = k + 1
      BY <1>1, <3>1, <3>2, BarrierCall DEF Leaves
    <3>4. Cardinality(BarriersBefore(program, p, k + 1)) = leave[p] + 1
      BY <1>1, <3>1, <3>3, BeforeNext DEF CountInv
    <3>5. ~InBarrier(p)'
      BY DEF InBarrier, Leaves
    <3>6. leave'[p] = Cardinality(BarriersBefore(program, p, at[p]))'
      BY <1>4, <2>1, <3>3, <3>4
    <3> QED
      BY <1>1, <1>2, <1>4, <2>1, <2>2, <3>5, <3>6 DEF CountInv
  <2>3. CASE q # p
    <3>1. (InBarrier(q)' <=> InBarrier(q)) /\ at'[q] = at[q]
      BY <1>1, <2>3 DEF InBarrier, Leaves
    <3> QED
      BY <1>4, <2>1, <2>3, <3>1 DEF CountInv
  <2> QED
    BY <2>2, <2>3
<1>6. ASSUME glue = "panda"
      PROVE  MeetInv'
  <2>1. ASSUME NEW q \in Proc
        PROVE  leave'[0] <= enter'[q]
    <3>1. CASE p = 0
      BY <1>1, <1>2, <1>4, <3>1 DEF Leaves
    <3>2. CASE p # 0
      BY <1>1, <1>4, <1>6, <3>2 DEF Leaves, MeetInv
    <3> QED
      BY <3>1, <3>2
  <2>2. CASE p = 0
    BY <2>1, <2>2 DEF MeetInv, Leaves
  <2>3. CASE p # 0
    <3>1. pc'[0] = pc[0] /\ loop'[0] = loop[0] /\ enter' = enter
      BY <1>1, <2>3 DEF Leaves
    <3> QED
      BY <1>1, <1>6, <2>1, <3>1 DEF MeetInv
  <2> QED
    BY <2>2, <2>3
<1>7. RoundInv'
  BY <1>5, <1>6 DEF RoundInv, MeetInv, Leaves
<1> QED
  BY <1>3, <1>7 DEF AbstractStep, AbstractBarrier!Next

\* and the other steps do not show in it.
LEMMA SteadyRound ==
    ASSUME RoundInv, Steady, MeetInv'
    PROVE  RoundInv' /\ AbstractStep
<1>1. ASSUME NEW q \in Proc
      PROVE  CountInv(q)'
  <2>1. /\ CountInv(q) /\ (InBarrier(q)' <=> InBarrier(q)) /\ leave'[q] = leave[q] /\ enter'[q] = enter[q]
        /\ BarriersBefore(program, q, at[q])' = BarriersBefore(program, q, at[q])
    BY DEF RoundInv, Steady
  <2> QED
    BY <2>1 DEF CountInv
<1>2. AbstractStep
  BY DEF Steady, AbstractStep, AbstractBarrier!vars
<1> QED
  BY <1>1, <1>2 DEF RoundInv

\* They leave alone who is where, if processor 0 goes on where it was.
LEMMA SteadyMeet ==
    ASSUME RoundInv, Steady,
           \/ pc'[0] = pc[0] /\ (pc'[0] = "barrier" => loop'[0] = loop[0])
           \/ pc'[0] \notin {"barrier", "release"}
    PROVE  MeetInv'
  BY DEF RoundInv, Steady, MeetInv

-----------------------------------------------------------------------------
(* The steps of the program. *)

\* Barriers in front of the next call, if this is none.
LEMMA NoBarrier ==
    ASSUME TypeInv, NEW p \in Proc, at[p] <= Len(program.calls[p]), ~InCall(p, "barrier"),
           at'[p] \in {at[p], at[p] + 1}
    PROVE  BarriersBefore(program, p, at'[p]) = BarriersBefore(program, p, at[p])
<1>1. PICK k : k = at[p]
  OBVIOUS
<1>2. k \in DOMAIN program.calls[p] /\ program.calls[p][k].op # "barrier"
  BY <1>1, NextCall DEF InCall
<1> QED
  BY <1>1, <1>2, BeforeNext

\* A send or a receive.
LEMMA CallRound ==
    ASSUME NEW p \in Proc, Ready(p), RoundInv, Send(p) \/ Receive(p)
    PROVE  RoundInv' /\ AbstractStep
<1>1. TypeInv /\ CallStep(p)
  BY SendStep, ReceiveStep DEF Ready, After
<1>2. /\ pc[p] = "run" /\ ~InCall(p, "barrier") /\ enter' = enter /\ leave' = leave
      /\ pc'[p] \in {"run", "error"}
  BY <1>1 DEF Send, Receive, InCall, Goto, TypeInv
<1>3. \A q \in Proc : q # p => pc'[q] = pc[q] /\ at'[q] = at[q] /\ loop'[q] = loop[q]
  BY <1>1 DEF CallStep, Elsewhere
<1>4. \A q \in Proc : InBarrier(q)' <=> InBarrier(q)
  BY <1>2, <1>3 DEF InBarrier
<1>5. \A q \in Proc : BarriersBefore(program, q, at'[q]) = BarriersBefore(program, q, at[q])
  BY <1>1, <1>2, <1>3, NoBarrier DEF CallStep
<1>6. Steady
  BY <1>1, <1>2, <1>4, <1>5 DEF Steady, CallStep, Elsewhere
<1>7. MeetInv'
  BY <1>2, <1>3, <1>6, Zero, SteadyMeet
<1> QED
  BY <1>6, <1>7, SteadyRound

\* The entry of another processor, of processor 0, and of any on MPI,
LEMMA BarrierEnters ==
    ASSUME NEW p \in Proc, Ready(p), \A q \in Proc : CallInv(q), RoundInv,
           \/ BarrierSend(p)
           \/ p = 0 /\ BarrierEnter0
           \/ MpiBarrier(p) /\ pc[p] = "run"
    PROVE  RoundInv' /\ AbstractStep
<1>1. TypeInv /\ pc \in [Proc -> Place] /\ CallInv(p)
  BY DEF Ready, TypeInv
<1>2. loop' = loop /\ at' = at /\ leave' = leave /\ program' = program /\ glue' = glue
  BY DEF BarrierSend, BarrierEnter0, MpiBarrier, mailVars, SendReal
<1>3. /\ pc[p] = "run" /\ InCall(p, "barrier") /\ enter' = [enter EXCEPT ![p] = @ + 1]
  BY DEF BarrierSend, BarrierEnter0, MpiBarrier
<1>4. \/ pc' = [pc EXCEPT ![p] = "barrier"]
      \/ pc' = [pc EXCEPT ![p] = "release"] /\ N = 1
  <2>1. CASE p = 0 /\ BarrierEnter0
    BY <2>1 DEF BarrierEnter0, Goto
  <2>2. CASE BarrierSend(p) \/ (MpiBarrier(p) /\ pc[p] = "run")
    BY <2>2 DEF BarrierSend, MpiBarrier, Goto
  <2> QED
    BY <2>1, <2>2
<1>5. Enters(p)
  BY <1>1, <1>2, <1>3, <1>4 DEF Enters
<1> QED
  BY <1>1, <1>5, EntersRound

\* The departure of another processor,
LEMMA AnswerRound ==
    ASSUME NEW p \in Proc, Ready(p), \A q \in Proc : CallInv(q), RoundInv, Flows, BarrierAnswer(p)
    PROVE  RoundInv' /\ AbstractStep
<1>1. /\ TypeInv /\ glue = "panda" /\ pc[p] = "barrier" /\ p # 0 /\ 0 \in Proc /\ ~Kept(0, p)
      /\ CallInv(p) /\ CallInv(0) /\ InCall(p, "barrier") /\ CountInv(p) /\ CountInv(0) /\ MeetInv
  BY Zero DEF Ready, BarrierAnswer, Kept, CallInv, RoundInv
<1>2. TookOne(p, 0) /\ CallStep(p)
  BY BarrierAnswerCounts, BarrierAnswerStep DEF After
<1>3. Stream(p, 0) # <<>>
  <2>1. Take(p, 0)
    BY DEF BarrierAnswer
  <2> QED
    BY <1>1, <2>1, TakeEffect DEF TypeInv, Taken
<1>4. Ahead(p, 0) > 0
  BY <1>1, <1>2, <1>3, TakenCounted DEF Flows, TookOne
<1>5. leave[0] + (IF Meeting(0) THEN 1 ELSE 0) > leave[p]
  BY <1>1, <1>4, NotBehind
<1>6. /\ leave[0] \in Nat /\ leave[p] \in Nat /\ enter \in [Proc -> Nat] /\ leave \in [Proc -> Nat]
      /\ at \in [Proc -> Nat \ {0}] /\ pc \in [Proc -> Place] /\ loop \in [Proc -> Nat \ {0}]
  BY <1>1 DEF TypeInv
<1>7. enter[p] = leave[p] + 1
  BY <1>1 DEF CountInv, InBarrier
<1>8. ASSUME NEW q \in Proc
      PROVE  enter[p] <= enter[q]
  <2>1. enter[q] \in Nat
    BY <1>6
  <2>2. CASE Meeting(0)
    <3>1. pc[0] = "release" /\ enter[0] = leave[0] + 1 /\ enter[0] <= enter[q]
      BY <1>1, <2>2 DEF Meeting, CountInv, InBarrier, MeetInv
    <3> QED
      BY <1>5, <1>6, <1>7, <2>1, <2>2, <3>1
  <2>3. CASE ~Meeting(0)
    <3>1. leave[0] <= enter[q]
      BY <1>1 DEF MeetInv
    <3> QED
      BY <1>5, <1>6, <1>7, <2>1, <2>3, <3>1
  <2> QED
    BY <2>2, <2>3
<1>9. Leaves(p)
  <2>1. /\ program' = program /\ enter' = enter /\ leave' = [leave EXCEPT ![p] = @ + 1]
        /\ pc' = [pc EXCEPT ![p] = "run"] /\ at' = [at EXCEPT ![p] = @ + 1] /\ loop' = [loop EXCEPT ![p] = 1]
    BY DEF BarrierAnswer, Goto, Return
  <2>2. glue' = glue
    BY <1>2 DEF CallStep, Elsewhere
  <2> QED
    BY <1>1, <1>6, <1>8, <2>1, <2>2 DEF Leaves, InBarrier
<1> QED
  BY <1>1, <1>9, LeavesRound

\* of processor 0, which answers first,
LEMMA ReleaseRound ==
    ASSUME Ready(0), RoundInv, BarrierRelease
    PROVE  RoundInv' /\ AbstractStep
<1>1. /\ TypeInv /\ 0 \in Proc /\ pc[0] = "release" /\ CallInv(0) /\ glue = "panda" /\ MeetInv
      /\ pc \in [Proc -> Place] /\ at \in [Proc -> Nat \ {0}] /\ loop \in [Proc -> Nat \ {0}]
  BY Zero DEF Ready, Local, BarrierRelease, TypeInv, CallInv, RoundInv
<1>2. program' = program /\ enter' = enter /\ glue' = glue
  <2>1. CallStep(0)
    BY BarrierReleaseStep DEF After
  <2> QED
    BY <2>1 DEF CallStep, Elsewhere, BarrierRelease
<1>3. CASE loop[0] < N
  <2>1. pc' = pc /\ at' = at /\ leave' = leave
    BY <1>3 DEF BarrierRelease
  <2>2. Steady
    BY <1>2, <2>1 DEF Steady, InBarrier
  <2>3. MeetInv'
    BY <1>1, <2>1, <2>2, SteadyMeet
  <2> QED
    BY <2>2, <2>3, SteadyRound
<1>4. CASE ~(loop[0] < N)
  <2>1. /\ leave' = [leave EXCEPT ![0] = @ + 1] /\ pc' = [pc EXCEPT ![0] = "run"]
        /\ at' = [at EXCEPT ![0] = @ + 1] /\ loop' = [loop EXCEPT ![0] = 1]
    BY <1>4 DEF BarrierRelease, Goto, Return
  <2>2. \A q \in Proc : enter[0] <= enter[q]
    BY <1>1 DEF MeetInv
  <2>3. Leaves(0)
    BY <1>1, <1>2, <2>1, <2>2 DEF Leaves, InBarrier
  <2> QED
    BY <1>1, <2>3, LeavesRound
<1> QED
  BY <1>3, <1>4

\* and of any on MPI.
LEMMA MpiLeaves ==
    ASSUME NEW p \in Proc, Ready(p), RoundInv, MpiBarrier(p), pc[p] = "barrier"
    PROVE  RoundInv' /\ AbstractStep
<1>1. TypeInv /\ CallInv(p) /\ pc \in [Proc -> Place] /\ loop \in [Proc -> Nat \ {0}] /\ enter \in [Proc -> Nat]
  BY DEF Ready, Local, TypeInv
<1>2. /\ program' = program /\ glue' = glue /\ enter' = enter /\ leave' = [leave EXCEPT ![p] = @ + 1]
      /\ pc' = [pc EXCEPT ![p] = "run"] /\ at' = [at EXCEPT ![p] = @ + 1] /\ loop' = [loop EXCEPT ![p] = 1]
      /\ \A q \in Proc : enter[q] >= enter[p]
  BY DEF MpiBarrier, mailVars, Goto, Return
<1>3. \A q \in Proc : enter[p] <= enter[q]
  BY <1>1, <1>2
<1>4. Leaves(p)
  BY <1>1, <1>2, <1>3 DEF Leaves, InBarrier
<1> QED
  BY <1>1, <1>4, LeavesRound

\* Processor 0 collects a byte: it is of the barrier that processor 0 is in.
LEMMA CollectRound ==
    ASSUME Ready(0), \A q \in Proc : CallInv(q), RoundInv, Flows, BarrierCollect
    PROVE  RoundInv' /\ AbstractStep
<1>1. /\ TypeInv /\ glue = "panda" /\ pc[0] = "barrier" /\ 0 \in Proc
      /\ CallInv(0) /\ InCall(0, "barrier") /\ CountInv(0) /\ MeetInv /\ loop[0] \in 1 .. N - 1
  BY Zero DEF Ready, BarrierCollect, CallInv, RoundInv
<1>2. PICK s \in Proc : s = loop[0] /\ s # 0 /\ s \in Nat /\ s <= N - 1
  BY <1>1, NAssumption DEF Proc
<1>3. /\ TookOne(0, s) /\ CallStep(0) /\ ~Kept(s, 0) /\ CallInv(s) /\ CountInv(s)
  BY <1>1, <1>2, BarrierCollectCounts, BarrierCollectStep DEF After, Kept, RoundInv
<1>4. Stream(0, s) # <<>>
  <2>1. Take(0, s)
    BY <1>2 DEF BarrierCollect
  <2> QED
    BY <1>1, <1>3, <2>1, TakeEffect DEF TypeInv, Taken
<1>5. Ahead(0, s) > 0
  BY <1>1, <1>3, <1>4, TakenCounted DEF Flows, TookOne
<1>6. leave[s] + (IF Meeting(s) THEN 1 ELSE 0) > leave[0]
  <2>1. s >= loop[0]
    BY <1>2
  <2> QED
    BY <1>1, <1>2, <1>3, <1>5, <2>1, NotBehind
<1>7. /\ leave \in [Proc -> Nat] /\ enter \in [Proc -> Nat] /\ pc \in [Proc -> Place] /\ loop \in [Proc -> Nat \ {0}]
  BY <1>1 DEF TypeInv
<1>8. enter[0] <= enter[s]
  <2>1. enter[0] = leave[0] + 1 /\ leave[0] \in Nat /\ leave[s] \in Nat
    BY <1>1, <1>7 DEF CountInv, InBarrier
  <2>2. Meeting(s) => InBarrier(s)
    BY <1>2 DEF Meeting, InBarrier
  <2>3. enter[s] = leave[s] + (IF InBarrier(s) THEN 1 ELSE 0)
    BY <1>3 DEF CountInv
  <2>4. CASE Meeting(s)
    BY <1>6, <2>1, <2>2, <2>3, <2>4
  <2>5. CASE ~Meeting(s)
    BY <1>6, <2>1, <2>3, <2>5
  <2> QED
    BY <2>4, <2>5
<1>9. /\ program' = program /\ glue' = glue /\ at' = at /\ enter' = enter /\ leave' = leave
      /\ IF loop[0] = N - 1 THEN pc' = [pc EXCEPT ![0] = "release"]
         ELSE pc' = pc /\ loop' = [loop EXCEPT ![0] = @ + 1]
  BY <1>3 DEF BarrierCollect, Goto, CallStep, Elsewhere
<1>10. Steady
  BY <1>1, <1>7, <1>9 DEF Steady, InBarrier
<1>11. ASSUME NEW q \in Proc \ {0}, q < loop[0] + 1
       PROVE  enter[0] <= enter[q]
  <2>1. q < s \/ q = s
    BY <1>2, <1>11 DEF Proc
  <2> QED
    BY <1>1, <1>2, <1>8, <1>11, <2>1 DEF MeetInv
<1>12. MeetInv'
  <2>1. \A q \in Proc : leave'[0] <= enter'[q]
    BY <1>1, <1>9 DEF MeetInv
  <2>2. CASE loop[0] = N - 1
    <3>1. pc'[0] = "release"
      BY <1>1, <1>7, <1>9, <2>2
    <3>2. ASSUME NEW q \in Proc
          PROVE  enter[0] <= enter[q]
      <4>1. CASE q = 0
        BY <1>1, <1>7, <4>1
      <4>2. CASE q # 0
        <5>1. q < loop[0] + 1
          BY <1>2, <2>2, NAssumption DEF Proc
        <5> QED
          BY <1>11, <4>2, <5>1
      <4> QED
        BY <4>1, <4>2
    <3> QED
      BY <1>9, <2>1, <3>1, <3>2 DEF MeetInv
  <2>3. CASE loop[0] # N - 1
    <3>1. pc'[0] = "barrier" /\ loop'[0] = loop[0] + 1
      BY <1>1, <1>7, <1>9, <2>3
    <3> QED
      BY <1>9, <1>11, <2>1, <3>1 DEF MeetInv
  <2> QED
    BY <2>2, <2>3
<1> QED
  BY <1>10, <1>12, SteadyRound

\* A step among the tasks,
LEMMA TaskRound ==
    ASSUME TypeInv, NEW p \in Proc, TaskStep(p), RoundInv
    PROVE  RoundInv' /\ AbstractStep
<1>1. /\ program' = program /\ glue' = glue /\ at' = at /\ loop' = loop /\ enter' = enter /\ leave' = leave
      /\ \A q \in Proc : q # p => pc'[q] = pc[q]
      /\ ~InBarrier(p) /\ ~InBarrier(p)' /\ pc'[p] \notin {"barrier", "release"} /\ 0 \in Proc
  BY Zero DEF TaskStep, Elsewhere, callVars, InBarrier, AtWork
<1>2. \A q \in Proc : InBarrier(q)' <=> InBarrier(q)
  BY <1>1 DEF InBarrier
<1>3. Steady
  BY <1>1, <1>2 DEF Steady
<1>4. MeetInv'
  BY <1>1, <1>3, SteadyMeet
<1> QED
  BY <1>3, <1>4, SteadyRound

\* and one of no processor.
LEMMA QuietRound ==
    ASSUME RoundInv, program' = program, glue' = glue, pc' = pc, UNCHANGED callVars
    PROVE  RoundInv' /\ AbstractStep
<1>1. at' = at /\ loop' = loop /\ enter' = enter /\ leave' = leave
  BY DEF callVars
<1>2. Steady
  BY <1>1 DEF Steady, InBarrier
<1>3. MeetInv'
  BY <1>1, <1>2, SteadyMeet
<1> QED
  BY <1>2, <1>3, SteadyRound

\* A step of a processor.
LEMMA ProcRound ==
    ASSUME IInv, ~Error, RoundInv, NEW p \in Proc, ProcStep(p)
    PROVE  RoundInv' /\ AbstractStep
<1>1. TypeInv /\ SleepInvs /\ (\A q \in Proc : Local(q)) /\ Sound
  BY InvParts
<1>2. Ready(p) /\ Flows /\ \A q \in Proc : CallInv(q)
  BY <1>1 DEF Ready, Local, Sound
<1>3. CASE Send(p) \/ Receive(p)
  BY <1>2, <1>3, CallRound
<1>4. CASE BarrierSend(p) \/ (p = 0 /\ BarrierEnter0) \/ (MpiBarrier(p) /\ pc[p] = "run")
  BY <1>2, <1>4, BarrierEnters
<1>5. CASE MpiBarrier(p) /\ pc[p] # "run"
  <2>1. pc[p] = "barrier"
    BY <1>5 DEF MpiBarrier
  <2> QED
    BY <1>2, <1>5, <2>1, MpiLeaves
<1>6. CASE BarrierAnswer(p)
  BY <1>2, <1>6, AnswerRound
<1>7. CASE p = 0 /\ BarrierCollect
  BY <1>2, <1>7, CollectRound
<1>8. CASE p = 0 /\ BarrierRelease
  BY <1>2, <1>8, ReleaseRound
<1>9. CASE FallAsleep(p)
  <2>1. program' = program /\ glue' = glue /\ pc' = pc /\ UNCHANGED callVars
    BY <1>9 DEF FallAsleep, Sleep
  <2> QED
    BY <2>1, QuietRound
<1>10. CASE \/ AddTask(p) \/ ExecuteTask(p) \/ TaskReturns(p) \/ TSendSize(p) \/ TSendMessage(p)
            \/ TReceive(p) \/ TReceiveSize(p) \/ TReceiveMessage(p)
  <2>1. TaskStep(p)
    BY <1>1, <1>2, <1>10, TasksSound DEF TaskAfter
  <2> QED
    BY <1>1, <2>1, TaskRound
<1> QED
  BY <1>3, <1>4, <1>5, <1>6, <1>7, <1>8, <1>9, <1>10 DEF ProcStep

\* Every step is one of the abstract barrier, or does not show in it.
LEMMA NextRound == IInv /\ RoundInv /\ [Next]_vars => RoundInv' /\ AbstractStep
<1> SUFFICES ASSUME IInv, RoundInv, [Next]_vars
             PROVE  RoundInv' /\ AbstractStep
  OBVIOUS
<1>1. ~Ended => ~Error
  BY DEF Ended, Error
<1>2. CASE ~Ended /\ \E p \in Proc : ProcStep(p)
  BY <1>1, <1>2, ProcRound
<1>3. CASE ~Ended /\ \E d, s \in Proc : HandleMessage(d, s)
  <2>1. program' = program /\ glue' = glue /\ pc' = pc /\ UNCHANGED callVars
    BY <1>3 DEF HandleMessage, Upcall
  <2> QED
    BY <2>1, QuietRound
<1>4. CASE UNCHANGED vars
  <2>1. program' = program /\ glue' = glue /\ pc' = pc /\ UNCHANGED callVars
    BY <1>4 DEF vars, mailVars
  <2> QED
    BY <2>1, QuietRound
<1> QED
  BY <1>2, <1>3, <1>4 DEF Next

\* At first nobody has been in a barrier.
LEMMA InitRound == Init => RoundInv /\ AbstractBarrier!Init
<1> SUFFICES ASSUME Init
             PROVE  RoundInv /\ AbstractBarrier!Init
  OBVIOUS
<1>1. /\ TypeInv /\ 0 \in Proc
      /\ \A p \in Proc : pc[p] = "run" /\ at[p] = 1 /\ enter[p] = 0 /\ leave[p] = 0
  BY InitTypes, Zero DEF Init
<1>2. ASSUME NEW p \in Proc
      PROVE  CountInv(p)
  <2>1. DOMAIN program.calls[p] = 1 .. Len(program.calls[p])
    BY <1>1, CallFacts
  <2>2. BarriersBefore(program, p, 1) = {}
    BY <2>1 DEF BarriersBefore
  <2>3. Cardinality(BarriersBefore(program, p, at[p])) = 0
    BY <1>1, <2>2, FS_EmptySet
  <2> QED
    BY <1>1, <2>3 DEF CountInv, InBarrier
<1>3. MeetInv
  BY <1>1 DEF MeetInv
<1> QED
  BY <1>2, <1>3 DEF RoundInv, AbstractBarrier!Init, Init

\* vnus_barrier is a barrier for every number of processors, on either glue: on
\* Panda, where it is made of messages to and from processor 0, for all programs
\* that take what was sent to them before a barrier before it.
THEOREM BarrierImplemented ==
    Spec => AbstractBarrier!Init /\ [][AbstractBarrier!Next]_(AbstractBarrier!vars)
<1>1. Init => IInv
  BY InitInv
<1>2. IInv /\ [Next]_vars => IInv'
  BY NextInv
<1>3. IInv /\ RoundInv /\ [Next]_vars => RoundInv' /\ [AbstractBarrier!Next]_(AbstractBarrier!vars)
  BY NextRound DEF AbstractStep
<1> QED
  BY <1>1, <1>2, <1>3, InitRound, PTL DEF Spec
=============================================================================
