------------------------- MODULE VnusThreads_proofs -------------------------
(***************************************************************************)
(* Proofs about VnusThreads: first the mailboxes and their semaphores,     *)
(* then vnus_barrier, whose counter is set back for the next round while   *)
(* the threads of this one still sleep; for every number of threads and    *)
(* all programs.                                                           *)
(***************************************************************************)
EXTENDS VnusThreads, SequenceTheorems, FiniteSetTheorems, TLAPS

(***************************************************************************)
(* Where the receiver d and the sender s of the port <<d, s>> are.         *)
(***************************************************************************)
Receiving(d, s) == pc[d] \in {"blocked", "take", "crash"} /\ Arg(d).peer = s
Taking(d, s) == Receiving(d, s) /\ d \notin asleep[<<d, s>>]
Signalling(d, s) == pc[s] = "signal" /\ Arg(s).peer = d
Notifying(d, s) == pc[s] = "notify" /\ Arg(s).peer = d
One(b) == IF b THEN 1 ELSE 0

\* The counter of the semaphore: who waits, and messages that are not yet
\* signalled, less the messages.
Counted(d, s) ==
    waiting[<<d, s>>] = One(Receiving(d, s)) + One(Signalling(d, s)) - Len(port[<<d, s>>])

\* A receiver sleeps beside one message at most, for which it is about to be woken.
Wakeful(d, s) ==
    d \in asleep[<<d, s>>] =>
        Len(port[<<d, s>>]) <= One(Signalling(d, s)) + One(Notifying(d, s))

\* When waits return only if signalled: the sender about to signal and the
\* receiver that is through haveSome.wait each have a message of their own, and
\* whoever is notified is asleep beside one.
Provided(d, s) ==
    ~program.spurious =>
        /\ One(Taking(d, s)) + One(Signalling(d, s)) <= Len(port[<<d, s>>])
        /\ Notifying(d, s) => d \in asleep[<<d, s>>] /\ Len(port[<<d, s>>]) = 1
        /\ pc[d] # "crash"

\* Messages come out of the port in the order of the calls.
Ordered(d, s) ==
    (\A t \in Thread : pc[t] # "exit") =>
        LET order == Delivered(<<d, s>>)
        IN  /\ {order[i] : i \in DOMAIN order} = SentTo(d, s)
            /\ \A i, j \in DOMAIN order : i < j => order[i] < order[j]

Message == [call : Nat, size : Nat]
Types ==
    /\ program \in Programs
    /\ pc \in [Thread \union {Main} -> Places]
    /\ at \in [Thread \union {Main} -> Nat]
    /\ \A t \in Thread : at[t] \in 1 .. Len(Calls(t)) + 1
    /\ at[Main] \in 0 .. N
    /\ port \in [Port -> Seq(Message)]
    /\ waiting \in [Port -> Int]
    /\ asleep \in [Port -> SUBSET Thread]
    /\ received \in [Port -> Seq(Nat)]
    /\ arrivals \in [Meetings -> Nat] /\ \A b \in Meetings : arrivals[b] <= Parties(b) - 1
    /\ sleepers \in [Meetings -> SUBSET (Thread \union {Main})]
    /\ enter \in [Thread -> Nat] /\ leave \in [Thread -> Nat]

\* The places belong to the calls that the threads are in.
Located ==
    /\ pc[Main] \in {"run", "meet", "broadcast", "done"}
    /\ \A t \in Thread :
           /\ pc[t] \in {"signal", "notify"} => InCall(t, "send")
           /\ pc[t] \in {"blocked", "take", "crash"} => InCall(t, "receive")
           /\ at[Main] <= t => pc[t] = "unborn"

\* Only threads inside a wait are asleep.
Asleep ==
    /\ \A p \in Port : \A t \in asleep[p] : pc[t] = "blocked" /\ InPort(t) = p
    /\ \A b \in Meetings : \A t \in sleepers[b] : pc[t] = "meet" /\ Meeting(t) = b

PortInv(d, s) == Counted(d, s) /\ Wakeful(d, s) /\ Provided(d, s)
Ports == \A d, s \in Thread : PortInv(d, s)
Orders == \A d, s \in Thread : Ordered(d, s)

IInv == Types /\ Located /\ Asleep /\ Ports /\ Orders

-----------------------------------------------------------------------------
(* Lemmas about the data. *)

\* The main thread has a number of its own.
LEMMA MainNoThread == Main \notin Thread
  BY NAssumption DEF Main, Thread

\* The arguments of a call.
LEMMA ArgTypes ==
    ASSUME Types, NEW t \in Thread,
           InCall(t, "send") \/ InCall(t, "receive")
    PROVE  Arg(t).peer \in Thread /\ Arg(t).size \in Nat
<1>1. Calls(t) \in Seq(Call)
  BY ProgramAssumption DEF Types, Calls
<1>2. at[t] \in 1 .. Len(Calls(t))
  BY <1>1 DEF Types, InCall
<1>3. Arg(t) \in Call
  BY <1>1, <1>2 DEF Arg
<1>4. Arg(t).op \in {"send", "receive"}
  BY DEF InCall, Arg
<1>5. Arg(t) \notin [op : {"barrier"}]
  BY <1>4
<1> QED
  BY <1>3, <1>5 DEF Call

\* The calls of the messages in a list.
CallsOf(m) == [i \in 1 .. Len(m) |-> m[i].call]

\* They are numbers of calls.
LEMMA CallsOfType ==
    ASSUME NEW m \in Seq(Message)
    PROVE  CallsOf(m) \in Seq(Nat)
<1>1. \A i \in 1 .. Len(m) : m[i] \in Message
  BY ElementOfSeq
<1>2. \A i \in 1 .. Len(m) : m[i].call \in Nat
  BY <1>1 DEF Message
<1> QED
  BY <1>2 DEF CallsOf

\* The head of one sequence moved to the end of the one before it.
LEMMA HeadOver ==
    ASSUME NEW r \in Seq(Nat), NEW c \in Seq(Nat), c # <<>>
    PROVE  Append(r, Head(c)) \o Tail(c) = r \o c
  OBVIOUS

\* Taking the head of the list and recording it changes nothing in what the
\* port has delivered or will.
LEMMA HeadMoves ==
    ASSUME NEW r \in Seq(Nat), NEW m \in Seq(Message), m # <<>>
    PROVE  Append(r, Head(m).call) \o CallsOf(Tail(m)) = r \o CallsOf(m)
<1>1. CallsOf(m) \in Seq(Nat) /\ CallsOf(m) # <<>>
  <2>1. Len(m) \in Nat \ {0}
    OBVIOUS
  <2>2. CallsOf(m) \in Seq(Nat) /\ Len(CallsOf(m)) = Len(m)
    BY CallsOfType DEF CallsOf
  <2> QED
    BY <2>1, <2>2, EmptySeq
<1>2. CallsOf(Tail(m)) = Tail(CallsOf(m)) /\ Head(CallsOf(m)) = Head(m).call
  BY DEF CallsOf, Message
<1> QED
  BY <1>1, <1>2, HeadOver

\* A message at the end of the list is the last that the port will deliver.
LEMMA SendAdds ==
    ASSUME NEW r \in Seq(Nat), NEW m \in Seq(Message), NEW e \in Message
    PROVE  r \o CallsOf(Append(m, e)) = Append(r \o CallsOf(m), e.call)
<1>1. CallsOf(m) \in Seq(Nat) /\ e.call \in Nat
  BY CallsOfType DEF Message
<1>2. CallsOf(Append(m, e)) = Append(CallsOf(m), e.call)
  BY DEF CallsOf, Message
<1>3. ASSUME NEW c \in Seq(Nat), NEW n \in Nat
      PROVE  r \o Append(c, n) = Append(r \o c, n)
  OBVIOUS
<1> QED
  BY <1>1, <1>2, <1>3

\* A sequence that grows by a number above all others stays increasing.
LEMMA GrowsOrdered ==
    ASSUME NEW q \in Seq(Nat), NEW S, NEW n \in Nat,
           {q[i] : i \in DOMAIN q} = S, S \subseteq 1 .. n - 1,
           \A i, j \in DOMAIN q : i < j => q[i] < q[j],
           NEW r, r = Append(q, n)
    PROVE  /\ {r[i] : i \in DOMAIN r} = S \union {n}
           /\ \A i, j \in DOMAIN r : i < j => r[i] < r[j]
<1>1. Len(q) \in Nat /\ DOMAIN q = 1 .. Len(q) /\ DOMAIN r = 1 .. Len(q) + 1
  OBVIOUS
<1>2. r[Len(q) + 1] = n /\ \A i \in 1 .. Len(q) : r[i] = q[i] /\ q[i] \in 1 .. n - 1
  BY <1>1
<1>3. {r[i] : i \in DOMAIN r} = S \union {n}
  <2>1. DOMAIN r = DOMAIN q \union {Len(q) + 1}
    BY <1>1
  <2> QED
    BY <1>1, <1>2, <2>1
<1>4. ASSUME NEW i \in DOMAIN r, NEW j \in DOMAIN r, i < j
      PROVE  r[i] < r[j]
  <2>1. i \in 1 .. Len(q)
    BY <1>1, <1>4
  <2>2. CASE j = Len(q) + 1
    BY <1>2, <2>1, <2>2
  <2>3. CASE j \in 1 .. Len(q)
    BY <1>1, <1>2, <1>4, <2>1, <2>3
  <2> QED
    BY <1>1, <2>2, <2>3
<1> QED
  BY <1>3, <1>4

\* What is about to come out of the port, as a sequence of calls.
LEMMA DeliveredType ==
    ASSUME Types, NEW p \in Port
    PROVE  Delivered(p) = received[p] \o CallsOf(port[p]) /\ Delivered(p) \in Seq(Nat)
<1>1. received[p] \in Seq(Nat) /\ port[p] \in Seq(Message)
  BY DEF Types
<1>2. CallsOf(port[p]) \in Seq(Nat)
  BY <1>1, CallsOfType
<1> QED
  BY <1>1, <1>2 DEF Delivered, CallsOf

-----------------------------------------------------------------------------
(* What a step leaves alone. *)

\* A thread that takes no step stays in its call.
LEMMA ThreadFrame ==
    ASSUME NEW u \in Thread \union {Main}, program' = program, pc'[u] = pc[u], at'[u] = at[u]
    PROVE  /\ Calls(u)' = Calls(u) /\ Arg(u)' = Arg(u) /\ InPort(u)' = InPort(u)
           /\ \A op : InCall(u, op)' <=> InCall(u, op)
           /\ Meeting(u)' = Meeting(u)
           /\ \A d \in Thread : SentTo(d, u)' = SentTo(d, u)
  BY DEF Arg, Calls, InCall, Meeting, SentTo, InPort

\* Who is where, after a step of t.
LEMMA LocatedFrame ==
    ASSUME Located, NEW t \in Thread \union {Main}, program' = program,
           \A u \in (Thread \union {Main}) \ {t} : pc'[u] = pc[u] /\ at'[u] = at[u],
           pc[t] # "unborn",
           t = Main => at'[t] = at[t] /\ pc'[t] \in {"run", "meet", "broadcast", "done"},
           pc'[t] \in {"signal", "notify"} => InCall(t, "send")',
           pc'[t] \in {"blocked", "take", "crash"} => InCall(t, "receive")'
    PROVE  Located'
<1>1. pc'[Main] \in {"run", "meet", "broadcast", "done"} /\ at'[Main] = at[Main]
  BY DEF Located
<1>2. ASSUME NEW u \in Thread
      PROVE  /\ pc'[u] \in {"signal", "notify"} => InCall(u, "send")'
             /\ pc'[u] \in {"blocked", "take", "crash"} => InCall(u, "receive")'
             /\ at'[Main] <= u => pc'[u] = "unborn"
  <2>1. CASE u = t
    BY <2>1, <1>1 DEF Located
  <2>2. CASE u # t
    BY <2>2, <1>1, ThreadFrame DEF Located
  <2> QED
    BY <2>1, <2>2
<1> QED
  BY <1>1, <1>2 DEF Located

\* Who sleeps, after a step of t.
LEMMA AsleepFrame ==
    ASSUME Asleep, NEW t \in Thread \union {Main}, program' = program, Types,
           \A u \in (Thread \union {Main}) \ {t} : pc'[u] = pc[u] /\ at'[u] = at[u],
           \A p \in Port : \A u \in asleep'[p] :
               (u \in asleep[p] /\ u # t) \/ (u = t /\ pc'[t] = "blocked" /\ InPort(t)' = p),
           \A b \in Meetings : \A u \in sleepers'[b] :
               (u \in sleepers[b] /\ u # t) \/ (u = t /\ pc'[t] = "meet" /\ Meeting(t)' = b)
    PROVE  Asleep'
<1>1. ASSUME NEW p \in Port, NEW u \in asleep'[p]
      PROVE  pc'[u] = "blocked" /\ InPort(u)' = p
  <2>1. CASE u = t
    BY <2>1, <1>1
  <2>2. CASE u # t
    <3>1. u \in asleep[p] /\ u \in Thread /\ pc[u] = "blocked" /\ InPort(u) = p
      BY <2>2, <1>1 DEF Asleep, Types
    <3> QED
      BY <2>2, <3>1, ThreadFrame
  <2> QED
    BY <2>1, <2>2
<1>2. ASSUME NEW b \in Meetings, NEW u \in sleepers'[b]
      PROVE  pc'[u] = "meet" /\ Meeting(u)' = b
  <2>1. CASE u = t
    BY <2>1, <1>2
  <2>2. CASE u # t
    <3>1. u \in sleepers[b] /\ u \in Thread \union {Main} /\ pc[u] = "meet" /\ Meeting(u) = b
      BY <2>2, <1>2 DEF Asleep, Types
    <3> QED
      BY <2>2, <3>1, ThreadFrame
  <2> QED
    BY <2>1, <2>2
<1> QED
  BY <1>1, <1>2 DEF Asleep

\* A port where nothing happens.
LEMMA PortFrame ==
    ASSUME NEW d \in Thread, NEW s \in Thread, PortInv(d, s), program' = program,
           Receiving(d, s)' <=> Receiving(d, s),
           Signalling(d, s)' <=> Signalling(d, s),
           Notifying(d, s)' <=> Notifying(d, s),
           pc'[d] = "crash" => pc[d] = "crash" \/ program.spurious,
           waiting'[<<d, s>>] = waiting[<<d, s>>],
           port'[<<d, s>>] = port[<<d, s>>],
           d \in asleep'[<<d, s>>] <=> d \in asleep[<<d, s>>]
    PROVE  PortInv(d, s)'
<1>1. One(Receiving(d, s))' = One(Receiving(d, s)) /\ One(Signalling(d, s))' = One(Signalling(d, s))
      /\ One(Notifying(d, s))' = One(Notifying(d, s)) /\ One(Taking(d, s))' = One(Taking(d, s))
  BY DEF One, Taking
<1>2. Counted(d, s)'
  BY <1>1 DEF PortInv, Counted
<1>3. Wakeful(d, s)'
  BY <1>1 DEF PortInv, Wakeful
<1>4. Provided(d, s)'
  BY <1>1 DEF PortInv, Provided
<1> QED
  BY <1>2, <1>3, <1>4 DEF PortInv

\* A port whose messages stay the same ones.
LEMMA OrderFrame ==
    ASSUME NEW d \in Thread, NEW s \in Thread, Ordered(d, s),
           \A t \in Thread : pc[t] # "exit",
           SentTo(d, s)' = SentTo(d, s), Delivered(<<d, s>>)' = Delivered(<<d, s>>)
    PROVE  Ordered(d, s)'
  BY DEF Ordered

\* The calls that the threads are in, after a step of t.
LEMMA AtFrame ==
    ASSUME Types, NEW t \in Thread, program' = program,
           \A u \in (Thread \union {Main}) \ {t} : pc'[u] = pc[u] /\ at'[u] = at[u],
           at'[t] \in 1 .. Len(Calls(t)) + 1
    PROVE  /\ \A u \in Thread : at'[u] \in 1 .. Len(Calls(u)') + 1
           /\ at'[Main] \in 0 .. N
<1>1. ASSUME NEW u \in Thread PROVE at'[u] \in 1 .. Len(Calls(u)') + 1
  <2>1. Calls(u)' = Calls(u)
    BY DEF Calls
  <2>2. CASE u = t
    BY <2>1, <2>2
  <2>3. CASE u # t
    BY <2>1, <2>3 DEF Types
  <2> QED
    BY <2>2, <2>3
<1>2. at'[Main] \in 0 .. N
  BY MainNoThread DEF Types
<1> QED
  BY <1>1, <1>2

\* The messages of t are those it has begun to send, whether or not it has returned.
Begun(t) == pc[t] \in {"signal", "notify"}
\* A step of a thread that hands over no message leaves what it sent as it was.
LEMMA SentSame ==
    ASSUME Types, NEW t \in Thread, program' = program,
           \/ at'[t] = at[t] /\ (Begun(t)' <=> Begun(t))
           \/ at'[t] = at[t] + 1 /\ Begun(t) /\ ~Begun(t)'
           \/ at'[t] = at[t] + 1 /\ ~Begun(t) /\ ~Begun(t)' /\ Arg(t).op # "send",
           NEW d \in Thread
    PROVE  SentTo(d, t)' = SentTo(d, t)
<1>1. at[t] \in Nat \ {0} /\ Calls(t)' = Calls(t)
  BY DEF Types, Calls
<1>2. CASE at'[t] = at[t] /\ (Begun(t)' <=> Begun(t))
  BY <1>1, <1>2 DEF SentTo, Begun
<1>3. CASE at'[t] = at[t] + 1 /\ Begun(t) /\ ~Begun(t)'
  BY <1>1, <1>3 DEF SentTo, Begun
<1>4. CASE at'[t] = at[t] + 1 /\ ~Begun(t) /\ ~Begun(t)' /\ Arg(t).op # "send"
  <2>1. SentTo(d, t)' = {i \in 1 .. at[t] : Calls(t)[i].op = "send" /\ Calls(t)[i].peer = d}
    BY <1>1, <1>4 DEF SentTo, Begun
  <2>2. SentTo(d, t) = {i \in 1 .. at[t] - 1 : Calls(t)[i].op = "send" /\ Calls(t)[i].peer = d}
    BY <1>1, <1>4 DEF SentTo, Begun
  <2>3. Calls(t)[at[t]].op # "send"
    BY <1>4 DEF Arg
  <2> QED
    BY <1>1, <2>1, <2>2, <2>3
<1> QED
  BY <1>2, <1>3, <1>4

\* A step of t that neither adds a message to what a port delivers nor drops one.
LEMMA OrdersFrame ==
    ASSUME IInv, ~Ended, NEW t, program' = program,
           \A u \in Thread \ {t} : pc'[u] = pc[u] /\ at'[u] = at[u],
           \A p \in Port : Delivered(p)' = Delivered(p),
           \A d \in Thread : t \in Thread => SentTo(d, t)' = SentTo(d, t)
    PROVE  Orders'
<1> SUFFICES ASSUME NEW d \in Thread, NEW s \in Thread PROVE Ordered(d, s)'
  BY DEF Orders
<1>1. Ordered(d, s)
  BY DEF IInv, Orders
<1>2. \A u \in Thread : pc[u] # "exit"
  BY DEF Ended, IInv, Types
<1>3. SentTo(d, s)' = SentTo(d, s)
  BY ThreadFrame
<1>4. Delivered(<<d, s>>)' = Delivered(<<d, s>>)
  BY DEF Port
<1> QED
  BY <1>1, <1>2, <1>3, <1>4, OrderFrame

\* A port that the step of t does not touch, although t may stop or start to send or
\* to receive elsewhere.
LEMMA OtherPort ==
    ASSUME Ports, NEW t \in Thread, program' = program,
           \A u \in Thread \ {t} : pc'[u] = pc[u] /\ at'[u] = at[u],
           NEW d \in Thread, NEW s \in Thread,
           port'[<<d, s>>] = port[<<d, s>>], waiting'[<<d, s>>] = waiting[<<d, s>>],
           d \in asleep'[<<d, s>>] <=> d \in asleep[<<d, s>>],
           d = t => /\ Receiving(d, s)' <=> Receiving(d, s)
                    /\ pc'[d] = "crash" => program.spurious,
           s = t => /\ Signalling(d, s)' <=> Signalling(d, s)
                    /\ Notifying(d, s)' <=> Notifying(d, s)
    PROVE  PortInv(d, s)'
<1>1. Receiving(d, s)' <=> Receiving(d, s)
  BY ThreadFrame DEF Receiving
<1>2. (Signalling(d, s)' <=> Signalling(d, s)) /\ (Notifying(d, s)' <=> Notifying(d, s))
  BY ThreadFrame DEF Signalling, Notifying
<1>3. PortInv(d, s)
  BY DEF Ports
<1>4. pc'[d] = "crash" => pc[d] = "crash" \/ program.spurious
  OBVIOUS
<1> QED
  BY <1>1, <1>2, <1>3, <1>4, PortFrame

\* A step of t that has nothing to do with ports, when it is in no send and in
\* no receive before and after it.
Elsewhere == {"unborn", "run", "meet", "broadcast", "done"}
\* A step outside the calls that use a mailbox keeps what holds of mailboxes and of the order of messages.
LEMMA QuietStep ==
    ASSUME IInv, ~Ended, NEW t \in Thread \union {Main}, program' = program, UNCHANGED portVars,
           pc[t] \in Elsewhere, pc'[t] \in Elsewhere,
           \A u \in Thread \ {t} : pc'[u] = pc[u] /\ at'[u] = at[u],
           \A d \in Thread : t \in Thread => SentTo(d, t)' = SentTo(d, t)
    PROVE  Ports' /\ Orders'
<1>1. ASSUME NEW d \in Thread, NEW s \in Thread
      PROVE  /\ Receiving(d, s)' <=> Receiving(d, s)
             /\ Signalling(d, s)' <=> Signalling(d, s)
             /\ Notifying(d, s)' <=> Notifying(d, s)
             /\ pc'[d] = "crash" => pc[d] = "crash"
  <2>1. CASE d # t /\ s # t
    BY <2>1, ThreadFrame DEF Receiving, Signalling, Notifying
  <2>2. CASE d = t /\ s # t
    BY <2>2, ThreadFrame DEF Receiving, Signalling, Notifying, Elsewhere
  <2>3. CASE d # t /\ s = t
    BY <2>3, ThreadFrame DEF Receiving, Signalling, Notifying, Elsewhere
  <2>4. CASE d = t /\ s = t
    BY <2>4 DEF Receiving, Signalling, Notifying, Elsewhere
  <2> QED
    BY <2>1, <2>2, <2>3, <2>4
<1>2. Ports'
  <2> SUFFICES ASSUME NEW d \in Thread, NEW s \in Thread PROVE PortInv(d, s)'
    BY DEF Ports
  <2>1. PortInv(d, s)
    BY DEF IInv, Ports
  <2> QED
    BY <2>1, <1>1, PortFrame DEF portVars
<1>3. Orders'
  <2>1. \A p \in Port : Delivered(p)' = Delivered(p)
    BY DEF Delivered, portVars
  <2> QED
    BY <2>1, OrdersFrame
<1> QED
  BY <1>2, <1>3

-----------------------------------------------------------------------------
(* The invariant holds initially. *)

\* Nothing has been started, sent or waited for.
LEMMA InitIInv == Init => IInv
<1> SUFFICES ASSUME Init PROVE IInv
  OBVIOUS
<1> USE MainNoThread
<1>1. Types
  BY NAssumption, ProgramAssumption DEF Init, Types, Places, Calls, Parties, Meetings, Thread, Main
<1>2. Located
  BY NAssumption DEF Init, Located, Thread, Main
<1>3. Asleep
  BY DEF Init, Asleep
<1>4. Ports
  <2> SUFFICES ASSUME NEW d \in Thread, NEW s \in Thread PROVE PortInv(d, s)
    BY DEF Ports
  <2>1. /\ <<d, s>> \in Port /\ pc[d] = "unborn" /\ pc[s] = "unborn" /\ asleep[<<d, s>>] = {}
        /\ waiting[<<d, s>>] = 0 /\ port[<<d, s>>] = <<>>
    BY DEF Init, Port
  <2>2. ~Receiving(d, s) /\ ~Taking(d, s) /\ ~Signalling(d, s) /\ ~Notifying(d, s)
    BY <2>1 DEF Receiving, Taking, Signalling, Notifying
  <2> QED
    BY <2>1, <2>2 DEF PortInv, Counted, Wakeful, Provided, One
<1>5. Orders
  <2> SUFFICES ASSUME NEW d \in Thread, NEW s \in Thread PROVE Ordered(d, s)
    BY DEF Orders
  <2>1. <<d, s>> \in Port
    BY DEF Port
  <2>2. Delivered(<<d, s>>) = <<>>
    <3>1. received[<<d, s>>] = <<>> /\ port[<<d, s>>] = <<>>
      BY <2>1 DEF Init
    <3>2. CallsOf(port[<<d, s>>]) = <<>>
      BY <3>1 DEF CallsOf
    <3>3. Delivered(<<d, s>>) = received[<<d, s>>] \o CallsOf(port[<<d, s>>])
      BY <2>1, <1>1, DeliveredType
    <3> QED
      BY <3>1, <3>2, <3>3
  <2>3. SentTo(d, s) = {}
    BY DEF Init, SentTo
  <2> QED
    BY <2>2, <2>3 DEF Ordered
<1> QED
  BY <1>1, <1>2, <1>3, <1>4, <1>5 DEF IInv

-----------------------------------------------------------------------------
(* Every step keeps it. *)

\* VnusPort::Send, the append: the message goes behind all that were sent.
LEMMA SendAppendKeeps ==
    ASSUME IInv, ~Ended, NEW t \in Thread, SendAppend(t)
    PROVE  IInv'
<1> DEFINE d0 == Arg(t).peer
           e == [call |-> at[t], size |-> Arg(t).size]
<1> USE MainNoThread
<1>1. d0 \in Thread /\ e \in Message /\ <<d0, t>> \in Port /\ Arg(t).op = "send" /\ at[t] \in Nat \ {0}
  BY ArgTypes DEF SendAppend, InCall, Arg, Message, Port, IInv, Types
<1>2. /\ program' = program /\ at' = at /\ waiting' = waiting /\ asleep' = asleep
      /\ received' = received /\ sleepers' = sleepers
      /\ pc[t] = "run" /\ pc'[t] = "signal"
      /\ \A u \in (Thread \union {Main}) \ {t} : pc'[u] = pc[u] /\ at'[u] = at[u]
      /\ port'[<<d0, t>>] = Append(port[<<d0, t>>], e)
      /\ \A p \in Port : p # <<d0, t>> => port'[p] = port[p]
  BY <1>1 DEF SendAppend, Goto, OutPort, IInv, Types, barrierVars
<1>3. Arg(t)' = Arg(t) /\ Calls(t)' = Calls(t) /\ InCall(t, "send")'
  BY <1>2 DEF Arg, Calls, InCall, SendAppend
<1>4. Types'
  <2>1. port' \in [Port -> Seq(Message)]
    BY <1>1 DEF IInv, Types, SendAppend, OutPort
  <2>2. pc' \in [Thread \union {Main} -> Places]
    BY DEF IInv, Types, SendAppend, Goto, Places
  <2> QED
    BY <2>1, <2>2 DEF IInv, Types, SendAppend, barrierVars, Calls
<1>5. Located'
  BY <1>2, <1>3, LocatedFrame DEF IInv
<1>6. Asleep'
  <2>1. \A p \in Port : \A u \in asleep'[p] : u \in asleep[p] /\ u # t
    BY <1>2 DEF IInv, Asleep
  <2>2. \A b \in Meetings : \A u \in sleepers'[b] : u \in sleepers[b] /\ u # t
    BY <1>2 DEF IInv, Asleep
  <2>3. Asleep /\ Types
    BY DEF IInv
  <2> QED
    BY <1>2, <2>1, <2>2, <2>3, AsleepFrame
<1>7. Ports'
  <2> SUFFICES ASSUME NEW d \in Thread, NEW s \in Thread PROVE PortInv(d, s)'
    BY DEF Ports
  <2>1. CASE s = t /\ d = d0
    <3>1. Len(port'[<<d, s>>]) = Len(port[<<d, s>>]) + 1 /\ Len(port[<<d, s>>]) \in Nat
      BY <1>1, <1>2, <2>1 DEF IInv, Types
    <3>2. (Receiving(d, s)' <=> Receiving(d, s)) /\ (Taking(d, s)' <=> Taking(d, s))
      BY <1>2, <2>1, ThreadFrame DEF Receiving, Taking
    <3>3. ~Signalling(d, s) /\ Signalling(d, s)' /\ ~Notifying(d, s) /\ ~Notifying(d, s)'
      BY <1>2, <1>3, <2>1 DEF Signalling, Notifying
    <3>4. PortInv(d, s) /\ pc'[d] # "crash"
      BY <1>2 DEF IInv, Ports, Ended, Types
    <3>5. waiting[<<d, s>>] \in Int
      BY <1>1, <2>1 DEF IInv, Types
    <3> QED
      BY <1>2, <3>1, <3>2, <3>3, <3>4, <3>5 DEF PortInv, Counted, Wakeful, Provided, One
  <2>2. CASE ~(s = t /\ d = d0)
    <3>1. port'[<<d, s>>] = port[<<d, s>>]
      BY <1>1, <1>2, <2>2 DEF Port
    <3>2. d = t => ~Receiving(d, s) /\ ~Receiving(d, s)' /\ pc'[d] # "crash"
      BY <1>2 DEF Receiving
    <3>3. s = t => ~Signalling(d, s) /\ ~Signalling(d, s)' /\ ~Notifying(d, s) /\ ~Notifying(d, s)'
      BY <1>2, <1>3, <2>2 DEF Signalling, Notifying
    <3> QED
      BY <1>2, <3>1, <3>2, <3>3, OtherPort DEF IInv
  <2> QED
    BY <2>1, <2>2
<1>8. Orders'
  <2> SUFFICES ASSUME NEW d \in Thread, NEW s \in Thread PROVE Ordered(d, s)'
    BY DEF Orders
  <2>1. Ordered(d, s) /\ \A u \in Thread : pc[u] # "exit"
    BY DEF IInv, Orders, Ended, Types
  <2>2. CASE s = t /\ d = d0
    <3>1. Delivered(<<d, s>>)' = Append(Delivered(<<d, s>>), at[t]) /\ Delivered(<<d, s>>) \in Seq(Nat)
      <4>1. received[<<d, s>>] \in Seq(Nat) /\ port[<<d, s>>] \in Seq(Message)
        BY <1>1, <2>2 DEF IInv, Types
      <4>2. Delivered(<<d, s>>)' = received[<<d, s>>] \o CallsOf(Append(port[<<d, s>>], e))
        BY <1>2, <2>2 DEF Delivered, CallsOf
      <4>3. e.call = at[t]
        OBVIOUS
      <4>4. Delivered(<<d, s>>) = received[<<d, s>>] \o CallsOf(port[<<d, s>>]) /\ Delivered(<<d, s>>) \in Seq(Nat)
        BY <1>1, <2>2, DeliveredType DEF IInv
      <4>5. received[<<d, s>>] \o CallsOf(Append(port[<<d, s>>], e))
                = Append(received[<<d, s>>] \o CallsOf(port[<<d, s>>]), e.call)
        BY <1>1, <4>1, SendAdds
      <4> QED
        BY <4>2, <4>3, <4>4, <4>5
    <3>2. SentTo(d, s)' = SentTo(d, s) \union {at[t]} /\ SentTo(d, s) \subseteq 1 .. at[t] - 1
      BY <1>1, <1>2, <1>3, <2>2 DEF SentTo, Arg
    <3>3. /\ {Delivered(<<d, s>>)[i] : i \in DOMAIN Delivered(<<d, s>>)} = SentTo(d, s)
          /\ \A i, j \in DOMAIN Delivered(<<d, s>>) :
                 i < j => Delivered(<<d, s>>)[i] < Delivered(<<d, s>>)[j]
      BY <2>1 DEF Ordered
    <3>4. /\ {Delivered(<<d, s>>)'[i] : i \in DOMAIN Delivered(<<d, s>>)'} = SentTo(d, s) \union {at[t]}
          /\ \A i, j \in DOMAIN Delivered(<<d, s>>)' :
                 i < j => Delivered(<<d, s>>)'[i] < Delivered(<<d, s>>)'[j]
      BY <1>1, <3>1, <3>2, <3>3, GrowsOrdered
    <3> QED
      BY <3>2, <3>4 DEF Ordered
  <2>3. CASE ~(s = t /\ d = d0)
    <3>1. Delivered(<<d, s>>)' = Delivered(<<d, s>>)
      BY <1>1, <1>2, <2>3 DEF Delivered, Port
    <3>2. SentTo(d, s)' = SentTo(d, s)
      <4>1. CASE s # t
        BY <1>2, <4>1, ThreadFrame
      <4>2. CASE s = t
        BY <1>1, <1>2, <1>3, <2>3, <4>2 DEF SentTo, Arg
      <4> QED
        BY <4>1, <4>2
    <3> QED
      BY <2>1, <3>1, <3>2, OrderFrame
  <2> QED
    BY <2>2, <2>3
<1> QED
  BY <1>4, <1>5, <1>6, <1>7, <1>8 DEF IInv

\* VnusSemaphore::signal, the counter: with a receiver asleep it goes on to wake it.
LEMMA SemaphoreSignalKeeps ==
    ASSUME IInv, ~Ended, NEW t \in Thread, SemaphoreSignal(t)
    PROVE  IInv'
<1> DEFINE d0 == Arg(t).peer
<1> USE MainNoThread
<1>1. /\ pc[t] = "signal" /\ InCall(t, "send") /\ at[t] \in 1 .. Len(Calls(t)) /\ at[t] \in Nat
      /\ Len(Calls(t)) \in Nat /\ Arg(t).op = "send" /\ program \in Programs
  <2>1. pc[t] = "signal" /\ InCall(t, "send")
    BY DEF SemaphoreSignal, IInv, Located
  <2>2. Calls(t) \in Seq(Call) /\ program \in Programs
    BY ProgramAssumption DEF IInv, Types, Calls
  <2> QED
    BY <2>1, <2>2 DEF InCall, Arg, IInv, Types
<1>2. d0 \in Thread /\ <<d0, t>> \in Port
  BY <1>1, ArgTypes DEF Port, IInv
<1>3. /\ program' = program /\ port' = port /\ asleep' = asleep
      /\ received' = received /\ sleepers' = sleepers
      /\ \A u \in (Thread \union {Main}) \ {t} : pc'[u] = pc[u] /\ at'[u] = at[u]
      /\ waiting'[<<d0, t>>] = waiting[<<d0, t>>] - 1 /\ waiting[<<d0, t>>] \in Int
      /\ \A p \in Port : p # <<d0, t>> => waiting'[p] = waiting[p]
      /\ \/ waiting[<<d0, t>>] >= 1 /\ pc'[t] = "notify" /\ at'[t] = at[t]
         \/ waiting[<<d0, t>>] < 1 /\ pc'[t] = "run" /\ at'[t] = at[t] + 1
  <2>1. /\ waiting' = [waiting EXCEPT ![<<d0, t>>] = @ - 1]
        /\ IF waiting'[<<d0, t>>] >= 0 THEN Goto(t, "notify") /\ UNCHANGED at ELSE Return(t)
        /\ UNCHANGED <<program, port, asleep, received, barrierVars>>
    BY DEF SemaphoreSignal, OutPort
  <2>2. /\ waiting'[<<d0, t>>] = waiting[<<d0, t>>] - 1 /\ waiting[<<d0, t>>] \in Int
        /\ \A p \in Port : p # <<d0, t>> => waiting'[p] = waiting[p]
    BY <1>2, <2>1 DEF IInv, Types
  <2>3. CASE waiting'[<<d0, t>>] >= 0
    BY <2>1, <2>2, <2>3 DEF Goto, IInv, Types, barrierVars
  <2>4. CASE ~(waiting'[<<d0, t>>] >= 0)
    BY <2>1, <2>2, <2>4 DEF Goto, Return, IInv, Types, barrierVars
  <2> QED
    BY <2>3, <2>4
<1>4. Types'
  <2>1. waiting' \in [Port -> Int]
    BY <1>1, <1>2 DEF IInv, Types, SemaphoreSignal, OutPort
  <2>2. pc' \in [Thread \union {Main} -> Places]
    BY DEF IInv, Types, SemaphoreSignal, Goto, Return, Places
  <2>3. at' \in [Thread \union {Main} -> Nat]
    <3>1. at' = at \/ at' = [at EXCEPT ![t] = @ + 1]
      <4>1. UNCHANGED at \/ Return(t)
        BY DEF SemaphoreSignal
      <4> QED
        BY <4>1 DEF Return
    <3>2. at \in [Thread \union {Main} -> Nat]
      BY DEF IInv, Types
    <3> QED
      BY <3>1, <3>2
  <2>4. at'[t] \in 1 .. Len(Calls(t)) + 1
    BY <1>1, <1>3
  <2>5. (\A u \in Thread : at'[u] \in 1 .. Len(Calls(u)') + 1) /\ at'[Main] \in 0 .. N
    BY <1>3, <2>4, AtFrame DEF IInv
  <2> QED
    BY <2>1, <2>2, <2>3, <2>5 DEF IInv, Types, SemaphoreSignal, barrierVars
<1>5. pc'[t] = "notify" => Arg(t)' = Arg(t) /\ InCall(t, "send")'
  BY <1>1, <1>3 DEF Arg, Calls, InCall
<1>6. Located'
  BY <1>1, <1>3, <1>5, LocatedFrame DEF IInv
<1>7. Asleep'
  <2>1. \A p \in Port : \A u \in asleep'[p] : u \in asleep[p] /\ u # t
    BY <1>1, <1>3 DEF IInv, Asleep
  <2>2. \A b \in Meetings : \A u \in sleepers'[b] : u \in sleepers[b] /\ u # t
    BY <1>1, <1>3 DEF IInv, Asleep
  <2> QED
    BY <1>3, <2>1, <2>2, AsleepFrame DEF IInv
<1>8. Ports'
  <2> SUFFICES ASSUME NEW d \in Thread, NEW s \in Thread PROVE PortInv(d, s)'
    BY DEF Ports
  <2>1. CASE s = t /\ d = d0
    <3>1. port[<<d, s>>] \in Seq(Message) /\ Len(port[<<d, s>>]) \in Nat
      BY <1>2, <2>1 DEF IInv, Types
    <3>2. (Receiving(d, s)' <=> Receiving(d, s)) /\ (Taking(d, s)' <=> Taking(d, s))
      BY <1>1, <1>3, <2>1, ThreadFrame DEF Receiving, Taking
    <3>3. Signalling(d, s) /\ ~Signalling(d, s)' /\ ~Notifying(d, s)
      BY <1>1, <1>3, <2>1 DEF Signalling, Notifying
    <3>4. Notifying(d, s)' <=> waiting[<<d, s>>] >= 1
      BY <1>3, <1>5, <2>1 DEF Notifying
    <3>5. PortInv(d, s) /\ pc'[d] # "crash"
      BY <1>3 DEF IInv, Ports, Ended, Types
    <3>6. d \in asleep[<<d, s>>] => Receiving(d, s)
      BY <1>2, <2>1 DEF IInv, Asleep, Receiving, InPort
    <3>7. Taking(d, s) <=> Receiving(d, s) /\ d \notin asleep[<<d, s>>]
      BY DEF Taking
    <3>8. Counted(d, s)'
      <4>1. /\ One(Receiving(d, s))' = One(Receiving(d, s)) /\ One(Receiving(d, s)) \in Nat
            /\ One(Signalling(d, s))' = 0 /\ One(Signalling(d, s)) = 1
        BY <3>2, <3>3 DEF One
      <4>2. waiting'[<<d, s>>] = waiting[<<d, s>>] - 1 /\ port'[<<d, s>>] = port[<<d, s>>]
        BY <1>3, <2>1
      <4> QED
        BY <3>1, <3>5, <4>1, <4>2 DEF PortInv, Counted
    <3>9. Wakeful(d, s)'
      BY <1>3, <2>1, <3>1, <3>3, <3>4, <3>5, <3>6 DEF PortInv, Counted, Wakeful, One
    <3>10. Provided(d, s)'
      <4> SUFFICES ASSUME ~program.spurious PROVE Provided(d, s)'
        BY <1>3 DEF Provided
      <4>1. /\ One(Taking(d, s))' = One(Taking(d, s)) /\ One(Taking(d, s)) \in Nat
            /\ One(Signalling(d, s))' = 0 /\ One(Signalling(d, s)) = 1
            /\ One(Taking(d, s)) + 1 <= Len(port[<<d, s>>])
        BY <3>2, <3>3, <3>5 DEF One, PortInv, Provided
      <4>2. waiting[<<d, s>>] = One(Receiving(d, s)) + 1 - Len(port[<<d, s>>])
        BY <3>5, <4>1 DEF PortInv, Counted
      <4>3. Notifying(d, s)' => d \in asleep[<<d, s>>] /\ Len(port[<<d, s>>]) = 1
        <5>1. /\ One(Receiving(d, s)) \in 0 .. 1 /\ (One(Receiving(d, s)) = 1 => Receiving(d, s))
              /\ One(Taking(d, s)) = 0 => ~Taking(d, s)
          BY DEF One
        <5>2. CASE waiting[<<d, s>>] >= 1
          <6>1. One(Receiving(d, s)) = 1 /\ Len(port[<<d, s>>]) = 1
            <7> DEFINE r == One(Receiving(d, s))
                       l == Len(port[<<d, s>>])
            <7>1. r \in 0 .. 1 /\ l \in Nat /\ l >= 1
              BY <3>1, <4>1, <5>1
            <7>2. r + 1 - l >= 1
              BY <4>2, <5>2
            <7> HIDE DEF r, l
            <7>3. r = 1 /\ l = 1
              BY <7>1, <7>2
            <7> QED
              BY <7>3 DEF r, l
          <6>2. One(Taking(d, s)) = 0
            BY <4>1, <6>1
          <6> QED
            BY <3>7, <5>1, <6>1, <6>2
        <5> QED
          BY <3>4, <5>2
      <4> QED
        BY <1>3, <3>1, <3>5, <4>1, <4>3 DEF Provided
    <3> QED
      BY <3>8, <3>9, <3>10 DEF PortInv
  <2>2. CASE ~(s = t /\ d = d0)
    <3>1. waiting'[<<d, s>>] = waiting[<<d, s>>]
      BY <1>2, <1>3, <2>2 DEF Port
    <3>2. d = t => ~Receiving(d, s) /\ ~Receiving(d, s)' /\ pc'[d] # "crash"
      BY <1>1, <1>3 DEF Receiving
    <3>3. s = t => ~Signalling(d, s) /\ ~Signalling(d, s)' /\ ~Notifying(d, s) /\ ~Notifying(d, s)'
      BY <1>1, <1>3, <1>5, <2>2 DEF Signalling, Notifying
    <3> QED
      BY <1>3, <3>1, <3>2, <3>3, OtherPort DEF IInv
  <2> QED
    BY <2>1, <2>2
<1>9. Orders'
  <2>1. \A p \in Port : Delivered(p)' = Delivered(p)
    BY <1>3 DEF Delivered
  <2>2. \A d \in Thread : SentTo(d, t)' = SentTo(d, t)
    BY <1>1, <1>3, SentSame DEF Begun, IInv
  <2> QED
    BY <1>3, <2>1, <2>2, OrdersFrame
<1> QED
  BY <1>4, <1>6, <1>7, <1>8, <1>9 DEF IInv

\* theSignal.signal: nobody but the receiver of the port sleeps there.
LEMMA SemaphoreNotifyKeeps ==
    ASSUME IInv, ~Ended, NEW t \in Thread, SemaphoreNotify(t)
    PROVE  IInv'
<1> DEFINE d0 == Arg(t).peer
<1> USE MainNoThread
<1>1. /\ pc[t] = "notify" /\ InCall(t, "send") /\ at[t] \in 1 .. Len(Calls(t)) /\ at[t] \in Nat
      /\ Len(Calls(t)) \in Nat /\ Arg(t).op = "send" /\ program \in Programs
  <2>1. pc[t] = "notify" /\ InCall(t, "send")
    BY DEF SemaphoreNotify, IInv, Located
  <2>2. Calls(t) \in Seq(Call) /\ program \in Programs
    BY ProgramAssumption DEF IInv, Types, Calls
  <2> QED
    BY <2>1, <2>2 DEF InCall, Arg, IInv, Types
<1>2. d0 \in Thread /\ <<d0, t>> \in Port
  BY <1>1, ArgTypes DEF Port, IInv
<1>3. /\ program' = program /\ port' = port /\ waiting' = waiting
      /\ received' = received /\ sleepers' = sleepers
      /\ \A u \in (Thread \union {Main}) \ {t} : pc'[u] = pc[u] /\ at'[u] = at[u]
      /\ pc'[t] = "run" /\ at'[t] = at[t] + 1
  BY <1>1, <1>2 DEF SemaphoreNotify, Return, Goto, IInv, Types, barrierVars
<1>4. /\ asleep' \in [Port -> SUBSET Thread]
      /\ \A p \in Port : asleep'[p] \subseteq asleep[p] /\ (p # <<d0, t>> => asleep'[p] = asleep[p])
      /\ d0 \notin asleep'[<<d0, t>>]
  <2>1. asleep[<<d0, t>>] \subseteq {d0}
    BY <1>2 DEF IInv, Asleep, InPort
  <2>2. CASE asleep[<<d0, t>>] = {}
    BY <1>2, <2>2 DEF SemaphoreNotify, OutPort, IInv, Types
  <2>3. CASE asleep[<<d0, t>>] # {}
    <3>1. PICK u \in asleep[<<d0, t>>] : asleep' = [asleep EXCEPT ![<<d0, t>>] = @ \ {u}]
      BY <2>3 DEF SemaphoreNotify, OutPort
    <3>2. u = d0
      BY <2>1, <3>1
    <3> QED
      BY <1>2, <3>1, <3>2 DEF IInv, Types
  <2> QED
    BY <2>2, <2>3
<1>5. Types'
  <2>1. pc' \in [Thread \union {Main} -> Places]
    BY DEF IInv, Types, SemaphoreNotify, Goto, Return, Places
  <2>2. at' \in [Thread \union {Main} -> Nat]
    BY <1>1 DEF IInv, Types, SemaphoreNotify, Return
  <2>3. at'[t] \in 1 .. Len(Calls(t)) + 1
    BY <1>1, <1>3
  <2>4. (\A u \in Thread : at'[u] \in 1 .. Len(Calls(u)') + 1) /\ at'[Main] \in 0 .. N
    BY <1>3, <2>3, AtFrame DEF IInv
  <2> QED
    BY <1>3, <1>4, <2>1, <2>2, <2>4 DEF IInv, Types, SemaphoreNotify, barrierVars
<1>6. Located'
  BY <1>1, <1>3, LocatedFrame DEF IInv
<1>7. Asleep'
  <2>1. \A p \in Port : \A u \in asleep'[p] : u \in asleep[p] /\ u # t
    BY <1>1, <1>4 DEF IInv, Asleep
  <2>2. \A b \in Meetings : \A u \in sleepers'[b] : u \in sleepers[b] /\ u # t
    BY <1>1, <1>3 DEF IInv, Asleep
  <2> QED
    BY <1>3, <2>1, <2>2, AsleepFrame DEF IInv
<1>8. Ports'
  <2> SUFFICES ASSUME NEW d \in Thread, NEW s \in Thread PROVE PortInv(d, s)'
    BY DEF Ports
  <2>1. CASE s = t /\ d = d0
    <3>1. Len(port[<<d, s>>]) \in Nat
      BY <1>2, <2>1 DEF IInv, Types
    <3>2. Receiving(d, s)' <=> Receiving(d, s)
      BY <1>1, <1>3, <2>1, ThreadFrame DEF Receiving
    <3>3. ~Signalling(d, s) /\ ~Signalling(d, s)' /\ Notifying(d, s) /\ ~Notifying(d, s)'
      BY <1>1, <1>3, <2>1 DEF Signalling, Notifying
    <3>4. PortInv(d, s) /\ pc'[d] # "crash"
      BY <1>3 DEF IInv, Ports, Ended, Types
    <3>5. Counted(d, s)'
      BY <1>3, <3>2, <3>3, <3>4 DEF PortInv, Counted, One
    <3>6. Wakeful(d, s)'
      BY <1>4, <2>1 DEF Wakeful
    <3>7. Provided(d, s)'
      <4>1. One(Taking(d, s))' \in {0, 1} /\ One(Signalling(d, s))' = 0
        BY <3>3 DEF One
      <4>2. ~program.spurious => Len(port[<<d, s>>]) = 1
        BY <3>3, <3>4 DEF PortInv, Provided
      <4> QED
        BY <1>3, <3>3, <3>4, <4>1, <4>2 DEF Provided
    <3> QED
      BY <3>5, <3>6, <3>7 DEF PortInv
  <2>2. CASE ~(s = t /\ d = d0)
    <3>1. d \in asleep'[<<d, s>>] <=> d \in asleep[<<d, s>>]
      BY <1>2, <1>4, <2>2 DEF Port
    <3>2. d = t => ~Receiving(d, s) /\ ~Receiving(d, s)' /\ pc'[d] # "crash"
      BY <1>1, <1>3 DEF Receiving
    <3>3. s = t => ~Signalling(d, s) /\ ~Signalling(d, s)' /\ ~Notifying(d, s) /\ ~Notifying(d, s)'
      BY <1>1, <1>3, <2>2 DEF Signalling, Notifying
    <3> QED
      BY <1>3, <3>1, <3>2, <3>3, OtherPort DEF IInv
  <2> QED
    BY <2>1, <2>2
<1>9. Orders'
  <2>1. \A p \in Port : Delivered(p)' = Delivered(p)
    BY <1>3 DEF Delivered
  <2>2. \A d \in Thread : SentTo(d, t)' = SentTo(d, t)
    BY <1>1, <1>3, SentSame DEF Begun, IInv
  <2> QED
    BY <1>3, <2>1, <2>2, OrdersFrame
<1> QED
  BY <1>5, <1>6, <1>7, <1>8, <1>9 DEF IInv

\* VnusSemaphore::wait: it falls asleep only without a message that is signalled.
LEMMA SemaphoreWaitKeeps ==
    ASSUME IInv, ~Ended, NEW t \in Thread, SemaphoreWait(t)
    PROVE  IInv'
<1> DEFINE s0 == Arg(t).peer
<1> USE MainNoThread
<1>1. pc[t] = "run" /\ InCall(t, "receive") /\ s0 \in Thread /\ <<t, s0>> \in Port
  BY ArgTypes DEF SemaphoreWait, Port, IInv
<1>2. /\ program' = program /\ port' = port /\ at' = at
      /\ received' = received /\ sleepers' = sleepers
      /\ \A u \in (Thread \union {Main}) \ {t} : pc'[u] = pc[u] /\ at'[u] = at[u]
      /\ waiting'[<<t, s0>>] = waiting[<<t, s0>>] + 1 /\ waiting[<<t, s0>>] \in Int
      /\ \A p \in Port : p # <<t, s0>> => waiting'[p] = waiting[p] /\ asleep'[p] = asleep[p]
      /\ \/ /\ waiting'[<<t, s0>>] <= 0 /\ pc'[t] = "take" /\ asleep' = asleep
         \/ /\ ~(waiting'[<<t, s0>>] <= 0) /\ pc'[t] = "blocked"
            /\ asleep'[<<t, s0>>] = asleep[<<t, s0>>] \union {t}
            /\ asleep' \in [Port -> SUBSET Thread]
  <2>1. /\ waiting' = [waiting EXCEPT ![<<t, s0>>] = @ + 1]
        /\ IF waiting'[<<t, s0>>] <= 0
           THEN Goto(t, "take") /\ UNCHANGED asleep
           ELSE /\ Goto(t, "blocked")
                /\ asleep' = [asleep EXCEPT ![<<t, s0>>] = @ \union {t}]
        /\ UNCHANGED <<program, at, port, received, barrierVars>>
    BY DEF SemaphoreWait, InPort
  <2>2. /\ waiting'[<<t, s0>>] = waiting[<<t, s0>>] + 1 /\ waiting[<<t, s0>>] \in Int
        /\ \A p \in Port : p # <<t, s0>> => waiting'[p] = waiting[p]
    BY <1>1, <2>1 DEF IInv, Types
  <2>3. CASE waiting'[<<t, s0>>] <= 0
    BY <2>1, <2>2, <2>3 DEF Goto, IInv, Types, barrierVars
  <2>4. CASE ~(waiting'[<<t, s0>>] <= 0)
    <3>1. asleep' = [asleep EXCEPT ![<<t, s0>>] = @ \union {t}]
      BY <2>1, <2>4
    <3>2. /\ asleep'[<<t, s0>>] = asleep[<<t, s0>>] \union {t}
          /\ \A p \in Port : p # <<t, s0>> => asleep'[p] = asleep[p]
          /\ asleep' \in [Port -> SUBSET Thread]
      BY <1>1, <3>1 DEF IInv, Types
    <3> QED
      BY <2>1, <2>2, <2>4, <3>2 DEF Goto, IInv, Types, barrierVars
  <2> QED
    BY <2>3, <2>4
<1>3. Arg(t)' = Arg(t) /\ InPort(t)' = <<t, s0>> /\ InCall(t, "receive")' /\ Arg(t).op = "receive"
  BY <1>1, <1>2 DEF Arg, Calls, InCall, InPort
<1>4. Types'
  <2>1. waiting' \in [Port -> Int]
    BY <1>1 DEF IInv, Types, SemaphoreWait, InPort
  <2>2. pc' \in [Thread \union {Main} -> Places]
    <3>1. \/ pc' = [pc EXCEPT ![t] = "take"]
          \/ pc' = [pc EXCEPT ![t] = "blocked"]
      BY DEF SemaphoreWait, Goto
    <3> QED
      BY <3>1 DEF IInv, Types, Places
  <2>3. asleep' \in [Port -> SUBSET Thread]
    BY <1>2 DEF IInv, Types
  <2> QED
    BY <1>2, <2>1, <2>2, <2>3 DEF IInv, Types, SemaphoreWait, barrierVars, Calls
<1>5. Located'
  BY <1>1, <1>2, <1>3, LocatedFrame DEF IInv
<1>6. \A p \in Port : t \notin asleep[p]
  BY <1>1 DEF IInv, Asleep
<1>7. Asleep'
  <2>1. \A p \in Port : \A u \in asleep'[p] :
            (u \in asleep[p] /\ u # t) \/ (u = t /\ pc'[t] = "blocked" /\ InPort(t)' = p)
    BY <1>2, <1>3, <1>6
  <2>2. \A b \in Meetings : \A u \in sleepers'[b] : u \in sleepers[b] /\ u # t
    BY <1>1, <1>2 DEF IInv, Asleep
  <2>3. Asleep /\ Types
    BY DEF IInv
  <2> QED
    BY <1>2, <2>1, <2>2, <2>3, AsleepFrame
<1>8. Ports'
  <2> SUFFICES ASSUME NEW d \in Thread, NEW s \in Thread PROVE PortInv(d, s)'
    BY DEF Ports
  <2>1. CASE d = t /\ s = s0
    <3>1. port[<<d, s>>] \in Seq(Message) /\ Len(port[<<d, s>>]) \in Nat
      BY <1>1, <2>1 DEF IInv, Types
    <3>2. ~Receiving(d, s) /\ Receiving(d, s)'
      BY <1>1, <1>2, <1>3, <2>1 DEF Receiving
    <3>3. (Signalling(d, s)' <=> Signalling(d, s)) /\ (Notifying(d, s)' <=> Notifying(d, s))
      BY <1>1, <1>2, <2>1, ThreadFrame DEF Signalling, Notifying
    <3>4. PortInv(d, s) /\ pc'[d] # "crash" /\ ~Taking(d, s)
      BY <1>1, <1>2, <2>1, <3>2 DEF IInv, Ports, Taking
    <3>5. /\ One(Receiving(d, s)) = 0 /\ One(Receiving(d, s))' = 1
          /\ One(Signalling(d, s))' = One(Signalling(d, s)) /\ One(Signalling(d, s)) \in 0 .. 1
          /\ One(Notifying(d, s))' = One(Notifying(d, s)) /\ One(Notifying(d, s)) \in 0 .. 1
          /\ One(Taking(d, s)) = 0 /\ One(Taking(d, s))' \in 0 .. 1
          /\ One(Taking(d, s))' = 1 => Taking(d, s)'
      BY <3>2, <3>3, <3>4 DEF One
    <3> DEFINE l == Len(port[<<d, s>>])
               g == One(Signalling(d, s))
               w == waiting[<<d, s>>]
    <3>6. l \in Nat /\ g \in 0 .. 1 /\ w \in Int /\ w = g - l /\ waiting'[<<d, s>>] = w + 1
      BY <1>2, <2>1, <3>1, <3>4, <3>5 DEF PortInv, Counted
    <3>7. Counted(d, s)'
      <4>1. waiting'[<<d, s>>] = One(Receiving(d, s))' + One(Signalling(d, s))' - l
        BY <3>5, <3>6
      <4> QED
        BY <1>2, <4>1 DEF Counted
    <3>8. d \in asleep'[<<d, s>>] <=> w + 1 > 0
      BY <1>2, <1>6, <2>1, <1>1, <3>6
    <3>9. Wakeful(d, s)'
      <4>1. w + 1 > 0 => l <= g
        BY <3>6
      <4>2. w + 1 > 0 => l <= One(Signalling(d, s))' + One(Notifying(d, s))'
        BY <3>5, <3>6, <4>1
      <4> QED
        BY <1>2, <3>8, <4>2 DEF Wakeful
    <3>10. Provided(d, s)'
      <4> SUFFICES ASSUME ~program.spurious PROVE Provided(d, s)'
        BY <1>2 DEF Provided
      <4>1. ~Notifying(d, s)' /\ g <= l
        <5>1. ~Notifying(d, s)
          BY <1>6, <1>1, <2>1, <3>4 DEF PortInv, Provided
        <5>2. g <= l
          BY <3>4, <3>5, <3>6 DEF PortInv, Provided
        <5> QED
          BY <3>3, <5>1, <5>2
      <4>2. One(Taking(d, s))' + One(Signalling(d, s))' <= l
        <5>1. CASE w + 1 > 0
          <6>1. ~Taking(d, s)'
            BY <3>8, <5>1 DEF Taking
          <6> QED
            BY <3>5, <3>6, <4>1, <6>1
        <5>2. CASE ~(w + 1 > 0)
          BY <3>5, <3>6, <5>2
        <5> QED
          BY <5>1, <5>2
      <4> QED
        BY <1>2, <3>4, <4>1, <4>2 DEF Provided
    <3> QED
      BY <3>7, <3>9, <3>10 DEF PortInv
  <2>2. CASE ~(d = t /\ s = s0)
    <3>1. waiting'[<<d, s>>] = waiting[<<d, s>>] /\ asleep'[<<d, s>>] = asleep[<<d, s>>]
      BY <1>1, <1>2, <2>2 DEF Port
    <3>2. d = t => ~Receiving(d, s) /\ ~Receiving(d, s)' /\ pc'[d] # "crash"
      BY <1>1, <1>2, <1>3, <2>2 DEF Receiving
    <3>3. s = t => ~Signalling(d, s) /\ ~Signalling(d, s)' /\ ~Notifying(d, s) /\ ~Notifying(d, s)'
      BY <1>1, <1>2 DEF Signalling, Notifying
    <3> QED
      BY <1>2, <3>1, <3>2, <3>3, OtherPort DEF IInv
  <2> QED
    BY <2>1, <2>2
<1>9. Orders'
  <2>1. \A p \in Port : Delivered(p)' = Delivered(p)
    BY <1>2 DEF Delivered
  <2>2. \A d \in Thread : SentTo(d, t)' = SentTo(d, t)
    BY <1>1, <1>2, SentSame DEF Begun, IInv
  <2> QED
    BY <1>2, <2>1, <2>2, OrdersFrame
<1> QED
  BY <1>4, <1>5, <1>7, <1>8, <1>9 DEF IInv

\* The return of theSignal.wait.
LEMMA SemaphoreWokenKeeps ==
    ASSUME IInv, ~Ended, NEW t \in Thread, SemaphoreWoken(t)
    PROVE  IInv'
<1> USE MainNoThread
<1>1. pc[t] = "blocked" /\ pc'[t] = "take" /\ InCall(t, "receive") /\ t \notin asleep[InPort(t)]
  BY DEF SemaphoreWoken, Goto, IInv, Located, Types
<1>2. /\ program' = program /\ port' = port /\ at' = at /\ waiting' = waiting /\ asleep' = asleep
      /\ received' = received /\ sleepers' = sleepers
      /\ \A u \in (Thread \union {Main}) \ {t} : pc'[u] = pc[u] /\ at'[u] = at[u]
  BY DEF SemaphoreWoken, Goto, IInv, Types, portVars, barrierVars
<1>3. Arg(t)' = Arg(t) /\ InCall(t, "receive")' /\ Arg(t).op = "receive"
  BY <1>1, <1>2 DEF Arg, Calls, InCall
<1>4. Types'
  <2>1. pc' \in [Thread \union {Main} -> Places]
    BY DEF IInv, Types, SemaphoreWoken, Goto, Places
  <2> QED
    BY <1>2, <2>1 DEF IInv, Types, SemaphoreWoken, barrierVars, Calls
<1>5. Located'
  BY <1>1, <1>2, <1>3, LocatedFrame DEF IInv
<1>6. Asleep'
  <2>1. \A p \in Port : \A u \in asleep'[p] : u \in asleep[p] /\ u # t
    BY <1>1, <1>2 DEF IInv, Asleep
  <2>2. \A b \in Meetings : \A u \in sleepers'[b] : u \in sleepers[b] /\ u # t
    BY <1>1, <1>2 DEF IInv, Asleep
  <2>3. Asleep /\ Types
    BY DEF IInv
  <2> QED
    BY <1>2, <2>1, <2>2, <2>3, AsleepFrame
<1>7. Ports'
  <2> SUFFICES ASSUME NEW d \in Thread, NEW s \in Thread PROVE PortInv(d, s)'
    BY DEF Ports
  <2>1. d = t => (Receiving(d, s)' <=> Receiving(d, s)) /\ pc'[d] # "crash"
    BY <1>1, <1>3 DEF Receiving
  <2>2. s = t => ~Signalling(d, s) /\ ~Signalling(d, s)' /\ ~Notifying(d, s) /\ ~Notifying(d, s)'
    BY <1>1 DEF Signalling, Notifying
  <2> QED
    BY <1>2, <2>1, <2>2, OtherPort DEF IInv
<1>8. Orders'
  <2>1. \A p \in Port : Delivered(p)' = Delivered(p)
    BY <1>2 DEF Delivered
  <2>2. \A d \in Thread : SentTo(d, t)' = SentTo(d, t)
    BY <1>1, <1>2, SentSame DEF Begun, IInv
  <2> QED
    BY <1>2, <2>1, <2>2, OrdersFrame
<1> QED
  BY <1>4, <1>5, <1>6, <1>7, <1>8 DEF IInv

\* VnusPort::Recv, the rest: the head of the list, if it has the size expected.
LEMMA TakeKeeps ==
    ASSUME IInv, ~Ended, NEW t \in Thread, Take(t)
    PROVE  IInv'
<1> DEFINE s0 == Arg(t).peer
           p0 == <<t, s0>>
<1> USE MainNoThread
<1>1. /\ pc[t] = "take" /\ InCall(t, "receive") /\ at[t] \in 1 .. Len(Calls(t)) /\ at[t] \in Nat
      /\ Len(Calls(t)) \in Nat /\ Arg(t).op = "receive" /\ program \in Programs
  <2>1. pc[t] = "take" /\ InCall(t, "receive")
    BY DEF Take, IInv, Located
  <2>2. Calls(t) \in Seq(Call) /\ program \in Programs
    BY ProgramAssumption DEF IInv, Types, Calls
  <2> QED
    BY <2>1, <2>2 DEF InCall, Arg, IInv, Types
<1>2. /\ s0 \in Thread /\ p0 \in Port /\ InPort(t) = p0
      /\ port[p0] \in Seq(Message) /\ received[p0] \in Seq(Nat)
  BY <1>1, ArgTypes DEF Port, InPort, IInv, Types
<1>3. /\ program' = program /\ waiting' = waiting /\ asleep' = asleep /\ sleepers' = sleepers
      /\ arrivals' = arrivals /\ enter' = enter /\ leave' = leave
      /\ \A u \in (Thread \union {Main}) \ {t} : pc'[u] = pc[u] /\ at'[u] = at[u]
  BY DEF Take, Goto, Return, IInv, Types, barrierVars
\* The three ways on.
<1>4. \/ /\ port[p0] = <<>> /\ port' = port /\ received' = received
         /\ pc' = [pc EXCEPT ![t] = "crash"] /\ at' = at
      \/ /\ port[p0] # <<>> /\ port' = [port EXCEPT ![p0] = Tail(@)]
         /\ received' = [received EXCEPT ![p0] = Append(@, Head(port[p0]).call)]
         /\ pc' = [pc EXCEPT ![t] = "run"] /\ at' = [at EXCEPT ![t] = @ + 1]
      \/ /\ port[p0] # <<>> /\ port' = [port EXCEPT ![p0] = Tail(@)]
         /\ received' = received
         /\ pc' = [pc EXCEPT ![t] = "exit"] /\ at' = at
  BY <1>2 DEF Take, Goto, Return
<1>5. port[p0] # <<>> => /\ Tail(port[p0]) \in Seq(Message) /\ Head(port[p0]).call \in Nat
                         /\ Len(Tail(port[p0])) = Len(port[p0]) - 1 /\ Len(port[p0]) \in Nat \ {0}
  <2> SUFFICES ASSUME NEW m \in Seq(Message), m # <<>>
               PROVE  /\ Tail(m) \in Seq(Message) /\ Head(m).call \in Nat
                      /\ Len(Tail(m)) = Len(m) - 1 /\ Len(m) \in Nat \ {0}
    BY <1>2
  <2>1. Head(m) \in Message
    OBVIOUS
  <2> QED
    BY <2>1 DEF Message
<1>6. /\ pc \in [Thread \union {Main} -> Places] /\ at \in [Thread \union {Main} -> Nat]
      /\ port \in [Port -> Seq(Message)] /\ received \in [Port -> Seq(Nat)]
  BY DEF IInv, Types
<1>7. Types'
  <2>1. pc' \in [Thread \union {Main} -> Places]
    BY <1>4, <1>6 DEF Places
  <2>2. at' \in [Thread \union {Main} -> Nat]
    BY <1>4, <1>6
  <2>3. at'[t] \in 1 .. Len(Calls(t)) + 1
    BY <1>1, <1>4, <1>6
  <2>4. (\A u \in Thread : at'[u] \in 1 .. Len(Calls(u)') + 1) /\ at'[Main] \in 0 .. N
    BY <1>3, <2>3, AtFrame DEF IInv
  <2>5. port' \in [Port -> Seq(Message)]
    <3>1. CASE port' = port
      BY <1>6, <3>1
    <3>2. CASE port' = [port EXCEPT ![p0] = Tail(@)] /\ port[p0] # <<>>
      BY <1>5, <1>6, <3>2
    <3> QED
      BY <1>4, <3>1, <3>2
  <2>6. received' \in [Port -> Seq(Nat)]
    <3>1. CASE received' = received
      BY <1>6, <3>1
    <3>2. CASE received' # received
      <4>1. /\ received' = [received EXCEPT ![p0] = Append(@, Head(port[p0]).call)]
            /\ Head(port[p0]).call \in Nat
        BY <1>4, <1>5, <3>2
      <4>2. Append(received[p0], Head(port[p0]).call) \in Seq(Nat)
        BY <1>2, <4>1
      <4> QED
        BY <1>6, <4>1, <4>2
    <3> QED
      BY <3>1, <3>2
  <2> QED
    BY <1>3, <2>1, <2>2, <2>4, <2>5, <2>6 DEF IInv, Types
<1>8. pc'[t] \in {"crash", "run", "exit"} /\ (pc'[t] = "crash" <=> port[p0] = <<>>)
  BY <1>4, <1>6
<1>9. pc'[t] = "crash" => Arg(t)' = Arg(t) /\ InCall(t, "receive")'
  <2> SUFFICES ASSUME pc'[t] = "crash" PROVE at' = at
    BY <1>1, <1>3 DEF Arg, Calls, InCall
  <2> QED
    BY <1>4, <1>6
<1>10. Located'
  BY <1>1, <1>3, <1>8, <1>9, LocatedFrame DEF IInv
<1>11. \A p \in Port : t \notin asleep[p]
  BY <1>1 DEF IInv, Asleep
<1>12. Asleep'
  <2>1. \A p \in Port : \A u \in asleep'[p] : u \in asleep[p] /\ u # t
    BY <1>3, <1>11
  <2>2. \A b \in Meetings : \A u \in sleepers'[b] : u \in sleepers[b] /\ u # t
    BY <1>1, <1>3 DEF IInv, Asleep
  <2>3. Asleep /\ Types
    BY DEF IInv
  <2> QED
    BY <1>3, <2>1, <2>2, <2>3, AsleepFrame
<1>13. Ports'
  <2> SUFFICES ASSUME NEW d \in Thread, NEW s \in Thread PROVE PortInv(d, s)'
    BY DEF Ports
  <2>1. CASE d = t /\ s = s0
    <3>1. Receiving(d, s) /\ Taking(d, s) /\ d \notin asleep'[<<d, s>>]
      BY <1>1, <1>2, <1>3, <1>11, <2>1 DEF Receiving, Taking
    <3>2. (Signalling(d, s)' <=> Signalling(d, s)) /\ (Notifying(d, s)' <=> Notifying(d, s))
      BY <1>1, <1>3, <1>8, <2>1, ThreadFrame DEF Signalling, Notifying
    <3>3. PortInv(d, s)
      BY DEF IInv, Ports
    <3>4. /\ One(Receiving(d, s)) = 1 /\ One(Taking(d, s)) = 1
          /\ One(Signalling(d, s))' = One(Signalling(d, s)) /\ One(Signalling(d, s)) \in 0 .. 1
      BY <3>1, <3>2 DEF One
    <3> DEFINE l == Len(port[<<d, s>>])
               g == One(Signalling(d, s))
               w == waiting[<<d, s>>]
    <3>5. l \in Nat /\ g \in 0 .. 1 /\ w = 1 + g - l
      BY <1>2, <2>1, <3>3, <3>4 DEF PortInv, Counted
    <3>6. Wakeful(d, s)'
      BY <3>1 DEF Wakeful
    <3>7. ~program.spurious => 1 + g <= l
      BY <3>3, <3>4 DEF PortInv, Provided
    <3>8. CASE port[p0] = <<>>
      <4>1. port'[<<d, s>>] = port[<<d, s>>] /\ Receiving(d, s)' /\ pc'[t] = "crash"
        BY <1>2, <1>4, <1>6, <1>8, <1>9, <2>1, <3>8 DEF Receiving
      <4>2. One(Receiving(d, s))' = 1
        BY <4>1 DEF One
      <4>3. Counted(d, s)'
        BY <1>3, <3>4, <3>5, <4>1, <4>2 DEF Counted
      <4>4. l = 0
        BY <2>1, <3>8
      <4>5. program.spurious
        BY <3>5, <3>7, <4>4
      <4> QED
        BY <1>3, <3>6, <4>3, <4>5 DEF PortInv, Provided
    <3>9. CASE port[p0] # <<>>
      <4>1. pc'[t] # "crash" /\ ~Receiving(d, s)' /\ ~Taking(d, s)'
        BY <1>8, <2>1, <3>9 DEF Receiving, Taking
      <4>2. port'[<<d, s>>] = Tail(port[<<d, s>>])
        BY <1>2, <1>4, <1>6, <2>1, <3>9
      <4>3. Len(port'[<<d, s>>]) = l - 1
        BY <1>5, <2>1, <3>9, <4>2
      <4>4. One(Receiving(d, s))' = 0 /\ One(Taking(d, s))' = 0
        BY <4>1 DEF One
      <4>5. Counted(d, s)'
        <5>1. waiting'[<<d, s>>] = w
          BY <1>3
        <5>2. w = 0 + g - (l - 1)
          BY <3>5
        <5> QED
          BY <3>4, <4>3, <4>4, <5>1, <5>2 DEF Counted
      <4>6. Provided(d, s)'
        <5> SUFFICES ASSUME ~program.spurious PROVE Provided(d, s)'
          BY <1>3 DEF Provided
        <5>1. ~Notifying(d, s)'
          BY <1>11, <1>2, <2>1, <3>2, <3>3 DEF PortInv, Provided
        <5>2. 0 + g <= l - 1
          BY <3>5, <3>7
        <5> QED
          BY <2>1, <3>4, <4>1, <4>3, <4>4, <5>1, <5>2 DEF Provided
      <4> QED
        BY <3>6, <4>5, <4>6 DEF PortInv
    <3> QED
      BY <3>8, <3>9
  <2>2. CASE ~(d = t /\ s = s0)
    <3>1. port'[<<d, s>>] = port[<<d, s>>]
      BY <1>4, <1>6, <2>2 DEF Port
    <3>2. d = t => ~Receiving(d, s) /\ ~Receiving(d, s)' /\ (pc'[d] = "crash" => program.spurious)
      <4> SUFFICES ASSUME d = t PROVE ~Receiving(d, s) /\ ~Receiving(d, s)' /\ (pc'[d] = "crash" => program.spurious)
        OBVIOUS
      <4>1. ~Receiving(d, s) /\ ~Receiving(d, s)'
        BY <1>1, <1>8, <1>9, <2>2 DEF Receiving
      <4>2. ASSUME pc'[t] = "crash", ~program.spurious PROVE FALSE
        <5>1. PortInv(t, s0) /\ Taking(t, s0)
          BY <1>1, <1>2, <1>11 DEF IInv, Ports, Taking, Receiving
        <5>2. One(Taking(t, s0)) = 1 /\ One(Signalling(t, s0)) \in 0 .. 1
          BY <5>1 DEF One
        <5>3. 1 + One(Signalling(t, s0)) <= Len(port[p0])
          BY <4>2, <5>1, <5>2 DEF PortInv, Provided
        <5>4. Len(port[p0]) = 0
          BY <1>8, <4>2
        <5> QED
          BY <5>2, <5>3, <5>4
      <4> QED
        BY <4>1, <4>2
    <3>3. s = t => ~Signalling(d, s) /\ ~Signalling(d, s)' /\ ~Notifying(d, s) /\ ~Notifying(d, s)'
      BY <1>1, <1>8 DEF Signalling, Notifying
    <3> QED
      BY <1>3, <3>1, <3>2, <3>3, OtherPort DEF IInv
  <2> QED
    BY <2>1, <2>2
<1>14. Orders'
  <2>1. CASE pc'[t] = "exit"
    BY <2>1 DEF Orders, Ordered
  <2>2. CASE pc'[t] # "exit"
    <3>1. \A p \in Port : Delivered(p)' = Delivered(p)
      <4> SUFFICES ASSUME NEW p \in Port PROVE Delivered(p)' = Delivered(p)
        OBVIOUS
      <4>1. CASE port' = port /\ received' = received
        BY <4>1 DEF Delivered
      <4>2. CASE p # p0 /\ ~(port' = port /\ received' = received)
        <5>1. port'[p] = port[p] /\ received'[p] = received[p]
          BY <1>2, <1>4, <1>6, <4>2
        <5> QED
          BY <5>1 DEF Delivered
      <4>3. CASE p = p0 /\ ~(port' = port /\ received' = received)
        <5>1. /\ port[p] # <<>> /\ port'[p] = Tail(port[p])
              /\ received'[p] = Append(received[p], Head(port[p]).call)
          BY <1>2, <1>4, <1>6, <2>2, <4>3
        <5>2. Delivered(p)' = received'[p] \o CallsOf(port'[p])
          BY DEF Delivered, CallsOf
        <5>3. Delivered(p) = received[p] \o CallsOf(port[p])
          BY DEF Delivered, CallsOf
        <5>4. received[p] \in Seq(Nat) /\ port[p] \in Seq(Message)
          BY <1>6
        <5> QED
          BY <5>1, <5>2, <5>3, <5>4, HeadMoves
      <4> QED
        BY <4>1, <4>2, <4>3
    <3>2. \A d \in Thread : SentTo(d, t)' = SentTo(d, t)
      <4>1. \/ at'[t] = at[t]
            \/ at'[t] = at[t] + 1
        BY <1>4, <1>6
      <4> QED
        BY <1>1, <1>3, <1>8, <4>1, SentSame DEF Begun, IInv
    <3> QED
      BY <1>3, <3>1, <3>2, OrdersFrame
  <2> QED
    BY <2>1, <2>2
<1> QED
  BY <1>7, <1>10, <1>12, <1>13, <1>14 DEF IInv

\* VnusThreadBase::start.
LEMMA StartThreadKeeps ==
    ASSUME IInv, ~Ended, NEW t \in Thread, StartThread(t)
    PROVE  IInv'
<1> USE MainNoThread
<1>1. /\ at[Main] = t /\ pc[t] = "unborn" /\ pc'[t] = "run" /\ at'[t] = at[t]
      /\ at'[Main] = t + 1 /\ pc'[Main] = pc[Main]
      /\ program' = program /\ UNCHANGED portVars /\ UNCHANGED barrierVars
      /\ \A u \in Thread \ {t} : pc'[u] = pc[u] /\ at'[u] = at[u]
      /\ t \in 0 .. N - 1
  BY DEF StartThread, Goto, IInv, Types, Located, Thread
<1>2. Types'
  <2>1. pc' \in [Thread \union {Main} -> Places]
    BY DEF IInv, Types, StartThread, Goto, Places
  <2>2. at' \in [Thread \union {Main} -> Nat]
    BY <1>1 DEF IInv, Types, StartThread
  <2>3. \A u \in Thread : at'[u] \in 1 .. Len(Calls(u)') + 1
    BY <1>1 DEF IInv, Types, Calls
  <2>4. at'[Main] \in 0 .. N
    BY <1>1, NAssumption
  <2> QED
    BY <1>1, <2>1, <2>2, <2>3, <2>4 DEF IInv, Types, portVars, barrierVars
<1>3. Located'
  <2>1. pc'[Main] \in {"run", "meet", "broadcast", "done"}
    BY <1>1 DEF IInv, Located
  <2>2. ASSUME NEW u \in Thread
        PROVE  /\ pc'[u] \in {"signal", "notify"} => InCall(u, "send")'
               /\ pc'[u] \in {"blocked", "take", "crash"} => InCall(u, "receive")'
               /\ at'[Main] <= u => pc'[u] = "unborn"
    <3>1. CASE u = t
      BY <1>1, <3>1
    <3>2. CASE u # t
      <4>1. pc'[u] = pc[u] /\ (InCall(u, "send")' <=> InCall(u, "send"))
            /\ (InCall(u, "receive")' <=> InCall(u, "receive"))
        BY <1>1, <3>2, ThreadFrame
      <4>2. t + 1 <= u => t <= u
        BY <1>1 DEF Thread
      <4> QED
        BY <1>1, <4>1, <4>2 DEF IInv, Located
    <3> QED
      BY <3>1, <3>2
  <2> QED
    BY <2>1, <2>2 DEF Located
<1>4. Asleep'
  <2>1. ASSUME NEW p \in Port, NEW u \in asleep'[p]
        PROVE  pc'[u] = "blocked" /\ InPort(u)' = p
    <3>1. u \in Thread /\ pc[u] = "blocked" /\ InPort(u) = p
      BY <1>1, <2>1 DEF IInv, Asleep, Types, portVars
    <3> QED
      BY <1>1, <3>1, ThreadFrame
  <2>2. ASSUME NEW b \in Meetings, NEW u \in sleepers'[b]
        PROVE  pc'[u] = "meet" /\ Meeting(u)' = b
    <3>1. u \in Thread \union {Main} /\ pc[u] = "meet" /\ Meeting(u) = b
      BY <1>1, <2>2 DEF IInv, Asleep, Types, barrierVars
    <3>2. u \in Thread /\ u # t
      BY <1>1, <3>1 DEF StartThread
    <3> QED
      BY <1>1, <3>1, <3>2, ThreadFrame
  <2> QED
    BY <2>1, <2>2 DEF Asleep
<1>5. \A d \in Thread : SentTo(d, t)' = SentTo(d, t)
  BY <1>1, SentSame DEF Begun, IInv
<1>6. Ports' /\ Orders'
  BY <1>1, <1>5, QuietStep DEF Elsewhere
<1> QED
  BY <1>2, <1>3, <1>4, <1>6 DEF IInv

\* The step of a barrier does nothing to the ports, and moves t on by one call at most.
LEMMA MeetingStep ==
    ASSUME IInv, ~Ended, NEW t \in Thread \union {Main}, program' = program, UNCHANGED portVars,
           \A u \in (Thread \union {Main}) \ {t} : pc'[u] = pc[u] /\ at'[u] = at[u],
           pc[t] \in Elsewhere \ {"unborn"}, pc'[t] \in {"run", "meet", "broadcast", "done"},
           t = Main => at'[t] = at[t],
           \/ at'[t] = at[t]
           \/ at'[t] = at[t] + 1 /\ InCall(t, "barrier"),
           pc' \in [Thread \union {Main} -> Places], at' \in [Thread \union {Main} -> Nat],
           arrivals' \in [Meetings -> Nat] /\ \A b \in Meetings : arrivals'[b] <= Parties(b) - 1,
           sleepers' \in [Meetings -> SUBSET (Thread \union {Main})],
           enter' \in [Thread -> Nat], leave' \in [Thread -> Nat],
           \A b \in Meetings : \A u \in sleepers'[b] :
               (u \in sleepers[b] /\ u # t) \/ (u = t /\ pc'[t] = "meet" /\ Meeting(t)' = b)
    PROVE  IInv'
<1> USE MainNoThread
<1>1. t \in Thread => at[t] \in 1 .. Len(Calls(t)) + 1 /\ Len(Calls(t)) \in Nat /\ at[t] \in Nat
  <2>1. t \in Thread => Calls(t) \in Seq(Call)
    BY ProgramAssumption DEF IInv, Types, Calls
  <2> QED
    BY <2>1 DEF IInv, Types
<1>2. Types'
  <2>1. t \in Thread => at'[t] \in 1 .. Len(Calls(t)) + 1
    BY <1>1 DEF InCall
  <2>2. (\A u \in Thread : at'[u] \in 1 .. Len(Calls(u)') + 1) /\ at'[Main] \in 0 .. N
    <3>1. CASE t \in Thread
      BY <2>1, <3>1, AtFrame DEF IInv
    <3>2. CASE t = Main
      BY <3>2, ThreadFrame DEF IInv, Types
    <3> QED
      BY <3>1, <3>2
  <2> QED
    BY <2>2 DEF IInv, Types, portVars
<1>3. Located'
  <2>1. Located /\ pc[t] # "unborn"
    BY DEF IInv, Elsewhere
  <2>2. pc'[t] \notin {"signal", "notify", "blocked", "take", "crash"}
    OBVIOUS
  <2> QED
    BY <2>1, <2>2, LocatedFrame
<1>4. Asleep'
  <2>1. \A p \in Port : \A u \in asleep'[p] : u \in asleep[p] /\ u # t
    BY DEF IInv, Asleep, Elsewhere, portVars
  <2>2. Asleep /\ Types
    BY DEF IInv
  <2> QED
    BY <2>1, <2>2, AsleepFrame
<1>5. \A d \in Thread : t \in Thread => SentTo(d, t)' = SentTo(d, t)
  <2> SUFFICES ASSUME NEW d \in Thread, t \in Thread PROVE SentTo(d, t)' = SentTo(d, t)
    OBVIOUS
  <2>1. ~Begun(t) /\ ~Begun(t)'
    BY DEF Begun, Elsewhere
  <2>2. InCall(t, "barrier") => Arg(t).op # "send"
    BY DEF InCall, Arg
  <2> QED
    BY <2>1, <2>2, SentSame DEF IInv
<1>6. Ports' /\ Orders'
  <2>1. pc[t] \in Elsewhere /\ pc'[t] \in Elsewhere
    BY DEF Elsewhere
  <2> QED
    BY <1>5, <2>1, QuietStep
<1> QED
  BY <1>2, <1>3, <1>4, <1>6 DEF IInv

\* The two barriers; the main thread meets in finalBarrier only.
LEMMA MeetingTypes ==
    /\ \A t : Meeting(t) \in Meetings
    /\ Meeting(Main) = "finalBarrier"
    /\ \A b \in Meetings : Parties(b) \in Nat \ {0}
  BY NAssumption DEF Meeting, Meetings, Parties, InCall

\* VnusBarrier::meet, the arrival.
LEMMA MeetKeeps ==
    ASSUME IInv, ~Ended, NEW t \in Thread \union {Main}, Meet(t)
    PROVE  IInv'
<1> DEFINE b0 == Meeting(t)
<1> USE MainNoThread, MeetingTypes
<1>1. /\ pc[t] = "run" /\ program' = program /\ UNCHANGED portVars /\ at' = at /\ leave' = leave
      /\ \/ pc' = [pc EXCEPT ![t] = "broadcast"] /\ sleepers' = sleepers
            /\ arrivals' = [arrivals EXCEPT ![b0] = 0]
         \/ pc' = [pc EXCEPT ![t] = "meet"] /\ sleepers' = [sleepers EXCEPT ![b0] = @ \union {t}]
            /\ arrivals' = [arrivals EXCEPT ![b0] = @ + 1] /\ arrivals[b0] + 1 # Parties(b0)
      /\ enter' = enter \/ (enter' = [enter EXCEPT ![t] = @ + 1] /\ b0 = "theBarrier")
  <2>1. pc[t] = "run" /\ program' = program /\ UNCHANGED portVars /\ at' = at /\ leave' = leave
    BY DEF Meet
  <2>2. enter' = enter \/ (enter' = [enter EXCEPT ![t] = @ + 1] /\ b0 = "theBarrier")
    BY DEF Meet
  <2>3. IF arrivals[b0] + 1 = Parties(b0)
        THEN /\ arrivals' = [arrivals EXCEPT ![b0] = 0]
             /\ pc' = [pc EXCEPT ![t] = "broadcast"]
             /\ UNCHANGED sleepers
        ELSE /\ arrivals' = [arrivals EXCEPT ![b0] = @ + 1]
             /\ pc' = [pc EXCEPT ![t] = "meet"]
             /\ sleepers' = [sleepers EXCEPT ![b0] = @ \union {t}]
    BY DEF Meet, Goto
  <2> QED
    BY <2>1, <2>2, <2>3
<1>2. /\ pc \in [Thread \union {Main} -> Places] /\ at \in [Thread \union {Main} -> Nat]
      /\ arrivals \in [Meetings -> Nat] /\ \A b \in Meetings : arrivals[b] <= Parties(b) - 1
      /\ sleepers \in [Meetings -> SUBSET (Thread \union {Main})]
      /\ enter \in [Thread -> Nat] /\ leave \in [Thread -> Nat]
  BY DEF IInv, Types
<1>3. /\ pc' \in [Thread \union {Main} -> Places] /\ pc'[t] \in {"broadcast", "meet"}
      /\ \A u \in (Thread \union {Main}) \ {t} : pc'[u] = pc[u] /\ at'[u] = at[u]
      /\ at'[t] = at[t] /\ at' \in [Thread \union {Main} -> Nat]
  BY <1>1, <1>2 DEF Places
<1>4. arrivals' \in [Meetings -> Nat] /\ \A b \in Meetings : arrivals'[b] <= Parties(b) - 1
  <2>1. CASE arrivals' = [arrivals EXCEPT ![b0] = 0]
    BY <1>2, <2>1
  <2>2. CASE arrivals' = [arrivals EXCEPT ![b0] = @ + 1] /\ arrivals[b0] + 1 # Parties(b0)
    BY <1>2, <2>2
  <2> QED
    BY <1>1, <2>1, <2>2
<1>5. enter' \in [Thread -> Nat]
  <2>1. b0 = "theBarrier" => t \in Thread
    OBVIOUS
  <2> QED
    BY <1>1, <1>2, <2>1
<1>6. Meeting(t)' = b0
  BY <1>1 DEF Meeting, InCall, Calls
<1>7. /\ sleepers' \in [Meetings -> SUBSET (Thread \union {Main})]
      /\ \A b \in Meetings : \A u \in sleepers'[b] :
             (u \in sleepers[b] /\ u # t) \/ (u = t /\ pc'[t] = "meet" /\ Meeting(t)' = b)
  <2>1. \A b \in Meetings : t \notin sleepers[b]
    BY <1>1 DEF IInv, Asleep
  <2>2. CASE sleepers' = sleepers
    BY <1>2, <2>1, <2>2
  <2>3. CASE sleepers' = [sleepers EXCEPT ![b0] = @ \union {t}] /\ pc'[t] = "meet"
    BY <1>2, <1>6, <2>1, <2>3
  <2> QED
    BY <1>1, <1>2, <2>2, <2>3
<1> QED
  BY <1>1, <1>2, <1>3, <1>4, <1>5, <1>7, MeetingStep DEF Elsewhere

\* VnusBarrier::meet, the way out.
LEMMA LeaveBarrierStep ==
    ASSUME IInv, NEW t \in Thread \union {Main}, pc[t] \in {"meet", "broadcast"}, LeaveBarrier(t)
    PROVE  /\ pc' \in [Thread \union {Main} -> Places] /\ pc'[t] \in {"run", "done"}
           /\ at' \in [Thread \union {Main} -> Nat] /\ leave' \in [Thread -> Nat]
           /\ \A u \in (Thread \union {Main}) \ {t} : pc'[u] = pc[u] /\ at'[u] = at[u]
           /\ t = Main => at'[t] = at[t]
           /\ \/ at'[t] = at[t]
              \/ at'[t] = at[t] + 1 /\ InCall(t, "barrier")
<1>1. /\ pc \in [Thread \union {Main} -> Places] /\ at \in [Thread \union {Main} -> Nat]
      /\ leave \in [Thread -> Nat]
  BY DEF IInv, Types
<1>2. CASE Meeting(t) = "theBarrier"
  <2>1. t \in Thread /\ InCall(t, "barrier") /\ t # Main
    BY <1>2 DEF Meeting, InCall
  <2>2. /\ leave' = [leave EXCEPT ![t] = @ + 1] /\ pc' = [pc EXCEPT ![t] = "run"]
        /\ at' = [at EXCEPT ![t] = @ + 1]
    BY <1>2 DEF LeaveBarrier, Return, Goto
  <2> QED
    BY <1>1, <2>1, <2>2 DEF Places
<1>3. CASE Meeting(t) # "theBarrier"
  <2>1. leave' = leave /\ at' = at /\ pc' = [pc EXCEPT ![t] = "done"]
    BY <1>3 DEF LeaveBarrier, Goto
  <2> QED
    BY <1>1, <2>1 DEF Places
<1> QED
  BY <1>2, <1>3

\* The last one to arrive and those it wakes leave in the same way.
LEMMA MeetBroadcastKeeps ==
    ASSUME IInv, ~Ended, NEW t \in Thread \union {Main}, MeetBroadcast(t) \/ MeetWoken(t)
    PROVE  IInv'
<1> USE MainNoThread, MeetingTypes
<1>1. /\ pc[t] \in {"meet", "broadcast"} /\ LeaveBarrier(t) /\ program' = program /\ UNCHANGED portVars
      /\ arrivals' = arrivals /\ enter' = enter
      /\ \/ sleepers' = [sleepers EXCEPT ![Meeting(t)] = {}] /\ pc[t] = "broadcast"
         \/ sleepers' = sleepers /\ pc[t] = "meet" /\ t \notin sleepers[Meeting(t)]
  BY DEF MeetBroadcast, MeetWoken
<1>2. /\ arrivals \in [Meetings -> Nat] /\ \A b \in Meetings : arrivals[b] <= Parties(b) - 1
      /\ sleepers \in [Meetings -> SUBSET (Thread \union {Main})]
      /\ enter \in [Thread -> Nat]
  BY DEF IInv, Types
<1>3. /\ sleepers' \in [Meetings -> SUBSET (Thread \union {Main})]
      /\ \A b \in Meetings : \A u \in sleepers'[b] : u \in sleepers[b] /\ u # t
  <2>1. \A b \in Meetings : t \in sleepers[b] => pc[t] = "meet" /\ Meeting(t) = b
    BY DEF IInv, Asleep
  <2>2. \A b \in Meetings : t \notin sleepers[b]
    BY <1>1, <2>1
  <2> QED
    BY <1>1, <1>2, <2>2
<1>4. /\ pc' \in [Thread \union {Main} -> Places] /\ pc'[t] \in {"run", "done"}
      /\ at' \in [Thread \union {Main} -> Nat] /\ leave' \in [Thread -> Nat]
      /\ \A u \in (Thread \union {Main}) \ {t} : pc'[u] = pc[u] /\ at'[u] = at[u]
      /\ t = Main => at'[t] = at[t]
      /\ \/ at'[t] = at[t]
         \/ at'[t] = at[t] + 1 /\ InCall(t, "barrier")
  BY <1>1, LeaveBarrierStep
<1> QED
  BY <1>1, <1>2, <1>3, <1>4, MeetingStep DEF Elsewhere

\* Without a step of a thread or a port the order stays.
LEMMA OrdersRest ==
    ASSUME Orders, program' = program, pc' = pc, at' = at, port' = port, received' = received
    PROVE  Orders'
<1> SUFFICES ASSUME NEW d \in Thread, NEW s \in Thread PROVE Ordered(d, s)'
  BY DEF Orders
<1>1. SentTo(d, s)' = SentTo(d, s)
  BY DEF SentTo, Calls
<1>2. Delivered(<<d, s>>)' = Delivered(<<d, s>>)
  BY DEF Delivered
<1>3. Ordered(d, s)
  BY DEF Orders
<1> QED
  BY <1>1, <1>2, <1>3 DEF Ordered

\* A wait that returns by itself.
LEMMA WakeUpKeeps ==
    ASSUME IInv, ~Ended, NEW t \in Thread \union {Main}, WakeUp(t)
    PROVE  IInv'
<1>1. /\ program.spurious /\ program' = program /\ pc' = pc /\ at' = at /\ port' = port
      /\ waiting' = waiting /\ received' = received /\ arrivals' = arrivals
      /\ enter' = enter /\ leave' = leave
      /\ asleep' \in [Port -> SUBSET Thread] /\ \A p \in Port : asleep'[p] \subseteq asleep[p]
      /\ sleepers' \in [Meetings -> SUBSET (Thread \union {Main})]
      /\ \A b \in Meetings : sleepers'[b] \subseteq sleepers[b]
  BY DEF WakeUp, IInv, Types
<1>2. Types'
  BY <1>1 DEF IInv, Types, Calls
<1>3. Located'
  BY <1>1 DEF IInv, Located, InCall, Calls
<1>4. Asleep'
  BY <1>1 DEF IInv, Asleep, InPort, Arg, Meeting, InCall, Calls
<1>5. Ports'
  <2> SUFFICES ASSUME NEW d \in Thread, NEW s \in Thread PROVE PortInv(d, s)'
    BY DEF Ports
  <2>1. PortInv(d, s) /\ <<d, s>> \in Port
    BY DEF IInv, Ports, Port
  <2>2. (Receiving(d, s)' <=> Receiving(d, s)) /\ (Signalling(d, s)' <=> Signalling(d, s))
        /\ (Notifying(d, s)' <=> Notifying(d, s))
    BY <1>1 DEF Receiving, Signalling, Notifying, Arg, Calls
  <2>3. One(Receiving(d, s))' = One(Receiving(d, s)) /\ One(Signalling(d, s))' = One(Signalling(d, s))
        /\ One(Notifying(d, s))' = One(Notifying(d, s))
    BY <2>2 DEF One
  <2> QED
    BY <1>1, <2>1, <2>3 DEF PortInv, Counted, Wakeful, Provided
<1>6. Orders'
  BY <1>1, OrdersRest DEF IInv
<1> QED
  BY <1>2, <1>3, <1>4, <1>5, <1>6 DEF IInv

\* A step that changes nothing.
LEMMA StutterKeeps == IInv /\ UNCHANGED vars => IInv'
<1> SUFFICES ASSUME IInv, UNCHANGED vars PROVE IInv'
  OBVIOUS
<1>1. /\ program' = program /\ pc' = pc /\ at' = at /\ port' = port /\ asleep' = asleep
      /\ waiting' = waiting /\ received' = received /\ arrivals' = arrivals
      /\ sleepers' = sleepers /\ enter' = enter /\ leave' = leave
  BY DEF vars, portVars, barrierVars
<1>2. Types'
  BY <1>1 DEF IInv, Types, Calls
<1>3. Located'
  BY <1>1 DEF IInv, Located, InCall, Calls
<1>4. Asleep'
  BY <1>1 DEF IInv, Asleep, InPort, Arg, Meeting, InCall, Calls
<1>5. Ports'
  <2> SUFFICES ASSUME NEW d \in Thread, NEW s \in Thread PROVE PortInv(d, s)'
    BY DEF Ports
  <2>1. PortInv(d, s)
    BY DEF IInv, Ports
  <2>2. (Receiving(d, s)' <=> Receiving(d, s)) /\ (Signalling(d, s)' <=> Signalling(d, s))
        /\ (Notifying(d, s)' <=> Notifying(d, s))
    BY <1>1 DEF Receiving, Signalling, Notifying, Arg, Calls
  <2> QED
    BY <1>1, <2>1, <2>2, PortFrame
<1>6. Orders'
  BY <1>1, OrdersRest DEF IInv
<1> QED
  BY <1>2, <1>3, <1>4, <1>5, <1>6 DEF IInv

\* The main thread only starts the others and meets them.
LEMMA MainStep ==
    ASSUME IInv, ThreadStep(Main)
    PROVE  Meet(Main) \/ MeetBroadcast(Main) \/ MeetWoken(Main)
<1>1. pc[Main] \in {"run", "meet", "broadcast", "done"} /\ \A op : ~InCall(Main, op)
  BY DEF IInv, Located, InCall
<1> QED
  BY <1>1 DEF ThreadStep, SendAppend, SemaphoreSignal, SemaphoreNotify, SemaphoreWait,
              SemaphoreWoken, Take

\* Every step of the threads, with the end of the program.
LEMMA NextIInv == IInv /\ [Next]_vars => IInv'
<1> SUFFICES ASSUME IInv, [Next]_vars PROVE IInv'
  OBVIOUS
<1>1. CASE UNCHANGED vars
  BY <1>1, StutterKeeps
<1>2. ASSUME ~Ended, NEW t \in Thread, StartThread(t)
      PROVE  IInv'
  BY <1>2, StartThreadKeeps
<1>3. ASSUME ~Ended, NEW t \in Thread \union {Main}, ThreadStep(t)
      PROVE  IInv'
  <2>1. CASE Meet(t)
    BY <1>3, <2>1, MeetKeeps
  <2>2. CASE MeetBroadcast(t) \/ MeetWoken(t)
    BY <1>3, <2>2, MeetBroadcastKeeps
  <2>3. CASE t = Main
    BY <1>3, <2>1, <2>2, <2>3, MainStep
  <2>4. CASE t \in Thread
    <3>1. CASE SendAppend(t)
      BY <1>3, <2>4, <3>1, SendAppendKeeps
    <3>2. CASE SemaphoreSignal(t)
      BY <1>3, <2>4, <3>2, SemaphoreSignalKeeps
    <3>3. CASE SemaphoreNotify(t)
      BY <1>3, <2>4, <3>3, SemaphoreNotifyKeeps
    <3>4. CASE SemaphoreWait(t)
      BY <1>3, <2>4, <3>4, SemaphoreWaitKeeps
    <3>5. CASE SemaphoreWoken(t)
      BY <1>3, <2>4, <3>5, SemaphoreWokenKeeps
    <3>6. CASE Take(t)
      BY <1>3, <2>4, <3>6, TakeKeeps
    <3> QED
      BY <1>3, <2>1, <2>2, <3>1, <3>2, <3>3, <3>4, <3>5, <3>6 DEF ThreadStep
  <2> QED
    BY <2>3, <2>4
<1>4. ASSUME ~Ended, NEW t \in Thread \union {Main}, WakeUp(t)
      PROVE  IInv'
  BY <1>4, WakeUpKeeps
<1> QED
  BY <1>1, <1>2, <1>3, <1>4 DEF Next

-----------------------------------------------------------------------------
(* What the invariant gives. *)

\* The counter of a semaphore follows from who waits and what is signalled.
LEMMA IInvTypeOK == IInv => TypeOK
<1> SUFFICES ASSUME IInv PROVE TypeOK
  OBVIOUS
<1>1. ASSUME NEW p \in Port
      PROVE  waiting[p] \in Int /\ (waiting[p] <= 1 \/ program.spurious)
  <2> PICK d \in Thread, s \in Thread : p = <<d, s>>
    BY DEF Port
  <2>1. PortInv(d, s) /\ port[p] \in Seq(Message) /\ Len(port[p]) \in Nat /\ waiting[p] \in Int
    BY DEF IInv, Ports, Types
  <2>2. /\ One(Receiving(d, s)) \in 0 .. 1 /\ One(Signalling(d, s)) \in 0 .. 1
        /\ One(Taking(d, s)) \in 0 .. 1
    BY DEF One
  <2>3. waiting[p] = One(Receiving(d, s)) + One(Signalling(d, s)) - Len(port[p])
    BY <2>1 DEF PortInv, Counted
  <2>4. ~program.spurious => One(Taking(d, s)) + One(Signalling(d, s)) <= Len(port[p])
    BY <2>1 DEF PortInv, Provided
  <2> DEFINE r == One(Receiving(d, s))
             g == One(Signalling(d, s))
             k == One(Taking(d, s))
             l == Len(port[p])
  <2>5. r \in 0 .. 1 /\ g \in 0 .. 1 /\ k \in 0 .. 1 /\ l \in Nat /\ waiting[p] = r + g - l
        /\ (~program.spurious => k + g <= l)
    BY <2>1, <2>2, <2>3, <2>4
  <2> HIDE DEF r, g, k, l
  <2> QED
    BY <2>1, <2>5
<1>2. \A p \in Port : \A t \in asleep[p] : pc[t] = "blocked" /\ InPort(t) = p
  BY DEF IInv, Asleep
<1>3. ASSUME NEW b \in Meetings
      PROVE  /\ arrivals[b] \in 0 .. Parties(b) - 1
             /\ \A t \in sleepers[b] : pc[t] = "meet" /\ Meeting(t) = b
  BY MeetingTypes DEF IInv, Types, Asleep
<1> QED
  BY <1>1, <1>2, <1>3 DEF IInv, Types, TypeOK

\* A message beside a sleeper belongs to a sender that has not yet woken it.
LEMMA IInvNoLostWakeup == IInv => NoLostWakeup
<1> SUFFICES ASSUME IInv, NEW d \in Thread, NEW s \in Thread,
                    d \in asleep[<<d, s>>], port[<<d, s>>] # <<>>
             PROVE  pc[s] \in {"signal", "notify"} /\ OutPort(s) = <<d, s>>
  BY DEF NoLostWakeup
<1>1. <<d, s>> \in Port /\ port[<<d, s>>] \in Seq(Message) /\ PortInv(d, s)
  BY DEF Port, IInv, Types, Ports
<1>2. Len(port[<<d, s>>]) \in Nat \ {0}
  BY <1>1
<1>3. Len(port[<<d, s>>]) <= One(Signalling(d, s)) + One(Notifying(d, s))
  BY <1>1 DEF PortInv, Wakeful
<1>4. Signalling(d, s) \/ Notifying(d, s)
  BY <1>2, <1>3 DEF One
<1> QED
  BY <1>4 DEF Signalling, Notifying, OutPort

\* Order, and a message behind each wait, are parts of the invariant.
LEMMA IInvInOrder == IInv => InOrder
  BY DEF IInv, InOrder, MessageBehindWait, Orders, Ordered, Ports, PortInv, Provided

\* The invariant holds in every reachable state.
LEMMA IInvAlways == Spec => []IInv
<1>1. Init => IInv
  BY InitIInv
<1>2. IInv /\ [Next]_vars => IInv'
  BY NextIInv
<1> QED
  BY <1>1, <1>2, PTL DEF Spec

-----------------------------------------------------------------------------
\* The types, and the limits of the counters: no barrier counts up to its maximum,
\* and, as long as the waits return only when signalled, no semaphore counts more
\* than one thread that waits.
THEOREM TypeCorrect == Spec => []TypeOK
<1>1. IInv => TypeOK
  BY IInvTypeOK
<1> QED
  BY <1>1, IInvAlways, PTL

\* No thread sleeps in haveSome beside a message of its port, unless the sender is
\* about to wake it: VnusSemaphore::signal, whose wake-up comes after the unlock,
\* loses none.
THEOREM NoLostWakeupAlways == Spec => []NoLostWakeup
<1>1. IInv => NoLostWakeup
  BY IInvNoLostWakeup
<1> QED
  BY <1>1, IInvAlways, PTL

\* Recv returns what Send was given, in order and once, and finds a message whenever
\* haveSome.wait lets it through.
THEOREM InOrderAlways == Spec => []InOrder
<1>1. IInv => InOrder
  BY IInvInOrder
<1> QED
  BY <1>1, IInvAlways, PTL

-----------------------------------------------------------------------------
(***************************************************************************)
(* Where a thread is in theBarrier.  In round k a thread that has not yet  *)
(* arrived has left k barriers; one that was woken has still to leave its  *)
(* k-th.                                                                   *)
(***************************************************************************)
Inside(t) == pc[t] \in {"meet", "broadcast"} /\ Meeting(t) = "theBarrier"
Last(t) == pc[t] = "broadcast" /\ Meeting(t) = "theBarrier"
Sleepers == sleepers["theBarrier"]

Round(k) ==
    \A t \in Thread :
        /\ t \in Sleepers \/ Last(t) => enter[t] = k + 1 /\ leave[t] = k
        /\ Inside(t) /\ t \notin Sleepers /\ ~Last(t) => enter[t] = k /\ leave[t] = k - 1
        /\ ~Inside(t) => enter[t] = k /\ leave[t] = k

\* The counter counts the sleepers, until the last thread arrives: then all others
\* sleep, and none of them has stayed behind from the round before.
Arrived ==
    /\ (\A t \in Thread : ~Last(t)) => arrivals["theBarrier"] = Cardinality(Sleepers)
    /\ \A t \in Thread : Last(t) => Sleepers = Thread \ {t} /\ arrivals["theBarrier"] = 0

MeetInv == ~program.spurious => Arrived /\ \E k \in Nat : Round(k)

-----------------------------------------------------------------------------
\* The threads are N.
LEMMA ThreadsFinite == IsFiniteSet(Thread) /\ Cardinality(Thread) = N
<1>1. N - 1 \in Int /\ 0 \in Int
  BY NAssumption
<1>2. IsFiniteSet(0 .. N - 1) /\ Cardinality(0 .. N - 1) = IF 0 > N - 1 THEN 0 ELSE N - 1 - 0 + 1
  BY <1>1, FS_Interval
<1> QED
  BY <1>2, NAssumption DEF Thread

\* Those asleep in theBarrier are threads inside it.
LEMMA SleepersInside ==
    ASSUME IInv
    PROVE  /\ Sleepers \subseteq Thread /\ IsFiniteSet(Sleepers)
           /\ \A t \in Sleepers : pc[t] = "meet" /\ Meeting(t) = "theBarrier"
<1>1. \A t \in Sleepers : pc[t] = "meet" /\ Meeting(t) = "theBarrier"
  BY DEF IInv, Asleep, Sleepers, Meetings
<1>2. Sleepers \subseteq Thread \union {Main}
  BY DEF IInv, Types, Sleepers, Meetings
<1>3. Sleepers \subseteq Thread
  BY <1>1, <1>2, MeetingTypes
<1> QED
  BY <1>1, <1>3, ThreadsFinite, FS_Subset

\* A step outside theBarrier.
LEMMA OutsideKeeps ==
    ASSUME MeetInv, program' = program, enter' = enter, leave' = leave,
           arrivals'["theBarrier"] = arrivals["theBarrier"], Sleepers' = Sleepers,
           \A u \in Thread : \/ pc'[u] = pc[u] /\ at'[u] = at[u]
                             \/ ~Inside(u) /\ ~Inside(u)'
    PROVE  MeetInv'
<1>1. \A u \in Thread : (Inside(u)' <=> Inside(u)) /\ (Last(u)' <=> Last(u))
  <2> SUFFICES ASSUME NEW u \in Thread PROVE (Inside(u)' <=> Inside(u)) /\ (Last(u)' <=> Last(u))
    OBVIOUS
  <2>1. CASE pc'[u] = pc[u] /\ at'[u] = at[u]
    <3>1. Meeting(u)' = Meeting(u)
      BY <2>1, ThreadFrame
    <3> QED
      BY <2>1, <3>1 DEF Inside, Last
  <2>2. CASE ~Inside(u) /\ ~Inside(u)'
    BY <2>2 DEF Inside, Last
  <2> QED
    BY <2>1, <2>2
<1> SUFFICES ASSUME ~program.spurious PROVE Arrived' /\ \E k \in Nat : Round(k)'
  BY DEF MeetInv
<1>2. PICK k \in Nat : Round(k)
  BY DEF MeetInv
<1>3. Round(k)'
  BY <1>1, <1>2 DEF Round
<1>4. Arrived'
  BY <1>1 DEF MeetInv, Arrived
<1> QED
  BY <1>3, <1>4

\* While the last one is about to wake the others, nobody else arrives or leaves.
LEMMA LastAlone ==
    ASSUME IInv, Arrived, NEW t \in Thread, NEW u \in Thread, Last(u), t \notin Sleepers
    PROVE  t = u
  BY DEF Arrived

-----------------------------------------------------------------------------
(* Every step keeps it. *)

\* The arrival of a thread in theBarrier, the last or not.
LEMMA ArrivalKeeps ==
    ASSUME IInv, Arrived, NEW k \in Nat, Round(k), NEW t \in Thread,
           Meet(t), Meeting(t) = "theBarrier"
    PROVE  Arrived' /\ Round(k)'
<1> DEFINE b == "theBarrier"
<1> USE MainNoThread, MeetingTypes
<1>1. /\ pc[t] = "run" /\ program' = program /\ at' = at /\ leave' = leave
      /\ enter' = [enter EXCEPT ![t] = @ + 1]
      /\ IF arrivals[b] + 1 = N
         THEN /\ arrivals' = [arrivals EXCEPT ![b] = 0]
              /\ pc' = [pc EXCEPT ![t] = "broadcast"]
              /\ sleepers' = sleepers
         ELSE /\ arrivals' = [arrivals EXCEPT ![b] = @ + 1]
              /\ pc' = [pc EXCEPT ![t] = "meet"]
              /\ sleepers' = [sleepers EXCEPT ![b] = @ \union {t}]
  BY DEF Meet, Goto, Parties
<1>2. /\ pc \in [Thread \union {Main} -> Places] /\ b \in Meetings
      /\ arrivals \in [Meetings -> Nat] /\ sleepers \in [Meetings -> SUBSET (Thread \union {Main})]
      /\ enter \in [Thread -> Nat]
  BY DEF IInv, Types, Meetings
<1>3. \A u \in Thread : Meeting(u)' = Meeting(u)
  BY <1>1 DEF Meeting, InCall, Calls
<1>4. t \notin Sleepers /\ ~Last(t) /\ ~Inside(t)
  BY <1>1, SleepersInside DEF Last, Inside
<1>5. \A u \in Thread : ~Last(u)
  BY <1>4, LastAlone
<1>6. arrivals[b] = Cardinality(Sleepers)
  BY <1>5 DEF Arrived
<1>7. /\ enter'[t] = k + 1 /\ leave'[t] = k
      /\ \A u \in Thread \ {t} : enter'[u] = enter[u] /\ leave'[u] = leave[u] /\ pc'[u] = pc[u]
  BY <1>1, <1>2, <1>4 DEF Round
<1>8. CASE arrivals[b] + 1 = N
  <2>1. Sleepers' = Sleepers /\ arrivals'[b] = 0 /\ pc'[t] = "broadcast" /\ Last(t)'
    BY <1>1, <1>2, <1>3, <1>8 DEF Sleepers, Last
  <2>2. Sleepers = Thread \ {t}
    <3>1. Sleepers \union {t} \subseteq Thread
      BY SleepersInside
    <3>2. Cardinality(Sleepers \union {t}) = N
      <4>1. Cardinality(Sleepers \union {t}) = Cardinality(Sleepers) + 1
        BY <1>4, SleepersInside, FS_AddElement
      <4> QED
        BY <1>6, <1>8, <4>1
    <3>3. Sleepers \union {t} = Thread
      BY <3>1, <3>2, ThreadsFinite, FS_Subset
    <3> QED
      BY <1>4, <3>3
  <2>3. \A u \in Thread \ {t} : ~Last(u)'
    BY <1>3, <1>5, <1>7 DEF Last
  <2>4. \A u \in Thread \ {t} : Inside(u)' <=> Inside(u)
    BY <1>3, <1>7 DEF Inside
  <2>5. Arrived'
    BY <2>1, <2>2, <2>3 DEF Arrived
  <2>6. Round(k)'
    <3> SUFFICES ASSUME NEW u \in Thread
                 PROVE  /\ u \in Sleepers' \/ Last(u)' => enter'[u] = k + 1 /\ leave'[u] = k
                        /\ Inside(u)' /\ u \notin Sleepers' /\ ~Last(u)'
                               => enter'[u] = k /\ leave'[u] = k - 1
                        /\ ~Inside(u)' => enter'[u] = k /\ leave'[u] = k
      BY DEF Round
    <3>1. CASE u = t
      BY <1>7, <2>1, <3>1 DEF Inside, Last
    <3>2. CASE u # t
      BY <1>5, <1>7, <2>1, <2>3, <2>4, <3>2 DEF Round
    <3> QED
      BY <3>1, <3>2
  <2> QED
    BY <2>5, <2>6
<1>9. CASE arrivals[b] + 1 # N
  <2>1. /\ Sleepers' = Sleepers \union {t} /\ arrivals'[b] = arrivals[b] + 1
        /\ pc'[t] = "meet" /\ Inside(t)' /\ ~Last(t)'
    BY <1>1, <1>2, <1>3, <1>9 DEF Sleepers, Last, Inside
  <2>2. \A u \in Thread \ {t} : ~Last(u)' /\ (Inside(u)' <=> Inside(u))
    BY <1>3, <1>5, <1>7 DEF Last, Inside
  <2>3. Cardinality(Sleepers \union {t}) = Cardinality(Sleepers) + 1
    BY <1>4, SleepersInside, FS_AddElement
  <2>4. Arrived'
    BY <1>6, <2>1, <2>2, <2>3 DEF Arrived
  <2>5. Round(k)'
    <3> SUFFICES ASSUME NEW u \in Thread
                 PROVE  /\ u \in Sleepers' \/ Last(u)' => enter'[u] = k + 1 /\ leave'[u] = k
                        /\ Inside(u)' /\ u \notin Sleepers' /\ ~Last(u)'
                               => enter'[u] = k /\ leave'[u] = k - 1
                        /\ ~Inside(u)' => enter'[u] = k /\ leave'[u] = k
      BY DEF Round
    <3>1. CASE u = t
      BY <1>7, <2>1, <3>1
    <3>2. CASE u # t
      BY <1>5, <1>7, <2>1, <2>2, <3>2 DEF Round
    <3> QED
      BY <3>1, <3>2
  <2> QED
    BY <2>4, <2>5
<1> QED
  BY <1>8, <1>9

\* The last one wakes the others: the next round begins.
LEMMA BroadcastKeeps ==
    ASSUME IInv, Arrived, NEW k \in Nat, Round(k), NEW t \in Thread,
           MeetBroadcast(t), Meeting(t) = "theBarrier"
    PROVE  Arrived' /\ Round(k + 1)'
<1> DEFINE b == "theBarrier"
<1>1. /\ pc[t] = "broadcast" /\ program' = program /\ arrivals' = arrivals /\ enter' = enter
      /\ sleepers' = [sleepers EXCEPT ![b] = {}] /\ leave' = [leave EXCEPT ![t] = @ + 1]
      /\ pc' = [pc EXCEPT ![t] = "run"] /\ at' = [at EXCEPT ![t] = @ + 1]
  BY DEF MeetBroadcast, LeaveBarrier, Return, Goto
<1>2. /\ pc \in [Thread \union {Main} -> Places] /\ at \in [Thread \union {Main} -> Nat]
      /\ b \in Meetings /\ sleepers \in [Meetings -> SUBSET (Thread \union {Main})]
      /\ leave \in [Thread -> Nat]
  BY DEF IInv, Types, Meetings
<1>3. Last(t) /\ Sleepers = Thread \ {t} /\ arrivals[b] = 0
  BY <1>1 DEF Last, Arrived
<1>4. /\ pc'[t] = "run" /\ leave'[t] = k + 1 /\ enter'[t] = k + 1
      /\ \A u \in Thread \ {t} : pc'[u] = pc[u] /\ at'[u] = at[u] /\ enter'[u] = k + 1 /\ leave'[u] = k
  BY <1>1, <1>2, <1>3 DEF Round
<1>5. Sleepers' = {} /\ arrivals'[b] = 0
  BY <1>1, <1>2, <1>3 DEF Sleepers
<1>6. \A u \in Thread \ {t} : pc'[u] = "meet" /\ Meeting(u)' = b
  <2> SUFFICES ASSUME NEW u \in Thread \ {t} PROVE pc'[u] = "meet" /\ Meeting(u)' = b
    OBVIOUS
  <2>1. pc[u] = "meet" /\ Meeting(u) = b
    BY <1>3, SleepersInside
  <2> QED
    BY <1>1, <1>4, <2>1, ThreadFrame
<1>7. /\ ~Inside(t)' /\ ~Last(t)'
      /\ \A u \in Thread \ {t} : Inside(u)' /\ ~Last(u)'
  BY <1>4, <1>6 DEF Inside, Last
<1>8. Arrived'
  BY <1>5, <1>7, FS_EmptySet DEF Arrived
<1>9. Round(k + 1)'
  <2> SUFFICES ASSUME NEW u \in Thread
               PROVE  /\ u \in Sleepers' \/ Last(u)' => enter'[u] = k + 2 /\ leave'[u] = k + 1
                      /\ Inside(u)' /\ u \notin Sleepers' /\ ~Last(u)'
                             => enter'[u] = k + 1 /\ leave'[u] = k
                      /\ ~Inside(u)' => enter'[u] = k + 1 /\ leave'[u] = k + 1
    BY DEF Round
  <2>1. CASE u = t
    BY <1>4, <1>5, <1>7, <2>1
  <2>2. CASE u # t
    BY <1>4, <1>5, <1>7, <2>2
  <2> QED
    BY <2>1, <2>2
<1> QED
  BY <1>8, <1>9

\* A thread that was woken leaves, however late.
LEMMA WokenKeeps ==
    ASSUME IInv, Arrived, NEW k \in Nat, Round(k), NEW t \in Thread,
           MeetWoken(t), Meeting(t) = "theBarrier"
    PROVE  Arrived' /\ Round(k)'
<1> DEFINE b == "theBarrier"
<1>1. /\ pc[t] = "meet" /\ program' = program /\ arrivals' = arrivals /\ enter' = enter
      /\ sleepers' = sleepers /\ leave' = [leave EXCEPT ![t] = @ + 1] /\ t \notin Sleepers
      /\ pc' = [pc EXCEPT ![t] = "run"] /\ at' = [at EXCEPT ![t] = @ + 1]
  BY DEF MeetWoken, LeaveBarrier, Return, Goto, Sleepers
<1>2. /\ pc \in [Thread \union {Main} -> Places] /\ at \in [Thread \union {Main} -> Nat]
      /\ leave \in [Thread -> Nat]
  BY DEF IInv, Types
<1>3. Inside(t) /\ ~Last(t) /\ \A u \in Thread : ~Last(u)
  BY <1>1, LastAlone DEF Inside, Last
<1>4. /\ pc'[t] = "run" /\ leave'[t] = k /\ enter'[t] = k
      /\ \A u \in Thread \ {t} : /\ pc'[u] = pc[u] /\ at'[u] = at[u]
                                 /\ enter'[u] = enter[u] /\ leave'[u] = leave[u]
  <2>1. enter[t] = k /\ leave[t] = k - 1
    BY <1>1, <1>3 DEF Round
  <2> QED
    BY <1>1, <1>2, <2>1
<1>5. Sleepers' = Sleepers /\ arrivals'[b] = arrivals[b]
  BY <1>1 DEF Sleepers
<1>6. ~Inside(t)' /\ ~Last(t)'
  BY <1>4 DEF Inside, Last
<1>7. \A u \in Thread \ {t} : (Inside(u)' <=> Inside(u)) /\ ~Last(u)'
  <2> SUFFICES ASSUME NEW u \in Thread \ {t} PROVE (Inside(u)' <=> Inside(u)) /\ ~Last(u)'
    OBVIOUS
  <2>1. Meeting(u)' = Meeting(u) /\ pc'[u] = pc[u]
    BY <1>1, <1>4, ThreadFrame
  <2> QED
    BY <1>3, <2>1 DEF Inside, Last
<1>8. Arrived'
  BY <1>3, <1>5, <1>6, <1>7 DEF Arrived
<1>9. Round(k)'
  <2> SUFFICES ASSUME NEW u \in Thread
               PROVE  /\ u \in Sleepers' \/ Last(u)' => enter'[u] = k + 1 /\ leave'[u] = k
                      /\ Inside(u)' /\ u \notin Sleepers' /\ ~Last(u)'
                             => enter'[u] = k /\ leave'[u] = k - 1
                      /\ ~Inside(u)' => enter'[u] = k /\ leave'[u] = k
    BY DEF Round
  <2>1. CASE u = t
    BY <1>1, <1>4, <1>5, <1>6, <2>1
  <2>2. CASE u # t
    BY <1>3, <1>4, <1>5, <1>7, <2>2 DEF Round
  <2> QED
    BY <2>1, <2>2
<1> QED
  BY <1>8, <1>9

\* Meetings in finalBarrier, of threads and of the main thread.
LEMMA FinalKeeps ==
    ASSUME IInv, MeetInv, NEW t \in Thread \union {Main}, Meeting(t) = "finalBarrier",
           Meet(t) \/ MeetBroadcast(t) \/ MeetWoken(t)
    PROVE  MeetInv'
<1> USE MainNoThread
<1>1. /\ program' = program /\ enter' = enter /\ leave' = leave /\ at' = at
      /\ \E place \in {"broadcast", "meet", "done"} : pc' = [pc EXCEPT ![t] = place]
      /\ \A u \in Thread \ {t} : pc'[u] = pc[u]
  <2>1. CASE Meet(t)
    BY <2>1 DEF Meet, Goto, IInv, Types
  <2>2. CASE MeetBroadcast(t) \/ MeetWoken(t)
    BY <2>2 DEF MeetBroadcast, MeetWoken, LeaveBarrier, Goto, IInv, Types
  <2> QED
    BY <2>1, <2>2
<1>2. arrivals'["theBarrier"] = arrivals["theBarrier"] /\ Sleepers' = Sleepers
  BY DEF Meet, MeetBroadcast, MeetWoken, IInv, Types, Meetings, Sleepers
<1>3. ~Inside(t) /\ ~Inside(t)'
  <2>1. Meeting(t)' = Meeting(t)
    BY <1>1 DEF Meeting, InCall, Calls
  <2> QED
    BY <2>1 DEF Inside
<1> QED
  BY <1>1, <1>2, <1>3, OutsideKeeps

\* Round 0: nobody has arrived.
LEMMA InitMeetInv == Init => MeetInv
<1> SUFFICES ASSUME Init PROVE Arrived /\ Round(0)
  BY DEF MeetInv
<1>1. \A t \in Thread : ~Inside(t) /\ ~Last(t) /\ enter[t] = 0 /\ leave[t] = 0
  BY MainNoThread DEF Init, Inside, Last
<1>2. Sleepers = {} /\ arrivals["theBarrier"] = 0
  BY DEF Init, Sleepers, Meetings
<1> QED
  BY <1>1, <1>2, FS_EmptySet DEF Arrived, Round

\* Every step of the program, inside theBarrier or not.
LEMMA NextMeetInv == IInv /\ MeetInv /\ [Next]_vars => MeetInv'
<1> SUFFICES ASSUME IInv, MeetInv, [Next]_vars PROVE MeetInv'
  OBVIOUS
<1> USE MainNoThread
<1>1. CASE UNCHANGED vars
  <2>1. program' = program /\ pc' = pc /\ at' = at /\ UNCHANGED barrierVars
    BY <1>1 DEF vars
  <2> QED
    BY <2>1, OutsideKeeps DEF barrierVars, Sleepers
<1>2. ASSUME NEW t \in Thread, StartThread(t)
      PROVE  MeetInv'
  <2>1. /\ program' = program /\ UNCHANGED barrierVars
        /\ \A u \in Thread \ {t} : pc'[u] = pc[u] /\ at'[u] = at[u]
        /\ pc[t] = "unborn" /\ pc'[t] = "run"
    BY <1>2 DEF StartThread, Goto, IInv, Types, Located, Thread
  <2>2. ~Inside(t) /\ ~Inside(t)'
    BY <2>1 DEF Inside
  <2> QED
    BY <2>1, <2>2, OutsideKeeps DEF barrierVars, Sleepers
<1>3. ASSUME NEW t \in Thread,
             \/ SendAppend(t) \/ SemaphoreSignal(t) \/ SemaphoreNotify(t)
             \/ SemaphoreWait(t) \/ SemaphoreWoken(t) \/ Take(t)
      PROVE  MeetInv'
  <2>1. program' = program /\ UNCHANGED barrierVars
    BY <1>3 DEF SendAppend, SemaphoreSignal, SemaphoreNotify, SemaphoreWait, SemaphoreWoken, Take
  <2>2. pc[t] \notin {"meet", "broadcast"} /\ (UNCHANGED at \/ at' = [at EXCEPT ![t] = @ + 1])
    BY <1>3 DEF SendAppend, SemaphoreSignal, SemaphoreNotify, SemaphoreWait, SemaphoreWoken, Take, Return
  <2>3. \E place \in Places \ {"meet", "broadcast"} : pc' = [pc EXCEPT ![t] = place]
    BY <1>3 DEF SendAppend, SemaphoreSignal, SemaphoreNotify, SemaphoreWait, SemaphoreWoken, Take,
                Return, Goto, Places
  <2>4. /\ pc'[t] \notin {"meet", "broadcast"}
        /\ \A u \in Thread \ {t} : pc'[u] = pc[u] /\ at'[u] = at[u]
    BY <2>2, <2>3 DEF IInv, Types
  <2>5. ~Inside(t) /\ ~Inside(t)'
    BY <2>2, <2>4 DEF Inside
  <2> QED
    BY <2>1, <2>4, <2>5, OutsideKeeps DEF barrierVars, Sleepers
<1>4. ASSUME NEW t \in Thread \union {Main}, Meet(t) \/ MeetBroadcast(t) \/ MeetWoken(t)
      PROVE  MeetInv'
  <2>1. CASE Meeting(t) = "finalBarrier"
    BY <1>4, <2>1, FinalKeeps
  <2>2. CASE Meeting(t) = "theBarrier"
    <3>1. t \in Thread
      BY <2>2, MeetingTypes
    <3>2. program' = program
      BY <1>4 DEF Meet, MeetBroadcast, MeetWoken
    <3> SUFFICES ASSUME ~program.spurious PROVE Arrived' /\ \E k \in Nat : Round(k)'
      BY <3>2 DEF MeetInv
    <3>3. PICK k \in Nat : Round(k)
      BY DEF MeetInv
    <3>4. Arrived
      BY DEF MeetInv
    <3>5. CASE Meet(t)
      BY <2>2, <3>1, <3>3, <3>4, <3>5, ArrivalKeeps
    <3>6. CASE MeetBroadcast(t)
      <4>1. Arrived' /\ Round(k + 1)'
        BY <2>2, <3>1, <3>3, <3>4, <3>6, BroadcastKeeps
      <4> QED
        BY <4>1
    <3>7. CASE MeetWoken(t)
      BY <2>2, <3>1, <3>3, <3>4, <3>7, WokenKeeps
    <3> QED
      BY <1>4, <3>5, <3>6, <3>7
  <2> QED
    BY <2>1, <2>2, MeetingTypes DEF Meetings
<1>5. ASSUME NEW t \in Thread \union {Main}, WakeUp(t)
      PROVE  MeetInv'
  BY <1>5 DEF WakeUp, MeetInv
<1>6. ASSUME NEW t \in Thread \union {Main}, ThreadStep(t)
      PROVE  MeetInv'
  <2>1. CASE t = Main
    BY <1>4, <1>6, <2>1, MainStep
  <2>2. CASE t \in Thread
    BY <1>3, <1>4, <1>6, <2>2 DEF ThreadStep
  <2> QED
    BY <2>1, <2>2
<1> QED
  BY <1>1, <1>2, <1>5, <1>6 DEF Next

\* In one round the counters are never more than one apart.
LEMMA RoundSeparates == MeetInv => (~program.spurious => Separates)
<1> SUFFICES ASSUME MeetInv, ~program.spurious, NEW t \in Thread, NEW u \in Thread
             PROVE  leave[t] <= enter[u]
  BY DEF Separates
<1>1. PICK k \in Nat : Round(k)
  BY DEF MeetInv
<1>2. \A v \in Thread : leave[v] \in {k - 1, k} /\ enter[v] \in {k, k + 1}
  BY <1>1 DEF Round
<1> QED
  BY <1>2

-----------------------------------------------------------------------------
\* No thread leaves its k-th vnus_barrier before every thread has entered its k-th,
\* although the counter is set back before the others are awake and a thread that
\* was woken tests nothing; as long as waits return only when signalled.
THEOREM BarrierSeparates == Spec => [](~program.spurious => Separates)
<1>1. MeetInv => (~program.spurious => Separates)
  BY RoundSeparates
<1>2. Init => MeetInv
  BY InitMeetInv
<1>3. IInv /\ MeetInv /\ [Next]_vars => MeetInv'
  BY NextMeetInv
<1> QED
  BY <1>1, <1>2, <1>3, IInvAlways, PTL DEF Spec

(***************************************************************************)
(* vnus_barrier implements the abstract barrier, step by step.             *)
(***************************************************************************)
\* The barrier calls that t has entered, as its program has them.
Begins(t) == IF Inside(t) THEN at[t] ELSE at[t] - 1
Entered(t) == {c \in BarrierCalls(Calls(t)) : c <= Begins(t)}
Counts == \A t \in Thread : enter[t] = Cardinality(Entered(t))

\* No condition wait returns by itself while the program runs.
OnlySignalled == ~program.spurious

\* A thread meets in theBarrier while it is in a call of vnus_barrier.
LEMMA InBarrierCall ==
    ASSUME NEW t, Meeting(t) = "theBarrier"
    PROVE  InCall(t, "barrier")
  BY DEF Meeting

\* There are at most MaxRounds barrier calls in the program of a thread.
LEMMA CallsBounded ==
    ASSUME IInv, NEW t \in Thread
    PROVE  /\ Calls(t) \in Seq(Call) /\ DOMAIN Calls(t) = 1 .. Len(Calls(t))
           /\ at[t] \in Nat
           /\ IsFiniteSet(BarrierCalls(Calls(t)))
           /\ Cardinality(BarrierCalls(Calls(t))) <= MaxRounds
<1>1. program \in Programs /\ at[t] \in Nat
  BY DEF IInv, Types
<1>2. Calls(t) \in Seq(Call)
  BY <1>1, ProgramAssumption DEF Calls
<1>3. DOMAIN Calls(t) = 1 .. Len(Calls(t)) /\ Len(Calls(t)) \in Nat
  BY <1>2
<1>4. IsFiniteSet(1 .. Len(Calls(t)))
  BY <1>3, FS_Interval
<1>5. BarrierCalls(Calls(t)) \subseteq 1 .. Len(Calls(t))
  BY <1>3 DEF BarrierCalls
<1>6. IsFiniteSet(BarrierCalls(Calls(t)))
  BY <1>4, <1>5, FS_Subset
<1>7. Cardinality(BarrierCalls(Calls(t))) <= MaxRounds
  BY <1>1, MaxRoundsAssumption DEF Calls
<1> QED
  BY <1>1, <1>2, <1>3, <1>6, <1>7

\* A step in which nobody enters: a thread stays in its call, or goes on from a call
\* that it has entered or that is not of vnus_barrier.
LEMMA NobodyEnters ==
    ASSUME IInv, Counts, program' = program, enter' = enter,
           \A u \in Thread :
               \/ Begins(u)' = Begins(u)
               \/ /\ Begins(u)' = Begins(u) + 1 /\ ~Inside(u)
                  /\ ~InCall(u, "barrier")
    PROVE  Counts'
<1> SUFFICES ASSUME NEW u \in Thread PROVE enter'[u] = Cardinality(Entered(u)')
  BY DEF Counts
<1>1. BarrierCalls(Calls(u))' = BarrierCalls(Calls(u))
  BY DEF Calls, BarrierCalls
<1>2. Entered(u)' = Entered(u)
  <2>1. CASE Begins(u)' = Begins(u)
    BY <1>1, <2>1 DEF Entered
  <2>2. CASE Begins(u)' = Begins(u) + 1 /\ ~Inside(u) /\ ~InCall(u, "barrier")
    <3>1. at[u] \in Nat /\ Begins(u) = at[u] - 1 /\ Begins(u)' = at[u]
      BY <2>2, CallsBounded DEF Begins
    <3>2. at[u] \notin BarrierCalls(Calls(u))
      <4>1. u # Main /\ DOMAIN Calls(u) = 1 .. Len(Calls(u))
        BY CallsBounded, MainNoThread
      <4>2. at[u] \in DOMAIN Calls(u) => at[u] <= Len(Calls(u))
        BY <3>1, <4>1
      <4>3. ~(at[u] <= Len(Calls(u)) /\ Calls(u)[at[u]].op = "barrier")
        BY <2>2, <4>1 DEF InCall
      <4> QED
        BY <4>2, <4>3 DEF BarrierCalls
    <3>3. \A c \in BarrierCalls(Calls(u)) : c \in Nat /\ c # at[u]
      <4>1. BarrierCalls(Calls(u)) \subseteq 1 .. Len(Calls(u))
        BY CallsBounded DEF BarrierCalls
      <4> QED
        BY <3>2, <4>1
    <3>4. \A c \in BarrierCalls(Calls(u)) : c <= Begins(u) <=> c <= Begins(u)'
      BY <3>1, <3>3
    <3> QED
      BY <1>1, <3>4 DEF Entered
  <2> QED
    BY <2>1, <2>2
<1> QED
  BY <1>2 DEF Counts

\* The arrival of a thread in theBarrier: its call is counted.
LEMMA ArrivalCounts ==
    ASSUME IInv, Counts, NEW t \in Thread, Meet(t), Meeting(t) = "theBarrier"
    PROVE  Counts' /\ enter[t] < MaxRounds
<1>1. /\ pc[t] = "run" /\ program' = program /\ at' = at
      /\ enter' = [enter EXCEPT ![t] = @ + 1]
      /\ pc' = [pc EXCEPT ![t] = "broadcast"] \/ pc' = [pc EXCEPT ![t] = "meet"]
  BY DEF Meet, Goto
<1>2. /\ pc \in [Thread \union {Main} -> Places] /\ enter \in [Thread -> Nat]
      /\ at[t] \in Nat
  BY DEF IInv, Types
<1>3. \A u \in Thread : Meeting(u)' = Meeting(u) /\ BarrierCalls(Calls(u))' = BarrierCalls(Calls(u))
  BY <1>1 DEF Meeting, InCall, Calls, BarrierCalls
<1>4. Begins(t) = at[t] - 1 /\ Begins(t)' = at[t]
  BY <1>1, <1>2, <1>3 DEF Begins, Inside
<1>5. at[t] \in BarrierCalls(Calls(t))
  BY InBarrierCall, CallsBounded, <1>2, ProgramAssumption DEF InCall, BarrierCalls, IInv, Types
<1>6. Entered(t)' = Entered(t) \union {at[t]} /\ at[t] \notin Entered(t)
  <2>1. \A c \in BarrierCalls(Calls(t)) : c \in Nat
    BY CallsBounded DEF BarrierCalls
  <2>2. at[t] \notin Entered(t)
    BY <1>2, <1>4 DEF Entered
  <2>3. \A c \in BarrierCalls(Calls(t)) : c <= at[t] <=> c <= at[t] - 1 \/ c = at[t]
    BY <1>2, <2>1
  <2>4. Entered(t)' = {c \in BarrierCalls(Calls(t)) : c <= at[t]}
    BY <1>3, <1>4 DEF Entered
  <2> QED
    BY <1>4, <1>5, <2>2, <2>3, <2>4 DEF Entered
<1>7. /\ IsFiniteSet(Entered(t)) /\ IsFiniteSet(Entered(t)')
      /\ Cardinality(Entered(t)') <= Cardinality(BarrierCalls(Calls(t)))
  <2>1. Entered(t) \subseteq BarrierCalls(Calls(t)) /\ Entered(t)' \subseteq BarrierCalls(Calls(t))
    BY <1>3 DEF Entered
  <2> QED
    BY <2>1, CallsBounded, FS_Subset
<1>8. Cardinality(Entered(t)') = Cardinality(Entered(t)) + 1
  BY <1>6, <1>7, FS_AddElement
<1>9. enter[t] < MaxRounds
  <2>1. enter[t] = Cardinality(Entered(t)) /\ enter[t] \in Nat
    BY <1>2 DEF Counts
  <2>2. Cardinality(BarrierCalls(Calls(t))) \in Nat
    BY CallsBounded, FS_CardinalityType
  <2> QED
    BY <1>7, <1>8, <2>1, <2>2, CallsBounded, MaxRoundsAssumption
<1>10. ASSUME NEW u \in Thread PROVE enter'[u] = Cardinality(Entered(u)')
  <2>1. CASE u = t
    BY <1>1, <1>2, <1>8, <2>1 DEF Counts
  <2>2. CASE u # t
    <3>1. pc'[u] = pc[u] /\ enter'[u] = enter[u]
      BY <1>1, <1>2, <2>2
    <3>2. Entered(u)' = Entered(u)
      BY <1>1, <1>3, <3>1 DEF Entered, Begins, Inside
    <3> QED
      BY <3>1, <3>2 DEF Counts
  <2> QED
    BY <2>1, <2>2
<1> QED
  BY <1>9, <1>10 DEF Counts

\* Nobody has entered at first.
LEMMA InitCounts == Init => Counts
<1> SUFFICES ASSUME Init, NEW t \in Thread PROVE enter[t] = Cardinality(Entered(t))
  BY DEF Counts
<1>1. enter[t] = 0 /\ Begins(t) = 0
  BY MainNoThread DEF Init, Begins, Inside
<1>2. Entered(t) = {}
  <2>1. Calls(t) \in Seq(Call)
    BY ProgramAssumption DEF Init, Calls
  <2>2. \A c \in DOMAIN Calls(t) : c \in Nat \ {0}
    BY <2>1
  <2>3. \A c \in DOMAIN Calls(t) : ~(c <= 0)
    BY <2>2
  <2> QED
    BY <1>1, <2>3 DEF Entered, BarrierCalls
<1> QED
  BY <1>1, <1>2, FS_EmptySet

\* A step of a thread in a mailbox, which at most ends the call that it is in.
LEMMA MailboxStep ==
    ASSUME IInv, NEW t \in Thread,
           \/ SendAppend(t) \/ SemaphoreSignal(t) \/ SemaphoreNotify(t)
           \/ SemaphoreWait(t) \/ SemaphoreWoken(t) \/ Take(t)
    PROVE  /\ program' = program /\ UNCHANGED barrierVars
           /\ ~Inside(t) /\ ~Inside(t)' /\ ~InCall(t, "barrier")
           /\ at'[t] \in {at[t], at[t] + 1}
           /\ \A u \in Thread \ {t} : pc'[u] = pc[u] /\ at'[u] = at[u]
<1>1. program' = program /\ UNCHANGED barrierVars
  BY DEF SendAppend, SemaphoreSignal, SemaphoreNotify, SemaphoreWait, SemaphoreWoken, Take
<1>2. pc[t] \notin {"meet", "broadcast"} /\ (UNCHANGED at \/ at' = [at EXCEPT ![t] = @ + 1])
  BY DEF SendAppend, SemaphoreSignal, SemaphoreNotify, SemaphoreWait, SemaphoreWoken, Take, Return
<1>3. \E place \in Places \ {"meet", "broadcast"} : pc' = [pc EXCEPT ![t] = place]
  BY DEF SendAppend, SemaphoreSignal, SemaphoreNotify, SemaphoreWait, SemaphoreWoken, Take,
         Return, Goto, Places
<1>4. InCall(t, "send") \/ InCall(t, "receive")
  BY DEF SendAppend, SemaphoreSignal, SemaphoreNotify, SemaphoreWait, SemaphoreWoken, Take,
         IInv, Located
<1>5. /\ pc'[t] \notin {"meet", "broadcast"}
      /\ at'[t] \in {at[t], at[t] + 1}
      /\ \A u \in Thread \ {t} : pc'[u] = pc[u] /\ at'[u] = at[u]
  BY <1>2, <1>3 DEF IInv, Types
<1> QED
  BY <1>1, <1>2, <1>4, <1>5 DEF Inside, InCall

\* A thread that leaves theBarrier goes on to its next call.
LEMMA LeaveStep ==
    ASSUME IInv, NEW t \in Thread, MeetBroadcast(t) \/ MeetWoken(t), Meeting(t) = "theBarrier"
    PROVE  /\ program' = program /\ enter' = enter
           /\ leave' = [leave EXCEPT ![t] = @ + 1]
           /\ Inside(t) /\ ~Inside(t)' /\ at'[t] = at[t] + 1
           /\ \A u \in Thread \ {t} : pc'[u] = pc[u] /\ at'[u] = at[u]
<1>1. /\ pc[t] \in {"meet", "broadcast"} /\ program' = program /\ enter' = enter
      /\ leave' = [leave EXCEPT ![t] = @ + 1]
      /\ pc' = [pc EXCEPT ![t] = "run"] /\ at' = [at EXCEPT ![t] = @ + 1]
  BY DEF MeetBroadcast, MeetWoken, LeaveBarrier, Return, Goto
<1>2. pc \in [Thread \union {Main} -> Places] /\ at \in [Thread \union {Main} -> Nat]
  BY DEF IInv, Types
<1> QED
  BY <1>1, <1>2 DEF Inside

\* A meeting in finalBarrier.
LEMMA FinalStep ==
    ASSUME IInv, NEW t \in Thread \union {Main}, Meeting(t) = "finalBarrier",
           Meet(t) \/ MeetBroadcast(t) \/ MeetWoken(t)
    PROVE  /\ program' = program /\ enter' = enter /\ leave' = leave /\ at' = at
           /\ \A u \in Thread : Inside(u)' <=> Inside(u)
<1>1. /\ program' = program /\ enter' = enter /\ leave' = leave /\ at' = at
      /\ \E place \in {"broadcast", "meet", "done"} : pc' = [pc EXCEPT ![t] = place]
  BY DEF Meet, MeetBroadcast, MeetWoken, LeaveBarrier, Goto
<1>2. \A u : Meeting(u)' = Meeting(u)
  BY <1>1 DEF Meeting, InCall, Calls
<1>3. \A u \in Thread \ {t} : pc'[u] = pc[u]
  BY <1>1 DEF IInv, Types
<1> QED
  BY <1>1, <1>2, <1>3 DEF Inside

\* A step that starts a thread, or lets a wait return, or none.
LEMMA OtherStep ==
    ASSUME IInv,
           \/ \E t \in Thread : StartThread(t)
           \/ \E t \in Thread \union {Main} : WakeUp(t)
           \/ UNCHANGED vars
    PROVE  /\ program' = program /\ enter' = enter /\ leave' = leave
           /\ \A u \in Thread : at'[u] = at[u] /\ (Inside(u)' <=> Inside(u))
<1>1. CASE UNCHANGED vars
  BY <1>1 DEF vars, barrierVars, Inside, Meeting, InCall, Calls
<1>2. ASSUME NEW t \in Thread \union {Main}, WakeUp(t)
      PROVE  /\ program' = program /\ enter' = enter /\ leave' = leave
             /\ \A u \in Thread : at'[u] = at[u] /\ (Inside(u)' <=> Inside(u))
  BY <1>2 DEF WakeUp, Inside, Meeting, InCall, Calls
<1>3. ASSUME NEW t \in Thread, StartThread(t)
      PROVE  /\ program' = program /\ enter' = enter /\ leave' = leave
             /\ \A u \in Thread : at'[u] = at[u] /\ (Inside(u)' <=> Inside(u))
  <2>1. /\ program' = program /\ UNCHANGED barrierVars
        /\ \A u \in Thread : at'[u] = at[u]
        /\ \A u \in Thread \ {t} : pc'[u] = pc[u]
        /\ pc[t] = "unborn" /\ pc'[t] = "run"
    BY <1>3, MainNoThread DEF StartThread, Goto, IInv, Types, Located, Thread
  <2>2. \A u \in Thread : Meeting(u)' = Meeting(u)
    BY <2>1 DEF Meeting, InCall, Calls
  <2> QED
    BY <2>1, <2>2 DEF Inside, barrierVars
<1> QED
  BY <1>1, <1>2, <1>3

\* The kinds of step that there are for theBarrier.
LEMMA StepKinds ==
    ASSUME IInv, [Next]_vars
    PROVE  \/ \E t \in Thread : Meet(t) /\ Meeting(t) = "theBarrier"
           \/ \E t \in Thread : (MeetBroadcast(t) \/ MeetWoken(t)) /\ Meeting(t) = "theBarrier"
           \/ \E t \in Thread \union {Main} :
                  Meeting(t) = "finalBarrier" /\ (Meet(t) \/ MeetBroadcast(t) \/ MeetWoken(t))
           \/ \E t \in Thread : \/ SendAppend(t) \/ SemaphoreSignal(t) \/ SemaphoreNotify(t)
                               \/ SemaphoreWait(t) \/ SemaphoreWoken(t) \/ Take(t)
           \/ \/ \E t \in Thread : StartThread(t)
              \/ \E t \in Thread \union {Main} : WakeUp(t)
              \/ UNCHANGED vars
<1>1. \A t : Meeting(t) \in {"theBarrier", "finalBarrier"}
  BY DEF Meeting
<1>2. ASSUME ThreadStep(Main)
      PROVE  Meeting(Main) = "finalBarrier" /\ (Meet(Main) \/ MeetBroadcast(Main) \/ MeetWoken(Main))
  BY <1>2, MainStep, MeetingTypes
<1> QED
  BY <1>1, <1>2 DEF Next, ThreadStep

\* Every step counts the barrier calls as they are entered.
LEMMA NextCounts == IInv /\ Counts /\ [Next]_vars => Counts'
<1> SUFFICES ASSUME IInv, Counts, [Next]_vars PROVE Counts'
  OBVIOUS
<1>0. \A u \in Thread : at[u] \in Nat
  BY DEF IInv, Types
<1>1. ASSUME NEW t \in Thread, Meet(t), Meeting(t) = "theBarrier" PROVE Counts'
  BY <1>1, ArrivalCounts
<1>2. ASSUME NEW t \in Thread, MeetBroadcast(t) \/ MeetWoken(t), Meeting(t) = "theBarrier"
      PROVE  Counts'
  <2>1. program' = program /\ enter' = enter /\ Begins(t)' = Begins(t)
    BY <1>0, <1>2, LeaveStep DEF Begins
  <2>2. ASSUME NEW u \in Thread, u # t PROVE Begins(u)' = Begins(u)
    <3>1. program' = program /\ pc'[u] = pc[u] /\ at'[u] = at[u]
      BY <1>2, <2>2, LeaveStep
    <3>2. Meeting(u)' = Meeting(u)
      BY <3>1, ThreadFrame
    <3> QED
      BY <3>1, <3>2 DEF Begins, Inside
  <2> QED
    BY <2>1, <2>2, NobodyEnters
<1>3. ASSUME NEW t \in Thread \union {Main}, Meeting(t) = "finalBarrier",
             Meet(t) \/ MeetBroadcast(t) \/ MeetWoken(t)
      PROVE  Counts'
  <2>1. program' = program /\ enter' = enter /\ \A u \in Thread : Begins(u)' = Begins(u)
    BY <1>3, FinalStep DEF Begins
  <2> QED
    BY <2>1, NobodyEnters
<1>4. ASSUME NEW t \in Thread,
             \/ SendAppend(t) \/ SemaphoreSignal(t) \/ SemaphoreNotify(t)
             \/ SemaphoreWait(t) \/ SemaphoreWoken(t) \/ Take(t)
      PROVE  Counts'
  <2>1. /\ program' = program /\ enter' = enter
        /\ ~Inside(t) /\ ~Inside(t)' /\ ~InCall(t, "barrier") /\ at'[t] \in {at[t], at[t] + 1}
        /\ \A u \in Thread \ {t} : pc'[u] = pc[u] /\ at'[u] = at[u]
    BY <1>4, MailboxStep DEF barrierVars
  <2>2. Begins(t)' = Begins(t) \/ Begins(t)' = Begins(t) + 1
    BY <1>0, <2>1 DEF Begins
  <2>3. ASSUME NEW u \in Thread, u # t PROVE Begins(u)' = Begins(u)
    <3>1. Meeting(u)' = Meeting(u)
      BY <2>1, <2>3, ThreadFrame
    <3> QED
      BY <2>1, <2>3, <3>1 DEF Begins, Inside
  <2> QED
    BY <2>1, <2>2, <2>3, NobodyEnters
<1>5. ASSUME \/ \E t \in Thread : StartThread(t)
             \/ \E t \in Thread \union {Main} : WakeUp(t)
             \/ UNCHANGED vars
      PROVE  Counts'
  <2>1. program' = program /\ enter' = enter /\ \A u \in Thread : Begins(u)' = Begins(u)
    BY <1>5, OtherStep DEF Begins
  <2> QED
    BY <2>1, NobodyEnters
<1> QED
  BY <1>1, <1>2, <1>3, <1>4, <1>5, StepKinds

\* A thread that arrives enters the abstract barrier.
LEMMA ArrivalImplements ==
    ASSUME IInv, Counts, MeetInv, OnlySignalled, NEW t \in Thread,
           Meet(t), Meeting(t) = "theBarrier"
    PROVE  AbstractBarrier!Enter(t)
<1>1. PICK k \in Nat : Round(k)
  BY DEF MeetInv, OnlySignalled
<1>2. ~Inside(t)
  BY DEF Meet, Inside
<1>3. enter[t] = leave[t]
  BY <1>1, <1>2 DEF Round
<1>4. enter[t] < MaxRounds
  BY ArrivalCounts
<1>5. enter' = [enter EXCEPT ![t] = @ + 1] /\ leave' = leave
  BY DEF Meet
<1> QED
  BY <1>3, <1>4, <1>5 DEF AbstractBarrier!Enter

\* A thread that returns from theBarrier leaves the abstract barrier: all have
\* entered it, the last one in this round, and the others at least in the round
\* of a thread that was woken, however late that is.
LEMMA LeaveImplements ==
    ASSUME IInv, MeetInv, OnlySignalled, NEW t \in Thread,
           MeetBroadcast(t) \/ MeetWoken(t), Meeting(t) = "theBarrier"
    PROVE  AbstractBarrier!Leave(t)
<1>1. PICK k \in Nat : Round(k)
  BY DEF MeetInv, OnlySignalled
<1>2. Arrived
  BY DEF MeetInv, OnlySignalled
<1>3. \A u \in Thread : enter[u] \in {k, k + 1}
  BY <1>1 DEF Round
<1>4. enter[t] = leave[t] + 1 /\ \A u \in Thread : enter[u] >= enter[t]
  <2>1. CASE MeetBroadcast(t)
    <3>1. Last(t)
      BY <2>1 DEF MeetBroadcast, Last
    <3>2. \A u \in Thread : u \in Sleepers \/ Last(u)
      BY <1>2, <3>1 DEF Arrived
    <3>3. enter[t] = k + 1 /\ leave[t] = k /\ \A u \in Thread : enter[u] = k + 1
      BY <1>1, <3>1, <3>2 DEF Round
    <3> QED
      BY <3>3
  <2>2. CASE MeetWoken(t)
    <3>1. Inside(t) /\ ~Last(t) /\ t \notin Sleepers
      BY <2>2 DEF MeetWoken, Inside, Last, Sleepers
    <3>2. enter[t] = k /\ leave[t] = k - 1
      BY <1>1, <3>1 DEF Round
    <3> QED
      BY <1>3, <3>2
  <2> QED
    BY <2>1, <2>2
<1>5. enter' = enter /\ leave' = [leave EXCEPT ![t] = @ + 1]
  BY LeaveStep
<1> QED
  BY <1>4, <1>5 DEF AbstractBarrier!Leave

\* Every other step is invisible in the abstract barrier.
LEMMA NextImplements ==
    IInv /\ Counts /\ MeetInv /\ OnlySignalled /\ [Next]_vars
        => [AbstractBarrier!Next]_(AbstractBarrier!vars)
<1> SUFFICES ASSUME IInv, Counts, MeetInv, OnlySignalled, [Next]_vars
             PROVE  AbstractBarrier!Next \/ (enter' = enter /\ leave' = leave)
  BY DEF AbstractBarrier!vars
<1>1. ASSUME NEW t \in Thread, Meet(t), Meeting(t) = "theBarrier"
      PROVE  AbstractBarrier!Next
  BY <1>1, ArrivalImplements DEF AbstractBarrier!Next
<1>2. ASSUME NEW t \in Thread, MeetBroadcast(t) \/ MeetWoken(t), Meeting(t) = "theBarrier"
      PROVE  AbstractBarrier!Next
  BY <1>2, LeaveImplements DEF AbstractBarrier!Next
<1>3. ASSUME NEW t \in Thread \union {Main}, Meeting(t) = "finalBarrier",
             Meet(t) \/ MeetBroadcast(t) \/ MeetWoken(t)
      PROVE  enter' = enter /\ leave' = leave
  BY <1>3, FinalStep
<1>4. ASSUME NEW t \in Thread,
             \/ SendAppend(t) \/ SemaphoreSignal(t) \/ SemaphoreNotify(t)
             \/ SemaphoreWait(t) \/ SemaphoreWoken(t) \/ Take(t)
      PROVE  enter' = enter /\ leave' = leave
  BY <1>4, MailboxStep DEF barrierVars
<1>5. ASSUME \/ \E t \in Thread : StartThread(t)
             \/ \E t \in Thread \union {Main} : WakeUp(t)
             \/ UNCHANGED vars
      PROVE  enter' = enter /\ leave' = leave
  BY <1>5, OtherStep
<1> QED
  BY <1>1, <1>2, <1>3, <1>4, <1>5, StepKinds

\* vnus_barrier is a barrier for every number of threads and every program whose
\* condition waits return only when signalled: the steps of its threads, of the
\* mailboxes and of finalBarrier enter or leave the abstract barrier as that
\* allows, or do not show in it.
THEOREM BarrierImplemented ==
    Spec /\ OnlySignalled =>
        AbstractBarrier!Init /\ [][AbstractBarrier!Next]_(AbstractBarrier!vars)
<1>1. Init => AbstractBarrier!Init
  BY DEF Init, AbstractBarrier!Init
<1>2. OnlySignalled /\ IInv /\ [Next]_vars => OnlySignalled'
  <2> SUFFICES ASSUME OnlySignalled, IInv, [Next]_vars PROVE program' = program
    BY DEF OnlySignalled
  <2> QED
    BY StepKinds, LeaveStep, FinalStep, MailboxStep, OtherStep DEF Meet
<1> QED
  BY <1>1, <1>2, InitMeetInv, NextMeetInv, InitCounts, NextCounts, NextImplements, IInvAlways,
     PTL DEF Spec
=============================================================================
