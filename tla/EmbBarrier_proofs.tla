------------------------- MODULE EmbBarrier_proofs -------------------------
(***************************************************************************)
(* Proofs about emb_barrier, for every number of processors, both kinds of *)
(* barrier host and every bound on the number of rounds.                   *)
(***************************************************************************)
EXTENDS EmbBarrier, TLAPS

(***************************************************************************)
(* Where worker w stands in the handshake, seen from processor 0:          *)
(*   Unseen(w)   its arrival has not been noticed in this barrier;         *)
(*   Held(w)     noticed, and not yet told to go;                          *)
(*   Freed(w)    told to go, its answer not yet noticed;                   *)
(*   Answered(w) answer noticed, and its word not yet cleared;             *)
(*   Cleared(w)  cleared, while processor 0 still serves other workers.    *)
(***************************************************************************)
Unseen(w) == pc[0] = "out" \/ (pc[0] = "gather" /\ w >= i)
Held(w) == (pc[0] = "gather" /\ w < i) \/ (pc[0] = "release" /\ w >= i)
Freed(w) == (pc[0] = "release" /\ w < i) \/ (pc[0] = "regather" /\ w >= i)
Answered(w) == (pc[0] = "regather" /\ w < i) \/ (pc[0] = "clear" /\ w >= i)
Cleared(w) == pc[0] = "clear" /\ w < i

\* The words of worker w and the writes still on their way.
Quiet(w) == arrive[w] = 0 /\ arriveDma[w] = <<>> /\ go[w] = 0 /\ goDma[w] = <<>>
Arriving(w) ==
    /\ go[w] = 0 /\ goDma[w] = <<>>
    /\ \/ arrive[w] = 0 /\ arriveDma[w] = <<1>>
       \/ arrive[w] = 1 /\ arriveDma[w] = <<>>
Waiting(w) == arrive[w] = 1 /\ arriveDma[w] = <<>> /\ go[w] = 0 /\ goDma[w] = <<>>
Releasing(w) ==
    /\ arrive[w] = 1 /\ arriveDma[w] = <<>>
    /\ \/ go[w] = 0 /\ goDma[w] = <<1>>
       \/ go[w] = 1 /\ goDma[w] = <<>>
Answering(w) ==
    /\ go[w] = 1 /\ goDma[w] = <<>>
    /\ \/ arrive[w] = 1 /\ arriveDma[w] = <<0>>
       \/ arrive[w] = 0 /\ arriveDma[w] = <<>>
AnsweredWords(w) == go[w] = 1 /\ goDma[w] = <<>> /\ arrive[w] = 0 /\ arriveDma[w] = <<>>
Clearing(w) ==
    /\ arrive[w] = 0 /\ arriveDma[w] = <<>>
    /\ \/ go[w] = 1 /\ goDma[w] = <<0>>
       \/ go[w] = 0 /\ goDma[w] = <<>>

\* Worker w between its barriers: it has left `left' of them, and may be
\* waiting to leave the last, or may have entered the next one.
Idle(w, left) ==
    \/ pc[w] = "out" /\ Quiet(w) /\ enter[w] = left /\ leave[w] = left
    \/ pc[w] = "wait1" /\ Arriving(w) /\ enter[w] = left + 1 /\ leave[w] = left
    \/ pc[w] = "wait0" /\ Clearing(w) /\ enter[w] = left /\ leave[w] + 1 = left

\* The counters and words of worker w agree with its phase.
Phase(w) ==
    /\ Unseen(w) => Idle(w, leave[0])
    /\ Cleared(w) => Idle(w, leave[0] + 1)
    /\ Held(w) => pc[w] = "wait1" /\ Waiting(w)
    /\ Freed(w) => \/ pc[w] = "wait1" /\ Releasing(w)
                   \/ pc[w] = "wait0" /\ Answering(w)
    /\ Answered(w) => pc[w] = "wait0" /\ AnsweredWords(w)
    /\ Held(w) \/ Freed(w) \/ Answered(w) =>
           enter[w] = leave[0] + 1 /\ leave[w] = leave[0]

HostCounts == enter[0] = IF pc[0] = "out" THEN leave[0] ELSE leave[0] + 1

IInv == TypeOK /\ HostCounts /\ \A w \in Worker : Phase(w)

-----------------------------------------------------------------------------
\* Processor 0 is the host and every other one a worker.
LEMMA WorkerFacts ==
    /\ 0 \in Proc
    /\ \A w \in Worker : w \in Proc /\ w # 0 /\ w \in Int /\ w < N /\ w >= 1
    /\ \A p \in Proc : p = 0 \/ p \in Worker
    /\ N \in Nat \ {0}
  BY NAssumption DEF Proc, Worker

\* Every processor starts before its first barrier.
LEMMA InitIInv == Init => IInv
  <1> SUFFICES ASSUME Init PROVE IInv
    OBVIOUS
  <1>1. TypeOK
    BY WorkerFacts DEF Init, TypeOK, HostPc, WorkerPc, Pending, HostType
  <1>2. HostCounts
    BY WorkerFacts DEF Init, HostCounts
  <1>3. ASSUME NEW w \in Worker PROVE Phase(w)
    BY WorkerFacts DEF Init, Phase, Unseen, Cleared, Held, Freed, Answered, Idle, Quiet
  <1> QED
    BY <1>1, <1>2, <1>3 DEF IInv

\* The pending writes that occur are distinct.
LEMMA PendingDistinct == <<0>> # <<1>> /\ <<0>> # <<>> /\ <<1>> # <<>>
  <1>1. <<0>>[1] = 0 /\ <<1>>[1] = 1
    OBVIOUS
  <1>2. Len(<<0>>) = 1 /\ Len(<<1>>) = 1 /\ Len(<<>>) = 0
    OBVIOUS
  <1> QED
    BY <1>1, <1>2

\* A single pending write: what Append, Head and Tail make of it.
LEMMA OneWrite ==
    ASSUME NEW v
    PROVE  /\ Append(<<>>, v) = <<v>>
           /\ Head(<<v>>) = v
           /\ Tail(<<v>>) = <<>>
           /\ <<v>> # <<>>
  OBVIOUS

\* The phases of the handshake, for the proofs to open together.
LEMMA NextIInv == IInv /\ [Next]_vars => IInv'
  <1> SUFFICES ASSUME IInv, [Next]_vars PROVE IInv'
    OBVIOUS
  <1> USE WorkerFacts
  <1> USE DEF IInv, TypeOK, HostCounts, HostPc, WorkerPc, Pending, HostType
  <1>t. ASSUME NEW w \in Worker
        PROVE  /\ arrive[w] \in {0, 1} /\ go[w] \in {0, 1}
               /\ enter[w] \in Nat /\ leave[w] \in Nat /\ leave[0] \in Nat
               /\ pc[w] \in WorkerPc /\ pc[0] \in HostPc /\ i \in Nat
    OBVIOUS
  <1>1. CASE HostEnter
    <2>1. TypeOK' /\ HostCounts'
      BY <1>1 DEF HostEnter
    <2>2. ASSUME NEW w \in Worker PROVE Phase(w)'
      <3>1. Phase(w) /\ Unseen(w)
        BY <1>1 DEF HostEnter, Unseen
      <3>2. Idle(w, leave[0]) /\ Unseen(w)'
        BY <1>1, <3>1 DEF HostEnter, Phase, Unseen
      <3>3. Idle(w, leave[0])'
        BY <1>1, <3>2 DEF HostEnter, Idle, Quiet, Arriving, Clearing
      <3> QED
        BY <1>1, <3>2, <3>3 DEF HostEnter, Phase, Unseen, Held, Freed, Answered, Cleared
    <2> QED
      BY <2>1, <2>2
  <1>2. CASE HostSees("gather", TRUE)
    <2>1. TypeOK' /\ HostCounts'
      BY <1>2 DEF HostSees
    <2>2. ASSUME NEW w \in Worker PROVE Phase(w)'
      <3>1. CASE w = i
        BY <1>2, <3>1, <1>t DEF HostSees, Phase, Unseen, Held, Freed, Answered, Cleared,
              Idle, Quiet, Arriving, Clearing, Waiting
      <3>2. CASE w # i
        BY <1>2, <3>2, <1>t DEF HostSees, Phase, Unseen, Held, Freed, Answered, Cleared,
              Idle, Quiet, Arriving, Clearing, Waiting
      <3> QED
        BY <3>1, <3>2
    <2> QED
      BY <2>1, <2>2
  <1>3. CASE HostLoopEnds("gather", "release")
    <2>1. TypeOK' /\ HostCounts'
      BY <1>3 DEF HostLoopEnds
    <2>2. ASSUME NEW w \in Worker PROVE Phase(w)'
      BY <1>3, <1>t DEF HostLoopEnds, Phase, Unseen, Held, Freed, Answered, Cleared, Waiting
    <2> QED
      BY <2>1, <2>2
  <1>4. CASE HostTells("release", 1)
    <2>1. i \in Worker /\ pc[0] = "release"
      BY <1>4 DEF HostTells, Worker
    <2>2. Held(i) /\ Phase(i) /\ go[i] = 0 /\ goDma[i] = <<>>
      BY <2>1 DEF Phase, Held, Waiting
    <2>3. \/ go' = [go EXCEPT ![i] = 1] /\ goDma' = goDma
          \/ go' = go /\ goDma' = [goDma EXCEPT ![i] = <<1>>]
      BY <1>4, <2>1, <2>2, OneWrite DEF HostTells, HostWrite
    <2>4. TypeOK' /\ HostCounts'
      <3>1. go' \in [Worker -> {0, 1}] /\ goDma' \in [Worker -> {<<>>, <<0>>, <<1>>}]
        BY <2>3
      <3>2. /\ enter' = enter /\ leave' = leave /\ pc' = pc
            /\ arrive' = arrive /\ arriveDma' = arriveDma /\ i' \in 1 .. N
            /\ hostType' = hostType
        BY <1>4 DEF HostTells
      <3> QED
        BY <3>1, <3>2
    <2>5. ASSUME NEW w \in Worker PROVE Phase(w)'
      <3>1. CASE w = i
        BY <1>4, <2>1, <2>2, <2>3, <3>1, <1>t DEF HostTells, Phase, Unseen, Held, Freed,
              Answered, Cleared, Waiting, Releasing
      <3>2. CASE w # i
        <4>1. go'[w] = go[w] /\ goDma'[w] = goDma[w]
          BY <2>3, <3>2
        <4> QED
          BY <1>4, <2>1, <4>1, <3>2, <1>t DEF HostTells, Phase, Unseen, Held, Freed,
              Answered, Cleared, Waiting, Releasing, Answering
      <3> QED
        BY <3>1, <3>2
    <2> QED
      BY <2>4, <2>5
  <1>5. CASE HostLoopEnds("release", "regather")
    <2>1. TypeOK' /\ HostCounts'
      BY <1>5 DEF HostLoopEnds
    <2>2. ASSUME NEW w \in Worker PROVE Phase(w)'
      BY <1>5, <1>t DEF HostLoopEnds, Phase, Unseen, Held, Freed, Answered, Cleared,
            Releasing, Answering
    <2> QED
      BY <2>1, <2>2
  <1>6. CASE HostSees("regather", FALSE)
    <2>1. TypeOK' /\ HostCounts'
      BY <1>6 DEF HostSees
    <2>2. ASSUME NEW w \in Worker PROVE Phase(w)'
      <3>1. CASE w = i
        BY <1>6, <3>1, <1>t DEF HostSees, Phase, Unseen, Held, Freed, Answered, Cleared,
              Releasing, Answering, AnsweredWords
      <3>2. CASE w # i
        BY <1>6, <3>2, <1>t DEF HostSees, Phase, Unseen, Held, Freed, Answered, Cleared,
              Releasing, Answering, AnsweredWords
      <3> QED
        BY <3>1, <3>2
    <2> QED
      BY <2>1, <2>2
  <1>7. CASE HostLoopEnds("regather", "clear")
    <2>1. TypeOK' /\ HostCounts'
      BY <1>7 DEF HostLoopEnds
    <2>2. ASSUME NEW w \in Worker PROVE Phase(w)'
      BY <1>7, <1>t DEF HostLoopEnds, Phase, Unseen, Held, Freed, Answered, Cleared,
            AnsweredWords
    <2> QED
      BY <2>1, <2>2
  <1>8. CASE HostTells("clear", 0)
    <2>1. i \in Worker /\ pc[0] = "clear"
      BY <1>8 DEF HostTells, Worker
    <2>2. Answered(i) /\ Phase(i) /\ go[i] = 1 /\ goDma[i] = <<>>
      BY <2>1 DEF Phase, Answered, AnsweredWords
    <2>3. \/ go' = [go EXCEPT ![i] = 0] /\ goDma' = goDma
          \/ go' = go /\ goDma' = [goDma EXCEPT ![i] = <<0>>]
      BY <1>8, <2>1, <2>2, OneWrite DEF HostTells, HostWrite
    <2>4. TypeOK' /\ HostCounts'
      <3>1. go' \in [Worker -> {0, 1}] /\ goDma' \in [Worker -> {<<>>, <<0>>, <<1>>}]
        BY <2>3
      <3>2. /\ enter' = enter /\ leave' = leave /\ pc' = pc
            /\ arrive' = arrive /\ arriveDma' = arriveDma /\ i' \in 1 .. N
            /\ hostType' = hostType
        BY <1>8 DEF HostTells
      <3> QED
        BY <3>1, <3>2
    <2>5. ASSUME NEW w \in Worker PROVE Phase(w)'
      <3>1. CASE w = i
        BY <1>8, <2>1, <2>2, <2>3, <3>1, <1>t DEF HostTells, Phase, Unseen, Held, Freed,
              Answered, Cleared, AnsweredWords, Idle, Clearing
      <3>2. CASE w # i
        <4>1. go'[w] = go[w] /\ goDma'[w] = goDma[w]
          BY <2>3, <3>2
        <4>2. /\ ~Unseen(w)' /\ ~Held(w)' /\ ~Freed(w)'
              /\ Answered(w)' = Answered(w) /\ Cleared(w)' = Cleared(w)
          BY <1>8, <2>1, <3>2, <1>t DEF HostTells, Unseen, Held, Freed, Answered, Cleared
        <4>3. /\ enter' = enter /\ leave' = leave /\ pc' = pc
              /\ arrive' = arrive /\ arriveDma' = arriveDma
          BY <1>8 DEF HostTells
        <4> QED
          BY <4>1, <4>2, <4>3 DEF Phase, AnsweredWords, Idle, Clearing, Quiet, Arriving
      <3> QED
        BY <3>1, <3>2
    <2> QED
      BY <2>4, <2>5
  <1>9. CASE HostLeave
    <2>1. TypeOK' /\ HostCounts'
      BY <1>9 DEF HostLeave
    <2>2. ASSUME NEW w \in Worker PROVE Phase(w)'
      <3>1. Idle(w, leave[0] + 1)
        BY <1>9 DEF HostLeave, Phase, Cleared
      <3>2. leave'[0] = leave[0] + 1 /\ leave'[w] = leave[w] /\ pc'[w] = pc[w]
            /\ enter' = enter
        BY <1>9 DEF HostLeave
      <3>3. Idle(w, leave[0])'
        BY <1>9, <3>1, <3>2 DEF HostLeave, Idle, Quiet, Arriving, Clearing
      <3> QED
        BY <1>9, <3>3 DEF HostLeave, Phase, Unseen, Held, Freed, Answered, Cleared
    <2> QED
      BY <2>1, <2>2
  <1>10. ASSUME NEW u \in Worker, WorkerEnter(u) PROVE IInv'
    <2>1. pc[u] = "out" /\ Phase(u) /\ (Unseen(u) \/ Cleared(u))
      BY <1>10, <1>t DEF WorkerEnter, Phase, Unseen, Held, Freed, Answered, Cleared
    <2>2. Quiet(u) /\ enter[u] = leave[u]
          /\ leave[u] = IF Unseen(u) THEN leave[0] ELSE leave[0] + 1
      BY <2>1, <1>t DEF Phase, Idle, Unseen, Cleared
    <2>3. arriveDma' = [arriveDma EXCEPT ![u] = <<1>>]
      BY <1>10, <2>2, OneWrite DEF WorkerEnter, WorkerWrite, Quiet
    <2>4. TypeOK' /\ HostCounts'
      <3>1. arriveDma' \in [Worker -> {<<>>, <<0>>, <<1>>}]
        BY <2>3
      <3>2. enter' \in [Proc -> Nat] /\ enter'[0] = enter[0]
        BY <1>10 DEF WorkerEnter
      <3>3. /\ pc' \in [Proc -> HostPc \union WorkerPc] /\ pc'[0] = pc[0]
            /\ \A w \in Worker : pc'[w] \in WorkerPc
        BY <1>10 DEF WorkerEnter
      <3>4. leave' = leave /\ i' = i /\ go' = go /\ goDma' = goDma /\ arrive' = arrive
            /\ hostType' = hostType
        BY <1>10 DEF WorkerEnter, WorkerWrite, hostVars
      <3> QED
        BY <3>1, <3>2, <3>3, <3>4
    <2>5. ASSUME NEW w \in Worker PROVE Phase(w)'
      <3>0. Unseen(w)' = Unseen(w) /\ Held(w)' = Held(w) /\ Freed(w)' = Freed(w)
            /\ Answered(w)' = Answered(w) /\ Cleared(w)' = Cleared(w) /\ leave' = leave
        BY <1>10 DEF WorkerEnter, hostVars, Unseen, Held, Freed, Answered, Cleared
      <3>1. CASE w = u
        BY <1>10, <2>1, <2>2, <2>3, <3>0, <3>1, <1>t DEF WorkerEnter, WorkerWrite, hostVars,
              Phase, Unseen, Held, Freed, Answered, Cleared, Idle, Quiet, Arriving
      <3>2. CASE w # u
        <4>1. pc'[w] = pc[w] /\ enter'[w] = enter[w] /\ arriveDma'[w] = arriveDma[w]
              /\ arrive' = arrive /\ go' = go /\ goDma' = goDma
          BY <1>10, <2>3, <3>2 DEF WorkerEnter, WorkerWrite, hostVars
        <4> QED
          BY <3>0, <4>1 DEF Phase, Idle, Quiet, Arriving, Clearing, Waiting, Releasing,
                Answering, AnsweredWords
      <3> QED
        BY <3>1, <3>2
    <2> QED
      BY <2>4, <2>5
  <1>11. ASSUME NEW u \in Worker, WorkerReleased(u) PROVE IInv'
    <2>1. pc[u] = "wait1" /\ go[u] = 1 /\ Phase(u) /\ Freed(u) /\ Releasing(u)
      BY <1>11, <1>t DEF WorkerReleased, Phase, Unseen, Held, Freed, Answered, Cleared,
            Idle, Arriving, Waiting, Releasing
    <2>2. arriveDma' = [arriveDma EXCEPT ![u] = <<0>>]
      BY <1>11, <2>1, OneWrite DEF WorkerReleased, WorkerWrite, Releasing
    <2>3. TypeOK' /\ HostCounts'
      BY <1>11, <2>2 DEF WorkerReleased, WorkerWrite, hostVars
    <2>4. ASSUME NEW w \in Worker PROVE Phase(w)'
      <3>0. Unseen(w)' = Unseen(w) /\ Held(w)' = Held(w) /\ Freed(w)' = Freed(w)
            /\ Answered(w)' = Answered(w) /\ Cleared(w)' = Cleared(w)
            /\ leave' = leave /\ enter' = enter
        BY <1>11 DEF WorkerReleased, hostVars, Unseen, Held, Freed, Answered, Cleared
      <3>1. CASE w = u
        BY <1>11, <2>1, <2>2, <3>0, <3>1 DEF WorkerReleased, WorkerWrite, hostVars,
              Phase, Unseen, Held, Freed, Answered, Cleared, Releasing, Answering
      <3>2. CASE w # u
        <4>1. pc'[w] = pc[w] /\ arriveDma'[w] = arriveDma[w]
              /\ arrive' = arrive /\ go' = go /\ goDma' = goDma
          BY <1>11, <2>2, <3>2 DEF WorkerReleased, WorkerWrite, hostVars
        <4> QED
          BY <3>0, <4>1 DEF Phase, Idle, Quiet, Arriving, Clearing, Waiting, Releasing,
                Answering, AnsweredWords
      <3> QED
        BY <3>1, <3>2
    <2> QED
      BY <2>3, <2>4
  <1>12. ASSUME NEW u \in Worker, WorkerLeave(u) PROVE IInv'
    <2>1. pc[u] = "wait0" /\ go[u] = 0 /\ Phase(u) /\ Clearing(u) /\ (Unseen(u) \/ Cleared(u))
          /\ goDma[u] = <<>> /\ enter[u] = leave[u] + 1
      BY <1>12, <1>t DEF WorkerLeave, Phase, Unseen, Held, Freed, Answered, Cleared,
            Idle, Arriving, Waiting, Releasing, Answering, AnsweredWords, Clearing
    <2>2. TypeOK' /\ HostCounts'
      BY <1>12 DEF WorkerLeave, hostVars
    <2>3. ASSUME NEW w \in Worker PROVE Phase(w)'
      <3>0. Unseen(w)' = Unseen(w) /\ Held(w)' = Held(w) /\ Freed(w)' = Freed(w)
            /\ Answered(w)' = Answered(w) /\ Cleared(w)' = Cleared(w)
            /\ leave'[0] = leave[0] /\ enter' = enter
            /\ arrive' = arrive /\ arriveDma' = arriveDma /\ go' = go /\ goDma' = goDma
        BY <1>12 DEF WorkerLeave, hostVars, Unseen, Held, Freed, Answered, Cleared
      <3>1. CASE w = u
        BY <1>12, <2>1, <3>0, <3>1, <1>t DEF WorkerLeave, hostVars,
              Phase, Unseen, Held, Freed, Answered, Cleared, Idle, Quiet, Clearing
      <3>2. CASE w # u
        <4>1. pc'[w] = pc[w] /\ leave'[w] = leave[w]
          BY <1>12, <3>2 DEF WorkerLeave
        <4> QED
          BY <3>0, <4>1 DEF Phase, Idle, Quiet, Arriving, Clearing, Waiting, Releasing,
                Answering, AnsweredWords
      <3> QED
        BY <3>1, <3>2
    <2> QED
      BY <2>2, <2>3
  <1>13. ASSUME NEW u \in Worker, ArriveLands(u) PROVE IInv'
    <2>1. /\ arriveDma[u] \in {<<0>>, <<1>>}
          /\ arrive' = [arrive EXCEPT ![u] = Head(arriveDma[u])]
          /\ arriveDma' = [arriveDma EXCEPT ![u] = <<>>]
          /\ Head(arriveDma[u]) \in {0, 1}
      <3>1. arriveDma[u] \in {<<0>>, <<1>>}
        BY <1>13 DEF ArriveLands
      <3>2. Head(arriveDma[u]) \in {0, 1} /\ Tail(arriveDma[u]) = <<>>
        BY <3>1, OneWrite
      <3> QED
        BY <1>13, <3>1, <3>2 DEF ArriveLands
    <2>2. TypeOK' /\ HostCounts'
      <3>1. arrive' \in [Worker -> {0, 1}] /\ arriveDma' \in [Worker -> {<<>>, <<0>>, <<1>>}]
        BY <2>1
      <3>2. leave' = leave /\ enter' = enter /\ pc' = pc /\ i' = i /\ hostType' = hostType
            /\ go' = go /\ goDma' = goDma
        BY <1>13 DEF ArriveLands, hostVars
      <3> QED
        BY <3>1, <3>2
    <2>3. ASSUME NEW w \in Worker PROVE Phase(w)'
      <3>0. Unseen(w)' = Unseen(w) /\ Held(w)' = Held(w) /\ Freed(w)' = Freed(w)
            /\ Answered(w)' = Answered(w) /\ Cleared(w)' = Cleared(w)
            /\ leave' = leave /\ enter' = enter /\ pc' = pc /\ go' = go /\ goDma' = goDma
        BY <1>13 DEF ArriveLands, hostVars, Unseen, Held, Freed, Answered, Cleared
      <3>1. CASE w = u
        <4>1. arrive'[w] = Head(arriveDma[w]) /\ arriveDma'[w] = <<>>
          BY <2>1, <3>1
        <4>2. CASE arriveDma[w] = <<0>>
          <5>1. arrive'[w] = 0
            BY <4>1, <4>2, OneWrite
          <5> QED
            BY <3>0, <4>1, <4>2, <5>1, PendingDistinct DEF Phase, Idle, Quiet, Arriving, Clearing,
                  Waiting, Releasing, Answering, AnsweredWords
        <4>3. CASE arriveDma[w] = <<1>>
          <5>1. arrive'[w] = 1
            BY <4>1, <4>3, OneWrite
          <5> QED
            BY <3>0, <4>1, <4>3, <5>1, PendingDistinct DEF Phase, Idle, Quiet, Arriving, Clearing,
                  Waiting, Releasing, Answering, AnsweredWords
        <4> QED
          BY <2>1, <3>1, <4>2, <4>3
      <3>2. CASE w # u
        <4>1. arrive'[w] = arrive[w] /\ arriveDma'[w] = arriveDma[w]
          BY <2>1, <3>2
        <4> QED
          BY <3>0, <4>1 DEF Phase, Idle, Quiet, Arriving, Clearing, Waiting, Releasing,
                Answering, AnsweredWords
      <3> QED
        BY <3>1, <3>2
    <2> QED
      BY <2>2, <2>3
  <1>14. ASSUME NEW u \in Worker, GoLands(u) PROVE IInv'
    <2>1. /\ goDma[u] \in {<<0>>, <<1>>}
          /\ go' = [go EXCEPT ![u] = Head(goDma[u])]
          /\ goDma' = [goDma EXCEPT ![u] = <<>>]
          /\ Head(goDma[u]) \in {0, 1}
      <3>1. goDma[u] \in {<<0>>, <<1>>}
        BY <1>14 DEF GoLands
      <3>2. Head(goDma[u]) \in {0, 1} /\ Tail(goDma[u]) = <<>>
        BY <3>1, OneWrite
      <3> QED
        BY <1>14, <3>1, <3>2 DEF GoLands
    <2>2. TypeOK' /\ HostCounts'
      <3>1. go' \in [Worker -> {0, 1}] /\ goDma' \in [Worker -> {<<>>, <<0>>, <<1>>}]
        BY <2>1
      <3>2. leave' = leave /\ enter' = enter /\ pc' = pc /\ i' = i /\ hostType' = hostType
            /\ arrive' = arrive /\ arriveDma' = arriveDma
        BY <1>14 DEF GoLands, hostVars
      <3> QED
        BY <3>1, <3>2
    <2>3. ASSUME NEW w \in Worker PROVE Phase(w)'
      <3>0. Unseen(w)' = Unseen(w) /\ Held(w)' = Held(w) /\ Freed(w)' = Freed(w)
            /\ Answered(w)' = Answered(w) /\ Cleared(w)' = Cleared(w)
            /\ leave' = leave /\ enter' = enter /\ pc' = pc
            /\ arrive' = arrive /\ arriveDma' = arriveDma
        BY <1>14 DEF GoLands, hostVars, Unseen, Held, Freed, Answered, Cleared
      <3>1. CASE w = u
        <4>1. go'[w] = Head(goDma[w]) /\ goDma'[w] = <<>>
          BY <2>1, <3>1
        <4>2. CASE goDma[w] = <<0>>
          <5>1. go'[w] = 0
            BY <4>1, <4>2, OneWrite
          <5> QED
            BY <3>0, <4>1, <4>2, <5>1, PendingDistinct DEF Phase, Idle, Quiet, Arriving, Clearing,
                  Waiting, Releasing, Answering, AnsweredWords
        <4>3. CASE goDma[w] = <<1>>
          <5>1. go'[w] = 1
            BY <4>1, <4>3, OneWrite
          <5> QED
            BY <3>0, <4>1, <4>3, <5>1, PendingDistinct DEF Phase, Idle, Quiet, Arriving, Clearing,
                  Waiting, Releasing, Answering, AnsweredWords
        <4> QED
          BY <2>1, <3>1, <4>2, <4>3
      <3>2. CASE w # u
        <4>1. go'[w] = go[w] /\ goDma'[w] = goDma[w]
          BY <2>1, <3>2
        <4> QED
          BY <3>0, <4>1 DEF Phase, Idle, Quiet, Arriving, Clearing, Waiting, Releasing,
                Answering, AnsweredWords
      <3> QED
        BY <3>1, <3>2
    <2> QED
      BY <2>2, <2>3
  <1>15. CASE UNCHANGED vars
    BY <1>15 DEF vars, Phase, Unseen, Held, Freed, Answered, Cleared, Idle, Quiet, Arriving,
          Clearing, Waiting, Releasing, Answering, AnsweredWords
  <1> QED
    BY <1>1, <1>2, <1>3, <1>4, <1>5, <1>6, <1>7, <1>8, <1>9, <1>10, <1>11, <1>12, <1>13,
       <1>14, <1>15 DEF Next, HostStep, WorkerStep, DmaStep

\* How far the others are, whatever phase processor 0 is in.
LEMMA CountersNear ==
    ASSUME IInv
    PROVE  /\ enter \in [Proc -> Nat] /\ leave \in [Proc -> Nat]
           /\ \A q \in Proc : leave[0] <= enter[q] /\ leave[q] <= leave[0] + 1
           /\ pc[0] # "clear" => \A q \in Proc : leave[q] <= leave[0]
           /\ pc[0] = "clear" => \A q \in Proc : enter[q] >= leave[0] + 1
  <1> USE WorkerFacts DEF IInv, TypeOK, HostCounts, HostPc, WorkerPc
  <1>1. ASSUME NEW w \in Worker
        PROVE  /\ leave[0] <= enter[w]
               /\ leave[w] <= leave[0] + 1
               /\ pc[0] # "clear" => leave[w] <= leave[0]
               /\ pc[0] = "clear" => enter[w] >= leave[0] + 1
    BY DEF Phase, Unseen, Held, Freed, Answered, Cleared, Idle
  <1>2. leave[0] <= enter[0] /\ (pc[0] = "clear" => enter[0] = leave[0] + 1)
    OBVIOUS
  <1> QED
    BY <1>1, <1>2

\* The invariant is strong enough.
LEMMA IInvSeparates == IInv => Separates
  <1> SUFFICES ASSUME IInv, NEW p \in Proc, NEW q \in Proc PROVE leave[p] <= enter[q]
    BY DEF Separates
  <1> QED
    BY CountersNear, WorkerFacts

(***************************************************************************)
(* emb_barrier implements the abstract barrier, step by step.              *)
(***************************************************************************)
\* Processor 0 leaves after its last write, when all have entered.
LEMMA HostLeaveImplements == IInv /\ HostLeave => Abstract!Leave(0)
  <1> SUFFICES ASSUME IInv, HostLeave PROVE Abstract!Leave(0)
    OBVIOUS
  <1>1. enter[0] = leave[0] + 1
    BY DEF IInv, HostCounts, HostLeave
  <1>2. \A q \in Proc : enter[q] >= enter[0]
    BY <1>1, CountersNear DEF HostLeave
  <1> QED
    BY <1>1, <1>2 DEF HostLeave, Abstract!Leave

\* A worker leaves when its word is clear again: processor 0 may have left, or
\* may still be clearing the words of others.
LEMMA WorkerLeaveImplements ==
    ASSUME IInv, NEW u \in Worker, WorkerLeave(u)
    PROVE  Abstract!Leave(u)
  <1> USE WorkerFacts
  <1>1. /\ enter[u] = leave[u] + 1
        /\ enter[u] = leave[0] \/ (enter[u] = leave[0] + 1 /\ pc[0] = "clear")
    <2>1. pc[u] = "wait0" /\ go[u] = 0 /\ pc[0] \in HostPc /\ i \in 1 .. N /\ Phase(u)
          /\ u \in Int /\ leave[u] \in Nat /\ leave[0] \in Nat /\ enter[u] \in Nat
      BY DEF IInv, TypeOK, WorkerLeave
    <2>2. Unseen(u) \/ Cleared(u)
      BY <2>1 DEF Phase, Unseen, Held, Freed, Answered, Cleared, HostPc,
            Waiting, Answering, AnsweredWords
    <2> QED
      BY <2>1, <2>2 DEF Phase, Cleared, Idle
  <1>2. \A q \in Proc : enter[q] >= enter[u]
    BY <1>1, CountersNear
  <1> QED
    BY <1>1, <1>2 DEF WorkerLeave, Abstract!Leave, hostVars

\* A worker enters only when it has left its previous barrier.
LEMMA WorkerEnterImplements ==
    ASSUME IInv, NEW u \in Worker, WorkerEnter(u)
    PROVE  Abstract!Enter(u)
  <1> USE WorkerFacts
  <1>1. pc[u] = "out" /\ pc[0] \in HostPc /\ i \in 1 .. N /\ Phase(u) /\ u \in Int
    BY DEF IInv, TypeOK, WorkerEnter
  <1>2. Unseen(u) \/ Cleared(u)
    BY <1>1 DEF Phase, Unseen, Held, Freed, Answered, Cleared, HostPc
  <1>3. enter[u] = leave[u]
    BY <1>1, <1>2 DEF Phase, Idle
  <1> QED
    BY <1>3 DEF WorkerEnter, Abstract!Enter, hostVars

\* Every other step of the handshake is invisible.
LEMMA NextImplements == IInv /\ [Next]_vars => [Abstract!Next]_(Abstract!vars)
  <1> SUFFICES ASSUME IInv, [Next]_vars PROVE [Abstract!Next]_(Abstract!vars)
    OBVIOUS
  <1> USE WorkerFacts
  <1>1. CASE HostEnter
    <2>1. Abstract!Enter(0)
      BY <1>1 DEF HostEnter, Abstract!Enter, IInv, HostCounts
    <2> QED
      BY <2>1 DEF Abstract!Next
  <1>2. CASE HostLeave
    BY <1>2, HostLeaveImplements DEF Abstract!Next
  <1>3. ASSUME NEW u \in Worker, WorkerEnter(u) \/ WorkerLeave(u)
        PROVE  Abstract!Next
    BY <1>3, WorkerEnterImplements, WorkerLeaveImplements DEF Abstract!Next
  <1>4. ASSUME HostStep, ~HostLeave PROVE UNCHANGED <<enter, leave>>
    BY <1>4 DEF HostStep, HostSees, HostTells, HostLoopEnds
  <1>5. ASSUME NEW u \in Worker, WorkerReleased(u) \/ DmaStep(u)
        PROVE  UNCHANGED <<enter, leave>>
    BY <1>5 DEF WorkerReleased, DmaStep, ArriveLands, GoLands
  <1>6. CASE UNCHANGED vars
    BY <1>6 DEF vars, Abstract!vars
  <1> QED
    BY <1>1, <1>2, <1>3, <1>4, <1>5, <1>6 DEF Next, WorkerStep, Abstract!vars

\* The state of emb_barrier stays within its types; in particular no word
\* ever has two writes under way.
THEOREM TypeCorrect == Spec => []TypeOK
  <1>1. IInv => TypeOK
    BY DEF IInv
  <1> QED
    BY InitIInv, NextIInv, <1>1, PTL DEF Spec

\* For every number of processors: nobody leaves its k-th emb_barrier
\* before everybody has entered its k-th emb_barrier.
THEOREM BarrierSeparates == Spec => []Separates
  BY InitIInv, NextIInv, IInvSeparates, PTL DEF Spec

\* emb_barrier is a barrier: a step of the handshake enters or leaves the
\* abstract barrier as that allows, or does not show in it.
THEOREM BarrierImplemented == Spec => Abstract!Init /\ [][Abstract!Next]_(Abstract!vars)
  <1>1. Init => Abstract!Init
    BY DEF Init, Abstract!Init
  <1> QED
    BY <1>1, InitIInv, NextIInv, NextImplements, PTL DEF Spec
=============================================================================
