----------------------------- MODULE EmbBarrier -----------------------------
(***************************************************************************)
(* emb_barrier of backends/runtime/embedded/ensemble.c: the barrier of the *)
(* Trimedia boards.  Processor 0 is the barrier host; it owns a page with  *)
(* one word BARRIER[i] per processor i, and every other processor owns a   *)
(* page with a word BARRIER[0].  The barrier is a four-phase handshake     *)
(* over these words: every worker writes 1 to the host, the host writes 1  *)
(* to every worker, every worker writes 0, the host writes 0.              *)
(*                                                                         *)
(* A write to another processor's page (pio_write_remote) is a store on    *)
(* the Pentium, and on a Trimedia a request for its DMA engine, which      *)
(* performs it at some later moment while the processor goes on.  The      *)
(* requests of one processor to one page are performed in order; requests  *)
(* to different pages touch different words, and their mutual order is     *)
(* left open here.                                                         *)
(***************************************************************************)
EXTENDS Integers, Sequences

CONSTANTS
    N,          \* emb_nProcs
    MaxRounds   \* bound: barriers executed by each processor

ASSUME NAssumption == N \in Nat \ {0}
ASSUME MaxRoundsAssumption == MaxRounds \in Nat

Proc == 0 .. (N - 1)
Worker == 1 .. (N - 1)

VARIABLES
    hostType,   \* emb_procType[0], set at the start: "PENTIUM" or "TRIMEDIA"
    enter,      \* BARRIER_ENTER of each processor
    leave,      \* BARRIER_LEAVE of each processor
    pc,         \* where each processor is in emb_barrier
    i,          \* the loop variable of processor 0
    arrive,     \* arrive[w]: BARRIER[w] on the page of processor 0
    go,         \* go[w]: BARRIER[0] on the page of processor w
    arriveDma,  \* arriveDma[w]: writes to arrive[w] that w's DMA engine still has to do
    goDma       \* goDma[w]: writes to go[w] that processor 0's engine still has to do

hostVars == <<hostType, i, go, goDma>>
vars == <<hostType, enter, leave, pc, i, arrive, go, arriveDma, goDma>>

HostPc == {"out", "gather", "release", "regather", "clear"}
WorkerPc == {"out", "wait1", "wait0"}

HostType == {"PENTIUM", "TRIMEDIA"}

Init ==
    /\ hostType \in HostType
    /\ enter = [p \in Proc |-> 0]
    /\ leave = [p \in Proc |-> 0]
    /\ pc = [p \in Proc |-> "out"]
    /\ i = 1
    /\ arrive = [w \in Worker |-> 0]
    /\ go = [w \in Worker |-> 0]
    /\ arriveDma = [w \in Worker |-> <<>>]
    /\ goDma = [w \in Worker |-> <<>>]

\* pio_write_remote by processor 0 of v to go[w].
HostWrite(w, v) ==
    IF hostType = "PENTIUM"
    THEN go' = [go EXCEPT ![w] = v] /\ UNCHANGED goDma
    ELSE goDma' = [goDma EXCEPT ![w] = Append(@, v)] /\ UNCHANGED go

\* pio_write_remote by worker w, always a Trimedia, of v to arrive[w].
WorkerWrite(w, v) ==
    /\ arriveDma' = [arriveDma EXCEPT ![w] = Append(@, v)]
    /\ UNCHANGED arrive

(***************************************************************************)
(* Processor 0.  Each of its four loops runs i from 1 to N - 1.            *)
(***************************************************************************)
HostEnter ==
    /\ pc[0] = "out"
    /\ enter[0] < MaxRounds
    /\ enter' = [enter EXCEPT ![0] = @ + 1]
    /\ pc' = [pc EXCEPT ![0] = "gather"]
    /\ i' = 1
    /\ UNCHANGED <<hostType, leave, arrive, go, arriveDma, goDma>>

\* One iteration of a loop that waits until arrive[i] is 0, or is not 0.
HostSees(loop, nonzero) ==
    /\ pc[0] = loop
    /\ i < N
    /\ (arrive[i] # 0) = nonzero
    /\ i' = i + 1
    /\ UNCHANGED <<hostType, enter, leave, pc, arrive, go, arriveDma, goDma>>

\* Mutant: the clearing loop writes 1 again.
HostTellsOne(loop, v) ==
    /\ pc[0] = loop
    /\ i < N
    /\ HostWrite(i, 1)
    /\ i' = i + 1
    /\ UNCHANGED <<hostType, enter, leave, pc, arrive, arriveDma>>

\* One iteration of a loop that writes v to every worker.
HostTells(loop, v) ==
    /\ pc[0] = loop
    /\ i < N
    /\ HostWrite(i, v)
    /\ i' = i + 1
    /\ UNCHANGED <<hostType, enter, leave, pc, arrive, arriveDma>>

\* Mutant: a loop stops one worker too early.
HostLoopEndsEarly(loop, next) ==
    /\ pc[0] = loop
    /\ i >= N - 1
    /\ pc' = [pc EXCEPT ![0] = next]
    /\ i' = 1
    /\ UNCHANGED <<hostType, enter, leave, arrive, go, arriveDma, goDma>>

HostLoopEnds(loop, next) ==
    /\ pc[0] = loop
    /\ i = N
    /\ pc' = [pc EXCEPT ![0] = next]
    /\ i' = 1
    /\ UNCHANGED <<hostType, enter, leave, arrive, go, arriveDma, goDma>>

HostLeave ==
    /\ pc[0] = "clear"
    /\ i = N
    /\ pc' = [pc EXCEPT ![0] = "out"]
    /\ leave' = [leave EXCEPT ![0] = @ + 1]
    /\ i' = 1
    /\ UNCHANGED <<hostType, enter, arrive, go, arriveDma, goDma>>

\* Mutant: processor 0 does not wait for the answers before it clears.
HostStepNoRegather ==
    \/ HostSees("gather", TRUE)
    \/ HostLoopEnds("gather", "release")
    \/ HostTells("release", 1)
    \/ HostLoopEnds("release", "clear")
    \/ HostTells("clear", 0)
    \/ HostLeave

HostStep ==
    \/ HostSees("gather", TRUE)
    \/ HostLoopEnds("gather", "release")
    \/ HostTells("release", 1)
    \/ HostLoopEnds("release", "regather")
    \/ HostSees("regather", FALSE)
    \/ HostLoopEnds("regather", "clear")
    \/ HostTells("clear", 0)
    \/ HostLeave

(***************************************************************************)
(* The other processors.                                                   *)
(***************************************************************************)
WorkerEnter(w) ==
    /\ pc[w] = "out"
    /\ enter[w] < MaxRounds
    /\ enter' = [enter EXCEPT ![w] = @ + 1]
    /\ pc' = [pc EXCEPT ![w] = "wait1"]
    /\ WorkerWrite(w, 1)
    /\ UNCHANGED <<leave, hostVars>>

WorkerReleased(w) ==
    /\ pc[w] = "wait1"
    /\ go[w] # 0
    /\ pc' = [pc EXCEPT ![w] = "wait0"]
    /\ WorkerWrite(w, 0)
    /\ UNCHANGED <<enter, leave, hostVars>>

WorkerLeave(w) ==
    /\ pc[w] = "wait0"
    /\ go[w] = 0
    /\ pc' = [pc EXCEPT ![w] = "out"]
    /\ leave' = [leave EXCEPT ![w] = @ + 1]
    /\ UNCHANGED <<enter, arrive, arriveDma, hostVars>>

(***************************************************************************)
(* The DMA engines perform a pending write of one word.                    *)
(***************************************************************************)
ArriveLands(w) ==
    /\ arriveDma[w] # <<>>
    /\ arrive' = [arrive EXCEPT ![w] = Head(arriveDma[w])]
    /\ arriveDma' = [arriveDma EXCEPT ![w] = Tail(@)]
    /\ UNCHANGED <<enter, leave, pc, hostVars>>

GoLands(w) ==
    /\ goDma[w] # <<>>
    /\ go' = [go EXCEPT ![w] = Head(goDma[w])]
    /\ goDma' = [goDma EXCEPT ![w] = Tail(@)]
    /\ UNCHANGED <<hostType, enter, leave, pc, i, arrive, arriveDma>>

WorkerStep(w) == WorkerReleased(w) \/ WorkerLeave(w)
DmaStep(w) == ArriveLands(w) \/ GoLands(w)

Next ==
    \/ HostEnter \/ HostStep
    \/ \E w \in Worker : WorkerEnter(w) \/ WorkerStep(w) \/ DmaStep(w)

\* A processor inside emb_barrier only polls and writes, and a DMA engine
\* performs what it was given; entering is the program's business.
Fairness ==
    /\ WF_vars(HostStep)
    /\ \A w \in Worker :
           /\ WF_vars(WorkerStep(w))
           /\ WF_vars(ArriveLands(w))
           /\ WF_vars(GoLands(w))

Spec == Init /\ [][Next]_vars /\ Fairness

-----------------------------------------------------------------------------
(***************************************************************************)
(* Properties.                                                             *)
(***************************************************************************)

\* Types of the state of emb_barrier.  At most one write to a word is ever
\* outstanding, although nothing in pio_write_remote waits for completion.
Pending == {<<>>, <<0>>, <<1>>}
TypeOK ==
    /\ hostType \in HostType
    /\ enter \in [Proc -> Nat]
    /\ leave \in [Proc -> Nat]
    /\ pc \in [Proc -> HostPc \union WorkerPc]
    /\ pc[0] \in HostPc
    /\ \A w \in Worker : pc[w] \in WorkerPc
    /\ i \in 1 .. N
    /\ arrive \in [Worker -> {0, 1}]
    /\ go \in [Worker -> {0, 1}]
    /\ arriveDma \in [Worker -> Pending]
    /\ goDma \in [Worker -> Pending]

\* emb_barrier separates: no processor has left more barriers than every
\* other processor has entered.
Separates == \A p, q \in Proc : leave[p] <= enter[q]

\* emb_barrier returns: once every processor has entered its k-th barrier,
\* every processor leaves it.
Returns ==
    \A k \in 1 .. MaxRounds : \A p \in Proc :
        (\A q \in Proc : enter[q] >= k) ~> (leave[p] >= k)

\* emb_barrier implements the abstract barrier, fairness included.
Abstract == INSTANCE Barrier
AbstractSpec == Abstract!Spec
=============================================================================
