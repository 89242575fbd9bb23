---------------------------- MODULE EmbTransfer ----------------------------
(***************************************************************************)
(* emb_send, emb_recv and emb_fence of backends/runtime/embedded/          *)
(* ensemble.c: how a Pentium host and its Trimedia boards move data.       *)
(*                                                                         *)
(* A program registers transfers with emb_send and emb_recv and performs   *)
(* them in emb_fence, which polls one state machine per outgoing and one   *)
(* per incoming queue until all are through.  For the queue from s to d    *)
(* the two machines share two words: INCOMING_REQUEST on the page of s,    *)
(* written by d, and OUTGOING_CONFIRM on the page of d, written by s.      *)
(* Data goes through BPQ staging buffers at either end, or directly from   *)
(* or into user memory when that is contiguous there.                      *)
(*                                                                         *)
(* A Trimedia moves data, and writes the words of others, by requests to   *)
(* its DMA engine; the engine performs them in order, later, and then      *)
(* calls dma_completion_function.  The Pentium stores directly.            *)
(*                                                                         *)
(* Data is counted in fragments of BUFFER_SIZE bytes.  A memory cell holds *)
(* the name of the user memory cell its content comes from.                *)
(***************************************************************************)
EXTENDS Integers, Sequences, FiniteSets, Functions

CONSTANTS
    Proc,       \* the processors
    BPQ,        \* BUFFERS_PER_QUEUE
    Programs    \* the programs considered, see ProgramAssumption

MAX_QUEUE_ELM == 400    \* asserted by emb_send and emb_recv
Link == Proc \X Proc
Elem == [sendContiguous: BOOLEAN, recvContiguous: BOOLEAN, frags: Nat \ {0}]

ASSUME ProcAssumption == IsFiniteSet(Proc)    \* at most MAX_PROCESSORS
ASSUME BpqAssumption == BPQ \in Nat \ {0}
\* A program runs on the processors `procs', of which at most one, the host, is
\* a Pentium.  fences[r][l] are the elements that the r-th fence moves over
\* link l, registered alike by both its ends.
ASSUME ProgramAssumption ==
    \A pr \in Programs :
        /\ pr.procs \subseteq Proc
        /\ pr.pentium \subseteq pr.procs /\ Cardinality(pr.pentium) <= 1
        /\ pr.fences \in Seq([Link -> Seq(Elem)]) \ {<<>>}
        /\ \A r \in DOMAIN pr.fences : \A l \in Link : Len(pr.fences[r][l]) <= MAX_QUEUE_ELM
        /\ \A r \in DOMAIN pr.fences : \A l \in Link :
               pr.fences[r][l] # <<>> => {l[1], l[2]} \subseteq pr.procs

VARIABLES
    prog,       \* the program that runs
    pc,         \* pc[p]: registering, in the loop of emb_fence, draining, or done
    round,      \* round[p]: the fence p has reached
    out,        \* out[<<s, d>>]: outgoing[d] at processor s
    in,         \* in[<<s, d>>]: incoming[s] at processor d
    request,    \* request[<<s, d>>]: INCOMING_REQUEST[d] on the page of s
    confirm,    \* confirm[<<s, d>>]: OUTGOING_CONFIRM[s] on the page of d
    mem,        \* content of the staging buffers and of the user memory received into
    dma         \* dma[p]: the requests p's DMA engine has not completed

vars == <<prog, pc, round, out, in, request, confirm, mem, dma>>

Self(l) == l[1] = l[2]
Host(p) == p \in prog.pentium

MASK_REQUEST == 1
MASK_ZEROCOPY == 2
\* The address of the user memory of element e of fence r: a multiple of 4.
Slots == MAX_QUEUE_ELM + 1
Address(r, e) == 4 * (Slots * r + e)
AsksZeroCopy(word) == (word \div 2) % 2 = 1    \* word & MASK_ZEROCOPY
AddressIn(word) == 4 * (word \div 4)           \* word & MASK_ADDRESS

(***************************************************************************)
(* Memory cells.                                                           *)
(***************************************************************************)
OutBuf(l, k) == <<"out", l, k % BPQ>>   \* outgoing.LOCAL == incoming.REMOTE
InBuf(l, k) == <<"in", l, k % BPQ>>     \* incoming.LOCAL == outgoing.REMOTE
SrcCell(l, r, e, k) == <<"src", l, r, e, k>>
DstCell(l, r, e, k) == <<"dst", l, r, e, k>>

DstCells(pr, l) ==
    UNION {UNION {{DstCell(l, r, e, k) : k \in 0 .. pr[r][l][e].frags - 1} :
                      e \in DOMAIN pr[r][l]} : r \in DOMAIN pr}
Cells(pr) == UNION {{OutBuf(l, k) : k \in 0 .. BPQ - 1} \union
                    {InBuf(l, k) : k \in 0 .. BPQ - 1} \union DstCells(pr, l) : l \in Link}
Nothing == <<"nothing">>
Content(cell) == IF cell[1] = "src" THEN cell ELSE mem[cell]

(***************************************************************************)
(* The queues: nElm elements, the current one, the state of its machine    *)
(* and its counters, and the address of a direct put.  `taken' is nPacked  *)
(* or nDmaIssued, whichever counts the fragments begun; `completed' is     *)
(* nDmaCompleted; `unpacked' is nUnpacked or nConfirmed.                   *)
(***************************************************************************)
EmptyQueue == [nElm |-> 0, cur |-> 1, st |-> 0, taken |-> 0, completed |-> 0,
               unpacked |-> 0, address |-> 0]
\* The machine returned state 0: on to the next element.
Finished(q) == [EmptyQueue EXCEPT !.nElm = q.nElm, !.cur = q.cur + 1]
Busy(q) == q.cur <= q.nElm

Elements(l, r) == prog.fences[r][l]
OutElem(l) == Elements(l, round[l[1]])[out[l].cur]
InElem(l) == Elements(l, round[l[2]])[in[l].cur]
Src(l, k) == SrcCell(l, round[l[1]], out[l].cur, k)
Dst(l, k) == DstCell(l, round[l[2]], in[l].cur, k)
\* In a direct put the sender writes at the address that the request gave.
DstAt(l, address, k) == DstCell(l, (address \div 4) \div Slots, (address \div 4) % Slots, k)

Init ==
    /\ prog \in Programs
    /\ pc = [p \in Proc |-> IF p \in prog.procs THEN "register" ELSE "done"]
    /\ round = [p \in Proc |-> IF p \in prog.procs THEN 1 ELSE Len(prog.fences) + 1]
    /\ out = [l \in Link |-> EmptyQueue]
    /\ in = [l \in Link |-> EmptyQueue]
    /\ request = [l \in Link |-> 0]
    /\ confirm = [l \in Link |-> 0]
    /\ mem = [c \in Cells(prog.fences) |-> Nothing]
    /\ dma = [p \in Proc |-> <<>>]

(***************************************************************************)
(* DMA requests and words.  A request copies, then writes a word of        *)
(* another processor, then sets a local counter.                           *)
(***************************************************************************)
Copy(from, to) == [from |-> from, to |-> to]
NoWord == [name |-> "none", link |-> <<>>, value |-> 0]
NoNote == [queue |-> "none", link |-> <<>>, elm |-> <<>>, value |-> 0]
Request(l, v) == [name |-> "request", link |-> l, value |-> v]
Confirm(l, v) == [name |-> "confirm", link |-> l, value |-> v]
DmaRequest(copies, word, note) == [copies |-> copies, word |-> word, note |-> note]

Dispatch(p, requests) == dma' = [dma EXCEPT ![p] = @ \o requests]

StoreWord(w) ==
    /\ request' = IF w.name = "request" THEN [request EXCEPT ![w.link] = w.value] ELSE request
    /\ confirm' = IF w.name = "confirm" THEN [confirm EXCEPT ![w.link] = w.value] ELSE confirm

\* p dispatches `requests' and then does pio_write_remote of word w.
DispatchAndWrite(p, requests, w) ==
    IF Host(p)
    THEN StoreWord(w) /\ UNCHANGED dma
    ELSE /\ Dispatch(p, requests \o <<DmaRequest(<<>>, w, NoNote)>>)
         /\ UNCHANGED <<request, confirm>>
PioWriteRemote(p, w) == DispatchAndWrite(p, <<>>, w)

(***************************************************************************)
(* Registration and the frame of emb_fence.                                *)
(***************************************************************************)
EmbSend(l) ==
    /\ pc[l[1]] = "register"
    /\ out[l].nElm < Len(Elements(l, round[l[1]]))
    /\ out' = [out EXCEPT ![l].nElm = @ + 1]
    /\ UNCHANGED <<prog, pc, round, in, request, confirm, mem, dma>>

EmbRecv(l) ==
    /\ pc[l[2]] = "register"
    /\ in[l].nElm < Len(Elements(l, round[l[2]]))
    /\ in' = [in EXCEPT ![l].nElm = @ + 1]
    /\ UNCHANGED <<prog, pc, round, out, request, confirm, mem, dma>>

EnterFence(p) ==
    /\ pc[p] = "register"
    /\ \A q \in Proc :
           /\ out[<<p, q>>].nElm = Len(Elements(<<p, q>>, round[p]))
           /\ in[<<q, p>>].nElm = Len(Elements(<<q, p>>, round[p]))
    /\ pc' = [pc EXCEPT ![p] = "fence"]
    /\ UNCHANGED <<prog, round, out, in, request, confirm, mem, dma>>

\* A pass over the queues found none with work left: flag is 0.
LeaveLoop(p) ==
    /\ pc[p] = "fence"
    /\ \A q \in Proc : ~Busy(out[<<p, q>>]) /\ ~Busy(in[<<q, p>>])
    /\ out' = [l \in Link |-> IF l[1] = p THEN EmptyQueue ELSE out[l]]
    /\ in' = [l \in Link |-> IF l[2] = p THEN EmptyQueue ELSE in[l]]
    /\ pc' = [pc EXCEPT ![p] = "drain"]
    /\ UNCHANGED <<prog, round, request, confirm, mem, dma>>

\* dma_queue.in_use is 0.
LeaveFence(p) ==
    /\ pc[p] = "drain"
    /\ dma[p] = <<>>
    /\ round' = [round EXCEPT ![p] = @ + 1]
    /\ pc' = [pc EXCEPT ![p] = IF round[p] = Len(prog.fences) THEN "done" ELSE "register"]
    /\ UNCHANGED <<prog, out, in, request, confirm, mem, dma>>

(***************************************************************************)
(* emb_process_outgoing.  Each action is one call for the queue of link l; *)
(* calls that find nothing to do return the same state and change nothing. *)
(***************************************************************************)
\* The case of the switch that a call ends up in; 204 is KIND 3 of case 200.
OutCase(l) ==
    LET contiguous == OutElem(l).sendContiguous IN
    IF out[l].st \notin {0, 200, 300} THEN out[l].st
    ELSE IF Self(l) THEN 100
    ELSE IF request[l] = 0 THEN (IF Host(l[1]) THEN 300 ELSE 200)
    ELSE IF Host(l[1]) THEN 302
    ELSE IF AsksZeroCopy(request[l]) THEN (IF contiguous THEN 204 ELSE 201)
    ELSE IF contiguous THEN 203 ELSE 202

OutCall(l, case) ==
    /\ pc[l[1]] = "fence"
    /\ Busy(out[l])
    /\ OutCase(l) = case
    /\ UNCHANGED <<prog, pc, round, in>>

\* Mutant: one buffer too many.
WindowShutLate(l) ==
    LET ahead == out[l].taken - (request[l] - 1) IN ahead > BPQ \/ ahead < 0

\* nDmaIssued - nProcessed >= BPQ, computed in unsigned long.
WindowShut(l) ==
    LET ahead == out[l].taken - (request[l] - 1) IN ahead >= BPQ \/ ahead < 0
LastTaken(l) == out[l].taken + 1 = OutElem(l).frags

SelfPack(l) ==
    /\ OutCall(l, 100)
    /\ mem' = [mem EXCEPT ![OutBuf(l, 0)] = Src(l, out[l].taken)]
    /\ out' = [out EXCEPT ![l].st = 101, ![l].taken = @ + 1]
    /\ UNCHANGED <<request, confirm, dma>>

\* Unpacks as the current element of the outgoing queue says; the incoming
\* queue of a processor to itself only counts.
SelfUnpack(l) ==
    LET k == out[l].unpacked IN
    /\ OutCall(l, 101)
    /\ mem' = [mem EXCEPT ![DstCell(l, round[l[1]], out[l].cur, k)] = mem[OutBuf(l, 0)]]
    /\ out' = [out EXCEPT ![l] = IF k + 1 = OutElem(l).frags
                                 THEN Finished(@)
                                 ELSE [@ EXCEPT !.st = 100, !.unpacked = k + 1]]
    /\ UNCHANGED <<request, confirm, dma>>

\* Mutant: case 201 does not look how many puts are outstanding.
PutPackedUnlimited(l) ==
    LET k == out[l].taken
        address == IF out[l].st = 201 THEN out[l].address ELSE AddressIn(request[l])
        copy == Copy(OutBuf(l, k), DstAt(l, address, k))
    IN
    /\ OutCall(l, 201)
    /\ mem' = [mem EXCEPT ![OutBuf(l, k)] = Src(l, k)]
    /\ out' = [out EXCEPT ![l].taken = k + 1,
                          ![l].address = address,
                          ![l].st = IF LastTaken(l) THEN 299 ELSE 201]
    /\ Dispatch(l[1], <<IF LastTaken(l)
                        THEN DmaRequest(<<copy>>, Confirm(l, 1), NoNote)
                        ELSE DmaRequest(<<copy>>, NoWord,
                                 [queue |-> "out", link |-> l, elm |-> out[l].cur,
                                  value |-> k + 1])>>)
    /\ UNCHANGED <<request, confirm>>

\* Buffered to unbuffered: pack, and put at the receiver's address.
PutPacked(l) ==
    LET k == out[l].taken
        address == IF out[l].st = 201 THEN out[l].address ELSE AddressIn(request[l])
        copy == Copy(OutBuf(l, k), DstAt(l, address, k))
    IN
    /\ OutCall(l, 201)
    /\ out[l].taken - out[l].completed < BPQ
    /\ mem' = [mem EXCEPT ![OutBuf(l, k)] = Src(l, k)]
    /\ out' = [out EXCEPT ![l].taken = k + 1,
                          ![l].address = address,
                          ![l].st = IF LastTaken(l) THEN 299 ELSE 201]
    /\ Dispatch(l[1], <<IF LastTaken(l)
                        THEN DmaRequest(<<copy>>, Confirm(l, 1), NoNote)
                        ELSE DmaRequest(<<copy>>, NoWord,
                                 [queue |-> "out", link |-> l, elm |-> out[l].cur,
                                  value |-> k + 1])>>)
    /\ UNCHANGED <<request, confirm>>

\* Buffered to buffered: pack, and put into the receiver's buffer.
PutBuffer(l) ==
    LET k == out[l].taken IN
    /\ OutCall(l, 202)
    /\ ~WindowShut(l)
    /\ mem' = [mem EXCEPT ![OutBuf(l, k)] = Src(l, k)]
    /\ out' = [out EXCEPT ![l].taken = k + 1, ![l].st = IF LastTaken(l) THEN 299 ELSE 202]
    /\ Dispatch(l[1], <<DmaRequest(<<Copy(OutBuf(l, k), InBuf(l, k))>>,
                                   Confirm(l, k + 1), NoNote)>>)
    /\ UNCHANGED <<request, confirm>>

\* Unbuffered to buffered: put from user memory into the receiver's buffer.
PutDirect(l) ==
    LET k == out[l].taken IN
    /\ OutCall(l, 203)
    /\ ~WindowShut(l)
    /\ out' = [out EXCEPT ![l].taken = k + 1, ![l].st = IF LastTaken(l) THEN 299 ELSE 203]
    /\ Dispatch(l[1], <<DmaRequest(<<Copy(Src(l, k), InBuf(l, k))>>,
                                   Confirm(l, k + 1), NoNote)>>)
    /\ UNCHANGED <<request, confirm, mem>>

\* Unbuffered to unbuffered: one put of the whole element.
PutZeroCopy(l) ==
    LET n == OutElem(l).frags IN
    /\ OutCall(l, 204)
    /\ out' = [out EXCEPT ![l].st = 299]
    /\ Dispatch(l[1], <<DmaRequest(
                           [k \in 1 .. n |-> Copy(Src(l, k - 1),
                                                  DstAt(l, AddressIn(request[l]), k - 1))],
                           Confirm(l, 1), NoNote)>>)
    /\ UNCHANGED <<request, confirm, mem>>

\* The host packs a buffer and announces it; the Trimedia fetches it.
HostPack(l) ==
    LET k == out[l].taken IN
    /\ OutCall(l, 302)
    /\ ~WindowShut(l)
    /\ mem' = [mem EXCEPT ![OutBuf(l, k)] = Src(l, k)]
    /\ out' = [out EXCEPT ![l].taken = k + 1, ![l].st = IF LastTaken(l) THEN 304 ELSE 302]
    /\ PioWriteRemote(l[1], Confirm(l, k + 1))

\* Mutant: the sender does not wait for the receiver.
OutFinishEarly(l) ==
    /\ OutCall(l, 299) \/ OutCall(l, 304)
    /\ out' = [out EXCEPT ![l] = Finished(@)]
    /\ PioWriteRemote(l[1], Confirm(l, 0))
    /\ UNCHANGED mem

\* States 299 and 304: the receiver has it all; tell it that we know.
OutFinish(l) ==
    /\ OutCall(l, 299) \/ OutCall(l, 304)
    /\ request[l] = 0
    /\ out' = [out EXCEPT ![l] = Finished(@)]
    /\ PioWriteRemote(l[1], Confirm(l, 0))
    /\ UNCHANGED mem

(***************************************************************************)
(* emb_process_incoming, in the same way.  A first call of the host or for *)
(* the host posts its request and goes on to poll; OUTGOING_CONFIRM is     *)
(* then 0 (IdleWords), so that poll finds nothing.                         *)
(***************************************************************************)
InCase(l) ==
    IF in[l].st # 0 THEN in[l].st ELSE IF Self(l) THEN 100 ELSE 200

InCall(l, case) ==
    /\ pc[l[2]] = "fence"
    /\ Busy(in[l])
    /\ InCase(l) = case
    /\ UNCHANGED <<prog, pc, round, out>>

\* A transfer to self is the business of the outgoing queue.
SelfSkip(l) ==
    /\ InCall(l, 100)
    /\ in' = [in EXCEPT ![l] = Finished(@)]
    /\ UNCHANGED <<request, confirm, mem, dma>>

\* Post a request: with an address where a Trimedia may put directly.
PostRequest(l) ==
    LET contiguous == InElem(l).recvContiguous
        zeroCopy == contiguous /\ ~Host(l[1]) /\ ~Host(l[2])
        next == IF zeroCopy THEN 298
                ELSE IF ~Host(l[1]) THEN 202
                ELSE IF contiguous THEN 303 ELSE 302
    IN
    /\ InCall(l, 200)
    /\ in' = [in EXCEPT ![l].st = next]
    /\ PioWriteRemote(l[2], Request(l, IF zeroCopy
                                       THEN Address(round[l[2]], in[l].cur)
                                                + MASK_ZEROCOPY + MASK_REQUEST
                                       ELSE MASK_REQUEST))
    /\ UNCHANGED mem

\* Unpack buffer k, and confirm it or, after the last, all of it.
UnpackAndConfirm(l, requests, taken) ==
    LET k == in[l].unpacked
        last == k + 1 = InElem(l).frags
    IN
    /\ mem' = [mem EXCEPT ![Dst(l, k)] = mem[InBuf(l, k)]]
    /\ in' = [in EXCEPT ![l].unpacked = k + 1,
                        ![l].taken = taken,
                        ![l].st = IF last THEN 299 ELSE @]
    /\ DispatchAndWrite(l[2], requests, Request(l, IF last THEN 0 ELSE k + 2))

\* Buffered receive of what a Trimedia put.
UnpackPut(l) ==
    /\ InCall(l, 202)
    /\ confirm[l] # in[l].unpacked
    /\ UnpackAndConfirm(l, <<>>, in[l].taken)

\* Direct receive: the put has arrived.
PutArrived(l) ==
    /\ InCall(l, 298)
    /\ confirm[l] # 0
    /\ in' = [in EXCEPT ![l].st = 299]
    /\ PioWriteRemote(l[2], Request(l, 0))
    /\ UNCHANGED mem

\* The requests of case 302 and 303 for fragments from .. n - 1.
GetBuffers(l, from, n) ==
    [j \in 1 .. n - from |->
        DmaRequest(<<Copy(OutBuf(l, from + j - 1), InBuf(l, from + j - 1))>>, NoWord,
                   [queue |-> "in", link |-> l, elm |-> in[l].cur, value |-> from + j])]
GetDirect(l, from, n) ==
    [j \in 1 .. n - from |->
        LET k == from + j - 1 IN
        DmaRequest(<<Copy(OutBuf(l, k), Dst(l, k))>>,
                   Request(l, IF k + 1 = InElem(l).frags THEN 0 ELSE k + 2), NoNote)]

\* Buffered receive from the host: get every announced buffer, and unpack
\* one that has arrived.
GetAndUnpack(l) ==
    LET n == confirm[l]
        gets == GetBuffers(l, in[l].taken, n)
    IN
    /\ InCall(l, 302)
    /\ \/ /\ in[l].unpacked # in[l].completed
          /\ UnpackAndConfirm(l, gets, IF in[l].taken < n THEN n ELSE in[l].taken)
       \/ /\ in[l].unpacked = in[l].completed
          /\ in[l].taken < n
          /\ in' = [in EXCEPT ![l].taken = n]
          /\ Dispatch(l[2], gets)
          /\ UNCHANGED <<request, confirm, mem>>

\* Unbuffered receive from the host: get into user memory; the last get
\* tells the host.
GetToUser(l) ==
    LET n == confirm[l] IN
    /\ InCall(l, 303)
    /\ in[l].taken < n
    /\ in' = [in EXCEPT ![l].taken = n,
                        ![l].st = IF n = InElem(l).frags THEN 304 ELSE 303]
    /\ Dispatch(l[2], GetDirect(l, in[l].taken, n))
    /\ UNCHANGED <<request, confirm, mem>>

\* Mutant: the receiver does not wait until the sender knows.
InFinishEarly(l) ==
    /\ InCall(l, 299) \/ InCall(l, 304)
    /\ in' = [in EXCEPT ![l] = Finished(@)]
    /\ UNCHANGED <<request, confirm, mem, dma>>

\* Mutant: the last case returns its own number.
InFinishNever(l) ==
    /\ InCall(l, 299) \/ InCall(l, 304)
    /\ confirm[l] = 0
    /\ in' = [in EXCEPT ![l].st = 304]
    /\ UNCHANGED <<request, confirm, mem, dma>>

\* States 299 and 304: the sender knows.
InFinish(l) ==
    /\ InCall(l, 299) \/ InCall(l, 304)
    /\ confirm[l] = 0
    /\ in' = [in EXCEPT ![l] = Finished(@)]
    /\ UNCHANGED <<request, confirm, mem, dma>>

(***************************************************************************)
(* The DMA engines.                                                        *)
(***************************************************************************)
DmaCopy(p) ==
    /\ dma[p] # <<>>
    /\ LET copies == dma[p][1].copies IN
           /\ copies # <<>>
           /\ mem' = [mem EXCEPT ![Head(copies).to] = Content(Head(copies).from)]
           /\ dma' = [dma EXCEPT ![p][1].copies = Tail(@)]
    /\ UNCHANGED <<prog, pc, round, out, in, request, confirm>>

DmaWord(p) ==
    /\ dma[p] # <<>>
    /\ dma[p][1].copies = <<>>
    /\ dma[p][1].word # NoWord
    /\ StoreWord(dma[p][1].word)
    /\ dma' = [dma EXCEPT ![p][1].word = NoWord]
    /\ UNCHANGED <<prog, pc, round, out, in, mem>>

\* dma_completion_function, an interrupt.
DmaComplete(p) ==
    /\ dma[p] # <<>>
    /\ dma[p][1].copies = <<>>
    /\ dma[p][1].word = NoWord
    /\ LET note == dma[p][1].note IN
           /\ out' = IF note.queue = "out" THEN [out EXCEPT ![note.link].completed = note.value]
                                           ELSE out
           /\ in' = IF note.queue = "in" THEN [in EXCEPT ![note.link].completed = note.value]
                                         ELSE in
    /\ dma' = [dma EXCEPT ![p] = Tail(@)]
    /\ UNCHANGED <<prog, pc, round, request, confirm, mem>>

Terminated ==
    /\ \A p \in Proc : pc[p] = "done"
    /\ UNCHANGED vars

OutStep(l) ==
    \/ SelfPack(l) \/ SelfUnpack(l) \/ PutPacked(l) \/ PutBuffer(l) \/ PutDirect(l)
    \/ PutZeroCopy(l) \/ HostPack(l) \/ OutFinish(l)
InStep(l) ==
    \/ SelfSkip(l) \/ PostRequest(l) \/ UnpackPut(l) \/ PutArrived(l)
    \/ GetAndUnpack(l) \/ GetToUser(l) \/ InFinish(l)
ProcStep(p) ==
    \/ \E q \in Proc : \/ EmbSend(<<p, q>>) \/ EmbRecv(<<q, p>>)
                      \/ OutStep(<<p, q>>) \/ InStep(<<q, p>>)
    \/ EnterFence(p) \/ LeaveLoop(p) \/ LeaveFence(p)
DmaStep(p) == DmaCopy(p) \/ DmaWord(p) \/ DmaComplete(p)

Next == Terminated \/ \E p \in Proc : ProcStep(p) \/ DmaStep(p)

\* The loop of emb_fence goes round as long as a machine has work, and calls
\* that find nothing to do change nothing: so a processor whose program or
\* machines can take a step takes one.  The DMA engines do not stop.
Fairness == \A p \in Proc : WF_vars(ProcStep(p)) /\ WF_vars(DmaStep(p))

Spec == Init /\ [][Next]_vars /\ Fairness

-----------------------------------------------------------------------------
(***************************************************************************)
(* Properties.                                                             *)
(***************************************************************************)
States == {0, 100, 101, 200, 201, 202, 203, 299, 298, 300, 302, 303, 304}

\* The assertions on counters in the cases 201 (sending) and 202 (receiving).
CountersAgree ==
    \A l \in Link :
        /\ out[l].st = 201 => out[l].taken - out[l].completed \in 0 .. BPQ
        /\ in[l].st = 202 => in[l].unpacked <= confirm[l]

\* The ring of DMA requests (MAX_DMA_QUEUE = 100) never wraps onto one in use:
\* a processor has at most 2 * BPQ + 1 requests per peer outstanding, of which
\* MAX_PROCESSORS allows four.
DmaRing == \A p \in Proc : Len(dma[p]) <= (Cardinality(Proc) - 1) * (2 * BPQ + 1)

\* Types and ranges of the two queues, their words and the DMA engines: no
\* window of staging buffers and no ring of requests is overrun.
TypeOK ==
    /\ CountersAgree /\ DmaRing
    /\ prog \in Programs
    /\ pc \in [Proc -> {"register", "fence", "drain", "done"}]
    /\ round \in [Proc -> 1 .. Len(prog.fences) + 1]
    /\ \A q \in {out[l] : l \in Link} \union {in[l] : l \in Link} :
           /\ {q.nElm, q.taken, q.completed, q.unpacked, q.address} \subseteq Nat
           /\ q.cur \in 1 .. q.nElm + 1
           /\ q.st \in States
    /\ request \in [Link -> Nat]
    /\ confirm \in [Link -> Nat]
    /\ \A p \in Proc : \A j \in DOMAIN dma[p] :
           \A c \in Range(dma[p][j].copies) : c.to \in DOMAIN mem

\* The sender, or the receiver, has finished element e of fence r of link l.
OutDone(l, r, e) ==
    \/ r < round[l[1]]
    \/ r = round[l[1]] /\ (pc[l[1]] = "drain" \/ e < out[l].cur)
InDone(l, r, e) ==
    \/ r < round[l[2]]
    \/ r = round[l[2]] /\ (pc[l[2]] = "drain" \/ e < in[l].cur)
Arrived(l, r, e) ==
    \A k \in 0 .. prog.fences[r][l][e].frags - 1 : mem[DstCell(l, r, e, k)] = SrcCell(l, r, e, k)
\* No DMA engine still has to read or write user memory of an element that
\* its owner has finished: after emb_fence the program may reuse its memory.
NoLateAccess ==
    \A p \in Proc : \A j \in DOMAIN dma[p] : \A c \in Range(dma[p][j].copies) :
        /\ c.from[1] = "src" => ~OutDone(c.from[2], c.from[3], c.from[4])
        /\ c.to[1] = "dst" => ~InDone(c.to[2], c.to[3], c.to[4])

\* A completion interrupt sets the counter of the queue element it was
\* issued for, not of a later one.
NotesCurrent ==
    \A p \in Proc : \A j \in DOMAIN dma[p] :
        LET note == dma[p][j].note IN
        /\ note.queue = "out" => Busy(out[note.link]) /\ out[note.link].cur = note.elm
        /\ note.queue = "in" => Busy(in[note.link]) /\ in[note.link].cur = note.elm

\* Between two elements the receiver's OUTGOING_CONFIRM is 0 and no write to
\* it is under way: no confirmation is taken for one of the next element.
IdleWords ==
    \A l \in Link : in[l].st = 0 =>
        /\ confirm[l] = 0
        /\ \A j \in DOMAIN dma[l[1]] :
               LET w == dma[l[1]][j].word IN ~(w.name = "confirm" /\ w.link = l)

\* What DMA engines write behind the program's back, counters and words, is
\* written for the element that is in the queue, not for an earlier one.
WritesCurrent == NotesCurrent /\ IdleWords

\* Every emb_fence returns, in every program whose ends register alike.
Completes == <>(\A p \in Proc : pc[p] = "done")

(***************************************************************************)
(* EmbTransfer implements Exchange.  A processor has passed a fence when   *)
(* it leaves it; a link to itself is the outgoing queue's business alone.  *)
(***************************************************************************)
Registered(l) == UNION {{r} \X DOMAIN prog.fences[r][l] : r \in DOMAIN prog.fences}
SentThrough(l) == {x \in Registered(l) : OutDone(l, x[1], x[2])}
ReceivedThrough(l) == IF Self(l) THEN {} ELSE {x \in Registered(l) : InDone(l, x[1], x[2])}
ArrivedThrough(l) == {x \in SentThrough(l) : Arrived(l, x[1], x[2])}

Abstract == INSTANCE Exchange WITH
    load <- [r \in DOMAIN prog.fences |-> [l \in Link |-> Len(prog.fences[r][l])]],
    passed <- [p \in Proc |-> round[p] - 1],
    sent <- [l \in Link |-> SentThrough(l)],
    rcvd <- [l \in Link |-> ReceivedThrough(l)],
    arrived <- [l \in Link |-> ArrivedThrough(l)]
\* The transfers are the rendezvous that Exchange describes.  Whatever the kind
\* of transfer, an element that the sender has finished is completely in the
\* receiver's memory, each fragment in its place, and stays there: no staging
\* buffer was refilled before it was emptied.
AbstractSpec == Abstract!Spec
=============================================================================
