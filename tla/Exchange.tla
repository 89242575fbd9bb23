------------------------------ MODULE Exchange ------------------------------
(***************************************************************************)
(* What emb_send, emb_recv and emb_fence promise together.  Every link     *)
(* carries its elements in the order of registration.  A transfer is a     *)
(* rendezvous: the sender is through with an element only in one step with *)
(* its arrival, after both ends have come to the fence of that element;    *)
(* the receiver is through with it after that.  A processor passes its     *)
(* r-th fence when all it registered so far is through.                    *)
(*                                                                         *)
(* An element is a pair of its fence and its place in the queue.           *)
(***************************************************************************)
EXTENDS Integers, Sequences

CONSTANT Proc   \* the processors

Link == Proc \X Proc

VARIABLES
    load,       \* load[r][l]: elements registered on link l in the r-th fence
    passed,     \* passed[p]: fences p has passed
    sent,       \* sent[l]: elements the sender is through with
    rcvd,       \* rcvd[l]: elements the receiver is through with
    arrived     \* arrived[l]: the elements that are in the receiver's memory

vars == <<load, passed, sent, rcvd, arrived>>

Init ==
    /\ load \in Seq([Link -> Nat])
    \* A processor that takes no part has nothing registered and is past its fences.
    /\ passed \in [Proc -> {0, Len(load)}]
    /\ \A p \in Proc : passed[p] # 0 =>
           \A r \in DOMAIN load : \A q \in Proc : load[r][<<p, q>>] = 0 /\ load[r][<<q, p>>] = 0
    /\ sent = [l \in Link |-> {}]
    /\ rcvd = [l \in Link |-> {}]
    /\ arrived = [l \in Link |-> {}]

\* The elements of link l up to fence r.
Posted(l, r) == UNION {{s} \X (1 .. load[s][l]) : s \in {t \in DOMAIN load : t <= r}}
\* What both ends of link l have registered.
Ready(l) == Posted(l, passed[l[1]] + 1) \intersect Posted(l, passed[l[2]] + 1)

Earlier(x, y) == x[1] < y[1] \/ (x[1] = y[1] /\ x[2] < y[2])
IsFirst(x, S) == x \in S /\ \A y \in S \ {x} : Earlier(x, y)

Transfer(l) ==
    /\ \E x \in Ready(l) :
           /\ IsFirst(x, Ready(l) \ sent[l])
           /\ sent' = [sent EXCEPT ![l] = @ \union {x}]
           /\ arrived' = [arrived EXCEPT ![l] = @ \union {x}]
    /\ UNCHANGED <<load, passed, rcvd>>

Receive(l) ==
    /\ l[1] # l[2]      \* an element to oneself is through when it is sent
    /\ \E x \in sent[l] :
           /\ IsFirst(x, sent[l] \ rcvd[l])
           /\ rcvd' = [rcvd EXCEPT ![l] = @ \union {x}]
    /\ UNCHANGED <<load, passed, sent, arrived>>

Pass(p) ==
    /\ passed[p] < Len(load)
    /\ \A q \in Proc : /\ sent[<<p, q>>] = Posted(<<p, q>>, passed[p] + 1)
                       /\ q # p => rcvd[<<q, p>>] = Posted(<<q, p>>, passed[p] + 1)
    /\ passed' = [passed EXCEPT ![p] = @ + 1]
    /\ UNCHANGED <<load, sent, rcvd, arrived>>

Next ==
    \/ \E l \in Link : Transfer(l) \/ Receive(l)
    \/ \E p \in Proc : Pass(p)

\* What may happen; that everything does happen is Completes of EmbTransfer.
Spec == Init /\ [][Next]_vars
=============================================================================
