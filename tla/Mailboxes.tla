----------------------------- MODULE Mailboxes -----------------------------
(***************************************************************************)
(* Point-to-point messages of two of the glues: glue/panda.cc, and         *)
(* glue/mpi.cc with glue/mpihack.cc.                                       *)
(*                                                                         *)
(* Panda delivers a message by an upcall (handle_msg) in a thread of its   *)
(* own, which appends it to the queue of its sender; vnus_receive takes    *)
(* the first message of such a queue and sleeps on a condition while there *)
(* is none.  Only the one program thread of a process receives.  Panda     *)
(* itself and MPI are external: they keep the order of the messages of a   *)
(* pair of processors and lose none.  A send returns when the message is   *)
(* on its way.                                                             *)
(*                                                                         *)
(* MPI is not used by a processor that sends to itself: such messages are  *)
(* kept in a list (`Hack_Bsend').                                          *)
(***************************************************************************)
EXTENDS Integers, Sequences

CONSTANT N      \* number of processors

ASSUME NAssumption == N \in Nat \ {0}

VARIABLES
    glue,       \* "panda" or "mpi"
    wire,       \* wire[<<d, s>>]: messages from s to d inside Panda or MPI
    queue,      \* queue[<<d, s>>]: d's queues[s], in Panda
    waiting,    \* waiting[<<d, s>>]: its counter of that name
    asleep,     \* asleep[<<d, s>>]: d sleeps in its condition got_some
    hack        \* hack[p]: the list of mpihack.cc

mailVars == <<glue, wire, queue, waiting, asleep, hack>>

Proc == 0 .. N - 1
Pair == Proc \X Proc

MailInit ==
    /\ wire = [b \in Pair |-> <<>>]
    /\ queue = [b \in Pair |-> <<>>]
    /\ waiting = [b \in Pair |-> 0]
    /\ asleep = [b \in Pair |-> FALSE]
    /\ hack = [p \in Proc |-> <<>>]

\* A message that s sends to d never leaves the process.
Kept(s, d) == glue = "mpi" /\ d = s

\* vnus_send_real
SendReal(s, d, m) ==
    /\ IF Kept(s, d)
       THEN hack' = [hack EXCEPT ![s] = <<m>> \o @] /\ UNCHANGED wire
       ELSE wire' = [wire EXCEPT ![<<d, s>>] = Append(@, m)] /\ UNCHANGED hack
    /\ UNCHANGED <<glue, queue, waiting, asleep>>

\* Mutant: wakes the receiver only if more than one waits.
UpcallSilent(d, s) ==
    /\ glue = "panda"
    /\ wire[<<d, s>>] # <<>>
    /\ wire' = [wire EXCEPT ![<<d, s>>] = Tail(@)]
    /\ queue' = [queue EXCEPT ![<<d, s>>] = Append(@, Head(wire[<<d, s>>]))]
    /\ asleep' = [asleep EXCEPT ![<<d, s>>] = @ /\ waiting[<<d, s>>] <= 1]
    /\ UNCHANGED <<glue, waiting, hack>>

\* Mutant: wakes the receiver, and keeps the message for another time.
UpcallLater(d, s) ==
    /\ glue = "panda"
    /\ wire[<<d, s>>] # <<>>
    /\ asleep' = [asleep EXCEPT ![<<d, s>>] = FALSE]
    /\ IF asleep[<<d, s>>] THEN UNCHANGED <<wire, queue>>
       ELSE /\ wire' = [wire EXCEPT ![<<d, s>>] = Tail(@)]
            /\ queue' = [queue EXCEPT ![<<d, s>>] = Append(@, Head(wire[<<d, s>>]))]
    /\ UNCHANGED <<glue, waiting, hack>>

\* Panda calls handle_msg in d for a message of s: one critical section, with
\* the signal inside it.
Upcall(d, s) ==
    /\ glue = "panda"
    /\ wire[<<d, s>>] # <<>>
    /\ wire' = [wire EXCEPT ![<<d, s>>] = Tail(@)]
    /\ queue' = [queue EXCEPT ![<<d, s>>] = Append(@, Head(wire[<<d, s>>]))]
    /\ asleep' = [asleep EXCEPT ![<<d, s>>] = @ /\ waiting[<<d, s>>] = 0]
    /\ UNCHANGED <<glue, waiting, hack>>

\* msg_q_deq finds the queue empty, also after it was woken.
Sleep(d, s) ==
    /\ glue = "panda"
    /\ ~asleep[<<d, s>>]
    /\ queue[<<d, s>>] = <<>>
    /\ asleep' = [asleep EXCEPT ![<<d, s>>] = TRUE]
    /\ waiting' = [waiting EXCEPT ![<<d, s>>] = 1]
    /\ UNCHANGED <<glue, wire, queue, hack>>

\* The messages from s that d can take without waiting.
Box(d, s) ==
    CASE glue = "panda" -> IF asleep[<<d, s>>] THEN <<>> ELSE queue[<<d, s>>]
      [] Kept(s, d) -> hack[d]
      [] OTHER -> wire[<<d, s>>]

\* vnus_receive takes the first of them.
Take(d, s) ==
    /\ Box(d, s) # <<>>
    /\ IF glue = "panda"
       THEN /\ queue' = [queue EXCEPT ![<<d, s>>] = Tail(@)]
            /\ waiting' = [waiting EXCEPT ![<<d, s>>] = 0]
            /\ UNCHANGED <<wire, hack>>
       ELSE /\ IF Kept(s, d)
               THEN hack' = [hack EXCEPT ![d] = Tail(@)] /\ UNCHANGED wire
               ELSE wire' = [wire EXCEPT ![<<d, s>>] = Tail(@)] /\ UNCHANGED hack
            /\ UNCHANGED <<queue, waiting>>
    /\ UNCHANGED <<glue, asleep>>

\* Hack_Recv asserts that its list has a message.
NoneKept(d, s) == Kept(s, d) /\ hack[d] = <<>>

\* vnus_receive of a message that may not be there: then nothing is taken, and
\* the program ends.
VnusReceive(d, s) == IF NoneKept(d, s) THEN UNCHANGED mailVars ELSE Take(d, s)
=============================================================================
