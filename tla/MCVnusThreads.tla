--------------------------- MODULE MCVnusThreads ---------------------------
(***************************************************************************)
(* Model checking of VnusThreads: the programs that run.                   *)
(***************************************************************************)
EXTENDS VnusThreads, TLC

Send(d) == <<[op |-> "send", peer |-> d, size |-> 1]>>
Receive(s) == <<[op |-> "receive", peer |-> s, size |-> 1]>>
Big(s) == <<[op |-> "receive", peer |-> s, size |-> 2]>>
Meets == <<[op |-> "barrier"]>>

Signalled(calls) == [calls |-> calls, spurious |-> FALSE]
Unsignalled(calls) == [calls |-> calls, spurious |-> TRUE]

\* Two barriers with messages on both sides of them; a pipeline in which two
\* messages may queue up; a broadcast, which its sender receives too; a
\* receiver that expects another size.
ThreeThreads ==
    {0 :> Send(1) \o Meets \o Receive(2) \o Meets
        @@ 1 :> Receive(0) \o Meets \o Meets
        @@ 2 :> Meets \o Send(0) \o Meets,
     0 :> Send(1) \o Send(1) \o Receive(2)
        @@ 1 :> Receive(0) \o Send(2) \o Receive(0) \o Send(2)
        @@ 2 :> Receive(1) \o Send(0) \o Receive(1),
     0 :> Broadcast(1) \o Receive(0) \o Meets
        @@ 1 :> Receive(0) \o Meets
        @@ 2 :> Receive(0) \o Meets,
     0 :> Send(1) \o Send(1) @@ 1 :> Receive(0) \o Big(0) @@ 2 :> <<>>}

\* Messages only, in both directions, and to oneself.
Messages ==
    {0 :> Send(1) \o Send(1) \o Receive(1) @@ 1 :> Receive(0) \o Send(0) \o Receive(0) @@ 2 :> <<>>,
     0 :> Broadcast(1) \o Receive(0) \o Receive(1)
        @@ 1 :> Broadcast(1) \o Receive(1) \o Receive(0) @@ 2 :> Receive(1)}

TwoThreads == 0 :> Send(1) \o Meets \o Meets @@ 1 :> Receive(0) \o Meets \o Meets

AllThree == {Signalled(p) : p \in ThreeThreads} \union {Unsignalled(p) : p \in Messages}
TwoSignalled == {Signalled(TwoThreads)}
=============================================================================
