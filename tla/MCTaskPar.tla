----------------------------- MODULE MCTaskPar -----------------------------
(***************************************************************************)
(* Model checking of TaskPar: the programs that run.                       *)
(***************************************************************************)
EXTENDS TaskPar

SendTo(dest) == <<[op |-> "send", dest |-> dest]>>
ReceiveFrom(s) == <<[op |-> "receive", peer |-> s]>>
Meets == <<[op |-> "barrier"]>>
TSend(t) == <<[op |-> "tsend", peer |-> t]>>
TReceives(t) == <<[op |-> "treceive", peer |-> t]>>
Task(p, prio, body) == [mapping |-> p, priority |-> prio, body |-> body]

Three == <<3>>

Quiet == [p \in Proc |-> <<>>]
Program(g, calls, tasks) == [glue |-> g, calls |-> calls, tasks |-> tasks]
All == AllProcessorBits * numberOfProcessors

\* Processor 1 receives in another order than processor 0 sends: task 3 waits
\* for the second message for it while one for task 4 comes first.
Crossed(p, q) ==
    <<Task(p, 1, TSend(4) \o TSend(3)), Task(p, 2, TSend(4) \o TSend(3) \o TReceives(3)),
      Task(q, 5, TReceives(2) \o TReceives(1) \o TSend(2)), Task(q, 7, TReceives(2) \o TReceives(1))>>
\* Tasks of one priority, added in the other order than they are sorted; two
\* messages between one pair of tasks; three processors.
Ties ==
    <<Task(1, 2, TReceives(3) \o TSend(4)), Task(1, 2, TReceives(3) \o TReceives(3)),
      Task(0, 1, TSend(2) \o TSend(2) \o TSend(1)), Task(2, 2, TReceives(1))>>
\* A task sends to itself and to another task of its processor.
Within == <<Task(0, 1, TSend(1) \o TSend(2) \o TReceives(1)), Task(0, 2, TReceives(1))>>

PassPrograms ==
    {Program("panda", Quiet, Crossed(0, 1)), Program("mpi", Quiet, Crossed(2, 0)),
     Program("panda", Quiet, Ties), Program("mpi", Quiet, Ties),
     Program("panda", Quiet, Within),
     Program("panda", [p \in Proc |-> IF p = 1 THEN SendTo(All) \o ReceiveFrom(1) \o Meets
                                      ELSE ReceiveFrom(1) \o Meets], <<>>),
     Program("panda", [p \in Proc |-> Meets \o Meets], Crossed(1, 0)),
     Program("mpi", [p \in Proc |-> Meets \o IF p = 0 THEN SendTo(All) \o ReceiveFrom(0) \o Meets
                                    ELSE Meets \o ReceiveFrom(0)], <<>>)}

\* A task sends to a task of its own processor, on MPI.
WithinOnMpi == {Program("mpi", Quiet, Within)}
=============================================================================
