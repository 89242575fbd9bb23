------------------------------- MODULE MCSpmd -------------------------------
(***************************************************************************)
(* Model checking of Spmd: the programs that run, on a 2 x 2 array of      *)
(* processors.                                                             *)
(***************************************************************************)
EXTENDS Spmd

Square == <<2, 2>>

Array(base, sizes, owner) == [base |-> base, sizes |-> sizes, owner |-> owner]
\* The index a * x[var] + b.
Ax(var, a, b) == [var |-> var, a |-> a, b |-> b]
X == Ax(1, 1, 0)
Y == Ax(2, 1, 0)
From(l, u) == [lower |-> l, upper |-> u, stride |-> 1]

\* The arrays of all programs: their names say how they are distributed.
Arrays ==
    [block |-> Array(0, <<8>>, Distributed(<<Block(2, 4)>>)),
     block2 |-> Array(200, <<8>>, Distributed(<<Block(2, 4)>>)),
     cyclic |-> Array(20, <<8>>, Distributed(<<Cyclic(4)>>)),
     bc |-> Array(40, <<11>>, Distributed(<<BlockCyclic(2, 4)>>)),
     repl |-> Array(60, <<4>>, Everywhere),
     grid |-> Array(100, <<3, 4>>, Distributed(<<Block(2, 2), Cyclic(2)>>)),
     dealt |-> Array(300, <<4, 5>>, Distributed(<<Cyclic(2), BlockCyclic(1, 2)>>)),
     column |-> Array(500, <<4, 1>>, Distributed(<<Block(2, 2), [kind |-> "all"]>>))]

Ref(name, index) == [array |-> name, index |-> index, owner |-> Arrays[name].owner]
Foreach(loop, lhs, rhs) ==
    [kind |-> "foreach", loop |-> loop, independent |-> TRUE, stencil |-> FALSE, lhs |-> lhs, rhs |-> rhs]
InOrder(s) == [s EXCEPT !.independent = FALSE]
Stencil(s) == [s EXCEPT !.stencil = TRUE]
Reduce(loop, lhs, r) == [kind |-> "reduction", loop |-> loop, lhs |-> lhs, rhs |-> <<r>>]
SendElement(from, dest, lhs, r) ==
    [kind |-> "multicast", loop |-> <<From(0, 1)>>, from |-> from, dest |-> dest, lhs |-> lhs, rhs |-> <<r>>]

Program(g, statements) ==
    [glue |-> g, statements |-> statements,
     arrays |-> [a \in {r.array : r \in UNION {References(statements[k]) : k \in DOMAIN statements}}
                 |-> Arrays[a]]]

\* Between two distributions, forwards and backwards, with gaps.
Redistribute == Foreach(<<From(0, 8)>>, Ref("block", <<X>>), <<Ref("cyclic", <<X>>)>>)
Backwards == Foreach(<<[lower |-> 1, upper |-> 8, stride |-> 2]>>, Ref("cyclic", <<Ax(1, -1, 7)>>),
                     <<Ref("bc", <<X>>)>>)
Scatter == Foreach(<<[lower |-> 0, upper |-> 5, stride |-> 1]>>, Ref("bc", <<Ax(1, 2, 1)>>),
                   <<Ref("block", <<X>>), Ref("cyclic", <<Ax(1, 1, 2)>>)>>)
Neighbours == Stencil(Foreach(<<From(1, 7)>>, Ref("block2", <<X>>),
                              <<Ref("block", <<Ax(1, 1, -1)>>), Ref("block", <<Ax(1, 1, 1)>>)>>))
\* Every element needs the one before it.
Recurrence == InOrder(Foreach(<<From(1, 6)>>, Ref("block", <<X>>),
                              <<Ref("block", <<Ax(1, 1, -1)>>), Ref("cyclic", <<X>>)>>))
Copies == InOrder(Foreach(<<From(0, 3)>>, Ref("repl", <<X>>), <<Ref("bc", <<Ax(1, 3, 1)>>)>>))
CopyOne == InOrder(Foreach(<<From(1, 2)>>, Ref("repl", <<X>>), <<Ref("bc", <<Ax(1, 3, 1)>>)>>))
Shift == Stencil(Foreach(<<From(1, 7)>>, Ref("block2", <<X>>), <<Ref("block", <<Ax(1, 1, 1)>>)>>))
AllCopy == Foreach(<<From(0, 4)>>, Ref("repl", <<X>>), <<Ref("cyclic", <<Ax(1, 2, 0)>>)>>)
Add == Foreach(<<From(0, 4)>>, Ref("block", <<X>>), <<Ref("repl", <<X>>), Ref("block", <<X>>)>>)
SumAll == Reduce(<<From(0, 7)>>, Ref("repl", <<Ax(1, 0, 2)>>), Ref("cyclic", <<X>>))
SumOne == Reduce(<<From(2, 8)>>, Ref("block", <<Ax(1, 0, 3)>>), Ref("block2", <<X>>))
Transpose == Foreach(<<From(0, 3), From(0, 4)>>, Ref("grid", <<X, Y>>), <<Ref("dealt", <<Y, X>>)>>)
Rows == Foreach(<<From(0, 4), From(1, 3)>>, Ref("dealt", <<X, Ax(2, 2, 0)>>),
                <<Ref("grid", <<Y, X>>), Ref("dealt", <<X, Y>>)>>)

PassPrograms ==
    <<Program("mpi", <<Redistribute, Backwards>>), Program("mpi", <<Scatter>>),
      Program("mpi", <<Neighbours, Redistribute>>), Program("mpi", <<Recurrence>>),
      Program("mpi", <<Copies, Add>>), Program("mpi", <<AllCopy, Add>>),
      Program("mpi", <<SumAll, Add>>), Program("mpi", <<SumOne, SumAll>>),
      Program("mpi", <<Transpose>>), Program("mpi", <<Rows>>),
      Program("mpi", <<SendElement(1, 2 * numberOfProcessors + 1, Ref("column", <<Ax(1, 0, 2), X>>),
                                   Ref("block", <<Ax(1, 0, 2)>>))>>),
      Program("panda", <<CopyOne>>), Program("panda", <<Shift>>)>>

\* A block distribution that is gone through from its end.
Reversed ==
    <<Program("mpi", <<Foreach(<<From(0, 6)>>, Ref("block", <<Ax(1, -1, 5)>>), <<Ref("cyclic", <<X>>)>>)>>)>>
=============================================================================
