-------------------------------- MODULE Spmd --------------------------------
(***************************************************************************)
(* A data-parallel program on a distributed machine: what the mapper makes *)
(* of its statements (Mapper), run by a processor each, with the messages  *)
(* of the glue between them (Mailboxes).  Every processor has room for all *)
(* of every array; an element that it does not own is stale there.         *)
(*                                                                         *)
(* The sequential program is the specification: after every statement the  *)
(* owners of an element have the value that the sequential program has.    *)
(*                                                                         *)
(* Bounds: the programs of the MC module.                                  *)
(***************************************************************************)
EXTENDS Mapper, Mailboxes

CONSTANT Programs       \* the programs considered, a sequence

ASSUME DimsNAssumption == numberOfProcessors = N

\* The elements of a program: those of its arrays, and the local variables of
\* a reduction.
Elements(prog) ==
    UNION {{<<a, idx>> : idx \in {i \in [DOMAIN prog.arrays[a].sizes -> 0 .. 15] :
                                      \A k \in DOMAIN i : i[k] < prog.arrays[a].sizes[k]}}
           : a \in DOMAIN prog.arrays}
Places(prog) == Elements(prog) \union {Local("sum"), Local("tmp")}

References(s) == {s.lhs} \union Range(s.rhs)

\* No statement leaves its arrays, and a reference says whose element it is.
ASSUME ProgramAssumption ==
    \A i \in DOMAIN Programs :
        /\ Programs[i].glue \in {"panda", "mpi"}
        /\ \A k \in DOMAIN Programs[i].statements :
               LET s == Programs[i].statements[k] IN
               \A r \in References(s) :
                   /\ r.owner = Programs[i].arrays[r.array].owner
                   /\ \A j \in DOMAIN All(s.loop) : Place(r, All(s.loop)[j]) \in Elements(Programs[i])

VARIABLES
    program,    \* the number of the program that runs
    code,       \* code[p]: what the mapper has made of it for p
    at,         \* at[p]: the Vnus statement that p is at
    mem         \* mem[p]: its copies of the elements

vars == <<program, code, at, mem, mailVars>>

\* Whether q has an element; `all' processors of a dimension have it.
Owns(prog, place, q) ==
    LET owner == prog.arrays[place[1]].owner
    IN  \A k \in DOMAIN owner.distr :
            \/ owner.distr[k].kind = "all"
            \/ GenInline(owner.distr[k], place[2][k]) = ProcList(owner, q, k)

Stale == -1000
FirstValue(prog, place) ==
    prog.arrays[place[1]].base + FoldLeft(LAMBDA n, i : 16 * n + i, 0, place[2])

\* The value of an assignment in a memory.
Sum(m, operands) == FoldLeft(LAMBDA n, place : n + m[place], 0, operands)
Assigning(m, assignment) == [m EXCEPT ![assignment.place] = Sum(m, assignment.operands)]

\* What a statement means: one assignment after the other.
Meaning(m, s) ==
    FoldLeft(LAMBDA n, x : Assigning(n, Assign(Place(s.lhs, x),
                 (IF s.kind = "reduction" THEN <<Place(s.lhs, x)>> ELSE <<>>) \o Operands(s, x))),
             m, All(s.loop))

\* After[i][k + 1]: the elements after k statements of the sequential program i.
After ==
    [i \in DOMAIN Programs |->
        LET prog == Programs[i]
            first == [place \in Elements(prog) |-> FirstValue(prog, place)]
        IN  FoldLeft(LAMBDA ms, s : Append(ms, Meaning(Last(ms), s)), <<first>>, prog.statements)]

\* The Vnus statements of processor p for a program, each with the number of
\* the statement that it comes from.
Code(prog, p) ==
    LET of(k) == Over(Compiled(prog.statements[k], p), LAMBDA v : [statement |-> k, vnus |-> v])
    IN  FlattenSeq([k \in DOMAIN prog.statements |-> of(k)])

Prog == Programs[program]
Finished(p) == at[p] > Len(code[p])
Current(p) == code[p][at[p]]
InStatement(p, op) == ~Finished(p) /\ Current(p).vnus.op = op
Vnus(p) == Current(p).vnus

Init ==
    /\ program \in DOMAIN Programs
    /\ code = [p \in Proc |-> Code(Prog, p)]
    /\ glue = Prog.glue
    /\ MailInit
    /\ at = [p \in Proc |-> 1]
    /\ mem = [p \in Proc |-> [place \in Places(Prog) |->
                 IF place \in Elements(Prog) /\ Owns(Prog, place, p) THEN FirstValue(Prog, place)
                 ELSE Stale]]

Advance(p) == at' = [at EXCEPT ![p] = @ + 1]

\* The elements are packed and sent; the message says here for which x they are.
Send(p) ==
    /\ InStatement(p, "send")
    /\ SendReal(p, Vnus(p).peer,
                [statement |-> Current(p).statement, xs |-> Vnus(p).xs,
                 values |-> [i \in DOMAIN Vnus(p).places |-> mem[p][Vnus(p).places[i]]]])
    /\ Advance(p)
    /\ UNCHANGED <<program, code, mem>>

\* The elements of a message are unpacked in the order of the loop.
Receive(p) ==
    /\ InStatement(p, "receive")
    /\ Take(p, Vnus(p).peer)
    /\ LET m == Head(Box(p, Vnus(p).peer))
           places == Vnus(p).places
       IN  mem' = [mem EXCEPT ![p] =
               [place \in DOMAIN @ |-> IF place \in Range(places)
                    THEN m.values[Max({i \in DOMAIN places : places[i] = place})]
                    ELSE @[place]]]
    /\ Advance(p)
    /\ UNCHANGED <<program, code>>

ComputeLoop(p) ==
    /\ InStatement(p, "compute")
    /\ mem' = [mem EXCEPT ![p] = FoldLeft(Assigning, mem[p], Vnus(p).assignments)]
    /\ Advance(p)
    /\ UNCHANGED <<program, code, mailVars>>

FallAsleep(p) ==
    /\ InStatement(p, "receive")
    /\ Sleep(p, Vnus(p).peer)
    /\ UNCHANGED <<program, code, at, mem>>

HandleMessage(d, s) == Upcall(d, s) /\ UNCHANGED <<program, code, at, mem>>

ProcStep(p) == Send(p) \/ Receive(p) \/ ComputeLoop(p) \/ FallAsleep(p)
Ended == \A p \in Proc : Finished(p)

Next ==
    \/ \E p \in Proc : ProcStep(p)
    \/ \E d, s \in Proc : HandleMessage(d, s)
    \/ Ended /\ UNCHANGED vars

\* Every process runs, and Panda and MPI deliver every message.
Spec ==
    /\ Init /\ [][Next]_vars
    /\ \A p \in Proc : WF_vars(ProcStep(p))
    /\ \A d, s \in Proc : WF_vars(HandleMessage(d, s))

-----------------------------------------------------------------------------
(***************************************************************************)
(* Properties.                                                             *)
(***************************************************************************)
\* Types; and no message carries a value that its sender does not have: it is
\* of an owner, or the sender has received it.
TypeOK ==
    /\ \A p \in Proc : at[p] \in 1 .. Len(code[p]) + 1
    /\ \A d, s \in Proc :
           /\ waiting[<<d, s>>] \in {0, 1}
           /\ asleep[<<d, s>>] => InStatement(d, "receive") /\ Vnus(d).peer = s
           /\ \A m \in Range(wire[<<d, s>>]) \union Range(queue[<<d, s>>]) : Stale \notin Range(m.values)

\* The loops of every processor over a distributed array (applyoa5, with the
\* bounds of vnus_blus, vnus_clus and vnus_bclus) visit every x whose element
\* the processor owns, once, and no other, before anything has run.
OwnVisited ==
    (\A p \in Proc : at[p] = 1) =>
        \A k \in DOMAIN Prog.statements :
            LET s == Prog.statements[k]
                xs == Range(All(s.loop))
            IN  \A r \in {r \in References(s) : s.kind # "multicast"}, p \in Proc :
                    LET visits == Visits(s.loop, IsNewOwner(r, p))
                    IN  /\ IsInjective(visits)
                        /\ Range(visits) = {x \in xs : Owns(Prog, Place(r, x), p)}

\* The receives of d from s that are to come, and the messages on their way.
Expected(d, s) ==
    SelectSeq(SubSeq(code[d], at[d], Len(code[d])),
              LAMBDA c : c.vnus.op = "receive" /\ c.vnus.peer = s)
OnItsWay(d, s) == (IF d = s THEN hack[d] ELSE <<>>) \o queue[<<d, s>>] \o wire[<<d, s>>]

\* Whatever the order in which the processors run, a message meets the receive
\* of the same statement, with the same elements in the same order: the two
\* sides, which work out for themselves what goes between them, agree.
Matched ==
    \A d, s \in Proc :
        LET expected == Expected(d, s)
            messages == OnItsWay(d, s)
        IN  /\ Len(messages) <= Len(expected)
            /\ \A i \in DOMAIN messages :
                   /\ messages[i].statement = expected[i].statement
                   /\ messages[i].xs = expected[i].vnus.xs

\* The statements that p has completed, when it is between two of them.
Completed(p) ==
    IF Finished(p) THEN Len(Prog.statements)
    ELSE Current(p).statement - 1
Between(p) ==
    \/ Finished(p) \/ at[p] = 1
    \/ code[p][at[p] - 1].statement < Current(p).statement

\* An owner that has completed some statements has the values of the sequential
\* program there, however far the others are.
Assigned ==
    \A p \in Proc :
        Between(p) => \A place \in Elements(Prog) :
            Owns(Prog, place, p) => mem[p][place] = After[program][Completed(p) + 1][place]

\* Every program runs to its end: it never happens that every processor that
\* has not ended waits for a message that is not on its way.
Finishes == <>Ended
=============================================================================
