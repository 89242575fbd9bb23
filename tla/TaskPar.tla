------------------------------ MODULE TaskPar ------------------------------
(***************************************************************************)
(* Programs on the message-passing glues: the statements send, receive,    *)
(* broadcast and barrier, and after them the task-parallel part, run by    *)
(* backends/runtime/taskpar.cc.                                            *)
(*                                                                         *)
(* Every processor adds all tasks to its queue, with the processor and the *)
(* priority the scheduler gave them, and then runs the tasks of its own in *)
(* the order of the queue.  Tasks send each other messages that say from   *)
(* which task they come and for which task they are.  A task that waits    *)
(* for a message keeps the others that come first in theQueue.             *)
(*                                                                         *)
(* Bounds: the programs of the MC module.                                  *)
(***************************************************************************)
EXTENDS PartSend, Mailboxes

CONSTANTS
    Programs,   \* the programs considered, see ProgramAssumption
    MaxRounds   \* bound: barriers in a program

Call == [op : {"send"}, dest : Nat] \union [op : {"receive"}, peer : Proc] \union [op : {"barrier"}]
TaskCall == [op : {"tsend", "treceive"}, peer : Nat \ {0}]

ASSUME DimsNAssumption == numberOfProcessors = N
\* The glue, the calls of every processor before its tasks, and the tasks in
\* the order of the calls of add_task.  A send names processors, and a task
\* sends to and receives from tasks.
ASSUME ProgramAssumption ==
    \A prog \in Programs :
        /\ prog.glue \in {"panda", "mpi"}
        /\ prog.calls \in [Proc -> Seq(Call)]
        /\ \A p \in Proc : \A i \in DOMAIN prog.calls[p] :
               prog.calls[p][i].op = "send" => Destinations(prog.calls[p][i].dest) \in Seq(Proc) \ {<<>>}
        /\ prog.tasks \in Seq([mapping : Proc, priority : Nat, body : Seq(TaskCall)])
        /\ \A t \in DOMAIN prog.tasks : \A i \in DOMAIN prog.tasks[t].body :
               prog.tasks[t].body[i].peer \in DOMAIN prog.tasks

\* The messages that calls of s send to d, as pairs of a call and a number in
\* it, and the calls of d that take one of s.  A barrier of Panda is a message
\* to processor 0 and one back.
ByteIn(prog, p, q, i) ==
    prog.glue = "panda" /\ prog.calls[p][i].op = "barrier" /\ p # q /\ 0 \in {p, q}
SendsIn(prog, d, s, i) ==
    IF prog.calls[s][i].op = "send"
    THEN LET to == Destinations(prog.calls[s][i].dest) IN {j \in DOMAIN to : to[j] = d}
    ELSE IF ByteIn(prog, s, d, i) THEN {d} ELSE {}
Sendings(prog, d, s) == UNION {{i} \X SendsIn(prog, d, s, i) : i \in DOMAIN prog.calls[s]}
TakesIn(prog, d, s, i) ==
    \/ prog.calls[d][i].op = "receive" /\ prog.calls[d][i].peer = s
    \/ ByteIn(prog, d, s, i)
Takings(prog, d, s) == {i \in DOMAIN prog.calls[d] : TakesIn(prog, d, s, i)}

\* The compiler makes a send and a receive of every transfer, so before its
\* tasks a processor takes as many messages as are sent to it.
ASSUME MatchAssumption ==
    \A prog \in Programs : \A d, s \in Proc :
        (prog.glue = "mpi" => d # s) =>
            Cardinality(Sendings(prog, d, s)) = Cardinality(Takings(prog, d, s))

\* The barriers of p before its call i.
BarriersBefore(prog, p, i) == {k \in DOMAIN prog.calls[p] : k < i /\ prog.calls[p][k].op = "barrier"}

\* No program has more than MaxRounds barriers.  On Panda the bytes of a barrier
\* are in the queues of the messages to and from processor 0, so what s sends
\* there before its k-th barrier d takes before its own k-th.
ASSUME RoundAssumption ==
    /\ MaxRounds \in Nat
    /\ \A prog \in Programs :
        /\ \A p \in Proc :
               Cardinality(BarriersBefore(prog, p, Len(prog.calls[p]) + 1)) <= MaxRounds
        /\ prog.glue = "panda" =>
               \A d, s \in Proc : d # s /\ 0 \in {d, s} =>
                   \A i \in DOMAIN prog.calls[d], j \in 1 .. Len(prog.calls[s]) + 1 :
                       (/\ prog.calls[d][i].op = "barrier"
                        /\ Cardinality(BarriersBefore(prog, s, j)) <= Cardinality(BarriersBefore(prog, d, i)))
                       => Cardinality({x \in Sendings(prog, d, s) : x[1] < j})
                              <= Cardinality({k \in Takings(prog, d, s) : k < i})

VARIABLES
    program,    \* the program that runs
    pc,         \* where each processor is
    at,         \* at[p]: the call of its program that p is in
    loop,       \* loop[p]: the loop index of vnus_send or vnus_barrier
    theTaskQueue,   \* theTaskQueue[p]: the tasks in the queue, a sequence
    next,       \* next[p]: position of theTaskQueue.next in it
    step,       \* step[p]: the call of the current task's body
    theQueue,   \* theQueue[p]: messages for later, a sequence
    received,   \* received[d]: messages that task d received
    enter, leave    \* vnus_barrier calls entered and left by each processor

callVars == <<at, loop, enter, leave>>
taskVars == <<theTaskQueue, next, step, theQueue, received>>
vars == <<program, mailVars, pc, callVars, taskVars>>

Tasks == DOMAIN program.tasks
Mapping(t) == program.tasks[t].mapping      \* get_task_processor

\* Mutant: a task goes before the tasks of its own priority.
AppendBefore(elts, t) ==
    InsertAt(elts, Min({i \in 1 .. Len(elts) + 1 :
                            i <= Len(elts) => program.tasks[elts[i]].priority >= program.tasks[t].priority}), t)

\* TaskQueue::append; the queue stays sorted.
AppendTask(elts, t) ==
    InsertAt(elts, Min({i \in 1 .. Len(elts) + 1 :
                            i <= Len(elts) => program.tasks[elts[i]].priority > program.tasks[t].priority}), t)

Init ==
    /\ program \in Programs
    /\ glue = program.glue
    /\ MailInit
    /\ pc = [p \in Proc |-> "run"]
    /\ at = [p \in Proc |-> 1]
    /\ loop = [p \in Proc |-> 1]
    /\ enter = [p \in Proc |-> 0]
    /\ leave = [p \in Proc |-> 0]
    /\ theTaskQueue = [p \in Proc |-> <<>>]
    /\ next = [p \in Proc |-> 1]
    /\ step = [p \in Proc |-> 1]
    /\ theQueue = [p \in Proc |-> <<>>]
    /\ received = [t \in Tasks |-> <<>>]

Goto(p, place) == pc' = [pc EXCEPT ![p] = place]
InCall(p, op) == at[p] <= Len(program.calls[p]) /\ program.calls[p][at[p]].op = op
Arg(p) == program.calls[p][at[p]]
Return(p) ==
    /\ at' = [at EXCEPT ![p] = @ + 1]
    /\ loop' = [loop EXCEPT ![p] = 1]

\* There is no message, or it is not what the receiver asked for.  MPI: the size
\* of it differs and the program ends; Panda: a remark is printed, and the
\* receiver goes on with the bytes there are.
Refused(p, s, what) ==
    \/ NoneKept(p, s)
    \/ glue = "mpi" /\ Head(Box(p, s)).what # what

-----------------------------------------------------------------------------
(***************************************************************************)
(* The calls of the program.                                               *)
(***************************************************************************)
\* One vnus_send_real of vnus_send.
Send(p) ==
    /\ pc[p] = "run"
    /\ InCall(p, "send")
    /\ LET to == Destinations(Arg(p).dest) IN
       /\ SendReal(p, to[loop[p]], [what |-> "data"])
       /\ IF loop[p] = Len(to) THEN Return(p)
          ELSE loop' = [loop EXCEPT ![p] = @ + 1] /\ UNCHANGED at
    /\ UNCHANGED <<program, pc, enter, leave, taskVars>>

Receive(p) ==
    /\ pc[p] = "run"
    /\ InCall(p, "receive")
    /\ VnusReceive(p, Arg(p).peer)
    /\ IF Refused(p, Arg(p).peer, "data") THEN Goto(p, "error") /\ UNCHANGED <<at, loop>>
       ELSE Return(p) /\ UNCHANGED pc
    /\ UNCHANGED <<program, enter, leave, taskVars>>

\* vnus_barrier of Panda: processor 0 receives a byte of each of the others,
\* then sends one to each; they send it a byte and wait for the answer.
BarrierSend(p) ==
    /\ glue = "panda"
    /\ pc[p] = "run"
    /\ InCall(p, "barrier")
    /\ p # 0
    /\ enter' = [enter EXCEPT ![p] = @ + 1]
    /\ SendReal(p, 0, [what |-> "byte"])
    /\ Goto(p, "barrier")
    /\ UNCHANGED <<program, at, loop, leave, taskVars>>

BarrierAnswer(p) ==
    /\ glue = "panda"
    /\ pc[p] = "barrier"
    /\ p # 0
    /\ Take(p, 0)
    /\ leave' = [leave EXCEPT ![p] = @ + 1]
    /\ Goto(p, "run")
    /\ Return(p)
    /\ UNCHANGED <<program, enter, taskVars>>

BarrierEnter0 ==
    /\ glue = "panda"
    /\ pc[0] = "run"
    /\ InCall(0, "barrier")
    /\ enter' = [enter EXCEPT ![0] = @ + 1]
    /\ Goto(0, IF N = 1 THEN "release" ELSE "barrier")
    /\ UNCHANGED <<program, mailVars, at, loop, leave, taskVars>>

\* Mutant: does not wait for the last processor.
BarrierCollectFewer ==
    /\ glue = "panda"
    /\ pc[0] = "barrier"
    /\ Take(0, loop[0])
    /\ IF loop[0] >= N - 2
       THEN Goto(0, "release") /\ loop' = [loop EXCEPT ![0] = 1]
       ELSE loop' = [loop EXCEPT ![0] = @ + 1] /\ UNCHANGED pc
    /\ UNCHANGED <<program, at, enter, leave, taskVars>>

BarrierCollect ==
    /\ glue = "panda"
    /\ pc[0] = "barrier"
    /\ Take(0, loop[0])
    /\ IF loop[0] = N - 1
       THEN Goto(0, "release") /\ loop' = [loop EXCEPT ![0] = 1]
       ELSE loop' = [loop EXCEPT ![0] = @ + 1] /\ UNCHANGED pc
    /\ UNCHANGED <<program, at, enter, leave, taskVars>>

BarrierRelease ==
    /\ pc[0] = "release"
    /\ IF loop[0] < N
       THEN /\ SendReal(0, loop[0], [what |-> "byte"])
            /\ loop' = [loop EXCEPT ![0] = @ + 1]
            /\ UNCHANGED <<pc, at, leave>>
       ELSE /\ leave' = [leave EXCEPT ![0] = @ + 1]
            /\ Goto(0, "run")
            /\ Return(0)
            /\ UNCHANGED mailVars
    /\ UNCHANGED <<program, enter, taskVars>>

\* External: MPI_Barrier.
MpiBarrier(p) ==
    /\ glue = "mpi"
    /\ \/ /\ pc[p] = "run"
          /\ InCall(p, "barrier")
          /\ enter' = [enter EXCEPT ![p] = @ + 1]
          /\ Goto(p, "barrier")
          /\ UNCHANGED <<at, loop, leave>>
       \/ /\ pc[p] = "barrier"
          /\ \A q \in Proc : enter[q] >= enter[p]
          /\ leave' = [leave EXCEPT ![p] = @ + 1]
          /\ Goto(p, "run")
          /\ Return(p)
          /\ UNCHANGED enter
    /\ UNCHANGED <<program, mailVars, taskVars>>

-----------------------------------------------------------------------------
(***************************************************************************)
(* taskpar.cc                                                              *)
(***************************************************************************)
Current(p) == theTaskQueue[p][next[p] - 1]
Body(p) == program.tasks[Current(p)].body
InTask(p, op) == pc[p] = "task" /\ step[p] <= Len(Body(p)) /\ Body(p)[step[p]].op = op
Peer(p) == Body(p)[step[p]].peer

\* All calls of add_task come before that of execute_tasks.
AllAdded(p) == Len(theTaskQueue[p]) = Len(program.tasks)

\* add_task
AddTask(p) ==
    /\ pc[p] = "run"
    /\ at[p] > Len(program.calls[p])
    /\ ~AllAdded(p)
    /\ theTaskQueue' = [theTaskQueue EXCEPT ![p] = AppendTask(@, Len(@) + 1)]
    /\ UNCHANGED <<program, mailVars, pc, callVars, next, step, theQueue, received>>

\* Mutant: a task of another processor stays at the head of the queue.
ExecuteTaskStuck(p) ==
    /\ pc[p] = "run"
    /\ at[p] > Len(program.calls[p])
    /\ AllAdded(p)
    /\ IF next[p] > Len(theTaskQueue[p])
       THEN Goto(p, "done") /\ UNCHANGED <<next, step>>
       ELSE IF Mapping(theTaskQueue[p][next[p]]) = p
            THEN /\ Goto(p, "task")
                 /\ next' = [next EXCEPT ![p] = @ + 1]
                 /\ step' = [step EXCEPT ![p] = 1]
            ELSE UNCHANGED <<pc, next, step>>
    /\ UNCHANGED <<program, mailVars, callVars, theTaskQueue, theQueue, received>>

\* execute_tasks takes a task from the queue, one for another processor, or
\* the last has run.
ExecuteTask(p) ==
    /\ pc[p] = "run"
    /\ at[p] > Len(program.calls[p])
    /\ AllAdded(p)
    /\ IF next[p] > Len(theTaskQueue[p])
       THEN Goto(p, "done") /\ UNCHANGED <<next, step>>
       ELSE /\ next' = [next EXCEPT ![p] = @ + 1]
            /\ step' = [step EXCEPT ![p] = 1]
            /\ IF Mapping(theTaskQueue[p][next[p]]) = p THEN Goto(p, "task") ELSE UNCHANGED pc
    /\ UNCHANGED <<program, mailVars, callVars, theTaskQueue, theQueue, received>>

TaskReturns(p) ==
    /\ pc[p] = "task"
    /\ step[p] > Len(Body(p))
    /\ Goto(p, "run")
    /\ UNCHANGED <<program, mailVars, callVars, taskVars>>

\* A message carries its source, its destination and, here, the call of the
\* source's body that sent it.
Message(p, what) == [what |-> what, src |-> Current(p), dest |-> Peer(p), call |-> step[p]]

\* tsend: the size, then the message.
TSendSize(p) ==
    /\ InTask(p, "tsend")
    /\ SendReal(p, Mapping(Peer(p)), Message(p, "size"))
    /\ Goto(p, "tsend")
    /\ UNCHANGED <<program, callVars, taskVars>>

TSendMessage(p) ==
    /\ pc[p] = "tsend"
    /\ SendReal(p, Mapping(Peer(p)), Message(p, "message"))
    /\ step' = [step EXCEPT ![p] = @ + 1]
    /\ Goto(p, "task")
    /\ UNCHANGED <<program, callVars, theTaskQueue, next, theQueue, received>>

Matches(p, m) == m.src = Peer(p) /\ m.dest = Current(p)     \* src_equals_dest
Got(p, m) == received' = [received EXCEPT ![Current(p)] = Append(@, m)]

\* treceive: MsgQueue::find, and if the message is there the call is done.
TReceive(p) ==
    /\ InTask(p, "treceive")
    /\ LET found == {i \in DOMAIN theQueue[p] : Matches(p, theQueue[p][i])} IN
       \/ /\ found = {}
          /\ Goto(p, "size")
          /\ UNCHANGED <<step, theQueue, received>>
       \/ /\ found # {}
          /\ LET i == Min(found) IN
             /\ Got(p, theQueue[p][i])
             /\ theQueue' = [theQueue EXCEPT ![p] = RemoveAt(@, i)]
          /\ step' = [step EXCEPT ![p] = @ + 1]
          /\ UNCHANGED pc
    /\ UNCHANGED <<program, mailVars, callVars, theTaskQueue, next>>

TReceiveSize(p) ==
    /\ pc[p] = "size"
    /\ VnusReceive(p, Mapping(Peer(p)))
    /\ Goto(p, IF Refused(p, Mapping(Peer(p)), "size") THEN "error" ELSE "message")
    /\ UNCHANGED <<program, callVars, taskVars>>

\* Mutant: puts the message in front of theQueue.
TReceivePushes(p) ==
    /\ pc[p] = "message"
    /\ Take(p, Mapping(Peer(p)))
    /\ LET m == Head(Box(p, Mapping(Peer(p)))) IN
       \/ /\ Matches(p, m)
          /\ Goto(p, "task")
          /\ Got(p, m)
          /\ step' = [step EXCEPT ![p] = @ + 1]
          /\ UNCHANGED theQueue
       \/ /\ ~Matches(p, m)
          /\ Goto(p, "size")
          /\ theQueue' = [theQueue EXCEPT ![p] = <<m>> \o @]
          /\ UNCHANGED <<step, received>>
    /\ UNCHANGED <<program, callVars, theTaskQueue, next>>

\* The message itself, of that size: the one that is waited for, or one for
\* later.
TReceiveMessage(p) ==
    /\ pc[p] = "message"
    /\ Take(p, Mapping(Peer(p)))
    /\ LET m == Head(Box(p, Mapping(Peer(p)))) IN
       \/ /\ Matches(p, m)
          /\ Goto(p, "task")
          /\ Got(p, m)
          /\ step' = [step EXCEPT ![p] = @ + 1]
          /\ UNCHANGED theQueue
       \/ /\ ~Matches(p, m)
          /\ Goto(p, "size")
          /\ theQueue' = [theQueue EXCEPT ![p] = Append(@, m)]
          /\ UNCHANGED <<step, received>>
    /\ UNCHANGED <<program, callVars, theTaskQueue, next>>

-----------------------------------------------------------------------------
\* What p waits for in msg_q_deq, if it does.
Awaited(p) ==
    CASE pc[p] = "run" /\ InCall(p, "receive") -> {Arg(p).peer}
      [] pc[p] = "barrier" /\ p # 0 -> {0}
      [] pc[p] = "barrier" /\ p = 0 -> {loop[p]}
      [] pc[p] \in {"size", "message"} -> {Mapping(Peer(p))}
      [] OTHER -> {}

FallAsleep(p) ==
    /\ \E s \in Awaited(p) : Sleep(p, s)
    /\ UNCHANGED <<program, pc, callVars, taskVars>>

HandleMessage(d, s) == Upcall(d, s) /\ UNCHANGED <<program, pc, callVars, taskVars>>

ProcStep(p) ==
    \/ Send(p) \/ Receive(p) \/ BarrierSend(p) \/ BarrierAnswer(p) \/ MpiBarrier(p)
    \/ p = 0 /\ (BarrierEnter0 \/ BarrierCollect \/ BarrierRelease)
    \/ AddTask(p) \/ ExecuteTask(p) \/ TaskReturns(p) \/ TSendSize(p) \/ TSendMessage(p)
    \/ TReceive(p) \/ TReceiveSize(p) \/ TReceiveMessage(p)
    \/ FallAsleep(p)

Done == \A p \in Proc : pc[p] = "done"
Ended == Done \/ \E p \in Proc : pc[p] = "error"

Next ==
    \/ /\ ~Ended
       /\ \/ \E p \in Proc : ProcStep(p)
          \/ \E d, s \in Proc : HandleMessage(d, s)
    \/ Ended /\ UNCHANGED vars

\* Every process runs, and Panda and MPI deliver every message.
Spec ==
    /\ Init /\ [][Next]_vars
    /\ \A p \in Proc : WF_vars(~Ended /\ ProcStep(p))
    /\ \A d, s \in Proc : WF_vars(~Ended /\ HandleMessage(d, s))

-----------------------------------------------------------------------------
(***************************************************************************)
(* Properties.                                                             *)
(***************************************************************************)
\* Types; only a processor that waits for messages of s sleeps beside the queue
\* of s, its counter of waiting threads is 0 or 1, and no wakeup is lost: nobody
\* sleeps beside a message.
TypeOK ==
    /\ pc \in [Proc -> {"run", "barrier", "release", "task", "tsend", "size", "message", "done", "error"}]
    /\ \A p \in Proc :
           /\ at[p] \in 1 .. Len(program.calls[p]) + 1
           /\ next[p] \in 1 .. Len(theTaskQueue[p]) + 1
           /\ \A s \in Proc :
                  /\ waiting[<<p, s>>] \in {0, 1}
                  /\ asleep[<<p, s>>] => /\ waiting[<<p, s>>] = 1 /\ s \in Awaited(p)
                                         /\ queue[<<p, s>>] = <<>>
           /\ \A i \in DOMAIN theQueue[p] : Mapping(theQueue[p][i].dest) = p

\* Where task t is: the calls of its body that are complete.
Began(p, t) == \E i \in 1 .. next[p] - 1 : theTaskQueue[p][i] = t
Runs(p, t) == pc[p] \in {"task", "tsend", "size", "message"} /\ Current(p) = t
Completed(t) ==
    LET p == Mapping(t)
    IN  CASE ~Began(p, t) -> 0
          [] Runs(p, t) -> step[p] - 1
          [] OTHER -> Len(program.tasks[t].body)

\* The calls of s that have sent a message to d.
SentTo(d, s) == {i \in 1 .. Completed(s) : program.tasks[s].body[i] = [op |-> "tsend", peer |-> d]}

\* What was sent to task d, or beside it from the processor of task s, as far
\* as d has received it, as it waits in theQueue, and as it is on the way.
Stream(d, s) == queue[<<d, s>>] \o wire[<<d, s>>]
Mail(d, s) == received[d] \o theQueue[Mapping(d)] \o Stream(Mapping(d), Mapping(s))
Own(m, d, s) == m.what = "message" /\ m.src = s /\ m.dest = d

\* Whatever the order in which the tasks of two processors send and receive,
\* task d receives what task s sent it, in order, each message once; what it
\* has not received is in its theQueue or still to be received.  Not so for
\* messages that are kept (see SizesFirst).
Delivered ==
    ~Ended =>
        \A d, s \in Tasks : ~Kept(Mapping(s), Mapping(d)) =>
            LET mail == Mail(d, s)
                own == {i \in DOMAIN mail : Own(mail[i], d, s)}
            IN  /\ {mail[i].call : i \in own} = SentTo(d, s)
                /\ \A i, j \in own : i < j => mail[i].call < mail[j].call

\* The places in the queue of the tasks that p has begun.
Begun(p) == {i \in 1 .. next[p] - 1 : Mapping(theTaskQueue[p][i]) = p}

\* The tasks run in the order that the scheduler gave them, however far the
\* processors are: upwards in their priorities, which tm_gen makes the numbers
\* of the tasks in the schedule (GetSeqNrOnProc, tm_gen.cc 22), and tasks of one
\* priority in the order of the calls of add_task.  All processors build the
\* same queue, each for itself, and at the end every task has run on its
\* processor.  The comment of TaskQueue (taskpar.cc 289-292), `Higher priority
\* goes first', says the opposite: its append (taskpar.cc 309) goes past all
\* tasks of no higher number, so the lowest number runs first, as tm_gen needs.
TasksInOrder ==
    /\ \A p, q \in Proc : AllAdded(p) /\ AllAdded(q) => theTaskQueue[p] = theTaskQueue[q]
    /\ \A p \in Proc :
           /\ \A i, j \in Begun(p) :
                  LET t == theTaskQueue[p][i]
                      u == theTaskQueue[p][j]
                  IN  i < j => \/ program.tasks[t].priority < program.tasks[u].priority
                               \/ program.tasks[t].priority = program.tasks[u].priority /\ t < u
           /\ pc[p] = "done" => {t \in Tasks : Mapping(t) = p} = {theTaskQueue[p][i] : i \in Begun(p)}

\* `A size message is sent first (see treceive)': the first message that
\* treceive receives is a size, and the program does not end at it.
SizesFirst == \A p \in Proc : pc[p] # "error"

\* Every program whose processors match their calls, and whose tasks are in an
\* order in which they can run, runs to its end.
Finishes == <>Done

\* vnus_barrier implements the abstract barrier.
AbstractBarrier == INSTANCE Barrier
AbstractSpec == AbstractBarrier!Spec
=============================================================================
