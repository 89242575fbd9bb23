---------------------------- MODULE VnusThreads ----------------------------
(***************************************************************************)
(* The thread version of the Vnus back end: glue/vnsupport.cc over the     *)
(* pthread wrappers of glue/ptclass.cc, as glue/thread.cc uses it.         *)
(*                                                                         *)
(* Every thread has a mailbox (VnusPort) per sender, a list behind a lock  *)
(* with a counting semaphore of the messages in it; all threads share      *)
(* theBarrier, and meet the main thread in finalBarrier when they end.     *)
(* The main thread then deletes everything.                                *)
(*                                                                         *)
(* A critical section of a PTMutex is one step: no code acquires a lock    *)
(* while it holds one.  pthread_cond_wait gives the lock up and falls      *)
(* asleep in one step, and needs the lock again to return.  It may also    *)
(* return although nobody signalled (spurious), as POSIX allows.           *)
(***************************************************************************)
EXTENDS Integers, Sequences, FiniteSets

CONSTANTS
    N,          \* nProc
    Programs,   \* the programs considered, see ProgramAssumption
    MaxRounds   \* bound: calls of vnus_barrier in a program

Thread == 0 .. N - 1
Main == N
Call == [op : {"send", "receive"}, peer : Thread, size : Nat] \union [op : {"barrier"}]

ASSUME NAssumption == N \in Nat \ {0}
\* A sequence of calls per thread, and whether a condition wait may return by
\* itself while they run.
ASSUME ProgramAssumption ==
    \A prog \in Programs : prog.calls \in [Thread -> Seq(Call)] /\ prog.spurious \in BOOLEAN
BarrierCalls(calls) == {c \in DOMAIN calls : calls[c].op = "barrier"}
ASSUME MaxRoundsAssumption ==
    /\ MaxRounds \in Nat
    /\ \A prog \in Programs : \A t \in Thread :
           Cardinality(BarrierCalls(prog.calls[t])) <= MaxRounds

VARIABLES
    program,    \* the program that runs
    pc,         \* where each thread is in vnsupport.cc
    at,         \* at[t]: the call of its program that t is in; for Main, the thread to start next
    port,       \* port[<<d, s>>]: messages from s in the list of d's msgPort[s]
    waiting,    \* waiting[<<d, s>>]: the counter of that port's semaphore haveSome
    asleep,     \* asleep[<<d, s>>]: threads asleep in its condition
    received,   \* received[<<d, s>>]: what d's calls of Recv on that port returned
    arrivals,   \* arrivals[b]: arrivals at barrier b
    sleepers,   \* sleepers[b]: threads asleep in its condition
    enter, leave    \* vnus_barrier calls entered and left by each thread

portVars == <<port, waiting, asleep, received>>
barrierVars == <<arrivals, sleepers, enter, leave>>
vars == <<program, pc, at, portVars, barrierVars>>

\* vnus_broadcast: a send to every processor, the caller too.
Broadcast(n) == [i \in 1 .. N |-> [op |-> "send", peer |-> i - 1, size |-> n]]

Port == Thread \X Thread
Meetings == {"theBarrier", "finalBarrier"}
Parties(b) == IF b = "theBarrier" THEN N ELSE N + 1     \* max

Init ==
    /\ program \in Programs
    /\ pc = [t \in Thread \union {Main} |-> IF t = Main THEN "run" ELSE "unborn"]
    /\ at = [t \in Thread \union {Main} |-> IF t = Main THEN 0 ELSE 1]
    /\ port = [p \in Port |-> <<>>]
    /\ waiting = [p \in Port |-> 0]
    /\ asleep = [p \in Port |-> {}]
    /\ received = [p \in Port |-> <<>>]
    /\ arrivals = [b \in Meetings |-> 0]
    /\ sleepers = [b \in Meetings |-> {}]
    /\ enter = [t \in Thread |-> 0]
    /\ leave = [t \in Thread |-> 0]

Calls(t) == program.calls[t]
InCall(t, op) ==
    /\ t # Main
    /\ at[t] <= Len(Calls(t))
    /\ Calls(t)[at[t]].op = op
Arg(t) == Calls(t)[at[t]]
Goto(t, place) == pc' = [pc EXCEPT ![t] = place]
Return(t) == Goto(t, "run") /\ at' = [at EXCEPT ![t] = @ + 1]

\* VnusThreadBase::start: the threads are created one by one.
StartThread(t) ==
    /\ pc[Main] = "run"
    /\ at[Main] = t
    /\ at' = [at EXCEPT ![Main] = t + 1]
    /\ Goto(t, "run")
    /\ UNCHANGED <<program, portVars, barrierVars>>

(***************************************************************************)
(* VnusPort::Send: append under the lock, then haveSome.signal().          *)
(***************************************************************************)
OutPort(t) == <<Arg(t).peer, t>>

SendAppend(t) ==
    /\ pc[t] = "run"
    /\ InCall(t, "send")
    /\ port' = [port EXCEPT ![OutPort(t)] = Append(@, [call |-> at[t], size |-> Arg(t).size])]
    /\ Goto(t, "signal")
    /\ UNCHANGED <<program, at, waiting, asleep, received, barrierVars>>

\* Mutant: signals only when more than one thread waited.
SemaphoreSignalLate(t) ==
    /\ pc[t] = "signal"
    /\ waiting' = [waiting EXCEPT ![OutPort(t)] = @ - 1]
    /\ IF waiting'[OutPort(t)] > 0 THEN Goto(t, "notify") /\ UNCHANGED at ELSE Return(t)
    /\ UNCHANGED <<program, port, asleep, received, barrierVars>>

\* VnusSemaphore::signal up to the unlock.
SemaphoreSignal(t) ==
    /\ pc[t] = "signal"
    /\ waiting' = [waiting EXCEPT ![OutPort(t)] = @ - 1]
    /\ IF waiting'[OutPort(t)] >= 0 THEN Goto(t, "notify") /\ UNCHANGED at ELSE Return(t)
    /\ UNCHANGED <<program, port, asleep, received, barrierVars>>

\* Its theSignal.signal(), after the unlock.
SemaphoreNotify(t) ==
    /\ pc[t] = "notify"
    /\ IF asleep[OutPort(t)] = {}
       THEN UNCHANGED asleep
       ELSE \E u \in asleep[OutPort(t)] : asleep' = [asleep EXCEPT ![OutPort(t)] = @ \ {u}]
    /\ Return(t)
    /\ UNCHANGED <<program, port, waiting, received, barrierVars>>

(***************************************************************************)
(* VnusPort::Recv: haveSome.wait(), then take the head under the lock.     *)
(***************************************************************************)
InPort(t) == <<t, Arg(t).peer>>

SemaphoreWait(t) ==
    /\ pc[t] = "run"
    /\ InCall(t, "receive")
    /\ waiting' = [waiting EXCEPT ![InPort(t)] = @ + 1]
    /\ IF waiting'[InPort(t)] <= 0
       THEN Goto(t, "take") /\ UNCHANGED asleep
       ELSE Goto(t, "blocked") /\ asleep' = [asleep EXCEPT ![InPort(t)] = @ \union {t}]
    /\ UNCHANGED <<program, at, port, received, barrierVars>>

\* theSignal.wait returns; nothing is tested again.
SemaphoreWoken(t) ==
    /\ pc[t] = "blocked"
    /\ t \notin asleep[InPort(t)]
    /\ Goto(t, "take")
    /\ UNCHANGED <<program, at, portVars, barrierVars>>

\* Mutant: takes the last message of the list.
TakeNewest(t) ==
    /\ pc[t] = "take"
    /\ LET messages == port[InPort(t)] IN
       \/ /\ messages = <<>>
          /\ Goto(t, "crash")
          /\ UNCHANGED <<at, port, received>>
       \/ /\ messages # <<>>
          /\ port' = [port EXCEPT ![InPort(t)] = SubSeq(@, 1, Len(@) - 1)]
          /\ received' = [received EXCEPT ![InPort(t)] = Append(@, messages[Len(messages)].call)]
          /\ Return(t)
    /\ UNCHANGED <<program, waiting, asleep, barrierVars>>

\* With an empty list, `head->next' reads through a null pointer; a message
\* of another size ends the program.
Take(t) ==
    /\ pc[t] = "take"
    /\ LET messages == port[InPort(t)] IN
       \/ /\ messages = <<>>
          /\ Goto(t, "crash")
          /\ UNCHANGED <<at, port, received>>
       \/ /\ messages # <<>>
          /\ port' = [port EXCEPT ![InPort(t)] = Tail(@)]
          /\ IF Head(messages).size = Arg(t).size
             THEN /\ received' = [received EXCEPT ![InPort(t)] = Append(@, Head(messages).call)]
                  /\ Return(t)
             ELSE Goto(t, "exit") /\ UNCHANGED <<at, received>>
    /\ UNCHANGED <<program, waiting, asleep, barrierVars>>

(***************************************************************************)
(* VnusBarrier::meet.                                                      *)
(***************************************************************************)
\* A thread that has finished its program meets in finalBarrier, and so does
\* the main thread once it has started all threads.
Meeting(t) == IF InCall(t, "barrier") THEN "theBarrier" ELSE "finalBarrier"
AtBarrier(t) == IF t = Main THEN at[t] = N ELSE InCall(t, "barrier") \/ at[t] > Len(Calls(t))
LeaveBarrier(t) ==
    IF Meeting(t) = "theBarrier"
    THEN leave' = [leave EXCEPT ![t] = @ + 1] /\ Return(t)
    ELSE Goto(t, "done") /\ UNCHANGED <<leave, at>>

\* Mutant: the counter is not set back.
MeetNoReset(t) ==
    /\ pc[t] = "run"
    /\ AtBarrier(t)
    /\ LET b == Meeting(t) IN
       /\ enter' = IF b = "theBarrier" THEN [enter EXCEPT ![t] = @ + 1] ELSE enter
       /\ arrivals' = [arrivals EXCEPT ![b] = @ + 1]
       /\ IF arrivals[b] + 1 = Parties(b)
          THEN Goto(t, "broadcast") /\ UNCHANGED sleepers
          ELSE Goto(t, "meet") /\ sleepers' = [sleepers EXCEPT ![b] = @ \union {t}]
    /\ UNCHANGED <<program, at, portVars, leave>>

\* Mutant: one party too few.
MeetEarly(t) ==
    /\ pc[t] = "run"
    /\ AtBarrier(t)
    /\ LET b == Meeting(t) IN
       /\ enter' = IF b = "theBarrier" THEN [enter EXCEPT ![t] = @ + 1] ELSE enter
       /\ IF arrivals[b] + 1 >= Parties(b) - 1
          THEN /\ arrivals' = [arrivals EXCEPT ![b] = 0]
               /\ Goto(t, "broadcast")
               /\ UNCHANGED sleepers
          ELSE /\ arrivals' = [arrivals EXCEPT ![b] = @ + 1]
               /\ Goto(t, "meet")
               /\ sleepers' = [sleepers EXCEPT ![b] = @ \union {t}]
    /\ UNCHANGED <<program, at, portVars, leave>>

Meet(t) ==
    /\ pc[t] = "run"
    /\ AtBarrier(t)
    /\ LET b == Meeting(t) IN
       /\ enter' = IF b = "theBarrier" THEN [enter EXCEPT ![t] = @ + 1] ELSE enter
       /\ IF arrivals[b] + 1 = Parties(b)
          THEN /\ arrivals' = [arrivals EXCEPT ![b] = 0]
               /\ Goto(t, "broadcast")
               /\ UNCHANGED sleepers
          ELSE /\ arrivals' = [arrivals EXCEPT ![b] = @ + 1]
               /\ Goto(t, "meet")
               /\ sleepers' = [sleepers EXCEPT ![b] = @ \union {t}]
    /\ UNCHANGED <<program, at, portVars, leave>>

MeetBroadcast(t) ==
    /\ pc[t] = "broadcast"
    /\ sleepers' = [sleepers EXCEPT ![Meeting(t)] = {}]
    /\ LeaveBarrier(t)
    /\ UNCHANGED <<program, portVars, arrivals, enter>>

\* Mutant: a woken thread waits until the counter shows that all have met.
MeetWokenSpins(t) ==
    /\ pc[t] = "meet"
    /\ t \notin sleepers[Meeting(t)]
    /\ IF arrivals[Meeting(t)] = Parties(Meeting(t))
       THEN LeaveBarrier(t)
       ELSE UNCHANGED <<pc, at, leave>>
    /\ UNCHANGED <<program, portVars, arrivals, sleepers, enter>>

\* theSignal.wait returns; nothing is tested again.
MeetWoken(t) ==
    /\ pc[t] = "meet"
    /\ t \notin sleepers[Meeting(t)]
    /\ LeaveBarrier(t)
    /\ UNCHANGED <<program, portVars, arrivals, sleepers, enter>>

-----------------------------------------------------------------------------
\* A condition wait of t returns by itself.
WakeUp(t) ==
    /\ program.spurious
    /\ asleep' = [p \in Port |-> asleep[p] \ {t}]
    /\ sleepers' = [b \in Meetings |-> sleepers[b] \ {t}]
    /\ UNCHANGED <<program, pc, at, port, waiting, received, arrivals, enter, leave>>

\* A step of t in one of the functions above.
ThreadStep(t) ==
    \/ SendAppend(t) \/ SemaphoreSignal(t) \/ SemaphoreNotify(t)
    \/ SemaphoreWait(t) \/ SemaphoreWoken(t) \/ Take(t)
    \/ Meet(t) \/ MeetBroadcast(t) \/ MeetWoken(t)

Ended == \/ \A t \in DOMAIN pc : pc[t] = "done"
         \/ \E t \in DOMAIN pc : pc[t] \in {"crash", "exit"}

Next ==
    \/ /\ ~Ended
       /\ \/ \E t \in Thread : StartThread(t)
          \/ \E t \in Thread \union {Main} : ThreadStep(t) \/ WakeUp(t)
    \/ Ended /\ UNCHANGED vars

\* The operating system runs every thread that can run.
Spec ==
    /\ Init /\ [][Next]_vars
    /\ \A t \in Thread : WF_vars(~Ended /\ StartThread(t))
    /\ \A t \in Thread \union {Main} : WF_vars(~Ended /\ ThreadStep(t))

-----------------------------------------------------------------------------
(***************************************************************************)
(* Properties.                                                             *)
(***************************************************************************)
Places == {"unborn", "run", "signal", "notify", "blocked", "take", "meet", "broadcast",
           "done", "crash", "exit"}

\* Types; a barrier never counts up to its maximum, a semaphore never counts more
\* than one waiting thread (unless a wait returned by itself), and only threads
\* inside a wait are asleep.
TypeOK ==
    /\ program \in Programs
    /\ pc \in [Thread \union {Main} -> Places]
    /\ \A t \in Thread : at[t] \in 1 .. Len(Calls(t)) + 1
    /\ at[Main] \in 0 .. N
    /\ \A p \in Port : waiting[p] \in Int /\ (waiting[p] <= 1 \/ program.spurious)
    /\ \A p \in Port : \A t \in asleep[p] : pc[t] = "blocked" /\ InPort(t) = p
    /\ \A b \in Meetings :
           /\ arrivals[b] \in 0 .. Parties(b) - 1
           /\ \A t \in sleepers[b] : pc[t] = "meet" /\ Meeting(t) = b
    /\ enter \in [Thread -> Nat] /\ leave \in [Thread -> Nat]

\* The calls of s that have put a message into the port of d, and those of which
\* the message has come out of it or is still in its list.
SentTo(d, s) ==
    LET begun == IF pc[s] \in {"signal", "notify"} THEN at[s] ELSE at[s] - 1
    IN  {i \in 1 .. begun : Calls(s)[i].op = "send" /\ Calls(s)[i].peer = d}
Delivered(p) == received[p] \o [i \in 1 .. Len(port[p]) |-> port[p][i].call]

\* `A process will wait for the semaphore if there are no signals present': behind
\* haveSome.wait there is a message in the list, as long as the waits in it
\* return only when signalled.
MessageBehindWait == ~program.spurious => \A t \in Thread : pc[t] # "crash"

\* A port delivers what was sent to it, in order, each message once.
InOrder ==
    /\ (\A t \in Thread : pc[t] # "exit") =>
           \A d, s \in Thread :
               LET order == Delivered(<<d, s>>)
               IN  /\ {order[i] : i \in DOMAIN order} = SentTo(d, s)
                   /\ \A i, j \in DOMAIN order : i < j => order[i] < order[j]
    /\ MessageBehindWait

\* No wakeup is lost: a receiver sleeps beside a message only while the
\* sender is still about to wake it.
NoLostWakeup ==
    \A d, s \in Thread :
        d \in asleep[<<d, s>>] /\ port[<<d, s>>] # <<>> =>
            pc[s] \in {"signal", "notify"} /\ OutPort(s) = <<d, s>>

\* `the last process that wants to meet at the barrier will cause the others
\* to resume': and nothing else does.
Separates == \A t, u \in Thread : leave[t] <= enter[u]

\* The others resume from finalBarrier, and not from a barrier that the main
\* thread has deleted in the meantime.
TeardownSafe == pc[Main] = "done" => \A t \in Thread : pc[t] = "done"

\* Every program whose threads match their calls runs to its end, or to an
\* exit because of the sizes.
Finishes == <>Ended

\* vnus_barrier implements the abstract barrier.
AbstractBarrier == INSTANCE Barrier WITH Proc <- Thread
AbstractSpec == AbstractBarrier!Spec
=============================================================================
