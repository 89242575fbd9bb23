----------------------------- MODULE VnusAlloc -----------------------------
(***************************************************************************)
(* The allocator of backends/runtime/vnusalloc.cc: the count of the memory *)
(* handed out, the threshold and the limit it is compared with, and the    *)
(* reserve that is given up in an emergency, so that an out-of-memory      *)
(* event can be constructed.                                               *)
(*                                                                         *)
(* The run time is sequential; one call takes several steps here because   *)
(* a collection in the middle of it frees any blocks, each with a call of  *)
(* vnus_free.  Numbers are unsigned longs, taken modulo Word.  The system  *)
(* has Capacity bytes, and malloc fails exactly when they are used up.     *)
(***************************************************************************)
EXTENDS Integers, FiniteSetsExt, Functions

CONSTANTS
    Block,              \* names (addresses) for the memory handed out
    Sizes,              \* sizes asked for, with sizeof(header)
    OVERHEAD, EMERGENCY_SIZE, MIN_MAXMEM,
    CollectPart,        \* collect_interval is this part of max_mem: 100 in the code
    Arrays,             \* whether the program allocates arrays
    Totals, Limits,     \* arguments of setTotalMemory and setMemoryLimit
    Settings,           \* the [max, hard] to start from
    Capacity, Word

Request == [kind : {"block", "array"}, size : Sizes]
NoRequest == [kind |-> "none", size |-> 0]
ASSUME SizesAssumption == Sizes \subseteq Nat \ {0} /\ Capacity \in Nat
ASSUME ConstantsAssumption ==
    {OVERHEAD, EMERGENCY_SIZE, MIN_MAXMEM, CollectPart} \subseteq Nat \ {0} /\ Arrays \in BOOLEAN
ASSUME WordAssumption == Word \in Nat /\ 2 * (Capacity + EMERGENCY_SIZE + OVERHEAD) < Word
\* The address space holds all memory, with the overhead of everything in it.
ASSUME BlockAssumption == IsFiniteSet(Block) /\ Capacity + OVERHEAD * Cardinality(Block) < Word
ASSUME SettingsAssumption ==
    /\ Totals \union Limits \subseteq 0 .. Word - 1
    /\ \A s \in Settings : {s.max, s.hard} \subseteq 0 .. Word - 1 /\ (s.hard = 0 \/ s.max <= s.hard)

VARIABLES
    heap,           \* what is handed out: size, kind, and GCFLAG_EMERGENCY
    allocated_mem, max_mem, hard_max_mem, collect_interval, current_collect_interval,
    in_emergency,
    emergency_block,    \* whether it is not NULL
    pc,             \* where the allocator is; "run" is the program
    request,        \* what vnus_alloc or vnus_alloc_array was asked for, while it runs
    freed,          \* what the collection under way has freed last
    reserved,       \* history: the last emergency had an emergency_block to free
    unreserved,     \* history: some emergency had none
    drawn           \* history: bytes handed out in the last emergency, counted to EMERGENCY_SIZE

limits == <<max_mem, hard_max_mem, collect_interval>>
emergency == <<in_emergency, emergency_block>>
history == <<reserved, unreserved, drawn>>
vars == <<heap, allocated_mem, limits, current_collect_interval, emergency,
          pc, request, freed, history>>

Init ==
    /\ heap = <<>>
    /\ allocated_mem = 0
    /\ \E s \in Settings : max_mem = s.max /\ hard_max_mem = s.hard
    /\ collect_interval = max_mem \div CollectPart
    /\ current_collect_interval = 0
    /\ in_emergency = FALSE
    /\ emergency_block = FALSE
    /\ pc = "run"
    /\ request = NoRequest
    /\ freed = "nothing"
    /\ reserved = FALSE
    /\ unreserved = FALSE
    /\ drawn = 0

Plus(x, y) == (x + y) % Word
Minus(x, y) == (x - y) % Word
\* The bytes of what is handed out.
Bytes(h) == Cardinality(UNION {{b} \X (1 .. h[b].size) : b \in DOMAIN h})
\* malloc(n) beside the memory of heap h, and the reserve if there is one.
Fits(h, reserve, n) == Bytes(h) + (IF reserve THEN EMERGENCY_SIZE ELSE 0) + n <= Capacity

\* maintain_emergency_memory, after a change to heap h, count mem and flag e.
Maintain(h, mem, e) ==
    LET try == /\ ~e
               /\ ~emergency_block
               /\ (2 * Plus(mem, EMERGENCY_SIZE + OVERHEAD)) % Word <= hard_max_mem
               /\ Fits(h, FALSE, EMERGENCY_SIZE)
    IN  /\ emergency_block' = (emergency_block \/ try)
        /\ allocated_mem' = IF try THEN Plus(mem, EMERGENCY_SIZE) ELSE mem

\* The count after the request, as it is compared with the limits.
Needed == Plus(allocated_mem, request.size + OVERHEAD)
OverLimit == ~in_emergency /\ hard_max_mem > 0 /\ Needed > hard_max_mem

(***************************************************************************)
(* vnus_alloc and vnus_alloc_array.                                        *)
(***************************************************************************)
Begin(r) ==
    /\ pc = "run"
    /\ Block \ DOMAIN heap # {}            \* bound: the names for memory
    /\ r.kind = "array" => Arrays
    /\ request' = r
    /\ Maintain(heap, allocated_mem, in_emergency)
    /\ pc' = IF r.kind = "block" THEN "limit" ELSE "malloc"
    /\ UNCHANGED <<heap, limits, current_collect_interval, in_emergency, freed, history>>

Goto(place) ==
    /\ pc' = place
    /\ UNCHANGED <<heap, allocated_mem, limits, emergency, request, history>>

TestLimit ==
    \/ /\ pc = "limit"
       /\ Goto(IF OverLimit THEN "collect for limit" ELSE "threshold")
       /\ freed' = "nothing"
       /\ UNCHANGED current_collect_interval
    \/ /\ pc = "limit again"
       /\ Goto(IF Needed > hard_max_mem THEN "out of memory" ELSE "threshold")
       /\ UNCHANGED <<freed, current_collect_interval>>

TestThreshold ==
    /\ pc = "threshold"
    /\ Goto(IF current_collect_interval = 0 /\ Needed > max_mem
            THEN "collect for threshold" ELSE "interval")
    /\ freed' = "nothing"
    /\ UNCHANGED current_collect_interval

CountInterval ==
    /\ pc = "interval"
    /\ current_collect_interval' = IF request.size > current_collect_interval THEN 0
                                   ELSE current_collect_interval - request.size
    /\ Goto("malloc")
    /\ UNCHANGED freed

\* malloc succeeds, in the first or in the second attempt.
HandOut(b) ==
    /\ pc \in {"malloc", "malloc again"}
    /\ b \in Block \ DOMAIN heap
    /\ Fits(heap, emergency_block, request.size)
    /\ heap' = [c \in DOMAIN heap \union {b} |->
                    IF c # b THEN heap[c]
                    ELSE [kind |-> request.kind, size |-> request.size,
                          emergency |-> request.kind = "block" /\ in_emergency]]
    /\ allocated_mem' = Needed
    /\ drawn' = IF in_emergency THEN Min({drawn + request.size, EMERGENCY_SIZE}) ELSE drawn
    /\ pc' = "run"
    /\ request' = NoRequest
    /\ UNCHANGED <<limits, current_collect_interval, emergency, freed,
                   reserved, unreserved>>

MallocFails ==
    /\ pc \in {"malloc", "malloc again"}
    /\ ~Fits(heap, emergency_block, request.size)
    /\ Goto(IF pc = "malloc" THEN "collect for malloc" ELSE "out of memory")
    /\ freed' = "nothing"
    /\ UNCHANGED current_collect_interval

(***************************************************************************)
(* Collections.  The collector deletes blocks; the destructor of a block   *)
(* frees the array it holds, before vnus_free gets the block itself.  The  *)
(* program may free, too.                                                  *)
(***************************************************************************)
Collecting == pc \in {"collect for limit", "collect for threshold",
                      "collect for malloc", "collect for setting"}

HasHolder == \E b \in DOMAIN heap : heap[b].kind = "block"

\* Mutant: an array is subtracted without its overhead.
FreeNoOverhead(b) ==
    /\ pc = "run" \/ Collecting
    /\ b \in DOMAIN heap
    /\ Collecting /\ heap[b].kind = "array" => HasHolder
    /\ LET rest == Restrict(heap, DOMAIN heap \ {b})
           overhead == IF heap[b].kind = "array" THEN 0 ELSE OVERHEAD
           still == in_emergency /\ ~heap[b].emergency
       IN  /\ heap' = rest
           /\ in_emergency' = still
           /\ Maintain(rest, Minus(allocated_mem, heap[b].size + overhead), still)
    /\ freed' = IF Collecting THEN heap[b].kind ELSE "nothing"
    /\ UNCHANGED <<limits, current_collect_interval, pc, request, history>>

\* vnus_free or vnus_free_array.
Free(b) ==
    /\ pc = "run" \/ Collecting
    /\ b \in DOMAIN heap
    /\ Collecting /\ heap[b].kind = "array" => HasHolder
    /\ LET rest == Restrict(heap, DOMAIN heap \ {b})
           still == in_emergency /\ ~heap[b].emergency
       IN  /\ heap' = rest
           /\ in_emergency' = still
           /\ Maintain(rest, Minus(allocated_mem, heap[b].size + OVERHEAD), still)
    /\ freed' = IF Collecting THEN heap[b].kind ELSE "nothing"
    /\ UNCHANGED <<limits, current_collect_interval, pc, request, history>>

\* VnusEventGarbageCollect returns how many blocks it freed.
EndCollect ==
    /\ Collecting
    /\ freed # "array"
    /\ Goto(CASE pc = "collect for threshold" -> "interval"
              [] freed = "nothing" -> "out of memory"
              [] pc = "collect for limit" -> "limit again"
              [] pc = "collect for malloc" -> "malloc again"
              [] OTHER -> "run")
    /\ current_collect_interval' = IF pc = "collect for threshold" /\ freed = "nothing"
                                   THEN collect_interval ELSE current_collect_interval
    /\ freed' = "nothing"

(***************************************************************************)
(* Emergencies.                                                            *)
(***************************************************************************)
\* Mutant: the reserve is not given back to the system.
DeclareEmergencyKeeps ==
    /\ pc = "out of memory"
    /\ IF in_emergency
       THEN /\ pc' = "exit"
            /\ UNCHANGED <<allocated_mem, current_collect_interval, emergency, history>>
       ELSE /\ pc' = "run"
            /\ in_emergency' = TRUE
            /\ current_collect_interval' = (3 * EMERGENCY_SIZE) \div 4
            /\ reserved' = emergency_block
            /\ unreserved' = (unreserved \/ ~emergency_block)
            /\ drawn' = 0
            /\ UNCHANGED <<allocated_mem, emergency_block>>
    /\ request' = NoRequest
    /\ UNCHANGED <<heap, limits, freed>>

\* declare_emergency, and the event: the program goes on, in an emergency.
DeclareEmergency ==
    /\ pc = "out of memory"
    /\ IF in_emergency
       THEN /\ pc' = "exit"
            /\ UNCHANGED <<allocated_mem, current_collect_interval, emergency, history>>
       ELSE /\ pc' = "run"
            /\ in_emergency' = TRUE
            /\ current_collect_interval' = (3 * EMERGENCY_SIZE) \div 4
            /\ allocated_mem' = Minus(allocated_mem, EMERGENCY_SIZE)
            /\ emergency_block' = FALSE
            /\ reserved' = emergency_block
            /\ unreserved' = (unreserved \/ ~emergency_block)
            /\ drawn' = 0
    /\ request' = NoRequest
    /\ UNCHANGED <<heap, limits, freed>>

(***************************************************************************)
(* The settings.                                                           *)
(***************************************************************************)
Larger(x, y) == IF x < y THEN y ELSE x

SetTotalMemory(val) ==
    /\ pc = "run"
    /\ val >= MIN_MAXMEM
    /\ max_mem' = val
    /\ collect_interval' = val \div CollectPart
    /\ hard_max_mem' = IF hard_max_mem = 0 THEN 0 ELSE Larger(hard_max_mem, val)
    /\ pc' = IF allocated_mem > val THEN "collect for setting" ELSE "run"
    /\ freed' = "nothing"
    /\ UNCHANGED <<heap, allocated_mem, current_collect_interval, emergency, request, history>>

\* Mutant: the threshold may stay above the limit.
SetMemoryLimitOnly(val) ==
    /\ pc = "run"
    /\ hard_max_mem' = val
    /\ pc' = IF val # 0 /\ allocated_mem > val THEN "collect for setting" ELSE "run"
    /\ freed' = "nothing"
    /\ UNCHANGED <<max_mem, collect_interval>>
    /\ UNCHANGED <<heap, allocated_mem, current_collect_interval, emergency, request, history>>

SetMemoryLimit(val) ==
    /\ pc = "run"
    /\ hard_max_mem' = val
    /\ IF val # 0 /\ max_mem > val
       THEN max_mem' = val /\ collect_interval' = val \div CollectPart
       ELSE UNCHANGED <<max_mem, collect_interval>>
    /\ pc' = IF val # 0 /\ allocated_mem > val THEN "collect for setting" ELSE "run"
    /\ freed' = "nothing"
    /\ UNCHANGED <<heap, allocated_mem, current_collect_interval, emergency, request, history>>

Exited == pc = "exit" /\ UNCHANGED vars

Next ==
    \/ \E r \in Request : Begin(r)
    \/ TestLimit \/ TestThreshold \/ CountInterval \/ MallocFails
    \/ EndCollect \/ DeclareEmergency
    \/ \E b \in Block : HandOut(b) \/ Free(b)
    \/ \E val \in Totals : SetTotalMemory(val)
    \/ \E val \in Limits : SetMemoryLimit(val)
    \/ Exited

Spec == Init /\ [][Next]_vars

-----------------------------------------------------------------------------
(***************************************************************************)
(* Properties.                                                             *)
(***************************************************************************)
Places == {"run", "limit", "limit again", "threshold", "interval", "malloc", "malloc again",
           "out of memory", "exit", "collect for limit", "collect for threshold",
           "collect for malloc", "collect for setting"}

\* Types; in an emergency there is no reserve.
TypeOK ==
    /\ DOMAIN heap \subseteq Block
    /\ \A b \in DOMAIN heap : [kind |-> heap[b].kind, size |-> heap[b].size] \in Request
    /\ {allocated_mem, max_mem, hard_max_mem} \subseteq 0 .. Word - 1
    /\ {collect_interval, current_collect_interval, drawn} \subseteq Nat
    /\ freed \in {"nothing", "array", "block"}
    /\ {reserved, unreserved, in_emergency, emergency_block} \subseteq BOOLEAN
    /\ in_emergency => ~emergency_block
    /\ pc \in Places
    /\ request \in Request \union {NoRequest}

\* The memory handed out, and the reserve.
Outstanding == Bytes(heap) + OVERHEAD * Cardinality(DOMAIN heap)
               + IF emergency_block THEN EMERGENCY_SIZE ELSE 0

\* Through all allocations, collections and emergencies allocated_mem is the
\* memory handed out, as long as every emergency had a reserve to give up.
AccountsExact == ~unreserved => allocated_mem = Outstanding

\* The comment on allocated_mem: `The outstanding memory in bytes'.
CountsOutstanding == allocated_mem = Outstanding

\* The reserve serves its purpose: in an emergency that gave up a reserve, no
\* allocation fails before more is asked for than the reserve held, whatever was
\* freed, collected and set in between (a second failure ends the program).
EmergencyServed ==
    (pc = "collect for malloc" /\ in_emergency /\ reserved)
        => drawn + request.size > EMERGENCY_SIZE

\* The threshold stays within the limit, whatever the order of settings.
LimitsOrdered == hard_max_mem = 0 \/ max_mem <= hard_max_mem
=============================================================================
