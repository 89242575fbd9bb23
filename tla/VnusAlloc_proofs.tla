-------------------------- MODULE VnusAlloc_proofs --------------------------
(***************************************************************************)
(* Proofs about VnusAlloc: the limits, the count and the reserve, for all  *)
(* settings and any number of blocks.                                      *)
(***************************************************************************)
EXTENDS VnusAlloc, FiniteSetTheorems, TLAPS

\* What the heap and the counters can be.
HeapTypes ==
    /\ DOMAIN heap \subseteq Block
    /\ \A b \in DOMAIN heap : heap[b].kind \in {"block", "array"} /\ heap[b].size \in Sizes
    /\ \A b \in DOMAIN heap : heap[b].emergency \in BOOLEAN
CountTypes ==
    /\ allocated_mem \in 0 .. Word - 1
    /\ max_mem \in 0 .. Word - 1 /\ hard_max_mem \in 0 .. Word - 1
    /\ collect_interval \in Nat /\ current_collect_interval \in Nat /\ drawn \in Nat
PlaceTypes ==
    /\ freed \in {"nothing", "array", "block"}
    /\ pc \in Places
    /\ request \in Request \union {NoRequest}
    /\ request = NoRequest =>
           pc \notin {"limit", "limit again", "threshold", "interval", "malloc", "malloc again",
                      "collect for limit", "collect for threshold", "collect for malloc"}
FlagTypes ==
    /\ reserved \in BOOLEAN /\ unreserved \in BOOLEAN
    /\ in_emergency \in BOOLEAN /\ emergency_block \in BOOLEAN
NoReserve == in_emergency => ~emergency_block

IInv == HeapTypes /\ CountTypes /\ PlaceTypes /\ FlagTypes /\ NoReserve /\ LimitsOrdered

-----------------------------------------------------------------------------
(* Lemmas about the arithmetic. *)

\* The word is not empty.
LEMMA WordPositive == Word \in Nat \ {0} /\ EMERGENCY_SIZE \in Nat \ {0} /\ OVERHEAD \in Nat \ {0}
                      /\ CollectPart \in Nat \ {0} /\ Sizes \subseteq Nat \ {0}
  BY WordAssumption, ConstantsAssumption, SizesAssumption

\* Sums and differences are those of unsigned longs.
LEMMA Modulo ==
    ASSUME NEW x \in Int, NEW y \in Int
    PROVE  Plus(x, y) \in 0 .. Word - 1 /\ Minus(x, y) \in 0 .. Word - 1
<1>1. ASSUME NEW n \in Int, NEW w \in Nat \ {0} PROVE n % w \in 0 .. w - 1
  OBVIOUS
<1>2. x + y \in Int /\ x - y \in Int
  OBVIOUS
<1> QED
  BY <1>1, <1>2, WordPositive DEF Plus, Minus

\* The smaller of two numbers.
LEMMA MinOfTwo ==
    ASSUME NEW x \in Nat, NEW y \in Nat
    PROVE  Min({x, y}) \in Nat
<1>1. \E z \in {x, y} : \A w \in {x, y} : w >= z
  OBVIOUS
<1> QED
  BY <1>1 DEF Min

\* The share that makes an interval.
LEMMA Interval ==
    ASSUME NEW n \in Nat
    PROVE  n \div CollectPart \in Nat /\ (3 * EMERGENCY_SIZE) \div 4 \in Nat
<1>1. ASSUME NEW m \in Nat, NEW k \in Nat \ {0} PROVE m \div k \in Nat
  OBVIOUS
<1>2. 3 * EMERGENCY_SIZE \in Nat
  BY WordPositive
<1> QED
  BY <1>1, <1>2, WordPositive

\* maintain_emergency_memory keeps the count a word, and takes no reserve in an
\* emergency.
LEMMA MaintainKeeps ==
    ASSUME FlagTypes, NEW h, NEW mem \in 0 .. Word - 1, NEW e \in BOOLEAN,
           e => ~emergency_block, Maintain(h, mem, e)
    PROVE  /\ allocated_mem' \in 0 .. Word - 1 /\ emergency_block' \in BOOLEAN
           /\ e => ~emergency_block'
<1>1. Plus(mem, EMERGENCY_SIZE) \in 0 .. Word - 1
  <2>1. mem \in Int /\ EMERGENCY_SIZE \in Int
    BY WordPositive
  <2> QED
    BY <2>1, Modulo
<1>2. allocated_mem' \in {mem, Plus(mem, EMERGENCY_SIZE)}
  BY DEF Maintain
<1>3. emergency_block' \in BOOLEAN /\ (e => ~emergency_block')
  BY DEF Maintain, FlagTypes
<1> QED
  BY <1>1, <1>2, <1>3

-----------------------------------------------------------------------------
\* The program starts with an empty heap and one of the settings.
LEMMA InitIInv == Init => IInv
<1> SUFFICES ASSUME Init PROVE IInv
  OBVIOUS
<1>1. PICK s \in Settings : max_mem = s.max /\ hard_max_mem = s.hard
  BY DEF Init
<1>2. max_mem \in 0 .. Word - 1 /\ hard_max_mem \in 0 .. Word - 1 /\ LimitsOrdered
  BY <1>1, SettingsAssumption DEF LimitsOrdered
<1>3. collect_interval \in Nat
  <2>1. max_mem \in Nat /\ collect_interval = max_mem \div CollectPart
    BY <1>2, WordPositive DEF Init
  <2> QED
    BY <2>1, Interval
<1>4. CountTypes
  BY <1>2, <1>3, WordPositive DEF Init, CountTypes
<1>5. HeapTypes
  BY DEF Init, HeapTypes
<1>6. PlaceTypes /\ FlagTypes /\ NoReserve
  BY DEF Init, PlaceTypes, Places, FlagTypes, NoReserve
<1> QED
  BY <1>2, <1>4, <1>5, <1>6 DEF IInv

-----------------------------------------------------------------------------
(* Every step keeps the invariant. *)

\* What was asked for, and the count with it.
LEMMA RequestTypes ==
    ASSUME IInv, request # NoRequest
    PROVE  /\ request.kind \in {"block", "array"} /\ request.size \in Sizes /\ request.size \in Nat
           /\ Needed \in 0 .. Word - 1
<1>1. request.kind \in {"block", "array"} /\ request.size \in Sizes
  BY DEF IInv, PlaceTypes, Request
<1>2. request.size \in Nat /\ OVERHEAD \in Nat
  BY <1>1, WordPositive
<1>3. allocated_mem \in Int /\ request.size + OVERHEAD \in Int
  BY <1>2, WordPositive DEF IInv, CountTypes
<1> QED
  BY <1>1, <1>2, <1>3, Modulo DEF Needed

\* A call begins: the reserve is looked after, and the request noted.
LEMMA BeginKeeps ==
    ASSUME IInv, NEW r \in Request, Begin(r)
    PROVE  IInv'
<1>1. /\ allocated_mem' \in 0 .. Word - 1 /\ emergency_block' \in BOOLEAN
      /\ in_emergency => ~emergency_block'
  BY MaintainKeeps DEF Begin, IInv, CountTypes, FlagTypes, NoReserve
<1>2. /\ pc' \in {"limit", "malloc"} /\ request' = r /\ r # NoRequest
      /\ UNCHANGED <<heap, limits, current_collect_interval, in_emergency, freed, history>>
  BY DEF Begin, Request, NoRequest
<1>3. HeapTypes' /\ CountTypes' /\ LimitsOrdered'
  BY <1>1, <1>2 DEF IInv, HeapTypes, CountTypes, LimitsOrdered, limits, history
<1>4. PlaceTypes' /\ FlagTypes' /\ NoReserve'
  BY <1>1, <1>2 DEF IInv, PlaceTypes, FlagTypes, NoReserve, Places, history
<1> QED
  BY <1>3, <1>4 DEF IInv

\* The steps that test and count, and go on elsewhere in the call.
LEMMA GotoKeeps ==
    ASSUME IInv, NEW place \in Places, Goto(place), freed' \in {"nothing", freed},
           current_collect_interval' \in Nat,
           request # NoRequest \/ place \in {"run", "out of memory"}
    PROVE  IInv'
<1>1. pc' = place /\ UNCHANGED <<heap, allocated_mem, limits, emergency, request, history>>
  BY DEF Goto
<1>2. HeapTypes' /\ CountTypes' /\ LimitsOrdered'
  BY <1>1 DEF IInv, HeapTypes, CountTypes, LimitsOrdered, limits, history
<1>3. PlaceTypes'
  BY <1>1 DEF IInv, PlaceTypes
<1>4. FlagTypes' /\ NoReserve'
  BY <1>1 DEF IInv, FlagTypes, NoReserve, emergency, history
<1> QED
  BY <1>2, <1>3, <1>4 DEF IInv

\* The tests for limit, threshold and interval, and a malloc that fails.
LEMMA TestKeeps ==
    ASSUME IInv, TestLimit \/ TestThreshold \/ CountInterval \/ MallocFails
    PROVE  IInv'
<1>1. request # NoRequest /\ current_collect_interval \in Nat /\ request.size \in Nat
  <2>1. request # NoRequest
    BY DEF IInv, PlaceTypes, TestLimit, TestThreshold, CountInterval, MallocFails
  <2> QED
    BY <2>1, RequestTypes DEF IInv, CountTypes
<1>2. \E place \in Places : Goto(place)
  BY DEF TestLimit, TestThreshold, CountInterval, MallocFails, Places
<1>3. freed' \in {"nothing", freed}
  BY DEF TestLimit, TestThreshold, CountInterval, MallocFails
<1>4. current_collect_interval' \in Nat
  <2>1. CASE CountInterval
    <3>1. current_collect_interval' = IF request.size > current_collect_interval THEN 0
                                      ELSE current_collect_interval - request.size
      BY <2>1 DEF CountInterval
    <3> QED
      BY <1>1, <3>1
  <2>2. CASE TestLimit \/ TestThreshold \/ MallocFails
    BY <1>1, <2>2 DEF TestLimit, TestThreshold, MallocFails
  <2> QED
    BY <2>1, <2>2
<1> QED
  BY <1>1, <1>2, <1>3, <1>4, GotoKeeps

\* Memory is handed out: the count of the block stays a word.
LEMMA HandOutKeeps ==
    ASSUME IInv, NEW b \in Block, HandOut(b)
    PROVE  IInv'
<1>1. request # NoRequest
  BY DEF IInv, PlaceTypes, HandOut
<1>2. /\ request.kind \in {"block", "array"} /\ request.size \in Sizes /\ request.size \in Nat
      /\ Needed \in 0 .. Word - 1
  BY <1>1, RequestTypes
<1>3. /\ heap' = [c \in DOMAIN heap \union {b} |->
                    IF c # b THEN heap[c]
                    ELSE [kind |-> request.kind, size |-> request.size,
                          emergency |-> request.kind = "block" /\ in_emergency]]
      /\ allocated_mem' = Needed /\ pc' = "run" /\ request' = NoRequest
      /\ drawn' = IF in_emergency THEN Min({drawn + request.size, EMERGENCY_SIZE}) ELSE drawn
      /\ UNCHANGED <<limits, current_collect_interval, emergency, freed, reserved, unreserved>>
  BY DEF HandOut
<1>4. HeapTypes'
  <2>1. DOMAIN heap' \subseteq Block
    BY <1>3 DEF IInv, HeapTypes
  <2>2. ASSUME NEW c \in DOMAIN heap'
        PROVE  heap'[c].kind \in {"block", "array"} /\ heap'[c].size \in Sizes
               /\ heap'[c].emergency \in BOOLEAN
    <3>1. CASE c = b
      <4>1. heap'[c] = [kind |-> request.kind, size |-> request.size,
                        emergency |-> request.kind = "block" /\ in_emergency]
        BY <1>3, <3>1
      <4>2. (request.kind = "block" /\ in_emergency) \in BOOLEAN
        OBVIOUS
      <4> QED
        BY <1>2, <4>1, <4>2
    <3>2. CASE c # b
      BY <1>3, <3>2 DEF IInv, HeapTypes
    <3> QED
      BY <3>1, <3>2
  <2> QED
    BY <2>1, <2>2 DEF HeapTypes
<1>5. drawn' \in Nat
  <2>1. drawn \in Nat /\ drawn + request.size \in Nat /\ EMERGENCY_SIZE \in Nat
    BY <1>2, WordPositive DEF IInv, CountTypes
  <2>2. Min({drawn + request.size, EMERGENCY_SIZE}) \in Nat
    BY <2>1, MinOfTwo
  <2> QED
    BY <1>3, <2>1, <2>2
<1>6. CountTypes' /\ LimitsOrdered'
  BY <1>2, <1>3, <1>5 DEF IInv, CountTypes, LimitsOrdered, limits
<1>7. PlaceTypes' /\ FlagTypes' /\ NoReserve'
  BY <1>3 DEF IInv, PlaceTypes, FlagTypes, NoReserve, Places, emergency
<1> QED
  BY <1>4, <1>6, <1>7 DEF IInv

\* A call of vnus_free, by the program or in a collection.
LEMMA FreeKeeps ==
    ASSUME IInv, NEW b \in Block, Free(b)
    PROVE  IInv'
<1> DEFINE rest == Restrict(heap, DOMAIN heap \ {b})
           still == in_emergency /\ ~heap[b].emergency
           mem == Minus(allocated_mem, heap[b].size + OVERHEAD)
<1>1. /\ b \in DOMAIN heap /\ heap' = rest /\ in_emergency' = still /\ Maintain(rest, mem, still)
      /\ freed' = IF Collecting THEN heap[b].kind ELSE "nothing"
      /\ UNCHANGED <<limits, current_collect_interval, pc, request, history>>
  BY DEF Free
<1>2. mem \in 0 .. Word - 1
  <2>1. heap[b].size \in Nat /\ OVERHEAD \in Nat
    BY <1>1, WordPositive DEF IInv, HeapTypes
  <2>2. allocated_mem \in Int /\ heap[b].size + OVERHEAD \in Int
    BY <2>1, WordPositive DEF IInv, CountTypes
  <2> QED
    BY <2>2, Modulo
<1>3. still \in BOOLEAN /\ (still => ~emergency_block) /\ FlagTypes
  BY DEF IInv, FlagTypes, NoReserve
<1>4. /\ allocated_mem' \in 0 .. Word - 1 /\ emergency_block' \in BOOLEAN
      /\ still => ~emergency_block'
  <2> HIDE DEF rest, still, mem
  <2> QED
    BY <1>1, <1>2, <1>3, MaintainKeeps
<1>5. HeapTypes'
  BY <1>1 DEF IInv, HeapTypes, Restrict
<1>6. CountTypes' /\ LimitsOrdered'
  BY <1>1, <1>4 DEF IInv, CountTypes, LimitsOrdered, limits, history
<1>7. PlaceTypes'
  <2>1. heap[b].kind \in {"block", "array"}
    BY <1>1 DEF IInv, HeapTypes
  <2> QED
    BY <1>1, <2>1 DEF IInv, PlaceTypes
<1>8. FlagTypes' /\ NoReserve'
  BY <1>1, <1>3, <1>4 DEF IInv, FlagTypes, NoReserve, history
<1> QED
  BY <1>5, <1>6, <1>7, <1>8 DEF IInv

\* A collection is over and the call goes on where it was.
LEMMA EndCollectKeeps ==
    ASSUME IInv, EndCollect
    PROVE  IInv'
<1> DEFINE place == CASE pc = "collect for threshold" -> "interval"
                      [] freed = "nothing" -> "out of memory"
                      [] pc = "collect for limit" -> "limit again"
                      [] pc = "collect for malloc" -> "malloc again"
                      [] OTHER -> "run"
<1>1. Goto(place) /\ freed' = "nothing"
  BY DEF EndCollect
<1>2. place \in Places
  BY DEF EndCollect, Collecting, Places
<1>3. request # NoRequest \/ place \in {"run", "out of memory"}
  BY DEF EndCollect, Collecting, IInv, PlaceTypes
<1>4. current_collect_interval' \in Nat
  BY DEF EndCollect, IInv, CountTypes
<1> HIDE DEF place
<1> QED
  BY <1>1, <1>2, <1>3, <1>4, GotoKeeps

\* declare_emergency gives up the reserve.
LEMMA EmergencyKeeps ==
    ASSUME IInv, DeclareEmergency
    PROVE  IInv'
<1>1. request' = NoRequest /\ UNCHANGED <<heap, limits, freed>>
  BY DEF DeclareEmergency
<1>2. HeapTypes' /\ LimitsOrdered'
  BY <1>1 DEF IInv, HeapTypes, LimitsOrdered, limits
<1>3. CASE in_emergency = TRUE
  <2>1. pc' = "exit" /\ UNCHANGED <<allocated_mem, current_collect_interval, emergency, history>>
    BY <1>3 DEF DeclareEmergency
  <2>2. CountTypes' /\ PlaceTypes' /\ FlagTypes' /\ NoReserve'
    BY <1>1, <2>1 DEF IInv, CountTypes, PlaceTypes, FlagTypes, NoReserve, Places,
                      emergency, history, limits
  <2> QED
    BY <1>2, <2>2 DEF IInv
<1>4. CASE in_emergency = FALSE
  <2>1. /\ pc' = "run" /\ in_emergency' = TRUE /\ emergency_block' = FALSE
        /\ current_collect_interval' = (3 * EMERGENCY_SIZE) \div 4
        /\ allocated_mem' = Minus(allocated_mem, EMERGENCY_SIZE)
        /\ reserved' = emergency_block /\ unreserved' = (unreserved \/ ~emergency_block)
        /\ drawn' = 0
    BY <1>4 DEF DeclareEmergency
  <2>2. allocated_mem' \in 0 .. Word - 1
    <3>1. allocated_mem \in Int /\ EMERGENCY_SIZE \in Int
      BY WordPositive DEF IInv, CountTypes
    <3> QED
      BY <2>1, <3>1, Modulo
  <2>3. current_collect_interval' \in Nat
    BY <2>1, Interval
  <2>4. CountTypes'
    BY <1>1, <2>1, <2>2, <2>3 DEF IInv, CountTypes, limits
  <2>5. PlaceTypes' /\ NoReserve'
    BY <1>1, <2>1 DEF IInv, PlaceTypes, NoReserve, Places
  <2>6. FlagTypes'
    BY <2>1 DEF IInv, FlagTypes
  <2> QED
    BY <1>2, <2>4, <2>5, <2>6 DEF IInv
<1>5. in_emergency \in BOOLEAN
  BY DEF IInv, FlagTypes
<1> QED
  BY <1>3, <1>4, <1>5

\* setTotalMemory raises the limit with the threshold.
LEMMA SetTotalMemoryKeeps ==
    ASSUME IInv, NEW val \in Totals, SetTotalMemory(val)
    PROVE  IInv'
<1>1. /\ val \in 0 .. Word - 1 /\ val \in Nat
      /\ max_mem' = val
      /\ hard_max_mem' = IF hard_max_mem = 0 THEN 0 ELSE Larger(hard_max_mem, val)
      /\ pc' \in {"run", "collect for setting"} /\ freed' = "nothing"
      /\ UNCHANGED <<heap, allocated_mem, current_collect_interval, emergency, request, history>>
  <2>1. val \in 0 .. Word - 1 /\ val \in Nat
    BY SettingsAssumption, WordPositive
  <2> QED
    BY <2>1 DEF SetTotalMemory
<1>2. hard_max_mem' \in 0 .. Word - 1 /\ LimitsOrdered'
  <2>1. val \in 0 .. Word - 1 /\ val \in Nat /\ max_mem' = val
    BY <1>1
  <2>2. hard_max_mem \in 0 .. Word - 1
    BY DEF IInv, CountTypes
  <2>3. hard_max_mem \in Int /\ Word \in Int
    BY <2>2, WordPositive
  <2>4. CASE hard_max_mem = 0
    <3>1. hard_max_mem' = 0
      BY <1>1, <2>4
    <3> QED
      BY <2>2, <2>4, <3>1 DEF LimitsOrdered
  <2>5. CASE hard_max_mem # 0 /\ hard_max_mem < val
    <3>1. hard_max_mem' = val
      BY <1>1, <2>5 DEF Larger
    <3> QED
      BY <2>1, <3>1 DEF LimitsOrdered
  <2>6. CASE hard_max_mem # 0 /\ ~(hard_max_mem < val)
    <3>1. hard_max_mem' = hard_max_mem
      BY <1>1, <2>6 DEF Larger
    <3>2. val <= hard_max_mem
      BY <2>1, <2>3, <2>6
    <3> QED
      BY <2>1, <2>2, <3>1, <3>2 DEF LimitsOrdered
  <2> QED
    BY <2>4, <2>5, <2>6
<1>3. collect_interval' \in Nat
  <2>1. collect_interval' = val \div CollectPart
    BY DEF SetTotalMemory
  <2> QED
    BY <1>1, <2>1, Interval
<1>4. CountTypes'
  BY <1>1, <1>2, <1>3 DEF IInv, CountTypes, history
<1>5. HeapTypes' /\ PlaceTypes' /\ FlagTypes' /\ NoReserve'
  BY <1>1 DEF IInv, HeapTypes, PlaceTypes, FlagTypes, NoReserve, Places, emergency, history
<1> QED
  BY <1>2, <1>4, <1>5 DEF IInv

\* setMemoryLimit lowers the threshold with the limit.
LEMMA SetMemoryLimitKeeps ==
    ASSUME IInv, NEW val \in Limits, SetMemoryLimit(val)
    PROVE  IInv'
<1>1. /\ val \in 0 .. Word - 1 /\ val \in Nat /\ hard_max_mem' = val
      /\ max_mem' = IF val # 0 /\ max_mem > val THEN val ELSE max_mem
      /\ pc' \in {"run", "collect for setting"} /\ freed' = "nothing"
      /\ UNCHANGED <<heap, allocated_mem, current_collect_interval, emergency, request, history>>
  <2>1. val \in 0 .. Word - 1 /\ val \in Nat
    BY SettingsAssumption, WordPositive
  <2> QED
    BY <2>1 DEF SetMemoryLimit
<1>2. max_mem' \in 0 .. Word - 1 /\ LimitsOrdered'
  <2>1. val \in 0 .. Word - 1 /\ val \in Nat /\ hard_max_mem' = val
    BY <1>1
  <2>2. max_mem \in 0 .. Word - 1
    BY DEF IInv, CountTypes
  <2>3. max_mem \in Int /\ Word \in Int
    BY <2>2, WordPositive
  <2>4. CASE val # 0 /\ max_mem > val
    <3>1. max_mem' = val
      BY <1>1, <2>4
    <3> QED
      BY <2>1, <3>1 DEF LimitsOrdered
  <2>5. CASE ~(val # 0 /\ max_mem > val)
    <3>1. max_mem' = max_mem
      BY <1>1, <2>5
    <3>2. val = 0 \/ max_mem <= val
      BY <2>1, <2>3, <2>5
    <3> QED
      BY <2>1, <2>2, <3>1, <3>2 DEF LimitsOrdered
  <2> QED
    BY <2>4, <2>5
<1>3. collect_interval' \in Nat
  <2>1. collect_interval' \in {val \div CollectPart, collect_interval}
    BY DEF SetMemoryLimit
  <2> QED
    BY <1>1, <2>1, Interval DEF IInv, CountTypes
<1>4. CountTypes'
  BY <1>1, <1>2, <1>3 DEF IInv, CountTypes, history
<1>5. HeapTypes' /\ PlaceTypes' /\ FlagTypes' /\ NoReserve'
  BY <1>1 DEF IInv, HeapTypes, PlaceTypes, FlagTypes, NoReserve, Places, emergency, history
<1> QED
  BY <1>2, <1>4, <1>5 DEF IInv

\* Every step keeps the invariant.
LEMMA NextIInv == IInv /\ [Next]_vars => IInv'
<1> SUFFICES ASSUME IInv, [Next]_vars PROVE IInv'
  OBVIOUS
<1>1. CASE UNCHANGED vars
  BY <1>1 DEF vars, limits, emergency, history, IInv, HeapTypes, CountTypes, PlaceTypes,
              FlagTypes, NoReserve, LimitsOrdered
<1>2. CASE \E r \in Request : Begin(r)
  BY <1>2, BeginKeeps
<1>3. CASE TestLimit \/ TestThreshold \/ CountInterval \/ MallocFails
  BY <1>3, TestKeeps
<1>4. CASE EndCollect \/ DeclareEmergency
  <2>1. CASE EndCollect
    BY <2>1, EndCollectKeeps
  <2>2. CASE DeclareEmergency
    BY <2>2, EmergencyKeeps
  <2> QED
    BY <1>4, <2>1, <2>2
<1>5. CASE \E b \in Block : HandOut(b) \/ Free(b)
  BY <1>5, HandOutKeeps, FreeKeeps
<1>6. CASE \E val \in Totals : SetTotalMemory(val)
  BY <1>6, SetTotalMemoryKeeps
<1>7. CASE \E val \in Limits : SetMemoryLimit(val)
  BY <1>7, SetMemoryLimitKeeps
<1>8. CASE Exited
  BY <1>1, <1>8 DEF Exited
<1> QED
  BY <1>1, <1>2, <1>3, <1>4, <1>5, <1>6, <1>7, <1>8 DEF Next

\* The invariant contains the types.
LEMMA IInvTypeOK == IInv => TypeOK
<1> SUFFICES ASSUME IInv PROVE TypeOK
  OBVIOUS
<1>1. ASSUME NEW b \in DOMAIN heap
      PROVE  [kind |-> heap[b].kind, size |-> heap[b].size] \in Request
  BY DEF IInv, HeapTypes, Request
<1> QED
  BY <1>1 DEF IInv, TypeOK, HeapTypes, CountTypes, PlaceTypes, FlagTypes, NoReserve

-----------------------------------------------------------------------------
\* Types: the count and the limits stay words, and there is never a reserve in an
\* emergency, although every call of vnus_alloc and vnus_free may take one.
THEOREM TypeCorrect == Spec => []TypeOK
<1>1. Init => IInv
  BY InitIInv
<1>2. IInv /\ [Next]_vars => IInv'
  BY NextIInv
<1>3. IInv => TypeOK
  BY IInvTypeOK
<1> QED
  BY <1>1, <1>2, <1>3, PTL DEF Spec

\* Whatever setTotalMemory and setMemoryLimit are called with, and in whichever order,
\* the threshold for collections stays within the limit, if there is one.
THEOREM LimitsOrderedAlways == Spec => []LimitsOrdered
<1>1. Init => IInv
  BY InitIInv
<1>2. IInv /\ [Next]_vars => IInv'
  BY NextIInv
<1>3. IInv => LimitsOrdered
  BY DEF IInv
<1> QED
  BY <1>1, <1>2, <1>3, PTL DEF Spec

-----------------------------------------------------------------------------
(***************************************************************************)
(* The count, and what the reserve is for.  All memory, the reserve too,   *)
(* is within Capacity; and while an emergency that gave up a reserve goes  *)
(* on, what is left is at least the reserve without what has been drawn.   *)
(***************************************************************************)
Reserve(r) == IF r THEN EMERGENCY_SIZE ELSE 0
Account(h, n) == Bytes(h) + OVERHEAD * Cardinality(DOMAIN h) + n

Fitting == Bytes(heap) + Reserve(emergency_block) <= Capacity
Counted == ~unreserved => allocated_mem = Account(heap, Reserve(emergency_block))
Served == in_emergency /\ reserved => Bytes(heap) + EMERGENCY_SIZE <= Capacity + drawn

Memory == Fitting /\ Counted /\ Served /\ EmergencyServed

-----------------------------------------------------------------------------
(* Lemmas about the bytes of a heap. *)

Shape(h) == DOMAIN h \subseteq Block /\ \A b \in DOMAIN h : h[b].size \in Nat
ByteSet(h) == UNION {{b} \X (1 .. h[b].size) : b \in DOMAIN h}

\* There are finitely many bytes and no more blocks than names.
LEMMA BytesFinite ==
    ASSUME NEW h, Shape(h)
    PROVE  /\ IsFiniteSet(ByteSet(h)) /\ Bytes(h) \in Nat
           /\ IsFiniteSet(DOMAIN h) /\ Cardinality(DOMAIN h) \in Nat
           /\ Cardinality(Block) \in Nat /\ Cardinality(DOMAIN h) <= Cardinality(Block)
<1> DEFINE S == {{b} \X (1 .. h[b].size) : b \in DOMAIN h}
           f == [b \in DOMAIN h |-> {b} \X (1 .. h[b].size)]
<1>1. /\ IsFiniteSet(DOMAIN h) /\ Cardinality(DOMAIN h) <= Cardinality(Block)
      /\ Cardinality(DOMAIN h) \in Nat /\ Cardinality(Block) \in Nat
  BY FS_Subset, FS_CardinalityType, BlockAssumption DEF Shape
<1>2. IsFiniteSet(S)
  <2>1. f \in Surjection(DOMAIN h, S)
    BY DEF Surjection
  <2> QED
    BY <1>1, <2>1, FS_Surjection
<1>3. \A T \in S : IsFiniteSet(T)
  <2>1. ASSUME NEW b \in DOMAIN h
        PROVE  IsFiniteSet({b} \X (1 .. h[b].size))
    <3>1. h[b].size \in Int
      BY DEF Shape
    <3>2. IsFiniteSet(1 .. h[b].size)
      BY <3>1, FS_Interval
    <3>3. IsFiniteSet({b})
      BY FS_Singleton
    <3> QED
      BY <3>2, <3>3, FS_Product
  <2> QED
    BY <2>1
<1>4. IsFiniteSet(ByteSet(h))
  BY <1>2, <1>3, FS_UNION DEF ByteSet
<1>5. Bytes(h) \in Nat
  BY <1>4, FS_CardinalityType DEF Bytes, ByteSet
<1> QED
  BY <1>1, <1>4, <1>5

\* A heap with one block more has the bytes of that block more.
LEMMA BytesAdd ==
    ASSUME NEW g, NEW h, NEW b, Shape(g), Shape(h), b \notin DOMAIN g,
           DOMAIN h = DOMAIN g \union {b}, \A c \in DOMAIN g : h[c].size = g[c].size
    PROVE  /\ Bytes(h) = Bytes(g) + h[b].size
           /\ Cardinality(DOMAIN h) = Cardinality(DOMAIN g) + 1
<1> DEFINE new == {b} \X (1 .. h[b].size)
<1>1. ByteSet(h) = ByteSet(g) \union new
  BY DEF ByteSet
<1>2. ByteSet(g) \cap new = {}
  BY DEF ByteSet
<1>3. h[b].size \in Nat /\ h[b].size \in Int
  BY DEF Shape
<1>4. IsFiniteSet(new) /\ Cardinality(new) = h[b].size
  <2>1. IsFiniteSet({b}) /\ Cardinality({b}) = 1
    BY FS_Singleton
  <2>2. IsFiniteSet(1 .. h[b].size) /\ Cardinality(1 .. h[b].size) = h[b].size
    BY <1>3, FS_Interval
  <2>3. IsFiniteSet(new) /\ Cardinality(new) = Cardinality({b}) * Cardinality(1 .. h[b].size)
    BY <2>1, <2>2, FS_Product
  <2> QED
    BY <1>3, <2>1, <2>2, <2>3
<1>5. IsFiniteSet(ByteSet(g)) /\ Bytes(g) \in Nat
  BY BytesFinite
<1> HIDE DEF new
<1>6. Cardinality(ByteSet(h)) = Cardinality(ByteSet(g)) + h[b].size
  <2>1. Cardinality(ByteSet(h)) = Cardinality(ByteSet(g)) + Cardinality(new) - Cardinality({})
    BY <1>1, <1>2, <1>4, <1>5, FS_Union
  <2>2. Cardinality({}) = 0 /\ Cardinality(ByteSet(g)) \in Nat
    BY <1>5, FS_EmptySet, FS_CardinalityType
  <2> QED
    BY <1>3, <1>4, <2>1, <2>2
<1>7. Cardinality(DOMAIN h) = Cardinality(DOMAIN g) + 1
  BY BytesFinite, FS_AddElement
<1> QED
  BY <1>6, <1>7 DEF Bytes, ByteSet

\* Multiplication is monotone.
LEMMA TimesMonotone ==
    ASSUME NEW o \in Nat, NEW m \in Nat, NEW n \in Nat, m <= n
    PROVE  o * m \in Nat /\ o * n \in Nat /\ o * m <= o * n
<1> DEFINE d == n - m
<1>1. d \in Nat /\ n = m + d
  OBVIOUS
<1> HIDE DEF d
<1>2. o * n = o * m + o * d
  BY <1>1
<1>3. o * m \in Nat /\ o * d \in Nat
  BY <1>1
<1> QED
  BY <1>2, <1>3

\* What is accounted for is a word.
LEMMA AccountBounded ==
    ASSUME NEW h, NEW n \in Nat, Shape(h), Bytes(h) + n <= Capacity
    PROVE  Account(h, n) \in 0 .. Word - 1
<1>2. OVERHEAD \in Nat /\ EMERGENCY_SIZE \in Nat /\ Word \in Nat /\ Capacity \in Nat
  BY WordPositive, SizesAssumption
<1>3. /\ OVERHEAD * Cardinality(DOMAIN h) \in Nat /\ OVERHEAD * Cardinality(Block) \in Nat
      /\ OVERHEAD * Cardinality(DOMAIN h) <= OVERHEAD * Cardinality(Block)
  BY <1>2, BytesFinite, TimesMonotone
<1>4. Bytes(h) \in Nat
  BY BytesFinite
<1>5. Capacity + OVERHEAD * Cardinality(Block) < Word
  BY BlockAssumption
<1> QED
  BY <1>2, <1>3, <1>4, <1>5 DEF Account

\* A block more is accounted for with its overhead.
LEMMA AccountAdd ==
    ASSUME NEW g, NEW h, NEW b, NEW n \in Nat, Shape(g), Shape(h), b \notin DOMAIN g,
           DOMAIN h = DOMAIN g \union {b}, \A c \in DOMAIN g : h[c].size = g[c].size
    PROVE  /\ Account(h, n) = Account(g, n) + (h[b].size + OVERHEAD)
           /\ Account(g, n) \in Nat /\ h[b].size \in Nat
<1>1. ASSUME NEW o \in Nat, NEW m \in Nat PROVE o * m \in Nat /\ o * (m + 1) = o * m + o
  OBVIOUS
<1>2. OVERHEAD \in Nat /\ EMERGENCY_SIZE \in Nat
  BY WordPositive
<1>3. Bytes(g) \in Nat /\ Cardinality(DOMAIN g) \in Nat
  BY BytesFinite
<1>4. h[b].size \in Nat
  BY DEF Shape
<1>5. Bytes(h) = Bytes(g) + h[b].size /\ Cardinality(DOMAIN h) = Cardinality(DOMAIN g) + 1
  BY BytesAdd
<1>6. /\ OVERHEAD * Cardinality(DOMAIN g) \in Nat
      /\ OVERHEAD * Cardinality(DOMAIN h) = OVERHEAD * Cardinality(DOMAIN g) + OVERHEAD
  BY <1>1, <1>2, <1>3, <1>5
<1> QED
  BY <1>2, <1>3, <1>4, <1>5, <1>6 DEF Account

\* Sums and differences that are words are exact.
LEMMA Exact ==
    ASSUME NEW x \in Int, NEW y \in Int
    PROVE  /\ x + y \in 0 .. Word - 1 => Plus(x, y) = x + y
           /\ x - y \in 0 .. Word - 1 => Minus(x, y) = x - y
<1>1. ASSUME NEW w \in Nat \ {0}, NEW n \in 0 .. w - 1 PROVE n % w = n
  OBVIOUS
<1> QED
  BY <1>1, WordPositive DEF Plus, Minus

-----------------------------------------------------------------------------
(* Every step keeps the memory in order. *)

\* The heap has its shape.
LEMMA HeapShape == IInv => Shape(heap) /\ Bytes(heap) \in Nat
<1> SUFFICES ASSUME IInv PROVE Shape(heap) /\ Bytes(heap) \in Nat
  OBVIOUS
<1>1. Shape(heap)
  BY WordPositive DEF IInv, HeapTypes, Shape
<1> QED
  BY <1>1, BytesFinite

\* Numbers in the bounds.
LEMMA ReserveTypes ==
    /\ OVERHEAD \in Nat /\ EMERGENCY_SIZE \in Nat /\ Word \in Nat /\ Capacity \in Nat
    /\ Reserve(emergency_block) \in Nat
  BY WordPositive, SizesAssumption DEF Reserve

\* At the beginning nothing is handed out.
LEMMA InitMemory == Init => Memory
<1> SUFFICES ASSUME Init PROVE Memory
  OBVIOUS
<1>1. DOMAIN heap = {}
  BY DEF Init
<1>2. Bytes(heap) = 0 /\ Cardinality(DOMAIN heap) = 0
  <2>1. UNION {{b} \X (1 .. heap[b].size) : b \in DOMAIN heap} = {}
    BY <1>1
  <2> QED
    BY <1>1, <2>1, FS_EmptySet DEF Bytes
<1>3. allocated_mem = 0 /\ emergency_block = FALSE /\ in_emergency = FALSE /\ pc = "run"
  BY DEF Init
<1>4. OVERHEAD * 0 = 0
  BY ReserveTypes
<1>5. Reserve(emergency_block) = 0
  BY <1>3 DEF Reserve
<1>6. Account(heap, Reserve(emergency_block)) = 0
  BY <1>2, <1>4, <1>5 DEF Account
<1>7. Fitting
  BY <1>2, <1>5, ReserveTypes DEF Fitting
<1> QED
  BY <1>3, <1>6, <1>7 DEF Memory, Counted, Served, EmergencyServed

\* maintain_emergency_memory takes a reserve only if there is room for it, and
\* counts it.
LEMMA MaintainMemory ==
    ASSUME FlagTypes, NEW h, Shape(h), NEW mem, NEW e \in BOOLEAN, Maintain(h, mem, e),
           Bytes(h) + Reserve(emergency_block) <= Capacity
    PROVE  /\ Bytes(h) + Reserve(emergency_block') <= Capacity
           /\ mem = Account(h, Reserve(emergency_block))
                  => allocated_mem' = Account(h, Reserve(emergency_block'))
<1>1. Bytes(h) \in Nat /\ Cardinality(DOMAIN h) \in Nat /\ emergency_block \in BOOLEAN
  BY BytesFinite DEF FlagTypes
<1>2. CASE emergency_block' = emergency_block /\ allocated_mem' = mem
  BY <1>2
<1>3. CASE /\ emergency_block = FALSE /\ emergency_block' = TRUE
           /\ allocated_mem' = Plus(mem, EMERGENCY_SIZE) /\ Fits(h, FALSE, EMERGENCY_SIZE)
  <2>1. Bytes(h) + EMERGENCY_SIZE <= Capacity
    BY <1>1, <1>3, ReserveTypes DEF Fits
  <2>2. Reserve(emergency_block) = 0 /\ Reserve(emergency_block') = EMERGENCY_SIZE
    BY <1>3 DEF Reserve
  <2>3. ASSUME mem = Account(h, Reserve(emergency_block))
        PROVE  allocated_mem' = Account(h, Reserve(emergency_block'))
    <3>1. mem \in 0 .. Word - 1 /\ Account(h, EMERGENCY_SIZE) \in 0 .. Word - 1
      <4>1. mem = Account(h, 0)
        BY <2>2, <2>3
      <4>2. 0 \in Nat /\ EMERGENCY_SIZE \in Nat /\ Bytes(h) + 0 <= Capacity
        BY <1>1, <2>1, ReserveTypes
      <4> QED
        BY <2>1, <4>1, <4>2, AccountBounded
    <3>2. Account(h, EMERGENCY_SIZE) = Account(h, 0) + EMERGENCY_SIZE
      <4>1. OVERHEAD * Cardinality(DOMAIN h) \in Int
        BY <1>1, ReserveTypes
      <4> QED
        BY <1>1, <4>1, ReserveTypes DEF Account, Reserve
    <3>3. Plus(mem, EMERGENCY_SIZE) = mem + EMERGENCY_SIZE
      <4>1. mem \in Int /\ EMERGENCY_SIZE \in Int
        BY <3>1, ReserveTypes
      <4> QED
        BY <2>2, <2>3, <3>1, <3>2, <4>1, Exact
    <3> QED
      BY <1>3, <2>2, <2>3, <3>2, <3>3
  <2> QED
    BY <2>1, <2>2, <2>3
<1>4. \/ emergency_block' = emergency_block /\ allocated_mem' = mem
      \/ /\ emergency_block = FALSE /\ emergency_block' = TRUE
         /\ allocated_mem' = Plus(mem, EMERGENCY_SIZE) /\ Fits(h, FALSE, EMERGENCY_SIZE)
  BY <1>1 DEF Maintain
<1> QED
  BY <1>2, <1>3, <1>4

\* A call begins.
LEMMA BeginMemory ==
    ASSUME IInv, Memory, NEW r \in Request, Begin(r)
    PROVE  Memory'
<1>1. /\ pc' \in {"limit", "malloc"} /\ Maintain(heap, allocated_mem, in_emergency)
      /\ UNCHANGED <<heap, in_emergency, reserved, unreserved, drawn>>
  BY DEF Begin, history
<1>2. FlagTypes /\ in_emergency \in BOOLEAN /\ Shape(heap)
  BY HeapShape DEF IInv, FlagTypes
<1>3. /\ Bytes(heap) + Reserve(emergency_block') <= Capacity
      /\ allocated_mem = Account(heap, Reserve(emergency_block))
             => allocated_mem' = Account(heap, Reserve(emergency_block'))
  BY <1>1, <1>2, MaintainMemory DEF Memory, Fitting
<1> QED
  BY <1>1, <1>3 DEF Memory, Fitting, Counted, Served, EmergencyServed

\* What leaves memory and reserve alone.
LEMMA QuietMemory ==
    ASSUME Memory, UNCHANGED <<heap, allocated_mem, emergency, history>>,
           pc' # "collect for malloc" \/ (pc' = pc /\ request' = request)
    PROVE  Memory'
  BY DEF Memory, Fitting, Counted, Served, EmergencyServed, emergency, history

\* A malloc that fails in an emergency asks for more than is left of the reserve.
LEMMA MallocFailsMemory ==
    ASSUME IInv, Memory, MallocFails
    PROVE  Memory'
<1>1. /\ ~Fits(heap, emergency_block, request.size)
      /\ UNCHANGED <<heap, allocated_mem, emergency, request, history>>
  BY DEF MallocFails, Goto
<1>2. ASSUME in_emergency, reserved
      PROVE  drawn + request.size > EMERGENCY_SIZE
  <2>1. Bytes(heap) + EMERGENCY_SIZE <= Capacity + drawn
    BY <1>2 DEF Memory, Served
  <2>2. ~emergency_block /\ drawn \in Nat
    BY <1>2 DEF IInv, NoReserve, CountTypes
  <2>3. request # NoRequest
    BY DEF IInv, PlaceTypes, MallocFails
  <2>4. request.size \in Nat /\ Bytes(heap) \in Nat
    BY <2>3, HeapShape, RequestTypes
  <2>5. ~(Bytes(heap) + request.size <= Capacity)
    BY <1>1, <2>2, <2>4 DEF Fits
  <2> QED
    BY <2>1, <2>2, <2>4, <2>5, ReserveTypes
<1>3. EmergencyServed'
  BY <1>1, <1>2 DEF EmergencyServed, emergency, history
<1>4. Fitting' /\ Counted' /\ Served'
  BY <1>1 DEF Memory, Fitting, Counted, Served, emergency, history
<1> QED
  BY <1>3, <1>4 DEF Memory

\* Memory is handed out and drawn from what the emergency has left.
LEMMA HandOutMemory ==
    ASSUME IInv, Memory, NEW b \in Block, HandOut(b)
    PROVE  Memory'
<1> DEFINE n == request.size
<1>1. /\ b \notin DOMAIN heap /\ Fits(heap, emergency_block, n)
      /\ heap' = [c \in DOMAIN heap \union {b} |->
                    IF c # b THEN heap[c]
                    ELSE [kind |-> request.kind, size |-> n,
                          emergency |-> request.kind = "block" /\ in_emergency]]
      /\ allocated_mem' = Needed /\ pc' = "run"
      /\ drawn' = IF in_emergency THEN Min({drawn + n, EMERGENCY_SIZE}) ELSE drawn
      /\ UNCHANGED <<emergency_block, in_emergency, reserved, unreserved>>
  BY DEF HandOut, emergency
<1>2. Shape(heap) /\ Shape(heap') /\ Bytes(heap) \in Nat /\ Bytes(heap') \in Nat
  <2>1. IInv'
    BY HandOutKeeps
  <2>2. HeapTypes'
    BY <2>1 DEF IInv
  <2>3. Shape(heap')
    BY <2>2, WordPositive DEF HeapTypes, Shape
  <2> QED
    BY <2>3, HeapShape, BytesFinite
<1>3. /\ DOMAIN heap' = DOMAIN heap \union {b} /\ heap'[b].size = n /\ b \notin DOMAIN heap
      /\ \A c \in DOMAIN heap : heap'[c].size = heap[c].size
  BY <1>1
<1>4. n \in Nat /\ drawn \in Nat /\ emergency_block \in BOOLEAN /\ in_emergency \in BOOLEAN
  <2>1. request # NoRequest
    BY DEF IInv, PlaceTypes, HandOut
  <2> QED
    BY <2>1, RequestTypes DEF IInv, CountTypes, FlagTypes
<1> HIDE DEF n
<1>5. Bytes(heap') = Bytes(heap) + n
  BY <1>1, <1>2, <1>3, BytesAdd
<1>6. Bytes(heap') + Reserve(emergency_block) <= Capacity
  <2>1. Bytes(heap) + Reserve(emergency_block) + n <= Capacity
    BY <1>1 DEF Fits, Reserve
  <2>2. Reserve(emergency_block) \in Nat
    BY ReserveTypes DEF Reserve
  <2> QED
    BY <1>2, <1>4, <1>5, <2>1, <2>2, ReserveTypes
<1>7. ASSUME ~unreserved
      PROVE  allocated_mem' = Account(heap', Reserve(emergency_block))
  <2>1. allocated_mem = Account(heap, Reserve(emergency_block))
    BY <1>7 DEF Memory, Counted
  <2>2. Account(heap', Reserve(emergency_block)) = allocated_mem + (n + OVERHEAD) /\ allocated_mem \in Nat
    <3>1. /\ Account(heap', Reserve(emergency_block))
                = Account(heap, Reserve(emergency_block)) + (heap'[b].size + OVERHEAD)
          /\ Account(heap, Reserve(emergency_block)) \in Nat
      BY <1>2, <1>3, ReserveTypes, AccountAdd
    <3> QED
      BY <1>3, <2>1, <3>1
  <2>3. Account(heap', Reserve(emergency_block)) \in 0 .. Word - 1
    BY <1>2, <1>6, ReserveTypes, AccountBounded
  <2>4. n + OVERHEAD \in Int /\ allocated_mem \in Int
    BY <1>4, <2>2, ReserveTypes
  <2>5. Plus(allocated_mem, n + OVERHEAD) = allocated_mem + (n + OVERHEAD)
    BY <2>2, <2>3, <2>4, Exact
  <2> QED
    BY <1>1, <2>2, <2>5 DEF Needed, n
<1>8. ASSUME in_emergency, reserved
      PROVE  Bytes(heap') + EMERGENCY_SIZE <= Capacity + drawn'
  <2>1. Bytes(heap) + EMERGENCY_SIZE <= Capacity + drawn
    BY <1>8 DEF Memory, Served
  <2>2. drawn' \in {drawn + n, EMERGENCY_SIZE}
    <3>1. drawn + n \in Nat /\ EMERGENCY_SIZE \in Nat
      BY <1>4, ReserveTypes
    <3>2. \E z \in {drawn + n, EMERGENCY_SIZE} : \A w \in {drawn + n, EMERGENCY_SIZE} : w >= z
      BY <3>1
    <3>3. Min({drawn + n, EMERGENCY_SIZE}) \in {drawn + n, EMERGENCY_SIZE}
      BY <3>2 DEF Min
    <3> QED
      BY <1>1, <1>8, <3>3
  <2>3. CASE drawn' = drawn + n
    BY <1>2, <1>4, <1>5, <2>1, <2>3, ReserveTypes
  <2>4. CASE drawn' = EMERGENCY_SIZE
    <3>1. Reserve(emergency_block) \in Nat
      BY ReserveTypes DEF Reserve
    <3> QED
      BY <1>2, <1>6, <2>4, <3>1, ReserveTypes
  <2> QED
    BY <2>2, <2>3, <2>4
<1> QED
  BY <1>1, <1>6, <1>7, <1>8 DEF Memory, Fitting, Counted, Served, EmergencyServed

\* A block less leaves more memory and less to account for.
LEMMA FreeMemory ==
    ASSUME IInv, Memory, NEW b \in Block, Free(b)
    PROVE  Memory'
<1> DEFINE rest == Restrict(heap, DOMAIN heap \ {b})
           still == in_emergency /\ ~heap[b].emergency
           mem == Minus(allocated_mem, heap[b].size + OVERHEAD)
<1>1. /\ b \in DOMAIN heap /\ heap' = rest /\ in_emergency' = still /\ Maintain(rest, mem, still)
      /\ UNCHANGED <<pc, request, reserved, unreserved, drawn>>
  BY DEF Free, history
<1>2. /\ Shape(heap) /\ Shape(rest) /\ Bytes(heap) \in Nat /\ Bytes(rest) \in Nat
      /\ b \notin DOMAIN rest /\ DOMAIN heap = DOMAIN rest \union {b}
      /\ \A c \in DOMAIN rest : heap[c].size = rest[c].size
  <2>1. Shape(heap)
    BY HeapShape
  <2>2. /\ b \notin DOMAIN rest /\ DOMAIN heap = DOMAIN rest \union {b}
        /\ \A c \in DOMAIN rest : heap[c].size = rest[c].size
    BY <1>1 DEF Restrict
  <2>3. Shape(rest)
    BY <2>1, <2>2 DEF Shape
  <2> QED
    BY <2>1, <2>2, <2>3, BytesFinite
<1>3. still \in BOOLEAN /\ emergency_block \in BOOLEAN /\ FlagTypes /\ (still => in_emergency)
  BY DEF IInv, FlagTypes
<1> HIDE DEF rest, still
<1>4. /\ Bytes(heap) = Bytes(rest) + heap[b].size
      /\ Account(heap, Reserve(emergency_block)) = Account(rest, Reserve(emergency_block)) + (heap[b].size + OVERHEAD)
      /\ Account(rest, Reserve(emergency_block)) \in Nat /\ heap[b].size \in Nat
  <2>1. Bytes(heap) = Bytes(rest) + heap[b].size
    BY <1>2, BytesAdd
  <2>2. /\ Account(heap, Reserve(emergency_block)) = Account(rest, Reserve(emergency_block)) + (heap[b].size + OVERHEAD)
        /\ Account(rest, Reserve(emergency_block)) \in Nat /\ heap[b].size \in Nat
    BY <1>2, ReserveTypes, AccountAdd
  <2> QED
    BY <2>1, <2>2
<1>5. Bytes(rest) + Reserve(emergency_block) <= Capacity
  <2>1. Reserve(emergency_block) \in Nat
    BY ReserveTypes DEF Reserve
  <2>2. Bytes(heap) + Reserve(emergency_block) <= Capacity
    BY DEF Memory, Fitting
  <2> QED
    BY <1>2, <1>4, <2>1, <2>2, ReserveTypes
<1>6. ASSUME ~unreserved
      PROVE  mem = Account(rest, Reserve(emergency_block))
  <2>1. allocated_mem = Account(heap, Reserve(emergency_block))
    BY <1>6 DEF Memory, Counted
  <2>2. Account(rest, Reserve(emergency_block)) \in 0 .. Word - 1
    BY <1>2, <1>5, ReserveTypes, AccountBounded
  <2>3. allocated_mem \in Int /\ heap[b].size + OVERHEAD \in Int
    BY <1>4, <2>1, ReserveTypes
  <2>4. allocated_mem - (heap[b].size + OVERHEAD) = Account(rest, Reserve(emergency_block))
    BY <1>4, <2>1, <2>3, ReserveTypes
  <2> QED
    BY <2>2, <2>3, <2>4, Exact
<1> HIDE DEF mem
<1>7. /\ Bytes(rest) + Reserve(emergency_block') <= Capacity
      /\ mem = Account(rest, Reserve(emergency_block)) => allocated_mem' = Account(rest, Reserve(emergency_block'))
  BY <1>1, <1>2, <1>3, <1>5, MaintainMemory
<1>8. Fitting' /\ Counted'
  BY <1>1, <1>6, <1>7 DEF Fitting, Counted
<1>9. Served'
  <2>1. SUFFICES ASSUME still, reserved
                 PROVE  Bytes(rest) + EMERGENCY_SIZE <= Capacity + drawn
    BY <1>1 DEF Served
  <2>2. Bytes(heap) + EMERGENCY_SIZE <= Capacity + drawn
    BY <1>3, <2>1 DEF Memory, Served
  <2>3. drawn \in Nat
    BY DEF IInv, CountTypes
  <2> QED
    BY <1>2, <1>4, <2>2, <2>3, ReserveTypes
<1>10. EmergencyServed'
  BY <1>1, <1>3 DEF Memory, EmergencyServed
<1> QED
  BY <1>8, <1>9, <1>10 DEF Memory

\* An emergency begins: the reserve it gives up is what is left.
LEMMA EmergencyMemory ==
    ASSUME IInv, Memory, DeclareEmergency
    PROVE  Memory'
<1>1. pc' \in {"exit", "run"} /\ heap' = heap
  BY DEF DeclareEmergency
<1>2. CASE in_emergency = TRUE
  <2>1. UNCHANGED <<allocated_mem, emergency, history>>
    BY <1>2 DEF DeclareEmergency
  <2> QED
    BY <1>1, <2>1, QuietMemory
<1>3. CASE in_emergency = FALSE
  <2>1. /\ allocated_mem' = Minus(allocated_mem, EMERGENCY_SIZE)
        /\ emergency_block' = FALSE /\ reserved' = emergency_block
        /\ unreserved' = (unreserved \/ ~emergency_block) /\ drawn' = 0
    BY <1>3 DEF DeclareEmergency
  <2>2. /\ Bytes(heap) \in Nat /\ Shape(heap) /\ emergency_block \in BOOLEAN
        /\ unreserved \in BOOLEAN
        /\ Bytes(heap) + Reserve(emergency_block) <= Capacity
    BY HeapShape DEF IInv, FlagTypes, Memory, Fitting
  <2>3. CASE emergency_block = TRUE
    <3>1. Bytes(heap) + EMERGENCY_SIZE <= Capacity
      BY <2>2, <2>3 DEF Reserve
    <3>2. Reserve(emergency_block') = 0
      BY <2>1 DEF Reserve
    <3>3. Bytes(heap) + 0 <= Capacity
      BY <2>2, <3>1, ReserveTypes
    <3>4. Fitting'
      BY <1>1, <3>2, <3>3 DEF Fitting
    <3>5. Served'
      BY <1>1, <2>1, <2>2, <3>1, ReserveTypes DEF Served
    <3>6. ASSUME ~unreserved
          PROVE  allocated_mem' = Account(heap, 0)
      <4>1. allocated_mem = Account(heap, EMERGENCY_SIZE)
        BY <2>3, <3>6 DEF Memory, Counted, Reserve
      <4>2. /\ Account(heap, EMERGENCY_SIZE) = Account(heap, 0) + EMERGENCY_SIZE
            /\ Account(heap, 0) \in Nat
        <5>1. OVERHEAD * Cardinality(DOMAIN heap) \in Nat
          BY <2>2, BytesFinite, ReserveTypes
        <5> QED
          BY <2>2, <5>1, ReserveTypes DEF Account, Reserve
      <4>3. Account(heap, 0) \in 0 .. Word - 1
        <5>1. 0 \in Nat
          OBVIOUS
        <5> QED
          BY <2>2, <3>3, <5>1, AccountBounded
      <4>4. allocated_mem - EMERGENCY_SIZE = Account(heap, 0) /\ allocated_mem \in Int
        <5>1. ASSUME NEW x \in Nat, NEW y \in Nat PROVE x + y - y = x /\ x + y \in Int
          OBVIOUS
        <5>2. EMERGENCY_SIZE \in Nat
          BY ReserveTypes
        <5> QED
          BY <4>1, <4>2, <5>1, <5>2
      <4>5. EMERGENCY_SIZE \in Int
        BY ReserveTypes
      <4> QED
        BY <2>1, <4>3, <4>4, <4>5, Exact
    <3>7. Counted'
      BY <1>1, <2>1, <2>2, <3>2, <3>6 DEF Counted
    <3>8. EmergencyServed'
      BY <1>1 DEF EmergencyServed
    <3> QED
      BY <3>4, <3>5, <3>7, <3>8 DEF Memory
  <2>4. CASE emergency_block = FALSE
    <3>1. Reserve(emergency_block) = 0 /\ Reserve(emergency_block') = 0
      BY <2>1, <2>4 DEF Reserve
    <3>2. Fitting'
      BY <1>1, <2>2, <3>1 DEF Fitting
    <3>3. ~reserved' /\ unreserved'
      BY <2>1, <2>2, <2>4
    <3> QED
      BY <1>1, <3>2, <3>3 DEF Memory, Served, Counted, EmergencyServed
  <2> QED
    BY <2>2, <2>3, <2>4
<1>4. in_emergency \in BOOLEAN
  BY DEF IInv, FlagTypes
<1> QED
  BY <1>2, <1>3, <1>4

\* Every step keeps the memory.
LEMMA NextMemory == IInv /\ Memory /\ [Next]_vars => Memory'
<1> SUFFICES ASSUME IInv, Memory, [Next]_vars PROVE Memory'
  OBVIOUS
<1>1. CASE UNCHANGED vars
  <2>1. UNCHANGED <<heap, allocated_mem, emergency, history, pc, request>>
    BY <1>1 DEF vars
  <2> QED
    BY <2>1, QuietMemory
<1>2. CASE \E r \in Request : Begin(r)
  BY <1>2, BeginMemory
<1>3. CASE TestLimit \/ TestThreshold \/ CountInterval \/ EndCollect
  <2>1. UNCHANGED <<heap, allocated_mem, emergency, history>> /\ pc' # "collect for malloc"
    BY <1>3 DEF TestLimit, TestThreshold, CountInterval, EndCollect, Goto
  <2> QED
    BY <2>1, QuietMemory
<1>4. CASE MallocFails
  BY <1>4, MallocFailsMemory
<1>5. CASE DeclareEmergency
  BY <1>5, EmergencyMemory
<1>6. CASE \E b \in Block : HandOut(b) \/ Free(b)
  BY <1>6, HandOutMemory, FreeMemory
<1>7. CASE \/ \E val \in Totals : SetTotalMemory(val)
           \/ \E val \in Limits : SetMemoryLimit(val)
  <2>1. UNCHANGED <<heap, allocated_mem, emergency, history>> /\ pc' # "collect for malloc"
    BY <1>7 DEF SetTotalMemory, SetMemoryLimit
  <2> QED
    BY <2>1, QuietMemory
<1>8. CASE Exited
  BY <1>1, <1>8 DEF Exited
<1> QED
  BY <1>1, <1>2, <1>3, <1>4, <1>5, <1>6, <1>7, <1>8 DEF Next

\* The invariant contains the count and the service of the reserve.
LEMMA MemoryExact == IInv /\ Memory => AccountsExact /\ EmergencyServed
<1> SUFFICES ASSUME IInv, Memory PROVE AccountsExact /\ EmergencyServed
  OBVIOUS
<1>1. Bytes(heap) \in Nat /\ OVERHEAD * Cardinality(DOMAIN heap) \in Nat
  BY HeapShape, BytesFinite, ReserveTypes
<1>2. Account(heap, Reserve(emergency_block)) = Outstanding
  BY <1>1, ReserveTypes DEF Account, Outstanding, Reserve
<1> QED
  BY <1>2 DEF Memory, Counted, AccountsExact

-----------------------------------------------------------------------------
\* Through all allocations, collections and emergencies allocated_mem is the memory
\* handed out, as long as every emergency had a reserve to give up.
THEOREM AccountsExactAlways == Spec => []AccountsExact
<1>1. Init => IInv /\ Memory
  BY InitIInv, InitMemory
<1>2. IInv /\ Memory /\ [Next]_vars => IInv' /\ Memory'
  BY NextIInv, NextMemory
<1>3. IInv /\ Memory => AccountsExact
  BY MemoryExact
<1> QED
  BY <1>1, <1>2, <1>3, PTL DEF Spec

\* In an emergency that gave up a reserve, no allocation fails before more is asked
\* for than the reserve held.
THEOREM EmergencyServedAlways == Spec => []EmergencyServed
<1>1. Init => IInv /\ Memory
  BY InitIInv, InitMemory
<1>2. IInv /\ Memory /\ [Next]_vars => IInv' /\ Memory'
  BY NextIInv, NextMemory
<1>3. IInv /\ Memory => EmergencyServed
  BY MemoryExact
<1> QED
  BY <1>1, <1>2, <1>3, PTL DEF Spec
=============================================================================
