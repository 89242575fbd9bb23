------------------------------ MODULE PartSend ------------------------------
(***************************************************************************)
(* backends/runtime/partsend.cc: a destination of vnus_send is a number    *)
(*   replicatePart * numberOfProcessors + numberPart                       *)
(* where numberPart is a position in the array of processors (the first    *)
(* dimension varies fastest) and a bit of replicatePart says that the      *)
(* message goes to every position along that dimension.                    *)
(***************************************************************************)
EXTENDS Integers, SequencesExt

CONSTANT Dims       \* processorArrayDims

ASSUME DimsAssumption == Dims \in Seq(Nat \ {0}) /\ Dims # <<>>

processorArrayRank == Len(Dims)

\* The processors in the first `depth' dimensions: `multiplier' at that depth.
Multiplier[depth \in 0 .. Len(Dims)] ==
    IF depth = 0 THEN 1 ELSE Multiplier[depth - 1] * Dims[depth]

numberOfProcessors == Multiplier[processorArrayRank]
AllProcessorBits == 2^processorArrayRank - 1

\* vnus_send_partial: the destinations of its calls of vnus_send_real, in order.
SendPartial[partialDest, depth, replPart, numbPart \in Nat] ==
    IF depth = processorArrayRank THEN <<partialDest>> ELSE
    LET to(i) == SendPartial[partialDest + i * Multiplier[depth], depth + 1, replPart \div 2,
                             numbPart \div Dims[depth + 1]]
    IN  IF replPart % 2 = 1
        THEN FlattenSeq([i \in 1 .. Dims[depth + 1] |-> to(i - 1)])
        ELSE to(numbPart % Dims[depth + 1])

\* vnus_broadcast: to every processor, the sender too.
Broadcast == [i \in 1 .. numberOfProcessors |-> i - 1]

\* vnus_send.
Destinations(dest) ==
    LET replicatePart == dest \div numberOfProcessors
        numberPart == dest % numberOfProcessors
    IN  CASE replicatePart = AllProcessorBits -> Broadcast
          [] replicatePart \notin {0, AllProcessorBits} ->
                 SendPartial[0, 0, replicatePart, numberPart]
          [] replicatePart = 0 -> <<numberPart>>

-----------------------------------------------------------------------------
\* What the number stands for: the processors that have the position of
\* numberPart in every dimension that is not replicated.
Position(q, k) == (q \div Multiplier[k - 1]) % Dims[k]
Replicated(dest, k) == (dest \div (numberOfProcessors * 2^(k - 1))) % 2 = 1
Named(dest) ==
    {q \in 0 .. numberOfProcessors - 1 :
        \A k \in DOMAIN Dims : Replicated(dest, k) \/ Position(q, k) = Position(dest % numberOfProcessors, k)}
=============================================================================
