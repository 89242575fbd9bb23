---------------------------- MODULE MCVnusAlloc ----------------------------
(***************************************************************************)
(* Model checking of VnusAlloc: the settings to start from.                *)
(***************************************************************************)
EXTENDS VnusAlloc, TLC

CONSTANTS a, b, c

\* The code starts without a limit.
Start == {[max |-> 8, hard |-> 0]}

Perms == Permutations(Block)
=============================================================================
