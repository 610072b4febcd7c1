-------------------------------- MODULE Pipe --------------------------------
(***************************************************************************)
(* What the console driver promises for each direction: the bytes of a     *)
(* stream, named by their position in it, come out one by one in the order *)
(* they went in, none lost, repeated or made up, and no more than Capacity *)
(* of them are under way.                                                  *)
(***************************************************************************)
EXTENDS Integers

CONSTANT Capacity

VARIABLES
  put,    \* the last byte that went in
  taken   \* the last byte that came out

Init == taken = 0 /\ put \in 0 .. Capacity

Put ==
  /\ put' > put /\ put' <= taken + Capacity
  /\ UNCHANGED taken

Take == taken < put /\ taken' = taken + 1 /\ UNCHANGED put

Next == Put \/ Take

Spec == Init /\ [][Next]_<<put, taken>>
=============================================================================
