---------------------------- MODULE MCGuitarGame ----------------------------
(***************************************************************************)
(* Instances of GuitarGame for TLC. A lane's keycode is the lane itself,   *)
(* so the two lanes are interchangeable.                                   *)
(***************************************************************************)
EXTENDS GuitarGame

CONSTANTS green, red, none

MCCodes == Lanes \cup {none}
MCKeyCode == [l \in Lanes |-> l]

=============================================================================
