----------------------------- MODULE CodecSetup -----------------------------
(***************************************************************************)
(* What the configuration of the codec promises: the words reach the codec *)
(* one by one in their order, the end is reported once they all have, and  *)
(* from then on nothing is sent and the report stands. Only a reset takes  *)
(* it back to the beginning.                                               *)
(***************************************************************************)
EXTENDS Integers, Sequences

CONSTANT Words

VARIABLES
  down,     \* in a reset
  taken,    \* the words the codec has taken since the reset
  finished  \* the report of the end

setup == <<down, taken, finished>>

Init == ~down /\ taken = <<>> /\ ~finished

TakeNext ==
  /\ ~down /\ ~finished /\ Len(taken) < Len(Words)
  /\ taken' = Append(taken, Words[Len(taken) + 1])
  /\ ~down' /\ ~finished'

Finish ==
  /\ ~down /\ ~finished /\ taken = Words
  /\ finished' /\ ~down' /\ UNCHANGED taken

GoDown ==
  /\ ~down /\ down'
  /\ taken' = <<>> /\ ~finished'

Resume ==
  /\ down /\ ~down'
  /\ UNCHANGED <<taken, finished>>

Next == TakeNext \/ Finish \/ GoDown \/ Resume

Spec == Init /\ [][Next]_setup
=============================================================================
