----------------------------- MODULE ScoreBoard -----------------------------
(***************************************************************************)
(* What the game promises its players, whatever its clocks and registers   *)
(* do: a note is open when it starts and closes with the single point it   *)
(* may earn, and the score of the player who holds the guitar at that      *)
(* moment grows by one.                                                    *)
(***************************************************************************)
EXTENDS Integers

CONSTANTS Lanes, ScoreMod

VARIABLES
  open,              \* lanes whose current note can still earn its point
  score_1, score_2,
  player_flag        \* 1: player 1 holds the guitar; 0: player 2

vars == <<open, score_1, score_2, player_flag>>

Init == open = Lanes /\ score_1 = 0 /\ score_2 = 0 /\ player_flag = 0

\* A reset may take the guitar back at any moment, that of a point included.
KeptOrTaken == player_flag' \in {player_flag, 0}

\* The note of lane l earns its point for the holder; the notes of the lanes in
\* new, l not among them, end and are followed by others.
Award(l, new) ==
  /\ l \in open
  /\ l \notin new
  /\ open' = (open \ {l}) \cup new
  /\ \/ player_flag = 1 /\ score_1' = (score_1 + 1) % ScoreMod /\ UNCHANGED score_2
     \/ player_flag = 0 /\ score_2' = (score_2 + 1) % ScoreMod /\ UNCHANGED score_1
  /\ KeptOrTaken

\* The notes of the lanes in new end, and nobody earns anything.
NextNotes(new) ==
  /\ open' = open \cup new
  /\ UNCHANGED <<score_1, score_2>>
  /\ KeptOrTaken

Pass == player_flag' = 1 - player_flag /\ UNCHANGED <<open, score_1, score_2>>

\* A new game is player 2's.
NewGame == open' = Lanes /\ score_1' = 0 /\ score_2' = 0 /\ player_flag' = 0

Next ==
  \/ \E l \in Lanes, new \in SUBSET Lanes : Award(l, new)
  \/ \E new \in SUBSET Lanes : NextNotes(new)
  \/ Pass
  \/ NewGame

Spec == Init /\ [][Next]_vars
=============================================================================
