---------------------------- MODULE SampleStream ----------------------------
(***************************************************************************)
(* What the sample reader promises: one pair of samples for each rise of   *)
(* the audio clock, taken before the next one, each pair starting one word *)
(* after the one before it, and nothing skipped or taken twice. A reset    *)
(* makes it start over from the first word or, caught in a pair, the       *)
(* second.                                                                 *)
(***************************************************************************)
EXTENDS Integers

CONSTANT Words   \* words in the memory

VARIABLES
  down,   \* in a reset
  tone,   \* the audio clock
  due,    \* a pair is to be taken for this audio clock
  pos,    \* where the next pair starts
  pair    \* the pair last taken

stream == <<down, tone, due, pos, pair>>

After(a) == (a + 1) % Words

Init == ~down /\ ~tone /\ pos = 0 /\ pair = <<0, 0>> /\ due \in BOOLEAN

\* The audio clock rises only when the pair of the last one has been taken.
Rise ==
  /\ ~tone /\ ~due
  /\ tone' = TRUE /\ due' = TRUE
  /\ UNCHANGED <<pos, pair>>

Take ==
  /\ due /\ due' = FALSE
  /\ pair' = <<pos, After(pos)>> /\ pos' = After(pos)
  /\ tone' => tone

Fall ==
  /\ tone /\ tone' = FALSE
  /\ UNCHANGED <<due, pos, pair>>

Play == ~down /\ ~down' /\ (Rise \/ Take \/ Fall)

GoDown == ~down /\ down'

WhileDown == down /\ down'

Resume == down /\ ~down' /\ pos' \in {0, After(0)}

Next == Play \/ GoDown \/ WhileDown \/ Resume

Spec == Init /\ [][Next]_stream
=============================================================================
