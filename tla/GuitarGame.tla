----------------------------- MODULE GuitarGame -----------------------------
(***************************************************************************)
(* The game proper: one sprite per lane (sprites_<colour>.sv), the scoring *)
(* block (scoring.sv), the player switch (note_modules.sv, player, driven  *)
(* by the ctr_player counter of toplevel.sv) and the synchronised reset    *)
(* button (toplevel.sv).                                                   *)
(*                                                                         *)
(* One action per clock the hardware has:                                  *)
(*   Clk     a rising edge of the 50 MHz clock: every register clocked by  *)
(*           it takes the value computed from the registers before it;     *)
(*   Tick    a rising edge of clk_one_sec, which activates a lane and may  *)
(*           clock the player switch;                                      *)
(*   NewKey  the NIOS II writes the keycode PIO (main.c).                  *)
(*                                                                         *)
(* VGA_VS, the push button and the lane the generator picks are inputs.    *)
(***************************************************************************)
EXTENDS Integers, FiniteSets

CONSTANTS
  Lanes,       \* the five colours
  Codes,       \* the values the keycode PIO may hold
  NoKey,       \* the PIO's reset value, no lane's code
  KeyCode,     \* the keycode a lane answers to
  YMax,        \* Sprite_Y_Max: past it the note is over
  YStep,       \* Sprite_Y_Step: rows a note falls in a frame
  HitLo,       \* a note can be hit strictly between these two rows
  HitHi,
  ScoreMod,    \* 2^8 in the code
  TurnVal      \* counter_val of ctr_player

ASSUME LanesAssumption ==
  /\ IsFiniteSet(Lanes)
  /\ NoKey \in Codes
  /\ KeyCode \in [Lanes -> Codes \ {NoKey}]
  /\ \A k, l \in Lanes : KeyCode[k] = KeyCode[l] => k = l

\* The band ends before the bottom of the screen and positions fit in the
\* ten bits of Sprite_Y_Pos.
ASSUME GeometryAssumption ==
  /\ YMax \in Nat /\ YStep \in Nat \ {0}
  /\ HitLo \in Nat /\ HitHi \in Nat
  /\ HitLo < HitHi /\ HitHi <= YMax
  /\ YMax + YStep < 1024

ASSUME CounterAssumption ==
  /\ ScoreMod \in Nat \ {0, 1}
  /\ TurnVal \in Nat \ {0}  \* at 0 the output of the counter never falls

VARIABLES
  Reset_h,                \* synchronised reset, active high
  frame_clk_delayed,      \* VGA_VS one Clk ago
  frame_clk_rising_edge,  \* VGA_VS rose at the last Clk
  keycode,                \* the keycode PIO
  activate,               \* lanes whose *_activate register is set
  ctr,                    \* the register of ctr_player
  player_flag,            \* 1: player 1 has the guitar
  y,                      \* Sprite_Y_Pos of each lane
  motion,                 \* Sprite_Y_Motion of each lane
  counted,                \* score_counted_* of each lane
  score_1, score_2,
  \* History, read by no action: points the lane's current note has earned;
  \* whether its counted bit is one that a reset left set; ticks since
  \* player_flag last changed.
  points, carried, turn

inputs   == <<Reset_h, frame_clk_delayed, frame_clk_rising_edge, keycode>>
turns    == <<activate, ctr, player_flag>>
notes    == <<y, motion>>
scoring  == <<counted, score_1, score_2>>
history  == <<points, carried, turn>>
vars     == <<inputs, turns, notes, scoring, history>>

Positions == 0 .. (YMax + YStep)

TypeOK ==
  /\ Reset_h \in BOOLEAN
  /\ frame_clk_delayed \in BOOLEAN
  /\ frame_clk_rising_edge \in BOOLEAN
  /\ keycode \in Codes
  /\ activate \in SUBSET Lanes
  /\ ctr \in 0 .. TurnVal
  /\ player_flag \in {0, 1}
  /\ y \in [Lanes -> Positions]
  /\ motion \in [Lanes -> {0, YStep}]
  /\ counted \in [Lanes -> BOOLEAN]
  /\ score_1 \in 0 .. ScoreMod - 1
  /\ score_2 \in 0 .. ScoreMod - 1
  /\ points \in [Lanes -> Nat]
  /\ carried \in [Lanes -> BOOLEAN]
  /\ turn \in Nat

\* Power-up: Quartus initialises every one of these registers to 0.
Init ==
  /\ Reset_h = FALSE
  /\ frame_clk_delayed = FALSE
  /\ frame_clk_rising_edge = FALSE
  /\ keycode = NoKey
  /\ activate = {}
  /\ ctr = 0
  /\ player_flag = 0
  /\ y = [l \in Lanes |-> 0]
  /\ motion = [l \in Lanes |-> 0]
  /\ counted = [l \in Lanes |-> FALSE]
  /\ score_1 = 0 /\ score_2 = 0
  /\ points = [l \in Lanes |-> 0]
  /\ carried = [l \in Lanes |-> FALSE]
  /\ turn = 0

-----------------------------------------------------------------------------
(* A lane's sprite: the combinational block of sprites_<colour>.sv. *)

\* Slip: the test for the bottom allows one step too many.
LandingLate(l) == frame_clk_rising_edge /\ y[l] > YMax + YStep

\* The frame edge at which the note that has passed the bottom is taken away.
Landing(l) == frame_clk_rising_edge /\ y[l] > YMax

SpriteYIn(l) ==
  IF Landing(l) THEN 0
  ELSE IF frame_clk_rising_edge THEN (y[l] + motion[l]) % 1024
  ELSE y[l]

\* Slip: a landed note keeps its motion.
SpriteMotionKept(l) ==
  IF frame_clk_rising_edge /\ l \in activate /\ motion[l] = 0 THEN YStep
  ELSE motion[l]

SpriteMotionIn(l) ==
  IF frame_clk_rising_edge /\ l \in activate /\ motion[l] = 0 THEN YStep
  ELSE IF Landing(l) THEN 0
  ELSE motion[l]

Sprites ==
  IF Reset_h
  THEN /\ y' = [l \in Lanes |-> 0]
       /\ motion' = [l \in Lanes |-> YStep]
  ELSE /\ y' = [l \in Lanes |-> SpriteYIn(l)]
       /\ motion' = [l \in Lanes |-> SpriteMotionIn(l)]

-----------------------------------------------------------------------------
(* Scoring: the combinational block and the registers of scoring.sv. *)

InBand(l) == HitLo < y[l] /\ y[l] < HitHi

\* Slips: the band starts a row late; any key hits every lane.
HitLate(l) ==
  InBand(l) /\ y[l] > HitLo + 1 /\ keycode = KeyCode[l] /\ ~counted[l]
HitAnyKey(l) == InBand(l) /\ keycode # NoKey /\ ~counted[l]

Hit(l) == InBand(l) /\ keycode = KeyCode[l] /\ ~counted[l]

SomeHit == \E l \in Lanes : Hit(l)

\* Slips: the counted bit is cleared within the band; it is never cleared.
CountedInEarly(l) == Hit(l) \/ (counted[l] /\ y[l] < HitHi - YStep)
CountedInKept(l) == Hit(l) \/ counted[l]

CountedIn(l) == Hit(l) \/ (counted[l] /\ y[l] <= HitHi)

\* Slip: the player switch is ignored.
ScoreInBoth(score, flag) ==
  IF SomeHit THEN (score + 1) % ScoreMod ELSE score

\* Every block computes score + 1 from the register, so hits do not add up.
ScoreIn(score, flag) ==
  IF SomeHit /\ player_flag = flag THEN (score + 1) % ScoreMod ELSE score

\* Reset clears the scores; the else branch alone loads the counted bits.
Scoring ==
  IF Reset_h
  THEN /\ score_1' = 0 /\ score_2' = 0
       /\ UNCHANGED counted
  ELSE /\ score_1' = ScoreIn(score_1, 1)
       /\ score_2' = ScoreIn(score_2, 0)
       /\ counted' = [l \in Lanes |-> CountedIn(l)]

-----------------------------------------------------------------------------
(* The clocks. *)

ClkHistory(flag) ==
  /\ points' = [l \in Lanes |->
                 IF Reset_h \/ Landing(l) THEN 0
                 ELSE IF Hit(l) THEN points[l] + 1 ELSE points[l]]
  /\ carried' = IF Reset_h THEN counted
                ELSE [l \in Lanes |-> carried[l] /\ ~Landing(l)]
  /\ turn' = IF flag = player_flag THEN turn ELSE 0

\* vs is VGA_VS and pressed the button, KEY[0], as sampled at this edge. The
\* player switch has an asynchronous reset: it follows Reset_h at once.
Clk(vs, pressed) ==
  LET flag == IF pressed THEN 0 ELSE player_flag IN
  /\ Reset_h' = pressed
  /\ frame_clk_delayed' = vs
  /\ frame_clk_rising_edge' = (vs /\ ~frame_clk_delayed)
  /\ player_flag' = flag
  /\ Sprites
  /\ Scoring
  /\ ClkHistory(flag)
  /\ UNCHANGED <<keycode, activate, ctr>>

\* Slip: ctr_player counts one tick too many.
WrapsLate == ctr > TurnVal

Wraps == ctr >= TurnVal

\* The audio master clock, and clk_one_sec with it, stands still in reset.
\* The counter wraps on the tick that finds it at TurnVal; its output rises
\* and clocks the player switch.
Tick(lanes) ==
  /\ ~Reset_h
  /\ activate' = lanes
  /\ ctr' = IF Wraps THEN 0 ELSE ctr + 1
  /\ player_flag' = IF Wraps THEN 1 - player_flag ELSE player_flag
  /\ turn' = IF Wraps THEN 0 ELSE turn + 1
  /\ UNCHANGED <<inputs, notes, scoring, points, carried>>

\* RNG2 sets one *_activate register or none.
OneHot == {{}} \cup {{l} : l \in Lanes}

NewKey(k) ==
  /\ keycode' = k
  /\ UNCHANGED <<Reset_h, frame_clk_delayed, frame_clk_rising_edge,
                 turns, notes, scoring, history>>

Next ==
  \/ \E vs, pressed \in BOOLEAN : Clk(vs, pressed)
  \/ \E lanes \in OneHot : Tick(lanes)
  \/ \E k \in Codes : NewKey(k)

Spec == Init /\ [][Next]_vars

\* While the reset is off the video controller raises and lowers VGA_VS
\* once a frame.
Clocked(vs) == ~Reset_h /\ \E pressed \in BOOLEAN : Clk(vs, pressed)

FairSpec == Spec /\ \A vs \in BOOLEAN : WF_vars(Clocked(vs))

-----------------------------------------------------------------------------
(* Properties. *)

\* A note is worth one point at most, however long its key is held down,
\* whoever holds the guitar and whenever the game is reset.
OnePointPerNote == \A l \in Lanes : points[l] <= 1

\* The counted bit of a lane is set only while the note it was set for is
\* still in or below the band; only a reset leaves it set over the next note.
CountedNoteIsScored ==
  \A l \in Lanes :
    counted[l] /\ ~carried[l] => y[l] > HitLo /\ points[l] = 1

\* Pressing the right key while the note is in the band earns its point at
\* that clock edge unless it already has; the only note that can be missed
\* is the one that follows a reset made while the lane was counted.
HitIsScored ==
  [][\A l \in Lanes :
       /\ \E vs, pressed \in BOOLEAN : Clk(vs, pressed)
       /\ ~Reset_h /\ ~carried[l]
       /\ InBand(l) /\ keycode = KeyCode[l]
       => points'[l] = 1]_vars

\* The scores grow together by as many points as lanes became counted: the
\* blocks of scoring.sv all add to the same register, so two lanes hit at
\* one edge would lose a point.
NoPointLost ==
  [][~Reset_h =>
       ((score_1' - score_1) + (score_2' - score_2)) % ScoreMod
         = Cardinality({l \in Lanes : ~counted[l] /\ counted'[l]})]_vars

\* No player holds the guitar longer than one period of ctr_player, even
\* though a reset moves the guitar to player 2 without restarting ctr_player.
BoundedTurn == turn <= TurnVal

\* What the prover needs beside the above: a note that has earned its point is
\* either counted or already under the band.
PaidNoteIsCounted ==
  \A l \in Lanes : points[l] = 1 => counted[l] \/ y[l] > HitHi

TurnFollowsCounter == turn <= ctr

\* ... and as long as the reset holds, so does player 2 the guitar.
ResetHoldsGuitar == Reset_h => player_flag = 0

IInv ==
  /\ TypeOK
  /\ OnePointPerNote
  /\ CountedNoteIsScored
  /\ PaidNoteIsCounted
  /\ TurnFollowsCounter
  /\ ResetHoldsGuitar

\* A falling note reaches the bottom and its lane is free again, unless the
\* game is reset meanwhile.
NoteLands ==
  \A l \in Lanes : motion[l] = YStep ~> (motion[l] = 0 \/ Reset_h)

\* The registers implement the players' view of the game (ScoreBoard): a note
\* is paid once, to the player who holds the guitar at that very edge, however
\* the player switch, the held key, the band and the reset are ordered, and a
\* new game starts from nothing with player 2.
Board == INSTANCE ScoreBoard WITH open <- {l \in Lanes : points[l] = 0}

BoardSpec == Board!Spec

\* scoring.sv:2 calls its input the block's reset. Were the block as after
\* power-up once it is released, no note would be missed, the first one after
\* a reset included. It is not: the counted bits survive.
EveryHitIsScored ==
  [][\A l \in Lanes :
       /\ \E vs, pressed \in BOOLEAN : Clk(vs, pressed)
       /\ ~Reset_h
       /\ InBand(l) /\ keycode = KeyCode[l]
       => points'[l] = 1]_vars
=============================================================================
