-------------------------- MODULE GuitarGame_proofs --------------------------
(***************************************************************************)
(* The inductive invariant of GuitarGame and what follows from it, for     *)
(* every set of lanes, every injective choice of keycodes, every geometry  *)
(* in which the band ends above the bottom row and every counter value.    *)
(***************************************************************************)
EXTENDS GuitarGame, NoteRegister, FiniteSetTheorems, TLAPS

USE DEF vars, inputs, turns, notes, scoring, history

\* A note that is over lies below the band, so it cannot be hit at the edge
\* that takes it away, and its counted bit is cleared there.
LEMMA LandingBelowBand ==
  ASSUME TypeOK, NEW l \in Lanes, Landing(l)
  PROVE  /\ y[l] > HitHi
         /\ ~Hit(l)
         /\ ~CountedIn(l)
BY GeometryAssumption DEF TypeOK, Landing, Hit, InBand, CountedIn, Positions

\* A sprite stays on its ten-bit path: it never wraps around by overflow, and
\* without a landing it never moves up.
LEMMA SpriteStays ==
  ASSUME TypeOK, NEW l \in Lanes
  PROVE  /\ SpriteYIn(l) \in Positions
         /\ SpriteMotionIn(l) \in {0, YStep}
         /\ Landing(l) \/ SpriteYIn(l) >= y[l]
<1>1. y[l] \in Positions /\ motion[l] \in {0, YStep}
  BY DEF TypeOK
<1>2. SpriteMotionIn(l) \in {0, YStep}
  BY <1>1 DEF SpriteMotionIn
<1>3. CASE Landing(l)
  BY <1>2, <1>3, GeometryAssumption DEF SpriteYIn, Positions
<1>4. CASE ~Landing(l) /\ ~frame_clk_rising_edge
  BY <1>1, <1>2, <1>4, GeometryAssumption DEF SpriteYIn, Positions
<1>5. CASE ~Landing(l) /\ frame_clk_rising_edge
  <2>1. y[l] <= YMax
    BY <1>1, <1>5, GeometryAssumption DEF Landing, Positions
  <2>2. y[l] + motion[l] \in 0 .. (YMax + YStep)
    BY <1>1, <2>1, GeometryAssumption DEF Positions
  <2>3. (y[l] + motion[l]) % 1024 = y[l] + motion[l]
    BY <2>2, GeometryAssumption
  <2>4. SpriteYIn(l) = y[l] + motion[l]
    BY <1>5, <2>3 DEF SpriteYIn
  <2> QED
    BY <1>1, <1>2, <2>2, <2>4, GeometryAssumption DEF Positions
<1> QED
  BY <1>3, <1>4, <1>5

\* Adding one to a score keeps it in range.
LEMMA ScoreInRange ==
  ASSUME NEW score \in 0 .. ScoreMod - 1, NEW flag
  PROVE  ScoreIn(score, flag) \in 0 .. ScoreMod - 1
BY CounterAssumption DEF ScoreIn

\* Every register keeps to its width.
LEMMA TypeCorrect == TypeOK /\ [Next]_vars => TypeOK'
<1> SUFFICES ASSUME TypeOK, [Next]_vars PROVE TypeOK'
  OBVIOUS
<1>1. ASSUME NEW vs \in BOOLEAN, NEW pressed \in BOOLEAN, Clk(vs, pressed)
      PROVE  TypeOK'
  <2>1. /\ Reset_h' \in BOOLEAN
        /\ frame_clk_delayed' \in BOOLEAN
        /\ frame_clk_rising_edge' \in BOOLEAN
    BY <1>1, Zenon DEF Clk, TypeOK
  <2>2. /\ keycode' \in Codes
        /\ activate' \in SUBSET Lanes
        /\ ctr' \in 0 .. TurnVal
        /\ player_flag' \in {0, 1}
    BY <1>1 DEF Clk, TypeOK
  <2>3. y' \in [Lanes -> Positions] /\ motion' \in [Lanes -> {0, YStep}]
    BY <1>1, SpriteStays, GeometryAssumption DEF Clk, Sprites, Positions
  <2>4. counted' \in [Lanes -> BOOLEAN]
    <3>1. \A l \in Lanes : CountedIn(l) \in BOOLEAN
      BY DEF CountedIn, Hit
    <3> QED
      BY <1>1, <3>1, Zenon DEF Clk, Scoring, TypeOK
  <2>5. score_1' \in 0 .. ScoreMod - 1 /\ score_2' \in 0 .. ScoreMod - 1
    BY <1>1, ScoreInRange, CounterAssumption DEF Clk, Scoring, TypeOK
  <2>6. points' \in [Lanes -> Nat]
    BY <1>1 DEF Clk, ClkHistory, TypeOK
  <2>7. carried' \in [Lanes -> BOOLEAN]
    BY <1>1, Zenon DEF Clk, ClkHistory, TypeOK
  <2>8. turn' \in Nat
    BY <1>1 DEF Clk, ClkHistory, TypeOK
  <2> QED
    BY <2>1, <2>2, <2>3, <2>4, <2>5, <2>6, <2>7, <2>8 DEF TypeOK
<1>2. ASSUME NEW lanes \in OneHot, Tick(lanes) PROVE TypeOK'
  BY <1>2, CounterAssumption DEF Tick, Wraps, OneHot, TypeOK
<1>3. ASSUME NEW k \in Codes, NewKey(k) PROVE TypeOK'
  BY <1>3 DEF NewKey, TypeOK
<1>4. CASE UNCHANGED vars
  BY <1>4 DEF TypeOK
<1> QED
  BY <1>1, <1>2, <1>3, <1>4 DEF Next

\* At most one lane is hit at a clock edge: the lanes answer to different keys.
LEMMA OneHitAtATime ==
  \A k, l \in Lanes : Hit(k) /\ Hit(l) => k = l
BY LanesAssumption DEF Hit

\* What an edge of the 50 MHz clock does to one lane's note and its point.
LEMMA ClkKeepsLane ==
  ASSUME IInv, NEW vs \in BOOLEAN, NEW pressed \in BOOLEAN, Clk(vs, pressed),
         NEW l \in Lanes
  PROVE  /\ points'[l] <= 1
         /\ counted'[l] /\ ~carried'[l] => y'[l] > HitLo /\ points'[l] = 1
         /\ points'[l] = 1 => counted'[l] \/ y'[l] > HitHi
<1> USE DEF Clk, Sprites, Scoring, ClkHistory
<1>0. /\ TypeOK /\ TypeOK'
      /\ y[l] \in Nat /\ points[l] \in Nat
      /\ counted[l] \in BOOLEAN /\ carried[l] \in BOOLEAN
  BY TypeCorrect DEF IInv, TypeOK, Positions, Next
<1>1. CASE Reset_h
  BY <1>0, <1>1 DEF TypeOK
<1>2. CASE ~Reset_h /\ Landing(l)
  <2>1. counted'[l] = FALSE /\ points'[l] = 0
    BY <1>0, <1>2, LandingBelowBand
  <2> QED
    BY <2>1
<1>3. CASE ~Reset_h /\ ~Landing(l)
  <2>1. /\ y'[l] = SpriteYIn(l) /\ y'[l] \in Nat /\ y'[l] >= y[l]
        /\ counted'[l] = CountedIn(l)
        /\ points'[l] = IF Hit(l) THEN points[l] + 1 ELSE points[l]
        /\ carried'[l] = carried[l]
    BY <1>0, <1>3, SpriteStays DEF Positions
  <2>2. /\ points[l] <= 1
        /\ counted[l] /\ ~carried[l] => y[l] > HitLo /\ points[l] = 1
        /\ points[l] = 1 => counted[l] \/ y[l] > HitHi
    BY DEF IInv, OnePointPerNote, CountedNoteIsScored, PaidNoteIsCounted
  <2>3. CASE Hit(l)
    <3>1. /\ ~counted[l] /\ y[l] > HitLo /\ y[l] < HitHi
          /\ CountedIn(l)
      BY <2>3 DEF Hit, InBand, CountedIn
    <3>2. points[l] = 0
      BY <1>0, <2>2, <3>1, GeometryAssumption
    <3> QED
      BY <1>0, <2>1, <2>3, <3>1, <3>2, GeometryAssumption
  <2>4. CASE ~Hit(l)
    <3>1. counted'[l] = (counted[l] /\ y[l] <= HitHi)
      BY <1>0, <2>1, <2>4 DEF CountedIn
    <3> QED
      BY <1>0, <2>1, <2>2, <2>4, <3>1, GeometryAssumption
  <2> QED
    BY <2>3, <2>4
<1> QED
  BY <1>1, <1>2, <1>3

\* The invariant holds at power-up and every action preserves it.
LEMMA InvariantInductive ==
  /\ Init => IInv
  /\ IInv /\ [Next]_vars => IInv'
<1>1. ASSUME Init PROVE IInv
  <2>1. /\ 0 \in Positions /\ 0 \in 0 .. TurnVal /\ 0 \in 0 .. ScoreMod - 1
        /\ ~(0 > HitHi)
    BY GeometryAssumption, CounterAssumption DEF Positions
  <2>2. TypeOK
    BY <1>1, <2>1, LanesAssumption DEF Init, TypeOK
  <2>3. OnePointPerNote /\ CountedNoteIsScored /\ PaidNoteIsCounted
    BY <1>1 DEF Init, OnePointPerNote, CountedNoteIsScored, PaidNoteIsCounted
  <2>4. TurnFollowsCounter
    BY <1>1 DEF Init, TurnFollowsCounter
  <2>5. ResetHoldsGuitar
    BY <1>1 DEF Init, ResetHoldsGuitar
  <2> QED
    BY <2>2, <2>3, <2>4, <2>5 DEF IInv
<1>2. ASSUME IInv, [Next]_vars PROVE IInv'
  <2>0. TypeOK /\ TypeOK'
    BY <1>2, TypeCorrect DEF IInv
  <2>1. ASSUME NEW vs \in BOOLEAN, NEW pressed \in BOOLEAN, Clk(vs, pressed)
        PROVE  IInv'
    <3>1. (OnePointPerNote /\ CountedNoteIsScored /\ PaidNoteIsCounted)'
      BY <1>2, <2>1, ClkKeepsLane
         DEF OnePointPerNote, CountedNoteIsScored, PaidNoteIsCounted
    <3>2. TurnFollowsCounter'
      BY <1>2, <2>0, <2>1 DEF IInv, TypeOK, TurnFollowsCounter, Clk, ClkHistory
    <3>3. ResetHoldsGuitar'
      BY <2>1 DEF ResetHoldsGuitar, Clk
    <3> QED
      BY <2>0, <3>1, <3>2, <3>3 DEF IInv
  <2>2. ASSUME NEW lanes \in OneHot, Tick(lanes) PROVE IInv'
    <3>1. TurnFollowsCounter'
      BY <1>2, <2>0, <2>2, CounterAssumption
         DEF IInv, TypeOK, TurnFollowsCounter, Tick, Wraps
    <3>2. (OnePointPerNote /\ CountedNoteIsScored /\ PaidNoteIsCounted)'
      BY <1>2, <2>2 DEF IInv, Tick, OnePointPerNote, CountedNoteIsScored,
                        PaidNoteIsCounted
    <3>3. ResetHoldsGuitar'
      BY <2>2 DEF ResetHoldsGuitar, Tick
    <3> QED
      BY <2>0, <3>1, <3>2, <3>3 DEF IInv
  <2>3. CASE (\E k \in Codes : NewKey(k)) \/ UNCHANGED vars
    BY <1>2, <2>0, <2>3
       DEF NewKey, IInv, OnePointPerNote, CountedNoteIsScored,
           PaidNoteIsCounted, TurnFollowsCounter, ResetHoldsGuitar
  <2> QED
    BY <1>2, <2>1, <2>2, <2>3 DEF Next
<1> QED
  BY <1>1, <1>2

THEOREM SpecInvariant == Spec => []IInv
BY InvariantInductive, PTL DEF Spec

\* No position, score or counter of the game leaves its register.
THEOREM WidthsKept == Spec => []TypeOK
BY SpecInvariant, PTL DEF IInv

\* A note is worth one point at most.
THEOREM OnePoint == Spec => []OnePointPerNote
BY SpecInvariant, PTL DEF IInv

\* Only a reset leaves a counted bit set over a note it was not set for.
THEOREM CountedScored == Spec => []CountedNoteIsScored
BY SpecInvariant, PTL DEF IInv

\* The guitar changes hands at least once a period of ctr_player.
THEOREM TurnsEnd == Spec => []BoundedTurn
<1>1. IInv => BoundedTurn
  BY CounterAssumption DEF IInv, TypeOK, TurnFollowsCounter, BoundedTurn
<1> QED
  BY SpecInvariant, <1>1, PTL

\* A key pressed while its note is in the band earns the point, unless a
\* reset left the lane counted.
THEOREM HitsScore == Spec => HitIsScored
<1>1. ASSUME IInv, [Next]_vars,
             \E vs, pressed \in BOOLEAN : Clk(vs, pressed),
             ~Reset_h, NEW l \in Lanes, ~carried[l], InBand(l),
             keycode = KeyCode[l]
      PROVE  points'[l] = 1
  <2>1. PICK vs \in BOOLEAN, pressed \in BOOLEAN : Clk(vs, pressed)
    BY <1>1
  <2>2. TypeOK /\ y[l] \in Nat /\ points[l] \in Nat
    BY <1>1 DEF IInv, TypeOK, Positions
  <2>3. ~Landing(l)
    BY <1>1, <2>2, LandingBelowBand, GeometryAssumption DEF InBand
  <2>4. points'[l] = IF Hit(l) THEN points[l] + 1 ELSE points[l]
    BY <1>1, <2>1, <2>3 DEF Clk, ClkHistory
  <2>5. CASE counted[l]
    BY <1>1, <2>4, <2>5 DEF IInv, CountedNoteIsScored, Hit
  <2>6. CASE ~counted[l]
    <3>1. Hit(l)
      BY <1>1, <2>6 DEF Hit
    <3>2. points[l] = 0
      BY <1>1, <2>2, <2>6, GeometryAssumption
         DEF IInv, OnePointPerNote, PaidNoteIsCounted, InBand
    <3> QED
      BY <2>4, <3>1, <3>2
  <2> QED
    BY <2>5, <2>6
<1>2. IInv /\ [Next]_vars =>
        [\A l \in Lanes :
           /\ \E vs, pressed \in BOOLEAN : Clk(vs, pressed)
           /\ ~Reset_h /\ ~carried[l]
           /\ InBand(l) /\ keycode = KeyCode[l]
           => points'[l] = 1]_vars
  BY <1>1
<1> QED
  BY SpecInvariant, <1>2, PTL DEF Spec, HitIsScored

\* A score that wraps around has still grown by one.
LEMMA WrappedGain ==
  ASSUME NEW s \in 0 .. ScoreMod - 1
  PROVE  /\ ((((s + 1) % ScoreMod) - s) + 0) % ScoreMod = 1
         /\ (0 + (((s + 1) % ScoreMod) - s)) % ScoreMod = 1
<1>1. ScoreMod \in Nat /\ ScoreMod > 1
  BY CounterAssumption
<1>2. CASE s = ScoreMod - 1
  <2>1. (s + 1) % ScoreMod = 0
    BY <1>1, <1>2
  <2>2. (1 - ScoreMod) % ScoreMod = 1
    BY <1>1
  <2> QED
    BY <1>1, <1>2, <2>1, <2>2
<1>3. CASE s < ScoreMod - 1
  <2>1. (s + 1) % ScoreMod = s + 1
    BY <1>1, <1>3
  <2>2. 1 % ScoreMod = 1
    BY <1>1
  <2> QED
    BY <1>1, <1>3, <2>1, <2>2
<1> QED
  BY <1>1, <1>2, <1>3

\* The scores grow by exactly the number of lanes hit, because at most one is.
THEOREM PointsAddUp == Spec => NoPointLost
<1> DEFINE New == {l \in Lanes : ~counted[l] /\ counted'[l]}
           Gain == ((score_1' - score_1) + (score_2' - score_2)) % ScoreMod
<1>1. ASSUME TypeOK, ~Reset_h, NEW vs \in BOOLEAN, NEW pressed \in BOOLEAN,
             Clk(vs, pressed)
      PROVE  Gain = Cardinality(New)
  <2>1. New = {l \in Lanes : Hit(l)}
    BY <1>1 DEF Clk, Scoring, CountedIn, Hit
  <2>2. CASE ~SomeHit
    <3>1. Cardinality(New) = 0
      BY <2>1, <2>2, FS_EmptySet DEF SomeHit
    <3>2. Gain = 0
      BY <1>1, <2>2, CounterAssumption DEF Clk, Scoring, ScoreIn, TypeOK
    <3> QED
      BY <3>1, <3>2
  <2>3. CASE SomeHit
    <3>1. PICK l \in Lanes : Hit(l)
      BY <2>3 DEF SomeHit
    <3>2. New = {l}
      BY <2>1, <3>1, OneHitAtATime
    <3>3. Cardinality(New) = 1
      BY <3>2, FS_Singleton
    <3>4. CASE player_flag = 1
      <4>1. score_1' = (score_1 + 1) % ScoreMod /\ score_2' = score_2
        BY <1>1, <2>3, <3>4 DEF Clk, Scoring, ScoreIn
      <4>2. score_2' - score_2 = 0 /\ score_1 \in 0 .. ScoreMod - 1
        BY <1>1, <4>1 DEF TypeOK
      <4> QED
        BY <3>3, <4>1, <4>2, WrappedGain
    <3>5. CASE player_flag = 0
      <4>1. score_2' = (score_2 + 1) % ScoreMod /\ score_1' = score_1
        BY <1>1, <2>3, <3>5 DEF Clk, Scoring, ScoreIn
      <4>2. score_1' - score_1 = 0 /\ score_2 \in 0 .. ScoreMod - 1
        BY <1>1, <4>1 DEF TypeOK
      <4> QED
        BY <3>3, <4>1, <4>2, WrappedGain
    <3> QED
      BY <1>1, <3>4, <3>5 DEF TypeOK
  <2> QED
    BY <2>2, <2>3
<1>2. ASSUME TypeOK, UNCHANGED scoring
      PROVE  Gain = Cardinality(New)
  <2>1. New = {}
    BY <1>2
  <2>2. Gain = 0
    BY <1>2, CounterAssumption DEF TypeOK
  <2> QED
    BY <2>1, <2>2, FS_EmptySet
<1>3. TypeOK /\ [Next]_vars => [~Reset_h => Gain = Cardinality(New)]_vars
  BY <1>1, <1>2 DEF Next, Tick, NewKey
<1> QED
  BY SpecInvariant, <1>3, PTL DEF Spec, IInv, NoPointLost

\* The game implements the score board its players believe in.
THEOREM Implements == Spec => BoardSpec
<1> DEFINE Open == {l \in Lanes : points[l] = 0}
<1>1. Init => Board!Init
  BY DEF Init, Board!Init
<1>2. ASSUME IInv, NEW vs \in BOOLEAN, NEW pressed \in BOOLEAN,
             Clk(vs, pressed)
      PROVE  Board!Next \/ UNCHANGED Board!vars
  <2>0. TypeOK /\ \A l \in Lanes : points[l] \in Nat
    BY <1>2 DEF IInv, TypeOK
  <2>h. player_flag' \in {player_flag, 0}
    BY <1>2 DEF Clk
  <2>1. CASE Reset_h
    <3>1. player_flag' = 0
      BY <1>2, <2>1, <2>h DEF IInv, ResetHoldsGuitar
    <3>2. Board!NewGame
      BY <1>2, <2>1, <3>1 DEF Clk, Scoring, ClkHistory, Board!NewGame
    <3> QED
      BY <3>2 DEF Board!Next
  <2>2. CASE ~Reset_h
    <3>0. PICK ended \in SUBSET Lanes : ended = {l \in Lanes : Landing(l)}
      OBVIOUS
    <3>1. \A l \in Lanes :
            points'[l] = IF Landing(l) THEN 0
                         ELSE IF Hit(l) THEN points[l] + 1 ELSE points[l]
      BY <1>2, <2>2 DEF Clk, ClkHistory
    <3>2. CASE ~SomeHit
      <4>1. Open' = Open \cup ended
        BY <2>0, <3>0, <3>1, <3>2 DEF SomeHit
      <4>2. UNCHANGED <<score_1, score_2>>
        BY <1>2, <2>2, <3>2 DEF Clk, Scoring, ScoreIn
      <4>3. Board!NextNotes(ended)
        BY <4>1, <4>2, <2>h DEF Board!NextNotes, Board!KeptOrTaken
      <4> QED
        BY <3>0, <4>3 DEF Board!Next
    <3>3. CASE SomeHit
      <4>1. PICK l \in Lanes : Hit(l)
        BY <3>3 DEF SomeHit
      <4>2. ~Landing(l)
        BY <2>0, <4>1, LandingBelowBand
      <4>3. points[l] = 0
        BY <1>2, <2>0, <4>1, GeometryAssumption
           DEF IInv, OnePointPerNote, PaidNoteIsCounted, Hit, InBand, TypeOK,
               Positions
      <4>4. \A k \in Lanes : k # l => ~Hit(k)
        BY <4>1, OneHitAtATime
      <4>5. Open' = (Open \ {l}) \cup ended
        BY <2>0, <3>0, <3>1, <4>1, <4>2, <4>3, <4>4
      <4>6. \/ player_flag = 1 /\ score_1' = (score_1 + 1) % ScoreMod /\ UNCHANGED score_2
            \/ player_flag = 0 /\ score_2' = (score_2 + 1) % ScoreMod /\ UNCHANGED score_1
        BY <1>2, <2>0, <2>2, <3>3 DEF Clk, Scoring, ScoreIn, TypeOK
      <4>7. Board!Award(l, ended)
        BY <3>0, <4>2, <4>3, <4>5, <4>6, <2>h DEF Board!Award, Board!KeptOrTaken
      <4> QED
        BY <3>0, <4>7 DEF Board!Next
    <3> QED
      BY <3>2, <3>3
  <2> QED
    BY <2>1, <2>2
<1>3. (\E k \in Codes : NewKey(k)) \/ UNCHANGED vars => UNCHANGED Board!vars
  BY DEF NewKey, Board!vars
<1>4. ASSUME NEW lanes \in OneHot, Tick(lanes)
      PROVE  Board!Pass \/ UNCHANGED Board!vars
  BY <1>4 DEF Tick, Board!Pass, Board!vars
<1>5. IInv /\ [Next]_vars => [Board!Next]_(Board!vars)
  BY <1>2, <1>3, <1>4 DEF Next, Board!Next
<1> QED
  BY SpecInvariant, <1>1, <1>5, PTL DEF Spec, BoardSpec, Board!Spec

-----------------------------------------------------------------------------
(* The notes of the game come from the generator of NoteSource: its register *)
(* is never stuck, for every distance between two ticks and any number of    *)
(* resets.                                                                   *)

CONSTANTS TickPeriod, MaxResets

VARIABLES
  RESET, resets, phase, late,
  dropped      \* the lane the generator has told to drop a note, or none

Source == INSTANCE NoteSource WITH activate <- dropped

\* A value of the thirteen bits with one of them set.
Alive(r) == r \in Nat /\ 0 < r /\ r < 8192

\* A shift drops the top bit; if it was the only one set, the feedback is set,
\* because the top bit is one of its taps and the others are clear.
LEMMA ShiftKeepsABit ==
  ASSUME NEW r, Alive(r)
  PROVE  Alive(Shifted(r))
<1>1. feedback(r) \in 0 .. 1
  <2>1. /\ Bit(r, 4096) \in Nat /\ Bit(r, 8) \in Nat
        /\ Bit(r, 4) \in Nat /\ Bit(r, 1) \in Nat
    BY DEF Bit, Alive
  <2> QED
    BY <2>1 DEF feedback
<1>2. r = 4096 => feedback(r) = 1
  BY DEF feedback, Bit
<1>3. CASE r < 4096
  <2>1. (2 * r + feedback(r)) % 8192 = 2 * r + feedback(r)
    BY <1>1, <1>3 DEF Alive
  <2> QED
    BY <1>1, <1>3, <2>1 DEF Shifted, Alive
<1>4. CASE r >= 4096
  <2>1. (2 * r + feedback(r)) % 8192 = 2 * r + feedback(r) - 8192
    BY <1>1, <1>4 DEF Alive
  <2> QED
    BY <1>1, <1>2, <1>4, <2>1 DEF Shifted, Alive
<1> QED
  BY <1>3, <1>4 DEF Alive

\* The register never holds zero, whenever the button is pressed: a shift
\* leaves a bit in it, and the reset of RNG2 puts one there.
THEOREM NeverSticks == Source!Spec => []NeverZero
<1>1. Source!Init => Alive(random)
  BY DEF Source!Init, Alive
<1>2. Alive(random) /\ [Source!Next]_(Source!vars) => Alive(random)'
  <2>1. Alive(random) /\ Source!Clk => Alive(random)'
    BY ShiftKeepsABit DEF Source!Clk, Source!Shifted, Source!feedback,
       Source!Bit, Shifted, feedback, Bit, Alive
  <2>2. Source!PressReset => Alive(random)'
    BY DEF Source!PressReset, Alive
  <2>3. Alive(random) /\ (Source!ReleaseReset \/ UNCHANGED Source!vars) => Alive(random)'
    BY DEF Source!ReleaseReset, Source!vars, Alive
  <2> QED
    BY <2>1, <2>2, <2>3 DEF Source!Next
<1>3. Alive(random) => NeverZero
  BY DEF NeverZero, Alive
<1> QED
  BY <1>1, <1>2, <1>3, PTL DEF Source!Spec
=============================================================================
