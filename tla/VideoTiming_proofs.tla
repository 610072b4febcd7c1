------------------------- MODULE VideoTiming_proofs -------------------------
(***************************************************************************)
(* What VideoTiming's runs check on a small screen, proved for every       *)
(* screen that meets ScreenAssumption.                                     *)
(***************************************************************************)
EXTENDS VideoTiming, TLAPS

\* The fields of the screen that the steps below argue about.
LEMMA Screen ==
  /\ H_TOTAL \in Nat /\ V_TOTAL \in Nat /\ HDisplay \in Nat /\ VDisplay \in Nat
  /\ HSyncLo \in Nat /\ HSyncHi \in Nat /\ VSyncLo \in Nat /\ VSyncHi \in Nat
  /\ SpriteX \in Nat /\ SpriteSize \in Nat /\ YStep \in Nat /\ MaxResets \in Nat
  /\ 0 < HDisplay /\ HDisplay <= HSyncLo /\ HSyncLo < HSyncHi /\ HSyncHi < H_TOTAL
  /\ 0 < VDisplay /\ VDisplay <= VSyncLo /\ VSyncLo < VSyncHi /\ VSyncHi < V_TOTAL
  /\ 3 <= SpriteX /\ SpriteX + SpriteSize <= HDisplay /\ 0 < SpriteSize /\ 0 < YStep
BY ScreenAssumption DEF ScreenAssumption

\* The next position of the beam is one of the screen; a line is left at its
\* end only.
LEMMA BeamStays ==
  ASSUME TypeOK
  PROVE  /\ NextH \in 0 .. H_TOTAL - 1 /\ NextV \in 0 .. V_TOTAL - 1
         /\ NextV = v_counter \/ (NextH = 0 /\ NextV \in {0, v_counter + 1})
BY Screen DEF TypeOK, NextH, NextV

\* Every register keeps its range.
LEMMA TypeStep == TypeOK /\ [Next]_vars => TypeOK'
<1> SUFFICES ASSUME TypeOK, [Next]_vars PROVE TypeOK'
  OBVIOUS
<1>1. CASE Clk
  <2>1. Reset_h' \in BOOLEAN /\ resets' \in 0 .. MaxResets /\ half' \in BOOLEAN
    <3>1. Reset_h' \in BOOLEAN /\ half' \in BOOLEAN
      BY <1>1 DEF Clk, Button, TypeOK
    <3>2. CASE ~Reset_h /\ Reset_h'
      BY <1>1, <3>1, <3>2, Screen DEF Clk, Button, TypeOK
    <3>3. CASE ~(~Reset_h /\ Reset_h')
      BY <1>1, <3>1, <3>3, Screen DEF Clk, Button, TypeOK
    <3> QED BY <3>1, <3>2, <3>3
  <2>2. /\ h_counter' \in 0 .. H_TOTAL - 1 /\ v_counter' \in 0 .. V_TOTAL - 1
        /\ VGA_HS' \in BOOLEAN /\ VGA_VS' \in BOOLEAN /\ VGA_BLANK_N' \in BOOLEAN
    <3>1. CASE half /\ Reset_h
      <4>1. /\ h_counter' = 0 /\ v_counter' = 0
            /\ VGA_HS' \in BOOLEAN /\ VGA_VS' \in BOOLEAN /\ VGA_BLANK_N' \in BOOLEAN
        BY <1>1, <3>1 DEF Clk, PixelClock
      <4>2. 0 \in 0 .. H_TOTAL - 1 /\ 0 \in 0 .. V_TOTAL - 1
        BY Screen
      <4> QED BY <4>1, <4>2
    <3>2. CASE half /\ ~Reset_h
      BY <1>1, <3>2, BeamStays DEF Clk, PixelClock, InHSync, InVSync, Visible
    <3>3. CASE ~half
      BY <1>1, <3>3 DEF Clk, screen, TypeOK
    <3> QED BY <3>1, <3>2, <3>3
  <2>3. PICK rng \in BOOLEAN : SpriteClock(rng)
    BY <1>1 DEF Clk
  <2>4. {frame_clk_delayed, frame_clk_rising_edge}' \subseteq BOOLEAN
    BY <2>3 DEF SpriteClock, Rises, TypeOK
  <2>7. x' \in {0, SpriteX}
    BY <2>3 DEF SpriteClock, TypeOK
  <2>5. y' \in 0 .. Sprite_Y_Max + YStep /\ motion' \in {0, YStep}
    <3>1. CASE Reset_h
      BY <2>3, <3>1, Screen DEF SpriteClock, Sprite_Y_Max
    <3>2. CASE ~Reset_h /\ ~frame_clk_rising_edge
      BY <2>3, <3>2 DEF SpriteClock, TypeOK
    <3>3. CASE ~Reset_h /\ frame_clk_rising_edge
      <4>1. y' = IF y > Sprite_Y_Max THEN 0 ELSE y + motion
        BY <2>3, <3>3 DEF SpriteClock
      <4>2. motion' \in {0, YStep}
        BY <2>3, <3>3 DEF SpriteClock, TypeOK
      <4> QED BY <4>1, <4>2, Screen DEF TypeOK, Sprite_Y_Max
    <3> QED BY <3>1, <3>2, <3>3 DEF TypeOK
  <2>6. data_Out' \in Int
    BY <1>1, Screen DEF Clk, read_address, TypeOK, Sprite_Y_Max
  <2> QED BY <2>1, <2>2, <2>4, <2>5, <2>6, <2>7 DEF TypeOK
<1>2. CASE UNCHANGED vars
  BY <1>2 DEF vars, screen, sprite, TypeOK, Sprite_Y_Max
<1> QED BY <1>1, <1>2 DEF Next

\* A pixel clock brings the sync registers in line with the counters.
LEMMA SyncStep == TypeOK /\ SyncFollows /\ [Next]_vars => SyncFollows'
<1> SUFFICES ASSUME TypeOK, SyncFollows, [Next]_vars PROVE SyncFollows'
  OBVIOUS
<1>1. CASE Clk /\ half
  BY <1>1 DEF Clk, PixelClock, SyncFollows, InHSync, InVSync, Visible
<1>2. CASE Clk /\ ~half
  BY <1>2 DEF Clk, screen, SyncFollows, InHSync, InVSync, Visible
<1>3. CASE UNCHANGED vars
  BY <1>3 DEF vars, screen, SyncFollows, InHSync, InVSync, Visible
<1> QED BY <1>1, <1>2, <1>3 DEF Next

\* A sprite in its column stays there, and one that waits for its first note
\* since power-up does not move without a frame clock.
LEMMA StaysPlaced ==
  ASSUME TypeOK, Placed, NEW rng, SpriteClock(rng), Reset_h \/ ~frame_clk_rising_edge
  PROVE  Placed'
<1>1. CASE Reset_h
  BY <1>1 DEF SpriteClock, Placed
<1>2. CASE ~Reset_h /\ ~frame_clk_rising_edge
  BY <1>2 DEF SpriteClock, Placed
<1> QED BY <1>1, <1>2

\* VGA_VS rises on leaving the last line of the pulse or on the first pixel
\* clock after a reset, and the sprite has seen it one pixel later.
LEMMA EdgeStep ==
  TypeOK /\ SyncFollows /\ EdgeSeen /\ ImageCaughtUp /\ [Next]_vars => EdgeSeen'
<1> SUFFICES ASSUME TypeOK, SyncFollows, EdgeSeen, ImageCaughtUp, [Next]_vars
             PROVE  EdgeSeen'
  OBVIOUS
<1>1. CASE Clk
  <2>1. PICK rng \in BOOLEAN : SpriteClock(rng)
    BY <1>1 DEF Clk
  <2>2. ASSUME VGA_VS', ~frame_clk_delayed' PROVE ~half' /\ FrameStart'
    <3>1. ~VGA_VS
      BY <2>1, <2>2 DEF SpriteClock
    <3>2. half /\ ~Reset_h
      BY <1>1, <2>2, <3>1 DEF Clk, PixelClock, screen
    <3>3. /\ h_counter' = NextH /\ v_counter' = NextV
          /\ ~InVSync(NextV)
      BY <1>1, <2>2, <3>2 DEF Clk, PixelClock
    <3>0. ~half'
      BY <1>1, <3>2 DEF Clk, TypeOK
    <3>4. CASE InVSync(v_counter)
      <4>1. NextH = 0 /\ NextV = VSyncHi
        BY <3>3, <3>4, Screen DEF InVSync, NextV, NextH, TypeOK
      <4>2. h_counter' = 0 /\ v_counter' = VSyncHi
        BY <3>3, <4>1
      <4> QED BY <4>2, <3>0 DEF FrameStart
    <3>5. CASE h_counter = 0 /\ v_counter = 0
      <4>1. NextH = 1 /\ NextV = 0
        BY <3>5, Screen DEF NextV, NextH
      <4>2. h_counter' = 1 /\ v_counter' = 0
        BY <3>3, <4>1
      <4>3. Placed
        BY <3>1, <3>5 DEF ImageCaughtUp, Restarted
      <4>4. ~frame_clk_rising_edge
        BY <3>5, Screen DEF EdgeSeen, FrameStart
      <4>5. Placed'
        BY <2>1, <4>3, <4>4, StaysPlaced
      <4> QED BY <4>2, <4>5, <3>0 DEF FrameStart
    <3> QED BY <3>1, <3>4, <3>5 DEF SyncFollows
  <2>3. ASSUME frame_clk_rising_edge' PROVE half' /\ FrameStart'
    <3>1. VGA_VS /\ ~frame_clk_delayed
      BY <2>1, <2>3 DEF SpriteClock, Rises
    <3>2. ~half /\ FrameStart
      BY <3>1 DEF EdgeSeen
    <3>3. half' /\ UNCHANGED <<h_counter, v_counter>>
      BY <1>1, <3>2 DEF Clk, screen, TypeOK
    <3>4. ~frame_clk_rising_edge
      BY <3>2 DEF EdgeSeen
    <3>5. Placed => Placed'
      BY <2>1, <3>4, StaysPlaced
    <3> QED BY <3>2, <3>3, <3>5 DEF FrameStart
  <2> QED BY <2>2, <2>3 DEF EdgeSeen
<1>2. CASE UNCHANGED vars
  BY <1>2 DEF vars, screen, sprite, EdgeSeen, FrameStart, Placed
<1> QED BY <1>1, <1>2 DEF Next

\* The sprite moves at the end of a pixel only, or in a reset that lasts until
\* the controller has seen it, so in the second half of a pixel the image
\* memory has the pixel.
LEMMA ImageStep ==
  TypeOK /\ EdgeSeen /\ ImageCaughtUp /\ [Next]_vars => ImageCaughtUp'
<1> SUFFICES ASSUME TypeOK, EdgeSeen, ImageCaughtUp, [Next]_vars
             PROVE  ImageCaughtUp'
  OBVIOUS
<1>1. CASE Clk
  <2>1. PICK rng \in BOOLEAN : SpriteClock(rng)
    BY <1>1 DEF Clk
  <2>2. ASSUME Restarted' PROVE Placed' /\ (Reset_h' /\ ~half' => x' = SpriteX /\ y' = 0)
    <3>1. CASE half
      <4>1. Reset_h
        <5>1. SUFFICES ASSUME ~Reset_h PROVE FALSE
          OBVIOUS
        <5>2. NextV = 0 /\ InVSync(NextV)
          BY <1>1, <2>2, <3>1, <5>1 DEF Clk, PixelClock, Restarted
        <5> QED BY <5>2, Screen DEF InVSync
      <4> QED BY <2>1, <4>1 DEF SpriteClock, Placed
    <3>2. CASE ~half
      <4>1. Restarted
        BY <1>1, <2>2, <3>2 DEF Clk, screen, Restarted
      <4>2. Placed /\ ~frame_clk_rising_edge
        BY <3>2, <4>1 DEF ImageCaughtUp, EdgeSeen
      <4>3. half'
        BY <1>1, <3>2 DEF Clk, TypeOK
      <4> QED BY <2>1, <4>2, <4>3, StaysPlaced
    <3> QED BY <3>1, <3>2
  <2>3. ASSUME half', ~Reset_h' PROVE data_Out' = read_address'
    <3>1. ~half
      BY <1>1, <2>3 DEF Clk, TypeOK
    <3>2. ~frame_clk_rising_edge
      BY <3>1 DEF EdgeSeen
    <3>3. x' = x /\ y' = y
      <4>1. CASE Reset_h
        <5>1. Restarted
          BY <1>1, <2>3, <3>1, <4>1 DEF Clk, Button, ResetSeen
        <5>2. x = SpriteX /\ y = 0
          BY <3>1, <4>1, <5>1 DEF ImageCaughtUp
        <5> QED BY <2>1, <4>1, <5>2 DEF SpriteClock
      <4>2. CASE ~Reset_h
        BY <2>1, <3>2, <4>2 DEF SpriteClock
      <4> QED BY <4>1, <4>2
    <3> QED BY <1>1, <3>1, <3>3 DEF Clk, screen, read_address
  <2> QED BY <2>2, <2>3 DEF ImageCaughtUp
<1>2. CASE UNCHANGED vars
  BY <1>2 DEF vars, screen, sprite, ImageCaughtUp, Restarted, Placed, read_address
<1> QED BY <1>1, <1>2 DEF Next

\* IInv holds at the start and is kept by every step.
THEOREM SpecInvariant == Spec => []IInv
<1>1. Init => IInv
  <2> SUFFICES ASSUME Init PROVE IInv
    OBVIOUS
  <2>1. TypeOK
    <3>1. {Reset_h, half, VGA_HS, VGA_VS, VGA_BLANK_N, frame_clk_delayed,
           frame_clk_rising_edge} \subseteq BOOLEAN
      BY DEF Init
    <3>2. /\ resets \in 0 .. MaxResets /\ data_Out \in Int
          /\ h_counter \in 0 .. H_TOTAL - 1 /\ v_counter \in 0 .. V_TOTAL - 1
          /\ x \in {0, SpriteX}
          /\ y \in 0 .. Sprite_Y_Max + YStep /\ motion \in {0, YStep}
      BY Screen DEF Init, Sprite_Y_Max
    <3> QED BY <3>1, <3>2 DEF TypeOK
  <2>2. SyncFollows /\ EdgeSeen /\ ImageCaughtUp
    BY DEF Init, SyncFollows, EdgeSeen, ImageCaughtUp, Placed
  <2> QED BY <2>1, <2>2 DEF IInv
<1>2. IInv /\ [Next]_vars => IInv'
  BY TypeStep, SyncStep, EdgeStep, ImageStep DEF IInv
<1> QED BY <1>1, <1>2, PTL DEF Spec

\* Every register of the controller, the sprite and the image memory stays in
\* its range.
THEOREM TypeCorrect == Spec => []TypeOK
BY SpecInvariant, PTL DEF IInv

\* No sync pulse falls into the picture, on any screen of this layout.
THEOREM NoSyncInPicture == Spec => []SyncOutsidePicture
<1>1. IInv => SyncOutsidePicture
  <2> SUFFICES ASSUME IInv, VGA_BLANK_N
               PROVE  VGA_HS /\ VGA_VS /\ Visible(h_counter, v_counter)
    BY DEF SyncOutsidePicture
  <2>1. /\ VGA_HS = ~InHSync(h_counter) /\ VGA_VS = ~InVSync(v_counter)
        /\ Visible(h_counter, v_counter)
    BY DEF IInv, SyncFollows
  <2>2. ~InHSync(h_counter) /\ ~InVSync(v_counter)
    BY <2>1, Screen DEF IInv, TypeOK, InHSync, InVSync, Visible
  <2> QED BY <2>1, <2>2
<1> QED BY <1>1, SpecInvariant, PTL

\* An offset of a square, row by row, lies in its area.
LEMMA InSquare ==
  ASSUME NEW n \in Nat, NEW row \in 0 .. n - 1, NEW col \in 0 .. n - 1
  PROVE  row * n + col \in 0 .. n * n - 1
<1>1. row * n <= (n - 1) * n /\ 0 <= row * n /\ row * n \in Int
  OBVIOUS
<1>2. (n - 1) * n = n * n - n /\ n * n \in Int
  OBVIOUS
<1> QED BY <1>1, <1>2

\* The pixel shown is that of the beam and lies in the image, although the
\* image memory answers late and the sprite moves on a clock of its own.
THEOREM ShowsTheBeam == Spec => []PixelOfTheBeam
<1>1. IInv => PixelOfTheBeam
  <2> SUFFICES ASSUME IInv, half, is_sprite, ~Reset_h
               PROVE  /\ data_Out = read_address
                      /\ read_address \in 0 .. SpriteSize * SpriteSize - 1
    BY DEF PixelOfTheBeam
  <2>1. data_Out = read_address
    BY DEF IInv, ImageCaughtUp
  <2>2. /\ v_counter - y \in 0 .. SpriteSize - 1
        /\ h_counter - x \in 0 .. SpriteSize - 1
    BY Screen DEF IInv, TypeOK, is_sprite, Sprite_Y_Max
  <2>3. read_address \in 0 .. SpriteSize * SpriteSize - 1
    BY <2>2, InSquare, Screen DEF read_address
  <2> QED BY <2>1, <2>3
<1> QED BY <1>1, SpecInvariant, PTL

\* No sprite is ever drawn at two places of one picture.
THEOREM NoTorn == Spec => MovesUnseen
<1>1. IInv /\ [Next]_vars
        => (y' # y /\ ~Reset_h
            => v_counter >= VDisplay \/ (v_counter = 0 /\ h_counter < x))
  <2> SUFFICES ASSUME IInv, [Next]_vars, y' # y, ~Reset_h
               PROVE  v_counter >= VDisplay \/ (v_counter = 0 /\ h_counter < x)
    OBVIOUS
  <2>1. Clk
    BY DEF Next, vars, sprite
  <2>2. PICK rng \in BOOLEAN : SpriteClock(rng)
    BY <2>1 DEF Clk
  <2>3. frame_clk_rising_edge
    BY <2>2 DEF SpriteClock
  <2>4. FrameStart
    BY <2>3 DEF IInv, EdgeSeen
  <2>5. Placed => x = SpriteX
    <3>1. y = 0 /\ motion = 0 => y' = 0
      BY <2>2, <2>3, Screen DEF SpriteClock
    <3> QED BY <3>1 DEF Placed
  <2> QED BY <2>4, <2>5, Screen DEF FrameStart
<1> QED BY <1>1, SpecInvariant, PTL DEF Spec, MovesUnseen
=============================================================================
