---------------------------- MODULE VideoTiming ----------------------------
(***************************************************************************)
(* The picture: VGA_controller counts the beam over the screen, a sprite   *)
(* moves on the vertical sync it produces, and color_mapper looks the      *)
(* pixel of the sprite up in a memory that answers one Clk later. The      *)
(* pixel clock is every other Clk. The monitor's converter takes a pixel   *)
(* on each rising pixel clock.                                             *)
(*                                                                         *)
(* One sprite stands for the five: they differ in their X position alone.  *)
(* A pixel of the sprite's image is named by its address.                  *)
(***************************************************************************)
EXTENDS Integers

CONSTANTS
  H_TOTAL, V_TOTAL,       \* 800, 525
  HDisplay, VDisplay,     \* the visible part: 640, 480
  HSyncLo, HSyncHi,       \* horizontal sync pulse: 656, 752
  VSyncLo, VSyncHi,       \* vertical sync pulse: 490, 492
  SpriteX,                \* Sprite_X_Pos: 150 to 450
  SpriteSize,             \* 40
  YStep,                  \* Sprite_Y_Step: 3
  MaxResets               \* bound: resets TLC explores

Sprite_Y_Max == VDisplay - 1

ASSUME ScreenAssumption ==
  /\ {H_TOTAL, V_TOTAL, HDisplay, VDisplay, HSyncLo, HSyncHi, VSyncLo, VSyncHi,
      SpriteX, SpriteSize, YStep, MaxResets} \subseteq Nat
  /\ 0 < HDisplay /\ HDisplay <= HSyncLo /\ HSyncLo < HSyncHi /\ HSyncHi < H_TOTAL
  /\ 0 < VDisplay /\ VDisplay <= VSyncLo /\ VSyncLo < VSyncHi /\ VSyncHi < V_TOTAL
  /\ 3 <= SpriteX /\ SpriteX + SpriteSize <= HDisplay /\ 0 < SpriteSize /\ 0 < YStep

VARIABLES
  Reset_h, resets,
  half,                           \* VGA_CLK rises at the next edge of Clk
  h_counter, v_counter, VGA_HS, VGA_VS, VGA_BLANK_N,          \* VGA_controller
  frame_clk_delayed, frame_clk_rising_edge, x, y, motion,     \* the sprite
  data_Out                        \* frameRAM

screen == <<h_counter, v_counter, VGA_HS, VGA_VS, VGA_BLANK_N>>
sprite == <<frame_clk_delayed, frame_clk_rising_edge, x, y, motion>>
vars == <<Reset_h, resets, half, screen, sprite, data_Out>>

TypeOK ==
  /\ {Reset_h, half, VGA_HS, VGA_VS, VGA_BLANK_N, frame_clk_delayed,
      frame_clk_rising_edge} \subseteq BOOLEAN
  /\ resets \in 0 .. MaxResets
  /\ h_counter \in 0 .. H_TOTAL - 1 /\ v_counter \in 0 .. V_TOTAL - 1
  /\ x \in {0, SpriteX}
  /\ y \in 0 .. Sprite_Y_Max + YStep /\ motion \in {0, YStep}
  /\ data_Out \in Int

-----------------------------------------------------------------------------
(* VGA_controller. *)

\* Slip: a line is one pixel longer.
NextHLong == IF h_counter = H_TOTAL THEN 0 ELSE h_counter + 1

NextH == IF h_counter + 1 = H_TOTAL THEN 0 ELSE h_counter + 1

\* Slip: the last line is not left.
NextVStays ==
  IF h_counter + 1 # H_TOTAL \/ v_counter + 1 = V_TOTAL
  THEN v_counter ELSE v_counter + 1

NextV ==
  IF h_counter + 1 # H_TOTAL THEN v_counter
  ELSE IF v_counter + 1 = V_TOTAL THEN 0 ELSE v_counter + 1

\* Slip: the pulse is in the picture.
VSyncEarly(v) == v \in VSyncLo - VDisplay .. VSyncHi - VDisplay

InHSync(h) == h \in HSyncLo .. HSyncHi - 1
InVSync(v) == v \in VSyncLo .. VSyncHi - 1

\* Slip: the blanking lags behind the counters.
VisibleLate(h, v) == h_counter < HDisplay /\ v_counter < VDisplay

Visible(h, v) == h < HDisplay /\ v < VDisplay

PixelClock ==
  IF Reset_h
  THEN /\ h_counter' = 0 /\ v_counter' = 0
       /\ VGA_HS' = FALSE /\ VGA_VS' = FALSE /\ VGA_BLANK_N' = FALSE
  ELSE /\ h_counter' = NextH /\ v_counter' = NextV
       /\ VGA_HS' = ~InHSync(NextH) /\ VGA_VS' = ~InVSync(NextV)
       /\ VGA_BLANK_N' = Visible(NextH, NextV)

-----------------------------------------------------------------------------
(* The sprite and its pixels. *)

Rises == VGA_VS /\ ~frame_clk_delayed

\* Sprite_X_Pos is set by the reset alone.
SpriteClock(rng) ==
  /\ frame_clk_delayed' = VGA_VS
  /\ frame_clk_rising_edge' = Rises
  /\ x' = IF Reset_h THEN SpriteX ELSE x
  /\ CASE Reset_h -> y' = 0 /\ motion' = YStep
       [] ~Reset_h /\ ~frame_clk_rising_edge -> UNCHANGED <<y, motion>>
       [] ~Reset_h /\ frame_clk_rising_edge ->
            /\ y' = IF y > Sprite_Y_Max THEN 0 ELSE y + motion
            /\ motion' = CASE rng /\ motion = 0 -> YStep
                           [] y > Sprite_Y_Max -> 0
                           [] OTHER -> motion

\* Slip: one line too many.
IsSpriteBelow ==
  /\ h_counter \in x .. x + SpriteSize - 1
  /\ v_counter \in y .. y + SpriteSize
  /\ motion = YStep

\* The beam is over the falling sprite.
is_sprite ==
  /\ h_counter \in x .. x + SpriteSize - 1
  /\ v_counter \in y .. y + SpriteSize - 1
  /\ motion = YStep

read_address == (v_counter - y) * SpriteSize + (h_counter - x)

-----------------------------------------------------------------------------

\* The registers of VGA_controller before the first pixel clock.
Init ==
  /\ Reset_h = FALSE /\ resets = 0 /\ half = FALSE
  /\ h_counter = 0 /\ v_counter = 0
  /\ VGA_HS = FALSE /\ VGA_VS = FALSE /\ VGA_BLANK_N = FALSE
  /\ frame_clk_delayed = FALSE /\ frame_clk_rising_edge = FALSE
  /\ x = 0 /\ y = 0 /\ motion = 0 /\ data_Out = 0

\* The registers of VGA_controller after a reset or power-up.
Restarted == h_counter = 0 /\ v_counter = 0 /\ ~VGA_VS

\* This edge of Clk is a pixel clock, or one has found the reset on.
ResetSeen == half \/ Restarted

\* The button goes down at any edge of Clk and stays for a pixel clock at least.
Button ==
  /\ \/ ~Reset_h /\ Reset_h' = FALSE
     \/ ~Reset_h /\ Reset_h' = TRUE /\ resets < MaxResets
     \/ Reset_h /\ Reset_h' = TRUE
     \/ Reset_h /\ ResetSeen /\ Reset_h' = FALSE
  /\ resets' = resets + IF ~Reset_h /\ Reset_h' THEN 1 ELSE 0

\* A rising edge of Clk.
Clk ==
  /\ Button
  /\ half' = ~half
  /\ IF half THEN PixelClock ELSE UNCHANGED screen
  /\ \E rng \in BOOLEAN : SpriteClock(rng)
  /\ data_Out' = read_address

Next == Clk

Spec == Init /\ [][Next]_vars

Release == Clk /\ ~Reset_h'

\* The 50 MHz clock runs and the button does not stay down.
FairSpec == Spec /\ WF_vars(Clk) /\ SF_vars(Release)

-----------------------------------------------------------------------------
(* Properties. *)

\* The pixel the converter takes at the next pixel clock is that of the beam,
\* although the memory answers late, and it lies in the image.
PixelOfTheBeam ==
  half /\ VGA_BLANK_N /\ is_sprite /\ ~Reset_h
    => data_Out = read_address /\ read_address \in 0 .. SpriteSize * SpriteSize - 1

\* The monitor sees no sync pulse in the picture, and what it shows is the
\* visible part of the counters' range.
SyncOutsidePicture ==
  VGA_BLANK_N => VGA_HS /\ VGA_VS /\ Visible(h_counter, v_counter)

\* A sprite is never drawn at two places of one picture: it moves while the
\* beam is below the picture or, with the sync that a reset produces, before
\* the beam has come to its first pixel.
MovesUnseen ==
  [][y' # y /\ ~Reset_h
     => v_counter >= VDisplay \/ (v_counter = 0 /\ h_counter < x)]_vars

\* What the prover needs beside the above. The sync registers follow the
\* counters, save between a reset and the first pixel; a frame clock is seen at
\* the end of the vertical sync or at the first pixel after a reset, when the
\* sprite is in its column, or after power-up, when it does not move; the image
\* memory has caught up by the second half of a pixel.
Placed == x = SpriteX \/ (y = 0 /\ motion = 0)

FrameStart ==
  \/ h_counter = 0 /\ v_counter = VSyncHi
  \/ h_counter = 1 /\ v_counter = 0 /\ Placed

SyncFollows ==
  \/ /\ VGA_HS = ~InHSync(h_counter) /\ VGA_VS = ~InVSync(v_counter)
     /\ VGA_BLANK_N = Visible(h_counter, v_counter)
  \/ h_counter = 0 /\ v_counter = 0 /\ ~VGA_HS /\ ~VGA_VS /\ ~VGA_BLANK_N

EdgeSeen ==
  /\ VGA_VS /\ ~frame_clk_delayed => ~half /\ FrameStart
  /\ frame_clk_rising_edge => half /\ FrameStart

ImageCaughtUp ==
  /\ Restarted => Placed
  /\ Restarted /\ Reset_h /\ ~half => x = SpriteX /\ y = 0
  /\ half /\ ~Reset_h => data_Out = read_address

IInv == TypeOK /\ SyncFollows /\ EdgeSeen /\ ImageCaughtUp

\* The vertical sync comes and goes for ever: what moves the notes never stops.
FramesGoOn == []<>VGA_VS /\ []<>~VGA_VS
=============================================================================
