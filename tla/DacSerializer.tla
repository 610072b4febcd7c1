--------------------------- MODULE DacSerializer ---------------------------
(***************************************************************************)
(* The way of the samples to the codec in audio_interface.vhd: the         *)
(* samplers of the codec's clocks, DACData_reg and AUD_DACDAT. The codec   *)
(* is the master of both clocks and external: AUD_BCLK and AUD_DACLRCK     *)
(* move when its own clock says, DACLRCK with or shortly after a falling   *)
(* BCLK, and it takes a bit on each rising BCLK, the first one after the   *)
(* rise of DACLRCK being the most significant (DSP mode).                  *)
(*                                                                         *)
(* LDATA and RDATA are one word of Width bits, named by a number; a bit is *)
(* the name of its word and its index.                                     *)
(***************************************************************************)
EXTENDS Integers, Sequences

CONSTANTS
  Width,        \* bits of LDATA & RDATA: 32
  Slots,        \* BCLK cycles of a frame
  HalfMin, HalfMax,  \* Clk cycles of half a BCLK period, at least and at most
  Samples,      \* names of the words on offer; 0 is the word of a reset
  MaxResets     \* bound: resets TLC explores

\* Three cycles of Clk pass from the codec's frame clock to the first bit, and
\* one more if the frame clock is late.
ASSUME SerializerAssumption ==
  /\ Width \in Nat \ {0} /\ Slots \in Nat /\ Slots >= Width
  /\ HalfMin \in Nat /\ HalfMax \in Nat /\ 4 <= HalfMin /\ HalfMin <= HalfMax
  /\ 0 \notin Samples /\ MaxResets \in Nat

VARIABLES
  Reset, resets,
  dack0, dack1, bck0, bck1,    \* samplers
  LRDATA, Bcount, flag1,       \* DACData_reg
  sample,                      \* LDATA & RDATA
  BCLK, DACLRCK, age, slot,    \* the codec's clocks, the cycles since BCLK
                               \* moved, the BCLK cycle of the frame
  got,                         \* the bits the codec has taken in this frame
  clean, offered               \* history: the frame has seen no reset; the
                               \* words on offer since it began

samplers == <<dack0, dack1, bck0, bck1>>
register == <<LRDATA, Bcount, flag1>>
codec == <<BCLK, DACLRCK, age, slot, got, clean, offered>>
vars == <<Reset, resets, samplers, register, sample, codec>>

TypeOK ==
  /\ Reset \in BOOLEAN /\ resets \in 0 .. MaxResets
  /\ {dack0, dack1, bck0, bck1, flag1, BCLK, DACLRCK, clean} \subseteq BOOLEAN
  /\ LRDATA \in Samples \cup {0} /\ Bcount \in 0 .. Width - 1
  /\ sample \in Samples /\ offered \subseteq Samples
  /\ age \in 1 .. HalfMax /\ slot \in 0 .. Slots - 1
  /\ got \in Seq((Samples \cup {0}) \X (0 .. Width - 1)) /\ Len(got) <= Width

-----------------------------------------------------------------------------

AUD_DACDAT == <<LRDATA, Bcount>>

\* Slip: the count runs out of its range.
CountBelowZero == Bcount - 1

\* An integer of range 0 to 31 is a five-bit register.
CountDown == (Bcount + Width - 1) % Width

Sample ==
  IF Reset \/ Reset' THEN /\ dack0' = FALSE /\ dack1' = FALSE
                 /\ bck0' = FALSE /\ bck1' = FALSE
  ELSE /\ dack1' = dack0 /\ dack0' = DACLRCK
       /\ bck1' = bck0 /\ bck0' = BCLK

Loads == dack0 /\ ~dack1
BclkRose == bck0 /\ ~bck1
BclkFell == ~bck0 /\ bck1

\* Slip: the falling BCLK goes before the new frame.
ShiftFirst ==
  CASE BclkFell -> Bcount' = CountDown /\ UNCHANGED <<LRDATA, flag1>>
    [] Loads /\ ~BclkFell -> LRDATA' = sample /\ Bcount' = Width - 1 /\ flag1' = TRUE
    [] OTHER -> (IF BclkRose THEN flag1' = FALSE ELSE UNCHANGED flag1)
                /\ UNCHANGED <<LRDATA, Bcount>>

LoadOrShift ==
  CASE Loads -> LRDATA' = sample /\ Bcount' = Width - 1 /\ flag1' = TRUE
    [] ~Loads /\ BclkRose -> flag1' = FALSE /\ UNCHANGED <<LRDATA, Bcount>>
    [] ~Loads /\ BclkFell -> Bcount' = CountDown /\ UNCHANGED <<LRDATA, flag1>>
    [] OTHER -> UNCHANGED register

DACData_reg ==
  IF Reset' THEN LRDATA' = 0 /\ Bcount' = Width - 1 /\ UNCHANGED flag1
  ELSE IF Reset THEN UNCHANGED register ELSE LoadOrShift

-----------------------------------------------------------------------------
(* The codec, as seen in one cycle of Clk. *)

Frame(s) == s = 0

\* A falling BCLK starts a slot, and DACLRCK follows at once or a cycle later.
BclkFalls ==
  /\ BCLK /\ age >= HalfMin
  /\ BCLK' = FALSE /\ age' = 1 /\ slot' = (slot + 1) % Slots
  /\ DACLRCK' \in {DACLRCK, Frame(slot')}
  /\ got' = IF Frame(slot') THEN <<>> ELSE got

\* A rising BCLK takes the bit of before or after this edge of Clk.
BclkRises ==
  /\ ~BCLK /\ age >= HalfMin
  /\ BCLK' = TRUE /\ age' = 1
  /\ got' \in IF Len(got) < Width
              THEN {Append(got, AUD_DACDAT), Append(got, AUD_DACDAT')} ELSE {got}
  /\ DACLRCK' = Frame(slot) /\ UNCHANGED slot

BclkStays ==
  /\ age < HalfMax /\ age' = age + 1
  /\ DACLRCK' = Frame(slot)
  /\ UNCHANGED <<BCLK, slot, got>>

Begins == slot' = 0 /\ slot # 0

History ==
  /\ clean' = (~Reset' /\ ~Reset /\ (clean \/ Begins))
  /\ offered' = IF Begins THEN {sample} ELSE offered \cup {sample}

-----------------------------------------------------------------------------

Init ==
  /\ Reset = FALSE /\ resets = 0
  /\ dack0 = FALSE /\ dack1 = FALSE /\ bck0 = FALSE /\ bck1 = FALSE
  /\ LRDATA = 0 /\ Bcount = Width - 1 /\ flag1 = FALSE
  /\ sample \in Samples /\ offered = {}
  /\ BCLK = FALSE /\ age = 1 /\ slot \in 1 .. Slots - 1 /\ DACLRCK = FALSE
  /\ got = <<>> /\ clean = FALSE

Button ==
  /\ \/ ~Reset /\ Reset' = TRUE /\ resets < MaxResets /\ resets' = resets + 1
     \/ ~Reset /\ Reset' = FALSE /\ UNCHANGED resets
     \/ Reset /\ Reset' \in BOOLEAN /\ UNCHANGED resets

\* A rising edge of Clk; the music state machine offers any word after it.
Clk ==
  /\ Button /\ Sample /\ DACData_reg
  /\ BclkFalls \/ BclkRises \/ BclkStays
  /\ sample' \in Samples /\ History

Next == Clk

Spec == Init /\ [][Next]_vars

-----------------------------------------------------------------------------
(* Properties. *)

\* In a frame without a reset the codec takes the bits of one word, from the
\* most significant on, and it is a word that was on offer in this frame.
FrameWhole ==
  clean => \A i \in DOMAIN got :
             got[i] = <<LRDATA, Width - i>> /\ LRDATA \in offered

\* What the prover needs beside the above. The frame clock is high in slot 0,
\* give or take the cycle it may be late.
FrameClock ==
  /\ age > 1 \/ BCLK => DACLRCK = Frame(slot)
  /\ slot \notin {0, 1} => ~DACLRCK

\* How far the samplers are behind the bit clock.
BclkSeen ==
  IF BCLK
  THEN /\ age = 1 => ~bck0 /\ ~bck1
       /\ age > 1 => bck0
  ELSE /\ age = 1 => bck0
       /\ age > 1 => ~bck0
       /\ age = 2 => bck1
       /\ age > 2 => ~bck1

\* The word of the frame may not be in the register yet.
Early == slot = 0 /\ ~BCLK /\ age <= 3

\* The next bit of AUD_DACDAT, and before the falling BCLK is seen, the last.
CountFollows ==
  IF ~BCLK /\ slot > 0 /\ age <= 2
  THEN slot <= Width => Bcount = Width - slot
  ELSE slot < Width => Bcount = Width - 1 - slot

Taken == IF BCLK THEN slot + 1 ELSE slot

Loaded ==
  /\ LRDATA \in offered /\ CountFollows
  /\ Len(got) = IF Taken < Width THEN Taken ELSE Width
  /\ \A i \in 1 .. Len(got) : got[i] = <<LRDATA, Width - i>>

Loading ==
  /\ got = <<>>
  /\ age = 1 => ~dack0
  /\ age = 2 => ~dack1
  /\ age = 3 => dack0 /\ (dack1 => LRDATA \in offered /\ Bcount = Width - 1)

InFrame ==
  clean => /\ ~Reset /\ Slots > 1 /\ BclkSeen
           /\ Early => Loading
           /\ ~Early => (DACLRCK => dack0) /\ (dack0 => dack1) /\ Loaded

IInv == TypeOK /\ FrameClock /\ InFrame
=============================================================================
