------------------------ MODULE DacSerializer_proofs ------------------------
(***************************************************************************)
(* Why every frame without a reset carries one word, whole, for words and  *)
(* frames of any length and every bit clock whose half period is four      *)
(* cycles of Clk or more. The argument follows the age of the bit clock:   *)
(* the word is in the register before the fourth cycle of the first slot,  *)
(* the count moves between the second and the third cycle of the others,   *)
(* and the codec looks from the fourth cycle on.                           *)
(***************************************************************************)
EXTENDS DacSerializer, TLAPS

\* The constants that the steps below argue about.
LEMMA Lengths ==
  /\ Width \in Nat /\ Width > 0 /\ Slots \in Nat /\ Slots >= Width
  /\ HalfMin \in Nat /\ HalfMax \in Nat /\ 4 <= HalfMin /\ HalfMin <= HalfMax
  /\ MaxResets \in Nat
BY SerializerAssumption DEF SerializerAssumption

\* Counting down stays in range, and goes down by one above 0.
LEMMA Down ==
  ASSUME Bcount \in 0 .. Width - 1
  PROVE  CountDown \in 0 .. Width - 1 /\ (Bcount > 0 => CountDown = Bcount - 1)
<1>1. CASE Bcount = 0
  <2>1. (Width - 1) % Width = Width - 1
    BY Lengths
  <2> QED BY <1>1, <2>1, Lengths DEF CountDown
<1>2. CASE Bcount > 0
  <2>1. Bcount + Width - 1 = Width + (Bcount - 1) /\ Bcount - 1 \in 0 .. Width - 1
    BY <1>2, Lengths
  <2>2. (Width + (Bcount - 1)) % Width = Bcount - 1
    BY <2>1, Lengths
  <2> QED BY <2>1, <2>2 DEF CountDown
<1> QED BY <1>1, <1>2

\* The slots follow one another and come round.
LEMMA NextSlot ==
  ASSUME slot \in 0 .. Slots - 1
  PROVE  \/ slot < Slots - 1 /\ (slot + 1) % Slots = slot + 1
         \/ slot = Slots - 1 /\ (slot + 1) % Slots = 0
<1>1. CASE slot < Slots - 1
  BY <1>1, Lengths
<1>2. CASE slot = Slots - 1
  BY <1>2, Lengths
<1> QED BY <1>1, <1>2, Lengths

\* What becomes of the register in a cycle without a reset.
LEMMA RegisterMoves ==
  ASSUME DACData_reg, ~Reset, ~Reset'
  PROVE  /\ Loads => LRDATA' = sample /\ Bcount' = Width - 1
         /\ ~Loads /\ BclkFell => LRDATA' = LRDATA /\ Bcount' = CountDown
         /\ ~Loads /\ ~BclkFell => LRDATA' = LRDATA /\ Bcount' = Bcount
BY DEF DACData_reg, LoadOrShift, Loads, BclkFell, BclkRose, register

\* Every register keeps its range, and the codec never takes more bits than a
\* word has.
LEMMA TypeStep == TypeOK /\ [Next]_vars => TypeOK'
<1> SUFFICES ASSUME TypeOK, [Next]_vars PROVE TypeOK'
  OBVIOUS
<1> DEFINE Bits == (Samples \cup {0}) \X (0 .. Width - 1)
<1>1. CASE Clk
  <2>1. Reset' \in BOOLEAN
    BY <1>1 DEF Clk, Button
  <2>2. resets' \in 0 .. MaxResets
    <3>1. \/ resets < MaxResets /\ resets' = resets + 1
          \/ resets' = resets
      BY <1>1 DEF Clk, Button
    <3> QED BY <3>1, Lengths DEF TypeOK
  <2>3. {dack0, dack1, bck0, bck1}' \subseteq BOOLEAN
    BY <1>1 DEF Clk, Sample, TypeOK
  <2>4. flag1' \in BOOLEAN
    BY <1>1 DEF Clk, DACData_reg, LoadOrShift, register, TypeOK
  <2>5. LRDATA' \in Samples \cup {0} /\ Bcount' \in 0 .. Width - 1
    <3>1. Width - 1 \in 0 .. Width - 1
      BY Lengths
    <3>2. CountDown \in 0 .. Width - 1
      BY Down DEF TypeOK
    <3>3. LRDATA' \in {LRDATA, sample, 0} /\ Bcount' \in {Bcount, CountDown, Width - 1}
      BY <1>1 DEF Clk, DACData_reg, LoadOrShift, register
    <3> QED BY <3>1, <3>2, <3>3 DEF TypeOK
  <2>6. sample' \in Samples /\ offered' \subseteq Samples
    BY <1>1 DEF Clk, History, TypeOK
  <2>7. {BCLK, DACLRCK, clean}' \subseteq BOOLEAN
    <3>1. clean' \in BOOLEAN
      BY <1>1 DEF Clk, History
    <3>2. BCLK' \in BOOLEAN
      BY <1>1 DEF Clk, BclkFalls, BclkRises, BclkStays, TypeOK
    <3>3. DACLRCK' \in BOOLEAN
      BY <1>1 DEF Clk, BclkFalls, BclkRises, BclkStays, Frame, TypeOK
    <3> QED BY <3>1, <3>2, <3>3
  <2>8. age' \in 1 .. HalfMax /\ slot' \in 0 .. Slots - 1
    <3>1. age' = 1 \/ (age < HalfMax /\ age' = age + 1)
      BY <1>1 DEF Clk, BclkFalls, BclkRises, BclkStays
    <3>2. slot' = slot \/ slot' = (slot + 1) % Slots
      BY <1>1 DEF Clk, BclkFalls, BclkRises, BclkStays
    <3> QED BY <3>1, <3>2, NextSlot, Lengths DEF TypeOK
  <2>9. got' \in Seq(Bits) /\ Len(got') <= Width
    <3>1. \/ got' = <<>> \/ got' = got
          \/ /\ Len(got) < Width
             /\ got' = Append(got, AUD_DACDAT) \/ got' = Append(got, AUD_DACDAT')
      BY <1>1 DEF Clk, BclkFalls, BclkRises, BclkStays
    <3>2. AUD_DACDAT \in Bits /\ AUD_DACDAT' \in Bits
      BY <2>5 DEF AUD_DACDAT, TypeOK
    <3>3. got \in Seq(Bits) /\ Len(got) <= Width
      BY DEF TypeOK
    <3>4. \A bit \in Bits : /\ Append(got, bit) \in Seq(Bits)
                            /\ Len(Append(got, bit)) = Len(got) + 1
      BY <3>3
    <3>5. <<>> \in Seq(Bits) /\ Len(<<>>) <= Width /\ Len(got) \in Nat
      BY <3>3, Lengths
    <3>6. \A bit \in Bits : Len(got) < Width => Len(Append(got, bit)) <= Width
      BY <3>4, <3>5, Lengths
    <3> HIDE DEF Bits
    <3>7. CASE got' = <<>> \/ got' = got
      BY <3>3, <3>5, <3>7, Zenon
    <3>8. ASSUME NEW bit \in Bits, Len(got) < Width, got' = Append(got, bit)
          PROVE  got' \in Seq(Bits) /\ Len(got') <= Width
      BY <3>4, <3>6, <3>8
    <3> QED BY <3>1, <3>2, <3>7, <3>8
  <2> QED BY <2>1, <2>2, <2>3, <2>4, <2>5, <2>6, <2>7, <2>8, <2>9 DEF TypeOK
<1>2. CASE UNCHANGED vars
  BY <1>2 DEF vars, samplers, register, codec, TypeOK
<1> QED BY <1>1, <1>2 DEF Next

\* The frame clock settles a cycle after the falling bit clock.
LEMMA FrameClockStep == TypeOK /\ FrameClock /\ [Next]_vars => FrameClock'
<1> SUFFICES ASSUME TypeOK, FrameClock, [Next]_vars PROVE FrameClock'
  OBVIOUS
<1>1. CASE Clk /\ BclkFalls
  <2>1. /\ ~BCLK' /\ age' = 1 /\ slot' = (slot + 1) % Slots
        /\ DACLRCK' => DACLRCK \/ slot' = 0
    BY <1>1 DEF BclkFalls, Frame
  <2>2. DACLRCK => slot = 0
    BY <1>1 DEF BclkFalls, FrameClock, Frame
  <2>3. DACLRCK' => slot' \in {0, 1}
    BY <2>1, <2>2, NextSlot DEF TypeOK
  <2> QED BY <2>1, <2>3 DEF FrameClock
<1>2. CASE Clk /\ (BclkRises \/ BclkStays)
  <2>1. DACLRCK' = Frame(slot')
    BY <1>2 DEF BclkRises, BclkStays, Frame
  <2> QED BY <2>1 DEF FrameClock, Frame
<1>3. CASE UNCHANGED vars
  BY <1>3 DEF vars, codec, FrameClock, Frame
<1> QED BY <1>1, <1>2, <1>3 DEF Next, Clk

\* The frame clock marks slot 0 once it has settled.
LEMMA FrameClockSettled ==
  ASSUME FrameClock, age > 1 \/ BCLK
  PROVE  DACLRCK <=> slot = 0
<1>1. DACLRCK = (slot = 0)
  BY Zenon DEF FrameClock, Frame
<1> QED BY <1>1

\* No reset, no edge in sight of the samplers' clock but the ones of the codec.
LEMMA Sampled ==
  ASSUME Clk, ~Reset, ~Reset'
  PROVE  /\ dack0' = DACLRCK /\ dack1' = dack0
         /\ bck0' = BCLK /\ bck1' = bck0
         /\ DACData_reg
BY DEF Clk, Sample

\* A frame begins: the codec has taken nothing and its frame clock was low.
LEMMA FrameBegins ==
  ASSUME TypeOK, FrameClock, InFrame, Clk, clean', BclkFalls, slot' = 0
  PROVE  /\ ~Reset' /\ Slots > 1 /\ BclkSeen' /\ Early' /\ Loading'
<1>1. ~Reset /\ ~Reset'
  BY DEF Clk, History
<1>2. slot # 0
  <2>1. CASE clean
    BY <2>1, NextSlot, Lengths DEF InFrame, BclkFalls, TypeOK
  <2>2. CASE ~clean
    BY <2>2 DEF Clk, History, Begins
  <2> QED BY <2>1, <2>2
<1>3. ~BCLK' /\ age' = 1 /\ got' = <<>> /\ BCLK
  BY DEF BclkFalls, Frame
<1>4. ~DACLRCK
  BY <1>2, <1>3 DEF FrameClock, Frame
<1>5. bck0' /\ ~dack0'
  BY <1>1, <1>3, <1>4, Sampled
<1>6. Slots > 1
  BY <1>2, Lengths DEF TypeOK
<1>7. BclkSeen'
  BY <1>3, <1>5 DEF BclkSeen
<1>8. Early' /\ Loading'
  BY <1>3, <1>5 DEF Early, Loading
<1> QED BY <1>1, <1>6, <1>7, <1>8

\* A frame goes on: it was clean before.
LEMMA GoesOn ==
  ASSUME TypeOK, InFrame, Clk, clean', ~(BclkFalls /\ slot' = 0)
  PROVE  /\ clean /\ ~Reset /\ ~Reset' /\ Slots > 1 /\ BclkSeen
         /\ Early => Loading
         /\ ~Early => (DACLRCK => dack0) /\ (dack0 => dack1) /\ Loaded
         /\ offered' = offered \cup {sample}
<1>1. ~Reset /\ ~Reset'
  BY DEF Clk, History
<1>2. ~Begins
  <2>1. BclkFalls \/ slot' = slot
    BY DEF Clk, BclkRises, BclkStays
  <2> QED BY <2>1 DEF Begins
<1>3. clean
  BY <1>2 DEF Clk, History
<1>4. offered' = offered \cup {sample}
  BY <1>2 DEF Clk, History
<1> QED BY <1>1, <1>3, <1>4 DEF InFrame

\* The samplers keep following the bit clock.
LEMMA BclkSeenStep ==
  ASSUME TypeOK, InFrame, Clk, clean', ~(BclkFalls /\ slot' = 0)
  PROVE  BclkSeen'
<1>1. bck0' = BCLK /\ bck1' = bck0 /\ BclkSeen
  BY Sampled, GoesOn
<1>2. CASE BclkFalls
  BY <1>1, <1>2, Lengths DEF BclkFalls, BclkSeen
<1>3. CASE BclkRises
  BY <1>1, <1>3, Lengths DEF BclkRises, BclkSeen, TypeOK
<1>4. CASE BclkStays
  <2>1. age' = age + 1 /\ age \in 1 .. HalfMax /\ BCLK' = BCLK
    BY <1>4 DEF BclkStays, TypeOK
  <2>2. CASE BCLK
    BY <1>1, <2>1, <2>2, Lengths DEF BclkSeen
  <2>3. CASE ~BCLK
    BY <1>1, <2>1, <2>3, Lengths DEF BclkSeen
  <2> QED BY <2>2, <2>3
<1> QED BY <1>2, <1>3, <1>4 DEF Clk

\* Once the word is in the register, the samplers of the frame clock stay
\* ahead of it and the register keeps the word: another slot begins...
LEMMA NextSlotLoaded ==
  ASSUME TypeOK, FrameClock, InFrame, Clk, clean', BclkFalls, slot' # 0
  PROVE  /\ ~Early' /\ Loaded'
         /\ (DACLRCK' => dack0') /\ (dack0' => dack1')
<1>1. /\ (DACLRCK => dack0) /\ (dack0 => dack1) /\ Loaded
      /\ BclkSeen /\ offered' = offered \cup {sample} /\ ~Reset /\ ~Reset'
  BY GoesOn DEF BclkFalls, Early
<1>2. BCLK /\ age >= 4 /\ ~BCLK' /\ age' = 1 /\ slot' = slot + 1 /\ got' = got
  BY NextSlot, Lengths DEF BclkFalls, Frame, TypeOK
<1>3. LRDATA' = LRDATA /\ Bcount' = Bcount
  <2>1. bck0 /\ ~Loads
    BY <1>1, <1>2 DEF BclkSeen, Loads, TypeOK
  <2> QED BY <1>1, <2>1, Sampled, RegisterMoves DEF BclkFell
<1>4. (DACLRCK' => dack0') /\ (dack0' => dack1')
  <2>1. DACLRCK' => DACLRCK
    BY DEF BclkFalls, Frame
  <2> QED BY <1>1, <2>1, Sampled
<1>5. slot \in Nat /\ Width \in Nat /\ Bcount \in Nat
  BY Lengths DEF TypeOK
<1>6. CountFollows'
  BY <1>1, <1>2, <1>3, <1>5 DEF Loaded, CountFollows
<1>7. Taken' = Taken
  BY <1>2 DEF Taken
<1> QED BY <1>1, <1>2, <1>3, <1>4, <1>5, <1>6, <1>7 DEF Loaded, Early

\* ... the codec takes a bit...
LEMMA BitTaken ==
  ASSUME TypeOK, FrameClock, InFrame, Clk, clean', BclkRises
  PROVE  /\ ~Early' /\ Loaded'
         /\ (DACLRCK' => dack0') /\ (dack0' => dack1')
<1>1. ~BCLK /\ age >= 4 /\ BCLK' /\ age' = 1 /\ slot' = slot
  BY Lengths DEF BclkRises, TypeOK
<1>2. /\ (DACLRCK => dack0) /\ (dack0 => dack1) /\ Loaded
      /\ BclkSeen /\ offered' = offered \cup {sample} /\ ~Reset /\ ~Reset'
  <2>1. ~Early
    BY <1>1 DEF Early, TypeOK
  <2>2. ~BclkFalls
    BY <1>1 DEF BclkFalls
  <2> QED BY <2>1, <2>2, GoesOn
<1>3. LRDATA' = LRDATA /\ Bcount' = Bcount
  <2>1. ~bck0 /\ ~bck1 /\ ~Loads
    BY <1>1, <1>2 DEF BclkSeen, Loads, TypeOK
  <2> QED BY <1>2, <2>1, Sampled, RegisterMoves DEF BclkFell
<1>4. DACLRCK' = DACLRCK
  BY <1>1, Lengths DEF BclkRises, FrameClock, Frame, TypeOK
<1>5. (DACLRCK' => dack0') /\ (dack0' => dack1')
  BY <1>2, <1>4, Sampled
<1>6. slot \in Nat /\ Width \in Nat /\ Bcount \in Nat /\ age \in Nat
  BY Lengths DEF TypeOK
<1>7. CountFollows /\ (slot < Width => Bcount = Width - 1 - slot)
  BY <1>1, <1>2, <1>6 DEF Loaded, CountFollows
<1>8. CountFollows'
  BY <1>1, <1>3, <1>7 DEF CountFollows
<1>9. Taken = slot /\ Taken' = slot + 1
  BY <1>1 DEF Taken
<1>10. got \in Seq((Samples \cup {0}) \X (0 .. Width - 1))
  BY DEF TypeOK
<1>11. CASE slot < Width
  <2>1. Len(got) = slot /\ Bcount = Width - (slot + 1)
    BY <1>2, <1>6, <1>7, <1>9, <1>11 DEF Loaded
  <2>2. got' = Append(got, <<LRDATA, Width - (slot + 1)>>)
    BY <1>3, <1>11, <2>1 DEF BclkRises, AUD_DACDAT
  <2>3. /\ Len(got') = slot + 1
        /\ \A i \in 1 .. Len(got) : got'[i] = got[i]
        /\ got'[slot + 1] = <<LRDATA, Width - (slot + 1)>>
    BY <1>10, <2>1, <2>2
  <2>4. \A i \in 1 .. Len(got') : got'[i] = <<LRDATA', Width - i>>
    <3> TAKE i \in 1 .. Len(got')
    <3>1. CASE i = slot + 1
      BY <1>3, <2>3, <3>1
    <3>2. CASE i # slot + 1
      <4>1. i \in 1 .. Len(got)
        BY <1>6, <2>1, <2>3, <3>2
      <4> QED BY <1>2, <1>3, <2>3, <4>1 DEF Loaded
    <3> QED BY <3>1, <3>2
  <2>5. Len(got') = IF Taken' < Width THEN Taken' ELSE Width
    BY <1>6, <1>9, <1>11, <2>3
  <2> QED BY <1>1, <1>2, <1>3, <1>5, <1>8, <2>4, <2>5 DEF Loaded, Early
<1>12. CASE ~(slot < Width)
  <2>1. Len(got) = Width
    BY <1>2, <1>9, <1>12 DEF Loaded
  <2>2. got' = got
    BY <1>6, <2>1 DEF BclkRises
  <2>3. Len(got') = IF Taken' < Width THEN Taken' ELSE Width
    BY <1>6, <1>9, <1>12, <2>1, <2>2
  <2>4. \A i \in 1 .. Len(got') : got'[i] = <<LRDATA', Width - i>>
    BY <1>2, <1>3, <2>2 DEF Loaded
  <2> QED BY <1>1, <1>2, <1>3, <1>5, <1>8, <2>3, <2>4 DEF Loaded, Early
<1> QED BY <1>11, <1>12

\* ... or nothing happens to the bit clock, and a falling one is seen.
LEMMA WordKept ==
  ASSUME TypeOK, FrameClock, InFrame, Clk, clean', BclkStays, ~Early
  PROVE  /\ ~Early' /\ Loaded'
         /\ (DACLRCK' => dack0') /\ (dack0' => dack1')
<1>1. ~BclkFalls
  BY DEF BclkFalls, BclkStays, TypeOK
<1>2. /\ (DACLRCK => dack0) /\ (dack0 => dack1) /\ Loaded
      /\ BclkSeen /\ offered' = offered \cup {sample} /\ ~Reset /\ ~Reset'
  BY <1>1, GoesOn
<1>3. /\ BCLK' = BCLK /\ age' = age + 1 /\ slot' = slot /\ got' = got
      /\ DACLRCK' = Frame(slot)
  BY DEF BclkStays
<1>4. /\ slot \in Nat /\ Width \in Nat /\ age \in Nat /\ age >= 1
      /\ Bcount \in 0 .. Width - 1 /\ Slots \in Nat
  BY Lengths DEF TypeOK
<1>5. ~Early'
  BY <1>3, <1>4 DEF Early
<1>6. (DACLRCK' => dack0') /\ (dack0' => dack1')
  <2>1. DACLRCK' => slot = 0
    BY <1>3 DEF Frame
  <2>2. slot = 0 => age > 1 \/ BCLK
    BY <1>4 DEF Early
  <2>3. DACLRCK' => DACLRCK
    BY <2>1, <2>2, FrameClockSettled
  <2> QED BY <1>2, <2>3, Sampled
<1>7. ~Loads
  BY <1>2 DEF Loads
<1>8. LRDATA' = LRDATA /\ CountFollows'
  <2>1. CASE ~BCLK /\ slot > 0 /\ age = 2
    <3>1. ~bck0 /\ bck1
      BY <1>2, <2>1 DEF BclkSeen
    <3>2. LRDATA' = LRDATA /\ Bcount' = CountDown
      BY <1>2, <1>7, <3>1, Sampled, RegisterMoves DEF BclkFell
    <3>3. slot < Width => Bcount = Width - slot /\ Bcount > 0
      BY <1>2, <1>4, <2>1 DEF Loaded, CountFollows
    <3>4. slot < Width => Bcount' = Width - 1 - slot
      BY <1>4, <3>2, <3>3, Down
    <3> QED BY <1>3, <1>4, <2>1, <3>2, <3>4 DEF CountFollows
  <2>2. CASE ~(~BCLK /\ slot > 0 /\ age = 2)
    <3>1. ~BclkFell
      <4>1. CASE BCLK
        BY <1>2, <1>4, <4>1 DEF BclkSeen, BclkFell
      <4>2. CASE ~BCLK
        <5>1. age # 2
          BY <2>2, <4>2, <1>4 DEF Early
        <5> QED BY <1>2, <1>4, <4>2, <5>1 DEF BclkSeen, BclkFell
      <4> QED BY <4>1, <4>2
    <3>2. LRDATA' = LRDATA /\ Bcount' = Bcount
      BY <1>2, <1>7, <3>1, Sampled, RegisterMoves
    <3>3. CountFollows
      BY <1>2 DEF Loaded
    <3>4. (~BCLK /\ slot > 0 /\ age + 1 <= 2) <=> (~BCLK /\ slot > 0 /\ age <= 2)
      BY <1>4, <2>2
    <3> QED BY <1>3, <3>2, <3>3, <3>4 DEF CountFollows
  <2> QED BY <2>1, <2>2
<1>9. Taken' = Taken
  BY <1>3 DEF Taken
<1> QED BY <1>2, <1>3, <1>5, <1>6, <1>8, <1>9 DEF Loaded

\* In the first three cycles of a frame the new frame clock comes through the
\* sampler and the word is loaded, before or after the falling bit clock is
\* seen.
LEMMA WordLoads ==
  ASSUME TypeOK, FrameClock, InFrame, Clk, clean', BclkStays, Early
  PROVE  /\ Early' => Loading'
         /\ ~Early' => (DACLRCK' => dack0') /\ (dack0' => dack1') /\ Loaded'
<1>1. ~BclkFalls
  BY DEF BclkFalls, BclkStays, Early
<1>2. /\ Loading /\ BclkSeen /\ offered' = offered \cup {sample}
      /\ ~Reset /\ ~Reset'
  BY <1>1, GoesOn
<1>3. /\ ~BCLK /\ ~BCLK' /\ age' = age + 1 /\ slot = 0 /\ slot' = 0
      /\ got = <<>> /\ got' = <<>> /\ DACLRCK'
  BY <1>2 DEF BclkStays, Early, Loading, Frame
<1>4. age \in {1, 2, 3}
  BY DEF Early, TypeOK
<1>5. dack1' = dack0 /\ dack0' = DACLRCK
  BY <1>2, Sampled
<1>6. CASE age = 1
  <2>1. ~dack1'
    BY <1>2, <1>5, <1>6 DEF Loading
  <2> QED BY <1>3, <1>6, <2>1 DEF Early, Loading
<1>7. CASE age = 2
  <2>1. dack0'
    <3>1. age > 1
      BY <1>7
    <3> QED BY <1>3, <1>5, <3>1, FrameClockSettled
  <2>2. ASSUME dack1' PROVE LRDATA' \in offered' /\ Bcount' = Width - 1
    <3>1. Loads
      BY <1>2, <1>5, <1>7, <2>2 DEF Loading, Loads
    <3> QED BY <1>2, <3>1, Sampled, RegisterMoves
  <2> QED BY <1>3, <1>7, <2>1, <2>2 DEF Early, Loading
<1>8. CASE age = 3
  <2>1. dack0' /\ dack1'
    <3>0. age > 1
      BY <1>8
    <3>1. DACLRCK
      BY <1>3, <3>0, FrameClockSettled
    <3>2. dack0
      BY <1>2, <1>8 DEF Loading
    <3> QED BY <1>5, <3>1, <3>2
  <2>2. LRDATA' \in offered' /\ Bcount' = Width - 1
    <3>1. CASE dack1
      <4>1. ~Loads /\ ~BclkFell
        BY <1>2, <1>3, <1>8, <3>1 DEF BclkSeen, Loads, BclkFell
      <4> QED BY <1>2, <1>8, <3>1, <4>1, Sampled, RegisterMoves DEF Loading
    <3>2. CASE ~dack1
      <4>1. Loads
        BY <1>2, <1>8, <3>2 DEF Loading, Loads
      <4> QED BY <1>2, <4>1, Sampled, RegisterMoves
    <3> QED BY <3>1, <3>2
  <2>3. CountFollows' /\ Taken' = 0
    BY <1>3, <2>2, Lengths DEF CountFollows, Taken
  <2>4. Len(got') = 0
    BY <1>3
  <2>5. Loaded'
    BY <2>2, <2>3, <2>4, Lengths DEF Loaded
  <2>6. ~Early'
    BY <1>3, <1>8 DEF Early
  <2> QED BY <2>1, <2>5, <2>6
<1> QED BY <1>4, <1>6, <1>7, <1>8

LEMMA InFrameStep == TypeOK /\ FrameClock /\ InFrame /\ [Next]_vars => InFrame'
<1> SUFFICES ASSUME TypeOK, FrameClock, InFrame, [Next]_vars, clean'
             PROVE  /\ ~Reset' /\ Slots > 1 /\ BclkSeen'
                    /\ Early' => Loading'
                    /\ ~Early' => /\ (DACLRCK' => dack0') /\ (dack0' => dack1')
                                  /\ Loaded'
  BY DEF InFrame
<1>1. CASE Clk /\ BclkFalls /\ slot' = 0
  BY <1>1, FrameBegins
<1>2. CASE Clk /\ ~(BclkFalls /\ slot' = 0)
  <2>1. ~Reset' /\ Slots > 1 /\ BclkSeen'
    BY <1>2, GoesOn, BclkSeenStep
  <2>2. CASE BclkFalls
    BY <1>2, <2>1, <2>2, NextSlotLoaded
  <2>3. CASE BclkRises
    BY <1>2, <2>1, <2>3, BitTaken
  <2>4. CASE BclkStays
    BY <1>2, <2>1, <2>4, WordKept, WordLoads
  <2> QED BY <1>2, <2>2, <2>3, <2>4 DEF Clk
<1>3. CASE UNCHANGED vars
  BY <1>3 DEF vars, samplers, register, codec, InFrame, BclkSeen, Early, Loading,
              Loaded, CountFollows, Taken
<1> QED BY <1>1, <1>2, <1>3 DEF Next

\* IInv holds at the start and is kept by every step.
THEOREM SpecInvariant == Spec => []IInv
<1>1. Init => IInv
  <2> SUFFICES ASSUME Init PROVE IInv
    OBVIOUS
  <2>1. TypeOK
    <3>1. /\ {dack0, dack1, bck0, bck1, flag1, BCLK, DACLRCK, clean} \subseteq BOOLEAN
          /\ Reset \in BOOLEAN
      <4>1. \A b \in {dack0, dack1, bck0, bck1, flag1, BCLK, DACLRCK, clean} : b = FALSE
        BY DEF Init
      <4>2. Reset = FALSE
        BY DEF Init
      <4> QED BY <4>1, <4>2
    <3>2. /\ resets \in 0 .. MaxResets /\ LRDATA \in Samples \cup {0}
          /\ Bcount \in 0 .. Width - 1 /\ sample \in Samples
          /\ offered \subseteq Samples /\ age \in 1 .. HalfMax
          /\ slot \in 0 .. Slots - 1
      BY Lengths DEF Init
    <3>3. got \in Seq((Samples \cup {0}) \X (0 .. Width - 1)) /\ Len(got) <= Width
      <4>1. got = <<>>
        BY DEF Init
      <4> QED BY <4>1, Lengths
    <3> QED BY <3>1, <3>2, <3>3 DEF TypeOK
  <2>2. FrameClock
    BY DEF Init, FrameClock
  <2>3. InFrame
    BY DEF Init, InFrame
  <2> QED BY <2>1, <2>2, <2>3 DEF IInv
<1>2. IInv /\ [Next]_vars => IInv'
  BY TypeStep, FrameClockStep, InFrameStep DEF IInv
<1> QED BY <1>1, <1>2, PTL DEF Spec

\* Every register keeps its range, and the codec takes no bit twice.
THEOREM TypeCorrect == Spec => []TypeOK
BY SpecInvariant, PTL DEF IInv

\* Every frame without a reset carries one word, whole, from its most
\* significant bit on, and it is one that was on offer in that frame.
THEOREM OneWordPerFrame == Spec => []FrameWhole
<1>1. IInv => FrameWhole
  <2> SUFFICES ASSUME IInv, clean, NEW i \in DOMAIN got
               PROVE  got[i] = <<LRDATA, Width - i>> /\ LRDATA \in offered
    BY DEF FrameWhole
  <2>1. i \in 1 .. Len(got)
    BY DEF IInv, TypeOK
  <2>2. CASE Early
    <3>1. got = <<>>
      BY <2>2 DEF IInv, InFrame, Loading
    <3> QED BY <2>1, <3>1
  <2>3. CASE ~Early
    BY <2>1, <2>3 DEF IInv, InFrame, Loaded
  <2> QED BY <2>2, <2>3
<1> QED BY <1>1, SpecInvariant, PTL
=============================================================================
