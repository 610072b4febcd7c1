------------------------- MODULE AudioConfig_proofs -------------------------
(***************************************************************************)
(* The codec is configured as the ROMs say, for every ROM, every even      *)
(* period of the serial clock from 8 cycles on, and any number of resets   *)
(* at any cycle.                                                           *)
(***************************************************************************)
EXTENDS AudioConfig, TLAPS

USE DEF vars, machine

LEMMA ElementOfSeq ==
  ASSUME NEW S, NEW seq \in Seq(S), NEW i \in 1 .. Len(seq)
  PROVE  seq[i] \in S
OBVIOUS

-----------------------------------------------------------------------------
(* The constants. *)

LEMMA Half == half \in Nat /\ half >= 4 /\ Period = 2 * half
BY PeriodAssumption DEF half

LEMMA Roms ==
  /\ word_limit \in Nat /\ Len(Words) = word_limit + 1
  /\ \A w \in 0 .. word_limit : /\ RegRom[w + 1] \in 0 .. 255
                                /\ DatRom[w + 1] \in 0 .. 255
                                /\ Words[w + 1] = <<RegRom[w + 1], DatRom[w + 1]>>
<1>1. Len(RegRom) = word_limit + 1 /\ Len(DatRom) = word_limit + 1 /\ word_limit \in Nat
  BY RomAssumption DEF word_limit
<1>2. \A w \in 0 .. word_limit : w + 1 \in 1 .. Len(RegRom)
  BY <1>1
<1>3. \A w \in 0 .. word_limit : RegRom[w + 1] \in 0 .. 255 /\ DatRom[w + 1] \in 0 .. 255
  <2>1. \A rom \in Seq(0 .. 255) : \A i \in 1 .. Len(rom) : rom[i] \in 0 .. 255
    BY ElementOfSeq
  <2> QED
    BY <1>1, <1>2, <2>1, RomAssumption
<1>4. \A w \in 0 .. word_limit : Words[w + 1] = <<RegRom[w + 1], DatRom[w + 1]>>
  BY <1>2 DEF Words
<1>5. Len(Words) = word_limit + 1
  BY <1>1 DEF Words
<1> QED
  BY <1>1, <1>3, <1>4, <1>5

-----------------------------------------------------------------------------
(* A byte and its bits. *)

LEMMA BitAt ==
  ASSUME NEW byte \in 0 .. 255
  PROVE  /\ Bit(byte, 0) = (byte \div 128) % 2 /\ Bit(byte, 1) = (byte \div 64) % 2
         /\ Bit(byte, 2) = (byte \div 32) % 2 /\ Bit(byte, 3) = (byte \div 16) % 2
         /\ Bit(byte, 4) = (byte \div 8) % 2 /\ Bit(byte, 5) = (byte \div 4) % 2
         /\ Bit(byte, 6) = (byte \div 2) % 2 /\ Bit(byte, 7) = (byte \div 1) % 2
BY DEF Bit, Weight

LEMMA BitBinary ==
  ASSUME NEW byte \in 0 .. 255, NEW i \in 0 .. 7
  PROVE  Bit(byte, i) \in {0, 1}
BY BitAt

\* The eight bits, weighed, make the byte again.
LEMMA BitsMakeByte ==
  ASSUME NEW byte \in 0 .. 255
  PROVE  128 * Bit(byte, 0) + 64 * Bit(byte, 1) + 32 * Bit(byte, 2) + 16 * Bit(byte, 3)
         + 8 * Bit(byte, 4) + 4 * Bit(byte, 5) + 2 * Bit(byte, 6) + 1 * Bit(byte, 7) = byte
BY BitAt

-----------------------------------------------------------------------------
(* The states of the machine and the slots of a frame. *)

\* A state is a slot of a frame or one of the five outside, never two of them.
LEMMA Kinds ==
  /\ \A s \in States : \/ s \in FrameStates
                       \/ s = Solo("initialize") \/ s = Solo("start")
                       \/ s = Solo("b_stop0") \/ s = Solo("b_stop1") \/ s = Solo("b_end")
  /\ \A s \in FrameStates : s \in States /\ s # Solo("initialize") /\ s # Solo("start")
       /\ s # Solo("b_stop0") /\ s # Solo("b_stop1") /\ s # Solo("b_end")
  /\ \A a \in Outside : Solo(a) \in States /\ Solo(a) \notin FrameStates
  /\ \A a, b \in Outside : Solo(a) = Solo(b) => a = b
BY DEF States, FrameStates, Outside, Solo

LEMMA Slots ==
  ASSUME NEW s \in FrameStates
  PROVE  /\ s[1] \in {"b", "a", "d"} /\ s[2] \in 0 .. 8 /\ s = <<s[1], s[2]>>
         /\ Place(s) \in 0 .. 26 /\ StateOf(Place(s)) = s
         /\ Place(s) = 26 <=> s = <<"d", 8>>
         /\ Place(s) = 25 <=> s = <<"d", 7>>
<1>1. s[1] \in {"b", "a", "d"} /\ s[2] \in 0 .. 8 /\ s = <<s[1], s[2]>>
  BY DEF FrameStates
<1>2. CASE s[1] = "b"
  BY <1>1, <1>2 DEF Place, StateOf
<1>3. CASE s[1] = "a"
  BY <1>1, <1>3 DEF Place, StateOf
<1>4. CASE s[1] = "d"
  BY <1>1, <1>4 DEF Place, StateOf
<1> QED
  BY <1>1, <1>2, <1>3, <1>4

LEMMA StateOfSlot ==
  ASSUME NEW i \in 0 .. 26
  PROVE  StateOf(i) \in FrameStates /\ Place(StateOf(i)) = i
BY DEF StateOf, FrameStates, Place

\* Inside a frame the machine goes to the next slot.
LEMMA NextSlot ==
  ASSUME NEW s \in FrameStates, s # <<"d", 8>>
  PROVE  Successor(s) \in FrameStates /\ Place(Successor(s)) = Place(s) + 1
<1>1. s[1] \in {"b", "a", "d"} /\ s[2] \in 0 .. 8 /\ s = <<s[1], s[2]>>
  BY Slots
<1>2. CASE s[2] < 8
  BY <1>1, <1>2 DEF Successor, Place, FrameStates
<1>3. CASE s[2] = 8
  BY <1>1, <1>3 DEF Successor, Place, FrameStates
<1> QED
  BY <1>1, <1>2, <1>3

\* A word the machine sends is of the ROM, and what is sent is a bit.
LEMMA SdatBinary ==
  ASSUME NEW s, NEW w \in 0 .. word_limit
  PROVE  SDAT(s, w) \in {0, 1}
<1>1. CASE s \in {Solo("start"), Solo("b_stop0")} \/ s \notin FrameStates \/ s[2] = 8
  BY <1>1 DEF SDAT
<1>2. CASE ~(s \in {Solo("start"), Solo("b_stop0")} \/ s \notin FrameStates \/ s[2] = 8)
  <2>1. s[2] \in 0 .. 7
    BY <1>2, Slots
  <2>2. Sent(s[1], w) \in 0 .. 255
    <3>1. RegRom[w + 1] \in 0 .. 255 /\ DatRom[w + 1] \in 0 .. 255
      BY Roms
    <3>2. SCI_ADDR \in 0 .. 255
      BY DEF SCI_ADDR
    <3> QED
      BY <3>1, <3>2 DEF Sent
  <2> QED
    BY <1>2, <2>1, <2>2, BitBinary DEF SDAT
<1> QED
  BY <1>1, <1>2

-----------------------------------------------------------------------------
(* One Clk: the divider and the two wires. *)

LEMMA Divider ==
  ASSUME TypeOK, Clk
  PROVE  /\ i2c_counter \in 0 .. Period - 1
         /\ i2c_counter' = IF i2c_counter = Period - 1 THEN 0 ELSE i2c_counter + 1
         /\ i2c_counter' \in 0 .. Period - 1
<1>1. i2c_counter \in 0 .. Period - 1 /\ i2c_counter' = (i2c_counter + 1) % Period
  BY DEF TypeOK, Clk
<1>2. Period \in Nat /\ Period >= 8
  BY PeriodAssumption
<1>3. CASE i2c_counter = Period - 1
  BY <1>1, <1>2, <1>3
<1>4. CASE i2c_counter < Period - 1
  BY <1>1, <1>2, <1>4
<1> QED
  BY <1>1, <1>2, <1>3, <1>4

\* Where the machine does not hold the clock, the divider drives it.
LEMMA Driven ==
  ASSUME NEW c, NEW s \in FrameStates \cup {Solo("initialize"), Solo("start"), Solo("b_stop0")}
  PROVE  SCLK(c, s) <=> c >= half
<1>1. ~sclk_inhibit(s)
  BY Kinds DEF sclk_inhibit, Solo, Outside
<1> QED
  BY <1>1 DEF SCLK, half

LEMMA Held ==
  ASSUME NEW c
  PROVE  SCLK(c, Solo("b_stop1")) /\ SCLK(c, Solo("b_end"))
BY DEF SCLK, sclk_inhibit

\* Under a low clock the codec takes nothing, unless the clock rises.
LEMMA LowClock ==
  ASSUME TypeOK, Clk, ~SCLK(i2c_counter, state), ~init_over(state')
  PROVE  /\ word_count' = word_count /\ written' = written
         /\ listening' = listening
         /\ rx' = IF ~listening THEN <<>>
                  ELSE IF SCLK(i2c_counter', state')
                  THEN Append(rx, SDAT(state', word_count')) ELSE rx
BY DEF Clk, Listen, TypeOK

\* While the clock stays high only a start or a stop counts.
LEMMA HighClock ==
  ASSUME TypeOK, Clk, SCLK(i2c_counter, state), SCLK(i2c_counter', state')
  PROVE  /\ word_count' = IF init_over(state') THEN 0 ELSE word_count
         /\ written' = written
         /\ SDAT(state', word_count') = SDAT(state, word_count) =>
              /\ listening' = listening
              /\ rx' = IF listening THEN rx ELSE <<>>
         /\ SDAT(state, word_count) = 1 /\ SDAT(state', word_count') = 0 =>
              listening' /\ rx' = <<>>
         /\ SDAT(state, word_count) = 0 /\ SDAT(state', word_count') = 1 =>
              ~listening' /\ rx' = <<>>
<1>1. /\ word_count' = IF init_over(state') THEN 0 ELSE word_count
      /\ written' = written
  BY DEF Clk, Listen, TypeOK
<1>2. /\ listening \in BOOLEAN
      /\ rx' = IF \/ SDAT(state, word_count) = 1 /\ SDAT(state', word_count') = 0
                  \/ ~listening'
               THEN <<>> ELSE rx
      /\ listening' = (\/ SDAT(state, word_count) = 1 /\ SDAT(state', word_count') = 0
                       \/ listening /\ ~(SDAT(state, word_count) = 0 /\ SDAT(state', word_count') = 1))
  BY DEF Clk, Listen, TypeOK
<1>3. ASSUME SDAT(state', word_count') = SDAT(state, word_count)
      PROVE  /\ listening' = listening
             /\ rx' = IF listening THEN rx ELSE <<>>
  <2>1. /\ ~(SDAT(state, word_count) = 1 /\ SDAT(state', word_count') = 0)
        /\ ~(SDAT(state, word_count) = 0 /\ SDAT(state', word_count') = 1)
    BY <1>3
  <2>2. listening' = listening
    BY ONLY <1>2, <2>1, Zenon
  <2>3. rx' = IF ~listening' THEN <<>> ELSE rx
    BY ONLY <1>2, <2>1, Zenon
  <2> QED
    BY <2>2, <2>3, Zenon
<1>4. ASSUME SDAT(state, word_count) = 1, SDAT(state', word_count') = 0
      PROVE  listening' /\ rx' = <<>>
  BY <1>2, <1>4
<1>5. ASSUME SDAT(state, word_count) = 0, SDAT(state', word_count') = 1
      PROVE  ~listening' /\ rx' = <<>>
  BY <1>2, <1>5
<1> QED
  BY <1>1, <1>3, <1>4, <1>5

\* On the falling clock the word is counted, and the codec takes the frame or
\* leaves it.
LEMMA FallingClock ==
  ASSUME TypeOK, Clk, SCLK(i2c_counter, state), ~SCLK(i2c_counter', state'),
         ~init_over(state')
  PROVE  /\ word_count' = IF count_en(state') THEN word_count + 1 ELSE word_count
         /\ listening' = (listening /\ Len(rx) # 27)
         /\ rx' = IF listening' THEN rx ELSE <<>>
         /\ written' = IF listening /\ Len(rx) = 26 /\ Byte(rx, 0) = SCI_ADDR
                       THEN Append(written, Frame(rx)) ELSE written
BY DEF Clk, Listen, TypeOK

\* What remains of the type when the machine and the codec keep theirs.
LEMMA TypeFrom ==
  ASSUME TypeOK, Clk, state' \in States, word_count' \in 0 .. word_limit + 1,
         rx' \in Seq({0, 1}), written' \in Seq((0 .. 255) \X (0 .. 255))
  PROVE  TypeOK'
<1>1. i2c_counter' \in 0 .. Period - 1
  BY Divider
<1>2. sck0' \in BOOLEAN /\ sck1' \in BOOLEAN /\ Reset' \in BOOLEAN /\ resets' \in 0 .. MaxResets
  BY DEF TypeOK, Clk, SCLK
<1>3. listening' \in BOOLEAN
  BY DEF Clk, Listen
<1> QED
  BY <1>1, <1>2, <1>3 DEF TypeOK

\* The invariant after the step, part by part.
LEMMA Kept ==
  ASSUME TypeOK',
         Paced(i2c_counter', sck0', sck1', state'),
         Received(i2c_counter', state', word_count', listening', rx'),
         Counted(i2c_counter', state', word_count', written')
  PROVE  IInv'
BY DEF IInv

-----------------------------------------------------------------------------
(* The steps outside a frame. *)

\* Before the start of a frame the clock is low or has just risen: whatever
\* the codec was left with by a reset, it sees no clock fall.
LEMMA WaitStep ==
  ASSUME IInv, Clk, state = Solo("initialize"), i2c_counter < half
  PROVE  IInv' /\ state' = state
<1>0. TypeOK /\ i2c_counter \in Nat
  BY DEF IInv, TypeOK
<1>1. ~SCLK(i2c_counter, state)
  BY <1>0, Driven, Half
<1>2. state' = state
  BY <1>1 DEF Clk, NextState
<1>3. ~init_over(state')
  BY <1>2, Kinds DEF init_over, Solo
<1>4. i2c_counter' = i2c_counter + 1
  BY <1>0, Divider, Half
<1>5. /\ word_count' = word_count /\ written' = written /\ listening' = listening
      /\ rx' = IF ~listening THEN <<>>
               ELSE IF SCLK(i2c_counter', state')
               THEN Append(rx, SDAT(state', word_count')) ELSE rx
  BY <1>0, <1>1, <1>3, LowClock
<1>6. word_count \in 0 .. word_limit /\ Len(written) = word_count
  BY <1>0, Kinds, Roms DEF IInv, Counted, TakenNotCounted, TypeOK, Solo
<1>7. TypeOK'
  <2>1. SDAT(state', word_count') \in {0, 1}
    BY <1>5, <1>6, SdatBinary
  <2>2. rx' \in Seq({0, 1})
    BY <1>0, <1>5, <2>1 DEF TypeOK
  <2> QED
    BY <1>0, <1>2, <1>5, <2>2, TypeFrom DEF TypeOK
<1>8. Paced(i2c_counter', sck0', sck1', state')
  <2>1. sck0' <=> FALSE
    BY <1>1 DEF Clk
  <2> QED
    BY <1>0, <1>2, <1>4, <2>1, Kinds, Half DEF Paced, Outside
<1>9. Received(i2c_counter', state', word_count', listening', rx')
  BY <1>2, Kinds DEF Received, Solo, FrameStates
<1>10. Counted(i2c_counter', state', word_count', written')
  BY <1>2, <1>5, Kinds DEF IInv, Counted, TakenNotCounted, Solo
<1> QED
  BY <1>2, <1>7, <1>8, <1>9, <1>10, Kept

\* The data line falls under the high clock: whatever it held, the codec
\* starts a new frame.
LEMMA OpenStep ==
  ASSUME IInv, Clk, state = Solo("initialize"), i2c_counter = half
  PROVE  /\ IInv' /\ state' = Solo("start")
         /\ SDAT(state, word_count) = 1
<1>0. TypeOK /\ i2c_counter \in Nat
  BY DEF IInv, TypeOK
<1>1. SCLK(i2c_counter, state)
  BY <1>0, Driven, Half
<1>2. state' = Solo("start")
  BY <1>1 DEF Clk, NextState
<1>3. ~init_over(state')
  BY <1>2, Kinds DEF init_over, Solo
<1>4. i2c_counter' = half + 1
  BY <1>0, Divider, Half
<1>5. SCLK(i2c_counter', state')
  BY <1>2, <1>4, Driven, Half
<1>6. SDAT(state, word_count) = 1 /\ SDAT(state', word_count') = 0
  BY <1>2, Kinds DEF SDAT, Solo, Outside
<1>7. /\ word_count' = word_count /\ written' = written
      /\ listening' /\ rx' = <<>>
  BY <1>0, <1>1, <1>3, <1>5, <1>6, HighClock
<1>8. TypeOK'
  BY <1>0, <1>2, <1>7, Kinds, TypeFrom DEF TypeOK, Outside
<1>9. Paced(i2c_counter', sck0', sck1', state')
  <2>1. sck0' <=> TRUE
    BY <1>1 DEF Clk
  <2>2. sck1' <=> FALSE
    BY <1>0 DEF Clk, IInv, Paced
  <2> QED
    BY <1>2, <1>4, <2>1, <2>2, Kinds, Half DEF Paced, Outside, Solo
<1>10. Received(i2c_counter', state', word_count', listening', rx')
  BY <1>2, <1>7, Kinds DEF Received, Solo, FrameStates
<1>11. Counted(i2c_counter', state', word_count', written')
  BY <1>2, <1>7, Kinds DEF IInv, Counted, TakenNotCounted, Solo
<1> QED
  BY <1>2, <1>6, <1>8, <1>9, <1>10, <1>11, Kept

\* The data line is held down until the clock is high ...
LEMMA StopWaitStep ==
  ASSUME IInv, Clk, state = Solo("b_stop0"), i2c_counter < half
  PROVE  IInv' /\ state' = state
<1>0. TypeOK /\ i2c_counter \in Nat
  BY DEF IInv, TypeOK
<1>1. ~SCLK(i2c_counter, state)
  BY <1>0, Driven, Half
<1>2. state' = state
  BY <1>1, Kinds DEF Clk, NextState, Solo
<1>3. ~init_over(state')
  BY <1>2, Kinds DEF init_over, Solo
<1>4. i2c_counter' = i2c_counter + 1
  BY <1>0, Divider, Half
<1>5. /\ word_count' = word_count /\ written' = written
      /\ ~listening' /\ rx' = <<>>
  BY <1>0, <1>1, <1>3, LowClock, Kinds DEF IInv, Received
<1>6. TypeOK'
  BY <1>0, <1>2, <1>5, TypeFrom DEF TypeOK
<1>7. Paced(i2c_counter', sck0', sck1', state')
  BY <1>0, <1>2, <1>4, Kinds, Half DEF IInv, Paced, Solo
<1>8. Received(i2c_counter', state', word_count', listening', rx')
  BY <1>2, <1>5, Kinds DEF Received, Solo, FrameStates
<1>9. Counted(i2c_counter', state', word_count', written')
  BY <1>2, <1>5, Kinds DEF IInv, Counted, TakenNotCounted, Solo
<1> QED
  BY <1>2, <1>6, <1>7, <1>8, <1>9, Kept

\* ... and released there, which is a stop and not a bit.
LEMMA StopStep ==
  ASSUME IInv, Clk, state = Solo("b_stop0"), i2c_counter >= half
  PROVE  IInv' /\ state' = Solo("b_stop1")
<1>0. TypeOK /\ i2c_counter \in Nat
  BY DEF IInv, TypeOK
<1>1. SCLK(i2c_counter, state)
  BY <1>0, Driven, Half
<1>2. state' = Solo("b_stop1")
  BY <1>1, Kinds DEF Clk, NextState, Solo, Outside
<1>3. ~init_over(state')
  BY <1>2, Kinds DEF init_over, Solo
<1>4. SCLK(i2c_counter', state')
  BY <1>2, Held
<1>5. SDAT(state, word_count) = 0 /\ SDAT(state', word_count') = 1
  BY <1>2, Kinds DEF SDAT, Solo, Outside
<1>6. /\ word_count' = word_count /\ written' = written
      /\ ~listening' /\ rx' = <<>>
  BY <1>0, <1>1, <1>3, <1>4, <1>5, HighClock
<1>7. TypeOK'
  BY <1>0, <1>2, <1>6, Kinds, TypeFrom DEF TypeOK, Outside
<1>8. Paced(i2c_counter', sck0', sck1', state')
  BY <1>2, Kinds DEF Paced, Solo, Outside
<1>9. Received(i2c_counter', state', word_count', listening', rx')
  BY <1>2, <1>6, Kinds DEF Received, Solo, FrameStates
<1>10. Counted(i2c_counter', state', word_count', written')
  BY <1>2, <1>6, Kinds DEF IInv, Counted, TakenNotCounted, Solo
<1> QED
  BY <1>2, <1>7, <1>8, <1>9, <1>10, Kept

\* The end: the count is cleared and the codec keeps its words.
LEMMA EndStep ==
  ASSUME IInv, Clk, state \in {Solo("b_stop1"), Solo("b_end")}
  PROVE  /\ IInv' /\ state' = Solo("b_end")
         /\ SDAT(state, word_count) = 1 /\ SDAT(state', word_count') = 1
<1>0. TypeOK
  BY DEF IInv
<1>1. SCLK(i2c_counter, state)
  BY Held
<1>2. state' = Solo("b_end")
  BY Kinds DEF Clk, NextState, Solo, Outside
<1>3. SCLK(i2c_counter', state')
  BY <1>2, Held
<1>4. SDAT(state, word_count) = 1 /\ SDAT(state', word_count') = 1
  BY <1>2, Kinds DEF SDAT, Solo, Outside
<1>5. /\ word_count' = 0 /\ written' = written
      /\ ~listening' /\ rx' = <<>>
  <2>1. ~listening
    BY DEF IInv, Received
  <2> QED
    BY <1>0, <1>1, <1>2, <1>3, <1>4, <2>1, HighClock DEF init_over
<1>6. TypeOK'
  BY <1>0, <1>2, <1>5, Kinds, Roms, TypeFrom DEF TypeOK, Outside
<1>7. Paced(i2c_counter', sck0', sck1', state')
  BY <1>2, Kinds DEF Paced, Solo, Outside
<1>8. Received(i2c_counter', state', word_count', listening', rx')
  BY <1>2, <1>5, Kinds DEF Received, Solo, FrameStates
<1>9. Counted(i2c_counter', state', word_count', written')
  <2>1. Len(written) = word_limit + 1
    BY Kinds, Roms DEF IInv, Counted, TakenNotCounted, Solo, Outside
  <2> QED
    BY <1>2, <1>5, <2>1, Kinds DEF IInv, Counted, Solo, Outside
<1> QED
  BY <1>2, <1>4, <1>6, <1>7, <1>8, <1>9, Kept

-----------------------------------------------------------------------------
(* What the codec makes of the slots. *)

\* The slots of byte k carry its bits.
Carries(bits, k, byte) == \A i \in 1 .. 8 : bits[9 * k + i] = Bit(byte, i - 1)

LEMMA ByteFrom ==
  ASSUME NEW bits, NEW k \in 0 .. 2, NEW byte \in 0 .. 255, Carries(bits, k, byte)
  PROVE  Byte(bits, k) = byte
<1>1. /\ bits[9 * k + 1] = Bit(byte, 0) /\ bits[9 * k + 2] = Bit(byte, 1)
      /\ bits[9 * k + 3] = Bit(byte, 2) /\ bits[9 * k + 4] = Bit(byte, 3)
      /\ bits[9 * k + 5] = Bit(byte, 4) /\ bits[9 * k + 6] = Bit(byte, 5)
      /\ bits[9 * k + 7] = Bit(byte, 6) /\ bits[9 * k + 8] = Bit(byte, 7)
  BY DEF Carries
<1>2. /\ Weight[1] = 128 /\ Weight[2] = 64 /\ Weight[3] = 32 /\ Weight[4] = 16
      /\ Weight[5] = 8 /\ Weight[6] = 4 /\ Weight[7] = 2 /\ Weight[8] = 1
  BY DEF Weight
<1>3. Byte(bits, k) =
        128 * Bit(byte, 0) + 64 * Bit(byte, 1) + 32 * Bit(byte, 2) + 16 * Bit(byte, 3)
        + 8 * Bit(byte, 4) + 4 * Bit(byte, 5) + 2 * Bit(byte, 6) + 1 * Bit(byte, 7)
  BY ONLY <1>1, <1>2, Zenon DEF Byte
<1> QED
  BY <1>3, BitsMakeByte

\* The slot of bit i of part p carries that bit.
LEMMA SlotBit ==
  ASSUME NEW p \in {"b", "a", "d"}, NEW i \in 0 .. 7, NEW w
  PROVE  SDAT(<<p, i>>, w) = Bit(Sent(p, w), i)
<1>1. <<p, i>> \in FrameStates
  BY DEF FrameStates
<1> QED
  BY <1>1, Kinds DEF SDAT

\* The slots of a frame up to its last data bit are the device's address and
\* the register and the value of the word.
LEMMA FrameDecoded ==
  ASSUME NEW bits, NEW w \in 0 .. word_limit,
         \A i \in 1 .. 26 : bits[i] = SDAT(StateOf(i - 1), w)
  PROVE  Byte(bits, 0) = SCI_ADDR /\ Frame(bits) = Words[w + 1]
<1>1. Carries(bits, 0, SCI_ADDR)
  <2> SUFFICES ASSUME NEW i \in 1 .. 8 PROVE bits[i] = Bit(SCI_ADDR, i - 1)
    BY DEF Carries
  <2>1. bits[i] = SDAT(<<"b", i - 1>>, w)
    BY DEF StateOf
  <2> QED
    BY <2>1, SlotBit DEF Sent
<1>2. Carries(bits, 1, RegRom[w + 1])
  <2> SUFFICES ASSUME NEW i \in 1 .. 8 PROVE bits[9 + i] = Bit(RegRom[w + 1], i - 1)
    BY DEF Carries
  <2>1. bits[9 + i] = SDAT(<<"a", i - 1>>, w)
    <3>1. StateOf((9 + i) - 1) = <<"a", i - 1>>
      BY DEF StateOf
    <3> QED
      BY <3>1
  <2> QED
    BY <2>1, SlotBit DEF Sent
<1>3. Carries(bits, 2, DatRom[w + 1])
  <2> SUFFICES ASSUME NEW i \in 1 .. 8 PROVE bits[18 + i] = Bit(DatRom[w + 1], i - 1)
    BY DEF Carries
  <2>1. bits[18 + i] = SDAT(<<"d", i - 1>>, w)
    <3>1. StateOf((18 + i) - 1) = <<"d", i - 1>>
      BY DEF StateOf
    <3> QED
      BY <3>1
  <2> QED
    BY <2>1, SlotBit DEF Sent
<1>4. SCI_ADDR \in 0 .. 255
  BY DEF SCI_ADDR
<1>5. /\ RegRom[w + 1] \in 0 .. 255 /\ DatRom[w + 1] \in 0 .. 255
      /\ Words[w + 1] = <<RegRom[w + 1], DatRom[w + 1]>>
  BY Roms
<1>6. Byte(bits, 0) = SCI_ADDR
  BY <1>1, <1>4, ByteFrom
<1>7. Byte(bits, 1) = RegRom[w + 1]
  BY <1>2, <1>5, ByteFrom
<1>8. Byte(bits, 2) = DatRom[w + 1]
  BY <1>3, <1>5, ByteFrom
<1> QED
  BY <1>5, <1>6, <1>7, <1>8 DEF Frame

-----------------------------------------------------------------------------
(* The steps inside a frame. *)

\* The sampler follows the divider, and its falling edge comes in one cycle
\* of the period only.
LEMMA Sampled ==
  ASSUME IInv, Clk, state \in FrameStates \cup {Solo("start")}
  PROVE  /\ sck0' <=> i2c_counter >= half
         /\ sck0' <=> (i2c_counter' = 0 \/ i2c_counter' > half)
         /\ sck1' <=> (i2c_counter' <= 1 \/ i2c_counter' > half + 1)
         /\ Fell <=> i2c_counter = 1
<1>0. TypeOK /\ i2c_counter \in 0 .. Period - 1
  BY DEF IInv, TypeOK
<1>1. /\ sck0 <=> (i2c_counter = 0 \/ i2c_counter > half)
      /\ sck1 <=> (i2c_counter <= 1 \/ i2c_counter > half + 1)
  BY DEF IInv, Paced
<1>2. sck0' <=> i2c_counter >= half
  <2>1. sck0' = SCLK(i2c_counter, state)
    BY DEF Clk
  <2> QED
    BY <2>1, Driven
<1>3. sck1' <=> (i2c_counter = 0 \/ i2c_counter > half)
  <2>1. sck1' = sck0
    BY DEF Clk
  <2> QED
    BY <1>1, <2>1
<1>4. i2c_counter' = IF i2c_counter = Period - 1 THEN 0 ELSE i2c_counter + 1
  BY <1>0, Divider
<1>5. i2c_counter >= half <=> (i2c_counter' = 0 \/ i2c_counter' > half)
  BY <1>0, <1>4, Half
<1>6. (i2c_counter = 0 \/ i2c_counter > half)
      <=> (i2c_counter' <= 1 \/ i2c_counter' > half + 1)
  BY <1>0, <1>4, Half
<1>7. Fell <=> i2c_counter = 1
  <2>1. (/\ i2c_counter <= 1 \/ i2c_counter > half + 1
         /\ ~(i2c_counter = 0 \/ i2c_counter > half)) <=> i2c_counter = 1
    BY <1>0, Half
  <2> QED
    BY <1>1, <2>1 DEF Fell
<1> QED
  BY <1>2, <1>3, <1>5, <1>6, <1>7

\* A slot is kept until the sampler sees the falling edge.
LEMMA HoldState ==
  ASSUME IInv, Clk, state \in FrameStates \cup {Solo("start")}, i2c_counter # 1
  PROVE  /\ state' = state /\ ~init_over(state')
         /\ Paced(i2c_counter', sck0', sck1', state')
<1>1. state' = state
  <2>1. ~Fell
    BY Sampled
  <2> QED
    BY <2>1, Kinds DEF Clk, NextState
<1>2. ~init_over(state')
  BY <1>1, Kinds DEF init_over, Solo, Outside
<1>3. state = Solo("start") => i2c_counter' <= 1 \/ i2c_counter' > half
  <2>1. state = Solo("start") => i2c_counter = 0 \/ i2c_counter > half
    <3>1. state = Solo("start") => i2c_counter <= 1 \/ i2c_counter > half
      BY DEF IInv, Paced
    <3> QED
      BY <3>1 DEF IInv, TypeOK
  <2> QED
    BY <2>1, Divider, Half DEF IInv
<1>4. state # Solo("initialize") /\ state # Solo("b_stop0")
  BY Kinds DEF Solo, Outside
<1> QED
  BY <1>1, <1>2, <1>3, <1>4, Sampled DEF Paced

\* The slot goes on with the clock where it was: the codec is told nothing.
LEMMA LevelStep ==
  ASSUME IInv, Clk, state \in FrameStates \cup {Solo("start")}, i2c_counter # 1,
         SCLK(i2c_counter, state) <=> SCLK(i2c_counter', state')
  PROVE  /\ IInv' /\ state' = state
         /\ SDAT(state', word_count') = SDAT(state, word_count)
<1>0. TypeOK /\ i2c_counter \in 0 .. Period - 1
  BY DEF IInv, TypeOK
<1>1. state' = state /\ ~init_over(state') /\ Paced(i2c_counter', sck0', sck1', state')
  BY HoldState
<1>2. i2c_counter >= half <=> i2c_counter' >= half
  BY <1>1, Driven
<1>3. i2c_counter' = i2c_counter + 1
  BY <1>0, <1>2, Divider, Half
<1>4. word_count' = word_count /\ written' = written
  BY <1>0, <1>1, LowClock, HighClock
<1>5. SDAT(state', word_count') = SDAT(state, word_count)
  BY <1>1, <1>4
<1>6. listening' = listening /\ rx' = IF listening THEN rx ELSE <<>>
  <2>1. CASE SCLK(i2c_counter, state)
    BY <1>0, <1>5, <2>1, HighClock
  <2>2. CASE ~SCLK(i2c_counter, state)
    BY <1>0, <1>1, <2>2, LowClock
  <2> QED
    BY <2>1, <2>2
<1>7. TypeOK'
  <2>1. rx' \in Seq({0, 1})
    BY <1>0, <1>6 DEF TypeOK
  <2> QED
    BY <1>0, <1>1, <1>4, <2>1, TypeFrom DEF TypeOK
<1>8. /\ i2c_counter' <= 1 <=> i2c_counter <= 1
      /\ i2c_counter' \in 2 .. half - 1 <=> i2c_counter \in 2 .. half - 1
  BY <1>0, <1>2, <1>3, Half
<1>9. Received(i2c_counter', state', word_count', listening', rx')
  <2>1. Received(i2c_counter, state, word_count, listening, rx)
    BY DEF IInv
  <2>2. listening => rx' = rx
    BY <1>6
  <2>3. Received(i2c_counter', state, word_count, listening, rx)
    BY <1>0, <1>3, <1>8, <2>1 DEF Received
  <2>4. CASE listening
    BY <1>1, <1>4, <1>6, <2>2, <2>3, <2>4
  <2>5. CASE ~listening
    BY <1>1, <1>4, <1>6, <2>3, <2>5 DEF Received
  <2> QED
    BY <2>4, <2>5
<1>10. Counted(i2c_counter', state', word_count', written')
  <2>1. Counted(i2c_counter, state, word_count, written)
    BY DEF IInv
  <2>2. Counted(i2c_counter', state, word_count, written)
    BY <1>0, <1>3, <1>8, <2>1 DEF Counted, TakenNotCounted
  <2> QED
    BY <1>1, <1>4, <2>2
<1> QED
  BY <1>1, <1>5, <1>7, <1>9, <1>10, Kept

\* What the codec holds in a slot before the machine is through with it.
LEMMA Holding ==
  ASSUME IInv, state \in FrameStates, state # <<"d", 8>> \/ i2c_counter > 1
  PROVE  /\ listening /\ word_count \in 0 .. word_limit /\ rx \in Seq({0, 1})
         /\ Len(rx) = Place(state) + (IF i2c_counter \in 2 .. half - 1 THEN 0 ELSE 1)
         /\ \A i \in 1 .. Len(rx) : rx[i] = SDAT(StateOf(i - 1), word_count)
         /\ Len(written) = word_count + (IF TakenNotCounted(i2c_counter, state) THEN 1 ELSE 0)
         /\ \A i \in 1 .. Len(written) : written[i] = Words[i]
         /\ written \in Seq((0 .. 255) \X (0 .. 255))
<1>1. word_count \in 0 .. word_limit
  BY Roms DEF IInv, Counted, TypeOK
<1>2. state # Solo("b_end")
  BY Kinds
<1> QED
  BY <1>1, <1>2 DEF IInv, Received, Counted, TypeOK

\* The clock rises: the codec takes the slot.
LEMMA RiseStep ==
  ASSUME IInv, Clk, state \in FrameStates \cup {Solo("start")}, i2c_counter # 1,
         ~SCLK(i2c_counter, state), SCLK(i2c_counter', state')
  PROVE  IInv' /\ state' = state
<1>0. TypeOK /\ i2c_counter \in 0 .. Period - 1
  BY DEF IInv, TypeOK
<1>1. state' = state /\ ~init_over(state') /\ Paced(i2c_counter', sck0', sck1', state')
  BY HoldState
<1>2. i2c_counter < half /\ i2c_counter' >= half
  BY <1>0, <1>1, Driven, Half
<1>3. i2c_counter = half - 1 /\ i2c_counter' = half
  BY <1>0, <1>2, Divider, Half
<1>4. state \in FrameStates
  <2>1. state = Solo("start") => i2c_counter <= 1 \/ i2c_counter > half
    BY DEF IInv, Paced
  <2> QED
    BY <1>3, <2>1, Half
<1>5. Place(state) \in 0 .. 26 /\ StateOf(Place(state)) = state
  BY <1>4, Slots
<1>6. /\ listening /\ word_count \in 0 .. word_limit /\ rx \in Seq({0, 1})
      /\ Len(rx) = Place(state)
      /\ \A i \in 1 .. Len(rx) : rx[i] = SDAT(StateOf(i - 1), word_count)
  <2>1. i2c_counter > 1 /\ i2c_counter \in 2 .. half - 1
    BY <1>3, Half
  <2>2. Len(rx) = Place(state) + 0
    BY <1>4, <2>1, Holding
  <2>3. /\ listening /\ word_count \in 0 .. word_limit /\ rx \in Seq({0, 1})
        /\ \A i \in 1 .. Len(rx) : rx[i] = SDAT(StateOf(i - 1), word_count)
    BY <1>4, <2>1, Holding
  <2>4. Len(rx) = Place(state)
    <3>1. Place(state) \in Nat
      BY <1>5
    <3> QED
      BY ONLY <2>2, <3>1
  <2> QED
    BY ONLY <2>3, <2>4
<1>7. /\ word_count' = word_count /\ written' = written /\ listening'
      /\ rx' = Append(rx, SDAT(state, word_count))
  BY <1>0, <1>1, <1>6, LowClock
<1>8. SDAT(state, word_count) \in {0, 1}
  BY <1>6, SdatBinary
<1>9. TypeOK'
  <2>1. rx' \in Seq({0, 1})
    BY <1>6, <1>7, <1>8
  <2> QED
    BY <1>0, <1>1, <1>7, <2>1, TypeFrom DEF TypeOK
<1>10. /\ Len(rx') = Place(state) + 1
       /\ \A i \in 1 .. Len(rx') : rx'[i] = SDAT(StateOf(i - 1), word_count)
  <2>1. PICK n \in Nat : n = Place(state)
    BY <1>5
  <2>2. PICK d : d = SDAT(state, word_count)
    OBVIOUS
  <2>3. rx \in Seq({0, 1}) /\ Len(rx) = n /\ rx' = Append(rx, d) /\ d \in {0, 1}
    BY <1>6, <1>7, <1>8, <2>1, <2>2
  <2>4. Len(rx') = n + 1 /\ rx'[n + 1] = d /\ \A i \in 1 .. n : rx'[i] = rx[i]
    BY ONLY <2>3, n \in Nat
  <2>5. StateOf((n + 1) - 1) = state
    BY <1>5, <2>1
  <2>6. \A i \in 1 .. n : rx[i] = SDAT(StateOf(i - 1), word_count)
    BY <1>6, <2>1
  <2> QED
    BY <2>1, <2>2, <2>4, <2>5, <2>6
<1>11. Received(i2c_counter', state', word_count', listening', rx')
  <2>1. i2c_counter' > 1 /\ i2c_counter' \notin 2 .. half - 1
    BY <1>3, Half
  <2>2. /\ state' \in FrameStates /\ state' # Solo("start") /\ state' # Solo("b_stop0")
        /\ state' # Solo("b_stop1") /\ state' # Solo("b_end")
    BY <1>1, <1>4, Kinds
  <2>3. Len(rx') = Place(state') + (IF i2c_counter' \in 2 .. half - 1 THEN 0 ELSE 1)
    BY <1>1, <1>10, <2>1
  <2>4. \A i \in 1 .. Len(rx') : rx'[i] = SDAT(StateOf(i - 1), word_count')
    BY <1>7, <1>10
  <2>5. ~(i2c_counter' <= 1)
    BY <2>1, <1>0, Divider
  <2> QED
    BY <1>7, <2>2, <2>3, <2>4, <2>5 DEF Received
<1>12. Counted(i2c_counter', state', word_count', written')
  <2>1. Counted(i2c_counter, state, word_count, written)
    BY DEF IInv
  <2>2. i2c_counter > 1 /\ i2c_counter' > 1 /\ ~(i2c_counter <= 1) /\ ~(i2c_counter' <= 1)
    BY <1>3, Half
  <2>3. Counted(i2c_counter', state, word_count, written)
    BY <2>1, <2>2 DEF Counted, TakenNotCounted
  <2> QED
    BY <1>1, <1>7, <2>3
<1> QED
  BY <1>1, <1>9, <1>11, <1>12, Kept

\* One more word keeps a sequence of words in step with the ROM.
LEMMA Extended ==
  ASSUME NEW S, NEW seq \in Seq(S), NEW word \in S, NEW all, all[Len(seq) + 1] = word,
         \A i \in 1 .. Len(seq) : seq[i] = all[i]
  PROVE  /\ Append(seq, word) \in Seq(S) /\ Len(Append(seq, word)) = Len(seq) + 1
         /\ \A i \in 1 .. Len(Append(seq, word)) : Append(seq, word)[i] = all[i]
OBVIOUS

\* The clock falls: the codec takes the word after its last bit, and after the
\* acknowledge slot that follows it leaves the frame and the machine counts.
LEMMA FallStep ==
  ASSUME IInv, Clk, state \in FrameStates \cup {Solo("start")}, i2c_counter # 1,
         SCLK(i2c_counter, state), ~SCLK(i2c_counter', state')
  PROVE  IInv' /\ state' = state
<1>0. TypeOK /\ i2c_counter \in 0 .. Period - 1
  BY DEF IInv, TypeOK
<1>1. state' = state /\ ~init_over(state') /\ Paced(i2c_counter', sck0', sck1', state')
  BY HoldState
<1>2. i2c_counter >= half /\ i2c_counter' < half
  BY <1>0, <1>1, Driven, Divider, Half
<1>3. i2c_counter = Period - 1 /\ i2c_counter' = 0
  BY <1>0, <1>2, Divider, Half
<1>4. i2c_counter > 1 /\ i2c_counter \notin 2 .. half - 1 /\ i2c_counter' \notin 2 .. half - 1
      /\ i2c_counter' <= 1 /\ ~(i2c_counter <= 1) /\ ~(i2c_counter' > 1)
  BY <1>3, Half
<1>5. /\ word_count' = IF state = <<"d", 8>> THEN word_count + 1 ELSE word_count
      /\ listening' = (listening /\ Len(rx) # 27)
      /\ rx' = IF listening' THEN rx ELSE <<>>
      /\ written' = IF listening /\ Len(rx) = 26 /\ Byte(rx, 0) = SCI_ADDR
                    THEN Append(written, Frame(rx)) ELSE written
  BY <1>0, <1>1, FallingClock DEF count_en
<1>6. CASE state = Solo("start")
  <2>1. listening /\ rx = <<>> /\ Len(rx) = 0 /\ state \notin FrameStates
    BY <1>6, Kinds DEF IInv, Received, Outside
  <2>2. /\ word_count' = word_count /\ written' = written /\ listening' /\ rx' = <<>>
    <3>1. state # <<"d", 8>>
      BY <2>1 DEF FrameStates
    <3>2. Len(rx) # 26 /\ ~(Len(rx) = 27)
      BY <2>1
    <3> QED
      BY ONLY <1>5, <2>1, <3>1, <3>2, Zenon
  <2>3. TypeOK'
    BY <1>0, <1>1, <2>2, TypeFrom DEF TypeOK
  <2>4. Received(i2c_counter', state', word_count', listening', rx')
    BY <1>1, <1>6, <2>1, <2>2, Kinds DEF Received, Solo
  <2>5. Counted(i2c_counter', state', word_count', written')
    BY <1>1, <1>6, <2>1, <2>2, Kinds DEF IInv, Counted, TakenNotCounted, Solo
  <2> QED
    BY <1>1, <2>3, <2>4, <2>5, Kept
<1>7. CASE state \in FrameStates
  <2>1. /\ Place(state) \in 0 .. 26 /\ StateOf(Place(state)) = state
        /\ Place(state) = 26 <=> state = <<"d", 8>>
        /\ Place(state) = 25 <=> state = <<"d", 7>>
    BY <1>7, Slots
  <2>2. /\ state # Solo("initialize") /\ state # Solo("start") /\ state # Solo("b_stop0")
        /\ state # Solo("b_stop1") /\ state # Solo("b_end")
    BY <1>7, Kinds
  <2>3. Len(rx) = Place(state) + 1
    BY <1>4, <1>7, Holding
  <2>4. /\ Place(state) # 26 => Place(state) \in 0 .. 25 /\ Len(rx) # 27
        /\ Place(state) # 25 => Len(rx) # 26
        /\ Place(state) = 25 => Len(rx) = 26
        /\ Place(state) = 26 => Len(rx) = 27
    <3>1. PICK n \in 0 .. 26 : n = Place(state)
      BY <2>1
    <3>2. Len(rx) = n + 1
      BY <2>3, <3>1
    <3> QED
      BY ONLY n \in 0 .. 26, <3>1, <3>2
  <2>5. /\ listening /\ word_count \in 0 .. word_limit /\ rx \in Seq({0, 1})
        /\ \A i \in 1 .. Len(rx) : rx[i] = SDAT(StateOf(i - 1), word_count)
        /\ \A i \in 1 .. Len(written) : written[i] = Words[i]
        /\ written \in Seq((0 .. 255) \X (0 .. 255))
    BY <1>4, <1>7, Holding
  <2>6. Len(written) = word_count + (IF state = <<"d", 8>> THEN 1 ELSE 0)
    <3>1. TakenNotCounted(i2c_counter, state) <=> state = <<"d", 8>>
      BY <1>4 DEF TakenNotCounted
    <3> QED
      BY <1>4, <1>7, <3>1, Holding
  <2>7. TakenNotCounted(i2c_counter', state') <=> state = <<"d", 7>>
    BY <1>1, <1>4 DEF TakenNotCounted
  <2>8. CASE state = <<"d", 8>>
    <3>1. Place(state) = 26 /\ Len(rx) = 27
      BY <2>1, <2>3, <2>8
    <3>2. word_count' = word_count + 1 /\ written' = written /\ ~listening' /\ rx' = <<>>
      <4>1. Len(rx) # 26
        BY <3>1
      <4> QED
        BY ONLY <1>5, <2>8, <3>1, <4>1, Zenon
    <3>3. TypeOK'
      BY <1>0, <1>1, <2>5, <3>2, Roms, TypeFrom DEF TypeOK
    <3>4. Received(i2c_counter', state', word_count', listening', rx')
      BY <1>1, <1>4, <2>2, <2>8, <3>2 DEF Received
    <3>5. ~TakenNotCounted(i2c_counter', state')
      BY <2>7, <2>8
    <3>6. Len(written') = word_count' + 0
      BY <2>5, <2>6, <2>8, <3>2
    <3>7. Counted(i2c_counter', state', word_count', written')
      BY <1>1, <1>4, <2>2, <2>5, <2>8, <3>2, <3>5, <3>6 DEF Counted
    <3> QED
      BY <1>1, <3>3, <3>4, <3>7, Kept
  <2>9. CASE state # <<"d", 8>>
    <3>1. Place(state) \in 0 .. 25 /\ Len(rx) # 27
      BY ONLY <2>1, <2>9, <2>4, Zenon
    <3>2. word_count' = word_count /\ listening' /\ rx' = rx
      <4>1. listening
        BY <2>5
      <4> QED
        BY ONLY <1>5, <4>1, <2>9, <3>1, Zenon
    <3>3. Received(i2c_counter', state', word_count', listening', rx')
      <4>1. Len(rx') = Place(state') + (IF i2c_counter' \in 2 .. half - 1 THEN 0 ELSE 1)
        BY <1>1, <1>4, <2>3, <3>2
      <4>2. \A i \in 1 .. Len(rx') : rx'[i] = SDAT(StateOf(i - 1), word_count')
        BY <2>5, <3>2
      <4>3. state' # <<"d", 8>> /\ listening'
        BY <1>1, <2>9, <3>2
      <4> QED
        BY <1>1, <2>2, <4>1, <4>2, <4>3 DEF Received
    <3>4. /\ written' \in Seq((0 .. 255) \X (0 .. 255))
          /\ Len(written') = word_count' + (IF state = <<"d", 7>> THEN 1 ELSE 0)
          /\ \A i \in 1 .. Len(written') : written'[i] = Words[i]
      <4>1. CASE state = <<"d", 7>>
        <5>1. Len(rx) = 26
          BY <2>1, <2>3, <4>1
        <5>2. \A i \in 1 .. 26 : rx[i] = SDAT(StateOf(i - 1), word_count)
          BY <2>5, <5>1
        <5>3. Byte(rx, 0) = SCI_ADDR /\ Frame(rx) = Words[word_count + 1]
          BY <2>5, <5>2, FrameDecoded
        <5>4. written' = Append(written, Words[word_count + 1])
          BY <1>5, <2>5, <5>1, <5>3
        <5>5. Words[word_count + 1] \in (0 .. 255) \X (0 .. 255)
          <6>1. /\ RegRom[word_count + 1] \in 0 .. 255 /\ DatRom[word_count + 1] \in 0 .. 255
                /\ Words[word_count + 1] = <<RegRom[word_count + 1], DatRom[word_count + 1]>>
            BY <2>5, Roms
          <6> QED
            BY ONLY <6>1
        <5>6. Len(written) = word_count
          BY <2>5, <2>6, <2>9
        <5> QED
          <6>1. /\ written' \in Seq((0 .. 255) \X (0 .. 255))
                /\ Len(written') = Len(written) + 1
                /\ \A i \in 1 .. Len(written') : written'[i] = Words[i]
            <7>1. Words[Len(written) + 1] = Words[word_count + 1]
              BY <5>6
            <7> QED
              BY ONLY <2>5, <5>4, <5>5, <7>1, Extended
          <6> QED
            BY ONLY <3>2, <4>1, <5>6, <6>1
      <4>2. CASE state # <<"d", 7>>
        <5>1. written' = written
          <6>1. Len(rx) # 26
            BY ONLY <2>1, <4>2, <2>4, Zenon
          <6> QED
            BY ONLY <1>5, <6>1, Zenon
        <5> QED
          BY <2>5, <2>6, <2>9, <3>2, <4>2, <5>1
      <4> QED
        BY <4>1, <4>2
    <3>5. TypeOK'
      BY <1>0, <1>1, <2>5, <3>2, <3>4, TypeFrom DEF TypeOK
    <3>6. Counted(i2c_counter', state', word_count', written')
      <4>1. Len(written') = word_count' + (IF TakenNotCounted(i2c_counter', state') THEN 1 ELSE 0)
        BY <2>7, <3>4
      <4>2. word_count' <= word_limit
        BY <2>5, <3>2
      <4> QED
        BY <1>1, <2>2, <3>4, <4>1, <4>2 DEF Counted
    <3> QED
      BY <1>1, <3>3, <3>5, <3>6, Kept
  <2> QED
    BY <2>8, <2>9
<1> QED
  BY <1>1, <1>6, <1>7

\* One cycle after the sampler has seen the clock fall the clock is low: the
\* machine moves on and the codec sees nothing of it.
LEMMA FellFacts ==
  ASSUME IInv, Clk, state \in FrameStates \cup {Solo("start")}, i2c_counter = 1
  PROVE  /\ Fell /\ i2c_counter' = 2 /\ ~SCLK(i2c_counter, state)
         /\ ~init_over(state') =>
              /\ word_count' = word_count /\ written' = written
              /\ listening' = listening
              /\ ~SCLK(i2c_counter', state') =>
                   rx' = IF listening THEN rx ELSE <<>>
<1>1. TypeOK
  BY DEF IInv
<1>2. Fell
  BY Sampled
<1>3. i2c_counter' = 2
  BY <1>1, Divider, Half
<1>4. ~SCLK(i2c_counter, state)
  BY Driven, Half
<1> QED
  BY <1>1, <1>2, <1>3, <1>4, LowClock

\* The first bit of a frame.
LEMMA FirstSlotStep ==
  ASSUME IInv, Clk, state = Solo("start"), i2c_counter = 1
  PROVE  IInv'
<1>0. TypeOK /\ listening /\ rx = <<>> /\ Len(rx) = 0
  BY DEF IInv, Received
<1>1. state' = <<"b", 0>>
  BY FellFacts, Kinds DEF Clk, NextState, Solo, Outside
<1>2. /\ state' \in FrameStates /\ Place(state') = 0
      /\ state' # <<"d", 8>> /\ state' # <<"d", 7>>
  BY <1>1 DEF FrameStates, Place
<1>3. /\ state' # Solo("initialize") /\ state' # Solo("start") /\ state' # Solo("b_stop0")
      /\ state' # Solo("b_stop1") /\ state' # Solo("b_end") /\ state' \in States
  BY <1>2, Kinds
<1>4. i2c_counter' = 2 /\ i2c_counter' \in 2 .. half - 1
  BY FellFacts, Half
<1>5. ~init_over(state') /\ ~SCLK(i2c_counter', state')
  BY <1>2, <1>3, <1>4, Driven, Half DEF init_over
<1>6. /\ word_count' = word_count /\ written' = written /\ listening' /\ rx' = <<>>
  BY <1>0, <1>5, FellFacts
<1>7. TypeOK'
  BY <1>0, <1>3, <1>6, TypeFrom DEF TypeOK
<1>8. Paced(i2c_counter', sck0', sck1', state')
  BY <1>2, <1>3, Sampled DEF Paced
<1>9. Received(i2c_counter', state', word_count', listening', rx')
  <2>1. Len(rx') = Place(state') + (IF i2c_counter' \in 2 .. half - 1 THEN 0 ELSE 1)
    BY <1>0, <1>2, <1>4, <1>6
  <2>2. \A i \in 1 .. Len(rx') : rx'[i] = SDAT(StateOf(i - 1), word_count')
    BY <1>0, <1>6
  <2> QED
    BY <1>2, <1>3, <1>6, <2>1, <2>2 DEF Received
<1>10. Counted(i2c_counter', state', word_count', written')
  <2>1. /\ Len(written) = word_count /\ word_count <= word_limit
        /\ \A i \in 1 .. Len(written) : written[i] = Words[i]
    BY <1>0, Kinds DEF IInv, Counted, TakenNotCounted, TypeOK, Solo, Outside
  <2>2. Len(written') = word_count' + (IF TakenNotCounted(i2c_counter', state') THEN 1 ELSE 0)
    BY <1>0, <1>2, <1>6, <2>1 DEF TakenNotCounted, TypeOK
  <2> QED
    BY <1>3, <1>6, <2>1, <2>2 DEF Counted
<1> QED
  BY <1>7, <1>8, <1>9, <1>10, Kept

\* The next bit of a frame.
LEMMA NextSlotStep ==
  ASSUME IInv, Clk, state \in FrameStates, state # <<"d", 8>>, i2c_counter = 1
  PROVE  IInv'
<1>0. TypeOK
  BY DEF IInv
<1>1. state' = Successor(state)
  BY FellFacts, Kinds DEF Clk, NextState
<1>2. state' \in FrameStates /\ Place(state') = Place(state) + 1
  BY <1>1, NextSlot
<1>3. /\ state' # Solo("initialize") /\ state' # Solo("start") /\ state' # Solo("b_stop0")
      /\ state' # Solo("b_stop1") /\ state' # Solo("b_end") /\ state' \in States
  BY <1>2, Kinds
<1>4. i2c_counter' = 2 /\ i2c_counter' \in 2 .. half - 1 /\ i2c_counter \notin 2 .. half - 1
  BY FellFacts, Half
<1>5. ~init_over(state') /\ ~SCLK(i2c_counter', state')
  BY <1>2, <1>3, <1>4, Driven, Half DEF init_over
<1>6. /\ Place(state) \in 0 .. 25
      /\ Place(state) = 25 <=> state = <<"d", 7>>
      /\ Place(state') = 26 <=> state' = <<"d", 8>>
  BY <1>2, Slots
<1>7. /\ listening /\ word_count \in 0 .. word_limit
      /\ Len(rx) = Place(state) + 1
      /\ \A i \in 1 .. Len(rx) : rx[i] = SDAT(StateOf(i - 1), word_count)
      /\ \A i \in 1 .. Len(written) : written[i] = Words[i]
  BY <1>4, Holding
<1>8. /\ word_count' = word_count /\ written' = written /\ listening' /\ rx' = rx
  BY <1>5, <1>7, FellFacts
<1>9. TypeOK'
  BY <1>0, <1>3, <1>8, TypeFrom DEF TypeOK
<1>10. Paced(i2c_counter', sck0', sck1', state')
  BY <1>2, <1>3, Sampled DEF Paced
<1>11. Received(i2c_counter', state', word_count', listening', rx')
  <2>1. Len(rx') = Place(state') + (IF i2c_counter' \in 2 .. half - 1 THEN 0 ELSE 1)
    BY <1>2, <1>4, <1>6, <1>7, <1>8
  <2>2. \A i \in 1 .. Len(rx') : rx'[i] = SDAT(StateOf(i - 1), word_count')
    BY <1>7, <1>8
  <2>3. ~(i2c_counter' <= 1)
    BY <1>4
  <2> QED
    BY <1>2, <1>3, <1>8, <2>1, <2>2, <2>3 DEF Received
<1>12. Counted(i2c_counter', state', word_count', written')
  <2>1. TakenNotCounted(i2c_counter, state) <=> state = <<"d", 7>>
    BY DEF TakenNotCounted
  <2>2. TakenNotCounted(i2c_counter', state') <=> state' = <<"d", 8>>
    BY <1>4 DEF TakenNotCounted
  <2>3. TakenNotCounted(i2c_counter', state') <=> TakenNotCounted(i2c_counter, state)
    <3>1. Place(state) = 25 <=> Place(state') = 26
      BY <1>2, <1>6
    <3> QED
      BY ONLY <1>6, <2>1, <2>2, <3>1, Zenon
  <2>4. Len(written') = word_count' + (IF TakenNotCounted(i2c_counter', state') THEN 1 ELSE 0)
    BY <1>8, <2>3, Holding
  <2>5. word_count' <= word_limit
    BY <1>7, <1>8
  <2> QED
    BY <1>3, <1>7, <1>8, <2>4, <2>5 DEF Counted
<1> QED
  BY <1>9, <1>10, <1>11, <1>12, Kept

\* After the last slot: the stop if every word has been counted, or the next
\* word.
LEMMA FrameOverStep ==
  ASSUME IInv, Clk, state = <<"d", 8>>, i2c_counter = 1
  PROVE  IInv'
<1>0. TypeOK /\ word_count \in 0 .. word_limit + 1 /\ word_limit \in Nat
  BY Roms DEF IInv, TypeOK
<1>1. state \in FrameStates
  BY DEF FrameStates
<1>2. ~listening
  BY DEF IInv, Received
<1>3. state' = IF AllSent THEN Solo("b_stop0") ELSE Solo("initialize")
  BY <1>1, FellFacts, Kinds DEF Clk, NextState, Successor
<1>4. i2c_counter' = 2 /\ i2c_counter' \in 2 .. half /\ i2c_counter' <= half
  BY <1>1, FellFacts, Half
<1>5. state' \in States /\ ~init_over(state') /\ ~SCLK(i2c_counter', state')
  BY <1>3, <1>4, Kinds, Driven, Half DEF init_over, Outside
<1>6. /\ word_count' = word_count /\ written' = written /\ ~listening' /\ rx' = <<>>
  BY <1>1, <1>2, <1>5, FellFacts
<1>7. TypeOK'
  BY <1>0, <1>5, <1>6, TypeFrom DEF TypeOK
<1>8. Paced(i2c_counter', sck0', sck1', state')
  <2>1. ~sck0'
    BY <1>1, Sampled, Half
  <2> QED
    BY <1>3, <1>4, <2>1, Kinds DEF Paced, Outside
<1>9. Received(i2c_counter', state', word_count', listening', rx')
  BY <1>3, <1>6, Kinds DEF Received, Outside
<1>10. Counted(i2c_counter', state', word_count', written')
  <2>1. /\ Len(written) = word_count
        /\ \A i \in 1 .. Len(written) : written[i] = Words[i]
    BY <1>0, <1>1, Kinds DEF IInv, Counted, TakenNotCounted
  <2>2. ~TakenNotCounted(i2c_counter', state')
    BY <1>3 DEF TakenNotCounted, Solo
  <2>3. CASE AllSent
    BY <1>0, <1>3, <1>6, <2>1, <2>2, <2>3, Kinds DEF Counted, AllSent, Outside
  <2>4. CASE ~AllSent
    <3>1. word_count' <= word_limit
      BY <1>0, <1>6, <2>4 DEF AllSent
    <3>2. Len(written') = word_count' + 0
      BY <1>0, <1>6, <2>1
    <3> QED
      BY <1>3, <1>6, <2>1, <2>2, <2>4, <3>1, <3>2, Kinds DEF Counted, Outside
  <2> QED
    BY <2>3, <2>4
<1> QED
  BY <1>7, <1>8, <1>9, <1>10, Kept

-----------------------------------------------------------------------------
(* The whole machine. *)

\* Every Clk is one of the steps above; none of them moves the data line under
\* a high clock but the one that opens a frame and the one that stops.
LEMMA ClkStep ==
  ASSUME IInv, Clk
  PROVE  /\ IInv'
         /\ \/ ~SCLK(i2c_counter, state) \/ ~SCLK(i2c_counter', state')
            \/ SDAT(state', word_count') = SDAT(state, word_count)
            \/ state' = Solo("start") /\ SDAT(state, word_count) = 1
            \/ state' = Solo("b_stop1")
<1>0. i2c_counter \in Nat
  BY DEF IInv, TypeOK
<1>1. CASE state = Solo("initialize")
  <2>1. i2c_counter < half \/ i2c_counter = half
    BY <1>0, <1>1, Half DEF IInv, Paced
  <2>2. i2c_counter < half => ~SCLK(i2c_counter, state)
    BY <1>0, <1>1, Driven, Half
  <2> QED
    BY <1>1, <2>1, <2>2, WaitStep, OpenStep
<1>2. CASE state = Solo("b_stop0")
  <2>1. i2c_counter < half \/ i2c_counter >= half
    BY <1>0, Half
  <2>2. i2c_counter < half => ~SCLK(i2c_counter, state)
    BY <1>0, <1>2, Driven, Half
  <2> QED
    BY <1>2, <2>1, <2>2, StopWaitStep, StopStep
<1>3. CASE state \in {Solo("b_stop1"), Solo("b_end")}
  BY <1>3, EndStep
<1>4. CASE state \in FrameStates \cup {Solo("start")} /\ i2c_counter = 1
  <2>1. ~SCLK(i2c_counter, state)
    BY <1>4, FellFacts
  <2> QED
    BY <1>4, <2>1, FirstSlotStep, NextSlotStep, FrameOverStep
<1>5. CASE state \in FrameStates \cup {Solo("start")} /\ i2c_counter # 1
  <2>1. CASE SCLK(i2c_counter, state) <=> SCLK(i2c_counter', state')
    BY <1>5, <2>1, LevelStep
  <2>2. CASE ~SCLK(i2c_counter, state) /\ SCLK(i2c_counter', state')
    BY <1>5, <2>2, RiseStep
  <2>3. CASE SCLK(i2c_counter, state) /\ ~SCLK(i2c_counter', state')
    BY <1>5, <2>3, FallStep
  <2> QED
    BY <2>1, <2>2, <2>3
<1> QED
  BY <1>1, <1>2, <1>3, <1>4, <1>5, Kinds DEF IInv, TypeOK

\* A reset leaves the machine before its first frame, whatever the codec holds.
LEMMA ResetStep ==
  ASSUME IInv, PressReset
  PROVE  IInv'
<1>1. /\ i2c_counter' = 0 /\ ~sck0' /\ ~sck1' /\ state' = Solo("initialize")
      /\ word_count' = 0 /\ written' = <<>>
  BY DEF PressReset
<1>2. TypeOK'
  <2>1. rx' \in Seq({0, 1}) /\ listening' \in BOOLEAN
    <3>1. rx \in Seq({0, 1}) /\ listening \in BOOLEAN /\ <<>> \in Seq({0, 1})
      BY DEF IInv, TypeOK
    <3>2. \/ listening' = listening /\ rx' = rx
          \/ listening' = FALSE /\ rx' = <<>>
      BY DEF PressReset
    <3> QED
      BY ONLY <3>1, <3>2
  <2>2. Reset' \in BOOLEAN /\ resets' \in 0 .. MaxResets
    BY BoundAssumption DEF PressReset, IInv, TypeOK
  <2>3. /\ i2c_counter' \in 0 .. Period - 1 /\ word_count' \in 0 .. word_limit + 1
        /\ written' \in Seq((0 .. 255) \X (0 .. 255))
    BY <1>1, Half, Roms
  <2>4. sck0' \in BOOLEAN /\ sck1' \in BOOLEAN
    BY DEF PressReset
  <2> QED
    BY <1>1, <2>1, <2>2, <2>3, <2>4, Kinds DEF TypeOK, Outside
<1>3. Paced(i2c_counter', sck0', sck1', state')
  BY <1>1, Kinds, Half DEF Paced, Outside
<1>4. Received(i2c_counter', state', word_count', listening', rx')
  BY <1>1, Kinds DEF Received, Solo, FrameStates
<1>5. Counted(i2c_counter', state', word_count', written')
  BY <1>1, Kinds, Roms DEF Counted, TakenNotCounted, Solo, Outside
<1> QED
  BY <1>2, <1>3, <1>4, <1>5, Kept

\* What the codec holds follows the machine's state and count in every cycle.
THEOREM SpecInvariant == Spec => []IInv
<1>1. Init => IInv
  <2> SUFFICES ASSUME Init PROVE IInv
    OBVIOUS
  <2>1. TypeOK
    <3>1. state \in States
      BY Kinds DEF Init, Outside
    <3>2. i2c_counter \in 0 .. Period - 1 /\ word_count \in 0 .. word_limit + 1
          /\ resets \in 0 .. MaxResets
      BY Half, Roms, BoundAssumption DEF Init
    <3>3. rx \in Seq({0, 1}) /\ written \in Seq((0 .. 255) \X (0 .. 255))
      BY DEF Init
    <3>4. Reset \in BOOLEAN /\ sck0 \in BOOLEAN /\ sck1 \in BOOLEAN /\ listening \in BOOLEAN
      BY DEF Init
    <3> QED
      BY <3>1, <3>2, <3>3, <3>4 DEF TypeOK
  <2>2. Paced(i2c_counter, sck0, sck1, state)
    BY Kinds, Half DEF Init, Paced, Outside
  <2>3. Received(i2c_counter, state, word_count, listening, rx)
    BY Kinds DEF Init, Received, Solo, FrameStates
  <2>4. Counted(i2c_counter, state, word_count, written)
    BY Kinds, Roms DEF Init, Counted, TakenNotCounted, Solo, Outside
  <2> QED
    BY <2>1, <2>2, <2>3, <2>4 DEF IInv
<1>2. IInv /\ [Next]_vars => IInv'
  <2> SUFFICES ASSUME IInv, [Next]_vars PROVE IInv'
    OBVIOUS
  <2>1. CASE Clk
    BY <2>1, ClkStep
  <2>2. CASE PressReset
    BY <2>2, ResetStep
  <2>3. CASE ReleaseReset \/ UNCHANGED vars
    <3>1. /\ UNCHANGED <<machine, listening, rx, written, resets>> /\ Reset' \in BOOLEAN
      BY <2>3 DEF ReleaseReset, IInv, TypeOK
    <3> QED
      BY <3>1 DEF IInv, TypeOK, Paced, Received, Counted
  <2> QED
    BY <2>1, <2>2, <2>3 DEF Next
<1> QED
  BY <1>1, <1>2, PTL DEF Spec

\* Every register keeps its range: the count never leaves the ROM.
THEOREM TypeCorrect == Spec => []TypeOK
BY SpecInvariant, PTL DEF IInv

\* What the codec holds is never more than the ROMs.
LEMMA OrderKept == IInv => WordsInOrder
<1> SUFFICES ASSUME IInv PROVE WordsInOrder
  OBVIOUS
<1>1. Len(Words) = word_limit + 1 /\ word_limit \in Nat
  BY Roms
<1>2. \A i \in 1 .. Len(written) : written[i] = Words[i]
  BY DEF IInv, Counted
<1>3. Len(written) <= word_limit + 1
  <2>1. CASE state = Solo("b_end")
    BY <1>1, <2>1 DEF IInv, Counted
  <2>2. CASE state # Solo("b_end") /\ ~TakenNotCounted(i2c_counter, state)
    BY <1>1, <2>2 DEF IInv, Counted, TypeOK
  <2>3. CASE state # Solo("b_end") /\ TakenNotCounted(i2c_counter, state)
    <3>1. /\ state \in FrameStates
          /\ state # <<"d", 8>> \/ i2c_counter > 1
      BY <2>3 DEF TakenNotCounted, FrameStates
    <3>2. word_count <= word_limit /\ word_count \in Nat
      BY <3>1 DEF IInv, Counted, TypeOK
    <3>3. Len(written) = word_count + 1
      BY <2>3 DEF IInv, Counted
    <3> QED
      BY <1>1, <3>2, <3>3
  <2> QED
    BY <2>1, <2>2, <2>3
<1> QED
  BY <1>1, <1>2, <1>3 DEF WordsInOrder

\* At the end nothing is missing.
LEMMA EndComplete == IInv => DoneMeansConfigured
<1> SUFFICES ASSUME IInv, init_over(state) PROVE written = Words
  BY DEF DoneMeansConfigured
<1>1. /\ Len(written) = Len(Words)
      /\ \A i \in 1 .. Len(written) : written[i] = Words[i]
  BY Roms DEF IInv, Counted, init_over
<1>2. written \in Seq((0 .. 255) \X (0 .. 255))
  BY DEF IInv, TypeOK
<1>3. written = [i \in 1 .. Len(written) |-> written[i]]
  BY <1>2
<1>4. Words = [i \in 1 .. Len(Words) |-> Words[i]]
  BY Roms DEF Words, word_limit
<1> QED
  BY <1>1, <1>3, <1>4

\* The codec takes the words of the two ROMs, once each and in their order,
\* although each reset cuts a frame off and leaves part of it in the codec.
THEOREM WordsAreInOrder == Spec => []WordsInOrder
BY SpecInvariant, OrderKept, PTL

\* INIT_FINISH is up only when the codec has every word of the ROMs.
THEOREM EndIsConfigured == Spec => []DoneMeansConfigured
BY SpecInvariant, EndComplete, PTL

\* The data line moves under a high clock only to start or to stop, so the
\* codec takes no bit for either of them.
THEOREM LineKeepsDiscipline == Spec => BusDiscipline
<1>1. IInv /\ [Next]_vars =>
        [Clk /\ SCLK(i2c_counter, state) /\ SCLK(i2c_counter, state)'
             /\ SDAT(state, word_count) # SDAT(state, word_count)'
           => \/ state' = Solo("start") /\ SDAT(state, word_count) = 1
              \/ state' = Solo("b_stop1")]_vars
  <2> SUFFICES ASSUME IInv, Clk, SCLK(i2c_counter, state), SCLK(i2c_counter, state)',
                      SDAT(state, word_count) # SDAT(state, word_count)'
               PROVE  \/ state' = Solo("start") /\ SDAT(state, word_count) = 1
                      \/ state' = Solo("b_stop1")
    OBVIOUS
  <2> QED
    BY ClkStep
<1> QED
  BY SpecInvariant, <1>1, PTL DEF Spec, BusDiscipline

\* A Clk takes the next word, reports the end, or does neither.
LEMMA SetupStep ==
  ASSUME IInv, Clk
  PROVE  [Setup!Next]_(Setup!setup)
<1>1. IInv'
  BY ClkStep
<1>2. /\ WordsInOrder' /\ (init_over(state') => written' = Words)
      /\ WordsInOrder /\ (init_over(state) => written = Words)
  <2>1. (IInv => WordsInOrder)' /\ (IInv => DoneMeansConfigured)'
    BY OrderKept, EndComplete, PTL
  <2>2. WordsInOrder' /\ DoneMeansConfigured'
    BY <1>1, <2>1
  <2>3. Words' = Words
    OBVIOUS
  <2>4. init_over(state') => written' = Words
    BY <2>2, <2>3 DEF DoneMeansConfigured
  <2> QED
    BY <2>2, <2>4, OrderKept, EndComplete DEF DoneMeansConfigured
<1>3. /\ written \in Seq((0 .. 255) \X (0 .. 255))
      /\ Len(Words) = word_limit + 1 /\ word_limit \in Nat
  BY Roms DEF IInv, TypeOK
<1>4. ~Reset /\ ~Reset'
  BY DEF Clk
<1>5. written' = written \/ written' = Append(written, Frame(rx))
  BY DEF Clk, Listen
<1>6. init_over(state') => state \in {Solo("b_stop1"), Solo("b_end")}
  <2> SUFFICES ASSUME state \notin {Solo("b_stop1"), Solo("b_end")}
               PROVE  state' # Solo("b_end")
    BY DEF init_over
  <2>1. CASE state \in {Solo("initialize"), Solo("start")}
    <3>1. state' \in FrameStates \cup {Solo("initialize"), Solo("start")}
      BY <2>1, Kinds DEF Clk, NextState, FrameStates
    <3> QED
      BY <3>1, Kinds DEF Outside
  <2>2. CASE state \in FrameStates
    <3>1. state' = state \/ state' = Successor(state)
      BY <2>2, Kinds DEF Clk, NextState
    <3>2. Successor(state) \in FrameStates \cup {Solo("initialize"), Solo("b_stop0")}
      BY <2>2, NextSlot DEF Successor
    <3> QED
      BY <2>2, <3>1, <3>2, Kinds DEF Outside
  <2>3. CASE state = Solo("b_stop0")
    <3>1. state' \in {Solo("b_stop0"), Solo("b_stop1")}
      BY <2>3, Kinds DEF Clk, NextState, Outside
    <3> QED
      BY <3>1, Kinds DEF Outside
  <2> QED
    BY <2>1, <2>2, <2>3, Kinds DEF IInv, TypeOK
<1>7. init_over(state) => init_over(state')
  BY EndStep DEF init_over
<1>8. state \in {Solo("b_stop1"), Solo("b_end")} => Len(written) = word_limit + 1
  BY <1>3, Kinds DEF IInv, Counted, TakenNotCounted, Solo, Outside
<1>9. CASE written' = written
  <2>1. CASE init_over(state') /\ ~init_over(state)
    BY <1>2, <1>4, <1>9, <2>1 DEF Setup!Next, Setup!Finish
  <2>2. CASE init_over(state') <=> init_over(state)
    <3>1. Reset' = Reset
      BY DEF Clk
    <3>2. init_over(state)' = init_over(state)
      BY <2>2 DEF init_over
    <3> QED
      BY <1>9, <3>1, <3>2 DEF Setup!setup
  <2> QED
    BY <1>7, <2>1, <2>2
<1>10. CASE written' = Append(written, Frame(rx))
  <2>1. /\ Len(written') = Len(written) + 1
        /\ written'[Len(written) + 1] = Frame(rx)
    BY <1>3, <1>10
  <2>2. Len(written) < Len(Words) /\ Len(written) + 1 \in 1 .. Len(written')
    BY <1>2, <1>3, <2>1 DEF WordsInOrder
  <2>3. Frame(rx) = Words[Len(written) + 1]
    BY <1>2, <2>1, <2>2 DEF WordsInOrder
  <2>4. ~init_over(state) /\ ~init_over(state')
    BY <1>3, <1>6, <1>7, <1>8, <2>2
  <2> QED
    BY <1>4, <1>10, <2>2, <2>3, <2>4 DEF Setup!Next, Setup!TakeNext
<1> QED
  BY <1>5, <1>9, <1>10

\* The machine and the codec implement CodecSetup: each word is taken once, the
\* end is reported once, and only a reset takes it back.
THEOREM IsSetup == Spec => SetupSpec
<1>1. Init => Setup!Init
  BY Kinds DEF Init, Setup!Init, init_over, Solo
<1>2. IInv /\ [Next]_vars => [Setup!Next]_(Setup!setup)
  <2> SUFFICES ASSUME IInv, [Next]_vars PROVE [Setup!Next]_(Setup!setup)
    OBVIOUS
  <2>1. CASE Clk
    BY <2>1, SetupStep
  <2>2. CASE PressReset
    <3>1. ~init_over(state')
      BY <2>2, Kinds DEF PressReset, init_over, Solo
    <3>2. ~Reset /\ Reset' /\ written' = <<>>
      BY <2>2 DEF PressReset
    <3> QED
      BY <3>1, <3>2 DEF Setup!Next, Setup!GoDown
  <2>3. CASE ReleaseReset
    BY <2>3 DEF ReleaseReset, Setup!Next, Setup!Resume
  <2>4. CASE UNCHANGED vars
    BY <2>4 DEF Setup!setup
  <2> QED
    BY <2>1, <2>2, <2>3, <2>4 DEF Next
<1> QED
  BY SpecInvariant, <1>1, <1>2, PTL DEF Spec, SetupSpec, Setup!Spec
=============================================================================
