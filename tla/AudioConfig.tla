---------------------------- MODULE AudioConfig ----------------------------
(***************************************************************************)
(* The part of audio_interface.vhd that configures the WM8731 codec over   *)
(* I2C: the clock divider, the SCLK sampler, the word counter, the state   *)
(* machine with its outputs, and the two ROMs. The codec's receiver is     *)
(* external: it decodes the two wires the way an I2C slave does.           *)
(*                                                                         *)
(* A state of the VHDL machine inside a frame is a pair: the byte ("b" for *)
(* the device address, "a" for the register, "d" for the data) and the bit *)
(* 0 .. 7, with 8 for the acknowledge slot.                                *)
(***************************************************************************)
EXTENDS Integers, Sequences

CONSTANTS
  Period,      \* Clk cycles of one SCLK period: 1024 in the code
  RegRom,      \* SCI_REG_ROM
  DatRom,      \* SCI_DAT_ROM
  MaxResets    \* bound: resets TLC explores

ASSUME PeriodAssumption == Period \in Nat /\ Period % 2 = 0 /\ Period >= 8

ASSUME BoundAssumption == MaxResets \in Nat

ASSUME RomAssumption ==
  /\ Len(RegRom) = Len(DatRom) /\ RegRom # <<>>
  /\ RegRom \in Seq(0 .. 255) /\ DatRom \in Seq(0 .. 255)

word_limit == Len(RegRom) - 1

VARIABLES
  Reset,
  i2c_counter,   \* the divider; its top bit is the serial clock
  sck0, sck1,    \* SCLK_int one and two cycles ago
  state,
  word_count,
  \* the codec: whether it is in a frame, the bits since the start condition,
  \* and the words it has taken since the reset
  listening, rx, written,
  resets         \* how many resets so far, for MaxResets

machine == <<i2c_counter, sck0, sck1, state, word_count>>
vars == <<Reset, machine, listening, rx, written, resets>>

FrameStates == {"b", "a", "d"} \X (0 .. 8)
Outside == {"initialize", "start", "b_stop0", "b_stop1", "b_end"}
Solo(s) == <<s, 0>>
States == FrameStates \cup {Solo(s) : s \in Outside}

\* The codec's device address, write.
SCI_ADDR == 52

\* What the machine is to send: each ROM word as a register and its value.
Words == [i \in 1 .. Len(RegRom) |-> <<RegRom[i], DatRom[i]>>]

TypeOK ==
  /\ Reset \in BOOLEAN
  /\ i2c_counter \in 0 .. Period - 1
  /\ sck0 \in BOOLEAN /\ sck1 \in BOOLEAN
  /\ state \in States
  /\ word_count \in 0 .. word_limit + 1
  /\ listening \in BOOLEAN /\ rx \in Seq({0, 1})
  /\ written \in Seq((0 .. 255) \X (0 .. 255))
  /\ resets \in 0 .. MaxResets

-----------------------------------------------------------------------------
(* The wires, from the registers. *)

sclk_inhibit(s) == s \in {Solo("b_stop1"), Solo("b_end")}

\* Slip: the end of the configuration is reported for one cycle only.
OverForOneCycle(s) == s = Solo("b_stop1")

init_over(s) == s = Solo("b_end")

\* Slip: the word is counted in the acknowledge slot of the register.
CountAtRegister(s) == s = <<"a", 8>>

count_en(s) == s = <<"d", 8>>

SCLK(c, s) == c >= Period \div 2 \/ sclk_inhibit(s)

Weight == <<128, 64, 32, 16, 8, 4, 2, 1>>

\* Bit i of a byte, most significant first.
Bit(byte, i) == (byte \div Weight[i + 1]) % 2

\* The byte that the machine sends in the part b of the frame of word w.
Sent(b, w) ==
  IF b = "b" THEN SCI_ADDR ELSE IF b = "a" THEN RegRom[w + 1] ELSE DatRom[w + 1]

\* The released line ('Z') of the acknowledge slots is pulled up.
SDAT(s, w) ==
  IF s \in {Solo("start"), Solo("b_stop0")} THEN 0
  ELSE IF s \notin FrameStates \/ s[2] = 8 THEN 1
  ELSE Bit(Sent(s[1], w), s[2])

-----------------------------------------------------------------------------
(* The state machine. *)

\* Slip: a frame advances while the clock is high.
Rose == sck0 /\ ~sck1

Fell == sck1 /\ ~sck0

\* Slip: the last word is not sent.
StopEarly == word_count = word_limit

AllSent == word_count = word_limit + 1

Successor(s) ==
  IF s[2] < 8 THEN <<s[1], s[2] + 1>>
  ELSE IF s[1] = "b" THEN <<"a", 0>>
  ELSE IF s[1] = "a" THEN <<"d", 0>>
  ELSE IF AllSent THEN Solo("b_stop0") ELSE Solo("initialize")

NextState ==
  LET high == SCLK(i2c_counter, state) IN
  IF state = Solo("initialize") THEN IF high THEN Solo("start") ELSE state
  ELSE IF state = Solo("start") THEN IF Fell THEN <<"b", 0>> ELSE state
  ELSE IF state \in FrameStates THEN IF Fell THEN Successor(state) ELSE state
  ELSE IF state = Solo("b_stop0") /\ ~high THEN state
  ELSE IF state = Solo("b_stop0") THEN Solo("b_stop1")
  ELSE Solo("b_end")

-----------------------------------------------------------------------------
(* The codec. *)

\* Byte k of the bits of a frame: eight slots and the one of its acknowledge.
Byte(bits, k) ==
  LET at(i) == Weight[i] * bits[9 * k + i]
  IN at(1) + at(2) + at(3) + at(4) + at(5) + at(6) + at(7) + at(8)

\* The register and the value of a frame.
Frame(bits) == <<Byte(bits, 1), Byte(bits, 2)>>

\* The codec watches the wires go from (c, d) to (cc, dd): a start, a stop,
\* a bit on the rising clock, the word once the last data bit has been
\* clocked and the clock falls.
Listen(c, d, cc, dd) ==
  LET open == c /\ cc /\ d = 1 /\ dd = 0
      stop == c /\ cc /\ d = 0 /\ dd = 1
      over == c /\ ~cc /\ Len(rx) = 27
  IN /\ listening' = (open \/ (listening /\ ~stop /\ ~over))
     /\ rx' = IF open THEN <<>>
              ELSE IF ~listening' THEN <<>>
              ELSE IF ~c /\ cc THEN Append(rx, dd) ELSE rx
     /\ written' = IF /\ listening /\ c /\ ~cc /\ Len(rx) = 26
                      /\ Byte(rx, 0) = SCI_ADDR
                   THEN Append(written, Frame(rx)) ELSE written

-----------------------------------------------------------------------------

Init ==
  /\ Reset = FALSE
  /\ i2c_counter = 0 /\ sck0 = FALSE /\ sck1 = FALSE
  /\ state = Solo("initialize") /\ word_count = 0
  /\ listening = FALSE /\ rx = <<>> /\ written = <<>>
  /\ resets = 0

\* A rising edge of Clk. The word counter is clocked by the falling SCLK_int
\* and cleared as soon as the machine is in b_end.
Clk ==
  LET c == SCLK(i2c_counter, state)
      cc == SCLK(i2c_counter', state')
      d == SDAT(state, word_count)
      dd == SDAT(state', word_count')
  IN /\ ~Reset
     /\ i2c_counter' = (i2c_counter + 1) % Period
     /\ sck0' = c /\ sck1' = sck0
     /\ state' = NextState
     /\ word_count' = IF init_over(state') THEN 0
                      ELSE IF c /\ ~cc /\ count_en(state') THEN word_count + 1
                      ELSE word_count
     /\ Listen(c, d, cc, dd)
     /\ UNCHANGED <<Reset, resets>>

\* KEY[0] is pressed: an asynchronous reset of every register, at any point of
\* a frame. If both wires move, the codec sees them move in either order.
PressReset ==
  LET c == SCLK(i2c_counter, state)
      d == SDAT(state, word_count)
  IN /\ ~Reset /\ resets < MaxResets
     /\ Reset' = TRUE /\ resets' = resets + 1
     /\ i2c_counter' = 0 /\ sck0' = FALSE /\ sck1' = FALSE
     /\ state' = Solo("initialize") /\ word_count' = 0
     /\ \/ UNCHANGED <<listening, rx>>
        \/ c /\ d = 0 /\ listening' = FALSE /\ rx' = <<>>
     /\ written' = <<>>

ReleaseReset ==
  /\ Reset /\ Reset' = FALSE
  /\ UNCHANGED <<machine, listening, rx, written, resets>>

Next == Clk \/ PressReset \/ ReleaseReset

Spec == Init /\ [][Next]_vars

\* The 50 MHz clock runs, and the button does not stay down.
FairSpec == Spec /\ WF_vars(Clk) /\ WF_vars(ReleaseReset)

-----------------------------------------------------------------------------
(* Properties. *)

\* The codec decodes exactly the ROM words, in their order, whatever was on
\* the wires when a reset cut a frame short.
WordsInOrder ==
  /\ Len(written) <= Len(Words)
  /\ \A i \in 1 .. Len(written) : written[i] = Words[i]

\* When the machine reports that it is done (INIT_FINISH), the codec holds all
\* the words.
DoneMeansConfigured == init_over(state) => written = Words

\* Outside a reset the data wire moves under a high clock only to start a
\* frame or to stop the transfer.
BusDiscipline ==
  [][Clk /\ SCLK(i2c_counter, state) /\ SCLK(i2c_counter, state)'
       /\ SDAT(state, word_count) # SDAT(state, word_count)'
     => \/ state' = Solo("start") /\ SDAT(state, word_count) = 1
        \/ state' = Solo("b_stop1")]_vars

\* The machine and the codec together do what CodecSetup promises: a word that
\* was taken is not taken again, and the report of the end stays up until a
\* reset.
Setup == INSTANCE CodecSetup WITH
  down <- Reset, taken <- written, finished <- init_over(state)

SetupSpec == Setup!Spec

\* Every state of the machine leads to the end of the configuration.
Configured == []<>(init_over(state) /\ written = Words)

-----------------------------------------------------------------------------
(* The inductive invariant of the three safety properties. Its parts take    *)
(* the state they speak of as parameters.                                    *)

half == Period \div 2

\* The slot of the frame that a state sends, and the state that sends a slot.
Place(s) == s[2] + (IF s[1] = "b" THEN 0 ELSE IF s[1] = "a" THEN 9 ELSE 18)

StateOf(i) ==
  IF i < 9 THEN <<"b", i>> ELSE IF i < 18 THEN <<"a", i - 9>> ELSE <<"d", i - 18>>

\* The sampler follows the divider by one and two cycles whenever its falling
\* edge matters, so a slot begins two cycles into the low half of the clock;
\* the machine waits for a start or a stop only in the half before the edge.
Paced(c, before, earlier, s) ==
  /\ s = Solo("initialize") => c <= half /\ ~before
  /\ s = Solo("start") => c <= 1 \/ c > half
  /\ s = Solo("b_stop0") => c \in 2 .. half
  /\ s \in FrameStates \cup {Solo("start")} =>
       /\ before <=> (c = 0 \/ c > half)
       /\ earlier <=> (c <= 1 \/ c > half + 1)

\* Within a frame the codec holds the slots whose rising edge has come, as the
\* machine sends them for the word it counts; it is through with the frame
\* when the acknowledge slot of the last byte falls.
Received(c, s, w, open, bits) ==
  /\ s = Solo("start") => open /\ bits = <<>>
  /\ s \in FrameStates /\ (s # <<"d", 8>> \/ c > 1) =>
       /\ open
       /\ Len(bits) = Place(s) + (IF c \in 2 .. half - 1 THEN 0 ELSE 1)
       /\ \A i \in 1 .. Len(bits) : bits[i] = SDAT(StateOf(i - 1), w)
  /\ s = <<"d", 8>> /\ c <= 1 => ~open
  /\ s \in {Solo("b_stop0"), Solo("b_stop1"), Solo("b_end")} => ~open

\* The word is taken in the last data bit and counted one slot later.
TakenNotCounted(c, s) == (s = <<"d", 7>> /\ c <= 1) \/ (s = <<"d", 8>> /\ c > 1)

\* The codec has the words the machine has counted, and between the two slots
\* one more; the count passes the last word only when the frame is over.
Counted(c, s, w, words) ==
  /\ \A i \in 1 .. Len(words) : words[i] = Words[i]
  /\ s = Solo("b_end") => Len(words) = word_limit + 1
  /\ s # Solo("b_end") => Len(words) = w + (IF TakenNotCounted(c, s) THEN 1 ELSE 0)
  /\ s \in {Solo("initialize"), Solo("start")} => w <= word_limit
  /\ s \in FrameStates /\ (s # <<"d", 8>> \/ c > 1) => w <= word_limit
  /\ s \in {Solo("b_stop0"), Solo("b_stop1")} => w = word_limit + 1

IInv ==
  /\ TypeOK
  /\ Paced(i2c_counter, sck0, sck1, state)
  /\ Received(i2c_counter, state, word_count, listening, rx)
  /\ Counted(i2c_counter, state, word_count, written)
=============================================================================
