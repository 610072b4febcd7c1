---------------------------- MODULE SampleReader ----------------------------
(***************************************************************************)
(* The sample path of music_statemachine.sv: the divider that makes        *)
(* AUD_MCLK, the counter that makes the audio clock from it, sram_reader   *)
(* with the read buffer of tristate, the music state machine, and the load *)
(* of the serializer's register. A word of the SRAM is named by its        *)
(* address. The configuration of the codec (AudioConfig) is seen through   *)
(* INIT_FINISH, the codec's frame clock as loads at any cycle.             *)
(***************************************************************************)
EXTENDS Integers

CONSTANTS
  MDiv,       \* Clk cycles of one AUD_MCLK period: 8
  CtrVal,     \* counter_val of the audio clock: 71
  Words,      \* words of the SRAM: 2^20
  MinPress,   \* a press of KEY[0] lasts at least this many Clk cycles
  MaxPresses  \* bound: presses TLC explores

\* A reset outlasts the pair it interrupts: 100 ns, for a button. Half a
\* period of AUD_MCLK suffices to start the pair that is due at its end.
ASSUME ReaderAssumption ==
  /\ MDiv \in Nat /\ MDiv % 2 = 0 /\ MDiv >= 8
  /\ CtrVal \in Nat \ {0}
  /\ Words \in Nat /\ Words >= 3
  /\ MinPress \in Nat /\ MinPress >= 5
  /\ MaxPresses \in Nat

VARIABLES
  Reset_h, held,            \* the reset, and for how long (up to MinPress)
  mclk_count,               \* i2c_counter(2 downto 0)
  counter, AUD_CLK,         \* counter ctr and its clk_out
  current, occured_once, SRAM_ADDR, LData, RData,   \* sram_reader
  Data_read_buffer,         \* tristate
  music, INIT_FINISH,       \* music_statemachine's state; the codec is set up
  mus_LDATA, mus_RDATA,
  LRDATA,                   \* the serializer's register: left, right
  warm,                     \* an audio clock has passed since the reset
  presses                   \* for MaxPresses

button == <<Reset_h, held, presses>>
clocks == <<mclk_count, counter, AUD_CLK>>
reader == <<current, occured_once, SRAM_ADDR, LData, RData, Data_read_buffer>>
player == <<music, INIT_FINISH, mus_LDATA, mus_RDATA, LRDATA, warm>>
vars == <<button, clocks, reader, player>>

Address == 0 .. Words - 1
Busy == {"RL_0", "RL_1", "RR_0", "RR_1"}

TypeOK ==
  /\ Reset_h \in BOOLEAN /\ held \in 0 .. MinPress /\ presses \in 0 .. MaxPresses
  /\ mclk_count \in 0 .. MDiv - 1 /\ counter \in 0 .. CtrVal
  /\ AUD_CLK \in BOOLEAN
  /\ current \in Busy \cup {"IDLE"} /\ occured_once \in BOOLEAN
  /\ {SRAM_ADDR, LData, RData, Data_read_buffer, mus_LDATA, mus_RDATA} \subseteq Address
  /\ music \in {"INIT", "INIT_WAIT", "INIT_DONE", "DAC"}
  /\ INIT_FINISH \in BOOLEAN /\ warm \in BOOLEAN
  /\ LRDATA \in Address \X Address

-----------------------------------------------------------------------------
(* The clocks. *)

\* KEY[0] as the register Reset_h samples it at each edge.
Button ==
  /\ \/ ~Reset_h /\ Reset_h' = FALSE
     \/ ~Reset_h /\ Reset_h' = TRUE /\ presses < MaxPresses
     \/ Reset_h /\ Reset_h' = TRUE
     \/ Reset_h /\ Reset_h' = FALSE /\ held = MinPress
  /\ presses' = presses + IF ~Reset_h /\ Reset_h' THEN 1 ELSE 0
  /\ held' = IF ~Reset_h' THEN 0
             ELSE IF held < MinPress THEN held + 1 ELSE held

\* AUD_MCLK is about to rise.
MclkRises == ~Reset_h /\ mclk_count = MDiv \div 2 - 1

\* Slip: the counter goes one past its limit.
CountPast ==
  IF counter > CtrVal THEN counter' = 0 /\ AUD_CLK' = TRUE
                      ELSE counter' = counter + 1 /\ AUD_CLK' = FALSE

\* One edge of AUD_MCLK at the counter.
CountMclk ==
  IF counter >= CtrVal THEN counter' = 0 /\ AUD_CLK' = TRUE
                       ELSE counter' = counter + 1 /\ AUD_CLK' = FALSE

\* The divider is reset asynchronously. When the reset comes with a rising
\* AUD_MCLK, the cut pulse may or may not clock the counter, and the counter
\* may or may not see the reset.
Divide ==
  /\ mclk_count' = IF Reset_h \/ Reset_h' THEN 0 ELSE (mclk_count + 1) % MDiv
  /\ \/ MclkRises /\ CountMclk
     \/ MclkRises /\ Reset_h' /\ counter' = 0 /\ UNCHANGED AUD_CLK
     \/ (MclkRises => Reset_h') /\ UNCHANGED <<counter, AUD_CLK>>

-----------------------------------------------------------------------------
(* The reader. Its later assignments win over those of its reset. *)

\* Slip: a pair takes two words.
AddressByTwo ==
  IF current \in {"RL_1", "RR_1"} THEN (SRAM_ADDR + 1) % Words
  ELSE IF Reset_h THEN 0 ELSE SRAM_ADDR

NextAddress ==
  IF current = "RL_1" THEN (SRAM_ADDR + 1) % Words
  ELSE IF Reset_h THEN 0 ELSE SRAM_ADDR

\* Slip: only the reset clears the mark of the pair taken.
OnceEver ==
  current = "RL_0" \/ (~Reset_h /\ occured_once)

NextOnce ==
  current = "RL_0" \/ (~Reset_h /\ AUD_CLK /\ occured_once)

\* Slip: the right word is read without waiting for the SRAM.
NextWithoutWait ==
  CASE current = "IDLE" -> IF AUD_CLK /\ ~occured_once THEN "RL_0" ELSE "IDLE"
    [] current = "RL_0" -> "RL_1"
    [] current = "RL_1" -> "RR_1"
    [] current \in {"RR_0", "RR_1"} -> "IDLE"

NextCurrent ==
  CASE current = "IDLE" -> IF AUD_CLK /\ ~occured_once THEN "RL_0" ELSE "IDLE"
    [] current = "RL_0" -> "RL_1"
    [] current = "RL_1" -> "RR_0"
    [] current = "RR_0" -> "RR_1"
    [] current = "RR_1" -> "IDLE"

Read ==
  /\ current' = NextCurrent
  /\ SRAM_ADDR' = NextAddress
  /\ occured_once' = NextOnce
  /\ Data_read_buffer' = SRAM_ADDR
  /\ LData' = IF current = "RL_1" THEN Data_read_buffer ELSE LData
  /\ RData' = IF current = "RR_1" THEN Data_read_buffer ELSE RData

-----------------------------------------------------------------------------
(* The music state machine and the register of the serializer. *)

\* Slip: the codec is not waited for.
MusicNotWaiting ==
  IF music = "INIT" THEN "INIT_WAIT"
  ELSE IF music = "INIT_WAIT" THEN "INIT_DONE" ELSE "DAC"

NextMusic ==
  IF music = "INIT" THEN "INIT_WAIT"
  ELSE IF music = "INIT_WAIT"
       THEN IF INIT_FINISH THEN "INIT_DONE" ELSE "INIT_WAIT"
       ELSE "DAC"

Music ==
  /\ music' = IF Reset_h THEN "INIT" ELSE NextMusic
  /\ IF music = "DAC" /\ ~Reset_h
     THEN mus_LDATA' = LData /\ mus_RDATA' = RData
     ELSE UNCHANGED <<mus_LDATA, mus_RDATA>>

\* A rising AUD_DACLRCK loads both samples; the reset clears them.
Load ==
  \/ Reset_h' /\ LRDATA' = <<0, 0>>
  \/ ~Reset_h' /\ ~Reset_h /\ LRDATA' = <<mus_LDATA, mus_RDATA>>
  \/ ~Reset_h' /\ UNCHANGED LRDATA

\* AudioConfig is done at some time, but its 261 cycles of SCLK outlast an
\* audio clock.
Configure ==
  /\ warm' = (~Reset_h' /\ (warm \/ (AUD_CLK /\ ~AUD_CLK')))
  /\ IF Reset_h' THEN INIT_FINISH' = FALSE
     ELSE INIT_FINISH' \in {INIT_FINISH, warm}

-----------------------------------------------------------------------------

\* The encoding of the reader's power-up state is the synthesizer's: the first
\* of the enumeration or the one the reset names.
Init ==
  /\ Reset_h = FALSE /\ held = 0 /\ presses = 0
  /\ mclk_count = 0 /\ counter = 0 /\ AUD_CLK = FALSE
  /\ current \in {"RL_0", "IDLE"} /\ occured_once = FALSE
  /\ SRAM_ADDR = 0 /\ LData = 0 /\ RData = 0 /\ Data_read_buffer = 0
  /\ music = "INIT" /\ INIT_FINISH = FALSE
  /\ mus_LDATA = 0 /\ mus_RDATA = 0 /\ LRDATA = <<0, 0>> /\ warm = FALSE

\* A rising edge of Clk.
Clk == Button /\ Divide /\ Read /\ Music /\ Load /\ Configure

Next == Clk

Spec == Init /\ [][Next]_vars

Release == Clk /\ ~Reset_h'
Finish == Clk /\ INIT_FINISH'

\* The 50 MHz clock runs, the button does not stay down, and the codec's
\* configuration ends (AudioConfig's Configured).
FairSpec == Spec /\ WF_vars(Clk) /\ WF_vars(Release) /\ WF_vars(Finish)

-----------------------------------------------------------------------------
(* Properties. *)

\* From the audio clock to the reader: a pair per audio clock, in sequence.
\* Once the left word is in, the right one is certain to follow.
Stream == INSTANCE SampleStream WITH
  down <- Reset_h,
  tone <- AUD_CLK,
  due <- current \in {"RL_0", "RL_1"} \/ (AUD_CLK /\ ~occured_once),
  pos <- SRAM_ADDR,
  pair <- <<LData, IF current \in {"RR_0", "RR_1"}
                   THEN (LData + 1) % Words ELSE RData>>

StreamSpec == Stream!Spec

\* The left word is replaced two cycles before the right one and the frame
\* clock knows nothing of either: what is loaded may be the left word of one
\* pair with the right word of the one before, which is the same word, and
\* nothing further apart.
LoadedSkew == (LRDATA[2] - LRDATA[1] + Words) % Words \in {0, 1}

\* No sample goes to the codec before it is configured.
SamplesAfterInit ==
  [][<<mus_LDATA, mus_RDATA>>' # <<mus_LDATA, mus_RDATA>> => INIT_FINISH]_vars

\* Every word of the memory is played again and again.
Plays == \A a \in Address : []<>(mus_LDATA = a)

-----------------------------------------------------------------------------
(* What the prover needs beside the properties. *)

After(a) == (a + 1) % Words

HalfPeriod == MDiv \div 2

\* Cycles until AUD_MCLK has next clocked the counter.
UntilMclk == IF mclk_count < HalfPeriod THEN HalfPeriod - mclk_count
                                        ELSE HalfPeriod - mclk_count + MDiv

\* Cycles until the reader has finished the pair that is due or under way.
UntilPair == CASE current = "IDLE" -> 5 [] current = "RL_0" -> 4
               [] current = "RL_1" -> 3 [] current = "RR_0" -> 2
               [] current = "RR_1" -> 1

\* A reset has cleared the reader when it has lasted as long as the rest of
\* the pair it interrupted: by that time a pair it goes on taking is the first.
Cleared ==
  /\ ~Reset_h => held = 0
  /\ Reset_h => ~warm
  /\ Reset_h /\ held >= 2 => /\ occured_once => current = "RL_1"
                             /\ current # "RR_0" => SRAM_ADDR = 0
  /\ Reset_h /\ held >= 3 => /\ current = "RL_1" => Data_read_buffer = 0
                             /\ current = "RR_0" => SRAM_ADDR = 1
  /\ Reset_h /\ held >= 4 => (current = "RR_0" => LData = 0)
  /\ Reset_h /\ held >= 5 =>
       (current = "RR_1" => LData = 0 /\ Data_read_buffer = 1)

\* What the buffer of tristate holds when it is taken.
Buffered ==
  /\ current = "RL_0" => ~occured_once
  /\ current = "RL_1" => occured_once
  /\ ~Reset_h =>
       /\ current = "RL_1" => Data_read_buffer = SRAM_ADDR
       /\ current = "RR_0" => SRAM_ADDR = After(LData)
       /\ current = "RR_1" => /\ Data_read_buffer = After(LData)
                              /\ SRAM_ADDR \in {LData, After(LData)}

\* The reader starts a pair early enough: a left word is taken before the
\* audio clock rises again, and what is due after a reset is started before
\* the audio clock falls.
InTime ==
  ~Reset_h =>
    /\ ~AUD_CLK /\ current = "RL_0" => UntilMclk > 2
    /\ ~AUD_CLK /\ current = "RL_1" => UntilMclk > 1
    /\ AUD_CLK /\ ~occured_once /\ current = "RR_0" => UntilMclk > 2
    /\ AUD_CLK /\ ~occured_once /\ current = "RR_1" => UntilMclk > 1

\* The two samples are of one pair or, between the left and the right word, of
\* two neighbours.
InSequence ==
  /\ RData \in {LData, After(LData)}
  /\ current \notin {"RR_0", "RR_1"} => RData = After(LData)
  /\ SRAM_ADDR \in {LData, After(LData)}

\* They are when the audio clock has fallen for the first time.
Warming ==
  ~Reset_h /\ ~InSequence =>
    /\ ~warm
    /\ AUD_CLK => /\ UntilPair <= UntilMclk
                  /\ current = "IDLE" => ~occured_once

\* Samples pass only then.
Guarded ==
  /\ INIT_FINISH => warm
  /\ ~Reset_h /\ music \in {"INIT_DONE", "DAC"} => INIT_FINISH
  /\ mus_RDATA \in {mus_LDATA, After(mus_LDATA)}
  /\ LRDATA[2] \in {LRDATA[1], After(LRDATA[1])}

IInv == TypeOK /\ Cleared /\ Buffered /\ InTime /\ Warming /\ Guarded
=============================================================================
