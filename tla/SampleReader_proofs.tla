------------------------ MODULE SampleReader_proofs ------------------------
(***************************************************************************)
(* Proofs about SampleReader, for every memory, every divider of eight and *)
(* more cycles and any number of resets.                                   *)
(***************************************************************************)
EXTENDS SampleReader, TLAPS

USE DEF vars, button, clocks, reader, player

-----------------------------------------------------------------------------
(* Arithmetic. *)

\* The address that follows one: the next, or the first.
LEMMA AfterWraps ==
  ASSUME NEW a \in Address
  PROVE  /\ After(a) \in Address
         /\ After(a) = IF a = Words - 1 THEN 0 ELSE a + 1
BY ReaderAssumption DEF After, Address

\* Half a period of AUD_MCLK.
LEMMA HalfPeriods ==
  HalfPeriod \in Nat /\ HalfPeriod >= 4 /\ MDiv = 2 * HalfPeriod
BY ReaderAssumption DEF HalfPeriod

\* Two neighbours are no further apart than LoadedSkew says.
LEMMA Neighbours ==
  ASSUME NEW l \in Address, NEW r \in Address, r \in {l, After(l)}
  PROVE  (r - l + Words) % Words \in {0, 1}
<1>1. CASE r = l
  <2>1. r - l + Words = Words
    BY <1>1, ReaderAssumption DEF Address
  <2> QED
    BY <2>1, ReaderAssumption
<1>2. CASE r = l + 1
  <2>1. r - l + Words = Words + 1
    BY <1>2, ReaderAssumption DEF Address
  <2>2. (Words + 1) % Words = 1
    BY ReaderAssumption
  <2> QED
    BY <2>1, <2>2
<1>3. CASE l = Words - 1 /\ r = 0
  <2>1. r - l + Words = 1
    BY <1>3, ReaderAssumption
  <2> QED
    BY <2>1, ReaderAssumption
<1> QED
  BY <1>1, <1>2, <1>3, AfterWraps

\* The cycles until AUD_MCLK rises count down, and from a period again.
LEMMA Countdown ==
  ASSUME TypeOK
  PROVE  /\ UntilMclk \in 1 .. MDiv
         /\ MclkRises <=> ~Reset_h /\ UntilMclk = 1
         /\ Divide /\ ~Reset_h /\ ~Reset_h' =>
              UntilMclk' = IF UntilMclk = 1 THEN MDiv ELSE UntilMclk - 1
         /\ Divide /\ (Reset_h \/ Reset_h') => UntilMclk' = HalfPeriod
<1> DEFINE m == mclk_count
<1>1. m \in 0 .. MDiv - 1
  BY DEF TypeOK
<1>2. UntilMclk \in 1 .. MDiv /\ (MclkRises <=> ~Reset_h /\ UntilMclk = 1)
  BY <1>1, HalfPeriods DEF UntilMclk, MclkRises, HalfPeriod
<1>3. Divide /\ ~Reset_h /\ ~Reset_h' =>
        UntilMclk' = IF UntilMclk = 1 THEN MDiv ELSE UntilMclk - 1
  <2> SUFFICES ASSUME Divide, ~Reset_h, ~Reset_h'
               PROVE  UntilMclk' = IF UntilMclk = 1 THEN MDiv ELSE UntilMclk - 1
    OBVIOUS
  <2>1. m' = (m + 1) % MDiv
    BY DEF Divide
  <2>2. m' = IF m = MDiv - 1 THEN 0 ELSE m + 1
    BY <1>1, <2>1, HalfPeriods
  <2> QED
    BY <1>1, <2>2, HalfPeriods DEF UntilMclk
<1>4. Divide /\ (Reset_h \/ Reset_h') => UntilMclk' = HalfPeriod
  BY HalfPeriods DEF Divide, UntilMclk
<1> QED
  BY <1>2, <1>3, <1>4

-----------------------------------------------------------------------------
(* The conjuncts of the invariant. *)

LEMMA InitInvariant == Init => IInv
<1> SUFFICES ASSUME Init PROVE IInv
  OBVIOUS
<1>1. 0 \in Address /\ 0 \in 0 .. CtrVal /\ 0 \in 0 .. MDiv - 1
  BY ReaderAssumption DEF Address
<1>2. TypeOK
  <2>1. {SRAM_ADDR, LData, RData, Data_read_buffer, mus_LDATA, mus_RDATA} \subseteq Address
        /\ LRDATA \in Address \X Address
    BY <1>1 DEF Init
  <2>2. held \in 0 .. MinPress /\ presses \in 0 .. MaxPresses
    BY ReaderAssumption DEF Init
  <2> QED
    BY <1>1, <2>1, <2>2 DEF Init, TypeOK, Busy
<1>3. UntilMclk \in Nat /\ UntilMclk >= 4
  BY HalfPeriods DEF Init, UntilMclk
<1>4. Cleared /\ Buffered /\ InTime /\ Warming
  <2>1. Cleared /\ Warming
    BY DEF Init, Cleared, Warming
  <2>2. Buffered
    BY DEF Init, Buffered
  <2>3. InTime
    BY <1>3 DEF Init, InTime
  <2> QED
    BY <2>1, <2>2, <2>3
<1>5. Guarded
  BY DEF Init, Guarded
<1> QED
  BY <1>2, <1>4, <1>5 DEF IInv

\* Every register keeps its range.
LEMMA TypeStep ==
  ASSUME TypeOK, Clk
  PROVE  TypeOK'
<1>1. Reset_h' \in BOOLEAN /\ held' \in 0 .. MinPress /\ presses' \in 0 .. MaxPresses
  <2>1. Reset_h' \in BOOLEAN
    BY Zenon DEF Clk, Button
  <2>2. held' \in 0 .. MinPress
    BY ReaderAssumption DEF TypeOK, Clk, Button
  <2>3. ~Reset_h /\ Reset_h' => presses < MaxPresses
    BY DEF Clk, Button
  <2>4. presses' = presses + IF ~Reset_h /\ Reset_h' THEN 1 ELSE 0
    BY DEF Clk, Button
  <2>5. presses \in 0 .. MaxPresses
    BY DEF TypeOK
  <2>6. presses' \in 0 .. MaxPresses
    BY <2>3, <2>4, <2>5, ReaderAssumption
  <2> QED
    BY <2>1, <2>2, <2>6
<1>2. mclk_count' \in 0 .. MDiv - 1
  <2>1. (mclk_count + 1) % MDiv \in 0 .. MDiv - 1
    BY HalfPeriods DEF TypeOK
  <2> QED
    BY <2>1, HalfPeriods DEF Clk, Divide
<1>3. counter' \in 0 .. CtrVal /\ AUD_CLK' \in BOOLEAN
  <2>1. counter' \in 0 .. CtrVal
    BY ReaderAssumption DEF TypeOK, Clk, Divide, CountMclk
  <2>2. AUD_CLK' \in {AUD_CLK, TRUE, FALSE}
    BY Zenon DEF Clk, Divide, CountMclk
  <2>3. AUD_CLK \in BOOLEAN
    BY DEF TypeOK
  <2> QED
    BY <2>1, <2>2, <2>3
<1>4. SRAM_ADDR' \in Address
  BY AfterWraps, ReaderAssumption DEF TypeOK, Clk, Read, NextAddress, After, Address
<1>5. LData' \in Address /\ RData' \in Address /\ Data_read_buffer' \in Address
  BY DEF TypeOK, Clk, Read
<1>6. current' \in Busy \cup {"IDLE"}
  BY DEF TypeOK, Clk, Read, NextCurrent, Busy
<1>7. occured_once' \in BOOLEAN
  BY DEF TypeOK, Clk, Read, NextOnce
<1>8. music' \in {"INIT", "INIT_WAIT", "INIT_DONE", "DAC"}
  BY DEF TypeOK, Clk, Music, NextMusic
<1>9. mus_LDATA' \in Address /\ mus_RDATA' \in Address
  BY DEF TypeOK, Clk, Music
<1>10. INIT_FINISH' \in BOOLEAN /\ warm' \in BOOLEAN
  BY Zenon DEF TypeOK, Clk, Configure
<1>11. LRDATA' \in Address \X Address
  BY ReaderAssumption DEF TypeOK, Clk, Load, Address
<1> QED
  BY <1>1, <1>2, <1>3, <1>4, <1>5, <1>6, <1>7, <1>8, <1>9, <1>10, <1>11 DEF TypeOK

\* A long reset clears the reader.
LEMMA ClearedStep ==
  ASSUME TypeOK, Cleared, Buffered, Clk
  PROVE  Cleared'
<1>1. ~Reset_h' => held' = 0
  BY DEF Clk, Button
<1>2. Reset_h' => ~warm'
  BY DEF Clk, Configure
<1>3. ~Reset_h => held' <= 1
  BY ReaderAssumption DEF Clk, Button, Cleared
<1>4. Reset_h /\ Reset_h' => held \in Nat /\ held' \in {held, held + 1}
  BY DEF TypeOK, Clk, Button
<1>5. ASSUME Reset_h, Reset_h', held' >= 2
      PROVE  /\ occured_once' => current' = "RL_1"
             /\ current' # "RR_0" => SRAM_ADDR' = 0
             /\ held' >= 3 => /\ current' = "RL_1" => Data_read_buffer' = 0
                              /\ current' = "RR_0" => SRAM_ADDR' = 1
             /\ held' >= 4 => (current' = "RR_0" => LData' = 0)
             /\ held' >= 5 =>
                  (current' = "RR_1" => LData' = 0 /\ Data_read_buffer' = 1)
  <2>1. /\ held \in Nat /\ held' \in Nat
        /\ held >= 1 /\ (held' >= 3 => held >= 2) /\ (held' >= 4 => held >= 3)
        /\ (held' >= 5 => held >= 4)
    BY <1>4, <1>5
  <2>2. /\ occured_once' => current = "RL_0"
        /\ SRAM_ADDR' = IF current = "RL_1" THEN After(SRAM_ADDR) ELSE 0
    BY <1>5 DEF Clk, Read, NextOnce, NextAddress, After
  <2>3. /\ current' = "RL_1" <=> current = "RL_0"
        /\ current' = "RR_0" <=> current = "RL_1"
        /\ current' = "RR_1" <=> current = "RR_0"
    BY DEF TypeOK, Clk, Read, NextCurrent, Busy
  <2>4. /\ Data_read_buffer' = SRAM_ADDR
        /\ LData' = IF current = "RL_1" THEN Data_read_buffer ELSE LData
    BY DEF Clk, Read
  <2>5. After(0) = 1
    BY AfterWraps, ReaderAssumption DEF Address
  <2>6. /\ held >= 2 => (current # "RR_0" => SRAM_ADDR = 0)
        /\ held >= 3 => /\ current = "RL_1" => Data_read_buffer = 0
                        /\ current = "RR_0" => SRAM_ADDR = 1
        /\ held >= 4 => (current = "RR_0" => LData = 0)
    BY <1>5 DEF Cleared
  <2> QED
    BY <2>1, <2>2, <2>3, <2>4, <2>5, <2>6
<1>6. held' \in Nat
  BY TypeStep DEF TypeOK
<1> QED
  BY <1>1, <1>2, <1>3, <1>5, <1>6 DEF Cleared

\* The state the reader goes to, and what it went there from.
LEMMA NextStates ==
  ASSUME TypeOK, Clk
  PROVE  /\ current' = "RL_0" <=> current = "IDLE" /\ AUD_CLK /\ ~occured_once
         /\ current' = "RL_1" <=> current = "RL_0"
         /\ current' = "RR_0" <=> current = "RL_1"
         /\ current' = "RR_1" <=> current = "RR_0"
         /\ current' = "IDLE" <=>
              current = "RR_1" \/ (current = "IDLE" /\ ~(AUD_CLK /\ ~occured_once))
BY DEF TypeOK, Clk, Read, NextCurrent, Busy

\* A reset ends when it has lasted long enough to clear the reader.
LEMMA ResetEnds ==
  ASSUME TypeOK, Clk, Reset_h, ~Reset_h'
  PROVE  /\ held >= 5 /\ held \in Nat
         /\ AUD_CLK' = AUD_CLK
BY ReaderAssumption DEF TypeOK, Clk, Button, Divide, MclkRises

\* The buffer is one cycle behind the address.
LEMMA BufferedStep ==
  ASSUME TypeOK, Cleared, Buffered, Clk
  PROVE  Buffered'
<1>1. /\ occured_once' <=> current = "RL_0" \/ (~Reset_h /\ AUD_CLK /\ occured_once)
      /\ SRAM_ADDR' = IF current = "RL_1" THEN After(SRAM_ADDR)
                      ELSE IF Reset_h THEN 0 ELSE SRAM_ADDR
      /\ Data_read_buffer' = SRAM_ADDR
      /\ LData' = IF current = "RL_1" THEN Data_read_buffer ELSE LData
  BY Zenon DEF Clk, Read, NextOnce, NextAddress, After
<1>2. current' = "RL_0" => ~occured_once'
  BY <1>1, NextStates
<1>3. current' = "RL_1" => occured_once'
  BY <1>1, NextStates
<1>4. ASSUME ~Reset_h'
      PROVE  /\ current' = "RL_1" => Data_read_buffer' = SRAM_ADDR'
             /\ current' = "RR_0" => SRAM_ADDR' = After(LData)'
             /\ current' = "RR_1" => /\ Data_read_buffer' = After(LData)'
                                     /\ SRAM_ADDR' \in {LData', After(LData)'}
  <2>1. After(LData)' = After(LData')
    BY DEF After
  <2>2. CASE Reset_h
    <3>1. /\ current # "RR_0" => SRAM_ADDR = 0
          /\ current = "RL_1" => Data_read_buffer = 0
          /\ current = "RR_0" => SRAM_ADDR = 1 /\ LData = 0
      BY <1>4, <2>2, ResetEnds DEF Cleared
    <3>2. After(0) = 1
      BY AfterWraps, ReaderAssumption DEF Address
    <3> QED
      BY <1>1, <2>1, <2>2, <3>1, <3>2, NextStates
  <2>3. CASE ~Reset_h
    BY <1>1, <2>1, <2>3, NextStates DEF Buffered
  <2> QED
    BY <2>2, <2>3
<1> QED
  BY <1>2, <1>3, <1>4 DEF Buffered

\* What moves the audio clock, out of a reset.
LEMMA AudioClock ==
  ASSUME TypeOK, Clk, ~Reset_h, ~Reset_h', AUD_CLK' # AUD_CLK
  PROVE  UntilMclk = 1 /\ UntilMclk' = MDiv
<1>1. MclkRises
  BY Zenon DEF Clk, Divide
<1> QED
  BY <1>1, Countdown DEF Clk

\* The reader is in time for the audio clock.
LEMMA InTimeStep ==
  ASSUME TypeOK, Cleared, Buffered, InTime, Clk
  PROVE  InTime'
<1> SUFFICES ASSUME ~Reset_h' PROVE InTime'
  BY DEF InTime
<1>1. TypeOK' /\ UntilMclk \in Nat /\ UntilMclk' \in Nat
  <2>1. mclk_count \in 0 .. MDiv - 1 /\ mclk_count' \in 0 .. MDiv - 1
    BY TypeStep DEF TypeOK
  <2>2. HalfPeriod' = HalfPeriod
    BY DEF HalfPeriod
  <2>3. UntilMclk \in Nat
    BY Countdown, HalfPeriods
  <2>4. UntilMclk' = IF mclk_count' < HalfPeriod THEN HalfPeriod - mclk_count'
                     ELSE HalfPeriod - mclk_count' + MDiv
    BY <2>2 DEF UntilMclk
  <2>5. UntilMclk' \in Nat
    BY <2>1, <2>4, HalfPeriods DEF HalfPeriod
  <2> QED
    BY <2>3, <2>5, TypeStep
<1>2. CASE Reset_h
  <2>1. UntilMclk' >= 4
    BY <1>2, Countdown, HalfPeriods DEF Clk
  <2> QED
    BY <1>1, <2>1 DEF InTime
<1>3. CASE ~Reset_h
  <2>1. CASE AUD_CLK' # AUD_CLK
    <3>1. UntilMclk' >= 8
      BY <1>3, <2>1, AudioClock, HalfPeriods
    <3> QED
      BY <1>1, <3>1 DEF InTime
  <2>2. CASE AUD_CLK' = AUD_CLK
    <3>1. UntilMclk' >= 8 \/ UntilMclk' = UntilMclk - 1
      BY <1>3, Countdown, HalfPeriods DEF Clk
    <3>2. occured_once' <=> current = "RL_0" \/ (AUD_CLK /\ occured_once)
      BY <1>3, Zenon DEF Clk, Read, NextOnce
    <3>3. ~AUD_CLK' /\ current' = "RL_0" => FALSE
      BY <2>2, NextStates
    <3>4. ~AUD_CLK' /\ current' = "RL_1" => UntilMclk' > 1
      BY <1>1, <1>3, <2>2, <3>1, NextStates DEF InTime
    <3>5. AUD_CLK' /\ ~occured_once' /\ current' = "RR_0" => FALSE
      BY <2>2, <3>2, NextStates DEF Buffered
    <3>6. AUD_CLK' /\ ~occured_once' /\ current' = "RR_1" => UntilMclk' > 1
      BY <1>1, <1>3, <2>2, <3>1, <3>2, NextStates DEF InTime
    <3> QED
      BY <3>3, <3>4, <3>5, <3>6 DEF InTime
  <2> QED
    BY <2>1, <2>2
<1> QED
  BY <1>2, <1>3

\* Two samples taken one after the other stay neighbours.
LEMMA SequenceKept ==
  ASSUME TypeOK, Buffered, InSequence, Clk, ~Reset_h
  PROVE  InSequence'
<1>1. /\ SRAM_ADDR' = IF current = "RL_1" THEN After(SRAM_ADDR) ELSE SRAM_ADDR
      /\ LData' = IF current = "RL_1" THEN Data_read_buffer ELSE LData
      /\ RData' = IF current = "RR_1" THEN Data_read_buffer ELSE RData
      /\ After(LData)' = After(LData')
  BY Zenon DEF Clk, Read, NextAddress, After
<1>2. CASE current = "RL_1"
  <2>1. Data_read_buffer = SRAM_ADDR /\ RData = After(LData)
    BY <1>2 DEF Buffered, InSequence
  <2> QED
    BY <1>1, <1>2, <2>1, NextStates DEF InSequence
<1>3. CASE current = "RR_1"
  BY <1>1, <1>3 DEF Buffered, InSequence
<1>4. CASE current \notin {"RL_1", "RR_1"}
  BY <1>1, <1>4, NextStates DEF InSequence
<1> QED
  BY <1>2, <1>3, <1>4

\* A pair that ends without a reset is one.
LEMMA PairEnds ==
  ASSUME TypeOK, Cleared, Buffered, Clk, ~Reset_h', current = "RR_1"
  PROVE  InSequence'
<1>1. /\ SRAM_ADDR' = IF Reset_h THEN 0 ELSE SRAM_ADDR
      /\ LData' = LData /\ RData' = Data_read_buffer
      /\ After(LData)' = After(LData')
  BY Zenon DEF Clk, Read, NextAddress, After
<1>2. /\ Data_read_buffer = After(LData)
      /\ SRAM_ADDR' \in {LData, After(LData)}
  <2>1. CASE Reset_h
    <3>1. LData = 0 /\ Data_read_buffer = 1
      BY <2>1, ResetEnds DEF Cleared
    <3>2. After(0) = 1
      BY AfterWraps, ReaderAssumption DEF Address
    <3> QED
      BY <1>1, <2>1, <3>1, <3>2
  <2>2. CASE ~Reset_h
    BY <1>1, <2>2 DEF Buffered
  <2> QED
    BY <2>1, <2>2
<1> QED
  BY <1>1, <1>2 DEF InSequence

\* What is left of a pair.
LEMMA PairGoesOn ==
  ASSUME TypeOK
  PROVE  /\ UntilPair \in 1 .. 5 /\ (UntilPair = 1 <=> current = "RR_1")
         /\ UntilPair = 5 <=> current = "IDLE"
         /\ Clk /\ current # "RR_1" /\ (current = "IDLE" => current' = "RL_0")
              => UntilPair' = UntilPair - 1
<1>1. /\ current = "IDLE" => UntilPair = 5
      /\ current = "RL_0" => UntilPair = 4
      /\ current = "RL_1" => UntilPair = 3
      /\ current = "RR_0" => UntilPair = 2
      /\ current = "RR_1" => UntilPair = 1
  BY DEF UntilPair
<1>2. /\ current' = "RL_0" => UntilPair' = 4
      /\ current' = "RL_1" => UntilPair' = 3
      /\ current' = "RR_0" => UntilPair' = 2
      /\ current' = "RR_1" => UntilPair' = 1
  BY DEF UntilPair
<1>3. current \in {"IDLE", "RL_0", "RL_1", "RR_0", "RR_1"}
  BY DEF TypeOK, Busy
<1> QED
  BY <1>1, <1>2, <1>3, NextStates

\* No audio clock has passed before the samples are in sequence.
LEMMA WarmingStep ==
  ASSUME TypeOK, Cleared, Buffered, Warming, Clk
  PROVE  Warming'
<1> SUFFICES ASSUME ~Reset_h', ~InSequence' PROVE Warming'
  BY DEF Warming
<1>0. current # "RR_1"
  BY PairEnds
<1>1. TypeOK' /\ UntilMclk \in 1 .. MDiv /\ UntilPair \in 1 .. 5 /\ UntilPair' \in 1 .. 5
  <2>1. TypeOK'
    BY TypeStep
  <2>2. current' \in {"IDLE", "RL_0", "RL_1", "RR_0", "RR_1"}
    BY <2>1 DEF TypeOK, Busy
  <2>3. UntilPair' \in 1 .. 5
    BY <2>2 DEF UntilPair
  <2> QED
    BY <2>1, <2>3, Countdown, PairGoesOn
<1>2. occured_once' <=> current = "RL_0" \/ (~Reset_h /\ AUD_CLK /\ occured_once)
  BY Zenon DEF Clk, Read, NextOnce
<1>3. warm' <=> warm \/ (AUD_CLK /\ ~AUD_CLK')
  BY Zenon DEF Clk, Configure
<1>4. CASE Reset_h
  <2>1. ~warm'
    BY <1>3, <1>4, ResetEnds DEF Cleared
  <2>2. AUD_CLK' => current' # "IDLE"
    <3>1. occured_once => current = "RL_1"
      BY <1>4, ResetEnds DEF Cleared
    <3> QED
      BY <1>0, <1>4, <3>1, NextStates, ResetEnds
  <2>3. UntilMclk' >= 4 /\ UntilMclk' \in Nat
    BY <1>4, Countdown, HalfPeriods DEF Clk
  <2>4. AUD_CLK' => UntilPair' <= 4
    <3>1. current' # "IDLE" => UntilPair' \in 1 .. 4
      BY <1>1 DEF TypeOK, Busy, UntilPair
    <3> QED
      BY <2>2, <3>1
  <2> QED
    BY <1>1, <2>1, <2>2, <2>3, <2>4 DEF Warming
<1>5. CASE ~Reset_h
  <2>1. ~InSequence
    BY <1>5, SequenceKept
  <2>2. /\ ~warm
        /\ AUD_CLK => /\ UntilPair <= UntilMclk
                      /\ current = "IDLE" => ~occured_once
    BY <1>5, <2>1 DEF Warming
  <2>3. UntilPair > 1
    BY <1>0, <1>1, PairGoesOn
  <2>4. ~(AUD_CLK /\ UntilMclk = 1)
    BY <1>1, <2>2, <2>3
  <2>5. ~warm'
    BY <1>3, <1>5, <2>2, <2>4, AudioClock
  <2>6. CASE AUD_CLK
    <3>1. UntilMclk' = UntilMclk - 1
      BY <1>5, <2>4, <2>6, Countdown DEF Clk
    <3>2. UntilPair' = UntilPair - 1 /\ current' # "IDLE"
      BY <1>0, <2>2, <2>6, PairGoesOn, NextStates
    <3>3. UntilPair' <= UntilMclk'
      BY <1>1, <2>2, <2>6, <3>1, <3>2
    <3> QED
      BY <2>5, <3>2, <3>3 DEF Warming
  <2>7. CASE ~AUD_CLK
    <3>0. AUD_CLK' => UntilMclk' = MDiv
      BY <1>5, <2>7, AudioClock, Zenon
    <3>1. AUD_CLK' => UntilMclk' = MDiv /\ MDiv >= 8 /\ MDiv \in Nat
      BY <3>0, HalfPeriods
    <3>2. AUD_CLK' => UntilPair' <= UntilMclk'
      BY <1>1, <3>1
    <3>3. current' = "IDLE" => ~occured_once'
      BY <1>2, <2>7, NextStates
    <3> QED
      BY <2>5, <3>2, <3>3 DEF Warming
  <2> QED
    BY <2>6, <2>7
<1> QED
  BY <1>4, <1>5

\* Samples go to the codec when it is configured, in sequence.
LEMMA GuardedStep ==
  ASSUME TypeOK, Cleared, Buffered, Warming, Guarded, Clk
  PROVE  Guarded'
<1>1. INIT_FINISH' => warm'
  BY Zenon DEF Clk, Configure, Guarded
<1>2. ~Reset_h' /\ music' \in {"INIT_DONE", "DAC"} => INIT_FINISH'
  <2> SUFFICES ASSUME ~Reset_h', music' \in {"INIT_DONE", "DAC"} PROVE INIT_FINISH'
    OBVIOUS
  <2>1. ~Reset_h
    BY DEF Clk, Music
  <2>2. INIT_FINISH
    BY <2>1 DEF TypeOK, Clk, Music, NextMusic, Guarded
  <2> QED
    BY <2>2, Zenon DEF Clk, Configure, Guarded
<1>3. mus_RDATA' \in {mus_LDATA', After(mus_LDATA')}
  <2>1. CASE music = "DAC" /\ ~Reset_h
    <3>1. InSequence
      BY <2>1 DEF Guarded, Warming
    <3> QED
      BY <2>1, <3>1 DEF Clk, Music, InSequence
  <2>2. CASE ~(music = "DAC" /\ ~Reset_h)
    BY <2>2 DEF Clk, Music, Guarded
  <2> QED
    BY <2>1, <2>2
<1>4. LRDATA'[2] \in {LRDATA'[1], After(LRDATA'[1])}
  BY DEF Clk, Load, Guarded
<1>5. After(mus_LDATA)' = After(mus_LDATA') /\ After(LRDATA[1])' = After(LRDATA'[1])
  BY DEF After
<1> QED
  BY <1>1, <1>2, <1>3, <1>4, <1>5 DEF Guarded

LEMMA StepInvariant == IInv /\ [Next]_vars => IInv'
<1> SUFFICES ASSUME IInv, [Next]_vars PROVE IInv'
  OBVIOUS
<1>1. CASE Clk
  BY <1>1, TypeStep, ClearedStep, BufferedStep, InTimeStep, WarmingStep, GuardedStep
  DEF IInv
<1>2. CASE UNCHANGED vars
  <2>1. UntilMclk' = UntilMclk /\ UntilPair' = UntilPair
    BY <1>2 DEF UntilMclk, UntilPair, HalfPeriod
  <2>2. TypeOK' /\ Cleared' /\ Buffered'
    BY <1>2 DEF IInv, TypeOK, Cleared, Buffered, After
  <2>3. InSequence' = InSequence
    BY <1>2 DEF InSequence, After
  <2>4. InTime' /\ Warming'
    BY <1>2, <2>1, <2>3 DEF IInv, InTime, Warming
  <2>5. Guarded'
    BY <1>2 DEF IInv, Guarded, After
  <2> QED
    BY <2>2, <2>4, <2>5 DEF IInv
<1> QED
  BY <1>1, <1>2 DEF Next

-----------------------------------------------------------------------------
(* Theorems. *)

\* The inductive invariant.
THEOREM SpecInvariant == Spec => []IInv
BY InitInvariant, StepInvariant, PTL DEF Spec

\* No counter or address of the sample path leaves its range.
THEOREM TypeCorrect == Spec => []TypeOK
<1>1. IInv => TypeOK
  BY DEF IInv
<1> QED
  BY <1>1, SpecInvariant, PTL

\* The serializer never loads two words further than one apart.
THEOREM SkewBounded == Spec => []LoadedSkew
<1>1. IInv => LoadedSkew
  <2> SUFFICES ASSUME IInv PROVE LoadedSkew
    OBVIOUS
  <2>1. /\ LRDATA[1] \in Address /\ LRDATA[2] \in Address
        /\ LRDATA[2] \in {LRDATA[1], After(LRDATA[1])}
    BY DEF IInv, TypeOK, Guarded
  <2> QED
    BY <2>1, Neighbours DEF LoadedSkew
<1> QED
  BY <1>1, SpecInvariant, PTL

\* Samples change only when the codec is configured.
THEOREM SilentBefore == Spec => SamplesAfterInit
<1>1. IInv /\ [Next]_vars =>
        [<<mus_LDATA, mus_RDATA>>' # <<mus_LDATA, mus_RDATA>> => INIT_FINISH]_vars
  BY DEF IInv, Guarded, Next, Clk, Music
<1> QED
  BY <1>1, SpecInvariant, PTL DEF Spec, SamplesAfterInit

\* How a cycle out of a reset looks from outside.
LEMMA PlayStep ==
  ASSUME IInv, Clk, ~Reset_h, ~Reset_h'
  PROVE  Stream!Play \/ UNCHANGED Stream!stream
<1> DEFINE Due == current \in {"RL_0", "RL_1"} \/ (AUD_CLK /\ ~occured_once)
           Pair == <<LData, IF current \in {"RR_0", "RR_1"}
                            THEN (LData + 1) % Words ELSE RData>>
<1>1. /\ TypeOK /\ Buffered /\ InTime
      /\ AUD_CLK' # AUD_CLK => UntilMclk = 1
  BY AudioClock DEF IInv
<1>2. /\ occured_once' <=> current = "RL_0" \/ (AUD_CLK /\ occured_once)
      /\ SRAM_ADDR' = IF current = "RL_1" THEN After(SRAM_ADDR) ELSE SRAM_ADDR
      /\ LData' = IF current = "RL_1" THEN Data_read_buffer ELSE LData
      /\ RData' = IF current = "RR_1" THEN Data_read_buffer ELSE RData
      /\ After(LData) = (LData + 1) % Words /\ After(SRAM_ADDR) = (SRAM_ADDR + 1) % Words
      /\ After(LData)' = (LData' + 1) % Words
  BY Zenon DEF Clk, Read, NextOnce, NextAddress, After
<1>3. AUD_CLK \in BOOLEAN /\ AUD_CLK' \in BOOLEAN
  BY <1>1, TypeStep DEF TypeOK
<1>4. CASE current = "RL_1"
  <2>1. ~AUD_CLK => ~AUD_CLK'
    BY <1>1, <1>3, <1>4 DEF InTime
  <2>2. occured_once /\ Data_read_buffer = SRAM_ADDR
    BY <1>1, <1>4 DEF Buffered
  <2>3. current' = "RR_0"
    BY <1>1, <1>4, NextStates
  <2>4. ~Due'
    BY <1>2, <1>4, <2>1, <2>2, <2>3
  <2>5. Pair' = <<SRAM_ADDR, After(SRAM_ADDR)>>
    BY <1>2, <1>4, <2>2, <2>3
  <2>6. SRAM_ADDR' = After(SRAM_ADDR)
    BY <1>2, <1>4
  <2> QED
    BY <1>2, <1>3, <1>4, <2>1, <2>4, <2>5, <2>6
    DEF Stream!Play, Stream!Take, Stream!After
<1>5. CASE current # "RL_1"
  <2>1. SRAM_ADDR' = SRAM_ADDR
    BY <1>2, <1>5
  <2>2. Pair' = Pair
    <3>1. CASE current = "RR_1"
      BY <1>1, <1>2, <3>1, NextStates DEF Buffered
    <3>2. CASE current # "RR_1"
      BY <1>1, <1>2, <1>5, <3>2, NextStates
    <3> QED
      BY <3>1, <3>2
  <2>3. CASE AUD_CLK' /\ ~AUD_CLK
    <3>1. UntilMclk = 1
      BY <1>1, <2>3
    <3>2. current # "RL_0"
      BY <1>1, <2>3, <3>1 DEF InTime
    <3>3. ~Due /\ Due'
      BY <1>2, <1>5, <2>3, <3>2
    <3> QED
      BY <1>3, <2>1, <2>2, <2>3, <3>3 DEF Stream!Play, Stream!Rise
  <2>4. CASE ~AUD_CLK' /\ AUD_CLK
    <3>1. UntilMclk = 1
      BY <1>1, <2>4
    <3>2. occured_once \/ current \notin {"RR_0", "RR_1"}
      BY <1>1, <2>4, <3>1 DEF InTime
    <3>3. current \in {"IDLE", "RL_0", "RR_0", "RR_1"}
      BY <1>1, <1>5 DEF TypeOK, Busy
    <3>4. Due' = Due
      BY <1>1, <1>2, <2>4, <3>2, <3>3, NextStates DEF Buffered
    <3> QED
      BY <1>3, <2>1, <2>2, <2>4, <3>4 DEF Stream!Play, Stream!Fall
  <2>5. CASE AUD_CLK' = AUD_CLK
    <3>1. current \in {"IDLE", "RL_0", "RR_0", "RR_1"}
      BY <1>1, <1>5 DEF TypeOK, Busy
    <3>2. Due' = Due
      BY <1>1, <1>2, <1>5, <2>5, <3>1, NextStates DEF Buffered
    <3>3. Reset_h' = Reset_h
      BY TypeStep, <1>1 DEF TypeOK
    <3> QED
      BY <2>1, <2>2, <2>5, <3>2, <3>3 DEF Stream!stream
  <2> QED
    BY <1>3, <2>3, <2>4, <2>5
<1> QED
  BY <1>4, <1>5

\* A reset makes the reader start over.
LEMMA ResumeStep ==
  ASSUME IInv, Clk, Reset_h, ~Reset_h'
  PROVE  Stream!Resume
<1>1. TypeOK /\ Cleared
  BY DEF IInv
<1>2. current # "RR_0" => SRAM_ADDR = 0
  BY <1>1, ResetEnds DEF Cleared
<1>3. SRAM_ADDR' = IF current = "RL_1" THEN (SRAM_ADDR + 1) % Words ELSE 0
  BY DEF Clk, Read, NextAddress
<1> QED
  BY <1>2, <1>3 DEF Stream!Resume, Stream!After

\* The reader implements SampleStream: one pair for each audio clock, in
\* sequence, with nothing skipped or taken twice.
THEOREM IsStream == Spec => StreamSpec
<1>1. Init => Stream!Init
  BY DEF Init, Stream!Init
<1>2. IInv /\ [Next]_vars => [Stream!Next]_Stream!stream
  <2> SUFFICES ASSUME IInv, [Next]_vars
               PROVE  Stream!Next \/ UNCHANGED Stream!stream
    OBVIOUS
  <2>1. CASE Clk /\ ~Reset_h /\ ~Reset_h'
    BY <2>1, PlayStep DEF Stream!Next
  <2>2. CASE Clk /\ ~Reset_h /\ Reset_h'
    BY <2>2 DEF Stream!Next, Stream!GoDown
  <2>3. CASE Clk /\ Reset_h /\ Reset_h'
    BY <2>3 DEF Stream!Next, Stream!WhileDown
  <2>4. CASE Clk /\ Reset_h /\ ~Reset_h'
    BY <2>4, ResumeStep DEF Stream!Next
  <2>5. CASE UNCHANGED vars
    BY <2>5 DEF Stream!stream
  <2> QED
    BY <2>1, <2>2, <2>3, <2>4, <2>5 DEF Next
<1> QED
  BY <1>1, <1>2, SpecInvariant, PTL DEF Spec, StreamSpec, Stream!Spec
=============================================================================
