# GuitarZero: specification, model checking and proofs

GuitarZero is a guitar game on an Altera DE2-115 board. Notes (sprites) fall
down the screen in five lanes; two players take turns on a USB keyboard and
earn a point for every note whose key they press while it is in the band near
the bottom. Most of the program is SystemVerilog and VHDL running at 50 MHz in
one FPGA; a C program on a NIOS II soft processor drives the USB host chip
(Cypress CY7C67200) and hands the keycode to the hardware through a PIO.

## 1. Inventory

| component | sources | state | operations | interacts with |
|---|---|---|---|---|
| top level | `toplevel.sv` | `Reset_h` | synchronise KEY[0], wire everything | all |
| sprites | `sprites_{red,green,yellow,blue,orange}.sv` (one text, five X positions) | row, motion, edge detector of VGA_VS | fall one step per frame, land, start when activated, reset | VGA controller (frame edge), RNG2 (activation), scoring and color mapper (row) |
| scoring | `scoring.sv` | two 8-bit scores, a `score_counted` bit per lane | award, clear the bit below the band, reset | sprites, keycode PIO, player |
| player switch | `note_modules.sv` `player`, `ctr_player` in `toplevel.sv` | `player_flag`, a counter | toggle every 31 ticks, reset | clock tree, scoring |
| random generator | `note_modules.sv` `RNG2` | 13-bit LFSR, five one-hot `*_activate` registers | shift at 50 MHz, sample at `clk_one_sec` | sprites |
| clock tree | `audio_interface.vhd` `I2C_Count`, `music_modules.sv` `counter` | 10-bit divider, three counters | divide by 8 (MCLK) and 1024 (I2C), count MCLK | RNG2, player, sample reader |
| codec configuration | `audio_interface.vhd` | I2C state machine, bit and word counters | start, 8 address bits, ack, 8+8 data bits, acks, next word, stop | WM8731 codec (external) |
| codec serializer | `audio_interface.vhd` `DACData_reg` | 32-bit sample register, bit counter | load on LRCK, shift on BCLK | codec, sample reader |
| sample reader | `music_modules.sv` `sram_reader`, `music_statemachine.sv` | FSM, 20-bit address, left and right sample, `occured_once` | read a stereo pair per audio clock | SRAM through `tristate.sv`, serializer |
| music FSM | `music_statemachine.sv` | 7-state FSM | wait for codec initialisation, then play | codec configuration, reader |
| video timing | `VGA_controller.sv` | counters, HS, VS, BLANK_N | scan | sprites, color mapper |
| color mapper | `Color_Mapper.sv`, `ram_*.sv` | none (RAM output registers) | pick the pixel | sprites, VGA |
| HPI bridge | `hpi_io_intf.sv`, `software/usb_kb/io_handler.c` | registered HPI pins | read and write a chip register | CY7C67200 (external) |
| USB keyboard driver | `software/usb_kb/main.c`, `usb.c` | program counter, toggle bit, keycode, chip registers and mailboxes | enumerate in nine steps, poll, detect removal | CY7C67200 and keyboard (external), keycode PIO |
| console | `software/usb_kb_bsp/drivers/src/altera_avalon_jtag_uart_*.c`, the interrupt path of the HAL, `finalproj_soc_jtag_uart_0.v` | two rings of 2048 bytes, the interrupt mask and its copy, the core's two FIFOs of 64, the processor's PIE and ienable | write, read, close, the interrupt routine, start of the program | the program (`printf`), the host behind the JTAG cable |
| hex display | `HexDriver.sv` | none | decode a digit | scores |

### What is hard here

The design has one fast clock, `Clk` (50 MHz), and everything difficult comes
from what is not on it: clocks made by dividing it and used as clocks
(`clk_one_sec`, `p_clock`, `AUD_CLK`), clocks that come from outside (the
codec's `AUD_BCLK` and `AUD_DACLRCK`), a processor that takes tens of cycles per
port access and takes interrupts in between, a USB chip with a processor and a
BIOS of its own, a console core that keeps its state when the program is loaded
again, and a reset
button that reaches some registers synchronously, some asynchronously, some only
while their clock is running, and the NIOS II not at all.

| component | what makes it correct |
|---|---|
| game core | a note is worth one point at most, to the player who holds the guitar; no point is lost when lanes meet; a note that is hit is paid; turns end; notes leave the screen |
| USB driver | a request is left behind only when the keyboard has taken it; done means executed; a request that failed is sent again (it is not); a keyboard that stays plugged in is polled for ever |
| HPI access | the strobes set one by one amount to reads and writes of the chip's memory; two drivers never meet on the bus |
| codec configuration | the nine words arrive once each, in order, whole; the end is reported after the last one; the wires obey I2C |
| serializer | each frame carries one word, whole |
| sample reader | one pair per audio clock, in sequence, none before the codec is ready; the music never stops |
| note source | the register never sticks; every lane is served |
| console | no byte is lost, repeated or overtaken in either direction; no interrupt comes without a handler; none that is needed stays off; calls return |
| video | the pixel shown is the one the beam is at; no sync pulse in the picture; sprites move unseen; frames go on |

## 2. Modules

| module | models | abstracts |
|---|---|---|
| `GuitarGame` | sprites, `scoring`, `player`, `ctr_player` | a frame edge is any rise of VGA_VS, a keycode any of a set, the generator any lane or none |
| `ScoreBoard` | what the game promises its players | everything but open notes, scores and who holds the guitar |
| `GuitarGame_proofs` | theorems about `GuitarGame`, and about `NoteSource`, where its notes come from | |
| `UsbKeyboard` | `main.c`, `usb.c`; chip, BIOS and keyboard external | a TD list is the number of its request |
| `HpiBus` | `io_handler.c`, `hpi_io_intf.sv`, the accesses of `usb.c`; chip external | a word is one of `Size` values, so is an address |
| `UsbKeyboard_proofs` | theorems about `UsbKeyboard` | |
| `HpiMemory` | what the driver counts on: a memory | strobes, cycles |
| `HpiBus_proofs` | theorems about `HpiBus`, with the refinement of `HpiMemory` | |
| `AudioConfig` | the I2C half of `audio_interface.vhd`; codec external | a state of a frame is a byte and a bit number |
| `CodecSetup` | what the configuration promises: the words one by one, the end once | frames, bits, clocks |
| `AudioConfig_proofs` | theorems about `AudioConfig`, with the refinement of `CodecSetup` | |
| `DacSerializer` | the sample half of `audio_interface.vhd`; codec external | a bit is the name of its word and its index |
| `DacSerializer_proofs` | theorems about `DacSerializer` | |
| `SampleReader` | `sram_reader`, `counter`, `tristate`, `music_statemachine` | a word of the SRAM is its address |
| `SampleStream` | what the reader promises: pairs in sequence | the reader's five states |
| `SampleReader_proofs` | theorems about `SampleReader`, with the refinement of `SampleStream` | |
| `NoteRegister` | the taps and the shift of `RNG2` | nothing: the register has its 13 bits |
| `NoteSource` | `RNG2` and its tick, on `NoteRegister` | as above |
| `VideoTiming` | `VGA_controller`, one sprite, the lookup of `color_mapper`, a `frameRAM` | an image pixel is its address |
| `VideoTiming_proofs` | theorems about `VideoTiming` | |
| `JtagUart` | the driver of the console, its interrupt from `alt_exception_entry.S` to the routine, the core; the host external | a byte is its position in its stream |
| `Pipe` | what a console promises, once per direction | rings, FIFOs, interrupts |
| `JtagUart_proofs` | theorems about `JtagUart` | |
| `MCGuitarGame`, `MCAudioConfig`, `MCUsbKeyboard` | instances for TLC | |

In the hardware modules an action `Clk` (or `Edge`) is one rising edge of the
50 MHz clock and every primed variable is computed from the registers before it,
as non-blocking assignments are. A combinational block is an operator without
primes (`SpriteYIn`, `NextCurrent`, `NextState`), named like the `_in` or `next`
signal it computes. Combinational wires that several registers read are
operators too (`is_sprite`, `SDAT`, `AUD_DACDAT`). The priority of an
`if ... else if` chain, or of a later assignment over an earlier one, is kept:
the reset branches of `sram_reader` are overridden by the assignments below
them, the reset branch of `scoring` leaves `score_counted_*` alone. In
`UsbKeyboard` an action is one access to a register that the chip also writes;
the instructions between two such accesses are invisible to the chip. In
`JtagUart` an action is what happens between two accesses to state the interrupt
routine shares with the calls: one index read or written, one byte copied, one
access to the core. The routine preempts a call between any two of them, and the
processor takes the exception only where PIE is set.

How the modules meet. Each takes the others as an environment that does more
than they do, and the assumption is named:

- `GuitarGame` takes VGA_VS to be any Boolean at each edge; its liveness needs
  VGA_VS to rise and fall for ever while the reset is off, which is
  `FramesGoOn` of `VideoTiming`. Its `Tick(lanes)` takes any lane; `NoteSource`
  says which.
- `SampleReader` takes INIT_FINISH to come some time after the reset; that it
  comes is `Configured` of `AudioConfig`, and that an audio clock has passed by
  then is its length, 261 periods of 1024 cycles against 576.
- `DacSerializer` takes any word at any cycle, and `SampleReader` a load at any
  cycle; together they say that a frame carries one whole word whose two halves
  are at most one address apart.
- `UsbKeyboard` takes an access to the chip to be atomic: `MemorySpec` of
  `HpiBus` is the statement that it may, while no reset falls into it.

- `JtagUart` starts over whatever the program before left in the core: any bytes
  in the FIFOs, any interrupts on, since loading a program resets nothing of it:
  in `finalproj_soc.v` the processor and the core share one reset controller, and
  the debugger's reset request goes to the other two. The driver's own variables are initialised data and start afresh.
  `main.c` only prints, so the console and `UsbKeyboard` share no state; a blocked
  `printf` delays the driver as any instruction may.

`KEY[0]` resets everything but the processor. Each hardware module has it, at
any cycle, up to a bound. `AUD_MCLK` stands still during a reset, so the
counters that run on it (`clk_one_sec`, `ctr_player`, the audio clock) keep
their values: their synchronous reset branches can only be reached through the
pulse that the reset cuts short, and `SampleReader` lets that pulse clock the
counter or not and see the reset or not.

Power-up values are those Quartus gives: 0 everywhere, except where the
initial value is written in the source or (`random`) where the register is
stored inverted because its reset is to 1; where the encoding of a state is the
synthesizer's choice (`current` of `sram_reader`) both outcomes are initial
states.

### External parts

The CY7C67200 with its BIOS, the keyboard, the WM8731, the SRAM, the video
converter and the host behind the JTAG cable are not in the repository. They are modelled from what the code
relies on: the chip executes the list when its pointer is written, leaves 0x03 in the
control word of a TD that is done cleanly and another word when it failed or took
retries, goes through the list in either case and posts one message in
HPI_SIE1_MSG at its end; whether it does so for the data at 0x0576, which is no
TD, is left open; a read of the register clears its flag; the BIOS may overwrite the
message when the keyboard is moved; the host port takes a word at the end of a
write cycle and moves its address on after a data access; the codec decodes I2C
as any slave and takes a bit on each rising BCLK.

## 3. Runs

| run | question | bounds |
|---|---|---|
| `game_two_lanes` | the game's safety properties, its refinement of `ScoreBoard`, and that notes leave the screen, with lanes that interfere | two lanes, rows to 11 in steps of 3 with a band from 2 to 8 (479, 410 and 440 leave the same remainders by 3), scores modulo 2, turns of two ticks, resets and keys without bound |
| `game_reset` | does the scoring block start afresh after a reset? It does not: finding | one lane, small screen |
| `usb_enumeration` | is a request left behind that the keyboard has not taken or the chip has not executed, and does a keyboard that stays get polled? | all nine requests, lists that end within the sleep (`SleepEnough`), failures, retries and restarts without bound, the stray TD after the fifth request, two more looks, two moves of the keyboard |
| `usb_done_message` | does "done!" mean done? Not when a list outlasts the sleep: finding | nine requests, no `SleepEnough` |
| `usb_never_resent` | is a request that failed sent again? Not from step 4 on: finding | nine requests, a keyboard that stays |
| `hpi_memory` | strobes against `HpiMemory` | two addresses, two values, calls of one and two words, pauses of 4 cycles or more, one reset |
| `audio_config` | I2C against the ROMs, and `CodecSetup` | the real ROMs, 16 cycles per serial clock, one reset |
| `dac_frames` | one word per frame | words of 4 bits, frames of 6 slots, half periods of 4 or 5 cycles, one reset |
| `sample_stream` | pairs in sequence, and for ever | 4 words of memory, an audio clock of 3 MCLK periods of 8 cycles, two resets of 5 cycles or more |
| `note_source` | the register and the lanes | the real register, a tick every 3 cycles, one reset |
| `console` | the two pipes, the interrupts, and that calls return | rings of 3, FIFOs of 2 with a margin of 1, calls of two bytes, three bytes each way |
| `video_timing` | the picture | a 10 by 9 screen, a 2 by 2 sprite, steps of 2 rows, two resets |

Why the bounds are enough:

- Game. The code has one block per lane and no term in three lanes, so two
  lanes show every interference. The rows keep what matters of the real ones, the
remainders by the step: a note enters and leaves the band as it does on the
screen. A second reset finds the registers as the first
  did and is unbounded anyway. Scores modulo 2 suffice because only differences
  are looked at. The theorems remove all of
  these bounds.
- USB. The requests are the nine of the code. Two moves take the keyboard out and
  in again, or in and out, within one request, between two or in the looks after
  a poll. Two more looks (five and seven in the code) have a first, a last and one
  too many. The theorems remove these bounds, and the run needs none for failures,
  stale messages and restarts.
- HPI. With two addresses and two values a word at the wrong place or an old one
  is told apart from the right one; two data words make the address move on.
  `Gap` 4 with `Access` 1 is the tightest that `BusAssumption` allows; the NIOS II/e
  takes more.
- I2C. Three cycles is the delay of the sampler; 16 cycles per period leave the
  halves longer than that, as 1024 do. The word counter and the bits are not
  shortened. The theorems hold for every even period from 8 on, every ROM and any
  number of resets.
- Serializer. Three or four cycles pass from the frame clock to the load, and
  half a period of four cycles is the shortest that works, so longer ones add
  slack. The codec makes its bit clock from AUD_MCLK, whose own half period is
  four cycles of `Clk`. More slots than bits make the count run below 0. The
  theorem removes all of these bounds.
- Reader. A pair takes 5 cycles, the audio clock is high for 8 and low for 16
  (real: 8 and 568); four words let the address come round while the skew of a
  frame still shows.
- Note source. Nothing is shortened but the tick: the register's cycle of 8191
  states is prime, and the real period, 25 000 008 cycles, is not a multiple of
  it, so ticks sample every state of the cycle, as those of period 3 do.
- Console. Three bytes through rings of three entries (two usable) and FIFOs of
  two wrap every index, fill and empty every queue, and make the writer cut a call
  at the end of the array; a margin of one keeps "nearly empty" apart from
  "empty". The theorems remove the bounds.
- Video. The order of the borders, the widths against the two-cycle delay, and
  the ratio of the step to the height are what the properties depend on; the
  theorems remove the bound.

### Fairness

`WF(Clk)` is the oscillator. The button is not held for ever (`WF` or, where its
release is possible only every other cycle, `SF` of the release). In
`GuitarGame` VGA_VS is high and low at infinitely many edges while there is no
reset, which `FramesGoOn` justifies. `Finish` of `SampleReader` is
`Configured` of `AudioConfig`. In `UsbKeyboard` the processor runs, and the chip
executes the list it was given and answers its mailbox; the first TD need not
succeed, and nobody has to plug in a keyboard. No fairness is claimed for lost
messages, so `KeepsPolling` speaks of a keyboard that is there from the start and
stays. In `JtagUart` the program and the routine run, and the
host's console is open: it takes what it is sent and pulses `t_pause` when it
has no more to send. Without that host a blocking write waits for ever, because
the driver's way out, `host_inactive`, is set by an alarm that needs a system
clock (`system.h:188`: there is none). Nobody has to type.

Deadlock is checked except in the runs of `UsbKeyboard`, where without a keyboard
the driver waits at the insertion loop and with a message lost in a loop that
has no timeout, and of `JtagUart`, where the bytes of the run are used up.

### Assumptions worth knowing

- `SleepEnough`: a list ends within the 10 ms the driver sleeps after a resend,
  and that of GetConfigDesc2 within the 100 ms after it is first sent
  (`main.c:298`). The lists have from two transfers (SetConfig, ClassRequest) to
  seven (`UsbGetConfigDesc2`) and ten (`UsbGetReportDesc`); how many the chip fits
  into a frame of 1 ms, and how often the keyboard makes it wait, is not in the
  repository, and nothing in the code enforces it. `usb_enumeration`,
  `usb_never_resent` and the theorems `SetupNeverSkipped` and `DoneIsExecuted` have
  it; `usb_done_message` has not, and there both properties fail.
- `MinPress`: the button is down for 5 cycles of `Clk`, 100 ns. In `VideoTiming` it
  goes down at any edge of `Clk` and is held until a pixel clock has seen it.
- PIE is off when the program starts (`Init` of `JtagUart`). `crt0.S` does not clear
  it and the program's loading does not reset the processor, so after a program
  that had turned it on this rests on the debugger.
- `BusAssumption`: consecutive port accesses of the NIOS II/e are `Access + 3`
  cycles apart at least.
- `NoteSource!late`: the tick meets the shift register always on the same side of
  the shift, as a fixed placement does.

## 4. Findings

- `EveryHitIsScored` (`scoring.sv:14`). The reset of the scoring block clears the
  scores but not `score_counted_*`. If a lane is counted when the button is
  pressed its next note passes the band with the right key down and earns
  nothing. `HitIsScored` is the property the code does have.
- `DoneMeansExecuted` (`main.c:208`). The driver resends a list that is merely
  unfinished. If the chip finishes in between, the completion of the repeated
  list is taken for that of the next request, and "done!" is announced for a
  request that has not run. The control word at 0x0508 does not help: the resend
  has made it active again, the first execution sets it to 0x03, and the driver
  goes on with the repeated list still to be executed. The chip then begins that
  list, the driver writes the next one over it, the old TD sets the new control
  word to 0x03 and the old list posts its message: the driver leaves a request
  behind whose setup packet was never sent. So `SetupTaken` fails as well; with
  `SleepEnough` both hold.
- `ResentIfFailed` (`main.c:223`). The loop of steps 3 to 9 that sends again looks
  at HPI_STATUS, which says that the list is over and not how. A first TD that
  failed, or that took a retry, leaves a control word other than 0x03, and the
  driver calls `UsbGetRetryCnt` until it is 0x03. That only reads: no step on this
  path writes the list again, so the enumeration hangs with the keyboard plugged
  in. SetAddress alone starts over.

The stray TD (`main.c:349`) is not a finding, since whether the chip makes anything
of the data at 0x0576 is not in the repository. If it ends in a TDListDone message,
that message is taken for SetConfig's or a later request's. Then either that
request is announced done early, or its control word is still active and
`UsbGetRetryCnt` throws the real completion away (`usb.c:558-560`) and waits for
another (`usb.c:562`), or the real message comes between the read and the clear of
`UsbWaitTDListDone` and that loop waits for ever. `usb_enumeration` has the message
at any time; `DoneMeansExecuted` and `KeepsPolling` exempt these cases and no
others (`strayed`), and `SetupTaken` holds in them too.

Comments that differ from the code without a run of their own, since nothing
depends on them: `audio_interface.vhd` calls AUD_MCLK `CLK / 4` (it is bit 2 of
the divider, so / 8) and SCLK `CLK / 512` (bit 9, so / 1024);
`note_modules.sv` says the player's clock "should be operating at 1/30 Hz" (it
comes every 31 ticks of half a second); the `ram_*` files say 4096 addresses
(they have 1600).

## 5. Proofs

`GuitarGame_proofs` holds for every finite set of lanes, every injective choice
of keycodes (`LanesAssumption`), every geometry whose band ends above the bottom
(`GeometryAssumption`) and every counter (`CounterAssumption`). The inductive
invariant `IInv` adds to the type and the checked invariants three facts:

- `PaidNoteIsCounted`: a note that has earned its point is counted or below the
  band. `OnePointPerNote` is not inductive without it: a state with a paid note
  uncounted inside the band would pay again.
- `TurnFollowsCounter`: the turn is no longer than the counter, because both
  count ticks and only the turn is cleared by a reset.
- `ResetHoldsGuitar`: player 2 has the guitar as long as the reset lasts, so a reset
  is one step of `ScoreBoard`, which clears the scores and the holder together.

`LandingBelowBand` connects the sprites to the scoring: the frame edge that
starts a lane's next note finds its row below the band, so the counted bit is
cleared before it could meet the next note. `OneHitAtATime` is the fact that
keycodes differ; `PointsAddUp` and the refinement `Implements` rest on it.

`VideoTiming_proofs` holds for every screen of `ScreenAssumption`. Its `IInv`
says where the beam is when the hidden registers are set: the sync registers
follow the counters (`SyncFollows`, with the exception between a reset and the
first pixel clock), until a reset has set its
X position the sprite rests at row 0 (`Placed`), a rise of VGA_VS not yet seen by the sprite happens in the
first half of the pixel after the pulse or of the first pixel after a reset
(`EdgeSeen`), and the image memory has caught up in the second half of every
pixel (`ImageCaughtUp`). From `EdgeSeen` follow both `NoTorn` (the sprite moves
only there) and the step of `ImageCaughtUp` (it does not move in between).

`DacSerializer_proofs` holds for words and frames of any length and every bit
clock of `SerializerAssumption`. `FrameWhole` alone says nothing of the cycles in
which nothing is taken; its `IInv` follows the age of the bit clock through a
period: when the samplers have seen its edge (`BclkSeen`), when the word of the
frame arrives (`Loading`, the first three cycles of slot 0, with the frame clock
on time or a cycle late), and from then on which bit is on the wire and how many
have been taken (`Loaded`, `CountFollows`). The four lemmas `FrameBegins`,
`NextSlotLoaded`, `BitTaken` and `WordKept` with `WordLoads` are the four things
a cycle can be. That half a period has four cycles is what `BitTaken` needs: the codec
takes no bit before the word is there.

`HpiBus_proofs` holds for every memory, every answer time of the chip and every
pace of the processor with `Gap >= Access + 3`. Everything follows from where the
driver is in its call: `Ports` says what the six accesses of a read or write have
put so far (`PortsAt`), `Registers` that the bridge shows it one cycle later
(`Seen`). `NoContention` is a consequence of `Ports` alone and so survives resets.
A cycle of the chip ends exactly at the edge after the fifth access (`CycleEnds`),
hence `Pointing`: the address register is at the word of this access. `Reading`
counts a word's way back, `Access` cycles in the chip and two registers, against
the time since the strobe; that is where the inequality on `Gap` is used. The
refinement (`IsMemory`) has three kinds of edges: those that move nothing (`Quiet`,
the end of the address included), those that end a data word (`WordMoved`), and the
beginning and the return of a call. An edge of a spoiled call is `Spoiled`.

`SampleReader_proofs` holds for every even divider from 8 up, every count, every
memory of three words or more and resets of `MinPress >= 5` cycles. The hard part
is the reset that interrupts a pair: `Cleared` follows it cycle by cycle until the
reader is empty, `InTime` says that from then on each pair starts early enough in
its half period of AUD_MCLK, measured by `UntilMclk`, and `Warming` that the two
words are neighbours by the time the audio clock has fallen once, which is before
samples pass (`Guarded`). `LoadedSkew` and the refinement `IsStream` follow; the
latter needs of `Buffered` that a word taken is the word addressed.

`UsbKeyboard_proofs` holds for any number of requests, looks, moves of the keyboard,
failures and restarts. `Place` ties the driver's place to its request; `OwnList` says that the
list in the chip is the one of the request under way and that its first TD is active
as long as the chip has yet to execute it, except after a resend, whose list ends
within the sleep: that is `SleepEnough`, the assumption of `SetupNeverSkipped` and of
`DoneIsExecuted` and the only one. `Answered` adds that a message that waits is the
one of this request, which holds until the stray TD has posted one of its own.

`JtagUart_proofs` holds for rings of two entries or more, FIFOs of any depth above
the margin, and calls of any length. `SentBytes` and `ReceivedBytes` name the byte in
every place between the program and the host, the half-copied ones included, and
give the refinement of the two `Pipe`s; `Locals` keeps a copy inside its array.
`Handled` is the start of the program: PIE is off until `ienable` has been cleared,
and `ienable` gets its bit back only with the handler. `Waking` adds to `Armed` what
makes it inductive: a receive interrupt means a byte in the core or, by the time the
routine turns it off, in the ring.

`AudioConfig_proofs` holds for every pair of ROMs of equal length, every even
divider from 8 up and any number of resets. `WordsInOrder` says nothing of the bits
in between, so its `IInv` has three parts more. `Paced` puts the sampler where the
divider was: the falling edge is seen in one cycle of the period (`Sampled`), and the
machine waits for a start or a stop only in the half period before the edge it
waits for. `Received` says what the codec holds within a frame: the slots whose
rising edge has come, each as the machine sends it for the word it counts *now*.
`Counted` compares the count with the words taken: they differ by one between the
last data bit, which the codec takes, and the acknowledge slot, which the machine
counts, and nowhere else (`TakenNotCounted`). A Clk is one of ten kinds of steps, each with
its lemma: wait, open, keep a slot while the clock stands, rises or falls, go to the
first, the next or past the last slot, and stop. That the frame is the word is `FrameDecoded`,
which rests on `BitsMakeByte`, the only fact about bits. After a reset nothing is
assumed of the codec's half frame: the machine lets the clock rise once before it
opens a frame and never fall, so what is left over is never completed (`WaitStep`,
`OpenStep`). `LineKeepsDiscipline` reads off the same steps, and `IsSetup` is a
consequence: a word more that still leaves a beginning of the ROMs is the next one.
`PeriodAssumption` is used for the period from 8 on, where half a period outlasts
the sampler.

`NeverSticks` of `GuitarGame_proofs` shows that a shift of `RNG2` leaves a bit set
(`ShiftKeepsABit`): the top bit is a tap of the feedback. `WidthsKept` there is the
game's type invariant: with the geometry's assumption no row leaves its ten bits.

Only model-checked: all liveness (`NoteLands`, `KeepsPolling`, `Configured`,
`Plays`, `EveryLaneServed`, `FramesGoOn`, `AllHeard`, `CallsReturn`), which is beyond
the prover. Every other property of the passing runs is a theorem.

## 6. Plan

Order in which the modules were written: the game and its abstraction, the USB
driver, the codec's configuration, the reader and its abstraction, the HPI bus
and its abstraction, the serializer, the video, the note source, the console and
its abstraction; then the theorems. What is left:

1. The data sequence bit and the address of the keyboard in `UsbKeyboard`, so that a
   keyboard swapped within seven looks (`main.c:533`) is covered.
2. The mailbox and status registers in `HpiBus`, which the same accesses reach, and
   reads of more than one word.
3. A composition of `SampleReader` with `DacSerializer`, so that a frame carries a
   pair and not only a word; the priority of the color mapper.

## 7. Not modelled

The hex display (a table), the PLL (a generated vendor block, seen as every
other `Clk`), the Qsys system (generated; its ports are registers in `HpiBus` and
`GuitarGame`), `sq_wave` and `sram_tester` (instantiated nowhere), the recording
path of the codec interface (unconnected), the test bench (stimulus only),
images, conversion scripts, and the artefacts of Quartus and Eclipse.

`HpiBus` reads one word per call, since the driver writes the address before every
word it reads. Only `UsbPrintMem` (`usb.c:574`) reads a run of words, and its call is
commented out (`main.c:353`).

Of the support package, `JtagUart` models the sources that run in this program
and keep state. The rest is the vendor's: register addresses (`cy7c67200.h`,
`system.h`, `nios2.h`), logging and profiling that are compiled out
(`alt_log_printf`, `alt_gmon`), file, timer and DMA calls that the program does not
make, and inline wrappers of single instructions. They are a large part of the
lines of C in the repository and have no behaviour of their own to specify. Of the
console's driver, `ioctl` and the timeout alarm are out: the program has no system
clock, so the alarm is never started.
