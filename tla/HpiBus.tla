------------------------------- MODULE HpiBus -------------------------------
(***************************************************************************)
(* The driver's access to the USB chip: io_handler.c writes and reads one  *)
(* port of the NIOS system at a time, hpi_io_intf.sv registers the ports   *)
(* towards the chip and drives the bidirectional bus, and the chip takes a *)
(* word when its write cycle ends. UsbWrite, UsbRead and the lists of      *)
(* words of usb.c are sequences of these accesses.                         *)
(*                                                                         *)
(* The chip (CY7C67200) is external: an address register, a memory, and    *)
(* the address moving on after each access to the memory. A strobe is TRUE *)
(* when it is asserted, which on the wire is low.                          *)
(***************************************************************************)
EXTENDS Integers, Sequences

CONSTANTS
  Size,       \* words of the chip's memory, and values of a word
  Unknown,    \* a word nothing determines
  Idle,       \* the driver is in no call
  Gap,        \* a NIOS/e needs at least so many Clk cycles per port access
  Access,     \* Clk cycles the chip needs to answer a read
  MaxResets   \* bound: resets TLC explores

ASSUME BusAssumption ==
  /\ Size \in Nat /\ Size >= 2 /\ Access \in Nat /\ Gap \in Nat
  /\ Gap >= Access + 3
  /\ Unknown \notin Nat /\ MaxResets \in Nat

VARIABLES
  call, step,   \* the call of the driver and its next port access
  wait,         \* Clk cycles before that access at the earliest
  temp,         \* what IO_read read
  sw,           \* the output ports of the NIOS system
  readdata,     \* the register of its data port
  OTG, from_sw_data_in,  \* the registers of hpi_io_intf
  pointer, mem, ready,   \* the chip: address register, memory, read progress
  Reset, resets,
  spoiled       \* history: a reset fell into the call

driver == <<call, step, wait, temp, sw>>
bridge == <<OTG, from_sw_data_in, readdata>>
chip == <<pointer, mem, ready>>
vars == <<driver, bridge, chip, Reset, resets, spoiled>>

HPI_DATA == 0
HPI_ADDR == 2
Place == 0 .. Size - 1
Word == Place \cup {Unknown}

Calls ==
  [fn : {"write"}, at : Place, words : {<<d>> : d \in Place} \cup (Place \X Place)]
  \cup [fn : {"read"}, at : Place, words : {<<>>}]

ASSUME IdleAssumption == Idle \notin Calls

TypeOK ==
  /\ call \in Calls \cup {Idle} /\ step \in 0 .. 18 /\ wait \in 0 .. Gap
  /\ temp \in Word /\ readdata \in Word /\ from_sw_data_in \in Word
  /\ sw \in [address : {HPI_DATA, HPI_ADDR}, cs : BOOLEAN, r : BOOLEAN,
             w : BOOLEAN, data : Place]
  /\ OTG \in [ADDR : {HPI_DATA, HPI_ADDR}, CS : BOOLEAN, RD : BOOLEAN,
              WR : BOOLEAN, RST : BOOLEAN, data : Place]
  /\ pointer \in Word /\ mem \in [Place -> Word]
  /\ ready \in 0 .. Access
  /\ Reset \in BOOLEAN /\ resets \in 0 .. MaxResets /\ spoiled \in BOOLEAN

-----------------------------------------------------------------------------
(* The driver: a call is a sequence of port accesses. *)

Put(port, x) == [port |-> port, x |-> x]
Get == [port |-> "get", x |-> TRUE]

\* Slip: the write strobe goes before the chip select.
IOWriteStrobeFirst(a, d) ==
  <<Put("address", a), Put("cs", TRUE), Put("w", TRUE), Put("data", d),
    Put("w", FALSE), Put("cs", FALSE)>>

IO_write(a, d) ==
  <<Put("address", a), Put("cs", TRUE), Put("w", TRUE), Put("data", d),
    Put("cs", FALSE), Put("w", FALSE)>>

\* Slip: the read strobe stays.
IOReadStrobeStays(a) ==
  <<Put("address", a), Put("cs", TRUE), Put("r", TRUE), Get,
    Put("cs", FALSE), Put("cs", FALSE)>>

IO_read(a) ==
  <<Put("address", a), Put("cs", TRUE), Put("r", TRUE), Get,
    Put("cs", FALSE), Put("r", FALSE)>>

\* UsbWrite (one word), the lists of usb.c (more than one), UsbRead: the
\* address, then the data.
Ios(c) == IF c.fn = "read" THEN 2 ELSE 1 + Len(c.words)

Io(c, i) ==
  IF i = 0 THEN IO_write(HPI_ADDR, c.at)
  ELSE IF c.fn = "read" THEN IO_read(HPI_DATA) ELSE IO_write(HPI_DATA, c.words[i])

-----------------------------------------------------------------------------
(* The bridge and the bus. *)

\* hpi_io_intf at an edge.
Register ==
  /\ OTG' = IF Reset
            THEN [ADDR |-> 0, CS |-> FALSE, RD |-> FALSE, WR |-> FALSE,
                  RST |-> TRUE, data |-> 0]
            ELSE [ADDR |-> sw.address, CS |-> sw.cs, RD |-> sw.r, WR |-> sw.w,
                  RST |-> FALSE, data |-> sw.data]

WriteCycle == OTG.CS /\ OTG.WR
ReadCycle == OTG.CS /\ OTG.RD

\* The chip drives the bus.
Driving == ReadCycle /\ ~OTG.RST

\* What the wires carry. The bridge drives them as long as the port of the
\* driver says write, one cycle ahead of its own registers.
Bus ==
  IF sw.w THEN OTG.data
  ELSE IF Driving /\ ready = Access /\ pointer # Unknown THEN mem[pointer]
  ELSE Unknown

\* The bus on its way to the driver: through the register of the bridge and
\* the register of the port.
Fetch ==
  /\ from_sw_data_in' = IF Reset THEN 0 ELSE Bus
  /\ readdata' = from_sw_data_in

-----------------------------------------------------------------------------
(* The chip. *)

Onward == IF pointer = Unknown THEN Unknown ELSE (pointer + 1) % Size

\* The chip at an edge of the bridge. A word is taken when a write cycle ends,
\* if the bus keeps still.
Chip ==
  LET written == WriteCycle /\ ~WriteCycle'
      read == ReadCycle /\ ~ReadCycle'
      word == IF Bus' = Bus THEN Bus ELSE Unknown
  IN IF OTG'.RST
     THEN pointer' = Unknown /\ ready' = 0 /\ mem' = [a \in Place |-> Unknown]
     ELSE
     /\ ready' = IF Driving /\ Driving'
                 THEN ready + (IF ready < Access THEN 1 ELSE 0) ELSE 0
     /\ pointer' = IF written /\ OTG.ADDR = HPI_ADDR THEN word
                   ELSE IF (written \/ read) /\ OTG.ADDR = HPI_DATA THEN Onward
                   ELSE pointer
     /\ mem' = [a \in Place |->
                 IF written /\ OTG.ADDR = HPI_DATA /\ pointer \in {a, Unknown}
                 THEN (IF pointer = a THEN word ELSE Unknown) ELSE mem[a]]

-----------------------------------------------------------------------------
(* The processor, one port access at a time. *)

Call ==
  /\ call = Idle /\ call' \in Calls
  /\ UNCHANGED <<step, wait, temp, sw>>

PortAccess ==
  /\ call # Idle /\ wait = 0 /\ step < 6 * Ios(call)
  /\ LET a == Io(call, step \div 6)[(step % 6) + 1]
     IN IF a.port = "get" THEN temp' = readdata /\ UNCHANGED sw
                          ELSE sw' = [sw EXCEPT ![a.port] = a.x] /\ UNCHANGED temp
  /\ step' = step + 1 /\ wait' = Gap
  /\ UNCHANGED call

Return ==
  /\ call # Idle /\ wait = 0 /\ step = 6 * Ios(call)
  /\ call' = Idle /\ step' = 0
  /\ UNCHANGED <<wait, temp, sw>>

\* Instructions that access no port take any time.
Compute ==
  /\ wait' = IF wait > 0 THEN wait - 1 ELSE 0
  /\ UNCHANGED <<call, step, temp, sw>>

-----------------------------------------------------------------------------

\* As IO_init leaves the ports; the chip's memory holds anything.
Init ==
  /\ call = Idle /\ step = 0 /\ wait = 0 /\ temp = 0
  /\ sw = [address |-> 0, cs |-> FALSE, r |-> FALSE, w |-> FALSE, data |-> 0]
  /\ OTG = [ADDR |-> 0, CS |-> FALSE, RD |-> FALSE, WR |-> FALSE,
            RST |-> FALSE, data |-> 0]
  /\ from_sw_data_in = Unknown /\ readdata = Unknown
  /\ pointer = Unknown /\ ready = 0 /\ mem = [a \in Place |-> Unknown]
  /\ Reset = FALSE /\ resets = 0 /\ spoiled = FALSE

\* KEY[0]: it resets the bridge and through it the chip, not the processor.
Button ==
  /\ \/ ~Reset /\ Reset' = FALSE
     \/ ~Reset /\ Reset' = TRUE /\ resets < MaxResets
     \/ Reset /\ Reset' \in BOOLEAN
  /\ resets' = resets + IF ~Reset /\ Reset' THEN 1 ELSE 0
  /\ spoiled' = (Reset \/ Reset' \/ (spoiled /\ ~(call = Idle /\ call' # Idle)))

\* A rising edge of Clk.
Edge == Register /\ Fetch /\ Chip /\ Button

Next == (Call \/ PortAccess \/ Return \/ Compute) /\ Edge

Spec == Init /\ [][Next]_vars

-----------------------------------------------------------------------------
(* Properties. *)

\* The accesses of the call that are over: one is when the chip sees the
\* select go.
Over == IF step % 6 = 5 /\ OTG.CS THEN step \div 6 ELSE (step + 1) \div 6

\* The data words the chip has taken or given: the first access is the address.
WordsDone == IF Over = 0 THEN 0 ELSE Over - 1

\* What the driver has read, once the word is over.
Value == IF call # Idle /\ WordsDone = 1 THEN temp ELSE Unknown

\* The strobes, put one by one, amount to reads and writes of a memory.
Memory == INSTANCE HpiMemory WITH
  Values <- Word, done <- WordsDone, value <- Value

MemorySpec == Memory!Spec

\* The bridge and the chip never drive the bus at the same time.
NoContention == ~(sw.w /\ Driving)

-----------------------------------------------------------------------------
(* What the prover needs beside the properties. *)

\* The port access after s of a call c belongs to a write of the chip, of this.
Writes(c, s) == s < 6 \/ c.fn = "write"
Datum(c, s) == IF s < 6 THEN c.at ELSE c.words[s \div 6]

\* What the ports are after s port accesses of c.
PortsAt(c, s, cs, rd, wr, address, data) ==
  /\ cs <=> s % 6 \in 2 .. 4
  /\ wr <=> s % 6 \in 3 .. 5 /\ Writes(c, s)
  /\ rd <=> s % 6 \in 3 .. 5 /\ ~Writes(c, s)
  /\ s % 6 # 0 => address = IF s < 6 THEN HPI_ADDR ELSE HPI_DATA
  /\ s % 6 \in 4 .. 5 /\ Writes(c, s) => data = Datum(c, s)

Steps ==
  /\ call = Idle => step = 0
  /\ call # Idle => step <= 6 * Ios(call)
  /\ step = 0 => wait = 0

Ports ==
  /\ PortsAt(call, step, sw.cs, sw.r, sw.w, sw.address, sw.data)
  /\ OTG.RD => ~sw.w

\* The registers are a cycle behind.
Seen == IF wait = Gap THEN step - 1 ELSE step

Registers ==
  ~spoiled => /\ ~Reset /\ ~OTG.RST
              /\ PortsAt(call, Seen, OTG.CS, OTG.RD, OTG.WR, OTG.ADDR, OTG.data)

Pointing ==
  ~spoiled /\ Over > 0 => pointer = (call.at + Over - 1) % Size

\* The word is on its way: the chip answers after Access cycles, then come the
\* two registers.
Reading ==
  ~spoiled /\ call # Idle /\ call.fn = "read" =>
    /\ step = 9 /\ wait < Gap =>
         /\ ready = Access \/ ready + wait >= Gap - 1
         /\ wait + Access + 2 <= Gap => from_sw_data_in = mem[call.at]
         /\ wait + Access + 3 <= Gap => readdata = mem[call.at]
    /\ step > 9 => temp = mem[call.at]

IInv == TypeOK /\ Steps /\ Ports /\ Registers /\ Pointing /\ Reading
=============================================================================
