------------------------------ MODULE JtagUart ------------------------------
(***************************************************************************)
(* The console of the NIOS II program: the interrupt driven driver of the  *)
(* JTAG UART (altera_avalon_jtag_uart_*.c), the path of its interrupt      *)
(* through the HAL, and the core (finalproj_soc_jtag_uart_0.v) with the    *)
(* host behind it, from the start of the program on. The core keeps its    *)
(* state when the program is loaded again.                                 *)
(*                                                                         *)
(* A byte is named by its position in the stream of its direction, counted *)
(* from 1. There is no system clock, so the alarm of the driver is never   *)
(* set, host_inactive stays 0, and a call waits as long as it has to.      *)
(***************************************************************************)
EXTENDS Integers, Sequences

CONSTANTS
  BufLen,     \* ALTERA_AVALON_JTAG_UART_BUF_LEN: 2048
  HwDepth,    \* depth of the core's two FIFOs: 64
  Margin,     \* an interrupt comes at this many bytes, or spaces, or less: 8
  MaxCall,    \* bound: bytes of one call
  MaxSent,    \* bound: bytes written
  MaxTyped    \* bound: bytes typed at the host

ASSUME UartAssumption ==
  /\ BufLen \in Nat /\ BufLen >= 2
  /\ HwDepth \in Nat /\ Margin \in Nat /\ Margin < HwDepth
  /\ MaxCall \in Nat \ {0} /\ MaxSent \in Nat /\ MaxTyped \in Nat

VARIABLES
  wfifo, rfifo, ien, pause_irq,    \* the core; ien is sp->irq_enable as well
  heard, typed,                    \* the host: last byte taken, last byte sent
  PIE, ienable, handler,           \* the processor: this line, alt_irq[] set
  tx_buf, tx_in, tx_out, rx_buf, rx_in, rx_out,
  pc, count, blocking,             \* the program's call, the bytes it wants
  seen, n, k,                      \* in or out as last read, bytes to copy, copied
  some, ptr, got,                  \* ptr # buffer; last byte written, last read
  isr, wi, space, avail            \* the interrupt routine and its variables

core == <<wfifo, rfifo, ien, pause_irq>>
host == <<heard, typed>>
cpu == <<PIE, ienable, handler>>
tx == <<tx_buf, tx_in, tx_out>>
rx == <<rx_buf, rx_in, rx_out>>
call == <<pc, count, blocking, seen, n, k, some, ptr, got>>
routine == <<isr, wi, space, avail>>
vars == <<core, host, cpu, tx, rx, call, routine>>

Index == 0 .. BufLen - 1
Byte == Nat

CoreType ==
  /\ wfifo \in Seq(Byte) /\ Len(wfifo) <= HwDepth
  /\ rfifo \in Seq(Byte) /\ Len(rfifo) <= HwDepth
  /\ ien \subseteq {"RE", "WE"}
  /\ heard \in Byte /\ typed \in Byte

RingType ==
  /\ tx_buf \in [Index -> Byte] /\ tx_in \in Index /\ tx_out \in Index
  /\ rx_buf \in [Index -> Byte] /\ rx_in \in Index /\ rx_out \in Index

CallType ==
  /\ pc \in {"irq_init", "irq_on", "uart_init", "isr_register", "idle",
             "w_fill", "w_copy", "w_kick", "w_spin",
             "r_look", "r_copy", "r_spin", "r_arm", "drain"}
  /\ count \in 0 .. MaxCall /\ n \in 0 .. MaxCall /\ k \in 0 .. n
  /\ seen \in Index
  /\ ptr \in Byte /\ got \in Byte

RoutineType ==
  /\ isr \in {"off", "entry", "dispatch", "control", "receive", "stop",
              "transmit", "after", "lost"}
  /\ space \in 0 .. HwDepth

FlagType ==
  {pause_irq, PIE, ienable, handler, blocking, some, wi, avail} \subseteq BOOLEAN

TypeOK == CoreType /\ RingType /\ CallType /\ RoutineType /\ FlagType

-----------------------------------------------------------------------------
(* The rings: i % BUF_LEN for the indices the driver makes, and the entries *)
(* from one index up to another.                                           *)

\* Slip: the index may be one past the end.
WrapLate(i) == IF i > BufLen THEN i - BufLen ELSE i

Wrap(i) == IF i >= BufLen THEN i - BufLen ELSE i

Span(from, to) == IF to >= from THEN to - from ELSE to + BufLen - from

Least(a, b) == IF a <= b THEN a ELSE b

\* The room a writer finds without going past the end.
Room(in, out) ==
  IF in < out THEN out - 1 - in
  ELSE IF out > 0 THEN BufLen - in
  ELSE BufLen - 1 - in

\* Slip: what is there goes up to the end of the array.
FilledToTheEnd(in, out) == IF in = out THEN 0 ELSE BufLen - out

\* What a reader finds without going past the end.
Filled(in, out) == IF in >= out THEN in - out ELSE BufLen - out

-----------------------------------------------------------------------------
(* The core and the host. *)

ipen_AE == "WE" \in ien /\ Len(wfifo) <= Margin
ipen_AF == "RE" \in ien /\ (pause_irq \/ HwDepth - Len(rfifo) <= Margin)
Pending == ienable /\ (ipen_AE \/ ipen_AF)

HostTakes ==
  /\ wfifo # <<>>
  /\ heard' = Head(wfifo) /\ wfifo' = Tail(wfifo)
  /\ UNCHANGED <<rfifo, ien, pause_irq, typed, cpu, tx, rx, call, routine>>

\* The host may send when there is room.
Arrives(new) ==
  IF new THEN /\ Len(rfifo) < HwDepth /\ typed < MaxTyped /\ typed' = typed + 1
         ELSE UNCHANGED typed

HostTypes ==
  /\ Arrives(TRUE) /\ rfifo' = Append(rfifo, typed')
  /\ UNCHANGED <<wfifo, ien, pause_irq, heard, cpu, tx, rx, call, routine>>

\* t_pause: the host has nothing more to send for now.
HostPauses ==
  /\ rfifo # <<>> /\ ~pause_irq /\ pause_irq' = TRUE
  /\ UNCHANGED <<wfifo, rfifo, ien, host, cpu, tx, rx, call, routine>>

-----------------------------------------------------------------------------
(* Start of the program: alt_main, alt_irq_init, alt_sys_init. *)

Starting(from, to) == isr = "off" /\ pc = from /\ pc' = to
                      /\ UNCHANGED <<count, blocking, seen, n, k, some, ptr, got>>

\* Slip: the lines an earlier program enabled stay enabled.
ClearNothing ==
  /\ Starting("irq_init", "irq_on") /\ UNCHANGED cpu
  /\ UNCHANGED <<core, host, tx, rx, routine>>

ClearIenable ==
  /\ Starting("irq_init", "irq_on")
  /\ ienable' = FALSE
  /\ UNCHANGED <<core, host, PIE, handler, tx, rx, routine>>

EnableCpu ==
  /\ Starting("irq_on", "uart_init")
  /\ PIE' = TRUE
  /\ UNCHANGED <<core, host, ienable, handler, tx, rx, routine>>

InitUart ==
  /\ Starting("uart_init", "isr_register")
  /\ ien' = {"RE"}
  /\ UNCHANGED <<wfifo, rfifo, pause_irq, host, cpu, tx, rx, routine>>

\* Interrupts are disabled from before the table is changed until after.
RegisterIsr ==
  /\ Starting("isr_register", "idle")
  /\ handler' = TRUE /\ ienable' = TRUE
  /\ UNCHANGED <<core, host, PIE, tx, rx, routine>>

-----------------------------------------------------------------------------
(* The program's calls. They run while the interrupt routine does not.     *)

At(label) == isr = "off" /\ pc = label
Go(label) == pc' = label

Kept(locals) == UNCHANGED <<core, host, cpu, tx, rx, routine, locals>>

\* On to a label of the call, or out of it, where its variables are dead.
Leave(label) ==
  /\ Go(label)
  /\ IF label = "idle"
     THEN count' = 0 /\ blocking' = TRUE /\ seen' = 0 /\ some' = FALSE
     ELSE UNCHANGED <<count, blocking, seen, some>>

\* altera_avalon_jtag_uart_write, _read, _close; blocking is ~O_NONBLOCK.
Call ==
  /\ At("idle") /\ blocking' \in BOOLEAN
  /\ \/ Go("w_fill") /\ count' \in 1 .. MaxCall /\ ptr + count' <= MaxSent
     \/ Go("r_look") /\ count' \in 1 .. MaxCall
     \/ Go("drain") /\ UNCHANGED count
  /\ some' = FALSE
  /\ Kept(<<seen, n, k, ptr, got>>)

\* The room for the rest of the bytes, or the interrupt's turn.
Fill ==
  /\ At("w_fill")
  /\ IF count = 0 THEN Go("w_kick") /\ UNCHANGED <<seen, n>>
     ELSE /\ seen' = tx_out
          /\ n' = Least(Room(tx_in, tx_out), count)
          /\ Go(IF n' = 0 THEN "w_kick" ELSE "w_copy")
  /\ Kept(<<count, blocking, k, some, ptr, got>>)

\* memcpy, a byte at a time.
CopyIn ==
  /\ At("w_copy") /\ k < n
  /\ tx_buf' = [tx_buf EXCEPT ![tx_in + k] = ptr + k + 1] /\ k' = k + 1
  /\ UNCHANGED <<core, host, cpu, tx_in, tx_out, rx, routine,
                 pc, count, blocking, seen, n, some, ptr, got>>

PublishIn ==
  /\ At("w_copy") /\ k = n
  /\ tx_in' = Wrap(tx_in + n) /\ ptr' = ptr + n /\ count' = count - n
  /\ Go("w_fill") /\ n' = 0 /\ k' = 0 /\ seen' = 0
  /\ UNCHANGED <<core, host, cpu, tx_buf, tx_out, rx, routine, blocking, some, got>>

\* Interrupts are disabled from the read of irq_enable to its write.
Kick ==
  /\ At("w_kick")
  /\ ien' = ien \cup {"WE"}
  /\ Leave(IF count > 0 /\ blocking THEN "w_spin" ELSE "idle")
  /\ UNCHANGED <<wfifo, rfifo, pause_irq, host, cpu, tx, rx, routine, n, k, ptr, got>>

\* The wait ends when the routine has taken a byte since tx_out was read.
Spin ==
  /\ At("w_spin") /\ seen # tx_out /\ Go("w_fill")
  /\ Kept(<<count, blocking, seen, n, k, some, ptr, got>>)

\* Slip: a read that emptied the ring does not let interrupts in again.
LookAndLeave ==
  /\ At("r_look") /\ n' = Least(Filled(rx_in, rx_out), count)
  /\ IF n' = 0 /\ (some \/ ~blocking) THEN Leave("idle")
     ELSE /\ seen' = rx_in /\ Go(IF n' > 0 THEN "r_copy" ELSE "r_spin")
          /\ UNCHANGED <<count, blocking, some>>
  /\ Kept(<<k, ptr, got>>)

Look ==
  /\ At("r_look") /\ n' = Least(Filled(rx_in, rx_out), count)
  /\ IF n' = 0 /\ ~some /\ ~blocking THEN Leave("idle")
     ELSE /\ seen' = rx_in /\ UNCHANGED <<count, blocking, some>>
          /\ Go(IF n' > 0 THEN "r_copy" ELSE IF some THEN "r_arm" ELSE "r_spin")
  /\ Kept(<<k, ptr, got>>)

CopyOut ==
  /\ At("r_copy") /\ k < n
  /\ got' = rx_buf[rx_out + k] /\ k' = k + 1
  /\ Kept(<<pc, count, blocking, seen, n, some, ptr>>)

PublishOut ==
  /\ At("r_copy") /\ k = n
  /\ rx_out' = Wrap(rx_out + n) /\ count' = count - n /\ some' = TRUE
  /\ Go(IF count' = 0 THEN "r_arm" ELSE "r_look")
  /\ n' = 0 /\ k' = 0 /\ seen' = 0
  /\ UNCHANGED <<core, host, cpu, tx, rx_buf, rx_in, routine, blocking, ptr, got>>

SpinForByte ==
  /\ At("r_spin") /\ seen # rx_in /\ Go("r_look")
  /\ Kept(<<count, blocking, seen, n, k, some, ptr, got>>)

\* There is space in the ring: interrupts, again with the processor's off.
ArmReceive ==
  /\ At("r_arm") /\ ien' = ien \cup {"RE"} /\ Leave("idle")
  /\ UNCHANGED <<wfifo, rfifo, pause_irq, host, cpu, tx, rx, routine, n, k, ptr, got>>

\* close waits for the ring, not for the core.
Drain ==
  /\ At("drain") /\ (tx_out # tx_in => ~blocking) /\ Leave("idle")
  /\ Kept(<<n, k, ptr, got>>)

-----------------------------------------------------------------------------
(* The interrupt: alt_exception_entry, alt_irq_handler and                 *)
(* altera_avalon_jtag_uart_irq.                                            *)

Turn(to) == isr' = to

TakeInterrupt ==
  /\ isr = "off" /\ PIE /\ Pending
  /\ Turn("entry") /\ PIE' = FALSE
  /\ UNCHANGED <<core, host, ienable, handler, tx, rx, call, wi, space, avail>>

\* With no line pending the exception is not taken for an interrupt.
TestPending ==
  /\ isr = "entry"
  /\ Turn(IF Pending THEN "dispatch" ELSE "lost")
  /\ UNCHANGED <<core, host, cpu, tx, rx, call, wi, space, avail>>

\* With no line pending alt_irq_handler looks for one for ever; without a
\* handler it calls 0.
Dispatch ==
  /\ isr = "dispatch"
  /\ Turn(IF Pending /\ handler THEN "control" ELSE "lost")
  /\ UNCHANGED <<core, host, cpu, tx, rx, call, wi, space, avail>>

\* The control register is read; the receive interrupt is served first.
ReadControl ==
  /\ isr = "control"
  /\ wi' = ipen_AE /\ space' = (IF wi' THEN HwDepth - Len(wfifo) ELSE 0)
  /\ avail' = ipen_AF
  /\ Turn(IF ipen_AF THEN "receive" ELSE IF ipen_AE THEN "transmit" ELSE "after")
  /\ UNCHANGED <<core, host, cpu, tx, rx, call>>

RxFull == Wrap(rx_in + 1) = rx_out

\* What a read of the data register leaves in the core.
Remaining == IF rfifo = <<>> THEN <<>> ELSE Tail(rfifo)

\* A read of the data register, which takes a byte if there is one and tells
\* what remains; the host may send in the same cycle.
ReadData ==
  /\ isr = "receive" /\ ~RxFull
  /\ \E new \in BOOLEAN :
       /\ Arrives(new)
       /\ rfifo' = IF new THEN Append(Remaining, typed') ELSE Remaining
  /\ IF rfifo = <<>> THEN Turn("stop") /\ UNCHANGED <<rx_buf, rx_in>>
     ELSE /\ rx_buf' = [rx_buf EXCEPT ![rx_in] = Head(rfifo)]
          /\ rx_in' = Wrap(rx_in + 1) /\ UNCHANGED isr
  /\ avail' = (rfifo' # <<>>) /\ pause_irq' = FALSE
  /\ UNCHANGED <<wfifo, ien, heard, cpu, tx, rx_out, call, wi, space>>

\* The loop is over. With data left receive interrupts are turned off.
StopReceive ==
  /\ isr = "stop" \/ (isr = "receive" /\ RxFull)
  /\ ien' = IF avail THEN ien \ {"RE"} ELSE ien
  /\ Turn(IF wi THEN "transmit" ELSE "control") /\ avail' = FALSE
  /\ UNCHANGED <<wfifo, rfifo, pause_irq, host, cpu, tx, rx, call, wi, space>>

\* A write of the data register, which is dropped if there is no room.
SendByte ==
  /\ isr = "transmit" /\ space > 0 /\ tx_out # tx_in
  /\ wfifo' = IF Len(wfifo) < HwDepth THEN Append(wfifo, tx_buf[tx_out]) ELSE wfifo
  /\ tx_out' = Wrap(tx_out + 1) /\ space' = space - 1
  /\ UNCHANGED <<rfifo, ien, pause_irq, host, cpu, tx_buf, tx_in, rx, call,
                 isr, wi, avail>>

\* Slip: the interrupt is turned off whenever the loop ends.
StopAlways ==
  /\ isr = "transmit" /\ (space = 0 \/ tx_out = tx_in)
  /\ ien' = ien \ {"WE"}
  /\ Turn("control") /\ wi' = FALSE /\ space' = 0
  /\ UNCHANGED <<wfifo, rfifo, pause_irq, host, cpu, tx, rx, call, avail>>

\* The interrupt is turned off if room is left, for there is nothing to send.
StopSending ==
  /\ isr = "transmit" /\ (space = 0 \/ tx_out = tx_in)
  /\ ien' = IF space > 0 THEN ien \ {"WE"} ELSE ien
  /\ Turn("control") /\ wi' = FALSE /\ space' = 0
  /\ UNCHANGED <<wfifo, rfifo, pause_irq, host, cpu, tx, rx, call, avail>>

\* alt_irq_handler calls again as long as the line is pending.
Return ==
  /\ isr = "after"
  /\ Turn(IF Pending THEN "control" ELSE "off")
  /\ PIE' = ~Pending
  /\ UNCHANGED <<core, host, ienable, handler, tx, rx, call, wi, space, avail>>

-----------------------------------------------------------------------------

\* The program is loaded; ienable and the core are as the program before left
\* them, for loading resets neither (finalproj_soc.v: one reset controller for
\* both, without the debugger's request). PIE is off: that is the debugger's or
\* the power-up reset's doing, crt0.S does not clear it.
Init ==
  /\ \E sent \in 0 .. HwDepth : wfifo = [i \in 1 .. sent |-> i] /\ ptr = sent
  /\ \E held \in 0 .. HwDepth : rfifo = [i \in 1 .. held |-> i] /\ typed = held
  /\ ien \in SUBSET {"RE", "WE"} /\ pause_irq \in {FALSE, rfifo # <<>>}
  /\ heard = 0 /\ got = 0
  /\ PIE = FALSE /\ ienable \in BOOLEAN /\ handler = FALSE
  /\ tx_buf = [i \in Index |-> 0] /\ tx_in = 0 /\ tx_out = 0
  /\ rx_buf = [i \in Index |-> 0] /\ rx_in = 0 /\ rx_out = 0
  /\ pc = "irq_init" /\ count = 0 /\ blocking = TRUE /\ some = FALSE
  /\ seen = 0 /\ n = 0 /\ k = 0
  /\ isr = "off" /\ wi = FALSE /\ space = 0 /\ avail = FALSE

Boot == ClearIenable \/ EnableCpu \/ InitUart \/ RegisterIsr
Write == Fill \/ CopyIn \/ PublishIn \/ Kick \/ Spin
Read == Look \/ CopyOut \/ PublishOut \/ SpinForByte \/ ArmReceive
Program == Boot \/ Write \/ Read \/ Drain
Interrupt == \/ TakeInterrupt \/ TestPending \/ Dispatch \/ ReadControl
             \/ ReadData \/ StopReceive \/ SendByte \/ StopSending \/ Return
Host == HostTakes \/ HostTypes \/ HostPauses

Next == Program \/ Call \/ Interrupt \/ Host

Spec == Init /\ [][Next]_vars

\* The processor runs, and the host's console is open: it takes what it is
\* sent and lets the core know when it has no more to send.
FairSpec ==
  /\ Spec /\ WF_vars(Program) /\ WF_vars(Interrupt)
  /\ WF_vars(HostTakes) /\ WF_vars(HostPauses)

-----------------------------------------------------------------------------
(* Properties. *)

\* Whatever the program, the routine and the host do in between, the console
\* loses no byte in either direction, repeats none and keeps their order.
Sent == INSTANCE Pipe WITH
  Capacity <- HwDepth + BufLen - 1, put <- ptr, taken <- heard
Received == INSTANCE Pipe WITH
  Capacity <- HwDepth + BufLen - 1, put <- typed, taken <- got

StreamSpec == Sent!Spec /\ Received!Spec

\* Each exception finds the line that caused it and a handler to serve it,
\* whatever interrupts the core was left with by the program before.
NoneUnhandled == isr # "lost"

\* Bytes in the ring have an interrupt on its way, unless the writer has yet
\* to turn it on. Receive interrupts are off only while the ring holds what a
\* reader will find, or while the reader has yet to turn them on.
Armed ==
  pc \notin {"irq_init", "irq_on", "uart_init"} =>
    /\ tx_in # tx_out => "WE" \in ien \/ pc \in {"w_fill", "w_copy", "w_kick"}
    /\ "RE" \notin ien => rx_in # rx_out \/ (some /\ pc \in {"r_look", "r_arm"})

\* What a write has accepted reaches the host.
AllHeard == []<>(heard = ptr)

\* A blocking write or close returns, and so does a read once a byte is typed.
CallsReturn ==
  /\ pc \in {"w_fill", "w_spin", "drain"} ~> pc = "idle"
  /\ (pc = "r_spin" /\ typed > got) ~> pc = "idle"

-----------------------------------------------------------------------------
(* What the prover needs beside the properties. *)

Booting == pc \in {"irq_init", "irq_on", "uart_init", "isr_register"}
Copying == pc \in {"w_copy", "r_copy"}
TxUsed == Span(tx_out, tx_in)
RxUsed == Span(rx_out, rx_in)

\* The variables of a call.
Locals ==
  /\ ~Copying => k = 0
  /\ Copying => n > 0 /\ n <= count
  /\ pc = "w_copy" => tx_in + n <= BufLen
  /\ pc = "r_copy" => rx_out + n <= BufLen
  /\ pc \in {"r_look", "r_spin"} => count > 0

\* Interrupts reach the processor only when there is a handler, and the line
\* stays up until the routine looks at it.
Handled ==
  /\ pc = "irq_init" => ~PIE
  /\ Booting => isr = "off" /\ tx_in = tx_out /\ rx_in = rx_out
  /\ Booting /\ pc # "irq_init" => ~ienable
  /\ ~Booting => handler
  /\ isr \in {"entry", "dispatch"} => Pending
  /\ NoneUnhandled

\* Where the bytes between the program and the host are.
SentBytes ==
  /\ heard + Len(wfifo) + TxUsed = ptr
  /\ \A i \in 1 .. Len(wfifo) : wfifo[i] = heard + i
  /\ \A i \in Index : Span(tx_out, i) < TxUsed =>
       tx_buf[i] = heard + Len(wfifo) + Span(tx_out, i) + 1
  /\ pc = "w_copy" => /\ TxUsed + n <= BufLen - 1
                      /\ \A j \in 0 .. k - 1 : tx_buf[tx_in + j] = ptr + j + 1
  /\ space + Len(wfifo) <= HwDepth

\* Where the bytes between the host and the program are.
ReceivedBytes ==
  /\ got + RxUsed + Len(rfifo) = typed + (IF pc = "r_copy" THEN k ELSE 0)
  /\ \A i \in 1 .. Len(rfifo) : rfifo[i] = typed - Len(rfifo) + i
  /\ \A i \in Index : Span(rx_out, i) < RxUsed =>
       rx_buf[i] = typed - Len(rfifo) - RxUsed + Span(rx_out, i) + 1
  /\ pc = "r_copy" => n <= RxUsed

\* A receive interrupt means a byte in the core, so that when the routine
\* turns the interrupt off there is one in the ring.
Waking ==
  /\ Armed
  /\ pc = "isr_register" => "RE" \in ien
  /\ pause_irq => rfifo # <<>>
  /\ isr = "receive" => rfifo # <<>> \/ rx_in # rx_out
  /\ isr = "stop" => rx_in # rx_out

IInv == TypeOK /\ Locals /\ Handled /\ SentBytes /\ ReceivedBytes /\ Waking
=============================================================================
