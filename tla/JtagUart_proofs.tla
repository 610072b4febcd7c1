-------------------------- MODULE JtagUart_proofs --------------------------
(***************************************************************************)
(* Proofs about JtagUart, for rings and FIFOs of every size.               *)
(***************************************************************************)
EXTENDS JtagUart, TLAPS

-----------------------------------------------------------------------------
(* The rings. *)

\* Two indices are 0 .. BufLen - 1 apart, and 0 apart only if they are one.
LEMMA SpanRange ==
  ASSUME NEW a \in Index, NEW b \in Index
  PROVE  Span(a, b) \in Index /\ (Span(a, b) = 0 <=> a = b)
BY UartAssumption DEF Span, Index

\* The writing index moved on by m: so much more in the ring, and the new
\* entries are the ones from where it was.
LEMMA SpanGrows ==
  ASSUME NEW o \in Index, NEW i \in Index, NEW m \in Nat,
         Span(o, i) + m <= BufLen - 1, i + m <= BufLen
  PROVE  /\ Wrap(i + m) \in Index
         /\ Span(o, Wrap(i + m)) = Span(o, i) + m
         /\ \A j \in Index : Span(o, j) >= Span(o, i) /\ Span(o, j) < Span(o, i) + m
              => j = i + (Span(o, j) - Span(o, i))
BY UartAssumption DEF Span, Index, Wrap

\* The reading index moved on by m: so much less.
LEMMA SpanShrinks ==
  ASSUME NEW o \in Index, NEW i \in Index, NEW m \in Nat,
         m <= Span(o, i), o + m <= BufLen
  PROVE  /\ Wrap(o + m) \in Index
         /\ Span(Wrap(o + m), i) = Span(o, i) - m
         /\ \A j \in Index : Span(Wrap(o + m), j) < Span(o, i) - m
              => Span(o, j) = Span(Wrap(o + m), j) + m
BY UartAssumption DEF Span, Index, Wrap

\* What a writer finds room for keeps one entry free and ends in the array.
LEMMA RoomFits ==
  ASSUME NEW i \in Index, NEW o \in Index
  PROVE  /\ Room(i, o) \in Nat
         /\ Span(o, i) + Room(i, o) <= BufLen - 1 /\ i + Room(i, o) <= BufLen
BY UartAssumption DEF Span, Index, Room

\* What a reader finds is in the ring and ends in the array, and it is
\* nothing only if the ring is empty.
LEMMA FilledFits ==
  ASSUME NEW i \in Index, NEW o \in Index
  PROVE  /\ Filled(i, o) \in Nat
         /\ Filled(i, o) <= Span(o, i) /\ o + Filled(i, o) <= BufLen
         /\ Filled(i, o) = 0 => i = o
BY UartAssumption DEF Span, Index, Filled

\* The lesser of two numbers.
LEMMA LeastFits ==
  ASSUME NEW a \in Nat, NEW b \in Nat
  PROVE  /\ Least(a, b) \in Nat /\ Least(a, b) <= a /\ Least(a, b) <= b
         /\ Least(a, b) = 0 <=> a = 0 \/ b = 0
BY DEF Least

-----------------------------------------------------------------------------
(* What a step leaves alone. *)

USE DEF At, Go, Kept, Leave, Starting, Turn

\* The core and the host are left alone by all but these.
LEMMA CoreFrame ==
  ASSUME [Next]_vars
  PROVE  \/ UNCHANGED <<core, host>>
         \/ InitUart \/ Kick \/ ArmReceive
         \/ ReadData \/ StopReceive \/ SendByte \/ StopSending
         \/ HostTakes \/ HostTypes \/ HostPauses
BY DEF Next, vars, Program, Boot, Write, Read, Interrupt, Host,
  ClearIenable, EnableCpu, RegisterIsr, Call, Fill, CopyIn, PublishIn, Spin,
  Look, CopyOut, PublishOut, SpinForByte, Drain,
  TakeInterrupt, TestPending, Dispatch, ReadControl, Return

\* The rings are left alone by all but these.
LEMMA RingFrame ==
  ASSUME [Next]_vars
  PROVE  /\ UNCHANGED tx \/ CopyIn \/ PublishIn \/ SendByte
         /\ UNCHANGED rx \/ PublishOut \/ ReadData
BY DEF Next, vars, Program, Boot, Write, Read, Interrupt, Host,
  ClearIenable, EnableCpu, InitUart, RegisterIsr, Call, Fill, CopyIn, PublishIn,
  Kick, Spin, Look, CopyOut, PublishOut, SpinForByte, ArmReceive, Drain,
  TakeInterrupt, TestPending, Dispatch, ReadControl, ReadData, StopReceive,
  SendByte, StopSending, Return, HostTakes, HostTypes, HostPauses, tx, rx

\* The program's variables change in its own steps, and these are taken while
\* the routine does not run.
LEMMA CallFrame ==
  ASSUME [Next]_vars
  PROVE  \/ UNCHANGED call
         \/ (Program \/ Call) /\ isr = "off"
BY DEF Next, vars, Program, Boot, Write, Read, Interrupt, Host,
  ClearIenable, EnableCpu, InitUart, RegisterIsr, Call, Fill, CopyIn, PublishIn,
  Kick, Spin, Look, CopyOut, PublishOut, SpinForByte, ArmReceive, Drain,
  TakeInterrupt, TestPending, Dispatch, ReadControl, ReadData, StopReceive,
  SendByte, StopSending, Return, HostTakes, HostTypes, HostPauses

\* The processor and the routine's variables change at the start and in the
\* routine's steps.
LEMMA RoutineFrame ==
  ASSUME [Next]_vars
  PROVE  \/ UNCHANGED <<cpu, routine>>
         \/ ClearIenable \/ EnableCpu \/ RegisterIsr \/ Interrupt
BY DEF Next, vars, Program, Boot, Write, Read, Host,
  InitUart, Call, Fill, CopyIn, PublishIn,
  Kick, Spin, Look, CopyOut, PublishOut, SpinForByte, ArmReceive, Drain,
  HostTakes, HostTypes, HostPauses

-----------------------------------------------------------------------------
(* Types. *)

\* What is left of the receive FIFO after a read.
LEMMA RemainingBytes ==
  ASSUME CoreType
  PROVE  /\ Remaining \in Seq(Byte)
         /\ Len(Remaining) = IF rfifo = <<>> THEN 0 ELSE Len(rfifo) - 1
         /\ \A i \in 1 .. Len(Remaining) : Remaining[i] = rfifo[i + 1]
BY DEF CoreType, Remaining

\* The core's FIFOs hold bytes, and no more than they have room for.
LEMMA CoreStep == TypeOK /\ [Next]_vars => CoreType'
<1> SUFFICES ASSUME TypeOK, [Next]_vars PROVE CoreType'
  OBVIOUS
<1> USE UartAssumption DEF TypeOK, CoreType
<1>1. CASE UNCHANGED <<core, host>>
  BY <1>1 DEF core, host
<1>2. CASE InitUart \/ Kick \/ ArmReceive \/ StopReceive \/ StopSending
  BY <1>2 DEF InitUart, Kick, ArmReceive, StopReceive, StopSending, host
<1>3. CASE ReadData
  <2>1. rfifo' \in Seq(Byte) /\ Len(rfifo') <= HwDepth /\ typed' \in Byte
    BY <1>3, RemainingBytes DEF ReadData, Arrives, Byte
  <2> QED
    BY <1>3, <2>1 DEF ReadData
<1>4. CASE SendByte
  <2>1. tx_buf[tx_out] \in Byte
    BY DEF RingType
  <2>2. wfifo' \in Seq(Byte) /\ Len(wfifo') <= HwDepth
    BY <1>4, <2>1 DEF SendByte
  <2> QED
    BY <1>4, <2>2 DEF SendByte, host
<1>5. CASE HostTakes
  BY <1>5 DEF HostTakes, Byte
<1>6. CASE HostTypes
  BY <1>6 DEF HostTypes, Arrives, Byte
<1>7. CASE HostPauses
  BY <1>7 DEF HostPauses, host
<1> QED
  BY CoreFrame, <1>1, <1>2, <1>3, <1>4, <1>5, <1>6, <1>7

\* The indices stay in the rings.
LEMMA RingStep == TypeOK /\ Locals /\ [Next]_vars => RingType'
<1> SUFFICES ASSUME TypeOK, Locals, [Next]_vars PROVE RingType'
  OBVIOUS
<1> USE DEF TypeOK, RingType
<1>1. tx_buf' \in [Index -> Byte] /\ tx_in' \in Index /\ tx_out' \in Index
  <2>1. CASE UNCHANGED tx
    BY <2>1 DEF tx
  <2>2. CASE CopyIn
    <3>1. ptr + k + 1 \in Byte
      BY DEF CallType, Byte
    <3> QED
      BY <2>2, <3>1 DEF CopyIn
  <2>3. CASE PublishIn
    <3>1. tx_in + n <= BufLen /\ n \in Nat
      BY <2>3 DEF PublishIn, Locals, CallType
    <3>2. Wrap(tx_in + n) \in Index
      BY <3>1, UartAssumption DEF Wrap, Index
    <3> QED
      BY <2>3, <3>2 DEF PublishIn
  <2>4. CASE SendByte
    <3>1. Wrap(tx_out + 1) \in Index
      BY UartAssumption DEF Wrap, Index
    <3> QED
      BY <2>4, <3>1 DEF SendByte
  <2> QED
    BY RingFrame, <2>1, <2>2, <2>3, <2>4
<1>2. rx_buf' \in [Index -> Byte] /\ rx_in' \in Index /\ rx_out' \in Index
  <2>1. CASE UNCHANGED rx
    BY <2>1 DEF rx
  <2>2. CASE PublishOut
    <3>1. rx_out + n <= BufLen /\ n \in Nat
      BY <2>2 DEF PublishOut, Locals, CallType
    <3>2. Wrap(rx_out + n) \in Index
      BY <3>1, UartAssumption DEF Wrap, Index
    <3> QED
      BY <2>2, <3>2 DEF PublishOut
  <2>3. CASE ReadData /\ rfifo = <<>>
    BY <2>3 DEF ReadData
  <2>4. CASE ReadData /\ rfifo # <<>>
    <3>1. Head(rfifo) \in Byte
      BY <2>4 DEF CoreType
    <3>2. Wrap(rx_in + 1) \in Index
      BY UartAssumption DEF Wrap, Index
    <3> QED
      BY <2>4, <3>1, <3>2 DEF ReadData
  <2> QED
    BY RingFrame, <2>1, <2>2, <2>3, <2>4
<1> QED
  BY <1>1, <1>2

\* The calls' variables keep their bounds.
LEMMA CallStep == TypeOK /\ Locals /\ [Next]_vars => CallType' /\ Locals'
<1> SUFFICES ASSUME TypeOK, Locals, [Next]_vars PROVE CallType' /\ Locals'
  OBVIOUS
<1>a. ASSUME NEW m \in Nat, NEW r \in Nat, NEW i \in Index, m <= r, i + r <= BufLen, m <= count
      PROVE  m \in 0 .. MaxCall /\ i + m <= BufLen
  <2>1. count \in 0 .. MaxCall
    BY DEF TypeOK, CallType
  <2>2. m \in 0 .. MaxCall
    BY <1>a, <2>1, UartAssumption
  <2>3. i + m <= BufLen
    BY <1>a, UartAssumption DEF Index
  <2> QED
    BY <2>2, <2>3
<1> USE UartAssumption DEF TypeOK, CallType, Locals, Copying
<1>1. CASE UNCHANGED call
  <2>1. pc' = "w_copy" => UNCHANGED tx_in
    BY <1>1, RingFrame DEF call, tx, CopyIn, PublishIn, SendByte
  <2>2. pc' = "r_copy" => UNCHANGED rx_out
    BY <1>1, RingFrame DEF call, rx, PublishOut, ReadData
  <2> QED
    BY <1>1, <2>1, <2>2 DEF call
<1>2. CASE Boot
  BY <1>2 DEF Boot, ClearIenable, EnableCpu, InitUart, RegisterIsr
<1>3. CASE Call
  <2>1. /\ count' \in 0 .. MaxCall /\ (pc' = "r_look" => count' > 0)
        /\ pc' \in {"w_fill", "r_look", "drain"}
    BY <1>3 DEF Call
  <2>2. UNCHANGED <<seen, n, k, ptr, got>> /\ k = 0
    BY <1>3 DEF Call
  <2> QED
    BY <2>1, <2>2
<1>4. CASE Fill /\ count = 0
  BY <1>4 DEF Fill
<1>5. CASE Fill /\ count # 0
  <2>1. n' = Least(Room(tx_in, tx_out), count) /\ seen' = tx_out
    BY <1>5 DEF Fill
  <2>2. /\ Room(tx_in, tx_out) \in Nat /\ tx_in + Room(tx_in, tx_out) <= BufLen
        /\ tx_in \in Index /\ tx_out \in Index
    BY RoomFits DEF RingType
  <2>3. count \in Nat
    OBVIOUS
  <2>4. n' \in Nat /\ n' <= Room(tx_in, tx_out) /\ n' <= count
    BY <2>1, <2>2, <2>3, LeastFits
  <2>5. n' \in 0 .. MaxCall /\ tx_in + n' <= BufLen
    BY ONLY <2>2, <2>4, <1>a
  <2> QED
    BY <1>5, <2>1, <2>2, <2>4, <2>5 DEF Fill, tx
<1>6. CASE CopyIn
  BY <1>6 DEF CopyIn
<1>7. CASE PublishIn
  BY <1>7 DEF PublishIn, Index, Byte
<1>8. CASE Kick
  <2>1. UNCHANGED <<n, k, ptr, got>> /\ k = 0 /\ pc' \in {"idle", "w_spin"}
    BY <1>8 DEF Kick
  <2>2. count' \in {0, count} /\ seen' \in {0, seen}
    BY <1>8 DEF Kick
  <2> QED
    BY <2>1, <2>2 DEF Index
<1>9. CASE Spin
  BY <1>9 DEF Spin
<1>10. CASE Look
  <2>1. n' = Least(Filled(rx_in, rx_out), count)
    BY <1>10 DEF Look
  <2>2. /\ Filled(rx_in, rx_out) \in Nat /\ rx_out + Filled(rx_in, rx_out) <= BufLen
        /\ rx_out \in Index /\ rx_in \in Index
    BY FilledFits DEF RingType
  <2>3. count \in Nat \ {0} /\ UNCHANGED <<rx_out, k, ptr, got>> /\ k = 0
    BY <1>10 DEF Look, rx
  <2>4. n' \in Nat /\ n' <= Filled(rx_in, rx_out) /\ n' <= count
    BY <2>1, <2>2, <2>3, LeastFits
  <2>5. n' \in 0 .. MaxCall /\ rx_out + n' <= BufLen
    BY ONLY <2>2, <2>4, <1>a
  <2>6. CASE n' = 0 /\ ~some /\ ~blocking
    <3>1. pc' = "idle" /\ count' = 0 /\ seen' = 0
      BY <1>10, <2>6 DEF Look
    <3> QED
      BY <2>3, <2>5, <3>1 DEF Index
  <2>7. CASE ~(n' = 0 /\ ~some /\ ~blocking)
    <3>1. /\ UNCHANGED count /\ seen' = rx_in
          /\ pc' \in {"r_copy", "r_arm", "r_spin"} /\ (pc' = "r_copy" => n' > 0)
      BY <1>10, <2>7 DEF Look
    <3> QED
      BY <2>2, <2>3, <2>4, <2>5, <3>1
  <2> QED
    BY <2>6, <2>7
<1>11. CASE CopyOut
  <2>1. rx_buf[rx_out + k] \in Byte
    BY <1>11 DEF CopyOut, RingType, Index
  <2> QED
    BY <1>11, <2>1 DEF CopyOut, rx
<1>12. CASE PublishOut
  BY <1>12 DEF PublishOut, Index
<1>13. CASE SpinForByte
  <2>1. UNCHANGED <<count, seen, n, k, ptr, got>> /\ pc' = "r_look"
    BY <1>13 DEF SpinForByte
  <2>2. k = 0 /\ count > 0
    BY <1>13 DEF SpinForByte
  <2> QED
    BY <2>1, <2>2
<1>14. CASE ArmReceive
  <2>1. /\ UNCHANGED <<n, k, ptr, got>> /\ k = 0
        /\ pc' = "idle" /\ count' = 0 /\ seen' = 0
    BY <1>14 DEF ArmReceive
  <2> QED
    BY <2>1 DEF Index
<1>15. CASE Drain
  <2>1. /\ UNCHANGED <<n, k, ptr, got>> /\ k = 0
        /\ pc' = "idle" /\ count' = 0 /\ seen' = 0
    BY <1>15 DEF Drain
  <2> QED
    BY <2>1 DEF Index
<1> QED
  BY CallFrame, <1>1, <1>2, <1>3, <1>4, <1>5, <1>6, <1>7, <1>8, <1>9, <1>10,
     <1>11, <1>12, <1>13, <1>14, <1>15 DEF Program, Write, Read

\* The routine's variables.
LEMMA RoutineStep == TypeOK /\ [Next]_vars => RoutineType'
<1> SUFFICES ASSUME TypeOK, [Next]_vars PROVE RoutineType'
  OBVIOUS
<1> USE UartAssumption DEF TypeOK, RoutineType
<1>1. CASE UNCHANGED <<cpu, routine>>
  BY <1>1 DEF routine
<1>2. CASE ClearIenable \/ EnableCpu \/ RegisterIsr
  BY <1>2 DEF ClearIenable, EnableCpu, RegisterIsr, routine
<1>3. CASE TakeInterrupt \/ TestPending \/ Dispatch \/ Return
  BY <1>3 DEF TakeInterrupt, TestPending, Dispatch, Return
<1>4. CASE ReadControl
  <2>1. space' \in 0 .. HwDepth
    BY <1>4 DEF ReadControl, CoreType
  <2> QED
    BY <1>4, <2>1 DEF ReadControl
<1>5. CASE ReadData
  BY <1>5 DEF ReadData
<1>6. CASE StopReceive \/ SendByte \/ StopSending
  BY <1>6 DEF StopReceive, SendByte, StopSending
<1> QED
  BY RoutineFrame, <1>1, <1>2, <1>3, <1>4, <1>5, <1>6 DEF Interrupt

\* The flags.
LEMMA FlagStep == TypeOK /\ [Next]_vars => FlagType'
<1> SUFFICES ASSUME FlagType, [Next]_vars PROVE FlagType'
  BY DEF TypeOK
<1>1. pause_irq' \in BOOLEAN
  <2>1. CASE UNCHANGED <<core, host>>
    BY <2>1 DEF core, FlagType
  <2>2. CASE ~UNCHANGED <<core, host>>
    BY <2>2, CoreFrame DEF FlagType, InitUart, Kick, ArmReceive, ReadData, StopReceive,
      SendByte, StopSending, HostTakes, HostTypes, HostPauses
  <2> QED
    BY <2>1, <2>2
<1>2. blocking' \in BOOLEAN /\ some' \in BOOLEAN
  <2>1. CASE UNCHANGED call
    BY <2>1 DEF call, FlagType
  <2>2. CASE Boot
    BY <2>2 DEF Boot, ClearIenable, EnableCpu, InitUart, RegisterIsr, FlagType
  <2>3. CASE Call
    BY <2>3 DEF Call
  <2>4. CASE Write
    BY <2>4 DEF Write, Fill, CopyIn, PublishIn, Kick, Spin, FlagType
  <2>5. CASE Read \/ Drain
    BY <2>5 DEF Read, Look, CopyOut, PublishOut, SpinForByte, ArmReceive, Drain, FlagType
  <2> QED
    BY CallFrame, <2>1, <2>2, <2>3, <2>4, <2>5 DEF Program
<1>3. /\ PIE' \in BOOLEAN /\ ienable' \in BOOLEAN /\ handler' \in BOOLEAN
      /\ wi' \in BOOLEAN /\ avail' \in BOOLEAN
  <2>1. CASE UNCHANGED <<cpu, routine>>
    BY <2>1 DEF cpu, routine, FlagType
  <2>2. CASE ClearIenable \/ EnableCpu \/ RegisterIsr
    BY <2>2 DEF ClearIenable, EnableCpu, RegisterIsr, routine, FlagType
  <2>3. CASE TakeInterrupt \/ TestPending \/ Dispatch \/ Return
    BY <2>3 DEF TakeInterrupt, TestPending, Dispatch, Return, cpu, FlagType
  <2>4. CASE ReadControl
    BY <2>4 DEF ReadControl, ipen_AE, ipen_AF, cpu, FlagType
  <2>5. CASE ReadData \/ StopReceive \/ SendByte \/ StopSending
    BY <2>5 DEF ReadData, StopReceive, SendByte, StopSending, cpu, FlagType
  <2> QED
    BY RoutineFrame, <2>1, <2>2, <2>3, <2>4, <2>5 DEF Interrupt
<1> QED
  BY <1>1, <1>2, <1>3 DEF FlagType

-----------------------------------------------------------------------------
(* The interrupt. *)

\* While the routine runs no step of the program does, and before the handler
\* is registered only the start of the program is under way.
LEMMA HandledStep == IInv /\ [Next]_vars => Handled'
<1> SUFFICES ASSUME TypeOK, Handled, [Next]_vars PROVE Handled'
  BY DEF IInv
<1> USE DEF Handled, Booting, NoneUnhandled
<1>1. CASE UNCHANGED vars
  BY <1>1 DEF vars, core, cpu, tx, rx, call, routine, Pending, ipen_AE, ipen_AF
<1>2. CASE Boot
  BY <1>2 DEF Boot, ClearIenable, EnableCpu, InitUart, RegisterIsr, cpu, tx, rx, routine
<1>3. CASE Call
  <2>1. pc' \in {"w_fill", "r_look", "drain"} /\ pc = "idle" /\ isr = "off"
    BY <1>3 DEF Call
  <2>2. UNCHANGED <<cpu, routine>>
    BY <1>3 DEF Call
  <2> QED
    BY <2>1, <2>2 DEF cpu, routine
<1>4. CASE Write
  BY <1>4 DEF Write, Fill, CopyIn, PublishIn, Kick, Spin, cpu, routine
<1>5. CASE Read
  BY <1>5 DEF Read, Look, CopyOut, PublishOut, SpinForByte, ArmReceive, cpu, routine
<1>6. CASE Drain
  BY <1>6 DEF Drain, cpu, routine
<1>7. CASE TakeInterrupt
  <2>1. Pending /\ Pending' /\ ~Booting
    BY <1>7 DEF TakeInterrupt, Pending, ipen_AE, ipen_AF, core, call
  <2> QED
    BY <1>7, <2>1 DEF TakeInterrupt, tx, rx, call
<1>8. CASE TestPending \/ Dispatch
  <2>1. Pending' = Pending
    BY <1>8 DEF TestPending, Dispatch, Pending, ipen_AE, ipen_AF, core, cpu
  <2> QED
    BY <1>8, <2>1 DEF TestPending, Dispatch, cpu, tx, rx, call
<1>9. CASE ReadControl
  BY <1>9 DEF ReadControl, cpu, tx, rx, call
<1>10. CASE ReadData
  BY <1>10 DEF ReadData, cpu, tx, call
<1>11. CASE StopReceive
  BY <1>11 DEF StopReceive, cpu, tx, rx, call
<1>12. CASE SendByte
  BY <1>12 DEF SendByte, cpu, rx, call
<1>13. CASE StopSending
  BY <1>13 DEF StopSending, cpu, tx, rx, call
<1>14. CASE Return
  BY <1>14 DEF Return, tx, rx, call
<1>15. CASE HostTypes \/ HostPauses
  <2>1. HwDepth - Len(rfifo) <= Margin => HwDepth - Len(rfifo') <= Margin
    BY <1>15, UartAssumption DEF HostTypes, HostPauses, TypeOK, CoreType, Arrives
  <2>2. Pending => Pending'
    BY <1>15, <2>1 DEF HostTypes, HostPauses, Pending, ipen_AE, ipen_AF, cpu
  <2>3. UNCHANGED <<cpu, tx, rx, call, routine>>
    BY <1>15 DEF HostTypes, HostPauses
  <2> QED
    BY <2>2, <2>3 DEF cpu, tx, rx, call, routine
<1>16. CASE HostTakes
  <2>1. Len(wfifo) <= Margin => Len(wfifo') <= Margin
    BY <1>16, UartAssumption DEF HostTakes, TypeOK, CoreType
  <2>2. Pending => Pending'
    BY <1>16, <2>1 DEF HostTakes, Pending, ipen_AE, ipen_AF, cpu
  <2>3. UNCHANGED <<cpu, tx, rx, call, routine>>
    BY <1>16 DEF HostTakes
  <2> QED
    BY <2>2, <2>3 DEF cpu, tx, rx, call, routine
<1> QED
  BY <1>1, <1>2, <1>3, <1>4, <1>5, <1>6, <1>7, <1>8, <1>9, <1>10, <1>11, <1>12,
     <1>13, <1>14, <1>15, <1>16 DEF Next, Program, Interrupt, Host

-----------------------------------------------------------------------------
(* The bytes on their way to the host. *)

\* A FIFO whose bytes are numbered one after the other stays so if the next
\* number is added.
LEMMA AppendNumbered ==
  ASSUME NEW s \in Seq(Nat), NEW b \in Int, NEW e \in Nat, e = b + Len(s) + 1,
         \A i \in 1 .. Len(s) : s[i] = b + i
  PROVE  /\ Append(s, e) \in Seq(Nat) /\ Len(Append(s, e)) = Len(s) + 1
         /\ \A i \in 1 .. Len(Append(s, e)) : Append(s, e)[i] = b + i
<1>1. Append(s, e) \in Seq(Nat) /\ Len(Append(s, e)) = Len(s) + 1
  OBVIOUS
<1>2. ASSUME NEW i \in 1 .. Len(s) + 1 PROVE Append(s, e)[i] = b + i
  <2>1. CASE i = Len(s) + 1
    BY <2>1
  <2>2. CASE i \in 1 .. Len(s)
    BY <2>2
  <2> QED
    BY <2>1, <2>2
<1> QED
  BY <1>1, <1>2

\* They are left alone, but for the room the routine counted, by all but these.
LEMMA SentFrame ==
  ASSUME [Next]_vars
  PROVE  \/ /\ UNCHANGED <<heard, wfifo, tx, ptr>> /\ space' \in {space, 0}
            /\ pc' = "w_copy" => pc = "w_copy" /\ UNCHANGED <<n, k>>
         \/ HostTakes \/ Fill \/ CopyIn \/ PublishIn \/ ReadControl \/ SendByte
BY DEF Next, vars, Program, Boot, Write, Read, Interrupt, Host,
  ClearIenable, EnableCpu, InitUart, RegisterIsr, Call, Kick, Spin, Look, CopyOut,
  PublishOut, SpinForByte, ArmReceive, Drain, TakeInterrupt, TestPending, Dispatch,
  ReadData, StopReceive, StopSending, Return, HostTypes, HostPauses,
  core, host, cpu, rx, call, routine

\* Each byte is in its place: in the FIFO, in the ring after it, or copied
\* there by the writer but not yet published.
LEMMA SentStep == IInv /\ [Next]_vars => SentBytes'
<1> SUFFICES ASSUME TypeOK, Locals, SentBytes, [Next]_vars PROVE SentBytes'
  BY DEF IInv
<1>a. /\ heard \in Nat /\ wfifo \in Seq(Nat) /\ Len(wfifo) \in Nat /\ ptr \in Nat
      /\ space \in Nat /\ n \in Nat /\ k \in Nat /\ k <= n
      /\ tx_in \in Index /\ tx_out \in Index /\ tx_buf \in [Index -> Nat]
  BY UartAssumption DEF TypeOK, CoreType, RingType, CallType, RoutineType, Byte
<1>b. TxUsed \in Nat /\ (TxUsed = 0 <=> tx_in = tx_out)
  <2>1. TxUsed \in Index /\ (TxUsed = 0 <=> tx_out = tx_in)
    BY <1>a, SpanRange DEF TxUsed
  <2> QED
    BY <2>1, UartAssumption DEF Index
<1>1. CASE /\ UNCHANGED <<heard, wfifo, tx, ptr>> /\ space' \in {space, 0}
           /\ pc' = "w_copy" => pc = "w_copy" /\ UNCHANGED <<n, k>>
  <2>1. space' + Len(wfifo) <= HwDepth
    BY <1>1, <1>a, UartAssumption DEF SentBytes
  <2>2. TxUsed' = TxUsed
    BY <1>1 DEF tx, TxUsed
  <2> QED
    BY <1>1, <2>1, <2>2 DEF SentBytes, tx
<1>2. CASE HostTakes
  <2>1. /\ heard' = heard + 1 /\ Len(wfifo') = Len(wfifo) - 1
        /\ \A i \in 1 .. Len(wfifo') : wfifo'[i] = wfifo[i + 1]
    BY <1>2, <1>a DEF HostTakes, SentBytes
  <2>2. UNCHANGED <<tx_buf, tx_in, tx_out, ptr, pc, n, k, space>> /\ TxUsed' = TxUsed
    BY <1>2 DEF HostTakes, tx, call, routine, TxUsed
  <2>3. \A i \in 1 .. Len(wfifo') : wfifo'[i] = heard' + i
    BY <2>1, <1>a DEF SentBytes
  <2>4. heard' + Len(wfifo') = heard + Len(wfifo)
    BY <2>1, <1>a
  <2>5. space' + Len(wfifo') <= HwDepth
    BY <2>1, <2>2, <1>a, UartAssumption DEF SentBytes
  <2> QED
    BY <2>2, <2>3, <2>4, <2>5 DEF SentBytes
<1>3. CASE Fill
  <2>1. UNCHANGED <<heard, wfifo, tx_buf, tx_in, tx_out, ptr, space>> /\ TxUsed' = TxUsed
    BY <1>3 DEF Fill, host, core, tx, routine, TxUsed
  <2>2. k' = 0
    BY <1>3 DEF Fill, Locals, Copying
  <2>3. pc' = "w_copy" => n' \in Nat /\ n' <= Room(tx_in, tx_out)
    <3>1. Room(tx_in, tx_out) \in Nat /\ count \in Nat
      BY <1>a, RoomFits, UartAssumption DEF TypeOK, CallType
    <3> QED
      BY <1>3, <3>1, LeastFits DEF Fill
  <2>4. pc' = "w_copy" => TxUsed + n' <= BufLen - 1
    BY <2>3, <1>a, <1>b, RoomFits, UartAssumption DEF TxUsed
  <2> QED
    BY <2>1, <2>2, <2>4 DEF SentBytes
<1>4. CASE CopyIn
  <2>1. /\ UNCHANGED <<heard, wfifo, tx_in, tx_out, ptr, space, pc, n>> /\ TxUsed' = TxUsed
        /\ pc = "w_copy" /\ k < n /\ k' = k + 1
        /\ tx_buf' = [tx_buf EXCEPT ![tx_in + k] = ptr + k + 1]
    BY <1>4 DEF CopyIn, host, core, routine, TxUsed
  <2>2. tx_in + n <= BufLen /\ TxUsed + n <= BufLen - 1
    BY <2>1 DEF Locals, SentBytes
  <2>3. tx_in + k \in Index /\ Span(tx_out, tx_in + k) = TxUsed + k
    <3>1. tx_in + k \in Index /\ Wrap(tx_in + k) = tx_in + k
      BY <2>1, <2>2, <1>a, UartAssumption DEF Index, Wrap
    <3>2. TxUsed + k <= BufLen - 1 /\ tx_in + k <= BufLen
      BY <2>1, <2>2, <1>a, <1>b, UartAssumption DEF Index
    <3> QED
      BY <3>1, <3>2, <1>a, SpanGrows DEF TxUsed
  <2>4. ASSUME NEW i \in Index, Span(tx_out, i) < TxUsed
        PROVE  tx_buf'[i] = heard + Len(wfifo) + Span(tx_out, i) + 1
    <3>1. i # tx_in + k
      BY <2>3, <2>4, <1>a, <1>b
    <3> QED
      BY <3>1, <2>1, <2>4, <1>a DEF SentBytes
  <2>5. ASSUME NEW j \in 0 .. k PROVE tx_buf'[tx_in + j] = ptr + j + 1
    <3>1. CASE j = k
      BY <3>1, <2>1, <2>3, <1>a
    <3>2. CASE j \in 0 .. k - 1
      <4>1. tx_in + j \in Index /\ tx_in + j # tx_in + k
        BY <3>2, <2>3, <1>a, UartAssumption DEF Index
      <4> QED
        BY <4>1, <3>2, <2>1, <1>a DEF SentBytes
    <3> QED
      BY <3>1, <3>2, <1>a
  <2>6. 0 .. k' - 1 = 0 .. k
    BY <2>1, <1>a
  <2> QED
    BY <2>1, <2>2, <2>4, <2>5, <2>6 DEF SentBytes
<1>5. CASE PublishIn
  <2>1. /\ UNCHANGED <<heard, wfifo, tx_buf, tx_out, space>>
        /\ pc = "w_copy" /\ k = n /\ pc' = "w_fill"
        /\ tx_in' = Wrap(tx_in + n) /\ ptr' = ptr + n
    BY <1>5 DEF PublishIn, host, core, routine
  <2>2. tx_in + n <= BufLen /\ TxUsed + n <= BufLen - 1
    BY <2>1 DEF Locals, SentBytes
  <2>3. /\ TxUsed' = TxUsed + n
        /\ \A i \in Index : Span(tx_out, i) >= TxUsed /\ Span(tx_out, i) < TxUsed + n
             => i = tx_in + (Span(tx_out, i) - TxUsed)
    BY <2>1, <2>2, <1>a, SpanGrows DEF TxUsed
  <2>0. \A i \in Index : Span(tx_out, i) \in Nat
    <3>1. \A i \in Index : Span(tx_out, i) \in Index
      BY <1>a, SpanRange
    <3> QED
      BY <3>1, UartAssumption DEF Index
  <2>4. ASSUME NEW i \in Index, Span(tx_out, i) < TxUsed + n
        PROVE  tx_buf[i] = heard + Len(wfifo) + Span(tx_out, i) + 1
    <3>1. CASE Span(tx_out, i) < TxUsed
      BY <3>1 DEF SentBytes
    <3>2. CASE Span(tx_out, i) >= TxUsed
      <4> DEFINE j == Span(tx_out, i) - TxUsed
      <4>2. j \in 0 .. k - 1 /\ i = tx_in + j /\ Span(tx_out, i) = TxUsed + j
        BY <2>0, <3>2, <2>1, <2>3, <2>4, <1>a, <1>b
      <4> HIDE DEF j
      <4>3. tx_buf[i] = ptr + j + 1
        BY <4>2, <2>1 DEF SentBytes
      <4>4. ptr = heard + Len(wfifo) + TxUsed
        BY DEF SentBytes
      <4> QED
        BY <4>2, <4>3, <4>4, <1>a, <1>b
    <3> QED
      BY <3>1, <3>2, <2>0, <1>b
  <2>5. heard' + Len(wfifo') + TxUsed' = ptr'
    <3>1. heard + Len(wfifo) + TxUsed = ptr
      BY DEF SentBytes
    <3>2. heard' = heard /\ Len(wfifo') = Len(wfifo) /\ ptr' = ptr + n
      BY <2>1
    <3> QED
      BY <3>1, <3>2, <2>3, <1>a, <1>b
  <2> QED
    BY <2>1, <2>3, <2>4, <2>5 DEF SentBytes
<1>6. CASE ReadControl
  <2>1. UNCHANGED <<heard, wfifo, tx_buf, tx_in, tx_out, ptr, pc, n, k>> /\ TxUsed' = TxUsed
    BY <1>6 DEF ReadControl, host, core, tx, call, TxUsed
  <2>2. space' \in {0, HwDepth - Len(wfifo)}
    BY <1>6 DEF ReadControl
  <2>3. space' + Len(wfifo) <= HwDepth
    BY <2>2, <1>a, UartAssumption DEF SentBytes
  <2> QED
    BY <2>1, <2>3 DEF SentBytes
<1>7. CASE SendByte
  <2>1. /\ UNCHANGED <<heard, tx_buf, tx_in, ptr, pc, n, k>>
        /\ space > 0 /\ tx_out # tx_in /\ space' = space - 1
        /\ tx_out' = Wrap(tx_out + 1)
    BY <1>7 DEF SendByte, host, call
  <2>2. Len(wfifo) < HwDepth
    BY <2>1, <1>a, UartAssumption DEF SentBytes
  <2>3. wfifo' = Append(wfifo, tx_buf[tx_out])
    BY <1>7, <2>2 DEF SendByte
  <2>4. tx_out + 1 <= BufLen /\ 1 <= TxUsed
    BY <2>1, <1>a, <1>b, UartAssumption DEF Index
  <2>5. /\ TxUsed' = TxUsed - 1
        /\ \A i \in Index : Span(tx_out', i) < TxUsed - 1
             => Span(tx_out, i) = Span(tx_out', i) + 1
    BY <2>1, <2>4, <1>a, SpanShrinks DEF TxUsed
  <2>6. tx_buf[tx_out] = heard + Len(wfifo) + 1
    <3>1. Span(tx_out, tx_out) = 0
      BY <1>a, SpanRange
    <3> QED
      BY <3>1, <2>4, <1>a, <1>b DEF SentBytes
  <2>7. /\ Len(wfifo') = Len(wfifo) + 1
        /\ \A i \in 1 .. Len(wfifo') : wfifo'[i] = heard' + i
    <3>1. heard + Len(wfifo) + 1 \in Nat /\ heard \in Int /\ heard' = heard
      BY <2>1, <1>a
    <3>2. \A i \in 1 .. Len(wfifo) : wfifo[i] = heard + i
      BY DEF SentBytes
    <3>3. wfifo' = Append(wfifo, heard + Len(wfifo) + 1)
      BY <2>3, <2>6
    <3>4. /\ Len(Append(wfifo, heard + Len(wfifo) + 1)) = Len(wfifo) + 1
          /\ \A i \in 1 .. Len(Append(wfifo, heard + Len(wfifo) + 1)) :
               Append(wfifo, heard + Len(wfifo) + 1)[i] = heard + i
      BY ONLY <3>1, <3>2, <1>a, AppendNumbered
    <3> QED
      BY ONLY <3>1, <3>3, <3>4
  <2>8. tx_out' \in Index
    BY <2>1, <2>4, <1>a, SpanShrinks DEF TxUsed
  <2>9. ASSUME NEW i \in Index, Span(tx_out', i) < TxUsed'
        PROVE  tx_buf[i] = heard + Len(wfifo') + Span(tx_out', i) + 1
    <3>1. Span(tx_out', i) \in Int
      <4>1. Span(tx_out', i) \in Index
        BY <2>8, SpanRange
      <4> QED
        BY <4>1, UartAssumption DEF Index
    <3>2. Span(tx_out, i) = Span(tx_out', i) + 1
      BY <2>5, <2>9
    <3>3. Span(tx_out, i) < TxUsed
      BY <3>1, <3>2, <2>5, <2>9, <1>b
    <3>4. tx_buf[i] = heard + Len(wfifo) + Span(tx_out, i) + 1
      BY <3>3 DEF SentBytes
    <3> QED
      BY <3>1, <3>2, <3>4, <2>7, <1>a
  <2>10. /\ heard' + Len(wfifo') + TxUsed' = ptr' /\ space' + Len(wfifo') <= HwDepth
         /\ pc' = "w_copy" => TxUsed' + n' <= BufLen - 1
    BY <2>1, <2>5, <2>7, <1>a, <1>b, UartAssumption DEF SentBytes
  <2> QED
    BY <2>1, <2>7, <2>9, <2>10 DEF SentBytes
<1> QED
  BY SentFrame, <1>1, <1>2, <1>3, <1>4, <1>5, <1>6, <1>7

-----------------------------------------------------------------------------
(* The bytes on their way to the program. *)

\* They are left alone by all but these.
LEMMA ReceivedFrame ==
  ASSUME [Next]_vars
  PROVE  \/ /\ UNCHANGED <<typed, rfifo, rx, got>> /\ (pc' = "r_copy" <=> pc = "r_copy")
            /\ pc = "r_copy" => UNCHANGED <<n, k>>
         \/ HostTypes \/ Look \/ CopyOut \/ PublishOut \/ ReadData
BY DEF Next, vars, Program, Boot, Write, Read, Interrupt, Host,
  ClearIenable, EnableCpu, InitUart, RegisterIsr, Call, Fill, CopyIn, PublishIn,
  Kick, Spin, SpinForByte, ArmReceive, Drain, TakeInterrupt, TestPending, Dispatch,
  ReadControl, SendByte, StopReceive, StopSending, Return, HostTakes, HostPauses,
  core, host, cpu, tx, call, routine

\* The routine puts a byte into the ring only if one more entry stays free.
LEMMA NotFull ==
  ASSUME NEW o \in Index, NEW i \in Index, Wrap(i + 1) # o
  PROVE  Span(o, i) + 1 <= BufLen - 1 /\ i + 1 <= BufLen
BY UartAssumption DEF Span, Index, Wrap

\* u and l bytes in the ring and the FIFO, and d of them moved on.
LEMMA Balance ==
  ASSUME NEW g \in Nat, NEW h \in Nat, NEW u \in Nat, NEW l \in Nat, NEW t \in Nat,
         NEW d \in Nat, NEW l1 \in Nat, NEW t1 \in Nat,
         g + u + l = t + h, t1 - l1 = t - l + d
  PROVE  g + (u + d) + l1 = t1 + h
OBVIOUS

\* Each byte is in its place: in the FIFO or in the ring before it.
LEMMA ReceivedStep == IInv /\ [Next]_vars => ReceivedBytes'
<1> SUFFICES ASSUME TypeOK, Locals, ReceivedBytes, [Next]_vars PROVE ReceivedBytes'
  BY DEF IInv
<1>a. /\ typed \in Nat /\ rfifo \in Seq(Nat) /\ Len(rfifo) \in Nat /\ got \in Nat
      /\ n \in Nat /\ k \in Nat /\ k <= n
      /\ rx_in \in Index /\ rx_out \in Index /\ rx_buf \in [Index -> Nat]
  BY UartAssumption DEF TypeOK, CoreType, RingType, CallType, Byte
<1>b. RxUsed \in Index /\ (RxUsed = 0 <=> rx_out = rx_in)
  BY <1>a, SpanRange DEF RxUsed
<1>c. RxUsed \in Nat
  BY <1>b, UartAssumption DEF Index
<1>d. \A i \in Index : Span(rx_out, i) \in Nat
  <2>1. \A i \in Index : Span(rx_out, i) \in Index
    BY <1>a, SpanRange
  <2> QED
    BY <2>1, UartAssumption DEF Index
<1>e. \A i \in 1 .. Len(rfifo) : rfifo[i] = (typed - Len(rfifo)) + i
  BY DEF ReceivedBytes
<1>f. got + RxUsed + Len(rfifo) = typed + (IF pc = "r_copy" THEN k ELSE 0)
  BY DEF ReceivedBytes
<1> HIDE DEF RxUsed
<1>1. CASE /\ UNCHANGED <<typed, rfifo, rx, got>> /\ (pc' = "r_copy" <=> pc = "r_copy")
           /\ pc = "r_copy" => UNCHANGED <<n, k>>
  <2>1. RxUsed' = RxUsed
    BY <1>1 DEF rx, RxUsed
  <2> QED
    BY <1>1, <2>1 DEF ReceivedBytes, rx
<1>2. CASE HostTypes
  <2>1. /\ typed' = typed + 1 /\ rfifo' = Append(rfifo, typed + 1)
        /\ UNCHANGED <<rx_buf, rx_in, rx_out, got, pc, n, k>> /\ RxUsed' = RxUsed
    BY <1>2 DEF HostTypes, Arrives, rx, call, RxUsed
  <2>2. typed - Len(rfifo) \in Int /\ typed + 1 = typed - Len(rfifo) + Len(rfifo) + 1
        /\ typed + 1 \in Nat
    BY <1>a
  <2>3. /\ Len(rfifo') = Len(rfifo) + 1
        /\ \A i \in 1 .. Len(rfifo') : rfifo'[i] = (typed - Len(rfifo)) + i
    BY ONLY <2>1, <2>2, <1>a, <1>e, AppendNumbered
  <2>4. typed' - Len(rfifo') = typed - Len(rfifo)
    BY <2>1, <2>3, <1>a
  <2>5. got' + RxUsed' + Len(rfifo') = typed' + (IF pc' = "r_copy" THEN k' ELSE 0)
    BY <2>1, <2>3, <1>a, <1>c, <1>f
  <2> QED
    BY <2>1, <2>3, <2>4, <2>5 DEF ReceivedBytes
<1>3. CASE Look
  <2>1. UNCHANGED <<typed, rfifo, rx_buf, rx_in, rx_out, got>> /\ RxUsed' = RxUsed
    BY <1>3 DEF Look, host, core, rx, RxUsed
  <2>2. k' = 0 /\ k = 0 /\ pc = "r_look"
    BY <1>3 DEF Look, Locals, Copying
  <2>3. n' <= RxUsed
    <3>1. Filled(rx_in, rx_out) \in Nat /\ Filled(rx_in, rx_out) <= RxUsed
      BY <1>a, FilledFits DEF RxUsed
    <3>2. count \in Nat
      BY UartAssumption DEF TypeOK, CallType
    <3>3. n' \in Nat /\ n' <= Filled(rx_in, rx_out)
      BY <1>3, <3>1, <3>2, LeastFits DEF Look
    <3> QED
      BY <3>1, <3>3, <1>c
  <2> QED
    BY <2>1, <2>2, <2>3 DEF ReceivedBytes
<1>4. CASE CopyOut
  <2>1. /\ UNCHANGED <<typed, rfifo, rx_buf, rx_in, rx_out, pc, n>> /\ RxUsed' = RxUsed
        /\ pc = "r_copy" /\ k < n /\ k' = k + 1 /\ got' = rx_buf[rx_out + k]
    BY <1>4 DEF CopyOut, host, core, rx, RxUsed
  <2>2. rx_out + n <= BufLen /\ n <= RxUsed
    BY <2>1 DEF Locals, ReceivedBytes
  <2>3. rx_out + k \in Index /\ Span(rx_out, rx_out + k) = k
    BY <2>1, <2>2, <1>a, UartAssumption DEF Index, Span
  <2>4. rx_buf[rx_out + k] = typed - Len(rfifo) - RxUsed + k + 1
    BY <2>1, <2>2, <2>3, <1>a, <1>c DEF ReceivedBytes
  <2>5. got + RxUsed + Len(rfifo) = typed + k
    BY <2>1 DEF ReceivedBytes
  <2>6. got' + RxUsed' + Len(rfifo') = typed' + (IF pc' = "r_copy" THEN k' ELSE 0)
    BY <2>1, <2>4, <2>5, <1>a, <1>c
  <2> QED
    BY <2>1, <2>2, <2>6 DEF ReceivedBytes
<1>5. CASE PublishOut
  <2>1. /\ UNCHANGED <<typed, rfifo, rx_buf, rx_in, got>>
        /\ pc = "r_copy" /\ k = n /\ pc' # "r_copy" /\ rx_out' = Wrap(rx_out + n)
    BY <1>5 DEF PublishOut, host, core
  <2>2. rx_out + n <= BufLen /\ n <= RxUsed
    BY <2>1 DEF Locals, ReceivedBytes
  <2>3. /\ rx_out' \in Index /\ RxUsed' = RxUsed - n
        /\ \A i \in Index : Span(rx_out', i) < RxUsed - n
             => Span(rx_out, i) = Span(rx_out', i) + n
    BY <2>1, <2>2, <1>a, SpanShrinks DEF RxUsed
  <2>4. ASSUME NEW i \in Index, Span(rx_out', i) < RxUsed'
        PROVE  rx_buf[i] = typed - Len(rfifo) - RxUsed' + Span(rx_out', i) + 1
    <3>1. Span(rx_out', i) \in Nat
      <4>1. Span(rx_out', i) \in Index
        BY <2>3, SpanRange
      <4> QED
        BY <4>1, UartAssumption DEF Index
    <3>2. Span(rx_out, i) = Span(rx_out', i) + n
      BY <2>3, <2>4
    <3>3. Span(rx_out, i) < RxUsed
      BY <3>1, <3>2, <2>3, <2>4, <1>a, <1>c
    <3>4. rx_buf[i] = typed - Len(rfifo) - RxUsed + Span(rx_out, i) + 1
      BY <3>3 DEF ReceivedBytes
    <3> QED
      BY <3>1, <3>2, <3>4, <2>3, <1>a, <1>c
  <2>5. got' + RxUsed' + Len(rfifo') = typed' + (IF pc' = "r_copy" THEN k' ELSE 0)
    <3>1. got + RxUsed + Len(rfifo) = typed + n
      BY <2>1 DEF ReceivedBytes
    <3>2. got' = got /\ Len(rfifo') = Len(rfifo) /\ typed' = typed
      BY <2>1
    <3> QED
      BY <3>1, <3>2, <2>1, <2>3, <1>a, <1>c
  <2> QED
    BY <2>1, <2>4, <2>5 DEF ReceivedBytes
<1>6. CASE ReadData
  <2>1. /\ ~RxFull /\ UNCHANGED <<got, rx_out, pc, n, k>>
        /\ typed' \in {typed, typed + 1}
        /\ rfifo' = IF typed' # typed THEN Append(Remaining, typed') ELSE Remaining
    BY <1>6, <1>a DEF ReadData, Arrives, call
  <2>a. PICK h \in Nat : /\ h \in Nat /\ h = (IF pc' = "r_copy" THEN k' ELSE 0)
                        /\ got + RxUsed + Len(rfifo) = typed + h
    BY <2>1, <1>a, <1>f
  <2>b. h \in Nat /\ got + RxUsed + Len(rfifo) = typed + h
    BY <2>a
  <2>2. CASE rfifo = <<>>
    <3>1. UNCHANGED <<rx_buf, rx_in>> /\ Remaining = <<>> /\ RxUsed' = RxUsed
      BY <1>6, <2>1, <2>2 DEF ReadData, Remaining, RxUsed
    <3>2. /\ typed' - Len(rfifo') = typed - Len(rfifo)
          /\ \A i \in 1 .. Len(rfifo') : rfifo'[i] = (typed' - Len(rfifo')) + i
      <4>1. CASE typed' = typed
        BY <4>1, <2>1, <2>2, <3>1, <1>a
      <4>2. CASE typed' = typed + 1
        <5>1. rfifo' = <<typed + 1>>
          BY <4>2, <2>1, <3>1, <1>a
        <5> QED
          BY <4>2, <5>1, <2>2, <1>a
      <4> QED
        BY <2>1, <4>1, <4>2
    <3>3. got' + RxUsed' + Len(rfifo') = typed' + h
      <4>1. Len(rfifo') \in Nat /\ typed' \in Nat
        BY <2>1, <3>1, <1>a
      <4>2. got' = got
        BY <2>1
      <4>3. typed' - Len(rfifo') = typed - Len(rfifo)
        BY <3>2
      <4>4. typed' - Len(rfifo') = typed - Len(rfifo) + 0
        BY <4>3, <1>a
      <4>5. got + (RxUsed + 0) + Len(rfifo') = typed' + h
        BY ONLY <4>1, <4>4, <2>b, <1>a, <1>c, Balance
      <4>6. RxUsed' = RxUsed
        BY <3>1
      <4> QED
        BY ONLY <4>2, <4>5, <4>6, <1>c
    <3> QED
      BY <2>1, <2>a, <3>1, <3>2, <3>3 DEF ReceivedBytes
  <2>3. CASE rfifo # <<>>
    <3>1. rx_buf' = [rx_buf EXCEPT ![rx_in] = Head(rfifo)] /\ rx_in' = Wrap(rx_in + 1)
      BY <1>6, <2>3 DEF ReadData
    <3>2. RxUsed + 1 <= BufLen - 1 /\ rx_in + 1 <= BufLen
      BY <2>1, <1>a, NotFull DEF RxFull, RxUsed
    <3>3. RxUsed' = RxUsed + 1
      BY <2>1, <3>1, <3>2, <1>a, SpanGrows DEF RxUsed
    <3>4. /\ Remaining \in Seq(Nat) /\ Len(Remaining) = Len(rfifo) - 1
          /\ \A i \in 1 .. Len(Remaining) : Remaining[i] = typed - Len(rfifo) + 1 + i
      <4>1. /\ Remaining \in Seq(Nat) /\ Len(Remaining) = Len(rfifo) - 1
            /\ \A i \in 1 .. Len(Remaining) : Remaining[i] = rfifo[i + 1]
        BY <2>3, RemainingBytes DEF TypeOK, Byte
      <4> QED
        BY <4>1, <1>a, <1>e
    <3>5. /\ typed' - Len(rfifo') = typed - Len(rfifo) + 1
          /\ \A i \in 1 .. Len(rfifo') : rfifo'[i] = (typed - Len(rfifo) + 1) + i
      <4>1. CASE typed' = typed
        <5>1. rfifo' = Remaining
          BY <4>1, <2>1
        <5> QED
          BY ONLY <4>1, <5>1, <3>4, <1>a
      <4>2. CASE typed' = typed + 1
        <5>1. rfifo' = Append(Remaining, typed + 1)
          BY <4>2, <2>1, <1>a
        <5>2. /\ typed - Len(rfifo) + 1 \in Int /\ typed + 1 \in Nat
              /\ typed + 1 = (typed - Len(rfifo) + 1) + Len(Remaining) + 1
          BY <3>4, <1>a
        <5>3. /\ Len(rfifo') = Len(Remaining) + 1
              /\ \A i \in 1 .. Len(rfifo') : rfifo'[i] = (typed - Len(rfifo) + 1) + i
          BY ONLY <5>1, <5>2, <3>4, AppendNumbered
        <5> QED
          BY <4>2, <5>3, <3>4, <1>a
      <4> QED
        BY <2>1, <4>1, <4>2
    <3>6. ASSUME NEW i \in Index, Span(rx_out, i) < RxUsed + 1
          PROVE  rx_buf'[i] = typed - Len(rfifo) - RxUsed + Span(rx_out, i) + 1
      <4>1. CASE i = rx_in
        <5>1. Span(rx_out, i) = RxUsed /\ rx_buf'[i] = Head(rfifo)
          BY <4>1, <3>1, <1>a DEF RxUsed
        <5>2. Head(rfifo) = typed - Len(rfifo) + 1
          BY <2>3, <1>a, <1>e
        <5> QED
          BY <5>1, <5>2, <1>a, <1>c
      <4>2. CASE i # rx_in
        <5>1. rx_buf'[i] = rx_buf[i]
          BY <4>2, <3>1, <1>a
        <5>2. Span(rx_out, i) # RxUsed
          BY <4>2, <1>a, UartAssumption DEF Span, Index, RxUsed
        <5>3. Span(rx_out, i) < RxUsed
          BY <5>2, <3>6, <1>c, <1>d
        <5> QED
          BY <5>1, <5>3 DEF ReceivedBytes
      <4> QED
        BY <4>1, <4>2
    <3>7. /\ Len(rfifo') \in Nat /\ typed' \in Nat
          /\ got' + RxUsed' + Len(rfifo') = typed' + h
      <4>1. Len(rfifo') \in Nat /\ typed' \in Nat
        BY <2>1, <3>4, <1>a
      <4>2. got' = got
        BY <2>1
      <4>3. typed' - Len(rfifo') = typed - Len(rfifo) + 1
        BY <3>5
      <4>4. got + (RxUsed + 1) + Len(rfifo') = typed' + h
        <5>1. /\ got \in Nat /\ h \in Nat /\ RxUsed \in Nat /\ Len(rfifo) \in Nat
              /\ typed \in Nat /\ 1 \in Nat /\ got + RxUsed + Len(rfifo) = typed + h
          BY <2>b, <1>a, <1>c
        <5> QED
          BY ONLY <4>1, <4>3, <5>1, Balance
      <4> QED
        BY ONLY <4>1, <4>2, <4>4, <3>3
    <3>8. pc' = "r_copy" => n' <= RxUsed'
      BY <2>1, <3>3, <1>a, <1>c DEF ReceivedBytes
    <3>9. typed' - Len(rfifo') - RxUsed' = typed - Len(rfifo) - RxUsed
      BY <3>3, <3>5, <3>7, <1>a, <1>c
    <3> QED
      BY <2>1, <2>a, <3>3, <3>5, <3>6, <3>7, <3>8, <3>9 DEF ReceivedBytes
  <2> QED
    BY <2>2, <2>3
<1> QED
  BY ReceivedFrame, <1>1, <1>2, <1>3, <1>4, <1>5, <1>6

-----------------------------------------------------------------------------
(* Interrupts that are needed are on. *)

\* A step of the program is taken while the routine does not run, and before
\* the handler is registered the rings are empty.
LEMMA WakingStep == IInv /\ [Next]_vars => Waking'
<1> SUFFICES ASSUME TypeOK, Locals, Handled, Waking, [Next]_vars PROVE Waking'
  BY DEF IInv
<1> USE DEF Waking, Armed
<1>1. CASE UNCHANGED vars
  BY <1>1 DEF vars, core, tx, rx, call, routine
<1>2. CASE Boot
  BY <1>2 DEF Boot, ClearIenable, EnableCpu, InitUart, RegisterIsr, core, tx, rx, routine,
    Handled, Booting
<1>3. CASE Call
  <2>1. pc' \in {"w_fill", "r_look", "drain"} /\ pc = "idle" /\ isr = "off"
    BY <1>3 DEF Call
  <2>2. UNCHANGED <<core, tx, rx, routine>>
    BY <1>3 DEF Call
  <2> QED
    BY <2>1, <2>2 DEF core, tx, rx, routine
<1>4. CASE Write
  BY <1>4 DEF Write, Fill, CopyIn, PublishIn, Kick, Spin, core, tx, rx, routine
<1>5. CASE Look
  <2>1. n' # 0 => rx_in # rx_out
    <3>1. Filled(rx_in, rx_out) \in Nat /\ Filled(rx_in, rx_out) <= Span(rx_out, rx_in)
      BY FilledFits DEF TypeOK, RingType
    <3>2. count \in Nat
      BY UartAssumption DEF TypeOK, CallType
    <3>3. n' # 0 => Filled(rx_in, rx_out) # 0
      BY <1>5, <3>1, <3>2, LeastFits DEF Look
    <3>4. Span(rx_out, rx_in) \in Nat /\ (Span(rx_out, rx_in) = 0 <=> rx_out = rx_in)
      BY UartAssumption DEF TypeOK, RingType, Index, Span
    <3> QED
      BY <3>1, <3>3, <3>4
  <2>2. UNCHANGED <<core, tx, rx, routine>> /\ isr = "off" /\ pc = "r_look"
    BY <1>5 DEF Look
  <2>3. n' \in Nat
    <3>1. Filled(rx_in, rx_out) \in Nat
      BY FilledFits DEF TypeOK, RingType
    <3>2. count \in Nat
      BY UartAssumption DEF TypeOK, CallType
    <3> QED
      BY <1>5, <3>1, <3>2, LeastFits DEF Look
  <2>4. \/ pc' = "idle" /\ ~some
        \/ pc' = "r_copy" /\ n' # 0
        \/ pc' = "r_arm" /\ some /\ some' = some
        \/ pc' = "r_spin" /\ ~some
    BY <1>5, <2>3 DEF Look
  <2> QED
    BY <2>1, <2>2, <2>4 DEF core, tx, rx, routine
<1>6. CASE CopyOut \/ PublishOut \/ SpinForByte
  BY <1>6 DEF CopyOut, PublishOut, SpinForByte, core, tx, rx, routine
<1>7. CASE ArmReceive \/ Drain
  BY <1>7 DEF ArmReceive, Drain, core, tx, rx, routine
<1>8. CASE TakeInterrupt \/ TestPending \/ Dispatch \/ Return
  BY <1>8 DEF TakeInterrupt, TestPending, Dispatch, Return, core, tx, rx, call
<1>9. CASE ReadControl
  <2>1. ipen_AF => rfifo # <<>>
    <3>1. rfifo = <<>> => ~(HwDepth - Len(rfifo) <= Margin)
      BY UartAssumption
    <3> QED
      BY <3>1 DEF ipen_AF
  <2> QED
    BY <1>9, <2>1 DEF ReadControl, core, tx, rx, call
<1>10. CASE ReadData
  <2>1. UNCHANGED <<ien, tx, rx_out, call>> /\ ~pause_irq' /\ isr = "receive"
    BY <1>10 DEF ReadData
  <2>2. CASE rfifo = <<>>
    <3>1. isr' = "stop" /\ UNCHANGED rx_in
      BY <1>10, <2>2 DEF ReadData
    <3> QED
      BY <2>1, <2>2, <3>1 DEF tx, call
  <2>3. CASE rfifo # <<>>
    <3>1. isr' = "receive" /\ rx_in' # rx_out
      BY <1>10, <2>3 DEF ReadData, RxFull
    <3> QED
      BY <2>1, <3>1 DEF tx, call
  <2> QED
    BY <2>2, <2>3
<1>11. CASE StopReceive
  <2>1. rx_in # rx_out
    <3>1. Wrap(rx_in + 1) # rx_in
      BY UartAssumption DEF TypeOK, RingType, Index, Wrap
    <3> QED
      BY <1>11, <3>1 DEF StopReceive, RxFull
  <2>2. UNCHANGED <<rfifo, pause_irq, tx, rx, call>> /\ isr' \notin {"receive", "stop"}
    BY <1>11 DEF StopReceive
  <2>3. ("WE" \in ien => "WE" \in ien') /\ pc # "isr_register"
    BY <1>11 DEF StopReceive, Handled, Booting
  <2> QED
    BY <2>1, <2>2, <2>3 DEF tx, rx, call
<1>12. CASE SendByte
  BY <1>12 DEF SendByte, rx, call
<1>13. CASE StopSending
  <2>1. UNCHANGED <<rfifo, pause_irq, tx, rx, call>> /\ isr' = "control"
    BY <1>13 DEF StopSending
  <2>2. /\ "RE" \in ien => "RE" \in ien'
        /\ "WE" \in ien /\ tx_in # tx_out => "WE" \in ien'
    <3>1. CASE space > 0
      BY <1>13, <3>1, UartAssumption DEF StopSending, TypeOK, RoutineType
    <3>2. CASE ~(space > 0)
      BY <1>13, <3>2 DEF StopSending
    <3> QED
      BY <3>1, <3>2
  <2> QED
    BY <2>1, <2>2 DEF tx, rx, call
<1>14. CASE HostTakes
  BY <1>14 DEF HostTakes, tx, rx, call, routine
<1>15. CASE HostTypes
  <2>1. rfifo' # <<>>
    BY <1>15 DEF HostTypes, TypeOK, CoreType
  <2> QED
    BY <1>15, <2>1 DEF HostTypes, tx, rx, call, routine
<1>16. CASE HostPauses
  BY <1>16 DEF HostPauses, tx, rx, call, routine
<1> QED
  BY <1>1, <1>2, <1>3, <1>4, <1>5, <1>6, <1>7, <1>8, <1>9, <1>10, <1>11, <1>12,
     <1>13, <1>14, <1>15, <1>16 DEF Next, Program, Read, Interrupt, Host

-----------------------------------------------------------------------------
(* The theorems. *)

\* The first state, with what the program before left in the core.
LEMMA InitInvariant == Init => IInv
<1> SUFFICES ASSUME Init PROVE IInv
  OBVIOUS
<1> USE UartAssumption
<1>1. PICK sent \in 0 .. HwDepth : wfifo = [i \in 1 .. sent |-> i] /\ ptr = sent
  BY DEF Init
<1>2. PICK held \in 0 .. HwDepth : rfifo = [i \in 1 .. held |-> i] /\ typed = held
  BY DEF Init
<1>3. /\ wfifo \in Seq(Nat) /\ Len(wfifo) = ptr /\ ptr \in 0 .. HwDepth
      /\ \A i \in 1 .. Len(wfifo) : wfifo[i] = 0 + i
  BY <1>1
<1>4. /\ rfifo \in Seq(Nat) /\ Len(rfifo) = typed /\ typed \in 0 .. HwDepth
      /\ \A i \in 1 .. Len(rfifo) : rfifo[i] = 0 + i
  BY <1>2
<1>5. 0 \in Index
  BY DEF Index
<1>6. TxUsed = 0 /\ RxUsed = 0 /\ \A i \in Index : ~(Span(0, i) < 0)
  BY <1>5 DEF Init, TxUsed, RxUsed, Span, Index
<1>7. TypeOK
  <2>1. CoreType
    BY <1>3, <1>4 DEF Init, CoreType, Byte
  <2>2. RingType
    BY <1>5 DEF Init, RingType, Byte
  <2>3. CallType
    BY <1>3, <1>5 DEF Init, CallType, Byte
  <2>4. RoutineType
    BY DEF Init, RoutineType
  <2>5. FlagType
    BY DEF Init, FlagType
  <2> QED
    BY <2>1, <2>2, <2>3, <2>4, <2>5 DEF TypeOK
<1>8. Locals /\ Handled
  BY DEF Init, Locals, Copying, Handled, Booting, NoneUnhandled
<1>9. SentBytes
  BY <1>3, <1>6 DEF Init, SentBytes
<1>10. ReceivedBytes
  <2>1. typed - Len(rfifo) = 0 /\ got + RxUsed + Len(rfifo) = typed + 0
    BY <1>4, <1>6 DEF Init
  <2> QED
    BY <2>1, <1>4, <1>6 DEF Init, ReceivedBytes
<1>11. Waking
  BY DEF Init, Waking, Armed
<1> QED
  BY <1>7, <1>8, <1>9, <1>10, <1>11 DEF IInv

\* No step leaves the invariant.
LEMMA StepInvariant == IInv /\ [Next]_vars => IInv'
<1> SUFFICES ASSUME IInv, [Next]_vars PROVE IInv'
  OBVIOUS
<1>1. TypeOK'
  BY CoreStep, RingStep, CallStep, RoutineStep, FlagStep DEF IInv, TypeOK
<1>2. Locals'
  BY CallStep DEF IInv
<1> QED
  BY <1>1, <1>2, HandledStep, SentStep, ReceivedStep, WakingStep DEF IInv

\* The bytes of both directions are where they should be in every state, the
\* calls' and the routine's variables keep their bounds, and the interrupts
\* that are needed are on.
THEOREM SpecInvariant == Spec => []IInv
BY InitInvariant, StepInvariant, PTL DEF Spec

\* Types: no index of altera_avalon_jtag_uart_write, _read or _irq ever leaves
\* its ring, and no FIFO of the core holds more than it has room for.
THEOREM TypeCorrect == Spec => []TypeOK
<1>1. IInv => TypeOK
  BY DEF IInv
<1> QED
  BY <1>1, SpecInvariant, PTL

\* Whatever lines and bytes a program leaves behind, the next one takes no
\* interrupt before alt_iic_isr_register has given it a handler, and
\* alt_irq_handler is never entered without a line to serve.
THEOREM NeverUnhandled == Spec => []NoneUnhandled
<1>1. IInv => NoneUnhandled
  BY DEF IInv, Handled
<1> QED
  BY <1>1, SpecInvariant, PTL

\* Bytes in the transmit ring have their interrupt on, and receive interrupts
\* are off only while there is something for a reader to take.
THEOREM AlwaysArmed == Spec => []Armed
<1>1. IInv => Armed
  BY DEF IInv, Waking
<1> QED
  BY <1>1, SpecInvariant, PTL

\* Bytes to the host: a byte heard is the next one, and a byte written joins
\* no more than the ring and the FIFO hold.
LEMMA SentRefines == IInv /\ IInv' /\ [Next]_vars => [Sent!Next]_<<ptr, heard>>
<1> SUFFICES ASSUME IInv, IInv', [Next]_vars PROVE [Sent!Next]_<<ptr, heard>>
  OBVIOUS
<1>1. CASE UNCHANGED <<heard, ptr>>
  BY <1>1
<1>2. CASE HostTakes
  <2>1. wfifo # <<>> /\ heard' = Head(wfifo) /\ ptr' = ptr
    BY <1>2 DEF HostTakes, call
  <2>2. wfifo \in Seq(Nat) /\ heard \in Nat /\ ptr \in Nat /\ TxUsed \in Nat
    <3>1. TxUsed \in Index
      BY SpanRange DEF IInv, TypeOK, RingType, TxUsed
    <3> QED
      BY <3>1, UartAssumption DEF IInv, TypeOK, CoreType, CallType, Byte, Index
  <2>3. Head(wfifo) = heard + 1
    BY <2>1, <2>2 DEF IInv, SentBytes
  <2>4. heard < ptr
    <3>1. heard + Len(wfifo) + TxUsed = ptr
      BY DEF IInv, SentBytes
    <3>2. Len(wfifo) \in Nat /\ Len(wfifo) > 0
      BY <2>1, <2>2
    <3> QED
      BY ONLY <3>1, <3>2, <2>2
  <2> QED
    BY <2>1, <2>3, <2>4 DEF Sent!Next, Sent!Take
<1>3. CASE PublishIn
  <2>1. heard' = heard /\ ptr' = ptr + n /\ n > 0 /\ ptr \in Nat /\ n \in Nat
    BY <1>3, UartAssumption DEF PublishIn, host, IInv, TypeOK, CallType, Locals, Copying, Byte
  <2>2. ptr' <= heard' + (HwDepth + BufLen - 1)
    <3>1. (heard + Len(wfifo) + TxUsed = ptr)' /\ (Len(wfifo) <= HwDepth)'
      BY DEF IInv, SentBytes, TypeOK, CoreType
    <3>2. TxUsed' \in Index
      BY SpanRange DEF IInv, TypeOK, RingType, TxUsed
    <3>3. TxUsed' \in Nat /\ TxUsed' <= BufLen - 1
      BY <3>2, UartAssumption DEF Index
    <3>4. heard' \in Nat /\ Len(wfifo)' \in Nat
      BY DEF IInv, TypeOK, CoreType, Byte
    <3> QED
      BY ONLY <3>1, <3>3, <3>4, UartAssumption
  <2> QED
    BY <2>1, <2>2 DEF Sent!Next, Sent!Put
<1>4. CASE [Next]_vars /\ ~HostTakes /\ ~PublishIn
  BY <1>4, <1>1 DEF Next, vars, Program, Boot, Write, Read, Interrupt, Host,
    ClearIenable, EnableCpu, InitUart, RegisterIsr, Call, Fill, CopyIn, Kick, Spin,
    Look, CopyOut, PublishOut, SpinForByte, ArmReceive, Drain, TakeInterrupt,
    TestPending, Dispatch, ReadControl, ReadData, StopReceive, SendByte, StopSending,
    Return, HostTypes, HostPauses, host, call
<1> QED
  BY <1>2, <1>3, <1>4

\* What is under way is at most what is taken and what waits.
LEMMA RoomAdds ==
  ASSUME NEW t \in Nat, NEW g \in Nat, NEW u \in Nat, NEW f \in Nat, NEW room \in Int
  PROVE  t <= g + u + f /\ u + f <= room => t <= g + room
OBVIOUS

\* Bytes from the host: a byte copied out is the next one, and a byte typed
\* joins no more than the ring and the FIFO hold.
LEMMA ReceivedRefines == IInv /\ IInv' /\ [Next]_vars => [Received!Next]_<<typed, got>>
<1> SUFFICES ASSUME IInv, IInv', [Next]_vars PROVE [Received!Next]_<<typed, got>>
  OBVIOUS
<1>a. /\ typed \in Nat /\ typed' \in Nat /\ got \in Nat /\ got' \in Nat
      /\ Len(rfifo) \in Nat /\ Len(rfifo)' \in Nat /\ Len(rfifo)' <= HwDepth
  <2>1. CoreType /\ CallType /\ CoreType' /\ CallType'
    BY Zenon DEF IInv, TypeOK
  <2>2. rfifo \in Seq(Nat) /\ typed \in Nat /\ got \in Nat
    BY ONLY <2>1, Zenon DEF CoreType, CallType, Byte
  <2>3. rfifo' \in Seq(Nat) /\ Len(rfifo') <= HwDepth /\ typed' \in Nat /\ got' \in Nat
    BY ONLY <2>1, Zenon DEF CoreType, CallType, Byte
  <2> QED
    BY ONLY <2>2, <2>3
<1>b. RxUsed \in Index /\ RxUsed' \in Index
  BY SpanRange DEF IInv, TypeOK, RingType, RxUsed
<1>c. RxUsed \in Nat /\ RxUsed' \in Nat /\ RxUsed' <= BufLen - 1
  BY <1>b, UartAssumption DEF Index
<1>1. CASE UNCHANGED <<typed, got>>
  BY <1>1
<1>2. CASE CopyOut
  <2>1. /\ typed' = typed /\ pc = "r_copy" /\ pc' = "r_copy" /\ k < n /\ k' = k + 1
        /\ rfifo' = rfifo /\ RxUsed' = RxUsed
    BY <1>2 DEF CopyOut, host, core, rx, RxUsed
  <2>2. k \in Nat /\ n \in Nat
    BY UartAssumption DEF IInv, TypeOK, CallType
  <2>3. got + RxUsed + Len(rfifo) = typed + k /\ n <= RxUsed
    BY <2>1 DEF IInv, ReceivedBytes
  <2>4. got' + RxUsed' + Len(rfifo)' = typed' + k'
    BY <2>1 DEF IInv, ReceivedBytes
  <2>5. got' = got + 1 /\ got < typed
    BY <2>1, <2>2, <2>3, <2>4, <1>a, <1>c
  <2> QED
    BY <2>1, <2>5 DEF Received!Next, Received!Take
<1>3. CASE (HostTypes \/ ReadData) /\ typed' # typed
  <2>1. typed' = typed + 1 /\ got' = got
    BY <1>3 DEF HostTypes, ReadData, Arrives, call
  <2>2. typed' <= got' + (HwDepth + BufLen - 1)
    <3>1. PICK h \in Nat : h \in Nat /\ got' + RxUsed' + Len(rfifo)' = typed' + h
      BY UartAssumption DEF IInv, ReceivedBytes, TypeOK, CallType
    <3>2. typed' <= got' + RxUsed' + Len(rfifo)'
      BY ONLY <3>1, <1>a, <1>c
    <3>3. RxUsed' + Len(rfifo)' <= HwDepth + BufLen - 1
      BY <1>a, <1>c, UartAssumption
    <3>4. PICK u : u = RxUsed'
      OBVIOUS
    <3>5. PICK f : f = Len(rfifo)'
      OBVIOUS
    <3>6. PICK room : room = HwDepth + BufLen - 1
      OBVIOUS
    <3>7. typed' \in Nat /\ got' \in Nat /\ u \in Nat /\ f \in Nat /\ room \in Int
      BY ONLY <1>a, <1>c, <3>4, <3>5, <3>6, UartAssumption
    <3>8. typed' <= got' + u + f /\ u + f <= room
      BY ONLY <3>2, <3>3, <3>4, <3>5, <3>6
    <3>9. typed' <= got' + room
      BY ONLY <3>7, <3>8, RoomAdds
    <3> QED
      BY ONLY <3>6, <3>9
  <2> QED
    BY <2>1, <2>2, <1>a DEF Received!Next, Received!Put
<1>4. CASE [Next]_vars /\ ~CopyOut /\ ~((HostTypes \/ ReadData) /\ typed' # typed)
  <2>1. UNCHANGED <<typed, got>>
    BY <1>4 DEF Next, vars, Program, Boot, Write, Read, Interrupt, Host,
      ClearIenable, EnableCpu, InitUart, RegisterIsr, Call, Fill, CopyIn, PublishIn, Kick, Spin,
      Look, PublishOut, SpinForByte, ArmReceive, Drain, TakeInterrupt, TestPending,
      Dispatch, ReadControl, ReadData, StopReceive, SendByte, StopSending, Return,
      HostTakes, HostTypes, HostPauses, host, call
  <2> QED
    BY <2>1
<1> QED
  BY <1>2, <1>3, <1>4

\* The driver keeps the promise of a pipe in both directions: in spite of the
\* interrupt routine that runs between any two steps of a call and of the
\* host, no byte is lost, repeated, invented or out of order.
THEOREM IsTwoPipes == Spec => StreamSpec
<1>1. Init => Sent!Init /\ Received!Init
  <2> SUFFICES ASSUME Init PROVE Sent!Init /\ Received!Init
    OBVIOUS
  <2>1. heard = 0 /\ got = 0 /\ ptr \in 0 .. HwDepth /\ typed \in 0 .. HwDepth
    BY DEF Init
  <2>2. ptr \in 0 .. HwDepth + BufLen - 1 /\ typed \in 0 .. HwDepth + BufLen - 1
    BY <2>1, UartAssumption
  <2> QED
    BY <2>1, <2>2 DEF Sent!Init, Received!Init
<1> QED
  BY <1>1, SpecInvariant, SentRefines, ReceivedRefines, PTL
    DEF Spec, StreamSpec, Sent!Spec, Received!Spec
=============================================================================
