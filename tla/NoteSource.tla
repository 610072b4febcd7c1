----------------------------- MODULE NoteSource -----------------------------
(***************************************************************************)
(* Where the notes come from: RNG2 of note_modules.sv shifts its register  *)
(* at every Clk, and at every tick of clk_one_sec the three low bits name  *)
(* the lane that is told to drop a note, or none. The tick is derived from *)
(* Clk; a reset restarts the register but not the counter of the tick,     *)
(* which stands still meanwhile.                                           *)
(***************************************************************************)
EXTENDS NoteRegister

CONSTANTS
  TickPeriod,   \* Clk cycles between two ticks: 3125001 periods of AUD_MCLK
  MaxResets     \* bound: resets TLC explores

ASSUME SourceAssumption == TickPeriod \in Nat \ {0} /\ MaxResets \in Nat

VARIABLES
  RESET, resets,
  phase,      \* Clk cycles since the last tick
  activate,   \* the *_activate register that is set, or none
  late        \* whether a tick finds the register shifted by its own Clk

vars == <<RESET, resets, random, phase, activate, late>>

Lanes == {"g", "r", "y", "b", "o"}

TypeOK ==
  /\ RESET \in BOOLEAN /\ resets \in 0 .. MaxResets
  /\ random \in 0 .. 8191 /\ phase \in 0 .. TickPeriod - 1
  /\ activate \in Lanes \cup {"none"} /\ late \in BOOLEAN

-----------------------------------------------------------------------------

\* Slip: two of the three bits are looked at.
LaneOfFew(rnd) ==
  CASE rnd % 4 = 0 -> "g" [] rnd % 4 = 1 -> "r" [] rnd % 4 = 2 -> "y"
    [] rnd % 4 = 3 -> "b"

LaneOf(rnd) ==
  CASE rnd % 8 = 0 -> "g" [] rnd % 8 = 1 -> "r" [] rnd % 8 = 2 -> "y"
    [] rnd % 8 = 3 -> "b" [] rnd % 8 = 4 -> "o" [] OTHER -> "none"

\* The register powers up as the reset leaves it. The synthesized tick comes
\* through two registers and a pin and may miss or meet the shift of its own
\* Clk, always in the same way.
Init ==
  /\ RESET = FALSE /\ resets = 0
  /\ random = 1 /\ phase = 0 /\ activate = "none" /\ late \in BOOLEAN

Ticks == phase = TickPeriod - 1

\* A rising edge of Clk without a reset.
Clk ==
  /\ ~RESET
  /\ random' = Shifted(random)
  /\ phase' = (phase + 1) % TickPeriod
  /\ activate' = IF Ticks THEN LaneOf(IF late THEN random' ELSE random)
                          ELSE activate
  /\ UNCHANGED <<RESET, resets, late>>

\* Slip: the register is cleared like any other.
PressResetToZero ==
  /\ ~RESET /\ resets < MaxResets
  /\ RESET' = TRUE /\ resets' = resets + 1 /\ random' = 0
  /\ UNCHANGED <<phase, activate, late>>

PressReset ==
  /\ ~RESET /\ resets < MaxResets
  /\ RESET' = TRUE /\ resets' = resets + 1 /\ random' = 1
  /\ UNCHANGED <<phase, activate, late>>

ReleaseReset ==
  /\ RESET /\ RESET' = FALSE
  /\ UNCHANGED <<resets, random, phase, activate, late>>

Next == Clk \/ PressReset \/ ReleaseReset

Spec == Init /\ [][Next]_vars

\* The 50 MHz clock runs and the button does not stay down.
FairSpec == Spec /\ WF_vars(Clk) /\ WF_vars(ReleaseReset)

-----------------------------------------------------------------------------
(* Properties. *)

\* Every lane gets its notes again and again, whatever the phase between the
\* ticks and the register after a reset.
EveryLaneServed == \A l \in Lanes : []<>(activate = l)
=============================================================================
