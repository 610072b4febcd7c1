---------------------------- MODULE NoteRegister ----------------------------
(***************************************************************************)
(* The shift register of RNG2 (note_modules.sv): its taps and its shift.   *)
(***************************************************************************)
EXTENDS Integers

VARIABLE random

Bit(r, weight) == (r \div weight) % 2

\* The exclusive or of the taps: bits 12, 3, 2 and 0.
feedback(r) == (Bit(r, 4096) + Bit(r, 8) + Bit(r, 4) + Bit(r, 1)) % 2

\* random has 13 bits.
Shifted(r) == (2 * r + feedback(r)) % 8192

\* The register never runs into the all-zero state, which it would not leave.
NeverZero == random # 0
=============================================================================
