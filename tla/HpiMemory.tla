----------------------------- MODULE HpiMemory -----------------------------
(***************************************************************************)
(* What the driver counts on when it calls UsbWrite, UsbRead, or an        *)
(* address followed by a list of data words: the memory of the USB chip,   *)
(* each word written or read once, at consecutive addresses, before the    *)
(* call returns. A reset during a call makes the outcome of that call      *)
(* anything.                                                               *)
(***************************************************************************)
EXTENDS Integers, Sequences

CONSTANTS
  Size,    \* words in the memory
  Values,  \* what a word may be, unknown included
  Calls,   \* records: fn, at, words
  Idle     \* no call

VARIABLES mem, call, done, value, spoiled

memory == <<mem, call, done, value, spoiled>>

Init == mem \in [0 .. Size - 1 -> Values] /\ call = Idle /\ done = 0 /\ ~spoiled

Start ==
  /\ call = Idle /\ call' \in Calls /\ done' = 0
  /\ UNCHANGED mem

\* The next word of the call.
Write ==
  /\ call # Idle /\ call.fn = "write" /\ done < Len(call.words)
  /\ mem' = [mem EXCEPT ![(call.at + done) % Size] = call.words[done + 1]]
  /\ done' = done + 1 /\ UNCHANGED call

Read ==
  /\ call # Idle /\ call.fn = "read" /\ done = 0
  /\ value' = mem[call.at] /\ done' = 1
  /\ UNCHANGED <<mem, call>>

Return ==
  /\ call # Idle
  /\ done = IF call.fn = "read" THEN 1 ELSE Len(call.words)
  /\ call' = Idle /\ UNCHANGED mem

Sound == ~spoiled /\ ~spoiled' /\ (Start \/ Write \/ Read \/ Return)

Spoil == ~spoiled /\ spoiled'

Spoiled == spoiled

Next == Sound \/ Spoil \/ Spoiled

Spec == Init /\ [][Next]_memory
=============================================================================
