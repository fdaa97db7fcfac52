---------------------------- MODULE SectorReads -----------------------------
(***************************************************************************)
(* What a disk driver promises the code that reads sectors.  As long as no *)
(* read failed, TRUE means that the buffer holds the sector asked for, and *)
(* that it stays there until the next read.  A read that fails ends the    *)
(* promise: the disk may still be at work on it, so later reads may be     *)
(* answered in any way, and the buffer may change at any time.             *)
(***************************************************************************)
EXTENDS Naturals

VARIABLES
  asked,    \* the number of the last read
  busy,     \* whether it is being served
  sound,    \* whether no read has failed
  buffer    \* whose data is in the caller's buffer

vars == <<asked, busy, sound, buffer>>

Init == asked = 0 /\ busy = FALSE /\ sound = TRUE /\ buffer = 0

Ask ==
  /\ ~busy
  /\ asked' = asked + 1
  /\ busy' = TRUE
  /\ UNCHANGED <<sound, buffer>>

(* The disk writes to memory.                                              *)
Fill ==
  /\ busy \/ ~sound
  /\ buffer' \in 0 .. asked
  /\ UNCHANGED <<asked, busy, sound>>

Succeed ==
  /\ busy
  /\ sound => buffer = asked
  /\ busy' = FALSE
  /\ UNCHANGED <<asked, sound, buffer>>

Fail ==
  /\ busy
  /\ busy' = FALSE
  /\ sound' = FALSE
  /\ UNCHANGED <<asked, buffer>>

Next == Ask \/ Fill \/ Succeed \/ Fail

Spec == Init /\ [][Next]_vars
=============================================================================
