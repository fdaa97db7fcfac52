----------------------------- MODULE MCKeyboard -----------------------------
(* Both Shifts, a Ctrl, the right Alt, a letter, an arrow, Delete, Pause   *)
(* and Print Screen.  Nothing is claimed of a decoder whose bytes were     *)
(* torn, so its steps are not followed.                                    *)
EXTENDS Keyboard

MCKey ==
  {[code |-> c, e0 |-> FALSE] : c \in {"lshift", "rshift", "ctrl", "a", "pause"}}
  \cup {[code |-> c, e0 |-> TRUE] : c \in {"alt", "left", "del", "print"}}

NotTorn == reset # "torn"
=============================================================================
