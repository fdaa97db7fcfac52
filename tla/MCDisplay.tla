----------------------------- MODULE MCDisplay ------------------------------
(* A screen of two cells, one with the clock, one with the shell's text;   *)
(* with two columns the text is in the opposite corner.                    *)
EXTENDS Display

MCClockCell == <<1, 1>>
MCTextCell == <<1, 2>>
=============================================================================
