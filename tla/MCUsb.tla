------------------------------- MODULE MCUsb --------------------------------
(* Rings of four entries, one of them the link.                            *)
EXTENDS Usb
MCWorlds == {<<"other", "disk">>, <<"disk", "other">>}
=============================================================================
