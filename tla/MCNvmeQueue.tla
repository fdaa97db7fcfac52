---------------------------- MODULE MCNvmeQueue -----------------------------
(* Rings of three slots and three ids: both wrap while late answers to the *)
(* first commands are still in the device.                                 *)
EXTENDS NvmeQueue
=============================================================================
