----------------------------- MODULE MCKeyQueue -----------------------------
(* Two keys and a ring of four slots, which fills and wraps.               *)
EXTENDS KeyQueue
=============================================================================
