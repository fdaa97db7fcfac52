------------------------------ MODULE KeyFifo -------------------------------
(***************************************************************************)
(* What the key buffer promises the shell: the keys typed, each once and   *)
(* in order, except those typed while Capacity keys were waiting.          *)
(***************************************************************************)
EXTENDS Naturals, Sequences

CONSTANTS Key, Capacity

VARIABLES
  queue,    \* the keys waiting
  handled   \* the key the shell was last given

vars == <<queue, handled>>

Init == queue = <<>> /\ handled \in Key

Put(k) ==
  /\ Len(queue) < Capacity
  /\ queue' = Append(queue, k)
  /\ UNCHANGED handled

Get ==
  /\ queue # <<>>
  /\ queue' = Tail(queue)
  /\ handled' = Head(queue)

Next == Get \/ \E k \in Key : Put(k)

Spec == Init /\ [][Next]_vars
=============================================================================
