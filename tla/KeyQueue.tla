------------------------------ MODULE KeyQueue ------------------------------
(***************************************************************************)
(* The ring of typed keys, key_buffer with key_write and key_read: the     *)
(* keyboard interrupt puts keys in (kb_push), the shell task takes them    *)
(* out (shell.h), with no lock.  The interrupt comes between any two       *)
(* accesses of the shell; it runs to its end.                              *)
(*                                                                         *)
(* The shell halts when it sees no key.  A key that arrives after it       *)
(* looked and before the hlt wakes nobody: it waits for the next interrupt *)
(* that comes while the shell runs.                                        *)
(***************************************************************************)
EXTENDS Naturals, Sequences

CONSTANTS
  Key,    \* the code points and KEY_ values the keyboard sends
  Slots   \* the size of key_buffer, 256

ASSUME KeyQueueAssumption == Slots \in Nat /\ Slots >= 2 /\ Key # {}

VARIABLES
  key_buffer, key_write, key_read,
  pc,        \* where the shell's loop is
  c,         \* the shell's copy of a key
  handled,   \* the key the shell handles, or handled last
  running    \* current_task: whether it is the shell

vars == <<key_buffer, key_write, key_read, pc, c, handled, running>>

Index == 0 .. Slots - 1

(* The memory of key_buffer is zeroed: here, some key.                     *)
Init ==
  /\ \E k \in Key : key_buffer = [i \in Index |-> k] /\ c = k /\ handled = k
  /\ key_write = 0 /\ key_read = 0
  /\ pc = "look"
  /\ running \in BOOLEAN

(* (i + 1) & 0xFF                                                          *)
MutSuccessor(i) == i + 1
Successor(i) == IF i = Slots - 1 THEN 0 ELSE i + 1

Woken == IF pc = "halted" /\ running THEN "look" ELSE pc
-----------------------------------------------------------------------------
MutHasRoom == TRUE
HasRoom == Successor(key_write) # key_read

(* kb_push                                                                 *)
Push(k) ==
  /\ IF HasRoom
       THEN /\ key_buffer' = [key_buffer EXCEPT ![key_write] = k]
            /\ key_write' = Successor(key_write)
       ELSE UNCHANGED <<key_buffer, key_write>>
  /\ pc' = Woken
  /\ UNCHANGED <<key_read, c, handled, running>>

(* The timer gives the processor to the other task.                        *)
Tick ==
  /\ pc' = Woken
  /\ running' = ~running
  /\ UNCHANGED <<key_buffer, key_write, key_read, c, handled>>
-----------------------------------------------------------------------------
MutIsEmpty == key_read = key_write \/ Successor(key_read) = key_write
IsEmpty == key_read = key_write

Look ==
  /\ pc = "look"
  /\ pc' = IF IsEmpty THEN "hlt" ELSE "fetch"
  /\ UNCHANGED <<key_buffer, key_write, key_read, c, handled>>

Halt ==
  /\ pc = "hlt"
  /\ pc' = "halted"
  /\ UNCHANGED <<key_buffer, key_write, key_read, c, handled>>

MutNextToFetch == key_write
NextToFetch == key_read

Fetch ==
  /\ pc = "fetch"
  /\ c' = key_buffer[NextToFetch]
  /\ pc' = "advance"
  /\ UNCHANGED <<key_buffer, key_write, key_read, handled>>

Advance ==
  /\ pc = "advance"
  /\ key_read' = Successor(key_read)
  /\ handled' = c
  /\ pc' = "handle"
  /\ UNCHANGED <<key_buffer, key_write, c>>

(* The shell handles the key, which may take a whole command.              *)
Handle ==
  /\ pc = "handle"
  /\ pc' = "look"
  /\ UNCHANGED <<key_buffer, key_write, key_read, c, handled>>

Shell ==
  /\ running
  /\ Look \/ Halt \/ Fetch \/ Advance \/ Handle
  /\ UNCHANGED running

Next == Tick \/ Shell \/ \E k \in Key : Push(k)

Spec == Init /\ [][Next]_vars

(* The timer ticks for ever, a tick is longer than a step of the shell,    *)
(* and every command ends.                                                 *)
FairSpec == Spec /\ WF_vars(Tick) /\ SF_vars(Shell)
-----------------------------------------------------------------------------
TypeOK ==
  /\ key_buffer \in [Index -> Key]
  /\ key_write \in Index /\ key_read \in Index
  /\ pc \in {"look", "hlt", "halted", "fetch", "advance", "handle"}
  /\ c \in Key /\ handled \in Key
  /\ running \in BOOLEAN

(* The keys in a ring, oldest first.                                       *)
Distance(r, w) == IF r <= w THEN w - r ELSE w + Slots - r
Slot(r, i) == IF r + i < Slots THEN r + i ELSE r + i - Slots
Contents(b, r, w) == [i \in 1 .. Distance(r, w) |-> b[Slot(r, i - 1)]]

Count == Distance(key_read, key_write)
Waiting == Contents(key_buffer, key_read, key_write)

(* Between reading a key and giving its slot back, the shell's copy is the *)
(* oldest key: no interrupt overwrites it, however full the ring.          *)
CopyIsOldest ==
  /\ pc \in {"fetch", "advance"} => Count > 0
  /\ pc = "advance" => c = key_buffer[key_read]

(* The ring is a queue of Slots - 1 keys.                                  *)
Fifo == INSTANCE KeyFifo WITH queue <- Waiting, Capacity <- Slots - 1
FifoSpec == Fifo!Spec

(* A key that waits is not forgotten by a shell that halts: some key is    *)
(* taken, and so, in their order, all are.                                 *)
KeysAreTaken == (Count > 0) ~> (pc = "handle")
=============================================================================
