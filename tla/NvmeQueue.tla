----------------------------- MODULE NvmeQueue ------------------------------
(***************************************************************************)
(* A queue pair of the NVMe driver: storage.cpp puts one command into the  *)
(* submission ring, rings its doorbell and polls the completion ring until *)
(* the phase bit of the entry at cq_head turns, or the spins run out.  It  *)
(* has at most one call at work, but a command whose wait ended may still  *)
(* be in the device, which then writes the buffer and posts a completion   *)
(* that nobody waits for.                                                  *)
(*                                                                         *)
(* Commands are numbered as they are submitted; the command_id is the      *)
(* number's low 16 bits.  The code of a command and its sector are the     *)
(* number's business: of the sector data the model keeps whose it is.      *)
(* Every caller reads into the one buffer.  The device, as the NVMe        *)
(* specification has it, takes commands in order, works on several at a    *)
(* time and answers in any order.                                          *)
(***************************************************************************)
EXTENDS Naturals, Sequences, FiniteSets

CONSTANTS
  Depth,       \* q_depth
  IdModulus,   \* the number of command ids, 2^16
  MaxCommands  \* bound: how many commands are submitted

ASSUME NvmeAssumption ==
  /\ Depth \in Nat /\ Depth >= 2
  /\ IdModulus \in Nat \ {0}
  /\ MaxCommands \in Nat

VARIABLES
  sq, sq_tail,           \* the submission ring and the driver's end of it
  cq, cq_head, cq_phase, \* the completion ring and the driver's end of it
  stage,                 \* what the device has done with each command
  result,                \* what nvme_submit_and_wait returned for each
  dev_head,              \* the device's end of the submission ring
  dev_tail, dev_phase,   \* the device's end of the completion ring
  buffer                 \* the command whose data the caller's buffer holds

driver == <<sq, sq_tail, cq_head, cq_phase, result>>
device == <<cq, dev_head, dev_tail, dev_phase, buffer>>
vars == <<driver, device, stage>>

Slot == 0 .. Depth - 1

Last == Len(stage)
Command == 1 .. Last

Id(c) == c % IdModulus

(* A call is at work: the last command has no result yet.                  *)
Busy == Len(result) < Last

Init ==
  /\ sq = [i \in Slot |-> 0] /\ sq_tail = 0
  /\ cq = [i \in Slot |-> [command |-> 0, phase |-> 0, ok |-> TRUE]]
  /\ cq_head = 0 /\ cq_phase = 1
  /\ stage = <<>> /\ result = <<>>
  /\ dev_head = 0 /\ dev_tail = 0 /\ dev_phase = 1
  /\ buffer = 0

(* (i + 1) % q_depth                                                       *)
MutSuccessorTooFar(i) == i + 1
Successor(i) == IF i = Depth - 1 THEN 0 ELSE i + 1

MutSlotToFill == cq_head
SlotToFill == sq_tail

Submit ==
  /\ ~Busy /\ Last < MaxCommands
  /\ sq' = [sq EXCEPT ![SlotToFill] = Last + 1]
  /\ sq_tail' = Successor(sq_tail)
  /\ stage' = Append(stage, "queued")
  /\ UNCHANGED <<cq_head, cq_phase, result, device>>
-----------------------------------------------------------------------------
Entry == cq[cq_head]

(* The phase bit of the entry at cq_head says that it is new.              *)
MutIsNew == TRUE
IsNew == Entry.phase = cq_phase

MutIsMineIgnoresId == Entry.ok
MutIsMineIgnoresStatus == Id(Entry.command) = Id(Last)
IsMine == Id(Entry.command) = Id(Last) /\ Entry.ok

MutPhaseAfter(h) == cq_phase
PhaseAfter(h) == IF h = 0 THEN 1 - cq_phase ELSE cq_phase

Return(b) == result' = Append(result, b)

(* The driver takes the completion and returns true.                       *)
Consume ==
  /\ Busy /\ IsNew /\ IsMine
  /\ cq_head' = Successor(cq_head)
  /\ cq_phase' = PhaseAfter(cq_head')
  /\ Return(TRUE)
  /\ UNCHANGED <<sq, sq_tail, stage, device>>

(* Somebody else's completion, or an error: false, and the entry stays.    *)
Reject ==
  /\ Busy /\ IsNew /\ ~IsMine
  /\ Return(FALSE)
  /\ UNCHANGED <<sq, sq_tail, cq_head, cq_phase, stage, device>>

(* The spins ran out.                                                      *)
GiveUp ==
  /\ Busy /\ ~IsNew
  /\ Return(FALSE)
  /\ UNCHANGED <<sq, sq_tail, cq_head, cq_phase, stage, device>>
-----------------------------------------------------------------------------
(* The device.  sq_tail and cq_head are what the doorbells last said.      *)
At(s) == {c \in Command : stage[c] \in s}

Fetch ==
  /\ dev_head # sq_tail
  /\ stage' = [stage EXCEPT ![sq[dev_head]] = "taken"]
  /\ dev_head' = Successor(dev_head)
  /\ UNCHANGED <<driver, cq, dev_tail, dev_phase, buffer>>

Transfer(c) ==
  /\ stage[c] = "taken"
  /\ stage' = [stage EXCEPT ![c] = "moved"]
  /\ buffer' = c
  /\ UNCHANGED <<driver, cq, dev_head, dev_tail, dev_phase>>

(* Only what has been moved is answered as a success.                      *)
Post(c, ok) ==
  /\ stage[c] = "moved" \/ (stage[c] = "taken" /\ ~ok)
  /\ Successor(dev_tail) # cq_head
  /\ stage' = [stage EXCEPT ![c] = IF ok THEN "done" ELSE "failed"]
  /\ cq' = [cq EXCEPT ![dev_tail] = [command |-> c, phase |-> dev_phase, ok |-> ok]]
  /\ dev_tail' = Successor(dev_tail)
  /\ dev_phase' = IF dev_tail' = 0 THEN 1 - dev_phase ELSE dev_phase
  /\ UNCHANGED <<driver, dev_head, buffer>>

Driver == Submit \/ Consume \/ Reject \/ GiveUp

Device ==
  \/ Fetch
  \/ \E c \in Command : Transfer(c)
  \/ \E c \in Command, ok \in BOOLEAN : Post(c, ok)

Next == Driver \/ Device

Spec == Init /\ [][Next]_vars
-----------------------------------------------------------------------------
Stage == {"queued", "taken", "moved", "done", "failed"}
Completion == [command : 0 .. Last, phase : {0, 1}, ok : BOOLEAN]

TypeOK ==
  /\ sq \in [Slot -> 0 .. Last] /\ sq_tail \in Slot
  /\ cq \in [Slot -> Completion] /\ cq_head \in Slot /\ cq_phase \in {0, 1}
  /\ stage \in Seq(Stage)
  /\ result \in Seq(BOOLEAN) /\ Len(result) \in {Last, Last - 1}
  /\ dev_head \in Slot /\ dev_tail \in Slot /\ dev_phase \in {0, 1}
  /\ buffer \in 0 .. Last

Failed == {c \in DOMAIN result : ~result[c]}

(* The id of an earlier command whose call failed came round to c.         *)
IdReused(c) == \E d \in Failed : d < c /\ Id(d) = Id(c)

(* nvme_submit_and_wait returns true only for a command the device has     *)
(* carried out, also after time-outs, errors and late answers: what is     *)
(* left in the ring has another command_id.  That holds until the ids come *)
(* round to a command that got no answer.                                  *)
TrueIsOwn ==
  \A c \in DOMAIN result : result[c] => stage[c] = "done" \/ IdReused(c)

(* The slots of a ring from lo up to, but not including, hi.               *)
Between(lo, hi) ==
  {i \in Slot : IF lo <= hi THEN lo <= i /\ i < hi ELSE lo <= i \/ i < hi}

(* The commands the device has still to take.                              *)
InRing == {sq[i] : i \in Between(dev_head, sq_tail)}

(* The driver never looks whether the submission ring has room, as waiting *)
(* for each answer makes room.  So a command is lost to the device, because *)
(* the tail went past it, only once Depth commands were never taken, and   *)
(* Depth - 1 calls failed.                                                  *)
NothingLost ==
  \/ At({"queued"}) \subseteq InRing
  \/ Cardinality(At({"queued"})) >= Depth /\ Cardinality(Failed) >= Depth - 1

(* While no read has failed, true means that the caller's buffer holds     *)
(* what it asked for, and keeps it until the next read.                    *)
Reads == INSTANCE SectorReads WITH
  asked <- Last, busy <- Busy, sound <- Failed = {}

ReadsSpec == Reads!Spec
=============================================================================
