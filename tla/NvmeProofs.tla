----------------------------- MODULE NvmeProofs -----------------------------
(***************************************************************************)
(* Proofs about the NVMe queue pair, for every depth, number of ids and    *)
(* number of commands.  The invariant that carries the refinement says     *)
(* that, while no call has failed, the driver and the device are in step:  *)
(* all that is in the rings or in the device belongs to the last command,  *)
(* and the phase bits of the completion ring tell exactly the new entry.   *)
(* Two more invariants hold whatever has failed: OwnInv follows each       *)
(* command to its answer, and CountInv counts the commands the device has  *)
(* not taken and the calls that have timed out.                            *)
(***************************************************************************)
EXTENDS NvmeQueue, SequenceTheorems, FiniteSetTheorems, TLAPS

(* The entries the device wrote in this round of the ring have its phase,  *)
(* the others the phase of the round before.                               *)
Phases ==
  \A i \in Slot : cq[i].phase = IF i < dev_tail THEN dev_phase ELSE 1 - dev_phase

PhaseFor(t, p) == IF t = 0 THEN 1 - p ELSE p

Unanswered == {"queued", "taken", "moved"}

(* No entry waits for the driver, and the next one will be seen.           *)
NoEntry == cq_head = dev_tail /\ cq_phase = dev_phase

(* One entry waits for the driver: the answer to the last command.         *)
OneEntry ==
  /\ dev_tail = Successor(cq_head)
  /\ dev_phase = PhaseFor(dev_tail, cq_phase)
  /\ Entry.command = Last /\ Entry.phase = cq_phase
  /\ Entry.ok <=> stage[Last] = "done"

InStepIdle ==
  /\ At(Unanswered) = {}
  /\ dev_head = sq_tail
  /\ NoEntry

InStepBusy ==
  /\ At(Unanswered) \subseteq {Last}
  /\ stage[Last] = "queued" => /\ sq[dev_head] = Last
                               /\ sq_tail = Successor(dev_head)
  /\ stage[Last] # "queued" => dev_head = sq_tail
  /\ IF stage[Last] \in Unanswered THEN NoEntry ELSE OneEntry
  /\ stage[Last] \in {"moved", "done"} => buffer = Last

InStep == Failed = {} => IF Busy THEN InStepBusy ELSE InStepIdle

IInv == TypeOK /\ Phases /\ InStep

LEMMA SuccessorType ==
  ASSUME NEW i \in Slot
  PROVE  Successor(i) \in Slot /\ Successor(i) # i
  BY NvmeAssumption DEF Slot, Successor

LEMMA LastIsNat ==
  ASSUME TypeOK
  PROVE  /\ Last \in Nat /\ Len(result) \in Nat
         /\ Busy => Last \in Command /\ Len(result) = Last - 1
         /\ ~Busy => Len(result) = Last
         /\ DOMAIN stage = Command /\ DOMAIN result = 1 .. Len(result)
<1>1. Last \in Nat /\ Len(result) \in Nat /\ Len(result) \in {Last, Last - 1}
  BY DEF TypeOK, Last
<1>2. DOMAIN stage = Command /\ DOMAIN result = 1 .. Len(result)
  BY DEF TypeOK, Last, Command
<1>3. Busy => Last \in Command /\ Len(result) = Last - 1
  BY <1>1 DEF Busy, Command
<1>4. ~Busy => Len(result) = Last
  BY <1>1 DEF Busy
<1> QED
  BY <1>1, <1>2, <1>3, <1>4

LEMMA InitKeeps == Init => IInv
<1> SUFFICES ASSUME Init PROVE IInv
  OBVIOUS
<1>1. /\ Last = 0 /\ Len(result) = 0 /\ stage \in Seq(Stage) /\ result \in Seq(BOOLEAN)
      /\ DOMAIN result = {} /\ Command = {}
  BY DEF Init, Last, Command
<1>2. 0 \in Slot
  BY NvmeAssumption DEF Slot
<1>3. [command |-> 0, phase |-> 0, ok |-> TRUE] \in Completion
  BY <1>1 DEF Completion
<1>4. sq \in [Slot -> 0 .. Last] /\ cq \in [Slot -> Completion]
  BY <1>1, <1>3 DEF Init
<1>5. TypeOK
  BY <1>1, <1>2, <1>4 DEF Init, TypeOK
<1>6. Phases
  BY <1>1 DEF Init, Phases, Slot
<1>7. ~Busy /\ InStepIdle
  BY <1>1 DEF Init, Busy, InStepIdle, NoEntry, At
<1> QED
  BY <1>5, <1>6, <1>7 DEF IInv, InStep

(* What a call's return does to the results.                               *)
LEMMA Returns ==
  ASSUME TypeOK, Busy, NEW b \in BOOLEAN, Return(b), UNCHANGED stage
  PROVE  /\ result' \in Seq(BOOLEAN) /\ Len(result') = Last /\ Last' = Last
         /\ ~Busy'
         /\ Failed = {} /\ b => Failed' = {}
         /\ Failed' = {} => Failed = {} /\ b
<1>1. Len(result) = Last - 1 /\ Last \in Nat /\ Len(result) \in Nat
  BY LastIsNat
<1>2. /\ result' \in Seq(BOOLEAN) /\ Len(result') = Len(result) + 1
      /\ \A i \in 1 .. Len(result) : result'[i] = result[i]
      /\ result'[Len(result) + 1] = b
  BY AppendProperties DEF TypeOK, Return
<1>3. Last' = Last /\ ~Busy'
  BY <1>1, <1>2 DEF Last, Busy
<1>4. DOMAIN result = 1 .. Len(result) /\ DOMAIN result' = 1 .. Len(result) + 1
  BY <1>2 DEF TypeOK
<1>5. Failed = {} /\ b => Failed' = {}
  <2> SUFFICES ASSUME Failed = {}, b, NEW c \in DOMAIN result' PROVE result'[c]
    BY DEF Failed
  <2>1. CASE c = Len(result) + 1
    BY <1>2, <2>1
  <2>2. CASE c # Len(result) + 1
    <3>1. c \in DOMAIN result
      BY <1>1, <1>4, <2>2
    <3>2. result[c]
      BY <3>1 DEF Failed
    <3> QED
      BY <1>2, <1>4, <3>1, <3>2
  <2> QED
    BY <2>1, <2>2
<1>6. Failed' = {} => Failed = {} /\ b
  BY <1>1, <1>2, <1>4 DEF Failed
<1> QED
  BY <1>1, <1>2, <1>3, <1>5, <1>6

LEMMA SubmitKeeps ==
  ASSUME IInv, Submit
  PROVE  IInv' /\ Last' = Last + 1 /\ Busy' /\ Failed' = Failed
<1>1. TypeOK /\ ~Busy /\ Len(result) = Last /\ Last \in Nat
  BY LastIsNat DEF IInv, Submit
<1>2. /\ stage' \in Seq(Stage) /\ Last' = Last + 1
      /\ \A c \in Command : stage'[c] = stage[c]
      /\ stage'[Last + 1] = "queued"
  BY <1>1, AppendProperties DEF TypeOK, Submit, Last, Stage, Command
<1>3. UNCHANGED <<cq, cq_head, cq_phase, result, dev_head, dev_tail, dev_phase, buffer>>
  BY DEF Submit, device
<1>4. Busy' /\ Failed' = Failed /\ Len(result') = Last' - 1
  BY <1>1, <1>2, <1>3 DEF Busy, Failed
<1>5. /\ sq' = [sq EXCEPT ![sq_tail] = Last + 1] /\ sq_tail' = Successor(sq_tail)
      /\ sq_tail \in Slot /\ sq_tail' \in Slot
  BY <1>1, SuccessorType DEF Submit, SlotToFill, TypeOK
<1>6. TypeOK'
  <2>1. 0 .. Last \subseteq 0 .. Last' /\ Last + 1 \in 0 .. Last'
    BY <1>1, <1>2
  <2>2. sq' \in [Slot -> 0 .. Last']
    BY <1>1, <1>5, <2>1 DEF TypeOK
  <2>3. cq' \in [Slot -> Completion']
    BY <1>1, <1>3, <2>1 DEF TypeOK, Completion
  <2> QED
    BY <1>1, <1>2, <1>3, <1>4, <1>5, <2>1, <2>2, <2>3 DEF TypeOK
<1>7. Phases'
  BY <1>3 DEF IInv, Phases
<1>8. ASSUME Failed = {}
      PROVE  InStepBusy'
  <2>1. InStepIdle
    BY <1>1, <1>8 DEF IInv, InStep
  <2>2. At(Unanswered)' \subseteq {Last'}
    BY <1>1, <1>2, <2>1 DEF InStepIdle, At, Command
  <2>3. sq'[dev_head'] = Last' /\ sq_tail' = Successor(dev_head')
    BY <1>1, <1>2, <1>3, <1>5, <2>1 DEF InStepIdle, TypeOK
  <2>4. NoEntry'
    BY <1>3, <2>1 DEF InStepIdle, NoEntry
  <2> QED
    BY <1>2, <2>2, <2>3, <2>4 DEF InStepBusy, Unanswered
<1> QED
  BY <1>2, <1>4, <1>6, <1>7, <1>8 DEF IInv, InStep

LEMMA ConsumeKeeps ==
  ASSUME IInv, Consume
  PROVE  /\ IInv' /\ Last' = Last /\ Busy /\ ~Busy' /\ buffer' = buffer
         /\ Failed = {} => buffer = Last
         /\ Failed' = {} <=> Failed = {}
<1>1. TypeOK /\ Busy /\ IsNew /\ IsMine /\ Return(TRUE) /\ Last \in Command
  BY LastIsNat DEF IInv, Consume
<1>2. /\ UNCHANGED <<sq, sq_tail, stage, cq, dev_head, dev_tail, dev_phase, buffer>>
      /\ cq_head' = Successor(cq_head) /\ cq_phase' = PhaseFor(cq_head', cq_phase)
  BY DEF Consume, device, PhaseAfter, PhaseFor
<1>3. /\ result' \in Seq(BOOLEAN) /\ Len(result') = Last /\ Last' = Last
      /\ ~Busy' /\ (Failed' = {} <=> Failed = {})
  BY <1>1, <1>2, Returns
<1>4. cq_head' \in Slot /\ cq_phase' \in {0, 1}
  BY <1>1, <1>2, SuccessorType DEF TypeOK, PhaseFor
<1>5. TypeOK'
  BY <1>1, <1>2, <1>3, <1>4 DEF TypeOK, Completion
<1>6. Phases'
  BY <1>2 DEF IInv, Phases
<1>7. ASSUME Failed = {}
      PROVE  buffer = Last /\ InStepIdle'
  <2>1. InStepBusy
    BY <1>1, <1>7 DEF IInv, InStep
  <2>2. ~NoEntry
    <3> SUFFICES ASSUME NoEntry PROVE FALSE
      OBVIOUS
    <3>1. cq[cq_head].phase = 1 - cq_phase /\ cq_phase \in {0, 1}
      BY <1>1 DEF NoEntry, IInv, Phases, TypeOK, Slot
    <3> QED
      BY <1>1, <3>1 DEF IsNew, Entry
  <2>3. stage[Last] \notin Unanswered /\ OneEntry
    BY <2>1, <2>2 DEF InStepBusy
  <2>4. stage[Last] = "done"
    BY <1>1, <2>3 DEF OneEntry, IsMine
  <2>5. buffer = Last /\ At(Unanswered) \subseteq {Last} /\ dev_head = sq_tail
    BY <2>1, <2>4 DEF InStepBusy
  <2>6. At(Unanswered) = {}
    BY <2>3, <2>5 DEF At
  <2>7. NoEntry'
    BY <1>2, <2>3 DEF NoEntry, OneEntry
  <2> QED
    BY <1>2, <2>5, <2>6, <2>7 DEF InStepIdle, At, Command, Last
<1> QED
  BY <1>1, <1>2, <1>3, <1>5, <1>6, <1>7 DEF IInv, InStep

LEMMA RefuseKeeps ==
  ASSUME IInv, Reject \/ GiveUp
  PROVE  IInv' /\ Last' = Last /\ Busy /\ ~Busy' /\ Failed' # {} /\ buffer' = buffer
<1>1. /\ TypeOK /\ Busy /\ Return(FALSE)
      /\ UNCHANGED <<sq, sq_tail, cq_head, cq_phase, stage,
                     cq, dev_head, dev_tail, dev_phase, buffer>>
  BY DEF IInv, Reject, GiveUp, device
<1>2. /\ result' \in Seq(BOOLEAN) /\ Len(result') = Last /\ Last' = Last
      /\ ~Busy' /\ Failed' # {}
  BY <1>1, Returns
<1>3. TypeOK'
  BY <1>1, <1>2 DEF TypeOK, Completion
<1>4. Phases'
  BY <1>1 DEF IInv, Phases
<1> QED
  BY <1>1, <1>2, <1>3, <1>4 DEF IInv, InStep
-----------------------------------------------------------------------------
(* The device moves a command on.                                          *)
LEMMA StageMoves ==
  ASSUME TypeOK, NEW x, NEW s \in Stage, stage' = [stage EXCEPT ![x] = s]
  PROVE  /\ stage' \in Seq(Stage) /\ Last' = Last
         /\ \A c \in Command : stage'[c] = IF c = x THEN s ELSE stage[c]
<1>1. Last \in Nat /\ DOMAIN stage = Command
  BY LastIsNat
<1>2. stage \in [Command -> Stage]
  BY DEF TypeOK, Command, Last
<1>3. stage' \in [1 .. Last -> Stage]
  BY <1>2 DEF Command
<1>4. stage' \in Seq(Stage) /\ Len(stage') = Last
  <2>1. stage' \in Seq(Stage)
    BY <1>1, <1>3, SeqDef
  <2>2. Len(stage') \in Nat /\ DOMAIN stage' = 1 .. Len(stage') /\ DOMAIN stage' = 1 .. Last
    BY <2>1, <1>3, LenProperties
  <2>3. \A m, n \in Nat : 1 .. m = 1 .. n => m = n
    <3> TAKE m, n \in Nat
    <3>1. CASE m < n
      <4>1. n \in 1 .. n /\ n \notin 1 .. m
        BY <3>1
      <4> QED
        BY <4>1
    <3>2. CASE n < m
      <4>1. m \in 1 .. m /\ m \notin 1 .. n
        BY <3>2
      <4> QED
        BY <4>1
    <3> QED
      BY <3>1, <3>2
  <2>4. Len(stage') = Last
    BY <1>1, <2>2, <2>3
  <2> QED
    BY <2>1, <2>4
<1> QED
  BY <1>1, <1>2, <1>4 DEF Last

LEMMA FetchKeeps ==
  ASSUME IInv, Fetch
  PROVE  IInv' /\ Last' = Last /\ Busy' = Busy /\ Failed' = Failed /\ buffer' = buffer
<1>1. /\ TypeOK /\ dev_head # sq_tail /\ dev_head \in Slot
      /\ stage' = [stage EXCEPT ![sq[dev_head]] = "taken"]
      /\ dev_head' = Successor(dev_head) /\ dev_head' \in Slot
      /\ UNCHANGED <<sq, sq_tail, cq, cq_head, cq_phase, result, dev_tail, dev_phase, buffer>>
  BY SuccessorType DEF IInv, Fetch, TypeOK, driver
<1>2. /\ stage' \in Seq(Stage) /\ Last' = Last
      /\ \A c \in Command : stage'[c] = IF c = sq[dev_head] THEN "taken" ELSE stage[c]
  BY <1>1, StageMoves DEF Stage
<1>3. Busy' = Busy /\ Failed' = Failed /\ buffer' = buffer
  BY <1>1, <1>2 DEF Busy, Failed
<1>4. TypeOK'
  BY <1>1, <1>2 DEF TypeOK, Completion
<1>5. Phases'
  BY <1>1 DEF IInv, Phases
<1>6. ASSUME Failed = {}
      PROVE  Busy /\ InStepBusy'
  <2>1. Busy /\ InStepBusy
    BY <1>1, <1>6 DEF IInv, InStep, InStepIdle
  <2>2. Last \in Command /\ stage[Last] = "queued" /\ sq[dev_head] = Last
    BY <1>1, <2>1, LastIsNat DEF InStepBusy
  <2>3. stage'[Last] = "taken" /\ dev_head' = sq_tail'
    BY <1>1, <1>2, <2>1, <2>2 DEF InStepBusy
  <2>4. At(Unanswered)' \subseteq {Last'}
    BY <1>2, <2>1, <2>2 DEF InStepBusy, At, Command
  <2>5. NoEntry'
    BY <1>1, <2>1, <2>2 DEF InStepBusy, NoEntry, Unanswered
  <2> QED
    BY <1>2, <2>1, <2>3, <2>4, <2>5 DEF InStepBusy, Unanswered
<1> QED
  BY <1>2, <1>3, <1>4, <1>5, <1>6 DEF IInv, InStep

LEMMA TransferKeeps ==
  ASSUME IInv, NEW c \in Command, Transfer(c)
  PROVE  IInv' /\ Last' = Last /\ Busy' = Busy /\ Failed' = Failed
         /\ buffer' \in 0 .. Last /\ (Busy \/ Failed # {})
<1>1. /\ TypeOK /\ stage[c] = "taken" /\ stage' = [stage EXCEPT ![c] = "moved"]
      /\ buffer' = c
      /\ UNCHANGED <<sq, sq_tail, cq, cq_head, cq_phase, result,
                     dev_head, dev_tail, dev_phase>>
  BY DEF IInv, Transfer, driver
<1>2. /\ stage' \in Seq(Stage) /\ Last' = Last /\ c \in 0 .. Last
      /\ \A d \in Command : stage'[d] = IF d = c THEN "moved" ELSE stage[d]
  <2>1. c \in 0 .. Last
    BY <1>1, LastIsNat DEF Command
  <2>2. "moved" \in Stage
    BY DEF Stage
  <2> QED
    BY <1>1, <2>1, <2>2, StageMoves
<1>3. Busy' = Busy /\ Failed' = Failed
  BY <1>1, <1>2 DEF Busy, Failed
<1>4. TypeOK'
  BY <1>1, <1>2 DEF TypeOK, Completion
<1>5. Phases'
  BY <1>1 DEF IInv, Phases
<1>6. ASSUME Failed = {}
      PROVE  Busy /\ InStepBusy'
  <2>1. c \in At(Unanswered)
    BY <1>1 DEF At, Unanswered
  <2>2. Busy /\ InStepBusy /\ c = Last
    BY <1>6, <2>1 DEF IInv, InStep, InStepIdle, InStepBusy
  <2>3. stage'[Last] = "moved" /\ dev_head' = sq_tail' /\ NoEntry' /\ buffer' = Last
    BY <1>1, <1>2, <2>2 DEF InStepBusy, NoEntry, Unanswered
  <2>4. At(Unanswered)' \subseteq {Last'}
    BY <1>2, <2>2 DEF InStepBusy, At, Command
  <2> QED
    BY <1>2, <2>2, <2>3, <2>4 DEF InStepBusy, Unanswered
<1> QED
  BY <1>1, <1>2, <1>3, <1>4, <1>5, <1>6 DEF IInv, InStep

LEMMA PostKeeps ==
  ASSUME IInv, NEW c \in Command, NEW ok \in BOOLEAN, Post(c, ok)
  PROVE  IInv' /\ Last' = Last /\ Busy' = Busy /\ Failed' = Failed /\ buffer' = buffer
<1> DEFINE answer == IF ok THEN "done" ELSE "failed"
           entry == [command |-> c, phase |-> dev_phase, ok |-> ok]
<1>1. /\ TypeOK /\ stage[c] \in {"taken", "moved"} /\ (ok => stage[c] = "moved")
      /\ stage' = [stage EXCEPT ![c] = answer]
      /\ cq' = [cq EXCEPT ![dev_tail] = entry]
      /\ dev_tail' = Successor(dev_tail) /\ dev_phase' = PhaseFor(dev_tail', dev_phase)
      /\ UNCHANGED <<sq, sq_tail, cq_head, cq_phase, result, dev_head, buffer>>
  BY DEF IInv, Post, PhaseFor, driver
<1>2. /\ stage' \in Seq(Stage) /\ Last' = Last /\ c \in 0 .. Last
      /\ \A d \in Command : stage'[d] = IF d = c THEN answer ELSE stage[d]
  <2>1. c \in 0 .. Last
    BY <1>1, LastIsNat DEF Command
  <2>2. answer \in Stage
    BY DEF Stage
  <2> QED
    BY <1>1, <2>1, <2>2, StageMoves
<1>3. Busy' = Busy /\ Failed' = Failed
  BY <1>1, <1>2 DEF Busy, Failed
<1>4. dev_tail \in Slot /\ dev_tail' \in Slot /\ dev_phase' \in {0, 1} /\ dev_phase \in {0, 1}
  BY <1>1, SuccessorType DEF TypeOK, PhaseFor
<1>5. TypeOK'
  <2>1. entry \in Completion'
    BY <1>2, <1>4 DEF Completion
  <2>2. cq' \in [Slot -> Completion']
    BY <1>1, <1>2, <1>4, <2>1 DEF TypeOK, Completion
  <2> QED
    BY <1>1, <1>2, <1>4, <2>2 DEF TypeOK
<1>6. Phases'
  <2> SUFFICES ASSUME NEW i \in Slot
               PROVE  cq'[i].phase = IF i < dev_tail' THEN dev_phase' ELSE 1 - dev_phase'
    BY DEF Phases
  <2>1. cq'[i].phase = IF i <= dev_tail THEN dev_phase ELSE 1 - dev_phase
    <3>1. cq'[i] = IF i = dev_tail THEN entry ELSE cq[i]
      BY <1>1, <1>4 DEF TypeOK
    <3>2. cq[i].phase = IF i < dev_tail THEN dev_phase ELSE 1 - dev_phase
      BY DEF IInv, Phases
    <3> QED
      BY <1>4, <3>1, <3>2 DEF Slot
  <2>2. CASE dev_tail = Depth - 1
    BY <1>1, <1>4, <2>1, <2>2, NvmeAssumption DEF Successor, PhaseFor, Slot
  <2>3. CASE dev_tail # Depth - 1
    BY <1>1, <1>4, <2>1, <2>3, NvmeAssumption DEF Successor, PhaseFor, Slot
  <2> QED
    BY <2>2, <2>3
<1>7. ASSUME Failed = {}
      PROVE  Busy /\ InStepBusy'
  <2>1. c \in At(Unanswered)
    BY <1>1 DEF At, Unanswered
  <2>2. Busy /\ InStepBusy /\ c = Last
    BY <1>7, <2>1 DEF IInv, InStep, InStepIdle, InStepBusy
  <2>3. NoEntry /\ dev_head = sq_tail /\ (ok => buffer = Last)
    BY <1>1, <2>2 DEF InStepBusy, Unanswered
  <2>4. stage'[Last] = answer
    BY <1>2, <2>2
  <2>5. OneEntry'
    <3>1. Entry' = entry
      BY <1>1, <1>4, <2>3 DEF Entry, NoEntry, TypeOK
    <3>2. dev_tail' = Successor(cq_head') /\ dev_phase' = PhaseFor(dev_tail', cq_phase')
      BY <1>1, <2>3 DEF NoEntry
    <3>3. ok <=> answer = "done"
      OBVIOUS
    <3> QED
      BY <1>1, <1>2, <2>2, <2>3, <2>4, <3>1, <3>2, <3>3 DEF OneEntry, NoEntry
  <2>6. At(Unanswered)' \subseteq {Last'}
    BY <1>2, <2>2 DEF InStepBusy, At, Command
  <2> QED
    BY <1>1, <1>2, <2>2, <2>3, <2>4, <2>5, <2>6 DEF InStepBusy, Unanswered
<1> QED
  BY <1>2, <1>1, <1>3, <1>5, <1>6, <1>7 DEF IInv, InStep

LEMMA StutterKeeps ==
  ASSUME IInv, UNCHANGED vars
  PROVE  IInv' /\ Last' = Last /\ Busy' = Busy /\ Failed' = Failed /\ buffer' = buffer
<1>1. UNCHANGED <<sq, sq_tail, cq, cq_head, cq_phase, stage, result,
                  dev_head, dev_tail, dev_phase, buffer>>
  BY DEF vars, driver, device
<1>2. TypeOK' /\ Phases'
  BY <1>1 DEF IInv, TypeOK, Phases, Completion, Last
<1>3. InStep'
  BY <1>1 DEF IInv, InStep, InStepIdle, InStepBusy, NoEntry, OneEntry, Entry,
              Failed, Busy, Last, At, Command
<1> QED
  BY <1>1, <1>2, <1>3 DEF IInv, Last, Busy, Failed

LEMMA Invariance == Spec => []IInv
<1>1. Init => IInv
  BY InitKeeps
<1>2. IInv /\ [Next]_vars => IInv'
  <2> SUFFICES ASSUME IInv, [Next]_vars PROVE IInv'
    OBVIOUS
  <2>1. CASE Submit
    BY <2>1, SubmitKeeps
  <2>2. CASE Consume
    BY <2>2, ConsumeKeeps
  <2>3. CASE Reject \/ GiveUp
    BY <2>3, RefuseKeeps
  <2>4. CASE Fetch
    BY <2>4, FetchKeeps
  <2>5. ASSUME NEW c \in Command, Transfer(c) PROVE IInv'
    BY <2>5, TransferKeeps
  <2>6. ASSUME NEW c \in Command, NEW ok \in BOOLEAN, Post(c, ok) PROVE IInv'
    BY <2>6, PostKeeps
  <2>7. CASE UNCHANGED vars
    BY <2>7, StutterKeeps
  <2> QED
    BY <2>1, <2>2, <2>3, <2>4, <2>5, <2>6, <2>7 DEF Next, Driver, Device
<1> QED
  BY <1>1, <1>2, PTL DEF Spec

(* The variables of the driver and of the rings keep to their types: the   *)
(* indexes stay in the rings, and there is at most one call without result. *)
THEOREM TypeCorrect == Spec => []TypeOK
<1>1. IInv => TypeOK
  BY DEF IInv
<1> QED
  BY <1>1, Invariance, PTL

(* nvme_submit_and_wait keeps the promise of SectorReads: while no call    *)
(* has failed, true means the buffer holds what was asked for.             *)
THEOREM KeepsPromise == Spec => ReadsSpec
<1>1. Init => Reads!Init
  BY DEF Init, Reads!Init, Last, Busy, Failed
<1>2. IInv /\ [Next]_vars => [Reads!Next]_Reads!vars
  <2> SUFFICES ASSUME IInv, [Next]_vars PROVE [Reads!Next]_Reads!vars
    OBVIOUS
  <2>1. CASE Submit
    <3>1. ~Busy /\ buffer' = buffer
      BY <2>1 DEF Submit, device
    <3>2. Reads!Ask
      BY <2>1, <3>1, SubmitKeeps DEF Reads!Ask
    <3> QED
      BY <3>2 DEF Reads!Next
  <2>2. CASE Consume
    <3>1. Reads!Succeed
      BY <2>2, ConsumeKeeps DEF Reads!Succeed
    <3> QED
      BY <3>1 DEF Reads!Next
  <2>3. CASE Reject \/ GiveUp
    <3>1. Reads!Fail
      BY <2>3, RefuseKeeps DEF Reads!Fail
    <3> QED
      BY <3>1 DEF Reads!Next
  <2>4. CASE Fetch
    BY <2>4, FetchKeeps DEF Reads!vars
  <2>5. ASSUME NEW c \in Command, Transfer(c)
        PROVE  Reads!Next
    <3>1. Reads!Fill
      BY <2>5, TransferKeeps DEF Reads!Fill
    <3> QED
      BY <3>1 DEF Reads!Next
  <2>6. ASSUME NEW c \in Command, NEW ok \in BOOLEAN, Post(c, ok)
        PROVE  UNCHANGED Reads!vars
    BY <2>6, PostKeeps DEF Reads!vars
  <2>7. CASE UNCHANGED vars
    BY <2>7, StutterKeeps DEF Reads!vars
  <2> QED
    BY <2>1, <2>2, <2>3, <2>4, <2>5, <2>6, <2>7 DEF Next, Driver, Device
<1> QED
  BY <1>1, <1>2, Invariance, PTL DEF Spec, ReadsSpec, Reads!Spec
-----------------------------------------------------------------------------
(***************************************************************************)
(* TrueIsOwn needs no call to have been in step.  It follows from what is  *)
(* in the rings: the device takes only commands it has not taken before,   *)
(* and each completion that waits is the answer to a different command,    *)
(* which is still owed one unless its id had been used before.             *)
(***************************************************************************)
ToTake == Between(dev_head, sq_tail)
ToRead == Between(cq_head, dev_tail)

(* The driver is in the device's round of the completion ring, or one      *)
(* behind it.                                                              *)
Rounds == IF cq_phase = dev_phase THEN cq_head <= dev_tail ELSE dev_tail < cq_head

QueuedInRing ==
  /\ \A i \in ToTake : sq[i] \in Command /\ stage[sq[i]] = "queued"
  /\ \A i, j \in ToTake : sq[i] = sq[j] => i = j

Answer(e) ==
  /\ e.command \in Command
  /\ stage[e.command] = IF e.ok THEN "done" ELSE "failed"
  /\ e.command \in DOMAIN result /\ result[e.command] => IdReused(e.command)

AnswersInRing ==
  /\ \A i \in ToRead : Answer(cq[i])
  /\ \A i, j \in ToRead : cq[i].command = cq[j].command => i = j

OwnInv == IInv /\ Rounds /\ QueuedInRing /\ AnswersInRing /\ TrueIsOwn

LEMMA RingMoves ==
  ASSUME NEW lo \in Slot, NEW hi \in Slot
  PROVE  /\ hi \notin Between(lo, hi)
         /\ lo \in Between(lo, hi) <=> lo # hi
         /\ lo # hi => Between(Successor(lo), hi) = Between(lo, hi) \ {lo}
         /\ Between(lo, Successor(hi)) \subseteq Between(lo, hi) \cup {hi}
  BY NvmeAssumption DEF Between, Successor, Slot

LEMMA OwnInit == Init => OwnInv
<1> SUFFICES ASSUME Init PROVE OwnInv
  OBVIOUS
<1>1. ToTake = {} /\ ToRead = {}
  BY DEF Init, ToTake, ToRead, Between, Slot
<1>2. Rounds /\ TrueIsOwn
  BY DEF Init, Rounds, TrueIsOwn
<1> QED
  BY <1>1, <1>2, InitKeeps DEF OwnInv, QueuedInRing, AnswersInRing

(* An id stays used.                                                       *)
LEMMA ReuseStays ==
  ASSUME TypeOK, NEW c, IdReused(c), NEW b \in BOOLEAN,
         result' = result \/ (Busy /\ Return(b))
  PROVE  IdReused(c)'
<1>1. ASSUME NEW d \in Failed PROVE d \in Failed'
  <2>1. CASE result' = result
    BY <1>1, <2>1 DEF Failed
  <2>2. CASE Busy /\ Return(b)
    <3>1. /\ Len(result') = Len(result) + 1 /\ Len(result) \in Nat
          /\ result' \in Seq(BOOLEAN) /\ \A i \in 1 .. Len(result) : result'[i] = result[i]
      BY <2>2, AppendProperties DEF TypeOK, Return
    <3>2. DOMAIN result = 1 .. Len(result) /\ DOMAIN result' = 1 .. Len(result) + 1
      BY <3>1 DEF TypeOK
    <3>3. d \in 1 .. Len(result) /\ ~result[d] /\ d \in 1 .. Len(result) + 1
      BY <1>1, <3>1, <3>2 DEF Failed
    <3> QED
      BY <3>1, <3>2, <3>3 DEF Failed
  <2> QED
    BY <2>1, <2>2
<1> QED
  BY <1>1 DEF IdReused, Id

LEMMA OwnSubmit ==
  ASSUME OwnInv, Submit
  PROVE  OwnInv'
<1>1. TypeOK /\ IInv' /\ Last' = Last + 1 /\ Last \in Nat /\ DOMAIN result = 1 .. Last
  BY SubmitKeeps, LastIsNat DEF OwnInv, IInv, Submit
<1>2. /\ \A c \in Command : stage'[c] = stage[c] /\ c \in Command'
      /\ stage'[Last + 1] = "queued" /\ Last + 1 \in Command'
  BY <1>1, AppendProperties DEF TypeOK, Submit, Last, Stage, Command
<1>3. /\ UNCHANGED <<cq, cq_head, cq_phase, result, dev_head, dev_tail, dev_phase>>
      /\ sq' = [sq EXCEPT ![sq_tail] = Last + 1] /\ sq_tail' = Successor(sq_tail)
      /\ sq_tail \in Slot /\ dev_head \in Slot
  BY <1>1 DEF Submit, device, SlotToFill, TypeOK
<1>4. ToTake' \subseteq ToTake \cup {sq_tail} /\ sq_tail \notin ToTake
  BY <1>3, RingMoves DEF ToTake
<1>5. \A i \in Slot : sq'[i] = IF i = sq_tail THEN Last + 1 ELSE sq[i]
  BY <1>1, <1>3 DEF TypeOK
<1>6. ToTake' \subseteq Slot
  BY DEF ToTake, Between, Slot
<1>7. QueuedInRing'
  <2>1. \A i \in ToTake : sq[i] \in Command /\ stage[sq[i]] = "queued" /\ sq[i] # Last + 1
    BY <1>1 DEF OwnInv, QueuedInRing, Command
  <2>2. \A i \in ToTake' : sq'[i] \in Command' /\ stage'[sq'[i]] = "queued"
    BY <1>2, <1>4, <1>5, <1>6, <2>1
  <2>3. \A i, j \in ToTake' : sq'[i] = sq'[j] => i = j
    BY <1>4, <1>5, <1>6, <2>1 DEF OwnInv, QueuedInRing
  <2> QED
    BY <2>2, <2>3 DEF QueuedInRing
<1>8. \A c : IdReused(c)' <=> IdReused(c)
  BY <1>3 DEF IdReused, Failed, Id
<1>9. AnswersInRing'
  <2>1. ToRead' = ToRead
    BY <1>3 DEF ToRead
  <2>2. \A i \in ToRead : Answer(cq[i])'
    BY <1>2, <1>3, <1>8 DEF OwnInv, AnswersInRing, Answer
  <2> QED
    BY <1>3, <2>1, <2>2 DEF OwnInv, AnswersInRing, Answer
<1>10. TrueIsOwn'
  BY <1>1, <1>2, <1>3, <1>8 DEF OwnInv, TrueIsOwn, Command
<1>11. Rounds'
  BY <1>3 DEF OwnInv, Rounds
<1> QED
  BY <1>1, <1>7, <1>9, <1>10, <1>11 DEF OwnInv

(* The call that returned was the last one; the others' results stay.      *)
LEMMA ReturnsLast ==
  ASSUME TypeOK, Busy, NEW b \in BOOLEAN, Return(b), UNCHANGED stage
  PROVE  /\ DOMAIN result' = Command /\ Command' = Command
         /\ Last \in Command /\ result'[Last] = b
         /\ \A c \in Command : c # Last =>
              c \in DOMAIN result /\ c < Last /\ result'[c] = result[c]
<1>1. /\ Last \in Command /\ Last \in Nat /\ Len(result) \in Nat /\ Len(result) = Last - 1
      /\ DOMAIN result = 1 .. Len(result)
  BY LastIsNat
<1>2. /\ result' \in Seq(BOOLEAN) /\ Len(result') = Len(result) + 1
      /\ \A i \in 1 .. Len(result) : result'[i] = result[i]
      /\ result'[Len(result) + 1] = b
  BY AppendProperties DEF TypeOK, Return
<1>3. DOMAIN result' = 1 .. Last
  BY <1>1, <1>2
<1> QED
  BY <1>1, <1>2, <1>3 DEF Command, Last

(* The phase bit tells a new entry from one of the round before.           *)
LEMMA NewIsUnread ==
  ASSUME OwnInv, IsNew
  PROVE  cq_head # dev_tail
<1> SUFFICES ASSUME cq_head = dev_tail PROVE FALSE
  OBVIOUS
<1>1. cq_head \in Slot /\ dev_tail \in Slot /\ cq_phase \in {0, 1} /\ dev_phase \in {0, 1}
  BY DEF OwnInv, IInv, TypeOK
<1>2. cq_phase = dev_phase
  BY <1>1 DEF OwnInv, Rounds, Slot
<1>3. cq[cq_head].phase = 1 - dev_phase
  BY <1>1 DEF OwnInv, IInv, Phases, Slot
<1> QED
  BY <1>1, <1>2, <1>3 DEF IsNew, Entry

LEMMA OwnConsume ==
  ASSUME OwnInv, Consume
  PROVE  OwnInv'
<1>1. TypeOK /\ IInv' /\ Busy /\ IsNew /\ IsMine /\ Return(TRUE)
  BY ConsumeKeeps DEF OwnInv, IInv, Consume
<1>2. /\ UNCHANGED <<sq, sq_tail, stage, cq, dev_head, dev_tail, dev_phase>>
      /\ cq_head' = Successor(cq_head) /\ cq_phase' = PhaseFor(cq_head', cq_phase)
  BY DEF Consume, device, PhaseAfter, PhaseFor
<1>3. cq_head \in Slot /\ dev_tail \in Slot /\ cq_phase \in {0, 1} /\ dev_phase \in {0, 1}
  BY <1>1 DEF TypeOK
<1>4. cq_head # dev_tail
  BY <1>1, NewIsUnread
<1>5. cq_head \in ToRead /\ ToRead' = ToRead \ {cq_head}
  BY <1>2, <1>3, <1>4, RingMoves DEF ToRead
<1>6. /\ DOMAIN result' = Command /\ Command' = Command
      /\ Last \in Command /\ result'[Last] = TRUE
      /\ \A c \in Command : c # Last =>
           c \in DOMAIN result /\ c < Last /\ result'[c] = result[c]
  BY <1>1, <1>2, ReturnsLast
<1>7. \A c : IdReused(c) => IdReused(c)'
  BY <1>1, ReuseStays
<1>8. /\ Entry.command \in Command /\ stage[Entry.command] = "done"
      /\ Id(Entry.command) = Id(Last)
      /\ Entry.command \in DOMAIN result /\ result[Entry.command] =>
           IdReused(Entry.command)
  BY <1>1, <1>5 DEF OwnInv, AnswersInRing, Answer, Entry, IsMine
<1>9. Entry.command # Last => IdReused(Last)
  <2> SUFFICES ASSUME Entry.command # Last PROVE IdReused(Last)
    OBVIOUS
  <2>1. Entry.command \in DOMAIN result /\ Entry.command < Last
    BY <1>6, <1>8
  <2>2. CASE result[Entry.command]
    <3>1. PICK d \in Failed : d < Entry.command /\ Id(d) = Id(Entry.command)
      BY <1>8, <2>1, <2>2 DEF IdReused
    <3>2. d \in Nat /\ Last \in Nat /\ Entry.command \in Nat
      BY <1>1, <1>8, LastIsNat DEF Failed, Command
    <3> QED
      BY <1>8, <2>1, <3>1, <3>2 DEF IdReused
  <2>3. CASE ~result[Entry.command]
    BY <1>8, <2>1, <2>3 DEF IdReused, Failed
  <2> QED
    BY <2>2, <2>3
<1>10. TrueIsOwn'
  <2> SUFFICES ASSUME NEW c \in Command, result'[c]
               PROVE  stage[c] = "done" \/ IdReused(c)'
    BY <1>2, <1>6 DEF TrueIsOwn
  <2>1. CASE c = Last
    BY <1>7, <1>8, <1>9, <2>1
  <2>2. CASE c # Last
    BY <1>6, <1>7, <2>2 DEF OwnInv, TrueIsOwn
  <2> QED
    BY <2>1, <2>2
<1>11. AnswersInRing'
  <2>1. ASSUME NEW i \in ToRead'
        PROVE  Answer(cq[i])'
    <3>1. i \in ToRead /\ i # cq_head /\ Answer(cq[i]) /\ cq[i].command # Entry.command
      BY <1>5, <2>1 DEF OwnInv, AnswersInRing, Entry
    <3>2. cq[i].command = Last => IdReused(Last)
      BY <1>9, <3>1
    <3> DEFINE c == cq[i].command
    <3>3. c \in Command /\ (c \in DOMAIN result /\ result[c] => IdReused(c))
      BY <3>1 DEF Answer
    <3>4. result'[c] => IdReused(c)
      BY <1>6, <3>2, <3>3
    <3>5. result'[c] => IdReused(c)'
      BY <1>2, <1>7, <3>4
    <3> QED
      BY <1>2, <1>6, <3>1, <3>3, <3>5 DEF Answer
  <2>2. \A i, j \in ToRead' : cq[i].command = cq[j].command => i = j
    BY <1>5 DEF OwnInv, AnswersInRing
  <2> QED
    BY <1>2, <2>1, <2>2 DEF AnswersInRing
<1>12. QueuedInRing'
  <2>1. ToTake' = ToTake
    BY <1>2 DEF ToTake
  <2> QED
    BY <1>2, <1>6, <2>1 DEF OwnInv, QueuedInRing
<1>13. Rounds'
  BY <1>2, <1>3, <1>4, NvmeAssumption DEF OwnInv, Rounds, Successor, PhaseFor, Slot
<1> QED
  BY <1>1, <1>10, <1>11, <1>12, <1>13 DEF OwnInv

LEMMA OwnRefuse ==
  ASSUME OwnInv, Reject \/ GiveUp
  PROVE  OwnInv'
<1>1. /\ TypeOK /\ IInv' /\ Busy /\ Return(FALSE)
      /\ UNCHANGED <<sq, sq_tail, cq_head, cq_phase, stage,
                     cq, dev_head, dev_tail, dev_phase>>
  BY RefuseKeeps DEF OwnInv, IInv, Reject, GiveUp, device
<1>2. /\ DOMAIN result' = Command /\ Command' = Command /\ result'[Last] = FALSE
      /\ \A c \in Command : c # Last =>
           c \in DOMAIN result /\ c < Last /\ result'[c] = result[c]
  BY <1>1, ReturnsLast
<1>3. \A c : IdReused(c) => IdReused(c)'
  BY <1>1, ReuseStays
<1>4. ToRead' = ToRead /\ ToTake' = ToTake
  BY <1>1 DEF ToRead, ToTake
<1>5. AnswersInRing'
  <2>1. ASSUME NEW i \in ToRead
        PROVE  Answer(cq[i])'
    <3>1. Answer(cq[i])
      BY <2>1 DEF OwnInv, AnswersInRing
    <3> QED
      BY <1>1, <1>2, <1>3, <3>1 DEF Answer
  <2> QED
    BY <1>1, <1>4, <2>1 DEF OwnInv, AnswersInRing
<1>6. QueuedInRing' /\ Rounds'
  BY <1>1, <1>2, <1>4 DEF OwnInv, QueuedInRing, Rounds
<1>7. TrueIsOwn'
  BY <1>1, <1>2, <1>3 DEF OwnInv, TrueIsOwn
<1> QED
  BY <1>1, <1>5, <1>6, <1>7 DEF OwnInv

LEMMA OwnFetch ==
  ASSUME OwnInv, Fetch
  PROVE  OwnInv'
<1> DEFINE n == sq[dev_head]
<1>1. /\ TypeOK /\ IInv' /\ dev_head # sq_tail /\ dev_head \in Slot /\ sq_tail \in Slot
      /\ stage' = [stage EXCEPT ![n] = "taken"] /\ dev_head' = Successor(dev_head)
      /\ UNCHANGED <<sq, sq_tail, cq, cq_head, cq_phase, result, dev_tail, dev_phase>>
  BY FetchKeeps DEF OwnInv, IInv, Fetch, TypeOK, driver
<1>2. dev_head \in ToTake /\ ToTake' = ToTake \ {dev_head}
  BY <1>1, RingMoves DEF ToTake
<1>3. n \in Command /\ stage[n] = "queued"
  BY <1>2 DEF OwnInv, QueuedInRing
<1>4. /\ Last' = Last
      /\ \A c \in Command : stage'[c] = IF c = n THEN "taken" ELSE stage[c]
  BY <1>1, StageMoves DEF Stage
<1>5. Command' = Command /\ \A c : IdReused(c)' <=> IdReused(c)
  BY <1>1, <1>4 DEF Command, IdReused, Failed, Id
<1>6. QueuedInRing'
  BY <1>1, <1>2, <1>4, <1>5 DEF OwnInv, QueuedInRing
<1>7. AnswersInRing'
  <2>1. ToRead' = ToRead
    BY <1>1 DEF ToRead
  <2>2. \A i \in ToRead : Answer(cq[i])'
    BY <1>1, <1>3, <1>4, <1>5 DEF OwnInv, AnswersInRing, Answer
  <2> QED
    BY <1>1, <2>1, <2>2 DEF OwnInv, AnswersInRing
<1>8. TrueIsOwn'
  BY <1>1, <1>3, <1>4, <1>5, LastIsNat DEF OwnInv, TrueIsOwn, TypeOK, Command
<1>9. Rounds'
  BY <1>1 DEF OwnInv, Rounds
<1> QED
  BY <1>1, <1>6, <1>7, <1>8, <1>9 DEF OwnInv

(* A command that was taken is moved on: no entry in a ring tells of it,   *)
(* and it had not been done.                                               *)
LEMMA OwnMoves ==
  ASSUME OwnInv, NEW c \in Command, stage[c] \in {"taken", "moved"},
         NEW s \in Stage, stage' = [stage EXCEPT ![c] = s],
         UNCHANGED <<sq, sq_tail, result, dev_head, cq_head>>
  PROVE  /\ QueuedInRing' /\ TrueIsOwn'
         /\ Command' = Command /\ stage'[c] = s
         /\ \A e : Answer(e) => Answer(e)' /\ e.command # c
         /\ \A d : IdReused(d)' <=> IdReused(d)
<1>1. TypeOK /\ Last' = Last /\ Command' = Command
  BY StageMoves DEF OwnInv, IInv, Command
<1>2. \A d \in Command : stage'[d] = IF d = c THEN s ELSE stage[d]
  BY <1>1, StageMoves
<1>3. \A d : IdReused(d)' <=> IdReused(d)
  BY DEF IdReused, Failed, Id
<1>4. \A e : Answer(e) => Answer(e)' /\ e.command # c
  <2> SUFFICES ASSUME NEW e, Answer(e) PROVE Answer(e)' /\ e.command # c
    OBVIOUS
  <2>1. e.command \in Command /\ stage[e.command] = IF e.ok THEN "done" ELSE "failed"
    BY DEF Answer
  <2>2. e.command # c
    BY <2>1
  <2> QED
    BY <1>1, <1>2, <1>3, <2>1, <2>2 DEF Answer
<1>5. QueuedInRing'
  <2>1. ToTake' = ToTake
    BY DEF ToTake
  <2> QED
    BY <1>1, <1>2, <2>1 DEF OwnInv, QueuedInRing
<1>6. TrueIsOwn'
  <2> SUFFICES ASSUME NEW d \in DOMAIN result, result[d]
               PROVE  stage'[d] = "done" \/ IdReused(d)
    BY <1>3 DEF TrueIsOwn
  <2>1. d \in Command
    BY <1>1, LastIsNat DEF TypeOK, Command
  <2>2. stage[d] = "done" \/ IdReused(d)
    BY DEF OwnInv, TrueIsOwn
  <2> QED
    BY <1>2, <2>1, <2>2
<1> QED
  BY <1>1, <1>2, <1>3, <1>4, <1>5, <1>6

LEMMA OwnTransfer ==
  ASSUME OwnInv, NEW c \in Command, Transfer(c)
  PROVE  OwnInv'
<1>1. /\ IInv' /\ stage[c] \in {"taken", "moved"} /\ stage' = [stage EXCEPT ![c] = "moved"]
      /\ UNCHANGED <<sq, sq_tail, cq, cq_head, cq_phase, result,
                     dev_head, dev_tail, dev_phase>>
  BY TransferKeeps DEF OwnInv, Transfer, driver
<1>2. /\ QueuedInRing' /\ TrueIsOwn'
      /\ \A e : Answer(e) => Answer(e)' /\ e.command # c
  BY <1>1, OwnMoves DEF Stage
<1>3. ToRead' = ToRead
  BY <1>1 DEF ToRead
<1>4. AnswersInRing'
  <2>1. \A i \in ToRead : Answer(cq[i])'
    BY <1>1, <1>2 DEF OwnInv, AnswersInRing, Answer
  <2> QED
    BY <1>1, <1>3, <2>1 DEF OwnInv, AnswersInRing
<1> QED
  BY <1>1, <1>2, <1>4 DEF OwnInv, Rounds

LEMMA OwnPost ==
  ASSUME OwnInv, NEW c \in Command, NEW ok \in BOOLEAN, Post(c, ok)
  PROVE  OwnInv'
<1> DEFINE answer == IF ok THEN "done" ELSE "failed"
           entry == [command |-> c, phase |-> dev_phase, ok |-> ok]
<1>1. /\ TypeOK /\ IInv' /\ stage[c] \in {"taken", "moved"}
      /\ stage' = [stage EXCEPT ![c] = answer]
      /\ cq' = [cq EXCEPT ![dev_tail] = entry] /\ Successor(dev_tail) # cq_head
      /\ dev_tail' = Successor(dev_tail) /\ dev_phase' = PhaseFor(dev_tail', dev_phase)
      /\ UNCHANGED <<sq, sq_tail, cq_head, cq_phase, result, dev_head>>
  BY PostKeeps DEF OwnInv, IInv, Post, PhaseFor, driver
<1>2. answer \in Stage
  BY DEF Stage
<1>3. /\ QueuedInRing' /\ TrueIsOwn' /\ Command' = Command /\ stage'[c] = answer
      /\ \A e : Answer(e) => Answer(e)' /\ e.command # c
      /\ \A d : IdReused(d)' <=> IdReused(d)
  BY <1>1, <1>2, OwnMoves
<1>4. dev_tail \in Slot /\ cq_head \in Slot /\ cq_phase \in {0, 1} /\ dev_phase \in {0, 1}
  BY <1>1 DEF TypeOK
<1>5. ToRead' \subseteq ToRead \cup {dev_tail} /\ dev_tail \notin ToRead
  BY <1>1, <1>4, RingMoves DEF ToRead
<1>6. ToRead \subseteq Slot
  BY DEF ToRead, Between, Slot
<1>7. \A i \in Slot : cq'[i] = IF i = dev_tail THEN entry ELSE cq[i]
  BY <1>1 DEF TypeOK
<1>8. \A i \in ToRead : Answer(cq[i])' /\ cq[i].command # c /\ cq'[i] = cq[i]
  BY <1>3, <1>5, <1>6, <1>7 DEF OwnInv, AnswersInRing, Answer
<1>9. cq'[dev_tail] = entry
  BY <1>4, <1>7
<1>10. Answer(entry)'
  <2>1. entry.command = c /\ entry.ok = ok
    OBVIOUS
  <2>2. c \in DOMAIN result /\ result[c] => IdReused(c)
    BY <1>1 DEF OwnInv, TrueIsOwn
  <2> QED
    BY <1>1, <1>3, <2>1, <2>2 DEF Answer
<1>11. AnswersInRing'
  <2>1. \A i \in ToRead' : Answer(cq[i])'
    BY <1>5, <1>8, <1>9, <1>10 DEF Answer
  <2>2. \A i, j \in ToRead' : cq'[i].command = cq'[j].command => i = j
    BY <1>5, <1>8, <1>9 DEF OwnInv, AnswersInRing
  <2> QED
    BY <2>1, <2>2 DEF AnswersInRing
<1>12. Rounds'
  BY <1>1, <1>4, NvmeAssumption DEF OwnInv, Rounds, Successor, PhaseFor, Slot
<1> QED
  BY <1>1, <1>3, <1>11, <1>12 DEF OwnInv

LEMMA OwnStutter ==
  ASSUME OwnInv, UNCHANGED vars
  PROVE  OwnInv'
<1>1. UNCHANGED <<sq, sq_tail, cq, cq_head, cq_phase, stage, result,
                  dev_head, dev_tail, dev_phase, buffer>>
  BY DEF vars, driver, device
<1>2. IInv'
  BY StutterKeeps DEF OwnInv
<1> QED
  BY <1>1, <1>2 DEF OwnInv, Rounds, QueuedInRing, AnswersInRing, Answer, TrueIsOwn,
     IdReused, Failed, ToTake, ToRead, Command, Last, Id

LEMMA OwnNext == OwnInv /\ [Next]_vars => OwnInv'
<1> SUFFICES ASSUME OwnInv, [Next]_vars PROVE OwnInv'
  OBVIOUS
<1>1. CASE Submit
  BY <1>1, OwnSubmit
<1>2. CASE Consume
  BY <1>2, OwnConsume
<1>3. CASE Reject \/ GiveUp
  BY <1>3, OwnRefuse
<1>4. CASE Fetch
  BY <1>4, OwnFetch
<1>5. ASSUME NEW c \in Command, Transfer(c) PROVE OwnInv'
  BY <1>5, OwnTransfer
<1>6. ASSUME NEW c \in Command, NEW ok \in BOOLEAN, Post(c, ok) PROVE OwnInv'
  BY <1>6, OwnPost
<1>7. CASE UNCHANGED vars
  BY <1>7, OwnStutter
<1> QED
  BY <1>1, <1>2, <1>3, <1>4, <1>5, <1>6, <1>7 DEF Next, Driver, Device

(* nvme_submit_and_wait returns true only for a command the device carried *)
(* out, whatever timed out, failed or came late before, until the ids come *)
(* round.                                                                  *)
THEOREM TrueStaysOwn == Spec => []TrueIsOwn
<1>1. OwnInv => TrueIsOwn
  BY DEF OwnInv
<1> QED
  BY <1>1, OwnInit, OwnNext, PTL DEF Spec
-----------------------------------------------------------------------------
(***************************************************************************)
(* NothingLost counts.  The ring holds the last commands in the order of   *)
(* their numbers, so that a command can only leave it untaken when the     *)
(* tail meets the device's end, which loses a whole ring of commands at    *)
(* once.  And every answer the device gave made a call return true or      *)
(* still waits in the completion ring, which leaves the lost commands'     *)
(* calls, all but the one at work, to have failed.                         *)
(***************************************************************************)
Distance(lo, hi) == IF lo <= hi THEN hi - lo ELSE hi - lo + Depth

Queued == At({"queued"})
Answered == At({"done", "failed"})
Trues == {c \in DOMAIN result : result[c]}

(* How many commands the device sees in the submission ring: the last ones. *)
Waiting == Distance(dev_head, sq_tail)

RingHoldsLast ==
  /\ Waiting <= Last
  /\ \A i \in Slot : Distance(dev_head, i) < Waiting =>
       /\ sq[i] = Last - Waiting + 1 + Distance(dev_head, i)
       /\ stage[sq[i]] = "queued"

Lost == {c \in Queued : c <= Last - Waiting}
LostTogether == Lost = {} \/ Cardinality(Lost) >= Depth

AnswersCounted ==
  Cardinality(Trues) + Distance(cq_head, dev_tail) = Cardinality(Answered)

CountInv == OwnInv /\ RingHoldsLast /\ LostTogether /\ AnswersCounted

LEMMA DistanceMoves ==
  ASSUME NEW lo \in Slot, NEW hi \in Slot
  PROVE  /\ Distance(lo, hi) \in Slot
         /\ Distance(lo, hi) = 0 <=> lo = hi
         /\ Distance(lo, Successor(hi)) =
              IF Successor(hi) = lo THEN 0 ELSE Distance(lo, hi) + 1
         /\ Successor(hi) = lo => Distance(lo, hi) = Depth - 1
         /\ lo # hi => Distance(Successor(lo), hi) = Distance(lo, hi) - 1
  BY NvmeAssumption DEF Distance, Successor, Slot

LEMMA DistanceTells ==
  ASSUME NEW lo \in Slot, NEW i \in Slot, NEW j \in Slot,
         Distance(lo, i) = Distance(lo, j)
  PROVE  i = j
  BY NvmeAssumption DEF Distance, Slot

LEMMA DistanceReaches ==
  ASSUME NEW lo \in Slot, NEW k \in Slot
  PROVE  \E i \in Slot : Distance(lo, i) = k
<1>1. CASE lo + k < Depth
  <2>1. lo + k \in Slot /\ Distance(lo, lo + k) = k
    BY <1>1, NvmeAssumption DEF Distance, Slot
  <2> QED
    BY <2>1
<1>2. CASE ~(lo + k < Depth)
  <2>1. lo + k - Depth \in Slot /\ Distance(lo, lo + k - Depth) = k
    BY <1>2, NvmeAssumption DEF Distance, Slot
  <2> QED
    BY <2>1
<1> QED
  BY <1>1, <1>2

LEMMA AtIsFinite ==
  ASSUME TypeOK, NEW s
  PROVE  IsFiniteSet(At(s)) /\ Cardinality(At(s)) \in Nat /\ At(s) \subseteq Command
<1>1. IsFiniteSet(Command)
  BY LastIsNat, FS_Interval DEF Command
<1>2. At(s) \in SUBSET Command
  BY DEF At
<1> QED
  BY <1>1, <1>2, FS_Subset, FS_CardinalityType

LEMMA TruesIsFinite ==
  ASSUME TypeOK
  PROVE  IsFiniteSet(Trues) /\ Cardinality(Trues) \in Nat
<1>1. IsFiniteSet(DOMAIN result)
  BY LastIsNat, FS_Interval
<1>2. Trues \in SUBSET DOMAIN result
  BY DEF Trues
<1> QED
  BY <1>1, <1>2, FS_Subset, FS_CardinalityType

(* What is queued and not lost is in the submission ring.                  *)
LEMMA QueuedIsSeen ==
  ASSUME TypeOK, RingHoldsLast
  PROVE  Queued \subseteq Lost \cup InRing
<1> SUFFICES ASSUME NEW c \in Queued, c \notin Lost PROVE c \in InRing
  OBVIOUS
<1>1. /\ Last \in Nat /\ c \in 1 .. Last /\ dev_head \in Slot /\ sq_tail \in Slot
      /\ Waiting \in Slot /\ Waiting <= Last
  BY LastIsNat, DistanceMoves DEF TypeOK, Queued, At, Command, Waiting, RingHoldsLast
<1>2. c > Last - Waiting
  BY <1>1 DEF Lost, Slot
<1> DEFINE k == c - (Last - Waiting + 1)
<1>3. k \in Slot /\ k < Waiting
  BY <1>1, <1>2, NvmeAssumption DEF Slot
<1>4. PICK i \in Slot : Distance(dev_head, i) = k
  BY <1>1, <1>3, DistanceReaches
<1>5. sq[i] = Last - Waiting + 1 + k
  BY <1>3, <1>4 DEF RingHoldsLast
<1>6. sq[i] = c
  BY <1>1, <1>5, NvmeAssumption DEF Slot
<1>7. i \in Between(dev_head, sq_tail)
  <2>1. Distance(dev_head, i) < Distance(dev_head, sq_tail)
    BY <1>3, <1>4 DEF Waiting
  <2> QED
    BY <1>1, <2>1, NvmeAssumption DEF Between, Distance, Slot
<1> QED
  BY <1>6, <1>7 DEF InRing

LEMMA CountInit == Init => CountInv
<1> SUFFICES ASSUME Init PROVE CountInv
  OBVIOUS
<1>1. OwnInv /\ TypeOK /\ Last = 0 /\ Command = {}
  BY OwnInit DEF Init, OwnInv, IInv, Last, Command
<1>2. Waiting = 0 /\ Distance(cq_head, dev_tail) = 0
  BY NvmeAssumption DEF Init, Waiting, Distance
<1>3. \A i \in Slot : ~(Distance(dev_head, i) < 0)
  <2> TAKE i \in Slot
  <2>1. dev_head \in Slot
    BY <1>1 DEF TypeOK
  <2> QED
    BY <2>1, NvmeAssumption DEF Distance, Slot
<1>4. Lost = {} /\ Trues = {} /\ Answered = {}
  BY <1>1 DEF Init, Lost, Queued, At, Trues, Answered
<1> QED
  BY <1>1, <1>2, <1>3, <1>4, FS_EmptySet DEF CountInv, RingHoldsLast, LostTogether,
     AnswersCounted

(* Only the driver's submission changes which commands the ring holds; it  *)
(* does so in order.                                                       *)
LEMMA CountSubmit ==
  ASSUME CountInv, Submit
  PROVE  CountInv'
<1>1. TypeOK /\ OwnInv' /\ Last' = Last + 1 /\ Last \in Nat
  BY OwnSubmit, SubmitKeeps, LastIsNat DEF CountInv, OwnInv, IInv
<1>2. /\ \A c \in Command : stage'[c] = stage[c] /\ c \in Command'
      /\ stage'[Last + 1] = "queued" /\ Last + 1 \in Command'
      /\ Command' = Command \cup {Last + 1}
  BY <1>1, AppendProperties DEF TypeOK, Submit, Last, Stage, Command
<1>3. /\ UNCHANGED <<cq_head, result, dev_head, dev_tail>>
      /\ sq' = [sq EXCEPT ![sq_tail] = Last + 1] /\ sq_tail' = Successor(sq_tail)
      /\ sq_tail \in Slot /\ dev_head \in Slot
  BY <1>1 DEF Submit, device, SlotToFill, TypeOK
<1>4. \A i \in Slot : sq'[i] = IF i = sq_tail THEN Last + 1 ELSE sq[i]
  BY <1>1, <1>3 DEF TypeOK
<1>5. Queued' = Queued \cup {Last + 1} /\ Answered' = Answered
  BY <1>1, <1>2 DEF Queued, Answered, At, Command
<1>6. AnswersCounted'
  BY <1>3, <1>5 DEF CountInv, AnswersCounted, Trues
<1>7. /\ Waiting \in Slot /\ Waiting <= Last
      /\ Waiting' = IF sq_tail' = dev_head THEN 0 ELSE Waiting + 1
      /\ sq_tail' = dev_head => Waiting = Depth - 1
      /\ Distance(dev_head, sq_tail) = Waiting
  BY <1>3, DistanceMoves DEF Waiting, CountInv, RingHoldsLast
<1>8. ASSUME NEW i \in Slot, Distance(dev_head, i) < Waiting
      PROVE  /\ sq[i] = Last - Waiting + 1 + Distance(dev_head, i)
             /\ sq[i] \in Command /\ stage[sq[i]] = "queued" /\ i # sq_tail
  <2>1. /\ sq[i] = Last - Waiting + 1 + Distance(dev_head, i) /\ stage[sq[i]] = "queued"
    BY <1>8 DEF CountInv, RingHoldsLast
  <2>2. i # sq_tail
    BY <1>7, <1>8, NvmeAssumption DEF Slot
  <2>3. Distance(dev_head, i) \in Slot
    BY <1>3, DistanceMoves
  <2>4. sq[i] \in Command
    BY <1>1, <1>7, <1>8, <2>1, <2>3, NvmeAssumption DEF Slot, Command
  <2> QED
    BY <2>1, <2>2, <2>4
<1>9. CASE sq_tail' # dev_head
  <2>1. Waiting' = Waiting + 1 /\ Last' - Waiting' = Last - Waiting /\ Waiting' <= Last'
    BY <1>1, <1>7, <1>9, NvmeAssumption DEF Slot
  <2>2. RingHoldsLast'
    <3> SUFFICES ASSUME NEW i \in Slot, Distance(dev_head, i) < Waiting + 1
                 PROVE  /\ sq'[i] = Last - Waiting + 1 + Distance(dev_head, i)
                        /\ stage'[sq'[i]] = "queued"
      BY <1>3, <2>1 DEF RingHoldsLast, Distance
    <3>1. CASE i = sq_tail
      BY <1>1, <1>2, <1>4, <1>7, <3>1, NvmeAssumption DEF Slot
    <3>2. CASE i # sq_tail
      <4>1. Distance(dev_head, i) # Waiting /\ Distance(dev_head, i) \in Slot
        BY <1>3, <1>7, <3>2, DistanceTells, DistanceMoves
      <4>2. Distance(dev_head, i) < Waiting
        BY <1>7, <4>1, NvmeAssumption DEF Slot
      <4> QED
        BY <1>2, <1>4, <1>8, <4>2
    <3> QED
      BY <3>1, <3>2
  <2>3. Lost' = Lost
    <3>1. ~(Last + 1 <= Last - Waiting)
      BY <1>1, <1>7, NvmeAssumption DEF Slot
    <3> QED
      BY <1>5, <2>1, <3>1 DEF Lost
  <2> QED
    BY <1>1, <1>6, <2>2, <2>3 DEF CountInv, LostTogether
<1>10. CASE sq_tail' = dev_head
  <2>1. Waiting' = 0 /\ Waiting = Depth - 1
    BY <1>7, <1>10
  <2>2. RingHoldsLast'
    <3>1. \A i \in Slot : ~(Distance(dev_head, i) < 0)
      BY <1>3, NvmeAssumption DEF Distance, Slot
    <3> QED
      BY <1>1, <1>3, <2>1, <3>1 DEF RingHoldsLast, Distance
  <2>3. Last - Waiting + 1 .. Last + 1 \subseteq Lost'
    <3> SUFFICES ASSUME NEW c \in Last - Waiting + 1 .. Last + 1 PROVE c \in Lost'
      OBVIOUS
    <3>1. CASE c = Last + 1
      BY <1>1, <1>5, <2>1, <3>1 DEF Lost
    <3>2. CASE c # Last + 1
      <4> DEFINE k == c - (Last - Waiting + 1)
      <4>1. k \in Slot /\ k < Waiting /\ c <= Last
        BY <1>1, <1>7, <3>2, NvmeAssumption DEF Slot
      <4>2. PICK i \in Slot : Distance(dev_head, i) = k
        BY <1>3, <4>1, DistanceReaches
      <4>3. sq[i] = Last - Waiting + 1 + k /\ sq[i] \in Command /\ stage[sq[i]] = "queued"
        BY <1>8, <4>1, <4>2
      <4>4. sq[i] = c
        BY <1>1, <1>7, <4>3, NvmeAssumption DEF Slot
      <4>5. c \in Queued'
        BY <1>5, <4>3, <4>4 DEF Queued, At
      <4> QED
        BY <1>1, <2>1, <4>1, <4>5 DEF Lost, Slot
    <3> QED
      BY <3>1, <3>2
  <2>4. Cardinality(Last - Waiting + 1 .. Last + 1) = Depth
    BY <1>1, <2>1, FS_Interval, NvmeAssumption
  <2>5. IsFiniteSet(Lost')
    <3>1. IsFiniteSet(Queued)
      BY <1>1, AtIsFinite DEF Queued
    <3>2. IsFiniteSet(Queued')
      BY <1>5, <3>1, FS_AddElement
    <3>3. Lost' \in SUBSET Queued'
      BY DEF Lost
    <3> QED
      BY <3>2, <3>3, FS_Subset
  <2>6. Cardinality(Lost') >= Depth
    <3>1. Last - Waiting + 1 .. Last + 1 \in SUBSET Lost'
      BY <2>3
    <3> QED
      BY <2>4, <2>5, <3>1, FS_Subset
  <2> QED
    BY <1>1, <1>6, <2>2, <2>6 DEF CountInv, LostTogether
<1> QED
  BY <1>9, <1>10

(* What a call's return does to the count of the calls that returned true. *)
LEMMA CountReturns ==
  ASSUME TypeOK, Busy, NEW b \in BOOLEAN, Return(b), UNCHANGED stage
  PROVE  /\ b => Cardinality(Trues') = Cardinality(Trues) + 1
         /\ ~b => Trues' = Trues
<1>1. /\ DOMAIN result' = Command /\ Last \in Command /\ result'[Last] = b
      /\ \A c \in Command : c # Last => c \in DOMAIN result /\ result'[c] = result[c]
  BY ReturnsLast
<1>2. DOMAIN result \subseteq Command /\ Last \notin DOMAIN result
  BY LastIsNat DEF Command
<1>3. b => Trues' = Trues \cup {Last}
  BY <1>1, <1>2 DEF Trues
<1>4. ~b => Trues' = Trues
  BY <1>1, <1>2 DEF Trues
<1>5. IsFiniteSet(Trues) /\ Last \notin Trues
  BY <1>2, TruesIsFinite DEF Trues
<1>6. Cardinality(Trues \cup {Last}) = Cardinality(Trues) + 1
  BY <1>5, FS_AddElement
<1> QED
  BY <1>3, <1>4, <1>6

LEMMA CountConsume ==
  ASSUME CountInv, Consume
  PROVE  CountInv'
<1>1. TypeOK /\ OwnInv' /\ Busy /\ Return(TRUE) /\ cq_head # dev_tail
  BY OwnConsume, NewIsUnread DEF CountInv, OwnInv, IInv, Consume
<1>2. /\ UNCHANGED <<sq, sq_tail, stage, dev_head, dev_tail>>
      /\ cq_head' = Successor(cq_head) /\ cq_head \in Slot /\ dev_tail \in Slot
  BY <1>1 DEF Consume, device, TypeOK
<1>3. Cardinality(Trues') = Cardinality(Trues) + 1 /\ Cardinality(Trues) \in Nat
  BY <1>1, <1>2, CountReturns, TruesIsFinite
<1>4. /\ Distance(cq_head, dev_tail)' = Distance(cq_head, dev_tail) - 1
      /\ Distance(cq_head, dev_tail) \in Slot
  BY <1>1, <1>2, DistanceMoves DEF Distance
<1>5. AnswersCounted'
  <2>1. Answered' = Answered
    BY <1>2 DEF Answered, At, Command, Last
  <2>2. Cardinality(Trues) + Distance(cq_head, dev_tail) = Cardinality(Answered)
    BY DEF CountInv, AnswersCounted
  <2>3. Cardinality(Trues') + Distance(cq_head, dev_tail)' = Cardinality(Answered)
    BY <1>3, <1>4, <2>2, NvmeAssumption DEF Slot
  <2> QED
    BY <2>1, <2>3 DEF AnswersCounted
<1> QED
  BY <1>1, <1>2, <1>5 DEF CountInv, RingHoldsLast, LostTogether, Lost, Queued, At, Command,
     Waiting, Last, Distance

LEMMA CountRefuse ==
  ASSUME CountInv, Reject \/ GiveUp
  PROVE  CountInv'
<1>1. /\ TypeOK /\ OwnInv' /\ Busy /\ Return(FALSE)
      /\ UNCHANGED <<sq, sq_tail, cq_head, stage, dev_head, dev_tail>>
  BY OwnRefuse DEF CountInv, OwnInv, IInv, Reject, GiveUp, device
<1>2. Trues' = Trues
  BY <1>1, CountReturns
<1> QED
  BY <1>1, <1>2 DEF CountInv, RingHoldsLast, LostTogether, AnswersCounted, Lost, Queued,
     Answered, At, Command, Waiting, Last, Distance

LEMMA CountFetch ==
  ASSUME CountInv, Fetch
  PROVE  CountInv'
<1>1. /\ TypeOK /\ OwnInv' /\ dev_head # sq_tail /\ dev_head \in Slot /\ sq_tail \in Slot
      /\ stage' = [stage EXCEPT ![sq[dev_head]] = "taken"]
      /\ dev_head' = Successor(dev_head) /\ Last \in Nat
      /\ UNCHANGED <<sq, sq_tail, cq_head, result, dev_tail>>
  BY OwnFetch, LastIsNat DEF CountInv, OwnInv, IInv, Fetch, TypeOK, driver
<1>2. /\ Waiting \in Slot /\ Waiting # 0 /\ Waiting <= Last /\ Waiting' = Waiting - 1
      /\ Distance(dev_head, dev_head) = 0
  BY <1>1, DistanceMoves DEF Waiting, Distance, CountInv, RingHoldsLast
<1> DEFINE n == Last - Waiting + 1
<1>3. sq[dev_head] = n /\ stage[n] = "queued" /\ n \in Command
  <2>1. 0 < Waiting
    BY <1>2, NvmeAssumption DEF Slot
  <2>2. /\ sq[dev_head] = Last - Waiting + 1 + 0
        /\ stage[sq[dev_head]] = "queued"
    BY <1>1, <1>2, <2>1 DEF CountInv, RingHoldsLast
  <2>3. sq[dev_head] = n /\ n \in Command
    BY <1>1, <1>2, <2>1, <2>2, NvmeAssumption DEF Slot, Command
  <2> QED
    BY <2>2, <2>3
<1>4. /\ Last' = Last /\ Command' = Command
      /\ \A c \in Command : stage'[c] = IF c = n THEN "taken" ELSE stage[c]
  BY <1>1, <1>3, StageMoves DEF Stage, Command
<1>5. Queued' = Queued \ {n} /\ Answered' = Answered
  BY <1>3, <1>4 DEF Queued, Answered, At
<1>6. Lost' = Lost
  <2>1. Last' - Waiting' = n /\ n \in Nat /\ Last - Waiting = n - 1
    BY <1>1, <1>2, <1>4, NvmeAssumption DEF Slot
  <2>2. \A c \in Queued' : c \in Nat /\ c # n
    BY <1>4, <1>5 DEF Queued, At, Command
  <2>3. \A c \in Queued : c \in Nat
    BY DEF Queued, At, Command
  <2> QED
    BY <1>5, <2>1, <2>2, <2>3 DEF Lost
<1>7. RingHoldsLast'
  <2> SUFFICES ASSUME NEW i \in Slot, Distance(dev_head', i) < Waiting - 1
               PROVE  /\ sq[i] = n + 1 + Distance(dev_head', i)
                      /\ stage'[sq[i]] = "queued"
    <3>1. Waiting' <= Last' /\ Last' - Waiting' + 1 = n + 1
      BY <1>1, <1>2, <1>4, NvmeAssumption DEF Slot
    <3> QED
      BY <1>1, <1>2, <3>1 DEF RingHoldsLast, Distance
  <2>1. dev_head # i
    <3> SUFFICES ASSUME dev_head = i PROVE FALSE
      OBVIOUS
    <3>1. Distance(dev_head', i) = Depth - 1
      BY <1>1, NvmeAssumption DEF Distance, Successor, Slot
    <3> QED
      BY <1>2, <3>1, NvmeAssumption DEF Slot
  <2>2. /\ Distance(dev_head', i) = Distance(dev_head, i) - 1
        /\ Distance(dev_head, i) \in Slot /\ Distance(dev_head, i) # 0
    BY <1>1, <2>1, DistanceMoves
  <2>3. Distance(dev_head, i) < Waiting
    BY <1>2, <2>2, NvmeAssumption DEF Slot
  <2>4. sq[i] = n + Distance(dev_head, i) /\ stage[sq[i]] = "queued"
    BY <2>3 DEF CountInv, RingHoldsLast
  <2>5. /\ sq[i] = n + 1 + Distance(dev_head', i) /\ sq[i] # n
        /\ sq[i] \in Command
    BY <1>1, <1>2, <2>2, <2>3, <2>4, NvmeAssumption DEF Slot, Command
  <2> QED
    BY <1>4, <2>4, <2>5
<1>8. AnswersCounted'
  BY <1>1, <1>5 DEF CountInv, AnswersCounted, Trues, Distance
<1> QED
  BY <1>1, <1>6, <1>7, <1>8 DEF CountInv, LostTogether

(* The device moves on a command that it took: the ring still holds the    *)
(* same ones.                                                              *)
LEMMA CountMoves ==
  ASSUME CountInv, NEW c \in Command, stage[c] \in {"taken", "moved"},
         NEW s \in Stage \ {"queued"}, stage' = [stage EXCEPT ![c] = s],
         UNCHANGED <<sq, sq_tail, dev_head>>
  PROVE  /\ RingHoldsLast' /\ LostTogether'
         /\ Answered' = IF s \in {"done", "failed"} THEN Answered \cup {c} ELSE Answered
         /\ c \notin Answered
<1>1. /\ TypeOK /\ Last' = Last /\ Command' = Command
      /\ \A d \in Command : stage'[d] = IF d = c THEN s ELSE stage[d]
  BY StageMoves DEF CountInv, OwnInv, IInv, Command
<1>2. /\ Queued' = Queued /\ c \notin Answered
      /\ Answered' = IF s \in {"done", "failed"} THEN Answered \cup {c} ELSE Answered
  BY <1>1 DEF Queued, Answered, At
<1>3. Waiting' = Waiting
  BY DEF Waiting, Distance
<1>4. LostTogether'
  BY <1>1, <1>2, <1>3 DEF CountInv, LostTogether, Lost
<1>5. RingHoldsLast'
  <2> SUFFICES ASSUME NEW i \in Slot, Distance(dev_head, i) < Waiting
               PROVE  stage'[sq[i]] = "queued"
    BY <1>1, <1>3 DEF CountInv, RingHoldsLast, Distance
  <2>1. stage[sq[i]] = "queued" /\ sq[i] = Last - Waiting + 1 + Distance(dev_head, i)
    BY DEF CountInv, RingHoldsLast
  <2>2. /\ Last \in Nat /\ Waiting \in Slot /\ Distance(dev_head, i) \in Slot
        /\ Waiting <= Last
    BY <1>1, LastIsNat, DistanceMoves DEF TypeOK, Waiting, CountInv, RingHoldsLast
  <2>3. sq[i] \in Command
    BY <2>1, <2>2, NvmeAssumption DEF Slot, Command
  <2> QED
    BY <1>1, <2>1, <2>3
<1> QED
  BY <1>2, <1>4, <1>5

LEMMA CountTransfer ==
  ASSUME CountInv, NEW c \in Command, Transfer(c)
  PROVE  CountInv'
<1>1. /\ OwnInv' /\ stage[c] \in {"taken", "moved"} /\ stage' = [stage EXCEPT ![c] = "moved"]
      /\ UNCHANGED <<sq, sq_tail, cq_head, result, dev_head, dev_tail>>
  BY OwnTransfer DEF CountInv, Transfer, driver
<1>2. RingHoldsLast' /\ LostTogether' /\ Answered' = Answered
  BY <1>1, CountMoves DEF Stage
<1> QED
  BY <1>1, <1>2 DEF CountInv, AnswersCounted, Trues, Distance

LEMMA CountPost ==
  ASSUME CountInv, NEW c \in Command, NEW ok \in BOOLEAN, Post(c, ok)
  PROVE  CountInv'
<1> DEFINE answer == IF ok THEN "done" ELSE "failed"
<1>1. /\ OwnInv' /\ stage[c] \in {"taken", "moved"} /\ stage' = [stage EXCEPT ![c] = answer]
      /\ Successor(dev_tail) # cq_head /\ dev_tail' = Successor(dev_tail)
      /\ UNCHANGED <<sq, sq_tail, cq_head, result, dev_head>>
  BY OwnPost DEF CountInv, Post, driver
<1>2. TypeOK /\ dev_tail \in Slot /\ cq_head \in Slot
  BY DEF CountInv, OwnInv, IInv, TypeOK
<1>3. answer \in Stage \ {"queued"} /\ answer \in {"done", "failed"}
  BY DEF Stage
<1>4. /\ RingHoldsLast' /\ LostTogether'
      /\ Answered' = Answered \cup {c} /\ c \notin Answered
  BY <1>1, <1>3, CountMoves
<1>5. Cardinality(Answered') = Cardinality(Answered) + 1
  BY <1>2, <1>4, AtIsFinite, FS_AddElement DEF Answered
<1>6. Distance(cq_head, dev_tail)' = Distance(cq_head, dev_tail) + 1
  BY <1>1, <1>2, DistanceMoves DEF Distance
<1>7. AnswersCounted'
  <2>1. Trues' = Trues /\ Cardinality(Trues) \in Nat
    BY <1>1, <1>2, TruesIsFinite DEF Trues
  <2>2. Distance(cq_head, dev_tail) \in Slot
    BY <1>2, DistanceMoves
  <2>3. Cardinality(Trues) + Distance(cq_head, dev_tail) = Cardinality(Answered)
    BY DEF CountInv, AnswersCounted
  <2>4. Cardinality(Trues) + Distance(cq_head, dev_tail)' = Cardinality(Answered')
    BY <1>5, <1>6, <2>1, <2>2, <2>3, NvmeAssumption DEF Slot
  <2> QED
    BY <2>1, <2>4 DEF AnswersCounted
<1> QED
  BY <1>1, <1>4, <1>7 DEF CountInv

LEMMA CountStutter ==
  ASSUME CountInv, UNCHANGED vars
  PROVE  CountInv'
<1>1. UNCHANGED <<sq, sq_tail, cq_head, stage, result, dev_head, dev_tail>>
  BY DEF vars, driver, device
<1>2. OwnInv'
  BY OwnStutter DEF CountInv
<1> QED
  BY <1>1, <1>2 DEF CountInv, RingHoldsLast, LostTogether, AnswersCounted, Lost, Queued,
     Answered, Trues, At, Command, Waiting, Last, Distance

LEMMA CountNext == CountInv /\ [Next]_vars => CountInv'
<1> SUFFICES ASSUME CountInv, [Next]_vars PROVE CountInv'
  OBVIOUS
<1>1. CASE Submit
  BY <1>1, CountSubmit
<1>2. CASE Consume
  BY <1>2, CountConsume
<1>3. CASE Reject \/ GiveUp
  BY <1>3, CountRefuse
<1>4. CASE Fetch
  BY <1>4, CountFetch
<1>5. ASSUME NEW c \in Command, Transfer(c) PROVE CountInv'
  BY <1>5, CountTransfer
<1>6. ASSUME NEW c \in Command, NEW ok \in BOOLEAN, Post(c, ok) PROVE CountInv'
  BY <1>6, CountPost
<1>7. CASE UNCHANGED vars
  BY <1>7, CountStutter
<1> QED
  BY <1>1, <1>2, <1>3, <1>4, <1>5, <1>6, <1>7 DEF Next, Driver, Device

LEMMA CardinalityOfFirst ==
  \A n \in Nat : IsFiniteSet(1 .. n) /\ Cardinality(1 .. n) = n
<1> TAKE n \in Nat
<1>1. /\ IsFiniteSet(1 .. n)
      /\ Cardinality(1 .. n) = IF 1 > n THEN 0 ELSE n - 1 + 1
  BY FS_Interval
<1> QED
  BY <1>1

LEMMA CardinalityOfDisjoint ==
  ASSUME NEW S, NEW T, IsFiniteSet(S), IsFiniteSet(T), S \cap T = {}
  PROVE  Cardinality(S \cup T) = Cardinality(S) + Cardinality(T)
<1>1. Cardinality(S \cup T) = Cardinality(S) + Cardinality(T) - Cardinality(S \cap T)
  BY FS_Union
<1>2. Cardinality(S \cap T) = 0
  BY FS_EmptySet
<1>3. Cardinality(S) \in Nat /\ Cardinality(T) \in Nat
  BY FS_CardinalityType
<1> QED
  BY <1>1, <1>2, <1>3

(* A call failed for each command that has no answer, the one at work      *)
(* excepted.                                                               *)
LEMMA UnansweredFailed ==
  ASSUME CountInv
  PROVE  /\ Cardinality(Queued) \in Nat /\ Cardinality(Failed) \in Nat
         /\ Cardinality(Failed) >= Cardinality(Queued) - 1
<1>1. /\ TypeOK /\ Last \in Nat /\ Len(result) \in Nat /\ Len(result) >= Last - 1
      /\ DOMAIN result = 1 .. Len(result)
  BY LastIsNat DEF CountInv, OwnInv, IInv, TypeOK
<1>2. /\ IsFiniteSet(Queued) /\ Cardinality(Queued) \in Nat /\ Queued \subseteq Command
      /\ IsFiniteSet(Answered) /\ Cardinality(Answered) \in Nat /\ Answered \subseteq Command
      /\ IsFiniteSet(Trues) /\ Cardinality(Trues) \in Nat
  BY <1>1, AtIsFinite, TruesIsFinite DEF Queued, Answered
<1>3. Cardinality(Queued) + Cardinality(Answered) <= Last
  <2>1. Queued \cap Answered = {}
    BY DEF Queued, Answered, At
  <2>2. Cardinality(Queued \cup Answered) = Cardinality(Queued) + Cardinality(Answered)
    BY <1>2, <2>1, CardinalityOfDisjoint
  <2>3. IsFiniteSet(Command) /\ Cardinality(Command) = Last
    BY <1>1, FS_Interval DEF Command
  <2>4. Queued \cup Answered \in SUBSET Command
    BY <1>2
  <2>5. Cardinality(Queued \cup Answered) <= Cardinality(Command)
    BY <2>3, <2>4, FS_Subset
  <2> QED
    BY <2>2, <2>3, <2>5
<1>4. Cardinality(Failed) = Len(result) - Cardinality(Trues) /\ Cardinality(Failed) \in Nat
  <2>1. IsFiniteSet(DOMAIN result) /\ Cardinality(DOMAIN result) = Len(result)
    BY <1>1, CardinalityOfFirst
  <2>2. Failed \in SUBSET DOMAIN result
    BY DEF Failed
  <2>3. IsFiniteSet(Failed) /\ Cardinality(Failed) \in Nat
    BY <2>1, <2>2, FS_Subset, FS_CardinalityType
  <2>4. Failed \cap Trues = {} /\ Failed \cup Trues = DOMAIN result
    BY DEF Failed, Trues
  <2>5. Cardinality(DOMAIN result) = Cardinality(Failed) + Cardinality(Trues)
    BY <1>2, <2>3, <2>4, CardinalityOfDisjoint
  <2> QED
    BY <1>1, <1>2, <2>1, <2>3, <2>5
<1>5. Cardinality(Trues) <= Cardinality(Answered)
  <2>1. Distance(cq_head, dev_tail) \in Slot
    BY <1>1, DistanceMoves DEF TypeOK
  <2> QED
    BY <1>2, <2>1, NvmeAssumption DEF CountInv, AnswersCounted, Slot
<1> QED
  BY <1>1, <1>2, <1>3, <1>4, <1>5

(* nvme_submit_and_wait fills a slot without asking whether the device has *)
(* taken what was there.  A command can be overwritten, or skipped because *)
(* the tail met the head, only when Depth commands were left untaken and   *)
(* all the calls for them but one had failed.                              *)
THEOREM NothingIsLost == Spec => []NothingLost
<1>1. CountInv => NothingLost
  <2> SUFFICES ASSUME CountInv PROVE NothingLost
    OBVIOUS
  <2>1. TypeOK /\ Queued \subseteq Lost \cup InRing
    BY QueuedIsSeen DEF CountInv, OwnInv, IInv
  <2>2. CASE Lost = {}
    BY <2>1, <2>2 DEF NothingLost, Queued
  <2>3. CASE Lost # {}
    <3>1. Cardinality(Lost) >= Depth
      BY <2>3 DEF CountInv, LostTogether
    <3>2. IsFiniteSet(Queued) /\ Lost \in SUBSET Queued
      BY <2>1, AtIsFinite DEF Queued, Lost
    <3>3. Cardinality(Lost) <= Cardinality(Queued) /\ Cardinality(Lost) \in Nat
      BY <3>2, FS_Subset, FS_CardinalityType
    <3>4. Cardinality(Queued) >= Depth /\ Cardinality(Failed) >= Depth - 1
      BY <3>1, <3>3, UnansweredFailed, NvmeAssumption
    <3> QED
      BY <3>4 DEF NothingLost, Queued
  <2> QED
    BY <2>2, <2>3
<1> QED
  BY <1>1, CountInit, CountNext, PTL DEF Spec
=============================================================================
