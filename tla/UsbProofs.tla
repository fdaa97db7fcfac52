----------------------------- MODULE UsbProofs ------------------------------
(***************************************************************************)
(* Proofs about the xHCI driver and the mass storage protocol, for rings   *)
(* of every size, whatever is in the ports, and any number of transactions *)
(* and of waits that run out.  There are four, one on top of the other.    *)
(*                                                                         *)
(* A ring that was never overrun is a queue of the entries that have the   *)
(* controller's cycle bit (RingInv); so the controller takes what was put, *)
(* in order.  The event ring needs no room: the driver is a lap behind at  *)
(* most (EventInv).  What the command ring and the unread events ask of a  *)
(* slot is the port's that is being enumerated (SlotInv).  While no        *)
(* transaction has failed, all that is on the way belongs to the one at    *)
(* work (ReadsInv), which makes the driver an abstract disk.  After        *)
(* failures, what is late is told from what is new by its age (RightInv).  *)
(***************************************************************************)
EXTENDS Usb, SequenceTheorems, TLAPS

(* Where the link entry of a ring is: the entries before it are in use.    *)
LinkAt == RingSize - 1
Place == 0 .. LinkAt - 1

Commands == {"enable", "address", "configure"}
Transfers == {"cbw", "data", "csw"}
TrbType ==
  [kind : Commands \cup Transfers \cup {"none", "link"}, slot : Nat, n : Nat, cycle : {0, 1}]
EventType ==
  [type : {"none", "command", "transfer"}, trb : {<<>>} \cup (Ring \X Index), ok : BOOLEAN,
   slot : Nat, cycle : {0, 1}]
PortType == [slot : Nat, addressed : BOOLEAN, configured : BOOLEAN, capacity : BOOLEAN]
Pcs ==
  {"enable", "enabling", "address", "addressing", "descriptors", "configure", "configuring",
   "set_configuration", "first_read", "idle"} \cup
  {"queue_cbw", "cbw", "queue_data", "data", "queue_csw", "csw"}
SlotState == {"enabled", "addressed", "configured"}

PortsOK == devices \in Worlds /\ port \in Port /\ ports \in [Port -> PortType]
DriverOK ==
  /\ pc \in Pcs /\ result \in Seq(BOOLEAN)
  /\ timeouts \in Nat /\ late \in BOOLEAN
WriterOK ==
  /\ ring \in [Ring -> [Index -> TrbType]]
  /\ enqueue \in [Ring -> Place] /\ cycle \in [Ring -> {0, 1}] /\ queued \in [Ring -> Nat]
  /\ overrun \subseteq Ring /\ target \in {<<>>} \cup (Ring \X Index)
ReaderOK ==
  /\ dequeue \in [Ring -> Index] /\ ccs \in [Ring -> {0, 1}] /\ taken \in [Ring -> Nat]
EndpointOK == endpoint \in [Ring -> {"stopped", "running", "halted"}]
PollerOK == event_dequeue \in Index /\ event_cycle \in {0, 1}
PosterOK ==
  event_ring \in [Index -> EventType] /\ tail \in Index /\ tail_cycle \in {0, 1}
MemoryOK == cbw \in Nat /\ csw \in [of : Nat, ok : BOOLEAN] /\ buffer \in Nat
SlotsOK == slots \in Seq(SlotState)
DeviceOK == device \in [phase : {"ready", "data", "status"}, of : Nat, ok : BOOLEAN]

(* The link entry is where it was put, and nowhere else: what clears or    *)
(* fills an entry, and what takes one, keeps off it.                       *)
Linked == \A r \in Ring, i \in Index : ring[r][i].kind = "link" <=> i = LinkAt

TypeOK ==
  /\ PortsOK /\ DriverOK /\ WriterOK /\ ReaderOK /\ EndpointOK /\ PollerOK /\ PosterOK
  /\ MemoryOK /\ SlotsOK /\ DeviceOK /\ Linked

LEMMA Sizes ==
  /\ RingSize \in Nat /\ RingSize >= 3 /\ LinkAt \in Nat /\ LinkAt >= 2
  /\ LinkAt \in Index /\ Place \subseteq Index /\ Index = 0 .. LinkAt
  /\ RingSize = LinkAt + 1
  BY UsbAssumption DEF LinkAt, Place, Index

LEMMA PortIsIndex ==
  ASSUME devices \in Worlds
  PROVE  Len(devices) \in Nat /\ Len(devices) >= 1 /\ Port = 1 .. Len(devices)
<1>1. devices \in Seq({"disk", "other"}) /\ devices # <<>>
  BY UsbAssumption
<1> QED
  BY <1>1, EmptySeq DEF Port

LEMMA InitTypes == Init => TypeOK
<1> SUFFICES ASSUME Init PROVE TypeOK
  OBVIOUS
<1>1. PortsOK
  BY PortIsIndex DEF Init, PortsOK, PortType
<1>2. DriverOK /\ SlotsOK
  <2>1. <<>> \in Seq(BOOLEAN) /\ <<>> \in Seq(SlotState)
    BY EmptySeq
  <2> QED
    BY <2>1 DEF Init, DriverOK, SlotsOK, Pcs
<1>3. /\ Cleared \in TrbType /\ Link(1) \in TrbType
      /\ Cleared.kind # "link" /\ Link(1).kind = "link"
  BY DEF Cleared, Link, Trb, TrbType
<1>4. ring \in [Ring -> [Index -> TrbType]] /\ Linked
  BY <1>3 DEF Init, Linked, LinkAt
<1>5. WriterOK /\ ReaderOK
  <2>1. 0 \in Place /\ 0 \in Index
    BY Sizes DEF Place
  <2>2. /\ enqueue \in [Ring -> Place] /\ cycle \in [Ring -> {0, 1}] /\ queued \in [Ring -> Nat]
        /\ overrun \subseteq Ring /\ target = <<>>
    BY <2>1 DEF Init
  <2>3. /\ dequeue \in [Ring -> Index] /\ ccs \in [Ring -> {0, 1}]
        /\ taken \in [Ring -> Nat]
    BY <2>1 DEF Init
  <2> QED
    BY <1>4, <2>2, <2>3 DEF WriterOK, ReaderOK
<1>6. NoEvent \in EventType
  BY DEF NoEvent, EventType
<1>7. PollerOK /\ PosterOK
  BY <1>6, Sizes DEF Init, PollerOK, PosterOK
<1>8. MemoryOK /\ DeviceOK /\ EndpointOK
  BY DEF Init, MemoryOK, DeviceOK, EndpointOK
<1> QED
  BY <1>1, <1>2, <1>4, <1>5, <1>7, <1>8 DEF TypeOK
-----------------------------------------------------------------------------
(* What the helpers of the driver do to the types.                         *)
LEMMA PutTypes ==
  ASSUME WriterOK, Linked, NEW r \in Ring, NEW kind \in Commands \cup Transfers,
         NEW slot \in Nat, Put(r, kind, slot)
  PROVE  /\ WriterOK' /\ Linked'
         /\ enqueue[r] \in Place /\ target' = <<r, enqueue[r]>>
<1> DEFINE i == enqueue[r]
           trb == Trb(kind, slot, queued[r] + 1, cycle[r])
           wraps == i + 1 >= RingSize - 1
<1>1. i \in Place /\ i \in Index /\ i # LinkAt /\ LinkAt \in Index
  BY Sizes DEF WriterOK, Place
<1>2. trb \in TrbType /\ trb.kind # "link"
  BY DEF WriterOK, Trb, TrbType, Commands, Transfers
<1>3. /\ Link(cycle[r]) \in TrbType /\ Link(cycle[r]).kind = "link"
      /\ CycleAfter(r) \in {0, 1}
  BY DEF WriterOK, Link, Trb, TrbType, CycleAfter
<1>4. ring' = [ring EXCEPT ![r][i] = trb,
                           ![r][LinkAt] = IF wraps THEN Link(cycle[r]) ELSE @]
  BY DEF Put, LinkAt
<1>5. /\ ring' \in [Ring -> [Index -> TrbType]]
      /\ \A q \in Ring, j \in Index :
           ring'[q][j] = IF q # r THEN ring[q][j]
                         ELSE IF j = LinkAt /\ wraps THEN Link(cycle[r])
                         ELSE IF j = i THEN trb ELSE ring[q][j]
  BY <1>1, <1>2, <1>3, <1>4 DEF WriterOK
<1>6. Linked'
  BY <1>1, <1>2, <1>3, <1>5 DEF Linked
<1>7. enqueue' \in [Ring -> Place] /\ cycle' \in [Ring -> {0, 1}] /\ queued' \in [Ring -> Nat]
  <2>1. enqueue' = [enqueue EXCEPT ![r] = IF wraps THEN 0 ELSE i + 1]
    BY DEF Put
  <2>2. (IF wraps THEN 0 ELSE i + 1) \in Place
    BY <1>1, Sizes DEF Place, LinkAt
  <2>3. cycle' = [cycle EXCEPT ![r] = IF wraps THEN CycleAfter(r) ELSE @]
    BY DEF Put
  <2>4. queued' = [queued EXCEPT ![r] = @ + 1]
    BY DEF Put
  <2> QED
    BY <1>3, <2>1, <2>2, <2>3, <2>4 DEF WriterOK
<1>8. target' = <<r, i>> /\ overrun' \subseteq Ring
  BY DEF Put, Overwrite, WriterOK
<1> QED
  BY <1>1, <1>5, <1>6, <1>7, <1>8 DEF WriterOK

LEMMA ClearTypes ==
  ASSUME WriterOK, Linked, NEW r \in Ring, Clear(r),
         UNCHANGED <<enqueue, cycle, queued, target>>
  PROVE  WriterOK' /\ Linked'
<1>1. enqueue[r] \in Index /\ enqueue[r] # LinkAt
  BY Sizes DEF WriterOK, Place
<1>2. Cleared \in TrbType /\ Cleared.kind # "link"
  BY DEF Cleared, Trb, TrbType
<1>3. /\ ring' \in [Ring -> [Index -> TrbType]]
      /\ \A q \in Ring, j \in Index :
           ring'[q][j] = IF q = r /\ j = enqueue[r] THEN Cleared ELSE ring[q][j]
  BY <1>1, <1>2 DEF WriterOK, Clear
<1>4. Linked'
  BY <1>1, <1>2, <1>3 DEF Linked
<1>5. overrun' \subseteq Ring
  BY DEF Clear, Overwrite, WriterOK
<1> QED
  BY <1>3, <1>4, <1>5 DEF WriterOK

LEMMA TakeEventTypes ==
  ASSUME PollerOK, TakeEvent
  PROVE  PollerOK'
<1>1. event_dequeue' \in Index
  BY Sizes DEF PollerOK, TakeEvent, Index
<1> QED
  BY <1>1 DEF PollerOK, TakeEvent

LEMMA NextPortTypes ==
  ASSUME PortsOK, UNCHANGED devices, NEW loop \in Pcs, NEW after \in Pcs,
         NextPort(loop, after)
  PROVE  pc' \in {loop, after} /\ port' \in Port /\ Port' = Port
  BY PortIsIndex DEF NextPort, PortsOK, Port

LEMMA CommandEndsTypes ==
  ASSUME PortsOK, DriverOK, UNCHANGED devices, WaitsForCommand,
         NEW ok \in BOOLEAN, NEW slot \in Nat, CommandEnds(ok, slot)
  PROVE  PortsOK' /\ pc' \in Pcs
<1>1. Port' = Port /\ devices' \in Worlds /\ port \in Port
  BY DEF PortsOK, Port
<1>2. CASE pc = "enabling"
  <2>1. ports' \in [Port -> PortType]
    BY <1>2 DEF CommandEnds, PortsOK, PortType
  <2>2. NextPort("enable", "address")
    BY <1>2 DEF CommandEnds
  <2>3. port' \in Port /\ pc' \in Pcs
    BY <2>2, NextPortTypes DEF Pcs
  <2> QED
    BY <1>1, <2>1, <2>3 DEF PortsOK
<1>3. CASE pc = "addressing"
  <2>1. ports' \in [Port -> PortType]
    BY <1>3 DEF CommandEnds, PortsOK, PortType
  <2>2. (pc' = "descriptors" /\ port' = port) \/ NextDevice
    BY <1>3 DEF CommandEnds
  <2>3. port' \in Port /\ pc' \in Pcs
    BY <1>1, <2>2, NextPortTypes DEF Pcs, NextDevice
  <2> QED
    BY <1>1, <2>1, <2>3 DEF PortsOK
<1>4. CASE pc = "configuring"
  <2>1. ports' \in [Port -> PortType]
    BY <1>4 DEF CommandEnds, PortsOK, PortType
  <2>2. (pc' = "set_configuration" /\ port' = port) \/ NextDevice
    BY <1>4 DEF CommandEnds
  <2>3. port' \in Port /\ pc' \in Pcs
    BY <1>1, <2>2, NextPortTypes DEF Pcs, NextDevice
  <2> QED
    BY <1>1, <2>1, <2>3 DEF PortsOK
<1> QED
  BY <1>2, <1>3, <1>4 DEF WaitsForCommand

LEMMA ReturnTypes ==
  ASSUME PortsOK, DriverOK, UNCHANGED devices, NEW b \in BOOLEAN, Return(b)
  PROVE  PortsOK' /\ pc' \in Pcs /\ result' \in Seq(BOOLEAN)
<1>1. Port' = Port /\ devices' \in Worlds /\ port \in Port
  BY DEF PortsOK, Port
<1>2. result' \in Seq(BOOLEAN)
  BY AppendProperties DEF DriverOK, Return
<1>3. ports' = ports \/ ports' = [ports EXCEPT ![port].capacity = b]
  BY DEF Return
<1>4. ports' \in [Port -> PortType]
  BY <1>1, <1>3 DEF PortsOK, PortType
<1>5. (pc' \in {"idle", "first_read"} /\ port' = port) \/ NextDevice
  BY DEF Return
<1>6. port' \in Port /\ pc' \in Pcs
  BY <1>1, <1>5, NextPortTypes DEF Pcs, NextDevice
<1> QED
  BY <1>1, <1>2, <1>4, <1>6 DEF PortsOK

LEMMA SlotIsNat ==
  ASSUME PortsOK
  PROVE  Slot \in Nat
  BY DEF PortsOK, PortType, Slot

LEMMA EventIsTyped ==
  ASSUME PollerOK, PosterOK
  PROVE  Event \in EventType
  BY DEF PollerOK, PosterOK, Event

(* An entry at a slot of the sequence is replaced by one of the same kind. *)
LEMMA ReplaceInSeq ==
  ASSUME NEW S, NEW s \in Seq(S), NEW x, NEW v, x \in DOMAIN s => v \in S
  PROVE  LET t == [s EXCEPT ![x] = v]
         IN  /\ t \in Seq(S) /\ Len(t) = Len(s)
             /\ \A i \in 1 .. Len(s) : t[i] = IF i = x THEN v ELSE s[i]
<1> DEFINE t == [s EXCEPT ![x] = v]
<1>1. DOMAIN s = 1 .. Len(s) /\ Len(s) \in Nat /\ s \in [1 .. Len(s) -> S]
  BY LenProperties
<1>2. CASE x \in DOMAIN s
  <2>1. x \in 1 .. Len(s) /\ v \in S
    BY <1>1, <1>2
  <2>2. t \in Seq(S) /\ Len(t) = Len(s)
    BY <2>1, ExceptSeq
  <2> QED
    BY <1>1, <2>2
<1>3. CASE x \notin DOMAIN s
  <2>1. t = s
    BY <1>1, <1>3
  <2> QED
    BY <1>1, <1>3, <2>1
<1> QED
  BY <1>2, <1>3

LEMMA PostTypes ==
  ASSUME PosterOK, ReaderOK, NEW type \in {"command", "transfer"}, NEW r \in Ring,
         NEW ok \in BOOLEAN, NEW slot \in Nat, Post(type, r, ok, slot)
  PROVE  PosterOK'
<1> DEFINE e == [type |-> type, trb |-> <<r, dequeue[r]>>, ok |-> ok, slot |-> slot,
                 cycle |-> tail_cycle]
<1>1. e \in EventType
  BY DEF PosterOK, ReaderOK, EventType
<1>2. event_ring' = [event_ring EXCEPT ![tail] = e]
  BY DEF Post
<1>3. event_ring' \in [Index -> EventType]
  BY <1>1, <1>2 DEF PosterOK
<1>4. tail' \in Index
  BY Sizes DEF PosterOK, Post, Index
<1>5. tail_cycle' \in {0, 1}
  BY DEF PosterOK, Post
<1> QED
  BY <1>3, <1>4, <1>5 DEF PosterOK

(* What the controller takes is no link, so it stays before the link.      *)
LEMMA TakeTypes ==
  ASSUME WriterOK, ReaderOK, Linked, NEW r \in Ring, NEW kind \in Commands \cup Transfers,
         Take(r, kind)
  PROVE  ReaderOK' /\ dequeue[r] \in Place
<1>1. dequeue[r] \in Index /\ dequeue[r] # LinkAt
  BY DEF WriterOK, ReaderOK, Linked, Take, AtHead, Commands, Transfers
<1>2. dequeue[r] \in Place
  BY <1>1, Sizes DEF Place, Index
<1>3. dequeue[r] + 1 \in Index
  BY <1>2, Sizes DEF Place
<1> QED
  BY <1>2, <1>3 DEF ReaderOK, Take
-----------------------------------------------------------------------------
(* The types after each action of the driver.                              *)
LEMMA QueueTypes ==
  ASSUME TypeOK, NEW at \in Pcs, NEW r \in Ring, NEW kind \in Commands \cup Transfers,
         NEW slot \in Nat, NEW next \in Pcs, Queue(at, r, kind, slot, next)
  PROVE  TypeOK'
<1>1. /\ Put(r, kind, slot) /\ RingDoorbell(r) /\ pc' = next
      /\ UNCHANGED <<devices, port, ports, result, event_dequeue, event_cycle, cbw, csw, buffer,
                     event_ring, tail, tail_cycle, dequeue, ccs, slots, device, taken,
                     timeouts, late>>
  BY DEF Queue, controller
<1>2. WriterOK' /\ Linked'
  BY <1>1, PutTypes DEF TypeOK
<1>3. EndpointOK'
  BY <1>1 DEF TypeOK, EndpointOK, RingDoorbell
<1> QED
  BY <1>1, <1>2, <1>3 DEF TypeOK, PortsOK, Port, DriverOK, ReaderOK, PollerOK, PosterOK,
     MemoryOK, SlotsOK, DeviceOK

QueuesEntry ==
  \/ EnableSlot \/ AddressDevice \/ ConfigureEndpoints
  \/ QueueCbw \/ QueueData \/ QueueCsw

LEMMA QueuesOne ==
  ASSUME TypeOK, QueuesEntry
  PROVE  \E at \in Pcs, r \in Ring, kind \in Commands \cup Transfers, slot \in Nat,
            next \in Pcs : Queue(at, r, kind, slot, next)
<1>1. Slot \in Nat
  BY SlotIsNat DEF TypeOK
<1>2. CASE EnableSlot
  BY <1>2 DEF EnableSlot, Pcs, Ring, Commands
<1>3. CASE AddressDevice
  BY <1>1, <1>3 DEF AddressDevice, Pcs, Ring, Commands
<1>4. CASE ConfigureEndpoints
  BY <1>1, <1>4 DEF ConfigureEndpoints, Pcs, Ring, Commands
<1>5. CASE QueueCbw
  BY <1>5 DEF QueueCbw, Pcs, Ring, Transfers
<1>6. CASE QueueData
  BY <1>6 DEF QueueData, Pcs, Ring, Transfers
<1>7. CASE QueueCsw
  BY <1>7 DEF QueueCsw, Pcs, Ring, Transfers
<1> QED
  BY <1>2, <1>3, <1>4, <1>5, <1>6, <1>7 DEF QueuesEntry

LEMMA CommandTypes ==
  ASSUME TypeOK, Discard \/ CommandAnswered \/ CommandTimesOut
  PROVE  TypeOK'
<1>1. CASE Discard
  <2>1. /\ TakeEvent
        /\ UNCHANGED <<devices, pc, port, ports, result, target, enqueue, cycle, ring, endpoint,
                       cbw, csw, buffer, event_ring, tail, tail_cycle, dequeue, ccs, slots,
                       device, queued, taken, overrun, timeouts, late>>
    BY <1>1 DEF Discard, controller, history
  <2>2. PollerOK'
    BY <2>1, TakeEventTypes DEF TypeOK
  <2> QED
    BY <2>1, <2>2 DEF TypeOK, PortsOK, Port, DriverOK, WriterOK, ReaderOK, EndpointOK, PosterOK,
       MemoryOK, SlotsOK, DeviceOK, Linked
<1>2. CASE CommandAnswered
  <2>1. /\ TakeEvent /\ WaitsForCommand /\ CommandEnds(Event.ok, Event.slot)
        /\ UNCHANGED <<devices, result, target, enqueue, cycle, ring, endpoint, cbw, csw, buffer,
                       event_ring, tail, tail_cycle, dequeue, ccs, slots, device,
                       queued, taken, overrun, timeouts, late>>
    BY <1>2 DEF CommandAnswered, controller, history
  <2>2. Event.ok \in BOOLEAN /\ Event.slot \in Nat
    BY EventIsTyped DEF TypeOK, EventType
  <2>3. PortsOK' /\ pc' \in Pcs
    BY <2>1, <2>2, CommandEndsTypes DEF TypeOK
  <2>4. PollerOK'
    BY <2>1, TakeEventTypes DEF TypeOK
  <2> QED
    BY <2>1, <2>3, <2>4 DEF TypeOK, DriverOK, WriterOK, ReaderOK, EndpointOK, PosterOK,
       MemoryOK, SlotsOK, DeviceOK, Linked
<1>3. CASE CommandTimesOut
  <2>1. /\ WaitsForCommand /\ CommandEnds(FALSE, 0)
        /\ timeouts' = timeouts + 1 /\ late' = TRUE
        /\ UNCHANGED <<devices, result, target, enqueue, cycle, event_dequeue, event_cycle,
                       ring, endpoint, cbw, csw, buffer,
                       event_ring, tail, tail_cycle, dequeue, ccs, slots, device,
                       queued, taken, overrun>>
    BY <1>3 DEF CommandTimesOut, TimeOut, controller
  <2>2. PortsOK' /\ pc' \in Pcs
    BY <2>1, CommandEndsTypes DEF TypeOK
  <2>3. timeouts' \in Nat /\ late' \in BOOLEAN
    BY <2>1 DEF TypeOK, DriverOK
  <2> QED
    BY <2>1, <2>2, <2>3 DEF TypeOK, DriverOK, WriterOK, ReaderOK, EndpointOK, PollerOK,
       PosterOK, MemoryOK, SlotsOK, DeviceOK, Linked
<1> QED
  BY <1>1, <1>2, <1>3

LEMMA DescriptorTypes ==
  ASSUME TypeOK, SkipDevice \/ \E ok \in BOOLEAN : FetchDescriptors(ok)
  PROVE  TypeOK'
<1>1. /\ (pc' = "configure" /\ port' = port) \/ NextDevice
      /\ UNCHANGED <<devices, ports, result, target, enqueue, cycle, event_dequeue, event_cycle,
                     ring, endpoint, cbw, csw, buffer, event_ring, tail, tail_cycle, dequeue, ccs,
                     slots, device, queued, taken, overrun, timeouts, late>>
  BY DEF SkipDevice, FetchDescriptors, controller, history
<1>2. port' \in Port /\ pc' \in Pcs
  BY <1>1, NextPortTypes DEF TypeOK, PortsOK, NextDevice, Pcs
<1> QED
  BY <1>1, <1>2 DEF TypeOK, PortsOK, Port, DriverOK, WriterOK, ReaderOK, EndpointOK, PollerOK,
     PosterOK, MemoryOK, SlotsOK, DeviceOK, Linked

LEMMA BeginTypes ==
  ASSUME TypeOK, SetConfiguration \/ FirstRead \/ ReadSector
  PROVE  TypeOK'
<1>1. /\ cbw' = Len(result) + 1 /\ Clear("out") /\ pc' = "queue_cbw"
      /\ UNCHANGED <<devices, port, ports, result, target, enqueue, cycle, event_dequeue,
                     event_cycle, endpoint, csw, buffer, event_ring, tail, tail_cycle, dequeue,
                     ccs, slots, device, queued, taken, timeouts, late>>
  BY DEF SetConfiguration, FirstRead, ReadSector, Begin, controller
<1>2. WriterOK' /\ Linked'
  BY <1>1, ClearTypes DEF TypeOK, Ring
<1>3. cbw' \in Nat /\ pc' \in Pcs
  BY <1>1, LenProperties DEF TypeOK, DriverOK, Pcs
<1> QED
  BY <1>1, <1>2, <1>3 DEF TypeOK, PortsOK, Port, DriverOK, ReaderOK, EndpointOK, PollerOK,
     PosterOK, MemoryOK, SlotsOK, DeviceOK

LEMMA TransferEndTypes ==
  ASSUME TypeOK, TransferTimesOut \/ TransferFails \/ CswCame
  PROVE  TypeOK'
<1>1. /\ \E b \in BOOLEAN : Return(b)
      /\ UNCHANGED <<devices, target, enqueue, cycle, ring, endpoint, cbw, csw, buffer,
                     event_ring, tail, tail_cycle, dequeue, ccs, slots, device,
                     queued, taken, overrun, late>>
      /\ timeouts' \in {timeouts, timeouts + 1}
      /\ TakeEvent \/ UNCHANGED <<event_dequeue, event_cycle>>
  <2>1. Passed \in BOOLEAN
    BY DEF TypeOK, MemoryOK, Passed
  <2> QED
    BY <2>1 DEF TransferTimesOut, TransferFails, CswCame, TimeOut, Answered, controller
<1>2. PortsOK' /\ pc' \in Pcs /\ result' \in Seq(BOOLEAN)
  BY <1>1, ReturnTypes DEF TypeOK
<1>3. PollerOK'
  BY <1>1, TakeEventTypes DEF TypeOK, PollerOK
<1>4. timeouts' \in Nat
  BY <1>1 DEF TypeOK, DriverOK
<1> QED
  BY <1>1, <1>2, <1>3, <1>4 DEF TypeOK, DriverOK, WriterOK, ReaderOK, EndpointOK, PosterOK,
     MemoryOK, SlotsOK, DeviceOK, Linked

LEMMA TransferStepTypes ==
  ASSUME TypeOK, CbwSent \/ DataCame
  PROVE  TypeOK'
<1>1. /\ TakeEvent /\ Clear("in") /\ pc' \in Pcs
      /\ csw' = csw \/ csw' = [of |-> 0, ok |-> FALSE]
      /\ UNCHANGED <<devices, port, ports, result, target, enqueue, cycle, endpoint, cbw, buffer,
                     event_ring, tail, tail_cycle, dequeue, ccs, slots, device,
                     queued, taken, timeouts, late>>
  BY DEF CbwSent, DataCame, Answered, Pcs, controller
<1>2. WriterOK' /\ Linked'
  BY <1>1, ClearTypes DEF TypeOK, Ring
<1>3. PollerOK'
  BY <1>1, TakeEventTypes DEF TypeOK
<1>4. MemoryOK'
  <2>1. [of |-> 0, ok |-> FALSE] \in [of : Nat, ok : BOOLEAN]
    OBVIOUS
  <2>2. csw' \in [of : Nat, ok : BOOLEAN]
    BY <1>1, <2>1 DEF TypeOK, MemoryOK
  <2> QED
    BY <1>1, <2>2 DEF TypeOK, MemoryOK
<1> QED
  BY <1>1, <1>2, <1>3, <1>4 DEF TypeOK, PortsOK, Port, DriverOK, ReaderOK, EndpointOK,
     PosterOK, SlotsOK, DeviceOK
-----------------------------------------------------------------------------
(* The types after each action of the controller.                          *)
LEMMA FollowTypes ==
  ASSUME TypeOK, NEW r \in Ring, Follow(r) \/ Rest(r) \/ Halt(r)
  PROVE  TypeOK'
<1>1. CASE Follow(r)
  <2>1. /\ dequeue' = [dequeue EXCEPT ![r] = 0] /\ ccs' = [ccs EXCEPT ![r] = 1 - @]
        /\ UNCHANGED <<devices, pc, port, ports, result, target, enqueue, cycle, event_dequeue,
                       event_cycle, ring, endpoint, cbw, csw, buffer, event_ring, tail,
                       tail_cycle, slots, device, queued, taken, overrun, timeouts, late>>
    BY <1>1 DEF Follow, driver, history
  <2>2. ReaderOK'
    BY <2>1, Sizes DEF TypeOK, ReaderOK
  <2> QED
    BY <2>1, <2>2 DEF TypeOK, PortsOK, Port, DriverOK, WriterOK, EndpointOK, PollerOK,
       PosterOK, MemoryOK, SlotsOK, DeviceOK, Linked
<1>2. CASE Rest(r)
  <2>1. /\ endpoint' = [endpoint EXCEPT ![r] = "stopped"]
        /\ UNCHANGED <<devices, pc, port, ports, result, target, enqueue, cycle, event_dequeue,
                       event_cycle, ring, cbw, csw, buffer, event_ring, tail, tail_cycle,
                       dequeue, ccs, slots, device, queued, taken, overrun, timeouts, late>>
    BY <1>2 DEF Rest, driver, controller, history
  <2>2. EndpointOK'
    BY <2>1 DEF TypeOK, EndpointOK
  <2> QED
    BY <2>1, <2>2 DEF TypeOK, PortsOK, Port, DriverOK, WriterOK, ReaderOK, PollerOK,
       PosterOK, MemoryOK, SlotsOK, DeviceOK, Linked
<1>3. CASE Halt(r)
  <2>1. /\ endpoint' = [endpoint EXCEPT ![r] = "halted"] /\ Post("transfer", r, FALSE, 0)
        /\ UNCHANGED <<devices, pc, port, ports, result, target, enqueue, cycle, event_dequeue,
                       event_cycle, ring, cbw, csw, buffer, dequeue, ccs, slots, device,
                       queued, taken, overrun, timeouts, late>>
    BY <1>3 DEF Halt, driver, history
  <2>2. EndpointOK' /\ PosterOK'
    BY <2>1, PostTypes DEF TypeOK, EndpointOK
  <2> QED
    BY <2>1, <2>2 DEF TypeOK, PortsOK, Port, DriverOK, WriterOK, ReaderOK, PollerOK,
       MemoryOK, SlotsOK, DeviceOK, Linked
<1> QED
  BY <1>1, <1>2, <1>3

(* What a command does to the slots: the entry moves one of them on, or    *)
(* adds one.                                                               *)
LEMMA EnableSlots ==
  ASSUME SlotsOK, NEW ok \in BOOLEAN, slots' = IF ok THEN Append(slots, "enabled") ELSE slots
  PROVE  /\ SlotsOK' /\ Len(slots) \in Nat
         /\ Len(slots') = IF ok THEN Len(slots) + 1 ELSE Len(slots)
         /\ \A i \in 1 .. Len(slots) : slots'[i] = slots[i]
<1>1. CASE ok
  <2>1. slots' = Append(slots, "enabled") /\ "enabled" \in SlotState
    BY <1>1 DEF SlotState
  <2> QED
    BY <1>1, <2>1, AppendProperties DEF SlotsOK
<1>2. CASE ~ok
  <2>1. slots' = slots
    BY <1>2
  <2> QED
    BY <1>2, <2>1, LenProperties DEF SlotsOK
<1> QED
  BY <1>1, <1>2

LEMMA CommandSlots ==
  ASSUME SlotsOK, NEW ok \in BOOLEAN, NEW s, NEW to \in SlotState,
         slots' = [slots EXCEPT ![s] = IF ok THEN to ELSE @]
  PROVE  /\ SlotsOK' /\ Len(slots') = Len(slots) /\ Len(slots) \in Nat
         /\ \A i \in 1 .. Len(slots) : slots'[i] = IF ok /\ i = s THEN to ELSE slots[i]
<1> DEFINE v == IF ok THEN to ELSE slots[s]
<1>1. slots' = [slots EXCEPT ![s] = v]
  OBVIOUS
<1>2. DOMAIN slots = 1 .. Len(slots) /\ Len(slots) \in Nat
  BY LenProperties DEF SlotsOK
<1>3. s \in DOMAIN slots => v \in SlotState
  BY ElementOfSeq, <1>2 DEF SlotsOK
<1> HIDE DEF v
<1>4. /\ slots' \in Seq(SlotState) /\ Len(slots') = Len(slots)
      /\ \A i \in 1 .. Len(slots) : slots'[i] = IF i = s THEN v ELSE slots[i]
  BY <1>1, <1>3, ReplaceInSeq DEF SlotsOK
<1> QED
  BY <1>2, <1>4 DEF SlotsOK, v

LEMMA CommandDoneTypes ==
  ASSUME TypeOK, NEW kind \in Commands, Take("command", kind), SlotsOK',
         NEW ok \in BOOLEAN, NEW slot \in Nat, Post("command", "command", ok, slot),
         UNCHANGED <<csw, buffer, device>>
  PROVE  TypeOK'
<1>1. UNCHANGED <<devices, pc, port, ports, result, target, enqueue, cycle, event_dequeue,
                  event_cycle, ring, endpoint, cbw, csw, buffer, ccs, device,
                  queued, overrun, timeouts, late>>
  BY DEF Take, driver
<1>2. ReaderOK'
  BY TakeTypes DEF TypeOK, Ring
<1>3. PosterOK'
  BY PostTypes DEF TypeOK, Ring
<1> QED
  BY <1>1, <1>2, <1>3 DEF TypeOK, PortsOK, Port, DriverOK, WriterOK, EndpointOK, PollerOK,
     MemoryOK, DeviceOK, Linked

LEMMA HeadIsTyped ==
  ASSUME TypeOK, NEW r \in Ring
  PROVE  AtHead(r) \in TrbType
  BY DEF TypeOK, WriterOK, ReaderOK, AtHead

LEMMA CommandTakenTypes ==
  ASSUME TypeOK, NEW ok \in BOOLEAN,
         \/ DoEnable(ok)
         \/ DoCommand("address", "enabled", "addressed", ok)
         \/ DoCommand("configure", "addressed", "configured", ok)
  PROVE  TypeOK'
<1>1. CASE DoEnable(ok)
  <2>1. /\ Take("command", "enable") /\ UNCHANGED <<csw, buffer, device>>
        /\ slots' = IF ok THEN Append(slots, "enabled") ELSE slots
        /\ Post("command", "command", ok, IF ok THEN Len(slots') ELSE 0)
    BY <1>1 DEF DoEnable
  <2>2. SlotsOK' /\ Len(slots') \in Nat
    BY <2>1, EnableSlots DEF TypeOK
  <2> QED
    BY <2>1, <2>2, CommandDoneTypes DEF Commands
<1>2. ASSUME NEW kind \in Commands, NEW from, NEW to \in SlotState, DoCommand(kind, from, to, ok)
      PROVE  TypeOK'
  <2>1. /\ Take("command", kind) /\ UNCHANGED <<csw, buffer, device>>
        /\ slots' = [slots EXCEPT ![AtHead("command").slot] = IF ok THEN to ELSE @]
        /\ Post("command", "command", ok, AtHead("command").slot)
    BY <1>2 DEF DoCommand
  <2>2. AtHead("command").slot \in Nat
    BY HeadIsTyped DEF Ring, TrbType
  <2>3. SlotsOK'
    BY <2>1, CommandSlots DEF TypeOK
  <2> QED
    BY <2>1, <2>2, <2>3, CommandDoneTypes
<1> QED
  BY <1>1, <1>2 DEF Commands, SlotState

LEMMA TransferTakenTypes ==
  ASSUME TypeOK, DoCbw \/ DoCsw \/ \E ok \in BOOLEAN : DoData(ok)
  PROVE  TypeOK'
<1>1. PICK r \in Ring, kind \in Commands \cup Transfers :
        /\ Take(r, kind) /\ Post("transfer", r, TRUE, 0) /\ UNCHANGED slots
  BY DEF DoCbw, DoCsw, DoData, Ring, Transfers
<1>2. UNCHANGED <<devices, pc, port, ports, result, target, enqueue, cycle, event_dequeue,
                  event_cycle, ring, endpoint, cbw, ccs, queued, overrun, timeouts, late>>
  BY <1>1 DEF Take, driver
<1>3. ReaderOK' /\ PosterOK'
  BY <1>1, TakeTypes, PostTypes DEF TypeOK
<1>4. MemoryOK' /\ DeviceOK'
  <2>1. CASE DoCbw
    BY <1>2, <2>1 DEF DoCbw, TypeOK, MemoryOK, DeviceOK
  <2>2. CASE DoCsw
    <3>1. csw' = [of |-> device.of, ok |-> device.ok] /\ UNCHANGED buffer
          /\ device' = [device EXCEPT !.phase = "ready"]
      BY <2>2 DEF DoCsw
    <3> QED
      BY <1>2, <3>1 DEF TypeOK, MemoryOK, DeviceOK
  <2>3. ASSUME NEW ok \in BOOLEAN, DoData(ok) PROVE MemoryOK' /\ DeviceOK'
    <3>1. /\ buffer' = IF ok THEN device.of ELSE 0
          /\ device' = [device EXCEPT !.phase = "status", !.ok = ok] /\ UNCHANGED csw
      BY <2>3 DEF DoData
    <3>2. DeviceOK'
      BY <3>1 DEF TypeOK, DeviceOK
    <3>3. buffer' \in Nat
      BY <3>1 DEF TypeOK, DeviceOK
    <3> QED
      BY <1>2, <3>1, <3>2, <3>3 DEF TypeOK, MemoryOK
  <2> QED
    BY <2>1, <2>2, <2>3
<1> QED
  BY <1>1, <1>2, <1>3, <1>4 DEF TypeOK, PortsOK, Port, DriverOK, WriterOK, EndpointOK, PollerOK,
     SlotsOK, Linked

LEMMA StutterTypes ==
  ASSUME TypeOK, UNCHANGED vars
  PROVE  TypeOK'
<1>1. UNCHANGED <<devices, pc, port, ports, result, target, enqueue, cycle, event_dequeue,
                  event_cycle, ring, endpoint, cbw, csw, buffer, event_ring, tail,
                  tail_cycle, dequeue, ccs, slots, device, queued, taken, overrun,
                  timeouts, late>>
  BY DEF vars, driver, controller, history
<1> QED
  BY <1>1 DEF TypeOK, PortsOK, Port, DriverOK, WriterOK, ReaderOK, EndpointOK, PollerOK,
     PosterOK, MemoryOK, SlotsOK, DeviceOK, Linked

LEMMA TypesNext == TypeOK /\ [Next]_vars => TypeOK'
<1> SUFFICES ASSUME TypeOK, [Next]_vars PROVE TypeOK'
  OBVIOUS
<1>1. CASE Driver
  <2>1. CASE QueuesEntry
    BY <2>1, QueuesOne, QueueTypes
  <2>2. CASE Discard \/ CommandAnswered \/ CommandTimesOut
    BY <2>2, CommandTypes
  <2>3. CASE SkipDevice \/ \E ok \in BOOLEAN : FetchDescriptors(ok)
    BY <2>3, DescriptorTypes
  <2>4. CASE SetConfiguration \/ FirstRead \/ ReadSector
    BY <2>4, BeginTypes
  <2>5. CASE TransferTimesOut \/ TransferFails \/ CswCame
    BY <2>5, TransferEndTypes
  <2>6. CASE CbwSent \/ DataCame
    BY <2>6, TransferStepTypes
  <2> QED
    BY <1>1, <2>1, <2>2, <2>3, <2>4, <2>5, <2>6 DEF Driver, QueuesEntry
<1>2. CASE Controller
  <2>1. ASSUME NEW r \in Ring, Follow(r) \/ Rest(r) \/ Halt(r) PROVE TypeOK'
    BY <2>1, FollowTypes
  <2>2. CASE DoCbw \/ DoCsw \/ \E ok \in BOOLEAN : DoData(ok)
    BY <2>2, TransferTakenTypes
  <2>3. ASSUME NEW ok \in BOOLEAN,
               \/ DoEnable(ok)
               \/ DoCommand("address", "enabled", "addressed", ok)
               \/ DoCommand("configure", "addressed", "configured", ok)
        PROVE  TypeOK'
    BY <2>3, CommandTakenTypes
  <2> QED
    BY <1>2, <2>1, <2>2, <2>3 DEF Controller
<1>3. CASE UNCHANGED vars
  BY <1>3, StutterTypes
<1> QED
  BY <1>1, <1>2, <1>3 DEF Next

LEMMA TypesAlways == Spec => []TypeOK
  BY InitTypes, TypesNext, PTL DEF Spec
-----------------------------------------------------------------------------
(***************************************************************************)
(* InOrder.  The driver's end of a ring is as many entries ahead of the    *)
(* controller's as there are waiting, in the same round or in the next;    *)
(* in the next one the link has been given to the controller.  The entries *)
(* between the two ends are the ones written, in order, with the cycle bit *)
(* of their round; the others do not have the bit of the round to come, or *)
(* are cleared.                                                            *)
(***************************************************************************)
At(d, i) == IF d + i - 1 < LinkAt THEN d + i - 1 ELSE d + i - 1 - LinkAt

Ends(r) ==
  /\ Waiting(r) \in 0 .. LinkAt
  /\ IF dequeue[r] + Waiting(r) < LinkAt
     THEN enqueue[r] = dequeue[r] + Waiting(r) /\ cycle[r] = ccs[r]
     ELSE /\ enqueue[r] = dequeue[r] + Waiting(r) - LinkAt
          /\ cycle[r] = 1 - ccs[r] /\ ring[r][LinkAt] = Link(ccs[r])

Written(r, i) == ring[r][At(dequeue[r], i)]
Filled(r) ==
  \A i \in 1 .. Waiting(r) :
    Written(r, i).n = taken[r] + i /\ Written(r, i).cycle = RoundOf(r, i)
Free(r) ==
  \A i \in Waiting(r) + 1 .. LinkAt :
    Written(r, i).cycle # RoundOf(r, i) \/ Written(r, i) = Cleared

IsQueue(r) == Ends(r) /\ Filled(r) /\ Free(r)

(* One that was never overrun has an entry free.                           *)
Queues == \A r \in Ring \ overrun : IsQueue(r) /\ Waiting(r) < LinkAt

RingInv == TypeOK /\ Queues

LEMMA RemainderOfSmall ==
  ASSUME NEW m \in Nat \ {0}, NEW k \in 0 .. 2 * m - 1
  PROVE  k % m = IF k < m THEN k ELSE k - m
  OBVIOUS

LEMMA PlaceOfIsAt ==
  ASSUME TypeOK, NEW r \in Ring, NEW i \in 1 .. LinkAt
  PROVE  PlaceOf(r, i) = At(dequeue[r], i)
<1>1. dequeue[r] \in 0 .. LinkAt /\ LinkAt \in Nat \ {0}
  BY Sizes DEF TypeOK, ReaderOK
<1> DEFINE k == dequeue[r] + i - 1
<1>2. k \in 0 .. 2 * LinkAt - 1
  BY <1>1
<1>3. PlaceOf(r, i) = k % LinkAt
  BY DEF PlaceOf, LinkAt
<1>4. At(dequeue[r], i) = IF k < LinkAt THEN k ELSE k - LinkAt
  BY <1>1 DEF At
<1> HIDE DEF k
<1>5. k % LinkAt = IF k < LinkAt THEN k ELSE k - LinkAt
  BY <1>1, <1>2, RemainderOfSmall
<1> QED
  BY <1>3, <1>4, <1>5

LEMMA QueuesInOrder ==
  ASSUME RingInv
  PROVE  InOrder
<1> SUFFICES ASSUME NEW r \in Ring \ overrun
             PROVE  /\ \A i \in 1 .. Waiting(r) :
                         LET trb == ring[r][PlaceOf(r, i)]
                         IN  trb.n = taken[r] + i /\ trb.cycle = RoundOf(r, i)
                    /\ dequeue[r] + Waiting(r) >= RingSize - 1 =>
                         ring[r][RingSize - 1] = Link(ccs[r])
                    /\ LET i == Waiting(r) + 1
                           trb == ring[r][PlaceOf(r, i)]
                       IN  i < RingSize => trb.cycle # RoundOf(r, i) \/ trb = Cleared
  BY DEF InOrder
<1>1. /\ TypeOK /\ Ends(r) /\ Filled(r) /\ Free(r) /\ Waiting(r) \in 0 .. LinkAt - 1
      /\ LinkAt = RingSize - 1 /\ LinkAt \in Nat /\ dequeue[r] \in Nat
  <2>1. IsQueue(r) /\ Waiting(r) < LinkAt
    BY DEF RingInv, Queues
  <2> QED
    BY <2>1, Sizes DEF IsQueue, RingInv, Ends, LinkAt, TypeOK, ReaderOK, Index
<1>2. \A i \in 1 .. Waiting(r) + 1 : PlaceOf(r, i) = At(dequeue[r], i)
  BY <1>1, PlaceOfIsAt
<1>3. \A i \in 1 .. Waiting(r) :
        ring[r][PlaceOf(r, i)].n = taken[r] + i /\ ring[r][PlaceOf(r, i)].cycle = RoundOf(r, i)
  BY <1>1, <1>2 DEF Filled, Written
<1>4. dequeue[r] + Waiting(r) >= LinkAt => ring[r][LinkAt] = Link(ccs[r])
  BY <1>1 DEF Ends
<1>5. \/ ring[r][PlaceOf(r, Waiting(r) + 1)].cycle # RoundOf(r, Waiting(r) + 1)
      \/ ring[r][PlaceOf(r, Waiting(r) + 1)] = Cleared
  BY <1>1, <1>2 DEF Free, Written
<1> QED
  BY <1>1, <1>3, <1>4, <1>5

LEMMA RingInit == Init => RingInv
<1> SUFFICES ASSUME Init PROVE RingInv
  OBVIOUS
<1>1. TypeOK
  BY InitTypes
<1>2. ASSUME NEW r \in Ring PROVE Ends(r) /\ Filled(r) /\ Free(r) /\ Waiting(r) < LinkAt
  <2>1. /\ Waiting(r) = 0 /\ dequeue[r] = 0 /\ enqueue[r] = 0 /\ cycle[r] = 1 /\ ccs[r] = 1
        /\ \A i \in Place : ring[r][i] = Cleared
    BY Sizes DEF Init, Waiting, Place, LinkAt
  <2>2. Ends(r) /\ Filled(r)
    BY <2>1, Sizes DEF Ends, Filled
  <2>3. \A i \in 1 .. LinkAt : At(0, i) \in Place
    BY Sizes DEF At, Place
  <2>4. Free(r)
    <3> SUFFICES ASSUME NEW i \in 1 .. LinkAt PROVE Written(r, i) = Cleared
      BY <2>1 DEF Free
    <3> QED
      BY <2>1, <2>3 DEF Written
  <2> QED
    BY <2>1, <2>2, <2>4, Sizes
<1> QED
  BY <1>1, <1>2 DEF RingInv, Queues, IsQueue

SameRing(r) ==
  /\ ring'[r] = ring[r] /\ enqueue'[r] = enqueue[r] /\ cycle'[r] = cycle[r]
  /\ queued'[r] = queued[r] /\ dequeue'[r] = dequeue[r] /\ ccs'[r] = ccs[r]
  /\ taken'[r] = taken[r]

LEMMA OtherRing ==
  ASSUME NEW r \in Ring, SameRing(r)
  PROVE  (IsQueue(r)' <=> IsQueue(r)) /\ Waiting(r)' = Waiting(r)
  BY DEF SameRing, IsQueue, Ends, Filled, Free, Written, Waiting, RoundOf

LEMMA AtIsPlace ==
  ASSUME NEW d \in Index, NEW i \in 1 .. LinkAt
  PROVE  /\ At(d, i) \in Place
         /\ \A j \in 1 .. LinkAt : At(d, j) = At(d, i) => j = i
  BY Sizes DEF At, Place

(* The driver's end is where the next entry belongs, in its round.         *)
LEMMA EndIsNext ==
  ASSUME TypeOK, NEW r \in Ring, Ends(r), Waiting(r) < LinkAt
  PROVE  LET i == Waiting(r) + 1
         IN  /\ i \in 1 .. LinkAt /\ At(dequeue[r], i) = enqueue[r]
             /\ RoundOf(r, i) = cycle[r]
<1>1. /\ dequeue[r] \in 0 .. LinkAt /\ LinkAt \in Nat /\ LinkAt >= 2
      /\ Waiting(r) \in 0 .. LinkAt - 1 /\ RingSize - 1 = LinkAt
  BY Sizes DEF TypeOK, ReaderOK, Ends
<1> QED
  BY <1>1 DEF Ends, At, RoundOf

LEMMA PutQueue ==
  ASSUME TypeOK, NEW r \in Ring, NEW kind \in Commands \cup Transfers, NEW slot \in Nat,
         Put(r, kind, slot), UNCHANGED <<dequeue, ccs, taken>>,
         IsQueue(r), Waiting(r) < LinkAt, ~(dequeue[r] = LinkAt /\ Waiting(r) = LinkAt - 1)
  PROVE  IsQueue(r)' /\ Waiting(r)' = Waiting(r) + 1
<1> DEFINE i == enqueue[r]
           trb == Trb(kind, slot, queued[r] + 1, cycle[r])
           wraps == i + 1 >= LinkAt
           w == Waiting(r)
           d == dequeue[r]
<1>1. /\ ring \in [Ring -> [Index -> TrbType]] /\ i \in Place /\ LinkAt \in Index
      /\ queued \in [Ring -> Nat] /\ taken \in [Ring -> Nat] /\ cycle \in [Ring -> {0, 1}]
      /\ enqueue \in [Ring -> Place] /\ d \in Index /\ ccs[r] \in {0, 1}
  BY Sizes DEF TypeOK, WriterOK, ReaderOK
<1>2. /\ ring' = [ring EXCEPT ![r][i] = trb,
                              ![r][LinkAt] = IF wraps THEN Link(cycle[r]) ELSE @]
      /\ enqueue' = [enqueue EXCEPT ![r] = IF wraps THEN 0 ELSE i + 1]
      /\ cycle' = [cycle EXCEPT ![r] = IF wraps THEN 1 - cycle[r] ELSE @]
      /\ queued' = [queued EXCEPT ![r] = @ + 1]
  BY DEF Put, LinkAt, CycleAfter
<1>3. w \in 0 .. LinkAt - 1
  BY Sizes DEF IsQueue, Ends
<1>4. /\ \A j \in Place : ring'[r][j] = IF j = i THEN trb ELSE ring[r][j]
      /\ ring'[r][LinkAt] = IF wraps THEN Link(cycle[r]) ELSE ring[r][LinkAt]
  BY <1>1, <1>2, Sizes DEF Place
<1>5. Ends(r) /\ Filled(r) /\ Free(r) /\ w \in 0 .. LinkAt - 1
  BY <1>3 DEF IsQueue
<1>6. /\ w + 1 \in 1 .. LinkAt /\ At(d, w + 1) = i /\ RoundOf(r, w + 1) = cycle[r]
  BY <1>5, EndIsNext
<1>7. Waiting(r)' = w + 1 /\ queued[r] + 1 = taken[r] + (w + 1)
  <2>1. queued[r] \in Nat /\ taken[r] \in Nat /\ queued'[r] = queued[r] + 1
    BY <1>1, <1>2
  <2> QED
    BY <2>1 DEF Waiting
<1>8. \A j \in 1 .. LinkAt : Written(r, j)' = IF j = w + 1 THEN trb ELSE Written(r, j)
  <2> TAKE j \in 1 .. LinkAt
  <2>1. At(d, j) \in Place /\ (At(d, j) = i <=> j = w + 1)
    BY <1>1, <1>6, AtIsPlace
  <2> QED
    BY <1>4, <2>1 DEF Written
<1>9. \A j \in 1 .. LinkAt : RoundOf(r, j)' = RoundOf(r, j)
  BY DEF RoundOf
<1>10. Filled(r)'
  <2> SUFFICES ASSUME NEW j \in 1 .. w + 1
               PROVE  /\ Written(r, j)'.n = taken[r] + j
                      /\ Written(r, j)'.cycle = RoundOf(r, j)'
    BY <1>7 DEF Filled
  <2>1. j \in 1 .. LinkAt
    BY <1>5, Sizes
  <2>2. CASE j = w + 1
    BY <1>6, <1>7, <1>8, <1>9, <2>1, <2>2 DEF Trb
  <2>3. CASE j # w + 1
    <3>1. j \in 1 .. w
      BY <1>5, <2>3
    <3> QED
      BY <1>5, <1>8, <1>9, <2>1, <2>3, <3>1 DEF Filled
  <2> QED
    BY <2>2, <2>3
<1>11. Free(r)'
  <2> SUFFICES ASSUME NEW j \in w + 2 .. LinkAt
               PROVE  Written(r, j)'.cycle # RoundOf(r, j)' \/ Written(r, j)' = Cleared
    BY <1>5, <1>7 DEF Free
  <2>1. j \in 1 .. LinkAt /\ j # w + 1 /\ j \in w + 1 .. LinkAt
    BY <1>5, Sizes
  <2> QED
    BY <1>5, <1>8, <1>9, <2>1 DEF Free
<1>12. Ends(r)'
  <2>1. /\ enqueue'[r] = (IF i + 1 >= LinkAt THEN 0 ELSE i + 1)
        /\ cycle'[r] = IF i + 1 >= LinkAt THEN 1 - cycle[r] ELSE cycle[r]
    BY <1>1, <1>2
  <2>2. Waiting(r)' \in 0 .. LinkAt
    BY <1>5, <1>7, Sizes
  <2>3. /\ d \in 0 .. LinkAt /\ LinkAt \in Nat /\ i \in 0 .. LinkAt - 1
        /\ dequeue'[r] = d /\ ccs'[r] = ccs[r]
    BY <1>1, Sizes DEF Place
  <2>4. CASE d + w + 1 < LinkAt
    <3>1. i = d + w /\ cycle[r] = ccs[r]
      BY <1>5, <2>3, <2>4 DEF Ends
    <3>2. enqueue'[r] = d + (w + 1) /\ cycle'[r] = ccs[r]
      BY <1>5, <2>1, <2>3, <2>4, <3>1
    <3> QED
      BY <1>5, <1>7, <2>2, <2>3, <2>4, <3>2 DEF Ends
  <2>5. CASE d + w + 1 = LinkAt
    <3>1. i = d + w /\ cycle[r] = ccs[r]
      BY <1>5, <2>3, <2>5 DEF Ends
    <3>2. /\ enqueue'[r] = d + (w + 1) - LinkAt /\ cycle'[r] = 1 - ccs[r]
          /\ ring'[r][LinkAt] = Link(ccs[r])
      BY <1>4, <1>5, <2>1, <2>3, <2>5, <3>1
    <3> QED
      BY <1>5, <1>7, <2>2, <2>3, <2>5, <3>2 DEF Ends
  <2>6. CASE d + w + 1 > LinkAt
    <3>1. /\ i = d + w - LinkAt /\ cycle[r] = 1 - ccs[r] /\ ring[r][LinkAt] = Link(ccs[r])
          /\ i + 1 < LinkAt
      BY <1>5, <2>3, <2>6 DEF Ends
    <3>2. /\ enqueue'[r] = d + (w + 1) - LinkAt /\ cycle'[r] = 1 - ccs[r]
          /\ ring'[r][LinkAt] = Link(ccs[r])
      BY <1>4, <1>5, <2>1, <2>3, <2>6, <3>1
    <3> QED
      BY <1>5, <1>7, <2>2, <2>3, <2>6, <3>2 DEF Ends
  <2> QED
    BY <1>5, <2>3, <2>4, <2>5, <2>6
<1> QED
  BY <1>7, <1>10, <1>11, <1>12 DEF IsQueue

LEMMA PutQueues ==
  ASSUME RingInv, NEW r \in Ring, NEW kind \in Commands \cup Transfers, NEW slot \in Nat,
         Put(r, kind, slot), UNCHANGED <<dequeue, ccs, taken>>
  PROVE  Queues'
<1>1. ASSUME NEW q \in Ring, q # r PROVE SameRing(q)
  BY <1>1 DEF Put, SameRing, RingInv, TypeOK, WriterOK
<1>2. overrun' = IF Room(r) THEN overrun ELSE overrun \cup {r}
  BY DEF Put, Overwrite
<1>3. ASSUME r \notin overrun' PROVE IsQueue(r)' /\ Waiting(r)' < LinkAt
  <2>1. r \notin overrun /\ Room(r)
    BY <1>2, <1>3
  <2>2. IsQueue(r) /\ TypeOK /\ Waiting(r) \in 0 .. LinkAt - 2
    BY <2>1, Sizes DEF RingInv, Queues, IsQueue, Ends, Room
  <2>3. Waiting(r) < LinkAt /\ Waiting(r) # LinkAt - 1 /\ Waiting(r) + 1 < LinkAt
    BY <2>2, Sizes
  <2> QED
    BY <2>2, <2>3, PutQueue
<1> QED
  BY <1>1, <1>2, <1>3, OtherRing DEF RingInv, Queues

LEMMA ClearQueue ==
  ASSUME TypeOK, NEW r \in Ring, Clear(r),
         UNCHANGED <<enqueue, cycle, queued, dequeue, ccs, taken>>,
         IsQueue(r), Waiting(r) < LinkAt
  PROVE  IsQueue(r)' /\ Waiting(r)' = Waiting(r)
<1>1. /\ ring \in [Ring -> [Index -> TrbType]] /\ enqueue[r] \in Place
      /\ dequeue[r] \in Index /\ Place \subseteq Index
  BY Sizes DEF TypeOK, WriterOK, ReaderOK
<1>2. \A j \in Index : ring'[r][j] = IF j = enqueue[r] THEN Cleared ELSE ring[r][j]
  BY <1>1 DEF Clear
<1>3. Ends(r) /\ Filled(r) /\ Free(r) /\ Waiting(r) \in 0 .. LinkAt - 1
  BY Sizes DEF IsQueue, Ends
<1>4. Waiting(r) + 1 \in 1 .. LinkAt /\ At(dequeue[r], Waiting(r) + 1) = enqueue[r]
  BY <1>3, EndIsNext
<1>5. \A j \in 1 .. LinkAt :
        Written(r, j)' = IF j = Waiting(r) + 1 THEN Cleared ELSE Written(r, j)
  <2> TAKE j \in 1 .. LinkAt
  <2>1. At(dequeue[r], j) \in Index /\ (At(dequeue[r], j) = enqueue[r] <=> j = Waiting(r) + 1)
    BY <1>1, <1>4, AtIsPlace
  <2> QED
    BY <1>2, <2>1 DEF Written
<1>6. Waiting(r)' = Waiting(r) /\ \A j : RoundOf(r, j)' = RoundOf(r, j)
  BY DEF Waiting, RoundOf
<1>7. Filled(r)'
  <2> SUFFICES ASSUME NEW j \in 1 .. Waiting(r)
               PROVE  Written(r, j)'.n = taken[r] + j /\ Written(r, j)'.cycle = RoundOf(r, j)
    BY <1>6 DEF Filled
  <2>1. j \in 1 .. LinkAt /\ j # Waiting(r) + 1
    BY <1>3, Sizes
  <2> QED
    BY <1>3, <1>5, <2>1 DEF Filled
<1>8. Free(r)'
  <2> SUFFICES ASSUME NEW j \in Waiting(r) + 1 .. LinkAt
               PROVE  Written(r, j)'.cycle # RoundOf(r, j) \/ Written(r, j)' = Cleared
    BY <1>6 DEF Free
  <2>1. j \in 1 .. LinkAt
    BY <1>3, Sizes
  <2> QED
    BY <1>3, <1>5, <2>1 DEF Free
<1>9. Ends(r)'
  <2>1. LinkAt \in Index /\ LinkAt # enqueue[r]
    BY <1>1, Sizes DEF Place
  <2>2. ring'[r][LinkAt] = ring[r][LinkAt]
    BY <1>2, <2>1
  <2> QED
    BY <1>3, <1>6, <2>2 DEF Ends
<1> QED
  BY <1>6, <1>7, <1>8, <1>9 DEF IsQueue

LEMMA ClearQueues ==
  ASSUME RingInv, NEW r \in Ring, Clear(r),
         UNCHANGED <<enqueue, cycle, queued, dequeue, ccs, taken>>
  PROVE  Queues'
<1>1. ASSUME NEW q \in Ring, q # r PROVE SameRing(q)
  BY <1>1 DEF Clear, SameRing, RingInv, TypeOK, WriterOK
<1>2. overrun' = IF Room(r) THEN overrun ELSE overrun \cup {r}
  BY DEF Clear, Overwrite
<1>3. ASSUME r \notin overrun' PROVE IsQueue(r)' /\ Waiting(r)' < LinkAt
  <2>1. IsQueue(r) /\ Waiting(r) < LinkAt /\ TypeOK
    BY <1>2, <1>3 DEF RingInv, Queues
  <2> QED
    BY <2>1, ClearQueue
<1> QED
  BY <1>1, <1>2, <1>3, OtherRing DEF RingInv, Queues

(* An entry that is taken was waiting: nothing else in the ring has the    *)
(* cycle bit of the controller's round and says what to do.                *)
LEMMA TakenWaited ==
  ASSUME TypeOK, NEW r \in Ring, IsQueue(r), Owns(r), AtHead(r).kind \notin {"none", "link"}
  PROVE  /\ Waiting(r) \in 1 .. LinkAt /\ dequeue[r] \in Place
         /\ AtHead(r) = Written(r, 1) /\ RoundOf(r, 1) = ccs[r]
<1>1. /\ Ends(r) /\ Free(r) /\ dequeue[r] \in Index /\ Index = 0 .. LinkAt /\ LinkAt \in Nat
      /\ LinkAt >= 2 /\ RingSize - 1 = LinkAt
  BY Sizes DEF IsQueue, TypeOK, ReaderOK
<1>2. dequeue[r] # LinkAt
  BY <1>1 DEF TypeOK, Linked, AtHead
<1>3. dequeue[r] \in Place /\ At(dequeue[r], 1) = dequeue[r]
  BY <1>1, <1>2 DEF Place, At
<1>4. RoundOf(r, 1) = ccs[r]
  BY <1>1, <1>2 DEF RoundOf
<1>5. AtHead(r) = Written(r, 1)
  BY <1>3 DEF AtHead, Written
<1>6. Waiting(r) # 0
  <2> SUFFICES ASSUME Waiting(r) = 0 PROVE FALSE
    OBVIOUS
  <2>1. Written(r, 1).cycle # RoundOf(r, 1) \/ Written(r, 1) = Cleared
    BY <1>1 DEF Free
  <2>2. AtHead(r) # Cleared
    BY DEF Cleared, Trb
  <2> QED
    BY <1>4, <1>5, <2>1, <2>2 DEF Owns
<1> QED
  BY <1>1, <1>3, <1>4, <1>5, <1>6 DEF Ends

LEMMA TakeQueue ==
  ASSUME TypeOK, NEW r \in Ring, NEW kind \in Commands \cup Transfers, Take(r, kind),
         UNCHANGED <<enqueue, cycle>>, IsQueue(r)
  PROVE  IsQueue(r)' /\ Waiting(r) \in 1 .. LinkAt /\ Waiting(r)' = Waiting(r) - 1
<1> DEFINE d == dequeue[r]
           w == Waiting(r)
<1>1. /\ UNCHANGED <<ring, ccs, queued, overrun>> /\ Owns(r) /\ AtHead(r).kind = kind
      /\ dequeue' = [dequeue EXCEPT ![r] = @ + 1] /\ taken' = [taken EXCEPT ![r] = @ + 1]
  BY DEF Take
<1>2. /\ dequeue \in [Ring -> Index] /\ taken \in [Ring -> Nat] /\ queued \in [Ring -> Nat]
      /\ ccs[r] \in {0, 1}
  BY DEF TypeOK, ReaderOK, WriterOK
<1>3. /\ Ends(r) /\ Filled(r) /\ Free(r)
      /\ w \in 1 .. LinkAt /\ d \in Place
      /\ AtHead(r) = Written(r, 1) /\ RoundOf(r, 1) = ccs[r]
  BY <1>1, TakenWaited DEF IsQueue, Commands, Transfers
<1>4. /\ dequeue'[r] = d + 1 /\ taken'[r] = taken[r] + 1 /\ taken[r] \in Nat
      /\ Waiting(r)' = w - 1
  <2>1. dequeue'[r] = d + 1 /\ taken'[r] = taken[r] + 1 /\ taken[r] \in Nat /\ queued[r] \in Nat
    BY <1>1, <1>2
  <2> QED
    BY <1>1, <2>1 DEF Waiting
<1>5. d \in 0 .. LinkAt - 1 /\ LinkAt \in Nat /\ LinkAt >= 2 /\ RingSize - 1 = LinkAt
  BY <1>3, Sizes DEF Place
<1>6. \A j \in 1 .. LinkAt - 1 :
        Written(r, j)' = Written(r, j + 1) /\ RoundOf(r, j)' = RoundOf(r, j + 1)
  <2> TAKE j \in 1 .. LinkAt - 1
  <2>1. At(d + 1, j) = At(d, j + 1)
    BY <1>5 DEF At
  <2>2. d + 1 + j = d + (j + 1)
    BY <1>5
  <2> QED
    BY <1>1, <1>4, <2>1, <2>2 DEF Written, RoundOf
<1>7. Written(r, LinkAt)' = Written(r, 1) /\ RoundOf(r, LinkAt)' = 1 - ccs[r]
  <2>1. At(d + 1, LinkAt) = At(d, 1)
    BY <1>5 DEF At
  <2>2. d + 1 + LinkAt > RingSize - 1
    BY <1>5
  <2> QED
    BY <1>1, <1>4, <2>1, <2>2 DEF Written, RoundOf
<1>8. Filled(r)'
  <2> SUFFICES ASSUME NEW j \in 1 .. w - 1
               PROVE  /\ Written(r, j)'.n = taken[r] + 1 + j
                      /\ Written(r, j)'.cycle = RoundOf(r, j)'
    BY <1>4 DEF Filled
  <2>1. j \in 1 .. LinkAt - 1 /\ j + 1 \in 1 .. w
    BY <1>3, Sizes
  <2>2. Written(r, j + 1).n = taken[r] + (j + 1) /\ Written(r, j + 1).cycle = RoundOf(r, j + 1)
    BY <1>3, <2>1 DEF Filled
  <2>3. taken[r] + (j + 1) = taken[r] + 1 + j
    BY <1>4, <2>1
  <2> QED
    BY <1>6, <2>1, <2>2, <2>3
<1>9. Free(r)'
  <2> SUFFICES ASSUME NEW j \in w .. LinkAt
               PROVE  Written(r, j)'.cycle # RoundOf(r, j)' \/ Written(r, j)' = Cleared
    <3>1. Waiting(r)' + 1 = w
      BY <1>3, <1>4, Sizes
    <3> QED
      BY <3>1 DEF Free
  <2>1. CASE j = LinkAt
    <3>1. AtHead(r).cycle = ccs[r] /\ ccs[r] # 1 - ccs[r]
      BY <1>1, <1>2 DEF Owns
    <3> QED
      BY <1>3, <1>7, <2>1, <3>1
  <2>2. CASE j # LinkAt
    <3>1. j \in 1 .. LinkAt - 1 /\ j + 1 \in w + 1 .. LinkAt
      BY <1>3, <2>2, Sizes
    <3> QED
      BY <1>3, <1>6, <3>1 DEF Free
  <2> QED
    BY <2>1, <2>2
<1>10. Ends(r)'
  <2>1. d + 1 + (w - 1) = d + w /\ w - 1 \in 0 .. LinkAt
    BY <1>3, Sizes DEF Place
  <2>2. dequeue'[r] + Waiting(r)' = d + w /\ Waiting(r)' \in 0 .. LinkAt
    BY <1>4, <2>1
  <2>3. IF d + w < LinkAt
        THEN enqueue'[r] = d + w /\ cycle'[r] = ccs'[r]
        ELSE /\ enqueue'[r] = d + w - LinkAt
             /\ cycle'[r] = 1 - ccs'[r] /\ ring'[r][LinkAt] = Link(ccs'[r])
    BY <1>1, <1>3 DEF Ends
  <2>4. d \in Nat /\ w \in Nat /\ LinkAt \in Nat /\ dequeue'[r] = d + 1 /\ Waiting(r)' = w - 1
    BY <1>3, <1>4, Sizes DEF Place
  <2> QED
    BY <2>2, <2>3, <2>4 DEF Ends
<1> QED
  BY <1>3, <1>4, <1>8, <1>9, <1>10 DEF IsQueue

LEMMA TakeQueues ==
  ASSUME RingInv, NEW r \in Ring, NEW kind \in Commands \cup Transfers, Take(r, kind),
         UNCHANGED <<enqueue, cycle>>
  PROVE  Queues'
<1>1. ASSUME NEW q \in Ring, q # r PROVE SameRing(q)
  BY <1>1 DEF Take, SameRing, RingInv, TypeOK, WriterOK, ReaderOK
<1>2. ASSUME r \notin overrun PROVE IsQueue(r)' /\ Waiting(r)' < LinkAt
  <2>1. TypeOK /\ IsQueue(r)
    BY <1>2 DEF RingInv, Queues
  <2>2. IsQueue(r)' /\ Waiting(r) \in 1 .. LinkAt /\ Waiting(r)' = Waiting(r) - 1
    BY <2>1, TakeQueue
  <2>3. Waiting(r) - 1 < LinkAt
    BY <2>2, Sizes
  <2> QED
    BY <2>2, <2>3
<1>3. overrun' = overrun
  BY DEF Take
<1> QED
  BY <1>1, <1>2, <1>3, OtherRing DEF RingInv, Queues

(* At the link the controller goes on with the first entry, and with the   *)
(* other cycle bit.                                                        *)
LEMMA FollowQueue ==
  ASSUME TypeOK, NEW r \in Ring, Follow(r), IsQueue(r)
  PROVE  IsQueue(r)' /\ Waiting(r)' = Waiting(r) /\ Waiting(r) < LinkAt
<1> DEFINE w == Waiting(r)
<1>1. /\ UNCHANGED <<ring, enqueue, cycle, queued, taken, overrun>> /\ Owns(r)
      /\ AtHead(r).kind = "link"
      /\ dequeue' = [dequeue EXCEPT ![r] = 0] /\ ccs' = [ccs EXCEPT ![r] = 1 - @]
  BY DEF Follow, driver, history
<1>2. /\ dequeue \in [Ring -> Index] /\ ccs \in [Ring -> {0, 1}] /\ ccs[r] \in {0, 1}
      /\ enqueue[r] \in Place
  BY DEF TypeOK, ReaderOK, WriterOK
<1>3. dequeue[r] = LinkAt /\ dequeue'[r] = 0 /\ ccs'[r] = 1 - ccs[r] /\ Waiting(r)' = w
  BY <1>1, <1>2 DEF TypeOK, Linked, AtHead, Waiting
<1>4. Ends(r) /\ Filled(r) /\ Free(r) /\ w \in 0 .. LinkAt - 1
  <2>1. Ends(r) /\ Filled(r) /\ Free(r) /\ w \in 0 .. LinkAt
    BY DEF IsQueue, Ends
  <2>2. enqueue[r] = LinkAt + w - LinkAt
    BY <1>3, <2>1, Sizes DEF Ends
  <2> QED
    BY <1>2, <2>1, <2>2, Sizes DEF Place
<1>5. \A j \in 1 .. LinkAt : Written(r, j)' = Written(r, j) /\ RoundOf(r, j)' = RoundOf(r, j)
  <2> TAKE j \in 1 .. LinkAt
  <2>1. At(0, j) = At(LinkAt, j)
    BY Sizes DEF At
  <2>2. LinkAt + j > RingSize - 1 /\ ~(0 + j > RingSize - 1)
    BY Sizes
  <2> QED
    BY <1>1, <1>3, <2>1, <2>2 DEF Written, RoundOf
<1>6. Filled(r)'
  <2>1. \A j \in 1 .. w : j \in 1 .. LinkAt
    BY <1>4, Sizes
  <2> QED
    BY <1>1, <1>3, <1>4, <1>5, <2>1 DEF Filled
<1>7. Free(r)'
  <2>1. \A j \in w + 1 .. LinkAt : j \in 1 .. LinkAt
    BY <1>4, Sizes
  <2> QED
    BY <1>3, <1>4, <1>5, <2>1 DEF Free
<1>8. Ends(r)'
  <2>1. ~(LinkAt + w < LinkAt) /\ 0 + w < LinkAt /\ LinkAt + w - LinkAt = 0 + w
    BY <1>4, Sizes
  <2>2. enqueue[r] = 0 + w /\ cycle[r] = 1 - ccs[r]
    BY <1>3, <1>4, <2>1 DEF Ends
  <2>3. enqueue'[r] = dequeue'[r] + Waiting(r)' /\ cycle'[r] = ccs'[r]
    BY <1>1, <1>3, <2>2
  <2>4. Waiting(r)' \in 0 .. LinkAt /\ dequeue'[r] + Waiting(r)' < LinkAt
    <3>1. w \in 0 .. LinkAt
      BY <1>4, Sizes
    <3> QED
      BY <1>3, <2>1, <3>1
  <2> QED
    BY <1>3, <1>4, <2>3, <2>4, Sizes DEF Ends
<1>9. w < LinkAt
  BY <1>4, Sizes
<1> QED
  BY <1>3, <1>6, <1>7, <1>8, <1>9 DEF IsQueue

LEMMA FollowQueues ==
  ASSUME RingInv, NEW r \in Ring, Follow(r)
  PROVE  Queues'
<1>1. ASSUME NEW q \in Ring, q # r PROVE SameRing(q)
  BY <1>1 DEF Follow, driver, history, SameRing, RingInv, TypeOK, ReaderOK
<1>2. ASSUME r \notin overrun PROVE IsQueue(r)' /\ Waiting(r)' < LinkAt
  BY <1>2, FollowQueue DEF RingInv, Queues
<1>3. overrun' = overrun
  BY DEF Follow, history
<1> QED
  BY <1>1, <1>2, <1>3, OtherRing DEF RingInv, Queues

LEMMA SameQueues ==
  ASSUME RingInv,
         UNCHANGED <<ring, enqueue, cycle, queued, dequeue, ccs, taken, overrun>>
  PROVE  Queues'
<1>1. \A r \in Ring : SameRing(r)
  BY DEF SameRing
<1> QED
  BY <1>1, OtherRing DEF RingInv, Queues

(* What each step does to the rings.                                       *)
LEMMA DriverRings ==
  ASSUME TypeOK, Driver
  PROVE  /\ UNCHANGED <<dequeue, ccs, taken, event_ring, tail, tail_cycle, slots, device,
                        devices, buffer>>
         /\ \/ \E r \in Ring, kind \in Commands \cup Transfers, slot \in Nat : Put(r, kind, slot)
            \/ \E r \in Ring : Clear(r) /\ UNCHANGED <<enqueue, cycle, queued, target>>
            \/ UNCHANGED <<ring, enqueue, cycle, queued, overrun, target>>
<1>2. CASE QueuesEntry
  <2>1. PICK at \in Pcs, r \in Ring, kind \in Commands \cup Transfers, slot \in Nat,
             next \in Pcs : Queue(at, r, kind, slot, next)
    BY <1>2, QueuesOne
  <2> QED
    BY <2>1 DEF Queue, controller
<1>3. CASE Discard \/ CommandAnswered \/ SkipDevice
  BY <1>3 DEF Discard, CommandAnswered, SkipDevice, controller, history
<1>4. CASE CommandTimesOut \/ TransferTimesOut
  BY <1>4 DEF CommandTimesOut, TransferTimesOut, TimeOut, controller
<1>5. CASE \E ok \in BOOLEAN : FetchDescriptors(ok)
  BY <1>5 DEF FetchDescriptors, controller, history
<1>6. CASE SetConfiguration \/ FirstRead \/ ReadSector
  BY <1>6 DEF SetConfiguration, FirstRead, ReadSector, Begin, Ring, controller
<1>7. CASE TransferFails \/ CswCame
  BY <1>7 DEF TransferFails, CswCame, Answered, controller
<1>8. CASE CbwSent \/ DataCame
  BY <1>8 DEF CbwSent, DataCame, Answered, Ring, controller
<1> QED
  BY <1>2, <1>3, <1>4, <1>5, <1>6, <1>7, <1>8 DEF Driver, QueuesEntry

LEMMA ControllerRings ==
  ASSUME Controller
  PROVE  /\ UNCHANGED <<devices, pc, port, ports, result, target, enqueue, cycle, event_dequeue,
                        event_cycle, ring, cbw, queued, overrun, timeouts, late>>
         /\ \/ \E r \in Ring, kind \in Commands \cup Transfers : Take(r, kind)
            \/ \E r \in Ring : Follow(r)
            \/ UNCHANGED <<dequeue, ccs, taken>>
<1>1. CASE \E r \in Ring : Follow(r) \/ Rest(r) \/ Halt(r)
  BY <1>1 DEF Follow, Rest, Halt, driver, controller, history
<1>2. CASE DoCbw \/ DoCsw \/ \E ok \in BOOLEAN : DoData(ok)
  BY <1>2 DEF DoCbw, DoCsw, DoData, Take, Ring, Transfers, driver
<1>3. CASE \E ok \in BOOLEAN : DoEnable(ok)
  BY <1>3 DEF DoEnable, Take, Ring, Commands, driver
<1>4. CASE \E ok \in BOOLEAN :
             \/ DoCommand("address", "enabled", "addressed", ok)
             \/ DoCommand("configure", "addressed", "configured", ok)
  BY <1>4 DEF DoCommand, Take, Ring, Commands, driver
<1> QED
  BY <1>1, <1>2, <1>3, <1>4 DEF Controller

LEMMA RingNext == RingInv /\ [Next]_vars => RingInv'
<1> SUFFICES ASSUME RingInv, [Next]_vars PROVE Queues'
  BY TypesNext DEF RingInv
<1>1. CASE Driver
  <2>1. TypeOK /\ UNCHANGED <<dequeue, ccs, taken>>
    BY <1>1, DriverRings DEF RingInv
  <2>2. ASSUME NEW r \in Ring, NEW kind \in Commands \cup Transfers, NEW slot \in Nat,
               Put(r, kind, slot)
        PROVE  Queues'
    BY <2>1, <2>2, PutQueues
  <2>3. ASSUME NEW r \in Ring, Clear(r), UNCHANGED <<enqueue, cycle, queued>>
        PROVE  Queues'
    BY <2>1, <2>3, ClearQueues
  <2>4. CASE UNCHANGED <<ring, enqueue, cycle, queued, overrun>>
    BY <2>1, <2>4, SameQueues
  <2> QED
    BY <1>1, <2>1, <2>2, <2>3, <2>4, DriverRings
<1>2. CASE Controller
  <2>1. UNCHANGED <<enqueue, cycle, ring, queued, overrun>>
    BY <1>2, ControllerRings
  <2>2. ASSUME NEW r \in Ring, NEW kind \in Commands \cup Transfers, Take(r, kind)
        PROVE  Queues'
    BY <2>1, <2>2, TakeQueues
  <2>3. ASSUME NEW r \in Ring, Follow(r) PROVE Queues'
    BY <2>3, FollowQueues
  <2>4. CASE UNCHANGED <<dequeue, ccs, taken>>
    BY <2>1, <2>4, SameQueues
  <2> QED
    BY <1>2, <2>2, <2>3, <2>4, ControllerRings
<1>3. CASE UNCHANGED vars
  BY <1>3, SameQueues DEF vars, driver, controller, history
<1> QED
  BY <1>1, <1>2, <1>3 DEF Next

(* The transfer rings are queues: the controller finds every entry that    *)
(* xhci_queue_command and the bulk transfers put into a ring, once and in  *)
(* order, round after round, until one is put where there is no room.      *)
THEOREM RingsStayInOrder == Spec => []InOrder
<1>1. RingInv => InOrder
  BY QueuesInOrder
<1> QED
  BY <1>1, RingInit, RingNext, PTL DEF Spec
-----------------------------------------------------------------------------
(***************************************************************************)
(* OwnAnswer.  The event ring is a queue as well: the cycle bits tell the  *)
(* driver exactly which entries it has not seen.                           *)
(***************************************************************************)
Unread ==
  {i \in Index : IF event_dequeue <= tail THEN event_dequeue <= i /\ i < tail
                                          ELSE event_dequeue <= i \/ i < tail}

(* The entries of the controller's round have its cycle bit, the others    *)
(* that of the round before.                                               *)
Stamped ==
  \A i \in Index : event_ring[i].cycle = IF i < tail THEN tail_cycle ELSE 1 - tail_cycle

(* The driver is in the controller's round, or one behind it.              *)
Lap == IF event_cycle = tail_cycle THEN event_dequeue <= tail ELSE tail < event_dequeue

EventInv == TypeOK /\ Stamped /\ Lap

LEMMA EventRingTypes ==
  ASSUME TypeOK
  PROVE  /\ event_dequeue \in Index /\ tail \in Index
         /\ event_cycle \in {0, 1} /\ tail_cycle \in {0, 1}
         /\ Event.cycle = event_ring[event_dequeue].cycle
  BY DEF TypeOK, PollerOK, PosterOK, Event

LEMMA NextIndex ==
  ASSUME NEW i \in Index
  PROVE  (i + 1) % RingSize = IF i = LinkAt THEN 0 ELSE i + 1
<1> DEFINE k == i + 1
<1>1. k \in 0 .. 2 * RingSize - 1 /\ RingSize \in Nat \ {0}
  BY Sizes
<1>2. k = RingSize <=> i = LinkAt
  BY Sizes
<1>3. k <= RingSize
  BY Sizes
<1> HIDE DEF k
<1>4. k % RingSize = IF k < RingSize THEN k ELSE k - RingSize
  BY <1>1, RemainderOfSmall
<1>5. k % RingSize = IF i = LinkAt THEN 0 ELSE k
  BY <1>1, <1>2, <1>3, <1>4
<1> QED
  BY <1>5 DEF k

LEMMA NewIsUnread ==
  ASSUME EventInv
  PROVE  /\ IsNew <=> event_dequeue \in Unread
         /\ ~IsNew => Unread = {}
<1>1. /\ event_dequeue \in 0 .. LinkAt /\ tail \in 0 .. LinkAt /\ LinkAt \in Nat
      /\ event_cycle \in {0, 1} /\ tail_cycle \in {0, 1}
      /\ Event.cycle = IF event_dequeue < tail THEN tail_cycle ELSE 1 - tail_cycle
  BY EventRingTypes, Sizes DEF EventInv, Stamped
<1>2. IsNew <=> event_dequeue # tail
  BY <1>1 DEF IsNew, EventInv, Lap
<1>3. event_dequeue = tail => Unread = {}
  BY <1>1, Sizes DEF Unread
<1>4. event_dequeue # tail => event_dequeue \in Unread
  BY <1>1, Sizes DEF Unread
<1> QED
  BY <1>2, <1>3, <1>4

LEMMA TakesUnread ==
  ASSUME EventInv, TakeEvent, UNCHANGED <<event_ring, tail, tail_cycle>>
  PROVE  /\ event_dequeue \in Unread /\ Unread' = Unread \ {event_dequeue}
         /\ Stamped' /\ Lap'
<1>1. /\ event_dequeue \in 0 .. LinkAt /\ tail \in 0 .. LinkAt /\ LinkAt \in Nat
      /\ Index = 0 .. LinkAt /\ event_cycle \in {0, 1} /\ tail_cycle \in {0, 1}
  BY EventRingTypes, Sizes DEF EventInv
<1>2. /\ event_dequeue \in Unread
      /\ event_dequeue' = IF event_dequeue = LinkAt THEN 0 ELSE event_dequeue + 1
      /\ event_cycle' = IF event_dequeue' = 0 THEN 1 - event_cycle ELSE event_cycle
  BY <1>1, NewIsUnread, NextIndex DEF TakeEvent
<1>3. event_dequeue # tail
  BY <1>1, <1>2 DEF Unread
<1>4. Unread' = Unread \ {event_dequeue}
  BY <1>1, <1>2, <1>3 DEF Unread
<1>5. Lap'
  BY <1>1, <1>2, <1>3 DEF EventInv, Lap
<1> QED
  BY <1>2, <1>4, <1>5 DEF EventInv, Stamped

LEMMA PostsUnread ==
  ASSUME EventInv, NEW type, NEW r, NEW ok, NEW slot, Post(type, r, ok, slot),
         UNCHANGED <<event_dequeue, event_cycle>>
  PROVE  /\ Unread' = Unread \cup {tail} /\ tail \notin Unread /\ tail \in Index
         /\ \A i \in Index : event_ring'[i] =
              IF i = tail THEN [type |-> type, trb |-> <<r, dequeue[r]>>, ok |-> ok,
                                slot |-> slot, cycle |-> tail_cycle]
              ELSE event_ring[i]
         /\ Stamped' /\ Lap'
<1> DEFINE e == [type |-> type, trb |-> <<r, dequeue[r]>>, ok |-> ok,
                 slot |-> slot, cycle |-> tail_cycle]
<1>1. /\ event_dequeue \in 0 .. LinkAt /\ tail \in 0 .. LinkAt /\ LinkAt \in Nat
      /\ Index = 0 .. LinkAt /\ event_cycle \in {0, 1} /\ tail_cycle \in {0, 1}
      /\ event_ring \in [Index -> EventType]
  BY EventRingTypes, Sizes DEF EventInv, TypeOK, PosterOK
<1>2. /\ tail' = IF tail = LinkAt THEN 0 ELSE tail + 1
      /\ tail' # event_dequeue
      /\ tail_cycle' = IF tail' = 0 THEN 1 - tail_cycle ELSE tail_cycle
  BY <1>1, NextIndex DEF Post
<1>3. \A i \in Index : event_ring'[i] = IF i = tail THEN e ELSE event_ring[i]
  BY <1>1 DEF Post
<1>4. Unread' = Unread \cup {tail} /\ tail \notin Unread
  BY <1>1, <1>2 DEF Unread
<1>5. Lap'
  BY <1>1, <1>2 DEF EventInv, Lap
<1>6. Stamped'
  <2> SUFFICES ASSUME NEW i \in Index
               PROVE  event_ring'[i].cycle = IF i < tail' THEN tail_cycle' ELSE 1 - tail_cycle'
    BY DEF Stamped
  <2>1. event_ring'[i].cycle = IF i <= tail THEN tail_cycle ELSE 1 - tail_cycle
    <3>1. event_ring[i].cycle = IF i < tail THEN tail_cycle ELSE 1 - tail_cycle
      BY DEF EventInv, Stamped
    <3>2. e.cycle = tail_cycle
      OBVIOUS
    <3> HIDE DEF e
    <3> QED
      BY <1>1, <1>3, <3>1, <3>2
  <2> QED
    BY <1>1, <1>2, <2>1
<1> QED
  BY <1>1, <1>3, <1>4, <1>5, <1>6

LEMMA EventInit == Init => EventInv
<1> SUFFICES ASSUME Init PROVE EventInv
  OBVIOUS
<1>1. TypeOK /\ Lap
  BY InitTypes DEF Init, Lap
<1>2. Stamped
  BY Sizes DEF Init, Stamped, NoEvent
<1> QED
  BY <1>1, <1>2 DEF EventInv

LEMMA DriverEvents ==
  ASSUME Driver
  PROVE  TakeEvent \/ UNCHANGED <<event_dequeue, event_cycle>>
<1>1. CASE QueuesEntry
  BY <1>1 DEF QueuesEntry, EnableSlot, AddressDevice, ConfigureEndpoints, QueueCbw, QueueData,
     QueueCsw, Queue
<1>2. CASE Discard \/ CommandAnswered \/ SkipDevice
  BY <1>2 DEF Discard, CommandAnswered, SkipDevice
<1>3. CASE CommandTimesOut \/ TransferTimesOut
  BY <1>3 DEF CommandTimesOut, TransferTimesOut, TimeOut
<1>4. CASE \E ok \in BOOLEAN : FetchDescriptors(ok)
  BY <1>4 DEF FetchDescriptors
<1>5. CASE SetConfiguration \/ FirstRead \/ ReadSector
  BY <1>5 DEF SetConfiguration, FirstRead, ReadSector, Begin
<1>6. CASE TransferFails \/ CswCame \/ CbwSent \/ DataCame
  BY <1>6 DEF TransferFails, CswCame, CbwSent, DataCame, Answered
<1> QED
  BY <1>1, <1>2, <1>3, <1>4, <1>5, <1>6 DEF Driver, QueuesEntry

LEMMA ControllerEvents ==
  ASSUME Controller
  PROVE  \/ \E type \in {"command", "transfer"}, r \in Ring, ok \in BOOLEAN :
              \E slot : Post(type, r, ok, slot)
         \/ UNCHANGED <<event_ring, tail, tail_cycle>>
<1>1. CASE \E r \in Ring : Follow(r) \/ Rest(r) \/ Halt(r)
  BY <1>1 DEF Follow, Rest, Halt, controller
<1>2. CASE DoCbw \/ DoCsw \/ \E ok \in BOOLEAN : DoData(ok)
  BY <1>2 DEF DoCbw, DoCsw, DoData, Ring
<1>3. CASE \E ok \in BOOLEAN : DoEnable(ok)
  BY <1>3 DEF DoEnable, Ring
<1>4. CASE \E ok \in BOOLEAN :
             \/ DoCommand("address", "enabled", "addressed", ok)
             \/ DoCommand("configure", "addressed", "configured", ok)
  BY <1>4 DEF DoCommand, Ring
<1> QED
  BY <1>1, <1>2, <1>3, <1>4 DEF Controller

LEMMA EventNext == EventInv /\ [Next]_vars => EventInv'
<1> SUFFICES ASSUME EventInv, [Next]_vars PROVE Stamped' /\ Lap'
  BY TypesNext DEF EventInv
<1>1. CASE Driver
  <2>1. UNCHANGED <<event_ring, tail, tail_cycle>>
    BY <1>1, DriverRings DEF EventInv
  <2>2. CASE TakeEvent
    BY <2>1, <2>2, TakesUnread
  <2>3. CASE UNCHANGED <<event_dequeue, event_cycle>>
    BY <2>1, <2>3 DEF EventInv, Stamped, Lap
  <2> QED
    BY <1>1, <2>2, <2>3, DriverEvents
<1>2. CASE Controller
  <2>1. UNCHANGED <<event_dequeue, event_cycle>>
    BY <1>2, ControllerRings
  <2>2. ASSUME NEW type, NEW r, NEW ok, NEW slot, Post(type, r, ok, slot)
        PROVE  Stamped' /\ Lap'
    BY <2>1, <2>2, PostsUnread
  <2>3. CASE UNCHANGED <<event_ring, tail, tail_cycle>>
    BY <2>1, <2>3 DEF EventInv, Stamped, Lap
  <2> QED
    BY <1>2, <2>2, <2>3, ControllerEvents
<1>3. CASE UNCHANGED vars
  BY <1>3 DEF EventInv, Stamped, Lap, vars, driver, controller
<1> QED
  BY <1>1, <1>2, <1>3 DEF Next

(***************************************************************************)
(* The slots.  Each one is given to a port once: the answers that still    *)
(* wait while slots are enabled offer slots that no port has, each a       *)
(* different one, so that also a late answer gives the next port a slot of *)
(* its own.  Without a wait that ran out, the one command the driver waits *)
(* for is the only one in its ring, or its answer is the only one to come. *)
(***************************************************************************)
Answers == {i \in Unread : event_ring[i].type = "command"}
Enabling == pc \in {"enable", "enabling"}

SlotsOwned ==
  \A p \in Port :
    /\ ports[p].slot <= Len(slots)
    /\ ports[p].addressed \/ ports[p].configured => ~Enabling /\ ports[p].slot # 0
    /\ \A q \in Port : ports[q].slot = ports[p].slot /\ ports[p].slot # 0 => q = p

Offered ==
  \A i \in Answers :
    /\ event_ring[i].slot <= Len(slots)
    /\ Enabling /\ event_ring[i].slot # 0 =>
         /\ \A p \in Port : ports[p].slot # event_ring[i].slot
         /\ \A j \in Answers : event_ring[j].slot = event_ring[i].slot => j = i

Asked(trb) ==
  /\ trb.kind \in Commands \cup {"none", "link"}
  /\ trb.kind \in {"address", "configure"} => ~Enabling /\ trb.slot \in 1 .. Len(slots)
AllAsked == \A i \in Index : Asked(ring["command"][i])

HasSlot == pc \in {"addressing", "descriptors", "configure", "configuring"} => Slot # 0

Asking == [enabling |-> "enable", addressing |-> "address", configuring |-> "configure"]
Reached == [addressing |-> {"addressed", "configured"}, configuring |-> {"configured"}]

InRing ==
  /\ Waiting("command") = 1 /\ Answers = {}
  /\ Written("command", 1).kind = Asking[pc]
  /\ pc # "enabling" => Written("command", 1).slot = Slot
IsAnswered ==
  /\ Waiting("command") = 0
  /\ \E i \in Index :
       /\ Answers = {i}
       /\ event_ring[i].ok /\ pc # "enabling" => slots[Slot] \in Reached[pc]
OneCommand ==
  /\ "command" \notin overrun
  /\ IF WaitsForCommand THEN InRing \/ IsAnswered
                        ELSE Waiting("command") = 0 /\ Answers = {}

States ==
  \A p \in Port :
    /\ ports[p].addressed => slots[ports[p].slot] \in {"addressed", "configured"}
    /\ ports[p].configured => slots[ports[p].slot] = "configured"

SlotInv ==
  /\ RingInv /\ EventInv
  /\ SlotsOwned /\ Offered /\ AllAsked /\ HasSlot
  /\ ~late => OneCommand /\ States

LEMMA SlotsDone ==
  ASSUME SlotInv
  PROVE  OwnAnswer
<1>1. DOMAIN slots = 1 .. Len(slots) /\ ports \in [Port -> PortType]
  BY LenProperties DEF SlotInv, RingInv, TypeOK, SlotsOK, PortsOK
<1>2. ASSUME NEW p \in Port, ports[p].slot # 0
      PROVE  /\ ports[p].slot \in DOMAIN slots
             /\ \A q \in Port : ports[q].slot = ports[p].slot => q = p
  <2>1. ports[p].slot \in Nat /\ ports[p].slot <= Len(slots)
    BY <1>1 DEF PortType, SlotInv, SlotsOwned
  <2> QED
    BY <1>1, <1>2, <2>1 DEF SlotInv, SlotsOwned
<1>3. ~late => States
  BY DEF SlotInv
<1> QED
  BY <1>2, <1>3 DEF OwnAnswer, States

LEMMA SlotInit == Init => SlotInv
<1> SUFFICES ASSUME Init PROVE SlotInv
  OBVIOUS
<1>1. RingInv /\ EventInv /\ Len(slots) = 0
  BY RingInit, EventInit, EmptySeq DEF Init
<1>2. Unread = {}
  BY Sizes DEF Init, Unread
<1>3. SlotsOwned /\ States
  BY <1>1 DEF Init, SlotsOwned, States
<1>4. Offered
  BY <1>2 DEF Offered, Answers
<1>5. AllAsked
  BY DEF Init, AllAsked, Asked, Cleared, Link, Trb, Ring
<1>6. HasSlot /\ OneCommand
  BY <1>2 DEF Init, HasSlot, OneCommand, WaitsForCommand, Waiting, Answers, Ring
<1> QED
  BY <1>1, <1>3, <1>4, <1>5, <1>6 DEF SlotInv

(* A step that neither touches the command ring nor its answers, and does  *)
(* not change what is known of the slots.                                  *)
SamePorts ==
  /\ Port' = Port
  /\ \A p \in Port : /\ ports'[p].slot = ports[p].slot
                     /\ ports'[p].addressed = ports[p].addressed
                     /\ ports'[p].configured = ports[p].configured
SameAnswers == Answers' = Answers /\ \A i \in Answers : event_ring'[i] = event_ring[i]
SameCommands ==
  /\ ring'["command"] = ring["command"] /\ Waiting("command")' = Waiting("command")
  /\ Written("command", 1)' = Written("command", 1)
  /\ "command" \in overrun' => "command" \in overrun

LEMMA QuietKeeps ==
  ASSUME SlotInv, RingInv', EventInv', UNCHANGED <<slots, late>>,
         SamePorts, SameAnswers, SameCommands,
         \/ pc' = pc /\ port' = port
         \/ ~Enabling /\ ~WaitsForCommand /\ ~Enabling' /\ ~WaitsForCommand' /\ HasSlot'
  PROVE  SlotInv'
<1>1. Port' = Port /\ port \in Port
  BY DEF SamePorts, SlotInv, RingInv, TypeOK, PortsOK
<1>2. Enabling' = Enabling /\ WaitsForCommand' = WaitsForCommand
  BY DEF Enabling, WaitsForCommand
<1>3. SlotsOwned'
  BY <1>1, <1>2 DEF SlotInv, SlotsOwned, SamePorts
<1>4. Offered'
  BY <1>1, <1>2 DEF SlotInv, Offered, SamePorts, SameAnswers
<1>5. AllAsked'
  BY <1>2 DEF SlotInv, AllAsked, Asked, SameCommands
<1>6. pc' = pc /\ port' = port => Slot' = Slot
  BY <1>1 DEF Slot, SamePorts
<1>7. HasSlot'
  BY <1>6 DEF SlotInv, HasSlot
<1>8. States => States'
  BY <1>1 DEF States, SamePorts
<1>9. OneCommand => OneCommand'
  <2> SUFFICES ASSUME OneCommand PROVE OneCommand'
    OBVIOUS
  <2>1. CASE ~WaitsForCommand
    BY <1>2, <2>1 DEF OneCommand, SameAnswers, SameCommands
  <2>2. CASE WaitsForCommand
    <3>1. pc' = pc /\ Slot' = Slot
      BY <1>6, <2>2
    <3>2. CASE InRing
      <4>1. InRing'
        BY <3>1, <3>2 DEF InRing, SameAnswers, SameCommands
      <4> QED
        BY <1>2, <2>2, <4>1 DEF OneCommand, SameCommands
    <3>3. CASE IsAnswered
      <4>1. IsAnswered'
        BY <3>1, <3>3 DEF IsAnswered, SameAnswers, SameCommands
      <4> QED
        BY <1>2, <2>2, <4>1 DEF OneCommand, SameCommands
    <3> QED
      BY <2>2, <3>2, <3>3 DEF OneCommand
  <2> QED
    BY <2>1, <2>2
<1> QED
  BY <1>3, <1>4, <1>5, <1>7, <1>8, <1>9 DEF SlotInv

(* What waits first in a ring stays what it is while nothing but the other *)
(* rings is written or taken from, and while the controller goes past the  *)
(* link.                                                                   *)
SameHead(r) == Waiting(r)' = Waiting(r) /\ Written(r, 1)' = Written(r, 1)

LEMMA HeadStays ==
  ASSUME TypeOK, NEW r \in Ring,
         \/ UNCHANGED <<ring, queued>>
         \/ \E q \in Ring \ {r} : Clear(q) /\ UNCHANGED queued
         \/ \E q \in Ring \ {r} : \E kind, slot : Put(q, kind, slot),
         \/ UNCHANGED <<dequeue, taken>>
         \/ \E q \in Ring \ {r} : \E kind : Take(q, kind)
  PROVE  SameHead(r) /\ ring'[r] = ring[r]
<1>1. /\ ring \in [Ring -> [Index -> TrbType]] /\ queued \in [Ring -> Nat]
      /\ dequeue \in [Ring -> Index] /\ taken \in [Ring -> Nat]
  BY DEF TypeOK, WriterOK, ReaderOK
<1>2. ring'[r] = ring[r] /\ queued'[r] = queued[r]
  BY <1>1 DEF Clear, Put
<1>3. dequeue'[r] = dequeue[r] /\ taken'[r] = taken[r]
  BY <1>1 DEF Take
<1> QED
  BY <1>2, <1>3 DEF SameHead, Waiting, Written

LEMMA FollowStays ==
  ASSUME TypeOK, NEW r \in Ring, NEW q \in Ring, Follow(q)
  PROVE  SameHead(r) /\ UNCHANGED <<ring, overrun>>
<1>1. /\ UNCHANGED <<ring, queued, taken, overrun>> /\ AtHead(q).kind = "link"
      /\ dequeue' = [dequeue EXCEPT ![q] = 0] /\ dequeue \in [Ring -> Index]
  BY DEF Follow, driver, history, TypeOK, ReaderOK
<1>2. CASE r = q
  <2>1. dequeue[q] = LinkAt /\ dequeue'[q] = 0
    BY <1>1 DEF TypeOK, Linked, AtHead
  <2>2. At(0, 1) = At(LinkAt, 1)
    BY Sizes DEF At
  <2> QED
    BY <1>1, <1>2, <2>1, <2>2 DEF SameHead, Written, Waiting
<1>3. CASE r # q
  BY <1>1, <1>3 DEF SameHead, Written, Waiting
<1> QED
  BY <1>1, <1>2, <1>3

(* The other rings are not the command ring.                               *)
LEMMA CommandsStay ==
  ASSUME TypeOK,
         \/ UNCHANGED <<ring, queued, overrun>>
         \/ \E r \in Ring \ {"command"} : Clear(r) /\ UNCHANGED queued
         \/ \E r \in Ring \ {"command"} : \E kind, slot : Put(r, kind, slot),
         \/ UNCHANGED <<dequeue, taken>>
         \/ \E r \in Ring \ {"command"} : \E kind : Take(r, kind)
  PROVE  SameCommands
<1>1. "command" \in overrun' => "command" \in overrun
  BY DEF Clear, Put, Overwrite
<1>2. SameHead("command") /\ ring'["command"] = ring["command"]
  <2>1. "command" \in Ring
    BY DEF Ring
  <2>2. \/ UNCHANGED <<ring, queued>>
        \/ \E q \in Ring \ {"command"} : Clear(q) /\ UNCHANGED queued
        \/ \E q \in Ring \ {"command"} : \E kind, slot : Put(q, kind, slot)
    OBVIOUS
  <2> QED
    BY <2>1, <2>2, HeadStays
<1> QED
  BY <1>1, <1>2 DEF SameCommands, SameHead

LEMMA AnswersStay ==
  ASSUME EventInv,
         \/ UNCHANGED <<event_ring, event_dequeue, tail>>
         \/ /\ TakeEvent /\ ~IsCommand
            /\ UNCHANGED <<event_ring, tail, tail_cycle>>
         \/ \E r, ok, slot : /\ Post("transfer", r, ok, slot)
                             /\ UNCHANGED <<event_dequeue, event_cycle>>
  PROVE  SameAnswers
<1>1. CASE UNCHANGED <<event_ring, event_dequeue, tail>>
  BY <1>1 DEF SameAnswers, Answers, Unread
<1>2. CASE TakeEvent /\ ~IsCommand /\ UNCHANGED <<event_ring, tail, tail_cycle>>
  <2>1. Unread' = Unread \ {event_dequeue} /\ event_dequeue \notin Answers
    BY <1>2, TakesUnread DEF Answers, IsCommand, Event
  <2> QED
    BY <1>2, <2>1 DEF SameAnswers, Answers
<1>3. ASSUME NEW r, NEW ok, NEW slot, Post("transfer", r, ok, slot),
             UNCHANGED <<event_dequeue, event_cycle>>
      PROVE  SameAnswers
  <2> DEFINE e == [type |-> "transfer", trb |-> <<r, dequeue[r]>>, ok |-> ok, slot |-> slot,
                   cycle |-> tail_cycle]
  <2>3. /\ Unread' = Unread \cup {tail} /\ tail \notin Unread /\ tail \in Index
        /\ \A i \in Index : event_ring'[i] = IF i = tail THEN e ELSE event_ring[i]
    BY <1>3, PostsUnread
  <2>4. e.type = "transfer"
    OBVIOUS
  <2> HIDE DEF e
  <2>1. /\ Unread' = Unread \cup {tail} /\ tail \notin Unread /\ tail \in Index
        /\ event_ring'[tail].type = "transfer"
        /\ \A i \in Index : i # tail => event_ring'[i] = event_ring[i]
    BY <2>3, <2>4
  <2>2. Unread \subseteq Index
    BY DEF Unread
  <2> QED
    BY <2>1, <2>2 DEF SameAnswers, Answers
<1> QED
  BY <1>1, <1>2, <1>3

(* The driver's steps that are not about commands.                         *)
QuietDriver ==
  \/ QueueCbw \/ QueueData \/ QueueCsw
  \/ SkipDevice \/ \E ok \in BOOLEAN : FetchDescriptors(ok)
  \/ SetConfiguration \/ FirstRead \/ ReadSector
  \/ TransferTimesOut \/ TransferFails \/ CbwSent \/ DataCame \/ CswCame

QuietPc ==
  \/ pc' = pc /\ port' = port
  \/ ~Enabling /\ ~WaitsForCommand /\ ~Enabling' /\ ~WaitsForCommand' /\ HasSlot'

LEMMA NextDeviceIsQuiet ==
  ASSUME ~Enabling, ~WaitsForCommand, NextDevice
  PROVE  QuietPc
  BY DEF NextDevice, NextPort, QuietPc, Enabling, WaitsForCommand, HasSlot

LEMMA ReturnIsQuiet ==
  ASSUME TypeOK, WaitsForTransfer, NEW b, Return(b), UNCHANGED devices
  PROVE  SamePorts /\ QuietPc
<1>1. ports \in [Port -> PortType] /\ Port' = Port
  BY DEF TypeOK, PortsOK, Port
<1>2. SamePorts
  BY <1>1 DEF Return, SamePorts, PortType
<1>3. ~Enabling /\ ~WaitsForCommand
  BY DEF WaitsForTransfer, Enabling, WaitsForCommand
<1>4. QuietPc
  <2>1. CASE NextDevice
    BY <1>3, <2>1, NextDeviceIsQuiet
  <2>2. CASE pc' \in {"idle", "first_read"}
    BY <1>3, <2>2 DEF QuietPc, Enabling, WaitsForCommand, HasSlot
  <2> QED
    BY <2>1, <2>2 DEF Return
<1> QED
  BY <1>2, <1>4

LEMMA QuietDriverKeeps ==
  ASSUME SlotInv, RingInv', EventInv', QuietDriver
  PROVE  SlotInv'
<1>1. TypeOK /\ EventInv /\ HasSlot
  BY DEF SlotInv, EventInv
<1> SUFFICES UNCHANGED <<slots, late>> /\ SamePorts /\ SameAnswers /\ SameCommands /\ QuietPc
  BY QuietKeeps DEF QuietPc
<1>2. CASE QueueCbw \/ QueueData \/ QueueCsw
  <2>1. PICK at \in {"queue_cbw", "queue_data", "queue_csw"}, r \in Ring \ {"command"}, kind,
             next \in {"cbw", "data", "csw"} : Queue(at, r, kind, 0, next)
    BY <1>2 DEF QueueCbw, QueueData, QueueCsw, Ring
  <2>2. /\ Put(r, kind, 0) /\ pc = at /\ pc' = next
        /\ UNCHANGED <<devices, port, ports, slots, late, dequeue, taken, event_ring, tail,
                       event_dequeue>>
    BY <2>1 DEF Queue, controller
  <2>3. SameCommands
    BY <1>1, <2>2, CommandsStay
  <2>4. SamePorts
    BY <2>2 DEF SamePorts, Port
  <2>5. SameAnswers
    BY <1>1, <2>2, AnswersStay
  <2>6. QuietPc
    BY <2>2 DEF QuietPc, Enabling, WaitsForCommand, HasSlot
  <2> QED
    BY <2>2, <2>3, <2>4, <2>5, <2>6
<1>3. CASE SkipDevice
  <2>1. /\ pc = "address" /\ NextDevice
        /\ UNCHANGED <<devices, ports, slots, late, dequeue, taken, event_ring, tail,
                       event_dequeue, ring, queued, overrun>>
    BY <1>3 DEF SkipDevice, controller, history
  <2>2. SameCommands /\ SameAnswers /\ SamePorts
    BY <1>1, <2>1, CommandsStay, AnswersStay DEF SamePorts, Port
  <2>3. QuietPc
    BY <2>1, NextDeviceIsQuiet DEF Enabling, WaitsForCommand
  <2> QED
    BY <2>1, <2>2, <2>3
<1>4. ASSUME NEW ok \in BOOLEAN, FetchDescriptors(ok)
      PROVE  UNCHANGED <<slots, late>> /\ SamePorts /\ SameAnswers /\ SameCommands /\ QuietPc
  <2>1. /\ pc = "descriptors" /\ (NextDevice \/ (pc' = "configure" /\ port' = port))
        /\ UNCHANGED <<devices, ports, slots, late, dequeue, taken, event_ring, tail,
                       event_dequeue, ring, queued, overrun>>
    BY <1>4 DEF FetchDescriptors, controller, history
  <2>2. SameCommands /\ SameAnswers /\ SamePorts
    BY <1>1, <2>1, CommandsStay, AnswersStay DEF SamePorts, Port
  <2>3. CASE NextDevice
    BY <2>1, <2>2, <2>3, NextDeviceIsQuiet DEF Enabling, WaitsForCommand
  <2>4. CASE pc' = "configure" /\ port' = port
    <3>1. Slot' = Slot /\ Slot # 0
      BY <1>1, <2>1, <2>4 DEF HasSlot, Slot
    <3>2. QuietPc
      BY <2>1, <2>4, <3>1 DEF QuietPc, Enabling, WaitsForCommand, HasSlot
    <3> QED
      BY <2>1, <2>2, <3>2
  <2> QED
    BY <2>1, <2>3, <2>4
<1>5. CASE SetConfiguration \/ FirstRead \/ ReadSector
  <2>1. PICK at \in {"set_configuration", "first_read", "idle"} : Begin(at)
    BY <1>5 DEF SetConfiguration, FirstRead, ReadSector
  <2>2. /\ pc = at /\ pc' = "queue_cbw" /\ Clear("out")
        /\ UNCHANGED <<devices, port, ports, slots, late, dequeue, taken, event_ring, tail,
                       event_dequeue, queued>>
    BY <2>1 DEF Begin, controller
  <2>3. SameCommands /\ SameAnswers /\ SamePorts
    BY <1>1, <2>2, CommandsStay, AnswersStay DEF SamePorts, Port, Ring
  <2>4. QuietPc
    BY <2>2 DEF QuietPc, Enabling, WaitsForCommand, HasSlot
  <2> QED
    BY <2>2, <2>3, <2>4
<1>6. CASE TransferTimesOut
  <2>1. /\ WaitsForTransfer /\ Return(FALSE)
        /\ UNCHANGED <<devices, slots, late, dequeue, taken, event_ring, tail, event_dequeue,
                       ring, queued, overrun>>
    BY <1>6 DEF TransferTimesOut, TimeOut, controller
  <2>2. SameCommands /\ SameAnswers
    BY <1>1, <2>1, CommandsStay, AnswersStay
  <2> QED
    BY <1>1, <2>1, <2>2, ReturnIsQuiet
<1>7. CASE TransferFails \/ CbwSent \/ DataCame \/ CswCame
  <2>1. PICK at \in {"cbw", "data", "csw"} : Answered(at)
    BY <1>7 DEF TransferFails, CbwSent, DataCame, CswCame
  <2>2. /\ pc = at /\ WaitsForTransfer /\ TakeEvent /\ ~IsCommand
        /\ UNCHANGED <<devices, slots, late, dequeue, taken, event_ring, tail, tail_cycle, queued>>
    BY <2>1 DEF Answered, controller, WaitsForTransfer, IsTarget, IsCommand
  <2>3. SameAnswers
    BY <1>1, <2>2, AnswersStay
  <2>4. CASE CbwSent \/ DataCame
    <3>1. Clear("in") /\ pc' \in {"queue_data", "queue_csw"} /\ UNCHANGED <<port, ports>>
      BY <2>4 DEF CbwSent, DataCame
    <3>2. SameCommands /\ SamePorts
      BY <1>1, <2>2, <3>1, CommandsStay DEF SamePorts, Port, Ring
    <3>3. QuietPc
      BY <2>2, <3>1 DEF QuietPc, Enabling, WaitsForCommand, HasSlot
    <3> QED
      BY <2>2, <2>3, <3>2, <3>3
  <2>5. CASE TransferFails \/ CswCame
    <3>1. (\E b : Return(b)) /\ UNCHANGED <<ring, overrun>>
      BY <2>5 DEF TransferFails, CswCame
    <3>2. SameCommands
      BY <1>1, <2>2, <3>1, CommandsStay
    <3> QED
      BY <1>1, <2>2, <2>3, <3>1, <3>2, ReturnIsQuiet
  <2> QED
    BY <1>7, <2>4, <2>5
<1> QED
  BY <1>2, <1>3, <1>4, <1>5, <1>6, <1>7 DEF QuietDriver

(* The controller's steps that are not about commands.                     *)
QuietController ==
  \/ \E r \in Ring : Follow(r) \/ Rest(r) \/ Halt(r)
  \/ DoCbw \/ DoCsw \/ \E ok \in BOOLEAN : DoData(ok)

LEMMA QuietControllerKeeps ==
  ASSUME SlotInv, RingInv', EventInv', QuietController
  PROVE  SlotInv'
<1>1. TypeOK /\ EventInv
  BY DEF SlotInv, EventInv
<1>2. UNCHANGED <<devices, pc, port, ports, event_dequeue, event_cycle, ring, queued, overrun,
                  late, slots>>
  BY DEF QuietController, Follow, Rest, Halt, DoCbw, DoCsw, DoData, Take, driver, controller,
     history
<1>3. SamePorts
  BY <1>2 DEF SamePorts, Port
<1>4. SameAnswers
  <2>1. CASE \E r \in Ring : Follow(r) \/ Rest(r)
    BY <1>1, <2>1, AnswersStay DEF Follow, Rest, driver, controller
  <2>2. CASE \E r, ok, slot : Post("transfer", r, ok, slot)
    BY <1>1, <1>2, <2>2, AnswersStay
  <2> QED
    BY <2>1, <2>2 DEF QuietController, Halt, DoCbw, DoCsw, DoData
<1>5. SameCommands
  <2>1. CASE \E r \in Ring : Follow(r)
    <3>1. "command" \in Ring
      BY DEF Ring
    <3> QED
      BY <1>1, <2>1, <3>1, FollowStays DEF SameCommands, SameHead
  <2>2. CASE DoCbw \/ DoCsw \/ \E ok \in BOOLEAN : DoData(ok)
    <3>1. \E r \in Ring \ {"command"} : \E kind : Take(r, kind)
      BY <2>2 DEF DoCbw, DoCsw, DoData, Ring
    <3> QED
      BY <1>1, <1>2, <3>1, CommandsStay
  <2>3. CASE \E r \in Ring : Rest(r) \/ Halt(r)
    <3>1. UNCHANGED <<dequeue, taken>>
      BY <2>3 DEF Rest, Halt, controller, history
    <3> QED
      BY <1>1, <1>2, <3>1, CommandsStay
  <2> QED
    BY <2>1, <2>2, <2>3 DEF QuietController
<1> QED
  BY <1>2, <1>3, <1>4, <1>5, QuietKeeps

(* A command goes into a ring that was empty, unless a wait ran out.       *)
LEMMA PutWrites ==
  ASSUME RingInv, NEW r \in Ring \ overrun, NEW kind, NEW slot, Put(r, kind, slot),
         UNCHANGED <<dequeue, taken>>, Waiting(r) = 0
  PROVE  /\ Waiting(r)' = 1 /\ r \notin overrun'
         /\ Written(r, 1)' = Trb(kind, slot, queued[r] + 1, cycle[r])
<1>1. /\ ring \in [Ring -> [Index -> TrbType]] /\ enqueue[r] \in Place /\ LinkAt \in Index
      /\ queued \in [Ring -> Nat] /\ taken \in [Ring -> Nat] /\ Place \subseteq Index
  BY Sizes DEF RingInv, TypeOK, WriterOK, ReaderOK
<1>2. At(dequeue[r], 1) = enqueue[r]
  BY EndIsNext DEF RingInv, Queues, IsQueue
<1>3. enqueue[r] # LinkAt
  BY <1>1, Sizes DEF Place
<1>4. ring'[r][enqueue[r]] = Trb(kind, slot, queued[r] + 1, cycle[r])
  BY <1>1, <1>3 DEF Put, LinkAt
<1>5. r \notin overrun'
  BY Sizes DEF Put, Overwrite, Room
<1>6. Waiting(r)' = 1
  <2>1. /\ queued'[r] = queued[r] + 1 /\ taken'[r] = taken[r]
        /\ queued[r] \in Nat /\ taken[r] \in Nat
    BY <1>1 DEF Put
  <2>2. queued[r] - taken[r] = 0
    BY DEF Waiting
  <2>3. queued[r] + 1 - taken[r] = 1
    BY <2>1, <2>2
  <2> QED
    BY <2>1, <2>3 DEF Waiting
<1> QED
  BY <1>2, <1>4, <1>5, <1>6 DEF Written

LEMMA QueueCommandKeeps ==
  ASSUME SlotInv, RingInv', EventInv', EnableSlot \/ AddressDevice \/ ConfigureEndpoints
  PROVE  SlotInv'
<1>1. TypeOK /\ RingInv /\ EventInv /\ HasSlot /\ Slot \in Nat
  BY SlotIsNat DEF SlotInv, EventInv, TypeOK
<1>2. PICK to \in {"enabling", "addressing", "configuring"}, slot \in {0, Slot} :
        /\ Put("command", Asking[to], slot) /\ pc' = to
        /\ ~WaitsForCommand /\ (Enabling <=> to = "enabling")
        /\ to # "enabling" => slot = Slot /\ Slot # 0
        /\ UNCHANGED <<devices, port, ports, slots, late, dequeue, taken, event_ring, tail,
                       event_dequeue>>
  <2>1. CASE EnableSlot
    BY <2>1 DEF EnableSlot, Queue, controller, Asking, WaitsForCommand, Enabling
  <2>2. CASE AddressDevice
    BY <2>2 DEF AddressDevice, Queue, controller, Asking, WaitsForCommand, Enabling
  <2>3. CASE ConfigureEndpoints
    BY <1>1, <2>3 DEF ConfigureEndpoints, Queue, controller, Asking, WaitsForCommand, Enabling,
       HasSlot
  <2> QED
    BY <2>1, <2>2, <2>3
<1>3. Port' = Port /\ port \in Port /\ Slot' = Slot /\ Enabling' = Enabling /\ WaitsForCommand'
  BY <1>1, <1>2 DEF Port, TypeOK, PortsOK, Slot, Enabling, WaitsForCommand
<1>4. Answers' = Answers /\ event_ring' = event_ring
  BY <1>2 DEF Answers, Unread
<1>5. SlotsOwned' /\ Offered' /\ HasSlot'
  <2>1. SlotsOwned'
    BY <1>2, <1>3 DEF SlotInv, SlotsOwned
  <2>2. Offered'
    BY <1>2, <1>3, <1>4 DEF SlotInv, Offered
  <2>3. HasSlot'
    BY <1>2, <1>3 DEF HasSlot
  <2> QED
    BY <2>1, <2>2, <2>3
<1>6. AllAsked'
  <2> DEFINE new == Trb(Asking[to], slot, queued["command"] + 1, cycle["command"])
  <2>1. \A i \in Index : ring'["command"][i] \in {ring["command"][i], new, Link(cycle["command"])}
    BY <1>1, <1>2 DEF TypeOK, WriterOK, Put, Ring
  <2>2. Slot \in Nat /\ Slot <= Len(slots) /\ Len(slots) \in Nat
    BY <1>1, <1>3, LenProperties DEF SlotInv, SlotsOwned, Slot, TypeOK, SlotsOK
  <2>3. new.kind = Asking[to] /\ new.slot = slot /\ Asking[to] \in Commands
    BY DEF Trb, Asking, Commands
  <2>4. Asking[to] # "enable" => ~Enabling /\ slot \in 1 .. Len(slots)
    BY <1>2, <2>2 DEF Asking
  <2>5. Link(cycle["command"]).kind = "link"
    BY DEF Link, Trb
  <2> HIDE DEF new
  <2>6. Asked(new) /\ Asked(Link(cycle["command"]))
    BY <2>3, <2>4, <2>5 DEF Asked, Commands
  <2>7. \A i \in Index : Asked(ring'["command"][i])
    BY <2>1, <2>6 DEF SlotInv, AllAsked
  <2> QED
    BY <1>2, <1>3, <2>7 DEF AllAsked, Asked
<1>7. ~late => OneCommand'
  <2> SUFFICES ASSUME ~late PROVE OneCommand'
    OBVIOUS
  <2>1. "command" \notin overrun /\ Waiting("command") = 0 /\ Answers = {}
    BY <1>2 DEF SlotInv, OneCommand
  <2>2. /\ Waiting("command")' = 1 /\ "command" \notin overrun'
        /\ Written("command", 1)' = Trb(Asking[to], slot, queued["command"] + 1, cycle["command"])
    BY <1>1, <1>2, <2>1, PutWrites DEF Ring
  <2>3. Written("command", 1)'.kind = Asking[to] /\ Written("command", 1)'.slot = slot
    BY <2>2 DEF Trb
  <2>4. InRing'
    BY <1>2, <1>3, <1>4, <2>1, <2>2, <2>3 DEF InRing
  <2> QED
    BY <1>3, <2>2, <2>4 DEF OneCommand
<1>8. ~late => States'
  BY <1>2, <1>3 DEF SlotInv, States
<1> QED
  BY <1>2, <1>5, <1>6, <1>7, <1>8 DEF SlotInv

(* The end of a wait for a command.  A slot it brings belongs to no port.  *)
LEMMA CommandEndsKeeps ==
  ASSUME SlotInv, NEW ok \in BOOLEAN, NEW slot \in Nat, CommandEnds(ok, slot), WaitsForCommand,
         UNCHANGED <<devices, slots>>,
         pc = "enabling" /\ ok =>
           slot <= Len(slots) /\ (slot # 0 => \A p \in Port : ports[p].slot # slot)
  PROVE  /\ SlotsOwned' /\ HasSlot' /\ ~WaitsForCommand' /\ (Enabling' => Enabling)
         /\ \A p \in Port :
              \/ ports'[p].slot = ports[p].slot
              \/ pc = "enabling" /\ ok /\ ports'[p].slot = slot
         /\ \A p \in Port :
              /\ ports'[p].addressed =>
                   /\ ports'[p].slot = ports[p].slot
                   /\ ports[p].addressed \/ (p = port /\ pc = "addressing" /\ ok)
              /\ ports'[p].configured =>
                   /\ ports'[p].slot = ports[p].slot
                   /\ ports[p].configured \/ (p = port /\ pc = "configuring" /\ ok)
<1>1. /\ ports \in [Port -> PortType] /\ port \in Port /\ Port' = Port
      /\ SlotsOwned /\ HasSlot
  BY DEF SlotInv, RingInv, TypeOK, PortsOK, Port
<1>2. CASE pc = "enabling"
  <2>1. /\ ports' = IF ok THEN [ports EXCEPT ![port].slot = slot] ELSE ports
        /\ pc' \in {"enable", "address"}
    BY <1>2 DEF CommandEnds, NextPort
  <2>2. \A p \in Port :
          /\ ports'[p].slot = IF ok /\ p = port THEN slot ELSE ports[p].slot
          /\ ports'[p].addressed = ports[p].addressed
          /\ ports'[p].configured = ports[p].configured
    BY <1>1, <2>1 DEF PortType
  <2>3. \A p \in Port : ~ports[p].addressed /\ ~ports[p].configured
    BY <1>1, <1>2 DEF SlotsOwned, Enabling
  <2>4. SlotsOwned'
    BY <1>1, <1>2, <2>2, <2>3 DEF SlotsOwned
  <2> QED
    BY <1>2, <2>1, <2>2, <2>3, <2>4 DEF HasSlot, WaitsForCommand, Enabling
<1>3. CASE pc = "addressing"
  <2>1. /\ ports' = [ports EXCEPT ![port].addressed = ok]
        /\ pc' \in {"address", "idle"} \/ (pc' = "descriptors" /\ port' = port)
    BY <1>3 DEF CommandEnds, NextDevice, NextPort
  <2>2. \A p \in Port :
          /\ ports'[p].slot = ports[p].slot
          /\ ports'[p].addressed = IF p = port THEN ok ELSE ports[p].addressed
          /\ ports'[p].configured = ports[p].configured
    BY <1>1, <2>1 DEF PortType
  <2>3. ports[port].slot # 0
    BY <1>1, <1>3 DEF HasSlot, Slot
  <2>4. ~Enabling /\ ~Enabling' /\ ~WaitsForCommand'
    BY <1>3, <2>1 DEF Enabling, WaitsForCommand
  <2>5. SlotsOwned'
    BY <1>1, <2>2, <2>3, <2>4 DEF SlotsOwned
  <2>6. HasSlot'
    BY <1>1, <2>1, <2>2, <2>3 DEF HasSlot, Slot
  <2> QED
    BY <1>3, <2>2, <2>4, <2>5, <2>6
<1>4. CASE pc = "configuring"
  <2>1. /\ ports' = [ports EXCEPT ![port].configured = ok]
        /\ pc' \in {"address", "idle", "set_configuration"}
    BY <1>4 DEF CommandEnds, NextDevice, NextPort
  <2>2. \A p \in Port :
          /\ ports'[p].slot = ports[p].slot
          /\ ports'[p].addressed = ports[p].addressed
          /\ ports'[p].configured = IF p = port THEN ok ELSE ports[p].configured
    BY <1>1, <2>1 DEF PortType
  <2>3. ports[port].slot # 0
    BY <1>1, <1>4 DEF HasSlot, Slot
  <2>4. ~Enabling /\ ~Enabling' /\ ~WaitsForCommand' /\ HasSlot'
    BY <1>4, <2>1 DEF Enabling, WaitsForCommand, HasSlot
  <2>5. SlotsOwned'
    BY <1>1, <2>2, <2>3, <2>4 DEF SlotsOwned
  <2> QED
    BY <1>4, <2>2, <2>4, <2>5
<1> QED
  BY <1>2, <1>3, <1>4 DEF WaitsForCommand

(* An answer is taken, or none comes.                                      *)
LEMMA CommandEndKeeps ==
  ASSUME SlotInv, RingInv', EventInv', CommandAnswered \/ CommandTimesOut
  PROVE  SlotInv'
<1>1. /\ TypeOK /\ EventInv /\ ports \in [Port -> PortType] /\ port \in Port
      /\ event_ring \in [Index -> EventType] /\ event_dequeue \in Index
  BY DEF SlotInv, EventInv, TypeOK, PortsOK, PosterOK, PollerOK
<1>2. /\ WaitsForCommand
      /\ UNCHANGED <<devices, ring, slots, event_ring, tail, tail_cycle, queued, taken, overrun,
                     dequeue>>
  BY DEF CommandAnswered, CommandTimesOut, TimeOut, controller, history
<1>3. Port' = Port /\ ((Enabling' => Enabling) => AllAsked')
  BY <1>2 DEF SlotInv, AllAsked, Asked, Port
<1>4. CASE CommandAnswered
  <2> DEFINE e == event_dequeue
  <2>1. /\ TakeEvent /\ IsCommand /\ late' = late /\ CommandEnds(event_ring[e].ok, event_ring[e].slot)
    BY <1>4 DEF CommandAnswered, Event, history
  <2>2. e \in Unread /\ Unread' = Unread \ {e}
    BY <1>1, <1>2, <2>1, TakesUnread
  <2>3. e \in Answers /\ Answers' = Answers \ {e}
    BY <1>2, <2>1, <2>2 DEF Answers, IsCommand, Event
  <2>4. event_ring[e].ok \in BOOLEAN /\ event_ring[e].slot \in Nat
    BY <1>1 DEF EventType
  <2>5. pc = "enabling" =>
          /\ event_ring[e].slot <= Len(slots)
          /\ event_ring[e].slot # 0 => \A p \in Port : ports[p].slot # event_ring[e].slot
    BY <2>3 DEF SlotInv, Offered, Enabling
  <2>6. /\ SlotsOwned' /\ HasSlot' /\ ~WaitsForCommand' /\ (Enabling' => Enabling)
        /\ \A p \in Port :
             \/ ports'[p].slot = ports[p].slot
             \/ pc = "enabling" /\ event_ring[e].ok /\ ports'[p].slot = event_ring[e].slot
        /\ \A p \in Port :
             /\ ports'[p].addressed =>
                  /\ ports'[p].slot = ports[p].slot
                  /\ ports[p].addressed \/ (p = port /\ pc = "addressing" /\ event_ring[e].ok)
             /\ ports'[p].configured =>
                  /\ ports'[p].slot = ports[p].slot
                  /\ ports[p].configured \/ (p = port /\ pc = "configuring" /\ event_ring[e].ok)
    BY <1>2, <2>1, <2>4, <2>5, CommandEndsKeeps
  <2>7. Offered'
    <3> SUFFICES ASSUME NEW i \in Answers, i # e
                 PROVE  /\ event_ring[i].slot <= Len(slots)
                        /\ Enabling' /\ event_ring[i].slot # 0 =>
                             /\ \A p \in Port : ports'[p].slot # event_ring[i].slot
                             /\ \A j \in Answers : event_ring[j].slot = event_ring[i].slot => j = i
      BY <1>2, <1>3, <2>3 DEF Offered
    <3> QED
      BY <2>3, <2>6 DEF SlotInv, Offered
  <2>8. ~late => OneCommand' /\ States'
    <3> SUFFICES ASSUME ~late PROVE OneCommand' /\ States'
      OBVIOUS
    <3>1. IsAnswered /\ "command" \notin overrun
      BY <1>2, <2>3 DEF SlotInv, OneCommand, InRing
    <3>2. /\ Answers = {e} /\ Waiting("command") = 0
          /\ event_ring[e].ok /\ pc # "enabling" => slots[Slot] \in Reached[pc]
      BY <2>3, <3>1 DEF IsAnswered
    <3>3. OneCommand'
      <4>1. Answers' = {} /\ Waiting("command")' = 0
        BY <1>2, <2>3, <3>2 DEF Waiting
      <4> QED
        BY <1>2, <2>6, <3>1, <4>1 DEF OneCommand
    <3>4. States'
      BY <1>2, <1>3, <2>6, <3>2 DEF SlotInv, States, Reached, Slot
    <3> QED
      BY <3>3, <3>4
  <2> QED
    BY <1>3, <2>1, <2>6, <2>7, <2>8 DEF SlotInv
<1>5. CASE CommandTimesOut
  <2>1. late' = TRUE /\ CommandEnds(FALSE, 0) /\ UNCHANGED event_dequeue
    BY <1>5 DEF CommandTimesOut, TimeOut
  <2>2. /\ SlotsOwned' /\ HasSlot' /\ (Enabling' => Enabling)
        /\ \A p \in Port : ports'[p].slot = ports[p].slot
    BY <1>2, <2>1, CommandEndsKeeps
  <2>3. Answers' = Answers
    BY <1>2, <2>1 DEF Answers, Unread
  <2>4. Offered'
    BY <1>2, <1>3, <2>2, <2>3 DEF SlotInv, Offered
  <2> QED
    BY <1>3, <2>1, <2>2, <2>4 DEF SlotInv
<1> QED
  BY <1>4, <1>5

LEMMA DiscardKeeps ==
  ASSUME SlotInv, RingInv', EventInv', Discard
  PROVE  SlotInv'
<1>1. /\ TypeOK /\ EventInv /\ TakeEvent
      /\ UNCHANGED <<devices, pc, port, ports, ring, slots, event_ring, tail, tail_cycle, queued,
                     taken, overrun, dequeue, late>>
  BY DEF Discard, SlotInv, EventInv, controller, history
<1>2. CASE ~IsCommand
  <2>1. SameCommands /\ SameAnswers /\ SamePorts
    BY <1>1, <1>2, CommandsStay, AnswersStay DEF SamePorts, Port
  <2> QED
    BY <1>1, <2>1, QuietKeeps
<1>3. CASE IsCommand
  <2>1. event_dequeue \in Unread /\ Unread' \subseteq Unread
    BY <1>1, TakesUnread
  <2>2. event_dequeue \in Answers /\ Answers' \subseteq Answers
    BY <1>1, <1>3, <2>1 DEF Answers, IsCommand, Event
  <2>3. late
    BY <1>3, <2>2 DEF Discard, IsAnswer, SlotInv, OneCommand
  <2>4. Port' = Port /\ Slot' = Slot /\ Enabling' = Enabling
    BY <1>1 DEF Port, Slot, Enabling
  <2>5. SlotsOwned' /\ AllAsked' /\ HasSlot'
    BY <1>1, <2>4 DEF SlotInv, SlotsOwned, AllAsked, Asked, HasSlot
  <2>6. Offered'
    BY <1>1, <2>2, <2>4 DEF SlotInv, Offered
  <2> QED
    BY <1>1, <2>3, <2>5, <2>6 DEF SlotInv
<1> QED
  BY <1>2, <1>3

(* The controller answers a command.  Unless a wait ran out, it is the one *)
(* the driver waits for.                                                   *)
LEMMA CommandTaken ==
  ASSUME SlotInv, NEW kind \in Commands, Take("command", kind), NEW ok \in BOOLEAN,
         NEW slot \in Nat, Post("command", "command", ok, slot)
  PROVE  /\ tail \in Index /\ tail \notin Answers /\ Answers' = Answers \cup {tail}
         /\ event_ring'[tail].ok = ok /\ event_ring'[tail].slot = slot
         /\ \A i \in Answers : event_ring'[i] = event_ring[i]
         /\ UNCHANGED <<devices, pc, port, ports, ring, overrun, late>>
         /\ AtHead("command").kind = kind /\ Asked(AtHead("command"))
         /\ ~late => /\ WaitsForCommand /\ Answers = {} /\ Waiting("command")' = 0
                     /\ "command" \notin overrun
                     /\ Asking[pc] = kind
                     /\ pc # "enabling" => AtHead("command").slot = Slot
<1>1. /\ EventInv /\ TypeOK /\ "command" \in Ring /\ dequeue["command"] \in Index
      /\ taken \in [Ring -> Nat] /\ queued \in [Ring -> Nat]
  BY DEF SlotInv, EventInv, TypeOK, ReaderOK, WriterOK, Ring
<1>2. /\ UNCHANGED <<devices, pc, port, ports, ring, overrun, late, event_dequeue, event_cycle,
                     queued>>
      /\ AtHead("command").kind = kind /\ Owns("command")
      /\ taken' = [taken EXCEPT !["command"] = @ + 1]
  BY DEF Take, driver
<1>3. /\ tail \in Index /\ tail \notin Answers /\ Answers' = Answers \cup {tail}
      /\ event_ring'[tail].ok = ok /\ event_ring'[tail].slot = slot
      /\ \A i \in Answers : event_ring'[i] = event_ring[i]
  <2> DEFINE e == [type |-> "command", trb |-> <<"command", dequeue["command"]>>, ok |-> ok,
                   slot |-> slot, cycle |-> tail_cycle]
  <2>1. /\ Unread' = Unread \cup {tail} /\ tail \notin Unread /\ tail \in Index
        /\ \A i \in Index : event_ring'[i] = IF i = tail THEN e ELSE event_ring[i]
    BY <1>1, <1>2, PostsUnread
  <2>2. e.type = "command" /\ e.ok = ok /\ e.slot = slot
    OBVIOUS
  <2> HIDE DEF e
  <2>3. Unread \subseteq Index
    BY DEF Unread
  <2> QED
    BY <2>1, <2>2, <2>3 DEF Answers
<1>4. Asked(AtHead("command"))
  BY <1>1 DEF SlotInv, AllAsked, AtHead
<1>5. ASSUME ~late
      PROVE  /\ WaitsForCommand /\ Answers = {} /\ Waiting("command")' = 0
             /\ "command" \notin overrun
             /\ Asking[pc] = kind
             /\ pc # "enabling" => AtHead("command").slot = Slot
  <2>1. OneCommand /\ "command" \notin overrun /\ RingInv
    BY <1>5 DEF SlotInv, OneCommand
  <2>2. Waiting("command") # 0 /\ AtHead("command") = Written("command", 1)
    <3>1. AtHead("command").kind \notin {"none", "link"}
      BY <1>2 DEF Commands
    <3>2. Waiting("command") \in 1 .. LinkAt /\ AtHead("command") = Written("command", 1)
      BY <1>1, <1>2, <2>1, <3>1, TakenWaited DEF RingInv, Queues
    <3> QED
      BY <3>2, Sizes
  <2>3. WaitsForCommand /\ InRing
    BY <2>1, <2>2 DEF OneCommand, IsAnswered
  <2>4. Waiting("command")' = 0
    <3>1. queued'["command"] = queued["command"] /\ taken'["command"] = taken["command"] + 1
      BY <1>1, <1>2
    <3>2. queued["command"] - taken["command"] = 1
      BY <2>3 DEF InRing, Waiting
    <3>3. queued["command"] \in Nat /\ taken["command"] \in Nat
      BY <1>1
    <3>4. queued["command"] - (taken["command"] + 1) = 0
      BY <3>2, <3>3
    <3> QED
      BY <3>1, <3>4 DEF Waiting
  <2> QED
    BY <1>2, <2>1, <2>2, <2>3, <2>4 DEF InRing
<1> QED
  BY <1>2, <1>3, <1>4, <1>5

LEMMA EnableKeeps ==
  ASSUME SlotInv, RingInv', EventInv', NEW ok \in BOOLEAN, DoEnable(ok)
  PROVE  SlotInv'
<1> DEFINE slot == IF ok THEN Len(slots') ELSE 0
           len == Len(slots)
<1>1. /\ Take("command", "enable") /\ Post("command", "command", ok, slot)
      /\ slots' = IF ok THEN Append(slots, "enabled") ELSE slots
  BY DEF DoEnable
<1>2. /\ len \in Nat /\ Len(slots') = IF ok THEN len + 1 ELSE len
      /\ \A i \in 1 .. len : slots'[i] = slots[i]
  BY <1>1, EnableSlots DEF SlotInv, RingInv, TypeOK
<1>3. slot \in Nat /\ slot <= Len(slots') /\ (slot # 0 => slot > len) /\ len <= Len(slots')
  BY <1>2
<1> HIDE DEF slot
<1>4. /\ tail \in Index /\ tail \notin Answers /\ Answers' = Answers \cup {tail}
      /\ event_ring'[tail].ok = ok /\ event_ring'[tail].slot = slot
      /\ \A i \in Answers : event_ring'[i] = event_ring[i]
      /\ UNCHANGED <<devices, pc, port, ports, ring, overrun, late>>
      /\ ~late => /\ WaitsForCommand /\ Answers = {} /\ Waiting("command")' = 0
                  /\ "command" \notin overrun
                  /\ Asking[pc] = "enable"
  <2>1. "enable" \in Commands
    BY DEF Commands
  <2> QED
    BY <1>1, <1>3, <2>1, CommandTaken
<1>5. /\ Port' = Port /\ Slot' = Slot /\ Enabling' = Enabling /\ WaitsForCommand' = WaitsForCommand
      /\ \A p \in Port : ports[p].slot \in Nat /\ ports[p].slot <= len
      /\ \A i \in Answers : event_ring[i].slot \in Nat /\ event_ring[i].slot <= len
      /\ Len(slots') \in Nat
  <2>1. ports \in [Port -> PortType] /\ event_ring \in [Index -> EventType]
    BY DEF SlotInv, RingInv, TypeOK, PortsOK, PosterOK
  <2>2. \A p \in Port : ports[p].slot \in Nat
    BY <2>1 DEF PortType
  <2>3. \A i \in Answers : event_ring[i].slot \in Nat
    BY <2>1 DEF EventType, Answers, Unread
  <2> QED
    BY <1>2, <1>4, <2>2, <2>3 DEF Port, Slot, Enabling, WaitsForCommand, SlotInv, SlotsOwned, Offered
<1>6. SlotsOwned'
  <2>1. \A p \in Port : ports[p].slot <= Len(slots')
    BY <1>2, <1>3, <1>5
  <2> QED
    BY <1>4, <1>5, <2>1 DEF SlotInv, SlotsOwned
<1>7. Offered'
  <2> SUFFICES ASSUME NEW i \in Answers \cup {tail}
               PROVE  /\ event_ring'[i].slot <= Len(slots')
                      /\ Enabling /\ event_ring'[i].slot # 0 =>
                           /\ \A p \in Port : ports[p].slot # event_ring'[i].slot
                           /\ \A j \in Answers \cup {tail} :
                                event_ring'[j].slot = event_ring'[i].slot => j = i
    BY <1>4, <1>5 DEF Offered
  <2>1. CASE i = tail
    BY <1>2, <1>3, <1>4, <1>5, <2>1
  <2>2. CASE i \in Answers
    <3>1. event_ring'[i] = event_ring[i] /\ event_ring[i].slot <= Len(slots')
      BY <1>2, <1>3, <1>4, <1>5, <2>2
    <3>2. event_ring[i].slot # 0 => event_ring'[tail].slot # event_ring[i].slot
      BY <1>2, <1>3, <1>4, <1>5, <2>2
    <3> QED
      BY <1>4, <2>2, <3>1, <3>2 DEF SlotInv, Offered
  <2> QED
    BY <2>1, <2>2
<1>8. AllAsked'
  <2>1. \A k \in 1 .. len : k \in 1 .. Len(slots')
    BY <1>2, <1>3, <1>5
  <2> QED
    BY <1>4, <1>5, <2>1 DEF SlotInv, AllAsked, Asked
<1>9. HasSlot'
  BY <1>4, <1>5 DEF SlotInv, HasSlot
<1>10. ASSUME ~late PROVE OneCommand' /\ States'
  <2>1. pc = "enabling"
    BY <1>4, <1>10 DEF WaitsForCommand, Asking
  <2>2. IsAnswered'
    BY <1>4, <1>10, <2>1 DEF IsAnswered
  <2>3. OneCommand'
    BY <1>4, <1>5, <1>10, <2>2 DEF OneCommand
  <2>4. States'
    <3>1. \A p \in Port : ~ports[p].addressed /\ ~ports[p].configured
      BY <2>1 DEF SlotInv, SlotsOwned, Enabling
    <3> QED
      BY <1>4, <1>5, <3>1 DEF States
  <2> QED
    BY <2>3, <2>4
<1> QED
  BY <1>4, <1>6, <1>7, <1>8, <1>9, <1>10 DEF SlotInv

LEMMA CommandKeeps ==
  ASSUME SlotInv, RingInv', EventInv', NEW ok \in BOOLEAN,
         NEW kind \in {"address", "configure"}, NEW from \in SlotState, NEW to \in SlotState,
         kind = "address" => from = "enabled" /\ to = "addressed",
         kind = "configure" => from = "addressed" /\ to = "configured",
         DoCommand(kind, from, to, ok)
  PROVE  SlotInv'
<1> DEFINE slot == AtHead("command").slot
<1>1. /\ Take("command", kind) /\ Post("command", "command", ok, slot)
      /\ slots' = [slots EXCEPT ![slot] = IF ok THEN to ELSE @]
      /\ ok => slots[slot] = from
  BY DEF DoCommand
<1>2. /\ Len(slots) \in Nat /\ Len(slots') = Len(slots)
      /\ \A i \in 1 .. Len(slots) : slots'[i] = IF ok /\ i = slot THEN to ELSE slots[i]
  BY <1>1, CommandSlots DEF SlotInv, RingInv, TypeOK
<1>3. slot \in Nat /\ kind \in Commands
  BY HeadIsTyped DEF SlotInv, EventInv, TrbType, Ring, Commands
<1>4. /\ tail \in Index /\ tail \notin Answers /\ Answers' = Answers \cup {tail}
      /\ event_ring'[tail].ok = ok /\ event_ring'[tail].slot = slot
      /\ \A i \in Answers : event_ring'[i] = event_ring[i]
      /\ UNCHANGED <<devices, pc, port, ports, ring, overrun, late>>
      /\ AtHead("command").kind = kind /\ Asked(AtHead("command"))
      /\ ~late => /\ WaitsForCommand /\ Answers = {} /\ Waiting("command")' = 0
                  /\ "command" \notin overrun
                  /\ Asking[pc] = kind
                  /\ pc # "enabling" => slot = Slot
  BY <1>1, <1>3, CommandTaken
<1>5. ~Enabling /\ slot \in 1 .. Len(slots) /\ slot <= Len(slots)
  BY <1>2, <1>4 DEF Asked
<1> HIDE DEF slot
<1>6. Port' = Port /\ Slot' = Slot /\ Enabling' = Enabling /\ WaitsForCommand' = WaitsForCommand
  BY <1>4 DEF Port, Slot, Enabling, WaitsForCommand
<1>7. SlotsOwned' /\ AllAsked' /\ HasSlot'
  BY <1>2, <1>4, <1>6 DEF SlotInv, SlotsOwned, AllAsked, Asked, HasSlot
<1>8. Offered'
  BY <1>2, <1>4, <1>5, <1>6 DEF SlotInv, Offered
<1>9. ASSUME ~late PROVE OneCommand' /\ States'
  <2>1. /\ (kind = "address" /\ pc = "addressing") \/ (kind = "configure" /\ pc = "configuring")
        /\ slot = Slot
    <3>1. /\ Asking["enabling"] = "enable" /\ Asking["addressing"] = "address"
          /\ Asking["configuring"] = "configure"
      BY DEF Asking
    <3>2. pc \in {"enabling", "addressing", "configuring"}
      BY <1>4, <1>9 DEF WaitsForCommand
    <3>3. Asking[pc] = kind /\ (pc # "enabling" => slot = Slot)
      BY <1>4, <1>9
    <3> QED
      BY <3>1, <3>2, <3>3
  <2>2. IsAnswered'
    <3>1. ok => slots'[slot] \in Reached[pc]
      BY <1>2, <1>5, <2>1 DEF Reached
    <3> QED
      BY <1>4, <1>6, <1>9, <2>1, <3>1 DEF IsAnswered
  <2>3. OneCommand'
    BY <1>4, <1>6, <1>9, <2>2 DEF OneCommand
  <2>4. \A i \in 1 .. Len(slots) :
          /\ slots[i] \in {"addressed", "configured"} => slots'[i] \in {"addressed", "configured"}
          /\ slots[i] = "configured" => slots'[i] = "configured"
    BY <1>1, <1>2
  <2>5. \A p \in Port : ports[p].addressed \/ ports[p].configured => ports[p].slot \in 1 .. Len(slots)
    <3>1. \A p \in Port : ports[p].slot \in Nat
      BY DEF SlotInv, RingInv, TypeOK, PortsOK, PortType
    <3> QED
      BY <1>2, <3>1 DEF SlotInv, SlotsOwned
  <2>6. States'
    BY <1>4, <1>6, <1>9, <2>4, <2>5 DEF SlotInv, States
  <2> QED
    BY <2>3, <2>6
<1> QED
  BY <1>4, <1>7, <1>8, <1>9 DEF SlotInv

LEMMA SlotNext == SlotInv /\ [Next]_vars => SlotInv'
<1> SUFFICES ASSUME SlotInv, [Next]_vars PROVE SlotInv'
  OBVIOUS
<1>1. RingInv' /\ EventInv'
  BY RingNext, EventNext DEF SlotInv
<1>2. CASE Driver
  <2>1. \/ EnableSlot \/ AddressDevice \/ ConfigureEndpoints
        \/ CommandAnswered \/ CommandTimesOut \/ Discard \/ QuietDriver
    BY <1>2 DEF Driver, QuietDriver
  <2> QED
    BY <1>1, <2>1, QueueCommandKeeps, CommandEndKeeps, DiscardKeeps, QuietDriverKeeps
<1>3. CASE QuietController
  BY <1>1, <1>3, QuietControllerKeeps
<1>4. ASSUME NEW ok \in BOOLEAN, DoEnable(ok) PROVE SlotInv'
  BY <1>1, <1>4, EnableKeeps
<1>5. ASSUME NEW ok \in BOOLEAN, DoCommand("address", "enabled", "addressed", ok) PROVE SlotInv'
  BY <1>1, <1>5, CommandKeeps DEF SlotState
<1>6. ASSUME NEW ok \in BOOLEAN, DoCommand("configure", "addressed", "configured", ok)
      PROVE  SlotInv'
  BY <1>1, <1>6, CommandKeeps DEF SlotState
<1>7. CASE UNCHANGED vars
  <2>1. /\ UNCHANGED <<slots, late, devices, ports, pc, port, ring, queued, overrun, dequeue, taken,
                       event_ring, event_dequeue, tail>>
    BY <1>7 DEF vars, driver, controller, history
  <2>2. SameCommands /\ SameAnswers /\ SamePorts
    BY <2>1, CommandsStay, AnswersStay DEF SlotInv, EventInv, SamePorts, Port
  <2> QED
    BY <1>1, <2>1, <2>2, QuietKeeps
<1>8. CASE Controller
  BY <1>3, <1>4, <1>5, <1>6, <1>8 DEF Controller, QuietController
<1> QED
  BY <1>2, <1>7, <1>8 DEF Next

(* A port has a slot of its own, also when the answer to the command that  *)
(* enabled it came after wait_command_completion gave up and went to the   *)
(* next port; and until a wait for a command runs out of spins, a device   *)
(* is addressed and configured when usb_init says so.                      *)
THEOREM EveryAnswerIsOwn == Spec => []OwnAnswer
<1>1. SlotInv => OwnAnswer
  BY SlotsDone
<1> QED
  BY <1>1, SlotInit, SlotNext, PTL DEF Spec
-----------------------------------------------------------------------------
(***************************************************************************)
(* ReadsSpec.  As long as every transaction went well, the driver, the     *)
(* rings, the disk and the status are at the same point of one             *)
(* transaction: nothing waits in the rings but what the driver waits for,  *)
(* and nothing was answered but that.                                      *)
(***************************************************************************)
InTransaction == pc \in {"queue_cbw", "cbw", "queue_data", "data", "queue_csw", "csw"}
Sound == \A t \in DOMAIN result : result[t]

Finished == {i \in Unread : event_ring[i].type = "transfer" /\ event_ring[i].ok}

Idle == Waiting("out") = 0 /\ Waiting("in") = 0 /\ Finished = {}
Pending(r, q, kind) ==
  /\ Waiting(r) = 1 /\ Written(r, 1).kind = kind
  /\ Waiting(q) = 0 /\ Finished = {}
Executed ==
  /\ Waiting("out") = 0 /\ Waiting("in") = 0
  /\ \E i \in Index : Finished \subseteq {i}

DeviceAt(phase) ==
  /\ device.phase = phase
  /\ phase # "ready" => device.of = cbw
  /\ phase = "status" /\ device.ok => buffer = cbw

Stage ==
  /\ pc = "cbw" => \/ Pending("out", "in", "cbw") /\ DeviceAt("ready")
                   \/ Executed /\ DeviceAt("data")
  /\ pc = "queue_data" => Idle /\ DeviceAt("data")
  /\ pc = "data" => \/ Pending("in", "out", "data") /\ DeviceAt("data")
                    \/ Executed /\ DeviceAt("status")
  /\ pc = "queue_csw" => Idle /\ DeviceAt("status") /\ csw.of = 0
  /\ pc = "csw" => \/ Pending("in", "out", "csw") /\ DeviceAt("status") /\ csw.of = 0
                   \/ Executed /\ DeviceAt("ready") /\ (Passed => buffer = cbw)
  /\ pc \notin {"cbw", "queue_data", "data", "queue_csw", "csw"} => Idle /\ DeviceAt("ready")

InStep == overrun \subseteq {"command"} /\ Stage

Counted ==
  /\ cbw = Len(result) + (IF InTransaction THEN 1 ELSE 0)
  /\ device.of <= cbw

ReadsInv == RingInv /\ EventInv /\ Counted /\ (Sound => InStep)

LEMMA ReadsInit == Init => ReadsInv
<1> SUFFICES ASSUME Init PROVE ReadsInv
  OBVIOUS
<1>1. RingInv /\ EventInv /\ Len(result) = 0
  BY RingInit, EventInit, EmptySeq DEF Init
<1>2. Finished = {}
  BY Sizes DEF Init, Finished, Unread
<1>3. Counted
  BY <1>1 DEF Init, Counted, InTransaction
<1>4. Idle /\ DeviceAt("ready") /\ overrun = {}
  BY <1>2 DEF Init, Idle, DeviceAt, Waiting, Ring
<1>5. InStep
  BY <1>4 DEF Init, InStep, Stage
<1> QED
  BY <1>1, <1>3, <1>5 DEF ReadsInv

(* What a step does to the answers that count.                             *)
LEMMA FinishedShrinks ==
  ASSUME EventInv,
         \/ UNCHANGED <<event_ring, event_dequeue, tail>>
         \/ TakeEvent /\ UNCHANGED <<event_ring, tail, tail_cycle>>
         \/ \E type, r, ok, slot : /\ Post(type, r, ok, slot) /\ (type # "transfer" \/ ok = FALSE)
                                   /\ UNCHANGED <<event_dequeue, event_cycle>>
  PROVE  Finished' \subseteq Finished
<1>1. CASE UNCHANGED <<event_ring, event_dequeue, tail>>
  BY <1>1 DEF Finished, Unread
<1>2. CASE TakeEvent /\ UNCHANGED <<event_ring, tail, tail_cycle>>
  BY <1>2, TakesUnread DEF Finished
<1>3. ASSUME NEW type, NEW r, NEW ok, NEW slot, Post(type, r, ok, slot),
             type # "transfer" \/ ok = FALSE, UNCHANGED <<event_dequeue, event_cycle>>
      PROVE  Finished' \subseteq Finished
  <2> DEFINE e == [type |-> type, trb |-> <<r, dequeue[r]>>, ok |-> ok, slot |-> slot,
                   cycle |-> tail_cycle]
  <2>1. /\ Unread' = Unread \cup {tail} /\ tail \notin Unread /\ tail \in Index
        /\ \A i \in Index : event_ring'[i] = IF i = tail THEN e ELSE event_ring[i]
    <3>1. Post(type, r, ok, slot) /\ UNCHANGED <<event_dequeue, event_cycle>>
      BY <1>3
    <3> QED
      BY <3>1, PostsUnread
  <2>2. e.type = type /\ e.ok = ok
    OBVIOUS
  <2> HIDE DEF e
  <2>3. Unread \subseteq Index
    BY DEF Unread
  <2> QED
    BY <1>3, <2>1, <2>2, <2>3 DEF Finished
<1> QED
  BY <1>1, <1>2, <1>3

LEMMA FinishedGrows ==
  ASSUME EventInv, NEW r, NEW ok, NEW slot, Post("transfer", r, ok, slot),
         UNCHANGED <<event_dequeue, event_cycle>>
  PROVE  tail \in Index /\ (ok = TRUE => Finished' = Finished \cup {tail})
<1> DEFINE e == [type |-> "transfer", trb |-> <<r, dequeue[r]>>, ok |-> ok, slot |-> slot,
                 cycle |-> tail_cycle]
<1>1. /\ Unread' = Unread \cup {tail} /\ tail \notin Unread /\ tail \in Index
      /\ \A i \in Index : event_ring'[i] = IF i = tail THEN e ELSE event_ring[i]
  BY PostsUnread
<1>2. e.type = "transfer" /\ e.ok = ok
  OBVIOUS
<1> HIDE DEF e
<1>3. Unread \subseteq Index
  BY DEF Unread
<1> QED
  BY <1>1, <1>2, <1>3 DEF Finished

LEMMA TargetFinished ==
  ASSUME EventInv, TakeEvent, UNCHANGED <<event_ring, tail, tail_cycle>>, IsTarget, Event.ok
  PROVE  event_dequeue \in Finished /\ Finished' = Finished \ {event_dequeue}
  BY TakesUnread DEF Finished, IsTarget, Event

(* Steps that leave the transaction where it is.                           *)
Resting == pc \notin {"cbw", "queue_data", "data", "queue_csw", "csw"}

LEMMA StageStays ==
  ASSUME InStep, SameHead("out"), SameHead("in"), Finished' \subseteq Finished,
         overrun' \subseteq overrun \cup {"command"},
         UNCHANGED <<cbw, csw, buffer, device>>,
         pc' = pc \/ (Resting /\ Resting')
  PROVE  InStep'
<1>1. \A phase \in {"ready", "data", "status"} : DeviceAt(phase)' = DeviceAt(phase)
  BY DEF DeviceAt
<1>2. Idle => Idle'
  BY DEF Idle, SameHead
<1>3. Executed => Executed'
  BY DEF Executed, SameHead
<1>4. /\ Pending("out", "in", "cbw") => Pending("out", "in", "cbw")'
      /\ Pending("in", "out", "data") => Pending("in", "out", "data")'
      /\ Pending("in", "out", "csw") => Pending("in", "out", "csw")'
  BY DEF Pending, SameHead
<1>5. Passed' = Passed
  BY DEF Passed
<1> QED
  BY <1>1, <1>2, <1>3, <1>4, <1>5 DEF InStep, Stage, Resting

LEMMA AsideKeeps ==
  ASSUME ReadsInv, SameHead("out"), SameHead("in"), Finished' \subseteq Finished,
         overrun' \subseteq overrun \cup {"command"},
         UNCHANGED <<cbw, csw, buffer, device, result>>,
         pc' = pc \/ (Resting /\ Resting' /\ ~InTransaction /\ ~InTransaction')
  PROVE  Counted' /\ (Sound' => InStep')
<1>1. InTransaction' = InTransaction
  BY DEF InTransaction
<1>2. Counted'
  BY <1>1 DEF ReadsInv, Counted
<1>3. Sound' = Sound
  BY DEF Sound
<1> QED
  BY <1>2, <1>3, StageStays DEF ReadsInv

LEMMA OverrunOne ==
  ASSUME NEW r, Overwrite(r) \/ UNCHANGED overrun
  PROVE  overrun' \subseteq overrun \cup {r}
  BY DEF Overwrite

(* The driver is about something else, or waits on; the controller is      *)
(* about a command, or moves on.                                           *)
Aside ==
  \/ EnableSlot \/ AddressDevice \/ ConfigureEndpoints \/ SkipDevice
  \/ \E ok \in BOOLEAN : FetchDescriptors(ok)
  \/ CommandAnswered \/ CommandTimesOut \/ Discard
  \/ \E r \in Ring : Follow(r) \/ Rest(r) \/ Halt(r)
  \/ \E ok \in BOOLEAN :
       \/ DoEnable(ok)
       \/ DoCommand("address", "enabled", "addressed", ok)
       \/ DoCommand("configure", "addressed", "configured", ok)

LEMMA AsideIsAside ==
  ASSUME ReadsInv, Aside
  PROVE  /\ UNCHANGED <<cbw, result, buffer>>
         /\ Counted' /\ (Sound' => InStep')
<1>1. EventInv /\ TypeOK /\ "out" \in Ring \ {"command"} /\ "in" \in Ring \ {"command"}
      /\ "command" \in Ring
  BY DEF ReadsInv, EventInv, Ring
<1> SUFFICES /\ SameHead("out") /\ SameHead("in") /\ Finished' \subseteq Finished
             /\ overrun' \subseteq overrun \cup {"command"}
             /\ UNCHANGED <<cbw, csw, buffer, device, result>>
             /\ pc' = pc \/ (Resting /\ Resting' /\ ~InTransaction /\ ~InTransaction')
  BY AsideKeeps
<1>2. CASE EnableSlot \/ AddressDevice \/ ConfigureEndpoints
  <2>1. PICK kind, slot : Put("command", kind, slot)
    BY <1>2 DEF EnableSlot, AddressDevice, ConfigureEndpoints, Queue
  <2>2. /\ pc \in {"enable", "address", "configure"}
        /\ pc' \in {"enabling", "addressing", "configuring"}
        /\ UNCHANGED <<cbw, csw, buffer, device, result, dequeue, taken, event_ring,
                       event_dequeue, tail>>
    BY <1>2 DEF EnableSlot, AddressDevice, ConfigureEndpoints, Queue, controller
  <2>3. SameHead("out") /\ SameHead("in")
    BY <1>1, <2>1, <2>2, HeadStays
  <2>4. Finished' \subseteq Finished /\ overrun' \subseteq overrun \cup {"command"}
    BY <1>1, <2>1, <2>2, FinishedShrinks, OverrunOne DEF Put
  <2> QED
    BY <2>2, <2>3, <2>4 DEF Resting, InTransaction
<1>3. CASE SkipDevice \/ \E ok \in BOOLEAN : FetchDescriptors(ok)
  <2>1. /\ UNCHANGED <<cbw, csw, buffer, device, result, dequeue, taken, event_ring,
                       event_dequeue, tail, ring, queued, overrun>>
        /\ pc \in {"address", "descriptors"} /\ pc' \in {"address", "idle", "configure"}
    BY <1>3 DEF SkipDevice, FetchDescriptors, NextDevice, NextPort, controller, history
  <2>2. SameHead("out") /\ SameHead("in") /\ Finished' \subseteq Finished
    BY <1>1, <2>1, HeadStays, FinishedShrinks
  <2> QED
    BY <2>1, <2>2 DEF Resting, InTransaction
<1>4. CASE CommandAnswered \/ CommandTimesOut
  <2>1. /\ UNCHANGED <<cbw, csw, buffer, device, result, dequeue, taken, event_ring,
                       tail, tail_cycle, ring, queued, overrun>>
        /\ TakeEvent \/ UNCHANGED event_dequeue
        /\ WaitsForCommand /\ (\E ok, slot : CommandEnds(ok, slot))
    BY <1>4 DEF CommandAnswered, CommandTimesOut, TimeOut, controller, history
  <2>2. /\ pc \in {"enabling", "addressing", "configuring"}
        /\ pc' \in {"enable", "address", "descriptors", "set_configuration", "idle"}
    BY <2>1 DEF WaitsForCommand, CommandEnds, NextDevice, NextPort
  <2>3. SameHead("out") /\ SameHead("in") /\ Finished' \subseteq Finished
    BY <1>1, <2>1, HeadStays, FinishedShrinks
  <2> QED
    BY <2>1, <2>2, <2>3 DEF Resting, InTransaction
<1>5. CASE Discard
  <2>1. /\ UNCHANGED <<pc, cbw, csw, buffer, device, result, dequeue, taken, event_ring,
                       tail, tail_cycle, ring, queued, overrun>>
        /\ TakeEvent
    BY <1>5 DEF Discard, controller, history
  <2> QED
    BY <1>1, <2>1, HeadStays, FinishedShrinks
<1>6. CASE \E r \in Ring : Follow(r)
  <2>1. UNCHANGED <<pc, cbw, csw, buffer, device, result, event_ring, event_dequeue, tail, overrun>>
    BY <1>6 DEF Follow, driver, history
  <2> QED
    BY <1>1, <1>6, <2>1, FollowStays, FinishedShrinks
<1>7. CASE \E r \in Ring : Rest(r) \/ Halt(r)
  <2>1. UNCHANGED <<pc, cbw, csw, buffer, device, result, overrun, ring, queued, dequeue, taken,
                    event_dequeue, event_cycle>>
    BY <1>7 DEF Rest, Halt, driver, controller, history
  <2>2. Finished' \subseteq Finished
    <3>1. CASE \E r \in Ring : Rest(r)
      BY <1>1, <3>1, FinishedShrinks DEF Rest, driver, controller
    <3>2. ASSUME NEW r \in Ring, Halt(r) PROVE Finished' \subseteq Finished
      <4>1. Post("transfer", r, FALSE, 0)
        BY <3>2 DEF Halt
      <4> QED
        BY <1>1, <2>1, <4>1, FinishedShrinks
    <3> QED
      BY <1>7, <3>1, <3>2
  <2> QED
    BY <1>1, <2>1, <2>2, HeadStays
<1>8. CASE \E ok \in BOOLEAN :
             \/ DoEnable(ok)
             \/ DoCommand("address", "enabled", "addressed", ok)
             \/ DoCommand("configure", "addressed", "configured", ok)
  <2>1. PICK kind, ok, slot : Take("command", kind) /\ Post("command", "command", ok, slot)
    BY <1>8 DEF DoEnable, DoCommand
  <2>2. UNCHANGED <<pc, cbw, csw, buffer, device, result, overrun, ring, queued, event_dequeue,
                    event_cycle>>
    BY <1>8 DEF DoEnable, DoCommand, Take, driver
  <2>3. SameHead("out") /\ SameHead("in")
    BY <1>1, <2>1, <2>2, HeadStays
  <2>4. Finished' \subseteq Finished
    BY <1>1, <2>1, <2>2, FinishedShrinks
  <2> QED
    BY <2>2, <2>3, <2>4
<1> QED
  BY <1>2, <1>3, <1>4, <1>5, <1>6, <1>7, <1>8 DEF Aside

(* bot_transaction from its begin to its return, and the other end of it.  *)
LEMMA BeginReads ==
  ASSUME ReadsInv, SetConfiguration \/ FirstRead \/ ReadSector
  PROVE  Reads!Ask /\ Counted' /\ (Sound' => InStep')
<1>1. /\ EventInv /\ TypeOK /\ "out" \in Ring /\ "in" \in Ring \ {"out"}
      /\ Len(result) \in Nat /\ Counted
  BY LenProperties DEF ReadsInv, EventInv, TypeOK, DriverOK, Ring
<1>2. /\ pc \in {"set_configuration", "first_read", "idle"} /\ pc' = "queue_cbw"
      /\ cbw' = Len(result) + 1 /\ Clear("out")
      /\ UNCHANGED <<result, csw, buffer, device, dequeue, taken, event_ring, event_dequeue,
                     tail, queued>>
  BY DEF SetConfiguration, FirstRead, ReadSector, Begin, controller
<1>3. cbw = Len(result) /\ cbw' = cbw + 1
  BY <1>1, <1>2 DEF Counted, InTransaction
<1>4. Reads!Ask
  BY <1>1, <1>2, <1>3 DEF Reads!Ask
<1>5. Counted'
  <2>1. device.of \in Nat /\ cbw \in Nat
    BY <1>1 DEF TypeOK, DeviceOK, MemoryOK
  <2> QED
    BY <1>1, <1>2, <1>3, <2>1 DEF Counted, InTransaction
<1>6. ASSUME Sound PROVE InStep'
  <2>1. Idle /\ DeviceAt("ready") /\ overrun \subseteq {"command"}
    BY <1>2, <1>6 DEF ReadsInv, InStep, Stage
  <2>2. overrun' = overrun /\ Waiting("out")' = 0
    BY <1>2, <2>1, Sizes DEF Clear, Overwrite, Room, Idle, Waiting
  <2>3. Waiting("in")' = 0 /\ Finished' \subseteq Finished
    BY <1>1, <1>2, <2>1, FinishedShrinks DEF Idle, Waiting
  <2>4. Idle' /\ DeviceAt("ready")'
    BY <1>2, <2>1, <2>2, <2>3 DEF Idle, DeviceAt
  <2> QED
    BY <1>2, <2>1, <2>2, <2>4 DEF InStep, Stage
<1>7. Sound' = Sound
  BY <1>2 DEF Sound
<1> QED
  BY <1>4, <1>5, <1>6, <1>7

LEMMA QueueReads ==
  ASSUME ReadsInv, QueueCbw \/ QueueData \/ QueueCsw
  PROVE  /\ UNCHANGED <<cbw, result, buffer>>
         /\ Counted' /\ (Sound' => InStep')
<1>1. /\ EventInv /\ TypeOK /\ RingInv /\ "out" \in Ring /\ "in" \in Ring /\ Counted
  BY DEF ReadsInv, EventInv, Ring
<1>2. /\ UNCHANGED <<cbw, result, csw, buffer, device, dequeue, taken, event_ring, event_dequeue,
                     tail>>
      /\ pc' \in {"cbw", "data", "csw"} /\ InTransaction
  BY DEF QueueCbw, QueueData, QueueCsw, Queue, controller, InTransaction
<1>3. Counted' /\ Sound' = Sound /\ Finished' \subseteq Finished
  BY <1>1, <1>2, FinishedShrinks DEF Counted, InTransaction, Sound
<1>4. ASSUME NEW r \in {"out", "in"}, NEW q \in {"out", "in"} \ {r}, NEW kind,
             Put(r, kind, 0), Idle, overrun \subseteq {"command"}
      PROVE  Pending(r, q, kind)' /\ overrun' \subseteq {"command"}
  <2>1. r \in Ring \ overrun /\ Waiting(r) = 0
    BY <1>4 DEF Idle, Ring
  <2>2. /\ Waiting(r)' = 1 /\ r \notin overrun'
        /\ Written(r, 1)' = Trb(kind, 0, queued[r] + 1, cycle[r])
    BY <1>1, <1>2, <1>4, <2>1, PutWrites
  <2>3. Written(r, 1)'.kind = kind
    BY <2>2 DEF Trb
  <2>4. Waiting(q)' = 0
    <3>1. SameHead(q)
      <4>1. q \in Ring /\ r \in Ring \ {q}
        BY <1>4 DEF Ring
      <4> QED
        BY <1>1, <1>2, <1>4, <4>1, HeadStays
    <3> QED
      BY <1>4, <3>1 DEF SameHead, Idle
  <2>5. overrun' \subseteq {"command"}
    BY <1>4, <2>2 DEF Put, Overwrite
  <2> QED
    BY <1>3, <1>4, <2>2, <2>3, <2>4, <2>5 DEF Pending, Idle
<1>5. \A phase \in {"ready", "data", "status"} : DeviceAt(phase)' = DeviceAt(phase)
  BY <1>2 DEF DeviceAt
<1>6. ASSUME Sound PROVE InStep'
  <2>1. overrun \subseteq {"command"} /\ Stage
    BY <1>6 DEF ReadsInv, InStep
  <2>2. CASE QueueCbw
    <3>1. Put("out", "cbw", 0) /\ pc = "queue_cbw" /\ pc' = "cbw"
      BY <2>2 DEF QueueCbw, Queue
    <3>2. Idle /\ DeviceAt("ready")
      BY <2>1, <3>1 DEF Stage
    <3>3. Pending("out", "in", "cbw")' /\ overrun' \subseteq {"command"}
      BY <1>4, <2>1, <3>1, <3>2
    <3> QED
      BY <1>5, <3>1, <3>2, <3>3 DEF InStep, Stage
  <2>3. CASE QueueData
    <3>1. Put("in", "data", 0) /\ pc = "queue_data" /\ pc' = "data"
      BY <2>3 DEF QueueData, Queue
    <3>2. Idle /\ DeviceAt("data")
      BY <2>1, <3>1 DEF Stage
    <3>3. Pending("in", "out", "data")' /\ overrun' \subseteq {"command"}
      BY <1>4, <2>1, <3>1, <3>2
    <3> QED
      BY <1>5, <3>1, <3>2, <3>3 DEF InStep, Stage
  <2>4. CASE QueueCsw
    <3>1. Put("in", "csw", 0) /\ pc = "queue_csw" /\ pc' = "csw"
      BY <2>4 DEF QueueCsw, Queue
    <3>2. Idle /\ DeviceAt("status") /\ csw.of = 0
      BY <2>1, <3>1 DEF Stage
    <3>3. Pending("in", "out", "csw")' /\ overrun' \subseteq {"command"}
      BY <1>4, <2>1, <3>1, <3>2
    <3> QED
      BY <1>2, <1>5, <3>1, <3>2, <3>3 DEF InStep, Stage
  <2> QED
    BY <2>2, <2>3, <2>4
<1> QED
  BY <1>2, <1>3, <1>6

LEMMA ResultAppended ==
  ASSUME TypeOK, NEW b \in BOOLEAN, result' = Append(result, b)
  PROVE  /\ Len(result) \in Nat /\ Len(result') = Len(result) + 1 /\ (Sound' <=> Sound /\ b)
         /\ result'[Len(result) + 1] = b
<1>1. /\ Len(result) \in Nat /\ Len(result') = Len(result) + 1
      /\ result'[Len(result) + 1] = b /\ \A i \in 1 .. Len(result) : result'[i] = result[i]
      /\ DOMAIN result = 1 .. Len(result) /\ DOMAIN result' = 1 .. Len(result')
  BY AppendProperties, LenProperties DEF TypeOK, DriverOK
<1> QED
  BY <1>1 DEF Sound

LEMMA ReturnCounts ==
  ASSUME ReadsInv, WaitsForTransfer, NEW b \in BOOLEAN, Return(b), UNCHANGED <<cbw, buffer, device>>
  PROVE  /\ Counted' /\ (Sound' <=> Sound /\ b)
         /\ b = FALSE => Reads!Fail
         /\ b = TRUE /\ (Sound => buffer = cbw) => Reads!Succeed
         /\ Len(result) + 1 = cbw /\ Len(result') = cbw /\ result'[cbw] = b
         /\ pc' \in {"idle", "first_read", "address"} /\ Resting'
<1>1. TypeOK /\ Counted /\ InTransaction
  BY DEF ReadsInv, RingInv, WaitsForTransfer, InTransaction
<1>2. /\ Len(result) \in Nat /\ Len(result') = Len(result) + 1 /\ (Sound' <=> Sound /\ b)
      /\ result'[Len(result) + 1] = b
  BY <1>1, ResultAppended DEF Return
<1>3. pc' \in {"idle", "first_read", "address"}
  BY DEF Return, NextDevice, NextPort
<1>4. Len(result) + 1 = cbw /\ Len(result') = cbw
  BY <1>1, <1>2 DEF Counted
<1>5. Counted'
  BY <1>1, <1>2, <1>3, <1>4 DEF Counted, InTransaction
<1>6. Len(result) < cbw /\ ~(Len(result') < cbw)
  BY <1>2, <1>4
<1>7. b = FALSE => Reads!Fail
  <2> SUFFICES ASSUME b = FALSE PROVE Reads!Fail
    OBVIOUS
  <2>1. (\A t \in DOMAIN result' : result'[t]) = FALSE
    BY <1>2 DEF Sound
  <2> QED
    BY <1>6, <2>1 DEF Reads!Fail
<1>8. b = TRUE /\ (Sound => buffer = cbw) => Reads!Succeed
  <2> SUFFICES ASSUME b = TRUE, Sound => buffer = cbw PROVE Reads!Succeed
    OBVIOUS
  <2>1. (\A t \in DOMAIN result' : result'[t]) = (\A t \in DOMAIN result : result[t])
    BY <1>2 DEF Sound
  <2> QED
    BY <1>6, <2>1 DEF Reads!Succeed, Sound
<1> QED
  BY <1>2, <1>3, <1>4, <1>5, <1>7, <1>8 DEF Resting

LEMMA ReturnReads ==
  ASSUME ReadsInv, TransferTimesOut \/ TransferFails \/ CswCame
  PROVE  /\ Reads!Succeed \/ Reads!Fail
         /\ Counted' /\ (Sound' => InStep')
<1>1. EventInv /\ TypeOK /\ "out" \in Ring /\ "in" \in Ring
  BY DEF ReadsInv, EventInv, Ring
<1>2. CASE TransferTimesOut \/ TransferFails
  <2>1. WaitsForTransfer /\ Return(FALSE) /\ UNCHANGED <<cbw, buffer, device>>
    BY <1>2 DEF TransferTimesOut, TransferFails, TimeOut, Answered, WaitsForTransfer, controller
  <2> QED
    BY <2>1, ReturnCounts
<1>3. CASE CswCame
  <2>1. /\ pc = "csw" /\ IsTarget /\ Event.ok /\ TakeEvent /\ Return(Passed)
        /\ UNCHANGED <<cbw, csw, buffer, device, ring, queued, taken, dequeue, overrun, event_ring,
                       tail, tail_cycle>>
    BY <1>3 DEF CswCame, Answered, controller
  <2>2. Passed \in BOOLEAN
    BY <1>1 DEF TypeOK, MemoryOK, Passed
  <2>3. /\ Counted' /\ (Sound' <=> Sound /\ Passed)
        /\ Passed = FALSE => Reads!Fail
        /\ Passed = TRUE /\ (Sound => buffer = cbw) => Reads!Succeed
        /\ Resting'
    BY <2>1, <2>2, ReturnCounts DEF WaitsForTransfer
  <2>4. event_dequeue \in Finished /\ Finished' = Finished \ {event_dequeue}
    BY <1>1, <2>1, TargetFinished
  <2>5. Sound => Executed /\ DeviceAt("ready") /\ (Passed => buffer = cbw)
    BY <2>1, <2>4 DEF ReadsInv, InStep, Stage, Pending
  <2>6. Sound' => InStep'
    <3> SUFFICES ASSUME Sound PROVE InStep'
      BY <2>3
    <3>1. Idle'
      BY <2>1, <2>4, <2>5 DEF Executed, Idle, Waiting
    <3>2. DeviceAt("ready")'
      BY <2>1, <2>5 DEF DeviceAt
    <3> QED
      BY <2>1, <2>3, <3>1, <3>2 DEF ReadsInv, InStep, Stage, Resting
  <2> QED
    BY <2>2, <2>3, <2>5, <2>6
<1> QED
  BY <1>2, <1>3

LEMMA MiddleReads ==
  ASSUME ReadsInv, CbwSent \/ DataCame
  PROVE  /\ UNCHANGED <<cbw, result, buffer>>
         /\ Counted' /\ (Sound' => InStep')
<1>1. EventInv /\ TypeOK /\ "out" \in Ring /\ "in" \in Ring
  BY DEF ReadsInv, EventInv, Ring
<1>2. /\ IsTarget /\ Event.ok /\ TakeEvent /\ Clear("in") /\ InTransaction /\ InTransaction'
      /\ UNCHANGED <<cbw, buffer, result, device, queued, taken, dequeue, event_ring,
                     tail, tail_cycle>>
      /\ \/ pc = "cbw" /\ pc' = "queue_data" /\ csw' = csw
         \/ pc = "data" /\ pc' = "queue_csw" /\ csw' = [of |-> 0, ok |-> FALSE]
  BY DEF CbwSent, DataCame, Answered, controller, InTransaction
<1>3. Counted' /\ Sound' = Sound
  BY <1>2 DEF ReadsInv, Counted, Sound
<1>4. event_dequeue \in Finished /\ Finished' = Finished \ {event_dequeue}
  BY <1>1, <1>2, TargetFinished
<1>5. ASSUME Sound PROVE InStep'
  <2>1. /\ Executed /\ overrun \subseteq {"command"}
        /\ pc = "cbw" => DeviceAt("data")
        /\ pc = "data" => DeviceAt("status")
    BY <1>2, <1>4, <1>5 DEF ReadsInv, InStep, Stage, Pending
  <2>2. Idle'
    BY <1>2, <1>4, <2>1 DEF Executed, Idle, Waiting
  <2>3. overrun' \subseteq {"command"}
    BY <1>2, <2>1, Sizes DEF Clear, Overwrite, Room, Executed
  <2>4. \A phase \in {"data", "status"} : DeviceAt(phase)' = DeviceAt(phase)
    BY <1>2 DEF DeviceAt
  <2>5. csw' = [of |-> 0, ok |-> FALSE] => csw'.of = 0
    OBVIOUS
  <2> QED
    BY <1>2, <2>1, <2>2, <2>3, <2>4, <2>5 DEF InStep, Stage
<1> QED
  BY <1>2, <1>3, <1>5

(* While nothing failed, the disk does what the driver waits for.          *)
LEMMA TransferTaken ==
  ASSUME ReadsInv, Sound, NEW r \in {"out", "in"}, NEW kind \in Transfers, Take(r, kind),
         NEW slot, Post("transfer", r, TRUE, slot), UNCHANGED cbw
  PROVE  /\ pc = kind
         /\ pc = "cbw" => r = "out" /\ DeviceAt("ready")
         /\ pc = "data" => r = "in" /\ DeviceAt("data")
         /\ pc = "csw" => r = "in" /\ DeviceAt("status") /\ csw.of = 0
         /\ Executed' /\ overrun' \subseteq {"command"} /\ pc' = pc
<1>1. /\ EventInv /\ TypeOK /\ RingInv /\ r \in Ring \ overrun /\ InStep
      /\ queued \in [Ring -> Nat] /\ taken \in [Ring -> Nat]
  BY DEF ReadsInv, EventInv, InStep, Ring, TypeOK, WriterOK, ReaderOK
<1>2. /\ UNCHANGED <<pc, queued, overrun, event_dequeue, event_cycle>> /\ Owns(r)
      /\ AtHead(r).kind = kind /\ taken' = [taken EXCEPT ![r] = @ + 1]
  BY DEF Take, driver
<1>3. Waiting(r) # 0 /\ Written(r, 1).kind = kind
  <2>1. kind \notin {"none", "link"}
    BY DEF Transfers
  <2>2. Waiting(r) \in 1 .. LinkAt /\ AtHead(r) = Written(r, 1)
    BY <1>1, <1>2, <2>1, TakenWaited DEF RingInv, Queues
  <2> QED
    BY <1>2, <2>2, Sizes
<1>4. \/ pc = "cbw" /\ Pending("out", "in", "cbw") /\ DeviceAt("ready")
      \/ pc = "data" /\ Pending("in", "out", "data") /\ DeviceAt("data")
      \/ pc = "csw" /\ Pending("in", "out", "csw") /\ DeviceAt("status") /\ csw.of = 0
  BY <1>1, <1>3 DEF InStep, Stage, Idle, Executed
<1>5. \/ pc = "cbw" /\ r = "out" /\ Pending(r, "in", "cbw") /\ DeviceAt("ready")
      \/ pc = "data" /\ r = "in" /\ Pending(r, "out", "data") /\ DeviceAt("data")
      \/ pc = "csw" /\ r = "in" /\ Pending(r, "out", "csw") /\ DeviceAt("status") /\ csw.of = 0
  BY <1>3, <1>4 DEF Pending
<1>6. PICK q \in {"out", "in"} \ {r} : Pending(r, q, kind) /\ pc = kind
  BY <1>3, <1>5 DEF Pending
<1>7. Waiting(r)' = 0 /\ Waiting(q)' = 0
  <2>1. /\ queued'[r] = queued[r] /\ taken'[r] = taken[r] + 1
        /\ queued[r] \in Nat /\ taken[r] \in Nat
    BY <1>1, <1>2
  <2>2. queued[r] - taken[r] = 1
    BY <1>6 DEF Pending, Waiting
  <2>3. queued[r] - (taken[r] + 1) = 0
    BY <2>1, <2>2
  <2>4. queued'[q] = queued[q] /\ taken'[q] = taken[q]
    BY <1>1, <1>2
  <2> QED
    BY <1>6, <2>1, <2>3, <2>4 DEF Waiting, Pending
<1>8. tail \in Index /\ Finished' = Finished \cup {tail}
  BY <1>1, <1>2, FinishedGrows
<1>9. Executed'
  BY <1>6, <1>7, <1>8 DEF Executed, Pending
<1> QED
  BY <1>1, <1>2, <1>5, <1>6, <1>9 DEF InStep

LEMMA DiskReads ==
  ASSUME ReadsInv, DoCbw \/ DoCsw \/ \E ok \in BOOLEAN : DoData(ok)
  PROVE  /\ [Reads!Next]_Reads!vars
         /\ Counted' /\ (Sound' => InStep')
<1>1. /\ TypeOK /\ Counted /\ cbw \in Nat /\ device.of \in Nat /\ device.of <= cbw
      /\ Len(result) \in Nat /\ device \in [phase : {"ready", "data", "status"}, of : Nat, ok : BOOLEAN]
  BY LenProperties DEF ReadsInv, RingInv, TypeOK, DriverOK, DeviceOK, MemoryOK, Counted
<1>2. CASE DoCbw
  <2>1. /\ Take("out", "cbw") /\ Post("transfer", "out", TRUE, 0)
        /\ UNCHANGED <<pc, cbw, result, csw, buffer>>
        /\ device' = [phase |-> "data", of |-> cbw, ok |-> TRUE]
    BY <1>2 DEF DoCbw, Take, driver
  <2>2. device'.phase = "data" /\ device'.of = cbw
    BY <2>1
  <2>3. Counted' /\ Sound' = Sound
    BY <1>1, <2>1, <2>2 DEF Counted, InTransaction, Sound
  <2>4. ASSUME Sound PROVE InStep'
    <3>1. /\ pc = "cbw" /\ DeviceAt("ready") /\ Executed' /\ overrun' \subseteq {"command"}
          /\ pc' = pc
      BY <2>1, <2>4, TransferTaken DEF Transfers
    <3>2. DeviceAt("data")'
      BY <2>1, <2>2 DEF DeviceAt
    <3> QED
      BY <3>1, <3>2 DEF InStep, Stage
  <2>5. UNCHANGED Reads!vars
    BY <2>1 DEF Reads!vars
  <2> QED
    BY <2>3, <2>4, <2>5
<1>3. ASSUME NEW ok \in BOOLEAN, DoData(ok)
      PROVE  Reads!Fill /\ Counted' /\ (Sound' => InStep')
  <2>1. /\ Take("in", "data") /\ Post("transfer", "in", TRUE, 0)
        /\ UNCHANGED <<pc, cbw, result, csw>> /\ buffer' = IF ok THEN device.of ELSE 0
        /\ device' = [device EXCEPT !.phase = "status", !.ok = ok]
    BY <1>3 DEF DoData, Take, driver
  <2>2. device'.phase = "status" /\ device'.of = device.of /\ device'.ok = ok
    BY <1>1, <2>1
  <2>3. Counted' /\ Sound' = Sound
    BY <1>1, <2>1, <2>2 DEF Counted, InTransaction, Sound
  <2>4. Sound => /\ pc = "data" /\ DeviceAt("data") /\ Executed'
                 /\ overrun' \subseteq {"command"} /\ pc' = pc
    BY <2>1, TransferTaken DEF Transfers
  <2>5. ASSUME Sound PROVE InStep'
    <3>1. DeviceAt("status")'
      BY <2>1, <2>2, <2>4, <2>5 DEF DeviceAt
    <3> QED
      BY <2>4, <2>5, <3>1 DEF InStep, Stage
  <2>6. Reads!Fill
    <3>1. Sound => Len(result) < cbw
      BY <1>1, <2>4 DEF Counted, InTransaction
    <3>2. buffer' \in 0 .. cbw
      BY <1>1, <2>1
    <3> QED
      BY <2>1, <3>1, <3>2 DEF Reads!Fill, Sound
  <2> QED
    BY <2>3, <2>5, <2>6
<1>4. CASE DoCsw
  <2>1. /\ Take("in", "csw") /\ Post("transfer", "in", TRUE, 0)
        /\ UNCHANGED <<pc, cbw, result, buffer>>
        /\ csw' = [of |-> device.of, ok |-> device.ok]
        /\ device' = [device EXCEPT !.phase = "ready"]
    BY <1>4 DEF DoCsw, Take, driver
  <2>2. /\ device'.phase = "ready" /\ device'.of = device.of
        /\ csw'.of = device.of /\ csw'.ok = device.ok
    BY <1>1, <2>1
  <2>3. Counted' /\ Sound' = Sound
    BY <1>1, <2>1, <2>2 DEF Counted, InTransaction, Sound
  <2>4. ASSUME Sound PROVE InStep'
    <3>1. /\ pc = "csw" /\ DeviceAt("status") /\ Executed' /\ overrun' \subseteq {"command"}
          /\ pc' = pc
      BY <2>1, <2>4, TransferTaken DEF Transfers
    <3>2. DeviceAt("ready")'
      BY <2>1, <2>2 DEF DeviceAt
    <3>3. Passed' => buffer' = cbw'
      BY <2>1, <2>2, <3>1 DEF DeviceAt, Passed
    <3> QED
      BY <3>1, <3>2, <3>3 DEF InStep, Stage
  <2>5. UNCHANGED Reads!vars
    BY <2>1 DEF Reads!vars
  <2> QED
    BY <2>3, <2>4, <2>5
<1> QED
  BY <1>2, <1>3, <1>4 DEF Reads!Next

LEMMA ReadsStep ==
  ASSUME ReadsInv, [Next]_vars
  PROVE  ReadsInv' /\ [Reads!Next]_Reads!vars
<1>1. RingInv' /\ EventInv'
  BY RingNext, EventNext DEF ReadsInv
<1> SUFFICES Counted' /\ (Sound' => InStep') /\ [Reads!Next]_Reads!vars
  BY <1>1 DEF ReadsInv
<1>2. CASE Aside \/ QueueCbw \/ QueueData \/ QueueCsw \/ CbwSent \/ DataCame
  <2>1. UNCHANGED <<cbw, result, buffer>> /\ Counted' /\ (Sound' => InStep')
    BY <1>2, AsideIsAside, QueueReads, MiddleReads
  <2> QED
    BY <2>1 DEF Reads!vars
<1>3. CASE SetConfiguration \/ FirstRead \/ ReadSector
  BY <1>3, BeginReads DEF Reads!Next
<1>4. CASE TransferTimesOut \/ TransferFails \/ CswCame
  BY <1>4, ReturnReads DEF Reads!Next
<1>5. CASE DoCbw \/ DoCsw \/ \E ok \in BOOLEAN : DoData(ok)
  BY <1>5, DiskReads
<1>6. CASE UNCHANGED vars
  <2>1. /\ UNCHANGED <<cbw, csw, result, buffer, device, pc, overrun, ring, queued, dequeue, taken,
                       event_ring, event_dequeue, tail>>
    BY <1>6 DEF vars, driver, controller, history
  <2>2. SameHead("out") /\ SameHead("in") /\ Finished' \subseteq Finished
    BY <2>1, FinishedShrinks DEF SameHead, Waiting, Written, ReadsInv
  <2> QED
    BY <2>1, <2>2, AsideKeeps DEF Reads!vars
<1>7. CASE Driver
  BY <1>2, <1>3, <1>4, <1>7 DEF Driver, Aside
<1>8. CASE Controller
  BY <1>2, <1>5, <1>8 DEF Controller, Aside
<1> QED
  BY <1>6, <1>7, <1>8 DEF Next

(* bot_transaction keeps the promise of SectorReads: while no transaction  *)
(* failed, TRUE means that the buffer holds the sector asked for, and it   *)
(* stays there until the next one; however the controller and the disk are *)
(* interleaved with the driver.                                            *)
THEOREM KeepsPromise == Spec => ReadsSpec
<1>1. Init => Reads!Init
  <2> SUFFICES ASSUME Init PROVE Reads!Init
    OBVIOUS
  <2>1. Len(result) = 0 /\ DOMAIN result = {}
    BY EmptySeq, LenProperties DEF Init
  <2> QED
    BY <2>1 DEF Init, Reads!Init
<1>2. ReadsInv /\ [Next]_vars => ReadsInv' /\ [Reads!Next]_Reads!vars
  BY ReadsStep
<1> QED
  BY <1>1, <1>2, ReadsInit, PTL DEF Spec, ReadsSpec, Reads!Spec
-----------------------------------------------------------------------------
(***************************************************************************)
(* TrueIsRight.  Once a transaction failed nothing is in step any more,    *)
(* and the tags are never compared; what is left is the order of the ring  *)
(* of commands to the disk.  The age of an answer is how many commands     *)
(* were written after the one at its address.  While fewer waits ran out   *)
(* than a ring has places, an address has one age, answers come in the     *)
(* order of the commands, and none is as old as the waits that ran out.    *)
(* So an answer at the address of the last command is its own, and has     *)
(* age 0: the disk has then taken all, and it works at this transaction    *)
(* until the driver asks again.                                            *)
(***************************************************************************)
Patient == timeouts < LinkAt

(* The waits for the disk to take a command that did not end well.         *)
Unsettled == timeouts + (IF pc = "cbw" THEN 1 ELSE 0)

(* The driver has not seen these answers to commands to the disk.          *)
OutEvents ==
  {i \in Unread : event_ring[i].type = "transfer" /\ event_ring[i].trb \in {"out"} \X Index}

After(i) == IF event_dequeue <= i THEN i - event_dequeue ELSE i + RingSize - event_dequeue

Behind(p) ==
  IF p < enqueue["out"] THEN enqueue["out"] - 1 - p ELSE enqueue["out"] - 1 - p + LinkAt

(* A failed answer, of a halted endpoint, is at the entry after the last   *)
(* that was taken.                                                         *)
Age(i) == IF event_ring[i].ok THEN Behind(event_ring[i].trb[2]) ELSE Waiting("out") - 1

Recent ==
  \A i \in OutEvents :
    IF event_ring[i].ok
    THEN event_ring[i].trb[2] \in Place /\ Waiting("out") <= Age(i) /\ Age(i) < Unsettled
    ELSE endpoint["out"] = "halted"
Ordered == \A i, j \in OutEvents : After(i) < After(j) => Age(j) < Age(i)

(* The last wait that may run out: the controller is at a link that was    *)
(* overwritten for a round it is not in, and goes no further.              *)
Stuck ==
  /\ pc = "cbw" /\ timeouts = LinkAt - 1 /\ OutEvents = {}
  /\ dequeue["out"] = LinkAt /\ ring["out"][LinkAt].cycle # ccs["out"]

(* The ring is a queue also when it is full.                               *)
OutRing ==
  \/ endpoint["out"] = "halted"
  \/ Waiting("out") <= Unsettled /\ (Stuck \/ IsQueue("out"))

Sent == pc = "cbw" => target \in {"out"} \X Place /\ Behind(target[2]) = 0

OutInv == Waiting("out") >= 0 /\ Recent /\ Ordered /\ OutRing /\ Sent

BufferIsDisks == device.phase = "status" /\ device.ok => buffer = device.of

(* Once its command is taken, the disk is at this transaction.             *)
Moving == {"queue_data", "data", "queue_csw", "csw"}
Own ==
  /\ pc = "cbw" /\ Waiting("out") = 0 => device.of = cbw
  /\ pc \in Moving => Waiting("out") = 0 /\ device.of = cbw
  /\ pc \in {"queue_csw", "csw"} /\ csw.of # 0 =>
       csw.of = cbw /\ device.phase = "ready" /\ (csw.ok => buffer = cbw)

RightInv == ReadsInv /\ BufferIsDisks /\ (Patient => OutInv /\ Own)

LEMMA OutTypes ==
  ASSUME TypeOK
  PROVE  /\ "out" \in Ring /\ Waiting("out") \in Int /\ timeouts \in Nat /\ Unsettled \in Nat
         /\ enqueue["out"] \in 0 .. LinkAt - 1 /\ dequeue["out"] \in 0 .. LinkAt
         /\ \A p \in Place : Behind(p) \in 0 .. LinkAt - 1
         /\ OutEvents \subseteq Index /\ OutEvents \subseteq Unread
         /\ \A i \in Index : event_ring[i].ok \in BOOLEAN /\ After(i) \in 0 .. LinkAt
<1>1. /\ "out" \in Ring /\ queued["out"] \in Nat /\ taken["out"] \in Nat /\ timeouts \in Nat
      /\ enqueue["out"] \in 0 .. LinkAt - 1 /\ dequeue["out"] \in 0 .. LinkAt
      /\ LinkAt \in Nat /\ LinkAt >= 2
  BY Sizes DEF TypeOK, WriterOK, ReaderOK, DriverOK, Ring, Place
<1>2. Waiting("out") \in Int
  BY <1>1 DEF Waiting
<1>3. Unsettled \in Nat
  BY <1>1 DEF Unsettled
<1>4. \A p \in Place : Behind(p) \in 0 .. LinkAt - 1
  BY <1>1 DEF Behind, Place
<1>5. OutEvents \subseteq Unread /\ OutEvents \subseteq Index
  BY DEF OutEvents, Unread
<1>6. \A i \in Index : event_ring[i].ok \in BOOLEAN /\ After(i) \in 0 .. LinkAt
  <2>1. event_dequeue \in 0 .. LinkAt /\ Index = 0 .. LinkAt /\ RingSize = LinkAt + 1
    BY EventRingTypes, Sizes
  <2>2. \A i \in Index : After(i) \in 0 .. LinkAt
    BY <1>1, <2>1 DEF After
  <2>3. \A i \in Index : event_ring[i].ok \in BOOLEAN
    BY DEF TypeOK, PosterOK, EventType
  <2> QED
    BY <2>2, <2>3
<1> QED
  BY <1>1, <1>2, <1>3, <1>4, <1>5, <1>6

(* Seeing an event keeps the order of the others; a new one is the last.   *)
LEMMA AfterTakes ==
  ASSUME EventInv, TakeEvent
  PROVE  /\ \A j \in Index \ {event_dequeue} : After(event_dequeue) < After(j)
         /\ \A i, j \in Index \ {event_dequeue} : After(i)' < After(j)' => After(i) < After(j)
<1>1. /\ event_dequeue \in 0 .. LinkAt /\ LinkAt \in Nat /\ Index = 0 .. LinkAt
      /\ RingSize = LinkAt + 1
  BY EventRingTypes, Sizes DEF EventInv
<1>2. event_dequeue' = IF event_dequeue = LinkAt THEN 0 ELSE event_dequeue + 1
  BY <1>1, NextIndex DEF TakeEvent
<1>3. \A j \in Index \ {event_dequeue} : After(event_dequeue) < After(j)
  BY <1>1 DEF After
<1>4. \A i \in Index \ {event_dequeue} : After(i)' = After(i) - 1 /\ After(i) \in Nat
  BY <1>1, <1>2 DEF After
<1>5. \A i, j \in Index \ {event_dequeue} : After(i)' < After(j)' => After(i) < After(j)
  <2> TAKE i, j \in Index \ {event_dequeue}
  <2>1. /\ After(i)' = After(i) - 1 /\ After(i) \in Nat
        /\ After(j)' = After(j) - 1 /\ After(j) \in Nat
    BY <1>4
  <2> QED
    BY <2>1
<1> QED
  BY <1>3, <1>5

LEMMA TailIsLast ==
  ASSUME EventInv
  PROVE  \A i \in Unread : After(i) < After(tail) /\ ~(After(tail) < After(i))
<1>1. /\ event_dequeue \in 0 .. LinkAt /\ tail \in 0 .. LinkAt /\ LinkAt \in Nat
      /\ Index = 0 .. LinkAt /\ RingSize = LinkAt + 1
  BY EventRingTypes, Sizes DEF EventInv
<1> QED
  BY <1>1 DEF After, Unread

(* No answer to a command to the disk comes.                               *)
Quiet ==
  /\ OutEvents' \subseteq OutEvents
  /\ \A i \in OutEvents' : event_ring'[i] = event_ring[i]
  /\ \A i, j \in OutEvents' : After(i)' < After(j)' => After(i) < After(j)

LEMMA EventsQuiet ==
  ASSUME EventInv,
         \/ UNCHANGED <<event_ring, event_dequeue, tail>>
         \/ TakeEvent /\ UNCHANGED <<event_ring, tail, tail_cycle>>
         \/ \E type, r, ok, slot : /\ Post(type, r, ok, slot)
                                   /\ (type # "transfer" \/ r # "out")
                                   /\ UNCHANGED <<event_dequeue, event_cycle>>
  PROVE  Quiet
<1>1. CASE UNCHANGED <<event_ring, event_dequeue, tail>>
  BY <1>1 DEF Quiet, OutEvents, Unread, After
<1>2. CASE TakeEvent /\ UNCHANGED <<event_ring, tail, tail_cycle>>
  <2>1. Unread' = Unread \ {event_dequeue} /\ Unread \subseteq Index
    BY <1>2, TakesUnread DEF Unread
  <2>2. OutEvents' \subseteq OutEvents \ {event_dequeue} /\ OutEvents \subseteq Index
    BY <1>2, <2>1 DEF OutEvents
  <2> QED
    BY <1>2, <2>2, AfterTakes DEF Quiet
<1>3. ASSUME NEW type, NEW r, NEW ok, NEW slot, Post(type, r, ok, slot),
             type # "transfer" \/ r # "out", UNCHANGED <<event_dequeue, event_cycle>>
      PROVE  Quiet
  <2> DEFINE e == [type |-> type, trb |-> <<r, dequeue[r]>>, ok |-> ok, slot |-> slot,
                   cycle |-> tail_cycle]
  <2>1. /\ Unread' = Unread \cup {tail} /\ tail \notin Unread /\ tail \in Index
        /\ \A i \in Index : event_ring'[i] = IF i = tail THEN e ELSE event_ring[i]
    <3>1. Post(type, r, ok, slot) /\ UNCHANGED <<event_dequeue, event_cycle>>
      BY <1>3
    <3> QED
      BY <3>1, PostsUnread
  <2>2. ~(e.type = "transfer" /\ e.trb \in {"out"} \X Index)
    BY <1>3
  <2> HIDE DEF e
  <2>3. Unread \subseteq Index
    BY DEF Unread
  <2>4. OutEvents' \subseteq OutEvents /\ \A i \in OutEvents' : event_ring'[i] = event_ring[i]
    BY <2>1, <2>2, <2>3 DEF OutEvents
  <2>5. \A i : After(i)' = After(i)
    BY <1>3 DEF After
  <2> QED
    BY <2>4, <2>5 DEF Quiet
<1> QED
  BY <1>1, <1>2, <1>3

LEMMA UnsettledNext ==
  ASSUME timeouts' \in Nat
  PROVE  Unsettled' \in Nat
<1>1. Unsettled' = timeouts' + (IF pc' = "cbw" THEN 1 ELSE 0)
  BY DEF Unsettled
<1>2. PICK t \in Nat : t = timeouts'
  OBVIOUS
<1>3. t + (IF pc' = "cbw" THEN 1 ELSE 0) \in Nat
  OBVIOUS
<1> QED
  BY <1>1, <1>2, <1>3

(* Steps that write no command to the disk and take none.                  *)
LEMMA OutStays ==
  ASSUME TypeOK, TypeOK', OutInv, Quiet,
         Waiting("out")' = Waiting("out"), enqueue'["out"] = enqueue["out"],
         endpoint["out"] = "halted" => endpoint'["out"] = "halted",
         Unsettled <= Unsettled', OutRing',
         pc' = "cbw" => pc = "cbw" /\ target' = target
  PROVE  OutInv'
<1>1. \A p : Behind(p)' = Behind(p)
  BY DEF Behind
<1>2. \A i \in OutEvents' : Age(i)' = Age(i) /\ event_ring'[i] = event_ring[i] /\ i \in OutEvents
  BY <1>1 DEF Age, Quiet
<1>3. Recent'
  <2> SUFFICES ASSUME NEW i \in OutEvents'
               PROVE  IF event_ring'[i].ok
                      THEN /\ event_ring'[i].trb[2] \in Place
                           /\ Waiting("out")' <= Age(i)' /\ Age(i)' < Unsettled'
                      ELSE endpoint'["out"] = "halted"
    BY DEF Recent
  <2>1. i \in OutEvents /\ Age(i)' = Age(i) /\ event_ring'[i] = event_ring[i]
    BY <1>2
  <2>2. CASE event_ring[i].ok
    <3>1. /\ event_ring[i].trb[2] \in Place /\ Waiting("out") <= Age(i) /\ Age(i) < Unsettled
          /\ Age(i) = Behind(event_ring[i].trb[2])
      BY <2>1, <2>2 DEF OutInv, Recent, Age
    <3>2. Age(i) \in 0 .. LinkAt - 1 /\ LinkAt \in Nat /\ Unsettled \in Nat
      BY <3>1, OutTypes, Sizes
    <3>3. Unsettled' \in Nat
      <4>1. timeouts' \in Nat
        BY DEF TypeOK, DriverOK
      <4> QED
        BY <4>1, UnsettledNext
    <3>4. Age(i) < Unsettled'
      BY <3>1, <3>2, <3>3
    <3> QED
      BY <2>1, <2>2, <3>1, <3>4
  <2>3. CASE ~event_ring[i].ok
    BY <2>1, <2>3 DEF OutInv, Recent
  <2> QED
    BY <2>2, <2>3
<1>4. Ordered'
  <2> SUFFICES ASSUME NEW i \in OutEvents', NEW j \in OutEvents', After(i)' < After(j)'
               PROVE  Age(j)' < Age(i)'
    BY DEF Ordered
  <2>1. After(i) < After(j)
    BY DEF Quiet
  <2> QED
    BY <1>2, <2>1 DEF OutInv, Ordered
<1>5. Sent'
  BY <1>1 DEF OutInv, Sent
<1> QED
  BY <1>3, <1>4, <1>5 DEF OutInv

LEMMA OutRingStays ==
  ASSUME TypeOK, OutRing, Quiet, SameRing("out"),
         endpoint["out"] = "halted" => endpoint'["out"] = "halted",
         timeouts' \in Nat, timeouts <= timeouts', Patient', Unsettled <= Unsettled',
         pc = "cbw" => pc' = "cbw" \/ timeouts < timeouts'
  PROVE  OutRing' /\ Waiting("out")' = Waiting("out") /\ enqueue'["out"] = enqueue["out"]
<1>1. "out" \in Ring /\ Waiting("out") \in Int /\ timeouts \in Nat /\ Unsettled \in Nat
      /\ LinkAt \in Nat
  BY OutTypes, Sizes
<1>2. (IsQueue("out")' <=> IsQueue("out")) /\ Waiting("out")' = Waiting("out")
  BY <1>1, OtherRing
<1>3. Stuck => Stuck'
  <2> SUFFICES ASSUME Stuck PROVE Stuck'
    OBVIOUS
  <2>1. timeouts' = LinkAt - 1 /\ pc' = "cbw"
    BY <1>1 DEF Stuck, Patient
  <2>2. OutEvents' = {}
    BY DEF Stuck, Quiet
  <2> QED
    BY <2>1, <2>2 DEF Stuck, SameRing
<1>4. Waiting("out") <= Unsettled => Waiting("out")' <= Unsettled'
  <2>1. Unsettled' \in Nat
    BY UnsettledNext
  <2> QED
    BY <1>1, <1>2, <2>1
<1> QED
  BY <1>2, <1>3, <1>4 DEF OutRing, SameRing

(* A command is written: every answer is a command older.                  *)
LEMMA QueueOut ==
  ASSUME TypeOK, TypeOK', EventInv, Patient, OutInv, QueueCbw
  PROVE  OutInv' /\ Waiting("out")' >= 1
<1>1. /\ Put("out", "cbw", 0) /\ RingDoorbell("out") /\ pc = "queue_cbw" /\ pc' = "cbw"
      /\ UNCHANGED <<dequeue, ccs, taken, event_ring, event_dequeue, tail, tail_cycle, timeouts>>
  BY DEF QueueCbw, Queue, controller
<1>2. /\ "out" \in Ring /\ Waiting("out") \in Nat /\ timeouts \in Nat
      /\ enqueue["out"] \in 0 .. LinkAt - 1 /\ LinkAt \in Nat /\ LinkAt >= 2
      /\ timeouts < LinkAt
  BY OutTypes, Sizes DEF OutInv, Patient
<1>3. Unsettled = timeouts /\ Unsettled' = timeouts + 1
  BY <1>1, <1>2 DEF Unsettled
<1>4. /\ Waiting("out")' = Waiting("out") + 1
      /\ enqueue'["out"] = (IF enqueue["out"] + 1 >= LinkAt THEN 0 ELSE enqueue["out"] + 1)
      /\ target' = <<"out", enqueue["out"]>>
      /\ endpoint["out"] = "halted" => endpoint'["out"] = "halted"
  <2>1. /\ queued \in [Ring -> Nat] /\ taken \in [Ring -> Nat] /\ enqueue \in [Ring -> Place]
        /\ endpoint \in [Ring -> {"stopped", "running", "halted"}]
    BY DEF TypeOK, WriterOK, ReaderOK, EndpointOK
  <2>2. queued'["out"] = queued["out"] + 1 /\ taken'["out"] = taken["out"]
        /\ queued["out"] \in Nat /\ taken["out"] \in Nat
    BY <1>1, <1>2, <2>1 DEF Put
  <2>3. Waiting("out")' = Waiting("out") + 1
    BY <2>2 DEF Waiting
  <2>4. enqueue'["out"] = (IF enqueue["out"] + 1 >= LinkAt THEN 0 ELSE enqueue["out"] + 1)
    BY <1>1, <1>2, <2>1 DEF Put, LinkAt
  <2> QED
    BY <1>1, <1>2, <2>1, <2>3, <2>4 DEF Put, RingDoorbell
<1>5. OutEvents' = OutEvents /\ \A i : After(i)' = After(i)
  BY <1>1 DEF OutEvents, Unread, After
<1>6. \A p \in Place : Behind(p) < LinkAt - 1 => Behind(p)' = Behind(p) + 1
  <2> SUFFICES ASSUME NEW p \in 0 .. LinkAt - 1, Behind(p) < LinkAt - 1
               PROVE  Behind(p)' = Behind(p) + 1
    BY DEF Place
  <2>1. CASE p < enqueue["out"]
    BY <1>2, <1>4, <2>1 DEF Behind
  <2>2. CASE ~(p < enqueue["out"])
    BY <1>2, <1>4, <2>2 DEF Behind
  <2> QED
    BY <2>1, <2>2
<1>7. \A i \in OutEvents : Age(i)' = Age(i) + 1 /\ Age(i) \in Int
  <2> TAKE i \in OutEvents
  <2>1. i \in Index /\ event_ring[i].ok \in BOOLEAN
    BY OutTypes
  <2>2. CASE event_ring[i].ok
    <3>1. /\ event_ring[i].trb[2] \in Place /\ Age(i) < Unsettled
          /\ Age(i) = Behind(event_ring[i].trb[2])
      BY <2>2 DEF OutInv, Recent, Age
    <3>2. Age(i) \in 0 .. LinkAt - 1
      BY <3>1, OutTypes
    <3>3. Age(i) < LinkAt - 1
      BY <1>2, <1>3, <3>1, <3>2
    <3>4. Behind(event_ring[i].trb[2])' = Behind(event_ring[i].trb[2]) + 1
      BY <1>1, <1>6, <3>1, <3>3
    <3> QED
      BY <1>1, <2>2, <3>1, <3>2, <3>4 DEF Age
  <2>3. CASE ~event_ring[i].ok
    <3>1. Age(i) = Waiting("out") - 1 /\ Age(i)' = Waiting("out")' - 1
      BY <1>1, <2>3 DEF Age
    <3> QED
      BY <1>2, <1>4, <3>1
  <2> QED
    BY <2>1, <2>2, <2>3
<1>8. Recent'
  <2> SUFFICES ASSUME NEW i \in OutEvents
               PROVE  IF event_ring[i].ok
                      THEN /\ event_ring[i].trb[2] \in Place
                           /\ Waiting("out")' <= Age(i)' /\ Age(i)' < Unsettled'
                      ELSE endpoint'["out"] = "halted"
    BY <1>1, <1>5 DEF Recent
  <2>1. CASE event_ring[i].ok
    <3>1. event_ring[i].trb[2] \in Place /\ Waiting("out") <= Age(i) /\ Age(i) < Unsettled
      BY <2>1 DEF OutInv, Recent
    <3>2. Waiting("out")' <= Age(i)' /\ Age(i)' < Unsettled'
      BY <1>2, <1>3, <1>4, <1>7, <3>1
    <3> QED
      BY <2>1, <3>1, <3>2
  <2>2. CASE ~event_ring[i].ok
    BY <1>4, <2>2 DEF OutInv, Recent
  <2> QED
    BY <2>1, <2>2
<1>9. Ordered'
  <2> SUFFICES ASSUME NEW i \in OutEvents, NEW j \in OutEvents, After(i) < After(j)
               PROVE  Age(j)' < Age(i)'
    BY <1>5 DEF Ordered
  <2>1. Age(j) < Age(i)
    BY DEF OutInv, Ordered
  <2> QED
    BY <1>7, <2>1
<1>10. OutRing'
  <2> SUFFICES ASSUME endpoint["out"] # "halted" PROVE OutRing'
    BY <1>4 DEF OutRing
  <2>1. Waiting("out") <= timeouts /\ IsQueue("out")
    BY <1>1, <1>3 DEF OutInv, OutRing, Stuck
  <2>2. Waiting("out")' <= Unsettled'
    BY <1>2, <1>3, <1>4, <2>1
  <2>3. CASE dequeue["out"] = LinkAt /\ Waiting("out") = LinkAt - 1
    <3>1. timeouts = LinkAt - 1
      BY <1>2, <2>1, <2>3
    <3>2. OutEvents = {}
      <4> SUFFICES ASSUME NEW i \in OutEvents PROVE FALSE
        OBVIOUS
      <4>1. Waiting("out") <= Age(i) /\ Age(i) < Unsettled /\ Age(i) \in Int
        BY <1>7 DEF OutInv, Recent
      <4> QED
        BY <1>2, <1>3, <2>3, <3>1, <4>1
    <3>3. ring'["out"][LinkAt].cycle # ccs["out"]
      <4>1. /\ enqueue["out"] = LinkAt - 1 /\ cycle["out"] = 1 - ccs["out"]
        BY <1>2, <2>1, <2>3 DEF IsQueue, Ends
      <4>2. ring \in [Ring -> [Index -> TrbType]] /\ LinkAt \in Index /\ ccs["out"] \in {0, 1}
        BY <1>2, Sizes DEF TypeOK, WriterOK, ReaderOK
      <4>3. ring'["out"][LinkAt] = Link(cycle["out"])
        BY <1>1, <1>2, <4>1, <4>2 DEF Put, LinkAt
      <4>4. Link(cycle["out"]).cycle = cycle["out"]
        BY DEF Link, Trb
      <4> QED
        BY <4>1, <4>2, <4>3, <4>4
    <3> QED
      BY <1>1, <1>5, <2>2, <2>3, <3>1, <3>2, <3>3 DEF OutRing, Stuck
  <2>4. CASE ~(dequeue["out"] = LinkAt /\ Waiting("out") = LinkAt - 1)
    <3>1. Waiting("out") < LinkAt
      BY <1>2, <2>1
    <3>2. IsQueue("out")'
      BY <1>1, <1>2, <2>1, <2>4, <3>1, PutQueue, Sizes DEF Transfers
    <3> QED
      BY <2>2, <3>2 DEF OutRing
  <2> QED
    BY <2>3, <2>4
<1>11. Sent'
  <2>1. PICK p : p = enqueue["out"]
    OBVIOUS
  <2>2. p \in Place /\ target' = <<"out", p>> /\ target'[2] = p
    BY <1>2, <1>4, <2>1 DEF Place
  <2>3. Behind(p)' = 0
    BY <1>2, <1>4, <2>1 DEF Behind
  <2>4. Behind(target[2])' = 0
    BY <2>2, <2>3 DEF Behind
  <2> QED
    BY <2>2, <2>4 DEF Sent
<1>12. Waiting("out")' >= 1
  BY <1>2, <1>4
<1>13. Waiting("out")' >= 0
  BY <1>2, <1>4
<1> QED
  BY <1>8, <1>9, <1>10, <1>11, <1>12, <1>13 DEF OutInv

(* The oldest command that waits is the one the controller is at.          *)
LEMMA HeadIsOldest ==
  ASSUME TypeOK, IsQueue("out"), dequeue["out"] \in Place, Waiting("out") \in 1 .. LinkAt
  PROVE  Behind(dequeue["out"]) = Waiting("out") - 1
<1>1. /\ dequeue["out"] \in 0 .. LinkAt - 1 /\ enqueue["out"] \in 0 .. LinkAt - 1
      /\ LinkAt \in Nat /\ Waiting("out") \in 1 .. LinkAt
  BY OutTypes, Sizes DEF Place
<1>2. enqueue["out"] = IF dequeue["out"] + Waiting("out") < LinkAt
                       THEN dequeue["out"] + Waiting("out")
                       ELSE dequeue["out"] + Waiting("out") - LinkAt
  BY DEF IsQueue, Ends
<1> QED
  BY <1>1, <1>2 DEF Behind

LEMMA PostsOut ==
  ASSUME EventInv, NEW ok, NEW slot, Post("transfer", "out", ok, slot),
         UNCHANGED <<event_dequeue, event_cycle>>
  PROVE  /\ OutEvents' = OutEvents \cup {tail}
         /\ \A i \in OutEvents : event_ring'[i] = event_ring[i]
         /\ event_ring'[tail].trb[2] = dequeue["out"] /\ event_ring'[tail].ok = ok
         /\ \A t \in {tail}, i \in OutEvents' : ~(After(t)' < After(i)')
         /\ \A i, j \in OutEvents : After(i)' < After(j)' => After(i) < After(j)
<1> DEFINE e == [type |-> "transfer", trb |-> <<"out", dequeue["out"]>>, ok |-> ok,
                 slot |-> slot, cycle |-> tail_cycle]
<1>1. /\ Unread' = Unread \cup {tail} /\ tail \notin Unread /\ tail \in Index
      /\ \A i \in Index : event_ring'[i] = IF i = tail THEN e ELSE event_ring[i]
  BY PostsUnread
<1>2. TypeOK /\ dequeue["out"] \in Index
  BY DEF EventInv, TypeOK, ReaderOK, Ring
<1>3. /\ e.type = "transfer" /\ e.trb \in {"out"} \X Index /\ e.trb[2] = dequeue["out"]
      /\ e.ok = ok
  BY <1>2
<1> HIDE DEF e
<1>4. Unread \subseteq Index /\ OutEvents \subseteq Unread
  BY DEF Unread, OutEvents
<1>5. OutEvents' = OutEvents \cup {tail} /\ \A i \in OutEvents : event_ring'[i] = event_ring[i]
  BY <1>1, <1>3, <1>4 DEF OutEvents
<1>6. \A i : After(i)' = IF event_dequeue <= i THEN i - event_dequeue
                         ELSE i + RingSize - event_dequeue
  BY DEF After
<1>7. \A i : After(i)' = After(i)
  BY <1>6 DEF After
<1>8. \A t \in {tail}, i \in OutEvents' : ~(After(t)' < After(i)')
  <2> SUFFICES ASSUME NEW t \in {tail}, NEW i \in OutEvents' PROVE ~(After(t) < After(i))
    BY <1>7
  <2>1. CASE i = t
    BY <1>1, <1>2, <2>1, OutTypes
  <2>2. CASE i # t
    <3>1. i \in Unread
      BY <1>4, <1>5, <2>2
    <3> QED
      BY <3>1, TailIsLast
  <2> QED
    BY <2>1, <2>2
<1> QED
  BY <1>1, <1>3, <1>5, <1>7, <1>8

(* The disk takes the oldest command that waits: its age is the least.     *)
LEMMA TakeOut ==
  ASSUME TypeOK, TypeOK', EventInv, OutInv, DoCbw
  PROVE  OutInv' /\ Waiting("out") >= 1
<1>1. /\ Take("out", "cbw") /\ Owns("out") /\ AtHead("out").kind = "cbw"
      /\ UNCHANGED <<pc, target, enqueue, cycle, endpoint, timeouts, event_dequeue, event_cycle>>
      /\ endpoint["out"] = "running" /\ AtHead("out").cycle = ccs["out"]
  BY DEF DoCbw, Take, Owns, driver
<1>2. "out" \in Ring /\ Waiting("out") \in Int /\ Unsettled \in Nat /\ LinkAt \in Nat
  BY OutTypes, Sizes
<1>3. ~Stuck
  BY <1>1 DEF Stuck, AtHead
<1>4. IsQueue("out") /\ Waiting("out") <= Unsettled
  BY <1>1, <1>3 DEF OutInv, OutRing
<1>5. IsQueue("out")' /\ Waiting("out") \in 1 .. LinkAt /\ Waiting("out")' = Waiting("out") - 1
  BY <1>1, <1>2, <1>4, TakeQueue DEF Transfers
<1>6. dequeue["out"] \in Place
  <2>1. "cbw" \notin {"none", "link"}
    OBVIOUS
  <2> QED
    BY <1>1, <1>2, <1>4, <2>1, TakenWaited
<1>7. Behind(dequeue["out"]) = Waiting("out") - 1
  BY <1>4, <1>5, <1>6, HeadIsOldest
<1>8. \A p : Behind(p)' = Behind(p)
  BY <1>1 DEF Behind
<1>9. /\ OutEvents' = OutEvents \cup {tail}
      /\ \A i \in OutEvents : event_ring'[i] = event_ring[i]
      /\ event_ring'[tail].trb[2] = dequeue["out"] /\ event_ring'[tail].ok
      /\ \A t \in {tail}, i \in OutEvents' : ~(After(t)' < After(i)')
      /\ \A i, j \in OutEvents : After(i)' < After(j)' => After(i) < After(j)
  <2>1. PICK ok : ok = TRUE /\ Post("transfer", "out", ok, 0)
    BY DEF DoCbw
  <2>2. Post("transfer", "out", ok, 0) /\ UNCHANGED <<event_dequeue, event_cycle>>
    BY <1>1, <2>1
  <2>3. event_ring'[tail].ok = ok /\ ok = TRUE
    BY <2>1, <2>2, PostsOut
  <2> QED
    BY <2>2, <2>3, PostsOut
<1>10. \A i \in OutEvents : /\ event_ring[i].ok /\ event_ring[i].trb[2] \in Place
                            /\ Waiting("out") <= Age(i) /\ Age(i) < Unsettled
                            /\ Age(i) = Behind(event_ring[i].trb[2]) /\ Age(i) \in Int
                            /\ Age(i)' = Age(i)
  <2> TAKE i \in OutEvents
  <2>1. event_ring[i].ok
    BY <1>1 DEF OutInv, Recent
  <2>2. event_ring[i].trb[2] \in Place /\ Waiting("out") <= Age(i) /\ Age(i) < Unsettled
    BY <2>1 DEF OutInv, Recent
  <2>3. Age(i) = Behind(event_ring[i].trb[2]) /\ Age(i) \in 0 .. LinkAt - 1
    BY <2>1, <2>2, OutTypes DEF Age
  <2>4. Age(i)' = Behind(event_ring[i].trb[2])
    BY <1>8, <1>9, <2>1 DEF Age
  <2> QED
    BY <2>1, <2>2, <2>3, <2>4
<1>11. \A t \in {tail} : Age(t)' = Waiting("out") - 1
  <2> SUFFICES ASSUME NEW t \in {tail} PROVE Age(t)' = Waiting("out") - 1
    OBVIOUS
  <2>1. event_ring'[t].ok /\ event_ring'[t].trb[2] = dequeue["out"]
    BY <1>9
  <2>2. Age(t)' = IF event_ring'[t].ok THEN Behind(event_ring'[t].trb[2])
                  ELSE Waiting("out")' - 1
    BY <1>8 DEF Age
  <2> QED
    BY <1>7, <2>1, <2>2
<1>12. Unsettled' = Unsettled
  BY <1>1 DEF Unsettled
<1>13. Recent'
  <2> SUFFICES ASSUME NEW i \in OutEvents'
               PROVE  /\ event_ring'[i].ok /\ event_ring'[i].trb[2] \in Place
                      /\ Waiting("out")' <= Age(i)' /\ Age(i)' < Unsettled'
    BY DEF Recent
  <2>1. CASE i \in OutEvents
    BY <1>2, <1>5, <1>9, <1>10, <1>12, <2>1
  <2>2. CASE i = tail
    <3>1. event_ring'[i].ok /\ event_ring'[i].trb[2] \in Place
      BY <1>6, <1>9, <2>2
    <3>2. Age(i)' = Waiting("out") - 1
      BY <1>11, <2>2
    <3> QED
      BY <1>2, <1>4, <1>5, <1>12, <3>1, <3>2
  <2> QED
    BY <1>9, <2>1, <2>2
<1>14. Ordered'
  <2> SUFFICES ASSUME NEW i \in OutEvents', NEW j \in OutEvents', After(i)' < After(j)'
               PROVE  Age(j)' < Age(i)'
    BY DEF Ordered
  <2>1. i # tail /\ i \in OutEvents
    BY <1>9
  <2>2. CASE j = tail
    <3>1. Age(j)' = Waiting("out") - 1 /\ Waiting("out") <= Age(i)' /\ Age(i)' \in Int
      BY <1>10, <1>11, <2>1, <2>2
    <3> QED
      BY <1>2, <3>1
  <2>3. CASE j # tail
    <3>1. j \in OutEvents
      BY <1>9, <2>3
    <3>2. After(i) < After(j)
      BY <1>9, <2>1, <3>1
    <3> QED
      BY <1>10, <2>1, <3>1, <3>2 DEF OutInv, Ordered
  <2> QED
    BY <2>2, <2>3
<1>15. OutRing'
  <2>1. Waiting("out")' <= Unsettled'
    BY <1>2, <1>4, <1>5, <1>12
  <2> QED
    BY <1>5, <2>1 DEF OutRing
<1>16. Sent'
  BY <1>1, <1>8 DEF OutInv, Sent
<1>17. Waiting("out")' >= 0 /\ Waiting("out") >= 1
  BY <1>2, <1>5
<1> QED
  BY <1>13, <1>14, <1>15, <1>16, <1>17 DEF OutInv

(* An entry that was cleared and not filled yet: the endpoint halts there. *)
LEMMA HaltOut ==
  ASSUME TypeOK, TypeOK', EventInv, OutInv, Halt("out")
  PROVE  OutInv'
<1>1. /\ UNCHANGED <<pc, target, ring, enqueue, cycle, queued, dequeue, ccs, taken, timeouts,
                     event_dequeue, event_cycle>>
      /\ endpoint["out"] = "running" /\ endpoint'["out"] = "halted"
  BY DEF Halt, Owns, driver, history, TypeOK, EndpointOK, Ring
<1>2. "out" \in Ring /\ Waiting("out") \in Int
  BY OutTypes
<1>3. /\ OutEvents' = OutEvents \cup {tail}
      /\ \A i \in OutEvents : event_ring'[i] = event_ring[i]
      /\ ~event_ring'[tail].ok
      /\ \A t \in {tail}, i \in OutEvents' : ~(After(t)' < After(i)')
      /\ \A i, j \in OutEvents : After(i)' < After(j)' => After(i) < After(j)
  <2>1. PICK ok : ok = FALSE /\ Post("transfer", "out", ok, 0)
    BY DEF Halt
  <2>2. Post("transfer", "out", ok, 0) /\ UNCHANGED <<event_dequeue, event_cycle>>
    BY <1>1, <2>1
  <2>3. event_ring'[tail].ok = ok /\ ok = FALSE
    BY <2>1, <2>2, PostsOut
  <2> QED
    BY <2>2, <2>3, PostsOut
<1>4. /\ \A p : Behind(p)' = Behind(p)
      /\ Waiting("out")' = Waiting("out") /\ Unsettled' = Unsettled
  BY <1>1 DEF Behind, Waiting, Unsettled
<1>5. \A i \in OutEvents : /\ event_ring[i].ok /\ event_ring[i].trb[2] \in Place
                           /\ Waiting("out") <= Age(i) /\ Age(i) < Unsettled
                           /\ Age(i)' = Age(i) /\ Age(i) \in Int
  <2> TAKE i \in OutEvents
  <2>1. event_ring[i].ok
    BY <1>1 DEF OutInv, Recent
  <2>2. event_ring[i].trb[2] \in Place /\ Waiting("out") <= Age(i) /\ Age(i) < Unsettled
    BY <2>1 DEF OutInv, Recent
  <2>3. Age(i) = Behind(event_ring[i].trb[2]) /\ Age(i) \in 0 .. LinkAt - 1
    BY <2>1, <2>2, OutTypes DEF Age
  <2>4. Age(i)' = Behind(event_ring[i].trb[2])
    BY <1>3, <1>4, <2>1 DEF Age
  <2> QED
    BY <2>1, <2>2, <2>3, <2>4
<1>6. \A t \in {tail} : Age(t)' = Waiting("out") - 1
  BY <1>3, <1>4 DEF Age
<1>7. Recent'
  <2> SUFFICES ASSUME NEW i \in OutEvents', event_ring'[i].ok
               PROVE  /\ event_ring'[i].trb[2] \in Place
                      /\ Waiting("out")' <= Age(i)' /\ Age(i)' < Unsettled'
    BY <1>1 DEF Recent
  <2>1. i \in OutEvents
    BY <1>3
  <2> QED
    BY <1>3, <1>4, <1>5, <2>1
<1>8. Ordered'
  <2> SUFFICES ASSUME NEW i \in OutEvents', NEW j \in OutEvents', After(i)' < After(j)'
               PROVE  Age(j)' < Age(i)'
    BY DEF Ordered
  <2>1. i # tail /\ i \in OutEvents
    BY <1>3
  <2>2. CASE j = tail
    <3>1. Age(j)' = Waiting("out") - 1 /\ Waiting("out") <= Age(i)' /\ Age(i)' \in Int
      BY <1>5, <1>6, <2>1, <2>2
    <3> QED
      BY <1>2, <3>1
  <2>3. CASE j # tail
    <3>1. j \in OutEvents
      BY <1>3, <2>3
    <3>2. After(i) < After(j)
      BY <1>3, <2>1, <3>1
    <3> QED
      BY <1>5, <2>1, <3>1, <3>2 DEF OutInv, Ordered
  <2> QED
    BY <2>2, <2>3
<1>9. Sent'
  BY <1>1, <1>4 DEF OutInv, Sent
<1> QED
  BY <1>1, <1>4, <1>7, <1>8, <1>9 DEF OutInv, OutRing

(* The driver sees an answer at the address of its last command.  If it is *)
(* a good one, that command was taken; and no older answer is left.        *)
LEMMA CbwEnds ==
  ASSUME TypeOK, TypeOK', EventInv, OutInv, pc = "cbw", IsTarget, TakeEvent, SameRing("out"),
         UNCHANGED <<event_ring, tail, tail_cycle, endpoint, timeouts>>, pc' # "cbw"
  PROVE  OutInv' /\ (Event.ok => Waiting("out") = 0)
<1>1. /\ "out" \in Ring /\ Waiting("out") \in Int /\ Waiting("out") >= 0
      /\ timeouts \in Nat /\ Unsettled' = timeouts
  <2>1. Unsettled' = timeouts' + 0 /\ timeouts' \in Nat
    BY DEF Unsettled, TypeOK, DriverOK
  <2> QED
    BY <2>1, OutTypes DEF OutInv
<1>2. (IsQueue("out")' <=> IsQueue("out")) /\ Waiting("out")' = Waiting("out")
  BY <1>1, OtherRing
<1>3. /\ target \in {"out"} \X Place /\ Behind(target[2]) = 0
      /\ Event = event_ring[event_dequeue] /\ Event.type = "transfer" /\ Event.trb = target
  BY DEF OutInv, Sent, IsTarget, Event
<1>4. event_dequeue \in OutEvents /\ OutEvents' = OutEvents \ {event_dequeue}
  <2>1. event_dequeue \in Unread /\ Unread' = Unread \ {event_dequeue}
    BY TakesUnread
  <2>2. {"out"} \X Place \subseteq {"out"} \X Index
    BY Sizes
  <2> QED
    BY <1>3, <2>1, <2>2 DEF OutEvents
<1>5. /\ \A i \in OutEvents' : After(event_dequeue) < After(i)
      /\ \A i, j \in OutEvents' : After(i)' < After(j)' => After(i) < After(j)
  BY <1>4, AfterTakes, OutTypes
<1>6. \A i \in OutEvents' : Age(i)' = Age(i) /\ event_ring'[i] = event_ring[i]
  <2>1. \A p : Behind(p)' = Behind(p)
    BY DEF Behind, SameRing
  <2> QED
    BY <1>2, <2>1 DEF Age
<1>7. Event.ok => Age(event_dequeue) = 0 /\ Waiting("out") = 0
  <2>1. Event.ok => Age(event_dequeue) = 0 /\ Waiting("out") <= Age(event_dequeue)
    BY <1>3, <1>4 DEF OutInv, Recent, Age
  <2> QED
    BY <1>1, <2>1
<1>8. ~Event.ok => Age(event_dequeue) = Waiting("out") - 1
  BY <1>3 DEF Age
<1>9. \A i \in OutEvents' : ~event_ring[i].ok /\ endpoint["out"] = "halted"
  <2> SUFFICES ASSUME NEW i \in OutEvents', event_ring[i].ok PROVE FALSE
    BY <1>4 DEF OutInv, Recent
  <2>1. Age(i) < Age(event_dequeue)
    BY <1>4, <1>5 DEF OutInv, Ordered
  <2>2. Waiting("out") <= Age(i) /\ Age(i) \in 0 .. LinkAt - 1
    BY <1>4, OutTypes DEF OutInv, Recent, Age
  <2>3. CASE Event.ok
    BY <1>1, <1>7, <2>1, <2>2, <2>3, Sizes
  <2>4. CASE ~Event.ok
    BY <1>1, <1>8, <2>1, <2>2, <2>4, Sizes
  <2> QED
    BY <2>3, <2>4
<1>10. Recent'
  BY <1>6, <1>9 DEF Recent
<1>11. Ordered'
  BY <1>4, <1>5, <1>6 DEF OutInv, Ordered
<1>12. OutRing'
  <2>1. CASE endpoint["out"] = "halted"
    BY <2>1 DEF OutRing
  <2>2. CASE endpoint["out"] # "halted"
    <3>1. Event.ok
      BY <1>3, <1>4, <2>2 DEF OutInv, Recent
    <3>2. Waiting("out")' <= Unsettled'
      BY <1>1, <1>2, <1>7, <3>1
    <3>3. IsQueue("out")
      BY <1>4, <2>2 DEF OutInv, OutRing, Stuck
    <3> QED
      BY <1>2, <3>2, <3>3 DEF OutRing
  <2> QED
    BY <2>1, <2>2
<1> QED
  BY <1>1, <1>2, <1>7, <1>10, <1>11, <1>12 DEF OutInv, Sent

(* Everything else leaves the ring of commands to the disk alone.          *)
LEMMA OutRests ==
  ASSUME TypeOK, TypeOK', OutInv, Patient', Quiet, SameRing("out"),
         endpoint["out"] = "halted" => endpoint'["out"] = "halted",
         \/ timeouts' = timeouts /\ (pc' = pc \/ (pc # "cbw" /\ pc' # "cbw"))
         \/ timeouts' = timeouts + 1 /\ pc' # "cbw",
         pc' = "cbw" => target' = target
  PROVE  OutInv' /\ Waiting("out")' = Waiting("out")
<1>1. timeouts \in Nat /\ timeouts' \in Nat
  BY DEF TypeOK, DriverOK
<1>2. /\ timeouts <= timeouts' /\ Unsettled <= Unsettled'
      /\ pc = "cbw" => pc' = "cbw" \/ timeouts < timeouts'
      /\ pc' = "cbw" => pc = "cbw" /\ target' = target
  <2>1. CASE timeouts' = timeouts /\ (pc' = pc \/ (pc # "cbw" /\ pc' # "cbw"))
    <3>1. Unsettled' = Unsettled /\ Unsettled \in Nat
      BY <2>1, OutTypes DEF Unsettled
    <3> QED
      BY <1>1, <2>1, <3>1
  <2>2. CASE timeouts' = timeouts + 1 /\ pc' # "cbw"
    <3>1. Unsettled' = timeouts + 1 + 0
      BY <2>2 DEF Unsettled
    <3>2. Unsettled \in Nat /\ Unsettled <= timeouts + 1
      BY <1>1, OutTypes DEF Unsettled
    <3> QED
      BY <1>1, <2>2, <3>1, <3>2
  <2> QED
    BY <2>1, <2>2
<1>3. OutRing' /\ Waiting("out")' = Waiting("out") /\ enqueue'["out"] = enqueue["out"]
  BY <1>1, <1>2, OutRingStays DEF OutInv
<1> QED
  BY <1>2, <1>3, OutStays

LEMMA FollowOut ==
  ASSUME TypeOK, TypeOK', EventInv, OutInv, Follow("out")
  PROVE  OutInv' /\ Waiting("out")' = Waiting("out")
<1>1. /\ UNCHANGED <<pc, target, enqueue, endpoint, timeouts, event_ring, event_dequeue, tail>>
      /\ endpoint["out"] = "running" /\ AtHead("out").cycle = ccs["out"]
  BY DEF Follow, Owns, driver, history
<1>2. IsQueue("out") /\ Waiting("out") <= Unsettled
  BY <1>1 DEF OutInv, OutRing, Stuck, AtHead
<1>3. IsQueue("out")' /\ Waiting("out")' = Waiting("out")
  BY <1>2, FollowQueue, OutTypes
<1>4. Quiet
  BY <1>1, EventsQuiet
<1>5. Unsettled' = Unsettled /\ Unsettled \in Nat
  BY <1>1, OutTypes DEF Unsettled
<1>6. OutRing'
  BY <1>2, <1>3, <1>5 DEF OutRing
<1>7. Unsettled <= Unsettled'
  BY <1>5
<1> QED
  BY <1>1, <1>3, <1>4, <1>6, <1>7, OutStays

(* A transaction begins with clearing the entry for its command.           *)
LEMMA BeginOut ==
  ASSUME TypeOK, TypeOK', EventInv, Patient, OutInv,
         SetConfiguration \/ FirstRead \/ ReadSector
  PROVE  OutInv'
<1>1. /\ Clear("out") /\ pc \in {"set_configuration", "first_read", "idle"} /\ pc' = "queue_cbw"
      /\ UNCHANGED <<enqueue, cycle, queued, dequeue, ccs, taken, endpoint, timeouts, event_ring,
                     event_dequeue, tail>>
  BY DEF SetConfiguration, FirstRead, ReadSector, Begin, controller
<1>2. "out" \in Ring /\ Waiting("out") \in Int /\ timeouts \in Nat /\ LinkAt \in Nat
  BY OutTypes, Sizes
<1>3. Unsettled = timeouts /\ Unsettled' = timeouts
  BY <1>1, <1>2 DEF Unsettled
<1>4. Waiting("out")' = Waiting("out") /\ enqueue'["out"] = enqueue["out"]
  BY <1>1 DEF Waiting
<1>5. OutRing'
  <2>1. CASE endpoint["out"] = "halted"
    BY <1>1, <2>1 DEF OutRing
  <2>2. CASE endpoint["out"] # "halted"
    <3>1. Waiting("out") <= timeouts /\ IsQueue("out")
      BY <1>1, <1>3, <2>2 DEF OutInv, OutRing, Stuck
    <3>2. Waiting("out") < LinkAt
      BY <1>2, <3>1 DEF Patient
    <3>3. IsQueue("out")'
      BY <1>1, <1>2, <3>1, <3>2, ClearQueue
    <3> QED
      BY <1>3, <1>4, <3>1, <3>3 DEF OutRing
  <2> QED
    BY <2>1, <2>2
<1>6. Quiet
  BY <1>1, EventsQuiet
<1>7. Unsettled <= Unsettled'
  BY <1>2, <1>3
<1> QED
  BY <1>1, <1>4, <1>5, <1>6, <1>7, OutStays

-----------------------------------------------------------------------------
(* The steps that are no business of the ring of commands to the disk, and *)
(* those that leave the transaction where it is.                           *)
RestsOut ==
  /\ Quiet /\ SameRing("out") /\ (endpoint["out"] = "halted" => endpoint'["out"] = "halted")
  /\ \/ timeouts' = timeouts /\ (pc' = pc \/ (pc # "cbw" /\ pc' # "cbw"))
     \/ timeouts' = timeouts + 1 /\ pc' # "cbw"
  /\ pc' = "cbw" => target' = target

OwnRests ==
  /\ UNCHANGED <<cbw, csw, buffer, device>>
  /\ \/ pc' = pc
     \/ pc' \notin Moving \cup {"cbw"}
     \/ pc = "queue_data" /\ pc' = "data"
     \/ pc = "queue_csw" /\ pc' = "csw"

LEMMA OwnStays ==
  ASSUME Own, OwnRests, Waiting("out")' = Waiting("out")
  PROVE  Own'
<1>1. CASE pc' = pc
  BY <1>1 DEF Own, OwnRests
<1>2. CASE pc' \notin Moving \cup {"cbw"}
  BY <1>2 DEF Own, Moving
<1>3. CASE pc = "queue_data" /\ pc' = "data"
  BY <1>3 DEF Own, OwnRests, Moving
<1>4. CASE pc = "queue_csw" /\ pc' = "csw"
  BY <1>4 DEF Own, OwnRests, Moving
<1> QED
  BY <1>1, <1>2, <1>3, <1>4 DEF OwnRests

LEMMA RightRests ==
  ASSUME TypeOK, TypeOK', OutInv, Own, Patient', RestsOut
  PROVE  OutInv' /\ Waiting("out")' = Waiting("out") /\ (OwnRests => Own')
<1>1. OutInv' /\ Waiting("out")' = Waiting("out")
  BY OutRests DEF RestsOut
<1> QED
  BY <1>1, OwnStays

LEMMA PutsElsewhere ==
  ASSUME EventInv, EnableSlot \/ AddressDevice \/ ConfigureEndpoints \/ QueueData \/ QueueCsw
  PROVE  RestsOut /\ OwnRests
<1>1. PICK r \in Ring \ {"out"} : (\E kind, slot : Put(r, kind, slot)) /\ RingDoorbell(r)
  BY DEF EnableSlot, AddressDevice, ConfigureEndpoints, QueueData, QueueCsw, Queue, Ring
<1>2. /\ UNCHANGED <<cbw, csw, buffer, device, dequeue, ccs, taken, timeouts, event_ring,
                     event_dequeue, tail>>
      /\ \/ pc' \in {"enabling", "addressing", "configuring"} /\ pc # "cbw"
         \/ pc = "queue_data" /\ pc' = "data"
         \/ pc = "queue_csw" /\ pc' = "csw"
  BY DEF EnableSlot, AddressDevice, ConfigureEndpoints, QueueData, QueueCsw, Queue, controller
<1>3. SameRing("out") /\ endpoint'["out"] = endpoint["out"]
  BY <1>1, <1>2 DEF SameRing, Put, RingDoorbell, EventInv, TypeOK, WriterOK, EndpointOK, Ring
<1>4. Quiet
  BY <1>2, EventsQuiet
<1>5. RestsOut
  BY <1>2, <1>3, <1>4 DEF RestsOut
<1> QED
  BY <1>2, <1>5 DEF OwnRests, Moving

LEMMA WaitsElsewhere ==
  ASSUME EventInv,
         \/ SkipDevice \/ Discard \/ CommandAnswered \/ CommandTimesOut
         \/ \E ok \in BOOLEAN : FetchDescriptors(ok)
         \/ TransferTimesOut \/ CswCame \/ (TransferFails /\ pc # "cbw")
         \/ UNCHANGED vars
  PROVE  RestsOut /\ OwnRests
<1>1. /\ UNCHANGED <<cbw, csw, buffer, device, dequeue, ccs, taken, event_ring, tail, tail_cycle,
                     ring, enqueue, cycle, queued, endpoint, target>>
      /\ TakeEvent \/ UNCHANGED event_dequeue
  <2>1. CASE SkipDevice \/ Discard \/ CommandAnswered \/ \E ok \in BOOLEAN : FetchDescriptors(ok)
    BY <2>1 DEF SkipDevice, Discard, CommandAnswered, FetchDescriptors, controller, history
  <2>2. CASE CommandTimesOut \/ TransferTimesOut
    BY <2>2 DEF CommandTimesOut, TransferTimesOut, TimeOut, controller
  <2>3. CASE TransferFails \/ CswCame
    BY <2>3 DEF TransferFails, CswCame, Answered, controller
  <2>4. CASE UNCHANGED vars
    BY <2>4 DEF vars, driver, controller, history
  <2> QED
    BY <2>1, <2>2, <2>3, <2>4
<1>2. /\ \/ timeouts' = timeouts /\ (pc' = pc \/ (pc # "cbw" /\ pc' # "cbw"))
         \/ timeouts' = timeouts + 1 /\ pc' # "cbw"
      /\ pc' = pc \/ pc' \notin Moving \cup {"cbw"}
  <2>1. CASE SkipDevice \/ \E ok \in BOOLEAN : FetchDescriptors(ok)
    BY <2>1 DEF SkipDevice, FetchDescriptors, NextDevice, NextPort, history, Moving
  <2>2. CASE Discard
    BY <2>2 DEF Discard, history
  <2>3. CASE UNCHANGED vars
    BY <2>3 DEF vars, driver, history
  <2>4. CASE CommandAnswered
    <3>1. \E ok, slot : CommandEnds(ok, slot)
      BY <2>4 DEF CommandAnswered
    <3>2. WaitsForCommand /\ timeouts' = timeouts
      BY <2>4 DEF CommandAnswered, history
    <3>3. pc' \notin Moving \cup {"cbw"} /\ pc # "cbw"
      BY <3>1, <3>2 DEF CommandEnds, WaitsForCommand, NextPort, NextDevice, Moving
    <3> QED
      BY <3>2, <3>3
  <2>5. CASE CommandTimesOut
    <3>1. CommandEnds(FALSE, 0) /\ WaitsForCommand /\ timeouts' = timeouts + 1
      BY <2>5 DEF CommandTimesOut, TimeOut
    <3>2. pc' \notin Moving \cup {"cbw"} /\ pc # "cbw"
      BY <3>1 DEF CommandEnds, WaitsForCommand, NextPort, NextDevice, Moving
    <3> QED
      BY <3>1, <3>2
  <2>6. CASE TransferTimesOut
    <3>1. Return(FALSE) /\ timeouts' = timeouts + 1
      BY <2>6 DEF TransferTimesOut, TimeOut
    <3> QED
      BY <3>1 DEF Return, NextDevice, NextPort, Moving
  <2>7. CASE CswCame \/ (TransferFails /\ pc # "cbw")
    <3>1. (\E b : Return(b)) /\ timeouts' = timeouts /\ pc # "cbw"
      BY <2>7 DEF CswCame, TransferFails, Answered
    <3> QED
      BY <3>1 DEF Return, NextDevice, NextPort, Moving
  <2> QED
    BY <2>1, <2>2, <2>3, <2>4, <2>5, <2>6, <2>7
<1>3. Quiet
  BY <1>1, EventsQuiet
<1>4. SameRing("out")
  BY <1>1 DEF SameRing
<1> QED
  BY <1>1, <1>2, <1>3, <1>4 DEF RestsOut, OwnRests

LEMMA DataRests ==
  ASSUME EventInv, DataCame
  PROVE  RestsOut
<1>1. /\ Clear("in") /\ TakeEvent /\ pc = "data" /\ pc' = "queue_csw"
      /\ UNCHANGED <<dequeue, ccs, taken, event_ring, tail, tail_cycle, enqueue, cycle, queued,
                     endpoint, timeouts>>
  BY DEF DataCame, Answered, controller
<1>2. SameRing("out")
  BY <1>1 DEF SameRing, Clear, EventInv, TypeOK, WriterOK, Ring
<1>3. Quiet
  BY <1>1, EventsQuiet
<1> QED
  BY <1>1, <1>2, <1>3 DEF RestsOut

(* What the controller does on other rings.                                *)
LEMMA TakesElsewhere ==
  ASSUME EventInv, NEW r \in Ring \ {"out"}, NEW kind, Take(r, kind),
         NEW type, NEW ok, NEW slot, Post(type, r, ok, slot)
  PROVE  RestsOut
<1>1. /\ UNCHANGED <<pc, target, enqueue, cycle, ring, endpoint, ccs, queued, timeouts,
                     event_dequeue, event_cycle>>
      /\ dequeue' = [dequeue EXCEPT ![r] = @ + 1] /\ taken' = [taken EXCEPT ![r] = @ + 1]
  BY DEF Take, driver
<1>2. SameRing("out")
  BY <1>1 DEF SameRing, EventInv, TypeOK, ReaderOK, Ring
<1>3. Quiet
  <2>1. Post(type, r, ok, slot) /\ r # "out" /\ UNCHANGED <<event_dequeue, event_cycle>>
    BY <1>1
  <2> QED
    BY <2>1, EventsQuiet
<1> QED
  BY <1>1, <1>2, <1>3 DEF RestsOut

LEMMA ControllerElsewhere ==
  ASSUME EventInv,
         \/ \E r \in Ring : Rest(r)
         \/ \E r \in Ring \ {"out"} : Follow(r) \/ Halt(r)
         \/ \E ok \in BOOLEAN :
              \/ DoEnable(ok)
              \/ DoCommand("address", "enabled", "addressed", ok)
              \/ DoCommand("configure", "addressed", "configured", ok)
  PROVE  RestsOut /\ OwnRests
<1>1. UNCHANGED <<cbw, csw, buffer, device, pc>>
  BY DEF Rest, Follow, Halt, DoEnable, DoCommand, Take, driver, controller
<1>2. CASE \E r \in Ring : Rest(r)
  <2>1. PICK r \in Ring : Rest(r)
    BY <1>2
  <2>2. /\ UNCHANGED <<pc, target, enqueue, cycle, ring, dequeue, ccs, queued, taken, timeouts,
                       event_ring, event_dequeue, tail>>
        /\ endpoint[r] = "running" /\ endpoint' = [endpoint EXCEPT ![r] = "stopped"]
    BY <2>1 DEF Rest, driver, controller, history
  <2>3. endpoint["out"] = "halted" => endpoint'["out"] = "halted"
    BY <2>2 DEF EventInv, TypeOK, EndpointOK, Ring
  <2>4. SameRing("out") /\ Quiet
    BY <2>2, EventsQuiet DEF SameRing
  <2> QED
    BY <1>1, <2>2, <2>3, <2>4 DEF RestsOut, OwnRests
<1>3. ASSUME NEW r \in Ring \ {"out"}, Follow(r) PROVE RestsOut /\ OwnRests
  <2>1. /\ UNCHANGED <<pc, target, enqueue, cycle, ring, endpoint, queued, taken, timeouts,
                       event_ring, event_dequeue, tail>>
        /\ dequeue' = [dequeue EXCEPT ![r] = 0] /\ ccs' = [ccs EXCEPT ![r] = 1 - @]
    BY <1>3 DEF Follow, driver, history
  <2>2. SameRing("out")
    BY <2>1 DEF SameRing, EventInv, TypeOK, ReaderOK, Ring
  <2>3. Quiet
    BY <2>1, EventsQuiet
  <2> QED
    BY <1>1, <2>1, <2>2, <2>3 DEF RestsOut, OwnRests
<1>4. ASSUME NEW r \in Ring \ {"out"}, Halt(r) PROVE RestsOut /\ OwnRests
  <2>1. /\ UNCHANGED <<pc, target, enqueue, cycle, ring, dequeue, ccs, queued, taken, timeouts,
                       event_dequeue, event_cycle>>
        /\ endpoint' = [endpoint EXCEPT ![r] = "halted"]
    BY <1>4 DEF Halt, driver, history
  <2>2. PICK ok : ok = FALSE /\ Post("transfer", r, ok, 0)
    BY <1>4 DEF Halt
  <2>3. Post("transfer", r, ok, 0) /\ r # "out" /\ UNCHANGED <<event_dequeue, event_cycle>>
    BY <2>1, <2>2
  <2>4. Quiet
    BY <2>3, EventsQuiet
  <2>5. SameRing("out") /\ endpoint'["out"] = endpoint["out"]
    BY <2>1 DEF SameRing, EventInv, TypeOK, EndpointOK, Ring
  <2> QED
    BY <1>1, <2>1, <2>4, <2>5 DEF RestsOut, OwnRests
<1>5. ASSUME NEW ok \in BOOLEAN, DoEnable(ok) PROVE RestsOut /\ OwnRests
  <2>1. Take("command", "enable") /\ \E slot : Post("command", "command", ok, slot)
    BY <1>5 DEF DoEnable
  <2>2. "command" \in Ring \ {"out"}
    BY DEF Ring
  <2> QED
    BY <1>1, <2>1, <2>2, TakesElsewhere DEF OwnRests
<1>6. ASSUME NEW kind, NEW from, NEW to, NEW ok \in BOOLEAN, DoCommand(kind, from, to, ok)
      PROVE  RestsOut /\ OwnRests
  <2>1. Take("command", kind) /\ \E slot : Post("command", "command", ok, slot)
    BY <1>6 DEF DoCommand
  <2>2. "command" \in Ring \ {"out"}
    BY DEF Ring
  <2> QED
    BY <1>1, <2>1, <2>2, TakesElsewhere DEF OwnRests
<1> QED
  BY <1>2, <1>3, <1>4, <1>5, <1>6

LEMMA TimeoutsGrow ==
  ASSUME TypeOK, [Next]_vars, Patient'
  PROVE  Patient
<1>1. timeouts \in Nat /\ LinkAt \in Nat
  BY Sizes DEF TypeOK, DriverOK
<1>2. timeouts' = timeouts \/ timeouts' = timeouts + 1
  <2>1. CASE Driver
    <3>1. CASE QueuesEntry
      BY <3>1, QueuesOne DEF Queue
    <3>2. CASE \/ SkipDevice \/ Discard \/ CommandAnswered
               \/ \E ok \in BOOLEAN : FetchDescriptors(ok)
      BY <3>2 DEF SkipDevice, Discard, CommandAnswered, FetchDescriptors, history
    <3>3. CASE CommandTimesOut \/ TransferTimesOut
      BY <3>3 DEF CommandTimesOut, TransferTimesOut, TimeOut
    <3>4. CASE SetConfiguration \/ FirstRead \/ ReadSector
      BY <3>4 DEF SetConfiguration, FirstRead, ReadSector, Begin
    <3>5. CASE TransferFails \/ CbwSent \/ DataCame \/ CswCame
      BY <3>5 DEF TransferFails, CbwSent, DataCame, CswCame, Answered
    <3> QED
      BY <2>1, <3>1, <3>2, <3>3, <3>4, <3>5 DEF Driver, QueuesEntry
  <2>2. CASE Controller
    BY <2>2, ControllerRings
  <2>3. CASE UNCHANGED vars
    BY <2>3 DEF vars, history
  <2> QED
    BY <2>1, <2>2, <2>3 DEF Next
<1> QED
  BY <1>1, <1>2 DEF Patient

LEMMA RightInit == Init => RightInv
<1> SUFFICES ASSUME Init PROVE RightInv
  OBVIOUS
<1>1. ReadsInv /\ TypeOK
  BY ReadsInit DEF ReadsInv, RingInv
<1>2. /\ pc = "enable" /\ timeouts = 0 /\ queued["out"] = 0 /\ taken["out"] = 0
      /\ event_dequeue = 0 /\ tail = 0 /\ device.phase = "ready"
  BY DEF Init, Ring
<1>3. Waiting("out") = 0 /\ Unsettled = 0
  BY <1>2 DEF Waiting, Unsettled
<1>4. OutEvents = {}
  BY <1>2, Sizes DEF OutEvents, Unread
<1>5. IsQueue("out")
  BY <1>2, <1>1 DEF Init, ReadsInv, RingInv, Queues, Ring
<1>6. OutInv
  BY <1>2, <1>3, <1>4, <1>5 DEF OutInv, Recent, Ordered, OutRing, Sent
<1>7. Own /\ BufferIsDisks
  BY <1>2 DEF Own, Moving, BufferIsDisks
<1> QED
  BY <1>1, <1>6, <1>7 DEF RightInv

LEMMA BufferStays ==
  ASSUME TypeOK, BufferIsDisks, [Next]_vars
  PROVE  BufferIsDisks'
<1>1. CASE UNCHANGED <<device, buffer>>
  BY <1>1 DEF BufferIsDisks
<1>2. CASE Driver
  BY <1>1, <1>2, DriverRings
<1>3. CASE UNCHANGED vars
  BY <1>1, <1>3 DEF vars, controller
<1>4. CASE Controller
  <2>1. CASE DoCbw
    <3>1. device'.phase = "data"
      BY <2>1 DEF DoCbw
    <3> QED
      BY <3>1 DEF BufferIsDisks
  <2>2. CASE DoCsw
    <3>1. device'.phase = "ready"
      BY <2>2 DEF DoCsw, TypeOK, DeviceOK
    <3> QED
      BY <3>1 DEF BufferIsDisks
  <2>3. ASSUME NEW ok \in BOOLEAN, DoData(ok) PROVE BufferIsDisks'
    <3>1. device'.of = device.of /\ device'.ok = ok
      BY <2>3 DEF DoData, TypeOK, DeviceOK
    <3>2. buffer' = IF ok THEN device.of ELSE 0
      BY <2>3 DEF DoData
    <3> QED
      BY <3>1, <3>2 DEF BufferIsDisks
  <2>4. CASE \E r \in Ring : Follow(r) \/ Rest(r) \/ Halt(r)
    BY <1>1, <2>4 DEF Follow, Rest, Halt, controller
  <2>5. CASE \E ok \in BOOLEAN :
               \/ DoEnable(ok)
               \/ DoCommand("address", "enabled", "addressed", ok)
               \/ DoCommand("configure", "addressed", "configured", ok)
    BY <1>1, <2>5 DEF DoEnable, DoCommand
  <2> QED
    BY <1>4, <2>1, <2>2, <2>3, <2>4, <2>5 DEF Controller
<1> QED
  BY <1>2, <1>3, <1>4 DEF Next

LEMMA DriverOwns ==
  ASSUME RightInv, TypeOK', Patient, Patient', OutInv, Own, Driver
  PROVE  OutInv' /\ Own'
<1>1. TypeOK /\ EventInv
  BY DEF RightInv, ReadsInv, EventInv
<1>2. CASE RestsOut /\ OwnRests
  BY <1>1, <1>2, RightRests
<1>3. CASE EnableSlot \/ AddressDevice \/ ConfigureEndpoints \/ QueueData \/ QueueCsw
  BY <1>1, <1>2, <1>3, PutsElsewhere
<1>4. CASE \/ SkipDevice \/ Discard \/ CommandAnswered \/ CommandTimesOut
           \/ \E ok \in BOOLEAN : FetchDescriptors(ok)
           \/ TransferTimesOut \/ CswCame \/ (TransferFails /\ pc # "cbw")
  BY <1>1, <1>2, <1>4, WaitsElsewhere
<1>5. CASE QueueCbw
  <2>1. OutInv' /\ Waiting("out")' >= 1
    BY <1>1, <1>5, QueueOut
  <2>2. pc' = "cbw"
    BY <1>5 DEF QueueCbw, Queue
  <2>3. Waiting("out")' # 0
    BY <2>1
  <2> QED
    BY <2>1, <2>2, <2>3 DEF Own, Moving
<1>6. CASE SetConfiguration \/ FirstRead \/ ReadSector
  <2>1. OutInv'
    BY <1>1, <1>6, BeginOut
  <2>2. pc' = "queue_cbw"
    BY <1>6 DEF SetConfiguration, FirstRead, ReadSector, Begin
  <2> QED
    BY <2>1, <2>2 DEF Own, Moving
<1>7. CASE CbwSent \/ (TransferFails /\ pc = "cbw")
  <2>1. /\ pc = "cbw" /\ IsTarget /\ TakeEvent
        /\ UNCHANGED <<event_ring, tail, tail_cycle, endpoint, timeouts, enqueue, cycle, queued,
                       dequeue, ccs, taken, cbw, device>>
    BY <1>7 DEF CbwSent, TransferFails, Answered, controller
  <2>2. ring'["out"] = ring["out"]
    BY <1>1, <1>7 DEF CbwSent, TransferFails, Clear, TypeOK, WriterOK, Ring
  <2>3. SameRing("out")
    BY <2>1, <2>2 DEF SameRing
  <2>4. \/ CbwSent /\ pc' = "queue_data" /\ Event.ok
        \/ pc' \notin Moving \cup {"cbw"}
    BY <1>7 DEF CbwSent, TransferFails, Return, NextDevice, NextPort, Moving
  <2>5. OutInv' /\ (Event.ok => Waiting("out") = 0)
    BY <1>1, <2>1, <2>3, <2>4, CbwEnds
  <2>6. CASE CbwSent /\ pc' = "queue_data" /\ Event.ok
    <3>1. Waiting("out")' = Waiting("out") /\ Waiting("out") = 0
      BY <2>1, <2>5, <2>6 DEF Waiting
    <3>2. device'.of = cbw'
      BY <2>1, <3>1 DEF Own
    <3> QED
      BY <2>5, <2>6, <3>1, <3>2 DEF Own
  <2>7. CASE pc' \notin Moving \cup {"cbw"}
    BY <2>5, <2>7 DEF Own, Moving
  <2> QED
    BY <2>4, <2>6, <2>7
<1>8. CASE DataCame
  <2>1. OutInv' /\ Waiting("out")' = Waiting("out")
    BY <1>1, <1>8, DataRests, RightRests
  <2>2. /\ pc = "data" /\ pc' = "queue_csw" /\ UNCHANGED <<cbw, device>>
        /\ csw' = [of |-> 0, ok |-> FALSE]
    BY <1>8 DEF DataCame, Answered, controller
  <2>3. csw'.of = 0
    BY <2>2
  <2> QED
    BY <2>1, <2>2, <2>3 DEF Own, Moving
<1> QED
  BY <1>3, <1>4, <1>5, <1>6, <1>7, <1>8 DEF Driver

LEMMA ControllerOwns ==
  ASSUME RightInv, TypeOK', Patient, Patient', OutInv, Own, Controller
  PROVE  OutInv' /\ Own'
<1>1. TypeOK /\ EventInv
  BY DEF RightInv, ReadsInv, EventInv
<1>2. CASE RestsOut /\ OwnRests
  BY <1>1, <1>2, RightRests
<1>3. CASE \/ \E r \in Ring : Rest(r)
           \/ \E r \in Ring \ {"out"} : Follow(r) \/ Halt(r)
           \/ \E ok \in BOOLEAN :
                \/ DoEnable(ok)
                \/ DoCommand("address", "enabled", "addressed", ok)
                \/ DoCommand("configure", "addressed", "configured", ok)
  BY <1>1, <1>2, <1>3, ControllerElsewhere
<1>4. CASE Follow("out")
  <2>1. OutInv' /\ Waiting("out")' = Waiting("out")
    BY <1>1, <1>4, FollowOut
  <2>2. OwnRests
    BY <1>4 DEF OwnRests, Follow, driver
  <2> QED
    BY <2>1, <2>2, OwnStays
<1>5. CASE Halt("out")
  <2>1. OutInv'
    BY <1>1, <1>5, HaltOut
  <2>2. OwnRests /\ Waiting("out")' = Waiting("out")
    BY <1>5 DEF OwnRests, Halt, driver, history, Waiting
  <2> QED
    BY <2>1, <2>2, OwnStays
<1>6. CASE DoCbw
  <2>1. OutInv' /\ Waiting("out") >= 1
    BY <1>1, <1>6, TakeOut
  <2>2. Waiting("out") # 0
    BY <2>1
  <2>3. pc' = pc /\ cbw' = cbw /\ device' = [phase |-> "data", of |-> cbw, ok |-> TRUE]
    BY <1>6 DEF DoCbw, Take, driver
  <2>4. device'.of = cbw'
    BY <2>3
  <2>5. pc' \notin Moving
    BY <2>2, <2>3 DEF Own
  <2> QED
    BY <2>1, <2>4, <2>5 DEF Own, Moving
<1>7. ASSUME DoCsw \/ \E ok \in BOOLEAN : DoData(ok)
      PROVE  OutInv' /\ Waiting("out")' = Waiting("out")
  <2>1. \E kind : Take("in", kind) /\ Post("transfer", "in", TRUE, 0)
    BY <1>7 DEF DoCsw, DoData
  <2>2. "in" \in Ring \ {"out"}
    BY DEF Ring
  <2>3. RestsOut
    BY <1>1, <2>1, <2>2, TakesElsewhere
  <2> QED
    BY <1>1, <2>3, RightRests
<1>8. CASE DoCsw
  <2>1. /\ pc' = pc /\ cbw' = cbw /\ buffer' = buffer /\ device.phase = "status"
        /\ csw' = [of |-> device.of, ok |-> device.ok]
        /\ device' = [device EXCEPT !.phase = "ready"]
    BY <1>8 DEF DoCsw, Take, driver
  <2>2. /\ csw'.of = device.of /\ csw'.ok = device.ok
        /\ device'.phase = "ready" /\ device'.of = device.of
    BY <1>1, <2>1 DEF TypeOK, DeviceOK
  <2>3. device.ok => buffer = device.of
    BY <2>1 DEF RightInv, BufferIsDisks
  <2> QED
    BY <1>7, <1>8, <2>1, <2>2, <2>3 DEF Own, Moving
<1>9. ASSUME NEW ok \in BOOLEAN, DoData(ok) PROVE OutInv' /\ Own'
  <2>1. /\ pc' = pc /\ cbw' = cbw /\ csw' = csw /\ device.phase = "data"
        /\ device'.of = device.of
    BY <1>1, <1>9 DEF DoData, Take, driver, TypeOK, DeviceOK
  <2>2. ~(pc \in {"queue_csw", "csw"} /\ csw.of # 0)
    BY <2>1 DEF Own
  <2> QED
    BY <1>7, <1>9, <2>1, <2>2 DEF Own
<1> QED
  BY <1>3, <1>4, <1>5, <1>6, <1>8, <1>9 DEF Controller

RightStep ==
  \A t \in 1 .. Len(result') :
    t > Len(result) /\ result'[t] /\ timeouts < RingSize - 1 =>
      buffer' = t /\ csw = [of |-> t, ok |-> TRUE]

LEMMA StepIsRight ==
  ASSUME RightInv, [Next]_vars
  PROVE  [RightStep]_vars
<1>1. /\ ReadsInv /\ TypeOK /\ Len(result) \in Nat /\ csw \in [of : Nat, ok : BOOLEAN]
      /\ timeouts < RingSize - 1 => Own
  BY LenProperties DEF RightInv, ReadsInv, RingInv, TypeOK, DriverOK, MemoryOK, Patient, LinkAt
<1>2. CASE UNCHANGED result
  BY <1>1, <1>2 DEF RightStep
<1>3. CASE TransferTimesOut \/ TransferFails
  <2>1. WaitsForTransfer /\ Return(FALSE) /\ UNCHANGED <<cbw, buffer, device>>
    BY <1>3 DEF TransferTimesOut, TransferFails, TimeOut, Answered, WaitsForTransfer, controller
  <2>2. Len(result) + 1 = cbw /\ Len(result') = cbw /\ result'[cbw] = FALSE
    BY <1>1, <2>1, ReturnCounts
  <2>3. \A t \in 1 .. Len(result') : t > Len(result) => t = cbw
    BY <1>1, <2>2
  <2> QED
    BY <2>2, <2>3 DEF RightStep
<1>4. CASE CswCame
  <2>1. pc = "csw" /\ Return(Passed) /\ UNCHANGED <<cbw, buffer, device>>
    BY <1>4 DEF CswCame, Answered, controller
  <2>2. Passed \in BOOLEAN
    BY <1>1 DEF Passed
  <2>3. Len(result) + 1 = cbw /\ Len(result') = cbw /\ result'[cbw] = Passed
    BY <1>1, <2>1, <2>2, ReturnCounts DEF WaitsForTransfer
  <2>4. \A t \in 1 .. Len(result') : t > Len(result) => t = cbw
    BY <1>1, <2>3
  <2>5. ASSUME Passed, timeouts < RingSize - 1
        PROVE  buffer' = cbw /\ csw = [of |-> cbw, ok |-> TRUE]
    BY <1>1, <2>1, <2>5 DEF Own, Passed
  <2> QED
    BY <2>3, <2>4, <2>5 DEF RightStep
<1>5. CASE \/ SetConfiguration \/ FirstRead \/ ReadSector
           \/ QueueCbw \/ QueueData \/ QueueCsw
  BY <1>2, <1>5 DEF SetConfiguration, FirstRead, ReadSector, Begin, QueueCbw, QueueData, QueueCsw,
     Queue
<1>6. CASE Aside \/ CbwSent \/ DataCame
  BY <1>1, <1>2, <1>6, AsideIsAside, MiddleReads
<1>7. CASE Controller
  BY <1>2, <1>7, ControllerRings
<1>8. CASE UNCHANGED vars
  BY <1>8
<1> QED
  BY <1>3, <1>4, <1>5, <1>6, <1>7, <1>8 DEF Next, Driver, Aside

LEMMA RightNext == RightInv /\ [Next]_vars => RightInv'
<1> SUFFICES ASSUME RightInv, [Next]_vars PROVE RightInv'
  OBVIOUS
<1>1. ReadsInv' /\ TypeOK /\ TypeOK'
  BY ReadsStep DEF RightInv, ReadsInv, RingInv
<1>2. BufferIsDisks'
  BY <1>1, BufferStays DEF RightInv
<1>3. ASSUME Patient' PROVE OutInv' /\ Own'
  <2>1. Patient
    BY <1>1, <1>3, TimeoutsGrow
  <2>2. OutInv /\ Own /\ EventInv
    BY <2>1 DEF RightInv, ReadsInv
  <2>3. CASE Driver
    BY <1>1, <1>3, <2>1, <2>2, <2>3, DriverOwns
  <2>4. CASE Controller
    BY <1>1, <1>3, <2>1, <2>2, <2>4, ControllerOwns
  <2>5. CASE UNCHANGED vars
    BY <1>1, <1>3, <2>2, <2>5, WaitsElsewhere, RightRests
  <2> QED
    BY <2>3, <2>4, <2>5 DEF Next
<1> QED
  BY <1>1, <1>2, <1>3 DEF RightInv

(* When bot_transaction returns TRUE, the sector in the buffer and the     *)
(* status are those of this transaction, whatever failed before it and     *)
(* however late the answers came, as long as fewer waits ran out of spins  *)
(* than a ring has entries: the driver compares the address of an answer,  *)
(* and never the tags.                                                     *)
THEOREM TrueStaysRight == Spec => TrueIsRight
<1>1. RightInv /\ [Next]_vars => RightInv' /\ [RightStep]_vars
  BY RightNext, StepIsRight
<1> QED
  BY <1>1, RightInit, PTL DEF Spec, TrueIsRight, RightStep
=============================================================================
