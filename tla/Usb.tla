-------------------------------- MODULE Usb ---------------------------------
(***************************************************************************)
(* The xHCI driver of usb.cpp and its mass storage protocol: usb_init      *)
(* gives the devices slots, addresses them and sets up the bulk endpoints  *)
(* of a disk, and usb_read_disk_sector reads from it.  The driver is one   *)
(* thread that writes an entry into a ring, rings the doorbell and polls   *)
(* the one event ring until the answer comes or the spins run out.  What   *)
(* it gave up waiting for may still be carried out, and answered later.    *)
(*                                                                         *)
(* A read is a command block that goes out, the sector and a status that   *)
(* come in.  Transactions are numbered; of the data in a buffer the model  *)
(* keeps whose it is.  Endpoint 0 is not modelled: a control transfer ends *)
(* well or not, and discards events while it waits.  The controller and    *)
(* the disk do what their specifications allow; the disk answers a command *)
(* block only when it has finished the last one.                           *)
(***************************************************************************)
EXTENDS Naturals, Sequences, FiniteSets

CONSTANTS
  Worlds,           \* what is in the ports, of which one at least is in use:
                    \* sequences of "disk" (one at most) and "other"
  RingSize,         \* kMaxTrbs
  MaxTransactions,  \* bound: how many transactions there are,
  MaxTimeouts       \* and how many waits run out of spins

ASSUME UsbAssumption ==
  /\ \A w \in Worlds :
       /\ w \in Seq({"disk", "other"}) /\ w # <<>>
       /\ \A p, q \in DOMAIN w : w[p] = "disk" /\ w[q] = "disk" => p = q
  /\ RingSize \in Nat /\ RingSize >= 3
  /\ MaxTransactions \in Nat /\ MaxTimeouts \in Nat

VARIABLES
  devices,                     \* what is in the ports
  pc, port,                    \* where the driver is, and at which port
  ports,                       \* what it knows of each
  result,                      \* what bot_transaction returned, each time
  target,                      \* the entry it waits for
  ring, enqueue, cycle,        \* the rings, and the driver's end of each
  event_dequeue, event_cycle,  \* the driver's end of the event ring
  cbw, csw, buffer,            \* memory: g_bot_cbw, g_bot_csw, the caller's buffer
  event_ring, tail, tail_cycle,  \* the controller's end of it
  dequeue, ccs, endpoint,      \* the controller's end of the other rings
  slots, device,               \* what it did to its slots; the disk
  queued, taken, overrun,      \* history: entries written and taken, and whether one was lost;
  timeouts, late               \* waits that ran out, and whether one for a command did

driver == <<pc, port, ports, result, target, enqueue, cycle, event_dequeue, event_cycle>>
controller == <<event_ring, tail, tail_cycle, dequeue, ccs, slots, device>>
history == <<queued, taken, overrun, timeouts, late>>
vars == <<devices, driver, ring, endpoint, cbw, csw, buffer, controller, history>>

Ring == {"command", "out", "in"}
Index == 0 .. RingSize - 1
Port == DOMAIN devices

Trb(kind, slot, n, c) == [kind |-> kind, slot |-> slot, n |-> n, cycle |-> c]
Cleared == Trb("none", 0, 0, 0)
Link(c) == Trb("link", 0, 0, c)
NoEvent == [type |-> "none", trb |-> <<>>, ok |-> FALSE, slot |-> 0, cycle |-> 0]

(* usb_init up to xhci_setup_rings.                                        *)
Init ==
  /\ devices \in Worlds
  /\ pc = "enable" /\ port = 1
  /\ ports = [p \in Port |-> [slot |-> 0, addressed |-> FALSE, configured |-> FALSE,
                              capacity |-> FALSE]]
  /\ result = <<>> /\ target = <<>>
  /\ ring = [r \in Ring |-> [i \in Index |-> IF i = RingSize - 1 THEN Link(1) ELSE Cleared]]
  /\ enqueue = [r \in Ring |-> 0] /\ cycle = [r \in Ring |-> 1]
  /\ event_ring = [i \in Index |-> NoEvent]
  /\ event_dequeue = 0 /\ event_cycle = 1 /\ tail = 0 /\ tail_cycle = 1
  /\ cbw = 0 /\ csw = [of |-> 0, ok |-> FALSE] /\ buffer = 0
  /\ dequeue = [r \in Ring |-> 0] /\ ccs = [r \in Ring |-> 1]
  /\ endpoint = [r \in Ring |-> "stopped"]
  /\ slots = <<>> /\ device = [phase |-> "ready", of |-> 0, ok |-> TRUE]
  /\ queued = [r \in Ring |-> 0] /\ taken = [r \in Ring |-> 0] /\ overrun = {}
  /\ timeouts = 0 /\ late = FALSE
-----------------------------------------------------------------------------
(* The driver puts entries into rings.  One entry has to stay free: while  *)
(* the controller is at the link, the link may not be written.             *)
Waiting(r) == queued[r] - taken[r]
Room(r) == Waiting(r) < RingSize - 2
Overwrite(r) == overrun' = IF Room(r) THEN overrun ELSE overrun \union {r}

(* xhci_advance_enqueue: the cycle bit of the link entry gives it to the   *)
(* controller with the round that ends.                                    *)
MutCycleAfter(r) == cycle[r]
CycleAfter(r) == 1 - cycle[r]

Put(r, kind, slot) ==
  LET i == enqueue[r]
      trb == Trb(kind, slot, queued[r] + 1, cycle[r])
      wraps == i + 1 >= RingSize - 1
  IN  /\ ring' = [ring EXCEPT ![r][i] = trb,
                              ![r][RingSize - 1] = IF wraps THEN Link(cycle[r]) ELSE @]
      /\ enqueue' = [enqueue EXCEPT ![r] = IF wraps THEN 0 ELSE i + 1]
      /\ cycle' = [cycle EXCEPT ![r] = IF wraps THEN CycleAfter(r) ELSE @]
      /\ target' = <<r, i>>
      /\ queued' = [queued EXCEPT ![r] = @ + 1]
      /\ Overwrite(r)

(* The doorbell.  A halted endpoint does not hear it, nor does one that    *)
(* was not configured.                                                     *)
Ready(r) == r = "command" \/ \E s \in DOMAIN slots : slots[s] = "configured"
RingDoorbell(r) ==
  endpoint' = [endpoint EXCEPT ![r] = IF Ready(r) /\ @ # "halted" THEN "running" ELSE @]

(* xhci_bulk_out and xhci_bulk_in clear the entry before they fill it.     *)
Clear(r) ==
  /\ ring' = [ring EXCEPT ![r][enqueue[r]] = Cleared]
  /\ Overwrite(r)

Queue(at, r, kind, slot, next) ==
  /\ pc = at
  /\ Put(r, kind, slot) /\ RingDoorbell(r)
  /\ pc' = next
  /\ UNCHANGED <<devices, port, ports, result, event_dequeue, event_cycle, cbw, csw, buffer,
                 controller, taken, timeouts, late>>

Slot == ports[port].slot

(* xhci_try_enable_slots, xhci_build_device_list,                          *)
(* xhci_configure_bulk_endpoints                                           *)
EnableSlot == Queue("enable", "command", "enable", 0, "enabling")
AddressDevice == Slot # 0 /\ Queue("address", "command", "address", Slot, "addressing")
ConfigureEndpoints == Queue("configure", "command", "configure", Slot, "configuring")

QueueCbw == Queue("queue_cbw", "out", "cbw", 0, "cbw")
QueueData == Queue("queue_data", "in", "data", 0, "data")
QueueCsw == Queue("queue_csw", "in", "csw", 0, "csw")
-----------------------------------------------------------------------------
(* The driver waits.                                                       *)
WaitsForCommand == pc \in {"enabling", "addressing", "configuring"}
WaitsForTransfer == pc \in {"cbw", "data", "csw"}
WaitsForControl == pc \in {"descriptors", "set_configuration"}

Event == event_ring[event_dequeue]
IsNew == Event.cycle = event_cycle

(* wait_command_completion takes the answer to whatever command it is.     *)
MutIsCommand == TRUE
IsCommand == Event.type = "command"
MutIsTarget == Event.type = "transfer"
IsTarget == Event.type = "transfer" /\ Event.trb = target

IsAnswer == (WaitsForCommand /\ IsCommand) \/ (WaitsForTransfer /\ IsTarget)

(* xhci_poll_event                                                         *)
TakeEvent ==
  /\ IsNew
  /\ event_dequeue' = (event_dequeue + 1) % RingSize
  /\ event_cycle' = IF event_dequeue' = 0 THEN 1 - event_cycle ELSE event_cycle

Discard ==
  /\ WaitsForCommand \/ WaitsForTransfer \/ WaitsForControl
  /\ ~IsAnswer /\ TakeEvent
  /\ UNCHANGED <<devices, pc, port, ports, result, target, enqueue, cycle, ring, endpoint,
                 cbw, csw, buffer, controller, history>>

(* The loops over the ports: what comes after the port at work.            *)
NextPort(loop, after) ==
  /\ pc' = IF port < Len(devices) THEN loop ELSE after
  /\ port' = IF port < Len(devices) THEN port + 1 ELSE 1

NextDevice == NextPort("address", "idle")

(* A port that got no slot is left out.                                    *)
SkipDevice ==
  /\ pc = "address" /\ Slot = 0
  /\ NextDevice
  /\ UNCHANGED <<devices, ports, result, target, enqueue, cycle, event_dequeue, event_cycle,
                 ring, endpoint, cbw, csw, buffer, controller, history>>

(* What the driver does with the end of a wait for a command.              *)
CommandEnds(ok, slot) ==
  CASE pc = "enabling" ->
         /\ ports' = IF ok THEN [ports EXCEPT ![port].slot = slot] ELSE ports
         /\ NextPort("enable", "address")
    [] pc = "addressing" ->
         /\ ports' = [ports EXCEPT ![port].addressed = ok]
         /\ IF ok THEN pc' = "descriptors" /\ UNCHANGED port ELSE NextDevice
    [] pc = "configuring" ->
         /\ ports' = [ports EXCEPT ![port].configured = ok]
         /\ IF ok THEN pc' = "set_configuration" /\ UNCHANGED port ELSE NextDevice

CommandAnswered ==
  /\ WaitsForCommand /\ IsCommand /\ TakeEvent
  /\ CommandEnds(Event.ok, Event.slot)
  /\ UNCHANGED <<devices, result, target, enqueue, cycle, ring, endpoint, cbw, csw, buffer,
                 controller, history>>

TimeOut ==
  /\ ~IsNew /\ timeouts < MaxTimeouts
  /\ timeouts' = timeouts + 1
  /\ UNCHANGED <<devices, target, enqueue, cycle, event_dequeue, event_cycle, cbw, csw, buffer,
                 controller, queued, taken, overrun>>

CommandTimesOut ==
  /\ WaitsForCommand /\ TimeOut
  /\ late' = TRUE
  /\ CommandEnds(FALSE, 0)
  /\ UNCHANGED <<result, ring, endpoint>>

(* xhci_fetch_descriptors, and SET_CONFIGURATION, whose result nobody      *)
(* looks at.  A device answers when it has been addressed.                 *)
FetchDescriptors(ok) ==
  /\ pc = "descriptors" /\ ~IsNew
  /\ ok => slots[Slot] = "addressed"
  /\ IF ok /\ devices[port] = "disk" THEN pc' = "configure" /\ UNCHANGED port ELSE NextDevice
  /\ UNCHANGED <<devices, ports, result, target, enqueue, cycle, event_dequeue, event_cycle,
                 ring, endpoint, cbw, csw, buffer, controller, history>>

(* bot_transaction: scsi_read_capacity and the first scsi_read10 in        *)
(* usb_init, then usb_read_disk_sector.                                    *)
Begin(at) ==
  /\ pc = at /\ Len(result) < MaxTransactions
  /\ cbw' = Len(result) + 1
  /\ Clear("out")
  /\ pc' = "queue_cbw"
  /\ UNCHANGED <<devices, port, ports, result, target, enqueue, cycle, event_dequeue, event_cycle,
                 endpoint, csw, buffer, controller, queued, taken, timeouts, late>>

SetConfiguration == ~IsNew /\ Begin("set_configuration")
FirstRead == Begin("first_read")
ReadSector == (\E p \in Port : ports[p].capacity) /\ Begin("idle")

(* A transaction returns b: without the capacity the disk is of no use.    *)
Return(b) ==
  LET c == Len(result) + 1
  IN  /\ result' = Append(result, b)
      /\ ports' = IF c = 1 THEN [ports EXCEPT ![port].capacity = b] ELSE ports
      /\ IF c > 2 THEN pc' = "idle" /\ UNCHANGED port
         ELSE IF c = 1 /\ b THEN pc' = "first_read" /\ UNCHANGED port
         ELSE NextDevice

TransferTimesOut ==
  /\ WaitsForTransfer /\ TimeOut
  /\ Return(FALSE)
  /\ UNCHANGED <<ring, endpoint, late>>

Answered(at) ==
  /\ pc = at /\ IsTarget /\ TakeEvent
  /\ UNCHANGED <<devices, target, enqueue, cycle, endpoint, cbw, buffer, controller,
                 queued, taken, timeouts, late>>

TransferFails ==
  /\ \E at \in {"cbw", "data", "csw"} : Answered(at)
  /\ ~Event.ok
  /\ Return(FALSE)
  /\ UNCHANGED <<ring, csw, overrun>>

CbwSent ==
  /\ Answered("cbw") /\ Event.ok
  /\ Clear("in")
  /\ pc' = "queue_data"
  /\ UNCHANGED <<port, ports, result, csw>>

(* How much came is not looked at.                                         *)
DataCame ==
  /\ Answered("data") /\ Event.ok
  /\ csw' = [of |-> 0, ok |-> FALSE]
  /\ Clear("in")
  /\ pc' = "queue_csw"
  /\ UNCHANGED <<port, ports, result>>

(* The signature is there and the status is 0; the tag is not compared.    *)
MutPassed == csw.of # 0
Passed == csw.of # 0 /\ csw.ok

CswCame ==
  /\ Answered("csw") /\ Event.ok
  /\ Return(Passed)
  /\ UNCHANGED <<ring, csw, overrun>>
-----------------------------------------------------------------------------
(* The controller.  An entry is its own while the cycle bit is that of its *)
(* round.                                                                  *)
AtHead(r) == ring[r][dequeue[r]]
Owns(r) == endpoint[r] = "running" /\ AtHead(r).cycle = ccs[r]

Follow(r) ==
  /\ Owns(r) /\ AtHead(r).kind = "link"
  /\ dequeue' = [dequeue EXCEPT ![r] = 0]
  /\ ccs' = [ccs EXCEPT ![r] = 1 - @]
  /\ UNCHANGED <<devices, driver, ring, endpoint, cbw, csw, buffer, event_ring, tail, tail_cycle,
                 slots, device, history>>

Rest(r) ==
  /\ endpoint[r] = "running" /\ ~Owns(r)
  /\ endpoint' = [endpoint EXCEPT ![r] = "stopped"]
  /\ UNCHANGED <<devices, driver, ring, cbw, csw, buffer, controller, history>>

(* The event ring may not run into the entry the driver is at.             *)
Post(type, r, ok, slot) ==
  /\ (tail + 1) % RingSize # event_dequeue
  /\ event_ring' = [event_ring EXCEPT ![tail] =
       [type |-> type, trb |-> <<r, dequeue[r]>>, ok |-> ok, slot |-> slot, cycle |-> tail_cycle]]
  /\ tail' = (tail + 1) % RingSize
  /\ tail_cycle' = IF tail' = 0 THEN 1 - tail_cycle ELSE tail_cycle

Take(r, kind) ==
  /\ Owns(r) /\ AtHead(r).kind = kind
  /\ dequeue' = [dequeue EXCEPT ![r] = @ + 1]
  /\ taken' = [taken EXCEPT ![r] = @ + 1]
  /\ UNCHANGED <<devices, driver, ring, endpoint, cbw, ccs, queued, overrun, timeouts, late>>

DoEnable(ok) ==
  /\ Take("command", "enable")
  /\ slots' = IF ok THEN Append(slots, "enabled") ELSE slots
  /\ Post("command", "command", ok, IF ok THEN Len(slots') ELSE 0)
  /\ UNCHANGED <<csw, buffer, device>>

DoCommand(kind, from, to, ok) ==
  LET s == AtHead("command").slot
  IN  /\ Take("command", kind)
      /\ ok => slots[s] = from
      /\ slots' = [slots EXCEPT ![s] = IF ok THEN to ELSE @]
      /\ Post("command", "command", ok, s)
      /\ UNCHANGED <<csw, buffer, device>>

(* The disk takes what is in g_bot_cbw by then.                            *)
DoCbw ==
  /\ Take("out", "cbw") /\ device.phase = "ready"
  /\ device' = [phase |-> "data", of |-> cbw, ok |-> TRUE]
  /\ Post("transfer", "out", TRUE, 0)
  /\ UNCHANGED <<csw, buffer, slots>>

(* All of the data, or too little of it and a bad status afterwards.       *)
DoData(ok) ==
  /\ Take("in", "data") /\ device.phase = "data"
  /\ buffer' = IF ok THEN device.of ELSE 0
  /\ device' = [device EXCEPT !.phase = "status", !.ok = ok]
  /\ Post("transfer", "in", TRUE, 0)
  /\ UNCHANGED <<csw, slots>>

DoCsw ==
  /\ Take("in", "csw") /\ device.phase = "status"
  /\ csw' = [of |-> device.of, ok |-> device.ok]
  /\ device' = [device EXCEPT !.phase = "ready"]
  /\ Post("transfer", "in", TRUE, 0)
  /\ UNCHANGED <<buffer, slots>>

(* The disk refuses, or an entry is none yet: the endpoint halts there.    *)
Halt(r) ==
  /\ Owns(r)
  /\ \/ r = "in" /\ AtHead(r).kind = "data" /\ device.phase = "data"
     \/ AtHead(r).kind = "none"
  /\ endpoint' = [endpoint EXCEPT ![r] = "halted"]
  /\ Post("transfer", r, FALSE, 0)
  /\ UNCHANGED <<devices, driver, ring, cbw, csw, buffer, dequeue, ccs, slots, device, history>>

Driver ==
  \/ EnableSlot \/ AddressDevice \/ ConfigureEndpoints \/ SkipDevice
  \/ QueueCbw \/ QueueData \/ QueueCsw
  \/ Discard \/ CommandAnswered \/ CommandTimesOut
  \/ \E ok \in BOOLEAN : FetchDescriptors(ok)
  \/ SetConfiguration \/ FirstRead \/ ReadSector
  \/ TransferTimesOut \/ TransferFails \/ CbwSent \/ DataCame \/ CswCame

Controller ==
  \/ \E r \in Ring : Follow(r) \/ Rest(r) \/ Halt(r)
  \/ DoCbw \/ DoCsw
  \/ \E ok \in BOOLEAN :
       \/ DoEnable(ok)
       \/ DoCommand("address", "enabled", "addressed", ok)
       \/ DoCommand("configure", "addressed", "configured", ok)
       \/ DoData(ok)

Next == Driver \/ Controller

Spec == Init /\ [][Next]_vars
-----------------------------------------------------------------------------
(* A port has a slot that was enabled, and for itself alone, also when an  *)
(* answer came late and went to the next port.  Until a command runs out   *)
(* of spins, a device is addressed and configured when the driver says so: *)
(* no answer to a transfer counts as one to a command.                     *)
OwnAnswer ==
  /\ \A p \in Port :
       ports[p].slot # 0 =>
         /\ ports[p].slot \in DOMAIN slots
         /\ \A q \in Port : ports[q].slot = ports[p].slot => q = p
  /\ ~late =>
       \A p \in Port :
         /\ ports[p].addressed => slots[ports[p].slot] \in {"addressed", "configured"}
         /\ ports[p].configured => slots[ports[p].slot] = "configured"

(* Every ring is a queue.  From the entry it is at, through the link and   *)
(* round again, the controller finds all that the driver wrote and it did  *)
(* not take, in order, and not one entry more; unless the driver wrote     *)
(* more than there is room for, which it never looks at.  The one entry    *)
(* it may wrongly find is the one the driver cleared and did not fill yet. *)
PlaceOf(r, i) == (dequeue[r] + i - 1) % (RingSize - 1)
RoundOf(r, i) == IF dequeue[r] + i > RingSize - 1 THEN 1 - ccs[r] ELSE ccs[r]
InOrder ==
  \A r \in Ring \ overrun :
    /\ \A i \in 1 .. Waiting(r) :
         LET trb == ring[r][PlaceOf(r, i)]
         IN  trb.n = taken[r] + i /\ trb.cycle = RoundOf(r, i)
    /\ dequeue[r] + Waiting(r) >= RingSize - 1 => ring[r][RingSize - 1] = Link(ccs[r])
    /\ LET i == Waiting(r) + 1
           trb == ring[r][PlaceOf(r, i)]
       IN  i < RingSize => trb.cycle # RoundOf(r, i) \/ trb = Cleared

(* When bot_transaction returns TRUE, the buffer holds the data of this    *)
(* transaction and the status is its own, whatever failed or came late     *)
(* before it, although it never compares the tags.  That ends when as many *)
(* waits ran out of spins as a ring has entries: then the entry it waits   *)
(* for is where an older one was, and so is the answer.                    *)
TrueIsRight ==
  [][\A t \in 1 .. Len(result') :
       t > Len(result) /\ result'[t] /\ timeouts < RingSize - 1 =>
         buffer' = t /\ csw = [of |-> t, ok |-> TRUE]]_vars

(* The disk driver promises what every disk driver does.                   *)
Reads == INSTANCE SectorReads WITH
  asked <- cbw,
  busy <- Len(result) < cbw,
  sound <- \A t \in DOMAIN result : result[t]
ReadsSpec == Reads!Spec
=============================================================================
