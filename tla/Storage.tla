------------------------------ MODULE Storage ------------------------------
(***************************************************************************)
(* The disk table of storage.cpp and how it comes about: storage_init      *)
(* registers the disks of the controllers, usb_init those it finds, and    *)
(* each is searched for partitions when it is registered.  The shell runs  *)
(* the two when a command needs them first.                                *)
(*                                                                         *)
(* A disk is a function from the sectors that can be read.  A sector is a  *)
(* record of what it means to each of its readers; to the others it is     *)
(* zeros (Blank).  Of the controllers the model keeps their disks, in the  *)
(* order of their PCI addresses.                                           *)
(***************************************************************************)
EXTENDS Integers, SequencesExt

CONSTANTS
  Machines,       \* what the machine may have: its boot handoff and its disks
  MaxDisks,       \* kMaxDisks
  MaxPartitions,  \* kMaxPartitionsPerDisk
  GptSectors      \* how many sectors of a GPT are read

(* A controller's disks are numbered from 1 on, as are the entries that a  *)
(* sector has of each kind.  Sizes are unsigned.                           *)
IsList(list) == list \in Seq(Range(list))
IsSector(sector) ==
  /\ IsList(sector.table) /\ IsList(sector.guids) /\ IsList(sector.entries) /\ IsList(sector.data)
  /\ sector.gpt.sectors \in Nat
  /\ \A i \in DOMAIN sector.entries : sector.entries[i].size \in Nat

ASSUME StorageAssumption ==
  /\ {MaxDisks, MaxPartitions, GptSectors} \subseteq Nat \ {0}
  /\ \A m \in Machines : \A devices \in {m.internal, m.usb} :
       /\ IsList(devices)
       /\ \A i \in DOMAIN devices : \A lba \in DOMAIN devices[i].sectors :
            IsSector(devices[i].sectors[lba])

VARIABLES
  machine,                      \* the machine it is
  disks,                        \* g_disks and g_disk_count
  storage_scanned, usb_scanned, \* the shell's flags
  usb_first                     \* history: whether USB was scanned first

storage == <<machine, disks, storage_scanned, usb_scanned, usb_first>>

NoBpb == [fs |-> "", sector |-> 0, per_cluster |-> 0, reserved |-> 0, fats |-> 0,
          fat_size |-> 0, root |-> 0]
NoGpt == [signed |-> FALSE, wide |-> FALSE, lba |-> 0, sectors |-> 0]
End == [kind |-> "end", short |-> "", cluster |-> 0, size |-> 0]
Blank == [magic |-> FALSE, table |-> <<>>, gpt |-> NoGpt, guids |-> <<>>, bpb |-> NoBpb,
          entries |-> <<End>>, fat |-> <<>>, data |-> <<>>]

Disk(kind, i) == [kind |-> kind, index |-> i, filesystem |-> "", style |-> "none",
                  partitions |-> <<>>]

(* disk_read_sector: the boot volume has no backend.                       *)
Sectors(disk) ==
  CASE disk.kind = "internal" -> machine.internal[disk.index].sectors
    [] disk.kind = "usb" -> machine.usb[disk.index].sectors
    [] disk.kind = "boot" -> <<>>
Readable(disk, lba) == lba \in DOMAIN Sectors(disk)
Sector(disk, lba) == Sectors(disk)[lba]
-----------------------------------------------------------------------------
(* detect_fat_boot_sector_kind                                             *)
FileSystem(disk, lba) ==
  IF Readable(disk, lba) /\ Sector(disk, lba).magic THEN Sector(disk, lba).bpb.fs ELSE ""

Partition(disk, first, count) ==
  [first |-> first, count |-> count, filesystem |-> FileSystem(disk, first)]

FirstOf(seq, n) == SubSeq(seq, 1, IF Len(seq) < n THEN Len(seq) ELSE n)

(* The members of a set of numbers, ascending: what a loop over them meets.*)
InOrder(S) ==
  [k \in 1 .. Cardinality(S) |-> CHOOSE i \in S : Cardinality({j \in S : j <= i}) = k]

(* detect_mbr_partitions                                                   *)
InUse(e) == e.type # "empty" /\ e.count # 0
MbrPartitions(disk, table) ==
  LET used == FirstOf(InOrder({i \in DOMAIN table : InUse(table[i])}), MaxPartitions)
  IN  [k \in DOMAIN used |-> Partition(disk, table[used[k]].first, table[used[k]].count)]

(* detect_gpt_partitions: without its header the disk is no GPT disk, and  *)
(* with a header but an entry that cannot be read it has no partitions.    *)
IsVolume(guid) == guid.used /\ guid.first <= guid.last
GptPartitions(disk, header) ==
  LET n == IF header.sectors < GptSectors THEN header.sectors ELSE GptSectors
      read == \A i \in 1 .. n : Readable(disk, header.lba + i - 1)
      guids == FlattenSeq([i \in 1 .. n |-> Sector(disk, header.lba + i - 1).guids])
      used == FirstOf(InOrder({i \in DOMAIN guids : IsVolume(guids[i])}), MaxPartitions)
      volume(guid) == Partition(disk, guid.first, guid.last - guid.first + 1)
  IN  IF header.wide /\ read
      THEN [k \in DOMAIN used |-> volume(guids[used[k]])]
      ELSE <<>>

(* detect_partition_table.  A protective MBR without a GPT is taken for an *)
(* ordinary one; but the sector looked at is then the last one read.       *)
Protective(table) == \E i \in DOMAIN table : table[i].type = "gpt"
Detected(disk) ==
  LET table == Sector(disk, 0).table
      gpt == Protective(table) /\ Readable(disk, 1)
      header == Sector(disk, 1).gpt
  IN  IF ~Readable(disk, 0) \/ ~Sector(disk, 0).magic THEN disk
      ELSE IF gpt /\ header.signed
      THEN [disk EXCEPT !.style = "GPT", !.partitions = GptPartitions(disk, header)]
      ELSE [disk EXCEPT !.style = "MBR",
              !.partitions = MbrPartitions(disk, IF gpt THEN Sector(disk, 1).table ELSE table)]
-----------------------------------------------------------------------------
(* register_ahci_disk, register_ide_disk, detect_nvme_controller and       *)
(* storage_register_usb_disk: all register in the next place that is free. *)
Register(table, disk) ==
  IF Len(table) >= MaxDisks THEN table ELSE Append(table, Detected(disk))

DisksOf(kind, devices) == [i \in DOMAIN devices |-> Disk(kind, i)]

(* storage_register_boot_volume                                            *)
BootVolume(table) ==
  IF machine.boot = "none" \/ Len(table) >= MaxDisks THEN table
  ELSE Append(table, [Disk("boot", 1) EXCEPT !.filesystem = machine.boot])

(* storage_init empties the table, whatever is in it.                      *)
StorageInit(table) == FoldLeft(Register, <<>>, DisksOf("internal", machine.internal))
UsbInit(table) == FoldLeft(Register, table, DisksOf("usb", machine.usb))

(* shell_ensure_storage_ready, shell_ensure_usb_ready                      *)
StorageReady(table) == IF storage_scanned THEN table ELSE BootVolume(StorageInit(table))
UsbReady(table) == IF usb_scanned THEN table ELSE UsbInit(table)

StorageStart ==
  /\ machine \in Machines
  /\ disks = <<>> /\ storage_scanned = FALSE /\ usb_scanned = FALSE /\ usb_first = FALSE

(* cmd_disk, and what every command on files does first                    *)
ScanAll ==
  /\ disks' = UsbReady(StorageReady(disks))
  /\ storage_scanned' = TRUE /\ usb_scanned' = TRUE
  /\ UNCHANGED <<machine, usb_first>>

(* cmd_usb                                                                 *)
ScanUsb ==
  /\ disks' = UsbReady(disks)
  /\ usb_scanned' = TRUE
  /\ usb_first' = (usb_first \/ ~storage_scanned)
  /\ UNCHANGED <<machine, storage_scanned>>
=============================================================================
