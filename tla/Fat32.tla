------------------------------- MODULE Fat32 -------------------------------
(***************************************************************************)
(* Drives and files: vfs.cpp gives a letter to each FAT volume of the disk *)
(* table, and fat32.cpp finds a path on it, lists a directory, reads a     *)
(* file.  A call runs sector by sector: each step is one turn of the loops *)
(* over the sectors of a cluster and the clusters of a chain.              *)
(*                                                                         *)
(* A name is a sequence of pieces, the 13 characters of each entry that a  *)
(* long name takes; a short name is one piece.                             *)
(***************************************************************************)
EXTENDS Storage

CONSTANTS
  MaxDrives,     \* how many letters there are
  FatPerSector,  \* entries in a sector of the FAT
  EndOfChain,    \* the first value that ends a chain
  MaxPieces,     \* how long a name can be
  MaxEntries,    \* what cmd_dir has room for,
  BufferSize     \* and cmd_type

ASSUME Fat32Assumption ==
  {MaxDrives, FatPerSector, EndOfChain, MaxPieces, MaxEntries, BufferSize}
    \subseteq Nat \ {0}

VARIABLES
  drives, vfs_ready,   \* g_drives with g_mounts, and the shell's flag
  pc, call,            \* where the call at work is, and which it is
  todo, entry,         \* the components left, and the entry of the last one
  cluster, s,          \* the sector it is at
  long_name,           \* the pieces gathered
  out, answer          \* what it gives, and what it gave

walk == <<todo, entry, cluster, s, long_name, out>>
files == <<drives, vfs_ready, pc, call, walk, answer>>

(* fat32_try_mount: FAT12 and FAT16 begin with an F too.  The drive of     *)
(* letter C + i is the (i + 1)th.                                          *)
MutMountable(disk, part) == Readable(disk, part.first)
Mountable(disk, part) ==
  /\ part.filesystem \in {"FAT12", "FAT16", "FAT32"}
  /\ Readable(disk, part.first)
  /\ LET bpb == Sector(disk, part.first).bpb
     IN  bpb.sector = 512 /\ bpb.fat_size # 0 /\ bpb.root >= 2 /\ bpb.per_cluster # 0

(* vfs_init                                                                *)
Drive(d, p) == [disk |-> d, partition |-> p]
PartitionsOf(table, d) ==
  LET parts == table[d].partitions
      mounted == InOrder({p \in DOMAIN parts : Mountable(table[d], parts[p])})
  IN  [k \in DOMAIN mounted |-> Drive(d, mounted[k])]
DrivesOf(table) ==
  FirstOf(FlattenSeq([d \in DOMAIN table |-> PartitionsOf(table, d)]), MaxDrives)
-----------------------------------------------------------------------------
(* The volume the call is about.                                           *)
Mount == drives[call.drive]
Volume == disks[Mount.disk]
Start == Volume.partitions[Mount.partition].first
Bpb == Sector(Volume, Start).bpb

(* read_volume_sector                                                      *)
CanRead(lba) == Readable(Volume, Start + lba)
Read(lba) == Sector(Volume, Start + lba)

(* first_sector_of_cluster                                                 *)
MutFirstSector(c) == Bpb.reserved + Bpb.fats * Bpb.fat_size + (c - 1) * Bpb.per_cluster
FirstSector(c) == Bpb.reserved + Bpb.fats * Bpb.fat_size + (c - 2) * Bpb.per_cluster
IsCluster(c) == c >= 2 /\ c < EndOfChain

(* read_fat_entry                                                          *)
FatSector(c) == Bpb.reserved + c \div FatPerSector
FatEntry(c) == Read(FatSector(c)).fat[(c % FatPerSector) + 1]

Here == FirstSector(cluster) + s

(* append_lfn_chars ends the name after each piece, so it cuts off the     *)
(* piece after it, which was there already: pieces come last one first.    *)
NoName == [k \in 1 .. MaxPieces + 1 |-> ""]
Decode(long, e) == [long EXCEPT ![e.order] = e.piece, ![e.order + 1] = ""]
Text(long) == SubSeq(long, 1, (CHOOSE k \in DOMAIN long :
                                 long[k] = "" /\ \A i \in 1 .. k - 1 : long[i] # "") - 1)

(* entry_name_equals, entry_name_to_text                                   *)
NameOf(e, long) == IF long[1] # "" THEN Text(long) ELSE <<e.short>>

IsFile(e) == e.kind \in {"file", "dir"}
After(long, e) == IF e.kind = "long" THEN Decode(long, e) ELSE [long EXCEPT ![1] = ""]

(* The names of a sector's entries: what is gathered before each of them.  *)
Gathered(entries) ==
  LET g[i \in 0 .. Len(entries)] == IF i = 0 THEN long_name ELSE After(g[i - 1], entries[i])
  IN  g
-----------------------------------------------------------------------------
Return(ok, value) ==
  /\ pc' = "idle"
  /\ answer' = [ok |-> ok, value |-> value]
  /\ UNCHANGED <<storage, drives, vfs_ready, call, walk>>

(* A walk along a chain begins.                                            *)
Walk(label, c) ==
  /\ pc' = label
  /\ cluster' = c /\ s' = 0 /\ long_name' = NoName /\ out' = <<>>
  /\ UNCHANGED <<storage, drives, vfs_ready, call, answer>>

(* parse_drive_path, mount_for_drive, and the begin of resolve_path        *)
Call(what, drive, path) ==
  /\ pc = "idle"
  /\ call' = [what |-> what, drive |-> drive, path |-> path]
  /\ todo' = path
  /\ answer' = [ok |-> FALSE, value |-> <<>>]
  /\ pc' = IF drive \in DOMAIN drives THEN "resolve" ELSE "idle"

Root == [kind |-> "root", short |-> "", cluster |-> Bpb.root, size |-> 0]
Resolve ==
  /\ pc = "resolve"
  /\ entry' = Root
  /\ Walk(IF todo = <<>> THEN "resolved" ELSE "find", Bpb.root)
  /\ UNCHANGED todo

(* The loops over the clusters of a chain, and over a cluster's sectors.   *)
(* Reading stops when it has enough, but not before it has looked up what  *)
(* comes after the cluster it is in.                                       *)
Loops == {"find", "list", "read"}
MutMore == TRUE
More == pc = "read" => Len(out) < entry.size

Inside == pc \in Loops /\ IsCluster(cluster) /\ s < Bpb.per_cluster /\ More
Leaving == pc \in Loops /\ IsCluster(cluster) /\ (s = Bpb.per_cluster \/ (s > 0 /\ ~More))
ChainEnds == ~IsCluster(cluster)

In(label) == pc = label /\ Inside /\ CanRead(Here)
NextSector == s' = s + 1 /\ UNCHANGED <<storage, drives, vfs_ready, pc, call, cluster, answer>>

SectorFails == Inside /\ ~CanRead(Here) /\ Return(FALSE, <<>>)
FatFails == Leaving /\ ~CanRead(FatSector(cluster)) /\ Return(FALSE, <<>>)

NextCluster ==
  /\ Leaving /\ CanRead(FatSector(cluster))
  /\ cluster' = FatEntry(cluster) /\ s' = 0
  /\ UNCHANGED <<storage, drives, vfs_ready, pc, call, todo, entry, long_name, out, answer>>

Earliest(S) == CHOOSE i \in S : \A j \in S : i <= j
Ends(entries) == {i \in DOMAIN entries : entries[i].kind = "end"}

(* find_in_directory, and what resolve_path does with its result           *)
Matches(entries) ==
  {i \in DOMAIN entries : /\ IsFile(entries[i])
                          /\ NameOf(entries[i], Gathered(entries)[i - 1]) = Head(todo)}

FindInSector ==
  /\ In("find")
  /\ LET entries == Read(Here).entries
         stops == Ends(entries) \union Matches(entries)
         found == entries[Earliest(stops)]
     IN  \/ /\ stops = {}
            /\ long_name' = Gathered(entries)[Len(entries)]
            /\ NextSector
            /\ UNCHANGED <<todo, entry, out>>
         \/ /\ stops # {} /\ found.kind = "end"
            /\ Return(FALSE, <<>>)
         \/ /\ stops # {} /\ found.kind # "end"
            /\ entry' = found /\ todo' = Tail(todo)
            /\ Walk(IF todo' = <<>> THEN "resolved" ELSE "find", found.cluster)

NotFound == pc = "find" /\ ChainEnds /\ Return(FALSE, <<>>)

(* fat32_stat_path                                                         *)
IsDir == entry.kind \in {"root", "dir"}
Stat ==
  /\ pc = "resolved" /\ call.what = "stat"
  /\ Return(TRUE, [dir |-> IsDir, size |-> entry.size])

(* fat32_list_dir and fat32_read_file: which of them goes on from here     *)
Allowed == IF call.what = "list" THEN IsDir ELSE ~IsDir /\ entry.size <= BufferSize
Refuse == pc = "resolved" /\ call.what # "stat" /\ ~Allowed /\ Return(FALSE, <<>>)
Open ==
  /\ pc = "resolved" /\ call.what # "stat" /\ Allowed
  /\ Walk(call.what, entry.cluster)
  /\ UNCHANGED <<todo, entry>>

Listed(e, long) == [name |-> NameOf(e, long), dir |-> e.kind = "dir", size |-> e.size]
ListSector ==
  /\ In("list")
  /\ LET entries == Read(Here).entries
         ends == Ends(entries) # {}
         shown == InOrder({i \in DOMAIN entries :
                             IsFile(entries[i]) /\ \A j \in Ends(entries) : i < j})
         all == out \o [k \in DOMAIN shown |->
                          Listed(entries[shown[k]], Gathered(entries)[shown[k] - 1])]
     IN  IF ends \/ Len(all) > MaxEntries
         THEN Return(TRUE, FirstOf(all, MaxEntries))
         ELSE /\ out' = all /\ long_name' = Gathered(entries)[Len(entries)]
              /\ NextSector
              /\ UNCHANGED <<todo, entry>>

ListEnds == pc = "list" /\ ChainEnds /\ Return(TRUE, out)

ReadSector ==
  /\ In("read")
  /\ out' = out \o FirstOf(Read(Here).data, entry.size - Len(out))
  /\ NextSector
  /\ UNCHANGED <<todo, entry, long_name>>

ReadEnds ==
  /\ pc = "read"
  /\ ChainEnds \/ (s = 0 /\ ~More)
  /\ Return(Len(out) = entry.size, out)

Step ==
  \/ Resolve \/ SectorFails \/ FatFails \/ NextCluster
  \/ FindInSector \/ NotFound
  \/ Stat \/ Refuse \/ Open \/ ListSector \/ ListEnds \/ ReadSector \/ ReadEnds
=============================================================================
