------------------------------- MODULE Files -------------------------------
(***************************************************************************)
(* The shell's commands on disks and files (cmd_disk, cmd_usb, cmd_vol,    *)
(* cmd_dir, cmd_type, cmd_cd), down to the sectors.  One task runs them,   *)
(* so a command ends before the next begins.                               *)
(*                                                                         *)
(* With a machine goes the truth about it: which volumes each disk has,    *)
(* and which tree of files each volume was made from.                      *)
(***************************************************************************)
EXTENDS Fat32

CONSTANT Paths  \* what is typed: [drive, absolute, path], drive 0 being none

VARIABLE current  \* shell_current_path: its drive and components

vars == <<storage, files, current>>

Init ==
  /\ StorageStart
  /\ drives = <<>> /\ vfs_ready = FALSE
  /\ pc = "idle" /\ call = [what |-> "none", drive |-> 1, path |-> <<>>]
  /\ todo = <<>> /\ entry = End /\ cluster = 0 /\ s = 0 /\ long_name = NoName
  /\ out = <<>> /\ answer = [ok |-> FALSE, value |-> <<>>]
  /\ current = [drive |-> 1, path |-> <<>>]

CmdDisk == pc = "idle" /\ ScanAll /\ UNCHANGED <<files, current>>
CmdUsb == pc = "idle" /\ ScanUsb /\ UNCHANGED <<files, current>>

(* shell_ensure_vfs_ready, which the commands on files do first; cmd_vol   *)
(* does nothing else.                                                      *)
CmdVol ==
  /\ pc = "idle" /\ ~vfs_ready
  /\ ScanAll
  /\ drives' = DrivesOf(disks')
  /\ vfs_ready' = TRUE
  /\ current' = IF drives' # <<>> THEN [drive |-> 1, path |-> <<>>] ELSE current
  /\ UNCHANGED <<pc, call, walk, answer>>

(* shell_resolve_path with shell_path_parent.                              *)
Parent(path) == IF path = <<>> THEN path ELSE Front(path)
Down(path, name) == IF name = <<"..">> THEN Parent(path) ELSE Append(path, name)
Meant(typed) ==
  FoldLeft(Down, IF typed.absolute \/ typed.drive # 0 THEN <<>> ELSE current.path, typed.path)

(* cmd_dir, cmd_type and cmd_cd.                                           *)
Command(what, typed) ==
  /\ vfs_ready
  /\ Call(what, IF typed.drive = 0 THEN current.drive ELSE typed.drive, Meant(typed))
  /\ UNCHANGED <<storage, drives, vfs_ready, entry, cluster, s, long_name, out, current>>

(* A step of the command; cmd_cd, which alone asks for vfs_stat, goes to   *)
(* the directory when there is one.                                        *)
Proceed ==
  /\ Step
  /\ current' = IF call.what = "stat" /\ pc = "resolved" /\ IsDir
                THEN [drive |-> call.drive, path |-> call.path] ELSE current

Next ==
  \/ CmdDisk \/ CmdUsb \/ CmdVol
  \/ \E what \in {"list", "read", "stat"}, typed \in Paths : Command(what, typed)
  \/ Proceed

Spec == Init /\ [][Next]_vars /\ WF_vars(Proceed)
-----------------------------------------------------------------------------
Device(disk) == IF disk.kind = "usb" THEN machine.usb[disk.index] ELSE machine.internal[disk.index]
FirstLba(d) == disks[d.disk].partitions[d.partition].first
Truth(d) == CHOOSE v \in Device(disks[d.disk]).volumes : v.first = FirstLba(d)

(* Once all is scanned, the table has disks that are attached, each once,  *)
(* and has all of them as far as there is room, in whatever order the      *)
(* commands came; only after a first command "usb" it may lack the USB     *)
(* disks, as storage_init forgets them and usb_init runs once.             *)
Internal == {<<"internal", i>> : i \in DOMAIN machine.internal}
External == {<<"usb", i>> : i \in DOMAIN machine.usb}
DisksOnce ==
  storage_scanned /\ usb_scanned =>
    LET table == {<<disks[i].kind, disks[i].index>> : i \in DOMAIN disks} \ {<<"boot", 1>>}
    IN  /\ table \subseteq Internal \union External
        /\ \/ Len(disks) = MaxDisks
           \/ Internal \union (IF usb_first THEN {} ELSE External) \subseteq table
        /\ \A i, j \in DOMAIN disks :
             <<disks[i].kind, disks[i].index>> = <<disks[j].kind, disks[j].index>> => i = j

(* The drives are the FAT volumes of these disks, each once: a letter      *)
(* never stands for what is no volume, whatever is left of a damaged       *)
(* partition table.                                                        *)
LettersAreVolumes ==
  vfs_ready =>
    /\ \A i \in DOMAIN drives :
         /\ \E v \in Device(disks[drives[i].disk]).volumes : v.first = FirstLba(drives[i])
         /\ \A j \in DOMAIN drives : drives[i] = drives[j] => i = j
    /\ \A d \in DOMAIN disks : disks[d].kind # "boot" =>
         \A v \in Device(disks[d]).volumes :
           v.fs = "FAT32" /\ v.found =>
             \/ \E i \in DOMAIN drives : drives[i].disk = d /\ FirstLba(drives[i]) = v.first
             \/ Len(drives) = MaxDrives

(* The disk table has the disks, and the letters stand for their volumes.  *)
DrivesAreVolumes == DisksOnce /\ LettersAreVolumes

(* A command that succeeds gives what the file or directory of this path   *)
(* has, to the last byte, also on a volume with sectors that cannot be     *)
(* read and chains that are cut, leave the volume or begin again where     *)
(* they should end; and one fails only where the volume is damaged, there  *)
(* is no such path, or it is of the wrong kind or too large.  Of a long    *)
(* name only the first piece counts.  In a directory that goes in circles, *)
(* entries are listed again and again.                                     *)
Seen(path) == [i \in DOMAIN path |-> FirstOf(path[i], 1)]
SeenListing(node) ==
  FirstOf([i \in DOMAIN node.listing |-> [node.listing[i] EXCEPT !.name = FirstOf(@, 1)]],
          MaxEntries)
Expected(node) ==
  CASE call.what = "list" -> SeenListing(node)
    [] call.what = "read" -> node.data
    [] call.what = "stat" -> [dir |-> node.dir, size |-> node.size]
Accepts(node) ==
  CASE call.what = "list" -> node.dir
    [] call.what = "read" -> ~node.dir /\ node.size <= BufferSize
    [] call.what = "stat" -> TRUE
RightAnswer ==
  pc = "idle" /\ call.what # "none" /\ call.drive \in DOMAIN drives =>
    LET v == Truth(drives[call.drive])
        nodes == {v.tree[p] : p \in {q \in DOMAIN v.tree : Seen(q) = call.path}}
    IN  IF answer.ok
        THEN \/ \E node \in nodes : Accepts(node) /\ answer.value = Expected(node)
             \/ call.what = "list" /\ v.circles
        ELSE v.damaged \/ \A node \in nodes : ~Accepts(node)

(* Every command ends, also on a file whose chain goes in circles; only in *)
(* a directory whose chain does may it look for a name for ever.           *)
CommandsEnd == pc # "idle" ~> (pc = "idle" \/ (pc = "find" /\ Truth(Mount).circles))
=============================================================================
