------------------------------ MODULE MCFiles ------------------------------
(* Disks with small FAT32 volumes: clusters of one or two sectors in       *)
(* different orders, damaged in different ways, behind partition tables of *)
(* every kind.  A sector holds two directory entries, two bytes of a file, *)
(* four entries of the FAT or two of a GPT.                                *)
EXTENDS Files

Long(k, piece) == [kind |-> "long", order |-> k, piece |-> piece, short |-> "", cluster |-> 0,
                   size |-> 0]
Entry(kind, short, first, size) ==
  [kind |-> kind, short |-> short, cluster |-> first, size |-> size]

(* The tree: \HEADTAIL (3 bytes), \D\F (5 bytes), \E (empty), \G (too      *)
(* large for the buffer).                                                  *)
Name(short) == <<short>>
LongName == <<"HEAD", "TAIL">>
Bytes(file, n) == [i \in 1 .. n |-> <<file, i>>]
Item(name, dir, size) == [name |-> name, dir |-> dir, size |-> size]
Folder(listing) == [dir |-> TRUE, size |-> 0, data |-> <<>>, listing |-> listing]
File(name, n) == [dir |-> FALSE, size |-> n, data |-> Bytes(name, n), listing |-> <<>>]
Dots == <<Item(Name("."), TRUE, 0), Item(Name(".."), TRUE, 0)>>

Tree == [p \in {<<>>, <<LongName>>, <<Name("D")>>, <<Name("E")>>, <<Name("G")>>,
                <<Name("D"), Name("F")>>} |->
  CASE p = <<>> -> Folder(<<Item(LongName, FALSE, 3), Item(Name("D"), TRUE, 0),
                            Item(Name("E"), FALSE, 0), Item(Name("G"), FALSE, 9)>>)
    [] p = <<LongName>> -> File("L", 3)
    [] p = <<Name("E")>> -> File("E", 0)
    [] p = <<Name("D")>> -> Folder(Dots \o <<Item(Name("F"), FALSE, 5)>>)
    [] p = <<Name("D"), Name("F")>> -> File("F", 5)
    [] OTHER -> File("G", 9)]

(* Its chains: where the clusters of each begin in the order of places,    *)
(* and how many there are.                                                 *)
Chains == <<"root", "L", "D", "F", "G">>
SectorCount == [root |-> 5, L |-> 2, D |-> 2, F |-> 3, G |-> 1]
Ceil(a, b) == (a + b - 1) \div b
Length(per) == [c \in DOMAIN SectorCount |-> Ceil(SectorCount[c], per)]
Begin(per) == [c \in DOMAIN SectorCount |->
  LET before == SelectSeq(Chains, LAMBDA d : \E i, j \in DOMAIN Chains :
                            i < j /\ Chains[i] = d /\ Chains[j] = c)
  IN  FoldLeft(LAMBDA n, d : n + Length(per)[d], 0, before)]
Total(per) == IF per = 1 THEN 13 ELSE 8

(* The cluster at a place: in order, backwards, or scattered.              *)
ClusterAt(per, order, place) ==
  2 + CASE order = "up" -> place
        [] order = "down" -> Total(per) - 1 - place
        [] order = "mixed" -> (5 * place + 3) % Total(per)

DirSectors(per, order) ==
  LET first(c) == ClusterAt(per, order, Begin(per)[c])
      label == Entry("label", "VOL", 0, 0)
      deleted == Entry("deleted", "X", 9, 9)
      root == <<label, deleted, Long(2, "TAIL"), Long(1, "HEAD"),
                Entry("file", "HEAD~1", first("L"), 3), Entry("dir", "D", first("D"), 0),
                Entry("file", "E", 0, 0), Entry("file", "G", first("G"), 9), End, End>>
      d == <<Entry("dir", ".", first("D"), 0), Entry("dir", "..", 0, 0),
             Entry("file", "F", first("F"), 5), deleted>>
  IN  [root |-> root, D |-> d]

Content(per, order, c, n) ==
  IF c \in {"root", "D"}
  THEN LET e == DirSectors(per, order)[c]
       IN  [Blank EXCEPT !.entries = <<e[2 * n + 1], e[2 * n + 2]>>]
  ELSE [Blank EXCEPT !.data = <<<<c, 2 * n + 1>>, <<c, 2 * n + 2>>>>]

FatSize(per) == Ceil(Total(per) + 2, 4)
DataStart(per) == 2 + 2 * FatSize(per)

NextOf(per, order, damage, place) ==
  LET c == CHOOSE x \in DOMAIN SectorCount :
             Begin(per)[x] <= place /\ place < Begin(per)[x] + Length(per)[x]
      first == ClusterAt(per, order, Begin(per)[c])
      last == place = Begin(per)[c] + Length(per)[c] - 1
  IN  IF last /\ ((damage = "file_circles" /\ c = "F") \/ (damage = "dir_circles" /\ c = "D"))
      THEN first
      ELSE IF damage = "cut" /\ c = "F" THEN EndOfChain
      ELSE IF damage = "wild" /\ c = "F" /\ ~last THEN Total(per) + 3
      ELSE IF last THEN EndOfChain ELSE ClusterAt(per, order, place + 1)

Fat(per, order, damage) ==
  [c \in 0 .. 4 * FatSize(per) - 1 |->
     IF \E p \in 0 .. Total(per) - 1 : ClusterAt(per, order, p) = c
     THEN NextOf(per, order, damage, CHOOSE p \in 0 .. Total(per) - 1 : ClusterAt(per, order, p) = c)
     ELSE 0]

SectorsOf(per, order, damage) ==
  LET fat == Fat(per, order, damage)
      size == FatSize(per)
      start == DataStart(per)
      boot == [Blank EXCEPT !.magic = TRUE,
                 !.bpb = [fs |-> "FAT32", sector |-> 512, per_cluster |-> per, reserved |-> 2,
                          fats |-> 2, fat_size |-> size,
                          root |-> ClusterAt(per, order, 0)]]
      lost == CASE damage = "boot_bad" -> {0}
                [] damage = "fat_bad" -> {3}
                [] damage = "root_bad" -> {start + (ClusterAt(per, order, 0) - 2) * per}
                [] damage = "file_bad" ->
                     {start + (ClusterAt(per, order, Begin(per)["F"] + 1) - 2) * per}
                [] OTHER -> {}
      data(l) ==
        LET p == CHOOSE q \in 0 .. Total(per) - 1 :
                   ClusterAt(per, order, q) = 2 + ((l - start) \div per)
            c == CHOOSE x \in DOMAIN SectorCount :
                   Begin(per)[x] <= p /\ p < Begin(per)[x] + Length(per)[x]
            n == (p - Begin(per)[c]) * per + ((l - start) % per)
        IN  IF n < SectorCount[c] THEN Content(per, order, c, n) ELSE Blank
  IN  [l \in (0 .. start + Total(per) * per - 1) \ lost |->
         IF l = 0 THEN boot
         ELSE IF l < 2 THEN Blank
         ELSE IF l < start
         THEN LET k == (l - 2) % size IN [Blank EXCEPT !.fat = [i \in 1 .. 4 |-> fat[4 * k + i - 1]]]
         ELSE data(l)]

FatVolume(first, damage, found) ==
  [first |-> first, fs |-> "FAT32", tree |-> Tree, damaged |-> damage # "none",
   circles |-> damage = "dir_circles", found |-> found /\ damage # "boot_bad"]
-----------------------------------------------------------------------------
At(first, sectors) == [l \in {first + k : k \in DOMAIN sectors} |-> sectors[l - first]]
Part(type, first, count) == [type |-> type, first |-> first, count |-> count]
Mbr(table) == [Blank EXCEPT !.magic = TRUE, !.table = table]
Guid(used, first, last) == [used |-> used, first |-> first, last |-> last]

OneVolume(per, order, damage) ==
  [sectors |-> (0 :> Mbr(<<Part("empty", 0, 0), Part("fat", 5, 40)>>)) @@
               At(5, SectorsOf(per, order, damage)),
   volumes |-> {FatVolume(5, damage, TRUE)}]

Damages == {"none", "fat_bad", "root_bad", "file_bad", "boot_bad", "file_circles",
            "dir_circles", "cut", "wild"}
Alone(device) == [boot |-> "none", internal |-> <<device>>, usb |-> <<>>]
Volumes ==
  {Alone(OneVolume(per, order, "none")) : per \in {1, 2}, order \in {"up", "down", "mixed"}}
  \union {Alone(OneVolume(1, "mixed", damage)) : damage \in Damages}
  \union {Alone(OneVolume(2, "down", damage)) : damage \in Damages}

(* Other tables, all with a volume at 5 and a FAT16 volume at 60.          *)
Small == At(5, SectorsOf(2, "up", "none"))
Fat16 == 60 :> [Blank EXCEPT !.magic = TRUE,
                  !.bpb = [fs |-> "FAT16", sector |-> 512, per_cluster |-> 1, reserved |-> 1,
                           fats |-> 2, fat_size |-> 55, root |-> 77]]
Fat16Volume == [first |-> 60, fs |-> "FAT16", tree |-> (<<>> :> Folder(<<>>)), damaged |-> TRUE,
                circles |-> FALSE, found |-> TRUE]
Behind(front, found) ==
  [sectors |-> front @@ Small @@ Fat16,
   volumes |-> {FatVolume(5, "none", found), Fat16Volume}]

Guard == Mbr(<<Part("gpt", 1, 99)>>)
Header(signed, wide, sectors) ==
  [Blank EXCEPT !.gpt = [signed |-> signed, wide |-> wide, lba |-> 2, sectors |-> sectors]]
Guids(a, b) == [Blank EXCEPT !.guids = <<a, b>>]
GptEntries ==
  (2 :> Guids(Guid(FALSE, 9, 9), Guid(TRUE, 5, 40))) @@
  (3 :> Guids(Guid(TRUE, 50, 49), Guid(TRUE, 60, 70)))

Tables ==
  {Behind((0 :> Guard) @@ (1 :> Header(TRUE, TRUE, 2)) @@ GptEntries, TRUE),
   Behind((0 :> Guard) @@ (1 :> Header(TRUE, TRUE, 9)) @@ GptEntries, TRUE),
   Behind((0 :> Guard) @@ (1 :> Header(TRUE, TRUE, 1)) @@ GptEntries, TRUE),
   Behind((0 :> Guard) @@ (1 :> Header(TRUE, FALSE, 2)) @@ GptEntries, FALSE),
   Behind((0 :> Guard) @@ (1 :> Header(TRUE, TRUE, 2)), FALSE),
   Behind((0 :> Guard) @@ (1 :> Header(FALSE, TRUE, 2)) @@ GptEntries, FALSE),
   Behind((0 :> Guard) @@ (1 :> [Header(FALSE, TRUE, 2) EXCEPT
                                   !.table = <<Part("junk", 7, 3), Part("fat", 5, 40)>>]), TRUE),
   Behind(0 :> Guard, FALSE),
   Behind(0 :> Mbr(<<Part("fat", 60, 9), Part("fat", 5, 0), Part("fat", 5, 40)>>), TRUE),
   Behind(0 :> Mbr(<<Part("fat", 60, 9), Part("fat", 5, 0)>>), FALSE),
   Behind(0 :> Blank, FALSE),
   Behind(<<>>, FALSE)}

(* Several disks: a USB disk, the boot volume, more than there is room for.*)
D1 == OneVolume(1, "mixed", "none")
D2 == OneVolume(2, "down", "file_bad")
Empty == [sectors |-> (0 :> Blank), volumes |-> {}]
Several ==
  {[boot |-> boot, internal |-> internal, usb |-> usb] :
     boot \in {"none", "FAT32"}, internal \in {<<>>, <<D2>>, <<Empty, D1>>},
     usb \in {<<D1>>, <<D1, D2>>}}

MCMachines == Volumes \union {Alone(t) : t \in Tables} \union Several

Typed(drive, absolute, path) == [drive |-> drive, absolute |-> absolute, path |-> path]
MCPaths ==
  {Typed(0, TRUE, <<>>), Typed(0, FALSE, <<>>), Typed(0, FALSE, <<Name("..")>>),
   Typed(0, TRUE, <<LongName>>), Typed(0, TRUE, <<Name("HEAD")>>), Typed(0, TRUE, <<Name("HEAD~1")>>),
   Typed(0, FALSE, <<Name("D")>>), Typed(0, FALSE, <<Name("F")>>),
   Typed(0, TRUE, <<Name("D"), Name("F")>>), Typed(0, TRUE, <<Name("G")>>),
   Typed(0, TRUE, <<Name("E")>>), Typed(0, TRUE, <<Name("E"), Name("F")>>),
   Typed(2, FALSE, <<Name("D"), Name(".."), Name("D"), Name("X")>>)}
=============================================================================
