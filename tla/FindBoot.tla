------------------------------- MODULE FindBoot -------------------------------
(***************************************************************************)
(* How mask-shim.efi finds and starts macOS's boot.efi: find_macos_boot    *)
(* walks the file-system handles twice, try_open_candidates looks for the  *)
(* blessed file, the fixed paths, the paths below one and two directories  *)
(* and at last hunts through the tree; try_bootorder_chainload is the      *)
(* fallback.  Nothing is written: the memory map is already masked.        *)
(*                                                                         *)
(* A path is a sequence of names.  Of a file only its path and whether     *)
(* try_path can load it matter; of a volume, whether it opens, what it     *)
(* lists and what loads.                                                   *)
(***************************************************************************)
EXTENDS Naturals, Sequences, FiniteSets

CONSTANTS
  Names,         \* names of files and directories
  BootEfi,       \* "boot.efi"
  Alts,          \* MACOS_ALT_PATHS; the first one is MACOS_BOOT_SUFFIX
  MaxLevelDirs,  \* MAX_LEVEL_DIRS: 32
  MaxDepth,      \* max_depth of the hunt: 4
  VolumeLists,   \* the handles LocateHandle may return, as sequences of volumes
  BootOrders,    \* the boot options BootOrder may lead to
  Junk           \* what list_child_dirs reads from a file that is no directory

Paths == Seq(Names)

(* A volume lists its directories, <<>> being the root, and LoadImage       *)
(* accepts some of its files.                                               *)
IsVolume(v) ==
  /\ v.removable \in BOOLEAN    \* Media->RemovableMedia
  /\ v.opens \in BOOLEAN        \* OpenVolume succeeds
  /\ v.dirBit \in BOOLEAN       \* the driver sets EFI_FILE_DIRECTORY
  /\ v.doubled \in BOOLEAN      \* Open takes a path that starts with two separators
  /\ v.blessed \in Paths        \* AppleBlessedSystemFile, or <<>>
  /\ v.loads \subseteq Paths
  /\ DOMAIN v.lists \subseteq Paths /\ <<>> \in DOMAIN v.lists
  /\ \A d \in DOMAIN v.lists : v.lists[d] \in Seq(Names)

(* A boot option: whether its description has "USB", "BRR" or "mask" in it, *)
(* and its file path, or <<>>.                                              *)
IsOption(o) == o.skip \in BOOLEAN /\ o.path \in Paths

ASSUME LayoutAssumption ==
  /\ BootEfi \in Names
  /\ Alts \in Seq(Paths) /\ Len(Alts) > 0
  /\ MaxLevelDirs \in Nat /\ MaxDepth \in Nat
  /\ \A s \in Junk : s \in Seq(Names) /\ Len(s) <= MaxLevelDirs
ASSUME MachineAssumption ==
  /\ \A list \in VolumeLists : /\ list \in Seq({list[i] : i \in 1..Len(list)})
                               /\ \A i \in 1..Len(list) : IsVolume(list[i])
  /\ \A list \in BootOrders : /\ list \in Seq({list[i] : i \in 1..Len(list)})
                              /\ \A i \in 1..Len(list) : IsOption(list[i])

VARIABLES
  vols,    \* handles[]
  own,     \* position of own_dev in handles[], 0 if it is not there
  order,   \* the options BootOrder names
  phase,   \* where efi_main is: see TypeOK
  pass,    \* pass of find_macos_boot
  vol,     \* i of find_macos_boot, hi of try_bootorder_chainload
  alt,     \* i of tier 1, ai of tier 2
  child,   \* i of tier 2
  grand,   \* j of tier 3
  names1,  \* level1_names
  names2,  \* level2_names
  stack,   \* open directories of the hunt, each with its next entry
  opt,     \* i of try_bootorder_chainload
  image    \* the image LoadImage accepted, by volume and path

machine == <<vols, own, order>>
scan    == <<alt, child, grand, names1, names2, stack>>
vars    == <<machine, phase, pass, vol, scan, opt, image>>

NoImage == [vol |-> 0, path |-> <<>>]

Init ==
  /\ vols \in VolumeLists /\ order \in BootOrders
  /\ own \in 0..Len(vols)
  /\ phase = "probe" /\ pass = 0 /\ vol = 1
  /\ alt = 1 /\ child = 1 /\ grand = 1
  /\ names1 = <<>> /\ names2 = <<>> /\ stack = <<>>
  /\ opt = 1 /\ image = NoImage
-----------------------------------------------------------------------------
(* The first pass is for internal volumes only. *)
SkippedOwn(i) == pass = 0 /\ i = own   \* mutant: removable volumes are searched
Skipped(i) == pass = 0 /\ (i = own \/ vols[i].removable)

ProbeVolume ==
  /\ phase = "probe" /\ vol <= Len(vols)
  /\ IF ~Skipped(vol) /\ vols[vol].opens
     THEN phase' = "blessed" /\ UNCHANGED vol
     ELSE vol' = vol + 1 /\ UNCHANGED phase
  /\ UNCHANGED <<machine, pass, scan, opt, image>>

EndOfPass ==
  /\ phase = "probe" /\ vol > Len(vols)
  /\ IF pass = 0 THEN pass' = 1 /\ UNCHANGED phase
                 ELSE phase' = "options" /\ UNCHANGED pass
  /\ vol' = 1
  /\ UNCHANGED <<machine, scan, opt, image>>

(* try_path: opened, read and accepted by LoadImage. *)
Loads(i, p) == p \in vols[i].loads

Load(p) ==
  /\ image' = [vol |-> vol, path |-> p]
  /\ phase' = "loaded"

(* Tier 0. *)
TryBlessed ==
  /\ phase = "blessed"
  /\ IF vols[vol].blessed # <<>> /\ Loads(vol, vols[vol].blessed)
     THEN Load(vols[vol].blessed) /\ UNCHANGED alt
     ELSE phase' = "alts" /\ alt' = 1 /\ UNCHANGED image
  /\ UNCHANGED <<machine, pass, vol, child, grand, names1, names2, stack, opt>>

(* Tier 1. *)
TryAlt ==
  /\ phase = "alts" /\ alt <= Len(Alts)
  /\ IF Loads(vol, Alts[alt])
     THEN Load(Alts[alt]) /\ UNCHANGED alt
     ELSE alt' = alt + 1 /\ UNCHANGED <<phase, image>>
  /\ UNCHANGED <<machine, pass, vol, child, grand, names1, names2, stack, opt>>

(* list_child_dirs: the first names of a directory, files among them. *)
Shorter(a, b) == IF a < b THEN a ELSE b
ListChildDirsLate(i, d) ==   \* mutant: the bound is tested before n is advanced
  LET all == vols[i].lists[d]
  IN SubSeq(all, 1, Shorter(Len(all), MaxLevelDirs + 1))
ListChildDirs(i, d) ==
  LET all == vols[i].lists[d]
  IN SubSeq(all, 1, Shorter(Len(all), MaxLevelDirs))

ListRoot ==
  /\ phase = "alts" /\ alt > Len(Alts)
  /\ names1' = ListChildDirs(vol, <<>>)
  /\ phase' = "child" /\ child' = 1 /\ alt' = 1
  /\ UNCHANGED <<machine, pass, vol, grand, names2, stack, opt, image>>

(* Tier 2.  path_join puts a separator behind the prefix "\", so these paths *)
(* start with two of them, and it is up to the driver to open them.          *)
LoadsDoubled(i, p) == vols[i].doubled /\ Loads(i, p)

TryChildAlt ==
  /\ phase = "child" /\ child <= Len(names1) /\ alt <= Len(Alts)
  /\ LET p == <<names1[child]>> \o Alts[alt]
     IN IF LoadsDoubled(vol, p) THEN Load(p) /\ UNCHANGED alt
                                ELSE alt' = alt + 1 /\ UNCHANGED <<phase, image>>
  /\ UNCHANGED <<machine, pass, vol, child, grand, names1, names2, stack, opt>>

(* Open succeeds on a file too, whose bytes are then read as entries. *)
Opened(d) == IF d \in DOMAIN vols[vol].lists THEN {ListChildDirs(vol, d)} ELSE Junk

ListChildOnce ==          \* mutant: level two is searched below the first name only
  /\ phase = "child" /\ child <= Len(names1) /\ alt > Len(Alts)
  /\ alt' = 1
  /\ \/ /\ vols[vol].doubled /\ child = 1
        /\ names2' \in Opened(<<names1[child]>>)
        /\ phase' = "grandchild" /\ grand' = 1
        /\ UNCHANGED child
     \/ /\ ~(vols[vol].doubled /\ child = 1)
        /\ child' = child + 1
        /\ UNCHANGED <<phase, grand, names2>>
  /\ UNCHANGED <<machine, pass, vol, names1, stack, opt, image>>
ListChild ==
  /\ phase = "child" /\ child <= Len(names1) /\ alt > Len(Alts)
  /\ alt' = 1
  /\ \/ /\ vols[vol].doubled
        /\ names2' \in Opened(<<names1[child]>>)
        /\ phase' = "grandchild" /\ grand' = 1
        /\ UNCHANGED child
     \/ /\ ~vols[vol].doubled
        /\ child' = child + 1
        /\ UNCHANGED <<phase, grand, names2>>
  /\ UNCHANGED <<machine, pass, vol, names1, stack, opt, image>>

(* Tier 3. *)
TryGrandchild ==
  /\ phase = "grandchild" /\ grand <= Len(names2)
  /\ LET p == <<names1[child], names2[grand]>> \o Alts[1]
     IN IF Loads(vol, p) THEN Load(p) /\ UNCHANGED grand
                         ELSE grand' = grand + 1 /\ UNCHANGED <<phase, image>>
  /\ UNCHANGED <<machine, pass, vol, alt, child, names1, names2, stack, opt>>

NextChild ==
  /\ phase = "grandchild" /\ grand > Len(names2)
  /\ phase' = "child" /\ child' = child + 1
  /\ UNCHANGED <<machine, pass, vol, alt, grand, names1, names2, stack, opt, image>>

(* Tier 4: bfs_find_boot_efi, depth first.  A file of that name ends the    *)
(* hunt, whether it loads or not.                                           *)
StartHunt ==
  /\ phase = "child" /\ child > Len(names1)
  /\ phase' = "hunt"
  /\ stack' = <<[dir |-> <<>>, next |-> 1]>>
  /\ UNCHANGED <<machine, pass, vol, alt, child, grand, names1, names2, opt, image>>

Top        == stack[Len(stack)]
Entry      == Append(Top.dir, vols[vol].lists[Top.dir][Top.next])
EntryIsDir == vols[vol].dirBit /\ Entry \in DOMAIN vols[vol].lists
Advanced   == [stack EXCEPT ![Len(stack)].next = @ + 1]
HuntEnds   == phase' = "probe" /\ vol' = vol + 1

HuntDirStuck ==           \* mutant: the entry of a directory too deep is read again
  /\ phase = "hunt" /\ Top.next <= Len(vols[vol].lists[Top.dir]) /\ EntryIsDir
  /\ stack' = IF Len(stack) <= MaxDepth THEN Append(Advanced, [dir |-> Entry, next |-> 1])
              ELSE [stack EXCEPT ![Len(stack)].next = 1]
  /\ UNCHANGED <<machine, phase, pass, vol, alt, child, grand, names1, names2, opt, image>>
HuntDir ==
  /\ phase = "hunt" /\ Top.next <= Len(vols[vol].lists[Top.dir]) /\ EntryIsDir
  /\ stack' = IF Len(stack) <= MaxDepth THEN Append(Advanced, [dir |-> Entry, next |-> 1])
              ELSE Advanced
  /\ UNCHANGED <<machine, phase, pass, vol, alt, child, grand, names1, names2, opt, image>>

HuntFile ==
  /\ phase = "hunt" /\ Top.next <= Len(vols[vol].lists[Top.dir]) /\ ~EntryIsDir
  /\ IF Entry[Len(Entry)] # BootEfi
     THEN stack' = Advanced /\ UNCHANGED <<phase, vol, image>>
     ELSE /\ stack' = <<>>
          /\ IF Loads(vol, Entry) THEN Load(Entry) /\ UNCHANGED vol
                                  ELSE HuntEnds /\ UNCHANGED image
  /\ UNCHANGED <<machine, pass, alt, child, grand, names1, names2, opt>>

HuntUp ==
  /\ phase = "hunt" /\ Top.next > Len(vols[vol].lists[Top.dir])
  /\ stack' = SubSeq(stack, 1, Len(stack) - 1)
  /\ IF Len(stack) = 1 THEN HuntEnds ELSE UNCHANGED <<phase, vol>>
  /\ UNCHANGED <<machine, pass, alt, child, grand, names1, names2, opt, image>>
-----------------------------------------------------------------------------
(* try_bootorder_chainload: the file of each option is looked for on every  *)
(* volume, whichever one the option names.                                  *)
NextOption ==
  /\ phase = "options" /\ opt <= Len(order)
  /\ IF order[opt].skip \/ order[opt].path = <<>>
     THEN opt' = opt + 1 /\ UNCHANGED <<phase, vol>>
     ELSE phase' = "search" /\ vol' = 1 /\ UNCHANGED opt
  /\ UNCHANGED <<machine, pass, scan, image>>

OnVolume(i, p) == vols[i].opens /\ Loads(i, p)

TryVolumeOnce ==          \* mutant: only the first volume is tried
  /\ phase = "search" /\ vol <= Len(vols)
  /\ IF OnVolume(vol, order[opt].path)
     THEN Load(order[opt].path) /\ UNCHANGED vol
     ELSE vol' = Len(vols) + 1 /\ UNCHANGED <<phase, image>>
  /\ UNCHANGED <<machine, pass, scan, opt>>
TryVolume ==
  /\ phase = "search" /\ vol <= Len(vols)
  /\ IF OnVolume(vol, order[opt].path)
     THEN Load(order[opt].path) /\ UNCHANGED vol
     ELSE vol' = vol + 1 /\ UNCHANGED <<phase, image>>
  /\ UNCHANGED <<machine, pass, scan, opt>>

OnNoVolume ==
  /\ phase = "search" /\ vol > Len(vols)
  /\ phase' = "options" /\ opt' = opt + 1
  /\ UNCHANGED <<machine, pass, vol, scan, image>>

GiveUp ==
  /\ phase = "options" /\ opt > Len(order)
  /\ phase' = "returned"
  /\ UNCHANGED <<machine, pass, vol, scan, opt, image>>

(* StartImage: the image takes over the machine, or it returns and efi_main *)
(* returns too.                                                             *)
StartAndSearchOn ==       \* mutant: an image that returns is followed by the next volume's
  /\ phase = "loaded"
  /\ \/ phase' = "started" /\ UNCHANGED vol
     \/ phase' = "probe" /\ vol' = vol + 1
  /\ UNCHANGED <<machine, pass, scan, opt, image>>
Start ==
  /\ phase = "loaded"
  /\ phase' \in {"started", "returned"}
  /\ UNCHANGED <<machine, pass, vol, scan, opt, image>>

Next ==
  \/ ProbeVolume \/ EndOfPass
  \/ TryBlessed \/ TryAlt \/ ListRoot \/ TryChildAlt \/ ListChild
  \/ TryGrandchild \/ NextChild
  \/ StartHunt \/ HuntDir \/ HuntFile \/ HuntUp
  \/ NextOption \/ TryVolume \/ OnNoVolume \/ GiveUp
  \/ Start

(* One thread, which waits for nobody; every firmware call returns. *)
Spec == Init /\ [][Next]_vars /\ WF_vars(Next)
-----------------------------------------------------------------------------
(* The positions and snapshots stay within their arrays, and the hunt       *)
(* within its depth.                                                        *)
TypeOK ==
  /\ vols \in VolumeLists /\ order \in BootOrders /\ own \in 0..Len(vols)
  /\ phase \in {"probe", "blessed", "alts", "child", "grandchild", "hunt", "options",
                "search", "loaded", "started", "returned"}
  /\ pass \in 0..1
  /\ vol \in 1..Len(vols) + 1 /\ opt \in 1..Len(order) + 1
  /\ alt \in 1..Len(Alts) + 1
  /\ names1 \in Seq(Names) /\ Len(names1) <= MaxLevelDirs /\ child \in 1..Len(names1) + 1
  /\ names2 \in Seq(Names) /\ Len(names2) <= MaxLevelDirs /\ grand \in 1..Len(names2) + 1
  /\ stack \in Seq([dir : Paths, next : Nat]) /\ Len(stack) <= MaxDepth + 1
  /\ image \in [vol : 0..Len(vols), path : Paths]

(* The places where macOS is known to keep boot.efi: the blessed file, the  *)
(* fixed paths, and these below the first directories of one or two levels  *)
(* where the driver opens the doubled separator.                            *)
FirstOf(i, d) == {vols[i].lists[d][k] : k \in 1..Shorter(Len(vols[i].lists[d]), MaxLevelDirs)}
Below(i) == {n \in FirstOf(i, <<>>) : vols[i].doubled}
ChildPaths(n) == {<<n>> \o Alts[k] : k \in 1..Len(Alts)}
GrandPaths(i, n) == {<<n, m>> \o Alts[1] : m \in FirstOf(i, <<n>>)}
KnownPaths(i) ==
  {vols[i].blessed} \cup {Alts[k] : k \in 1..Len(Alts)}
  \cup (UNION {ChildPaths(n) : n \in Below(i)})
  \cup (UNION {GrandPaths(i, n) : n \in {x \in Below(i) : <<x>> \in DOMAIN vols[i].lists}})
HasBoot(i) == vols[i].opens /\ \E p \in KnownPaths(i) \ {<<>>} : Loads(i, p)

(* The scan turns to BootOrder only if no volume at all, this image's own   *)
(* and removable ones included, has a loadable boot.efi in a known place,   *)
(* whatever else is on them and whether the driver sets the directory bit.  *)
KnownLayoutsFound ==
  phase \in {"options", "search"} /\ image = NoImage => \A i \in 1..Len(vols) : ~HasBoot(i)

(* "we want the internal SSD, not re-booting from USB": an image comes from *)
(* the shim's own volume or a removable one only if no internal volume has  *)
(* a boot.efi in a known place.                                             *)
External(i) == i = own \/ vols[i].removable
InternalFirst ==
  image # NoImage /\ External(image.vol) =>
    \A i \in 1..Len(vols) : ~External(i) => ~HasBoot(i)

(* The fallback takes the options in the order of BootOrder: an option is   *)
(* passed over only if it is the stick's or the shim's own, names no file,  *)
(* or its file loads from no volume.                                        *)
FirstOption ==
  [][phase = "search" /\ phase' = "loaded" =>
       \A k \in 1..opt - 1 :
         \/ order[k].skip \/ order[k].path = <<>>
         \/ \A i \in 1..Len(vols) : ~OnVolume(i, order[k].path)]_vars

(* One image at most is ever loaded: a macOS that returns is not followed   *)
(* by another, with the memory map it has left behind.                      *)
OneImage == [][image # NoImage => UNCHANGED image]_vars

(* The search ends: macOS is started or the shim returns to the firmware,   *)
(* which takes the next boot entry.                                         *)
SearchEnds == <>(phase \in {"started", "returned"})
=============================================================================
