------------------------------ MODULE MemtestLog ------------------------------
(***************************************************************************)
(* What the patched memtest86+ remembers of the errors it finds:           *)
(* badmem_log.c (page log, chip and row tables, skip list), the burst      *)
(* detector that patch 0013 adds to common_err, board_prune_vm_map of      *)
(* skip.c, which cuts the skipped regions out of every test window, and    *)
(* the end of a pass (patch 0009, error_hook.c).                           *)
(*                                                                         *)
(* Addresses are those of the words a test touches.  memtest86+ maps        *)
(* physical memory directly up to 2 GiB and the rest through a window of    *)
(* 1 GiB above that, so that one address of the window stands for a word    *)
(* of every gigabyte.  Everything but Report, the arrival of an error in    *)
(* physical memory, deals in addresses, as the patches do.  The CPUs report *)
(* errors under error_mutex, one at a time; CPU 0 does everything else      *)
(* while the others wait.                                                   *)
(***************************************************************************)
EXTENDS Naturals, Sequences, FiniteSets

CONSTANTS
  DirectWords, \* words mapped directly: 2 GiB
  WindowWords, \* words the window maps: 1 GiB
  MBWords,     \* words in 1 MiB
  PageWords,   \* words in a page
  MaxEntries,  \* MAX_ENTRIES of log_pages
  SkipMax,     \* SKIP_MAX
  WorkMax,     \* entries of work[] and new_work[]: 8
  MapMax,      \* MAX_MEM_SEGMENTS
  LruSlots,    \* MB_LRU_SLOTS
  Burst,       \* errors of one region that make a burst: 8
  RunMax,      \* where a run stops counting: 255
  ErrorStop,   \* errors after which every error sets bail: 16
  MaxErrors,   \* bound of the model: errors reported in a run
  BadWords,    \* physical words that may fail
  Windows,     \* possible test windows: segments and the physical base
  RowMax,      \* MAX_BAD_ROWS
  RowOf,       \* logged address -> row it decodes to, or NoRow
  NoRow,
  ChipsOf,     \* logged address -> the chips on its data bus, by lane
  ChipBuf,     \* CHIPS_BUF_SIZE
  ChipLen      \* chip -> length of its designator

MaxAddr   == DirectWords + WindowWords - 1
Addresses == 0..MaxAddr
Segments  == {g \in [start : 0..MaxAddr + 1, end : 0..MaxAddr + 1] : g.start < g.end}
Bases     == {DirectWords} \cup {w.base : w \in Windows}
Maps      == {<<>>} \cup {w.segs : w \in Windows}
Slots     == 0..LruSlots - 1

ASSUME BoundsAssumption ==
  /\ DirectWords \in Nat /\ WindowWords \in Nat \ {0}
  /\ MBWords \in Nat \ {0} /\ PageWords \in Nat \ {0}
  /\ MaxEntries \in Nat /\ SkipMax \in Nat
  /\ WorkMax \in Nat \ {0} /\ MapMax \in Nat \ {0} /\ LruSlots \in Nat \ {0}
  /\ Burst \in Nat \ {0} /\ RunMax \in Nat /\ Burst <= RunMax
  /\ ErrorStop \in Nat /\ MaxErrors \in Nat
  /\ RowMax \in Nat /\ ChipBuf \in Nat
(* A segment ends with its last word, the last one of a page.              *)
ASSUME DataAssumption ==
  /\ Windows \subseteq [base : Nat, segs : Seq(Segments)]
  /\ \A w \in Windows :
       /\ Len(w.segs) <= MapMax
       /\ \A i \in 1..Len(w.segs) : w.segs[i].end % MBWords # 0
       /\ \A i, j \in 1..Len(w.segs) : i < j => w.segs[i].end < w.segs[j].start
  /\ BadWords \subseteq Nat
  /\ DOMAIN RowOf = Addresses
  /\ ChipsOf \in [Addresses -> Seq(DOMAIN ChipLen)]
  /\ ChipLen \in [DOMAIN ChipLen -> Nat \ {0}]
(* Both mappings end on a boundary of 1 MiB, which is made of whole pages.  *)
ASSUME WholeRegions ==
  /\ DirectWords % MBWords = 0 /\ WindowWords % MBWords = 0
  /\ DirectWords % WindowWords = 0 /\ MBWords % PageWords = 0

VARIABLES
  phase,     \* "window", "load", "cut", "test", "decode", "chips", "halted", "overrun"
  log,       \* log_pages[0 .. log_count - 1]
  skips,     \* skip_list[0 .. skip_list_count - 1]
  lru,       \* lru[]: regions with errors and their runs
  lruNext,   \* lru_next
  errors,    \* error_count
  bail,      \* bail: the current test returns at its next check
  mapped,    \* first physical word of the gigabyte in the window
  vmMap,     \* vm_map[0 .. vm_map_size - 1]
  seg,       \* i of board_prune_vm_map and board_decode_pass
  skip,      \* k
  piece,     \* w; the chip of board_decode_pass
  work,      \* work[0 .. nwork - 1]
  newWork,   \* new_work[0 .. new_nwork - 1]
  scratch,   \* scratch[0 .. out - 1]
  rows,      \* row_log
  chips,     \* the names in chip_buf
  chipUsed,  \* chip_buf_used
  \* history
  window,    \* the window as setup_vm_map built it
  reported   \* physical words whose errors were reported

logVars   == <<log, skips, lru, lruNext, errors, bail, reported>>
pruneVars == <<seg, skip, piece, work, newWork, scratch>>
tables    == <<rows, chips, chipUsed>>
vars      == <<phase, logVars, mapped, vmMap, window, pruneVars, tables>>

(* A skip range ends before its end; a segment of vm_map ends with it.     *)
Within(p, g)  == g.start <= p /\ p < g.end
Touches(p, g) == g.start <= p /\ p <= g.end
Covered(list) == {p \in Addresses : \E j \in 1..Len(list) : Within(p, list[j])}
Tested(list)  == {p \in Addresses : \E j \in 1..Len(list) : Touches(p, list[j])}

(* The address a test has for a physical word, the inverse of page_of, and  *)
(* the page that is logged for an address.                                  *)
Address(p) == IF p < DirectWords THEN p ELSE DirectWords + (p % WindowWords)
PageOf(p)  == PageWords * (p \div PageWords)

RegionLong(p) ==          \* mutant: 2 MiB instead of 1 MiB
  LET base == MBWords * (p \div MBWords)
  IN [start |-> base, end |-> base + 2 * MBWords]
Region(p)     == LET base == MBWords * (p \div MBWords)
                 IN [start |-> base, end |-> base + MBWords]
Lower(a, b)   == IF a < b THEN a ELSE b
Upper(a, b)   == IF a < b THEN b ELSE a
Least(S)      == CHOOSE a \in S : \A b \in S : a <= b
Listed(s)     == {s[j] : j \in 1..Len(s)}

Init ==
  /\ phase = "window"
  /\ log = <<>> /\ skips = <<>>
  /\ lru = [s \in Slots |-> [base |-> 0, run |-> 0]] /\ lruNext = 0
  /\ errors = 0 /\ bail = FALSE
  /\ mapped = DirectWords /\ vmMap = <<>> /\ window = <<>>
  /\ seg = 1 /\ skip = 1 /\ piece = 1
  /\ work = <<>> /\ newWork = <<>> /\ scratch = <<>>
  /\ rows = <<>> /\ chips = <<>> /\ chipUsed = 0
  /\ reported = {}
-----------------------------------------------------------------------------
(* setup_vm_map for the next window, of this test or the next, and the call *)
(* of board_prune_vm_map at its end.  A gigabyte above 2 GiB is mapped into *)
(* the window first.                                                        *)
SetupWindow ==
  /\ phase = "window"
  /\ \E w \in Windows :
       /\ window' = w.segs /\ vmMap' = w.segs
       /\ mapped' = IF w.base < DirectWords THEN mapped ELSE w.base
  /\ phase' = IF skips = <<>> THEN "test" ELSE "load"
  /\ UNCHANGED <<logVars, pruneVars, tables>>

LoadSegment ==
  /\ phase = "load" /\ seg <= Len(vmMap)
  /\ work' = <<vmMap[seg]>> /\ newWork' = <<>>
  /\ skip' = 1 /\ piece' = 1
  /\ phase' = "cut"
  /\ UNCHANGED <<logVars, mapped, vmMap, window, seg, scratch, tables>>

(* One remnant against one skip range. *)
Disjoint(g, h) == h.end <= g.start \/ h.start >= g.end
LeftOfWrong(g, h) ==      \* mutant: the left piece ends at the end of the skip range
  IF h.start > g.start THEN <<[start |-> g.start, end |-> h.end]>> ELSE <<>>
LeftOf(g, h)   == IF h.start > g.start THEN <<[start |-> g.start, end |-> h.start]>> ELSE <<>>
RightOfElse(g, h) ==      \* mutant: a right piece only if there is no left one
  IF h.end < g.end /\ h.start <= g.start THEN <<[start |-> h.end, end |-> g.end]>> ELSE <<>>
RightOf(g, h)  == IF h.end < g.end THEN <<[start |-> h.end, end |-> g.end]>> ELSE <<>>
AddPieceLate(list, p) ==  \* mutant: one piece too many
  IF Len(list) <= WorkMax THEN list \o p ELSE list
AddPiece(list, p) == IF Len(list) < WorkMax THEN list \o p ELSE list

Cutting == phase = "cut" /\ skip <= Len(skips) /\ work # <<>>

(* Without an overlap the remnant is copied unchecked: past the end of      *)
(* new_work the program's behaviour is undefined and the model stops.       *)
CutPiece ==
  /\ Cutting /\ piece <= Len(work)
  /\ LET g == work[piece]
         h == skips[skip]
     IN IF Disjoint(g, h)
        THEN /\ newWork' = IF Len(newWork) < WorkMax THEN Append(newWork, g) ELSE newWork
             /\ phase' = IF Len(newWork) < WorkMax THEN phase ELSE "overrun"
        ELSE /\ newWork' = AddPiece(AddPiece(newWork, LeftOf(g, h)), RightOf(g, h))
             /\ UNCHANGED phase
  /\ piece' = piece + 1
  /\ UNCHANGED <<logVars, mapped, vmMap, window, seg, skip, work, scratch, tables>>

NextSkipStays ==          \* mutant: k is not advanced
  /\ Cutting /\ piece > Len(work)
  /\ work' = newWork /\ newWork' = <<>>
  /\ piece' = 1
  /\ UNCHANGED <<phase, logVars, mapped, vmMap, window, seg, skip, scratch, tables>>
NextSkip ==
  /\ Cutting /\ piece > Len(work)
  /\ work' = newWork /\ newWork' = <<>>
  /\ skip' = skip + 1 /\ piece' = 1
  /\ UNCHANGED <<phase, logVars, mapped, vmMap, window, seg, scratch, tables>>

EmitPieces ==
  /\ phase = "cut" /\ ~Cutting
  /\ scratch' = scratch \o SubSeq(work, 1, Lower(Len(work), 2 * MapMax - Len(scratch)))
  /\ seg' = seg + 1
  /\ phase' = "load"
  /\ UNCHANGED <<logVars, mapped, vmMap, window, skip, piece, work, newWork, tables>>

(* If nothing was pruned scratch equals vm_map, and copying it back is no   *)
(* change either.                                                           *)
ReplaceMap ==
  /\ phase = "load" /\ seg > Len(vmMap)
  /\ vmMap' = SubSeq(scratch, 1, Lower(Len(scratch), MapMax))
  /\ phase' = "test"
  /\ seg' = 1 /\ skip' = 1 /\ piece' = 1
  /\ work' = <<>> /\ newWork' = <<>> /\ scratch' = <<>>
  /\ UNCHANGED <<logVars, mapped, window, tables>>

Prune == LoadSegment \/ CutPiece \/ NextSkip \/ EmitPieces \/ ReplaceMap
-----------------------------------------------------------------------------
(* badmem_log_record. *)
RecordAgain(p) ==         \* mutant: no search for duplicates
  IF Len(log) >= MaxEntries THEN log ELSE Append(log, p)
Record(p) ==
  IF p \in Listed(log) \/ Len(log) >= MaxEntries THEN log ELSE Append(log, p)

(* badmem_log_add_skip: the first entry that overlaps or abuts grows. *)
AddSkipEach(g) ==         \* mutant: no return after the first entry has grown
  LET touching == {j \in 1..Len(skips) : g.end >= skips[j].start /\ g.start <= skips[j].end}
  IN IF touching # {}
     THEN [j \in 1..Len(skips) |->
             IF j \in touching THEN [start |-> Lower(g.start, skips[j].start),
                                     end   |-> Upper(g.end, skips[j].end)]
             ELSE skips[j]]
     ELSE IF Len(skips) < SkipMax THEN Append(skips, g) ELSE skips
AddSkip(g) ==
  LET touching == {j \in 1..Len(skips) : g.end >= skips[j].start /\ g.start <= skips[j].end}
      j        == Least(touching)
  IN IF touching # {}
     THEN [skips EXCEPT ![j] = [start |-> Lower(g.start, skips[j].start),
                                end   |-> Upper(g.end, skips[j].end)]]
     ELSE IF Len(skips) < SkipMax THEN Append(skips, g) ELSE skips

(* The burst detector's slots with a run of region b. *)
RunsOf(b) == {s \in Slots : lru[s].base = b /\ lru[s].run > 0}

(* common_err for a DATA_ERROR or ADDR_ERROR of a physical word under test. *)
(* It has the address, not the word: the page logged, the region counted    *)
(* and the range skipped are those of the address.                          *)
Report(p) ==
  LET a     == Address(p)
      g     == Region(a)
      found == RunsOf(g.start) # {}
      slot  == IF found THEN Least(RunsOf(g.start)) ELSE lruNext
      run   == IF found THEN Lower(lru[slot].run + 1, RunMax) ELSE 1
      burst == run = Burst /\ ~bail
  IN /\ phase = "test" /\ errors < MaxErrors
     /\ a \in Tested(vmMap) /\ (p < DirectWords \/ p \div WindowWords = mapped \div WindowWords)
     /\ log' = Record(PageOf(a))
     /\ lru' = [lru EXCEPT ![slot] = IF burst THEN [base |-> 0, run |-> 0]
                                     ELSE [base |-> g.start, run |-> run]]
     /\ lruNext' = IF found THEN lruNext ELSE (lruNext + 1) % LruSlots
     /\ skips' = IF burst THEN AddSkip(g) ELSE skips
     /\ bail' = (bail \/ burst \/ errors >= ErrorStop)
     /\ errors' = errors + 1
     /\ reported' = reported \cup {p}
     /\ UNCHANGED <<phase, mapped, vmMap, window, pruneVars, tables>>

(* The window is done, or the test returned because of bail, which          *)
(* memtest86+ clears for its next test.  setup_vm_map starts the next map   *)
(* empty.                                                                   *)
EndWindow ==
  /\ phase = "test"
  /\ phase' = "window" /\ bail' = FALSE
  /\ vmMap' = <<>> /\ window' = <<>>
  /\ UNCHANGED <<log, skips, lru, lruNext, errors, reported, mapped, pruneVars, tables>>

(* The end of a pass: with an empty log the next pass starts, otherwise     *)
(* board_decode_pass runs and the machine halts.                            *)
EndPass ==
  /\ phase = "window" /\ log # <<>>
  /\ phase' = "decode"
  /\ UNCHANGED <<logVars, mapped, vmMap, window, pruneVars, tables>>

(* decode_and_log_one for the next logged page: its row, then its chips in  *)
(* the order of their lanes (badmem_log_record_row, _record_chip).          *)
RecordRow ==
  /\ phase = "decode" /\ seg <= Len(log)
  /\ LET r == RowOf[log[seg]]
     IN rows' = IF r = NoRow \/ r \in Listed(rows) \/ Len(rows) >= RowMax
                THEN rows ELSE Append(rows, r)
  /\ phase' = "chips" /\ piece' = 1
  /\ UNCHANGED <<logVars, mapped, vmMap, window, seg, skip, work, newWork, scratch, chips, chipUsed>>

(* What chip_buf holds with c and the comma before it. *)
UsedWith(c) == chipUsed + ChipLen[c] + (IF chipUsed > 0 THEN 1 ELSE 0)

RecordChipShort ==        \* mutant: the last byte of chip_buf is never used
  /\ phase = "chips" /\ piece <= Len(ChipsOf[log[seg]])
  /\ LET c == ChipsOf[log[seg]][piece]
     IN IF UsedWith(c) + 1 >= ChipBuf \/ c \in Listed(chips)
        THEN UNCHANGED <<chips, chipUsed>>
        ELSE chips' = Append(chips, c) /\ chipUsed' = UsedWith(c)
  /\ piece' = piece + 1
  /\ UNCHANGED <<phase, logVars, mapped, vmMap, window, seg, skip, work, newWork, scratch, rows>>
RecordChip ==
  /\ phase = "chips" /\ piece <= Len(ChipsOf[log[seg]])
  /\ LET c == ChipsOf[log[seg]][piece]
     IN IF UsedWith(c) + 1 > ChipBuf \/ c \in Listed(chips)
        THEN UNCHANGED <<chips, chipUsed>>
        ELSE chips' = Append(chips, c) /\ chipUsed' = UsedWith(c)
  /\ piece' = piece + 1
  /\ UNCHANGED <<phase, logVars, mapped, vmMap, window, seg, skip, work, newWork, scratch, rows>>

NextPage ==
  /\ phase = "chips" /\ piece > Len(ChipsOf[log[seg]])
  /\ phase' = "decode" /\ seg' = seg + 1
  /\ UNCHANGED <<logVars, mapped, vmMap, window, skip, piece, work, newWork, scratch, tables>>

Halt ==
  /\ phase = "decode" /\ seg > Len(log)
  /\ phase' = "halted"
  /\ UNCHANGED <<logVars, mapped, vmMap, window, pruneVars, tables>>

Next == SetupWindow \/ Prune \/ (\E p \in BadWords : Report(p)) \/ EndWindow
        \/ EndPass \/ RecordRow \/ RecordChip \/ NextPage \/ Halt

(* CPU 0 never waits inside the pruning loop. *)
Spec == Init /\ [][Next]_vars /\ WF_vars(Prune)
-----------------------------------------------------------------------------
(* Every variable keeps its type and every table its capacity. *)
TypeOK ==
  /\ phase \in {"window", "load", "cut", "test", "decode", "chips", "halted", "overrun"}
  /\ log \in Seq(Addresses) /\ Len(log) <= MaxEntries
  /\ skips \in Seq(Segments) /\ Len(skips) <= SkipMax
  /\ lru \in [Slots -> [base : Addresses, run : 0..RunMax]] /\ lruNext \in Slots
  /\ errors \in 0..MaxErrors /\ bail \in BOOLEAN
  /\ vmMap \in Seq(Segments) /\ Len(vmMap) <= MapMax
  /\ mapped \in Bases /\ window \in Maps
  /\ seg \in Nat \ {0} /\ skip \in Nat \ {0} /\ piece \in Nat \ {0}
  /\ work \in Seq(Segments) /\ Len(work) <= WorkMax
  /\ newWork \in Seq(Segments) /\ Len(newWork) <= WorkMax
  /\ scratch \in Seq(Segments) /\ Len(scratch) <= 2 * MapMax
  /\ rows \in Seq({RowOf[p] : p \in Addresses}) /\ Len(rows) <= RowMax
  /\ chips \in Seq(DOMAIN ChipLen)
  /\ chipUsed \in 0..ChipBuf
  /\ reported \subseteq BadWords

(* What a test touches is memory of its window and, until a burst of its    *)
(* own, none that an earlier burst has put on the skip list, except the     *)
(* first word of a skip range, where the piece to its left ends (skip.c).   *)
(* Patch 0015 says that the wedging region is not touched again.            *)
PrunedClean ==
  phase = "test" =>
    /\ Tested(vmMap) \subseteq Tested(window)
    /\ ~bail => Tested(vmMap) \cap Covered(skips) \subseteq {h.start : h \in Listed(skips)}

(* No address is on the skip list twice, although badmem_log_add_skip merges *)
(* a new range with one entry only and never merges entries that have       *)
(* grown together: the summary's sizes add up.  Only the first word of a    *)
(* region, which stays under test, may bring a region back.                 *)
SkipsDisjoint ==
  (\A p \in reported : Address(p) % MBWords # 0) =>
    \A i, j \in 1..Len(skips) : i # j => skips[i].end <= skips[j].start
                                        \/ skips[j].end <= skips[i].start

(* An address is excluded from the tests only if an error was reported in   *)
(* its region, by address, and if the log, unless it is full, names the     *)
(* page of that address (badmem_log.h).  What is excluded below 2 GiB is    *)
(* the region of a word that failed there, so that the shim can mask it;    *)
(* above, the range is cut out of every gigabyte and the failing one is not *)
(* known.                                                                   *)
SkippedIsLogged ==
  \A a \in Covered(skips) : \E p \in reported :
    /\ Region(Address(p)) = Region(a)
    /\ a < DirectWords => p < DirectWords
    /\ Len(log) < MaxEntries => PageOf(Address(p)) \in Listed(log)

(* The log holds the page of the address of each word with an error once    *)
(* and nothing else; only a full log misses one.  Below 2 GiB that is the   *)
(* page of the word; above, pages of different gigabytes share one entry.   *)
LogComplete ==
  /\ \A i, j \in 1..Len(log) : log[i] = log[j] => i = j
  /\ Listed(log) \subseteq {PageOf(Address(p)) : p \in reported}
  /\ Len(log) < MaxEntries => \A p \in reported : PageOf(Address(p)) \in Listed(log)

(* As long as the skip list is shorter than the work list and the pieces    *)
(* fit vm_map, every address of the window is tested or on the skip list.   *)
(* Above 2 GiB the skip list is also that of the other gigabytes: memory of *)
(* this window goes untested for an error in another.                       *)
GoodMemoryTested ==
  phase = "test" /\ Len(skips) < WorkMax /\ Len(window) + Len(skips) <= MapMax
    => Tested(window) \subseteq Tested(vmMap) \cup Covered(skips)

(* When the machine halts, the tables hold the row and the chips of every   *)
(* logged page and nothing else; only a full table misses one, and chip_buf *)
(* a name only if it has no room for it, its comma and the final NUL.       *)
HaltReports ==
  phase = "halted" =>
    /\ Listed(rows) \subseteq {RowOf[p] : p \in Listed(log)} \ {NoRow}
    /\ Listed(chips) \subseteq UNION {Listed(ChipsOf[p]) : p \in Listed(log)}
    /\ \A p \in Listed(log) :
         /\ RowOf[p] \in Listed(rows) \cup {NoRow} \/ Len(rows) = RowMax
         /\ \A c \in Listed(ChipsOf[p]) : c \in Listed(chips) \/ UsedWith(c) + 1 > ChipBuf

(* The pruning loop ends. *)
PruneEnds == phase \in {"load", "cut"} ~> phase \in {"test", "overrun"}

(* The work list of the remnants never overflows (skip.c:49-51).            *)
WorkListFits == phase # "overrun"
=============================================================================
