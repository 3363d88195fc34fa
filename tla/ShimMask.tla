------------------------------- MODULE ShimMask -------------------------------
(***************************************************************************)
(* What mask-shim.efi does to the UEFI memory map: it picks a mode, reads  *)
(* badmem.txt (badmem_parse.c) and BrrBadPages into ranges[], reserves a   *)
(* window around each range page by page, verifies the result against the  *)
(* memory map and, in the other modes, reserves the pages of whole chips   *)
(* or rows.                                                                *)
(*                                                                         *)
(* An address counts grains, PageSize of them to a page; everything else   *)
(* counts pages.  RAM is the pages 0..MaxPage.                             *)
(***************************************************************************)
EXTENDS Naturals, Sequences, FiniteSets

CONSTANTS
  PageSize,     \* MASK_PAGE_SIZE, in grains
  MaxPage,      \* the last page of RAM
  Expand,       \* MASK_EXPAND_BYTES, in pages
  MaxRanges,    \* BADMEM_MAX_RANGES
  MaxChips,     \* BADMEM_MAX_CHIPS
  BadmemFiles,  \* possible contents of badmem.txt, as sequences of lines
  SavedBlobs,   \* possible contents of BrrBadPages, as sequences of addresses
  Designators,  \* chip designators that may be written down
  ChipLists,    \* possible contents of BrrBadChips
  RowLists,     \* possible contents of BrrBadRows
  Board,        \* designators of the board table -> pages of their channel and rank
  RowPages,     \* bad rows -> the pages they decode to
  Decoders,     \* possible values of BrrDecoderStatus
  FirmwareTypes,\* types a page may have when the shim starts
  AllocFails    \* whether AllocatePages may fail on a free page

Pages     == 0..MaxPage
MemTypes  == {"Conventional", "BootServices", "Reserved", "Absent"}
Addresses == Nat

(* A line is a region, a "# chip:" directive or anything the parser skips. *)
Lines == [kind : {"region"}, addr : Addresses, len : Nat]
         \cup [kind : {"chip"}, desig : Designators]
         \cup [kind : {"other"}]

ASSUME SizesAssumption ==
  /\ PageSize \in Nat \ {0}
  /\ MaxPage \in Nat /\ Expand \in Nat
  /\ MaxRanges \in Nat /\ MaxChips \in Nat
  /\ FirmwareTypes \subseteq MemTypes
  /\ AllocFails \in BOOLEAN
ASSUME InputsAssumption ==
  /\ BadmemFiles \subseteq Seq(Lines)
  /\ SavedBlobs \subseteq Seq(Addresses)
  /\ ChipLists \subseteq Seq(Designators)
  /\ RowLists \subseteq Seq(DOMAIN RowPages)
  /\ Decoders \subseteq {"UNKNOWN", "VALIDATED", "FAILED"}

VARIABLES
  \* inputs, read only
  lines,      \* badmem.txt, as far as file_buf holds it
  saved,      \* BrrBadPages
  intact,     \* size, version and count of the BrrBadPages blob check out
  nvChips,    \* BrrBadChips
  nvRows,     \* BrrBadRows
  decoder,    \* BrrDecoderStatus
  forceChip,  \* force_chip: the state was TRIAL_PENDING_CHIP
  firmware,   \* memory map when the shim starts
  \* the program
  pc,
  mode,       \* the branch of the decision tree taken
  ranges,     \* ranges[0 .. n_ranges - 1]
  chips,      \* chips[0 .. n_chips - 1]
  cur,        \* index of the running loop
  off,        \* position in the window, or page, of the running inner loop
  memmap,     \* UEFI memory map
  thisGap,    \* this_gap # 0
  gaps,       \* ranges_gaps
  warned,     \* a warning about lost input or unprotected pages was printed
  verdict,    \* what verify_mask_in_memmap printed
  \* history
  unread      \* inputs nothing could be read of

inputs == <<lines, saved, intact, nvChips, nvRows, decoder, forceChip, firmware>>
vars   == <<inputs, pc, mode, ranges, chips, cur, off, memmap, thisGap, gaps, warned,
            verdict, unread>>

Init ==
  /\ lines \in BadmemFiles
  /\ saved \in SavedBlobs
  /\ intact \in BOOLEAN
  /\ nvChips \in ChipLists
  /\ nvRows \in RowLists
  /\ decoder \in Decoders
  /\ forceChip \in BOOLEAN
  /\ firmware \in [Pages -> FirmwareTypes]
  /\ pc = "mode" /\ mode = "none"
  /\ ranges = <<>> /\ chips = <<>>
  /\ cur = 1 /\ off = 0
  /\ memmap = firmware
  /\ thisGap = FALSE /\ gaps = 0 /\ warned = FALSE /\ verdict = "none"
  /\ unread = {}

Goto(label) == /\ pc' = label
               /\ cur' = 1
               /\ off' = 0

-----------------------------------------------------------------------------
(* efi_main's decision tree. *)
RowMode  == decoder = "VALIDATED" /\ nvRows # <<>>
ChipMode == /\ ~RowMode
            /\ decoder = "FAILED" \/ (forceChip /\ decoder # "VALIDATED")
            /\ forceChip \/ nvChips # <<>>

ChooseMode ==
  /\ pc = "mode"
  /\ \/ /\ RowMode
        /\ mode' = "rows" /\ Goto("rows")
        /\ UNCHANGED chips
     \/ /\ ChipMode
        /\ mode' = "chips" /\ Goto("chips")
        /\ chips' = IF Len(nvChips) > MaxChips THEN SubSeq(nvChips, 1, MaxChips) ELSE nvChips
     \/ /\ ~RowMode /\ ~ChipMode
        /\ mode' = "pages"
        /\ IF forceChip THEN Goto("chips") ELSE Goto("parse")
        /\ UNCHANGED chips
  /\ UNCHANGED <<inputs, ranges, memmap, thisGap, gaps, warned, verdict, unread>>

-----------------------------------------------------------------------------
(* Input *)

PageOf(addr) == addr \div PageSize

(* Mutant: the offset of the start in its page is not counted. *)
AlignedNoOffset(line) ==
  LET n == (line.len + PageSize - 1) \div PageSize
  IN [start |-> PageOf(line.addr), len |-> IF n = 0 THEN 1 ELSE n]

(* Mutant: an empty region gets no page. *)
AlignedEmpty(line) ==
  [start |-> PageOf(line.addr),
   len   |-> (line.len + (line.addr % PageSize) + PageSize - 1) \div PageSize]

(* Start down, length up to whole pages; at least one. *)
Aligned(line) ==
  LET n == (line.len + (line.addr % PageSize) + PageSize - 1) \div PageSize
  IN [start |-> PageOf(line.addr), len |-> IF n = 0 THEN 1 ELSE n]

(* badmem_parse_full, one line; lines beyond either array are dropped. *)
ParseLine ==
  /\ pc = "parse" /\ cur <= Len(lines)
  /\ LET line == lines[cur] IN
       /\ ranges' = IF line.kind = "region" /\ Len(ranges) < MaxRanges
                    THEN Append(ranges, Aligned(line)) ELSE ranges
       /\ chips' = IF line.kind = "chip" /\ Len(chips) < MaxChips
                   THEN Append(chips, line.desig) ELSE chips
  /\ cur' = cur + 1
  /\ UNCHANGED <<inputs, pc, mode, off, memmap, thisGap, gaps, warned, verdict, unread>>

(* read_badmem is through, or failed before it could parse anything.  Of a *)
(* file that cannot be opened, for whatever reason, it says nothing.        *)
ParseDone ==
  /\ pc = "parse"
  /\ \/ cur > Len(lines) /\ UNCHANGED <<warned, unread>>
     \/ /\ cur = 1
        /\ unread' = unread \cup {"badmem.txt"}
        /\ warned' \in {warned, TRUE}
  /\ Goto("merge")
  /\ UNCHANGED <<inputs, mode, ranges, chips, memmap, thisGap, gaps, verdict>>

(* Mutant: the page after the range counts as covered. *)
CoversNext(r, p) == r.start <= p /\ p <= r.start + r.len

Covers(r, p) == r.start <= p /\ p < r.start + r.len

(* read_nvram_badpages, one entry. *)
MergePage ==
  /\ pc = "merge" /\ intact /\ cur <= Len(saved)
  /\ LET p   == PageOf(saved[cur])
         dup == \E k \in 1..Len(ranges) : Covers(ranges[k], p)
     IN \/ /\ dup
           /\ cur' = cur + 1
           /\ UNCHANGED <<pc, off, ranges, warned>>
        \/ /\ ~dup /\ Len(ranges) >= MaxRanges
           /\ warned' = TRUE
           /\ Goto("mask")
           /\ UNCHANGED ranges
        \/ /\ ~dup /\ Len(ranges) < MaxRanges
           /\ ranges' = Append(ranges, [start |-> p, len |-> 1])
           /\ cur' = cur + 1
           /\ UNCHANGED <<pc, off, warned>>
  /\ UNCHANGED <<inputs, mode, chips, memmap, thisGap, gaps, verdict, unread>>

(* All entries are merged; or neither variable could be read, which counts *)
(* as there being none and is not said; or the blob is ignored.             *)
MergeDone ==
  /\ pc = "merge"
  /\ \/ intact /\ cur > Len(saved) /\ UNCHANGED <<warned, unread>>
     \/ cur = 1 /\ unread' = unread \cup {"BrrBadPages"} /\ UNCHANGED warned
     \/ ~intact /\ warned' = TRUE /\ UNCHANGED unread
  /\ Goto("mask")
  /\ UNCHANGED <<inputs, mode, ranges, chips, memmap, thisGap, gaps, verdict>>

-----------------------------------------------------------------------------
(* Firmware (external) *)

TypeOf(p) == IF p \in Pages THEN memmap[p] ELSE "Absent"

(* AllocatePages(AllocateAddress, EfiReservedMemoryType, 1, p): a free page *)
(* is reserved; a page in any other use, or outside RAM, is EFI_NOT_FOUND.  *)
Allocate(p, failed) ==
  \/ /\ TypeOf(p) = "Conventional"
     /\ memmap' = [memmap EXCEPT ![p] = "Reserved"]
     /\ failed = FALSE
  \/ /\ TypeOf(p) = "Conventional" /\ AllocFails
     /\ UNCHANGED memmap
     /\ failed = TRUE
  \/ /\ TypeOf(p) # "Conventional"
     /\ UNCHANGED memmap
     /\ failed = FALSE

-----------------------------------------------------------------------------
(* mask_pages and verify_mask_in_memmap *)

WindowStart(r) == IF r.start > Expand THEN r.start - Expand ELSE 0

(* Mutant: one page too many. *)
WindowEndLong(r) == r.start + r.len + Expand + 1

WindowEnd(r) == r.start + r.len + Expand

MaskPage ==
  /\ pc = "mask" /\ cur <= Len(ranges)
  /\ LET pa == WindowStart(ranges[cur]) + off IN
       /\ pa < WindowEnd(ranges[cur])
       /\ \E failed \in BOOLEAN : /\ Allocate(pa, failed)
                                  /\ thisGap' = (thisGap \/ failed)
  /\ off' = off + 1
  /\ UNCHANGED <<inputs, pc, mode, ranges, chips, cur, gaps, warned, verdict, unread>>

RangeDone ==
  /\ pc = "mask" /\ cur <= Len(ranges)
  /\ WindowStart(ranges[cur]) + off >= WindowEnd(ranges[cur])
  /\ gaps' = IF thisGap THEN gaps + 1 ELSE gaps
  /\ thisGap' = FALSE
  /\ cur' = cur + 1
  /\ off' = 0
  /\ UNCHANGED <<inputs, pc, mode, ranges, chips, memmap, warned, verdict, unread>>

MaskDone ==
  /\ pc = "mask" /\ cur > Len(ranges)
  /\ warned' = (warned \/ gaps > 0)
  /\ Goto("verify")
  /\ UNCHANGED <<inputs, mode, ranges, chips, memmap, thisGap, gaps, verdict, unread>>

(* Only the first page of each range is looked up.  Without ranges, or when *)
(* the memory map cannot be read, nothing is said.                          *)
Verify ==
  /\ pc = "verify"
  /\ \/ UNCHANGED verdict
     \/ /\ ranges # <<>>
        /\ verdict' = IF \A k \in 1..Len(ranges) :
                           TypeOf(ranges[k].start) \in {"Reserved", "Absent"}
                      THEN "safe" ELSE "unsafe"
  /\ Goto("chips")
  /\ UNCHANGED <<inputs, mode, ranges, chips, memmap, thisGap, gaps, warned, unread>>

-----------------------------------------------------------------------------
(* mask_chips and mask_rows.  Neither says which pages it could not reserve. *)

OfChips(p) == \E k \in 1..Len(chips) : chips[k] \in DOMAIN Board /\ p \in Board[chips[k]]

MaskChipPage ==
  /\ pc = "chips" /\ off \in Pages
  /\ IF OfChips(off) THEN \E failed \in BOOLEAN : Allocate(off, failed)
                     ELSE UNCHANGED memmap
  /\ off' = off + 1
  /\ UNCHANGED <<inputs, pc, mode, ranges, chips, cur, thisGap, gaps, warned, verdict, unread>>

(* The walk is over, or never starts: no chip resolved, IMC not accessible. *)
ChipsDone ==
  /\ pc = "chips"
  /\ off = 0 \/ off \notin Pages
  /\ Goto("done")
  /\ UNCHANGED <<inputs, mode, ranges, chips, memmap, thisGap, gaps, warned, verdict, unread>>

MaskRowPage ==
  /\ pc = "rows" /\ cur <= Len(nvRows) /\ off \in Pages
  /\ IF off \in RowPages[nvRows[cur]] THEN \E failed \in BOOLEAN : Allocate(off, failed)
                                      ELSE UNCHANGED memmap
  /\ off' = off + 1
  /\ UNCHANGED <<inputs, pc, mode, ranges, chips, cur, thisGap, gaps, warned, verdict, unread>>

NextRow ==
  /\ pc = "rows" /\ cur <= Len(nvRows) /\ off \notin Pages
  /\ cur' = cur + 1
  /\ off' = 0
  /\ UNCHANGED <<inputs, pc, mode, ranges, chips, memmap, thisGap, gaps, warned, verdict, unread>>

RowsDone ==
  /\ pc = "rows"
  /\ cur > Len(nvRows) \/ (cur = 1 /\ off = 0)
  /\ Goto("done")
  /\ UNCHANGED <<inputs, mode, ranges, chips, memmap, thisGap, gaps, warned, verdict, unread>>

-----------------------------------------------------------------------------
Next == \/ ChooseMode \/ ParseLine \/ ParseDone \/ MergePage \/ MergeDone
        \/ MaskPage \/ RangeDone \/ MaskDone \/ Verify
        \/ MaskChipPage \/ ChipsDone \/ MaskRowPage \/ NextRow \/ RowsDone

Spec == Init /\ [][Next]_vars

-----------------------------------------------------------------------------
RangeType == [start : Nat, len : Nat \ {0}]

(* The program's variables have their types; every range has a page. *)
TypeOK ==
  /\ pc \in {"mode", "parse", "merge", "mask", "verify", "chips", "rows", "done"}
  /\ mode \in {"none", "pages", "chips", "rows"}
  /\ ranges \in Seq(RangeType)
  /\ chips \in Seq(Designators)
  /\ cur \in Nat \ {0}
  /\ off \in Nat
  /\ memmap \in [Pages -> MemTypes]
  /\ thisGap \in BOOLEAN
  /\ gaps \in Nat
  /\ warned \in BOOLEAN
  /\ verdict \in {"none", "safe", "unsafe"}
  /\ unread \subseteq {"badmem.txt", "BrrBadPages"}

(* The addresses a region line names; an empty region names its start. *)
Region(line) == line.addr..(line.addr + (IF line.len = 0 THEN 0 ELSE line.len - 1))

(* Page p is at most Expand pages away from page q. *)
Near(p, q) == p <= q + Expand /\ q <= p + Expand

(* Page q lies within Expand pages of an address that is saved or listed. *)
NearSaved(q) == \E k \in 1..Len(saved) : Near(PageOf(saved[k]), q)
NearListed(q) ==
  \E k \in 1..Len(lines) :
     /\ lines[k].kind = "region"
     /\ \E addr \in Region(lines[k]) : Near(PageOf(addr), q)

ListRead  == "badmem.txt" \notin unread
SavedRead == "BrrBadPages" \notin unread

(***************************************************************************)
(* If page mode ends without a warning, no page within 1 MiB of a saved or *)
(* listed address that could be read is left in the free memory macOS is   *)
(* handed: rounding, merging, clipping at page 0, overlapping windows and  *)
(* failing allocations lose nothing silently, and neither input is lost    *)
(* with the other.  The code is silent when badmem.txt cannot be opened or *)
(* BrrBadPages not be read, whatever the error, and lines beyond ranges[]  *)
(* are dropped without a word, so ranges[] must not be full.               *)
(***************************************************************************)
SilentMeansMasked ==
  /\ pc = "done" /\ mode = "pages" /\ ~forceChip
  /\ ~warned /\ Len(ranges) < MaxRanges
  => \A q \in Pages :
       (SavedRead /\ NearSaved(q)) \/ (ListRead /\ NearListed(q))
       => memmap[q] # "Conventional"

(***************************************************************************)
(* The shim takes no more memory than it says: a page whose type it has    *)
(* changed was free and lies within 1 MiB of a bad address, or belongs to  *)
(* a chip or row that is to be masked.                                     *)
(***************************************************************************)
TakesNoMore ==
  \A q \in Pages : memmap[q] # firmware[q] =>
    /\ firmware[q] = "Conventional" /\ memmap[q] = "Reserved"
    /\ \/ mode = "pages" /\ (NearSaved(q) \/ NearListed(q))
       \/ OfChips(q)
       \/ mode = "rows" /\ \E k \in 1..Len(nvRows) : q \in RowPages[nvRows[k]]

(***************************************************************************)
(* When verify_mask_in_memmap has found nothing unsafe, each page of an    *)
(* intact BrrBadPages that was read is reserved or outside the memory map, *)
(* firmware's own allocations included, unless badmem.txt was read and     *)
(* lists it as well: only the first page of its range is looked up then.   *)
(***************************************************************************)
VerifiedPagesSafe ==
  verdict = "safe" /\ Len(ranges) < MaxRanges /\ intact /\ SavedRead =>
    \A k \in 1..Len(saved) :
      LET p == PageOf(saved[k]) IN
        \/ TypeOf(p) \in {"Reserved", "Absent"}
        \/ /\ ListRead
           /\ \E l \in 1..Len(lines) : /\ lines[l].kind = "region"
                                       /\ \E addr \in Region(lines[l]) : PageOf(addr) = p
=============================================================================
