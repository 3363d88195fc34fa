---------------------------- MODULE ShimMaskProofs ----------------------------
(***************************************************************************)
(* Theorems about ShimMask, for every page size, window, table size and    *)
(* input.                                                                  *)
(***************************************************************************)
EXTENDS ShimMask, TLAPS, SequenceTheorems

InputOK ==
  /\ lines \in Seq(Lines)
  /\ saved \in Seq(Addresses)
  /\ nvChips \in Seq(Designators)
  /\ forceChip \in BOOLEAN
  /\ firmware \in [Pages -> MemTypes]

(* Where each branch of the decision tree can be. *)
FlowInv ==
  /\ pc = "mode" => mode = "none" /\ ranges = <<>> /\ ~warned
  /\ pc \in {"mode", "parse"} => unread = {}
  /\ pc = "parse" /\ cur = 1 => ranges = <<>>
  /\ pc \in {"mode", "parse", "merge"} => gaps = 0 /\ ~thisGap /\ memmap = firmware
  /\ pc \in {"mode", "parse", "merge", "mask", "rows"} => verdict = "none"
  /\ pc \in {"parse", "merge", "mask", "verify"} => mode = "pages" /\ ~forceChip
  /\ pc = "rows" => mode = "rows" /\ gaps = 0
  /\ verdict # "none" => mode = "pages" /\ ~forceChip

ListedPage(p) == \E l \in 1..Len(lines) :
                   lines[l].kind = "region" /\ \E addr \in Region(lines[l]) : PageOf(addr) = p
SavedPage(p)  == \E k \in 1..Len(saved) : PageOf(saved[k]) = p
InRanges(p)   == \E k \in 1..Len(ranges) : Covers(ranges[k], p)

(* A range is one saved page, or consists of listed pages. *)
OriginInv ==
  \A k \in 1..Len(ranges) :
    \/ ranges[k].len = 1 /\ SavedPage(ranges[k].start)
    \/ ListRead /\ \A p \in Nat : Covers(ranges[k], p) => ListedPage(p)

(* How much of the input ranges[] holds, while there is room in it. *)
ListedIn(n) == \A l \in 1..n : lines[l].kind = "region" =>
                 \A addr \in Region(lines[l]) : InRanges(PageOf(addr))
SavedIn(n)  == \A k \in 1..n : InRanges(PageOf(saved[k]))
MergeInv ==
  Len(ranges) < MaxRanges /\ mode = "pages" /\ ~forceChip =>
    /\ pc = "parse" => cur <= Len(lines) + 1 /\ ListedIn(cur - 1)
    /\ pc \in {"merge", "mask", "verify", "chips", "done"} /\ ListRead => ListedIn(Len(lines))
    /\ pc = "merge" => cur = 1 \/ (cur <= Len(saved) + 1 /\ SavedIn(cur - 1))
    /\ pc \in {"mask", "verify", "chips", "done"} /\ intact /\ SavedRead => SavedIn(Len(saved))
    /\ pc \in {"mask", "verify", "chips", "done"} /\ ~warned /\ SavedRead => intact

(* Which windows have no free page left. *)
InWindow(q, k) == WindowStart(ranges[k]) <= q /\ q < WindowEnd(ranges[k])
WindowsDone(n) == \A k \in 1..n : \A q \in Pages : InWindow(q, k) => memmap[q] # "Conventional"
WindowInv ==
  /\ pc = "mask" => cur <= Len(ranges) + 1
  /\ pc = "mask" /\ gaps = 0 => WindowsDone(cur - 1)
  /\ pc = "mask" /\ ~thisGap /\ cur <= Len(ranges) =>
       \A q \in Pages : /\ WindowStart(ranges[cur]) <= q
                        /\ q < WindowStart(ranges[cur]) + off
                        => memmap[q] # "Conventional"
  /\ pc \in {"verify", "chips", "done"} /\ gaps = 0 /\ mode = "pages" => WindowsDone(Len(ranges))
  /\ pc \in {"verify", "chips", "done"} /\ ~warned => gaps = 0

(* A clean verification still holds. *)
VerdictInv ==
  /\ verdict = "safe" => /\ pc \in {"chips", "done"}
                         /\ \A k \in 1..Len(ranges) :
                              TypeOf(ranges[k].start) \in {"Reserved", "Absent"}


IInv == /\ InputOK /\ TypeOK /\ FlowInv /\ OriginInv /\ MergeInv
        /\ WindowInv /\ VerdictInv /\ TakesNoMore

-----------------------------------------------------------------------------
(* Arithmetic of pages *)

LEMMA DivFacts ==
  ASSUME NEW P \in Nat \ {0}, NEW x \in Nat
  PROVE  /\ x \div P \in Nat
         /\ P * (x \div P) <= x
         /\ x < P * (x \div P) + P
         /\ x % P = x - P * (x \div P)
  BY SMT

LEMMA MulMono ==
  ASSUME NEW P \in Nat, NEW a \in Nat, NEW b \in Nat, a < b
  PROVE  P * a + P <= P * b
<1>1. PICK c \in Nat : b = a + 1 + c
  <2>1. b - a - 1 \in Nat
    OBVIOUS
  <2> QED
    BY <2>1
<1>2. P * b = P * a + P + P * c
  BY <1>1, SMT
<1>3. P * c \in Nat
  BY SMT
<1> QED
  BY <1>2, <1>3, SMT

LEMMA DivBounds ==
  ASSUME NEW P \in Nat \ {0}, NEW x \in Nat, NEW n \in Nat, NEW m \in Nat,
         P * n <= x, x < P * m
  PROVE  n <= x \div P /\ x \div P < m
<1> DEFINE d == x \div P
<1>1. d \in Nat /\ P * d <= x /\ x < P * d + P
  BY DivFacts
<1> HIDE DEF d
<1>2. ~(d < n)
  <2> SUFFICES ASSUME d < n PROVE FALSE
    OBVIOUS
  <2>1. P * d + P <= P * n
    BY <1>1, MulMono
  <2> QED
    BY <1>1, <2>1, SMT
<1>3. ~(m <= d)
  <2> SUFFICES ASSUME m <= d PROVE FALSE
    OBVIOUS
  <2>1. m < d => P * m + P <= P * d
    BY <1>1, MulMono
  <2> QED
    BY <1>1, <2>1, SMT
<1> QED
  BY <1>1, <1>2, <1>3 DEF d

(* badmem_parse's rounding gives exactly the pages the region touches. *)
LEMMA AlignedExact ==
  ASSUME NEW line \in [kind : {"region"}, addr : Addresses, len : Nat]
  PROVE  /\ Aligned(line) \in RangeType
         /\ \A p \in Nat : Covers(Aligned(line), p) <=>
                             \E addr \in Region(line) : PageOf(addr) = p
<1> DEFINE P == PageSize
           a == line.addr \div P
           r == line.addr % P
           x == line.len + r + P - 1
           n == x \div P
           L == IF n = 0 THEN 1 ELSE n
           last == line.addr + (IF line.len = 0 THEN 0 ELSE line.len - 1)
<1>0. P \in Nat \ {0} /\ line.addr \in Nat /\ line.len \in Nat
  BY SizesAssumption DEF SizesAssumption, Addresses
<1>1. a \in Nat /\ P * a <= line.addr /\ line.addr < P * a + P /\ r = line.addr - P * a
  BY <1>0, DivFacts
<1>2. x \in Nat
  BY <1>0, <1>1, SMT
<1>3. n \in Nat /\ P * n <= x /\ x < P * n + P
  BY <1>0, <1>2, DivFacts
<1>4. L \in Nat \ {0}
  BY <1>3
<1>5. Aligned(line) = [start |-> a, len |-> L]
  BY DEF Aligned, PageOf
<1>6. last \in Nat /\ line.addr <= last
  BY <1>0, SMT
<1> HIDE DEF a, r, n, P
(* The region ends in the last page of the range, and not before it. *)
<1>7. last < P * (a + L) /\ P * (a + L) <= last + P
  <2>1. P * a \in Nat /\ P * n \in Nat
    BY <1>0, <1>1, <1>3, SMT
  <2>2. CASE n = 0
    <3>1. P * (a + 1) = P * a + P
      BY <1>0, <1>1, SMT
    <3>2. x < P
      BY <2>2, <1>3, <1>0, SMT
    <3>3. line.len = 0 /\ r = 0
      BY <3>2, <1>0, <1>1, <2>1, SMT
    <3> QED
      BY <2>2, <3>1, <3>3, <1>0, <1>1, <2>1, SMT
  <2>3. CASE n # 0
    <3>1. P * (a + n) = P * a + P * n
      BY <1>0, <1>1, <1>3, SMT
    <3>2. n = 1 => P * n = P
      BY <1>0, SMT
    <3>3. n > 1 => P + P <= P * n
      <4>1. n > 1 => P * 1 + P <= P * n
        BY <1>0, <1>3, MulMono
      <4>2. P * 1 = P
        BY <1>0, SMT
      <4> QED
        BY <4>1, <4>2
    <3>4. last < P * a + P * n
      BY <1>0, <1>1, <1>3, <2>1, <3>2, <3>3, <2>3, SMT
    <3>5. P * a + P * n <= last + P
      BY <1>0, <1>1, <1>3, <2>1, <3>2, <3>3, <2>3, SMT
    <3> QED
      BY <2>3, <3>1, <3>4, <3>5, <1>3
  <2> QED
    BY <2>2, <2>3
<1>8. ASSUME NEW p \in Nat, a <= p, p < a + L
      PROVE  \E addr \in line.addr..last : addr \div P = p
  <2>1. CASE p = a
    BY <2>1, <1>6, <1>0 DEF a
  <2>2. CASE p # a
    <3>1. P * a + P <= P * p
      BY <2>2, <1>8, <1>0, <1>1, MulMono
    <3>2. P * p + P <= P * (a + L)
      BY <1>8, <1>0, <1>1, <1>4, MulMono
    <3>3. P * p \in Nat
      BY <1>0, SMT
    <3>4. P * p \in line.addr..last
      BY <3>1, <3>2, <3>3, <1>0, <1>1, <1>4, <1>6, <1>7, SMT
    <3>5. (P * p) \div P = p
      BY <1>0, SMT
    <3> QED
      BY <3>4, <3>5
  <2> QED
    BY <2>1, <2>2
<1>9. ASSUME NEW addr \in line.addr..last
      PROVE  a <= addr \div P /\ addr \div P < a + L
  <2>1. addr \in Nat /\ P * a <= addr /\ addr < P * (a + L)
    <3>1. P * a \in Nat /\ P * (a + L) \in Nat
      BY <1>0, <1>1, <1>4, SMT
    <3> QED
      BY <3>1, <1>0, <1>1, <1>6, <1>7, SMT
  <2>2. a + L \in Nat
    BY <1>1, <1>4, SMT
  <2> HIDE DEF L
  <2> QED
    BY <2>1, <2>2, <1>0, <1>1, DivBounds
<1>10. Region(line) = line.addr..last
  BY DEF Region
<1>11. Aligned(line) \in RangeType
  BY <1>1, <1>4, <1>5 DEF RangeType
<1>12. ASSUME NEW p \in Nat
       PROVE  Covers(Aligned(line), p) <=> \E addr \in Region(line) : PageOf(addr) = p
  BY <1>5, <1>8, <1>9, <1>10 DEF Covers, PageOf, P
<1> QED
  BY <1>11, <1>12

-----------------------------------------------------------------------------
(* What steps do to the inputs, the memory map and ranges[] *)

LEMMA InputStep ==
  ASSUME Next
  PROVE  UNCHANGED inputs
  BY DEF Next, ChooseMode, ParseLine, ParseDone, MergePage, MergeDone, MaskPage, RangeDone,
         MaskDone, Verify, MaskChipPage, ChipsDone, MaskRowPage, NextRow, RowsDone

(* An input goes unread only where it would have been read. *)
LEMMA UnreadStep ==
  ASSUME Next
  PROVE  \/ UNCHANGED unread
         \/ ParseDone /\ cur = 1 /\ unread' = unread \cup {"badmem.txt"}
         \/ MergeDone /\ cur = 1 /\ unread' = unread \cup {"BrrBadPages"}
  BY DEF Next, ChooseMode, ParseLine, ParseDone, MergePage, MergeDone, MaskPage, RangeDone,
         MaskDone, Verify, MaskChipPage, ChipsDone, MaskRowPage, NextRow, RowsDone

LEMMA ReadStep ==
  ASSUME Next
  PROVE  (ListRead' => ListRead) /\ (SavedRead' => SavedRead)
  BY UnreadStep DEF ListRead, SavedRead

LEMMA AllocateMap ==
  ASSUME TypeOK, NEW p \in Nat, NEW failed, Allocate(p, failed)
  PROVE  /\ memmap' \in [Pages -> MemTypes]
         /\ \A q \in Pages : memmap[q] # "Conventional" => memmap'[q] = memmap[q]
         /\ \A q \in Pages : memmap'[q] # memmap[q] =>
                               q = p /\ memmap[q] = "Conventional" /\ memmap'[q] = "Reserved"
         /\ p \in Pages /\ ~failed => memmap'[p] # "Conventional"
  BY DEF TypeOK, Allocate, TypeOf, MemTypes

LEMMA PagesNat == Pages \subseteq Nat
  BY SizesAssumption DEF SizesAssumption, Pages

LEMMA RangeFacts ==
  ASSUME TypeOK, NEW k \in 1..Len(ranges)
  PROVE  /\ ranges[k] \in RangeType
         /\ ranges[k].start \in Nat
         /\ ranges[k].len \in Nat \ {0}
         /\ WindowStart(ranges[k]) \in Nat
         /\ WindowEnd(ranges[k]) \in Nat
<1>1. ranges[k] \in RangeType
  BY DEF TypeOK
<1>2. ranges[k].start \in Nat /\ ranges[k].len \in Nat \ {0}
  BY <1>1 DEF RangeType
<1> QED
  BY <1>1, <1>2, SizesAssumption DEF SizesAssumption, WindowStart, WindowEnd

LEMMA SavedFacts ==
  ASSUME InputOK, NEW k \in 1..Len(saved)
  PROVE  PageOf(saved[k]) \in Nat
<1>1. saved[k] \in Nat
  BY DEF InputOK, Addresses
<1> QED
  BY <1>1, DivFacts, SizesAssumption DEF PageOf, SizesAssumption

LEMMA MapStep ==
  ASSUME TypeOK, Next
  PROVE  /\ memmap' \in [Pages -> MemTypes]
         /\ \A q \in Pages : memmap[q] # "Conventional" => memmap'[q] = memmap[q]
<1>1. CASE MaskPage
  <2>1. PICK failed \in BOOLEAN : Allocate(WindowStart(ranges[cur]) + off, failed)
    BY <1>1 DEF MaskPage
  <2>2. WindowStart(ranges[cur]) + off \in Nat
    <3>1. cur \in 1..Len(ranges) /\ off \in Nat
      BY <1>1 DEF MaskPage, TypeOK
    <3> QED
      BY <3>1, RangeFacts
  <2> QED
    BY <2>1, <2>2, AllocateMap
<1>2. CASE MaskChipPage
  <2>1. CASE OfChips(off)
    BY <1>2, <2>1, AllocateMap, PagesNat DEF MaskChipPage
  <2>2. CASE ~OfChips(off)
    BY <1>2, <2>2 DEF MaskChipPage, TypeOK
  <2> QED
    BY <2>1, <2>2
<1>3. CASE MaskRowPage
  <2>1. CASE off \in RowPages[nvRows[cur]]
    BY <1>3, <2>1, AllocateMap, PagesNat DEF MaskRowPage
  <2>2. CASE off \notin RowPages[nvRows[cur]]
    BY <1>3, <2>2 DEF MaskRowPage, TypeOK
  <2> QED
    BY <2>1, <2>2
<1>4. CASE UNCHANGED memmap
  BY <1>4 DEF TypeOK
<1> QED
  BY <1>1, <1>2, <1>3, <1>4
  DEF Next, ChooseMode, ParseLine, ParseDone, MergePage, MergeDone, RangeDone,
      MaskDone, Verify, ChipsDone, NextRow, RowsDone

-----------------------------------------------------------------------------
(* Types *)

LEMMA InitInv == Init => IInv
<1> SUFFICES ASSUME Init PROVE IInv
  OBVIOUS
<1>1. InputOK
  BY SizesAssumption, InputsAssumption DEF Init, InputOK, InputsAssumption, SizesAssumption
<1>2. TypeOK
  <2>1. ranges \in Seq(RangeType) /\ chips \in Seq(Designators)
    BY EmptySeq DEF Init
  <2>2. memmap \in [Pages -> MemTypes]
    BY <1>1 DEF Init, InputOK
  <2>3. thisGap \in BOOLEAN /\ warned \in BOOLEAN
    BY DEF Init
  <2> QED
    BY <2>1, <2>2, <2>3 DEF Init, TypeOK
<1>3. FlowInv
  BY DEF Init, FlowInv
<1>4. OriginInv /\ MergeInv /\ WindowInv /\ VerdictInv /\ TakesNoMore
  BY DEF Init, OriginInv, MergeInv, WindowInv, VerdictInv, TakesNoMore
<1> QED
  BY <1>1, <1>2, <1>3, <1>4 DEF IInv

LEMMA TypeStep ==
  ASSUME InputOK, TypeOK, Next
  PROVE  TypeOK'
<1>0. memmap' \in [Pages -> MemTypes] /\ unread' \subseteq {"badmem.txt", "BrrBadPages"}
  BY MapStep, UnreadStep DEF TypeOK
<1>1. CASE ChooseMode
  <2>1. chips' \in Seq(Designators)
    <3>1. CASE UNCHANGED chips
      BY <3>1 DEF TypeOK
    <3>2. CASE chips' = nvChips
      BY <3>2 DEF InputOK
    <3>3. CASE Len(nvChips) > MaxChips /\ chips' = SubSeq(nvChips, 1, MaxChips)
      BY <3>3, SizesAssumption DEF InputOK, SizesAssumption
    <3> QED
      BY <1>1, <3>1, <3>2, <3>3 DEF ChooseMode
  <2> QED
    BY <1>0, <1>1, <2>1 DEF ChooseMode, TypeOK, Goto
<1>2. CASE ParseLine
  <2> DEFINE line == lines[cur]
  <2>0. line \in Lines
    BY <1>2 DEF ParseLine, InputOK, TypeOK
  <2>1. ranges' \in Seq(RangeType)
    <3>1. CASE line.kind = "region"
      <4>1. line \in [kind : {"region"}, addr : Addresses, len : Nat]
        BY <2>0, <3>1 DEF Lines
      <4>2. Aligned(line) \in RangeType
        BY <4>1, AlignedExact
      <4> QED
        BY <4>2, <1>2 DEF ParseLine, TypeOK
    <3>2. CASE line.kind # "region"
      BY <1>2, <3>2 DEF ParseLine, TypeOK
    <3> QED
      BY <3>1, <3>2
  <2>2. chips' \in Seq(Designators)
    <3>1. CASE line.kind = "chip"
      <4>1. line.desig \in Designators
        BY <2>0, <3>1 DEF Lines
      <4> QED
        BY <1>2, <4>1 DEF ParseLine, TypeOK
    <3>2. CASE line.kind # "chip"
      BY <1>2, <3>2 DEF ParseLine, TypeOK
    <3> QED
      BY <3>1, <3>2
  <2>3. cur' \in Nat \ {0}
    BY <1>2 DEF ParseLine, TypeOK
  <2> QED
    BY <1>0, <1>2, <2>1, <2>2, <2>3 DEF ParseLine, TypeOK
<1>3. CASE MergePage
  <2>1. cur \in 1..Len(saved) /\ PageOf(saved[cur]) \in Nat
    <3>1. cur \in 1..Len(saved)
      BY <1>3 DEF MergePage, InputOK, TypeOK
    <3> QED
      BY <3>1, SavedFacts
  <2>2. ranges' \in Seq(RangeType)
    <3>1. CASE UNCHANGED ranges
      BY <3>1 DEF TypeOK
    <3>2. CASE ranges' = Append(ranges, [start |-> PageOf(saved[cur]), len |-> 1])
      <4>1. [start |-> PageOf(saved[cur]), len |-> 1] \in RangeType
        BY <2>1 DEF RangeType
      <4> QED
        BY <3>2, <4>1 DEF TypeOK
    <3> QED
      BY <1>3, <3>1, <3>2 DEF MergePage
  <2>3. warned' \in BOOLEAN
    BY <1>3 DEF MergePage, TypeOK
  <2>4. cur' \in Nat \ {0} /\ off' \in Nat /\ pc' \in {"merge", "mask"}
    BY <1>3 DEF MergePage, TypeOK, Goto
  <2> QED
    BY <1>0, <1>3, <2>2, <2>3, <2>4 DEF MergePage, TypeOK
<1>4. CASE ParseDone \/ MergeDone \/ ChipsDone \/ RowsDone
  <2>1. warned' \in BOOLEAN
    BY <1>4 DEF ParseDone, MergeDone, ChipsDone, RowsDone, TypeOK
  <2>2. /\ pc' \in {"merge", "mask", "done"} /\ cur' = 1 /\ off' = 0
        /\ UNCHANGED <<mode, ranges, chips, thisGap, gaps, verdict>>
    BY <1>4 DEF ParseDone, MergeDone, ChipsDone, RowsDone, Goto
  <2> QED
    BY <1>0, <2>1, <2>2 DEF TypeOK
<1>5. CASE MaskPage
  <2>1. thisGap' \in BOOLEAN
    BY <1>5 DEF MaskPage
  <2> QED
    BY <1>0, <1>5, <2>1 DEF MaskPage, TypeOK
<1>6. CASE RangeDone \/ NextRow
  <2>1. thisGap' \in BOOLEAN
    BY <1>6 DEF RangeDone, NextRow, TypeOK
  <2>2. gaps' \in Nat /\ cur' \in Nat \ {0}
    BY <1>6 DEF RangeDone, NextRow, TypeOK
  <2> QED
    BY <1>0, <1>6, <2>1, <2>2 DEF RangeDone, NextRow, TypeOK
<1>7. CASE MaskDone
  <2>1. warned' \in BOOLEAN
    BY <1>7 DEF MaskDone
  <2> QED
    BY <1>0, <1>7, <2>1 DEF MaskDone, TypeOK, Goto
<1>8. CASE Verify
  BY <1>0, <1>8 DEF Verify, TypeOK, Goto
<1>9. CASE MaskChipPage \/ MaskRowPage
  BY <1>0, <1>9 DEF MaskChipPage, MaskRowPage, TypeOK
<1> QED
  BY <1>1, <1>2, <1>3, <1>4, <1>5, <1>6, <1>7, <1>8, <1>9 DEF Next

-----------------------------------------------------------------------------
(* The parts of the invariant, one by one *)

LEMMA FlowStep ==
  ASSUME IInv, Next
  PROVE  FlowInv'
<1> USE DEF IInv
<1>1. CASE ChooseMode
  BY <1>1 DEF ChooseMode, FlowInv, Goto, inputs, RowMode, ChipMode
<1>2. CASE ParseLine
  <2>1. cur' # 1
    BY <1>2 DEF ParseLine, TypeOK
  <2> QED
    BY <1>2, <2>1 DEF ParseLine, FlowInv, inputs
<1>5. CASE MergePage
  BY <1>5 DEF MergePage, FlowInv, Goto, inputs
<1>6. CASE ParseDone \/ MergeDone
  <2>1. /\ pc \in {"parse", "merge"} /\ pc' \in {"merge", "mask"}
        /\ UNCHANGED <<inputs, mode, memmap, thisGap, gaps, verdict>>
    BY <1>6 DEF ParseDone, MergeDone, Goto
  <2> QED
    BY <2>1 DEF FlowInv, inputs
<1>3. CASE MaskPage \/ RangeDone \/ MaskDone \/ Verify
  BY <1>3 DEF MaskPage, RangeDone, MaskDone, Verify, FlowInv, Goto, inputs
<1>4. CASE MaskChipPage \/ ChipsDone \/ MaskRowPage \/ NextRow \/ RowsDone
  BY <1>4 DEF MaskChipPage, ChipsDone, MaskRowPage, NextRow, RowsDone, FlowInv, Goto, inputs
<1> QED
  BY <1>1, <1>2, <1>3, <1>4, <1>5, <1>6 DEF Next

(* ranges[] only grows, and only while input is read. *)
LEMMA RangesStep ==
  ASSUME IInv, Next
  PROVE  \/ UNCHANGED ranges
         \/ /\ ParseLine /\ lines[cur].kind = "region" /\ Len(ranges) < MaxRanges
            /\ lines[cur] \in [kind : {"region"}, addr : Addresses, len : Nat]
            /\ cur \in 1..Len(lines)
            /\ ranges' = Append(ranges, Aligned(lines[cur]))
            /\ Aligned(lines[cur]) \in RangeType
         \/ /\ MergePage /\ Len(ranges) < MaxRanges
            /\ cur \in 1..Len(saved)
            /\ PageOf(saved[cur]) \in Nat
            /\ ranges' = Append(ranges, [start |-> PageOf(saved[cur]), len |-> 1])
<1>1. CASE ParseLine
  <2>1. cur \in 1..Len(lines) /\ lines[cur] \in Lines
    BY <1>1 DEF ParseLine, IInv, InputOK, TypeOK
  <2>2. CASE lines[cur].kind = "region"
    <3>1. lines[cur] \in [kind : {"region"}, addr : Addresses, len : Nat]
      BY <2>1, <2>2 DEF Lines
    <3>2. Aligned(lines[cur]) \in RangeType
      BY <3>1, AlignedExact
    <3> QED
      BY <1>1, <2>1, <2>2, <3>1, <3>2 DEF ParseLine
  <2>3. CASE lines[cur].kind # "region"
    BY <1>1, <2>3 DEF ParseLine
  <2> QED
    BY <2>2, <2>3
<1>2. CASE MergePage
  <2>1. cur \in 1..Len(saved)
    BY <1>2 DEF MergePage, IInv, InputOK, TypeOK
  <2>2. PageOf(saved[cur]) \in Nat
    BY <2>1, SavedFacts DEF IInv
  <2> QED
    BY <1>2, <2>1, <2>2 DEF MergePage
<1> QED
  BY <1>1, <1>2
  DEF Next, ChooseMode, ParseDone, MergeDone, MaskPage, RangeDone, MaskDone, Verify,
      MaskChipPage, ChipsDone, MaskRowPage, NextRow, RowsDone

(* What is in ranges[] stays there. *)
LEMMA RangesGrow ==
  ASSUME IInv, Next
  PROVE  /\ Len(ranges) <= Len(ranges')
         /\ \A k \in 1..Len(ranges) : k \in 1..Len(ranges') /\ ranges'[k] = ranges[k]
         /\ \A p \in Nat : InRanges(p) => InRanges(p)'
<1>0. ranges \in Seq(RangeType) /\ Len(ranges) \in Nat
  BY DEF IInv, TypeOK
<1>1. UNCHANGED ranges \/ \E r \in RangeType : ranges' = Append(ranges, r)
  <2>1. ASSUME PageOf(saved[cur]) \in Nat
        PROVE  [start |-> PageOf(saved[cur]), len |-> 1] \in RangeType
    BY <2>1 DEF RangeType
  <2> QED
    BY RangesStep, <2>1
<1>2. CASE UNCHANGED ranges
  BY <1>0, <1>2 DEF InRanges
<1>3. CASE \E r \in RangeType : ranges' = Append(ranges, r)
  <2>1. PICK r \in RangeType : ranges' = Append(ranges, r)
    BY <1>3
  <2>2. /\ Len(ranges') = Len(ranges) + 1
        /\ \A k \in 1..Len(ranges) : ranges'[k] = ranges[k]
    BY <1>0, <2>1
  <2>3. \A k \in 1..Len(ranges) : k \in 1..Len(ranges')
    BY <1>0, <2>2
  <2> QED
    BY <1>0, <2>2, <2>3 DEF InRanges
<1> QED
  BY <1>1, <1>2, <1>3

LEMMA OriginStep ==
  ASSUME IInv, Next
  PROVE  OriginInv'
<1>0. UNCHANGED <<lines, saved>>
  BY InputStep DEF inputs
<1>1. CASE UNCHANGED <<ranges, unread>>
  BY <1>0, <1>1 DEF IInv, OriginInv, SavedPage, ListedPage, Covers, ListRead
<1>2. ASSUME NEW r \in RangeType, ranges' = Append(ranges, r), UNCHANGED unread,
             \/ r.len = 1 /\ SavedPage(r.start)
             \/ ListRead /\ \A p \in Nat : Covers(r, p) => ListedPage(p)
      PROVE  OriginInv'
  <2>1. ranges \in Seq(RangeType) /\ Len(ranges) \in Nat
    BY DEF IInv, TypeOK
  <2>2. /\ Len(ranges') = Len(ranges) + 1
        /\ \A k \in 1..Len(ranges) : ranges'[k] = ranges[k]
        /\ ranges'[Len(ranges) + 1] = r
    BY <1>2, <2>1
  <2>3. SUFFICES ASSUME NEW k \in 1..Len(ranges')
                 PROVE  \/ ranges'[k].len = 1 /\ SavedPage(ranges'[k].start)
                        \/ ListRead /\ \A p \in Nat : Covers(ranges'[k], p) => ListedPage(p)
    BY <1>0, <1>2 DEF OriginInv, SavedPage, ListedPage, Covers, ListRead
  <2>4. CASE k \in 1..Len(ranges)
    BY <2>2, <2>4 DEF IInv, OriginInv
  <2>5. CASE k = Len(ranges) + 1
    BY <2>2, <2>5, <1>2
  <2> QED
    BY <2>1, <2>2, <2>4, <2>5
<1>3. ASSUME cur \in 1..Len(lines), lines[cur].kind = "region",
             lines[cur] \in [kind : {"region"}, addr : Addresses, len : Nat]
      PROVE  \A p \in Nat : Covers(Aligned(lines[cur]), p) => ListedPage(p)
  BY <1>3, AlignedExact DEF ListedPage
<1>4. ASSUME cur \in 1..Len(saved), PageOf(saved[cur]) \in Nat
      PROVE  /\ [start |-> PageOf(saved[cur]), len |-> 1] \in RangeType
             /\ SavedPage(PageOf(saved[cur]))
  BY <1>4 DEF RangeType, SavedPage
<1>5. ParseLine => UNCHANGED unread /\ ListRead
  BY DEF ParseLine, IInv, FlowInv, ListRead
<1>6. MergePage => UNCHANGED unread
  BY DEF MergePage
<1>7. CASE UNCHANGED ranges
  <2>1. CASE ParseDone /\ cur = 1
    <3>1. ranges' = <<>>
      BY <1>7, <2>1 DEF ParseDone, IInv, FlowInv
    <3> QED
      BY <3>1 DEF OriginInv
  <2>2. CASE MergeDone /\ unread' = unread \cup {"BrrBadPages"}
    BY <1>0, <1>7, <2>2 DEF IInv, OriginInv, SavedPage, ListedPage, Covers, ListRead
  <2> QED
    BY <1>1, <1>7, <2>1, <2>2, UnreadStep
<1> QED
  BY RangesStep, <1>2, <1>3, <1>4, <1>5, <1>6, <1>7

(* Pages of listed and saved addresses are numbers. *)
LEMMA ListedFacts ==
  ASSUME InputOK, NEW l \in 1..Len(lines), lines[l].kind = "region"
  PROVE  /\ lines[l] \in [kind : {"region"}, addr : Addresses, len : Nat]
         /\ \A addr \in Region(lines[l]) : addr \in Nat /\ PageOf(addr) \in Nat
<1>1. lines[l] \in Lines
  BY DEF InputOK
<1>2. lines[l] \in [kind : {"region"}, addr : Addresses, len : Nat]
  BY <1>1 DEF Lines
<1>3. lines[l].addr \in Nat /\ lines[l].len \in Nat
  BY <1>2 DEF Addresses
<1>4. \A addr \in Region(lines[l]) : addr \in Nat
  BY <1>3 DEF Region
<1> QED
  BY <1>2, <1>4, DivFacts, SizesAssumption DEF PageOf, SizesAssumption

LEMMA ListedInGrows ==
  ASSUME IInv, Next, NEW n \in Nat, n <= Len(lines), ListedIn(n)
  PROVE  ListedIn(n)'
<1>0. UNCHANGED lines /\ Len(lines) \in Nat
  BY InputStep DEF inputs, IInv, InputOK
<1>1. SUFFICES ASSUME NEW l \in 1..n, lines[l].kind = "region",
                      NEW addr \in Region(lines[l])
               PROVE  InRanges(PageOf(addr))'
  BY <1>0 DEF ListedIn, Region
<1>2. PageOf(addr) \in Nat /\ InRanges(PageOf(addr))
  BY <1>0, <1>1, ListedFacts DEF IInv, ListedIn
<1>3. \A p \in Nat : InRanges(p) => InRanges(p)'
  BY RangesGrow
<1> QED
  BY <1>2, <1>3 DEF PageOf, InRanges

LEMMA SavedInGrows ==
  ASSUME IInv, Next, NEW n \in Nat, n <= Len(saved), SavedIn(n)
  PROVE  SavedIn(n)'
<1>0. UNCHANGED saved /\ Len(saved) \in Nat
  BY InputStep DEF inputs, IInv, InputOK
<1>1. SUFFICES ASSUME NEW k \in 1..n
               PROVE  InRanges(PageOf(saved[k]))'
  BY <1>0 DEF SavedIn
<1>2. PageOf(saved[k]) \in Nat /\ InRanges(PageOf(saved[k]))
  BY <1>0, SavedFacts DEF IInv, SavedIn
<1>3. \A p \in Nat : InRanges(p) => InRanges(p)'
  BY RangesGrow
<1> QED
  BY <1>0, <1>2, <1>3 DEF PageOf, InRanges

LEMMA MergeStep ==
  ASSUME IInv, Next
  PROVE  MergeInv'
<1>0. /\ UNCHANGED <<lines, saved, intact, forceChip>>
      /\ Len(lines) \in Nat /\ Len(saved) \in Nat
      /\ Len(ranges) \in Nat /\ Len(ranges') \in Nat /\ Len(ranges) <= Len(ranges')
      /\ MaxRanges \in Nat /\ cur \in Nat \ {0}
  BY InputStep, RangesGrow, TypeStep, SizesAssumption
  DEF inputs, IInv, InputOK, TypeOK, SizesAssumption
<1>1. SUFFICES ASSUME Len(ranges') < MaxRanges, mode' = "pages", ~forceChip
               PROVE  /\ pc' = "parse" => cur' <= Len(lines) + 1 /\ ListedIn(cur - 1)'
                      /\ pc' \in {"merge", "mask", "verify", "chips", "done"} /\ ListRead'
                           => ListedIn(Len(lines))'
                      /\ pc' = "merge" => cur' = 1 \/ (cur' <= Len(saved) + 1 /\ SavedIn(cur - 1)')
                      /\ pc' \in {"mask", "verify", "chips", "done"} /\ intact /\ SavedRead'
                           => SavedIn(Len(saved))'
                      /\ pc' \in {"mask", "verify", "chips", "done"} /\ ~warned' /\ SavedRead'
                           => intact
  BY <1>0 DEF MergeInv
<1>2. Len(ranges) < MaxRanges
  BY <1>0, <1>1
<1>3. ListedIn(Len(lines)) => ListedIn(Len(lines))'
  BY <1>0, ListedInGrows
<1>4. SavedIn(Len(saved)) => SavedIn(Len(saved))'
  BY <1>0, SavedInGrows
<1>5. CASE ChooseMode
  BY <1>0, <1>1, <1>5 DEF ChooseMode, Goto, ListedIn
<1>6. mode = "pages" \/ ChooseMode
  BY <1>1 DEF Next, ParseLine, ParseDone, MergePage, MergeDone, MaskPage, RangeDone, MaskDone,
     Verify, MaskChipPage, ChipsDone, MaskRowPage, NextRow, RowsDone
<1>7. CASE ParseLine
  <2>0. PICK n \in Nat \ {0} : n = cur
    BY <1>0
  <2>1. n <= Len(lines) /\ ListedIn(n - 1) /\ cur' = n + 1 /\ pc' = "parse"
    BY <1>1, <1>2, <1>6, <1>7, <2>0 DEF ParseLine, IInv, MergeInv, ChooseMode
  <2>2. ListedIn(n - 1)'
    BY <1>0, <2>1, ListedInGrows
  <2>3. ASSUME lines[n].kind = "region", NEW addr \in Region(lines[n])
        PROVE  InRanges(PageOf(addr))'
    <3>1. /\ lines[n] \in [kind : {"region"}, addr : Addresses, len : Nat]
          /\ PageOf(addr) \in Nat
      BY <1>0, <2>1, <2>3, ListedFacts DEF IInv
    <3>2. Aligned(lines[n]) \in RangeType /\ Covers(Aligned(lines[n]), PageOf(addr))
      BY <3>1, AlignedExact
    <3>3. ranges' = Append(ranges, Aligned(lines[n]))
      BY <1>2, <1>7, <2>0, <2>3 DEF ParseLine
    <3>4. Len(ranges') = Len(ranges) + 1 /\ ranges'[Len(ranges) + 1] = Aligned(lines[n])
      BY <3>2, <3>3 DEF IInv, TypeOK
    <3>5. Len(ranges) + 1 \in 1..Len(ranges')
      BY <1>0, <3>4
    <3> QED
      BY <3>2, <3>4, <3>5 DEF InRanges, Covers, PageOf
  <2>4. \A l \in 1..n : l = n \/ l \in 1..(n - 1)
    BY <2>0
  <2>5. ListedIn(n)'
    BY <1>0, <2>2, <2>3, <2>4 DEF ListedIn, Region
  <2>6. cur' - 1 = n
    BY <2>0, <2>1
  <2>7. ListedIn(cur - 1)'
    BY <2>5, <2>6 DEF ListedIn
  <2> QED
    BY <1>0, <2>1, <2>7
<1>8. CASE ParseDone
  <2>1. pc' = "merge" /\ cur' = 1
    BY <1>8 DEF ParseDone, Goto
  <2>2. ASSUME ListRead' PROVE ListedIn(Len(lines))
    <3>1. cur > Len(lines)
      BY <1>8, <2>2 DEF ParseDone, ListRead
    <3>2. cur <= Len(lines) + 1 /\ ListedIn(cur - 1)
      BY <1>1, <1>2, <1>6, <1>8 DEF ParseDone, IInv, MergeInv, ChooseMode
    <3>3. cur - 1 = Len(lines)
      BY <1>0, <3>1, <3>2
    <3> QED
      BY <3>2, <3>3
  <2> QED
    BY <1>3, <2>1, <2>2
<1>9. CASE MergePage
  <2>0. PICK n \in Nat \ {0} : n = cur
    BY <1>0
  <2>1. n <= Len(saved) /\ intact /\ SavedIn(n - 1)
    <3>1. n <= Len(saved) /\ intact
      BY <1>9, <2>0 DEF MergePage
    <3>2. n = 1 \/ SavedIn(n - 1)
      BY <1>1, <1>2, <1>6, <1>9, <2>0 DEF MergePage, IInv, MergeInv, ChooseMode
    <3> QED
      BY <3>1, <3>2 DEF SavedIn
  <2>2. SavedIn(n - 1)'
    BY <1>0, <2>1, SavedInGrows
  <2>3. PageOf(saved[n]) \in Nat
    BY <1>0, <2>1, SavedFacts DEF IInv
  <2>4. InRanges(PageOf(saved[n]))'
    <3>1. CASE InRanges(PageOf(saved[n]))
      <4>1. \A p \in Nat : InRanges(p) => InRanges(p)'
        BY RangesGrow
      <4> QED
        BY <1>0, <3>1, <4>1, <2>3 DEF InRanges, PageOf
    <3>2. CASE ~InRanges(PageOf(saved[n]))
      <4>1. ranges' = Append(ranges, [start |-> PageOf(saved[n]), len |-> 1])
        BY <1>0, <1>2, <1>9, <2>0, <3>2 DEF MergePage, InRanges
      <4>2. [start |-> PageOf(saved[n]), len |-> 1] \in RangeType
        BY <2>3 DEF RangeType
      <4>3. /\ Len(ranges') = Len(ranges) + 1
            /\ ranges'[Len(ranges) + 1] = [start |-> PageOf(saved[n]), len |-> 1]
        BY <4>1, <4>2 DEF IInv, TypeOK
      <4>4. Len(ranges) + 1 \in 1..Len(ranges')
        BY <1>0, <4>3
      <4>5. Covers(ranges'[Len(ranges) + 1], PageOf(saved[n]))
        BY <2>3, <4>3 DEF Covers
      <4> QED
        BY <1>0, <4>4, <4>5 DEF InRanges, Covers, PageOf
    <3> QED
      BY <3>1, <3>2
  <2>5. \A k \in 1..n : k = n \/ k \in 1..(n - 1)
    BY <2>0
  <2>6. SavedIn(n)'
    BY <1>0, <2>2, <2>4, <2>5 DEF SavedIn
  <2>7. pc' = "merge" /\ cur' = n + 1 /\ UNCHANGED warned
    BY <1>0, <1>2, <1>9, <2>0 DEF MergePage
  <2>8. cur' - 1 = n
    BY <2>0, <2>7
  <2>9. SavedIn(cur - 1)'
    BY <2>6, <2>8 DEF SavedIn
  <2>10. ListRead' => ListedIn(Len(lines))
    BY <1>1, <1>2, <1>6, <1>9, ReadStep DEF MergePage, IInv, MergeInv, ChooseMode
  <2> QED
    BY <1>0, <1>3, <2>1, <2>7, <2>9, <2>10
<1>10. CASE MergeDone
  <2>1. pc' = "mask" /\ pc = "merge" /\ mode = "pages"
    BY <1>6, <1>10 DEF MergeDone, Goto, ChooseMode
  <2>2. intact /\ SavedRead' => SavedIn(Len(saved))
    <3> SUFFICES ASSUME intact, SavedRead' PROVE SavedIn(Len(saved))
      OBVIOUS
    <3>1. cur > Len(saved)
      BY <1>0, <1>10 DEF MergeDone, SavedRead
    <3>2. cur = 1 \/ (cur <= Len(saved) + 1 /\ SavedIn(cur - 1))
      BY <1>1, <1>2, <2>1 DEF IInv, MergeInv
    <3>3. CASE cur = 1
      <4>1. Len(saved) = 0
        BY <1>0, <3>1, <3>3
      <4> QED
        BY <4>1 DEF SavedIn
    <3>4. CASE cur <= Len(saved) + 1 /\ SavedIn(cur - 1)
      <4>1. cur - 1 = Len(saved)
        BY <1>0, <3>1, <3>4
      <4> QED
        BY <3>4, <4>1
    <3> QED
      BY <3>2, <3>3, <3>4
  <2>3. ~warned' /\ SavedRead' => intact
    BY <1>10 DEF MergeDone, SavedRead
  <2>4. ListRead' => ListedIn(Len(lines))
    BY <1>1, <1>2, <2>1, ReadStep DEF IInv, MergeInv
  <2> QED
    BY <1>3, <1>4, <2>1, <2>2, <2>3, <2>4
<1>11. CASE \/ MaskPage \/ RangeDone \/ MaskDone \/ Verify \/ MaskChipPage \/ ChipsDone
            \/ MaskRowPage \/ NextRow \/ RowsDone
  <2>0. mode = "pages" /\ pc # "rows"
    <3>1. mode = "pages"
      BY <1>6, <1>11
      DEF ChooseMode, MaskPage, RangeDone, MaskDone, Verify, MaskChipPage, ChipsDone,
          MaskRowPage, NextRow, RowsDone
    <3> QED
      BY <3>1 DEF IInv, FlowInv
  <2>1. /\ pc \in {"mask", "verify", "chips"}
        /\ pc' \in {"mask", "verify", "chips", "done"}
        /\ ~warned' => ~warned
    <3>1. CASE MaskPage \/ RangeDone \/ MaskChipPage
      BY <3>1 DEF MaskPage, RangeDone, MaskChipPage
    <3>2. CASE Verify \/ ChipsDone
      BY <3>2 DEF Verify, ChipsDone, Goto
    <3>3. CASE MaskDone
      <4>1. warned => warned'
        BY <3>3 DEF MaskDone
      <4> QED
        BY <3>3, <4>1 DEF MaskDone, Goto
    <3> QED
      BY <1>11, <2>0, <3>1, <3>2, <3>3 DEF MaskRowPage, NextRow, RowsDone
  <2>2. /\ ListRead' => ListedIn(Len(lines))
        /\ ~warned /\ SavedRead' => intact
        /\ intact /\ SavedRead' => SavedIn(Len(saved))
    BY <1>1, <1>2, <2>0, <2>1, ReadStep DEF IInv, MergeInv
  <2> QED
    BY <1>3, <1>4, <2>1, <2>2
<1> QED
  BY <1>5, <1>7, <1>8, <1>9, <1>10, <1>11 DEF Next

(* A window is what lies within Expand pages of its range. *)
LEMMA WindowNear ==
  ASSUME TypeOK, NEW k \in 1..Len(ranges), NEW q \in Nat
  PROVE  InWindow(q, k) <=> \E p \in Nat : Covers(ranges[k], p) /\ Near(p, q)
<1> DEFINE s == ranges[k].start
           n == ranges[k].len
<1>0. s \in Nat /\ n \in Nat \ {0} /\ Expand \in Nat
  BY RangeFacts, SizesAssumption DEF SizesAssumption
<1>1. InWindow(q, k) <=> (IF s > Expand THEN s - Expand ELSE 0) <= q /\ q < s + n + Expand
  BY DEF InWindow, WindowStart, WindowEnd
<1>2. \A p \in Nat : Covers(ranges[k], p) <=> s <= p /\ p < s + n
  BY DEF Covers
<1> HIDE DEF s, n
<1>3. ASSUME InWindow(q, k)
      PROVE  \E p \in Nat : Covers(ranges[k], p) /\ Near(p, q)
  <2> DEFINE p == IF q < s THEN s ELSE IF q < s + n THEN q ELSE s + n - 1
  <2>1. p \in Nat /\ s <= p /\ p < s + n /\ p <= q + Expand /\ q <= p + Expand
    BY <1>0, <1>1, <1>3
  <2> HIDE DEF p
  <2> QED
    BY <1>2, <2>1 DEF Near
<1>4. ASSUME NEW p \in Nat, Covers(ranges[k], p), Near(p, q)
      PROVE  InWindow(q, k)
  BY <1>0, <1>1, <1>2, <1>4 DEF Near
<1> QED
  BY <1>3, <1>4

(* A window that has no free page keeps none: no step frees memory. *)
LEMMA WindowStep ==
  ASSUME IInv, Next
  PROVE  WindowInv'
<1>0. /\ Len(ranges) \in Nat /\ cur \in Nat \ {0} /\ off \in Nat /\ gaps \in Nat
      /\ \A q \in Pages : memmap[q] # "Conventional" => memmap'[q] # "Conventional"
  BY MapStep DEF IInv, TypeOK
<1>1. ASSUME NEW n \in Int, UNCHANGED ranges, WindowsDone(n)
      PROVE  WindowsDone(n)'
  BY <1>0, <1>1 DEF WindowsDone, InWindow
<1>2. CASE ChooseMode
  <2>1. gaps' = 0 /\ ranges' = <<>> /\ pc' \in {"rows", "chips", "parse"}
    BY <1>2 DEF ChooseMode, Goto, IInv, FlowInv
  <2> QED
    BY <2>1 DEF WindowInv, WindowsDone
<1>3. CASE ParseLine \/ ParseDone
  BY <1>3 DEF WindowInv, ParseLine, ParseDone, Goto
<1>4. CASE MergePage \/ MergeDone
  <2>1. CASE pc' = "merge"
    BY <2>1 DEF WindowInv
  <2>2. CASE pc' = "mask"
    <3>1. cur' = 1 /\ off' = 0 /\ UNCHANGED ranges
      BY <1>4, <2>2 DEF MergePage, MergeDone, Goto
    <3>2. WindowsDone(cur - 1)'
      BY <3>1 DEF WindowsDone
    <3>3. ASSUME 1 <= Len(ranges), NEW q \in Pages, WindowStart(ranges[1]) <= q,
                 q < WindowStart(ranges[1]) + 0
          PROVE  FALSE
      <4>1. q \in Nat
        BY PagesNat
      <4>2. WindowStart(ranges[1]) \in Nat
        BY <1>0, <3>3, RangeFacts DEF IInv
      <4> QED
        BY <3>3, <4>1, <4>2
    <3> QED
      BY <1>0, <2>2, <3>1, <3>2, <3>3 DEF WindowInv
  <2>3. pc' \in {"merge", "mask"}
    BY <1>4 DEF MergePage, MergeDone, Goto
  <2> QED
    BY <2>1, <2>2, <2>3
<1>5. CASE MaskPage
  <2> DEFINE s == WindowStart(ranges[cur])
  <2>1. cur \in 1..Len(ranges) /\ pc = "mask" /\ pc' = "mask" /\ off' = off + 1
        /\ UNCHANGED <<cur, gaps, ranges>>
    BY <1>0, <1>5 DEF MaskPage
  <2>2. s \in Nat
    BY <2>1, RangeFacts DEF IInv
  <2>3. PICK failed \in BOOLEAN : Allocate(s + off, failed) /\ thisGap' = (thisGap \/ failed)
    BY <1>5 DEF MaskPage
  <2>4. s + off \in Pages /\ ~failed => memmap'[s + off] # "Conventional"
    <3>1. s + off \in Nat
      BY <1>0, <2>2
    <3> QED
      BY <2>3, <3>1, AllocateMap DEF IInv
  <2>5. ~thisGap' => ~thisGap /\ ~failed
    BY <2>3
  <2> HIDE DEF s
  <2>6. ASSUME ~thisGap', NEW q \in Pages, s <= q, q < s + (off + 1)
        PROVE  memmap'[q] # "Conventional"
    <3>1. q \in Nat
      BY PagesNat
    <3>2. q < s + off \/ q = s + off
      BY <1>0, <2>2, <2>6, <3>1
    <3>3. CASE q = s + off
      BY <2>4, <2>5, <2>6, <3>3
    <3>4. CASE q < s + off
      <4>1. memmap[q] # "Conventional"
        BY <2>1, <2>5, <2>6, <3>4 DEF IInv, WindowInv, s
      <4> QED
        BY <1>0, <4>1
    <3> QED
      BY <3>2, <3>3, <3>4
  <2>7. gaps = 0 => WindowsDone(cur - 1)'
    <3>1. gaps = 0 => WindowsDone(cur - 1)
      BY <2>1 DEF IInv, WindowInv
    <3>2. WindowsDone(cur - 1) => WindowsDone(cur - 1)'
      BY <1>0, <2>1 DEF WindowsDone, InWindow
    <3> QED
      BY <3>1, <3>2
  <2>8. WindowStart(ranges[cur])' = s
    BY <2>1 DEF s, WindowStart
  <2> QED
    BY <1>0, <2>1, <2>6, <2>7, <2>8 DEF WindowInv
<1>6. CASE RangeDone
  <2>1. /\ cur \in 1..Len(ranges) /\ pc = "mask" /\ pc' = "mask"
        /\ cur' = cur + 1 /\ off' = 0 /\ UNCHANGED <<ranges, memmap>>
        /\ WindowStart(ranges[cur]) + off >= WindowEnd(ranges[cur])
    BY <1>0, <1>6 DEF RangeDone
  <2>2. gaps' = 0 => gaps = 0 /\ ~thisGap
    BY <1>0, <1>6 DEF RangeDone
  <2>3. ASSUME gaps' = 0 PROVE WindowsDone(cur)
    <3>1. WindowsDone(cur - 1)
      BY <2>1, <2>2, <2>3 DEF IInv, WindowInv
    <3>2. ASSUME NEW q \in Pages, InWindow(q, cur)
          PROVE  memmap[q] # "Conventional"
      <4>1. q \in Nat /\ WindowStart(ranges[cur]) \in Nat /\ WindowEnd(ranges[cur]) \in Nat
        BY <2>1, PagesNat, RangeFacts DEF IInv
      <4>2. WindowStart(ranges[cur]) <= q /\ q < WindowStart(ranges[cur]) + off
        BY <1>0, <2>1, <3>2, <4>1 DEF InWindow
      <4> QED
        BY <2>1, <2>2, <2>3, <4>2 DEF IInv, WindowInv
    <3>3. \A k \in 1..cur : k = cur \/ k \in 1..(cur - 1)
      BY <1>0
    <3> QED
      BY <3>1, <3>2, <3>3 DEF WindowsDone
  <2>4. cur' - 1 = cur
    BY <1>0, <2>1
  <2>5. gaps' = 0 => WindowsDone(cur - 1)'
    BY <2>1, <2>3, <2>4 DEF WindowsDone, InWindow
  <2>6. ASSUME cur + 1 <= Len(ranges), NEW q \in Pages, WindowStart(ranges[cur + 1]) <= q,
               q < WindowStart(ranges[cur + 1]) + 0
        PROVE  FALSE
    <3>1. q \in Nat
      BY PagesNat
    <3>2. WindowStart(ranges[cur + 1]) \in Nat
      BY <1>0, <2>6, RangeFacts DEF IInv
    <3> QED
      BY <2>6, <3>1, <3>2
  <2> QED
    BY <1>0, <2>1, <2>5, <2>6 DEF WindowInv
<1>7. CASE MaskDone
  <2>1. /\ pc = "mask" /\ cur > Len(ranges) /\ pc' = "verify"
        /\ UNCHANGED <<ranges, memmap, gaps>>
    BY <1>7 DEF MaskDone, Goto
  <2>2. cur - 1 = Len(ranges)
    BY <1>0, <2>1 DEF IInv, WindowInv
  <2>3. gaps = 0 => WindowsDone(Len(ranges))
    BY <2>1, <2>2 DEF IInv, WindowInv
  <2>4. ~warned' => gaps = 0
    <3>1. gaps > 0 => warned'
      BY <1>7 DEF MaskDone
    <3> QED
      BY <1>0, <3>1
  <2>5. gaps' = 0 => WindowsDone(Len(ranges))'
    BY <2>1, <2>3 DEF WindowsDone, InWindow
  <2> QED
    BY <2>1, <2>4, <2>5 DEF WindowInv
<1>8. CASE Verify \/ MaskChipPage \/ ChipsDone
  <2>1. /\ pc \in {"verify", "chips"} /\ pc' \in {"chips", "done"}
        /\ UNCHANGED <<ranges, gaps, mode>>
    <3>1. CASE Verify
      BY <3>1 DEF Verify, Goto
    <3>2. CASE MaskChipPage
      BY <3>2 DEF MaskChipPage
    <3>3. CASE ChipsDone
      BY <3>3 DEF ChipsDone, Goto
    <3> QED
      BY <1>8, <3>1, <3>2, <3>3
  <2>2. UNCHANGED warned
    BY <1>8 DEF Verify, MaskChipPage, ChipsDone
  <2>3. gaps = 0 /\ mode = "pages" => WindowsDone(Len(ranges))
    BY <2>1 DEF IInv, WindowInv
  <2>4. WindowsDone(Len(ranges)) => WindowsDone(Len(ranges))'
    BY <1>0, <2>1 DEF WindowsDone, InWindow
  <2>5. ~warned => gaps = 0
    BY <2>1 DEF IInv, WindowInv
  <2> QED
    BY <2>1, <2>2, <2>3, <2>4, <2>5 DEF WindowInv
<1>9. CASE MaskRowPage \/ NextRow \/ RowsDone
  <2>1. pc = "rows" /\ pc' \in {"rows", "done"} /\ UNCHANGED <<gaps, mode>>
    BY <1>9 DEF MaskRowPage, NextRow, RowsDone, Goto
  <2> QED
    BY <2>1 DEF WindowInv, IInv, FlowInv
<1> QED
  BY <1>2, <1>3, <1>4, <1>5, <1>6, <1>7, <1>8, <1>9 DEF Next

LEMMA VerdictStep ==
  ASSUME IInv, Next
  PROVE  VerdictInv'
<1>1. CASE Verify
  <2>1. pc' = "chips" /\ UNCHANGED <<ranges, memmap>>
    BY <1>1 DEF Verify, Goto
  <2>2. verdict' = "safe" => \A k \in 1..Len(ranges) :
                               TypeOf(ranges[k].start) \in {"Reserved", "Absent"}
    BY <1>1 DEF Verify, IInv, VerdictInv
  <2> QED
    BY <2>1, <2>2 DEF VerdictInv, TypeOf
<1>2. CASE ~Verify
  <2>1. UNCHANGED verdict
    BY <1>2 DEF Next, ChooseMode, ParseLine, ParseDone, MergePage, MergeDone, MaskPage,
       RangeDone, MaskDone, MaskChipPage, ChipsDone, MaskRowPage, NextRow, RowsDone
  <2>2. SUFFICES ASSUME verdict = "safe" PROVE VerdictInv'
    BY <2>1 DEF VerdictInv
  <2>3. pc \in {"chips", "done"}
    BY <2>2 DEF IInv, VerdictInv
  <2>4. MaskChipPage \/ ChipsDone
    BY <1>2, <2>3 DEF Next, ChooseMode, ParseLine, ParseDone, MergePage, MergeDone, MaskPage,
       RangeDone, MaskDone, MaskRowPage, NextRow, RowsDone
  <2>5. UNCHANGED ranges /\ pc' \in {"chips", "done"}
    BY <2>3, <2>4 DEF MaskChipPage, ChipsDone, Goto
  <2>6. ASSUME NEW k \in 1..Len(ranges)
        PROVE  TypeOf(ranges[k].start)' \in {"Reserved", "Absent"}
    <3>1. TypeOf(ranges[k].start) \in {"Reserved", "Absent"}
      BY <2>2 DEF IInv, VerdictInv
    <3>2. \A q \in Pages : memmap[q] # "Conventional" => memmap'[q] = memmap[q]
      BY MapStep DEF IInv
    <3> QED
      BY <2>5, <3>1, <3>2 DEF TypeOf
  <2> QED
    BY <2>5, <2>6 DEF VerdictInv, TypeOf
<1> QED
  BY <1>1, <1>2

(* A page in the window of a range is near what the range was made from. *)
LEMMA WindowOrigin ==
  ASSUME IInv, NEW k \in 1..Len(ranges), NEW q \in Nat, InWindow(q, k)
  PROVE  NearSaved(q) \/ NearListed(q)
<1>1. PICK p \in Nat : Covers(ranges[k], p) /\ Near(p, q)
  BY WindowNear DEF IInv
<1>2. CASE ranges[k].len = 1 /\ SavedPage(ranges[k].start)
  <2>1. p = ranges[k].start
    BY <1>1, <1>2, RangeFacts DEF Covers, IInv
  <2> QED
    BY <1>1, <1>2, <2>1 DEF SavedPage, NearSaved
<1>3. CASE \A r \in Nat : Covers(ranges[k], r) => ListedPage(r)
  BY <1>1, <1>3 DEF ListedPage, NearListed
<1> QED
  BY <1>2, <1>3 DEF IInv, OriginInv

LEMMA TakesStep ==
  ASSUME IInv, Next
  PROVE  TakesNoMore'
<1> DEFINE Reason(q) == \/ mode = "pages" /\ (NearSaved(q) \/ NearListed(q))
                        \/ OfChips(q)
                        \/ mode = "rows" /\ \E k \in 1..Len(nvRows) : q \in RowPages[nvRows[k]]
<1>0. UNCHANGED <<lines, saved, nvRows, firmware>>
  BY InputStep DEF inputs
<1>1. SUFFICES ASSUME NEW q \in Pages, memmap'[q] # firmware[q]
               PROVE  /\ firmware[q] = "Conventional" /\ memmap'[q] = "Reserved"
                      /\ Reason(q)'
  BY <1>0 DEF TakesNoMore
<1>2. memmap[q] # firmware[q] => /\ firmware[q] = "Conventional" /\ memmap[q] = "Reserved"
                                 /\ Reason(q)
  BY DEF IInv, TakesNoMore
<1>3. ASSUME UNCHANGED <<mode, chips>>, Reason(q)
      PROVE  Reason(q)'
  BY <1>0, <1>3 DEF NearSaved, NearListed, Region, PageOf, Near, OfChips
<1> HIDE DEF Reason
<1>4. CASE UNCHANGED memmap /\ UNCHANGED <<mode, chips>>
  BY <1>1, <1>2, <1>3, <1>4
<1>5. CASE ChooseMode \/ ParseLine
  BY <1>1, <1>5 DEF ChooseMode, ParseLine, IInv, FlowInv
<1>6. ASSUME NEW p \in Nat, NEW failed, Allocate(p, failed), UNCHANGED <<mode, chips>>,
             p \in Pages => Reason(p)
      PROVE  /\ firmware[q] = "Conventional" /\ memmap'[q] = "Reserved"
             /\ Reason(q)'
  <2>1. memmap'[q] # memmap[q] =>
          q = p /\ memmap[q] = "Conventional" /\ memmap'[q] = "Reserved"
    BY <1>6, AllocateMap DEF IInv
  <2>2. CASE memmap'[q] = memmap[q]
    BY <1>1, <1>2, <1>3, <1>6, <2>2
  <2>3. CASE memmap'[q] # memmap[q]
    <3>1. firmware[q] = "Conventional"
      BY <1>2, <2>1, <2>3
    <3>2. Reason(q)
      BY <1>6, <2>1, <2>3
    <3> QED
      BY <1>3, <1>6, <2>1, <2>3, <3>1, <3>2
  <2> QED
    BY <2>2, <2>3
<1>7. CASE MaskPage
  <2> DEFINE p == WindowStart(ranges[cur]) + off
  <2>1. cur \in 1..Len(ranges) /\ off \in Nat /\ mode = "pages"
    BY <1>7 DEF MaskPage, IInv, TypeOK, FlowInv
  <2>2. PICK failed \in BOOLEAN : Allocate(p, failed)
    BY <1>7 DEF MaskPage
  <2>3. p \in Nat /\ InWindow(p, cur)
    <3>1. WindowStart(ranges[cur]) \in Nat
      BY <2>1, RangeFacts DEF IInv
    <3> QED
      BY <1>7, <2>1, <3>1 DEF MaskPage, InWindow
  <2> HIDE DEF p
  <2>4. Reason(p)
    BY <2>1, <2>3, WindowOrigin DEF Reason
  <2>5. UNCHANGED <<mode, chips>>
    BY <1>7 DEF MaskPage
  <2> QED
    BY <1>6, <2>2, <2>3, <2>4, <2>5
<1>8. CASE MaskChipPage
  <2>1. UNCHANGED <<mode, chips>>
    BY <1>8 DEF MaskChipPage
  <2>2. CASE OfChips(off)
    <3>1. PICK failed \in BOOLEAN : Allocate(off, failed)
      BY <1>8, <2>2 DEF MaskChipPage
    <3>2. off \in Nat /\ Reason(off)
      BY <2>2 DEF Reason, IInv, TypeOK
    <3> QED
      BY <1>6, <2>1, <3>1, <3>2
  <2>3. CASE ~OfChips(off)
    BY <1>4, <1>8, <2>1, <2>3 DEF MaskChipPage
  <2> QED
    BY <2>2, <2>3
<1>9. CASE MaskRowPage
  <2>1. UNCHANGED <<mode, chips>> /\ mode = "rows"
    BY <1>9 DEF MaskRowPage, IInv, FlowInv
  <2>2. CASE off \in RowPages[nvRows[cur]]
    <3>1. PICK failed \in BOOLEAN : Allocate(off, failed)
      BY <1>9, <2>2 DEF MaskRowPage
    <3>2. off \in Nat /\ cur \in 1..Len(nvRows)
      BY <1>9 DEF MaskRowPage, IInv, InputOK, TypeOK
    <3>3. Reason(off)
      BY <2>1, <2>2, <3>2 DEF Reason
    <3> QED
      BY <1>6, <2>1, <3>1, <3>2, <3>3
  <2>3. CASE off \notin RowPages[nvRows[cur]]
    BY <1>4, <1>9, <2>1, <2>3 DEF MaskRowPage
  <2> QED
    BY <2>2, <2>3
<1> QED
  BY <1>4, <1>5, <1>7, <1>8, <1>9
  DEF Next, ParseDone, MergePage, MergeDone, RangeDone, MaskDone, Verify, ChipsDone, NextRow,
      RowsDone

-----------------------------------------------------------------------------
(* The results *)

LEMMA IInvStep == IInv /\ [Next]_vars => IInv'
<1> SUFFICES ASSUME IInv, [Next]_vars PROVE IInv'
  OBVIOUS
<1>1. CASE Next
  <2>1. InputOK'
    BY <1>1, InputStep DEF inputs, IInv, InputOK
  <2>2. TypeOK'
    BY <1>1, TypeStep DEF IInv
  <2>3. FlowInv' /\ OriginInv' /\ MergeInv' /\ WindowInv' /\ VerdictInv' /\ TakesNoMore'
    BY <1>1, FlowStep, OriginStep, MergeStep, WindowStep, VerdictStep, TakesStep
  <2> QED
    BY <2>1, <2>2, <2>3 DEF IInv
<1>2. CASE UNCHANGED vars
  BY <1>2 DEF vars, inputs, IInv, InputOK, TypeOK, FlowInv, OriginInv, MergeInv, WindowInv,
     VerdictInv, TakesNoMore, SavedPage, ListedPage, ListedIn, SavedIn, InRanges,
     WindowsDone, InWindow, WindowStart, WindowEnd, Covers, TypeOf, NearSaved, NearListed,
     Near, Region, PageOf, OfChips, ListRead, SavedRead
<1> QED
  BY <1>1, <1>2

LEMMA Invariance == Spec => []IInv
  BY InitInv, IInvStep, PTL DEF Spec

(* The shim's variables keep their types, and every range it masks has at  *)
(* least one page, whatever badmem.txt and BrrBadPages contain.            *)
THEOREM ShimTypeCorrect == Spec => []TypeOK
<1>1. IInv => TypeOK
  BY DEF IInv
<1> QED
  BY <1>1, Invariance, PTL

LEMMA Silent == IInv => SilentMeansMasked
<1>1. SUFFICES ASSUME IInv, pc = "done", mode = "pages", ~forceChip, ~warned,
                      Len(ranges) < MaxRanges, NEW q \in Pages,
                      (SavedRead /\ NearSaved(q)) \/ (ListRead /\ NearListed(q))
               PROVE  memmap[q] # "Conventional"
  BY DEF SilentMeansMasked
<1>2. (ListRead => ListedIn(Len(lines))) /\ (SavedRead => SavedIn(Len(saved)))
  BY <1>1 DEF IInv, MergeInv
<1>3. WindowsDone(Len(ranges))
  BY <1>1 DEF IInv, WindowInv
<1>4. q \in Nat
  BY PagesNat
<1>5. PICK p \in Nat : InRanges(p) /\ Near(p, q)
  <2>1. CASE SavedRead /\ NearSaved(q)
    BY <1>1, <1>2, <2>1, SavedFacts DEF NearSaved, SavedIn, IInv
  <2>2. CASE ListRead /\ NearListed(q)
    <3>1. PICK l \in 1..Len(lines) : /\ lines[l].kind = "region"
                                     /\ \E addr \in Region(lines[l]) : Near(PageOf(addr), q)
      BY <2>2 DEF NearListed
    <3>2. PICK addr \in Region(lines[l]) : Near(PageOf(addr), q)
      BY <3>1
    <3>3. PageOf(addr) \in Nat
      BY <1>1, <3>1, ListedFacts DEF IInv
    <3>4. InRanges(PageOf(addr))
      BY <1>2, <2>2, <3>1 DEF ListedIn
    <3> QED
      BY <3>2, <3>3, <3>4
  <2> QED
    BY <1>1, <2>1, <2>2
<1>6. PICK k \in 1..Len(ranges) : Covers(ranges[k], p)
  BY <1>5 DEF InRanges
<1>7. InWindow(q, k)
  BY <1>1, <1>4, <1>5, <1>6, WindowNear DEF IInv
<1> QED
  BY <1>3, <1>7 DEF WindowsDone

(* Page mode that ends without a warning leaves no page within the window  *)
(* of a saved or listed address that could be read in free memory.         *)
THEOREM SilentlyMasked == Spec => []SilentMeansMasked
  BY Silent, Invariance, PTL

(* The shim never takes a page that was in use, nor one outside the        *)
(* windows, chips and rows it is to mask.                                  *)
THEOREM TakesOnlyBad == Spec => []TakesNoMore
<1>1. IInv => TakesNoMore
  BY DEF IInv
<1> QED
  BY <1>1, Invariance, PTL

LEMMA Verified == IInv => VerifiedPagesSafe
<1>1. SUFFICES ASSUME IInv, verdict = "safe", Len(ranges) < MaxRanges, intact,
                      SavedRead, NEW n \in 1..Len(saved)
               PROVE  \/ TypeOf(PageOf(saved[n])) \in {"Reserved", "Absent"}
                      \/ ListRead /\ ListedPage(PageOf(saved[n]))
  BY DEF VerifiedPagesSafe, ListedPage
<1> DEFINE p == PageOf(saved[n])
<1>2. p \in Nat
  BY <1>1, SavedFacts DEF IInv
<1>3. pc \in {"chips", "done"} /\ mode = "pages" /\ ~forceChip
  BY <1>1 DEF IInv, VerdictInv, FlowInv
<1>4. SavedIn(Len(saved))
  BY <1>1, <1>3 DEF IInv, MergeInv
<1>5. PICK k \in 1..Len(ranges) : Covers(ranges[k], p)
  BY <1>4 DEF SavedIn, InRanges
<1>6. TypeOf(ranges[k].start) \in {"Reserved", "Absent"}
  BY <1>1 DEF IInv, VerdictInv
<1> HIDE DEF p
<1>7. CASE ranges[k].len = 1
  <2>1. p = ranges[k].start
    BY <1>1, <1>2, <1>5, <1>7, RangeFacts DEF Covers, IInv
  <2> QED
    BY <1>6, <2>1 DEF p
<1>8. CASE ListRead /\ \A r \in Nat : Covers(ranges[k], r) => ListedPage(r)
  BY <1>2, <1>5, <1>8 DEF p
<1> QED
  BY <1>1, <1>7, <1>8 DEF IInv, OriginInv

(* A clean verification covers every page of a BrrBadPages that was read   *)
(* and that badmem.txt does not list, although only the first page of each *)
(* range is looked up.                                                     *)
THEOREM VerifiedSafe == Spec => []VerifiedPagesSafe
  BY Verified, Invariance, PTL
=============================================================================
