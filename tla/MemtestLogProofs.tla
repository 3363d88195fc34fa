--------------------------- MODULE MemtestLogProofs ---------------------------
(***************************************************************************)
(* Proofs about MemtestLog for every size of memory, table, work list and  *)
(* burst: types, what the log and the tables hold, that pruning keeps the  *)
(* tests off the skip list, whose entries never overlap, that it loses no  *)
(* good memory and that it ends.                                           *)
(***************************************************************************)
EXTENDS MemtestLog, FiniteSetTheorems, SequenceTheorems, WellFoundedInduction, TLAPS

-----------------------------------------------------------------------------
(* Arithmetic of regions. *)

(* Multiplication is monotone. *)
LEMMA TimesMonotone ==
  ASSUME NEW a \in Nat, NEW b \in Nat, NEW c \in Nat, a <= b
  PROVE  c * a <= c * b
  OBVIOUS

(* The sizes, as numbers. *)
LEMMA Sizes ==
  /\ MaxAddr \in Nat /\ DirectWords \in Nat /\ WindowWords \in Nat \ {0}
  /\ MBWords \in Nat \ {0} /\ PageWords \in Nat \ {0}
  /\ MaxAddr + 1 = DirectWords + WindowWords
  BY BoundsAssumption DEF MaxAddr

(* A multiple is its factor times its quotient. *)
LEMMA Quotient ==
  ASSUME NEW n \in Nat, NEW c \in Nat \ {0}, n % c = 0
  PROVE  n \div c \in Nat /\ n = c * (n \div c)
  OBVIOUS

(* The address space is made of whole regions. *)
LEMMA AddressRegions == MaxAddr + 1 = MBWords * ((DirectWords \div MBWords) + (WindowWords \div MBWords))
<1> DEFINE d == DirectWords \div MBWords
           w == WindowWords \div MBWords
<1>1. d \in Nat /\ DirectWords = MBWords * d /\ w \in Nat /\ WindowWords = MBWords * w
  BY Sizes, WholeRegions, Quotient
<1> HIDE DEF d, w
<1>2. MBWords * (d + w) = MBWords * d + MBWords * w
  BY <1>1, Sizes
<1>3. QED
  BY <1>1, <1>2, Sizes DEF d, w

(* The region of an address lies in the address space and contains it. *)
LEMMA RegionBounds ==
  ASSUME NEW p \in Addresses
  PROVE  /\ Region(p) \in Segments
         /\ Within(p, Region(p))
         /\ Region(p).start \in Addresses
<1> DEFINE m == (DirectWords \div MBWords) + (WindowWords \div MBWords)
           q == p \div MBWords
<1>1. m \in Nat /\ q \in Nat
  BY Sizes DEF Addresses
<1>2. MaxAddr + 1 = MBWords * m
  BY AddressRegions
<1> HIDE DEF m
<1>3. MBWords * q <= p /\ p < MBWords * q + MBWords
  BY Sizes DEF Addresses
<1>4. q + 1 <= m
  <2>1. SUFFICES ASSUME m <= q PROVE FALSE
    BY <1>1
  <2>2. MBWords * m <= MBWords * q
    BY <1>1, <2>1, TimesMonotone, Sizes
  <2>3. QED
    BY <1>1, <1>2, <1>3, <2>2, Sizes DEF Addresses
<1>5. MBWords * (q + 1) <= MBWords * m
  BY <1>1, <1>4, TimesMonotone, BoundsAssumption
<1>6. MBWords * (q + 1) = MBWords * q + MBWords
  BY <1>1, BoundsAssumption
<1>7. MBWords * q \in Nat
  BY <1>1, BoundsAssumption
<1>8. Region(p) = [start |-> MBWords * q, end |-> MBWords * q + MBWords]
  BY DEF Region
<1>9. QED
  BY <1>2, <1>3, <1>5, <1>6, <1>7, <1>8, Sizes DEF Segments, Within, Addresses

(* An address of the region of p has the same region. *)
LEMMA RegionSame ==
  ASSUME NEW p \in Addresses, NEW q \in Addresses, Within(q, Region(p))
  PROVE  Region(q) = Region(p)
  BY Sizes DEF Region, Within, Addresses

(* The region of an address below 2 GiB ends there. *)
LEMMA RegionBelow ==
  ASSUME NEW a \in Addresses, a < DirectWords
  PROVE  Region(a).end <= DirectWords
<1> DEFINE m == DirectWords \div MBWords
           q == a \div MBWords
<1>1. m \in Nat /\ DirectWords = MBWords * m
  BY Sizes, WholeRegions, Quotient
<1>2. q \in Nat /\ MBWords * q <= a
  BY Sizes DEF Addresses
<1>3. Region(a).end = MBWords * q + MBWords
  BY DEF Region
<1> HIDE DEF m, q
<1>4. q + 1 <= m
  <2>1. SUFFICES ASSUME m <= q PROVE FALSE
    BY <1>1, <1>2
  <2>2. MBWords * m <= MBWords * q
    BY <1>1, <1>2, <2>1, TimesMonotone, Sizes
  <2>3. MBWords * q \in Nat /\ a \in Nat
    BY <1>2, Sizes DEF Addresses
  <2>4. QED
    BY <1>1, <1>2, <2>2, <2>3, Sizes
<1>5. MBWords * (q + 1) <= MBWords * m
  BY <1>1, <1>2, <1>4, TimesMonotone, Sizes
<1>6. MBWords * (q + 1) = MBWords * q + MBWords
  BY <1>2, Sizes
<1>7. QED
  BY <1>1, <1>3, <1>5, <1>6

(* Regions end where regions start. *)
LEMMA RegionAligned ==
  ASSUME NEW a \in Addresses
  PROVE  Region(a).start % MBWords = 0 /\ Region(a).end % MBWords = 0
<1> DEFINE q == a \div MBWords
<1>1. q \in Nat /\ Region(a).start = MBWords * q /\ Region(a).end = MBWords * q + MBWords
  BY Sizes DEF Region, Addresses
<1> HIDE DEF q
<1>2. MBWords * q + MBWords = MBWords * (q + 1)
  BY <1>1, Sizes
<1>3. \A n \in Nat : (MBWords * n) % MBWords = 0
  BY Sizes
<1>4. QED
  BY <1>1, <1>2, <1>3

(* The page logged for an address starts in the region of the address.     *)
LEMMA PageInRegion ==
  ASSUME NEW a \in Addresses
  PROVE  PageOf(a) \in Addresses /\ Region(PageOf(a)) = Region(a)
<1> DEFINE k == MBWords \div PageWords
           q == a \div MBWords
           r == a \div PageWords
<1>1. k \in Nat /\ MBWords = PageWords * k
  BY Sizes, WholeRegions, Quotient
<1>2. q \in Nat /\ r \in Nat /\ a \in Nat
  BY Sizes DEF Addresses
<1>3. MBWords * q <= a /\ PageWords * r <= a /\ a < PageWords * r + PageWords
  BY Sizes DEF Addresses
<1>4. PageOf(a) = PageWords * r /\ Region(a).start = MBWords * q
  BY DEF PageOf, Region
<1> HIDE DEF k, q, r
<1>5. k * q \in Nat /\ MBWords * q = PageWords * (k * q)
  BY <1>1, <1>2, Sizes
<1>6. k * q <= r
  <2>1. SUFFICES ASSUME r + 1 <= k * q PROVE FALSE
    BY <1>2, <1>5
  <2>2. PageWords * (r + 1) <= PageWords * (k * q)
    BY <1>2, <1>5, <2>1, TimesMonotone, Sizes
  <2>3. PageWords * (r + 1) = PageWords * r + PageWords
    BY <1>2, Sizes
  <2>4. PageWords * r \in Nat
    BY <1>2, Sizes
  <2>5. QED
    BY <1>2, <1>3, <1>5, <2>2, <2>3, <2>4, Sizes
<1>7. PageWords * (k * q) <= PageWords * r /\ PageWords * r \in Nat
  BY <1>2, <1>5, <1>6, TimesMonotone, Sizes
<1>8. Region(a) \in Segments /\ Within(a, Region(a))
  BY RegionBounds
<1>9. PageOf(a) \in Addresses /\ Within(PageOf(a), Region(a))
  BY <1>2, <1>3, <1>4, <1>5, <1>7, <1>8, Sizes DEF Within, Segments, Addresses
<1>10. QED
  BY <1>9, RegionSame

(* A physical word has an address, below 2 GiB its own. *)
LEMMA AddressBounds ==
  ASSUME NEW p \in Nat
  PROVE  Address(p) \in Addresses /\ (Address(p) < DirectWords => p < DirectWords)
<1>1. p % WindowWords \in Nat /\ p % WindowWords < WindowWords
  BY Sizes
<1>2. QED
  BY <1>1, Sizes DEF Address, Addresses

-----------------------------------------------------------------------------
(* Lists of pieces. *)

(* What AddPiece may add to a list. *)
LEMMA AddPieceElements ==
  ASSUME NEW list \in Seq(Segments), Len(list) <= WorkMax,
         NEW g \in Seq(Segments), Len(g) <= 1
  PROVE  /\ AddPiece(list, g) \in Seq(Segments)
         /\ Len(AddPiece(list, g)) <= WorkMax
         /\ \A j \in 1..Len(AddPiece(list, g)) :
              \/ \E n \in 1..Len(list) : AddPiece(list, g)[j] = list[n]
              \/ \E n \in 1..Len(g) : AddPiece(list, g)[j] = g[n]
<1>1. CASE Len(list) < WorkMax
  <2>1. AddPiece(list, g) = list \o g
    BY <1>1 DEF AddPiece
  <2>2. /\ list \o g \in Seq(Segments)
        /\ Len(list \o g) = Len(list) + Len(g)
        /\ \A j \in 1..Len(list) + Len(g) :
             (list \o g)[j] = IF j <= Len(list) THEN list[j] ELSE g[j - Len(list)]
    BY ConcatProperties, LenProperties
  <2>3. QED
    BY <1>1, <2>1, <2>2, LenProperties, BoundsAssumption
<1>2. CASE ~(Len(list) < WorkMax)
  BY <1>2 DEF AddPiece
<1>3. QED
  BY <1>1, <1>2

(* The two remnants of a piece around a range that overlaps it. *)
LEMMA RemnantsOf ==
  ASSUME NEW g \in Segments, NEW h \in Segments, ~Disjoint(g, h)
  PROVE  /\ LeftOf(g, h) \in Seq(Segments) /\ Len(LeftOf(g, h)) <= 1
         /\ RightOf(g, h) \in Seq(Segments) /\ Len(RightOf(g, h)) <= 1
         /\ \A r \in {LeftOf(g, h)[n] : n \in 1..Len(LeftOf(g, h))}
                   \cup {RightOf(g, h)[n] : n \in 1..Len(RightOf(g, h))} :
              r \in Segments /\ Disjoint(r, h) /\ g.start <= r.start /\ r.end <= g.end
<1> DEFINE left == [start |-> g.start, end |-> h.start]
           right == [start |-> h.end, end |-> g.end]
<1>1. h.start > g.start => left \in Segments /\ Disjoint(left, h) /\ left.end <= g.end
  BY Sizes DEF Segments, Disjoint
<1>2. h.end < g.end => right \in Segments /\ Disjoint(right, h) /\ g.start <= right.start
  BY Sizes DEF Segments, Disjoint
<1>3. g.start <= g.start /\ g.end <= g.end
  BY Sizes DEF Segments
<1>4. /\ LeftOf(g, h) \in Seq(Segments) /\ Len(LeftOf(g, h)) <= 1
      /\ \A n \in 1..Len(LeftOf(g, h)) : LeftOf(g, h)[n] = left /\ h.start > g.start
  <2>1. CASE h.start > g.start
    <3>1. LeftOf(g, h) = <<left>>
      BY <2>1 DEF LeftOf
    <3>2. QED
      BY <1>1, <2>1, <3>1
  <2>2. CASE ~(h.start > g.start)
    <3>1. LeftOf(g, h) = <<>>
      BY <2>2 DEF LeftOf
    <3>2. QED
      BY <3>1
  <2>3. QED
    BY <2>1, <2>2
<1>5. /\ RightOf(g, h) \in Seq(Segments) /\ Len(RightOf(g, h)) <= 1
      /\ \A n \in 1..Len(RightOf(g, h)) : RightOf(g, h)[n] = right /\ h.end < g.end
  <2>1. CASE h.end < g.end
    <3>1. RightOf(g, h) = <<right>>
      BY <2>1 DEF RightOf
    <3>2. QED
      BY <1>2, <2>1, <3>1
  <2>2. CASE ~(h.end < g.end)
    <3>1. RightOf(g, h) = <<>>
      BY <2>2 DEF RightOf
    <3>2. QED
      BY <3>1
  <2>3. QED
    BY <2>1, <2>2
<1>6. QED
  BY <1>1, <1>2, <1>3, <1>4, <1>5

(* The pieces after a cut: each is an old one, or part of the piece cut and *)
(* free of the range.                                                       *)
LEMMA CutPieces ==
  ASSUME NEW list \in Seq(Segments), Len(list) <= WorkMax,
         NEW g \in Segments, NEW h \in Segments, ~Disjoint(g, h),
         NEW new, new = AddPiece(AddPiece(list, LeftOf(g, h)), RightOf(g, h))
  PROVE  /\ new \in Seq(Segments) /\ Len(new) <= WorkMax
         /\ \A j \in 1..Len(new) :
              \/ \E n \in 1..Len(list) : new[j] = list[n]
              \/ Disjoint(new[j], h) /\ g.start <= new[j].start /\ new[j].end <= g.end
<1> DEFINE left == LeftOf(g, h)
           right == RightOf(g, h)
           mid == AddPiece(list, left)
<1>1. left \in Seq(Segments) /\ Len(left) <= 1 /\ right \in Seq(Segments) /\ Len(right) <= 1
  BY RemnantsOf
<1>2. /\ mid \in Seq(Segments) /\ Len(mid) <= WorkMax
      /\ \A j \in 1..Len(mid) : \/ \E n \in 1..Len(list) : mid[j] = list[n]
                                \/ \E n \in 1..Len(left) : mid[j] = left[n]
  BY <1>1, AddPieceElements
<1>3. /\ AddPiece(mid, right) \in Seq(Segments) /\ Len(AddPiece(mid, right)) <= WorkMax
      /\ \A j \in 1..Len(AddPiece(mid, right)) :
           \/ \E n \in 1..Len(mid) : AddPiece(mid, right)[j] = mid[n]
           \/ \E n \in 1..Len(right) : AddPiece(mid, right)[j] = right[n]
  <2> HIDE DEF left, right, mid
  <2>1. QED
    BY <1>1, <1>2, AddPieceElements
<1>4. \A n \in 1..Len(left) :
        Disjoint(left[n], h) /\ g.start <= left[n].start /\ left[n].end <= g.end
  BY RemnantsOf
<1>5. \A n \in 1..Len(right) :
        Disjoint(right[n], h) /\ g.start <= right[n].start /\ right[n].end <= g.end
  BY RemnantsOf
<1>6. new = AddPiece(mid, right)
  OBVIOUS
<1> HIDE DEF left, right, mid
<1>7. ASSUME NEW j \in 1..Len(new)
      PROVE  \/ \E n \in 1..Len(list) : new[j] = list[n]
             \/ Disjoint(new[j], h) /\ g.start <= new[j].start /\ new[j].end <= g.end
  <2>1. CASE \E n \in 1..Len(mid) : new[j] = mid[n]
    BY <1>2, <1>4, <2>1
  <2>2. CASE \E n \in 1..Len(right) : new[j] = right[n]
    BY <1>5, <2>2
  <2>3. QED
    BY <1>3, <1>6, <2>1, <2>2
<1>8. QED
  BY <1>3, <1>6, <1>7

(* The beginning of a sequence. *)
LEMMA Prefix ==
  ASSUME NEW S, NEW s \in Seq(S), NEW n \in Nat, n <= Len(s)
  PROVE  /\ SubSeq(s, 1, n) \in Seq(S)
         /\ Len(SubSeq(s, 1, n)) = n
         /\ \A j \in 1..n : SubSeq(s, 1, n)[j] = s[j]
<1>1. \A i \in 1..n : s[i] \in S
  BY ElementOfSeq, LenProperties
<1>2. QED
  BY <1>1, LenProperties, SubSeqProperties

-----------------------------------------------------------------------------
(* Types. *)

ITypes == TypeOK /\ (phase = "chips" => seg <= Len(log))

(* The initial state has the right types. *)
LEMMA TypesInit == Init => ITypes
<1>1. 0 \in Addresses /\ 0 \in Slots /\ 0 \in 0..RunMax /\ 0 \in 0..MaxErrors /\ 0 \in 0..ChipBuf
  BY BoundsAssumption, Sizes DEF Addresses, Slots
<1>2. DirectWords \in Bases /\ <<>> \in Maps
  BY DEF Bases, Maps
<1>3. SUFFICES ASSUME Init PROVE ITypes
  OBVIOUS
<1>4. /\ phase = "window" /\ lru \in [Slots -> [base : Addresses, run : 0..RunMax]]
      /\ lruNext \in Slots /\ mapped \in Bases /\ window \in Maps
  BY <1>1, <1>2, <1>3 DEF Init
<1>5. /\ log = <<>> /\ skips = <<>> /\ vmMap = <<>> /\ work = <<>> /\ newWork = <<>>
      /\ scratch = <<>> /\ rows = <<>> /\ chips = <<>> /\ reported = {}
      /\ errors = 0 /\ bail = FALSE /\ seg = 1 /\ skip = 1 /\ piece = 1 /\ chipUsed = 0
  BY <1>3 DEF Init
<1>6. QED
  BY <1>1, <1>4, <1>5, BoundsAssumption, SMTT(30) DEF ITypes, TypeOK

(* A region that grows to take in a range that touches it stays a range. *)
LEMMA GrownSegment ==
  ASSUME NEW g \in Segments, NEW h \in Segments
  PROVE  [start |-> Lower(g.start, h.start), end |-> Upper(g.end, h.end)] \in Segments
  BY Sizes DEF Segments, Lower, Upper

(* A set of numbers that is not empty has a least element. *)
LEMMA LeastExists ==
  ASSUME NEW S \in SUBSET Nat, S # {}
  PROVE  \E c \in S : \A b \in S : c <= b
<1>1. PICK a \in S : \A b \in S : ~(<<b, a>> \in OpToRel(<, Nat))
  BY NatLessThanWellFounded, WFMin
<1>2. \A b \in S : <<b, a>> \in OpToRel(<, Nat) <=> b < a
  BY DEF OpToRel
<1>3. \A b \in S : ~(b < a)
  BY <1>1, <1>2, Zenon
<1>4. QED
  BY <1>3

(* Least picks a least element if there is one. *)
LEMMA LeastChosen ==
  ASSUME NEW S, \E c \in S : \A b \in S : c <= b
  PROVE  Least(S) \in S
  BY SMT DEF Least

(* Least of a set of numbers is in the set. *)
LEMMA LeastElement ==
  ASSUME NEW S \in SUBSET Nat, S # {}
  PROVE  Least(S) \in S
  BY LeastExists, LeastChosen

(* The burst detector's choice of a slot is a slot. *)
LEMMA SlotIsSlot ==
  ASSUME TypeOK, NEW b
  PROVE  /\ RunsOf(b) # {} => Least(RunsOf(b)) \in RunsOf(b)
         /\ RunsOf(b) \subseteq Slots
         /\ (lruNext + 1) % LruSlots \in Slots
<1>1. RunsOf(b) \subseteq Slots /\ Slots \subseteq Nat
  BY BoundsAssumption DEF RunsOf, Slots
<1>2. (lruNext + 1) % LruSlots \in Slots
  BY BoundsAssumption, SMTT(30) DEF TypeOK, Slots
<1>3. RunsOf(b) \in SUBSET Nat
  BY <1>1
<1>4. QED
  BY <1>1, <1>2, <1>3, LeastElement

(* What AddSkip returns: the list, a longer one, or one with a grown entry. *)
LEMMA AddSkipCases ==
  ASSUME TypeOK, NEW g \in Segments
  PROVE  \/ AddSkip(g) = skips
         \/ /\ AddSkip(g) = Append(skips, g) /\ Len(skips) < SkipMax
            /\ \A j \in 1..Len(skips) : ~(g.end >= skips[j].start /\ g.start <= skips[j].end)
         \/ \E j \in 1..Len(skips) :
              /\ g.end >= skips[j].start /\ g.start <= skips[j].end
              /\ AddSkip(g) = [skips EXCEPT ![j] = [start |-> Lower(g.start, skips[j].start),
                                                   end   |-> Upper(g.end, skips[j].end)]]
<1> DEFINE touching == {j \in 1..Len(skips) : g.end >= skips[j].start /\ g.start <= skips[j].end}
<1>1. CASE touching # {}
  <2>1. touching \in SUBSET Nat
    BY LenProperties DEF TypeOK
  <2>2. Least(touching) \in touching
    BY <1>1, <2>1, LeastElement
  <2>3. AddSkip(g) = [skips EXCEPT ![Least(touching)] =
                        [start |-> Lower(g.start, skips[Least(touching)].start),
                         end   |-> Upper(g.end, skips[Least(touching)].end)]]
    BY <1>1 DEF AddSkip
  <2> HIDE DEF touching
  <2>4. PICK j \in touching : j = Least(touching)
    BY <2>2
  <2>5. /\ AddSkip(g) = [skips EXCEPT ![j] = [start |-> Lower(g.start, skips[j].start),
                                             end   |-> Upper(g.end, skips[j].end)]]
        /\ j \in 1..Len(skips) /\ g.end >= skips[j].start /\ g.start <= skips[j].end
    BY <2>3, <2>4 DEF touching
  <2>6. QED
    BY <2>5
<1>2. CASE touching = {}
  BY <1>2 DEF AddSkip
<1>3. QED
  BY <1>1, <1>2

(* The skip list keeps its type and its capacity. *)
LEMMA AddSkipType ==
  ASSUME TypeOK, NEW g \in Segments
  PROVE  AddSkip(g) \in Seq(Segments) /\ Len(AddSkip(g)) <= SkipMax
<1>1. CASE AddSkip(g) = skips
  BY <1>1 DEF TypeOK
<1>2. CASE AddSkip(g) = Append(skips, g) /\ Len(skips) < SkipMax
  BY <1>2, AppendProperties, LenProperties, BoundsAssumption DEF TypeOK
<1>3. ASSUME NEW j \in 1..Len(skips),
             AddSkip(g) = [skips EXCEPT ![j] = [start |-> Lower(g.start, skips[j].start),
                                               end   |-> Upper(g.end, skips[j].end)]]
      PROVE  AddSkip(g) \in Seq(Segments) /\ Len(AddSkip(g)) <= SkipMax
  <2> DEFINE e == [start |-> Lower(g.start, skips[j].start), end |-> Upper(g.end, skips[j].end)]
  <2>1. skips \in Seq(Segments) /\ skips[j] \in Segments /\ Len(skips) <= SkipMax
    BY ElementOfSeq DEF TypeOK
  <2>2. e \in Segments
    BY <2>1, GrownSegment
  <2> HIDE DEF e
  <2>3. [skips EXCEPT ![j] = e] \in Seq(Segments) /\ Len([skips EXCEPT ![j] = e]) = Len(skips)
    BY <2>1, <2>2, ExceptSeq
  <2>4. AddSkip(g) = [skips EXCEPT ![j] = e]
    BY <1>3 DEF e
  <2>5. QED
    BY <2>1, <2>3, <2>4
<1>4. QED
  BY <1>1, <1>2, <1>3, AddSkipCases

(* A report keeps the types. *)
LEMMA TypesReport ==
  ASSUME ITypes, NEW p \in BadWords, Report(p)
  PROVE  ITypes'
<1> DEFINE a     == Address(p)
           g     == Region(a)
           found == RunsOf(g.start) # {}
           slot  == IF found THEN Least(RunsOf(g.start)) ELSE lruNext
           run   == IF found THEN Lower(lru[slot].run + 1, RunMax) ELSE 1
           burst == run = Burst /\ ~bail
           cell  == IF burst THEN [base |-> 0, run |-> 0] ELSE [base |-> g.start, run |-> run]
<1>0. a \in Addresses /\ PageOf(a) \in Addresses
  BY AddressBounds, PageInRegion, DataAssumption
<1>1. PageOf(a) \in Addresses /\ g \in Segments /\ g.start \in Addresses /\ 0 \in Addresses
  BY <1>0, RegionBounds, Sizes DEF Addresses
<1>2. slot \in Slots /\ lruNext' \in Slots
  BY SlotIsSlot DEF ITypes, TypeOK, Report
<1>3. run \in 0..RunMax
  <2>1. lru[slot].run \in 0..RunMax
    BY <1>2 DEF ITypes, TypeOK
  <2> HIDE DEF slot
  <2>2. QED
    BY <2>1, BoundsAssumption DEF Lower
<1>4. cell \in [base : Addresses, run : 0..RunMax]
  <2> HIDE DEF run, g
  <2>1. QED
    BY <1>1, <1>3, BoundsAssumption
<1>5. lru' \in [Slots -> [base : Addresses, run : 0..RunMax]]
  <2>1. lru' = [lru EXCEPT ![slot] = cell]
    BY DEF Report
  <2> HIDE DEF slot, cell
  <2>2. QED
    BY <1>2, <1>4, <2>1 DEF ITypes, TypeOK
<1>6. log' \in Seq(Addresses) /\ Len(log') <= MaxEntries
  <2>1. log' = Record(PageOf(a))
    BY DEF Report
  <2>2. QED
    BY <1>1, <2>1, AppendProperties, LenProperties, BoundsAssumption
       DEF Record, ITypes, TypeOK
<1>7. skips' \in Seq(Segments) /\ Len(skips') <= SkipMax
  BY <1>1, AddSkipType DEF Report, ITypes, TypeOK
<1>8. errors' \in 0..MaxErrors /\ bail' \in BOOLEAN
  BY BoundsAssumption DEF Report, ITypes, TypeOK
<1>9. reported' \subseteq BadWords
  BY DEF Report, ITypes, TypeOK
<1>10. /\ phase' = phase /\ phase = "test"
       /\ UNCHANGED <<mapped, vmMap, window, pruneVars, tables>>
  BY DEF Report
<1>11. QED
  BY <1>2, <1>5, <1>6, <1>7, <1>8, <1>9, <1>10 DEF ITypes, TypeOK, pruneVars, tables

(* Every step keeps the types. *)
LEMMA TypesStep == ITypes /\ [Next]_vars => ITypes'
<1> SUFFICES ASSUME ITypes, [Next]_vars PROVE ITypes'
  OBVIOUS
<1> USE DEF ITypes, TypeOK
<1>1. CASE SetupWindow
  <2>1. PICK w \in Windows : /\ window' = w.segs /\ vmMap' = w.segs
                             /\ mapped' = IF w.base < DirectWords THEN mapped ELSE w.base
    BY <1>1 DEF SetupWindow
  <2>2. w.segs \in Seq(Segments) /\ Len(w.segs) <= MapMax
    BY DataAssumption
  <2>3. vmMap' \in Seq(Segments) /\ Len(vmMap') <= MapMax
        /\ window' \in Maps /\ mapped' \in Bases
    BY <2>1, <2>2 DEF Bases, Maps, ITypes, TypeOK
  <2>4. phase' \in {"test", "load"} /\ UNCHANGED <<logVars, pruneVars, tables>>
    BY <1>1 DEF SetupWindow
  <2>5. QED
    BY <2>3, <2>4 DEF logVars, pruneVars, tables
<1>2. CASE LoadSegment
  <2>1. vmMap[seg] \in Segments
    BY <1>2, ElementOfSeq, LenProperties DEF LoadSegment
  <2>2. <<vmMap[seg]>> \in Seq(Segments) /\ Len(<<vmMap[seg]>>) = 1
    BY <2>1
  <2>3. QED
    BY <1>2, <2>2, BoundsAssumption, EmptySeq, SMTT(30) DEF LoadSegment, logVars, tables
<1>3. CASE CutPiece
  <2>1. work[piece] \in Segments /\ skips[skip] \in Segments
    BY <1>3, ElementOfSeq, LenProperties DEF CutPiece, Cutting
  <2>2. newWork' \in Seq(Segments) /\ Len(newWork') <= WorkMax
    <3>1. CASE Disjoint(work[piece], skips[skip]) /\ Len(newWork) < WorkMax
      <4>1. newWork' = Append(newWork, work[piece])
        BY <1>3, <3>1 DEF CutPiece
      <4>2. QED
        BY <2>1, <3>1, <4>1, AppendProperties, LenProperties, BoundsAssumption
    <3>2. CASE Disjoint(work[piece], skips[skip]) /\ ~(Len(newWork) < WorkMax)
      BY <1>3, <3>2 DEF CutPiece
    <3>3. CASE ~Disjoint(work[piece], skips[skip])
      BY <1>3, <2>1, <3>3, CutPieces DEF CutPiece
    <3>4. QED
      BY <3>1, <3>2, <3>3
  <2>3. phase' \in {"cut", "overrun"} /\ piece' \in Nat \ {0}
    BY <1>3 DEF CutPiece, Cutting
  <2>4. QED
    BY <1>3, <2>2, <2>3 DEF CutPiece, logVars, tables
<1>4. CASE NextSkip
  BY <1>4, EmptySeq, BoundsAssumption, SMTT(30) DEF NextSkip, Cutting, logVars, tables
<1>5. CASE EmitPieces
  <2> DEFINE n == Lower(Len(work), 2 * MapMax - Len(scratch))
  <2>1. n \in Nat /\ n <= Len(work) /\ n <= 2 * MapMax - Len(scratch)
    BY LenProperties, BoundsAssumption, SMTT(30) DEF Lower
  <2>2. SubSeq(work, 1, n) \in Seq(Segments) /\ Len(SubSeq(work, 1, n)) = n
    <3> HIDE DEF n
    <3>1. QED
      BY <2>1, Prefix
  <2>3. scratch' = scratch \o SubSeq(work, 1, n)
    BY <1>5 DEF EmitPieces
  <2>4. scratch' \in Seq(Segments) /\ Len(scratch') <= 2 * MapMax
    <3> HIDE DEF n
    <3>1. QED
      BY <2>1, <2>2, <2>3, ConcatProperties, LenProperties, BoundsAssumption, SMTT(30)
  <2>5. QED
    BY <1>5, <2>4, SMTT(30) DEF EmitPieces, logVars, tables
<1>6. CASE ReplaceMap
  <2> DEFINE n == Lower(Len(scratch), MapMax)
  <2>1. n \in Nat /\ n <= Len(scratch) /\ n <= MapMax
    BY LenProperties, BoundsAssumption DEF Lower
  <2>2. SubSeq(scratch, 1, n) \in Seq(Segments) /\ Len(SubSeq(scratch, 1, n)) = n
    <3> HIDE DEF n
    <3>1. QED
      BY <2>1, Prefix
  <2>3. vmMap' \in Seq(Segments) /\ Len(vmMap') <= MapMax
    BY <1>6, <2>1, <2>2 DEF ReplaceMap
  <2>4. QED
    BY <1>6, <2>3, EmptySeq, BoundsAssumption, SMTT(30) DEF ReplaceMap, logVars, tables
<1>7. CASE \E p \in BadWords : Report(p)
  BY <1>7, TypesReport
<1>8. CASE EndWindow
  <2>1. vmMap' \in Seq(Segments) /\ Len(vmMap') <= MapMax
        /\ window' \in Maps
    BY <1>8, BoundsAssumption DEF EndWindow, Maps
  <2>2. phase' = "window" /\ bail' = FALSE
    BY <1>8 DEF EndWindow
  <2>3. UNCHANGED <<log, skips, lru, lruNext, errors, reported, mapped, pruneVars, tables>>
    BY <1>8 DEF EndWindow
  <2>4. QED
    BY <2>1, <2>2, <2>3 DEF pruneVars, tables
<1>9. CASE EndPass
  BY <1>9 DEF EndPass, logVars, pruneVars, tables
<1>10. CASE RecordRow
  <2>1. log[seg] \in Addresses
    BY <1>10, ElementOfSeq, LenProperties DEF RecordRow
  <2>2. rows' \in Seq({RowOf[p] : p \in Addresses}) /\ Len(rows') <= RowMax
    BY <1>10, <2>1, AppendProperties, LenProperties, BoundsAssumption, SMTT(30) DEF RecordRow
  <2>3. QED
    BY <1>10, <2>2 DEF RecordRow, logVars
<1>11. CASE RecordChip
  <2>1. log[seg] \in Addresses
    BY <1>11, ElementOfSeq, LenProperties DEF RecordChip
  <2> DEFINE names == ChipsOf[log[seg]]
             c == names[piece]
  <2>2. names \in Seq(DOMAIN ChipLen)
    BY <2>1, DataAssumption
  <2>3. c \in DOMAIN ChipLen
    <3> HIDE DEF names
    <3>1. piece \in 1..Len(names)
      BY <1>11, <2>2, LenProperties DEF RecordChip, names
    <3>2. QED
      BY <2>2, <3>1, ElementOfSeq DEF names
  <2>4. ChipLen[c] \in Nat
    BY <2>3, DataAssumption
  <2>5. chips' \in Seq(DOMAIN ChipLen) /\ chipUsed' \in 0..ChipBuf
    <3>1. CASE UsedWith(c) + 1 > ChipBuf \/ c \in Listed(chips)
      BY <1>11, <3>1 DEF RecordChip
    <3>2. CASE ~(UsedWith(c) + 1 > ChipBuf \/ c \in Listed(chips))
      <4>1. chips' = Append(chips, c) /\ chipUsed' = UsedWith(c)
        BY <1>11, <3>2 DEF RecordChip
      <4>2. UsedWith(c) \in Nat
        <5> HIDE DEF c
        <5>1. QED
          BY <2>4, SMTT(30) DEF UsedWith
      <4> HIDE DEF c
      <4>3. QED
        BY <2>3, <3>2, <4>1, <4>2, AppendProperties, BoundsAssumption, SMTT(30)
    <3>3. QED
      BY <3>1, <3>2
  <2>6. /\ phase = "chips" /\ seg <= Len(log) /\ piece' = piece + 1
        /\ UNCHANGED <<phase, logVars, mapped, vmMap, window, seg, skip, work, newWork, scratch, rows>>
    BY <1>11 DEF RecordChip
  <2>7. QED
    BY <2>5, <2>6 DEF logVars
<1>12. CASE NextPage
  BY <1>12 DEF NextPage, logVars, tables
<1>13. CASE Halt
  BY <1>13 DEF Halt, logVars, pruneVars, tables
<1>14. CASE UNCHANGED vars
  BY <1>14 DEF vars, logVars, pruneVars, tables
<1>15. QED
  BY <1>1, <1>2, <1>3, <1>4, <1>5, <1>6, <1>7, <1>8, <1>9, <1>10, <1>11, <1>12, <1>13,
     <1>14 DEF Next, Prune

(* Every variable keeps its type, whatever the errors and the windows: no   *)
(* table outgrows its array, and the piece that would be written past the   *)
(* end of new_work is the only write out of bounds (phase "overrun").       *)
THEOREM MemtestTypes == Spec => []TypeOK
<1>1. ITypes => TypeOK
  BY DEF ITypes
<1>2. QED
  BY <1>1, TypesInit, TypesStep, PTL DEF Spec
-----------------------------------------------------------------------------
(* Pruning and the skip list.                                              *)

(* No error was reported in the first word of a region. *)
Unaligned == \A p \in reported : Address(p) % MBWords # 0

(* g lies in a segment of the window, and meets none of the first skips. *)
Inside(g)     == \E n \in 1..Len(window) : window[n].start <= g.start /\ g.end <= window[n].end
ClearTo(g, k) == \A i \in 1..Len(skips) : i < k => Disjoint(g, skips[i])
Clear(g)      == \A i \in 1..Len(skips) : Disjoint(g, skips[i])

(* What holds while the map is pruned and tested: every piece made so far  *)
(* is clear of the skip ranges applied so far.                             *)
IPruned ==
  /\ phase \in {"window", "load", "cut"} => ~bail
  /\ phase \in {"window", "test"} => scratch = <<>>
  /\ phase \in {"load", "cut"} =>
       /\ vmMap = window
       /\ \A j \in 1..Len(scratch) : Inside(scratch[j]) /\ Clear(scratch[j])
  /\ phase = "cut" =>
       /\ \A j \in 1..Len(work) : Inside(work[j]) /\ ClearTo(work[j], skip)
       /\ \A j \in 1..Len(newWork) : Inside(newWork[j]) /\ ClearTo(newWork[j], skip + 1)
  /\ phase = "test" =>
       \A j \in 1..Len(vmMap) : Inside(vmMap[j]) /\ (~bail => Clear(vmMap[j]))

(* A skip range is made of whole regions. *)
WholeRange(h) ==
  \A p \in Addresses : Within(p, h) => h.start <= Region(p).start /\ Region(p).end <= h.end

Aligned(g) == g.start % MBWords = 0 /\ g.end % MBWords = 0

ISkips ==
  /\ \A i \in 1..Len(skips) : WholeRange(skips[i]) /\ Aligned(skips[i])
  /\ SkipsDisjoint
  /\ LogComplete
  /\ SkippedIsLogged

IMem == ITypes /\ IPruned /\ ISkips

(* All of it holds at the start. *)
LEMMA MemInit == Init => IMem
<1>1. Init => IPruned
  BY DEF Init, IPruned
<1>2. Init => ISkips
  BY DEF Init, ISkips, SkipsDisjoint, LogComplete, SkippedIsLogged, Covered, Listed
<1>3. QED
  BY <1>1, <1>2, TypesInit DEF IMem

(* A window is made of segments. *)
LEMMA WindowSegments ==
  ASSUME TypeOK
  PROVE  window \in Seq(Segments) /\ \A n \in 1..Len(window) : window[n] \in Segments
<1>1. window = <<>> \/ \E w \in Windows : window = w.segs
  BY DEF TypeOK, Maps
<1>2. \A w \in Windows : w.segs \in Seq(Segments)
  BY DataAssumption
<1>3. window \in Seq(Segments)
  BY <1>1, <1>2, EmptySeq
<1>4. QED
  BY <1>3, ElementOfSeq

(* Part of a piece is inside and clear where the piece is. *)
LEMMA PartOfPiece ==
  ASSUME TypeOK, NEW g \in Segments, NEW r \in Segments, NEW k,
         g.start <= r.start, r.end <= g.end, Inside(g), ClearTo(g, k)
  PROVE  Inside(r) /\ ClearTo(r, k)
<1>1. Inside(r)
  <2>1. PICK n \in 1..Len(window) : window[n].start <= g.start /\ g.end <= window[n].end
    BY DEF Inside
  <2>2. window[n] \in Segments
    BY WindowSegments
  <2>3. QED
    BY <2>1, <2>2, BoundsAssumption, SMTT(30) DEF Inside, Segments
<1>2. ClearTo(r, k)
  <2>1. \A i \in 1..Len(skips) : skips[i] \in Segments
    BY ElementOfSeq DEF TypeOK
  <2>2. QED
    BY <2>1, BoundsAssumption DEF ClearTo, Disjoint, Segments
<1>3. QED
  BY <1>1, <1>2

(* The pruning steps keep IPruned. *)
LEMMA PrunedCut ==
  ASSUME IMem, CutPiece
  PROVE  IPruned'
<1> DEFINE g == work[piece]
           h == skips[skip]
<1>0. TypeOK /\ IPruned
  BY DEF IMem, ITypes
<1>1. /\ TypeOK /\ TypeOK' /\ IPruned /\ phase = "cut"
      /\ skip \in 1..Len(skips) /\ piece \in 1..Len(work)
      /\ UNCHANGED <<skips, window, vmMap, bail, scratch, skip, work>>
  <2>1. TypeOK'
    BY TypesStep DEF IMem, ITypes, Next, Prune
  <2>2. Len(skips) \in Nat /\ Len(work) \in Nat /\ skip \in Nat \ {0} /\ piece \in Nat \ {0}
    BY <1>0, LenProperties DEF TypeOK
  <2>3. QED
    BY <1>0, <2>1, <2>2 DEF CutPiece, Cutting, logVars
<1>2. g \in Segments /\ h \in Segments
  BY <1>1, ElementOfSeq DEF TypeOK
<1>3. \A j \in 1..Len(newWork') : newWork'[j] \in Segments
  BY <1>1, ElementOfSeq DEF TypeOK
<1>4. Inside(g) /\ ClearTo(g, skip)
  BY <1>1 DEF IPruned
<1>5. \A j \in 1..Len(newWork) : Inside(newWork[j]) /\ ClearTo(newWork[j], skip + 1)
  BY <1>1 DEF IPruned
<1>6. \A r \in Segments : ClearTo(r, skip) /\ Disjoint(r, h) => ClearTo(r, skip + 1)
  <2>1. \A i \in 1..Len(skips) : i < skip + 1 => i < skip \/ i = skip
    BY <1>1, LenProperties DEF TypeOK
  <2>2. QED
    BY <2>1 DEF ClearTo
<1>7. \A j \in 1..Len(newWork') : Inside(newWork'[j]) /\ ClearTo(newWork'[j], skip + 1)
  <2>1. CASE Disjoint(g, h) /\ Len(newWork) < WorkMax
    <3>1. newWork' = Append(newWork, g)
      BY <2>1 DEF CutPiece
    <3>2. ClearTo(g, skip + 1)
      BY <1>2, <1>4, <1>6, <2>1
    <3>3. \A j \in 1..Len(newWork') : newWork'[j] = g \/ \E n \in 1..Len(newWork) : newWork'[j] = newWork[n]
      <4> HIDE DEF g
      <4>1. newWork \in Seq(Segments) /\ g \in Segments
        BY <1>1, <1>2 DEF TypeOK
      <4>2. QED
        BY <3>1, <4>1, AppendProperties, LenProperties
    <3>4. QED
      BY <1>4, <1>5, <3>2, <3>3
  <2>2. CASE Disjoint(g, h) /\ ~(Len(newWork) < WorkMax)
    <3>1. newWork' = newWork
      BY <2>2 DEF CutPiece
    <3>2. QED
      BY <1>5, <3>1
  <2>3. CASE ~Disjoint(g, h)
    <3>1. newWork' = AddPiece(AddPiece(newWork, LeftOf(g, h)), RightOf(g, h))
      BY <2>3 DEF CutPiece
    <3>2. newWork \in Seq(Segments) /\ Len(newWork) <= WorkMax
      BY <1>1 DEF TypeOK
    <3> HIDE DEF g, h
    <3>3. SUFFICES ASSUME NEW j \in 1..Len(newWork')
                   PROVE  Inside(newWork'[j]) /\ ClearTo(newWork'[j], skip + 1)
      OBVIOUS
    <3>4. \/ \E n \in 1..Len(newWork) : newWork'[j] = newWork[n]
          \/ Disjoint(newWork'[j], h) /\ g.start <= newWork'[j].start /\ newWork'[j].end <= g.end
      BY <1>2, <2>3, <3>1, <3>2, <3>3, CutPieces
    <3>5. CASE \E n \in 1..Len(newWork) : newWork'[j] = newWork[n]
      BY <1>5, <3>5
    <3>6. CASE Disjoint(newWork'[j], h) /\ g.start <= newWork'[j].start /\ newWork'[j].end <= g.end
      <4>1. Inside(newWork'[j]) /\ ClearTo(newWork'[j], skip)
        BY <1>1, <1>2, <1>3, <1>4, <3>3, <3>6, PartOfPiece
      <4>2. QED
        BY <1>3, <1>6, <3>3, <3>6, <4>1
    <3>7. QED
      BY <3>4, <3>5, <3>6
  <2>4. QED
    BY <2>1, <2>2, <2>3
<1>8. phase' \in {"cut", "overrun"}
  BY <1>1 DEF CutPiece
<1>9. QED
  BY <1>1, <1>7, <1>8 DEF IPruned, Inside, Clear, ClearTo

(* The other steps of the pruning loop keep IPruned. *)
LEMMA PrunedLoop ==
  ASSUME IMem, LoadSegment \/ NextSkip \/ EmitPieces \/ ReplaceMap
  PROVE  IPruned'
<1>1. TypeOK /\ IPruned /\ Len(vmMap) \in Nat /\ Len(scratch) \in Nat /\ Len(work) \in Nat
  BY LenProperties DEF IMem, ITypes, TypeOK
<1>2. CASE LoadSegment
  <2>1. /\ phase = "load" /\ phase' = "cut" /\ seg \in 1..Len(vmMap) /\ skip' = 1
        /\ work' = <<vmMap[seg]>> /\ newWork' = <<>>
        /\ UNCHANGED <<skips, window, vmMap, bail, scratch>>
    BY <1>1, <1>2 DEF LoadSegment, logVars, TypeOK
  <2>2. vmMap = window /\ vmMap[seg] \in Segments
    BY <1>1, <2>1, ElementOfSeq DEF IPruned, TypeOK
  <2>3. Inside(vmMap[seg])
    BY <2>1, <2>2, BoundsAssumption, SMTT(30) DEF Inside, Segments
  <2>4. ClearTo(vmMap[seg], 1)
    BY DEF ClearTo
  <2>5. \A j \in 1..Len(work') : work'[j] = vmMap[seg]
    BY <2>1
  <2>6. QED
    BY <1>1, <2>1, <2>3, <2>4, <2>5 DEF IPruned, Inside, Clear, ClearTo
<1>3. CASE NextSkip
  <2>1. /\ phase = "cut" /\ phase' = "cut" /\ skip' = skip + 1
        /\ work' = newWork /\ newWork' = <<>>
        /\ UNCHANGED <<skips, window, vmMap, bail, scratch>>
    BY <1>3 DEF NextSkip, Cutting, logVars
  <2>2. QED
    BY <1>1, <2>1 DEF IPruned, Inside, Clear, ClearTo
<1>4. CASE EmitPieces
  <2> DEFINE n == Lower(Len(work), 2 * MapMax - Len(scratch))
             part == SubSeq(work, 1, n)
  <2>1. n \in Nat /\ n <= Len(work)
    BY <1>1, BoundsAssumption DEF Lower, TypeOK
  <2>2. work \in Seq(Segments) /\ scratch \in Seq(Segments)
    BY <1>1 DEF TypeOK
  <2>3. /\ part \in Seq(Segments) /\ Len(part) = n
        /\ \A j \in 1..n : part[j] = work[j]
    <3> HIDE DEF n
    <3>1. QED
      BY <2>1, <2>2, Prefix
  <2>4. /\ phase = "cut" /\ phase' = "load" /\ scratch' = scratch \o part /\ ~Cutting
        /\ UNCHANGED <<skips, window, vmMap, bail>>
    BY <1>4 DEF EmitPieces, logVars
  <2>5. \A j \in 1..Len(work) : Inside(work[j]) /\ Clear(work[j])
    <3>1. work # <<>> => skip > Len(skips)
      BY <1>1, <2>4, LenProperties DEF Cutting, TypeOK
    <3>2. \A j \in 1..Len(work) : work # <<>>
      BY EmptySeq
    <3>3. skip > Len(skips) => \A i \in 1..Len(skips) : i < skip
      BY <1>1, LenProperties DEF TypeOK
    <3>4. QED
      BY <1>1, <2>4, <3>1, <3>2, <3>3 DEF IPruned, ClearTo, Clear
  <2>6. \A j \in 1..Len(scratch) : Inside(scratch[j]) /\ Clear(scratch[j])
    BY <1>1, <2>4 DEF IPruned
  <2>7. \A j \in 1..Len(scratch') : \/ \E m \in 1..Len(scratch) : scratch'[j] = scratch[m]
                                    \/ \E m \in 1..Len(work) : scratch'[j] = work[m]
    <3> HIDE DEF n, part
    <3>1. /\ Len(scratch') = Len(scratch) + Len(part)
          /\ \A j \in 1..Len(scratch) + Len(part) :
               scratch'[j] = IF j <= Len(scratch) THEN scratch[j] ELSE part[j - Len(scratch)]
      BY <2>2, <2>3, <2>4, ConcatProperties
    <3>2. QED
      BY <1>1, <2>1, <2>3, <3>1
  <2>8. \A j \in 1..Len(scratch') : Inside(scratch'[j]) /\ Clear(scratch'[j])
    <3> HIDE DEF n, part
    <3>1. QED
      BY <2>5, <2>6, <2>7
  <2>9. QED
    BY <1>1, <2>4, <2>8 DEF IPruned, Inside, Clear
<1>5. CASE ReplaceMap
  <2> DEFINE n == Lower(Len(scratch), MapMax)
  <2>1. n \in Nat /\ n <= Len(scratch)
    BY <1>1, BoundsAssumption DEF Lower, TypeOK
  <2>2. scratch \in Seq(Segments)
    BY <1>1 DEF TypeOK
  <2>3. vmMap' = SubSeq(scratch, 1, n)
    BY <1>5 DEF ReplaceMap
  <2>4. Len(vmMap') = n /\ \A j \in 1..n : vmMap'[j] = scratch[j]
    <3> HIDE DEF n
    <3>1. QED
      BY <2>1, <2>2, <2>3, Prefix
  <2>5. /\ phase = "load" /\ phase' = "test" /\ scratch' = <<>>
        /\ UNCHANGED <<skips, window, bail>>
    BY <1>5 DEF ReplaceMap, logVars
  <2>6. \A j \in 1..Len(vmMap') : Inside(vmMap'[j]) /\ Clear(vmMap'[j])
    <3> HIDE DEF n
    <3>1. QED
      BY <1>1, <2>1, <2>4, <2>5 DEF IPruned
  <2>7. QED
    BY <1>1, <2>5, <2>6 DEF IPruned, Inside, Clear
<1>6. QED
  BY <1>2, <1>3, <1>4, <1>5

(* A burst's region meets no range of the skip list, unless the error is in *)
(* the first word of the region: the list has been cut out of the map, and  *)
(* its ranges are whole regions.                                            *)
LEMMA BurstIsNew ==
  ASSUME IMem, phase = "test", ~bail, NEW p \in Tested(vmMap), p % MBWords # 0
  PROVE  \A i \in 1..Len(skips) : Disjoint(Region(p), skips[i])
<1> DEFINE g == Region(p)
<1>1. p \in Addresses
  BY DEF Tested
<1>2. PICK j \in 1..Len(vmMap) : Touches(p, vmMap[j])
  BY DEF Tested
<1>3. Clear(vmMap[j]) /\ vmMap[j] \in Segments
  BY ElementOfSeq DEF IMem, IPruned, ITypes, TypeOK
<1>4. SUFFICES ASSUME NEW i \in 1..Len(skips), ~Disjoint(g, skips[i])
               PROVE  FALSE
  OBVIOUS
<1> DEFINE h == skips[i]
           q == Upper(g.start, h.start)
<1>5. h \in Segments /\ WholeRange(h) /\ Aligned(h)
  BY ElementOfSeq DEF IMem, ITypes, TypeOK, ISkips
<1>6. g \in Segments /\ Within(p, g)
  BY <1>1, RegionBounds
<1>7. ~Disjoint(g, h)
  BY <1>4
<1>8. q \in Addresses /\ Within(q, g) /\ Within(q, h)
  <2> HIDE DEF g, h
  <2>1. QED
    BY <1>5, <1>6, <1>7, Sizes DEF Upper, Disjoint, Within, Segments, Addresses
<1>9. Region(q) = g
  BY <1>1, <1>8, RegionSame
<1>10. h.start <= g.start /\ g.end <= h.end
  BY <1>5, <1>8, <1>9 DEF WholeRange
<1>11. Within(p, h) /\ p # h.start
  <2>1. p # h.start
    BY <1>5 DEF Aligned
  <2> HIDE DEF g, h
  <2>2. QED
    BY <1>1, <1>5, <1>6, <1>10, <2>1, Sizes DEF Within, Segments, Addresses
<1>12. Disjoint(vmMap[j], h)
  BY <1>3 DEF Clear
<1>13. QED
  <2> HIDE DEF h
  <2>1. QED
    BY <1>1, <1>2, <1>3, <1>5, <1>11, <1>12, Sizes
       DEF Disjoint, Within, Touches, Segments, Addresses

(* The log after a report. *)
LEMMA LogAfterReport ==
  ASSUME IMem, NEW p \in BadWords, Report(p)
  PROVE  LogComplete' /\ Listed(log) \subseteq Listed(log')
         /\ (Len(log') < MaxEntries => PageOf(Address(p)) \in Listed(log') /\ Len(log) < MaxEntries)
<1>0. PICK a : a = PageOf(Address(p))
  OBVIOUS
<1>1. /\ log \in Seq(Addresses) /\ Len(log) \in Nat /\ a \in Addresses /\ LogComplete
      /\ Len(log) <= MaxEntries
  BY <1>0, AddressBounds, PageInRegion, DataAssumption, LenProperties DEF IMem, ITypes, TypeOK, ISkips
<1>2. log' = Record(a) /\ reported' = reported \cup {p}
  BY <1>0 DEF Report
<1>3. CASE a \in Listed(log) \/ Len(log) >= MaxEntries
  <2>1. log' = log
    BY <1>2, <1>3 DEF Record
  <2>2. QED
    BY <1>0, <1>1, <1>2, <1>3, <2>1, BoundsAssumption DEF LogComplete, Listed
<1>4. CASE ~(a \in Listed(log) \/ Len(log) >= MaxEntries)
  <2>1. log' = Append(log, a)
    BY <1>2, <1>4 DEF Record
  <2>2. /\ Len(log') = Len(log) + 1
        /\ \A j \in 1..Len(log) : log'[j] = log[j]
        /\ log'[Len(log) + 1] = a
    BY <1>1, <2>1, AppendProperties
  <2>3. Listed(log') = Listed(log) \cup {a}
    BY <1>1, <2>2 DEF Listed
  <2>4. \A i, j \in 1..Len(log') : log'[i] = log'[j] => i = j
    <3>1. \A j \in 1..Len(log) : log[j] # a
      BY <1>4 DEF Listed
    <3>2. QED
      BY <1>1, <2>2, <3>1 DEF LogComplete
  <2>5. Len(log') < MaxEntries => Len(log) < MaxEntries
    BY <1>1, <2>2, BoundsAssumption
  <2>6. /\ Listed(log') \subseteq {PageOf(Address(q)) : q \in reported'}
        /\ Len(log') < MaxEntries => \A q \in reported' : PageOf(Address(q)) \in Listed(log')
    BY <1>0, <1>1, <1>2, <2>3, <2>5 DEF LogComplete
  <2>7. QED
    BY <1>0, <2>3, <2>4, <2>5, <2>6 DEF LogComplete
<1>5. QED
  BY <1>3, <1>4

(* A range that touches a region grows by it. *)
LEMMA GrownRange ==
  ASSUME NEW p \in Addresses, NEW h \in Segments, WholeRange(h), Aligned(h),
         Region(p).end >= h.start, Region(p).start <= h.end,
         NEW e, e = [start |-> Lower(Region(p).start, h.start), end |-> Upper(Region(p).end, h.end)]
  PROVE  /\ WholeRange(e) /\ Aligned(e)
         /\ \A q \in Addresses : Within(q, e) => Within(q, h) \/ Within(q, Region(p))
         /\ Disjoint(Region(p), h) =>
              \A f \in Segments : Disjoint(f, h) /\ Disjoint(Region(p), f)
                                     => Disjoint(f, e) /\ Disjoint(e, f)
<1> DEFINE g == Region(p)
<1>1. g \in Segments
  BY RegionBounds
<1>2. /\ g.start \in Nat /\ g.end \in Nat /\ h.start \in Nat /\ h.end \in Nat
      /\ g.start < g.end /\ h.start < h.end /\ h.start <= g.end /\ g.start <= h.end
  BY <1>1, Sizes DEF Segments
<1>3. /\ e.start = Lower(g.start, h.start) /\ e.end = Upper(g.end, h.end)
      /\ e.start <= h.start /\ e.start <= g.start /\ h.end <= e.end /\ g.end <= e.end
  <2>1. e.start = Lower(g.start, h.start) /\ e.end = Upper(g.end, h.end)
    OBVIOUS
  <2> HIDE DEF g
  <2>2. QED
    BY <1>2, <2>1 DEF Lower, Upper
<1>4. \A q \in Addresses : Within(q, e) => Within(q, h) \/ Within(q, g)
  <2> HIDE DEF g
  <2>1. QED
    BY <1>2, <1>3, Sizes DEF Within, Addresses, Lower, Upper
<1>5. WholeRange(e)
  <2>1. SUFFICES ASSUME NEW q \in Addresses, Within(q, e)
                 PROVE  e.start <= Region(q).start /\ Region(q).end <= e.end
    BY DEF WholeRange
  <2>2. Region(q) \in Segments /\ e.start \in Nat /\ e.end \in Nat
    <3> HIDE DEF g
    <3>1. QED
      BY <1>2, <1>3, RegionBounds DEF Lower, Upper
  <2>3. CASE Within(q, h)
    <3>1. h.start <= Region(q).start /\ Region(q).end <= h.end
      BY <2>3 DEF WholeRange
    <3> HIDE DEF g
    <3>2. QED
      BY <1>2, <1>3, <2>2, <3>1, Sizes DEF Segments
  <2>4. CASE Within(q, g)
    <3>1. Region(q) = g
      BY <2>4, RegionSame
    <3> HIDE DEF g
    <3>2. QED
      BY <1>2, <1>3, <3>1
  <2>5. QED
    BY <1>4, <2>1, <2>3, <2>4
<1>6. Aligned(e)
  <2>1. Aligned(g)
    BY RegionAligned DEF Aligned
  <2> HIDE DEF g
  <2>2. e.start \in {g.start, h.start} /\ e.end \in {g.end, h.end}
    BY <1>3 DEF Lower, Upper
  <2>3. QED
    BY <2>1, <2>2 DEF Aligned
<1>7. Disjoint(g, h) => \A f \in Segments : Disjoint(f, h) /\ Disjoint(g, f)
                                               => Disjoint(f, e) /\ Disjoint(e, f)
  <2> HIDE DEF g
  <2>1. SUFFICES ASSUME Disjoint(g, h) PROVE
          \A f \in Segments : Disjoint(f, h) /\ Disjoint(g, f) => Disjoint(f, e) /\ Disjoint(e, f)
    OBVIOUS
  <2>2. \/ g.end = h.start /\ e.start = g.start /\ e.end = h.end
        \/ g.start = h.end /\ e.start = h.start /\ e.end = g.end
    BY <1>2, <1>3, <2>1 DEF Disjoint, Lower, Upper
  <2>3. QED
    BY <1>2, <2>2, Sizes DEF Disjoint, Segments
<1>8. QED
  BY <1>4, <1>5, <1>6, <1>7

(* A region joins the skip list, without overlap if it meets none of its    *)
(* ranges.                                                                  *)
LEMMA SkipsAfterBurst ==
  ASSUME IMem, NEW p \in Addresses, NEW new, new = AddSkip(Region(p))
  PROVE  /\ \A i \in 1..Len(new) : WholeRange(new[i]) /\ Aligned(new[i])
         /\ \A q \in Addresses, i \in 1..Len(new) :
              Within(q, new[i]) => q \in Covered(skips) \/ Region(q) = Region(p)
         /\ /\ \A i, j \in 1..Len(skips) : i # j => Disjoint(skips[i], skips[j])
            /\ \A i \in 1..Len(skips) : Disjoint(Region(p), skips[i])
            => \A i, j \in 1..Len(new) : i # j => Disjoint(new[i], new[j])
<1> DEFINE g == Region(p)
           Free == /\ \A i, j \in 1..Len(skips) : i # j => Disjoint(skips[i], skips[j])
                   /\ \A i \in 1..Len(skips) : Disjoint(g, skips[i])
<1>1. /\ TypeOK /\ Len(skips) \in Nat /\ skips \in Seq(Segments) /\ g \in Segments
      /\ \A i \in 1..Len(skips) : skips[i] \in Segments /\ WholeRange(skips[i]) /\ Aligned(skips[i])
  <2>1. TypeOK /\ Len(skips) \in Nat /\ skips \in Seq(Segments) /\ g \in Segments
    BY LenProperties, RegionBounds DEF IMem, ITypes, TypeOK
  <2>2. \A i \in 1..Len(skips) : skips[i] \in Segments /\ WholeRange(skips[i]) /\ Aligned(skips[i])
    BY <2>1, ElementOfSeq DEF IMem, ISkips
  <2>3. QED
    BY <2>1, <2>2
<1>2. WholeRange(g) /\ Aligned(g)
  <2>1. \A q \in Addresses : Within(q, g) => Region(q) = g
    BY RegionSame
  <2>2. g.start <= g.start /\ g.end <= g.end
    BY <1>1, Sizes DEF Segments
  <2>3. Aligned(g)
    BY RegionAligned DEF Aligned
  <2> HIDE DEF g
  <2>4. QED
    BY <2>1, <2>2, <2>3 DEF WholeRange
<1>3. CASE new = skips
  BY <1>1, <1>3 DEF Covered
<1>4. CASE new = Append(skips, g)
  <2>1. /\ Len(new) = Len(skips) + 1 /\ new[Len(skips) + 1] = g
        /\ \A i \in 1..Len(skips) : new[i] = skips[i]
    <3> HIDE DEF g
    <3>1. QED
      BY <1>1, <1>4, AppendProperties
  <2>2. Free => \A i \in 1..Len(skips) : Disjoint(skips[i], g) /\ Disjoint(g, skips[i])
    <3>1. SUFFICES ASSUME \A i \in 1..Len(skips) : Disjoint(g, skips[i])
                   PROVE  \A i \in 1..Len(skips) : Disjoint(skips[i], g)
      OBVIOUS
    <3> HIDE DEF g
    <3>2. QED
      BY <1>1, <3>1, Sizes DEF Disjoint, Segments
  <2>3. \A q \in Addresses : Within(q, g) => Region(q) = Region(p)
    BY RegionSame
  <2>4. \A i \in 1..Len(new) : i \in 1..Len(skips) \/ i = Len(skips) + 1
    BY <1>1, <2>1
  <2>5. Free => \A i, j \in 1..Len(skips) : i # j => Disjoint(skips[i], skips[j])
    OBVIOUS
  <2> HIDE DEF g, Free
  <2>6. \A i \in 1..Len(new) : WholeRange(new[i]) /\ Aligned(new[i])
    BY <1>1, <1>2, <2>1, <2>4
  <2>7. Free => \A i, j \in 1..Len(new) : i # j => Disjoint(new[i], new[j])
    BY <2>1, <2>2, <2>4, <2>5
  <2>8. \A q \in Addresses, i \in 1..Len(new) :
          Within(q, new[i]) => q \in Covered(skips) \/ Region(q) = Region(p)
    BY <2>1, <2>3, <2>4 DEF Covered
  <2>9. QED
    BY <2>6, <2>7, <2>8 DEF Free, g
<1>5. ASSUME NEW k \in 1..Len(skips), g.end >= skips[k].start, g.start <= skips[k].end,
             new = [skips EXCEPT ![k] = [start |-> Lower(g.start, skips[k].start),
                                         end   |-> Upper(g.end, skips[k].end)]]
      PROVE  /\ \A i \in 1..Len(new) : WholeRange(new[i]) /\ Aligned(new[i])
             /\ \A q \in Addresses, i \in 1..Len(new) :
                  Within(q, new[i]) => q \in Covered(skips) \/ Region(q) = Region(p)
             /\ Free => \A i, j \in 1..Len(new) : i # j => Disjoint(new[i], new[j])
  <2> DEFINE h == skips[k]
             e == [start |-> Lower(g.start, h.start), end |-> Upper(g.end, h.end)]
  <2>1. h \in Segments /\ WholeRange(h) /\ Aligned(h)
    BY <1>1
  <2>2. e \in Segments
    BY <1>1, <2>1, GrownSegment
  <2>3. /\ WholeRange(e) /\ Aligned(e)
        /\ \A q \in Addresses : Within(q, e) => Within(q, h) \/ Within(q, g)
        /\ Disjoint(g, h) =>
             \A f \in Segments : Disjoint(f, h) /\ Disjoint(g, f) => Disjoint(f, e) /\ Disjoint(e, f)
    BY <1>5, <2>1, GrownRange
  <2>4. new = [skips EXCEPT ![k] = e]
    BY <1>5
  <2>5. Len(new) = Len(skips) /\ \A i \in 1..Len(skips) : new[i] = IF i = k THEN e ELSE skips[i]
    <3> HIDE DEF e
    <3>1. QED
      BY <1>1, <2>2, <2>4, ExceptSeq
  <2>6. Free => \A i \in 1..Len(skips) : i # k => Disjoint(skips[i], e) /\ Disjoint(e, skips[i])
    <3>1. Free => /\ Disjoint(g, h)
                  /\ \A i \in 1..Len(skips) : i # k => Disjoint(skips[i], h) /\ Disjoint(g, skips[i])
      OBVIOUS
    <3> HIDE DEF e, h, g, Free
    <3>2. QED
      BY <1>1, <2>3, <3>1
  <2>7. \A q \in Addresses : Within(q, g) => Region(q) = Region(p)
    BY RegionSame
  <2>8. \A q \in Addresses : Within(q, h) => q \in Covered(skips)
    BY DEF Covered
  <2>9. Free => \A i, j \in 1..Len(skips) : i # j => Disjoint(skips[i], skips[j])
    OBVIOUS
  <2> HIDE DEF e, h, g, Free
  <2>10. \A i \in 1..Len(new) : WholeRange(new[i]) /\ Aligned(new[i])
    BY <1>1, <2>3, <2>5
  <2>11. Free => \A i, j \in 1..Len(new) : i # j => Disjoint(new[i], new[j])
    BY <2>5, <2>6, <2>9
  <2>12. \A q \in Addresses, i \in 1..Len(new) :
           Within(q, new[i]) => q \in Covered(skips) \/ Region(q) = Region(p)
    BY <2>3, <2>5, <2>7, <2>8 DEF Covered
  <2>13. QED
    BY <2>10, <2>11, <2>12
<1>6. QED
  BY <1>1, <1>3, <1>4, <1>5, AddSkipCases

(* What a report may exclude lies, by address, in the region of a reported  *)
(* word, whose page is logged unless the log is full.                       *)
LEMMA ExcludedAfterReport ==
  ASSUME IMem, NEW p \in BadWords, Report(p),
         \A a \in Covered(skips') : a \in Covered(skips) \/ Region(a) = Region(Address(p))
  PROVE  SkippedIsLogged'
<1>1. /\ reported' = reported \cup {p} /\ Listed(log) \subseteq Listed(log')
      /\ (Len(log') < MaxEntries => PageOf(Address(p)) \in Listed(log') /\ Len(log) < MaxEntries)
  BY LogAfterReport DEF Report
<1>2. SUFFICES ASSUME NEW a \in Covered(skips')
               PROVE  \E q \in reported' :
                        /\ Region(Address(q)) = Region(a)
                        /\ a < DirectWords => q < DirectWords
                        /\ Len(log') < MaxEntries => PageOf(Address(q)) \in Listed(log')
  BY DEF SkippedIsLogged
<1>3. CASE a \in Covered(skips)
  <2>1. PICK q \in reported : /\ Region(Address(q)) = Region(a)
                              /\ a < DirectWords => q < DirectWords
                              /\ Len(log) < MaxEntries => PageOf(Address(q)) \in Listed(log)
    BY <1>3 DEF IMem, ISkips, SkippedIsLogged
  <2>2. QED
    BY <1>1, <2>1
<1>4. CASE Region(a) = Region(Address(p))
  <2>1. a \in Addresses /\ p \in Nat /\ Address(p) \in Addresses
        /\ (Address(p) < DirectWords => p < DirectWords)
    BY AddressBounds, DataAssumption DEF Covered
  <2>2. a < DirectWords => Address(p) < DirectWords
    <3>1. Within(Address(p), Region(a)) /\ Region(a) \in Segments
      BY <1>4, <2>1, RegionBounds
    <3>2. a < DirectWords => Region(a).end <= DirectWords
      BY <2>1, RegionBelow
    <3>3. QED
      BY <2>1, <3>1, <3>2, Sizes DEF Within, Segments, Addresses
  <2>3. QED
    BY <1>1, <1>4, <2>1, <2>2
<1>5. QED
  BY <1>2, <1>3, <1>4

(* A report keeps the skip list in order and logged, and the map under test *)
(* clear unless it sets bail.                                               *)
LEMMA MemReport ==
  ASSUME IMem, NEW p \in BadWords, Report(p)
  PROVE  IPruned' /\ ISkips'
<1>0. PICK a : a = Address(p)
  OBVIOUS
<1>1. /\ phase = "test" /\ phase' = "test" /\ a \in Tested(vmMap) /\ a \in Addresses
      /\ reported' = reported \cup {p}
      /\ UNCHANGED <<vmMap, window, scratch>>
      /\ (bail => bail')
  BY <1>0 DEF Report, pruneVars, Tested
<1>2. \/ skips' = skips
      \/ ~bail /\ bail' /\ skips' = AddSkip(Region(a))
  BY <1>0 DEF Report
<1>3. LogComplete'
  BY LogAfterReport
<1>4. Unaligned' => Unaligned /\ a % MBWords # 0
  BY <1>0, <1>1 DEF Unaligned
<1>5. IPruned'
  BY <1>1, <1>2 DEF IMem, IPruned, Inside, Clear, ClearTo
<1>6. CASE skips' = skips
  <2>1. (\A i \in 1..Len(skips) : WholeRange(skips[i]) /\ Aligned(skips[i]))'
    BY <1>6 DEF IMem, ISkips, WholeRange
  <2>2. SkipsDisjoint'
    BY <1>4, <1>6 DEF IMem, ISkips, SkipsDisjoint, Unaligned
  <2>3. SkippedIsLogged'
    BY <1>6, ExcludedAfterReport DEF Covered
  <2>4. QED
    BY <1>3, <1>5, <2>1, <2>2, <2>3 DEF ISkips
<1>7. CASE ~bail /\ bail' /\ skips' = AddSkip(Region(a))
  <2>1. /\ \A i \in 1..Len(skips') : WholeRange(skips'[i]) /\ Aligned(skips'[i])
        /\ \A q \in Addresses, i \in 1..Len(skips') :
             Within(q, skips'[i]) => q \in Covered(skips) \/ Region(q) = Region(a)
        /\ /\ \A i, j \in 1..Len(skips) : i # j => Disjoint(skips[i], skips[j])
           /\ \A i \in 1..Len(skips) : Disjoint(Region(a), skips[i])
           => \A i, j \in 1..Len(skips') : i # j => Disjoint(skips'[i], skips'[j])
    BY <1>1, <1>7, SkipsAfterBurst
  <2>2. SkipsDisjoint'
    <3>1. SUFFICES ASSUME Unaligned'
                   PROVE  \A i, j \in 1..Len(skips') : i # j => Disjoint(skips'[i], skips'[j])
      BY DEF SkipsDisjoint, Disjoint, Unaligned
    <3>2. \A i \in 1..Len(skips) : Disjoint(Region(a), skips[i])
      BY <1>1, <1>4, <1>7, <3>1, BurstIsNew
    <3>3. \A i, j \in 1..Len(skips) : i # j => Disjoint(skips[i], skips[j])
      <4>1. \A i, j \in 1..Len(skips) : i # j => \/ skips[i].end <= skips[j].start
                                                \/ skips[j].end <= skips[i].start
        BY <1>4, <3>1 DEF IMem, ISkips, SkipsDisjoint, Unaligned
      <4>2. \A i \in 1..Len(skips) : skips[i].start \in Nat /\ skips[i].end \in Nat
        <5>1. \A i \in 1..Len(skips) : skips[i] \in Segments
          BY ElementOfSeq DEF IMem, ITypes, TypeOK
        <5>2. QED
          BY <5>1, Sizes DEF Segments
      <4>3. QED
        BY <4>1, <4>2 DEF Disjoint
    <3>4. QED
      BY <2>1, <3>2, <3>3
  <2>3. SkippedIsLogged'
    <3>1. \A b \in Covered(skips') : b \in Covered(skips) \/ Region(b) = Region(a)
      BY <2>1 DEF Covered
    <3>2. QED
      BY <1>0, <3>1, ExcludedAfterReport
  <2>4. (\A i \in 1..Len(skips) : WholeRange(skips[i]) /\ Aligned(skips[i]))'
    BY <2>1 DEF WholeRange, Aligned
  <2>5. QED
    BY <1>3, <1>5, <2>2, <2>3, <2>4 DEF ISkips
<1>8. QED
  BY <1>2, <1>6, <1>7

(* Steps that leave the log and the skip list alone keep ISkips. *)
LEMMA SkipsUnchanged ==
  ASSUME ISkips, UNCHANGED <<log, skips, reported>>
  PROVE  ISkips'
  BY DEF ISkips, SkipsDisjoint, LogComplete, SkippedIsLogged, WholeRange, Covered

(* Every step keeps IMem. *)
LEMMA MemStep == IMem /\ [Next]_vars => IMem'
<1> SUFFICES ASSUME IMem, [Next]_vars PROVE IMem'
  OBVIOUS
<1>1. ITypes'
  BY TypesStep DEF IMem
<1>2. IPruned /\ ISkips /\ TypeOK
  BY DEF IMem, ITypes
<1>3. CASE SetupWindow
  <2>1. /\ phase = "window" /\ vmMap' = window' /\ scratch' = scratch
        /\ (phase' = "test" /\ skips = <<>>) \/ phase' = "load"
        /\ UNCHANGED <<log, skips, reported, bail>>
    BY <1>3 DEF SetupWindow, logVars, pruneVars
  <2>2. IPruned'
    <3>1. window' \in Seq(Segments)
      <4>1. PICK w \in Windows : window' = w.segs
        BY <1>3 DEF SetupWindow
      <4>2. QED
        BY <4>1, DataAssumption
    <3>2. \A n \in 1..Len(window') : window'[n] \in Segments
      BY <3>1, ElementOfSeq
    <3>3. \A n \in 1..Len(window') :
            window'[n].start <= window'[n].start /\ window'[n].end <= window'[n].end
      BY <3>2, BoundsAssumption DEF Segments
    <3>4. \A j \in 1..Len(vmMap') : Inside(vmMap[j])'
      BY <2>1, <3>3 DEF Inside
    <3>5. skips = <<>> => \A j \in 1..Len(vmMap') : Clear(vmMap[j])'
      BY <2>1 DEF Clear
    <3>6. \A j \in 1..Len(scratch') : FALSE
      BY <1>2, <2>1 DEF IPruned
    <3>7. ~bail' /\ scratch' = <<>> /\ phase' \in {"test", "load"}
      BY <1>2, <2>1 DEF IPruned
    <3>8. CASE phase' = "test" /\ skips = <<>>
      BY <3>4, <3>5, <3>7, <3>8 DEF IPruned
    <3>9. CASE phase' = "load"
      <4>1. (\A j \in 1..Len(scratch) : Inside(scratch[j]) /\ Clear(scratch[j]))'
        BY <3>6
      <4>2. (vmMap = window)' /\ (~bail)'
        BY <2>1, <3>7
      <4>3. phase' # "cut" /\ phase' # "test" /\ phase' # "window"
        BY <3>9
      <4>4. QED
        BY <4>1, <4>2, <4>3 DEF IPruned
    <3>10. QED
      BY <2>1, <3>8, <3>9
  <2>3. QED
    BY <1>1, <1>2, <2>1, <2>2, SkipsUnchanged DEF IMem
<1>4. CASE Prune
  <2>1. IPruned'
    BY <1>4, PrunedCut, PrunedLoop DEF Prune
  <2>2. UNCHANGED <<log, skips, reported>>
    BY <1>4 DEF Prune, LoadSegment, CutPiece, NextSkip, EmitPieces, ReplaceMap, logVars
  <2>3. QED
    BY <1>1, <1>2, <2>1, <2>2, SkipsUnchanged DEF IMem
<1>5. CASE \E p \in BadWords : Report(p)
  BY <1>1, <1>5, MemReport DEF IMem
<1>6. CASE EndWindow
  <2>1. /\ phase = "test" /\ phase' = "window" /\ bail' = FALSE
        /\ UNCHANGED <<log, skips, reported, scratch>>
    BY <1>6 DEF EndWindow, pruneVars
  <2>2. IPruned'
    BY <1>2, <2>1 DEF IPruned
  <2>3. QED
    BY <1>1, <1>2, <2>1, <2>2, SkipsUnchanged DEF IMem
<1>7. CASE EndPass \/ RecordRow \/ RecordChip \/ NextPage \/ Halt
  <2>1. phase' \in {"decode", "chips", "halted"} /\ UNCHANGED <<log, skips, reported>>
    BY <1>7 DEF EndPass, RecordRow, RecordChip, NextPage, Halt, logVars
  <2>2. IPruned'
    BY <2>1 DEF IPruned
  <2>3. QED
    BY <1>1, <1>2, <2>1, <2>2, SkipsUnchanged DEF IMem
<1>8. CASE UNCHANGED vars
  <2>1. UNCHANGED <<log, skips, reported, phase, bail, scratch, vmMap, window, work, newWork, skip>>
    BY <1>8 DEF vars, logVars, pruneVars, tables
  <2>2. IPruned'
    BY <1>2, <2>1 DEF IPruned, Inside, Clear, ClearTo
  <2>3. QED
    BY <1>1, <1>2, <2>1, <2>2, SkipsUnchanged DEF IMem
<1>9. QED
  BY <1>3, <1>4, <1>5, <1>6, <1>7, <1>8 DEF Next

(* IMem is an invariant. *)
LEMMA MemInvariant == Spec => []IMem
  BY MemInit, MemStep, PTL DEF Spec

(* A test never touches memory that an earlier burst put on the skip list, *)
(* except the first word of a skip range, for any number of skips, any     *)
(* order of them and any list sizes (skip.c).                              *)
THEOREM PruningIsClean == Spec => []PrunedClean
<1>1. IMem => PrunedClean
  <2>1. SUFFICES ASSUME IMem, phase = "test", NEW q \in Tested(vmMap)
                 PROVE  /\ q \in Tested(window)
                        /\ ~bail /\ q \in Covered(skips) => q \in {h.start : h \in Listed(skips)}
    BY DEF PrunedClean
  <2>2. PICK j \in 1..Len(vmMap) : Touches(q, vmMap[j])
    BY DEF Tested
  <2>3. /\ vmMap[j] \in Segments /\ q \in Addresses /\ Inside(vmMap[j]) /\ TypeOK
        /\ (~bail => Clear(vmMap[j]))
    BY <2>1, ElementOfSeq DEF IMem, IPruned, ITypes, TypeOK, Tested
  <2>4. q \in Tested(window)
    <3>1. PICK n \in 1..Len(window) : window[n].start <= vmMap[j].start /\ vmMap[j].end <= window[n].end
      BY <2>3 DEF Inside
    <3>2. window[n] \in Segments
      BY <2>3, WindowSegments
    <3>3. QED
      BY <2>2, <2>3, <3>1, <3>2, Sizes DEF Tested, Touches, Segments, Addresses
  <2>5. ASSUME ~bail, q \in Covered(skips)
        PROVE  q \in {h.start : h \in Listed(skips)}
    <3>1. PICK i \in 1..Len(skips) : Within(q, skips[i])
      BY <2>5 DEF Covered
    <3>2. skips[i] \in Segments /\ Disjoint(vmMap[j], skips[i])
      BY <2>3, <2>5, ElementOfSeq DEF TypeOK, Clear
    <3>3. q = skips[i].start
      BY <2>2, <2>3, <3>1, <3>2, Sizes DEF Disjoint, Within, Touches, Segments, Addresses
    <3>4. QED
      BY <3>3 DEF Listed
  <2>6. QED
    BY <2>4, <2>5
<1>2. QED
  BY <1>1, MemInvariant, PTL

(* The skip list never holds an address twice, although badmem_log_add_skip *)
(* merges a new range into one entry only, unless an error was reported in  *)
(* the first word of a region.                                              *)
THEOREM SkipListDisjoint == Spec => []SkipsDisjoint
<1>1. IMem => SkipsDisjoint
  BY DEF IMem, ISkips
<1>2. QED
  BY <1>1, MemInvariant, PTL

(* Whatever region of addresses is excluded from the tests had an error,    *)
(* below 2 GiB in that very memory, and the page of that address is in the  *)
(* log unless the log is full.                                              *)
THEOREM ExcludedIsLogged == Spec => []SkippedIsLogged
<1>1. IMem => SkippedIsLogged
  BY DEF IMem, ISkips
<1>2. QED
  BY <1>1, MemInvariant, PTL

(* The log holds exactly the pages of the addresses of the errors reported, *)
(* each once, until it is full.                                             *)
THEOREM LogIsComplete == Spec => []LogComplete
<1>1. IMem => LogComplete
  BY DEF IMem, ISkips
<1>2. QED
  BY <1>1, MemInvariant, PTL
-----------------------------------------------------------------------------
(* The tables at the end of a pass.                                         *)

RowDone(p)  == RowOf[p] \in Listed(rows) \cup {NoRow} \/ Len(rows) = RowMax
ChipDone(c) == c \in Listed(chips) \/ UsedWith(c) + 1 > ChipBuf
PageDone(p) == RowDone(p) /\ \A c \in Listed(ChipsOf[p]) : ChipDone(c)

OnlyLogged ==
  /\ Listed(rows) \subseteq {RowOf[p] : p \in Listed(log)} \ {NoRow}
  /\ Listed(chips) \subseteq UNION {Listed(ChipsOf[p]) : p \in Listed(log)}

(* The pages before seg are done, and of the page at seg the row and the    *)
(* chips before piece.                                                      *)
ITables ==
  /\ phase \in {"window", "load", "cut", "test", "overrun"} => rows = <<>> /\ chips = <<>>
  /\ phase \in {"window", "test"} => seg = 1
  /\ phase \in {"decode", "chips", "halted"} =>
       OnlyLogged /\ \A j \in 1..Len(log) : j < seg => PageDone(log[j])
  /\ phase = "chips" =>
       /\ RowDone(log[seg])
       /\ \A n \in 1..Len(ChipsOf[log[seg]]) : n < piece => ChipDone(ChipsOf[log[seg]][n])
  /\ phase = "halted" => seg > Len(log)

(* Appending to a sequence adds one element. *)
LEMMA ListedAppend ==
  ASSUME NEW S, NEW s \in Seq(S), NEW a \in S
  PROVE  Listed(Append(s, a)) = Listed(s) \cup {a} /\ Len(Append(s, a)) = Len(s) + 1
<1>1. /\ Len(s) \in Nat /\ Len(Append(s, a)) = Len(s) + 1
      /\ \A j \in 1..Len(s) : Append(s, a)[j] = s[j]
      /\ Append(s, a)[Len(s) + 1] = a
  BY AppendProperties, LenProperties
<1>2. QED
  BY <1>1 DEF Listed

(* A row that is done stays done when the row table grows. *)
LEMMA TablesRow ==
  ASSUME ITypes, ITables, RecordRow
  PROVE  ITables'
<1> DEFINE r == RowOf[log[seg]]
<1>1. /\ phase = "decode" /\ phase' = "chips" /\ piece' = 1 /\ seg \in 1..Len(log)
      /\ UNCHANGED <<log, seg, chips, chipUsed>>
  BY LenProperties DEF RecordRow, logVars, ITypes, TypeOK
<1>2. log[seg] \in Addresses /\ Len(rows) \in Nat /\ Len(rows) <= RowMax
      /\ rows \in Seq({RowOf[p] : p \in Addresses})
  BY <1>1, ElementOfSeq, LenProperties DEF ITypes, TypeOK
<1>3. rows' = IF r = NoRow \/ r \in Listed(rows) \/ Len(rows) >= RowMax
              THEN rows ELSE Append(rows, r)
  BY DEF RecordRow
<1>4. /\ Listed(rows) \subseteq Listed(rows') /\ Len(rows') >= Len(rows)
      /\ Len(rows') <= RowMax /\ Len(rows') \in Nat
      /\ r \in Listed(rows') \cup {NoRow} \/ Len(rows') = RowMax
      /\ Listed(rows') \subseteq Listed(rows) \cup ({r} \ {NoRow})
  <2> HIDE DEF r
  <2>1. CASE r = NoRow \/ r \in Listed(rows) \/ Len(rows) >= RowMax
    BY <1>2, <1>3, <2>1, BoundsAssumption
  <2>2. CASE ~(r = NoRow \/ r \in Listed(rows) \/ Len(rows) >= RowMax)
    <3>1. r \in {RowOf[p] : p \in Addresses}
      BY <1>2 DEF r
    <3>2. rows' = Append(rows, r)
      BY <1>3, <2>2
    <3>3. Listed(rows') = Listed(rows) \cup {r} /\ Len(rows') = Len(rows) + 1
      BY <1>2, <3>1, <3>2, ListedAppend
    <3>4. QED
      BY <1>2, <2>2, <3>3, BoundsAssumption
  <2>3. QED
    BY <2>1, <2>2
<1>5. \A p : RowDone(p) => RowDone(p)'
  BY <1>2, <1>4, BoundsAssumption DEF RowDone
<1>6. \A c : ChipDone(c) => ChipDone(c)'
  BY <1>1 DEF ChipDone, UsedWith
<1>7. OnlyLogged'
  <2>1. log[seg] \in Listed(log)
    BY <1>1 DEF Listed
  <2>2. QED
    BY <1>1, <1>4, <2>1 DEF ITables, OnlyLogged
<1>8. \A j \in 1..Len(log) : j < seg => PageDone(log[j])'
  BY <1>1, <1>5, <1>6 DEF ITables, PageDone
<1>9. RowDone(log[seg])'
  BY <1>1, <1>4 DEF RowDone
<1>10. \A n \in 1..Len(ChipsOf[log'[seg']]) : ~(n < piece')
  BY <1>1
<1>11. QED
  BY <1>1, <1>7, <1>8, <1>9, <1>10 DEF ITables, PageDone

(* A chip that is done stays done when chip_buf grows. *)
LEMMA TablesChip ==
  ASSUME ITypes, ITables, RecordChip
  PROVE  ITables'
<1> DEFINE names == ChipsOf[log[seg]]
<1>0. PICK c : c = names[piece]
  OBVIOUS
<1>1. /\ phase = "chips" /\ phase' = "chips" /\ piece' = piece + 1 /\ seg \in 1..Len(log)
      /\ UNCHANGED <<log, seg, rows>>
  BY LenProperties DEF RecordChip, logVars, ITypes, TypeOK
<1>2. log[seg] \in Addresses /\ log[seg] \in Listed(log)
  BY <1>1, ElementOfSeq DEF ITypes, TypeOK, Listed
<1>3. names \in Seq(DOMAIN ChipLen) /\ Len(names) \in Nat /\ piece \in Nat \ {0}
  BY <1>2, DataAssumption, LenProperties DEF ITypes, TypeOK
<1>4. piece \in 1..Len(names) /\ c \in DOMAIN ChipLen /\ c \in Listed(names)
  <2>1. piece \in 1..Len(names)
    BY <1>3 DEF RecordChip
  <2> HIDE DEF names
  <2>2. QED
    BY <1>0, <1>3, <2>1, ElementOfSeq DEF Listed
<1>5. ChipLen[c] \in Nat \ {0} /\ chipUsed \in Nat /\ chips \in Seq(DOMAIN ChipLen)
  <2>1. QED
    BY <1>4, DataAssumption, BoundsAssumption DEF ITypes, TypeOK
<1>6. /\ Listed(chips) \subseteq Listed(chips') /\ Listed(chips') \subseteq Listed(chips) \cup {c}
      /\ chipUsed' \in Nat /\ chipUsed <= chipUsed'
      /\ ChipDone(c)'
  <2>1. CASE UsedWith(c) + 1 > ChipBuf \/ c \in Listed(chips)
    <3>1. chips' = chips /\ chipUsed' = chipUsed
      BY <1>0, <2>1 DEF RecordChip
    <3>2. QED
      BY <1>5, <2>1, <3>1 DEF ChipDone, UsedWith
  <2>2. CASE ~(UsedWith(c) + 1 > ChipBuf \/ c \in Listed(chips))
    <3>1. chips' = Append(chips, c) /\ chipUsed' = UsedWith(c)
      BY <1>0, <2>2 DEF RecordChip
    <3>2. Listed(chips') = Listed(chips) \cup {c}
      BY <1>4, <1>5, <3>1, ListedAppend
    <3>3. UsedWith(c) \in Nat /\ UsedWith(c) >= chipUsed
      BY <1>5 DEF UsedWith
    <3>4. QED
      BY <1>5, <3>1, <3>2, <3>3 DEF ChipDone
  <2>3. QED
    BY <2>1, <2>2
<1>7. ASSUME NEW d \in DOMAIN ChipLen, ChipDone(d) PROVE ChipDone(d)'
  <2>1. ChipLen[d] \in Nat
    BY DataAssumption
  <2>2. UsedWith(d)' >= UsedWith(d)
    BY <1>5, <1>6, <2>1 DEF UsedWith
  <2>3. UsedWith(d)' \in Nat /\ UsedWith(d) \in Nat
    BY <1>5, <1>6, <2>1 DEF UsedWith
  <2>4. CASE d \in Listed(chips)
    BY <1>6, <2>4 DEF ChipDone
  <2>5. CASE UsedWith(d) + 1 > ChipBuf
    BY <2>2, <2>3, <2>5, BoundsAssumption DEF ChipDone
  <2>6. QED
    BY <1>7, <2>4, <2>5 DEF ChipDone
<1>8. \A p \in Addresses : Listed(ChipsOf[p]) \subseteq DOMAIN ChipLen
  BY DataAssumption, ElementOfSeq DEF Listed
<1>9. \A p \in Addresses : PageDone(p) => PageDone(p)'
  <2>1. \A p : RowDone(p) => RowDone(p)'
    BY <1>1 DEF RowDone
  <2>2. QED
    BY <1>7, <1>8, <2>1 DEF PageDone
<1>10. \A j \in 1..Len(log) : log[j] \in Addresses
  BY ElementOfSeq DEF ITypes, TypeOK
<1>11. \A j \in 1..Len(log) : j < seg => PageDone(log[j])'
  BY <1>1, <1>9, <1>10 DEF ITables, PageDone
<1>12. OnlyLogged'
  <2>1. c \in UNION {Listed(ChipsOf[p]) : p \in Listed(log)}
    BY <1>2, <1>4
  <2>2. QED
    BY <1>1, <1>6, <2>1 DEF ITables, OnlyLogged
<1>13. \A n \in 1..Len(names) : n < piece' => ChipDone(names[n])'
  <2>1. SUFFICES ASSUME NEW n \in 1..Len(names), n < piece' PROVE ChipDone(names[n])'
    OBVIOUS
  <2>2. names[n] \in DOMAIN ChipLen
    <3> HIDE DEF names
    <3>1. QED
      BY <1>3, <2>1, ElementOfSeq
  <2>3. CASE n < piece
    BY <1>1, <1>7, <2>2, <2>3 DEF ITables
  <2>4. CASE n = piece
    BY <1>0, <1>1, <1>6, <2>4
  <2>5. QED
    BY <1>1, <1>3, <2>1, <2>3, <2>4
<1>14. RowDone(log[seg])'
  BY <1>1 DEF ITables, RowDone
<1>15. QED
  BY <1>1, <1>11, <1>12, <1>13, <1>14 DEF ITables, PageDone

(* The tables are empty at the start. *)
LEMMA TablesInit == Init => ITables
  BY DEF Init, ITables

(* Every step keeps ITables. *)
LEMMA TablesStep == ITypes /\ ITables /\ [Next]_vars => ITables'
<1> SUFFICES ASSUME ITypes, ITables, [Next]_vars PROVE ITables'
  OBVIOUS
<1>1. CASE SetupWindow \/ EndWindow \/ \E p \in BadWords : Report(p)
  <2>1. /\ phase \in {"window", "test"} /\ phase' \in {"window", "test", "load"}
        /\ UNCHANGED <<seg, tables>>
    BY <1>1 DEF SetupWindow, EndWindow, Report, pruneVars
  <2>2. rows' = <<>> /\ chips' = <<>> /\ seg' = 1
    BY <2>1 DEF ITables, tables
  <2>3. QED
    BY <2>1, <2>2 DEF ITables
<1>2. CASE Prune
  <2>1. /\ phase \in {"load", "cut"} /\ phase' \in {"load", "cut", "test", "overrun"}
        /\ phase' = "test" => seg' = 1
        /\ UNCHANGED tables
    BY <1>2 DEF Prune, LoadSegment, CutPiece, Cutting, NextSkip, EmitPieces, ReplaceMap
  <2>2. rows' = <<>> /\ chips' = <<>>
    BY <2>1 DEF ITables, tables
  <2>3. QED
    BY <2>1, <2>2 DEF ITables
<1>3. CASE EndPass
  <2>1. /\ phase' = "decode" /\ seg' = 1 /\ rows' = <<>> /\ chips' = <<>>
    BY <1>3 DEF EndPass, pruneVars, tables, ITables
  <2>2. OnlyLogged'
    BY <2>1 DEF OnlyLogged, Listed
  <2>3. \A j \in 1..Len(log') : ~(j < seg')
    BY <2>1
  <2>4. QED
    BY <2>1, <2>2, <2>3 DEF ITables
<1>4. CASE RecordRow
  BY <1>4, TablesRow
<1>5. CASE RecordChip
  BY <1>5, TablesChip
<1>6. CASE NextPage
  <2>1. /\ phase = "chips" /\ phase' = "decode" /\ seg' = seg + 1
        /\ piece > Len(ChipsOf[log[seg]]) /\ seg \in 1..Len(log)
        /\ UNCHANGED <<log, rows, chips, chipUsed>>
    BY <1>6, LenProperties DEF NextPage, logVars, tables, ITypes, TypeOK
  <2>2. log[seg] \in Addresses
    BY <2>1, ElementOfSeq DEF ITypes, TypeOK
  <2>3. Len(ChipsOf[log[seg]]) \in Nat /\ piece \in Nat
    BY <2>2, DataAssumption, LenProperties DEF ITypes, TypeOK
  <2>4. \A n \in 1..Len(ChipsOf[log[seg]]) : n < piece
    BY <2>1, <2>3
  <2>5. PageDone(log[seg])
    BY <2>1, <2>4 DEF ITables, PageDone, Listed
  <2>6. \A j \in 1..Len(log) : j < seg' => j < seg \/ j = seg
    BY <2>1
  <2>7. \A j \in 1..Len(log) : j < seg' => PageDone(log[j])
    BY <2>1, <2>5, <2>6 DEF ITables
  <2>8. \A j \in 1..Len(log) : PageDone(log[j]) => PageDone(log[j])'
    BY <2>1 DEF PageDone, RowDone, ChipDone, UsedWith
  <2>9. OnlyLogged'
    BY <2>1 DEF ITables, OnlyLogged
  <2>10. QED
    BY <2>1, <2>7, <2>8, <2>9 DEF ITables
<1>7. CASE Halt
  <2>1. /\ phase = "decode" /\ phase' = "halted" /\ seg > Len(log)
        /\ UNCHANGED <<log, seg, rows, chips, chipUsed>>
    BY <1>7 DEF Halt, logVars, pruneVars, tables
  <2>2. QED
    BY <2>1 DEF ITables, OnlyLogged, PageDone, RowDone, ChipDone, UsedWith
<1>8. CASE UNCHANGED vars
  <2>1. UNCHANGED <<phase, log, seg, piece, rows, chips, chipUsed>>
    BY <1>8 DEF vars, logVars, pruneVars, tables
  <2>2. QED
    BY <2>1 DEF ITables, OnlyLogged, PageDone, RowDone, ChipDone, UsedWith
<1>9. QED
  BY <1>1, <1>2, <1>3, <1>4, <1>5, <1>6, <1>7, <1>8 DEF Next

(* When the machine halts after a pass with errors, every logged page has  *)
(* its row and its chips in the tables, unless a table is full, and the    *)
(* tables name nothing else (board_decode_pass).                           *)
THEOREM HaltTables == Spec => []HaltReports
<1>1. ITypes /\ ITables => HaltReports
  <2>1. SUFFICES ASSUME ITypes, ITables, phase = "halted" PROVE HaltReports
    BY DEF HaltReports
  <2>2. seg > Len(log) /\ Len(log) \in Nat /\ seg \in Nat
    BY <2>1, LenProperties DEF ITables, ITypes, TypeOK
  <2>3. \A j \in 1..Len(log) : PageDone(log[j])
    BY <2>1, <2>2 DEF ITables
  <2>4. \A p \in Listed(log) : PageDone(p)
    BY <2>3 DEF Listed
  <2>5. OnlyLogged
    BY <2>1 DEF ITables
  <2>6. QED
    BY <2>4, <2>5 DEF HaltReports, OnlyLogged, PageDone, RowDone, ChipDone
<1>2. QED
  BY <1>1, TypesInit, TypesStep, TablesInit, TablesStep, PTL DEF Spec

-----------------------------------------------------------------------------
(* Pruning loses no good memory.                                           *)
(*                                                                         *)
(* Pieces that do not overlap start at different places, and a piece can   *)
(* only start where a segment starts or where a skip range ends.  That     *)
(* bounds the number of pieces, so that no list is cut short.              *)

FewSkips     == Len(skips) < WorkMax
LosesNothing == FewSkips /\ Len(window) + Len(skips) <= MapMax

Apart(list) == \A i, j \in 1..Len(list) : i # j => Disjoint(list[i], list[j])
PartOf(g, h) == h.start <= g.start /\ g.end <= h.end

(* Where a piece of the current segment, cut by the ranges before the k-th, *)
(* may start; where any piece may.                                          *)
StartsTo(g, k) == \/ g.start = vmMap[seg].start
                  \/ \E i \in 1..Len(skips) : i < k /\ g.start = skips[i].end
StartsSome(g)  == \/ \E n \in 1..Len(window) : g.start = window[n].start
                  \/ \E i \in 1..Len(skips) : g.start = skips[i].end

Kept(g, list) == \A p \in Addresses : Touches(p, g) => p \in Tested(list) \cup Covered(skips)

(* The last word of a piece is not lost when a skip range ends with it: a   *)
(* piece ends where its segment does, which is not at the end of a region,  *)
(* or in the first word of a range.                                         *)
EndsWell(g) == g.end % MBWords # 0 \/ g.end \in Covered(skips)

ICut ==
  phase = "cut" =>
    /\ seg \in 1..Len(vmMap) /\ skip \in 1..Len(skips) + 1
    /\ Apart(work) /\ Apart(newWork)
    /\ \A i \in 1..Len(work) :
         StartsTo(work[i], skip) /\ EndsWell(work[i]) /\ PartOf(work[i], vmMap[seg])
    /\ \A i \in 1..Len(newWork) :
         /\ StartsTo(newWork[i], skip + 1) /\ EndsWell(newWork[i])
         /\ \E m \in 1..Len(work) : m < piece /\ PartOf(newWork[i], work[m])
    /\ Kept(vmMap[seg], work)
    /\ \A m \in 1..Len(work) : m < piece => Kept(work[m], newWork)

IScratch ==
  phase \in {"load", "cut"} =>
    /\ Apart(scratch)
    /\ \A i \in 1..Len(scratch) :
         /\ StartsSome(scratch[i])
         /\ \E n \in 1..Len(vmMap) : n < seg /\ PartOf(scratch[i], vmMap[n])
    /\ \A n \in 1..Len(vmMap) : n < seg => Kept(vmMap[n], scratch)

IGood ==
  /\ phase \in {"window", "test"} => seg = 1
  /\ FewSkips => ICut /\ phase # "overrun"
  /\ LosesNothing => IScratch
  /\ GoodMemoryTested

(* A list of pieces that do not overlap is no longer than the list of      *)
(* their possible starts.                                                  *)
LEMMA FewPieces ==
  ASSUME NEW list \in Seq(Segments), Apart(list), NEW n \in Nat, NEW e \in [1..n -> Nat],
         \A i \in 1..Len(list) : \E k \in 1..n : list[i].start = e[k]
  PROVE  Len(list) <= n
<1> DEFINE L == Len(list)
           place(i) == CHOOSE k \in 1..n : list[i].start = e[k]
           f == [i \in 1..L |-> place(i)]
<1>1. L \in Nat /\ \A i \in 1..L : list[i] \in Segments
  BY ElementOfSeq, LenProperties
<1>2. \A i \in 1..L : f[i] \in 1..n /\ list[i].start = e[f[i]]
  <2>1. \A i \in 1..L : place(i) \in 1..n /\ list[i].start = e[place(i)]
    BY Zenon
  <2> HIDE DEF place
  <2> QED
    BY <2>1
<1>3. \A i, j \in 1..L : i # j => list[i].start # list[j].start
  <2>1. SUFFICES ASSUME NEW i \in 1..L, NEW j \in 1..L, i # j
                 PROVE  list[i].start # list[j].start
    OBVIOUS
  <2>2. Disjoint(list[i], list[j]) /\ list[i] \in Segments /\ list[j] \in Segments
    BY <1>1, <2>1 DEF Apart
  <2> QED
    BY <2>2, BoundsAssumption, SMTT(30) DEF Disjoint, Segments
<1>4. f \in [1..L -> 1..n]
  BY <1>2
<1> HIDE DEF f, L
<1>5. f \in Injection(1..L, 1..n)
  BY <1>2, <1>3, <1>4 DEF Injection, IsInjective
<1>6. IsFiniteSet(1..n) /\ Cardinality(1..n) = n /\ Cardinality(1..L) = L
  BY <1>1, FS_Interval
<1>7. Cardinality(1..L) <= Cardinality(1..n)
  BY <1>5, <1>6, FS_Injection
<1> QED
  BY <1>6, <1>7 DEF L

(* The pieces of the current segment, cut by the ranges before the k-th. *)
LEMMA FewInSegment ==
  ASSUME TypeOK, seg \in 1..Len(vmMap), NEW k \in 1..Len(skips) + 1,
         NEW list \in Seq(Segments), Apart(list),
         \A i \in 1..Len(list) : StartsTo(list[i], k)
  PROVE  Len(list) <= k
<1> DEFINE e == [m \in 1..k |-> IF m = k THEN vmMap[seg].start ELSE skips[m].end]
<1>1. Len(skips) \in Nat /\ Len(vmMap) \in Nat
  BY LenProperties DEF TypeOK
<1>2. vmMap[seg] \in Segments /\ \A i \in 1..Len(skips) : skips[i] \in Segments
  BY ElementOfSeq DEF TypeOK
<1>3. k \in Nat /\ e \in [1..k -> Nat]
  BY <1>1, <1>2, Sizes DEF Segments
<1>4. \A i \in 1..Len(list) : \E m \in 1..k : list[i].start = e[m]
  <2>1. SUFFICES ASSUME NEW i \in 1..Len(list) PROVE \E m \in 1..k : list[i].start = e[m]
    OBVIOUS
  <2>2. CASE list[i].start = vmMap[seg].start
    BY <1>1, <2>2
  <2>3. CASE \E m \in 1..Len(skips) : m < k /\ list[i].start = skips[m].end
    BY <1>1, <2>3
  <2> QED
    BY <2>2, <2>3 DEF StartsTo
<1> HIDE DEF e
<1> QED
  BY <1>3, <1>4, FewPieces

(* All the pieces of a window. *)
LEMMA FewInWindow ==
  ASSUME TypeOK, NEW list \in Seq(Segments), Apart(list),
         \A i \in 1..Len(list) : StartsSome(list[i])
  PROVE  Len(list) <= Len(window) + Len(skips)
<1> DEFINE N == Len(window)
           M == Len(skips)
           e == [m \in 1..N + M |-> IF m <= N THEN window[m].start ELSE skips[m - N].end]
<1>1. N \in Nat /\ M \in Nat /\ window \in Seq(Segments)
  BY LenProperties, WindowSegments DEF TypeOK
<1>2. /\ \A i \in 1..N : window[i] \in Segments
      /\ \A i \in 1..M : skips[i] \in Segments
  BY <1>1, ElementOfSeq DEF TypeOK
<1>3. N + M \in Nat /\ e \in [1..N + M -> Nat]
  BY <1>1, <1>2, Sizes DEF Segments
<1>4. \A i \in 1..Len(list) : \E m \in 1..N + M : list[i].start = e[m]
  <2>1. SUFFICES ASSUME NEW i \in 1..Len(list) PROVE \E m \in 1..N + M : list[i].start = e[m]
    OBVIOUS
  <2>2. CASE \E n \in 1..N : list[i].start = window[n].start
    BY <1>1, <2>2
  <2>3. CASE \E m \in 1..M : list[i].start = skips[m].end
    <3>1. PICK m \in 1..M : list[i].start = skips[m].end
      BY <2>3
    <3>2. N + m \in 1..N + M /\ e[N + m] = skips[m].end
      BY <1>1
    <3> QED
      BY <3>1, <3>2
  <2> QED
    BY <2>2, <2>3 DEF StartsSome
<1> HIDE DEF e, N, M
<1>5. Len(list) <= N + M
  BY <1>3, <1>4, FewPieces, ZenonT(30)
<1> QED
  BY <1>5 DEF N, M

(* A piece apart from those of a list can be appended to it. *)
LEMMA AppendApart ==
  ASSUME NEW list \in Seq(Segments), Apart(list), NEW r \in Segments,
         \A i \in 1..Len(list) : Disjoint(list[i], r),
         NEW new, new = Append(list, r)
  PROVE  /\ new \in Seq(Segments) /\ Len(new) = Len(list) + 1 /\ Apart(new)
         /\ \A i \in 1..Len(list) : new[i] = list[i]
         /\ new[Len(list) + 1] = r
         /\ \A i \in 1..Len(new) : i \in 1..Len(list) \/ i = Len(list) + 1
<1>1. Len(list) \in Nat /\ \A i \in 1..Len(list) : list[i] \in Segments
  BY ElementOfSeq, LenProperties
<1>2. /\ new \in Seq(Segments) /\ Len(new) = Len(list) + 1
      /\ \A i \in 1..Len(list) : new[i] = list[i]
      /\ new[Len(list) + 1] = r
  BY AppendProperties
<1>3. \A i \in 1..Len(list) : Disjoint(list[i], r) /\ Disjoint(r, list[i])
  BY <1>1, Sizes DEF Disjoint, Segments
<1>4. \A i \in 1..Len(new) : i \in 1..Len(list) \/ i = Len(list) + 1
  BY <1>1, <1>2
<1>5. Apart(new)
  BY <1>2, <1>3, <1>4 DEF Apart
<1> QED
  BY <1>2, <1>4, <1>5

(* What newWork holds when the first m - 1 pieces have been cut. *)
CutTo(list, m) ==
  /\ list \in Seq(Segments) /\ Apart(list)
  /\ \A i \in 1..Len(list) :
       /\ StartsTo(list[i], skip + 1) /\ EndsWell(list[i])
       /\ \E n \in 1..Len(work) : n < m /\ PartOf(list[i], work[n])

(* Part of the piece at hand is added to newWork, which has room for it. *)
LEMMA AddsPart ==
  ASSUME TypeOK, FewSkips, seg \in 1..Len(vmMap), skip \in 1..Len(skips),
         piece \in 1..Len(work), NEW list, CutTo(list, piece + 1),
         NEW r \in Segments, PartOf(r, work[piece]), StartsTo(r, skip + 1), EndsWell(r),
         \A i \in 1..Len(list) : Disjoint(list[i], r)
  PROVE  /\ Len(list) < WorkMax
         /\ AddPiece(list, <<r>>) = Append(list, r)
         /\ CutTo(Append(list, r), piece + 1)
         /\ Tested(list) \subseteq Tested(Append(list, r))
         /\ \A p \in Addresses : Touches(p, r) => p \in Tested(Append(list, r))
         /\ \A i \in 1..Len(Append(list, r)) :
              Append(list, r)[i] = r \/ \E n \in 1..Len(list) : Append(list, r)[i] = list[n]
<1> DEFINE new == Append(list, r)
<1>1. list \in Seq(Segments) /\ Apart(list)
  BY DEF CutTo
<1>2. /\ new \in Seq(Segments) /\ Len(new) = Len(list) + 1 /\ Apart(new)
      /\ \A i \in 1..Len(list) : new[i] = list[i]
      /\ new[Len(list) + 1] = r
      /\ \A i \in 1..Len(new) : i \in 1..Len(list) \/ i = Len(list) + 1
  BY <1>1, AppendApart
<1>3. Len(list) \in Nat /\ Len(skips) \in Nat /\ Len(work) \in Nat
  BY <1>1, LenProperties DEF TypeOK
<1> HIDE DEF new
<1>4. CutTo(new, piece + 1)
  <2>1. SUFFICES ASSUME NEW i \in 1..Len(new)
                 PROVE  /\ StartsTo(new[i], skip + 1) /\ EndsWell(new[i])
                        /\ \E n \in 1..Len(work) : n < piece + 1 /\ PartOf(new[i], work[n])
    BY <1>2 DEF CutTo
  <2>2. CASE i \in 1..Len(list)
    BY <1>2, <2>2 DEF CutTo
  <2>3. CASE i = Len(list) + 1
    <3>1. new[i] = r /\ piece < piece + 1
      BY <1>2, <1>3, <2>3
    <3> QED
      BY <3>1
  <2> QED
    BY <1>2, <2>2, <2>3
<1>5. Len(new) <= skip + 1
  <2>1. skip + 1 \in 1..Len(skips) + 1
    BY <1>3
  <2>2. \A i \in 1..Len(new) : StartsTo(new[i], skip + 1)
    BY <1>4 DEF CutTo
  <2> QED
    BY <1>2, <2>1, <2>2, FewInSegment
<1>6. Len(list) < WorkMax
  BY <1>2, <1>3, <1>5, BoundsAssumption DEF FewSkips
<1>7. AddPiece(list, <<r>>) = new
  BY <1>1, <1>6, AppendIsConcat DEF AddPiece, new
<1>8. Tested(list) \subseteq Tested(new) /\ \A p \in Addresses : Touches(p, r) => p \in Tested(new)
  <2>1. \A i \in 1..Len(list) : i \in 1..Len(new) /\ new[i] = list[i]
    BY <1>2, <1>3, SMTT(30)
  <2>2. Len(list) + 1 \in 1..Len(new) /\ new[Len(list) + 1] = r
    BY <1>2, <1>3
  <2> QED
    BY <2>1, <2>2 DEF Tested
<1>9. \A i \in 1..Len(new) : new[i] = r \/ \E n \in 1..Len(list) : new[i] = list[n]
  BY <1>2
<1> QED
  BY <1>4, <1>6, <1>7, <1>8, <1>9 DEF new

(* Nothing is added. *)
LEMMA AddsNothing ==
  ASSUME NEW S, NEW list \in Seq(S)
  PROVE  AddPiece(list, <<>>) = list
  BY ConcatEmptySeq DEF AddPiece

(* The remnants of a piece around a range that overlaps it: no word of the  *)
(* piece is lost, but its last one if the range ends there, and each starts *)
(* where the piece did or the range ends.                                   *)
LEMMA Remnants ==
  ASSUME NEW g \in Segments, NEW h \in Segments, ~Disjoint(g, h)
  PROVE  \E l \in Segments, r \in Segments :
           /\ LeftOf(g, h) = IF h.start > g.start THEN <<l>> ELSE <<>>
           /\ RightOf(g, h) = IF h.end < g.end THEN <<r>> ELSE <<>>
           /\ h.start > g.start => PartOf(l, g) /\ l.start = g.start /\ l.end = h.start
           /\ h.end < g.end => PartOf(r, g) /\ r.start = h.end /\ r.end = g.end
           /\ h.start > g.start /\ h.end < g.end => Disjoint(l, r)
           /\ \A p \in Addresses : Touches(p, g) =>
                \/ Within(p, h) \/ (p = g.end /\ h.end = g.end)
                \/ h.start > g.start /\ Touches(p, l)
                \/ h.end < g.end /\ Touches(p, r)
<1> DEFINE l == IF h.start > g.start THEN [start |-> g.start, end |-> h.start] ELSE g
           r == IF h.end < g.end THEN [start |-> h.end, end |-> g.end] ELSE g
<1>1. l \in Segments /\ r \in Segments
  BY Sizes DEF Segments
<1>2. /\ LeftOf(g, h) = IF h.start > g.start THEN <<l>> ELSE <<>>
      /\ RightOf(g, h) = IF h.end < g.end THEN <<r>> ELSE <<>>
  BY DEF LeftOf, RightOf
<1>3. /\ h.start > g.start => l.start = g.start /\ l.end = h.start
      /\ h.end < g.end => r.start = h.end /\ r.end = g.end
  OBVIOUS
<1> HIDE DEF l, r
<1>4. /\ h.start > g.start => PartOf(l, g)
      /\ h.end < g.end => PartOf(r, g)
      /\ h.start > g.start /\ h.end < g.end => Disjoint(l, r)
  BY <1>1, <1>3, Sizes DEF PartOf, Disjoint, Segments
<1>5. \A p \in Addresses : Touches(p, g) =>
           \/ Within(p, h) \/ (p = g.end /\ h.end = g.end)
           \/ h.start > g.start /\ Touches(p, l)
           \/ h.end < g.end /\ Touches(p, r)
  <2>1. /\ g.start \in Nat /\ g.end \in Nat /\ h.start \in Nat /\ h.end \in Nat
        /\ h.start < g.end /\ g.start < h.end
    BY Sizes DEF Disjoint, Segments
  <2>2. ASSUME NEW p \in Addresses, Touches(p, g)
        PROVE  \/ Within(p, h) \/ (p = g.end /\ h.end = g.end)
               \/ h.start > g.start /\ Touches(p, l)
               \/ h.end < g.end /\ Touches(p, r)
    <3>1. p \in Nat /\ g.start <= p /\ p <= g.end
      BY <2>2, Sizes DEF Touches, Addresses
    <3>2. CASE p < h.start
      BY <1>3, <2>1, <3>1, <3>2 DEF Touches
    <3>3. CASE h.start <= p /\ p < h.end
      BY <3>3 DEF Within
    <3>4. CASE h.end <= p
      BY <1>3, <2>1, <3>1, <3>4 DEF Touches
    <3>5. p < h.start \/ (h.start <= p /\ p < h.end) \/ h.end <= p
      BY <2>1, <3>1
    <3> QED
      BY <3>2, <3>3, <3>4, <3>5, Zenon
  <2> QED
    BY <2>2
<1> QED
  BY <1>1, <1>2, <1>3, <1>4, <1>5

(* Parts of pieces that do not overlap do not overlap. *)
LEMMA PartsDisjoint ==
  ASSUME NEW g \in Segments, NEW h \in Segments, Disjoint(g, h),
         NEW f \in Segments, PartOf(f, g), NEW r \in Segments, PartOf(r, h)
  PROVE  Disjoint(f, r)
  BY Sizes DEF PartOf, Disjoint, Segments

(* Cutting one piece keeps all of it that is not on the skip list. *)
LEMMA GoodCut ==
  ASSUME IMem, IGood, FewSkips, CutPiece
  PROVE  ICut' /\ phase' # "overrun"
<1> DEFINE g == work[piece]
           h == skips[skip]
<1>0. TypeOK
  BY DEF IMem, ITypes
<1>1. /\ phase = "cut" /\ ICut /\ piece' = piece + 1
      /\ skip \in 1..Len(skips) /\ piece \in 1..Len(work) /\ seg \in 1..Len(vmMap)
      /\ UNCHANGED <<skips, vmMap, seg, skip, work>>
  <2>1. Len(skips) \in Nat /\ Len(work) \in Nat
    BY <1>0, LenProperties DEF TypeOK
  <2> QED
    BY <1>0, <2>1 DEF CutPiece, Cutting, logVars, IGood, ICut, TypeOK
<1>2. /\ g \in Segments /\ h \in Segments /\ vmMap[seg] \in Segments
      /\ \A n \in 1..Len(work) : work[n] \in Segments
      /\ \A n \in 1..Len(newWork) : newWork[n] \in Segments
      /\ newWork \in Seq(Segments)
  BY <1>0, <1>1, ElementOfSeq DEF TypeOK
<1>3. CutTo(newWork, piece + 1) /\ \A n \in 1..Len(work) : n < piece => Kept(work[n], newWork)
  <2>1. \A n \in 1..Len(work) : n < piece => n < piece + 1
    BY <1>1
  <2>2. \A i \in 1..Len(newWork) :
          \E n \in 1..Len(work) : n < piece + 1 /\ PartOf(newWork[i], work[n])
    BY <1>1, <2>1 DEF ICut
  <2> HIDE DEF g, h
  <2> QED
    BY <1>1, <1>2, <2>2 DEF ICut, CutTo
<1>4. \A i \in 1..Len(newWork), r \in Segments : PartOf(r, g) => Disjoint(newWork[i], r)
  <2>1. SUFFICES ASSUME NEW i \in 1..Len(newWork), NEW r \in Segments, PartOf(r, g)
                 PROVE  Disjoint(newWork[i], r)
    OBVIOUS
  <2>2. PICK m \in 1..Len(work) : m < piece /\ PartOf(newWork[i], work[m])
    BY <1>1 DEF ICut
  <2>3. Disjoint(work[m], g) /\ work[m] \in Segments /\ newWork[i] \in Segments
    BY <1>1, <1>2, <2>2 DEF ICut, Apart
  <2> HIDE DEF g
  <2> QED
    BY <1>2, <2>1, <2>2, <2>3, PartsDisjoint
<1>5. StartsTo(g, skip + 1) /\ \A r : r.start = g.start \/ r.start = h.end => StartsTo(r, skip + 1)
  <2>1. StartsTo(g, skip)
    BY <1>1 DEF ICut
  <2>2. StartsTo(g, skip + 1)
    BY <1>1, <2>1 DEF StartsTo
  <2>3. skip < skip + 1
    BY <1>1
  <2> HIDE DEF g
  <2> QED
    BY <1>1, <2>2, <2>3 DEF StartsTo
<1>6. PartOf(g, g) /\ EndsWell(g)
  BY <1>1, <1>2, Sizes DEF PartOf, Segments, ICut
<1>7. phase' = "cut"
  <2>1. SUFFICES ASSUME Disjoint(g, h) PROVE Len(newWork) < WorkMax
    BY <1>1 DEF CutPiece
  <2> HIDE DEF g, h
  <2> QED
    BY <1>0, <1>1, <1>2, <1>3, <1>4, <1>5, <1>6, AddsPart DEF g
<1>8. SUFFICES /\ CutTo(newWork', piece + 1)
               /\ Tested(newWork) \subseteq Tested(newWork')
               /\ Kept(g, newWork')
  <2>1. /\ CutTo(newWork', piece + 1) /\ Tested(newWork) \subseteq Tested(newWork')
        /\ Kept(g, newWork')
        /\ \A n \in 1..Len(work) : n < piece + 1 => n < piece \/ n = piece
    BY <1>1, <1>8
  <2>2. \A n \in 1..Len(work) : n < piece + 1 => Kept(work[n], newWork')
    BY <1>3, <2>1 DEF Kept
  <2> QED
    BY <1>1, <1>7, <2>1, <2>2 DEF ICut, CutTo, Apart, StartsTo, EndsWell, Kept, Covered, Tested
<1>9. CASE Disjoint(g, h)
  <2>1. newWork' = Append(newWork, g)
    BY <1>7, <1>9, <1>1 DEF CutPiece
  <2> HIDE DEF g, h
  <2> QED
    BY <1>0, <1>1, <1>2, <1>3, <1>4, <1>5, <1>6, <2>1, AddsPart DEF g, Kept
<1>10. CASE ~Disjoint(g, h)
  <2>1. newWork' = AddPiece(AddPiece(newWork, LeftOf(g, h)), RightOf(g, h))
    BY <1>10 DEF CutPiece
  <2>2. PICK l \in Segments, r \in Segments :
           /\ LeftOf(g, h) = IF h.start > g.start THEN <<l>> ELSE <<>>
           /\ RightOf(g, h) = IF h.end < g.end THEN <<r>> ELSE <<>>
           /\ h.start > g.start => PartOf(l, g) /\ l.start = g.start /\ l.end = h.start
           /\ h.end < g.end => PartOf(r, g) /\ r.start = h.end /\ r.end = g.end
           /\ h.start > g.start /\ h.end < g.end => Disjoint(l, r)
           /\ \A p \in Addresses : Touches(p, g) =>
                \/ Within(p, h) \/ (p = g.end /\ h.end = g.end)
                \/ h.start > g.start /\ Touches(p, l)
                \/ h.end < g.end /\ Touches(p, r)
    BY <1>2, <1>10, Remnants
  <2>9. /\ \A p \in Addresses : Within(p, h) => p \in Covered(skips)
        /\ h.start \in Covered(skips)
        /\ h.end = g.end => g.end \in Covered(skips)
    <3>1. \A p \in Addresses : Within(p, h) => p \in Covered(skips)
      BY <1>1 DEF Covered
    <3>2. h.start \in Addresses /\ Within(h.start, h)
      <4> HIDE DEF h
      <4> QED
        BY <1>2, Sizes DEF Within, Segments, Addresses
    <3>3. h.end % MBWords = 0
      BY <1>1 DEF IMem, ISkips, Aligned
    <3>4. h.end = g.end => g.end \in Covered(skips)
      BY <1>6, <3>3 DEF EndsWell
    <3> QED
      BY <3>1, <3>2, <3>4
  <2>10. /\ h.start > g.start => EndsWell(l)
         /\ h.end < g.end => EndsWell(r)
    BY <1>6, <2>2, <2>9 DEF EndsWell
  <2> DEFINE mid == AddPiece(newWork, LeftOf(g, h))
  <2>3. /\ CutTo(mid, piece + 1) /\ Tested(newWork) \subseteq Tested(mid)
        /\ h.start > g.start => \A p \in Addresses : Touches(p, l) => p \in Tested(mid)
        /\ h.end < g.end => \A i \in 1..Len(mid) : Disjoint(mid[i], r)
    <3>1. CASE h.start > g.start
      <4>1. /\ PartOf(l, g) /\ StartsTo(l, skip + 1) /\ EndsWell(l)
            /\ mid = AddPiece(newWork, <<l>>)
        BY <1>5, <2>2, <2>10, <3>1
      <4>2. \A i \in 1..Len(newWork) : Disjoint(newWork[i], l)
        BY <1>4, <4>1
      <4> HIDE DEF mid
      <4> DEFINE new == Append(newWork, l)
      <4>3. /\ mid = new /\ CutTo(new, piece + 1) /\ Tested(newWork) \subseteq Tested(new)
            /\ \A p \in Addresses : Touches(p, l) => p \in Tested(new)
            /\ \A i \in 1..Len(new) : new[i] = l \/ \E n \in 1..Len(newWork) : new[i] = newWork[n]
        BY <1>0, <1>1, <1>3, <4>1, <4>2, AddsPart
      <4> HIDE DEF new
      <4>4. /\ CutTo(mid, piece + 1) /\ Tested(newWork) \subseteq Tested(mid)
            /\ \A p \in Addresses : Touches(p, l) => p \in Tested(mid)
            /\ \A i \in 1..Len(mid) : mid[i] = l \/ \E n \in 1..Len(newWork) : mid[i] = newWork[n]
        BY <4>3
      <4>5. h.end < g.end => \A i \in 1..Len(mid) : Disjoint(mid[i], r)
        BY <1>4, <2>2, <3>1, <4>4
      <4> QED
        BY <4>4, <4>5
    <3>2. CASE ~(h.start > g.start)
      <4>1. mid = newWork
        BY <1>2, <2>2, <3>2, AddsNothing
      <4> HIDE DEF mid
      <4> QED
        BY <1>3, <1>4, <2>2, <3>2, <4>1
    <3> QED
      BY <3>1, <3>2
  <2>4. newWork' = AddPiece(mid, RightOf(g, h)) /\ mid \in Seq(Segments)
    BY <2>1, <2>3 DEF CutTo
  <2> HIDE DEF mid
  <2>5. /\ CutTo(newWork', piece + 1) /\ Tested(mid) \subseteq Tested(newWork')
        /\ h.end < g.end => \A p \in Addresses : Touches(p, r) => p \in Tested(newWork')
    <3>1. CASE h.end < g.end
      <4>1. /\ PartOf(r, g) /\ StartsTo(r, skip + 1) /\ EndsWell(r)
            /\ newWork' = AddPiece(mid, <<r>>)
        BY <1>5, <2>2, <2>4, <2>10, <3>1
      <4>2. newWork' = Append(mid, r)
        BY <1>0, <1>1, <2>3, <3>1, <4>1, AddsPart
      <4> QED
        BY <1>0, <1>1, <2>3, <3>1, <4>1, <4>2, AddsPart
    <3>2. CASE ~(h.end < g.end)
      <4>1. newWork' = mid
        BY <2>2, <2>4, <3>2, AddsNothing
      <4> QED
        BY <2>3, <3>2, <4>1
    <3> QED
      BY <3>1, <3>2
  <2> HIDE DEF g, h
  <2>7. Kept(g, newWork')
    BY <2>2, <2>3, <2>5, <2>9 DEF Kept
  <2> QED
    BY <2>3, <2>5, <2>7
<1> QED
  BY <1>9, <1>10

(* What the pieces are cut from is the window. *)
LEMMA WindowFacts ==
  ASSUME IMem, phase \in {"load", "cut"}
  PROVE  /\ TypeOK /\ vmMap = window /\ vmMap \in Seq(Segments)
         /\ Len(vmMap) \in Nat /\ Len(skips) \in Nat /\ Len(work) \in Nat /\ Len(scratch) \in Nat
         /\ \A n \in 1..Len(vmMap) : vmMap[n] \in Segments /\ vmMap[n].end % MBWords # 0
         /\ \A m, n \in 1..Len(vmMap) : m < n => Disjoint(vmMap[m], vmMap[n])
<1>1. TypeOK /\ vmMap = window
  BY DEF IMem, ITypes, IPruned
<1>2. /\ vmMap \in Seq(Segments)
      /\ vmMap = <<>> \/ \E w \in Windows : vmMap = w.segs
  BY <1>1 DEF TypeOK, Maps
<1>3. \A n \in 1..Len(vmMap) : vmMap[n] \in Segments
  BY <1>2, ElementOfSeq
<1>4. /\ \A m, n \in 1..Len(vmMap) : m < n => vmMap[m].end < vmMap[n].start
      /\ \A n \in 1..Len(vmMap) : vmMap[n].end % MBWords # 0
  <2>1. CASE vmMap = <<>>
    BY <2>1
  <2>2. CASE \E w \in Windows : vmMap = w.segs
    BY <2>2, DataAssumption
  <2> QED
    BY <1>2, <2>1, <2>2
<1>5. \A m, n \in 1..Len(vmMap) : m < n => Disjoint(vmMap[m], vmMap[n])
  BY <1>3, <1>4, Sizes DEF Disjoint, Segments
<1> QED
  BY <1>1, <1>2, <1>3, <1>4, <1>5, LenProperties DEF TypeOK

(* A piece is kept by a list of that piece, and by one that keeps the parts *)
(* it was cut into.                                                         *)
LEMMA GoodLoad ==
  ASSUME IMem, IGood, FewSkips, LoadSegment
  PROVE  ICut'
<1>1. /\ phase = "load" /\ phase' = "cut" /\ seg \in 1..Len(vmMap) /\ skip' = 1 /\ piece' = 1
      /\ work' = <<vmMap[seg]>> /\ newWork' = <<>>
      /\ UNCHANGED <<skips, window, vmMap, seg>>
  BY WindowFacts DEF LoadSegment, logVars, TypeOK
<1>2. vmMap[seg] \in Segments /\ Len(skips) \in Nat
  BY <1>1, WindowFacts
<1> DEFINE g == vmMap[seg]
<1>3. Len(work') = 1 /\ work'[1] = g
  BY <1>1
<1>4. PartOf(g, g) /\ StartsTo(g, 1) /\ EndsWell(g)
  BY <1>1, <1>2, WindowFacts, Sizes DEF PartOf, StartsTo, EndsWell, Segments
<1>5. Apart(work') /\ Apart(newWork')
  BY <1>1, <1>3 DEF Apart
<1>6. Kept(g, work')
  BY <1>3 DEF Kept, Tested
<1>7. 1 \in 1..Len(skips) + 1
  BY <1>2
<1>8. \A i \in 1..Len(work') : StartsTo(work'[i], 1) /\ EndsWell(work'[i]) /\ PartOf(work'[i], g)
  BY <1>3, <1>4
<1>9. \A i \in 1..Len(newWork') : FALSE
  BY <1>1
<1>10. \A m \in 1..Len(work') : ~(m < 1)
  BY <1>3
<1> QED
  BY <1>1, <1>5, <1>6, <1>7, <1>8, <1>9, <1>10 DEF ICut, Apart, StartsTo, EndsWell, Kept, Covered, Tested

(* A part of a part is a part. *)
LEMMA PartOfPart ==
  ASSUME NEW f \in Segments, NEW g \in Segments, NEW h \in Segments, PartOf(f, g), PartOf(g, h)
  PROVE  PartOf(f, h)
  BY Sizes DEF PartOf, Segments

(* The ranges before the next one have been cut out of every piece. *)
LEMMA GoodNextSkip ==
  ASSUME IMem, IGood, FewSkips, NextSkip
  PROVE  ICut'
<1>1. /\ phase = "cut" /\ phase' = "cut" /\ ICut /\ skip <= Len(skips)
      /\ piece > Len(work) /\ skip' = skip + 1 /\ piece' = 1
      /\ work' = newWork /\ newWork' = <<>>
      /\ UNCHANGED <<skips, window, vmMap, seg>>
  BY DEF NextSkip, Cutting, logVars, IGood
<1>2. /\ \A n \in 1..Len(work) : work[n] \in Segments
      /\ \A n \in 1..Len(newWork) : newWork[n] \in Segments
      /\ newWork \in Seq(Segments)
  BY <1>1, WindowFacts, ElementOfSeq DEF TypeOK
<1>3. \A m \in 1..Len(work) : m < piece
  BY <1>1, WindowFacts DEF TypeOK
<1>4. seg \in 1..Len(vmMap) /\ vmMap[seg] \in Segments /\ skip + 1 \in 1..Len(skips) + 1
  BY <1>1, WindowFacts DEF ICut
<1>5. \A i \in 1..Len(newWork) : PartOf(newWork[i], vmMap[seg])
  <2>1. SUFFICES ASSUME NEW i \in 1..Len(newWork) PROVE PartOf(newWork[i], vmMap[seg])
    OBVIOUS
  <2>2. PICK m \in 1..Len(work) : PartOf(newWork[i], work[m])
    BY <1>1 DEF ICut
  <2>3. PartOf(work[m], vmMap[seg])
    BY <1>1 DEF ICut
  <2> QED
    BY <1>2, <1>4, <2>2, <2>3, PartOfPart
<1>6. Kept(vmMap[seg], newWork)
  <2>1. Kept(vmMap[seg], work) /\ \A m \in 1..Len(work) : Kept(work[m], newWork)
    BY <1>1, <1>3 DEF ICut
  <2>2. \A p \in Tested(work) : \E m \in 1..Len(work) : Touches(p, work[m])
    BY DEF Tested
  <2> QED
    BY <2>1, <2>2 DEF Kept
<1>7. Apart(newWork) /\ \A i \in 1..Len(newWork) : StartsTo(newWork[i], skip + 1) /\ EndsWell(newWork[i])
  BY <1>1 DEF ICut
<1>8. /\ \A i \in 1..Len(newWork') : FALSE
      /\ \A m \in 1..Len(newWork) : ~(m < 1)
  BY <1>1, <1>2, LenProperties
<1> QED
  BY <1>1, <1>4, <1>5, <1>6, <1>7, <1>8 DEF ICut, Apart, StartsTo, EndsWell, Kept, Covered, Tested

(* The pieces of a segment join those of the earlier ones; none is dropped. *)
LEMMA GoodEmit ==
  ASSUME IMem, IGood, LosesNothing, EmitPieces
  PROVE  IScratch'
<1>1. /\ phase = "cut" /\ phase' = "load" /\ ICut /\ IScratch /\ seg' = seg + 1
      /\ scratch' = scratch \o SubSeq(work, 1, Lower(Len(work), 2 * MapMax - Len(scratch)))
      /\ UNCHANGED <<skips, window, vmMap>>
  BY DEF EmitPieces, logVars, IGood, LosesNothing
<1>2. /\ TypeOK /\ work \in Seq(Segments) /\ scratch \in Seq(Segments)
      /\ Len(work) \in Nat /\ Len(scratch) \in Nat /\ Len(window) \in Nat
      /\ \A n \in 1..Len(work) : work[n] \in Segments
      /\ \A n \in 1..Len(scratch) : scratch[n] \in Segments
      /\ \A n \in 1..Len(vmMap) : vmMap[n] \in Segments
      /\ seg \in 1..Len(vmMap) /\ vmMap = window /\ Len(skips) \in Nat
  BY <1>1, WindowFacts, ElementOfSeq DEF TypeOK, ICut
<1> DEFINE new == scratch \o work
<1>3. /\ new \in Seq(Segments) /\ Len(new) = Len(scratch) + Len(work)
      /\ \A i \in 1..Len(scratch) + Len(work) :
           new[i] = IF i <= Len(scratch) THEN scratch[i] ELSE work[i - Len(scratch)]
  BY <1>2, ConcatProperties
<1> HIDE DEF new
<1>4. /\ \A i \in 1..Len(scratch) : i \in 1..Len(new) /\ new[i] = scratch[i]
      /\ \A i \in 1..Len(work) : Len(scratch) + i \in 1..Len(new) /\ new[Len(scratch) + i] = work[i]
      /\ \A i \in 1..Len(new) :
           \/ i \in 1..Len(scratch) /\ new[i] = scratch[i]
           \/ i - Len(scratch) \in 1..Len(work) /\ new[i] = work[i - Len(scratch)]
  <2>1. \A i \in 1..Len(scratch) : i \in 1..Len(new) /\ new[i] = scratch[i]
    BY <1>2, <1>3
  <2>2. \A i \in 1..Len(work) : Len(scratch) + i \in 1..Len(new) /\ new[Len(scratch) + i] = work[i]
    <3>1. SUFFICES ASSUME NEW i \in 1..Len(work)
                   PROVE  Len(scratch) + i \in 1..Len(new) /\ new[Len(scratch) + i] = work[i]
      OBVIOUS
    <3>2. /\ Len(scratch) + i \in 1..Len(scratch) + Len(work) /\ ~(Len(scratch) + i <= Len(scratch))
          /\ (Len(scratch) + i) - Len(scratch) = i
      BY <1>2
    <3> QED
      BY <1>3, <3>2
  <2>3. \A i \in 1..Len(new) :
           \/ i \in 1..Len(scratch) /\ new[i] = scratch[i]
           \/ i - Len(scratch) \in 1..Len(work) /\ new[i] = work[i - Len(scratch)]
    BY <1>2, <1>3
  <2> QED
    BY <2>1, <2>2, <2>3
<1>5. \A i \in 1..Len(scratch), j \in 1..Len(work) :
        Disjoint(scratch[i], work[j]) /\ Disjoint(work[j], scratch[i])
  <2>1. SUFFICES ASSUME NEW i \in 1..Len(scratch), NEW j \in 1..Len(work)
                 PROVE  Disjoint(scratch[i], work[j]) /\ Disjoint(work[j], scratch[i])
    OBVIOUS
  <2>2. PICK n \in 1..Len(vmMap) : n < seg /\ PartOf(scratch[i], vmMap[n])
    BY <1>1 DEF IScratch
  <2>3. PartOf(work[j], vmMap[seg]) /\ Disjoint(vmMap[n], vmMap[seg])
    BY <1>1, <1>2, <2>2, WindowFacts DEF ICut
  <2>4. Disjoint(scratch[i], work[j])
    BY <1>2, <2>2, <2>3, PartsDisjoint
  <2>5. scratch[i] \in Segments /\ work[j] \in Segments
    BY <1>2
  <2> QED
    BY <2>4, <2>5, BoundsAssumption DEF Disjoint, Segments
<1>6. Apart(new)
  <2>1. SUFFICES ASSUME NEW i \in 1..Len(new), NEW j \in 1..Len(new), i # j
                 PROVE  Disjoint(new[i], new[j])
    BY DEF Apart
  <2>2. CASE i \in 1..Len(scratch) /\ j \in 1..Len(scratch)
    BY <1>1, <1>4, <2>1, <2>2 DEF IScratch, Apart
  <2>3. CASE i - Len(scratch) \in 1..Len(work) /\ j - Len(scratch) \in 1..Len(work)
    <3>1. i - Len(scratch) # j - Len(scratch)
      BY <1>2, <1>3, <2>1
    <3>2. new[i] = work[i - Len(scratch)] /\ new[j] = work[j - Len(scratch)]
      BY <1>2, <1>4, <2>3
    <3> QED
      BY <1>1, <2>3, <3>1, <3>2 DEF ICut, Apart
  <2> QED
    BY <1>4, <1>5, <2>1, <2>2, <2>3
<1>7. \A i \in 1..Len(new) :
        /\ StartsSome(new[i])
        /\ \E n \in 1..Len(vmMap) : n < seg + 1 /\ PartOf(new[i], vmMap[n])
  <2>1. SUFFICES ASSUME NEW i \in 1..Len(new)
                 PROVE  /\ StartsSome(new[i])
                        /\ \E n \in 1..Len(vmMap) : n < seg + 1 /\ PartOf(new[i], vmMap[n])
    OBVIOUS
  <2>2. CASE i \in 1..Len(scratch) /\ new[i] = scratch[i]
    <3>1. \A n \in 1..Len(vmMap) : n < seg => n < seg + 1
      BY <1>2
    <3> QED
      BY <1>1, <2>2, <3>1 DEF IScratch
  <2>3. CASE i - Len(scratch) \in 1..Len(work) /\ new[i] = work[i - Len(scratch)]
    <3>1. StartsTo(new[i], skip) /\ PartOf(new[i], vmMap[seg]) /\ seg < seg + 1
      BY <1>1, <1>2, <2>3, SMTT(30) DEF ICut
    <3> QED
      BY <1>2, <3>1 DEF StartsTo, StartsSome
  <2> QED
    BY <1>4, <2>2, <2>3
<1>8. scratch' = new
  <2>1. Len(scratch) + Len(work) <= MapMax
    <3>1. Len(new) <= Len(window) + Len(skips)
      BY <1>2, <1>3, <1>6, <1>7, FewInWindow
    <3> QED
      BY <1>2, <1>3, <3>1, BoundsAssumption DEF LosesNothing, FewSkips
  <2>2. Lower(Len(work), 2 * MapMax - Len(scratch)) = Len(work)
    BY <1>2, <2>1, BoundsAssumption DEF Lower
  <2>3. SubSeq(work, 1, Len(work)) = work
    <3>1. /\ SubSeq(work, 1, Len(work)) \in Seq(Segments)
          /\ Len(SubSeq(work, 1, Len(work))) = Len(work)
          /\ \A j \in 1..Len(work) : SubSeq(work, 1, Len(work))[j] = work[j]
      BY <1>2, Prefix
    <3> QED
      BY <1>2, <3>1, SeqEqual
  <2> QED
    BY <1>1, <2>2, <2>3 DEF new
<1>9. Tested(scratch) \cup Tested(work) \subseteq Tested(new)
  BY <1>4 DEF Tested
<1>10. \A n \in 1..Len(vmMap) : n < seg + 1 => Kept(vmMap[n], new)
  <2>1. \A n \in 1..Len(vmMap) : n < seg + 1 => n < seg \/ n = seg
    BY <1>2
  <2>2. Kept(vmMap[seg], work) /\ \A n \in 1..Len(vmMap) : n < seg => Kept(vmMap[n], scratch)
    BY <1>1 DEF ICut, IScratch
  <2> QED
    BY <1>9, <2>1, <2>2 DEF Kept
<1> QED
  BY <1>1, <1>6, <1>7, <1>8, <1>10 DEF IScratch, Apart, StartsSome, Kept, Covered, Tested

(* The map is what the segments were cut into. *)
LEMMA GoodReplace ==
  ASSUME IMem, IGood, LosesNothing, ReplaceMap
  PROVE  Tested(window) \subseteq Tested(vmMap') \cup Covered(skips)
<1>1. /\ phase = "load" /\ IScratch /\ seg > Len(vmMap)
      /\ vmMap' = SubSeq(scratch, 1, Lower(Len(scratch), MapMax))
  BY DEF ReplaceMap, IGood
<1>2. /\ TypeOK /\ scratch \in Seq(Segments) /\ Len(scratch) \in Nat /\ Len(vmMap) \in Nat
      /\ vmMap = window /\ Len(skips) \in Nat /\ seg \in Nat
  BY <1>1, WindowFacts DEF TypeOK
<1>3. Len(scratch) <= MapMax
  <2>1. Len(scratch) <= Len(window) + Len(skips)
    BY <1>1, <1>2, FewInWindow DEF IScratch
  <2> QED
    BY <1>2, <2>1, BoundsAssumption DEF LosesNothing, FewSkips
<1>4. vmMap' = scratch
  <2>1. Lower(Len(scratch), MapMax) = Len(scratch)
    BY <1>2, <1>3, BoundsAssumption DEF Lower
  <2>2. /\ SubSeq(scratch, 1, Len(scratch)) \in Seq(Segments)
        /\ Len(SubSeq(scratch, 1, Len(scratch))) = Len(scratch)
        /\ \A j \in 1..Len(scratch) : SubSeq(scratch, 1, Len(scratch))[j] = scratch[j]
    BY <1>2, Prefix
  <2>3. SubSeq(scratch, 1, Len(scratch)) = scratch
    BY <1>2, <2>2, SeqEqual
  <2> QED
    BY <1>1, <2>1, <2>3
<1>5. \A n \in 1..Len(vmMap) : Kept(vmMap[n], scratch)
  BY <1>1, <1>2 DEF IScratch
<1> QED
  BY <1>2, <1>4, <1>5 DEF Kept, Tested

-----------------------------------------------------------------------------
(* A report only adds to the skip list. *)
LEMMA SkipsGrow ==
  ASSUME TypeOK, NEW p \in BadWords, Report(p)
  PROVE  Covered(skips) \subseteq Covered(skips') /\ Len(skips) <= Len(skips')
<1> DEFINE g == Region(Address(p))
<1>1. /\ g \in Segments /\ skips \in Seq(Segments) /\ Len(skips) \in Nat
      /\ \A i \in 1..Len(skips) : skips[i] \in Segments
  BY AddressBounds, RegionBounds, DataAssumption, LenProperties, ElementOfSeq DEF TypeOK
<1>2. skips' = skips \/ skips' = AddSkip(g)
  BY DEF Report
<1> HIDE DEF g
<1>3. CASE skips' = skips
  BY <1>1, <1>3
<1>4. CASE skips' = Append(skips, g)
  <2>1. /\ Len(skips') = Len(skips) + 1
        /\ \A i \in 1..Len(skips) : i \in 1..Len(skips') /\ skips'[i] = skips[i]
    BY <1>1, <1>4, AppendProperties
  <2> QED
    BY <1>1, <2>1 DEF Covered
<1>5. ASSUME NEW j \in 1..Len(skips),
             skips' = [skips EXCEPT ![j] = [start |-> Lower(g.start, skips[j].start),
                                            end   |-> Upper(g.end, skips[j].end)]]
      PROVE  Covered(skips) \subseteq Covered(skips') /\ Len(skips) <= Len(skips')
  <2> DEFINE e == [start |-> Lower(g.start, skips[j].start), end |-> Upper(g.end, skips[j].end)]
  <2>1. \A q \in Addresses : Within(q, skips[j]) => Within(q, e)
    BY <1>1, Sizes, SMTT(30) DEF Within, Segments, Addresses, Lower, Upper
  <2>2. e \in Segments
    BY <1>1, GrownSegment
  <2>3. skips' = [skips EXCEPT ![j] = e]
    BY <1>5
  <2> HIDE DEF e
  <2>4. /\ Len(skips') = Len(skips) /\ skips'[j] = e
        /\ \A i \in 1..Len(skips) : i # j => skips'[i] = skips[i]
    BY <1>1, <2>2, <2>3, ExceptSeq
  <2>5. \A q \in Addresses, i \in 1..Len(skips) : Within(q, skips[i]) => Within(q, skips'[i])
    BY <2>1, <2>4
  <2> QED
    BY <1>1, <2>4, <2>5 DEF Covered
<1>6. \/ AddSkip(g) = skips \/ AddSkip(g) = Append(skips, g)
      \/ \E j \in 1..Len(skips) :
           AddSkip(g) = [skips EXCEPT ![j] = [start |-> Lower(g.start, skips[j].start),
                                              end   |-> Upper(g.end, skips[j].end)]]
  BY <1>1, AddSkipCases
<1> QED
  BY <1>2, <1>3, <1>4, <1>5, <1>6

(* It holds at the start. *)
LEMMA GoodInit == Init => IGood
  BY DEF Init, IGood, ICut, IScratch, GoodMemoryTested

(* Every step of the pruning loop keeps IGood. *)
LEMMA GoodPrune ==
  ASSUME IMem, IGood, Prune
  PROVE  IGood'
<1>1. /\ UNCHANGED <<skips, window>> /\ phase \in {"load", "cut"}
      /\ LosesNothing' = LosesNothing /\ FewSkips' = FewSkips
  BY DEF Prune, LoadSegment, CutPiece, Cutting, NextSkip, EmitPieces, ReplaceMap, logVars, LosesNothing,
         FewSkips
<1>2. CASE LoadSegment
  <2>1. phase = "load" /\ phase' = "cut" /\ UNCHANGED <<scratch, vmMap, seg>>
    BY <1>2 DEF LoadSegment
  <2>2. IScratch => IScratch'
    BY <1>1, <2>1 DEF IScratch, Apart, StartsSome, Kept, Covered, Tested
  <2> QED
    BY <1>1, <1>2, <2>1, <2>2, GoodLoad DEF IGood, LosesNothing, GoodMemoryTested
<1>3. CASE CutPiece
  <2>1. phase = "cut" /\ phase' \in {"cut", "overrun"} /\ UNCHANGED <<scratch, vmMap, seg>>
    BY <1>3 DEF CutPiece, Cutting
  <2>2. IScratch => IScratch'
    BY <1>1, <2>1 DEF IScratch, Apart, StartsSome, Kept, Covered, Tested
  <2> QED
    BY <1>1, <1>3, <2>1, <2>2, GoodCut DEF IGood, GoodMemoryTested
<1>4. CASE NextSkip
  <2>1. phase = "cut" /\ phase' = "cut" /\ UNCHANGED <<scratch, vmMap, seg>>
    BY <1>4 DEF NextSkip, Cutting
  <2>2. IScratch => IScratch'
    BY <1>1, <2>1 DEF IScratch, Apart, StartsSome, Kept, Covered, Tested
  <2> QED
    BY <1>1, <1>4, <2>1, <2>2, GoodNextSkip DEF IGood, GoodMemoryTested
<1>5. CASE EmitPieces
  <2>1. phase' = "load"
    BY <1>5 DEF EmitPieces
  <2> QED
    BY <1>1, <1>5, <2>1, GoodEmit DEF IGood, ICut, GoodMemoryTested
<1>6. CASE ReplaceMap
  <2>1. phase' = "test" /\ seg' = 1
    BY <1>6 DEF ReplaceMap
  <2>2. LosesNothing => Tested(window') \subseteq Tested(vmMap') \cup Covered(skips')
    BY <1>1, <1>6, GoodReplace
  <2>3. LosesNothing' => Tested(window)' \subseteq Tested(vmMap)' \cup Covered(skips)'
    BY <1>1, <2>2 DEF Covered, Tested
  <2> QED
    BY <2>1, <2>3 DEF IGood, ICut, IScratch, GoodMemoryTested, LosesNothing, FewSkips
<1> QED
  BY <1>2, <1>3, <1>4, <1>5, <1>6 DEF Prune

LEMMA GoodStep == IMem /\ IGood /\ [Next]_vars => IGood'
<1> SUFFICES ASSUME IMem, IGood, [Next]_vars PROVE IGood'
  OBVIOUS
<1>1. TypeOK
  BY DEF IMem, ITypes
<1>2. CASE SetupWindow
  <2>1. /\ phase = "window" /\ vmMap' = window' /\ phase' \in {"test", "load"}
        /\ seg' = 1 /\ scratch' = <<>>
    BY <1>2 DEF SetupWindow, pruneVars, IGood, IMem, IPruned
  <2>2. IScratch'
    BY <2>1 DEF IScratch, Apart
  <2>3. GoodMemoryTested' /\ ICut'
    BY <2>1 DEF GoodMemoryTested, ICut, Tested
  <2> QED
    BY <2>1, <2>2, <2>3 DEF IGood
<1>3. CASE Prune
  BY <1>3, GoodPrune
<1>4. CASE \E p \in BadWords : Report(p)
  <2>1. PICK p \in BadWords : Report(p)
    BY <1>4
  <2>2. /\ phase = "test" /\ phase' = "test" /\ UNCHANGED <<window, vmMap, seg>>
    BY <2>1 DEF Report, pruneVars
  <2>3. Covered(skips) \subseteq Covered(skips') /\ Len(skips) <= Len(skips')
    BY <1>1, <2>1, SkipsGrow
  <2>4. Len(skips) \in Nat /\ Len(skips') \in Nat /\ Len(window) \in Nat
    <3>1. TypeOK'
      BY <1>4, TypesStep DEF IMem, ITypes, Next
    <3>2. window \in Seq(Segments)
      BY <1>1, WindowSegments
    <3> QED
      BY <1>1, <3>1, <3>2, LenProperties DEF TypeOK
  <2>5. LosesNothing' => LosesNothing
    BY <2>2, <2>3, <2>4, BoundsAssumption DEF LosesNothing, FewSkips
  <2>6. GoodMemoryTested'
    <3>1. LosesNothing => Tested(window) \subseteq Tested(vmMap) \cup Covered(skips)
      BY <2>2 DEF IGood, GoodMemoryTested, LosesNothing, FewSkips
    <3> QED
      BY <2>2, <2>3, <2>5, <3>1 DEF GoodMemoryTested, LosesNothing, FewSkips, Covered, Tested
  <2> QED
    BY <2>2, <2>6 DEF IGood, ICut, IScratch
<1>5. CASE EndWindow
  BY <1>5 DEF EndWindow, pruneVars, IGood, ICut, IScratch, GoodMemoryTested
<1>6. CASE EndPass \/ RecordRow \/ RecordChip \/ NextPage \/ Halt
  <2>1. phase' \in {"decode", "chips", "halted"}
    BY <1>6 DEF EndPass, RecordRow, RecordChip, NextPage, Halt
  <2> QED
    BY <2>1 DEF IGood, ICut, IScratch, GoodMemoryTested
<1>7. CASE UNCHANGED vars
  BY <1>7 DEF vars, logVars, pruneVars, tables, IGood, ICut, IScratch, GoodMemoryTested,
       LosesNothing, FewSkips, Apart, StartsTo, StartsSome, EndsWell, Kept, Covered, Tested
<1> QED
  BY <1>2, <1>3, <1>4, <1>5, <1>6, <1>7 DEF Next

(* With fewer skips than the work list has room for, and a map with room   *)
(* for every segment and every cut, every address of the window is tested  *)
(* or on the skip list: board_prune_vm_map drops no piece and no word at    *)
(* the end of one, whatever the skips are.                                  *)
THEOREM NoGoodMemoryLost == Spec => []GoodMemoryTested
<1>1. IGood => GoodMemoryTested
  BY DEF IGood
<1> QED
  BY <1>1, GoodInit, GoodStep, MemInvariant, PTL DEF Spec

(* The work list of the remnants overflows, and memory behind it is         *)
(* overwritten, only with at least as many skip ranges as it has entries,   *)
(* however many segments the window has and whatever the ranges are.        *)
OverrunNeedsSkips == phase = "overrun" => Len(skips) >= WorkMax

THEOREM OverrunWithManySkips == Spec => []OverrunNeedsSkips
<1>1. TypeOK /\ IGood => OverrunNeedsSkips
  <2> SUFFICES ASSUME TypeOK, IGood, phase = "overrun" PROVE Len(skips) >= WorkMax
    BY DEF OverrunNeedsSkips
  <2>1. ~(Len(skips) < WorkMax)
    BY DEF IGood, FewSkips
  <2>2. Len(skips) \in Nat /\ WorkMax \in Nat
    BY LenProperties, BoundsAssumption DEF TypeOK
  <2> QED
    BY <2>1, <2>2
<1>2. IMem => TypeOK
  BY DEF IMem, ITypes
<1> QED
  BY <1>1, <1>2, GoodInit, GoodStep, MemInvariant, PTL DEF Spec
-----------------------------------------------------------------------------
(* Where board_prune_vm_map's three nested loops stand, outermost first.    *)
Position == IF phase = "load" THEN <<seg, 0, 0, 0>> ELSE <<seg, 1, skip, piece>>
EarlierThan(s, t) ==
  \/ s[1] < t[1]
  \/ s[1] = t[1] /\ s[2] < t[2]
  \/ s[1] = t[1] /\ s[2] = t[2] /\ s[3] < t[3]
  \/ s[1] = t[1] /\ s[2] = t[2] /\ s[3] = t[3] /\ s[4] < t[4]

(* No index runs further than one past the list it walks.                   *)
PositionBounded ==
  /\ phase = "load" => seg <= Len(vmMap) + 1
  /\ phase = "cut" => /\ seg <= Len(vmMap) /\ skip <= Len(skips) + 1
                      /\ piece <= Len(work) + 1

(* Pruning only goes forward, in lists that stay as they are until it ends: *)
(* a loop of the three that is started again belongs to a later round of    *)
(* the loop around it.                                                      *)
Forward ==
  phase \in {"load", "cut"} =>
    \/ phase' \in {"test", "overrun"}
    \/ /\ phase' \in {"load", "cut"} /\ UNCHANGED <<vmMap, skips>>
       /\ EarlierThan(Position, Position')
PruningAdvances == [][Forward]_vars

IPosition == PositionBounded /\ (phase \in {"window", "test"} => seg = 1)

LEMMA PositionStep == ITypes /\ IPosition /\ [Next]_vars => IPosition'
<1> SUFFICES ASSUME ITypes, IPosition, [Next]_vars PROVE IPosition'
  OBVIOUS
<1>1. /\ seg \in Nat /\ skip \in Nat /\ piece \in Nat
      /\ Len(vmMap) \in Nat /\ Len(skips) \in Nat /\ Len(work) \in Nat /\ Len(newWork) \in Nat
  BY LenProperties DEF ITypes, TypeOK
<1>2. CASE SetupWindow
  <2>1. seg = 1 /\ seg' = 1 /\ phase' \in {"test", "load"}
    BY <1>2 DEF SetupWindow, pruneVars, IPosition
  <2>2. Len(vmMap') \in Nat
    <3>1. ITypes'
      BY TypesStep
    <3> QED
      BY <3>1, LenProperties DEF ITypes, TypeOK
  <2> QED
    BY <2>1, <2>2 DEF IPosition, PositionBounded
<1>3. CASE LoadSegment
  <2>1. Len(work') = 1
    BY <1>3 DEF LoadSegment
  <2> QED
    BY <1>1, <1>3, <2>1 DEF LoadSegment, logVars, IPosition, PositionBounded
<1>4. CASE CutPiece
  BY <1>1, <1>4 DEF CutPiece, Cutting, logVars, IPosition, PositionBounded
<1>5. CASE NextSkip
  BY <1>1, <1>5 DEF NextSkip, Cutting, logVars, IPosition, PositionBounded
<1>6. CASE EmitPieces
  BY <1>1, <1>6 DEF EmitPieces, IPosition, PositionBounded
<1>7. CASE ReplaceMap
  BY <1>7 DEF ReplaceMap, IPosition, PositionBounded
<1>8. CASE \E p \in BadWords : Report(p)
  BY <1>8 DEF Report, pruneVars, IPosition, PositionBounded
<1>9. CASE EndWindow
  BY <1>9 DEF EndWindow, pruneVars, IPosition, PositionBounded
<1>10. CASE EndPass \/ RecordRow \/ RecordChip \/ NextPage \/ Halt
  BY <1>10 DEF EndPass, RecordRow, RecordChip, NextPage, Halt, IPosition, PositionBounded
<1>11. CASE UNCHANGED vars
  BY <1>11 DEF vars, logVars, pruneVars, IPosition, PositionBounded
<1> QED
  BY <1>2, <1>3, <1>4, <1>5, <1>6, <1>7, <1>8, <1>9, <1>10, <1>11 DEF Next, Prune

LEMMA PositionAdvances ==
  ASSUME ITypes, Next
  PROVE  Forward
<1> SUFFICES ASSUME phase \in {"load", "cut"}
             PROVE  \/ phase' \in {"test", "overrun"}
                    \/ /\ phase' \in {"load", "cut"} /\ UNCHANGED <<vmMap, skips>>
                       /\ EarlierThan(Position, Position')
  BY DEF Forward
<1>1. Prune
  BY DEF Next, SetupWindow, Report, EndWindow, EndPass, RecordRow, RecordChip, NextPage, Halt
<1>2. seg \in Nat /\ skip \in Nat /\ piece \in Nat
  BY DEF ITypes, TypeOK
<1>3. CASE LoadSegment
  BY <1>2, <1>3 DEF LoadSegment, logVars, EarlierThan, Position
<1>4. CASE CutPiece
  BY <1>2, <1>4 DEF CutPiece, Cutting, logVars, EarlierThan, Position
<1>5. CASE NextSkip
  BY <1>2, <1>5 DEF NextSkip, Cutting, logVars, EarlierThan, Position
<1>6. CASE EmitPieces
  BY <1>2, <1>6 DEF EmitPieces, logVars, EarlierThan, Position
<1>7. CASE ReplaceMap
  BY <1>7 DEF ReplaceMap
<1> QED
  BY <1>1, <1>3, <1>4, <1>5, <1>6, <1>7 DEF Prune

(* The three nested loops of board_prune_vm_map end for every window and    *)
(* every skip list: each iteration is a step forward, and the positions are *)
(* bounded by a map and a skip list that stay as they are and by WorkMax.   *)
THEOREM PruningGoesForward == Spec => []PositionBounded /\ PruningAdvances
<1>1. Init => IPosition
  BY DEF Init, IPosition, PositionBounded
<1>2. ITypes /\ [Next]_vars => [Forward]_vars
  BY PositionAdvances
<1>3. IPosition => PositionBounded
  BY DEF IPosition
<1>4. IMem => ITypes
  BY DEF IMem
<1> QED
  BY <1>1, <1>2, <1>3, <1>4, PositionStep, MemInvariant, PTL DEF Spec, PruningAdvances
=============================================================================
