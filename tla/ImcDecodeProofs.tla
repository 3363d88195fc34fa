--------------------------- MODULE ImcDecodeProofs ----------------------------
(***************************************************************************)
(* The two decoders agree on every address, whatever the registers say;    *)
(* and the safety properties of ImcDecode for all controllers, boards,     *)
(* address spaces and limits.                                              *)
(***************************************************************************)
EXTENDS ImcDecode, FiniteSetTheorems, WellFoundedInduction, TLAPS

(* The powers of 2 that a field or a DIMM size is made of. *)
LEMMA Powers == /\ 2^0 = 1 /\ 2^1 = 2 /\ 2^2 = 4 /\ 2^3 = 8 /\ 2^4 = 16 /\ 2^5 = 32 
                /\ 2^6 = 64 /\ 2^7 = 128 /\ 2^8 = 256
OBVIOUS

(* A field is less than 2^width, for the widths that the decoders read. *)
LEMMA FieldTypes ==
  ASSUME NEW raw, NEW lo \in Nat
  PROVE  /\ Field(raw, lo, 2) \in 0..3
         /\ Field(raw, lo, 5) \in 0..31
         /\ Field(raw, lo, 6) \in 0..63
BY Powers DEF Field

(* Two bits of a register give 1, 2, 4 or 8 ranks. *)
LEMMA RankPowers == \A f \in 0..3 : 2^f \in {1, 2, 4, 8}
<1>1. SUFFICES ASSUME NEW f \in 0..3 PROVE 2^f \in {1, 2, 4, 8}
  OBVIOUS
<1>2. f = 0 \/ f = 1 \/ f = 2 \/ f = 3
  OBVIOUS
<1> QED
  BY <1>2, Powers, ZenonT(30)

(* Log2 chooses what its definition asks for, if there is such a number. *)
LEMMA Log2Chosen ==
  ASSUME NEW v \in Nat, NEW b \in 0..30, v # 0, 2^b <= v, v \div 2 < 2^b
  PROVE  \E p \in 0..30 : p = Log2(v) /\ 2^p <= v /\ v \div 2 < 2^p
BY Zenon DEF Log2

(* A number of at least 2^10 and less than 2^20 has 10 to 20 bits to shift. *)
LEMMA LogTypes ==
  ASSUME NEW v \in Nat, 1024 <= v, v < 1048576
  PROVE  Log2(v) \in 1..20
<1>1. /\ 2^10 = 1024 /\ 2^11 = 2048 /\ 2^12 = 4096 /\ 2^13 = 8192 /\ 2^14 = 16384
      /\ 2^15 = 32768 /\ 2^16 = 65536 /\ 2^17 = 131072 /\ 2^18 = 262144 /\ 2^19 = 524288
  BY SMT
<1>2. \E b \in 0..30 : 2^b <= v /\ v \div 2 < 2^b
  <2>1. \/ 2^10 <= v /\ v \div 2 < 2^10
        \/ 2^11 <= v /\ v \div 2 < 2^11
        \/ 2^12 <= v /\ v \div 2 < 2^12
        \/ 2^13 <= v /\ v \div 2 < 2^13
        \/ 2^14 <= v /\ v \div 2 < 2^14
        \/ 2^15 <= v /\ v \div 2 < 2^15
        \/ 2^16 <= v /\ v \div 2 < 2^16
        \/ 2^17 <= v /\ v \div 2 < 2^17
        \/ 2^18 <= v /\ v \div 2 < 2^18
        \/ 2^19 <= v /\ v \div 2 < 2^19
    BY SMT
  <2> QED
    BY <2>1, SMT
<1>3. PICK p \in 0..30 : p = Log2(v) /\ 2^p <= v /\ v \div 2 < 2^p
  BY <1>2, Log2Chosen, SMT
<1>4. p <= 20
  <2>1. SUFFICES ASSUME p \in 21..30 PROVE FALSE
    BY SMT
  <2>2. 2^p <= v
    BY <1>3
  <2>3. CASE p = 21
    BY <2>2, <2>3, SMT
  <2>4. CASE p = 22
    BY <2>2, <2>4, SMT
  <2>5. CASE p = 23
    BY <2>2, <2>5, SMT
  <2>6. CASE p = 24
    BY <2>2, <2>6, SMT
  <2>7. CASE p = 25
    BY <2>2, <2>7, SMT
  <2>8. CASE p = 26
    BY <2>2, <2>8, SMT
  <2>9. CASE p = 27
    BY <2>2, <2>9, SMT
  <2>10. CASE p = 28
    BY <2>2, <2>10, SMT
  <2>11. CASE p = 29
    BY <2>2, <2>11, SMT
  <2>12. CASE p = 30
    BY <2>2, <2>12, SMT
  <2> QED
    BY <2>1, <2>3, <2>4, <2>5, <2>6, <2>7, <2>8, <2>9, <2>10, <2>11, <2>12, SMT
<1>5. p # 0
  <2>1. SUFFICES ASSUME p = 0 PROVE FALSE
    OBVIOUS
  <2>2. v \div 2 < 1
    BY <2>1, <1>3, SMT
  <2> QED
    BY <2>2, SMT
<1>6. p \in 1..20
  BY <1>4, <1>5, SMT
<1> QED
  BY <1>3, <1>6, SMT

-----------------------------------------------------------------------------
(* The parity of finitely many bits is 0 or 1. *)
LEMMA ParityType == ASSUME NEW bits, IsFiniteSet(bits) PROVE Parity(bits) \in 0..1
<1>1. Cardinality(bits) \in Nat
  BY FS_CardinalityType
<1> QED
  BY <1>1 DEF Parity

(* Bits of an address are finitely many. *)
LEMMA FiniteBits == ASSUME NEW bits, bits \subseteq 0..40 PROVE IsFiniteSet(bits)
<1>1. PICK a \in Int, b \in Int : a = 0 /\ b = 40
  OBVIOUS
<1>2. IsFiniteSet(a..b)
  BY FS_Interval
<1>3. bits \subseteq a..b
  BY <1>1
<1> QED
  BY <1>2, <1>3, FS_Subset

(* Any selection of the bits 0..40 has a parity. *)
LEMMA ParityOfBits ==
  ASSUME NEW bits, bits \subseteq 0..40 PROVE Parity(bits) \in 0..1
BY FiniteBits, ParityType

(* The decoders share the module ImcBits: what they take from it is the same. *)
LEMMA SharedBits ==
  /\ \A bits : Memtest!Parity(bits) = Parity(bits) /\ Shim!Parity(bits) = Parity(bits)
  /\ \A v : Memtest!Log2(v) = Log2(v) /\ Shim!Log2(v) = Log2(v)
  /\ \A raw, lo, width : Memtest!Field(raw, lo, width) = Field(raw, lo, width)
  /\ \A raw, lo, width : Shim!Field(raw, lo, width) = Field(raw, lo, width)
  /\ \A S : Memtest!Cardinality(S) = Cardinality(S) /\ Shim!Cardinality(S) = Cardinality(S)
  /\ \A S : Memtest!Max(S) = Max(S) /\ Shim!Min(S) = Min(S)
<1>1. \A S : Memtest!Cardinality(S) = Cardinality(S) /\ Shim!Cardinality(S) = Cardinality(S)
  BY Zenon DEF Memtest!Cardinality, Shim!Cardinality, Cardinality
<1>2. \A bits : Memtest!Parity(bits) = Parity(bits) /\ Shim!Parity(bits) = Parity(bits)
  BY <1>1, Zenon DEF Memtest!Parity, Shim!Parity, Parity
<1>3. \A v : Memtest!Log2(v) = Log2(v) /\ Shim!Log2(v) = Log2(v)
  BY Zenon DEF Memtest!Log2, Shim!Log2, Log2
<1>4. \A raw, lo, width : Memtest!Field(raw, lo, width) = Field(raw, lo, width)
  BY Zenon DEF Memtest!Field, Field
<1>5. \A raw, lo, width : Shim!Field(raw, lo, width) = Field(raw, lo, width)
  BY Zenon DEF Shim!Field, Field
<1>6. \A S : Memtest!Max(S) = Max(S) /\ Shim!Min(S) = Min(S)
  BY Zenon DEF Memtest!Max, Shim!Min, Max, Min
<1> QED
  BY <1>1, <1>2, <1>3, <1>4, <1>5, <1>6, Zenon

(* Both decoders read the same size, ranks and width of a DIMM. *)
LEMMA DimmTypes ==
  ASSUME NEW m, NEW c \in 0..1, NEW d \in 0..1
  PROVE  /\ Memtest!Dimm(m, c, d) = [size |-> Shim!Size(m, c, d), ranks |-> Shim!Ranks(m, c, d), width |-> Shim!Width(m, c, d)]
         /\ \E s \in 0..63 : Shim!Size(m, c, d) = 1024 * s
         /\ Shim!Ranks(m, c, d) \in {1, 2, 4, 8}
         /\ Shim!Width(m, c, d) \in {8, 16}
<1>1. d = 0 \/ d = 1
  OBVIOUS
<1>2. Memtest!Dimm(m, c, d) = [size |-> Shim!Size(m, c, d), ranks |-> Shim!Ranks(m, c, d), width |-> Shim!Width(m, c, d)]
  <2>1. CASE d = 0
    <3>1. Shim!Size(m, c, d) = 1024 * Field(m.dimm[c], 0, 6)
      BY <2>1, SharedBits DEF Shim!Size
    <3>2. Shim!Ranks(m, c, d) = 2^Field(m.dimm[c], 8, 2)
      BY <2>1, SharedBits DEF Shim!Ranks
    <3>3. Shim!Width(m, c, d) = IF 10 \in m.dimm[c] THEN 16 ELSE 8
      BY <2>1 DEF Shim!Width
    <3>4. Memtest!Dimm(m, c, d) = [size |-> 1024 * Field(m.dimm[c], 0, 6), ranks |-> 2^Field(m.dimm[c], 8, 2),
                                   width |-> IF 10 \in m.dimm[c] THEN 16 ELSE 8]
      BY <2>1, SharedBits, ZenonT(30) DEF Memtest!Dimm
    <3> QED
      BY <3>1, <3>2, <3>3, <3>4
  <2>2. CASE d = 1
    <3>1. d # 0
      BY <2>2
    <3> QED
      <4>1. Shim!Size(m, c, d) = 1024 * Field(m.dimm[c], 16, 6)
        BY <2>2, SharedBits DEF Shim!Size
      <4>2. Shim!Ranks(m, c, d) = 2^Field(m.dimm[c], 12, 2)
        BY <2>2, SharedBits DEF Shim!Ranks
      <4>3. Shim!Width(m, c, d) = IF 11 \in m.dimm[c] THEN 16 ELSE 8
        BY <2>2 DEF Shim!Width
      <4>4. Memtest!Dimm(m, c, d) = [size |-> 1024 * Field(m.dimm[c], 16, 6), ranks |-> 2^Field(m.dimm[c], 12, 2),
                                     width |-> IF 11 \in m.dimm[c] THEN 16 ELSE 8]
        BY <3>1, SharedBits, ZenonT(30) DEF Memtest!Dimm
      <4> QED
        BY <4>1, <4>2, <4>3, <4>4
  <2> QED
    BY <1>1, <2>1, <2>2
<1>3. \E s \in 0..63 : Shim!Size(m, c, d) = 1024 * s
  <2>1. \A lo \in Nat : Field(m.dimm[c], lo, 6) \in 0..63
    BY FieldTypes
  <2>2. Shim!Size(m, c, d) = 1024 * Field(m.dimm[c], IF d = 0 THEN 0 ELSE 16, 6)
    BY SharedBits, Zenon DEF Shim!Size
  <2>3. (IF d = 0 THEN 0 ELSE 16) \in Nat
    OBVIOUS
  <2> QED
    BY <2>1, <2>2, <2>3
<1>4. Shim!Ranks(m, c, d) \in {1, 2, 4, 8}
  <2>1. \A lo \in Nat : Field(m.dimm[c], lo, 2) \in 0..3
    BY FieldTypes
  <2>2. Shim!Ranks(m, c, d) = 2^Field(m.dimm[c], IF d = 0 THEN 8 ELSE 12, 2)
    BY SharedBits, Zenon DEF Shim!Ranks
  <2>3. (IF d = 0 THEN 8 ELSE 12) \in Nat
    OBVIOUS
  <2> QED
    BY <2>1, <2>2, <2>3, RankPowers, Zenon
<1>5. Shim!Width(m, c, d) \in {8, 16}
  BY DEF Shim!Width
<1> QED
  BY <1>2, <1>3, <1>4, <1>5

-----------------------------------------------------------------------------
(* A channel has a DIMM for memtest86+ exactly if it has one for the shim. *)
LEMMA SameSlots ==
  ASSUME NEW m
  PROVE  Memtest!Populated(m) = {s \in (0..1) \X (0..1) : s[2] \in Shim!Slots(m, s[1])}
<1>1. ASSUME NEW s \in (0..1) \X (0..1)
      PROVE  Memtest!Dimm(m, s[1], s[2]).size > 0 <=> s[2] \in Shim!Slots(m, s[1])
  <2>1. s[1] \in 0..1 /\ s[2] \in 0..1
    OBVIOUS
  <2>2. Memtest!Dimm(m, s[1], s[2]).size = Shim!Size(m, s[1], s[2])
    BY <2>1, DimmTypes
  <2> QED
    BY <2>1, <2>2, Zenon DEF Shim!Slots
<1> QED
  BY <1>1, Zenon DEF Memtest!Populated

(* The channels that have memory are the same for both. *)
LEMMA SameChannels ==
  ASSUME NEW m
  PROVE  Memtest!Channels(m) = {c \in 0..1 : Shim!Slots(m, c) # {}}
<1>1. ASSUME NEW c PROVE c \in Memtest!Channels(m) <=> c \in 0..1 /\ Shim!Slots(m, c) # {}
  <2>1. ASSUME c \in Memtest!Channels(m) PROVE c \in 0..1 /\ Shim!Slots(m, c) # {}
    <3>1. PICK s \in Memtest!Populated(m) : c = s[1]
      BY <2>1, Zenon DEF Memtest!Channels
    <3>2. s \in (0..1) \X (0..1) /\ s[2] \in Shim!Slots(m, s[1])
      BY <3>1, SameSlots, Zenon
    <3> QED
      BY <3>1, <3>2
  <2>2. ASSUME c \in 0..1, Shim!Slots(m, c) # {} PROVE c \in Memtest!Channels(m)
    <3>1. PICK d \in 0..1 : d \in Shim!Slots(m, c)
      BY <2>2, Zenon DEF Shim!Slots
    <3>2. <<c, d>> \in (0..1) \X (0..1) /\ <<c, d>>[1] = c /\ <<c, d>>[2] = d
      BY <2>2, <3>1
    <3>3. <<c, d>> \in Memtest!Populated(m)
      BY <3>1, <3>2, SameSlots, Zenon
    <3> QED
      BY <3>2, <3>3, Zenon DEF Memtest!Channels
  <2> QED
    BY <2>1, <2>2
<1> QED
  BY <1>1

(* Both decoders take an address to the same channel. *)
LEMMA SameChannel ==
  ASSUME NEW m, NEW pa, Memtest!Channels(m) # {}
  PROVE  Memtest!Channel(m, pa) = Shim!Channel(m, pa)
<1> DEFINE C == Memtest!Channels(m)
<1>1. C = {c \in 0..1 : Shim!Slots(m, c) # {}}
  BY SameChannels
<1>2. CASE Shim!Slots(m, 1) = {}
  <2>1. C = {0}
    BY <1>1, <1>2
  <2>2. Cardinality(C) = 1
    BY <2>1, FS_Singleton
  <2>3. (CHOOSE c \in 0..1 : c \in C) = 0
    BY <2>1
  <2> QED
    <3>1. Memtest!Channel(m, pa) = 0
      BY <2>2, <2>3, SharedBits, Zenon DEF Memtest!Channel
    <3> QED
      BY <1>2, <3>1, Zenon DEF Shim!Channel
<1>3. CASE Shim!Slots(m, 1) # {} /\ Shim!Slots(m, 0) = {}
  <2>1. C = {1}
    BY <1>1, <1>3
  <2>2. Cardinality(C) = 1
    BY <2>1, FS_Singleton
  <2>3. (CHOOSE c \in 0..1 : c \in C) = 1
    BY <2>1
  <2> QED
    <3>1. Memtest!Channel(m, pa) = 1
      BY <2>2, <2>3, SharedBits, Zenon DEF Memtest!Channel
    <3> QED
      BY <1>3, <3>1, Zenon DEF Shim!Channel
<1>4. CASE Shim!Slots(m, 1) # {} /\ Shim!Slots(m, 0) # {}
  <2>1. 0 \in C /\ 1 \in C
    BY <1>1, <1>4
  <2>2. Cardinality(C) # 1
    <3>1. C \subseteq 0..40
      BY <1>1
    <3>2. IsFiniteSet(C)
      BY <3>1, FiniteBits
    <3>3. ASSUME Cardinality(C) = 1 PROVE FALSE
      <4>1. PICK x : C = {x}
        BY <3>2, <3>3, FS_Singleton
      <4> QED
        BY <2>1, <4>1
    <3> QED
      BY <3>3
  <2>3. {b \in pa : b \in 6..19 /\ b \in m.hash} = pa \cap m.hash \cap (6..19)
    BY Zenon
  <2> QED
    <3>1. Memtest!Channel(m, pa) = IF 0 \notin m.hash THEN Parity(pa \cap {6})
                                   ELSE Parity(pa \cap m.hash \cap (6..19))
      BY <2>2, <2>3, SharedBits, Zenon DEF Memtest!Channel
    <3>2. Shim!Channel(m, pa) = IF 0 \in m.hash THEN Parity(pa \cap m.hash \cap (6..19))
                                ELSE Parity(pa \cap {6})
      BY <1>4, SharedBits, Zenon DEF Shim!Channel
    <3>3. CASE 0 \in m.hash
      BY <3>1, <3>2, <3>3
    <3>4. CASE 0 \notin m.hash
      BY <3>1, <3>2, <3>4
    <3> QED
      BY <3>3, <3>4
<1> QED
  BY <1>2, <1>3, <1>4
-----------------------------------------------------------------------------
(* Max picks an upper bound if there is one in the set. *)
LEMMA MaxChosen ==
  ASSUME NEW S, NEW x \in S, \A y \in S : x >= y
  PROVE  Max(S) \in S /\ \A y \in S : Max(S) >= y
BY Zenon DEF Max

(* The greatest of the numbers of ranks. *)
LEMMA MaxOfRanks ==
  ASSUME NEW S, S \subseteq {0, 1, 2, 4, 8}, 0 \in S
  PROVE  Max(S) \in S /\ \A y \in S : Max(S) >= y
<1>1. CASE 8 \in S
  <2>1. \A y \in S : 8 >= y
    OBVIOUS
  <2> QED
    BY <1>1, <2>1, MaxChosen
<1>2. CASE 4 \in S /\ 8 \notin S
  <2>1. \A y \in S : 4 >= y
    BY <1>2
  <2> QED
    BY <1>2, <2>1, MaxChosen
<1>3. CASE 2 \in S /\ 4 \notin S /\ 8 \notin S
  <2>1. \A y \in S : 2 >= y
    BY <1>3
  <2> QED
    BY <1>3, <2>1, MaxChosen
<1>4. CASE 1 \in S /\ 2 \notin S /\ 4 \notin S /\ 8 \notin S
  <2>1. \A y \in S : 1 >= y
    BY <1>4
  <2> QED
    BY <1>4, <2>1, MaxChosen
<1>5. CASE 1 \notin S /\ 2 \notin S /\ 4 \notin S /\ 8 \notin S
  <2>1. \A y \in S : 0 >= y
    BY <1>5
  <2> QED
    BY <2>1, MaxChosen
<1> QED
  BY <1>1, <1>2, <1>3, <1>4, <1>5

(* A channel has several ranks for memtest86+ exactly if it has for the shim. *)
LEMMA MaxRanksTypes ==
  ASSUME NEW m, NEW c \in 0..1
  PROVE  /\ Memtest!MaxRanks(m, c) \in {0, 1, 2, 4, 8}
         /\ Memtest!MaxRanks(m, c) > 1 <=> Shim!Ranked(m, c)
<1> DEFINE R == {Memtest!Dimm(m, s[1], s[2]).ranks : s \in {x \in Memtest!Populated(m) : x[1] = c}}
<1>1. \A r : r \in R <=> \E d \in Shim!Slots(m, c) : r = Shim!Ranks(m, c, d)
  <2>1. ASSUME NEW r \in R PROVE \E d \in Shim!Slots(m, c) : r = Shim!Ranks(m, c, d)
    <3>1. PICK s \in Memtest!Populated(m) : s[1] = c /\ r = Memtest!Dimm(m, s[1], s[2]).ranks
      BY <2>1, Zenon
    <3>2. s[2] \in Shim!Slots(m, c) /\ s[2] \in 0..1
      BY <3>1, SameSlots
    <3>3. r = Shim!Ranks(m, c, s[2])
      BY <3>1, <3>2, DimmTypes
    <3> QED
      BY <3>2, <3>3, Zenon
  <2>2. ASSUME NEW d \in Shim!Slots(m, c) PROVE Shim!Ranks(m, c, d) \in R
    <3>1. d \in 0..1
      BY <2>2 DEF Shim!Slots
    <3>2. <<c, d>> \in (0..1) \X (0..1) /\ <<c, d>>[1] = c /\ <<c, d>>[2] = d
      BY <3>1
    <3>3. <<c, d>> \in Memtest!Populated(m)
      BY <3>1, <3>2, SameSlots, Zenon
    <3>4. Memtest!Dimm(m, c, d).ranks = Shim!Ranks(m, c, d)
      BY <3>1, DimmTypes
    <3>5. Memtest!Dimm(m, <<c, d>>[1], <<c, d>>[2]).ranks = Shim!Ranks(m, c, d)
      BY <3>2, <3>4
    <3> QED
      BY <3>2, <3>3, <3>5, Zenon
  <2> QED
    BY <2>1, <2>2, Zenon
<1>2. R \cup {0} \subseteq {0, 1, 2, 4, 8}
  <2>1. ASSUME NEW r \in R PROVE r \in {1, 2, 4, 8}
    <3>1. PICK d \in Shim!Slots(m, c) : r = Shim!Ranks(m, c, d)
      BY <1>1, <2>1, Zenon
    <3>2. d \in 0..1
      BY <3>1 DEF Shim!Slots
    <3> QED
      BY <3>1, <3>2, DimmTypes
  <2> HIDE DEF R
  <2> QED
    BY <2>1
<1>3. Memtest!MaxRanks(m, c) = Max(R \cup {0})
  BY SharedBits, Zenon DEF Memtest!MaxRanks
<1>4. /\ Max(R \cup {0}) \in R \cup {0}
      /\ \A y \in R \cup {0} : Max(R \cup {0}) >= y
  <2> HIDE DEF R
  <2>1. 0 \in R \cup {0}
    OBVIOUS
  <2> QED
    BY <1>2, <2>1, MaxOfRanks
<1>5. Memtest!MaxRanks(m, c) > 1 <=> \E r \in R : r > 1
  <2> HIDE DEF R
  <2> QED
    BY <1>2, <1>3, <1>4
<1>6. (\E r \in R : r > 1) <=> Shim!Ranked(m, c)
  <2> HIDE DEF R
  <2> QED
    BY <1>1, Zenon DEF Shim!Ranked
<1> HIDE DEF R
<1> QED
  BY <1>2, <1>3, <1>4, <1>5, <1>6

(* Both decoders give an address the same rank, and know or do not know it alike. *)
LEMMA SameRank ==
  ASSUME NEW m, NEW c \in 0..1, NEW pa
  PROVE  Memtest!Rank(m, c, pa) = [rank |-> Shim!Rank(m, c, pa), valid |-> Shim!RankValid(m, c)]
<1> DEFINE bit == Field(m.intra[c], 0, 5)
<1>1. Memtest!MaxRanks(m, c) <= 1 <=> ~Shim!Ranked(m, c)
  BY MaxRanksTypes
<1>2. CASE ~Shim!Ranked(m, c)
  <2>1. Memtest!Rank(m, c, pa) = [rank |-> 0, valid |-> TRUE]
    BY <1>1, <1>2, Zenon DEF Memtest!Rank
  <2>2. Shim!Rank(m, c, pa) = 0 /\ Shim!RankValid(m, c) = TRUE
    BY <1>2 DEF Shim!Rank, Shim!RankValid
  <2> QED
    BY <2>1, <2>2, Zenon
<1>3. CASE Shim!Ranked(m, c) /\ 8 \in m.intra[c] /\ bit \in 6..40
  <2>1. Memtest!Rank(m, c, pa) = [rank |-> Parity(pa \cap {bit}), valid |-> TRUE]
    BY <1>1, <1>3, SharedBits, Zenon DEF Memtest!Rank
  <2>2. Shim!RankBit(m, c) = bit
    BY SharedBits, Zenon DEF Shim!RankBit
  <2>3. Shim!RankValid(m, c) = TRUE
    BY <1>3, <2>2, Zenon DEF Shim!RankValid
  <2>4. Shim!Rank(m, c, pa) = Parity(pa \cap {bit})
    BY <1>3, <2>2, <2>3, SharedBits, Zenon DEF Shim!Rank
  <2> QED
    BY <2>1, <2>3, <2>4, Zenon
<1>4. CASE Shim!Ranked(m, c) /\ ~(8 \in m.intra[c] /\ bit \in 6..40)
  <2>1. Memtest!Rank(m, c, pa) = [rank |-> 0, valid |-> FALSE]
    BY <1>1, <1>4, SharedBits, Zenon DEF Memtest!Rank
  <2>2. Shim!RankBit(m, c) = bit
    BY SharedBits, Zenon DEF Shim!RankBit
  <2>3. Shim!RankValid(m, c) = FALSE
    BY <1>4, <2>2, Zenon DEF Shim!RankValid
  <2>4. Shim!Rank(m, c, pa) = 0
    BY <2>3, Zenon DEF Shim!Rank
  <2> QED
    BY <2>1, <2>3, <2>4, Zenon
<1> QED
  BY <1>2, <1>3, <1>4
-----------------------------------------------------------------------------
(* Min picks a lower bound if there is one in the set. *)
LEMMA MinChosen ==
  ASSUME NEW S, NEW x \in S, \A y \in S : x <= y
  PROVE  Min(S) \in S /\ \A y \in S : Min(S) <= y
BY Zenon DEF Min

(* The first populated slot of a channel. *)
LEMMA MinOfSlots ==
  ASSUME NEW S, S \subseteq 0..1, S # {}
  PROVE  Min(S) = IF 0 \in S THEN 0 ELSE 1
<1>1. \A y \in S : y = 0 \/ y = 1
  BY SMT
<1>2. CASE 0 \in S
  <2>1. \A y \in S : 0 <= y
    BY <1>1
  <2>2. Min(S) \in S /\ \A y \in S : Min(S) <= y
    BY <1>2, <2>1, MinChosen
  <2>3. Min(S) = 0 \/ Min(S) = 1
    BY <1>1, <2>2, Zenon
  <2>4. Min(S) <= 0
    BY <1>2, <2>2, Zenon
  <2>5. Min(S) = 0
    BY <2>3, <2>4
  <2> QED
    BY <1>2, <2>5
<1>3. CASE 0 \notin S
  <2>1. S = {1}
    BY <1>1, <1>3
  <2>2. 1 \in S /\ \A y \in S : 1 <= y
    BY <2>1
  <2>3. Min(S) = 1
    BY <2>1, <2>2, MinChosen
  <2> QED
    BY <1>3, <2>3
<1> QED
  BY <1>2, <1>3

(* The first DIMM of memtest86+ is the one the shim takes. *)
LEMMA SameFirst ==
  ASSUME NEW m, Memtest!Channels(m) # {}
  PROVE  \E c \in 0..1, d \in 0..1 :
           /\ d \in Shim!Slots(m, c)
           /\ c = (IF Shim!Slots(m, 0) # {} THEN 0 ELSE 1)
           /\ d = Shim!Min(Shim!Slots(m, c))
           /\ Memtest!FirstDimm(m) = Memtest!Dimm(m, c, d)
<1> DEFINE c == IF Shim!Slots(m, 0) # {} THEN 0 ELSE 1
           d == Shim!Min(Shim!Slots(m, c))
           P == Memtest!Populated(m)
<1>1. c \in 0..1 /\ Shim!Slots(m, c) # {}
  BY SameChannels
<1>2. Shim!Slots(m, c) \subseteq 0..1
  BY Zenon DEF Shim!Slots
<1>3. d = IF 0 \in Shim!Slots(m, c) THEN 0 ELSE 1
  <2>1. d = Min(Shim!Slots(m, c))
    BY SharedBits, Zenon
  <2> QED
    BY <1>1, <1>2, <2>1, MinOfSlots, Zenon
<1>4. d \in Shim!Slots(m, c) /\ d \in 0..1
  BY <1>1, <1>2, <1>3
<1>5. \A s \in P : 2 * c + d <= 2 * s[1] + s[2] /\ (2 * s[1] + s[2] <= 2 * c + d => s = <<c, d>>)
  <2>1. SUFFICES ASSUME NEW s \in P
                 PROVE  2 * c + d <= 2 * s[1] + s[2] /\ (2 * s[1] + s[2] <= 2 * c + d => s = <<c, d>>)
    OBVIOUS
  <2>2. s \in (0..1) \X (0..1) /\ s[2] \in Shim!Slots(m, s[1])
    BY SameSlots
  <2>3. PICK a \in 0..1, b \in 0..1 : s = <<a, b>>
    BY <2>2
  <2>4. b \in Shim!Slots(m, a) /\ s[1] = a /\ s[2] = b
    BY <2>2, <2>3
  <2>5. CASE a = 0
    <3>1. c = 0
      BY <2>4, <2>5
    <3>2. b \in Shim!Slots(m, c)
      BY <2>4, <2>5, <3>1
    <3> QED
      BY <1>3, <1>4, <2>3, <2>4, <2>5, <3>1, <3>2
  <2>6. CASE a = 1 /\ c = 1
    <3>1. b \in Shim!Slots(m, c)
      BY <2>4, <2>6
    <3> QED
      BY <1>3, <1>4, <2>3, <2>4, <2>6, <3>1
  <2>7. CASE a = 1 /\ c = 0
    BY <1>4, <2>3, <2>4, <2>7
  <2> HIDE DEF c
  <2> QED
    BY <1>1, <2>5, <2>6, <2>7
<1>6. /\ <<c, d>> \in P /\ <<c, d>>[1] = c /\ <<c, d>>[2] = d
  <2>1. <<c, d>> \in (0..1) \X (0..1) /\ <<c, d>>[1] = c /\ <<c, d>>[2] = d
    BY <1>1, <1>4
  <2> QED
    BY <1>4, <2>1, SameSlots, Zenon
<1> HIDE DEF c, d, P
<1>7. PICK x \in P : /\ \A y \in P : 2 * x[1] + x[2] <= 2 * y[1] + y[2]
                     /\ Memtest!FirstDimm(m) = Memtest!Dimm(m, x[1], x[2])
  <2>1. \A y \in P : 2 * <<c, d>>[1] + <<c, d>>[2] <= 2 * y[1] + y[2]
    BY <1>5, <1>6
  <2>2. \E x \in P : \A y \in P : 2 * x[1] + x[2] <= 2 * y[1] + y[2]
    BY <1>6, <2>1, Zenon
  <2> QED
    BY <2>2, Zenon DEF Memtest!FirstDimm, P
<1>8. x = <<c, d>>
  BY <1>5, <1>6, <1>7
<1>9. Memtest!FirstDimm(m) = Memtest!Dimm(m, c, d)
  BY <1>6, <1>7, <1>8
<1> QED
  BY <1>1, <1>4, <1>9 DEF c, d

(* Any DIMM of 1 to 63 GiB has rows of 10 to 20 bits, the same for both decoders. *)
LEMMA RowBitsTypes ==
  ASSUME NEW m, Memtest!Channels(m) # {}
  PROVE  Memtest!RowBits(m) = Shim!RowBits(m) /\ Memtest!RowBits(m) \in 1..20
<1>1. PICK c \in 0..1, d \in 0..1 :
           /\ d \in Shim!Slots(m, c)
           /\ c = (IF Shim!Slots(m, 0) # {} THEN 0 ELSE 1)
           /\ d = Shim!Min(Shim!Slots(m, c))
           /\ Memtest!FirstDimm(m) = Memtest!Dimm(m, c, d)
  BY SameFirst
<1> DEFINE size == Shim!Size(m, c, d)
           ranks == Shim!Ranks(m, c, d)
           width == Shim!Width(m, c, d)
           chip == (1024 * size) \div ((64 \div width) * ranks)
           rowSize == (chip \div (width \div 8)) \div 16
<1>2. Memtest!FirstDimm(m) = [size |-> size, ranks |-> ranks, width |-> width]
  BY <1>1, DimmTypes
<1>3. Memtest!RowBits(m) = Log2(rowSize)
  <2>1. /\ Memtest!FirstDimm(m).size = size /\ Memtest!FirstDimm(m).ranks = ranks
        /\ Memtest!FirstDimm(m).width = width
    BY <1>2
  <2>2. Memtest!RowBits(m) = Log2((((1024 * Memtest!FirstDimm(m).size)
             \div ((64 \div Memtest!FirstDimm(m).width) * Memtest!FirstDimm(m).ranks))
             \div (Memtest!FirstDimm(m).width \div 8)) \div 16)
    BY SharedBits, Zenon DEF Memtest!RowBits
  <2> HIDE DEF size, ranks, width
  <2> QED
    BY <2>1, <2>2, ZenonT(60)
<1>4. Shim!RowBits(m) = Log2(rowSize)
  <2> DEFINE c0 == IF Shim!Slots(m, 0) # {} THEN 0 ELSE 1
             d0 == Shim!Min(Shim!Slots(m, c0))
  <2>1. Shim!RowBits(m) = Log2((((1024 * Shim!Size(m, c0, d0))
             \div ((64 \div Shim!Width(m, c0, d0)) * Shim!Ranks(m, c0, d0)))
             \div (Shim!Width(m, c0, d0) \div 8)) \div 16)
    BY SharedBits, Zenon DEF Shim!RowBits
  <2>2. c = c0
    BY <1>1
  <2>3. d = d0
    BY <1>1, <2>2
  <2> HIDE DEF c0, d0
  <2>4. /\ Shim!Size(m, c0, d0) = size /\ Shim!Ranks(m, c0, d0) = ranks
        /\ Shim!Width(m, c0, d0) = width
    BY <2>2, <2>3
  <2> HIDE DEF size, ranks, width
  <2> QED
    BY <2>1, <2>4, ZenonT(60)
<1>5. rowSize \in Nat /\ 1024 <= rowSize /\ rowSize < 1048576
  <2>1. PICK s \in 0..63 : size = 1024 * s
    BY DimmTypes
  <2>2. size > 0
    BY <1>1, Zenon DEF Shim!Slots
  <2>3. s \in 1..63
    BY <2>1, <2>2, SMT
  <2>4. ranks = 1 \/ ranks = 2 \/ ranks = 4 \/ ranks = 8
    BY DimmTypes
  <2>5. width = 8 \/ width = 16
    BY DimmTypes
  <2> HIDE DEF size, ranks, width
  <2>6. CASE width = 8 /\ ranks = 1
    BY <2>1, <2>3, <2>6, SMT
  <2>7. CASE width = 8 /\ ranks = 2
    BY <2>1, <2>3, <2>7, SMT
  <2>8. CASE width = 8 /\ ranks = 4
    BY <2>1, <2>3, <2>8, SMT
  <2>9. CASE width = 8 /\ ranks = 8
    BY <2>1, <2>3, <2>9, SMT
  <2>10. CASE width = 16 /\ ranks = 1
    BY <2>1, <2>3, <2>10, SMT
  <2>11. CASE width = 16 /\ ranks = 2
    BY <2>1, <2>3, <2>11, SMT
  <2>12. CASE width = 16 /\ ranks = 4
    BY <2>1, <2>3, <2>12, SMT
  <2>13. CASE width = 16 /\ ranks = 8
    BY <2>1, <2>3, <2>13, SMT
  <2> HIDE DEF rowSize
  <2> QED
    BY <2>4, <2>5, <2>6, <2>7, <2>8, <2>9, <2>10, <2>11, <2>12, <2>13
<1> HIDE DEF rowSize
<1> QED
  BY <1>3, <1>4, <1>5, LogTypes
-----------------------------------------------------------------------------
(* A decoded channel is 0 or 1. *)
LEMMA ChannelType ==
  ASSUME NEW m, NEW pa, Memtest!Channels(m) # {} PROVE Memtest!Channel(m, pa) \in 0..1
<1>1. CASE Cardinality(Memtest!Channels(m)) = 1
  <2>1. \E c \in 0..1 : c \in Memtest!Channels(m)
    BY SameChannels
  <2>2. (CHOOSE c \in 0..1 : c \in Memtest!Channels(m)) \in 0..1
    BY <2>1, Zenon
  <2> QED
    BY <1>1, <2>2, SharedBits, Zenon DEF Memtest!Channel
<1>2. CASE Cardinality(Memtest!Channels(m)) # 1
  <2>1. Parity(pa \cap {6}) \in 0..1
    BY ParityOfBits
  <2>2. Parity({b \in pa : b \in 6..19 /\ b \in m.hash}) \in 0..1
    <3>1. {b \in pa : b \in 6..19 /\ b \in m.hash} \subseteq 0..40
      BY SMT
    <3> QED
      BY <3>1, ParityOfBits
  <2> QED
    BY <1>2, <2>1, <2>2, SharedBits, Zenon DEF Memtest!Channel
<1> QED
  BY <1>1, <1>2

(* A decoded rank is 0 or 1: one address bit tells. *)
LEMMA RankType ==
  ASSUME NEW m, NEW c \in 0..1, NEW pa
  PROVE  Memtest!Rank(m, c, pa).rank \in 0..1
<1>1. Memtest!Rank(m, c, pa).rank = Shim!Rank(m, c, pa)
  BY SameRank
<1>2. CASE Shim!Ranked(m, c) /\ Shim!RankValid(m, c)
  <2>1. Shim!RankBit(m, c) \in 6..40
    BY <1>2 DEF Shim!RankValid
  <2>2. pa \cap {Shim!RankBit(m, c)} \subseteq 0..40
    BY <2>1
  <2>3. Parity(pa \cap {Shim!RankBit(m, c)}) \in 0..1
    BY <2>2, ParityOfBits
  <2> QED
    BY <1>1, <1>2, <2>3, SharedBits, Zenon DEF Shim!Rank
<1>3. CASE ~(Shim!Ranked(m, c) /\ Shim!RankValid(m, c))
  <2>1. Shim!Rank(m, c, pa) = 0
    BY <1>3, Zenon DEF Shim!Rank
  <2> QED
    BY <1>1, <2>1
<1> QED
  BY <1>2, <1>3

(* Bank groups and banks are pairs of bits. *)
LEMMA BankTypes ==
  ASSUME NEW pa
  PROVE  Memtest!BankGroup(pa) \in (0..1) \X (0..1) /\ Memtest!Bank(pa) \in (0..1) \X (0..1)
<1>1. /\ Parity(pa \cap {7, 14}) \in 0..1 /\ Parity(pa \cap {8, 9, 12, 13, 18, 19}) \in 0..1
      /\ Parity(pa \cap {15, 18}) \in 0..1 /\ Parity(pa \cap {16, 19}) \in 0..1
  <2>1. /\ pa \cap {7, 14} \subseteq 0..40 /\ pa \cap {8, 9, 12, 13, 18, 19} \subseteq 0..40
        /\ pa \cap {15, 18} \subseteq 0..40 /\ pa \cap {16, 19} \subseteq 0..40
    BY SMT
  <2> QED
    BY <2>1, ParityOfBits
<1>2. /\ Memtest!BankGroup(pa) = <<Parity(pa \cap {7, 14}), Parity(pa \cap {8, 9, 12, 13, 18, 19})>>
      /\ Memtest!Bank(pa) = <<Parity(pa \cap {15, 18}), Parity(pa \cap {16, 19})>>
  BY SharedBits, Zenon DEF Memtest!BankGroup, Memtest!Bank
<1> QED
  BY <1>1, <1>2

(* Whatever the registers of a controller with memory say, the two decoders *)
(* take every address to the same place.                                    *)
LEMMA SameDecode ==
  ASSUME NEW m, NEW pa, Memtest!Channels(m) # {}
  PROVE  Memtest!Decode(m, pa) = Shim!Decode(m, pa)
<1> DEFINE c == Memtest!Channel(m, pa)
<1>1. c \in 0..1 /\ Shim!Channel(m, pa) = c
  BY ChannelType, SameChannel
<1>2. Memtest!Rank(m, c, pa) = [rank |-> Shim!Rank(m, c, pa), valid |-> Shim!RankValid(m, c)]
  BY <1>1, SameRank
<1>3. /\ Memtest!BankGroup(pa) = <<Shim!Parity(pa \cap {7, 14}), Shim!Parity(pa \cap {8, 9, 12, 13, 18, 19})>>
      /\ Memtest!Bank(pa) = <<Shim!Parity(pa \cap {15, 18}), Shim!Parity(pa \cap {16, 19})>>
  BY SharedBits, Zenon DEF Memtest!BankGroup, Memtest!Bank
<1>4. Memtest!Row(m, pa) = {b \in 0..Shim!RowMask(m) - 1 : b + 18 \in pa}
  <2>1. Memtest!RowBits(m) = Shim!RowBits(m) /\ Memtest!RowBits(m) \in 1..20
    BY RowBitsTypes
  <2>2. Shim!RowMask(m) = Memtest!RowBits(m)
    BY <2>1, Zenon DEF Shim!RowMask
  <2> QED
    BY <2>1, <2>2, Zenon DEF Memtest!Row
<1> HIDE DEF c
<1>5. Shim!Decode(m, pa) =
        [channel |-> c,
         rank    |-> [rank |-> Shim!Rank(m, c, pa), valid |-> Shim!RankValid(m, c)],
         bg      |-> Memtest!BankGroup(pa), bank |-> Memtest!Bank(pa), row |-> Memtest!Row(m, pa)]
  BY <1>1, <1>3, <1>4, Zenon DEF Shim!Decode
<1>6. Memtest!Decode(m, pa) =
        [channel |-> c, rank |-> Memtest!Rank(m, c, pa),
         bg      |-> Memtest!BankGroup(pa), bank |-> Memtest!Bank(pa), row |-> Memtest!Row(m, pa)]
  BY Zenon DEF Memtest!Decode, c
<1> QED
  BY <1>2, <1>5, <1>6, Zenon

(* What is recorded of a decoded address is a row record. *)
LEMMA RowOfTypes ==
  ASSUME NEW m, NEW pa, Memtest!Channels(m) # {}
  PROVE  RowOf(Memtest!Decode(m, pa)) \in RowRecords
<1> DEFINE c == Memtest!Channel(m, pa)
<1>1. c \in 0..1
  BY ChannelType
<1>2. Memtest!Rank(m, c, pa).rank \in 0..7
  BY <1>1, RankType
<1>3. Memtest!BankGroup(pa) \in (0..1) \X (0..1) /\ Memtest!Bank(pa) \in (0..1) \X (0..1)
  BY BankTypes
<1>4. Memtest!Row(m, pa) \in SUBSET (0..20)
  <2>1. Memtest!RowBits(m) \in 1..20
    BY RowBitsTypes
  <2> QED
    BY <2>1 DEF Memtest!Row
<1> HIDE DEF c
<1>5. RowOf(Memtest!Decode(m, pa)) =
        [channel |-> c, rank |-> Memtest!Rank(m, c, pa).rank,
         bg      |-> Memtest!BankGroup(pa), bank |-> Memtest!Bank(pa), row |-> Memtest!Row(m, pa)]
  BY DEF Memtest!Decode, RowOf, c
<1> QED
  BY <1>1, <1>2, <1>3, <1>4, <1>5 DEF RowRecords

(* The rank of an address is decoded, or 0, for all addresses of a channel. *)
LEMMA RowFromShim ==
  ASSUME NEW m, NEW pa, NEW pb, Memtest!Channels(m) # {},
         Shim!SameRow(Shim!Decode(m, pb), RowOf(Memtest!Decode(m, pa)))
  PROVE  RowOf(Memtest!Decode(m, pb)) = RowOf(Memtest!Decode(m, pa))
<1> DEFINE da == Memtest!Decode(m, pa)
           db == Memtest!Decode(m, pb)
<1>1. Shim!Decode(m, pb) = db
  BY SameDecode
<1>2. /\ db.channel = da.channel /\ db.bg = da.bg /\ db.bank = da.bank /\ db.row = da.row
      /\ db.rank.valid => db.rank.rank = da.rank.rank
  <2> HIDE DEF da, db
  <2>1. Shim!SameRow(db, RowOf(da))
    BY <1>1 DEF da
  <2> QED
    BY <2>1 DEF Shim!SameRow, RowOf
<1>3. /\ da.channel \in 0..1
      /\ da.rank = [rank |-> Shim!Rank(m, da.channel, pa), valid |-> Shim!RankValid(m, da.channel)]
      /\ db.rank = [rank |-> Shim!Rank(m, db.channel, pb), valid |-> Shim!RankValid(m, db.channel)]
  <2>1. ASSUME NEW p
        PROVE  /\ Memtest!Decode(m, p).channel = Memtest!Channel(m, p)
               /\ Memtest!Decode(m, p).rank = Memtest!Rank(m, Memtest!Channel(m, p), p)
               /\ Memtest!Channel(m, p) \in 0..1
    BY ChannelType DEF Memtest!Decode
  <2>2. ASSUME NEW p
        PROVE  /\ Memtest!Decode(m, p).channel \in 0..1
               /\ Memtest!Decode(m, p).rank = [rank |-> Shim!Rank(m, Memtest!Decode(m, p).channel, p),
                                               valid |-> Shim!RankValid(m, Memtest!Decode(m, p).channel)]
    BY <2>1, SameRank, Zenon
  <2> QED
    BY <2>2
<1> HIDE DEF da, db
<1>4. db.rank.rank = da.rank.rank
  <2>1. CASE db.rank.valid
    BY <1>2, <2>1
  <2>2. CASE ~db.rank.valid
    <3>1. ~Shim!RankValid(m, db.channel) /\ ~Shim!RankValid(m, da.channel)
      BY <1>2, <1>3, <2>2
    <3>2. Shim!Rank(m, db.channel, pb) = 0 /\ Shim!Rank(m, da.channel, pa) = 0
      BY <3>1, Zenon DEF Shim!Rank
    <3> QED
      BY <1>3, <3>2
  <2> QED
    BY <2>1, <2>2
<1>5. RowOf(db) = RowOf(da)
  BY <1>2, <1>4, Zenon DEF RowOf
<1> QED
  BY <1>5 DEF da, db
-----------------------------------------------------------------------------
(* Decoding needs registers, and the names of chips a board; rows and chips *)
(* come from decoding.                                                       *)
ValidInv ==
  /\ rows # <<>> \/ chips # {} => Memtest!Valid(machine)
  /\ chips # {} => Boards # {}

(* Which way the machine came to where it is. *)
FlowInv ==
  /\ phase = "test" => rows = <<>> /\ chips = {} /\ pos = 1
  /\ phase \in {"test", "decode", "off"} => listed = {} /\ asked = {}
  /\ phase = "rows" \/ (phase = "masked" /\ listed = {}) => listed = {} /\ rows # <<>> /\ Shim!Valid(machine)
  /\ phase = "chips" => listed # {} /\ asked = {}
  /\ listed # {} => resolved = UNION {Places(name) : name \in listed}
  /\ phase = "masked" /\ listed # {} /\ resolved # {} =>
       \A pa \in Pages : Shim!Below(machine, pa) /\ OnChip(Shim!Decode(machine, pa)) => pa \in asked

(* The log up to pos has been decoded. *)
Decoded(i) == phase # "test" /\ (phase = "decode" => i < pos)
LogRow(i)  == RowOf(Memtest!Decode(machine, log[i]))

(* rows has the rows of the decoded pages, while there is room, and no other. *)
RowsInv ==
  /\ Len(rows) <= (IF phase = "decode" THEN pos - 1 ELSE Len(log))
  /\ \A k \in 1..Len(rows) : \E i \in 1..Len(log) : rows[k] = LogRow(i)
  /\ Memtest!Valid(machine) =>
       \A i \in 1..Len(log) : Decoded(i) => LogRow(i) \in Elements(rows) \/ Len(rows) = RowMax

(* asked has the pages of the rows up to pos, and no other. *)
AskedInv ==
  phase \in {"rows", "masked"} /\ listed = {} =>
    /\ \A pa \in asked : \E k \in 1..Len(rows) : pa \in Shim!RowPages(machine, Pages, rows[k])
    /\ \A k \in 1..Len(rows) :
         (phase = "rows" => k < pos) => Shim!EnumerateRow(machine, Pages, rows[k], RowEnumCap) \subseteq asked

IInv == TypeOK /\ ValidInv /\ FlowInv /\ RowsInv /\ AskedInv

(* A controller that memtest86+ decodes for has memory. *)
LEMMA ValidMemory == \A m : Memtest!Valid(m) => Memtest!Channels(m) # {}
BY DEF Memtest!Valid

(* The initial states, and the steps of every action, keep IInv. *)
LEMMA InitInv == Init => IInv
BY LimitsAssumption DEF Decoded, Init, IInv, TypeOK, ValidInv, FlowInv, RowsInv, AskedInv

LEMMA ReportInv == ASSUME IInv, NEW a \in Addresses, Report(a) PROVE IInv'
<1> USE DEF IInv
<1>1. log \in Seq(Pages) /\ Page(a) \in Pages
  BY AddressAssumption DEF TypeOK
<1>2. log' \in Seq(Pages)
  BY <1>1 DEF Report
<1>3. phase' = "test" /\ rows' = <<>> /\ chips' = {} /\ pos' = 1 /\ listed' = {} /\ asked' = {} /\ rows = <<>>
  BY DEF Report, FlowInv
<1>4. TypeOK'
  BY <1>2, <1>3, LimitsAssumption DEF TypeOK, Report
<1>5. ValidInv'
  BY <1>3 DEF ValidInv, Boards
<1>6. FlowInv'
  BY <1>3 DEF FlowInv
<1>7. RowsInv'
  BY <1>2, <1>3 DEF RowsInv, Decoded
<1>8. AskedInv'
  BY <1>3 DEF AskedInv
<1> QED
  BY <1>4, <1>5, <1>6, <1>7, <1>8

LEMMA EndPassInv == ASSUME IInv, EndPass PROVE IInv'
<1> USE DEF IInv
<1>1. log \in Seq(Pages) /\ rows = <<>> /\ chips = {} /\ listed = {} /\ asked = {}
  BY DEF TypeOK, FlowInv, EndPass
<1>2. TypeOK'
  BY <1>1 DEF TypeOK, EndPass
<1>3. ValidInv'
  BY DEF ValidInv, Boards, EndPass
<1>4. FlowInv'
  BY <1>1 DEF FlowInv, EndPass
<1>5. RowsInv'
  BY <1>1 DEF RowsInv, Decoded, EndPass
<1>6. AskedInv'
  BY DEF AskedInv, EndPass
<1> QED
  BY <1>2, <1>3, <1>4, <1>5, <1>6

(* The row table after a row was recorded. *)
LEMMA RecordRowFacts ==
  ASSUME rows \in Seq(RowRecords), NEW r \in RowRecords, Len(rows) <= RowMax
  PROVE  /\ RecordRow(r) \in Seq(RowRecords) /\ Len(RecordRow(r)) <= RowMax
         /\ Len(rows) <= Len(RecordRow(r)) /\ Len(RecordRow(r)) <= Len(rows) + 1
         /\ \A k \in 1..Len(RecordRow(r)) : RecordRow(r)[k] = r \/ (k \in 1..Len(rows) /\ RecordRow(r)[k] = rows[k])
         /\ Elements(rows) \subseteq Elements(RecordRow(r))
         /\ r \in Elements(RecordRow(r)) \/ Len(RecordRow(r)) = RowMax
<1> USE LimitsAssumption
<1>1. CASE r \in Elements(rows)
  BY <1>1 DEF RecordRow, Elements
<1>2. CASE r \notin Elements(rows) /\ Len(rows) >= RowMax
  BY <1>2 DEF RecordRow, Elements
<1>3. CASE r \notin Elements(rows) /\ ~(Len(rows) >= RowMax)
  <2>1. RecordRow(r) = Append(rows, r)
    BY <1>3 DEF RecordRow
  <2>2. /\ Append(rows, r) \in Seq(RowRecords) /\ Len(Append(rows, r)) = Len(rows) + 1
        /\ \A k \in 1..Len(rows) : Append(rows, r)[k] = rows[k]
        /\ Append(rows, r)[Len(rows) + 1] = r
    OBVIOUS
  <2> QED
    BY <1>3, <2>1, <2>2 DEF Elements
<1> QED
  BY <1>1, <1>2, <1>3

LEMMA DecodeNextInv == ASSUME IInv, DecodeNext PROVE IInv'
<1> USE DEF IInv
<1> DEFINE r == LogRow(pos)
<1>1. /\ log \in Seq(Pages) /\ rows \in Seq(RowRecords) /\ Len(rows) <= RowMax
      /\ pos \in 1..Len(log) /\ phase = "decode" /\ listed = {} /\ asked = {}
  BY DEF TypeOK, FlowInv, DecodeNext
<1>2. /\ phase' = "decode" /\ pos' = pos + 1 /\ listed' = {} /\ asked' = {} /\ log' = log
      /\ machine' = machine /\ product' = product /\ errors' = errors
  BY <1>1 DEF DecodeNext
<1>3. /\ rows' \in Seq(RowRecords) /\ Len(rows') <= RowMax
      /\ Len(rows') <= Len(rows) + 1 /\ Len(rows') >= Len(rows)
      /\ \A k \in 1..Len(rows') : rows'[k] = r \/ (k \in 1..Len(rows) /\ rows'[k] = rows[k])
      /\ Elements(rows) \subseteq Elements(rows')
      /\ Memtest!Valid(machine) => r \in Elements(rows') \/ Len(rows') = RowMax
  <2>1. CASE Memtest!Valid(machine)
    <3>1. rows' = RecordRow(r)
      BY <2>1 DEF DecodeNext, LogRow
    <3>2. r \in RowRecords
      BY <2>1, ValidMemory, RowOfTypes DEF LogRow
    <3> HIDE DEF r
    <3> QED
      BY <1>1, <3>1, <3>2, RecordRowFacts
  <2>2. CASE ~Memtest!Valid(machine)
    <3>1. rows' = rows
      BY <2>2 DEF DecodeNext
    <3> QED
      BY <1>1, <2>2, <3>1
  <2> QED
    BY <2>1, <2>2
<1>4. TypeOK'
  BY <1>1, <1>2, <1>3 DEF TypeOK
<1>5. ValidInv'
  <2>1. rows' # <<>> \/ chips' # {} => Memtest!Valid(machine)
    BY DEF ValidInv, DecodeNext
  <2>2. chips' # {} => Boards # {}
    <3>1. Boards = {} => Suspects(Memtest!Decode(machine, log[pos])) = {}
      BY DEF Suspects
    <3> QED
      BY <3>1 DEF ValidInv, DecodeNext
  <2>3. Boards' = Boards
    BY <1>2 DEF Boards
  <2> QED
    BY <1>2, <2>1, <2>2, <2>3 DEF ValidInv
<1>6. FlowInv'
  BY <1>1, <1>2 DEF FlowInv
<1>7. RowsInv'
  <2>1. \A i : LogRow(i)' = LogRow(i)
    BY <1>2 DEF LogRow
  <2>2. Len(rows') <= pos' - 1
    BY <1>1, <1>2, <1>3 DEF RowsInv
  <2>3. ASSUME NEW k \in 1..Len(rows') PROVE \E i \in 1..Len(log) : rows'[k] = LogRow(i)
    <3>1. CASE rows'[k] = r
      BY <1>1, <3>1
    <3>2. CASE k \in 1..Len(rows) /\ rows'[k] = rows[k]
      BY <3>2 DEF RowsInv
    <3> QED
      BY <1>3, <3>1, <3>2
  <2>4. ASSUME Memtest!Valid(machine), NEW i \in 1..Len(log), i < pos + 1
        PROVE  LogRow(i) \in Elements(rows') \/ Len(rows') = RowMax
    <3>1. CASE i = pos
      BY <1>3, <2>4, <3>1
    <3>2. CASE i < pos
      <4>1. LogRow(i) \in Elements(rows) \/ Len(rows) = RowMax
        BY <1>1, <2>4, <3>2 DEF RowsInv, Decoded
      <4> QED
        BY <1>1, <1>3, <4>1
    <3> QED
      BY <1>1, <2>4, <3>1, <3>2
  <2> HIDE DEF r
  <2>5. Memtest!Valid(machine') =>
          \A i \in 1..Len(log') : Decoded(i)' => LogRow(i)' \in Elements(rows)' \/ Len(rows') = RowMax
    BY <1>2, <2>1, <2>4 DEF Decoded, Elements
  <2> QED
    BY <1>2, <2>1, <2>2, <2>3, <2>5 DEF RowsInv
<1>8. AskedInv'
  BY <1>2 DEF AskedInv
<1> QED
  BY <1>4, <1>5, <1>6, <1>7, <1>8

LEMMA EndOfDecodeInv == ASSUME IInv, EndOfDecode PROVE IInv'
<1> USE DEF IInv
<1>1. log \in Seq(Pages) /\ listed = {} /\ asked = {} /\ pos \in 1..Len(log) + 1 /\ pos > Len(log)
  BY DEF TypeOK, FlowInv, EndOfDecode
<1>2. TypeOK'
  BY DEF TypeOK, EndOfDecode
<1>3. ValidInv'
  BY DEF ValidInv, Boards, EndOfDecode
<1>4. FlowInv'
  BY <1>1 DEF FlowInv, EndOfDecode
<1>5. RowsInv'
  BY <1>1 DEF RowsInv, Decoded, LogRow, EndOfDecode
<1>6. AskedInv'
  BY DEF AskedInv, EndOfDecode
<1> QED
  BY <1>2, <1>3, <1>4, <1>5, <1>6
-----------------------------------------------------------------------------
LEMMA BootRowsInv == ASSUME IInv, BootRows PROVE IInv'
<1> USE DEF IInv
<1>1. log \in Seq(Pages) /\ listed = {} /\ asked = {} /\ phase = "off" /\ phase' \in {"rows", "refused"}
  BY DEF TypeOK, FlowInv, BootRows
<1>2. /\ pos' = 1 /\ listed' = {} /\ asked' = {} /\ rows' = rows /\ rows # <<>> /\ chips' = chips
      /\ machine' = machine /\ product' = product /\ errors' = errors /\ log' = log /\ resolved' = resolved
      /\ phase' = "rows" => Shim!Valid(machine)
  BY <1>1 DEF BootRows
<1>3. TypeOK'
  BY <1>1, <1>2 DEF TypeOK
<1>4. ValidInv'
  BY <1>2 DEF ValidInv, Boards
<1>5. FlowInv'
  BY <1>1, <1>2 DEF FlowInv
<1>6. RowsInv'
  BY <1>1, <1>2 DEF RowsInv, Decoded, LogRow
<1>7. AskedInv'
  BY <1>1, <1>2 DEF AskedInv, TypeOK
<1> QED
  BY <1>3, <1>4, <1>5, <1>6, <1>7

LEMMA MaskRowInv == ASSUME IInv, MaskRow PROVE IInv'
<1> USE DEF IInv
<1> DEFINE E(k) == Shim!EnumerateRow(machine, Pages, rows[k], RowEnumCap)
<1>1. /\ log \in Seq(Pages) /\ listed = {} /\ phase = "rows" /\ phase' = "rows" /\ rows # <<>>
      /\ Shim!Valid(machine) /\ pos \in 1..Len(rows) /\ Len(rows) <= Len(log) /\ rows \in Seq(RowRecords)
      /\ asked \subseteq Pages
  BY DEF TypeOK, FlowInv, RowsInv, MaskRow
<1>2. /\ pos' = pos + 1 /\ listed' = {} /\ asked' = asked \cup E(pos) /\ rows' = rows /\ chips' = chips
      /\ machine' = machine /\ product' = product /\ errors' = errors /\ log' = log /\ resolved' = resolved
  BY <1>1 DEF MaskRow
<1>3. \A k : E(k) \subseteq Shim!RowPages(machine, Pages, rows[k])
  BY Zenon DEF Shim!EnumerateRow
<1>4. \A k : Shim!RowPages(machine, Pages, rows[k]) \subseteq Pages
  BY Zenon DEF Shim!RowPages
<1>5. TypeOK'
  <2>1. asked' \subseteq Pages
    BY <1>1, <1>2, <1>3, <1>4
  <2> HIDE DEF E
  <2> QED
    BY <1>1, <1>2, <2>1 DEF TypeOK
<1>6. ValidInv'
  BY <1>2 DEF ValidInv, Boards
<1>7. FlowInv'
  BY <1>1, <1>2 DEF FlowInv
<1>8. RowsInv'
  BY <1>1, <1>2 DEF RowsInv, Decoded, LogRow
<1>9. AskedInv'
  <2>1. ASSUME NEW pa \in asked'
        PROVE  \E k \in 1..Len(rows) : pa \in Shim!RowPages(machine, Pages, rows[k])
    <3>1. CASE pa \in asked
      BY <1>1, <3>1 DEF AskedInv
    <3>2. CASE pa \in E(pos)
      BY <1>1, <1>3, <3>2
    <3> HIDE DEF E
    <3> QED
      BY <1>2, <2>1, <3>1, <3>2
  <2>2. ASSUME NEW k \in 1..Len(rows), k < pos + 1 PROVE E(k) \subseteq asked'
    <3>1. CASE k = pos
      BY <1>2, <3>1
    <3>2. CASE k < pos
      <4>1. E(k) \subseteq asked
        BY <1>1, <3>2 DEF AskedInv
      <4> HIDE DEF E
      <4> QED
        BY <1>2, <4>1
    <3> QED
      BY <1>1, <2>2, <3>1, <3>2
  <2>3. \A k \in 1..Len(rows) : (phase' = "rows" => k < pos') => E(k) \subseteq asked'
    <3> HIDE DEF E
    <3> QED
      BY <1>1, <1>2, <2>2
  <2>4. machine' = machine /\ rows' = rows
    BY <1>2
  <2> QED
    BY <2>1, <2>3, <2>4, Zenon DEF AskedInv
<1> QED
  BY <1>5, <1>6, <1>7, <1>8, <1>9

LEMMA EndOfRowsInv == ASSUME IInv, EndOfRows PROVE IInv'
<1> USE DEF IInv
<1>1. /\ log \in Seq(Pages) /\ listed = {} /\ phase = "rows" /\ rows # <<>> /\ Shim!Valid(machine)
      /\ pos > Len(rows) /\ pos \in 1..Len(log) + 1 /\ rows \in Seq(RowRecords)
  BY DEF TypeOK, FlowInv, EndOfRows
<1>2. /\ pos' = pos /\ listed' = {} /\ asked' = asked /\ rows' = rows /\ chips' = chips /\ phase' = "masked"
      /\ machine' = machine /\ product' = product /\ errors' = errors /\ log' = log /\ resolved' = resolved
  BY <1>1 DEF EndOfRows
<1>3. TypeOK'
  BY <1>2 DEF TypeOK
<1>4. ValidInv'
  BY <1>2 DEF ValidInv, Boards
<1>5. FlowInv'
  BY <1>1, <1>2 DEF FlowInv
<1>6. RowsInv'
  BY <1>1, <1>2 DEF RowsInv, Decoded, LogRow
<1>7. AskedInv'
  <2>1. \A k \in 1..Len(rows) : k < pos
    BY <1>1
  <2>2. /\ \A pa \in asked : \E k \in 1..Len(rows) : pa \in Shim!RowPages(machine, Pages, rows[k])
        /\ \A k \in 1..Len(rows) : Shim!EnumerateRow(machine, Pages, rows[k], RowEnumCap) \subseteq asked
    BY <1>1, <2>1 DEF AskedInv
  <2>3. machine' = machine /\ rows' = rows /\ asked' = asked
    BY <1>2
  <2> QED
    BY <2>2, <2>3, Zenon DEF AskedInv
<1> QED
  BY <1>3, <1>4, <1>5, <1>6, <1>7

LEMMA BootChipsInv == ASSUME IInv, BootChips PROVE IInv'
<1> USE DEF IInv
<1>1. /\ log \in Seq(Pages) /\ asked = {} /\ phase = "off" /\ listed' # {} /\ listed' \subseteq chips
      /\ phase' \in {"masked", "chips", "refused"} /\ (phase' = "masked" => resolved' = {})
  BY DEF TypeOK, FlowInv, BootChips
<1>2. /\ pos' = pos /\ asked' = asked /\ rows' = rows /\ chips' = chips
      /\ machine' = machine /\ product' = product /\ errors' = errors /\ log' = log
      /\ resolved' = UNION {Places(name) : name \in listed'}
  BY DEF BootChips
<1>3. TypeOK'
  BY <1>1, <1>2 DEF TypeOK
<1>4. ValidInv'
  BY <1>2 DEF ValidInv, Boards
<1>5. FlowInv'
  <2>1. UNION {Places(name)' : name \in listed'} = UNION {Places(name) : name \in listed'}
    BY DEF Places, PackageNames
  <2>2. (UNION {Places(name) : name \in listed})' = UNION {Places(name) : name \in listed'}
    BY <2>1
  <2> QED
    BY <1>1, <1>2, <2>2 DEF FlowInv
<1>6. RowsInv'
  BY <1>1, <1>2 DEF RowsInv, Decoded, LogRow
<1>7. AskedInv'
  BY <1>1 DEF AskedInv
<1> QED
  BY <1>3, <1>4, <1>5, <1>6, <1>7

LEMMA MaskChipsInv == ASSUME IInv, MaskChips PROVE IInv'
<1> USE DEF IInv
<1>1. /\ log \in Seq(Pages) /\ listed # {} /\ phase = "chips" /\ phase' = "masked"
      /\ asked' = {pa \in Pages : Shim!Below(machine, pa) /\ OnChip(Shim!Decode(machine, pa))}
  BY DEF TypeOK, FlowInv, MaskChips
<1>2. /\ pos' = pos /\ rows' = rows /\ chips' = chips /\ listed' = listed
      /\ machine' = machine /\ product' = product /\ errors' = errors /\ log' = log /\ resolved' = resolved
  BY DEF MaskChips
<1>3. TypeOK'
  <2>1. asked' \subseteq Pages
    BY <1>1, Zenon
  <2> QED
    BY <1>1, <1>2, <2>1 DEF TypeOK
<1>4. ValidInv'
  BY <1>2 DEF ValidInv, Boards
<1>5. FlowInv'
  <2>1. \A d : OnChip(d)' = OnChip(d)
    BY <1>2 DEF OnChip
  <2>2. \A pa \in Pages : Shim!Below(machine', pa) /\ OnChip(Shim!Decode(machine', pa)) => pa \in asked'
    BY <1>1, <1>2, Zenon
  <2>3. \A pa \in Pages : Shim!Below(machine', pa) /\ OnChip(Shim!Decode(machine, pa))' => pa \in asked'
    BY <1>2, <2>1, <2>2, Zenon
  <2>4. listed # {} => resolved' = UNION {Places(name) : name \in listed}
    BY <1>2 DEF FlowInv
  <2>5. listed' # {} => resolved' = UNION {Places(name) : name \in listed'}
    BY <1>2, <2>4, Zenon
  <2>6. /\ phase' = "masked" /\ listed' # {}
    BY <1>1, <1>2
  <2> QED
    BY <2>3, <2>5, <2>6 DEF FlowInv
<1>6. RowsInv'
  BY <1>1, <1>2 DEF RowsInv, Decoded, LogRow
<1>7. AskedInv'
  BY <1>1, <1>2 DEF AskedInv
<1> QED
  BY <1>3, <1>4, <1>5, <1>6, <1>7

LEMMA StutterInv == ASSUME IInv, UNCHANGED vars PROVE IInv'
<1> USE DEF IInv
<1>1. /\ pos' = pos /\ rows' = rows /\ chips' = chips /\ listed' = listed /\ phase' = phase /\ asked' = asked
      /\ machine' = machine /\ product' = product /\ errors' = errors /\ log' = log /\ resolved' = resolved
  BY DEF vars
<1>2. TypeOK'
  BY <1>1 DEF TypeOK
<1>3. ValidInv'
  BY <1>1 DEF ValidInv, Boards
<1>4. FlowInv'
  BY <1>1 DEF FlowInv, OnChip, Places, PackageNames
<1>5. RowsInv'
  BY <1>1 DEF RowsInv, Decoded, LogRow, Elements
<1>6. AskedInv'
  BY <1>1 DEF AskedInv
<1> QED
  BY <1>2, <1>3, <1>4, <1>5, <1>6

(* IInv is an invariant. *)
LEMMA Inductive == Spec => []IInv
<1>1. ASSUME IInv, [Next]_vars PROVE IInv'
  BY <1>1, ReportInv, EndPassInv, DecodeNextInv, EndOfDecodeInv, BootRowsInv, MaskRowInv, EndOfRowsInv,
     BootChipsInv, MaskChipsInv, StutterInv, Zenon DEF Next
<1> QED
  BY InitInv, <1>1, PTL DEF Spec
-----------------------------------------------------------------------------
(* Every variable keeps its type and the row table its capacity. *)
THEOREM DecodeTypes == Spec => []TypeOK
BY Inductive, PTL DEF IInv

(* memtest86+ and the shim decode every logged page alike, so a row or chip   *)
(* recorded by the one is found again by the other.                         *)
THEOREM DecodersEqual == Spec => []DecodersAgree
<1>1. DecodersAgree
  BY ValidMemory, SameDecode, Zenon DEF DecodersAgree
<1> QED
  BY <1>1, PTL

(* The row width computed from any registers is one that the mask is built *)
(* from: the decoders' different fallbacks are never taken.                 *)
THEOREM RowWidthsFit == Spec => []RowBitsFit
<1>1. RowBitsFit
  BY ValidMemory, RowBitsTypes, Zenon DEF RowBitsFit
<1> QED
  BY <1>1, PTL

(* mask_rows asks only for pages of rows that were logged. *)
THEOREM RowsTakeOnlyRows == Spec => []RowsOnly
<1>1. ASSUME IInv PROVE RowsOnly
  <2>1. SUFFICES ASSUME phase \in {"rows", "masked"}, listed = {}, NEW pa \in asked
                 PROVE  \E i \in 1..Len(log) :
                          RowOf(Memtest!Decode(machine, pa)) = RowOf(Memtest!Decode(machine, log[i]))
    BY Zenon DEF RowsOnly
  <2>2. PICK k \in 1..Len(rows) : pa \in Shim!RowPages(machine, Pages, rows[k])
    BY <1>1, <2>1, Zenon DEF IInv, AskedInv
  <2>3. PICK i \in 1..Len(log) : rows[k] = LogRow(i)
    BY <1>1, Zenon DEF IInv, RowsInv
  <2>4. Memtest!Channels(machine) # {}
    <3>1. rows # <<>>
      BY <1>1, <2>1 DEF IInv, FlowInv
    <3> QED
      BY <1>1, <3>1, ValidMemory DEF IInv, ValidInv
  <2>5. Shim!SameRow(Shim!Decode(machine, pa), RowOf(Memtest!Decode(machine, log[i])))
    BY <2>2, <2>3, Zenon DEF Shim!RowPages, LogRow
  <2> QED
    BY <2>4, <2>5, RowFromShim, Zenon
<1> QED
  BY <1>1, Inductive, PTL

(* The pages of a row are all asked for if they are fewer than the cap. *)
LEMMA EnumeratesAll ==
  ASSUME NEW m, NEW r, ~(Cardinality(Shim!RowPages(m, Pages, r)) >= RowEnumCap)
  PROVE  Shim!EnumerateRow(m, Pages, r, RowEnumCap) = Shim!RowPages(m, Pages, r)
<1> DEFINE found == Shim!RowPages(m, Pages, r)
           before(pa) == {q \in found : Shim!LowerAddress(q, pa)}
<1>1. IsFiniteSet(found)
  <2>1. found \subseteq Pages
    BY Zenon DEF Shim!RowPages
  <2>2. IsFiniteSet(Pages)
    BY AddressAssumption
  <2> QED
    BY <2>1, <2>2, FS_Subset
<1>2. \A pa : Cardinality(before(pa)) < RowEnumCap
  <2>1. SUFFICES ASSUME NEW pa PROVE Cardinality(before(pa)) < RowEnumCap
    BY Zenon
  <2>2. before(pa) \subseteq found
    BY Zenon
  <2> HIDE DEF before, found
  <2>3. /\ Cardinality(before(pa)) <= Cardinality(found)
        /\ Cardinality(before(pa)) \in Nat /\ Cardinality(found) \in Nat
    BY <1>1, <2>2, FS_Subset, FS_CardinalityType
  <2> QED
    BY <2>3, LimitsAssumption DEF found
<1>3. Shim!EnumerateRow(m, Pages, r, RowEnumCap) = {pa \in found : Cardinality(before(pa)) < RowEnumCap}
  BY SharedBits, Zenon DEF Shim!EnumerateRow
<1> HIDE DEF before, found
<1>4. Shim!EnumerateRow(m, Pages, r, RowEnumCap) = found
  BY <1>2, <1>3, Zenon
<1> QED
  BY <1>4 DEF found

(* Every logged page is asked for again by mask_rows, up to full tables. *)
THEOREM RowsAreMasked == Spec => []RowsMasked
<1>1. ASSUME IInv PROVE RowsMasked
  <2>1. SUFFICES ASSUME phase = "masked", listed = {}, NEW i \in 1..Len(log),
                        Shim!Below(machine, log[i]),
                        ~(Len(rows) = RowMax /\ LogRow(i) \notin Elements(rows)),
                        \A k \in 1..Len(rows) : ~(Cardinality(Shim!RowPages(machine, Pages, rows[k])) >= RowEnumCap)
                 PROVE  log[i] \in asked
    BY Zenon DEF RowsMasked, LogRow
  <2>2. Memtest!Valid(machine) /\ Memtest!Channels(machine) # {}
    <3>1. rows # <<>>
      BY <1>1, <2>1 DEF IInv, FlowInv
    <3> QED
      BY <1>1, <3>1, ValidMemory DEF IInv, ValidInv
  <2>3. LogRow(i) \in Elements(rows)
    BY <1>1, <2>1, <2>2 DEF IInv, RowsInv, Decoded
  <2>4. PICK k \in 1..Len(rows) : rows[k] = LogRow(i)
    BY <2>3, Zenon DEF Elements
  <2>5. log[i] \in Pages
    BY <1>1 DEF IInv, TypeOK
  <2>6. Shim!SameRow(Shim!Decode(machine, log[i]), rows[k])
    <3> DEFINE d == Memtest!Decode(machine, log[i])
    <3>1. Shim!Decode(machine, log[i]) = d
      BY <2>2, SameDecode
    <3>2. rows[k] = RowOf(d)
      BY <2>4 DEF LogRow
    <3> HIDE DEF d
    <3>3. Shim!SameRow(d, RowOf(d))
      BY DEF Shim!SameRow, RowOf
    <3> QED
      BY <3>1, <3>2, <3>3
  <2>7. log[i] \in Shim!RowPages(machine, Pages, rows[k])
    BY <2>1, <2>5, <2>6, Zenon DEF Shim!RowPages
  <2>8. log[i] \in Shim!EnumerateRow(machine, Pages, rows[k], RowEnumCap)
    BY <2>1, <2>7, EnumeratesAll, Zenon
  <2>9. Shim!EnumerateRow(machine, Pages, rows[k], RowEnumCap) \subseteq asked
    BY <1>1, <2>1 DEF IInv, AskedInv
  <2> QED
    BY <2>8, <2>9
<1> QED
  BY <1>1, Inductive, PTL
-----------------------------------------------------------------------------
(* Min of a set of numbers is in the set. *)
LEMMA MinOfNats ==
  ASSUME NEW S, S \subseteq Nat, S # {}
  PROVE  Min(S) \in S
<1>1. PICK x \in S : \A y \in S : ~(<<y, x>> \in OpToRel(<, Nat))
  BY NatLessThanWellFounded, WFMin, Zenon
<1>2. \A y \in S : <<y, x>> \in OpToRel(<, Nat) <=> y < x
  BY DEF OpToRel
<1>3. \A y \in S : ~(y < x)
  BY <1>1, <1>2, Zenon
<1>4. \A y \in S : x <= y
  BY <1>3
<1> QED
  BY <1>4, MinChosen

(* A chip that stands at a place is resolved to that place, among others. *)
LEMMA NameResolves ==
  ASSUME Boards # {}, NEW c, NEW r, NEW lane, NEW name \in Lookup(c, r, lane)
  PROVE  <<c, r>> \in Places(name)
<1> DEFINE b == Min(Boards)
           named == {i \in 1..Len(Profiles) : name \in PackageNames(Profiles[i])}
<1>1. Len(Profiles) \in Nat
  BY BoardAssumption
<1>2. b \in 1..Len(Profiles)
  <2>1. Boards \subseteq 1..Len(Profiles)
    BY Zenon DEF Boards
  <2>2. Boards \subseteq Nat
    BY <1>1, <2>1
  <2>3. b \in Boards
    BY <2>2, MinOfNats
  <2> QED
    BY <2>1, <2>3
<1> HIDE DEF b
<1>3. Board = Profiles[b]
  BY DEF Board, b
<1>4. PICK k \in 1..Len(Profiles[b].packages) :
        /\ At(Profiles[b].packages[k], c, r, lane)
        /\ name = Profiles[b].packages[k].designator
  BY <1>3, Zenon DEF Lookup
<1>5. b \in named
  BY <1>2, <1>4, Zenon DEF PackageNames
<1>6. \A i \in named : i = b
  <2>1. SUFFICES ASSUME NEW i \in named, i # b PROVE FALSE
    BY Zenon
  <2>2. name \in PackageNames(Profiles[i]) /\ name \in PackageNames(Profiles[b]) /\ i \in 1..Len(Profiles)
    BY <1>5, Zenon
  <2>3. \A x \in 1..Len(Profiles) : \A j \in 1..x - 1 :
          PackageNames(Profiles[x]) \cap PackageNames(Profiles[j]) = {}
    BY BoardAssumption, Zenon
  <2> HIDE DEF named
  <2>4. CASE i < b
    <3>1. i \in 1..b - 1
      BY <1>1, <1>2, <2>2, <2>4
    <3> QED
      BY <1>2, <2>2, <2>3, <3>1
  <2>5. CASE b < i
    <3>1. b \in 1..i - 1
      BY <1>1, <1>2, <2>2, <2>5
    <3> QED
      BY <1>2, <2>2, <2>3, <3>1
  <2>6. i < b \/ b < i
    BY <1>1, <1>2, <2>1, <2>2
  <2> QED
    BY <2>4, <2>5, <2>6
<1>7. Min(named) = b
  <2>1. named \subseteq Nat
    <3>1. named \subseteq 1..Len(Profiles)
      BY Zenon
    <3> HIDE DEF named
    <3> QED
      BY <1>1, <3>1
  <2> HIDE DEF named
  <2>2. Min(named) \in named
    BY <1>5, <2>1, MinOfNats
  <2> QED
    BY <1>6, <2>2
<1>8. named # {}
  BY <1>5
<1>9. Places(name) = {<<Profiles[b].packages[i].channel, Profiles[b].packages[i].rank>> :
                        i \in {j \in 1..Len(Profiles[b].packages) : Profiles[b].packages[j].designator = name}}
  BY <1>7, <1>8, Zenon DEF Places
<1>10. Profiles[b].packages[k].channel = c /\ Profiles[b].packages[k].rank = r
  BY <1>4, Zenon DEF At
<1> HIDE DEF named
<1>11. <<Profiles[b].packages[k].channel, Profiles[b].packages[k].rank>> \in Places(name)
  BY <1>4, <1>9, Zenon
<1> QED
  BY <1>10, <1>11

(* A rank that cannot be decoded is 0. *)
LEMMA UnknownRank ==
  ASSUME NEW m, NEW pa, ~Memtest!Decode(m, pa).rank.valid
  PROVE  Memtest!Decode(m, pa).rank.rank = 0
<1>1. Memtest!Decode(m, pa).rank = Memtest!Rank(m, Memtest!Channel(m, pa), pa)
  BY DEF Memtest!Decode
<1> QED
  BY <1>1 DEF Memtest!Rank

(* Every logged page is asked for again by mask_chips when a chip that       *)
(* memtest86+ names for it is listed, unless the rank of the page is not     *)
(* known and the chip is of a rank other than 0.                             *)
THEOREM ChipsAreMasked == Spec => []ChipsMasked
<1>1. ASSUME IInv PROVE ChipsMasked
  <2> DEFINE d(i) == Memtest!Decode(machine, log[i])
  <2>1. SUFFICES ASSUME phase = "masked", listed # {}, NEW i \in 1..Len(log), NEW name \in listed,
                        Shim!Below(machine, log[i]), name \in Suspects(d(i)),
                        d(i).rank.valid \/ <<d(i).channel, 0>> \in Places(name)
                 PROVE  log[i] \in asked
    BY Zenon DEF ChipsMasked
  <2>2. Memtest!Channels(machine) # {}
    <3>1. chips # {}
      BY <1>1, <2>1 DEF IInv, TypeOK
    <3> QED
      BY <1>1, <3>1, ValidMemory DEF IInv, ValidInv
  <2>3. Shim!Decode(machine, log[i]) = d(i)
    BY <2>2, SameDecode
  <2>4. ~d(i).rank.valid => d(i).rank.rank = 0
    BY UnknownRank
  <2> HIDE DEF d
  <2>5. Boards # {}
    BY <1>1, <2>1 DEF IInv, TypeOK, ValidInv
  <2>6. <<d(i).channel, d(i).rank.rank>> \in Places(name)
    <3>1. CASE ~d(i).rank.valid
      BY <2>1, <2>4, <3>1, Zenon
    <3>2. CASE d(i).rank.valid
      <4> DEFINE c == d(i).channel
                 r == d(i).rank.rank
      <4>1. Suspects(d(i)) = UNION {UNION {Lookup(c, x, lane) : lane \in 0..7} : x \in {r}}
        BY <2>5, <3>2 DEF Suspects
      <4> HIDE DEF c, r
      <4>2. PICK lane \in 0..7 : name \in Lookup(c, r, lane)
        BY <2>1, <4>1
      <4> QED
        BY <2>5, <4>2, NameResolves DEF c, r
    <3> QED
      BY <3>1, <3>2
  <2> QED
    <3>1. <<d(i).channel, d(i).rank.rank>> \in resolved
      BY <1>1, <2>1, <2>6, Zenon DEF IInv, FlowInv
    <3>2. OnChip(Shim!Decode(machine, log[i]))
      BY <2>3, <3>1 DEF OnChip
    <3>3. log[i] \in Pages
      BY <1>1 DEF IInv, TypeOK
    <3>4. resolved # {}
      BY <3>1
    <3> QED
      BY <1>1, <2>1, <3>2, <3>3, <3>4, Zenon DEF IInv, FlowInv
<1> QED
  BY <1>1, Inductive, PTL
=============================================================================
