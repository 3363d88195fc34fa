---------------------------- MODULE CflDecodeShim -----------------------------
(* cfl_decode_shim.c: the decoder of mask-shim.efi. *)
EXTENDS ImcBits

(* shim_cfl_init: an MCHBAR window that is off stays off. *)
Readable(m) == m.cfl /\ m.window = "open"

(* decode_mad_dimm *)
Size(m, c, d)  == 1024 * Field(m.dimm[c], IF d = 0 THEN 0 ELSE 16, 6)
Ranks(m, c, d) == 2^Field(m.dimm[c], IF d = 0 THEN 8 ELSE 12, 2)
Width(m, c, d) == IF (IF d = 0 THEN 10 ELSE 11) \in m.dimm[c] THEN 16 ELSE 8
Slots(m, c)    == {d \in 0..1 : Size(m, c, d) > 0}
Valid(m)       == Readable(m) /\ Slots(m, 0) \cup Slots(m, 1) # {}
TotalGB(m)     == (Size(m, 0, 0) + Size(m, 0, 1) + Size(m, 1, 0) + Size(m, 1, 1)) \div 1024

(* decode_channel, decode_rank *)
Channel(m, pa) ==
  IF Slots(m, 1) = {} THEN 0
  ELSE IF Slots(m, 0) = {} THEN 1
  ELSE IF 0 \in m.hash THEN Parity(pa \cap m.hash \cap (6..19))
  ELSE Parity(pa \cap {6})
RankBit(m, c) == Field(m.intra[c], 0, 5)
Ranked(m, c)  == \E d \in Slots(m, c) : Ranks(m, c, d) > 1
RankValid(m, c) == ~Ranked(m, c) \/ (8 \in m.intra[c] /\ RankBit(m, c) \in 6..40)
Rank(m, c, pa) ==
  IF Ranked(m, c) /\ RankValid(m, c) THEN Parity(pa \cap {RankBit(m, c)}) ELSE 0

(* shim_row_bits, in KiB. *)
RowBitsEight(m) ==   \* mutant: eight chips to a rank, whatever their width
  LET c == IF Slots(m, 0) # {} THEN 0 ELSE 1
      d == Min(Slots(m, c))
      chip == (1024 * Size(m, c, d)) \div (8 * Ranks(m, c, d))
  IN Log2((chip \div (Width(m, c, d) \div 8)) \div 16)
RowBits(m) ==
  LET c == IF Slots(m, 0) # {} THEN 0 ELSE 1
      d == Min(Slots(m, c))
      chipsPerRank == 64 \div Width(m, c, d)
      chip == (1024 * Size(m, c, d)) \div (chipsPerRank * Ranks(m, c, d))
  IN Log2((chip \div (Width(m, c, d) \div 8)) \div 16)

(* shim_cfl_decode_pa *)
RowMask(m) == IF RowBits(m) \in 1..20 THEN RowBits(m) ELSE 17
Decode(m, pa) ==
  [channel |-> Channel(m, pa),
   rank    |-> [rank |-> Rank(m, Channel(m, pa), pa), valid |-> RankValid(m, Channel(m, pa))],
   bg      |-> <<Parity(pa \cap {7, 14}), Parity(pa \cap {8, 9, 12, 13, 18, 19})>>,
   bank    |-> <<Parity(pa \cap {15, 18}), Parity(pa \cap {16, 19})>>,
   row     |-> {b \in 0..RowMask(m) - 1 : b + 18 \in pa}]

(* shim_cfl_enumerate_row: the first cap pages, in address order, that decode *)
(* to the row.                                                                *)
SameRowRanked(d, r) ==   \* mutant: a page whose rank is not known is left out
  /\ d.channel = r.channel /\ d.bg = r.bg /\ d.bank = r.bank /\ d.row = r.row
  /\ d.rank.valid /\ d.rank.rank = r.rank
SameRowAnyGroup(d, r) ==   \* mutant: the bank group is not compared
  /\ d.channel = r.channel /\ d.bank = r.bank /\ d.row = r.row
  /\ d.rank.valid => d.rank.rank = r.rank
SameRow(d, r) ==
  /\ d.channel = r.channel /\ d.bg = r.bg /\ d.bank = r.bank /\ d.row = r.row
  /\ d.rank.valid => d.rank.rank = r.rank
Below(m, pa) == Field(pa, 30, 9) < TotalGB(m)     \* pa < total, a number of GiB
RowPages(m, pages, r) == {pa \in pages : Below(m, pa) /\ SameRow(Decode(m, pa), r)}
EnumerateRow(m, pages, r, cap) ==
  LET found == RowPages(m, pages, r)
  IN {pa \in found : Cardinality({q \in found : LowerAddress(q, pa)}) < cap}
=============================================================================
