------------------------------ MODULE CflSklKbl -------------------------------
(* cfl_skl_kbl.c: the decoder of memtest86+. *)
EXTENDS ImcBits

(* cfl_skl_config: an MCHBAR window that is off is switched on. *)
Readable(m) == m.cfl /\ m.window \in {"open", "closed"}

(* decode_mad_dimm: the DIMMs of channel c, their size in MiB. *)
Dimm(m, c, d) ==
  IF d = 0 THEN [size  |-> 1024 * Field(m.dimm[c], 0, 6),
                 ranks |-> 2^Field(m.dimm[c], 8, 2),
                 width |-> IF 10 \in m.dimm[c] THEN 16 ELSE 8]
           ELSE [size  |-> 1024 * Field(m.dimm[c], 16, 6),
                 ranks |-> 2^Field(m.dimm[c], 12, 2),
                 width |-> IF 11 \in m.dimm[c] THEN 16 ELSE 8]
Populated(m) == {s \in (0..1) \X (0..1) : Dimm(m, s[1], s[2]).size > 0}
Channels(m)  == {s[1] : s \in Populated(m)}
Valid(m)     == Readable(m) /\ Channels(m) # {}

(* cfl_skl_decode_channel *)
Channel(m, pa) ==
  IF Cardinality(Channels(m)) = 1 THEN CHOOSE c \in 0..1 : c \in Channels(m)
  ELSE IF 0 \notin m.hash THEN Parity(pa \cap {6})
  ELSE Parity({b \in pa : b \in 6..19 /\ b \in m.hash})

(* cfl_skl_decode_rank *)
MaxRanks(m, c) == Max({Dimm(m, s[1], s[2]).ranks : s \in {x \in Populated(m) : x[1] = c}} \cup {0})
Rank(m, c, pa) ==
  LET rankBit == Field(m.intra[c], 0, 5)
  IN IF MaxRanks(m, c) <= 1 THEN [rank |-> 0, valid |-> TRUE]
     ELSE IF 8 \in m.intra[c] /\ rankBit \in 6..40
          THEN [rank |-> Parity(pa \cap {rankBit}), valid |-> TRUE]
          ELSE [rank |-> 0, valid |-> FALSE]

(* cfl_skl_row_bits, in KiB, from the first populated DIMM. *)
FirstDimm(m) ==
  LET s == CHOOSE x \in Populated(m) :
             \A y \in Populated(m) : 2 * x[1] + x[2] <= 2 * y[1] + y[2]
  IN Dimm(m, s[1], s[2])
RowBitsOneBank(m) ==   \* mutant: the banks are not divided out
  LET dd == FirstDimm(m)
      chip == (1024 * dd.size) \div ((64 \div dd.width) * dd.ranks)
  IN Log2(chip \div (dd.width \div 8))
RowBits(m) ==
  LET dd == FirstDimm(m)
      chip == (1024 * dd.size) \div ((64 \div dd.width) * dd.ranks)
  IN Log2((chip \div (dd.width \div 8)) \div 16)

(* cfl_skl_decode_pa, with cfl_skl_decode_bank_row_col.  The column is left *)
(* out: nothing reads it.                                                   *)
BankGroup(pa) == <<Parity(pa \cap {7, 14}), Parity(pa \cap {8, 9, 12, 13, 18, 19})>>
Bank(pa)      == <<Parity(pa \cap {15, 18}), Parity(pa \cap {16, 19})>>
Row(m, pa) == IF RowBits(m) \in 1..20 THEN {b \in 0..RowBits(m) - 1 : b + 18 \in pa} ELSE {}
Decode(m, pa) ==
  [channel |-> Channel(m, pa),
   rank    |-> Rank(m, Channel(m, pa), pa),
   bg      |-> BankGroup(pa),
   bank    |-> Bank(pa),
   row     |-> Row(m, pa)]
=============================================================================
