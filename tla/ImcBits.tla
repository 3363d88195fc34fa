------------------------------- MODULE ImcBits --------------------------------
(***************************************************************************)
(* Addresses and registers as the sets of their bits that are 1, for the   *)
(* two copies of the memory-controller decoder.                            *)
(***************************************************************************)
EXTENDS Integers, FiniteSets, FiniteSetsExt

Parity(bits) == Cardinality(bits) % 2

(* width bits of raw from bit lo on, as a number: at most nine. *)
Field(raw, lo, width) ==
  LET place(k) == IF k < width /\ lo + k \in raw THEN 2^k ELSE 0
  IN place(0) + place(1) + place(2) + place(3) + place(4) + place(5) + place(6) + place(7) + place(8)

(* while (v > 1) { v >>= 1; bits++; } *)
Log2(v) == IF v = 0 THEN 0 ELSE CHOOSE b \in 0..30 : 2^b <= v /\ v \div 2 < 2^b

(* a < b, as numbers. *)
LowerAddress(a, b) == a # b /\ Max((a \ b) \cup (b \ a)) \in b

(* The registers of the memory controller, and whether the code of this     *)
(* family runs and reaches them: "open" if the firmware has enabled the     *)
(* MCHBAR window, "closed" if it can be enabled, "locked" if not, "none" if *)
(* it has no address.                                                       *)
IsMachine(m) ==
  /\ m.cfl \in BOOLEAN
  /\ m.window \in {"open", "closed", "locked", "none"}
  /\ m.dimm \in [0..1 -> SUBSET (0..31)]     \* MAD_DIMM_CH0, _CH1
  /\ m.intra \in [0..1 -> SUBSET (0..31)]    \* MAD_INTRA_CH0, _CH1
  /\ m.hash \subseteq 0..31                  \* CHANNEL_HASH
=============================================================================
