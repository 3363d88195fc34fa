----------------------------- MODULE MCMemtestLog -----------------------------
(* Small instances of MemtestLog for TLC: pages of two words and regions of  *)
(* two pages, five regions mapped directly and five in the window, through   *)
(* which two stretches of physical memory are seen.                          *)
EXTENDS MemtestLog

G(s, e) == [start |-> s, end |-> e]
MCWindows == {[base |-> 0,  segs |-> <<G(2, 19)>>],
              [base |-> 0,  segs |-> <<G(2, 9), G(12, 17)>>],
              [base |-> 20, segs |-> <<G(20, 39)>>],
              [base |-> 40, segs |-> <<G(20, 31)>>]}
MCRowOf   == [p \in Addresses |-> IF p < 8 THEN "r0" ELSE IF p < 14 THEN "r1" ELSE "none"]
MCChipsOf == [p \in Addresses |-> IF p < 8 THEN <<"U1", "U2">> ELSE <<"U1", "U300">>]
MCChipLen == [c \in {"U1", "U2", "U300"} |-> IF c = "U300" THEN 2 ELSE 1]
=============================================================================
