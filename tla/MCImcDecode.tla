----------------------------- MODULE MCImcDecode ------------------------------
(* Memory controllers, a board and a small address space for ImcDecode. *)
EXTENDS ImcDecode

(* MAD_DIMM fields: size in GiB at 0 and 16, ranks at 8 and 12, width. *)
NumberBits(n) == {b \in 0..5 : (n \div 2^b) % 2 = 1}
A(size, ranks, x16) == NumberBits(size) \cup {8 + b : b \in NumberBits(ranks)} \cup {b \in {10} : x16}
B(size, ranks, x16) == {16 + b : b \in NumberBits(size)} \cup {12 + b : b \in NumberBits(ranks)}
                       \cup {b \in {11} : x16}
Pair(a, b) == [c \in 0..1 |-> IF c = 0 THEN a ELSE b]
Mac == [cfl |-> TRUE, window |-> "open", dimm |-> Pair(A(16, 0, TRUE), A(16, 0, TRUE)),
        intra |-> Pair({}, {}), hash |-> {}]
Hash == {0, 8, 9, 12, 13, 18, 19}
Il(bit) == {8} \cup NumberBits(bit)

Geometries == {[Mac EXCEPT !.dimm = Pair({}, A(s, r, w))] :
                 s \in {1, 63}, r \in {0, 3}, w \in BOOLEAN}
SmallMachines == {
  Mac, [Mac EXCEPT !.hash = Hash], [Mac EXCEPT !.hash = Hash \ {0}],
  [Mac EXCEPT !.dimm = Pair(A(1, 0, FALSE), A(1, 0, FALSE) \cup B(2, 1, TRUE))],
  [Mac EXCEPT !.dimm = Pair(B(1, 1, FALSE), A(1, 0, TRUE)), !.intra = Pair(Il(14), {})],
  [Mac EXCEPT !.dimm = Pair(A(1, 1, FALSE), A(1, 1, FALSE)), !.intra = Pair(Il(18), {8})],
  [Mac EXCEPT !.dimm = Pair(A(1, 1, FALSE), A(1, 1, FALSE)), !.hash = Hash],
  [Mac EXCEPT !.dimm = Pair(A(1, 2, FALSE), {}), !.intra = Pair(Il(17), {})],
  [Mac EXCEPT !.dimm = Pair({}, {})],
  [Mac EXCEPT !.window = "closed"], [Mac EXCEPT !.window = "locked"], [Mac EXCEPT !.cfl = FALSE]}
MCMachines == Geometries \cup SmallMachines

MCPages     == SUBSET {12, 13, 14, 17, 18, 30}
MCAddresses == {{6}, {7, 12}, {12, 17}, {14, 18, 30}}

Chip(name, c, r, lane, width) ==
  [designator |-> name, channel |-> c, rank |-> r, lane |-> lane, width |-> width]
MCProfiles ==
  <<[products |-> {"x8"}, packages |->
       <<Chip("a0", 0, 0, 0, 8), Chip("a1", 0, 0, 1, 8), Chip("b0", 1, 0, 0, 8)>>],
    [products |-> {"x16"}, packages |->
       <<Chip("c0", 0, 0, 0, 16), Chip("c1", 0, 1, 0, 16), Chip("d0", 1, 0, 0, 16), Chip("d1", 1, 1, 0, 16)>>]>>
=============================================================================
