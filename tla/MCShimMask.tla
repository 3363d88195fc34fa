------------------------------ MODULE MCShimMask ------------------------------
(* Small instances of ShimMask for TLC: two grains to a page, RAM of four    *)
(* pages, a window of one page on each side.                                 *)
EXTENDS ShimMask

R(a, n) == [kind |-> "region", addr |-> a, len |-> n]
C(d)    == [kind |-> "chip", desig |-> d]
Other   == [kind |-> "other"]

(* Unaligned, empty, beyond RAM, adjacent, overlapping, one range too many. *)
MCFiles == {<<>>, <<R(1, 2)>>, <<R(2, 0)>>, <<R(7, 4), C("U1")>>, <<R(0, 1), R(0, 5)>>,
            <<C("U9"), Other, C("U1"), R(4, 2)>>, <<R(0, 1), R(2, 1), R(4, 1), R(6, 1)>>}
MCSaved == {<<>>, <<5>>, <<4, 5, 2>>, <<9, 3>>, <<6, 4, 2, 8>>}
MCBoard == [d \in {"U1"} |-> {1, 3}]
MCRows  == [r \in {"r1", "r2"} |-> IF r = "r1" THEN {0} ELSE {0, 2}]
MCChipLists == {<<>>, <<"U1", "U9">>}
MCRowLists  == {<<>>, <<"r1", "r2">>}

MCNoList == {<<>>}
=============================================================================
