---------------------------- MODULE MCAddressEntry ----------------------------
(* Lines of up to six characters, words of two digits, pages of 16. *)
EXTENDS AddressEntry

MCHexValue == [c \in {"0", "f"} |-> IF c = "0" THEN 0 ELSE 15]
MCSaved    == {<<>>, <<240>>}
=============================================================================
