------------------------------ MODULE MCBootFlow ------------------------------
(* Small instances of BootFlow for TLC. *)
EXTENDS BootFlow

MCOrder    == <<1>>
MCLegacy   == {<<>>, OrigOrder}
MCNoLegacy == {<<>>}
=============================================================================
