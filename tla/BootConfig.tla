------------------------------ MODULE BootConfig ------------------------------
(***************************************************************************)
(* What install and uninstall promise of the boot configuration, with no   *)
(* steps in between: BootOrder is the user's own, or the user's own with   *)
(* one slot in front of it that the firmware can start the shim from.      *)
(***************************************************************************)
EXTENDS Sequences

CONSTANTS Slots, OrigOrder
VARIABLES order,     \* BootOrder
          bootable   \* slots the firmware can start the shim from

Init == /\ order = OrigOrder
        /\ bootable = {}

(* Install: one write puts a slot that already works in front. *)
Publish == /\ order = OrigOrder
           /\ \E s \in bootable : order' = <<s>> \o OrigOrder
           /\ UNCHANGED bootable

(* Uninstall: one write gives the user's own order back. *)
Withdraw == /\ order' = OrigOrder
            /\ UNCHANGED bootable

(* Files and boot entries come and go only while BootOrder does not name them. *)
Rearrange == /\ order = OrigOrder
             /\ bootable' \in SUBSET Slots
             /\ UNCHANGED order

Next == Publish \/ Withdraw \/ Rearrange

Spec == Init /\ [][Next]_<<order, bootable>>
=============================================================================
