------------------------------ MODULE ShimClaims ------------------------------
(***************************************************************************)
(* What a comment of mask-shim/main.c says of the mask, stated over        *)
(* ShimMask: a claim the code does not keep.                               *)
(***************************************************************************)
EXTENDS MCShimMask

OffLimits == {"Reserved", "Absent"}

(***************************************************************************)
(* "pages firmware already owned ... are still safely OFF-LIMITS to macOS" *)
(* (mask_pages): when no gap is reported, no page of any window can be     *)
(* handed to macOS.  Boot-services pages fail with EFI_NOT_FOUND too, and  *)
(* are free memory after ExitBootServices.                                 *)
(***************************************************************************)
PreReservedOffLimits ==
  pc = "done" /\ mode = "pages" /\ gaps = 0 =>
    \A k \in 1..Len(ranges), q \in Pages :
      WindowStart(ranges[k]) <= q /\ q < WindowEnd(ranges[k]) => memmap[q] \in OffLimits
=============================================================================
