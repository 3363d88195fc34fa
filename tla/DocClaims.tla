------------------------------- MODULE DocClaims -------------------------------
(***************************************************************************)
(* What a comment of brr-entry.efi says of its auto-install, stated over   *)
(* BootFlow: a claim the code does not keep.                               *)
(***************************************************************************)
EXTENDS MCBootFlow

(***************************************************************************)
(* "if BrrBackupBootOrder already exists we were installed previously"     *)
(* (brr-entry/main.c): when the gate of the auto-install finds the         *)
(* variable, BootOrder starts the shim.                                    *)
(***************************************************************************)
BackupMeansInstalled ==
  app = "brr-entry.efi" /\ pc = "gate" /\ origBoot # <<>> => bootOrder # OrigOrder
=============================================================================
