--------------------------- MODULE BootConfigProofs ---------------------------
(***************************************************************************)
(* What the order of writes in install and uninstall guarantees, proved    *)
(* for every instance that satisfies GuardedInstall: BootFlow implements   *)
(* BootConfig, and the safety properties that follow.                      *)
(***************************************************************************)
EXTENDS BootFlowProofs

(* BootOrder is the user's, or the user's behind one slot that works. *)
Published == \E s \in InstallSlots : bootOrder = <<s>> \o OrigOrder /\ Bootable(s)
OrderInv == bootOrder = OrigOrder \/ Published

(* The backups hold the user's order, and one exists while it is needed. *)
BackupInv ==
  /\ origBoot \in {<<>>, OrigOrder}
  /\ origBootLegacy \in {<<>>, OrigOrder}
  /\ bootOrder # OrigOrder => origBoot = OrigOrder

(* The steps at which BootOrder does not name our slot, not yet or no more. *)
QuietPcs == (InstallPcs \ {"i_state"}) \cup (UninstallPcs \ {"u_order"})

(* What install and uninstall have achieved at each of their steps. *)
PhaseInv ==
  /\ pc \in QuietPcs => bootOrder = OrigOrder
  /\ pc \in {"i_mkdir", "i_create", "i_write", "i_badmem", "i_entry", "i_slot", "i_order"}
       => origBoot = OrigOrder
  /\ pc \in {"i_badmem", "i_entry", "i_slot", "i_order"} => esp["mask-shim.efi"] = "whole"
  /\ pc \in {"i_slot", "i_order"} => bootVar[slot] = "brr"
  /\ pc = "i_rollback" => todo \in Seq(Objects \ {"BrrBadPages"})

(* Which program can be at which step. *)
AppInv ==
  /\ app = "firmware" => pc \in {"select", "prohibited"}
  /\ app = "macOS" => pc \in {"running", "picked"}
  /\ app = "mask-shim.efi" => pc \in {"state", "mask", "find", "returned"} \cup UninstallPcs

(* A boot past the shim is a masked one, or the mask has been withdrawn. *)
MaskInv ==
  /\ skipMask => /\ app \in {"mask-shim.efi", "macOS"}
                 /\ pc = "u_order" \/ bootOrder = OrigOrder
  /\ (app = "macOS" /\ pc = "running") \/ (app = "mask-shim.efi" /\ pc = "find")
       => bootOrder = OrigOrder \/ reserved = SavedPages
  /\ app = "firmware" => bootIdx = 1 \/ bootOrder = OrigOrder \/ reserved = SavedPages

GInv == OrderInv /\ BackupInv /\ PhaseInv /\ AppInv /\ MaskInv
(* No rollback deletes the saved addresses. *)
LEMMA RollbackKeepsPages ==
  /\ RollbackCopy \in Seq(Objects \ {"BrrBadPages"})
  /\ RollbackEntry \in Seq(Objects \ {"BrrBadPages"})
  /\ RollbackOrder \in Seq(Objects \ {"BrrBadPages"})
<1> DEFINE O == Objects \ {"BrrBadPages"}
<1>1. RollbackCopy \in Seq(O)
  BY DEF RollbackCopy, Objects, Files, BRRFiles, BackupFiles, BrrVarNames
<1>2. RollbackEntry \in Seq(O)
  BY DEF RollbackEntry, Objects, Files, BRRFiles, BackupFiles, BrrVarNames
<1>3. RollbackOrder \in Seq(O)
  BY DEF RollbackOrder, Objects, Files, BRRFiles, BackupFiles, BrrVarNames
<1> QED
  BY <1>1, <1>2, <1>3

LEMMA GInit == ASSUME GuardedInstall PROVE Init => GInv
<1> SUFFICES ASSUME Init PROVE GInv
  OBVIOUS
<1>1. OrderInv /\ BackupInv
  BY OrderAssumption DEF OrderAssumption, Init, OrderInv, BackupInv
<1>2. PhaseInv /\ AppInv
  BY DEF Init, PhaseInv, AppInv, QuietPcs, InstallPcs, UninstallPcs
<1>3. MaskInv
  BY DEF Init, MaskInv
<1> QED
  BY <1>1, <1>2, <1>3 DEF GInv

(* What GuardedInstall says of the user's BootOrder. *)
LEMMA OrigOrderFacts ==
  ASSUME GuardedInstall
  PROVE  OrigOrder # <<>> /\ Readable(OrigOrder) = OrigOrder
<1>1. Len(OrigOrder) \in 1..OrderCap
  BY DEF GuardedInstall
<1>2. OrigOrder # <<>>
  BY <1>1, EmptySeq
<1> QED
  BY <1>1, <1>2, EnvAssumption DEF EnvAssumption, Readable

(* Deletions leave a backup as it was, or delete it. *)
LEMMA EraseBackup ==
  ASSUME BackupInv, bootOrder = OrigOrder, NEW x, Erase(x)
  PROVE  BackupInv' /\ bootOrder' = OrigOrder
  BY DEF BackupInv, Erase

(* A step of install runs under brr-entry.efi; the boot manager and the    *)
(* shim are not concerned.                                                 *)
LEMMA InstallAside ==
  ASSUME GInv, InstallNext, UNCHANGED flowVars
  PROVE  AppInv' /\ MaskInv'
<1>1. pc \in InstallPcs
  BY DEF InstallPcs, InstallNext, InstallOpen, SaveBootEntries, BackupInstalled, SaveBootOrder,
         MakeDirs, CreateShim, WriteShim, CopyBadmem, InstallBootEntry, RecordSlot,
         PrependBootOrder, InstallSetState, InstallRollback
<1>2. app \notin {"firmware", "macOS", "mask-shim.efi"}
  BY <1>1 DEF GInv, AppInv, InstallPcs, UninstallPcs
<1>3. ~skipMask
  BY <1>2 DEF GInv, MaskInv
<1> QED
  BY <1>2, <1>3 DEF AppInv, MaskInv, flowVars

(* install_mask_full keeps the guarded invariant. *)
LEMMA InstallGuarded ==
  ASSUME GuardedInstall, Inv, GInv, InstallNext, UNCHANGED flowVars
  PROVE  GInv'
<1> SUFFICES OrderInv' /\ BackupInv' /\ PhaseInv'
  BY InstallAside DEF GInv
<1>1. CASE InstallOpen
  BY <1>1 DEF GInv, OrderInv, BackupInv, PhaseInv, QuietPcs, InstallPcs,
         UninstallPcs, disk, fwVars, brrVars, InstallOpen, Return
<1>2. CASE SaveBootEntries
  BY <1>2 DEF GInv, OrderInv, BackupInv, PhaseInv, QuietPcs, InstallPcs,
         UninstallPcs, disk, fwVars, brrVars, SaveBootEntries
<1>3. CASE BackupInstalled
  BY <1>3 DEF GInv, OrderInv, BackupInv, PhaseInv, QuietPcs, InstallPcs,
         UninstallPcs, disk, fwVars, brrVars, BackupInstalled
<1>4. CASE SaveBootOrder
  <2>1. bootOrder = OrigOrder /\ origBoot' = OrigOrder
    BY <1>4, OrigOrderFacts DEF GInv, PhaseInv, QuietPcs, InstallPcs, SaveBootOrder,
         GuardedInstall, Fails
  <2> QED
    BY <1>4, <2>1 DEF GInv, OrderInv, BackupInv, PhaseInv, QuietPcs, InstallPcs,
         UninstallPcs, disk, fwVars, brrVars, SaveBootOrder
<1>5. CASE MakeDirs
  BY <1>5 DEF GInv, OrderInv, BackupInv, PhaseInv, QuietPcs, InstallPcs,
         UninstallPcs, disk, fwVars, brrVars, MakeDirs
<1>6. CASE CreateShim
  BY <1>6, RollbackKeepsPages DEF GInv, OrderInv, BackupInv, PhaseInv, QuietPcs, InstallPcs,
         UninstallPcs, disk, fwVars, brrVars, CreateShim
<1>7. CASE WriteShim
  <2>1. CASE pc' = "i_badmem"
    BY <1>7, <2>1, FileNames DEF GInv, OrderInv, BackupInv, PhaseInv, QuietPcs, InstallPcs,
         UninstallPcs, disk, fwVars, brrVars, WriteShim, Inv, DiskTypeOK, BRRFiles
  <2>2. CASE pc' = "i_rollback"
    BY <1>7, <2>2, RollbackKeepsPages DEF GInv, OrderInv, BackupInv, PhaseInv, QuietPcs, InstallPcs,
         UninstallPcs, disk, fwVars, brrVars, WriteShim
  <2> QED
    BY <1>7, <2>1, <2>2 DEF WriteShim
<1>8. CASE CopyBadmem
  <2>1. esp'["mask-shim.efi"] = "whole"
    BY <1>8, FileNames DEF GInv, PhaseInv, CopyBadmem, Inv, DiskTypeOK, BRRFiles
  <2> QED
    BY <1>8, <2>1 DEF GInv, OrderInv, BackupInv, PhaseInv, QuietPcs, InstallPcs,
         UninstallPcs, disk, fwVars, brrVars, CopyBadmem
<1>9. CASE InstallBootEntry
  <2>1. CASE pc' = "i_slot"
    <3>1. PICK s \in InstallSlots : bootVar' = [bootVar EXCEPT ![s] = "brr"] /\ slot' = s
      BY <1>9, <2>1 DEF InstallBootEntry
    <3>2. bootVar'[slot'] = "brr"
      BY <3>1, SlotsAssumption DEF SlotsAssumption, Inv, DiskTypeOK
    <3>3. bootOrder' = OrigOrder /\ UNCHANGED <<origBoot, origBootLegacy, esp>>
      BY <1>9 DEF GInv, PhaseInv, QuietPcs, InstallPcs, brrVars, InstallBootEntry
    <3> QED
      BY <1>9, <2>1, <3>2, <3>3 DEF GInv, OrderInv, BackupInv, PhaseInv, QuietPcs, InstallPcs,
         UninstallPcs, disk, fwVars, brrVars, InstallBootEntry
  <2>2. CASE pc' = "i_rollback"
    BY <1>9, <2>2, RollbackKeepsPages DEF GInv, OrderInv, BackupInv, PhaseInv, QuietPcs, InstallPcs,
         UninstallPcs, disk, fwVars, brrVars, InstallBootEntry
  <2> QED
    BY <1>9, <2>1, <2>2 DEF InstallBootEntry
<1>10. CASE RecordSlot
  BY <1>10 DEF GInv, OrderInv, BackupInv, PhaseInv, QuietPcs, InstallPcs,
         UninstallPcs, disk, fwVars, brrVars, RecordSlot
<1>11. CASE PrependBootOrder
  <2>1. bootOrder = OrigOrder /\ slot \in InstallSlots /\ Bootable(slot)
    BY <1>11 DEF GInv, PhaseInv, QuietPcs, InstallPcs, Inv, SlotInv, Bootable, PrependBootOrder
  <2>2. CASE pc' = "i_state"
    <3>1. /\ bootOrder' = <<slot>> \o OrigOrder
          /\ bootVar'[slot] = "brr" /\ esp'["mask-shim.efi"] = "whole"
      BY <1>11, <2>1, <2>2, OrigOrderFacts DEF PrependBootOrder, Bootable
    <3>2. Published'
      BY <2>1, <3>1 DEF Published, Bootable
    <3> QED
      BY <1>11, <2>2, <3>2 DEF GInv, OrderInv, BackupInv, PhaseInv, QuietPcs, InstallPcs,
         UninstallPcs, disk, fwVars, brrVars, PrependBootOrder
  <2>3. CASE pc' = "i_rollback"
    BY <1>11, <2>3, RollbackKeepsPages DEF GInv, OrderInv, BackupInv, PhaseInv, QuietPcs, InstallPcs,
         UninstallPcs, disk, fwVars, brrVars, PrependBootOrder
  <2> QED
    BY <1>11, <2>2, <2>3 DEF PrependBootOrder
<1>12. CASE InstallSetState
  BY <1>12 DEF GInv, OrderInv, BackupInv, PhaseInv, QuietPcs, InstallPcs,
         UninstallPcs, disk, fwVars, brrVars, InstallSetState, Return, Published, Bootable
<1>13. CASE InstallRollback
  <2>1. CASE EraseNext /\ UNCHANGED pc
    <3>1. bootOrder = OrigOrder /\ pc = "i_rollback" /\ todo \in Seq(Objects \ {"BrrBadPages"})
      BY <1>13 DEF GInv, PhaseInv, QuietPcs, InstallPcs, InstallRollback
    <3>2. todo' \in Seq(Objects \ {"BrrBadPages"})
      BY <2>1, <3>1 DEF EraseNext
    <3>3. BackupInv' /\ bootOrder' = OrigOrder
      BY <2>1, <3>1, EraseBackup DEF GInv, BackupInv, EraseNext, disk, fwVars, brrVars
    <3> QED
      BY <2>1, <3>1, <3>2, <3>3 DEF OrderInv, PhaseInv
  <2>2. CASE Return("fail") /\ UNCHANGED disk
    BY <1>13, <2>2 DEF GInv, OrderInv, BackupInv, PhaseInv, QuietPcs, InstallPcs,
         UninstallPcs, disk, fwVars, brrVars, InstallRollback, Return
  <2> QED
    BY <1>13, <2>1, <2>2 DEF InstallRollback
<1> QED
  BY <1>1, <1>2, <1>3, <1>4, <1>5, <1>6, <1>7, <1>8, <1>9, <1>10, <1>11, <1>12, <1>13
  DEF InstallNext

(* Every step of uninstall leaves the user's BootOrder in place. *)
LEMMA UninstallOrder ==
  ASSUME GuardedInstall, GInv, UninstallNext
  PROVE  /\ bootOrder' = OrigOrder
         /\ BackupInv'
         /\ pc \in UninstallPcs
         /\ pc' \in (UninstallPcs \ {"u_order"}) \cup {"returned"}
<1>1. CASE RestoreBootOrder
  BY <1>1, OrigOrderFacts DEF GInv, BackupInv, RestoreBootOrder, SavedOrder, UninstallPcs,
       GuardedInstall, Fails, brrVars
<1>2. CASE DeleteBootEntry
  BY <1>2 DEF GInv, BackupInv, PhaseInv, QuietPcs, UninstallPcs, DeleteBootEntry, brrVars
<1>3. CASE OpenEspForTeardown
  BY <1>3 DEF GInv, BackupInv, PhaseInv, QuietPcs, UninstallPcs, OpenEspForTeardown,
       disk, fwVars, brrVars
<1>4. CASE Teardown
  <2>1. bootOrder = OrigOrder /\ BackupInv /\ pc \in UninstallPcs /\ pc = "u_delete"
    BY <1>4 DEF GInv, PhaseInv, QuietPcs, UninstallPcs, Teardown
  <2>2. bootOrder' = OrigOrder /\ BackupInv'
    BY <1>4, <2>1, EraseBackup DEF Teardown, EraseNext, BackupInv, disk, fwVars, brrVars
  <2> QED
    BY <1>4, <2>1, <2>2 DEF Teardown, UninstallPcs
<1>5. CASE Sweep
  <2>1. bootOrder = OrigOrder /\ BackupInv /\ pc \in UninstallPcs /\ pc = "u_sweep"
    BY <1>5 DEF GInv, PhaseInv, QuietPcs, UninstallPcs, Sweep
  <2>2. bootOrder' = OrigOrder /\ BackupInv'
    BY <1>5, <2>1, EraseBackup DEF Sweep, BackupInv, disk, fwVars, brrVars
  <2> QED
    BY <1>5, <2>1, <2>2 DEF Sweep, Return, UninstallPcs
<1> QED
  BY <1>1, <1>2, <1>3, <1>4, <1>5 DEF UninstallNext

(* uninstall_mask_full keeps the guarded invariant. *)
LEMMA UninstallGuarded ==
  ASSUME GuardedInstall, GInv, UninstallNext, UNCHANGED flowVars
  PROVE  GInv'
<1>1. OrderInv' /\ BackupInv' /\ PhaseInv'
  BY UninstallOrder DEF OrderInv, PhaseInv, UninstallPcs
<1>2. app \notin {"firmware", "macOS"}
  BY UninstallOrder DEF GInv, AppInv, UninstallPcs
<1>3. AppInv' /\ MaskInv'
  BY <1>2, UninstallOrder DEF GInv, AppInv, MaskInv, UninstallPcs, flowVars
<1> QED
  BY <1>1, <1>3 DEF GInv

(* Steps that leave the boot configuration and its backups alone. *)
LEMMA SameConfig ==
  ASSUME OrderInv, BackupInv, UNCHANGED <<bootOrder, bootVar, esp, origBoot, origBootLegacy>>
  PROVE  OrderInv' /\ BackupInv'
  BY DEF OrderInv, BackupInv, Published, Bootable

LEMMA PowerOffGuarded ==
  ASSUME GInv, PowerOff
  PROVE  GInv'
<1>1. OrderInv' /\ BackupInv'
  BY SameConfig DEF GInv, PowerOff, disk, fwVars, brrVars
<1>2. PhaseInv' /\ AppInv'
  BY DEF PowerOff, PhaseInv, AppInv, QuietPcs, InstallPcs, UninstallPcs
<1>3. MaskInv'
  BY DEF PowerOff, MaskInv
<1> QED
  BY <1>1, <1>2, <1>3 DEF GInv

(* The boot manager and the power switch keep the guarded invariant: the   *)
(* first entry of a published BootOrder starts the shim.                   *)
LEMMA FirmwareGuarded ==
  ASSUME Inv, GInv, FirmwareNext
  PROVE  GInv'
<1>1. CASE PowerOn
  <2>1. OrderInv' /\ BackupInv'
    BY <1>1, SameConfig DEF GInv, PowerOn, disk, fwVars, brrVars
  <2>2. PhaseInv' /\ AppInv'
    BY <1>1, AppsAssumption
    DEF AppsAssumption, PowerOn, PhaseInv, AppInv, QuietPcs, InstallPcs, UninstallPcs
  <2>3. MaskInv'
    BY <1>1, AppsAssumption DEF AppsAssumption, PowerOn, GInv, MaskInv
  <2> QED
    BY <2>1, <2>2, <2>3 DEF GInv
<1>2. CASE SelectBootOption
  <2>1. OrderInv' /\ BackupInv'
    BY <1>2, SameConfig DEF GInv, SelectBootOption, disk, fwVars, brrVars
  <2>2. PhaseInv' /\ AppInv'
    BY <1>2 DEF SelectBootOption, PhaseInv, AppInv, QuietPcs, InstallPcs, UninstallPcs
  <2>3. ~skipMask /\ ~skipMask' /\ SavedPages' = SavedPages /\ UNCHANGED <<reserved, bootOrder>>
    BY <1>2 DEF SelectBootOption, GInv, MaskInv, SavedPages, disk, fwVars, brrVars
  <2>4. CASE bootOrder = OrigOrder \/ reserved = SavedPages
    <3>1. bootOrder' = OrigOrder \/ reserved' = SavedPages'
      BY <2>3, <2>4
    <3> QED
      BY <2>1, <2>2, <2>3, <3>1 DEF GInv, MaskInv
  <2>5. CASE bootOrder # OrigOrder /\ reserved # SavedPages
    <3>1. bootIdx = 1
      BY <1>2, <2>5 DEF SelectBootOption, GInv, MaskInv
    <3>2. PICK s \in InstallSlots : bootOrder = <<s>> \o OrigOrder /\ Bootable(s)
      BY <2>5 DEF GInv, OrderInv, Published
    <3>3. bootOrder[1] = s /\ Len(bootOrder) >= 1
      BY <3>2, OrigOrderType
    <3>4. app' = "mask-shim.efi" /\ pc' = "state"
      BY <1>2, <3>1, <3>2, <3>3 DEF SelectBootOption, Bootable
    <3> QED
      BY <2>1, <2>2, <2>3, <3>4 DEF GInv, MaskInv
  <2> QED
    BY <2>4, <2>5
<1>3. CASE PowerLoss
  BY <1>3, PowerOffGuarded DEF PowerLoss
<1> QED
  BY <1>1, <1>2, <1>3 DEF FirmwareNext

(* brr-entry.efi keeps it; its gate starts an install only without a backup. *)
LEMMA EntryGuarded ==
  ASSUME GuardedInstall, Inv, GInv, EntryNext
  PROVE  GInv'
<1>1. CASE QuickRetry
  <2>1. OrderInv' /\ BackupInv'
    BY <1>1, SameConfig DEF GInv, Step, disk, fwVars, brrVars, QuickRetry
  <2>2. PhaseInv' /\ AppInv'
    BY <1>1 DEF GInv, PhaseInv, AppInv, QuietPcs, InstallPcs, UninstallPcs, Step,
         disk, fwVars, brrVars, QuickRetry
  <2>3. MaskInv'
    BY <1>1 DEF GInv, MaskInv, SavedPages, Step, disk, fwVars, brrVars, QuickRetry
  <2> QED
    BY <2>1, <2>2, <2>3 DEF GInv
<1>2. CASE NoSavedMask
  <2>1. OrderInv' /\ BackupInv'
    BY <1>2, SameConfig DEF GInv, Step, disk, fwVars, brrVars, NoSavedMask
  <2>2. PhaseInv' /\ AppInv'
    BY <1>2 DEF GInv, PhaseInv, AppInv, QuietPcs, InstallPcs, UninstallPcs, Step,
         disk, fwVars, brrVars, NoSavedMask
  <2>3. MaskInv'
    BY <1>2 DEF GInv, MaskInv, SavedPages, Step, disk, fwVars, brrVars, NoSavedMask
  <2> QED
    BY <2>1, <2>2, <2>3 DEF GInv
<1>3. CASE CancelEntry
  BY <1>3, PowerOffGuarded DEF CancelEntry
<1>4. CASE WriteBadPages
  <2>1. CASE PowerOff
    BY <2>1, PowerOffGuarded
  <2>2. CASE ~PowerOff
    <3>1. OrderInv' /\ BackupInv'
      BY <1>4, <2>2, SameConfig DEF GInv, Step, disk, fwVars, brrVars, WriteBadPages
    <3>2. PhaseInv' /\ AppInv'
      BY <1>4, <2>2 DEF GInv, PhaseInv, AppInv, QuietPcs, InstallPcs, UninstallPcs, Step,
           disk, fwVars, brrVars, WriteBadPages
    <3>3. MaskInv'
      BY <1>4, <2>2 DEF GInv, MaskInv, SavedPages, Step, disk, fwVars, brrVars, WriteBadPages
    <3> QED
      BY <3>1, <3>2, <3>3 DEF GInv
  <2> QED
    BY <2>1, <2>2
<1>5. CASE MarkTrial
  <2>1. CASE PowerOff
    BY <2>1, PowerOffGuarded
  <2>2. CASE ~PowerOff
    <3>1. OrderInv' /\ BackupInv'
      BY <1>5, <2>2, SameConfig DEF GInv, Step, disk, fwVars, brrVars, MarkTrial
    <3>2. PhaseInv' /\ AppInv'
      BY <1>5, <2>2 DEF GInv, PhaseInv, AppInv, QuietPcs, InstallPcs, UninstallPcs, Step,
           disk, fwVars, brrVars, MarkTrial
    <3>3. MaskInv'
      BY <1>5, <2>2 DEF GInv, MaskInv, SavedPages, Step, disk, fwVars, brrVars, MarkTrial
    <3> QED
      BY <3>1, <3>2, <3>3 DEF GInv
  <2> QED
    BY <2>1, <2>2
<1>6. CASE AutoInstall
  <2>1. OrderInv' /\ BackupInv'
    BY <1>6, SameConfig DEF GInv, Step, disk, fwVars, brrVars, AutoInstall
  <2>2. origBoot = <<>> => bootOrder = OrigOrder
    BY OrigOrderFacts DEF GInv, BackupInv
  <2>3. PhaseInv' /\ AppInv'
    BY <1>6, <2>2 DEF GInv, PhaseInv, AppInv, QuietPcs, InstallPcs, UninstallPcs, Step,
         disk, fwVars, brrVars, AutoInstall
  <2>4. MaskInv'
    BY <1>6 DEF GInv, MaskInv, SavedPages, Step, disk, fwVars, brrVars, AutoInstall
  <2> QED
    BY <2>1, <2>3, <2>4 DEF GInv
<1>7. CASE AfterInstall
  <2>1. OrderInv' /\ BackupInv'
    BY <1>7, SameConfig DEF GInv, Step, disk, fwVars, brrVars, AfterInstall
  <2>2. PhaseInv' /\ AppInv'
    BY <1>7 DEF GInv, PhaseInv, AppInv, QuietPcs, InstallPcs, UninstallPcs, Step,
         disk, fwVars, brrVars, AfterInstall
  <2>3. MaskInv'
    BY <1>7 DEF GInv, MaskInv, SavedPages, Step, disk, fwVars, brrVars, AfterInstall
  <2> QED
    BY <2>1, <2>2, <2>3 DEF GInv
<1>8. CASE ChainloadShim
  <2>1. CASE PowerOff
    BY <2>1, PowerOffGuarded
  <2>2. CASE ~PowerOff
    <3>1. OrderInv' /\ BackupInv'
      BY <1>8, <2>2, SameConfig DEF GInv, Step, disk, fwVars, brrVars, ChainloadShim
    <3>2. PhaseInv' /\ AppInv'
      BY <1>8, <2>2 DEF GInv, PhaseInv, AppInv, QuietPcs, InstallPcs, UninstallPcs, Step,
           disk, fwVars, brrVars, ChainloadShim
    <3>3. MaskInv'
      BY <1>8, <2>2 DEF GInv, MaskInv, SavedPages, Step, disk, fwVars, brrVars, ChainloadShim
    <3> QED
      BY <3>1, <3>2, <3>3 DEF GInv
  <2> QED
    BY <2>1, <2>2
<1> QED
  BY <1>1, <1>2, <1>3, <1>4, <1>5, <1>6, <1>7, <1>8 DEF EntryNext

(* mask-shim.efi keeps it: it skips the mask only after withdrawing it. *)
LEMMA ShimGuarded ==
  ASSUME GuardedInstall, Inv, GInv, ShimNext
  PROVE  GInv'
<1>1. CASE HandleState
  <2>1. OrderInv' /\ BackupInv'
    BY <1>1, SameConfig DEF GInv, Step, disk, fwVars, brrVars, HandleState
  <2>2. PhaseInv' /\ AppInv'
    BY <1>1 DEF GInv, PhaseInv, AppInv, QuietPcs, InstallPcs, UninstallPcs, Step,
         disk, fwVars, brrVars, HandleState
  <2>3. MaskInv'
    BY <1>1 DEF GInv, MaskInv, SavedPages, Step, disk, fwVars, brrVars, HandleState
  <2> QED
    BY <2>1, <2>2, <2>3 DEF GInv
<1>2. CASE AfterUninstall
  <2>1. OrderInv' /\ BackupInv'
    BY <1>2, SameConfig DEF GInv, Step, disk, fwVars, brrVars, AfterUninstall
  <2>2. PhaseInv' /\ AppInv'
    BY <1>2 DEF GInv, PhaseInv, AppInv, QuietPcs, InstallPcs, UninstallPcs, Step,
         disk, fwVars, brrVars, AfterUninstall
  <2>3. MaskInv'
    BY <1>2 DEF GInv, MaskInv, SavedPages, Step, disk, fwVars, brrVars, AfterUninstall
  <2> QED
    BY <2>1, <2>2, <2>3 DEF GInv
<1>3. CASE ApplyMask
  <2>1. OrderInv' /\ BackupInv'
    BY <1>3, SameConfig DEF GInv, Step, disk, fwVars, brrVars, ApplyMask
  <2>2. PhaseInv' /\ AppInv'
    BY <1>3 DEF GInv, PhaseInv, AppInv, QuietPcs, InstallPcs, UninstallPcs, Step,
         disk, fwVars, brrVars, ApplyMask
  <2>3. MaskInv'
    BY <1>3 DEF GInv, MaskInv, SavedPages, Step, disk, fwVars, brrVars, ApplyMask
  <2> QED
    BY <2>1, <2>2, <2>3 DEF GInv
<1>4. CASE StartMacOS
  <2>1. CASE PowerOff
    BY <2>1, PowerOffGuarded
  <2>2. CASE ~PowerOff
    <3>1. OrderInv' /\ BackupInv'
      BY <1>4, <2>2, SameConfig DEF GInv, Step, disk, fwVars, brrVars, StartMacOS
    <3>2. PhaseInv' /\ AppInv'
      BY <1>4, <2>2 DEF GInv, PhaseInv, AppInv, QuietPcs, InstallPcs, UninstallPcs, Step,
           disk, fwVars, brrVars, StartMacOS
    <3>3. MaskInv'
      BY <1>4, <2>2 DEF GInv, MaskInv, SavedPages, Step, disk, fwVars, brrVars, StartMacOS
    <3> QED
      BY <3>1, <3>2, <3>3 DEF GInv
  <2> QED
    BY <2>1, <2>2
<1> QED
  BY <1>1, <1>2, <1>3, <1>4 DEF ShimNext

(* revert.efi and install.efi --uninstall keep it. *)
LEMMA AppGuarded ==
  ASSUME GuardedInstall, Inv, GInv, ConfirmApp \/ FinishApp
  PROVE  GInv'
<1>1. CASE PowerOff
  BY <1>1, PowerOffGuarded
<1>2. CASE ~PowerOff
  <2>1. app # "install.efi"
    BY DEF GuardedInstall, Inv, RunTypeOK, Apps
  <2>2. app \in UninstallApps /\ pc' = "u_order" /\ UNCHANGED <<disk, app, bootIdx, skipMask, reserved>>
    BY <1>2, <2>1 DEF ConfirmApp, FinishApp, Step
  <2>3. OrderInv' /\ BackupInv'
    BY <2>2, SameConfig DEF GInv, disk, fwVars, brrVars
  <2>4. PhaseInv' /\ AppInv' /\ MaskInv'
    BY <2>2 DEF GInv, PhaseInv, AppInv, MaskInv, QuietPcs, InstallPcs, UninstallPcs, UninstallApps
  <2> QED
    BY <2>3, <2>4 DEF GInv
<1> QED
  BY <1>1, <1>2

LEMMA GNext == ASSUME GuardedInstall PROVE Inv /\ GInv /\ [Next]_vars => GInv'
<1> SUFFICES ASSUME Inv, GInv, [Next]_vars PROVE GInv'
  OBVIOUS
<1>1. CASE Next
  BY <1>1, FirmwareGuarded, EntryGuarded, AppGuarded, ShimGuarded, InstallGuarded, UninstallGuarded
  DEF Next, OpsNext
<1>2. CASE UNCHANGED vars
  <2>1. OrderInv' /\ BackupInv'
    BY <1>2, SameConfig DEF GInv, vars, opsVars
  <2>2. PhaseInv' /\ AppInv' /\ MaskInv'
    BY <1>2 DEF GInv, PhaseInv, AppInv, MaskInv, SavedPages, vars, opsVars, flowVars
  <2> QED
    BY <2>1, <2>2 DEF GInv
<1> QED
  BY <1>1, <1>2

LEMMA SpecGInv == ASSUME GuardedInstall PROVE Spec => []GInv
  BY GInit, GNext, SpecInv, PTL DEF Spec

-----------------------------------------------------------------------------
(***************************************************************************)
(* Wherever power is lost in install_mask_full or uninstall_mask_full,     *)
(* every entry of BootOrder can be started.                                *)
(***************************************************************************)
THEOREM NeverBroken == ASSUME GuardedInstall PROVE Spec => []NoBrokenBoot
<1>1. Inv /\ GInv => NoBrokenBoot
  <2> SUFFICES ASSUME GInv, NEW i \in 1..Len(bootOrder)
               PROVE  bootOrder[i] \in ForeignSlots \/ Bootable(bootOrder[i])
    BY DEF NoBrokenBoot
  <2>1. OrigOrder \in Seq(ForeignSlots)
    BY OrderAssumption DEF OrderAssumption
  <2>2. CASE bootOrder = OrigOrder
    BY <2>1, <2>2, ElementOfSeq
  <2>3. CASE Published
    <3>1. PICK s \in InstallSlots : bootOrder = <<s>> \o OrigOrder /\ Bootable(s)
      BY <2>3 DEF Published
    <3>2. CASE i = 1
      BY <2>1, <3>1, <3>2
    <3>3. CASE i # 1
      <4>1. bootOrder[i] = OrigOrder[i - 1] /\ i - 1 \in 1..Len(OrigOrder)
        BY <2>1, <3>1, <3>3
      <4> QED
        BY <2>1, <4>1, ElementOfSeq
    <3> QED
      BY <3>2, <3>3
  <2> QED
    BY <2>2, <2>3 DEF GInv, OrderInv
<1> QED
  BY <1>1, SpecInv, SpecGInv, PTL

(***************************************************************************)
(* While the shim is in BootOrder, macOS, unless picked by the user in the  *)
(* Option picker, runs only with the saved pages reserved: the shim's       *)
(* skip_mask and its fall-through to the next boot entry never leave the    *)
(* machine unmasked and still installed.                                    *)
(***************************************************************************)
THEOREM MaskedWhenInstalled == ASSUME GuardedInstall PROVE Spec => []InstalledMeansMasked
<1>1. GInv => InstalledMeansMasked
  BY DEF GInv, AppInv, MaskInv, InstalledMeansMasked
<1> QED
  BY <1>1, SpecGInv, PTL

(***************************************************************************)
(* Install and uninstall, step by step and with power cuts, implement the  *)
(* two atomic operations of BootConfig.                                    *)
(***************************************************************************)
THEOREM ConfigRefined == ASSUME GuardedInstall PROVE Spec => ConfigSpec
<1> DEFINE B == {s \in Slots : Bootable(s)}
<1>1. Init => Config!Init
  <2> SUFFICES ASSUME Init PROVE Config!Init
    OBVIOUS
  <2>1. B = {}
    BY DEF Init, Bootable
  <2> QED
    BY <2>1 DEF Init, Config!Init
<1>2. Inv /\ GInv /\ [Next]_vars => [Config!Next]_<<bootOrder, B>>
  <2> SUFFICES ASSUME Inv, GInv, [Next]_vars
               PROVE  [Config!Next]_<<bootOrder, B>>
    OBVIOUS
  <2>1. B' \in SUBSET Slots
    OBVIOUS
  <2>2. CASE UNCHANGED <<bootOrder, bootVar, esp>>
    BY <2>2 DEF Bootable
  <2>3. CASE bootOrder = OrigOrder /\ bootOrder' = OrigOrder
    BY <2>1, <2>3 DEF Config!Next, Config!Rearrange
  <2>4. CASE UninstallNext
    <3>1. bootOrder' = OrigOrder
      BY <2>4, UninstallOrder
    <3>2. CASE bootOrder = OrigOrder
      BY <2>3, <3>1, <3>2
    <3>3. CASE bootOrder # OrigOrder
      <4>1. RestoreBootOrder
        BY <2>4, <3>3 DEF GInv, PhaseInv, QuietPcs, UninstallPcs, UninstallNext, DeleteBootEntry,
             OpenEspForTeardown, Teardown, Sweep
      <4>2. UNCHANGED B
        BY <4>1 DEF RestoreBootOrder, Bootable
      <4> QED
        BY <3>1, <4>2 DEF Config!Next, Config!Withdraw
    <3> QED
      BY <3>2, <3>3
  <2>5. CASE PrependBootOrder
    <3>1. bootOrder = OrigOrder /\ slot \in B /\ UNCHANGED B
      BY <2>5, SlotsAssumption DEF SlotsAssumption, GInv, PhaseInv, QuietPcs, InstallPcs, Inv,
           SlotInv, Bootable, PrependBootOrder
    <3>2. bootOrder' = <<slot>> \o OrigOrder \/ bootOrder' = OrigOrder
      BY <2>5, <3>1, OrigOrderFacts DEF PrependBootOrder
    <3> QED
      BY <3>1, <3>2, <2>3 DEF Config!Next, Config!Publish
  <2>6. CASE InstallNext /\ ~PrependBootOrder
    <3>1. CASE InstallSetState
      BY <2>2, <3>1 DEF InstallSetState, fwVars
    <3>2. CASE ~InstallSetState
      <4>1. bootOrder = OrigOrder
        BY <2>6, <3>2 DEF GInv, PhaseInv, QuietPcs, InstallPcs, InstallNext, InstallOpen,
             SaveBootEntries, BackupInstalled, SaveBootOrder, MakeDirs, CreateShim, WriteShim,
             CopyBadmem, InstallBootEntry, RecordSlot, InstallRollback
      <4>2. UNCHANGED bootOrder
        BY <2>6, <3>2 DEF InstallNext, InstallOpen, SaveBootEntries, BackupInstalled,
             SaveBootOrder, MakeDirs, CreateShim, WriteShim, CopyBadmem, InstallBootEntry,
             RecordSlot, InstallRollback, EraseNext, Erase, disk, fwVars
      <4> QED
        BY <2>3, <4>1, <4>2
    <3> QED
      BY <3>1, <3>2
  <2>7. CASE FirmwareNext \/ EntryNext \/ ConfirmApp \/ FinishApp \/ ShimNext
    BY <2>2, <2>7
    DEF FirmwareNext, PowerOn, SelectBootOption, PowerLoss, PowerOff, EntryNext, QuickRetry,
        NoSavedMask, CancelEntry, WriteBadPages, MarkTrial, AutoInstall, AfterInstall,
        ChainloadShim, ConfirmApp, FinishApp, ShimNext, HandleState, AfterUninstall, ApplyMask,
        StartMacOS, disk, fwVars
  <2>8. CASE UNCHANGED vars
    BY <2>2, <2>8 DEF vars, opsVars
  <2> QED
    BY <2>4, <2>5, <2>6, <2>7, <2>8 DEF Next, OpsNext
<1> QED
  BY <1>1, <1>2, SpecInv, SpecGInv, PTL DEF Spec, ConfigSpec, Config!Spec

(***************************************************************************)
(* The saved addresses are deleted only by an uninstall that has already   *)
(* given the user's BootOrder back; no error path of install deletes them. *)
(***************************************************************************)
THEOREM PagesKept == ASSUME GuardedInstall PROVE Spec => BadPagesKept
<1> DEFINE A == badPages # {} /\ badPages' = {} => bootOrder = OrigOrder /\ pc \in UninstallPcs
<1>1. Inv /\ GInv /\ [Next]_vars => [A]_vars
  <2> SUFFICES ASSUME Inv, GInv, [Next]_vars, badPages # {}, badPages' = {}
               PROVE  bootOrder = OrigOrder /\ pc \in UninstallPcs
    OBVIOUS
  <2>1. CASE UninstallNext
    <3>1. ~RestoreBootOrder
      BY DEF RestoreBootOrder, brrVars
    <3> QED
      BY <2>1, <3>1 DEF UninstallNext, DeleteBootEntry, OpenEspForTeardown, Teardown, Sweep,
           GInv, PhaseInv, QuietPcs, UninstallPcs
  <2>2. CASE InstallRollback
    <3>1. todo \in Seq(Objects \ {"BrrBadPages"})
      BY <2>2 DEF InstallRollback, GInv, PhaseInv
    <3>2. EraseNext /\ todo # <<>>
      BY <2>2 DEF InstallRollback, EraseNext, disk, brrVars
    <3>3. Head(todo) # "BrrBadPages"
      BY <3>1, <3>2
    <3> QED
      BY <3>2, <3>3 DEF EraseNext, Erase, disk, brrVars
  <2>3. CASE InstallNext /\ ~InstallRollback
    BY <2>3 DEF InstallNext, InstallOpen, SaveBootEntries, BackupInstalled, SaveBootOrder,
         MakeDirs, CreateShim, WriteShim, CopyBadmem, InstallBootEntry, RecordSlot,
         PrependBootOrder, InstallSetState, disk, brrVars
  <2>4. CASE FirmwareNext \/ EntryNext \/ ConfirmApp \/ FinishApp \/ ShimNext
    BY <2>4
    DEF FirmwareNext, PowerOn, SelectBootOption, PowerLoss, PowerOff, EntryNext, QuickRetry,
        NoSavedMask, CancelEntry, WriteBadPages, MarkTrial, AutoInstall, AfterInstall,
        ChainloadShim, ConfirmApp, FinishApp, ShimNext, HandleState, AfterUninstall, ApplyMask,
        StartMacOS, disk, brrVars
  <2>5. CASE UNCHANGED vars
    BY <2>5 DEF vars, opsVars
  <2> QED
    BY <2>1, <2>2, <2>3, <2>4, <2>5 DEF Next, OpsNext
<1> QED
  BY <1>1, SpecInv, SpecGInv, PTL DEF Spec, BadPagesKept
=============================================================================
