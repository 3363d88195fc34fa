---------------------------- MODULE BootFlowProofs ----------------------------
(***************************************************************************)
(* Theorems about BootFlow, for every set of slots, pages and faults:      *)
(* types, and what becomes of the entries and the order of other systems.  *)
(***************************************************************************)
EXTENDS BootFlow, TLAPS, SequenceTheorems

(* The slot numbers in BrrBootSlot and in the local variable slot never    *)
(* belong to another system, and a slot about to be prepended is one.      *)
SlotInv ==
  /\ slot \notin ForeignSlots
  /\ bootSlot \notin ForeignSlots
  /\ pc \in {"i_slot", "i_order"} => slot \in InstallSlots

Inv == DiskTypeOK /\ RunTypeOK /\ SlotInv /\ ForeignEntriesUntouched

LEMMA OrigOrderType == OrigOrder \in Seq(Slots)
  BY SeqMonotonic, SlotsAssumption, OrderAssumption DEF SlotsAssumption, OrderAssumption

LEMMA InitInv == Init => Inv
<1> SUFFICES ASSUME Init PROVE Inv
  OBVIOUS
<1>1. DiskTypeOK
  <2>1. origBootLegacy \in Seq(Slots)
    BY OrigOrderType, OrderAssumption, EmptySeq DEF Init, OrderAssumption
  <2> QED
    BY <2>1, OrigOrderType DEF Init, DiskTypeOK, MaskStates, FileStates
<1>2. RunTypeOK
  <2>1. todo \in Seq(Objects)
    BY EmptySeq DEF Init
  <2>2. skipMask \in BOOLEAN
    BY DEF Init
  <2> QED
    BY <2>1, <2>2 DEF Init, RunTypeOK, Apps
<1>3. SlotInv /\ ForeignEntriesUntouched
  BY SlotsAssumption DEF SlotsAssumption, Init, SlotInv, ForeignEntriesUntouched, NoSlot
<1> QED
  BY <1>1, <1>2, <1>3 DEF Inv

(* Deletions keep the invariant. *)
LEMMA EraseInv ==
  ASSUME Inv, NEW x, Erase(x)
  PROVE  DiskTypeOK' /\ ForeignEntriesUntouched' /\ bootSlot' \notin ForeignSlots
<1>1. bootVar' \in [Slots -> {"none", "foreign", "brr"}] /\ ForeignEntriesUntouched'
  BY DEF Inv, DiskTypeOK, SlotInv, ForeignEntriesUntouched, Erase
<1>2. bootSlot' \in Slots \cup {NoSlot} /\ bootSlot' \notin ForeignSlots
  BY SlotsAssumption DEF SlotsAssumption, Inv, DiskTypeOK, SlotInv, Erase
<1>3. bootOrder' \in Seq(Slots) /\ origBoot' \in Seq(Slots) /\ origBootLegacy' \in Seq(Slots)
  BY DEF Inv, DiskTypeOK, Erase
<1>4. /\ bootEntries' \in SUBSET Slots
      /\ badPages' \in SUBSET Pages
      /\ badPagesLegacy' \in SUBSET Pages
      /\ maskState' \in MaskStates
  BY DEF Inv, DiskTypeOK, Erase, MaskStates
<1>5. esp' \in [Files -> FileStates]
  BY DEF Inv, DiskTypeOK, Erase, FileStates
<1> QED
  BY <1>1, <1>2, <1>3, <1>4, <1>5 DEF DiskTypeOK

LEMMA EraseNextInv ==
  ASSUME Inv, EraseNext
  PROVE  /\ DiskTypeOK' /\ ForeignEntriesUntouched' /\ bootSlot' \notin ForeignSlots
         /\ todo' \in Seq(Objects)
<1>1. CASE Erase(Head(todo))
  BY <1>1, EraseInv DEF EraseNext, Inv, RunTypeOK
<1>2. CASE UNCHANGED disk
  BY <1>2 DEF EraseNext, Inv, RunTypeOK, DiskTypeOK, ForeignEntriesUntouched, SlotInv, disk, fwVars, brrVars
<1> QED
  BY <1>1, <1>2 DEF EraseNext

(* The work lists name objects. *)
LEMMA WorkLists ==
  /\ RollbackCopy \in Seq(Objects)
  /\ RollbackEntry \in Seq(Objects)
  /\ RollbackOrder \in Seq(Objects)
  /\ TeardownVars \in Seq(Objects)
  /\ TeardownFiles \in Seq(Objects)
  /\ TeardownFiles \o TeardownVars \in Seq(Objects)
<1>1. RollbackCopy \in Seq(Objects)
  BY DEF RollbackCopy, Objects, Files, BRRFiles, BackupFiles, BrrVarNames
<1>2. RollbackEntry \in Seq(Objects)
  BY DEF RollbackEntry, Objects, Files, BRRFiles, BackupFiles, BrrVarNames
<1>3. RollbackOrder \in Seq(Objects)
  BY DEF RollbackOrder, Objects, Files, BRRFiles, BackupFiles, BrrVarNames
<1>4. TeardownVars \in Seq(Objects)
  BY DEF TeardownVars, Objects, Files, BRRFiles, BackupFiles, BrrVarNames
<1>5. TeardownFiles \in Seq(Objects)
  BY DEF TeardownFiles, Objects, Files, BRRFiles, BackupFiles, BrrVarNames
<1> QED
  BY <1>1, <1>2, <1>3, <1>4, <1>5, ConcatProperties

(* What a file copy or a directory creation may leave is a file state. *)
LEMMA CopiedType ==
  ASSUME DiskTypeOK, NEW f \in Files, NEW source \in FileStates, NEW v \in Copied(f, source)
  PROVE  v \in FileStates
  BY DEF DiskTypeOK, Copied, FileStates

LEMMA MadeType ==
  ASSUME DiskTypeOK, NEW f \in Files, NEW v \in Made(f)
  PROVE  v \in FileStates
  BY DEF DiskTypeOK, Made, FileStates

LEMMA FileNames == BRRFiles \cup {"BRR"} \subseteq Files /\ BackupFiles \subseteq Files
  BY DEF Files, BRRFiles, BackupFiles

(* install_mask_full keeps the invariant. *)
LEMMA InstallStep ==
  ASSUME Inv, InstallNext, UNCHANGED flowVars
  PROVE  Inv'
<1>1. CASE InstallOpen
  BY <1>1 DEF Inv, DiskTypeOK, RunTypeOK, SlotInv, ForeignEntriesUntouched,
         InstallPcs, UninstallPcs, disk, fwVars, brrVars, flowVars, InstallOpen, Return
<1>2. CASE SaveBootEntries
  BY <1>2 DEF Inv, DiskTypeOK, RunTypeOK, SlotInv, ForeignEntriesUntouched,
         InstallPcs, UninstallPcs, disk, fwVars, brrVars, flowVars, SaveBootEntries
<1>3. CASE BackupInstalled
  <2>1. esp' \in [Files -> FileStates]
    <3>1. esp["mask-shim.efi"] \in FileStates /\ esp["badmem.txt"] \in FileStates
      BY FileNames DEF Inv, DiskTypeOK, BRRFiles
    <3>2. CASE UNCHANGED esp
      BY <3>2 DEF Inv, DiskTypeOK
    <3>3. CASE \E d \in Made("backup"),
                  s \in Copied("backup/mask-shim.efi", esp["mask-shim.efi"]),
                  b \in Copied("backup/badmem.txt", esp["badmem.txt"]) :
                 esp' = [esp EXCEPT !["backup"] = d, !["backup/mask-shim.efi"] = s,
                                    !["backup/badmem.txt"] = b]
      <4>1. PICK d \in Made("backup"),
                 s \in Copied("backup/mask-shim.efi", esp["mask-shim.efi"]),
                 b \in Copied("backup/badmem.txt", esp["badmem.txt"]) :
                esp' = [esp EXCEPT !["backup"] = d, !["backup/mask-shim.efi"] = s,
                                   !["backup/badmem.txt"] = b]
        BY <3>3
      <4>2. d \in FileStates /\ s \in FileStates /\ b \in FileStates
        BY <3>1, CopiedType, MadeType, FileNames DEF Inv, BackupFiles, BRRFiles
      <4> QED
        BY <4>1, <4>2 DEF Inv, DiskTypeOK
    <3> QED
      BY <1>3, <3>2, <3>3 DEF BackupInstalled
  <2> QED
    BY <1>3, <2>1 DEF Inv, DiskTypeOK, RunTypeOK, SlotInv, ForeignEntriesUntouched,
         InstallPcs, UninstallPcs, disk, fwVars, brrVars, flowVars, BackupInstalled
<1>4. CASE SaveBootOrder
  BY <1>4 DEF Inv, DiskTypeOK, RunTypeOK, SlotInv, ForeignEntriesUntouched,
         InstallPcs, UninstallPcs, disk, fwVars, brrVars, flowVars, SaveBootOrder
<1>5. CASE MakeDirs
  <2>1. esp' \in [Files -> FileStates]
    BY <1>5, MadeType, FileNames DEF Inv, DiskTypeOK, MakeDirs
  <2> QED
    BY <1>5, <2>1 DEF Inv, DiskTypeOK, RunTypeOK, SlotInv, ForeignEntriesUntouched,
         InstallPcs, UninstallPcs, disk, fwVars, brrVars, flowVars, MakeDirs
<1>6. CASE CreateShim
  <2>1. esp' \in [Files -> FileStates]
    BY <1>6 DEF Inv, DiskTypeOK, CreateShim, FileStates
  <2> QED
    BY <1>6, <2>1, WorkLists DEF Inv, DiskTypeOK, RunTypeOK, SlotInv, ForeignEntriesUntouched,
         InstallPcs, UninstallPcs, disk, fwVars, brrVars, flowVars, CreateShim
<1>7. CASE WriteShim
  <2>1. esp' \in [Files -> FileStates]
    BY <1>7 DEF Inv, DiskTypeOK, WriteShim, FileStates
  <2> QED
    BY <1>7, <2>1, WorkLists DEF Inv, DiskTypeOK, RunTypeOK, SlotInv, ForeignEntriesUntouched,
         InstallPcs, UninstallPcs, disk, fwVars, brrVars, flowVars, WriteShim
<1>8. CASE CopyBadmem
  <2>1. esp' \in [Files -> FileStates]
    <3>1. PICK onUsb \in {"none", "whole"} : \E b \in Copied("badmem.txt", onUsb) :
             esp' = [esp EXCEPT !["badmem.txt"] = b]
      BY <1>8 DEF CopyBadmem
    <3>2. PICK b \in Copied("badmem.txt", onUsb) : esp' = [esp EXCEPT !["badmem.txt"] = b]
      BY <3>1
    <3>3. b \in FileStates
      BY CopiedType, FileNames DEF Inv, BRRFiles, FileStates
    <3> QED
      BY <3>2, <3>3 DEF Inv, DiskTypeOK
  <2> QED
    BY <1>8, <2>1 DEF Inv, DiskTypeOK, RunTypeOK, SlotInv, ForeignEntriesUntouched,
         InstallPcs, UninstallPcs, disk, fwVars, brrVars, flowVars, CopyBadmem
<1>9. CASE InstallBootEntry
  <2>1. CASE \E s \in InstallSlots :
               /\ FirstFree(s)
               /\ bootVar' = [bootVar EXCEPT ![s] = "brr"]
               /\ slot' = s
               /\ pc' = "i_slot"
               /\ UNCHANGED todo
    <3>1. PICK s \in InstallSlots : /\ bootVar[s] = "none"
                                   /\ bootVar' = [bootVar EXCEPT ![s] = "brr"]
                                   /\ slot' = s /\ pc' = "i_slot" /\ UNCHANGED todo
      BY <2>1 DEF FirstFree
    <3>2. s \in Slots /\ s \notin ForeignSlots
      BY <3>1, SlotsAssumption DEF SlotsAssumption, Inv, ForeignEntriesUntouched
    <3>3. ForeignEntriesUntouched' /\ bootVar' \in [Slots -> {"none", "foreign", "brr"}]
      BY <3>1, <3>2 DEF Inv, DiskTypeOK, ForeignEntriesUntouched
    <3> QED
      BY <1>9, <3>1, <3>2, <3>3
      DEF Inv, DiskTypeOK, RunTypeOK, SlotInv, InstallPcs, brrVars, flowVars, InstallBootEntry
  <2>2. CASE todo' = RollbackEntry /\ pc' = "i_rollback" /\ UNCHANGED <<bootVar, slot>>
    BY <1>9, <2>2, WorkLists DEF Inv, DiskTypeOK, RunTypeOK, SlotInv, ForeignEntriesUntouched,
         InstallPcs, UninstallPcs, disk, fwVars, brrVars, flowVars, InstallBootEntry
  <2> QED
    BY <1>9, <2>1, <2>2 DEF InstallBootEntry
<1>10. CASE RecordSlot
  BY <1>10, SlotsAssumption DEF Inv, DiskTypeOK, RunTypeOK, SlotInv, ForeignEntriesUntouched,
         InstallPcs, UninstallPcs, disk, fwVars, brrVars, flowVars, SlotsAssumption, RecordSlot
<1>11. CASE PrependBootOrder
  <2>1. CASE bootOrder' = <<slot>> \o Readable(bootOrder) /\ pc' = "i_state" /\ UNCHANGED todo
    <3>1. slot \in Slots
      BY <1>11, SlotsAssumption DEF SlotsAssumption, Inv, SlotInv, PrependBootOrder
    <3>2. <<slot>> \in Seq(Slots) /\ Readable(bootOrder) \in Seq(Slots)
      BY <3>1, EmptySeq DEF Inv, DiskTypeOK, Readable
    <3>3. bootOrder' \in Seq(Slots)
      BY <2>1, <3>2, ConcatProperties
    <3> QED
      BY <1>11, <2>1, <3>3 DEF Inv, DiskTypeOK, RunTypeOK, SlotInv, ForeignEntriesUntouched,
         InstallPcs, UninstallPcs, disk, fwVars, brrVars, flowVars, PrependBootOrder
  <2>2. CASE todo' = RollbackOrder /\ pc' = "i_rollback" /\ UNCHANGED bootOrder
    BY <1>11, <2>2, WorkLists DEF Inv, DiskTypeOK, RunTypeOK, SlotInv, ForeignEntriesUntouched,
         InstallPcs, UninstallPcs, disk, fwVars, brrVars, flowVars, PrependBootOrder
  <2> QED
    BY <1>11, <2>1, <2>2 DEF PrependBootOrder
<1>12. CASE InstallSetState
  BY <1>12 DEF Inv, DiskTypeOK, RunTypeOK, SlotInv, ForeignEntriesUntouched,
         InstallPcs, UninstallPcs, disk, fwVars, brrVars, flowVars, InstallSetState, Return, MaskStates
<1>13. CASE InstallRollback
  <2>1. CASE EraseNext /\ UNCHANGED <<pc, status>>
    BY <1>13, <2>1, EraseNextInv
    DEF Inv, RunTypeOK, SlotInv, InstallPcs, flowVars, InstallRollback
  <2>2. CASE todo = <<>> /\ Return("fail") /\ UNCHANGED <<disk, todo>>
    BY <1>13, <2>2 DEF Inv, DiskTypeOK, RunTypeOK, SlotInv, ForeignEntriesUntouched,
         InstallPcs, UninstallPcs, disk, fwVars, brrVars, flowVars, InstallRollback, Return
  <2> QED
    BY <1>13, <2>1, <2>2 DEF InstallRollback
<1> QED
  BY <1>1, <1>2, <1>3, <1>4, <1>5, <1>6, <1>7, <1>8, <1>9, <1>10, <1>11, <1>12, <1>13
  DEF InstallNext

(* uninstall_mask_full keeps the invariant. *)
LEMMA UninstallStep ==
  ASSUME Inv, UninstallNext, UNCHANGED flowVars
  PROVE  Inv'
<1>1. CASE RestoreBootOrder
  <2>1. bootOrder' \in Seq(Slots)
    BY <1>1 DEF Inv, DiskTypeOK, RestoreBootOrder, SavedOrder
  <2> QED
    BY <1>1, <2>1 DEF Inv, DiskTypeOK, RunTypeOK, SlotInv, ForeignEntriesUntouched,
         InstallPcs, UninstallPcs, disk, fwVars, brrVars, flowVars, RestoreBootOrder
<1>2. CASE DeleteBootEntry
  BY <1>2 DEF Inv, DiskTypeOK, RunTypeOK, SlotInv, ForeignEntriesUntouched,
         InstallPcs, UninstallPcs, disk, fwVars, brrVars, flowVars, DeleteBootEntry
<1>3. CASE OpenEspForTeardown
  <2>1. todo' \in Seq(Objects)
    BY <1>3, WorkLists DEF OpenEspForTeardown
  <2> QED
    BY <1>3, <2>1 DEF Inv, DiskTypeOK, RunTypeOK, SlotInv, ForeignEntriesUntouched,
         InstallPcs, UninstallPcs, disk, fwVars, brrVars, flowVars, OpenEspForTeardown
<1>4. CASE Teardown
  <2>1. CASE EraseNext /\ UNCHANGED pc
    BY <1>4, <2>1, EraseNextInv
    DEF Inv, RunTypeOK, SlotInv, UninstallPcs, flowVars, Teardown
  <2>2. CASE todo = <<>> /\ pc' = "u_sweep" /\ UNCHANGED <<disk, todo>>
    BY <1>4, <2>2 DEF Inv, DiskTypeOK, RunTypeOK, SlotInv, ForeignEntriesUntouched,
         InstallPcs, UninstallPcs, disk, fwVars, brrVars, flowVars, Teardown
  <2> QED
    BY <1>4, <2>1, <2>2 DEF Teardown
<1>5. CASE Sweep
  <2>1. CASE (\E x \in PresentVars : Erase(x)) /\ UNCHANGED <<pc, status>>
    BY <1>5, <2>1, EraseInv DEF Inv, RunTypeOK, SlotInv, UninstallPcs, flowVars, Sweep
  <2>2. CASE Return("ok") /\ UNCHANGED disk
    BY <1>5, <2>2 DEF Inv, DiskTypeOK, RunTypeOK, SlotInv, ForeignEntriesUntouched,
         InstallPcs, UninstallPcs, disk, fwVars, brrVars, flowVars, Sweep, Return
  <2> QED
    BY <1>5, <2>1, <2>2 DEF Sweep
<1> QED
  BY <1>1, <1>2, <1>3, <1>4, <1>5 DEF UninstallNext

(* A reset keeps it. *)
LEMMA PowerOffInv ==
  ASSUME Inv, PowerOff
  PROVE  Inv'
<1>1. todo' \in Seq(Objects) /\ skipMask' \in BOOLEAN
  BY EmptySeq DEF PowerOff
<1> QED
  BY <1>1, SlotsAssumption
  DEF SlotsAssumption, Inv, DiskTypeOK, RunTypeOK, SlotInv, ForeignEntriesUntouched, Apps, NoSlot,
      disk, fwVars, brrVars, PowerOff

(* The boot manager and the power switch keep it. *)
LEMMA FirmwareStep ==
  ASSUME Inv, FirmwareNext
  PROVE  Inv'
<1>1. CASE PowerOn
  BY <1>1 DEF Inv, DiskTypeOK, RunTypeOK, SlotInv, ForeignEntriesUntouched,
         InstallPcs, UninstallPcs, disk, fwVars, brrVars, flowVars, Step,
         PowerOn, Apps
<1>2. CASE SelectBootOption
  BY <1>2 DEF Inv, DiskTypeOK, RunTypeOK, SlotInv, ForeignEntriesUntouched,
         InstallPcs, UninstallPcs, disk, fwVars, brrVars, flowVars, Step,
         SelectBootOption, Apps
<1>3. CASE PowerLoss
  BY <1>3, PowerOffInv DEF PowerLoss
<1> QED
  BY <1>1, <1>2, <1>3 DEF FirmwareNext

(* brr-entry.efi keeps it. *)
LEMMA EntryStep ==
  ASSUME Inv, EntryNext
  PROVE  Inv'
<1>1. CASE QuickRetry
  BY <1>1 DEF Inv, DiskTypeOK, RunTypeOK, SlotInv, ForeignEntriesUntouched,
         InstallPcs, UninstallPcs, disk, fwVars, brrVars, flowVars, Step,
         QuickRetry, MaskStates
<1>2. CASE NoSavedMask
  BY <1>2 DEF Inv, DiskTypeOK, RunTypeOK, SlotInv, ForeignEntriesUntouched,
         InstallPcs, UninstallPcs, disk, fwVars, brrVars, flowVars, Step,
         NoSavedMask
<1>3. CASE CancelEntry
  BY <1>3, PowerOffInv DEF CancelEntry
<1>4. CASE WriteBadPages
  <2>1. CASE PowerOff
    BY <2>1, PowerOffInv
  <2>2. CASE ~PowerOff
    BY <1>4, <2>2 DEF Inv, DiskTypeOK, RunTypeOK, SlotInv, ForeignEntriesUntouched,
         InstallPcs, UninstallPcs, disk, fwVars, brrVars, flowVars, Step,
         WriteBadPages
  <2> QED
    BY <2>1, <2>2
<1>5. CASE MarkTrial
  <2>1. CASE PowerOff
    BY <2>1, PowerOffInv
  <2>2. CASE ~PowerOff
    BY <1>5, <2>2 DEF Inv, DiskTypeOK, RunTypeOK, SlotInv, ForeignEntriesUntouched,
         InstallPcs, UninstallPcs, disk, fwVars, brrVars, flowVars, Step,
         MarkTrial, MaskStates
  <2> QED
    BY <2>1, <2>2
<1>6. CASE AutoInstall
  BY <1>6 DEF Inv, DiskTypeOK, RunTypeOK, SlotInv, ForeignEntriesUntouched,
         InstallPcs, UninstallPcs, disk, fwVars, brrVars, flowVars, Step,
         AutoInstall
<1>7. CASE AfterInstall
  BY <1>7 DEF Inv, DiskTypeOK, RunTypeOK, SlotInv, ForeignEntriesUntouched,
         InstallPcs, UninstallPcs, disk, fwVars, brrVars, flowVars, Step,
         AfterInstall, MaskStates
<1>8. CASE ChainloadShim
  <2>1. CASE PowerOff
    BY <2>1, PowerOffInv
  <2>2. CASE ~PowerOff
    BY <1>8, <2>2 DEF Inv, DiskTypeOK, RunTypeOK, SlotInv, ForeignEntriesUntouched,
         InstallPcs, UninstallPcs, disk, fwVars, brrVars, flowVars, Step,
         ChainloadShim, Apps
  <2> QED
    BY <2>1, <2>2
<1> QED
  BY <1>1, <1>2, <1>3, <1>4, <1>5, <1>6, <1>7, <1>8 DEF EntryNext

(* mask-shim.efi keeps it. *)
LEMMA ShimStep ==
  ASSUME Inv, ShimNext
  PROVE  Inv'
<1>1. CASE HandleState
  <2>1. UNCHANGED <<fwVars, origBoot, origBootLegacy, bootEntries, bootSlot, badPages,
                    badPagesLegacy, esp, status, bootIdx, reserved>>
    BY <1>1 DEF HandleState
  <2>2. UNCHANGED <<app, dev, slot, todo>>
    BY <1>1 DEF HandleState, Step
  <2>3. maskState' \in {maskState, "PERMANENT_CONFIRMED"}
    BY <1>1 DEF HandleState
  <2>4. skipMask' \in {skipMask, TRUE} /\ pc' \in {"mask", "u_order"}
    BY <1>1 DEF HandleState, Step
  <2>5. DiskTypeOK'
    BY <2>1, <2>3 DEF Inv, DiskTypeOK, fwVars, MaskStates
  <2>6. RunTypeOK'
    BY <2>1, <2>2, <2>4 DEF Inv, RunTypeOK, UninstallPcs
  <2>7. SlotInv' /\ ForeignEntriesUntouched'
    BY <2>1, <2>2, <2>4 DEF Inv, SlotInv, ForeignEntriesUntouched, fwVars
  <2> QED
    BY <2>5, <2>6, <2>7 DEF Inv
<1>2. CASE AfterUninstall
  BY <1>2 DEF Inv, DiskTypeOK, RunTypeOK, SlotInv, ForeignEntriesUntouched,
         InstallPcs, UninstallPcs, disk, fwVars, brrVars, flowVars, Step,
         AfterUninstall
<1>3. CASE ApplyMask
  BY <1>3 DEF Inv, DiskTypeOK, RunTypeOK, SlotInv, ForeignEntriesUntouched,
         InstallPcs, UninstallPcs, disk, fwVars, brrVars, flowVars, Step,
         ApplyMask, SavedPages
<1>4. CASE StartMacOS
  <2>1. CASE PowerOff
    BY <2>1, PowerOffInv
  <2>2. CASE ~PowerOff
    <3>1. skipMask' \in BOOLEAN
      BY <1>4, <2>2 DEF Inv, RunTypeOK, StartMacOS
    <3>2. app' \in Apps /\ dev' \in {"none", "usb", "esp"} /\ bootIdx' \in Nat
      BY <1>4, <2>2 DEF Inv, RunTypeOK, StartMacOS, Apps
    <3> QED
      BY <1>4, <2>2, <3>1, <3>2 DEF Inv, DiskTypeOK, RunTypeOK, SlotInv,
           ForeignEntriesUntouched, disk, fwVars, brrVars, StartMacOS
  <2> QED
    BY <2>1, <2>2
<1> QED
  BY <1>1, <1>2, <1>3, <1>4 DEF ShimNext

(* install.efi and revert.efi keep it. *)
LEMMA AppStep ==
  ASSUME Inv, ConfirmApp \/ FinishApp
  PROVE  Inv'
<1>1. CASE PowerOff
  BY <1>1, PowerOffInv
<1>2. CASE ~PowerOff
  BY <1>2 DEF Inv, DiskTypeOK, RunTypeOK, SlotInv, ForeignEntriesUntouched,
         InstallPcs, UninstallPcs, disk, fwVars, brrVars, flowVars, Step,
         ConfirmApp, FinishApp
<1> QED
  BY <1>1, <1>2

LEMMA NextInv == Inv /\ [Next]_vars => Inv'
<1> SUFFICES ASSUME Inv, [Next]_vars PROVE Inv'
  OBVIOUS
<1>1. CASE Next
  BY <1>1, FirmwareStep, EntryStep, AppStep, ShimStep, InstallStep, UninstallStep
  DEF Next, OpsNext
<1>2. CASE UNCHANGED vars
  BY <1>2 DEF Inv, DiskTypeOK, RunTypeOK, SlotInv, ForeignEntriesUntouched,
              vars, opsVars, flowVars
<1> QED
  BY <1>1, <1>2

(* Inv is an invariant of every instance. *)
LEMMA SpecInv == Spec => []Inv
  BY InitInv, NextInv, PTL DEF Spec

(***************************************************************************)
(* Type correctness: whatever fails and wherever power is lost, the        *)
(* variables of mask_ops.c and of the programs around it hold values of    *)
(* their types; BootOrder is only ever written with slot numbers.          *)
(***************************************************************************)
THEOREM TypeCorrect == Spec => []TypeOK
<1>1. Inv => TypeOK
  BY DEF Inv, TypeOK
<1> QED
  BY <1>1, SpecInv, PTL

(***************************************************************************)
(* install_boot_entry_ops, its rollback and uninstall_mask_full never      *)
(* overwrite or delete another system's BootNNNN variable.                 *)
(***************************************************************************)
THEOREM ForeignSafe == Spec => []ForeignEntriesUntouched
<1>1. Inv => ForeignEntriesUntouched
  BY DEF Inv
<1> QED
  BY <1>1, SpecInv, PTL

-----------------------------------------------------------------------------
(* Every backup of a BootOrder that lists the other systems lists them, too. *)
(* A firmware that boots none of them has nothing to lose.                   *)
BackupsIntact ==
  /\ OrigOrder = <<>> => Intact(bootOrder)
  /\ Intact(bootOrder) => origBoot = <<>> \/ Intact(origBoot)
  /\ origBootLegacy \in {<<>>, OrigOrder}

LEMMA OrigIntact == Intact(OrigOrder)
<1>1. OrigOrder \in Seq(Slots) /\ Len(OrigOrder) \in Nat
  BY OrigOrderType, LenProperties
<1>2. SubSeq(OrigOrder, 0 + 1, Len(OrigOrder)) = OrigOrder
  BY <1>1
<1>3. 0 \in 0..Len(OrigOrder) /\ \A i \in 1..0 : OrigOrder[i] \notin ForeignSlots
  BY <1>1
<1> QED
  BY <1>2, <1>3 DEF Intact

(* An entry of BRR in front changes nothing about the rest. *)
LEMMA PrependIntact ==
  ASSUME NEW s \in Slots \ ForeignSlots, NEW order \in Seq(Slots)
  PROVE  Intact(<<s>> \o order) <=> Intact(order)
<1> DEFINE new == <<s>> \o order
           L == Len(order)
<1>1. /\ L \in Nat /\ new \in Seq(Slots) /\ Len(new) = L + 1
      /\ new[1] = s /\ \A i \in 1..L : new[i + 1] = order[i]
  <2>1. <<s>> \in Seq(Slots) /\ Len(<<s>>) = 1 /\ L \in Nat
    BY LenProperties
  <2>2. /\ new \in Seq(Slots) /\ Len(new) = Len(<<s>>) + L
        /\ \A i \in 1..Len(<<s>>) + L : new[i] = IF i <= Len(<<s>>) THEN <<s>>[i] ELSE order[i - Len(<<s>>)]
    BY <2>1, ConcatProperties
  <2> QED
    BY <2>1, <2>2
<1> HIDE DEF new
<1>2. \A n \in 0..L : SubSeq(new, (n + 1) + 1, Len(new)) = SubSeq(order, n + 1, L)
  <2>1. SUFFICES ASSUME NEW n \in 0..L
                 PROVE  SubSeq(new, (n + 1) + 1, Len(new)) = SubSeq(order, n + 1, L)
    OBVIOUS
  <2> DEFINE a == SubSeq(new, (n + 1) + 1, L + 1)
             b == SubSeq(order, n + 1, L)
  <2>2. \A i \in (n + 1) + 1..L + 1 : new[i] \in Slots
    BY <1>1, ElementOfSeq
  <2>3. \A i \in n + 1..L : order[i] \in Slots
    BY <1>1, ElementOfSeq
  <2>4. /\ a \in Seq(Slots)
        /\ Len(a) = IF (n + 1) + 1 <= L + 1 THEN (L + 1) - ((n + 1) + 1) + 1 ELSE 0
        /\ \A i \in 1..(L + 1) - ((n + 1) + 1) + 1 : a[i] = new[((n + 1) + 1) + i - 1]
    BY <1>1, <2>2, SubSeqProperties
  <2>5. /\ b \in Seq(Slots)
        /\ Len(b) = IF n + 1 <= L THEN L - (n + 1) + 1 ELSE 0
        /\ \A i \in 1..L - (n + 1) + 1 : b[i] = order[(n + 1) + i - 1]
    BY <1>1, <2>3, SubSeqProperties
  <2> HIDE DEF a, b
  <2>6. Len(a) = Len(b) /\ Len(b) = L - n
    BY <1>1, <2>4, <2>5
  <2>7. \A i \in 1..Len(a) : a[i] = b[i]
    <3>1. SUFFICES ASSUME NEW i \in 1..L - n PROVE a[i] = b[i]
      BY <1>1, <2>6
    <3>2. a[i] = new[(n + i) + 1] /\ b[i] = order[n + i] /\ n + i \in 1..L
      <4>1. i \in 1..(L + 1) - ((n + 1) + 1) + 1 /\ i \in 1..L - (n + 1) + 1
            /\ ((n + 1) + 1) + i - 1 = (n + i) + 1 /\ (n + 1) + i - 1 = n + i /\ n + i \in 1..L
        BY <1>1
      <4>2. a[i] = new[((n + 1) + 1) + i - 1]
        BY <2>4, <4>1, Zenon
      <4>3. b[i] = order[(n + 1) + i - 1]
        BY <2>5, <4>1, Zenon
      <4> QED
        BY <4>1, <4>2, <4>3, Zenon
    <3> QED
      BY <1>1, <3>2
  <2>8. a = b
    BY <2>4, <2>5, <2>6, <2>7, SeqEqual
  <2> QED
    BY <1>1, <2>8 DEF a, b
<1>3. ASSUME Intact(order) PROVE Intact(new)
  <2>1. PICK n \in 0..L : /\ \A i \in 1..n : order[i] \notin ForeignSlots
                          /\ SubSeq(order, n + 1, L) = OrigOrder
    BY <1>3 DEF Intact
  <2>2. \A i \in 1..n + 1 : new[i] \notin ForeignSlots
    <3>1. \A i \in 1..n + 1 : i = 1 \/ (i - 1 \in 1..n /\ i - 1 \in 1..L /\ (i - 1) + 1 = i)
      BY <1>1
    <3> QED
      BY <1>1, <2>1, <3>1
  <2> DEFINE m == n + 1
  <2>3. m \in 0..Len(new) /\ SubSeq(new, m + 1, Len(new)) = OrigOrder
    <3>1. m \in 0..Len(new)
      BY <1>1
    <3>2. SubSeq(new, (n + 1) + 1, Len(new)) = OrigOrder
      BY <1>2, <2>1, Zenon
    <3> QED
      BY <3>1, <3>2
  <2>4. \A i \in 1..m : new[i] \notin ForeignSlots
    BY <2>2
  <2> HIDE DEF m
  <2> QED
    BY <2>3, <2>4 DEF Intact
<1>4. ASSUME Intact(new) PROVE Intact(order)
  <2>1. PICK m \in 0..Len(new) : /\ \A i \in 1..m : new[i] \notin ForeignSlots
                                 /\ SubSeq(new, m + 1, Len(new)) = OrigOrder
    BY <1>4 DEF Intact
  <2>2. m # 0
    <3>1. SUFFICES ASSUME m = 0 PROVE FALSE
      OBVIOUS
    <3>2. SubSeq(new, 1, Len(new)) = new
      BY <1>1
    <3>3. new = OrigOrder
      BY <2>1, <3>1, <3>2
    <3>4. OrigOrder \in Seq(ForeignSlots) /\ 1 \in 1..Len(OrigOrder)
      BY <1>1, <3>3, OrderAssumption
    <3>5. OrigOrder[1] \in ForeignSlots
      BY <3>4, ElementOfSeq
    <3> QED
      BY <1>1, <3>3, <3>5
  <2> DEFINE n == m - 1
  <2>3. n \in 0..L /\ m = n + 1
    BY <1>1, <2>2
  <2> HIDE DEF n
  <2>4. \A i \in 1..n : order[i] \notin ForeignSlots
    <3>1. \A i \in 1..n : i + 1 \in 1..m /\ i \in 1..L
      BY <1>1, <2>3
    <3> QED
      BY <1>1, <2>1, <3>1
  <2>5. SubSeq(order, n + 1, L) = OrigOrder
    BY <1>2, <2>1, <2>3
  <2> QED
    BY <2>3, <2>4, <2>5 DEF Intact
<1> QED
  BY <1>3, <1>4 DEF new

(* The step that matters: prepending to a BootOrder, readable or not.        *)
LEMMA PrependKeeps ==
  ASSUME Inv, BackupsIntact, PrependBootOrder, bootOrder' # bootOrder
  PROVE  /\ OrigOrder = <<>> => Intact(bootOrder')
         /\ Intact(bootOrder') => origBoot = <<>> \/ Intact(origBoot)
         /\ Intact(bootOrder) /\ Len(bootOrder) <= OrderCap => Intact(bootOrder')
<1>1. slot \in Slots \ ForeignSlots
  BY SlotsAssumption DEF PrependBootOrder, Inv, SlotInv
<1>2. bootOrder \in Seq(Slots)
  BY DEF Inv, DiskTypeOK
<1>3. bootOrder' = <<slot>> \o Readable(bootOrder)
  BY DEF PrependBootOrder
<1>4. CASE Len(bootOrder) <= OrderCap
  <2>1. bootOrder' = <<slot>> \o bootOrder
    BY <1>3, <1>4 DEF Readable
  <2>2. Intact(bootOrder') <=> Intact(bootOrder)
    BY <1>1, <1>2, <2>1, PrependIntact
  <2> QED
    BY <2>2 DEF BackupsIntact
<1>5. CASE ~(Len(bootOrder) <= OrderCap)
  <2>1. bootOrder' = <<slot>> \o <<>>
    BY <1>3, <1>5 DEF Readable
  <2>2. Intact(bootOrder') <=> Intact(<<>>)
    BY <1>1, <2>1, PrependIntact, EmptySeq
  <2>3. Intact(<<>>) => OrigOrder = <<>>
    <3>1. \A n \in 0..0 : SubSeq(<<>>, n + 1, Len(<<>>)) = <<>>
      OBVIOUS
    <3>2. Len(<<>>) = 0
      OBVIOUS
    <3> QED
      BY <3>1, <3>2 DEF Intact
  <2>4. OrigOrder = <<>> => Intact(<<>>)
    BY OrigIntact
  <2> QED
    BY <1>5, <2>2, <2>3, <2>4 DEF BackupsIntact
<1> QED
  BY <1>4, <1>5

LEMMA RestoreKeeps ==
  ASSUME Inv, BackupsIntact, RestoreBootOrder, bootOrder' # bootOrder
  PROVE  /\ OrigOrder = <<>> => Intact(bootOrder')
         /\ Intact(bootOrder') => origBoot = <<>> \/ Intact(origBoot)
         /\ Intact(bootOrder) => Intact(bootOrder')
<1>1. SavedOrder # <<>> /\ bootOrder' = SavedOrder
  BY DEF RestoreBootOrder
<1>2. CASE origBoot # <<>>
  BY <1>1, <1>2 DEF SavedOrder, BackupsIntact
<1>3. CASE origBoot = <<>>
  BY <1>1, <1>3, OrigIntact DEF SavedOrder, BackupsIntact
<1> QED
  BY <1>2, <1>3

(* Which steps write the backup and BootOrder. *)
LEMMA OrderWrites ==
  ASSUME [Next]_vars
  PROVE  /\ bootOrder' # bootOrder => PrependBootOrder \/ RestoreBootOrder
         /\ origBoot' # origBoot => SaveBootOrder \/ origBoot' = <<>>
         /\ origBootLegacy' # origBootLegacy => origBootLegacy' = <<>>
<1> DEFINE Goal == /\ bootOrder' # bootOrder => PrependBootOrder \/ RestoreBootOrder
                   /\ origBoot' # origBoot => SaveBootOrder \/ origBoot' = <<>>
                   /\ origBootLegacy' # origBootLegacy => origBootLegacy' = <<>>
<1>1. CASE UNCHANGED disk
  BY <1>1 DEF disk, fwVars, brrVars
<1>2. ASSUME NEW x, Erase(x) PROVE Goal
  BY <1>2 DEF Erase
<1>3. EraseNext => Goal
  BY <1>1, <1>2 DEF EraseNext
<1>4. CASE FirmwareNext \/ ConfirmApp \/ FinishApp
  <2>1. UNCHANGED disk
    BY <1>4 DEF FirmwareNext, PowerOn, SelectBootOption, PowerLoss, PowerOff, ConfirmApp, FinishApp
  <2> QED
    BY <1>1, <2>1
<1>5. CASE EntryNext
  <2>1. UNCHANGED <<bootOrder, origBoot, origBootLegacy>>
    BY <1>5 DEF EntryNext, QuickRetry, NoSavedMask, CancelEntry, WriteBadPages, MarkTrial, AutoInstall,
         AfterInstall, ChainloadShim, PowerOff, disk, fwVars, brrVars
  <2> QED
    BY <2>1
<1>6. CASE ShimNext
  <2>1. UNCHANGED <<bootOrder, origBoot, origBootLegacy>>
    BY <1>6 DEF ShimNext, HandleState, AfterUninstall, ApplyMask, StartMacOS, PowerOff, disk, fwVars, brrVars
  <2> QED
    BY <2>1
<1>7. CASE InstallRollback \/ Teardown \/ Sweep
  <2>1. EraseNext \/ UNCHANGED disk \/ \E x \in PresentVars : Erase(x)
    BY <1>7 DEF InstallRollback, Teardown, Sweep
  <2> QED
    BY <1>1, <1>2, <1>3, <2>1
<1>8. CASE PrependBootOrder \/ RestoreBootOrder
  BY <1>8 DEF PrependBootOrder, RestoreBootOrder, brrVars
<1>9. CASE SaveBootOrder
  BY <1>9 DEF SaveBootOrder, fwVars
<1>10. CASE InstallOpen \/ SaveBootEntries \/ BackupInstalled \/ MakeDirs \/ CreateShim \/ WriteShim
            \/ CopyBadmem \/ InstallBootEntry \/ RecordSlot \/ InstallSetState
            \/ DeleteBootEntry \/ OpenEspForTeardown
  <2>1. UNCHANGED <<bootOrder, origBoot, origBootLegacy>>
    BY <1>10 DEF InstallOpen, SaveBootEntries, BackupInstalled, MakeDirs, CreateShim, WriteShim,
         CopyBadmem, InstallBootEntry, RecordSlot, InstallSetState, DeleteBootEntry,
         OpenEspForTeardown, disk, fwVars, brrVars
  <2> QED
    BY <2>1
<1>11. CASE UNCHANGED vars
  BY <1>11 DEF vars, opsVars
<1> QED
  BY <1>4, <1>5, <1>6, <1>7, <1>8, <1>9, <1>10, <1>11
  DEF Next, OpsNext, InstallNext, UninstallNext

LEMMA BackupsInit == Init => BackupsIntact
<1>1. Init => origBootLegacy \in {<<>>, OrigOrder} /\ origBoot = <<>> /\ bootOrder = OrigOrder
  BY OrderAssumption DEF Init
<1> QED
  BY <1>1, OrigIntact DEF BackupsIntact

LEMMA BackupsStep == Inv /\ BackupsIntact /\ [Next]_vars => BackupsIntact'
<1> SUFFICES ASSUME Inv, BackupsIntact, [Next]_vars PROVE BackupsIntact'
  OBVIOUS
<1>1. origBootLegacy' \in {<<>>, OrigOrder}
  BY OrderWrites DEF BackupsIntact
<1>2. CASE bootOrder' # bootOrder
  <2>1. PrependBootOrder \/ RestoreBootOrder
    BY <1>2, OrderWrites
  <2>2. origBoot' = origBoot
    BY <2>1 DEF PrependBootOrder, RestoreBootOrder, brrVars
  <2>3. /\ OrigOrder = <<>> => Intact(bootOrder')
        /\ Intact(bootOrder') => origBoot = <<>> \/ Intact(origBoot)
    BY <1>2, <2>1, PrependKeeps, RestoreKeeps
  <2>4. (Intact(bootOrder))' <=> Intact(bootOrder')
    BY DEF Intact
  <2>5. (Intact(origBoot))' <=> Intact(origBoot)
    BY <2>2 DEF Intact
  <2> QED
    BY <1>1, <2>2, <2>3, <2>4, <2>5 DEF BackupsIntact
<1>3. CASE bootOrder' = bootOrder
  <2>1. origBoot' = origBoot \/ origBoot' = <<>> \/ origBoot' = bootOrder
    BY OrderWrites DEF SaveBootOrder
  <2>2. Intact(bootOrder)' <=> Intact(bootOrder)
    BY <1>3 DEF Intact
  <2>3. Intact(bootOrder) => origBoot' = <<>> \/ Intact(origBoot')
    BY <2>1 DEF BackupsIntact
  <2> QED
    BY <1>1, <2>2, <2>3 DEF BackupsIntact, Intact
<1> QED
  BY <1>2, <1>3

(***************************************************************************)
(* Whatever was installed, backed up, restored or lost before, no step     *)
(* takes another system out of a BootOrder that fits the 256-entry buffer. *)
(***************************************************************************)
THEOREM OtherSystemsKept == Spec => SystemsKept
<1>1. Inv /\ BackupsIntact /\ [Next]_vars =>
        [Intact(bootOrder) /\ Len(bootOrder) <= OrderCap => Intact(bootOrder')]_vars
  <2> SUFFICES ASSUME Inv, BackupsIntact, [Next]_vars, Intact(bootOrder), Len(bootOrder) <= OrderCap
               PROVE  Intact(bootOrder')
    OBVIOUS
  <2>1. CASE bootOrder' # bootOrder
    BY <2>1, OrderWrites, PrependKeeps, RestoreKeeps
  <2>2. CASE bootOrder' = bootOrder
    BY <2>2
  <2> QED
    BY <2>1, <2>2
<1> QED
  BY <1>1, SpecInv, BackupsInit, BackupsStep, PTL DEF Spec, SystemsKept
=============================================================================
