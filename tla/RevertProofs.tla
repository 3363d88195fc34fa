----------------------------- MODULE RevertProofs -----------------------------
(***************************************************************************)
(* What a completed revert.efi or install.efi --uninstall leaves behind,   *)
(* proved for every instance in which the deletions it makes do not fail.  *)
(***************************************************************************)
EXTENDS BootConfigProofs

(* The uninstall programs run from the USB stick and do nothing else. *)
AloneInv ==
  app \in UninstallApps =>
    /\ dev = "usb"
    /\ pc \in {"start", "returned"} \cup UninstallPcs

TeardownList == TeardownFiles \o TeardownVars

(* The first k objects of the list are gone, the others are yet to come. *)
TornDown(k) ==
  /\ todo = SubSeq(TeardownList, k + 1, 12)
  /\ \A i \in 1..k : i <= 6 => esp[TeardownList[i]] = "none"

NoFiles == \A f \in Files : esp[f] = "none"

FilesInv ==
  app \in UninstallApps =>
    /\ pc = "u_delete" => \E k \in 0..12 : TornDown(k)
    /\ pc \in {"u_sweep", "returned"} => NoFiles

RestoredInv ==
  app \in UninstallApps /\ pc = "returned" => bootOrder = OrigOrder /\ PresentVars = {}

-----------------------------------------------------------------------------
(* Starting an uninstall program, or running a step of it, keeps it alone. *)
LEMMA AloneStep == Inv /\ AloneInv /\ [Next]_vars => AloneInv'
<1> SUFFICES ASSUME Inv, AloneInv, [Next]_vars, app' \in UninstallApps
             PROVE  dev' = "usb" /\ pc' \in {"start", "returned"} \cup UninstallPcs
  BY DEF AloneInv
<1>1. CASE PowerOn
  BY <1>1 DEF PowerOn, UninstallApps
<1>2. CASE PowerOff
  BY <1>2 DEF PowerOff, UninstallApps
<1>3. CASE UNCHANGED <<app, dev, pc>>
  BY <1>3 DEF AloneInv
<1>4. CASE ConfirmApp
  BY <1>2, <1>4 DEF ConfirmApp, Step, AloneInv, UninstallApps, UninstallPcs
<1>5. CASE UninstallNext /\ UNCHANGED flowVars
  BY <1>5 DEF UninstallNext, RestoreBootOrder, DeleteBootEntry, OpenEspForTeardown, Teardown,
       Sweep, Return, flowVars, AloneInv, UninstallPcs
<1>6. CASE InstallNext /\ UNCHANGED flowVars
  <2>1. pc \in InstallPcs
    BY <1>6 DEF InstallPcs, InstallNext, InstallOpen, SaveBootEntries, BackupInstalled,
         SaveBootOrder, MakeDirs, CreateShim, WriteShim, CopyBadmem, InstallBootEntry, RecordSlot,
         PrependBootOrder, InstallSetState, InstallRollback
  <2>2. pc \notin {"start", "returned"} \cup UninstallPcs
    BY <2>1 DEF InstallPcs, UninstallPcs
  <2> QED
    BY <1>6, <2>2 DEF AloneInv, flowVars
<1>7. CASE SelectBootOption \/ EntryNext \/ ShimNext
  BY <1>2, <1>7 DEF SelectBootOption, EntryNext, QuickRetry, NoSavedMask, CancelEntry,
       WriteBadPages, MarkTrial, AutoInstall, AfterInstall, ChainloadShim, ShimNext, HandleState,
       AfterUninstall, ApplyMask, StartMacOS, Step, UninstallApps
<1> QED
  BY <1>1, <1>2, <1>3, <1>4, <1>5, <1>6, <1>7
  DEF Next, FirmwareNext, PowerLoss, FinishApp, OpsNext, vars, opsVars, flowVars

(* Whoever is running, only its own steps move an uninstall program on. *)
LEMMA UninstallAppStep ==
  ASSUME Inv, AloneInv, [Next]_vars, app' \in UninstallApps, pc' # "start"
  PROVE  /\ app \in UninstallApps
         /\ \/ UninstallNext
            \/ pc' = "u_order"
            \/ UNCHANGED <<pc, todo, disk>>
<1>1. CASE PowerOn
  BY <1>1 DEF PowerOn, UninstallApps
<1>2. CASE PowerOff
  BY <1>2 DEF PowerOff, UninstallApps
<1>3. CASE UNCHANGED vars
  BY <1>3 DEF vars, opsVars, flowVars, disk, fwVars, brrVars
<1>4. CASE ConfirmApp
  BY <1>2, <1>4 DEF ConfirmApp, Step, UninstallApps
<1>5. CASE UninstallNext /\ UNCHANGED flowVars
  BY <1>5 DEF flowVars
<1>6. CASE InstallNext /\ UNCHANGED flowVars
  <2>1. pc \in InstallPcs
    BY <1>6 DEF InstallPcs, InstallNext, InstallOpen, SaveBootEntries, BackupInstalled,
         SaveBootOrder, MakeDirs, CreateShim, WriteShim, CopyBadmem, InstallBootEntry, RecordSlot,
         PrependBootOrder, InstallSetState, InstallRollback
  <2>2. pc \notin {"start", "returned"} \cup UninstallPcs
    BY <2>1 DEF InstallPcs, UninstallPcs
  <2> QED
    BY <1>6, <2>2 DEF AloneInv, flowVars
<1>7. CASE SelectBootOption \/ EntryNext \/ ShimNext
  BY <1>2, <1>7 DEF SelectBootOption, EntryNext, QuickRetry, NoSavedMask, CancelEntry,
       WriteBadPages, MarkTrial, AutoInstall, AfterInstall, ChainloadShim, ShimNext, HandleState,
       AfterUninstall, ApplyMask, StartMacOS, Step, UninstallApps
<1> QED
  BY <1>1, <1>2, <1>3, <1>4, <1>5, <1>6, <1>7
  DEF Next, FirmwareNext, PowerLoss, FinishApp, OpsNext

LEMMA SpecAlone == Spec => []AloneInv
<1>1. Init => AloneInv
  BY DEF Init, AloneInv, UninstallApps
<1> QED
  BY <1>1, AloneStep, SpecInv, PTL DEF Spec

-----------------------------------------------------------------------------
(* Six elements, then six. *)
LEMMA Joined ==
  ASSUME NEW S, NEW s \in Seq(S), NEW t \in Seq(S), Len(s) = 6, Len(t) = 6
  PROVE  /\ s \o t \in Seq(S) /\ Len(s \o t) = 12
         /\ \A i \in 1..12 : (s \o t)[i] = IF i <= 6 THEN s[i] ELSE t[i - 6]
<1> DEFINE u == s \o t
<1>1. /\ u \in Seq(S) /\ Len(u) = Len(s) + Len(t)
      /\ \A i \in 1..Len(s) + Len(t) : u[i] = IF i <= Len(s) THEN s[i] ELSE t[i - Len(s)]
  BY ConcatProperties
<1> HIDE DEF u
<1>2. u \in Seq(S) /\ Len(u) = 12 /\ \A i \in 1..12 : u[i] = IF i <= 6 THEN s[i] ELSE t[i - 6]
  BY <1>1
<1> QED
  BY <1>2 DEF u

(* The list: the six objects of \EFI\BRR, then the six variables. *)
LEMMA ListValue ==
  /\ TeardownList \in Seq(Objects) /\ Len(TeardownList) = 12
  /\ TeardownList[1] = "backup/mask-shim.efi" /\ TeardownList[2] = "backup/badmem.txt"
  /\ TeardownList[3] = "backup" /\ TeardownList[4] = "mask-shim.efi"
  /\ TeardownList[5] = "badmem.txt" /\ TeardownList[6] = "BRR"
  /\ \A i \in 7..12 : TeardownList[i] \in BrrVarNames
<1>1. TeardownFiles \in Seq(Objects) /\ TeardownVars \in Seq(Objects)
  BY WorkLists
<1>2. Len(TeardownFiles) = 6 /\ Len(TeardownVars) = 6
  BY DEF TeardownFiles, TeardownVars
<1>3. \A i \in 1..6 : TeardownVars[i] \in BrrVarNames
  BY DEF TeardownVars, BrrVarNames
<1>4. /\ TeardownList \in Seq(Objects) /\ Len(TeardownList) = 12
      /\ \A i \in 1..12 : TeardownList[i] = IF i <= 6 THEN TeardownFiles[i]
                                            ELSE TeardownVars[i - 6]
  BY <1>1, <1>2, Joined DEF TeardownList
<1>5. \A i \in 7..12 : TeardownList[i] \in BrrVarNames
  BY <1>3, <1>4
<1> QED
  BY <1>4, <1>5 DEF TeardownFiles

(* What is left of a list after its first k elements. *)
LEMMA Remainder ==
  ASSUME NEW S, NEW s \in Seq(S), NEW k \in 0..Len(s)
  PROVE  /\ SubSeq(s, k + 1, Len(s)) = <<>> <=> k = Len(s)
         /\ k < Len(s) => /\ Head(SubSeq(s, k + 1, Len(s))) = s[k + 1]
                          /\ Tail(SubSeq(s, k + 1, Len(s))) = SubSeq(s, k + 2, Len(s))
<1> DEFINE rest == SubSeq(s, k + 1, Len(s))
           next == SubSeq(s, k + 2, Len(s))
<1>1. /\ rest \in Seq(S) /\ Len(rest) = Len(s) - k
      /\ \A i \in 1..(Len(s) - k) : rest[i] = s[k + i]
  OBVIOUS
<1>2. CASE k = Len(s)
  BY <1>1, <1>2, EmptySeq
<1>3. CASE k < Len(s)
  <2>1. /\ next \in Seq(S) /\ Len(next) = Len(s) - k - 1
        /\ \A i \in 1..(Len(s) - k - 1) : next[i] = s[k + 1 + i]
    BY <1>3
  <2> HIDE DEF rest, next
  <2>2. rest # <<>> /\ Head(rest) = s[k + 1]
    <3>1. 1 \in 1..(Len(s) - k) /\ rest[1] = s[k + 1] /\ Len(rest) # 0
      BY <1>1, <1>3
    <3> QED
      BY <1>1, <3>1
  <2>3. /\ Tail(rest) \in Seq(S) /\ Len(Tail(rest)) = Len(s) - k - 1
        /\ \A i \in 1..(Len(s) - k - 1) : Tail(rest)[i] = rest[i + 1]
    BY <1>1, <1>3, <2>2, HeadTailProperties
  <2>4. \A i \in 1..(Len(s) - k - 1) : Tail(rest)[i] = next[i]
    BY <1>1, <2>1, <2>3
  <2>5. Tail(rest) = next
    BY <2>1, <2>3, <2>4, SeqEqual
  <2> QED
    BY <1>3, <2>2, <2>5 DEF rest, next
<1> QED
  BY <1>2, <1>3

(* Deleting the next object brings the teardown one step forward; the       *)
(* directories come after what is in them.                                  *)
LEMMA TeardownStep ==
  ASSUME Inv, ~Fails("DeleteFile"), NEW k \in 0..12, TornDown(k), EraseNext
  PROVE  k < 12 /\ TornDown(k + 1)'
<1>1. k < 12
  BY Remainder DEF EraseNext, TornDown
<1>2. Head(todo) = TeardownList[k + 1] /\ todo' = SubSeq(TeardownList, k + 2, 12)
  BY <1>1, Remainder DEF EraseNext, TornDown
<1>3. \A i \in 1..(k + 1) : i <= 6 => esp'[TeardownList[i]] = "none"
  <2>1. CASE k < 6
    <3> DEFINE x == TeardownList[k + 1]
    <3>1. x \in Files
      BY <2>1, ListValue DEF Files, BRRFiles, BackupFiles
    <3>2. Erase(x)
      BY <1>2, <3>1 DEF EraseNext
    <3>3. Deletable(x)
      <4>1. CASE k \in {0, 1, 3, 4}
        BY <4>1, ListValue DEF Deletable
      <4>2. CASE k = 2
        BY <4>2, ListValue DEF TornDown, Deletable, BackupFiles
      <4>3. CASE k = 5
        <5>1. /\ esp["mask-shim.efi"] = "none" /\ esp["badmem.txt"] = "none"
              /\ esp["backup"] = "none" /\ esp["backup/mask-shim.efi"] = "none"
              /\ esp["backup/badmem.txt"] = "none"
          BY <4>3, ListValue DEF TornDown
        <5> QED
          BY <4>3, <5>1, ListValue DEF Deletable, BRRFiles, BackupFiles
      <4> QED
        BY <2>1, <4>1, <4>2, <4>3
    <3>4. esp' = [esp EXCEPT ![x] = "none"]
      BY <3>1, <3>2, <3>3 DEF Erase
    <3> QED
      BY <2>1, <3>1, <3>4 DEF TornDown, Inv, DiskTypeOK
  <2>2. CASE k >= 6
    <3>1. TeardownList[k + 1] \notin Files
      BY <1>1, <2>2, ListValue, SMTT(30) DEF Files, BRRFiles, BackupFiles, BrrVarNames
    <3>2. esp' = esp
      BY <1>2, <3>1 DEF EraseNext, Erase, disk
    <3> QED
      BY <2>2, <3>2 DEF TornDown
  <2> QED
    BY <2>1, <2>2
<1> QED
  BY <1>1, <1>2, <1>3 DEF TornDown

LEMMA FilesStep ==
  ASSUME OtherEsps = {0}, ~Fails("DeleteFile"), Inv, AloneInv, FilesInv, [Next]_vars
  PROVE  FilesInv'
<1> SUFFICES ASSUME app' \in UninstallApps
             PROVE  /\ pc' = "u_delete" => \E k \in 0..12 : TornDown(k)'
                    /\ pc' \in {"u_sweep", "returned"} => NoFiles'
  BY DEF FilesInv
<1>1. CASE pc' \in {"start", "u_order"}
  BY <1>1
<1>2. CASE UNCHANGED <<pc, todo, disk>> /\ app \in UninstallApps
  BY <1>2 DEF FilesInv, TornDown, NoFiles, disk
<1>3. CASE UninstallNext /\ app \in UninstallApps
  <2>1. CASE RestoreBootOrder \/ DeleteBootEntry
    BY <2>1 DEF RestoreBootOrder, DeleteBootEntry
  <2>2. CASE OpenEspForTeardown
    <3>1. todo' = TeardownList
      BY <1>3, <2>2 DEF OpenEspForTeardown, OpensInternalEsp, AloneInv, TeardownList
    <3>2. TornDown(0)'
      BY <3>1, ListValue DEF TornDown
    <3> QED
      BY <2>2, <3>2 DEF OpenEspForTeardown
  <2>3. CASE Teardown /\ EraseNext /\ UNCHANGED pc
    <3>1. PICK k \in 0..12 : TornDown(k)
      BY <1>3, <2>3 DEF Teardown, FilesInv
    <3>2. k + 1 \in 0..12 /\ TornDown(k + 1)'
      BY <2>3, <3>1, TeardownStep
    <3> QED
      BY <2>3, <3>2 DEF Teardown
  <2>4. CASE Teardown /\ todo = <<>> /\ pc' = "u_sweep" /\ UNCHANGED disk
    <3>1. PICK k \in 0..12 : TornDown(k)
      BY <1>3, <2>4 DEF Teardown, FilesInv
    <3>2. k = 12
      BY <2>4, <3>1, Remainder DEF TornDown
    <3>3. NoFiles
      BY <3>1, <3>2, ListValue DEF TornDown, NoFiles, Files, BRRFiles, BackupFiles
    <3> QED
      BY <2>4, <3>3 DEF NoFiles, disk
  <2>5. CASE Sweep
    <3>1. NoFiles
      BY <1>3, <2>5 DEF Sweep, FilesInv
    <3>2. \A x \in PresentVars : x \notin Files
      BY DEF PresentVars, BrrVarNames, Files, BRRFiles, BackupFiles
    <3>3. esp' = esp
      BY <2>5, <3>2 DEF Sweep, Erase, disk
    <3> QED
      BY <2>5, <3>1, <3>3 DEF Sweep, Return, NoFiles
  <2> QED
    BY <1>3, <2>1, <2>2, <2>3, <2>4, <2>5 DEF UninstallNext, Teardown
<1> QED
  BY <1>1, <1>2, <1>3, UninstallAppStep

(***************************************************************************)
(* When the internal ESP is the only one and no file deletion fails, a     *)
(* completed uninstall has emptied and removed \EFI\BRR, whatever earlier  *)
(* installs, cut off or not, left in it.                                   *)
(***************************************************************************)
THEOREM RevertEmptiesEsp ==
  ASSUME ~Fails("DeleteFile")
  PROVE  Spec => []RevertRemovesFiles
<1>1. CASE OtherEsps = {0}
  <2>1. Init => FilesInv
    BY DEF Init, FilesInv, UninstallApps
  <2>2. Inv /\ AloneInv /\ FilesInv /\ [Next]_vars => FilesInv'
    BY <1>1, FilesStep
  <2>3. FilesInv => RevertRemovesFiles
    BY DEF FilesInv, NoFiles, RevertRemovesFiles, Reverted
  <2> QED
    BY <2>1, <2>2, <2>3, SpecInv, SpecAlone, PTL DEF Spec
<1>2. CASE OtherEsps # {0}
  <2>1. RevertRemovesFiles
    BY <1>2 DEF RevertRemovesFiles
  <2> QED
    BY <2>1, PTL
<1> QED
  BY <1>1, <1>2

-----------------------------------------------------------------------------
LEMMA RestoredStep ==
  ASSUME GuardedInstall, ~Fails("DeleteVar"), Inv, AloneInv, GInv, RestoredInv, [Next]_vars
  PROVE  RestoredInv'
<1> SUFFICES ASSUME app' \in UninstallApps, pc' = "returned"
             PROVE  bootOrder' = OrigOrder /\ PresentVars' = {}
  BY DEF RestoredInv
<1>1. CASE UNCHANGED <<pc, todo, disk>> /\ app \in UninstallApps
  BY <1>1 DEF RestoredInv, PresentVars, disk, fwVars, brrVars
<1>2. CASE UninstallNext
  <2>1. bootOrder' = OrigOrder
    BY <1>2, UninstallOrder
  <2>2. PresentVars = {} /\ UNCHANGED disk
    BY <1>2 DEF UninstallNext, RestoreBootOrder, DeleteBootEntry, OpenEspForTeardown, Teardown,
         Sweep
  <2> QED
    BY <2>1, <2>2 DEF PresentVars, disk, brrVars
<1> QED
  BY <1>1, <1>2, UninstallAppStep

(***************************************************************************)
(* When installs are brr-entry's and no deletion of a variable fails, a    *)
(* completed uninstall has put the user's BootOrder back and left no BRR   *)
(* variable, the legacy ones that only the sweep removes included.         *)
(***************************************************************************)
THEOREM RevertRestored ==
  ASSUME GuardedInstall, ~Fails("DeleteVar")
  PROVE  Spec => []RevertRestores
<1>1. Init => RestoredInv
  BY DEF Init, RestoredInv, UninstallApps
<1>2. Inv /\ AloneInv /\ GInv /\ RestoredInv /\ [Next]_vars => RestoredInv'
  BY RestoredStep
<1>3. RestoredInv => RevertRestores
  BY DEF RestoredInv, RevertRestores, Reverted
<1> QED
  BY <1>1, <1>2, <1>3, SpecInv, SpecAlone, SpecGInv, PTL DEF Spec
=============================================================================
