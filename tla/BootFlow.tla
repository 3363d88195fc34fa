------------------------------- MODULE BootFlow -------------------------------
(***************************************************************************)
(* The pre-ExitBootServices programs around mask_ops.c, and what starts    *)
(* them: the firmware's boot manager walks BootOrder, or the user picks    *)
(* the USB stick and runs brr-entry.efi, install.efi, install.efi          *)
(* --uninstall or revert.efi from it; brr-entry.efi chainloads             *)
(* mask-shim.efi, which is also what the installed BootNNNN entry starts.  *)
(* One program runs at a time; power may be lost at any step.              *)
(***************************************************************************)
EXTENDS MaskOps

CONSTANT UsbApps   \* what the user may start from the USB stick

ASSUME AppsAssumption ==
  UsbApps \subseteq {"brr-entry.efi", "install.efi", "install.efi --uninstall", "revert.efi"}

VARIABLES
  app,       \* the program that has the machine
  bootIdx,   \* the boot manager's position in BootOrder
  skipMask,  \* skip_mask of mask-shim's efi_main
  reserved   \* pages the shim has set out to reserve since power-on

flowVars == <<app, bootIdx, skipMask, reserved>>
vars     == <<opsVars, flowVars>>

Apps == {"off", "firmware", "mask-shim.efi", "macOS"} \cup UsbApps

(* ResetSystem, the power being cut, or an early return to grub, which can  *)
(* only start a program afresh: only disk survives.                         *)
PowerOff ==
  /\ app' = "off"
  /\ dev' = "none"
  /\ pc' = "idle"
  /\ slot' = NoSlot
  /\ todo' = <<>>
  /\ status' = "none"
  /\ bootIdx' = 0
  /\ skipMask' = FALSE
  /\ reserved' = {}
  /\ UNCHANGED disk

Step(a, from, to) == /\ app = a /\ pc = from
                     /\ pc' = to
                     /\ UNCHANGED <<app, dev, slot, todo>>

Init ==
  /\ bootOrder = OrigOrder
  /\ bootVar = [s \in Slots |-> IF s \in ForeignSlots THEN "foreign" ELSE "none"]
  /\ origBoot = <<>>
  /\ origBootLegacy \in LegacyOrders
  /\ bootEntries = {}
  /\ bootSlot = NoSlot
  /\ maskState = "absent"
  /\ badPages = {}
  /\ badPagesLegacy \in SUBSET Pages
  /\ esp = [f \in Files |-> "none"]
  /\ app = "off" /\ dev = "none" /\ pc = "idle" /\ slot = NoSlot
  /\ todo = <<>> /\ status = "none" /\ bootIdx = 0
  /\ skipMask = FALSE /\ reserved = {}

-----------------------------------------------------------------------------
(* Firmware and user (external) *)

(* The user leaves it to BootOrder, picks the USB stick, or holds Option    *)
(* and picks macOS, which then starts with nothing reserved.               *)
PowerOn ==
  /\ app = "off"
  /\ \/ /\ app' = "firmware" /\ pc' = "select" /\ bootIdx' = 1
        /\ UNCHANGED dev
     \/ /\ \E a \in UsbApps : app' = a
        /\ pc' = "start" /\ dev' = "usb"
        /\ UNCHANGED bootIdx
     \/ /\ app' = "macOS" /\ pc' = "picked"
        /\ UNCHANGED <<dev, bootIdx>>
  /\ UNCHANGED <<disk, slot, todo, status, skipMask, reserved>>

(* A slot the firmware can start the installed shim from. *)
Bootable(s) == bootVar[s] = "brr" /\ esp["mask-shim.efi"] = "whole"

(* The boot manager tries the next entry; past the last one it finds macOS  *)
(* on its own.                                                              *)
SelectBootOption ==
  /\ app = "firmware" /\ pc = "select"
  /\ IF bootIdx > Len(bootOrder) \/ bootVar[bootOrder[bootIdx]] = "foreign"
     THEN /\ app' = "macOS" /\ pc' = "running"
          /\ UNCHANGED <<dev, bootIdx>>
     ELSE IF Bootable(bootOrder[bootIdx])
          THEN /\ app' = "mask-shim.efi" /\ pc' = "state" /\ dev' = "esp"
               /\ UNCHANGED bootIdx
          ELSE /\ bootIdx' = bootIdx + 1
               /\ UNCHANGED <<app, pc, dev>>
  /\ UNCHANGED <<disk, slot, todo, status, skipMask, reserved>>

PowerLoss == /\ app # "off"
             /\ app = "macOS" \/ pc = "prohibited" \/ Fails("PowerLoss")
             /\ PowerOff

-----------------------------------------------------------------------------
(* brr-entry.efi *)

(* Quick retry: a mask is saved and the user answers Y or N.  With Y the    *)
(* state is re-asserted; a failure of that only warns.                      *)
QuickRetry ==
  /\ badPages # {}
  /\ \/ /\ Step("brr-entry.efi", "start", "gate")
        /\ \/ maskState' = "TRIAL_PENDING_PAGE"
           \/ Fails("SetState") /\ UNCHANGED maskState
     \/ /\ Step("brr-entry.efi", "start", "prompt")
        /\ UNCHANGED maskState
  /\ UNCHANGED <<fwVars, origBoot, origBootLegacy, bootEntries, bootSlot, badPages,
                 badPagesLegacy, esp, status, bootIdx, skipMask, reserved>>

NoSavedMask ==
  /\ badPages = {}
  /\ Step("brr-entry.efi", "start", "prompt")
  /\ UNCHANGED <<disk, status, bootIdx, skipMask, reserved>>

(* Empty line, no valid address, or an answer other than Y. *)
CancelEntry ==
  /\ app = "brr-entry.efi" /\ pc = "prompt"
  /\ PowerOff

(* Addresses entered and confirmed: write_bad_pages. *)
WriteBadPages ==
  \/ /\ Step("brr-entry.efi", "prompt", "mark")
     /\ badPages' \in (SUBSET Pages) \ {{}}
     /\ UNCHANGED <<fwVars, origBoot, origBootLegacy, bootEntries, bootSlot, maskState,
                    badPagesLegacy, esp, status, bootIdx, skipMask, reserved>>
  \/ /\ app = "brr-entry.efi" /\ pc = "prompt"
     /\ Fails("SetBadPages")
     /\ PowerOff

MarkTrial ==
  \/ /\ Step("brr-entry.efi", "mark", "gate")
     /\ maskState' = "TRIAL_PENDING_PAGE"
     /\ UNCHANGED <<fwVars, origBoot, origBootLegacy, bootEntries, bootSlot, badPages,
                    badPagesLegacy, esp, status, bootIdx, skipMask, reserved>>
  \/ /\ app = "brr-entry.efi" /\ pc = "mark"
     /\ Fails("SetState")
     /\ PowerOff

(* Mutant: the backup of BootOrder is not looked at. *)
AutoInstallAlways ==
  /\ Step("brr-entry.efi", "gate", "i_open")
  /\ UNCHANGED <<disk, status, bootIdx, skipMask, reserved>>

(* Auto-install unless BrrBackupBootOrder exists. *)
AutoInstall ==
  /\ \/ origBoot = <<>> /\ Step("brr-entry.efi", "gate", "i_open")
     \/ origBoot # <<>> /\ Step("brr-entry.efi", "gate", "chain")
  /\ UNCHANGED <<disk, status, bootIdx, skipMask, reserved>>

(* A successful install left PERMANENT_UNCONFIRMED: set the trial state     *)
(* again, status ignored.  A failed one goes on from the USB stick.         *)
AfterInstall ==
  /\ Step("brr-entry.efi", "returned", "chain")
  /\ \/ status = "ok" /\ maskState' = "TRIAL_PENDING_PAGE"
     \/ (status = "fail" \/ Fails("SetState")) /\ UNCHANGED maskState
  /\ status' = "none"
  /\ UNCHANGED <<fwVars, origBoot, origBootLegacy, bootEntries, bootSlot, badPages,
                 badPagesLegacy, esp, bootIdx, skipMask, reserved>>

(* chainload_shim starts the copy on the USB stick, or fails and resets. *)
ChainloadShim ==
  /\ app = "brr-entry.efi" /\ pc = "chain"
  /\ \/ /\ app' = "mask-shim.efi" /\ pc' = "state"
        /\ UNCHANGED <<disk, dev, slot, todo, status, bootIdx, skipMask, reserved>>
     \/ PowerOff

-----------------------------------------------------------------------------
(* install.efi, install.efi --uninstall and revert.efi *)

UninstallApps == {"install.efi --uninstall", "revert.efi"}

(* The user confirms; or declines, lets the prompt time out, or the NVRAM   *)
(* write test of install.efi fails, and nothing is changed.                 *)
ConfirmApp ==
  \/ /\ \/ Step("install.efi", "start", "i_open")
        \/ \E a \in UninstallApps : Step(a, "start", "u_order")
     /\ UNCHANGED <<disk, status, bootIdx, skipMask, reserved>>
  \/ /\ app \in UninstallApps \cup {"install.efi"} /\ pc = "start"
     /\ PowerOff

FinishApp ==
  /\ app \in UninstallApps \cup {"install.efi"} /\ pc = "returned"
  /\ PowerOff

-----------------------------------------------------------------------------
(* mask-shim.efi *)

(* Mutant: a timeout skips the mask as well. *)
HandleStateTimeoutSkips ==
  /\ Step("mask-shim.efi", "state", "mask")
  /\ skipMask' = (maskState = "PERMANENT_UNCONFIRMED")
  /\ UNCHANGED <<disk, status, bootIdx, reserved>>

(* handle_nvram_state: only PERMANENT_UNCONFIRMED prompts, Y / N / timeout. *)
HandleState ==
  /\ \/ /\ maskState # "PERMANENT_UNCONFIRMED"
        /\ Step("mask-shim.efi", "state", "mask")
        /\ UNCHANGED <<maskState, skipMask>>
     \/ /\ maskState = "PERMANENT_UNCONFIRMED"
        /\ \/ /\ Step("mask-shim.efi", "state", "mask")
              /\ maskState' = "PERMANENT_CONFIRMED"
              /\ UNCHANGED skipMask
           \/ /\ Step("mask-shim.efi", "state", "u_order")
              /\ skipMask' = TRUE
              /\ UNCHANGED maskState
           \/ /\ Step("mask-shim.efi", "state", "mask")
              /\ UNCHANGED <<maskState, skipMask>>
  /\ UNCHANGED <<fwVars, origBoot, origBootLegacy, bootEntries, bootSlot, badPages,
                 badPagesLegacy, esp, status, bootIdx, reserved>>

AfterUninstall ==
  /\ Step("mask-shim.efi", "returned", "mask")
  /\ status' = "none"
  /\ UNCHANGED <<disk, bootIdx, skipMask, reserved>>

(* BrrBadPages, or the older name when that is absent. *)
SavedPages == IF badPages # {} THEN badPages ELSE badPagesLegacy

ApplyMask ==
  /\ Step("mask-shim.efi", "mask", "find")
  /\ reserved' = IF skipMask THEN reserved ELSE SavedPages
  /\ UNCHANGED <<disk, status, bootIdx, skipMask>>

(* Mutant: the boot manager comes back to the entry that failed. *)
StartMacOSAgain ==
  /\ app = "mask-shim.efi" /\ pc = "find"
  /\ app' = "firmware" /\ pc' = "select" /\ dev' = "none" /\ skipMask' = FALSE
  /\ UNCHANGED <<disk, slot, todo, status, bootIdx, reserved>>

(* find_macos_boot and the BootOrder fallback: macOS starts, or the shim    *)
(* returns.  brr-entry then resets.  The boot manager (external) stops at   *)
(* the prohibition sign, as it did when this was tested, until the user     *)
(* turns the machine off, or it goes on to the next entry, the reservations *)
(* still in the memory map.                                                 *)
StartMacOS ==
  /\ app = "mask-shim.efi" /\ pc = "find"
  /\ \/ /\ app' = "macOS" /\ pc' = "running"
        /\ UNCHANGED <<disk, dev, slot, todo, status, bootIdx, skipMask, reserved>>
     \/ /\ dev = "usb"
        /\ PowerOff
     \/ /\ dev = "esp"
        /\ app' = "firmware" /\ pc' \in {"select", "prohibited"}
        /\ dev' = "none" /\ bootIdx' = bootIdx + 1
        /\ skipMask' = FALSE
        /\ UNCHANGED <<disk, slot, todo, status, reserved>>

-----------------------------------------------------------------------------
FirmwareNext == PowerOn \/ SelectBootOption \/ PowerLoss

EntryNext == \/ QuickRetry \/ NoSavedMask \/ CancelEntry \/ WriteBadPages \/ MarkTrial
             \/ AutoInstall \/ AfterInstall \/ ChainloadShim

ShimNext == HandleState \/ AfterUninstall \/ ApplyMask \/ StartMacOS

OpsNext == (InstallNext \/ UninstallNext) /\ UNCHANGED flowVars

Next == FirmwareNext \/ EntryNext \/ ConfirmApp \/ FinishApp \/ ShimNext \/ OpsNext

Spec == Init /\ [][Next]_vars

(***************************************************************************)
(* Fairness: a program that runs takes its next step, the boot manager     *)
(* included.  Prompts that wait for a user for ever (brr-entry.efi) and    *)
(* the user's choices are not fair; prompts with a 30 s timeout are.       *)
(***************************************************************************)
UnattendedNext == SelectBootOption \/ ShimNext \/ OpsNext
FairSpec == Spec /\ WF_vars(UnattendedNext)

-----------------------------------------------------------------------------
(* What NVRAM and the ESP hold. *)
DiskTypeOK ==
  /\ bootOrder \in Seq(Slots)
  /\ bootVar \in [Slots -> {"none", "foreign", "brr"}]
  /\ origBoot \in Seq(Slots)
  /\ origBootLegacy \in Seq(Slots)
  /\ bootEntries \in SUBSET Slots
  /\ bootSlot \in Slots \cup {NoSlot}
  /\ maskState \in MaskStates
  /\ badPages \in SUBSET Pages
  /\ badPagesLegacy \in SUBSET Pages
  /\ esp \in [Files -> FileStates]

(* What the running program holds. *)
RunTypeOK ==
  /\ dev \in {"none", "usb", "esp"}
  /\ pc \in {"idle", "select", "start", "prompt", "mark", "gate", "chain", "returned",
              "state", "mask", "find", "running", "picked", "prohibited"} \cup InstallPcs \cup UninstallPcs
  /\ slot \in Slots \cup {NoSlot}
  /\ todo \in Seq(Objects)
  /\ status \in {"none", "ok", "fail"}
  /\ app \in Apps
  /\ bootIdx \in Nat
  /\ skipMask \in BOOLEAN
  /\ reserved \in SUBSET Pages

(***************************************************************************)
(* Every variable holds what the C code can store in it; in particular     *)
(* only slot numbers are ever written to BootOrder and its backup, and     *)
(* BrrMaskState holds a state handle_nvram_state knows.                    *)
(***************************************************************************)
TypeOK == DiskTypeOK /\ RunTypeOK

(***************************************************************************)
(* mask_ops.c writes and deletes BootNNNN variables by number.  Whatever   *)
(* fails and wherever power is lost, no other system's boot entry is       *)
(* overwritten or deleted, through a stale BrrBootSlot in particular.      *)
(***************************************************************************)
ForeignEntriesUntouched == \A s \in Slots : bootVar[s] = "foreign" <=> s \in ForeignSlots

(***************************************************************************)
(* The order of writes in install and uninstall: at no point, so after no  *)
(* power cut, does BootOrder name a BRR slot whose BootNNNN variable or    *)
(* whose mask-shim.efi is missing or torn.                                 *)
(***************************************************************************)
NoBrokenBoot ==
  \A i \in 1..Len(bootOrder) : bootOrder[i] \in ForeignSlots \/ Bootable(bootOrder[i])

(***************************************************************************)
(* Nothing but the user's own choice of macOS in the Option picker, which   *)
(* mask-shim.efi itself announces as unmasked, gets past the shim while it  *)
(* is in BootOrder: if macOS was started through BootOrder or by the shim   *)
(* and BootOrder still starts with the shim, the shim has set out to        *)
(* reserve the saved pages.  (What comes of that is ShimMask's.)            *)
(***************************************************************************)
InstalledMeansMasked ==
  app = "macOS" /\ pc # "picked" /\ bootOrder # OrigOrder => reserved = SavedPages

(***************************************************************************)
(* When revert.efi (or install.efi --uninstall) completes, BootOrder is    *)
(* the one from before the first install and nothing of BRR is left in     *)
(* NVRAM, wherever earlier runs were cut off.                              *)
(***************************************************************************)
Reverted == app \in UninstallApps /\ pc = "returned"
RevertRestores ==
  Reverted => /\ bootOrder = OrigOrder
              /\ PresentVars = {}

(***************************************************************************)
(* ... and if the internal ESP is the only one, \EFI\BRR is gone from it    *)
(* with everything in it, the copies in backup\ of a re-install included.  *)
(***************************************************************************)
RevertRemovesFiles ==
  Reverted /\ OtherEsps = {0} => \A f \in Files : esp[f] = "none"

(***************************************************************************)
(* README.md: no code path deletes BrrBadPages on failure.  The saved      *)
(* addresses disappear only in an uninstall that has restored BootOrder.   *)
(***************************************************************************)
BadPagesKept ==
  [][badPages # {} /\ badPages' = {} => bootOrder = OrigOrder /\ pc \in UninstallPcs]_vars

(***************************************************************************)
(* BootOrder still lists every system it did before BRR, in that order and *)
(* behind entries of BRR at most.                                          *)
(***************************************************************************)
Intact(order) ==
  \E n \in 0..Len(order) : /\ \A i \in 1..n : order[i] \notin ForeignSlots
                           /\ SubSeq(order, n + 1, Len(order)) = OrigOrder

(***************************************************************************)
(* Installing again backs up a BootOrder that is BRR's already, and an      *)
(* uninstall may find the backup of any of the installs, or an older one,   *)
(* or none; saving and restoring may fail and power may be lost anywhere:   *)
(* no step takes another system out of a BootOrder that fits the buffer.    *)
(***************************************************************************)
SystemsKept == [][Intact(bootOrder) /\ Len(bootOrder) <= OrderCap => Intact(bootOrder')]_vars

(* The boot configuration changes as BootConfig allows. *)
Config == INSTANCE BootConfig WITH
            order <- bootOrder,
            bootable <- {s \in Slots : Bootable(s)}
ConfigSpec == Config!Spec

(***************************************************************************)
(* Started from BootOrder with nobody at the keyboard, the machine reaches *)
(* macOS, or loses power, or its shim has found no boot.efi and the         *)
(* firmware shows the prohibition sign: the shim's prompt times out, the    *)
(* teardown and its sweep terminate, and a shim that gives up is not        *)
(* started again.                                                          *)
(***************************************************************************)
UnattendedBoot ==
  (app = "firmware" /\ pc = "select") ~> (app \in {"macOS", "off"} \/ pc = "prohibited")

(* Conditions under which the order of writes protects the boot             *)
(* configuration: the installs are brr-entry's, there was a BootOrder to    *)
(* save and it fits the buffer, and saving and restoring it do not fail.    *)
GuardedInstall ==
  /\ "install.efi" \notin UsbApps
  /\ Len(OrigOrder) \in 1..OrderCap
  /\ Faults \cap {"SaveOrder", "RestoreOrder"} = {}
=============================================================================
