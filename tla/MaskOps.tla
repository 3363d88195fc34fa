------------------------------- MODULE MaskOps -------------------------------
(***************************************************************************)
(* The shared install / uninstall code (efi/mask-common/mask_ops.c) and    *)
(* the persistent state it works on: the firmware's BootOrder and BootNNNN *)
(* variables, the BRR vendor variables in NVRAM, and \EFI\BRR\ on the      *)
(* internal ESP.                                                           *)
(*                                                                         *)
(* Every SetVariable, file copy and file deletion is one step, so that     *)
(* power may be lost between any two of them.  A call fails only if its    *)
(* name is in Faults.  An absent variable is <<>>, {} or NoSlot.           *)
(***************************************************************************)
EXTENDS Naturals, Sequences, FiniteSets

CONSTANTS
  Slots,         \* numbers NNNN of the BootNNNN variables in play
  InstallSlots,  \* the range 0x0100..0x01FE searched for a free slot
  ForeignSlots,  \* BootNNNN variables of other systems, present from the start
  OrigOrder,     \* BootOrder before BRR ever ran
  LegacyOrders,  \* what A1990MaskOriginalBootOrder may hold at the start
  Pages,         \* bad page addresses a user may enter
  EntriesCap,    \* slots that fit in the 512-byte csv of BrrBackupBootEntries
  OrderCap,      \* entries that fit in a 256-entry BootOrder buffer
  OtherEsps,     \* how many further fixed volumes with an EFI directory may be found
  Faults         \* the calls that may fail

NoSlot == 0

(* Calls whose failure the model can inject. *)
Calls == {"SaveEntries", "SaveOrder", "CopyFile", "SetBootEntry", "SetBootSlot",
          "SetBootOrder", "RestoreOrder", "SetState", "SetBadPages",
          "DeleteVar", "DeleteFile", "PowerLoss"}

ASSUME SlotsAssumption ==
  /\ Slots \subseteq Nat \ {NoSlot}
  /\ InstallSlots \subseteq Slots
  /\ ForeignSlots \subseteq Slots
ASSUME OrderAssumption ==
  /\ OrigOrder \in Seq(ForeignSlots)
  /\ LegacyOrders \subseteq {<<>>, OrigOrder}
ASSUME EnvAssumption ==
  /\ EntriesCap \in Nat
  /\ OrderCap \in Nat \ {0}
  /\ OtherEsps \subseteq Nat
  /\ Faults \subseteq Calls

VARIABLES
  bootOrder,       \* global variable BootOrder
  bootVar,         \* global variables BootNNNN: whose load option each slot holds
  origBoot,        \* BrrBackupBootOrder
  origBootLegacy,  \* A1990MaskOriginalBootOrder
  bootEntries,     \* BrrBackupBootEntries
  bootSlot,        \* BrrBootSlot
  maskState,       \* BrrMaskState
  badPages,        \* BrrBadPages
  badPagesLegacy,  \* A1990BadPages, left by an older build
  esp,             \* files and directories under \EFI\BRR on the internal ESP
  dev,             \* device the running image was loaded from
  pc,              \* next step of the running program
  slot,            \* local variable slot of install and uninstall
  todo,            \* objects the running rollback or teardown has yet to delete
  status           \* what install_mask_full or uninstall_mask_full returned

fwVars   == <<bootOrder, bootVar>>
brrVars  == <<origBoot, origBootLegacy, bootEntries, bootSlot, maskState,
              badPages, badPagesLegacy>>
disk     == <<fwVars, brrVars, esp>>
opsVars  == <<bootOrder, bootVar, origBoot, origBootLegacy, bootEntries, bootSlot,
              maskState, badPages, badPagesLegacy, esp, dev, pc, slot, todo, status>>

BackupFiles == {"backup/mask-shim.efi", "backup/badmem.txt"}
BRRFiles    == {"mask-shim.efi", "badmem.txt", "backup"} \cup BackupFiles
Files       == BRRFiles \cup {"BRR"}

FileStates  == {"none", "partial", "whole"}

BrrVarNames == {"BrrMaskState", "BrrBadPages", "BrrBackupBootOrder",
                "A1990MaskOriginalBootOrder", "BrrBackupBootEntries",
                "BrrBootSlot", "A1990BadPages"}

(* What a rollback or teardown deletes by name. *)
Objects == Files \cup BrrVarNames \cup {"BootNNNN"}

MaskStates == {"absent", "TRIAL_PENDING_PAGE", "PERMANENT_UNCONFIRMED",
               "PERMANENT_CONFIRMED"}

InstallPcs   == {"i_open", "i_entries", "i_backup", "i_save", "i_mkdir", "i_create",
                 "i_write", "i_badmem", "i_entry", "i_slot", "i_order", "i_state",
                 "i_rollback"}
UninstallPcs == {"u_order", "u_slot", "u_esp", "u_delete", "u_sweep"}

Fails(call) == call \in Faults

Return(s) == /\ pc' = "returned"
             /\ status' = s

-----------------------------------------------------------------------------
(* Files on the ESP *)

(* Deleting a directory succeeds only when it is empty. *)
Deletable(f) == CASE f = "backup" -> \A g \in BackupFiles : esp[g] = "none"
                  [] f = "BRR"    -> \A g \in BRRFiles : esp[g] = "none"
                  [] OTHER        -> TRUE

(* What copy_file_ops may leave at f: the source's contents or, when a call *)
(* of it fails, the file that was there or the part that reached the disk.  *)
(* A source that does not exist leaves f alone.                             *)
Copied(f, source) == IF source = "none" THEN {esp[f]}
                     ELSE {source} \cup (IF Fails("CopyFile") THEN {esp[f], "partial"} ELSE {})

(* mkdir_p_ops; its status is not looked at. *)
Made(d) == {"whole"} \cup (IF Fails("CopyFile") THEN {esp[d]} ELSE {})

(* open_internal_esp_ops: the image's own device is skipped, and exactly one *)
(* other fixed volume must have an EFI directory.                            *)
OpensInternalEsp(others) == dev = "usb" /\ others = 0

-----------------------------------------------------------------------------
(* Deletion of one named object; SetVariable with size 0, or File.Delete. *)
Erase(x) ==
  /\ bootVar'        = IF x = "BootNNNN" THEN [bootVar EXCEPT ![slot] = "none"] ELSE bootVar
  /\ maskState'      = IF x = "BrrMaskState" THEN "absent" ELSE maskState
  /\ badPages'       = IF x = "BrrBadPages" THEN {} ELSE badPages
  /\ badPagesLegacy' = IF x = "A1990BadPages" THEN {} ELSE badPagesLegacy
  /\ origBoot'       = IF x = "BrrBackupBootOrder" THEN <<>> ELSE origBoot
  /\ origBootLegacy' = IF x = "A1990MaskOriginalBootOrder" THEN <<>> ELSE origBootLegacy
  /\ bootEntries'    = IF x = "BrrBackupBootEntries" THEN {} ELSE bootEntries
  /\ bootSlot'       = IF x = "BrrBootSlot" THEN NoSlot ELSE bootSlot
  /\ esp'            = IF x \in Files /\ Deletable(x) THEN [esp EXCEPT ![x] = "none"] ELSE esp
  /\ UNCHANGED bootOrder

(* The status of a deletion is never looked at. *)
EraseNext ==
  /\ todo # <<>>
  /\ todo' = Tail(todo)
  /\ \/ Erase(Head(todo))
     \/ /\ IF Head(todo) \in Files THEN Fails("DeleteFile") ELSE Fails("DeleteVar")
        /\ UNCHANGED disk

-----------------------------------------------------------------------------
(* A BootOrder that does not fit the buffer reads as if it were absent. *)
ReadableBelow(order) ==   \* mutant: a BootOrder that just fits is not read
  IF Len(order) < OrderCap THEN order ELSE <<>>
Readable(order) == IF Len(order) <= OrderCap THEN order ELSE <<>>

-----------------------------------------------------------------------------
(* install_mask_full *)

(* Locate the USB root and a unique internal ESP, or give up. *)
InstallOpen ==
  /\ pc = "i_open"
  /\ \E others \in OtherEsps :
       \/ /\ OpensInternalEsp(others)
          /\ pc' = "i_entries"
          /\ UNCHANGED status
       \/ /\ ~OpensInternalEsp(others)
          /\ Return("fail")
  /\ UNCHANGED <<disk, dev, slot, todo>>

(* save_existing_boot_entries: only as many slots as the csv has room for. *)
SaveBootEntries ==
  /\ pc = "i_entries"
  /\ pc' = "i_backup"
  /\ LET existing == {s \in Slots : bootVar[s] # "none"}
     IN \/ \E S \in SUBSET existing :
             /\ Cardinality(S) = EntriesCap \/ (S = existing /\ Cardinality(S) <= EntriesCap)
             /\ bootEntries' = IF S = {} THEN bootEntries ELSE S
        \/ Fails("SaveEntries") /\ UNCHANGED bootEntries
  /\ UNCHANGED <<fwVars, origBoot, origBootLegacy, bootSlot, maskState, badPages,
                 badPagesLegacy, esp, dev, slot, todo, status>>

(* Best-effort copy of an installed shim and its badmem.txt to backup\, one *)
(* step: only the teardown looks at these files again.                      *)
BackupInstalled ==
  /\ pc = "i_backup"
  /\ pc' = "i_save"
  /\ \/ /\ esp["mask-shim.efi"] = "none"
        /\ UNCHANGED esp
     \/ /\ esp["mask-shim.efi"] # "none"
        /\ \E d \in Made("backup"),
              s \in Copied("backup/mask-shim.efi", esp["mask-shim.efi"]),
              b \in Copied("backup/badmem.txt", esp["badmem.txt"]) :
             /\ d = "none" => s = "none" /\ b = "none"
             /\ esp' = [esp EXCEPT !["backup"] = d, !["backup/mask-shim.efi"] = s,
                                   !["backup/badmem.txt"] = b]
  /\ UNCHANGED <<fwVars, brrVars, dev, slot, todo, status>>

(* BootOrder -> BrrBackupBootOrder.  Skipped when BootOrder cannot be read  *)
(* or is empty; the status of the write is ignored.                         *)
SaveBootOrder ==
  /\ pc = "i_save"
  /\ pc' = "i_mkdir"
  /\ \/ /\ Readable(bootOrder) # <<>>
        /\ origBoot' = bootOrder
     \/ /\ Readable(bootOrder) = <<>> \/ Fails("SaveOrder")
        /\ UNCHANGED origBoot
  /\ UNCHANGED <<fwVars, origBootLegacy, bootEntries, bootSlot, maskState, badPages,
                 badPagesLegacy, esp, dev, slot, todo, status>>

MakeDirs ==
  /\ pc = "i_mkdir"
  /\ pc' = "i_create"
  /\ \E d \in Made("BRR") : esp' = [esp EXCEPT !["BRR"] = d]
  /\ UNCHANGED <<fwVars, brrVars, dev, slot, todo, status>>

(* Mutant: a failed copy also throws the saved addresses away. *)
RollbackCopyWithPages == <<"mask-shim.efi", "BrrBackupBootOrder", "BrrBackupBootEntries",
                           "BrrBadPages">>
RollbackCopy  == <<"mask-shim.efi", "BrrBackupBootOrder", "BrrBackupBootEntries">>
RollbackEntry == <<"mask-shim.efi", "badmem.txt", "BrrBackupBootOrder",
                   "BrrBackupBootEntries">>
RollbackOrder == <<"BootNNNN", "BrrBootSlot", "BrrBackupBootOrder",
                   "BrrBackupBootEntries", "mask-shim.efi", "badmem.txt">>

(* copy_file_ops of mask-shim.efi, in two steps: the destination is opened  *)
(* for writing, then written.  A power cut in between leaves it torn.       *)
CreateShim ==
  /\ pc = "i_create"
  /\ \/ /\ esp["BRR"] = "whole"
        /\ esp' = [esp EXCEPT !["mask-shim.efi"] = "partial"]
        /\ pc' = "i_write"
        /\ UNCHANGED todo
     \/ /\ esp["BRR"] = "none" \/ Fails("CopyFile")
        /\ todo' = RollbackCopy
        /\ pc' = "i_rollback"
        /\ UNCHANGED esp
  /\ UNCHANGED <<fwVars, brrVars, dev, slot, status>>

(* Mutant: the status of the write is ignored. *)
WriteShimUnchecked ==
  /\ pc = "i_write"
  /\ \/ esp' = [esp EXCEPT !["mask-shim.efi"] = "whole"]
     \/ Fails("CopyFile") /\ UNCHANGED esp
  /\ pc' = "i_badmem"
  /\ UNCHANGED <<fwVars, brrVars, dev, slot, todo, status>>

WriteShim ==
  /\ pc = "i_write"
  /\ \/ /\ esp' = [esp EXCEPT !["mask-shim.efi"] = "whole"]
        /\ pc' = "i_badmem"
        /\ UNCHANGED todo
     \/ /\ Fails("CopyFile")
        /\ todo' = RollbackCopy
        /\ pc' = "i_rollback"
        /\ UNCHANGED esp
  /\ UNCHANGED <<fwVars, brrVars, dev, slot, status>>

(* badmem.txt may be absent from the USB stick; a failed copy only warns. *)
CopyBadmem ==
  /\ pc = "i_badmem"
  /\ pc' = "i_entry"
  /\ \E onUsb \in {"none", "whole"} : \E b \in Copied("badmem.txt", onUsb) :
       esp' = [esp EXCEPT !["badmem.txt"] = b]
  /\ UNCHANGED <<fwVars, brrVars, dev, slot, todo, status>>

(* Mutant: the first slot of the range, in use or not. *)
FirstOfRange(s) == s \in InstallSlots /\ \A t \in InstallSlots : s <= t

FirstFree(s) == /\ s \in InstallSlots
                /\ bootVar[s] = "none"
                /\ \A t \in InstallSlots : bootVar[t] = "none" => s <= t

(* install_boot_entry_ops: the first free slot of the range gets our load option. *)
InstallBootEntry ==
  /\ pc = "i_entry"
  /\ \/ \E s \in InstallSlots :
          /\ FirstFree(s)
          /\ bootVar' = [bootVar EXCEPT ![s] = "brr"]
          /\ slot' = s
          /\ pc' = "i_slot"
          /\ UNCHANGED todo
     \/ /\ (\A s \in InstallSlots : bootVar[s] # "none") \/ Fails("SetBootEntry")
        /\ todo' = RollbackEntry
        /\ pc' = "i_rollback"
        /\ UNCHANGED <<bootVar, slot>>
  /\ UNCHANGED <<bootOrder, brrVars, esp, dev, status>>

(* BrrBootSlot; status ignored. *)
RecordSlot ==
  /\ pc = "i_slot"
  /\ pc' = "i_order"
  /\ \/ bootSlot' = slot
     \/ Fails("SetBootSlot") /\ UNCHANGED bootSlot
  /\ UNCHANGED <<fwVars, origBoot, origBootLegacy, bootEntries, maskState, badPages,
                 badPagesLegacy, esp, dev, slot, todo, status>>

(* prepend_boot_order_ops re-reads BootOrder and puts the slot first. *)
PrependBootOrder ==
  /\ pc = "i_order"
  /\ \/ /\ bootOrder' = <<slot>> \o Readable(bootOrder)
        /\ pc' = "i_state"
        /\ UNCHANGED todo
     \/ /\ Fails("SetBootOrder")
        /\ todo' = RollbackOrder
        /\ pc' = "i_rollback"
        /\ UNCHANGED bootOrder
  /\ UNCHANGED <<bootVar, brrVars, esp, dev, slot, status>>

(* Mutant: a state name no program of this version writes. *)
InstallSetOldState ==
  /\ pc = "i_state"
  /\ maskState' = "TRIAL_BOOTED"
  /\ Return("ok")
  /\ UNCHANGED <<fwVars, origBoot, origBootLegacy, bootEntries, bootSlot, badPages,
                 badPagesLegacy, esp, dev, slot, todo>>

(* BrrMaskState = PERMANENT_UNCONFIRMED; status ignored. *)
InstallSetState ==
  /\ pc = "i_state"
  /\ \/ maskState' = "PERMANENT_UNCONFIRMED"
     \/ Fails("SetState") /\ UNCHANGED maskState
  /\ Return("ok")
  /\ UNCHANGED <<fwVars, origBoot, origBootLegacy, bootEntries, bootSlot, badPages,
                 badPagesLegacy, esp, dev, slot, todo>>

(* The error paths delete what the failed install has made so far. *)
InstallRollback ==
  /\ pc = "i_rollback"
  /\ \/ /\ EraseNext
        /\ UNCHANGED <<pc, status>>
     \/ /\ todo = <<>>
        /\ Return("fail")
        /\ UNCHANGED <<disk, todo>>
  /\ UNCHANGED <<dev, slot>>

InstallNext ==
  \/ InstallOpen \/ SaveBootEntries \/ BackupInstalled \/ SaveBootOrder \/ MakeDirs
  \/ CreateShim \/ WriteShim \/ CopyBadmem \/ InstallBootEntry \/ RecordSlot
  \/ PrependBootOrder \/ InstallSetState \/ InstallRollback

-----------------------------------------------------------------------------
(* uninstall_mask_full *)

(* Mutant: only the legacy name is read. *)
SavedOrderLegacy == origBootLegacy

SavedOrder == IF origBoot # <<>> THEN origBoot ELSE origBootLegacy

(* Step 1: BootOrder from BrrBackupBootOrder, or the legacy variable; a     *)
(* failed write only warns.                                                 *)
RestoreBootOrder ==
  /\ pc = "u_order"
  /\ pc' = "u_slot"
  /\ \/ /\ SavedOrder # <<>>
        /\ bootOrder' = SavedOrder
     \/ /\ SavedOrder = <<>> \/ Fails("RestoreOrder")
        /\ UNCHANGED bootOrder
  /\ UNCHANGED <<bootVar, brrVars, esp, dev, slot, todo, status>>

(* Step 2: delete the BootNNNN that BrrBootSlot names. *)
DeleteBootEntry ==
  /\ pc = "u_slot"
  /\ pc' = "u_esp"
  /\ slot' = bootSlot
  /\ \/ /\ bootSlot # NoSlot
        /\ bootVar' = [bootVar EXCEPT ![bootSlot] = "none"]
     \/ /\ bootSlot = NoSlot \/ Fails("DeleteVar")
        /\ UNCHANGED bootVar
  /\ UNCHANGED <<bootOrder, brrVars, esp, dev, todo, status>>

(* Mutant: the second backup file is forgotten. *)
TeardownFilesShort == <<"backup/mask-shim.efi", "backup", "mask-shim.efi", "badmem.txt",
                        "BRR">>

TeardownFiles == <<"backup/mask-shim.efi", "backup/badmem.txt", "backup",
                   "mask-shim.efi", "badmem.txt", "BRR">>
TeardownVars  == <<"BrrMaskState", "BrrBadPages", "BrrBackupBootOrder",
                   "A1990MaskOriginalBootOrder", "BrrBackupBootEntries", "BrrBootSlot">>

(* Step 3: the files, if a unique internal ESP is found; step 4: the known  *)
(* variables.                                                               *)
OpenEspForTeardown ==
  /\ pc = "u_esp"
  /\ pc' = "u_delete"
  /\ \E others \in OtherEsps :
       todo' = IF OpensInternalEsp(others) THEN TeardownFiles \o TeardownVars
                                           ELSE TeardownVars
  /\ UNCHANGED <<disk, dev, slot, status>>

Teardown ==
  /\ pc = "u_delete"
  /\ \/ /\ EraseNext
        /\ UNCHANGED pc
     \/ /\ todo = <<>>
        /\ pc' = "u_sweep"
        /\ UNCHANGED <<disk, todo>>
  /\ UNCHANGED <<dev, slot, status>>

(* BRR variables GetNextVariableName still returns. *)
PresentVars ==
  {x \in BrrVarNames :
     \/ x = "BrrMaskState" /\ maskState # "absent"
     \/ x = "BrrBadPages" /\ badPages # {}
     \/ x = "A1990BadPages" /\ badPagesLegacy # {}
     \/ x = "BrrBackupBootOrder" /\ origBoot # <<>>
     \/ x = "A1990MaskOriginalBootOrder" /\ origBootLegacy # <<>>
     \/ x = "BrrBackupBootEntries" /\ bootEntries # {}
     \/ x = "BrrBootSlot" /\ bootSlot # NoSlot}

(* The sweep: each deletion restarts the enumeration; it ends when no       *)
(* variable is left, or when the deletion of each of the remaining fails.   *)
Sweep ==
  /\ pc = "u_sweep"
  /\ \/ /\ \E x \in PresentVars : Erase(x)
        /\ UNCHANGED <<pc, status>>
     \/ /\ PresentVars = {} \/ Fails("DeleteVar")
        /\ Return("ok")
        /\ UNCHANGED disk
  /\ UNCHANGED <<dev, slot, todo>>

UninstallNext ==
  \/ RestoreBootOrder \/ DeleteBootEntry \/ OpenEspForTeardown \/ Teardown \/ Sweep
=============================================================================
