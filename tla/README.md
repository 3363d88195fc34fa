# Formal model of the MacBook RAM Bank Finder

The repository turns a memtest86+ build and four small UEFI programs into a
tool that finds bad DRAM on a MacBook and keeps macOS away from it. This
directory models it in TLA+, from the first error that a test reports to the
page that macOS does not get: what memtest86+ logs and skips (`MemtestLog`),
how an address becomes a chip and a row and how these become pages again
(`ImcDecode`), what the user types (`AddressEntry`), what the UEFI programs
write to NVRAM and to the internal ESP, with failing writes and power cuts in
between (`BootFlow`), how the shim turns lists of addresses into reserved
memory (`ShimMask`), and how it finds macOS afterwards (`FindBoot`).

## 1. Inventory

| part | source | state | operations |
|---|---|---|---|
| error log, burst detector, skip list | `src/badmem_log.c`, `src/skip.c`, `src/error_hook.c`, patches 0009, 0013, 0015 | `log_pages`, `skip_list`, `lru`, `vm_map`, `row_log`, `chip_buf` | record, merge, detect a burst, prune a window, decode the log at the end of a pass, halt |
| IMC decoding, chip topology | `src/imc/cfl_skl_kbl.c`, `efi/mask-shim/cfl_decode_shim.c`, `src/board_topology.c`, `src/imc_dispatch.c` | registers of the memory controller; board profiles | physical address to channel, rank, bank group, bank, row; place to chips; rows and chips to pages |
| address entry of brr-entry.efi | `efi/brr-entry/main.c` | line buffer, addresses, `BrrBadPages` | quick retry, line editor, parser, confirmation |
| install / uninstall engine | `efi/mask-common/mask_ops.c` | `BootOrder`, `BootNNNN`, `BrrBackupBootOrder`, `A1990MaskOriginalBootOrder`, `BrrBackupBootEntries`, `BrrBootSlot`, `BrrMaskState`, `BrrBadPages`; `\EFI\BRR\` on the internal ESP | `install_mask_full` (11 writes, 3 rollbacks), `uninstall_mask_full` (restore, delete, teardown, sweep) |
| brr-entry.efi, install.efi, revert.efi | `efi/brr-entry/main.c`, `efi/mask-install/main.c`, `efi/revert/main.c` | `BrrBadPages`, `BrrMaskState` | gated auto-install, install, uninstall, chainload, reset |
| mask-shim.efi: mask | `efi/mask-shim/main.c`, `efi/badmem_parse.c` | `BrrMaskState`, `ranges[]`, UEFI memory map | state machine, prompt with timeout, parse, merge, page / chip / row mask, verification |
| mask-shim.efi: finding macOS | `efi/mask-shim/main.c` | positions in volumes, directories, boot options | two passes over the volumes, five tiers each, BootOrder fallback, start |
| calibration, self-test, menus, beeper, scripts | `src/calibration.c`, `src/decoder_selftest.c`, `src/efi_menu.c`, `src/beeper.c`, `scripts/` ... | - | timing, I/O, build |

In memtest86+ several CPUs report errors, one at a time under `error_mutex`,
while CPU 0 alone builds and prunes the windows they test. The summary on the
screen, typed into brr-entry by the user, is the only way from there to the
rest: no program of this build writes the rows and chips to NVRAM. After
that one program runs at a time: the firmware's boot manager starts the first
bootable entry of `BootOrder`, or the user starts a program from the USB stick;
brr-entry chainloads the shim from the stick; the installed `BootNNNN` entry
starts the shim from the internal ESP. The programs talk to each other only
through NVRAM and the ESP. What makes this part hard is not parallelism but
persistence: any step may be the last before a power cut, most statuses of
`SetVariable` are ignored, and the next program decides from what it finds.
`PROJECT.json` lists the hazards at their lines.

What makes the parts correct: every bad page is logged, and skipped memory is
logged memory; a row or a chip recorded by one decoder leads the other back to
the page; what is saved is what was typed; BootOrder never names something that
cannot be started; macOS started through BootOrder has its bad pages masked; an
uninstall gives back what was there before; other systems' boot entries are
never touched; a mask without a warning is complete for what could be read; macOS is found where it
is known to be, on an internal disk first; an unattended machine comes up or shows that it cannot.

## 2. Modules

| module | models |
|---|---|
| `MemtestLog` | page log, burst detector, skip list, pruning of windows, end of a pass |
| `ImcBits` | addresses and registers as sets of bits, for both decoders |
| `CflSklKbl`, `CflDecodeShim` | the decoder of memtest86+ and the one of mask-shim.efi, each from its own source |
| `ImcDecode` | from an error to a row and chips, and at a later boot back to pages; instantiates both decoders |
| `AddressEntry` | keyboard to `BrrBadPages` |
| `MaskOps` | the persistent state and `install_mask_full` / `uninstall_mask_full`, one step per write |
| `BootFlow` | boot manager, user, power, brr-entry, install, revert and the shim around `MaskOps`; the properties |
| `BootConfig` | the abstract specification: BootOrder and the slots that can be started, changed atomically |
| `ShimMask` | the shim's mask: mode decision, badmem.txt rounding, merge, page-by-page reservation, verification, chip and row walks |
| `FindBoot` | volumes, tiers and boot options until an image is started |
| `DocClaims`, `ShimClaims` | statements of the repository's comments and documents that the code does not keep |
| `MCBootFlow`, `MCShimMask`, `MCMemtestLog`, `MCFindBoot`, `MCImcDecode`, `MCAddressEntry` | constants and inputs for TLC |
| `BootFlowProofs`, `BootConfigProofs`, `RevertProofs`, `ShimMaskProofs`, `MemtestLogProofs`, `FindBootProofs`, `ImcDecodeProofs`, `AddressEntryProofs` | theorems, for all constants |

### Correspondence

`MaskOps` names its variables after the C variables and NVRAM names; the
comment at each `VARIABLE` gives the NVRAM name. An absent variable is the
empty set, the empty sequence or `NoSlot`: UEFI deletes a variable that is
written with size 0, so absent and empty are one thing. A file is `none`,
`partial` or `whole`. `pc` is the next write of the running function: `i_*` in
`install_mask_full`, `u_*` in `uninstall_mask_full`. The three rollbacks and
the teardown are lists of objects (`RollbackCopy` ... `TeardownVars`) deleted
one by one by `EraseNext`, each deletion with its own chance to fail.

`Faults` says which calls may fail in an instance, `"PowerLoss"` whether the
power may be cut. A call that is not in `Faults` always succeeds, so a run
states under which failures its properties hold.

In `BootFlow`, `app` is the running program and `dev` the device it was loaded
from, which decides whether `open_internal_esp_ops` can find the internal ESP.
`PowerOff` is every way a program gives up the machine: reset, return to grub,
power cut. `reserved` is the set of pages that the shim has set out to reserve;
how far that succeeds is `ShimMask`'s. `PowerOn` is everything a user may do at
a start: nothing, start a program from the stick, or pick macOS itself in the
Option picker (`pc = "picked"`), which goes past BootOrder and the shim and boots
without a mask, as `mask-shim/main.c:2223-2224` tells the user to do;
`InstalledMeansMasked` is about every other start. A shim that finds no macOS
returns to the boot manager. `main.c:2182-2183` says that falling through to the
next entry was tried and ended at the prohibition sign, so the firmware either
goes on with the next entry or stops there (`pc = "prohibited"`), until somebody
cuts the power.

Abstractions: a bad page is a model value; address text, device-path bytes,
console output and delays are left out; the csv of `BrrBackupBootEntries` is a
set capped at `EntriesCap`. `SelectBootOption`, `PowerOn`, `PowerLoss`,
`Bootable`, `Deletable` and `Init` model firmware, user and hardware, from how
the code relies on them; they are marked external in the map.

`ShimMask` is the inside of what `BootFlow` calls masking; the two share no
state but the saved pages. An address counts grains (`PageSize` of them make a
page) so that a region can start and end inside a page; ranges, windows and
the memory map count pages. `lines`, `saved`, `nvChips`, `nvRows`, `decoder`,
`forceChip` and `firmware` are the inputs of one run of the shim and never
change. `pc` names the running function, `cur` its loop index, `off` the
position of an inner loop: one action is one iteration. `warned` is set where
the code prints that input is lost or memory is not protected, `unread` where it
gives up an input without a word, `verdict` is
the line `verify_mask_in_memmap` prints. `Allocate` is AllocatePages as
firmware implements it: only a free page can be taken, and it fails in the
same way for a page in any other use. Which pages belong to a chip or a row is
a parameter, since the address decoder is `ImcDecode`'s. Only the
page type matters of the memory map; boot-services memory stands for all types
that are in use now and free once macOS has started.

`MemtestLog` counts words, and knows two addresses of a word: the physical one
and the one a test uses (`Address`). memtest86+ maps the first 2 GiB directly and
the rest through a window of 1 GiB behind them (`mapped` is the gigabyte in
it), so above 2 GiB an address stands for a word of every gigabyte. The hook and
the detector are given the address (patches 0001 and 0013 pass `addr`, while
`common_err` takes the page from `page_of`), and `board_prune_vm_map` cuts
ranges of addresses out of every window. So `log`, `skips` and `vmMap` hold
addresses, `reported` the physical words, and the properties relate the two. A
segment of `vm_map` ends with its last word (`Touches`), a skip range before its
end (`Within`). Both facts about memtest86+ are not in this repository, where
its source is an empty submodule; they are modelled as its sources have them and
marked external. `Region(a)` is the MiB of an address. `Report` is one
call of `common_err` with everything that happens under `error_mutex`: log,
burst detector, skip list, bail. The pruning of a window is one action per
inner iteration: `seg`, `skip` and `piece` are `i`, `k` and `w` of
`board_prune_vm_map`, and `Cutting` is the condition of its middle loop.
`phase = "overrun"` stands for the write past the end of `new_work`, after which
the program's behaviour is undefined and the model stops. `window` and
`reported` are history. Error values, the screen and the hit counters of skip
ranges are left out; which row and chips a page has is a parameter. The
memtest86+ code that the patches call into (test loop, `setup_vm_map`, the
clearing of `bail`) is external.

`ImcBits` takes an address or a register as the set of its 1 bits, so that
masks, XORs of bits and fields are intersections, parities and sums. A DIMM's
size stays in MiB as in the code, a row width is computed in KiB. The two
decoders are written from the two sources, with their different shapes (a list
of DIMMs in one, per-slot functions in the other) and their different
fall-backs kept. The column is left out: nothing reads it. `ImcDecode` records
with `Memtest!Decode` and enumerates with `Shim!Decode`; the registers do not
change between the two, memory is not remapped, and `BoardAssumption` says what
the generated tables have: a name stands for one package of one board. Rows
reach the shim as `BrrBadRows` of an earlier build; chips by way of the user's
badmem.txt.

`AddressEntry` counts a character by its class and its value as a digit.
`ParseNumber` is one round of the loop of `parse_addresses` with the call of
`parse_hex`; a word keeps its last digits when it is full, which is what the
shift does.

`FindBoot`'s actions are the iterations of the loops of `find_macos_boot`,
`try_open_candidates`, `bfs_find_boot_efi` and `try_bootorder_chainload`. A path
is a sequence of names, a volume says what it lists and what loads. Three
things that the firmware's drivers decide are parameters of a volume: whether
the directory bit is set, whether a path with a doubled separator (which
`path_join` makes in tiers 2 and 3) opens, and what a file holds that is read as
a directory (`Junk`). Names have fewer than 64 characters, the list of handles
is the same in the scan and in the fallback, and `BootOrder` fits its 512 bytes.

## 3. Runs

Passing:

| run | question | bounds and faults | distinct states |
|---|---|---|---|
| `guarded` | brr-entry and revert.efi: `TypeOK`, `NoBrokenBoot`, `ForeignEntriesUntouched`, `InstalledMeansMasked`, `BadPagesKept`, and `ConfigSpec` (refinement of `BootConfig`) | everything fails but saving or restoring BootOrder and deleting files; power cuts | 1.12 M |
| `revert` | a completed revert undoes every history: `RevertRestores`, `RevertRemovesFiles` | copies and writes fail, power cuts; deletions succeed | 0.2 M |
| `unattended` | a started machine reaches macOS or the prohibition sign, or the power is cut: `UnattendedBoot` (liveness); install.efi again and again: `SystemsKept` | backups of BootOrder, restoring it and deletions fail, ambiguous ESP, power cuts | 0.4 M |
| `shim_mask` | a mask without a warning is complete for the inputs that could be read (`SilentMeansMasked`), takes nothing else (`TakesNoMore`), and the verification can be believed as far as `VerifiedPagesSafe` says | AllocatePages, opening and reading badmem.txt, getting BrrBadPages, an unreadable blob or memory map, no IMC | 9.1 M |
| `memtest_log` | pruned windows are clean up to the first word of a range (`PrunedClean`), addresses that are not skipped stay tested (`GoodMemoryTested`), ranges are disjoint (`SkipsDisjoint`), what is skipped is logged (`SkippedIsLogged`), the log has every address (`LogComplete`), the summary tells it (`HaltReports`), pruning ends (`PruneEnds`) | six errors on five words in any order, ten regions, half of them in the window, two gigabytes in it, every table of two or three entries | 0.60 M |
| `imc_decode` | the decoders agree (`DecodersAgree`, `RowBitsFit`), rows lead back to the logged pages (`RowsMasked`), a listed chip to those it was named for, an unknown rank other than 0 excepted (`ChipsMasked`), and rows to nothing else (`RowsOnly`) | 20 controllers, 64 pages, three errors | 20 k |
| `address_entry` | `TypeOK`, `SavesWhatWasTyped`, `SavedKept`, `WellFormedEnds` | every line of up to six characters out of six kinds, typed and corrected in any way | 0.69 M |
| `find_boot` | `KnownLayoutsFound`, `InternalFirst`, `FirstOption`, `OneImage`, `SearchEnds` (liveness) | every sequence of up to three volumes of thirteen kinds | 0.60 M |

Violations (each a sentence of the repository that the code does not keep; the
finding in `PROJECT.json` quotes it):

| run | what happens |
|---|---|
| `backup_flag` | a power cut between saving and changing BootOrder leaves the flag that means "installed"; the shim is never installed after that |
| `pre_reserved` | a boot-services page in a window cannot be allocated, is counted as protected, and is free memory for macOS |
| `work_list` | eight regions skipped inside one segment, cut in an unlucky order: a remnant is copied past the end of `new_work` |
| `page_channel` | the log keeps pages, but the channel is chosen by bits below the page too: the summary names chips of the other channel |

### Known divergences

These were seen while modelling, at the lines given, and are not kept as runs.
The positive properties are stated around them.

- The installed shim, asked at its prompt to uninstall itself, deletes the
  variables but no file: the ESP it should clean is its own device, which the
  search skips (`mask_ops.c:452`).
- Without a BootOrder there is nothing to save, so the flag is never set and
  each run of brr-entry adds an entry (`mask_ops.c:649`).
- install.efi twice saves BRR's own order as the original (`mask_ops.c:650`,
  `mask-install/main.c:65`); no other system is lost by it (`SystemsKept`).
- A power cut between `BootNNNN` and `BrrBootSlot` leaves an entry that no
  uninstall finds (`mask_ops.c:700`).
- The verification looks at the first page of a range only: a gap behind it is
  reported as safe (`mask-shim/main.c:574`).
- The detector compares a run with 8 for equality and only while `bail` is not
  set: a region that reaches 8 when another one has set `bail` is never skipped
  (`patches/0013-early-bail-on-many-errors.patch:48`).
- Above 2 GiB the log, the summary on the screen and hence the user's list hold
  addresses of the test window instead of physical ones (`patches/0001-hook-error-reporter.patch:9`):
  pages of different gigabytes share one entry, the page that the shim masks is
  not the one that failed unless the third gigabyte was in the window, and a skip
  range is cut out of every gigabyte, good memory included. `LogComplete`,
  `SkippedIsLogged` and `GoodMemoryTested` say what is left: the first two are
  about physical pages below 2 GiB only. The rows and chips of the summary are
  decoded from the logged address too.
- Patch 0015 (lines 9-10) has the tests run "without ever touching the wedging
  region again": the left piece ends with the first word of the skipped region
  (`skip.c:77`), which stays under test; `PrunedClean` allows this word and no
  other, and an error there may bring the region back into the list
  (`SkipsDisjoint` has that as its premise).
- Any failure to open badmem.txt, or to get `BrrBadPages`, counts as its absence
  (`mask-shim/main.c:402-406`, `303-306`): the shim masks what the other source
  has, or nothing, and prints no warning. `SilentMeansMasked` and
  `VerifiedPagesSafe` are about inputs that were read.
- Where the rank of a page cannot be decoded the summary names the chips of every
  rank (`error_hook.c:99-107`), but `mask_chips` compares with rank 0
  (`mask-shim/main.c:732`): a listed chip of another rank masks nothing, although
  `docs/_internal/BADMEM_FORMAT.md:117` has "reserve every page decoding to chip
  U2320". `ChipsMasked` names this case as its only exception.
- The hunt ends at the first file named boot.efi even if it does not load
  (`mask-shim/main.c:1128`, `1356`).
- The address parser stays for ever at a character that is neither a digit nor
  a separator, instead of the message of `brr-entry/main.c:494-495`
  (`brr-entry/main.c:147`).

`GuardedInstall` (installs only through brr-entry, an order to save that fits
the buffer, saving and restoring it do not fail) is the weakest condition found
under which the boot configuration is safe; the first four points and
`backup_flag` show why each part of it is there. `revert` does not claim that
orphaned entries go away. `backup_flag` is harmless for safety: the machine
stays on its own BootOrder. `KnownLayoutsFound` leaves out what only the hunt
could find, `WellFormedEnds` lines that are not in the advertised format, and
`SkippedIsLogged` says what holds of a skipped region, not that every bad region
is skipped.

### Bounds

Boot flow: three slots, one foreign, so that an orphan and a second install
coexist and the range can be exhausted with the foreign slot inside it; one
page (masks are compared as whole sets); BootOrder buffers of two or three
entries, so that the original order fits and one prepend fits. Nothing counts,
so behaviours of any number of boots, installs and reverts are explored: the
state spaces are finite without a constraint. `unattended` needs the buffer
limit too, to keep `BootOrder` finite when install.efi is run again and again.

`shim_mask`: two grains to a page, four pages of RAM, a window of one page on
each side, three ranges and one chip. This is enough for windows clipped at 0
and beyond RAM, overlapping and adjacent windows, a region that is unaligned
at both ends, an empty one, a saved page just behind a listed range, and
arrays that overflow in the parser, in the merge and in the chip list. Every
memory map over free, in-use and absent pages is an initial state. The shim
ends, so deadlock is not checked there. Row and chip lists are leftovers of
earlier builds: no program of this build writes BrrBadRows, BrrBadChips or
BrrDecoderStatus.

`memtest_log`: pages of two words, regions of four; a burst is two errors, so that six errors make two bursts and
spare ones; bad words in neighbouring regions (merging), alone, at the start of a region,
and two in different gigabytes that share the window's regions; below 2 GiB one
window of one segment and one of two that start or end inside a region, above it
one for each gigabyte; a log of three entries, two skip ranges, two work entries, so that every table
overflows. `MaxErrors` is the only counter that is bounded for TLC alone.

`imc_decode`: 20 contents of the registers: one and two channels, with hashing,
without, and with a hash mask that is ignored; one to eight ranks, with and
without an interleave bit; x8 and x16 in both slots; 1 and 63 GiB; no memory,
and windows that are closed, locked or not there. The page bits 12, 13, 14, 17,
18 and 30 are among those that select the channel (hashed), rank, bank group,
bank and row, and one is beyond the end of a small machine. The theorem
`DecodersEqual` covers all other registers and addresses.

`address_entry`: two digits with the values 0 and 15, words of two digits and
pages of 16, so that a number can vanish by its alignment or overflow its
word; two addresses at most.

`find_boot`: two names to a level, a hunt of depth three, three fixed paths; the
kinds of volume are one per tier and obstacle (a boot.efi that does not load, a
driver without directory bits, one that refuses doubled separators, more names than
the snapshot takes, a file read as a directory). The search ends, so deadlock
is not checked; neither is it in `memtest_log` (halt) and `imc_decode`.

### Fairness

`FairSpec` of `BootFlow`: weak fairness of the boot manager, of the shim and of
the install / uninstall steps: firmware and a program that has the CPU and
does not wait for a key go on. The shim's prompt times out after 30 s
(`prompt_confirm`), so it is included. The prompts of brr-entry wait for ever
and the user's choices are the user's; neither is fair. The sweep's loop is
fair as a whole: it ends because each round removes a variable.
`MemtestLog`: weak fairness of the pruning steps, which CPU 0 runs without
waiting for anybody; errors, windows and the end of a pass are not fair.
`FindBoot`: weak fairness of every step: one thread, no prompt.
`AddressEntry`: weak fairness of the parser; the user may stop typing.

## 4. Proofs

`BootFlowProofs` proves `TypeCorrect`, `ForeignSafe` and `OtherSystemsKept` for
every value of the constants, from the assumptions in `MaskOps` and `BootFlow`:
slots are numbers other than `NoSlot`, the original order consists of foreign
slots. The inductive invariant adds `SlotInv`: a slot held in `slot` or recorded in
`BrrBootSlot` is never a foreign one. That is not obvious: BrrBootSlot survives
failed deletions and later installs; what saves it is that a slot is chosen
only when its variable is absent, and that nobody else creates entries while a
stale number is around.

`OtherSystemsKept` (`SystemsKept`) needs no restriction on installs or failures:
a BootOrder that lists the other systems in their order, behind entries of BRR
(`Intact`), goes on doing so. An uninstall writes whatever backup it finds, so
the step needs an invariant of the backups, `BackupsIntact`: once BootOrder is
intact, the saved one is absent or intact too, whichever install saved it and
however many deletions of it have failed since, and the legacy one is absent or
the original. `PrependIntact` says that a slot of BRR in front neither makes nor
breaks an intact order; `OrderWrites` that only these steps write BootOrder. The
hypothesis that BootOrder fits the buffer is the code's limit: a longer one is
replaced by the new slot alone.

`BootConfigProofs` assumes `GuardedInstall` and proves `NeverBroken`,
`MaskedWhenInstalled`, `ConfigRefined` and `PagesKept`. The inductive invariant
`GInv` has five parts: BootOrder is the original or the original behind one
bootable slot (`OrderInv`); if it is the latter, the saved order is the
original (`BackupInv`); what each program counter implies about the entry, the
file and BootOrder (`PhaseInv`); which program may be at which counter
(`AppInv`); and when the shim has skipped or applied the mask (`MaskInv`).
The gate of the auto-install matters in `BackupInv`: an install starts only
when no backup exists, hence only from the original order.

`RevertProofs` builds on it. `RevertEmptiesEsp` needs only that deleting files
does not fail, `RevertRestored` needs `GuardedInstall` and that deleting
variables does not fail. revert.efi and install.efi --uninstall run from the
stick, so the internal ESP can be found, and do nothing but uninstall
(`AloneInv`); `TornDown(k)` says that the first `k` objects of the teardown list
are gone and the others still to come, which by its end leaves no file
(`FilesInv`). Variables need no position: the sweep ends only when none is left
(`RestoredInv`).

`ShimMaskProofs` proves `ShimTypeCorrect`, `SilentlyMasked`, `TakesOnlyBad` and
`VerifiedSafe` for every page size, window, array size, board and input, from
`SizesAssumption` and `InputsAssumption`. `AlignedExact` is the arithmetic core:
the rounding of the parser gives exactly the pages that a region touches. The
inductive invariant `IInv` says where each branch of the decision tree can be
(`FlowInv`), that a range is one saved page or consists of listed pages
(`OriginInv`), how much of the input `ranges[]` covers after each iteration
unless it has been full or something was warned about (`MergeInv`), that the
windows behind the loop's position hold no free page unless a gap was counted
(`WindowInv`), and that a clean verification stays true (`VerdictInv`).
`OriginInv` is what `VerifiedPagesSafe` needs: a saved page is either the
first page of its own range, which is the one that is looked up, or a listed
one. No step frees memory (`MapStep`), so what is masked stays masked.

`MemtestLogProofs` proves the invariants of `memtest_log` for every size, window
and order of errors. `IMem` says that
each piece made so far lies in the window and is clear of the skip ranges
applied so far but for their first words (`IPruned`), and that every skip range is a union of aligned
regions (`WholeRange` in `ISkips`). The second part is what `SkipsDisjoint` needs:
merging with the first touching entry alone is right only because two ranges of
whole regions that overlap must share a region, and a region of an existing range cannot be
under test but for its first word. `ITables` follows the two positions of the decoding at the end of
a pass. `GoodMemoryTested` needs that no list is cut short, so it needs a bound
on the number of pieces: pieces do not overlap, hence start at different places,
and a piece can start only where a segment starts or a skip range ends
(`FewPieces`). `IGood` keeps that for the piece lists of the inner loops
(`ICut`) and of the outer one (`IScratch`). The inner lists need only few skip
ranges, not room in `vm_map` (`FewSkips`), and so `OverrunWithManySkips` says
when the overflow of `work_list` can happen at all: never with fewer skip ranges
than `new_work` has entries. `PruningGoesForward` is the safety half of
`PruneEnds`: the positions of the three loops are bounded and every iteration
takes them to a later one in lexicographic order, while the map and the skip
list stay as they are.

`ImcDecodeProofs` shows in `SameDecode` that the two decoders take every address
to the same place for every content of the registers: they find memory in the
same slots (`SameSlots`), hence the same channels, the same first DIMM
(`SameFirst`) and the same ranks, and the row width, a logarithm of 1 to 63
GiB divided by a few powers of 2, is between 10 and 20 (`RowBitsTypes`), so that
their different fall-backs never apply. From that and the inductive invariant
`IInv` (the rows are those of the decoded pages, `RowsInv`; the pages asked for
those of the rows, `AskedInv`; `FlowInv`, `ValidInv`) follow the four
properties of masking. `RowFromShim` is why the rank may be compared loosely:
whether it is known depends on the channel alone. `NameResolves` is where the
boards' distinct names are needed, `UnknownRank` that an unknown rank is 0 in
`mask_chips`.

`FindBootProofs` proves the types, `KnownLayoutsFound`, `InternalFirst`,
`FirstOption` and `OneImage` for all volumes, names, limits and options. `ITiers`
says which paths of the current volume have been tried at each position of the
tiers, `IPasses` what is known of the volumes before it in this pass.
`SearchGoesForward` is the safety half of `SearchEnds`: every step takes the
position (pass, volume, tier, loops of the tier; then the options) to a later one
in lexicographic order, or, inside the hunt, the stack of directories: the first
one in which two stacks differ has been read further or closed (`HuntedTo`). No
directory is read past its end (`HuntBounded`), the depth is bounded
(`SearchTypes`), so there are finitely many positions.

`AddressEntryProofs` proves all of `address_entry`'s safety properties for every
alphabet, word size, buffer and length of the line: the types (`EntryTypes`),
`SavedKept` (only a line with an address in it is put to the question, `Asked`) and
`SavesWhatWasTyped` (`SavedAsTyped`). The last compares two readings of one line:
`parse_addresses` cuts out a number, shifts its digits into a word and aligns
it, `Said` reads the line character by character (`ReadTo`). The invariant
`IRead` says that between two rounds the parser stands at a separator or an end
of the line and `pages` is what `ReadTo` has noted up to there, a number just
ended included; the lemmas take one round apart into separators, prefix, digits.
The number is a recursive function and not a fold, so its value after each
digit follows from the one before: the induction is over positions in the line,
by the least position where the claim fails, not over data types.
`EveryRoundAdvances` is the safety half of `WellFormedEnds`.

Only model-checked: the liveness properties `UnattendedBoot`, `PruneEnds`,
`SearchEnds` and `WellFormedEnds` themselves (fairness and ENABLED are out of this
prover's reach; of the last three the progress that fairness turns into an end
is proved), and the violations, which are counterexamples. Every invariant and
every step property of a passing run is proved.

## 5. Not modelled, and the plan

Left out for good: printing, menus, beeper, build scripts and the topology data
themselves (no state another part reads); calibration (timing of hardware);
`decoder_selftest.c` (called by nothing in this build); file contents byte by
byte.

Limits of the code that no model here reaches, because they are limits of
data that the models abstract or of the user:

- region lines of badmem.txt beyond the 4096th are dropped, as
  `badmem_parse.h` says, and so is what the file holds beyond the 65535 bytes
  that are read; an address plus a length near 2^64 wraps
  (`badmem_parse.c:165`, `189`, `mask-shim/main.c:410`);
- `copy_file_ops` does not truncate: a shorter file over a longer one keeps the
  old end (`mask_ops.c:231`);
- a BootOrder of more than 256 entries does not fit the buffers
  (`mask_ops.c:574`);
- a directory entry longer than its buffer (EFI_BUFFER_TOO_SMALL) and names of
  64 characters or more (`mask-shim/main.c:942`, `971`);
- the shim does not switch an MCHBAR window on, memtest86+ does: chips and rows
  are then refused with a message (`ImcDecode` models it as `"refused"`);
- a typed number of more than 16 digits keeps the last 16, and the escape key
  does nothing at the quick retry although the prompt names it
  (`brr-entry/main.c:454`); the prompts of brr-entry wait for ever;
- which of several internal ESPs is meant is taken as found or ambiguous.

Every invariant and step property of the passing runs is proved. What is left
of the plan is the progress behind `UnattendedBoot`, whose steps belong to five
programs: each install and uninstall goes through its writes once, the sweep
shortens the list of variables, and the boot manager goes down BootOrder.
