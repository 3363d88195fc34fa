------------------------------ MODULE ImcDecode -------------------------------
(***************************************************************************)
(* From an error to a chip and back to pages: memtest86+ logs the page of  *)
(* an error, decodes it at the end of the pass to a DRAM row and to the    *)
(* chips on its bus; at a later boot mask-shim.efi, with a decoder of its  *)
(* own, resolves the rows or the chips to pages again and reserves them.   *)
(*                                                                         *)
(* What AllocatePages does with a page is ShimMask's subject; the limits   *)
(* of the log and of the chip names are MemtestLog's, and so is how an     *)
(* address that is logged comes to differ from the physical one above      *)
(* 3 GiB.  The addresses of this module are those that are logged, and      *)
(* what the decoders make of them.                                         *)
(***************************************************************************)
EXTENDS Sequences, ImcBits

CONSTANTS
  Machines,    \* the memory controllers
  Addresses,   \* where errors are reported
  Pages,       \* the page addresses of the machine's address space
  MaxErrors,   \* bound: errors reported
  Profiles,    \* board_profiles[]
  Products,    \* product names SMBIOS may report
  RowMax,      \* MAX_BAD_ROWS: 256
  RowEnumCap   \* ROW_ENUM_CAP: 2048

Memtest == INSTANCE CflSklKbl
Shim    == INSTANCE CflDecodeShim

Page(a) == a \ (0..11)

IsPackage(k) ==
  /\ k.channel \in 0..1 /\ k.rank \in 0..7 /\ k.lane \in 0..7
  /\ k.width \in {8, 16}
IsProfile(p) == p.packages \in Seq({p.packages[i] : i \in 1..Len(p.packages)})
                /\ \A i \in 1..Len(p.packages) : IsPackage(p.packages[i])
PackageNames(p) == {p.packages[i].designator : i \in 1..Len(p.packages)}

ASSUME MachinesAssumption == \A m \in Machines : IsMachine(m)
ASSUME AddressAssumption ==
  /\ \A a \in Addresses : a \subseteq 0..38 /\ Page(a) \in Pages
  /\ IsFiniteSet(Pages) /\ \A a \in Pages : a \subseteq 12..38
ASSUME BoardAssumption ==
  /\ Profiles \in Seq({Profiles[i] : i \in 1..Len(Profiles)})
  /\ \A i \in 1..Len(Profiles) :
       /\ IsProfile(Profiles[i])
       /\ Cardinality(PackageNames(Profiles[i])) = Len(Profiles[i].packages)
       /\ \A j \in 1..i - 1 : PackageNames(Profiles[i]) \cap PackageNames(Profiles[j]) = {}
ASSUME LimitsAssumption == MaxErrors \in Nat /\ RowMax \in Nat /\ RowEnumCap \in Nat

VARIABLES
  machine,   \* the memory controller
  product,   \* what smbios_board_id returns
  phase,     \* the test run, the power cycle, and where mask-shim.efi is
  errors,    \* the addresses reported
  log,       \* log_pages[]
  pos,       \* i of board_decode_pass and of mask_rows
  rows,      \* row_log[]
  chips,     \* designators in chip_buf
  listed,    \* chip lines of badmem.txt
  resolved,  \* channels and ranks of these chips
  asked      \* pages AllocatePages is asked for

vars == <<machine, product, phase, errors, log, pos, rows, chips, listed, resolved, asked>>

Elements(s) == {s[i] : i \in 1..Len(s)}

Init ==
  /\ machine \in Machines /\ product \in Products
  /\ phase = "test" /\ errors = {} /\ log = <<>> /\ pos = 1
  /\ rows = <<>> /\ chips = {} /\ listed = {} /\ resolved = {} /\ asked = {}
-----------------------------------------------------------------------------
Report(a) ==
  /\ phase = "test" /\ Cardinality(errors) < MaxErrors
  /\ errors' = errors \cup {a}
  /\ log' = IF Page(a) \in Elements(log) THEN log ELSE Append(log, Page(a))
  /\ UNCHANGED <<machine, product, phase, pos, rows, chips, listed, resolved, asked>>

EndPass ==
  /\ phase = "test"
  /\ phase' = "decode" /\ pos' = 1
  /\ UNCHANGED <<machine, product, errors, log, rows, chips, listed, resolved, asked>>

(* board_detect and board_lookup: the board is the first that has the       *)
(* product, a lane's chip the first package at its place.                   *)
Boards == {i \in 1..Len(Profiles) : product \in Profiles[i].products}
Board  == Profiles[Min(Boards)]
At(k, c, r, lane) ==
  k.channel = c /\ k.rank = r /\ lane \in k.lane..k.lane + (IF k.width = 16 THEN 1 ELSE 0)
Lookup(c, r, lane) ==
  {Board.packages[i].designator :
     i \in {j \in 1..Len(Board.packages) :
              /\ At(Board.packages[j], c, r, lane)
              /\ \A n \in 1..j - 1 : ~At(Board.packages[n], c, r, lane)}}

(* decode_and_log_one: the chips of every lane, of every rank if the rank   *)
(* is not known.                                                            *)
ChannelRanks(c) == Max({Memtest!MaxRanks(machine, c), 1})
Suspects(d) ==
  LET ranks == IF d.rank.valid THEN {d.rank.rank} ELSE 0..ChannelRanks(d.channel) - 1
  IN IF Boards = {} THEN {} ELSE UNION {UNION {Lookup(d.channel, r, lane) : lane \in 0..7} : r \in ranks}

RowOf(d) == [channel |-> d.channel, rank |-> d.rank.rank, bg |-> d.bg, bank |-> d.bank, row |-> d.row]
RecordRowLate(r) ==   \* mutant: the bound is tested after the append
  IF r \in Elements(rows) \/ Len(rows) > RowMax THEN rows ELSE Append(rows, r)
RecordRow(r) == IF r \in Elements(rows) \/ Len(rows) >= RowMax THEN rows ELSE Append(rows, r)

DecodeNext ==
  /\ phase = "decode" /\ pos <= Len(log)
  /\ pos' = pos + 1
  /\ IF Memtest!Valid(machine)
     THEN LET d == Memtest!Decode(machine, log[pos])
          IN rows' = RecordRow(RowOf(d)) /\ chips' = chips \cup Suspects(d)
     ELSE UNCHANGED <<rows, chips>>
  /\ UNCHANGED <<machine, product, phase, errors, log, listed, resolved, asked>>

EndOfDecode ==
  /\ phase = "decode" /\ pos > Len(log)
  /\ phase' = "off"
  /\ UNCHANGED <<machine, product, errors, log, pos, rows, chips, listed, resolved, asked>>
-----------------------------------------------------------------------------
(* A later boot: the rows reach the shim as BrrBadRows of a build that       *)
(* saves them, or the user lists some of the chips in badmem.txt.           *)
BootRows ==
  /\ phase = "off" /\ rows # <<>>
  /\ phase' = (IF Shim!Valid(machine) THEN "rows" ELSE "refused")
  /\ pos' = 1
  /\ UNCHANGED <<machine, product, errors, log, rows, chips, listed, resolved, asked>>

MaskRow ==
  /\ phase = "rows" /\ pos <= Len(rows)
  /\ asked' = asked \cup Shim!EnumerateRow(machine, Pages, rows[pos], RowEnumCap)
  /\ pos' = pos + 1
  /\ UNCHANGED <<machine, product, phase, errors, log, rows, chips, listed, resolved>>

EndOfRows ==
  /\ phase = "rows" /\ pos > Len(rows)
  /\ phase' = "masked"
  /\ UNCHANGED <<machine, product, errors, log, pos, rows, chips, listed, resolved, asked>>

(* resolve_chip_entries: the first profile that has the name, whichever     *)
(* board this is.                                                           *)
Places(name) ==
  LET named == {i \in 1..Len(Profiles) : name \in PackageNames(Profiles[i])}
      pk == Profiles[Min(named)].packages
  IN IF named = {} THEN {}
     ELSE {<<pk[i].channel, pk[i].rank>> : i \in {j \in 1..Len(pk) : pk[j].designator = name}}

BootChips ==
  /\ phase = "off"
  /\ listed' \in (SUBSET chips) \ {{}}
  /\ resolved' = UNION {Places(name) : name \in listed'}
  /\ phase' = (IF resolved' = {} THEN "masked"
               ELSE IF Shim!Valid(machine) THEN "chips" ELSE "refused")
  /\ UNCHANGED <<machine, product, errors, log, pos, rows, chips, asked>>

(* mask_chips takes the rank as it is, valid or not. *)
OnChipRanked(d) ==   \* mutant: a page whose rank is not known is left out
  d.rank.valid /\ <<d.channel, d.rank.rank>> \in resolved
OnChip(d) == <<d.channel, d.rank.rank>> \in resolved

MaskChips ==
  /\ phase = "chips"
  /\ asked' = {pa \in Pages : Shim!Below(machine, pa) /\ OnChip(Shim!Decode(machine, pa))}
  /\ phase' = "masked"
  /\ UNCHANGED <<machine, product, errors, log, pos, rows, chips, listed, resolved>>

Next ==
  \/ \E a \in Addresses : Report(a)
  \/ EndPass \/ DecodeNext \/ EndOfDecode
  \/ BootRows \/ MaskRow \/ EndOfRows
  \/ BootChips \/ MaskChips

Spec == Init /\ [][Next]_vars
-----------------------------------------------------------------------------
RowRecords == [channel : 0..1, rank : 0..7, bg : (0..1) \X (0..1), bank : (0..1) \X (0..1), row : SUBSET (0..20)]

(* The tables keep their capacity, and every row is a tuple of in-range     *)
(* fields.                                                                  *)
TypeOK ==
  /\ machine \in Machines /\ product \in Products
  /\ phase \in {"test", "decode", "off", "rows", "chips", "masked", "refused"}
  /\ errors \subseteq Addresses
  /\ log \in Seq(Pages) /\ pos \in 1..Len(log) + 1
  /\ rows \in Seq(RowRecords) /\ Len(rows) <= RowMax
  /\ listed \subseteq chips
  /\ asked \subseteq Pages

(* "shim and memtest must use identical formulae or rows recorded vs        *)
(* enumerated diverge": where both decode, they decode a logged page to the *)
(* same channel, rank, bank group, bank and row.                            *)
DecodersAgree ==
  Memtest!Valid(machine) /\ Shim!Valid(machine) =>
    \A i \in 1..Len(log) : Memtest!Decode(machine, log[i]) = Shim!Decode(machine, log[i])

(* The row width derived from any DIMM is one the mask is built from: the   *)
(* shim's 17-bit fallback and memtest86+'s missing row, which differ, are   *)
(* never used.                                                              *)
RowBitsFit == Memtest!Valid(machine) => Memtest!RowBits(machine) \in 1..20

(* A logged page below the end of memory is asked for when the rows are     *)
(* masked, unless the row table or the page buffer was full.                *)
RowsMasked ==
  phase = "masked" /\ listed = {} =>
    \A i \in 1..Len(log) :
      \/ ~Shim!Below(machine, log[i])
      \/ log[i] \in asked
      \/ Len(rows) = RowMax /\ RowOf(Memtest!Decode(machine, log[i])) \notin Elements(rows)
      \/ \E k \in 1..Len(rows) :
           Cardinality(Shim!RowPages(machine, Pages, rows[k])) >= RowEnumCap

(* Row masking asks only for pages that memtest86+ would decode to the row  *)
(* of a logged one.                                                         *)
RowsOnly ==
  phase \in {"rows", "masked"} /\ listed = {} =>
    \A pa \in asked : \E i \in 1..Len(log) :
      RowOf(Memtest!Decode(machine, pa)) = RowOf(Memtest!Decode(machine, log[i]))

(* When a chip that memtest86+ names for a logged page is listed, the page   *)
(* is asked for, except for one case: the rank of the page is not known, so  *)
(* that the chips of every rank are named, but mask_chips takes it for 0 and *)
(* the listed chip is of another rank.                                       *)
ChipsMasked ==
  phase = "masked" /\ listed # {} =>
    \A i \in 1..Len(log) : \A name \in listed :
      LET d == Memtest!Decode(machine, log[i])
      IN Shim!Below(machine, log[i]) /\ name \in Suspects(d) =>
           \/ log[i] \in asked
           \/ ~d.rank.valid /\ <<d.channel, 0>> \notin Places(name)

(* "decoder identifies the bad chip from 1 error": when the errors have     *)
(* been decoded, the chips on the bus that an erroneous address is on are   *)
(* among those named.                                                       *)
BadChipNamed ==
  phase = "off" /\ Memtest!Valid(machine) /\ Boards # {} =>
    \A a \in errors : Suspects(Memtest!Decode(machine, a)) \subseteq chips
=============================================================================
