----------------------------- MODULE AddressEntry ------------------------------
(***************************************************************************)
(* What brr-entry.efi does with the keyboard: the quick retry, the line    *)
(* editor, the parser of the addresses and the confirmation.  BootFlow has *)
(* the writes that follow; here a run ends with them, and the machine can  *)
(* be started again.                                                       *)
(*                                                                         *)
(* A character counts by its class and value, a line by its characters.    *)
(***************************************************************************)
EXTENDS Integers, Sequences

CONSTANTS
  HexValue,   \* hexadecimal digits and their values
  Other,      \* printable characters that are no digit, separator or "x"
  LineCap,    \* line[512]
  PagesCap,   \* pas[256]
  PageSize,   \* 4096
  WordSize,   \* 2^64
  SavedMasks  \* BrrBadPages at the first start

Separators == {" ", ","}
Printable  == (DOMAIN HexValue) \cup Separators \cup Other \cup {"x"}

ASSUME DigitAssumption ==
  /\ "0" \in DOMAIN HexValue /\ HexValue \in [DOMAIN HexValue -> 0..15]
  /\ {"x", " ", ","} \cap DOMAIN HexValue = {} /\ Other \cap (DOMAIN HexValue \cup Separators \cup {"x"}) = {}
ASSUME SizeAssumption ==
  /\ LineCap \in Nat \ {0} /\ PagesCap \in Nat \ {0}
  /\ PageSize \in Nat \ {0} /\ WordSize \in Nat \ {0} /\ WordSize % PageSize = 0
Addresses == {a \in 1..WordSize - 1 : a % PageSize = 0}
ASSUME SavedAssumption == SavedMasks \subseteq Seq(Addresses)

VARIABLES
  phase,   \* "retry", "typing", "parsing", "confirm", "apply", "ended"
  line,    \* line[]
  pos,     \* p of parse_addresses
  pages,   \* pas[]
  saved    \* BrrBadPages

vars == <<phase, line, pos, pages, saved>>

Begin(mask) == IF mask # <<>> THEN "retry" ELSE "typing"
Init ==
  /\ saved \in SavedMasks
  /\ phase = Begin(saved) /\ line = <<>> /\ pos = 1 /\ pages = <<>>
-----------------------------------------------------------------------------
(* The quick retry.  efi_readkey returns the character of a key, which is 0 *)
(* for the escape key; the prompt ignores that as it does any other key.    *)
RetryYes ==
  /\ phase = "retry"
  /\ phase' = "apply"
  /\ UNCHANGED <<line, pos, pages, saved>>

RetryNo ==
  /\ phase = "retry"
  /\ phase' = "typing"
  /\ UNCHANGED <<line, pos, pages, saved>>

(* read_line *)
TypeFull(c) ==        \* mutant: no room is left for the terminating zero
  /\ phase = "typing" /\ Len(line) < LineCap
  /\ line' = Append(line, c)
  /\ UNCHANGED <<phase, pos, pages, saved>>
Type(c) ==
  /\ phase = "typing" /\ Len(line) + 1 < LineCap
  /\ line' = Append(line, c)
  /\ UNCHANGED <<phase, pos, pages, saved>>

Backspace ==
  /\ phase = "typing" /\ line # <<>>
  /\ line' = SubSeq(line, 1, Len(line) - 1)
  /\ UNCHANGED <<phase, pos, pages, saved>>

Enter ==
  /\ phase = "typing"
  /\ phase' = (IF line = <<>> THEN "ended" ELSE "parsing")
  /\ pos' = 1 /\ pages' = <<>>
  /\ UNCHANGED <<line, saved>>

Escape ==
  /\ phase = "typing"
  /\ phase' = "ended"
  /\ UNCHANGED <<line, pos, pages, saved>>

(* The position of the first character from p on that is not in the class. *)
Past(class, p) ==
  LET stops == {i \in p..Len(line) : line[i] \notin class}
  IN CHOOSE i \in stops \cup {Len(line) + 1} : \A j \in stops : i <= j

(* parse_hex: an optional "0x", then all digits; older digits are shifted   *)
(* out of the word.                                                         *)
PrefixAt(p) == p < Len(line) /\ line[p] = "0" /\ line[p + 1] = "x"
DigitsAtBare(p) == p   \* mutant: no prefix
DigitsAt(p) == IF PrefixAt(p) THEN p + 2 ELSE p
DigitsEnd(p) == Past(DOMAIN HexValue, DigitsAt(p))
Shift(v, c) == (v * 16 + HexValue[c]) % WordSize
Number(p)   ==
  LET from == DigitsAt(p)
      upTo[i \in 0..DigitsEnd(p) - from] ==
        IF i = 0 THEN 0 ELSE Shift(upTo[i - 1], line[from + i - 1])
  IN upTo[DigitsEnd(p) - from]

AlignedUp(v) == (((v + PageSize - 1) \div PageSize) * PageSize) % WordSize   \* mutant: to the next page
Aligned(v)   == v - (v % PageSize)

(* One round of parse_addresses: a number that is zero once it is aligned   *)
(* is left out.                                                             *)
ParseNumber ==
  /\ phase = "parsing" /\ Len(pages) < PagesCap
  /\ LET p == Past(Separators, pos)
         v == Aligned(Number(p))
     IN /\ p <= Len(line)
        /\ pos' = DigitsEnd(p)
        /\ pages' = IF v = 0 THEN pages ELSE Append(pages, v)
  /\ UNCHANGED <<phase, line, saved>>

ParseEndEmpty ==      \* mutant: a line without an address is put to the question too
  /\ phase = "parsing"
  /\ Len(pages) = PagesCap \/ Past(Separators, pos) > Len(line)
  /\ phase' = "confirm"
  /\ UNCHANGED <<line, pos, pages, saved>>
ParseEnd ==
  /\ phase = "parsing"
  /\ Len(pages) = PagesCap \/ Past(Separators, pos) > Len(line)
  /\ phase' = (IF pages = <<>> THEN "ended" ELSE "confirm")
  /\ UNCHANGED <<line, pos, pages, saved>>

(* Y writes BrrBadPages, which may fail; any other character cancels. *)
Confirm ==
  /\ phase = "confirm"
  /\ \/ phase' = "apply" /\ saved' = pages
     \/ phase' = "ended" /\ UNCHANGED saved
  /\ UNCHANGED <<line, pos, pages>>

(* Every end but a macOS that starts is a reset; the line buffer starts      *)
(* empty again.                                                             *)
Restart ==
  /\ phase \in {"apply", "ended"}
  /\ phase' = Begin(saved) /\ line' = <<>> /\ pos' = 1 /\ pages' = <<>>
  /\ UNCHANGED saved

Parse == ParseNumber \/ ParseEnd

Next ==
  \/ RetryYes \/ RetryNo
  \/ \E c \in Printable : Type(c)
  \/ Backspace \/ Enter \/ Escape
  \/ ParseNumber \/ ParseEnd
  \/ Confirm \/ Restart

(* The parser does not wait for anybody; the user may. *)
Spec == Init /\ [][Next]_vars /\ WF_vars(Parse)
-----------------------------------------------------------------------------
(* The line fits its buffer with the terminating zero, the addresses fit    *)
(* theirs, and each one is a page of the address space other than page 0.   *)
TypeOK ==
  /\ phase \in {"retry", "typing", "parsing", "confirm", "apply", "ended"}
  /\ line \in Seq(Printable) /\ Len(line) < LineCap
  /\ pos \in 1..LineCap
  /\ pages \in Seq(Addresses) /\ Len(pages) <= PagesCap
  /\ saved \in Seq(Addresses)

(* A line in the advertised format, "hex, comma-separated (0x optional)":    *)
(* an x only behind a single 0 that starts a number.                        *)
WellFormed ==
  \A i \in 1..Len(line) :
    /\ line[i] \notin Other
    /\ line[i] = "x" => /\ i > 1 /\ line[i - 1] = "0"
                        /\ i > 2 => line[i - 2] \in Separators

(* What such a line says, read from left to right: a number ends at a       *)
(* separator, an x starts it anew, and the numbers of page 0 do not count.  *)
Noted(list, v) == IF v < PageSize THEN list ELSE Append(list, v - (v % PageSize))
Read(r, c) ==
  IF c \in Separators THEN [list |-> Noted(r.list, r.number), number |-> 0]
  ELSE IF c = "x" THEN [r EXCEPT !.number = 0]
  ELSE [r EXCEPT !.number = Shift(@, c)]
ReadTo[i \in 0..Len(line)] ==
  IF i = 0 THEN [list |-> <<>>, number |-> 0] ELSE Read(ReadTo[i - 1], line[i])
Said ==
  LET r   == ReadTo[Len(line)]
      all == Noted(r.list, r.number)
  IN SubSeq(all, 1, IF Len(all) < PagesCap THEN Len(all) ELSE PagesCap)

(* The pages that are to be confirmed and saved are those of a well-formed  *)
(* line, all of them up to the capacity and in its order, wherever spaces,  *)
(* commas, prefixes and zeros stand in it and whatever was deleted before.  *)
SavesWhatWasTyped == phase = "confirm" /\ WellFormed => pages = Said

(* The saved addresses change only by way of a confirmed line: cancelling   *)
(* at any prompt, and a line without an address, keep the old ones.         *)
SavedKept == [][saved' # saved => phase = "confirm" /\ saved' # <<>>]_vars

(* Parsing a line in the advertised format ends, so that the user is asked  *)
(* or told that it has no address.                                          *)
WellFormedEnds == (phase = "parsing" /\ WellFormed) ~> (phase # "parsing")
=============================================================================
