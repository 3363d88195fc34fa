-------------------------- MODULE AddressEntryProofs ---------------------------
(***************************************************************************)
(* Proofs about AddressEntry for every alphabet and all sizes: types, what *)
(* is saved, and that the parser reads a well-formed line as it is meant.  *)
(***************************************************************************)
EXTENDS AddressEntry, SequenceTheorems, WellFoundedInduction, TLAPS

-----------------------------------------------------------------------------
(* Recursion. *)

(* A set of numbers that is not empty has a least element. *)
LEMMA LeastExists ==
  ASSUME NEW S \in SUBSET Nat, S # {}
  PROVE  \E c \in S : \A b \in S : c <= b
<1>1. PICK a \in S : \A b \in S : ~(<<b, a>> \in OpToRel(<, Nat))
  BY NatLessThanWellFounded, WFMin
<1>2. \A b \in S : <<b, a>> \in OpToRel(<, Nat) <=> b < a
  BY DEF OpToRel
<1>3. \A b \in S : ~(b < a)
  BY <1>1, <1>2, Zenon
<1>4. QED
  BY <1>3

(* A set of numbers that has 0 and, with a number, the next one, has all. *)
LEMMA UpFromZero ==
  ASSUME NEW n \in Nat, NEW S \in SUBSET (0..n), 0 \in S,
         \A i \in 1..n : i - 1 \in S => i \in S
  PROVE  S = 0..n
<1> DEFINE Rest == (0..n) \ S
<1>1. SUFFICES ASSUME Rest # {} PROVE FALSE
  OBVIOUS
<1>2. Rest \in SUBSET Nat
  OBVIOUS
<1>3. PICK c \in Rest : \A b \in Rest : c <= b
  BY <1>1, <1>2, LeastExists
<1>4. c \in 1..n
  BY <1>3
<1>5. c - 1 \in S
  BY <1>3, <1>4
<1> QED
  BY <1>3, <1>4, <1>5

(* f goes on from first by a step for each number up to n. *)
Iterates(f, n, S, first, step) ==
  /\ f \in [0..n -> S] /\ f[0] = first
  /\ \A i \in 1..n : f[i] = step[<<f[i - 1], i>>]
IsStep(step, n, S) == step \in [S \X (1..n) -> S]

(* A step from each element to the next gives a function. *)
LEMMA Recursion ==
  ASSUME NEW n \in Nat, NEW S, NEW first \in S, NEW step, IsStep(step, n, S)
  PROVE  \E f : Iterates(f, n, S, first, step)
<1> USE DEF Iterates, IsStep
<1> DEFINE Upto(k) == \E f \in [0..k -> S] :
             f[0] = first /\ \A i \in 1..k : f[i] = step[<<f[i - 1], i>>]
           Good == {k \in 0..n : Upto(k)}
<1>1. 0 \in Good
  <2> DEFINE g == [i \in 0..0 |-> first]
  <2>1. g \in [0..0 -> S] /\ g[0] = first /\ 1..0 = {}
    OBVIOUS
  <2>2. Upto(0)
    BY <2>1
  <2> QED
    BY <2>2
<1>2. ASSUME NEW k \in 1..n, k - 1 \in Good PROVE k \in Good
  <2>1. PICK f \in [0..k - 1 -> S] :
          f[0] = first /\ \A i \in 1..k - 1 : f[i] = step[<<f[i - 1], i>>]
    BY <1>2
  <2> DEFINE g == [i \in 0..k |-> IF i = k THEN step[<<f[k - 1], k>>] ELSE f[i]]
  <2>2. g \in [0..k -> S]
    BY <2>1
  <2>3. g[0] = first
    BY <2>1
  <2>4. \A i \in 1..k : g[i] = step[<<g[i - 1], i>>]
    BY <2>1
  <2>5. Upto(k)
    <3> HIDE DEF g
    <3> QED
      BY <2>2, <2>3, <2>4
  <2> QED
    BY <2>5
<1>3. n \in Good
  <2> HIDE DEF Good
  <2>1. Good \in SUBSET (0..n)
    BY DEF Good
  <2> QED
    BY <1>1, <1>2, <2>1, UpFromZero
<1> QED
  BY <1>3

-----------------------------------------------------------------------------
(* Pages, and positions in the line. *)

(* Rounding down to a page. *)
LEMMA AlignedFacts ==
  ASSUME NEW v \in 0..WordSize - 1
  PROVE  /\ Aligned(v) = 0 <=> v < PageSize
         /\ Aligned(v) # 0 => Aligned(v) \in Addresses
<1> DEFINE P == PageSize
           q == v \div P
<1>1. P \in Nat \ {0} /\ v \in Nat /\ WordSize \in Nat
  BY SizeAssumption
<1>2. q \in Nat /\ P * q <= v /\ v < P * q + P /\ v % P = v - P * q
  BY <1>1, SMT
<1>3. Aligned(v) = P * q
  BY <1>1, <1>2 DEF Aligned
<1>4. (P * q) % P = 0
  BY <1>1, <1>2, SMT
<1>5. q = 0 => v < P
  BY <1>1, <1>2
<1>6. q > 0 => P * q >= P
  BY <1>1, <1>2, SMT
<1>7. P * q \in Nat
  BY <1>1, <1>2, SMT
<1> HIDE DEF P, q
<1>8. Aligned(v) = 0 <=> v < P
  BY <1>1, <1>2, <1>3, <1>5, <1>6, <1>7
<1>9. Aligned(v) # 0 => Aligned(v) \in 1..WordSize - 1 /\ Aligned(v) % P = 0
  BY <1>1, <1>2, <1>3, <1>4, <1>7
<1> QED
  BY <1>8, <1>9 DEF P, Addresses

(* What Past chooses: the end of the characters of the class. *)
LEMMA PastFacts ==
  ASSUME TypeOK, NEW class, NEW p \in 1..Len(line) + 1
  PROVE  /\ Past(class, p) \in p..Len(line) + 1
         /\ \A i \in p..Past(class, p) - 1 : line[i] \in class
         /\ Past(class, p) <= Len(line) => line[Past(class, p)] \notin class
<1> DEFINE L == Len(line)
           stops == {i \in p..L : line[i] \notin class}
           Ok(i) == i \in stops \cup {L + 1} /\ \A j \in stops : i <= j
<1>1. L \in Nat /\ stops \in SUBSET Nat
  BY LenProperties DEF TypeOK
<1>2. \E i \in stops \cup {L + 1} : \A j \in stops : i <= j
  <2>1. CASE stops = {}
    BY <2>1
  <2>2. CASE stops # {}
    BY <1>1, <2>2, LeastExists
  <2> QED
    BY <2>1, <2>2
<1> DEFINE c == Past(class, p)
<1>3. c \in stops \cup {L + 1} /\ \A j \in stops : c <= j
  BY <1>2, Zenon DEF Past
<1> HIDE DEF c
<1>4. c \in p..L + 1
  BY <1>1, <1>3
<1>5. \A i \in p..c - 1 : line[i] \in class
  BY <1>1, <1>3, <1>4
<1>6. c <= L => line[c] \notin class
  BY <1>1, <1>3
<1> QED
  BY <1>4, <1>5, <1>6 DEF c

(* The digits of a number, behind its prefix if there is one. *)
LEMMA DigitsFacts ==
  ASSUME TypeOK, NEW p \in 1..Len(line)
  PROVE  /\ DigitsAt(p) \in p..Len(line) + 1
         /\ DigitsEnd(p) \in DigitsAt(p)..Len(line) + 1
         /\ \A i \in DigitsAt(p)..DigitsEnd(p) - 1 : line[i] \in DOMAIN HexValue
         /\ DigitsEnd(p) <= Len(line) => line[DigitsEnd(p)] \notin DOMAIN HexValue
<1>1. Len(line) \in Nat
  BY LenProperties DEF TypeOK
<1>2. DigitsAt(p) \in p..Len(line) + 1
  BY <1>1 DEF DigitsAt, PrefixAt
<1> QED
  BY <1>1, <1>2, PastFacts DEF DigitsEnd

(* A digit shifted into a word leaves a word. *)
LEMMA ShiftType ==
  ASSUME NEW v \in 0..WordSize - 1, NEW c \in DOMAIN HexValue
  PROVE  Shift(v, c) \in 0..WordSize - 1
<1>1. HexValue[c] \in 0..15
  BY DigitAssumption
<1> QED
  BY <1>1, SizeAssumption DEF Shift

(* Number is the value of its digits, taken one after the other. *)
LEMMA NumberFacts ==
  ASSUME TypeOK, NEW p \in 1..Len(line)
  PROVE  \E f \in [0..DigitsEnd(p) - DigitsAt(p) -> 0..WordSize - 1] :
           /\ f[0] = 0
           /\ \A i \in 1..DigitsEnd(p) - DigitsAt(p) : f[i] = Shift(f[i - 1], line[DigitsAt(p) + i - 1])
           /\ Number(p) = f[DigitsEnd(p) - DigitsAt(p)]
<1> DEFINE from == DigitsAt(p)
           n == DigitsEnd(p) - from
           Words == 0..WordSize - 1
           step == [q \in Words \X (1..n) |-> Shift(q[1], line[from + q[2] - 1])]
<1>1. Len(line) \in Nat /\ from \in 1..Len(line) + 1 /\ n \in Nat /\ 0 \in Words
  BY DigitsFacts, LenProperties, SizeAssumption DEF TypeOK
<1>2. \A i \in 1..n : line[from + i - 1] \in DOMAIN HexValue
  <2>1. \A i \in from..DigitsEnd(p) - 1 : line[i] \in DOMAIN HexValue
    BY DigitsFacts
  <2>2. DigitsEnd(p) \in Int /\ from \in Int
    BY <1>1, DigitsFacts
  <2> HIDE DEF from
  <2> QED
    BY <2>1, <2>2
<1>3. step \in [Words \X (1..n) -> Words]
  BY <1>2, ShiftType
<1>4. \E f : Iterates(f, n, Words, 0, step)
  <2>1. n \in Nat /\ 0 \in Words /\ IsStep(step, n, Words)
    BY <1>1, <1>3 DEF IsStep
  <2> HIDE DEF step, n, Words
  <2> QED
    BY <2>1, Recursion
<1>5. PICK f \in [0..n -> Words] : f[0] = 0 /\ \A i \in 1..n : f[i] = step[<<f[i - 1], i>>]
  <2> HIDE DEF step, n, Words
  <2> QED
    BY <1>4 DEF Iterates
<1>6. \A i \in 1..n : step[<<f[i - 1], i>>] = Shift(f[i - 1], line[from + i - 1])
  <2>1. \A i \in 1..n : <<f[i - 1], i>> \in Words \X (1..n)
    <3> HIDE DEF Words, n
    <3> QED
      BY <1>1
  <2> HIDE DEF Words, n
  <2> QED
    BY <2>1
<1> DEFINE eq(g) == g = [i \in 0..n |-> IF i = 0 THEN 0 ELSE Shift(g[i - 1], line[from + i - 1])]
           h == CHOOSE g : eq(g)
<1>7. eq(f)
  <2> HIDE DEF step, n, from, Words
  <2>1. \A i \in 0..n : f[i] = IF i = 0 THEN 0 ELSE Shift(f[i - 1], line[from + i - 1])
    <3>1. ASSUME NEW i \in 1..n PROVE f[i] = Shift(f[i - 1], line[from + i - 1])
      BY <1>5, <1>6
    <3>2. \A i \in 0..n : i = 0 \/ i \in 1..n
      BY <1>1
    <3> QED
      BY <1>5, <3>1, <3>2, Zenon
  <2> QED
    BY <1>5, <2>1
<1>8. eq(h)
  BY <1>7, Zenon
<1>9. Number(p) = h[n]
  BY DEF Number
<1>10. h[0] = 0 /\ \A i \in 1..n : h[i] = Shift(h[i - 1], line[from + i - 1])
  <2> HIDE DEF h, n
  <2> QED
    BY <1>1, <1>8
<1>11. h \in [0..n -> Words]
  <2> DEFINE Typed == {i \in 0..n : h[i] \in Words}
  <2>1. 0 \in Typed
    BY <1>1, <1>10
  <2>2. ASSUME NEW i \in 1..n, i - 1 \in Typed PROVE i \in Typed
    <3> HIDE DEF h
    <3>1. h[i - 1] \in Words /\ h[i] = Shift(h[i - 1], line[from + i - 1]) /\ i \in 0..n
      BY <1>1, <1>10, <2>2
    <3>2. line[from + i - 1] \in DOMAIN HexValue
      BY <1>2
    <3>3. h[i] \in Words
      BY <3>1, <3>2, ShiftType
    <3> QED
      BY <3>1, <3>3
  <2>3. Typed = 0..n
    <3> HIDE DEF n, Words, h
    <3>1. Typed \in SUBSET (0..n)
      OBVIOUS
    <3> HIDE DEF Typed
    <3> QED
      BY <1>1, <2>1, <2>2, <3>1, UpFromZero
  <2> HIDE DEF n, Words, h
  <2> QED
    BY <1>8, <2>3
<1> HIDE DEF h
<1> QED
  BY <1>9, <1>10, <1>11

-----------------------------------------------------------------------------
(* Types. *)

LEMMA NumberType ==
  ASSUME TypeOK, NEW p \in 1..Len(line)
  PROVE  Number(p) \in 0..WordSize - 1
<1>1. DigitsEnd(p) - DigitsAt(p) \in Nat
  BY DigitsFacts, LenProperties DEF TypeOK
<1> QED
  BY <1>1, NumberFacts

(* The parser stays on the line. *)
ITypes == TypeOK /\ (phase = "parsing" => pos <= Len(line) + 1)

LEMMA TypesInit == Init => ITypes
<1>1. \A mask \in SavedMasks : mask \in Seq(Addresses)
  BY SavedAssumption
<1>2. <<>> \in Seq(Printable) /\ <<>> \in Seq(Addresses) /\ Len(<<>>) = 0
  BY EmptySeq
<1> QED
  BY <1>1, <1>2, SizeAssumption DEF Init, Begin, ITypes, TypeOK

LEMMA TypesStep == ITypes /\ [Next]_vars => ITypes'
<1> SUFFICES ASSUME ITypes, [Next]_vars PROVE ITypes'
  OBVIOUS
<1> USE DEF ITypes
<1>1. Len(line) \in Nat /\ Len(pages) \in Nat /\ LineCap \in Nat \ {0} /\ PagesCap \in Nat \ {0}
  BY LenProperties, SizeAssumption DEF TypeOK
<1>2. <<>> \in Seq(Printable) /\ <<>> \in Seq(Addresses) /\ Len(<<>>) = 0
  BY EmptySeq
<1>3. CASE RetryYes \/ RetryNo \/ Escape
  BY <1>3 DEF RetryYes, RetryNo, Escape, TypeOK
<1>4. CASE \E c \in Printable : Type(c)
  <2>1. PICK c \in Printable : Type(c)
    BY <1>4
  <2>2. line' \in Seq(Printable) /\ Len(line') = Len(line) + 1
    BY <2>1, AppendProperties DEF Type, TypeOK
  <2> QED
    BY <1>1, <2>1, <2>2 DEF Type, TypeOK
<1>5. CASE Backspace
  <2>1. Len(line) # 0
    BY <1>5, EmptySeq DEF Backspace, TypeOK
  <2>2. \A i \in 1..Len(line) - 1 : line[i] \in Printable
    BY <1>1, ElementOfSeq DEF TypeOK
  <2> DEFINE n == Len(line) - 1
  <2>3. line' = SubSeq(line, 1, n) /\ n \in Nat
    BY <1>1, <1>5, <2>1 DEF Backspace
  <2>4. line' \in Seq(Printable) /\ Len(line') = n
    <3> HIDE DEF n
    <3>1. \A i \in 1..n : line[i] \in Printable
      BY <2>2 DEF n
    <3>2. Len(SubSeq(line, 1, n)) = IF 1 <= n THEN n - 1 + 1 ELSE 0
      BY <2>3, <3>1, SubSeqProperties
    <3> QED
      BY <2>3, <3>1, <3>2, SubSeqProperties
  <2> QED
    BY <1>1, <1>5, <2>4 DEF Backspace, TypeOK
<1>6. CASE Enter
  BY <1>1, <1>2, <1>6 DEF Enter, TypeOK
<1>7. CASE ParseNumber
  <2> DEFINE p == Past(Separators, pos)
             v == Aligned(Number(p))
  <2>1. p \in 1..Len(line) /\ pos' = DigitsEnd(p)
    <3>1. pos \in 1..Len(line) + 1
      BY <1>1, <1>7 DEF ParseNumber, TypeOK
    <3>2. p \in pos..Len(line) + 1
      BY <3>1, PastFacts
    <3> QED
      BY <1>1, <1>7, <3>1, <3>2 DEF ParseNumber
  <2>2. pos' \in 1..Len(line) + 1
    <3> HIDE DEF p
    <3>1. DigitsAt(p) \in 1..Len(line) + 1 /\ DigitsEnd(p) \in DigitsAt(p)..Len(line) + 1
      BY <1>1, <2>1, DigitsFacts
    <3> QED
      BY <1>1, <2>1, <3>1
  <2>3. v # 0 => v \in Addresses
    BY <2>1, NumberType, AlignedFacts
  <2>4. pages' = (IF v = 0 THEN pages ELSE Append(pages, v)) /\ Len(pages) < PagesCap
    BY <1>7 DEF ParseNumber
  <2>5. pages' \in Seq(Addresses) /\ Len(pages') <= PagesCap
    <3> HIDE DEF v
    <3> QED
      BY <1>1, <2>3, <2>4, AppendProperties DEF TypeOK
  <2>6. phase' = phase /\ UNCHANGED <<line, saved>>
    BY <1>7 DEF ParseNumber
  <2> QED
    BY <1>1, <2>2, <2>5, <2>6 DEF TypeOK
<1>8. CASE ParseEnd
  BY <1>8 DEF ParseEnd, TypeOK
<1>9. CASE Confirm
  BY <1>9 DEF Confirm, TypeOK
<1>10. CASE Restart
  BY <1>1, <1>2, <1>10 DEF Restart, Begin, TypeOK
<1>11. CASE UNCHANGED vars
  BY <1>11 DEF vars, TypeOK
<1> QED
  BY <1>3, <1>4, <1>5, <1>6, <1>7, <1>8, <1>9, <1>10, <1>11 DEF Next

LEMMA TypesInvariant == Spec => []ITypes
  BY TypesInit, TypesStep, PTL DEF Spec

(* read_line keeps room for its zero, parse_addresses stays within pas[],  *)
(* and every address that is confirmed, saved or offered again is a page   *)
(* of the address space other than page 0, whatever is typed.              *)
THEOREM EntryTypes == Spec => []TypeOK
<1>1. ITypes => TypeOK
  BY DEF ITypes
<1> QED
  BY <1>1, TypesInvariant, PTL

-----------------------------------------------------------------------------
(* Only a line with an address in it is put to the question. *)
Asked == phase = "confirm" => pages # <<>>

LEMMA AskedInductive == Spec => []Asked
<1>1. Init => Asked
  BY DEF Init, Asked, Begin
<1>2. Asked /\ [Next]_vars => Asked'
  <2> SUFFICES ASSUME Asked, [Next]_vars PROVE Asked'
    OBVIOUS
  <2>1. CASE RetryYes
    BY <2>1 DEF RetryYes, Asked
  <2>2. CASE RetryNo
    BY <2>2 DEF RetryNo, Asked
  <2>3. CASE \E c \in Printable : Type(c)
    BY <2>3 DEF Type, Asked
  <2>4. CASE Backspace
    BY <2>4 DEF Backspace, Asked
  <2>5. CASE Enter
    BY <2>5 DEF Enter, Asked
  <2>6. CASE Escape
    BY <2>6 DEF Escape, Asked
  <2>7. CASE ParseNumber
    BY <2>7 DEF ParseNumber, Asked
  <2>8. CASE ParseEnd
    BY <2>8 DEF ParseEnd, Asked
  <2>9. CASE Confirm
    BY <2>9 DEF Confirm, Asked
  <2>10. CASE Restart
    BY <2>10 DEF Restart, Asked, Begin
  <2>11. CASE UNCHANGED vars
    BY <2>11 DEF vars, Asked
  <2>12. QED
    BY <2>1, <2>2, <2>3, <2>4, <2>5, <2>6, <2>7, <2>8, <2>9, <2>10, <2>11 DEF Next
<1>3. QED
  BY <1>1, <1>2, PTL DEF Spec

(* Cancelling at any prompt, a line without an address and a restart leave   *)
(* BrrBadPages as it is: only a confirmed, non-empty list replaces it.       *)
THEOREM SavedAddressesKept == Spec => SavedKept
<1>1. Asked /\ [Next]_vars => (saved' # saved => phase = "confirm" /\ saved' # <<>>)
  <2> SUFFICES ASSUME Asked, [Next]_vars, saved' # saved
               PROVE  phase = "confirm" /\ saved' # <<>>
    OBVIOUS
  <2>1. CASE Confirm
    BY <2>1 DEF Confirm, Asked
  <2>2. CASE Next /\ ~Confirm
    <3>1. UNCHANGED saved
      BY <2>2 DEF Next, RetryYes, RetryNo, Type, Backspace, Enter, Escape, ParseNumber, ParseEnd,
                  Restart
    <3>2. QED
      BY <3>1
  <2>3. CASE UNCHANGED vars
    BY <2>3 DEF vars
  <2>4. QED
    BY <2>1, <2>2, <2>3
<1>2. QED
  BY <1>1, AskedInductive, PTL DEF Spec, SavedKept

-----------------------------------------------------------------------------
(* What a well-formed line says.                                           *)

Words == 0..WordSize - 1
Reads == [list : Seq(Addresses), number : Words]

(* The list with the number that is being read. *)
Kept(r) == Noted(r.list, r.number)

(* A well-formed line consists of digits, separators and x, which are three *)
(* different things.                                                        *)
LEMMA Characters ==
  /\ "0" \in DOMAIN HexValue /\ "0" \notin Separators
  /\ "x" \notin DOMAIN HexValue /\ "x" \notin Separators
  /\ \A c \in DOMAIN HexValue : c \notin Separators
  BY DigitAssumption DEF Separators

LEMMA WellFormedCharacters ==
  ASSUME TypeOK, WellFormed, NEW i \in 1..Len(line)
  PROVE  line[i] \in DOMAIN HexValue \/ line[i] \in Separators \/ line[i] = "x"
<1>1. line[i] \in Printable
  BY ElementOfSeq DEF TypeOK
<1> QED
  BY <1>1 DEF WellFormed, Printable

LEMMA NotedType ==
  ASSUME NEW list \in Seq(Addresses), NEW v \in Words
  PROVE  /\ Noted(list, v) \in Seq(Addresses)
         /\ Noted(list, v) = IF Aligned(v) = 0 THEN list ELSE Append(list, Aligned(v))
         /\ Len(list) <= Len(Noted(list, v))
         /\ \A k \in 1..Len(list) : Noted(list, v)[k] = list[k]
<1>1. Noted(list, v) = IF Aligned(v) = 0 THEN list ELSE Append(list, Aligned(v))
  BY AlignedFacts DEF Noted, Aligned, Words
<1>2. CASE Aligned(v) = 0
  <2>1. Noted(list, v) = list /\ Len(list) \in Nat
    BY <1>1, <1>2, LenProperties
  <2> QED
    BY <1>1, <2>1
<1>3. CASE Aligned(v) # 0
  <2> DEFINE a == Aligned(v)
  <2>1. a \in Addresses /\ Noted(list, v) = Append(list, a) /\ Len(list) \in Nat
    BY <1>1, <1>3, AlignedFacts, LenProperties DEF Words
  <2> HIDE DEF a
  <2>2. /\ Append(list, a) \in Seq(Addresses) /\ Len(Append(list, a)) = Len(list) + 1
        /\ \A k \in 1..Len(list) : Append(list, a)[k] = list[k]
    BY <2>1, AppendProperties
  <2>3. Len(list) <= Len(list) + 1
    BY <2>1
  <2> QED
    BY <1>1, <2>1, <2>2, <2>3
<1> QED
  BY <1>2, <1>3

LEMMA NotedZero == \A list : Noted(list, 0) = list
  BY SizeAssumption DEF Noted

LEMMA ReadType ==
  ASSUME NEW r \in Reads, NEW c, c \in DOMAIN HexValue \/ c \in Separators \/ c = "x"
  PROVE  Read(r, c) \in Reads
<1>1. r.list \in Seq(Addresses) /\ r.number \in Words /\ r = [list |-> r.list, number |-> r.number]
  BY DEF Reads
<1>2. 0 \in Words
  BY SizeAssumption DEF Words
<1>3. CASE c \in Separators
  BY <1>1, <1>2, <1>3, NotedType DEF Read, Reads
<1>4. CASE c = "x"
  BY <1>1, <1>2, <1>4, Characters DEF Read, Reads
<1>5. CASE c \in DOMAIN HexValue
  <2>1. Shift(r.number, c) \in Words
    BY <1>1, <1>5, ShiftType DEF Words
  <2>2. Read(r, c) = [r EXCEPT !.number = Shift(r.number, c)]
    BY <1>5, Characters DEF Read
  <2> QED
    BY <1>1, <2>1, <2>2 DEF Reads
<1> QED
  BY <1>3, <1>4, <1>5

(* ReadTo is what its definition says. *)
LEMMA ReadFacts ==
  ASSUME TypeOK, WellFormed
  PROVE  /\ ReadTo[0] = [list |-> <<>>, number |-> 0]
         /\ \A i \in 1..Len(line) : ReadTo[i] = Read(ReadTo[i - 1], line[i])
         /\ \A i \in 0..Len(line) : ReadTo[i] \in Reads
<1> DEFINE n == Len(line)
           first == [list |-> <<>>, number |-> 0]
           step == [q \in Reads \X (1..n) |-> Read(q[1], line[q[2]])]
<1>1. n \in Nat
  BY LenProperties DEF TypeOK
<1>2. first \in Reads
  BY EmptySeq, SizeAssumption DEF Reads, Words
<1>3. \A r \in Reads : \A i \in 1..n : Read(r, line[i]) \in Reads
  BY ReadType, WellFormedCharacters
<1>4. \E f : Iterates(f, n, Reads, first, step)
  <2>1. IsStep(step, n, Reads)
    <3> HIDE DEF n
    <3> QED
      BY <1>3 DEF IsStep
  <2> HIDE DEF step, n, first
  <2> QED
    BY <1>1, <1>2, <2>1, Recursion
<1>5. PICK f \in [0..n -> Reads] : f[0] = first /\ \A i \in 1..n : f[i] = step[<<f[i - 1], i>>]
  <2> HIDE DEF step, n, first
  <2> QED
    BY <1>4 DEF Iterates
<1>6. \A i \in 1..n : step[<<f[i - 1], i>>] = Read(f[i - 1], line[i])
  <2>1. \A i \in 1..n : <<f[i - 1], i>> \in Reads \X (1..n)
    <3> HIDE DEF n
    <3> QED
      BY <1>1
  <2> HIDE DEF n
  <2> QED
    BY <2>1
<1> DEFINE eq(g) == g = [i \in 0..n |-> IF i = 0 THEN first ELSE Read(g[i - 1], line[i])]
           h == CHOOSE g : eq(g)
<1>7. eq(f)
  <2> HIDE DEF step, n, first
  <2>1. \A i \in 0..n : f[i] = IF i = 0 THEN first ELSE Read(f[i - 1], line[i])
    <3>1. ASSUME NEW i \in 1..n PROVE f[i] = Read(f[i - 1], line[i])
      BY <1>5, <1>6
    <3>2. \A i \in 0..n : i = 0 \/ i \in 1..n
      BY <1>1
    <3> QED
      BY <1>5, <3>1, <3>2, Zenon
  <2> QED
    BY <1>5, <2>1
<1>8. eq(h)
  BY <1>7, Zenon
<1>9. ReadTo = h
  BY DEF ReadTo
<1>10. h[0] = first /\ \A i \in 1..n : h[i] = Read(h[i - 1], line[i])
  <2> HIDE DEF h, n, first
  <2> QED
    BY <1>1, <1>8
<1>11. \A i \in 0..n : h[i] \in Reads
  <2> DEFINE Typed == {i \in 0..n : h[i] \in Reads}
  <2> HIDE DEF h, first
  <2>1. 0 \in Typed
    BY <1>1, <1>2, <1>10
  <2>2. ASSUME NEW i \in 1..n, i - 1 \in Typed PROVE i \in Typed
    BY <1>1, <1>3, <1>10, <2>2
  <2>3. Typed = 0..n
    <3> HIDE DEF n
    <3>1. Typed \in SUBSET (0..n)
      OBVIOUS
    <3> HIDE DEF Typed
    <3> QED
      BY <1>1, <2>1, <2>2, <3>1, UpFromZero
  <2> QED
    BY <2>3
<1> HIDE DEF h
<1> QED
  BY <1>9, <1>10, <1>11

(* Separators end the number before them and add nothing else. *)
LEMMA OverSeparators ==
  ASSUME TypeOK, WellFormed, NEW a \in 0..Len(line), NEW b \in a..Len(line),
         \A i \in a + 1..b : line[i] \in Separators
  PROVE  /\ a < b => ReadTo[b] = [list |-> Kept(ReadTo[a]), number |-> 0]
         /\ Kept(ReadTo[b]) = Kept(ReadTo[a])
<1> DEFINE n == b - a
           Over == {k \in 0..n : k > 0 => ReadTo[a + k] = [list |-> Kept(ReadTo[a]), number |-> 0]}
<1>1. Len(line) \in Nat /\ n \in Nat
  BY LenProperties DEF TypeOK
<1>2. 0 \in Over
  BY <1>1
<1>3. ASSUME NEW k \in 1..n, k - 1 \in Over PROVE k \in Over
  <2>1. a + k \in 1..Len(line) /\ a + k \in a + 1..b /\ (a + k) - 1 = a + (k - 1)
    BY <1>1
  <2>2. ReadTo[a + k] = Read(ReadTo[a + (k - 1)], line[a + k])
    BY <2>1, ReadFacts
  <2>3. line[a + k] \in Separators
    BY <2>1
  <2>4. ReadTo[a + k] = [list |-> Kept(ReadTo[a + (k - 1)]), number |-> 0]
    BY <2>2, <2>3 DEF Read, Kept
  <2>5. Kept(ReadTo[a + (k - 1)]) = Kept(ReadTo[a])
    <3>1. CASE k = 1
      <4>1. a + (k - 1) = a
        BY <3>1
      <4> QED
        BY <4>1
    <3>2. CASE k - 1 > 0
      <4>1. ReadTo[a + (k - 1)] = [list |-> Kept(ReadTo[a]), number |-> 0]
        BY <1>3, <3>2
      <4> QED
        BY <4>1, NotedZero DEF Kept
    <3> QED
      BY <3>1, <3>2
  <2> QED
    BY <2>4, <2>5
<1>4. Over = 0..n
  <2>1. Over \in SUBSET (0..n)
    OBVIOUS
  <2> HIDE DEF Over, n
  <2> QED
    BY <1>1, <1>2, <1>3, <2>1, UpFromZero
<1>5. n \in Over
  <2> HIDE DEF Over, n
  <2> QED
    BY <1>1, <1>4
<1>6. a + n = b
  BY <1>1
<1>7. a < b => ReadTo[b] = [list |-> Kept(ReadTo[a]), number |-> 0]
  <2>1. n > 0 => ReadTo[a + n] = [list |-> Kept(ReadTo[a]), number |-> 0]
    BY <1>5
  <2>2. a < b => n > 0
    BY <1>1
  <2> HIDE DEF n
  <2> QED
    BY <1>6, <2>1, <2>2
<1>8. a = b \/ a < b
  BY <1>1
<1> QED
  BY <1>7, <1>8, NotedZero DEF Kept

(* f has the values of the first digits from a position on.                 *)
Spells(f, from, n) ==
  \A i \in 1..n : /\ line[from + i - 1] \in DOMAIN HexValue
                  /\ f[i] = Shift(f[i - 1], line[from + i - 1])

(* Digits add up to the number. *)
LEMMA OverDigits ==
  ASSUME TypeOK, WellFormed, NEW from \in 1..Len(line) + 1, NEW n \in Nat, from + n <= Len(line) + 1,
         NEW list, NEW f, ReadTo[from - 1] = [list |-> list, number |-> f[0]], Spells(f, from, n)
  PROVE  ReadTo[from - 1 + n] = [list |-> list, number |-> f[n]]
<1> DEFINE Over == {k \in 0..n : ReadTo[from - 1 + k] = [list |-> list, number |-> f[k]]}
<1>1. Len(line) \in Nat
  BY LenProperties DEF TypeOK
<1>2. 0 \in Over
  <2>1. from - 1 + 0 = from - 1
    BY <1>1
  <2> QED
    BY <2>1
<1>3. ASSUME NEW k \in 1..n, k - 1 \in Over PROVE k \in Over
  <2> DEFINE i == from - 1 + k
  <2>1. i \in 1..Len(line) /\ i - 1 = from - 1 + (k - 1) /\ i = from + k - 1
    BY <1>1
  <2>2. ReadTo[i] = Read(ReadTo[i - 1], line[i])
    <3> HIDE DEF i
    <3> QED
      BY <2>1, ReadFacts
  <2>3. ReadTo[i - 1] = [list |-> list, number |-> f[k - 1]]
    BY <1>3, <2>1
  <2>4. line[i] \in DOMAIN HexValue /\ f[k] = Shift(f[k - 1], line[i])
    BY <2>1 DEF Spells
  <2> HIDE DEF i
  <2>5. line[i] \notin Separators /\ line[i] # "x"
    BY <2>4, Characters
  <2>6. ReadTo[i] = [list |-> list, number |-> f[k]]
    BY <2>2, <2>3, <2>4, <2>5 DEF Read
  <2> QED
    BY <2>6 DEF i
<1>4. Over = 0..n
  <2>1. Over \in SUBSET (0..n)
    OBVIOUS
  <2> HIDE DEF Over
  <2> QED
    BY <1>2, <1>3, <2>1, UpFromZero
<1>5. n \in Over
  <2> HIDE DEF Over
  <2> QED
    BY <1>4
<1> QED
  BY <1>5

(* What has been read stays at the front of the list. *)
LEMMA ListGrows ==
  ASSUME TypeOK, WellFormed, NEW a \in 0..Len(line)
  PROVE  /\ Len(ReadTo[a].list) <= Len(Kept(ReadTo[Len(line)]))
         /\ \A k \in 1..Len(ReadTo[a].list) : Kept(ReadTo[Len(line)])[k] = ReadTo[a].list[k]
<1> DEFINE L == Len(line)
           n == L - a
           front(s) == /\ Len(ReadTo[a].list) <= Len(s)
                       /\ \A k \in 1..Len(ReadTo[a].list) : s[k] = ReadTo[a].list[k]
           Grown == {k \in 0..n : front(ReadTo[a + k].list)}
<1>1. L \in Nat /\ n \in Nat
  BY LenProperties DEF TypeOK
<1>2. \A i \in 0..L : /\ ReadTo[i] \in Reads /\ ReadTo[i].list \in Seq(Addresses)
                      /\ ReadTo[i].number \in Words /\ Len(ReadTo[i].list) \in Nat
  BY ReadFacts, LenProperties DEF Reads
<1>3. 0 \in Grown
  <2>1. a + 0 = a
    BY <1>1
  <2> QED
    BY <1>1, <1>2, <2>1
<1>4. \A i \in 0..L : front(ReadTo[i].list) => front(Kept(ReadTo[i]))
  <2> TAKE i \in 0..L
  <2> HAVE front(ReadTo[i].list)
  <2> DEFINE s == ReadTo[i].list
             t == Kept(ReadTo[i])
             u == ReadTo[a].list
  <2>1. Len(s) <= Len(t) /\ \A k \in 1..Len(s) : t[k] = s[k]
    BY <1>2, NotedType DEF Kept
  <2>2. Len(u) \in Nat /\ Len(s) \in Nat /\ Len(t) \in Nat
    BY <1>2, NotedType, LenProperties DEF Kept
  <2>3. Len(u) <= Len(s) /\ \A k \in 1..Len(u) : s[k] = u[k]
    OBVIOUS
  <2> HIDE DEF s, t, u
  <2>4. Len(u) <= Len(t) /\ \A k \in 1..Len(u) : t[k] = u[k]
    BY <2>1, <2>2, <2>3
  <2> QED
    BY <2>4 DEF s, t, u
<1>5. ASSUME NEW k \in 1..n, k - 1 \in Grown PROVE k \in Grown
  <2> DEFINE i == a + k
  <2>1. i \in 1..L /\ i - 1 = a + (k - 1) /\ i - 1 \in 0..L
    BY <1>1
  <2>2. front(ReadTo[i - 1].list)
    BY <1>5, <2>1
  <2>3. ReadTo[i] = Read(ReadTo[i - 1], line[i])
    <3> HIDE DEF i
    <3> QED
      BY <2>1, ReadFacts
  <2>4. ReadTo[i].list = Kept(ReadTo[i - 1]) \/ ReadTo[i].list = ReadTo[i - 1].list
    <3> HIDE DEF i
    <3>1. ReadTo[i - 1] \in Reads
      BY <1>2, <2>1
    <3> QED
      BY <2>3, <3>1 DEF Read, Kept, Reads
  <2>5. front(ReadTo[i].list)
    <3> HIDE DEF i, front
    <3> QED
      BY <1>4, <2>1, <2>2, <2>4
  <2> QED
    BY <2>5
<1>6. Grown = 0..n
  <2>1. Grown \in SUBSET (0..n)
    OBVIOUS
  <2> HIDE DEF Grown, n
  <2> QED
    BY <1>1, <1>3, <1>5, <2>1, UpFromZero
<1>7. front(ReadTo[L].list)
  <2>1. n \in Grown
    <3> HIDE DEF Grown, n
    <3> QED
      BY <1>1, <1>6
  <2>2. a + n = L
    BY <1>1
  <2> QED
    BY <2>1, <2>2
<1> QED
  BY <1>1, <1>4, <1>7

(* A number of a well-formed line ends at a separator or with the line, and  *)
(* it has a character at least.                                              *)
LEMMA NumberEnds ==
  ASSUME TypeOK, WellFormed, NEW p \in 1..Len(line), line[p] \notin Separators,
         p = 1 \/ line[p - 1] \in Separators
  PROVE  /\ DigitsEnd(p) > p
         /\ DigitsEnd(p) <= Len(line) => line[DigitsEnd(p)] \in Separators
<1> DEFINE L == Len(line)
           from == DigitsAt(p)
           end == DigitsEnd(p)
<1>1. L \in Nat
  BY LenProperties DEF TypeOK
<1>2. /\ from \in p..L + 1 /\ end \in from..L + 1
      /\ \A i \in from..end - 1 : line[i] \in DOMAIN HexValue
      /\ end <= L => line[end] \notin DOMAIN HexValue
  BY DigitsFacts
<1>3. end <= L => line[end] \in Separators \/ line[end] = "x"
  <2> HIDE DEF end
  <2>1. end <= L => end \in 1..L
    BY <1>1, <1>2
  <2> QED
    BY <1>2, <2>1, WellFormedCharacters
<1>4. \A i \in 1..L : line[i] = "x" => i > 1 /\ line[i - 1] = "0" /\ (i > 2 => line[i - 2] \in Separators)
  BY DEF WellFormed
<1>5. PrefixAt(p) => from = p + 2 /\ p + 1 \in 1..L /\ line[p] = "0" /\ line[p + 1] = "x"
  BY <1>1 DEF DigitsAt, PrefixAt
<1>6. ~PrefixAt(p) => from = p /\ ~(p < L /\ line[p] = "0" /\ line[p + 1] = "x")
  BY DEF DigitsAt, PrefixAt
<1>7. line[p] \in DOMAIN HexValue
  <2>1. line[p] # "x"
    BY <1>1, <1>4, Characters
  <2> QED
    BY <2>1, WellFormedCharacters
<1> HIDE DEF from, end, L
<1>8. end > p
  <2>1. CASE PrefixAt(p)
    BY <1>1, <1>2, <1>5, <2>1 DEF L
  <2>2. CASE ~PrefixAt(p)
    <3>1. end # p
      BY <1>2, <1>7 DEF L
    <3> QED
      BY <1>1, <1>2, <1>6, <2>2, <3>1
  <2> QED
    BY <2>1, <2>2
<1>9. ASSUME end <= L, line[end] = "x" PROVE FALSE
  <2>1. end \in 1..L /\ line[end - 1] = "0" /\ (end > 2 => line[end - 2] \in Separators)
    BY <1>1, <1>2, <1>4, <1>9 DEF L
  <2>2. CASE PrefixAt(p)
    <3>1. CASE end = p + 2
      <4>1. end - 1 = p + 1
        BY <1>1, <3>1 DEF L
      <4> QED
        BY <1>5, <2>1, <2>2, <4>1, Characters
    <3>2. CASE end = p + 3
      <4>1. end - 2 = p + 1 /\ end > 2
        BY <1>1, <3>2 DEF L
      <4> QED
        BY <1>5, <2>1, <2>2, <4>1, Characters
    <3>3. CASE end > p + 3
      <4>1. end - 2 \in from..end - 1 /\ end > 2
        BY <1>1, <1>2, <1>5, <2>2, <3>3 DEF L
      <4> QED
        BY <1>2, <2>1, <4>1, Characters
    <3> QED
      BY <1>1, <1>2, <1>5, <2>2, <3>1, <3>2, <3>3 DEF L
  <2>3. CASE ~PrefixAt(p)
    <3>1. CASE end = p + 1
      <4>1. end - 1 = p /\ p < L
        BY <1>1, <1>9, <3>1 DEF L
      <4> QED
        BY <1>6, <1>9, <2>1, <2>3, <3>1, <4>1
    <3>2. CASE end > p + 1
      <4>1. end - 2 \in from..end - 1 /\ end > 2
        BY <1>1, <1>2, <1>6, <2>3, <3>2 DEF L
      <4> QED
        BY <1>2, <2>1, <4>1, Characters
    <3> QED
      BY <1>1, <1>2, <1>8, <3>1, <3>2 DEF L
  <2> QED
    BY <2>2, <2>3
<1> QED
  BY <1>3, <1>8, <1>9 DEF L, end

(* The parser has read what stands before pos, which is a separator or an    *)
(* end of the line.                                                          *)
ReadSoFar ==
  /\ pages = Kept(ReadTo[pos - 1])
  /\ pos = 1 \/ pos = Len(line) + 1 \/ line[pos] \in Separators

(* The separators before a number leave no number behind.                    *)
LEMMA BeforeNumber ==
  ASSUME TypeOK, WellFormed, pos <= Len(line) + 1, ReadSoFar,
         NEW p, p = Past(Separators, pos), p <= Len(line)
  PROVE  /\ p \in 1..Len(line) /\ line[p] \notin Separators
         /\ p = 1 \/ line[p - 1] \in Separators
         /\ ReadTo[p - 1] = [list |-> pages, number |-> 0]
<1> DEFINE L == Len(line)
<1>1. L \in Nat /\ pos \in 1..L + 1
  BY LenProperties, SizeAssumption DEF TypeOK
<1>2. /\ p \in pos..L + 1 /\ line[p] \notin Separators
      /\ \A i \in pos..p - 1 : line[i] \in Separators
  BY <1>1, PastFacts
<1> HIDE DEF L
<1>3. p \in 1..L
  BY <1>1, <1>2 DEF L
<1>4. p # pos \/ p = 1
  BY <1>1, <1>2, <1>3 DEF L, ReadSoFar
<1>5. p = 1 \/ line[p - 1] \in Separators
  <2>1. p # pos => p - 1 \in pos..p - 1
    BY <1>1, <1>2
  <2> QED
    BY <1>2, <1>4, <2>1
<1>6. ReadTo[p - 1] = [list |-> pages, number |-> 0]
  <2>1. CASE p = pos
    <3>1. pos = 1 /\ p - 1 = 0
      BY <1>4, <2>1
    <3>2. ReadTo[0] = [list |-> <<>>, number |-> 0]
      BY ReadFacts
    <3>3. Kept(ReadTo[0]) = <<>>
      BY <3>2, NotedZero DEF Kept
    <3>4. pages = <<>>
      BY <2>1, <3>1, <3>3 DEF ReadSoFar
    <3> QED
      BY <3>1, <3>2, <3>4
  <2>2. CASE p # pos
    <3> DEFINE a == pos - 1
               b == p - 1
    <3>1. a \in 0..L /\ b \in a..L /\ a < b
      BY <1>1, <1>2, <1>3, <2>2
    <3>2. a + 1 = pos
      BY <1>1
    <3>3. \A i \in a + 1..b : line[i] \in Separators
      BY <1>2, <3>2
    <3>4. ReadTo[b] = [list |-> Kept(ReadTo[a]), number |-> 0]
      <4> HIDE DEF a, b
      <4> QED
        BY <3>1, <3>3, OverSeparators DEF L
    <3> QED
      BY <3>4 DEF ReadSoFar
  <2> QED
    BY <2>1, <2>2
<1> QED
  BY <1>2, <1>3, <1>5, <1>6 DEF L

(* A round of the parser reads the number, with a prefix or without one.     *)
LEMMA OneNumber ==
  ASSUME TypeOK, WellFormed, NEW p \in 1..Len(line), ReadTo[p - 1] = [list |-> pages, number |-> 0]
  PROVE  ReadTo[DigitsEnd(p) - 1] = [list |-> pages, number |-> Number(p)]
<1> DEFINE L == Len(line)
           from == DigitsAt(p)
           n == DigitsEnd(p) - from
<1>1. L \in Nat /\ from \in 1..L + 1 /\ n \in Nat /\ from + n <= L + 1 /\ DigitsEnd(p) - 1 = from - 1 + n
  BY DigitsFacts, LenProperties DEF TypeOK
<1>2. \A i \in from..DigitsEnd(p) - 1 : line[i] \in DOMAIN HexValue
  BY DigitsFacts
<1>3. PICK f \in [0..n -> Words] :
        /\ f[0] = 0
        /\ \A i \in 1..n : f[i] = Shift(f[i - 1], line[from + i - 1])
        /\ Number(p) = f[n]
  BY NumberFacts DEF Words
<1>4. ReadTo[from - 1] = [list |-> pages, number |-> 0]
  <2>1. CASE PrefixAt(p)
    <3>1. from - 1 = p + 1 /\ p + 1 \in 1..L /\ line[p] = "0" /\ line[p + 1] = "x"
      BY <1>1, <2>1 DEF DigitsAt, PrefixAt
    <3>2. ReadTo[p] = Read(ReadTo[p - 1], line[p])
      BY ReadFacts
    <3>3. ReadTo[p + 1] = Read(ReadTo[p], line[p + 1])
      <4>1. (p + 1) - 1 = p
        OBVIOUS
      <4> QED
        BY <3>1, <4>1, ReadFacts
    <3>4. "0" # "x" /\ "0" \notin Separators /\ "x" \notin Separators
      BY Characters
    <3>5. ReadTo[p] = [list |-> pages, number |-> Shift(0, "0")]
      BY <3>1, <3>2, <3>4 DEF Read
    <3>6. ReadTo[p + 1] = [list |-> pages, number |-> 0]
      BY <3>1, <3>3, <3>4, <3>5 DEF Read
    <3> QED
      BY <3>1, <3>6
  <2>2. CASE ~PrefixAt(p)
    BY <2>2 DEF DigitsAt
  <2> QED
    BY <2>1, <2>2
<1>5. \A i \in 1..n : line[from + i - 1] \in DOMAIN HexValue
  <2> HIDE DEF from
  <2>1. \A i \in 1..n : from + i - 1 \in from..DigitsEnd(p) - 1
    BY <1>1
  <2> QED
    BY <1>2, <2>1
<1> HIDE DEF from, n
<1>6. ReadTo[from - 1 + n] = [list |-> pages, number |-> f[n]]
  <2>1. ReadTo[from - 1] = [list |-> pages, number |-> f[0]]
    BY <1>3, <1>4
  <2>2. Spells(f, from, n)
    BY <1>3, <1>5 DEF Spells
  <2>3. from \in 1..Len(line) + 1 /\ n \in Nat /\ from + n <= Len(line) + 1
    BY <1>1
  <2> QED
    BY <2>1, <2>2, <2>3, OverDigits, ZenonT(60)
<1> QED
  BY <1>1, <1>3, <1>6

LEMMA FrontOf ==
  ASSUME NEW s \in Seq(Addresses), NEW t \in Seq(Addresses), Len(s) <= Len(t),
         \A k \in 1..Len(s) : t[k] = s[k]
  PROVE  SubSeq(t, 1, Len(s)) = s
<1> DEFINE n == Len(s)
           u == SubSeq(t, 1, n)
<1>1. n \in Nat /\ Len(t) \in Nat
  BY LenProperties
<1>2. \A k \in 1..n : t[k] \in Addresses
  BY <1>1, ElementOfSeq
<1>3. Len(u) = (IF 1 <= n THEN n - 1 + 1 ELSE 0) /\ u \in Seq(Addresses)
      /\ \A k \in 1..n - 1 + 1 : u[k] = t[1 + k - 1]
  <2> HIDE DEF n
  <2> QED
    BY <1>1, <1>2, SubSeqProperties
<1>4. Len(u) = n
  <2> HIDE DEF n, u
  <2> QED
    BY <1>1, <1>3
<1>5. \A k \in 1..n : u[k] = s[k]
  <2> HIDE DEF u
  <2>1. \A k \in 1..n : k \in 1..n - 1 + 1 /\ 1 + k - 1 = k
    BY <1>1
  <2> QED
    BY <1>3, <2>1
<1> HIDE DEF u
<1>6. u = s
  BY <1>3, <1>4, <1>5, SeqEqual
<1> QED
  BY <1>6 DEF u

(* The end of the parser: the rest of the line is separators, or there is no *)
(* room for more.                                                            *)
LEMMA EverythingSaid ==
  ASSUME TypeOK, WellFormed, pos <= Len(line) + 1, ReadSoFar,
         Len(pages) = PagesCap \/ Past(Separators, pos) > Len(line)
  PROVE  pages = Said
<1> DEFINE L == Len(line)
           all == Kept(ReadTo[L])
           n == Len(pages)
<1>1. L \in Nat /\ pos \in 1..L + 1 /\ n \in Nat /\ n <= PagesCap /\ PagesCap \in Nat \ {0}
  BY LenProperties, SizeAssumption DEF TypeOK
<1>2. all \in Seq(Addresses) /\ Len(all) \in Nat
  <2>1. ReadTo[L] \in Reads
    BY <1>1, ReadFacts
  <2> QED
    BY <2>1, NotedType, LenProperties DEF Reads, Kept
<1>3. Said = SubSeq(all, 1, IF Len(all) < PagesCap THEN Len(all) ELSE PagesCap)
  BY DEF Said, Kept
<1>4. CASE all = pages
  <2>1. (IF Len(all) < PagesCap THEN Len(all) ELSE PagesCap) = Len(pages)
    BY <1>1, <1>4
  <2>2. SubSeq(pages, 1, Len(pages)) = pages
    BY <1>1, FrontOf DEF TypeOK
  <2> HIDE DEF all
  <2> QED
    BY <1>3, <1>4, <2>1, <2>2
<1>5. CASE Past(Separators, pos) > L \/ pos = L + 1
  <2> DEFINE a == pos - 1
  <2>1. a \in 0..L /\ L \in a..L /\ a + 1 = pos
    BY <1>1
  <2>2. \A i \in pos..L : line[i] \in Separators
    <3>1. CASE Past(Separators, pos) > L
      <4>1. Past(Separators, pos) \in pos..L + 1 /\ \A i \in pos..Past(Separators, pos) - 1 : line[i] \in Separators
        BY <1>1, PastFacts
      <4>2. Past(Separators, pos) - 1 = L
        BY <1>1, <3>1, <4>1
      <4> QED
        BY <4>1, <4>2
    <3>2. CASE pos = L + 1
      <4>1. pos..L = {}
        BY <1>1, <3>2
      <4> QED
        BY <4>1
    <3> QED
      BY <1>5, <3>1, <3>2
  <2>3. all = Kept(ReadTo[a])
    <3> HIDE DEF a
    <3> QED
      BY <2>1, <2>2, OverSeparators
  <2>4. all = pages
    BY <2>3 DEF ReadSoFar
  <2> QED
    BY <1>4, <2>4
<1>6. CASE n = PagesCap /\ pos # L + 1
  <2>1. pos # 1
    <3>1. SUFFICES ASSUME pos = 1 PROVE FALSE
      OBVIOUS
    <3>2. pos - 1 = 0
      BY <3>1
    <3>3. pages = <<>>
      BY <3>2, ReadFacts, NotedZero DEF Kept, ReadSoFar
    <3> QED
      BY <1>1, <1>6, <3>3, EmptySeq
  <2>2. line[pos] \in Separators /\ pos \in 1..L
    BY <1>1, <1>6, <2>1 DEF ReadSoFar
  <2>3. ReadTo[pos].list = pages
    <3>1. ReadTo[pos] = Read(ReadTo[pos - 1], line[pos])
      BY <2>2, ReadFacts
    <3> QED
      BY <2>2, <3>1 DEF Read, Kept, ReadSoFar
  <2>4. n <= Len(all) /\ \A k \in 1..n : all[k] = pages[k]
    <3>1. pos \in 0..L
      BY <1>1, <2>2
    <3> QED
      BY <2>3, <3>1, ListGrows
  <2>5. SubSeq(all, 1, n) = pages
    <3> HIDE DEF all
    <3> QED
      BY <1>2, <2>4, FrontOf DEF TypeOK
  <2>6. (IF Len(all) < PagesCap THEN Len(all) ELSE PagesCap) = n
    <3> HIDE DEF all, n
    <3> QED
      BY <1>1, <1>2, <1>6, <2>4
  <2> QED
    BY <1>3, <2>5, <2>6
<1> QED
  BY <1>5, <1>6

IRead == phase = "parsing" /\ WellFormed => ReadSoFar
SavedInv == ITypes /\ IRead /\ SavesWhatWasTyped

LEMMA SameLine ==
  ASSUME line' = line
  PROVE  (WellFormed' <=> WellFormed) /\ ReadTo' = ReadTo /\ Said' = Said
<1>1. WellFormed' <=> WellFormed
  BY Zenon DEF WellFormed, Separators
<1>2. ReadTo' = ReadTo
  BY Zenon DEF ReadTo
<1>3. Said' = Said
  BY <1>2, Zenon DEF Said
<1> QED
  BY <1>1, <1>2, <1>3

LEMMA EnterReads ==
  ASSUME ITypes, Enter
  PROVE  IRead'
<1>1. SUFFICES ASSUME phase' = "parsing", WellFormed' PROVE ReadSoFar'
  BY DEF IRead
<1>2. line' = line /\ pos' = 1 /\ pages' = <<>>
  BY DEF Enter
<1>3. WellFormed /\ ReadTo' = ReadTo
  BY <1>1, <1>2, SameLine
<1>4. ReadTo[0] = [list |-> <<>>, number |-> 0]
  BY <1>3, ReadFacts DEF ITypes
<1>5. (ReadTo[pos - 1])' = ReadTo[0]
  BY <1>2, <1>3
<1> QED
  BY <1>2, <1>4, <1>5, NotedZero DEF ReadSoFar, Kept

(* One more number, and the parser stands behind it. *)
LEMMA ParseNumberReads ==
  ASSUME ITypes, IRead, ParseNumber, WellFormed
  PROVE  ReadSoFar' /\ pos' > pos
<1> DEFINE p == Past(Separators, pos)
<1>1. TypeOK /\ pos <= Len(line) + 1 /\ ReadSoFar /\ line' = line /\ p <= Len(line) /\ pos' = DigitsEnd(p)
  BY DEF ITypes, IRead, ParseNumber
<1>2. Len(line) \in Nat /\ pos \in 1..Len(line) + 1
  BY <1>1, LenProperties, SizeAssumption DEF TypeOK
<1>3. p >= pos
  BY <1>2, <1>1, PastFacts
<1>4. /\ p \in 1..Len(line) /\ line[p] \notin Separators
      /\ p = 1 \/ line[p - 1] \in Separators
      /\ ReadTo[p - 1] = [list |-> pages, number |-> 0]
  <2> HIDE DEF p
  <2>1. \A q : q = Past(Separators, pos) /\ q <= Len(line) =>
          /\ q \in 1..Len(line) /\ line[q] \notin Separators
          /\ q = 1 \/ line[q - 1] \in Separators
          /\ ReadTo[q - 1] = [list |-> pages, number |-> 0]
    BY <1>1, BeforeNumber
  <2> QED
    BY <1>1, <2>1 DEF p
<1>5. pages' = IF Aligned(Number(p)) = 0 THEN pages ELSE Append(pages, Aligned(Number(p)))
  BY DEF ParseNumber
<1> HIDE DEF p
<1>6. /\ DigitsEnd(p) > p
      /\ DigitsEnd(p) <= Len(line) => line[DigitsEnd(p)] \in Separators
  BY <1>1, <1>4, NumberEnds
<1>7. DigitsEnd(p) \in 1..Len(line) + 1
  <2>1. DigitsAt(p) \in p..Len(line) + 1 /\ DigitsEnd(p) \in DigitsAt(p)..Len(line) + 1
    BY <1>1, <1>4, DigitsFacts
  <2> QED
    BY <1>2, <1>4, <2>1
<1>8. ReadTo[DigitsEnd(p) - 1] = [list |-> pages, number |-> Number(p)]
  BY <1>1, <1>4, OneNumber
<1>9. pages' = Kept(ReadTo[DigitsEnd(p) - 1])
  <2>1. Number(p) \in Words /\ pages \in Seq(Addresses)
    BY <1>1, <1>4, NumberType DEF Words, TypeOK
  <2>2. Noted(pages, Number(p)) = IF Aligned(Number(p)) = 0 THEN pages ELSE Append(pages, Aligned(Number(p)))
    BY <2>1, NotedType
  <2> QED
    BY <1>5, <1>8, <2>2 DEF Kept
<1>10. ReadTo' = ReadTo
  BY <1>1, SameLine
<1>11. (Kept(ReadTo[pos - 1]))' = Kept(ReadTo[pos' - 1])
  BY <1>10 DEF Kept
<1>12. pos' = 1 \/ pos' = Len(line) + 1 \/ line[pos'] \in Separators
  BY <1>1, <1>2, <1>6, <1>7
<1>13. pages' = Kept(ReadTo[pos' - 1])
  BY <1>1, <1>9
<1>14. ReadSoFar'
  BY <1>1, <1>11, <1>12, <1>13 DEF ReadSoFar, Separators
<1>15. pos' > pos
  BY <1>1, <1>2, <1>3, <1>4, <1>6, <1>7
<1> QED
  BY <1>14, <1>15

LEMMA SavedStep == SavedInv /\ [Next]_vars => SavedInv'
<1> SUFFICES ASSUME SavedInv, [Next]_vars PROVE SavedInv'
  OBVIOUS
<1>1. ITypes /\ IRead /\ SavesWhatWasTyped
  BY DEF SavedInv
<1>2. ITypes'
  BY <1>1, TypesStep
<1>3. SUFFICES IRead' /\ SavesWhatWasTyped'
  BY <1>2 DEF SavedInv
<1>4. CASE phase' \notin {"parsing", "confirm"}
  BY <1>4 DEF IRead, SavesWhatWasTyped
<1>5. CASE Enter
  <2>1. phase' # "confirm"
    BY <1>5 DEF Enter
  <2> QED
    BY <1>1, <1>5, <2>1, EnterReads DEF SavesWhatWasTyped
<1>6. CASE ParseNumber
  <2>1. phase' = "parsing" /\ line' = line
    BY <1>6 DEF ParseNumber
  <2>2. WellFormed' => WellFormed
    BY <2>1, SameLine
  <2>3. WellFormed => ReadSoFar'
    BY <1>1, <1>6, ParseNumberReads
  <2> QED
    BY <2>1, <2>2, <2>3 DEF IRead, SavesWhatWasTyped
<1>7. CASE ParseEnd
  <2>1. phase = "parsing" /\ phase' # "parsing" /\ line' = line /\ pages' = pages
        /\ (Len(pages) = PagesCap \/ Past(Separators, pos) > Len(line))
    BY <1>7 DEF ParseEnd
  <2>2. WellFormed => pages = Said
    BY <1>1, <2>1, EverythingSaid DEF ITypes, IRead
  <2>3. (WellFormed' <=> WellFormed) /\ Said' = Said
    BY <2>1, SameLine
  <2> QED
    BY <2>1, <2>2, <2>3 DEF IRead, SavesWhatWasTyped
<1>8. CASE UNCHANGED vars
  <2>1. phase' = phase /\ line' = line /\ pos' = pos /\ pages' = pages
    BY <1>8 DEF vars
  <2>2. (WellFormed' <=> WellFormed) /\ ReadTo' = ReadTo /\ Said' = Said
    BY <2>1, SameLine
  <2>3. ReadSoFar' <=> ReadSoFar
    BY <2>1, <2>2 DEF ReadSoFar, Kept, Separators
  <2> QED
    BY <1>1, <2>1, <2>2, <2>3 DEF IRead, SavesWhatWasTyped
<1>9. CASE phase' \in {"parsing", "confirm"} /\ Next
  <2>1. Enter \/ ParseNumber \/ ParseEnd
    BY <1>9 DEF Next, RetryYes, RetryNo, Type, Backspace, Enter, Escape, Confirm, Restart, Begin
  <2> QED
    BY <1>5, <1>6, <1>7, <2>1
<1> QED
  BY <1>4, <1>8, <1>9

LEMMA SavedInvariant == Spec => []SavedInv
<1>1. Init => SavedInv
  <2> SUFFICES ASSUME Init PROVE SavedInv
    OBVIOUS
  <2>1. phase \notin {"parsing", "confirm"}
    BY DEF Init, Begin
  <2> QED
    BY <2>1, TypesInit DEF SavedInv, IRead, SavesWhatWasTyped
<1> QED
  BY <1>1, SavedStep, PTL DEF Spec

(* What is confirmed and saved is what a well-formed line says, read once    *)
(* from left to right: separators in any number, prefixes, zeros, digits     *)
(* that leave the word and the full array change nothing about that.         *)
THEOREM SavedAsTyped == Spec => []SavesWhatWasTyped
<1>1. SavedInv => SavesWhatWasTyped
  BY DEF SavedInv
<1> QED
  BY <1>1, SavedInvariant, PTL

(* Each round of the parser on a well-formed line gets further, so that it   *)
(* cannot make more rounds than the line has characters.                     *)
WellFormedAdvances == [][phase = "parsing" /\ WellFormed /\ phase' = "parsing" => pos' > pos]_vars

THEOREM EveryRoundAdvances == Spec => WellFormedAdvances
<1>1. SavedInv /\ [Next]_vars =>
        [phase = "parsing" /\ WellFormed /\ phase' = "parsing" => pos' > pos]_vars
  <2> SUFFICES ASSUME SavedInv, Next, phase = "parsing", WellFormed, phase' = "parsing" PROVE pos' > pos
    OBVIOUS
  <2>1. ParseNumber
    BY DEF Next, RetryYes, RetryNo, Type, Backspace, Enter, Escape, ParseEnd, Confirm, Restart
  <2> QED
    BY <2>1, ParseNumberReads DEF SavedInv
<1> QED
  BY <1>1, SavedInvariant, PTL DEF Spec, WellFormedAdvances
=============================================================================
