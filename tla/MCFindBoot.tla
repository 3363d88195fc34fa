------------------------------ MODULE MCFindBoot ------------------------------
(* Small machines for FindBoot: every sequence of up to three volumes of    *)
(* thirteen kinds.                                                              *)
EXTENDS FindBoot, SequencesExt

S == <<"Core", "boot.efi">>
MCAlts == <<S, <<"boot.efi">>, <<"recovery", "boot.efi">>>>

(* The names below d, in the order of the files of a volume. *)
Listing(files, d) ==
  LET Add(names, f) ==
        IF Len(f) > Len(d) /\ SubSeq(f, 1, Len(d)) = d /\ ~Contains(names, f[Len(d) + 1])
        THEN Append(names, f[Len(d) + 1]) ELSE names
  IN FoldLeft(Add, <<>>, files)
Dirs(files) == {<<>>} \cup UNION {{SubSeq(f, 1, n) : n \in 1..Len(f) - 1} : f \in ToSet(files)}
Vol(files, loads) ==
  [removable |-> FALSE, opens |-> TRUE, dirBit |-> TRUE, doubled |-> TRUE, blessed |-> <<>>,
   loads |-> loads, lists |-> [d \in Dirs(files) |-> Listing(files, d)]]

Grub == <<"EFI", "grub">>
Usb     == [Vol(<<Grub>>, {Grub}) EXCEPT !.removable = TRUE]
UsbMac  == [Vol(<<Grub, S>>, {Grub, S}) EXCEPT !.removable = TRUE]
Esp     == Vol(<<Grub>>, {Grub})
System  == Vol(<<S>>, {S})
Damaged == Vol(<<S, <<"c", "x", "boot.efi">>>>, {<<"c", "x", "boot.efi">>})
Preboot == [Vol(<<<<"a">>, <<"b">> \o S>>, {<<"b">> \o S}) EXCEPT !.dirBit = FALSE]
Nested  == [Vol(<<<<"a", "x">>, <<"b", "y">>, <<"b", "c">> \o S>>, {<<"b", "c">> \o S})
            EXCEPT !.dirBit = FALSE]
Blessed == [Vol(<<<<"a", "b", "x">>>>, {<<"a", "b", "x">>}) EXCEPT !.blessed = <<"a", "b", "x">>]
Strict  == [Vol(<<<<"a">>, <<"b">> \o S>>, {<<"b">> \o S}) EXCEPT !.doubled = FALSE]
Many    == Vol(<<<<"a", "x">>, <<"b">>, <<"c">> \o S>>, {<<"c">> \o S})
Deep    == Vol(<<<<"a", "b", "c", "x", "y">>, <<"a", "b", "c", "boot.efi">>>>,
               {<<"a", "b", "c", "boot.efi">>})
Linux   == Vol(<<<<"x">>, <<"a", "b">>>>, {<<"x">>})
Kinds   == {Usb, UsbMac, Esp, Linux, System, Damaged, Preboot, Nested, Blessed, Many, Deep,
            Strict, [System EXCEPT !.opens = FALSE]}

MCNames       == {"Core", "boot.efi", "recovery", "EFI", "grub", "a", "b", "c", "x", "y"}
MCVolumeLists == UNION {[1..n -> Kinds] : n \in 0..3}
Option(skip, path) == [skip |-> skip, path |-> path]
MCJunk        == {<<>>, <<"x", "boot.efi">>}
MCBootOrders  == {<<Option(TRUE, Grub), Option(FALSE, <<>>), Option(FALSE, <<"x">>), Option(FALSE, Grub)>>,
                  <<Option(FALSE, Grub), Option(FALSE, <<"x">>)>>}
=============================================================================
