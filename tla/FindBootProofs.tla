---------------------------- MODULE FindBootProofs ----------------------------
(***************************************************************************)
(* Proofs about FindBoot, for every machine: the scan misses no known      *)
(* place of boot.efi, prefers internal volumes, loads one image and ends.  *)
(***************************************************************************)
EXTENDS FindBoot, SequenceTheorems, TLAPS

Inside == phase \in {"blessed", "alts", "child", "grandchild", "hunt"}

(* Where the search stands fits its phase. *)
IPlace ==
  /\ Inside => vol <= Len(vols) /\ ~Skipped(vol) /\ vols[vol].opens
  /\ phase = "grandchild" => child <= Len(names1)
  /\ phase = "hunt" => /\ stack # <<>>
                       /\ \A s \in 1..Len(stack) : /\ stack[s].dir \in DOMAIN vols[vol].lists
                                                   /\ stack[s].next >= 1
  /\ phase = "search" => opt <= Len(order)
ITypes == TypeOK /\ IPlace

-----------------------------------------------------------------------------
(* What the assumptions say of one handle, one option and one listing. *)
LEMMA VolumeFacts ==
  ASSUME TypeOK
  PROVE  /\ Len(vols) \in Nat /\ Len(order) \in Nat
         /\ \A i \in 1..Len(vols) : IsVolume(vols[i])
         /\ \A i \in 1..Len(order) : IsOption(order[i])
  <1>1. vols \in Seq({vols[i] : i \in 1..Len(vols)}) /\ order \in Seq({order[i] : i \in 1..Len(order)})
    BY MachineAssumption DEF TypeOK
  <1>2. Len(vols) \in Nat /\ Len(order) \in Nat
    BY <1>1
  <1> QED BY <1>2, MachineAssumption DEF TypeOK

LEMMA AltFacts ==
  /\ Len(Alts) \in Nat \ {0}
  /\ \A k \in 1..Len(Alts) : Alts[k] \in Paths
  BY LayoutAssumption

(* list_child_dirs returns the first names of a directory. *)
LEMMA ListingFacts ==
  ASSUME TypeOK, NEW i \in 1..Len(vols), NEW d \in DOMAIN vols[i].lists
  PROVE  /\ ListChildDirs(i, d) \in Seq(Names)
         /\ Len(ListChildDirs(i, d)) = Shorter(Len(vols[i].lists[d]), MaxLevelDirs)
         /\ Len(ListChildDirs(i, d)) <= MaxLevelDirs
         /\ \A k \in 1..Len(ListChildDirs(i, d)) : ListChildDirs(i, d)[k] = vols[i].lists[d][k]
         /\ FirstOf(i, d) = {ListChildDirs(i, d)[k] : k \in 1..Len(ListChildDirs(i, d))}
  <1> DEFINE all == vols[i].lists[d]
             n   == Shorter(Len(all), MaxLevelDirs)
             sub == SubSeq(all, 1, n)
  <1>1. all \in Seq(Names) /\ MaxLevelDirs \in Nat
    BY VolumeFacts, LayoutAssumption DEF IsVolume
  <1>2. Len(all) \in Nat
    BY <1>1
  <1>3. n \in Nat /\ n <= Len(all) /\ n <= MaxLevelDirs
    BY <1>1, <1>2 DEF Shorter
  <1> HIDE DEF n, all
  <1>4. sub \in Seq(Names) /\ Len(sub) = n
    BY <1>1, <1>2, <1>3
  <1>5. \A k \in 1..n : sub[k] = all[k]
    BY <1>1, <1>2, <1>3
  <1>6. ListChildDirs(i, d) = sub
    BY DEF ListChildDirs, n, all
  <1>7. FirstOf(i, d) = {all[k] : k \in 1..n}
    BY DEF FirstOf, n, all
  <1>8. {all[k] : k \in 1..n} = {sub[k] : k \in 1..n}
    BY <1>5
  <1> HIDE DEF sub
  <1>9. FirstOf(i, d) = {ListChildDirs(i, d)[k] : k \in 1..Len(ListChildDirs(i, d))}
    BY <1>4, <1>6, <1>7, <1>8
  <1>10. n = Shorter(Len(vols[i].lists[d]), MaxLevelDirs) /\ all = vols[i].lists[d]
    BY DEF n, all
  <1> QED BY <1>3, <1>4, <1>5, <1>6, <1>9, <1>10
-----------------------------------------------------------------------------
(* Types and places. *)
LEMMA TypesInit == Init => ITypes
  <1> SUFFICES ASSUME Init PROVE ITypes
    OBVIOUS
  <1>0. Len(vols) \in Nat /\ Len(order) \in Nat
    <2>1. vols \in Seq({vols[i] : i \in 1..Len(vols)}) /\ order \in Seq({order[i] : i \in 1..Len(order)})
      BY MachineAssumption DEF Init
    <2> QED BY <2>1
  <1>1. TypeOK
    BY <1>0, AltFacts, LayoutAssumption DEF TypeOK, Init, NoImage, Paths
  <1>2. IPlace
    BY DEF IPlace, Inside, Init
  <1> QED BY <1>1, <1>2 DEF ITypes

(* The volume under search, its root and the entry the hunt looks at. *)
LEMMA InsideFacts ==
  ASSUME ITypes, Inside
  PROVE  /\ vol \in 1..Len(vols)
         /\ IsVolume(vols[vol])
         /\ <<>> \in DOMAIN vols[vol].lists
  <1>1. vol \in 1..Len(vols)
    BY VolumeFacts DEF ITypes, IPlace, TypeOK
  <1> QED BY <1>1, VolumeFacts DEF ITypes, IsVolume

LEMMA LastElement ==
  ASSUME NEW T, NEW s \in Seq(T), s # <<>>
  PROVE  Len(s) \in Nat \ {0} /\ s[Len(s)] \in T
  <1>1. Len(s) \in Nat /\ Len(s) # 0
    BY EmptySeq
  <1> QED BY <1>1

LEMMA HuntFacts ==
  ASSUME ITypes, phase = "hunt"
  PROVE  /\ Len(stack) \in Nat \ {0}
         /\ Top.dir \in DOMAIN vols[vol].lists /\ Top.dir \in Paths
         /\ Top.next \in Nat \ {0}
         /\ vols[vol].lists[Top.dir] \in Seq(Names)
         /\ Top.next <= Len(vols[vol].lists[Top.dir]) => Entry \in Paths /\ Len(Entry) > 0
  <1>1. stack \in Seq([dir : Paths, next : Nat]) /\ stack # <<>>
    BY DEF ITypes, IPlace, TypeOK
  <1>2. Len(stack) \in Nat \ {0} /\ Top \in [dir : Paths, next : Nat]
    BY <1>1, LastElement DEF Top
  <1>3. Top.dir \in DOMAIN vols[vol].lists /\ Top.next >= 1
    BY <1>2 DEF ITypes, IPlace, Top
  <1>4. vols[vol].lists[Top.dir] \in Seq(Names)
    BY <1>3, InsideFacts DEF Inside, IsVolume
  <1>5. ASSUME Top.next <= Len(vols[vol].lists[Top.dir]) PROVE Entry \in Paths /\ Len(Entry) > 0
    <2> DEFINE name == vols[vol].lists[Top.dir][Top.next]
    <2>1. name \in Names
      BY <1>2, <1>3, <1>4, <1>5
    <2> HIDE DEF name
    <2>2. Append(Top.dir, name) \in Seq(Names) /\ Len(Append(Top.dir, name)) = Len(Top.dir) + 1
      BY <1>2, <2>1 DEF Paths
    <2>3. Len(Top.dir) \in Nat
      BY <1>2 DEF Paths
    <2> QED BY <2>2, <2>3 DEF Entry, Paths, name
  <1> QED BY <1>2, <1>3, <1>4, <1>5

(* A path the scan hands to try_path. *)
LEMMA LoadTypes ==
  ASSUME ITypes, Inside \/ phase = "search", vol <= Len(vols), NEW p \in Paths, Load(p)
  PROVE  image' \in [vol : 0..Len(vols), path : Paths] /\ phase' = "loaded"
  BY VolumeFacts DEF Load, ITypes, TypeOK

Frame == [dir : Paths, next : Nat]

(* The parts of TypeOK, by the variables a step changes together. *)
TMachine == vols \in VolumeLists /\ order \in BootOrders /\ own \in 0..Len(vols)
TPhase == phase \in {"probe", "blessed", "alts", "child", "grandchild", "hunt", "options",
                     "search", "loaded", "started", "returned"}
TCounters ==
  /\ pass \in 0..1 /\ vol \in 1..Len(vols) + 1
  /\ opt \in 1..Len(order) + 1 /\ alt \in 1..Len(Alts) + 1
TLists ==
  /\ names1 \in Seq(Names) /\ Len(names1) <= MaxLevelDirs /\ child \in 1..Len(names1) + 1
  /\ names2 \in Seq(Names) /\ Len(names2) <= MaxLevelDirs /\ grand \in 1..Len(names2) + 1
TStack == stack \in Seq(Frame) /\ Len(stack) <= MaxDepth + 1
TImage == image \in [vol : 0..Len(vols), path : Paths]

LEMMA TypeParts ==
  /\ TypeOK <=> TMachine /\ TPhase /\ TCounters /\ TLists /\ TStack /\ TImage
  /\ TypeOK' <=> TMachine' /\ TPhase' /\ TCounters' /\ TLists' /\ TStack' /\ TImage'
  BY DEF TypeOK, TMachine, TPhase, TCounters, TLists, TStack, TImage, Frame

(* No step changes the machine. *)
LEMMA MachineFixed ==
  ASSUME [Next]_vars
  PROVE  vols' = vols /\ own' = own /\ order' = order
  BY DEF Next, ProbeVolume, EndOfPass, TryBlessed, TryAlt, ListRoot, TryChildAlt, ListChild,
         TryGrandchild, NextChild, StartHunt, HuntDir, HuntFile, HuntUp, NextOption, TryVolume,
         OnNoVolume, GiveUp, Start, vars, machine

LEMMA PhaseStep ==
  ASSUME TypeOK, [Next]_vars
  PROVE  TPhase'
  BY DEF TypeOK, TPhase, Next, ProbeVolume, EndOfPass, TryBlessed, TryAlt, ListRoot, TryChildAlt,
         ListChild, TryGrandchild, NextChild, StartHunt, HuntDir, HuntFile, HuntUp, HuntEnds, Load,
         NextOption, TryVolume, OnNoVolume, GiveUp, Start, vars

LEMMA CountersStep ==
  ASSUME ITypes, [Next]_vars
  PROVE  TCounters'
  <1>1. /\ Len(vols) \in Nat /\ Len(order) \in Nat /\ Len(Alts) \in Nat \ {0}
        /\ TCounters /\ IPlace
    BY VolumeFacts, AltFacts, TypeParts DEF ITypes
  <1>2. vols' = vols /\ order' = order
    BY MachineFixed
  <1>3. CASE ProbeVolume \/ EndOfPass
    BY <1>1, <1>2, <1>3 DEF TCounters, ProbeVolume, EndOfPass, scan
  <1>4. CASE TryBlessed \/ TryAlt \/ ListRoot \/ TryChildAlt \/ ListChild
    BY <1>1, <1>2, <1>4 DEF TCounters, TryBlessed, TryAlt, ListRoot, TryChildAlt, ListChild
  <1>5. CASE TryGrandchild \/ NextChild \/ StartHunt
    BY <1>1, <1>2, <1>5 DEF TCounters, TryGrandchild, NextChild, StartHunt
  <1>6. CASE HuntDir \/ HuntFile \/ HuntUp
    BY <1>1, <1>2, <1>6, SMTT(30) DEF TCounters, IPlace, Inside, HuntDir, HuntFile, HuntUp, HuntEnds
  <1>7. CASE NextOption \/ TryVolume \/ OnNoVolume
    BY <1>1, <1>2, <1>7, SMTT(30) DEF TCounters, IPlace, NextOption, TryVolume, OnNoVolume, scan
  <1>8. CASE GiveUp \/ Start
    BY <1>1, <1>2, <1>8 DEF TCounters, GiveUp, Start, scan
  <1>9. CASE UNCHANGED vars
    BY <1>1, <1>2, <1>9 DEF TCounters, vars, scan
  <1> QED BY <1>3, <1>4, <1>5, <1>6, <1>7, <1>8, <1>9 DEF Next

LEMMA ListsStep ==
  ASSUME ITypes, [Next]_vars
  PROVE  TLists'
  <1>1. TLists /\ child \in Nat /\ grand \in Nat /\ Len(names1) \in Nat /\ Len(names2) \in Nat
    BY TypeParts DEF ITypes, TLists
  <1>2. CASE ListRoot
    <2>1. ListChildDirs(vol, <<>>) \in Seq(Names) /\ Len(ListChildDirs(vol, <<>>)) <= MaxLevelDirs
      BY <1>2, InsideFacts, ListingFacts DEF ListRoot, Inside, ITypes
    <2>2. /\ names1' = ListChildDirs(vol, <<>>) /\ child' = 1
          /\ names2' = names2 /\ grand' = grand
      BY <1>2 DEF ListRoot
    <2> QED BY <1>1, <2>1, <2>2 DEF TLists
  <1>3. CASE ListChild
    <2> DEFINE d == <<names1[child]>>
    <2>1. CASE vols[vol].doubled
      <3>1. PICK s : s \in Opened(d) /\ names2' = s
        BY <1>3, <2>1 DEF ListChild
      <3>2. s \in Seq(Names) /\ Len(s) <= MaxLevelDirs
        <4>1. CASE d \in DOMAIN vols[vol].lists
          BY <1>3, <3>1, <4>1, InsideFacts, ListingFacts DEF ListChild, Inside, ITypes, Opened
        <4>2. CASE d \notin DOMAIN vols[vol].lists
          BY <3>1, <4>2, LayoutAssumption DEF Opened
        <4> QED BY <4>1, <4>2
      <3>3. grand' = 1 /\ UNCHANGED <<names1, child>>
        BY <1>3, <2>1 DEF ListChild
      <3> HIDE DEF d
      <3> QED BY <1>1, <3>1, <3>2, <3>3 DEF TLists
    <2>2. CASE ~vols[vol].doubled
      <3>1. child <= Len(names1) /\ child' = child + 1 /\ UNCHANGED <<names1, names2, grand>>
        BY <1>3, <2>2 DEF ListChild
      <3> QED BY <1>1, <3>1 DEF TLists
    <2> QED BY <2>1, <2>2
  <1>4. CASE TryGrandchild
    <2>1. /\ grand <= Len(names2) /\ grand' \in {grand, grand + 1}
          /\ UNCHANGED <<names1, names2, child>>
      BY <1>4 DEF TryGrandchild
    <2> QED BY <1>1, <2>1 DEF TLists
  <1>5. CASE NextChild
    <2>1. child <= Len(names1) /\ child' = child + 1 /\ UNCHANGED <<names1, names2, grand>>
      BY <1>5 DEF NextChild, ITypes, IPlace
    <2> QED BY <1>1, <2>1 DEF TLists
  <1>6. CASE UNCHANGED <<names1, names2, child, grand>>
    BY <1>1, <1>6 DEF TLists
  <1>7. ASSUME ~(ListRoot \/ ListChild \/ TryGrandchild \/ NextChild)
        PROVE  UNCHANGED <<names1, names2, child, grand>>
    BY <1>7 DEF Next, ProbeVolume, EndOfPass, TryBlessed, TryAlt, TryChildAlt,
         StartHunt, HuntDir, HuntFile, HuntUp, NextOption, TryVolume, OnNoVolume, GiveUp, Start,
         vars, scan
  <1> QED BY <1>2, <1>3, <1>4, <1>5, <1>6, <1>7

(* What a step of the hunt leaves on its stack. *)
Frames(s) ==
  /\ s \in Seq(Frame) /\ Len(s) <= MaxDepth + 1
  /\ \A k \in 1..Len(s) : s[k].dir \in DOMAIN vols[vol].lists /\ s[k].next >= 1

LEMMA AdvancedFacts ==
  ASSUME ITypes, phase = "hunt"
  PROVE  Frames(Advanced) /\ Len(Advanced) = Len(stack)
  <1>1. /\ stack \in Seq(Frame) /\ Len(stack) \in Nat \ {0}
        /\ Len(stack) <= MaxDepth + 1
        /\ \A s \in 1..Len(stack) : stack[s].dir \in DOMAIN vols[vol].lists /\ stack[s].next >= 1
    BY HuntFacts DEF ITypes, TypeOK, IPlace, Frame
  <1>2. PICK n \in Nat \ {0} : n = Len(stack)
    BY <1>1
  <1>3. Advanced = [stack EXCEPT ![n] = [stack[n] EXCEPT !.next = @ + 1]]
    BY <1>2 DEF Advanced
  <1>4. PICK e : e = [stack[n] EXCEPT !.next = @ + 1]
    OBVIOUS
  <1>5. e \in Frame /\ e.dir = stack[n].dir /\ e.next = stack[n].next + 1
    <2>1. stack[n] \in Frame
      BY <1>1, <1>2, ElementOfSeq
    <2>2. e = [dir |-> stack[n].dir, next |-> stack[n].next + 1]
      BY <1>4, <2>1 DEF Frame
    <2> QED BY <2>1, <2>2 DEF Frame
  <1>6. Advanced = [stack EXCEPT ![n] = e]
    BY <1>3, <1>4
  <1>7. Advanced \in Seq(Frame) /\ Len(Advanced) = n
    BY <1>1, <1>2, <1>5, <1>6
  <1>8. ASSUME NEW k \in 1..n PROVE Advanced[k] = IF k = n THEN e ELSE stack[k]
    BY <1>1, <1>2, <1>6, <1>8
  <1>9. ASSUME NEW k \in 1..n
        PROVE  Advanced[k].dir \in DOMAIN vols[vol].lists /\ Advanced[k].next >= 1
    <2>1. stack[k] \in Frame
      BY <1>1, <1>2, ElementOfSeq
    <2>4. stack[k].dir \in DOMAIN vols[vol].lists /\ stack[k].next >= 1 /\ stack[k].next \in Nat
      BY <1>1, <1>2, <2>1 DEF Frame
    <2>2. CASE k = n
      BY <1>5, <1>8, <2>2, <2>4
    <2>3. CASE k # n
      BY <1>8, <2>3, <2>4
    <2> QED BY <2>2, <2>3
  <1> QED BY <1>1, <1>2, <1>7, <1>9 DEF Frames
LEMMA HuntFrames == ASSUME ITypes, phase = "hunt" PROVE Frames(stack)
  BY DEF ITypes, TypeOK, IPlace, Frames, Frame

LEMMA StackStep ==
  ASSUME ITypes, [Next]_vars
  PROVE  TStack' /\ (phase' = "hunt" => vol' = vol /\ stack' # <<>> /\ Frames(stack'))
  <1>0. TStack /\ MaxDepth \in Nat /\ <<>> \in Seq(Frame) /\ Len(<<>>) = 0
    BY TypeParts, LayoutAssumption DEF ITypes
  <1>1. CASE StartHunt
    <2>1. Frames(<<[dir |-> <<>>, next |-> 1]>>) /\ <<[dir |-> <<>>, next |-> 1]>> # <<>>
      BY <1>0, <1>1, InsideFacts DEF StartHunt, Inside, Frames, Frame, Paths
    <2> QED BY <1>1, <2>1 DEF StartHunt, Frames, TStack
  <1>2. CASE HuntDir
    <2> DEFINE e == [dir |-> Entry, next |-> 1]
    <2>1. phase = "hunt" /\ Frames(Advanced) /\ Len(Advanced) = Len(stack) /\ Len(stack) \in Nat \ {0}
      BY <1>2, AdvancedFacts, HuntFacts DEF HuntDir
    <2>2. e \in Frame /\ e.dir \in DOMAIN vols[vol].lists /\ e.next >= 1
      BY <1>2, HuntFacts DEF HuntDir, EntryIsDir, Frame
    <2>3. stack' = IF Len(stack) <= MaxDepth THEN Append(Advanced, e) ELSE Advanced
      BY <1>2 DEF HuntDir
    <2> HIDE DEF e
    <2>4. ASSUME Len(stack) <= MaxDepth PROVE Frames(Append(Advanced, e))
      BY <1>0, <2>1, <2>2, <2>4 DEF Frames
    <2>5. Frames(stack') /\ Len(stack') # 0
      BY <2>1, <2>3, <2>4 DEF Frames
    <2>6. stack' # <<>> /\ TStack' /\ vol' = vol
      BY <1>0, <1>2, <2>5 DEF Frames, TStack, HuntDir
    <2> QED BY <2>5, <2>6
  <1>3. CASE HuntFile
    <2>1. CASE Entry[Len(Entry)] # BootEfi
      <3>1. stack' = Advanced /\ vol' = vol
        BY <1>3, <2>1 DEF HuntFile
      <3>2. Frames(Advanced) /\ Len(Advanced) # 0
        BY <1>3, AdvancedFacts, HuntFacts DEF HuntFile
      <3> QED BY <1>0, <3>1, <3>2 DEF Frames, TStack
    <2>2. CASE Entry[Len(Entry)] = BootEfi
      <3>1. stack' = <<>> /\ phase' # "hunt"
        BY <1>3, <2>2 DEF HuntFile, HuntEnds, Load
      <3> QED BY <1>0, <3>1 DEF TStack
    <2> QED BY <2>1, <2>2
  <1>4. CASE HuntUp
    <2> DEFINE up == SubSeq(stack, 1, Len(stack) - 1)
    <2>1. Frames(stack) /\ Len(stack) \in Nat \ {0}
      BY <1>4, HuntFrames, HuntFacts DEF HuntUp
    <2>0. \A k \in 1..Len(stack) - 1 : stack[k] \in Frame
      BY <2>1, ElementOfSeq DEF Frames
    <2>2. up \in Seq(Frame) /\ Len(up) = Len(stack) - 1
      <3>1. PICK n \in Nat : n = Len(stack) - 1
        BY <2>1
      <3>2. \A k \in 1..n : stack[k] \in Frame
        BY <2>0, <3>1
      <3>3. SubSeq(stack, 1, n) \in Seq(Frame) /\ Len(SubSeq(stack, 1, n)) = n
        BY <3>2, SubSeqProperties
      <3> QED BY <3>1, <3>3
    <2>3. \A k \in 1..Len(stack) - 1 : up[k] = stack[k]
      BY <2>1 DEF Frames
    <2>4. stack' = up /\ (Len(stack) = 1 => phase' = "probe") /\ (Len(stack) # 1 => vol' = vol)
      BY <1>4 DEF HuntUp, HuntEnds
    <2> HIDE DEF up
    <2>5. Frames(up)
      <3>1. Len(up) <= MaxDepth + 1
        BY <1>0, <2>1, <2>2 DEF Frames
      <3>2. \A k \in 1..Len(up) : up[k].dir \in DOMAIN vols[vol].lists /\ up[k].next >= 1
        BY <2>1, <2>2, <2>3 DEF Frames
      <3> QED BY <2>2, <3>1, <3>2 DEF Frames
    <2>6. Len(stack) # 1 => up # <<>>
      BY <1>0, <2>1, <2>2
    <2> QED BY <2>4, <2>5, <2>6 DEF Frames, TStack
  <1>5. CASE UNCHANGED <<stack, phase, vol>>
    <2> QED BY <1>0, <1>5, HuntFrames DEF TStack, ITypes, IPlace
  <1>6. CASE UNCHANGED stack /\ phase' # "hunt"
    BY <1>0, <1>6 DEF TStack
  <1>7. ASSUME ~(StartHunt \/ HuntDir \/ HuntFile \/ HuntUp)
        PROVE  UNCHANGED stack /\ (phase' # "hunt" \/ UNCHANGED <<phase, vol>>)
    BY <1>7 DEF Next, ProbeVolume, EndOfPass, TryBlessed, TryAlt, ListRoot, TryChildAlt, ListChild,
         TryGrandchild, NextChild, NextOption, TryVolume, OnNoVolume, GiveUp, Start, Load, vars, scan
  <1> QED BY <1>1, <1>2, <1>3, <1>4, <1>5, <1>6, <1>7
LEMMA ImageStep ==
  ASSUME ITypes, [Next]_vars
  PROVE  TImage'
  <1>1. TImage /\ vols' = vols /\ Len(vols) \in Nat /\ vol \in Nat \ {0}
    BY TypeParts, VolumeFacts, MachineFixed DEF ITypes, TypeOK
  <1>2. ASSUME NEW p \in Paths, Load(p), vol <= Len(vols) PROVE TImage'
    BY <1>1, <1>2 DEF Load, TImage
  <1>3. CASE UNCHANGED image
    BY <1>1, <1>3 DEF TImage
  <1>4. Inside => vol <= Len(vols)
    BY DEF ITypes, IPlace
  <1>5. CASE TryBlessed
    <2>1. vols[vol].blessed \in Paths /\ vol <= Len(vols)
      BY <1>4, <1>5, InsideFacts DEF TryBlessed, Inside, IsVolume
    <2>2. Load(vols[vol].blessed) \/ UNCHANGED image
      BY <1>5 DEF TryBlessed
    <2> QED BY <1>2, <1>3, <2>1, <2>2
  <1>6. CASE TryAlt
    <2>1. Alts[alt] \in Paths /\ vol <= Len(vols)
      BY <1>4, <1>6, AltFacts DEF TryAlt, Inside, ITypes, TypeOK
    <2>2. Load(Alts[alt]) \/ UNCHANGED image
      BY <1>6 DEF TryAlt
    <2> QED BY <1>2, <1>3, <2>1, <2>2
  <1>7. CASE TryChildAlt
    <2> DEFINE p == <<names1[child]>> \o Alts[alt]
    <2>1. names1[child] \in Names /\ Alts[alt] \in Seq(Names) /\ vol <= Len(vols)
      BY <1>4, <1>7, AltFacts, SMTT(30) DEF TryChildAlt, Inside, ITypes, TypeOK, Paths
    <2>2. p \in Paths
      BY <2>1 DEF Paths
    <2>3. Load(p) \/ UNCHANGED image
      BY <1>7 DEF TryChildAlt
    <2> HIDE DEF p
    <2> QED BY <1>2, <1>3, <2>1, <2>2, <2>3
  <1>8. CASE TryGrandchild
    <2> DEFINE p == <<names1[child], names2[grand]>> \o Alts[1]
    <2>1. vol <= Len(vols) /\ Alts[1] \in Seq(Names)
      BY <1>4, <1>8, AltFacts DEF TryGrandchild, Inside, Paths
    <2>2. names1[child] \in Names /\ names2[grand] \in Names
      BY <1>8, SMTT(30) DEF TryGrandchild, ITypes, TypeOK, IPlace
    <2>3. p \in Paths
      BY <2>1, <2>2 DEF Paths
    <2>4. Load(p) \/ UNCHANGED image
      BY <1>8 DEF TryGrandchild
    <2> HIDE DEF p
    <2> QED BY <1>2, <1>3, <2>1, <2>3, <2>4
  <1>9. CASE HuntFile
    <2>1. Entry \in Paths /\ vol <= Len(vols)
      BY <1>4, <1>9, HuntFacts DEF HuntFile, Inside
    <2>2. Load(Entry) \/ UNCHANGED image
      BY <1>9 DEF HuntFile
    <2> QED BY <1>2, <1>3, <2>1, <2>2
  <1>10. CASE TryVolume
    <2>1. order[opt].path \in Paths /\ vol <= Len(vols)
      BY <1>10, VolumeFacts DEF TryVolume, ITypes, TypeOK, IPlace, IsOption
    <2>2. Load(order[opt].path) \/ UNCHANGED image
      BY <1>10 DEF TryVolume
    <2> QED BY <1>2, <1>3, <2>1, <2>2
  <1>11. ASSUME ~(TryBlessed \/ TryAlt \/ TryChildAlt \/ TryGrandchild \/ HuntFile \/ TryVolume)
         PROVE  UNCHANGED image
    BY <1>11 DEF Next, ProbeVolume, EndOfPass, ListRoot, ListChild, NextChild, StartHunt, HuntDir,
         HuntUp, NextOption, OnNoVolume, GiveUp, Start, vars
  <1> QED BY <1>3, <1>5, <1>6, <1>7, <1>8, <1>9, <1>10, <1>11

LEMMA TypesStep ==
  ASSUME ITypes, [Next]_vars
  PROVE  ITypes'
  <1>1. TMachine' /\ vols' = vols /\ own' = own /\ order' = order
    BY MachineFixed, TypeParts DEF ITypes, TMachine
  <1>2. TypeOK'
    BY <1>1, PhaseStep, CountersStep, ListsStep, StackStep, ImageStep, TypeParts DEF ITypes
  <1>3. (Inside => vol <= Len(vols) /\ ~Skipped(vol) /\ vols[vol].opens)'
    <2>1. CASE ProbeVolume
      BY <1>1, <2>1 DEF ProbeVolume, Inside, Skipped
    <2>2. CASE Inside /\ UNCHANGED <<vol, pass>>
      BY <1>1, <2>2 DEF ITypes, IPlace, Skipped
    <2>3. ASSUME ~ProbeVolume, ~(Inside /\ UNCHANGED <<vol, pass>>) PROVE ~Inside' \/ UNCHANGED vars
      BY <2>3 DEF Next, EndOfPass, TryBlessed, TryAlt, ListRoot, TryChildAlt, ListChild,
         TryGrandchild, NextChild, StartHunt, HuntDir, HuntFile, HuntUp, HuntEnds, NextOption,
         TryVolume, OnNoVolume, GiveUp, Start, Load, Inside, vars
    <2>4. CASE UNCHANGED vars
      BY <1>1, <2>4 DEF vars, ITypes, IPlace, Inside, Skipped
    <2> QED BY <2>1, <2>2, <2>3, <2>4
  <1>4. (phase = "grandchild" => child <= Len(names1))'
    <2>1. CASE ListChild
      BY <2>1 DEF ListChild
    <2>2. CASE UNCHANGED <<phase, child, names1>>
      BY <2>2 DEF ITypes, IPlace
    <2>3. ASSUME ~ListChild, ~UNCHANGED <<phase, child, names1>> PROVE phase' # "grandchild"
      BY <2>3 DEF Next, ProbeVolume, EndOfPass, TryBlessed, TryAlt, ListRoot, TryChildAlt,
         TryGrandchild, NextChild, StartHunt, HuntDir, HuntFile, HuntUp, HuntEnds, NextOption,
         TryVolume, OnNoVolume, GiveUp, Start, Load, vars, scan
    <2> QED BY <2>1, <2>2, <2>3
  <1>5. (phase = "hunt" =>
           /\ stack # <<>>
           /\ \A s \in 1..Len(stack) : /\ stack[s].dir \in DOMAIN vols[vol].lists
                                       /\ stack[s].next >= 1)'
    BY <1>1, StackStep DEF Frames
  <1>6. (phase = "search" => opt <= Len(order))'
    BY <1>1 DEF Next, ProbeVolume, EndOfPass, TryBlessed, TryAlt, ListRoot, TryChildAlt, ListChild,
         TryGrandchild, NextChild, StartHunt, HuntDir, HuntFile, HuntUp, HuntEnds, NextOption,
         TryVolume, OnNoVolume, GiveUp, Start, Load, vars, ITypes, IPlace
  <1> QED BY <1>2, <1>3, <1>4, <1>5, <1>6 DEF ITypes, IPlace

(* The search never leaves its arrays, and the hunt its depth. *)
THEOREM SearchTypes == Spec => []TypeOK
  <1>1. Spec => []ITypes
    BY TypesInit, TypesStep, PTL DEF Spec
  <1> QED BY <1>1, PTL DEF ITypes
-----------------------------------------------------------------------------
(* An image is chosen once, by the step that leaves the search. *)
Chosen == phase \in {"loaded", "started", "returned"}
IImage == ~Chosen => image = NoImage

LEMMA ImageKept == IImage /\ [Next]_vars => IImage'
  BY DEF Next, ProbeVolume, EndOfPass, TryBlessed, TryAlt, ListRoot, TryChildAlt, ListChild,
         TryGrandchild, NextChild, StartHunt, HuntDir, HuntFile, HuntUp, HuntEnds, NextOption,
         TryVolume, OnNoVolume, GiveUp, Start, Load, vars, IImage, Chosen, NoImage

LEMMA ImageInv == Spec => []IImage
  <1>1. Init => IImage
    BY DEF Init, IImage
  <1> QED BY <1>1, ImageKept, PTL DEF Spec

(* At most one image is loaded, whatever it does. *)
THEOREM OneImageLoaded == Spec => OneImage
  <1>1. IImage /\ [Next]_vars => [image # NoImage => UNCHANGED image]_vars
    BY DEF Next, ProbeVolume, EndOfPass, TryBlessed, TryAlt, ListRoot, TryChildAlt, ListChild,
         TryGrandchild, NextChild, StartHunt, HuntDir, HuntFile, HuntUp, NextOption,
         TryVolume, OnNoVolume, GiveUp, Start, Load, vars, IImage, Chosen
  <1> QED BY <1>1, ImageInv, PTL DEF Spec, OneImage
-----------------------------------------------------------------------------
(* The fallback leaves no option behind that would load. *)
Passed(k) == \/ order[k].skip \/ order[k].path = <<>>
             \/ \A i \in 1..Len(vols) : ~OnVolume(i, order[k].path)
IOptions ==
  /\ phase = "probe" \/ Inside => opt = 1
  /\ phase \in {"options", "search"} => \A k \in 1..opt - 1 : Passed(k)
  /\ phase = "search" => \A i \in 1..vol - 1 : ~OnVolume(i, order[opt].path)

LEMMA OptionsStep ==
  ASSUME ITypes, IOptions, [Next]_vars
  PROVE  IOptions'
  <1>1. /\ vols' = vols /\ order' = order
        /\ vol \in 1..Len(vols) + 1 /\ opt \in 1..Len(order) + 1
        /\ Len(vols) \in Nat /\ Len(order) \in Nat
    BY MachineFixed, VolumeFacts DEF ITypes, TypeOK
  <1>2. \A k : Passed(k)' <=> Passed(k)
    BY <1>1 DEF Passed, OnVolume, Loads
  <1>3. \A i, p : OnVolume(i, p)' <=> OnVolume(i, p)
    BY <1>1 DEF OnVolume, Loads
  <1>4. CASE NextOption
    <2>1. order[opt].skip \/ order[opt].path = <<>> => Passed(opt)
      BY DEF Passed
    <2>2. \A k \in 1..opt - 1 : Passed(k)
      BY <1>4 DEF NextOption, IOptions
    <2>3. CASE order[opt].skip \/ order[opt].path = <<>>
      <3>1. opt' = opt + 1 /\ phase' = "options"
        BY <1>4, <2>3 DEF NextOption
      <3>2. \A k \in 1..opt' - 1 : Passed(k)
        BY <1>1, <2>1, <2>2, <2>3, <3>1
      <3> QED BY <1>2, <3>1, <3>2 DEF IOptions, Inside
    <2>4. CASE ~(order[opt].skip \/ order[opt].path = <<>>)
      <3>1. opt' = opt /\ phase' = "search" /\ vol' = 1
        BY <1>4, <2>4 DEF NextOption
      <3> QED BY <1>2, <2>2, <3>1 DEF IOptions, Inside
    <2> QED BY <2>3, <2>4
  <1>5. CASE TryVolume
    BY <1>1, <1>2, <1>3, <1>5 DEF TryVolume, Load, IOptions, Inside
  <1>6. CASE OnNoVolume
    <2>1. Passed(opt)
      BY <1>1, <1>6 DEF OnNoVolume, IOptions, Passed
    <2> QED BY <1>1, <1>2, <1>6, <2>1 DEF OnNoVolume, IOptions, Inside
  <1>7. CASE EndOfPass
    BY <1>1, <1>2, <1>7 DEF EndOfPass, IOptions, Inside
  <1>8. CASE UNCHANGED <<phase, vol, opt>>
    BY <1>1, <1>2, <1>3, <1>8 DEF IOptions, Inside
  <1>9. CASE (phase = "probe" \/ Inside) /\ UNCHANGED opt /\ phase' \notin {"options", "search"}
    BY <1>9 DEF IOptions
  <1>10. ASSUME ~(NextOption \/ TryVolume \/ OnNoVolume \/ EndOfPass)
         PROVE  \/ UNCHANGED <<phase, vol, opt>>
                \/ (phase = "probe" \/ Inside) /\ UNCHANGED opt /\ phase' \notin {"options", "search"}
                \/ phase' \in {"started", "returned"}
    BY <1>10 DEF Next, ProbeVolume, TryBlessed, TryAlt, ListRoot, TryChildAlt, ListChild,
         TryGrandchild, NextChild, StartHunt, HuntDir, HuntFile, HuntUp, HuntEnds, GiveUp, Start,
         Load, vars, Inside
  <1>11. CASE phase' \in {"started", "returned"}
    BY <1>11 DEF IOptions, Inside
  <1> QED BY <1>4, <1>5, <1>6, <1>7, <1>8, <1>9, <1>10, <1>11

(* Every option before the one that is loaded has been tried or passed over. *)
THEOREM OptionsInOrder == Spec => FirstOption
  <1>1. Init => IOptions
    BY DEF Init, IOptions, Inside
  <1>2. ITypes /\ IOptions /\ [Next]_vars =>
          [phase = "search" /\ phase' = "loaded" =>
             \A k \in 1..opt - 1 :
               \/ order[k].skip \/ order[k].path = <<>>
               \/ \A i \in 1..Len(vols) : ~OnVolume(i, order[k].path)]_vars
    BY DEF IOptions, Passed
  <1>3. Spec => [](ITypes /\ IOptions)
    BY <1>1, TypesInit, TypesStep, OptionsStep, PTL DEF Spec
  <1> QED BY <1>2, <1>3, PTL DEF Spec, FirstOption
-----------------------------------------------------------------------------
(* What the scan knows of the volumes and tiers behind it. *)
Loaded(i, P) == \E p \in P : Loads(i, p)

(* A name on level one has nothing that loads below it. *)
ChildDone(n) ==
  vols[vol].doubled =>
    /\ ~Loaded(vol, ChildPaths(n))
    /\ <<n>> \in DOMAIN vols[vol].lists => ~Loaded(vol, GrandPaths(vol, n))

ITiers ==
  /\ phase \in {"alts", "child", "grandchild", "hunt"} =>
       vols[vol].blessed = <<>> \/ ~Loads(vol, vols[vol].blessed)
  /\ phase = "alts" => \A k \in 1..alt - 1 : ~Loads(vol, Alts[k])
  /\ phase \in {"child", "grandchild", "hunt"} =>
       /\ \A k \in 1..Len(Alts) : ~Loads(vol, Alts[k])
       /\ names1 = ListChildDirs(vol, <<>>)
       /\ \A c \in 1..child - 1 : ChildDone(names1[c])
  /\ phase = "child" =>
       \A k \in 1..alt - 1 : ~LoadsDoubled(vol, <<names1[child]>> \o Alts[k])
  /\ phase = "grandchild" =>
       /\ alt = 1 /\ vols[vol].doubled
       /\ \A k \in 1..Len(Alts) : ~Loads(vol, <<names1[child]>> \o Alts[k])
       /\ names2 \in Opened(<<names1[child]>>)
       /\ \A g \in 1..grand - 1 : ~Loads(vol, <<names1[child], names2[g]>> \o Alts[1])
  /\ phase = "hunt" => child > Len(names1)

NoInternal == \A i \in 1..Len(vols) : ~External(i) => ~HasBoot(i)
IPasses ==
  /\ phase = "probe" \/ Inside =>
       /\ \A i \in 1..vol - 1 : Skipped(i) \/ ~HasBoot(i)
       /\ pass = 1 => NoInternal
  /\ phase \in {"options", "search"} => \A i \in 1..Len(vols) : ~HasBoot(i)
  /\ Chosen => InternalFirst
IScan == ITiers /\ IPasses /\ IImage

(* What loads from where does not change. *)
LEMMA KnownFixed ==
  ASSUME vols' = vols, own' = own
  PROVE  /\ \A i, p : Loads(i, p)' <=> Loads(i, p)
         /\ \A i : HasBoot(i)' <=> HasBoot(i)
         /\ \A i : External(i)' <=> External(i)
         /\ NoInternal' <=> NoInternal
  <1>1. \A i, p : Loads(i, p)' <=> Loads(i, p)
    BY DEF Loads
  <1>2. \A i, d : FirstOf(i, d)' = FirstOf(i, d)
    BY DEF FirstOf
  <1>3. \A i : KnownPaths(i)' = KnownPaths(i)
    <2> SUFFICES ASSUME NEW i PROVE KnownPaths(i)' = KnownPaths(i)
      OBVIOUS
    <2>1. \A n : GrandPaths(i, n)' = GrandPaths(i, n)
      BY <1>2 DEF GrandPaths
    <2>2. Below(i)' = Below(i)
      BY <1>2 DEF Below
    <2>3. (UNION {GrandPaths(i, n) : n \in {x \in Below(i) : <<x>> \in DOMAIN vols[i].lists}})'
           = (UNION {GrandPaths(i, n) : n \in {x \in Below(i) : <<x>> \in DOMAIN vols[i].lists}})
      BY <2>1, <2>2
    <2>4. (UNION {ChildPaths(n) : n \in Below(i)})' = (UNION {ChildPaths(n) : n \in Below(i)})
      BY <2>2
    <2> QED BY <2>3, <2>4 DEF KnownPaths
  <1>4. \A i : HasBoot(i)' <=> HasBoot(i)
    BY <1>1, <1>3 DEF HasBoot
  <1>5. \A i : External(i)' <=> External(i)
    BY DEF External
  <1>6. NoInternal' <=> NoInternal
    BY <1>4, <1>5 DEF NoInternal
  <1> QED BY <1>1, <1>4, <1>5, <1>6

(* When every tier has failed, no known place holds a boot.efi that loads. *)
LEMMA TiersFailed ==
  ASSUME ITypes, ITiers, phase = "hunt"
  PROVE  ~HasBoot(vol)
  <1>1. /\ vols[vol].blessed = <<>> \/ ~Loads(vol, vols[vol].blessed)
        /\ \A k \in 1..Len(Alts) : ~Loads(vol, Alts[k])
        /\ names1 = ListChildDirs(vol, <<>>)
        /\ \A c \in 1..Len(names1) : ChildDone(names1[c])
    BY DEF ITiers, ITypes, TypeOK
  <1>2. FirstOf(vol, <<>>) = {names1[c] : c \in 1..Len(names1)}
    BY <1>1, InsideFacts, ListingFacts DEF Inside, ITypes
  <1>3. \A n \in Below(vol) : ChildDone(n) /\ vols[vol].doubled
    BY <1>1, <1>2 DEF Below
  <1>4. ASSUME NEW p \in KnownPaths(vol) \ {<<>>} PROVE ~Loads(vol, p)
    <2>1. CASE p = vols[vol].blessed
      BY <1>1, <1>4, <2>1
    <2>2. CASE p \in {Alts[k] : k \in 1..Len(Alts)}
      BY <1>1, <2>2
    <2>3. CASE p \in UNION {ChildPaths(n) : n \in Below(vol)}
      <3>1. PICK n \in Below(vol) : p \in ChildPaths(n)
        BY <2>3
      <3> QED BY <1>3, <3>1 DEF ChildDone, Loaded
    <2>4. CASE p \in UNION {GrandPaths(vol, n) :
                              n \in {x \in Below(vol) : <<x>> \in DOMAIN vols[vol].lists}}
      <3>1. PICK n \in Below(vol) : <<n>> \in DOMAIN vols[vol].lists /\ p \in GrandPaths(vol, n)
        BY <2>4
      <3> QED BY <1>3, <3>1 DEF ChildDone, Loaded
    <2> QED BY <1>4, <2>1, <2>2, <2>3, <2>4 DEF KnownPaths
  <1> QED BY <1>4 DEF HasBoot

(* The tiers, one step further. *)
LEMMA TiersFixed ==
  ASSUME vols' = vols, own' = own
  PROVE  /\ \A i, p : Loads(i, p)' <=> Loads(i, p)
         /\ \A i, p : LoadsDoubled(i, p)' <=> LoadsDoubled(i, p)
         /\ \A i, d : ListChildDirs(i, d)' = ListChildDirs(i, d)
         /\ vol' = vol => \A d : Opened(d)' = Opened(d)
         /\ vol' = vol => \A n : ChildDone(n)' <=> ChildDone(n)
  <1>1. \A i, p : Loads(i, p)' <=> Loads(i, p)
    BY DEF Loads
  <1>2. \A i, d : ListChildDirs(i, d)' = ListChildDirs(i, d)
    BY DEF ListChildDirs
  <1>3. \A i, n : GrandPaths(i, n)' = GrandPaths(i, n)
    <2>1. \A i, d : FirstOf(i, d)' = FirstOf(i, d)
      BY DEF FirstOf
    <2> QED BY <2>1 DEF GrandPaths
  <1>4. \A i, P : Loaded(i, P)' <=> Loaded(i, P)
    BY <1>1 DEF Loaded
  <1>5. ASSUME vol' = vol PROVE \A n : ChildDone(n)' <=> ChildDone(n)
    BY <1>3, <1>4, <1>5 DEF ChildDone
  <1>6. \A i, p : LoadsDoubled(i, p)' <=> LoadsDoubled(i, p)
    BY <1>1 DEF LoadsDoubled
  <1>7. ASSUME vol' = vol PROVE \A d : Opened(d)' = Opened(d)
    BY <1>2, <1>7 DEF Opened
  <1> QED BY <1>1, <1>2, <1>5, <1>6, <1>7

LEMMA TiersStep ==
  ASSUME ITypes, ITiers, [Next]_vars
  PROVE  ITiers'
  <1>1. vols' = vols /\ own' = own
    BY MachineFixed
  <1>2. /\ \A i, p : Loads(i, p)' <=> Loads(i, p)
        /\ \A i, p : LoadsDoubled(i, p)' <=> LoadsDoubled(i, p)
        /\ vol' = vol => \A d : Opened(d)' = Opened(d)
        /\ \A i, d : ListChildDirs(i, d)' = ListChildDirs(i, d)
        /\ vol' = vol => \A n : ChildDone(n)' <=> ChildDone(n)
    BY <1>1, TiersFixed
  <1>3. /\ Len(Alts) \in Nat \ {0} /\ alt \in 1..Len(Alts) + 1
        /\ child \in Nat \ {0} /\ grand \in Nat \ {0}
        /\ Len(names1) \in Nat /\ Len(names2) \in Nat
    BY AltFacts DEF ITypes, TypeOK
  <1>4. CASE TryBlessed
    BY <1>1, <1>2, <1>4 DEF TryBlessed, Load, ITiers
  <1>5. CASE TryAlt
    <2>1. CASE Loads(vol, Alts[alt])
      BY <1>5, <2>1 DEF TryAlt, Load, ITiers
    <2>2. CASE ~Loads(vol, Alts[alt])
      <3>1. phase = "alts" /\ phase' = "alts" /\ alt' = alt + 1 /\ vol' = vol
        BY <1>5, <2>2 DEF TryAlt
      <3>2. \A k \in 1..alt' - 1 : ~Loads(vol, Alts[k])
        BY <1>3, <2>2, <3>1 DEF ITiers
      <3> QED BY <1>1, <1>2, <3>1, <3>2 DEF ITiers
    <2> QED BY <2>1, <2>2
  <1>6. CASE ListRoot
    <2>1. \A k \in 1..Len(Alts) : ~Loads(vol, Alts[k])
      BY <1>3, <1>6 DEF ListRoot, ITiers
    <2> QED BY <1>1, <1>2, <1>6, <2>1 DEF ListRoot, ITiers
  <1>7. CASE TryChildAlt
    <2> DEFINE p == <<names1[child]>> \o Alts[alt]
    <2>1. CASE LoadsDoubled(vol, p)
      BY <1>7, <2>1 DEF TryChildAlt, Load, ITiers
    <2>2. CASE ~LoadsDoubled(vol, p)
      <3>1. /\ phase = "child" /\ phase' = "child" /\ alt' = alt + 1
            /\ UNCHANGED <<vol, child, names1>>
        BY <1>7, <2>2 DEF TryChildAlt
      <3>2. \A k \in 1..alt' - 1 : ~LoadsDoubled(vol, <<names1[child]>> \o Alts[k])
        BY <1>3, <2>2, <3>1 DEF ITiers
      <3> QED BY <1>1, <1>2, <3>1, <3>2 DEF ITiers
    <2> QED BY <2>1, <2>2
  <1>8. CASE ListChild
    <2> DEFINE d == <<names1[child]>>
    <2>1. /\ phase = "child" /\ alt' = 1 /\ UNCHANGED <<vol, names1>>
          /\ \A k \in 1..Len(Alts) : ~LoadsDoubled(vol, d \o Alts[k])
      BY <1>3, <1>8 DEF ListChild, ITiers
    <2>2. CASE vols[vol].doubled
      <3>1. /\ names2' \in Opened(d) /\ phase' = "grandchild" /\ grand' = 1
            /\ child' = child
        BY <1>8, <2>2 DEF ListChild
      <3>2. \A k \in 1..Len(Alts) : ~Loads(vol, d \o Alts[k])
        BY <2>1, <2>2 DEF LoadsDoubled
      <3> QED BY <1>1, <1>2, <2>1, <2>2, <3>1, <3>2 DEF ITiers
    <2>3. CASE ~vols[vol].doubled
      <3>1. phase' = "child" /\ child' = child + 1
        BY <1>8, <2>1, <2>3 DEF ListChild
      <3>2. ChildDone(names1[child])
        BY <2>3 DEF ChildDone
      <3> HIDE DEF d
      <3>3. \A c \in 1..child - 1 : ChildDone(names1[c])
        BY <2>1 DEF ITiers
      <3>4. \A c \in 1..child' - 1 : ChildDone(names1[c])
        BY <1>3, <3>1, <3>2, <3>3
      <3> QED BY <1>1, <1>2, <2>1, <3>1, <3>4 DEF ITiers
    <2> QED BY <2>2, <2>3
  <1>9. CASE TryGrandchild
    <2> DEFINE p == <<names1[child], names2[grand]>> \o Alts[1]
    <2>1. CASE Loads(vol, p)
      BY <1>9, <2>1 DEF TryGrandchild, Load, ITiers
    <2>2. CASE ~Loads(vol, p)
      <3>1. /\ phase = "grandchild" /\ phase' = "grandchild" /\ grand' = grand + 1
            /\ UNCHANGED <<vol, alt, child, names1, names2>>
        BY <1>9, <2>2 DEF TryGrandchild
      <3>2. \A g \in 1..grand' - 1 : ~Loads(vol, <<names1[child], names2[g]>> \o Alts[1])
        BY <1>3, <2>2, <3>1 DEF ITiers
      <3> HIDE DEF p
      <3> QED BY <1>1, <1>2, <3>1, <3>2 DEF ITiers
    <2> QED BY <2>1, <2>2
  <1>10. CASE NextChild
    <2> DEFINE n == names1[child]
    <2>1. /\ phase = "grandchild" /\ phase' = "child" /\ child' = child + 1
          /\ alt = 1 /\ UNCHANGED <<vol, alt, names1>>
      BY <1>10 DEF NextChild, ITiers
    <2>2. ~Loaded(vol, ChildPaths(n))
      BY <2>1 DEF Loaded, ChildPaths, ITiers
    <2>3. ASSUME <<n>> \in DOMAIN vols[vol].lists
          PROVE  FirstOf(vol, <<n>>) = {names2[g] : g \in 1..Len(names2)}
      <3>1. vol \in 1..Len(vols) /\ names2 = ListChildDirs(vol, <<n>>)
        BY <2>1, <2>3, InsideFacts DEF ITiers, Inside, Opened
      <3> QED BY <2>3, <3>1, ListingFacts DEF ITypes
    <2>4. \A g \in 1..Len(names2) : ~Loads(vol, <<n, names2[g]>> \o Alts[1])
      BY <1>3, <1>10, <2>1 DEF NextChild, ITiers
    <2> HIDE DEF n
    <2>5. <<n>> \in DOMAIN vols[vol].lists => ~Loaded(vol, GrandPaths(vol, n))
      BY <2>3, <2>4 DEF Loaded, GrandPaths
    <2>6. ChildDone(n)
      BY <2>2, <2>5 DEF ChildDone
    <2>7. \A c \in 1..child' - 1 : ChildDone(names1[c])
      BY <1>3, <2>1, <2>6 DEF ITiers, n
    <2> QED BY <1>1, <1>2, <2>1, <2>7 DEF ITiers
  <1>11. CASE StartHunt
    <2> QED BY <1>1, <1>2, <1>11 DEF StartHunt, ITiers
  <1>12. CASE UNCHANGED <<phase, vol, alt, child, grand, names1, names2>>
    <2> QED BY <1>1, <1>2, <1>12 DEF ITiers
  <1>13. CASE phase' \notin {"alts", "child", "grandchild", "hunt"}
    BY <1>13 DEF ITiers
  <1>14. ASSUME ~(TryBlessed \/ TryAlt \/ ListRoot \/ TryChildAlt \/ ListChild \/ TryGrandchild
                  \/ NextChild \/ StartHunt)
         PROVE  \/ UNCHANGED <<phase, vol, alt, child, grand, names1, names2>>
                \/ phase' \notin {"alts", "child", "grandchild", "hunt"}
    BY <1>14 DEF Next, ProbeVolume, EndOfPass, HuntDir, HuntFile, HuntUp, HuntEnds, NextOption,
         TryVolume, OnNoVolume, GiveUp, Start, Load, vars, scan
  <1> QED BY <1>4, <1>5, <1>6, <1>7, <1>8, <1>9, <1>10, <1>11, <1>12, <1>13, <1>14

(* An image of the scan comes from an external volume in the second pass    *)
(* only.                                                                    *)
LEMMA PassesStep ==
  ASSUME ITypes, IScan, [Next]_vars
  PROVE  IPasses'
  <1>1. vols' = vols /\ own' = own /\ vol \in 1..Len(vols) + 1 /\ Len(vols) \in Nat /\ pass \in 0..1
    BY MachineFixed, VolumeFacts DEF ITypes, TypeOK
  <1>2. /\ \A i : HasBoot(i)' <=> HasBoot(i)
        /\ \A i : External(i)' <=> External(i)
        /\ NoInternal' <=> NoInternal
    BY <1>1, KnownFixed
  <1>3. pass' = pass => \A i : Skipped(i)' <=> Skipped(i)
    BY <1>1 DEF Skipped
  <1>4. ITiers /\ IPasses /\ IImage
    BY DEF IScan
  <1>5. ASSUME phase' = "loaded", image'.vol = vol, Inside \/ phase = "search"
        PROVE  InternalFirst'
    <2>1. CASE Inside /\ pass = 0
      <3>1. ~External(vol)
        BY <2>1 DEF ITypes, IPlace, Skipped, External
      <3> QED BY <1>2, <1>5, <3>1 DEF InternalFirst
    <2>2. CASE Inside /\ pass = 1
      <3>1. NoInternal
        BY <1>4, <2>2 DEF IPasses
      <3> QED BY <1>1, <1>2, <3>1 DEF InternalFirst, NoInternal
    <2>3. CASE phase = "search"
      <3>1. \A i \in 1..Len(vols) : ~HasBoot(i)
        BY <1>4, <2>3 DEF IPasses
      <3> QED BY <1>1, <1>2, <3>1 DEF InternalFirst
    <2> QED BY <1>1, <1>5, <2>1, <2>2, <2>3
  <1>6. ASSUME NEW p, Load(p), Inside \/ phase = "search" PROVE IPasses'
    <2>1. phase' = "loaded" /\ image'.vol = vol
      BY <1>6 DEF Load
    <2>2. InternalFirst'
      BY <1>5, <1>6, <2>1
    <2> QED BY <2>1, <2>2 DEF IPasses, Inside
  <1>7. CASE ProbeVolume
    <2>1. /\ phase = "probe" /\ pass' = pass /\ vol <= Len(vols)
          /\ \A i \in 1..vol - 1 : Skipped(i) \/ ~HasBoot(i)
          /\ pass = 1 => NoInternal
      BY <1>4, <1>7 DEF ProbeVolume, IPasses
    <2>2. CASE phase' = "blessed" /\ vol' = vol
      BY <1>2, <1>3, <2>1, <2>2 DEF IPasses, Inside, Chosen
    <2>3. CASE ~(~Skipped(vol) /\ vols[vol].opens)
      <3>1. phase' = "probe" /\ vol' = vol + 1
        BY <1>7, <2>1, <2>3 DEF ProbeVolume
      <3>2. Skipped(vol) \/ ~HasBoot(vol)
        BY <2>3 DEF HasBoot
      <3>3. \A i \in 1..vol' - 1 : Skipped(i) \/ ~HasBoot(i)
        BY <1>1, <2>1, <3>1, <3>2
      <3> QED BY <1>2, <1>3, <2>1, <3>1, <3>3 DEF IPasses, Inside, Chosen
    <2> QED BY <1>7, <2>2, <2>3 DEF ProbeVolume
  <1>8. CASE EndOfPass
    <2>1. \A i \in 1..Len(vols) : Skipped(i) \/ ~HasBoot(i)
      BY <1>1, <1>4, <1>8 DEF EndOfPass, IPasses
    <2>2. CASE pass = 0
      <3>1. NoInternal
        BY <2>1 DEF NoInternal, Skipped, External
      <3>2. pass' = 1 /\ phase' = "probe" /\ vol' = 1
        BY <1>8, <2>2 DEF EndOfPass
      <3> QED BY <1>2, <3>1, <3>2 DEF IPasses, Inside, Chosen
    <2>3. CASE pass = 1
      <3>1. \A i \in 1..Len(vols) : ~HasBoot(i)
        BY <2>1, <2>3 DEF Skipped
      <3>2. phase' = "options"
        BY <1>8, <2>3 DEF EndOfPass
      <3> QED BY <1>1, <1>2, <3>1, <3>2 DEF IPasses, Inside, Chosen
    <2> QED BY <1>1, <2>2, <2>3
  <1>9. CASE Inside /\ Inside' /\ UNCHANGED <<pass, vol>>
    <2>1. /\ \A i \in 1..vol - 1 : Skipped(i) \/ ~HasBoot(i)
          /\ pass = 1 => NoInternal
      BY <1>4, <1>9 DEF IPasses
    <2> QED BY <1>2, <1>3, <1>9, <2>1 DEF IPasses, Inside, Chosen
  <1>10. CASE phase = "hunt" /\ HuntEnds /\ UNCHANGED pass
    <2>1. /\ \A i \in 1..vol - 1 : Skipped(i) \/ ~HasBoot(i)
          /\ pass = 1 => NoInternal
      BY <1>4, <1>10 DEF IPasses, Inside
    <2>2. ~HasBoot(vol)
      BY <1>4, <1>10, TiersFailed
    <2>3. vol' = vol + 1 /\ phase' = "probe"
      BY <1>10 DEF HuntEnds
    <2>4. \A i \in 1..vol' - 1 : Skipped(i) \/ ~HasBoot(i)
      BY <1>1, <2>1, <2>2, <2>3
    <2> QED BY <1>2, <1>3, <1>10, <2>1, <2>3, <2>4 DEF IPasses, Inside, Chosen
  <1>11. CASE phase \in {"options", "search"} /\ phase' \in {"options", "search"}
    <2>1. \A i \in 1..Len(vols) : ~HasBoot(i)
      BY <1>4, <1>11 DEF IPasses
    <2> QED BY <1>1, <1>2, <1>11, <2>1 DEF IPasses, Inside, Chosen
  <1>12. CASE GiveUp
    <2>1. image = NoImage /\ image' = image /\ phase' = "returned"
      BY <1>4, <1>12 DEF GiveUp, IImage, Chosen
    <2>2. \A i \in 1..Len(vols) : ~HasBoot(i)
      BY <1>4, <1>12 DEF GiveUp, IPasses
    <2> QED BY <1>1, <1>2, <2>1, <2>2 DEF IPasses, Inside, InternalFirst
  <1>13. CASE Chosen /\ Chosen' /\ UNCHANGED image
    <2>1. InternalFirst
      BY <1>4, <1>13 DEF IPasses
    <2>2. InternalFirst'
      BY <1>1, <1>2, <1>13, <2>1 DEF InternalFirst
    <2> QED BY <1>13, <2>2 DEF IPasses, Inside, Chosen
  <1>14. CASE UNCHANGED vars
    <2>1. UNCHANGED <<phase, pass, vol, image>>
      BY <1>14 DEF vars
    <2>2. InternalFirst' <=> InternalFirst
      BY <1>1, <1>2, <2>1 DEF InternalFirst
    <2> QED BY <1>1, <1>2, <1>3, <1>4, <2>1, <2>2 DEF IPasses, Inside, Chosen
  <1>15. CASE TryBlessed \/ TryAlt \/ ListRoot \/ TryChildAlt \/ ListChild \/ TryGrandchild
              \/ NextChild \/ StartHunt \/ HuntDir
    <2>1. Inside /\ UNCHANGED <<pass, vol>> /\ (Inside' \/ \E p : Load(p))
      BY <1>15 DEF TryBlessed, TryAlt, ListRoot, TryChildAlt, ListChild, TryGrandchild, NextChild,
                   StartHunt, HuntDir, Inside
    <2> QED BY <1>6, <1>9, <2>1
  <1>16. CASE HuntFile \/ HuntUp
    <2>1. /\ phase = "hunt" /\ UNCHANGED pass
          /\ \/ HuntEnds \/ \E p : Load(p)
             \/ UNCHANGED <<phase, vol>>
      BY <1>16 DEF HuntFile, HuntUp
    <2> QED BY <1>6, <1>9, <1>10, <2>1 DEF Inside
  <1>17. CASE NextOption \/ TryVolume \/ OnNoVolume
    <2>1. \/ phase \in {"options", "search"} /\ phase' \in {"options", "search"}
          \/ phase = "search" /\ \E p : Load(p)
      BY <1>17 DEF NextOption, TryVolume, OnNoVolume
    <2> QED BY <1>6, <1>11, <2>1
  <1>18. CASE Start
    <2>1. Chosen /\ Chosen' /\ UNCHANGED image
      BY <1>18 DEF Start, Chosen
    <2> QED BY <1>13, <2>1
  <1> QED BY <1>7, <1>8, <1>12, <1>14, <1>15, <1>16, <1>17, <1>18 DEF Next

LEMMA ScanInv == Spec => [](ITypes /\ IScan)
  <1>1. Init => IScan
    BY DEF Init, IScan, ITiers, IPasses, IImage, Inside, Chosen
  <1>3. ITypes /\ IScan /\ [Next]_vars => IScan'
    BY ImageKept, TiersStep, PassesStep DEF IScan
  <1> QED BY <1>1, <1>3, TypesInit, TypesStep, PTL DEF Spec

(* The scan turns to BootOrder only when no volume has a boot.efi that loads *)
(* in a known place.                                                         *)
THEOREM KnownLayoutsSearched == Spec => []KnownLayoutsFound
  <1>1. IScan => KnownLayoutsFound
    BY DEF IScan, IPasses, KnownLayoutsFound
  <1> QED BY <1>1, ScanInv, PTL

(* An external volume is used only when no internal one would do. *)
THEOREM InternalPreferred == Spec => []InternalFirst
  <1>1. IScan => InternalFirst
    BY DEF IScan, IPasses, IImage, InternalFirst, NoImage, Chosen
  <1> QED BY <1>1, ScanInv, PTL
-----------------------------------------------------------------------------
(* Where the search stands: pass, volume, tier and the loops of the tier;   *)
(* behind the scan the options, each with its volumes.                      *)
Position ==
  CASE phase = "probe"      -> <<pass, vol, 0, 0, 0, 0>>
    [] phase = "blessed"    -> <<pass, vol, 1, 0, 0, 0>>
    [] phase = "alts"       -> <<pass, vol, 2, alt, 0, 0>>
    [] phase = "child"      -> <<pass, vol, 3, child, alt, 0>>
    [] phase = "grandchild" -> <<pass, vol, 3, child, Len(Alts) + 2, grand>>
    [] phase = "hunt"       -> <<pass, vol, 4, 0, 0, 0>>
    [] phase = "options"    -> <<2, opt, 0, 0, 0, 0>>
    [] phase = "search"     -> <<2, opt, 1, vol, 0, 0>>
    [] phase = "loaded"     -> <<3, 0, 0, 0, 0, 0>>
    [] OTHER                -> <<4, 0, 0, 0, 0, 0>>
EarlierThan(s, t) ==
  \E k \in 1..6 : (\A j \in 1..k - 1 : s[j] = t[j]) /\ s[k] < t[k]

(* The hunt is further when the first directory in which its two stacks     *)
(* differ is read further or closed.                                        *)
HuntedTo(s, t) ==
  \E k \in 1..Len(s) :
    /\ Len(t) >= k - 1
    /\ \A j \in 1..k - 1 : t[j] = s[j]
    /\ Len(t) >= k => t[k].dir = s[k].dir /\ s[k].next < t[k].next

(* Every step of the search goes forward: no volume, directory or option is *)
(* turned to again within a pass, and no directory is read a second time.   *)
Forward ==
  \/ EarlierThan(Position, Position')
  \/ phase = "hunt" /\ phase' = "hunt" /\ Position' = Position /\ HuntedTo(stack, stack')
SearchAdvances == [][Forward]_vars

(* The hunt reads at most one entry past the end of a directory.            *)
ReadTo(s) == \A k \in 1..Len(s) : s[k].next <= Len(vols[vol].lists[s[k].dir]) + 1
HuntBounded == phase = "hunt" => ReadTo(stack)
LEMMA AheadAt ==
  ASSUME NEW s, NEW t, NEW k \in 1..6, \A j \in 1..k - 1 : s[j] = t[j], s[k] < t[k]
  PROVE  EarlierThan(s, t)
  BY DEF EarlierThan

(* What separates two positions, by the first place where they differ. *)
LEMMA Ahead ==
  ASSUME NEW s, NEW t,
         \/ s[1] < t[1]
         \/ s[1] = t[1] /\ s[2] < t[2]
         \/ s[1] = t[1] /\ s[2] = t[2] /\ s[3] < t[3]
         \/ s[1] = t[1] /\ s[2] = t[2] /\ s[3] = t[3] /\ s[4] < t[4]
         \/ s[1] = t[1] /\ s[2] = t[2] /\ s[3] = t[3] /\ s[4] = t[4] /\ s[5] < t[5]
         \/ s[1] = t[1] /\ s[2] = t[2] /\ s[3] = t[3] /\ s[4] = t[4] /\ s[5] = t[5] /\ s[6] < t[6]
  PROVE  EarlierThan(s, t)
  <1>1. CASE s[1] < t[1]
    BY <1>1, AheadAt
  <1>2. CASE s[1] = t[1] /\ s[2] < t[2]
    BY <1>2, AheadAt
  <1>3. CASE s[1] = t[1] /\ s[2] = t[2] /\ s[3] < t[3]
    BY <1>3, AheadAt
  <1>4. CASE s[1] = t[1] /\ s[2] = t[2] /\ s[3] = t[3] /\ s[4] < t[4]
    BY <1>4, AheadAt
  <1>5. CASE s[1] = t[1] /\ s[2] = t[2] /\ s[3] = t[3] /\ s[4] = t[4] /\ s[5] < t[5]
    BY <1>5, AheadAt
  <1>6. CASE s[1] = t[1] /\ s[2] = t[2] /\ s[3] = t[3] /\ s[4] = t[4] /\ s[5] = t[5] /\ s[6] < t[6]
    BY <1>6, AheadAt
  <1> QED BY <1>1, <1>2, <1>3, <1>4, <1>5, <1>6

(* Advanced reads one entry further in the innermost directory only. *)
LEMMA AdvancedReads ==
  ASSUME ITypes, phase = "hunt", NEW n, n = Len(stack)
  PROVE  /\ n \in Nat \ {0} /\ Len(Advanced) = n
         /\ \A k \in 1..n - 1 : Advanced[k] = stack[k]
         /\ Advanced[n].dir = stack[n].dir /\ Advanced[n].next = stack[n].next + 1
         /\ stack[n].next \in Nat
  <1>1. stack \in Seq(Frame) /\ n \in Nat \ {0} /\ Len(Advanced) = n
    BY HuntFacts, AdvancedFacts DEF ITypes, TypeOK, Frame
  <1>2. PICK e : e = [stack[n] EXCEPT !.next = @ + 1]
    OBVIOUS
  <1>3. e \in Frame /\ e.dir = stack[n].dir /\ e.next = stack[n].next + 1 /\ stack[n].next \in Nat
    <2>1. stack[n] \in Frame
      BY <1>1, ElementOfSeq
    <2> QED BY <1>2, <2>1 DEF Frame
  <1>4. Advanced = [stack EXCEPT ![n] = e]
    BY <1>2 DEF Advanced
  <1>5. \A k \in 1..n : Advanced[k] = IF k = n THEN e ELSE stack[k]
    BY <1>1, <1>4
  <1> QED BY <1>1, <1>3, <1>5

(* A stack that ends in Advanced, or with its last directory closed. *)
LEMMA HuntsOn ==
  ASSUME ITypes, phase = "hunt"
  PROVE  /\ HuntedTo(stack, Advanced)
         /\ \A e : HuntedTo(stack, Append(Advanced, e))
         /\ HuntedTo(stack, SubSeq(stack, 1, Len(stack) - 1))
  <1>1. PICK n : n = Len(stack)
    OBVIOUS
  <1>2. /\ n \in Nat \ {0} /\ Len(Advanced) = n
        /\ \A k \in 1..n - 1 : Advanced[k] = stack[k]
        /\ Advanced[n].dir = stack[n].dir /\ Advanced[n].next = stack[n].next + 1
        /\ stack[n].next \in Nat
    BY <1>1, AdvancedReads
  <1>3. Advanced \in Seq(Frame) /\ stack \in Seq(Frame)
    BY AdvancedFacts DEF Frames, ITypes, TypeOK, Frame
  <1>4. HuntedTo(stack, Advanced)
    BY <1>1, <1>2 DEF HuntedTo
  <1>5. ASSUME NEW e PROVE HuntedTo(stack, Append(Advanced, e))
    <2> DEFINE t == Append(Advanced, e)
    <2>1. Len(t) = n + 1 /\ \A k \in 1..n : t[k] = Advanced[k]
      BY <1>2, <1>3
    <2> HIDE DEF t
    <2>2. HuntedTo(stack, t)
      BY <1>1, <1>2, <2>1 DEF HuntedTo
    <2> QED BY <2>2 DEF t
  <1>6. HuntedTo(stack, SubSeq(stack, 1, Len(stack) - 1))
    <2> DEFINE t == SubSeq(stack, 1, n - 1)
    <2>1. Len(t) = n - 1 /\ \A k \in 1..n - 1 : t[k] = stack[k]
      BY <1>1, <1>2, <1>3
    <2> HIDE DEF t
    <2>2. HuntedTo(stack, t)
      BY <1>1, <1>2, <2>1 DEF HuntedTo
    <2> QED BY <1>1, <2>2 DEF t
  <1> QED BY <1>4, <1>5, <1>6

LEMMA GoesForward ==
  ASSUME ITypes, Next
  PROVE  Forward
  <1>1. /\ pass \in 0..1 /\ vol \in Nat /\ opt \in Nat /\ alt \in 1..Len(Alts) + 1
        /\ child \in Nat /\ grand \in Nat /\ Len(Alts) \in Nat
    BY AltFacts, VolumeFacts, TypeParts DEF ITypes, TCounters, TLists
  <1> DEFINE P == Position
             Q == Position'
  <1>2. SUFFICES ASSUME ~(phase = "hunt" /\ phase' = "hunt" /\ Position' = Position /\ HuntedTo(stack, stack'))
                 PROVE  EarlierThan(P, Q)
    BY DEF Forward
  <1>3. CASE ProbeVolume
    BY <1>1, <1>3, Ahead DEF ProbeVolume, Position
  <1>4. CASE EndOfPass
    BY <1>1, <1>4, Ahead DEF EndOfPass, scan, Position
  <1>5. CASE TryBlessed
    BY <1>1, <1>5, Ahead DEF TryBlessed, Load, Position
  <1>6. CASE TryAlt
    BY <1>1, <1>6, Ahead DEF TryAlt, Load, Position
  <1>7. CASE ListRoot
    BY <1>1, <1>7, Ahead DEF ListRoot, Position
  <1>8. CASE TryChildAlt
    BY <1>1, <1>8, Ahead DEF TryChildAlt, Load, Position
  <1>9. CASE ListChild
    BY <1>1, <1>9, Ahead DEF ListChild, Position
  <1>10. CASE TryGrandchild
    BY <1>1, <1>10, Ahead DEF TryGrandchild, Load, Position
  <1>11. CASE NextChild
    BY <1>1, <1>11, Ahead DEF NextChild, Position
  <1>12. CASE StartHunt
    BY <1>1, <1>12, Ahead DEF StartHunt, Position
  <1>13. CASE HuntDir
    <2>1. phase = "hunt" /\ phase' = "hunt" /\ Position' = Position
      BY <1>13 DEF HuntDir, Position
    <2>2. HuntedTo(stack, stack')
      BY <1>13, <2>1, HuntsOn DEF HuntDir
    <2> QED BY <1>2, <2>1, <2>2
  <1>14. CASE HuntFile
    <2>1. CASE Entry[Len(Entry)] # BootEfi
      <3>1. phase = "hunt" /\ phase' = "hunt" /\ Position' = Position /\ stack' = Advanced
        BY <1>14, <2>1 DEF HuntFile, Position
      <3> QED BY <1>2, <3>1, HuntsOn
    <2>2. CASE Entry[Len(Entry)] = BootEfi
      <3>1. phase = "hunt" /\ pass' = pass /\ (phase' = "loaded" \/ (phase' = "probe" /\ vol' = vol + 1))
        <4>1. phase = "hunt" /\ pass' = pass /\ (Load(Entry) \/ HuntEnds)
          BY <1>14, <2>2 DEF HuntFile
        <4>2. Load(Entry) => phase' = "loaded"
          BY DEF Load
        <4>3. HuntEnds => phase' = "probe" /\ vol' = vol + 1
          BY DEF HuntEnds
        <4> QED BY <4>1, <4>2, <4>3
      <3> QED BY <1>1, <3>1, Ahead DEF Position
    <2> QED BY <2>1, <2>2
  <1>15. CASE HuntUp
    <2>1. CASE Len(stack) = 1
      <3>1. phase = "hunt" /\ pass' = pass /\ phase' = "probe" /\ vol' = vol + 1
        BY <1>15, <2>1 DEF HuntUp, HuntEnds
      <3> QED BY <1>1, <3>1, Ahead DEF Position
    <2>2. CASE Len(stack) # 1
      <3>1. /\ phase = "hunt" /\ phase' = "hunt" /\ Position' = Position
            /\ stack' = SubSeq(stack, 1, Len(stack) - 1)
        BY <1>15, <2>2 DEF HuntUp, Position
      <3> QED BY <1>2, <3>1, HuntsOn
    <2> QED BY <2>1, <2>2
  <1>16. CASE NextOption
    BY <1>1, <1>16, Ahead DEF NextOption, Position
  <1>17. CASE TryVolume
    BY <1>1, <1>17, Ahead DEF TryVolume, Load, Position
  <1>18. CASE OnNoVolume
    BY <1>1, <1>18, Ahead DEF OnNoVolume, Position
  <1>19. CASE GiveUp
    BY <1>1, <1>19, Ahead DEF GiveUp, Position
  <1>20. CASE Start
    BY <1>1, <1>20, Ahead DEF Start, Position
  <1> QED BY <1>3, <1>4, <1>5, <1>6, <1>7, <1>8, <1>9, <1>10, <1>11, <1>12, <1>13, <1>14, <1>15,
             <1>16, <1>17, <1>18, <1>19, <1>20 DEF Next

(* No step of the hunt reads past the end of a directory. *)
LEMMA AdvancedBounded ==
  ASSUME ITypes, phase = "hunt", ReadTo(stack), Top.next <= Len(vols[vol].lists[Top.dir])
  PROVE  ReadTo(Advanced)
  <1>1. PICK n : n = Len(stack)
    OBVIOUS
  <1>2. /\ n \in Nat \ {0} /\ Len(Advanced) = n
        /\ \A k \in 1..n - 1 : Advanced[k] = stack[k]
        /\ Advanced[n].dir = stack[n].dir /\ Advanced[n].next = stack[n].next + 1
        /\ stack[n].next \in Nat
    BY <1>1, AdvancedReads
  <1>3. Top = stack[n] /\ Len(vols[vol].lists[stack[n].dir]) \in Nat
    BY <1>1, HuntFacts DEF Top
  <1>4. stack[n].next <= Len(vols[vol].lists[stack[n].dir])
    BY <1>3
  <1>5. ASSUME NEW k \in 1..n PROVE Advanced[k].next <= Len(vols[vol].lists[Advanced[k].dir]) + 1
    <2>1. CASE k = n
      <3>1. Len(vols[vol].lists[Advanced[k].dir]) = Len(vols[vol].lists[stack[n].dir])
        BY <1>2, <2>1
      <3>2. PICK m \in Nat : m = Len(vols[vol].lists[stack[n].dir])
        BY <1>3
      <3>3. stack[n].next <= m
        BY <1>4, <3>2
      <3>4. Advanced[k].next <= m + 1
        BY <1>2, <2>1, <3>3, <3>2
      <3> QED BY <3>1, <3>2, <3>4
    <2>2. CASE k # n
      <3>1. k \in 1..n - 1 /\ k \in 1..Len(stack)
        BY <1>1, <1>2, <2>2
      <3>2. stack[k].next <= Len(vols[vol].lists[stack[k].dir]) + 1
        BY <3>1 DEF ReadTo
      <3>3. Advanced[k] = stack[k]
        BY <1>2, <3>1
      <3> QED BY <3>2, <3>3
    <2> QED BY <2>1, <2>2
  <1> QED BY <1>2, <1>5 DEF ReadTo

LEMMA HuntStep ==
  ASSUME ITypes, HuntBounded, [Next]_vars
  PROVE  HuntBounded'
  <1>0. vols' = vols /\ (phase' = "hunt" => vol' = vol)
    BY MachineFixed, StackStep
  <1>1. SUFFICES ASSUME phase' = "hunt" PROVE ReadTo(stack')
    BY <1>0 DEF HuntBounded, ReadTo
  <1>2. CASE StartHunt
    <2>1. vols[vol].lists[<<>>] \in Seq(Names)
      BY <1>2, InsideFacts DEF StartHunt, Inside, IsVolume
    <2>2. PICK n \in Nat : n = Len(vols[vol].lists[<<>>])
      BY <2>1
    <2>3. stack' = <<[dir |-> <<>>, next |-> 1]>>
      BY <1>2 DEF StartHunt
    <2>4. Len(stack') = 1 /\ stack'[1] = [dir |-> <<>>, next |-> 1]
      BY <2>3
    <2>5. stack'[1].dir = <<>> /\ stack'[1].next = 1
      BY <2>4
    <2>6. stack'[1].next <= Len(vols[vol].lists[stack'[1].dir]) + 1
      BY <2>2, <2>5
    <2> QED BY <2>4, <2>6 DEF ReadTo
  <1>3. CASE HuntDir
    <2> DEFINE e == [dir |-> Entry, next |-> 1]
    <2>1. phase = "hunt" /\ ReadTo(Advanced)
      BY <1>3, AdvancedBounded DEF HuntDir, HuntBounded
    <2>2. stack' = Append(Advanced, e) \/ stack' = Advanced
      BY <1>3 DEF HuntDir
    <2>3. Len(vols[vol].lists[Entry]) \in Nat
      BY <1>3, <2>1, InsideFacts DEF HuntDir, EntryIsDir, Inside, IsVolume
    <2>4. e.next = 1 /\ e.dir = Entry
      OBVIOUS
    <2> HIDE DEF e
    <2>5. Advanced \in Seq(Frame) /\ Len(Advanced) \in Nat
      BY <2>1, AdvancedFacts DEF Frames
    <2>6. ReadTo(Append(Advanced, e))
      <3> DEFINE t == Append(Advanced, e)
      <3>1. PICK n \in Nat : n = Len(Advanced)
        BY <2>5
      <3>2. Len(t) = n + 1 /\ t[n + 1] = e /\ \A k \in 1..n : t[k] = Advanced[k]
        BY <2>5, <3>1
      <3> HIDE DEF t
      <3>3. ASSUME NEW k \in 1..n + 1 PROVE t[k].next <= Len(vols[vol].lists[t[k].dir]) + 1
        <4>1. CASE k = n + 1
          BY <2>3, <2>4, <3>2, <4>1
        <4>2. CASE k # n + 1
          BY <2>1, <3>1, <3>2, <4>2 DEF ReadTo
        <4> QED BY <4>1, <4>2
      <3>4. ReadTo(t)
        BY <3>2, <3>3 DEF ReadTo
      <3> QED BY <3>4 DEF t
    <2> QED BY <2>1, <2>2, <2>6
  <1>4. CASE HuntFile
    <2>1. phase = "hunt" /\ ReadTo(Advanced)
      BY <1>4, AdvancedBounded DEF HuntFile, HuntBounded
    <2>2. stack' = Advanced
      BY <1>1, <1>4 DEF HuntFile, Load, HuntEnds
    <2> QED BY <2>1, <2>2
  <1>5. CASE HuntUp
    <2>1. PICK n : n = Len(stack)
      OBVIOUS
    <2>2. phase = "hunt" /\ ReadTo(stack) /\ stack' = SubSeq(stack, 1, n - 1)
      BY <1>5, <2>1 DEF HuntUp, HuntBounded
    <2>3. n \in Nat \ {0} /\ stack \in Seq(Frame)
      BY <2>1, <2>2, HuntFacts, HuntFrames DEF Frames
    <2>4. Len(stack') = n - 1 /\ \A k \in 1..n - 1 : stack'[k] = stack[k]
      BY <2>1, <2>2, <2>3
    <2> QED BY <2>1, <2>2, <2>3, <2>4 DEF ReadTo
  <1>6. CASE UNCHANGED <<phase, stack>>
    BY <1>0, <1>1, <1>6 DEF HuntBounded, ReadTo
  <1>7. ASSUME ~(StartHunt \/ HuntDir \/ HuntFile \/ HuntUp) PROVE UNCHANGED <<phase, stack>>
    BY <1>1, <1>7 DEF Next, ProbeVolume, EndOfPass, TryBlessed, TryAlt, ListRoot, TryChildAlt, ListChild,
         TryGrandchild, NextChild, NextOption, TryVolume, OnNoVolume, GiveUp, Start, Load, vars, scan
  <1> QED BY <1>2, <1>3, <1>4, <1>5, <1>6, <1>7

(* find_macos_boot, the hunt and try_bootorder_chainload end on every       *)
(* machine: every step goes forward among positions whose bounds (here and  *)
(* in SearchTypes) no step moves.                                           *)
THEOREM SearchGoesForward == Spec => []HuntBounded /\ SearchAdvances
  <1>1. Init => HuntBounded
    BY DEF Init, HuntBounded
  <1>2. ITypes /\ HuntBounded /\ [Next]_vars => HuntBounded'
    BY HuntStep
  <1>3. ITypes /\ [Next]_vars => [Forward]_vars
    BY GoesForward
  <1> QED BY <1>1, <1>2, <1>3, TypesInit, TypesStep, PTL DEF Spec, SearchAdvances
=============================================================================
