---------------------------- MODULE MCLibraryData ----------------------------
(* What the two libraries make of data: the names of HCI bits, and service   *)
(* records, each from initial states of its own.                             *)
(*                                                                           *)
(* Values to name: the runs of bits that begin and end at whole bytes, and   *)
(* every set of the low bits that the short tables are about.                *)
(* Records: short and long UUIDs, names that make a record longer than 255   *)
(* bytes, two ways of access, one and two profiles, features with a string   *)
(* and without.                                                              *)
EXTENDS SdpRecord

H == INSTANCE HciNames

VARIABLE bits      \* the value whose names are asked for, or NoValue

NoValue == {-1}
MCRuns == {a .. b : a, b \in {16 * i : i \in 0 .. 14}}
MCValues == MCRuns \cup SUBSET ((0 .. 8) \cup {15})

E(dtd, val) == Element(dtd, 0, val, <<>>)
Short(n) == E(UUID16, BigEndian(n, 2))
Middle(n) == E(UUID32, BigEndian(n, 4))
Long(n) == E(UUID128, <<0, 0>> \o BigEndian(n, 2) \o BaseTail)
Own == E(UUID128, [i \in 1 .. 16 |-> i])

MCClassLists == {<<Short(4353)>>, <<Long(4353), Own>>}
LongName == [i \in 1 .. 250 |-> 65 + (i % 26)]
MCTexts == {LongName}
Rfcomm(channel) == <<<<Short(256)>>, <<Short(3), E(UINT8, <<channel>>)>>>>
Psm == <<<<Long(256), E(UINT16, <<16, 1>>)>>>>
MCProtoLists == {<<Rfcomm(5)>>, <<Rfcomm(7), Psm>>}
MCLangLists == {<<<<25966, 106, 256>>>>, <<<<25966, 106, 256>>, <<26226, 4, 272>>>>}
MCIds == {Own, Middle(65536)}
MCProfileLists == {<<[uuid |-> Short(4353), version |-> 258]>>,
                   <<[uuid |-> Middle(1), version |-> 1],
                     [uuid |-> Own, version |-> 65535]>>}
MCFeatureLists == {<<<<E(UINT8, <<1>>), E(UINT16, <<1, 2>>)>>>>,
                   <<<<E(TEXT_STR8, LongName)>>, <<E(UINT8, <<9>>)>>>>}

LibraryInit ==
  \/ bits = NoValue /\ RecInit
  \/ /\ bits \in MCValues
     /\ rec = sdp_record_alloc /\ served = rec /\ cpy = rec
     /\ wanted = Reads(rec) /\ unheeded = {}
     /\ phase = "names" /\ edits = 0

LibraryNext == bits = NoValue /\ RecNext /\ UNCHANGED bits

LibrarySpec == LibraryInit /\ [][LibraryNext]_<<recVars, bits>>

(* The short lists of names fit the fixed buffers they are written to, but   *)
(* for the sets of bits ShortNamesFit names, which do not; names listed with *)
(* commas are read as the bits they stand for, and a printed list, which has *)
(* spaces, as nothing (hci.c, hci_bit2str, hci_str2bit); the lists broken    *)
(* into lines fit the size computed for them (hci_commandstostr,             *)
(* lmp_featurestostr).                                                       *)
NamesFitAndRead ==
  /\ bits # NoValue => H!ShortNamesFit(bits) /\ H!NamesRead(bits)
  /\ bits \in MCRuns => H!BrokenTextFits(bits, {1, 8}, {86, 90})
=============================================================================
