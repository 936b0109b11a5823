----------------------------- MODULE HciNames ------------------------------
(***************************************************************************)
(* The names the HCI library has for flags, packet types, link policies    *)
(* and modes, commands, versions and features, and the functions that turn *)
(* a value into a string and back.                                         *)
(*                                                                         *)
(* A value of which the code looks at single bits is the set of these      *)
(* bits. A string is the sequence of its pieces; what matters of a piece   *)
(* is which name it is and how long it is. Names are compared without      *)
(* regard to case, and no two of a table differ in it alone.               *)
(***************************************************************************)
EXTENDS Integers, Sequences, FiniteSetsExt, SequencesExt

(* Entries are a name and the bits of its value.                             *)
dev_flags_map ==
  <<<<"UP", {0}>>, <<"INIT", {1}>>, <<"RUNNING", {2}>>, <<"RAW", {8}>>,
    <<"PSCAN", {3}>>, <<"ISCAN", {4}>>, <<"INQUIRY", {7}>>,
    <<"AUTH", {5}>>, <<"ENCRYPT", {6}>>>>

pkt_type_map ==
  <<<<"DM1", {3}>>, <<"DM3", {10}>>, <<"DM5", {14}>>, <<"DH1", {4}>>,
    <<"DH3", {11}>>, <<"DH5", {15}>>, <<"HV1", {5}>>, <<"HV2", {6}>>,
    <<"HV3", {7}>>, <<"2-DH1", {1}>>, <<"2-DH3", {8}>>, <<"2-DH5", {12}>>,
    <<"3-DH1", {2}>>, <<"3-DH3", {9}>>, <<"3-DH5", {13}>>>>

sco_ptype_map ==
  <<<<"HV1", {0}>>, <<"HV2", {1}>>, <<"HV3", {2}>>, <<"EV3", {3}>>,
    <<"EV4", {4}>>, <<"EV5", {5}>>, <<"2-EV3", {6}>>, <<"2-EV5", {8}>>,
    <<"3-EV3", {7}>>, <<"3-EV5", {9}>>>>

link_policy_map ==
  <<<<"NONE", {}>>, <<"RSWITCH", {0}>>, <<"HOLD", {1}>>, <<"SNIFF", {2}>>,
    <<"PARK", {3}>>>>

link_mode_map ==
  <<<<"NONE", {}>>, <<"ACCEPT", {15}>>, <<"MASTER", {0}>>, <<"AUTH", {1}>>,
    <<"ENCRYPT", {2}>>, <<"TRUSTED", {3}>>, <<"RELIABLE", {4}>>,
    <<"SECURE", {5}>>>>

(* Entries of the next two are a name and its value.                         *)
ver_map ==
  <<<<"1.0b", 0>>, <<"1.1", 1>>, <<"1.2", 2>>, <<"2.0", 3>>, <<"2.1", 4>>,
    <<"3.0", 5>>, <<"4.0", 6>>, <<"4.1", 7>>, <<"4.2", 8>>>>

pal_map == << <<"3.0", 1>> >>

(* The names of the bits of a controller's list of commands, in their order. *)
commands_map_low ==
  <<"Inquiry", "Inquiry Cancel", "Periodic Inquiry Mode",
    "Exit Periodic Inquiry Mode", "Create Connection", "Disconnect",
    "Add SCO Connection", "Cancel Create Connection",
    "Accept Connection Request", "Reject Connection Request",
    "Link Key Request Reply", "Link Key Request Negative Reply",
    "PIN Code Request Reply", "PIN Code Request Negative Reply",
    "Change Connection Packet Type", "Authentication Requested",
    "Set Connection Encryption", "Change Connection Link Key",
    "Master Link Key", "Remote Name Request", "Cancel Remote Name Request",
    "Read Remote Supported Features", "Read Remote Extended Features",
    "Read Remote Version Information", "Read Clock Offset",
    "Read LMP Handle", "Reserved", "Reserved", "Reserved", "Reserved",
    "Reserved", "Reserved", "Reserved", "Hold Mode", "Sniff Mode",
    "Exit Sniff Mode", "Park State", "Exit Park State", "QoS Setup",
    "Role Discovery", "Switch Role", "Read Link Policy Settings",
    "Write Link Policy Settings", "Read Default Link Policy Settings",
    "Write Default Link Policy Settings", "Flow Specification",
    "Set Event Mask", "Reset", "Set Event Filter", "Flush",
    "Read PIN Type", "Write PIN Type", "Create New Unit Key",
    "Read Stored Link Key", "Write Stored Link Key",
    "Delete Stored Link Key", "Write Local Name", "Read Local Name",
    "Read Connection Accept Timeout", "Write Connection Accept Timeout",
    "Read Page Timeout", "Write Page Timeout", "Read Scan Enable",
    "Write Scan Enable", "Read Page Scan Activity",
    "Write Page Scan Activity", "Read Inquiry Scan Activity",
    "Write Inquiry Scan Activity", "Read Authentication Enable",
    "Write Authentication Enable", "Read Encryption Mode",
    "Write Encryption Mode", "Read Class Of Device",
    "Write Class Of Device", "Read Voice Setting", "Write Voice Setting",
    "Read Automatic Flush Timeout", "Write Automatic Flush Timeout",
    "Read Num Broadcast Retransmissions",
    "Write Num Broadcast Retransmissions", "Read Hold Mode Activity",
    "Write Hold Mode Activity", "Read Transmit Power Level",
    "Read Synchronous Flow Control Enable",
    "Write Synchronous Flow Control Enable",
    "Set Host Controller To Host Flow Control", "Host Buffer Size",
    "Host Number Of Completed Packets", "Read Link Supervision Timeout",
    "Write Link Supervision Timeout", "Read Number of Supported IAC",
    "Read Current IAC LAP", "Write Current IAC LAP",
    "Read Page Scan Period Mode", "Write Page Scan Period Mode",
    "Read Page Scan Mode", "Write Page Scan Mode",
    "Set AFH Channel Classification", "Reserved", "Reserved",
    "Read Inquiry Scan Type", "Write Inquiry Scan Type",
    "Read Inquiry Mode", "Write Inquiry Mode", "Read Page Scan Type",
    "Write Page Scan Type", "Read AFH Channel Assessment Mode",
    "Write AFH Channel Assessment Mode", "Reserved", "Reserved",
    "Reserved", "Reserved", "Reserved", "Reserved">>

commands_map_high ==
  <<"Reserved", "Read Local Version Information",
    "Read Local Supported Commands", "Read Local Supported Features",
    "Read Local Extended Features", "Read Buffer Size",
    "Read Country Code", "Read BD ADDR", "Read Failed Contact Counter",
    "Reset Failed Contact Counter", "Get Link Quality", "Read RSSI",
    "Read AFH Channel Map", "Read BD Clock", "Read Loopback Mode",
    "Write Loopback Mode", "Enable Device Under Test Mode",
    "Setup Synchronous Connection", "Accept Synchronous Connection",
    "Reject Synchronous Connection", "Reserved", "Reserved",
    "Read Extended Inquiry Response", "Write Extended Inquiry Response",
    "Refresh Encryption Key", "Reserved", "Sniff Subrating",
    "Read Simple Pairing Mode", "Write Simple Pairing Mode",
    "Read Local OOB Data", "Read Inquiry Response Transmit Power Level",
    "Write Inquiry Transmit Power Level",
    "Read Default Erroneous Data Reporting",
    "Write Default Erroneous Data Reporting", "Reserved", "Reserved",
    "Reserved", "IO Capability Request Reply",
    "User Confirmation Request Reply",
    "User Confirmation Request Negative Reply",
    "User Passkey Request Reply", "User Passkey Request Negative Reply",
    "Remote OOB Data Request Reply", "Write Simple Pairing Debug Mode",
    "Enhanced Flush", "Remote OOB Data Request Negative Reply", "Reserved",
    "Reserved", "Send Keypress Notification",
    "IO Capability Request Negative Reply", "Read Encryption Key Size",
    "Reserved", "Reserved", "Reserved", "Create Physical Link",
    "Accept Physical Link", "Disconnect Physical Link",
    "Create Logical Link", "Accept Logical Link",
    "Disconnect Logical Link", "Logical Link Cancel",
    "Flow Specification Modify", "Read Logical Link Accept Timeout",
    "Write Logical Link Accept Timeout", "Set Event Mask Page 2",
    "Read Location Data", "Write Location Data", "Read Local AMP Info",
    "Read Local AMP_ASSOC", "Write Remote AMP_ASSOC",
    "Read Flow Control Mode", "Write Flow Control Mode",
    "Read Data Block Size", "Reserved", "Reserved",
    "Enable AMP Receiver Reports", "AMP Test End", "AMP Test Command",
    "Read Enhanced Transmit Power Level", "Reserved",
    "Read Best Effort Flush Timeout", "Write Best Effort Flush Timeout",
    "Short Range Mode", "Read LE Host Support", "Write LE Host Support",
    "Reserved", "LE Set Event Mask", "LE Read Buffer Size",
    "LE Read Local Supported Features", "Reserved",
    "LE Set Random Address", "LE Set Advertising Parameters",
    "LE Read Advertising Channel TX Power", "LE Set Advertising Data",
    "LE Set Scan Response Data", "LE Set Advertise Enable",
    "LE Set Scan Parameters", "LE Set Scan Enable", "LE Create Connection",
    "LE Create Connection Cancel", "LE Read White List Size",
    "LE Clear White List", "LE Add Device To White List",
    "LE Remove Device From White List", "LE Connection Update",
    "LE Set Host Channel Classification", "LE Read Channel Map",
    "LE Read Remote Used Features", "LE Encrypt", "LE Rand",
    "LE Start Encryption", "LE Long Term Key Request Reply",
    "LE Long Term Key Request Negative Reply", "LE Read Supported States",
    "LE Receiver Test", "LE Transmitter Test", "LE Test End", "Reserved">>

commands_map == [i \in 1 .. 232 |->
  << (commands_map_low \o commands_map_high)[i], {i - 1} >>]

(* The features, byte by byte: the bits of byte 2 are 0 to 3 and 7.          *)
lmp_feature_names ==
  <<<<"<3-slot packets>", "<5-slot packets>", "<encryption>",
      "<slot offset>", "<timing accuracy>", "<role switch>", "<hold mode>",
      "<sniff mode>">>,
    <<"<park state>", "<RSSI>", "<channel quality>", "<SCO link>",
      "<HV2 packets>", "<HV3 packets>", "<u-law log>", "<A-law log>">>,
    <<"<CVSD>", "<paging scheme>", "<power control>", "<transparent SCO>",
      "<broadcast encrypt>">>,
    <<"<no. 24>", "<EDR ACL 2 Mbps>", "<EDR ACL 3 Mbps>",
      "<enhanced iscan>", "<interlaced iscan>", "<interlaced pscan>",
      "<inquiry with RSSI>", "<extended SCO>">>,
    <<"<EV4 packets>", "<EV5 packets>", "<no. 34>", "<AFH cap. slave>",
      "<AFH class. slave>", "<BR/EDR not supp.>", "<LE support>",
      "<3-slot EDR ACL>">>,
    <<"<5-slot EDR ACL>", "<sniff subrating>", "<pause encryption>",
      "<AFH cap. master>", "<AFH class. master>", "<EDR eSCO 2 Mbps>",
      "<EDR eSCO 3 Mbps>", "<3-slot EDR eSCO>">>,
    <<"<extended inquiry>", "<LE and BR/EDR>", "<no. 50>",
      "<simple pairing>", "<encapsulated PDU>", "<err. data report>",
      "<non-flush flag>", "<no. 55>">>,
    <<"<LSTO>", "<inquiry TX power>", "<EPC>", "<no. 59>", "<no. 60>",
      "<no. 61>", "<no. 62>", "<extended features>">>>>

lmp_features_map == [byte \in 1 .. 8 |->
  [i \in DOMAIN lmp_feature_names[byte] |->
     << lmp_feature_names[byte][i],
        {8 * (byte - 1) + (IF byte = 3 /\ i = 5 THEN 7 ELSE i - 1)} >>]]

-----------------------------------------------------------------------------
(* The functions over a table.                                               *)

StrLen(s) == FoldLeft(LAMBDA n, piece : n + Len(piece), 0, s)

(* The entries with a bit of the value, in the order of the table.           *)
Chosen(m, val) ==
  LET upTo[n \in 0 .. Len(m)] ==
        IF n = 0 THEN <<>>
        ELSE IF m[n][2] \cap val # {} THEN Append(upTo[n - 1], m[n])
        ELSE upTo[n - 1]
  IN upTo[Len(m)]

Names(entries) == [i \in DOMAIN entries |-> entries[i][1]]

(* Each name is printed with a space after it.                               *)
hci_bit2str(m, val) ==
  LET names == Names(Chosen(m, val))
  IN [i \in 1 .. 2 * Len(names) |->
        IF i % 2 = 1 THEN names[(i + 1) \div 2] ELSE " "]

(* The piece at i stands alone between two commas or ends of the string, as  *)
(* strsep cuts it: what is cut into several pieces is no name of a table.    *)
IsToken(str, i) ==
  /\ i = 1 \/ str[i - 1] = ","
  /\ i = Len(str) \/ str[i + 1] = ","

(* The tokens of the string are separated by commas, and by nothing else;    *)
(* unknown ones are passed over. The result says whether there was a known   *)
(* one.                                                                      *)
hci_str2bit(m, str) ==
  LET known == {k \in DOMAIN m :
                  \E i \in DOMAIN str : IsToken(str, i) /\ m[k][1] = str[i]}
  IN [set |-> known # {}, val |-> UNION {m[k][2] : k \in known}]

(* The first entry with the value; the string is empty if there is none.     *)
hci_uint2str(m, val) ==
  LET at == {k \in DOMAIN m : m[k][2] = val}
  IN IF at = {} THEN <<>> ELSE << m[Min(at)][1] >>

(* The last known token decides, and the first entry of its name.            *)
hci_str2uint(m, str, before) ==
  LET known == {i \in DOMAIN str :
                  IsToken(str, i) /\ \E k \in DOMAIN m : m[k][1] = str[i]}
  IN IF known = {} THEN [set |-> FALSE, val |-> before]
     ELSE [set |-> TRUE,
           val |-> m[Min({k \in DOMAIN m : m[k][1] = str[Max(known)]})][2]]

hci_bustostr(bus) ==
  LET names == <<"Virtual", "USB", "PCCARD", "UART", "RS232", "PCI", "SDIO",
                 "SPI", "I2C", "SMD">>
  IN IF bus + 1 \in DOMAIN names THEN names[bus + 1] ELSE "Unknown"

hci_dtypetostr(type) == hci_bustostr(type % 16)

hci_typetostr(type) ==
  CASE type = 0 -> "Primary" [] type = 1 -> "AMP" [] OTHER -> "Unknown"

HCI_UP == 0
HCI_LM_MASTER == 0

hci_dflagstostr(flags) ==
  (IF HCI_UP \in flags THEN <<>> ELSE <<"DOWN ">>)
    \o hci_bit2str(dev_flags_map, flags)

hci_lmtostr(lm) ==
  (IF HCI_LM_MASTER \in lm THEN <<>> ELSE <<"SLAVE ">>)
    \o hci_bit2str(link_mode_map, lm)

hci_ptypetostr(ptype) == hci_bit2str(pkt_type_map, ptype)
hci_strtoptype(str) == hci_str2bit(pkt_type_map, str)
hci_scoptypetostr(ptype) == hci_bit2str(sco_ptype_map, ptype)
hci_strtoscoptype(str) == hci_str2bit(sco_ptype_map, str)
hci_lptostr(lp) == hci_bit2str(link_policy_map, lp)
hci_strtolp(str) == hci_str2bit(link_policy_map, str)
hci_strtolm(str) == hci_str2bit(link_mode_map, str)
hci_cmdtostr(cmd) == hci_uint2str(commands_map, {cmd})
hci_vertostr(ver) == hci_uint2str(ver_map, ver)
hci_strtover(str) == hci_str2uint(ver_map, str, 0)
pal_vertostr(ver) == hci_uint2str(pal_map, ver)
pal_strtover(str) == hci_str2uint(pal_map, str, 0)

-----------------------------------------------------------------------------
(* The two functions that break their string into lines. Of the string they  *)
(* build it matters how long it is and how long its lines are.               *)

(* Names are added with so many more characters each, after pref on each     *)
(* line; before a name that does not fit a line is begun.                    *)
Broken(names, pref, extra, maxwidth) ==
  FoldLeft(LAMBDA s, name :
             LET breaks == s.line + Len(name) > maxwidth
                 line == (IF breaks THEN 0 ELSE s.line) + Len(name) + extra
             IN [len |-> s.len + Len(name) + extra
                           + (IF breaks THEN 1 + pref ELSE 0),
                 line |-> line,
                 longest |-> Max({s.longest, line})],
           [len |-> pref, line |-> 0, longest |-> 0], names)

(* Mutant: the characters added to each name are not counted.                *)
SizeFor_NamesOnly(names, pref, extra) ==
  FoldLeft(LAMBDA n, name : n + Len(name) + pref, 10, names)

(* The size asked of bt_malloc.                                              *)
SizeFor(names, pref, extra) ==
  FoldLeft(LAMBDA n, name : n + Len(name) + pref + extra, 10, names)

(* maxwidth is unsigned: a width below what is taken off it limits nothing.  *)
Unsigned(n) == IF n < 0 THEN 2^30 ELSE n

hci_commandstostr(commands, pref, width) ==
  LET names == Names(Chosen(commands_map, commands))
  IN [size |-> SizeFor(names, pref, 3),
      text |-> Broken(names, pref, 3, Unsigned(width - 3))]

lmp_featurestostr(features, pref, width) ==
  LET names == Names(FlattenSeq([byte \in 1 .. 8 |->
                                   Chosen(lmp_features_map[byte], features)]))
  IN [size |-> SizeFor(names, pref, 1),
      text |-> Broken(names, pref, 1, Unsigned(width - 1))]

-----------------------------------------------------------------------------
(* Properties of a value, the set of its bits.                               *)

(* The tables that have a function from a value to a string and one back.    *)
ReadTables == {pkt_type_map, sco_ptype_map, link_policy_map, link_mode_map}

(* What the functions write into their buffers of 120 and 50 bytes fits, the *)
(* terminator included: always for packet types and policies, for devices    *)
(* unless seven flags beside UP are set, and for link modes unless all six   *)
(* beside MASTER are.                                                        *)
ShortNamesFit(val) ==
  /\ \A m \in ReadTables : StrLen(hci_bit2str(m, val)) < 120
  /\ Cardinality(val \cap (1 .. 8)) < 7 => StrLen(hci_dflagstostr(val)) < 50
  /\ ~ {1, 2, 3, 4, 5, 15} \subseteq val => StrLen(hci_lmtostr(val)) < 50

(* Names with a comma between any two, as a user of hci_strtoptype, of       *)
(* hci_strtoscoptype, of hci_strtolp or of hci_strtolm has to give them.     *)
Listed(names) ==
  [i \in 1 .. 2 * Len(names) - 1 |->
     IF i % 2 = 1 THEN names[(i + 1) \div 2] ELSE ","]

(* The names a table has for a value, listed with commas, are read as the    *)
(* bits of the value that the table has, and as no other. The string that    *)
(* hci_bit2str prints is not such a list: each of its names is followed by a *)
(* space, and hci_str2bit knows none of it.                                  *)
NamesRead(val) ==
  \A m \in ReadTables :
    LET names == Names(Chosen(m, val))
    IN /\ hci_str2bit(m, Listed(names)).val
            = val \cap UNION {m[k][2] : k \in DOMAIN m}
       /\ ~ hci_str2bit(m, hci_bit2str(m, val)).set

(* The size computed beforehand is enough for what is then written, although *)
(* it counts a prefix for each name and nothing for the line breaks, if      *)
(* there is a prefix and a line has room for any two names; and no line is   *)
(* longer than asked.                                                        *)
BrokenTextFits(val, prefs, widths) ==
  \A pref \in prefs, width \in widths :
    \A s \in {hci_commandstostr(val, pref, width),
              lmp_featurestostr(val, pref, width)} :
      s.text.len < s.size /\ s.text.longest <= width
=============================================================================
