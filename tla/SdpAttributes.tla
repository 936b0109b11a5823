--------------------------- MODULE SdpAttributes ---------------------------
(***************************************************************************)
(* A service record of the SDP library (sdp.c): its list of attributes, the *)
(* functions that set and read them, its form as a PDU and the record a     *)
(* receiver makes of the PDU.                                              *)
(*                                                                         *)
(* A record is [handle, svclass, pattern, attrs]. attrs is sorted by id and *)
(* has an id once: [id, elems], where elems is the element and what follows *)
(* it through its "next". pattern is the set of its UUIDs, all 128 bits     *)
(* long, and svclass a UUID as [dtd, val]. Arguments are well-formed and    *)
(* not NULL but where a function takes NULL.                                *)
(***************************************************************************)
EXTENDS SdpData

SDP_ATTR_RECORD_HANDLE == 0          SDP_ATTR_SVCLASS_ID_LIST == 1
SDP_ATTR_SERVICE_ID == 3             SDP_ATTR_PROTO_DESC_LIST == 4
SDP_ATTR_BROWSE_GRP_LIST == 5        SDP_ATTR_LANG_BASE_ATTR_ID_LIST == 6
SDP_ATTR_PFILE_DESC_LIST == 9        SDP_ATTR_DOC_URL == 10
SDP_ATTR_CLNT_EXEC_URL == 11         SDP_ATTR_ICON_URL == 12
SDP_ATTR_ADD_PROTO_DESC_LIST == 13   SDP_ATTR_SVCNAME_PRIMARY == 256
SDP_ATTR_SVCDESC_PRIMARY == 257      SDP_ATTR_PROVNAME_PRIMARY == 258
SDP_ATTR_GROUP_ID == 512             \* supported features and versions too
SDP_ATTR_SVCDB_STATE == 513

Null == [dtd |-> -1, val |-> <<>>]   \* the NULL argument, or an empty UUID
Uuid(e) == [dtd |-> e.dtd, val |-> e.val]
NoHandle == -1                       \* 0xffffffff

sdp_record_alloc == [handle |-> NoHandle, svclass |-> Null, pattern |-> {},
                     attrs |-> <<>>]

(* sdp_data_get: the element and its followers, or nothing.                  *)
sdp_data_get(rec, id) ==
  FoldLeft(LAMBDA found, a : IF a.id = id THEN a.elems ELSE found, <<>>, rec.attrs)

(* The UUID that leads a list of service classes.                            *)
extract_svclass_uuid(d, svclass) ==
  IF IsSeq(d.dtd) /\ d.seq # <<>> /\ d.seq[1].dtd \in UUID16 .. UUID128
    THEN Uuid(d.seq[1]) ELSE svclass

InsertSorted(attrs, a) ==
  SelectSeq(attrs, LAMBDA b : b.id < a.id) \o <<a>>
    \o SelectSeq(attrs, LAMBDA b : b.id >= a.id)

WithAttr(rec, id, elems) ==
  [rec EXCEPT !.attrs = InsertSorted(rec.attrs, [id |-> id, elems |-> elems]),
              !.svclass = IF id = SDP_ATTR_SVCLASS_ID_LIST
                            THEN extract_svclass_uuid(elems[1], rec.svclass)
                            ELSE rec.svclass]

Without(rec, id) ==
  [rec EXCEPT !.attrs = SelectSeq(rec.attrs, LAMBDA b : b.id # id)]

(* An attribute that is there already stays as it is (the call fails).       *)
sdp_attr_add(rec, id, elems) ==
  IF sdp_data_get(rec, id) # <<>> THEN rec ELSE WithAttr(rec, id, elems)

sdp_attr_replace(rec, id, d) == WithAttr(Without(rec, id), id, <<d>>)

sdp_attr_remove(rec, id) ==
  [Without(rec, id) EXCEPT
     !.svclass = IF id = SDP_ATTR_SVCLASS_ID_LIST THEN Null ELSE rec.svclass]

(* NULL strings fail and leave the record as it was.                         *)
sdp_attr_add_new(rec, id, dtd, val) ==
  IF val = Null.val THEN rec
  ELSE sdp_attr_replace(rec, id, sdp_data_alloc(dtd, val))

-----------------------------------------------------------------------------
(* Setting attributes.                                                       *)

sdp_pattern_add_uuid(rec, u) ==
  [rec EXCEPT !.pattern = @ \cup {sdp_uuid_to_uuid128(u)}]
sdp_pattern_add_uuidseq(rec, us) == FoldLeft(sdp_pattern_add_uuid, rec, us)

(* Mutant: the pattern is not told.                                          *)
sdp_set_uuidseq_attr_NoPattern(rec, id, us) ==
  IF us = <<>> THEN rec ELSE sdp_attr_replace(rec, id, sdp_seq_alloc(us))

(* An empty list is refused.                                                 *)
sdp_set_uuidseq_attr(rec, id, us) ==
  IF us = <<>> THEN rec
  ELSE sdp_pattern_add_uuidseq(sdp_attr_replace(rec, id, sdp_seq_alloc(us)), us)

(* name, provider and description, each of which may be NULL.                *)
sdp_set_info_attr(rec, name, prov, desc) ==
  LET r1 == sdp_attr_add_new(rec, SDP_ATTR_SVCNAME_PRIMARY, TEXT_STR8, name)
      r2 == sdp_attr_add_new(r1, SDP_ATTR_PROVNAME_PRIMARY, TEXT_STR8, prov)
  IN sdp_attr_add_new(r2, SDP_ATTR_SVCDESC_PRIMARY, TEXT_STR8, desc)

(* The protocols of one way of access, each as a sequence of at most ten     *)
(* elements; the last UUID of each goes into the pattern.                    *)
access_proto_to_dataseq(protos) ==
  sdp_seq_alloc([i \in DOMAIN protos |->
    sdp_seq_alloc(SubSeq(protos[i], 1, IF Len(protos[i]) < 10 THEN Len(protos[i])
                                                              ELSE 10))])

ProtoUuids(protos) ==
  LET lastOf(p) == SelectSeq(p, LAMBDA e : IsUuid(e.dtd))
  IN [i \in DOMAIN protos |-> lastOf(protos[i])[Len(lastOf(protos[i]))]]

WithProtoUuids(rec, ap) ==
  FoldLeft(LAMBDA r, protos : sdp_pattern_add_uuidseq(r, ProtoUuids(protos)), rec, ap)

(* The ways of access are chained to the first, which alone is the value of  *)
(* the attribute.                                                            *)
sdp_set_access_protos(rec, ap) ==
  sdp_attr_add(WithProtoUuids(rec, ap), SDP_ATTR_PROTO_DESC_LIST,
               [i \in DOMAIN ap |-> access_proto_to_dataseq(ap[i])])

(* Here they are the elements of a sequence.                                 *)
sdp_set_add_access_protos(rec, ap) ==
  sdp_attr_add(WithProtoUuids(rec, ap), SDP_ATTR_ADD_PROTO_DESC_LIST,
    <<sdp_data_alloc_with_length(SEQ8, <<>>,
        [i \in DOMAIN ap |-> access_proto_to_dataseq(ap[i])])>>)

(* Languages are triples of 16-bit numbers.                                  *)
sdp_set_lang_attr(rec, langs) ==
  LET numbers(l) == [i \in 1 .. 3 |-> Element(UINT16, 0, BigEndian(l[i], 2), <<>>)]
  IN sdp_attr_add(rec, SDP_ATTR_LANG_BASE_ATTR_ID_LIST,
       <<sdp_seq_alloc(FlattenSeq([i \in DOMAIN langs |-> numbers(langs[i])]))>>)

sdp_add_lang_attr(rec) == sdp_set_lang_attr(rec, <<<<25966, 106, 256>>>>)

sdp_set_service_id(rec, u) ==
  sdp_pattern_add_uuid(sdp_attr_add_new(rec, SDP_ATTR_SERVICE_ID, u.dtd, u.val), u)
sdp_set_group_id(rec, u) ==
  sdp_pattern_add_uuid(sdp_attr_add_new(rec, SDP_ATTR_GROUP_ID, u.dtd, u.val), u)

(* Profiles are pairs of a UUID and a version.                               *)
sdp_set_profile_descs(rec, profiles) ==
  LET pair(p) == sdp_seq_alloc(<<p.uuid, Element(UINT16, 0, BigEndian(p.version, 2), <<>>)>>)
      named == sdp_pattern_add_uuidseq(rec, [i \in DOMAIN profiles |-> profiles[i].uuid])
  IN sdp_attr_add(named, SDP_ATTR_PFILE_DESC_LIST,
                  <<sdp_seq_alloc([i \in DOMAIN profiles |-> pair(profiles[i])])>>)

sdp_set_url_attr(rec, client, doc, icon) ==
  LET r1 == sdp_attr_add_new(rec, SDP_ATTR_CLNT_EXEC_URL, URL_STR8, client)
      r2 == sdp_attr_add_new(r1, SDP_ATTR_DOC_URL, URL_STR8, doc)
  IN sdp_attr_add_new(r2, SDP_ATTR_ICON_URL, URL_STR8, icon)

(* Lists of numbers and strings (lists within them are not modelled).        *)
sdp_set_supp_feat(rec, features) ==
  sdp_attr_replace(rec, SDP_ATTR_GROUP_ID,
    sdp_seq_alloc([i \in DOMAIN features |-> sdp_seq_alloc(features[i])]))

-----------------------------------------------------------------------------
(* Reading attributes: the sequence of what is read. The lists set have      *)
(* elements, so none stands for a call that fails.                           *)

Failed == <<>>
First(rec, id) == sdp_data_get(rec, id)[1]
Has(rec, id) == sdp_data_get(rec, id) # <<>>
HasSeq(rec, id) == Has(rec, id) /\ IsSeq(First(rec, id).dtd)
Views(seq) == [i \in DOMAIN seq |-> Uuid(seq[i])]

sdp_get_uuidseq_attr(rec, id) ==
  IF HasSeq(rec, id) /\ \A i \in DOMAIN First(rec, id).seq :
                           First(rec, id).seq[i].dtd \in UUID16 .. UUID128
    THEN Views(First(rec, id).seq) ELSE Failed

(* One list per way of access, each of its protocols as their elements.      *)
sdp_get_proto_descs(rec, id) ==
  LET ways == IF id = SDP_ATTR_ADD_PROTO_DESC_LIST
                THEN First(rec, id).seq ELSE sdp_data_get(rec, id)
      good(w) == /\ IsSeq(w.dtd) \/ IsAlt(w.dtd)
                 /\ \A i \in DOMAIN w.seq : IsSeq(w.seq[i].dtd)
  IN IF ~Has(rec, id) \/ (id = SDP_ATTR_ADD_PROTO_DESC_LIST /\ ~HasSeq(rec, id))
       THEN Failed
     ELSE IF \E i \in DOMAIN ways : ~good(ways[i]) THEN Failed
     ELSE [i \in DOMAIN ways |->
            [j \in DOMAIN ways[i].seq |-> Views(ways[i].seq[j].seq)]]

(* The number that follows the protocol's UUID in the first description of   *)
(* it that has one; 0 if there is none.                                      *)
sdp_get_proto_port(list, proto) ==
  LET __find_port(p) ==
        IF Len(p) > 1 /\ IsUuid(p[1].dtd) /\ sdp_uuid_to_proto(p[1]) = proto
           /\ p[2].dtd \in {UINT8, UINT16} THEN Number(p[2].val) ELSE 0
      ports == SelectSeq([i \in DOMAIN FlattenSeq(list) |->
                            __find_port(FlattenSeq(list)[i])],
                         LAMBDA n : n # 0)
  IN IF ports = <<>> THEN 0 ELSE ports[1]

(* Triples of 16-bit numbers, and no other number of them.                   *)
sdp_get_lang_attr(rec) ==
  LET s == First(rec, SDP_ATTR_LANG_BASE_ATTR_ID_LIST).seq
  IN IF /\ HasSeq(rec, SDP_ATTR_LANG_BASE_ATTR_ID_LIST)
        /\ Len(s) % 3 = 0
        /\ \A i \in DOMAIN s : s[i].dtd = UINT16
       THEN [i \in 1 .. Len(s) \div 3 |->
              [j \in 1 .. 3 |-> Number(s[3 * (i - 1) + j].val)]]
       ELSE Failed

(* Pairs, or (as some systems send them) UUIDs that a version may follow.    *)
RECURSIVE ProfileList(_, _)
ProfileList(s, found) ==
  LET e == s[1]
      loose == IsUuid(e.dtd)
      versioned == Len(s) > 1 /\ s[2].dtd = UINT16
      paired == IsSeq(e.dtd) /\ Len(e.seq) > 1 /\ IsUuid(e.seq[1].dtd)
                  /\ e.seq[2].dtd = UINT16
      desc == IF loose
                THEN [uuid |-> Uuid(e),
                      version |-> IF versioned THEN Number(s[2].val) ELSE 256]
                ELSE [uuid |-> Uuid(e.seq[1]), version |-> Number(e.seq[2].val)]
      rest == SubSeq(s, IF loose /\ versioned THEN 3 ELSE 2, Len(s))
  IN IF s = <<>> THEN found
     ELSE IF loose \/ paired THEN ProfileList(rest, Append(found, desc))
     ELSE Failed

sdp_get_profile_descs(rec) ==
  IF HasSeq(rec, SDP_ATTR_PFILE_DESC_LIST)
    THEN ProfileList(First(rec, SDP_ATTR_PFILE_DESC_LIST).seq, <<>>) ELSE Failed

(* The 32 bits of val.uint32, whose other bytes an allocation has cleared.   *)
sdp_get_int_attr(rec, id) ==
  IF Has(rec, id) /\ First(rec, id).dtd \in {BOOL, 8, 9, 10, 16, 17, 18}
    THEN <<Number(First(rec, id).val)>> ELSE Failed

sdp_get_string_attr(rec, id, valuelen) ==
  IF Has(rec, id) /\ IsText(First(rec, id).dtd)
     /\ Len(First(rec, id).val) < valuelen
    THEN First(rec, id).val ELSE Failed

(* sdp_get_service_id and its like read the field without looking at dtd.    *)
get_basic_attr(rec, id) ==
  IF Has(rec, id) THEN <<Uuid(First(rec, id))>> ELSE Failed

(* Lists of strings and numbers; no such lists, and it is a list of UUIDs.   *)
sdp_get_supp_feat(rec) ==
  LET d == First(rec, SDP_ATTR_GROUP_ID)
      good(e) == e.dtd \in {UINT8, UINT16, 37, 38, 69, 70}
  IN IF ~HasSeq(rec, SDP_ATTR_GROUP_ID)
       THEN sdp_get_uuidseq_attr(rec, SDP_ATTR_GROUP_ID)
     ELSE IF \E i \in DOMAIN d.seq : \/ ~IsSeq(d.seq[i].dtd)
                                     \/ \E j \in DOMAIN d.seq[i].seq :
                                          ~good(d.seq[i].seq[j])
       THEN Failed
     ELSE [i \in DOMAIN d.seq |-> Views(d.seq[i].seq)]

-----------------------------------------------------------------------------
(* The record as a PDU, and back.                                            *)

(* Mutant: the list of attributes is not made a SEQ16 when it grows.         *)
sdp_append_to_buf_Short(dst, data) ==
  LET body == SubSeq(dst, 3, Len(dst)) \o data
  IN <<SEQ8, Len(body) % 256>> \o body

(* Nothing looks at the end of dst.                                          *)
sdp_append_to_buf(dst, data) ==
  LET all == (IF dst = <<>> THEN <<SEQ8, 0>> ELSE dst) \o data
      body == SubSeq(all, sdp_get_data_type_size(all[1]) + 1, Len(all))
      dtd == IF Len(all) > 255 /\ all[1] = SEQ8 THEN SEQ16 ELSE all[1]
  IN <<dtd>> \o BigEndian(Len(body), LengthWidth(dtd)) \o body

(* The attribute's own buffer holds its id and its element.                  *)
AttrPdu(a, once) ==
  sdp_gen_pdu(<<UINT16>> \o BigEndian(a.id, 2),
              sdp_gen_buffer(0, a.elems[1], once), a.elems[1])

sdp_append_to_pdu(pdu, a, once) == sdp_append_to_buf(pdu, AttrPdu(a, once).data)

(* [cap, data, attrs]: the size reserved, the bytes, and the attributes with *)
(* the sequences that were made SEQ16.                                       *)
sdp_gen_record_pdu(rec, once) ==
  [cap |-> FoldLeft(LAMBDA n, a : sdp_gen_buffer(n, a.elems[1], once), 0, rec.attrs),
   data |-> FoldLeft(LAMBDA pdu, a : sdp_append_to_pdu(pdu, a, once), <<>>, rec.attrs),
   attrs |-> [i \in DOMAIN rec.attrs |->
               [rec.attrs[i] EXCEPT !.elems[1] = AttrPdu(rec.attrs[i], once).d]]]

(* Attributes are taken until the length is used up or one fails.            *)
RECURSIVE ExtractAttributes(_, _, _)
ExtractAttributes(rec, p, left) ==
  LET id == Number(SubSeq(p, 2, 3))
      e == sdp_extract_attr(SubSeq(p, 4, Len(p)))
      r1 == [rec EXCEPT !.pattern = @ \cup e.uuids,
                        !.handle = IF id = SDP_ATTR_RECORD_HANDLE
                                     THEN Number(e.d.val) ELSE @]
  IN IF left <= 0 \/ Len(p) < 4 \/ ~e.ok THEN rec
     ELSE ExtractAttributes(sdp_attr_replace(r1, id, e.d),
                            SubSeq(p, 4 + e.n, Len(p)), left - 3 - e.n)

sdp_extract_pdu(p) ==
  LET head == sdp_extract_seqtype(p)
  IN ExtractAttributes(sdp_record_alloc, SubSeq(p, head.n + 1, Len(p)), head.size)

-----------------------------------------------------------------------------
(* Mutant: the length of a string is taken to be its unitSize here too.      *)
sdp_copy_attrlist_Long(rec, a) ==
  sdp_attr_replace(rec, a.id, sdp_copy_seq(<<a.elems[1]>>)[1])

(* Each attribute is made again; a string has its own length here, and what  *)
(* follows an element through "next" is left behind.                         *)
sdp_copy_attrlist(rec, a) ==
  LET d == a.elems[1]
  IN sdp_attr_replace(rec, a.id,
       sdp_data_alloc_with_length(d.dtd, d.val, sdp_copy_seq(d.seq)))

sdp_copy_record(rec) ==
  [FoldLeft(sdp_copy_attrlist, [sdp_record_alloc EXCEPT !.pattern = rec.pattern],
            rec.attrs) EXCEPT !.handle = rec.handle, !.svclass = rec.svclass]

=============================================================================
