----------------------------- MODULE SdpRecord -----------------------------
(***************************************************************************)
(* The life of a service record: a service sets and removes its attributes *)
(* in any order, copies it, and registers it, whereupon the server (and    *)
(* every client that asks it) has what sdp_extract_pdu makes of the bytes  *)
(* sent.  What the service last asked for is kept beside it, as what the   *)
(* reading functions should find, with a note of what is not done.         *)
(*                                                                         *)
(* The strings of a record are not empty, each protocol is described by    *)
(* one UUID, and NULL is passed for a list only to remove one that is set  *)
(* (sdp_set_access_protos would write through it otherwise).               *)
(***************************************************************************)
EXTENDS SdpAttributes

CONSTANTS
  ClassLists, Texts, ProtoLists, LangLists, Ids, ProfileLists, FeatureLists,
                 \* what the service passes to the setters
  FirstHandle,   \* the handle the server gives to a new record
  MaxEdits       \* bound: calls on one record

VARIABLES
  rec,       \* the record
  wanted,    \* what should be read from it
  unheeded,  \* what of that the setters have not done
  served,    \* the server's record
  cpy,       \* the copy
  phase,     \* what was done last: "edited", "served", "copied"
  edits      \* calls so far

recVars == <<rec, wanted, unheeded, served, cpy, phase, edits>>

(* Everything the reading functions find in a record.                        *)
Reads(r) ==
  [classes |-> sdp_get_uuidseq_attr(r, SDP_ATTR_SVCLASS_ID_LIST),
   groups |-> sdp_get_uuidseq_attr(r, SDP_ATTR_BROWSE_GRP_LIST),
   name |-> sdp_get_string_attr(r, SDP_ATTR_SVCNAME_PRIMARY, 300),
   provider |-> sdp_get_string_attr(r, SDP_ATTR_PROVNAME_PRIMARY, 300),
   protos |-> sdp_get_proto_descs(r, SDP_ATTR_PROTO_DESC_LIST),
   add_protos |-> sdp_get_proto_descs(r, SDP_ATTR_ADD_PROTO_DESC_LIST),
   langs |-> sdp_get_lang_attr(r),
   profiles |-> sdp_get_profile_descs(r),
   id |-> get_basic_attr(r, SDP_ATTR_SERVICE_ID),
   features |-> sdp_get_supp_feat(r),
   state |-> sdp_get_int_attr(r, SDP_ATTR_SVCDB_STATE)]

(* A record begins with its service classes and, as most do, with English.   *)
English == <<<<25966, 106, 256>>>>
New(classes) ==
  sdp_add_lang_attr(sdp_set_uuidseq_attr(sdp_record_alloc,
                                         SDP_ATTR_SVCLASS_ID_LIST, classes))

RecInit ==
  /\ \E classes \in ClassLists :
       /\ rec = New(classes)
       /\ wanted = [Reads(sdp_record_alloc) EXCEPT !.classes = Views(classes),
                                                   !.langs = English]
  /\ unheeded = {}
  /\ served = sdp_record_alloc
  /\ cpy = sdp_record_alloc
  /\ phase = "edited"
  /\ edits = 0

Change(r, w, u) ==
  /\ edits < MaxEdits
  /\ edits' = edits + 1
  /\ rec' = r
  /\ wanted' = w
  /\ unheeded' = u
  /\ cpy' = sdp_record_alloc
  /\ phase' = "edited"
  /\ UNCHANGED served

Edit(r, w) == Change(r, w, unheeded)

SetClasses(classes) ==
  Edit(sdp_set_uuidseq_attr(rec, SDP_ATTR_SVCLASS_ID_LIST, classes),
       [wanted EXCEPT !.classes = Views(classes)])

SetGroups(groups) ==
  Edit(sdp_set_uuidseq_attr(rec, SDP_ATTR_BROWSE_GRP_LIST, groups),
       [wanted EXCEPT !.groups = Views(groups)])

(* A NULL name or provider leaves the one that was set.                      *)
SetInfo(name, prov) ==
  Edit(sdp_set_info_attr(rec, name, prov, Null.val),
       [wanted EXCEPT !.name = IF name = Null.val THEN @ ELSE name,
                      !.provider = IF prov = Null.val THEN @ ELSE prov])

SetUrl(url) ==
  Edit(sdp_set_url_attr(rec, url, Null.val, url), wanted)

(* A list that is set by adding an attribute: what is there already is       *)
(* neither replaced nor, with an empty list for NULL, removed.               *)
SetList(r, list, id, field, value) ==
  LET isThere == sdp_data_get(rec, id) # <<>>
  IN /\ list # <<>> \/ isThere
     /\ Change(r,
               [wanted EXCEPT ![field] = IF list = <<>> THEN Failed ELSE value],
               IF isThere THEN unheeded \cup {field} ELSE unheeded)

ProtoViews(ap) ==
  [i \in DOMAIN ap |-> [j \in DOMAIN ap[i] |-> Views(ap[i][j])]]

(* Of several ways of access only the first becomes the attribute.           *)
SetProtos(ap) ==
  SetList(sdp_set_access_protos(rec, ap), ap, SDP_ATTR_PROTO_DESC_LIST, "protos",
          SubSeq(ProtoViews(ap), 1, 1))

SetAddProtos(ap) ==
  SetList(sdp_set_add_access_protos(rec, ap), ap, SDP_ATTR_ADD_PROTO_DESC_LIST,
          "add_protos", ProtoViews(ap))

SetLangs(langs) ==
  SetList(sdp_set_lang_attr(rec, langs), langs, SDP_ATTR_LANG_BASE_ATTR_ID_LIST,
          "langs", langs)

ProfileViews(profiles) ==
  [i \in DOMAIN profiles |-> [profiles[i] EXCEPT !.uuid = Uuid(@)]]

SetProfiles(profiles) ==
  SetList(sdp_set_profile_descs(rec, profiles), profiles, SDP_ATTR_PFILE_DESC_LIST,
          "profiles", ProfileViews(profiles))

SetId(u) ==
  Edit(sdp_set_service_id(rec, u), [wanted EXCEPT !.id = <<Uuid(u)>>])

(* Group id and supported features are the same attribute.                   *)
SetGroup(u) ==
  Edit(sdp_set_group_id(rec, u), [wanted EXCEPT !.features = Failed])

SetFeatures(features) ==
  Edit(sdp_set_supp_feat(rec, features),
       [wanted EXCEPT !.features = [i \in DOMAIN features |-> Views(features[i])]])

SetState(n) ==
  Edit(sdp_attr_add_new(rec, SDP_ATTR_SVCDB_STATE, UINT32, BigEndian(n, 4)),
       [wanted EXCEPT !.state = <<n>>])

RemoveLangs ==
  Change(sdp_attr_remove(rec, SDP_ATTR_LANG_BASE_ATTR_ID_LIST),
         [wanted EXCEPT !.langs = Failed], unheeded \ {"langs"})

RemoveClasses ==
  Edit(sdp_attr_remove(rec, SDP_ATTR_SVCLASS_ID_LIST),
       [wanted EXCEPT !.classes = Failed])

WithHandle(r, handle) ==
  sdp_attr_replace(r, SDP_ATTR_RECORD_HANDLE,
                   sdp_data_alloc(UINT32, BigEndian(handle, 4)))

(* sdp_device_record_register: a record that had a handle is sent with it;   *)
(* the sequences that were made SEQ16 stay so whether or not the server      *)
(* takes the record; if it does, the record gets the handle the server gave. *)
sdp_device_record_register(once, accepted) ==
  LET named == IF rec.handle \in {0, NoHandle} THEN rec ELSE WithHandle(rec, rec.handle)
      pdu == sdp_gen_record_pdu(named, once)
      sent == [named EXCEPT !.attrs = pdu.attrs]
      handle == IF rec.handle \in {0, NoHandle} THEN FirstHandle ELSE rec.handle
  IN /\ phase = "edited"
     /\ IF accepted
          THEN /\ rec' = [WithHandle(sent, handle) EXCEPT !.handle = handle]
               /\ served' = sdp_extract_pdu(pdu.data)
               /\ phase' = "served"
          ELSE rec' = sent /\ UNCHANGED <<served, phase>>
     /\ UNCHANGED <<wanted, unheeded, cpy, edits>>

(* sdp_device_record_update: as above, the record keeps its handle.          *)
sdp_device_record_update(once, accepted) ==
  LET pdu == sdp_gen_record_pdu(rec, once)
  IN /\ phase = "edited"
     /\ rec.handle # 0
     /\ served # sdp_record_alloc
     /\ rec' = [rec EXCEPT !.attrs = pdu.attrs]
     /\ IF accepted THEN served' = sdp_extract_pdu(pdu.data) /\ phase' = "served"
                    ELSE UNCHANGED <<served, phase>>
     /\ UNCHANGED <<wanted, unheeded, cpy, edits>>

Copy ==
  /\ phase # "copied"
  /\ cpy' = sdp_copy_record(rec)
  /\ phase' = "copied"
  /\ UNCHANGED <<rec, wanted, unheeded, served, edits>>

RecNext ==
  \/ \E c \in ClassLists : SetClasses(c) \/ SetGroups(c)
  \/ \E n \in Texts, p \in Texts \cup {Null.val} : SetInfo(n, p)
  \/ \E n \in Texts : SetUrl(n)
  \/ \E ap \in ProtoLists \cup {<<>>} : SetProtos(ap) \/ SetAddProtos(ap)
  \/ \E l \in LangLists \cup {<<>>} : SetLangs(l)
  \/ \E p \in ProfileLists \cup {<<>>} : SetProfiles(p)
  \/ \E u \in Ids : SetId(u) \/ SetGroup(u)
  \/ \E f \in FeatureLists : SetFeatures(f)
  \/ SetState(65537)
  \/ RemoveLangs
  \/ RemoveClasses
  \/ \E once, accepted \in BOOLEAN :
       \/ sdp_device_record_register(once, accepted)
       \/ sdp_device_record_update(once, accepted)
  \/ Copy

-----------------------------------------------------------------------------
(* Properties.                                                               *)

(* Whoever asks the server finds every attribute as the service last asked   *)
(* for it, through any order of setting, replacing and removing, sequences   *)
(* that grow past 255 bytes, refused registrations and updates, except the   *)
(* lists of protocols, languages and profiles that were set while they had a *)
(* value: those are not replaced (see SettersReplace). Of several ways of    *)
(* access the first alone is found.                                          *)
ClientsReadWhatWasSet ==
  phase = "served" =>
    \A field \in DOMAIN wanted \ unheeded : Reads(served)[field] = wanted[field]

(* What the comments of sdp_set_access_protos, sdp_set_lang_attr and         *)
(* sdp_set_profile_descs promise (sdp.c:2382-2386, 2429-2433, 2539-2543):    *)
(* each replaces the list there is, and NULL removes it. It does not hold.   *)
SettersReplace ==
  phase = "served" =>
    \A field \in {"protos", "langs", "profiles"} :
      Reads(served)[field] = wanted[field]

(* The buffers reserved for a record and for each of its attributes hold the *)
(* bytes written and nothing is left out of them, with either order of       *)
(* evaluation, if some attribute has elements in it, as a list of service    *)
(* classes does: two or three bytes of the record's header are not reserved. *)
PdusFit ==
  \A once \in BOOLEAN :
    LET pdu == sdp_gen_record_pdu(rec, once)
    IN (\E a \in ToSet(rec.attrs) : a.elems[1].seq # <<>>) =>
         /\ Len(pdu.data) <= pdu.cap
         /\ \A b \in ToSet(rec.attrs) :
              Len(AttrPdu(b, once).data) = 3 + AttrPdu(b, once).size

(* A search by any UUID that occurs in the record as it is served, long or   *)
(* short, finds the service's own record too: its pattern has them all.      *)
(* The service class both sides keep apart is the first of the list.         *)
SearchFindsRecord ==
  phase = "served" => /\ served.pattern \subseteq rec.pattern
                      /\ served.svclass = rec.svclass

(* A copy would be sent as the same bytes, if no string is within a          *)
(* sequence, where it grows by one byte.                                     *)
CopyServesTheSame ==
  phase = "copied" /\ wanted.features = Failed =>
    /\ sdp_gen_record_pdu(cpy, TRUE).data = sdp_gen_record_pdu(rec, TRUE).data
    /\ cpy.handle = rec.handle /\ cpy.svclass = rec.svclass
    /\ cpy.pattern = rec.pattern

=============================================================================
