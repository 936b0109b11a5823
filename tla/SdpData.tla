------------------------------ MODULE SdpData ------------------------------
(***************************************************************************)
(* The data elements of the SDP library (sdp.c): how an element is made,   *)
(* how large a buffer is reserved for it, the bytes it is sent as and the  *)
(* element the receiver makes of those bytes.                              *)
(*                                                                         *)
(* An element is [dtd, size, val, seq]: its type, unitSize, its value as   *)
(* the bytes it has on the wire (a number, a UUID or a string), and the    *)
(* elements of a sequence or an alternative.  Allocation does not fail.    *)
(***************************************************************************)
EXTENDS Integers, Sequences, SequencesExt

NIL == 0
UINT8 == 8      UINT16 == 9     UINT32 == 10
BOOL == 40
UUID16 == 25    UUID32 == 26    UUID128 == 28
TEXT_STR8 == 37
URL_STR8 == 69
SEQ8 == 53      SEQ16 == 54     SEQ32 == 55
ALT8 == 61

IsInt(dtd) == dtd \in {NIL, BOOL} \cup (8 .. 12) \cup (16 .. 20)
IsUuid(dtd) == dtd \in {UUID16, UUID32, UUID128}
IsText(dtd) == dtd \in 37 .. 39
IsStr(dtd) == IsText(dtd) \/ dtd \in 69 .. 71
IsSeq(dtd) == dtd \in 53 .. 55
IsAlt(dtd) == dtd \in 61 .. 63

(* How many bytes the value of a number or a UUID has.                       *)
Width(dtd) ==
  CASE dtd \in {8, 16, BOOL} -> 1
    [] dtd \in {9, 17, UUID16} -> 2
    [] dtd \in {10, 18, UUID32} -> 4
    [] dtd \in {11, 19} -> 8
    [] dtd \in {12, 20, UUID128} -> 16
    [] OTHER -> 0

(* How many bytes the length of a string or a sequence has.                  *)
LengthWidth(dtd) ==
  CASE dtd \in {SEQ8, ALT8, TEXT_STR8, URL_STR8} -> 1
    [] dtd \in {54, 62, 38, 70} -> 2
    [] dtd \in {55, 63, 39, 71} -> 4
    [] OTHER -> 0

(* A number in big-endian bytes, without what does not fit in them, and back.*)
BigEndian(n, w) ==
  [i \in 1 .. w |-> IF w - i > 3 THEN 0 ELSE (n \div 256 ^ (w - i)) % 256]
Number(bytes) == FoldLeft(LAMBDA n, b : 256 * n + b, 0, bytes)

SumOf(f(_), s) == FoldLeft(LAMBDA n, e : n + f(e), 0, s)
Sizes(seq) == SumOf(LAMBDA e : e.size, seq)

Element(dtd, size, val, seq) ==
  [dtd |-> dtd, size |-> size, val |-> val, seq |-> seq]

-----------------------------------------------------------------------------
(* Making elements.                                                          *)

(* The payload of strings may not exceed 65535 bytes, and a 32-bit string    *)
(* is made without its bytes.                                                *)
sdp_data_alloc_with_length(dtd, val, seq) ==
  LET payload ==
        IF IsSeq(dtd) \/ IsAlt(dtd) THEN LengthWidth(dtd) + Sizes(seq)
        ELSE IF IsStr(dtd) THEN (IF LengthWidth(dtd) = 4 THEN 0 ELSE Len(val))
        ELSE Width(dtd)
  IN Element(dtd, 1 + payload, IF dtd \in {39, 71} THEN <<>> ELSE val, seq)

sdp_data_alloc(dtd, val) == sdp_data_alloc_with_length(dtd, val, <<>>)

(* The elements are made again from type and value, sequences and            *)
(* alternatives are taken as they are.                                       *)
sdp_seq_alloc(elements) ==
  LET made(e) == IF e.dtd \in SEQ8 .. 63 THEN e ELSE sdp_data_alloc(e.dtd, e.val)
  IN sdp_data_alloc_with_length(SEQ8, <<>>,
                                [i \in DOMAIN elements |-> made(elements[i])])

-----------------------------------------------------------------------------
(* Reserving a buffer.                                                       *)

sdp_get_data_type_size(dtd) == 1 + LengthWidth(dtd)

(* Mutant: nothing is reserved for the type and length of an element.        *)
RECURSIVE sdp_gen_buffer_NoHeader(_, _, _)
sdp_gen_buffer_NoHeader(buf_size, d, once) ==
  LET inner == FoldLeft(LAMBDA n, e : sdp_gen_buffer_NoHeader(n, e, once),
                        buf_size + 3, d.seq)
  IN IF IsSeq(d.dtd) \/ IsAlt(d.dtd) THEN inner
     ELSE buf_size + 3 + (IF IsStr(d.dtd) THEN d.size - 1 ELSE Width(d.dtd))

(* The size of the buffer after d has been counted. Every element, nested    *)
(* ones too, is counted with the three bytes of an attribute id.             *)
(*                                                                           *)
(* buf->buf_size += sdp_get_data_size(buf, d) reads buf_size before or after *)
(* the call that changes it, as the compiler likes: nested elements count    *)
(* once or twice.                                                            *)
RECURSIVE sdp_gen_buffer(_, _, _)
sdp_gen_buffer(buf_size, d, once) ==
  LET first == IF buf_size = 0 /\ d.dtd = NIL THEN 2 ELSE 0
      start == buf_size + first + 3 + sdp_get_data_type_size(d.dtd)
      inner == FoldLeft(LAMBDA n, e : sdp_gen_buffer(n, e, once), start, d.seq)
      all == IF IsSeq(d.dtd) \/ IsAlt(d.dtd)
               THEN IF once THEN inner ELSE inner + (inner - start)
               ELSE start + (IF IsStr(d.dtd) THEN d.size - 1 ELSE Width(d.dtd))
  IN IF all > 255 /\ d.dtd = SEQ8 THEN all + 1 ELSE all

-----------------------------------------------------------------------------
(* The bytes of an element.                                                  *)

(* The header of d is written without looking at the end of the buffer; a    *)
(* value that does not fit is left out, but counted. A SEQ8 of more than 255 *)
(* bytes is made a SEQ16, for good, and written again.                       *)
RECURSIVE sdp_gen_pdu(_, _, _)
sdp_gen_pdu(data, cap, d) ==
  LET hdr == sdp_get_data_type_size(d.dtd)
      head(n) == <<d.dtd>> \o BigEndian(n, LengthWidth(d.dtd))
      one(g, e) ==
        LET h == sdp_gen_pdu(g.data, cap, e)
        IN [data |-> h.data, size |-> g.size + h.size, seq |-> Append(g.seq, h.d)]
      g == FoldLeft(one, [data |-> data \o head(0), size |-> 0, seq |-> <<>>], d.seq)
      inner == SubSeq(g.data, Len(data) + hdr + 1, Len(g.data))
      payload == IF IsStr(d.dtd) THEN d.size - 1 ELSE Width(d.dtd)
      fits == cap >= Len(data) + hdr + payload
  IN IF IsSeq(d.dtd) \/ IsAlt(d.dtd)
       THEN IF g.size > 255 /\ d.dtd = SEQ8
              THEN sdp_gen_pdu(data, cap, [d EXCEPT !.dtd = SEQ16])
              ELSE [data |-> data \o head(g.size) \o inner,
                    size |-> hdr + g.size, d |-> [d EXCEPT !.seq = g.seq]]
       ELSE [data |-> data \o head(payload) \o (IF fits THEN d.val ELSE <<>>),
             size |-> hdr + payload, d |-> d]

-----------------------------------------------------------------------------
(* UUIDs as [dtd, val].                                                      *)

BaseTail == <<0, 0, 16, 0, 128, 0, 0, 128, 95, 155, 52, 251>>

(* The short forms are added into the first four bytes of the base, which    *)
(* are zero.                                                                 *)
sdp_uuid_to_uuid128(u) ==
  CASE u.dtd = UUID16 -> <<0, 0>> \o u.val \o BaseTail
    [] u.dtd = UUID32 -> u.val \o BaseTail
    [] OTHER -> u.val

sdp_uuid_to_proto(u) ==
  LET long == sdp_uuid_to_uuid128(u)
  IN IF SubSeq(long, 5, 16) = BaseTail THEN Number(SubSeq(long, 1, 4)) ELSE 0

-----------------------------------------------------------------------------
(* Reading the bytes p. A result is [ok, n, d, uuids]: whether there is an   *)
(* element, how many bytes it took, the element, and the UUIDs seen, which   *)
(* go into the record's pattern.                                             *)

Nothing == [ok |-> FALSE, n |-> 0, d |-> Element(NIL, 0, <<>>, <<>>), uuids |-> {}]
Got(n, d, uuids) == [ok |-> TRUE, n |-> n, d |-> d, uuids |-> uuids]

extract_int(p) ==
  LET w == Width(p[1])
  IN IF Len(p) < 1 + w THEN Nothing
     ELSE Got(1 + w, Element(p[1], 0, SubSeq(p, 2, 1 + w), <<>>), {})

extract_uuid(p) ==
  LET w == Width(p[1])
      u == Element(p[1], 0, SubSeq(p, 2, 1 + w), <<>>)
  IN IF Len(p) < 1 + w THEN Nothing
     ELSE Got(1 + w, u, {sdp_uuid_to_uuid128(u)})

(* Strings with a 32-bit length are refused; unitSize has one byte for the   *)
(* terminator where a made string has one for the type.                      *)
extract_str(p) ==
  LET w == LengthWidth(p[1])
      n == Number(SubSeq(p, 2, 1 + w))
  IN IF w = 4 \/ Len(p) < 1 + w \/ Len(p) < 1 + w + n THEN Nothing
     ELSE Got(1 + w + n, Element(p[1], n + 1, SubSeq(p, 2 + w, 1 + w + n), <<>>), {})

(* [n, size]: the bytes of the header (0 on failure) and the length in it.   *)
sdp_extract_seqtype(p) ==
  LET w == LengthWidth(p[1])
  IN IF Len(p) < 1 \/ ~(IsSeq(p[1]) \/ IsAlt(p[1])) \/ Len(p) < 1 + w
       THEN [n |-> 0, size |-> 0]
       ELSE [n |-> 1 + w, size |-> Number(SubSeq(p, 2, 1 + w))]

(* A sequence takes elements until its length is used up or one fails; one   *)
(* whose header fails is an element without elements.                        *)
RECURSIVE sdp_extract_attr(_), ExtractElements(_, _)
ExtractElements(p, left) ==
  LET first == sdp_extract_attr(p)
      rest == ExtractElements(SubSeq(p, first.n + 1, Len(p)), left - first.n)
  IN IF left <= 0 \/ p = <<>> \/ ~first.ok
       THEN [n |-> 0, seq |-> <<>>, uuids |-> {}]
       ELSE [n |-> first.n + rest.n, seq |-> <<first.d>> \o rest.seq,
             uuids |-> first.uuids \cup rest.uuids]

extract_seq(p) ==
  LET head == sdp_extract_seqtype(p)
      e == ExtractElements(SubSeq(p, head.n + 1, Len(p)), head.size)
  IN IF head.n = 0
       THEN Got(0, Element(p[1], 0, <<>>, <<>>), {})
       ELSE Got(head.n + e.n, Element(p[1], 0, <<>>, e.seq), e.uuids)

sdp_extract_attr(p) ==
  CASE IsInt(p[1]) -> extract_int(p)
    [] IsUuid(p[1]) -> extract_uuid(p)
    [] IsStr(p[1]) -> extract_str(p)
    [] IsSeq(p[1]) \/ IsAlt(p[1]) -> extract_seq(p)
    [] OTHER -> Nothing

-----------------------------------------------------------------------------
(* Copying elements. Within a sequence the length of a string is taken to be *)
(* its unitSize, one more than it has.                                       *)

Unspecified == 256     \* a byte behind the end of a string

RECURSIVE sdp_copy_seq(_)
sdp_copy_seq(seq) ==
  LET copied(e) ==
        sdp_data_alloc_with_length(e.dtd,
          IF IsStr(e.dtd) THEN Append(e.val, Unspecified) ELSE e.val,
          sdp_copy_seq(e.seq))
  IN [i \in DOMAIN seq |-> copied(seq[i])]

=============================================================================
