------------------------- MODULE NoteFramingProofs --------------------------
(***************************************************************************)
(* The framing loop plays the notes its stream stands for, for every frame *)
(* length, every alphabet and every cut of the stream into pieces.         *)
(***************************************************************************)
EXTENDS NoteFraming, SequenceTheorems, WellFoundedInduction, TLAPS

(* How far into received the bytes are that cBuff has let go.                *)
Gone == Len(received) - Len(cBuff)

(* The last bytes of stream s are those of buff.                             *)
IsEndOf(buff, s) ==
  /\ Len(buff) <= Len(s)
  /\ \A i \in 1 .. Len(buff) : buff[i] = s[Len(s) - Len(buff) + i]

(* cBuff is the end of the stream, from a place where a piece of a line      *)
(* begins.                                                                   *)
FramingInv ==
  /\ cBuff \in Seq(Symbols)
  /\ received \in Seq(Symbols)
  /\ RecvFitsBuffer
  /\ IsEndOf(cBuff, received)
  /\ Stream!OnPieceBoundary(received, Gone)
  /\ notes = Stream!NotesOf(received)

-----------------------------------------------------------------------------
(* A set of naturals has a least element.                                    *)
LEMMA LeastOf ==
  ASSUME NEW S \in SUBSET Nat, S # {}
  PROVE  \E p \in S : \A q \in S : p <= q
<1>1. PICK p \in S : \A q \in S : ~ (<<q, p>> \in OpToRel(<, Nat))
  BY NatLessThanWellFounded, WFMin
<1>2. \A q \in S : ~ (q < p)
  BY <1>1 DEF OpToRel
<1> QED
  BY <1>2

(* The first end symbol of a buffer that has one.                            *)
LEMMA FirstEndIsFirst ==
  ASSUME NEW buff \in Seq(Symbols), Ends(buff) # {}
  PROVE  /\ FirstEnd(buff) \in 1 .. Len(buff)
         /\ buff[FirstEnd(buff)] = EndSymbol
         /\ \A q \in 1 .. FirstEnd(buff) - 1 : buff[q] # EndSymbol
<1>1. Ends(buff) \in SUBSET Nat
  BY DEF Ends
<1>2. \E p \in Ends(buff) : \A q \in Ends(buff) : p <= q
  BY <1>1, LeastOf
<1>3. /\ FirstEnd(buff) \in Ends(buff)
      /\ \A q \in Ends(buff) : FirstEnd(buff) <= q
  BY <1>2 DEF FirstEnd
<1>4. \A q \in 1 .. FirstEnd(buff) - 1 : q \notin Ends(buff)
  BY <1>1, <1>3
<1> QED
  BY <1>3, <1>4 DEF Ends

(* Two multiples of FrameLen are no less than FrameLen apart.                *)
LEMMA MultiplesApart ==
  ASSUME NEW k \in Nat, NEW m \in Nat, k * FrameLen > m * FrameLen
  PROVE  k * FrameLen >= m * FrameLen + FrameLen
<1> USE FramingAssumption
<1>1. FrameLen \in Nat
  OBVIOUS
<1>2. CASE k <= m
  <2> DEFINE d == m - k
  <2>1. d \in Nat /\ m = k + d
    BY <1>2
  <2> HIDE DEF d
  <2>2. m * FrameLen = k * FrameLen + d * FrameLen
    BY <2>1, <1>1
  <2>3. d * FrameLen \in Nat /\ k * FrameLen \in Nat
    BY <2>1, <1>1
  <2> QED
    BY <2>2, <2>3
<1>3. CASE k > m
  <2> DEFINE d == k - m - 1
  <2>1. d \in Nat /\ k = m + 1 + d
    BY <1>3
  <2> HIDE DEF d
  <2>2. k * FrameLen = m * FrameLen + FrameLen + d * FrameLen
    BY <2>1, <1>1
  <2>3. d * FrameLen \in Nat /\ m * FrameLen \in Nat
    BY <2>1, <1>1
  <2> QED
    BY <2>2, <2>3, <1>1
<1> QED
  BY <1>2, <1>3

-----------------------------------------------------------------------------
(* Where pieces begin and frames end.                                        *)

(* What later bytes cannot change.                                           *)
LEMMA StreamGrows ==
  ASSUME NEW s \in Seq(Symbols), NEW t \in Seq(Symbols), Len(s) <= Len(t),
         \A m \in 1 .. Len(s) : t[m] = s[m]
  PROVE  /\ \A i \in 0 .. Len(s) :
              Stream!OnPieceBoundary(s, i) <=> Stream!OnPieceBoundary(t, i)
         /\ \A j \in 1 .. Len(s) :
              /\ Stream!FrameEndsAt(s, j) <=> Stream!FrameEndsAt(t, j)
              /\ Stream!FrameEndsAt(s, j) => Stream!NoteAt(s, j) = Stream!NoteAt(t, j)
<1> USE FramingAssumption
<1>1. FrameLen \in Nat \ {0} /\ Len(s) \in Nat /\ Len(t) \in Nat
  OBVIOUS
<1>2. ASSUME NEW i \in 0 .. Len(s)
      PROVE  Stream!OnPieceBoundary(s, i) <=> Stream!OnPieceBoundary(t, i)
  <2>1. ASSUME NEW k \in 0 .. i, i - k * FrameLen >= 0
        PROVE  /\ i - k * FrameLen = 0 \/ t[i - k * FrameLen] = s[i - k * FrameLen]
               /\ Stream!NoEndWithin(s, i - k * FrameLen, i)
                    <=> Stream!NoEndWithin(t, i - k * FrameLen, i)
    <3>1. k * FrameLen \in Nat
      BY <1>1
    <3> DEFINE start == i - k * FrameLen
    <3>2. start \in 0 .. Len(s)
      BY <3>1, <2>1
    <3> HIDE DEF start
    <3>3. start = 0 \/ t[start] = s[start]
      BY <3>2
    <3>4. \A m \in start + 1 .. i : t[m] = s[m]
      BY <3>2
    <3> QED
      BY <3>3, <3>4 DEF start, Stream!NoEndWithin
  <2> QED
    BY <2>1 DEF Stream!OnPieceBoundary
<1>3. ASSUME NEW j \in 1 .. Len(s)
      PROVE  /\ Stream!FrameEndsAt(s, j) <=> Stream!FrameEndsAt(t, j)
             /\ Stream!FrameEndsAt(s, j) => Stream!NoteAt(s, j) = Stream!NoteAt(t, j)
  <2>1. CASE j < FrameLen
    BY <2>1, <1>1 DEF Stream!FrameEndsAt
  <2>2. CASE j >= FrameLen
    <3>1. Stream!OnPieceBoundary(s, j - FrameLen)
            <=> Stream!OnPieceBoundary(t, j - FrameLen)
      BY <1>1, <1>2, <2>2
    <3>2. Stream!NoEndWithin(s, j - FrameLen, j - 1)
            <=> Stream!NoEndWithin(t, j - FrameLen, j - 1)
      BY <1>1, <2>2 DEF Stream!NoEndWithin
    <3>3. \A m \in j - FrameLen + 1 .. j : s[m] = t[m] /\ s[m] \in Symbols
      BY <1>1, <2>2
    <3>4. SubSeq(s, j - FrameLen + 1, j) = SubSeq(t, j - FrameLen + 1, j)
      <4>1. j - FrameLen + 1 \in Int /\ j \in Int
        BY <1>1
      <4>2. /\ SubSeq(s, j - FrameLen + 1, j) \in Seq(Symbols)
            /\ Len(SubSeq(s, j - FrameLen + 1, j)) = FrameLen
            /\ \A m \in 1 .. FrameLen :
                 SubSeq(s, j - FrameLen + 1, j)[m] = s[j - FrameLen + m]
        BY <1>1, <4>1, <3>3, SubSeqProperties
      <4>3. /\ SubSeq(t, j - FrameLen + 1, j) \in Seq(Symbols)
            /\ Len(SubSeq(t, j - FrameLen + 1, j)) = FrameLen
            /\ \A m \in 1 .. FrameLen :
                 SubSeq(t, j - FrameLen + 1, j)[m] = t[j - FrameLen + m]
        BY <1>1, <4>1, <3>3, SubSeqProperties
      <4>4. \A m \in 1 .. FrameLen : j - FrameLen + m \in j - FrameLen + 1 .. j
        BY <1>1
      <4> QED
        BY <4>2, <4>3, <4>4, <3>3, SeqEqual
    <3> QED
      BY <3>1, <3>2, <3>3, <3>4, <1>1, <2>2
         DEF Stream!FrameEndsAt, Stream!NoteAt
  <2> QED
    BY <1>1, <2>1, <2>2
<1> QED
  BY <1>2, <1>3

(* A piece begins after an end symbol.                                       *)
LEMMA PieceAfterEnd ==
  ASSUME NEW s \in Seq(Symbols), NEW i \in 1 .. Len(s), s[i] = EndSymbol
  PROVE  Stream!OnPieceBoundary(s, i)
<1> USE FramingAssumption
<1>1. i - 0 * FrameLen = i /\ 0 \in 0 .. i
  OBVIOUS
<1>2. Stream!NoEndWithin(s, i, i)
  BY DEF Stream!NoEndWithin
<1> QED
  BY <1>1, <1>2 DEF Stream!OnPieceBoundary

(* A piece begins after FrameLen bytes with no end symbol.                   *)
LEMMA PieceAfterPiece ==
  ASSUME NEW s \in Seq(Symbols), NEW i \in 0 .. Len(s),
         i + FrameLen <= Len(s),
         Stream!OnPieceBoundary(s, i),
         Stream!NoEndWithin(s, i, i + FrameLen)
  PROVE  Stream!OnPieceBoundary(s, i + FrameLen)
<1> USE FramingAssumption
<1>1. PICK k \in 0 .. i :
        /\ i - k * FrameLen >= 0
        /\ i - k * FrameLen = 0 \/ s[i - k * FrameLen] = EndSymbol
        /\ Stream!NoEndWithin(s, i - k * FrameLen, i)
  BY DEF Stream!OnPieceBoundary
<1>2. k * FrameLen \in Nat /\ (k + 1) * FrameLen = k * FrameLen + FrameLen
  OBVIOUS
<1>3. i + FrameLen - (k + 1) * FrameLen = i - k * FrameLen
  BY <1>2
<1>4. Stream!NoEndWithin(s, i - k * FrameLen, i + FrameLen)
  BY <1>1, <1>2 DEF Stream!NoEndWithin
<1> DEFINE next == k + 1
           end == i + FrameLen
<1>5. /\ next \in 0 .. end
      /\ end - next * FrameLen >= 0
      /\ end - next * FrameLen = 0 \/ s[end - next * FrameLen] = EndSymbol
      /\ Stream!NoEndWithin(s, end - next * FrameLen, end)
  BY <1>1, <1>3, <1>4
<1>6. Stream!OnPieceBoundary(s, end)
  <2> HIDE DEF next, end
  <2> QED
    BY ONLY <1>5 DEF Stream!OnPieceBoundary
<1> QED
  BY <1>6

(* Within a piece, a frame ends at its last byte or nowhere.                 *)
LEMMA FrameFillsPiece ==
  ASSUME NEW s \in Seq(Symbols), NEW i \in 0 .. Len(s),
         Stream!OnPieceBoundary(s, i),
         NEW j \in i + 1 .. Len(s), j <= i + FrameLen,
         Stream!FrameEndsAt(s, j)
  PROVE  /\ j = i + FrameLen
         /\ s[j] = EndSymbol
         /\ Stream!NoEndWithin(s, i, j - 1)
<1> USE FramingAssumption
<1> DEFINE b == j - FrameLen
<1>1. /\ b \in 0 .. i
      /\ s[j] = EndSymbol
      /\ Stream!NoEndWithin(s, b, j - 1)
      /\ Stream!OnPieceBoundary(s, b)
  BY DEF Stream!FrameEndsAt
<1>2. PICK k \in 0 .. i :
        /\ i - k * FrameLen >= 0
        /\ i - k * FrameLen = 0 \/ s[i - k * FrameLen] = EndSymbol
        /\ Stream!NoEndWithin(s, i - k * FrameLen, i)
  BY DEF Stream!OnPieceBoundary
<1>3. PICK m \in 0 .. b :
        /\ b - m * FrameLen >= 0
        /\ b - m * FrameLen = 0 \/ s[b - m * FrameLen] = EndSymbol
        /\ Stream!NoEndWithin(s, b - m * FrameLen, b)
  BY <1>1 DEF Stream!OnPieceBoundary
<1>4. k * FrameLen \in Nat /\ m * FrameLen \in Nat /\ b \in Nat
  BY <1>1
<1> DEFINE start == i - k * FrameLen
           first == b - m * FrameLen
<1>5. start \in 0 .. i /\ first \in 0 .. b
  BY <1>2, <1>3, <1>4
<1>6. /\ start = 0 \/ s[start] = EndSymbol
      /\ first = 0 \/ s[first] = EndSymbol
      /\ \A n \in start + 1 .. i : s[n] # EndSymbol
      /\ \A n \in first + 1 .. b : s[n] # EndSymbol
      /\ \A n \in b + 1 .. j - 1 : s[n] # EndSymbol
  BY <1>1, <1>2, <1>3 DEF Stream!NoEndWithin
<1>7. start = first \/ (start > b /\ b < i)
  <2> HIDE DEF start, first, b
  <2> QED
    BY <1>1, <1>5, <1>6
<1>8. ~ (start > b)
  <2>1. \A n \in b + 1 .. j - 1 : s[n] # EndSymbol
    BY <1>6
  <2>2. start <= j - 1 /\ start \in Nat
    BY <1>5
  <2>3. start = 0 \/ s[start] = EndSymbol
    BY <1>6
  <2> HIDE DEF start, b
  <2> QED
    BY <2>1, <2>2, <2>3, <1>4
<1>9. start = first
  BY <1>7, <1>8
<1>10. k * FrameLen - m * FrameLen = i - b
  BY <1>4, <1>9
<1>11. ~ (b < i)
  <2> SUFFICES ASSUME b < i PROVE FALSE
    OBVIOUS
  <2>1. k * FrameLen > m * FrameLen
    BY <1>10, <1>4
  <2>2. k * FrameLen >= m * FrameLen + FrameLen
    BY <2>1, MultiplesApart, <1>1
  <2>3. i - b >= FrameLen
    BY <2>2, <1>10, <1>4
  <2> QED
    BY <2>3
<1>12. b = i
  BY <1>1, <1>11
<1> QED
  BY <1>1, <1>12

-----------------------------------------------------------------------------
(* handleReceivedDataCrossTwoFrame, given the end of stream s from where a   *)
(* piece begins.                                                             *)
LEMMA CrossTwoFramesKeepsThePiece ==
  ASSUME NEW s \in Seq(Symbols), NEW buff \in Seq(Symbols),
         Len(buff) <= FrameLen,
         IsEndOf(buff, s),
         Stream!OnPieceBoundary(s, Len(s) - Len(buff)),
         NEW left, left = CrossTwoFrames(buff)
  PROVE  /\ left \in Seq(Symbols)
         /\ Len(left) <= Len(buff)
         /\ IsEndOf(left, s)
         /\ Len(left) < FrameLen => Stream!OnPieceBoundary(s, Len(s) - Len(left))
         /\ Len(left) = FrameLen =>
              /\ left = buff
              /\ Stream!FrameEndsAt(s, Len(s))
         /\ \A j \in Len(s) - Len(buff) + 1 .. Len(s) :
              Stream!FrameEndsAt(s, j) => j = Len(s) /\ Len(left) = FrameLen
<1> USE FramingAssumption
<1> DEFINE g == Len(s) - Len(buff)
<1>1. /\ Len(s) \in Nat /\ Len(buff) \in Nat /\ FrameLen \in Nat \ {0}
      /\ g \in 0 .. Len(s) /\ Len(s) = g + Len(buff)
      /\ Stream!OnPieceBoundary(s, g)
      /\ \A i \in 1 .. Len(buff) : buff[i] = s[g + i]
  BY DEF IsEndOf
<1>2. ASSUME NEW j \in g + 1 .. Len(s), Stream!FrameEndsAt(s, j)
      PROVE  /\ j = Len(s) /\ Len(buff) = FrameLen
             /\ buff[FrameLen] = EndSymbol
             /\ \A q \in 1 .. FrameLen - 1 : buff[q] # EndSymbol
  <2>1. /\ j = g + FrameLen
        /\ s[j] = EndSymbol
        /\ Stream!NoEndWithin(s, g, j - 1)
    <3> HIDE DEF g
    <3>1. j <= g + FrameLen
      BY <1>1
    <3> QED
      BY <1>1, <1>2, <3>1, FrameFillsPiece
  <2>2. \A q \in g + 1 .. j - 1 : s[q] # EndSymbol
    BY <2>1 DEF Stream!NoEndWithin
  <2>3. j = Len(s) /\ Len(buff) = FrameLen
    <3> HIDE DEF g
    <3> QED
      BY <1>1, <2>1
  <2>4. buff[FrameLen] = EndSymbol
    <3> HIDE DEF g
    <3> QED
      BY <1>1, <2>1, <2>3
  <2>5. \A q \in 1 .. FrameLen - 1 : buff[q] # EndSymbol
    <3> HIDE DEF g
    <3> SUFFICES ASSUME NEW q \in 1 .. FrameLen - 1 PROVE buff[q] # EndSymbol
      OBVIOUS
    <3>1. g + q \in g + 1 .. j - 1 /\ q \in 1 .. Len(buff)
      BY <1>1, <2>1, <2>3
    <3> QED
      BY <1>1, <2>2, <3>1
  <2> QED
    BY <2>3, <2>4, <2>5
<1>3. CASE Ends(buff) = {}
  <2>1. \A i \in 1 .. Len(buff) : buff[i] # EndSymbol
    BY <1>3 DEF Ends
  <2>2. \A j \in g + 1 .. Len(s) : ~ Stream!FrameEndsAt(s, j)
    <3> SUFFICES ASSUME NEW j \in g + 1 .. Len(s), Stream!FrameEndsAt(s, j)
                 PROVE  FALSE
      OBVIOUS
    <3>1. Len(buff) = FrameLen /\ buff[FrameLen] = EndSymbol
      BY <1>2
    <3> QED
      BY <1>1, <2>1, <3>1
  <2>3. CASE Len(buff) = FrameLen
    <3>1. left = <<>> /\ Len(left) = 0
      BY <1>3, <2>3 DEF CrossTwoFrames
    <3>2. Stream!NoEndWithin(s, g, g + FrameLen)
      <4> SUFFICES ASSUME NEW m \in g + 1 .. g + FrameLen
                   PROVE  s[m] # EndSymbol
        BY DEF Stream!NoEndWithin
      <4>1. m - g \in 1 .. Len(buff) /\ g + (m - g) = m
        BY <1>1, <2>3
      <4> QED
        BY <4>1, <1>1, <2>1
    <3>3. Stream!OnPieceBoundary(s, g + FrameLen)
      <4> HIDE DEF g
      <4> QED
        BY <1>1, <2>3, <3>2, PieceAfterPiece
    <3>4. Len(s) - Len(left) = g + FrameLen
      BY <1>1, <2>3, <3>1
    <3>5. IsEndOf(left, s)
      BY <1>1, <3>1 DEF IsEndOf
    <3>6. left \in Seq(Symbols) /\ Len(left) <= Len(buff) /\ Len(left) # FrameLen
      BY <1>1, <3>1
    <3> QED
      BY <2>2, <3>3, <3>4, <3>5, <3>6
  <2>4. CASE Len(buff) # FrameLen
    <3>1. left = buff
      BY <1>3, <2>4 DEF CrossTwoFrames
    <3>2. Len(left) <= Len(buff) /\ Len(left) # FrameLen
      BY <1>1, <2>4, <3>1
    <3> QED
      BY <1>1, <2>2, <3>1, <3>2
  <2> QED
    BY <2>3, <2>4
<1>4. CASE Ends(buff) # {}
  <2> DEFINE p == FirstEnd(buff)
  <2>1. /\ p \in 1 .. Len(buff)
        /\ buff[p] = EndSymbol
        /\ \A q \in 1 .. p - 1 : buff[q] # EndSymbol
    BY <1>4, FirstEndIsFirst
  <2>2. CASE p = FrameLen
    <3>1. left = buff
      BY <1>4, <2>2 DEF CrossTwoFrames
    <3>2. Len(buff) = FrameLen
      BY <1>1, <2>1, <2>2
    <3>3. Stream!FrameEndsAt(s, Len(s))
      <4>1. s[Len(s)] = EndSymbol
        BY <1>1, <2>1, <2>2, <3>2
      <4>2. Len(s) >= FrameLen /\ Len(s) - FrameLen = g
        BY <1>1, <3>2
      <4>3. Stream!NoEndWithin(s, Len(s) - FrameLen, Len(s) - 1)
        <5> SUFFICES ASSUME NEW m \in g + 1 .. Len(s) - 1
                     PROVE  s[m] # EndSymbol
          BY <4>2 DEF Stream!NoEndWithin
        <5>1. m - g \in 1 .. p - 1 /\ g + (m - g) = m /\ m - g \in 1 .. Len(buff)
          BY <1>1, <2>2, <3>2
        <5> QED
          BY <5>1, <1>1, <2>1
      <4> QED
        BY <1>1, <4>1, <4>2, <4>3 DEF Stream!FrameEndsAt
    <3>4. \A j \in g + 1 .. Len(s) : Stream!FrameEndsAt(s, j) => j = Len(s)
      BY <1>2
    <3>5. Len(left) <= Len(buff) /\ Len(left) = FrameLen
      BY <1>1, <3>1, <3>2
    <3> QED
      BY <3>1, <3>3, <3>4, <3>5
  <2>3. CASE p # FrameLen
    <3>1. left = SubSeq(buff, p + 1, Len(buff))
      BY <1>4, <2>3 DEF CrossTwoFrames
    <3>2. /\ left \in Seq(Symbols)
          /\ Len(left) = Len(buff) - p
          /\ \A i \in 1 .. Len(buff) - p : left[i] = buff[p + i]
      <4>1. p + 1 \in Int /\ Len(buff) \in Int
        BY <1>1, <2>1
      <4>2. \A i \in p + 1 .. Len(buff) : buff[i] \in Symbols
        BY <1>1, <2>1
      <4> HIDE DEF p
      <4> QED
        BY <3>1, <2>1, <1>1, <4>1, <4>2, SubSeqProperties
    <3>3. IsEndOf(left, s)
      <4> HIDE DEF p, g
      <4> QED
        BY <1>1, <2>1, <3>2 DEF IsEndOf
    <3>4. Stream!OnPieceBoundary(s, Len(s) - Len(left))
      <4>1. Len(s) - Len(left) = g + p /\ g + p \in 1 .. Len(s)
        BY <1>1, <2>1, <3>2
      <4>2. s[g + p] = EndSymbol
        BY <1>1, <2>1
      <4> HIDE DEF p, g
      <4> QED
        BY <4>1, <4>2, PieceAfterEnd
    <3>5. \A j \in g + 1 .. Len(s) : ~ Stream!FrameEndsAt(s, j)
      <4> SUFFICES ASSUME NEW j \in g + 1 .. Len(s), Stream!FrameEndsAt(s, j)
                   PROVE  FALSE
        OBVIOUS
      <4>1. /\ Len(buff) = FrameLen
            /\ \A q \in 1 .. FrameLen - 1 : buff[q] # EndSymbol
        BY <1>2
      <4> HIDE DEF p
      <4> QED
        BY <4>1, <2>1, <2>3
    <3>6. Len(left) <= Len(buff) /\ Len(left) < FrameLen /\ Len(left) # FrameLen
      BY <1>1, <2>1, <3>2
    <3> QED
      BY <3>2, <3>3, <3>4, <3>5, <3>6
  <2> QED
    BY <2>2, <2>3
<1> QED
  BY <1>3, <1>4

-----------------------------------------------------------------------------
(* One recv.                                                                 *)

LEMMA RecvStep ==
  ASSUME FramingInv, Next
  PROVE  FramingInv' /\ Stream!Arrive
<1> USE FramingAssumption
<1>a. PICK n \in 1 .. nNeedToReadByte : \E chunk \in [1 .. n -> Symbols] : Recv(chunk)
  BY DEF Next
<1>1. PICK chunk \in [1 .. n -> Symbols] : Recv(chunk)
  BY <1>a
<1> DEFINE buff == cBuff \o chunk
           left == CrossTwoFrames(buff)
<1>2. /\ nNeedToReadByte \in 1 .. FrameLen
      /\ Len(cBuff) = FrameLen - nNeedToReadByte
      /\ cBuff \in Seq(Symbols) /\ received \in Seq(Symbols)
      /\ notes = Stream!NotesOf(received)
  BY DEF FramingInv, RecvFitsBuffer
<1>3. chunk \in Seq(Symbols) /\ Len(chunk) = n /\ n \in Nat \ {0}
  <2>1. n \in Nat \ {0}
    BY <1>2
  <2> QED
    BY <2>1
<1>4. SubSeq(cBuff, 1, FrameLen - nNeedToReadByte) = cBuff
  BY <1>2, SubSeqFull
<1>5. /\ received' = received \o chunk
      /\ IF Len(left) = FrameLen
         THEN /\ notes' = notes \cup {[at |-> Len(received'), frame |-> left]}
              /\ cBuff' = <<>>
              /\ nNeedToReadByte' = FrameLen
         ELSE /\ cBuff' = left
              /\ nNeedToReadByte' = FrameLen - Len(left)
              /\ UNCHANGED notes
  BY <1>1, <1>4 DEF Recv
<1>6. /\ buff \in Seq(Symbols)
      /\ Len(buff) = Len(cBuff) + n
      /\ \A i \in 1 .. Len(cBuff) + n :
           buff[i] = IF i <= Len(cBuff) THEN cBuff[i] ELSE chunk[i - Len(cBuff)]
  BY <1>2, <1>3, ConcatProperties
<1>7. /\ received' \in Seq(Symbols)
      /\ Len(received') = Len(received) + n
      /\ \A i \in 1 .. Len(received) + n :
           received'[i] = IF i <= Len(received) THEN received[i]
                          ELSE chunk[i - Len(received)]
  BY <1>2, <1>3, <1>5, ConcatProperties
<1>8. Len(cBuff) \in Nat /\ Len(received) \in Nat /\ FrameLen \in Nat \ {0}
  BY <1>2
<1>9. /\ Len(cBuff) <= Len(received)
      /\ \A i \in 1 .. Len(cBuff) : cBuff[i] = received[Len(received) - Len(cBuff) + i]
      /\ Stream!OnPieceBoundary(received, Len(received) - Len(cBuff))
  BY DEF FramingInv, IsEndOf, Gone
<1> HIDE DEF buff, left
<1>10. Len(buff) <= FrameLen
  BY <1>2, <1>3, <1>6, <1>8
<1>11. IsEndOf(buff, received')
  <2>1. Len(buff) <= Len(received')
    BY <1>3, <1>6, <1>7, <1>8, <1>9
  <2>2. ASSUME NEW i \in 1 .. Len(buff)
        PROVE  buff[i] = received'[Len(received') - Len(buff) + i]
    <3> DEFINE at == Len(received') - Len(buff) + i
    <3>1. at = Len(received) - Len(cBuff) + i
      BY <1>3, <1>6, <1>7, <1>8
    <3>2. at \in 1 .. Len(received) + n /\ (at <= Len(received) <=> i <= Len(cBuff))
          /\ at - Len(received) = i - Len(cBuff)
      BY <3>1, <1>3, <1>6, <1>8, <1>9
    <3>3. i \in 1 .. Len(cBuff) + n
      BY <1>6
    <3> HIDE DEF at
    <3>4. CASE i <= Len(cBuff)
      <4>1. i \in 1 .. Len(cBuff)
        BY <3>4, <1>8
      <4>2. buff[i] = received[at]
        BY <4>1, <3>1, <3>3, <3>4, <1>6, <1>9
      <4>3. received'[at] = received[at]
        BY <3>2, <3>4, <1>7
      <4> QED
        BY <4>2, <4>3 DEF at
    <3>5. CASE ~ (i <= Len(cBuff))
      <4>1. buff[i] = chunk[i - Len(cBuff)]
        BY <3>3, <3>5, <1>6
      <4>2. received'[at] = chunk[at - Len(received)]
        BY <3>2, <3>5, <1>7
      <4>3. received'[at] = chunk[i - Len(cBuff)]
        BY <4>2, <3>2
      <4> QED
        BY <4>1, <4>3 DEF at
    <3> QED
      BY <3>4, <3>5
  <2> QED
    BY <2>1, <2>2 DEF IsEndOf
<1>12. \A m \in 1 .. Len(received) : received'[m] = received[m]
  BY <1>3, <1>7, <1>8
<1>13. Len(received) <= Len(received')
  BY <1>3, <1>7, <1>8
<1>14. Stream!OnPieceBoundary(received', Len(received') - Len(buff))
  <2>1. Len(received') - Len(buff) = Len(received) - Len(cBuff)
    BY <1>3, <1>6, <1>7, <1>8
  <2>2. Len(received) - Len(cBuff) \in 0 .. Len(received)
    BY <1>8, <1>9
  <2> QED
    BY <1>2, <1>7, <1>9, <1>12, <1>13, <2>1, <2>2, StreamGrows
<1>15. /\ left \in Seq(Symbols)
       /\ Len(left) <= Len(buff)
       /\ IsEndOf(left, received')
       /\ Len(left) < FrameLen =>
            Stream!OnPieceBoundary(received', Len(received') - Len(left))
       /\ Len(left) = FrameLen =>
            /\ left = buff
            /\ Stream!FrameEndsAt(received', Len(received'))
       /\ \A j \in Len(received') - Len(buff) + 1 .. Len(received') :
            Stream!FrameEndsAt(received', j)
              => j = Len(received') /\ Len(left) = FrameLen
  <2>1. left = CrossTwoFrames(buff) /\ buff \in Seq(Symbols) /\ received' \in Seq(Symbols)
    BY <1>6, <1>7 DEF left
  <2> QED
    BY ONLY <2>1, <1>10, <1>11, <1>14, CrossTwoFramesKeepsThePiece
<1>16. Len(left) \in Nat /\ Len(left) <= FrameLen
  BY <1>6, <1>8, <1>10, <1>15, <1>3
<1>17. \A j \in 1 .. Len(received) :
         /\ Stream!FrameEndsAt(received, j) <=> Stream!FrameEndsAt(received', j)
         /\ Stream!FrameEndsAt(received, j) =>
              Stream!NoteAt(received, j) = Stream!NoteAt(received', j)
  BY <1>2, <1>7, <1>12, <1>13, StreamGrows
<1>18. \A j \in Len(received) + 1 .. Len(received') :
         j \in Len(received') - Len(buff) + 1 .. Len(received')
  BY <1>3, <1>6, <1>7, <1>8
<1>19. notes' = Stream!NotesOf(received')
  <2>1. CASE Len(left) = FrameLen
    <3>1. Stream!NoteAt(received', Len(received'))
            = [at |-> Len(received'), frame |-> left]
      <4>1. /\ Len(received') - FrameLen + 1 \in Int /\ Len(received') \in Int
            /\ Len(received') - FrameLen + 1 \in 1 .. Len(received')
        BY <2>1, <1>15, <1>7, <1>8, <1>3 DEF IsEndOf
      <4>2. \A i \in Len(received') - FrameLen + 1 .. Len(received') :
              received'[i] \in Symbols
        BY <1>7, <4>1
      <4>3. LET last == SubSeq(received', Len(received') - FrameLen + 1, Len(received'))
            IN  /\ last \in Seq(Symbols)
                /\ Len(last) = FrameLen
                /\ \A i \in 1 .. FrameLen : last[i] = received'[Len(received') - FrameLen + i]
        BY <4>1, <4>2, <1>8, SubSeqProperties
      <4>4. \A i \in 1 .. FrameLen : left[i] = received'[Len(received') - FrameLen + i]
        BY <2>1, <1>15 DEF IsEndOf
      <4>5. SubSeq(received', Len(received') - FrameLen + 1, Len(received')) = left
        BY <4>3, <4>4, <2>1, <1>15, SeqEqual
      <4> QED
        BY <4>5 DEF Stream!NoteAt
    <3>2. \A j \in 1 .. Len(received') :
            Stream!FrameEndsAt(received', j)
              <=> \/ j \in 1 .. Len(received) /\ Stream!FrameEndsAt(received, j)
                  \/ j = Len(received')
      <4>1. \A j \in 1 .. Len(received') :
              j \in 1 .. Len(received) \/ j \in Len(received) + 1 .. Len(received')
        BY <1>7, <1>8
      <4> QED
        BY <2>1, <4>1, <1>15, <1>17, <1>18
    <3>3. /\ \A j \in 1 .. Len(received) : j \in 1 .. Len(received')
          /\ Len(received') \in 1 .. Len(received')
      BY <1>3, <1>7, <1>8
    <3>4. Stream!NotesOf(received')
            = Stream!NotesOf(received) \cup {Stream!NoteAt(received', Len(received'))}
      BY <1>17, <3>2, <3>3, Zenon DEF Stream!NotesOf
    <3> QED
      BY <2>1, <1>2, <1>5, <3>1, <3>4
  <2>2. CASE Len(left) # FrameLen
    <3>1. \A j \in 1 .. Len(received') :
            Stream!FrameEndsAt(received', j)
              <=> j \in 1 .. Len(received) /\ Stream!FrameEndsAt(received, j)
      <4>1. \A j \in 1 .. Len(received') :
              j \in 1 .. Len(received) \/ j \in Len(received) + 1 .. Len(received')
        BY <1>7, <1>8
      <4> QED
        BY <2>2, <4>1, <1>15, <1>17, <1>18
    <3>2. \A j \in 1 .. Len(received) : j \in 1 .. Len(received')
      BY <1>3, <1>7, <1>8
    <3>3. Stream!NotesOf(received') = Stream!NotesOf(received)
      BY <1>17, <3>1, <3>2, Zenon DEF Stream!NotesOf
    <3> QED
      BY <2>2, <1>2, <1>5, <3>3
  <2> QED
    BY <2>1, <2>2
<1>20. /\ cBuff' \in Seq(Symbols)
       /\ nNeedToReadByte' \in 1 .. FrameLen
       /\ Len(cBuff') = FrameLen - nNeedToReadByte'
       /\ IsEndOf(cBuff', received')
       /\ Stream!OnPieceBoundary(received', Len(received') - Len(cBuff'))
  <2>1. CASE Len(left) = FrameLen
    <3>1. cBuff' = <<>> /\ Len(cBuff') = 0 /\ nNeedToReadByte' = FrameLen
      BY <2>1, <1>5
    <3>2. IsEndOf(cBuff', received')
      BY <3>1, <1>7, <1>8, <1>3 DEF IsEndOf
    <3>3. Len(received') - Len(cBuff') = Len(received') /\ Len(received') \in 1 .. Len(received')
      BY <3>1, <1>3, <1>7, <1>8
    <3>4. received'[Len(received')] = EndSymbol
      BY <2>1, <1>15 DEF Stream!FrameEndsAt
    <3>5. Stream!OnPieceBoundary(received', Len(received'))
      BY <1>7, <3>3, <3>4, PieceAfterEnd
    <3> QED
      BY <3>1, <3>2, <3>3, <3>5, <1>8
  <2>2. CASE Len(left) # FrameLen
    <3>1. cBuff' = left /\ nNeedToReadByte' = FrameLen - Len(left)
      BY <2>2, <1>5
    <3>2. nNeedToReadByte' \in 1 .. FrameLen /\ Len(left) = FrameLen - nNeedToReadByte'
          /\ Len(left) < FrameLen
      BY <2>2, <3>1, <1>8, <1>16
    <3> QED
      BY <3>1, <3>2, <1>15
  <2> QED
    BY <2>1, <2>2
<1>21. FramingInv'
  BY <1>7, <1>19, <1>20 DEF FramingInv, RecvFitsBuffer, Gone
<1>22. SubSeq(received', 1, Len(received)) = received
  BY <1>2, <1>3, <1>5, ConcatSimplifications, SubSeqFull
<1>23. Stream!Arrive
  BY <1>3, <1>7, <1>8, <1>19, <1>22 DEF Stream!Arrive, Stream!Symbols, Symbols
<1> QED
  BY <1>21, <1>23

LEMMA FramingInit == Init => FramingInv /\ Stream!Init
<1> SUFFICES ASSUME Init PROVE FramingInv /\ Stream!Init
  OBVIOUS
<1> USE FramingAssumption
<1>1. cBuff = <<>> /\ nNeedToReadByte = FrameLen /\ received = <<>> /\ notes = {}
  BY DEF Init
<1>2. Len(received) = 0 /\ Len(cBuff) = 0 /\ received \in Seq(Symbols)
  BY <1>1
<1>3. IsEndOf(cBuff, received) /\ RecvFitsBuffer
  BY <1>1, <1>2 DEF IsEndOf, RecvFitsBuffer
<1>4. Stream!OnPieceBoundary(received, Gone)
  <2>1. Gone = 0 /\ 0 - 0 * FrameLen = 0 /\ 0 \in 0 .. 0
    BY <1>2 DEF Gone
  <2>2. Stream!NoEndWithin(received, 0, 0)
    BY DEF Stream!NoEndWithin
  <2> QED
    BY <2>1, <2>2 DEF Stream!OnPieceBoundary
<1>5. Stream!NotesOf(received) = {}
  BY <1>2 DEF Stream!NotesOf
<1> QED
  BY <1>1, <1>2, <1>3, <1>4, <1>5 DEF FramingInv, Stream!Init

LEMMA FramingNext ==
  FramingInv /\ [Next]_vars => FramingInv' /\ [Stream!Arrive]_<<received, notes>>
<1> SUFFICES ASSUME FramingInv, [Next]_vars
             PROVE  FramingInv' /\ [Stream!Arrive]_<<received, notes>>
  OBVIOUS
<1>1. CASE Next
  BY <1>1, RecvStep
<1>2. CASE UNCHANGED vars
  BY <1>2 DEF vars, FramingInv, RecvFitsBuffer, IsEndOf, Gone, Stream!NotesOf,
              Stream!OnPieceBoundary, Stream!NoEndWithin, Stream!FrameEndsAt, Stream!NoteAt
<1> QED
  BY <1>1, <1>2

-----------------------------------------------------------------------------
(* The results.                                                              *)

(* The variables of the framing loop keep their types (bt_daemon.c:366-377). *)
THEOREM FramingTypeCorrect == Spec => []TypeOK
<1>1. FramingInv => TypeOK
  <2> SUFFICES ASSUME FramingInv PROVE TypeOK
    OBVIOUS
  <2> USE FramingAssumption
  <2>1. /\ received \in Seq(Symbols) /\ cBuff \in Seq(Symbols)
        /\ nNeedToReadByte \in Nat
        /\ notes = Stream!NotesOf(received)
    BY DEF FramingInv, RecvFitsBuffer
  <2>2. ASSUME NEW note \in notes
        PROVE  note.at \in Nat /\ note.frame \in Seq(Symbols)
    <3>1. PICK i \in 1 .. Len(received) :
            /\ i >= FrameLen
            /\ note = [at |-> i, frame |-> SubSeq(received, i - FrameLen + 1, i)]
      BY <2>1 DEF Stream!NotesOf, Stream!NoteAt, Stream!FrameEndsAt
    <3>2. /\ i \in Int /\ i - FrameLen + 1 \in Int
          /\ \A m \in i - FrameLen + 1 .. i : received[m] \in Symbols
      BY <2>1, <3>1
    <3>3. SubSeq(received, i - FrameLen + 1, i) \in Seq(Symbols)
      BY <3>2, SubSeqProperties
    <3> QED
      BY <3>1, <3>3
  <2> QED
    BY <2>1, <2>2 DEF TypeOK
<1> QED
  BY <1>1, FramingInit, FramingNext, PTL DEF Spec

(* The buffer of BT_clientService never overflows and recv is never asked    *)
(* for nothing (bt_daemon.c:394-422), for every frame length.                *)
THEOREM RecvAlwaysFits == Spec => []RecvFitsBuffer
<1>1. FramingInv => RecvFitsBuffer
  BY DEF FramingInv
<1> QED
  BY <1>1, FramingInit, FramingNext, PTL DEF Spec

(* The framing loop (bt_daemon.c:151-179, 394-422) plays the notes of its    *)
(* stream, each as soon as its end symbol is received and no other, for      *)
(* every frame length and however the stream is cut.                         *)
THEOREM FramingRefinesStream == Spec => PlaysTheStream
<1> QED
  BY FramingInit, FramingNext, PTL DEF Spec, PlaysTheStream, Stream!Spec

=============================================================================
