------------------------- MODULE SharedFrameProofs -------------------------
(***************************************************************************)
(* However many threads shift through the one cTemp, and however their     *)
(* steps interleave, no length goes wrong; and each frames its stream as   *)
(* NoteFraming says, but for the shifts whose rest another thread wrote    *)
(* over.                                                                   *)
(***************************************************************************)
EXTENDS SharedFrame, SequenceTheorems, WellFoundedInduction, TLAPS

(* What thread t relies on: a shift has an end symbol to shift behind.       *)
ThreadFits(t) ==
  /\ cBuff[t] \in Seq(Symbols \cup {Zero})
  /\ nNeedToReadByte[t] \in 1 .. FrameLen
  /\ IF pc[t] = "recv"
     THEN Len(cBuff[t]) = Offset(t)
     ELSE /\ Len(cBuff[t]) <= FrameLen
          /\ Framing(t)!Ends(cBuff[t]) # {}

LengthInv ==
  /\ pc \in [Threads -> {"recv", "clear", "save", "restore"}]
  /\ DOMAIN cBuff = Threads
  /\ DOMAIN nNeedToReadByte = Threads
  /\ cTemp \in [1 .. FrameLen -> Symbols \cup {Zero}]
  /\ \A t \in Threads : ThreadFits(t)

(* A set of naturals has a least element.                                    *)
LEMMA LeastOf ==
  ASSUME NEW S \in SUBSET Nat, S # {}
  PROVE  \E p \in S : \A q \in S : p <= q
<1>1. PICK p \in S : \A q \in S : ~ (<<q, p>> \in OpToRel(<, Nat))
  BY NatLessThanWellFounded, WFMin
<1>2. \A q \in S : ~ (q < p)
  BY <1>1 DEF OpToRel
<1> QED
  BY <1>2

(* What follows the first end symbol of a buffer is shorter than a frame.    *)
LEMMA RestFits ==
  ASSUME NEW t \in Threads, LengthInv, pc[t] # "recv"
  PROVE  /\ Rest(t) \in Seq(Symbols \cup {Zero})
         /\ Len(Rest(t)) \in 0 .. FrameLen - 1
<1> USE SharedFrameAssumption
<1> DEFINE buff == cBuff[t]
           ends == Framing(t)!Ends(buff)
           first == Framing(t)!FirstEnd(buff)
<1>1. /\ buff \in Seq(Symbols \cup {Zero})
      /\ Len(buff) <= FrameLen
      /\ ends # {}
  BY DEF LengthInv, ThreadFits
<1>2. ends \in SUBSET (1 .. Len(buff))
  BY DEF Framing!Ends
<1>3. \E p \in ends : \A q \in ends : p <= q
  BY <1>1, <1>2, LeastOf
<1>4. first \in ends
  BY <1>3 DEF Framing!FirstEnd
<1>5. first \in 1 .. Len(buff) /\ Len(buff) \in Nat
  BY <1>1, <1>2, <1>4
<1>6. Rest(t) = SubSeq(buff, first + 1, Len(buff))
  BY DEF Rest
<1> HIDE DEF buff, ends, first
<1>7. /\ SubSeq(buff, first + 1, Len(buff)) \in Seq(Symbols \cup {Zero})
      /\ Len(SubSeq(buff, first + 1, Len(buff))) = Len(buff) - first
  BY <1>1, <1>5, SubSeqProperties
<1> QED
  BY <1>1, <1>5, <1>6, <1>7

-----------------------------------------------------------------------------
(* The state of the other threads is no business of a step.                  *)
LEMMA OthersFit ==
  ASSUME NEW t \in Threads, LengthInv,
         \A u \in Threads \ {t} :
           /\ cBuff'[u] = cBuff[u]
           /\ nNeedToReadByte'[u] = nNeedToReadByte[u]
           /\ pc'[u] = pc[u]
  PROVE  \A u \in Threads \ {t} : ThreadFits(u)'
<1> QED
  BY DEF LengthInv, ThreadFits, Offset, Framing!Ends

LEMMA RecvKeepsLengths ==
  ASSUME NEW t \in Threads, LengthInv, Recv(t)
  PROVE  LengthInv'
<1> USE SharedFrameAssumption
<1>1. PICK n \in 1 .. nNeedToReadByte[t] :
        \E chunk \in [1 .. n -> Symbols] : RecvShift(t, chunk) \/ RecvWhole(t, chunk)
  BY DEF Recv
<1>2. PICK chunk \in [1 .. n -> Symbols] :
        RecvShift(t, chunk) \/ RecvWhole(t, chunk)
  BY <1>1
<1> DEFINE buff == cBuff[t] \o chunk
<1>3. /\ nNeedToReadByte[t] \in 1 .. FrameLen
      /\ cBuff[t] \in Seq(Symbols \cup {Zero})
      /\ Len(cBuff[t]) = FrameLen - nNeedToReadByte[t]
      /\ pc[t] = "recv"
  BY DEF LengthInv, ThreadFits, Recv, Offset
<1>4. chunk \in Seq(Symbols \cup {Zero}) /\ Len(chunk) = n
  BY <1>3
<1>5. /\ buff \in Seq(Symbols \cup {Zero})
      /\ Len(buff) = FrameLen - nNeedToReadByte[t] + n
  BY <1>3, <1>4
<1>6. Len(buff) \in 0 .. FrameLen
  BY <1>3, <1>5
<1> HIDE DEF buff
<1>7. CASE RecvShift(t, chunk)
  <2>1. /\ NeedsShift(t, buff)
        /\ cBuff' = [cBuff EXCEPT ![t] = buff]
        /\ pc' = [pc EXCEPT ![t] = "clear"]
        /\ UNCHANGED <<cTemp, nNeedToReadByte>>
    BY <1>7 DEF RecvShift, buff
  <2>2. Framing(t)!Ends(buff) # {}
    BY <2>1 DEF NeedsShift
  <2>3. cBuff'[t] = buff /\ pc'[t] = "clear"
    BY <2>1 DEF LengthInv
  <2>4. ThreadFits(t)'
    BY <1>3, <1>5, <1>6, <2>1, <2>2, <2>3 DEF ThreadFits, Framing!Ends
  <2>5. \A u \in Threads \ {t} : ThreadFits(u)'
    BY <2>1, OthersFit DEF LengthInv
  <2> QED
    BY <2>1, <2>4, <2>5 DEF LengthInv
<1>8. CASE RecvWhole(t, chunk)
  <2> DEFINE full == Len(buff) = FrameLen
  <2>1. /\ cBuff' = [cBuff EXCEPT ![t] = IF full THEN <<>> ELSE buff]
        /\ nNeedToReadByte' =
             [nNeedToReadByte EXCEPT ![t] = IF full THEN FrameLen ELSE @ - Len(chunk)]
        /\ UNCHANGED <<pc, cTemp>>
    BY <1>8 DEF RecvWhole, buff
  <2>2. /\ cBuff'[t] = IF full THEN <<>> ELSE buff
        /\ nNeedToReadByte'[t] =
             IF full THEN FrameLen ELSE nNeedToReadByte[t] - n
        /\ pc'[t] = "recv"
    BY <1>3, <1>4, <2>1 DEF LengthInv
  <2>3. ThreadFits(t)'
    <3>1. /\ cBuff'[t] \in Seq(Symbols \cup {Zero})
          /\ nNeedToReadByte'[t] \in 1 .. FrameLen
          /\ Len(cBuff'[t]) = FrameLen - nNeedToReadByte'[t]
      BY <1>3, <1>5, <1>6, <2>2
    <3> QED
      BY <2>2, <3>1 DEF ThreadFits, Offset
  <2>4. \A u \in Threads \ {t} : ThreadFits(u)'
    BY <2>1, OthersFit DEF LengthInv
  <2> QED
    BY <2>1, <2>3, <2>4 DEF LengthInv
<1> QED
  BY <1>2, <1>7, <1>8

LEMMA ClearKeepsLengths ==
  ASSUME NEW t \in Threads, LengthInv, ClearTemp(t)
  PROVE  LengthInv'
<1> USE SharedFrameAssumption
<1>1. cTemp' \in [1 .. FrameLen -> Symbols \cup {Zero}]
  BY DEF ClearTemp
<1>2. ThreadFits(t)'
  BY DEF ClearTemp, LengthInv, ThreadFits, Framing!Ends
<1>3. \A u \in Threads \ {t} : ThreadFits(u)'
  BY OthersFit DEF ClearTemp, LengthInv
<1> QED
  BY <1>1, <1>2, <1>3 DEF ClearTemp, LengthInv

LEMMA SaveKeepsLengths ==
  ASSUME NEW t \in Threads, LengthInv, SaveRest(t)
  PROVE  LengthInv'
<1> USE SharedFrameAssumption
<1>1. cTemp' \in [1 .. FrameLen -> Symbols \cup {Zero}]
  <2>1. /\ Rest(t) \in Seq(Symbols \cup {Zero})
        /\ cTemp \in [1 .. FrameLen -> Symbols \cup {Zero}]
    BY RestFits DEF SaveRest, LengthInv
  <2>2. cTemp' = [i \in 1 .. FrameLen |->
                    IF i <= Len(Rest(t)) THEN Rest(t)[i] ELSE cTemp[i]]
    BY DEF SaveRest
  <2>3. \A i \in 1 .. FrameLen :
          i <= Len(Rest(t)) => Rest(t)[i] \in Symbols \cup {Zero}
    BY <2>1
  <2> QED
    BY <2>1, <2>2, <2>3
<1>2. ThreadFits(t)'
  BY DEF SaveRest, LengthInv, ThreadFits, Framing!Ends
<1>3. \A u \in Threads \ {t} : ThreadFits(u)'
  BY OthersFit DEF SaveRest, LengthInv
<1> QED
  BY <1>1, <1>2, <1>3 DEF SaveRest, LengthInv

LEMMA RestoreKeepsLengths ==
  ASSUME NEW t \in Threads, LengthInv, RestoreRest(t)
  PROVE  LengthInv'
<1> USE SharedFrameAssumption
<1>1. Len(Rest(t)) \in 0 .. FrameLen - 1
  BY RestFits DEF RestoreRest
<1> DEFINE left == SubSeq(cTemp, 1, Len(Rest(t)))
<1>2. left \in Seq(Symbols \cup {Zero}) /\ Len(left) = Len(Rest(t))
  <2>1. cTemp \in Seq(Symbols \cup {Zero}) /\ Len(cTemp) = FrameLen
    BY DEF LengthInv
  <2> QED
    BY <1>1, <2>1, SubSeqProperties
<1>3. /\ cBuff'[t] = left
      /\ nNeedToReadByte'[t] = FrameLen - Len(Rest(t))
      /\ pc'[t] = "recv"
  BY DEF RestoreRest, LengthInv
<1> HIDE DEF left
<1>4. ThreadFits(t)'
  <2>1. /\ nNeedToReadByte'[t] \in 1 .. FrameLen
        /\ Len(cBuff'[t]) = FrameLen - nNeedToReadByte'[t]
    BY <1>1, <1>2, <1>3
  <2> QED
    BY <1>2, <1>3, <2>1 DEF ThreadFits, Offset
<1>5. \A u \in Threads \ {t} : ThreadFits(u)'
  BY OthersFit DEF RestoreRest, LengthInv
<1> QED
  BY <1>4, <1>5 DEF RestoreRest, LengthInv

LEMMA LengthInit == Init => LengthInv
<1> USE SharedFrameAssumption
<1> SUFFICES ASSUME Init PROVE LengthInv
  OBVIOUS
<1>1. \A t \in Threads : ThreadFits(t)
  BY DEF Init, ThreadFits, Offset
<1> QED
  BY <1>1 DEF Init, LengthInv

LEMMA LengthNext == LengthInv /\ [Next]_vars => LengthInv'
<1> SUFFICES ASSUME LengthInv, [Next]_vars PROVE LengthInv'
  OBVIOUS
<1>1. ASSUME NEW t \in Threads, Recv(t) PROVE LengthInv'
  BY <1>1, RecvKeepsLengths
<1>2. ASSUME NEW t \in Threads, ClearTemp(t) PROVE LengthInv'
  BY <1>2, ClearKeepsLengths
<1>3. ASSUME NEW t \in Threads, SaveRest(t) PROVE LengthInv'
  BY <1>3, SaveKeepsLengths
<1>4. ASSUME NEW t \in Threads, RestoreRest(t) PROVE LengthInv'
  BY <1>4, RestoreKeepsLengths
<1>5. CASE UNCHANGED vars
  BY <1>5 DEF vars, LengthInv, ThreadFits, Offset, Framing!Ends
<1> QED
  BY <1>1, <1>2, <1>3, <1>4, <1>5 DEF Next

-----------------------------------------------------------------------------
(* Shifts that nobody disturbs.                                              *)

Cells == Symbols \cup {Zero}

(* What a thread that is not disturbed has saved is still there. What it has *)
(* received last is in its buffer, behind the offset, until the shift is     *)
(* over; the bytes before may come from a disturbed shift.                   *)
ThreadClean(t) ==
  /\ cBuff[t] \in Seq(Cells)
  /\ received[t] \in Seq(Symbols)
  /\ pc[t] # "recv" =>
       /\ Framing(t)!FirstEnd(cBuff[t]) # FrameLen
       /\ Offset(t) < Len(cBuff[t])
       /\ Len(received[t]) + (Len(cBuff[t]) - Offset(t)) <= MaxReceived
       /\ \A i \in Offset(t) + 1 .. Len(cBuff[t]) : cBuff[t][i] \in Symbols
  /\ pc[t] = "restore" /\ t \notin disturbed =>
       \A i \in 1 .. Len(Rest(t)) : cTemp[i] = Rest(t)[i]

CleanInv ==
  /\ LengthInv
  /\ DOMAIN received = Threads
  /\ DOMAIN notes = Threads
  /\ \A t \in Threads : ThreadClean(t)

Frames(t) == [Framing(t)!Next]_(Framing(t)!vars)

(* A step of one thread is none of another's, and if it touches what this    *)
(* one has in cTemp, this one is disturbed.                                  *)
LEMMA OthersClean ==
  ASSUME NEW t \in Threads, CleanInv,
         \A u \in Threads \ {t} :
           /\ cBuff'[u] = cBuff[u]
           /\ nNeedToReadByte'[u] = nNeedToReadByte[u]
           /\ pc'[u] = pc[u]
           /\ received'[u] = received[u]
           /\ notes'[u] = notes[u],
         \A u \in Threads \ {t} : u \in disturbed => u \in disturbed',
         cTemp' = cTemp \/ Restoring \subseteq disturbed'
  PROVE  \A u \in Threads \ {t} : ThreadClean(u)' /\ Frames(u)
<1> SUFFICES ASSUME NEW u \in Threads \ {t}
             PROVE  ThreadClean(u)' /\ Frames(u)
  OBVIOUS
<1>1. ThreadClean(u)
  BY DEF CleanInv
<1> DEFINE EndsOf(b) == {p \in 1 .. Len(b) : b[p] = EndSymbol}
           FirstOf(b) == CHOOSE p \in EndsOf(b) : \A q \in EndsOf(b) : p <= q
           RestOf(b) == SubSeq(b, FirstOf(b) + 1, Len(b))
<1>a. /\ Framing(u)!FirstEnd(cBuff[u]) = FirstOf(cBuff[u])
      /\ Framing(u)!FirstEnd(cBuff[u])' = FirstOf(cBuff'[u])
  BY DEF Framing!FirstEnd, Framing!Ends
<1>b. Rest(u) = RestOf(cBuff[u]) /\ Rest(u)' = RestOf(cBuff'[u])
  BY <1>a DEF Rest
<1> HIDE DEF FirstOf, RestOf
<1>2. Rest(u)' = Rest(u) /\ Offset(u)' = Offset(u)
  BY <1>b DEF Offset
<1>3. Framing(u)!FirstEnd(cBuff[u])' = Framing(u)!FirstEnd(cBuff[u])
  BY <1>a
<1>4. pc[u] = "restore" /\ u \notin disturbed'
        => cTemp' = cTemp /\ u \notin disturbed
  BY DEF Restoring
<1>5. ThreadClean(u)'
  BY <1>1, <1>2, <1>3, <1>4 DEF ThreadClean
<1>6. UNCHANGED Framing(u)!vars
  BY <1>2 DEF Framing!vars
<1> QED
  BY <1>5, <1>6 DEF Frames

(* A recv that needs no shift is a whole step of the framing loop; one that  *)
(* does has yet to be dealt with.                                            *)
LEMMA RecvFrames ==
  ASSUME NEW t \in Threads, CleanInv, Recv(t)
  PROVE  /\ \A u \in Threads : ThreadClean(u)' /\ Frames(u)
         /\ DOMAIN received' = Threads /\ DOMAIN notes' = Threads
<1> USE SharedFrameAssumption
<1>1. PICK n \in 1 .. nNeedToReadByte[t] :
        /\ Len(received[t]) + n <= MaxReceived
        /\ \E chunk \in [1 .. n -> Symbols] : RecvShift(t, chunk) \/ RecvWhole(t, chunk)
  BY DEF Recv
<1>2. PICK chunk \in [1 .. n -> Symbols] :
        RecvShift(t, chunk) \/ RecvWhole(t, chunk)
  BY <1>1
<1> DEFINE buff == cBuff[t] \o chunk
           need == nNeedToReadByte[t]
<1>3. /\ need \in 1 .. FrameLen
      /\ cBuff[t] \in Seq(Cells) /\ received[t] \in Seq(Symbols)
      /\ Len(cBuff[t]) = FrameLen - need
      /\ pc[t] = "recv"
  BY DEF CleanInv, LengthInv, ThreadFits, ThreadClean, Recv, Offset
<1>4. /\ chunk \in Seq(Symbols) /\ chunk \in Seq(Cells) /\ Len(chunk) = n
      /\ n \in 1 .. need /\ n \in Nat \ {0}
  BY <1>1, <1>3 DEF Cells
<1>5. /\ buff \in Seq(Cells)
      /\ Len(buff) = FrameLen - need + n
      /\ Len(buff) \in 1 .. FrameLen
  <2>1. buff \in Seq(Cells) /\ Len(buff) = Len(cBuff[t]) + Len(chunk)
    <3>1. cBuff[t] \in Seq(Cells) /\ chunk \in Seq(Cells)
      BY <1>3, <1>4
    <3> QED
      BY ONLY <3>1, ConcatProperties
  <2> QED
    BY <2>1, <1>3, <1>4
<1>6. SubSeq(cBuff[t], 1, Offset(t)) = cBuff[t]
  BY <1>3, SubSeqFull DEF Offset
<1>7. DOMAIN cBuff = Threads /\ DOMAIN nNeedToReadByte = Threads /\ DOMAIN pc = Threads
      /\ DOMAIN received = Threads /\ DOMAIN notes = Threads
  BY DEF CleanInv, LengthInv
<1>8. CASE RecvShift(t, chunk)
  <2>1. /\ NeedsShift(t, buff)
        /\ cBuff' = [cBuff EXCEPT ![t] = buff]
        /\ pc' = [pc EXCEPT ![t] = "clear"]
        /\ UNCHANGED <<cTemp, nNeedToReadByte, received, notes, disturbed>>
    BY <1>8 DEF RecvShift
  <2>2. cBuff'[t] = buff /\ pc'[t] = "clear"
    BY <2>1, <1>7
  <2>a. \A i \in Offset(t) + 1 .. Len(buff) : buff[i] \in Symbols
    <3> TAKE i \in Offset(t) + 1 .. Len(buff)
    <3>1. /\ i \in 1 .. Len(cBuff[t]) + Len(chunk)
          /\ ~ (i <= Len(cBuff[t]))
          /\ i - Len(cBuff[t]) \in 1 .. Len(chunk)
      <4>1. Offset(t) = Len(cBuff[t])
        BY <1>3 DEF Offset
      <4>2. i \in Len(cBuff[t]) + 1 .. Len(cBuff[t]) + Len(chunk)
        BY <4>1, <1>3, <1>4, <1>5
      <4>3. Len(cBuff[t]) \in Nat /\ Len(chunk) \in Nat
        BY <1>3, <1>4
      <4> QED
        BY ONLY <4>2, <4>3
    <3>2. buff[i] = chunk[i - Len(cBuff[t])]
      BY <3>1, <1>3, <1>4, ConcatProperties
    <3> QED
      BY <3>1, <3>2, <1>4, ElementOfSeq
  <2>3. SubSeq(buff, 1, Offset(t)) = cBuff[t]
    <3>1. CASE Len(cBuff[t]) = 0
      <4>1. Offset(t) = 0
        BY <3>1, <1>3 DEF Offset
      <4>2. SubSeq(buff, 1, 0) = SubSeq(cBuff[t], 1, 0)
        BY SubSeqEmpty
      <4> QED
        BY <4>1, <4>2, <1>6
    <3>2. CASE Len(cBuff[t]) # 0
      <4>1. /\ 1 \in 1 .. Len(cBuff[t]) /\ Offset(t) \in 1 .. Len(cBuff[t])
        BY <3>2, <1>3 DEF Offset
      <4> QED
        BY <4>1, <1>3, <1>4, <1>6, SubSeqOfConcat1
    <3> QED
      BY <3>1, <3>2
  <2> HIDE DEF buff
  <2>4. UNCHANGED Framing(t)!vars
    BY <2>1, <2>2, <2>3, <1>6 DEF Framing!vars, Offset
  <2>5. ThreadClean(t)'
    <3>1. Framing(t)!FirstEnd(cBuff[t])' # FrameLen
      BY <2>1, <2>2 DEF NeedsShift, Framing!FirstEnd, Framing!Ends
    <3>2. Offset(t)' = FrameLen - need
      BY <2>1 DEF Offset
    <3>3. Len(received[t]) \in Nat
      BY <1>3, LenProperties
    <3>4. /\ FrameLen - need < Len(buff)
          /\ Len(received[t]) + (Len(buff) - (FrameLen - need)) <= MaxReceived
      BY <1>1, <1>3, <1>4, <1>5, <3>3
    <3> HIDE DEF need
    <3> QED
      BY <1>3, <1>5, <2>1, <2>2, <2>a, <3>1, <3>2, <3>4 DEF ThreadClean, Offset
  <2>6. \A u \in Threads \ {t} : ThreadClean(u)' /\ Frames(u)
    BY <2>1, <1>7, OthersClean
  <2> QED
    BY <2>1, <2>4, <2>5, <2>6, <1>7 DEF Frames
<1>9. CASE RecvWhole(t, chunk)
  <2> DEFINE full == Len(buff) = FrameLen
             sofar == received[t] \o chunk
             ends == Framing(t)!Ends(buff)
  <2>1. /\ ~ NeedsShift(t, buff)
        /\ received' = [received EXCEPT ![t] = sofar]
        /\ cBuff' = [cBuff EXCEPT ![t] = IF full THEN <<>> ELSE buff]
        /\ nNeedToReadByte' =
             [nNeedToReadByte EXCEPT ![t] = IF full THEN FrameLen ELSE @ - Len(chunk)]
        /\ notes' =
             IF full /\ ends # {}
             THEN [notes EXCEPT ![t] = @ \cup {[at |-> Len(sofar), frame |-> buff]}]
             ELSE notes
        /\ UNCHANGED <<pc, cTemp, disturbed>>
    BY <1>9 DEF RecvWhole
  <2>2. /\ cBuff'[t] = IF full THEN <<>> ELSE buff
        /\ nNeedToReadByte'[t] = IF full THEN FrameLen ELSE need - n
        /\ received'[t] = sofar
        /\ notes'[t] = IF full /\ ends # {}
                       THEN notes[t] \cup {[at |-> Len(sofar), frame |-> buff]}
                       ELSE notes[t]
        /\ pc'[t] = "recv"
    BY <2>1, <1>3, <1>4, <1>7
  <2>3. sofar \in Seq(Symbols)
    BY <1>3, <1>4, ConcatProperties
  <2> HIDE DEF sofar
  <2>4. ends # {} => Framing(t)!FirstEnd(buff) = FrameLen
    BY <2>1 DEF NeedsShift
  <2>5. ends # {} => full
    <3>1. ends # {} => FrameLen \in ends
      <4>1. ends \in SUBSET Nat
        BY <1>5 DEF Framing!Ends
      <4>2. ends # {} => \E p \in ends : \A q \in ends : p <= q
        BY <4>1, LeastOf
      <4> QED
        BY <2>4, <4>2 DEF Framing!FirstEnd
    <3>2. FrameLen \in ends => FrameLen \in 1 .. Len(buff)
      BY DEF Framing!Ends
    <3> HIDE DEF ends, buff
    <3> QED
      BY <1>5, <3>1, <3>2
  <2> HIDE DEF buff
  <2>6. Framing(t)!CrossTwoFrames(buff) =
          IF ends # {} THEN buff ELSE IF full THEN <<>> ELSE buff
    BY <2>4 DEF Framing!CrossTwoFrames
  <2> HIDE DEF ends
  <2>7. SubSeq(cBuff'[t], 1, FrameLen - nNeedToReadByte'[t]) = cBuff'[t]
    <3>1. cBuff'[t] \in Seq(Cells) /\ Len(cBuff'[t]) = FrameLen - nNeedToReadByte'[t]
      BY <2>2, <1>3, <1>4, <1>5, EmptySeq
    <3> QED
      BY <3>1, SubSeqFull
  <2>8. Framing(t)!Recv(chunk)
    <3>1. SubSeq(SubSeq(cBuff[t], 1, Offset(t)), 1, FrameLen - need) \o chunk = buff
      BY <1>6 DEF Offset, buff
    <3>2. CASE ends # {}
      <4>1. Framing(t)!CrossTwoFrames(buff) = buff /\ full
        BY <2>5, <2>6, <3>2
      <4> QED
        BY <4>1, <3>1, <3>2, <2>2, <2>7, <1>4 DEF Framing!Recv, Offset, sofar
    <3>3. CASE ends = {} /\ full
      <4>1. Framing(t)!CrossTwoFrames(buff) = <<>> /\ Len(<<>>) = 0
        BY <2>6, <3>3, EmptySeq
      <4>2. 0 # FrameLen /\ FrameLen - 0 = FrameLen
        OBVIOUS
      <4> QED
        BY <4>1, <4>2, <3>1, <3>3, <2>2, <2>7, <1>4 DEF Framing!Recv, Offset,
           sofar
    <3>4. CASE ~ full
      <4>1. Framing(t)!CrossTwoFrames(buff) = buff /\ Len(buff) # FrameLen
        BY <2>6, <3>4
      <4>2. need - n = FrameLen - Len(buff)
        BY <1>3, <1>4, <1>5
      <4> QED
        BY <4>1, <4>2, <3>1, <3>4, <2>2, <2>5, <2>7, <1>4 DEF Framing!Recv,
           Offset, sofar
    <3> QED
      BY <3>2, <3>3, <3>4
  <2>9. Framing(t)!Next
    BY <2>8, <1>1 DEF Framing!Next, Framing!Symbols, Symbols
  <2>10. ThreadClean(t)'
    BY <2>2, <2>3, <1>5, EmptySeq DEF ThreadClean
  <2>11. \A u \in Threads \ {t} : ThreadClean(u)' /\ Frames(u)
    BY <2>1, <1>7, OthersClean
  <2> QED
    BY <2>1, <2>9, <2>10, <2>11, <1>7 DEF Frames
<1> QED
  BY <1>2, <1>8, <1>9

LEMMA ClearFrames ==
  ASSUME NEW t \in Threads, CleanInv, ClearTemp(t)
  PROVE  \A u \in Threads : ThreadClean(u)' /\ Frames(u)
<1>1. /\ pc[t] = "clear" /\ pc'[t] = "save"
      /\ \A u \in Threads \ {t} : pc'[u] = pc[u]
      /\ UNCHANGED <<cBuff, nNeedToReadByte, received, notes>>
      /\ disturbed \subseteq disturbed' /\ Restoring \subseteq disturbed'
  BY DEF ClearTemp, CleanInv, LengthInv
<1>2. UNCHANGED Framing(t)!vars
  BY <1>1 DEF Framing!vars, Offset
<1>3. Framing(t)!FirstEnd(cBuff[t])' = Framing(t)!FirstEnd(cBuff[t])
  BY <1>1 DEF Framing!FirstEnd, Framing!Ends
<1>4. ThreadClean(t)'
  BY <1>1, <1>3 DEF CleanInv, ThreadClean, Offset
<1>5. \A u \in Threads \ {t} : ThreadClean(u)' /\ Frames(u)
  BY <1>1, OthersClean
<1> QED
  BY <1>2, <1>4, <1>5 DEF Frames

LEMMA SaveFrames ==
  ASSUME NEW t \in Threads, CleanInv, SaveRest(t)
  PROVE  \A u \in Threads : ThreadClean(u)' /\ Frames(u)
<1>1. /\ pc[t] = "save" /\ pc'[t] = "restore"
      /\ \A u \in Threads \ {t} : pc'[u] = pc[u]
      /\ UNCHANGED <<cBuff, nNeedToReadByte, received, notes>>
      /\ disturbed \subseteq disturbed' /\ Restoring \subseteq disturbed'
  BY DEF SaveRest, CleanInv, LengthInv
<1>2. UNCHANGED Framing(t)!vars
  BY <1>1 DEF Framing!vars, Offset
<1>3. /\ Framing(t)!FirstEnd(cBuff[t])' = Framing(t)!FirstEnd(cBuff[t])
      /\ Rest(t)' = Rest(t)
  BY <1>1 DEF Framing!FirstEnd, Framing!Ends, Rest
<1>4. \A i \in 1 .. Len(Rest(t)) : cTemp'[i] = Rest(t)[i]
  <2>1. Len(Rest(t)) \in 0 .. FrameLen - 1
    BY <1>1, RestFits DEF CleanInv
  <2>2. \A i \in 1 .. Len(Rest(t)) : i \in 1 .. FrameLen /\ i <= Len(Rest(t))
    BY <2>1, SharedFrameAssumption
  <2> QED
    BY <2>2 DEF SaveRest
<1>5. ThreadClean(t)'
  BY <1>1, <1>3, <1>4 DEF CleanInv, ThreadClean, Offset
<1>6. \A u \in Threads \ {t} : ThreadClean(u)' /\ Frames(u)
  BY <1>1, OthersClean
<1> QED
  BY <1>2, <1>5, <1>6 DEF Frames

(* The end of a shift is the step of the framing loop.                       *)
LEMMA RestoreFrames ==
  ASSUME NEW t \in Threads, CleanInv, RestoreRest(t)
  PROVE  /\ \A u \in Threads : ThreadClean(u)'
         /\ \A u \in Threads \ disturbed : Frames(u)
         /\ DOMAIN received' = Threads /\ DOMAIN notes' = Threads
         /\ t \notin disturbed => cBuff'[t] = Rest(t)
<1> USE SharedFrameAssumption
<1> DEFINE buff == cBuff[t]
           offset == Offset(t)
           rest == Rest(t)
           first == Framing(t)!FirstEnd(buff)
           chunk == SubSeq(buff, offset + 1, Len(buff))
           n == Len(buff) - offset
<1>1. /\ DOMAIN cBuff = Threads /\ DOMAIN nNeedToReadByte = Threads /\ DOMAIN pc = Threads
      /\ DOMAIN received = Threads /\ DOMAIN notes = Threads
      /\ nNeedToReadByte[t] \in 1 .. FrameLen
      /\ Len(buff) <= FrameLen /\ Framing(t)!Ends(buff) # {}
      /\ cTemp \in [1 .. FrameLen -> Cells]
  BY DEF CleanInv, LengthInv, ThreadFits, RestoreRest, Cells
<1>2. /\ buff \in Seq(Cells) /\ received[t] \in Seq(Symbols)
      /\ first # FrameLen
      /\ offset < Len(buff)
      /\ Len(received[t]) + n <= MaxReceived
      /\ \A i \in offset + 1 .. Len(buff) : buff[i] \in Symbols
      /\ t \notin disturbed => \A i \in 1 .. Len(rest) : cTemp[i] = rest[i]
  BY DEF CleanInv, ThreadClean, RestoreRest
<1>3. /\ Len(buff) \in Nat /\ offset \in 0 .. FrameLen - 1
      /\ offset = FrameLen - nNeedToReadByte[t]
      /\ n \in 1 .. nNeedToReadByte[t]
  <2>1. Len(buff) \in Nat
    BY <1>2, LenProperties
  <2>2. offset \in 0 .. FrameLen - 1 /\ offset = FrameLen - nNeedToReadByte[t]
    BY <1>1 DEF Offset
  <2> HIDE DEF buff, offset
  <2> QED
    BY <1>1, <1>2, <2>1, <2>2
<1>4. Len(rest) \in 0 .. FrameLen - 1
  BY RestFits DEF CleanInv, RestoreRest
<1>5. /\ received' = [received EXCEPT ![t] = received[t] \o chunk]
      /\ cBuff'[t] = SubSeq(cTemp, 1, Len(rest))
      /\ nNeedToReadByte'[t] = FrameLen - Len(rest)
      /\ pc'[t] = "recv"
      /\ received'[t] = received[t] \o chunk
      /\ notes' = notes
      /\ \A u \in Threads \ {t} :
           /\ cBuff'[u] = cBuff[u]
           /\ nNeedToReadByte'[u] = nNeedToReadByte[u]
           /\ pc'[u] = pc[u]
           /\ received'[u] = received[u]
           /\ notes'[u] = notes[u]
      /\ cTemp' = cTemp /\ disturbed' = disturbed \ {t}
  BY <1>1 DEF RestoreRest
<1>6. rest = SubSeq(buff, first + 1, Len(buff)) /\ rest \in Seq(Cells)
  <2>1. first \in 1 .. Len(buff)
    <3>1. Framing(t)!Ends(buff) \in SUBSET (1 .. Len(buff))
      BY DEF Framing!Ends
    <3>2. \E p \in Framing(t)!Ends(buff) : \A q \in Framing(t)!Ends(buff) : p <= q
      BY <1>1, <3>1, LeastOf
    <3> QED
      BY <3>1, <3>2 DEF Framing!FirstEnd
  <2>2. rest = SubSeq(buff, first + 1, Len(buff))
    BY DEF Rest
  <2> HIDE DEF buff, first, rest
  <2>3. /\ first + 1 \in Int /\ Len(buff) \in Int
        /\ \A i \in first + 1 .. Len(buff) : i \in 1 .. Len(buff)
    BY <1>3, <2>1
  <2>4. \A i \in first + 1 .. Len(buff) : buff[i] \in Cells
    BY <1>2, <2>3, ElementOfSeq
  <2> QED
    BY <2>2, <2>3, <2>4, SubSeqProperties
<1> HIDE DEF rest, first
<1>7. cBuff'[t] \in Seq(Cells) /\ (t \notin disturbed => cBuff'[t] = rest)
  <2> DEFINE left == SubSeq(cTemp, 1, Len(rest))
  <2>1. \A i \in 1 .. Len(rest) : cTemp[i] \in Cells
    <3>1. \A i \in 1 .. Len(rest) : i \in 1 .. FrameLen
      BY <1>4
    <3> QED
      BY <1>1, <3>1
  <2>2. 1 \in Int /\ Len(rest) \in Int
    BY <1>4
  <2>3. /\ left \in Seq(Cells) /\ Len(left) = Len(rest)
        /\ \A i \in 1 .. Len(left) : left[i] = cTemp[i]
    <3>1. /\ left \in Seq(Cells)
          /\ Len(left) = IF 1 <= Len(rest) THEN Len(rest) - 1 + 1 ELSE 0
          /\ \A i \in 1 .. Len(rest) - 1 + 1 : left[i] = cTemp[1 + i - 1]
      BY <2>1, <2>2, SubSeqProperties
    <3> HIDE DEF left
    <3> QED
      BY <3>1, <1>4
  <2> HIDE DEF left
  <2>4. t \notin disturbed => left = rest
    <3>1. t \notin disturbed => \A i \in 1 .. Len(left) : left[i] = rest[i]
      BY <1>2, <2>3
    <3> QED
      BY <2>3, <3>1, <1>6, SeqEqual
  <2> QED
    BY <2>3, <2>4, <1>5 DEF left
<1>8. SubSeq(buff, 1, offset) \o chunk = buff
  <2>1. 1 \in 1 .. Len(buff) + 1 /\ offset \in 1 - 1 .. Len(buff)
        /\ Len(buff) \in offset .. Len(buff)
    BY <1>2, <1>3
  <2>2. SubSeq(buff, 1, offset) \o chunk = SubSeq(buff, 1, Len(buff))
    <3> HIDE DEF buff, offset
    <3> QED
      BY <2>1, <1>2, ConcatAdjacentSubSeq
  <2> QED
    BY <2>2, <1>2, SubSeqFull
<1>9. /\ SubSeq(buff, 1, offset) \in Seq(Cells)
      /\ Len(SubSeq(buff, 1, offset)) = offset
      /\ chunk \in Seq(Symbols) /\ Len(chunk) = n /\ chunk \in [1 .. n -> Symbols]
  <2> HIDE DEF buff, offset
  <2>1. \A i \in 1 .. Len(buff) : buff[i] \in Cells
    BY <1>2, ElementOfSeq
  <2>2. /\ SubSeq(buff, 1, offset) \in Seq(Cells)
        /\ Len(SubSeq(buff, 1, offset)) = IF 1 <= offset THEN offset - 1 + 1 ELSE 0
    <3>1. 1 \in Int /\ offset \in Int /\ \A i \in 1 .. offset : i \in 1 .. Len(buff)
      BY <1>2, <1>3
    <3>2. \A i \in 1 .. offset : buff[i] \in Cells
      BY <2>1, <3>1
    <3> QED
      BY <3>1, <3>2, SubSeqProperties
  <2>3. /\ chunk \in Seq(Symbols)
        /\ Len(chunk) = IF offset + 1 <= Len(buff) THEN Len(buff) - (offset + 1) + 1 ELSE 0
    <3>1. offset + 1 \in Int /\ Len(buff) \in Int
      BY <1>2, <1>3
    <3> QED
      BY <1>2, <3>1, SubSeqProperties
  <2>4. Len(chunk) = n
    <3> HIDE DEF chunk
    <3> QED
      BY <1>2, <1>3, <2>3
  <2>5. Len(SubSeq(buff, 1, offset)) = offset
    BY <1>3, <2>2
  <2> HIDE DEF chunk, n
  <2> QED
    BY <2>2, <2>3, <2>4, <2>5, LenProperties
<1>10. SubSeq(SubSeq(buff, 1, offset), 1, FrameLen - nNeedToReadByte[t]) \o chunk = buff
  <2>1. SubSeq(SubSeq(buff, 1, offset), 1, offset) = SubSeq(buff, 1, offset)
    BY <1>9, SubSeqFull
  <2> QED
    BY <2>1, <1>3, <1>8
<1>11. t \notin disturbed =>
         SubSeq(cBuff'[t], 1, FrameLen - nNeedToReadByte'[t]) = rest
  <2>1. FrameLen - nNeedToReadByte'[t] = Len(rest)
    BY <1>4, <1>5
  <2> QED
    BY <2>1, <1>6, <1>7, SubSeqFull
<1>12. Framing(t)!CrossTwoFrames(buff) = rest
  BY <1>1, <1>2, <1>6 DEF Framing!CrossTwoFrames, first
<1>13. t \notin disturbed => Framing(t)!Recv(chunk)
  <2> SUFFICES ASSUME t \notin disturbed PROVE Framing(t)!Recv(chunk)
    OBVIOUS
  <2>1. Len(rest) # FrameLen
    BY <1>4
  <2>2. Len(chunk) \in 1 .. nNeedToReadByte[t]
    BY <1>3, <1>9
  <2> HIDE DEF chunk, n
  <2> QED
    BY <2>1, <2>2, <1>5, <1>7, <1>10, <1>11, <1>12 DEF Framing!Recv, Offset
<1>14. t \notin disturbed => Framing(t)!Next
  <2> HIDE DEF chunk, n
  <2> QED
    BY <1>2, <1>3, <1>9, <1>13 DEF Framing!Next, Framing!Symbols, Symbols
<1>15. ThreadClean(t)'
  <2>1. received'[t] \in Seq(Symbols)
    BY <1>2, <1>5, <1>9, ConcatProperties
  <2> QED
    BY <2>1, <1>5, <1>7 DEF ThreadClean
<1>16. \A u \in Threads \ {t} : ThreadClean(u)' /\ Frames(u)
  BY <1>5, OthersClean
<1>17. t \notin disturbed => cBuff'[t] = Rest(t)
  BY <1>7 DEF rest
<1> QED
  BY <1>1, <1>5, <1>14, <1>15, <1>16, <1>17 DEF Frames

LEMMA CleanInit ==
  Init => /\ CleanInv /\ disturbed = {}
          /\ \A t \in Threads : Framing(t)!Init
<1> USE SharedFrameAssumption
<1> SUFFICES ASSUME Init
             PROVE  /\ CleanInv /\ disturbed = {}
                    /\ \A t \in Threads : Framing(t)!Init
  OBVIOUS
<1>1. ASSUME NEW t \in Threads PROVE ThreadClean(t) /\ Framing(t)!Init
  <2>1. /\ cBuff[t] = <<>> /\ nNeedToReadByte[t] = FrameLen
        /\ received[t] = <<>> /\ notes[t] = {} /\ pc[t] = "recv"
    BY <1>1 DEF Init
  <2>2. SubSeq(cBuff[t], 1, Offset(t)) = <<>>
    BY <2>1, SubSeqEmpty DEF Offset
  <2> QED
    BY <2>1, <2>2, EmptySeq DEF ThreadClean, Framing!Init
<1> QED
  BY <1>1, LengthInit DEF CleanInv, Init

LEMMA CleanNext ==
  CleanInv /\ [Next]_vars
    => CleanInv' /\ \A t \in Threads \ disturbed : Frames(t)
<1> SUFFICES ASSUME CleanInv, [Next]_vars
             PROVE  CleanInv' /\ \A t \in Threads \ disturbed : Frames(t)
  OBVIOUS
<1>1. LengthInv'
  BY LengthNext DEF CleanInv
<1>2. ASSUME NEW t \in Threads, Recv(t) \/ RestoreRest(t)
      PROVE  CleanInv' /\ \A u \in Threads \ disturbed : Frames(u)
  BY <1>1, <1>2, RecvFrames, RestoreFrames DEF CleanInv
<1>3. ASSUME NEW t \in Threads, ClearTemp(t) \/ SaveRest(t)
      PROVE  CleanInv' /\ \A u \in Threads \ disturbed : Frames(u)
  <2>1. UNCHANGED <<received, notes>>
    BY <1>3 DEF ClearTemp, SaveRest
  <2> QED
    BY <1>1, <1>3, <2>1, ClearFrames, SaveFrames DEF CleanInv
<1>4. CASE UNCHANGED vars
  <2>1. UNCHANGED <<pc, cTemp, cBuff, nNeedToReadByte, received, notes, disturbed>>
    BY <1>4 DEF vars
  <2>2. ASSUME NEW t \in Threads PROVE ThreadClean(t)' /\ Frames(t)
    <3>1. /\ Framing(t)!FirstEnd(cBuff[t])' = Framing(t)!FirstEnd(cBuff[t])
          /\ Rest(t)' = Rest(t)
      BY <2>1 DEF Framing!FirstEnd, Framing!Ends, Rest
    <3>2. UNCHANGED Framing(t)!vars
      BY <2>1 DEF Framing!vars, Offset
    <3> QED
      BY <2>1, <3>1, <3>2 DEF CleanInv, ThreadClean, Offset, Frames
  <2> QED
    BY <1>1, <2>1, <2>2 DEF CleanInv
<1> QED
  BY <1>2, <1>3, <1>4 DEF Next

(* Only the last step of a shift takes a thread from there to recv.          *)
LEMMA CleanShift ==
  ASSUME CleanInv, [Next]_vars, NEW t \in Threads,
         pc[t] = "restore", pc'[t] = "recv", t \notin disturbed
  PROVE  cBuff'[t] = Rest(t)
<1>1. DOMAIN pc = Threads
  BY DEF CleanInv, LengthInv
<1>2. PICK u \in Threads : Recv(u) \/ ClearTemp(u) \/ SaveRest(u) \/ RestoreRest(u)
  BY DEF Next, vars
<1>3. CASE u # t
  <2>1. pc'[t] = pc[t]
    BY <1>1, <1>2, <1>3 DEF Recv, RecvShift, RecvWhole, ClearTemp, SaveRest,
       RestoreRest
  <2> QED
    BY <2>1
<1>4. CASE u = t
  <2>1. RestoreRest(t)
    BY <1>2, <1>4 DEF Recv, ClearTemp, SaveRest
  <2> QED
    BY <2>1, RestoreFrames
<1> QED
  BY <1>3, <1>4

-----------------------------------------------------------------------------
(* For any number of threads, a thread waiting in recv asks for at least one *)
(* byte and for no more than its buffer has left, whatever the others put in *)
(* cTemp (bt_daemon.c:151-179, 398, 410-412).                                *)
THEOREM SharedBuffersFit == Spec => []BuffersFit
<1>1. LengthInv => BuffersFit
  BY DEF LengthInv, ThreadFits, BuffersFit
<1> QED
  BY <1>1, LengthInit, LengthNext, PTL DEF Spec

(* Each thread's loop, cut into its memset and memcpy calls, is the loop of  *)
(* NoteFraming on its own stream (bt_daemon.c:151-179, 395-422), for any     *)
(* number of threads: sharing cTemp does no harm but to a shift whose saved  *)
(* bytes another thread writes over before they are copied back, and it is   *)
(* over with that shift.                                                     *)
THEOREM ThreadsFrameTheirStreams == Spec => EachFramesItsStream
<1>1. CleanInv /\ [Next]_vars
        => CleanInv' /\ [\A t \in Threads \ disturbed :
                           [Framing(t)!Next]_(Framing(t)!vars)]_vars
  BY CleanNext DEF Frames
<1> QED
  BY <1>1, CleanInit, PTL DEF Spec, EachFramesItsStream

(* Nor does any other shift lose or mix bytes: what is left in the buffer is *)
(* what follows the first end symbol (bt_daemon.c:155-157, 163-168).         *)
THEOREM UndisturbedShiftsKeepRest ==
  Spec => [][\A t \in Threads \ disturbed :
               pc[t] = "restore" /\ pc'[t] = "recv"
                 => cBuff'[t] = Rest(t)]_vars
<1>1. CleanInv /\ [Next]_vars
        => CleanInv' /\ [\A t \in Threads \ disturbed :
                           pc[t] = "restore" /\ pc'[t] = "recv"
                             => cBuff'[t] = Rest(t)]_vars
  BY CleanNext, CleanShift
<1> QED
  BY <1>1, CleanInit, PTL DEF Spec

(* A thread that is the only one is never disturbed: every step of its loop  *)
(* is one of NoteFraming (bt_daemon.c:151-179, 395-422).                     *)
THEOREM AloneFramesItsStream ==
  ASSUME \A t, u \in Threads : t = u
  PROVE  Spec => [](disturbed = {}) /\ EachFramesItsStream
<1>1. disturbed = {} /\ [Next]_vars => (disturbed = {})'
  <2> SUFFICES ASSUME disturbed = {}, [Next]_vars PROVE disturbed' = {}
    OBVIOUS
  <2>1. ASSUME NEW t \in Threads,
               Recv(t) \/ ClearTemp(t) \/ SaveRest(t) \/ RestoreRest(t)
        PROVE  disturbed' = {}
    <3>1. pc[t] # "restore" => Restoring = {}
      BY DEF Restoring
    <3> QED
      BY <2>1, <3>1 DEF Recv, RecvShift, RecvWhole, ClearTemp, SaveRest,
         RestoreRest
  <2> QED
    BY <2>1 DEF Next, vars
<1>2. Init => disturbed = {}
  BY DEF Init
<1>3. Spec => [](disturbed = {})
  BY <1>1, <1>2, PTL DEF Spec
<1> QED
  BY <1>3, ThreadsFrameTheirStreams
=============================================================================
