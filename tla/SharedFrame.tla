---------------------------- MODULE SharedFrame -----------------------------
(***************************************************************************)
(* The framing loop of NoteFraming in several service threads at a time.   *)
(* handleReceivedDataCrossTwoFrame shifts a buffer by way of cTemp, which  *)
(* is static: all threads have the one. Each of its memset and memcpy      *)
(* calls is a step, and the steps of two threads interleave.               *)
(***************************************************************************)
EXTENDS Integers, Sequences

CONSTANTS
  FrameLen,    \* NOTE_FRAME_LENGTH
  Bytes,       \* every byte a peer sends but the end symbol
  EndSymbol,   \* NOTE_FRAME_END_SYMBOL
  Zero,        \* what memset leaves in a cell
  Threads,     \* the threads that run BT_clientService
  MaxReceived  \* bound: each peer sends at most this many bytes

ASSUME SharedFrameAssumption ==
  /\ FrameLen \in Nat \ {0}
  /\ EndSymbol \notin Bytes
  /\ Zero # EndSymbol
  /\ MaxReceived \in Nat

Symbols == Bytes \cup {EndSymbol}

VARIABLES
  pc,              \* where in the loop a thread is
  cTemp,           \* the cells the shift uses
  cBuff,           \* of each thread, as in NoteFraming
  nNeedToReadByte,
  received,        \* history: what each thread has received and dealt with
  notes,           \* history: the frames each thread has played
  disturbed        \* history: those whose rest in cTemp was written over

vars == <<pc, cTemp, cBuff, nNeedToReadByte, received, notes, disturbed>>

Offset(t) == FrameLen - nNeedToReadByte[t]

(* While it is shifting, a thread has not yet dealt with its last recv.      *)
Framing(t) == INSTANCE NoteFraming WITH
  cBuff           <- SubSeq(cBuff[t], 1, Offset(t)),
  nNeedToReadByte <- nNeedToReadByte[t],
  received        <- received[t],
  notes           <- notes[t]

Init ==
  /\ pc = [t \in Threads |-> "recv"]
  /\ cTemp = [i \in 1 .. FrameLen |-> Zero]
  /\ cBuff = [t \in Threads |-> <<>>]
  /\ nNeedToReadByte = [t \in Threads |-> FrameLen]
  /\ received = [t \in Threads |-> <<>>]
  /\ notes = [t \in Threads |-> {}]
  /\ disturbed = {}

(* The bytes after the first end symbol: what a shift keeps.                 *)
Rest(t) == SubSeq(cBuff[t], Framing(t)!FirstEnd(cBuff[t]) + 1, Len(cBuff[t]))

NeedsShift(t, buff) ==
  /\ Framing(t)!Ends(buff) # {}
  /\ Framing(t)!FirstEnd(buff) # FrameLen

(* A recv whose bytes call for a shift.                                      *)
RecvShift(t, chunk) ==
  LET buff == cBuff[t] \o chunk IN
    /\ NeedsShift(t, buff)
    /\ cBuff' = [cBuff EXCEPT ![t] = buff]
    /\ pc' = [pc EXCEPT ![t] = "clear"]
    /\ UNCHANGED <<cTemp, nNeedToReadByte, received, notes, disturbed>>

(* A recv whose bytes do not: a whole frame is played, a full buffer with no *)
(* end symbol is dropped, any other waits for more.                          *)
RecvWhole(t, chunk) ==
  LET buff == cBuff[t] \o chunk
      full == Len(buff) = FrameLen
      sofar == received[t] \o chunk
  IN /\ ~ NeedsShift(t, buff)
     /\ received' = [received EXCEPT ![t] = sofar]
     /\ cBuff' = [cBuff EXCEPT ![t] = IF full THEN <<>> ELSE buff]
     /\ nNeedToReadByte' =
          [nNeedToReadByte EXCEPT ![t] = IF full THEN FrameLen ELSE @ - Len(chunk)]
     /\ notes' =
          IF full /\ Framing(t)!Ends(buff) # {}
          THEN [notes EXCEPT ![t] = @ \cup {[at |-> Len(sofar), frame |-> buff]}]
          ELSE notes
     /\ UNCHANGED <<pc, cTemp, disturbed>>

Recv(t) ==
  /\ pc[t] = "recv"
  /\ \E n \in 1 .. nNeedToReadByte[t] :
       /\ Len(received[t]) + n <= MaxReceived
       /\ \E chunk \in [1 .. n -> Symbols] : RecvShift(t, chunk) \/ RecvWhole(t, chunk)

(* The threads that have a rest in cTemp they are about to copy back.        *)
Restoring == {t \in Threads : pc[t] = "restore"}

(* memset(cTemp, ...)                                                        *)
ClearTemp(t) ==
  /\ pc[t] = "clear"
  /\ cTemp' = [i \in 1 .. FrameLen |-> Zero]
  /\ pc' = [pc EXCEPT ![t] = "save"]
  /\ disturbed' = disturbed \cup Restoring
  /\ UNCHANGED <<cBuff, nNeedToReadByte, received, notes>>

(* memcpy(cTemp, pBuff + ...)                                                *)
SaveRest(t) ==
  /\ pc[t] = "save"
  /\ cTemp' = [i \in 1 .. FrameLen |->
                 IF i <= Len(Rest(t)) THEN Rest(t)[i] ELSE cTemp[i]]
  /\ pc' = [pc EXCEPT ![t] = "restore"]
  /\ disturbed' = disturbed \cup Restoring
  /\ UNCHANGED <<cBuff, nNeedToReadByte, received, notes>>

(* Mutant: the buffer is not cleared and copied into from its offset.        *)
RestoreRest_Stale(t) ==
  /\ pc[t] = "restore"
  /\ cBuff' = [cBuff EXCEPT ![t] = SubSeq(@, 1, Len(Rest(t)))]
  /\ nNeedToReadByte' = [nNeedToReadByte EXCEPT ![t] = FrameLen - Len(Rest(t))]
  /\ received' = [received EXCEPT
       ![t] = @ \o SubSeq(cBuff[t], Offset(t) + 1, Len(cBuff[t]))]
  /\ pc' = [pc EXCEPT ![t] = "recv"]
  /\ disturbed' = disturbed \ {t}
  /\ UNCHANGED <<cTemp, notes>>

(* Mutant: the offset is that of a buffer that keeps its end symbol.         *)
RestoreRest_LongOffset(t) ==
  /\ pc[t] = "restore"
  /\ cBuff' = [cBuff EXCEPT ![t] = SubSeq(cTemp, 1, Len(Rest(t)))]
  /\ nNeedToReadByte' = [nNeedToReadByte EXCEPT ![t] = FrameLen - Len(Rest(t)) - 1]
  /\ received' = [received EXCEPT
       ![t] = @ \o SubSeq(cBuff[t], Offset(t) + 1, Len(cBuff[t]))]
  /\ pc' = [pc EXCEPT ![t] = "recv"]
  /\ disturbed' = disturbed \ {t}
  /\ UNCHANGED <<cTemp, notes>>

(* Mutant: what is left and what is missing are swapped.                     *)
RestoreRest_Swapped(t) ==
  /\ pc[t] = "restore"
  /\ cBuff' = [cBuff EXCEPT ![t] = SubSeq(cTemp, 1, Len(Rest(t)))]
  /\ nNeedToReadByte' = [nNeedToReadByte EXCEPT ![t] = Len(Rest(t)) - FrameLen]
  /\ received' = [received EXCEPT
       ![t] = @ \o SubSeq(cBuff[t], Offset(t) + 1, Len(cBuff[t]))]
  /\ pc' = [pc EXCEPT ![t] = "recv"]
  /\ disturbed' = disturbed \ {t}
  /\ UNCHANGED <<cTemp, notes>>

(* memset(pBuff, ...) and memcpy(pBuff, cTemp, ...); fewer than FrameLen     *)
(* bytes are left, so no frame is played.                                    *)
RestoreRest(t) ==
  /\ pc[t] = "restore"
  /\ cBuff' = [cBuff EXCEPT ![t] = SubSeq(cTemp, 1, Len(Rest(t)))]
  /\ nNeedToReadByte' = [nNeedToReadByte EXCEPT ![t] = FrameLen - Len(Rest(t))]
  /\ received' = [received EXCEPT
       ![t] = @ \o SubSeq(cBuff[t], Offset(t) + 1, Len(cBuff[t]))]
  /\ pc' = [pc EXCEPT ![t] = "recv"]
  /\ disturbed' = disturbed \ {t}
  /\ UNCHANGED <<cTemp, notes>>

Next ==
  \E t \in Threads : Recv(t) \/ ClearTemp(t) \/ SaveRest(t) \/ RestoreRest(t)

Spec == Init /\ [][Next]_vars

-----------------------------------------------------------------------------
(* Properties.                                                               *)

TypeOK ==
  /\ pc \in [Threads -> {"recv", "clear", "save", "restore"}]
  /\ cTemp \in [1 .. FrameLen -> Symbols \cup {Zero}]
  /\ \A t \in Threads :
       /\ cBuff[t] \in Seq(Symbols \cup {Zero})
       /\ nNeedToReadByte[t] \in 0 .. FrameLen
       /\ received[t] \in Seq(Symbols)
  /\ disturbed \subseteq Restoring

(* However the shifts of the threads interleave, a thread waiting in recv    *)
(* asks for what is missing of one frame, and for at least one byte          *)
(* (bt_daemon.c:398, 410-412).                                               *)
BuffersFit ==
  \A t \in Threads :
    pc[t] = "recv" =>
      /\ nNeedToReadByte[t] \in 1 .. FrameLen
      /\ Len(cBuff[t]) = Offset(t)

(* Cut into its memset and memcpy calls, the loop of a thread is still the   *)
(* one of NoteFraming on its own stream, whatever the others do: only another*)
(* write to cTemp between the two copies of a shift makes that shift         *)
(* something else (bt_daemon.c:151-179, 395-422).                            *)
EachFramesItsStream ==
  /\ \A t \in Threads : Framing(t)!Init
  /\ [][\A t \in Threads \ disturbed :
          [Framing(t)!Next]_(Framing(t)!vars)]_vars

(* A shift takes the first end symbol and what is before it out of the       *)
(* buffer and keeps the rest (bt_daemon.c:155-157, 163-168).                 *)
ShiftKeepsRest ==
  [][\A t \in Threads :
       pc[t] = "restore" /\ pc'[t] = "recv" => cBuff'[t] = Rest(t)]_vars
=============================================================================
