---------------------------- MODULE NoteFraming -----------------------------
(***************************************************************************)
(* How BT_clientService cuts the byte stream of its client into note       *)
(* frames: recv fills what is missing of one frame's buffer, and           *)
(* handleReceivedDataCrossTwoFrame keeps what follows the first end symbol *)
(* when that symbol is not where a frame has it.                           *)
(*                                                                         *)
(* The buffer is modelled by the bytes before the recv offset: what lies   *)
(* beyond is zero. cTemp is the private scratch buffer of one call here;   *)
(* that the code shares it between threads is left to a module of its own. *)
(***************************************************************************)
EXTENDS Integers, Sequences

CONSTANTS
  FrameLen,   \* NOTE_FRAME_LENGTH
  Bytes,      \* every byte the peer sends but the end symbol
  EndSymbol,  \* NOTE_FRAME_END_SYMBOL
  MaxReceived \* bound: the peer sends at most this many bytes

ASSUME FramingAssumption ==
  /\ FrameLen \in Nat \ {0}
  /\ EndSymbol \notin Bytes
  /\ MaxReceived \in Nat

Symbols == Bytes \cup {EndSymbol}

VARIABLES
  cBuff,           \* the bytes of cBuff before the recv offset
  nNeedToReadByte, \* how many bytes recv is asked for
  received,        \* history: every byte received so far
  notes            \* history: the frames played, with their place in received

vars == <<cBuff, nNeedToReadByte, received, notes>>

Init ==
  /\ cBuff = <<>>
  /\ nNeedToReadByte = FrameLen
  /\ received = <<>>
  /\ notes = {}

Ends(buff) == {p \in 1 .. Len(buff) : buff[p] = EndSymbol}
FirstEnd(buff) == CHOOSE p \in Ends(buff) : \A q \in Ends(buff) : p <= q

(* Mutant: a full buffer with no end symbol loses only its first byte.       *)
CrossTwoFrames_Slide(buff) ==
  IF Ends(buff) # {}
  THEN IF FirstEnd(buff) = FrameLen THEN buff
       ELSE SubSeq(buff, FirstEnd(buff) + 1, Len(buff))
  ELSE IF Len(buff) = FrameLen THEN Tail(buff) ELSE buff

(* handleReceivedDataCrossTwoFrame: what is left in the buffer.              *)
CrossTwoFrames(buff) ==
  IF Ends(buff) # {}
  THEN IF FirstEnd(buff) = FrameLen THEN buff
       ELSE SubSeq(buff, FirstEnd(buff) + 1, Len(buff))
  ELSE IF Len(buff) = FrameLen THEN <<>> ELSE buff

(* Mutant: what is missing is not reckoned from a whole frame.               *)
Recv_FromNeed(chunk) ==
  LET offset == FrameLen - nNeedToReadByte
      left == CrossTwoFrames(SubSeq(cBuff, 1, offset) \o chunk)
  IN /\ Len(chunk) \in 1 .. nNeedToReadByte
     /\ received' = received \o chunk
     /\ IF Len(left) = FrameLen
        THEN /\ notes' = notes \cup {[at |-> Len(received'), frame |-> left]}
             /\ cBuff' = <<>>
             /\ nNeedToReadByte' = FrameLen
        ELSE /\ cBuff' = left
             /\ nNeedToReadByte' = nNeedToReadByte - Len(left)
             /\ UNCHANGED notes

(* Mutant: what is left and what is missing are swapped.                     *)
Recv_Swapped(chunk) ==
  LET offset == FrameLen - nNeedToReadByte
      left == CrossTwoFrames(SubSeq(cBuff, 1, offset) \o chunk)
  IN /\ Len(chunk) \in 1 .. nNeedToReadByte
     /\ received' = received \o chunk
     /\ IF Len(left) = FrameLen
        THEN /\ notes' = notes \cup {[at |-> Len(received'), frame |-> left]}
             /\ cBuff' = <<>>
             /\ nNeedToReadByte' = FrameLen
        ELSE /\ cBuff' = left
             /\ nNeedToReadByte' = Len(left) - FrameLen
             /\ UNCHANGED notes

(* One recv that returns data, and what the loop does with it. A full buffer *)
(* is a frame: it is played and the buffer emptied.                          *)
Recv(chunk) ==
  LET offset == FrameLen - nNeedToReadByte
      left == CrossTwoFrames(SubSeq(cBuff, 1, offset) \o chunk)
  IN /\ Len(chunk) \in 1 .. nNeedToReadByte
     /\ received' = received \o chunk
     /\ IF Len(left) = FrameLen
        THEN /\ notes' = notes \cup {[at |-> Len(received'), frame |-> left]}
             /\ cBuff' = <<>>
             /\ nNeedToReadByte' = FrameLen
        ELSE /\ cBuff' = left
             /\ nNeedToReadByte' = FrameLen - Len(left)
             /\ UNCHANGED notes

Next ==
  \E n \in 1 .. nNeedToReadByte :
    /\ Len(received) + n <= MaxReceived
    /\ \E chunk \in [1 .. n -> Symbols] : Recv(chunk)

Spec == Init /\ [][Next]_vars

-----------------------------------------------------------------------------
(* Properties.                                                               *)

TypeOK ==
  /\ cBuff \in Seq(Symbols)
  /\ nNeedToReadByte \in Nat
  /\ received \in Seq(Symbols)
  /\ \A note \in notes : note.at \in Nat /\ note.frame \in Seq(Symbols)

(* recv is always asked for at least one byte and never for more than the    *)
(* buffer has left: a request for no byte would return 0 for ever, and the   *)
(* byte after the last would be somebody else's (bt_daemon.c:398, 410-412).  *)
RecvFitsBuffer ==
  /\ nNeedToReadByte \in 1 .. FrameLen
  /\ Len(cBuff) = FrameLen - nNeedToReadByte

(* The notes played are those the stream stands for, in whatever pieces it   *)
(* came and however many end symbols came early (bt_daemon.c:151-179,        *)
(* 395-422).                                                                 *)
Stream == INSTANCE NoteStream
PlaysTheStream == Stream!Spec
=============================================================================
