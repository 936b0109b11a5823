----------------------------- MODULE NoteStream -----------------------------
(***************************************************************************)
(* What the Bluetooth receiver promises: which notes a stream of bytes     *)
(* stands for, whatever the pieces it arrives in.                          *)
(*                                                                         *)
(* A note frame is FrameLen bytes of which the last one, and no other, is  *)
(* the end symbol. A line that is too long is cut in pieces of FrameLen    *)
(* bytes, so it is its last piece that may still be a frame.               *)
(***************************************************************************)
EXTENDS Integers, Sequences

CONSTANTS
  FrameLen,   \* NOTE_FRAME_LENGTH, the end symbol included
  Bytes,      \* every byte the peer sends but the end symbol
  EndSymbol   \* NOTE_FRAME_END_SYMBOL

Symbols == Bytes \cup {EndSymbol}

VARIABLES
  received,  \* every byte received so far
  notes      \* the frames played, each with its place in the stream

(* No line ends strictly after position i and up to position j of stream s.  *)
NoEndWithin(s, i, j) == \A m \in i + 1 .. j : s[m] # EndSymbol

(* Position i is a multiple of FrameLen bytes into its line.                 *)
OnPieceBoundary(s, i) ==
  \E k \in 0 .. i :
    LET start == i - k * FrameLen IN
      /\ start >= 0
      /\ start = 0 \/ s[start] = EndSymbol
      /\ NoEndWithin(s, start, i)

(* A frame of stream s ends at position i.                                   *)
FrameEndsAt(s, i) ==
  /\ i >= FrameLen
  /\ s[i] = EndSymbol
  /\ NoEndWithin(s, i - FrameLen, i - 1)
  /\ OnPieceBoundary(s, i - FrameLen)

NoteAt(s, i) == [at |-> i, frame |-> SubSeq(s, i - FrameLen + 1, i)]

NotesOf(s) == {NoteAt(s, i) : i \in {j \in 1 .. Len(s) : FrameEndsAt(s, j)}}

Init ==
  /\ received = <<>>
  /\ notes = {}

(* Some bytes follow those received so far.                                  *)
Arrive ==
  /\ received' \in Seq(Symbols)
  /\ Len(received') > Len(received)
  /\ SubSeq(received', 1, Len(received)) = received
  /\ notes' = NotesOf(received')

Spec == Init /\ [][Arrive]_<<received, notes>>
=============================================================================
