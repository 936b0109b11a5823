---------------------------- MODULE UartReceiver ----------------------------
(***************************************************************************)
(* The serial receiver, the loop of UART_clientService: one read of the    *)
(* terminal is one note. The terminal is in canonical mode, so a read      *)
(* returns at most the rest of one line, and at most NOTE_FRAME_LENGTH     *)
(* bytes of it. A line ends with a newline, which is read as part of it,   *)
(* or with the end of file character, which is not. The buffer is not      *)
(* cleared between reads and what read returned is only tested for an      *)
(* error.                                                                  *)
(*                                                                         *)
(* A character is a number: a hexadecimal digit is its value. Left out:    *)
(* signs, blanks and the 0x prefix, which scanf would also accept.         *)
(***************************************************************************)
EXTENDS Integers, Sequences, FiniteSetsExt

CONSTANTS
  NOTE_FRAME_DATA_NUMBER,   \* bytes of an event (4)
  Sendings,                 \* what the device may write at a time
  MaxSendings,              \* bound: it writes so many times
  MaxEmptyReads             \* bound: so many reads return nothing

NL == 16        \* '\n'
CR == 17        \* '\r'
Letter == 18    \* a character that is no digit
Garbled == 19   \* one received with a parity error
NUL == 20
EOT == 21       \* the end of file character, VEOF
Digit == 0 .. 15
Unset == -1     \* a byte nothing was stored in

NOTE_FRAME_LENGTH == 2 * NOTE_FRAME_DATA_NUMBER + 1

ASSUME UartAssumption ==
  /\ NOTE_FRAME_DATA_NUMBER \in Nat \ {0}
  /\ Sendings \subseteq Seq(Digit \cup {NL, CR, EOT, Letter, Garbled})

VARIABLES
  uartPc,      \* "read" or "ended"
  tty,         \* what the terminal has for read
  cBuff,
  sendings,    \* how often the device has written
  emptyReads,  \* how many reads have returned nothing
  received,    \* all the characters read has taken off the terminal
  played       \* the events output, each with how much was read before it

uartVars == <<uartPc, tty, cBuff, sendings, emptyReads, received, played>>

UartTypeOK ==
  /\ uartPc \in {"read", "ended"}
  /\ tty \in Seq(Digit \cup {NL, EOT, Letter})
  /\ cBuff \in [1 .. NOTE_FRAME_LENGTH -> Digit \cup {NL, Letter, NUL}]
  /\ cBuff[NOTE_FRAME_LENGTH] = NUL
  /\ received \in Seq(Digit \cup {NL, EOT, Letter})
  /\ \A k \in DOMAIN played :
       /\ played[k].at \in 0 .. Len(received)
       /\ played[k].event \in
            [1 .. NOTE_FRAME_DATA_NUMBER -> 0 .. 255 \cup {Unset}]

UartInit ==
  /\ uartPc = "read"
  /\ tty = <<>>
  /\ cBuff = [i \in 1 .. NOTE_FRAME_LENGTH |-> NUL]
  /\ sendings = 0
  /\ emptyReads = 0
  /\ received = <<>>
  /\ played = <<>>

-----------------------------------------------------------------------------
(* What the terminal does with what it receives, as tGetUART_Config sets it: *)
(* IGNPAR drops a garbled character, ICRNL makes a carriage return a newline.*)
tGetUART_Config(text) ==
  LET kept[n \in 0 .. Len(text)] ==
        IF n = 0 THEN <<>>
        ELSE IF text[n] = Garbled THEN kept[n - 1]
        ELSE Append(kept[n - 1], IF text[n] = CR THEN NL ELSE text[n])
  IN kept[Len(text)]

DeviceWrites(text) ==
  /\ sendings < MaxSendings
  /\ sendings' = sendings + 1
  /\ tty' = tty \o tGetUART_Config(text)
  /\ UNCHANGED <<uartPc, cBuff, emptyReads, received, played>>

(* sscanf(p, "%2hhx", ...): newlines are skipped, then one or two digits are *)
(* a byte; with no digit nothing is stored. The NUL at the end stops it.     *)
ScanByte(frame, p) ==
  LET k == Min({i \in p .. NOTE_FRAME_LENGTH : frame[i] # NL})
  IN IF frame[k] \notin Digit THEN Unset
     ELSE IF frame[k + 1] \in Digit THEN 16 * frame[k] + frame[k + 1]
     ELSE frame[k]

(* The event's type, channel, note and velocity.                             *)
generateEventContent(frame) ==
  [b \in 1 .. NOTE_FRAME_DATA_NUMBER |-> ScanByte(frame, 2 * b - 1)]

(* What a read of n bytes of text leaves in the buffer: the bytes after them *)
(* stay, and the last one becomes the terminator.                            *)
Overwrite(text, n) ==
  [i \in 1 .. NOTE_FRAME_LENGTH |->
     IF i = NOTE_FRAME_LENGTH THEN NUL
     ELSE IF i <= n THEN text[i] ELSE cBuff[i]]

(* A read of n bytes that takes so many characters off the terminal.         *)
Play(n, taken) ==
  /\ cBuff' = Overwrite(tty, n)
  /\ played' = Append(played, [at |-> Len(received),
                               event |-> generateEventContent(cBuff')])
  /\ received' = received \o SubSeq(tty, 1, taken)
  /\ tty' = SubSeq(tty, taken + 1, Len(tty))

(* The loop looks at __io_canceled when a read has come back.                *)
NextRead(canceled) == uartPc' = IF canceled THEN "ended" ELSE "read"

(* Mutant: the terminal is not canonical: a read takes whatever is there.    *)
ReadLine_Raw(canceled) ==
  /\ uartPc = "read"
  /\ tty # <<>>
  /\ LET n == Min({Len(tty), NOTE_FRAME_LENGTH}) IN Play(n, n)
  /\ NextRead(canceled)
  /\ UNCHANGED <<sendings, emptyReads>>

(* The line ends at the first newline or VEOF. A VEOF is taken with what is  *)
(* before it, alone if that is nothing, and read returns 0 then. Only when   *)
(* the buffer is full right before it may it stay for the next read: kernels *)
(* differ.                                                                   *)
ReadLine(canceled) ==
  /\ uartPc = "read"
  /\ \E i \in DOMAIN tty : tty[i] \in {NL, EOT}
  /\ LET end == Min({i \in DOMAIN tty : tty[i] \in {NL, EOT}})
     IN \/ /\ tty[end] = NL \/ end > NOTE_FRAME_LENGTH
           /\ LET n == Min({end, NOTE_FRAME_LENGTH}) IN Play(n, n)
        \/ /\ tty[end] = EOT /\ end <= NOTE_FRAME_LENGTH + 1
           /\ Play(end - 1, end)
  /\ NextRead(canceled)
  /\ UNCHANGED <<sendings, emptyReads>>

(* read returns 0 when the line hangs up: what the buffer holds is played    *)
(* again.                                                                    *)
ReadNothing(canceled) ==
  /\ uartPc = "read"
  /\ emptyReads < MaxEmptyReads
  /\ emptyReads' = emptyReads + 1
  /\ Play(0, 0)
  /\ NextRead(canceled)
  /\ UNCHANGED sendings

ReadFails ==
  /\ uartPc = "read"
  /\ uartPc' = "ended"
  /\ UNCHANGED <<tty, cBuff, sendings, emptyReads, received, played>>

-----------------------------------------------------------------------------
(* Properties.                                                               *)

(* What was received from position s + 1 is a line of the hexadecimal digits *)
(* of one frame, whichever of the two ways it ends.                          *)
FrameAt(s) ==
  /\ s + NOTE_FRAME_LENGTH <= Len(received)
  /\ s = 0 \/ received[s] \in {NL, EOT}
  /\ \A i \in 1 .. NOTE_FRAME_LENGTH - 1 : received[s + i] \in Digit
  /\ received[s + NOTE_FRAME_LENGTH] \in {NL, EOT}

(* A line of exactly one frame plays the note it spells, whatever lines came *)
(* before it: short ones, which leave the tail of an earlier note in the     *)
(* buffer and play it, long ones, which are cut, empty ones, ones that an    *)
(* end of file character ends early, and hang-ups. The receiver is in step   *)
(* again after every newline and every end of file character.                *)
FramesPlayTheirNote ==
  \A s \in 0 .. Len(received) :
    FrameAt(s) =>
      \E k \in DOMAIN played :
        /\ played[k].at = s
        /\ \A b \in 1 .. NOTE_FRAME_DATA_NUMBER :
             played[k].event[b] = 16 * received[s + 2 * b - 1]
                                     + received[s + 2 * b]

=============================================================================
