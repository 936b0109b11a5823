---------------------------- MODULE IpcCommands -----------------------------
(***************************************************************************)
(* The commands of the IPC thread: what a recv of updateMidiAttr returns   *)
(* is given to executeCmdFromUnixSocket, which tries the formats of        *)
(* MIDI_EVENT_UNIX_FORMAT on its beginning.                                *)
(*                                                                         *)
(* A command on its way is two pieces: the text up to its fourth number,   *)
(* and that number with the newline. A format matches once the four        *)
(* numbers are there. The sockets are streams, so a recv may return part   *)
(* of a command or several. Which client is served is IpcServer's matter.  *)
(***************************************************************************)
EXTENDS Integers, Sequences

CONSTANTS
  Callers,        \* the local programs
  Polite,         \* those that send one command, whole, and wait
  Commands,       \* [fn |-> name, a |-> number, b |-> number]
  BufferPieces,   \* how many pieces fill the 128 bytes of cBuff
  MaxCommands     \* bound: each program sends so many

Formats == <<"channel", "volume">>   \* MIDI_EVENT_UNIX_FORMAT

ASSUME CommandAssumption ==
  /\ Polite \subseteq Callers
  /\ \A c \in Commands : c.a \in Int /\ \E i \in DOMAIN Formats : c.fn = Formats[i]
  /\ BufferPieces \in Nat \ {0, 1, 2}

VARIABLES
  unread,     \* the pieces each program has sent and recv has not returned
  sent,       \* the commands each program has begun to send
  executed,   \* the commands executed for it
  nVolume,    \* tMidiPara.nVolume
  events,     \* the events output for commands
  strayed     \* programs whose text led to an access out of bounds

ipcVars == <<unread, sent, executed, nVolume, events, strayed>>

Pieces == [cmd : Commands, part : 1 .. 2]
Whole(c) == <<[cmd |-> c, part |-> 1], [cmd |-> c, part |-> 2]>>

IpcTypeOK ==
  /\ unread \in [Callers -> Seq(Pieces)]
  /\ sent \in [Callers -> Seq(Commands)]
  /\ executed \in [Callers -> Seq(Commands)]
  /\ nVolume \in Int
  /\ \A k \in DOMAIN events : events[k].channel \in 0 .. 255
  /\ strayed \subseteq Callers

IpcInit ==
  /\ unread = [p \in Callers |-> <<>>]
  /\ sent = [p \in Callers |-> <<>>]
  /\ executed = [p \in Callers |-> <<>>]
  /\ nVolume = 50
  /\ events = <<>>
  /\ strayed = {}

(* A polite program's command leaves whole once the last one was read;       *)
(* another's leaves piece by piece, its second half perhaps several times    *)
(* (bound: while less than a bufferful is unread).                           *)
SendCommand(p, c) ==
  /\ \/ /\ Len(sent[p]) < MaxCommands
        /\ IF p \in Polite
             THEN unread[p] = <<>> /\ unread' = [unread EXCEPT ![p] = Whole(c)]
             ELSE unread' = [unread EXCEPT ![p] = @ \o SubSeq(Whole(c), 1, 1)]
        /\ sent' = [sent EXCEPT ![p] = Append(@, c)]
     \/ /\ p \notin Polite
        /\ sent[p] # <<>> /\ sent[p][Len(sent[p])] = c
        /\ unread' = [unread EXCEPT ![p] = Append(@, Whole(c)[2])]
        /\ Len(unread[p]) < BufferPieces
        /\ UNCHANGED sent
  /\ UNCHANGED <<executed, nVolume, events, strayed>>

-----------------------------------------------------------------------------
(* The thread.                                                               *)

(* Mutant: the channel is stored as it was scanned.                          *)
nProgramChange_Wide(c) ==
  /\ events' = Append(events, [channel |-> c.a, value |-> c.b])
  /\ UNCHANGED nVolume

(* channel is an unsigned char of the event.                                 *)
nProgramChange(c) ==
  /\ events' = Append(events, [channel |-> c.a % 256, value |-> c.b])
  /\ UNCHANGED nVolume

(* Under tMidiAttrMutex, which no other thread takes.                        *)
nSetVolume(c) ==
  /\ nVolume' = c.a
  /\ UNCHANGED events

(* sscanf finds the four numbers of the format named fn.                     *)
Matches(text, fn) ==
  /\ Len(text) >= 2
  /\ text[1].cmd.fn = fn
  /\ SubSeq(text, 1, 2) = Whole(text[1].cmd)

(* Mutant: the last format is not tried.                                     *)
executeCmdFromUnixSocket_Short(p, text) ==
  \/ /\ Matches(text, Formats[1])
     /\ nProgramChange(text[1].cmd)
     /\ executed' = [executed EXCEPT ![p] = Append(@, text[1].cmd)]
     /\ UNCHANGED strayed
  \/ /\ ~ Matches(text, Formats[1])
     /\ UNCHANGED <<executed, nVolume, events, strayed>>

(* Mutant: a format that matches does not end the loop over the table.       *)
executeCmdFromUnixSocket_NoReturn(p, text) ==
  /\ \E i \in DOMAIN Formats : Matches(text, Formats[i])
  /\ IF text[1].cmd.fn = "channel"
       THEN nProgramChange(text[1].cmd) ELSE nSetVolume(text[1].cmd)
  /\ executed' = [executed EXCEPT ![p] = Append(@, text[1].cmd)]
  /\ strayed' = strayed \cup {p}

(* The first format that matches decides. When none does the loop goes on    *)
(* past the table, whose size it takes in bytes.                             *)
executeCmdFromUnixSocket(p, text) ==
  \/ \E i \in DOMAIN Formats :
       /\ Matches(text, Formats[i])
       /\ \/ Formats[i] = "channel" /\ nProgramChange(text[1].cmd)
          \/ Formats[i] = "volume" /\ nSetVolume(text[1].cmd)
       /\ executed' = [executed EXCEPT ![p] = Append(@, text[1].cmd)]
       /\ strayed' = strayed \cup {q \in {p} : Len(text) = BufferPieces}
  \/ /\ \A i \in DOMAIN Formats : ~ Matches(text, Formats[i])
     /\ strayed' = strayed \cup {p}
     /\ UNCHANGED <<executed, nVolume, events>>

(* Mutant: a recv that fills the buffer leaves what it returned on the       *)
(* socket.                                                                   *)
RecvCommands_Peek(p) ==
  /\ unread[p] # <<>>
  /\ LET n == IF Len(unread[p]) < BufferPieces
                THEN Len(unread[p]) ELSE BufferPieces
     IN /\ executeCmdFromUnixSocket(p, SubSeq(unread[p], 1, n))
        /\ unread' = [unread EXCEPT ![p] =
                        IF n = BufferPieces THEN @ ELSE <<>>]
  /\ Len(executed[p]) < 4
  /\ UNCHANGED sent

(* recv returns what there is, up to the size of the buffer; when it fills   *)
(* the buffer, the terminator goes one byte past it.                         *)
RecvCommands(p) ==
  /\ unread[p] # <<>>
  /\ LET n == IF Len(unread[p]) < BufferPieces
                THEN Len(unread[p]) ELSE BufferPieces
     IN /\ executeCmdFromUnixSocket(p, SubSeq(unread[p], 1, n))
        /\ unread' = [unread EXCEPT ![p] = SubSeq(@, n + 1, Len(@))]
  /\ UNCHANGED sent

-----------------------------------------------------------------------------
(* Properties.                                                               *)

(* Whatever other programs send, joined, cut or too long, every command of a *)
(* program that waits for its turn is executed, once, in the order sent.     *)
PoliteCommandsExecuted ==
  \A p \in Polite :
    executed[p] = SubSeq(sent[p], 1, Len(sent[p])
                                       - (IF unread[p] = <<>> THEN 0 ELSE 1))

(* A sequence's indices can be matched, in order, with some of another's.    *)
IsSubsequence(s, t) ==
  \E chosen \in SUBSET DOMAIN t :
    \E f \in [DOMAIN s -> chosen] :
      /\ \A i \in DOMAIN s : s[i] = t[f[i]]
      /\ \A i, j \in DOMAIN s : i < j => f[i] < f[j]

(* Commands that are joined or split may be lost, but never run twice, out   *)
(* of order, or with the numbers of two commands mixed.                      *)
NeverInvented == \A p \in Callers : IsSubsequence(executed[p], sent[p])

(* A program that waits for its turn never makes the thread read past the    *)
(* table of formats or write past cBuff.                                     *)
OnlyImpoliteStray == strayed \cap Polite = {}

=============================================================================
