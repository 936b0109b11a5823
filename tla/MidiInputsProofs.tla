-------------------------- MODULE MidiInputsProofs --------------------------
(***************************************************************************)
(* The serial line and the local programs: whole lines play their note,    *)
(* and programs that wait for their turn are obeyed, whatever else comes   *)
(* in, for lines and commands without end.                                 *)
(***************************************************************************)
EXTENDS MidiInputs, SequenceTheorems, WellFoundedInduction, TLAPS

-----------------------------------------------------------------------------
(* Commands of the local programs.                                           *)

IpcTypes ==
  /\ unread \in [Callers -> Seq(Pieces)]
  /\ sent \in [Callers -> Seq(Commands)]
  /\ executed \in [Callers -> Seq(Commands)]
  /\ nVolume \in Int
  /\ events \in Seq([channel : 0 .. 255, value : {c.b : c \in Commands}])
  /\ strayed \subseteq Callers

(* The command of a polite program is either executed or whole on its socket. *)
Obeyed(p) ==
  \/ unread[p] = <<>> /\ executed[p] = sent[p]
  \/ /\ sent[p] # <<>>
     /\ unread[p] = Whole(sent[p][Len(sent[p])])
     /\ executed[p] = SubSeq(sent[p], 1, Len(sent[p]) - 1)

(* Where the commands executed, and those whose first piece is unread, were  *)
(* sent: f and g keep the order, and the executed ones come first.           *)
Firsts(pieces) == {i \in 1 .. Len(pieces) : pieces[i].part = 1}
Placed(done, wait, all, f, g) ==
  /\ f \in [1 .. Len(done) -> 1 .. Len(all)]
  /\ g \in [Firsts(wait) -> 1 .. Len(all)]
  /\ \A i \in 1 .. Len(done) : done[i] = all[f[i]]
  /\ \A i \in Firsts(wait) : wait[i].cmd = all[g[i]]
  /\ \A i, j \in 1 .. Len(done) : i < j => f[i] < f[j]
  /\ \A i, j \in Firsts(wait) : i < j => g[i] < g[j]
  /\ \A i \in 1 .. Len(done), j \in Firsts(wait) : f[i] < g[j]
InOrder(p) == \E f, g : Placed(executed[p], unread[p], sent[p], f, g)

IpcInv ==
  /\ IpcTypes
  /\ \A p \in Polite : Obeyed(p)
  /\ \A p \in Callers : InOrder(p)
  /\ OnlyImpoliteStray

LEMMA IpcInitially == IpcInit => IpcInv
<1> SUFFICES ASSUME IpcInit PROVE IpcInv
  OBVIOUS
<1> USE DEF IpcInit
<1>1. IpcTypes
  BY EmptySeq DEF IpcTypes
<1>2. \A p \in Polite : Obeyed(p)
  BY CommandAssumption DEF Obeyed
<1>3. ASSUME NEW p \in Callers PROVE InOrder(p)
  <2> DEFINE none == [i \in {} |-> 0]
  <2>1. Firsts(<<>>) = {} /\ 1 .. Len(<<>>) = {}
    BY EmptySeq DEF Firsts
  <2>2. Placed(<<>>, <<>>, <<>>, none, none)
    BY <2>1 DEF Placed
  <2> QED
    BY <2>2 DEF InOrder
<1> QED
  BY <1>1, <1>2, <1>3 DEF IpcInv, OnlyImpoliteStray

(* What concerns one program is all that a send or a recv changes.           *)
LEMMA IpcOthers ==
  ASSUME IpcInv, IpcTypes', NEW p \in Callers,
         \A q \in Callers \ {p} :
           /\ unread'[q] = unread[q]
           /\ sent'[q] = sent[q]
           /\ executed'[q] = executed[q],
         p \in Polite => Obeyed(p)',
         InOrder(p)',
         strayed' \subseteq strayed \cup {p},
         p \in Polite => strayed' = strayed
  PROVE  IpcInv'
<1>1. ASSUME NEW q \in Polite PROVE Obeyed(q)'
  BY <1>1, CommandAssumption DEF IpcInv, Obeyed
<1>2. ASSUME NEW q \in Callers PROVE InOrder(q)'
  BY <1>2 DEF IpcInv, InOrder
<1> QED
  BY <1>1, <1>2 DEF IpcInv, OnlyImpoliteStray

LEMMA WholeProperties ==
  ASSUME NEW c \in Commands
  PROVE  /\ Whole(c) \in Seq(Pieces)
         /\ Len(Whole(c)) = 2
         /\ Whole(c) # <<>>
         /\ Whole(c)[1] = [cmd |-> c, part |-> 1]
         /\ Whole(c)[2] = [cmd |-> c, part |-> 2]
         /\ SubSeq(Whole(c), 1, 2) = Whole(c)
         /\ SubSeq(Whole(c), 1, 1) = <<[cmd |-> c, part |-> 1]>>
<1>1. /\ [cmd |-> c, part |-> 1] \in Pieces
      /\ [cmd |-> c, part |-> 2] \in Pieces
  BY DEF Pieces
<1>2. /\ Whole(c) \in Seq(Pieces)
      /\ Len(Whole(c)) = 2
      /\ Whole(c) # <<>>
      /\ Whole(c)[1] = [cmd |-> c, part |-> 1]
      /\ Whole(c)[2] = [cmd |-> c, part |-> 2]
  BY <1>1 DEF Whole
<1>3. SubSeq(Whole(c), 1, 2) = Whole(c)
  BY <1>2, SubSeqFull
<1>4. SubSeq(Whole(c), 1, 1) = <<[cmd |-> c, part |-> 1]>>
  <2> DEFINE front == SubSeq(Whole(c), 1, 1)
             first == <<[cmd |-> c, part |-> 1]>>
  <2>1. /\ front \in Seq(Pieces)
        /\ Len(front) = 1
        /\ front[1] = [cmd |-> c, part |-> 1]
    <3>1. \A i \in 1 .. 1 : Whole(c)[i] \in Pieces
      BY <1>1, <1>2
    <3> QED
      BY <1>2, <3>1, SubSeqProperties
  <2>2. first \in Seq(Pieces) /\ Len(first) = 1 /\ first[1] = [cmd |-> c, part |-> 1]
    BY <1>1
  <2> HIDE DEF front, first
  <2>3. front = first
    BY <2>1, <2>2, SeqEqual
  <2> QED
    BY <2>3 DEF front, first
<1> QED
  BY <1>2, <1>3, <1>4

(* A piece that is added to those unread.                                    *)
LEMMA PlacedFirst ==
  ASSUME NEW done \in Seq(Commands), NEW wait \in Seq(Pieces),
         NEW all \in Seq(Commands), NEW f, NEW g, Placed(done, wait, all, f, g),
         NEW c \in Commands, NEW piece \in Pieces, piece = [cmd |-> c, part |-> 1]
  PROVE  \E h : Placed(done, Append(wait, piece), Append(all, c), f, h)
<1> DEFINE more == Append(wait, piece)
           longer == Append(all, c)
           h == [i \in Firsts(more) |-> IF i = Len(wait) + 1 THEN Len(all) + 1 ELSE g[i]]
<1>1. /\ more \in Seq(Pieces) /\ Len(more) = Len(wait) + 1
      /\ \A i \in 1 .. Len(wait) : more[i] = wait[i]
      /\ more[Len(wait) + 1] = piece
  BY AppendProperties
<1>2. /\ longer \in Seq(Commands) /\ Len(longer) = Len(all) + 1
      /\ \A i \in 1 .. Len(all) : longer[i] = all[i]
      /\ longer[Len(all) + 1] = c
  BY AppendProperties
<1>3. Len(wait) \in Nat /\ Len(all) \in Nat /\ Len(done) \in Nat
  BY LenProperties
<1> HIDE DEF more, longer
<1>4. \A i \in Firsts(more) :
        i = Len(wait) + 1 \/ (i \in Firsts(wait) /\ i <= Len(wait))
  BY <1>1, <1>3 DEF Firsts
<1>5. /\ f \in [1 .. Len(done) -> 1 .. Len(longer)]
      /\ \A i \in 1 .. Len(done) : done[i] = longer[f[i]]
  <2>1. \A i \in 1 .. Len(done) : f[i] \in 1 .. Len(all) /\ done[i] = all[f[i]]
    BY DEF Placed
  <2>2. \A i \in 1 .. Len(done) : f[i] \in 1 .. Len(longer) /\ done[i] = longer[f[i]]
    BY <2>1, <1>2, <1>3
  <2> QED
    BY <2>2 DEF Placed
<1>6. h \in [Firsts(more) -> 1 .. Len(longer)]
  BY <1>2, <1>3, <1>4 DEF Placed
<1>11. \A i \in Firsts(more) :
         \/ i = Len(wait) + 1 /\ h[i] = Len(all) + 1
         \/ /\ i \in Firsts(wait) /\ i \in 1 .. Len(wait)
            /\ h[i] = g[i] /\ g[i] \in 1 .. Len(all)
  BY <1>3, <1>4 DEF Placed, Firsts
<1>7. \A i \in Firsts(more) : more[i].cmd = longer[h[i]]
  <2> TAKE i \in Firsts(more)
  <2>1. CASE i = Len(wait) + 1
    BY <2>1, <1>1, <1>2
  <2>2. CASE i \in Firsts(wait) /\ i <= Len(wait)
    <3>1. h[i] = g[i] /\ g[i] \in 1 .. Len(all) /\ wait[i].cmd = all[g[i]]
      BY <2>2, <1>3 DEF Placed
    <3> QED
      BY <3>1, <2>2, <1>1, <1>2 DEF Firsts
  <2> QED
    BY <2>1, <2>2, <1>4
<1> HIDE DEF h
<1>8. \A i, j \in Firsts(more) : i < j => h[i] < h[j]
  BY <1>3, <1>11 DEF Placed
<1>9. \A i \in 1 .. Len(done), j \in Firsts(more) : f[i] < h[j]
  BY <1>3, <1>11 DEF Placed
<1>10. Placed(done, more, longer, f, h)
  BY <1>5, <1>6, <1>7, <1>8, <1>9 DEF Placed
<1> QED
  BY <1>10 DEF more, longer

LEMMA PlacedSecond ==
  ASSUME NEW done \in Seq(Commands), NEW wait \in Seq(Pieces),
         NEW all \in Seq(Commands), NEW f, NEW g, Placed(done, wait, all, f, g),
         NEW piece \in Pieces, piece.part = 2
  PROVE  Placed(done, Append(wait, piece), all, f, g)
<1> DEFINE more == Append(wait, piece)
<1>1. /\ more \in Seq(Pieces) /\ Len(more) = Len(wait) + 1
      /\ \A i \in 1 .. Len(wait) : more[i] = wait[i]
      /\ more[Len(wait) + 1] = piece
  BY AppendProperties
<1>2. Len(wait) \in Nat
  BY LenProperties
<1> HIDE DEF more
<1>3. Firsts(more) = Firsts(wait)
  BY <1>1, <1>2 DEF Firsts
<1>4. \A i \in Firsts(wait) : more[i] = wait[i]
  BY <1>1 DEF Firsts
<1>5. Placed(done, more, all, f, g)
  BY <1>3, <1>4 DEF Placed
<1> QED
  BY <1>5 DEF more

(* n pieces taken away, and the command of the first one of them executed.   *)
LEMMA PlacedTaken ==
  ASSUME NEW done \in Seq(Commands), NEW wait \in Seq(Pieces),
         NEW all \in Seq(Commands), NEW f, NEW g, Placed(done, wait, all, f, g),
         NEW n \in 1 .. Len(wait)
  PROVE  LET rest == SubSeq(wait, n + 1, Len(wait))
         IN /\ \E h : Placed(done, rest, all, f, h)
            /\ wait[1].part = 1 =>
                 \E e, h : Placed(Append(done, wait[1].cmd), rest, all, e, h)
<1> DEFINE rest == SubSeq(wait, n + 1, Len(wait))
           more == Append(done, wait[1].cmd)
           h == [i \in Firsts(rest) |-> g[i + n]]
           e == [i \in 1 .. Len(more) |-> IF i = Len(more) THEN g[1] ELSE f[i]]
<1>1. Len(wait) \in Nat /\ Len(all) \in Nat /\ Len(done) \in Nat
  BY LenProperties
<1>2. \A i \in n + 1 .. Len(wait) : wait[i] \in Pieces
  BY <1>1, ElementOfSeq
<1>3. /\ rest \in Seq(Pieces)
      /\ Len(rest) = Len(wait) - n
      /\ \A i \in 1 .. Len(wait) - n : rest[i] = wait[i + n]
  BY <1>1, <1>2, SubSeqProperties
<1>4. wait[1] \in Pieces /\ wait[1].cmd \in Commands
  <2>1. 1 \in 1 .. Len(wait)
    BY <1>1
  <2>2. wait[1] \in Pieces
    BY <2>1, ElementOfSeq
  <2> QED
    BY <2>2 DEF Pieces
<1>5. /\ more \in Seq(Commands) /\ Len(more) = Len(done) + 1
      /\ \A i \in 1 .. Len(done) : more[i] = done[i]
      /\ more[Len(done) + 1] = wait[1].cmd
  BY <1>4, AppendProperties
<1> HIDE DEF rest, more
<1>6. \A i \in Firsts(rest) : i \in 1 .. Len(rest) /\ i + n \in Firsts(wait)
  BY <1>1, <1>3 DEF Firsts
<1>7. /\ h \in [Firsts(rest) -> 1 .. Len(all)]
      /\ \A i \in Firsts(rest) : rest[i].cmd = all[h[i]]
  BY <1>1, <1>3, <1>6 DEF Placed
<1>8. \A i, j \in Firsts(rest) : i < j => h[i] < h[j]
  BY <1>1, <1>6 DEF Placed
<1>9. \A i \in 1 .. Len(done), j \in Firsts(rest) : f[i] < h[j]
  BY <1>6 DEF Placed
<1>10. Placed(done, rest, all, f, h)
  BY <1>7, <1>8, <1>9 DEF Placed
<1>11. ASSUME wait[1].part = 1 PROVE Placed(more, rest, all, e, h)
  <2>1. 1 \in Firsts(wait) /\ g[1] \in 1 .. Len(all) /\ wait[1].cmd = all[g[1]]
    BY <1>1, <1>11 DEF Firsts, Placed
  <2>2. \A i \in 1 .. Len(more) :
          \/ i = Len(more) /\ e[i] = g[1]
          \/ i \in 1 .. Len(done) /\ e[i] = f[i]
    BY <1>1, <1>5
  <2> HIDE DEF e
  <2>3. e \in [1 .. Len(more) -> 1 .. Len(all)]
    BY <2>1, <2>2 DEF Placed, e
  <2>4. \A i \in 1 .. Len(more) : more[i] = all[e[i]]
    BY <2>1, <2>2, <1>5 DEF Placed
  <2>5. \A i, j \in 1 .. Len(more) : i < j => e[i] < e[j]
    BY <2>1, <2>2, <1>1, <1>5 DEF Placed
  <2>6. \A j \in Firsts(rest) : g[1] < h[j]
    BY <2>1, <1>1, <1>6 DEF Placed
  <2>7. \A i \in 1 .. Len(more), j \in Firsts(rest) : e[i] < h[j]
    BY <2>2, <2>6, <1>9
  <2> QED
    BY <2>3, <2>4, <2>5, <2>7, <1>7, <1>8 DEF Placed
<1> QED
  BY <1>10, <1>11 DEF rest, more

LEMMA SendKeepsIpcInv ==
  ASSUME IpcInv, NEW p \in Callers, NEW c \in Commands, SendCommand(p, c)
  PROVE  IpcInv'
<1> USE DEF IpcInv
<1>1. /\ sent[p] \in Seq(Commands) /\ unread[p] \in Seq(Pieces)
      /\ executed[p] \in Seq(Commands)
      /\ DOMAIN sent = Callers /\ DOMAIN unread = Callers
  BY DEF IpcTypes
<1>2. UNCHANGED <<executed, nVolume, events, strayed>>
  BY DEF SendCommand
<1>3. /\ [cmd |-> c, part |-> 1] \in Pieces
      /\ [cmd |-> c, part |-> 2] \in Pieces
  BY DEF Pieces
<1>4. PICK f, g : Placed(executed[p], unread[p], sent[p], f, g)
  BY DEF InOrder
<1>5. SubSeq(Whole(c), 1, 1) = <<[cmd |-> c, part |-> 1]>>
  BY WholeProperties
<1>6. Append(sent[p], c) \in Seq(Commands)
  BY <1>1, AppendProperties
<1>7. CASE /\ p \in Polite
           /\ unread[p] = <<>> /\ unread' = [unread EXCEPT ![p] = Whole(c)]
           /\ sent' = [sent EXCEPT ![p] = Append(@, c)]
  <2>1. unread'[p] = Whole(c) /\ sent'[p] = Append(sent[p], c)
    BY <1>1, <1>7
  <2>2. /\ Append(<<>>, [cmd |-> c, part |-> 1]) \in Seq(Pieces)
        /\ Whole(c) = Append(Append(<<>>, [cmd |-> c, part |-> 1]),
                             [cmd |-> c, part |-> 2])
        /\ <<>> \in Seq(Pieces)
    BY <1>3, AppendProperties, EmptySeq DEF Whole
  <2>3. Whole(c) \in Seq(Pieces)
    BY <2>2, <1>3, AppendProperties
  <2>4. IpcTypes'
    BY <2>3, <1>2, <1>6, <1>7 DEF IpcTypes
  <2>5. Obeyed(p)'
    <3>1. sent[p] = executed[p]
      <4>1. Whole(sent[p][Len(sent[p])]) # <<>>
        BY DEF Whole
      <4> QED
        BY <4>1, <1>7 DEF Obeyed
    <3>2. /\ sent'[p] # <<>> /\ Len(sent'[p]) = Len(sent[p]) + 1
          /\ sent'[p][Len(sent'[p])] = c
          /\ \A i \in 1 .. Len(sent[p]) : sent'[p][i] = sent[p][i]
      BY <2>1, <1>1, AppendProperties
    <3>3. SubSeq(sent'[p], 1, Len(sent'[p]) - 1) = sent[p]
      <4>1. Len(sent[p]) \in Nat
        BY <1>1, LenProperties
      <4>2. Len(sent'[p]) - 1 = Len(sent[p])
        BY <3>2, <4>1
      <4>3. \A i \in 1 .. Len(sent[p]) : sent'[p][i] \in Commands
        BY <3>2, <1>1, ElementOfSeq
      <4>4. /\ SubSeq(sent'[p], 1, Len(sent[p])) \in Seq(Commands)
            /\ Len(SubSeq(sent'[p], 1, Len(sent[p]))) = Len(sent[p])
            /\ \A i \in 1 .. Len(sent[p]) :
                 SubSeq(sent'[p], 1, Len(sent[p]))[i] = sent'[p][i]
        BY <4>1, <4>3, SubSeqProperties
      <4> QED
        BY <4>2, <4>4, <3>2, <1>1, SeqEqual
    <3> QED
      BY <2>1, <3>1, <3>2, <3>3, <1>2 DEF Obeyed
  <2>6. InOrder(p)'
    <3>1. PICK h : Placed(executed[p], Append(<<>>, [cmd |-> c, part |-> 1]),
                          Append(sent[p], c), f, h)
      BY <1>1, <1>3, <1>4, <1>7, PlacedFirst
    <3>2. Placed(executed[p], Whole(c), Append(sent[p], c), f, h)
      BY <1>1, <1>3, <1>6, <2>2, <3>1, PlacedSecond
    <3> QED
      BY <3>2, <2>1, <1>2 DEF InOrder
  <2> QED
    BY <1>2, <1>7, <2>4, <2>5, <2>6, IpcOthers
<1>8. CASE /\ p \notin Polite
           /\ unread' = [unread EXCEPT ![p] = @ \o SubSeq(Whole(c), 1, 1)]
           /\ sent' = [sent EXCEPT ![p] = Append(@, c)]
  <2>1. /\ unread'[p] = Append(unread[p], [cmd |-> c, part |-> 1])
        /\ sent'[p] = Append(sent[p], c)
    BY <1>1, <1>3, <1>5, <1>8, AppendIsConcat
  <2>2. unread'[p] \in Seq(Pieces)
    BY <2>1, <1>1, <1>3, AppendProperties
  <2>3. IpcTypes'
    BY <2>1, <2>2, <1>2, <1>6, <1>8 DEF IpcTypes
  <2>4. InOrder(p)'
    <3>1. PICK h : Placed(executed[p], Append(unread[p], [cmd |-> c, part |-> 1]),
                          Append(sent[p], c), f, h)
      BY <1>1, <1>3, <1>4, PlacedFirst
    <3> QED
      BY <3>1, <2>1, <1>2 DEF InOrder
  <2> QED
    BY <1>2, <1>8, <2>3, <2>4, IpcOthers
<1>9. CASE /\ p \notin Polite
           /\ unread' = [unread EXCEPT ![p] = Append(@, Whole(c)[2])]
           /\ UNCHANGED sent
  <2>1. unread'[p] = Append(unread[p], [cmd |-> c, part |-> 2])
    BY <1>1, <1>9 DEF Whole
  <2>2. unread'[p] \in Seq(Pieces)
    BY <2>1, <1>1, <1>3, AppendProperties
  <2>3. IpcTypes'
    BY <2>1, <2>2, <1>2, <1>9 DEF IpcTypes
  <2>4. InOrder(p)'
    <3>1. Placed(executed[p], Append(unread[p], [cmd |-> c, part |-> 2]),
                 sent[p], f, g)
      BY <1>1, <1>3, <1>4, PlacedSecond
    <3> QED
      BY <3>1, <2>1, <1>2, <1>9 DEF InOrder
  <2> QED
    BY <1>2, <1>9, <2>3, <2>4, IpcOthers
<1> QED
  BY <1>7, <1>8, <1>9 DEF SendCommand

(* A recv executes the command its first two pieces are, or none.            *)
LEMMA RecvExecutes ==
  ASSUME IpcInv, NEW p \in Callers, RecvCommands(p)
  PROVE  \E n \in 1 .. Len(unread[p]) :
           /\ n = IF Len(unread[p]) < BufferPieces
                   THEN Len(unread[p]) ELSE BufferPieces
           /\ unread' = [unread EXCEPT ![p] = SubSeq(@, n + 1, Len(@))]
           /\ UNCHANGED sent
           /\ executeCmdFromUnixSocket(p, SubSeq(unread[p], 1, n))
           /\ SubSeq(unread[p], 1, n) \in Seq(Pieces)
           /\ Len(SubSeq(unread[p], 1, n)) = n
           /\ \A i \in 1 .. n : SubSeq(unread[p], 1, n)[i] = unread[p][i]
<1> DEFINE n == IF Len(unread[p]) < BufferPieces
                THEN Len(unread[p]) ELSE BufferPieces
<1>1. unread[p] \in Seq(Pieces) /\ unread[p] # <<>>
  BY DEF IpcInv, IpcTypes, RecvCommands
<1>2. Len(unread[p]) \in Nat \ {0}
  BY <1>1, EmptySeq
<1>3. n \in 1 .. Len(unread[p])
  BY <1>2, CommandAssumption
<1>4. \A i \in 1 .. n : unread[p][i] \in Pieces
  BY <1>1, <1>2, <1>3, ElementOfSeq
<1>5. /\ SubSeq(unread[p], 1, n) \in Seq(Pieces)
      /\ Len(SubSeq(unread[p], 1, n)) = n
      /\ \A i \in 1 .. n : SubSeq(unread[p], 1, n)[i] = unread[p][i]
  <2> HIDE DEF n
  <2>1. n \in Int /\ 1 <= n /\ n - 1 + 1 = n
    BY <1>2, <1>3
  <2> QED
    BY <1>4, <2>1, SubSeqProperties
<1> QED
  BY <1>3, <1>5 DEF RecvCommands

LEMMA RecvKeepsIpcInv ==
  ASSUME IpcInv, NEW p \in Callers, RecvCommands(p)
  PROVE  IpcInv'
<1> USE DEF IpcInv
<1>1. /\ sent[p] \in Seq(Commands) /\ unread[p] \in Seq(Pieces)
      /\ executed[p] \in Seq(Commands)
      /\ DOMAIN sent = Callers /\ DOMAIN unread = Callers /\ DOMAIN executed = Callers
  BY DEF IpcTypes
<1>2. PICK n \in 1 .. Len(unread[p]) :
        /\ n = IF Len(unread[p]) < BufferPieces
                THEN Len(unread[p]) ELSE BufferPieces
        /\ unread' = [unread EXCEPT ![p] = SubSeq(@, n + 1, Len(@))]
        /\ UNCHANGED sent
        /\ executeCmdFromUnixSocket(p, SubSeq(unread[p], 1, n))
        /\ SubSeq(unread[p], 1, n) \in Seq(Pieces)
        /\ Len(SubSeq(unread[p], 1, n)) = n
        /\ \A i \in 1 .. n : SubSeq(unread[p], 1, n)[i] = unread[p][i]
  BY RecvExecutes
<1> DEFINE text == SubSeq(unread[p], 1, n)
           rest == SubSeq(unread[p], n + 1, Len(unread[p]))
<1>3. PICK f, g : Placed(executed[p], unread[p], sent[p], f, g)
  BY DEF InOrder
<1>4. Len(unread[p]) \in Nat
  BY <1>1, LenProperties
<1>5. 1 \in 1 .. n /\ text[1] = unread[p][1] /\ unread[p][1] \in Pieces
  BY <1>1, <1>2, <1>4, ElementOfSeq
<1>6. /\ \E h : Placed(executed[p], rest, sent[p], f, h)
      /\ unread[p][1].part = 1 =>
           \E e, h : Placed(Append(executed[p], unread[p][1].cmd), rest, sent[p], e, h)
  BY <1>1, <1>3, PlacedTaken
<1>7. unread'[p] = rest /\ rest \in Seq(Pieces)
  <2>1. unread'[p] = rest
    BY <1>1, <1>2
  <2>2. \A i \in n + 1 .. Len(unread[p]) : unread[p][i] \in Pieces
    BY <1>1, <1>2, <1>4, ElementOfSeq
  <2> QED
    BY <2>1, <2>2, <1>4, SubSeqProperties
<1>8. ASSUME NEW i \in DOMAIN Formats, Matches(text, Formats[i])
      PROVE  unread[p][1].part = 1 /\ unread[p][1].cmd \in Commands /\ text = SubSeq(unread[p], 1, n)
  <2>1. SubSeq(text, 1, 2) = Whole(text[1].cmd) /\ Len(text) >= 2
    BY <1>8 DEF Matches
  <2>2. SubSeq(text, 1, 2)[1] = text[1]
    <3>1. \A j \in 1 .. 2 : text[j] \in Pieces
      BY <1>1, <1>2, <1>4, <2>1, ElementOfSeq
    <3> QED
      BY <3>1, SubSeqProperties
  <2>3. Whole(text[1].cmd)[1].part = 1
    BY DEF Whole
  <2> QED
    BY <2>1, <2>2, <2>3, <1>5 DEF Pieces
<1>9. \/ /\ unread[p][1].part = 1 /\ unread[p][1].cmd \in Commands
         /\ executed' = [executed EXCEPT ![p] = Append(@, unread[p][1].cmd)]
         /\ \/ nProgramChange(unread[p][1].cmd)
            \/ nSetVolume(unread[p][1].cmd)
         /\ strayed' = strayed \cup {q \in {p} : n = BufferPieces}
         /\ \E i \in DOMAIN Formats : Matches(text, Formats[i])
      \/ /\ \A i \in DOMAIN Formats : ~ Matches(text, Formats[i])
         /\ strayed' = strayed \cup {p}
         /\ UNCHANGED <<executed, nVolume, events>>
  BY <1>2, <1>5, <1>8 DEF executeCmdFromUnixSocket
<1> HIDE DEF text, rest
<1>10. IpcTypes'
  <2>1. CASE UNCHANGED <<executed, nVolume, events>>
    BY <2>1, <1>2, <1>7, <1>9 DEF IpcTypes
  <2>2. CASE /\ unread[p][1].cmd \in Commands
             /\ executed' = [executed EXCEPT ![p] = Append(@, unread[p][1].cmd)]
             /\ nProgramChange(unread[p][1].cmd) \/ nSetVolume(unread[p][1].cmd)
    <3> DEFINE c == unread[p][1].cmd
               event == [channel |-> c.a % 256, value |-> c.b]
    <3>1. c.a \in Int /\ c.a % 256 \in 0 .. 255
      <4>1. c.a \in Int
        BY <2>2, CommandAssumption
      <4>2. \A m \in Int : m % 256 \in 0 .. 255
        OBVIOUS
      <4> QED
        BY <4>1, <4>2
    <3>2. /\ event \in [channel : 0 .. 255, value : {d.b : d \in Commands}]
          /\ events \in Seq([channel : 0 .. 255, value : {d.b : d \in Commands}])
      BY <2>2, <3>1 DEF IpcTypes
    <3>3. Append(events, event) \in Seq([channel : 0 .. 255, value : {d.b : d \in Commands}])
      <4> HIDE DEF event
      <4> QED
        BY <3>2, AppendProperties
    <3>4. nVolume' \in Int /\ events' \in Seq([channel : 0 .. 255, value : {d.b : d \in Commands}])
      BY <2>2, <3>1, <3>2, <3>3 DEF nProgramChange, nSetVolume, IpcTypes
    <3>5. Append(executed[p], c) \in Seq(Commands)
      BY <2>2, <1>1, AppendProperties
    <3>6. executed' \in [Callers -> Seq(Commands)]
      BY <2>2, <3>5 DEF IpcTypes
    <3> QED
      BY <3>4, <3>6, <1>2, <1>7, <1>9 DEF IpcTypes
  <2> QED
    BY <2>1, <2>2, <1>9
<1>11. InOrder(p)'
  <2>1. sent'[p] = sent[p] /\ (executed'[p] = executed[p]
          \/ (unread[p][1].part = 1 /\ executed'[p] = Append(executed[p], unread[p][1].cmd)))
    BY <1>1, <1>2, <1>9
  <2>2. \E e, h : Placed(executed'[p], rest, sent[p], e, h)
    BY <2>1, <1>6 DEF rest
  <2> QED
    BY <2>1, <2>2, <1>7 DEF InOrder
<1>12. ASSUME p \in Polite PROVE Obeyed(p)' /\ strayed' = strayed
  <2> DEFINE c == sent[p][Len(sent[p])]
  <2>1. unread[p] # <<>>
    BY <1>1, <1>2, EmptySeq
  <2>2. /\ sent[p] # <<>> /\ unread[p] = Whole(c)
        /\ executed[p] = SubSeq(sent[p], 1, Len(sent[p]) - 1)
    BY <2>1, <1>12 DEF Obeyed
  <2>3. Len(sent[p]) \in Nat \ {0} /\ c \in Commands
    BY <2>2, <1>1, EmptySeq, ElementOfSeq
  <2> HIDE DEF c
  <2>10. /\ Len(Whole(c)) = 2
         /\ Whole(c)[1] = [cmd |-> c, part |-> 1]
         /\ SubSeq(Whole(c), 1, 2) = Whole(c)
    BY <2>3, WholeProperties
  <2>11. BufferPieces \in Nat /\ 2 < BufferPieces
    BY CommandAssumption
  <2>4. n = 2 /\ n # BufferPieces
    <3>1. Len(unread[p]) = 2
      BY <2>2, <2>10
    <3>2. n = IF Len(unread[p]) < BufferPieces THEN Len(unread[p]) ELSE BufferPieces
      BY <1>2
    <3> QED
      BY ONLY <3>1, <3>2, <2>11
  <2>5. text = Whole(c) /\ unread[p][1].cmd = c
    BY <2>2, <2>10, <2>4 DEF text
  <2>6. \E i \in DOMAIN Formats : Matches(text, Formats[i])
    <3>1. PICK i \in DOMAIN Formats : c.fn = Formats[i]
      BY <2>3, CommandAssumption
    <3>2. Matches(text, Formats[i])
      BY <2>5, <2>10, <3>1 DEF Matches
    <3> QED
      BY <3>2
  <2>7. executed'[p] = Append(executed[p], c) /\ strayed' = strayed
    BY <2>4, <2>5, <2>6, <1>1, <1>9
  <2>8. unread'[p] = <<>>
    <3>1. rest = SubSeq(Whole(c), 3, 2)
      BY <2>2, <2>4, <2>10 DEF rest
    <3> QED
      BY <3>1, <1>7, SubSeqEmpty
  <2>9. Append(SubSeq(sent[p], 1, Len(sent[p]) - 1), c) = sent[p]
    <3>1. Len(sent[p]) \in 1 .. Len(sent[p]) /\ 1 \in 1 .. Len(sent[p])
      BY <2>3
    <3>2. SubSeq(sent[p], 1, Len(sent[p])) = SubSeq(sent[p], 1, Len(sent[p]) - 1) \o <<c>>
      BY <3>1, <1>1, SubSeqRecursiveSecond DEF c
    <3>3. SubSeq(sent[p], 1, Len(sent[p]) - 1) \in Seq(Commands)
      BY <2>2, <1>1
    <3> QED
      BY <3>2, <3>3, <2>3, <1>1, SubSeqFull, AppendIsConcat
  <2> QED
    BY <2>2, <2>7, <2>8, <2>9, <1>2 DEF Obeyed
<1>13. /\ \A q \in Callers \ {p} :
            /\ unread'[q] = unread[q]
            /\ sent'[q] = sent[q]
            /\ executed'[q] = executed[q]
       /\ strayed' \subseteq strayed \cup {p}
  BY <1>1, <1>2, <1>9
<1> QED
  BY <1>10, <1>11, <1>12, <1>13, IpcOthers

(* The invariant says what the properties ask for.                           *)
LEMMA ObeyedSaysExecuted ==
  ASSUME IpcInv
  PROVE  PoliteCommandsExecuted
<1> SUFFICES ASSUME NEW p \in Polite
             PROVE  executed[p] = SubSeq(sent[p], 1, Len(sent[p])
                                   - (IF unread[p] = <<>> THEN 0 ELSE 1))
  BY DEF PoliteCommandsExecuted
<1>1. sent[p] \in Seq(Commands) /\ Len(sent[p]) \in Nat
  BY CommandAssumption, LenProperties DEF IpcInv, IpcTypes
<1>2. CASE unread[p] = <<>> /\ executed[p] = sent[p]
  BY <1>1, <1>2, SubSeqFull
<1>3. CASE /\ unread[p] = Whole(sent[p][Len(sent[p])])
           /\ executed[p] = SubSeq(sent[p], 1, Len(sent[p]) - 1)
  <2>1. unread[p] # <<>>
    BY <1>3 DEF Whole
  <2> QED
    BY <1>3, <2>1
<1> QED
  BY <1>2, <1>3 DEF IpcInv, Obeyed

LEMMA InOrderSaysNotInvented ==
  ASSUME IpcInv
  PROVE  NeverInvented
<1> SUFFICES ASSUME NEW p \in Callers PROVE IsSubsequence(executed[p], sent[p])
  BY DEF NeverInvented
<1>1. executed[p] \in Seq(Commands) /\ sent[p] \in Seq(Commands)
  BY DEF IpcInv, IpcTypes
<1>2. DOMAIN executed[p] = 1 .. Len(executed[p]) /\ DOMAIN sent[p] = 1 .. Len(sent[p])
  BY <1>1, LenProperties
<1>3. PICK f, g : Placed(executed[p], unread[p], sent[p], f, g)
  BY DEF IpcInv, InOrder
<1>4. /\ DOMAIN sent[p] \in SUBSET DOMAIN sent[p]
      /\ f \in [DOMAIN executed[p] -> DOMAIN sent[p]]
      /\ \A i \in DOMAIN executed[p] : executed[p][i] = sent[p][f[i]]
      /\ \A i, j \in DOMAIN executed[p] : i < j => f[i] < f[j]
  BY <1>2, <1>3 DEF Placed
<1> QED
  BY <1>4 DEF IsSubsequence

-----------------------------------------------------------------------------
(* Lines of the serial device.                                               *)

Raw == Digit \cup {NL, CR, EOT, Letter, Garbled}
Char == Digit \cup {NL, EOT, Letter}
LineEnd == {NL, EOT}

(* A set of naturals has a least element.                                    *)
LEMMA LeastOf ==
  ASSUME NEW S \in SUBSET Nat, S # {}
  PROVE  Min(S) \in S /\ \A q \in S : Min(S) <= q
<1>1. PICK p \in S : \A q \in S : ~ (<<q, p>> \in OpToRel(<, Nat))
  BY NatLessThanWellFounded, WFMin
<1>2. \A q \in S : ~ (q < p)
  BY <1>1 DEF OpToRel
<1>3. \E x \in S : \A q \in S : x <= q
  BY <1>2
<1> QED
  BY <1>3 DEF Min

(* What the terminal keeps of a text: the characters that stay, in order. By *)
(* the least length of which that were not so.                               *)
LEMMA ConfigKeepsChars ==
  ASSUME NEW text \in Seq(Raw)
  PROVE  tGetUART_Config(text) \in Seq(Char)
<1> DEFINE Cook(c) == IF c = CR THEN NL ELSE c
           Next1(g, n) == IF n = 0 THEN <<>>
                          ELSE IF text[n] = Garbled THEN g[n - 1]
                          ELSE Append(g[n - 1], Cook(text[n]))
           Upto(g, m) == \A n \in 0 .. m : g[n] = Next1(g, n)
           L == Len(text)
           Bad == {m \in 0 .. L : ~ \E g : g \in [0 .. m -> Seq(Char)] /\ Upto(g, m)}
<1>1. L \in Nat
  BY LenProperties
<1>2. \A n \in 1 .. L : text[n] # Garbled => Cook(text[n]) \in Char
  BY ElementOfSeq DEF Raw, Char, CR, NL, EOT, Letter, Garbled, Digit
<1>3. Bad = {}
  <2>1. SUFFICES ASSUME Bad # {} PROVE FALSE
    OBVIOUS
  <2>2. Min(Bad) \in Bad /\ \A q \in Bad : Min(Bad) <= q
    <3>1. Bad \in SUBSET Nat
      BY <1>1
    <3> QED
      BY <2>1, <3>1, LeastOf
  <2> DEFINE m == Min(Bad)
  <2>3. m \in 0 .. L /\ ~ \E g : g \in [0 .. m -> Seq(Char)] /\ Upto(g, m)
    BY <2>2
  <2>4. CASE m = 0
    <3> DEFINE g == [n \in 0 .. 0 |-> <<>>]
    <3>1. g \in [0 .. 0 -> Seq(Char)] /\ Upto(g, 0)
      BY EmptySeq
    <3> QED
      BY <2>3, <2>4, <3>1
  <2>5. CASE m # 0
    <3>1. m \in 1 .. L /\ m - 1 \in 0 .. L /\ m - 1 \notin Bad
      <4>1. m \in 1 .. L /\ m - 1 \in 0 .. L /\ m - 1 < m
        BY <1>1, <2>3, <2>5
      <4> HIDE DEF Bad
      <4> QED
        BY <4>1, <2>2
    <3> HIDE DEF m
    <3>2. PICK g : g \in [0 .. m - 1 -> Seq(Char)] /\ Upto(g, m - 1)
      <4> HIDE DEF Upto
      <4> QED
        BY <3>1
    <3> DEFINE h == [n \in 0 .. m |-> IF n = m THEN Next1(g, m) ELSE g[n]]
    <3>3. Next1(g, m) \in Seq(Char)
      <4>1. m - 1 \in 0 .. m - 1 /\ g[m - 1] \in Seq(Char) /\ m # 0
        BY <1>1, <3>1, <3>2
      <4>2. text[m] # Garbled => Append(g[m - 1], Cook(text[m])) \in Seq(Char)
        <5> HIDE DEF Cook
        <5> QED
          BY <4>1, <1>2, <3>1, AppendProperties
      <4> HIDE DEF Cook
      <4> QED
        BY <4>1, <4>2
    <3>4. h \in [0 .. m -> Seq(Char)]
      <4> HIDE DEF Next1
      <4> QED
        BY <1>1, <3>1, <3>2, <3>3
    <3>5. Upto(h, m)
      <4>1. SUFFICES ASSUME NEW n \in 0 .. m PROVE h[n] = Next1(h, n)
        OBVIOUS
      <4>2. n # 0 => h[n - 1] = g[n - 1]
        BY <1>1, <3>1, <4>1
      <4>3. n # m => h[n] = g[n] /\ g[n] = Next1(g, n)
        <5>1. n # m => n \in 0 .. m - 1
          BY <1>1, <3>1, <4>1
        <5> HIDE DEF Next1
        <5> QED
          BY <5>1, <3>2
      <4>4. n = m => h[n] = Next1(g, n)
        BY <3>1
      <4> HIDE DEF h, Cook
      <4> QED
        BY <4>2, <4>3, <4>4
    <3> QED
      BY <2>3, <3>4, <3>5 DEF m
  <2> QED
    BY <2>4, <2>5
<1>4. PICK g : g \in [0 .. L -> Seq(Char)] /\ Upto(g, L)
  <2>1. L \in 0 .. L /\ L \notin Bad
    <3> HIDE DEF Bad
    <3> QED
      BY <1>1, <1>3
  <2> HIDE DEF Upto
  <2> QED
    BY <2>1
<1> DEFINE kept[n \in 0 .. Len(text)] ==
             IF n = 0 THEN <<>>
             ELSE IF text[n] = Garbled THEN kept[n - 1]
             ELSE Append(kept[n - 1], IF text[n] = CR THEN NL ELSE text[n])
<1>5. g = [n \in 0 .. L |-> Next1(g, n)]
  BY <1>4
<1>6. kept = [n \in 0 .. L |-> Next1(kept, n)]
  BY <1>5
<1>7. tGetUART_Config(text) = kept[L]
  BY DEF tGetUART_Config
<1> HIDE DEF kept
<1>8. Upto(kept, L)
  <2> HIDE DEF Next1
  <2> QED
    BY <1>6
<1> DEFINE Odd == {m \in 0 .. L : kept[m] \notin Seq(Char)}
<1>9. Odd = {}
  <2>1. SUFFICES ASSUME Odd # {} PROVE FALSE
    OBVIOUS
  <2> DEFINE m == Min(Odd)
  <2>2. m \in Odd /\ \A q \in Odd : m <= q
    <3>1. Odd \in SUBSET Nat
      BY <1>1
    <3> QED
      BY <2>1, <3>1, LeastOf
  <2> HIDE DEF m
  <2>3. m \in 0 .. L /\ kept[m] \notin Seq(Char)
    BY <2>2
  <2>4. kept[m] = Next1(kept, m)
    BY <1>8, <2>3
  <2>5. CASE m = 0
    BY <2>3, <2>4, <2>5, EmptySeq
  <2>6. CASE m # 0
    <3>1. m \in 1 .. L /\ m - 1 \in 0 .. L /\ m - 1 < m
      BY <1>1, <2>3, <2>6
    <3>2. kept[m - 1] \in Seq(Char)
      BY <3>1, <2>2
    <3>3. text[m] # Garbled => Append(kept[m - 1], Cook(text[m])) \in Seq(Char)
      <4> HIDE DEF Cook
      <4> QED
        BY <1>2, <3>1, <3>2, AppendProperties
    <3> HIDE DEF Cook
    <3> QED
      BY <2>3, <2>4, <2>6, <3>2, <3>3
  <2> QED
    BY <2>5, <2>6
<1> QED
  BY <1>1, <1>7, <1>9

Frames == [1 .. NOTE_FRAME_LENGTH -> Digit \cup {NL, Letter, NUL}]
Events == [1 .. NOTE_FRAME_DATA_NUMBER -> 0 .. 255 \cup {Unset}]

UartTypes ==
  /\ uartPc \in {"read", "ended"}
  /\ tty \in Seq(Char)
  /\ cBuff \in Frames /\ cBuff[NOTE_FRAME_LENGTH] = NUL
  /\ received \in Seq(Char)
  /\ played \in Seq([at : Nat, event : Events])
  /\ \A k \in 1 .. Len(played) : played[k].at <= Len(received)

(* A line of which the end has not been read is longer than a frame, so that *)
(* no frame is read in two parts.                                            *)
LineStart(s) == s = 0 \/ received[s] \in LineEnd
RestOfLong ==
  \A s \in 0 .. Len(received) - 1 :
    LineStart(s) /\ (\A i \in s + 1 .. Len(received) : received[i] \notin LineEnd)
      => Len(received) - s >= NOTE_FRAME_LENGTH

UartInv ==
  /\ UartTypes
  /\ RestOfLong
  /\ FramesPlayTheirNote

LEMMA FrameLength ==
  /\ NOTE_FRAME_DATA_NUMBER \in Nat \ {0}
  /\ NOTE_FRAME_LENGTH \in Nat \ {0}
  /\ NOTE_FRAME_LENGTH = 2 * NOTE_FRAME_DATA_NUMBER + 1
BY UartAssumption DEF NOTE_FRAME_LENGTH

(* Two digits are a byte; no scan passes the terminator.                     *)
LEMMA ScanByteProperties ==
  ASSUME NEW frame \in Frames, frame[NOTE_FRAME_LENGTH] = NUL,
         NEW p \in 1 .. NOTE_FRAME_LENGTH
  PROVE  /\ ScanByte(frame, p) \in 0 .. 255 \cup {Unset}
         /\ frame[p] \in Digit /\ frame[p + 1] \in Digit
              => ScanByte(frame, p) = 16 * frame[p] + frame[p + 1]
<1> DEFINE S == {i \in p .. NOTE_FRAME_LENGTH : frame[i] # NL}
           k == Min(S)
<1>1. S \in SUBSET Nat /\ NOTE_FRAME_LENGTH \in S
  BY FrameLength DEF NL, NUL
<1>2. k \in S /\ \A q \in S : k <= q
  BY <1>1, LeastOf
<1> HIDE DEF k
<1>3. k \in p .. NOTE_FRAME_LENGTH
  BY <1>2
<1>4. ScanByte(frame, p) =
        IF frame[k] \notin Digit THEN Unset
        ELSE IF frame[k + 1] \in Digit THEN 16 * frame[k] + frame[k + 1]
        ELSE frame[k]
  BY DEF ScanByte, k
<1>5. \A c, d \in Digit : 16 * c + d \in 0 .. 255 /\ c \in 0 .. 255
  BY DEF Digit
<1>6. ScanByte(frame, p) \in 0 .. 255 \cup {Unset}
  BY <1>4, <1>5
<1>7. frame[p] \in Digit => k = p
  <2>1. frame[p] \in Digit => p \in S
    BY FrameLength DEF Digit, NL
  <2> QED
    BY <2>1, <1>2, <1>3, FrameLength
<1> QED
  BY <1>4, <1>6, <1>7

(* One read: n bytes go to the buffer, so many characters leave the terminal.*)
LEMMA PlayTypes ==
  ASSUME UartTypes, NEW taken \in 0 .. Len(tty), NEW n \in 0 .. taken,
         \A i \in 1 .. n : tty[i] # EOT, Play(n, taken)
  PROVE  /\ cBuff' \in Frames /\ cBuff'[NOTE_FRAME_LENGTH] = NUL
         /\ \A i \in 1 .. NOTE_FRAME_LENGTH - 1 : i <= n => cBuff'[i] = tty[i]
         /\ tty' \in Seq(Char)
         /\ received' \in Seq(Char)
         /\ Len(received') = Len(received) + taken
         /\ \A i \in 1 .. Len(received) : received'[i] = received[i]
         /\ \A i \in 1 .. taken : received'[Len(received) + i] = tty[i]
         /\ played' \in Seq([at : Nat, event : Events])
         /\ Len(played') = Len(played) + 1
         /\ \A k \in 1 .. Len(played) : played'[k] = played[k]
         /\ played'[Len(played) + 1] =
              [at |-> Len(received), event |-> generateEventContent(cBuff')]
<1> USE DEF UartTypes
<1>1. Len(tty) \in Nat /\ Len(received) \in Nat /\ n \in Nat /\ taken \in Nat
  BY LenProperties
<1>2. \A i \in 1 .. Len(tty) : tty[i] \in Char
  BY ElementOfSeq
<1>3. cBuff' = Overwrite(tty, n)
  BY DEF Play
<1>4. cBuff' \in Frames /\ cBuff'[NOTE_FRAME_LENGTH] = NUL
  <2>1. \A i \in 1 .. NOTE_FRAME_LENGTH :
          Overwrite(tty, n)[i] \in Digit \cup {NL, Letter, NUL}
    <3> TAKE i \in 1 .. NOTE_FRAME_LENGTH
    <3>1. i <= n => tty[i] \in Char /\ tty[i] # EOT
      BY <1>1, <1>2
    <3>2. i <= n => tty[i] \in Digit \cup {NL, Letter, NUL}
      BY <3>1 DEF Char
    <3>3. cBuff[i] \in Digit \cup {NL, Letter, NUL}
      BY DEF Frames
    <3> QED
      BY <3>2, <3>3 DEF Overwrite
  <2> QED
    BY <2>1, <1>3, FrameLength DEF Overwrite, Frames
<1>5. \A i \in 1 .. NOTE_FRAME_LENGTH - 1 : i <= n => cBuff'[i] = tty[i]
  BY <1>3, FrameLength DEF Overwrite
<1>6. /\ SubSeq(tty, 1, taken) \in Seq(Char)
      /\ Len(SubSeq(tty, 1, taken)) = taken
      /\ \A i \in 1 .. taken : SubSeq(tty, 1, taken)[i] = tty[i]
  <2>1. \A i \in 1 .. taken : tty[i] \in Char
    BY <1>1, <1>2
  <2>2. 1 \in Int /\ taken \in Int
    BY <1>1
  <2> QED
    BY <1>1, <2>1, <2>2, SubSeqProperties
<1>7. tty' \in Seq(Char)
  <2>1. \A i \in taken + 1 .. Len(tty) : tty[i] \in Char
    BY <1>1, <1>2
  <2> QED
    BY <1>1, <2>1, SubSeqProperties DEF Play
<1>8. /\ received' \in Seq(Char)
      /\ Len(received') = Len(received) + taken
      /\ \A i \in 1 .. Len(received) + taken :
           received'[i] = IF i <= Len(received) THEN received[i]
                          ELSE SubSeq(tty, 1, taken)[i - Len(received)]
  BY <1>6, ConcatProperties DEF Play
<1>9. /\ \A i \in 1 .. Len(received) : received'[i] = received[i]
      /\ \A i \in 1 .. taken : received'[Len(received) + i] = tty[i]
  <2>1. \A i \in 1 .. Len(received) : i \in 1 .. Len(received) + taken /\ i <= Len(received)
    BY <1>1
  <2>2. \A i \in 1 .. taken : /\ Len(received) + i \in 1 .. Len(received) + taken
                          /\ ~ (Len(received) + i <= Len(received))
                          /\ (Len(received) + i) - Len(received) = i
    BY <1>1
  <2> QED
    BY <2>1, <2>2, <1>6, <1>8
<1>10. generateEventContent(cBuff') \in Events
  <2>1. \A b \in 1 .. NOTE_FRAME_DATA_NUMBER : 2 * b - 1 \in 1 .. NOTE_FRAME_LENGTH
    BY FrameLength
  <2> QED
    BY <2>1, <1>4, ScanByteProperties DEF generateEventContent, Events
<1> DEFINE note == [at |-> Len(received), event |-> generateEventContent(cBuff')]
<1>11. note \in [at : Nat, event : Events] /\ played' = Append(played, note)
  BY <1>1, <1>10 DEF Play
<1> HIDE DEF note
<1>12. /\ played' \in Seq([at : Nat, event : Events])
       /\ Len(played') = Len(played) + 1
       /\ \A k \in 1 .. Len(played) : played'[k] = played[k]
       /\ played'[Len(played) + 1] = note
  BY <1>11, AppendProperties
<1> QED
  BY <1>4, <1>5, <1>7, <1>8, <1>9, <1>12 DEF note

LEMMA PlayKeepsUartInv ==
  ASSUME UartInv, NEW taken \in 0 .. Len(tty), NEW n \in 0 .. taken,
         n <= NOTE_FRAME_LENGTH, taken <= n + 1, Play(n, taken),
         uartPc' \in {"read", "ended"},
         \A i \in 1 .. n : tty[i] # EOT,
         \A i \in 1 .. taken - 1 : tty[i] \notin LineEnd,
         taken = 0 \/ tty[taken] \in LineEnd \/ taken = NOTE_FRAME_LENGTH
  PROVE  UartInv'
<1> USE DEF UartInv
<1> DEFINE R == Len(received)
           FL == NOTE_FRAME_LENGTH
<1>1. /\ cBuff' \in Frames /\ cBuff'[FL] = NUL
      /\ \A i \in 1 .. FL - 1 : i <= n => cBuff'[i] = tty[i]
      /\ tty' \in Seq(Char)
      /\ received' \in Seq(Char)
      /\ Len(received') = R + taken
      /\ \A i \in 1 .. R : received'[i] = received[i]
      /\ \A i \in 1 .. taken : received'[R + i] = tty[i]
      /\ played' \in Seq([at : Nat, event : Events])
      /\ Len(played') = Len(played) + 1
      /\ \A k \in 1 .. Len(played) : played'[k] = played[k]
      /\ played'[Len(played) + 1] =
           [at |-> R, event |-> generateEventContent(cBuff')]
  BY PlayTypes
<1>2. /\ Len(tty) \in Nat /\ R \in Nat /\ n \in Nat /\ taken \in Nat /\ Len(played) \in Nat
      /\ FL \in Nat \ {0} /\ FL = 2 * NOTE_FRAME_DATA_NUMBER + 1
      /\ NOTE_FRAME_DATA_NUMBER \in Nat \ {0}
  BY FrameLength, LenProperties DEF UartTypes
<1>3. UartTypes'
  <2>1. \A k \in 1 .. Len(played') : played'[k].at <= Len(received')
    <3>1. \A k \in 1 .. Len(played') :
            k = Len(played) + 1 \/ k \in 1 .. Len(played)
      BY <1>1, <1>2
    <3>2. ASSUME NEW k \in 1 .. Len(played) PROVE played'[k].at <= R + taken
      <4>1. played[k] \in [at : Nat, event : Events]
        BY ElementOfSeq DEF UartTypes
      <4>2. played[k].at \in Nat
        BY <4>1
      <4>3. played[k].at <= R
        BY DEF UartTypes
      <4>4. played'[k] = played[k]
        BY <1>1
      <4> HIDE DEF R
      <4> QED
        BY <4>2, <4>3, <4>4, <1>2
    <3>3. played'[Len(played) + 1].at = R
      BY <1>1
    <3>4. Len(received') = R + taken
      BY <1>1
    <3> HIDE DEF R
    <3>5. R <= R + taken
      BY <1>2
    <3> QED
      BY <3>1, <3>2, <3>3, <3>4, <3>5
  <2> QED
    BY <2>1, <1>1 DEF UartTypes
<1> HIDE DEF R, FL
<1>4. \A s \in 0 .. R + taken : LineStart(s)' =>
        \/ s \in 0 .. R /\ LineStart(s)
        \/ s = R + taken /\ tty[taken] \in LineEnd
  <2> TAKE s \in 0 .. R + taken
  <2> HAVE LineStart(s)'
  <2>0. s = 0 \/ received'[s] \in LineEnd
    BY DEF LineStart
  <2>1. CASE s = 0
    BY <2>1, <1>2 DEF LineStart
  <2>2. CASE s \in 1 .. R
    <3>1. s \in 0 .. R /\ s # 0
      BY <2>2, <1>2
    <3>2. received[s] \in LineEnd
      BY <2>0, <2>2, <3>1, <1>1
    <3> QED
      BY <3>1, <3>2 DEF LineStart
  <2>3. CASE s \in R + 1 .. R + taken
    <3>1. s - R \in 1 .. taken /\ s = R + (s - R) /\ s # 0
      BY <2>3, <1>2
    <3>2. tty[s - R] \in LineEnd
      <4>1. received'[R + (s - R)] = tty[s - R]
        BY <3>1, <1>1
      <4>2. received'[s] \in LineEnd
        BY <2>0, <3>1
      <4> QED
        BY <3>1, <4>1, <4>2
    <3>3. ~ (s - R \in 1 .. taken - 1)
      BY <3>2
    <3>4. s - R = taken
      BY <3>1, <3>3, <1>2
    <3> QED
      BY <3>1, <3>2, <3>4
  <2>4. s \in 1 .. R \/ s \in R + 1 .. R + taken \/ s = 0
    BY <1>2
  <2> QED
    BY <2>1, <2>2, <2>3, <2>4
<1>5. RestOfLong'
  <2> SUFFICES ASSUME NEW s \in 0 .. Len(received') - 1, LineStart(s)',
                      \A i \in s + 1 .. Len(received') : received'[i] \notin LineEnd
               PROVE  Len(received') - s >= FL
    BY DEF RestOfLong, FL
  <2>1. s \in 0 .. R /\ LineStart(s) /\ s # R + taken
    BY <1>1, <1>2, <1>4
  <2>2. CASE taken = 0
    <3>1. s \in 0 .. R - 1
      BY <2>1, <2>2, <1>2
    <3>2. \A i \in s + 1 .. R : received[i] \notin LineEnd
      <4> TAKE i \in s + 1 .. R
      <4>1. i \in 1 .. R /\ i \in s + 1 .. Len(received')
        BY <3>1, <2>2, <1>1, <1>2
      <4>2. received'[i] \notin LineEnd /\ received'[i] = received[i]
        BY <4>1, <1>1
      <4> QED
        BY <4>2
    <3>3. R - s >= FL
      BY <3>1, <3>2, <2>1 DEF RestOfLong, R, FL
    <3> QED
      BY <3>3, <2>2, <1>1, <1>2
  <2>3. CASE taken # 0
    <3>1. R + taken \in s + 1 .. Len(received') /\ taken \in 1 .. taken
      BY <2>1, <2>3, <1>1, <1>2
    <3>2. tty[taken] \notin LineEnd
      BY <3>1, <1>1
    <3>3. taken = FL
      BY <3>2, <2>3 DEF FL
    <3> QED
      BY <3>3, <2>1, <1>1, <1>2
  <2> QED
    BY <2>2, <2>3
<1>6. FramesPlayTheirNote'
  <2> SUFFICES ASSUME NEW s \in 0 .. Len(received'), FrameAt(s)'
               PROVE  \E k \in DOMAIN played' :
                        /\ played'[k].at = s
                        /\ \A b \in 1 .. NOTE_FRAME_DATA_NUMBER :
                             played'[k].event[b] = 16 * received'[s + 2 * b - 1]
                                                     + received'[s + 2 * b]
    BY DEF FramesPlayTheirNote
  <2>1. /\ s + FL <= R + taken
        /\ LineStart(s)'
        /\ \A i \in 1 .. FL - 1 : received'[s + i] \in Digit
        /\ received'[s + FL] \in LineEnd
    BY <1>1 DEF FrameAt, LineStart, LineEnd, FL
  <2>2. s \in 0 .. R /\ LineStart(s)
    BY <2>1, <1>1, <1>2, <1>4
  <2>3. DOMAIN played' = 1 .. Len(played') /\ DOMAIN played = 1 .. Len(played)
    BY <1>1, LenProperties DEF UartTypes
  <2>4. CASE s + FL <= R
    <3>1. \A i \in 1 .. FL : s + i \in 1 .. R
      BY <2>2, <2>4, <1>2
    <3>2. FrameAt(s)
      <4>1. \A i \in 1 .. FL : received[s + i] = received'[s + i]
        BY <3>1, <1>1
      <4>2. FL \in 1 .. FL /\ \A i \in 1 .. FL - 1 : i \in 1 .. FL
        BY <1>2
      <4> QED
        BY <4>1, <4>2, <2>1, <2>2, <2>4 DEF FrameAt, LineStart, LineEnd, FL, R
    <3>3. PICK k \in DOMAIN played :
            /\ played[k].at = s
            /\ \A b \in 1 .. NOTE_FRAME_DATA_NUMBER :
                 played[k].event[b] = 16 * received[s + 2 * b - 1] + received[s + 2 * b]
      BY <3>2, <2>2 DEF FramesPlayTheirNote, R
    <3>4. k \in DOMAIN played' /\ played'[k] = played[k]
      BY <2>3, <1>1, <1>2
    <3>5. ASSUME NEW b \in 1 .. NOTE_FRAME_DATA_NUMBER
          PROVE  /\ received'[s + 2 * b - 1] = received[s + 2 * b - 1]
                 /\ received'[s + 2 * b] = received[s + 2 * b]
      <4>1. /\ s + 2 * b - 1 \in 1 .. R
            /\ s + 2 * b \in 1 .. R
        BY <2>2, <2>4, <1>2
      <4> QED
        BY <4>1, <1>1
    <3> QED
      BY <3>3, <3>4, <3>5
  <2>5. CASE s + FL > R
    <3>1. s = R
      <4>1. SUFFICES ASSUME s < R PROVE FALSE
        BY <2>2, <1>2
      <4>2. \A i \in s + 1 .. R : received[i] \notin LineEnd
        <5> TAKE i \in s + 1 .. R
        <5>1. i - s \in 1 .. FL - 1 /\ s + (i - s) = i /\ i \in 1 .. R
          BY <2>2, <2>5, <1>2
        <5>2. received'[s + (i - s)] \in Digit
          BY <5>1, <2>1
        <5>3. received[i] \in Digit
          BY <5>1, <5>2, <1>1
        <5>4. \A c \in Digit : c \notin LineEnd
          BY DEF Digit, NL, EOT, LineEnd
        <5> QED
          BY <5>3, <5>4
      <4>3. s \in 0 .. R - 1
        BY <4>1, <2>2, <1>2
      <4>4. R - s >= FL
        BY <4>2, <4>3, <2>2 DEF RestOfLong, R, FL
      <4> QED
        BY <4>4, <2>2, <2>5, <1>2
    <3>2. taken >= FL /\ n >= FL - 1
      BY <3>1, <2>1, <1>2
    <3>3. \A i \in 1 .. FL - 1 : cBuff'[i] \in Digit /\ cBuff'[i] = received'[s + i]
      <4> TAKE i \in 1 .. FL - 1
      <4>1. i \in 1 .. taken /\ i <= n
        BY <3>2, <1>2
      <4> QED
        BY <4>1, <3>1, <2>1, <1>1
    <3> DEFINE k == Len(played) + 1
    <3>4. ASSUME NEW b \in 1 .. NOTE_FRAME_DATA_NUMBER
          PROVE  played'[k].event[b] = 16 * received'[s + 2 * b - 1] + received'[s + 2 * b]
      <4>1. /\ 2 * b - 1 \in 1 .. FL - 1 /\ 2 * b \in 1 .. FL - 1
            /\ (2 * b - 1) + 1 = 2 * b
            /\ 2 * b - 1 \in 1 .. FL
            /\ s + (2 * b - 1) = s + 2 * b - 1
        BY <2>2, <1>2
      <4>2. ScanByte(cBuff', 2 * b - 1) = 16 * cBuff'[2 * b - 1] + cBuff'[2 * b]
        <5> DEFINE p == 2 * b - 1
        <5>1. p \in 1 .. NOTE_FRAME_LENGTH /\ p + 1 = 2 * b
          BY <4>1 DEF FL
        <5>2. cBuff' \in Frames /\ cBuff'[NOTE_FRAME_LENGTH] = NUL
          BY <1>1 DEF FL
        <5>3. cBuff'[p] \in Digit /\ cBuff'[2 * b] \in Digit
          BY <4>1, <3>3
        <5> HIDE DEF p
        <5>4. ScanByte(cBuff', p) = 16 * cBuff'[p] + cBuff'[p + 1]
          BY ONLY <5>1, <5>2, <5>3, ScanByteProperties
        <5> QED
          BY <5>1, <5>4 DEF p
      <4>3. played'[k].event[b] = ScanByte(cBuff', 2 * b - 1)
        BY <1>1 DEF generateEventContent
      <4>4. /\ cBuff'[2 * b - 1] = received'[s + 2 * b - 1]
            /\ cBuff'[2 * b] = received'[s + 2 * b]
        BY <4>1, <3>3
      <4> QED
        BY <4>2, <4>3, <4>4
    <3>5. k \in DOMAIN played' /\ played'[k].at = s
      BY <3>1, <2>3, <1>1, <1>2
    <3>6. \A b \in 1 .. NOTE_FRAME_DATA_NUMBER :
            played'[k].event[b] = 16 * received'[s + 2 * b - 1] + received'[s + 2 * b]
      BY <3>4
    <3> HIDE DEF k
    <3> QED
      BY <3>5, <3>6
  <2>6. s + FL <= R \/ s + FL > R
    BY <2>2, <1>2
  <2> QED
    BY <2>4, <2>5, <2>6
<1> QED
  BY <1>3, <1>5, <1>6

LEMMA UartInitially == UartInit => UartInv
<1> SUFFICES ASSUME UartInit PROVE UartInv
  OBVIOUS
<1> USE DEF UartInit
<1>1. UartTypes
  <2>1. Len(<<>>) = 0
    BY EmptySeq
  <2> QED
    BY <2>1, EmptySeq, FrameLength DEF UartTypes, Frames
<1>2. RestOfLong /\ FramesPlayTheirNote
  BY FrameLength, EmptySeq DEF RestOfLong, FramesPlayTheirNote, FrameAt
<1> QED
  BY <1>1, <1>2 DEF UartInv

LEMMA UartStepKeepsUartInv ==
  ASSUME UartInv, UartStep
  PROVE  UartInv'
<1> USE DEF UartInv
<1>1. ASSUME NEW text \in Sendings, DeviceWrites(text) PROVE UartInv'
  <2>1. tGetUART_Config(text) \in Seq(Char)
    BY UartAssumption, ConfigKeepsChars DEF Raw
  <2>2. tty' \in Seq(Char)
    BY <1>1, <2>1, ConcatProperties DEF DeviceWrites, UartTypes
  <2>3. UNCHANGED <<uartPc, cBuff, received, played>>
    BY <1>1 DEF DeviceWrites
  <2>4. UartTypes'
    BY <2>2, <2>3 DEF UartTypes
  <2>5. RestOfLong' /\ FramesPlayTheirNote'
    BY <2>3 DEF RestOfLong, LineStart, FramesPlayTheirNote, FrameAt
  <2> QED
    BY <2>4, <2>5
<1>2. CASE ReadLine(canceled)
  <2> DEFINE S == {i \in DOMAIN tty : tty[i] \in LineEnd}
             end == Min(S)
             T == {end, NOTE_FRAME_LENGTH}
             n == Min(T)
  <2>1. DOMAIN tty = 1 .. Len(tty) /\ Len(tty) \in Nat
    BY LenProperties DEF UartTypes
  <2>2. end \in S /\ \A q \in S : end <= q
    <3>1. S \in SUBSET Nat /\ S # {}
      BY <1>2, <2>1 DEF ReadLine, LineEnd
    <3> HIDE DEF S
    <3> QED
      BY <3>1, LeastOf
  <2>3. /\ end \in 1 .. Len(tty) /\ tty[end] \in LineEnd
        /\ \A i \in 1 .. end - 1 : tty[i] \notin LineEnd
    <3> HIDE DEF end
    <3> QED
      BY <2>1, <2>2
  <2>4. \/ (tty[end] = NL \/ end > NOTE_FRAME_LENGTH) /\ Play(n, n)
        \/ /\ tty[end] = EOT /\ end <= NOTE_FRAME_LENGTH + 1
           /\ Play(end - 1, end)
    BY <1>2 DEF ReadLine, LineEnd
  <2> HIDE DEF end
  <2>5. n \in T /\ \A q \in T : n <= q
    <3>1. T \in SUBSET Nat /\ T # {}
      BY <2>3, FrameLength
    <3> HIDE DEF T
    <3> QED
      BY <3>1, LeastOf
  <2> HIDE DEF n
  <2>6. uartPc' \in {"read", "ended"}
    BY <1>2 DEF ReadLine, NextRead
  <2>7. EOT \in LineEnd /\ NL # EOT
    BY DEF LineEnd, NL, EOT
  <2>8. CASE (tty[end] = NL \/ end > NOTE_FRAME_LENGTH) /\ Play(n, n)
    <3>1. /\ n \in 0 .. Len(tty) /\ n \in 0 .. n /\ n <= NOTE_FRAME_LENGTH
          /\ n <= n + 1 /\ n <= end
          /\ n = end \/ n = NOTE_FRAME_LENGTH
      BY <2>1, <2>3, <2>5, FrameLength
    <3>2. \A i \in 1 .. n - 1 : tty[i] \notin LineEnd
      BY <2>1, <2>3, <3>1
    <3>3. \A i \in 1 .. n : tty[i] # EOT
      <4> TAKE i \in 1 .. n
      <4>1. CASE i = end
        <5>1. ~ (end > NOTE_FRAME_LENGTH)
          BY <4>1, <2>1, <2>3, <3>1, FrameLength
        <5> QED
          BY <4>1, <5>1, <2>7, <2>8
      <4>2. CASE i # end
        <5>1. i \in 1 .. end - 1
          BY <4>2, <2>1, <2>3, <3>1
        <5> QED
          BY <5>1, <2>3, <2>7
      <4> QED
        BY <4>1, <4>2
    <3>4. tty[n] \in LineEnd \/ n = NOTE_FRAME_LENGTH
      BY <2>3, <3>1
    <3> QED
      BY <2>6, <2>8, <3>1, <3>2, <3>3, <3>4, PlayKeepsUartInv
  <2>9. CASE /\ tty[end] = EOT /\ end <= NOTE_FRAME_LENGTH + 1
             /\ Play(end - 1, end)
    <3> DEFINE m == end - 1
    <3>1. /\ end \in 0 .. Len(tty) /\ m \in 0 .. end
          /\ m <= NOTE_FRAME_LENGTH /\ end <= m + 1
      BY <2>1, <2>3, <2>9, FrameLength
    <3>2. Play(m, end)
      BY <2>9
    <3>3. \A i \in 1 .. m : tty[i] # EOT
      BY <2>3, <2>7
    <3>4. \A i \in 1 .. end - 1 : tty[i] \notin LineEnd
      BY <2>3
    <3> HIDE DEF m
    <3> QED
      BY <2>3, <2>6, <3>1, <3>2, <3>3, <3>4, PlayKeepsUartInv
  <2> QED
    BY <2>4, <2>8, <2>9
<1>3. CASE ReadNothing(canceled)
  <2>1. /\ Len(tty) \in Nat /\ 0 \in 0 .. Len(tty) /\ 0 \in 0 .. 0
        /\ 0 <= NOTE_FRAME_LENGTH /\ 0 <= 0 + 1
        /\ \A i \in 1 .. 0 : tty[i] # EOT
        /\ \A i \in 1 .. 0 - 1 : tty[i] \notin LineEnd
    BY LenProperties, FrameLength DEF UartTypes
  <2>2. Play(0, 0) /\ uartPc' \in {"read", "ended"}
    BY <1>3 DEF ReadNothing, NextRead
  <2> QED
    BY <2>1, <2>2, PlayKeepsUartInv
<1>4. CASE ReadFails
  BY <1>4 DEF ReadFails, UartTypes, RestOfLong, LineStart, FramesPlayTheirNote, FrameAt
<1> QED
  BY <1>1, <1>2, <1>3, <1>4 DEF UartStep

-----------------------------------------------------------------------------
(* Both inputs together. A step of one leaves the other's state alone.       *)

MidiInv ==
  /\ canceled \in BOOLEAN
  /\ alive \in BOOLEAN
  /\ UartInv
  /\ IpcInv

LEMMA IpcAlone ==
  ASSUME IpcInv, UNCHANGED ipcVars
  PROVE  IpcInv'
BY DEF ipcVars, IpcInv, IpcTypes, Obeyed, InOrder, OnlyImpoliteStray

LEMMA UartAlone ==
  ASSUME UartInv, UNCHANGED uartVars
  PROVE  UartInv'
BY DEF uartVars, UartInv, UartTypes, RestOfLong, LineStart,
       FramesPlayTheirNote, FrameAt

LEMMA MidiInitially == Init => MidiInv
BY UartInitially, IpcInitially DEF Init, MidiInv

LEMMA MidiStep == MidiInv /\ [Next]_vars => MidiInv'
<1> SUFFICES ASSUME MidiInv, [Next]_vars PROVE MidiInv'
  OBVIOUS
<1> USE DEF MidiInv
<1>1. CASE UartStep
  <2>1. UartInv'
    BY <1>1, UartStepKeepsUartInv
  <2>2. UNCHANGED <<canceled, alive, ipcVars>>
    BY <1>1 DEF UartStep
  <2> QED
    BY <2>1, <2>2, IpcAlone
<1>2. CASE IpcStep
  <2>1. UNCHANGED <<canceled, uartVars>>
    BY <1>2 DEF IpcStep
  <2>2. alive' \in BOOLEAN
    BY <1>2 DEF IpcStep
  <2>3. PICK p \in Callers :
          (\E c \in Commands : SendCommand(p, c)) \/ RecvCommands(p)
    BY <1>2 DEF IpcStep
  <2>4. IpcInv'
    BY <2>3, SendKeepsIpcInv, RecvKeepsIpcInv
  <2> QED
    BY <2>1, <2>2, <2>4, UartAlone
<1>3. CASE sig_term
  BY <1>3, UartAlone, IpcAlone DEF sig_term
<1>4. CASE UNCHANGED vars
  <2>1. UNCHANGED <<canceled, alive>> /\ UNCHANGED uartVars /\ UNCHANGED ipcVars
    BY <1>4 DEF vars
  <2> QED
    BY <2>1, UartAlone, IpcAlone
<1> QED
  BY <1>1, <1>2, <1>3, <1>4 DEF Next

LEMMA MidiInvariant == Spec => []MidiInv
BY MidiInitially, MidiStep, PTL DEF Spec

(* The buffers, the bytes of an event and the queues of both threads keep    *)
(* their types: cBuff ends in its terminator, an event's bytes fit a byte.   *)
THEOREM InputsTypeCorrect == Spec => []TypeOK
<1>1. MidiInv => TypeOK
  <2> SUFFICES ASSUME MidiInv PROVE TypeOK
    OBVIOUS
  <2>1. UartTypes /\ IpcTypes
    BY DEF MidiInv, UartInv, IpcInv
  <2>2. UartTypeOK
    <3>1. DOMAIN played = 1 .. Len(played) /\ Len(received) \in Nat
      BY <2>1, LenProperties DEF UartTypes
    <3>2. ASSUME NEW k \in DOMAIN played
          PROVE  /\ played[k].at \in 0 .. Len(received)
                 /\ played[k].event \in
                      [1 .. NOTE_FRAME_DATA_NUMBER -> 0 .. 255 \cup {Unset}]
      <4>1. played[k] \in [at : Nat, event : Events]
        BY <2>1, <3>1, ElementOfSeq DEF UartTypes
      <4>2. played[k].at <= Len(received)
        BY <2>1, <3>1 DEF UartTypes
      <4> QED
        BY <3>1, <4>1, <4>2 DEF Events
    <3> QED
      BY <2>1, <3>2 DEF UartTypes, UartTypeOK, Char, Frames
  <2>3. IpcTypeOK
    <3>1. ASSUME NEW k \in DOMAIN events PROVE events[k].channel \in 0 .. 255
      <4>1. k \in 1 .. Len(events)
        BY <2>1, LenProperties DEF IpcTypes
      <4>2. events[k] \in [channel : 0 .. 255, value : {c.b : c \in Commands}]
        BY <2>1, <4>1, ElementOfSeq DEF IpcTypes
      <4> QED
        BY <4>2
    <3> QED
      BY <2>1, <3>1 DEF IpcTypes, IpcTypeOK
  <2> QED
    BY <2>2, <2>3 DEF MidiInv, TypeOK
<1> QED
  BY <1>1, MidiInvariant, PTL

(* A line of exactly one frame plays the note it spells, whatever short,     *)
(* long, empty and garbled lines and hang-ups come before it: the buffer is  *)
(* never cleared, yet the receiver is in step again at every newline.        *)
THEOREM FramesArePlayed == Spec => []FramesPlayTheirNote
<1>1. MidiInv => FramesPlayTheirNote
  BY DEF MidiInv, UartInv
<1> QED
  BY <1>1, MidiInvariant, PTL

(* Every command of a program that waits for its turn is executed, once, in  *)
(* the order sent, whatever the others send.                                 *)
THEOREM PoliteAreObeyed == Spec => []PoliteCommandsExecuted
<1>1. MidiInv => PoliteCommandsExecuted
  BY ObeyedSaysExecuted DEF MidiInv
<1> QED
  BY <1>1, MidiInvariant, PTL

(* Commands joined or split on a stream may be lost, but none is executed    *)
(* twice, out of order, or made of two others.                               *)
THEOREM NothingIsInvented == Spec => []NeverInvented
<1>1. MidiInv => NeverInvented
  BY InOrderSaysNotInvented DEF MidiInv
<1> QED
  BY <1>1, MidiInvariant, PTL

(* A program that waits for its turn never makes the thread read past the    *)
(* table of formats or write past its buffer.                                *)
THEOREM PoliteNeverStray == Spec => []OnlyImpoliteStray
<1>1. MidiInv => OnlyImpoliteStray
  BY DEF MidiInv, IpcInv
<1> QED
  BY <1>1, MidiInvariant, PTL
=============================================================================
