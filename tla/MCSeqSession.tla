---------------------------- MODULE MCSeqSession ----------------------------
(* Command lines with no -p, one or two of them, valid or not, and the       *)
(* options that end the daemon.                                              *)
EXTENDS SeqSession

P(list) == [opt |-> "p", arg |-> list]
Letter(o) == [opt |-> o, arg |-> Empty]

MCCommandLines ==
  {<<>>, <<Letter("l")>>, <<Letter("h")>>}
    \cup {<<P(a)>> : a \in PortLists}
    \cup {<<P(a), P(b)>> : a, b \in PortLists}
    \cup {<<P(a), Letter("?")>> : a \in ValidLists}
=============================================================================
