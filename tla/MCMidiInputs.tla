---------------------------- MODULE MCMidiInputs ----------------------------
(* Frames of two bytes; whole, short, long, empty and bad lines, ended by    *)
(* each kind of line end, one of them right where a read's buffer is full; a *)
(* program that waits and one that does not.                                 *)
EXTENDS MidiInputs

MCSendings ==
  {<<1, 2, 3, 4, NL>>, <<9, NL>>, <<5, 6, 7, 8, 9, 10, NL>>, <<CR, NL>>,
   <<1, Letter>>, <<8, EOT>>, <<3, 4, 5, 6, 7, EOT>>, <<2, Garbled, 0, 15, 15, CR>>}

MCCommands ==
  {[fn |-> "channel", a |-> 300, b |-> 1], [fn |-> "volume", a |-> 70, b |-> 0]}
=============================================================================
