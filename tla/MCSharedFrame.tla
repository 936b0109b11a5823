--------------------------- MODULE MCSharedFrame ----------------------------
(* One thread, whose framing must be that of NoteFraming, or two threads     *)
(* that shift at the same time.                                              *)
EXTENDS SharedFrame, TLC

Symmetry == Permutations(Threads) \cup Permutations(Bytes)
=============================================================================
