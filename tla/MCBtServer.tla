----------------------------- MODULE MCBtServer -----------------------------
(* Small instances of BtServer for TLC.                                      *)
EXTENDS BtServer, TLC

(* Threads, clients and descriptors are interchangeable: no action compares  *)
(* two of them otherwise than for equality. Safety runs only.                *)
Symmetry ==
  Permutations(Threads) \cup Permutations(Clients) \cup Permutations(Fds)
=============================================================================
