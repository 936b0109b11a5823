---------------------------- MODULE MCIpcServer -----------------------------
(* A listening socket and clients that come, go and come back on a few       *)
(* descriptors, so that they are reused, above and below the listening one.  *)
EXTENDS IpcServer, TLC

Symmetry == Permutations(Clients)
=============================================================================
