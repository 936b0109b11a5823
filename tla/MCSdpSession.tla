---------------------------- MODULE MCSdpSession ----------------------------
(* A session that makes a few calls of a few fragments each, with so few     *)
(* transaction ids that they come round.                                     *)
EXTENDS SdpSession
=============================================================================
