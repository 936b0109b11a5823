----------------------------- MODULE HciClient ------------------------------
(***************************************************************************)
(* A client of the HCI library: it asks for a route, opens the device,     *)
(* sends commands through the socket, and closes it between two of them.   *)
(***************************************************************************)
EXTENDS HciDevices, HciRequest

CONSTANT UsedWith   \* bound: commands are followed only for these device states,
                    \* with no change since the route: they do not matter here

vars == <<devVars, hciVars>>

TypeOK ==
  /\ dev_id \in Adapters \cup {-1}
  /\ sockets \in {0, 1}
  /\ HciTypeOK

Init == DevInit /\ HciInit

FindDevice ==
  /\ \/ hci_get_route
     \/ hci_open_dev
     \/ dpc \notin {"opened", "failed", "closed"} /\ \E d \in Adapters : DeviceChanges(d)
  /\ UNCHANGED hciVars

(* After the last call nothing that the controller does is seen any more.    *)
UseDevice ==
  /\ dpc = "opened"
  /\ calls < MaxCalls \/ hpc # "idle"
  /\ devs = UsedWith /\ changed = {}
  /\ HciNext
  /\ UNCHANGED devVars

CloseDevice ==
  /\ hpc = "idle"
  /\ hci_close_dev
  /\ UNCHANGED hciVars

Next == FindDevice \/ UseDevice \/ CloseDevice

(* The code goes on as soon as it can; a poll returns when its time is over. *)
(* Nothing is assumed of the controller, of reads with nothing to read, or   *)
(* of the client's next call.                                                *)
Fairness == WF_vars(UseDevice /\ hci_send_req)

Spec == Init /\ [][Next]_vars /\ Fairness
=============================================================================
