----------------------------- MODULE HciDevices -----------------------------
(***************************************************************************)
(* How a client of the HCI library finds and opens a local device:         *)
(* hci_get_route walks the list of devices twice with hci_for_each_dev,    *)
(* first for one whose address is not the remote one, then for one whose   *)
(* address is, and hci_open_dev binds a socket to the one found.           *)
(*                                                                         *)
(* The list is taken by one ioctl, in an order that is the kernel's, and   *)
(* each device is asked about by another: devices may come, go and change  *)
(* in between.                                                             *)
(***************************************************************************)
EXTENDS Integers, Sequences, FiniteSets, Functions

CONSTANTS
  Adapters,     \* the ids of the local devices
  AddressOf,    \* their addresses
  Target,       \* the address a route is asked for
  MaxChanges    \* bound: devices that change

ASSUME AdapterAssumption ==
  /\ Adapters \subseteq Nat
  /\ IsFiniteSet(Adapters)      \* at most HCI_MAX_DEV
  /\ AddressOf \in [Adapters -> Nat]

VARIABLES
  dpc,       \* where the client is
  devs,      \* the state of each device: "up", "raw" (up, and raw), "down", "gone"
  dl,        \* dev_list: the ids still to look at
  sockets,   \* the descriptors the client has open
  dev_id,    \* the route, or -1
  pass,      \* which walk: "other" or "same"
  lists,     \* the list each walk was given; <<>> if it was given none
  changed    \* the devices that have changed since the route was asked for

devVars == <<dpc, devs, dl, sockets, dev_id, pass, lists, changed>>

DeviceStates == {"up", "raw", "down", "gone"}

DevInit ==
  /\ dpc = "list"
  /\ devs \in [Adapters -> DeviceStates]
  /\ dl = <<>>
  /\ sockets = 0
  /\ dev_id = -1
  /\ pass = "other"
  /\ lists = [other |-> <<>>, same |-> <<>>]
  /\ changed = {}

DeviceChanges(d) ==
  /\ changed' = changed \cup {d}
  /\ Cardinality(changed') <= MaxChanges
  /\ \E s \in DeviceStates \ {devs[d]} : devs' = [devs EXCEPT ![d] = s]
  /\ UNCHANGED <<dpc, dl, sockets, dev_id, pass, lists>>

-----------------------------------------------------------------------------
IsUp(d) == devs[d] \in {"up", "raw"}       \* hci_test_bit(HCI_UP, ...)
IsThere(d) == devs[d] # "gone"             \* HCIGETDEVINFO succeeds

(* Mutant: raw devices are not left out.                                     *)
__other_bdaddr_Raw(d) == IsThere(d) /\ AddressOf[d] # Target

(* The address is not the one asked for, and the device is not raw.          *)
__other_bdaddr(d) ==
  IsThere(d) /\ devs[d] # "raw" /\ AddressOf[d] # Target

__same_bdaddr(d) == IsThere(d) /\ AddressOf[d] = Target

(* After a first walk without a device comes the second.                     *)
WalkGives(found) ==
  /\ dev_id' = found
  /\ IF found < 0 /\ pass = "other"
       THEN pass' = "same" /\ dpc' = "list"
       ELSE pass' = pass /\ dpc' = "open"

(* Mutant: a walk that finds its device returns from inside the loop.        *)
EndWalk_Return(found) ==
  /\ sockets' = IF found < 0 THEN sockets - 1 ELSE sockets
  /\ WalkGives(found)

(* done: every way out of a walk, with a device or without, closes its       *)
(* socket.                                                                   *)
EndWalk(found) ==
  /\ sockets' = sockets - 1
  /\ WalkGives(found)

(* hci_for_each_dev makes a socket, or gives no device.                      *)
StartWalk ==
  /\ dpc = "list"
  /\ \/ sockets' = sockets + 1 /\ dpc' = "ask" /\ UNCHANGED <<dev_id, pass>>
     \/ WalkGives(-1) /\ UNCHANGED sockets
  /\ UNCHANGED <<devs, dl, lists, changed>>

(* It asks for the list of the devices with the flag HCI_UP, which is every  *)
(* one of them once, in any order; or malloc or the ioctl fails.             *)
ListDevices ==
  /\ dpc = "ask"
  /\ \/ /\ LET up == {d \in Adapters : IsUp(d)}
           IN dl' \in Bijection(1 .. Cardinality(up), up)
        /\ lists' = [lists EXCEPT ![pass] = dl']
        /\ dpc' = "scan"
        /\ UNCHANGED <<sockets, dev_id, pass>>
     \/ EndWalk(-1) /\ UNCHANGED <<dl, lists>>
  /\ UNCHANGED <<devs, changed>>

ScanDevice ==
  /\ dpc = "scan"
  /\ IF dl = <<>>
       THEN EndWalk(-1) /\ UNCHANGED dl
       ELSE LET d == Head(dl)
                wanted == IF pass = "other" THEN __other_bdaddr(d)
                                            ELSE __same_bdaddr(d)
            IN IF wanted
                 THEN EndWalk(d) /\ dl' = <<>>
                 ELSE dl' = Tail(dl) /\ UNCHANGED <<dpc, sockets, dev_id, pass>>
  /\ UNCHANGED <<devs, lists, changed>>

(* hci_open_dev: with no device, or no socket, it fails.                     *)
OpenSocket ==
  /\ dpc = "open"
  /\ \/ dev_id >= 0 /\ sockets' = sockets + 1 /\ dpc' = "bind"
     \/ dpc' = "failed" /\ UNCHANGED sockets
  /\ UNCHANGED <<devs, dl, dev_id, pass, lists, changed>>

(* A device that is gone cannot be bound to; failed: closes the socket.      *)
BindSocket ==
  /\ dpc = "bind"
  /\ \/ devs[dev_id] # "gone" /\ dpc' = "opened" /\ UNCHANGED sockets
     \/ dpc' = "failed" /\ sockets' = sockets - 1
  /\ UNCHANGED <<devs, dl, dev_id, pass, lists, changed>>

hci_open_dev == OpenSocket \/ BindSocket

hci_close_dev ==
  /\ dpc = "opened"
  /\ sockets' = sockets - 1
  /\ dpc' = "closed"
  /\ UNCHANGED <<devs, dl, dev_id, pass, lists, changed>>

hci_get_route == StartWalk \/ ListDevices \/ ScanDevice

-----------------------------------------------------------------------------
(* Properties.                                                               *)

(* The walks and the opening close what they open on every way out, of which *)
(* each has its own failures: a client that has failed holds no descriptor,  *)
(* one that has a device holds one.                                          *)
OneSocketPerDevice ==
  /\ dpc \in {"list", "open", "failed", "closed"} => sockets = 0
  /\ dpc \in {"ask", "scan", "bind", "opened"} => sockets = 1

(* A device a walk is for: one that reaches the address from outside, or the *)
(* one that has it.                                                          *)
Suits(walk, d) ==
  IF walk = "other" THEN devs[d] = "up" /\ AddressOf[d] # Target
                    ELSE IsUp(d) /\ AddressOf[d] = Target

(* The route is no later in the list of its walk than the first device that  *)
(* suits, in whatever order the kernel lists them, and the second walk finds *)
(* one only if the first had none: this holds of every device that has stood *)
(* still since the route was asked for, while others come, go and change     *)
(* under the walk.                                                           *)
RouteIsFirstOfList ==
  dpc = "open" =>
    /\ \A walk \in DOMAIN lists : \A i \in DOMAIN lists[walk] :
         lists[walk][i] \notin changed /\ Suits(walk, lists[walk][i])
           => pass = walk /\ \E j \in 1 .. i : dev_id = lists[walk][j]
    /\ dev_id >= 0 => dev_id \in changed \/ Suits(pass, dev_id)

=============================================================================
