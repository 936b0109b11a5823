---------------------------- MODULE MCHciClient -----------------------------
(* Commands of each kind: answered at once with the status looked at and     *)
(* not, by an event, by the event of a device, and by an LE subevent whose   *)
(* code is that of the end of an inquiry.                                    *)
EXTENDS HciClient

Fn(names) == {c \in Commands : c.fn \in names}

MCRequests ==
  Fn({"hci_read_remote_name_with_clock_offset", "hci_disconnect",
      "hci_le_create_conn", "hci_write_local_name"})

Inquiry == [Unchecked("inquiry", OGF_LINK_CTL, 1, 5) EXCEPT
              !.event = EVT_INQUIRY_COMPLETE]

MCOthers ==
  {Inquiry} \cup Fn({"hci_read_remote_name_with_clock_offset"})

(* The end of some connection, which hci_disconnect may wait for, and the    *)
(* request for one, whose code is that of an LE subevent.                    *)
MCUnsolicited ==
  {[evt |-> EVT_DISCONN_COMPLETE, sub |-> 0], [evt |-> EVT_CONN_REQUEST, sub |-> 0]}

MCFilters ==
  {[events |-> {EVT_DISCONN_COMPLETE, EVT_CMD_COMPLETE}, opcode |-> 0]}

MCUsedWith == [d \in Adapters |-> IF d = 1 THEN "up" ELSE "down"]

MCAddressOf == [d \in Adapters |-> d % 2]
=============================================================================
