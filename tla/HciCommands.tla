---------------------------- MODULE HciCommands -----------------------------
(***************************************************************************)
(* The commands of the HCI library, one record for each function of hci.c  *)
(* that fills a struct hci_request and calls hci_send_req.                 *)
(*                                                                         *)
(* hci_read_remote_name and hci_read_inquiry_transmit_power_level only     *)
(* call another one. Parameters are abstracted to their length.            *)
(***************************************************************************)
EXTENDS Integers

(* Groups of commands.                                                       *)
OGF_LINK_CTL == 1
OGF_LINK_POLICY == 2
OGF_HOST_CTL == 3
OGF_INFO_PARAM == 4
OGF_STATUS_PARAM == 5
OGF_LE_CTL == 8

(* Events, and the subevents of EVT_LE_META_EVENT.                           *)
EVT_CMD_COMPLETE == 14
EVT_CMD_STATUS == 15
EVT_LE_META_EVENT == 62
EVT_INQUIRY_COMPLETE == 1
EVT_CONN_COMPLETE == 3
EVT_CONN_REQUEST == 4
EVT_DISCONN_COMPLETE == 5
EVT_AUTH_COMPLETE == 6
EVT_REMOTE_NAME_REQ_COMPLETE == 7
EVT_ENCRYPT_CHANGE == 8
EVT_CHANGE_CONN_LINK_KEY_COMPLETE == 9
EVT_READ_REMOTE_FEATURES_COMPLETE == 11
EVT_READ_REMOTE_VERSION_COMPLETE == 12
EVT_ROLE_CHANGE == 18
EVT_MODE_CHANGE == 20
EVT_READ_CLOCK_OFFSET_COMPLETE == 28
EVT_READ_REMOTE_EXT_FEATURES_COMPLETE == 35
EVT_LE_CONN_COMPLETE == 1
EVT_LE_CONN_UPDATE_COMPLETE == 3
EVT_LE_READ_REMOTE_USED_FEATURES_COMPLETE == 4

(* All the codes of events the library knows, and those of LE subevents.     *)
EventCodes == (1 .. 30) \cup (32 .. 35) \cup (44 .. 54) \cup {56, 57}
                \cup (59 .. 62) \cup (64 .. 72) \cup {77, 253, 254, 255}
LeSubevents == 1 .. 5

cmd_opcode_pack(ogf, ocf) == (ocf % 1024) + 1024 * ogf

(* A command answered by EVT_CMD_COMPLETE: so many bytes of parameters, so   *)
(* many of the answer wanted, and the last of them that is used. The first   *)
(* is the status, and an error is returned when it is not zero.              *)
Completes(fn, ogf, ocf, clen, rlen, reads) ==
  [fn |-> fn, opcode |-> cmd_opcode_pack(ogf, ocf), le |-> FALSE, event |-> 0,
   clen |-> clen, rlen |-> rlen, reads |-> reads]

(* One whose caller wants nothing of the answer, its status included.        *)
Unchecked(fn, ogf, ocf, clen) == Completes(fn, ogf, ocf, clen, 0, 0)

(* One answered by EVT_CMD_STATUS, and by an event or, for the LE commands,  *)
(* a subevent when it is done.                                               *)
Awaits(fn, ogf, ocf, event, clen, rlen, reads) ==
  [Completes(fn, ogf, ocf, clen, rlen, reads) EXCEPT
     !.event = event, !.le = (ogf = OGF_LE_CTL)]

-----------------------------------------------------------------------------
LinkCommands ==
  {Awaits("hci_create_connection", OGF_LINK_CTL, 5,
             EVT_CONN_COMPLETE, 13, 11, 3),
   Awaits("hci_disconnect", OGF_LINK_CTL, 6,
             EVT_DISCONN_COMPLETE, 3, 4, 1),
   Completes("hci_le_add_white_list", OGF_LE_CTL, 17, 7, 1, 1),
   Completes("hci_le_rm_white_list", OGF_LE_CTL, 18, 7, 1, 1),
   Completes("hci_le_read_white_list_size", OGF_LE_CTL, 15, 0, 2, 2)}

ListCommands ==
  {Completes("hci_le_clear_white_list", OGF_LE_CTL, 16, 0, 1, 1),
   Completes("hci_le_add_resolving_list", OGF_LE_CTL, 39, 39, 1, 1),
   Completes("hci_le_rm_resolving_list", OGF_LE_CTL, 40, 7, 1, 1),
   Completes("hci_le_clear_resolving_list", OGF_LE_CTL, 41, 0, 1, 1),
   Completes("hci_le_read_resolving_list_size", OGF_LE_CTL, 42, 0, 2, 2)}

NameCommands ==
  {Completes("hci_le_set_address_resolution_enable",
             OGF_LE_CTL, 45, 1, 1, 1),
   Completes("hci_read_local_name", OGF_HOST_CTL, 20, 0, 249, 249),
   Unchecked("hci_write_local_name", OGF_HOST_CTL, 19, 248),
   Awaits("hci_read_remote_name_with_clock_offset", OGF_LINK_CTL, 25,
             EVT_REMOTE_NAME_REQ_COMPLETE, 10, 255, 255),
   Unchecked("hci_read_remote_name_cancel", OGF_LINK_CTL, 26, 6)}

RemoteCommands ==
  {Awaits("hci_read_remote_version", OGF_LINK_CTL, 29,
             EVT_READ_REMOTE_VERSION_COMPLETE, 2, 8, 8),
   Awaits("hci_read_remote_features", OGF_LINK_CTL, 27,
             EVT_READ_REMOTE_FEATURES_COMPLETE, 2, 11, 11),
   Awaits("hci_read_remote_ext_features", OGF_LINK_CTL, 28,
             EVT_READ_REMOTE_EXT_FEATURES_COMPLETE, 3, 13, 13),
   Awaits("hci_read_clock_offset", OGF_LINK_CTL, 31,
             EVT_READ_CLOCK_OFFSET_COMPLETE, 2, 5, 5)}

LocalCommands ==
  {Completes("hci_read_local_version", OGF_INFO_PARAM, 1, 0, 9, 9),
   Completes("hci_read_local_commands", OGF_INFO_PARAM, 2, 0, 65, 65),
   Completes("hci_read_local_features", OGF_INFO_PARAM, 3, 0, 9, 9),
   Completes("hci_read_local_ext_features", OGF_INFO_PARAM, 4, 1, 11, 11),
   Completes("hci_read_bd_addr", OGF_INFO_PARAM, 9, 0, 7, 7)}

SettingCommands ==
  {Completes("hci_read_class_of_dev", OGF_HOST_CTL, 35, 0, 4, 4),
   Unchecked("hci_write_class_of_dev", OGF_HOST_CTL, 36, 3),
   Completes("hci_read_voice_setting", OGF_HOST_CTL, 37, 0, 3, 3),
   Unchecked("hci_write_voice_setting", OGF_HOST_CTL, 38, 2),
   Completes("hci_read_current_iac_lap", OGF_HOST_CTL, 57, 0, 194, 194),
   Unchecked("hci_write_current_iac_lap", OGF_HOST_CTL, 58, 3 * 64 + 1),
   Unchecked("hci_read_stored_link_key", OGF_HOST_CTL, 13, 7)}

KeyCommands ==
  {Unchecked("hci_write_stored_link_key", OGF_HOST_CTL, 17, 23),
   Unchecked("hci_delete_stored_link_key", OGF_HOST_CTL, 18, 7),
   Awaits("hci_authenticate_link", OGF_LINK_CTL, 17,
             EVT_AUTH_COMPLETE, 2, 3, 1),
   Awaits("hci_encrypt_link", OGF_LINK_CTL, 19,
             EVT_ENCRYPT_CHANGE, 3, 4, 1),
   Awaits("hci_change_link_key", OGF_LINK_CTL, 21,
             EVT_CHANGE_CONN_LINK_KEY_COMPLETE, 2, 3, 1),
   Awaits("hci_switch_role", OGF_LINK_POLICY, 11,
             EVT_ROLE_CHANGE, 7, 8, 1)}

ModeCommands ==
  {Awaits("hci_park_mode", OGF_LINK_POLICY, 5,
             EVT_MODE_CHANGE, 6, 6, 1),
   Awaits("hci_exit_park_mode", OGF_LINK_POLICY, 6,
             EVT_MODE_CHANGE, 2, 6, 1),
   Completes("hci_read_inquiry_scan_type", OGF_HOST_CTL, 66, 0, 2, 2),
   Completes("hci_write_inquiry_scan_type", OGF_HOST_CTL, 67, 1, 1, 1),
   Completes("hci_read_inquiry_mode", OGF_HOST_CTL, 68, 0, 2, 2)}

InquiryCommands ==
  {Completes("hci_write_inquiry_mode", OGF_HOST_CTL, 69, 1, 1, 1),
   Completes("hci_read_afh_mode", OGF_HOST_CTL, 72, 0, 2, 2),
   Completes("hci_write_afh_mode", OGF_HOST_CTL, 73, 1, 1, 1),
   Completes("hci_read_ext_inquiry_response",
             OGF_HOST_CTL, 81, 0, 242, 242),
   Completes("hci_write_ext_inquiry_response", OGF_HOST_CTL, 82, 241, 1, 1)}

PairingCommands ==
  {Completes("hci_read_simple_pairing_mode", OGF_HOST_CTL, 85, 0, 2, 2),
   Completes("hci_write_simple_pairing_mode", OGF_HOST_CTL, 86, 1, 1, 1),
   Completes("hci_read_local_oob_data", OGF_HOST_CTL, 87, 0, 33, 33),
   Completes("hci_read_inq_response_tx_power_level",
             OGF_HOST_CTL, 88, 0, 2, 2),
   Completes("hci_write_inquiry_transmit_power_level",
             OGF_HOST_CTL, 89, 1, 1, 1)}

PolicyCommands ==
  {Completes("hci_read_transmit_power_level", OGF_HOST_CTL, 45, 3, 4, 4),
   Completes("hci_read_link_policy", OGF_LINK_POLICY, 12, 2, 5, 5),
   Completes("hci_write_link_policy", OGF_LINK_POLICY, 13, 4, 3, 1),
   Completes("hci_read_link_supervision_timeout",
             OGF_HOST_CTL, 54, 2, 5, 5),
   Completes("hci_write_link_supervision_timeout",
             OGF_HOST_CTL, 55, 4, 3, 1)}

StatusCommands ==
  {Completes("hci_set_afh_classification", OGF_HOST_CTL, 63, 10, 1, 1),
   Completes("hci_read_link_quality", OGF_STATUS_PARAM, 3, 2, 4, 4),
   Completes("hci_read_rssi", OGF_STATUS_PARAM, 5, 2, 4, 4),
   Completes("hci_read_afh_map", OGF_STATUS_PARAM, 6, 2, 14, 14),
   Completes("hci_read_clock", OGF_STATUS_PARAM, 7, 3, 9, 9)}

LeCommands ==
  {Completes("hci_le_set_scan_enable", OGF_LE_CTL, 12, 2, 1, 1),
   Completes("hci_le_set_scan_parameters", OGF_LE_CTL, 11, 7, 1, 1),
   Completes("hci_le_set_advertise_enable", OGF_LE_CTL, 10, 1, 1, 1),
   Awaits("hci_le_create_conn", OGF_LE_CTL, 13,
             EVT_LE_CONN_COMPLETE, 25, 11, 3)}

LeLinkCommands ==
  {Awaits("hci_le_conn_update", OGF_LE_CTL, 19,
             EVT_LE_CONN_UPDATE_COMPLETE, 14, 9, 1),
   Awaits("hci_le_read_remote_features", OGF_LE_CTL, 22,
             EVT_LE_READ_REMOTE_USED_FEATURES_COMPLETE, 2, 11, 11)}

Commands ==
  UNION {LinkCommands,
         ListCommands,
         NameCommands,
         RemoteCommands,
         LocalCommands,
         SettingCommands,
         KeyCommands,
         ModeCommands,
         InquiryCommands,
         PairingCommands,
         PolicyCommands,
         StatusCommands,
         LeCommands,
         LeLinkCommands}

(* Whether the function looks at the status the controller answers with.     *)
ChecksStatus(c) == c.reads > 0
=============================================================================
