-------------------------------- MODULE CfgMgr ------------------------------
(***************************************************************************)
(* The configuration manager: cfg_mgr/cfg_mgr.c.  It takes the two radios  *)
(* of the access point through the auto-configuration of IEEE 1905: ask    *)
(* the mesh agent for the controller, search the controller for the band   *)
(* of each radio, send it M1, and take the configuration from its M2.      *)
(*                                                                         *)
(* This module has the handlers; AutoConf composes them with the agent     *)
(* that calls them.  Each is an action on conf_state and m2buf; what it    *)
(* sends is an operator of its own, the sequence of its messages.          *)
(* The addresses of the access point itself, message ids and what M1 says  *)
(* are left out.                                                           *)
(***************************************************************************)
EXTENDS Cmdu

VARIABLES
    conf_state,     \* radios[i].conf_state
    bh_almac,       \* the device searches and M1s are sent to
    m2buf           \* the fragments whose TLVs are in the M2 buffer

cfgmgr == <<conf_state, bh_almac, m2buf>>

ConfigStatus ==
    {"UNCONFIGURED", "BACKHAUL_READY", "SEND_M1", "WAIT_M2", "CONFIGURED"}

(* Packets for the agent to send. *)
Search(i) == [type |-> "SEARCH", band |-> i, dest |-> bh_almac]
M1(i, dest) == [type |-> "WSC", band |-> i, dest |-> dest]

CfgMgrInit ==
    /\ conf_state = [i \in Radio |-> "UNCONFIGURED"]
    /\ bh_almac = Nobody
    /\ m2buf = <<>>

-----------------------------------------------------------------------------
(* The handlers.  A definition with a suffix, here and in AutoConf, is a   *)
(* form a bug would give the one that follows it; only the runs that show  *)
(* a property notices the bug use it.                                      *)

(* One pass of the timer over the radios: what it sends. *)
autoconf_search_sends ==
    LET asked(i) == \E j \in Radio : j < i /\ conf_state[j] = "UNCONFIGURED"
        sends(i) ==
            CASE conf_state[i] = "UNCONFIGURED" /\ ~asked(i) -> <<ControllerInfoReq>>
              [] conf_state[i] = "BACKHAUL_READY" -> <<Search(i)>>
              [] conf_state[i] = "SEND_M1" -> <<M1(i, bh_almac)>>
              [] OTHER -> <<>>
    IN  sends(0) \o sends(1)

autoconf_search_timer_cb_Waits ==
    /\ conf_state' = [i \in Radio |->
                         IF conf_state[i] = "SEND_M1" THEN "WAIT_M2" ELSE conf_state[i]]
    /\ UNCHANGED <<bh_almac, m2buf>>

(* A radio whose M1 was sent starts over, unless it is configured by it.   *)
(* The timer is set again by every call, and set for sooner by the other   *)
(* handlers that change a state: it is always set.                         *)
autoconf_search_timer_cb ==
    /\ conf_state' = [i \in Radio |->
                         IF conf_state[i] = "SEND_M1" THEN "UNCONFIGURED" ELSE conf_state[i]]
    /\ UNCHANGED <<bh_almac, m2buf>>

handle_priv_msg_from_mesh_Undoes(dev) ==
    /\ conf_state' = [i \in Radio |-> "BACKHAUL_READY"]
    /\ bh_almac' = dev
    /\ UNCHANGED m2buf

(* CONTROLLER_INFO_RSP, with the address of dev. *)
handle_priv_msg_from_mesh(dev) ==
    /\ conf_state' = [i \in Radio |->
                         IF conf_state[i] = "CONFIGURED" THEN "CONFIGURED" ELSE "BACKHAUL_READY"]
    /\ bh_almac' = dev
    /\ UNCHANGED m2buf

(* "reconfig". *)
handle_external_command ==
    /\ conf_state' = [i \in Radio |-> "UNCONFIGURED"]
    /\ UNCHANGED <<bh_almac, m2buf>>

handle_autoconfiguration_response(frame) ==
    /\ conf_state' = [conf_state EXCEPT ![frame.band] = "SEND_M1"]
    /\ UNCHANGED <<bh_almac, m2buf>>

(* The bands of the WSC TLVs in the buffer, which is read as a packet: the *)
(* TLVs are looked for behind a header.  When the buffer has none, the     *)
(* search starts inside a TLV and does not find them.                      *)
parse_autoconfiguration_wsc(buffer) ==
    conf_state' = [i \in Radio |->
                      IF Head(buffer).header /\ \E k \in DOMAIN buffer : buffer[k].band = i
                      THEN "CONFIGURED"
                      ELSE conf_state[i]]

handle_autoconfiguration_wsc_KeepsBuffer(frame) ==
    LET first == m2buf = <<>>
        buffer == Append(m2buf, [band |-> frame.band, header |-> first /\ ~frame.last])
    IN  /\ m2buf' = buffer
        /\ UNCHANGED bh_almac
        /\ IF frame.last THEN parse_autoconfiguration_wsc(buffer) ELSE UNCHANGED conf_state

(* Fragments are gathered until the last.  The header goes to an empty     *)
(* buffer with a fragment that is not the last one.                        *)
handle_autoconfiguration_wsc(frame) ==
    LET first == m2buf = <<>>
        buffer == Append(m2buf, [band |-> frame.band, header |-> first /\ ~frame.last])
    IN  /\ UNCHANGED bh_almac
        /\ IF frame.last
           THEN parse_autoconfiguration_wsc(buffer) /\ m2buf' = <<>>
           ELSE m2buf' = buffer /\ UNCHANGED conf_state

handle_packet_TakesLocal(pkt) ==
    CASE pkt.frame.type = "WSC" -> handle_autoconfiguration_wsc(pkt.frame)
      [] pkt.frame.type = "RESPONSE" -> handle_autoconfiguration_response(pkt.frame)
      [] OTHER -> UNCHANGED cfgmgr

(* The agent publishes what it sends as well as what it receives: an M1    *)
(* comes back, and is dropped.                                             *)
handle_packet(pkt) ==
    CASE pkt.frame.type = "WSC" /\ pkt.from = "NETWORK" -> handle_autoconfiguration_wsc(pkt.frame)
      [] pkt.frame.type = "RESPONSE" -> handle_autoconfiguration_response(pkt.frame)
      [] OTHER -> UNCHANGED cfgmgr

(* Only a RENEW is answered at once, with an M1 to whom it is from. *)
handle_packet_sends(pkt) ==
    IF pkt.frame.type = "RENEW" THEN <<M1(pkt.frame.band, pkt.frame.src)>> ELSE <<>>
=============================================================================
