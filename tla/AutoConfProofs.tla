---------------------------- MODULE AutoConfProofs --------------------------
(***************************************************************************)
(* Safety of auto-configuration for any devices, any bounds and any number *)
(* of packets under way.                                                   *)
(*                                                                         *)
(* The argument: an M2 is in the buffer or has configured a radio only     *)
(* after the network has delivered it, since what the agent publishes of   *)
(* its own sends leaves the manager as it was; what is under way from the  *)
(* network is the controller's; and the address the manager keeps is that  *)
(* of the first neighbour, which later ones do not change.  The types come *)
(* after: the bound on the buffer needs the order of the frames.  So does  *)
(* what is last: an M2 in two fragments configures its radio when it       *)
(* arrives, and one in a single fragment never does.                       *)
(***************************************************************************)
EXTENDS AutoConf, SequenceTheorems, FiniteSetTheorems, TLAPS

(* What the network delivers. *)
OfController ==
    {f \in Frame : f.src = Controller /\ f.type # "SEARCH" /\ (f.type # "WSC" => f.last)}

Types ==
    /\ conf_state \in [Radio -> ConfigStatus]
    /\ bh_almac \in Device \cup {Nobody}
    /\ nbr_1905 \in Seq(Device)
    /\ toMesh \in Seq(Request)
    /\ air \in Seq(OfController)
    /\ heard \subseteq Radio
    /\ spent \in [Disturbance -> Nat]
    /\ fragments \in 1..2

(* The buffer has parts of M2s that were received. *)
BufferHeard == m2buf \in Seq([band : heard, header : BOOLEAN])

(* The manager's address is the first neighbour's, once it has one. *)
ToldOfFirst == spent["restart"] = 0 => bh_almac \in {Nobody, find_controller}

IInv == Types /\ BufferHeard /\ ConfiguredByController /\ ToldOfFirst

(* A disturbance is counted, and no other is. *)
LEMMA Spends ==
    ASSUME Types, NEW d \in Disturbance, Disturb(d)
    PROVE  /\ spent' \in [Disturbance -> Nat]
           /\ spent'[d] = spent[d] + 1 /\ spent[d] \in Nat
           /\ \A e \in Disturbance \ {d} : spent'[e] = spent[e]
BY DEF Types, Disturb

-----------------------------------------------------------------------------
(* What one packet does to the manager. *)

(* What the agent publishes of a packet it sends leaves the manager as it  *)
(* was.                                                                    *)
LEMMA SentIsIgnored ==
    ASSUME NEW m \in Request, m # ControllerInfoReq, handle_packet(if_send(m))
    PROVE  UNCHANGED cfgmgr
<1>1. m.type \in {"SEARCH", "WSC"}
  BY DEF Request
<1>2. if_send(m).frame.type = m.type /\ if_send(m).from = "LOCAL"
  BY DEF if_send, cmdu_filter_func
<1> QED
  BY <1>1, <1>2 DEF handle_packet

LEMMA FrameOfController ==
    ASSUME NEW f \in OfController
    PROVE  /\ f.type \in {"RESPONSE", "RENEW", "WSC"} /\ f.band \in Radio
           /\ f.src = Controller /\ f.last \in BOOLEAN
           /\ f.type = "RESPONSE" => f = FromNetwork("RESPONSE", f.band, TRUE)
BY DEF OfController, Frame, FromNetwork

(* A frame received: one of an M2 may configure a radio it or an earlier   *)
(* fragment is of, a RESPONSE takes its radio to SEND_M1, and a RENEW      *)
(* changes nothing.                                                        *)
LEMMA ReceivedFrame ==
    ASSUME NEW f \in OfController, handle_packet(if_recv(f)), NEW H \in SUBSET Radio,
           conf_state \in [Radio -> ConfigStatus],
           m2buf \in Seq([band : H, header : BOOLEAN]),
           f.type = "WSC" => f.band \in H
    PROVE  /\ bh_almac' = bh_almac
           /\ m2buf' \in Seq([band : H, header : BOOLEAN])
           /\ conf_state' \in [Radio -> ConfigStatus]
           /\ \A i \in Radio : conf_state'[i] = "CONFIGURED" =>
                 conf_state[i] = "CONFIGURED" \/ i \in H
           /\ \A i \in Radio : conf_state[i] = "CONFIGURED" /\ conf_state'[i] # "CONFIGURED" =>
                 f = FromNetwork("RESPONSE", i, TRUE)
<1> DEFINE Part == [band : H, header : BOOLEAN]
<1>1. if_recv(f).frame = f /\ if_recv(f).from = "NETWORK"
  BY DEF if_recv, cmdu_filter_func
<1>2. f.band \in Radio /\ f.last \in BOOLEAN
  BY FrameOfController
<1>3. CASE f.type = "WSC"
  <2>1. handle_autoconfiguration_wsc(f)
    BY <1>1, <1>3 DEF handle_packet
  <2>2. PICK part : part = [band |-> f.band, header |-> m2buf = <<>> /\ ~f.last]
    OBVIOUS
  <2>3. part \in Part
    BY <2>2, <1>3, <1>2
  <2>4. PICK buffer \in Seq(Part) : buffer = Append(m2buf, part)
    <3>1. m2buf \in Seq(Part)
      OBVIOUS
    <3> QED
      BY <2>3, <3>1, AppendProperties
  <2>5. bh_almac' = bh_almac
    BY <2>1 DEF handle_autoconfiguration_wsc
  <2>6. CASE f.last
    <3>1. m2buf' = <<>> /\ parse_autoconfiguration_wsc(buffer)
      BY <2>1, <2>2, <2>4, <2>6 DEF handle_autoconfiguration_wsc
    <3>2. \A k \in DOMAIN buffer : buffer[k].band \in H
      <4>1. \A k \in 1..Len(buffer) : buffer[k] \in Part
        BY <2>4, ElementOfSeq
      <4>2. DOMAIN buffer = 1..Len(buffer)
        BY <2>4, LenProperties
      <4> QED
        BY <4>1, <4>2
    <3>3. /\ conf_state' \in [Radio -> ConfigStatus]
          /\ \A i \in Radio : conf_state'[i] = "CONFIGURED" =>
                conf_state[i] = "CONFIGURED" \/ i \in H
          /\ \A i \in Radio : conf_state[i] = "CONFIGURED" => conf_state'[i] = "CONFIGURED"
      BY <3>1, <3>2 DEF parse_autoconfiguration_wsc, ConfigStatus
    <3>4. m2buf' \in Seq(Part)
      BY <3>1, EmptySeq
    <3> QED
      BY <3>3, <3>4, <2>5
  <2>7. CASE ~f.last
    <3>1. m2buf' = buffer /\ conf_state' = conf_state
      BY <2>1, <2>2, <2>4, <2>7 DEF handle_autoconfiguration_wsc
    <3> QED
      BY <3>1, <2>4, <2>5
  <2> QED
    BY <2>6, <2>7, <1>2
<1>4. CASE f.type = "RESPONSE"
  <2>1. handle_autoconfiguration_response(f)
    BY <1>1, <1>4 DEF handle_packet
  <2>2. conf_state' = [conf_state EXCEPT ![f.band] = "SEND_M1"]
        /\ bh_almac' = bh_almac /\ m2buf' = m2buf
    BY <2>1 DEF handle_autoconfiguration_response
  <2>3. f = FromNetwork("RESPONSE", f.band, TRUE)
    BY <1>4, FrameOfController
  <2> QED
    BY <2>2, <2>3, <1>2 DEF ConfigStatus
<1>5. CASE f.type = "RENEW"
  <2>1. UNCHANGED cfgmgr
    BY <1>1, <1>5 DEF handle_packet
  <2> QED
    BY <2>1 DEF cfgmgr
<1> QED
  BY <1>3, <1>4, <1>5, FrameOfController

(* What the agent is asked to send is a request, and what the controller   *)
(* answers is a frame of its.                                              *)
LEMMA FrameIsOfController ==
    ASSUME NEW type \in {"RESPONSE", "RENEW", "WSC"}, NEW i \in Radio, NEW last \in BOOLEAN,
           type # "WSC" => last
    PROVE  FromNetwork(type, i, last) \in OfController
BY AutoConfAssumption DEF OfController, Frame, FromNetwork

LEMMA AnswerOfController ==
    ASSUME NEW m \in Request, m # ControllerInfoReq, fragments \in 1..2
    PROVE  Answer(m) \in Seq(OfController)
<1>1. m.type \in {"SEARCH", "WSC"} /\ m.band \in Radio
  BY DEF Request
<1>2. /\ FromNetwork("RESPONSE", m.band, TRUE) \in OfController
      /\ FromNetwork("WSC", m.band, TRUE) \in OfController
      /\ FromNetwork("WSC", m.band, FALSE) \in OfController
  BY <1>1, FrameIsOfController
<1>3. PICK r \in OfController : r = FromNetwork("RESPONSE", m.band, TRUE)
  BY <1>2
<1>4. PICK w \in OfController : w = FromNetwork("WSC", m.band, TRUE)
  BY <1>2
<1>5. PICK v \in OfController : v = FromNetwork("WSC", m.band, FALSE)
  BY <1>2
<1>6. Answer(m) \in {<<>>, <<r>>, <<w>>, <<v, w>>}
  BY <1>3, <1>4, <1>5 DEF Answer
<1>7. <<>> \in Seq(OfController) /\ <<r>> \in Seq(OfController)
      /\ <<w>> \in Seq(OfController) /\ <<v, w>> \in Seq(OfController)
  OBVIOUS
<1> QED
  BY <1>6, <1>7, Zenon

LEMMA TimerSendsRequests ==
    ASSUME conf_state \in [Radio -> ConfigStatus], bh_almac \in Device \cup {Nobody}
    PROVE  autoconf_search_sends \in Seq(Request)
<1>1. ControllerInfoReq \in Request
  BY DEF Request
<1>2. \A i \in Radio : Search(i) \in Request /\ M1(i, bh_almac) \in Request
  BY DEF Search, M1, Request
<1>3. 0 \in Radio /\ 1 \in Radio
  BY DEF Radio
<1> DEFINE asked(i) == \E j \in Radio : j < i /\ conf_state[j] = "UNCONFIGURED"
           sends(i) ==
              CASE conf_state[i] = "UNCONFIGURED" /\ ~asked(i) -> <<ControllerInfoReq>>
                [] conf_state[i] = "BACKHAUL_READY" -> <<Search(i)>>
                [] conf_state[i] = "SEND_M1" -> <<M1(i, bh_almac)>>
                [] OTHER -> <<>>
<1>4. ASSUME NEW i \in Radio
      PROVE  sends(i) \in Seq(Request)
  <2>1. <<ControllerInfoReq>> \in Seq(Request) /\ <<Search(i)>> \in Seq(Request)
        /\ <<M1(i, bh_almac)>> \in Seq(Request) /\ <<>> \in Seq(Request)
    BY <1>1, <1>2
  <2> HIDE DEF asked
  <2> QED
    BY <2>1
<1>5. sends(0) \in Seq(Request) /\ sends(1) \in Seq(Request)
  BY <1>3, <1>4
<1>6. autoconf_search_sends = sends(0) \o sends(1)
  BY DEF autoconf_search_sends
<1> HIDE DEF sends, asked
<1> QED
  BY <1>5, <1>6, ConcatProperties

-----------------------------------------------------------------------------
(* The invariant. *)

LEMMA InitInvariant == Init => IInv
<1> SUFFICES ASSUME Init
             PROVE  IInv
  OBVIOUS
<1>1. Types
  BY AutoConfAssumption DEF Init, CfgMgrInit, AgentInit, Types, ConfigStatus
<1>2. BufferHeard
  BY DEF Init, CfgMgrInit, BufferHeard
<1>3. ConfiguredByController
  BY DEF Init, CfgMgrInit, ConfiguredByController
<1>4. ToldOfFirst
  BY DEF Init, CfgMgrInit, ToldOfFirst
<1> QED
  BY <1>1, <1>2, <1>3, <1>4 DEF IInv

(* A step that leaves the buffer, the configured radios and the address    *)
(* alone, and the network's side as typed, preserves the rest.             *)
LEMMA QuietStep ==
    ASSUME IInv, Types',
           m2buf' = m2buf, heard' = heard, bh_almac' = bh_almac,
           \A i \in Radio : conf_state'[i] = "CONFIGURED" => conf_state[i] = "CONFIGURED",
           spent'["restart"] = 0 =>
              spent["restart"] = 0 /\ (find_controller # Nobody => find_controller' = find_controller)
    PROVE  IInv'
<1>1. BufferHeard'
  BY DEF IInv, BufferHeard
<1>2. ConfiguredByController'
  BY DEF IInv, ConfiguredByController
<1>3. ToldOfFirst'
  BY DEF IInv, ToldOfFirst
<1> QED
  BY <1>1, <1>2, <1>3 DEF IInv

LEMMA TimerInvariant ==
    ASSUME IInv, Timer
    PROVE  IInv'
<1>1. autoconf_search_sends \in Seq(Request)
  BY TimerSendsRequests DEF IInv, Types
<1>2. /\ conf_state' \in [Radio -> ConfigStatus]
      /\ \A i \in Radio : conf_state'[i] = "CONFIGURED" => conf_state[i] = "CONFIGURED"
      /\ bh_almac' = bh_almac /\ m2buf' = m2buf
  BY DEF Timer, autoconf_search_timer_cb, IInv, Types, ConfigStatus
<1>3. toMesh' \in Seq(Request)
  BY <1>1, ConcatProperties DEF Timer, IInv, Types
<1>4. Types'
  BY <1>2, <1>3 DEF Timer, environment, IInv, Types
<1> QED
  BY <1>2, <1>4, QuietStep DEF Timer, find_controller

LEMMA ControllerInfoInvariant ==
    ASSUME IInv, ControllerInfo
    PROVE  IInv'
<1>1. toMesh' \in Seq(Request)
  BY HeadTailProperties DEF ControllerInfo, IInv, Types
<1>2. find_controller \in Device \cup {Nobody} /\ find_controller' = find_controller
  BY DEF find_controller, ControllerInfo, IInv, Types
<1>3. CASE find_controller = Nobody
  <2>1. UNCHANGED cfgmgr
    BY <1>3 DEF ControllerInfo
  <2>2. Types'
    BY <1>1, <2>1 DEF ControllerInfo, cfgmgr, environment, IInv, Types
  <2> QED
    BY <1>2, <2>1, <2>2, QuietStep DEF ControllerInfo, cfgmgr
<1>4. CASE find_controller # Nobody
  <2>1. handle_priv_msg_from_mesh(find_controller)
    BY <1>4 DEF ControllerInfo
  <2>2. /\ conf_state' \in [Radio -> ConfigStatus]
        /\ \A i \in Radio : conf_state'[i] = "CONFIGURED" => conf_state[i] = "CONFIGURED"
        /\ bh_almac' = find_controller /\ m2buf' = m2buf
    BY <2>1 DEF handle_priv_msg_from_mesh, IInv, Types, ConfigStatus
  <2>3. Types'
    BY <1>1, <1>2, <2>2 DEF ControllerInfo, environment, IInv, Types
  <2>4. BufferHeard' /\ ConfiguredByController'
    BY <2>2 DEF ControllerInfo, IInv, BufferHeard, ConfiguredByController
  <2>5. ToldOfFirst'
    BY <1>2, <2>2 DEF ToldOfFirst
  <2> QED
    BY <2>3, <2>4, <2>5 DEF IInv
<1> QED
  BY <1>3, <1>4

LEMMA ForwardInvariant ==
    ASSUME IInv, forward_cmdu
    PROVE  IInv' /\ UNCHANGED cfgmgr
<1>1. PICK m \in Request : m = Head(toMesh)
  BY HeadTailProperties DEF forward_cmdu, IInv, Types
<1>2. m # ControllerInfoReq /\ handle_packet(if_send(m))
  BY <1>1 DEF forward_cmdu
<1>3. UNCHANGED cfgmgr
  BY <1>2, SentIsIgnored
<1>4. Answer(m) \in Seq(OfController)
  BY <1>2, AnswerOfController DEF IInv, Types
<1>5. air' \in Seq(OfController)
  <2>1. air' = air \o Answer(m) /\ air \in Seq(OfController)
    BY <1>1 DEF forward_cmdu, IInv, Types
  <2> QED
    BY <1>4, <2>1, ConcatProperties
<1>6. toMesh' \in Seq(Request)
  BY HeadTailProperties DEF forward_cmdu, IInv, Types
<1>7. Types'
  BY <1>3, <1>5, <1>6 DEF forward_cmdu, cfgmgr, environment, IInv, Types
<1>8. IInv'
  BY <1>3, <1>7, QuietStep DEF forward_cmdu, cfgmgr, find_controller
<1> QED
  BY <1>3, <1>8

LEMMA ReceiveInvariant ==
    ASSUME IInv, client_read_cb
    PROVE  /\ IInv'
           /\ bh_almac' = bh_almac
           /\ \A i \in Radio : conf_state[i] = "CONFIGURED" /\ conf_state'[i] # "CONFIGURED" =>
                 air # <<>> /\ air' = Tail(air) /\ Head(air) = FromNetwork("RESPONSE", i, TRUE)
<1>1. PICK f \in OfController : f = Head(air)
  BY HeadTailProperties DEF client_read_cb, IInv, Types
<1>2. /\ air # <<>> /\ air' = Tail(air)
      /\ handle_packet(if_recv(f))
      /\ toMesh' = toMesh \o handle_packet_sends(if_recv(f))
      /\ heard' = IF f.type = "WSC" THEN heard \cup {f.band} ELSE heard
      /\ UNCHANGED <<nbr_1905, spent, environment>>
  BY <1>1 DEF client_read_cb
<1>3. f.band \in Radio /\ f.src \in Device
  BY FrameOfController, AutoConfAssumption
<1>4. heard' \in SUBSET Radio /\ heard \subseteq heard' /\ (f.type = "WSC" => f.band \in heard')
  BY <1>2, <1>3 DEF IInv, Types
<1>5. m2buf \in Seq([band : heard', header : BOOLEAN])
  <2>1. [band : heard, header : BOOLEAN] \subseteq [band : heard', header : BOOLEAN]
    BY <1>4
  <2>2. m2buf \in Seq([band : heard, header : BOOLEAN])
    BY DEF IInv, BufferHeard
  <2>3. PICK P : P = [band : heard, header : BOOLEAN]
    OBVIOUS
  <2>4. PICK Q : Q = [band : heard', header : BOOLEAN]
    OBVIOUS
  <2>5. m2buf \in Seq(P) /\ P \subseteq Q
    BY <2>1, <2>2, <2>3, <2>4
  <2>6. m2buf \in Seq(Q)
    BY <2>5
  <2> QED
    BY <2>4, <2>6
<1>6. PICK H \in SUBSET Radio : H = heard'
  BY <1>4
<1>7. /\ bh_almac' = bh_almac
      /\ m2buf' \in Seq([band : H, header : BOOLEAN])
      /\ conf_state' \in [Radio -> ConfigStatus]
      /\ \A i \in Radio : conf_state'[i] = "CONFIGURED" =>
            conf_state[i] = "CONFIGURED" \/ i \in H
      /\ \A i \in Radio : conf_state[i] = "CONFIGURED" /\ conf_state'[i] # "CONFIGURED" =>
            f = FromNetwork("RESPONSE", i, TRUE)
  <2>1. conf_state \in [Radio -> ConfigStatus]
    BY DEF IInv, Types
  <2> QED
    BY <1>2, <1>4, <1>5, <1>6, <2>1, ReceivedFrame
<1>8. handle_packet_sends(if_recv(f)) \in Seq(Request)
  <2>1. if_recv(f).frame = f
    BY DEF if_recv, cmdu_filter_func
  <2>2. M1(f.band, f.src) \in Request
    BY <1>3 DEF M1, Request
  <2> QED
    BY <2>1, <2>2 DEF handle_packet_sends
<1>9. toMesh' \in Seq(Request)
  <2>1. toMesh \in Seq(Request)
    BY DEF IInv, Types
  <2> QED
    BY <1>2, <1>8, <2>1, ConcatProperties
<1>10. air' \in Seq(OfController)
  BY <1>2, HeadTailProperties DEF IInv, Types
<1>11. Types'
  BY <1>2, <1>4, <1>7, <1>9, <1>10 DEF environment, IInv, Types
<1>12. BufferHeard' /\ ConfiguredByController'
  BY <1>4, <1>6, <1>7 DEF IInv, BufferHeard, ConfiguredByController
<1>13. ToldOfFirst'
  BY <1>2, <1>7 DEF IInv, ToldOfFirst, find_controller
<1> QED
  BY <1>1, <1>2, <1>7, <1>11, <1>12, <1>13 DEF IInv

LEMMA DiscoveryInvariant ==
    ASSUME IInv, NEW dev \in Device, Discovery(dev)
    PROVE  IInv'
<1>1. nbr_1905' \in {nbr_1905, Append(nbr_1905, dev)}
  BY DEF Discovery, cmdu_handle_discovery, add_1905_nbr
<1>2. nbr_1905 \in Seq(Device)
  BY DEF IInv, Types
<1>3. nbr_1905' \in Seq(Device) /\ (nbr_1905 # <<>> => nbr_1905' # <<>> /\ Head(nbr_1905') = Head(nbr_1905))
  BY <1>1, <1>2
<1>4. find_controller # Nobody => find_controller' = find_controller
  BY <1>3 DEF find_controller
<1>5. Types'
  BY <1>3 DEF Discovery, cfgmgr, environment, IInv, Types
<1> QED
  BY <1>4, <1>5, QuietStep DEF Discovery, cfgmgr

LEMMA DisturbanceInvariant ==
    ASSUME IInv, Lose \/ Reconfig \/ Restart \/ \E i \in Radio : Renew(i)
    PROVE  IInv' /\ bh_almac' = bh_almac
<1>. /\ "loss" \in Disturbance /\ "renew" \in Disturbance
     /\ "reconfig" \in Disturbance /\ "restart" \in Disturbance
  BY DEF Disturbance
<1>. Types
  BY DEF IInv
<1>1. CASE Lose
  <2>0. /\ spent' \in [Disturbance -> Nat] /\ spent'["restart"] = spent["restart"]
    BY <1>1, Spends DEF Lose
  <2>1. air' \in Seq(OfController)
    BY <1>1, HeadTailProperties DEF Lose, IInv, Types
  <2>2. Types'
    BY <1>1, <2>0, <2>1 DEF Lose, cfgmgr, environment, IInv, Types
  <2>3. spent'["restart"] = 0 => spent["restart"] = 0
    BY <2>0
  <2> QED
    BY <1>1, <2>2, <2>3, QuietStep DEF Lose, cfgmgr, find_controller
<1>2. CASE Reconfig
  <2>0. /\ spent' \in [Disturbance -> Nat] /\ spent'["restart"] = spent["restart"]
    BY <1>2, Spends DEF Reconfig
  <2>1. /\ conf_state' \in [Radio -> ConfigStatus]
        /\ \A i \in Radio : conf_state'[i] # "CONFIGURED"
        /\ bh_almac' = bh_almac /\ m2buf' = m2buf
    BY <1>2 DEF Reconfig, handle_external_command, ConfigStatus
  <2>2. Types'
    BY <1>2, <2>0, <2>1 DEF Reconfig, environment, IInv, Types
  <2>3. spent'["restart"] = 0 => spent["restart"] = 0
    BY <2>0
  <2> QED
    BY <1>2, <2>1, <2>2, <2>3, QuietStep DEF Reconfig, find_controller
<1>3. CASE Restart
  <2>0. spent' \in [Disturbance -> Nat] /\ spent'["restart"] = spent["restart"] + 1
        /\ spent["restart"] \in Nat
    BY <1>3, Spends DEF Restart
  <2>1. nbr_1905' \in Seq(Device) /\ toMesh' \in Seq(Request) /\ air' \in Seq(OfController)
    BY <1>3, EmptySeq DEF Restart, IInv, Types
  <2>2. Types'
    BY <1>3, <2>0, <2>1 DEF Restart, cfgmgr, environment, IInv, Types
  <2>3. spent'["restart"] # 0
    BY <2>0
  <2> QED
    BY <1>3, <2>2, <2>3, QuietStep DEF Restart, cfgmgr
<1>4. CASE \E i \in Radio : Renew(i)
  <2>1. PICK i \in Radio : Renew(i)
    BY <1>4
  <2>0. /\ spent' \in [Disturbance -> Nat] /\ spent'["restart"] = spent["restart"]
    BY <2>1, Spends DEF Renew
  <2>2. FromNetwork("RENEW", i, TRUE) \in OfController
    BY FrameIsOfController
  <2>3. air' \in Seq(OfController)
    BY <2>1, <2>2, AppendProperties DEF Renew, IInv, Types
  <2>4. Types'
    BY <2>0, <2>1, <2>3 DEF Renew, cfgmgr, environment, IInv, Types
  <2>5. spent'["restart"] = 0 => spent["restart"] = 0
    BY <2>0
  <2> QED
    BY <2>1, <2>4, <2>5, QuietStep DEF Renew, cfgmgr, find_controller
<1> QED
  BY <1>1, <1>2, <1>3, <1>4

LEMMA StepInvariant == IInv /\ [Next]_vars => IInv'
<1> SUFFICES ASSUME IInv, [Next]_vars
             PROVE  IInv'
  OBVIOUS
<1>1. CASE UNCHANGED vars
  <2>1. Types'
    BY <1>1 DEF vars, cfgmgr, environment, IInv, Types
  <2> QED
    BY <1>1, <2>1, QuietStep DEF vars, cfgmgr, find_controller
<1>2. CASE Next
  BY <1>2, TimerInvariant, ControllerInfoInvariant, ForwardInvariant, ReceiveInvariant,
     DiscoveryInvariant, DisturbanceInvariant DEF Next
<1> QED
  BY <1>1, <1>2

(* The invariant holds in every state of every behaviour. *)
THEOREM Invariant == Spec => []IInv
BY InitInvariant, StepInvariant, PTL DEF Spec

-----------------------------------------------------------------------------

(* A radio is configured only after the network has delivered an M2 of its *)
(* band, whatever the manager's own M1s, late answers and restarts do.     *)
THEOREM ConfiguredOnlyByM2 == Spec => []ConfiguredByController
<1>1. IInv => ConfiguredByController
  BY DEF IInv
<1> QED
  BY <1>1, Invariant, PTL

(* One step keeps a configured radio, but for a RESPONSE of its band and   *)
(* the user's command.                                                     *)
LEMMA StepKeepsConfigured ==
    ASSUME IInv, [Next]_vars, NEW i \in Radio,
           conf_state[i] = "CONFIGURED", conf_state'[i] # "CONFIGURED"
    PROVE  \/ spent'["reconfig"] > spent["reconfig"]
           \/ air # <<>> /\ air' = Tail(air) /\ Head(air) = FromNetwork("RESPONSE", i, TRUE)
<1>1. CASE UNCHANGED vars
  BY <1>1 DEF vars, cfgmgr
<1>2. CASE Timer
  BY <1>2 DEF Timer, autoconf_search_timer_cb
<1>3. CASE ControllerInfo
  BY <1>3 DEF ControllerInfo, handle_priv_msg_from_mesh, cfgmgr
<1>4. CASE forward_cmdu
  BY <1>4, ForwardInvariant DEF cfgmgr
<1>5. CASE client_read_cb
  BY <1>5, ReceiveInvariant
<1>6. CASE \E dev \in Device : Discovery(dev)
  BY <1>6 DEF Discovery, cfgmgr
<1>7. CASE Reconfig
  <2>1. "reconfig" \in Disturbance
    BY DEF Disturbance
  <2>2. Types /\ Disturb("reconfig")
    BY <1>7 DEF Reconfig, IInv
  <2>3. spent'["reconfig"] = spent["reconfig"] + 1
    BY <2>1, <2>2, Spends
  <2>4. spent["reconfig"] \in Nat
    BY <2>1, <2>2 DEF Types
  <2>5. \A x \in Nat : x + 1 > x
    OBVIOUS
  <2>6. spent'["reconfig"] > spent["reconfig"]
    BY <2>3, <2>4, <2>5
  <2> QED
    BY <2>6
<1>8. CASE Lose \/ Restart \/ \E j \in Radio : Renew(j)
  BY <1>8 DEF Lose, Restart, Renew, cfgmgr
<1> QED
  BY <1>1, <1>2, <1>3, <1>4, <1>5, <1>6, <1>7, <1>8 DEF Next

(* A configured radio is undone by nothing but the user's command and a    *)
(* RESPONSE of its band that comes after the M2.                           *)
THEOREM ConfiguredStays == Spec => UndoneByResponseOnly
<1>1. IInv /\ [Next]_vars =>
        [\A i \in Radio :
            conf_state[i] = "CONFIGURED" /\ conf_state'[i] # "CONFIGURED" =>
              \/ spent'["reconfig"] > spent["reconfig"]
              \/ /\ air # <<>> /\ air' = Tail(air)
                 /\ Head(air) = FromNetwork("RESPONSE", i, TRUE)]_vars
  BY StepKeepsConfigured
<1> QED
  BY <1>1, Invariant, PTL DEF Spec, UndoneByResponseOnly

(* The manager stays with the controller it was told of as long as the     *)
(* agent is not started anew: the first neighbour remains the first.       *)
THEOREM ControllerKept == Spec => KeepsController
<1>1. ASSUME IInv, [Next]_vars, spent["restart"] = 0, bh_almac # Nobody
      PROVE  bh_almac' = bh_almac
  <2>1. bh_almac = find_controller
    BY <1>1 DEF IInv, ToldOfFirst
  <2>2. CASE UNCHANGED vars
    BY <2>2 DEF vars, cfgmgr
  <2>3. CASE Timer
    BY <2>3 DEF Timer, autoconf_search_timer_cb
  <2>4. CASE ControllerInfo
    BY <1>1, <2>1, <2>4 DEF ControllerInfo, handle_priv_msg_from_mesh, cfgmgr
  <2>5. CASE forward_cmdu
    BY <1>1, <2>5, ForwardInvariant DEF cfgmgr
  <2>6. CASE client_read_cb
    BY <1>1, <2>6, ReceiveInvariant
  <2>7. CASE \E dev \in Device : Discovery(dev)
    BY <2>7 DEF Discovery, cfgmgr
  <2>8. CASE Lose \/ Reconfig \/ Restart \/ \E i \in Radio : Renew(i)
    BY <1>1, <2>8, DisturbanceInvariant
  <2> QED
    BY <1>1, <2>2, <2>3, <2>4, <2>5, <2>6, <2>7, <2>8 DEF Next
<1>2. IInv /\ [Next]_vars =>
        [spent["restart"] = 0 /\ bh_almac # Nobody => bh_almac' = bh_almac]_vars
  BY <1>1
<1> QED
  BY <1>2, Invariant, PTL DEF Spec, KeepsController
-----------------------------------------------------------------------------
(* The M2 buffer does not grow but by disturbances.  Frames arrive in the  *)
(* order they were sent, and a fragment that is not the last of its M2 is  *)
(* followed by the last: what the buffer holds beside the fragment whose   *)
(* last one is next to arrive was left by an M2 that lost its last         *)
(* fragment, or by the agent's end.                                        *)

InPairs(frames) ==
    \A k \in 1..Len(frames) : ~frames[k].last =>
        k < Len(frames) /\ frames[k + 1].type = "WSC" /\ frames[k + 1].last

LastIsNext(frames) == frames # <<>> /\ Head(frames).type = "WSC" /\ Head(frames).last

Spoiled == spent["loss"] + spent["restart"]

AirInv == InPairs(air) /\ Len(air) <= MaxAir

BufferInv == Len(m2buf) <= Spoiled + (IF LastIsNext(air) THEN 1 ELSE 0)

NeighboursInv == ToSet(nbr_1905) \subseteq Device \ {Self} /\ IsInjective(nbr_1905)

RestInv == AllSpent <= MaxSpent /\ prompt \in BOOLEAN /\ fragments \in Fragments

TypeInv == AirInv /\ BufferInv /\ NeighboursInv /\ RestInv

LEMMA PairsOfTail ==
    ASSUME NEW s \in Seq(OfController), s # <<>>, InPairs(s)
    PROVE  InPairs(Tail(s))
<1>1. Len(Tail(s)) = Len(s) - 1 /\ \A k \in 1..Len(s) - 1 : Tail(s)[k] = s[k + 1]
  OBVIOUS
<1>2. Len(s) \in Nat
  OBVIOUS
<1> QED
  BY <1>1, <1>2 DEF InPairs

LEMMA PairsConcat ==
    ASSUME NEW s \in Seq(OfController), NEW t \in Seq(OfController), InPairs(s), InPairs(t)
    PROVE  InPairs(s \o t)
<1>1. /\ Len(s \o t) = Len(s) + Len(t)
      /\ \A k \in 1..Len(s) : (s \o t)[k] = s[k]
      /\ \A k \in 1..Len(t) : (s \o t)[Len(s) + k] = t[k]
      /\ Len(s) \in Nat /\ Len(t) \in Nat
  OBVIOUS
<1>2. ASSUME NEW k \in 1..Len(s \o t), ~(s \o t)[k].last
      PROVE  k < Len(s \o t) /\ (s \o t)[k + 1].type = "WSC" /\ (s \o t)[k + 1].last
  <2>1. CASE k <= Len(s)
    <3>1. k < Len(s) /\ s[k + 1].type = "WSC" /\ s[k + 1].last
      BY <1>1, <1>2, <2>1 DEF InPairs
    <3> QED
      BY <1>1, <3>1
  <2>2. CASE k > Len(s)
    <3>1. PICK j \in 1..Len(t) : k = Len(s) + j
      <4>1. k - Len(s) \in 1..Len(t) /\ k = Len(s) + (k - Len(s))
        BY <1>1, <2>2
      <4> QED
        BY <4>1
    <3>2. j < Len(t) /\ t[j + 1].type = "WSC" /\ t[j + 1].last
      BY <1>1, <1>2, <3>1 DEF InPairs
    <3>3. k + 1 = Len(s) + (j + 1) /\ j + 1 \in 1..Len(t)
      BY <1>1, <3>1, <3>2
    <3>4. (s \o t)[k + 1] = t[j + 1]
      BY <1>1, <3>3
    <3> QED
      BY <1>1, <3>1, <3>2, <3>4
  <2> QED
    BY <1>1, <2>1, <2>2
<1> QED
  BY <1>2 DEF InPairs

LEMMA PairsOfAnswer ==
    ASSUME NEW m \in Request, m # ControllerInfoReq
    PROVE  InPairs(Answer(m))
<1>1. PICK r : r = FromNetwork("RESPONSE", m.band, TRUE)
  OBVIOUS
<1>2. PICK w : w = FromNetwork("WSC", m.band, TRUE)
  OBVIOUS
<1>3. PICK v : v = FromNetwork("WSC", m.band, FALSE)
  OBVIOUS
<1>4. r.last /\ w.last /\ w.type = "WSC"
  BY <1>1, <1>2 DEF FromNetwork
<1>5. Answer(m) \in {<<>>, <<r>>, <<w>>, <<v, w>>}
  BY <1>1, <1>2, <1>3 DEF Answer
<1>6. InPairs(<<>>) /\ InPairs(<<r>>) /\ InPairs(<<w>>) /\ InPairs(<<v, w>>)
  BY <1>4 DEF InPairs
<1> QED
  BY <1>5, <1>6, Zenon

LEMMA AirStep ==
    ASSUME IInv, AirInv, [Next]_vars
    PROVE  AirInv'
<1>1. air \in Seq(OfController) /\ Len(air) \in Nat /\ MaxAir \in Nat
  BY AutoConfAssumption DEF IInv, Types
<1>2. CASE air' = air
  BY <1>2 DEF AirInv
<1>3. CASE air # <<>> /\ air' = Tail(air)
  <2>1. Len(Tail(air)) = Len(air) - 1
    BY <1>1, <1>3
  <2> QED
    BY <1>1, <1>3, <2>1, PairsOfTail DEF AirInv
<1>4. CASE air' = <<>>
  BY <1>1, <1>4 DEF AirInv, InPairs
<1>5. CASE forward_cmdu
  <2>1. PICK m \in Request : m = Head(toMesh)
    BY <1>5, HeadTailProperties DEF forward_cmdu, IInv, Types
  <2>2. m # ControllerInfoReq /\ air' = air \o Answer(m) /\ Len(air \o Answer(m)) <= MaxAir
    BY <1>5, <2>1 DEF forward_cmdu
  <2>3. Answer(m) \in Seq(OfController) /\ InPairs(Answer(m))
    BY <2>2, AnswerOfController, PairsOfAnswer DEF IInv, Types
  <2> QED
    BY <1>1, <2>2, <2>3, PairsConcat DEF AirInv
<1>6. CASE \E i \in Radio : Renew(i)
  <2>1. PICK i \in Radio : Renew(i)
    BY <1>6
  <2>2. PICK f \in OfController : f = FromNetwork("RENEW", i, TRUE)
    BY FrameIsOfController
  <2>3. air' = Append(air, f) /\ Len(air) < MaxAir
    BY <2>1, <2>2 DEF Renew
  <2>4. Append(air, f) = air \o <<f>> /\ Len(Append(air, f)) = Len(air) + 1
    BY <1>1
  <2>5. InPairs(<<f>>) /\ <<f>> \in Seq(OfController)
    BY <2>2 DEF FromNetwork, InPairs
  <2>6. InPairs(air \o <<f>>)
    BY <1>1, <2>5, PairsConcat DEF AirInv
  <2>7. Len(air') <= MaxAir
    BY <1>1, <2>3, <2>4
  <2> QED
    BY <2>3, <2>4, <2>6, <2>7 DEF AirInv
<1>7. CASE UNCHANGED vars
  BY <1>2, <1>7 DEF vars
<1>8. CASE Timer \/ ControllerInfo \/ Reconfig \/ \E dev \in Device : Discovery(dev)
  BY <1>2, <1>8 DEF Timer, ControllerInfo, Reconfig, Discovery
<1>9. CASE client_read_cb \/ Lose
  BY <1>3, <1>9 DEF client_read_cb, Lose
<1>10. CASE Restart
  BY <1>2, <1>4, <1>10 DEF Restart
<1> QED
  BY <1>5, <1>6, <1>7, <1>8, <1>9, <1>10 DEF Next

LEMMA SpoiledGrows ==
    ASSUME IInv
    PROVE  /\ Spoiled \in Nat
           /\ \A d \in {"loss", "restart"} : Disturb(d) => Spoiled' = Spoiled + 1
           /\ \A d \in {"renew", "reconfig"} : Disturb(d) => Spoiled' = Spoiled
<1>1. Types /\ {"loss", "restart", "renew", "reconfig"} = Disturbance
  BY DEF IInv, Disturbance
<1>2. spent["loss"] \in Nat /\ spent["restart"] \in Nat
  BY <1>1 DEF Types
<1>3. ASSUME Disturb("loss") PROVE Spoiled' = Spoiled + 1
  <2>1. spent'["loss"] = spent["loss"] + 1 /\ spent'["restart"] = spent["restart"]
    BY <1>1, <1>3, Spends
  <2> QED
    BY <1>2, <2>1 DEF Spoiled
<1>4. ASSUME Disturb("restart") PROVE Spoiled' = Spoiled + 1
  <2>1. spent'["restart"] = spent["restart"] + 1 /\ spent'["loss"] = spent["loss"]
    BY <1>1, <1>4, Spends
  <2> QED
    BY <1>2, <2>1 DEF Spoiled
<1>5. ASSUME NEW d \in {"renew", "reconfig"}, Disturb(d) PROVE Spoiled' = Spoiled
  <2>1. spent'["restart"] = spent["restart"] /\ spent'["loss"] = spent["loss"]
    BY <1>1, <1>5, Spends
  <2> QED
    BY <2>1 DEF Spoiled
<1> QED
  BY <1>2, <1>3, <1>4, <1>5 DEF Spoiled

(* A frame received: the buffer grows by a fragment whose last one is the  *)
(* next to arrive, is emptied by the last, and is left alone by others.    *)
LEMMA BufferReceives ==
    ASSUME IInv, AirInv, BufferInv, client_read_cb
    PROVE  BufferInv'
<1>1. air \in Seq(OfController) /\ air # <<>> /\ InPairs(air)
  BY DEF client_read_cb, IInv, Types, AirInv
<1>2. PICK f \in OfController : f = Head(air)
  BY <1>1, HeadTailProperties
<1>3. handle_packet(if_recv(f)) /\ air' = Tail(air) /\ Spoiled' = Spoiled
  BY <1>2 DEF client_read_cb, Spoiled
<1>4. if_recv(f).frame = f /\ if_recv(f).from = "NETWORK"
  BY DEF if_recv, cmdu_filter_func
<1>5. Spoiled \in Nat /\ Len(m2buf) \in Nat
  BY SpoiledGrows DEF IInv, BufferHeard
<1>6. CASE f.type = "WSC" /\ f.last
  <2>1. m2buf' = <<>>
    BY <1>3, <1>4, <1>6 DEF handle_packet, handle_autoconfiguration_wsc
  <2> QED
    BY <1>3, <1>5, <2>1 DEF BufferInv
<1>7. CASE f.type = "WSC" /\ ~f.last
  <2>1. PICK part : m2buf' = Append(m2buf, part)
    BY <1>3, <1>4, <1>7 DEF handle_packet, handle_autoconfiguration_wsc
  <2>2. Len(m2buf') = Len(m2buf) + 1
    BY <2>1 DEF IInv, BufferHeard
  <2>3. f = air[1] /\ Len(air) \in Nat /\ Len(air) > 0
    BY <1>1, <1>2
  <2>4. 1 < Len(air) /\ air[2].type = "WSC" /\ air[2].last
    BY <1>1, <1>7, <2>3 DEF InPairs
  <2>5. Tail(air) # <<>> /\ Head(Tail(air)) = air[2]
    BY <1>1, <2>4
  <2>6. LastIsNext(air')
    BY <1>3, <2>4, <2>5 DEF LastIsNext
  <2>7. ~LastIsNext(air)
    BY <1>2, <1>7 DEF LastIsNext
  <2> QED
    BY <1>3, <1>5, <2>2, <2>6, <2>7 DEF BufferInv
<1>8. CASE f.type # "WSC"
  <2>1. m2buf' = m2buf
    BY <1>3, <1>4, <1>8 DEF handle_packet, handle_autoconfiguration_response, cfgmgr
  <2>2. ~LastIsNext(air)
    BY <1>2, <1>8 DEF LastIsNext
  <2> QED
    BY <1>3, <1>5, <2>1, <2>2 DEF BufferInv
<1> QED
  BY <1>6, <1>7, <1>8

LEMMA BufferStep ==
    ASSUME IInv, AirInv, BufferInv, [Next]_vars
    PROVE  BufferInv'
<1>1. /\ Spoiled \in Nat /\ Len(m2buf) \in Nat
      /\ air \in Seq(OfController)
  BY SpoiledGrows DEF IInv, BufferHeard, Types
<1>2. ASSUME m2buf' = m2buf, Spoiled' = Spoiled, LastIsNext(air) => LastIsNext(air')
      PROVE  BufferInv'
  BY <1>1, <1>2 DEF BufferInv
<1>3. ASSUME NEW d \in {"loss", "restart"}, Disturb(d), m2buf' = m2buf
      PROVE  BufferInv'
  <2>1. Spoiled' = Spoiled + 1
    BY <1>3, SpoiledGrows
  <2> QED
    BY <1>1, <1>3, <2>1 DEF BufferInv
<1>4. CASE UNCHANGED vars
  BY <1>2, <1>4 DEF vars, cfgmgr, Spoiled
<1>5. CASE Timer
  BY <1>2, <1>5 DEF Timer, autoconf_search_timer_cb, Spoiled
<1>6. CASE ControllerInfo
  BY <1>2, <1>6 DEF ControllerInfo, handle_priv_msg_from_mesh, cfgmgr, Spoiled
<1>7. CASE forward_cmdu
  <2>1. PICK m \in Request : m = Head(toMesh)
    BY <1>7, HeadTailProperties DEF forward_cmdu, IInv, Types
  <2>2. Answer(m) \in Seq(OfController) /\ air' = air \o Answer(m)
    BY <1>7, <2>1, AnswerOfController DEF forward_cmdu, IInv, Types
  <2>3. air # <<>> => air' # <<>> /\ Head(air') = Head(air)
    BY <1>1, <2>2
  <2>4. UNCHANGED cfgmgr /\ spent' = spent
    BY <1>7, ForwardInvariant DEF forward_cmdu
  <2> QED
    BY <1>2, <2>3, <2>4 DEF LastIsNext, cfgmgr, Spoiled
<1>8. CASE client_read_cb
  BY <1>8, BufferReceives
<1>9. CASE \E dev \in Device : Discovery(dev)
  BY <1>2, <1>9 DEF Discovery, cfgmgr, Spoiled
<1>10. CASE Lose
  BY <1>3, <1>10 DEF Lose, cfgmgr
<1>11. CASE Restart
  BY <1>3, <1>11 DEF Restart, cfgmgr
<1>12. CASE Reconfig
  <2>1. Spoiled' = Spoiled
    BY <1>12, SpoiledGrows DEF Reconfig
  <2> QED
    BY <1>2, <1>12, <2>1 DEF Reconfig, handle_external_command
<1>13. CASE \E i \in Radio : Renew(i)
  <2>1. PICK i \in Radio : Renew(i)
    BY <1>13
  <2>2. Spoiled' = Spoiled /\ m2buf' = m2buf
    BY <2>1, SpoiledGrows DEF Renew, cfgmgr
  <2>3. PICK f : f = FromNetwork("RENEW", i, TRUE)
    OBVIOUS
  <2>4. air # <<>> => Append(air, f) # <<>> /\ Head(Append(air, f)) = Head(air)
    <3>1. f \in OfController
      BY <2>3, FrameIsOfController
    <3> QED
      BY <1>1, <3>1
  <2>5. air # <<>> => air' # <<>> /\ Head(air') = Head(air)
    BY <2>1, <2>3, <2>4 DEF Renew
  <2> QED
    BY <1>2, <2>2, <2>5 DEF LastIsNext
<1> QED
  BY <1>4, <1>5, <1>6, <1>7, <1>8, <1>9, <1>10, <1>11, <1>12, <1>13 DEF Next

(* A neighbour is added when it is none yet and is not the agent itself.   *)
LEMMA NeighboursStep ==
    ASSUME IInv, NeighboursInv, [Next]_vars
    PROVE  NeighboursInv'
<1>1. nbr_1905 \in Seq(Device) /\ Len(nbr_1905) \in Nat
  BY DEF IInv, Types
<1>2. CASE nbr_1905' = nbr_1905
  BY <1>2 DEF NeighboursInv
<1>3. CASE nbr_1905' = <<>>
  BY <1>3 DEF NeighboursInv, ToSet, IsInjective
<1>4. ASSUME NEW dev \in Device, dev # Self, dev \notin ToSet(nbr_1905),
             nbr_1905' = Append(nbr_1905, dev)
      PROVE  NeighboursInv'
  <2>1. DOMAIN nbr_1905' = 1..Len(nbr_1905) + 1 /\ DOMAIN nbr_1905 = 1..Len(nbr_1905)
    BY <1>1, <1>4
  <2>2. \A k \in 1..Len(nbr_1905) + 1 :
            nbr_1905'[k] = IF k = Len(nbr_1905) + 1 THEN dev ELSE nbr_1905[k]
    BY <1>1, <1>4
  <2>3. \A k \in 1..Len(nbr_1905) : nbr_1905[k] # dev /\ nbr_1905[k] \in Device \ {Self}
    BY <1>4, <2>1 DEF ToSet, NeighboursInv
  <2>4. ToSet(nbr_1905') \subseteq Device \ {Self}
    BY <1>1, <1>4, <2>1, <2>2, <2>3 DEF ToSet
  <2>5. IsInjective(nbr_1905')
    BY <1>1, <2>1, <2>2, <2>3 DEF IsInjective, NeighboursInv
  <2> QED
    BY <2>4, <2>5 DEF NeighboursInv
<1>5. CASE \E dev \in Device : Discovery(dev)
  BY <1>2, <1>4, <1>5 DEF Discovery, cmdu_handle_discovery, search_1905_nbr, add_1905_nbr
<1>6. CASE Restart
  BY <1>3, <1>6 DEF Restart
<1>7. CASE UNCHANGED vars \/ Timer \/ ControllerInfo \/ forward_cmdu \/ client_read_cb
  BY <1>2, <1>7 DEF vars, Timer, ControllerInfo, forward_cmdu, client_read_cb
<1>8. CASE Reconfig \/ Lose \/ \E i \in Radio : Renew(i)
  BY <1>2, <1>8 DEF Reconfig, Lose, Renew
<1> QED
  BY <1>5, <1>6, <1>7, <1>8 DEF Next

LEMMA RestStep ==
    ASSUME IInv, RestInv, [Next]_vars
    PROVE  RestInv'
<1>1. CASE UNCHANGED <<spent, environment>>
  BY <1>1 DEF RestInv, AllSpent, environment
<1>2. ASSUME NEW d \in Disturbance, Disturb(d), UNCHANGED environment
      PROVE  RestInv'
  <2>1. /\ spent'[d] = spent[d] + 1
        /\ \A e \in Disturbance \ {d} : spent'[e] = spent[e]
        /\ \A e \in Disturbance : spent[e] \in Nat
    BY <1>2, Spends DEF IInv, Types
  <2>2. AllSpent < MaxSpent /\ MaxSpent \in Nat
    BY <1>2, AutoConfAssumption DEF Disturb
  <2>3. d \in {"loss", "renew", "reconfig", "restart"}
    BY DEF Disturbance
  <2>4. AllSpent' = AllSpent + 1
    BY <2>1, <2>3 DEF AllSpent, Disturbance
  <2>5. AllSpent \in Nat
    BY <2>1 DEF AllSpent, Disturbance
  <2>6. AllSpent' <= MaxSpent
    BY <2>2, <2>4, <2>5
  <2> QED
    BY <1>2, <2>6 DEF RestInv, environment
<1>3. CASE UNCHANGED vars \/ Timer \/ ControllerInfo \/ forward_cmdu \/ client_read_cb
  BY <1>1, <1>3 DEF vars, Timer, ControllerInfo, forward_cmdu, client_read_cb
<1>4. CASE \E dev \in Device : Discovery(dev)
  BY <1>1, <1>4 DEF Discovery
<1>5. CASE Reconfig \/ Restart \/ Lose \/ \E i \in Radio : Renew(i)
  BY <1>2, <1>5 DEF Reconfig, Restart, Lose, Renew, Disturbance
<1> QED
  BY <1>3, <1>4, <1>5 DEF Next

LEMMA TypeInit == Init => TypeInv
<1> SUFFICES ASSUME Init
             PROVE  TypeInv
  OBVIOUS
<1>1. AirInv
  BY AutoConfAssumption DEF Init, AirInv, InPairs
<1>2. BufferInv
  <2>1. m2buf = <<>> /\ Spoiled = 0
    BY DEF Init, CfgMgrInit, Spoiled, Disturbance
  <2> QED
    BY <2>1 DEF BufferInv
<1>3. NeighboursInv
  BY DEF Init, AgentInit, NeighboursInv, ToSet, IsInjective
<1>4. RestInv
  BY AutoConfAssumption DEF Init, RestInv, AllSpent, Disturbance
<1> QED
  BY <1>1, <1>2, <1>3, <1>4 DEF TypeInv

LEMMA TypesHold ==
    ASSUME IInv, TypeInv
    PROVE  TypeOK
<1>1. conf_state \in [Radio -> ConfigStatus] /\ bh_almac \in Device \cup {Nobody} /\ heard \subseteq Radio
  BY DEF IInv, Types
<1>2. m2buf \in Seq([band : Radio, header : BOOLEAN])
  <2>1. [band : heard, header : BOOLEAN] \subseteq [band : Radio, header : BOOLEAN]
    BY <1>1
  <2>2. \A P, Q : P \subseteq Q => Seq(P) \subseteq Seq(Q)
    OBVIOUS
  <2> QED
    BY <2>1, <2>2, Zenon DEF IInv, BufferHeard
<1>3. Len(m2buf) <= 1 + spent["loss"] + spent["restart"]
  <2>1. spent["loss"] \in Nat /\ spent["restart"] \in Nat /\ Len(m2buf) \in Nat
    BY DEF IInv, BufferHeard, Types, Disturbance
  <2> QED
    BY <2>1 DEF TypeInv, BufferInv, Spoiled
<1>4. ToSet(toMesh) \subseteq Request
  BY DEF IInv, Types, ToSet
<1>5. air \in Seq(Frame) /\ Len(air) <= MaxAir
  <2>1. OfController \subseteq Frame
    BY DEF OfController
  <2>2. PICK S : S = OfController
    OBVIOUS
  <2>3. air \in Seq(Frame)
    BY <2>1, <2>2 DEF IInv, Types
  <2> QED
    BY <2>3 DEF TypeInv, AirInv
<1> QED
  BY <1>1, <1>2, <1>3, <1>4, <1>5 DEF TypeInv, NeighboursInv, RestInv, TypeOK, IInv, Types

(* Every variable keeps its type: in particular the M2 buffer holds one    *)
(* fragment, and one more for each disturbance that cut an M2 short, and   *)
(* the agent's neighbours are other devices, each once.                    *)
THEOREM TypeCorrect == Spec => []TypeOK
<1>1. IInv /\ TypeInv /\ [Next]_vars => TypeInv'
  BY AirStep, BufferStep, NeighboursStep, RestStep DEF TypeInv
<1>2. IInv /\ TypeInv => TypeOK
  BY TypesHold
<1> QED
  BY <1>1, <1>2, TypeInit, Invariant, PTL DEF Spec

-----------------------------------------------------------------------------
(* An M2 in two fragments configures its radio when both arrive; one in a  *)
(* single fragment configures none.  What tells them apart is whether the  *)
(* M2 buffer begins with a header, which only a fragment that is not the   *)
(* last one brings.                                                        *)

Completes(f) == f.type = "WSC" /\ f.last

(* The buffer begins with the fragment that came with a header. *)
HeaderFirst == m2buf # <<>> => Head(m2buf).header

(* What the controller sends at once: in one fragment, or the last one     *)
(* behind the other.                                                       *)
Sent(frames) ==
    /\ frames \in Seq(OfController)
    /\ fragments = 1 => \A k \in 1..Len(frames) : frames[k].last
    /\ fragments = 2 => \A k \in 1..Len(frames) :
                            Completes(frames[k]) => k > 1 /\ ~frames[k - 1].last

(* What is under way of it: the first fragment may have arrived. *)
Preceded ==
    /\ fragments = 1 => \A k \in 1..Len(air) : air[k].last
    /\ fragments = 2 => \A k \in 2..Len(air) : Completes(air[k]) => ~air[k - 1].last

(* The fragment before the next one is in the buffer. *)
FirstKept == fragments = 2 /\ Spoiled = 0 /\ LastIsNext(air) => m2buf # <<>>

(* A controller that sends each M2 in one fragment configures no radio:    *)
(* handle_autoconfiguration_wsc copies the fragment's TLVs to the empty    *)
(* buffer without the header, and reads the buffer as a packet.            *)
SingleNeverConfigures == fragments = 1 => \A i \in Radio : conf_state[i] # "CONFIGURED"

M2Inv ==
    /\ HeaderFirst /\ Preceded /\ FirstKept
    /\ SingleNeverConfigures /\ (fragments = 1 => m2buf = <<>>)

LEMMA AnswerIsSent ==
    ASSUME NEW m \in Request, m # ControllerInfoReq, fragments \in 1..2
    PROVE  Sent(Answer(m))
<1>1. m.band \in Radio
  BY DEF Request
<1>2. PICK r \in OfController : r = FromNetwork("RESPONSE", m.band, TRUE)
  BY <1>1, FrameIsOfController
<1>3. PICK w \in OfController : w = FromNetwork("WSC", m.band, TRUE)
  BY <1>1, FrameIsOfController
<1>4. PICK v \in OfController : v = FromNetwork("WSC", m.band, FALSE)
  BY <1>1, FrameIsOfController
<1>5. r.last /\ r.type # "WSC" /\ w.last /\ ~v.last
  BY <1>2, <1>3, <1>4 DEF FromNetwork
<1>6. \/ Answer(m) = <<>> \/ Answer(m) = <<r>>
      \/ fragments = 1 /\ Answer(m) = <<w>>
      \/ fragments = 2 /\ Answer(m) = <<v, w>>
  <2>1. Answer(m) = IF m.dest # Controller THEN <<>>
                    ELSE IF m.type = "SEARCH" THEN <<r>>
                    ELSE IF fragments = 1 THEN <<w>> ELSE <<v, w>>
    BY <1>2, <1>3, <1>4, Zenon DEF Answer
  <2>2. fragments = 1 \/ fragments = 2
    OBVIOUS
  <2>. QED
    BY <2>1, <2>2, Zenon
<1>7. CASE Answer(m) = <<>>
  BY <1>7 DEF Sent
<1>8. CASE Answer(m) = <<r>>
  BY <1>5, <1>8 DEF Sent, Completes
<1>9. CASE fragments = 1 /\ Answer(m) = <<w>>
  BY <1>5, <1>9 DEF Sent
<1>10. CASE fragments = 2 /\ Answer(m) = <<v, w>>
  <2>1. <<v, w>> \in Seq(OfController)
    OBVIOUS
  <2>2. Len(<<v, w>>) = 2 /\ <<v, w>>[1] = v /\ <<v, w>>[2] = w
    OBVIOUS
  <2>3. \A k \in 1..2 : Completes(<<v, w>>[k]) => k > 1 /\ ~<<v, w>>[k - 1].last
    <3>1. ~Completes(<<v, w>>[1])
      BY <1>5, <2>2 DEF Completes
    <3>2. ~<<v, w>>[2 - 1].last
      BY <1>5, <2>2
    <3>. QED
      BY <3>1, <3>2
  <2>. QED
    BY <1>10, <2>1, <2>2, <2>3 DEF Sent
<1> QED
  BY <1>6, <1>7, <1>8, <1>9, <1>10

LEMMA RenewIsSent ==
    ASSUME NEW i \in Radio
    PROVE  Sent(<<FromNetwork("RENEW", i, TRUE)>>)
<1>1. PICK r \in OfController : r = FromNetwork("RENEW", i, TRUE)
  BY FrameIsOfController
<1>2. r.last /\ r.type # "WSC"
  BY <1>1 DEF FromNetwork
<1>3. Sent(<<r>>)
  BY <1>2 DEF Sent, Completes
<1> QED
  BY <1>1, <1>3

LEMMA PrecededKept ==
    ASSUME air \in Seq(OfController), fragments' = fragments, Preceded,
           \/ air' = air \/ air' = <<>>
           \/ air # <<>> /\ air' = Tail(air)
           \/ \E t : Sent(t) /\ air' = air \o t
    PROVE  Preceded'
<1>1. CASE air' = air
  BY <1>1 DEF Preceded
<1>2. CASE air' = <<>>
  BY <1>2 DEF Preceded
<1>3. CASE air # <<>> /\ air' = Tail(air)
  <2>1. /\ Len(air) \in Nat /\ Len(air') = Len(air) - 1
        /\ \A k \in 1..Len(air) - 1 : air'[k] = air[k + 1]
    BY <1>3
  <2>2. ASSUME fragments = 1, NEW k \in 1..Len(air') PROVE air'[k].last
    BY <2>1, <2>2 DEF Preceded
  <2>3. ASSUME fragments = 2, NEW k \in 2..Len(air'), Completes(air'[k]) PROVE ~air'[k - 1].last
    <3>1. k + 1 \in 2..Len(air) /\ k - 1 \in 1..Len(air) - 1 /\ k \in 1..Len(air) - 1
      BY <2>1
    <3>2. air'[k] = air[k + 1] /\ air'[k - 1] = air[k]
      BY <2>1, <3>1
    <3>3. ~air[(k + 1) - 1].last
      BY <2>3, <3>1, <3>2 DEF Preceded
    <3>. QED
      BY <3>2, <3>3
  <2>. QED
    BY <2>2, <2>3 DEF Preceded, Completes
<1>4. ASSUME NEW t, Sent(t), air' = air \o t PROVE Preceded'
  <2>1. /\ t \in Seq(OfController) /\ Len(air) \in Nat /\ Len(t) \in Nat
        /\ Len(air') = Len(air) + Len(t)
        /\ \A k \in 1..Len(air) : air'[k] = air[k]
        /\ \A k \in 1..Len(t) : air'[Len(air) + k] = t[k]
    BY <1>4 DEF Sent
  <2>2. \A k \in 1..Len(air') : k <= Len(air) \/ \E j \in 1..Len(t) : k = Len(air) + j
    <3>1. ASSUME NEW k \in 1..Len(air'), ~(k <= Len(air)) PROVE k - Len(air) \in 1..Len(t)
      BY <2>1, <3>1
    <3>2. \A k \in 1..Len(air') : k = Len(air) + (k - Len(air))
      BY <2>1
    <3>. QED
      BY <3>1, <3>2
  <2>3. ASSUME fragments = 1, NEW k \in 1..Len(air') PROVE air'[k].last
    <3>1. CASE k <= Len(air)
      BY <2>1, <2>3, <3>1 DEF Preceded
    <3>2. ASSUME NEW j \in 1..Len(t), k = Len(air) + j PROVE air'[k].last
      BY <1>4, <2>1, <2>3, <3>2 DEF Sent
    <3>. QED
      BY <2>2, <3>1, <3>2
  <2>4. ASSUME fragments = 2, NEW k \in 2..Len(air'), Completes(air'[k]) PROVE ~air'[k - 1].last
    <3>1. CASE k <= Len(air)
      <4>1. k \in 2..Len(air) /\ air'[k] = air[k] /\ air'[k - 1] = air[k - 1]
        BY <2>1, <3>1
      <4>. QED
        BY <2>4, <4>1 DEF Preceded
    <3>2. ASSUME NEW j \in 1..Len(t), k = Len(air) + j PROVE ~air'[k - 1].last
      <4>1. Completes(t[j])
        BY <2>1, <2>4, <3>2
      <4>2. j > 1 /\ ~t[j - 1].last
        BY <1>4, <2>4, <4>1 DEF Sent
      <4>3. j - 1 \in 1..Len(t) /\ k - 1 = Len(air) + (j - 1)
        BY <2>1, <3>2, <4>2
      <4>4. air'[k - 1] = t[j - 1]
        BY <2>1, <4>3
      <4>. QED
        BY <4>2, <4>4
    <3>. QED
      BY <2>1, <2>2, <3>1, <3>2
  <2>. QED
    BY <1>4, <2>3, <2>4 DEF Preceded, Completes
<1> QED
  BY <1>1, <1>2, <1>3, <1>4

(* What a step does to what is under way, and to the rest of what matters  *)
(* for the buffer; what client_read_cb does is apart.                      *)
LEMMA EnvironmentKept ==
    ASSUME IInv, [Next]_vars
    PROVE  fragments' = fragments /\ (Spoiled' = 0 => Spoiled = 0)
<1>1. Spoiled \in Nat
  BY SpoiledGrows
<1>2. fragments' = fragments
  BY DEF Next, vars, environment, Timer, ControllerInfo, forward_cmdu, client_read_cb, Discovery,
         Lose, Renew, Reconfig, Restart
<1>3. CASE spent' = spent
  BY <1>2, <1>3 DEF Spoiled
<1>4. ASSUME NEW d \in {"loss", "restart", "renew", "reconfig"}, Disturb(d)
      PROVE  Spoiled' = 0 => Spoiled = 0
  <2>1. Spoiled' = Spoiled + 1 \/ Spoiled' = Spoiled
    BY <1>4, SpoiledGrows
  <2> QED
    BY <1>1, <2>1
<1> QED
  BY <1>2, <1>3, <1>4
     DEF Next, vars, Timer, ControllerInfo, forward_cmdu, client_read_cb, Discovery,
         Lose, Renew, Reconfig, Restart

LEMMA AirMoves ==
    ASSUME IInv, [Next]_vars
    PROVE  \/ air' = air
           \/ air' = <<>> /\ Spoiled' # 0
           \/ air # <<>> /\ air' = Tail(air) /\ (client_read_cb \/ Spoiled' # 0)
           \/ \E t : Sent(t) /\ air' = air \o t
<1>1. CASE forward_cmdu
  <2>1. PICK m \in Request : m = Head(toMesh)
    BY <1>1, HeadTailProperties DEF forward_cmdu, IInv, Types
  <2>2. m # ControllerInfoReq /\ air' = air \o Answer(m)
    BY <1>1, <2>1 DEF forward_cmdu
  <2>3. Sent(Answer(m))
    BY <2>2, AnswerIsSent DEF IInv, Types
  <2>. QED
    BY <2>2, <2>3
<1>2. ASSUME NEW i \in Radio, Renew(i) PROVE \E t : Sent(t) /\ air' = air \o t
  <2>1. PICK f \in OfController : f = FromNetwork("RENEW", i, TRUE)
    BY FrameIsOfController
  <2>2. air' = Append(air, f) /\ air \in Seq(OfController)
    BY <1>2, <2>1 DEF Renew, IInv, Types
  <2>3. air' = air \o <<f>>
    BY <2>2
  <2>4. Sent(<<f>>)
    BY <2>1, RenewIsSent
  <2>. QED
    BY <2>3, <2>4
<1>3. CASE UNCHANGED vars \/ Timer \/ ControllerInfo \/ Reconfig \/ \E dev \in Device : Discovery(dev)
  BY <1>3 DEF vars, Timer, ControllerInfo, Reconfig, Discovery
<1>4. CASE client_read_cb
  BY <1>4 DEF client_read_cb
<1>5. CASE Lose
  <2>1. Spoiled' = Spoiled + 1 /\ Spoiled \in Nat
    BY <1>5, SpoiledGrows DEF Lose
  <2>. QED
    BY <1>5, <2>1 DEF Lose
<1>6. CASE Restart
  <2>1. Spoiled' = Spoiled + 1 /\ Spoiled \in Nat
    BY <1>6, SpoiledGrows DEF Restart
  <2>. QED
    BY <1>6, <2>1 DEF Restart
<1> QED
  BY <1>1, <1>2, <1>3, <1>4, <1>5, <1>6 DEF Next

(* No step but a frame received fills the buffer or configures a radio. *)
LEMMA OnlyFramesConfigure ==
    ASSUME IInv, [Next]_vars, ~client_read_cb
    PROVE  /\ m2buf' = m2buf
           /\ \A i \in Radio : conf_state'[i] = "CONFIGURED" => conf_state[i] = "CONFIGURED"
<1> USE DEF IInv, Types, ConfigStatus
<1>1. CASE Timer
  BY <1>1 DEF Timer, autoconf_search_timer_cb
<1>2. CASE ControllerInfo
  <2>1. CASE find_controller = Nobody
    BY <1>2, <2>1 DEF ControllerInfo, cfgmgr
  <2>2. CASE find_controller # Nobody
    BY <1>2, <2>2 DEF ControllerInfo, handle_priv_msg_from_mesh
  <2>. QED
    BY <2>1, <2>2
<1>3. CASE forward_cmdu
  BY <1>3, ForwardInvariant DEF cfgmgr
<1>4. CASE Reconfig
  BY <1>4 DEF Reconfig, handle_external_command
<1>5. CASE UNCHANGED vars \/ Lose \/ Restart
  BY <1>5 DEF vars, cfgmgr, Lose, Restart
<1>6. CASE (\E dev \in Device : Discovery(dev)) \/ (\E i \in Radio : Renew(i))
  BY <1>6 DEF cfgmgr, Discovery, Renew
<1> QED
  BY <1>1, <1>2, <1>3, <1>4, <1>5, <1>6 DEF Next

(* A frame received: one of an M2 that is not the last is put in the       *)
(* buffer, the last one configures what the buffer has with it if that     *)
(* begins with a header.                                                   *)
LEMMA M2Received ==
    ASSUME IInv, HeaderFirst, NEW f \in OfController, handle_packet(if_recv(f))
    PROVE  /\ Completes(f) =>
                /\ m2buf' = <<>>
                /\ m2buf # <<>> => conf_state'[f.band] = "CONFIGURED"
                /\ m2buf = <<>> => conf_state' = conf_state
           /\ f.type = "WSC" /\ ~f.last =>
                /\ m2buf' # <<>> /\ Head(m2buf').header
                /\ conf_state' = conf_state
           /\ f.type # "WSC" =>
                /\ m2buf' = m2buf
                /\ \A i \in Radio : conf_state'[i] = "CONFIGURED" => conf_state[i] = "CONFIGURED"
<1>1. if_recv(f).frame = f /\ if_recv(f).from = "NETWORK"
  BY DEF if_recv, cmdu_filter_func
<1>2. f.band \in Radio /\ f.last \in BOOLEAN /\ f.type \in {"RESPONSE", "RENEW", "WSC"}
  BY FrameOfController
<1>3. conf_state \in [Radio -> ConfigStatus]
  BY DEF IInv, Types
<1>4. CASE f.type = "WSC"
  <2>1. handle_autoconfiguration_wsc(f)
    BY <1>1, <1>4 DEF handle_packet
  <2>2. PICK part : part = [band |-> f.band, header |-> m2buf = <<>> /\ ~f.last]
    OBVIOUS
  <2>3. part.band = f.band /\ (part.header <=> m2buf = <<>> /\ ~f.last)
    BY <2>2
  <2>4. PICK buffer : buffer = Append(m2buf, part)
    OBVIOUS
  <2>5. PICK P : m2buf \in Seq(P) /\ part \in P
    <3>1. PICK A : A = [band : heard, header : BOOLEAN]
      OBVIOUS
    <3>2. m2buf \in Seq(A)
      BY <3>1 DEF IInv, BufferHeard
    <3>3. PICK B : B = A \cup {part}
      OBVIOUS
    <3>4. m2buf \in Seq(B) /\ part \in B
      BY <3>2, <3>3
    <3>. QED
      BY <3>4
  <2>6. /\ buffer # <<>> /\ Len(buffer) \in DOMAIN buffer /\ buffer[Len(buffer)] = part
        /\ m2buf # <<>> => Head(buffer) = Head(m2buf)
        /\ m2buf = <<>> => Head(buffer) = part
    BY <2>4, <2>5
  <2>7. CASE f.last
    <3>1. m2buf' = <<>> /\ parse_autoconfiguration_wsc(buffer)
      BY <2>1, <2>2, <2>4, <2>7 DEF handle_autoconfiguration_wsc
    <3>2. ASSUME m2buf # <<>> PROVE conf_state'[f.band] = "CONFIGURED"
      <4>1. Head(buffer).header
        BY <2>6, <3>2 DEF HeaderFirst
      <4>2. \E k \in DOMAIN buffer : buffer[k].band = f.band
        BY <2>3, <2>6
      <4>. QED
        BY <1>2, <3>1, <4>1, <4>2 DEF parse_autoconfiguration_wsc
    <3>3. ASSUME m2buf = <<>> PROVE conf_state' = conf_state
      <4>1. ~Head(buffer).header
        BY <2>3, <2>6, <2>7, <3>3
      <4>2. conf_state' = [i \in Radio |-> conf_state[i]]
        BY <3>1, <4>1 DEF parse_autoconfiguration_wsc
      <4>. QED
        BY <1>3, <4>2
    <3>. QED
      BY <1>4, <2>7, <3>1, <3>2, <3>3 DEF Completes
  <2>8. CASE ~f.last
    <3>1. m2buf' = buffer /\ conf_state' = conf_state
      BY <2>1, <2>2, <2>4, <2>8 DEF handle_autoconfiguration_wsc
    <3>2. Head(buffer).header
      BY <2>3, <2>6, <2>8 DEF HeaderFirst
    <3>. QED
      BY <1>4, <2>6, <2>8, <3>1, <3>2 DEF Completes
  <2>. QED
    BY <1>2, <2>7, <2>8
<1>5. CASE f.type = "RESPONSE"
  <2>1. conf_state' = [conf_state EXCEPT ![f.band] = "SEND_M1"] /\ m2buf' = m2buf
    BY <1>1, <1>5 DEF handle_packet, handle_autoconfiguration_response
  <2>. QED
    BY <1>2, <1>3, <1>5, <2>1 DEF Completes
<1>6. CASE f.type = "RENEW"
  <2>1. UNCHANGED cfgmgr
    BY <1>1, <1>6 DEF handle_packet
  <2>. QED
    BY <1>6, <2>1 DEF cfgmgr, Completes
<1> QED
  BY <1>2, <1>4, <1>5, <1>6

LEMMA M2Step ==
    ASSUME IInv, M2Inv, [Next]_vars
    PROVE  M2Inv'
<1>1. /\ air \in Seq(OfController) /\ Len(air) \in Nat
      /\ HeaderFirst /\ Preceded /\ FirstKept /\ SingleNeverConfigures
      /\ fragments = 1 => m2buf = <<>>
  BY DEF IInv, Types, M2Inv
<1>2. fragments' = fragments /\ (Spoiled' = 0 => Spoiled = 0)
  BY EnvironmentKept
<1>3. \/ air' = air
      \/ air' = <<>> /\ Spoiled' # 0
      \/ air # <<>> /\ air' = Tail(air) /\ (client_read_cb \/ Spoiled' # 0)
      \/ \E t : Sent(t) /\ air' = air \o t
  BY AirMoves
<1>4. Preceded'
  BY <1>1, <1>2, <1>3, PrecededKept
<1>5. CASE ~client_read_cb
  <2>1. /\ m2buf' = m2buf
        /\ \A i \in Radio : conf_state'[i] = "CONFIGURED" => conf_state[i] = "CONFIGURED"
    BY <1>5, OnlyFramesConfigure
  <2>2. HeaderFirst' /\ SingleNeverConfigures' /\ (fragments' = 1 => m2buf' = <<>>)
    BY <1>1, <1>2, <2>1 DEF HeaderFirst, SingleNeverConfigures
  <2>3. ASSUME fragments = 2, Spoiled' = 0, LastIsNext(air') PROVE m2buf' # <<>>
    <3>1. CASE air' = air
      BY <1>1, <1>2, <2>1, <2>3, <3>1 DEF FirstKept
    <3>2. ASSUME NEW t, Sent(t), air' = air \o t PROVE m2buf' # <<>>
      <4>1. t \in Seq(OfController)
        BY <3>2 DEF Sent
      <4>2. CASE air # <<>>
        <5>1. Head(air') = Head(air)
          BY <1>1, <3>2, <4>1, <4>2
        <5>2. LastIsNext(air)
          BY <2>3, <4>2, <5>1 DEF LastIsNext
        <5>. QED
          BY <1>1, <1>2, <2>1, <2>3, <5>2 DEF FirstKept
      <4>3. CASE air = <<>>
        <5>1. air' = t /\ t # <<>>
          BY <2>3, <3>2, <4>1, <4>3 DEF LastIsNext
        <5>2. 1 \in 1..Len(t) /\ Head(t) = t[1]
          BY <4>1, <5>1
        <5>3. ~Completes(t[1])
          BY <2>3, <3>2, <5>2 DEF Sent
        <5>. QED
          BY <2>3, <5>1, <5>2, <5>3 DEF LastIsNext, Completes
      <4>. QED
        BY <4>2, <4>3
    <3>. QED
      BY <1>3, <1>5, <2>3, <3>1, <3>2
  <2>4. FirstKept'
    BY <1>2, <2>3 DEF FirstKept
  <2>. QED
    BY <1>4, <2>2, <2>4 DEF M2Inv
<1>6. CASE client_read_cb
  <2>1. air # <<>> /\ air' = Tail(air)
    BY <1>6 DEF client_read_cb
  <2>2. PICK f \in OfController : f = Head(air)
    BY <1>1, <2>1, HeadTailProperties
  <2>3. handle_packet(if_recv(f)) /\ f = air[1] /\ 1 \in 1..Len(air)
    BY <1>1, <1>6, <2>1, <2>2 DEF client_read_cb
  <2>4. /\ Completes(f) =>
             /\ m2buf' = <<>>
             /\ m2buf = <<>> => conf_state' = conf_state
        /\ f.type = "WSC" /\ ~f.last =>
             /\ m2buf' # <<>> /\ Head(m2buf').header
             /\ conf_state' = conf_state
        /\ f.type # "WSC" =>
             /\ m2buf' = m2buf
             /\ \A i \in Radio : conf_state'[i] = "CONFIGURED" => conf_state[i] = "CONFIGURED"
    BY <1>1, <2>3, M2Received
  <2>5. /\ Completes(f) <=> f.type = "WSC" /\ f.last
        /\ fragments = 1 => f.last
    BY <1>1, <2>3 DEF Completes, Preceded
  <2>6. HeaderFirst'
    BY <1>1, <2>4, <2>5 DEF HeaderFirst
  <2>7. SingleNeverConfigures' /\ (fragments' = 1 => m2buf' = <<>>)
    BY <1>1, <1>2, <2>4, <2>5 DEF SingleNeverConfigures
  <2>8. ASSUME fragments = 2, LastIsNext(air') PROVE m2buf' # <<>>
    <3>1. Len(air) >= 2 /\ Head(air') = air[2]
      BY <1>1, <2>1, <2>8 DEF LastIsNext
    <3>2. Completes(air[2]) /\ 2 \in 2..Len(air)
      BY <1>1, <2>8, <3>1 DEF LastIsNext, Completes
    <3>3. ~air[2 - 1].last
      BY <1>1, <2>8, <3>2 DEF Preceded
    <3>4. ~f.last
      BY <2>3, <3>3
    <3>5. f.type = "WSC"
      BY <3>4 DEF OfController
    <3>. QED
      BY <2>4, <3>4, <3>5
  <2>9. FirstKept'
    BY <1>2, <2>8 DEF FirstKept
  <2>. QED
    BY <1>4, <2>6, <2>7, <2>9 DEF M2Inv
<1> QED
  BY <1>5, <1>6

LEMMA M2Invariant == Spec => []M2Inv
<1>1. Init => M2Inv
  BY DEF Init, CfgMgrInit, M2Inv, HeaderFirst, Preceded, FirstKept, LastIsNext,
         SingleNeverConfigures
<1>2. IInv /\ M2Inv /\ [Next]_vars => M2Inv'
  BY M2Step
<1> QED
  BY <1>1, <1>2, Invariant, PTL DEF Spec

(* The code flaw EventuallyConfigured is stated around, for any network:   *)
(* whatever is sent, late or repeated, and however often the user asks, a  *)
(* controller whose M2 fits in one fragment configures nothing             *)
(* (cfg_mgr.c, handle_autoconfiguration_wsc).                              *)
THEOREM OneFragmentInVain == Spec => []SingleNeverConfigures
BY M2Invariant, PTL DEF M2Inv

(* The last fragment of an M2 configures its radio if an earlier one is in *)
(* the buffer, its own or one that was left there, and so it does when all *)
(* M2s have two fragments and none was lost.                               *)
WholeConfigures ==
    client_read_cb /\ LastIsNext(air) /\ (m2buf # <<>> \/ (fragments = 2 /\ Spoiled = 0)) =>
        conf_state'[Head(air).band] = "CONFIGURED"

(* What EventuallyConfigured needs of the handlers: an M2 that arrives     *)
(* configures its radio, in whatever order the answers for the two radios  *)
(* come, with RESPONSEs and RENEWs between them and the manager's own M1s  *)
(* beside them.                                                            *)
THEOREM M2Configures == Spec => [][WholeConfigures]_vars
<1>1. ASSUME IInv, M2Inv PROVE WholeConfigures
  <2>1. ASSUME client_read_cb, LastIsNext(air), m2buf # <<>> \/ (fragments = 2 /\ Spoiled = 0)
        PROVE  conf_state'[Head(air).band] = "CONFIGURED"
    <3>1. m2buf # <<>>
      BY <1>1, <2>1 DEF M2Inv, FirstKept
    <3>2. PICK f \in OfController : f = Head(air)
      BY <1>1, <2>1, HeadTailProperties DEF client_read_cb, IInv, Types
    <3>3. handle_packet(if_recv(f)) /\ Completes(f)
      BY <2>1, <3>2 DEF client_read_cb, LastIsNext, Completes
    <3>. QED
      BY <1>1, <3>1, <3>2, <3>3, M2Received DEF M2Inv
  <2>. QED
    BY <2>1 DEF WholeConfigures
<1>2. IInv /\ M2Inv /\ [Next]_vars => [WholeConfigures]_vars
  BY <1>1
<1> QED
  BY <1>2, Invariant, M2Invariant, PTL DEF Spec
=============================================================================
