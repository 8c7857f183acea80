------------------------------ MODULE AutoConf ------------------------------
(***************************************************************************)
(* Auto-configuration: the configuration manager of CfgMgr, the mesh agent *)
(* (agent/main.c, core.c, cmdu.c) and the controller it talks to over the  *)
(* network.                                                                *)
(*                                                                         *)
(* The bus between the two programs delivers in order and loses nothing.   *)
(* What the agent sends the manager is handled in the step that sends it:  *)
(* a delay on the way is one before the agent's step, since all the agent  *)
(* does for the manager goes the same way.  Packets of the controller may  *)
(* be late or lost.  Other devices announce themselves as it does, and     *)
(* answer nothing.                                                         *)
(***************************************************************************)
EXTENDS CfgMgr, Agent

CONSTANTS
    Controller,     \* the device that is the controller
    Fragments,      \* numbers of fragments the controller may send an M2 in
    MaxMesh,        \* bound: messages to the agent under way after a timer pass
    MaxAir,         \* bound: frames of the controller under way
    MaxSpent        \* bound: disturbances, of one kind or several

ASSUME AutoConfAssumption ==
    /\ Controller \in Device \ {Self}
    /\ Fragments \subseteq 1..2 /\ Fragments # {}
    /\ {MaxMesh, MaxAir, MaxSpent} \subseteq Nat

VARIABLES
    toMesh,     \* messages of the manager the agent has not handled yet
    air,        \* frames of the controller under way
    heard,      \* history: the radios an M2 was received for
    spent,      \* how many disturbances of each kind there were
    prompt,     \* answers arrive before the timer runs again (never changes)
    fragments   \* the controller's number of fragments (never changes)

(* What may happen beside: a packet is lost, the controller sends a RENEW, *)
(* the user gives a command, the agent is started anew.                    *)
Disturbance == {"loss", "renew", "reconfig", "restart"}

AllSpent == spent["loss"] + spent["renew"] + spent["reconfig"] + spent["restart"]

environment == <<prompt, fragments>>
vars == <<cfgmgr, nbr_1905, toMesh, air, heard, spent, environment>>

TypeOK ==
    /\ conf_state \in [Radio -> ConfigStatus]
    /\ m2buf \in Seq([band : Radio, header : BOOLEAN])
    /\ Len(m2buf) <= 1 + spent["loss"] + spent["restart"]
    /\ bh_almac \in Device \cup {Nobody}
    /\ ToSet(toMesh) \subseteq Request
    /\ air \in Seq(Frame) /\ Len(air) <= MaxAir
    /\ ToSet(nbr_1905) \subseteq Device \ {Self} /\ IsInjective(nbr_1905)
    /\ heard \subseteq Radio
    /\ spent \in [Disturbance -> Nat] /\ AllSpent <= MaxSpent
    /\ prompt \in BOOLEAN /\ fragments \in Fragments

-----------------------------------------------------------------------------

Init ==
    /\ CfgMgrInit
    /\ toMesh = <<>>
    /\ AgentInit
    /\ air = <<>>
    /\ heard = {}
    /\ spent = [d \in Disturbance |-> 0]
    /\ prompt \in BOOLEAN
    /\ fragments \in Fragments

(* The manager's timer. *)
Timer ==
    /\ prompt => toMesh = <<>> /\ air = <<>>
    /\ Len(toMesh) + 2 <= MaxMesh
    /\ autoconf_search_timer_cb
    /\ toMesh' = toMesh \o autoconf_search_sends
    /\ UNCHANGED <<nbr_1905, air, heard, spent, environment>>

(* The agent answers CONTROLLER_INFO_REQ when it knows a controller. *)
ControllerInfo ==
    /\ toMesh # <<>> /\ Head(toMesh) = ControllerInfoReq
    /\ IF find_controller # Nobody
       THEN handle_priv_msg_from_mesh(find_controller)
       ELSE UNCHANGED cfgmgr
    /\ toMesh' = Tail(toMesh)
    /\ UNCHANGED <<nbr_1905, air, heard, spent, environment>>

FromNetwork(type, i, last) ==
    [type |-> type, band |-> i, src |-> Controller, last |-> last]

(* What the device a SEARCH or an M1 is for sends: the controller answers. *)
Answer(m) ==
    LET m2(last) == FromNetwork("WSC", m.band, last)
    IN  IF m.dest # Controller THEN <<>>
        ELSE IF m.type = "SEARCH" THEN <<FromNetwork("RESPONSE", m.band, TRUE)>>
        ELSE IF fragments = 1 THEN <<m2(TRUE)>> ELSE <<m2(FALSE), m2(TRUE)>>

(* The agent sends a packet of the manager to the network; the filter on   *)
(* its interface publishes it on the way.                                  *)
forward_cmdu ==
    /\ toMesh # <<>> /\ Head(toMesh) # ControllerInfoReq
    /\ LET m == Head(toMesh)
       IN  /\ Len(air \o Answer(m)) <= MaxAir
           /\ air' = air \o Answer(m)
           /\ handle_packet(if_send(m))
    /\ toMesh' = Tail(toMesh)
    /\ UNCHANGED <<nbr_1905, heard, spent, environment>>

(* The agent receives a packet; the filter publishes it. *)
client_read_cb ==
    /\ air # <<>>
    /\ LET frame == Head(air)
       IN  /\ handle_packet(if_recv(frame))
           /\ toMesh' = toMesh \o handle_packet_sends(if_recv(frame))
           /\ heard' = IF frame.type = "WSC" THEN heard \cup {frame.band} ELSE heard
    /\ air' = Tail(air)
    /\ UNCHANGED <<nbr_1905, spent, environment>>

(* A topology discovery of a device is received. *)
Discovery(dev) ==
    /\ cmdu_handle_discovery(dev)
    /\ UNCHANGED <<cfgmgr, toMesh, air, heard, spent, environment>>

Disturb(d) ==
    /\ AllSpent < MaxSpent
    /\ spent' = [spent EXCEPT ![d] = @ + 1]

Lose ==
    /\ air # <<>> /\ Disturb("loss")
    /\ air' = Tail(air)
    /\ UNCHANGED <<cfgmgr, toMesh, nbr_1905, heard, environment>>

Renew(i) ==
    /\ Disturb("renew") /\ Len(air) < MaxAir
    /\ air' = Append(air, FromNetwork("RENEW", i, TRUE))
    /\ UNCHANGED <<cfgmgr, toMesh, nbr_1905, heard, environment>>

(* The user's command, sent with mbus_cli. *)
Reconfig ==
    /\ Disturb("reconfig")
    /\ handle_external_command
    /\ UNCHANGED <<toMesh, nbr_1905, air, heard, environment>>

(* The agent ends and is started again: it knows nobody, what the manager  *)
(* sent it is gone, and what arrived meanwhile may be.  What it takes to   *)
(* be a member of the bus again is left to BusSystem.                      *)
Restart ==
    /\ Disturb("restart")
    /\ nbr_1905' = <<>>
    /\ toMesh' = <<>>
    /\ air' \in {air, <<>>}
    /\ UNCHANGED <<cfgmgr, heard, environment>>

Next ==
    \/ Timer \/ Reconfig \/ Restart
    \/ ControllerInfo \/ forward_cmdu \/ client_read_cb
    \/ \E dev \in Device : Discovery(dev)
    \/ Lose \/ \E i \in Radio : Renew(i)

(* Both event loops go on, the controller announces itself every few       *)
(* seconds, and what is not lost arrives.                                  *)
Fairness ==
    /\ WF_vars(Timer)
    /\ WF_vars(ControllerInfo) /\ WF_vars(forward_cmdu)
    /\ WF_vars(client_read_cb) /\ WF_vars(Discovery(Controller))

Spec == Init /\ [][Next]_vars /\ Fairness

-----------------------------------------------------------------------------

(* A radio is configured by the controller only: the manager's own M1s,    *)
(* which are of the same type and come back from the agent, do not pass    *)
(* for M2s, and an M2 of one radio does not configure the other.           *)
ConfiguredByController ==
    \A i \in Radio : conf_state[i] = "CONFIGURED" => i \in heard

(* A configured radio stays so, whatever is late or comes twice, until the *)
(* user wants it configured anew or a RESPONSE to an earlier search comes  *)
(* after the M2.                                                           *)
UndoneByResponseOnly ==
    [][\A i \in Radio :
          conf_state[i] = "CONFIGURED" /\ conf_state'[i] # "CONFIGURED" =>
            \/ spent'["reconfig"] > spent["reconfig"]
            \/ /\ air # <<>> /\ air' = Tail(air)
               /\ Head(air) = FromNetwork("RESPONSE", i, TRUE)]_vars

AllConfigured == \A i \in Radio : conf_state[i] = "CONFIGURED"

(* No radio is given up: as long as one is not configured, the manager     *)
(* asks the agent for something, although answers are late or lost.        *)
KeepsTrying == ~AllConfigured ~> (toMesh # <<>> \/ AllConfigured)

(* The manager stays with the controller it was told of, whoever announces *)
(* itself later, unless the agent starts anew.                             *)
KeepsController ==
    [][spent["restart"] = 0 /\ bh_almac # Nobody => bh_almac' = bh_almac]_vars

(* The neighbour that the agent takes for the controller is another device. *)
Misled == find_controller \notin {Nobody, Self, Controller}

(* Both radios are configured in the end, and stay so, after up to         *)
(* MaxSpent lost packets, RENEWs, commands and restarts, of one kind or of *)
(* several, at any time, when the answers that come are not later than the *)
(* next pass of the timer, the controller sends M2 in several fragments,   *)
(* and it is the first device to announce itself.  An M2 of one fragment   *)
(* is parsed without its header, and configures none; the first neighbour  *)
(* is taken for the controller, and if it is not it never answers.         *)
EventuallyConfigured == prompt /\ fragments = 2 => <>[]AllConfigured \/ <>Misled
=============================================================================
