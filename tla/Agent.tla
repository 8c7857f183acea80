-------------------------------- MODULE Agent -------------------------------
(***************************************************************************)
(* The mesh agent's knowledge of the network: core.c and cmdu.c of agent/. *)
(* A device is a neighbour once a topology discovery of it was received on *)
(* the interface, and remains one.  AutoConf composes the handlers with    *)
(* the manager and the network.                                            *)
(*                                                                         *)
(* The program has one interface and one address for all access points     *)
(* (main.c:237), so that a discovery may carry the agent's own address.    *)
(* What the agent answers to queries of topology and capabilities changes  *)
(* nothing that it keeps, and the manager ignores it.                      *)
(***************************************************************************)
EXTENDS Cmdu

CONSTANT Self       \* interface->al_addr

ASSUME SelfAssumption == Self \in Device

VARIABLE nbr_1905   \* the neighbours, in the order of the list

AgentInit == nbr_1905 = <<>>

search_1905_nbr(dev) == dev \in ToSet(nbr_1905)

add_1905_nbr_AtHead(dev) == nbr_1905' = <<dev>> \o nbr_1905

add_1905_nbr(dev) == nbr_1905' = Append(nbr_1905, dev)

(* Every neighbour is taken to be a controller: the first one is found. *)
find_controller == IF nbr_1905 = <<>> THEN Nobody ELSE Head(nbr_1905)

(* What the filter on the interface publishes on the bus of a frame it     *)
(* sends or receives.                                                      *)
cmdu_filter_func(op, frame) ==
    [frame |-> frame, from |-> IF op = "IF_SEND" THEN "LOCAL" ELSE "NETWORK"]

(* What the agent publishes when it sends a request of the manager, and    *)
(* when it receives a frame.                                               *)
if_send(m) ==
    cmdu_filter_func("IF_SEND", [type |-> m.type, band |-> m.band, src |-> Self, last |-> TRUE])

if_recv(frame) == cmdu_filter_func("IF_RECV", frame)

cmdu_handle_discovery_OfSelf(dev) ==
    IF search_1905_nbr(dev) THEN UNCHANGED nbr_1905 ELSE add_1905_nbr(dev)

(* cmdu_handle for a topology discovery. *)
cmdu_handle_discovery(dev) ==
    IF dev = Self \/ search_1905_nbr(dev) THEN UNCHANGED nbr_1905 ELSE add_1905_nbr(dev)
=============================================================================
