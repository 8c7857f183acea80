---------------------------- MODULE MCBusSystem -----------------------------
(***************************************************************************)
(* The bus, an agent and mbus_cli on a small instance.  The command lines  *)
(* take the branches of msg_timer_callback: the mesh group and a peer, a   *)
(* peer alone (as when a RENEW or a new configuration is asked for), a     *)
(* group but no text, and no name.                                         *)
(***************************************************************************)
EXTENDS BusSystem, TLC

CONSTANTS agent, cli, umesh, ucli, other

Names == (agent :> umesh) @@ (cli :> ucli)

ToMeshAndPeer == [u |-> TRUE, g |-> Mesh, p |-> umesh, m |-> TRUE]
ToPeerOnly == [ToMeshAndPeer EXCEPT !.g = NotGiven]
WithoutText == [u |-> TRUE, g |-> other, p |-> NotGiven, m |-> FALSE]
WithoutName == [ToMeshAndPeer EXCEPT !.u = FALSE]

CommandLines == {ToMeshAndPeer, ToPeerOnly, WithoutText, WithoutName}
=============================================================================
