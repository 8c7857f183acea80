----------------------------- MODULE MCTlvCodec -----------------------------
EXTENDS TlvCodec

(* In 1905 and bus messages an M2 and the supported services, in WSC       *)
(* attributes the version and the RF bands.                                *)
MCTypes == <<{17, 128}, {4106, 4156}>>

MCValues == {<<>>, <<1, 2>>}
=============================================================================
