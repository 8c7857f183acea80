-------------------------------- MODULE Cmdu --------------------------------
(***************************************************************************)
(* The IEEE 1905 devices on the network and the packets that the mesh      *)
(* agent and the configuration manager tell apart (include/msg.h).         *)
(***************************************************************************)
EXTENDS Naturals, SequencesExt

CONSTANTS
    Device,     \* AL MAC addresses of the devices
    Nobody      \* the address of zeros

ASSUME DeviceAssumption == Nobody \notin Device

(* The radios of the access point: radio 0 has the band 2.4 GHz, 1 5 GHz.  *)
Radio == 0..1

(* A frame of device src, of the band of a radio, the last fragment or not. *)
Frame == [type : {"RESPONSE", "RENEW", "SEARCH", "WSC"}, band : Radio, src : Device,
          last : BOOLEAN]

(* What the manager sends the agent: its own request, or a packet that is  *)
(* to go to a device.                                                      *)
ControllerInfoReq == [type |-> "REQ", band |-> 0, dest |-> Nobody]
Request == {ControllerInfoReq} \cup
           [type : {"SEARCH", "WSC"}, band : Radio, dest : Device \cup {Nobody}]
=============================================================================
