------------------------------ MODULE MCUsbCdc ------------------------------
(* Three requests: one packet, three packets, one short packet.  A unit is *)
(* 32 bytes, so that a full packet has two; the buffer holds three full    *)
(* packets, and requests that run together overflow it.                    *)
EXTENDS UsbCdc

MCRequests == << <<2>>, <<2, 2, 1>>, <<1>> >>

MCWorlds ==
  {{}, {"nested"}, {"hasty"}, {"rude", "slow"}, {"deaf"}, {"coding"},
   {"sleep"}, {"unplug"}, {"unplug", "deaf"}}

MCNested == {{"nested"}}
=============================================================================
