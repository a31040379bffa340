-------------------------- MODULE MCPacketCapture --------------------------
(* Frames that a filter may ask for and frames that none can.              *)
EXTENDS PacketCapture

MCKinds == {"TCP", "ARP"}

=============================================================================
