------------------------- MODULE MCNetworkDiscovery -------------------------
(* Five addresses in batches of two: two full batches and a last one of a  *)
(* single address.  Every subset of the addresses answers, and the store   *)
(* starts empty or with a host and a port of an earlier session.           *)
EXTENDS NetworkDiscovery
MCIPs          == 1..5
MCAddresses    == [s \in 1..5 |-> s]
MCPortNumbers  == {22}
MCServiceNames == {"ssh"}
=============================================================================
