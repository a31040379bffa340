--------------------------- MODULE MCPortScanner ----------------------------
(* Five port numbers and two workers per batch: ranges of one, one full,   *)
(* two full and an incomplete batch, every set of listening ports.  Three  *)
(* threads are enough for a range scan and one too few for the common one, *)
(* so that std::async throws in some of the common scans.                  *)
EXTENDS PortScanner
MCCommonPorts == <<1, 2, 4, 5>>
MCFewPorts == <<1, 2>>
=============================================================================
