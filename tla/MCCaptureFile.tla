--------------------------- MODULE MCCaptureFile ---------------------------
(* Two packets and numbers in base 2: the id 2 has two digits, so a file   *)
(* cut inside it reads as a second packet 1.                               *)
EXTENDS CaptureFile

CONSTANTS c1

MCNames == {c1}
MCLengths == {2}
MCProtocols == {"TCP", "ARP"}

=============================================================================
