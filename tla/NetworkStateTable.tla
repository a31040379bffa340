------------------------- MODULE NetworkStateTable --------------------------
(***************************************************************************)
(* What the engine's store promises to the commands: three maps whose      *)
(* entries are created or replaced one key at a time and dropped only all  *)
(* together.  Nothing is said of vectors, scans or order.                  *)
(***************************************************************************)
CONSTANTS IPs, PortNumbers, ServiceNames

VARIABLES hostOf, portOf, serviceOf
vars == <<hostOf, portOf, serviceOf>>

Empty == [k \in {} |-> k]

(* The map f with key k bound to v.                                        *)
Bind(f, k, v) ==
  [x \in DOMAIN f \cup {k} |-> IF x = k THEN v ELSE f[x]]

PutHost(ip, online) ==
  /\ hostOf' = Bind(hostOf, ip, [ip |-> ip, online |-> online])
  /\ UNCHANGED <<portOf, serviceOf>>

PutPort(ip, n, open) ==
  /\ portOf' = Bind(portOf, <<ip, n>>, [port |-> n, open |-> open])
  /\ UNCHANGED <<hostOf, serviceOf>>

PutService(ip, n, name) ==
  /\ serviceOf' =
       Bind(serviceOf, <<ip, n>>, [ip |-> ip, port |-> n, service |-> name])
  /\ UNCHANGED <<hostOf, portOf>>

DropAll ==
  /\ hostOf' = Empty
  /\ portOf' = Empty
  /\ serviceOf' = Empty

Init ==
  /\ hostOf = Empty
  /\ portOf = Empty
  /\ serviceOf = Empty

Next ==
  \/ \E ip \in IPs, online \in BOOLEAN : PutHost(ip, online)
  \/ \E ip \in IPs, n \in PortNumbers, open \in BOOLEAN : PutPort(ip, n, open)
  \/ \E ip \in IPs, n \in PortNumbers, name \in ServiceNames :
       PutService(ip, n, name)
  \/ DropAll

Spec == Init /\ [][Next]_vars
=============================================================================
