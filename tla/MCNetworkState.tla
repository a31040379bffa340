--------------------------- MODULE MCNetworkState ---------------------------
(* Two hosts, two ports and two service names: every key can be inserted   *)
(* first, second, again with the other payload, and after a clear.  The    *)
(* three sets hold plain names and no property is a liveness property, so  *)
(* permuting them is a sound symmetry.  No operation reads one vector to   *)
(* write another, so runs are cut where the three hold over MaxEntries.    *)
EXTENDS NetworkState, TLC
CONSTANTS h1, h2, p1, p2, ssh, http, MaxEntries

MCIPs          == {h1, h2}
MCPortNumbers  == {p1, p2}
MCServiceNames == {ssh, http}
MCSymmetry     == Permutations(MCIPs) \cup Permutations(MCPortNumbers)
                    \cup Permutations(MCServiceNames)
MCBound        == Len(hosts) + Len(host_ports) + Len(services) <= MaxEntries
=============================================================================
