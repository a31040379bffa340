--------------------------- MODULE CommandHandler ---------------------------
(***************************************************************************)
(* A session: the commands of CommandHandler that read and write the       *)
(* shared store, in any order and with any arguments a user may give.      *)
(* One thread executes them, one at a time, so a command is one step here. *)
(* What a discovery and a scan deliver is what the modules                 *)
(* NetworkDiscovery and PortScanner establish of them; what the detectors, *)
(* checkers and the mapper compute is in the modules of their names.       *)
(***************************************************************************)
EXTENDS NetworkState, ServiceDetector, SecurityDetector, VulnerabilityScanner,
        CredentialChecker, TopologyMapper, FiniteSetsExt, Functions

CONSTANTS
  addresses,   (* the local /24 that ip|:seek walks, ascending             *)
  Scannable,   (* bound of the model: Scannable[ip], the ports scans of ip *)
               (* may contain, ascending                                   *)
  Locals       (* the local sides topo|:map may meet: interfaces and route *)

ASSUME SessionAssumption ==
  /\ PortNumbers \subseteq Anywhere
  /\ DetectedNames \subseteq ServiceNames
  /\ addresses \in Seq(IPs)
  /\ IsInjective(addresses)
  /\ Scannable \in [IPs -> Seq(PortNumbers)]
  /\ \A ip \in IPs : \A i, j \in DOMAIN Scannable[ip] :
       i < j => Scannable[ip][i] < Scannable[ip][j]
  /\ NoAddress \notin IPs

(* The source address of the route to the Internet is one of an interface  *)
(* that is up: the kernel takes it from there.                             *)
ASSUME LocalsAssumption ==
  \A side \in Locals :
    /\ side.interfaces \in Seq([name : STRING, address : STRING, up : BOOLEAN])
    /\ side.route.localAddress # NoAddress =>
         \E i \in DOMAIN side.interfaces :
           side.interfaces[i].up /\ side.interfaces[i].address = side.route.localAddress

VARIABLES
  observed,    (* history: (address, port) |-> the answer of its last scan *)
               (* since the store was cleared                              *)
  identified   (* history: (address, port) |-> the name svc|:detect gave   *)
               (* it last                                                  *)

sessionVars == <<storeVars, observed, identified>>

Init == StoreInit /\ observed = <<>> /\ identified = <<>>

-----------------------------------------------------------------------------
(* The commands that write the store.                                      *)

(* Fault: every stored port is probed.                                     *)
AllPorts(ports) == ports

(* The open ports in a vector of ports, in its order.                      *)
OpenPorts(ports) == Selected(ports, {i \in DOMAIN ports : ports[i].open})

AddingHosts == INSTANCE VectorLoop WITH Step <- HostAdded

(* ip|:seek: the store is cleared; a discovery that succeeds then adds the *)
(* hosts it found, in the order of their addresses.                        *)
handleIpSeek ==
  /\ \E found \in SUBSET DOMAIN addresses :
       LET online == Selected(addresses, found)
       IN  hosts' = AddingHosts!Run(<<>>,
                      [k \in DOMAIN online |-> [ip |-> online[k], online |-> TRUE]])
  /\ host_ports' = <<>>
  /\ services' = <<>>
  /\ observed' = <<>> /\ identified' = <<>>

(* One result of a scan, and one detected service, into the store.         *)
ResultAdded(hps, result) ==
  PortAdded(hps, result.ip, [port |-> result.port, open |-> result.open])
AddingResults == INSTANCE VectorLoop WITH Step <- ResultAdded
AddingServices == INSTANCE VectorLoop WITH Step <- ServiceAdded

(* A history with the latest answers in it.                                *)
Renewed(history, latest) ==
  [key \in DOMAIN history \cup DOMAIN latest |->
     IF key \in DOMAIN latest THEN latest[key] ELSE history[key]]

(* port|:scan <host> [range]: every result is stored, open or not.  The    *)
(* host need not be one that was discovered.  The results are those of     *)
(* some ports in ascending order: the ports of a range, which lie together,*)
(* or the common ones, which do not, and of an interrupted scan only the   *)
(* first (of none, nothing changes).                                       *)
handlePortScan(host) ==
  \E planned \in SUBSET DOMAIN Scannable[host] :
    LET scanned == Selected(Scannable[host], planned) IN
    \E open \in SUBSET Range(scanned) :
      LET results == [k \in DOMAIN scanned |->
                       [ip |-> host, port |-> scanned[k], open |-> scanned[k] \in open]]
      IN  /\ host_ports' = AddingResults!Run(host_ports, results)
          /\ observed' =
               Renewed(observed, [key \in {host} \X Range(scanned) |-> key[2] \in open])
          /\ UNCHANGED <<hosts, services, identified>>

(* ServiceDetector::detect on a vector of ports: one answer each.          *)
detect(host, ports, answer) ==
  LET detected == Selected(ports,
                    {i \in DOMAIN ports : Detected(ports[i].port, answer[ports[i].port])})
  IN  [k \in DOMAIN detected |->
         [ip |-> host, port |-> detected[k].port,
          service |-> identify(detected[k].port, answer[detected[k].port])]]

(* svc|:detect <host>: only for a host with stored ports, and only its     *)
(* open ones are probed; the services detected are stored.  A port that    *)
(* is not detected any more keeps the service it had.                      *)
handleServiceDetect(host) ==
  LET openPorts == OpenPorts(getPorts(host)) IN
  /\ openPorts # <<>>
  /\ \E answer \in [{openPorts[k].port : k \in DOMAIN openPorts} -> probeAnswers] :
       LET found == detect(host, openPorts, answer)
       IN  /\ services' = AddingServices!Run(services, found)
           /\ identified' =
                Renewed(identified,
                  [key \in {<<host, found[k].port>> : k \in DOMAIN found} |->
                     identify(key[2], answer[key[2]])])
  /\ UNCHANGED <<hosts, host_ports, observed>>

(* net|:clear                                                              *)
handleNetworkClear == clear /\ observed' = <<>> /\ identified' = <<>>

Next ==
  \/ handleIpSeek
  \/ \E host \in IPs : handlePortScan(host) \/ handleServiceDetect(host)
  \/ handleNetworkClear
Spec == Init /\ [][Next]_sessionVars

-----------------------------------------------------------------------------
(* What the reading commands compute.                                      *)

(* Commands count ports as a sum over the discovered hosts, of a count     *)
(* that each host has.                                                     *)
overHosts(count) == Total([k \in DOMAIN hosts |-> count[hosts[k].ip]])
openPortCount == overHosts([ip \in IPs |-> Len(OpenPorts(getPorts(ip)))])

(* The rows of net|:show's table of open ports.                            *)
rowsOf(ip) ==
  LET open == OpenPorts(getPorts(ip)) IN [k \in DOMAIN open |-> <<ip, open[k].port>>]
openPortRows == Joined([k \in DOMAIN hosts |-> rowsOf(hosts[k].ip)])

(* session|:info                                                           *)
sessionInfo ==
  [hostCount |-> Len(hosts),
   discoveredPorts |-> overHosts([ip \in IPs |-> Len(getPorts(ip))]),
   openPorts |-> openPortCount,
   serviceCount |-> Len(services)]

(* sec|:detect for one discovered host.                                    *)
securityAlerts(ip) ==
  analyze(getPorts(ip), Selected(services, {i \in DOMAIN services : services[i].ip = ip}))

(* The hosts sec|:detect analyzes, for a target or -- NoAddress -- for     *)
(* all; a target that was not discovered is refused.                       *)
securityTargets(target) ==
  {hosts[k].ip : k \in {i \in DOMAIN hosts : target \in {NoAddress, hosts[i].ip}}}

(* The summary of sec|:detect.                                             *)
securitySummary(target) ==
  LET found == UNION {{ip} \X securityAlerts(ip) : ip \in securityTargets(target)}
      withSeverity(n) == Cardinality({f \in found : f[2].severity = n})
  IN  [hostsAnalyzed |-> Cardinality(securityTargets(target)),
       hostsWithFindings |-> Cardinality({f[1] : f \in found}),
       totalAlerts |-> Cardinality(found),
       highAlerts |-> withSeverity(HIGH_ALERT),
       mediumAlerts |-> withSeverity(MEDIUM_ALERT),
       lowAlerts |-> withSeverity(LOW_ALERT)]

(* The services vuln|:scan and cred|:check look at: all of the store, of   *)
(* discovered hosts and others, or those of the target.                    *)
serviceTargets(target) ==
  IF target = NoAddress THEN services
  ELSE Selected(services, {i \in DOMAIN services : services[i].ip = target})

handleVulnScan(target) == vulnerabilityScan(serviceTargets(target))
handleCredCheck(target) == credentialCheck(serviceTargets(target))

(* topo|:map: refused without a discovered host.                           *)
handleTopologyMap(side) == topologyMap(hosts, side.interfaces, side.route)

-----------------------------------------------------------------------------
(* The store keeps its types, and histories are of real ports.             *)
TypeOK ==
  /\ StoreTypeOK
  /\ DOMAIN observed \subseteq IPs \X PortNumbers
  /\ \A key \in DOMAIN observed : observed[key] \in BOOLEAN
  /\ DOMAIN identified \subseteq DOMAIN observed
  /\ \A key \in DOMAIN identified : identified[key] \in DetectedNames

(* The port tables hold, for every port ever scanned since the last clear  *)
(* and for no other, what its latest scan said -- over repeated, partial   *)
(* and overlapping scans, discoveries and clears.                          *)
LatestScanWins ==
  /\ portKeys = DOMAIN observed
  /\ \A key \in portKeys : portTable[key].open = observed[key]

(* What the user is told agrees with the latest scans: sec|:detect raises  *)
(* the port rules for exactly the ports of the host that were open when    *)
(* last scanned, flags exactly the services those scans contradict, and    *)
(* weighs the surface by their number; net|:show lists and session|:info   *)
(* counts each of them once, and the summary's number of severe findings   *)
(* is that of the severe ports and of the very large surfaces.             *)
ReportsFollowLatestScan ==
  LET open(ip) == {key[2] : key \in {k \in DOMAIN observed : k[1] = ip /\ observed[k]}}
      discovered == securityTargets(NoAddress)
  IN  /\ LatestScanWins
      /\ \A ip \in discovered :
           LET alerts == securityAlerts(ip)
               about(type) == {a.about : a \in {b \in alerts : b.type = type}}
           IN  /\ {a.about : a \in portAlerts(getPorts(ip))}
                    = {rule[1] : rule \in PortRules} \cap open(ip)
               /\ about("SERVICE_STATE_MISMATCH")
                    = {key[2] : key \in {k \in DOMAIN identified :
                                           k[1] = ip /\ ~observed[k]}}
               /\ about("VERY_LARGE_ATTACK_SURFACE") # {}
                    <=> Cardinality(open(ip)) >= VERY_LARGE_SURFACE
               /\ about("MULTIPLE_ADMIN_SERVICES") # {}
                    <=> Cardinality(open(ip) \cap AdministrativePorts) >= 2
      /\ LET seen == {key \in DOMAIN observed : key[1] \in discovered}
             reported == {key \in seen : observed[key]}
             high == {key \in reported : \E rule \in PortRules :
                                       rule[1] = key[2] /\ rule[3] = HIGH_ALERT}
         IN  /\ Range(openPortRows) = reported /\ Len(openPortRows) = Cardinality(reported)
             /\ openPortCount = Cardinality(reported)
             /\ sessionInfo.discoveredPorts = Cardinality(seen)
             /\ sessionInfo.serviceCount = Cardinality(DOMAIN identified)
             /\ securitySummary(NoAddress).highAlerts
                  = Cardinality(high)
                      + Cardinality({ip \in discovered :
                                       Cardinality({key \in reported : key[1] = ip})
                                         >= VERY_LARGE_SURFACE})

(* A service is recorded only while its port is recorded as open; only a   *)
(* later scan can make the two disagree.                                   *)
DetectedOnOpenPort ==
  [][ \A i \in DOMAIN services' :
        (i \notin DOMAIN services \/ services'[i] # services[i]) =>
          \E p \in Range(getPorts(services'[i].ip)) :
            p.open /\ p.port = services'[i].port ]_sessionVars

(* However often a port is scanned and detected, under whichever names,    *)
(* vuln|:scan and cred|:check report it once for each of their rules, under*)
(* the name it was detected as last, a report on one host is the part of   *)
(* the report on all that concerns it, and the level of risk is that of    *)
(* the worst port concerned.                                               *)
FindingsOncePerPort ==
  \A target \in IPs \cup {NoAddress} :
    LET vulnerabilities == handleVulnScan(target)
        credentials == handleCredCheck(target)
        concerned == {key \in DOMAIN identified : target \in {NoAddress, key[1]}}
    IN  /\ {<<f.host, f.port, f.service>> : f \in vulnerabilities}
             = {<<key[1], key[2], identified[key]>> :
                  key \in {k \in concerned : \E r \in ExposureRules : r[1] = k[2]}}
        /\ RiskLevel(vulnerabilities)
             = Max({0} \cup {r[3] : r \in {x \in ExposureRules :
                                \E key \in concerned : key[2] = x[1]}})
        /\ Len(credentials)
             = Cardinality({k \in concerned : k[2] \in DOMAIN CredentialRules})
        /\ \A i \in DOMAIN credentials :
             LET f == credentials[i]
             IN  <<f.host, f.port>> \in concerned /\ identified[<<f.host, f.port>>] = f.service

(* topo|:map draws a star: every online host is one node -- the gateway    *)
(* under its role, the local machine under its interfaces --, no address   *)
(* has two, and one edge leads from the local address to every other host  *)
(* and to the gateway.                                                     *)
TopologyIsStar ==
  \A side \in Locals :
    LET map == handleTopologyMap(side)
        local == localIP(side.interfaces, side.route)
        online == {hosts[k].ip : k \in {i \in DOMAIN hosts : hosts[i].online}}
        shown == {map.nodes[k].address : k \in DOMAIN map.nodes}
    IN  /\ online \subseteq shown
        /\ Len(map.nodes) = Cardinality(shown)
        /\ \A k \in DOMAIN map.nodes :
             (map.nodes[k].type = "GATEWAY") => map.nodes[k].address = side.route.gatewayAddress
        /\ IF local = NoAddress THEN map.edges = <<>>
           ELSE /\ {map.edges[k] : k \in DOMAIN map.edges}
                     = {Edge(local, ip) : ip \in (online \cup {side.route.gatewayAddress})
                                                \ {local, NoAddress}}
                /\ Len(map.edges)
                     = Cardinality((online \cup {side.route.gatewayAddress})
                                     \ {local, NoAddress})

=============================================================================
