---------------------------- MODULE NetworkState ----------------------------
(***************************************************************************)
(* The shared store of the engine (class NetworkState): three vectors that *)
(* behave as tables keyed by address, by (address, port) and again by      *)
(* (address, port).  Every insertion scans its vector from the front and   *)
(* overwrites the first entry with the same key, or appends a new one.     *)
(*                                                                         *)
(* The payload of an entry is reduced to what some command branches on: a  *)
(* host is online or not, a port is open or not, a service has a name.     *)
(***************************************************************************)
EXTENDS Naturals, Sequences, FiniteSets

CONSTANTS
  IPs,            (* host addresses                                        *)
  PortNumbers,    (* TCP port numbers                                      *)
  ServiceNames    (* names a service detector can report                   *)

HostInfo    == [ip : IPs, online : BOOLEAN]
PortInfo    == [port : PortNumbers, open : BOOLEAN]
HostPorts   == [ip : IPs, ports : Seq(PortInfo)]
ServiceInfo == [ip : IPs, port : PortNumbers, service : ServiceNames]

VARIABLES
  hosts,          (* std::vector<HostInfo>                                 *)
  host_ports,     (* std::vector<HostPorts>, one vector of ports per host  *)
  services        (* std::vector<ServiceInfo>                              *)

storeVars == <<hosts, host_ports, services>>

-----------------------------------------------------------------------------
(* The first index of a nonempty set of indices: where a loop from the     *)
(* front of the vector that returns at the first match stops.              *)
FirstOf(S) == CHOOSE i \in S : \A j \in S : i <= j

(* Faults: a lookup that passes over closed ports, and one that forgets    *)
(* the address.                                                            *)
PortsAtOpenOnly(ps, n) == {i \in DOMAIN ps : ps[i].open /\ ps[i].port = n}
ServicesAtAnyHost(ss, ip, n) == {i \in DOMAIN ss : ss[i].port = n}

(* Overwrite the first entry of s at one of the indices in S, or append x. *)
Upsert(s, S, x) ==
  IF S = {} THEN Append(s, x) ELSE [s EXCEPT ![FirstOf(S)] = x]

HostsAt(hs, ip) == {i \in DOMAIN hs : hs[i].ip = ip}
PortsAt(ps, n)  == {i \in DOMAIN ps : ps[i].port = n}
ServicesAt(ss, ip, n) ==
  {i \in DOMAIN ss : ss[i].ip = ip /\ ss[i].port = n}

(* const std::vector<PortInfo>& getPorts(ip): the ports stored under the   *)
(* first entry of that host, or the empty vector.                          *)
getPorts(ip) ==
  LET S == HostsAt(host_ports, ip)
  IN  IF S = {} THEN <<>> ELSE host_ports[FirstOf(S)].ports

-----------------------------------------------------------------------------
(* The vectors with one more record.  A port goes into the vector of its   *)
(* host; a host seen for the first time gets an entry with just that port. *)
HostAdded(hs, h) == Upsert(hs, HostsAt(hs, h.ip), h)

(* Fault: a port that is new to its host goes to the front of its vector.  *)
PortAddedInFront(hps, ip, p) ==
  LET S  == HostsAt(hps, ip)
      ps == hps[FirstOf(S)].ports
      at == PortsAt(ps, p.port)
  IN  IF S = {}
      THEN Append(hps, [ip |-> ip, ports |-> <<p>>])
      ELSE [hps EXCEPT ![FirstOf(S)].ports =
              IF at = {} THEN <<p>> \o ps ELSE Upsert(ps, at, p)]

PortAdded(hps, ip, p) ==
  LET S  == HostsAt(hps, ip)
      ps == hps[FirstOf(S)].ports
  IN  IF S = {}
      THEN Append(hps, [ip |-> ip, ports |-> <<p>>])
      ELSE [hps EXCEPT ![FirstOf(S)].ports = Upsert(ps, PortsAt(ps, p.port), p)]

ServiceAdded(ss, s) == Upsert(ss, ServicesAt(ss, s.ip, s.port), s)

addHost(h) ==
  /\ hosts' = HostAdded(hosts, h)
  /\ UNCHANGED <<host_ports, services>>

addPort(ip, p) ==
  /\ host_ports' = PortAdded(host_ports, ip, p)
  /\ UNCHANGED <<hosts, services>>

addService(s) ==
  /\ services' = ServiceAdded(services, s)
  /\ UNCHANGED <<hosts, host_ports>>

(* Fault: net|:clear leaves the services in the store.                     *)
clearKeepsServices ==
  /\ hosts' = <<>>
  /\ host_ports' = <<>>
  /\ UNCHANGED services

clear ==
  /\ hosts' = <<>>
  /\ host_ports' = <<>>
  /\ services' = <<>>

-----------------------------------------------------------------------------
StoreInit ==
  /\ hosts = <<>>
  /\ host_ports = <<>>
  /\ services = <<>>

StoreNext ==
  \/ \E h \in HostInfo : addHost(h)
  \/ \E ip \in IPs, p \in PortInfo : addPort(ip, p)
  \/ \E s \in ServiceInfo : addService(s)
  \/ clear

StoreSpec == StoreInit /\ [][StoreNext]_storeVars

-----------------------------------------------------------------------------
(* The three vectors hold records of the declared C++ types.               *)
StoreTypeOK ==
  /\ hosts \in Seq(HostInfo)
  /\ host_ports \in Seq(HostPorts)
  /\ services \in Seq(ServiceInfo)

(* No vector ever holds two entries with one key.  Every reader relies on  *)
(* it: getPorts returns the first match only, and the counters of          *)
(* net|:show, sec|:detect and session|:info count entries as hosts, ports  *)
(* and services.                                                           *)
UniqueKeys ==
  /\ \A i, j \in DOMAIN hosts : hosts[i].ip = hosts[j].ip => i = j
  /\ \A i, j \in DOMAIN host_ports :
       host_ports[i].ip = host_ports[j].ip => i = j
  /\ \A k \in DOMAIN host_ports :
       \A i, j \in DOMAIN host_ports[k].ports :
         host_ports[k].ports[i].port = host_ports[k].ports[j].port => i = j
  /\ \A i, j \in DOMAIN services :
       /\ services[i].ip = services[j].ip
       /\ services[i].port = services[j].port
       => i = j

(* An insertion never moves or re-keys what is stored: every host, every   *)
(* port inside the entry of its host and every service keeps its place and *)
(* its key until the whole store is cleared, so the tables the commands    *)
(* print keep their discovery order.                                       *)
HostsStay(s, t) ==
  /\ Len(s) <= Len(t)
  /\ \A i \in DOMAIN s : s[i].ip = t[i].ip
PortsStay(s, t) ==
  /\ Len(s) <= Len(t)
  /\ \A i \in DOMAIN s : s[i].port = t[i].port
HostPortsStay(s, t) ==
  /\ HostsStay(s, t)
  /\ \A i \in DOMAIN s : PortsStay(s[i].ports, t[i].ports)
ServicesStay(s, t) == HostsStay(s, t) /\ PortsStay(s, t)
Cleared == hosts' = <<>> /\ host_ports' = <<>> /\ services' = <<>>
KeysStay ==
  /\ HostsStay(hosts, hosts')
  /\ HostPortsStay(host_ports, host_ports')
  /\ ServicesStay(services, services')
StableOrder == [][Cleared \/ KeysStay]_storeVars

-----------------------------------------------------------------------------
(* What the store promises, read through the refinement mapping below: a   *)
(* map from keys to the latest record.                                     *)
hostTable ==
  [ip \in {hosts[i].ip : i \in DOMAIN hosts} |->
     hosts[FirstOf(HostsAt(hosts, ip))]]

portKeys ==
  UNION {{<<host_ports[k].ip, host_ports[k].ports[i].port>> :
             i \in DOMAIN host_ports[k].ports} : k \in DOMAIN host_ports}
portTable ==
  [key \in portKeys |->
     LET ps == getPorts(key[1]) IN ps[FirstOf(PortsAt(ps, key[2]))]]

serviceTable ==
  [key \in {<<services[i].ip, services[i].port>> : i \in DOMAIN services} |->
     services[FirstOf(ServicesAt(services, key[1], key[2]))]]

Table == INSTANCE NetworkStateTable
           WITH hostOf <- hostTable, portOf <- portTable,
                serviceOf <- serviceTable

(* Every insertion behaves as an update of a map keyed by address or by    *)
(* (address, port): the last record inserted wins, no other key changes.   *)
ImplementsTable == Table!Spec
=============================================================================
