------------------------- MODULE NetworkStateProofs -------------------------
(***************************************************************************)
(* The store's type correctness, the uniqueness of its keys, the order of  *)
(* its entries and its refinement of a map, for any addresses, ports and   *)
(* service names and vectors of any length.  Types and keys are proved     *)
(* together: that an insertion finds the entry it overwrites rests on no   *)
(* other having its key.                                                   *)
(***************************************************************************)
EXTENDS NetworkState, TLAPS

-----------------------------------------------------------------------------
(* Where at most one entry matches, the loop from the front finds it.      *)
LEMMA FirstOfOnly ==
  ASSUME NEW S \in SUBSET Nat, S # {}, \A i, j \in S : i = j
  PROVE  FirstOf(S) \in S
<1>1. PICK k \in S : TRUE
  OBVIOUS
<1>2. \A j \in S : k <= j
  BY <1>1
<1>. QED
  BY <1>1, <1>2 DEF FirstOf

(* What Upsert does to a sequence in which at most one entry matches: it   *)
(* stays of its type, no entry moves, and the new record is at one index,  *)
(* the matching one if there is one.                                       *)
LEMMA UpsertResult ==
  ASSUME NEW T, NEW s \in Seq(T), NEW x \in T,
         NEW S \in SUBSET DOMAIN s, \A i, j \in S : i = j
  PROVE  /\ Upsert(s, S, x) \in Seq(T)
         /\ Len(s) <= Len(Upsert(s, S, x))
         /\ \E k \in DOMAIN Upsert(s, S, x) :
              /\ Upsert(s, S, x)[k] = x
              /\ S \subseteq {k}
              /\ k \in DOMAIN s => k \in S
              /\ \A i \in DOMAIN Upsert(s, S, x) :
                   i # k => i \in DOMAIN s /\ Upsert(s, S, x)[i] = s[i]
<1>. DEFINE t == Upsert(s, S, x)
<1>1. CASE S = {}
  <2>. DEFINE k == Len(s) + 1
  <2>1. t = Append(s, x)
    BY <1>1 DEF Upsert
  <2>2. /\ t \in Seq(T) /\ Len(s) <= Len(t)
        /\ k \in DOMAIN t /\ k \notin DOMAIN s
        /\ t[k] = x
    BY <2>1
  <2>3. \A i \in DOMAIN t : i # k => i \in DOMAIN s /\ t[i] = s[i]
    BY <2>1
  <2>. HIDE DEF t, k
  <2>4. \E m \in DOMAIN t :
           /\ t[m] = x /\ S \subseteq {m} /\ (m \in DOMAIN s => m \in S)
           /\ \A i \in DOMAIN t : i # m => i \in DOMAIN s /\ t[i] = s[i]
    BY <1>1, <2>2, <2>3
  <2>. QED
    BY <2>2, <2>4 DEF t
<1>2. CASE S # {}
  <2>. DEFINE k == FirstOf(S)
  <2>1. k \in S /\ S = {k} /\ k \in DOMAIN s
    BY <1>2, FirstOfOnly
  <2>2. t = [s EXCEPT ![k] = x]
    BY <1>2 DEF Upsert
  <2>3. t \in Seq(T) /\ DOMAIN t = DOMAIN s /\ Len(t) = Len(s) /\ t[k] = x
    BY <2>1, <2>2
  <2>4. \A i \in DOMAIN t : i # k => t[i] = s[i]
    BY <2>1, <2>2
  <2>. HIDE DEF t, k
  <2>5. \E m \in DOMAIN t :
           /\ t[m] = x /\ S \subseteq {m} /\ (m \in DOMAIN s => m \in S)
           /\ \A i \in DOMAIN t : i # m => i \in DOMAIN s /\ t[i] = s[i]
    BY <2>1, <2>3, <2>4
  <2>. QED
    BY <2>3, <2>5 DEF t
<1>. QED
  BY <1>1, <1>2

-----------------------------------------------------------------------------
(* One lemma per vector: an insertion keeps the type, the keys unique and  *)
(* every entry at its place.                                               *)
UniqueIPs(s) == \A i, j \in DOMAIN s : s[i].ip = s[j].ip => i = j
UniquePorts(ps) == \A i, j \in DOMAIN ps : ps[i].port = ps[j].port => i = j
UniqueServices(ss) ==
  \A i, j \in DOMAIN ss :
    (ss[i].ip = ss[j].ip /\ ss[i].port = ss[j].port) => i = j

LEMMA HostAddedKeeps ==
  ASSUME NEW hs \in Seq(HostInfo), UniqueIPs(hs), NEW h \in HostInfo
  PROVE  /\ HostAdded(hs, h) \in Seq(HostInfo)
         /\ UniqueIPs(HostAdded(hs, h))
         /\ HostsStay(hs, HostAdded(hs, h))
<1>. DEFINE S == HostsAt(hs, h.ip)
            t == HostAdded(hs, h)
<1>1. S \in SUBSET DOMAIN hs /\ \A i, j \in S : i = j
  BY DEF HostsAt, UniqueIPs
<1>2. /\ t \in Seq(HostInfo) /\ Len(hs) <= Len(t)
      /\ \E k \in DOMAIN t :
           /\ t[k] = h /\ S \subseteq {k} /\ (k \in DOMAIN hs => k \in S)
           /\ \A i \in DOMAIN t : i # k => i \in DOMAIN hs /\ t[i] = hs[i]
  BY <1>1, UpsertResult DEF HostAdded
<1>3. PICK k \in DOMAIN t :
           /\ t[k] = h /\ S \subseteq {k} /\ (k \in DOMAIN hs => k \in S)
           /\ \A i \in DOMAIN t : i # k => i \in DOMAIN hs /\ t[i] = hs[i]
  BY <1>2
<1>. HIDE DEF t
<1>4. UniqueIPs(t)
  BY <1>3 DEF UniqueIPs, HostsAt
<1>5. HostsStay(hs, t)
  BY <1>2, <1>3 DEF HostsStay, HostsAt
<1>. QED
  BY <1>2, <1>4, <1>5 DEF t

LEMMA ServiceAddedKeeps ==
  ASSUME NEW ss \in Seq(ServiceInfo), UniqueServices(ss), NEW s \in ServiceInfo
  PROVE  /\ ServiceAdded(ss, s) \in Seq(ServiceInfo)
         /\ UniqueServices(ServiceAdded(ss, s))
         /\ ServicesStay(ss, ServiceAdded(ss, s))
<1>. DEFINE S == ServicesAt(ss, s.ip, s.port)
            t == ServiceAdded(ss, s)
<1>1. S \in SUBSET DOMAIN ss /\ \A i, j \in S : i = j
  BY DEF ServicesAt, UniqueServices
<1>2. /\ t \in Seq(ServiceInfo) /\ Len(ss) <= Len(t)
      /\ \E k \in DOMAIN t :
           /\ t[k] = s /\ S \subseteq {k} /\ (k \in DOMAIN ss => k \in S)
           /\ \A i \in DOMAIN t : i # k => i \in DOMAIN ss /\ t[i] = ss[i]
  BY <1>1, UpsertResult DEF ServiceAdded
<1>3. PICK k \in DOMAIN t :
           /\ t[k] = s /\ S \subseteq {k} /\ (k \in DOMAIN ss => k \in S)
           /\ \A i \in DOMAIN t : i # k => i \in DOMAIN ss /\ t[i] = ss[i]
  BY <1>2
<1>. HIDE DEF t
<1>4. UniqueServices(t)
  BY <1>3 DEF UniqueServices, ServicesAt
<1>5. ServicesStay(ss, t)
  BY <1>2, <1>3 DEF ServicesStay, HostsStay, PortsStay, ServicesAt
<1>. QED
  BY <1>2, <1>4, <1>5 DEF t

(* A table of ports with unique hosts, each with unique ports.             *)
UniqueHostPorts(hps) ==
  UniqueIPs(hps) /\ \A k \in DOMAIN hps : UniquePorts(hps[k].ports)

LEMMA PortsUpsertKeeps ==
  ASSUME NEW ps \in Seq(PortInfo), UniquePorts(ps), NEW p \in PortInfo
  PROVE  /\ Upsert(ps, PortsAt(ps, p.port), p) \in Seq(PortInfo)
         /\ UniquePorts(Upsert(ps, PortsAt(ps, p.port), p))
         /\ PortsStay(ps, Upsert(ps, PortsAt(ps, p.port), p))
<1>. DEFINE S == PortsAt(ps, p.port)
            t == Upsert(ps, S, p)
<1>1. S \in SUBSET DOMAIN ps /\ \A i, j \in S : i = j
  BY DEF PortsAt, UniquePorts
<1>2. /\ t \in Seq(PortInfo) /\ Len(ps) <= Len(t)
      /\ \E k \in DOMAIN t :
           /\ t[k] = p /\ S \subseteq {k} /\ (k \in DOMAIN ps => k \in S)
           /\ \A i \in DOMAIN t : i # k => i \in DOMAIN ps /\ t[i] = ps[i]
  BY <1>1, UpsertResult
<1>. HIDE DEF t
<1>3. UniquePorts(t)
  BY <1>2 DEF UniquePorts, PortsAt
<1>4. PortsStay(ps, t)
  BY <1>2 DEF PortsStay, PortsAt
<1>. QED
  BY <1>2, <1>3, <1>4 DEF t

(* The ports of an entry that is left alone keep their places.             *)
LEMMA PortsThemselves ==
  ASSUME NEW hps \in Seq(HostPorts), NEW i \in DOMAIN hps
  PROVE  PortsStay(hps[i].ports, hps[i].ports)
<1>1. hps[i].ports \in Seq(PortInfo)
  <2>1. hps[i] \in HostPorts
    OBVIOUS
  <2>. QED
    BY <2>1 DEF HostPorts
<1>. QED
  BY <1>1 DEF PortsStay

LEMMA PortAddedKeeps ==
  ASSUME NEW hps \in Seq(HostPorts), UniqueHostPorts(hps),
         NEW ip \in IPs, NEW p \in PortInfo
  PROVE  /\ PortAdded(hps, ip, p) \in Seq(HostPorts)
         /\ UniqueHostPorts(PortAdded(hps, ip, p))
         /\ HostPortsStay(hps, PortAdded(hps, ip, p))
<1>. DEFINE S == HostsAt(hps, ip)
            t == PortAdded(hps, ip, p)
<1>1. S \in SUBSET DOMAIN hps /\ \A i, j \in S : i = j
  BY DEF HostsAt, UniqueHostPorts, UniqueIPs
<1>2. CASE S = {}
  <2>. DEFINE e == [ip |-> ip, ports |-> <<p>>]
  <2>1. t = Append(hps, e)
    BY <1>2 DEF PortAdded
  <2>2. e \in HostPorts /\ e.ip = ip /\ e.ports = <<p>>
    BY DEF HostPorts
  <2>3. UniquePorts(<<p>>)
    BY DEF UniquePorts
  <2>. HIDE DEF e
  <2>4. /\ t \in Seq(HostPorts) /\ Len(hps) <= Len(t)
        /\ DOMAIN t = DOMAIN hps \cup {Len(hps) + 1}
        /\ t[Len(hps) + 1] = e
        /\ \A i \in DOMAIN hps : t[i] = hps[i]
    BY <2>1, <2>2
  <2>5. \A i \in DOMAIN hps : hps[i].ip # ip
    BY <1>2 DEF HostsAt
  <2>. HIDE DEF t
  <2>6. UniqueIPs(t)
    BY <2>2, <2>4, <2>5 DEF UniqueHostPorts, UniqueIPs
  <2>7. \A k \in DOMAIN t : UniquePorts(t[k].ports)
    BY <2>2, <2>3, <2>4 DEF UniqueHostPorts
  <2>8. HostPortsStay(hps, t)
    <3>1. \A i \in DOMAIN hps : PortsStay(hps[i].ports, hps[i].ports)
      BY PortsThemselves
    <3>. QED
      BY <2>4, <3>1 DEF HostPortsStay, HostsStay
  <2>. QED
    BY <2>4, <2>6, <2>7, <2>8 DEF UniqueHostPorts, t
<1>3. CASE S # {}
  <2>. DEFINE k == FirstOf(S)
              q == Upsert(hps[k].ports, PortsAt(hps[k].ports, p.port), p)
  <2>1. k \in S /\ k \in DOMAIN hps /\ hps[k].ip = ip
    BY <1>1, <1>3, FirstOfOnly DEF HostsAt
  <2>2. t = [hps EXCEPT ![k].ports = q]
    BY <1>3 DEF PortAdded
  <2>. HIDE DEF k
  <2>3. hps[k] \in HostPorts /\ hps[k].ports \in Seq(PortInfo)
        /\ UniquePorts(hps[k].ports)
    <3>1. hps[k] \in HostPorts
      BY <2>1
    <3>2. hps[k].ports \in Seq(PortInfo)
      BY <3>1 DEF HostPorts
    <3>. QED
      BY <2>1, <3>1, <3>2 DEF UniqueHostPorts
  <2>4. q \in Seq(PortInfo) /\ UniquePorts(q) /\ PortsStay(hps[k].ports, q)
    BY <2>3, PortsUpsertKeeps
  <2>. HIDE DEF q
  <2>. DEFINE e == [hps[k] EXCEPT !.ports = q]
  <2>5. e \in HostPorts /\ e.ip = hps[k].ip /\ e.ports = q
    BY <2>3, <2>4 DEF HostPorts
  <2>6. t = [hps EXCEPT ![k] = e]
    BY <2>1, <2>2
  <2>. HIDE DEF e, t
  <2>7. /\ t \in Seq(HostPorts) /\ DOMAIN t = DOMAIN hps /\ Len(t) = Len(hps)
        /\ t[k] = e
        /\ \A i \in DOMAIN hps : i # k => t[i] = hps[i]
    BY <2>1, <2>5, <2>6
  <2>8. \A i \in DOMAIN hps : t[i].ip = hps[i].ip
    BY <2>5, <2>7
  <2>9. UniqueIPs(t)
    BY <2>7, <2>8 DEF UniqueHostPorts, UniqueIPs
  <2>10. \A i \in DOMAIN t : UniquePorts(t[i].ports)
    BY <2>4, <2>5, <2>7 DEF UniqueHostPorts
  <2>11. HostPortsStay(hps, t)
    <3>1. \A i \in DOMAIN hps : PortsStay(hps[i].ports, t[i].ports)
      BY <2>1, <2>4, <2>5, <2>7, PortsThemselves
    <3>. QED
      BY <2>7, <2>8, <3>1 DEF HostPortsStay, HostsStay
  <2>. QED
    BY <2>7, <2>9, <2>10, <2>11 DEF UniqueHostPorts, t
<1>. QED
  BY <1>2, <1>3

-----------------------------------------------------------------------------
(* Types and unique keys are inductive together.                           *)
Inv == StoreTypeOK /\ UniqueKeys

LEMMA UniqueKeysParts ==
  UniqueKeys <=> UniqueIPs(hosts) /\ UniqueHostPorts(host_ports)
                   /\ UniqueServices(services)
BY DEF UniqueKeys, UniqueIPs, UniqueHostPorts, UniquePorts, UniqueServices

LEMMA InitInv == StoreInit => Inv
BY DEF StoreInit, Inv, StoreTypeOK, UniqueKeys

LEMMA StaysItself ==
  StoreTypeOK => /\ HostsStay(hosts, hosts)
                 /\ HostPortsStay(host_ports, host_ports)
                 /\ ServicesStay(services, services)
<1>. SUFFICES ASSUME StoreTypeOK
              PROVE  /\ HostsStay(hosts, hosts)
                     /\ HostPortsStay(host_ports, host_ports)
                     /\ ServicesStay(services, services)
  OBVIOUS
<1>1. \A i \in DOMAIN host_ports :
        PortsStay(host_ports[i].ports, host_ports[i].ports)
  BY PortsThemselves DEF StoreTypeOK
<1>. QED
  BY <1>1 DEF StoreTypeOK, HostsStay, HostPortsStay, ServicesStay, PortsStay

(* No step moves or re-keys an entry unless it clears the store, and each  *)
(* keeps the invariant.                                                    *)
Stable == Cleared \/ KeysStay

LEMMA StepInv == Inv /\ [StoreNext]_storeVars => Inv' /\ Stable
<1>. SUFFICES ASSUME Inv, [StoreNext]_storeVars PROVE Inv' /\ Stable
  OBVIOUS
<1>. USE DEF Inv
<1>0. /\ hosts \in Seq(HostInfo) /\ UniqueIPs(hosts)
      /\ host_ports \in Seq(HostPorts) /\ UniqueHostPorts(host_ports)
      /\ services \in Seq(ServiceInfo) /\ UniqueServices(services)
  BY UniqueKeysParts DEF StoreTypeOK
<1>1. /\ HostsStay(hosts, hosts)
      /\ HostPortsStay(host_ports, host_ports)
      /\ ServicesStay(services, services)
  BY StaysItself
<1>2. ASSUME NEW h \in HostInfo, addHost(h) PROVE Inv' /\ Stable
  BY <1>0, <1>1, <1>2, HostAddedKeeps, UniqueKeysParts
     DEF addHost, StoreTypeOK, Stable, KeysStay, UniqueKeys, UniqueIPs
<1>3. ASSUME NEW ip \in IPs, NEW p \in PortInfo, addPort(ip, p)
      PROVE  Inv' /\ Stable
  BY <1>0, <1>1, <1>3, PortAddedKeeps
     DEF addPort, StoreTypeOK, Stable, KeysStay, UniqueKeys, UniqueHostPorts, UniqueIPs, UniquePorts
<1>4. ASSUME NEW s \in ServiceInfo, addService(s) PROVE Inv' /\ Stable
  BY <1>0, <1>1, <1>4, ServiceAddedKeeps
     DEF addService, StoreTypeOK, Stable, KeysStay, UniqueKeys, UniqueServices
<1>5. CASE clear
  BY <1>5 DEF clear, StoreTypeOK, Stable, Cleared, UniqueKeys
<1>6. CASE UNCHANGED storeVars
  BY <1>1, <1>6 DEF storeVars, StoreTypeOK, Stable, KeysStay, UniqueKeys
<1>. QED
  BY <1>2, <1>3, <1>4, <1>5, <1>6 DEF StoreNext

-----------------------------------------------------------------------------
LEMMA SpecInv == StoreSpec => []Inv
<1>1. Inv /\ [StoreNext]_storeVars => Inv'
  BY StepInv
<1>. QED
  BY InitInv, <1>1, PTL DEF StoreSpec

(* The three vectors always hold records of the declared C++ types.        *)
THEOREM StoreTypeCorrect == StoreSpec => []StoreTypeOK
<1>1. Inv => StoreTypeOK
  BY DEF Inv
<1>. QED
  BY SpecInv, <1>1, PTL

(* However commands interleave insertions and clears, no host, port or     *)
(* service ever gets a second entry.                                       *)
THEOREM KeysAreUnique == StoreSpec => []UniqueKeys
<1>1. Inv => UniqueKeys
  BY DEF Inv
<1>. QED
  BY SpecInv, <1>1, PTL

(* No insertion moves or re-keys a stored host, a port inside the entry of *)
(* its host, or a service.                                                 *)
THEOREM OrderIsStable == StoreSpec => StableOrder
<1>1. Inv /\ [StoreNext]_storeVars => [Cleared \/ KeysStay]_storeVars
  BY StepInv DEF Stable
<1>. QED
  BY SpecInv, <1>1, PTL DEF StoreSpec, StableOrder
-----------------------------------------------------------------------------
(* The refinement: each vector, read as a map from its keys, changes as    *)
(* the abstract table does.                                                *)
HostTableOf(hs) ==
  [ip \in {hs[i].ip : i \in DOMAIN hs} |-> hs[FirstOf(HostsAt(hs, ip))]]
ServiceTableOf(ss) ==
  [key \in {<<ss[i].ip, ss[i].port>> : i \in DOMAIN ss} |->
     ss[FirstOf(ServicesAt(ss, key[1], key[2]))]]

LEMMA BindIs ==
  ASSUME NEW J, NEW K, NEW F, NEW G, NEW k, NEW v,
         F = [x \in J |-> F[x]], G = [x \in K |-> G[x]],
         K = J \cup {k}, G[k] = v, \A x \in J : x # k => G[x] = F[x]
  PROVE  G = Table!Bind(F, k, v)
BY DEF Table!Bind

(* Where keys are unique, a table gives back every record under its key.   *)
LEMMA HostTableAt ==
  ASSUME NEW hs \in Seq(HostInfo), UniqueIPs(hs), NEW i \in DOMAIN hs
  PROVE  HostTableOf(hs)[hs[i].ip] = hs[i]
<1>. DEFINE S == HostsAt(hs, hs[i].ip)
<1>1. S = {i} /\ S \in SUBSET Nat
  BY DEF HostsAt, UniqueIPs
<1>2. FirstOf(S) = i
  BY <1>1, FirstOfOnly
<1>. QED
  BY <1>2 DEF HostTableOf

LEMMA ServiceTableAt ==
  ASSUME NEW ss \in Seq(ServiceInfo), UniqueServices(ss), NEW i \in DOMAIN ss
  PROVE  ServiceTableOf(ss)[<<ss[i].ip, ss[i].port>>] = ss[i]
<1>. DEFINE S == ServicesAt(ss, ss[i].ip, ss[i].port)
<1>1. S = {i} /\ S \in SUBSET Nat
  BY DEF ServicesAt, UniqueServices
<1>2. FirstOf(S) = i
  BY <1>1, FirstOfOnly
<1>. QED
  BY <1>2 DEF ServiceTableOf

LEMMA HostAddedBinds ==
  ASSUME NEW hs \in Seq(HostInfo), UniqueIPs(hs), NEW h \in HostInfo
  PROVE  HostTableOf(HostAdded(hs, h)) = Table!Bind(HostTableOf(hs), h.ip, h)
<1>. DEFINE S == HostsAt(hs, h.ip)
            t == HostAdded(hs, h)
            F == HostTableOf(hs)
            G == HostTableOf(t)
            J == {hs[i].ip : i \in DOMAIN hs}
            K == {t[i].ip : i \in DOMAIN t}
<1>1. S \in SUBSET DOMAIN hs /\ \A i, j \in S : i = j
  BY DEF HostsAt, UniqueIPs
<1>2. /\ t \in Seq(HostInfo) /\ Len(hs) <= Len(t)
      /\ \E k \in DOMAIN t :
           /\ t[k] = h /\ S \subseteq {k} /\ (k \in DOMAIN hs => k \in S)
           /\ \A i \in DOMAIN t : i # k => i \in DOMAIN hs /\ t[i] = hs[i]
  BY <1>1, UpsertResult DEF HostAdded
<1>3. PICK k \in DOMAIN t :
           /\ t[k] = h /\ S \subseteq {k} /\ (k \in DOMAIN hs => k \in S)
           /\ \A i \in DOMAIN t : i # k => i \in DOMAIN hs /\ t[i] = hs[i]
  BY <1>2
<1>4. UniqueIPs(t)
  BY HostAddedKeeps
<1>. HIDE DEF t
<1>5. \A i \in DOMAIN hs : i \in DOMAIN t /\ t[i].ip = hs[i].ip
  BY <1>2, <1>3 DEF HostsAt
<1>6. K = J \cup {h.ip}
  BY <1>3, <1>5
<1>7. G[h.ip] = h
  BY <1>2, <1>3, <1>4, HostTableAt
<1>8. \A x \in J : x # h.ip => G[x] = F[x]
  <2>. SUFFICES ASSUME NEW i \in DOMAIN hs, hs[i].ip # h.ip
                PROVE  G[hs[i].ip] = F[hs[i].ip]
    OBVIOUS
  <2>1. i # k /\ i \in DOMAIN t /\ t[i] = hs[i]
    BY <1>3, <1>5
  <2>2. G[t[i].ip] = t[i] /\ F[hs[i].ip] = hs[i]
    BY <1>2, <1>4, <2>1, HostTableAt
  <2>. QED
    BY <2>1, <2>2
<1>9. F = [x \in J |-> F[x]] /\ G = [x \in K |-> G[x]]
  BY DEF HostTableOf
<1>. HIDE DEF F, G, J, K
<1>10. G = Table!Bind(F, h.ip, h)
  BY <1>6, <1>7, <1>8, <1>9, BindIs
<1>. QED
  BY <1>10 DEF F, G, t

LEMMA ServiceAddedBinds ==
  ASSUME NEW ss \in Seq(ServiceInfo), UniqueServices(ss), NEW s \in ServiceInfo
  PROVE  ServiceTableOf(ServiceAdded(ss, s)) =
           Table!Bind(ServiceTableOf(ss), <<s.ip, s.port>>, s)
<1>. DEFINE S == ServicesAt(ss, s.ip, s.port)
            t == ServiceAdded(ss, s)
            key == <<s.ip, s.port>>
            F == ServiceTableOf(ss)
            G == ServiceTableOf(t)
            J == {<<ss[i].ip, ss[i].port>> : i \in DOMAIN ss}
            K == {<<t[i].ip, t[i].port>> : i \in DOMAIN t}
<1>1. S \in SUBSET DOMAIN ss /\ \A i, j \in S : i = j
  BY DEF ServicesAt, UniqueServices
<1>2. /\ t \in Seq(ServiceInfo) /\ Len(ss) <= Len(t)
      /\ \E k \in DOMAIN t :
           /\ t[k] = s /\ S \subseteq {k} /\ (k \in DOMAIN ss => k \in S)
           /\ \A i \in DOMAIN t : i # k => i \in DOMAIN ss /\ t[i] = ss[i]
  BY <1>1, UpsertResult DEF ServiceAdded
<1>3. PICK k \in DOMAIN t :
           /\ t[k] = s /\ S \subseteq {k} /\ (k \in DOMAIN ss => k \in S)
           /\ \A i \in DOMAIN t : i # k => i \in DOMAIN ss /\ t[i] = ss[i]
  BY <1>2
<1>4. UniqueServices(t)
  BY ServiceAddedKeeps
<1>. HIDE DEF t
<1>5. \A i \in DOMAIN ss : i \in DOMAIN t /\ t[i].ip = ss[i].ip /\ t[i].port = ss[i].port
  BY <1>2, <1>3 DEF ServicesAt
<1>6. K = J \cup {key}
  BY <1>3, <1>5
<1>7. G[key] = s
  BY <1>2, <1>3, <1>4, ServiceTableAt
<1>8. \A x \in J : x # key => G[x] = F[x]
  <2>. SUFFICES ASSUME NEW i \in DOMAIN ss, <<ss[i].ip, ss[i].port>> # key
                PROVE  G[<<ss[i].ip, ss[i].port>>] = F[<<ss[i].ip, ss[i].port>>]
    OBVIOUS
  <2>1. i # k /\ i \in DOMAIN t /\ t[i] = ss[i]
    BY <1>3, <1>5
  <2>2. G[<<t[i].ip, t[i].port>>] = t[i] /\ F[<<ss[i].ip, ss[i].port>>] = ss[i]
    BY <1>2, <1>4, <2>1, ServiceTableAt
  <2>. QED
    BY <2>1, <2>2
<1>9. F = [x \in J |-> F[x]] /\ G = [x \in K |-> G[x]]
  BY DEF ServiceTableOf
<1>. HIDE DEF F, G, J, K, key
<1>10. G = Table!Bind(F, key, s)
  BY <1>6, <1>7, <1>8, <1>9, BindIs
<1>. QED
  BY <1>10 DEF F, G, t, key

(* The table of ports lies in two levels of vectors.                       *)
PortKeysOf(hps) ==
  UNION {{<<hps[k].ip, hps[k].ports[i].port>> : i \in DOMAIN hps[k].ports} :
           k \in DOMAIN hps}
PortsOf(hps, ip) ==
  IF HostsAt(hps, ip) = {} THEN <<>> ELSE hps[FirstOf(HostsAt(hps, ip))].ports
PortTableOf(hps) ==
  [key \in PortKeysOf(hps) |->
     LET ps == PortsOf(hps, key[1]) IN ps[FirstOf(PortsAt(ps, key[2]))]]

LEMMA PortTableAt ==
  ASSUME NEW hps \in Seq(HostPorts), UniqueHostPorts(hps),
         NEW k \in DOMAIN hps, NEW i \in DOMAIN hps[k].ports
  PROVE  /\ <<hps[k].ip, hps[k].ports[i].port>> \in PortKeysOf(hps)
         /\ PortTableOf(hps)[<<hps[k].ip, hps[k].ports[i].port>>] = hps[k].ports[i]
<1>. DEFINE S == HostsAt(hps, hps[k].ip)
            ps == hps[k].ports
            T == PortsAt(ps, ps[i].port)
<1>1. S = {k} /\ S \in SUBSET Nat
  BY DEF HostsAt, UniqueHostPorts, UniqueIPs
<1>2. PortsOf(hps, hps[k].ip) = ps
  BY <1>1, FirstOfOnly DEF PortsOf
<1>3. ps \in Seq(PortInfo) /\ UniquePorts(ps)
  <2>1. hps[k] \in HostPorts
    OBVIOUS
  <2>. QED
    BY <2>1 DEF HostPorts, UniqueHostPorts
<1>4. T = {i} /\ T \in SUBSET Nat
  BY <1>3 DEF PortsAt, UniquePorts
<1>5. FirstOf(T) = i
  BY <1>4, FirstOfOnly
<1>6. <<hps[k].ip, ps[i].port>> \in PortKeysOf(hps)
  BY DEF PortKeysOf
<1>. QED
  BY <1>2, <1>5, <1>6 DEF PortTableOf

LEMMA PortAddedBinds ==
  ASSUME NEW hps \in Seq(HostPorts), UniqueHostPorts(hps),
         NEW ip \in IPs, NEW p \in PortInfo
  PROVE  PortTableOf(PortAdded(hps, ip, p)) =
           Table!Bind(PortTableOf(hps), <<ip, p.port>>, p)
<1>. DEFINE S == HostsAt(hps, ip)
            t == PortAdded(hps, ip, p)
            key == <<ip, p.port>>
            F == PortTableOf(hps)
            G == PortTableOf(t)
            J == PortKeysOf(hps)
            K == PortKeysOf(t)
<1>1. t \in Seq(HostPorts) /\ UniqueHostPorts(t)
  BY PortAddedKeeps
(* The new record is somewhere in t, every other record of t was in hps,   *)
(* and every key of hps is one of t.                                       *)
<1>2. /\ \E k \in DOMAIN t : \E i \in DOMAIN t[k].ports :
           t[k].ip = ip /\ t[k].ports[i] = p
      /\ \A k \in DOMAIN t : \A i \in DOMAIN t[k].ports :
           <<t[k].ip, t[k].ports[i].port>> # key =>
             \E j \in DOMAIN hps : \E m \in DOMAIN hps[j].ports :
               hps[j].ip = t[k].ip /\ hps[j].ports[m] = t[k].ports[i]
      /\ \A j \in DOMAIN hps : \A m \in DOMAIN hps[j].ports :
           \E k \in DOMAIN t : \E i \in DOMAIN t[k].ports :
             t[k].ip = hps[j].ip /\ t[k].ports[i].port = hps[j].ports[m].port
  <2>1. CASE S = {}
    <3>. DEFINE e == [ip |-> ip, ports |-> <<p>>]
                n == Len(hps) + 1
    <3>1. t = Append(hps, e) /\ e \in HostPorts
      BY <2>1 DEF PortAdded, HostPorts
    <3>2. e.ip = ip /\ e.ports = <<p>> /\ DOMAIN e.ports = {1} /\ e.ports[1] = p
      OBVIOUS
    <3>. HIDE DEF e
    <3>3. /\ DOMAIN t = DOMAIN hps \cup {n} /\ t[n] = e
          /\ \A k \in DOMAIN hps : t[k] = hps[k]
      BY <3>1
    <3>. HIDE DEF t, n
    <3>. QED
      BY <3>2, <3>3
  <2>2. CASE S # {}
    <3>. DEFINE a == FirstOf(S)
                ps == hps[a].ports
                T == PortsAt(ps, p.port)
                q == Upsert(ps, T, p)
    <3>1. S \in SUBSET Nat /\ \A i, j \in S : i = j
      BY DEF HostsAt, UniqueHostPorts, UniqueIPs
    <3>2. a \in S /\ a \in DOMAIN hps /\ hps[a].ip = ip
      BY <2>2, <3>1, FirstOfOnly DEF HostsAt
    <3>3. t = [hps EXCEPT ![a].ports = q]
      BY <2>2 DEF PortAdded
    <3>. HIDE DEF a
    <3>4. hps[a] \in HostPorts /\ ps \in Seq(PortInfo) /\ UniquePorts(ps)
      <4>1. hps[a] \in HostPorts
        BY <3>2
      <4>. QED
        BY <3>2, <4>1 DEF HostPorts, UniqueHostPorts
    <3>5. T \in SUBSET DOMAIN ps /\ \A i, j \in T : i = j
      BY <3>4 DEF PortsAt, UniquePorts
    <3>6. /\ q \in Seq(PortInfo) /\ Len(ps) <= Len(q)
          /\ \E m \in DOMAIN q :
               /\ q[m] = p /\ T \subseteq {m} /\ (m \in DOMAIN ps => m \in T)
               /\ \A i \in DOMAIN q : i # m => i \in DOMAIN ps /\ q[i] = ps[i]
      BY <3>4, <3>5, UpsertResult
    <3>7. PICK m \in DOMAIN q :
               /\ q[m] = p /\ T \subseteq {m} /\ (m \in DOMAIN ps => m \in T)
               /\ \A i \in DOMAIN q : i # m => i \in DOMAIN ps /\ q[i] = ps[i]
      BY <3>6
    <3>. HIDE DEF q
    <3>8. /\ DOMAIN t = DOMAIN hps
          /\ t[a].ports = q /\ t[a].ip = ip
          /\ \A k \in DOMAIN hps : k # a => t[k] = hps[k]
      BY <3>2, <3>3, <3>4 DEF HostPorts
    <3>9. \A i \in DOMAIN ps : i \in DOMAIN q /\ q[i].port = ps[i].port
      BY <3>4, <3>6, <3>7 DEF PortsAt
    <3>. HIDE DEF t, ps, T
    <3>10. \A k \in DOMAIN t : \A i \in DOMAIN t[k].ports :
             <<t[k].ip, t[k].ports[i].port>> # key =>
               \E j \in DOMAIN hps : \E l \in DOMAIN hps[j].ports :
                 hps[j].ip = t[k].ip /\ hps[j].ports[l] = t[k].ports[i]
      BY <3>2, <3>7, <3>8 DEF ps
    <3>11. \A j \in DOMAIN hps : \A l \in DOMAIN hps[j].ports :
             \E k \in DOMAIN t : \E i \in DOMAIN t[k].ports :
               t[k].ip = hps[j].ip /\ t[k].ports[i].port = hps[j].ports[l].port
      BY <3>2, <3>8, <3>9 DEF ps
    <3>. QED
      BY <3>2, <3>7, <3>8, <3>10, <3>11
  <2>. QED
    BY <2>1, <2>2
<1>. HIDE DEF t
<1>3. \A x : x \in J <=> \E j \in DOMAIN hps : \E m \in DOMAIN hps[j].ports :
                            x = <<hps[j].ip, hps[j].ports[m].port>>
  BY DEF PortKeysOf
<1>4. \A x : x \in K <=> \E k \in DOMAIN t : \E i \in DOMAIN t[k].ports :
                            x = <<t[k].ip, t[k].ports[i].port>>
  BY DEF PortKeysOf
<1>5. key \in K /\ G[key] = p
  BY <1>1, <1>2, PortTableAt
<1>6. \A x \in J : x \in K
  BY <1>2, <1>3, <1>4
<1>7. \A x \in K : x # key => x \in J /\ G[x] = F[x]
  <2>. SUFFICES ASSUME NEW x \in K, x # key PROVE x \in J /\ G[x] = F[x]
    OBVIOUS
  <2>1. PICK k \in DOMAIN t : \E i \in DOMAIN t[k].ports :
                                x = <<t[k].ip, t[k].ports[i].port>>
    BY <1>4
  <2>2. PICK i \in DOMAIN t[k].ports : x = <<t[k].ip, t[k].ports[i].port>>
    BY <2>1
  <2>3. PICK j \in DOMAIN hps : \E m \in DOMAIN hps[j].ports :
               hps[j].ip = t[k].ip /\ hps[j].ports[m] = t[k].ports[i]
    BY <1>2, <2>2
  <2>4. PICK m \in DOMAIN hps[j].ports :
               hps[j].ip = t[k].ip /\ hps[j].ports[m] = t[k].ports[i]
    BY <2>3
  <2>5. x = <<hps[j].ip, hps[j].ports[m].port>>
    BY <2>2, <2>4
  <2>6. G[x] = t[k].ports[i]
    BY <1>1, <2>2, PortTableAt
  <2>7. F[x] = hps[j].ports[m] /\ x \in J
    BY <2>5, PortTableAt
  <2>. QED
    BY <2>4, <2>6, <2>7
<1>8. F = [x \in J |-> F[x]] /\ G = [x \in K |-> G[x]]
  BY DEF PortTableOf
<1>. HIDE DEF F, G, J, K, key
<1>9. K = J \cup {key}
  BY <1>5, <1>6, <1>7
<1>10. \A x \in J : x # key => G[x] = F[x]
  BY <1>6, <1>7
<1>11. G = Table!Bind(F, key, p)
  BY <1>5, <1>8, <1>9, <1>10, BindIs
<1>. QED
  BY <1>11 DEF F, G, t, key

LEMMA TablesAre ==
  /\ hostTable = HostTableOf(hosts) /\ hostTable' = HostTableOf(hosts')
  /\ portTable = PortTableOf(host_ports) /\ portTable' = PortTableOf(host_ports')
  /\ serviceTable = ServiceTableOf(services)
  /\ serviceTable' = ServiceTableOf(services')
<1>1. hostTable = HostTableOf(hosts) /\ hostTable' = HostTableOf(hosts')
  BY DEF hostTable, HostTableOf
<1>2. portTable = PortTableOf(host_ports) /\ portTable' = PortTableOf(host_ports')
  BY DEF portTable, PortTableOf, portKeys, PortKeysOf, getPorts, PortsOf
<1>3. /\ serviceTable = ServiceTableOf(services)
      /\ serviceTable' = ServiceTableOf(services')
  BY DEF serviceTable, ServiceTableOf
<1>. QED
  BY <1>1, <1>2, <1>3

LEMMA EmptyTables ==
  /\ HostTableOf(<<>>) = Table!Empty
  /\ PortTableOf(<<>>) = Table!Empty
  /\ ServiceTableOf(<<>>) = Table!Empty
<1>1. HostTableOf(<<>>) = Table!Empty
  BY DEF HostTableOf, Table!Empty
<1>2. PortTableOf(<<>>) = Table!Empty
  <2>1. PortKeysOf(<<>>) = {}
    BY DEF PortKeysOf
  <2>. QED
    BY <2>1 DEF PortTableOf, Table!Empty
<1>3. ServiceTableOf(<<>>) = Table!Empty
  BY DEF ServiceTableOf, Table!Empty
<1>. QED
  BY <1>1, <1>2, <1>3

LEMMA StepImplements ==
  ASSUME Inv, [StoreNext]_storeVars
  PROVE  [Table!Next]_(Table!vars)
<1>0. /\ hosts \in Seq(HostInfo) /\ UniqueIPs(hosts)
      /\ host_ports \in Seq(HostPorts) /\ UniqueHostPorts(host_ports)
      /\ services \in Seq(ServiceInfo) /\ UniqueServices(services)
  BY UniqueKeysParts DEF Inv, StoreTypeOK
<1>1. ASSUME NEW h \in HostInfo, addHost(h) PROVE Table!Next
  <2>1. h.ip \in IPs /\ h.online \in BOOLEAN /\ h = [ip |-> h.ip, online |-> h.online]
    BY DEF HostInfo
  <2>2. /\ hostTable' = Table!Bind(hostTable, h.ip, h)
        /\ UNCHANGED <<portTable, serviceTable>>
    BY <1>0, <1>1, TablesAre, HostAddedBinds DEF addHost
  <2>3. Table!PutHost(h.ip, h.online)
    BY <2>1, <2>2 DEF Table!PutHost
  <2>. QED
    BY <2>1, <2>3 DEF Table!Next
<1>2. ASSUME NEW ip \in IPs, NEW p \in PortInfo, addPort(ip, p) PROVE Table!Next
  <2>1. p.port \in PortNumbers /\ p.open \in BOOLEAN /\ p = [port |-> p.port, open |-> p.open]
    BY DEF PortInfo
  <2>2. /\ portTable' = Table!Bind(portTable, <<ip, p.port>>, p)
        /\ UNCHANGED <<hostTable, serviceTable>>
    BY <1>0, <1>2, TablesAre, PortAddedBinds DEF addPort
  <2>3. Table!PutPort(ip, p.port, p.open)
    BY <2>1, <2>2 DEF Table!PutPort
  <2>. QED
    BY <2>1, <2>3 DEF Table!Next
<1>3. ASSUME NEW s \in ServiceInfo, addService(s) PROVE Table!Next
  <2>1. /\ s.ip \in IPs /\ s.port \in PortNumbers /\ s.service \in ServiceNames
        /\ s = [ip |-> s.ip, port |-> s.port, service |-> s.service]
    BY DEF ServiceInfo
  <2>2. /\ serviceTable' = Table!Bind(serviceTable, <<s.ip, s.port>>, s)
        /\ UNCHANGED <<hostTable, portTable>>
    BY <1>0, <1>3, TablesAre, ServiceAddedBinds DEF addService
  <2>3. Table!PutService(s.ip, s.port, s.service)
    BY <2>1, <2>2 DEF Table!PutService
  <2>. QED
    BY <2>1, <2>3 DEF Table!Next
<1>4. CASE clear
  BY <1>4, TablesAre, EmptyTables DEF clear, Table!Next, Table!DropAll
<1>5. CASE UNCHANGED storeVars
  BY <1>5, TablesAre DEF storeVars, Table!vars
<1>. QED
  BY <1>1, <1>2, <1>3, <1>4, <1>5 DEF StoreNext

(* Read through its keys, the store behaves as three maps: the last record *)
(* inserted for a host, a port of a host or a service wins, no other entry *)
(* changes, and clear drops all of them, for any keys and records and      *)
(* vectors of any length.                                                  *)
THEOREM StoreImplementsTable == StoreSpec => ImplementsTable
<1>1. StoreInit => Table!Init
  BY TablesAre, EmptyTables DEF StoreInit, Table!Init
<1>2. Inv /\ [StoreNext]_storeVars => [Table!Next]_(Table!vars)
  BY StepImplements
<1>. QED
  BY SpecInv, <1>1, <1>2, PTL DEF StoreSpec, ImplementsTable, Table!Spec
=============================================================================
