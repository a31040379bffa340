----------------------- MODULE NetworkDiscoveryProofs -----------------------
(***************************************************************************)
(* Proofs about the discovery, for any number of addresses and any size of *)
(* the batches: the pings are bounded and never outlive the buffers they   *)
(* write, and the store never shows a mixture.                             *)
(*                                                                         *)
(* Both rest on the arithmetic that maps a future back to its address:     *)
(* while a batch runs, its k-th task is slot completed + k (BatchInv), and *)
(* every worker alive belongs to a task (WorkersInv).                      *)
(***************************************************************************)
EXTENDS NetworkDiscovery, NetworkStateProofs, FiniteSetTheorems

Launching == {"clear", "detect", "check", "launch", "batch", "final"}

(* How far the discovery is, and which slot a task is about.               *)
BatchInv ==
  /\ pc \in {"clear", "detect"} => tasks = <<>> /\ completed = 0 /\ i = 1 /\ j = 1
  /\ pc \in {"check", "launch"} => /\ i = completed + Len(tasks) + 1
                                   /\ j = 1
                                   /\ Len(tasks) < MAX_CONCURRENT
  /\ pc = "launch" => i <= Len(addresses)
  /\ pc = "batch" => i = completed + Len(tasks) /\ i <= Len(addresses)
  /\ pc = "final" => i = completed + Len(tasks) + 1
  /\ pc \in {"batch", "final"} => j <= Len(tasks) + 1
  /\ pc \in Launching => \A k \in DOMAIN tasks : tasks[k] = completed + k
  /\ Len(tasks) <= MAX_CONCURRENT

(* Only the workers of tasks are alive; the collected ones have returned.  *)
WorkersInv ==
  /\ \A s \in Live : \E k \in DOMAIN tasks : tasks[k] = s
  /\ pc \in {"batch", "final"} =>
       \A k \in DOMAIN tasks : k < j => ping[tasks[k]] = "returned"
  /\ pc = "done" => tasks = <<>>

(* What is known of a host is true of it, and kept until the end or not at *)
(* all.                                                                    *)
AnswersInv ==
  /\ \A s \in Slots : reachable[s] => addresses[s] \in answering
  /\ \A s \in Slots : online[s] => addresses[s] \in answering
  /\ UniqueIPs(hosts)
  /\ pc # "clear" => /\ host_ports = <<>> /\ services = <<>>
                     /\ \A k \in DOMAIN hosts : hosts[k].ip \in answering
  /\ pc \in Launching \ {"clear"} => hosts = <<>>
  /\ pc \in {"unwind", "done"} /\ ~success => hosts = <<>>

DiscoveryInv == TypeOK /\ BatchInv /\ WorkersInv /\ AnswersInv

-----------------------------------------------------------------------------
(* The beginning: a store that may hold a host and a port.                 *)
LEMMA DiscoveryInit == Init => DiscoveryInv
<1> SUFFICES ASSUME Init PROVE DiscoveryInv
  OBVIOUS
<1> USE DiscoveryAssumption
<1>1. hosts \in Seq(HostInfo) /\ UniqueIPs(hosts)
  <2>1. CASE hosts = <<>>
    BY <2>1 DEF UniqueIPs
  <2>2. ASSUME NEW h \in HostInfo, hosts = <<h>>
        PROVE  hosts \in Seq(HostInfo) /\ UniqueIPs(hosts)
    BY <2>2 DEF UniqueIPs
  <2> QED
    BY <2>1, <2>2 DEF Init
<1>2. host_ports \in Seq(HostPorts)
  <2>1. CASE host_ports = <<>>
    BY <2>1
  <2>2. ASSUME NEW ip \in IPs, NEW p \in PortInfo,
               host_ports = <<[ip |-> ip, ports |-> <<p>>]>>
        PROVE  host_ports \in Seq(HostPorts)
    BY <2>2 DEF HostPorts
  <2> QED
    BY <2>1, <2>2 DEF Init
<1>3. TypeOK
  <2>1. i \in 1..(Len(addresses) + 1) /\ completed \in 0..Len(addresses)
    BY DEF Init
  <2>2. /\ online \in [Slots -> BOOLEAN] /\ latencies \in [Slots -> BOOLEAN]
        /\ reachable \in [Slots -> BOOLEAN] /\ unrun \in SUBSET Slots
        /\ ping \in [Slots -> {"none", "started", "pinging", "interrupted", "returned"}]
    BY DEF Init
  <2>3. tasks \in Seq(Slots) /\ StoreTypeOK
    BY <1>1, <1>2 DEF Init, StoreTypeOK
  <2>4. pc = "clear" /\ j \in Nat \ {0}
    BY DEF Init
  <2>5. answering \in SUBSET IPs
    BY DEF Init
  <2>6. success = FALSE /\ stopRequested = FALSE /\ pressed = FALSE
    BY DEF Init
  <2> QED
    BY <2>1, <2>2, <2>3, <2>4, <2>5, <2>6 DEF TypeOK
<1>4. BatchInv
  BY DEF Init, BatchInv, Launching
<1>5. WorkersInv
  BY DEF Init, WorkersInv, Live, Pinging
<1>6. AnswersInv
  BY <1>1 DEF Init, AnswersInv, Launching
<1> QED
  BY <1>3, <1>4, <1>5, <1>6 DEF DiscoveryInv

(* A task is a slot.                                                       *)
LEMMA TaskIsSlot ==
  ASSUME TypeOK PROVE \A k \in DOMAIN tasks : tasks[k] \in Slots
  BY DEF TypeOK

(* The calling thread keeps the invariant.                                 *)
LEMMA CallerInv ==
  ASSUME DiscoveryInv, Caller PROVE DiscoveryInv'
<1> USE DiscoveryAssumption DEF DiscoveryInv
<1>0. Len(addresses) \in Nat /\ Len(tasks) \in Nat /\ Slots = 1..Len(addresses)
  BY DEF TypeOK, Slots
<1>1. CASE ClearState
  <2>1. TypeOK'
    BY <1>1 DEF ClearState, clear, TypeOK, StoreTypeOK, workerVars, signalVars
  <2>2. BatchInv' /\ WorkersInv'
    BY <1>1 DEF ClearState, BatchInv, WorkersInv, Launching, Live, Pinging, workerVars
  <2>3. AnswersInv'
    BY <1>1 DEF ClearState, clear, AnswersInv, UniqueIPs, Launching, workerVars
  <2> QED
    BY <2>1, <2>2, <2>3
<1>2. CASE DetectLocalNetwork
  <2>1. TypeOK'
    BY <1>2 DEF DetectLocalNetwork, TypeOK, StoreTypeOK, workerVars, signalVars, storeVars
  <2>2. BatchInv' /\ WorkersInv'
    BY <1>2, <1>0 DEF DetectLocalNetwork, BatchInv, WorkersInv, Launching, Live, Pinging, workerVars
  <2>3. AnswersInv'
    BY <1>2 DEF DetectLocalNetwork, AnswersInv, UniqueIPs, Launching, workerVars, storeVars
  <2> QED
    BY <2>1, <2>2, <2>3
<1>3. CASE StopCheck
  <2>1. TypeOK'
    BY <1>3 DEF StopCheck, TypeOK, StoreTypeOK, workerVars, signalVars, storeVars
  <2>2. BatchInv' /\ WorkersInv'
    BY <1>3, <1>0 DEF StopCheck, TypeOK, BatchInv, WorkersInv, Launching, Live, Pinging, workerVars
  <2>3. AnswersInv'
    BY <1>3 DEF StopCheck, AnswersInv, UniqueIPs, Launching, workerVars, storeVars
  <2> QED
    BY <2>1, <2>2, <2>3
<1>4. CASE Launch
  <2>1. /\ i \in Slots /\ tasks' = Append(tasks, i) /\ tasks' \in Seq(Slots)
        /\ Len(tasks') = Len(tasks) + 1
        /\ \A k \in DOMAIN tasks : tasks'[k] = tasks[k]
        /\ tasks'[Len(tasks')] = i
    BY <1>4, <1>0 DEF Launch, BatchInv, TypeOK
  <2>2. ping' = [ping EXCEPT ![i] = "started"]
    BY <1>4 DEF Launch
  <2>3. TypeOK'
    <3>1. i' \in 1..(Len(addresses) + 1)
      BY <1>4, <1>0, <2>1 DEF Launch, TypeOK
    <3> QED
      BY <1>4, <2>1, <2>2, <3>1 DEF Launch, TypeOK, StoreTypeOK, signalVars, storeVars
  <2>4. BatchInv'
    <3>1. /\ pc = "launch" /\ i = completed + Len(tasks) + 1 /\ j = 1 /\ i <= Len(addresses)
          /\ Len(tasks) < MAX_CONCURRENT
          /\ \A k \in DOMAIN tasks : tasks[k] = completed + k
          /\ completed \in Nat /\ MAX_CONCURRENT \in Nat
      BY <1>4, <1>0 DEF Launch, BatchInv, TypeOK, Launching
    <3>2. /\ completed' = completed /\ j' = j
          /\ \/ pc' = "batch" /\ i' = i
             \/ pc' = "check" /\ i' = i + 1 /\ Len(tasks') < MAX_CONCURRENT
      BY <1>4, <1>0, <2>1 DEF Launch
    <3>3. \A k \in DOMAIN tasks' : tasks'[k] = completed + k
      <4>1. DOMAIN tasks' = 1..(Len(tasks) + 1) /\ DOMAIN tasks = 1..Len(tasks)
        BY <2>1, <1>0 DEF TypeOK
      <4>2. \A k \in DOMAIN tasks' : k \in DOMAIN tasks \/ k = Len(tasks')
        BY <4>1, <2>1, <1>0
      <4>3. tasks'[Len(tasks')] = completed + Len(tasks')
        BY <3>1, <2>1, <1>0
      <4> QED
        BY <4>2, <4>3, <3>1, <2>1
    <3>4. CASE pc' = "batch" /\ i' = i
      BY <3>1, <3>2, <3>3, <3>4, <2>1, <1>0 DEF BatchInv
    <3>5. CASE pc' = "check" /\ i' = i + 1 /\ Len(tasks') < MAX_CONCURRENT
      BY <3>1, <3>2, <3>3, <3>5, <2>1, <1>0 DEF BatchInv
    <3> QED
      BY <3>2, <3>4, <3>5
  <2>5. WorkersInv'
    <3>1. \A s \in Live' : \E k \in DOMAIN tasks' : tasks'[k] = s
      <4> SUFFICES ASSUME NEW s \in Live' PROVE \E k \in DOMAIN tasks' : tasks'[k] = s
        OBVIOUS
      <4>1. CASE s = i
        BY <4>1, <2>1, <1>0
      <4>2. CASE s # i
        <5>1. s \in Live
          BY <4>2, <2>2 DEF Live, Pinging, TypeOK
        <5> QED
          BY <5>1, <2>1, <1>0 DEF WorkersInv
      <4> QED
        BY <4>1, <4>2
    <3>2. j = 1 /\ j' = 1
      BY <1>4 DEF Launch, BatchInv
    <3> QED
      BY <1>4, <3>1, <3>2, <2>1, <1>0 DEF Launch, WorkersInv
  <2>6. AnswersInv'
    BY <1>4 DEF Launch, AnswersInv, UniqueIPs, Launching, storeVars
  <2> QED
    BY <2>3, <2>4, <2>5, <2>6
<1>5. CASE LaunchThrows
  <2>1. TypeOK'
    BY <1>5 DEF LaunchThrows, TypeOK, StoreTypeOK, signalVars, storeVars
  <2>2. BatchInv' /\ WorkersInv'
    BY <1>5 DEF LaunchThrows, BatchInv, WorkersInv, Launching, Live, Pinging
  <2>3. AnswersInv'
    BY <1>5 DEF LaunchThrows, AnswersInv, UniqueIPs, Launching, storeVars
  <2> QED
    BY <2>1, <2>2, <2>3
<1>6. CASE Collect
  <2>1. /\ j \in DOMAIN tasks /\ tasks[j] \in Slots /\ tasks[j] = completed + j
        /\ ping[tasks[j]] = "returned"
        /\ online' = [online EXCEPT ![tasks[j]] = reachable[tasks[j]]]
    <3>1. j \in 1..Len(tasks) /\ pc \in {"batch", "final"}
      BY <1>6, <1>0 DEF Collect, TypeOK
    <3>2. j \in DOMAIN tasks /\ tasks[j] \in Slots
      BY <3>1, <1>0 DEF TypeOK
    <3>3. tasks[j] = completed + j
      BY <3>1, <3>2 DEF BatchInv, Launching
    <3> QED
      BY <1>6, <3>2, <3>3 DEF Collect
  <2>2. TypeOK'
    BY <1>6, <2>1 DEF Collect, TypeOK, StoreTypeOK, workerVars, signalVars, storeVars
  <2>3. BatchInv'
    BY <1>6, <1>0, <2>1 DEF Collect, BatchInv, TypeOK, Launching
  <2>4. WorkersInv'
    BY <1>6, <1>0, <2>1 DEF Collect, WorkersInv, TypeOK, Live, Pinging, workerVars
  <2>5. AnswersInv'
    BY <1>6, <2>1 DEF Collect, TypeOK, AnswersInv, UniqueIPs, Launching, workerVars, storeVars
  <2> QED
    BY <2>2, <2>3, <2>4, <2>5
<1>7. CASE Collected
  <2>1. \A k \in DOMAIN tasks : ping[tasks[k]] = "returned"
    BY <1>7, <1>0 DEF Collected, WorkersInv, TypeOK
  <2>2. Live = {}
    BY <2>1 DEF WorkersInv, Live, Pinging
  <2>3. TypeOK'
    <3>1. completed \in Nat /\ i \in 1..(Len(addresses) + 1)
          /\ completed' = completed + Len(tasks)
      BY <1>7, <1>0 DEF Collected, TypeOK
    <3>2. ASSUME pc = "batch"
          PROVE  completed' \in 0..Len(addresses) /\ i' \in 1..(Len(addresses) + 1)
                 /\ tasks' \in Seq(Slots) /\ j' \in Nat \ {0}
      BY <1>7, <1>0, <3>1, <3>2 DEF Collected, BatchInv, TypeOK
    <3>3. ASSUME pc = "final"
          PROVE  completed' \in 0..Len(addresses) /\ i' \in 1..(Len(addresses) + 1)
                 /\ tasks' \in Seq(Slots) /\ j' \in Nat \ {0}
      BY <1>7, <1>0, <3>1, <3>3 DEF Collected, BatchInv, TypeOK
    <3>4. completed' \in 0..Len(addresses) /\ i' \in 1..(Len(addresses) + 1)
          /\ tasks' \in Seq(Slots) /\ j' \in Nat \ {0}
      BY <1>7, <3>2, <3>3 DEF Collected
    <3> QED
      BY <1>7, <3>4 DEF Collected, TypeOK, StoreTypeOK, workerVars, signalVars, storeVars
  <2>4. BatchInv'
    BY <1>7, <1>0 DEF Collected, BatchInv, TypeOK, Launching
  <2>5. WorkersInv'
    <3>1. Live' = {}
      BY <1>7, <2>2 DEF Collected, Live, Pinging, workerVars
    <3> QED
      BY <1>7, <3>1 DEF Collected, WorkersInv
  <2>6. AnswersInv'
    BY <1>7 DEF Collected, AnswersInv, UniqueIPs, Launching, workerVars, storeVars
  <2> QED
    BY <2>3, <2>4, <2>5, <2>6
<1>8. CASE StoreHost
  <2>1. BatchInv' /\ WorkersInv'
    BY <1>8 DEF StoreHost, BatchInv, WorkersInv, Launching, Live, Pinging, workerVars
  <2>2. i' \in 1..(Len(addresses) + 1)
    BY <1>8, <1>0 DEF StoreHost, TypeOK
  <2>3. CASE ~online[i]
    <3>1. TypeOK'
      BY <1>8, <2>2, <2>3 DEF StoreHost, TypeOK, StoreTypeOK, workerVars, signalVars, storeVars
    <3>2. AnswersInv'
      BY <1>8, <2>3 DEF StoreHost, AnswersInv, UniqueIPs, Launching, workerVars, storeVars
    <3> QED
      BY <2>1, <3>1, <3>2
  <2>4. CASE online[i]
    <3> DEFINE h == [ip |-> addresses[i], online |-> TRUE]
    <3>1. i \in Slots /\ addresses[i] \in IPs /\ addresses[i] \in answering
      BY <1>8, <1>0, <2>4 DEF StoreHost, AnswersInv, TypeOK
    <3>2. h \in HostInfo /\ h.ip \in answering
      BY <3>1 DEF HostInfo
    <3>3. hosts' = HostAdded(hosts, h) /\ UNCHANGED <<host_ports, services>>
      BY <1>8, <2>4 DEF StoreHost, addHost
    <3> HIDE DEF h
    <3>4. hosts' \in Seq(HostInfo) /\ UniqueIPs(hosts')
      BY <3>2, <3>3, HostAddedKeeps DEF TypeOK, StoreTypeOK, AnswersInv
    <3>5. \A k \in DOMAIN hosts' : hosts'[k].ip \in answering
      <4>1. HostsAt(hosts, h.ip) \in SUBSET DOMAIN hosts
        BY DEF HostsAt
      <4>2. \A a, b \in HostsAt(hosts, h.ip) : a = b
        BY DEF HostsAt, AnswersInv, UniqueIPs
      <4>3. hosts \in Seq(HostInfo)
        BY DEF TypeOK, StoreTypeOK
      <4>4. PICK k \in DOMAIN hosts' :
              /\ hosts'[k] = h
              /\ \A m \in DOMAIN hosts' : m # k => m \in DOMAIN hosts /\ hosts'[m] = hosts[m]
        BY <3>2, <3>3, <4>1, <4>2, <4>3, UpsertResult DEF HostAdded
      <4>5. \A m \in DOMAIN hosts : hosts[m].ip \in answering
        BY <1>8 DEF StoreHost, AnswersInv
      <4> QED
        BY <4>4, <4>5, <3>2
    <3>6. TypeOK'
      BY <1>8, <2>2, <3>3, <3>4 DEF StoreHost, TypeOK, StoreTypeOK, workerVars, signalVars
    <3>7. AnswersInv'
      BY <1>8, <3>3, <3>4, <3>5 DEF StoreHost, AnswersInv, Launching, workerVars
    <3> QED
      BY <2>1, <3>6, <3>7
  <2> QED
    BY <2>3, <2>4
<1>9. CASE Succeed
  <2>1. TypeOK'
    BY <1>9 DEF Succeed, TypeOK, StoreTypeOK, workerVars, signalVars, storeVars
  <2>2. BatchInv' /\ WorkersInv'
    BY <1>9 DEF Succeed, BatchInv, WorkersInv, Launching, Live, Pinging, workerVars
  <2>3. AnswersInv'
    BY <1>9 DEF Succeed, AnswersInv, UniqueIPs, Launching, workerVars, storeVars
  <2> QED
    BY <2>1, <2>2, <2>3
<1>10. CASE Unwind
  <2>1. Live = {}
    BY <1>10 DEF Unwind, WorkersInv, Live, Pinging
  <2>2. TypeOK'
    BY <1>10 DEF Unwind, TypeOK, StoreTypeOK, workerVars, signalVars, storeVars
  <2>3. BatchInv' /\ WorkersInv'
    BY <1>10, <2>1 DEF Unwind, BatchInv, WorkersInv, Launching, Live, Pinging, workerVars
  <2>4. AnswersInv'
    BY <1>10 DEF Unwind, AnswersInv, UniqueIPs, Launching, workerVars, storeVars
  <2> QED
    BY <2>2, <2>3, <2>4
<1> QED
  BY <1>1, <1>2, <1>3, <1>4, <1>5, <1>6, <1>7, <1>8, <1>9, <1>10 DEF Caller

(* A worker keeps the invariant: it answers for its own slot only.         *)
LEMMA WorkerInv ==
  ASSUME DiscoveryInv, NEW s \in Slots, Worker(s) PROVE DiscoveryInv'
<1> USE DiscoveryAssumption DEF DiscoveryInv
<1>1. CASE PingStarts(s)
  <2>1. TypeOK'
    BY <1>1 DEF PingStarts, TypeOK, StoreTypeOK, callerVars, signalVars, storeVars
  <2>2. BatchInv' /\ AnswersInv'
    BY <1>1 DEF PingStarts, BatchInv, AnswersInv, UniqueIPs, callerVars, storeVars
  <2>3. Live' = Live
    BY <1>1 DEF PingStarts, Live, Pinging, TypeOK
  <2>4. \A q \in Slots : ping[q] = "returned" => ping'[q] = "returned"
    BY <1>1 DEF PingStarts, TypeOK
  <2>5. WorkersInv'
    BY <1>1, <2>3, <2>4, TaskIsSlot DEF PingStarts, WorkersInv, callerVars
  <2> QED
    BY <2>1, <2>2, <2>5
<1>2. CASE PingExits(s)
  <2>0. PICK ran \in BOOLEAN :
          LET code == IF ran /\ ping[s] = "pinging" /\ addresses[s] \in answering
                      THEN 0 ELSE 1 IN
          /\ reachable' = [reachable EXCEPT ![s] = (code = 0)]
          /\ unrun' = IF ran THEN unrun \ {s} ELSE unrun \cup {s}
    BY <1>2 DEF PingExits
  <2> DEFINE answered == ran /\ ping[s] = "pinging" /\ addresses[s] \in answering
  <2>1. /\ s \in Pinging /\ unrun' \in SUBSET Slots
        /\ ping' = [ping EXCEPT ![s] = "returned"]
        /\ latencies' = [latencies EXCEPT ![s] = TRUE]
        /\ UNCHANGED <<callerVars, signalVars, answering, storeVars>>
    BY <1>2, <2>0 DEF PingExits, TypeOK
  <2>2. \E b \in BOOLEAN : /\ reachable' = [reachable EXCEPT ![s] = b]
                           /\ b => addresses[s] \in answering
    <3> DEFINE code == (IF answered THEN 0 ELSE 1) = 0
    <3>1. reachable' = [reachable EXCEPT ![s] = code]
      BY <2>0
    <3>2. code \in BOOLEAN
      OBVIOUS
    <3>3. code => addresses[s] \in answering
      OBVIOUS
    <3> HIDE DEF code
    <3> QED
      BY <3>1, <3>2, <3>3
  <2> HIDE DEF answered
  <2>3. reachable' \in [Slots -> BOOLEAN]
        /\ \A q \in Slots : reachable'[q] => addresses[q] \in answering
    BY <2>2 DEF TypeOK, AnswersInv
  <2>4. TypeOK'
    BY <2>1, <2>3 DEF TypeOK, StoreTypeOK, callerVars, signalVars, storeVars
  <2>5. BatchInv' /\ AnswersInv'
    BY <2>1, <2>3 DEF BatchInv, AnswersInv, UniqueIPs, callerVars, storeVars
  <2>6. Live' \subseteq Live
    BY <2>1 DEF Live, Pinging, TypeOK
  <2>7. \A q \in Slots : ping[q] = "returned" => ping'[q] = "returned"
    BY <2>1 DEF TypeOK
  <2>8. WorkersInv'
    BY <2>1, <2>6, <2>7, TaskIsSlot DEF WorkersInv, callerVars
  <2> QED
    BY <2>4, <2>5, <2>8
<1> QED
  BY <1>1, <1>2 DEF Worker

(* Ctrl+C keeps the invariant: a ping it ends is still to be collected.    *)
LEMMA SignalInv ==
  ASSUME DiscoveryInv, Signal PROVE DiscoveryInv'
<1> USE DEF DiscoveryInv
<1>1. PICK ended \in SUBSET Pinging :
        ping' = [s \in Slots |-> IF s \in ended THEN "interrupted" ELSE ping[s]]
  BY DEF Signal
<1>2. stopRequested' \in BOOLEAN /\ pressed' \in BOOLEAN
  BY DEF Signal
<1>3. TypeOK'
  BY <1>1, <1>2 DEF Signal, TypeOK, StoreTypeOK, callerVars, storeVars
<1>4. BatchInv' /\ AnswersInv'
  BY DEF Signal, BatchInv, AnswersInv, UniqueIPs, callerVars, storeVars
<1>5. Live' = Live
  BY <1>1 DEF Live, Pinging, TypeOK
<1>6. \A q \in Slots : ping[q] = "returned" => ping'[q] = "returned"
  BY <1>1 DEF Pinging, TypeOK
<1>7. WorkersInv'
  BY <1>5, <1>6, TaskIsSlot DEF Signal, WorkersInv, callerVars
<1> QED
  BY <1>3, <1>4, <1>7

LEMMA DiscoveryInvariant == Spec => []DiscoveryInv
<1>1. DiscoveryInv /\ [Next]_discoveryVars => DiscoveryInv'
  <2>1. DiscoveryInv /\ UNCHANGED discoveryVars => DiscoveryInv'
    BY DEF DiscoveryInv, discoveryVars, callerVars, workerVars, signalVars, storeVars,
       TypeOK, StoreTypeOK, BatchInv, WorkersInv, AnswersInv, UniqueIPs, Live, Pinging
  <2> QED
    BY <2>1, CallerInv, WorkerInv, SignalInv DEF Next, Terminated
<1> QED
  BY DiscoveryInit, <1>1, PTL DEF Spec

-----------------------------------------------------------------------------
(* No more workers are alive than there are futures in the vector.         *)
LEMMA LiveAtMostTasks ==
  ASSUME DiscoveryInv PROVE Cardinality(Live) <= MAX_CONCURRENT
<1> DEFINE f == [s \in Live |-> CHOOSE k \in DOMAIN tasks : tasks[k] = s]
           n == Len(tasks)
<1>1. n \in Nat /\ DOMAIN tasks = 1..n /\ n <= MAX_CONCURRENT
  BY DEF DiscoveryInv, TypeOK, BatchInv
<1>2. \A s \in Live : f[s] \in DOMAIN tasks /\ tasks[f[s]] = s
  BY DEF DiscoveryInv, WorkersInv
<1>3. f \in Injection(Live, 1..n)
  BY <1>1, <1>2 DEF Injection, IsInjective
<1> HIDE DEF f, n
<1>4. n \in Int /\ 1 \in Int /\ n >= 0
  BY <1>1
<1>5. /\ IsFiniteSet(1..n)
      /\ Cardinality(1..n) = IF 1 > n THEN 0 ELSE n - 1 + 1
  BY <1>4, FS_Interval
<1>6. Cardinality(1..n) = n
  BY <1>4, <1>5
<1>7. IsFiniteSet(Live) /\ Cardinality(Live) <= Cardinality(1..n)
  BY <1>3, <1>5, FS_Injection
<1>8. Cardinality(Live) \in Nat
  BY <1>7, FS_CardinalityType
<1> QED
  BY <1>1, <1>6, <1>7, <1>8, DiscoveryAssumption

(* NetworkDiscovery::discover (src/network/network_discovery.cpp:411)      *)
(* keeps the pings below MAX_CONCURRENT and returns, by whichever way and  *)
(* whatever Ctrl+C does, only when no worker is left that could write its  *)
(* buffers.                                                                *)
THEOREM WorkersAreAccountedFor == Spec => []WorkersAccountedFor
<1>1. DiscoveryInv => WorkersAccountedFor
  <2> SUFFICES ASSUME DiscoveryInv PROVE WorkersAccountedFor
    OBVIOUS
  <2>1. pc = "done" => Live = {}
    BY DEF DiscoveryInv, WorkersInv
  <2> QED
    BY <2>1, LiveAtMostTasks DEF WorkersAccountedFor, BuffersOutliveWorkers, PingsBounded
<1> QED
  BY <1>1, DiscoveryInvariant, PTL

(* A discovery never shows hosts beside data of an earlier one, nor a host *)
(* that does not answer; a failed one leaves no hosts.                     *)
THEOREM StoreIsNotMixed == Spec => []NoMixture
<1>1. DiscoveryInv => NoMixture
  BY DEF DiscoveryInv, AnswersInv, NoMixture
<1> QED
  BY <1>1, DiscoveryInvariant, PTL

-----------------------------------------------------------------------------
(* What has been collected is what was measured, and what was measured is  *)
(* the truth unless Ctrl+C interfered: the k-th future of a batch carries  *)
(* the answer of slot completed + k, so that every slot before             *)
(* completed + j has been credited with its own answer.                    *)
FoundInv ==
  /\ \A s \in Slots : ping[s] = "returned" => latencies[s]
  /\ ~pressed => \A s \in Slots :
       /\ ping[s] # "interrupted"
       /\ ping[s] = "returned" =>
            (reachable[s] <=> addresses[s] \in answering /\ s \notin unrun)
  /\ pc \in Launching => \A s \in Slots :
       /\ s < completed + j => ping[s] = "returned" /\ online[s] = reachable[s]
       /\ s >= completed + j => ~online[s]
  /\ pc = "store" \/ success => \A s \in Slots :
       ping[s] = "returned" /\ online[s] = reachable[s]
  /\ pc = "final" => i = Len(addresses) + 1
  /\ pc = "store" \/ success => HostsAreOnlineBefore(i)
  /\ success => i = Len(addresses) + 1 /\ pc \in {"unwind", "done"}

(* The steps of the caller that touch neither what was found nor the store.*)
LEMMA FoundPassesBy ==
  ASSUME DiscoveryInv, FoundInv, ClearState \/ DetectLocalNetwork \/ StopCheck \/ Unwind
  PROVE  FoundInv'
<1>1. CASE ClearState
  BY <1>1 DEF ClearState, FoundInv, HostsAreOnlineBefore, Launching, workerVars, signalVars
<1>2. CASE DetectLocalNetwork
  BY <1>2 DEF DetectLocalNetwork, FoundInv, HostsAreOnlineBefore, Launching,
     workerVars, signalVars, storeVars
<1>3. CASE StopCheck
  <2>1. i \in 1..(Len(addresses) + 1) /\ Len(addresses) \in Nat
    BY DiscoveryAssumption DEF DiscoveryInv, TypeOK
  <2> QED
    BY <1>3, <2>1 DEF StopCheck, FoundInv, HostsAreOnlineBefore, Launching,
       workerVars, signalVars, storeVars
<1>4. CASE Unwind
  BY <1>4 DEF Unwind, FoundInv, HostsAreOnlineBefore, Launching,
     workerVars, signalVars, storeVars
<1> QED
  BY <1>1, <1>2, <1>3, <1>4

(* The caller keeps it: a batch ends exactly where its last answer was     *)
(* credited, and the storing loop appends, since addresses differ.         *)
LEMMA FoundCallerInv ==
  ASSUME DiscoveryInv, FoundInv, Caller PROVE FoundInv'
<1> USE DiscoveryAssumption
<1>0. /\ Len(addresses) \in Nat /\ Len(tasks) \in Nat /\ Slots = 1..Len(addresses)
      /\ completed \in Nat /\ j \in Nat /\ i \in Nat
      /\ DOMAIN tasks = 1..Len(tasks) /\ DOMAIN addresses = Slots
  BY DEF DiscoveryInv, TypeOK, Slots
<1>1. CASE ClearState \/ DetectLocalNetwork \/ StopCheck \/ Unwind
  BY <1>1, FoundPassesBy
<1>2. CASE Launch
  <2>1. i = completed + Len(tasks) + 1 /\ j = 1 /\ i \in Slots /\ ~success
        /\ pc \in Launching /\ pc' \in {"batch", "check"} /\ pc' \in Launching
    BY <1>2, <1>0 DEF Launch, DiscoveryInv, BatchInv, FoundInv, Launching
  <2>2. /\ ping' = [ping EXCEPT ![i] = "started"]
        /\ UNCHANGED <<j, completed, online, success, reachable, latencies, pressed, unrun, answering>>
    BY <1>2 DEF Launch, signalVars
  <2>3. \A s \in Slots : ping'[s] = IF s = i THEN "started" ELSE ping[s]
    BY <2>1, <2>2 DEF DiscoveryInv, TypeOK
  <2>4. i >= completed + j
    BY <1>0, <2>1
  <2> QED
    BY <1>0, <2>1, <2>2, <2>3, <2>4 DEF FoundInv
<1>3. CASE LaunchThrows
  <2>1. ~success /\ pc' = "aborted" /\ ~success'
        /\ (\A s \in Slots : ping'[s] = "none") /\ UNCHANGED <<pressed, latencies>>
    BY <1>3 DEF LaunchThrows, FoundInv, signalVars
  <2> QED
    BY <2>1 DEF FoundInv, Launching
<1>4. CASE Collect
  <2>1. /\ j \in DOMAIN tasks /\ tasks[j] = completed + j /\ tasks[j] \in Slots
        /\ pc \in {"batch", "final"} /\ pc \in Launching
    <3>1. j \in 1..Len(tasks) /\ pc \in {"batch", "final"}
      BY <1>4, <1>0 DEF Collect, DiscoveryInv, TypeOK
    <3>2. tasks[j] \in Slots
      BY <3>1, <1>0 DEF DiscoveryInv, TypeOK
    <3> QED
      BY <3>1, <3>2, <1>0 DEF DiscoveryInv, BatchInv, Launching
  <2>2. /\ ping[completed + j] = "returned"
        /\ online' = [online EXCEPT ![completed + j] = reachable[completed + j]]
        /\ j' = j + 1
        /\ UNCHANGED <<pc, i, completed, success, ping, reachable, latencies, pressed, unrun,
                       answering>>
    BY <1>4, <2>1 DEF Collect, workerVars, signalVars
  <2>3. \A s \in Slots : online'[s] = IF s = completed + j THEN reachable[s] ELSE online[s]
    BY <2>1, <2>2 DEF DiscoveryInv, TypeOK
  <2>4. \A s \in Slots : s < completed' + j' <=> s < completed + j \/ s = completed + j
    BY <1>0, <2>2
  <2>5. \A s \in Slots : s >= completed' + j' => s >= completed + j /\ s # completed + j
    BY <1>0, <2>2
  <2>6. ~success /\ pc # "store"
    BY <2>1 DEF FoundInv
  <2> QED
    BY <1>0, <2>1, <2>2, <2>3, <2>4, <2>5, <2>6 DEF FoundInv
<1>5. CASE Collected
  <2>1. /\ j = Len(tasks) + 1 /\ pc \in {"batch", "final"} /\ ~success
        /\ completed' = completed + Len(tasks)
        /\ UNCHANGED <<online, success, ping, reachable, latencies, pressed, unrun, answering, hosts>>
    BY <1>5, <1>0 DEF Collected, DiscoveryInv, BatchInv, FoundInv, workerVars, signalVars, storeVars
  <2>2. \A s \in Slots : /\ s < completed + j => ping[s] = "returned" /\ online[s] = reachable[s]
                         /\ s >= completed + j => ~online[s]
    BY <2>1 DEF FoundInv, Launching
  <2>3. CASE pc = "batch"
    <3>1. pc' = "check" /\ j' = 1 /\ completed' + j' = completed + j
      BY <1>5, <2>1, <2>3, <1>0 DEF Collected
    <3> QED
      BY <2>1, <2>2, <3>1 DEF FoundInv
  <2>4. CASE pc = "final"
    <3>1. pc' = "store" /\ i' = 1 /\ Len(addresses) < completed + j
      <4>1. i = Len(addresses) + 1 /\ i = completed + Len(tasks) + 1
        BY <2>4 DEF FoundInv, DiscoveryInv, BatchInv
      <4> QED
        BY <1>5, <2>1, <2>4, <1>0, <4>1 DEF Collected
    <3>2. \A s \in Slots : ping[s] = "returned" /\ online[s] = reachable[s]
      BY <1>0, <2>2, <3>1
    <3>3. hosts' = <<>>
      BY <2>1, <2>4 DEF DiscoveryInv, AnswersInv, Launching
    <3>4. HostsAreOnlineBefore(i)'
      BY <1>0, <3>1, <3>3 DEF HostsAreOnlineBefore
    <3> QED
      BY <2>1, <3>1, <3>2, <3>4 DEF FoundInv, Launching
  <2> QED
    BY <2>1, <2>3, <2>4
<1>6. CASE StoreHost
  <2>1. /\ pc = "store" /\ i \in Slots /\ i' = i + 1 /\ ~success
        /\ UNCHANGED <<pc, j, completed, online, success, ping, reachable, latencies,
                       pressed, unrun, answering>>
    BY <1>6, <1>0 DEF StoreHost, DiscoveryInv, TypeOK, FoundInv, workerVars, signalVars
  <2>2. HostsAreOnlineBefore(i)
    BY <2>1 DEF FoundInv
  <2>3. \A s \in Slots : s < i + 1 <=> s < i \/ s = i
    BY <1>0
  <2>4. HostsAreOnlineBefore(i)'
    <3>1. CASE ~online[i]
      <4>1. hosts' = hosts
        BY <1>6, <3>1 DEF StoreHost, storeVars
      <4> QED
        BY <2>1, <2>2, <2>3, <3>1, <4>1 DEF HostsAreOnlineBefore
    <3>2. CASE online[i]
      <4> DEFINE h == [ip |-> addresses[i], online |-> TRUE]
      <4>1. hosts \in Seq(HostInfo) /\ h.ip = addresses[i]
        BY DEF DiscoveryInv, TypeOK, StoreTypeOK
      <4>2. \A k \in DOMAIN hosts : hosts[k].ip # addresses[i]
        <5> SUFFICES ASSUME NEW k \in DOMAIN hosts PROVE hosts[k].ip # addresses[i]
          OBVIOUS
        <5>1. PICK s \in Slots : s < i /\ hosts[k] = [ip |-> addresses[s], online |-> TRUE]
          BY <2>2 DEF HostsAreOnlineBefore
        <5>2. s # i
          BY <5>1, <1>0
        <5>3. addresses[s] # addresses[i]
          BY <5>2, <2>1, <1>0 DEF IsInjective
        <5> QED
          BY <5>1, <5>3
      <4>3. hosts' = Append(hosts, h)
        <5>1. HostsAt(hosts, h.ip) = {}
          BY <4>1, <4>2 DEF HostsAt
        <5>2. hosts' = HostAdded(hosts, h)
          BY <1>6, <3>2 DEF StoreHost, addHost
        <5> HIDE DEF h
        <5> QED
          BY <5>1, <5>2 DEF HostAdded, Upsert
      <4>4. /\ DOMAIN hosts = 1..Len(hosts) /\ Len(hosts) \in Nat
            /\ DOMAIN hosts' = 1..(Len(hosts) + 1)
            /\ \A k \in DOMAIN hosts : hosts'[k] = hosts[k]
            /\ hosts'[Len(hosts) + 1] = h
        <5>1. h \in HostInfo
          BY <2>1, <1>0 DEF HostInfo
        <5> HIDE DEF h
        <5> QED
          BY <4>1, <4>3, <5>1
      <4>5. \A k \in DOMAIN hosts' : k \in DOMAIN hosts \/ k = Len(hosts) + 1
        BY <4>4
      <4>6. \A k \in DOMAIN hosts' : \E s \in Slots :
              s < i + 1 /\ online[s] /\ hosts'[k] = [ip |-> addresses[s], online |-> TRUE]
        BY <2>1, <2>2, <2>3, <3>2, <4>4, <4>5 DEF HostsAreOnlineBefore
      <4>7. \A s \in Slots : s < i + 1 /\ online[s] =>
              \E k \in DOMAIN hosts' : hosts'[k].ip = addresses[s]
        <5> SUFFICES ASSUME NEW s \in Slots, s < i + 1, online[s]
                     PROVE  \E k \in DOMAIN hosts' : hosts'[k].ip = addresses[s]
          OBVIOUS
        <5>1. CASE s = i
          BY <5>1, <4>1, <4>4
        <5>2. CASE s < i
          <6>1. PICK k \in DOMAIN hosts : hosts[k].ip = addresses[s]
            BY <5>2, <2>2 DEF HostsAreOnlineBefore
          <6> QED
            BY <6>1, <4>4
        <5> QED
          BY <2>3, <5>1, <5>2
      <4>8. \A k, l \in DOMAIN hosts' : \A s, t \in Slots :
              k < l /\ hosts'[k].ip = addresses[s] /\ hosts'[l].ip = addresses[t] => s < t
        <5> SUFFICES ASSUME NEW k \in DOMAIN hosts', NEW l \in DOMAIN hosts',
                            NEW s \in Slots, NEW t \in Slots, k < l,
                            hosts'[k].ip = addresses[s], hosts'[l].ip = addresses[t]
                     PROVE  s < t
          OBVIOUS
        <5>1. k \in DOMAIN hosts /\ hosts'[k] = hosts[k]
          BY <4>4
        <5>2. CASE l \in DOMAIN hosts
          BY <5>1, <5>2, <4>4, <2>2 DEF HostsAreOnlineBefore
        <5>3. CASE l = Len(hosts) + 1
          <6>1. addresses[t] = addresses[i]
            BY <5>3, <4>1, <4>4
          <6>2. t = i
            BY <6>1, <2>1, <1>0 DEF IsInjective
          <6>3. PICK q \in Slots : q < i /\ hosts[k] = [ip |-> addresses[q], online |-> TRUE]
            BY <5>1, <2>2 DEF HostsAreOnlineBefore
          <6>4. addresses[q] = addresses[s]
            BY <5>1, <6>3
          <6>5. q = s
            BY <6>4, <1>0 DEF IsInjective
          <6> QED
            BY <6>2, <6>3, <6>5
        <5> QED
          BY <4>5, <5>2, <5>3
      <4> QED
        BY <2>1, <4>6, <4>7, <4>8 DEF HostsAreOnlineBefore
    <3> QED
      BY <3>1, <3>2
  <2> QED
    BY <2>1, <2>4 DEF FoundInv, Launching
<1>7. CASE Succeed
  <2>1. /\ pc = "store" /\ i = Len(addresses) + 1 /\ pc' = "unwind" /\ success'
        /\ UNCHANGED <<i, online, ping, reachable, latencies, pressed, unrun, answering, hosts>>
    BY <1>7, <1>0 DEF Succeed, DiscoveryInv, TypeOK, workerVars, signalVars, storeVars
  <2>2. HostsAreOnlineBefore(i)'
    BY <2>1 DEF FoundInv, HostsAreOnlineBefore
  <2> QED
    BY <2>1, <2>2 DEF FoundInv, Launching
<1> QED
  BY <1>1, <1>2, <1>3, <1>4, <1>5, <1>6, <1>7 DEF Caller

(* A worker answers once: the slot it answers for was not collected yet.   *)
LEMMA FoundWorkerInv ==
  ASSUME DiscoveryInv, FoundInv, NEW s \in Slots, Worker(s) PROVE FoundInv'
<1>1. /\ ping[s] # "returned"
      /\ UNCHANGED <<pc, i, j, completed, online, success, pressed, answering, hosts>>
  BY DEF Worker, PingStarts, PingExits, Pinging, callerVars, signalVars, storeVars
<1>2. CASE PingStarts(s)
  <2>1. /\ \A q \in Slots : ping'[q] = IF q = s THEN "pinging" ELSE ping[q]
        /\ UNCHANGED <<reachable, latencies, unrun>>
    BY <1>2 DEF PingStarts, DiscoveryInv, TypeOK
  <2> QED
    BY <1>1, <2>1 DEF FoundInv, HostsAreOnlineBefore
<1>3. CASE PingExits(s)
  <2>0. PICK ran \in BOOLEAN :
          /\ s \in Pinging
          /\ LET exitCode == IF ran /\ ping[s] = "pinging"
                                    /\ addresses[s] \in answering
                             THEN 0 ELSE 1
             IN  reachable' = [reachable EXCEPT ![s] = (exitCode = 0)]
          /\ unrun' = IF ran THEN unrun \ {s} ELSE unrun \cup {s}
    BY <1>3 DEF PingExits
  <2> DEFINE code == (IF ran /\ ping[s] = "pinging" /\ addresses[s] \in answering
                      THEN 0 ELSE 1) = 0
  <2>1. code \in BOOLEAN
        /\ (code <=> ran /\ ping[s] = "pinging" /\ addresses[s] \in answering)
    OBVIOUS
  <2>2. reachable' = [reachable EXCEPT ![s] = code] /\ s \in Pinging
    BY <2>0
  <2> HIDE DEF code
  <2>3. /\ \A q \in Slots : ping'[q] = IF q = s THEN "returned" ELSE ping[q]
        /\ \A q \in Slots : reachable'[q] = IF q = s THEN code ELSE reachable[q]
        /\ \A q \in Slots : latencies'[q] = IF q = s THEN TRUE ELSE latencies[q]
    BY <1>3, <2>2 DEF PingExits, DiscoveryInv, TypeOK
  <2>4. ~pressed => ping[s] = "pinging"
    BY <2>2 DEF FoundInv, Pinging
  <2>5. /\ \A q \in Slots : q # s => (q \in unrun' <=> q \in unrun)
        /\ s \in unrun' <=> ~ran
    BY <2>0
  <2>6. ~pressed => (code <=> addresses[s] \in answering /\ s \notin unrun')
    BY <2>1, <2>4, <2>5
  <2> QED
    BY <1>1, <2>3, <2>5, <2>6 DEF FoundInv, HostsAreOnlineBefore
<1> QED
  BY <1>2, <1>3 DEF Worker

(* Ctrl+C is remembered, and leaves what has returned as it is.            *)
LEMMA FoundSignalInv ==
  ASSUME DiscoveryInv, FoundInv, Signal PROVE FoundInv'
<1>1. /\ pressed' = TRUE
      /\ UNCHANGED <<pc, i, j, completed, online, success, reachable, latencies, hosts>>
  BY DEF Signal, callerVars, storeVars
<1>2. \A q \in Slots : ping'[q] = "returned" <=> ping[q] = "returned"
  BY DEF Signal, Pinging, DiscoveryInv, TypeOK
<1> QED
  BY <1>1, <1>2 DEF FoundInv, HostsAreOnlineBefore

(* A successful discovery lists the online addresses in ascending order,   *)
(* all of them answering and measured, and unless Ctrl+C was pressed these *)
(* are exactly the answering ones whose `ping` could be run: the batch     *)
(* arithmetic online[completed + j] = tasks[j].get()                       *)
(* (src/network/network_discovery.cpp:460) shifts no answer to another     *)
(* address, for any number of batches and any size of the last one.        *)
THEOREM SuccessfulDiscoveryIsExact == Spec => []SuccessIsExact
<1>1. Init => FoundInv
  <2> SUFFICES ASSUME Init PROVE FoundInv
    OBVIOUS
  <2>1. pc = "clear" /\ completed = 0 /\ j = 1 /\ ~success
    BY DEF Init
  <2>2. \A s \in Slots : ping[s] = "none" /\ ~online[s] /\ s >= completed + j
    BY <2>1, DiscoveryAssumption DEF Init, Slots
  <2> QED
    BY <2>1, <2>2, DiscoveryAssumption DEF FoundInv, Slots
<1>2. DiscoveryInv /\ FoundInv /\ [Next]_discoveryVars => FoundInv'
  <2>1. FoundInv /\ UNCHANGED discoveryVars => FoundInv'
    BY DEF FoundInv, HostsAreOnlineBefore, discoveryVars, callerVars, workerVars,
       signalVars, storeVars
  <2> QED
    BY <2>1, FoundCallerInv, FoundWorkerInv, FoundSignalInv DEF Next, Terminated
<1>3. DiscoveryInv /\ FoundInv => SuccessIsExact
  <2> SUFFICES ASSUME DiscoveryInv, FoundInv, pc = "done", success PROVE SuccessIsExact
    BY DEF SuccessIsExact
  <2>1. HostsAreOnlineBefore(Len(addresses) + 1)
    BY DEF FoundInv
  <2>2. \A s \in Slots : ping[s] = "returned" /\ online[s] = reachable[s] /\ latencies[s]
    BY DEF FoundInv
  <2>3. \A s \in Slots : online[s] => latencies[s] /\ addresses[s] \in answering
    BY <2>2 DEF DiscoveryInv, AnswersInv
  <2>4. ~pressed => \A s \in Slots :
          online[s] <=> addresses[s] \in answering /\ s \notin unrun
    BY <2>2 DEF FoundInv
  <2> QED
    BY <2>1, <2>3, <2>4 DEF SuccessIsExact
<1> QED
  BY <1>1, <1>2, <1>3, DiscoveryInvariant, PTL DEF Spec
=============================================================================
