-------------------------- MODULE NetworkDiscovery --------------------------
(***************************************************************************)
(* One ip|:seek: NetworkDiscovery::discover with the worker threads it     *)
(* starts through std::async, each of which runs one `ping` child process  *)
(* through std::system, and Ctrl+C arriving at any moment.  The store it   *)
(* writes is the one of module NetworkState.                               *)
(*                                                                         *)
(* While any thread of the process is inside std::system, SIGINT is        *)
(* ignored by the process and only reaches the ping children, which it     *)
(* ends.  The stop flag is set only by a press at a moment without a ping. *)
(***************************************************************************)
EXTENDS NetworkState, SequencesExt

CONSTANTS
  addresses,      (* the 254 host addresses of the /24, ascending          *)
  MAX_CONCURRENT  (* 32 in the code                                        *)

ASSUME DiscoveryAssumption ==
  /\ addresses \in Seq(IPs)
  /\ IsInjective(addresses)
  /\ MAX_CONCURRENT \in Nat \ {0}

Slots == 1..Len(addresses)

VARIABLES
  pc,             (* where the calling thread is                           *)
  i,              (* the address the launching loop is at                  *)
  tasks,          (* the futures vector, each named by its slot            *)
  j,              (* the next task to collect                              *)
  completed,      (* results collected in earlier batches                  *)
  online,         (* std::vector<bool>, written by the caller              *)
  latencies,      (* latencies[s]: slot s has been measured                *)
  success,        (* what discover returns                                 *)
  ping,           (* ping[s]: progress of the worker of slot s             *)
  reachable,      (* reachable[s]: what that worker returned               *)
  unrun,          (* history: the slots whose `ping` could not be run      *)
  answering,      (* environment: the hosts that answer a ping             *)
  stopRequested,  (* SignalHandler::stopRequested                          *)
  pressed         (* history: Ctrl+C was pressed                           *)

callerVars == <<pc, i, tasks, j, completed, online, success>>
workerVars == <<ping, reachable, latencies, unrun>>
signalVars == <<stopRequested, pressed>>
discoveryVars ==
  <<callerVars, workerVars, signalVars, answering, storeVars>>

(* The workers whose thread exists, and those inside std::system.          *)
Pinging == {s \in Slots : ping[s] \in {"pinging", "interrupted"}}
Live    == {s \in Slots : ping[s] = "started"} \cup Pinging

Init ==
  /\ pc = "clear"
  /\ i = 1
  /\ tasks = <<>>
  /\ j = 1
  /\ completed = 0
  /\ online = [s \in Slots |-> FALSE]
  /\ latencies = [s \in Slots |-> FALSE]
  /\ success = FALSE
  /\ ping = [s \in Slots |-> "none"]
  /\ reachable = [s \in Slots |-> FALSE]
  /\ unrun = {}
  /\ answering \in SUBSET IPs
  /\ stopRequested = FALSE
  /\ pressed = FALSE
  /\ hosts \in {<<>>} \cup {<<h>> : h \in HostInfo}
  /\ host_ports \in
       {<<>>} \cup {<<[ip |-> ip, ports |-> <<p>>]>> : ip \in IPs, p \in PortInfo}
  /\ services = <<>>

-----------------------------------------------------------------------------
(* The calling thread.                                                     *)

(* Fault: only the hosts of the store are dropped.                         *)
ClearHostsOnly ==
  /\ pc = "clear"
  /\ hosts' = <<>>
  /\ UNCHANGED <<host_ports, services>>
  /\ pc' = "detect"
  /\ UNCHANGED <<i, tasks, j, completed, online, success>>
  /\ UNCHANGED <<workerVars, signalVars, answering>>

(* state.clear() comes first, before anything that can fail.               *)
ClearState ==
  /\ pc = "clear"
  /\ clear
  /\ pc' = "detect"
  /\ UNCHANGED <<i, tasks, j, completed, online, success>>
  /\ UNCHANGED <<workerVars, signalVars, answering>>

(* detectLocalNetwork: no interface that is up, has an IPv4 address and is *)
(* not the loopback ends the discovery; else the launching loop begins.    *)
DetectLocalNetwork ==
  /\ pc = "detect"
  /\ pc' \in {"done", "check"}
  /\ UNCHANGED <<i, tasks, j, completed, online, success>>
  /\ UNCHANGED <<workerVars, signalVars, answering, storeVars>>

(* Fault: the last address is left out.                                    *)
StopCheckShort ==
  /\ pc = "check"
  /\ pc' = IF i >= Len(addresses) THEN "final"
           ELSE IF stopRequested THEN "unwind" ELSE "launch"
  /\ UNCHANGED <<i, tasks, j, completed, online, success>>
  /\ UNCHANGED <<workerVars, signalVars, answering, storeVars>>

(* Head of the launching loop: past the last address the last batch is     *)
(* collected; a stop request leaves the function.                          *)
StopCheck ==
  /\ pc = "check"
  /\ pc' = IF i > Len(addresses) THEN "final"
           ELSE IF stopRequested THEN "unwind" ELSE "launch"
  /\ UNCHANGED <<i, tasks, j, completed, online, success>>
  /\ UNCHANGED <<workerVars, signalVars, answering, storeVars>>

(* tasks.push_back(std::async(...)), and the comparison with               *)
(* MAX_CONCURRENT that starts the collection of a batch.                   *)
Launch ==
  /\ pc = "launch"
  /\ tasks' = Append(tasks, i)
  /\ ping' = [ping EXCEPT ![i] = "started"]
  /\ IF Len(tasks') >= MAX_CONCURRENT
     THEN pc' = "batch" /\ UNCHANGED i
     ELSE pc' = "check" /\ i' = i + 1
  /\ UNCHANGED <<j, completed, online, success, reachable, latencies, unrun>>
  /\ UNCHANGED <<signalVars, answering, storeVars>>

(* std::async throws when no thread can be created; nothing catches it.    *)
LaunchThrows ==
  /\ pc = "launch"
  /\ pc' = "aborted"
  /\ ping' = [s \in Slots |-> "none"]
  /\ UNCHANGED <<i, tasks, j, completed, online, success>>
  /\ UNCHANGED <<reachable, latencies, unrun>>
  /\ UNCHANGED <<signalVars, answering, storeVars>>

(* online[completed + j] = tasks[j].get(): blocks until the worker is done.*)
(* (The loops of the code count tasks from 0, this one from 1.)            *)
Collect ==
  /\ pc \in {"batch", "final"}
  /\ j <= Len(tasks)
  /\ ping[tasks[j]] = "returned"
  /\ online' = [online EXCEPT ![completed + j] = reachable[tasks[j]]]
  /\ j' = j + 1
  /\ UNCHANGED <<pc, i, tasks, completed, success>>
  /\ UNCHANGED <<workerVars, signalVars, answering, storeVars>>

(* completed += tasks.size(); after a batch tasks.clear() and ++i, after   *)
(* the last one the store is written.                                      *)
Collected ==
  /\ pc \in {"batch", "final"}
  /\ j > Len(tasks)
  /\ completed' = completed + Len(tasks)
  /\ IF pc = "batch"
     THEN pc' = "check" /\ tasks' = <<>> /\ i' = i + 1 /\ j' = 1
     ELSE pc' = "store" /\ i' = 1 /\ UNCHANGED <<tasks, j>>
  /\ UNCHANGED <<online, success>>
  /\ UNCHANGED <<workerVars, signalVars, answering, storeVars>>

(* One round of the storing loop: an online address is added as a host.    *)
StoreHost ==
  /\ pc = "store"
  /\ i <= Len(addresses)
  /\ IF online[i] THEN addHost([ip |-> addresses[i], online |-> TRUE])
                  ELSE UNCHANGED storeVars
  /\ i' = i + 1
  /\ UNCHANGED <<pc, tasks, j, completed, online, success>>
  /\ UNCHANGED <<workerVars, signalVars, answering>>

(* The tables and the summary are printed and discover returns true.       *)
Succeed ==
  /\ pc = "store"
  /\ i > Len(addresses)
  /\ success' = TRUE
  /\ pc' = "unwind"
  /\ UNCHANGED <<i, tasks, j, completed, online>>
  /\ UNCHANGED <<workerVars, signalVars, answering, storeVars>>

(* Fault: detached threads instead of futures.                             *)
UnwindDetached ==
  /\ pc = "unwind"
  /\ tasks' = <<>>
  /\ pc' = "done"
  /\ UNCHANGED <<i, j, completed, online, success>>
  /\ UNCHANGED <<workerVars, signalVars, answering, storeVars>>

(* Leaving the function destroys its locals in reverse order: the futures  *)
(* first, each waiting for its worker, then the vectors the workers use.   *)
Unwind ==
  /\ pc = "unwind"
  /\ \A k \in DOMAIN tasks : ping[tasks[k]] = "returned"
  /\ tasks' = <<>>
  /\ pc' = "done"
  /\ UNCHANGED <<i, j, completed, online, success>>
  /\ UNCHANGED <<workerVars, signalVars, answering, storeVars>>

-----------------------------------------------------------------------------
(* The workers: platform::pingHost through std::system.                    *)

PingStarts(s) ==
  /\ ping[s] = "started"
  /\ ping' = [ping EXCEPT ![s] = "pinging"]
  /\ UNCHANGED <<reachable, latencies, unrun>>
  /\ UNCHANGED <<callerVars, signalVars, answering, storeVars>>

(* Fault: a ping without a deadline waits for its answer.                  *)
PingExitsAnswered(s) ==
  /\ s \in Pinging
  /\ addresses[s] \in answering
  /\ ping' = [ping EXCEPT ![s] = "returned"]
  /\ reachable' = [reachable EXCEPT ![s] = TRUE]
  /\ latencies' = [latencies EXCEPT ![s] = TRUE]
  /\ UNCHANGED <<unrun, callerVars, signalVars, answering, storeVars>>

(* std::system returns: 0 if `ping` was run, the address answered within   *)
(* the second `ping -W 1` waits, and no signal ended the child before;     *)
(* else what `ping` exits with, -1 if no process can be made, or the 127   *)
(* of a shell that finds no `ping`.  The worker stores the latency, answer *)
(* or not, and returns.                                                    *)
PingExits(s) ==
  \E ran \in BOOLEAN :
    LET answered == ran /\ ping[s] = "pinging" /\ addresses[s] \in answering
        exitCode == IF answered THEN 0 ELSE 1 IN
    /\ s \in Pinging
    /\ ping' = [ping EXCEPT ![s] = "returned"]
    /\ reachable' = [reachable EXCEPT ![s] = (exitCode = 0)]
    /\ latencies' = [latencies EXCEPT ![s] = TRUE]
    /\ unrun' = IF ran THEN unrun \ {s} ELSE unrun \cup {s}
    /\ UNCHANGED <<callerVars, signalVars, answering, storeVars>>

(* Ctrl+C.  With no ping under way the handler sets the flag; otherwise    *)
(* the process ignores the signal, and it ends those of the running        *)
(* children that are still waiting for an answer.                          *)
Signal ==
  /\ pc \notin {"done", "aborted"}
  /\ pressed' = TRUE
  /\ stopRequested' = (stopRequested \/ Pinging = {})
  /\ \E ended \in SUBSET Pinging :
       ping' = [s \in Slots |-> IF s \in ended THEN "interrupted" ELSE ping[s]]
  /\ UNCHANGED <<callerVars, reachable, latencies, unrun, answering, storeVars>>

Terminated ==
  /\ pc \in {"done", "aborted"}
  /\ UNCHANGED discoveryVars

Caller ==
  \/ ClearState \/ DetectLocalNetwork \/ StopCheck \/ Launch \/ LaunchThrows
  \/ Collect \/ Collected \/ StoreHost \/ Succeed \/ Unwind
Worker(s) == PingStarts(s) \/ PingExits(s)

Next == Caller \/ (\E s \in Slots : Worker(s)) \/ Signal \/ Terminated
Spec == Init /\ [][Next]_discoveryVars

(* Threads are scheduled and `ping -c 1 -W 1` ends by itself.              *)
Fairness == WF_discoveryVars(Caller) /\ \A s \in Slots : WF_discoveryVars(Worker(s))
FairSpec == Spec /\ Fairness
-----------------------------------------------------------------------------
TypeOK ==
  /\ pc \in {"clear", "detect", "check", "launch", "batch", "final", "store",
             "unwind", "done", "aborted"}
  /\ i \in 1..(Len(addresses) + 1)
  /\ tasks \in Seq(Slots)
  /\ j \in Nat \ {0}
  /\ completed \in 0..Len(addresses)
  /\ online \in [Slots -> BOOLEAN]
  /\ latencies \in [Slots -> BOOLEAN]
  /\ success \in BOOLEAN
  /\ ping \in [Slots -> {"none", "started", "pinging", "interrupted", "returned"}]
  /\ reachable \in [Slots -> BOOLEAN]
  /\ unrun \in SUBSET Slots
  /\ answering \in SUBSET IPs
  /\ stopRequested \in BOOLEAN
  /\ pressed \in BOOLEAN
  /\ StoreTypeOK

(* A worker writes its slot of `latencies` and reads its slot of           *)
(* `addresses` until it returns; both vectors are gone once discover has   *)
(* returned, by whichever way out.                                         *)
BuffersOutliveWorkers == pc = "done" => Live = {}

(* "Process a batch once the concurrency limit is reached": no more than   *)
(* MAX_CONCURRENT pings run at once.                                       *)
PingsBounded == Cardinality(Live) <= MAX_CONCURRENT

(* Both together: the pings are bounded while they run and gone when their *)
(* buffers are.                                                            *)
WorkersAccountedFor == BuffersOutliveWorkers /\ PingsBounded

(* The hosts of the store are the online ones of the slots before n, in    *)
(* the order of their addresses.                                           *)
HostsAreOnlineBefore(n) ==
  /\ \A k \in DOMAIN hosts : \E s \in Slots :
       s < n /\ online[s] /\ hosts[k] = [ip |-> addresses[s], online |-> TRUE]
  /\ \A s \in Slots : s < n /\ online[s] =>
       \E k \in DOMAIN hosts : hosts[k].ip = addresses[s]
  /\ \A k, l \in DOMAIN hosts : \A s, t \in Slots :
       k < l /\ hosts[k].ip = addresses[s] /\ hosts[l].ip = addresses[t] => s < t

(* The host table and the "Online" count of a successful discovery: only   *)
(* answering addresses, in ascending order, each with a measured latency;  *)
(* and if Ctrl+C was not pressed, every answering address whose `ping`     *)
(* could be run, credited to no other slot.  (The code does not tell a     *)
(* ping that could not be run from a silent host.)                         *)
SuccessIsExact ==
  (pc = "done" /\ success) =>
    /\ HostsAreOnlineBefore(Len(addresses) + 1)
    /\ \A s \in Slots : online[s] => latencies[s] /\ addresses[s] \in answering
    /\ ~pressed => \A s \in Slots :
         online[s] <=> addresses[s] \in answering /\ s \notin unrun

(* A discovery replaces the whole store: nothing recorded earlier is seen  *)
(* beside the new hosts, and one that fails leaves the store empty rather  *)
(* than with a part of the hosts.                                          *)
NoMixture ==
  pc # "clear" =>
    /\ host_ports = <<>> /\ services = <<>>
    /\ (pc = "done" /\ ~success) => hosts = <<>>
    /\ \A k \in DOMAIN hosts : hosts[k].ip \in answering

(* Every discovery ends.                                                   *)
DiscoveryEnds == <>(pc \in {"done", "aborted"})
=============================================================================
