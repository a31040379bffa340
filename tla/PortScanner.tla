---------------------------- MODULE PortScanner -----------------------------
(***************************************************************************)
(* One port|:scan: the two overloads of PortScanner::scan with the worker  *)
(* threads they start through std::async(std::launch::async), the TCP      *)
(* probe each worker makes, and Ctrl+C arriving at any moment.             *)
(*                                                                         *)
(* The calling thread starts workers in port order and keeps one future    *)
(* per worker in the vector `futures`.  The range scan waits each time the *)
(* vector holds MAX_WORKERS futures; the common scan never waits before    *)
(* the end.  Destroying a future of std::async blocks until its worker     *)
(* has returned, which is what futures.clear() and the return do.          *)
(***************************************************************************)
EXTENDS Naturals, Sequences, FiniteSets, Functions

CONSTANTS
  MAX_PORT,       (* 65535 in the code                                     *)
  COMMON_PORTS,   (* the ports of the common scan, ascending               *)
  MAX_WORKERS,    (* 64 in the code                                        *)
  ThreadLimit     (* workers the system lets the process run at once       *)

ASSUME ScannerAssumption ==
  /\ MAX_PORT \in Nat \ {0}
  /\ COMMON_PORTS \in Seq(1..MAX_PORT)
  /\ \A i, j \in DOMAIN COMMON_PORTS :
       i < j => COMMON_PORTS[i] < COMMON_PORTS[j]
  /\ MAX_WORKERS \in Nat \ {0}
  /\ ThreadLimit \in Nat

Ports == 1..MAX_PORT

VARIABLES
  pc,             (* where the calling thread is                           *)
  plan,           (* the ports to scan, in order                           *)
  batched,        (* TRUE in the range overload                            *)
  next,           (* index in plan of the next worker to start             *)
  futures,        (* the futures vector, each named by its port            *)
  idx,            (* index in futures of the next result to collect        *)
  results,        (* std::vector<Port> under construction                  *)
  worker,         (* worker[p]: progress of the worker for port p          *)
  answer,         (* answer[p]: what that worker returned                  *)
  listening,      (* environment: the ports that accept a connection       *)
  stopRequested   (* SignalHandler::stopRequested                          *)

callerVars == <<pc, plan, batched, next, futures, idx, results>>
vars == <<callerVars, worker, answer, listening, stopRequested>>

(* An answer records, beside the `open` the code returns, what became of   *)
(* the worker's tcpConnect: "none" if it was not called or was cut short   *)
(* by a signal, "error" if connect() failed at once, "ended" if the        *)
(* attempt was accepted, refused or timed out.  The code keeps no such     *)
(* mark.                                                                   *)
Probes == {"none", "ended", "error"}
Answer == [open : BOOLEAN, probe : Probes]
Result == [number : Ports, open : BOOLEAN, probe : Probes]

(* The workers whose thread exists and has not returned.                   *)
Live == {p \in Ports : worker[p] \in {"started", "connecting"}}

-----------------------------------------------------------------------------
(* The range overload first clamps its bounds to 1..65535; an empty range  *)
(* returns no result.  The ports are visited in ascending order.           *)
RangePlan(startPort, endPort) ==
  LET lo == IF startPort < 1 THEN 1 ELSE startPort
      hi == IF endPort > MAX_PORT THEN MAX_PORT ELSE endPort
  IN  IF lo > hi THEN <<>> ELSE [i \in 1..(hi - lo + 1) |-> lo + i - 1]

(* The ranges handlePortScan lets through.                                 *)
ValidRange(startPort, endPort) ==
  startPort >= 1 /\ endPort <= MAX_PORT /\ startPort <= endPort

Init ==
  /\ pc = "spawn"
  /\ \/ /\ plan = COMMON_PORTS
        /\ batched = FALSE
     \/ /\ \E s, e \in 0..(MAX_PORT + 1) :
             ValidRange(s, e) /\ plan = RangePlan(s, e)
        /\ batched = TRUE
  /\ next = 1
  /\ futures = <<>>
  /\ idx = 1
  /\ results = <<>>
  /\ worker = [p \in Ports |-> "none"]
  /\ answer = [p \in Ports |-> [open |-> FALSE, probe |-> "none"]]
  /\ listening \in SUBSET Ports
  /\ stopRequested = FALSE

-----------------------------------------------------------------------------
(* The calling thread.                                                     *)

(* Fault: the last port of the plan is left out.                           *)
SpawnCheckShort ==
  /\ pc = "spawn"
  /\ pc' = IF next >= Len(plan) \/ stopRequested THEN "collect" ELSE "launch"
  /\ UNCHANGED <<plan, batched, next, futures, idx, results>>
  /\ UNCHANGED <<worker, answer, listening, stopRequested>>

(* Loop head of the spawning loop: leave it when the ports are exhausted   *)
(* or a stop is requested.                                                 *)
SpawnCheck ==
  /\ pc = "spawn"
  /\ pc' = IF next > Len(plan) \/ stopRequested THEN "collect" ELSE "launch"
  /\ UNCHANGED <<plan, batched, next, futures, idx, results>>
  /\ UNCHANGED <<worker, answer, listening, stopRequested>>

(* Fault: the range overload does not wait for a full batch either.        *)
LaunchUnbatched ==
  /\ pc = "launch"
  /\ Cardinality(Live) < ThreadLimit
  /\ worker' = [worker EXCEPT ![plan[next]] = "started"]
  /\ futures' = Append(futures, plan[next])
  /\ pc' = "spawn"
  /\ next' = next + 1
  /\ UNCHANGED <<plan, batched, idx, results>>
  /\ UNCHANGED <<answer, listening, stopRequested>>

(* futures.push_back(std::async(...)).  Only the range overload compares   *)
(* the size of the vector with MAX_WORKERS.                                *)
Launch ==
  /\ pc = "launch"
  /\ Cardinality(Live) < ThreadLimit
  /\ worker' = [worker EXCEPT ![plan[next]] = "started"]
  /\ futures' = Append(futures, plan[next])
  /\ IF batched /\ Len(futures') >= MAX_WORKERS
     THEN pc' = "drain" /\ UNCHANGED next
     ELSE pc' = "spawn" /\ next' = next + 1
  /\ UNCHANGED <<plan, batched, idx, results>>
  /\ UNCHANGED <<answer, listening, stopRequested>>

(* std::async throws std::system_error when no thread can be created.      *)
(* Nothing catches it: std::terminate ends the process and its threads.    *)
LaunchThrows ==
  /\ pc = "launch"
  /\ Cardinality(Live) >= ThreadLimit
  /\ pc' = "aborted"
  /\ worker' = [p \in Ports |-> "none"]
  /\ UNCHANGED <<plan, batched, next, futures, idx, results>>
  /\ UNCHANGED <<answer, listening, stopRequested>>

(* The head of both collecting loops: stop at the end of the vector or     *)
(* when a stop is requested, else go and wait for the next future.         *)
Waiting(loop) == IF loop = "drain" THEN "drainGet" ELSE "collectGet"
After(loop)   == IF loop = "drain" THEN "clear" ELSE "sort"

(* Fault: results are collected on after a stop request.                   *)
CollectCheckUnstopped(loop) ==
  /\ pc = loop
  /\ pc' = IF idx > Len(futures) THEN After(loop) ELSE Waiting(loop)
  /\ UNCHANGED <<plan, batched, next, futures, idx, results>>
  /\ UNCHANGED <<worker, answer, listening, stopRequested>>

CollectCheck(loop) ==
  /\ pc = loop
  /\ pc' = IF idx > Len(futures) \/ stopRequested
           THEN After(loop) ELSE Waiting(loop)
  /\ UNCHANGED <<plan, batched, next, futures, idx, results>>
  /\ UNCHANGED <<worker, answer, listening, stopRequested>>

(* results.push_back(future.get()): blocks until the worker has returned.  *)
CollectGet(loop) ==
  LET p == futures[idx] IN
  /\ pc = Waiting(loop)
  /\ worker[p] = "returned"
  /\ results' = Append(results, [number |-> p, open |-> answer[p].open,
                                 probe |-> answer[p].probe])
  /\ idx' = idx + 1
  /\ pc' = loop
  /\ UNCHANGED <<plan, batched, next, futures>>
  /\ UNCHANGED <<worker, answer, listening, stopRequested>>

(* Every future in the vector that is destroyed waits for its worker.      *)
AllReturned == \A i \in DOMAIN futures : worker[futures[i]] = "returned"

(* futures.clear() and the ++port of the spawning loop.                    *)
ClearFutures ==
  /\ pc = "clear"
  /\ AllReturned
  /\ futures' = <<>>
  /\ idx' = 1
  /\ next' = next + 1
  /\ pc' = "spawn"
  /\ UNCHANGED <<plan, batched, results>>
  /\ UNCHANGED <<worker, answer, listening, stopRequested>>

(* The reorderings of r that are ascending in the port number.             *)
SortsOf(r) ==
  {s \in {[i \in DOMAIN r |-> r[f[i]]] : f \in Injection(DOMAIN r, DOMAIN r)} :
     \A i, j \in DOMAIN s : i < j => s[i].number <= s[j].number}

(* std::sort by port number.                                               *)
SortResults ==
  /\ pc = "sort"
  /\ results' \in SortsOf(results)
  /\ pc' = "return"
  /\ UNCHANGED <<plan, batched, next, futures, idx>>
  /\ UNCHANGED <<worker, answer, listening, stopRequested>>

(* return results: the local futures are destroyed on the way out.         *)
Return ==
  /\ pc = "return"
  /\ AllReturned
  /\ futures' = <<>>
  /\ pc' = "done"
  /\ UNCHANGED <<plan, batched, next, idx, results>>
  /\ UNCHANGED <<worker, answer, listening, stopRequested>>

-----------------------------------------------------------------------------
(* The workers: checkPort and the platform's tcpConnect.                   *)

(* Fault: a worker waits for the stop request to be withdrawn.             *)
WorkerCheckWaits(p) ==
  /\ worker[p] = "started"
  /\ ~stopRequested
  /\ worker' = [worker EXCEPT ![p] = "connecting"]
  /\ UNCHANGED answer
  /\ UNCHANGED <<callerVars, listening, stopRequested>>

(* checkPort gives up without a probe when a stop is requested.            *)
WorkerCheck(p) ==
  /\ worker[p] = "started"
  /\ worker' = [worker EXCEPT ![p] =
                  IF stopRequested THEN "returned" ELSE "connecting"]
  /\ UNCHANGED answer
  /\ UNCHANGED <<callerVars, listening, stopRequested>>

(* tcpConnect reports a connection that is accepted within the timeout.    *)
ProbeAccepted(p) ==
  /\ worker[p] = "connecting"
  /\ p \in listening
  /\ worker' = [worker EXCEPT ![p] = "returned"]
  /\ answer' = [answer EXCEPT ![p] = [open |-> TRUE, probe |-> "ended"]]
  /\ UNCHANGED <<callerVars, listening, stopRequested>>

(* Fault: a socket that became writable counts as connected, without a     *)
(* look at SO_ERROR.                                                       *)
ProbeFailsUnread(p) ==
  /\ worker[p] = "connecting"
  /\ worker' = [worker EXCEPT ![p] = "returned"]
  /\ answer' = [answer EXCEPT ![p] = [open |-> TRUE, probe |-> "ended"]]
  /\ UNCHANGED <<callerVars, listening, stopRequested>>

(* connect() fails at once: no route to the host, no local port left.  The *)
(* error is not looked at, but waited on like EINPROGRESS.  The socket     *)
(* nobody connected is writable, so select() returns 1 at once, SO_ERROR   *)
(* has nothing to report, and the connection counts as made.               *)
ConnectFails(p) ==
  /\ worker[p] = "connecting"
  /\ worker' = [worker EXCEPT ![p] = "returned"]
  /\ answer' = [answer EXCEPT ![p] = [open |-> TRUE, probe |-> "error"]]
  /\ UNCHANGED <<callerVars, listening, stopRequested>>

(* Everything else tcpConnect reports as not valid: a refusal, silence for *)
(* CONNECTION_TIMEOUT_MS -- a listening port may be slow --, a host that   *)
(* is no IPv4 address, a socket that cannot be made.                       *)
ProbeFails(p) ==
  /\ worker[p] = "connecting"
  /\ worker' = [worker EXCEPT ![p] = "returned"]
  /\ answer' = [answer EXCEPT ![p] = [open |-> FALSE, probe |-> "ended"]]
  /\ UNCHANGED <<callerVars, listening, stopRequested>>

(* The signal handler may run on a thread that waits in select(), which    *)
(* then fails with EINTR: waitForSocket returns false and the port counts  *)
(* as not open.                                                            *)
ProbeInterrupted(p) ==
  /\ worker[p] = "connecting"
  /\ worker' = [worker EXCEPT ![p] = "returned"]
  /\ UNCHANGED <<callerVars, answer, listening>>

(* Ctrl+C: SignalHandler::handleSignal stores TRUE.  The handler runs on   *)
(* some thread; if that is a connecting worker its select() is cut short.  *)
Signal ==
  /\ pc \notin {"done", "aborted"}
  /\ stopRequested' = TRUE
  /\ \/ UNCHANGED <<callerVars, worker, answer, listening>>
     \/ \E p \in Ports : ProbeInterrupted(p)

-----------------------------------------------------------------------------
Terminated ==
  /\ pc \in {"done", "aborted"}
  /\ UNCHANGED vars

Caller ==
  \/ SpawnCheck \/ Launch \/ LaunchThrows
  \/ \E loop \in {"drain", "collect"} : CollectCheck(loop) \/ CollectGet(loop)
  \/ ClearFutures \/ SortResults \/ Return

Worker(p) ==
  WorkerCheck(p) \/ ProbeAccepted(p) \/ ConnectFails(p) \/ ProbeFails(p)

Next == Caller \/ (\E p \in Ports : Worker(p)) \/ Signal \/ Terminated

Spec == Init /\ [][Next]_vars

(* The operating system schedules every thread, and every probe ends       *)
(* within CONNECTION_TIMEOUT_MS.  Nothing makes the user press Ctrl+C.     *)
Fairness == WF_vars(Caller) /\ \A p \in Ports : WF_vars(Worker(p))
FairSpec == Spec /\ Fairness
-----------------------------------------------------------------------------
CallerAt == {"spawn", "launch", "drain", "drainGet", "clear", "collect",
             "collectGet", "sort", "return", "done", "aborted"}

TypeOK ==
  /\ pc \in CallerAt
  /\ plan \in Seq(Ports)
  /\ batched \in BOOLEAN
  /\ next \in Nat \ {0}
  /\ futures \in Seq(Ports)
  /\ idx \in Nat \ {0}
  /\ results \in Seq(Result)
  /\ worker \in [Ports -> {"none", "started", "connecting", "returned"}]
  /\ answer \in [Ports -> Answer]
  /\ listening \in SUBSET Ports
  /\ stopRequested \in BOOLEAN

(* "This prevents thousands of simultaneous sockets": a range scan never   *)
(* has more than MAX_WORKERS workers alive, not even when a stop request   *)
(* cuts the collecting loop of a batch short; a common scan has at most    *)
(* one per port of its list.                                               *)
WorkersBounded ==
  Cardinality(Live) <= IF batched THEN MAX_WORKERS ELSE Len(plan)

(* With room for that many threads, std::async never throws.               *)
NoAbort ==
  (ThreadLimit >= (IF batched THEN MAX_WORKERS ELSE Len(plan)))
    => pc # "aborted"

(* No worker is alive once scan has returned: the lambdas hold references  *)
(* to the scanner and to the caller's host string.                         *)
NoWorkerOutlivesScan == pc = "done" => Live = {}

(* The three together, on one scan: however it ends -- by itself, by a     *)
(* stop request between or inside two batches -- its threads are bounded   *)
(* while it runs, it does not die of their number, and they are gone when  *)
(* it returns.                                                             *)
WorkersAccountedFor == WorkersBounded /\ NoAbort /\ NoWorkerOutlivesScan

(* A result that says open answers for its own port: it accepted a         *)
(* connection, or it is the one whose connect() failed at once.  Each      *)
(* scanned port is reported at most once, in ascending order -- already    *)
(* before the final sort.                                                  *)
ResultsSound ==
  /\ \A i \in DOMAIN results :
       results[i].open =>
         results[i].number \in listening \/ results[i].probe = "error"
  /\ \A i, j \in DOMAIN results :
       i < j => results[i].number < results[j].number

(* README.md:72, "Port discovery and open/closed state": a port that is    *)
(* reported open accepted a connection.                                    *)
OpenMeansAccepted ==
  \A i \in DOMAIN results : results[i].open => results[i].number \in listening

(* A scan nobody interrupted reports every port of its plan, each probed   *)
(* to the end.                                                             *)
CompleteUnlessStopped ==
  (pc = "done" /\ ~stopRequested) =>
     /\ [i \in DOMAIN results |-> results[i].number] = plan
     /\ \A i \in DOMAIN results : results[i].probe # "none"

(* A worker that saw the stop request, or whose probe the signal cut       *)
(* short, answers "closed" without knowing.  The calling thread checks the *)
(* request before every get, so at most one such answer gets into the      *)
(* results -- the one it was already waiting for.                          *)
AtMostOneUnprobed ==
  /\ \A i, j \in DOMAIN results :
       (results[i].probe = "none" /\ results[j].probe = "none") => i = j
  /\ \A i \in DOMAIN results : results[i].probe = "none" => stopRequested

(* Every scan returns, and a stop request makes it return.                 *)
ScanReturns == <>(pc \in {"done", "aborted"})

=============================================================================
