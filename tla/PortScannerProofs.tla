------------------------- MODULE PortScannerProofs --------------------------
(***************************************************************************)
(* The safety of a port scan for every port space, list of common ports,   *)
(* batch size and thread limit: what PortScanner's runs check for a few.   *)
(***************************************************************************)
EXTENDS PortScanner, FiniteSetTheorems, TLAPS

-----------------------------------------------------------------------------
(* The inductive invariant.                                                *)

(* How many ports of the plan have been given a worker, and how many of    *)
(* those came before the ones still in the vector of futures.              *)
launched == IF pc \in {"drain", "drainGet", "clear"} THEN next ELSE next - 1
settled  == launched - Len(futures)

(* The plan is ascending, and the vector of futures is the stretch of it   *)
(* launched last; there is a port left whenever one is about to be         *)
(* launched, and a future left whenever one is about to be collected.      *)
PlanInv ==
  /\ \A i, j \in DOMAIN plan : i < j => plan[i] < plan[j]
  /\ launched <= Len(plan)
  /\ pc = "launch" => next <= Len(plan)
  /\ Len(futures) <= launched
  /\ \A i \in DOMAIN futures : futures[i] = plan[settled + i]
  /\ pc # "done" => idx <= Len(futures) + 1
  /\ pc \in {"drainGet", "collectGet"} => idx <= Len(futures)
  /\ pc \in {"spawn", "launch"} => idx = 1

(* Only a worker whose future is still in the vector can be alive; the     *)
(* vector of a range scan never grows past its limit, and leaves room      *)
(* whenever a worker is about to be launched.                              *)
WorkersInv ==
  /\ \A p \in Live : \E i \in DOMAIN futures : futures[i] = p
  /\ batched => Len(futures) <= MAX_WORKERS
  /\ (batched /\ pc \in {"spawn", "launch"}) => Len(futures) < MAX_WORKERS
  /\ pc = "done" => futures = <<>>

(* The results come from the stretch of the plan already collected, in its *)
(* order.                                                                  *)
Backed(p, a) == a.open => p \in listening \/ a.probe = "error"
ResultsInv ==
  /\ \A i \in DOMAIN results :
       \E m \in DOMAIN plan :
         /\ results[i].number = plan[m]
         /\ pc \notin {"sort", "return", "done", "aborted"} => m < settled + idx
  /\ \A p \in Ports : Backed(p, answer[p])
  /\ ResultsSound

(* Who answers without a probe has seen a stop request, and from then on   *)
(* the calling thread collects nothing more.                               *)
StopInv ==
  /\ \A p \in Ports :
       (worker[p] = "returned" /\ answer[p].probe = "none") => stopRequested
  /\ \A i \in DOMAIN results :
       results[i].probe = "none" => pc \notin {"drainGet", "collectGet"}
  /\ AtMostOneUnprobed

-----------------------------------------------------------------------------
(* Types.                                                                  *)

LEMMA RangePlanType ==
  ASSUME ScannerAssumption, NEW s \in 0..(MAX_PORT + 1), NEW e \in 0..(MAX_PORT + 1)
  PROVE  /\ RangePlan(s, e) \in Seq(Ports)
         /\ \A i, j \in DOMAIN RangePlan(s, e) :
              i < j => RangePlan(s, e)[i] < RangePlan(s, e)[j]
<1>. DEFINE lo == IF s < 1 THEN 1 ELSE s
            hi == IF e > MAX_PORT THEN MAX_PORT ELSE e
<1>1. MAX_PORT \in Nat \ {0} /\ lo \in Nat /\ hi \in Nat /\ 1 <= lo /\ hi <= MAX_PORT
  BY DEF ScannerAssumption
<1>2. CASE lo > hi
  <2>1. RangePlan(s, e) = <<>>
    BY <1>2 DEF RangePlan
  <2>. QED
    BY <2>1
<1>3. CASE ~(lo > hi)
  <2>1. RangePlan(s, e) = [i \in 1..(hi - lo + 1) |-> lo + i - 1]
    BY <1>3 DEF RangePlan
  <2>. HIDE DEF lo, hi
  <2>2. hi - lo + 1 \in Nat
    BY <1>1, <1>3
  <2>3. \A i \in 1..(hi - lo + 1) : lo + i - 1 \in Ports
    BY <1>1, <2>2 DEF Ports
  <2>. QED
    BY <1>1, <2>1, <2>2, <2>3
<1>. QED
  BY <1>2, <1>3

LEMMA InitTypeOK ==
  ASSUME ScannerAssumption, Init
  PROVE  TypeOK
<1>1. plan \in Seq(Ports)
  BY RangePlanType DEF Init, ScannerAssumption, Ports
<1>2. futures \in Seq(Ports) /\ results \in Seq(Result)
  BY DEF Init
<1>3. [open |-> FALSE, probe |-> "none"] \in Answer
  BY DEF Answer, Probes
<1>4. answer \in [Ports -> Answer]
  BY <1>3 DEF Init
<1>5. worker \in [Ports -> {"none", "started", "connecting", "returned"}]
  BY DEF Init
<1>6. batched \in BOOLEAN /\ stopRequested \in BOOLEAN /\ listening \in SUBSET Ports
  BY DEF Init
<1>7. pc \in CallerAt /\ next \in Nat \ {0} /\ idx \in Nat \ {0}
  BY DEF Init, CallerAt
<1>. QED
  BY <1>1, <1>2, <1>4, <1>5, <1>6, <1>7 DEF TypeOK

(* The sorted results are the old ones in another order.                   *)
LEMMA SortedResults ==
  ASSUME TypeOK, NEW s \in SortsOf(results)
  PROVE  /\ s \in Seq(Result)
         /\ DOMAIN s = DOMAIN results
         /\ \A i, j \in DOMAIN s : i < j => s[i].number <= s[j].number
         /\ \E f \in [DOMAIN results -> DOMAIN results] :
              /\ \A i, j \in DOMAIN results : f[i] = f[j] => i = j
              /\ \A i \in DOMAIN results : s[i] = results[f[i]]
<1>1. PICK f \in Injection(DOMAIN results, DOMAIN results) :
         s = [i \in DOMAIN results |-> results[f[i]]]
  BY DEF SortsOf
<1>2. /\ f \in [DOMAIN results -> DOMAIN results]
      /\ \A i, j \in DOMAIN results : f[i] = f[j] => i = j
  BY DEF Injection, IsInjective
<1>3. results \in Seq(Result) /\ DOMAIN results = 1..Len(results) /\ Len(results) \in Nat
  BY DEF TypeOK
<1>4. s \in Seq(Result)
  BY <1>1, <1>2, <1>3
<1>. QED
  BY <1>1, <1>2, <1>4 DEF SortsOf

(* What the steps of the workers and of the signal have in common.         *)
Progress ==
  /\ UNCHANGED <<callerVars, listening>>
  /\ worker' \in [Ports -> {"none", "started", "connecting", "returned"}]
  /\ answer' \in [Ports -> Answer]
  /\ stopRequested' \in BOOLEAN
  /\ stopRequested => stopRequested'
  /\ \A q \in Ports :
       /\ worker'[q] \in {"started", "connecting"} =>
            worker[q] \in {"started", "connecting"}
       /\ Backed(q, answer[q]) => Backed(q, answer'[q])
       /\ (worker'[q] = "returned" /\ answer'[q].probe = "none") =>
            stopRequested' \/ (worker[q] = "returned" /\ answer[q].probe = "none")

LEMMA WorkerProgress ==
  ASSUME TypeOK, NEW p \in Ports, Worker(p)
  PROVE  Progress
<1>1. CASE WorkerCheck(p)
  BY <1>1 DEF WorkerCheck, TypeOK, Progress, Backed
<1>2. ASSUME NEW a \in Answer, a.probe # "none", Backed(p, a),
             worker[p] = "connecting",
             worker' = [worker EXCEPT ![p] = "returned"],
             answer' = [answer EXCEPT ![p] = a],
             UNCHANGED <<callerVars, listening, stopRequested>>
      PROVE  Progress
  BY <1>2 DEF TypeOK, Progress, Backed
<1>3. CASE ProbeAccepted(p)
  <2>. DEFINE a == [open |-> TRUE, probe |-> "ended"]
  <2>1. a \in Answer /\ a.probe # "none" /\ Backed(p, a)
    BY <1>3 DEF ProbeAccepted, Answer, Probes, Backed
  <2>2. answer' = [answer EXCEPT ![p] = a]
    BY <1>3 DEF ProbeAccepted
  <2>. HIDE DEF a
  <2>. QED
    BY <1>2, <1>3, <2>1, <2>2 DEF ProbeAccepted
<1>4. CASE ProbeFails(p)
  <2>. DEFINE a == [open |-> FALSE, probe |-> "ended"]
  <2>1. a \in Answer /\ a.probe # "none" /\ Backed(p, a)
    BY DEF Answer, Probes, Backed
  <2>2. answer' = [answer EXCEPT ![p] = a]
    BY <1>4 DEF ProbeFails
  <2>. HIDE DEF a
  <2>. QED
    BY <1>2, <1>4, <2>1, <2>2 DEF ProbeFails
<1>5. CASE ConnectFails(p)
  <2>. DEFINE a == [open |-> TRUE, probe |-> "error"]
  <2>1. a \in Answer /\ a.probe # "none" /\ Backed(p, a)
    BY DEF Answer, Probes, Backed
  <2>2. answer' = [answer EXCEPT ![p] = a]
    BY <1>5 DEF ConnectFails
  <2>. HIDE DEF a
  <2>. QED
    BY <1>2, <1>5, <2>1, <2>2 DEF ConnectFails
<1>. QED
  BY <1>1, <1>3, <1>4, <1>5 DEF Worker

LEMMA SignalProgress ==
  ASSUME TypeOK, Signal
  PROVE  Progress
<1>1. CASE UNCHANGED <<callerVars, worker, answer, listening>>
  BY <1>1 DEF Signal, TypeOK, Progress
<1>2. ASSUME NEW p \in Ports, ProbeInterrupted(p)
      PROVE  Progress
  BY <1>2 DEF Signal, ProbeInterrupted, TypeOK, Progress, Backed
<1>. QED
  BY <1>1, <1>2 DEF Signal

LEMMA NextTypeOK ==
  ASSUME TypeOK, PlanInv, [Next]_vars
  PROVE  TypeOK'
<1>. USE DEF TypeOK, CallerAt
<1>1. CASE SpawnCheck
  BY <1>1 DEF SpawnCheck
<1>2. CASE Launch
  <2>1. plan[next] \in Ports
    BY <1>2 DEF Launch, PlanInv
  <2>2. futures' \in Seq(Ports) /\ worker' \in [Ports -> {"none", "started", "connecting", "returned"}]
    BY <1>2, <2>1 DEF Launch
  <2>. QED
    BY <1>2, <2>2 DEF Launch
<1>3. CASE LaunchThrows
  BY <1>3 DEF LaunchThrows
<1>4. ASSUME NEW loop \in {"drain", "collect"}, CollectCheck(loop)
      PROVE  TypeOK'
  BY <1>4 DEF CollectCheck, After, Waiting
<1>5. ASSUME NEW loop \in {"drain", "collect"}, CollectGet(loop)
      PROVE  TypeOK'
  <2>1. futures[idx] \in Ports
    BY <1>5 DEF CollectGet, Waiting, PlanInv
  <2>2. results' \in Seq(Result)
    BY <1>5, <2>1 DEF CollectGet, Result, Answer
  <2>. QED
    BY <1>5, <2>2 DEF CollectGet
<1>6. CASE ClearFutures
  BY <1>6 DEF ClearFutures
<1>7. CASE SortResults
  BY <1>7, SortedResults DEF SortResults
<1>8. CASE Return
  BY <1>8 DEF Return
<1>9. ASSUME NEW p \in Ports, Worker(p) PROVE TypeOK'
  BY <1>9, WorkerProgress DEF Progress, callerVars
<1>10. CASE Signal
  BY <1>10, SignalProgress DEF Progress, callerVars
<1>11. CASE UNCHANGED vars
  BY <1>11 DEF vars, callerVars
<1>. QED
  BY <1>1, <1>2, <1>3, <1>4, <1>5, <1>6, <1>7, <1>8, <1>9, <1>10, <1>11
     DEF Next, Caller, Terminated

-----------------------------------------------------------------------------
(* The plan and the futures.                                               *)

LEMMA InitPlanInv ==
  ASSUME ScannerAssumption, Init
  PROVE  PlanInv
<1>1. \A i, j \in DOMAIN plan : i < j => plan[i] < plan[j]
  BY RangePlanType DEF Init, ScannerAssumption
<1>2. plan \in Seq(Ports)
  BY RangePlanType DEF Init, ScannerAssumption, Ports
<1>. QED
  BY <1>1, <1>2 DEF Init, PlanInv, launched, settled

LEMMA NextPlanInv ==
  ASSUME TypeOK, PlanInv, [Next]_vars
  PROVE  PlanInv'
<1>. USE DEF TypeOK, PlanInv, launched, settled
<1>1. CASE SpawnCheck
  BY <1>1 DEF SpawnCheck
<1>2. CASE Launch
  <2>1. /\ plan' = plan /\ idx' = idx /\ pc = "launch"
        /\ futures' = Append(futures, plan[next])
        /\ \/ pc' = "drain" /\ next' = next
           \/ pc' = "spawn" /\ next' = next + 1
    BY <1>2 DEF Launch
  <2>2. plan[next] \in Ports
    BY <2>1
  <2>3. /\ futures' \in Seq(Ports)
        /\ Len(futures') = Len(futures) + 1
        /\ futures'[Len(futures) + 1] = plan[next]
        /\ \A i \in DOMAIN futures : futures'[i] = futures[i]
    BY <2>1, <2>2
  <2>4. launched' = launched + 1 /\ launched' = next /\ settled' = settled
    BY <2>1, <2>3
  <2>5. \A i \in DOMAIN futures' : futures'[i] = plan[settled + i]
    <3>. SUFFICES ASSUME NEW i \in DOMAIN futures'
                  PROVE  futures'[i] = plan[settled + i]
      OBVIOUS
    <3>1. CASE i \in DOMAIN futures
      BY <3>1, <2>3
    <3>2. CASE i = Len(futures) + 1
      BY <3>2, <2>1, <2>3
    <3>. QED
      BY <3>1, <3>2, <2>3
  <2>. QED
    BY <2>1, <2>3, <2>4, <2>5
<1>3. CASE LaunchThrows
  BY <1>3 DEF LaunchThrows
<1>4. ASSUME NEW loop \in {"drain", "collect"}, CollectCheck(loop)
      PROVE  PlanInv'
  BY <1>4 DEF CollectCheck, After, Waiting
<1>5. ASSUME NEW loop \in {"drain", "collect"}, CollectGet(loop)
      PROVE  PlanInv'
  BY <1>5 DEF CollectGet, Waiting
<1>6. CASE ClearFutures
  BY <1>6 DEF ClearFutures
<1>7. CASE SortResults
  BY <1>7 DEF SortResults
<1>8. CASE Return
  BY <1>8 DEF Return
<1>9. CASE Progress
  BY <1>9 DEF Progress, callerVars
<1>10. CASE UNCHANGED vars
  BY <1>10 DEF vars, callerVars
<1>. QED
  BY <1>1, <1>2, <1>3, <1>4, <1>5, <1>6, <1>7, <1>8, <1>9, <1>10,
     WorkerProgress, SignalProgress DEF Next, Caller, Terminated

-----------------------------------------------------------------------------
(* The workers alive.                                                      *)

LEMMA InitWorkersInv ==
  ASSUME ScannerAssumption, Init
  PROVE  WorkersInv
BY DEF Init, WorkersInv, Live, ScannerAssumption

LEMMA NextWorkersInv ==
  ASSUME ScannerAssumption, TypeOK, PlanInv, WorkersInv, [Next]_vars
  PROVE  WorkersInv'
<1>. USE DEF TypeOK, WorkersInv, Live, ScannerAssumption
<1>1. CASE SpawnCheck
  BY <1>1 DEF SpawnCheck
<1>2. CASE Launch
  <2>1. plan[next] \in Ports
    BY <1>2 DEF Launch, PlanInv
  <2>2. /\ Len(futures') = Len(futures) + 1
        /\ futures'[Len(futures) + 1] = plan[next]
        /\ \A i \in DOMAIN futures : futures'[i] = futures[i]
        /\ DOMAIN futures' = DOMAIN futures \cup {Len(futures) + 1}
    BY <1>2, <2>1 DEF Launch
  <2>3. \A p \in Live' : p \in Live \/ p = plan[next]
    BY <1>2, <2>1 DEF Launch
  <2>4. \A p \in Live' : \E i \in DOMAIN futures' : futures'[i] = p
    BY <2>2, <2>3
  <2>. QED
    BY <1>2, <2>2, <2>4 DEF Launch
<1>3. CASE LaunchThrows
  BY <1>3 DEF LaunchThrows
<1>4. ASSUME NEW loop \in {"drain", "collect"}, CollectCheck(loop)
      PROVE  WorkersInv'
  BY <1>4 DEF CollectCheck, After, Waiting
<1>5. ASSUME NEW loop \in {"drain", "collect"}, CollectGet(loop)
      PROVE  WorkersInv'
  BY <1>5 DEF CollectGet, Waiting
<1>6. CASE ClearFutures
  BY <1>6 DEF ClearFutures, AllReturned
<1>7. CASE SortResults
  BY <1>7 DEF SortResults
<1>8. CASE Return
  BY <1>8 DEF Return, AllReturned
<1>9. CASE Progress
  BY <1>9 DEF Progress, callerVars
<1>10. CASE UNCHANGED vars
  BY <1>10 DEF vars, callerVars
<1>. QED
  BY <1>1, <1>2, <1>3, <1>4, <1>5, <1>6, <1>7, <1>8, <1>9, <1>10,
     WorkerProgress, SignalProgress DEF Next, Caller, Terminated

-----------------------------------------------------------------------------
(* The results.                                                            *)

LEMMA InitResultsInv ==
  ASSUME ScannerAssumption, Init
  PROVE  ResultsInv
BY DEF Init, ResultsInv, ResultsSound, Backed

LEMMA LaunchSettled ==
  ASSUME TypeOK, PlanInv, Launch
  PROVE  settled' = settled
<1>1. /\ pc = "launch" /\ next \in Nat
      /\ \/ pc' = "drain" /\ next' = next
         \/ pc' = "spawn" /\ next' = next + 1
  BY DEF Launch, TypeOK
<1>2. Len(futures') = Len(futures) + 1 /\ Len(futures) \in Nat
  BY DEF Launch, PlanInv, TypeOK
<1>3. launched = next - 1 /\ launched' = next
  BY <1>1 DEF launched
<1>. QED
  BY <1>1, <1>2, <1>3 DEF settled

LEMMA NextResultsInv ==
  ASSUME ScannerAssumption, TypeOK, PlanInv, ResultsInv, [Next]_vars
  PROVE  ResultsInv'
<1>. USE DEF TypeOK, ResultsInv, ResultsSound, Backed, launched, settled
<1>1. CASE SpawnCheck
  BY <1>1 DEF SpawnCheck
<1>2. CASE Launch
  <2>1. settled' = settled /\ pc = "launch"
    BY <1>2, LaunchSettled DEF Launch
  <2>. HIDE DEF settled
  <2>. QED
    BY <1>2, <2>1 DEF Launch
<1>3. CASE LaunchThrows
  BY <1>3 DEF LaunchThrows
<1>4. ASSUME NEW loop \in {"drain", "collect"}, CollectCheck(loop)
      PROVE  ResultsInv'
  <2>1. settled' = settled \/ pc' = "sort"
    BY <1>4 DEF CollectCheck, After, Waiting
  <2>. QED
    BY <1>4, <2>1 DEF CollectCheck, After, Waiting
<1>5. ASSUME NEW loop \in {"drain", "collect"}, CollectGet(loop)
      PROVE  ResultsInv'
  <2>. DEFINE p == futures[idx]
              r == [number |-> p, open |-> answer[p].open, probe |-> answer[p].probe]
              n == Len(results) + 1
  <2>1. /\ settled' = settled /\ idx' = idx + 1
        /\ plan' = plan /\ futures' = futures /\ pc' = loop
        /\ answer' = answer /\ listening' = listening
        /\ pc \notin {"sort", "return", "done", "aborted"}
        /\ settled \in Nat
    BY <1>5 DEF CollectGet, Waiting, PlanInv
  <2>2. /\ settled + idx \in DOMAIN plan
        /\ p = plan[settled + idx] /\ p \in Ports
    BY <1>5 DEF CollectGet, Waiting, PlanInv
  <2>3. r.number = p /\ r.open = answer[p].open /\ r.probe = answer[p].probe
        /\ r \in Result
    BY <2>2 DEF Result, Answer
  <2>4. results' = Append(results, r)
    BY <1>5 DEF CollectGet
  <2>. HIDE DEF r, settled, p
  <2>5. /\ DOMAIN results' = DOMAIN results \cup {n}
        /\ results'[n] = r
        /\ \A i \in DOMAIN results : results'[i] = results[i]
        /\ \A i \in DOMAIN results : i < n
    BY <2>3, <2>4
  <2>6. \A i \in DOMAIN results : results[i].number < p
    BY <2>1, <2>2 DEF PlanInv
  <2>7. r.open => p \in listening \/ r.probe = "error"
    BY <2>2, <2>3
  <2>8. \A i \in DOMAIN results' :
          \E m \in DOMAIN plan' :
            results'[i].number = plan'[m] /\ m < settled' + idx'
    <3>1. \A i \in DOMAIN results :
            \E m \in DOMAIN plan : results[i].number = plan[m] /\ m < settled + idx
      BY <2>1
    <3>2. settled + idx \in Nat
      BY <2>2
    <3>3. settled' + idx' = settled + idx + 1
      BY <2>1, <2>2
    <3>4. ASSUME NEW i \in DOMAIN results
          PROVE  \E m \in DOMAIN plan' :
                   results'[i].number = plan'[m] /\ m < settled' + idx'
      <4>1. PICK m \in DOMAIN plan :
               results[i].number = plan[m] /\ m < settled + idx
        BY <3>1, <3>4
      <4>2. m \in Nat
        OBVIOUS
      <4>3. results'[i].number = plan'[m] /\ m \in DOMAIN plan'
        BY <2>1, <2>5, <3>4, <4>1
      <4>4. m < settled' + idx'
        BY <3>2, <3>3, <4>1, <4>2
      <4>. QED
        BY <4>3, <4>4
    <3>5. \E m \in DOMAIN plan' :
             results'[n].number = plan'[m] /\ m < settled' + idx'
      <4>1. results'[n].number = plan'[settled + idx]
        BY <2>1, <2>2, <2>3, <2>5
      <4>2. settled + idx < settled' + idx' /\ settled + idx \in DOMAIN plan'
        BY <2>1, <2>2, <3>2, <3>3
      <4>. QED
        BY <4>1, <4>2
    <3>. QED
      BY <2>5, <3>4, <3>5
  <2>9. \A i \in DOMAIN results' :
          results'[i].open =>
            results'[i].number \in listening' \/ results'[i].probe = "error"
    BY <2>1, <2>3, <2>5, <2>7
  <2>10. \A i, j \in DOMAIN results' :
           i < j => results'[i].number < results'[j].number
    BY <2>3, <2>5, <2>6
  <2>. QED
    BY <2>1, <2>8, <2>9, <2>10
<1>6. CASE ClearFutures
  <2>1. settled' + idx' >= settled + idx
    BY <1>6 DEF ClearFutures, PlanInv
  <2>2. settled + idx \in Nat /\ settled' + idx' \in Nat
    BY <1>6 DEF ClearFutures, PlanInv
  <2>3. UNCHANGED <<plan, results, answer, listening>> /\ pc = "clear"
    BY <1>6 DEF ClearFutures
  <2>. HIDE DEF settled
  <2>. QED
    BY <2>1, <2>2, <2>3
<1>7. CASE SortResults
  <2>0. \A i \in DOMAIN results : results[i].number \in Nat
    <3>1. \A i \in DOMAIN results : results[i] \in Result
      OBVIOUS
    <3>2. \A r \in Result : r.number \in Nat
      BY DEF Result, Ports, ScannerAssumption
    <3>. QED
      BY <3>1, <3>2
  <2>1. /\ results' \in SortsOf(results) /\ pc' = "return"
        /\ UNCHANGED <<plan, answer, listening>>
    BY <1>7 DEF SortResults
  <2>2. PICK f \in [DOMAIN results -> DOMAIN results] :
          /\ \A i, j \in DOMAIN results : f[i] = f[j] => i = j
          /\ \A i \in DOMAIN results : results'[i] = results[f[i]]
    BY <2>1, SortedResults
  <2>3. /\ DOMAIN results' = DOMAIN results
        /\ \A i, j \in DOMAIN results :
             i < j => results'[i].number <= results'[j].number
    BY <2>1, SortedResults
  <2>4. \A i, j \in DOMAIN results :
          results[i].number = results[j].number => i = j
    <3>. SUFFICES ASSUME NEW i \in DOMAIN results, NEW j \in DOMAIN results,
                         results[i].number = results[j].number, i # j
                  PROVE  FALSE
      OBVIOUS
    <3>1. i < j \/ j < i
      OBVIOUS
    <3>2. results[i].number < results[j].number \/ results[j].number < results[i].number
      BY <3>1
    <3>. QED
      BY <2>0, <3>2
  <2>5. \A i, j \in DOMAIN results :
          i < j => results'[i].number # results'[j].number
    <3>1. \A i \in DOMAIN results : f[i] \in DOMAIN results /\ i \in Nat
      BY <2>2
    <3>. SUFFICES ASSUME NEW i \in DOMAIN results, NEW j \in DOMAIN results, i < j
                  PROVE  results'[i].number # results'[j].number
      OBVIOUS
    <3>2. f[i] \in DOMAIN results /\ f[j] \in DOMAIN results /\ i # j
      BY <3>1
    <3>3. f[i] # f[j]
      BY <2>2, <3>2
    <3>4. results[f[i]].number # results[f[j]].number
      BY <2>4, <3>2, <3>3
    <3>. QED
      BY <2>2, <3>4
  <2>6. \A i \in DOMAIN results : results'[i].number \in Nat
    BY <2>0, <2>2
  <2>7. \A i, j \in DOMAIN results' :
          i < j => results'[i].number < results'[j].number
    BY <2>3, <2>5, <2>6
  <2>8. \A i \in DOMAIN results' :
          results'[i].open =>
            results'[i].number \in listening' \/ results'[i].probe = "error"
    BY <2>1, <2>2, <2>3
  <2>9. \A i \in DOMAIN results' :
          \E m \in DOMAIN plan' : results'[i].number = plan'[m]
    BY <2>1, <2>2, <2>3
  <2>10. \A q \in Ports : Backed(q, answer[q])'
    BY <2>1
  <2>. QED
    BY <2>1, <2>7, <2>8, <2>9, <2>10
<1>8. CASE Return
  BY <1>8 DEF Return
<1>9. CASE Progress
  <2>1. UNCHANGED <<callerVars, listening>>
        /\ \A q \in Ports : Backed(q, answer[q]) => Backed(q, answer'[q])
    BY <1>9 DEF Progress
  <2>2. \A q \in Ports : Backed(q, answer'[q])
    BY <2>1
  <2>3. \A q \in Ports : Backed(q, answer[q])'
    BY <2>1, <2>2
  <2>. QED
    BY <2>1, <2>3 DEF callerVars
<1>10. CASE UNCHANGED vars
  BY <1>10 DEF vars, callerVars
<1>. QED
  BY <1>1, <1>2, <1>3, <1>4, <1>5, <1>6, <1>7, <1>8, <1>9, <1>10,
     WorkerProgress, SignalProgress DEF Next, Caller, Terminated

-----------------------------------------------------------------------------
(* Answers without a probe.                                                *)

LEMMA InitStopInv ==
  ASSUME ScannerAssumption, Init
  PROVE  StopInv
BY DEF Init, StopInv, AtMostOneUnprobed

LEMMA NextStopInv ==
  ASSUME TypeOK, PlanInv, StopInv, [Next]_vars
  PROVE  StopInv'
<1>. USE DEF TypeOK, StopInv, AtMostOneUnprobed
<1>1. CASE SpawnCheck
  BY <1>1 DEF SpawnCheck
<1>2. CASE Launch
  BY <1>2 DEF Launch, PlanInv
<1>3. CASE LaunchThrows
  BY <1>3 DEF LaunchThrows
<1>4. ASSUME NEW loop \in {"drain", "collect"}, CollectCheck(loop)
      PROVE  StopInv'
  BY <1>4 DEF CollectCheck, After, Waiting
<1>5. ASSUME NEW loop \in {"drain", "collect"}, CollectGet(loop)
      PROVE  StopInv'
  <2>. DEFINE p == futures[idx]
              r == [number |-> p, open |-> answer[p].open, probe |-> answer[p].probe]
              n == Len(results) + 1
  <2>1. /\ pc \in {"drainGet", "collectGet"} /\ pc' = loop
        /\ worker[p] = "returned"
        /\ results' = Append(results, r)
        /\ UNCHANGED <<worker, answer, stopRequested>>
    BY <1>5 DEF CollectGet, Waiting
  <2>2. p \in Ports
    BY <2>1 DEF PlanInv
  <2>3. r \in Result /\ (r.probe = "none" => stopRequested)
    BY <2>1, <2>2 DEF Result, Answer
  <2>. HIDE DEF r, p
  <2>4. /\ DOMAIN results' = DOMAIN results \cup {n}
        /\ results'[n] = r
        /\ \A i \in DOMAIN results : results'[i] = results[i]
    BY <2>1, <2>3
  <2>5. \A i \in DOMAIN results : results[i].probe # "none"
    BY <2>1
  <2>. QED
    BY <2>1, <2>3, <2>4, <2>5
<1>6. CASE ClearFutures
  BY <1>6 DEF ClearFutures
<1>7. CASE SortResults
  <2>1. PICK f \in [DOMAIN results -> DOMAIN results] :
          /\ \A i, j \in DOMAIN results : f[i] = f[j] => i = j
          /\ \A i \in DOMAIN results : results'[i] = results[f[i]]
    BY <1>7, SortedResults DEF SortResults
  <2>2. DOMAIN results' = DOMAIN results
    BY <1>7, SortedResults DEF SortResults
  <2>. QED
    BY <1>7, <2>1, <2>2 DEF SortResults
<1>8. CASE Return
  BY <1>8 DEF Return
<1>9. CASE Progress
  BY <1>9 DEF Progress, callerVars
<1>10. CASE UNCHANGED vars
  BY <1>10 DEF vars, callerVars
<1>. QED
  BY <1>1, <1>2, <1>3, <1>4, <1>5, <1>6, <1>7, <1>8, <1>9, <1>10,
     WorkerProgress, SignalProgress DEF Next, Caller, Terminated

-----------------------------------------------------------------------------
(* The number of workers.                                                  *)

(* No more workers are alive than there are futures in the vector.         *)
LEMMA LiveAtMostFutures ==
  ASSUME TypeOK, WorkersInv
  PROVE  Cardinality(Live) \in Nat /\ Cardinality(Live) <= Len(futures)
<1>. DEFINE f == [p \in Live |-> CHOOSE i \in DOMAIN futures : futures[i] = p]
<1>1. Len(futures) \in Nat /\ DOMAIN futures = 1..Len(futures)
  BY DEF TypeOK
<1>2. \A p \in Live : f[p] \in DOMAIN futures /\ futures[f[p]] = p
  BY DEF WorkersInv
<1>3. f \in Injection(Live, 1..Len(futures))
  BY <1>1, <1>2 DEF Injection, IsInjective
<1>4. IsFiniteSet(1..Len(futures)) /\ Cardinality(1..Len(futures)) = Len(futures)
  <2>. DEFINE n == Len(futures)
  <2>1. n \in Int /\ 1 \in Int /\ n >= 0
    BY <1>1
  <2>. HIDE DEF n
  <2>2. /\ IsFiniteSet(1..n)
        /\ Cardinality(1..n) = IF 1 > n THEN 0 ELSE n - 1 + 1
    BY <2>1, FS_Interval
  <2>3. Cardinality(1..n) = n
    BY <2>1, <2>2
  <2>. QED
    BY <2>2, <2>3 DEF n
<1>. HIDE DEF f
<1>5. IsFiniteSet(Live) /\ Cardinality(Live) <= Cardinality(1..Len(futures))
  BY <1>3, <1>4, FS_Injection
<1>. QED
  BY <1>4, <1>5, FS_CardinalityType

LEMMA BoundFromInv ==
  ASSUME ScannerAssumption, TypeOK, PlanInv, WorkersInv
  PROVE  WorkersBounded
<1>1. Len(futures) <= IF batched THEN MAX_WORKERS ELSE Len(plan)
  BY DEF TypeOK, PlanInv, WorkersInv, launched, ScannerAssumption
<1>2. Len(futures) \in Nat /\ Len(plan) \in Nat /\ MAX_WORKERS \in Nat
  BY DEF TypeOK, ScannerAssumption
<1>. QED
  BY <1>1, <1>2, LiveAtMostFutures DEF WorkersBounded

(* A launch that throws finds more workers alive than the scan can have.   *)
LEMMA NextNoAbort ==
  ASSUME ScannerAssumption, TypeOK, PlanInv, WorkersInv, NoAbort, [Next]_vars
  PROVE  NoAbort'
<1>. DEFINE need == IF batched THEN MAX_WORKERS ELSE Len(plan)
<1>1. need \in Nat /\ ThreadLimit \in Nat /\ Len(futures) \in Nat
  BY DEF TypeOK, ScannerAssumption
<1>2. ASSUME LaunchThrows, ThreadLimit >= need PROVE FALSE
  <2>1. Len(futures) < need
    BY <1>2 DEF LaunchThrows, TypeOK, PlanInv, WorkersInv, launched, ScannerAssumption
  <2>2. Cardinality(Live) >= ThreadLimit
    BY <1>2 DEF LaunchThrows
  <2>. HIDE DEF need
  <2>. QED
    BY <1>1, <1>2, <2>1, <2>2, LiveAtMostFutures
<1>3. LaunchThrows => NoAbort'
  BY <1>2 DEF NoAbort, LaunchThrows
<1>. USE DEF NoAbort
<1>4. CASE SpawnCheck
  BY <1>4 DEF SpawnCheck
<1>5. CASE Launch
  BY <1>5 DEF Launch
<1>6. ASSUME NEW loop \in {"drain", "collect"},
             CollectCheck(loop) \/ CollectGet(loop)
      PROVE  NoAbort'
  BY <1>6 DEF CollectCheck, CollectGet, After, Waiting
<1>7. CASE ClearFutures \/ SortResults \/ Return
  BY <1>7 DEF ClearFutures, SortResults, Return
<1>8. CASE Progress
  BY <1>8 DEF Progress, callerVars
<1>9. CASE UNCHANGED vars
  BY <1>9 DEF vars, callerVars
<1>. QED
  BY <1>3, <1>4, <1>5, <1>6, <1>7, <1>8, <1>9,
     WorkerProgress, SignalProgress DEF Next, Caller, Terminated

-----------------------------------------------------------------------------
(* The completeness of a scan nobody stops.                                *)

(* Without a stop request the results so far are those of the beginning of *)
(* the plan, up to the future collected next, and the last collecting loop *)
(* is reached with the whole plan launched.                                *)
CompleteInv ==
  ~stopRequested =>
    /\ \A k \in DOMAIN results : results[k].number = plan[k]
    /\ pc \notin {"sort", "return", "done", "aborted"} =>
         Len(results) = settled + idx - 1
    /\ pc = "clear" => idx = Len(futures) + 1
    /\ pc \in {"collect", "collectGet"} => launched = Len(plan)
    /\ pc \in {"sort", "return", "done"} => Len(results) = Len(plan)

(* An ascending map of 1..n to itself leaves every element at its place:   *)
(* it embeds what is below an element below its image, and what is above   *)
(* it above.                                                               *)
LEMMA AscendingIsIdentity ==
  ASSUME NEW n \in Nat, NEW f \in [1..n -> 1..n],
         \A a, b \in 1..n : a < b => f[a] < f[b],
         NEW k \in 1..n
  PROVE  f[k] = k
<1>1. f[k] \in 1..n
  OBVIOUS
<1>2. k <= f[k]
  <2>. DEFINE g == [a \in 1..(k - 1) |-> f[a]]
              m == f[k] - 1
  <2>1. g \in Injection(1..(k - 1), 1..m)
    <3>1. \A a \in 1..(k - 1) : a \in 1..n /\ g[a] = f[a] /\ f[a] \in 1..m
      BY <1>1
    <3>2. \A a, b \in 1..(k - 1) : g[a] = g[b] => a = b
      <4>. SUFFICES ASSUME NEW a \in 1..(k - 1), NEW b \in 1..(k - 1), g[a] = g[b], a # b
                    PROVE  FALSE
        OBVIOUS
      <4>1. f[a] = f[b] /\ a \in 1..n /\ b \in 1..n /\ (a < b \/ b < a)
        BY <3>1
      <4>2. f[a] \in 1..n /\ f[b] \in 1..n
        BY <4>1
      <4>. QED
        BY <4>1, <4>2
    <3>3. g \in [1..(k - 1) -> 1..m]
      BY <3>1
    <3>. QED
      BY <3>2, <3>3 DEF Injection, IsInjective
  <2>. HIDE DEF g
  <2>2. m \in Nat /\ k - 1 \in Nat
    BY <1>1
  <2>3. k - 1 <= m
    <3>. HIDE DEF m
    <3>1. IsFiniteSet(1..m) /\ Cardinality(1..m) = m
      BY <2>2, FS_Interval
    <3>2. IsFiniteSet(1..(k - 1)) /\ Cardinality(1..(k - 1)) = k - 1
      BY <2>2, FS_Interval
    <3>3. Cardinality(1..(k - 1)) <= Cardinality(1..m)
      BY <2>1, <3>1, FS_Injection
    <3>. QED
      BY <3>1, <3>2, <3>3
  <2>. QED
    BY <1>1, <2>3
<1>3. f[k] <= k
  <2>. DEFINE g == [a \in (k + 1)..n |-> f[a]]
              lo == f[k] + 1
  <2>1. g \in Injection((k + 1)..n, lo..n)
    <3>1. \A a \in (k + 1)..n : a \in 1..n /\ g[a] = f[a] /\ f[a] \in lo..n
      BY <1>1
    <3>2. \A a, b \in (k + 1)..n : g[a] = g[b] => a = b
      <4>. SUFFICES ASSUME NEW a \in (k + 1)..n, NEW b \in (k + 1)..n, g[a] = g[b], a # b
                    PROVE  FALSE
        OBVIOUS
      <4>1. f[a] = f[b] /\ a \in 1..n /\ b \in 1..n /\ (a < b \/ b < a)
        BY <3>1
      <4>2. f[a] \in 1..n /\ f[b] \in 1..n
        BY <4>1
      <4>. QED
        BY <4>1, <4>2
    <3>3. g \in [(k + 1)..n -> lo..n]
      BY <3>1
    <3>. QED
      BY <3>2, <3>3 DEF Injection, IsInjective
  <2>. HIDE DEF g
  <2>2. lo \in Int /\ n \in Int /\ k + 1 \in Int /\ lo <= n + 1 /\ k + 1 <= n + 1
    BY <1>1
  <2>3. lo <= k + 1
    <3>. HIDE DEF lo
    <3>1. IsFiniteSet(lo..n) /\ Cardinality(lo..n) = IF lo > n THEN 0 ELSE n - lo + 1
      BY <2>2, FS_Interval
    <3>2. Cardinality((k + 1)..n) = IF k + 1 > n THEN 0 ELSE n - (k + 1) + 1
      BY <2>2, FS_Interval
    <3>3. Cardinality((k + 1)..n) <= Cardinality(lo..n)
      BY <2>1, <3>1, FS_Injection
    <3>4. Cardinality(lo..n) = n - lo + 1 /\ Cardinality((k + 1)..n) = n - k
      BY <2>2, <3>1, <3>2
    <3>. QED
      BY <2>2, <3>3, <3>4
  <2>. QED
    BY <1>1, <2>3
<1>. QED
  BY <1>1, <1>2, <1>3

LEMMA InitCompleteInv ==
  ASSUME ScannerAssumption, Init
  PROVE  CompleteInv
BY DEF Init, CompleteInv, settled, launched

LEMMA NextCompleteInv ==
  ASSUME ScannerAssumption, TypeOK, PlanInv, ResultsInv, ResultsInv',
         CompleteInv, [Next]_vars
  PROVE  CompleteInv'
<1>. USE DEF CompleteInv
<1>0. /\ Len(futures) \in Nat /\ Len(plan) \in Nat /\ Len(results) \in Nat
      /\ next \in Nat /\ idx \in Nat /\ stopRequested \in BOOLEAN
  BY DEF TypeOK
<1>1. CASE SpawnCheck
  BY <1>0, <1>1 DEF SpawnCheck, PlanInv, launched, settled
<1>2. CASE Launch
  <2>1. settled' = settled
    BY <1>2, LaunchSettled
  <2>2. /\ pc = "launch" /\ pc' \in {"drain", "spawn"}
        /\ UNCHANGED <<plan, idx, results, stopRequested>>
    BY <1>2 DEF Launch
  <2>. QED
    BY <2>1, <2>2
<1>3. CASE LaunchThrows
  BY <1>3 DEF LaunchThrows
<1>4. ASSUME NEW loop \in {"drain", "collect"}, CollectCheck(loop)
      PROVE  CompleteInv'
  <2>1. /\ pc = loop /\ UNCHANGED <<plan, futures, idx, results, next, stopRequested>>
        /\ pc' = IF idx > Len(futures) \/ stopRequested THEN After(loop) ELSE Waiting(loop)
    BY <1>4 DEF CollectCheck
  <2>2. ~stopRequested /\ idx > Len(futures) => idx = Len(futures) + 1
    BY <1>0, <2>1 DEF PlanInv
  <2>3. CASE loop = "drain"
    BY <1>0, <2>1, <2>2, <2>3 DEF After, Waiting, launched, settled
  <2>4. CASE loop = "collect"
    BY <1>0, <2>1, <2>2, <2>4 DEF After, Waiting, launched, settled
  <2>. QED
    BY <2>3, <2>4
<1>5. ASSUME NEW loop \in {"drain", "collect"}, CollectGet(loop)
      PROVE  CompleteInv'
  <2>. DEFINE p == futures[idx]
              r == [number |-> p, open |-> answer[p].open, probe |-> answer[p].probe]
  <2>1. /\ pc = Waiting(loop) /\ pc' = loop /\ idx' = idx + 1
        /\ UNCHANGED <<plan, futures, next, stopRequested>>
        /\ results' = Append(results, r) /\ r.number = p
    BY <1>5 DEF CollectGet
  <2>2. settled' = settled /\ settled \in Nat /\ launched' = launched
    BY <1>0, <2>1 DEF Waiting, PlanInv, launched, settled
  <2>3. p = plan[settled + idx] /\ p \in Ports
    BY <1>0, <2>1 DEF Waiting, PlanInv, launched, settled, TypeOK
  <2>4. r \in Result
    BY <2>3 DEF Result, Answer, TypeOK
  <2>. HIDE DEF r, p
  <2>5. /\ Len(results') = Len(results) + 1
        /\ DOMAIN results' = DOMAIN results \cup {Len(results) + 1}
        /\ results'[Len(results) + 1] = r
        /\ \A k \in DOMAIN results : results'[k] = results[k]
    BY <2>1, <2>4 DEF TypeOK
  <2>6. ~stopRequested => Len(results) = settled + idx - 1
    BY <2>1 DEF Waiting
  <2>7. ~stopRequested => \A k \in DOMAIN results' : results'[k].number = plan[k]
    <3>1. ~stopRequested => r.number = plan[Len(results) + 1]
      BY <1>0, <2>1, <2>2, <2>3, <2>6
    <3>. QED
      BY <2>5, <3>1
  <2>8. ~stopRequested => Len(results') = settled' + idx' - 1
    BY <1>0, <2>1, <2>2, <2>5, <2>6
  <2>9. ~stopRequested /\ pc' = "collect" => launched' = Len(plan')
    BY <2>1, <2>2 DEF Waiting
  <2>. QED
    BY <2>1, <2>7, <2>8, <2>9
<1>6. CASE ClearFutures
  <2>1. /\ pc = "clear" /\ pc' = "spawn" /\ idx' = 1 /\ next' = next + 1
        /\ futures' = <<>> /\ UNCHANGED <<plan, results, stopRequested>>
    BY <1>6 DEF ClearFutures
  <2>2. settled = next - Len(futures) /\ settled' = next
    BY <1>0, <2>1 DEF launched, settled
  <2>. QED
    BY <1>0, <2>1, <2>2
<1>7. CASE SortResults
  <2>1. /\ results' \in SortsOf(results) /\ pc = "sort" /\ pc' = "return"
        /\ UNCHANGED <<plan, stopRequested>>
    BY <1>7 DEF SortResults
  <2>2. PICK f \in [DOMAIN results -> DOMAIN results] :
          \A i \in DOMAIN results : results'[i] = results[f[i]]
    BY <2>1, SortedResults
  <2>3. /\ DOMAIN results = 1..Len(results) /\ DOMAIN results' = DOMAIN results
        /\ results' \in Seq(Result)
    BY <2>1, SortedResults DEF TypeOK
  <2>4. Len(results') = Len(results)
    BY <1>0, <2>3
  <2>5. \A i \in DOMAIN results : results[i].number \in Nat
    <3>1. \A i \in DOMAIN results : results[i] \in Result
      BY DEF TypeOK
    <3>2. \A r \in Result : r.number \in Nat
      BY DEF Result, Ports, ScannerAssumption
    <3>. QED
      BY <3>1, <3>2
  <2>6. \A a, b \in DOMAIN results : a < b => f[a] < f[b]
    <3>. SUFFICES ASSUME NEW a \in DOMAIN results, NEW b \in DOMAIN results,
                         a < b, ~(f[a] < f[b])
                  PROVE  FALSE
      OBVIOUS
    <3>1. /\ f[a] \in DOMAIN results /\ f[b] \in DOMAIN results
          /\ f[b] < f[a] \/ f[b] = f[a]
      BY <1>0, <2>3
    <3>2. results[f[a]].number < results[f[b]].number
      BY <2>2, <2>3 DEF ResultsInv, ResultsSound
    <3>3. f[b] < f[a] => results[f[b]].number < results[f[a]].number
      BY <3>1 DEF ResultsInv, ResultsSound
    <3>. QED
      BY <2>5, <3>1, <3>2, <3>3
  <2>7. \A k \in DOMAIN results : f[k] = k
    BY <1>0, <2>3, <2>6, AscendingIsIdentity
  <2>8. \A k \in DOMAIN results : results'[k] = results[k]
    BY <2>2, <2>7
  <2>. QED
    BY <2>1, <2>3, <2>4, <2>8
<1>8. CASE Return
  BY <1>8 DEF Return
<1>9. CASE Progress
  BY <1>9 DEF Progress, callerVars, launched, settled
<1>10. CASE UNCHANGED vars
  BY <1>10 DEF vars, callerVars, launched, settled
<1>. QED
  BY <1>1, <1>2, <1>3, <1>4, <1>5, <1>6, <1>7, <1>8, <1>9, <1>10,
     WorkerProgress, SignalProgress DEF Next, Caller, Terminated

LEMMA CompleteFromInv ==
  ASSUME TypeOK, CompleteInv, StopInv
  PROVE  CompleteUnlessStopped
<1>. SUFFICES ASSUME pc = "done", ~stopRequested
              PROVE  /\ [i \in DOMAIN results |-> results[i].number] = plan
                     /\ \A i \in DOMAIN results : results[i].probe # "none"
  BY DEF CompleteUnlessStopped
<1>1. /\ Len(results) = Len(plan)
      /\ \A k \in DOMAIN results : results[k].number = plan[k]
  BY DEF CompleteInv
<1>2. DOMAIN results = DOMAIN plan
  BY <1>1 DEF TypeOK
<1>3. plan = [i \in DOMAIN plan |-> plan[i]]
  BY DEF TypeOK
<1>4. [i \in DOMAIN results |-> results[i].number] = plan
  BY <1>1, <1>2, <1>3
<1>5. \A i \in DOMAIN results : results[i].probe # "none"
  BY DEF StopInv, AtMostOneUnprobed
<1>. QED
  BY <1>4, <1>5

-----------------------------------------------------------------------------
IInv == TypeOK /\ PlanInv /\ WorkersInv /\ ResultsInv /\ StopInv
        /\ CompleteInv /\ NoAbort

LEMMA SpecIInv == Spec => []IInv
<1>1. Init => IInv
  BY ScannerAssumption, InitTypeOK, InitPlanInv, InitWorkersInv, InitResultsInv,
     InitStopInv, InitCompleteInv DEF IInv, NoAbort, Init
<1>2. IInv /\ [Next]_vars => IInv'
  BY ScannerAssumption, NextTypeOK, NextPlanInv, NextWorkersInv, NextResultsInv,
     NextStopInv, NextCompleteInv, NextNoAbort DEF IInv
<1>. QED
  BY <1>1, <1>2, PTL DEF Spec

(* The scan's variables always hold values of their types.                 *)
THEOREM TypeCorrect == Spec => []TypeOK
<1>1. IInv => TypeOK
  BY DEF IInv
<1>. QED
  BY SpecIInv, <1>1, PTL

(* A scan has at most MAX_WORKERS workers (a range) or one per common port *)
(* alive, whatever the schedule and whenever Ctrl+C is pressed.            *)
THEOREM WorkersAreBounded == Spec => []WorkersBounded
<1>1. IInv => WorkersBounded
  BY ScannerAssumption, BoundFromInv DEF IInv
<1>. QED
  BY SpecIInv, <1>1, PTL

(* Where the system grants that many threads no launch throws.             *)
THEOREM NeverAborts == Spec => []NoAbort
<1>1. IInv => NoAbort
  BY DEF IInv
<1>. QED
  BY SpecIInv, <1>1, PTL

(* A scan that has returned has left no worker behind.                     *)
THEOREM NoWorkerOutlives == Spec => []NoWorkerOutlivesScan
<1>1. IInv => NoWorkerOutlivesScan
  BY DEF IInv, WorkersInv, NoWorkerOutlivesScan
<1>. QED
  BY SpecIInv, <1>1, PTL

(* A scan's workers are bounded while it runs and gone when it returns,    *)
(* for every number of ports, batch size and thread limit.                 *)
THEOREM WorkersAreAccountedFor == Spec => []WorkersAccountedFor
<1>1. WorkersBounded /\ NoAbort /\ NoWorkerOutlivesScan => WorkersAccountedFor
  BY DEF WorkersAccountedFor
<1>. QED
  BY WorkersAreBounded, NeverAborts, NoWorkerOutlives, <1>1, PTL

(* An open result is of a port that accepted a connection or whose own     *)
(* connect() failed at once; every port is reported at most once, in       *)
(* ascending order.                                                        *)
THEOREM ResultsAreSound == Spec => []ResultsSound
<1>1. IInv => ResultsSound
  BY DEF IInv, ResultsInv
<1>. QED
  BY SpecIInv, <1>1, PTL

(* At most one result of an interrupted scan was not obtained by a probe,  *)
(* and none of a scan nobody interrupted.                                  *)
THEOREM OneUnprobedAtMost == Spec => []AtMostOneUnprobed
<1>1. IInv => AtMostOneUnprobed
  BY DEF IInv, StopInv
<1>. QED
  BY SpecIInv, <1>1, PTL

(* A scan nobody interrupted reports exactly the ports of its plan, in     *)
(* order and each probed to the end, however many batches it took.         *)
THEOREM UnstoppedIsComplete == Spec => []CompleteUnlessStopped
<1>1. IInv => CompleteUnlessStopped
  BY CompleteFromInv DEF IInv
<1>. QED
  BY SpecIInv, <1>1, PTL
=============================================================================
