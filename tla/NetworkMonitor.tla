--------------------------- MODULE NetworkMonitor ---------------------------
(***************************************************************************)
(* One net|:monitor: NetworkMonitor::monitor sampling the counters of a    *)
(* network interface until Ctrl+C, on Linux.  The eight counters of a      *)
(* sample are treated alike; one stands for all.  The interface may carry  *)
(* traffic, disappear and come back with its counter at zero at any        *)
(* moment, and the user may press Ctrl+C at any moment.                    *)
(*                                                                         *)
(* `seen` and `total` count, for the properties only, what really passed   *)
(* the interface since the last sample and since the initial one.          *)
(***************************************************************************)
EXTENDS Naturals

CONSTANTS
  CounterLimit,   (* 2^64 in the code: counters are std::uint64_t          *)
  MaxInterval,    (* 3600 in the code: seconds between two samples         *)
  MaxTraffic      (* bound of the model: packets that pass after Init      *)

ASSUME MonitorAssumption ==
  /\ CounterLimit \in Nat \ {0}
  /\ MaxInterval \in Nat \ {0}
  /\ MaxTraffic \in Nat

Counter == 0..(CounterLimit - 1)

VARIABLES
  pc,             (* where the monitor is                                  *)
  interval,       (* intervalSeconds                                       *)
  second,         (* the second of the sleeping loop                       *)
  initial,        (* the initial snapshot                                  *)
  previous,       (* the snapshot the next sample is compared with         *)
  displayed,      (* the delta of the sample displayed last                *)
  summary,        (* the delta of the final report                         *)
  present,        (* environment: the interface exists                     *)
  counter,        (* environment: its counter                              *)
  seen,           (* history: traffic since `previous` was read            *)
  lastSeen,       (* history: `seen` when the last sample was taken        *)
  total,          (* history: traffic since `initial` was read             *)
  disturbed,      (* history: the counter restarted since `previous`       *)
  stopRequested,  (* SignalHandler::stopRequested                          *)
  sleeps          (* history: sleeps begun since a press after the clear   *)

sampleVars == <<initial, previous, displayed, summary>>
linkVars   == <<present, counter>>
trafficVars == <<seen, lastSeen, total, disturbed>>
stopVars   == <<stopRequested, sleeps>>
vars == <<pc, interval, second, sampleVars, linkVars, trafficVars, stopVars>>

-----------------------------------------------------------------------------
(* readStats: a counter whose file cannot be opened reads as 0.            *)
readStats == IF present THEN counter ELSE 0

(* Fault: the unsigned difference, without the comparison.                 *)
counterDeltaUnguarded(current, before) ==
  (current + CounterLimit - before) % CounterLimit

(* "Network counters can reset when an interface restarts or reconnects.   *)
(* Never allow unsigned underflow."                                        *)
counterDelta(current, before) ==
  IF current < before THEN current ELSE current - before

(* Its guard against elapsedSeconds <= 0 never takes effect: two samples   *)
(* are a sleep apart, and steady_clock advances while the final snapshot   *)
(* is read.                                                                *)
calculateDelta(before, current) == counterDelta(current, before)

Init ==
  /\ pc = "announced"
  /\ interval \in 1..MaxInterval
  /\ second = 0
  /\ initial = 0 /\ previous = 0 /\ displayed = 0 /\ summary = 0
  /\ present \in BOOLEAN
  /\ counter \in (IF present THEN Counter ELSE {0})
  /\ seen = 0 /\ lastSeen = 0 /\ total = 0
  /\ disturbed = FALSE
  /\ stopRequested = FALSE
  /\ sleeps = 0

-----------------------------------------------------------------------------
(* The handler has printed "Stop : Ctrl+C"; monitor() clears the stop flag.*)
ClearStop ==
  /\ pc = "announced"
  /\ stopRequested' = FALSE
  /\ pc' = "snapshot"
  /\ UNCHANGED <<interval, second, sampleVars, linkVars, trafficVars, sleeps>>

(* The initial snapshot.  The name in it is the name that was asked for,   *)
(* never empty, so the "Unable to access" return is not taken.             *)
InitialSnapshot ==
  /\ pc = "snapshot"
  /\ initial' = readStats
  /\ previous' = readStats
  /\ seen' = 0 /\ total' = 0
  /\ disturbed' = FALSE
  /\ pc' = "head"
  /\ UNCHANGED <<interval, second, displayed, summary, linkVars, lastSeen>>
  /\ UNCHANGED stopVars

(* Fault: the stop flag is cleared in every round.                         *)
LoopHeadClears ==
  /\ pc = "head"
  /\ stopRequested' = FALSE
  /\ pc' = "doze"
  /\ second' = 0
  /\ UNCHANGED <<interval, sampleVars, linkVars, trafficVars, sleeps>>

(* while (!isStopRequested()) around the whole sampling loop.              *)
LoopHead ==
  /\ pc = "head"
  /\ pc' = IF stopRequested THEN "final" ELSE "doze"
  /\ second' = 0
  /\ UNCHANGED <<interval, sampleVars, linkVars, trafficVars, stopVars>>

(* Fault: a sleep that ignores the stop flag.                             *)
DozeHeadThrough ==
  /\ pc = "doze"
  /\ pc' = IF second >= interval THEN "check" ELSE "sleep"
  /\ UNCHANGED <<interval, second, sampleVars, linkVars, trafficVars, stopVars>>

(* Head of the sleeping loop: leave it after `interval` seconds or on a    *)
(* stop request, else sleep for another second.                            *)
DozeHead ==
  /\ pc = "doze"
  /\ pc' = IF second >= interval \/ stopRequested THEN "check" ELSE "sleep"
  /\ UNCHANGED <<interval, second, sampleVars, linkVars, trafficVars, stopVars>>

(* sleep_for(seconds(1)) begins and ends.  A signal does not shorten it.   *)
Sleep ==
  /\ pc = "sleep"
  /\ pc' = "sleeping"
  /\ sleeps' = IF stopRequested THEN sleeps + 1 ELSE sleeps
  /\ UNCHANGED <<interval, second, sampleVars, linkVars, trafficVars, stopRequested>>
Wake ==
  /\ pc = "sleeping"
  /\ second' = second + 1
  /\ pc' = "doze"
  /\ UNCHANGED <<interval, sampleVars, linkVars, trafficVars, stopVars>>

(* The stop check between the sleep and the sample.                        *)
StopCheck ==
  /\ pc = "check"
  /\ pc' = IF stopRequested THEN "final" ELSE "sample"
  /\ UNCHANGED <<interval, second, sampleVars, linkVars, trafficVars, stopVars>>

(* Fault: `previous` stays the initial snapshot.                           *)
SampleKeepsPrevious ==
  /\ pc = "sample"
  /\ displayed' = calculateDelta(previous, readStats)
  /\ lastSeen' = seen
  /\ seen' = 0
  /\ disturbed' = FALSE
  /\ pc' = "head"
  /\ UNCHANGED <<interval, second, initial, previous, summary, linkVars, total>>
  /\ UNCHANGED stopVars

(* Read the counters, display the difference to the previous sample, and   *)
(* make this sample the previous one.                                      *)
Sample ==
  /\ pc = "sample"
  /\ displayed' = calculateDelta(previous, readStats)
  /\ previous' = readStats
  /\ lastSeen' = seen
  /\ seen' = 0
  /\ disturbed' = FALSE
  /\ pc' = "head"
  /\ UNCHANGED <<interval, second, initial, summary, linkVars, total, stopVars>>

(* The final snapshot and the report; the stop flag is cleared again.      *)
FinalReport ==
  /\ pc = "final"
  /\ summary' = calculateDelta(initial, readStats)
  /\ stopRequested' = FALSE
  /\ pc' = "done"
  /\ UNCHANGED <<interval, second, initial, previous, displayed, linkVars>>
  /\ UNCHANGED <<trafficVars, sleeps>>

-----------------------------------------------------------------------------
(* The interface.                                                          *)

(* Traffic passes; the counter wraps at its width.                         *)
Traffic ==
  /\ pc # "done" /\ present
  /\ total < MaxTraffic
  /\ counter' = IF counter + 1 = CounterLimit THEN 0 ELSE counter + 1
  /\ seen' = seen + 1
  /\ total' = total + 1
  /\ disturbed' = (disturbed \/ counter' = 0)
  /\ UNCHANGED <<pc, interval, second, sampleVars, present, lastSeen, stopVars>>

(* The interface is removed, or comes (back) with its counter at zero.     *)
LinkChange ==
  /\ pc # "done"
  /\ present' = ~present
  /\ counter' = 0
  /\ disturbed' = TRUE
  /\ UNCHANGED <<pc, interval, second, sampleVars, seen, lastSeen, total, stopVars>>

(* The driver restarts and zeroes the counter without a removal.           *)
CounterReset ==
  /\ pc # "done" /\ present
  /\ counter' = 0
  /\ disturbed' = TRUE
  /\ UNCHANGED <<pc, interval, second, sampleVars, present, seen, lastSeen, total>>
  /\ UNCHANGED stopVars

Signal ==
  /\ pc # "done"
  /\ stopRequested' = TRUE
  /\ UNCHANGED <<pc, interval, second, sampleVars, linkVars, trafficVars, sleeps>>

Terminated == pc = "done" /\ UNCHANGED vars

Monitor ==
  \/ ClearStop \/ InitialSnapshot \/ LoopHead \/ DozeHead \/ Sleep \/ Wake
  \/ StopCheck \/ Sample \/ FinalReport

Next == Monitor \/ Traffic \/ LinkChange \/ CounterReset \/ Signal \/ Terminated
Spec == Init /\ [][Next]_vars

(* The monitor's thread is scheduled and its sleeps end.                   *)
FairSpec == Spec /\ WF_vars(Monitor)
-----------------------------------------------------------------------------
TypeOK ==
  /\ pc \in {"announced", "snapshot", "head", "doze", "sleep", "sleeping",
             "check", "sample", "final", "done"}
  /\ interval \in 1..MaxInterval
  /\ second \in 0..MaxInterval
  /\ initial \in Counter /\ previous \in Counter
  /\ displayed \in Counter /\ summary \in Counter
  /\ present \in BOOLEAN
  /\ counter \in Counter
  /\ seen \in Nat /\ lastSeen \in Nat /\ total \in Nat
  /\ disturbed \in BOOLEAN
  /\ stopRequested \in BOOLEAN
  /\ sleeps \in Nat

(* A displayed sample never reports traffic that did not happen, whatever  *)
(* restarts, removals and wrap-arounds fall between two samples; the same  *)
(* holds of the totals of the final report.                                *)
NeverOverstates ==
  /\ displayed <= lastSeen
  /\ pc = "done" => summary <= total

(* Between two samples without a restart the next display is exact.        *)
ExactWhenUndisturbed ==
  (pc \notin {"announced", "snapshot"} /\ ~disturbed) =>
     calculateDelta(previous, readStats) = seen

(* "Sleep in small increments so Ctrl+C can terminate monitoring           *)
(* promptly": after a press at most one further one-second sleep begins,   *)
(* whatever the interval.                                                  *)
PromptStop == sleeps <= 1

(* A press after the flag was cleared ends the monitor.                    *)
PressEndsMonitor ==
  (stopRequested /\ pc \notin {"announced", "done"}) ~> (pc = "done")
=============================================================================
