------------------------- MODULE MonitorProbeProofs -------------------------
(***************************************************************************)
(* The safety of the two commands that observe a network over time, the    *)
(* monitor and the firewall probe: of the monitor for counters of any      *)
(* width, any interval and any amount of traffic, of a probe for every     *)
(* number of ports and addresses.                                          *)
(***************************************************************************)
EXTENDS NetworkMonitor, FirewallProbe, FiniteSetTheorems, TLAPS

-----------------------------------------------------------------------------
(* The monitor.                                                            *)

Sampling == pc \notin {"announced", "snapshot"}

(* What would be displayed now never exceeds what passed since the sample  *)
(* it is compared with, and equals it if the counter was not disturbed.    *)
DeltaInv ==
  /\ ~present => counter = 0
  /\ Sampling =>
       /\ calculateDelta(previous, readStats) <= seen
       /\ calculateDelta(initial, readStats) <= total
       /\ ~disturbed => previous <= readStats /\ readStats - previous = seen
  /\ displayed <= lastSeen
  /\ pc = "done" => summary <= total

(* A sleep that began after a press was the last one, and a sleep begins   *)
(* only within the interval.                                               *)
SleepInv ==
  /\ sleeps <= 1
  /\ sleeps > 0 =>
       \/ stopRequested /\ pc \in {"sleeping", "doze", "check", "final"}
       \/ pc = "done"
  /\ pc \in {"sleep", "sleeping"} => second < interval

IInv == TypeOK /\ DeltaInv /\ SleepInv

-----------------------------------------------------------------------------
LEMMA InitIInv ==
  ASSUME MonitorAssumption, Init
  PROVE  IInv
<1>1. counter \in Counter /\ (~present => counter = 0)
  BY DEF Init, Counter, MonitorAssumption
<1>2. interval \in 1..MaxInterval /\ present \in BOOLEAN
  BY DEF Init
<1>3. 0 \in Counter /\ 0 \in 0..MaxInterval
  BY DEF Counter, MonitorAssumption
<1>4. TypeOK
  BY <1>1, <1>2, <1>3 DEF Init, TypeOK
<1>. QED
  BY <1>1, <1>4 DEF Init, IInv, DeltaInv, SleepInv, Sampling

LEMMA ReadStatsType ==
  ASSUME MonitorAssumption, TypeOK
  PROVE  readStats \in Counter
BY DEF readStats, TypeOK, Counter, MonitorAssumption

(* The difference of two counters is a counter.                            *)
LEMMA DeltaType ==
  ASSUME MonitorAssumption, NEW a \in Counter, NEW b \in Counter
  PROVE  calculateDelta(a, b) \in Counter
BY DEF calculateDelta, counterDelta, Counter, MonitorAssumption

LEMMA NextTypeOK ==
  ASSUME MonitorAssumption, TypeOK, SleepInv, [Next]_vars
  PROVE  TypeOK'
<1>. USE DEF TypeOK, sampleVars, linkVars, trafficVars, stopVars
<1>1. CASE ClearStop
  BY <1>1 DEF ClearStop
<1>2. CASE InitialSnapshot
  BY <1>2, ReadStatsType DEF InitialSnapshot
<1>3. CASE LoopHead
  BY <1>3 DEF LoopHead, MonitorAssumption
<1>4. CASE DozeHead
  BY <1>4 DEF DozeHead
<1>5. CASE Sleep
  BY <1>5 DEF Sleep
<1>6. CASE Wake
  <2>1. second' \in 0..MaxInterval
    BY <1>6 DEF Wake, SleepInv, MonitorAssumption
  <2>. QED
    BY <1>6, <2>1 DEF Wake
<1>7. CASE StopCheck
  BY <1>7 DEF StopCheck
<1>8. CASE Sample
  <2>1. displayed' \in Counter /\ previous' \in Counter
    BY <1>8, ReadStatsType, DeltaType DEF Sample
  <2>. QED
    BY <1>8, <2>1 DEF Sample
<1>9. CASE FinalReport
  <2>1. summary' \in Counter
    BY <1>9, ReadStatsType, DeltaType DEF FinalReport
  <2>. QED
    BY <1>9, <2>1 DEF FinalReport
<1>10. CASE Traffic
  BY <1>10 DEF Traffic, Counter, MonitorAssumption
<1>11. CASE LinkChange \/ CounterReset
  <2>1. counter' \in Counter
    BY <1>11 DEF LinkChange, CounterReset, Counter, MonitorAssumption
  <2>2. present' \in BOOLEAN /\ disturbed' \in BOOLEAN
    BY <1>11 DEF LinkChange, CounterReset
  <2>. QED
    BY <1>11, <2>1, <2>2 DEF LinkChange, CounterReset
<1>12. CASE Signal
  BY <1>12 DEF Signal
<1>13. CASE UNCHANGED vars
  BY <1>13 DEF vars
<1>. QED
  BY <1>1, <1>2, <1>3, <1>4, <1>5, <1>6, <1>7, <1>8, <1>9, <1>10, <1>11,
     <1>12, <1>13 DEF Next, Monitor, Terminated

-----------------------------------------------------------------------------
LEMMA NextSleepInv ==
  ASSUME MonitorAssumption, TypeOK, SleepInv, [Next]_vars
  PROVE  SleepInv'
<1>. USE DEF TypeOK, SleepInv, sampleVars, linkVars, trafficVars, stopVars
<1>1. CASE ClearStop \/ InitialSnapshot
  BY <1>1 DEF ClearStop, InitialSnapshot
<1>2. CASE LoopHead \/ DozeHead \/ StopCheck
  BY <1>2 DEF LoopHead, DozeHead, StopCheck
<1>3. CASE Sleep
  BY <1>3 DEF Sleep
<1>4. CASE Wake
  BY <1>4 DEF Wake
<1>5. CASE Sample
  BY <1>5 DEF Sample
<1>6. CASE FinalReport
  BY <1>6 DEF FinalReport
<1>7. CASE Traffic \/ LinkChange \/ CounterReset
  BY <1>7 DEF Traffic, LinkChange, CounterReset
<1>8. CASE Signal
  BY <1>8 DEF Signal
<1>9. CASE UNCHANGED vars
  BY <1>9 DEF vars
<1>. QED
  BY <1>1, <1>2, <1>3, <1>4, <1>5, <1>6, <1>7, <1>8, <1>9
     DEF Next, Monitor, Terminated

(* The two facts the environment's steps rest on: a counter that moves on  *)
(* by one raises the difference by at most one, one that is zeroed makes   *)
(* it zero.                                                                *)
LEMMA DeltaSteps ==
  ASSUME MonitorAssumption, NEW b \in Counter, NEW c \in Counter, NEW n \in Nat,
         calculateDelta(b, c) <= n
  PROVE  /\ calculateDelta(b, c + 1) <= n + 1
         /\ calculateDelta(b, 0) = 0
         /\ calculateDelta(b, b) = 0
BY DEF calculateDelta, counterDelta, Counter, MonitorAssumption

LEMMA NextDeltaInv ==
  ASSUME MonitorAssumption, TypeOK, DeltaInv, [Next]_vars
  PROVE  DeltaInv'
<1>. USE DEF DeltaInv, Sampling, sampleVars, linkVars, trafficVars, stopVars
<1>0. /\ counter \in Counter /\ previous \in Counter /\ initial \in Counter
      /\ seen \in Nat /\ total \in Nat /\ readStats \in Counter
      /\ \A c \in Counter : c \in Nat
      /\ present \in BOOLEAN /\ disturbed \in BOOLEAN
  BY ReadStatsType DEF TypeOK, Counter, MonitorAssumption
<1>1. CASE ClearStop
  BY <1>1 DEF ClearStop
<1>2. CASE InitialSnapshot
  <2>1. readStats' = readStats /\ previous' = readStats /\ initial' = readStats
    BY <1>2 DEF InitialSnapshot, readStats
  <2>2. calculateDelta(readStats, readStats) = 0
    BY <1>0 DEF calculateDelta, counterDelta
  <2>. QED
    BY <1>0, <1>2, <2>1, <2>2 DEF InitialSnapshot
<1>3. CASE LoopHead \/ DozeHead \/ Sleep \/ Wake \/ StopCheck
  BY <1>3 DEF LoopHead, DozeHead, Sleep, Wake, StopCheck, readStats
<1>4. CASE Sample
  <2>1. readStats' = readStats /\ previous' = readStats
    BY <1>4 DEF Sample, readStats
  <2>2. calculateDelta(readStats, readStats) = 0
    BY <1>0 DEF calculateDelta, counterDelta
  <2>. QED
    BY <1>0, <1>4, <2>1, <2>2 DEF Sample
<1>5. CASE FinalReport
  BY <1>5 DEF FinalReport, readStats
<1>6. CASE Traffic
  <2>1. /\ readStats = counter /\ readStats' = counter'
        /\ UNCHANGED <<pc, initial, previous, displayed, summary, present, lastSeen>>
        /\ seen' = seen + 1 /\ total' = total + 1 /\ pc # "done"
        /\ present
    BY <1>6 DEF Traffic, readStats
  <2>2. CASE counter' = 0
    <3>1. Sampling => calculateDelta(previous, 0) <= seen + 1
                      /\ calculateDelta(initial, 0) <= total + 1
      BY <1>0, <2>1, DeltaSteps
    <3>2. disturbed'
      BY <1>6, <2>2 DEF Traffic
    <3>. QED
      BY <2>1, <2>2, <3>1, <3>2
  <2>3. CASE counter' = counter + 1
    <3>1. Sampling => calculateDelta(previous, counter + 1) <= seen + 1
                      /\ calculateDelta(initial, counter + 1) <= total + 1
      BY <1>0, <2>1, DeltaSteps
    <3>2. ~disturbed' => ~disturbed
      BY <1>6 DEF Traffic
    <3>. QED
      BY <1>0, <2>1, <2>3, <3>1, <3>2
  <2>. QED
    BY <1>6, <2>2, <2>3 DEF Traffic
<1>7. CASE LinkChange \/ CounterReset
  <2>1. /\ readStats' = 0 /\ disturbed' /\ counter' = 0 /\ pc # "done"
        /\ UNCHANGED <<pc, initial, previous, displayed, summary, seen, lastSeen, total>>
    BY <1>7 DEF LinkChange, CounterReset, readStats
  <2>2. calculateDelta(previous, 0) = 0 /\ calculateDelta(initial, 0) = 0
    BY <1>0 DEF calculateDelta, counterDelta
  <2>. QED
    BY <1>0, <2>1, <2>2
<1>8. CASE Signal
  BY <1>8 DEF Signal, readStats
<1>9. CASE UNCHANGED vars
  BY <1>9 DEF vars, readStats
<1>. QED
  BY <1>1, <1>2, <1>3, <1>4, <1>5, <1>6, <1>7, <1>8, <1>9
     DEF Next, Monitor, Terminated

-----------------------------------------------------------------------------
LEMMA SpecIInv == Spec => []IInv
<1>1. Init => IInv
  BY MonitorAssumption, InitIInv
<1>2. IInv /\ [Next]_vars => IInv'
  BY MonitorAssumption, NextTypeOK, NextDeltaInv, NextSleepInv DEF IInv
<1>. QED
  BY <1>1, <1>2, PTL DEF Spec

(* The monitor's variables always hold values of their types; no displayed *)
(* difference is ever negative or wraps.                                   *)
THEOREM TypeCorrect == Spec => []TypeOK
<1>1. IInv => TypeOK
  BY DEF IInv
<1>. QED
  BY SpecIInv, <1>1, PTL

(* No sample and no report shows traffic that did not happen.              *)
THEOREM DisplayNeverOverstates == Spec => []NeverOverstates
<1>1. IInv => NeverOverstates
  BY DEF IInv, DeltaInv, NeverOverstates
<1>. QED
  BY SpecIInv, <1>1, PTL

(* With no restart between two samples the display is exact.               *)
THEOREM DisplayIsExact == Spec => []ExactWhenUndisturbed
<1>1. ASSUME IInv PROVE ExactWhenUndisturbed
  <2>1. readStats \in Counter /\ previous \in Counter
        /\ \A c \in Counter : c \in Nat
    BY <1>1, MonitorAssumption, ReadStatsType DEF IInv, TypeOK, Counter
  <2>. QED
    BY <1>1, <2>1 DEF IInv, DeltaInv, Sampling, ExactWhenUndisturbed,
                      calculateDelta, counterDelta
<1>. QED
  BY SpecIInv, <1>1, PTL

(* After a press at most one more second is slept.                         *)
THEOREM StopsPromptly == Spec => []PromptStop
<1>1. IInv => PromptStop
  BY DEF IInv, SleepInv, PromptStop
<1>. QED
  BY SpecIInv, <1>1, PTL

-----------------------------------------------------------------------------
(* The firewall probe: the inductive invariant.                            *)

(* A descriptor is held from socket() to the end of the turn.              *)
DescriptorInv ==
  /\ descriptors = socketFd
  /\ probePc \in {"connect", "wait"} => socketFd = 1
  /\ probePc \in {"ports", "address", "record", "done"} => socketFd = 0

ControlInv ==
  /\ probePc \notin {"ports", "done"} => port <= Ports
  /\ probePc \in {"connect", "wait"} => address <= Addresses
  /\ Len(observations) = port - 1

(* What a state, a text and the absence of accidents say of the port.      *)
Shown(p, s) == \E a \in 1..Addresses : target[p][a] = Behaviour(s)
Unreachable(p) == \A a \in 1..Addresses : target[p][a] = "unreachable"
Decides(p, s) ==
  \E a \in 1..Addresses :
    /\ target[p][a] = Behaviour(s)
    /\ \A b \in 1..(a - 1) : target[p][b] = "unreachable"
Decided(p, s, e) == IF e = "insufficient" THEN Unreachable(p) ELSE Decides(p, s)

(* The result of the port being probed.                                    *)
ResultInv ==
  /\ probePc \in {"address", "connect", "wait"} =>
       /\ state = "UNKNOWN" /\ evidence = "none"
       /\ ~accident => \A b \in 1..(address - 1) : target[port][b] = "unreachable"
  /\ probePc \in {"end", "record"} =>
       /\ state # "UNKNOWN" => Shown(port, state)
  /\ probePc = "end" =>
       /\ ~accident => IF state = "UNKNOWN" /\ evidence = "none"
                       THEN Unreachable(port) ELSE Decides(port, state)
       /\ state = "UNKNOWN" => evidence \in {"none", "failed"}
       /\ state = "CLOSED" => evidence = "refused"
       /\ state = "FILTERED" => evidence = "timedOut"
  /\ probePc = "record" =>
       /\ ~accident => Decided(port, state, evidence)
       /\ evidence \in EvidenceFor(state)

(* The results recorded.                                                   *)
RecordedInv ==
  \A p \in 1..Len(observations) :
    /\ observations[p].evidence \in EvidenceFor(observations[p].state)
    /\ observations[p].state # "UNKNOWN" => Shown(p, observations[p].state)
    /\ ~observations[p].accident =>
         Decided(p, observations[p].state, observations[p].evidence)

ProbeInv ==
  /\ ProbeTypeOK
  /\ DescriptorInv /\ ControlInv /\ ResultInv /\ RecordedInv /\ CountsAgree

-----------------------------------------------------------------------------
(* Counting one more observation.                                          *)
CountIn(q, s) == Cardinality({p \in 1..Len(q) : q[p].state = s})

LEMMA CountAppend ==
  ASSUME NEW obs \in Seq(Observation), NEW o \in Observation, NEW s
  PROVE  /\ CountIn(obs, s) \in Nat
         /\ CountIn(Append(obs, o), s) =
              IF o.state = s THEN CountIn(obs, s) + 1 ELSE CountIn(obs, s)
<1>. DEFINE old == {p \in 1..Len(obs) : obs[p].state = s}
            longer == Append(obs, o)
            new == {p \in 1..Len(longer) : longer[p].state = s}
            n == Len(obs) + 1
<1>1. /\ Len(obs) \in Nat /\ Len(longer) = n /\ longer[n] = o
      /\ \A p \in 1..Len(obs) : longer[p] = obs[p]
  OBVIOUS
<1>2. IsFiniteSet(1..Len(obs))
  BY <1>1, FS_Interval
<1>3. IsFiniteSet(old) /\ Cardinality(old) \in Nat
  BY <1>2, FS_Subset, FS_CardinalityType
<1>4. n \notin old
  BY <1>1
<1>5. CountIn(obs, s) = Cardinality(old) /\ CountIn(longer, s) = Cardinality(new)
  BY DEF CountIn
<1>6. CASE o.state = s
  <2>1. new = old \cup {n}
    BY <1>1, <1>6
  <2>2. Cardinality(new) = Cardinality(old) + 1
    BY <1>3, <1>4, <2>1, FS_AddElement
  <2>. HIDE DEF old, new, longer
  <2>. QED
    BY <1>3, <1>5, <1>6, <2>2 DEF longer
<1>7. CASE o.state # s
  <2>1. new = old
    BY <1>1, <1>7
  <2>. HIDE DEF old, new, longer
  <2>. QED
    BY <1>3, <1>5, <1>7, <2>1 DEF longer
<1>. QED
  BY <1>6, <1>7

(* The counters stay a report.                                             *)
LEMMA CountedReport ==
  ASSUME NEW r \in Report, NEW s, NEW q, q = Counted(r, s)
  PROVE  q \in Report
<1>1. DOMAIN q = DOMAIN r
  BY DEF Counted
<1>2. /\ q.observed \in Nat /\ q.open \in Nat /\ q.closed \in Nat
      /\ q.filtered \in Nat /\ q.unknown \in Nat
  BY DEF Counted, Report
<1>3. q = [observed |-> q.observed, open |-> q.open, closed |-> q.closed,
           filtered |-> q.filtered, unknown |-> q.unknown]
  BY <1>1 DEF Counted, Report
<1>. QED
  BY <1>2, <1>3 DEF Report

LEMMA InitInvariant ==
  ASSUME ProbeAssumption, ProbeInit
  PROVE  ProbeInv
<1>1. /\ Ports \in Nat /\ Addresses \in Nat \ {0}
      /\ observations \in Seq(Observation) /\ Len(observations) = 0
  BY DEF ProbeAssumption, ProbeInit
<1>2. ProbeTypeOK
  <2>1. /\ 1 \in 1..(Ports + 1) /\ 1 \in 1..(Addresses + 1)
        /\ report \in Report /\ observations \in Seq(Observation)
    BY <1>1 DEF ProbeInit, Report
  <2>. QED
    BY <2>1, 0 \in 0..1 DEF ProbeInit, ProbeTypeOK, States, Evidence
<1>3. DescriptorInv /\ ControlInv /\ ResultInv /\ RecordedInv
  BY <1>1 DEF ProbeInit, DescriptorInv, ControlInv, ResultInv, RecordedInv
<1>4. CountsAgree
  <2>1. \A s : {p \in 1..Len(observations) : observations[p].state = s} = {}
    BY <1>1
  <2>2. \A s : CountOf(s) = 0
    BY <2>1, FS_EmptySet DEF CountOf
  <2>. QED
    BY <1>1, <2>2 DEF ProbeInit, CountsAgree
<1>. QED
  BY <1>2, <1>3, <1>4 DEF ProbeInv

(* The steps of probeTCP leave the report alone.                           *)
ProbeStep ==
  \/ Resolve \/ OpenSocket \/ NoMoreAddresses \/ Connect
  \/ Interrupted \/ TimesOut \/ Answered \/ End

LEMMA ProbeTypes ==
  ASSUME ProbeAssumption, ProbeInv, ProbeStep
  PROVE  ProbeTypeOK' /\ DescriptorInv'
<1>. USE DEF ProbeAssumption, ProbeInv, ProbeTypeOK, DescriptorInv, ControlInv, States,
             Evidence, reportVars
<1>1. CASE Resolve
  <2>1. 1 \in 1..(Addresses + 1)
    OBVIOUS
  <2>. QED
    BY <1>1, <2>1 DEF Resolve
<1>2. CASE OpenSocket
  <2>1. probePc' = "address" => address' \in 1..(Addresses + 1)
    BY <1>2 DEF OpenSocket, NextAddress
  <2>2. socketFd' = descriptors' /\ socketFd' \in 0..1
    BY <1>2 DEF OpenSocket
  <2>. QED
    BY <1>2, <2>1, <2>2 DEF OpenSocket, NextAddress
<1>3. CASE NoMoreAddresses
  BY <1>3 DEF NoMoreAddresses
<1>4. CASE Connect
  BY <1>4 DEF Connect, NextAddress, CloseFd
<1>5. CASE Interrupted
  BY <1>5 DEF Interrupted, NextAddress, CloseFd
<1>6. CASE TimesOut
  BY <1>6 DEF TimesOut, CloseFd
<1>7. CASE Answered
  BY <1>7 DEF Answered, CloseFd
<1>8. CASE End
  BY <1>8 DEF End, CloseFd
<1>. QED
  BY <1>1, <1>2, <1>3, <1>4, <1>5, <1>6, <1>7, <1>8 DEF ProbeStep

LEMMA ProbeControl ==
  ASSUME ProbeAssumption, ProbeInv, ProbeStep
  PROVE  ControlInv'
BY DEF ProbeAssumption, ProbeInv, ProbeTypeOK, ControlInv, ProbeStep, reportVars,
       Resolve, OpenSocket, NextAddress, NoMoreAddresses, Connect, CloseFd,
       Interrupted, TimesOut, Answered, End

(* An address that answers or times out decides the port.                  *)
LEMMA AddressDecides ==
  ASSUME ProbeAssumption, ProbeInv, probePc \in {"connect", "wait"}, NEW s \in States,
         target[port][address] = Behaviour(s)
  PROVE  /\ Shown(port, s)
         /\ ~accident => Decides(port, s)
<1>1. address \in 1..Addresses
  BY DEF ProbeAssumption, ProbeInv, ProbeTypeOK, ControlInv
<1>2. ~accident => \A b \in 1..(address - 1) : target[port][b] = "unreachable"
  BY DEF ProbeInv, ResultInv
<1>. QED
  BY <1>1, <1>2 DEF Shown, Decides

LEMMA ProbeResult ==
  ASSUME ProbeAssumption, ProbeInv, ProbeStep
  PROVE  ResultInv'
<1>. USE DEF ProbeAssumption, reportVars
<1>1. /\ target' = target /\ port' = port
      /\ Addresses \in Nat \ {0} /\ address \in 1..(Addresses + 1)
  BY DEF ProbeStep, Resolve, OpenSocket, NoMoreAddresses, Connect,
         Interrupted, TimesOut, Answered, End, ProbeInv, ProbeTypeOK
<1>2. /\ \A s : Shown(port, s)' <=> Shown(port, s)
      /\ \A s : Decides(port, s)' <=> Decides(port, s)
      /\ Unreachable(port)' <=> Unreachable(port)
  BY <1>1 DEF Shown, Decides, Unreachable
<1>3. CASE Resolve
  <2>1. \A b \in 1..(1 - 1) : target[port][b] = "unreachable"
    OBVIOUS
  <2>. QED
    BY <1>1, <1>3, <2>1 DEF Resolve, ResultInv, EvidenceFor
<1>4. CASE OpenSocket \/ Interrupted
  BY <1>1, <1>4 DEF OpenSocket, Interrupted, NextAddress, CloseFd, ResultInv, ProbeInv
<1>5. CASE NoMoreAddresses
  <2>1. /\ state = "UNKNOWN" /\ evidence = "none"
        /\ ~accident => \A b \in 1..(address - 1) : target[port][b] = "unreachable"
    BY <1>1, <1>5 DEF NoMoreAddresses, ProbeInv, ResultInv
  <2>2. address = Addresses + 1
    BY <1>1, <1>5 DEF NoMoreAddresses
  <2>3. ~accident => Unreachable(port)
    BY <1>1, <2>1, <2>2 DEF Unreachable
  <2>. QED
    BY <1>1, <1>2, <1>5, <2>1, <2>3 DEF NoMoreAddresses, ResultInv
<1>6. CASE Connect
  <2>1. state = "UNKNOWN" /\ evidence = "none" /\ probePc = "connect"
    BY <1>6 DEF Connect, ProbeInv, ResultInv
  <2>2. CASE probePc' = "wait"
    BY <1>1, <1>6, <2>1, <2>2 DEF Connect, ProbeInv, ResultInv, NextAddress
  <2>3. CASE target[port][address] = "accepts" /\ probePc' = "end" /\ state' = "OPEN"
             /\ UNCHANGED accident
    <3>1. Shown(port, "OPEN") /\ (~accident => Decides(port, "OPEN"))
      BY <2>1, <2>3, AddressDecides DEF States, Behaviour
    <3>. QED
      BY <1>1, <1>2, <2>3, <3>1 DEF ResultInv
  <2>4. CASE target[port][address] = "refuses" /\ probePc' = "end" /\ state' = "CLOSED"
             /\ evidence' = "refused" /\ UNCHANGED accident
    <3>1. Shown(port, "CLOSED") /\ (~accident => Decides(port, "CLOSED"))
      BY <2>1, <2>4, AddressDecides DEF States, Behaviour
    <3>. QED
      BY <1>1, <1>2, <2>4, <3>1 DEF ResultInv
  <2>5. CASE target[port][address] = "unreachable" /\ NextAddress
             /\ UNCHANGED <<state, evidence, accident>>
    <3>1. ~accident => \A b \in 1..(address - 1) : target[port][b] = "unreachable"
      BY <2>1 DEF ProbeInv, ResultInv
    <3>2. ~accident => \A b \in 1..(address' - 1) : target[port][b] = "unreachable"
      BY <1>1, <2>5, <3>1 DEF NextAddress
    <3>. QED
      BY <1>1, <2>1, <2>5, <3>2 DEF NextAddress, ResultInv
  <2>. QED
    BY <1>6, <2>2, <2>3, <2>4, <2>5 DEF Connect
<1>7. CASE TimesOut
  <2>1. Shown(port, "FILTERED") /\ (~accident => Decides(port, "FILTERED"))
    BY <1>7, AddressDecides DEF TimesOut, States, Behaviour
  <2>. QED
    BY <1>1, <1>2, <1>7, <2>1 DEF TimesOut, ResultInv
<1>8. CASE Answered
  <2>1. state = "UNKNOWN" /\ evidence = "none" /\ probePc = "wait" /\ address \in 1..Addresses
    BY <1>1, <1>8 DEF Answered, ProbeInv, ResultInv, ControlInv
  <2>2. CASE target[port][address] = "accepts"
    <3>1. Shown(port, "OPEN") /\ (~accident => Decides(port, "OPEN"))
      BY <2>1, <2>2, AddressDecides DEF States, Behaviour
    <3>. QED
      BY <1>1, <1>2, <1>8, <2>2, <3>1 DEF Answered, ResultInv
  <2>3. CASE target[port][address] = "refuses"
    <3>1. Shown(port, "CLOSED") /\ (~accident => Decides(port, "CLOSED"))
      BY <2>1, <2>3, AddressDecides DEF States, Behaviour
    <3>. QED
      BY <1>1, <1>2, <1>8, <2>3, <3>1 DEF Answered, ResultInv
  <2>4. CASE target[port][address] \notin {"accepts", "refuses"}
    <3>1. target[port][address] = "unreachable"
      BY <1>8, <2>1, <2>4 DEF Answered, ProbeInv, ProbeTypeOK, ControlInv, Behaviours
    <3>2. ~accident => Decides(port, "UNKNOWN")
      BY <2>1, <3>1, AddressDecides DEF States, Behaviour
    <3>3. state' = "UNKNOWN" /\ evidence' = "failed" /\ accident' = accident /\ probePc' = "end"
      BY <1>8, <2>4 DEF Answered
    <3>. QED
      BY <1>1, <1>2, <3>2, <3>3 DEF ResultInv
  <2>. QED
    BY <2>2, <2>3, <2>4
<1>9. CASE End
  <2>1. /\ probePc = "end" /\ probePc' = "record" /\ state' = state /\ accident' = accident
        /\ state \in States
    BY <1>9 DEF End, ProbeInv, ProbeTypeOK
  <2>2. evidence' \in EvidenceFor(state)
    BY <1>9, <2>1 DEF End, ProbeInv, ResultInv, States, EvidenceFor
  <2>3. evidence' = "insufficient" <=> state = "UNKNOWN" /\ evidence = "none"
    <3>1. state = "OPEN" \/ evidence \in {"none", "refused", "timedOut", "failed"}
      BY <2>1 DEF ProbeInv, ResultInv, States
    <3>. QED
      BY <1>9, <3>1 DEF End
  <2>4. ~accident => Decided(port, state, evidence')
    BY <2>1, <2>3 DEF ProbeInv, ResultInv, Decided
  <2>5. /\ Decided(port, state, evidence)' <=> Decided(port, state, evidence')
        /\ state # "UNKNOWN" => Shown(port, state)
    BY <1>1, <1>2, <2>1 DEF Decided, ProbeInv, ResultInv
  <2>. QED
    BY <1>1, <1>2, <2>1, <2>2, <2>4, <2>5 DEF ResultInv
<1>. QED
  BY <1>3, <1>4, <1>5, <1>6, <1>7, <1>8, <1>9 DEF ProbeStep

LEMMA ProbeInvariant ==
  ASSUME ProbeAssumption, ProbeInv, ProbeStep
  PROVE  ProbeInv'
<1>1. UNCHANGED <<target, report, hasEvidenceOfFiltering, observations>>
  BY DEF ProbeStep, Resolve, OpenSocket, NoMoreAddresses, Connect,
         Interrupted, TimesOut, Answered, End, reportVars
<1>2. RecordedInv' /\ CountsAgree'
  BY <1>1 DEF ProbeInv, RecordedInv, Shown, Decided, Decides, Unreachable, CountsAgree, CountOf
<1>. QED
  BY <1>2, ProbeTypes, ProbeControl, ProbeResult DEF ProbeInv

LEMMA RecordInvariant ==
  ASSUME ProbeAssumption, ProbeInv, Record
  PROVE  ProbeInv'
<1>. DEFINE o == [state |-> state, evidence |-> evidence, accident |-> accident]
<1>1. /\ o \in Observation /\ observations \in Seq(Observation)
      /\ observations' = Append(observations, o)
      /\ Ports \in Nat /\ port \in 1..Ports /\ port' = port + 1
      /\ Len(observations) = port - 1
      /\ UNCHANGED <<target, address, socketFd, descriptors, state, evidence,
                     accident, conclusion>>
      /\ probePc = "record" /\ probePc' = "ports"
  BY DEF Record, ProbeInv, ProbeTypeOK, ControlInv, Observation, ProbeAssumption
<1>2. /\ observations' \in Seq(Observation) /\ Len(observations') = port
      /\ \A p \in 1..(port - 1) : observations'[p] = observations[p]
      /\ observations'[port] = o
  BY <1>1
<1>3. /\ report' = Counted(report, state) /\ report \in Report
      /\ hasEvidenceOfFiltering' = (hasEvidenceOfFiltering \/ state = "FILTERED")
      /\ state \in States
  BY DEF Record, ProbeInv, ProbeTypeOK
<1>4. ProbeTypeOK'
  <2>1. report' \in Report /\ hasEvidenceOfFiltering' \in BOOLEAN
    BY <1>3, CountedReport
  <2>. QED
    BY <1>1, <1>2, <2>1 DEF ProbeInv, ProbeTypeOK
<1>5. DescriptorInv' /\ ControlInv' /\ ResultInv'
  BY <1>1, <1>2 DEF ProbeInv, DescriptorInv, ControlInv, ResultInv
<1>6. RecordedInv'
  <2>1. /\ \A p, s : Shown(p, s)' <=> Shown(p, s)
        /\ \A p, s, e : Decided(p, s, e)' <=> Decided(p, s, e)
    BY <1>1 DEF Shown, Decided, Decides, Unreachable
  <2>2. /\ o.evidence \in EvidenceFor(o.state)
        /\ o.state # "UNKNOWN" => Shown(port, o.state)
        /\ ~o.accident => Decided(port, o.state, o.evidence)
    BY <1>1 DEF ProbeInv, ResultInv
  <2>3. \A p \in 1..Len(observations') : p \in 1..Len(observations) \/ p = port
    BY <1>1, <1>2
  <2>. HIDE DEF o
  <2>. QED
    BY <1>1, <1>2, <2>1, <2>2, <2>3 DEF ProbeInv, RecordedInv
<1>7. CountsAgree'
  <2>1. \A s : /\ CountOf(s) \in Nat
               /\ CountOf(s)' = IF state = s THEN CountOf(s) + 1 ELSE CountOf(s)
    <3>. TAKE s
    <3>1. o.state = state
      OBVIOUS
    <3>. HIDE DEF o
    <3>2. /\ CountOf(s) = CountIn(observations, s)
          /\ CountOf(s)' = CountIn(Append(observations, o), s)
      BY <1>1 DEF CountOf, CountIn
    <3>3. /\ CountIn(observations, s) \in Nat
          /\ CountIn(Append(observations, o), s) =
               IF o.state = s THEN CountIn(observations, s) + 1 ELSE CountIn(observations, s)
      BY <1>1, CountAppend
    <3>. QED
      BY <3>1, <3>2, <3>3
  <2>2. CountsAgree
    BY DEF ProbeInv
  <2>3. /\ report'.observed = report.observed + 1
        /\ report'.open = IF state = "OPEN" THEN report.open + 1 ELSE report.open
        /\ report'.closed = IF state = "CLOSED" THEN report.closed + 1 ELSE report.closed
        /\ report'.filtered =
             IF state = "FILTERED" THEN report.filtered + 1 ELSE report.filtered
        /\ report'.unknown =
             IF state = "UNKNOWN" THEN report.unknown + 1 ELSE report.unknown
        /\ report.filtered \in Nat
    BY <1>3 DEF Counted, Report
  <2>4. hasEvidenceOfFiltering' <=> report'.filtered > 0
    <3>1. CASE state = "FILTERED"
      <4>1. report'.filtered > 0
        BY <2>3, <3>1
      <4>. QED
        BY <1>3, <3>1, <4>1, Zenon
    <3>2. CASE state # "FILTERED"
      <4>1. report'.filtered = report.filtered
        BY <2>3, <3>2
      <4>2. hasEvidenceOfFiltering' <=> hasEvidenceOfFiltering
        BY <1>3, <3>2, Zenon
      <4>. QED
        BY <2>2, <4>1, <4>2, Zenon DEF CountsAgree
    <3>. QED
      BY <3>1, <3>2
  <2>5. report'.observed = Len(observations')
    BY <1>1, <1>2, <2>2, <2>3 DEF CountsAgree
  <2>. QED
    BY <2>1, <2>2, <2>3, <2>4, <2>5 DEF CountsAgree
<1>. QED
  BY <1>4, <1>5, <1>6, <1>7 DEF ProbeInv

LEMMA ConcludeInvariant ==
  ASSUME ProbeAssumption, ProbeInv, Conclude \/ UNCHANGED probeVars
  PROVE  ProbeInv'
<1>1. /\ UNCHANGED <<target, port, address, socketFd, descriptors, state, evidence,
                     accident, report, hasEvidenceOfFiltering, observations>>
      /\ probePc' = probePc \/ (probePc = "ports" /\ probePc' = "done")
      /\ conclusion' = conclusion \/ conclusion' = ConclusionOf(report)
  BY DEF Conclude, probeVars
<1>2. ProbeTypeOK'
  BY <1>1 DEF ProbeInv, ProbeTypeOK, ConclusionOf
<1>3. DescriptorInv' /\ ControlInv' /\ CountsAgree'
  BY <1>1 DEF ProbeInv, DescriptorInv, ControlInv, CountsAgree, CountOf
<1>4. ResultInv' /\ RecordedInv'
  BY <1>1 DEF ProbeInv, ResultInv, RecordedInv, Shown, Decided, Decides, Unreachable
<1>. QED
  BY <1>2, <1>3, <1>4 DEF ProbeInv

(* The inductive invariant holds of every behaviour.                       *)
THEOREM Invariant == ProbeSpec => []ProbeInv
<1>1. ProbeInit => ProbeInv
  BY ProbeAssumption, InitInvariant
<1>2. ProbeInv /\ [ProbeNext]_probeVars => ProbeInv'
  BY ProbeAssumption, ProbeInvariant, RecordInvariant, ConcludeInvariant
     DEF ProbeNext, ProbeStep
<1>. QED
  BY <1>1, <1>2, PTL DEF ProbeSpec

-----------------------------------------------------------------------------
(* The variables keep their types.                                         *)
THEOREM ProbeTypeCorrect == ProbeSpec => []ProbeTypeOK
<1>. QED
  BY Invariant, PTL DEF ProbeInv

(* No path of a probe leaks its descriptor.                                *)
THEOREM ProbeClosesDescriptors == ProbeSpec => []DescriptorsClosed
<1>1. ProbeInv => DescriptorsClosed
  BY DEF ProbeInv, DescriptorInv, DescriptorsClosed
<1>. QED
  BY Invariant, <1>1, PTL

(* Every definite state is what an address did, under every accident.      *)
THEOREM ProbeStatesBacked == ProbeSpec => []StatesBackedByEvidence
<1>1. ProbeInv => StatesBackedByEvidence
  BY DEF ProbeInv, RecordedInv, Shown, StatesBackedByEvidence
<1>. QED
  BY Invariant, <1>1, PTL

(* Without accidents the first address whose connect() does not fail at    *)
(* once decides the port, and only where there is none is the evidence     *)
(* insufficient (probeTCP, src/platform/linux/firewall_linux.cpp:99).      *)
THEOREM ProbeFirstAnswerDecides == ProbeSpec => []FirstAnswerDecides
<1>1. ProbeInv => FirstAnswerDecides
  BY DEF ProbeInv, RecordedInv, Decided, Decides, Unreachable, FirstAnswerDecides
<1>. QED
  BY Invariant, <1>1, PTL

(* The report counts its observations, for every number of ports.          *)
THEOREM ProbeCountsAgree == ProbeSpec => []CountsAgree
<1>. QED
  BY Invariant, PTL DEF ProbeInv

-----------------------------------------------------------------------------
(* The conclusion is drawn once, from the final counters.                  *)
ConcludedInv == conclusion = IF probePc = "done" THEN ConclusionOf(report) ELSE "none"

LEMMA ConcludedInvariant == ProbeSpec => []ConcludedInv
<1>1. ProbeInit => ConcludedInv
  BY DEF ProbeInit, ConcludedInv
<1>2. ConcludedInv /\ [ProbeNext]_probeVars => ConcludedInv'
  BY DEF ConcludedInv, ProbeNext, probeVars, Resolve, OpenSocket, NoMoreAddresses, Connect, NextAddress,
         Interrupted, TimesOut, Answered, End, Record, Conclude, reportVars
<1>. QED
  BY <1>1, <1>2, PTL DEF ProbeSpec

(* A counter says whether a state was seen, and whether no other was.      *)
LEMMA CountShows ==
  ASSUME ProbeInv, NEW s
  PROVE  LET At == {p \in 1..Len(observations) : observations[p].state = s}
         IN  /\ CountOf(s) \in Nat
             /\ CountOf(s) > 0 <=> At # {}
             /\ CountOf(s) = Len(observations) => At = 1..Len(observations)
<1>. DEFINE At == {p \in 1..Len(observations) : observations[p].state = s}
            n == Len(observations)
<1>1. n \in Nat
  BY DEF ProbeInv, ProbeTypeOK
<1>. HIDE DEF n
<1>2. /\ IsFiniteSet(1..n)
      /\ Cardinality(1..n) = IF 1 > n THEN 0 ELSE n - 1 + 1
  BY <1>1, FS_Interval
<1>3. Cardinality(1..n) = n
  BY <1>1, <1>2
<1>4. At \subseteq 1..n
  BY DEF n
<1>5. IsFiniteSet(At) /\ Cardinality(At) \in Nat
  BY <1>2, <1>4, FS_Subset, FS_CardinalityType
<1>6. CountOf(s) = Cardinality(At)
  BY DEF CountOf
<1>. HIDE DEF At
<1>7. Cardinality(At) = 0 <=> At = {}
  BY <1>5, FS_EmptySet
<1>8. Cardinality(At) = n => At = 1..n
  BY <1>2, <1>3, <1>4, FS_Subset
<1>. QED
  BY <1>5, <1>6, <1>7, <1>8 DEF At, n

(* Each conclusion of a report says which states were observed and which   *)
(* were not, "reachable" included: a port is OPEN, none is CLOSED or       *)
(* FILTERED, and some may be UNKNOWN; for every number of ports            *)
(* (FirewallProbe::analyze, src/security/firewall_probe.cpp:121-164).      *)
THEOREM ProbeConclusionBacked == ProbeSpec => []ConclusionBacked
<1>1. ProbeInv /\ ConcludedInv => ConclusionBacked
  <2> SUFFICES ASSUME ProbeInv, ConcludedInv PROVE ConclusionBacked
    OBVIOUS
  <2> DEFINE At(s) == {p \in 1..Len(observations) : observations[p].state = s}
  <2>1. /\ report.observed = Len(observations) /\ report.open = CountOf("OPEN")
        /\ report.closed = CountOf("CLOSED") /\ report.filtered = CountOf("FILTERED")
    BY DEF ProbeInv, CountsAgree
  <2>2. \A s : s \in Observed <=> At(s) # {}
    BY DEF Observed
  <2>3. \A s : /\ CountOf(s) \in Nat
               /\ CountOf(s) > 0 <=> s \in Observed
               /\ CountOf(s) = Len(observations) => At(s) = 1..Len(observations)
    BY <2>2, CountShows
  <2>4. At("CLOSED") = 1..Len(observations) /\ Len(observations) # 0 => Observed = {"CLOSED"}
    <3> SUFFICES ASSUME At("CLOSED") = 1..Len(observations), Len(observations) # 0
                 PROVE  Observed = {"CLOSED"}
      OBVIOUS
    <3>1. \A p \in 1..Len(observations) : observations[p].state = "CLOSED"
      OBVIOUS
    <3>2. 1 \in 1..Len(observations)
      BY DEF ProbeInv, ProbeTypeOK
    <3> QED
      BY <3>1, <3>2 DEF Observed
  <2>5. Observed = {"CLOSED"} => CountOf("CLOSED") = Len(observations)
    <3> SUFFICES ASSUME Observed = {"CLOSED"} PROVE CountOf("CLOSED") = Len(observations)
      OBVIOUS
    <3>1. \A p \in 1..Len(observations) : observations[p].state = "CLOSED"
      BY DEF Observed
    <3>2. At("CLOSED") = 1..Len(observations)
      BY <3>1
    <3>3. Len(observations) \in Nat
      BY DEF ProbeInv, ProbeTypeOK
    <3>4. Cardinality(1..Len(observations)) = Len(observations)
      BY <3>3, FS_Interval
    <3>5. CountOf("CLOSED") = Cardinality(At("CLOSED"))
      BY DEF CountOf
    <3> HIDE DEF At
    <3> QED
      BY <3>2, <3>4, <3>5
  <2> HIDE DEF At
  <2>6. probePc = "done" => conclusion = ConclusionOf(report)
    BY DEF ConcludedInv
  <2>7. probePc # "done" => conclusion = "none"
    BY DEF ConcludedInv
  <2>8. Observed \subseteq {"OPEN", "CLOSED", "FILTERED", "UNKNOWN"}
    <3>1. \A p \in 1..Len(observations) : observations[p] \in Observation
      BY DEF ProbeInv, ProbeTypeOK
    <3>2. \A p \in 1..Len(observations) : observations[p].state \in States
      BY <3>1 DEF Observation
    <3> QED
      BY <3>2 DEF Observed, States
  <2>9. Len(observations) # 0 => Observed # {}
    <3>1. Len(observations) # 0 => 1 \in 1..Len(observations)
      BY DEF ProbeInv, ProbeTypeOK
    <3> QED
      BY <3>1 DEF Observed
  <2>10. /\ conclusion = "noPorts" => Observed = {}
         /\ conclusion = "filtering" => "FILTERED" \in Observed
         /\ conclusion = "openAndRefused" =>
              "OPEN" \in Observed /\ "CLOSED" \in Observed /\ "FILTERED" \notin Observed
         /\ conclusion = "reachable" =>
              /\ "OPEN" \in Observed
              /\ "CLOSED" \notin Observed /\ "FILTERED" \notin Observed
         /\ conclusion = "allRefused" => Observed = {"CLOSED"}
         /\ conclusion = "insufficient" =>
              /\ "UNKNOWN" \in Observed
              /\ "OPEN" \notin Observed /\ "FILTERED" \notin Observed
    <3>1. CASE probePc # "done"
      BY <3>1, <2>7
    <3>2. CASE probePc = "done" /\ report.observed = 0
      <4>1. conclusion = "noPorts"
        BY <3>2, <2>6 DEF ConclusionOf
      <4>2. Observed = {}
        BY <3>2, <2>1 DEF Observed
      <4> QED
        BY <4>1, <4>2
    <3>3. CASE probePc = "done" /\ report.observed # 0 /\ report.filtered > 0
      <4>1. conclusion = "filtering"
        BY <3>3, <2>6 DEF ConclusionOf
      <4> QED
        BY <3>3, <4>1, <2>1, <2>3
    <3>4. CASE probePc = "done" /\ report.observed # 0 /\ ~(report.filtered > 0)
      <4>1. "FILTERED" \notin Observed /\ Observed # {}
        BY <3>4, <2>1, <2>3, <2>9
      <4>2. conclusion = IF report.open > 0 /\ report.closed > 0 THEN "openAndRefused"
                         ELSE IF report.open > 0 THEN "reachable"
                         ELSE IF report.closed = report.observed THEN "allRefused"
                         ELSE "insufficient"
        BY <3>4, <2>6 DEF ConclusionOf
      <4>3. /\ report.open > 0 <=> "OPEN" \in Observed
            /\ report.closed > 0 <=> "CLOSED" \in Observed
        BY <2>1, <2>3
      <4>4. report.closed = report.observed => Observed = {"CLOSED"}
        BY <3>4, <2>1, <2>3, <2>4
      <4>5. Observed = {"CLOSED"} => report.closed = report.observed
        BY <2>1, <2>5
      <4>6. CASE report.open > 0
        BY <4>1, <4>2, <4>3, <4>6
      <4>7. CASE ~(report.open > 0) /\ report.closed = report.observed
        <5>1. conclusion = "allRefused"
          BY <4>2, <4>7
        <5> QED
          BY <5>1, <4>4, <4>7
      <4>8. CASE ~(report.open > 0) /\ report.closed # report.observed
        <5>1. conclusion = "insufficient"
          BY <4>2, <4>8
        <5>2. "OPEN" \notin Observed /\ Observed # {"CLOSED"}
          BY <4>3, <4>5, <4>8
        <5>3. "UNKNOWN" \in Observed
          BY <5>2, <4>1, <2>8
        <5> QED
          BY <5>1, <5>2, <5>3, <4>1
      <4> QED
        BY <4>6, <4>7, <4>8
    <3> QED
      BY <3>1, <3>2, <3>3, <3>4
  <2>11. probePc = "done" => conclusion # "none"
    BY <2>6 DEF ConclusionOf
  <2> QED
    BY <2>8, <2>10, <2>11 DEF ConclusionBacked, Shows, States
<1>. QED
  BY <1>1, Invariant, ConcludedInvariant, PTL

=============================================================================
