--------------------------- MODULE MCMonitorProbe ---------------------------
(* The command net|:monitor or the command firewall|:probe: they share no  *)
(* state, so a behaviour is one of the two while the other keeps the state *)
(* it returned in.                                                         *)
(*                                                                         *)
(* The monitor: a counter that wraps after three packets, intervals of one *)
(* and of two seconds, and traffic enough to wrap the counter once and a   *)
(* half.  The probe: two ports of a host with two addresses, which gives   *)
(* every pair of states a conclusion can be drawn from, and a second       *)
(* address to go on with.                                                  *)
EXTENDS NetworkMonitor, FirewallProbe

(* A monitor of a missing interface has returned.                          *)
MonitorReturned ==
  /\ pc = "done" /\ interval = 1 /\ second = 0
  /\ initial = 0 /\ previous = 0 /\ displayed = 0 /\ summary = 0
  /\ present = FALSE /\ counter = 0
  /\ seen = 0 /\ lastSeen = 0 /\ total = 0 /\ disturbed = FALSE
  /\ stopRequested = FALSE /\ sleeps = 0

(* A probe of a host that did not resolve has returned.                    *)
ProbeReturned ==
  /\ target = [p \in 1..Ports |-> [a \in 1..Addresses |-> "unreachable"]]
  /\ probePc = "done" /\ port = Ports + 1 /\ address = 1
  /\ socketFd = 0 /\ descriptors = 0
  /\ state = "UNKNOWN" /\ evidence = "unresolved" /\ accident = TRUE
  /\ report = [observed |-> Ports, open |-> 0, closed |-> 0, filtered |-> 0,
               unknown |-> Ports]
  /\ hasEvidenceOfFiltering = FALSE
  /\ observations = [p \in 1..Ports |->
       [state |-> "UNKNOWN", evidence |-> "unresolved", accident |-> TRUE]]
  /\ conclusion = "insufficient"

CommandInit == (Init /\ ProbeReturned) \/ (MonitorReturned /\ ProbeInit)

MonitorStep == Next /\ UNCHANGED probeVars
ProbeStep == ProbeNext /\ UNCHANGED vars
CommandNext == MonitorStep \/ ProbeStep

(* The fairness of both commands.                                          *)
MonitorThread == Monitor /\ UNCHANGED probeVars
CommandSpec ==
  /\ CommandInit /\ [][CommandNext]_<<vars, probeVars>>
  /\ WF_<<vars, probeVars>>(MonitorThread)
  /\ WF_<<vars, probeVars>>(ProbeStep)
=============================================================================
