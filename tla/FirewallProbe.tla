--------------------------- MODULE FirewallProbe ---------------------------
(***************************************************************************)
(* One firewall|:probe: FirewallProbe::analyze over the ports of the       *)
(* handler, and for each of them probeTCP, which tries the addresses the   *)
(* host resolves to one after another with a socket of its own.  Socket    *)
(* calls may fail and Ctrl+C interrupts the wait for an answer.            *)
(***************************************************************************)
EXTENDS Naturals, Sequences, FiniteSets

CONSTANTS
  Ports,      \* how many ports the handler probes (16 in the code)
  Addresses   \* how many addresses the host may resolve to

ASSUME ProbeAssumption == Ports \in Nat /\ Addresses \in Nat \ {0}

VARIABLES
  target,       \* target[p][a]: what address a does with a connection to port p
  probePc,      \* where analyze() and probeTCP() are
  port,         \* the port being probed
  address,      \* the address being tried
  socketFd,     \* socketFd: 0 for the -1 of no descriptor, else 1
  descriptors,  \* open descriptors of the process
  state,        \* result.state
  evidence,     \* result.evidence, each text by a name
  accident,     \* a socket call failed or was interrupted on this port (history)
  report,       \* the counters of the report
  hasEvidenceOfFiltering, \* report.hasEvidenceOfFiltering
  observations, \* report.observations
  conclusion    \* report.conclusion, each text by a name

probeVars == <<target, probePc, port, address, socketFd, descriptors, state,
               evidence, accident, report, hasEvidenceOfFiltering, observations,
               conclusion>>
reportVars == <<report, hasEvidenceOfFiltering, observations, conclusion>>

Behaviours == {"accepts", "refuses", "silent", "unreachable"}
States == {"OPEN", "CLOSED", "FILTERED", "UNKNOWN"}
Evidence == {"none", "unresolved", "established", "refused", "timedOut", "failed",
             "insufficient"}
Observation == [state : States, evidence : Evidence, accident : BOOLEAN]

ProbeInit ==
  /\ target \in [1..Ports -> [1..Addresses -> Behaviours]]
  /\ probePc = "ports" /\ port = 1 /\ address = 1
  /\ socketFd = 0 /\ descriptors = 0
  /\ state = "UNKNOWN" /\ evidence = "none" /\ accident = FALSE
  /\ report = [observed |-> 0, open |-> 0, closed |-> 0, filtered |-> 0,
               unknown |-> 0]
  /\ hasEvidenceOfFiltering = FALSE
  /\ observations = <<>> /\ conclusion = "none"

-----------------------------------------------------------------------------
(* probeTCP                                                                *)

(* getaddrinfo() on a fresh result.                                        *)
Resolve ==
  /\ probePc = "ports" /\ port <= Ports
  /\ address' = 1
  /\ state' = "UNKNOWN"
  /\ \/ probePc' = "address" /\ evidence' = "none" /\ accident' = FALSE
     \/ probePc' = "record" /\ evidence' = "unresolved" /\ accident' = TRUE
  /\ UNCHANGED <<target, port, socketFd, descriptors, reportVars>>

(* continue: the next address is tried.                                    *)
NextAddress == probePc' = "address" /\ address' = address + 1

CloseFd == socketFd' = 0 /\ descriptors' = descriptors - 1

(* socket() and setNonBlocking(); a failure of either goes on with the     *)
(* next address.                                                           *)
OpenSocket ==
  /\ probePc = "address" /\ address <= Addresses
  /\ \/ /\ probePc' = "connect" /\ UNCHANGED <<address, accident>>
        /\ socketFd' = 1 /\ descriptors' = descriptors + 1
     \/ /\ NextAddress /\ accident' = TRUE
        /\ UNCHANGED <<socketFd, descriptors>>
  /\ UNCHANGED <<target, port, state, evidence, reportVars>>

NoMoreAddresses ==
  /\ probePc = "address" /\ address > Addresses
  /\ probePc' = "end"
  /\ UNCHANGED <<target, port, address, socketFd, descriptors, state, evidence,
                 accident, reportVars>>

(* connect(): the answer may be there at once, and a refusal or an error   *)
(* closes the descriptor on the spot; an open one is left to the end.      *)
Connect ==
  /\ probePc = "connect"
  /\ \/ /\ probePc' = "wait"
        /\ UNCHANGED <<address, socketFd, descriptors, state, evidence>>
     \/ /\ target[port][address] = "accepts"
        /\ probePc' = "end" /\ state' = "OPEN"
        /\ UNCHANGED <<address, socketFd, descriptors, evidence>>
     \/ /\ target[port][address] = "refuses"
        /\ probePc' = "end" /\ state' = "CLOSED" /\ evidence' = "refused"
        /\ CloseFd /\ UNCHANGED address
     \/ /\ target[port][address] = "unreachable"
        /\ NextAddress /\ CloseFd /\ UNCHANGED <<state, evidence>>
  /\ UNCHANGED <<target, port, accident, reportVars>>

(* Fault: an interrupted wait is taken for a timeout.                      *)
InterruptedTimesOut ==
  /\ probePc = "wait"
  /\ probePc' = "end" /\ state' = "FILTERED" /\ evidence' = "timedOut"
  /\ CloseFd /\ accident' = TRUE
  /\ UNCHANGED <<target, port, address, reportVars>>

(* Fault: the same address is tried again after an interruption.           *)
InterruptedRetries ==
  /\ probePc = "wait"
  /\ probePc' = "address" /\ CloseFd /\ accident' = TRUE
  /\ UNCHANGED <<target, port, address, state, evidence, reportVars>>

(* select() fails, for one with EINTR on Ctrl+C: the next address.         *)
Interrupted ==
  /\ probePc = "wait"
  /\ NextAddress /\ CloseFd /\ accident' = TRUE
  /\ UNCHANGED <<target, port, state, evidence, reportVars>>

(* Fault: a silent address is given up for the next one.                   *)
TimesOutTriesNext ==
  /\ probePc = "wait" /\ target[port][address] = "silent"
  /\ NextAddress /\ CloseFd
  /\ UNCHANGED <<target, port, state, evidence, accident, reportVars>>

(* select() returns 0 after 1500 ms without an answer.                     *)
TimesOut ==
  /\ probePc = "wait" /\ target[port][address] = "silent"
  /\ probePc' = "end" /\ state' = "FILTERED" /\ evidence' = "timedOut"
  /\ CloseFd
  /\ UNCHANGED <<target, port, address, accident, reportVars>>

(* select() returns 1: SO_ERROR tells the answer.                          *)
Answered ==
  /\ probePc = "wait" /\ target[port][address] # "silent"
  /\ probePc' = "end" /\ CloseFd
  /\ CASE target[port][address] = "accepts" ->
            state' = "OPEN" /\ UNCHANGED evidence
       [] target[port][address] = "refuses" ->
            state' = "CLOSED" /\ evidence' = "refused"
       [] OTHER -> state' = "UNKNOWN" /\ evidence' = "failed"
  /\ UNCHANGED <<target, port, address, accident, reportVars>>

(* Fault: the descriptor of an open connection is forgotten.               *)
EndLeaks ==
  /\ probePc = "end" /\ probePc' = "record"
  /\ socketFd' = 0 /\ UNCHANGED descriptors
  /\ evidence' = IF state = "OPEN" THEN "established"
                 ELSE IF state = "UNKNOWN" /\ evidence = "none" THEN "insufficient"
                 ELSE evidence
  /\ UNCHANGED <<target, port, address, state, accident, reportVars>>

(* What probeTCP does after its loop.                                      *)
End ==
  /\ probePc = "end" /\ probePc' = "record"
  /\ IF socketFd = 1 THEN CloseFd ELSE UNCHANGED <<socketFd, descriptors>>
  /\ evidence' = IF state = "OPEN" THEN "established"
                 ELSE IF state = "UNKNOWN" /\ evidence = "none" THEN "insufficient"
                 ELSE evidence
  /\ UNCHANGED <<target, port, address, state, accident, reportVars>>

-----------------------------------------------------------------------------
(* analyze                                                                 *)

(* The counters after one more observation.                                *)
Counted(r, s) ==
  [r EXCEPT !.observed = @ + 1,
            !.open = IF s = "OPEN" THEN @ + 1 ELSE @,
            !.closed = IF s = "CLOSED" THEN @ + 1 ELSE @,
            !.filtered = IF s = "FILTERED" THEN @ + 1 ELSE @,
            !.unknown = IF s = "UNKNOWN" THEN @ + 1 ELSE @]

Record ==
  /\ probePc = "record"
  /\ report' = Counted(report, state)
  /\ hasEvidenceOfFiltering' = (hasEvidenceOfFiltering \/ state = "FILTERED")
  /\ observations' = Append(observations,
       [state |-> state, evidence |-> evidence, accident |-> accident])
  /\ probePc' = "ports" /\ port' = port + 1
  /\ UNCHANGED <<target, address, socketFd, descriptors, state, evidence,
                 accident, conclusion>>

(* Fault: the ports that answered otherwise are not looked at.             *)
ConclusionAnyClosed(r) ==
  IF r.observed = 0 THEN "noPorts"
  ELSE IF r.filtered > 0 THEN "filtering"
  ELSE IF r.open > 0 /\ r.closed > 0 THEN "openAndRefused"
  ELSE IF r.open > 0 THEN "reachable"
  ELSE IF r.closed > 0 THEN "allRefused"
  ELSE "insufficient"

ConclusionOf(r) ==
  IF r.observed = 0 THEN "noPorts"
  ELSE IF r.filtered > 0 THEN "filtering"
  ELSE IF r.open > 0 /\ r.closed > 0 THEN "openAndRefused"
  ELSE IF r.open > 0 THEN "reachable"
  ELSE IF r.closed = r.observed THEN "allRefused"
  ELSE "insufficient"

Conclude ==
  /\ probePc = "ports" /\ port > Ports
  /\ probePc' = "done"
  /\ conclusion' = ConclusionOf(report)
  /\ UNCHANGED <<target, port, address, socketFd, descriptors, state, evidence,
                 accident, report, hasEvidenceOfFiltering, observations>>

ProbeNext ==
  \/ Resolve \/ OpenSocket \/ NoMoreAddresses \/ Connect
  \/ Interrupted \/ TimesOut \/ Answered \/ End \/ Record \/ Conclude

(* The process is scheduled, and select() returns after its timeout.       *)
ProbeSpec == ProbeInit /\ [][ProbeNext]_probeVars /\ WF_probeVars(ProbeNext)

-----------------------------------------------------------------------------
Report == [observed : Nat, open : Nat, closed : Nat, filtered : Nat,
           unknown : Nat]

ProbeTypeOK ==
  /\ target \in [1..Ports -> [1..Addresses -> Behaviours]]
  /\ probePc \in {"ports", "address", "connect", "wait", "end", "record", "done"}
  /\ port \in 1..(Ports + 1)
  /\ address \in 1..(Addresses + 1)
  /\ socketFd \in 0..1 /\ descriptors \in 0..1
  /\ state \in States /\ evidence \in Evidence /\ accident \in BOOLEAN
  /\ report \in Report /\ hasEvidenceOfFiltering \in BOOLEAN
  /\ observations \in Seq(Observation)
  /\ conclusion \in {"none", "noPorts", "filtering", "openAndRefused", "reachable",
                     "allRefused", "insufficient"}

(* Every path of probeTCP closes the descriptor it opened: the process     *)
(* holds one exactly while socketFd names it.                              *)
DescriptorsClosed ==
  /\ descriptors = socketFd
  /\ probePc \in {"ports", "record", "done"} => descriptors = 0

(* What each state rests on.                                               *)
Behaviour(s) ==
  CASE s = "OPEN"     -> "accepts"
    [] s = "CLOSED"   -> "refuses"
    [] s = "FILTERED" -> "silent"
    [] OTHER          -> "unreachable"
EvidenceFor(s) ==
  CASE s = "OPEN"     -> {"established"}
    [] s = "CLOSED"   -> {"refused"}
    [] s = "FILTERED" -> {"timedOut"}
    [] OTHER          -> {"unresolved", "failed", "insufficient"}

(* README.md:116, "results are backed by evidence": a definite state is    *)
(* what some address of the host did, and the evidence says the same.      *)
(* Neither an error nor Ctrl+C makes a port FILTERED.                      *)
StatesBackedByEvidence ==
  \A p \in 1..Len(observations) :
    /\ observations[p].evidence \in EvidenceFor(observations[p].state)
    /\ observations[p].state # "UNKNOWN" =>
         \E a \in 1..Addresses : target[p][a] = Behaviour(observations[p].state)

(* Without accidents one address decides the port: its state is what that  *)
(* address does, and all the addresses before it are unreachable.  An      *)
(* address decides UNKNOWN only by an error that comes while its answer is *)
(* awaited, which ends the loop whatever a later address would do.  When   *)
(* no address decides, the evidence is "insufficient", every address was   *)
(* tried and none can be reached.                                          *)
FirstAnswerDecides ==
  \A p \in 1..Len(observations) :
    LET o == observations[p]
    IN  ~o.accident =>
          IF o.evidence = "insufficient"
          THEN \A a \in 1..Addresses : target[p][a] = "unreachable"
          ELSE \E a \in 1..Addresses :
                 /\ target[p][a] = Behaviour(o.state)
                 /\ \A b \in 1..(a - 1) : target[p][b] = "unreachable"

(* The counters are those of the list of observations.                     *)
CountOf(s) == Cardinality({p \in 1..Len(observations) : observations[p].state = s})
CountsAgree ==
  /\ report.observed = Len(observations)
  /\ report.open = CountOf("OPEN")
  /\ report.closed = CountOf("CLOSED")
  /\ report.filtered = CountOf("FILTERED")
  /\ report.unknown = CountOf("UNKNOWN")
  /\ hasEvidenceOfFiltering <=> report.filtered > 0

Observed == {observations[p].state : p \in 1..Len(observations)}
Shows(certain, possible) ==
  certain \subseteq Observed /\ Observed \subseteq certain \cup possible

(* A report has a conclusion, and each conclusion says which states were   *)
(* certainly observed and which others may have been.  "filtering" says    *)
(* only that a port is FILTERED, and without it none is.  "reachable"      *)
(* ("The tested ports responded as reachable.",                            *)
(* src/security/firewall_probe.cpp:147) says that a port is OPEN and none  *)
(* was refused; ports that gave no answer are passed over, although the    *)
(* text speaks of the tested ports.                                        *)
ConclusionBacked ==
  /\ probePc = "done" => conclusion # "none"
  /\ conclusion = "noPorts" => Shows({}, {})
  /\ conclusion = "filtering" => Shows({"FILTERED"}, States)
  /\ conclusion = "openAndRefused" => Shows({"OPEN", "CLOSED"}, {"UNKNOWN"})
  /\ conclusion = "reachable" => Shows({"OPEN"}, {"UNKNOWN"})
  /\ conclusion = "allRefused" => Shows({"CLOSED"}, {})
  /\ conclusion = "insufficient" => Shows({"UNKNOWN"}, {"CLOSED"})

(* A probe ends, however often it is interrupted.                          *)
ProbeEnds == <>(probePc = "done")
=============================================================================
