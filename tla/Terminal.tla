------------------------------ MODULE Terminal ------------------------------
(***************************************************************************)
(* The command loop of Terminal::run: the typed line, what the parser and  *)
(* the handlers make of it, the operation that begins, and the one stop    *)
(* flag of SignalHandler that serves every operation.  A TLS audit is run  *)
(* step by step (module SSLAuditor); of the other operations a number of   *)
(* waits is kept -- a probe, a one-second sleep, a select(), a ping -- and *)
(* the way they treat the flag:                                            *)
(*   "plain"    never looks at it (most commands)                          *)
(*   "ping"     host|:find; ignores SIGINT while std::system waits         *)
(*   "polling"  port|:scan; looks at it between waits                      *)
(*   "seek"     ip|:seek; polls, and ignores SIGINT during its pings       *)
(*   "monitor"  clears it first, polls, clears it at the end               *)
(*   "capture"  clears it before and after, never looks at it              *)
(*   "audit"    ssl|:audit; never looks at it, and may wait without end    *)
(* std::signal installs the handler with SA_RESTART, so a press does not   *)
(* end a getline or a blocking read under way; std::this_thread::sleep_for *)
(* resumes its sleep, and the capture goes on after an interrupted         *)
(* select().                                                               *)
(***************************************************************************)
EXTENDS CommandArguments, Lookups, SSLAuditor

CONSTANTS Lines,     (* the lines the user may type                        *)
          MaxWaits   (* bound of the model: waits of one operation         *)
ASSUME TerminalAssumption == MaxWaits \in Nat \ {0} /\ Lines \subseteq Seq(Words)

Kinds   == {"plain", "ping", "polling", "seek", "monitor", "capture", "audit"}
Clears  == {"monitor", "capture"}
Polls   == {"polling", "seek", "monitor"}
Deaf    == {"ping", "seek"}

KindOf(type) ==
  CASE type = "HOST_FIND"       -> "ping"
    [] type = "PORT_SCAN"       -> "polling"
    [] type = "IP_SEEK"         -> "seek"
    [] type = "NETWORK_MONITOR" -> "monitor"
    [] type = "PACKET_CAPTURE"  -> "capture"
    [] type = "SSL_AUDIT"       -> "audit"
    [] OTHER                    -> "plain"

VARIABLES
  pc,             (* where the terminal's thread is                        *)
  line,           (* the line delivered by getline, until it is executed   *)
  operation,      (* the operation under way                               *)
  op,             (* its kind, or "none"                                   *)
  waits,          (* waits the operation has still to make if not stopped  *)
  cut,            (* the operation saw the flag and stops early            *)
  stopRequested,  (* SignalHandler::stopRequested                          *)
  pressedRound,   (* history: Ctrl+C since the loop head cleared the flag  *)
  pressedOp       (* history: Ctrl+C since the command line was accepted   *)

session == <<line, operation, op, waits, cut>>
flags   == <<stopRequested, pressedRound, pressedOp>>
vars    == <<pc, session, flags, auditVars>>

Init ==
  /\ pc = "head"
  /\ line = <<>>
  /\ operation = NotStarted
  /\ op = "none"
  /\ waits = 0
  /\ cut = FALSE
  /\ stopRequested = FALSE
  /\ pressedRound = FALSE
  /\ pressedOp = FALSE
  /\ AuditInit

-----------------------------------------------------------------------------
(* Fault: the flag is not reset at the loop head.                          *)
PromptKeepsStop ==
  /\ pc = "head"
  /\ pressedRound' = FALSE
  /\ pc' = "getline"
  /\ UNCHANGED <<session, stopRequested, pressedOp, auditVars>>

(* "Reset the stop flag before waiting for a new command", print the       *)
(* prompt.                                                                 *)
Prompt ==
  /\ pc = "head"
  /\ stopRequested' = FALSE
  /\ pressedRound' = FALSE
  /\ pc' = "getline"
  /\ UNCHANGED <<session, pressedOp, auditVars>>

(* getline fails at the end of the input: SlipNet terminates.              *)
EndOfInput ==
  /\ pc = "getline"
  /\ pc' = "terminated"
  /\ UNCHANGED <<session, flags, auditVars>>

(* getline delivers a line.                                                *)
Line ==
  /\ pc = "getline"
  /\ line' \in Lines
  /\ pc' = "accept"
  /\ UNCHANGED <<operation, op, waits, cut, flags, auditVars>>

(* A stop requested while the line was typed ends SlipNet.                 *)
Interrupted ==
  /\ pc = "accept"
  /\ stopRequested
  /\ pc' = "interrupted"
  /\ UNCHANGED <<session, flags, auditVars>>

(* An empty line, an unknown command or one with wrong arguments returns   *)
(* to the loop head.                                                       *)
NoOperation ==
  /\ pc = "accept"
  /\ ~stopRequested
  /\ line = <<>> \/ NotStarted \in execute(parse(line))
  /\ pc' = "head"
  /\ line' = <<>>
  /\ UNCHANGED <<operation, op, waits, cut, flags, auditVars>>

(* execute returns false for `fire`, `exit` and `quit` only.               *)
Exit ==
  /\ pc = "accept"
  /\ ~stopRequested
  /\ parse(line).type = "EXIT"
  /\ pc' = "terminated"
  /\ UNCHANGED <<session, flags, auditVars>>

Begin(o) ==
  /\ o # NotStarted /\ o.type # "EXIT"
  /\ operation' = o
  /\ op' = KindOf(o.type)
  /\ line' = <<>>
  /\ waits' \in IF op' = "audit" THEN {0}
                ELSE IF op' = "monitor" THEN {MaxWaits} ELSE 0..MaxWaits
  /\ cut' = FALSE
  /\ pressedOp' = FALSE
  /\ IF op' = "audit" THEN pc' = "audit" /\ StartAudit
     ELSE /\ pc' = IF op' \in Clears THEN "clear" ELSE "poll"
          /\ UNCHANGED auditVars
  /\ UNCHANGED <<stopRequested, pressedRound>>

(* The line is parsed and dispatched, and an operation begins.  A monitor  *)
(* has no end of its own.                                                  *)
Execute ==
  /\ pc = "accept"
  /\ ~stopRequested
  /\ \E o \in execute(parse(line)) : Begin(o)

(* The clearStop of net|:monitor and pkt|:capture before they begin.  What *)
(* was pressed before it is forgotten.                                     *)
ClearStop ==
  /\ pc = "clear"
  /\ stopRequested' = FALSE
  /\ pressedOp' = FALSE
  /\ pc' = "poll"
  /\ UNCHANGED <<session, pressedRound, auditVars>>

(* Fault: an operation that never looks at the flag.                       *)
PollUnstopped ==
  /\ pc = "poll"
  /\ IF waits = 0 THEN pc' = "finish" ELSE pc' = "wait"
  /\ UNCHANGED <<session, flags, auditVars>>

(* Between two waits: the operation has come to its end, or sees the flag  *)
(* if it looks at it, or goes on to the next wait.                         *)
Poll ==
  /\ pc = "poll"
  /\ IF waits = 0 \/ (op \in Polls /\ stopRequested)
     THEN pc' = "finish" /\ cut' = (waits # 0)
     ELSE pc' = "wait" /\ UNCHANGED cut
  /\ UNCHANGED <<line, operation, op, waits, flags, auditVars>>

Wait ==
  /\ pc = "wait"
  /\ waits' = IF op = "monitor" THEN waits ELSE waits - 1
  /\ pc' = "waiting"
  /\ UNCHANGED <<line, operation, op, cut, flags, auditVars>>
WaitEnds ==
  /\ pc = "waiting"
  /\ pc' = "poll"
  /\ UNCHANGED <<session, flags, auditVars>>

(* A step of the audit; it ends with audit()'s return, or with the process.*)
Audit ==
  /\ pc = "audit"
  /\ AuditStep
  /\ pc' = CASE auditPc' = "done" -> "finish" [] auditPc' = "killed" -> "killed"
             [] OTHER -> "audit"
  /\ UNCHANGED <<session, flags>>
AuditTime == pc = "audit" /\ TimePasses /\ UNCHANGED <<pc, session, flags>>

(* The clearStop of net|:monitor and pkt|:capture after they end; back to  *)
(* the loop head.  The audit's result is a local of its handler.           *)
Finish ==
  /\ pc = "finish"
  /\ stopRequested' = IF op \in Clears THEN FALSE ELSE stopRequested
  /\ pressedOp' = FALSE
  /\ operation' = NotStarted
  /\ op' = "none"
  /\ waits' = 0
  /\ cut' = FALSE
  /\ pc' = "head"
  /\ endpoint' = NoEndpoint /\ clock' = "current" /\ verifyResult' = "ok" /\ result' = EmptyResult
  /\ UNCHANGED <<line, pressedRound, auditPc, references>>

Ended == {"terminated", "interrupted", "killed"}

(* Ctrl+C.  std::system has the parent ignore SIGINT until the child is    *)
(* gone.                                                                   *)
Signal ==
  /\ pc \notin Ended
  /\ ~(pc = "waiting" /\ op \in Deaf)
  /\ stopRequested' = TRUE
  /\ pressedRound' = TRUE
  /\ pressedOp' = (op # "none")
  /\ UNCHANGED <<pc, session, auditVars>>

Terminated == pc \in Ended /\ UNCHANGED vars

Plain == ClearStop \/ Poll \/ Wait \/ WaitEnds \/ Finish
Next ==
  \/ Prompt \/ EndOfInput \/ Line \/ Interrupted \/ NoOperation \/ Exit \/ Execute
  \/ Plain \/ Audit \/ AuditTime \/ Signal \/ Terminated
Spec == Init /\ [][Next]_vars

(* The terminal's thread runs, every wait ends, and the calls of the audit *)
(* return -- except SSL_connect to a service that stays silent, where no   *)
(* step is enabled.  Nothing makes the user type a line or press Ctrl+C.   *)
FairSpec == Spec /\ WF_vars(Prompt \/ Interrupted \/ NoOperation \/ Exit \/ Execute \/ Plain \/ Audit)
-----------------------------------------------------------------------------
TypeOK ==
  /\ pc \in {"head", "getline", "accept", "clear", "poll", "wait", "waiting",
             "audit", "finish"} \cup Ended
  /\ op \in Kinds \cup {"none"}
  /\ waits \in 0..MaxWaits
  /\ cut \in BOOLEAN
  /\ stopRequested \in BOOLEAN
  /\ pressedRound \in BOOLEAN
  /\ pressedOp \in BOOLEAN

(* A stop request acts where it was meant to: it ends SlipNet only at the  *)
(* prompt of the round in which it was pressed, never at a later one, and  *)
(* it cuts short only the operation it fell into, after the command line   *)
(* of that operation was accepted.                                         *)
StopActsWhereMeant ==
  /\ (pc \in {"getline", "accept", "interrupted"} /\ stopRequested) => pressedRound
  /\ cut => pressedOp

(* What begins after a line is what the usage lines of the handlers say,   *)
(* with the numbers the user typed and within the limits the engines       *)
(* assume, and a line they list is refused only for what the store holds   *)
(* or for want of an interface.  A form that only the help lists is        *)
(* refused, but for <HOST:PORT>, which is taken for a name.                *)
LinesUnderstood ==
  [][pc = "accept" /\ pc' \notin {"accept", "interrupted", "terminated"} =>
       Understood(line, operation')]_vars

(* subnet|:calc describes the block of addresses that agree with the given *)
(* one on the prefix, and nothing but a well-formed block; the generator   *)
(* of host addresses, with its own parser and arithmetic, agrees with it.  *)
SubnetExact ==
  operation.type = "SUBNET_CALC" =>
    LET word == operation.words[1]
        meant == {np \in [1..Octets -> 0..OctetMax] \X (0..Width) :
                    word \in CIDRTexts(np[1], np[2])}
    IN  /\ calculate(word).valid <=> meant # {}
        /\ \A np \in meant :
             /\ Describes(calculate(word), ValueOf(np[1]), np[2])
             /\ \A hosts \in generateHosts(word) : Lists(hosts, ValueOf(np[1]), np[2])

(* The commands that compute an answer or look one up show what follows    *)
(* from what they were given: subnet|:calc the block, banner|:grab,        *)
(* os|:fingerprint, mac|:resolve and dns|:resolve what the service or the  *)
(* system said.                                                            *)
AnswersHold ==
  SubnetExact /\ (pc = "finish" => LookupBacked(operation.type))

(* A press during an operation that looks at the flag brings the prompt    *)
(* back, whichever wait it falls into (one before a monitor has cleared    *)
(* the flag is forgotten; module NetworkMonitor says more of it), and an   *)
(* audit comes back by itself if the service does not stay silent.         *)
OperationsReturn ==
  ( \/ op \in Polls /\ pressedOp /\ pc # "clear"
    \/ pc = "audit" /\ endpoint.peer # "silent" ) ~> (pc \in {"getline", "killed"})
=============================================================================
