-------------------------- MODULE CommandArguments --------------------------
(***************************************************************************)
(* CommandHandler::execute up to the point where an operation begins: what *)
(* each handler makes of the words of a line.  A handler is an operator    *)
(* that gives the set of its outcomes, as it may also depend on what the   *)
(* store or the system holds.  What the operations do is left to the       *)
(* modules of the engines.                                                 *)
(***************************************************************************)
EXTENDS CommandParser, HostDiscovery

CONSTANT MaxId   (* the largest value std::stoull reads                    *)
ASSUME MaxIdAssumption == MaxId \in Nat

(* An operation: its command, the words it is given as text, and the       *)
(* numbers it is given as such.                                            *)
Operation(type, words, numbers) == [type |-> type, words |-> words, numbers |-> numbers]
NotStarted == Operation("NONE", <<>>, <<>>)
Start(type, words, numbers) == {Operation(type, words, numbers)}
Refused == {NotStarted}

MaxPort   == 65535
Ports     == 1..MaxPort
Seconds   == 1..86400
Intervals == 1..3600

-----------------------------------------------------------------------------
handleHostFind(args) ==
  IF Len(args) = 1 /\ Checkable(args[1])
  THEN Start("HOST_FIND", args, <<>>) ELSE Refused

(* Fault: a range may end before it starts.                                *)
handlePortScanUnordered(args) ==
  LET dash == Mark("-")
      from == stoi(Before(args[2], dash))
      to   == stoi(After(args[2], dash))
  IN  IF args = <<>> THEN Refused
      ELSE IF Len(args) = 1 THEN Start("PORT_SCAN", args, <<>>)
      ELSE IF Has(args[2], dash) /\ from.ok /\ to.ok /\ from.value >= 1 /\ to.value <= MaxPort
      THEN Start("PORT_SCAN", <<args[1]>>, <<from.value, to.value>>) ELSE Refused

(* The common ports, or a range in the second word; further words are not  *)
(* looked at.                                                              *)
handlePortScan(args) ==
  LET dash == Mark("-")
      from == stoi(Before(args[2], dash))
      to   == stoi(After(args[2], dash))
  IN  IF args = <<>> THEN Refused
      ELSE IF Len(args) = 1 THEN Start("PORT_SCAN", args, <<>>)
      ELSE IF /\ Has(args[2], dash)
              /\ from.ok /\ to.ok
              /\ from.value >= 1 /\ to.value <= MaxPort /\ from.value <= to.value
      THEN Start("PORT_SCAN", <<args[1]>>, <<from.value, to.value>>) ELSE Refused

(* Without a stored scan of the host there is nothing to detect.           *)
handleServiceDetect(args) ==
  IF args = <<>> THEN Refused
  ELSE Refused \cup Start("SERVICE_DETECT", <<args[1]>>, <<>>)

(* Interface, seconds and filter.  Without an interface one is detected,   *)
(* if there is an active one.                                              *)
Filters == {"all", "tcp", "udp", "icmp"}
handlePacketCapture(args) ==
  LET seconds == IF Len(args) >= 2 THEN stoi(args[2])
                 ELSE [ok |-> TRUE, value |-> 10, whole |-> TRUE]
      filter  == IF Len(args) >= 3 THEN args[3] ELSE <<Name("all")>>
      known   == Len(filter) = 1 /\ Head(filter).is = "name" /\ Head(filter).text \in Filters
      through == IF args = <<>> THEN <<>> ELSE args[1]
  IN  IF Len(args) <= 3 /\ seconds.ok /\ seconds.value \in Seconds /\ known
      THEN Start("PACKET_CAPTURE", <<through, <<Name(Head(filter).text)>> >>, <<seconds.value>>)
           \cup {refusal \in Refused : args = <<>>}
      ELSE Refused

(* The latest capture, one packet of it by its number, or a file.          *)
handlePacketInspect(args) ==
  LET numeric == Len(args[1]) = 1 /\ IsDigits(Head(args[1]))
      id      == Head(args[1]).value
  IN  IF args = <<>> THEN Start("PACKET_INSPECT", <<>>, <<>>)
      ELSE IF Len(args) > 1 THEN Refused
      ELSE IF ~numeric THEN Start("PACKET_INSPECT", args, <<>>)
      ELSE IF id \in 1..MaxId THEN Start("PACKET_INSPECT", <<>>, <<id>>) ELSE Refused

(* Interface and interval, which must be a number and nothing else.        *)
handleNetworkMonitor(args) ==
  LET interval == IF Len(args) = 2 THEN stoi(args[2])
                  ELSE [ok |-> TRUE, value |-> 1, whole |-> TRUE]
      through  == IF args = <<>> THEN <<>> ELSE args[1]
  IN  IF Len(args) <= 2 /\ interval.ok /\ interval.whole /\ interval.value \in Intervals
      THEN Start("NETWORK_MONITOR", <<through>>, <<interval.value>>)
           \cup {refusal \in Refused : args = <<>>}
      ELSE Refused

(* These say so when the store holds nothing they could look at.           *)
handleSecurityDetect(args) ==
  IF Len(args) > 1 THEN Refused ELSE Refused \cup Start("SECURITY_DETECT", args, <<>>)
handleCredCheck(args) ==
  IF Len(args) > 1 THEN Refused ELSE Refused \cup Start("CRED_CHECK", args, <<>>)
handleVulnScan(args) ==
  Refused \cup Start("VULN_SCAN", IF args = <<>> THEN <<>> ELSE <<args[1]>>, <<>>)

handleMacResolve(args) ==
  IF Len(args) = 1 THEN Start("MAC_RESOLVE", args, <<>>) ELSE Refused
handleDnsResolve(args) ==
  IF Len(args) = 1 THEN Start("DNS_RESOLVE", args, <<>>) ELSE Refused
handleOSFingerprint(args) ==
  IF Len(args) = 1 THEN Start("OS_FINGERPRINT", args, <<>>) ELSE Refused
handleFirewallProbe(args) ==
  IF Len(args) = 1 THEN Start("FIREWALL_PROBE", args, <<>>) ELSE Refused
handleSubnetCalc(args) ==
  IF Len(args) = 1 THEN Start("SUBNET_CALC", args, <<>>) ELSE Refused

handleBannerGrab(args) ==
  LET port == stoi(args[2])
  IN  IF Len(args) = 2 /\ port.ok /\ port.value \in Ports
      THEN Start("BANNER_GRAB", <<args[1]>>, <<port.value>>) ELSE Refused

handleSSLAudit(args) ==
  LET port == IF Len(args) = 2 THEN stoi(args[2])
              ELSE [ok |-> TRUE, value |-> 443, whole |-> TRUE]
  IN  IF Len(args) \in {1, 2} /\ port.ok /\ port.value \in Ports
      THEN Start("SSL_AUDIT", <<args[1]>>, <<port.value>>) ELSE Refused

(* The commands that take no argument do not look at any.                  *)
Unargued == {"IP_SEEK", "TOPOLOGY_MAP", "NETWORK_SHOW", "NETWORK_CLEAR",
             "AI_ANALYZE", "SESSION_INFO", "SYSTEM_INFO", "HELP", "EXIT"}

(* Outcomes that depend on what the store holds.                           *)
StoreDependent(command) ==
  command.type \in {"SERVICE_DETECT", "SECURITY_DETECT", "VULN_SCAN", "CRED_CHECK"}

(* Without the name of an interface an active one is looked for.           *)
LinkDependent(command) ==
  command.type \in {"PACKET_CAPTURE", "NETWORK_MONITOR"} /\ command.arguments = <<>>

(* The switch of execute.                                                  *)
execute(command) ==
  LET args == command.arguments
  IN  CASE command.type \in Unargued        -> Start(command.type, <<>>, <<>>)
        [] command.type = "HOST_FIND"       -> handleHostFind(args)
        [] command.type = "PORT_SCAN"       -> handlePortScan(args)
        [] command.type = "SERVICE_DETECT"  -> handleServiceDetect(args)
        [] command.type = "PACKET_CAPTURE"  -> handlePacketCapture(args)
        [] command.type = "PACKET_INSPECT"  -> handlePacketInspect(args)
        [] command.type = "NETWORK_MONITOR" -> handleNetworkMonitor(args)
        [] command.type = "SECURITY_DETECT" -> handleSecurityDetect(args)
        [] command.type = "MAC_RESOLVE"     -> handleMacResolve(args)
        [] command.type = "DNS_RESOLVE"     -> handleDnsResolve(args)
        [] command.type = "OS_FINGERPRINT"  -> handleOSFingerprint(args)
        [] command.type = "BANNER_GRAB"     -> handleBannerGrab(args)
        [] command.type = "SUBNET_CALC"     -> handleSubnetCalc(args)
        [] command.type = "VULN_SCAN"       -> handleVulnScan(args)
        [] command.type = "CRED_CHECK"      -> handleCredCheck(args)
        [] command.type = "SSL_AUDIT"       -> handleSSLAudit(args)
        [] command.type = "FIREWALL_PROBE"  -> handleFirewallProbe(args)
        [] OTHER                            -> Refused
-----------------------------------------------------------------------------
(* What the usage lines of the handlers say: the operation a line stands   *)
(* for, built from the forms they list (src/cli/command_handler.cpp:370,   *)
(* :469, :612, :926-930, :1166-1169, :1252-1255, :1753-1755, :2151, :2197, *)
(* :2380, :2508, :2606, :2950, :3179-3181, :3439; for the commands without *)
(* usage lines those of the help).                                         *)
When(condition, operation) == IF condition THEN {operation} ELSE {}

Target(word) == ~Has(word, Mark("/")) /\ ~Has(word, Mark(":"))
IsNumber(word) == Len(word) = 1 /\ IsDigits(word[1])
NumberIn(word, S) == IsNumber(word) /\ word[1].value \in S
RangeIn(word, S) ==
  /\ Len(word) = 3 /\ word[2] = Mark("-")
  /\ NumberIn(<<word[1]>>, S) /\ NumberIn(<<word[3]>>, S)
  /\ word[1].value <= word[3].value

OnTarget == {"HOST_FIND", "PORT_SCAN", "SERVICE_DETECT", "MAC_RESOLVE",
             "DNS_RESOLVE", "OS_FINGERPRINT", "VULN_SCAN", "CRED_CHECK",
             "FIREWALL_PROBE", "SECURITY_DETECT"}
OnEverything == {"SECURITY_DETECT", "VULN_SCAN", "CRED_CHECK", "PACKET_INSPECT"}

Usage(line) ==
  LET type == parse(line).type
      args == parse(line).arguments
      n    == Len(args)
      first == Len(args) > 0 /\ Target(args[1])
      All  == <<Name("all")>>
  IN  When(n = 0 /\ type \in Unargued \cup OnEverything, Operation(type, <<>>, <<>>)) \cup
      When(n = 1 /\ first /\ type \in OnTarget, Operation(type, args, <<>>)) \cup
      When(n = 1 /\ type = "SUBNET_CALC", Operation(type, args, <<>>)) \cup
      When(n = 2 /\ first /\ type = "PORT_SCAN" /\ RangeIn(args[2], Ports),
           Operation(type, <<args[1]>>, <<args[2][1].value, args[2][3].value>>)) \cup
      When(n = 2 /\ first /\ type \in {"BANNER_GRAB", "SSL_AUDIT"} /\ NumberIn(args[2], Ports),
           Operation(type, <<args[1]>>, <<args[2][1].value>>)) \cup
      When(n = 1 /\ first /\ type = "SSL_AUDIT", Operation(type, args, <<443>>)) \cup
      When(n = 1 /\ type = "PACKET_INSPECT" /\ NumberIn(args[1], 1..MaxId),
           Operation(type, <<>>, <<args[1][1].value>>)) \cup
      When(n = 1 /\ type = "PACKET_INSPECT" /\ ~IsNumber(args[1]),
           Operation(type, args, <<>>)) \cup
      When(n = 0 /\ type = "NETWORK_MONITOR", Operation(type, << <<>> >>, <<1>>)) \cup
      When(n = 1 /\ type = "NETWORK_MONITOR", Operation(type, args, <<1>>)) \cup
      When(n = 2 /\ type = "NETWORK_MONITOR" /\ NumberIn(args[2], Intervals),
           Operation(type, <<args[1]>>, <<args[2][1].value>>)) \cup
      When(n = 0 /\ type = "PACKET_CAPTURE", Operation(type, << <<>>, All>>, <<10>>)) \cup
      When(n = 1 /\ type = "PACKET_CAPTURE", Operation(type, <<args[1], All>>, <<10>>)) \cup
      When(n = 2 /\ type = "PACKET_CAPTURE" /\ NumberIn(args[2], Seconds),
           Operation(type, <<args[1], All>>, <<args[2][1].value>>)) \cup
      When(/\ n = 3 /\ type = "PACKET_CAPTURE" /\ NumberIn(args[2], Seconds)
           /\ args[3] \in {<<Upper(f)>> : f \in Filters},
           Operation(type, <<args[1], <<Name(args[3][1].text)>> >>, <<args[2][1].value>>))

(* What the engines take for granted of the numbers they are given.        *)
WithinLimits(o) ==
  LET numbers == ToSet(o.numbers)
  IN  CASE o.type = "PORT_SCAN" ->
             numbers \subseteq Ports /\ IsSorted(o.numbers, <=)
        [] o.type \in {"BANNER_GRAB", "SSL_AUDIT"} -> numbers # {} /\ numbers \subseteq Ports
        [] o.type = "PACKET_CAPTURE"  -> numbers # {} /\ numbers \subseteq Seconds
        [] o.type = "NETWORK_MONITOR" -> numbers # {} /\ numbers \subseteq Intervals
        [] o.type = "PACKET_INSPECT"  -> 0 \notin numbers
        [] OTHER                      -> numbers = {}

(* Forms of the help that no usage line has (src/cli/command_handler.cpp   *)
(* :192, :199, :281, :285 and :287): a block of hosts to find, a range of  *)
(* ports in two words, a host and its port in one, a probe of no host or   *)
(* of one port.                                                            *)
HelpOnly(line) ==
  LET type == parse(line).type
      args == parse(line).arguments
      n    == Len(args)
  IN  \/ n = 1 /\ type = "HOST_FIND" /\ Has(args[1], Mark("/"))
      \/ n = 3 /\ type = "PORT_SCAN" /\ NumberIn(args[2], Ports) /\ NumberIn(args[3], Ports)
      \/ n = 1 /\ type = "SSL_AUDIT" /\ Has(args[1], Mark(":"))
      \/ n = 0 /\ type = "FIREWALL_PROBE"
      \/ n = 2 /\ type = "FIREWALL_PROBE" /\ NumberIn(args[2], Ports)

(* What the handlers make of them: <HOST:PORT> is taken for a name, to be  *)
(* audited on port 443; the others are refused.                            *)
HelpOnlyOutcome(line) ==
  IF parse(line).type = "SSL_AUDIT"
  THEN Operation("SSL_AUDIT", parse(line).arguments, <<443>>) ELSE NotStarted

(* The handlers and the table of CommandUtilities agree on which commands  *)
(* need an argument, and whatever begins is within the limits and, where   *)
(* the line has a form of the usage lines, is what they say; such a line   *)
(* is refused only for what the store holds or for want of an interface.   *)
Understood(line, o) ==
  /\ o # NotStarted => WithinLimits(o)
  /\ o # NotStarted => o.type = parse(line).type
  /\ o # NotStarted /\ requiresArgument(o.type) => Len(line) > 1
  /\ o # NotStarted /\ Usage(line) # {} => o \in Usage(line)
  /\ o = NotStarted =>
       Usage(line) = {} \/ StoreDependent(parse(line)) \/ LinkDependent(parse(line))
  /\ HelpOnly(line) => o = HelpOnlyOutcome(line)
=============================================================================
