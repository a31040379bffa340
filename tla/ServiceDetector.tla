-------------------------- MODULE ServiceDetector ---------------------------
(***************************************************************************)
(* svc|:detect's probe of one open port and what ServiceDetector::identify *)
(* makes of the answer.  An answer is the set of the marks identify looks  *)
(* for that it carries; "text" is the mark of any nonempty answer, and the *)
(* empty set is what tcpReceive returns for silence, a closed connection,  *)
(* an error or Ctrl+C during the wait -- and for a port tcpConnect does    *)
(* not connect to any more, or reports connected after a connect() that    *)
(* failed at once.                                                         *)
(***************************************************************************)
EXTENDS Naturals, Sequences, FiniteSets

CONSTANT Responses   (* the answers a host may give to a probe             *)

Marks == {"text", "SSH-", "220", "FTP", "HTTP/", "+", "-", "+OK", "* OK"}
Silence == {}

ASSUME ResponseAssumption ==
  /\ Responses \subseteq SUBSET Marks
  /\ \A r \in Responses : r # Silence => "text" \in r
  /\ \A r \in Responses : "+OK" \in r => "+" \in r

(* What probe() may return.  On the web ports it sends a request first, on *)
(* the others it only listens, for two seconds; whether the request went   *)
(* out is not looked at, and a host may say anything on any port.          *)
probeAnswers == {Silence} \cup Responses

-----------------------------------------------------------------------------
(* identify, as the list of its rules in the order they are tried: a name, *)
(* the ports it is given on, and the marks of which the answer must have   *)
(* one.  The last list is empty where the port number is enough.           *)
Anywhere == 1..65535
Rule(name, ports, evidence) == [name |-> name, ports |-> ports, evidence |-> evidence]

BannerRules == <<
  Rule("SSH",        Anywhere, {"SSH-"}),
  Rule("FTP",        {21},     {"220", "FTP"}),
  Rule("HTTP",       Anywhere, {"HTTP/"}),
  Rule("SMTP",       {25},     {"220"}),
  Rule("MySQL",      {3306},   {"text"}),
  Rule("PostgreSQL", {5432},   {}),
  Rule("Redis",      {6379},   {"+", "-"}) >>

(* The switch "Known-service fallback".                                    *)
FallbackRules == <<
  Rule("SSH",  {22},  {"text"}),
  Rule("DNS",  {53},  {}),
  Rule("POP3", {110}, {"+OK"}),
  Rule("IMAP", {143}, {"* OK"}) >>

Rules == BannerRules \o FallbackRules
DetectedNames == {Rules[k].name : k \in DOMAIN Rules}

Applies(rule, port, response) ==
  /\ port \in rule.ports
  /\ rule.evidence = {} \/ rule.evidence \cap response # {}

Matching(port, response) == {k \in DOMAIN Rules : Applies(Rules[k], port, response)}

(* Service::detected and Service::name.                                    *)
Detected(port, response) == Matching(port, response) # {}
identify(port, response) ==
  Rules[CHOOSE k \in Matching(port, response) :
          \A l \in Matching(port, response) : k <= l].name
=============================================================================
