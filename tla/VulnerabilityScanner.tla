------------------------ MODULE VulnerabilityScanner ------------------------
(***************************************************************************)
(* VulnerabilityScanner::scan: the findings of vuln|:scan on a vector of   *)
(* detected services.  A finding is the service it is about, its id and    *)
(* its severity; scan keeps one finding per host, port and id, and prints  *)
(* them in the order of severity and confidence, which is left out.        *)
(***************************************************************************)
EXTENDS Naturals, Sequences, FiniteSets

(* enum class VulnerabilitySeverity                                        *)
Severity == [LOW |-> 1, MEDIUM |-> 2, HIGH |-> 3, CRITICAL |-> 4]

-----------------------------------------------------------------------------
(* The rules, one set per function of the code: <<port, id, severity>>.    *)
(* Each looks at the port only, not at the name that was detected on it.   *)
checkExposure ==
  {<<n, "SLP-WEB-CLEAR", Severity.LOW>> : n \in {80, 8080, 8000}}
  \cup {<<139, "SLP-NETBIOS-EXPOSURE", Severity.HIGH>>,
        <<445, "SLP-SMB-EXPOSURE", Severity.HIGH>>}

checkInsecureProtocol == {
  <<21, "SLP-FTP-CLEARTEXT", Severity.HIGH>>,
  <<23, "SLP-TELNET-CLEARTEXT", Severity.CRITICAL>>,
  <<110, "SLP-POP3-CLEARTEXT", Severity.MEDIUM>>,
  <<143, "SLP-IMAP-CLEARTEXT", Severity.MEDIUM>>}

checkRemoteAccess == {
  <<22, "SLP-SSH-EXPOSURE", Severity.LOW>>,
  <<3389, "SLP-RDP-EXPOSURE", Severity.HIGH>>}

checkDatabaseExposure ==
  {<<n, "SLP-DATABASE-EXPOSURE", Severity.HIGH>> :
     n \in {3306, 5432, 6379, 27017, 1433, 1521}}

ExposureRules ==
  UNION {checkExposure, checkInsecureProtocol, checkRemoteAccess, checkDatabaseExposure}

(* checkLegacyVersion gives up on a service without a version, and then    *)
(* looks for a product in its name: <<product, id, severity>>.  Of the     *)
(* names ServiceDetector gives, SSH and HTTP come with a version and MySQL *)
(* is the only one with a product in it.                                   *)
VersionedNames == {"SSH", "HTTP"}
LegacyRules == {
  <<"OpenSSH", "SLP-LEGACY-OPENSSH", Severity.MEDIUM>>,
  <<"Apache", "SLP-LEGACY-APACHE", Severity.HIGH>>,
  <<"Nginx", "SLP-LEGACY-NGINX", Severity.MEDIUM>>,
  <<"MySQL", "SLP-LEGACY-MYSQL", Severity.HIGH>>}
checkLegacyVersion(service) ==
  {rule \in LegacyRules :
     rule[1] = service.service /\ service.service \in VersionedNames}

-----------------------------------------------------------------------------
VulnerabilityFinding(service, rule) ==
  [host |-> service.ip, port |-> service.port, service |-> service.service,
   id |-> rule[2], severity |-> rule[3]]

(* The rules a service raises.                                             *)
Raised(service) ==
  {rule \in ExposureRules : rule[1] = service.port} \cup checkLegacyVersion(service)

(* Is a finding of that id on its port there already when target i comes?  *)
duplicateFinding(targets, i, id) ==
  \E j \in 1..(i - 1) :
    /\ targets[j].ip = targets[i].ip /\ targets[j].port = targets[i].port
    /\ \E rule \in Raised(targets[j]) : rule[2] = id

vulnerabilityScan(targets) ==
  UNION {{VulnerabilityFinding(targets[i], rule) :
            rule \in {r \in Raised(targets[i]) : ~duplicateFinding(targets, i, r[2])}} :
         i \in DOMAIN targets}

(* The "Risk Level" line of the handler: the severity of the worst finding,*)
(* or 0, INFORMATIONAL, without any.                                       *)
RiskLevel(findings) ==
  LET severities == {0} \cup {f.severity : f \in findings}
  IN  CHOOSE s \in severities : \A t \in severities : t <= s
=============================================================================
