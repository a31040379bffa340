-------------------------- MODULE SecurityDetector --------------------------
(***************************************************************************)
(* SecurityDetector::analyze for one host: the rules of sec|:detect over   *)
(* the stored ports and services.  An alert is its type, what its text is  *)
(* about -- a port or service, or 0 for the host -- and its severity.      *)
(* addAlert drops an alert with the text of an earlier one, so the alerts  *)
(* are a set; that they are printed highest severity first is left out.    *)
(***************************************************************************)
EXTENDS Naturals, Sequences, FiniteSets

CONSTANTS
  LARGE_SURFACE,       (* 10 in the code: open ports of a LARGE surface    *)
  VERY_LARGE_SURFACE   (* 20 in the code                                   *)

ASSUME SurfaceAssumption ==
  /\ LARGE_SURFACE \in Nat \ {0}
  /\ VERY_LARGE_SURFACE \in Nat
  /\ LARGE_SURFACE < VERY_LARGE_SURFACE

HIGH_ALERT == 3
MEDIUM_ALERT == 2
LOW_ALERT == 1

Alert(type, about, severity) == [type |-> type, about |-> about, severity |-> severity]

-----------------------------------------------------------------------------
(* The rules on single ports, one set per function of the code:            *)
(* <<port, type, severity>>.  Each looks at the port number only.          *)
checkLegacyProtocols == {
  <<23, "TELNET_EXPOSED", HIGH_ALERT>>, <<21, "FTP_EXPOSED", MEDIUM_ALERT>>,
  <<69, "TFTP_EXPOSED", HIGH_ALERT>>}

checkExposedDatabases ==
  {<<n, "DATABASE_EXPOSED", HIGH_ALERT>> : n \in {3306, 5432, 27017}}
  \cup {<<6379, "CACHE_EXPOSED", HIGH_ALERT>>,
        <<9200, "SEARCH_ENGINE_EXPOSED", HIGH_ALERT>>}

checkRemoteAdministration == {
  <<22, "SSH_EXPOSED", LOW_ALERT>>, <<3389, "RDP_EXPOSED", HIGH_ALERT>>,
  <<5900, "VNC_EXPOSED", MEDIUM_ALERT>>}

checkManagementServices == {
  <<161, "SNMP_EXPOSED", MEDIUM_ALERT>>, <<2375, "DOCKER_API_EXPOSED", HIGH_ALERT>>,
  <<2376, "DOCKER_TLS_API_EXPOSED", MEDIUM_ALERT>>}

checkFileSharing == {
  <<445, "SMB_EXPOSED", HIGH_ALERT>>, <<139, "NETBIOS_EXPOSED", MEDIUM_ALERT>>}

checkCleartextServices == {
  <<25, "SMTP_EXPOSED", LOW_ALERT>>, <<110, "POP3_EXPOSED", MEDIUM_ALERT>>,
  <<143, "IMAP_EXPOSED", LOW_ALERT>>, <<80, "HTTP_EXPOSED", LOW_ALERT>>}

checkHighRiskServices == {
  <<111, "RPC_EXPOSED", MEDIUM_ALERT>>, <<2049, "NFS_EXPOSED", HIGH_ALERT>>,
  <<5000, "APPLICATION_SERVICE_EXPOSED", LOW_ALERT>>}

PortRules ==
  UNION {checkLegacyProtocols, checkExposedDatabases, checkRemoteAdministration,
         checkManagementServices, checkFileSharing, checkCleartextServices,
         checkHighRiskServices}

(* What the port rules say of the open ones of a vector of ports.          *)
portAlerts(ports) ==
  {Alert(rule[2], rule[1], rule[3]) :
     rule \in {r \in PortRules :
                 \E i \in DOMAIN ports : ports[i].open /\ ports[i].port = r[1]}}

(* No detector gives a service a name with "telnet" in it; the rule is     *)
(* there.                                                                  *)
TelnetNames == {"Telnet"}
checkServiceExposure(services) ==
  {Alert("LEGACY_SERVICE_DETECTED", services[i].port, HIGH_ALERT) :
     i \in {k \in DOMAIN services : services[k].service \in TelnetNames}}

(* Fault: a stored port satisfies the check, open or not.                  *)
checkServicePortConsistencyStored(ports, services) ==
  {Alert("SERVICE_STATE_MISMATCH", services[i].port, LOW_ALERT) :
     i \in {k \in DOMAIN services :
              \A j \in DOMAIN ports : ports[j].port # services[k].port}}

(* A service whose port is not recorded as open.                           *)
checkServicePortConsistency(ports, services) ==
  {Alert("SERVICE_STATE_MISMATCH", services[i].port, LOW_ALERT) :
     i \in {k \in DOMAIN services :
              \A j \in DOMAIN ports :
                ~(ports[j].open /\ ports[j].port = services[k].port)}}

(* The number of open entries of the vector.                               *)
openEntries(ports) == Cardinality({i \in DOMAIN ports : ports[i].open})

checkAttackSurface(ports) ==
  LET n == openEntries(ports)
  IN  IF n >= VERY_LARGE_SURFACE
      THEN {Alert("VERY_LARGE_ATTACK_SURFACE", 0, HIGH_ALERT)}
      ELSE IF n >= LARGE_SURFACE
      THEN {Alert("LARGE_ATTACK_SURFACE", 0, MEDIUM_ALERT)}
      ELSE {}

AdministrativePorts == {22, 3389, 445, 5900}
checkAdministrativeExposure(ports) ==
  LET services == {n \in AdministrativePorts :
                     \E i \in DOMAIN ports : ports[i].open /\ ports[i].port = n}
  IN  IF Cardinality(services) >= 2
      THEN {Alert("MULTIPLE_ADMIN_SERVICES", 0, MEDIUM_ALERT)} ELSE {}

(* All alerts of a host.                                                   *)
analyze(ports, services) ==
  UNION {portAlerts(ports), checkServiceExposure(services),
         checkServicePortConsistency(ports, services),
         checkAttackSurface(ports), checkAdministrativeExposure(ports)}
=============================================================================
