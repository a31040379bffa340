----------------------------- MODULE SSLAuditor -----------------------------
(***************************************************************************)
(* SSLAuditor::audit and the report handleSSLAudit prints of it.           *)
(*                                                                         *)
(* The audit is one thread, but it talks to a service that may answer,     *)
(* refuse, stay silent or go away; it holds four counted OpenSSL objects   *)
(* that seven ways out must each release; and it reads the clock several   *)
(* times: once inside the handshake and twice for the report.              *)
(*                                                                         *)
(* OpenSSL and the service are external.  SSL_VERIFY_PEER makes            *)
(* SSL_connect fail unless the chain leads to a trusted root, the          *)
(* certificate is valid at that moment and it carries the given name.      *)
(***************************************************************************)
EXTENDS Integers

CONSTANT Suites  (* what the installed OpenSSL and its openssl.cnf let a   *)
                 (* handshake agree on: a version, and a kind of cipher    *)

Versions == {"TLSv1", "TLSv1.1", "TLSv1.2", "TLSv1.3"}
Ciphers  == {"modern", "weak", "anonymous"}
ASSUME SuitesAssumption ==
  Suites \subseteq [version : Versions, cipher : Ciphers] /\ Suites # {}

(* The service at the target: no TCP service, one that never says a word,  *)
(* one that speaks something else, one that speaks TLS; and, of the last,  *)
(* the suite it agrees to and its certificate.                             *)
Peers == {"unreachable", "silent", "foreign", "tls"}
Endpoint == [peer : Peers, suite : Suites, trusted : BOOLEAN, named : BOOLEAN,
             selfSigned : BOOLEAN]

(* An anonymous cipher comes without a certificate.                        *)
HasCertificate(e) == e.suite.cipher # "anonymous"

(* The objects an audit owns: the SSL_CTX, the BIO of the connection, the  *)
(* SSL, and the certificate.                                               *)
Objects == {"context", "bio", "ssl", "certificate"}

Findings == {"SLP-SSL-CONTEXT", "SLP-SSL-NOCONNECT", "SLP-TLS-HANDSHAKE",
             "SLP-TLS-NOCERT", "SLP-SSL-EXPIRED", "SLP-SSL-SELFSIGNED",
             "SLP-WEAK-TLS-VERSION", "SLP-TLS12", "SLP-WEAK-CIPHER",
             "SLP-CERT-VERIFY", "SLP-TLS13"}

VARIABLES
  auditPc,     (* where audit() is                                         *)
  endpoint,    (* the audited service                                      *)
  clock,       (* now, as seen from the validity of its certificate        *)
  references,  (* how many references to each object are held              *)
  verifyResult,(* SSL_get_verify_result: what checking the chain gave      *)
  result       (* the SSLAuditResult                                       *)

auditVars == <<auditPc, endpoint, clock, references, verifyResult, result>>

EmptyResult ==
  [connected |-> FALSE, tlsEstablished |-> FALSE, expired |-> FALSE,
   valid |-> FALSE, selfSigned |-> FALSE, findings |-> {}]

(* No audit has begun: nothing is held.                                    *)
NoEndpoint == CHOOSE e \in Endpoint : e.peer = "unreachable"
AuditInit ==
  /\ auditPc = "done"
  /\ endpoint = NoEndpoint
  /\ clock = "current"
  /\ references = [o \in Objects |-> 0]
  /\ verifyResult = "ok"
  /\ result = EmptyResult

(* Taking and dropping references to the objects of a set.                 *)
Take(objects) ==
  references' = [o \in Objects |->
                   references[o] + (IF o \in objects THEN 1 ELSE 0)]
Drop(objects) ==
  references' = [o \in Objects |->
                   references[o] - (IF o \in objects THEN 1 ELSE 0)]

Find(ids) == result' = [result EXCEPT !.findings = @ \cup ids]

(* SSL_free drops the SSL and what it owns: a reference to its context,    *)
(* the BIO it was given, and the peer's certificate; SSL_CTX_free then     *)
(* drops the audit's own reference to the context.                         *)
Session == {"ssl", "bio", "context"} \cup
           {o \in {"certificate"} : references[o] > 0}
FreeSession ==
  references' = [o \in Objects |->
                   references[o] - (IF o \in Session THEN 1 ELSE 0)
                                 - (IF o = "context" THEN 1 ELSE 0)]

-----------------------------------------------------------------------------
(* audit(host, port) is called: any service, at any time of the life of    *)
(* its certificate.                                                        *)
StartAudit ==
  /\ auditPc = "done"
  /\ auditPc' = "context"
  /\ endpoint' \in Endpoint
  /\ clock' \in {"early", "current", "late"}
  /\ verifyResult' = "ok"
  /\ result' = EmptyResult
  /\ UNCHANGED references

(* Time passes over notBefore or notAfter of the certificate.              *)
TimePasses ==
  /\ auditPc # "done"
  /\ \/ clock = "early" /\ clock' = "current"
     \/ clock = "current" /\ clock' = "late"
  /\ UNCHANGED <<auditPc, endpoint, references, verifyResult, result>>

(* SSL_CTX_new, with SSL_VERIFY_PEER and the default roots.                *)
NewContext ==
  /\ auditPc = "context"
  /\ Take({"context"})
  /\ auditPc' = "bio"
  /\ UNCHANGED <<endpoint, clock, verifyResult, result>>
NoContext ==
  /\ auditPc = "context"
  /\ Find({"SLP-SSL-CONTEXT"})
  /\ auditPc' = "done"
  /\ UNCHANGED <<endpoint, clock, references, verifyResult>>

(* BIO_new_connect; without a BIO the result stays empty.                  *)
NewBio ==
  /\ auditPc = "bio"
  /\ Take({"bio"})
  /\ auditPc' = "connect"
  /\ UNCHANGED <<endpoint, clock, verifyResult, result>>
NoBio ==
  /\ auditPc = "bio"
  /\ Drop({"context"})
  /\ auditPc' = "done"
  /\ UNCHANGED <<endpoint, clock, verifyResult, result>>

(* BIO_do_connect, which resolves the name and connects; it may fail for   *)
(* any service.                                                            *)
Connect ==
  /\ auditPc = "connect"
  /\ endpoint.peer # "unreachable"
  /\ result' = [result EXCEPT !.connected = TRUE]
  /\ auditPc' = "session"
  /\ UNCHANGED <<endpoint, clock, references, verifyResult>>
ConnectFails ==
  /\ auditPc = "connect"
  /\ Drop({"bio", "context"})
  /\ Find({"SLP-SSL-NOCONNECT"})
  /\ auditPc' = "done"
  /\ UNCHANGED <<endpoint, clock, verifyResult>>

(* SSL_new holds its own reference to the context; SSL_set_bio hands the   *)
(* BIO over; set1_host asks for the name to be checked.                    *)
NewSession ==
  /\ auditPc = "session"
  /\ Take({"ssl", "context"})
  /\ auditPc' = "handshake"
  /\ UNCHANGED <<endpoint, clock, verifyResult, result>>
NoSession ==
  /\ auditPc = "session"
  /\ Drop({"bio", "context"})
  /\ auditPc' = "done"
  /\ UNCHANGED <<endpoint, clock, verifyResult, result>>

(* Fault: the name is not checked, as without set1_host.                   *)
VerifiesUnnamed ==
  HasCertificate(endpoint) => endpoint.trusted /\ clock = "current"

Verifies ==
  HasCertificate(endpoint) =>
    endpoint.trusted /\ endpoint.named /\ clock = "current"

(* SSL_connect.  Nothing limits how long it waits for the service, and a   *)
(* stop request does not interrupt it.                                     *)
Handshake ==
  /\ auditPc = "handshake"
  /\ endpoint.peer = "tls"
  /\ Verifies
  /\ result' = [result EXCEPT !.tlsEstablished = TRUE]
  /\ Take({"certificate"} \cap {o \in Objects : HasCertificate(endpoint)})
  /\ auditPc' = "certificate"
  /\ UNCHANGED <<endpoint, clock, verifyResult>>

(* Fault: the BIO is freed although the SSL owns it.                       *)
HandshakeFailsFreesBio ==
  /\ auditPc = "handshake"
  /\ endpoint.peer # "silent"
  /\ verifyResult' \in {"ok"} \cup {v \in {"error"} : endpoint.peer = "tls" /\ ~Verifies}
  /\ Find({"SLP-TLS-HANDSHAKE"})
  /\ references' = [o \in Objects |->
       references[o] - (IF o \in {"context", "bio"} THEN 2 ELSE 0)
                     - (IF o = "ssl" THEN 1 ELSE 0)]
  /\ auditPc' = "done"
  /\ UNCHANGED <<endpoint, clock>>

(* The handshake may fail for any service that answers: it closes the      *)
(* connection or agrees to nothing on offer; or its certificate does not   *)
(* verify, which the session remembers.  SSL_free, then SSL_CTX_free.      *)
HandshakeFails ==
  /\ auditPc = "handshake"
  /\ endpoint.peer # "silent"
  /\ verifyResult' \in {"ok"} \cup {v \in {"error"} : endpoint.peer = "tls" /\ ~Verifies}
  /\ Find({"SLP-TLS-HANDSHAKE"})
  /\ FreeSession
  /\ auditPc' = "done"
  /\ UNCHANGED <<endpoint, clock>>

certificateIsExpired   == clock = "late"
certificateTimeExpired == clock # "current"

(* SSL_get_peer_certificate gives a reference of the audit's own; then     *)
(* certificateIsExpired reads the clock.                                   *)
NoCertificate ==
  /\ auditPc = "certificate"
  /\ ~HasCertificate(endpoint)
  /\ Find({"SLP-TLS-NOCERT"})
  /\ auditPc' = "assess"
  /\ UNCHANGED <<endpoint, clock, references, verifyResult>>

ReadExpiry ==
  /\ auditPc = "certificate"
  /\ HasCertificate(endpoint)
  /\ Take({"certificate"})
  /\ result' = [result EXCEPT !.expired = certificateIsExpired]
  /\ auditPc' = "validity"
  /\ UNCHANGED <<endpoint, clock, verifyResult>>

(* certificateTimeExpired reads the clock again, certificateIsSelfSigned   *)
(* compares the two names, and the audit's reference is dropped.           *)
ReadValidity ==
  /\ auditPc = "validity"
  /\ result' = [result EXCEPT
       !.valid = ~certificateTimeExpired,
       !.selfSigned = endpoint.selfSigned,
       !.findings = @ \cup {f \in {"SLP-SSL-EXPIRED"} : result.expired}
                      \cup {f \in {"SLP-SSL-SELFSIGNED"} : endpoint.selfSigned}]
  /\ Drop({"certificate"})
  /\ auditPc' = "assess"
  /\ UNCHANGED <<endpoint, clock, verifyResult>>

SuiteFindings(suite) ==
  {f \in {"SLP-WEAK-TLS-VERSION"} : suite.version \in {"TLSv1", "TLSv1.1"}} \cup
  {f \in {"SLP-TLS12"} : suite.version = "TLSv1.2"} \cup
  {f \in {"SLP-WEAK-CIPHER"} : suite.cipher = "weak"} \cup
  {f \in {"SLP-TLS13"} : suite.version = "TLSv1.3"}

(* The findings about the version, the cipher and the verification.        *)
Assess ==
  /\ auditPc = "assess"
  /\ Find(SuiteFindings(endpoint.suite) \cup {f \in {"SLP-CERT-VERIFY"} : verifyResult # "ok"})
  /\ auditPc' = "shutdown"
  /\ UNCHANGED <<endpoint, clock, references, verifyResult>>

(* SSL_shutdown writes a close_notify; SSL_free, SSL_CTX_free.             *)
Shutdown ==
  /\ auditPc = "shutdown"
  /\ FreeSession
  /\ auditPc' = "done"
  /\ UNCHANGED <<endpoint, clock, verifyResult, result>>

(* The service has closed and reset the connection by then: the write      *)
(* raises SIGPIPE, which nobody handles and which ends the process.        *)
BrokenPipe ==
  /\ auditPc = "shutdown"
  /\ auditPc' = "killed"
  /\ UNCHANGED <<endpoint, clock, references, verifyResult, result>>

AuditStep ==
  \/ NewContext \/ NoContext \/ NewBio \/ NoBio \/ Connect \/ ConnectFails
  \/ NewSession \/ NoSession \/ Handshake \/ HandshakeFails \/ NoCertificate
  \/ ReadExpiry \/ ReadValidity \/ Assess \/ Shutdown \/ BrokenPipe

AuditNext == StartAudit \/ TimePasses \/ AuditStep
AuditSpec == AuditInit /\ [][AuditNext]_auditVars
-----------------------------------------------------------------------------
(* What handleSSLAudit shows of a finished audit.                          *)
Reported == auditPc = "done" /\ result.tlsEstablished

(* The findings it prints: those of an audit that did not even connect are *)
(* not looked at.                                                          *)
Shown == IF result.connected THEN result.findings ELSE {}

SeverityOf(f) ==
  IF f \in {"SLP-TLS12", "SLP-TLS13", "SLP-SSL-NOCONNECT"} THEN "INFO"
  ELSE IF f \in {"SLP-TLS-HANDSHAKE", "SLP-SSL-SELFSIGNED"} THEN "MEDIUM"
  ELSE "HIGH"

(* The risk level is the worst severity of them.                           *)
AuditRiskLevel ==
  LET severities == {SeverityOf(f) : f \in Shown}
  IN  IF "HIGH" \in severities THEN "HIGH"
      ELSE IF "MEDIUM" \in severities THEN "MEDIUM" ELSE "INFORMATIONAL"
-----------------------------------------------------------------------------
AuditTypeOK ==
  /\ auditPc \in {"context", "bio", "connect", "session", "handshake",
                  "certificate", "validity", "assess", "shutdown", "done",
                  "killed"}
  /\ endpoint \in Endpoint
  /\ clock \in {"early", "current", "late"}
  /\ references \in [Objects -> Nat]
  /\ verifyResult \in {"ok", "error"}
  /\ result \in [connected : BOOLEAN, tlsEstablished : BOOLEAN,
                 expired : BOOLEAN, valid : BOOLEAN, selfSigned : BOOLEAN,
                 findings : SUBSET Findings]

(* Every way out of audit() releases exactly what was taken: nothing is    *)
(* held when it has returned, nothing is released twice, and the context,  *)
(* the connection and the session are alive for as long as they are used.  *)
AuditObjectsReleased ==
  /\ \A o \in Objects : references[o] >= 0
  /\ auditPc = "done" => \A o \in Objects : references[o] = 0
  /\ auditPc \notin {"context", "done", "killed"} => references["context"] > 0
  /\ auditPc \in {"connect", "session", "handshake", "shutdown"} => references["bio"] > 0
  /\ auditPc \in {"handshake", "certificate", "assess", "shutdown"} => references["ssl"] > 0
  /\ auditPc = "validity" => references["certificate"] > 0

(* A report that names no risk is about a service whose certificate is     *)
(* there, trusted and for the name asked, over a modern version and        *)
(* cipher; and no report calls one certificate expired and valid, although *)
(* the clock is read twice.                                                *)
AuditReportHolds ==
  Reported =>
    /\ AuditRiskLevel = "INFORMATIONAL" =>
         /\ HasCertificate(endpoint) /\ endpoint.trusted /\ endpoint.named
         /\ endpoint.suite.version \in {"TLSv1.2", "TLSv1.3"}
         /\ endpoint.suite.cipher = "modern"
    /\ ~(result.expired /\ result.valid)

(* "Verification is enabled so that SlipNet can identify certificate trust *)
(* problems": an audit whose session found the certificate wanting says so.*)
TrustProblemsIdentified ==
  auditPc = "done" /\ verifyResult = "error" =>
    result.findings \cap {"SLP-CERT-VERIFY", "SLP-SSL-SELFSIGNED", "SLP-SSL-EXPIRED"} # {}
=============================================================================
