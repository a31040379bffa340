--------------------------- MODULE TerminalProofs ---------------------------
(***************************************************************************)
(* Proofs about the terminal and the TLS audit, for every set of typed     *)
(* lines and of suites and every number of waits: an audit releases what   *)
(* it took and reports what holds, alone and as one operation of a session *)
(* of many, and a stop request acts only where it was meant.               *)
(*                                                                         *)
(* Of the audit, neither property is inductive.  That a count reaches zero *)
(* at the end needs the exact counts at every place before it (Counted);   *)
(* that the report is right needs what the handshake has established       *)
(* (Verified), what the finished parts have found (Found) and that the     *)
(* clock never goes back (Dated).                                          *)
(*                                                                         *)
(* Of the session, the stop flag is one variable for the whole process.    *)
(* What the user meant is in the two history variables; the invariant      *)
(* relates them to the flag at every place of the loop (Meant), for which  *)
(* it must know that an operation is under way exactly behind the dispatch *)
(* (Placed).                                                               *)
(*                                                                         *)
(* Of a typed line, what the handlers make of it is compared with what the *)
(* usage lines say, command by command (Right), for lines of any words. No *)
(* invariant carries it but that a line is a line and that nothing is left *)
(* of the operation before it (Typed); the work is that a number or a      *)
(* range that stands alone is read back as typed.                          *)
(*                                                                         *)
(* Of the answers, subnet|:calc is compared with the block of addresses    *)
(* its word stands for, bit after bit and dot after dot (WordRight), and   *)
(* a lookup with what it was told (LookupsBacked).                         *)
(***************************************************************************)
EXTENDS Terminal, SequenceTheorems, FiniteSetTheorems, WellFoundedInduction, TLAPS

(* The loops, of which Turns also stands for any.                          *)
Turns == INSTANCE VectorLoopProofs WITH Step <- CleanByte
Places == INSTANCE VectorLoopProofs WITH Step <- Spell
Answers == INSTANCE VectorLoopProofs WITH Step <- AddAddress
Doublings == INSTANCE VectorLoopProofs WITH Step <- Double
Takings == INSTANCE VectorLoopProofs WITH Step <- TakeBit
Readings == INSTANCE VectorLoopProofs WITH Step <- ShiftIn
Cuts == INSTANCE VectorLoopProofs WITH Step <- Cut
Dots == INSTANCE VectorLoopProofs WITH Step <- Dot

-----------------------------------------------------------------------------
(* The audit.                                                              *)

(* The places behind the handshake.                                        *)
Established == {"certificate", "validity", "assess", "shutdown", "killed"}

(* The number of references held at each place.                            *)
Counted ==
  /\ references["context"] =
       IF auditPc \in {"context", "done"} THEN 0
       ELSE IF auditPc \in {"bio", "connect", "session"} THEN 1 ELSE 2
  /\ references["bio"] = IF auditPc \in {"context", "bio", "done"} THEN 0 ELSE 1
  /\ references["ssl"] =
       IF auditPc \in {"context", "bio", "connect", "session", "done"} THEN 0 ELSE 1
  /\ references["certificate"] =
       IF auditPc \notin Established \/ ~HasCertificate(endpoint) THEN 0
       ELSE IF auditPc = "validity" THEN 2 ELSE 1

(* What the handshake has established.                                     *)
Verified ==
  /\ auditPc \in Established => result.tlsEstablished
  /\ auditPc \in {"session", "handshake"} => result.connected
  /\ auditPc = "validity" => HasCertificate(endpoint)
  /\ result.tlsEstablished =>
       /\ result.connected
       /\ auditPc \in Established \cup {"done"}
       /\ HasCertificate(endpoint) => endpoint.trusted /\ endpoint.named

(* What has been found once a part of the assessment is behind the audit.  *)
Found ==
  result.tlsEstablished =>
    /\ auditPc \notin {"certificate", "validity"} /\ ~HasCertificate(endpoint) =>
         "SLP-TLS-NOCERT" \in result.findings
    /\ auditPc \in {"shutdown", "killed", "done"} =>
         SuiteFindings(endpoint.suite) \subseteq result.findings

(* A certificate once expired stays so, and is called valid only after the *)
(* second look at the clock.                                               *)
Dated ==
  /\ result.expired => clock = "late" /\ ~result.valid
  /\ auditPc \notin {"assess", "shutdown", "killed", "done"} => ~result.valid

AuditInv == AuditTypeOK /\ Counted /\ Verified /\ Found /\ Dated

-----------------------------------------------------------------------------
(* There is a service to begin with.                                       *)
LEMMA NoEndpointIsEndpoint == NoEndpoint \in Endpoint
<1>1. PICK s \in Suites : TRUE
  BY SuitesAssumption
<1>2. [peer |-> "unreachable", suite |-> s, trusted |-> FALSE, named |-> FALSE,
       selfSigned |-> FALSE] \in {e \in Endpoint : e.peer = "unreachable"}
  BY <1>1 DEF Endpoint, Peers
<1> QED
  BY <1>2 DEF NoEndpoint

LEMMA AuditInitInv == AuditInit => AuditInv
<1> SUFFICES ASSUME AuditInit PROVE AuditInv
  OBVIOUS
<1>1. EmptyResult \in [connected : BOOLEAN, tlsEstablished : BOOLEAN,
                       expired : BOOLEAN, valid : BOOLEAN,
                       selfSigned : BOOLEAN, findings : SUBSET Findings]
  BY DEF EmptyResult
<1>2. AuditTypeOK
  BY <1>1, NoEndpointIsEndpoint DEF AuditTypeOK, AuditInit
<1>3. Counted
  BY DEF Counted, AuditInit, Objects, Established
<1>4. Verified /\ Found /\ Dated
  BY DEF Verified, Found, Dated, AuditInit, EmptyResult, Established
<1> QED
  BY <1>2, <1>3, <1>4 DEF AuditInv

(* The findings of the assessment are findings.                            *)
LEMMA SuiteFindingsAreFindings ==
  ASSUME NEW suite PROVE SuiteFindings(suite) \subseteq Findings
  BY DEF SuiteFindings, Findings

(* Every step of an audit keeps the invariant.                             *)
LEMMA AuditStepInv == AuditInv /\ (AuditStep \/ TimePasses) => AuditInv'
<1> SUFFICES ASSUME AuditInv, AuditStep \/ TimePasses PROVE AuditInv'
  OBVIOUS
<1> USE DEF AuditInv
<1>1. CASE NewContext
  <2>1. AuditTypeOK'
    BY <1>1 DEF NewContext, Take, AuditTypeOK, Objects, Findings, Counted, Established
  <2>2. Counted'
    BY <1>1 DEF NewContext, Take, Counted, AuditTypeOK, Objects, Established, HasCertificate
  <2>3. (Verified /\ Found /\ Dated)'
    BY <1>1 DEF NewContext, Take, Verified, Found, Dated, AuditTypeOK, Established, HasCertificate
  <2> QED
    BY <2>1, <2>2, <2>3
<1>2. CASE NoContext
  <2>1. AuditTypeOK'
    BY <1>2 DEF NoContext, Find, AuditTypeOK, Objects, Findings, Counted, Established
  <2>2. Counted'
    BY <1>2 DEF NoContext, Find, Counted, AuditTypeOK, Objects, Established, HasCertificate
  <2>3. (Verified /\ Found /\ Dated)'
    BY <1>2 DEF NoContext, Find, Verified, Found, Dated, AuditTypeOK, Established, HasCertificate
  <2> QED
    BY <2>1, <2>2, <2>3
<1>3. CASE NewBio
  <2>1. AuditTypeOK'
    BY <1>3 DEF NewBio, Take, AuditTypeOK, Objects, Findings, Counted, Established
  <2>2. Counted'
    BY <1>3 DEF NewBio, Take, Counted, AuditTypeOK, Objects, Established, HasCertificate
  <2>3. (Verified /\ Found /\ Dated)'
    BY <1>3 DEF NewBio, Take, Verified, Found, Dated, AuditTypeOK, Established, HasCertificate
  <2> QED
    BY <2>1, <2>2, <2>3
<1>4. CASE NoBio
  <2>1. AuditTypeOK'
    BY <1>4 DEF NoBio, Drop, AuditTypeOK, Objects, Findings, Counted, Established
  <2>2. Counted'
    BY <1>4 DEF NoBio, Drop, Counted, AuditTypeOK, Objects, Established, HasCertificate
  <2>3. (Verified /\ Found /\ Dated)'
    BY <1>4 DEF NoBio, Drop, Verified, Found, Dated, AuditTypeOK, Established, HasCertificate
  <2> QED
    BY <2>1, <2>2, <2>3
<1>5. CASE Connect
  <2>1. AuditTypeOK'
    BY <1>5 DEF Connect, AuditTypeOK, Objects, Findings, Counted, Established
  <2>2. Counted'
    BY <1>5 DEF Connect, Counted, AuditTypeOK, Objects, Established, HasCertificate
  <2>3. (Verified /\ Found /\ Dated)'
    BY <1>5 DEF Connect, Verified, Found, Dated, AuditTypeOK, Established, HasCertificate
  <2> QED
    BY <2>1, <2>2, <2>3
<1>6. CASE ConnectFails
  <2>1. /\ references'["context"] = references["context"] - 1
        /\ references'["bio"] = references["bio"] - 1
        /\ references'["ssl"] = references["ssl"]
        /\ references'["certificate"] = references["certificate"]
        /\ references' = [o \in Objects |-> references'[o]]
    BY <1>6 DEF ConnectFails, Drop, Objects, Counted, Established, AuditTypeOK, HasCertificate
  <2>2. result' \in [connected : BOOLEAN, tlsEstablished : BOOLEAN, expired : BOOLEAN,
                    valid : BOOLEAN, selfSigned : BOOLEAN, findings : SUBSET Findings]
    BY <1>6, Zenon DEF ConnectFails, Find, Findings, AuditTypeOK
  <2>4. references' \in [Objects -> Nat]
    BY <1>6, <2>1 DEF ConnectFails, Objects, Counted, Established
  <2>3. AuditTypeOK'
    BY <1>6, <2>2, <2>4 DEF ConnectFails, AuditTypeOK
  <2>8. Counted'
    BY <1>6, <2>1 DEF ConnectFails, Counted, AuditTypeOK, Established, HasCertificate
  <2>9. (Verified /\ Found /\ Dated)'
    BY <1>6 DEF ConnectFails, Find, Verified, Found, Dated, AuditTypeOK, Established, HasCertificate
  <2> QED
    BY <2>3, <2>8, <2>9
<1>7. CASE NewSession
  <2>1. AuditTypeOK'
    BY <1>7 DEF NewSession, Take, AuditTypeOK, Objects, Findings, Counted, Established
  <2>2. Counted'
    BY <1>7 DEF NewSession, Take, Counted, AuditTypeOK, Objects, Established, HasCertificate
  <2>3. (Verified /\ Found /\ Dated)'
    BY <1>7 DEF NewSession, Take, Verified, Found, Dated, AuditTypeOK, Established, HasCertificate
  <2> QED
    BY <2>1, <2>2, <2>3
<1>8. CASE NoSession
  <2>1. AuditTypeOK'
    BY <1>8 DEF NoSession, Drop, AuditTypeOK, Objects, Findings, Counted, Established
  <2>2. Counted'
    BY <1>8 DEF NoSession, Drop, Counted, AuditTypeOK, Objects, Established, HasCertificate
  <2>3. (Verified /\ Found /\ Dated)'
    BY <1>8 DEF NoSession, Drop, Verified, Found, Dated, AuditTypeOK, Established, HasCertificate
  <2> QED
    BY <2>1, <2>2, <2>3
<1>9. CASE Handshake
  <2>1. /\ references'["context"] = references["context"]
        /\ references'["bio"] = references["bio"]
        /\ references'["ssl"] = references["ssl"]
        /\ references'["certificate"] = IF HasCertificate(endpoint) THEN 1 ELSE 0
        /\ references' = [o \in Objects |-> references'[o]]
    BY <1>9 DEF Handshake, Take, Objects, Counted, Established, AuditTypeOK, HasCertificate
  <2>2. result' \in [connected : BOOLEAN, tlsEstablished : BOOLEAN, expired : BOOLEAN,
                    valid : BOOLEAN, selfSigned : BOOLEAN, findings : SUBSET Findings]
    BY <1>9, Zenon DEF Handshake, AuditTypeOK
  <2>4. references' \in [Objects -> Nat]
    BY <1>9, <2>1 DEF Handshake, Objects, Counted, Established
  <2>3. AuditTypeOK'
    BY <1>9, <2>2, <2>4 DEF Handshake, AuditTypeOK
  <2>8. Counted'
    BY <1>9, <2>1 DEF Handshake, Counted, AuditTypeOK, Established, HasCertificate
  <2>9. (Verified /\ Found /\ Dated)'
    BY <1>9 DEF Handshake, Verifies, Verified, Found, Dated, AuditTypeOK, Established, HasCertificate
  <2> QED
    BY <2>3, <2>8, <2>9
<1>10. CASE HandshakeFails
  <2>1. /\ references'["context"] = references["context"] - 2
        /\ references'["bio"] = references["bio"] - 1
        /\ references'["ssl"] = references["ssl"] - 1
        /\ references'["certificate"] = 0
        /\ references' = [o \in Objects |-> references'[o]]
    BY <1>10 DEF HandshakeFails, FreeSession, Session, Objects, Counted, Established, AuditTypeOK, HasCertificate
  <2>2. result' \in [connected : BOOLEAN, tlsEstablished : BOOLEAN, expired : BOOLEAN,
                    valid : BOOLEAN, selfSigned : BOOLEAN, findings : SUBSET Findings]
    BY <1>10, Zenon DEF HandshakeFails, Find, Findings, AuditTypeOK
  <2>4. references' \in [Objects -> Nat]
    BY <1>10, <2>1 DEF HandshakeFails, Objects, Counted, Established
  <2>3. AuditTypeOK'
    BY <1>10, <2>2, <2>4 DEF HandshakeFails, AuditTypeOK
  <2>8. Counted'
    BY <1>10, <2>1 DEF HandshakeFails, Counted, AuditTypeOK, Established, HasCertificate
  <2>9. (Verified /\ Found /\ Dated)'
    BY <1>10 DEF HandshakeFails, Find, Verified, Found, Dated, AuditTypeOK, Established, HasCertificate
  <2> QED
    BY <2>3, <2>8, <2>9
<1>11. CASE NoCertificate
  <2>1. AuditTypeOK'
    BY <1>11 DEF NoCertificate, Find, AuditTypeOK, Objects, Findings, Counted, Established
  <2>2. Counted'
    BY <1>11 DEF NoCertificate, Find, Counted, AuditTypeOK, Objects, Established, HasCertificate
  <2>3. (Verified /\ Found /\ Dated)'
    BY <1>11 DEF NoCertificate, Find, Verified, Found, Dated, AuditTypeOK, Established, HasCertificate
  <2> QED
    BY <2>1, <2>2, <2>3
<1>12. CASE ReadExpiry
  <2>1. /\ references'["context"] = references["context"]
        /\ references'["bio"] = references["bio"]
        /\ references'["ssl"] = references["ssl"]
        /\ references'["certificate"] = references["certificate"] + 1
        /\ references' = [o \in Objects |-> references'[o]]
    BY <1>12 DEF ReadExpiry, Take, Objects, Counted, Established, AuditTypeOK, HasCertificate
  <2>2. result' \in [connected : BOOLEAN, tlsEstablished : BOOLEAN, expired : BOOLEAN,
                    valid : BOOLEAN, selfSigned : BOOLEAN, findings : SUBSET Findings]
    BY <1>12, Zenon DEF ReadExpiry, certificateIsExpired, AuditTypeOK
  <2>4. references' \in [Objects -> Nat]
    BY <1>12, <2>1 DEF ReadExpiry, Objects, Counted, Established
  <2>3. AuditTypeOK'
    BY <1>12, <2>2, <2>4 DEF ReadExpiry, AuditTypeOK
  <2>8. Counted'
    BY <1>12, <2>1 DEF ReadExpiry, Counted, AuditTypeOK, Established, HasCertificate
  <2>9. (Verified /\ Found /\ Dated)'
    BY <1>12 DEF ReadExpiry, certificateIsExpired, Verified, Found, Dated, AuditTypeOK, Established, HasCertificate
  <2> QED
    BY <2>3, <2>8, <2>9
<1>13. CASE ReadValidity
  <2>1. /\ references'["context"] = references["context"]
        /\ references'["bio"] = references["bio"]
        /\ references'["ssl"] = references["ssl"]
        /\ references'["certificate"] = references["certificate"] - 1
        /\ references' = [o \in Objects |-> references'[o]]
    BY <1>13 DEF ReadValidity, Drop, Objects, Counted, Established, AuditTypeOK, HasCertificate
  <2>2. result' \in [connected : BOOLEAN, tlsEstablished : BOOLEAN, expired : BOOLEAN,
                    valid : BOOLEAN, selfSigned : BOOLEAN, findings : SUBSET Findings]
    BY <1>13, Zenon DEF ReadValidity, certificateTimeExpired, Findings, Endpoint, AuditTypeOK
  <2>4. references' \in [Objects -> Nat]
    BY <1>13, <2>1 DEF ReadValidity, Objects, Counted, Verified, Established
  <2>3. AuditTypeOK'
    BY <1>13, <2>2, <2>4 DEF ReadValidity, AuditTypeOK
  <2>8. Counted'
    BY <1>13, <2>1 DEF ReadValidity, Counted, Verified, AuditTypeOK, Established, HasCertificate
  <2>9. (Verified /\ Found /\ Dated)'
    BY <1>13 DEF ReadValidity, certificateTimeExpired, Verified, Found, Dated, AuditTypeOK, Established, HasCertificate
  <2> QED
    BY <2>3, <2>8, <2>9
<1>14. CASE Assess
  <2>1. AuditTypeOK'
    BY SuiteFindingsAreFindings, <1>14 DEF Assess, Find, AuditTypeOK, Objects, Findings, Counted, Established
  <2>2. Counted'
    BY <1>14 DEF Assess, Find, Counted, AuditTypeOK, Objects, Established, HasCertificate
  <2>3. (Verified /\ Found /\ Dated)'
    BY <1>14 DEF Assess, Find, Verified, Found, Dated, AuditTypeOK, Established, HasCertificate
  <2> QED
    BY <2>1, <2>2, <2>3
<1>15. CASE Shutdown
  <2>1. /\ references'["context"] = references["context"] - 2
        /\ references'["bio"] = references["bio"] - 1
        /\ references'["ssl"] = references["ssl"] - 1
        /\ references'["certificate"] = 0
        /\ references' = [o \in Objects |-> references'[o]]
    <3>1. references["certificate"] \in {0, 1}
      BY <1>15 DEF Shutdown, Counted, Established
    <3>2. "certificate" \in Session <=> references["certificate"] = 1
      BY <3>1 DEF Session
    <3> QED
      BY <1>15, <3>1, <3>2 DEF Shutdown, FreeSession, Session, Objects, AuditTypeOK
  <2>2. result' \in [connected : BOOLEAN, tlsEstablished : BOOLEAN, expired : BOOLEAN,
                    valid : BOOLEAN, selfSigned : BOOLEAN, findings : SUBSET Findings]
    BY <1>15, Zenon DEF Shutdown, AuditTypeOK
  <2>4. references' \in [Objects -> Nat]
    BY <1>15, <2>1 DEF Shutdown, Objects, Counted, Established
  <2>3. AuditTypeOK'
    BY <1>15, <2>2, <2>4 DEF Shutdown, AuditTypeOK
  <2>8. Counted'
    BY <1>15, <2>1 DEF Shutdown, Counted, AuditTypeOK, Established, HasCertificate
  <2>9. (Verified /\ Found /\ Dated)'
    BY <1>15 DEF Shutdown, Verified, Found, Dated, AuditTypeOK, Established, HasCertificate
  <2> QED
    BY <2>3, <2>8, <2>9
<1>16. CASE BrokenPipe
  <2>1. AuditTypeOK'
    BY <1>16 DEF BrokenPipe, AuditTypeOK, Objects, Findings, Counted, Established
  <2>2. Counted'
    BY <1>16 DEF BrokenPipe, Counted, AuditTypeOK, Objects, Established, HasCertificate
  <2>3. (Verified /\ Found /\ Dated)'
    BY <1>16 DEF BrokenPipe, Verified, Found, Dated, AuditTypeOK, Established, HasCertificate
  <2> QED
    BY <2>1, <2>2, <2>3
<1>17. CASE TimePasses
  <2>1. AuditTypeOK'
    BY <1>17 DEF TimePasses, AuditTypeOK, Objects, Findings, Counted, Established
  <2>2. Counted'
    BY <1>17 DEF TimePasses, Counted, AuditTypeOK, Objects, Established, HasCertificate
  <2>3. (Verified /\ Found /\ Dated)'
    BY <1>17 DEF TimePasses, Verified, Found, Dated, AuditTypeOK, Established, HasCertificate
  <2> QED
    BY <2>1, <2>2, <2>3
<1> QED
  BY <1>1, <1>2, <1>3, <1>4, <1>5, <1>6, <1>7, <1>8, <1>9, <1>10, <1>11,
     <1>12, <1>13, <1>14, <1>15, <1>16, <1>17 DEF AuditStep

(* A new audit begins with nothing held and an empty result.               *)
LEMMA StartAuditInv == AuditInv /\ StartAudit => AuditInv'
<1> SUFFICES ASSUME AuditInv, StartAudit PROVE AuditInv'
  OBVIOUS
<1> USE DEF AuditInv
<1>1. result' \in [connected : BOOLEAN, tlsEstablished : BOOLEAN, expired : BOOLEAN,
                  valid : BOOLEAN, selfSigned : BOOLEAN, findings : SUBSET Findings]
  BY DEF StartAudit, EmptyResult
<1>2. AuditTypeOK'
  BY <1>1 DEF StartAudit, AuditTypeOK
<1>3. Counted'
  BY DEF StartAudit, Counted, Established
<1>4. (Verified /\ Found /\ Dated)'
  BY DEF StartAudit, EmptyResult, Verified, Found, Dated, Established
<1> QED
  BY <1>2, <1>3, <1>4

-----------------------------------------------------------------------------
(* The invariant says what the properties ask for.                         *)
LEMMA InvReleased == AuditInv => AuditObjectsReleased
<1> SUFFICES ASSUME AuditInv PROVE AuditObjectsReleased
  OBVIOUS
<1>1. \A o \in Objects : references[o] >= 0
  BY DEF AuditInv, AuditTypeOK
<1> QED
  BY <1>1 DEF AuditInv, Counted, Verified, AuditObjectsReleased, Objects, Established

LEMMA InvReportHolds == AuditInv => AuditReportHolds
<1> SUFFICES ASSUME AuditInv, Reported PROVE
       /\ AuditRiskLevel = "INFORMATIONAL" =>
            /\ HasCertificate(endpoint) /\ endpoint.trusted /\ endpoint.named
            /\ endpoint.suite.version \in {"TLSv1.2", "TLSv1.3"}
            /\ endpoint.suite.cipher = "modern"
       /\ ~(result.expired /\ result.valid)
  BY DEF AuditReportHolds
<1>1. ~(result.expired /\ result.valid)
  BY DEF AuditInv, Dated
<1>2. Shown = result.findings
  BY DEF AuditInv, Verified, Reported, Shown
<1>3. ASSUME AuditRiskLevel = "INFORMATIONAL"
      PROVE  /\ HasCertificate(endpoint) /\ endpoint.trusted /\ endpoint.named
             /\ endpoint.suite.version \in {"TLSv1.2", "TLSv1.3"}
             /\ endpoint.suite.cipher = "modern"
  <2>1. \A f \in result.findings : SeverityOf(f) # "HIGH"
    BY <1>2, <1>3 DEF AuditRiskLevel
  <2>2. /\ SeverityOf("SLP-TLS-NOCERT") = "HIGH"
        /\ SeverityOf("SLP-WEAK-TLS-VERSION") = "HIGH"
        /\ SeverityOf("SLP-WEAK-CIPHER") = "HIGH"
    BY DEF SeverityOf
  <2>3. HasCertificate(endpoint)
    BY <2>1, <2>2 DEF AuditInv, Found, Reported
  <2>4. endpoint.trusted /\ endpoint.named
    BY <2>3 DEF AuditInv, Verified, Reported
  <2>5. SuiteFindings(endpoint.suite) \subseteq result.findings
    BY DEF AuditInv, Found, Reported
  <2>6. /\ endpoint.suite.version \notin {"TLSv1", "TLSv1.1"}
        /\ endpoint.suite.cipher # "weak"
    BY <2>1, <2>2, <2>5 DEF SuiteFindings
  <2>7. endpoint.suite \in [version : Versions, cipher : Ciphers]
    BY SuitesAssumption DEF AuditInv, AuditTypeOK, Endpoint
  <2> QED
    BY <2>3, <2>4, <2>6, <2>7 DEF HasCertificate, Versions, Ciphers
<1> QED
  BY <1>1, <1>3

LEMMA AuditInvariant == AuditSpec => []AuditInv
<1>1. AuditInv /\ [AuditNext]_auditVars => AuditInv'
  <2>1. AuditInv /\ UNCHANGED auditVars => AuditInv'
    BY DEF AuditInv, auditVars, AuditTypeOK, Counted, Verified, Found, Dated
  <2> QED
    BY <2>1, AuditStepInv, StartAuditInv DEF AuditNext
<1> QED
  BY AuditInitInv, <1>1, PTL DEF AuditSpec

(* Every way out of SSLAuditor::audit (src/security/ssl_auditor.cpp:244)   *)
(* releases exactly the OpenSSL objects it took, whatever the service does *)
(* and whichever call fails.                                               *)
THEOREM AuditReleasesItsObjects == AuditSpec => []AuditObjectsReleased
  BY AuditInvariant, InvReleased, PTL

(* A report without a risk is about a service whose certificate is there,  *)
(* trusted and for the asked name, over a modern version and cipher, for   *)
(* every set of suites the installed OpenSSL may negotiate.                *)
THEOREM AuditReportIsRight == AuditSpec => []AuditReportHolds
  BY AuditInvariant, InvReportHolds, PTL

-----------------------------------------------------------------------------
(* The session.                                                            *)
Running == {"clear", "poll", "wait", "waiting", "audit", "killed", "finish"}

(* An operation, and an audit, is under way exactly at its places.         *)
Placed ==
  /\ op # "none" <=> pc \in Running
  /\ pc = "wait" => waits # 0
  /\ pc \notin {"audit", "killed"} => auditPc = "done"

(* A request found at the prompt was pressed in this round; one found in   *)
(* an operation was pressed after its line was accepted.                   *)
Meant ==
  /\ pc \in {"getline", "accept", "interrupted"} /\ stopRequested => pressedRound
  /\ op # "none" /\ stopRequested => pressedOp
  /\ cut => pc = "finish" /\ pressedOp

SessionInv == TypeOK /\ Placed /\ Meant

LEMMA KindOfIsKind == ASSUME NEW type PROVE KindOf(type) \in Kinds
  BY DEF KindOf, Kinds

LEMMA SessionInit == Init => SessionInv
<1> SUFFICES ASSUME Init PROVE SessionInv
  OBVIOUS
<1>1. 0 \in 0..MaxWaits
  BY TerminalAssumption
<1>2. TypeOK
  BY <1>1 DEF Init, TypeOK
<1>3. Placed /\ Meant
  BY DEF Init, AuditInit, Placed, Meant, Running
<1> QED
  BY <1>2, <1>3 DEF SessionInv

(* Every step of the session keeps the invariant, up to Finish, which      *)
(* prepares the loop head.                                                 *)
LEMMA SessionNext == SessionInv /\ [Next]_vars => SessionInv'
<1> SUFFICES ASSUME SessionInv, [Next]_vars PROVE SessionInv'
  OBVIOUS
<1> USE TerminalAssumption DEF SessionInv, TypeOK, Placed, Meant, Running, Ended, session, flags, auditVars
<1>1. CASE Prompt
  BY <1>1 DEF Prompt
<1>2. CASE EndOfInput
  BY <1>2 DEF EndOfInput
<1>3. CASE Line
  BY <1>3 DEF Line
<1>4. CASE Interrupted
  BY <1>4 DEF Interrupted
<1>5. CASE NoOperation
  BY <1>5 DEF NoOperation
<1>6. CASE Exit
  BY <1>6 DEF Exit
<1>7. CASE Execute
  <2>1. PICK o \in execute(parse(line)) : Begin(o)
    BY <1>7 DEF Execute
  <2>2. op' \in Kinds /\ op' # "none"
    BY <2>1, KindOfIsKind DEF Begin, Kinds
  <2>3. waits' \in 0..MaxWaits
    BY <2>1 DEF Begin
  <2> QED
    BY <1>7, <2>1, <2>2, <2>3 DEF Execute, Begin, StartAudit
<1>8. CASE ClearStop
  BY <1>8 DEF ClearStop
<1>9. CASE Poll
  BY <1>9 DEF Poll
<1>10. CASE Wait
  BY <1>10 DEF Wait
<1>11. CASE WaitEnds
  BY <1>11 DEF WaitEnds
<1>12. CASE Audit
  <2>1. /\ pc' \in {"audit", "finish", "killed"}
        /\ pc' # "audit" /\ pc' # "killed" => auditPc' = "done"
    BY <1>12 DEF Audit
  <2>2. op # "none" /\ op' = op
    BY <1>12 DEF Audit
  <2>3. UNCHANGED <<waits, cut, stopRequested, pressedRound, pressedOp>>
    BY <1>12 DEF Audit
  <2>4. pc = "audit"
    BY <1>12 DEF Audit
  <2>5. TypeOK'
    BY <2>1, <2>2, <2>3
  <2>6. Placed' /\ Meant'
    BY <2>1, <2>2, <2>3, <2>4
  <2> QED
    BY <2>5, <2>6
<1>13. CASE AuditTime
  BY <1>13 DEF AuditTime, TimePasses
<1>14. CASE Finish
  <2>1. 0 \in 0..MaxWaits
    BY TerminalAssumption
  <2>2. TypeOK'
    BY <1>14, <2>1 DEF Finish
  <2> QED
    BY <1>14, <2>2 DEF Finish
<1>15. CASE Signal
  BY <1>15 DEF Signal
<1>16. CASE Terminated \/ UNCHANGED vars
  BY <1>16 DEF Terminated, vars
<1> QED
  BY <1>1, <1>2, <1>3, <1>4, <1>5, <1>6, <1>7, <1>8, <1>9, <1>10, <1>11,
     <1>12, <1>13, <1>14, <1>15, <1>16 DEF Next, Plain

LEMMA SessionInvariant == Spec => []SessionInv
  BY SessionInit, SessionNext, PTL DEF Spec

(* The terminal keeps its state in range.                                  *)
THEOREM TypeCorrect == Spec => []TypeOK
<1>1. SessionInv => TypeOK
  BY DEF SessionInv
<1> QED
  BY <1>1, SessionInvariant, PTL

(* A request ends SlipNet only at the prompt of the round in which it was  *)
(* pressed (src/cli/terminal.cpp:69-83), and cuts short only the operation *)
(* it was pressed in, whichever operations came before.                    *)
THEOREM StopsWhereMeant == Spec => []StopActsWhereMeant
<1>1. SessionInv => StopActsWhereMeant
  BY DEF SessionInv, Meant, StopActsWhereMeant
<1> QED
  BY <1>1, SessionInvariant, PTL

-----------------------------------------------------------------------------
(* The audits of a session keep the invariant of the audit.                *)
LEMMA SessionAudits == Spec => []AuditInv
<1>1. Init => AuditInv
  BY AuditInitInv DEF Init
<1>2. AuditInv /\ SessionInv /\ [Next]_vars => AuditInv'
  <2> SUFFICES ASSUME AuditInv, SessionInv, [Next]_vars PROVE AuditInv'
    OBVIOUS
  <2>1. CASE UNCHANGED auditVars
    BY <2>1 DEF auditVars, AuditInv, AuditTypeOK, Counted, Verified, Found, Dated
  <2>2. CASE Execute
    <3>1. PICK o \in execute(parse(line)) : Begin(o)
      BY <2>2 DEF Execute
    <3>2. StartAudit \/ UNCHANGED auditVars
      BY <3>1 DEF Begin
    <3> QED
      BY <3>2, <2>1, StartAuditInv
  <2>3. CASE Audit \/ AuditTime
    BY <2>3, AuditStepInv DEF Audit, AuditTime
  <2>4. CASE Finish
    <3>1. /\ auditPc = "done" /\ auditPc' = "done"
          /\ references' = references
          /\ endpoint' = NoEndpoint
          /\ clock' = "current"
          /\ verifyResult' = "ok"
          /\ result' = EmptyResult
      BY <2>4 DEF Finish, SessionInv, Placed
    <3>2. result' \in [connected : BOOLEAN, tlsEstablished : BOOLEAN,
                       expired : BOOLEAN, valid : BOOLEAN,
                       selfSigned : BOOLEAN, findings : SUBSET Findings]
      BY <3>1 DEF EmptyResult
    <3>3. AuditTypeOK'
      BY <3>1, <3>2, NoEndpointIsEndpoint DEF AuditInv, AuditTypeOK
    <3>4. Counted'
      BY <3>1 DEF AuditInv, Counted, Established
    <3>5. (Verified /\ Found /\ Dated)'
      BY <3>1 DEF EmptyResult, Verified, Found, Dated, Established
    <3> QED
      BY <3>3, <3>4, <3>5 DEF AuditInv
  <2> QED
    BY <2>1, <2>2, <2>3, <2>4 DEF Next, vars, Plain, Prompt, EndOfInput, Line,
       Interrupted, NoOperation, Exit, ClearStop, Poll, Wait, WaitEnds, Signal,
       Terminated
<1> QED
  BY <1>1, <1>2, SessionInvariant, PTL DEF Spec

(* However many audits a session makes and whatever else it does, each of  *)
(* them releases what it took.                                             *)
THEOREM SessionReleasesItsObjects == Spec => []AuditObjectsReleased
  BY SessionAudits, InvReleased, PTL

(* Every report of an audit in a session is right: no result of an earlier *)
(* audit shows through.                                                    *)
THEOREM SessionReportsAreRight == Spec => []AuditReportHolds
  BY SessionAudits, InvReportHolds, PTL

-----------------------------------------------------------------------------
(* The lines.                                                              *)

(* The limit stands as a name in the proofs.                                *)
LEMMA MaxPortIs == MaxPort \in Nat /\ MaxPort = 65535
BY DEF MaxPort

(* The numbers the handlers want are within the range of an int.           *)
LEMMA LimitsAreInts ==
  /\ \A n \in Ports : n \in Nat /\ n >= 1 /\ n <= MaxPort /\ n <= MaxInt
  /\ \A n \in Seconds : n \in Nat /\ n >= 1 /\ n <= 86400 /\ n <= MaxInt
  /\ \A n \in Intervals : n \in Nat /\ n >= 1 /\ n <= 3600 /\ n <= MaxInt
<1>1. \A n \in Ports : n \in Nat /\ n >= 1 /\ n <= MaxPort
  BY MaxPortIs DEF Ports
<1>2. MaxPort <= MaxInt
  BY MaxIntAssumption, MaxPortIs
<1>3. \A n \in Ports : n <= MaxInt
  BY <1>1, <1>2, MaxIntAssumption, MaxPortIs
<1>4. \A n \in Seconds : n \in Nat /\ n >= 1 /\ n <= 86400 /\ n <= MaxInt
  BY MaxIntAssumption DEF Seconds
<1>5. \A n \in Intervals : n \in Nat /\ n >= 1 /\ n <= 3600 /\ n <= MaxInt
  BY MaxIntAssumption DEF Intervals
<1> QED
  BY <1>1, <1>3, <1>4, <1>5

(* And only those numbers are.                                             *)
LEMMA ArePorts ==
  ASSUME NEW m \in Int, NEW n \in Int, m >= 1, m <= n, n <= MaxPort
  PROVE  m \in Ports /\ n \in Ports
<1>1. MaxPort \in Nat
  BY MaxPortIs
<1> QED
  BY <1>1 DEF Ports

(* A number that stands alone is read as such.                             *)
LEMMA NumberIsRead ==
  ASSUME NEW word \in Words, NEW S, \A n \in S : n \in Nat /\ n <= MaxInt,
         NumberIn(word, S)
  PROVE  /\ stoi(word).ok /\ stoi(word).whole
         /\ stoi(word).value = word[1].value
         /\ word[1].value \in S
<1>1. Len(word) = 1 /\ word[1].is = "digits" /\ word[1].value \in S
  BY DEF NumberIn, IsNumber, IsDigits
<1>2. word # <<>> /\ Head(word) = word[1]
  BY <1>1 DEF Words
<1>3. Head(word) \notin Signs
  BY <1>1, <1>2 DEF Signs, Mark, Piece
<1>4. word[1].value <= MaxInt /\ word[1].value \in Nat
  BY <1>1
<1>5. word[1].value >= -MaxInt - 1
  BY <1>4, MaxIntAssumption
<1>6. IsDigits(Head(word))
  BY <1>1, <1>2 DEF IsDigits
<1>7. stoi(word) = [ok |-> TRUE, value |-> Head(word).value, whole |-> TRUE]
  <2>2. (Len(word) = 1) = TRUE
    BY <1>1
  <2>1. /\ ~(Head(word).value > MaxInt) /\ ~(Head(word).value < -MaxInt - 1)
    BY <1>2, <1>4, <1>5, MaxIntAssumption
  <2> QED
    BY <1>2, <1>3, <1>6, <2>1, <2>2, Zenon DEF stoi
<1> QED
  BY <1>1, <1>2, <1>7

(* What is read is an integer.                                             *)
LEMMA ReadIsInteger ==
  ASSUME NEW word \in Words
  PROVE  stoi(word).ok => stoi(word).value \in Int
<1> DEFINE signed == word # <<>> /\ Head(word) \in Signs
           rest == IF signed THEN Tail(word) ELSE word
<1>1. rest \in Words
  <2>1. word # <<>> => Tail(word) \in Words
    BY HeadTailProperties DEF Words
  <2> QED
    BY <2>1
<1>2. rest # <<>> => Head(rest).value \in Int
  <2>1. rest # <<>> => Head(rest) \in Pieces
    BY <1>1, HeadTailProperties DEF Words
  <2>2. ASSUME NEW p \in Pieces PROVE p.value \in Int
    <3>1. CASE p \in [is : {"name"}, text : STRING, value : {0}, as : {"plain", "upper"}]
      <4>1. p.value \in {0}
        BY <3>1, Zenon
      <4> QED
        BY <4>1
    <3>2. CASE p \in [is : {"mark"}, text : STRING, value : {0}, as : {"plain"}]
      <4>1. p.value \in {0}
        BY <3>2, Zenon
      <4> QED
        BY <4>1
    <3>3. CASE p \in [is : {"digits"}, text : {""}, value : Nat, as : {"plain", "padded"}]
      <4>1. p.value \in Nat
        BY <3>3, Zenon
      <4> QED
        BY <4>1
    <3> QED
      BY <3>1, <3>2, <3>3 DEF Pieces
  <2> QED
    BY <2>1, <2>2
<1> HIDE DEF rest
<1> QED
  BY <1>2 DEF stoi, NoNumber, rest

(* The parts of a word around a mark are words.                            *)
LEMMA PartsAreWords ==
  ASSUME NEW word \in Words, NEW mark, Has(word, mark)
  PROVE  /\ FirstOf(word, mark) \in DOMAIN word
         /\ word[FirstOf(word, mark)] = mark
         /\ Before(word, mark) \in Words
         /\ After(word, mark) \in Words
<1> DEFINE At == {i \in DOMAIN word : word[i] = mark}
<1>1. At \in SUBSET Nat /\ At # {} /\ DOMAIN word = 1..Len(word) /\ Len(word) \in Nat
  BY DEF Has, Words
<1>2. PICK i \in At : \A j \in At : i <= j
  <2> HIDE DEF At
  <2> QED
    BY <1>1, Turns!LeastNatural
<1>3. \A j \in 1..(i - 1) : word[j] # mark
  BY <1>1, <1>2
<1>4. FirstOf(word, mark) \in DOMAIN word /\ word[FirstOf(word, mark)] = mark
  BY <1>1, <1>2, <1>3 DEF FirstOf
<1> DEFINE f == FirstOf(word, mark)
<1> HIDE DEF f
<1>5. f \in 1..Len(word)
  BY <1>1, <1>4 DEF f
<1>6. \A m \in 1..Len(word) + 1, n \in 0..Len(word) : SubSeq(word, m, n) \in Words
  BY <1>1 DEF Words
<1>7. SubSeq(word, 1, f - 1) \in Words /\ SubSeq(word, f + 1, Len(word)) \in Words
  BY <1>1, <1>5, <1>6
<1> QED
  BY <1>4, <1>7 DEF f, Before, After

(* Two numbers with a dash between them are read as such.                  *)
LEMMA RangeIsRead ==
  ASSUME NEW word \in Words, RangeIn(word, Ports)
  PROVE  LET dash == Mark("-")
             from == stoi(Before(word, dash))
             to   == stoi(After(word, dash))
         IN  /\ Has(word, dash) /\ from.ok /\ to.ok
             /\ from.value = word[1].value /\ to.value = word[3].value
             /\ from.value \in Ports /\ to.value \in Ports /\ from.value <= to.value
<1> DEFINE dash == Mark("-")
<1>1. /\ Len(word) = 3 /\ word[2] = dash
      /\ NumberIn(<<word[1]>>, Ports) /\ NumberIn(<<word[3]>>, Ports)
      /\ word[1].value <= word[3].value
  BY DEF RangeIn
<1>2. /\ DOMAIN word = 1..3 /\ word[1] \in Pieces /\ word[3] \in Pieces
      /\ word \in Seq(Pieces)
  <2>1. ASSUME NEW S, NEW w \in Seq(S), Len(w) = 3
        PROVE  DOMAIN w = 1..3 /\ w[1] \in S /\ w[3] \in S
    <3>1. 1 \in 1..3 /\ 3 \in 1..3
      OBVIOUS
    <3> QED
      BY <2>1, <3>1
  <2>2. Len(word) = 3 /\ word \in Seq(Pieces)
    BY <1>1 DEF Words
  <2> QED
    BY <2>1, <2>2, Zenon
<1>3. word[1] # dash /\ word[3] # dash /\ Has(word, dash)
  <2>1. word[1].is = "digits" /\ word[3].is = "digits"
    BY <1>1 DEF NumberIn, IsNumber, IsDigits
  <2>2. Has(word, dash)
    BY <1>1, <1>2 DEF Has
  <2> QED
    BY <2>1, <2>2 DEF Mark, Piece
<1> HIDE DEF dash
<1>4. FirstOf(word, dash) = 2
  <2>1. FirstOf(word, dash) \in 1..3 /\ word[FirstOf(word, dash)] = dash
    BY <1>2, <1>3, PartsAreWords
  <2> QED
    BY <1>3, <2>1
<1>5. Before(word, dash) = <<word[1]>> /\ After(word, dash) = <<word[3]>>
  <2>1. SubSeq(word, 1, 1) = <<word[1]>> /\ SubSeq(word, 3, 3) = <<word[3]>>
    <3>1. \A i \in {1, 3} : /\ SubSeq(word, i, i) \in Seq(Pieces)
                              /\ Len(SubSeq(word, i, i)) = 1
                              /\ SubSeq(word, i, i)[1] = word[i]
      BY <1>1, <1>2, SubSeqProperties
    <3>2. \A s \in Seq(Pieces) : Len(s) = 1 => s = <<s[1]>>
      OBVIOUS
    <3> QED
      BY <3>1, <3>2
  <2> QED
    BY <1>1, <1>4, <2>1 DEF Before, After
<1>6. <<word[1]>> \in Words /\ <<word[3]>> \in Words
  BY <1>2 DEF Words
<1>7. /\ stoi(<<word[1]>>).ok /\ stoi(<<word[1]>>).value = word[1].value
      /\ stoi(<<word[3]>>).ok /\ stoi(<<word[3]>>).value = word[3].value
      /\ word[1].value \in Ports /\ word[3].value \in Ports
  <2>1. \A n \in Ports : n \in Nat /\ n <= MaxInt
    BY LimitsAreInts
  <2>2. <<word[1]>>[1] = word[1] /\ <<word[3]>>[1] = word[3]
    OBVIOUS
  <2>3. /\ stoi(<<word[1]>>).ok /\ stoi(<<word[1]>>).value = word[1].value
        /\ word[1].value \in Ports
    BY <1>1, <1>6, <2>1, <2>2, NumberIsRead
  <2>4. /\ stoi(<<word[3]>>).ok /\ stoi(<<word[3]>>).value = word[3].value
        /\ word[3].value \in Ports
    BY <1>1, <1>6, <2>1, <2>2, NumberIsRead
  <2> QED
    BY <2>3, <2>4
<1> QED
  BY <1>1, <1>3, <1>5, <1>7 DEF dash

(* What the usage lines say of a command and its arguments, as a condition.*)
Forms(type, args, o) ==
  LET n     == Len(args)
      first == n > 0 /\ Target(args[1])
      All   == <<Name("all")>>
  IN  \/ n = 0 /\ type \in Unargued \cup OnEverything /\ o = Operation(type, <<>>, <<>>)
      \/ n = 1 /\ first /\ type \in OnTarget /\ o = Operation(type, args, <<>>)
      \/ n = 1 /\ type = "SUBNET_CALC" /\ o = Operation(type, args, <<>>)
      \/ /\ n = 2 /\ first /\ type = "PORT_SCAN" /\ RangeIn(args[2], Ports)
         /\ o = Operation(type, <<args[1]>>, <<args[2][1].value, args[2][3].value>>)
      \/ /\ n = 2 /\ first /\ type \in {"BANNER_GRAB", "SSL_AUDIT"} /\ NumberIn(args[2], Ports)
         /\ o = Operation(type, <<args[1]>>, <<args[2][1].value>>)
      \/ n = 1 /\ first /\ type = "SSL_AUDIT" /\ o = Operation(type, args, <<443>>)
      \/ /\ n = 1 /\ type = "PACKET_INSPECT" /\ NumberIn(args[1], 1..MaxId)
         /\ o = Operation(type, <<>>, <<args[1][1].value>>)
      \/ n = 1 /\ type = "PACKET_INSPECT" /\ ~IsNumber(args[1]) /\ o = Operation(type, args, <<>>)
      \/ n = 0 /\ type = "NETWORK_MONITOR" /\ o = Operation(type, << <<>> >>, <<1>>)
      \/ n = 1 /\ type = "NETWORK_MONITOR" /\ o = Operation(type, args, <<1>>)
      \/ /\ n = 2 /\ type = "NETWORK_MONITOR" /\ NumberIn(args[2], Intervals)
         /\ o = Operation(type, <<args[1]>>, <<args[2][1].value>>)
      \/ n = 0 /\ type = "PACKET_CAPTURE" /\ o = Operation(type, << <<>>, All>>, <<10>>)
      \/ n = 1 /\ type = "PACKET_CAPTURE" /\ o = Operation(type, <<args[1], All>>, <<10>>)
      \/ /\ n = 2 /\ type = "PACKET_CAPTURE" /\ NumberIn(args[2], Seconds)
         /\ o = Operation(type, <<args[1], All>>, <<args[2][1].value>>)
      \/ /\ n = 3 /\ type = "PACKET_CAPTURE" /\ NumberIn(args[2], Seconds)
         /\ args[3] \in {<<Upper(f)>> : f \in Filters}
         /\ o = Operation(type, <<args[1], <<Name(args[3][1].text)>> >>, <<args[2][1].value>>)

(* An operation is what the command and its arguments stand for.           *)
Right(type, args, o) ==
  /\ o # NotStarted => /\ WithinLimits(o) /\ o.type = type
                       /\ requiresArgument(type) => Len(args) > 0
                       /\ (\E q : Forms(type, args, q)) => Forms(type, args, o)
  /\ o = NotStarted =>
       \/ \A q : ~Forms(type, args, q)
       \/ type \in {"SERVICE_DETECT", "SECURITY_DETECT", "VULN_SCAN", "CRED_CHECK"}
       \/ type \in {"PACKET_CAPTURE", "NETWORK_MONITOR"} /\ Len(args) = 0

(* It is what the usage lines say of the line.                             *)
LEMMA UsageIs ==
  ASSUME NEW l, NEW o
  PROVE  o \in Usage(l) <=> Forms(parse(l).type, parse(l).arguments, o)
<1> DEFINE type == parse(l).type
           args == parse(l).arguments
<1> QED
  BY DEF Usage, When, Forms

(* A line is understood if what begins is what its words stand for.        *)
LEMMA UnderstoodIs ==
  ASSUME NEW l \in Seq(Words), NEW o, Right(parse(l).type, parse(l).arguments, o),
         HelpOnly(l) => o = HelpOnlyOutcome(l)
  PROVE  Understood(l, o)
<1> DEFINE type == parse(l).type
           args == parse(l).arguments
<1>1. Len(args) > 0 => Len(l) > 1
  <2>1. CASE l = <<>>
    BY <2>1 DEF parse
  <2>2. CASE l # <<>>
    BY <2>2 DEF parse
  <2> QED
    BY <2>1, <2>2
<1>2. \A q : q \in Usage(l) <=> Forms(type, args, q)
  BY UsageIs
<1>3. Usage(l) = {} <=> \A q : ~Forms(type, args, q)
  BY <1>2
<1> HIDE DEF args, type
<1>4. StoreDependent(parse(l)) <=>
        type \in {"SERVICE_DETECT", "SECURITY_DETECT", "VULN_SCAN", "CRED_CHECK"}
  BY DEF StoreDependent, type
<1>5. Right(type, args, o) /\ (o # NotStarted => o.type = parse(l).type)
  BY DEF Right, type, args
<1>6. LinkDependent(parse(l)) <=>
        type \in {"PACKET_CAPTURE", "NETWORK_MONITOR"} /\ args = <<>>
  BY DEF LinkDependent, type, args
<1>7. Len(args) = 0 => args = <<>>
  <2>1. args \in Seq(Words)
    BY HeadTailProperties, EmptySeq DEF args, parse
  <2> QED
    BY <2>1, EmptySeq
<1> QED
  BY <1>1, <1>2, <1>3, <1>4, <1>5, <1>6, <1>7 DEF Understood, Right, type

-----------------------------------------------------------------------------
(* The commands that take no argument.                                     *)
LEMMA UnarguedRight ==
  ASSUME NEW type \in Unargued, NEW args \in Seq(Words),
         NEW o \in Start(type, <<>>, <<>>)
  PROVE  Right(type, args, o)
<1>1. o = Operation(type, <<>>, <<>>) /\ o.type = type /\ o.numbers = <<>>
  BY DEF Start, Operation
<1>2. WithinLimits(o)
  <2>1. ToSet(o.numbers) = {}
    BY <1>1 DEF ToSet
  <2> QED
    BY <1>1, <2>1 DEF WithinLimits, Unargued
<1>3. ~requiresArgument(type)
  BY DEF requiresArgument, Unargued
<1>4. \A q : Forms(type, args, q) => q = o
  BY <1>1 DEF Forms, Unargued, OnTarget
<1>5. o # NotStarted
  BY <1>1 DEF NotStarted, Operation, Unargued
<1> QED
  BY <1>1, <1>2, <1>3, <1>4, <1>5 DEF Right

(* An operation without numbers is within every limit.                     *)
LEMMA NoNumbers ==
  ASSUME NEW type, NEW words
  PROVE  type \notin {"BANNER_GRAB", "SSL_AUDIT", "PACKET_CAPTURE", "NETWORK_MONITOR"}
           => WithinLimits(Operation(type, words, <<>>))
<1> DEFINE o == Operation(type, words, <<>>)
<1>1. o.type = type /\ o.numbers = <<>>
  BY DEF Operation
<1>2. ToSet(o.numbers) = {}
  BY <1>1 DEF ToSet
<1>3. IsSorted(o.numbers, <=)
  BY <1>1 DEF IsSorted
<1> HIDE DEF o
<1> QED
  BY <1>1, <1>2, <1>3 DEF WithinLimits, o

(* The commands on one target.                                             *)
OneTarget == {"HOST_FIND", "MAC_RESOLVE", "DNS_RESOLVE", "OS_FINGERPRINT",
              "FIREWALL_PROBE", "SUBNET_CALC"}

(* Each of them begins with its one target, or not at all.                 *)
LEMMA OneTargetRight ==
  ASSUME NEW type \in OneTarget, NEW args \in Seq(Words), NEW o,
         IF Len(args) = 1 /\ (type = "HOST_FIND" => Checkable(args[1]))
         THEN o = Operation(type, args, <<>>) ELSE o = NotStarted
  PROVE  Right(type, args, o)
<1>1. type \notin {"BANNER_GRAB", "SSL_AUDIT", "PACKET_CAPTURE", "NETWORK_MONITOR"}
  BY DEF OneTarget
<1>2. \A q : Forms(type, args, q) =>
        /\ Len(args) = 1 /\ (type = "HOST_FIND" => Checkable(args[1]))
        /\ q = Operation(type, args, <<>>)
  BY DEF OneTarget, Forms, Unargued, OnEverything, Target, Checkable
<1>3. CASE o = Operation(type, args, <<>>) /\ Len(args) = 1
  <2>1. WithinLimits(o) /\ o.type = type /\ o # NotStarted
    BY <1>1, <1>3, NoNumbers DEF Operation, NotStarted, OneTarget
  <2> QED
    BY <1>2, <1>3, <2>1 DEF Right
<1>4. CASE o = NotStarted
  BY <1>2, <1>4 DEF Right, NotStarted, Operation, OneTarget
<1> QED
  BY <1>3, <1>4

(* port|:scan: the common ports or a range.                                *)
LEMMA PortScanRight ==
  ASSUME NEW args \in Seq(Words), NEW o \in handlePortScan(args)
  PROVE  Right("PORT_SCAN", args, o)
<1> DEFINE type == "PORT_SCAN"
           dash == Mark("-")
           from == stoi(Before(args[2], dash))
           to   == stoi(After(args[2], dash))
           accepted == /\ Has(args[2], dash) /\ from.ok /\ to.ok
                       /\ from.value >= 1 /\ to.value <= MaxPort /\ from.value <= to.value
<1>1. \A q : Forms(type, args, q) =>
        \/ Len(args) = 1 /\ q = Operation(type, args, <<>>)
        \/ /\ Len(args) = 2 /\ RangeIn(args[2], Ports)
           /\ q = Operation(type, <<args[1]>>, <<args[2][1].value, args[2][3].value>>)
  BY DEF Forms, Unargued, OnEverything, OnTarget
<1>2. /\ Len(args) = 1 => o = Operation(type, args, <<>>)
      /\ Len(args) > 1 =>
           IF accepted THEN o = Operation(type, <<args[1]>>, <<from.value, to.value>>)
           ELSE o = NotStarted
      /\ Len(args) = 0 => o = NotStarted
  <2>1. args = <<>> <=> Len(args) = 0
    OBVIOUS
  <2> QED
    BY <2>1 DEF handlePortScan, Start, Refused
<1>3. CASE Len(args) = 0
  BY <1>1, <1>2, <1>3 DEF Right
<1>4. CASE Len(args) = 1
  <2>1. o = Operation(type, args, <<>>)
    BY <1>2, <1>4
  <2>2. WithinLimits(o) /\ o.type = type /\ o # NotStarted
    BY <2>1, NoNumbers DEF Operation, NotStarted
  <2> QED
    BY <1>1, <1>4, <2>1, <2>2 DEF Right
<1>5. CASE Len(args) > 1
  <2>1. args[2] \in Words
    BY <1>5
  <2> HIDE DEF from, to
  <2>2. Len(args) = 2 /\ RangeIn(args[2], Ports) =>
          /\ accepted /\ from.value = args[2][1].value /\ to.value = args[2][3].value
    <3>1. SUFFICES ASSUME RangeIn(args[2], Ports)
                   PROVE  /\ accepted
                          /\ from.value = args[2][1].value /\ to.value = args[2][3].value
      OBVIOUS
    <3>2. /\ Has(args[2], dash) /\ from.ok /\ to.ok
          /\ from.value = args[2][1].value /\ to.value = args[2][3].value
          /\ from.value \in Ports /\ to.value \in Ports /\ from.value <= to.value
      BY <2>1, <3>1, RangeIsRead DEF from, to
    <3>3. from.value >= 1 /\ to.value <= MaxPort
      BY <3>2, LimitsAreInts
    <3> QED
      BY <3>2, <3>3
  <2>3. CASE accepted
    <3>1. o = Operation(type, <<args[1]>>, <<from.value, to.value>>)
      BY <1>2, <1>5, <2>3 DEF from, to
    <3>2. from.value \in Int /\ to.value \in Int
      BY <2>1, <2>3, PartsAreWords, ReadIsInteger DEF from, to
    <3>3. from.value \in Ports /\ to.value \in Ports /\ from.value <= to.value
      <4> HIDE DEF accepted
      <4>1. from.value >= 1 /\ to.value <= MaxPort /\ from.value <= to.value
        BY <2>3 DEF accepted
      <4> QED
        BY <3>2, <4>1, ArePorts
    <3>4. o.type = type /\ o.numbers = <<from.value, to.value>> /\ o # NotStarted
      BY <3>1 DEF Operation, NotStarted
    <3>5. ToSet(o.numbers) \subseteq Ports
      BY <3>3, <3>4 DEF ToSet
    <3>6. IsSorted(o.numbers, <=)
      BY <3>3, <3>4 DEF IsSorted
    <3>7. WithinLimits(o)
      BY <3>4, <3>5, <3>6 DEF WithinLimits
    <3>8. (\E q : Forms(type, args, q)) => Forms(type, args, o)
      <4>1. ASSUME NEW q, Forms(type, args, q)
            PROVE  q = o
        BY <1>1, <1>5, <2>2, <3>1, <4>1
      <4> QED
        BY <4>1
    <3> QED
      BY <1>5, <3>4, <3>7, <3>8 DEF Right
  <2>4. CASE ~accepted
    <3>1. o = NotStarted
      BY <1>2, <1>5, <2>4 DEF from, to
    <3> QED
      BY <1>1, <1>5, <2>2, <2>4, <3>1 DEF Right
  <2> QED
    BY <2>3, <2>4
<1> QED
  BY <1>3, <1>4, <1>5

(* The commands that need something in the store.                          *)
LEMMA StoreRight ==
  ASSUME NEW type \in {"SERVICE_DETECT", "SECURITY_DETECT", "VULN_SCAN", "CRED_CHECK"},
         NEW args \in Seq(Words), NEW o,
         \/ o = NotStarted
         \/ o = Operation(type, args, <<>>) /\ Len(args) <= 1
            /\ (type = "SERVICE_DETECT" => Len(args) = 1)
         \/ o = Operation(type, <<args[1]>>, <<>>) /\ Len(args) > 0
            /\ type \in {"SERVICE_DETECT", "VULN_SCAN"}
  PROVE  Right(type, args, o)
<1>1. CASE o = NotStarted
  BY <1>1 DEF Right
<1>2. CASE o # NotStarted
  <2>1. WithinLimits(o) /\ o.type = type
    BY <1>2, NoNumbers DEF Operation
  <2>2. requiresArgument(type) => Len(args) > 0
    BY <1>2 DEF requiresArgument
  <2>3. ASSUME NEW q, Forms(type, args, q) PROVE q = o
    <3>1. Len(args) = 1 => args = <<args[1]>>
      OBVIOUS
    <3>2. Len(args) = 0 => args = <<>>
      OBVIOUS
    <3>3. \/ Len(args) = 0 /\ q = Operation(type, <<>>, <<>>)
          \/ Len(args) = 1 /\ q = Operation(type, args, <<>>)
      BY <2>3 DEF Forms
    <3> QED
      BY <1>2, <3>1, <3>2, <3>3
  <2> QED
    BY <1>2, <2>1, <2>2, <2>3 DEF Right
<1> QED
  BY <1>1, <1>2

(* pkt|:capture: interface, seconds and filter.                            *)
LEMMA CaptureRight ==
  ASSUME NEW args \in Seq(Words), NEW o \in handlePacketCapture(args)
  PROVE  Right("PACKET_CAPTURE", args, o)
<1> DEFINE type    == "PACKET_CAPTURE"
           seconds == IF Len(args) >= 2 THEN stoi(args[2])
                      ELSE [ok |-> TRUE, value |-> 10, whole |-> TRUE]
           filter  == IF Len(args) >= 3 THEN args[3] ELSE <<Name("all")>>
           known   == Len(filter) = 1 /\ Head(filter).is = "name" /\ Head(filter).text \in Filters
           through == IF args = <<>> THEN <<>> ELSE args[1]
           started == Operation(type, <<through, <<Name(Head(filter).text)>> >>, <<seconds.value>>)
           taken   == Len(args) <= 3 /\ seconds.ok /\ seconds.value \in Seconds /\ known
<1>1. \/ taken /\ o = started
      \/ ~(taken /\ Len(args) > 0) /\ o = NotStarted
  <2>1. args = <<>> <=> ~(Len(args) > 0)
    OBVIOUS
  <2> QED
    BY <2>1 DEF handlePacketCapture, Start, Refused
<1>2. ASSUME NEW q, Forms(type, args, q)
      PROVE  taken /\ q = started
  <2>0. CASE Len(args) = 0
    <3>1. q = Operation(type, << <<>>, <<Name("all")>> >>, <<10>>)
      BY <1>2, <2>0 DEF Forms, Unargued, OnEverything
    <3>2. args = <<>>
      BY <2>0, EmptySeq
    <3>3. /\ seconds = [ok |-> TRUE, value |-> 10, whole |-> TRUE]
          /\ filter = <<Name("all")>> /\ through = <<>>
      BY <2>0, <3>2
    <3>4. Head(filter).text = "all" /\ known
      BY <3>3 DEF Name, Piece, Filters
    <3>5. seconds.ok /\ seconds.value = 10
      BY <3>3
    <3>6. 10 \in Seconds
      BY DEF Seconds
    <3> HIDE DEF seconds, filter, known, through
    <3> QED
      BY <2>0, <3>1, <3>3, <3>4, <3>5, <3>6
  <2>a. SUFFICES ASSUME Len(args) # 0 PROVE taken /\ q = started
    BY <2>0
  <2>1. \/ Len(args) = 1 /\ q = Operation(type, <<args[1], <<Name("all")>> >>, <<10>>)
        \/ /\ Len(args) = 2 /\ NumberIn(args[2], Seconds)
           /\ q = Operation(type, <<args[1], <<Name("all")>> >>, <<args[2][1].value>>)
        \/ /\ Len(args) = 3 /\ NumberIn(args[2], Seconds)
           /\ args[3] \in {<<Upper(f)>> : f \in Filters}
           /\ q = Operation(type, <<args[1], <<Name(args[3][1].text)>> >>, <<args[2][1].value>>)
    BY <1>2, <2>a DEF Forms, Unargued, OnEverything, OnTarget
  <2>2. Len(args) > 0 /\ Len(args) <= 3 /\ through = args[1]
    <3>0. PICK n \in Nat : n = Len(args)
      OBVIOUS
    <3>3. n = 1 \/ n = 2 \/ n = 3
      BY <2>1, <3>0, Zenon
    <3>4. n > 0 /\ n <= 3
      BY <3>3
    <3>1. Len(args) > 0 /\ Len(args) <= 3
      BY <3>0, <3>4
    <3>2. args # <<>>
      BY <3>1
    <3> QED
      BY <3>1, <3>2
  <2>3. /\ seconds.ok /\ seconds.value \in Seconds
        /\ seconds.value = IF Len(args) = 1 THEN 10 ELSE args[2][1].value
    <3>1. CASE Len(args) = 1
      BY <3>1 DEF Seconds
    <3>2. CASE Len(args) # 1
      <4>1. args[2] \in Words /\ NumberIn(args[2], Seconds) /\ Len(args) >= 2
        BY <2>1, <3>2
      <4>2. \A n \in Seconds : n \in Nat /\ n <= MaxInt
        BY LimitsAreInts
      <4>3. /\ stoi(args[2]).ok /\ stoi(args[2]).value = args[2][1].value
            /\ args[2][1].value \in Seconds
        BY <4>1, <4>2, NumberIsRead
      <4> QED
        BY <3>2, <4>1, <4>3
    <3> QED
      BY <3>1, <3>2
  <2>4. /\ known
        /\ Head(filter).text = IF Len(args) = 3 THEN args[3][1].text ELSE "all"
    <3>1. CASE Len(args) # 3
      <4>1. filter = <<Name("all")>> /\ Len(filter) = 1 /\ Head(filter) = Name("all")
        <5>1. ~(Len(args) >= 3)
          <6>1. PICK n \in Nat : n = Len(args)
            OBVIOUS
          <6>2. n <= 3 /\ n # 3
            BY <2>2, <3>1, <6>1
          <6> QED
            BY <6>1, <6>2
        <5>2. filter = <<Name("all")>>
          BY <5>1
        <5> QED
          BY <5>2
      <4> QED
        BY <3>1, <4>1 DEF Name, Piece, Filters
    <3>2. CASE Len(args) = 3
      <4>1. PICK f \in Filters : args[3] = <<Upper(f)>>
        BY <2>1, <3>2
      <4>2. filter = <<Upper(f)>> /\ Len(filter) = 1 /\ Head(filter) = Upper(f) /\ args[3][1] = Upper(f)
        BY <3>2, <4>1
      <4> QED
        BY <3>2, <4>2 DEF Upper, Piece
    <3> QED
      BY <3>1, <3>2
  <2>5. seconds.ok /\ seconds.value \in Seconds /\ known /\ taken
    BY <2>2, <2>3, <2>4
  <2> HIDE DEF seconds, filter, known, through, taken
  <2>6. q = started
    <3>1. CASE Len(args) = 1
      BY <2>1, <2>2, <2>3, <2>4, <3>1
    <3>2. CASE Len(args) = 2
      BY <2>1, <2>2, <2>3, <2>4, <3>2
    <3>3. CASE Len(args) = 3
      BY <2>1, <2>2, <2>3, <2>4, <3>3
    <3> QED
      BY <2>1, <3>1, <3>2, <3>3
  <2> QED
    BY <2>2, <2>5, <2>6
<1>3. CASE taken /\ o = started
  <2>1. o.type = type /\ o.numbers = <<seconds.value>> /\ o # NotStarted
    BY <1>3 DEF Operation, NotStarted
  <2>2. ToSet(o.numbers) = {seconds.value}
    BY <2>1 DEF ToSet
  <2>3. WithinLimits(o)
    BY <1>3, <2>1, <2>2 DEF WithinLimits
  <2> HIDE DEF started, taken
  <2> QED
    BY <1>2, <1>3, <2>1, <2>3 DEF Right, requiresArgument
<1>4. CASE ~(taken /\ Len(args) > 0) /\ o = NotStarted
  <2>1. ~(Len(args) > 0) => Len(args) = 0
    OBVIOUS
  <2> HIDE DEF started, taken
  <2> QED
    BY <1>2, <1>4, <2>1 DEF Right
<1> QED
  BY <1>1, <1>3, <1>4

(* net|:monitor: interface and interval.                                   *)
LEMMA MonitorRight ==
  ASSUME NEW args \in Seq(Words), NEW o \in handleNetworkMonitor(args)
  PROVE  Right("NETWORK_MONITOR", args, o)
<1> DEFINE type     == "NETWORK_MONITOR"
           interval == IF Len(args) = 2 THEN stoi(args[2])
                       ELSE [ok |-> TRUE, value |-> 1, whole |-> TRUE]
           through  == IF args = <<>> THEN <<>> ELSE args[1]
           started  == Operation(type, <<through>>, <<interval.value>>)
           taken    == Len(args) <= 2 /\ interval.ok /\ interval.whole
                       /\ interval.value \in Intervals
<1>1. \/ taken /\ o = started
      \/ ~(taken /\ Len(args) > 0) /\ o = NotStarted
  <2>1. args = <<>> <=> ~(Len(args) > 0)
    OBVIOUS
  <2> QED
    BY <2>1 DEF handleNetworkMonitor, Start, Refused
<1>2. ASSUME NEW q, Forms(type, args, q)
      PROVE  taken /\ q = started
  <2>0. CASE Len(args) = 0
    <3>1. q = Operation(type, << <<>> >>, <<1>>)
      BY <1>2, <2>0 DEF Forms, Unargued, OnEverything
    <3>2. args = <<>>
      BY <2>0, EmptySeq
    <3>3. interval = [ok |-> TRUE, value |-> 1, whole |-> TRUE] /\ through = <<>>
      BY <2>0, <3>2
    <3>4. interval.ok /\ interval.whole /\ interval.value = 1 /\ interval.value \in Intervals
      BY <3>3 DEF Intervals
    <3> HIDE DEF interval, through
    <3> QED
      BY <2>0, <3>1, <3>3, <3>4
  <2>a. SUFFICES ASSUME Len(args) # 0 PROVE taken /\ q = started
    BY <2>0
  <2>1. \/ Len(args) = 1 /\ q = Operation(type, args, <<1>>)
        \/ /\ Len(args) = 2 /\ NumberIn(args[2], Intervals)
           /\ q = Operation(type, <<args[1]>>, <<args[2][1].value>>)
    BY <1>2, <2>a DEF Forms, Unargued, OnEverything, OnTarget
  <2>2. Len(args) > 0 /\ Len(args) <= 2 /\ through = args[1]
    <3>0. PICK n \in Nat : n = Len(args)
      OBVIOUS
    <3>3. n = 1 \/ n = 2
      BY <2>1, <3>0, Zenon
    <3>4. n > 0 /\ n <= 2
      BY <3>3
    <3>1. Len(args) > 0 /\ Len(args) <= 2
      BY <3>0, <3>4
    <3>2. args # <<>>
      BY <3>1
    <3> QED
      BY <3>1, <3>2
  <2>3. /\ interval.ok /\ interval.whole /\ interval.value \in Intervals
        /\ interval.value = IF Len(args) = 1 THEN 1 ELSE args[2][1].value
    <3>1. CASE Len(args) = 1
      BY <3>1 DEF Intervals
    <3>2. CASE Len(args) # 1
      <4>1. args[2] \in Words /\ NumberIn(args[2], Intervals) /\ Len(args) = 2
        BY <2>1, <3>2
      <4>2. \A n \in Intervals : n \in Nat /\ n <= MaxInt
        BY LimitsAreInts
      <4>3. /\ stoi(args[2]).ok /\ stoi(args[2]).whole
            /\ stoi(args[2]).value = args[2][1].value
            /\ args[2][1].value \in Intervals
        BY <4>1, <4>2, NumberIsRead
      <4> QED
        BY <3>2, <4>1, <4>3
    <3> QED
      BY <3>1, <3>2
  <2>4. Len(args) = 1 => args = <<args[1]>>
    OBVIOUS
  <2> HIDE DEF interval, through
  <2> QED
    BY <2>1, <2>2, <2>3, <2>4
<1>3. CASE taken /\ o = started
  <2>1. o.type = type /\ o.numbers = <<interval.value>> /\ o # NotStarted
    BY <1>3 DEF Operation, NotStarted
  <2>2. ToSet(o.numbers) = {interval.value}
    BY <2>1 DEF ToSet
  <2>3. WithinLimits(o)
    BY <1>3, <2>1, <2>2 DEF WithinLimits
  <2> HIDE DEF started, taken
  <2> QED
    BY <1>2, <1>3, <2>1, <2>3 DEF Right, requiresArgument
<1>4. CASE ~(taken /\ Len(args) > 0) /\ o = NotStarted
  <2>1. ~(Len(args) > 0) => Len(args) = 0
    OBVIOUS
  <2> HIDE DEF started, taken
  <2> QED
    BY <1>2, <1>4, <2>1 DEF Right
<1> QED
  BY <1>1, <1>3, <1>4

(* pkt|:inspect: the latest capture, one packet of it, or a file.          *)
LEMMA InspectRight ==
  ASSUME NEW args \in Seq(Words), NEW o \in handlePacketInspect(args)
  PROVE  Right("PACKET_INSPECT", args, o)
<1> DEFINE type    == "PACKET_INSPECT"
           numeric == Len(args[1]) = 1 /\ IsDigits(Head(args[1]))
           id      == Head(args[1]).value
<1>1. \A q : Forms(type, args, q) =>
        \/ Len(args) = 0 /\ q = Operation(type, <<>>, <<>>)
        \/ /\ Len(args) = 1 /\ NumberIn(args[1], 1..MaxId)
           /\ q = Operation(type, <<>>, <<args[1][1].value>>)
        \/ Len(args) = 1 /\ ~IsNumber(args[1]) /\ q = Operation(type, args, <<>>)
  BY DEF Forms, OnTarget
<1> HIDE DEF numeric, id
<1>2. /\ Len(args) = 0 => o = Operation(type, <<>>, <<>>)
      /\ Len(args) > 1 => o = NotStarted
      /\ Len(args) = 1 =>
           IF ~numeric THEN o = Operation(type, args, <<>>)
           ELSE IF id \in 1..MaxId THEN o = Operation(type, <<>>, <<id>>) ELSE o = NotStarted
  <2>1. o \in IF args = <<>> THEN Start(type, <<>>, <<>>)
              ELSE IF Len(args) > 1 THEN Refused
              ELSE IF ~numeric THEN Start(type, args, <<>>)
              ELSE IF id \in 1..MaxId THEN Start(type, <<>>, <<id>>) ELSE Refused
    BY Zenon DEF handlePacketInspect, numeric, id
  <2>2. PICK n \in Nat : n = Len(args)
    OBVIOUS
  <2>3. args = <<>> <=> n = 0
    BY <2>2, EmptySeq
  <2>4. /\ args = <<>> => o = Operation(type, <<>>, <<>>)
        /\ args # <<>> /\ n > 1 => o = NotStarted
        /\ args # <<>> /\ ~(n > 1) =>
             IF ~numeric THEN o = Operation(type, args, <<>>)
             ELSE IF id \in 1..MaxId THEN o = Operation(type, <<>>, <<id>>) ELSE o = NotStarted
    BY <2>1, <2>2, Zenon DEF Start, Refused
  <2>5. /\ n = 0 => args = <<>>
        /\ n > 1 => args # <<>> /\ n > 1
        /\ n = 1 => args # <<>> /\ ~(n > 1)
    BY <2>3
  <2> QED
    BY <2>2, <2>4, <2>5, Zenon
<1> USE DEF numeric, id
<1>3. ~requiresArgument(type)
  BY DEF requiresArgument
<1>4. CASE Len(args) = 0
  <2>1. WithinLimits(o) /\ o.type = type /\ o # NotStarted
    <3>1. o = Operation(type, <<>>, <<>>)
      BY <1>2, <1>4, Zenon
    <3>2. ToSet(o.numbers) = {} /\ o.type = type /\ o # NotStarted
      BY <3>1 DEF Operation, NotStarted, ToSet
    <3> QED
      BY <3>2 DEF WithinLimits
  <2>2. o = Operation(type, <<>>, <<>>)
    BY <1>2, <1>4, Zenon
  <2>3. Forms(type, args, o)
    BY <1>4, <2>2, Zenon DEF Forms, OnEverything
  <2>4. requiresArgument(type) => Len(args) > 0
    BY <1>3
  <2>5. Right(type, args, o)
    <3> HIDE DEF type
    <3> QED
      BY <2>1, <2>3, <2>4, Zenon DEF Right
  <2> QED
    BY <2>5 DEF type
<1>5. CASE Len(args) > 1
  <2>1. PICK n \in Nat : n = Len(args)
    OBVIOUS
  <2>2. n # 0 /\ n # 1
    BY <1>5, <2>1
  <2>3. o = NotStarted
    BY <1>2, <1>5, Zenon
  <2>4. \A q : ~Forms(type, args, q)
    BY <1>1, <2>1, <2>2, Zenon
  <2> QED
    BY <2>3, <2>4, Zenon DEF Right
<1>6. CASE Len(args) = 1
  <2>1. args[1] \in Words
    BY <1>6
  <2>2. numeric => args[1][1] = Head(args[1])
    BY <2>1 DEF Words
  <2>3. /\ NumberIn(args[1], 1..MaxId) <=> numeric /\ id \in 1..MaxId
        /\ IsNumber(args[1]) <=> numeric
    <3>1. Len(args[1]) = 1 => args[1][1] = Head(args[1])
      BY <2>1 DEF Words
    <3> QED
      BY <3>1 DEF NumberIn, IsNumber
  <2>4. CASE ~numeric
    <3>1. o = Operation(type, args, <<>>)
      BY <1>2, <1>6, <2>4
    <3>2. WithinLimits(o) /\ o.type = type /\ o # NotStarted
      <4>1. ToSet(o.numbers) = {} /\ o.type = type /\ o # NotStarted
        BY <3>1 DEF Operation, NotStarted, ToSet
      <4> QED
        BY <4>1 DEF WithinLimits
    <3>3. \A q : Forms(type, args, q) => q = o
      BY <1>1, <1>6, <2>3, <2>4, <3>1
    <3> QED
      BY <1>3, <3>2, <3>3 DEF Right
  <2>5. CASE numeric /\ id \in 1..MaxId
    <3>1. o = Operation(type, <<>>, <<id>>)
      BY <1>2, <1>6, <2>5
    <3>2. o.numbers = <<id>> /\ o.type = type /\ o # NotStarted
      BY <3>1 DEF Operation, NotStarted
    <3>3. ToSet(o.numbers) = {id}
      BY <3>2 DEF ToSet
    <3>4. id # 0
      BY <2>5, MaxIdAssumption
    <3>5. WithinLimits(o)
      BY <3>2, <3>3, <3>4 DEF WithinLimits
    <3>6. \A q : Forms(type, args, q) => q = o
      BY <1>1, <1>6, <2>2, <2>3, <2>5, <3>1
    <3> QED
      BY <1>3, <3>2, <3>5, <3>6 DEF Right
  <2>6. CASE numeric /\ id \notin 1..MaxId
    <3>1. o = NotStarted
      BY <1>2, <1>6, <2>6
    <3>2. \A q : ~Forms(type, args, q)
      BY <1>1, <1>6, <2>3, <2>6
    <3> QED
      BY <3>1, <3>2 DEF Right
  <2> QED
    BY <2>4, <2>5, <2>6
<1>7. PICK n \in Nat : n = Len(args)
  OBVIOUS
<1>8. n = 0 \/ n = 1 \/ n > 1
  OBVIOUS
<1> HIDE DEF type
<1> QED
  BY <1>4, <1>5, <1>6, <1>7, <1>8, Zenon

(* An operation with one port.                                             *)
LEMMA OnePort ==
  ASSUME NEW type \in {"BANNER_GRAB", "SSL_AUDIT"}, NEW words, NEW port \in Ports
  PROVE  /\ WithinLimits(Operation(type, words, <<port>>))
         /\ Operation(type, words, <<port>>).type = type
         /\ Operation(type, words, <<port>>) # NotStarted
<1> DEFINE o == Operation(type, words, <<port>>)
<1>1. o.numbers = <<port>> /\ o.type = type /\ o # NotStarted
  BY DEF Operation, NotStarted
<1>2. ToSet(o.numbers) = {port}
  BY <1>1 DEF ToSet
<1> HIDE DEF o
<1>3. WithinLimits(o)
  BY <1>1, <1>2 DEF WithinLimits
<1> QED
  BY <1>1, <1>3 DEF o

(* banner|:grab.                                                           *)
LEMMA BannerRight ==
  ASSUME NEW args \in Seq(Words), NEW o \in handleBannerGrab(args)
  PROVE  Right("BANNER_GRAB", args, o)
<1> DEFINE type == "BANNER_GRAB"
           port == stoi(args[2])
           taken == Len(args) = 2 /\ port.ok /\ port.value \in Ports
<1>1. IF taken THEN o = Operation(type, <<args[1]>>, <<port.value>>) ELSE o = NotStarted
  BY DEF handleBannerGrab, Start, Refused
<1>2. ASSUME NEW q, Forms(type, args, q)
      PROVE  taken /\ q = Operation(type, <<args[1]>>, <<port.value>>)
  <2>1. /\ Len(args) = 2 /\ NumberIn(args[2], Ports)
        /\ q = Operation(type, <<args[1]>>, <<args[2][1].value>>)
    BY <1>2 DEF Forms, Unargued, OnEverything, OnTarget
  <2>2. args[2] \in Words
    BY <2>1
  <2>3. port.ok /\ port.value = args[2][1].value /\ port.value \in Ports
    <3>1. \A n \in Ports : n \in Nat /\ n <= MaxInt
      BY LimitsAreInts
    <3> QED
      BY <2>1, <2>2, <3>1, NumberIsRead
  <2> HIDE DEF port
  <2> QED
    BY <2>1, <2>3
<1>3. CASE taken
  <2>1. WithinLimits(o) /\ o.type = type /\ o # NotStarted
    BY <1>1, <1>3, OnePort
  <2>2. Len(args) > 0
    BY <1>3
  <2> HIDE DEF taken
  <2> QED
    BY <1>1, <1>2, <1>3, <2>1, <2>2 DEF Right
<1>4. CASE ~taken
  <2> HIDE DEF taken
  <2> QED
    BY <1>1, <1>2, <1>4 DEF Right
<1> QED
  BY <1>3, <1>4

(* ssl|:audit: the port is 443 unless there is one.                        *)
LEMMA AuditRight ==
  ASSUME NEW args \in Seq(Words), NEW o \in handleSSLAudit(args)
  PROVE  Right("SSL_AUDIT", args, o)
<1> DEFINE type == "SSL_AUDIT"
           port == IF Len(args) = 2 THEN stoi(args[2])
                   ELSE [ok |-> TRUE, value |-> 443, whole |-> TRUE]
           taken == Len(args) \in {1, 2} /\ port.ok /\ port.value \in Ports
<1>1. IF taken THEN o = Operation(type, <<args[1]>>, <<port.value>>) ELSE o = NotStarted
  BY DEF handleSSLAudit, Start, Refused
<1>2. ASSUME NEW q, Forms(type, args, q)
      PROVE  taken /\ q = Operation(type, <<args[1]>>, <<port.value>>)
  <2>1. \/ Len(args) = 1 /\ q = Operation(type, args, <<443>>)
        \/ /\ Len(args) = 2 /\ NumberIn(args[2], Ports)
           /\ q = Operation(type, <<args[1]>>, <<args[2][1].value>>)
    BY <1>2 DEF Forms, Unargued, OnEverything, OnTarget
  <2>2. CASE Len(args) = 1
    <3>1. args = <<args[1]>> /\ q = Operation(type, args, <<443>>)
      BY <2>1, <2>2
    <3>2. port = [ok |-> TRUE, value |-> 443, whole |-> TRUE]
      BY <2>2
    <3>3. 443 \in Ports
      <4>1. 443 \in Nat /\ MaxPort \in Nat /\ 443 <= MaxPort
        BY MaxPortIs
      <4>2. \A n, m \in Nat : 443 <= m /\ n = 443 => n \in 1..m
        OBVIOUS
      <4> QED
        BY <4>1, <4>2 DEF Ports
    <3>4. port.ok /\ port.value = 443
      BY <3>2
    <3> HIDE DEF port
    <3> QED
      BY <2>2, <3>1, <3>3, <3>4
  <2>3. CASE Len(args) = 2 /\ NumberIn(args[2], Ports)
    <3>1. args[2] \in Words
      <4>1. PICK n \in Nat : n = Len(args) /\ n = 2
        BY <2>3
      <4>2. 2 \in 1..Len(args)
        BY <4>1
      <4> QED
        BY <4>2, ElementOfSeq
    <3>2. port.ok /\ port.value = args[2][1].value /\ port.value \in Ports
      <4>1. \A n \in Ports : n \in Nat /\ n <= MaxInt
        BY LimitsAreInts
      <4>2. port = stoi(args[2])
        BY <2>3
      <4> QED
        BY <2>3, <3>1, <4>1, <4>2, NumberIsRead
    <3>3. PICK n \in Nat : n = Len(args) /\ n = 2
      BY <2>3
    <3>4. n # 1 /\ n \in {1, 2}
      BY <3>3
    <3>5. q = Operation(type, <<args[1]>>, <<args[2][1].value>>)
      BY <2>1, <3>3, <3>4, Zenon
    <3> HIDE DEF port
    <3> QED
      BY <3>2, <3>3, <3>4, <3>5, Zenon
  <2> QED
    BY <2>1, <2>2, <2>3
<1>3. CASE taken
  <2>1. WithinLimits(o) /\ o.type = type /\ o # NotStarted
    BY <1>1, <1>3, OnePort
  <2>2. Len(args) > 0
    BY <1>3
  <2> HIDE DEF taken
  <2> QED
    BY <1>1, <1>2, <1>3, <2>1, <2>2 DEF Right
<1>4. CASE ~taken
  <2> HIDE DEF taken
  <2> QED
    BY <1>1, <1>2, <1>4 DEF Right
<1> QED
  BY <1>3, <1>4

-----------------------------------------------------------------------------
(* Of each command, what begins is what the line stands for.               *)
LEMMA ExecuteRight ==
  ASSUME NEW c, c.arguments \in Seq(Words), NEW o \in execute(c)
  PROVE  Right(c.type, c.arguments, o)
<1> DEFINE type == c.type
           args == c.arguments
<1>1. CASE type \in Unargued
  <2>1. o \in Start(type, <<>>, <<>>)
    BY <1>1 DEF execute, Unargued
  <2> QED
    BY <1>1, <2>1, UnarguedRight
<1>2. CASE type \in OneTarget
  <2>1. o \in handleHostFind(args) \/ type # "HOST_FIND"
    BY <1>2 DEF execute, Unargued
  <2>2. type # "HOST_FIND" =>
          o \in IF Len(args) = 1 THEN Start(type, args, <<>>) ELSE Refused
    BY <1>2 DEF execute, Unargued, OneTarget, handleMacResolve, handleDnsResolve,
                handleOSFingerprint, handleFirewallProbe, handleSubnetCalc
  <2>3. IF Len(args) = 1 /\ (type = "HOST_FIND" => Checkable(args[1]))
        THEN o = Operation(type, args, <<>>) ELSE o = NotStarted
    BY <2>1, <2>2 DEF handleHostFind, Start, Refused
  <2> QED
    BY <1>2, <2>3, OneTargetRight
<1>3. CASE type \in {"SERVICE_DETECT", "SECURITY_DETECT", "VULN_SCAN", "CRED_CHECK"}
  <2>1. /\ type = "SERVICE_DETECT" => o \in handleServiceDetect(args)
        /\ type = "SECURITY_DETECT" => o \in handleSecurityDetect(args)
        /\ type = "VULN_SCAN" => o \in handleVulnScan(args)
        /\ type = "CRED_CHECK" => o \in handleCredCheck(args)
    BY <1>3 DEF execute, Unargued
  <2>2. args = <<>> <=> Len(args) = 0
    BY EmptySeq
  <2>3. PICK n \in Nat : n = Len(args)
    OBVIOUS
  <2>4. /\ n > 0 <=> args # <<>>
        /\ n > 1 <=> Len(args) > 1
    BY <2>2, <2>3
  <2>5. CASE type = "SERVICE_DETECT"
    <3>1. \/ o = NotStarted
          \/ o = Operation(type, <<args[1]>>, <<>>) /\ n > 0
      BY <2>1, <2>4, <2>5, Zenon DEF handleServiceDetect, Start, Refused
    <3>2. \/ o = NotStarted
          \/ o = Operation(type, <<args[1]>>, <<>>) /\ Len(args) > 0
      BY <2>3, <3>1, Zenon
    <3> QED
      BY <1>3, <2>5, <3>2, StoreRight
  <2>6. CASE type \in {"SECURITY_DETECT", "CRED_CHECK"}
    <3>1. o = NotStarted \/ (o = Operation(type, args, <<>>) /\ ~(n > 1))
      BY <2>1, <2>3, <2>6, Zenon DEF handleSecurityDetect, handleCredCheck, Start, Refused
    <3>2. o = NotStarted \/ (o = Operation(type, args, <<>>) /\ Len(args) <= 1)
      BY <2>3, <3>1
    <3> QED
      BY <1>3, <2>6, <3>2, StoreRight
  <2>7. CASE type = "VULN_SCAN"
    <3>1. \/ o = NotStarted
          \/ o = Operation(type, args, <<>>) /\ args = <<>>
          \/ o = Operation(type, <<args[1]>>, <<>>) /\ args # <<>>
      BY <2>1, <2>7, Zenon DEF handleVulnScan, Start, Refused
    <3>2. \/ o = NotStarted
          \/ o = Operation(type, args, <<>>) /\ Len(args) <= 1
          \/ o = Operation(type, <<args[1]>>, <<>>) /\ Len(args) > 0
      BY <2>2, <2>3, <2>4, <3>1
    <3> QED
      BY <1>3, <2>7, <3>2, StoreRight
  <2> QED
    BY <1>3, <2>5, <2>6, <2>7, Zenon
<1>4. CASE type \in {"PORT_SCAN", "PACKET_CAPTURE", "PACKET_INSPECT",
                     "NETWORK_MONITOR", "BANNER_GRAB", "SSL_AUDIT"}
  <2>1. /\ type = "PORT_SCAN" => o \in handlePortScan(args)
        /\ type = "PACKET_CAPTURE" => o \in handlePacketCapture(args)
        /\ type = "PACKET_INSPECT" => o \in handlePacketInspect(args)
        /\ type = "NETWORK_MONITOR" => o \in handleNetworkMonitor(args)
        /\ type = "BANNER_GRAB" => o \in handleBannerGrab(args)
        /\ type = "SSL_AUDIT" => o \in handleSSLAudit(args)
    BY <1>4 DEF execute, Unargued
  <2> QED
    BY <1>4, <2>1, PortScanRight, CaptureRight, InspectRight, MonitorRight,
       BannerRight, AuditRight
<1>5. CASE type \notin Unargued \cup OneTarget \cup
           {"SERVICE_DETECT", "SECURITY_DETECT", "VULN_SCAN", "CRED_CHECK",
            "PORT_SCAN", "PACKET_CAPTURE", "PACKET_INSPECT",
            "NETWORK_MONITOR", "BANNER_GRAB", "SSL_AUDIT"}
  <2>1. o \in Refused
    BY <1>5 DEF execute, OneTarget
  <2>2. \A q : ~Forms(type, args, q)
    BY <1>5 DEF Forms, OneTarget, OnTarget, OnEverything
  <2> QED
    BY <2>1, <2>2 DEF Refused, Right
<1> QED
  BY <1>1, <1>2, <1>3, <1>4, <1>5

(* What the handlers make of the forms that only the help lists.           *)
LEMMA HelpOnlyIs ==
  ASSUME NEW l, parse(l).arguments \in Seq(Words), NEW o \in execute(parse(l)), HelpOnly(l)
  PROVE  o = HelpOnlyOutcome(l)
<1> DEFINE type == parse(l).type
           args == parse(l).arguments
<1>1. CASE type = "HOST_FIND" /\ Len(args) = 1 /\ Has(args[1], Mark("/"))
  <2>1. o \in handleHostFind(args)
    BY <1>1 DEF execute, Unargued
  <2> QED
    BY <1>1, <2>1 DEF handleHostFind, Checkable, Refused, HelpOnlyOutcome
<1>2. CASE type = "PORT_SCAN" /\ Len(args) = 3 /\ NumberIn(args[2], Ports)
  <2>1. o \in handlePortScan(args)
    BY <1>2 DEF execute, Unargued
  <2>2. ~Has(args[2], Mark("-"))
    <3>1. args[2] \in Words /\ DOMAIN args[2] = 1..1 /\ args[2][1].is = "digits"
      BY <1>2 DEF NumberIn, IsNumber, IsDigits, Words
    <3>2. Mark("-").is = "mark"
      BY DEF Mark, Piece
    <3>3. \A i \in DOMAIN args[2] : args[2][i].is = "digits"
      BY <3>1
    <3> QED
      BY <3>2, <3>3 DEF Has
  <2>3. args # <<>> /\ Len(args) # 1
    BY <1>2
  <2>4. o \in Refused
    BY <2>1, <2>2, <2>3, Zenon DEF handlePortScan
  <2> QED
    BY <1>2, <2>4 DEF Refused, HelpOnlyOutcome
<1>3. CASE type = "SSL_AUDIT" /\ Len(args) = 1 /\ Has(args[1], Mark(":"))
  <2>1. o \in handleSSLAudit(args)
    BY <1>3 DEF execute, Unargued
  <2>2. 443 \in Ports
    <3>1. 443 \in Nat /\ MaxPort \in Nat /\ 443 <= MaxPort
      BY MaxPortIs
    <3>2. \A n, m \in Nat : 443 <= m /\ n = 443 => n \in 1..m
      OBVIOUS
    <3> QED
      BY <3>1, <3>2 DEF Ports
  <2>3. <<args[1]>> = args
    BY <1>3
  <2>4. o = Operation("SSL_AUDIT", <<args[1]>>, <<443>>)
    BY <1>3, <2>1, <2>2 DEF handleSSLAudit, Start
  <2> QED
    BY <1>3, <2>3, <2>4 DEF HelpOnlyOutcome
<1>4. CASE type = "FIREWALL_PROBE" /\ Len(args) # 1
  <2>1. o \in handleFirewallProbe(args)
    BY <1>4 DEF execute, Unargued
  <2> QED
    BY <1>4, <2>1 DEF handleFirewallProbe, Refused, HelpOnlyOutcome
<1> QED
  BY <1>1, <1>2, <1>3, <1>4 DEF HelpOnly

(* The typed line is a sequence of words, and no operation is kept while   *)
(* none is under way.                                                      *)
Typed == line \in Seq(Words) /\ (op = "none" => operation = NotStarted)

(* So it is from the start and after every step.                           *)
LEMMA SessionIsTyped == Init => Typed
  BY EmptySeq DEF Init, Typed

LEMMA StepsAreTyped == Typed /\ [Next]_vars => Typed'
<1> SUFFICES ASSUME Typed, [Next]_vars PROVE Typed'
  OBVIOUS
<1> USE DEF Typed
<1>1. <<>> \in Seq(Words)
  BY EmptySeq
<1>2. CASE Line
  BY <1>2, TerminalAssumption DEF Line
<1>3. CASE Execute
  <2>1. PICK o : Begin(o)
    BY <1>3 DEF Execute
  <2>2. op' # "none" /\ line' = <<>>
    BY <2>1 DEF Begin, KindOf
  <2> QED
    BY <1>1, <2>2
<1>4. CASE NoOperation \/ Finish
  BY <1>1, <1>4 DEF NoOperation, Finish
<1>5. CASE UNCHANGED <<line, operation, op>>
  BY <1>5
<1> QED
  BY <1>2, <1>3, <1>4, <1>5 DEF Next, Plain, vars, session, Prompt, EndOfInput,
     Interrupted, Exit, ClearStop, Poll, Wait, WaitEnds, Audit, AuditTime,
     Signal, Terminated

LEMMA TypedInvariant == Spec => []Typed
  BY SessionIsTyped, StepsAreTyped, PTL DEF Spec

(* What parse cuts off a typed line is words too.                          *)
LEMMA ArgumentsAreWords == ASSUME Typed PROVE parse(line).arguments \in Seq(Words)
<1>1. line # <<>> => parse(line).arguments \in Seq(Words)
  BY HeadTailProperties DEF Typed, parse
<1>2. line = <<>> => parse(line).arguments = <<>>
  BY DEF parse
<1> QED
  BY <1>1, <1>2, EmptySeq

(* What a line begins is what its form stands for.                         *)
LEMMA LineUnderstood ==
  ASSUME Typed, SessionInv, [Next]_vars, pc = "accept",
         pc' \notin {"accept", "interrupted", "terminated"}
  PROVE  Understood(line, operation')
<1>1. NoOperation \/ Execute
  BY DEF Next, Plain, vars, session, Prompt, EndOfInput, Line, Interrupted, Exit,
     ClearStop, Poll, Wait, WaitEnds, Finish, Audit, AuditTime, Signal, Terminated
<1>3. line = <<>> => parse(line).type = "UNKNOWN" /\ parse(line).arguments = <<>>
  BY DEF parse
<1>4. parse(line).arguments \in Seq(Words)
  BY ArgumentsAreWords
<1>5. \E o \in execute(parse(line)) : operation' = o
  <2>1. CASE Execute
    BY <2>1 DEF Execute, Begin
  <2>2. CASE NoOperation
    <3>1. operation' = NotStarted
      BY <2>2 DEF NoOperation, Typed, SessionInv, Placed, Running
    <3>2. line = <<>> => NotStarted \in execute(parse(line))
      BY <1>3 DEF execute, Unargued, Refused
    <3> QED
      BY <2>2, <3>1, <3>2 DEF NoOperation
  <2> QED
    BY <1>1, <2>1, <2>2
<1> QED
  BY <1>4, <1>5, ExecuteRight, HelpOnlyIs, UnderstoodIs DEF Typed

(* What begins after a line is what the usage lines of the handlers say,   *)
(* and a line they list is refused only for what the store holds or for    *)
(* want of an interface; a form that only the help lists is refused, or    *)
(* taken for a name (src/cli/command_handler.cpp), for lines of any words, *)
(* numbers and length.                                                     *)
THEOREM LinesAreUnderstood == Spec => LinesUnderstood
<1>1. Typed /\ SessionInv /\ [Next]_vars =>
        [pc = "accept" /\ pc' \notin {"accept", "interrupted", "terminated"} =>
           Understood(line, operation')]_vars
  BY LineUnderstood
<1> QED
  BY <1>1, TypedInvariant, SessionInvariant, PTL DEF Spec, LinesUnderstood

-----------------------------------------------------------------------------
(* The lookups.                                                            *)

(* What clean and LettersIn make of one byte more.                         *)
Cleaned(bytes) == Cleaning!Run([text |-> <<>>, full |-> FALSE], bytes)
Spelled(text)  == Spelling!Run([length |-> 0, at |-> <<>>], text)

LEMMA CleanedOneMore ==
  /\ Cleaned(<<>>) = [text |-> <<>>, full |-> FALSE]
  /\ \A T, v, x : v \in Seq(T) /\ x \in T => Cleaned(Append(v, x)) = CleanByte(Cleaned(v), x)
<1>1. Cleaned(<<>>) = [text |-> <<>>, full |-> FALSE]
  BY Turns!RunOfNothing DEF Cleaned, Cleaning!Run, Turns!Run
<1>2. ASSUME NEW T, NEW v \in Seq(T), NEW x \in T
      PROVE  Cleaned(Append(v, x)) = CleanByte(Cleaned(v), x)
  <2>1. \A w : Cleaned(w) = Turns!Run([text |-> <<>>, full |-> FALSE], w)
    BY DEF Cleaned, Cleaning!Run, Turns!Run
  <2>2. \A state : Turns!Run(state, Append(v, x)) = CleanByte(Turns!Run(state, v), x)
    BY Turns!RunOneMore
  <2> QED
    BY <2>1, <2>2
<1> QED
  BY <1>1, <1>2

LEMMA SpelledOneMore ==
  /\ Spelled(<<>>) = [length |-> 0, at |-> <<>>]
  /\ \A T, v, x : v \in Seq(T) /\ x \in T => Spelled(Append(v, x)) = Spell(Spelled(v), x)
<1>1. Spelled(<<>>) = [length |-> 0, at |-> <<>>]
  BY Places!RunOfNothing DEF Spelled, Spelling!Run, Places!Run
<1>2. ASSUME NEW T, NEW v \in Seq(T), NEW x \in T
      PROVE  Spelled(Append(v, x)) = Spell(Spelled(v), x)
  <2>1. \A w : Spelled(w) = Places!Run([length |-> 0, at |-> <<>>], w)
    BY DEF Spelled, Spelling!Run, Places!Run
  <2>2. \A state : Places!Run(state, Append(v, x)) = Spell(Places!Run(state, v), x)
    BY Places!RunOneMore
  <2> QED
    BY <2>1, <2>2
<1> QED
  BY <1>1, <1>2

(* Where clean is: of the first n bytes b it has made the first m bytes of *)
(* text; the s letters of b stand at said, the t letters of text at kept.  *)
PlacesFit(b, n, text, m, full, said, s, kept, t) ==
  /\ n \in Nat /\ m \in Nat /\ s \in Nat /\ t \in Nat /\ full \in BOOLEAN
  /\ \A k \in 1..m : text[k] \in Letters \cup {"blank", "bar"}
  /\ \A k \in 1..s : said[k] \in 1..n /\ b[said[k]] \in Letters
  /\ \A k \in 1..t : kept[k] \in 1..m
CountsFit(m, full, s, t) ==
  /\ t <= s /\ (~full => t = s)
  /\ m <= BannerLimit + 3 /\ (full => m >= BannerLimit)
RoomLeft(text, m, full) ==
  /\ ~full => m <= BannerLimit + 2
  /\ ~full /\ m >= BannerLimit => text[m] = "blank"
SameLetters(b, text, said, kept, t) ==
  \A k \in 1..t : text[kept[k]] = b[said[k]]
LinesApart(b, said, kept, t) ==
  \A k \in 2..t : (\E i \in said[k - 1]..said[k] : b[i] = "newline") => kept[k] > kept[k - 1] + 1
BreakShown(b, n, m, full, said, kept, t) ==
  ~full /\ t > 0 /\ (\E i \in said[t]..n : b[i] = "newline") => kept[t] < m

Spoken(b, n, text, m, full, said, s, kept, t) ==
  /\ PlacesFit(b, n, text, m, full, said, s, kept, t)
  /\ CountsFit(m, full, s, t)
  /\ RoomLeft(text, m, full)
  /\ SameLetters(b, text, said, kept, t)
  /\ LinesApart(b, said, kept, t)
  /\ BreakShown(b, n, m, full, said, kept, t)

Grown(v, n, w, x) == w[n + 1] = x /\ \A k \in 1..n : w[k] = v[k]

(* A byte that leaves no trace: nothing of a full banner, no letter of     *)
(* another, a line break only at the beginning or behind a blank.          *)
LEMMA NothingShown ==
  ASSUME NEW b, NEW n, NEW text, NEW m, NEW full, NEW said, NEW s, NEW kept, NEW t,
         Spoken(b, n, text, m, full, said, s, kept, t),
         NEW c, NEW x, Grown(b, n, c, x), x \notin Letters,
         ~full /\ x = "newline" => m = 0 \/ text[m] = "blank"
  PROVE  Spoken(c, n + 1, text, m, full, said, s, kept, t)
<1> USE DEF Spoken
<1>1. PlacesFit(c, n + 1, text, m, full, said, s, kept, t)
  BY DEF PlacesFit, Grown
<1>2. \A k \in 1..t : c[said[k]] = b[said[k]] /\ said[k] \in 1..n /\ c[said[k]] \in Letters
  BY DEF PlacesFit, Grown, CountsFit
<1>3. SameLetters(c, text, said, kept, t)
  BY <1>2 DEF SameLetters
<1>4. LinesApart(c, said, kept, t)
  <2> SUFFICES ASSUME NEW k \in 2..t, NEW i \in said[k - 1]..said[k], c[i] = "newline"
               PROVE  kept[k] > kept[k - 1] + 1
    BY DEF LinesApart
  <2>1. k \in 1..t /\ k - 1 \in 1..t /\ said[k - 1] \in 1..n /\ said[k] \in 1..n
    BY <1>2 DEF PlacesFit
  <2>2. i \in 1..n
    BY <2>1 DEF PlacesFit
  <2>3. b[i] = "newline"
    BY <2>2 DEF Grown
  <2> QED
    BY <2>3 DEF LinesApart
<1>5. BreakShown(c, n + 1, m, full, said, kept, t)
  <2> SUFFICES ASSUME ~full, t > 0, NEW i \in said[t]..n + 1, c[i] = "newline"
               PROVE  kept[t] < m
    BY DEF BreakShown
  <2>1. t \in 1..t /\ said[t] \in 1..n /\ kept[t] \in 1..m /\ m \in Nat /\ n \in Nat
    BY <1>2 DEF PlacesFit
  <2>2. CASE i \in 1..n
    <3>1. b[i] = "newline" /\ i \in said[t]..n
      BY <2>1, <2>2 DEF Grown
    <3> QED
      BY <3>1 DEF BreakShown
  <2>3. CASE i = n + 1
    <3>1. text[m] = "blank"
      BY <2>1, <2>3 DEF Grown
    <3>2. text[kept[t]] \in Letters
      BY <1>2, <2>1 DEF SameLetters
    <3>3. kept[t] # m
      BY <3>1, <3>2 DEF Letters
    <3> QED
      BY <2>1, <3>3
  <2> QED
    BY <2>1, <2>2, <2>3
<1> QED
  BY <1>1, <1>3, <1>4, <1>5

(* A letter that comes too late.                                           *)
LEMMA LetterLost ==
  ASSUME NEW b, NEW n, NEW text, NEW m, NEW said, NEW s, NEW kept, NEW t,
         Spoken(b, n, text, m, TRUE, said, s, kept, t),
         NEW c, NEW x \in Letters, Grown(b, n, c, x),
         NEW more, Grown(said, s, more, n + 1)
  PROVE  Spoken(c, n + 1, text, m, TRUE, more, s + 1, kept, t)
<1> USE DEF Spoken
<1>1. /\ n \in Nat /\ s \in Nat /\ t \in Nat /\ t <= s
      /\ \A k \in 1..t : /\ more[k] = said[k] /\ said[k] \in 1..n
                         /\ c[more[k]] = b[said[k]]
  BY DEF PlacesFit, CountsFit, Grown
<1>2. PlacesFit(c, n + 1, text, m, TRUE, more, s + 1, kept, t)
  <2>1. ASSUME NEW k \in 1..s + 1 PROVE more[k] \in 1..n + 1 /\ c[more[k]] \in Letters
    <3>1. CASE k = s + 1
      BY <1>1, <3>1 DEF Grown
    <3>2. CASE k \in 1..s
      <4>1. more[k] = said[k] /\ said[k] \in 1..n /\ b[said[k]] \in Letters
        BY <3>2 DEF Grown, PlacesFit
      <4> QED
        BY <1>1, <4>1 DEF Grown
    <3> QED
      BY <1>1, <3>1, <3>2
  <2> QED
    BY <2>1 DEF PlacesFit
<1>3. CountsFit(m, TRUE, s + 1, t) /\ RoomLeft(text, m, TRUE)
  BY <1>1 DEF CountsFit, RoomLeft
<1>4. SameLetters(c, text, more, kept, t)
  BY <1>1 DEF SameLetters
<1>5. LinesApart(c, more, kept, t)
  <2> SUFFICES ASSUME NEW k \in 2..t, NEW i \in more[k - 1]..more[k], c[i] = "newline"
               PROVE  kept[k] > kept[k - 1] + 1
    BY DEF LinesApart
  <2>1. k \in 1..t /\ k - 1 \in 1..t
    BY <1>1
  <2>2. i \in said[k - 1]..said[k] /\ i \in 1..n
    BY <1>1, <2>1
  <2>3. b[i] = "newline"
    BY <2>2 DEF Grown
  <2> QED
    BY <2>2, <2>3 DEF LinesApart
<1>6. BreakShown(c, n + 1, m, TRUE, more, kept, t)
  BY DEF BreakShown
<1> QED
  BY <1>2, <1>3, <1>4, <1>5, <1>6

(* A line break is shown as a separator.                                   *)
LEMMA BreakSeparated ==
  ASSUME NEW b, NEW n, NEW text, NEW m, NEW said, NEW s, NEW kept, NEW t,
         Spoken(b, n, text, m, FALSE, said, s, kept, t),
         NEW c, Grown(b, n, c, "newline"), m # 0, text[m] # "blank",
         NEW longer, \A k \in 1..m : longer[k] = text[k],
         longer[m + 1] = "blank", longer[m + 2] = "bar", longer[m + 3] = "blank"
  PROVE  Spoken(c, n + 1, longer, m + 3, FALSE, said, s, kept, t)
<1> USE DEF Spoken
<1>1. /\ n \in Nat /\ m \in Nat /\ s \in Nat /\ t \in Nat /\ t = s
      /\ \A k \in 1..t : /\ said[k] \in 1..n /\ c[said[k]] = b[said[k]]
                         /\ kept[k] \in 1..m /\ longer[kept[k]] = text[kept[k]]
  BY DEF PlacesFit, CountsFit, Grown
<1>2. m < BannerLimit
  BY <1>1, BannerLimitAssumption DEF RoomLeft
<1>3. \A k \in 1..m + 3 : longer[k] \in Letters \cup {"blank", "bar"}
  <2>1. \A k \in 1..m + 3 : k \in 1..m \/ k = m + 1 \/ k = m + 2 \/ k = m + 3
    BY <1>1
  <2> QED
    BY <2>1 DEF PlacesFit
<1>4. PlacesFit(c, n + 1, longer, m + 3, FALSE, said, s, kept, t)
  BY <1>1, <1>3 DEF PlacesFit
<1>5. CountsFit(m + 3, FALSE, s, t) /\ RoomLeft(longer, m + 3, FALSE)
  BY <1>1, <1>2, BannerLimitAssumption DEF CountsFit, RoomLeft
<1>6. SameLetters(c, longer, said, kept, t)
  BY <1>1 DEF SameLetters
<1>7. LinesApart(c, said, kept, t)
  <2> SUFFICES ASSUME NEW k \in 2..t, NEW i \in said[k - 1]..said[k], c[i] = "newline"
               PROVE  kept[k] > kept[k - 1] + 1
    BY DEF LinesApart
  <2>1. k \in 1..t /\ k - 1 \in 1..t
    BY <1>1
  <2>2. i \in 1..n
    BY <1>1, <2>1
  <2>3. b[i] = "newline"
    BY <2>2 DEF Grown
  <2> QED
    BY <2>3 DEF LinesApart
<1>8. BreakShown(c, n + 1, m + 3, FALSE, said, kept, t)
  <2>1. t > 0 => kept[t] \in 1..m
    BY <1>1
  <2> QED
    BY <1>1, <2>1 DEF BreakShown
<1> QED
  BY <1>4, <1>5, <1>6, <1>7, <1>8

(* A byte is shown: a blank.                                               *)
LEMMA BlankShown ==
  ASSUME NEW b, NEW n, NEW text, NEW m, NEW said, NEW s, NEW kept, NEW t,
         Spoken(b, n, text, m, FALSE, said, s, kept, t),
         NEW c, Grown(b, n, c, "blank"),
         NEW longer, Grown(text, m, longer, "blank"),
         NEW full \in BOOLEAN, full <=> m + 1 >= BannerLimit
  PROVE  Spoken(c, n + 1, longer, m + 1, full, said, s, kept, t)
<1> USE DEF Spoken
<1>1. /\ n \in Nat /\ m \in Nat /\ s \in Nat /\ t \in Nat /\ t = s
      /\ \A k \in 1..t : /\ said[k] \in 1..n /\ c[said[k]] = b[said[k]]
                         /\ kept[k] \in 1..m /\ longer[kept[k]] = text[kept[k]]
  BY DEF PlacesFit, CountsFit, Grown
<1>2. full \in BOOLEAN /\ m + 1 \in Nat
  BY <1>1
<1>3. \A k \in 1..m + 1 : longer[k] \in Letters \cup {"blank", "bar"}
  <2>1. \A k \in 1..m + 1 : k \in 1..m \/ k = m + 1
    BY <1>1
  <2> QED
    BY <2>1 DEF PlacesFit, Grown
<1>4. PlacesFit(c, n + 1, longer, m + 1, full, said, s, kept, t)
  BY <1>1, <1>2, <1>3 DEF PlacesFit
<1>5. CountsFit(m + 1, full, s, t) /\ RoomLeft(longer, m + 1, full)
  <2>1. m <= BannerLimit + 2
    BY DEF RoomLeft
  <2> QED
    BY <1>1, <1>2, <2>1, BannerLimitAssumption DEF CountsFit, RoomLeft
<1>6. SameLetters(c, longer, said, kept, t)
  BY <1>1 DEF SameLetters
<1>7. LinesApart(c, said, kept, t)
  <2> SUFFICES ASSUME NEW k \in 2..t, NEW i \in said[k - 1]..said[k], c[i] = "newline"
               PROVE  kept[k] > kept[k - 1] + 1
    BY DEF LinesApart
  <2>1. k \in 1..t /\ k - 1 \in 1..t
    BY <1>1
  <2>2. i \in 1..n
    BY <1>1, <2>1
  <2>3. b[i] = "newline"
    BY <2>2 DEF Grown
  <2> QED
    BY <2>3 DEF LinesApart
<1>8. BreakShown(c, n + 1, m + 1, full, said, kept, t)
  <2>1. t > 0 => kept[t] \in 1..m
    BY <1>1
  <2> QED
    BY <1>1, <2>1 DEF BreakShown
<1> QED
  BY <1>4, <1>5, <1>6, <1>7, <1>8

(* Or a letter.                                                            *)
LEMMA LetterShown ==
  ASSUME NEW b, NEW n, NEW text, NEW m, NEW said, NEW s, NEW kept, NEW t,
         Spoken(b, n, text, m, FALSE, said, s, kept, t),
         NEW c, NEW x \in Letters, Grown(b, n, c, x),
         NEW longer, Grown(text, m, longer, x),
         NEW more, Grown(said, s, more, n + 1),
         NEW held, Grown(kept, t, held, m + 1),
         NEW full \in BOOLEAN, full <=> m + 1 >= BannerLimit
  PROVE  Spoken(c, n + 1, longer, m + 1, full, more, s + 1, held, t + 1)
<1> USE DEF Spoken
<1>1. /\ n \in Nat /\ m \in Nat /\ s \in Nat /\ t \in Nat /\ t = s
      /\ more[t + 1] = n + 1 /\ held[t + 1] = m + 1 /\ c[n + 1] = x /\ longer[m + 1] = x
      /\ \A k \in 1..t : /\ said[k] \in 1..n /\ more[k] = said[k]
                         /\ c[more[k]] = b[said[k]]
                         /\ kept[k] \in 1..m /\ held[k] = kept[k]
                         /\ longer[held[k]] = text[kept[k]]
  BY DEF PlacesFit, CountsFit, Grown
<1>2. full \in BOOLEAN /\ m + 1 \in Nat
  BY <1>1
<1>3. \A k \in 1..m + 1 : longer[k] \in Letters \cup {"blank", "bar"}
  <2>1. \A k \in 1..m + 1 : k \in 1..m \/ k = m + 1
    BY <1>1
  <2> QED
    BY <2>1 DEF PlacesFit, Grown
<1>4. \A k \in 1..t + 1 : k \in 1..t \/ k = t + 1
  BY <1>1
<1>5. PlacesFit(c, n + 1, longer, m + 1, full, more, s + 1, held, t + 1)
  <2>1. \A k \in 1..t + 1 : more[k] \in 1..n + 1 /\ c[more[k]] \in Letters
    <3>1. \A k \in 1..t : b[said[k]] \in Letters
      BY <1>1 DEF PlacesFit
    <3> QED
      BY <1>1, <1>4, <3>1
  <2>2. \A k \in 1..t + 1 : held[k] \in 1..m + 1
    BY <1>1, <1>4
  <2> QED
    BY <1>1, <1>2, <1>3, <2>1, <2>2 DEF PlacesFit
<1>6. CountsFit(m + 1, full, s + 1, t + 1) /\ RoomLeft(longer, m + 1, full)
  <2>1. m <= BannerLimit + 2
    BY DEF RoomLeft
  <2> QED
    BY <1>1, <1>2, <2>1, BannerLimitAssumption DEF CountsFit, RoomLeft
<1>7. SameLetters(c, longer, more, held, t + 1)
  BY <1>1, <1>4 DEF SameLetters
<1>8. LinesApart(c, more, held, t + 1)
  <2> SUFFICES ASSUME NEW k \in 2..t + 1, NEW i \in more[k - 1]..more[k], c[i] = "newline"
               PROVE  held[k] > held[k - 1] + 1
    BY DEF LinesApart
  <2>0. k - 1 \in 1..t /\ held[k - 1] = kept[k - 1]
    BY <1>1
  <2>1. CASE k \in 2..t
    <3>1. k \in 1..t
      BY <1>1, <2>1
    <3>2. i \in said[k - 1]..said[k] /\ i \in 1..n
      BY <1>1, <2>0, <3>1
    <3>3. b[i] = "newline"
      BY <3>2 DEF Grown
    <3>4. kept[k] > kept[k - 1] + 1
      BY <2>1, <3>2, <3>3 DEF LinesApart
    <3> QED
      BY <1>1, <2>0, <3>1, <3>4
  <2>2. CASE k = t + 1
    <3>1. i # n + 1
      BY <1>1 DEF Letters
    <3>2. k - 1 = t /\ t > 0 /\ more[t] = said[t] /\ said[t] \in 1..n /\ more[k] = n + 1
      BY <1>1, <2>2
    <3>3. i \in said[t]..n /\ i \in 1..n
      BY <1>1, <3>1, <3>2
    <3>4. b[i] = "newline"
      BY <3>3 DEF Grown
    <3>5. kept[t] < m
      BY <3>2, <3>3, <3>4 DEF BreakShown
    <3> QED
      BY <1>1, <2>0, <2>2, <3>2, <3>5
  <2> QED
    BY <1>1, <2>1, <2>2
<1>9. BreakShown(c, n + 1, m + 1, full, more, held, t + 1)
  <2> SUFFICES ASSUME NEW i \in more[t + 1]..n + 1, c[i] = "newline"
               PROVE  FALSE
    BY DEF BreakShown
  <2> QED
    BY <1>1 DEF Letters
<1> QED
  BY <1>1, <1>5, <1>6, <1>7, <1>8, <1>9

(* Appending.                                                              *)
LEMMA Appending ==
  ASSUME NEW T, NEW v \in Seq(T), NEW x \in T
  PROVE  /\ Append(v, x) \in Seq(T) /\ Len(Append(v, x)) = Len(v) + 1
         /\ Grown(v, Len(v), Append(v, x), x)
BY DEF Grown

Displayed == Letters \cup {"blank", "bar"}

(* What is known behind a beginning of the bytes.                          *)
Tells(b) ==
  LET r    == Cleaned(b)
      read == Spelled(b)
      kept == Spelled(r.text)
  IN  /\ r = [text |-> r.text, full |-> r.full]
      /\ r.text \in Seq(Displayed) /\ r.full \in BOOLEAN
      /\ read = [length |-> Len(b), at |-> read.at] /\ read.at \in Seq(Nat)
      /\ kept = [length |-> Len(r.text), at |-> kept.at] /\ kept.at \in Seq(Nat)
      /\ Spoken(b, Len(b), r.text, Len(r.text), r.full, read.at, Len(read.at),
                kept.at, Len(kept.at))

LEMMA TellsNothing == Tells(<<>>)
<1>1. /\ Cleaned(<<>>) = [text |-> <<>>, full |-> FALSE]
      /\ Spelled(<<>>) = [length |-> 0, at |-> <<>>]
  BY CleanedOneMore, SpelledOneMore
<1>2. Spoken(<<>>, 0, <<>>, 0, FALSE, <<>>, 0, <<>>, 0)
  BY BannerLimitAssumption DEF Spoken, PlacesFit, CountsFit, RoomLeft, SameLetters, LinesApart, BreakShown
<1>3. /\ Cleaned(<<>>).text = <<>> /\ Cleaned(<<>>).full = FALSE /\ Spelled(<<>>).at = <<>>
      /\ <<>> \in Seq(Displayed) /\ <<>> \in Seq(Nat) /\ Len(<<>>) = 0
  BY <1>1
<1> QED
  BY <1>1, <1>2, <1>3, Zenon DEF Tells

(* The letters of a text with one byte more.                               *)
LEMMA SpelledGrows ==
  ASSUME NEW T, NEW v \in Seq(T), NEW x \in T,
         Spelled(v) = [length |-> Len(v), at |-> Spelled(v).at], Spelled(v).at \in Seq(Nat)
  PROVE  LET w == Append(v, x)
         IN  /\ Spelled(w) = [length |-> Len(w), at |-> Spelled(w).at]
             /\ Spelled(w).at \in Seq(Nat)
             /\ IF x \in Letters
                THEN /\ Len(Spelled(w).at) = Len(Spelled(v).at) + 1
                     /\ Grown(Spelled(v).at, Len(Spelled(v).at), Spelled(w).at, Len(v) + 1)
                ELSE Spelled(w).at = Spelled(v).at
<1> DEFINE w == Append(v, x)
           at == Spelled(v).at
<1>1. Len(w) = Len(v) + 1 /\ Len(v) + 1 \in Nat
  OBVIOUS
<1>2. Spelled(w) = [length |-> Len(v) + 1,
                    at |-> IF x \in Letters THEN Append(at, Len(v) + 1) ELSE at]
  <2>1. Spelled(w) = Spell(Spelled(v), x)
    BY SpelledOneMore
  <2>2. Spelled(v).length = Len(v)
    OBVIOUS
  <2> QED
    BY <2>1, <2>2 DEF Spell
<1>3. /\ Append(at, Len(v) + 1) \in Seq(Nat) /\ Len(Append(at, Len(v) + 1)) = Len(at) + 1
      /\ Grown(at, Len(at), Append(at, Len(v) + 1), Len(v) + 1)
  <2> HIDE DEF at
  <2> QED
    BY <1>1, Appending DEF at
<1> HIDE DEF w
<1>4. CASE x \in Letters
  BY <1>1, <1>2, <1>3, <1>4 DEF w
<1>5. CASE x \notin Letters
  BY <1>1, <1>2, <1>5 DEF w
<1> QED
  BY <1>4, <1>5

(* Each byte keeps what is known.                                          *)
LEMMA TellsOneMore ==
  ASSUME NEW b \in Seq(Bytes), Tells(b), NEW x \in Bytes
  PROVE  Tells(Append(b, x))
<1> DEFINE c    == Append(b, x)
           r    == Cleaned(b)
           text == r.text
           said == Spelled(b).at
           kept == Spelled(text).at
           n    == Len(b)
           m    == Len(text)
           more == Spelled(c).at
<1>1. /\ r = [text |-> text, full |-> r.full] /\ text \in Seq(Displayed) /\ r.full \in BOOLEAN
      /\ Spelled(b) = [length |-> n, at |-> said] /\ said \in Seq(Nat)
      /\ Spelled(text) = [length |-> m, at |-> kept] /\ kept \in Seq(Nat)
      /\ Spoken(b, n, text, m, r.full, said, Len(said), kept, Len(kept))
  BY DEF Tells
<1>2. Grown(b, n, c, x) /\ Len(c) = n + 1
  BY Appending
<1>3. /\ Spelled(c) = [length |-> Len(c), at |-> more] /\ more \in Seq(Nat)
      /\ x \in Letters => /\ Len(more) = Len(said) + 1
                          /\ Grown(said, Len(said), more, n + 1)
      /\ x \notin Letters => more = said
  BY <1>1, SpelledGrows
<1>4. Cleaned(c) = CleanByte(r, x)
  BY CleanedOneMore
<1> HIDE DEF c, r, text, said, kept, n, m, more
<1>5. CASE r.full
  <2>1. Cleaned(c) = r
    BY <1>4, <1>5 DEF CleanByte
  <2>2. CASE x \in Letters
    <3>1. r.full = TRUE
      BY <1>1, <1>5
    <3>2. Spoken(c, n + 1, text, m, r.full, more, Len(said) + 1, kept, Len(kept))
      BY <1>1, <1>2, <1>3, <2>2, <3>1, LetterLost
    <3> QED
      BY <1>1, <1>2, <1>3, <2>1, <2>2, <3>2 DEF Tells, text, kept, m, more, c
  <2>3. CASE x \notin Letters
    <3>1. Spoken(c, n + 1, text, m, r.full, said, Len(said), kept, Len(kept))
      BY <1>1, <1>2, <1>5, <2>3, NothingShown
    <3> QED
      BY <1>1, <1>2, <1>3, <2>1, <2>3, <3>1 DEF Tells, text, kept, m, more, c
  <2> QED
    BY <2>2, <2>3
<1>6. CASE ~r.full /\ x \in {"return", "control"}
  <2>1. Cleaned(c) = r
    BY <1>4, <1>6 DEF CleanByte
  <2>2. x \notin Letters /\ x # "newline"
    BY <1>6 DEF Letters
  <2>3. Spoken(c, n + 1, text, m, r.full, said, Len(said), kept, Len(kept))
    BY <1>1, <1>2, <2>2, NothingShown
  <2> QED
    BY <1>1, <1>2, <1>3, <2>1, <2>2, <2>3 DEF Tells, text, kept, m, more, c
<1>7. CASE ~r.full /\ x = "newline" /\ (text = <<>> \/ Last(text) = "blank")
  <2>1. Cleaned(c) = r
    BY <1>4, <1>7 DEF CleanByte, text
  <2>2. x \notin Letters
    BY <1>7 DEF Letters
  <2>3. m = 0 \/ text[m] = "blank"
    BY <1>1, <1>7 DEF m, Last
  <2>4. Spoken(c, n + 1, text, m, r.full, said, Len(said), kept, Len(kept))
    BY <1>1, <1>2, <2>2, <2>3, NothingShown
  <2> QED
    BY <1>1, <1>2, <1>3, <2>1, <2>2, <2>4 DEF Tells, text, kept, m, more, c
<1>8. CASE ~r.full /\ x = "newline" /\ text # <<>> /\ Last(text) # "blank"
  <2> DEFINE one   == Append(text, "blank")
             two   == Append(one, "bar")
             three == Append(two, "blank")
  <2>1. text \o Separator = three
    BY <1>1 DEF Separator
  <2>2. Cleaned(c) = [text |-> three, full |-> FALSE]
    <3>1. Cleaned(c) = [r EXCEPT !.text = @ \o Separator]
      BY <1>4, <1>8 DEF CleanByte, text
    <3>2. r = [text |-> text, full |-> FALSE]
      BY <1>1, <1>8
    <3> HIDE DEF three
    <3> QED
      BY <2>1, <3>1, <3>2
  <2>3. {"blank", "bar"} \subseteq Displayed /\ "blank" \notin Letters /\ "bar" \notin Letters
    BY DEF Displayed, Letters
  <2>4. /\ one \in Seq(Displayed) /\ two \in Seq(Displayed) /\ three \in Seq(Displayed)
        /\ Len(three) = m + 3
        /\ three[m + 1] = "blank" /\ three[m + 2] = "bar" /\ three[m + 3] = "blank"
        /\ \A k \in 1..m : three[k] = text[k]
    BY <1>1, <2>3 DEF m
  <2>5. Spelled(three) = [length |-> Len(three), at |-> kept]
    <3> HIDE DEF one, two, three
    <3>1. Spelled(one) = [length |-> Len(one), at |-> kept]
      BY <1>1, <2>3, SpelledGrows DEF one, kept, m
    <3>2. Spelled(two) = [length |-> Len(two), at |-> kept]
      BY <1>1, <2>3, <2>4, <3>1, SpelledGrows DEF two
    <3>3. two \in Seq(Displayed) /\ "blank" \in Displayed /\ "blank" \notin Letters
      BY <2>3, <2>4
    <3>4. Spelled(two).at = kept /\ kept \in Seq(Nat)
      BY <1>1, <3>2
    <3>5. /\ Spelled(three) = [length |-> Len(three), at |-> Spelled(three).at]
          /\ Spelled(three).at = Spelled(two).at
      BY <3>2, <3>3, <3>4, SpelledGrows DEF three
    <3> QED
      BY <3>4, <3>5
  <2>6. m # 0 /\ text[m] # "blank"
    BY <1>1, <1>8 DEF m, Last
  <2>7. x \notin Letters /\ r.full = FALSE
    BY <1>1, <1>8 DEF Letters
  <2> HIDE DEF one, two, three
  <2>8. Spoken(c, n + 1, three, m + 3, FALSE, said, Len(said), kept, Len(kept))
    BY <1>1, <1>2, <1>8, <2>4, <2>6, <2>7, BreakSeparated
  <2>9. /\ Cleaned(c).text = three /\ Cleaned(c).full = FALSE
        /\ Spelled(three).at = kept /\ Spelled(c).at = said
    BY <1>3, <2>2, <2>5, <2>7 DEF more
  <2>10. Len(c) = n + 1 /\ c = Append(b, x) /\ Spelled(c) = [length |-> Len(c), at |-> said]
    BY <1>2, <1>3, <2>7 DEF c
  <2> HIDE DEF more
  <2> QED
    BY <1>1, <2>2, <2>4, <2>5, <2>8, <2>9, <2>10, Zenon DEF Tells
<1>9. CASE ~r.full /\ x \in Letters \cup {"blank"}
  <2> DEFINE longer == Append(text, x)
             full   == Cleaned(c).full
             held   == Spelled(longer).at
  <2>0. Cleaned(c) = [text |-> longer, full |-> m + 1 >= BannerLimit]
    <3>1. x \notin {"return", "control", "newline"}
      BY <1>9 DEF Letters
    <3> QED
      BY <1>4, <1>9, <3>1, Zenon DEF CleanByte, text, m
  <2>1. /\ Cleaned(c) = [text |-> longer, full |-> full]
        /\ full \in BOOLEAN /\ (full <=> m + 1 >= BannerLimit)
    <3>1. full = (m + 1 >= BannerLimit)
      BY <2>0
    <3> HIDE DEF longer, full
    <3>2. Cleaned(c) = [text |-> longer, full |-> full]
      BY <2>0, <3>1, Zenon
    <3>3. full \in BOOLEAN
      <4>1. (m + 1 >= BannerLimit) \in BOOLEAN
        OBVIOUS
      <4> QED
        BY <3>1, <4>1, Zenon
    <3>4. full <=> m + 1 >= BannerLimit
      BY <3>1, Zenon
    <3> QED
      BY <3>2, <3>3, <3>4
  <2>2. x \in Displayed
    BY <1>9 DEF Displayed
  <2>3. /\ longer \in Seq(Displayed) /\ Len(longer) = m + 1 /\ Grown(text, m, longer, x)
    BY <1>1, <2>2, Appending DEF m
  <2>4. /\ Spelled(longer) = [length |-> Len(longer), at |-> held] /\ held \in Seq(Nat)
        /\ x \in Letters => /\ Len(held) = Len(kept) + 1
                            /\ Grown(kept, Len(kept), held, m + 1)
        /\ x \notin Letters => held = kept
    BY <1>1, <2>2, SpelledGrows DEF kept, m
  <2>5. r.full = FALSE
    BY <1>1, <1>9
  <2> HIDE DEF longer, held, full
  <2>6. Spoken(c, n + 1, longer, m + 1, full, more, Len(more), held, Len(held))
    <3>1. CASE x \in Letters
      <4>1. Spoken(c, n + 1, longer, m + 1, full, more, Len(said) + 1, held, Len(kept) + 1)
        BY <1>1, <1>2, <1>3, <2>1, <2>3, <2>4, <2>5, <3>1, LetterShown
      <4> QED
        BY <1>3, <2>4, <3>1, <4>1
    <3>2. CASE x \notin Letters
      <4>1. x = "blank"
        BY <1>9, <3>2
      <4> QED
        BY <1>1, <1>2, <1>3, <2>1, <2>3, <2>4, <2>5, <3>2, <4>1, BlankShown
    <3> QED
      BY <3>1, <3>2
  <2> QED
    BY <1>2, <1>3, <2>1, <2>3, <2>4, <2>5, <2>6 DEF Tells, more, c, held
<1> QED
  BY <1>1, <1>5, <1>6, <1>7, <1>8, <1>9 DEF Bytes

(* So it holds behind the last one.                                        *)
LEMMA BannersAreReadable ==
  ASSUME NEW bytes \in Seq(Bytes)
  PROVE  BannerReadable(bytes)
<1> DEFINE Prefix(k) == SubSeq(bytes, 1, k)
           n == Len(bytes)
           T == {k \in 0..n : Tells(Prefix(k))}
<1>1. n \in Nat /\ Prefix(0) = <<>> /\ Prefix(n) = bytes
  OBVIOUS
<1>2. 0 \in T
  <2> HIDE DEF Prefix, n
  <2> QED
    BY <1>1, TellsNothing
<1>3. ASSUME NEW k \in 1..n, k - 1 \in T PROVE k \in T
  <2>1. Prefix(k) = Append(Prefix(k - 1), bytes[k]) /\ Prefix(k - 1) \in Seq(Bytes)
        /\ bytes[k] \in Bytes
    OBVIOUS
  <2>2. Tells(Prefix(k - 1)) /\ k \in 0..n
    BY <1>1, <1>3
  <2> HIDE DEF Prefix, n
  <2>3. Tells(Prefix(k))
    BY <2>1, <2>2, TellsOneMore
  <2> QED
    BY <2>2, <2>3
<1>4. Tells(bytes)
  <2>1. \A k \in 0..n : k \in T
    <3> HIDE DEF T
    <3> QED
      BY <1>1, <1>2, <1>3, Turns!UpTo
  <2> HIDE DEF Prefix, n
  <2> QED
    BY <1>1, <2>1
<1> DEFINE text == clean(bytes)
           full == Cleaned(bytes).full
           said == LettersIn(bytes)
           kept == LettersIn(text)
<1>5. /\ text = Cleaned(bytes).text /\ said = Spelled(bytes).at /\ kept = Spelled(text).at
  BY Zenon DEF clean, LettersIn, Cleaned, Spelled
<1> HIDE DEF text, full, said, kept
<1>6. /\ text \in Seq(Displayed) /\ full \in BOOLEAN /\ said \in Seq(Nat) /\ kept \in Seq(Nat)
      /\ Spoken(bytes, Len(bytes), text, Len(text), full, said, Len(said), kept, Len(kept))
  BY <1>4, <1>5, Zenon DEF Tells, full
<1>7. /\ DOMAIN text = 1..Len(text) /\ DOMAIN kept = 1..Len(kept) /\ Len(Separator) = 3
      /\ Len(text) \in Nat /\ Len(kept) \in Nat
  BY <1>6 DEF Separator
<1>8. \A k \in DOMAIN text : text[k] \in Letters \cup {"blank", "bar"}
  BY <1>6, <1>7 DEF Spoken, PlacesFit
<1>9. /\ Len(text) <= BannerLimit + Len(Separator)
      /\ Len(kept) <= Len(said)
      /\ Len(text) < BannerLimit => Len(kept) = Len(said)
  BY <1>6, <1>7, BannerLimitAssumption DEF Spoken, CountsFit
<1>10. \A k \in DOMAIN kept : text[kept[k]] = bytes[said[k]]
  BY <1>6, <1>7 DEF Spoken, SameLetters
<1>11. \A k \in 2..Len(kept) :
         (\E i \in said[k - 1]..said[k] : bytes[i] = "newline") => kept[k] > kept[k - 1] + 1
  BY <1>6 DEF Spoken, LinesApart
<1> QED
  BY <1>8, <1>9, <1>10, <1>11, Zenon DEF BannerReadable, text, said, kept

(* What the resolver's loop collects of its list.                          *)
LEMMA Collected ==
  ASSUME NEW T, NEW forward \in Seq(T)
  PROVE  LET found == Collecting!Run(<<>>, forward)
         IN  /\ found \in Seq(T)
             /\ \A k \in DOMAIN found : \E i \in DOMAIN forward : found[k] = forward[i]
             /\ found = <<>> <=>
                  \A i \in DOMAIN forward : forward[i].family \notin {"IPv4", "IPv6"}
<1> DEFINE n == Len(forward)
<1>1. n \in Nat /\ DOMAIN forward = 1..n /\ \A i \in 1..n : forward[i] \in T
  OBVIOUS
<1>2. PICK after : Answers!States(<<>>, forward, after)
  BY <1>1, Answers!LoopHasStates
<1>3. /\ after[0] = <<>> /\ \A k \in 1..n : after[k] = AddAddress(after[k - 1], forward[k])
      /\ Collecting!Run(<<>>, forward) = after[n]
  BY <1>1, <1>2 DEF Answers!States, Collecting!Run, Answers!Run
<1> HIDE DEF n
<1> DEFINE From(w, m) == /\ w \in Seq(T)
                         /\ \A k \in 1..Len(w) : \E i \in 1..m : w[k] = forward[i]
                         /\ Len(w) = 0 <=> \A i \in 1..m : forward[i].family \notin {"IPv4", "IPv6"}
           Done == {m \in 0..n : From(after[m], m)}
<1>4. 0 \in Done
  <2>1. From(<<>>, 0)
    BY EmptySeq
  <2> HIDE DEF From
  <2> QED
    BY <1>1, <1>3, <2>1
<1>5. ASSUME NEW m \in 1..n, m - 1 \in Done PROVE m \in Done
  <2> DEFINE w == after[m - 1]
  <2>1. From(w, m - 1) /\ m \in 0..n /\ m \in Nat
    BY <1>1, <1>5
  <2>2. after[m] = IF forward[m].family \in {"IPv4", "IPv6"} THEN Append(w, forward[m]) ELSE w
    BY <1>3 DEF AddAddress
  <2>3. \A i \in 1..m : i \in 1..m - 1 \/ i = m
    OBVIOUS
  <2>4. \A i \in 1..m - 1 : i \in 1..m
    OBVIOUS
  <2>5. m \in 1..m /\ forward[m] \in T
    BY <1>1
  <2> HIDE DEF w
  <2>6. CASE forward[m].family \in {"IPv4", "IPv6"}
    <3> DEFINE v == Append(w, forward[m])
    <3>1. /\ v \in Seq(T) /\ Len(v) = Len(w) + 1 /\ Len(w) \in Nat
          /\ v[Len(w) + 1] = forward[m] /\ \A k \in 1..Len(w) : v[k] = w[k]
      BY <2>1, <2>5
    <3> HIDE DEF v
    <3>2. \A k \in 1..Len(v) : k \in 1..Len(w) \/ k = Len(w) + 1
      BY <3>1
    <3>3. \A k \in 1..Len(v) : \E i \in 1..m : v[k] = forward[i]
      BY <2>1, <2>4, <2>5, <3>1, <3>2
    <3>4. Len(v) # 0
      BY <3>1
    <3>5. From(v, m)
      BY <2>5, <2>6, <3>1, <3>3, <3>4
    <3>6. after[m] = v
      BY <2>2, <2>6 DEF v
    <3> QED
      BY <2>1, <3>5, <3>6
  <2>7. CASE forward[m].family \notin {"IPv4", "IPv6"}
    <3>1. From(w, m)
      BY <2>1, <2>3, <2>4, <2>7
    <3>2. after[m] = w
      BY <2>2, <2>7
    <3> QED
      BY <2>1, <3>1, <3>2
  <2> QED
    BY <2>6, <2>7
<1>6. From(after[n], n)
  <2>1. \A m \in 0..n : m \in Done
    <3> HIDE DEF Done
    <3> QED
      BY <1>1, <1>4, <1>5, Answers!UpTo
  <2>2. n \in Done
    BY <1>1, <2>1
  <2> HIDE DEF From
  <2> QED
    BY <2>2
<1> DEFINE found == Collecting!Run(<<>>, forward)
<1>7. found = after[n]
  BY <1>3
<1> HIDE DEF found
<1>8. found \in Seq(T) /\ DOMAIN found = 1..Len(found) /\ (found = <<>> <=> Len(found) = 0)
  BY <1>6, <1>7, EmptySeq
<1> QED
  BY <1>1, <1>6, <1>7, <1>8 DEF found

(* dns|:resolve, for lists of every length.                                *)
LEMMA AnswersDoBelong ==
  ASSUME NEW input \in {"address", "name"}, NEW pointer, NEW forward,
         \E T : /\ forward \in Seq(T)
                /\ \A entry \in T : entry.family \in {"IPv4", "IPv6", "other"}
  PROVE  AnswersBelong(input, pointer, forward)
<1>1. PICK T : /\ forward \in Seq(T)
               /\ \A entry \in T : entry.family \in {"IPv4", "IPv6", "other"}
  OBVIOUS
<1> DEFINE found == Collecting!Run(<<>>, forward)
           shown == resolve(input, pointer, forward)
<1>2. /\ found \in Seq(T)
      /\ \A k \in DOMAIN found : \E i \in DOMAIN forward : found[k] = forward[i]
      /\ found = <<>> <=> \A i \in DOMAIN forward : forward[i].family \notin {"IPv4", "IPv6"}
  BY <1>1, Collected
<1>3. \A i \in DOMAIN forward : forward[i].family \in {"IPv4", "IPv6", "other"}
  BY <1>1
<1> HIDE DEF found
<1>4. CASE input = "address"
  <2>1. /\ shown.addresses = <<>>
        /\ shown.reverseName = IF pointer = "name" THEN <<pointer>> ELSE <<>>
        /\ shown.success = (shown.reverseName # <<>>)
    BY <1>4 DEF resolve, resolveDNS
  <2>2. shown.success <=> pointer = "name"
    <3>1. <<pointer>> # <<>>
      OBVIOUS
    <3> HIDE DEF shown
    <3> QED
      BY <2>1, <3>1
  <2>3. Status(input, shown) = "RESOLVED" <=> shown.success
    BY <1>4 DEF Status
  <2> HIDE DEF shown
  <2> QED
    BY <1>4, <2>1, <2>2, <2>3 DEF AnswersBelong, shown
<1>5. CASE input = "name"
  <2>1. shown.addresses = found /\ shown.reverseName = <<>> /\ shown.success = (found # <<>>)
    BY <1>5 DEF resolve, resolveDNS, found
  <2>2. Status(input, shown) = "RESOLVED" <=> shown.success
    <3>1. shown.success \in BOOLEAN
      BY <2>1
    <3> HIDE DEF shown
    <3> QED
      BY <1>5, <3>1 DEF Status
  <2>3. found # <<>> <=> \E k \in DOMAIN forward : forward[k].family # "other"
    BY <1>2, <1>3
  <2>4. \A k \in DOMAIN found : found[k] \in Range(forward)
    BY <1>2 DEF Range
  <2> HIDE DEF shown
  <2> QED
    BY <1>5, <2>1, <2>2, <2>3, <2>4 DEF AnswersBelong, shown
<1> QED
  BY <1>4, <1>5

(* mac|:resolve, for tables of every length.                               *)
LEMMA AddressesDoBelong ==
  ASSUME NEW table \in Seq(Neighbour)
  PROVE  AddressBelongs(table)
<1> DEFINE usable == {k \in DOMAIN table : Usable(table[k])}
           first  == CHOOSE k \in usable : \A l \in usable : k <= l
           shown  == resolveMac(table)
<1>1. usable \in SUBSET Nat
  OBVIOUS
<1>2. CASE usable = {}
  <2>1. shown.found = FALSE
    BY <1>2 DEF resolveMac, NotResolved
  <2>2. \A k \in DOMAIN table : ~Usable(table[k])
    BY <1>2
  <2> QED
    BY <2>1, <2>2 DEF AddressBelongs, Usable
<1>3. CASE usable # {}
  <2>1. \E k \in usable : \A l \in usable : k <= l
    <3> HIDE DEF usable
    <3> QED
      BY <1>1, <1>3, Turns!LeastNatural
  <2>2. first \in usable
    <3> HIDE DEF usable
    <3> QED
      BY <2>1
  <2>3. shown = [found |-> TRUE, line |-> first, device |-> table[first].device, vendor |-> Vendor]
    BY <1>3 DEF resolveMac
  <2> HIDE DEF first
  <2>4. Usable(table[first])
    BY <2>2
  <2> QED
    BY <2>3, <2>4 DEF AddressBelongs, Usable
<1> QED
  BY <1>2, <1>3

(* os|:fingerprint.                                                        *)
LEMMA GuessesFit == GuessFits
<1> SUFFICES ASSUME NEW s \in Systems, NEW hops \in 0..63
             PROVE  LET guess == fingerprint(<<s.initial - hops>>)
                    IN  guess.system = s.name /\ (guess.confidence = "HIGH" <=> hops = 0)
  BY DEF GuessFits
<1> DEFINE ttls == <<s.initial - hops>>
           ttl == fingerprintHost(ttls)
           possible == {t \in Systems : ttl <= t.initial}
           guess == CHOOSE g \in possible : \A t \in possible : g.initial <= t.initial
<1>1. s.initial \in {64, 128, 255}
  BY DEF Systems
<1>2. LET left == s.initial - hops
      IN  left \in 1..MaxInt /\ left <= s.initial /\ left # 0
  BY <1>1, MaxIntAssumption
<1>3. ttl = s.initial - hops /\ ttl \in 1..MaxInt /\ ttl <= s.initial /\ ttl # 0
  BY <1>2 DEF fingerprintHost
<1>4. s \in possible /\ \A t \in possible : s.initial <= t.initial
  <2>1. \A t \in Systems : s.initial - hops <= t.initial => s.initial <= t.initial
    BY <1>1 DEF Systems
  <2> HIDE DEF ttl
  <2> QED
    BY <1>3, <2>1
<1>5. \A t \in Systems : t.initial = s.initial => t = s
  BY DEF Systems
<1>6. guess = s
  <2>1. guess \in possible /\ \A t \in possible : guess.initial <= t.initial
    <3> HIDE DEF possible
    <3> QED
      BY <1>4
  <2>2. guess.initial <= s.initial /\ s.initial <= guess.initial /\ guess \in Systems
    BY <1>4, <2>1
  <2>3. \A t \in Systems : t.initial \in Nat
    BY DEF Systems
  <2> HIDE DEF guess
  <2> QED
    BY <1>5, <2>2, <2>3
<1>7. possible # {}
  BY <1>4
<1>8. fingerprint(ttls) = [detected |-> TRUE, ttl |-> ttl, system |-> s.name,
                           confidence |-> IF ttl = s.initial THEN "HIGH" ELSE s.farther]
  <2> HIDE DEF possible, guess, ttl, ttls
  <2> QED
    <3>1. fingerprint(ttls) =
            CASE ttl = 0       -> Undetected
              [] possible = {} -> [Undetected EXCEPT !.detected = TRUE, !.ttl = ttl]
              [] OTHER         -> [detected |-> TRUE, ttl |-> ttl, system |-> guess.name,
                                   confidence |-> IF ttl = guess.initial THEN "HIGH"
                                                  ELSE guess.farther]
      BY Zenon DEF fingerprint, possible, guess, ttl
    <3> QED
      BY <1>3, <1>6, <1>7, <3>1
<1>9. s.farther # "HIGH" /\ (ttl = s.initial <=> hops = 0)
  <2>1. s.farther # "HIGH"
    BY DEF Systems
  <2> HIDE DEF ttl
  <2> QED
    BY <1>1, <1>3, <2>1
<1> HIDE DEF ttl, ttls
<1> QED
  BY <1>8, <1>9 DEF ttls

(* The lookups show what follows from what they are told, for banners,     *)
(* tables and lists of every length.                                       *)
LEMMA LookupsBacked == ASSUME NEW type PROVE LookupBacked(type)
<1>1. ASSUME NEW S, NEW n \in Nat, NEW s \in SeqOf(S, n) PROVE s \in Seq(S)
  <2>1. PICK m \in 0..n : s \in [1..m -> S]
    BY DEF SeqOf
  <2> QED
    BY <2>1
<1>2. ASSUME NEW bytes \in SeqOf(Bytes, BannerLimit + 2) PROVE BannerReadable(bytes)
  <2>1. BannerLimit + 2 \in Nat
    BY BannerLimitAssumption
  <2> QED
    BY <1>1, <2>1, BannersAreReadable
<1>3. ASSUME NEW table \in SeqOf(Neighbour, 2) PROVE AddressBelongs(table)
  BY <1>1, AddressesDoBelong
<1> DEFINE Entry == [family : {"IPv4", "IPv6", "other"}, address : {1, 2}]
<1>4. ASSUME NEW input \in {"address", "name"}, NEW pointer, NEW forward \in SeqOf(Entry, 2)
      PROVE  AnswersBelong(input, pointer, forward)
  <2>1. \A entry \in Entry : entry.family \in {"IPv4", "IPv6", "other"}
    OBVIOUS
  <2>2. forward \in Seq(Entry)
    BY <1>1
  <2> HIDE DEF Entry
  <2> QED
    BY <2>1, <2>2, AnswersDoBelong
<1> QED
  BY <1>2, <1>3, <1>4, GuessesFit, Zenon DEF LookupBacked

-----------------------------------------------------------------------------
(* The blocks of addresses.                                                *)

(* Powers of two.                                                          *)
LEMMA PowerOneMore == Power(0) = 1 /\ \A n \in Nat : Power(n + 1) = 2 * Power(n)
<1>1. \A state, v : Doubling!Run(state, v) = Doublings!Run(state, v)
  BY DEF Doubling!Run, Doublings!Run
<1>2. Power(0) = 1
  BY <1>1, Doublings!CountedOneMore DEF Power
<1>3. ASSUME NEW n \in Nat PROVE Power(n + 1) = 2 * Power(n)
  <2>1. Doublings!Run(1, [i \in 1..n + 1 |-> i]) = Double(Doublings!Run(1, [i \in 1..n |-> i]), n + 1)
    BY Doublings!CountedOneMore
  <2> QED
    BY <1>1, <2>1 DEF Power, Double
<1> QED
  BY <1>2, <1>3

LEMMA PowersArePositive == \A n \in Nat : Power(n) \in Nat /\ Power(n) >= 1
<1> TAKE n \in Nat
<1> DEFINE T == {k \in Nat : Power(k) \in Nat /\ Power(k) >= 1}
<1>1. 0 \in T
  BY PowerOneMore
<1>2. ASSUME NEW k \in 1..n, k - 1 \in T PROVE k \in T
  <2>1. Power(k) = 2 * Power(k - 1)
    <3>1. k - 1 \in Nat /\ (k - 1) + 1 = k
      OBVIOUS
    <3> QED
      BY <3>1, PowerOneMore
  <2> QED
    BY <1>2, <2>1
<1>3. n \in 0..n
  OBVIOUS
<1>4. n \in T
  <2> HIDE DEF T
  <2> QED
    BY <1>1, <1>2, <1>3, Doublings!UpTo
<1> QED
  BY <1>4

(* Powers multiply by adding exponents.                                    *)
LEMMA PowersMultiply ==
  ASSUME NEW m \in Nat, NEW n \in Nat PROVE Power(m + n) = Power(m) * Power(n)
<1> DEFINE T == {k \in Nat : Power(m + k) = Power(m) * Power(k)}
<1>1. 0 \in T
  <2>1. Power(m) \in Nat /\ Power(0) = 1 /\ m + 0 = m
    BY PowerOneMore, PowersArePositive
  <2> QED
    BY <2>1
<1>2. ASSUME NEW k \in 1..n, k - 1 \in T PROVE k \in T
  <2>1. Power(k) = 2 * Power(k - 1) /\ Power(m + k) = 2 * Power(m + (k - 1))
    <3>1. /\ k - 1 \in Nat /\ (k - 1) + 1 = k
          /\ m + (k - 1) \in Nat /\ (m + (k - 1)) + 1 = m + k
      OBVIOUS
    <3> QED
      BY <3>1, PowerOneMore
  <2>2. Power(m + (k - 1)) = Power(m) * Power(k - 1)
    BY <1>2
  <2>3. Power(m) \in Nat /\ Power(k - 1) \in Nat
    BY PowersArePositive
  <2>4. Power(m) * (2 * Power(k - 1)) = 2 * (Power(m) * Power(k - 1))
    BY <2>3
  <2> QED
    BY <2>1, <2>2, <2>4
<1>3. n \in 0..n
  OBVIOUS
<1>4. n \in T
  <2> HIDE DEF T
  <2> QED
    BY <1>1, <1>2, <1>3, Doublings!UpTo
<1> QED
  BY <1>4

(* Division, by what it leaves.                                            *)
LEMMA LessTimes ==
  ASSUME NEW a \in Int, NEW b \in Int, NEW p \in Nat, a <= b PROVE a * p <= b * p
<1>1. (b - a) * p >= 0
  OBVIOUS
<1>2. (b - a) * p = b * p - a * p
  OBVIOUS
<1>3. a * p \in Int /\ b * p \in Int
  OBVIOUS
<1> QED
  BY <1>1, <1>2, <1>3

(* The quotient is told by the multiple below.                             *)
LEMMA DivisionIs ==
  ASSUME NEW a \in Int, NEW p \in Nat \ {0}, NEW q \in Int
  PROVE  /\ a \div p = q <=> q * p <= a /\ a < q * p + p
         /\ q * p <= a /\ a < q * p + p => a % p = a - q * p
<1> DEFINE d == a \div p
           r == a % p
<1>1. d \in Int /\ r \in 0..p - 1 /\ a = d * p + r
  OBVIOUS
<1>2. d * p \in Int /\ q * p \in Int
  BY <1>1
<1> HIDE DEF d, r
<1>3. ASSUME q * p <= a, a < q * p + p PROVE d = q
  <2>1. CASE d < q
    <3>1. (d + 1) * p <= q * p
      BY <1>1, <2>1, LessTimes
    <3>2. (d + 1) * p = d * p + p
      BY <1>1
    <3> QED
      BY <1>1, <1>2, <1>3, <3>1, <3>2
  <2>2. CASE q < d
    <3>1. (q + 1) * p <= d * p
      BY <1>1, <2>2, LessTimes
    <3>2. (q + 1) * p = q * p + p
      BY <1>1
    <3> QED
      BY <1>1, <1>2, <1>3, <3>1, <3>2
  <2> QED
    BY <1>1, <2>1, <2>2
<1>4. d = q => q * p <= a /\ a < q * p + p
  BY <1>1, <1>2
<1>5. d = q => r = a - q * p
  BY <1>1, <1>2
<1> QED
  BY <1>3, <1>4, <1>5 DEF d, r

(* Powers grow.                                                            *)
LEMMA PowersGrow ==
  ASSUME NEW m \in Nat, NEW n \in Nat, m <= n
  PROVE  /\ Power(m) <= Power(n)
         /\ m < n => 2 * Power(m) <= Power(n)
         /\ Power(n) = Power(n - m) * Power(m)
<1>1. n - m \in Nat /\ (n - m) + m = n
  OBVIOUS
<1>2. Power(n) = Power(n - m) * Power(m)
  BY <1>1, PowersMultiply
<1>3. Power(m) \in Nat /\ Power(n) \in Nat /\ Power(n - m) \in Nat /\ Power(n - m) >= 1
  BY <1>1, PowersArePositive
<1>4. 1 * Power(m) <= Power(n - m) * Power(m)
  BY <1>3, LessTimes
<1>5. ASSUME m < n PROVE 2 * Power(m) <= Power(n)
  <2>1. n - m - 1 \in Nat /\ (n - m - 1) + 1 = n - m
    BY <1>5
  <2>2. Power(n - m) = 2 * Power(n - m - 1) /\ Power(n - m - 1) \in Nat /\ Power(n - m - 1) >= 1
    BY <2>1, PowerOneMore, PowersArePositive
  <2>3. 2 * Power(m) <= Power(n - m) * Power(m)
    BY <1>3, <2>2, LessTimes
  <2> QED
    BY <1>2, <2>3
<1> QED
  BY <1>2, <1>3, <1>4, <1>5

LEMMA WidthIs == Width \in Nat /\ Width >= 1 /\ Modulus \in Nat /\ Modulus >= 2
<1>1. Octets * OctetBits \in Nat /\ 1 * OctetBits <= Octets * OctetBits
  BY WidthAssumption, LessTimes
<1>2. Width \in Nat /\ Width >= 1
  BY <1>1, WidthAssumption DEF Width
<1>3. 2 * Power(0) <= Power(Width) /\ Power(0) = 1 /\ Power(Width) \in Nat
  <2>1. 0 \in Nat /\ 0 <= Width /\ 0 < Width
    BY <1>2
  <2> QED
    BY <1>2, <2>1, PowersGrow, PowerOneMore, PowersArePositive
<1> QED
  BY <1>2, <1>3 DEF Modulus

(* What the bits taken from two numbers leave of them.                     *)
Partly(a, b, n) ==
  Taking!Run([a |-> a, b |-> b, weight |-> 1, both |-> 0, either |-> 0], [i \in 1..n |-> i])

LEMMA PartlyOneMore ==
  ASSUME NEW a, NEW b
  PROVE  /\ Partly(a, b, 0) = [a |-> a, b |-> b, weight |-> 1, both |-> 0, either |-> 0]
         /\ \A n \in Nat : Partly(a, b, n + 1) = TakeBit(Partly(a, b, n), n + 1)
         /\ Taken(a, b) = Partly(a, b, Width)
<1> DEFINE start == [a |-> a, b |-> b, weight |-> 1, both |-> 0, either |-> 0]
<1>1. \A n : Partly(a, b, n) = Takings!Run(start, [i \in 1..n |-> i])
  BY DEF Partly, Taking!Run, Takings!Run
<1>2. /\ Takings!Run(start, [i \in 1..0 |-> i]) = start
      /\ \A n \in Nat : Takings!Run(start, [i \in 1..n + 1 |-> i])
                          = TakeBit(Takings!Run(start, [i \in 1..n |-> i]), n + 1)
  <2> HIDE DEF start
  <2> QED
    BY Takings!CountedOneMore
<1>3. Taken(a, b) = Partly(a, b, Width)
  BY DEF Taken, Partly
<1> HIDE DEF start
<1>4. \A n \in Nat : Partly(a, b, n + 1) = TakeBit(Partly(a, b, n), n + 1)
  BY <1>1, <1>2
<1>5. Partly(a, b, 0) = start
  BY <1>1, <1>2
<1> QED
  BY <1>3, <1>4, <1>5 DEF start

LEMMA HalfOfQuotient ==
  ASSUME NEW a \in Nat, NEW i \in Nat
  PROVE  /\ a \div Power(i) \in Nat
         /\ a \div Power(i + 1) = (a \div Power(i)) \div 2
         /\ a \div Power(i) = 2 * (a \div Power(i + 1)) + ((a \div Power(i)) % 2)
<1> DEFINE p == Power(i)
           d == a \div p
           h == d \div 2
           x == d % 2
<1>1. p \in Nat \ {0} /\ Power(i + 1) = 2 * p
  BY PowersArePositive, PowerOneMore
<1> HIDE DEF p
<1>2. d \in Int /\ d * p <= a /\ a < d * p + p
  BY <1>1, DivisionIs
<1>3. d >= 0
  <2>1. ASSUME d <= -1 PROVE FALSE
    <3>1. (d + 1) * p <= 0 * p
      BY <1>1, <1>2, <2>1, LessTimes
    <3>2. (d + 1) * p = d * p + p /\ 0 * p = 0 /\ d * p \in Int
      BY <1>1, <1>2
    <3> QED
      BY <1>1, <1>2, <3>1, <3>2
  <2> QED
    BY <1>2, <2>1
<1> HIDE DEF d
<1>4. h \in Nat /\ x \in {0, 1} /\ d = 2 * h + x
  BY <1>2, <1>3
<1> HIDE DEF h, x
<1>5. d * p = h * (2 * p) + x * p
  BY <1>1, <1>4
<1>6. x * p \in {0, p} /\ h * (2 * p) \in Int
  BY <1>1, <1>4
<1>7. h * (2 * p) <= a /\ a < h * (2 * p) + 2 * p
  BY <1>1, <1>2, <1>5, <1>6
<1>8. a \div (2 * p) = h
  BY <1>1, <1>4, <1>7, DivisionIs
<1> QED
  BY <1>1, <1>3, <1>4, <1>8 DEF p, d, h, x

Left(taken, a, b, n) ==
  /\ taken = [a |-> a \div Power(n), b |-> b \div Power(n), weight |-> Power(n),
              both |-> taken.both, either |-> taken.either]
  /\ taken.both \in Nat /\ taken.either \in Nat

(* What the loop over the bits leaves of two numbers.                      *)
LEMMA PartlyLeaves ==
  ASSUME NEW a \in Nat, NEW b \in Nat, NEW n \in Nat PROVE Left(Partly(a, b, n), a, b, n)
<1> DEFINE T == {i \in Nat : Left(Partly(a, b, i), a, b, i)}
<1>1. 0 \in T
  <2>1. a \div 1 = a /\ b \div 1 = b /\ Power(0) = 1
    BY PowerOneMore
  <2>2. a \div Power(0) = a /\ b \div Power(0) = b
    BY <2>1
  <2> QED
    BY <2>1, <2>2, PartlyOneMore DEF Left
<1>2. ASSUME NEW k \in 1..n, k - 1 \in T PROVE k \in T
  <2> DEFINE i == k - 1
             s == Partly(a, b, i)
             t == Partly(a, b, k)
  <2>1. i \in Nat /\ i + 1 = k /\ k \in Nat
    OBVIOUS
  <2>2. t = TakeBit(s, k)
    BY <2>1, PartlyOneMore
  <2>3. Left(s, a, b, i)
    BY <1>2
  <2>4. /\ a \div Power(k) = (a \div Power(i)) \div 2
        /\ b \div Power(k) = (b \div Power(i)) \div 2
        /\ Power(k) = 2 * Power(i) /\ Power(i) \in Nat
    <3> HIDE DEF i
    <3>1. /\ a \div Power(i + 1) = (a \div Power(i)) \div 2
          /\ b \div Power(i + 1) = (b \div Power(i)) \div 2
      BY <2>1, HalfOfQuotient
    <3>2. Power(i + 1) = 2 * Power(i) /\ Power(i) \in Nat
      BY <2>1, PowerOneMore, PowersArePositive
    <3> QED
      BY <2>1, <3>1, <3>2
  <2> HIDE DEF s, t, i
  <2>5. /\ s.a = a \div Power(i) /\ s.b = b \div Power(i) /\ s.weight = Power(i)
        /\ s.both \in Nat /\ s.either \in Nat
    BY <2>3 DEF Left
  <2>6. /\ t.a = a \div Power(k) /\ t.b = b \div Power(k) /\ t.weight = Power(k)
        /\ t = [a |-> t.a, b |-> t.b, weight |-> t.weight, both |-> t.both, either |-> t.either]
    BY <2>2, <2>4, <2>5 DEF TakeBit
  <2>7. t.both \in Nat /\ t.either \in Nat
    BY <2>2, <2>4, <2>5 DEF TakeBit
  <2> QED
    BY <2>1, <2>6, <2>7 DEF Left, t
<1>3. n \in 0..n
  OBVIOUS
<1> HIDE DEF T
<1>4. n \in T
  BY <1>1, <1>2, <1>3, Doublings!UpTo
<1> QED
  BY <1>4 DEF T

(* What one bit more adds.                                                 *)
LEMMA PartlyAdds ==
  ASSUME NEW a \in Nat, NEW b \in Nat, NEW n \in Nat
  PROVE  LET s == Partly(a, b, n)
             t == Partly(a, b, n + 1)
             x == (a \div Power(n)) % 2
             y == (b \div Power(n)) % 2
         IN  /\ t.both = s.both + (IF x = 1 /\ y = 1 THEN Power(n) ELSE 0)
             /\ t.either = s.either + (IF x = 1 \/ y = 1 THEN Power(n) ELSE 0)
<1>1. Partly(a, b, n + 1) = TakeBit(Partly(a, b, n), n + 1)
  BY PartlyOneMore
<1>2. Left(Partly(a, b, n), a, b, n)
  BY PartlyLeaves
<1>3. /\ Partly(a, b, n).a = a \div Power(n) /\ Partly(a, b, n).b = b \div Power(n)
      /\ Partly(a, b, n).weight = Power(n)
  BY <1>2 DEF Left
<1> QED
  BY <1>1, <1>3 DEF TakeBit

(* What a mask of high bits selects.                                       *)
LEMMA MaskBits ==
  ASSUME NEW k \in 0..Width, NEW i \in 0..(Width - 1)
  PROVE  ((Modulus - Power(k)) \div Power(i)) % 2 = IF i < k THEN 0 ELSE 1
<1> DEFINE p == Power(i)
           r == Power(k)
<1>1. i \in Nat /\ k \in Nat /\ Width \in Nat /\ i < Width /\ k <= Width
  BY WidthIs
<1>2. p \in Nat \ {0} /\ r \in Nat /\ r >= 1
  BY <1>1, PowersArePositive
<1> DEFINE w == Power(Width - i)
<1>3. w \in Nat /\ Power(Width) = w * p
  <2>1. Width - i \in Nat
    BY <1>1
  <2> QED
    BY <1>1, <2>1, PowersArePositive, PowersGrow
<1>4. PICK v \in Nat : w = 2 * v
  <2>1. Width - i - 1 \in Nat /\ (Width - i - 1) + 1 = Width - i
    BY <1>1
  <2> QED
    BY <2>1, PowerOneMore, PowersArePositive
<1> HIDE DEF w
<1>5. CASE i < k
  <2> DEFINE u == Power(k - i)
  <2>1. k - i \in Nat /\ k - i - 1 \in Nat /\ (k - i - 1) + 1 = k - i /\ i <= k
    BY <1>1, <1>5
  <2>2. r = u * p
    BY <1>1, <2>1, PowersGrow
  <2>3. PICK t \in Nat : u = 2 * t
    BY <2>1, PowerOneMore, PowersArePositive
  <2> HIDE DEF u, p, r
  <2>4. (w - u) * p = Power(Width) - r
    BY <1>2, <1>3, <1>4, <2>2, <2>3
  <2>5. w - u \in Int /\ Power(Width) - r \in Int
    BY <1>2, <1>3, <1>4, <2>3
  <2>6. (Power(Width) - r) \div p = w - u
    BY <1>2, <2>4, <2>5, DivisionIs
  <2>7. (w - u) % 2 = 0
    BY <1>4, <2>3
  <2> QED
    BY <1>5, <2>6, <2>7 DEF p, r, Modulus
<1>6. CASE ~(i < k)
  <2>1. r <= p
    BY <1>1, <1>6, PowersGrow
  <2> HIDE DEF p, r
  <2>2. (w - 1) * p = Power(Width) - p
    BY <1>2, <1>3
  <2>3. /\ w - 1 \in Int /\ Power(Width) - r \in Int
        /\ (w - 1) * p <= Power(Width) - r /\ Power(Width) - r < (w - 1) * p + p
    <3>1. Power(Width) \in Nat
      BY <1>1, PowersArePositive
    <3> QED
      BY <1>2, <1>3, <2>1, <2>2, <3>1
  <2>4. (Power(Width) - r) \div p = w - 1
    BY <1>2, <2>3, DivisionIs
  <2>5. (w - 1) % 2 = 1
    BY <1>4
  <2> QED
    BY <1>6, <2>4, <2>5 DEF p, r, Modulus
<1> QED
  BY <1>5, <1>6

LEMMA Masked ==
  ASSUME NEW a \in Address, NEW k \in 0..Width
  PROVE  And(a, Modulus - Power(k)) = (a \div Power(k)) * Power(k)
<1> DEFINE b == Modulus - Power(k)
           both(i) == Partly(a, b, i).both
           kept == (a \div Power(k)) * Power(k)
           Low  == {i \in Nat : both(i) = 0}
           High == {j \in Nat : both(k + j) + (a \div Power(k + j)) * Power(k + j) = kept}
<1>1. a \in Nat /\ k \in Nat /\ Width \in Nat /\ k <= Width /\ Modulus \in Nat /\ a < Modulus
  BY WidthIs DEF Address
<1>2. b \in Nat
  <2>1. Power(k) <= Power(Width) /\ Power(k) \in Nat /\ Power(Width) \in Nat
    BY <1>1, PowersGrow, PowersArePositive
  <2> QED
    BY <2>1 DEF Modulus
<1>3. ASSUME NEW i \in 0..(Width - 1)
      PROVE  both(i + 1) = both(i) + (IF (a \div Power(i)) % 2 = 1 /\ k <= i THEN Power(i) ELSE 0)
  <2>1. i \in Nat /\ (b \div Power(i)) % 2 = IF i < k THEN 0 ELSE 1
    BY MaskBits
  <2>2. both(i + 1) = both(i) + (IF (a \div Power(i)) % 2 = 1 /\ (b \div Power(i)) % 2 = 1
                                 THEN Power(i) ELSE 0)
    <3> HIDE DEF b
    <3> QED
      BY <1>1, <1>2, <2>1, PartlyAdds
  <2> HIDE DEF b, both
  <2> QED
    BY <1>1, <2>1, <2>2
<1>4. both(0) = 0 /\ \A i \in Nat : both(i) \in Nat
  <2> HIDE DEF b
  <2>1. \A i \in Nat : Left(Partly(a, b, i), a, b, i)
    BY <1>1, <1>2, PartlyLeaves
  <2>2. Partly(a, b, 0).both = 0
    BY PartlyOneMore
  <2> QED
    BY <2>1, <2>2 DEF Left
<1>5. And(a, b) = both(Width)
  BY PartlyOneMore DEF And
<1> HIDE DEF b, both
<1>6. both(k) = 0
  <2>1. 0 \in Low
    BY <1>4
  <2>2. ASSUME NEW i \in 1..k, i - 1 \in Low PROVE i \in Low
    <3>1. i - 1 \in 0..(Width - 1) /\ (i - 1) + 1 = i /\ ~(k <= i - 1)
      BY <1>1
    <3>2. both((i - 1) + 1) = both(i - 1)
      BY <1>3, <1>4, <3>1
    <3> QED
      BY <2>2, <3>1, <3>2
  <2>3. k \in 0..k
    BY <1>1
  <2> HIDE DEF Low
  <2>4. k \in Low
    BY <1>1, <2>1, <2>2, <2>3, Doublings!UpTo
  <2> QED
    BY <2>4 DEF Low
<1>7. both(Width) + (a \div Power(Width)) * Power(Width) = kept
  <2> DEFINE n == Width - k
  <2>0. n \in Nat /\ k + n = Width
    BY <1>1
  <2>1. 0 \in High
    <3>1. k + 0 = k /\ kept \in Int
      BY <1>1, HalfOfQuotient, PowersArePositive
    <3> QED
      BY <1>6, <3>1
  <2>2. ASSUME NEW j \in 1..n, j - 1 \in High PROVE j \in High
    <3> DEFINE i == k + (j - 1)
               d == a \div Power(i)
               h == a \div Power(i + 1)
               p == Power(i)
    <3>1. i \in 0..(Width - 1) /\ i \in Nat /\ i + 1 = k + j /\ k <= i /\ j \in Nat
      BY <1>1, <2>0
    <3>2. both(i) + d * p = kept
      BY <2>2
    <3>3. both(i + 1) = both(i) + (IF d % 2 = 1 THEN p ELSE 0) /\ both(i) \in Nat
      BY <1>3, <1>4, <3>1
    <3>4. d \in Nat /\ h \in Nat /\ d = 2 * h + (d % 2) /\ Power(i + 1) = 2 * p /\ p \in Nat
      <4> HIDE DEF i
      <4>1. i + 1 \in Nat
        BY <3>1
      <4> QED
        BY <1>1, <3>1, <4>1, HalfOfQuotient, PowerOneMore, PowersArePositive
    <3> HIDE DEF i, d, h, p
    <3>5. d % 2 \in {0, 1}
      BY <3>4
    <3>6. d * p = h * (2 * p) + (IF d % 2 = 1 THEN p ELSE 0)
      <4>1. CASE d % 2 = 1
        BY <3>4, <4>1
      <4>2. CASE d % 2 = 0
        BY <3>4, <4>2
      <4> QED
        BY <3>5, <4>1, <4>2
    <3>7. h * (2 * p) \in Nat
      BY <3>4
    <3>8. both(i + 1) + h * (2 * p) = kept
      <4> HIDE DEF kept
      <4> QED
        BY <3>2, <3>3, <3>4, <3>6, <3>7
    <3>9. both(i + 1) + h * Power(i + 1) = kept
      BY <3>4, <3>8
    <3> QED
      BY <3>1, <3>9 DEF h
  <2>3. n \in 0..n
    BY <2>0
  <2> HIDE DEF High, n
  <2>4. n \in High
    BY <2>0, <2>1, <2>2, <2>3, Doublings!UpTo
  <2> QED
    BY <2>0, <2>4 DEF High
<1>8. a \div Power(Width) = 0
  BY <1>1, DivisionIs DEF Modulus
<1>9. 0 * Power(Width) = 0
  BY <1>1, PowersArePositive
<1> QED
  BY <1>1, <1>4, <1>5, <1>7, <1>8, <1>9 DEF b

(* What the complement of such a mask adds.                                *)
LEMMA RestBits ==
  ASSUME NEW q \in Nat, NEW k \in Nat, NEW i \in Nat
  PROVE  /\ i < k => ((q * Power(k)) \div Power(i)) % 2 = 0
         /\ ((Power(k) - 1) \div Power(i)) % 2 = IF i < k THEN 1 ELSE 0
<1> DEFINE p == Power(i)
           r == Power(k)
<1>1. p \in Nat \ {0} /\ r \in Nat /\ r >= 1
  BY PowersArePositive
<1>2. CASE i < k
  <2> DEFINE u == Power(k - i)
  <2>1. k - i \in Nat /\ k - i - 1 \in Nat /\ (k - i - 1) + 1 = k - i /\ i <= k
    BY <1>2
  <2>2. r = u * p
    BY <2>1, PowersGrow
  <2>3. PICK t \in Nat : u = 2 * t
    BY <2>1, PowerOneMore, PowersArePositive
  <2> HIDE DEF u, p, r
  <2>4. q * u \in Nat /\ (q * u) * p = q * r /\ q * r \in Nat
    <3>1. q * u \in Nat /\ q * r \in Nat
      BY <1>1, <2>3
    <3>2. (q * u) * p = q * (u * p)
      BY <1>1, <2>3
    <3> QED
      BY <2>2, <3>1, <3>2
  <2>5. (q * r) \div p = q * u
    BY <1>1, <2>4, DivisionIs
  <2>6. q * u = 2 * (q * t) /\ q * t \in Nat
    BY <2>3
  <2>7. (q * u) % 2 = 0
    BY <2>6
  <2>8. (u - 1) * p = r - p
    BY <1>1, <2>2, <2>3
  <2>9. u - 1 \in Int /\ r - 1 \in Int /\ (u - 1) * p <= r - 1 /\ r - 1 < (u - 1) * p + p
    BY <1>1, <2>3, <2>8
  <2>10. (r - 1) \div p = u - 1
    BY <1>1, <2>9, DivisionIs
  <2>11. (u - 1) % 2 = 1
    BY <2>3
  <2> QED
    BY <1>2, <2>5, <2>7, <2>10, <2>11 DEF p, r
<1>3. CASE ~(i < k)
  <2>1. r <= p
    BY <1>3, PowersGrow
  <2> HIDE DEF p, r
  <2>2. 0 * p = 0 /\ r - 1 \in Int /\ 0 <= r - 1 /\ r - 1 < 0 * p + p
    BY <1>1, <2>1
  <2>3. (r - 1) \div p = 0
    BY <1>1, <2>2, DivisionIs
  <2> QED
    BY <1>3, <2>3 DEF p, r
<1> QED
  BY <1>2, <1>3

LEMMA Filled ==
  ASSUME NEW q \in Nat, NEW k \in 0..Width, q * Power(k) < Modulus
  PROVE  Or(q * Power(k), Power(k) - 1) = q * Power(k) + (Power(k) - 1)
<1> DEFINE a == q * Power(k)
           b == Power(k) - 1
           either(i) == Partly(a, b, i).either
           Low  == {i \in Nat : either(i) = Power(i) - 1}
           High == {j \in Nat : (either(k + j) - b) + (a \div Power(k + j)) * Power(k + j) = a}
<1>1. /\ k \in Nat /\ Width \in Nat /\ k <= Width /\ Modulus \in Nat /\ a < Modulus
      /\ Power(k) \in Nat /\ Power(k) >= 1
  BY WidthIs, PowersArePositive
<1>2. a \in Nat /\ b \in Nat
  BY <1>1
<1>3. ASSUME NEW i \in 0..(Width - 1)
      PROVE  either(i + 1) = either(i) + (IF (a \div Power(i)) % 2 = 1 \/ i < k THEN Power(i) ELSE 0)
  <2>1. i \in Nat /\ (b \div Power(i)) % 2 = IF i < k THEN 1 ELSE 0
    BY <1>1, RestBits
  <2>2. either(i + 1) = either(i) + (IF (a \div Power(i)) % 2 = 1 \/ (b \div Power(i)) % 2 = 1
                                     THEN Power(i) ELSE 0)
    <3> HIDE DEF a, b
    <3> QED
      BY <1>1, <1>2, <2>1, PartlyAdds
  <2> HIDE DEF a, b, either
  <2> QED
    BY <1>1, <2>1, <2>2
<1>4. either(0) = 0 /\ \A i \in Nat : either(i) \in Nat
  <2> HIDE DEF a, b
  <2>1. \A i \in Nat : Left(Partly(a, b, i), a, b, i)
    BY <1>1, <1>2, PartlyLeaves
  <2>2. Partly(a, b, 0).either = 0
    BY PartlyOneMore
  <2> QED
    BY <2>1, <2>2 DEF Left
<1>5. Or(a, b) = either(Width)
  BY PartlyOneMore DEF Or
<1>6. \A i \in Nat : i < k => (a \div Power(i)) % 2 = 0
  BY <1>1, RestBits
<1>7. a \in Nat /\ b \in Nat /\ b = Power(k) - 1
  BY <1>2
<1> HIDE DEF a, b, either
<1>8. either(k) = b
  <2>1. 0 \in Low
    BY <1>4, PowerOneMore
  <2>2. ASSUME NEW i \in 1..k, i - 1 \in Low PROVE i \in Low
    <3>1. i - 1 \in 0..(Width - 1) /\ (i - 1) + 1 = i /\ i - 1 < k /\ i - 1 \in Nat
      BY <1>1
    <3>2. either((i - 1) + 1) = either(i - 1) + Power(i - 1)
      BY <1>3, <3>1
    <3>3. Power((i - 1) + 1) = 2 * Power(i - 1) /\ Power(i - 1) \in Nat
      BY <3>1, PowerOneMore, PowersArePositive
    <3>4. either(i - 1) = Power(i - 1) - 1
      BY <2>2
    <3>5. either(i) = Power(i) - 1
      BY <3>1, <3>2, <3>3, <3>4
    <3> QED
      BY <3>5
  <2>3. k \in 0..k
    BY <1>1
  <2> HIDE DEF Low
  <2>4. k \in Low
    BY <1>1, <2>1, <2>2, <2>3, Doublings!UpTo
  <2> QED
    BY <1>7, <2>4 DEF Low
<1>9. (either(Width) - b) + (a \div Power(Width)) * Power(Width) = a
  <2> DEFINE n == Width - k
  <2>0. n \in Nat /\ k + n = Width
    BY <1>1
  <2>1. 0 \in High
    <3>1. k + 0 = k
      BY <1>1
    <3>2. (a \div Power(k)) * Power(k) = a
      <4>1. a \div Power(k) = q
        BY <1>1, <1>7, DivisionIs DEF a
      <4> QED
        BY <4>1 DEF a
    <3> QED
      BY <1>7, <1>8, <3>1, <3>2
  <2>2. ASSUME NEW j \in 1..n, j - 1 \in High PROVE j \in High
    <3> DEFINE i == k + (j - 1)
               d == a \div Power(i)
               h == a \div Power(i + 1)
               p == Power(i)
    <3>1. i \in 0..(Width - 1) /\ i \in Nat /\ i + 1 = k + j /\ ~(i < k) /\ j \in Nat
      BY <1>1, <2>0
    <3>2. (either(i) - b) + d * p = a
      BY <2>2
    <3>3. either(i + 1) = either(i) + (IF d % 2 = 1 THEN p ELSE 0) /\ either(i) \in Nat
      BY <1>3, <1>4, <3>1
    <3>4. d \in Nat /\ h \in Nat /\ d = 2 * h + (d % 2) /\ Power(i + 1) = 2 * p /\ p \in Nat
      <4> HIDE DEF i
      <4>1. i + 1 \in Nat
        BY <3>1
      <4> QED
        BY <1>7, <3>1, <4>1, HalfOfQuotient, PowerOneMore, PowersArePositive
    <3> HIDE DEF i, d, h, p
    <3>5. d % 2 \in {0, 1}
      BY <3>4
    <3>6. d * p = h * (2 * p) + (IF d % 2 = 1 THEN p ELSE 0)
      <4>1. CASE d % 2 = 1
        BY <3>4, <4>1
      <4>2. CASE d % 2 = 0
        BY <3>4, <4>2
      <4> QED
        BY <3>5, <4>1, <4>2
    <3>7. h * (2 * p) \in Nat
      BY <3>4
    <3>8. (either(i + 1) - b) + h * (2 * p) = a
      <4> DEFINE added == IF d % 2 = 1 THEN p ELSE 0
                 rest  == h * (2 * p)
      <4>1. added \in Nat /\ rest \in Nat
        BY <3>4, <3>7
      <4>2. (either(i) - b) + (rest + added) = a /\ either(i + 1) = either(i) + added
        BY <3>2, <3>3, <3>6
      <4> HIDE DEF added, rest
      <4>3. (either(i + 1) - b) + rest = a
        BY <1>7, <3>3, <4>1, <4>2
      <4> QED
        BY <4>3 DEF rest
    <3>9. (either(i + 1) - b) + h * Power(i + 1) = a
      BY <3>4, <3>8
    <3> QED
      BY <3>1, <3>9 DEF h
  <2>3. n \in 0..n
    BY <2>0
  <2> HIDE DEF High, n
  <2>4. n \in High
    BY <2>0, <2>1, <2>2, <2>3, Doublings!UpTo
  <2> QED
    BY <2>0, <2>4 DEF High
<1>10. a \div Power(Width) = 0
  <2>1. a \in Int /\ Power(Width) \in Nat \ {0} /\ 0 * Power(Width) = 0 /\ a < Power(Width)
    BY <1>1, <1>7, PowersArePositive DEF Modulus
  <2>2. 0 * Power(Width) <= a /\ a < 0 * Power(Width) + Power(Width) /\ 0 \in Int
    BY <1>7, <2>1
  <2> QED
    BY <2>1, <2>2, DivisionIs
<1>11. 0 * Power(Width) = 0
  BY <1>1, PowersArePositive
<1>12. either(Width) = a + b
  BY <1>1, <1>4, <1>7, <1>9, <1>10, <1>11
<1> QED
  BY <1>5, <1>12 DEF a, b

(* The mask of a prefix.                                                   *)
LEMMA ShiftedMask ==
  ASSUME NEW k \in 0..Width PROVE ShiftLeft(Modulus - 1, k) = Modulus - Power(k)
<1> DEFINE m == Power(Width)
           r == Power(k)
<1>1. k \in Nat /\ Width \in Nat /\ k <= Width
  BY WidthIs
<1>2. m \in Nat \ {0} /\ r \in Nat /\ r >= 1 /\ r <= m
  BY <1>1, PowersArePositive, PowersGrow
<1> HIDE DEF m, r
<1>3. (m - 1) * r = (r - 1) * m + (m - r) /\ (r - 1) * m \in Int /\ (m - 1) * r \in Int
  BY <1>2
<1>4. ((m - 1) * r) % m = m - r
  <2>1. r - 1 \in Int /\ (r - 1) * m <= (m - 1) * r /\ (m - 1) * r < (r - 1) * m + m
    BY <1>2, <1>3
  <2>2. ((m - 1) * r) % m = (m - 1) * r - (r - 1) * m
    BY <1>2, <1>3, <2>1, DivisionIs
  <2> QED
    BY <1>2, <1>3, <2>2
<1> QED
  BY <1>4 DEF ShiftLeft, Wrap, Modulus, m, r

(* Masks are what is left above a power, in both computations.             *)
LEMMA MasksAre ==
  ASSUME NEW prefix \in 0..Width
  PROVE  /\ netmask(prefix) = Modulus - Power(Width - prefix)
         /\ prefixToMask(prefix) = Modulus - Power(Width - prefix)
<1>1. Width \in Nat /\ Modulus \in Nat /\ Width - prefix \in 0..Width /\ prefix \in Nat
  BY WidthIs
<1>2. ShiftLeft(Modulus - 1, Width - prefix) = Modulus - Power(Width - prefix)
  BY <1>1, ShiftedMask
<1>3. CASE prefix = 0
  <2>1. Width - prefix = Width
    BY <1>1, <1>3
  <2>2. Modulus - Power(Width - prefix) = 0
    BY <1>1, <2>1 DEF Modulus
  <2> QED
    BY <1>3, <2>2 DEF netmask, prefixToMask
<1>4. CASE prefix # 0 /\ prefix < Width
  BY <1>1, <1>2, <1>4 DEF netmask, prefixToMask
<1>5. CASE prefix # 0 /\ prefix = Width
  <2>1. Width - prefix = 0
    BY <1>1, <1>5
  <2>2. Power(Width - prefix) = 1
    BY <2>1, PowerOneMore
  <2> QED
    BY <1>1, <1>2, <1>5, <2>2 DEF netmask, prefixToMask
<1> QED
  BY <1>1, <1>3, <1>4, <1>5

LEMMA SmallRemainder == ASSUME NEW m \in Nat \ {0}, NEW x \in 0..(m - 1) PROVE x % m = x
<1> DEFINE q == 0
<1>1. q \in Int /\ x \in Int /\ q * m = 0
  OBVIOUS
<1> HIDE DEF q
<1>2. q * m <= x /\ x < q * m + m
  BY <1>1
<1>3. x % m = x - q * m
  BY <1>1, <1>2, DivisionIs
<1> QED
  BY <1>1, <1>3

(* Intervals.                                                              *)
LEMMA IntervalIs ==
  ASSUME NEW a \in Int, NEW b \in Int, a <= b
  PROVE  Min(a..b) = a /\ Max(a..b) = b /\ Cardinality(a..b) = b - a + 1
<1>1. a \in a..b /\ b \in a..b
  OBVIOUS
<1>2. ASSUME NEW x \in a..b, \A y \in a..b : x <= y PROVE x = a
  BY <1>1, <1>2
<1>3. ASSUME NEW x \in a..b, \A y \in a..b : x >= y PROVE x = b
  BY <1>1, <1>3
<1>4. Min(a..b) = a
  <2>1. \E x \in a..b : \A y \in a..b : x <= y
    BY <1>1
  <2> QED
    BY <1>2, <2>1 DEF Min
<1>5. Max(a..b) = b
  <2>1. \E x \in a..b : \A y \in a..b : x >= y
    BY <1>1
  <2> QED
    BY <1>3, <2>1 DEF Max
<1>6. Cardinality(a..b) = b - a + 1
  BY FS_Interval
<1> QED
  BY <1>4, <1>5, <1>6

(* A block is an interval, which begins where the mask cuts.               *)
LEMMA BlockIs ==
  ASSUME NEW address \in Address, NEW prefix \in 0..Width
  PROVE  LET p == Power(Width - prefix)
             n == And(address, Modulus - p)
         IN  /\ p \in Nat /\ p >= 1
             /\ n \in Nat /\ n + p <= Modulus /\ \E q \in Nat : n = q * p
             /\ Block(address, prefix) = n..(n + p - 1)
<1> DEFINE k == Width - prefix
           p == Power(k)
           q == address \div p
           n == q * p
<1>1. /\ k \in 0..Width /\ k \in Nat /\ Width \in Nat /\ k <= Width /\ Width - k \in Nat
      /\ address \in Nat /\ address < Modulus
  BY WidthIs DEF Address
<1>2. p \in Nat \ {0} /\ p >= 1 /\ q \in Nat
  <2> HIDE DEF k
  <2>1. Power(k) \in Nat /\ Power(k) >= 1 /\ address \div Power(k) \in Nat
    BY <1>1, PowersArePositive, HalfOfQuotient
  <2> QED
    BY <2>1
<1>3. And(address, Modulus - p) = n
  BY <1>1, Masked
<1>4. n \in Nat /\ n <= address
  <2>1. address \div p = q /\ address \in Int
    BY <1>1
  <2> HIDE DEF p, q
  <2>2. q \in Int
    BY <1>2
  <2>3. q * p <= address
    BY <1>2, <2>1, <2>2, DivisionIs
  <2>4. q * p \in Nat
    BY <1>2
  <2> QED
    BY <2>3, <2>4
<1>5. n + p <= Modulus
  <2> DEFINE r == Power(Width - k)
  <2>1. Modulus = r * p /\ r \in Nat
    BY <1>1, PowersGrow, PowersArePositive DEF Modulus
  <2> HIDE DEF r, q, p
  <2>2. q < r
    <3>1. ASSUME r <= q PROVE FALSE
      <4>1. r * p <= q * p
        BY <1>2, <2>1, <3>1, LessTimes
      <4> QED
        BY <1>1, <1>4, <2>1, <4>1
    <3> QED
      BY <1>2, <2>1, <3>1
  <2>3. (q + 1) * p <= r * p
    BY <1>2, <2>1, <2>2, LessTimes
  <2>4. (q + 1) * p = q * p + p
    BY <1>2
  <2> QED
    BY <2>1, <2>3, <2>4
<1> DEFINE last == n + p - 1
<1>6. Block(address, prefix) = n..last
  <2>1. \A a \in Address : a \in Nat
    BY WidthIs DEF Address
  <2>2. ASSUME NEW a \in Address PROVE a \div p = q <=> n <= a /\ a < n + p
    <3>1. n = q * p /\ a \in Int /\ q \in Int
      BY <1>2, <2>1
    <3> HIDE DEF p, q, n
    <3>2. a \div p = q <=> q * p <= a /\ a < q * p + p
      BY <1>2, <3>1, DivisionIs
    <3> QED
      BY <3>1, <3>2
  <2>3. Block(address, prefix) = {a \in Address : a \div p = q}
    BY DEF Block
  <2> HIDE DEF p, q, n
  <2>4. {a \in Address : a \div p = q} = {a \in Address : n <= a /\ a < n + p}
    BY <2>2
  <2>5. {a \in Address : n <= a /\ a < n + p} = n..last
    BY <1>2, <1>4, <1>5, WidthIs DEF Address
  <2> QED
    BY <2>3, <2>4, <2>5
<1> HIDE DEF q
<1> QED
  BY <1>2, <1>3, <1>4, <1>5, <1>6

(* The hosts of a block of p addresses.                                    *)
LEMMA HostsAre ==
  ASSUME NEW n \in Nat, NEW p \in Nat, p >= 1
  PROVE  HostsOf(n..(n + p - 1)) = IF p > 2 THEN (n + 1)..(n + p - 2) ELSE n..(n + p - 1)
<1> DEFINE b == n + p - 1
<1>1. b \in Nat /\ n <= b /\ b - n + 1 = p
  OBVIOUS
<1>2. Min(n..b) = n /\ Max(n..b) = b /\ Cardinality(n..b) = p
  BY <1>1, IntervalIs
<1>3. (n..b) \ {n, b} = (n + 1)..(b - 1) /\ b - 1 = n + p - 2
  BY <1>1
<1> HIDE DEF b
<1>4. HostsOf(n..b) = IF p > 2 THEN (n + 1)..(n + p - 2) ELSE n..b
  BY <1>2, <1>3 DEF HostsOf
<1> QED
  BY <1>4 DEF b

(* The sizes of the blocks.                                                *)
LEMMA SizesAre ==
  ASSUME NEW prefix \in 0..Width
  PROVE  LET p == Power(Width - prefix)
         IN  /\ prefix <= Width - 2 => p >= 4
             /\ prefix = Width - 1 => p = 2
             /\ prefix = Width => p = 1
<1>1. Width \in Nat /\ Width - prefix \in Nat /\ prefix \in Nat
  BY WidthIs
<1>2. Power(0) = 1 /\ Power(1) = 2 /\ Power(2) = 4
  <2>1. 0 + 1 = 1 /\ 1 + 1 = 2
    OBVIOUS
  <2>2. Power(0 + 1) = 2 * Power(0) /\ Power(1 + 1) = 2 * Power(1) /\ Power(0) = 1
    BY PowerOneMore
  <2> QED
    BY <2>1, <2>2
<1>3. ASSUME prefix <= Width - 2 PROVE Power(Width - prefix) >= 4
  <2>1. 2 \in Nat /\ 2 <= Width - prefix
    BY <1>1, <1>3
  <2>2. Power(2) <= Power(Width - prefix) /\ Power(Width - prefix) \in Nat
    BY <1>1, <2>1, PowersGrow, PowersArePositive
  <2> QED
    BY <1>2, <2>2
<1>4. ASSUME prefix = Width - 1 PROVE Width - prefix = 1
  BY <1>1, <1>4
<1>5. ASSUME prefix = Width PROVE Width - prefix = 0
  BY <1>1, <1>5
<1> QED
  BY <1>2, <1>3, <1>4, <1>5

(* The calculator describes the block of a word that both its parsers      *)
(* accept.                                                                 *)
LEMMA Calculated ==
  ASSUME NEW word, NEW prefix \in 0..Width, NEW address \in Address,
         parseCIDR(word).ok, parseCIDR(word).prefix = prefix,
         inet_pton(parseCIDR(word).ip) = [ok |-> TRUE, value |-> address]
  PROVE  calculate(word).valid /\ Describes(calculate(word), address, prefix)
<1> DEFINE p == Power(Width - prefix)
           mask == netmask(prefix)
           n == And(address, mask)
           b == Or(n, Not(mask))
           total == b - n + 1
           hosts == IF prefix <= Width - 2
                    THEN <<Wrap(n + 1), Wrap(b - 1), IF total >= 2 THEN total - 2 ELSE 0>>
                    ELSE IF prefix = Width - 1 THEN <<n, b, 2>> ELSE <<n, n, 1>>
           r == calculate(word)
           block == Block(address, prefix)
<1>1. r = [valid |-> TRUE, prefix |-> prefix, network |-> n,
           broadcast |-> b, netmask |-> mask, wildcard |-> Not(mask),
           totalAddresses |-> total, firstHost |-> hosts[1],
           lastHost |-> hosts[2], usableHosts |-> hosts[3]]
  BY DEF calculate
<1>2. /\ Width \in Nat /\ Modulus \in Nat /\ Modulus >= 2 /\ prefix \in Nat /\ prefix <= Width
      /\ Width - prefix \in 0..Width
  BY WidthIs
<1>3. mask = Modulus - p /\ Not(mask) = p - 1
  <2>1. mask = Modulus - p
    BY MasksAre
  <2>2. p \in Nat
    BY <1>2, PowersArePositive
  <2> HIDE DEF mask, p
  <2> QED
    BY <1>2, <2>1, <2>2 DEF Not
<1>4. /\ p \in Nat /\ p >= 1 /\ n \in Nat /\ n + p <= Modulus /\ \E q \in Nat : n = q * p
      /\ block = n..(n + p - 1)
  BY <1>3, BlockIs
<1> HIDE DEF mask, n, block
<1>5. b = n + p - 1
  <2>1. PICK q \in Nat : n = q * p
    BY <1>4
  <2>2. n < Modulus
    BY <1>2, <1>4
  <2>3. Or(q * p, p - 1) = q * p + (p - 1)
    BY <1>2, <2>1, <2>2, Filled
  <2> HIDE DEF p
  <2> QED
    BY <1>3, <1>4, <2>1, <2>3
<1>6. /\ prefix <= Width - 2 => p >= 4
      /\ prefix = Width - 1 => p = 2
      /\ prefix = Width => p = 1
  BY SizesAre
<1> HIDE DEF p, b
<1>7. total = p
  BY <1>4, <1>5
<1>8. /\ Min(block) = n /\ Max(block) = b /\ Cardinality(block) = p
  <2>1. n \in Int /\ b \in Int /\ n <= b /\ b - n + 1 = p
    BY <1>4, <1>5
  <2> QED
    BY <1>4, <1>5, <2>1, IntervalIs
<1>9. HostsOf(block) = IF p > 2 THEN (n + 1)..(b - 1) ELSE n..b
  <2>1. n + p - 2 = b - 1
    BY <1>4, <1>5
  <2> QED
    BY <1>4, <1>5, <2>1, HostsAre
<1> DEFINE from == Min(HostsOf(block))
           to == Max(HostsOf(block))
           size == Cardinality(HostsOf(block))
<1>10. hosts[3] = size /\ hosts[1] = from /\ hosts[2] = to
  <2>1. CASE prefix <= Width - 2
    <3>1. p > 2 /\ n + 1 \in Int /\ b - 1 \in Int /\ n + 1 <= b - 1 /\ (b - 1) - (n + 1) + 1 = p - 2
      BY <1>4, <1>5, <1>6, <2>1
    <3>2. from = n + 1 /\ to = b - 1 /\ size = p - 2
      BY <1>9, <3>1, IntervalIs
    <3>3. Wrap(n + 1) = n + 1 /\ Wrap(b - 1) = b - 1
      <4>1. n + 1 \in 0..(Modulus - 1) /\ b - 1 \in 0..(Modulus - 1) /\ Modulus \in Nat \ {0}
        BY <1>2, <1>4, <1>5, <3>1
      <4>2. ASSUME NEW x \in 0..(Modulus - 1) PROVE x % Modulus = x
        BY <4>1, SmallRemainder
      <4> QED
        BY <4>1, <4>2 DEF Wrap
    <3> HIDE DEF total
    <3>4. hosts = <<n + 1, b - 1, p - 2>>
      BY <1>4, <1>7, <2>1, <3>1, <3>3
    <3> QED
      BY <3>2, <3>4
  <2>2. CASE prefix = Width - 1
    <3>1. p = 2 /\ n \in Int /\ b \in Int /\ n <= b /\ b - n + 1 = 2
      BY <1>4, <1>5, <1>6, <2>2
    <3>2. from = n /\ to = b /\ size = 2
      BY <1>9, <3>1, IntervalIs
    <3>3. hosts = <<n, b, 2>>
      BY <1>2, <2>2
    <3> QED
      BY <3>2, <3>3
  <2>3. CASE prefix = Width
    <3>1. p = 1 /\ n \in Int /\ b \in Int /\ n <= b /\ b - n + 1 = 1 /\ b = n
      BY <1>4, <1>5, <1>6, <2>3
    <3>2. from = n /\ to = n /\ size = 1
      <4>1. HostsOf(block) = n..b
        BY <1>9, <3>1
      <4>2. Min(n..b) = n /\ Max(n..b) = b /\ Cardinality(n..b) = 1
        BY <3>1, IntervalIs
      <4> QED
        BY <3>1, <4>1, <4>2
    <3>3. hosts = <<n, n, 1>>
      BY <1>2, <2>3
    <3> QED
      BY <3>2, <3>3
  <2> QED
    BY <1>2, <2>1, <2>2, <2>3
<1> HIDE DEF total, hosts, from, to, size
<1>11. p - 1 = b - n
  BY <1>4, <1>5
<1> HIDE DEF r
<1>12. /\ r.valid /\ r.prefix = prefix
       /\ r.network = n /\ r.broadcast = b
       /\ r.totalAddresses = p
       /\ r.usableHosts = size
       /\ r.firstHost = from /\ r.lastHost = to
       /\ r.wildcard = b - n
       /\ r.netmask = Modulus - p
  BY <1>1, <1>3, <1>7, <1>10, <1>11
<1>13. Describes(r, address, prefix)
  BY <1>8, <1>12 DEF Describes, block, from, to, size
<1> QED
  BY <1>12, <1>13 DEF r

(* The generated lists.                                                    *)
LEMMA ListIs ==
  ASSUME NEW a \in Int, NEW b \in Int, a <= b
  PROVE  /\ ToSet(AddressesUpTo(a, b)) = a..b
         /\ \A i, j \in DOMAIN AddressesUpTo(a, b) :
              i < j => AddressesUpTo(a, b)[i] < AddressesUpTo(a, b)[j]
<1> DEFINE s == [i \in 1..(b - a + 1) |-> a + i - 1]
<1>1. AddressesUpTo(a, b) = s
  BY DEF AddressesUpTo
<1>2. ASSUME NEW x \in a..b PROVE \E i \in DOMAIN s : s[i] = x
  <2>1. x - a + 1 \in DOMAIN s /\ s[x - a + 1] = x
    OBVIOUS
  <2> QED
    BY <2>1
<1>3. \A i \in DOMAIN s : s[i] \in a..b
  OBVIOUS
<1>4. \A i, j \in DOMAIN s : i < j => s[i] < s[j]
  OBVIOUS
<1> HIDE DEF s
<1>5. ToSet(s) = a..b
  BY <1>2, <1>3 DEF ToSet
<1> QED
  BY <1>1, <1>4, <1>5

(* The generator lists the hosts of the same block.                        *)
LEMMA Generated ==
  ASSUME NEW word, NEW prefix \in 0..Width, NEW address \in Address,
         Has(word, Mark("/")),
         parseIPv4(Before(word, Mark("/"))) = [ok |-> TRUE, value |-> address],
         stoi(After(word, Mark("/"))) = [ok |-> TRUE, value |-> prefix, whole |-> TRUE],
         NEW hosts \in generateHosts(word)
  PROVE  Lists(hosts, address, prefix)
<1> DEFINE p == Power(Width - prefix)
           n == And(address, prefixToMask(prefix))
           block == Block(address, prefix)
           slash == Mark("/")
<1>1. hosts \in IF prefix <= Width - 2
                THEN {AddressesUpTo(Wrap(n + 1), Wrap(n + count - 2)) : count \in HostCounts(prefix)}
                ELSE IF prefix = Width - 1 THEN {AddressesUpTo(n, Wrap(n + 1))}
                ELSE {AddressesUpTo(n, n)}
  <2>1. ~ \/ ~Has(word, slash)
          \/ ~parseIPv4(Before(word, slash)).ok
          \/ ~stoi(After(word, slash)).ok \/ ~stoi(After(word, slash)).whole
          \/ stoi(After(word, slash)).value \notin 0..Width
    OBVIOUS
  <2>2. And(parseIPv4(Before(word, slash)).value, prefixToMask(stoi(After(word, slash)).value)) = n
    OBVIOUS
  <2>3. stoi(After(word, slash)).value = prefix
    OBVIOUS
  <2>4. hosts \in generateHosts(word)
    OBVIOUS
  <2> HIDE DEF n
  <2> QED
    BY <2>1, <2>2, <2>3, <2>4, Zenon DEF generateHosts, slash
<1>2. /\ Width \in Nat /\ Modulus \in Nat \ {0} /\ prefix \in Nat /\ prefix <= Width
      /\ Width - prefix \in 0..Width /\ Width - prefix \in Nat
  BY WidthIs
<1>3. prefixToMask(prefix) = Modulus - p
  BY MasksAre
<1>4. /\ p \in Nat /\ p >= 1 /\ n \in Nat /\ n + p <= Modulus
      /\ block = n..(n + p - 1)
  BY <1>3, BlockIs
<1>5. /\ prefix <= Width - 2 => p >= 4
      /\ prefix = Width - 1 => p = 2
      /\ prefix = Width => p = 1
  BY SizesAre
<1>6. HostsOf(block) = IF p > 2 THEN (n + 1)..(n + p - 2) ELSE n..(n + p - 1)
  <2> HIDE DEF p, n
  <2> QED
    BY <1>4, HostsAre
<1>7. /\ prefix = 0 => p = Modulus
      /\ prefix # 0 => p < Modulus
  <2>1. prefix = 0 => Width - prefix = Width
    BY <1>2
  <2>2. prefix # 0 => Width - prefix < Width
    BY <1>2
  <2>3. prefix # 0 => 2 * p <= Modulus
    BY <1>2, <2>2, PowersGrow DEF Modulus
  <2>4. prefix = 0 => p = Modulus
    BY <2>1 DEF Modulus
  <2> HIDE DEF p
  <2> QED
    BY <1>2, <1>4, <2>3, <2>4
<1>8. prefix # 0 => HostCounts(prefix) = {p}
  <2>1. ASSUME prefix # 0 PROVE ShiftLeft(1, Width - prefix) = p
    <3>1. p \in 0..(Modulus - 1) /\ 1 * p = p
      BY <1>2, <1>4, <1>7, <2>1
    <3> QED
      BY <1>2, <3>1, SmallRemainder DEF ShiftLeft, Wrap
  <2> QED
    BY <2>1 DEF HostCounts
<1>9. \A x \in 0..(Modulus - 1) : Wrap(x) = x
  BY <1>2, SmallRemainder DEF Wrap
<1> DEFINE extra == IF prefix = 0 THEN {Modulus - 1} ELSE {}
           Good(s) == /\ HostsOf(block) \subseteq ToSet(s)
                      /\ ToSet(s) \subseteq HostsOf(block) \cup extra
                      /\ \A i, j \in DOMAIN s : i < j => s[i] < s[j]
<1> HIDE DEF p, n, block
<1>10. CASE prefix <= Width - 2
  <2>1. p >= 4 /\ HostsOf(block) = (n + 1)..(n + p - 2)
    BY <1>4, <1>5, <1>6, <1>10
  <2>2. Wrap(n + 1) = n + 1
    BY <1>2, <1>4, <1>9, <2>1
  <2>3. PICK count \in HostCounts(prefix) : hosts = AddressesUpTo(n + 1, Wrap(n + count - 2))
    BY <1>1, <1>10, <2>2
  <2>4. CASE prefix # 0
    <3>1. count = p
      BY <1>8, <2>3, <2>4
    <3>2. Wrap(n + p - 2) = n + p - 2
      BY <1>2, <1>4, <1>9, <2>1
    <3>3. n + 1 \in Int /\ n + p - 2 \in Int /\ n + 1 <= n + p - 2
      BY <1>4, <2>1
    <3>4. hosts = AddressesUpTo(n + 1, n + p - 2)
      BY <2>3, <3>1, <3>2
    <3>5. /\ ToSet(hosts) = (n + 1)..(n + p - 2)
          /\ \A i, j \in DOMAIN hosts : i < j => hosts[i] < hosts[j]
      BY <3>3, <3>4, ListIs
    <3>6. Good(hosts)
      BY <2>1, <3>5
    <3> QED
      BY <3>6 DEF Lists, block
  <2>5. CASE prefix = 0
    <3>1. p = Modulus /\ n = 0 /\ count \in {0, 1}
      BY <1>2, <1>4, <1>7, <2>3, <2>5 DEF HostCounts
    <3> DEFINE to == Modulus - 2 + count
    <3>2. Wrap(n + count - 2) = to
      <4> DEFINE q == -1
                 x == count - 2
      <4>1. /\ q \in Int /\ x \in Int /\ q * Modulus = -Modulus
            /\ q * Modulus <= x /\ x < q * Modulus + Modulus /\ x - q * Modulus = to
            /\ n + count - 2 = x
        BY <1>2, <2>1, <3>1
      <4> HIDE DEF q, x, to
      <4>2. x % Modulus = x - q * Modulus
        BY <1>2, <4>1, DivisionIs
      <4> QED
        BY <4>1, <4>2 DEF Wrap
    <3>3. n + 1 \in Int /\ to \in Int /\ n + 1 <= to
      BY <1>2, <2>1, <3>1
    <3>4. hosts = AddressesUpTo(n + 1, to)
      BY <2>3, <3>2
    <3> HIDE DEF to
    <3>5. /\ ToSet(hosts) = (n + 1)..to
          /\ \A i, j \in DOMAIN hosts : i < j => hosts[i] < hosts[j]
      BY <3>3, <3>4, ListIs
    <3>6. /\ (n + 1)..(n + p - 2) \subseteq (n + 1)..to
          /\ (n + 1)..to \subseteq (n + 1)..(n + p - 2) \cup {Modulus - 1}
      <4>1. to \in {Modulus - 2, Modulus - 1}
        BY <1>2, <3>1 DEF to
      <4> QED
        BY <1>2, <2>1, <3>1, <4>1
    <3>7. Good(hosts)
      BY <2>1, <2>5, <3>5, <3>6
    <3> QED
      BY <3>7 DEF Lists, block
  <2> QED
    BY <2>4, <2>5
<1>11. CASE prefix = Width - 1
  <2>1. p = 2 /\ HostsOf(block) = n..(n + 1)
    BY <1>4, <1>5, <1>6, <1>11
  <2>2. Wrap(n + 1) = n + 1 /\ n \in Int /\ n + 1 \in Int /\ n <= n + 1
    BY <1>2, <1>4, <1>9, <2>1
  <2>3. hosts = AddressesUpTo(n, n + 1)
    BY <1>1, <1>2, <1>11, <2>2
  <2>4. /\ ToSet(hosts) = n..(n + 1)
        /\ \A i, j \in DOMAIN hosts : i < j => hosts[i] < hosts[j]
    BY <2>2, <2>3, ListIs
  <2>5. Good(hosts)
    BY <2>1, <2>4
  <2> QED
    BY <2>5 DEF Lists, block
<1>12. CASE prefix = Width
  <2>1. HostsOf(block) = n..n /\ n \in Int /\ n <= n
    BY <1>4, <1>5, <1>6, <1>12
  <2>2. hosts = AddressesUpTo(n, n)
    BY <1>1, <1>2, <1>12
  <2>3. /\ ToSet(hosts) = n..n
        /\ \A i, j \in DOMAIN hosts : i < j => hosts[i] < hosts[j]
    BY <2>1, <2>2, ListIs
  <2>4. Good(hosts)
    BY <2>1, <2>3
  <2> QED
    BY <2>4 DEF Lists, block
<1> QED
  BY <1>2, <1>10, <1>11, <1>12

-----------------------------------------------------------------------------
(* The texts of addresses.                                                 *)

Shapes == Pieces \cup {Mark("."), Mark("/")}

LEMMA MarksDiffer ==
  /\ Mark("/") # Mark(".")
  /\ \A n : /\ Digits(n) # Mark(".") /\ Digits(n) # Mark("/")
            /\ Digits(n).is = "digits" /\ Digits(n).value = n /\ Digits(n).as = "plain"
  BY DEF Mark, Digits, Piece

(* What is split off in the loop of SplitAt.                               *)
NothingRead == [parts |-> <<>>, part |-> <<>>]
Split(word, mark) ==
  Splitting!Run(NothingRead, [i \in DOMAIN word |-> [piece |-> word[i], cuts |-> word[i] = mark]])

LEMMA SplitOfNothing == ASSUME NEW mark PROVE Split(<<>>, mark) = NothingRead
<1>1. [i \in DOMAIN <<>> |-> [piece |-> <<>>[i], cuts |-> <<>>[i] = mark]] = <<>>
  OBVIOUS
<1>2. Cuts!Run(NothingRead, <<>>) = NothingRead
  BY Cuts!RunOfNothing
<1>3. Splitting!Run(NothingRead, <<>>) = Cuts!Run(NothingRead, <<>>)
  BY DEF Splitting!Run, Cuts!Run
<1> QED
  BY <1>1, <1>2, <1>3 DEF Split

LEMMA SplitOneMore ==
  ASSUME NEW mark, NEW T, NEW w \in Seq(T), NEW x \in T
  PROVE  Split(Append(w, x), mark) = Cut(Split(w, mark), [piece |-> x, cuts |-> x = mark])
<1> DEFINE Turn(y) == [piece |-> y, cuts |-> y = mark]
           Turned(v) == [i \in DOMAIN v |-> Turn(v[i])]
           All == {Turn(y) : y \in T}
<1>1. \A v : Split(v, mark) = Cuts!Run(NothingRead, Turned(v))
  BY DEF Split, Splitting!Run, Cuts!Run
<1>2. Turned(w) \in Seq(All) /\ Turn(x) \in All
  <2>1. \A y \in T : Turn(y) \in All
    OBVIOUS
  <2> HIDE DEF Turn, All
  <2> QED
    BY <2>1
<1>3. Turned(Append(w, x)) = Append(Turned(w), Turn(x))
  <2> HIDE DEF Turn
  <2> QED
    OBVIOUS
<1> HIDE DEF Turned, All
<1>4. Cuts!Run(NothingRead, Append(Turned(w), Turn(x))) = Cut(Cuts!Run(NothingRead, Turned(w)), Turn(x))
  <2> HIDE DEF Turn
  <2> QED
    BY <1>2, Cuts!RunOneMore
<1>5. Split(Append(w, x), mark) = Cut(Split(w, mark), Turn(x))
  <2> HIDE DEF Turn
  <2> QED
    BY <1>1, <1>3, <1>4
<1> QED
  BY <1>5

LEMMA SplitOn ==
  ASSUME NEW mark, NEW T, NEW w \in Seq(T), NEW x \in T, NEW ps, NEW p,
         Split(w, mark) = [parts |-> ps, part |-> p]
  PROVE  /\ x = mark => Split(Append(w, x), mark) = [parts |-> Append(ps, p), part |-> <<>>]
         /\ x # mark => Split(Append(w, x), mark) = [parts |-> ps, part |-> Append(p, x)]
<1> DEFINE turn == [piece |-> x, cuts |-> x = mark]
<1>1. Split(Append(w, x), mark) = Cut(Split(w, mark), turn)
  BY SplitOneMore
<1>2. turn.piece = x /\ (turn.cuts <=> x = mark)
  OBVIOUS
<1> HIDE DEF turn
<1> DEFINE split == Split(w, mark)
<1>3. /\ split = [parts |-> ps, part |-> p] /\ split.parts = ps /\ split.part = p
      /\ Split(Append(w, x), mark) = Cut(split, turn)
  BY <1>1
<1> HIDE DEF split
<1>4. ASSUME x = mark PROVE Cut(split, turn) = [parts |-> Append(ps, p), part |-> <<>>]
  BY <1>2, <1>3, <1>4 DEF Cut
<1>5. ASSUME x # mark PROVE Cut(split, turn) = [parts |-> ps, part |-> Append(p, x)]
  <2>1. ~turn.cuts
    BY <1>2, <1>5
  <2>2. Cut(split, turn) = [split EXCEPT !.part = Append(@, turn.piece)]
    BY <2>1, Zenon DEF Cut
  <2>3. [split EXCEPT !.part = Append(@, turn.piece)] = [parts |-> ps, part |-> Append(p, x)]
    <3> DEFINE longer == Append(split.part, turn.piece)
    <3>1. longer = Append(p, x)
      BY <1>2, <1>3
    <3> HIDE DEF longer
    <3>2. [split EXCEPT !.part = longer] = [parts |-> ps, part |-> longer]
      BY <1>3
    <3> QED
      BY <3>1, <3>2 DEF longer
  <2> QED
    BY <2>2, <2>3
<1> QED
  BY <1>3, <1>4, <1>5

(* The text of an address, number by number.                               *)
LEMMA DottedOfNothing == Dotted(<<>>) = <<>>
<1>1. Dots!Run(<<>>, <<>>) = <<>>
  BY Dots!RunOfNothing
<1> QED
  BY <1>1 DEF Dotted, Dotting!Run, Dots!Run

LEMMA DottedOneMore ==
  ASSUME NEW T, NEW v \in Seq(T), NEW n \in T PROVE Dotted(Append(v, n)) = Dot(Dotted(v), n)
<1>1. \A w : Dotted(w) = Dots!Run(<<>>, w)
  BY DEF Dotted, Dotting!Run, Dots!Run
<1>2. Dots!Run(<<>>, Append(v, n)) = Dot(Dots!Run(<<>>, v), n)
  BY Dots!RunOneMore
<1> QED
  BY <1>1, <1>2

(* It reads back as the numbers, one by one.                               *)
NumbersOf(v) == [i \in 1..Len(v) |-> <<Digits(v[i])>>]

ReadsBack(v) ==
  /\ Dotted(v) \in Seq(Shapes)
  /\ Dotted(v) = <<>> <=> v = <<>>
  /\ \A i \in DOMAIN Dotted(v) : Dotted(v)[i] # Mark("/")
  /\ v # <<>> =>
       \E parts, part : /\ Split(Dotted(v), Mark(".")) = [parts |-> parts, part |-> part]
                        /\ Append(parts, part) = NumbersOf(v)

LEMMA NumbersOfMore ==
  ASSUME NEW w \in Seq(Nat), NEW n \in Nat
  PROVE  NumbersOf(Append(w, n)) = Append(NumbersOf(w), <<Digits(n)>>)
<1>1. \A i \in 1..Len(w) : Append(w, n)[i] = w[i]
  OBVIOUS
<1>2. Len(Append(w, n)) = Len(w) + 1 /\ Append(w, n)[Len(w) + 1] = n /\ Len(w) \in Nat
  OBVIOUS
<1> DEFINE all == NumbersOf(w)
<1>3. /\ all = [i \in 1..Len(w) |-> <<Digits(w[i])>>]
      /\ Len(all) = Len(w) /\ Append(all, <<Digits(n)>>)[Len(w) + 1] = <<Digits(n)>>
      /\ Append(all, <<Digits(n)>>) = [i \in 1..Len(w) + 1 |-> IF i = Len(w) + 1 THEN <<Digits(n)>> ELSE all[i]]
  BY <1>2 DEF NumbersOf
<1>4. \A i \in 1..Len(w) : all[i] = <<Digits(Append(w, n)[i])>>
  BY <1>1, <1>3
<1>5. NumbersOf(Append(w, n)) = [i \in 1..Len(w) + 1 |-> <<Digits(Append(w, n)[i])>>]
  BY <1>2 DEF NumbersOf
<1>6. \A i \in 1..Len(w) + 1 : <<Digits(Append(w, n)[i])>> = IF i = Len(w) + 1 THEN <<Digits(n)>> ELSE all[i]
  <2> HIDE DEF all
  <2> QED
    BY <1>2, <1>4
<1> HIDE DEF all
<1>7. NumbersOf(Append(w, n)) = Append(all, <<Digits(n)>>)
  BY <1>3, <1>5, <1>6
<1> QED
  BY <1>7 DEF all

LEMMA LongerWithout ==
  ASSUME NEW S, NEW t \in Seq(S), NEW x \in S, NEW mark, x # mark,
         \A i \in DOMAIN t : t[i] # mark
  PROVE  /\ Append(t, x) \in Seq(S) /\ Append(t, x) # <<>>
         /\ \A i \in DOMAIN Append(t, x) : Append(t, x)[i] # mark
OBVIOUS

(* The text of an address, cut at its dots, gives the numbers back, and    *)
(* has no slash.                                                           *)
LEMMA NumbersReadBack == ASSUME NEW v \in Seq(Nat) PROVE ReadsBack(v)
<1> DEFINE T == {w \in Seq(Nat) : ReadsBack(w)}
           dot == Mark(".")
<1>1. <<>> \in T
  <2>1. Dotted(<<>>) = <<>>
    BY DottedOfNothing
  <2>2. <<>> \in Seq(Nat) /\ <<>> \in Seq(Shapes) /\ DOMAIN <<>> = {}
    BY EmptySeq
  <2>3. ReadsBack(<<>>)
    BY <2>1, <2>2 DEF ReadsBack
  <2> QED
    BY <2>2, <2>3
<1>2. ASSUME NEW w \in Seq(Nat), NEW n \in Nat, w \in T PROVE Append(w, n) \in T
  <2> DEFINE d == Dotted(w)
             e == Dotted(Append(w, n))
             s == Split(d, dot)
             num == Digits(n)
  <2>1. e = Append(IF d = <<>> THEN d ELSE Append(d, dot), num)
    <3>1. Dotted(Append(w, n)) = Dot(Dotted(w), n)
      BY DottedOneMore
    <3> QED
      BY <3>1 DEF Dot
  <2>2. /\ d \in Seq(Shapes) /\ (d = <<>> <=> w = <<>>)
        /\ \A i \in DOMAIN d : d[i] # Mark("/")
    BY <1>2 DEF ReadsBack
  <2>3. num \in Shapes /\ dot \in Shapes /\ num # dot /\ num # Mark("/") /\ dot # Mark("/")
    <3>1. num \in Pieces
      BY DEF Pieces, Digits, Piece
    <3> QED
      BY <3>1, MarksDiffer DEF Shapes
  <2>4. NumbersOf(Append(w, n)) = Append(NumbersOf(w), <<num>>)
    BY NumbersOfMore
  <2> HIDE DEF d, e, num, dot
  <2>5. /\ e \in Seq(Shapes) /\ e # <<>>
        /\ \A i \in DOMAIN e : e[i] # Mark("/")
    <3>1. CASE d = <<>>
      <4>1. e = Append(d, num)
        BY <2>1, <3>1
      <4> QED
        BY <2>2, <2>3, <4>1, LongerWithout
    <3>2. CASE d # <<>>
      <4>1. e = Append(Append(d, dot), num)
        BY <2>1, <3>2
      <4>2. /\ Append(d, dot) \in Seq(Shapes)
            /\ \A i \in DOMAIN Append(d, dot) : Append(d, dot)[i] # Mark("/")
        BY <2>2, <2>3, LongerWithout
      <4> QED
        BY <2>3, <4>1, <4>2, LongerWithout
    <3> QED
      BY <3>1, <3>2
  <2>6. PICK parts, part : /\ Split(e, dot) = [parts |-> parts, part |-> part]
                           /\ Append(parts, part) = Append(NumbersOf(w), <<num>>)
    <3>1. CASE w = <<>>
      <4>1. d = <<>> /\ e = Append(d, num)
        BY <2>1, <2>2, <3>1
      <4> DEFINE none == <<>>
      <4>2. /\ Split(none, dot) = [parts |-> none, part |-> none] /\ none \in Seq(Shapes)
            /\ d = none
        BY <4>1, SplitOfNothing, EmptySeq DEF NothingRead
      <4>3. Split(Append(none, num), dot) = [parts |-> none, part |-> Append(none, num)]
        <5> HIDE DEF none
        <5> QED
          BY <2>3, <4>2, SplitOn
      <4>4. Split(e, dot) = [parts |-> <<>>, part |-> <<num>>]
        BY <4>1, <4>3
      <4>5. NumbersOf(w) = <<>>
        BY <3>1 DEF NumbersOf
      <4> QED
        BY <4>4, <4>5
    <3>2. CASE w # <<>>
      <4>1. PICK ps, p : s = [parts |-> ps, part |-> p] /\ Append(ps, p) = NumbersOf(w)
        BY <1>2, <3>2 DEF ReadsBack, d, dot
      <4>2. e = Append(Append(d, dot), num) /\ Append(d, dot) \in Seq(Shapes)
        BY <2>1, <2>2, <2>3, <3>2
      <4>3. Split(d, dot) = [parts |-> ps, part |-> p]
        BY <4>1 DEF s
      <4>5. Split(Append(d, dot), dot) = [parts |-> Append(ps, p), part |-> <<>>]
        BY <2>2, <2>3, <4>3, SplitOn
      <4>6. Split(e, dot) = [parts |-> Append(ps, p), part |-> <<num>>]
        <5> DEFINE none == <<>>
                   longer == Append(d, dot)
        <5>1. Split(longer, dot) = [parts |-> Append(ps, p), part |-> none] /\ longer \in Seq(Shapes)
          BY <4>2, <4>5
        <5>2. Split(Append(longer, num), dot) = [parts |-> Append(ps, p), part |-> Append(none, num)]
          <6> HIDE DEF none, longer
          <6> QED
            BY <2>3, <5>1, SplitOn
        <5> QED
          BY <4>2, <5>2
      <4> QED
        BY <4>1, <4>6
    <3> QED
      BY <3>1, <3>2
  <2>7. Append(w, n) \in Seq(Nat) /\ Append(w, n) # <<>>
    OBVIOUS
  <2>8. ReadsBack(Append(w, n))
    BY <2>4, <2>5, <2>6, <2>7 DEF ReadsBack, e, dot
  <2> QED
    BY <2>7, <2>8
<1> HIDE DEF T
<1>3. v \in T
  BY <1>1, <1>2, Dots!FromTheFront
<1> QED
  BY <1>3 DEF T

LEMMA NumbersAre ==
  ASSUME NEW v \in Seq(Nat)
  PROVE  /\ NumbersOf(v) \in Seq(Seq(Shapes)) /\ Len(NumbersOf(v)) = Len(v)
         /\ \A n \in Nat : <<Digits(n)>> \in Seq(Shapes)
<1> DEFINE S == Seq(Shapes)
<1>1. ASSUME NEW n \in Nat PROVE <<Digits(n)>> \in S
  <2>1. Digits(n) \in Shapes
    BY DEF Shapes, Pieces, Digits, Piece
  <2> QED
    BY <2>1
<1>2. \A i \in 1..Len(v) : v[i] \in Nat
  OBVIOUS
<1> HIDE DEF S
<1>3. \A i \in 1..Len(v) : <<Digits(v[i])>> \in S
  BY <1>1, <1>2
<1>4. NumbersOf(v) \in Seq(S) /\ Len(NumbersOf(v)) = Len(v)
  BY <1>3 DEF NumbersOf
<1> QED
  BY <1>1, <1>4 DEF S

Behind(d, p) == d \o p
LongerBy(p, x) == Append(p, x)

LEMMA LongerBehind ==
  ASSUME NEW S, NEW d \in Seq(S), NEW p \in Seq(S), NEW x \in S
  PROVE  LongerBy(Behind(d, p), x) = Behind(d, LongerBy(p, x))
<1>1. d \o p \in Seq(S) /\ <<x>> \in Seq(S)
  OBVIOUS
<1>2. Append(d \o p, x) = (d \o p) \o <<x>> /\ Append(p, x) = p \o <<x>>
  BY <1>1, AppendIsConcat
<1>3. (d \o p) \o <<x>> = d \o (p \o <<x>>)
  BY <1>1, ConcatAssociative
<1>4. Append(d \o p, x) = d \o Append(p, x)
  BY <1>2, <1>3
<1> QED
  BY <1>4, Zenon DEF Behind, LongerBy

(* What has been split so far is what there was to split.                  *)
Rejoined(w, ps, p) ==
  /\ Split(w, Mark(".")) = [parts |-> ps, part |-> p]
  /\ ps \in Seq(Seq(Shapes)) /\ p \in Seq(Shapes)
  /\ \A v \in Seq(Nat) : ps = NumbersOf(v) =>
       w = IF v = <<>> THEN p ELSE Append(Dotted(v), Mark(".")) \o p

LEMMA WholeText ==
  ASSUME NEW w \in Seq(Shapes), NEW ps, NEW p, Rejoined(w, ps, p),
         NEW v \in Seq(Nat), Append(ps, p) = NumbersOf(v)
  PROVE  w = Dotted(v)
<1>1. v # <<>>
  <2> DEFINE S == Seq(Shapes)
  <2>1. ps \in Seq(S) /\ p \in S
    BY DEF Rejoined
  <2> HIDE DEF S
  <2>2. Len(Append(ps, p)) = Len(ps) + 1 /\ Len(ps) \in Nat
    BY <2>1
  <2>3. Len(v) # 0
    BY <2>2, NumbersAre
  <2> QED
    BY <2>3
<1>2. PICK front \in Seq(Nat), n \in Nat : v = Append(front, n)
  BY <1>1, SequenceEmptyOrAppend
<1> DEFINE num == Digits(n)
<1>3. NumbersOf(v) = Append(NumbersOf(front), <<num>>)
  BY <1>2, NumbersOfMore
<1>4. ps = NumbersOf(front) /\ p = <<num>>
  <2> DEFINE S == Seq(Shapes)
             all == NumbersOf(front)
             last == <<num>>
  <2>1. ps \in Seq(S) /\ p \in S
    BY DEF Rejoined
  <2>2. all \in Seq(S) /\ last \in S
    BY NumbersAre
  <2>3. Append(ps, p) = Append(all, last)
    BY <1>3
  <2> HIDE DEF S, all, last
  <2>4. ps = all /\ p = last
    BY <2>1, <2>2, <2>3, AppendInjective
  <2> QED
    BY <2>4 DEF all, last
<1>5. w = IF front = <<>> THEN <<num>> ELSE Append(Dotted(front), Mark(".")) \o <<num>>
  BY <1>4 DEF Rejoined
<1>6. Dotted(v) = Append(IF front = <<>> THEN Dotted(front) ELSE Append(Dotted(front), Mark(".")), num)
  <2>1. Dotted(v) = Dot(Dotted(front), n)
    BY <1>2, DottedOneMore
  <2>2. Dotted(front) = <<>> <=> front = <<>>
    BY NumbersReadBack DEF ReadsBack
  <2> QED
    BY <2>1, <2>2 DEF Dot
<1> HIDE DEF num
<1>7. CASE front = <<>>
  <2>1. Dotted(front) = <<>>
    BY <1>7, DottedOfNothing
  <2> QED
    BY <1>5, <1>6, <1>7, <2>1
<1>8. CASE front # <<>>
  <2>1. Dotted(front) \in Seq(Shapes) /\ Mark(".") \in Shapes
    BY NumbersReadBack DEF ReadsBack, Shapes
  <2> DEFINE d == Append(Dotted(front), Mark("."))
  <2>2. d \in Seq(Shapes)
    BY <2>1
  <2>3. w = d \o <<num>> /\ Dotted(v) = Append(d, num)
    BY <1>5, <1>6, <1>8
  <2> HIDE DEF d
  <2>4. d \o <<num>> = Append(d, num)
    BY <2>2
  <2> QED
    BY <2>3, <2>4
<1> QED
  BY <1>7, <1>8

(* Any text is its parts with the mark between them.                       *)
LEMMA SplitRejoins ==
  ASSUME NEW w \in Seq(Shapes) PROVE \E ps, p : Rejoined(w, ps, p)
<1> DEFINE T == {x \in Seq(Shapes) : \E ps, p : Rejoined(x, ps, p)}
           dot == Mark(".")
<1>1. <<>> \in T
  <2> DEFINE none == <<>>
  <2>1. /\ Split(none, dot) = [parts |-> none, part |-> none]
        /\ none \in Seq(Seq(Shapes)) /\ none \in Seq(Shapes)
    BY SplitOfNothing, EmptySeq DEF NothingRead
  <2>2. ASSUME NEW v \in Seq(Nat), none = NumbersOf(v) PROVE v = <<>>
    <3>1. Len(NumbersOf(v)) = Len(v)
      BY NumbersAre
    <3> QED
      BY <2>2, <3>1
  <2> HIDE DEF none
  <2>3. Rejoined(none, none, none)
    BY <2>1, <2>2 DEF Rejoined
  <2> QED
    BY <2>1, <2>3 DEF none
<1>2. ASSUME NEW u \in Seq(Shapes), NEW x \in Shapes, u \in T PROVE Append(u, x) \in T
  <2>1. PICK ps, p : Rejoined(u, ps, p)
    BY <1>2
  <2>2. Split(u, dot) = [parts |-> ps, part |-> p] /\ ps \in Seq(Seq(Shapes)) /\ p \in Seq(Shapes)
    BY <2>1 DEF Rejoined
  <2>3. Append(u, x) \in Seq(Shapes)
    OBVIOUS
  <2>4. CASE x = dot
    <3> DEFINE none == <<>>
    <3>1. Split(Append(u, x), dot) = [parts |-> Append(ps, p), part |-> none]
      BY <2>2, <2>4, SplitOn
    <3>2. Append(ps, p) \in Seq(Seq(Shapes)) /\ none \in Seq(Shapes)
      BY <2>2, EmptySeq
    <3>3. ASSUME NEW v \in Seq(Nat), Append(ps, p) = NumbersOf(v)
          PROVE  v # <<>> /\ Append(u, x) = Append(Dotted(v), dot) \o none
      <4>1. u = Dotted(v)
        BY <2>1, <3>3, WholeText
      <4>2. Append(u, x) \o none = Append(u, x)
        BY <2>3
      <4>3. v # <<>>
        <5> DEFINE S == Seq(Shapes)
        <5>1. ps \in Seq(S) /\ p \in S
          BY <2>2
        <5> HIDE DEF S
        <5>2. Len(Append(ps, p)) = Len(ps) + 1 /\ Len(ps) \in Nat
          BY <5>1
        <5>3. Len(v) # 0
          BY <3>3, <5>2, NumbersAre
        <5> QED
          BY <5>3
      <4> QED
        BY <2>4, <4>1, <4>2, <4>3
    <3> HIDE DEF none
    <3>4. Rejoined(Append(u, x), Append(ps, p), none)
      BY <3>1, <3>2, <3>3 DEF Rejoined, dot
    <3> QED
      BY <2>3, <3>4
  <2>5. CASE x # dot
    <3>1. Split(Append(u, x), dot) = [parts |-> ps, part |-> Append(p, x)]
      BY <2>2, <2>5, SplitOn
    <3>2. Append(p, x) \in Seq(Shapes)
      BY <2>2
    <3>3. ASSUME NEW v \in Seq(Nat), ps = NumbersOf(v)
          PROVE  Append(u, x) = IF v = <<>> THEN Append(p, x) ELSE Append(Dotted(v), dot) \o Append(p, x)
      <4>1. u = IF v = <<>> THEN p ELSE Append(Dotted(v), dot) \o p
        BY <2>1, <3>3 DEF Rejoined
      <4>2. CASE v = <<>>
        BY <4>1, <4>2
      <4>3. CASE v # <<>>
        <5> DEFINE d == Append(Dotted(v), dot)
        <5>1. d \in Seq(Shapes) /\ u = d \o p /\ p \in Seq(Shapes) /\ x \in Shapes
          BY <2>2, <4>1, <4>3, NumbersReadBack DEF ReadsBack, Shapes
        <5> HIDE DEF d
        <5>2. Append(u, x) = d \o Append(p, x)
          <6>1. LongerBy(Behind(d, p), x) = Behind(d, LongerBy(p, x))
            BY <5>1, LongerBehind
          <6> QED
            BY <5>1, <6>1, Zenon DEF Behind, LongerBy
        <5> QED
          BY <4>3, <5>2, Zenon DEF d
      <4> QED
        BY <4>2, <4>3
    <3>4. Rejoined(Append(u, x), ps, Append(p, x))
      BY <2>2, <3>1, <3>2, <3>3 DEF Rejoined, dot
    <3> QED
      BY <2>3, <3>4
  <2> QED
    BY <2>4, <2>5
<1> HIDE DEF T
<1>3. w \in T
  BY <1>1, <1>2, Dots!FromTheFront
<1> QED
  BY <1>3 DEF T

(* The value of an address fits into it.                                   *)
LEMMA ValueFits ==
  ASSUME NEW v \in Seq(0..OctetMax)
  PROVE  ValueOf(v) \in Nat /\ ValueOf(v) < Power(Len(v) * OctetBits)
<1> DEFINE S == 0..OctetMax
           Fits(w) == ValueOf(w) \in Nat /\ ValueOf(w) < Power(Len(w) * OctetBits)
           T == {w \in Seq(S) : Fits(w)}
           b == Power(OctetBits)
<1>1. OctetBits \in Nat /\ b \in Nat /\ b >= 1 /\ OctetMax = b - 1
  BY WidthAssumption, PowersArePositive DEF OctetMax
<1>2. \A w : ValueOf(w) = Readings!Run(0, w)
  BY DEF ValueOf, Reading!Run, Readings!Run
<1>3. <<>> \in T
  <2>1. <<>> \in Seq(S) /\ Len(<<>>) = 0 /\ 0 * OctetBits = 0
    BY <1>1, EmptySeq
  <2>2. ValueOf(<<>>) = 0 /\ Power(0) = 1
    BY <1>2, Readings!RunOfNothing, PowerOneMore
  <2> QED
    BY <2>1, <2>2
<1>4. ASSUME NEW w \in Seq(S), NEW n \in S, w \in T PROVE Append(w, n) \in T
  <2> DEFINE l == Len(w)
             value == ValueOf(w)
             p == Power(l * OctetBits)
  <2>1. l \in Nat /\ Len(Append(w, n)) = l + 1 /\ Append(w, n) \in Seq(S)
    OBVIOUS
  <2>2. l * OctetBits \in Nat /\ (l + 1) * OctetBits = l * OctetBits + OctetBits
    BY <1>1, <2>1
  <2>3. Power((l + 1) * OctetBits) = p * b /\ p \in Nat
    BY <1>1, <2>2, PowersMultiply, PowersArePositive
  <2>4. ValueOf(Append(w, n)) = value * b + n
    <3>1. Readings!Run(0, Append(w, n)) = ShiftIn(Readings!Run(0, w), n)
      <4> HIDE DEF S
      <4> QED
        BY Readings!RunOneMore
    <3> QED
      BY <1>2, <3>1 DEF ShiftIn
  <2>5. value \in Nat /\ value < p
    BY <1>4
  <2>6. n \in Nat /\ n <= b - 1
    BY <1>1
  <2> HIDE DEF value, p, b
  <2>7. (value + 1) * b <= p * b
    BY <1>1, <2>3, <2>5, LessTimes
  <2>8. (value + 1) * b = value * b + b /\ value * b \in Nat /\ p * b \in Nat
    BY <1>1, <2>3, <2>5
  <2>9. value * b + n \in Nat /\ value * b + n < p * b
    BY <1>1, <2>6, <2>7, <2>8
  <2> QED
    BY <2>1, <2>3, <2>4, <2>9
<1> HIDE DEF T
<1>5. v \in T
  <2> HIDE DEF S
  <2>1. v \in Seq(S)
    BY DEF S
  <2> QED
    BY <1>3, <1>4, <2>1, Readings!FromTheFront
<1> QED
  BY <1>5 DEF T

(* Both parsers read the text of an address as its value.                  *)
LEMMA NumbersParsed ==
  ASSUME NEW numbers \in [1..Octets -> 0..OctetMax]
  PROVE  /\ numbers \in Seq(Nat) /\ ValueOf(numbers) \in Address
         /\ inet_pton(Dotted(numbers)) = [ok |-> TRUE, value |-> ValueOf(numbers)]
         /\ parseIPv4(Dotted(numbers)) = [ok |-> TRUE, value |-> ValueOf(numbers)]
<1> DEFINE parts == SplitAt(Dotted(numbers), Mark("."))
<1>1. /\ Octets \in Nat /\ Octets >= 1 /\ OctetBits \in Nat
      /\ OctetMax \in Nat /\ OctetMax <= MaxInt /\ MaxInt \in Nat
  <2>1. Power(OctetBits) \in Nat /\ Power(OctetBits) >= 1
    BY WidthAssumption, PowersArePositive
  <2> QED
    BY <2>1, WidthAssumption, NumbersAssumption, MaxIntAssumption DEF OctetMax
<1>2. /\ numbers \in Seq(0..OctetMax) /\ numbers \in Seq(Nat) /\ Len(numbers) = Octets
      /\ numbers # <<>> /\ DOMAIN numbers = 1..Octets
      /\ \A i \in 1..Octets : numbers[i] \in Nat /\ numbers[i] <= OctetMax
  BY <1>1
<1>3. ValueOf(numbers) \in Address
  <2>1. ValueOf(numbers) \in Nat /\ ValueOf(numbers) < Power(Octets * OctetBits)
    BY <1>2, ValueFits
  <2>2. Modulus = Power(Octets * OctetBits) /\ Modulus \in Nat
    BY WidthIs DEF Modulus, Width
  <2> QED
    BY <2>1, <2>2 DEF Address
<1>4. parts = NumbersOf(numbers)
  <2>1. PICK ps, p : /\ Split(Dotted(numbers), Mark(".")) = [parts |-> ps, part |-> p]
                     /\ Append(ps, p) = NumbersOf(numbers)
    BY <1>2, NumbersReadBack DEF ReadsBack
  <2>2. parts = Append(Split(Dotted(numbers), Mark(".")).parts, Split(Dotted(numbers), Mark(".")).part)
    BY DEF SplitAt, Split, NothingRead
  <2> QED
    BY <2>1, <2>2
<1> HIDE DEF parts
<1>5. /\ Len(parts) = Octets /\ DOMAIN parts = 1..Octets
      /\ \A i \in 1..Octets : parts[i] = <<Digits(numbers[i])>>
  BY <1>1, <1>2, <1>4 DEF NumbersOf
<1>6. \A i \in 1..Octets : /\ Len(parts[i]) = 1 /\ Head(parts[i]) = Digits(numbers[i])
                           /\ parts[i] # <<>>
  <2>1. \A x : Len(<<x>>) = 1 /\ Head(<<x>>) = x /\ <<x>> # <<>>
    OBVIOUS
  <2> QED
    BY <1>5, <2>1
<1>7. \A i \in 1..Octets : /\ Head(parts[i]).is = "digits" /\ Head(parts[i]).as = "plain"
                           /\ Head(parts[i]).value = numbers[i]
  BY <1>6, MarksDiffer
<1>8. inet_pton(Dotted(numbers)) = [ok |-> TRUE, value |-> ValueOf(numbers)]
  <2>1. [i \in DOMAIN parts |-> Head(parts[i]).value] = numbers
    BY <1>2, <1>5, <1>7
  <2>2. \A i \in DOMAIN parts : /\ Len(parts[i]) = 1 /\ IsDigits(Head(parts[i]))
                                /\ Head(parts[i]).as = "plain" /\ Head(parts[i]).value <= OctetMax
    BY <1>2, <1>5, <1>6, <1>7 DEF IsDigits
  <2> QED
    BY <1>5, <2>1, <2>2, Zenon DEF inet_pton, parts
<1>9. \A i \in 1..Octets : /\ stoi(parts[i]).ok /\ stoi(parts[i]).whole
                           /\ stoi(parts[i]).value = numbers[i]
  <2> TAKE i \in 1..Octets
  <2> DEFINE word == parts[i]
             S == 0..OctetMax
  <2>1. word = <<Digits(numbers[i])>> /\ Digits(numbers[i]) \in Pieces
    BY <1>2, <1>5 DEF Pieces, Digits, Piece
  <2>2. word \in Words /\ Len(word) = 1 /\ word[1] = Digits(numbers[i])
    BY <2>1 DEF Words
  <2>3. NumberIn(word, S)
    BY <1>2, <2>2, MarksDiffer DEF NumberIn, IsNumber, IsDigits
  <2>4. \A n \in S : n \in Nat /\ n <= MaxInt
    BY <1>1
  <2> HIDE DEF word, S
  <2>5. stoi(word).ok /\ stoi(word).whole /\ stoi(word).value = word[1].value
    BY <2>2, <2>3, <2>4, NumberIsRead
  <2> QED
    BY <2>2, <2>5, MarksDiffer DEF word
<1>10. parseIPv4(Dotted(numbers)) = [ok |-> TRUE, value |-> ValueOf(numbers)]
  <2>1. [i \in DOMAIN parts |-> stoi(parts[i]).value] = numbers
    BY <1>2, <1>5, <1>9
  <2>2. \A i \in DOMAIN parts : /\ stoi(parts[i]).ok /\ stoi(parts[i]).whole
                                /\ stoi(parts[i]).value \in 0..OctetMax
    BY <1>2, <1>5, <1>9
  <2>3. parts[Len(parts)] # <<>>
    <3>1. Octets \in 1..Octets
      BY <1>1
    <3> QED
      BY <1>5, <1>6, <3>1
  <2> QED
    BY <1>5, <2>1, <2>2, <2>3, Zenon DEF parseIPv4, parts
<1> QED
  BY <1>2, <1>3, <1>8, <1>10

(* What inet_pton accepts is the text of an address.                       *)
LEMMA ParsedNumbers ==
  ASSUME NEW ip \in Seq(Shapes), inet_pton(ip).ok
  PROVE  \E numbers \in [1..Octets -> 0..OctetMax] : ip = Dotted(numbers)
<1> DEFINE parts == SplitAt(ip, Mark("."))
           numbers == [i \in 1..Octets |-> Head(parts[i]).value]
<1>1. PICK ps, p : Rejoined(ip, ps, p)
  BY SplitRejoins
<1>2. parts = Append(ps, p)
  <2>1. parts = Append(Split(ip, Mark(".")).parts, Split(ip, Mark(".")).part)
    BY DEF SplitAt, Split, NothingRead
  <2> QED
    BY <1>1, <2>1 DEF Rejoined
<1>3. parts \in Seq(Seq(Shapes))
  <2> DEFINE S == Seq(Shapes)
  <2>1. ps \in Seq(S) /\ p \in S
    BY <1>1 DEF Rejoined
  <2> HIDE DEF S, parts
  <2>2. parts \in Seq(S)
    BY <1>2, <2>1
  <2> QED
    BY <2>2 DEF S
<1>4. /\ Len(parts) = Octets
      /\ \A i \in DOMAIN parts : /\ Len(parts[i]) = 1 /\ IsDigits(Head(parts[i]))
                                 /\ Head(parts[i]).as = "plain" /\ Head(parts[i]).value <= OctetMax
  <2>1. ~NoAddress.ok
    BY DEF NoAddress
  <2> HIDE DEF parts
  <2> QED
    BY <2>1, Zenon DEF inet_pton, parts
<1> HIDE DEF parts
<1>5. DOMAIN parts = 1..Octets /\ \A i \in 1..Octets : parts[i] \in Seq(Shapes)
  BY <1>3, <1>4
<1>6. ASSUME NEW i \in 1..Octets
      PROVE  /\ parts[i] = <<Digits(Head(parts[i]).value)>>
             /\ Head(parts[i]).value \in 0..OctetMax
  <2> DEFINE part == parts[i]
             piece == Head(part)
  <2>1. /\ part \in Seq(Shapes) /\ Len(part) = 1 /\ piece.is = "digits" /\ piece.as = "plain"
        /\ piece.value <= OctetMax
    BY <1>4, <1>5 DEF IsDigits
  <2> HIDE DEF part
  <2>2. part = <<piece>> /\ piece \in Shapes
    <3>1. ASSUME NEW S, NEW s \in Seq(S), Len(s) = 1 PROVE s = <<s[1]>> /\ s[1] \in S /\ Head(s) = s[1]
      <4>1. s = [j \in 1..Len(s) |-> s[j]] /\ s # <<>> /\ 1 \in 1..Len(s)
        BY <3>1
      <4> QED
        BY <3>1, <4>1
    <3> HIDE DEF piece
    <3>2. part = <<part[1]>> /\ part[1] \in Shapes /\ Head(part) = part[1]
      BY <2>1, <3>1
    <3> QED
      BY <3>2 DEF piece
  <2>3. piece \in Pieces
    <3>1. piece # Mark(".") /\ piece # Mark("/")
      <4>1. Mark(".").is = "mark" /\ Mark("/").is = "mark"
        BY DEF Mark, Piece
      <4> HIDE DEF piece
      <4> QED
        BY <2>1, <4>1
    <3> HIDE DEF piece
    <3> QED
      BY <2>2, <3>1 DEF Shapes
  <2> HIDE DEF piece
  <2>4. piece = Digits(piece.value) /\ piece.value \in Nat
    BY <2>1, <2>3 DEF Pieces, Digits, Piece
  <2>5. OctetMax \in Int
    BY WidthAssumption, PowersArePositive DEF OctetMax
  <2> QED
    BY <2>1, <2>2, <2>4, <2>5 DEF part, piece
<1>7. numbers \in [1..Octets -> 0..OctetMax]
  BY <1>6
<1>8. numbers \in Seq(Nat) /\ Len(numbers) = Octets
  BY <1>7, NumbersParsed, WidthAssumption
<1>9. \A i \in 1..Octets : parts[i] = <<Digits(numbers[i])>>
  BY <1>6
<1> HIDE DEF numbers
<1>10. parts = NumbersOf(numbers)
  <2>1. NumbersOf(numbers) = [i \in 1..Octets |-> <<Digits(numbers[i])>>]
    BY <1>8 DEF NumbersOf
  <2>2. parts = [i \in 1..Octets |-> parts[i]]
    BY <1>3, <1>5
  <2> QED
    BY <1>9, <2>1, <2>2
<1>11. ip = Dotted(numbers)
  BY <1>1, <1>2, <1>8, <1>10, WholeText
<1> QED
  BY <1>7, <1>11

(* Pieces of sequences.                                                    *)
LEMMA OneOf ==
  ASSUME NEW S, NEW w \in Seq(S), NEW i \in 1..Len(w) PROVE SubSeq(w, i, i) = <<w[i]>>
<1>1. SubSeq(w, i, i) \in Seq(S) /\ Len(SubSeq(w, i, i)) = 1 /\ SubSeq(w, i, i)[1] = w[i]
  OBVIOUS
<1> DEFINE one == SubSeq(w, i, i)
<1> HIDE DEF one
<1>2. one \in Seq(S) /\ Len(one) = 1 /\ one[1] = w[i]
  BY <1>1 DEF one
<1>3. one = [j \in 1..1 |-> one[j]]
  BY <1>2
<1>4. one = <<w[i]>>
  BY <1>2, <1>3
<1> QED
  BY <1>4 DEF one

(* A text, the mark it is without, and one more piece are told apart.      *)
LEMMA AroundMark ==
  ASSUME NEW S, NEW d \in Seq(S), NEW mark, \A i \in DOMAIN d : d[i] # mark, NEW p, p # mark
  PROVE  LET word == d \o <<mark, p>>
         IN  Has(word, mark) /\ Before(word, mark) = d /\ After(word, mark) = <<p>>
<1> DEFINE word == d \o <<mark, p>>
           n == Len(d)
<1>1. /\ n \in Nat /\ DOMAIN d = 1..n /\ DOMAIN word = 1..n + 2 /\ Len(word) = n + 2
      /\ \A i \in 1..n : word[i] = d[i]
      /\ word[n + 1] = mark /\ word[n + 2] = p
      /\ word \in Seq(S \cup {mark, p})
  OBVIOUS
<1> HIDE DEF word, n
<1>2. n + 1 \in DOMAIN word
  BY <1>1
<1>3. \A j \in 1..(n + 1 - 1) : word[j] # mark
  BY <1>1
<1>4. ASSUME NEW i \in DOMAIN word, word[i] = mark, \A j \in 1..(i - 1) : word[j] # mark
      PROVE  i = n + 1
  <2>1. i \in 1..n + 2 /\ i \notin 1..n /\ i # n + 2
    BY <1>1, <1>4
  <2> QED
    BY <1>1, <2>1
<1>5. FirstOf(word, mark) = n + 1
  BY <1>1, <1>2, <1>3, <1>4 DEF FirstOf
<1>6. Has(word, mark)
  BY <1>1, <1>2 DEF Has
<1>7. SubSeq(word, 1, n) = d
  <2>1. SubSeq(word, 1, n) = [i \in 1..n |-> word[i]]
    BY <1>1
  <2>2. d = [i \in 1..n |-> d[i]]
    BY <1>1
  <2> QED
    BY <1>1, <2>1, <2>2
<1>8. SubSeq(word, n + 2, n + 2) = <<p>>
  <2>1. n + 2 \in 1..Len(word)
    BY <1>1
  <2> QED
    BY <1>1, <2>1, OneOf
<1>9. Before(word, mark) = d /\ After(word, mark) = <<p>>
  <2>1. n + 1 - 1 = n /\ n + 1 + 1 = n + 2
    BY <1>1
  <2> QED
    BY <1>1, <1>5, <1>7, <1>8, <2>1 DEF Before, After
<1> QED
  BY <1>6, <1>9 DEF word

LEMMA TwoMore ==
  ASSUME NEW S, NEW d \in Seq(S), NEW x, NEW y, NEW k \in Nat, Len(d) = k
  PROVE  LET w == d \o <<x, y>>
         IN  /\ Len(w) = k + 2 /\ DOMAIN w = 1..(k + 2) /\ w \in Seq(S \cup {x, y})
             /\ \A i \in 1..k : w[i] = d[i]
             /\ w[k + 1] = x /\ w[k + 2] = y
OBVIOUS

(* And a word with one piece behind the mark is put together of the two.   *)
LEMMA AtMark ==
  ASSUME NEW word \in Words, NEW mark, Has(word, mark), NEW p, After(word, mark) = <<p>>
  PROVE  word = Before(word, mark) \o <<mark, p>> /\ p \in Pieces
<1> DEFINE f == FirstOf(word, mark)
           l == Len(word)
<1>1. f \in 1..l /\ word[f] = mark /\ l \in Nat /\ DOMAIN word = 1..l
  BY PartsAreWords DEF Words
<1>2. SubSeq(word, f + 1, l) = <<p>>
  BY DEF After
<1> HIDE DEF f, l
<1>3. l - f = 1
  <2>1. Len(SubSeq(word, f + 1, l)) = IF f + 1 <= l THEN l - f ELSE 0
    BY <1>1 DEF l, Words
  <2>2. Len(<<p>>) = 1
    OBVIOUS
  <2> DEFINE one == <<p>>
             rest == SubSeq(word, f + 1, l)
  <2>3. rest = one
    BY <1>2
  <2> HIDE DEF one, rest
  <2>4. Len(rest) = 1
    BY <2>2, <2>3 DEF one
  <2>5. Len(rest) = IF f + 1 <= l THEN l - f ELSE 0
    BY <2>1 DEF rest
  <2> DEFINE n == Len(rest)
  <2>6. n = 1 /\ (f + 1 <= l => n = l - f) /\ (~(f + 1 <= l) => n = 0)
    BY <2>4, <2>5
  <2> HIDE DEF n
  <2>7. f \in Int /\ l \in Int
    BY <1>1
  <2> QED
    BY <2>6, <2>7
<1>4. word[l] = p /\ l = f + 1
  <2>1. l = f + 1 /\ l \in 1..l
    BY <1>1, <1>3
  <2>2. SubSeq(word, l, l) = <<word[l]>>
    BY <2>1, OneOf DEF l, Words
  <2>3. <<word[l]>> = <<p>>
    BY <1>2, <2>1, <2>2
  <2> QED
    BY <2>1, <2>3
<1>5. word = SubSeq(word, 1, f - 1) \o <<mark, p>>
  <2> DEFINE d == SubSeq(word, 1, f - 1)
  <2>1. /\ d \in Seq(Pieces) /\ Len(d) = f - 1
        /\ \A i \in 1..f - 1 : d[i] = word[i]
    BY <1>1, <1>4 DEF l, Words
  <2> HIDE DEF d
  <2>2. LET w == d \o <<mark, p>>
        IN  /\ Len(w) = f + 1 /\ DOMAIN w = 1..f + 1
            /\ w = [i \in 1..f + 1 |-> w[i]]
            /\ \A i \in 1..f - 1 : w[i] = d[i]
            /\ w[f] = mark /\ w[f + 1] = p
    <3> DEFINE k == f - 1
               w == d \o <<mark, p>>
    <3>1. k \in Nat /\ k + 1 = f /\ k + 2 = f + 1
      BY <1>1
    <3>2. d \in Seq(Pieces) /\ Len(d) = k
      BY <2>1
    <3> HIDE DEF k
    <3>3. /\ Len(w) = k + 2 /\ DOMAIN w = 1..(k + 2) /\ w \in Seq(Pieces \cup {mark, p})
          /\ \A i \in 1..k : w[i] = d[i]
          /\ w[k + 1] = mark /\ w[k + 2] = p
      BY <3>1, <3>2, TwoMore
    <3> HIDE DEF w
    <3>4. w = [i \in 1..f + 1 |-> w[i]]
      BY <3>1, <3>3
    <3> QED
      BY <3>1, <3>3, <3>4 DEF w, k
  <2>3. word = [i \in 1..f + 1 |-> word[i]]
    BY <1>1, <1>4 DEF Words, l
  <2> DEFINE glued == d \o <<mark, p>>
  <2>4. \A i \in 1..f + 1 : glued[i] = word[i]
    BY <1>1, <1>4, <2>1, <2>2
  <2> HIDE DEF glued
  <2>5. glued = [i \in 1..f + 1 |-> glued[i]]
    BY <2>2 DEF glued
  <2>6. glued = word
    BY <2>3, <2>4, <2>5
  <2> QED
    BY <2>6 DEF glued, d
<1>6. p \in Pieces
  <2>1. l \in 1..l
    BY <1>1
  <2>2. word[l] \in Pieces
    BY <1>1, <2>1 DEF Words
  <2> QED
    BY <1>4, <2>2
<1> QED
  BY <1>5, <1>6 DEF Before, f

(* What parseCIDR and the generator make of a well-formed block.           *)
LEMMA BlockIsRead ==
  ASSUME NEW numbers \in [1..Octets -> 0..OctetMax], NEW prefix \in 0..Width,
         NEW word \in CIDRTexts(numbers, prefix)
  PROVE  /\ parseCIDR(word) = [ok |-> TRUE, ip |-> Dotted(numbers), prefix |-> prefix]
         /\ Has(word, Mark("/")) /\ Before(word, Mark("/")) = Dotted(numbers)
         /\ stoi(After(word, Mark("/"))) = [ok |-> TRUE, value |-> prefix, whole |-> TRUE]
<1> DEFINE slash == Mark("/")
           d == Dotted(numbers)
<1>1. PICK p \in {Digits(prefix), Padded(prefix)} : word = d \o <<slash, p>>
  BY DEF CIDRTexts
<1>2. /\ numbers \in Seq(Nat) /\ numbers # <<>>
  <2>1. 1 \in 1..Octets
    BY WidthAssumption
  <2>2. DOMAIN numbers = 1..Octets /\ DOMAIN <<>> = {}
    OBVIOUS
  <2> QED
    BY <2>1, <2>2, NumbersParsed
<1>3. d \in Seq(Shapes) /\ d # <<>> /\ \A i \in DOMAIN d : d[i] # slash
  BY <1>2, NumbersReadBack DEF ReadsBack
<1>4. prefix \in Nat /\ Width \in Nat /\ Width <= MaxInt /\ prefix <= Width
  BY WidthIs, NumbersAssumption
<1>5. p.is = "digits" /\ p.value = prefix /\ p # slash /\ p \in Pieces
  <2>1. p.is = "digits" /\ p.value = prefix /\ p \in Pieces
    <3>1. CASE p = Digits(prefix)
      <4>1. p = [is |-> "digits", text |-> "", value |-> prefix, as |-> "plain"]
        BY <3>1 DEF Digits, Piece
      <4> QED
        BY <1>4, <4>1 DEF Pieces
    <3>2. CASE p = Padded(prefix)
      <4>1. p = [is |-> "digits", text |-> "", value |-> prefix, as |-> "padded"]
        BY <3>2 DEF Padded, Piece
      <4> QED
        BY <1>4, <4>1 DEF Pieces
    <3> QED
      BY <1>1, <3>1, <3>2
  <2>2. slash.is = "mark"
    BY DEF Mark, Piece
  <2> QED
    BY <2>1, <2>2
<1> HIDE DEF d, slash
<1>6. Has(word, slash) /\ Before(word, slash) = d /\ After(word, slash) = <<p>>
  BY <1>1, <1>3, <1>5, AroundMark
<1> DEFINE text == <<p>>
<1>7. Len(text) = 1 /\ Head(text) = p /\ text[1] = p /\ text \in Words
  BY <1>5 DEF Words
<1> HIDE DEF text
<1>8. parseCIDR(word) = [ok |-> TRUE, ip |-> d, prefix |-> prefix]
  <2>1. IsDigits(p) /\ After(word, slash) = text
    BY <1>5, <1>6 DEF IsDigits, text
  <2> QED
    BY <1>3, <1>4, <1>5, <1>6, <1>7, <2>1, Zenon DEF parseCIDR, slash
<1>9. stoi(text) = [ok |-> TRUE, value |-> prefix, whole |-> TRUE]
  <2> DEFINE S == 0..Width
  <2>1. NumberIn(text, S)
    BY <1>4, <1>5, <1>7 DEF NumberIn, IsNumber, IsDigits
  <2>2. \A n \in S : n \in Nat /\ n <= MaxInt
    BY <1>4, MaxIntAssumption
  <2> HIDE DEF S
  <2>3. stoi(text).ok /\ stoi(text).whole /\ stoi(text).value = prefix
    BY <1>5, <1>7, <2>1, <2>2, NumberIsRead
  <2>4. stoi(text) # NoNumber
    BY <2>3 DEF NoNumber
  <2>5. stoi(text) = [ok |-> TRUE, value |-> stoi(text).value, whole |-> stoi(text).whole]
    BY <2>4, Zenon DEF stoi
  <2> QED
    BY <2>3, <2>5, Zenon
<1> QED
  BY <1>6, <1>8, <1>9 DEF d, slash, text

(* Only a well-formed block is accepted.                                   *)
LEMMA BlockIsMeant ==
  ASSUME NEW word \in Words, parseCIDR(word).ok, inet_pton(parseCIDR(word).ip).ok
  PROVE  \E numbers \in [1..Octets -> 0..OctetMax], prefix \in 0..Width :
           word \in CIDRTexts(numbers, prefix)
<1> DEFINE slash == Mark("/")
           ip == Before(word, slash)
           text == After(word, slash)
           p == Head(text)
<1>1. /\ Has(word, slash) /\ Len(text) = 1 /\ IsDigits(p) /\ p.value <= Width
      /\ parseCIDR(word) = [ok |-> TRUE, ip |-> ip, prefix |-> p.value]
  <2>1. ~NoCIDR.ok
    BY DEF NoCIDR
  <2> HIDE DEF slash
  <2> QED
    BY <2>1, Zenon DEF parseCIDR, slash
<1>2. ip \in Words /\ text \in Words
  BY <1>1, PartsAreWords
<1>3. text = <<p>>
  <2>1. ASSUME NEW S, NEW s \in Seq(S), Len(s) = 1 PROVE s = <<Head(s)>>
    <3>1. s = [i \in 1..1 |-> s[i]] /\ Head(s) = s[1]
      BY <2>1
    <3> QED
      BY <3>1
  <2> HIDE DEF text
  <2>2. text \in Seq(Pieces) /\ Len(text) = 1
    BY <1>1, <1>2 DEF Words
  <2> QED
    BY <2>1, <2>2
<1>4. ip \in Seq(Shapes)
  <2> HIDE DEF ip
  <2>1. Pieces \subseteq Shapes
    BY DEF Shapes
  <2> HIDE DEF Shapes
  <2>2. ip \in Seq(Pieces)
    BY <1>2 DEF Words
  <2>3. \A S, T : S \subseteq T => Seq(S) \subseteq Seq(T)
    OBVIOUS
  <2> QED
    BY <2>1, <2>2, <2>3
<1>5. inet_pton(ip).ok
  <2> HIDE DEF ip
  <2>1. parseCIDR(word).ip = ip
    BY <1>1
  <2> QED
    BY <2>1
<1>6. PICK numbers \in [1..Octets -> 0..OctetMax] : ip = Dotted(numbers)
  <2> HIDE DEF ip
  <2> QED
    BY <1>4, <1>5, ParsedNumbers
<1> HIDE DEF ip, text, p
<1>7. word = ip \o <<slash, p>> /\ p \in Pieces
  <2> HIDE DEF slash
  <2> QED
    BY <1>1, <1>3, AtMark DEF ip, text
<1> DEFINE v == p.value
<1>8. v \in Nat /\ p \in {Digits(v), Padded(v)}
  <2>1. p \in [is : {"digits"}, text : {""}, value : Nat, as : {"plain", "padded"}]
    BY <1>1, <1>7 DEF Pieces, IsDigits
  <2> QED
    BY <2>1 DEF Digits, Padded, Piece
<1>9. v \in 0..Width
  BY <1>1, <1>8, WidthIs
<1> HIDE DEF v
<1>10. word \in CIDRTexts(numbers, v)
  BY <1>6, <1>7, <1>8 DEF CIDRTexts
<1> QED
  BY <1>9, <1>10

(* subnet|:calc and the generator are right about every word.              *)
BlocksIn(word) ==
  {np \in [1..Octets -> 0..OctetMax] \X (0..Width) : word \in CIDRTexts(np[1], np[2])}

(* So the answer is right for every word, meant or not.                    *)
LEMMA WordRight ==
  ASSUME NEW word \in Words
  PROVE  /\ calculate(word).valid <=> BlocksIn(word) # {}
         /\ \A np \in BlocksIn(word) :
              /\ Describes(calculate(word), ValueOf(np[1]), np[2])
              /\ \A hosts \in generateHosts(word) : Lists(hosts, ValueOf(np[1]), np[2])
<1>1. ASSUME NEW np \in BlocksIn(word)
      PROVE  /\ calculate(word).valid
             /\ Describes(calculate(word), ValueOf(np[1]), np[2])
             /\ \A hosts \in generateHosts(word) : Lists(hosts, ValueOf(np[1]), np[2])
  <2>1. PICK numbers \in [1..Octets -> 0..OctetMax], prefix \in 0..Width :
          np[1] = numbers /\ np[2] = prefix /\ word \in CIDRTexts(numbers, prefix)
    BY DEF BlocksIn
  <2> DEFINE address == ValueOf(numbers)
             slash == Mark("/")
             read == stoi(After(word, slash))
  <2>2. /\ address \in Address
        /\ inet_pton(Dotted(numbers)) = [ok |-> TRUE, value |-> address]
        /\ parseIPv4(Dotted(numbers)) = [ok |-> TRUE, value |-> address]
    BY NumbersParsed
  <2>3. /\ parseCIDR(word) = [ok |-> TRUE, ip |-> Dotted(numbers), prefix |-> prefix]
        /\ Has(word, slash) /\ Before(word, slash) = Dotted(numbers)
        /\ read = [ok |-> TRUE, value |-> prefix, whole |-> TRUE]
    BY <2>1, BlockIsRead
  <2>4. parseCIDR(word).ok /\ parseCIDR(word).prefix = prefix /\ parseCIDR(word).ip = Dotted(numbers)
    BY <2>3
  <2> HIDE DEF address
  <2>5. calculate(word).valid /\ Describes(calculate(word), address, prefix)
    <3>1. inet_pton(parseCIDR(word).ip) = [ok |-> TRUE, value |-> address]
      BY <2>2, <2>4
    <3> QED
      BY <2>2, <2>4, <3>1, Calculated
  <2>6. ASSUME NEW hosts \in generateHosts(word) PROVE Lists(hosts, address, prefix)
    <3>1. parseIPv4(Before(word, Mark("/"))) = [ok |-> TRUE, value |-> address]
      BY <2>2, <2>3
    <3> QED
      BY <2>2, <2>3, <3>1, Generated
  <2> QED
    BY <2>1, <2>5, <2>6 DEF address
<1>2. ASSUME calculate(word).valid PROVE BlocksIn(word) # {}
  <2>1. ~Invalid.valid
    BY DEF Invalid
  <2>2. parseCIDR(word).ok /\ inet_pton(parseCIDR(word).ip).ok
    <3>1. ~parseCIDR(word).ok \/ ~inet_pton(parseCIDR(word).ip).ok => calculate(word) = Invalid
      BY Zenon DEF calculate
    <3> QED
      BY <1>2, <2>1, <3>1, Zenon
  <2>3. PICK numbers \in [1..Octets -> 0..OctetMax], prefix \in 0..Width :
          word \in CIDRTexts(numbers, prefix)
    BY <2>2, BlockIsMeant
  <2>4. <<numbers, prefix>> \in BlocksIn(word)
    BY <2>3 DEF BlocksIn
  <2> QED
    BY <2>4
<1> QED
  BY <1>1, <1>2, Zenon

(* subnet|:calc is given one word.                                         *)
Asked == operation.type = "SUBNET_CALC" => operation.words[1] \in Words

(* Nothing but handleSubnetCalc starts it.                                 *)
LEMMA ExecuteAsks ==
  ASSUME NEW c, c.arguments \in Seq(Words), NEW o \in execute(c), o.type = "SUBNET_CALC"
  PROVE  o.words[1] \in Words
<1> DEFINE args == c.arguments
<1>1. o # NotStarted
  BY DEF NotStarted, Operation
<1>2. c.type = "SUBNET_CALC"
  BY <1>1, ExecuteRight DEF Right
<1>3. o \in handleSubnetCalc(args)
  BY <1>2 DEF execute, Unargued
<1> HIDE DEF args
<1>4. Len(args) = 1 /\ o = Operation("SUBNET_CALC", args, <<>>)
  BY <1>1, <1>3 DEF handleSubnetCalc, Start, Refused
<1>5. args[1] \in Words
  <2>1. args \in Seq(Words)
    BY DEF args
  <2>2. Len(args) = 1
    BY <1>4
  <2> QED
    BY <2>1, <2>2
<1> QED
  BY <1>4, <1>5 DEF Operation

LEMMA AskedInvariant == Spec => []Asked
<1>1. Init => Asked
  BY DEF Init, Asked, NotStarted, Operation
<1>2. Typed /\ Asked /\ [Next]_vars => Asked'
  <2> SUFFICES ASSUME Typed, Asked, [Next]_vars PROVE Asked'
    OBVIOUS
  <2>1. CASE Execute
    <3>1. PICK o \in execute(parse(line)) : Begin(o)
      BY <2>1 DEF Execute
    <3>2. operation' = o
      BY <3>1 DEF Begin
    <3>3. parse(line).arguments \in Seq(Words)
      BY ArgumentsAreWords
    <3> QED
      BY <3>1, <3>2, <3>3, ExecuteAsks DEF Asked
  <2>2. CASE Finish
    BY <2>2 DEF Finish, Asked, NotStarted, Operation
  <2>3. CASE UNCHANGED operation
    BY <2>3 DEF Asked
  <2> QED
    BY <2>1, <2>2, <2>3 DEF Next, Plain, vars, session, Prompt, EndOfInput, Line, NoOperation,
       Interrupted, Exit, ClearStop, Poll, Wait, WaitEnds, Audit, AuditTime, Signal, Terminated
<1> QED
  BY <1>1, <1>2, TypedInvariant, PTL DEF Spec

(* subnet|:calc describes the block of addresses its word stands for and   *)
(* refuses every other word (src/network/subnet_calculator.cpp), the       *)
(* generator of hosts agrees with it (host_discovery.cpp), and what is     *)
(* shown at the end of a lookup follows from what it was told              *)
(* (banner_grabber.cpp, mac_resolver.cpp, os_fingerprint.cpp,              *)
(* src/platform/linux/dns_linux.cpp): for addresses of any width, words of *)
(* any length and any limit of a banner.  The property names tables and    *)
(* lists of up to two entries; the lemmas it rests on hold of every length.*)
THEOREM AnswersAreRight == Spec => []AnswersHold
<1>1. Asked => SubnetExact
  <2> SUFFICES ASSUME Asked, operation.type = "SUBNET_CALC" PROVE SubnetExact
    BY DEF SubnetExact
  <2> DEFINE word == operation.words[1]
             meant == {np \in [1..Octets -> 0..OctetMax] \X (0..Width) :
                         word \in CIDRTexts(np[1], np[2])}
  <2>1. word \in Words
    BY DEF Asked
  <2>2. meant = BlocksIn(word)
    BY DEF BlocksIn
  <2> HIDE DEF word, meant
  <2>3. /\ calculate(word).valid <=> meant # {}
        /\ \A np \in meant :
             /\ Describes(calculate(word), ValueOf(np[1]), np[2])
             /\ \A hosts \in generateHosts(word) : Lists(hosts, ValueOf(np[1]), np[2])
    BY <2>1, <2>2, WordRight, Zenon
  <2> QED
    BY <2>3, Zenon DEF SubnetExact, word, meant
<1>2. pc = "finish" => LookupBacked(operation.type)
  BY LookupsBacked
<1>3. Asked => AnswersHold
  BY <1>1, <1>2 DEF AnswersHold
<1> QED
  BY <1>3, AskedInvariant, PTL
=============================================================================
