------------------------- MODULE CredentialChecker --------------------------
(***************************************************************************)
(* CredentialChecker::check: the findings of cred|:check on a vector of    *)
(* detected services.  Unlike the vulnerability scanner it looks for no    *)
(* duplicates: two entries for one port would give two findings, so the    *)
(* findings are a sequence.  Their final sort is left out.                 *)
(***************************************************************************)
EXTENDS Naturals, Sequences, FiniteSets, TLC, Vectors

(* enum class CredentialRisk                                               *)
Risk == [LOW |-> 1, MEDIUM |-> 2, HIGH |-> 3, CRITICAL |-> 4]

(* The rules, one function per switch of the code: port |-> <<id, risk>>.  *)
checkPlaintextAuthentication ==
  [n \in {21, 23, 25, 110, 143} |->
     CASE n = 21  -> <<"SLP-CRED-FTP", Risk.HIGH>>
       [] n = 23  -> <<"SLP-CRED-TELNET", Risk.CRITICAL>>
       [] n = 25  -> <<"SLP-CRED-SMTP", Risk.MEDIUM>>
       [] n = 110 -> <<"SLP-CRED-POP3", Risk.HIGH>>
       [] n = 143 -> <<"SLP-CRED-IMAP", Risk.HIGH>>]

checkRemoteAuthenticationExposure ==
  [n \in {22, 3389, 445} |->
     CASE n = 22   -> <<"SLP-CRED-SSH", Risk.LOW>>
       [] n = 3389 -> <<"SLP-CRED-RDP", Risk.HIGH>>
       [] n = 445  -> <<"SLP-CRED-SMB", Risk.HIGH>>]

checkDatabaseAuthenticationExposure ==
  [n \in {3306, 5432, 6379, 27017} |->
     CASE n = 3306  -> <<"SLP-CRED-MYSQL", Risk.HIGH>>
       [] n = 5432  -> <<"SLP-CRED-POSTGRES", Risk.HIGH>>
       [] n = 6379  -> <<"SLP-CRED-REDIS", Risk.HIGH>>
       [] n = 27017 -> <<"SLP-CRED-MONGO", Risk.HIGH>>]

CredentialRules ==
  checkPlaintextAuthentication @@ checkRemoteAuthenticationExposure
    @@ checkDatabaseAuthenticationExposure

CredentialFinding(service) ==
  [host |-> service.ip, port |-> service.port, service |-> service.service,
   id |-> CredentialRules[service.port][1], risk |-> CredentialRules[service.port][2]]

(* check over the targets: every one of them that has a rule.              *)
credentialCheck(targets) ==
  LET concerned == Selected(targets,
                     {i \in DOMAIN targets : targets[i].port \in DOMAIN CredentialRules})
  IN  [i \in DOMAIN concerned |-> CredentialFinding(concerned[i])]
=============================================================================
