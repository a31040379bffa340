------------------------------ MODULE Lookups -------------------------------
(***************************************************************************)
(* The commands that ask the system or a service one question and print    *)
(* the answer: banner|:grab, os|:fingerprint, mac|:resolve, dns|:resolve.  *)
(* Each is an operator from what the system says -- the bytes a service    *)
(* sends, the output of ping, the kernel's neighbour table, the resolver's *)
(* answer -- to what the command shows.                                    *)
(***************************************************************************)
EXTENDS CommandParser

CONSTANT BannerLimit  (* 512 in the code                                   *)
ASSUME BannerLimitAssumption == BannerLimit \in Nat \ {0}

-----------------------------------------------------------------------------
(* banner|:grab.  Of a byte is kept what clean tells apart; bytes above    *)
(* 127 are letters to it.                                                  *)
Letters == {"a", "b"}
Bytes   == Letters \cup {"blank", "return", "newline", "control"}

(* The name is chosen by the port alone.                                   *)
protocolOf(port) ==
  LET named == {<<{80, 8080, 8000, 8888}, "HTTP">>, <<{21}, "FTP">>, <<{22}, "SSH">>,
                <<{25}, "SMTP">>, <<{110, 995}, "POP3">>, <<{143, 993}, "IMAP">>,
                <<{53}, "DNS">>, <<{443, 8443}, "HTTPS">>}
  IN  IF \E n \in named : port \in n[1]
      THEN (CHOOSE n \in named : port \in n[1])[2] ELSE "TCP"

Separator == <<"blank", "bar", "blank">>

(* One turn of the loop of clean.  The limit is looked at only after a     *)
(* byte of the banner itself.                                              *)
CleanByte(shown, byte) ==
  CASE shown.full \/ byte \in {"return", "control"} -> shown
    [] ~shown.full /\ byte = "newline" ->
         IF shown.text # <<>> /\ Last(shown.text) # "blank"
         THEN [shown EXCEPT !.text = @ \o Separator] ELSE shown
    [] OTHER -> [text |-> Append(shown.text, byte),
                 full |-> Len(shown.text) + 1 >= BannerLimit]

Cleaning == INSTANCE VectorLoop WITH Step <- CleanByte
clean(bytes) == Cleaning!Run([text |-> <<>>, full |-> FALSE], bytes).text

(* accepts: tcpConnect reported a connection, which it also does when      *)
(* connect() fails at once (PortScanner); bytes: what one receive gave,    *)
(* empty for silence.  On an HTTP port a request was sent before.          *)
grab(port, accepts, bytes) ==
  [protocol  |-> protocolOf(port),
   requested |-> accepts /\ protocolOf(port) = "HTTP",
   connected |-> accepts,
   banner    |-> IF accepts THEN clean(bytes) ELSE <<>>]

-----------------------------------------------------------------------------
(* os|:fingerprint.  ttls: the numbers ping prints after "ttl=", none if   *)
(* there was no answer or Ctrl+C ended it.  The first one counts, if it is *)
(* a positive int; 0 stands for a host that is not reachable.              *)
fingerprintHost(ttls) ==
  IF ttls # <<>> /\ Head(ttls) \in 1..MaxInt THEN Head(ttls) ELSE 0

Undetected == [detected |-> FALSE, ttl |-> 0, system |-> "Unknown", confidence |-> "LOW"]

(* The systems by the TTL their packets start with.                        *)
Systems == {[initial |-> 64,  name |-> "Linux",    farther |-> "MEDIUM"],
            [initial |-> 128, name |-> "Windows",  farther |-> "MEDIUM"],
            [initial |-> 255, name |-> "embedded", farther |-> "LOW"]}

(* The system whose packets may have come down to that TTL, the one that   *)
(* starts lowest; "HIGH" if it has come down from nothing.                 *)
fingerprint(ttls) ==
  LET ttl       == fingerprintHost(ttls)
      possible  == {s \in Systems : ttl <= s.initial}
      guess     == CHOOSE s \in possible : \A t \in possible : s.initial <= t.initial
  IN  CASE ttl = 0       -> Undetected
        [] possible = {} -> [Undetected EXCEPT !.detected = TRUE, !.ttl = ttl]
        [] OTHER         -> [detected |-> TRUE, ttl |-> ttl, system |-> guess.name,
                             confidence |-> IF ttl = guess.initial THEN "HIGH" ELSE guess.farther]

-----------------------------------------------------------------------------
(* mac|:resolve.  Of a line of the kernel's neighbour table is kept which  *)
(* address it is for, whether it has all its fields, and of the hardware   *)
(* address whether it is all zero (the kernel got no answer yet) and has   *)
(* the 17 characters with colons that isValidMac asks for.  The flags of   *)
(* the line are not looked at.                                             *)
Neighbour == [address : {"target", "other"}, complete : BOOLEAN,
              zero : BOOLEAN, colons : BOOLEAN, device : {"eth0", "eth1"}]

Usable(neighbour) ==
  neighbour.complete /\ neighbour.address = "target" /\ ~neighbour.zero /\ neighbour.colons

(* The vendor lists are searched for the first eight characters of the     *)
(* address, colons included, in lines of which only hex digits are kept:   *)
(* nothing is ever found.                                                  *)
Vendor == "Unknown"

(* The first usable line is shown; normalizeMac changes its spelling only. *)
NotResolved == [found |-> FALSE, line |-> 0, device |-> "", vendor |-> ""]
resolveMac(table) ==
  LET usable == {k \in DOMAIN table : Usable(table[k])}
      first  == CHOOSE k \in usable : \A l \in usable : k <= l
  IN  IF usable = {} THEN NotResolved
      ELSE [found |-> TRUE, line |-> first, device |-> table[first].device,
            vendor |-> Vendor]

-----------------------------------------------------------------------------
(* dns|:resolve.  An address is looked up for its name only, a name for    *)
(* its addresses only.  pointer: what the reverse lookup gave; forward:    *)
(* the resolver's list, empty if it failed.                                *)
AddAddress(addresses, entry) ==
  IF entry.family \in {"IPv4", "IPv6"} THEN Append(addresses, entry) ELSE addresses
Collecting == INSTANCE VectorLoop WITH Step <- AddAddress

resolveDNS(input, pointer, forward) ==
  [addresses   |-> IF input = "address" THEN <<>> ELSE Collecting!Run(<<>>, forward),
   reverseName |-> IF input = "address" /\ pointer = "name" THEN <<pointer>> ELSE <<>>]

(* DNSResolver::resolve: "Do NOT mark an IP as fully resolved merely       *)
(* because the reverse lookup completed without an error."                 *)
resolve(input, pointer, forward) ==
  LET answer == resolveDNS(input, pointer, forward)
  IN  [addresses |-> answer.addresses, reverseName |-> answer.reverseName,
       success   |-> IF input = "address" THEN answer.reverseName # <<>>
                     ELSE answer.addresses # <<>>]

(* The status and the last line handleDnsResolve prints.                   *)
Status(input, result) ==
  IF result.success THEN "RESOLVED"
  ELSE IF input = "address" THEN "NO PTR RECORD" ELSE "FAILED"
-----------------------------------------------------------------------------
(* What the answers are worth.                                             *)

(* The places of the letters in a text, in their order.                    *)
Spell(read, byte) ==
  [length |-> read.length + 1,
   at     |-> IF byte \in Letters THEN Append(read.at, read.length + 1) ELSE read.at]
Spelling == INSTANCE VectorLoop WITH Step <- Spell
LettersIn(s) == Spelling!Run([length |-> 0, at |-> <<>>], s).at

(* A banner is shown without line breaks and control bytes, at most a      *)
(* separator and a byte beyond the limit; its letters are the first of the *)
(* answer, all of them below the limit; and what stood on two lines is not *)
(* run together.                                                           *)
BannerReadable(bytes) ==
  LET shown == clean(bytes)
      said  == LettersIn(bytes)
      kept  == LettersIn(shown)
  IN  /\ \A k \in DOMAIN shown : shown[k] \in Letters \cup {"blank", "bar"}
      /\ Len(shown) <= BannerLimit + Len(Separator)
      /\ Len(kept) <= Len(said)
      /\ Len(shown) < BannerLimit => Len(kept) = Len(said)
      /\ \A k \in DOMAIN kept : shown[kept[k]] = bytes[said[k]]
      /\ \A k \in 2..Len(kept) :
           (\E m \in said[k - 1]..said[k] : bytes[m] = "newline") => kept[k] > kept[k - 1] + 1

(* The system is named right for every host less than 64 hops away, and    *)
(* with "HIGH" confidence only for the next one.                           *)
GuessFits ==
  \A s \in Systems, hops \in 0..63 :
    LET guess == fingerprint(<<s.initial - hops>>)
    IN  guess.system = s.name /\ (guess.confidence = "HIGH" <=> hops = 0)

(* A hardware address is shown only if the kernel got it for the target,   *)
(* with the device of that line; none is shown only if no whole line for   *)
(* the target has one in the expected form.                                *)
AddressBelongs(table) ==
  LET shown == resolveMac(table)
      line  == table[shown.line]
  IN  IF shown.found
      THEN /\ line.address = "target" /\ line.complete /\ ~line.zero
           /\ shown.device = line.device
      ELSE \A k \in DOMAIN table :
             table[k].address = "target" /\ table[k].complete =>
               table[k].zero \/ ~table[k].colons

(* RESOLVED is shown for an address only with its name, for a name only    *)
(* with an address, and never with anything that was not looked up.        *)
AnswersBelong(input, pointer, forward) ==
  LET shown == resolve(input, pointer, forward)
  IN  /\ Status(input, shown) = "RESOLVED" <=>
           IF input = "address" THEN pointer = "name"
           ELSE \E k \in DOMAIN forward : forward[k].family # "other"
      /\ \A k \in DOMAIN shown.addresses : shown.addresses[k] \in Range(forward)
      /\ (shown.addresses = <<>>) \/ (shown.reverseName = <<>>)

LookupBacked(type) ==
  /\ type = "BANNER_GRAB" =>
       \A bytes \in SeqOf(Bytes, BannerLimit + 2) : BannerReadable(bytes)
  /\ type = "OS_FINGERPRINT" => GuessFits
  /\ type = "MAC_RESOLVE" => \A table \in SeqOf(Neighbour, 2) : AddressBelongs(table)
  /\ type = "DNS_RESOLVE" =>
       \A input \in {"address", "name"}, pointer \in {"name", "none", "failed"},
          forward \in SeqOf([family : {"IPv4", "IPv6", "other"}, address : {1, 2}], 2) :
         AnswersBelong(input, pointer, forward)
=============================================================================
