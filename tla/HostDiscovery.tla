---------------------------- MODULE HostDiscovery ----------------------------
(***************************************************************************)
(* HostDiscovery: the check of one host, and the addresses of a subnet     *)
(* with its own address parser, written a second time and differently from *)
(* SubnetCalculator's.  scanSubnet, the only caller of generateHosts, is   *)
(* itself called by nobody.                                                *)
(***************************************************************************)
EXTENDS SubnetCalculator

(* std::getline with '.' as the delimiter does not deliver an empty last   *)
(* part; stoi with its position accepts a sign and leading zeros.          *)
parseIPv4(word) ==
  LET split  == SplitAt(word, Mark("."))
      parts  == IF split[Len(split)] = <<>> THEN SubSeq(split, 1, Len(split) - 1) ELSE split
      number(i) == stoi(parts[i])
  IN  IF /\ Len(parts) = Octets
         /\ \A i \in DOMAIN parts :
              number(i).ok /\ number(i).whole /\ number(i).value \in 0..OctetMax
      THEN [ok |-> TRUE, value |-> ValueOf([i \in DOMAIN parts |-> number(i).value])]
      ELSE NoAddress

prefixToMask(prefix) ==
  IF prefix <= 0 THEN 0
  ELSE IF prefix >= Width THEN Modulus - 1
  ELSE ShiftLeft(Modulus - 1, Width - prefix)

(* 1u << (32 - prefix).  A shift by the whole width, for prefix 0, is      *)
(* undefined: shifts at run time give 1 on some machines, 0 on others.     *)
HostCounts(prefix) == IF prefix = 0 THEN {0, 1} ELSE {ShiftLeft(1, Width - prefix)}

(* The numbers from first to last, as the loop that stops at last builds   *)
(* them.                                                                   *)
AddressesUpTo(first, last) ==
  IF first > last THEN <<>> ELSE [i \in 1..(last - first + 1) |-> first + i - 1]

(* generateHosts: the lists it may return.                                 *)
generateHosts(word) ==
  LET ip         == Before(word, Mark("/"))
      prefixText == stoi(After(word, Mark("/")))
      address    == parseIPv4(ip)
      prefix     == prefixText.value
      network    == And(address.value, prefixToMask(prefix))
  IN  IF \/ ~Has(word, Mark("/"))
         \/ ~address.ok
         \/ ~prefixText.ok \/ ~prefixText.whole \/ prefix \notin 0..Width
      THEN {<<>>}
      ELSE IF prefix <= Width - 2
      THEN {AddressesUpTo(Wrap(network + 1), Wrap(network + count - 2)) :
              count \in HostCounts(prefix)}
      ELSE IF prefix = Width - 1 THEN {AddressesUpTo(network, Wrap(network + 1))}
      ELSE {AddressesUpTo(network, network)}

(* check: a subnet is not a host; otherwise one ping of the text.          *)
Checkable(word) == ~Has(word, Mark("/"))
-----------------------------------------------------------------------------
(* The list holds each host address of the block once, in order.  In a     *)
(* build where the shift by the whole width gives 1, the list of /0 has    *)
(* the last address too.                                                   *)
Lists(hosts, address, prefix) ==
  LET expected == HostsOf(Block(address, prefix))
      extra    == IF prefix = 0 THEN {Modulus - 1} ELSE {}
  IN  /\ expected \subseteq ToSet(hosts)
      /\ ToSet(hosts) \subseteq expected \cup extra
      /\ \A i, j \in DOMAIN hosts : i < j => hosts[i] < hosts[j]
=============================================================================
