-------------------------- MODULE SubnetCalculator --------------------------
(***************************************************************************)
(* SubnetCalculator::calculate: what a block of addresses written as       *)
(* <address>/<prefix> consists of.  Addresses are unsigned integers of     *)
(* Width bits; of their formatting only the number is kept.                *)
(***************************************************************************)
EXTENDS CommandParser, FiniteSets, FiniteSetsExt

CONSTANTS Octets,      (* numbers of a dotted address: 4                   *)
          OctetBits    (* bits of each of them: 8                          *)
ASSUME WidthAssumption == Octets \in Nat \ {0} /\ OctetBits \in Nat \ {0}

(* 2^n, doubling by doubling.                                              *)
Double(power, turn) == 2 * power
Doubling == INSTANCE VectorLoop WITH Step <- Double
Power(n) == Doubling!Run(1, [i \in 1..n |-> i])

Width    == Octets * OctetBits
OctetMax == Power(OctetBits) - 1
Modulus  == Power(Width)
Address  == 0..(Modulus - 1)

(* An int holds each number of an address and every prefix.                *)
ASSUME NumbersAssumption == OctetMax <= MaxInt /\ Width <= MaxInt

(* Unsigned arithmetic on Width bits, operator by operator; & and | take   *)
(* bit after bit from the low ends.                                        *)
Wrap(n)  == n % Modulus
TakeBit(taken, turn) ==
  LET x == taken.a % 2
      y == taken.b % 2
  IN  [a      |-> taken.a \div 2,
       b      |-> taken.b \div 2,
       weight |-> 2 * taken.weight,
       both   |-> taken.both + (IF x = 1 /\ y = 1 THEN taken.weight ELSE 0),
       either |-> taken.either + (IF x = 1 \/ y = 1 THEN taken.weight ELSE 0)]
Taking == INSTANCE VectorLoop WITH Step <- TakeBit
Taken(a, b) ==
  Taking!Run([a |-> a, b |-> b, weight |-> 1, both |-> 0, either |-> 0], [i \in 1..Width |-> i])
And(a, b) == Taken(a, b).both
Or(a, b)  == Taken(a, b).either
Not(a)    == Modulus - 1 - a
ShiftLeft(a, n) == Wrap(a * Power(n))

NoAddress == [ok |-> FALSE, value |-> 0]
ShiftIn(sum, n) == sum * Power(OctetBits) + n
Reading == INSTANCE VectorLoop WITH Step <- ShiftIn
ValueOf(numbers) == Reading!Run(0, numbers)

(* inet_pton: exactly Octets numbers without sign or leading zero.         *)
inet_pton(word) ==
  LET parts == SplitAt(word, Mark("."))
      octet(part) == /\ Len(part) = 1 /\ IsDigits(Head(part))
                     /\ Head(part).as = "plain" /\ Head(part).value <= OctetMax
  IN  IF Len(parts) = Octets /\ \A i \in DOMAIN parts : octet(parts[i])
      THEN [ok |-> TRUE, value |-> ValueOf([i \in DOMAIN parts |-> Head(parts[i]).value])]
      ELSE NoAddress

(* parseCIDR and parsePrefix: exactly one slash with something on either   *)
(* side, and only digits after it.                                         *)
NoCIDR == [ok |-> FALSE, ip |-> <<>>, prefix |-> 0]
parseCIDR(word) ==
  IF ~Has(word, Mark("/")) THEN NoCIDR
  ELSE LET ip         == Before(word, Mark("/"))
           prefixText == After(word, Mark("/"))
       IN  IF /\ ip # <<>>
              /\ Len(prefixText) = 1 /\ IsDigits(Head(prefixText))
              /\ Head(prefixText).value <= Width
           THEN [ok |-> TRUE, ip |-> ip, prefix |-> Head(prefixText).value]
           ELSE NoCIDR

(* Fault: the mask is shifted by the prefix, as without its own case for 0.*)
netmaskShifted(prefix) == ShiftLeft(Modulus - 1, prefix)

netmask(prefix) ==
  IF prefix = 0 THEN 0 ELSE ShiftLeft(Modulus - 1, Width - prefix)

Invalid == [valid |-> FALSE, prefix |-> 0, network |-> 0, broadcast |-> 0,
            netmask |-> 0, wildcard |-> 0, totalAddresses |-> 0,
            firstHost |-> 0, lastHost |-> 0, usableHosts |-> 0]

calculate(word) ==
  LET cidr      == parseCIDR(word)
      address   == inet_pton(cidr.ip)
      mask      == netmask(cidr.prefix)
      network   == And(address.value, mask)
      broadcast == Or(network, Not(mask))
      total     == broadcast - network + 1
      hosts     ==
        IF cidr.prefix <= Width - 2
        THEN <<Wrap(network + 1), Wrap(broadcast - 1), IF total >= 2 THEN total - 2 ELSE 0>>
        ELSE IF cidr.prefix = Width - 1 THEN <<network, broadcast, 2>>
        ELSE <<network, network, 1>>
  IN  IF ~cidr.ok \/ ~address.ok THEN Invalid
      ELSE [valid |-> TRUE, prefix |-> cidr.prefix, network |-> network,
            broadcast |-> broadcast, netmask |-> mask, wildcard |-> Not(mask),
            totalAddresses |-> total, firstHost |-> hosts[1],
            lastHost |-> hosts[2], usableHosts |-> hosts[3]]
-----------------------------------------------------------------------------
(* What the numbers stand for: the addresses that agree with the given one *)
(* on the first prefix bits.                                               *)
Block(address, prefix) ==
  {a \in Address : a \div Power(Width - prefix) = address \div Power(Width - prefix)}

(* The addresses a host of the block may have: without the first and the   *)
(* last one, except where there are no others.                             *)
HostsOf(block) ==
  IF Cardinality(block) > 2 THEN block \ {Min(block), Max(block)} ELSE block

(* The canonical text of an address, and the texts of address and prefix.  *)
Dot(text, n) ==
  Append(IF text = <<>> THEN text ELSE Append(text, Mark(".")), Digits(n))
Dotting == INSTANCE VectorLoop WITH Step <- Dot
Dotted(numbers) == Dotting!Run(<<>>, numbers)
CIDRTexts(numbers, prefix) ==
  {Dotted(numbers) \o <<Mark("/"), p>> : p \in {Digits(prefix), Padded(prefix)}}

(* The result describes the block, bit for bit.                            *)
Describes(r, address, prefix) ==
  LET block == Block(address, prefix)
      hosts == HostsOf(block)
  IN  /\ r.valid /\ r.prefix = prefix
      /\ r.network = Min(block) /\ r.broadcast = Max(block)
      /\ r.totalAddresses = Cardinality(block)
      /\ r.usableHosts = Cardinality(hosts)
      /\ r.firstHost = Min(hosts) /\ r.lastHost = Max(hosts)
      /\ r.wildcard = r.broadcast - r.network
      /\ r.netmask = Modulus - Cardinality(block)
=============================================================================
