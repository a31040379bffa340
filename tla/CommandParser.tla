--------------------------- MODULE CommandParser ---------------------------
(***************************************************************************)
(* CommandParser::parse, CommandUtilities, and the library calls with      *)
(* which the handlers read numbers and addresses out of a typed word.      *)
(*                                                                         *)
(* A typed line is a sequence of words (operator>> drops the blanks        *)
(* between them), and a word a sequence of pieces: maximal runs of digits, *)
(* names, and marks such as "-", "/" and ".".  This keeps what the code    *)
(* tells apart -- where a number begins and what follows it -- and leaves  *)
(* out the spelling of names.                                              *)
(***************************************************************************)
EXTENDS Integers, Sequences, SequencesExt

(* The largest value of an int, which has 32 bits here: more than any      *)
(* number the handlers compare it with, of which the seconds of a day are  *)
(* the greatest.                                                           *)
CONSTANT MaxInt
ASSUME MaxIntAssumption == MaxInt \in Nat /\ MaxInt >= 86400

(* as: "plain"; for a name also "upper", for digits also "padded", that is *)
(* with leading zeros.                                                     *)
Piece(is, text, value, as) == [is |-> is, text |-> text, value |-> value, as |-> as]
Name(t)   == Piece("name", t, 0, "plain")
Upper(t)  == Piece("name", t, 0, "upper")
Mark(t)   == Piece("mark", t, 0, "plain")
Digits(n) == Piece("digits", "", n, "plain")
Padded(n) == Piece("digits", "", n, "padded")

Pieces ==
  [is : {"name"}, text : STRING, value : {0}, as : {"plain", "upper"}] \cup
  [is : {"mark"}, text : STRING, value : {0}, as : {"plain"}] \cup
  [is : {"digits"}, text : {""}, value : Nat, as : {"plain", "padded"}]
Words  == Seq(Pieces)

IsDigits(p) == p.is = "digits"
Has(word, mark) == \E i \in DOMAIN word : word[i] = mark

(* Splitting a word at its first mark, and at every mark.                  *)
FirstOf(word, mark) == CHOOSE i \in DOMAIN word :
  word[i] = mark /\ \A j \in 1..(i - 1) : word[j] # mark
Before(word, mark) == SubSeq(word, 1, FirstOf(word, mark) - 1)
After(word, mark)  == SubSeq(word, FirstOf(word, mark) + 1, Len(word))
(* The loop keeps the parts it has finished and the one it is reading.     *)
Cut(split, turn) ==
  IF turn.cuts THEN [parts |-> Append(split.parts, split.part), part |-> <<>>]
  ELSE [split EXCEPT !.part = Append(@, turn.piece)]
Splitting == INSTANCE VectorLoop WITH Step <- Cut
SplitAt(word, mark) ==
  LET split == Splitting!Run([parts |-> <<>>, part |-> <<>>],
                 [i \in DOMAIN word |-> [piece |-> word[i], cuts |-> word[i] = mark]])
  IN  Append(split.parts, split.part)

(* std::stoi: an optional sign, then the digits at the front of the text;  *)
(* what follows them is not looked at.  It throws without digits and for a *)
(* value an int cannot hold.  whole: position = size afterwards.           *)
Signs == {Mark("-"), Mark("+")}
NoNumber == [ok |-> FALSE, value |-> 0, whole |-> FALSE]
stoi(word) ==
  LET signed == word # <<>> /\ Head(word) \in Signs
      rest   == IF signed THEN Tail(word) ELSE word
      value  == IF signed /\ Head(word) = Mark("-") THEN -Head(rest).value
                ELSE Head(rest).value
  IN  IF rest = <<>> \/ ~IsDigits(Head(rest)) THEN NoNumber
      ELSE IF value > MaxInt \/ value < -MaxInt - 1 THEN NoNumber
      ELSE [ok |-> TRUE, value |-> value, whole |-> Len(rest) = 1]

-----------------------------------------------------------------------------
(* identifyCommand: the names of the commands, read in lower case.         *)
CommandTable == {
  <<"ip|:seek", "IP_SEEK">>, <<"host|:find", "HOST_FIND">>,
  <<"port|:scan", "PORT_SCAN">>, <<"svc|:detect", "SERVICE_DETECT">>,
  <<"topo|:map", "TOPOLOGY_MAP">>, <<"pkt|:capture", "PACKET_CAPTURE">>,
  <<"pkt|:inspect", "PACKET_INSPECT">>, <<"net|:monitor", "NETWORK_MONITOR">>,
  <<"net|:show", "NETWORK_SHOW">>, <<"net|:clear", "NETWORK_CLEAR">>,
  <<"sec|:detect", "SECURITY_DETECT">>, <<"ai|:analyze", "AI_ANALYZE">>,
  <<"session|:info", "SESSION_INFO">>, <<"mac|:resolve", "MAC_RESOLVE">>,
  <<"dns|:resolve", "DNS_RESOLVE">>, <<"os|:fingerprint", "OS_FINGERPRINT">>,
  <<"banner|:grab", "BANNER_GRAB">>, <<"subnet|:calc", "SUBNET_CALC">>,
  <<"vuln|:scan", "VULN_SCAN">>, <<"cred|:check", "CRED_CHECK">>,
  <<"ssl|:audit", "SSL_AUDIT">>, <<"firewall|:probe", "FIREWALL_PROBE">>,
  <<"system|:info", "SYSTEM_INFO">>, <<"help", "HELP">>, <<"?", "HELP">>,
  <<"fire", "EXIT">>, <<"exit", "EXIT">>, <<"quit", "EXIT">> }
CommandType == {entry[2] : entry \in CommandTable} \cup {"UNKNOWN"}

identifyCommand(word) ==
  LET found == {entry \in CommandTable :
                  Len(word) = 1 /\ Head(word).is = "name" /\ Head(word).text = entry[1]}
  IN  IF found = {} THEN "UNKNOWN" ELSE (CHOOSE entry \in found : TRUE)[2]

(* The first word names the command, the others are its arguments.         *)
parse(line) ==
  IF line = <<>> THEN [type |-> "UNKNOWN", arguments |-> <<>>]
  ELSE [type |-> identifyCommand(Head(line)), arguments |-> Tail(line)]

(* CommandUtilities::requiresArgument.                                     *)
requiresArgument(type) ==
  type \in {"HOST_FIND", "PORT_SCAN", "SERVICE_DETECT", "MAC_RESOLVE",
            "DNS_RESOLVE", "OS_FINGERPRINT", "BANNER_GRAB", "SUBNET_CALC",
            "SSL_AUDIT", "FIREWALL_PROBE"}
=============================================================================
