----------------------------- MODULE MCTerminal -----------------------------
(* Sessions of unbounded length of lines of every shape the handlers tell  *)
(* apart, with operations of up to two waits: a request left over from one *)
(* of them can meet every later one.  Addresses have two numbers of two    *)
(* bits, so that every block of every size is tried.                       *)
EXTENDS Terminal

Host == <<Name("gateway")>>
IP   == <<Digits(10), Mark("."), Digits(1)>>
N(n) == <<Digits(n)>>
Junk(n) == <<Digits(n), Name("abc")>>
Signed(s, n) == <<Mark(s), Digits(n)>>
Dash(a, b) == a \o <<Mark("-")>> \o b
Slash(a, b) == a \o <<Mark("/")>> \o b
Cmd(c, args) == <<<<Name(c)>>>> \o args

(* Numbers as they may be typed, at and beyond each limit.                 *)
NumberWords(limit) == {N(n) : n \in {0, 1, limit, limit + 1}} \cup
  {Junk(1), Signed("+", 1), Signed("-", 1), <<Padded(1)>>, <<Name("abc")>>, N(999999)}
Ranges == {Dash(a, b) : a \in {N(0), N(1), N(80), <<>>}, b \in {N(1), N(80), N(65535), N(65536), Junk(80)}}
          \cup {N(80), Host, <<Mark("-")>>, Dash(Dash(N(1), <<>>), N(5))}

Commands == {entry[1] : entry \in CommandTable}
BareLines == {Cmd(c, <<>>) : c \in Commands} \cup {<<>>} \cup
             {<<<<Upper("ip|:seek")>>>>, <<<<Name("nmap")>>>>, <<<<Name("help"), Mark("!")>>>>}
TargetLines == {Cmd(c, <<IP>>) : c \in Commands} \cup
               {Cmd("host|:find", <<Slash(IP, N(2))>>)} \cup
               {Cmd(c, <<Host, Host>>) : c \in {"mac|:resolve", "sec|:detect", "vuln|:scan", "net|:show"}}
NumberLines ==
  {Cmd("port|:scan", <<IP, r>>) : r \in Ranges} \cup
  {Cmd("port|:scan", <<IP, N(1), N(80)>>), Cmd("port|:scan", <<IP, Dash(N(1), N(2)), N(3)>>)} \cup
  {Cmd(c, <<Host, p>>) : c \in {"banner|:grab", "ssl|:audit"}, p \in NumberWords(65535)} \cup
  {Cmd("ssl|:audit", <<Host, N(1), N(1)>>), Cmd("ssl|:audit", <<Host \o <<Mark(":")>> \o N(443)>>)} \cup
  {Cmd("firewall|:probe", <<IP, N(80)>>)} \cup
  {Cmd("net|:monitor", <<Host, i>>) : i \in NumberWords(3600)} \cup
  {Cmd("net|:monitor", <<Host, N(1), N(1)>>)} \cup
  {Cmd("pkt|:capture", <<Host, s>>) : s \in NumberWords(86400)} \cup
  {Cmd("pkt|:capture", <<Host, N(1), f>>) : f \in {<<Name("tcp")>>, <<Upper("udp")>>, Host, N(1)}} \cup
  {Cmd("pkt|:capture", <<Host, N(1), <<Name("all")>>, Host>>)} \cup
  {Cmd("pkt|:inspect", <<i>>) : i \in NumberWords(9) \cup {Host}} \cup
  {Cmd("pkt|:inspect", <<N(1), N(1)>>)}

(* Addresses and prefixes, well formed and not.                            *)
Octet   == {N(n) : n \in 0..4}
Dots(a, b) == a \o <<Mark(".")>> \o b
CIDRs ==
  {Slash(Dots(a, b), N(p)) : a \in Octet, b \in Octet, p \in 0..5} \cup
  {Slash(a, p) : a \in {Dots(N(1), <<Padded(1)>>), Dots(N(1), Signed("+", 1)), Dots(Dots(N(1), N(1)), <<>>),
                        Dots(<<>>, N(1)), N(1), <<>>, Host, Dots(Dots(N(1), N(1)), N(1))},
                 p \in {N(0), N(2)}} \cup
  {Slash(Dots(N(2), N(1)), p) : p \in {<<>>, <<Padded(3)>>, Signed("+", 2), Signed("-", 1), Junk(2), Slash(N(1), N(1))}}
  \cup {Dots(N(1), N(1))}
SubnetLines == {Cmd("subnet|:calc", <<w>>) : w \in CIDRs} \cup {Cmd("subnet|:calc", <<IP, IP>>)}

MCLines == BareLines \cup TargetLines \cup NumberLines \cup SubnetLines

(* What openssl.cnf may enable, down to what its library still has.        *)
Suite(v, c) == [version |-> v, cipher |-> c]
MCSuites == {Suite("TLSv1", "weak"), Suite("TLSv1.2", "modern"), Suite("TLSv1.2", "weak"),
             Suite("TLSv1.2", "anonymous"), Suite("TLSv1.3", "modern")}
=============================================================================
