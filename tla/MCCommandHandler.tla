-------------------------- MODULE MCCommandHandler --------------------------
(* Two hosts of the local network, with two administrative ports on the    *)
(* first and a silent service, or a web port, on the second.  Answers      *)
(* without a mark, of a web server and of an SSH server, on any port.  The *)
(* local machine may be the first host or another, have two interfaces in  *)
(* the network, have no route, or have no address at all.                  *)
EXTENDS CommandHandler
MCIPs          == {"h1", "h2"}
MCPortNumbers  == {22, 80, 445, 5432}
MCServiceNames == DetectedNames
MCResponses    == {{"text"}, {"text", "SSH-"}, {"text", "HTTP/"}}
MCAddresses    == <<"h1", "h2">>
MCScannable    == [h1 |-> <<22, 445>>, h2 |-> <<5432>>]
Interface(name, address, up) == [name |-> name, address |-> address, up |-> up]
Route(local, gateway) == [localAddress |-> local, gatewayAddress |-> gateway]
MCLocals == {
  [interfaces |-> <<Interface("eth0", "h1", TRUE)>>, route |-> Route("h1", "h2")],
  [interfaces |-> <<Interface("eth0", "me", TRUE)>>, route |-> Route("me", "h1")],
  [interfaces |-> <<Interface("eth0", "h1", TRUE), Interface("wlan0", "h2", TRUE)>>,
   route |-> Route("h2", "gw")],
  [interfaces |-> <<Interface("eth0", "me", FALSE), Interface("wlan0", "h2", TRUE)>>,
   route |-> Route("", "")],
  [interfaces |-> <<>>, route |-> Route("", "")]}
=============================================================================
