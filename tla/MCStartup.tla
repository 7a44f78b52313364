------------------------------ MODULE MCStartup ------------------------------
(* Two DHCP servers for Startup, one of which announces no name server. *)
EXTENDS Startup

TwoServers == {"s1", "s2"}
Announced == [s1 |-> {"gateway", "dns"}, s2 |-> {"gateway"}]
=============================================================================
