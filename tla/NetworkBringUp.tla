--------------------------- MODULE NetworkBringUp ----------------------------
(***************************************************************************)
(* W5500_Init of Ethernet/wizchip_port.c and the DHCP client it turns      *)
(* (Ethernet/DHCP/dhcp.c): identify the chip, wait for the link, call      *)
(* DHCP_run a bounded number of times, and configure the network with the  *)
(* lease or with the static addresses.                                     *)
(*                                                                         *)
(* dhcp_tick_1s is advanced by DHCP_time_handler only, which nothing       *)
(* calls: no time-out of the client expires, nothing is sent twice and no  *)
(* lease is renewed, so those branches have no action here.                *)
(*                                                                         *)
(* DHCP_XID is computed from the MAC address, the same in every boot, and  *)
(* the answers' xid is not compared: the network may deliver what a server *)
(* answered before a reset.                                                *)
(***************************************************************************)
EXTENDS Naturals, Sequences, FiniteSets

CONSTANTS
    Servers,      \* DHCP servers on the network
    Provides,     \* which of "gateway" and "dns" each one's answers have
    LinkRetries,  \* W5500_LINK_RETRIES
    DhcpRetries,  \* W5500_DHCP_RETRIES
    MaxReceived   \* datagrams the receive buffer of the socket has room for

ASSUME BringUpAssumption ==
    /\ "none" \notin Servers
    /\ Provides \in [Servers -> SUBSET {"gateway", "dns"}]
    /\ LinkRetries \in Nat \ {0}
    /\ DhcpRetries \in Nat \ {0}
    /\ MaxReceived \in Nat \ {0}

VARIABLES
    bringUp,        \* what W5500_Init does next, or its result
    attempts,       \* attempts of WaitForLink
    retries,        \* calls of DHCP_run that ConfigureNetwork has left
    dhcpState,      \* dhcp_state
    serverAddress,  \* DHCP_SIP
    allocated,      \* DHCP_allocated_ip, _gw and _dns
    assigned,       \* w5500AddressAssigned
    network,        \* w5500Network
    received,       \* the receive buffer of the DHCP socket
    wire,           \* answers on their way
    boot,           \* history: the number of this boot
    confirmed,      \* history: the ACK that was accepted
    readOld         \* history: an answer to an earlier boot was accepted

bringUpVars == <<bringUp, attempts, retries, dhcpState, serverAddress, allocated,
                 assigned, network, received, wire, boot, confirmed, readOld>>

(* An address is named by the server that leases it and the boot it was      *)
(* offered to; a gateway or a name server by the one that announces it.      *)
Lease(server) == [server |-> server, boot |-> boot]
NoLease == [server |-> "none", boot |-> 0]

Zero == [address |-> NoLease, gateway |-> "none", dns |-> "none"]
Static == [address |-> [server |-> "static", boot |-> 0],
           gateway |-> "static", dns |-> "static"]

Message(type, server, address) ==
    [type |-> type, server |-> server, address |-> address, boot |-> boot]

NoMessage == [type |-> "none", server |-> "none", address |-> NoLease, boot |-> 0]

----------------------------------------------------------------------------
(* The chip and its link.                                                  *)

InitChip ==
    /\ bringUp = "chip"
    /\ bringUp' \in {"link", "chipError"}
    /\ attempts' = 0
    /\ UNCHANGED <<retries, dhcpState, serverAddress, allocated, assigned, network,
                   received, wire, boot, confirmed, readOld>>

(* With the link up, ConfigureNetwork starts the client. *)
LinkIsUp ==
    /\ bringUp = "link"
    /\ bringUp' = "dhcp"
    /\ assigned' = FALSE
    /\ dhcpState' = "INIT"
    /\ retries' = DhcpRetries
    /\ attempts' = 0
    /\ UNCHANGED <<serverAddress, allocated, network, received, wire, boot,
                   confirmed, readOld>>

LinkIsDown ==
    /\ bringUp = "link"
    /\ attempts' = attempts + 1
    /\ bringUp' = IF attempts' = LinkRetries THEN "linkError" ELSE "link"
    /\ UNCHANGED <<retries, dhcpState, serverAddress, allocated, assigned, network,
                   received, wire, boot, confirmed, readOld>>

----------------------------------------------------------------------------
(* DHCP_run, every 500 ms.                                                 *)

(* The socket is open from the first call on. *)
Deliver ==
    /\ bringUp = "dhcp"
    /\ dhcpState # "INIT"
    /\ Len(received) < MaxReceived
    /\ \E m \in wire :
          /\ received' = Append(received, m)
          /\ wire' = wire \ {m}
    /\ UNCHANGED <<bringUp, attempts, retries, dhcpState, serverAddress, allocated,
                   assigned, network, boot, confirmed, readOld>>

(* Mutation: any server's answer is accepted. *)
Accepts_Any(m) == TRUE

(* Once a server has named itself, the others are ignored. *)
Accepts(m) == serverAddress \in {"none", m.server}

(* What parseDHCPMSG stores of an answer it does not ignore. *)
Stored(m) ==
    LET has(option) == m.type \in {"OFFER", "ACK"} /\ option \in Provides[m.server]
    IN  [allocated EXCEPT !.gateway = IF has("gateway") THEN m.server ELSE @,
                          !.dns = IF has("dns") THEN m.server ELSE @]

(* Mutation: the calls are not bounded; the counter starts over. *)
Call_Unbounded(state) ==
    /\ bringUp = "dhcp"
    /\ ~assigned
    /\ dhcpState = state
    /\ retries' = IF retries = 1 THEN DhcpRetries ELSE retries - 1
    /\ UNCHANGED <<attempts, assigned, network, boot>>

Call(state) ==
    /\ bringUp = "dhcp"
    /\ ~assigned
    /\ retries > 0
    /\ dhcpState = state
    /\ retries' = retries - 1
    /\ UNCHANGED <<attempts, assigned, network, boot>>

NextReceived == IF received = <<>> THEN {} ELSE {Head(received)}

(* The answer m is read and accepted. *)
Reads(m) ==
    /\ received' = Tail(received)
    /\ Accepts(m)
    /\ serverAddress' = m.server
    /\ readOld' = (readOld \/ m.boot # boot)

(* The first call opens the socket, so that it reads at most what arrives    *)
(* in that moment, drops its type, and broadcasts a DISCOVER.                *)
Discover ==
    /\ Call("INIT")
    /\ \E early \in wire \union {NoMessage}, offering \in SUBSET Servers :
          /\ allocated' = [Stored(early) EXCEPT !.address = NoLease]
          /\ wire' = (wire \ {early})
                \union {Message("OFFER", s, Lease(s)) : s \in offering}
          /\ readOld' = (early \in wire)
    /\ serverAddress' = "none"
    /\ dhcpState' = "DISCOVER"
    /\ UNCHANGED <<bringUp, received, confirmed>>

(* The server the REQUEST names may confirm it, refuse it or not get it. *)
TakeOffer ==
    /\ Call("DISCOVER")
    /\ \E m \in NextReceived :
          /\ Reads(m)
          /\ m.type = "OFFER"
          /\ allocated' = [Stored(m) EXCEPT !.address = m.address]
          /\ \E answers \in {{}, {"ACK"}, {"NAK"}} :
                wire' = wire \union
                    {Message(type, m.server, m.address) : type \in answers}
    /\ dhcpState' = "REQUEST"
    /\ UNCHANGED <<bringUp, confirmed>>

(* An ACK, and nobody answers at the address: check_DHCP_leasedIP. *)
TakeAck ==
    /\ bringUp = "dhcp" /\ ~assigned /\ retries > 0 /\ dhcpState = "REQUEST"
    /\ \E m \in NextReceived :
          /\ Reads(m)
          /\ m.type = "ACK"
          /\ allocated' = Stored(m)
          /\ confirmed' = m
    /\ retries' = retries - 1
    /\ assigned' = TRUE
    /\ dhcpState' = "LEASED"
    /\ UNCHANGED <<bringUp, attempts, network, wire, boot>>

(* Somebody does.  A DECLINE is sent, and the client waits for two ticks. *)
FindConflict ==
    /\ Call("REQUEST")
    /\ \E m \in NextReceived :
          /\ Reads(m)
          /\ m.type = "ACK"
          /\ allocated' = Stored(m)
    /\ bringUp' = "conflict"
    /\ UNCHANGED <<dhcpState, wire, confirmed>>

(* The client goes back to wait for an offer, without asking for one. *)
TakeNak ==
    /\ Call("REQUEST")
    /\ \E m \in NextReceived :
          /\ Reads(m)
          /\ m.type = "NAK"
          /\ allocated' = Stored(m)
    /\ dhcpState' = "DISCOVER"
    /\ UNCHANGED <<bringUp, wire, confirmed>>

(* A call that reads nothing, an answer it ignores, or one that is of no use *)
(* in this state but is stored all the same.                                 *)
PassOver ==
    /\ \E state \in {"DISCOVER", "REQUEST"} :
          /\ Call(state)
          /\ \/ /\ received = <<>>
                /\ UNCHANGED <<serverAddress, allocated, received, readOld>>
             \/ /\ \E m \in NextReceived : ~Accepts(m)
                /\ received' = Tail(received)
                /\ UNCHANGED <<serverAddress, allocated, readOld>>
             \/ \E m \in NextReceived :
                   /\ Reads(m)
                   /\ m.type \notin IF state = "DISCOVER"
                                       THEN {"OFFER"} ELSE {"ACK", "NAK"}
                   /\ allocated' = Stored(m)
    /\ UNCHANGED <<bringUp, dhcpState, wire, confirmed>>

(* The lease, or the addresses the program was built with. *)
ConfigureNetwork ==
    /\ bringUp = "dhcp"
    /\ assigned \/ retries = 0
    /\ network' = IF assigned THEN allocated ELSE network
    /\ bringUp' = "up"
    /\ retries' = DhcpRetries
    /\ UNCHANGED <<attempts, dhcpState, serverAddress, allocated, assigned,
                   received, wire, boot, confirmed, readOld>>

W5500_Init ==
    \/ InitChip \/ LinkIsUp \/ LinkIsDown
    \/ Discover \/ TakeOffer \/ TakeAck \/ FindConflict \/ TakeNak \/ PassOver
    \/ ConfigureNetwork

(* The state a reset leaves; the answers on their way stay there. *)
BringUpInit ==
    /\ bringUp = "off"
    /\ attempts = 0
    /\ retries = DhcpRetries
    /\ dhcpState = "INIT"
    /\ serverAddress = "none"
    /\ allocated = Zero
    /\ assigned = FALSE
    /\ network = Static
    /\ received = <<>>
    /\ wire = {}
    /\ boot = 1
    /\ confirmed = NoMessage
    /\ readOld = FALSE

BringUpReset ==
    /\ bringUp' = "off"
    /\ attempts' = 0
    /\ retries' = DhcpRetries
    /\ dhcpState' = "INIT"
    /\ serverAddress' = "none"
    /\ allocated' = Zero
    /\ assigned' = FALSE
    /\ network' = Static
    /\ received' = <<>>
    /\ boot' = boot + 1
    /\ confirmed' = NoMessage
    /\ readOld' = FALSE
    /\ UNCHANGED wire
=============================================================================
