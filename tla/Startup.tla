------------------------------- MODULE Startup -------------------------------
(***************************************************************************)
(* main() of Core/Src/main.c, from the reset to the scheduler: the flash   *)
(* (module W25qFlash), then the network (module NetworkBringUp), then the  *)
(* tasks.  A reset may come at any step, and while the tasks run.          *)
(*                                                                         *)
(* The devices whose initialisation decides nothing here (LED, buzzer,     *)
(* one-wire pin, USART, I2C and the display) are left out.                 *)
(***************************************************************************)
EXTENDS W25qFlash, NetworkBringUp

CONSTANT MaxBoots  \* bound on the times the device is started

ASSUME MaxBootsAssumption == MaxBoots \in Nat \ {0}

VARIABLES
    main,                 \* what main() does next
    peripheralReadiness,  \* its error bits that matter here
    tasks                 \* the tasks that were created

vars == <<main, peripheralReadiness, tasks, flashVars, bringUpVars>>

NetworkTasks == {"TcpCommand", "HttpMonitor"}
OtherTasks == {"HeartBeat", "OneWireBusConfiguration", "Temperature", "Health"}

(* SPI_Init and what follows it, for both buses.  Without SPI2 the flash is  *)
(* not tried.                                                                *)
InitBuses ==
    /\ main = "buses"
    /\ peripheralReadiness' \in SUBSET {"SPI1", "SPI2"}
    /\ main' = "flash"
    /\ flash' = IF "SPI2" \in peripheralReadiness' THEN "off" ELSE "identify"
    /\ UNCHANGED <<tasks, polls, chipVars, flashFault, foundBusy, bringUpVars>>

RunFlash ==
    /\ main = "flash"
    /\ W25Qxx_Init
    /\ UNCHANGED <<main, peripheralReadiness, tasks, bringUpVars>>

(* The flash is judged; without SPI1 the network is not tried. *)
EndFlash ==
    /\ main = "flash"
    /\ flash \in {"off", "ready", "failed"}
    /\ peripheralReadiness' = peripheralReadiness \union
           (IF flash = "failed" THEN {"W25Q64"} ELSE {})
    /\ main' = "network"
    /\ bringUp' = IF "SPI1" \in peripheralReadiness THEN "off" ELSE "chip"
    /\ polls' = PollLimit
    /\ UNCHANGED <<tasks, flash, chipVars, flashFault, foundBusy, attempts, retries,
                   dhcpState, serverAddress, allocated, assigned, network, received,
                   wire, boot, confirmed, readOld>>

RunNetwork ==
    /\ main = "network"
    /\ W5500_Init
    /\ UNCHANGED <<main, peripheralReadiness, tasks, flashVars>>

(* Mutation: only the negative results are taken for errors. *)
NetworkFailed_Negative == bringUp = "chipError"

(* W5500_Init() != 0: the chip's errors are negative, the link's is 1. *)
NetworkFailed == bringUp \in {"chipError", "linkError"}

EndNetwork ==
    /\ main = "network"
    /\ bringUp \in {"off", "up", "chipError", "linkError"}
    /\ peripheralReadiness' = peripheralReadiness \union
           (IF NetworkFailed THEN {"SPI1"} ELSE {})
    /\ main' = "tasks"
    /\ UNCHANGED <<tasks, flashVars, bringUpVars>>

StartTasks ==
    /\ main = "tasks"
    /\ tasks' = OtherTasks \union
           (IF "SPI1" \in peripheralReadiness THEN {} ELSE NetworkTasks)
    /\ main' = "scheduler"
    /\ UNCHANGED <<peripheralReadiness, flashVars, bringUpVars>>

(* By its button at any time; by the watchdog once the tasks run, for the    *)
(* health task starts it.  The flash and the network keep their power.       *)
Reset ==
    /\ boot < MaxBoots
    /\ main' = "buses"
    /\ peripheralReadiness' = {}
    /\ tasks' = {}
    /\ FlashReset
    /\ BringUpReset

FlashChip ==
    /\ ChipEnds
    /\ UNCHANGED <<main, peripheralReadiness, tasks, bringUpVars>>

Answers ==
    /\ Deliver
    /\ UNCHANGED <<main, peripheralReadiness, tasks, flashVars>>

Init ==
    /\ main = "buses"
    /\ peripheralReadiness = {}
    /\ tasks = {}
    /\ FlashInit
    /\ BringUpInit

MainStep ==
    InitBuses \/ RunFlash \/ EndFlash \/ RunNetwork \/ EndNetwork \/ StartTasks

(* The tasks run, or the loop of check_DHCP_leasedIP turns for ever. *)
Turning == (main = "scheduler" \/ bringUp = "conflict") /\ UNCHANGED vars

Next == MainStep \/ FlashChip \/ Answers \/ Reset \/ Turning

Spec == Init /\ [][Next]_vars

(* main() runs alone and the chip ends what it began; answers may be lost.   *)
FairSpec == Spec /\ WF_vars(MainStep) /\ WF_vars(FlashChip)

----------------------------------------------------------------------------
Addresses == [server : Servers, boot : 1..MaxBoots]
Messages == [type : {"OFFER", "ACK", "NAK"}, server : Servers,
             address : Addresses, boot : 1..MaxBoots]

TypeOK ==
    /\ FlashTypeOK
    /\ main \in {"buses", "flash", "network", "tasks", "scheduler"}
    /\ peripheralReadiness \subseteq {"SPI1", "SPI2", "W25Q64"}
    /\ tasks \subseteq NetworkTasks \union OtherTasks
    /\ bringUp \in {"off", "chip", "link", "dhcp", "conflict", "up", "chipError",
                    "linkError"}
    /\ attempts \in 0..LinkRetries
    /\ retries \in 0..DhcpRetries
    /\ dhcpState \in {"INIT", "DISCOVER", "REQUEST", "LEASED"}
    /\ serverAddress \in Servers \union {"none"}
    /\ allocated \in [address : Addresses \union {NoLease},
                      gateway : Servers \union {"none"},
                      dns : Servers \union {"none"}]
    /\ assigned \in BOOLEAN
    /\ network \in [address : Addresses \union {Static.address},
                    gateway : Servers \union {"none", "static"},
                    dns : Servers \union {"none", "static"}]
    /\ received \in Seq(Messages)
    /\ Len(received) <= MaxReceived
    /\ wire \subseteq Messages
    /\ boot \in 1..MaxBoots
    /\ confirmed \in Messages \union {NoMessage}
    /\ readOld \in BOOLEAN

(* A leased configuration is one server's: its address, and each of the      *)
(* gateway and the name server that it announces, whatever other servers and *)
(* earlier boots have left in the client.  An option that it does not        *)
(* announce is nobody's, 0.0.0.0; only after an answer to an earlier boot    *)
(* was read may it be another server's.  Without a lease all three are the   *)
(* built-in ones (wizchip_port.c:200-233, dhcp.c:694-776).                   *)
ConfigurationIsWhole ==
    bringUp = "up" =>
        IF assigned
          THEN LET server == network.address.server IN
               /\ server \in Servers
               /\ "gateway" \in Provides[server] => network.gateway = server
               /\ "dns" \in Provides[server] => network.dns = server
               /\ ~readOld => {network.gateway, network.dns} \subseteq {server, "none"}
          ELSE network = Static

(* The address the device uses is one its server has confirmed.  Only after  *)
(* an answer to an earlier boot was read may it be another one of that       *)
(* server: the address is the OFFER's, and the ACK's own is not looked at    *)
(* (dhcp.c:818-846).                                                         *)
LeaseIsConfirmed ==
    bringUp = "up" /\ assigned =>
        /\ confirmed.type = "ACK"
        /\ confirmed.server = network.address.server
        /\ ~readOld => confirmed.address = network.address

(* The tasks that use the network run exactly on a configured one            *)
(* (main.c:79-97).                                                           *)
NetworkTasksHaveTheNetwork ==
    main = "scheduler" => (NetworkTasks \subseteq tasks <=> bringUp = "up")

(* Start-up reaches the scheduler, whatever fails, unless an address          *)
(* conflict leaves it in check_DHCP_leasedIP, waiting for a tick that does    *)
(* not come, with the watchdog not started yet (dhcp.c:1021-1022).            *)
StartupEndsUnlessAddressConflict ==
    <>[](main = "scheduler" \/ bringUp = "conflict")
=============================================================================
