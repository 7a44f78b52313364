--------------------------- MODULE StartupProofs ----------------------------
(***************************************************************************)
(* The safety properties of Startup, proved for every set of DHCP servers, *)
(* whatever each of them announces, and for any number of polls, link      *)
(* attempts, calls of DHCP_run and resets.                                 *)
(***************************************************************************)
EXTENDS Startup, SequenceTheorems, TLAPS

----------------------------------------------------------------------------
(* The inductive invariant, one named part per concern.                    *)

(* How far the self-test has come in the page, and what the chip is at.  A   *)
(* page that is not whole was noticed.                                       *)
Written == page = "pattern" \/ (page = "part" /\ flashFault)

EraseInv ==
    /\ flash = "eraseEnable" => ~busy
    /\ flash = "erase" => ~busy /\ writeEnabled
    /\ flash = "eraseWait" => ~writeEnabled /\ page = "erased" /\ polls >= 1

ProgramInv ==
    /\ flash = "programEnable" => ~busy /\ page = "erased"
    /\ flash = "program" => ~busy /\ writeEnabled /\ page = "erased"

WrittenInv ==
    /\ flash = "programWait" => ~writeEnabled /\ Written /\ polls >= 1
    /\ flash = "verify" => ~busy /\ ~writeEnabled /\ Written

ResultInv == ReadyFlashHoldsThePattern /\ WorkingFlashIsReadyUnlessFoundBusy

FlashInv == EraseInv /\ ProgramInv /\ WrittenInv /\ ResultInv

(* Where main() is, what the bring-up has come to, and the error bits. *)
MainInv ==
    /\ main \in {"buses", "flash"} => bringUp = "off"
    /\ main = "network" => ("SPI1" \in peripheralReadiness <=> bringUp = "off")
    /\ main \in {"tasks", "scheduler"} =>
           /\ bringUp \in {"off", "up", "chipError", "linkError"}
           /\ "SPI1" \in peripheralReadiness <=> bringUp # "up"
    /\ main = "scheduler" =>
           tasks = OtherTasks \union (IF "SPI1" \in peripheralReadiness
                                          THEN {} ELSE NetworkTasks)

(* Answers that may still be read. *)
Pending == wire \union {received[i] : i \in DOMAIN received}

(* An answer is of the server it names and of no later boot than this one;   *)
(* an ACK of this boot confirms an address of this boot, unless the client   *)
(* has asked for one of an earlier boot.                                     *)
Genuine(m) ==
    /\ m.address.server = m.server
    /\ m.boot <= boot
    /\ m.type = "OFFER" => m.address.boot = m.boot
    /\ m.type = "ACK" /\ m.boot = boot /\ ~readOld => m.address.boot = boot

AnswerInv == \A m \in Pending : Genuine(m)

(* What the client holds is one server's from the OFFER on. *)
HoldsOffer ==
    /\ serverAddress \in Servers
    /\ allocated.address.server = serverAddress
    /\ "gateway" \in Provides[serverAddress] => allocated.gateway = serverAddress
    /\ "dns" \in Provides[serverAddress] => allocated.dns = serverAddress
    /\ ~readOld => allocated.address.boot = boot

HoldsAck ==
    /\ confirmed.type = "ACK"
    /\ confirmed.server = serverAddress
    /\ ~readOld => confirmed.address = allocated.address

LeaseInv ==
    /\ bringUp \in {"off", "chip", "link"} => dhcpState = "INIT"
    /\ dhcpState = "INIT" => ~readOld /\ ~assigned
    /\ bringUp = "link" => attempts < LinkRetries

OfferInv == dhcpState \in {"REQUEST", "LEASED"} => HoldsOffer

AckInv == assigned => dhcpState = "LEASED" /\ HoldsAck

NetworkInv == network = IF bringUp = "up" /\ assigned THEN allocated ELSE Static

DhcpInv == AnswerInv /\ LeaseInv /\ OfferInv /\ AckInv /\ NetworkInv

IInv == TypeOK /\ FlashInv /\ MainInv /\ DhcpInv

(* Beside it: the options are the accepted server's or nobody's, until an     *)
(* answer to an earlier boot is read.                                        *)
OptionInv ==
    /\ dhcpState = "INIT" => allocated.gateway = "none" /\ allocated.dns = "none"
    /\ ~readOld => {allocated.gateway, allocated.dns} \subseteq {serverAddress, "none"}

----------------------------------------------------------------------------
(* The flash.                                                              *)

(* The two halves of FlashTypeOK. *)
FlashRange ==
    /\ flash \in FlashSteps
    /\ polls \in 0..PollLimit
    /\ page \in {"old", "erased", "part", "pattern"}

FlashFlags ==
    /\ busy \in BOOLEAN
    /\ writeEnabled \in BOOLEAN
    /\ flashFault \in BOOLEAN
    /\ foundBusy \in BOOLEAN

LEMMA FlashStep ==
    ASSUME FlashTypeOK, FlashInv, W25Qxx_Init
    PROVE  FlashTypeOK' /\ FlashInv'
  <1>0. FlashRange /\ FlashFlags /\ EraseInv /\ ProgramInv /\ WrittenInv
      BY DEF FlashTypeOK, FlashRange, FlashFlags, FlashInv
  <1>10. SUFFICES FlashRange' /\ FlashFlags' /\ EraseInv' /\ ProgramInv' /\ WrittenInv'
                  /\ ResultInv'
      BY DEF FlashTypeOK, FlashRange, FlashFlags, FlashInv
  <1> USE <1>0, PollLimitAssumption
      DEF FlashRange, FlashFlags, FlashSteps, EraseInv, ProgramInv, WrittenInv,
          ResultInv, Written, ReadyFlashHoldsThePattern,
          WorkingFlashIsReadyUnlessFoundBusy, chipVars
  <1>1. CASE Identify
      <2>1. FlashRange'
          BY <1>1 DEF Identify, Transaction
      <2>2. FlashFlags'
          BY <1>1 DEF Identify, Transaction
      <2>3. EraseInv'
          BY <1>1 DEF Identify, Transaction
      <2>4. ProgramInv'
          BY <1>1 DEF Identify, Transaction
      <2>5. WrittenInv'
          BY <1>1 DEF Identify, Transaction
      <2>6. ResultInv'
          BY <1>1 DEF Identify, Transaction
      <2> QED
          BY <2>1, <2>2, <2>3, <2>4, <2>5, <2>6
  <1>2. CASE WriteEnable("eraseEnable", "erase")
      <2>1. FlashRange'
          BY <1>2 DEF WriteEnable, Transaction, NotSent
      <2>2. FlashFlags'
          BY <1>2 DEF WriteEnable, Transaction, NotSent
      <2>3. EraseInv'
        <3>1. (flash = "eraseEnable" => ~busy)'
            BY <1>2 DEF WriteEnable, Transaction, NotSent
        <3>2. (flash = "erase" => ~busy /\ writeEnabled)'
            BY <1>2 DEF WriteEnable, Transaction, NotSent
        <3>3. (flash = "eraseWait" => ~writeEnabled /\ page = "erased" /\ polls >= 1)'
            BY <1>2 DEF WriteEnable, Transaction, NotSent
        <3> QED
            BY <3>1, <3>2, <3>3
      <2>4. ProgramInv'
          BY <1>2 DEF WriteEnable, Transaction, NotSent
      <2>5. WrittenInv'
          BY <1>2 DEF WriteEnable, Transaction, NotSent
      <2>6. ResultInv'
          BY <1>2 DEF WriteEnable, Transaction, NotSent
      <2> QED
          BY <2>1, <2>2, <2>3, <2>4, <2>5, <2>6
  <1>3. CASE EraseSector
      <2>1. FlashRange'
        <3>1. flash' \in FlashSteps
            BY <1>3 DEF EraseSector, Transaction, NotSent, Starts
        <3>2. polls' \in 0..PollLimit
            BY <1>3 DEF EraseSector, Transaction, NotSent, Starts
        <3>3. page' \in {"old", "erased", "part", "pattern"}
            BY <1>3 DEF EraseSector, Transaction, NotSent, Starts
        <3> QED
            BY <3>1, <3>2, <3>3
      <2>2. FlashFlags'
          BY <1>3 DEF EraseSector, Transaction, NotSent, Starts
      <2>3. EraseInv'
        <3>1. (flash = "eraseEnable" => ~busy)'
            BY <1>3 DEF EraseSector, Transaction, NotSent, Starts
        <3>2. (flash = "erase" => ~busy /\ writeEnabled)'
            BY <1>3 DEF EraseSector, Transaction, NotSent, Starts
        <3>3. (flash = "eraseWait" => ~writeEnabled /\ page = "erased" /\ polls >= 1)'
            BY <1>3 DEF EraseSector, Transaction, NotSent, Starts
        <3> QED
            BY <3>1, <3>2, <3>3
      <2>4. ProgramInv'
          BY <1>3 DEF EraseSector, Transaction, NotSent, Starts
      <2>5. WrittenInv'
          BY <1>3 DEF EraseSector, Transaction, NotSent, Starts
      <2>6. ResultInv'
          BY <1>3 DEF EraseSector, Transaction, NotSent, Starts
      <2> QED
          BY <2>1, <2>2, <2>3, <2>4, <2>5, <2>6
  <1>4. CASE WaitWhileBusy("eraseWait", "programEnable")
      <2>1. FlashRange'
          BY <1>4 DEF WaitWhileBusy
      <2>2. FlashFlags'
          BY <1>4 DEF WaitWhileBusy
      <2>3. EraseInv'
          BY <1>4 DEF WaitWhileBusy
      <2>4. ProgramInv'
          BY <1>4 DEF WaitWhileBusy
      <2>5. WrittenInv'
          BY <1>4 DEF WaitWhileBusy
      <2>6. ResultInv'
          BY <1>4 DEF WaitWhileBusy
      <2> QED
          BY <2>1, <2>2, <2>3, <2>4, <2>5, <2>6
  <1>5. CASE WriteEnable("programEnable", "program")
      <2>1. FlashRange'
          BY <1>5 DEF WriteEnable, Transaction, NotSent
      <2>2. FlashFlags'
          BY <1>5 DEF WriteEnable, Transaction, NotSent
      <2>3. EraseInv'
          BY <1>5 DEF WriteEnable, Transaction, NotSent
      <2>4. ProgramInv'
        <3>1. (flash = "programEnable" => ~busy /\ page = "erased")'
            BY <1>5 DEF WriteEnable, Transaction, NotSent
        <3>2. (flash = "program" => ~busy /\ writeEnabled /\ page = "erased")'
            BY <1>5 DEF WriteEnable, Transaction, NotSent
        <3> QED
            BY <3>1, <3>2
      <2>5. WrittenInv'
          BY <1>5 DEF WriteEnable, Transaction, NotSent
      <2>6. ResultInv'
          BY <1>5 DEF WriteEnable, Transaction, NotSent
      <2> QED
          BY <2>1, <2>2, <2>3, <2>4, <2>5, <2>6
  <1>6. CASE ProgramPage
      <2>1. FlashRange'
          BY <1>6 DEF ProgramPage, Transaction, Starts, Programmed
      <2>2. FlashFlags'
          BY <1>6 DEF ProgramPage, Transaction, Starts, Programmed
      <2>3. EraseInv'
          BY <1>6 DEF ProgramPage, Transaction, Starts, Programmed
      <2>4. ProgramInv'
          BY <1>6 DEF ProgramPage, Transaction, Starts, Programmed
      <2>5. WrittenInv'
          BY <1>6 DEF ProgramPage, Transaction, Starts, Programmed
      <2>6. ResultInv'
          BY <1>6 DEF ProgramPage, Transaction, Starts, Programmed
      <2> QED
          BY <2>1, <2>2, <2>3, <2>4, <2>5, <2>6
  <1>7. CASE WaitWhileBusy("programWait", "verify")
      <2>1. FlashRange'
          BY <1>7 DEF WaitWhileBusy
      <2>2. FlashFlags'
          BY <1>7 DEF WaitWhileBusy
      <2>3. EraseInv'
          BY <1>7 DEF WaitWhileBusy
      <2>4. ProgramInv'
          BY <1>7 DEF WaitWhileBusy
      <2>5. WrittenInv'
          BY <1>7 DEF WaitWhileBusy
      <2>6. ResultInv'
          BY <1>7 DEF WaitWhileBusy
      <2> QED
          BY <2>1, <2>2, <2>3, <2>4, <2>5, <2>6
  <1>8. CASE VerifyPage
      <2>1. FlashRange'
          BY <1>8 DEF VerifyPage, Transaction
      <2>2. FlashFlags'
          BY <1>8 DEF VerifyPage, Transaction
      <2>3. EraseInv'
          BY <1>8 DEF VerifyPage, Transaction
      <2>4. ProgramInv'
          BY <1>8 DEF VerifyPage, Transaction
      <2>5. WrittenInv'
          BY <1>8 DEF VerifyPage, Transaction
      <2>6. ResultInv'
          BY <1>8 DEF VerifyPage, Transaction
      <2> QED
          BY <2>1, <2>2, <2>3, <2>4, <2>5, <2>6
  <1> QED
      BY <1>1, <1>2, <1>3, <1>4, <1>5, <1>6, <1>7, <1>8 DEF W25Qxx_Init

----------------------------------------------------------------------------
(* The bring-up.                                                           *)

Configurations == [address : Addresses \union {NoLease},
                   gateway : Servers \union {"none"},
                   dns : Servers \union {"none"}]

(* The parts of TypeOK. *)
ControlType ==
    /\ bringUp \in {"off", "chip", "link", "dhcp", "conflict", "up", "chipError",
                    "linkError"}
    /\ attempts \in 0..LinkRetries
    /\ retries \in 0..DhcpRetries
    /\ dhcpState \in {"INIT", "DISCOVER", "REQUEST", "LEASED"}
    /\ serverAddress \in Servers \union {"none"}
    /\ assigned \in BOOLEAN
    /\ boot \in 1..MaxBoots
    /\ readOld \in BOOLEAN

ConfigType ==
    /\ allocated \in Configurations
    /\ network \in [address : Addresses \union {Static.address},
                    gateway : Servers \union {"none", "static"},
                    dns : Servers \union {"none", "static"}]

AnswerType ==
    /\ received \in Seq(Messages)
    /\ Len(received) <= MaxReceived
    /\ wire \subseteq Messages
    /\ confirmed \in Messages \union {NoMessage}

MainType ==
    /\ main \in {"buses", "flash", "network", "tasks", "scheduler"}
    /\ peripheralReadiness \subseteq {"SPI1", "SPI2", "W25Q64"}
    /\ tasks \subseteq NetworkTasks \union OtherTasks

BringUpType == ControlType /\ ConfigType /\ AnswerType

LEMMA TypeParts == TypeOK <=> FlashTypeOK /\ MainType /\ BringUpType
  BY DEF TypeOK, MainType, BringUpType, ControlType, ConfigType, AnswerType,
         Configurations

(* parseDHCPMSG leaves the address alone, and replaces the gateway and the   *)
(* name server by what the answer has of them.                               *)
LEMMA StoredFields ==
    ASSUME allocated \in Configurations, NEW m \in Messages \union {NoMessage}
    PROVE  /\ Stored(m) \in Configurations
           /\ Stored(m).address = allocated.address
           /\ Stored(m).gateway =
                  IF m.type \in {"OFFER", "ACK"} /\ "gateway" \in Provides[m.server]
                      THEN m.server ELSE allocated.gateway
           /\ Stored(m).dns =
                  IF m.type \in {"OFFER", "ACK"} /\ "dns" \in Provides[m.server]
                      THEN m.server ELSE allocated.dns
  <1> DEFINE has(option) == m.type \in {"OFFER", "ACK"} /\ option \in Provides[m.server]
             gateway == IF has("gateway") THEN m.server ELSE allocated.gateway
             dns == IF has("dns") THEN m.server ELSE allocated.dns
  <1>1. has("gateway") => m.server \in Servers
      BY DEF Messages, NoMessage
  <1>2. has("dns") => m.server \in Servers
      BY DEF Messages, NoMessage
  <1>3. gateway \in Servers \union {"none"} /\ dns \in Servers \union {"none"}
      BY <1>1, <1>2 DEF Configurations
  <1>4. Stored(m) = [allocated EXCEPT !.gateway = gateway, !.dns = dns]
      BY DEF Stored, Configurations
  <1> HIDE DEF gateway, dns
  <1>5. /\ Stored(m) \in Configurations
        /\ Stored(m).address = allocated.address
        /\ Stored(m).gateway = gateway
        /\ Stored(m).dns = dns
      BY <1>3, <1>4 DEF Configurations
  <1> QED
      BY <1>5 DEF gateway, dns

(* With another address. *)
LEMMA StoredAddress ==
    ASSUME allocated \in Configurations, NEW m \in Messages \union {NoMessage},
           NEW a \in Addresses \union {NoLease}
    PROVE  /\ [Stored(m) EXCEPT !.address = a] \in Configurations
           /\ [Stored(m) EXCEPT !.address = a].address = a
           /\ [Stored(m) EXCEPT !.address = a].gateway = Stored(m).gateway
           /\ [Stored(m) EXCEPT !.address = a].dns = Stored(m).dns
  <1>1. Stored(m) \in Configurations
      BY StoredFields
  <1> QED
      BY <1>1 DEF Configurations

(* Reading takes the first answer out of the buffer. *)
LEMMA FirstAnswer ==
    ASSUME received \in Seq(Messages), NEW m \in NextReceived
    PROVE  /\ m \in Messages
           /\ m \in Pending
           /\ Tail(received) \in Seq(Messages)
           /\ Len(Tail(received)) <= Len(received)
           /\ {Tail(received)[i] : i \in DOMAIN Tail(received)}
                  \subseteq {received[i] : i \in DOMAIN received}
  <1>1. received # <<>> /\ m = Head(received)
      BY DEF NextReceived
  <1>2. /\ Len(received) \in Nat \ {0}
        /\ Head(received) = received[1]
        /\ received[1] \in Messages
        /\ Tail(received) \in Seq(Messages)
        /\ Len(Tail(received)) = Len(received) - 1
        /\ \A i \in 1..Len(Tail(received)) : Tail(received)[i] = received[i + 1]
      BY <1>1
  <1>3. DOMAIN received = 1..Len(received) /\ DOMAIN Tail(received) = 1..Len(Tail(received))
      BY <1>2
  <1>4. m \in {received[i] : i \in DOMAIN received}
      BY <1>1, <1>2, <1>3
  <1>5. ASSUME NEW i \in DOMAIN Tail(received)
        PROVE  Tail(received)[i] \in {received[j] : j \in DOMAIN received}
      <2>1. i + 1 \in DOMAIN received /\ Tail(received)[i] = received[i + 1]
          BY <1>2, <1>3
      <2> QED
          BY <2>1
  <1> QED
      BY <1>1, <1>2, <1>4, <1>5 DEF Pending

(* In one boot an answer stays genuine, so only new ones need a look. *)
LEMMA GenuineStays ==
    ASSUME AnswerInv, boot' = boot, readOld => readOld',
           \A m \in Pending' : m \in Pending \/ Genuine(m)'
    PROVE  AnswerInv'
  <1>1. SUFFICES ASSUME NEW m \in Pending' PROVE Genuine(m)'
      BY DEF AnswerInv
  <1>2. CASE m \in Pending
      BY <1>2 DEF AnswerInv, Genuine
  <1> QED
      BY <1>1, <1>2

(* What reading and accepting an answer does to the client. *)
LEMMA Reading ==
    ASSUME BringUpType, AnswerInv, NEW m \in NextReceived, Reads(m), boot' = boot
    PROVE  /\ m \in Messages /\ Genuine(m)
           /\ received' \in Seq(Messages) /\ Len(received') <= MaxReceived
           /\ {received'[i] : i \in DOMAIN received'} \subseteq Pending
           /\ serverAddress' = m.server /\ m.server \in Servers
           /\ serverAddress \in {"none", m.server}
           /\ readOld' \in BOOLEAN /\ (readOld => readOld')
           /\ ~readOld' => m.boot = boot'
           /\ m.address \in Addresses
           /\ Stored(m) \in Configurations
  <1>1. /\ m \in Messages /\ m \in Pending
        /\ received' = Tail(received)
        /\ received' \in Seq(Messages) /\ Len(received') <= Len(received)
        /\ {received'[i] : i \in DOMAIN received'} \subseteq Pending
      BY FirstAnswer DEF BringUpType, AnswerType, Reads, Pending
  <1>2. Genuine(m)
      BY <1>1 DEF AnswerInv
  <1>3. Len(received') <= MaxReceived
      BY <1>1, BringUpAssumption DEF BringUpType, AnswerType
  <1>4. m.server \in Servers /\ m.address \in Addresses
      BY <1>1 DEF Messages
  <1>5. /\ serverAddress' = m.server
        /\ serverAddress \in {"none", m.server}
      BY DEF Reads, Accepts
  <1>6. Stored(m) \in Configurations
      BY <1>1, StoredFields DEF BringUpType, ConfigType
  <1>7. readOld' \in BOOLEAN /\ (readOld => readOld') /\ (~readOld' => m.boot = boot')
      BY DEF Reads, BringUpType, ControlType
  <1> QED
      BY <1>1, <1>2, <1>3, <1>4, <1>5, <1>6, <1>7

(* Once the client holds an OFFER, an answer it accepts is of that server    *)
(* and cannot mix another one's gateway or name server in.                   *)
LEMMA OfferStays ==
    ASSUME BringUpType, AnswerInv, HoldsOffer, NEW m \in NextReceived, Reads(m),
           allocated' = Stored(m), boot' = boot
    PROVE  /\ HoldsOffer'
           /\ serverAddress' = serverAddress
           /\ allocated'.address = allocated.address
  <1>1. /\ m \in Messages
        /\ serverAddress' = m.server /\ serverAddress \in {"none", m.server}
        /\ (readOld => readOld')
      BY Reading
  <1>2. serverAddress \in Servers /\ serverAddress # "none"
      BY BringUpAssumption DEF HoldsOffer
  <1>3. serverAddress' = serverAddress /\ m.server = serverAddress
      BY <1>1, <1>2
  <1>4. /\ allocated'.address = allocated.address
        /\ allocated'.gateway \in {m.server, allocated.gateway}
        /\ allocated'.dns \in {m.server, allocated.dns}
      BY <1>1, StoredFields DEF BringUpType, ConfigType
  <1> QED
      BY <1>1, <1>2, <1>3, <1>4 DEF HoldsOffer

(* A new answer, to the device as it is now. *)
LEMMA NewMessage ==
    ASSUME BringUpType, boot' = boot,
           NEW type \in {"OFFER", "ACK", "NAK"}, NEW s \in Servers,
           NEW a \in Addresses, a.server = s,
           type = "OFFER" => a.boot = boot,
           type = "ACK" /\ ~readOld' => a.boot = boot,
           NEW m, m = Message(type, s, a)
    PROVE  m \in Messages /\ Genuine(m)'
  <1>1. /\ m \in Messages
        /\ m.type = type /\ m.server = s /\ m.address = a /\ m.boot = boot
      BY DEF Message, Messages, BringUpType, ControlType
  <1>2. boot' \in Nat
      BY DEF BringUpType, ControlType
  <1> QED
      BY <1>1, <1>2 DEF Genuine

(* No step of the bring-up disturbs its invariant.  The first three are the  *)
(* chip and the link; then one lemma per branch of DHCP_run that reads an    *)
(* answer.                                                                   *)
BringUpInv == BringUpType /\ DhcpInv

On == bringUp # "off" /\ bringUp' # "off"

LEMMA LinkStep ==
    ASSUME BringUpInv, InitChip \/ LinkIsUp \/ LinkIsDown
    PROVE  BringUpInv' /\ On
  <1> USE BringUpAssumption
  <1>0. BringUpType /\ LeaseInv /\ OfferInv /\ AckInv /\ NetworkInv
      BY DEF BringUpInv, DhcpInv
  <1>1. dhcpState' = "INIT" /\ dhcpState = "INIT" /\ ~assigned /\ ~assigned' /\ bringUp \in {"chip", "link"}
      BY <1>0 DEF LeaseInv, InitChip, LinkIsUp, LinkIsDown
  <1>2. ControlType'
      <2>1. CASE InitChip
          BY <1>0, <2>1 DEF BringUpType, ControlType, InitChip
      <2>2. CASE LinkIsUp
        <3>1. retries' \in 0..DhcpRetries /\ attempts' \in 0..LinkRetries
            BY <2>2 DEF LinkIsUp
        <3> QED
            BY <1>0, <2>2, <3>1 DEF BringUpType, ControlType, LinkIsUp
      <2>3. CASE LinkIsDown
          BY <1>0, <2>3 DEF BringUpType, ControlType, LinkIsDown, LeaseInv
      <2> QED
          BY <2>1, <2>2, <2>3
  <1>3. ConfigType' /\ AnswerType'
      BY <1>0 DEF BringUpType, ConfigType, AnswerType, InitChip, LinkIsUp, LinkIsDown
  <1>4. AnswerInv'
      <2>1. Pending' = Pending /\ boot' = boot /\ readOld' = readOld
          BY DEF Pending, InitChip, LinkIsUp, LinkIsDown
      <2> QED
          BY <2>1, GenuineStays DEF BringUpInv, DhcpInv
  <1>5. LeaseInv'
      <2>1. (bringUp = "link" => attempts < LinkRetries)'
          BY <1>0 DEF BringUpType, ControlType, LeaseInv, InitChip, LinkIsUp, LinkIsDown
      <2> QED
          BY <1>0, <1>1, <2>1 DEF LeaseInv, InitChip, LinkIsUp, LinkIsDown
  <1>6. OfferInv' /\ AckInv'
      BY <1>1 DEF OfferInv, AckInv
  <1>7. NetworkInv'
      BY <1>0, <1>1 DEF NetworkInv, InitChip, LinkIsUp, LinkIsDown
  <1>8. On
      BY DEF On, InitChip, LinkIsUp, LinkIsDown
  <1> QED
      BY <1>2, <1>3, <1>4, <1>5, <1>6, <1>7, <1>8 DEF BringUpInv, BringUpType, DhcpInv

LEMMA DiscoverStep ==
    ASSUME BringUpInv, Discover
    PROVE  BringUpInv' /\ On
  <1> USE BringUpAssumption
  <1>0. BringUpType /\ AnswerInv /\ LeaseInv /\ NetworkInv
      BY DEF BringUpInv, DhcpInv
  <1>1. PICK early \in wire \union {NoMessage}, offering \in SUBSET Servers :
            /\ allocated' = [Stored(early) EXCEPT !.address = NoLease]
            /\ wire' = (wire \ {early})
                  \union {Message("OFFER", s, Lease(s)) : s \in offering}
            /\ readOld' = (early \in wire)
      BY DEF Discover
  <1>2. /\ bringUp = "dhcp" /\ bringUp' = "dhcp" /\ ~assigned /\ assigned' = assigned
        /\ dhcpState = "INIT" /\ dhcpState' = "DISCOVER" /\ serverAddress' = "none"
        /\ retries > 0 /\ retries' = retries - 1 /\ attempts' = attempts
        /\ network' = network /\ boot' = boot /\ received' = received
        /\ confirmed' = confirmed
      BY DEF Discover, Call
  <1>3. early \in Messages \union {NoMessage}
      BY <1>0 DEF BringUpType, AnswerType
  <1>5. ASSUME NEW m \in wire' \ wire PROVE m \in Messages /\ Genuine(m)'
      <2>1. PICK s \in Servers : m = Message("OFFER", s, Lease(s))
          BY <1>1
      <2>2. Lease(s) \in Addresses /\ Lease(s).server = s /\ Lease(s).boot = boot
          BY <1>0 DEF Lease, Addresses, BringUpType, ControlType
      <2> QED
          BY <1>0, <1>2, <2>1, <2>2, NewMessage
  <1>6. ControlType'
      BY <1>0, <1>1, <1>2 DEF BringUpType, ControlType
  <1>7. ConfigType'
      <2>1. allocated' \in Configurations
          BY <1>0, <1>1, <1>3, StoredAddress DEF BringUpType, ConfigType
      <2> QED
          BY <1>0, <1>2, <2>1 DEF BringUpType, ConfigType
  <1>8. AnswerType'
      BY <1>0, <1>1, <1>2, <1>5 DEF BringUpType, AnswerType
  <1>9. AnswerInv'
      <2>1. ~readOld
          BY <1>0, <1>2 DEF LeaseInv
      <2>2. \A m \in Pending' : m \in Pending \/ Genuine(m)'
          BY <1>2, <1>5 DEF Pending
      <2> QED
          BY <1>0, <1>2, <2>1, <2>2, GenuineStays
  <1>10. LeaseInv' /\ OfferInv' /\ AckInv'
      BY <1>2 DEF LeaseInv, OfferInv, AckInv
  <1>11. NetworkInv'
      BY <1>0, <1>2 DEF NetworkInv
  <1> QED
      BY <1>2, <1>6, <1>7, <1>8, <1>9, <1>10, <1>11
      DEF BringUpInv, BringUpType, DhcpInv, On

LEMMA TakeOfferStep ==
    ASSUME BringUpInv, TakeOffer
    PROVE  BringUpInv' /\ On
  <1> USE BringUpAssumption
  <1>0. BringUpType /\ AnswerInv /\ LeaseInv /\ NetworkInv
      BY DEF BringUpInv, DhcpInv
  <1>1. PICK m \in NextReceived :
            /\ Reads(m)
            /\ m.type = "OFFER"
            /\ allocated' = [Stored(m) EXCEPT !.address = m.address]
            /\ \E answers \in {{}, {"ACK"}, {"NAK"}} :
                  wire' = wire \union
                      {Message(type, m.server, m.address) : type \in answers}
      BY DEF TakeOffer
  <1>2. /\ bringUp = "dhcp" /\ bringUp' = "dhcp" /\ ~assigned /\ assigned' = assigned
        /\ dhcpState = "DISCOVER" /\ dhcpState' = "REQUEST"
        /\ retries > 0 /\ retries' = retries - 1 /\ attempts' = attempts
        /\ network' = network /\ boot' = boot /\ confirmed' = confirmed
      BY DEF TakeOffer, Call
  <1>3. /\ m \in Messages /\ Genuine(m)
        /\ received' \in Seq(Messages) /\ Len(received') <= MaxReceived
        /\ {received'[i] : i \in DOMAIN received'} \subseteq Pending
        /\ serverAddress' = m.server /\ m.server \in Servers
        /\ readOld' \in BOOLEAN /\ (readOld => readOld')
        /\ ~readOld' => m.boot = boot'
        /\ m.address \in Addresses
      BY <1>0, <1>1, <1>2, Reading
  <1>5. ASSUME NEW n \in wire' \ wire PROVE n \in Messages /\ Genuine(n)'
      <2>1. PICK type \in {"ACK", "NAK"} : n = Message(type, m.server, m.address)
          BY <1>1
      <2>2. m.address.server = m.server /\ (~readOld' => m.address.boot = boot)
          BY <1>1, <1>2, <1>3 DEF Genuine
      <2> QED
          BY <1>0, <1>2, <1>3, <2>1, <2>2, NewMessage
  <1>6. ControlType'
      BY <1>0, <1>2, <1>3 DEF BringUpType, ControlType
  <1>7. /\ allocated' \in Configurations
        /\ allocated'.address = m.address
        /\ allocated'.gateway = Stored(m).gateway
        /\ allocated'.dns = Stored(m).dns
      BY <1>0, <1>1, <1>3, StoredAddress DEF BringUpType, ConfigType
  <1>8. ConfigType'
      BY <1>0, <1>2, <1>7 DEF BringUpType, ConfigType
  <1>9. AnswerType'
      <2>1. wire' \subseteq Messages
          BY <1>0, <1>5 DEF BringUpType, AnswerType
      <2> QED
          BY <1>0, <1>2, <1>3, <2>1 DEF BringUpType, AnswerType
  <1>10. AnswerInv'
      <2>1. \A n \in Pending' : n \in Pending \/ Genuine(n)'
          BY <1>3, <1>5 DEF Pending
      <2> QED
          BY <1>0, <1>2, <1>3, <2>1, GenuineStays
  <1>11. LeaseInv'
      BY <1>2 DEF LeaseInv
  <1>12. OfferInv'
      <2>1. "gateway" \in Provides[m.server] => Stored(m).gateway = m.server
          BY <1>0, <1>1, <1>3, StoredFields DEF BringUpType, ConfigType
      <2>2. "dns" \in Provides[m.server] => Stored(m).dns = m.server
          BY <1>0, <1>1, <1>3, StoredFields DEF BringUpType, ConfigType
      <2>3. m.address.server = m.server /\ (~readOld' => m.address.boot = boot')
          BY <1>1, <1>2, <1>3 DEF Genuine
      <2> QED
          BY <1>3, <1>7, <2>1, <2>2, <2>3 DEF OfferInv, HoldsOffer
  <1>13. AckInv'
      BY <1>2 DEF AckInv
  <1>14. NetworkInv'
      BY <1>0, <1>2 DEF NetworkInv
  <1> QED
      BY <1>2, <1>6, <1>8, <1>9, <1>10, <1>11, <1>12, <1>13, <1>14
      DEF BringUpInv, BringUpType, DhcpInv, On

(* An ACK is taken, or the address turns out to be in use. *)
LEMMA AckStep ==
    ASSUME BringUpInv, TakeAck \/ FindConflict
    PROVE  BringUpInv' /\ On
  <1> USE BringUpAssumption
  <1>0. BringUpType /\ AnswerInv /\ LeaseInv /\ OfferInv /\ NetworkInv
      BY DEF BringUpInv, DhcpInv
  <1>1. PICK m \in NextReceived :
            /\ Reads(m)
            /\ m.type = "ACK"
            /\ allocated' = Stored(m)
            /\ confirmed' \in {m, confirmed}
            /\ TakeAck => confirmed' = m
      BY DEF TakeAck, FindConflict
  <1>2. /\ bringUp = "dhcp" /\ ~assigned /\ dhcpState = "REQUEST"
        /\ retries > 0 /\ retries' = retries - 1 /\ attempts' = attempts
        /\ network' = network /\ boot' = boot /\ wire' = wire
        /\ \/ TakeAck /\ bringUp' = "dhcp" /\ assigned' = TRUE /\ dhcpState' = "LEASED"
           \/ bringUp' = "conflict" /\ assigned' = assigned /\ dhcpState' = "REQUEST"
      BY DEF TakeAck, FindConflict, Call
  <1>3. /\ m \in Messages /\ Genuine(m)
        /\ received' \in Seq(Messages) /\ Len(received') <= MaxReceived
        /\ {received'[i] : i \in DOMAIN received'} \subseteq Pending
        /\ serverAddress' = m.server /\ m.server \in Servers
        /\ readOld' \in BOOLEAN /\ (readOld => readOld')
        /\ ~readOld' => m.boot = boot'
        /\ m.address \in Addresses
        /\ Stored(m) \in Configurations
      BY <1>0, <1>1, <1>2, Reading
  <1>4. /\ HoldsOffer'
        /\ allocated'.address = allocated.address
      BY <1>0, <1>1, <1>2, OfferStays DEF OfferInv
  <1>5. assigned' \in BOOLEAN
      BY <1>0, <1>2 DEF BringUpType, ControlType
  <1>6. ControlType'
      BY <1>0, <1>2, <1>3, <1>5 DEF BringUpType, ControlType
  <1>7. ConfigType' /\ AnswerType'
      BY <1>0, <1>1, <1>2, <1>3 DEF BringUpType, ConfigType, AnswerType
  <1>8. AnswerInv'
      <2>1. \A n \in Pending' : n \in Pending
          BY <1>2, <1>3 DEF Pending
      <2> QED
          BY <1>0, <1>2, <1>3, <2>1, GenuineStays
  <1>9. LeaseInv' /\ OfferInv'
      BY <1>2, <1>4 DEF LeaseInv, OfferInv
  <1>10. AckInv'
      <2>1. SUFFICES ASSUME TakeAck PROVE HoldsAck'
          BY <1>2 DEF AckInv
      <2>2. confirmed' = m /\ m.type = "ACK" /\ serverAddress' = m.server
          BY <1>1, <1>3, <2>1
      <2>3. ASSUME ~readOld' PROVE confirmed'.address = allocated'.address
          <3>1. m.address.server = m.server /\ m.address.boot = boot
              BY <1>1, <1>2, <1>3, <2>3 DEF Genuine
          <3>2. /\ allocated'.address.server = m.server
                /\ allocated'.address.boot = boot
              BY <1>2, <1>3, <1>4, <2>3 DEF HoldsOffer
          <3>3. allocated'.address \in Addresses
              BY <1>7, <3>2, <1>3 DEF ConfigType, Configurations, NoLease
          <3> QED
              BY <1>3, <2>2, <3>1, <3>2, <3>3 DEF Addresses
      <2> QED
          BY <2>2, <2>3 DEF HoldsAck
  <1>11. NetworkInv'
      BY <1>0, <1>2 DEF NetworkInv
  <1> QED
      BY <1>2, <1>6, <1>7, <1>8, <1>9, <1>10, <1>11
      DEF BringUpInv, BringUpType, DhcpInv, On

LEMMA NakStep ==
    ASSUME BringUpInv, TakeNak
    PROVE  BringUpInv' /\ On
  <1> USE BringUpAssumption
  <1>0. BringUpType /\ AnswerInv /\ LeaseInv /\ NetworkInv
      BY DEF BringUpInv, DhcpInv
  <1>1. PICK m \in NextReceived : Reads(m) /\ allocated' = Stored(m)
      BY DEF TakeNak
  <1>2. /\ bringUp = "dhcp" /\ bringUp' = "dhcp" /\ ~assigned /\ assigned' = assigned
        /\ dhcpState' = "DISCOVER"
        /\ retries > 0 /\ retries' = retries - 1 /\ attempts' = attempts
        /\ network' = network /\ boot' = boot /\ wire' = wire /\ confirmed' = confirmed
      BY DEF TakeNak, Call
  <1>3. /\ received' \in Seq(Messages) /\ Len(received') <= MaxReceived
        /\ {received'[i] : i \in DOMAIN received'} \subseteq Pending
        /\ serverAddress' = m.server /\ m.server \in Servers
        /\ readOld' \in BOOLEAN /\ (readOld => readOld')
        /\ Stored(m) \in Configurations
      BY <1>0, <1>1, <1>2, Reading
  <1>4. ControlType'
      BY <1>0, <1>2, <1>3 DEF BringUpType, ControlType
  <1>5. ConfigType' /\ AnswerType'
      BY <1>0, <1>1, <1>2, <1>3 DEF BringUpType, ConfigType, AnswerType
  <1>6. AnswerInv'
      <2>1. \A n \in Pending' : n \in Pending
          BY <1>2, <1>3 DEF Pending
      <2> QED
          BY <1>0, <1>2, <1>3, <2>1, GenuineStays
  <1>7. LeaseInv' /\ OfferInv' /\ AckInv'
      BY <1>2 DEF LeaseInv, OfferInv, AckInv
  <1>8. NetworkInv'
      BY <1>0, <1>2 DEF NetworkInv
  <1> QED
      BY <1>2, <1>4, <1>5, <1>6, <1>7, <1>8
      DEF BringUpInv, BringUpType, DhcpInv, On

LEMMA PassOverStep ==
    ASSUME BringUpInv, PassOver
    PROVE  BringUpInv' /\ On
  <1> USE BringUpAssumption
  <1>0. BringUpType /\ AnswerInv /\ LeaseInv /\ OfferInv /\ NetworkInv
      BY DEF BringUpInv, DhcpInv
  <1>2. /\ bringUp = "dhcp" /\ bringUp' = "dhcp" /\ ~assigned /\ assigned' = assigned
        /\ dhcpState \in {"DISCOVER", "REQUEST"} /\ dhcpState' = dhcpState
        /\ retries > 0 /\ retries' = retries - 1 /\ attempts' = attempts
        /\ network' = network /\ boot' = boot /\ wire' = wire /\ confirmed' = confirmed
      BY DEF PassOver, Call
  <1>3. \/ UNCHANGED <<serverAddress, allocated, received, readOld>>
        \/ /\ NextReceived # {} /\ received' = Tail(received)
           /\ UNCHANGED <<serverAddress, allocated, readOld>>
        \/ \E m \in NextReceived : Reads(m) /\ allocated' = Stored(m)
      BY DEF PassOver
  <1>4. /\ received' \in Seq(Messages) /\ Len(received') <= MaxReceived
        /\ {received'[i] : i \in DOMAIN received'} \subseteq Pending
        /\ serverAddress' \in Servers \union {"none"}
        /\ readOld' \in BOOLEAN /\ (readOld => readOld')
        /\ allocated' \in Configurations
        /\ HoldsOffer => HoldsOffer'
      <2>1. CASE UNCHANGED <<serverAddress, allocated, received, readOld>>
          BY <1>0, <1>2, <2>1
          DEF BringUpType, ControlType, ConfigType, AnswerType, Pending, HoldsOffer
      <2>2. CASE /\ NextReceived # {} /\ received' = Tail(received)
                 /\ UNCHANGED <<serverAddress, allocated, readOld>>
          <3>1. PICK m : m \in NextReceived
              BY <2>2
          <3>2. /\ received' \in Seq(Messages) /\ Len(received') <= Len(received)
                /\ {received'[i] : i \in DOMAIN received'} \subseteq Pending
              BY <1>0, <2>2, <3>1, FirstAnswer DEF BringUpType, AnswerType, Pending
          <3>3. Len(received') <= MaxReceived
              BY <1>0, <3>2 DEF BringUpType, AnswerType
          <3>4. HoldsOffer => HoldsOffer'
              BY <1>2, <2>2 DEF HoldsOffer
          <3> QED
              BY <1>0, <2>2, <3>2, <3>3, <3>4 DEF BringUpType, ControlType, ConfigType
      <2>3. CASE \E m \in NextReceived : Reads(m) /\ allocated' = Stored(m)
          <3>1. PICK m \in NextReceived : Reads(m) /\ allocated' = Stored(m)
              BY <2>3
          <3>2. /\ received' \in Seq(Messages) /\ Len(received') <= MaxReceived
                /\ {received'[i] : i \in DOMAIN received'} \subseteq Pending
                /\ serverAddress' = m.server /\ m.server \in Servers
                /\ readOld' \in BOOLEAN /\ (readOld => readOld')
                /\ Stored(m) \in Configurations
              BY <1>0, <1>2, <3>1, Reading
          <3>3. HoldsOffer => HoldsOffer'
              BY <1>0, <1>2, <3>1, OfferStays
          <3> QED
              BY <3>1, <3>2, <3>3
      <2> QED
          BY <1>3, <2>1, <2>2, <2>3
  <1>5. ControlType'
      BY <1>0, <1>2, <1>4 DEF BringUpType, ControlType
  <1>6. ConfigType' /\ AnswerType'
      BY <1>0, <1>2, <1>4 DEF BringUpType, ConfigType, AnswerType
  <1>7. AnswerInv'
      <2>1. \A n \in Pending' : n \in Pending
          BY <1>2, <1>4 DEF Pending
      <2> QED
          BY <1>0, <1>2, <1>4, <2>1, GenuineStays
  <1>8. LeaseInv' /\ OfferInv' /\ AckInv'
      BY <1>0, <1>2, <1>4 DEF LeaseInv, OfferInv, AckInv
  <1>9. NetworkInv'
      BY <1>0, <1>2 DEF NetworkInv
  <1> QED
      BY <1>2, <1>5, <1>6, <1>7, <1>8, <1>9
      DEF BringUpInv, BringUpType, DhcpInv, On

LEMMA ConfigureStep ==
    ASSUME BringUpInv, ConfigureNetwork
    PROVE  BringUpInv' /\ On
  <1> USE BringUpAssumption
  <1>0. BringUpType /\ AnswerInv /\ LeaseInv /\ OfferInv /\ AckInv /\ NetworkInv
      BY DEF BringUpInv, DhcpInv
  <1>1. /\ bringUp = "dhcp" /\ bringUp' = "up" /\ retries' = DhcpRetries
        /\ network' = IF assigned THEN allocated ELSE network
        /\ UNCHANGED <<attempts, dhcpState, serverAddress, allocated, assigned,
                       received, wire, boot, confirmed, readOld>>
      BY DEF ConfigureNetwork
  <1>2. ControlType'
      <2>1. retries' \in 0..DhcpRetries
          BY <1>1
      <2> QED
          BY <1>0, <1>1, <2>1 DEF BringUpType, ControlType
  <1>3. ConfigType'
      <2>1. CASE assigned
          <3>1. HoldsOffer
              BY <1>0, <2>1 DEF AckInv, OfferInv
          <3>2. allocated.address \in Addresses
              BY <1>0, <3>1
              DEF HoldsOffer, BringUpType, ConfigType, Configurations, NoLease
          <3> QED
              BY <1>0, <1>1, <2>1, <3>2 DEF BringUpType, ConfigType, Configurations
      <2>2. CASE ~assigned
          BY <1>0, <1>1, <2>2 DEF BringUpType, ConfigType
      <2> QED
          BY <2>1, <2>2
  <1>4. AnswerType'
      BY <1>0, <1>1 DEF BringUpType, AnswerType
  <1>5. AnswerInv'
      BY <1>0, <1>1, GenuineStays DEF Pending
  <1>6. LeaseInv' /\ OfferInv' /\ AckInv'
      BY <1>0, <1>1 DEF LeaseInv, OfferInv, AckInv, HoldsOffer, HoldsAck
  <1>7. NetworkInv'
      BY <1>0, <1>1 DEF NetworkInv
  <1> QED
      BY <1>1, <1>2, <1>3, <1>4, <1>5, <1>6, <1>7
      DEF BringUpInv, BringUpType, DhcpInv, On

LEMMA BringUpStep ==
    ASSUME BringUpInv, W5500_Init
    PROVE  BringUpInv' /\ On
  BY LinkStep, DiscoverStep, TakeOfferStep, AckStep, NakStep, PassOverStep,
     ConfigureStep DEF W5500_Init

(* An answer comes in. *)
LEMMA DeliverStep ==
    ASSUME BringUpInv, Deliver
    PROVE  BringUpInv' /\ bringUp' = bringUp
  <1> USE BringUpAssumption
  <1>0. BringUpType /\ AnswerInv /\ LeaseInv /\ OfferInv /\ AckInv /\ NetworkInv
      BY DEF BringUpInv, DhcpInv
  <1>1. PICK m \in wire : received' = Append(received, m) /\ wire' = wire \ {m}
      BY DEF Deliver
  <1>2. /\ Len(received) < MaxReceived
        /\ UNCHANGED <<bringUp, attempts, retries, dhcpState, serverAddress, allocated,
                       assigned, network, boot, confirmed, readOld>>
      BY DEF Deliver
  <1>3. m \in Messages /\ received \in Seq(Messages) /\ wire \subseteq Messages
      BY <1>0 DEF BringUpType, AnswerType
  <1>4. /\ received' \in Seq(Messages) /\ Len(received') <= MaxReceived
        /\ DOMAIN received' = 1..(Len(received) + 1)
        /\ DOMAIN received = 1..Len(received)
        /\ \A i \in DOMAIN received : received'[i] = received[i]
        /\ received'[Len(received) + 1] = m
      BY <1>1, <1>2, <1>3
  <1>5. ControlType' /\ ConfigType' /\ AnswerType'
      BY <1>0, <1>1, <1>2, <1>4
      DEF BringUpType, ControlType, ConfigType, AnswerType
  <1>6. AnswerInv'
      <2>1. ASSUME NEW i \in DOMAIN received' PROVE received'[i] \in Pending
          <3>1. CASE i \in DOMAIN received
              BY <1>4, <3>1 DEF Pending
          <3>2. CASE i = Len(received) + 1
              BY <1>1, <1>4, <3>2 DEF Pending
          <3> QED
              BY <1>3, <1>4, <3>1, <3>2
      <2>2. \A n \in Pending' : n \in Pending
          BY <1>1, <2>1 DEF Pending
      <2> QED
          BY <1>0, <1>2, <2>2, GenuineStays
  <1>7. LeaseInv' /\ OfferInv' /\ AckInv' /\ NetworkInv'
      BY <1>0, <1>2 DEF LeaseInv, OfferInv, AckInv, HoldsOffer, HoldsAck, NetworkInv
  <1> QED
      BY <1>2, <1>5, <1>6, <1>7 DEF BringUpInv, BringUpType, DhcpInv

(* After a reset no answer on its way is one to this boot. *)
LEMMA ResetStep ==
    ASSUME BringUpInv, BringUpReset, boot < MaxBoots
    PROVE  BringUpInv'
  <1> USE BringUpAssumption, MaxBootsAssumption
  <1>0. BringUpType /\ AnswerInv
      BY DEF BringUpInv, DhcpInv
  <1>1. ControlType'
      <2>1. /\ attempts' \in 0..LinkRetries
            /\ retries' \in 0..DhcpRetries
            /\ boot' \in 1..MaxBoots
          BY <1>0 DEF BringUpReset, BringUpType, ControlType
      <2> QED
          BY <2>1 DEF BringUpReset, ControlType
  <1>2. ConfigType'
      BY DEF BringUpReset, ConfigType, Configurations, Zero, Static
  <1>3. AnswerType'
      BY <1>0 DEF BringUpReset, BringUpType, AnswerType
  <1>4. AnswerInv'
      <2>1. SUFFICES ASSUME NEW m \in Pending' PROVE Genuine(m)'
          BY DEF AnswerInv
      <2>2. m \in wire
          BY DEF Pending, BringUpReset
      <2>3. Genuine(m) /\ m \in Messages
          BY <1>0, <2>2 DEF AnswerInv, Pending, BringUpType, AnswerType
      <2>4. m.boot \in Nat /\ boot \in Nat
          BY <1>0, <2>3 DEF Messages, BringUpType, ControlType
      <2> QED
          BY <2>3, <2>4 DEF Genuine, BringUpReset
  <1>5. LeaseInv' /\ OfferInv' /\ AckInv' /\ NetworkInv'
      BY DEF LeaseInv, OfferInv, AckInv, NetworkInv, BringUpReset
  <1> QED
      BY <1>1, <1>2, <1>3, <1>4, <1>5 DEF BringUpInv, BringUpType, DhcpInv

----------------------------------------------------------------------------
(* main().                                                                 *)

LEMMA InitIInv == ASSUME Init PROVE IInv
  <1> USE PollLimitAssumption, BringUpAssumption, MaxBootsAssumption
  <1>1. FlashTypeOK
      <2>1. polls \in 0..PollLimit /\ flash \in FlashSteps
          BY DEF Init, FlashInit, FlashSteps
      <2> QED
          BY <2>1 DEF Init, FlashInit, FlashTypeOK
  <1>2. FlashInv
      BY DEF Init, FlashInit, FlashInv, EraseInv, ProgramInv, WrittenInv, ResultInv,
             ReadyFlashHoldsThePattern, WorkingFlashIsReadyUnlessFoundBusy
  <1>3. MainType
      BY DEF Init, MainType
  <1>4. MainInv
      BY DEF Init, BringUpInit, MainInv
  <1>5. ControlType
      <2>1. attempts \in 0..LinkRetries /\ retries \in 0..DhcpRetries /\ boot \in 1..MaxBoots
          BY DEF Init, BringUpInit
      <2> QED
          BY <2>1 DEF Init, BringUpInit, ControlType
  <1>6. ConfigType
      BY DEF Init, BringUpInit, ConfigType, Configurations, Zero, Static
  <1>7. AnswerType
      BY DEF Init, BringUpInit, AnswerType
  <1>8. AnswerInv
      BY DEF Init, BringUpInit, AnswerInv, Pending
  <1>9. LeaseInv /\ OfferInv /\ AckInv /\ NetworkInv
      BY DEF Init, BringUpInit, LeaseInv, OfferInv, AckInv, NetworkInv
  <1> QED
      BY <1>1, <1>2, <1>3, <1>4, <1>5, <1>6, <1>7, <1>8, <1>9, TypeParts
      DEF IInv, BringUpType, DhcpInv

LEMMA InvParts == IInv <=> /\ FlashTypeOK /\ FlashInv
                           /\ MainType /\ MainInv
                           /\ BringUpInv
  BY TypeParts DEF IInv, BringUpInv

(* A step that leaves the bring-up alone, or the flash, keeps what is known  *)
(* of it.                                                                    *)
LEMMA BringUpUnchanged ==
    ASSUME BringUpInv, UNCHANGED bringUpVars
    PROVE  BringUpInv' /\ bringUp' = bringUp
  BY DEF BringUpInv, BringUpType, ControlType, ConfigType, AnswerType, DhcpInv, AnswerInv,
         Pending, Genuine, LeaseInv, OfferInv, AckInv, NetworkInv, HoldsOffer, HoldsAck,
         bringUpVars

LEMMA FlashUnchanged ==
    ASSUME FlashTypeOK, FlashInv, UNCHANGED flashVars
    PROVE  FlashTypeOK' /\ FlashInv'
  BY DEF FlashTypeOK, FlashInv, EraseInv, ProgramInv, WrittenInv, ResultInv, Written,
         ReadyFlashHoldsThePattern, WorkingFlashIsReadyUnlessFoundBusy, flashVars, chipVars

LEMMA MainUnchanged ==
    ASSUME MainType, UNCHANGED <<main, peripheralReadiness, tasks>>
    PROVE  MainType'
  BY DEF MainType

LEMMA NextIInv == ASSUME IInv, [Next]_vars PROVE IInv'
  <1> USE PollLimitAssumption
  <1>0. FlashTypeOK /\ FlashInv /\ MainType /\ MainInv /\ BringUpInv
      BY InvParts
  <1>10. SUFFICES FlashTypeOK' /\ FlashInv' /\ MainType' /\ MainInv' /\ BringUpInv'
      <2>1. InvParts'
          BY InvParts, PTL
      <2> QED
          BY <2>1
  <1>1. CASE InitBuses
      <2>1. FlashTypeOK' /\ FlashInv'
          <3>1. flash' \in {"off", "identify"}
              BY <1>1 DEF InitBuses
          <3>2. FlashTypeOK'
              BY <1>0, <1>1, <3>1 DEF InitBuses, FlashTypeOK, FlashSteps, chipVars
          <3> QED
              BY <3>1, <3>2
              DEF FlashInv, EraseInv, ProgramInv, WrittenInv, ResultInv,
                  ReadyFlashHoldsThePattern, WorkingFlashIsReadyUnlessFoundBusy
      <2>2. MainType' /\ MainInv'
          BY <1>0, <1>1 DEF InitBuses, MainType, MainInv, bringUpVars
      <2>3. BringUpInv'
          BY <1>0, <1>1, BringUpUnchanged DEF InitBuses
      <2> QED
          BY <2>1, <2>2, <2>3
  <1>2. CASE RunFlash
      <2>1. FlashTypeOK' /\ FlashInv'
          BY <1>0, <1>2, FlashStep DEF RunFlash
      <2>2. BringUpInv' /\ bringUp' = bringUp
          BY <1>0, <1>2, BringUpUnchanged DEF RunFlash
      <2>3. MainType' /\ MainInv'
          BY <1>0, <1>2, <2>2 DEF RunFlash, MainType, MainInv
      <2> QED
          BY <2>1, <2>2, <2>3
  <1>3. CASE EndFlash
      <2>1. FlashTypeOK'
          BY <1>0, <1>3 DEF EndFlash, FlashTypeOK, chipVars
      <2>2. FlashInv'
          BY <1>0, <1>3
          DEF EndFlash, chipVars, FlashInv, EraseInv, ProgramInv, WrittenInv, ResultInv,
              ReadyFlashHoldsThePattern, WorkingFlashIsReadyUnlessFoundBusy
      <2>3. MainType'
          BY <1>0, <1>3 DEF EndFlash, MainType
      <2>4. bringUp = "off" /\ bringUp' \in {"off", "chip"}
          BY <1>0, <1>3 DEF EndFlash, MainInv
      <2>5. MainInv'
          BY <1>3, <2>4 DEF EndFlash, MainInv
      <2>6. BringUpInv'
          <3>1. UNCHANGED <<attempts, retries, dhcpState, serverAddress, allocated,
                            assigned, network, received, wire, boot, confirmed, readOld>>
              BY <1>3 DEF EndFlash
          <3>2. BringUpType'
              BY <1>0, <2>4, <3>1
              DEF BringUpInv, BringUpType, ControlType, ConfigType, AnswerType
          <3>3. DhcpInv'
              BY <1>0, <2>4, <3>1
              DEF BringUpInv, DhcpInv, AnswerInv, Pending, Genuine, LeaseInv, OfferInv,
                  AckInv, NetworkInv, HoldsOffer, HoldsAck
          <3> QED
              BY <3>2, <3>3 DEF BringUpInv
      <2> QED
          BY <2>1, <2>2, <2>3, <2>5, <2>6
  <1>4. CASE RunNetwork
      <2>1. FlashTypeOK' /\ FlashInv'
          BY <1>0, <1>4, FlashUnchanged DEF RunNetwork
      <2>2. BringUpInv' /\ bringUp # "off" /\ bringUp' # "off"
          BY <1>0, <1>4, BringUpStep DEF RunNetwork, On
      <2>3. MainType' /\ MainInv'
          BY <1>0, <1>4, <2>2 DEF RunNetwork, MainType, MainInv
      <2> QED
          BY <2>1, <2>2, <2>3
  <1>5. CASE EndNetwork
      <2>1. FlashTypeOK' /\ FlashInv'
          BY <1>0, <1>5, FlashUnchanged DEF EndNetwork
      <2>2. BringUpInv' /\ bringUp' = bringUp
          BY <1>0, <1>5, BringUpUnchanged DEF EndNetwork
      <2>3. MainType'
          BY <1>0, <1>5 DEF EndNetwork, MainType
      <2>4. MainInv'
          BY <1>0, <1>5, <2>2 DEF EndNetwork, NetworkFailed, MainInv
      <2> QED
          BY <2>1, <2>2, <2>3, <2>4
  <1>6. CASE StartTasks
      <2>1. FlashTypeOK' /\ FlashInv'
          BY <1>0, <1>6, FlashUnchanged DEF StartTasks
      <2>2. BringUpInv' /\ bringUp' = bringUp
          BY <1>0, <1>6, BringUpUnchanged DEF StartTasks
      <2>3. MainType'
          BY <1>0, <1>6 DEF StartTasks, MainType
      <2>4. MainInv'
          BY <1>0, <1>6, <2>2 DEF StartTasks, MainInv
      <2> QED
          BY <2>1, <2>2, <2>3, <2>4
  <1>7. CASE FlashChip
      <2>1. FlashTypeOK'
          BY <1>0, <1>7 DEF FlashChip, ChipEnds, FlashTypeOK
      <2>2. FlashInv'
          BY <1>0, <1>7
          DEF FlashChip, ChipEnds, FlashInv, EraseInv, ProgramInv, WrittenInv, ResultInv,
              Written, ReadyFlashHoldsThePattern, WorkingFlashIsReadyUnlessFoundBusy
      <2>3. BringUpInv' /\ bringUp' = bringUp
          BY <1>0, <1>7, BringUpUnchanged DEF FlashChip
      <2>4. MainType' /\ MainInv'
          BY <1>0, <1>7, <2>3 DEF FlashChip, MainType, MainInv
      <2> QED
          BY <2>1, <2>2, <2>3, <2>4
  <1>8. CASE Answers
      <2>1. FlashTypeOK' /\ FlashInv'
          BY <1>0, <1>8, FlashUnchanged DEF Answers
      <2>2. BringUpInv' /\ bringUp' = bringUp
          BY <1>0, <1>8, DeliverStep DEF Answers
      <2>3. MainType' /\ MainInv'
          BY <1>0, <1>8, <2>2 DEF Answers, MainType, MainInv
      <2> QED
          BY <2>1, <2>2, <2>3
  <1>9. CASE Reset
      <2>1. FlashTypeOK'
          <3>1. polls' \in 0..PollLimit /\ flash' \in FlashSteps
              BY <1>9 DEF Reset, FlashReset, FlashSteps
          <3> QED
              BY <1>0, <1>9, <3>1 DEF Reset, FlashReset, FlashTypeOK, chipVars
      <2>2. FlashInv'
          BY <1>9
          DEF Reset, FlashReset, FlashInv, EraseInv, ProgramInv, WrittenInv, ResultInv,
              ReadyFlashHoldsThePattern, WorkingFlashIsReadyUnlessFoundBusy
      <2>3. MainType' /\ MainInv'
          BY <1>9 DEF Reset, BringUpReset, MainType, MainInv
      <2>4. BringUpInv'
          BY <1>0, <1>9, ResetStep DEF Reset
      <2> QED
          BY <2>1, <2>2, <2>3, <2>4
  <1>11. CASE UNCHANGED vars
      <2>1. FlashTypeOK' /\ FlashInv'
          BY <1>0, <1>11, FlashUnchanged DEF vars
      <2>2. BringUpInv' /\ bringUp' = bringUp
          BY <1>0, <1>11, BringUpUnchanged DEF vars
      <2>3. MainType' /\ MainInv'
          BY <1>0, <1>11, <2>2 DEF vars, MainType, MainInv
      <2> QED
          BY <2>1, <2>2, <2>3
  <1> QED
      BY <1>1, <1>2, <1>3, <1>4, <1>5, <1>6, <1>7, <1>8, <1>9, <1>11
      DEF Next, MainStep, Turning

(* The options, beside the rest of the invariant. *)
LEMMA OptionReading ==
    ASSUME BringUpInv, OptionInv, NEW m \in NextReceived, Reads(m), boot' = boot,
           dhcpState' # "INIT",
           allocated'.gateway = Stored(m).gateway, allocated'.dns = Stored(m).dns
    PROVE  OptionInv'
  <1>1. BringUpType /\ AnswerInv
      BY DEF BringUpInv, DhcpInv
  <1>2. /\ m \in Messages
        /\ serverAddress' = m.server /\ serverAddress \in {"none", m.server}
        /\ readOld => readOld'
      BY <1>1, Reading
  <1>3. /\ allocated'.gateway \in {m.server, allocated.gateway}
        /\ allocated'.dns \in {m.server, allocated.dns}
      BY <1>1, <1>2, StoredFields DEF BringUpType, ConfigType
  <1> QED
      BY <1>2, <1>3 DEF OptionInv

LEMMA OptionStep ==
    ASSUME BringUpInv, OptionInv, W5500_Init
    PROVE  OptionInv'
  <1>0. BringUpType /\ LeaseInv
      BY DEF BringUpInv, DhcpInv
  <1>1. CASE InitChip \/ LinkIsUp \/ LinkIsDown \/ ConfigureNetwork
      <2>1. /\ UNCHANGED <<allocated, serverAddress, readOld>>
            /\ dhcpState' = "INIT" => dhcpState = "INIT"
          BY <1>0, <1>1
          DEF InitChip, LinkIsUp, LinkIsDown, ConfigureNetwork, LeaseInv
      <2> QED
          BY <2>1 DEF OptionInv
  <1>2. CASE Discover
      <2>1. PICK early \in wire \union {NoMessage} :
                /\ allocated' = [Stored(early) EXCEPT !.address = NoLease]
                /\ readOld' = (early \in wire)
          BY <1>2 DEF Discover
      <2>2. dhcpState = "INIT" /\ dhcpState' = "DISCOVER" /\ serverAddress' = "none"
          BY <1>2 DEF Discover, Call
      <2>3. ASSUME ~readOld' PROVE allocated'.gateway = "none" /\ allocated'.dns = "none"
          <3>1. early = NoMessage
              BY <2>1, <2>3
          <3>2. /\ allocated'.gateway = Stored(early).gateway
                /\ allocated'.dns = Stored(early).dns
              BY <1>0, <2>1, <3>1, StoredAddress DEF BringUpType, ConfigType
          <3>3. /\ Stored(early).gateway = allocated.gateway
                /\ Stored(early).dns = allocated.dns
              BY <1>0, <3>1, StoredFields DEF BringUpType, ConfigType, NoMessage
          <3> QED
              BY <2>2, <3>2, <3>3 DEF OptionInv
      <2> QED
          BY <2>2, <2>3 DEF OptionInv
  <1>3. CASE TakeOffer
      <2>1. PICK m \in NextReceived :
                Reads(m) /\ allocated' = [Stored(m) EXCEPT !.address = m.address]
          BY <1>3 DEF TakeOffer
      <2>2. boot' = boot /\ dhcpState' # "INIT"
          BY <1>3 DEF TakeOffer, Call
      <2>3. m \in Messages /\ m.address \in Addresses
          BY <1>0, <2>1, FirstAnswer DEF BringUpType, AnswerType, Messages
      <2>4. allocated'.gateway = Stored(m).gateway /\ allocated'.dns = Stored(m).dns
          BY <1>0, <2>1, <2>3, StoredAddress DEF BringUpType, ConfigType
      <2> QED
          BY <2>1, <2>2, <2>4, OptionReading
  <1>4. CASE TakeAck \/ FindConflict \/ TakeNak
      <2>1. /\ \E m \in NextReceived : Reads(m) /\ allocated' = Stored(m)
            /\ boot' = boot /\ dhcpState' # "INIT"
          BY <1>4 DEF TakeAck, FindConflict, TakeNak, Call
      <2> QED
          BY <2>1, OptionReading
  <1>5. CASE PassOver
      <2>1. boot' = boot /\ dhcpState' = dhcpState /\ dhcpState # "INIT"
          BY <1>5 DEF PassOver, Call
      <2>2. \/ UNCHANGED <<serverAddress, allocated, readOld>>
            \/ \E m \in NextReceived : Reads(m) /\ allocated' = Stored(m)
          BY <1>5 DEF PassOver
      <2>3. CASE UNCHANGED <<serverAddress, allocated, readOld>>
          BY <2>1, <2>3 DEF OptionInv
      <2> QED
          BY <2>1, <2>2, <2>3, OptionReading
  <1> QED
      BY <1>1, <1>2, <1>3, <1>4, <1>5 DEF W5500_Init

LEMMA NextOptionInv == ASSUME IInv, OptionInv, [Next]_vars PROVE OptionInv'
  <1>1. CASE RunNetwork
      BY <1>1, InvParts, OptionStep DEF RunNetwork
  <1>2. CASE Reset
      BY <1>2 DEF Reset, BringUpReset, OptionInv, Zero
  <1>3. CASE InitBuses \/ RunFlash \/ EndFlash \/ EndNetwork \/ StartTasks \/ FlashChip
             \/ Answers \/ UNCHANGED vars
      <2>1. UNCHANGED <<dhcpState, allocated, serverAddress, readOld>>
          BY <1>3 DEF InitBuses, RunFlash, EndFlash, EndNetwork, StartTasks, FlashChip,
                      Answers, Deliver, vars, bringUpVars
      <2> QED
          BY <2>1 DEF OptionInv
  <1> QED
      BY <1>1, <1>2, <1>3 DEF Next, MainStep, Turning

----------------------------------------------------------------------------
(* The theorems.                                                           *)

(* Whatever resets, transfer errors, lost or late answers come, main(), the  *)
(* flash and the bring-up keep the invariant (main.c:58-110).                *)
THEOREM StartupInvariant == Spec => []IInv
  BY InitIInv, NextIInv, PTL DEF Spec

(* The variables stay in their ranges: no counter passes its limit and the   *)
(* receive buffer never holds more than it has room for (main.c:58-110).     *)
THEOREM StartupTypes == Spec => []TypeOK
  <1>1. IInv => TypeOK
      BY DEF IInv
  <1> QED
      BY <1>1, StartupInvariant, PTL

(* A flash that is called ready is idle, write protected and holds the whole *)
(* pattern (w25qxx.c:148-189).                                               *)
THEOREM ReadyFlash == Spec => []ReadyFlashHoldsThePattern
  <1>1. IInv => ReadyFlashHoldsThePattern
      BY DEF IInv, FlashInv, ResultInv
  <1> QED
      BY <1>1, StartupInvariant, PTL

(* A working flash is refused only if it was busy when it was identified     *)
(* (w25qxx.c:108-123).                                                       *)
THEOREM RefusedFlash == Spec => []WorkingFlashIsReadyUnlessFoundBusy
  <1>1. IInv => WorkingFlashIsReadyUnlessFoundBusy
      BY DEF IInv, FlashInv, ResultInv
  <1> QED
      BY <1>1, StartupInvariant, PTL

(* Whatever servers there are and whatever each of them announces, a leased  *)
(* address, and each option the leasing server announces, are that server's; *)
(* an option it does not announce is nobody's unless an answer to an earlier *)
(* boot was read; and without a lease all are the built-in ones              *)
(* (wizchip_port.c:200-233, dhcp.c:694-776).                                 *)
THEOREM WholeConfiguration == Spec => []ConfigurationIsWhole
  <1>1. Spec => []OptionInv
      <2>1. Init => OptionInv
          BY DEF Init, BringUpInit, OptionInv, Zero
      <2> QED
          BY <2>1, NextOptionInv, StartupInvariant, PTL DEF Spec
  <1>2. ASSUME IInv, OptionInv PROVE ConfigurationIsWhole
      <2>1. OfferInv /\ AckInv /\ NetworkInv
          BY <1>2 DEF IInv, DhcpInv
      <2>2. ASSUME bringUp = "up", assigned PROVE HoldsOffer /\ network = allocated
          BY <2>1, <2>2 DEF OfferInv, AckInv, NetworkInv
      <2>3. ASSUME bringUp = "up", ~assigned PROVE network = Static
          BY <2>1, <2>3 DEF NetworkInv
      <2>4. ~readOld => {allocated.gateway, allocated.dns} \subseteq {serverAddress, "none"}
          BY <1>2 DEF OptionInv
      <2> QED
          BY <2>2, <2>3, <2>4 DEF ConfigurationIsWhole, HoldsOffer
  <1> QED
      BY <1>1, <1>2, StartupInvariant, PTL

(* The address in use was confirmed by the server that leases it             *)
(* (dhcp.c:818-846).                                                         *)
THEOREM ConfirmedLease == Spec => []LeaseIsConfirmed
  <1>1. ASSUME IInv PROVE LeaseIsConfirmed
      <2>1. OfferInv /\ AckInv /\ NetworkInv
          BY <1>1 DEF IInv, DhcpInv
      <2>2. ASSUME bringUp = "up", assigned
            PROVE  HoldsOffer /\ HoldsAck /\ network = allocated
          BY <2>1, <2>2 DEF OfferInv, AckInv, NetworkInv
      <2> QED
          BY <2>2 DEF LeaseIsConfirmed, HoldsOffer, HoldsAck
  <1> QED
      BY <1>1, StartupInvariant, PTL

(* The network's tasks run exactly on a network that came up                 *)
(* (main.c:79-97).                                                           *)
THEOREM NetworkTasksStart == Spec => []NetworkTasksHaveTheNetwork
  <1>1. ASSUME IInv PROVE NetworkTasksHaveTheNetwork
      <2>1. MainInv
          BY <1>1 DEF IInv
      <2> QED
          BY <2>1 DEF MainInv, NetworkTasksHaveTheNetwork, NetworkTasks, OtherTasks
  <1> QED
      BY <1>1, StartupInvariant, PTL
=============================================================================
