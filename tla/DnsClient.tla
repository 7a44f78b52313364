----------------------------- MODULE DnsClient ------------------------------
(***************************************************************************)
(* Ethernet/DNS/dns.c as the HTTP monitor uses it: DNS_run opens a UDP     *)
(* socket, sends one query and then turns a loop that looks for a datagram *)
(* and for the end of the wait, which the timer task counts in seconds.    *)
(* The network delays, duplicates and loses what the server answers.       *)
(*                                                                         *)
(* sock_any_port of socket.c gives each socket that is opened a port of    *)
(* its own; the numbers repeat after Ports openings (16368 in the code),   *)
(* and no datagram is taken to stay in the network for that long.          *)
(***************************************************************************)
EXTENDS Integers, Sequences, FiniteSets

CONSTANTS
    Ports,        \* port numbers socket() hands out in turn
    WaitTime,     \* DNS_WAIT_TIME, in seconds
    MaxRetry,     \* MAX_DNS_RETRY
    QueryLength,  \* what dns_makequery returns
    Kinds,        \* answers the server may give
    MaxDatagrams  \* bound on the answers on their way, and on those received

ASSUME DnsAssumption ==
    /\ Ports \in Nat \ {0}
    /\ WaitTime \in Nat \ {0}
    /\ MaxRetry \in Nat
    /\ QueryLength \in Nat \ {0}
    /\ Kinds \subseteq {"address", "empty", "refused", "longname"}
    /\ MaxDatagrams \in Nat \ {0}

VARIABLES
    dns,        \* what DNS_run does next; "idle" when it is not running
    ticks,      \* dns_1s_tick; it counts on while DNS_run, which begins by
                \* clearing it, is not there to read it
    retryCount, \* retry_count
    length,     \* len
    port,       \* sock_any_port, counted from the first one
    dnsPort,    \* the port of the DNS socket while it is open
    dnsRx,      \* datagrams in its receive buffer
    network,    \* answers on their way
    dnsResult,  \* what DNS_run has returned
    dnsAnswer,  \* history: the datagram the lookup ended with
    queries,    \* history: queries this lookup has put on the network
    elapsed     \* history: seconds counted since DNS_run began to wait

dnsVars == <<dns, ticks, retryCount, length, port, dnsPort, dnsRx, network,
             dnsResult, dnsAnswer, queries, elapsed>>

(* An answer has an address, or none, or reports an error, or has a name     *)
(* that does not fit.  Its age is the number of sockets opened since its     *)
(* lookup began, so that 0 is an answer to this lookup.                      *)
Answer == [port : 0..(Ports - 1), age : 0..(Ports - 1), kind : Kinds]

NoPort == Ports
NoAnswer == [port |-> NoPort, age |-> 0, kind |-> "none"]

(* parseDNSMSG: an error of the server is 0, a long name -1. *)
Parsed(kind) ==
    CASE kind \in {"address", "empty"} -> 1
      [] kind = "refused" -> 0
      [] kind = "longname" -> -1

(* Mutation: every socket is opened on the same port. *)
NextPort_Same(p) == p

NextPort(p) == (p + 1) % Ports

Older(answers) == {[answer EXCEPT !.age = @ + 1] :
                      answer \in {a \in answers : a.age < Ports - 1}}

----------------------------------------------------------------------------
(* The network and the timer task.                                         *)

ServerAnswers ==
    /\ queries > 0
    /\ dnsPort # NoPort
    /\ Cardinality(network) < MaxDatagrams
    /\ \E kind \in Kinds :
          network' = network \union
              {[port |-> dnsPort, age |-> 0, kind |-> kind]}
    /\ UNCHANGED <<dns, ticks, retryCount, length, port, dnsPort, dnsRx,
                   dnsResult, dnsAnswer, queries, elapsed>>

LoseAnswer ==
    /\ \E answer \in network : network' = network \ {answer}
    /\ UNCHANGED <<dns, ticks, retryCount, length, port, dnsPort, dnsRx,
                   dnsResult, dnsAnswer, queries, elapsed>>

(* An answer that is delivered may still be on its way a second time. *)
DeliverAnswer ==
    /\ Len(dnsRx) < MaxDatagrams
    /\ \E answer \in network :
          /\ answer.port = dnsPort
          /\ dnsRx' = Append(dnsRx, answer)
          /\ network' \in {network, network \ {answer}}
    /\ UNCHANGED <<dns, ticks, retryCount, length, port, dnsPort, dnsResult,
                   dnsAnswer, queries, elapsed>>

(* DNS_time_handler.  Of a second the loop needs little, and sendto at most   *)
(* the 1.8 s of the chip's ARP time-out: no wait is over for a whole second  *)
(* before it is noticed.                                                     *)
DNS_time_handler ==
    /\ dns # "idle" => ticks < WaitTime
    /\ ticks' = IF dns # "idle" THEN ticks + 1 ELSE ticks
    /\ elapsed' = IF dns # "idle" THEN elapsed + 1 ELSE elapsed
    /\ UNCHANGED <<dns, retryCount, length, port, dnsPort, dnsRx, network,
                   dnsResult, dnsAnswer, queries>>

----------------------------------------------------------------------------
(* DNS_run.                                                                *)

(* Mutation: the second counter is not cleared. *)
BeginLookup_KeepsTicks ==
    /\ dns = "idle"
    /\ dns' = "send"
    /\ retryCount' = 0
    /\ length' = QueryLength
    /\ port' = NextPort(port)
    /\ dnsPort' = port
    /\ dnsRx' = <<>>
    /\ network' = Older(network)
    /\ dnsAnswer' = NoAnswer
    /\ queries' = 0
    /\ elapsed' = 0
    /\ UNCHANGED <<ticks, dnsResult>>

(* The counters are reset, the socket opened and the query made. *)
BeginLookup ==
    /\ dns = "idle"
    /\ dns' = "send"
    /\ ticks' = 0
    /\ retryCount' = 0
    /\ length' = QueryLength
    /\ port' = NextPort(port)
    /\ dnsPort' = port
    /\ dnsRx' = <<>>
    /\ network' = Older(network)
    /\ dnsAnswer' = NoAnswer
    /\ queries' = 0
    /\ elapsed' = 0
    /\ UNCHANGED dnsResult

(* sendto sends nothing when it is given nothing to send.  Else it waits for *)
(* the chip, which may find no way to the server; the result is not used.    *)
SendQuery ==
    /\ dns = "send"
    /\ dns' = "poll"
    /\ \/ queries' = IF length = 0 THEN queries ELSE queries + 1
       \/ UNCHANGED queries
    /\ UNCHANGED <<ticks, retryCount, length, port, dnsPort, dnsRx, network,
                   dnsResult, dnsAnswer, elapsed>>

(* The received size takes the place of the length of the query. *)
PollSocket ==
    /\ dns = "poll"
    /\ length' = Len(dnsRx)
    /\ dns' = IF dnsRx # <<>> THEN "receive" ELSE "check"
    /\ UNCHANGED <<ticks, retryCount, port, dnsPort, dnsRx, network, dnsResult,
                   dnsAnswer, queries, elapsed>>

RetriesLeft == retryCount < MaxRetry

CloseDnsSocket == dnsPort' = NoPort /\ dnsRx' = <<>>

(* The socket is closed and the locals go out of scope. *)
EndLookup(result) ==
    /\ dns' = "idle"
    /\ dnsResult' = result
    /\ CloseDnsSocket
    /\ length' = 0
    /\ queries' = 0
    /\ elapsed' = 0

(* check_DNS_timeout and what the loop does with its result. *)
WaitOn ==
    /\ dns = "check"
    /\ ticks < WaitTime
    /\ dns' = "poll"
    /\ UNCHANGED <<ticks, retryCount, length, port, dnsPort, dnsRx, network,
                   dnsResult, dnsAnswer, queries, elapsed>>

Retry ==
    /\ dns = "check"
    /\ ticks >= WaitTime
    /\ RetriesLeft
    /\ ticks' = 0
    /\ retryCount' = retryCount + 1
    /\ dns' = "send"
    /\ UNCHANGED <<length, port, dnsPort, dnsRx, network, dnsResult, dnsAnswer,
                   queries, elapsed>>

GiveUp ==
    /\ dns = "check"
    /\ ticks >= WaitTime
    /\ ~RetriesLeft
    /\ ticks' = 0
    /\ retryCount' = 0
    /\ EndLookup(0)
    /\ UNCHANGED <<port, network, dnsAnswer>>

(* The first datagram ends the lookup, whatever it says. *)
ReceiveAnswer ==
    /\ dns = "receive"
    /\ dnsAnswer' = Head(dnsRx)
    /\ EndLookup(Parsed(Head(dnsRx).kind))
    /\ UNCHANGED <<ticks, retryCount, port, network>>

DnsStep == SendQuery \/ PollSocket \/ WaitOn \/ Retry \/ GiveUp \/ ReceiveAnswer

DnsNetwork == ServerAnswers \/ LoseAnswer \/ DeliverAnswer

DnsInit ==
    /\ dns = "idle"
    /\ ticks = 0
    /\ retryCount = 0
    /\ length = 0
    /\ port = 0
    /\ dnsPort = NoPort
    /\ dnsRx = <<>>
    /\ network = {}
    /\ dnsResult = 0
    /\ dnsAnswer = NoAnswer
    /\ queries = 0
    /\ elapsed = 0

DnsTypeOK ==
    /\ dns \in {"idle", "send", "poll", "check", "receive"}
    /\ ticks \in 0..WaitTime
    /\ retryCount \in 0..MaxRetry
    /\ length \in 0..(QueryLength + MaxDatagrams)
    /\ port \in 0..(Ports - 1)
    /\ dnsPort \in 0..Ports
    /\ dnsRx \in Seq(Answer)
    /\ Len(dnsRx) <= MaxDatagrams
    /\ network \subseteq Answer
    /\ dnsResult \in {-1, 0, 1}
    /\ dnsAnswer \in Answer \union {NoAnswer}
    /\ queries \in 0..(MaxRetry + 1)
    /\ elapsed \in 0..((MaxRetry + 1) * WaitTime)

(* Every wait for an answer, the last one included, is DNS_WAIT_TIME seconds *)
(* long ("Wait response time", dns.h:74): none is cut short by a second      *)
(* counter that ran on since an earlier wait or lookup, however many there   *)
(* are (dns.c:500-513, 532-533).                                             *)
EveryWaitIsWhole ==
    [][dns = "check" /\ dns' \in {"send", "idle"}
          => elapsed = (retryCount + 1) * WaitTime]_dnsVars

(* What dns.h:95 says of DNS_run, "max time = MAX_DNS_RETRY *                *)
(* DNS_WAIT_TIME".  A second is allowed for, because the lookup may begin in *)
(* the middle of one.                                                        *)
LookupsTakeTheDocumentedTime == elapsed <= MaxRetry * WaitTime + 1

(* What dns.h:73 says of MAX_DNS_RETRY, "Requery Count": whenever sendto is  *)
(* called it has the query to send.                                          *)
RequeriesSendTheQuery == dns = "send" => length = QueryLength
============================================================================
