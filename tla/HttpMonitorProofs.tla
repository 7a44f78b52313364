------------------------- MODULE HttpMonitorProofs --------------------------
(***************************************************************************)
(* Theorems about HttpMonitor and DnsClient, and their proofs.  The        *)
(* properties of both follow from one inductive invariant, IInv.  Of the   *)
(* lookup it says how the wait is counted and which port an answer of each *)
(* age was sent to; of the connection, in which states of the chip each    *)
(* phase of a check finds it, how the bytes the server has sent are shared *)
(* between the line and the chip, and what each outcome rests on.          *)
(***************************************************************************)
EXTENDS HttpMonitor, SequenceTheorems, TLAPS

(* The socket that was opened age sockets before the last one has the port p. *)
Opened(p, age) == p + age + 1 \in {port, port + Ports}

(* Where a lookup is.  Every wait that is over was one of WaitTime seconds. *)
LookupInv ==
    /\ dns = "idle" => /\ dnsPort = NoPort
                       /\ dnsRx = <<>>
                       /\ queries = 0
                       /\ elapsed = 0
    /\ dns # "idle" => /\ Opened(dnsPort, 0)
                       /\ dnsAnswer = NoAnswer
                       /\ queries <= retryCount + 1
                       /\ elapsed = retryCount * WaitTime + ticks
    /\ dns = "send" => queries <= retryCount
    /\ dns = "receive" => dnsRx # <<>>

(* An answer is as old as its port says, so that those the open socket takes *)
(* in are answers to its own query.                                          *)
AnswersInv ==
    /\ \A answer \in network : Opened(answer.port, answer.age)
    /\ \A i \in 1..Len(dnsRx) : dnsRx[i].age = 0

DnsInv == DnsTypeOK /\ LookupInv /\ AnswersInv

BeforeOpen == {"delay", "lookup", "open"}
Ending == {"disconnect", "disconnecting", "close"}

(* What the chip may show in each phase.  A socket that is found closed while *)
(* the answer is read was reset by the server.                                *)
SocketInv ==
    /\ phase = "lookup" <=> dns # "idle"
    /\ phase \in BeforeOpen \union {"record"} => status = "CLOSED" /\ received = 0
    /\ phase = "connect" => status = "INIT"
    /\ phase = "connecting" => status \in {"SYNSENT", "CLOSED"} \union Open
    /\ phase \in {"send", "disconnect"} \union Reading =>
          status \in {"CLOSED"} \union Open
    /\ phase \in {"disconnecting", "close"} => status \in {"CLOSING", "CLOSED"}
    /\ phase \in Reading /\ status = "CLOSED" => aborted

(* The bytes the server has sent are in the line or in the chip. *)
LineInv ==
    /\ ~asked => sent = 0
    /\ asked => phase \in Reading \union Ending \union {"record"}
    /\ phase \in Reading => /\ asked
                            /\ lineLength + received = sent
                            /\ lineLength < reply.size
    /\ phase = "byte" => received > 0

(* A whole line that was not taken: reset, overtaken by its end, or no line  *)
(* that could be taken.  A line that is not whole stays so.                  *)
Excused ==
    \/ aborted \/ overtaken
    \/ ~reply.wellFormed \/ reply.size >= LineSize
    \/ sent < reply.size /\ status # "ESTABLISHED"

(* What each outcome rests on. *)
OutcomeInv ==
    /\ phase \in BeforeOpen \union {"connect", "connecting", "send"}
                    \union Reading => error = "NONE"
    /\ address = "host" => dnsAnswer.kind = "address" /\ dnsAnswer.age = 0
    /\ phase \in {"connecting", "send"} \union Reading \union Ending =>
          address = "host"
    /\ phase \in Ending => /\ error \in {"NONE", "TIMEOUT", "RESPONSE"}
                           /\ error = "NONE" => Good /\ statusCode = reply.code
    /\ phase \in Ending \union {"record"} /\ error = "RESPONSE" => Excused
    /\ phase = "record" /\ error \in {"NONE", "STATUS"} =>
          /\ Good
          /\ address = "host"
          /\ error = "NONE" <=> reply.code = 200
    /\ phase = "record" /\ error \in {"DNS", "SOCKET", "CONNECT", "SEND"} =>
          ~asked

(* The count is the true one up to its limit. *)
CountInv ==
    /\ snapshot.consecutiveFailures =
          IF trueFailures <= FailureLimit THEN trueFailures ELSE FailureLimit
    /\ snapshot.state = "INITIALIZING" => trueFailures = 0
    /\ SnapshotFollowsTheChecks

IInv == /\ TypeOK
        /\ LookupInv
        /\ AnswersInv
        /\ SocketInv
        /\ LineInv
        /\ OutcomeInv
        /\ CountInv

-----------------------------------------------------------------------------
(* The port after the last one is the first one again. *)
LEMMA NextPortIs ==
    ASSUME NEW p \in 0..(Ports - 1)
    PROVE  /\ NextPort(p) = IF p = Ports - 1 THEN 0 ELSE p + 1
           /\ NextPort(p) \in 0..(Ports - 1)
  BY DnsAssumption DEF NextPort, DnsAssumption

(* A socket more has been opened: every age grows by one. *)
LEMMA OneMoreOpened ==
    ASSUME NEW p \in 0..(Ports - 1), NEW age \in 0..(Ports - 2),
           port \in 0..(Ports - 1), port' = NextPort(port),
           Opened(p, age)
    PROVE  Opened(p, age + 1)'
<1>1. port' = IF port = Ports - 1 THEN 0 ELSE port + 1
  BY NextPortIs
<1> QED  BY <1>1, DnsAssumption DEF Opened, DnsAssumption

(* Answers of the network, each older by one. *)
LEMMA OlderAnswers ==
    ASSUME network \subseteq Answer, port \in 0..(Ports - 1),
           port' = NextPort(port), network' = Older(network),
           \A answer \in network : Opened(answer.port, answer.age)
    PROVE  /\ network' \subseteq Answer
           /\ \A answer \in network' : Opened(answer.port, answer.age)'
<1> SUFFICES ASSUME NEW answer \in network'
             PROVE  answer \in Answer /\ Opened(answer.port, answer.age)'
  OBVIOUS
<1>1. PICK a \in network : a.age < Ports - 1 /\ answer = [a EXCEPT !.age = @ + 1]
  BY DEF Older
<1>2. a \in Answer /\ a.age \in 0..(Ports - 2) /\ a.port \in 0..(Ports - 1)
  BY <1>1, DnsAssumption DEF Answer, DnsAssumption
<1>3. answer.port = a.port /\ answer.age = a.age + 1 /\ answer.kind = a.kind
  BY <1>1, <1>2 DEF Answer
<1>4. answer \in Answer
  BY <1>1, <1>2, DnsAssumption DEF Answer, DnsAssumption
<1>5. Opened(a.port, a.age)
  OBVIOUS
<1> HIDE DEF Opened
<1>6. Opened(a.port, a.age + 1)'
  <2> DEFINE p == a.port
             age == a.age
  <2>1. p \in 0..(Ports - 1) /\ age \in 0..(Ports - 2) /\ Opened(p, age)
    BY <1>2, <1>5
  <2> HIDE DEF p, age
  <2>2. port' = IF port = Ports - 1 THEN 0 ELSE port + 1
    BY NextPortIs
  <2>3. Opened(p, age + 1)'
    BY <2>1, <2>2, DnsAssumption DEF Opened, DnsAssumption
  <2> QED  BY <2>3 DEF p, age, Opened
<1> QED  BY <1>3, <1>4, <1>6 DEF Opened

(* What is left of WaitTime seconds times the waits that are allowed. *)
LEMMA WaitsAddUp ==
    /\ \A n \in 0..MaxRetry : /\ n * WaitTime \in Nat
                              /\ (n + 1) * WaitTime = n * WaitTime + WaitTime
                              /\ n * WaitTime + WaitTime
                                     <= (MaxRetry + 1) * WaitTime
    /\ 0 * WaitTime = 0
<1>1. ASSUME NEW n \in 0..MaxRetry
      PROVE  /\ n * WaitTime \in Nat
             /\ (n + 1) * WaitTime = n * WaitTime + WaitTime
             /\ n * WaitTime + WaitTime <= (MaxRetry + 1) * WaitTime
  <2>1. n * WaitTime \in Nat /\ (MaxRetry - n) * WaitTime \in Nat
    BY DnsAssumption DEF DnsAssumption
  <2>2. (n + 1) * WaitTime = n * WaitTime + WaitTime
    BY DnsAssumption DEF DnsAssumption
  <2>3. (MaxRetry + 1) * WaitTime
            = n * WaitTime + (MaxRetry - n) * WaitTime + WaitTime
    BY DnsAssumption DEF DnsAssumption
  <2> QED  BY <2>1, <2>2, <2>3, DnsAssumption DEF DnsAssumption
<1> QED  BY <1>1, DnsAssumption DEF DnsAssumption

-----------------------------------------------------------------------------
(* The lookup and the network.  A step that changes neither keeps DnsInv. *)
LEMMA DnsUnchanged ==
    ASSUME DnsInv, UNCHANGED dnsVars
    PROVE  DnsInv'
<1>1. DnsTypeOK'
  BY DEF DnsInv, DnsTypeOK, dnsVars
<1>2. LookupInv'
  BY DEF DnsInv, LookupInv, dnsVars, Opened
<1>3. AnswersInv'
  BY DEF DnsInv, AnswersInv, dnsVars, Opened
<1> QED  BY <1>1, <1>2, <1>3 DEF DnsInv

(* The chip takes in only what was sent to the open port: by AnswersInv and *)
(* LookupInv that is an answer of age 0.                                    *)
LEMMA NetworkKeepsDns ==
    ASSUME DnsInv, DnsNetwork
    PROVE  DnsInv'
<1> USE DEF DnsInv
<1>0. /\ port \in 0..(Ports - 1) /\ network \subseteq Answer
      /\ dnsRx \in Seq(Answer) /\ Len(dnsRx) \in Nat
      /\ UNCHANGED <<dns, ticks, retryCount, length, port, dnsPort, dnsResult,
                     dnsAnswer, queries, elapsed>>
  BY DEF DnsTypeOK, DnsNetwork, ServerAnswers, LoseAnswer, DeliverAnswer
<1>1. CASE ServerAnswers
  <2>1. PICK kind \in Kinds :
            network' = network \union {[port |-> dnsPort, age |-> 0, kind |-> kind]}
    BY <1>1 DEF ServerAnswers
  <2>2. dns # "idle" /\ dnsPort \in 0..(Ports - 1) /\ Opened(dnsPort, 0)
    BY <1>1, DnsAssumption DEF ServerAnswers, LookupInv, DnsTypeOK, NoPort,
       DnsAssumption
  <2>3. network' \subseteq Answer /\ UNCHANGED dnsRx
    BY <1>0, <1>1, <2>1, <2>2, DnsAssumption DEF Answer, ServerAnswers,
       DnsAssumption
  <2>4. DnsTypeOK'
    BY <1>0, <2>3 DEF DnsTypeOK
  <2>5. LookupInv'
    BY <1>0, <2>3 DEF LookupInv, Opened
  <2>6. AnswersInv'
    BY <1>0, <2>1, <2>2, <2>3 DEF AnswersInv, Opened
  <2> QED  BY <2>4, <2>5, <2>6
<1>2. CASE LoseAnswer
  <2>1. network' \subseteq network /\ UNCHANGED dnsRx
    BY <1>2 DEF LoseAnswer
  <2>2. DnsTypeOK'
    BY <1>0, <2>1 DEF DnsTypeOK
  <2>3. LookupInv'
    BY <1>0, <2>1 DEF LookupInv, Opened
  <2>4. AnswersInv'
    BY <1>0, <2>1 DEF AnswersInv, Opened
  <2> QED  BY <2>2, <2>3, <2>4
<1>3. CASE DeliverAnswer
  <2>1. PICK answer \in network : /\ answer.port = dnsPort
                                  /\ dnsRx' = Append(dnsRx, answer)
                                  /\ network' \in {network, network \ {answer}}
    BY <1>3 DEF DeliverAnswer
  <2>2. answer \in Answer /\ answer.port \in 0..(Ports - 1)
        /\ answer.age \in 0..(Ports - 1)
    BY <1>0, <2>1 DEF Answer
  <2>3. dns # "idle"
    BY <2>1, <2>2, DnsAssumption DEF LookupInv, NoPort, DnsAssumption
  <2>4. answer.age = 0
    <3>1. Opened(dnsPort, 0) /\ Opened(dnsPort, answer.age)
      BY <2>1, <2>3 DEF LookupInv, AnswersInv
    <3> QED  BY <1>0, <2>1, <2>2, <3>1, DnsAssumption DEF Opened, DnsAssumption
  <2>5. network' \subseteq network
    BY <2>1
  <2>6. /\ dnsRx' \in Seq(Answer) /\ Len(dnsRx') = Len(dnsRx) + 1
        /\ \A i \in 1..Len(dnsRx') : dnsRx'[i] = IF i = Len(dnsRx) + 1
                                                     THEN answer ELSE dnsRx[i]
    BY <1>0, <2>1, <2>2, AppendProperties
  <2>7. DnsTypeOK'
    <3>1. Len(dnsRx') <= MaxDatagrams
      BY <1>0, <1>3, <2>6, DnsAssumption DEF DeliverAnswer, DnsAssumption
    <3> QED  BY <1>0, <2>5, <2>6, <3>1 DEF DnsTypeOK
  <2>8. LookupInv'
    <3>1. dnsRx' # <<>>
      BY <1>0, <2>6, EmptySeq
    <3> QED  BY <1>0, <2>3, <3>1 DEF LookupInv, Opened
  <2>9. AnswersInv'
    <3>1. \A i \in 1..Len(dnsRx') : dnsRx'[i].age = 0
      BY <1>0, <2>4, <2>6 DEF AnswersInv
    <3> QED  BY <1>0, <2>5, <3>1 DEF AnswersInv, Opened
  <2> QED  BY <2>7, <2>8, <2>9
<1> QED  BY <1>1, <1>2, <1>3 DEF DnsNetwork

(* A second of a wait: it is not over before it is noticed. *)
LEMMA SecondKeepsDns ==
    ASSUME DnsInv, DNS_time_handler
    PROVE  DnsInv'
<1> USE DEF DnsInv
<1>0. /\ UNCHANGED <<dns, retryCount, length, port, dnsPort, dnsRx, network,
                     dnsResult, dnsAnswer, queries>>
      /\ ticks \in 0..WaitTime /\ retryCount \in 0..MaxRetry /\ elapsed \in Nat
      /\ retryCount * WaitTime \in Nat /\ (MaxRetry + 1) * WaitTime \in Nat
      /\ retryCount * WaitTime + WaitTime <= (MaxRetry + 1) * WaitTime
  BY WaitsAddUp, DnsAssumption DEF DNS_time_handler, DnsTypeOK, DnsAssumption
<1>1. /\ dns = "idle" => UNCHANGED <<ticks, elapsed>>
      /\ dns # "idle" => /\ ticks < WaitTime /\ ticks' = ticks + 1
                         /\ elapsed' = elapsed + 1
  BY DEF DNS_time_handler
<1>2. ticks' \in 0..WaitTime
  BY <1>0, <1>1, DnsAssumption DEF DnsAssumption
<1>3. dns # "idle" => elapsed' = retryCount * WaitTime + ticks'
  BY <1>0, <1>1 DEF LookupInv
<1>4. elapsed' \in 0..((MaxRetry + 1) * WaitTime)
  BY <1>0, <1>1, <1>2, <1>3, DnsAssumption DEF DnsTypeOK, DnsAssumption
<1>5. DnsTypeOK'
  BY <1>0, <1>2, <1>4 DEF DnsTypeOK
<1>6. LookupInv'
  BY <1>0, <1>1, <1>3 DEF LookupInv, Opened
<1>7. AnswersInv'
  BY <1>0 DEF AnswersInv, Opened
<1> QED  BY <1>5, <1>6, <1>7

(* DNS_run starts with every counter at zero and a port of its own. *)
LEMMA BeginLookupKeepsDns ==
    ASSUME DnsInv, BeginLookup
    PROVE  DnsInv'
<1> USE DEF DnsInv
<1>0. /\ port \in 0..(Ports - 1) /\ network \subseteq Answer
      /\ port' = NextPort(port) /\ dnsPort' = port /\ network' = Older(network)
      /\ dns' = "send" /\ ticks' = 0 /\ retryCount' = 0 /\ queries' = 0
      /\ elapsed' = 0 /\ dnsRx' = <<>> /\ dnsAnswer' = NoAnswer
      /\ length' = QueryLength /\ UNCHANGED dnsResult
  BY DEF BeginLookup, DnsTypeOK
<1>1. port' = (IF port = Ports - 1 THEN 0 ELSE port + 1) /\ port' \in 0..(Ports - 1)
  BY <1>0, NextPortIs
<1>2. /\ network' \subseteq Answer
      /\ \A answer \in network' : Opened(answer.port, answer.age)'
  BY <1>0, OlderAnswers DEF AnswersInv
<1>3. dnsRx' \in Seq(Answer) /\ Len(dnsRx') = 0
  BY <1>0, EmptySeq
<1>4. DnsTypeOK'
  <2>1. 0 \in 0..((MaxRetry + 1) * WaitTime) /\ 0 \in 0..WaitTime
        /\ 0 \in 0..MaxRetry /\ 0 \in 0..(MaxRetry + 1) /\ 0 <= MaxDatagrams
        /\ QueryLength \in 0..(QueryLength + MaxDatagrams)
        /\ port \in 0..Ports
    BY <1>0, DnsAssumption DEF DnsAssumption
  <2> QED  BY <1>0, <1>1, <1>2, <1>3, <2>1 DEF DnsTypeOK
<1>5. LookupInv'
  BY <1>0, <1>1, WaitsAddUp, DnsAssumption DEF LookupInv, Opened, DnsAssumption
<1>6. AnswersInv'
  BY <1>2, <1>3 DEF AnswersInv, Opened
<1> QED  BY <1>4, <1>5, <1>6

(* The TCP socket of the check takes the next port while no lookup runs. *)
LEMMA OpenKeepsDns ==
    ASSUME DnsInv, dns = "idle", port' = NextPort(port),
           network' = Older(network),
           UNCHANGED <<dns, ticks, retryCount, length, dnsPort, dnsRx,
                       dnsResult, dnsAnswer, queries, elapsed>>
    PROVE  DnsInv'
<1> USE DEF DnsInv
<1>0. port \in 0..(Ports - 1) /\ network \subseteq Answer
  BY DEF DnsTypeOK
<1>1. port' \in 0..(Ports - 1)
  BY <1>0, NextPortIs
<1>2. /\ network' \subseteq Answer
      /\ \A answer \in network' : Opened(answer.port, answer.age)'
  BY <1>0, OlderAnswers DEF AnswersInv
<1>3. DnsTypeOK'
  BY <1>1, <1>2 DEF DnsTypeOK
<1>4. LookupInv'
  BY DEF LookupInv, Opened
<1>5. AnswersInv'
  BY <1>2 DEF AnswersInv, Opened
<1> QED  BY <1>3, <1>4, <1>5

(* What the end of a lookup resets is enough, whatever it ended with. *)
LEMMA EndKeepsDns ==
    ASSUME DnsInv, NEW result \in {-1, 0, 1}, EndLookup(result),
           ticks' \in 0..WaitTime, retryCount' \in 0..MaxRetry,
           dnsAnswer' \in Answer \union {NoAnswer}, UNCHANGED <<port, network>>
    PROVE  DnsInv'
<1> USE DEF DnsInv
<1>0. /\ dns' = "idle" /\ dnsResult' = result /\ dnsPort' = NoPort
      /\ dnsRx' = <<>> /\ length' = 0 /\ queries' = 0 /\ elapsed' = 0
  BY DEF EndLookup, CloseDnsSocket
<1>1. dnsRx' \in Seq(Answer) /\ Len(dnsRx') = 0
  BY <1>0, EmptySeq
<1>2. /\ 0 \in 0..((MaxRetry + 1) * WaitTime) /\ 0 \in 0..(MaxRetry + 1)
      /\ 0 <= MaxDatagrams /\ 0 \in 0..(QueryLength + MaxDatagrams)
      /\ NoPort \in 0..Ports
  BY DnsAssumption DEF DnsAssumption, NoPort
<1>3. DnsTypeOK'
  BY <1>0, <1>1, <1>2 DEF DnsTypeOK
<1>4. LookupInv'
  BY <1>0 DEF LookupInv, Opened
<1>5. AnswersInv'
  BY <1>0, <1>1 DEF AnswersInv, Opened
<1> QED  BY <1>3, <1>4, <1>5

(* A wait that is over was a whole one, and so were those before it. *)
LEMMA WaitIsWhole ==
    ASSUME DnsInv, Retry \/ GiveUp
    PROVE  elapsed = (retryCount + 1) * WaitTime
<1>1. /\ retryCount \in 0..MaxRetry /\ ticks \in 0..WaitTime
      /\ dns # "idle" /\ ticks >= WaitTime
  BY DEF DnsInv, DnsTypeOK, Retry, GiveUp
<1>2. retryCount \in Nat /\ ticks = WaitTime
  BY <1>1, DnsAssumption DEF DnsAssumption
<1>3. elapsed = retryCount * WaitTime + WaitTime
  BY <1>1, <1>2 DEF DnsInv, LookupInv
<1> QED  BY <1>2, <1>3, WaitsAddUp, DnsAssumption DEF DnsAssumption

(* The datagram the lookup ends with. *)
LEMMA ReceivedAnswer ==
    ASSUME DnsInv, ReceiveAnswer
    PROVE  /\ dnsAnswer' \in Answer /\ dnsAnswer'.age = 0
           /\ dnsAnswer' # NoAnswer
           /\ Parsed(Head(dnsRx).kind) \in {-1, 0, 1}
<1>1. dnsRx \in Seq(Answer) /\ dnsRx # <<>> /\ dnsAnswer' = Head(dnsRx)
  BY DEF DnsInv, DnsTypeOK, LookupInv, ReceiveAnswer
<1>2. Len(dnsRx) \in Nat \ {0} /\ Head(dnsRx) = dnsRx[1] /\ Head(dnsRx) \in Answer
  BY <1>1, EmptySeq, HeadTailProperties
<1>3. dnsRx[1].age = 0
  BY <1>2 DEF DnsInv, AnswersInv
<1>4. Head(dnsRx).kind \in {"address", "empty", "refused", "longname"}
  BY <1>2, DnsAssumption DEF Answer, DnsAssumption
<1>5. dnsAnswer' # NoAnswer
  BY <1>1, <1>2, <1>4 DEF NoAnswer
<1>6. Parsed(Head(dnsRx).kind) \in {-1, 0, 1}
  BY <1>4 DEF Parsed
<1> QED  BY <1>1, <1>2, <1>3, <1>5, <1>6

(* A turn of DNS_run. *)
LEMMA DnsStepKeepsDns ==
    ASSUME DnsInv, DnsStep
    PROVE  DnsInv'
<1> USE DEF DnsInv
<1>0. /\ ticks \in 0..WaitTime /\ retryCount \in 0..MaxRetry
      /\ queries \in 0..(MaxRetry + 1) /\ elapsed \in Nat
      /\ dnsRx \in Seq(Answer) /\ Len(dnsRx) \in Nat /\ Len(dnsRx) <= MaxDatagrams
  BY DnsAssumption DEF DnsTypeOK, DnsAssumption
<1>1. CASE SendQuery
  <2>1. /\ dns = "send" /\ dns' = "poll" /\ queries' \in {queries, queries + 1}
        /\ UNCHANGED <<ticks, retryCount, length, port, dnsPort, dnsRx, network,
                       dnsResult, dnsAnswer, elapsed>>
    BY <1>1 DEF SendQuery
  <2>2. queries <= retryCount
    BY <2>1 DEF LookupInv
  <2>3. queries' \in 0..(MaxRetry + 1) /\ queries' <= retryCount + 1
    BY <1>0, <2>1, <2>2, DnsAssumption DEF DnsAssumption
  <2>4. DnsTypeOK'
    BY <2>1, <2>3 DEF DnsTypeOK
  <2>5. LookupInv'
    BY <2>1, <2>3 DEF LookupInv, Opened
  <2>6. AnswersInv'
    BY <2>1 DEF AnswersInv, Opened
  <2> QED  BY <2>4, <2>5, <2>6
<1>2. CASE PollSocket
  <2>1. /\ dns = "poll" /\ length' = Len(dnsRx)
        /\ dns' = IF dnsRx # <<>> THEN "receive" ELSE "check"
        /\ UNCHANGED <<ticks, retryCount, port, dnsPort, dnsRx, network,
                       dnsResult, dnsAnswer, queries, elapsed>>
    BY <1>2 DEF PollSocket
  <2>2. length' \in 0..(QueryLength + MaxDatagrams)
    BY <1>0, <2>1, DnsAssumption DEF DnsAssumption
  <2>3. DnsTypeOK'
    BY <2>1, <2>2 DEF DnsTypeOK
  <2>4. LookupInv'
    BY <2>1 DEF LookupInv, Opened
  <2>5. AnswersInv'
    BY <2>1 DEF AnswersInv, Opened
  <2> QED  BY <2>3, <2>4, <2>5
<1>3. CASE WaitOn
  <2>1. /\ dns = "check" /\ dns' = "poll"
        /\ UNCHANGED <<ticks, retryCount, length, port, dnsPort, dnsRx, network,
                       dnsResult, dnsAnswer, queries, elapsed>>
    BY <1>3 DEF WaitOn
  <2>2. DnsTypeOK'
    BY <2>1 DEF DnsTypeOK
  <2>3. LookupInv'
    BY <2>1 DEF LookupInv, Opened
  <2>4. AnswersInv'
    BY <2>1 DEF AnswersInv, Opened
  <2> QED  BY <2>2, <2>3, <2>4
<1>4. CASE Retry
  <2>1. /\ dns = "check" /\ dns' = "send" /\ ticks >= WaitTime
        /\ retryCount < MaxRetry /\ ticks' = 0 /\ retryCount' = retryCount + 1
        /\ UNCHANGED <<length, port, dnsPort, dnsRx, network, dnsResult,
                       dnsAnswer, queries, elapsed>>
    BY <1>4 DEF Retry, RetriesLeft
  <2>2. retryCount' \in 0..MaxRetry /\ ticks' \in 0..WaitTime /\ ticks = WaitTime
    BY <1>0, <2>1, DnsAssumption DEF DnsAssumption
  <2>3. elapsed = retryCount * WaitTime + WaitTime /\ queries <= retryCount + 1
        /\ Opened(dnsPort, 0) /\ dnsAnswer = NoAnswer
    BY <2>1, <2>2 DEF LookupInv
  <2>4. elapsed' = retryCount' * WaitTime + ticks'
    BY <1>0, <2>1, <2>3, WaitsAddUp, DnsAssumption DEF DnsAssumption
  <2>5. DnsTypeOK'
    BY <2>1, <2>2 DEF DnsTypeOK
  <2>6. queries' <= retryCount' /\ queries' <= retryCount' + 1
    BY <1>0, <2>1, <2>3
  <2>7. LookupInv'
    BY <2>1, <2>3, <2>4, <2>6 DEF LookupInv, Opened
  <2>8. AnswersInv'
    BY <2>1 DEF AnswersInv, Opened
  <2> QED  BY <2>5, <2>7, <2>8
<1>5. CASE GiveUp
  <2>1. /\ EndLookup(0) /\ ticks' \in 0..WaitTime /\ retryCount' \in 0..MaxRetry
        /\ dnsAnswer' \in Answer \union {NoAnswer} /\ UNCHANGED <<port, network>>
    BY <1>5, DnsAssumption DEF GiveUp, DnsTypeOK, DnsAssumption
  <2> QED  BY <2>1, EndKeepsDns
<1>6. CASE ReceiveAnswer
  <2> DEFINE result == Parsed(Head(dnsRx).kind)
  <2>1. result \in {-1, 0, 1} /\ dnsAnswer' \in Answer \union {NoAnswer}
    BY <1>6, ReceivedAnswer
  <2>2. /\ EndLookup(result) /\ UNCHANGED <<ticks, retryCount, port, network>>
    BY <1>6 DEF ReceiveAnswer
  <2> HIDE DEF result
  <2> QED  BY <1>0, <2>1, <2>2, EndKeepsDns
<1> QED  BY <1>1, <1>2, <1>3, <1>4, <1>5, <1>6 DEF DnsStep

-----------------------------------------------------------------------------
(* The check.  The steps of the task beside the lookup, of the server and of *)
(* the chip leave the lookup alone.                                          *)
Quiet == \/ Server \/ Chip
         \/ Connect \/ Connecting \/ Send
         \/ ReadSize \/ ReadByte \/ ReadByteFails \/ ReadState
         \/ Disconnect \/ Disconnecting \/ Close \/ Record

LEMMA QuietSteps ==
    ASSUME Quiet
    PROVE  UNCHANGED dnsVars
<1>1. CASE Server
  BY <1>1 DEF Server, ServerSends, ServerCloses, ServerResets
<1>2. CASE Chip
  BY <1>2 DEF Chip, ConnectionAnswered, DisconnectEnds
<1>3. CASE Connect \/ Connecting \/ Send
  BY <1>3 DEF Connect, Connecting, Send
<1>4. CASE ReadSize \/ ReadByte \/ ReadByteFails \/ ReadState
  BY <1>4 DEF ReadSize, ReadByte, ReadByteFails, ReadState
<1>5. CASE Disconnect \/ Disconnecting \/ Close \/ Record
  BY <1>5 DEF Disconnect, Disconnecting, Close, Record
<1> QED  BY <1>1, <1>2, <1>3, <1>4, <1>5 DEF Quiet

(* What an opened socket, or one that could not be opened, leaves behind. *)
Opens == /\ phase' = "connect" /\ status' = "INIT" /\ timedOut' = FALSE
         /\ received' = 0 /\ reply' \in Replies
         /\ UNCHANGED <<sent, asked, aborted, error>>

OpenFails == /\ phase' = "record" /\ error' = "SOCKET"
             /\ status' = "CLOSED" /\ timedOut' = FALSE /\ received' = 0
             /\ UNCHANGED serverVars

LEMMA OpenSocketSteps ==
    ASSUME DnsInv, SocketInv, OpenSocket
    PROVE  /\ DnsInv'
           /\ phase = "open" /\ dns = "idle" /\ dns' = "idle"
           /\ Opens \/ OpenFails
           /\ UNCHANGED <<address, statusCode, readVars, snapshot, historyVars,
                          dnsAnswer>>
<1>1. /\ phase = "open" /\ dns = "idle" /\ dns' = "idle"
      /\ UNCHANGED <<address, statusCode, readVars, snapshot, historyVars, dns,
                     ticks, retryCount, length, dnsPort, dnsRx, dnsResult,
                     dnsAnswer, queries, elapsed>>
  BY DEF OpenSocket, At, SocketInv
<1>2. CASE Opens /\ port' = NextPort(port) /\ network' = Older(network)
  <2>1. DnsInv'
    BY <1>1, <1>2, OpenKeepsDns
  <2> QED  BY <1>1, <1>2, <2>1
<1>3. CASE OpenFails /\ UNCHANGED <<port, network>>
  <2>1. UNCHANGED dnsVars
    BY <1>1, <1>3 DEF dnsVars
  <2> QED  BY <1>1, <1>3, <2>1, DnsUnchanged
<1>4. \/ Opens /\ port' = NextPort(port) /\ network' = Older(network)
      \/ OpenFails /\ UNCHANGED <<port, network>>
  BY DEF OpenSocket, Opens, OpenFails, CloseSocket
<1> QED  BY <1>2, <1>3, <1>4

LEMMA DnsInvStep ==
    ASSUME DnsInv, SocketInv, [Next]_vars
    PROVE  DnsInv'
<1>1. CASE Quiet \/ UNCHANGED vars
  BY <1>1, QuietSteps, DnsUnchanged DEF vars
<1>2. CASE Network
  BY <1>2, NetworkKeepsDns DEF Network
<1>3. CASE Second
  BY <1>3, SecondKeepsDns DEF Second
<1>4. CASE StartCheck
  BY <1>4, BeginLookupKeepsDns DEF StartCheck
<1>5. CASE Lookup
  BY <1>5, DnsStepKeepsDns DEF Lookup
<1>6. CASE OpenSocket
  BY <1>6, OpenSocketSteps
<1> QED  BY <1>1, <1>2, <1>3, <1>4, <1>5, <1>6 DEF Next, Task, Quiet

(* How a lookup goes on or ends, for the check. *)
LEMMA LookupSteps ==
    ASSUME DnsInv, SocketInv, OutcomeInv, Lookup
    PROVE  /\ phase = "lookup" /\ error = "NONE" /\ dns # "idle"
           /\ UNCHANGED <<statusCode, readVars, chipVars, serverVars, snapshot,
                          historyVars>>
           /\ address' \in {address, "host"}
           /\ address' = "host" => /\ dnsAnswer'.kind = "address"
                                   /\ dnsAnswer'.age = 0
           /\ \/ dns' # "idle" /\ phase' = "lookup" /\ error' = "NONE"
              \/ dns' = "idle" /\ phase' = "open" /\ error' = "NONE"
              \/ dns' = "idle" /\ phase' = "record" /\ error' = "DNS"
<1>1. /\ phase = "lookup" /\ error = "NONE" /\ dns # "idle"
      /\ UNCHANGED <<statusCode, readVars, chipVars, serverVars, snapshot,
                     historyVars>>
  BY DEF Lookup, At, SocketInv, OutcomeInv, BeforeOpen
<1>2. /\ address' = IF dns' = "idle" /\ dnsAnswer'.kind = "address"
                        THEN "host" ELSE address
      /\ IF dns' # "idle" THEN UNCHANGED <<phase, error>>
           ELSE IF dnsResult' = 1 THEN phase' = "open" /\ UNCHANGED error
           ELSE phase' = "record" /\ error' = "DNS"
  BY DEF Lookup
<1>3. dnsAnswer = NoAnswer /\ address # "host"
  <2>1. dnsAnswer = NoAnswer
    BY <1>1 DEF DnsInv, LookupInv
  <2> QED  BY <2>1 DEF NoAnswer, OutcomeInv
<1>4. dnsAnswer' = NoAnswer \/ dnsAnswer'.age = 0
  <2>1. CASE ReceiveAnswer
    BY <2>1, ReceivedAnswer
  <2>2. CASE ~ReceiveAnswer
    <3>1. UNCHANGED dnsAnswer
      BY <2>2 DEF Lookup, DnsStep, SendQuery, PollSocket, WaitOn, Retry, GiveUp
    <3> QED  BY <1>3, <3>1
  <2> QED  BY <2>1, <2>2
<1>5. address' = "host" => dnsAnswer'.kind = "address" /\ dnsAnswer'.age = 0
  <2> SUFFICES ASSUME address' = "host"
               PROVE  dnsAnswer'.kind = "address" /\ dnsAnswer'.age = 0
    OBVIOUS
  <2>1. dnsAnswer'.kind = "address"
    BY <1>2, <1>3
  <2> QED  BY <1>4, <2>1 DEF NoAnswer
<1> QED  BY <1>1, <1>2, <1>5

(* The steps of a check that only end it: nothing but the outcome and the *)
(* socket changes.                                                        *)
LEMMA TypesStep ==
    ASSUME TypeOK, DnsInv, SocketInv, LineInv, OutcomeInv, [Next]_vars
    PROVE  TypeOK'
<1>0. /\ DnsTypeOK'
      /\ received \in Nat /\ sent \in Nat /\ received <= sent /\ sent <= reply.size
      /\ reply \in [size : Nat \ {0}, code : Nat, wellFormed : BOOLEAN]
      /\ reply.size \in Nat /\ reply.code \in Codes
      /\ lineLength \in Nat /\ waited \in Nat /\ ResponseTime \in Nat
      /\ 0 \in 0..(LineSize - 1) /\ 0 \in 0..ResponseTime /\ 0 \in Codes
      /\ 0 \in 0..(FailureLimit + 1) /\ LineSize \in Nat
      /\ 0 \in 0..sent /\ FALSE \in BOOLEAN
  BY DnsInvStep, HttpAssumption DEF DnsInv, TypeOK, HttpAssumption, Codes
<1>u. CASE UNCHANGED httpVars
  BY <1>0, <1>u DEF TypeOK, httpVars, localVars, readVars, chipVars, serverVars,
     historyVars
<1>1. CASE ServerSends
  <2>1. PICK n \in 1..(reply.size - sent) : /\ sent' = sent + n
                                            /\ received' = received + n
    BY <1>1 DEF ServerSends
  <2>2. received' \in 0..sent' /\ sent' \in 0..reply.size
    BY <1>0, <2>1
  <2> QED  BY <1>0, <1>1, <2>2 DEF ServerSends, TypeOK, localVars, readVars,
              historyVars
<1>2. CASE ServerCloses \/ ServerResets
  BY <1>0, <1>2 DEF ServerCloses, ServerResets, TypeOK, localVars, readVars,
     serverVars, historyVars, Open
<1>3. CASE Chip
  BY <1>0, <1>3 DEF Chip, ConnectionAnswered, DisconnectEnds, TypeOK, localVars,
     readVars, serverVars, historyVars, Open
<1>4. CASE Second
  <2>1. waited' \in 0..ResponseTime
    BY <1>0, <1>4 DEF Second, TypeOK
  <2> QED  BY <1>0, <1>4, <2>1 DEF Second, TypeOK, localVars, chipVars,
              serverVars, historyVars
<1>5. CASE StartCheck
  BY <1>0, <1>5 DEF StartCheck, TypeOK, readVars, chipVars, serverVars,
     historyVars, Errors
<1>6. CASE Lookup
  BY <1>0, <1>6, LookupSteps DEF TypeOK, readVars, chipVars, serverVars,
     historyVars, Errors
<1>7. CASE OpenSocket
  <2>1. /\ DnsInv'
        /\ UNCHANGED <<address, statusCode, readVars, snapshot, historyVars>>
    BY <1>7, OpenSocketSteps
  <2>2. CASE Opens
    <3>1. sent = 0
      BY <1>7 DEF LineInv, OpenSocket, At, Reading, Ending
    <3>2. reply' \in Replies /\ reply'.size \in Nat
      BY <2>2, HttpAssumption DEF Opens, HttpAssumption
    <3>3. received' \in 0..sent' /\ sent' \in 0..reply'.size
      BY <2>2, <3>1, <3>2 DEF Opens
    <3> QED  BY <1>0, <2>1, <2>2, <3>2, <3>3 DEF TypeOK, Opens, readVars,
                historyVars
  <2>3. CASE OpenFails
    BY <1>0, <2>1, <2>3 DEF TypeOK, OpenFails, readVars, historyVars,
       serverVars, Errors
  <2> QED  BY <1>7, <2>2, <2>3, OpenSocketSteps
<1>8. CASE Connect
  BY <1>0, <1>8 DEF Connect, ConnectFails, Fail, CloseSocket, TypeOK, readVars,
     serverVars, historyVars, Errors
<1>9. CASE Connecting
  BY <1>0, <1>9 DEF Connecting, ConnectFails, Fail, CloseSocket, TypeOK,
     readVars, chipVars, serverVars, historyVars, Errors
<1>10. CASE Send
  BY <1>0, <1>10 DEF Send, Fail, CloseSocket, TypeOK, chipVars, historyVars,
     Errors, Reading
<1>11. CASE ReadSize
  BY <1>0, <1>11 DEF ReadSize, EndRead, TypeOK, readVars, chipVars, serverVars,
     historyVars, Errors, Reading
<1>12. CASE ReadByte
  <2>1. received' \in 0..sent
    BY <1>0, <1>12 DEF ReadByte, LineInv, At
  <2>2. lineLength' \in 0..(LineSize - 1)
    BY <1>0, <1>12 DEF ReadByte, LineFull, EndRead, TypeOK
  <2>3. phase' \in {"size", "disconnect"} /\ error' \in Errors
        /\ statusCode' \in Codes
    BY <1>0, <1>12 DEF ReadByte, LineFull, EndRead, TypeOK, Errors
  <2> QED  BY <1>0, <1>12, <2>1, <2>2, <2>3 DEF ReadByte, TypeOK, serverVars,
              historyVars, Reading
<1>13. CASE ReadByteFails
  BY <1>0, <1>13 DEF ReadByteFails, CloseSocket, EndRead, TypeOK, readVars,
     serverVars, historyVars, Errors
<1>14. CASE ReadState
  <2>1. overtaken' \in BOOLEAN
    <3>1. (received > 0) \in BOOLEAN /\ overtaken \in BOOLEAN
      BY DEF TypeOK
    <3>2. overtaken' = (received > 0) \/ overtaken' = overtaken
      BY <1>14, Zenon DEF ReadState
    <3> QED  BY <3>1, <3>2, Zenon
  <2>2. phase' \in {"size", "disconnect"} /\ error' \in Errors
        /\ statusCode' = statusCode
    BY <1>14 DEF ReadState, EndRead, TypeOK, Errors
  <2> QED  BY <1>0, <1>14, <2>1, <2>2 DEF ReadState, TypeOK, readVars, chipVars,
              serverVars, Reading
<1>15. CASE Disconnect \/ Disconnecting
  BY <1>0, <1>15 DEF Disconnect, Disconnecting, TypeOK, localVars, readVars,
     chipVars, serverVars, historyVars
<1>16. CASE Close
  BY <1>0, <1>16 DEF Close, CloseSocket, Judged, TypeOK, readVars, serverVars,
     historyVars, Errors
<1>17. CASE Record
  <2>1. trueFailures' \in 0..(FailureLimit + 1)
    BY <1>0, <1>17, HttpAssumption DEF Record, TypeOK, HttpAssumption
  <2>2. snapshot' \in [state : {"INITIALIZING", "AVAILABLE", "DEGRADED",
                                "UNAVAILABLE"},
                       consecutiveFailures : 0..FailureLimit]
    <3>1. snapshot.consecutiveFailures \in 0..FailureLimit
      BY DEF TypeOK
    <3>2. FailuresAfter \in 0..FailureLimit
      BY <3>1, HttpAssumption DEF FailuresAfter, HttpAssumption
    <3>3. 0 \in 0..FailureLimit
      BY HttpAssumption DEF HttpAssumption
    <3> QED  BY <1>17, <3>2, <3>3 DEF Record, Recorded
  <2>3. /\ received' = received /\ UNCHANGED <<status, timedOut, reply>>
        /\ received = 0
        /\ phase' = "delay" /\ address' = "zero" /\ statusCode' = 0
        /\ error' = "NONE" /\ lineLength' = 0 /\ waited' = 0 /\ sent' = 0
        /\ asked' = FALSE /\ aborted' = FALSE /\ overtaken' = FALSE
    BY <1>17 DEF Record, chipVars, At, SocketInv
  <2>4. received' \in 0..sent' /\ sent' \in 0..reply'.size
    BY <1>0, <2>3
  <2> QED  BY <1>0, <2>1, <2>2, <2>3, <2>4 DEF TypeOK, Errors
<1> QED  BY <1>u, <1>1, <1>2, <1>3, <1>4, <1>5, <1>6, <1>7, <1>8, <1>9, <1>10,
            <1>11, <1>12, <1>13, <1>14, <1>15, <1>16, <1>17
         DEF Next, Task, Server, Network, vars

(* The socket, phase by phase.  The status ESTABLISHED is reached only from *)
(* SYNSENT, and the task leaves it only with DISCON or by closing.          *)
LEMMA SocketStep ==
    ASSUME TypeOK, DnsInv, SocketInv, LineInv, OutcomeInv, [Next]_vars
    PROVE  SocketInv'
<1> USE DEF Reading, Open, BeforeOpen, Ending
<1>u. CASE UNCHANGED <<httpVars, dns>>
  BY <1>u DEF SocketInv, httpVars, chipVars, serverVars
<1>n. CASE Network
  <2>1. UNCHANGED dns
    BY <1>n DEF Network, DnsNetwork, ServerAnswers, LoseAnswer, DeliverAnswer
  <2> QED  BY <1>n, <1>u, <2>1 DEF Network
<1>1. CASE Server
  <2>1. UNCHANGED <<phase, dns>>
    BY <1>1 DEF Server, ServerSends, ServerCloses, ServerResets, dnsVars
  <2> QED  BY <1>1, <2>1 DEF Server, ServerSends, ServerCloses, ServerResets,
              SocketInv, serverVars
<1>2. CASE Chip
  <2>1. UNCHANGED <<phase, dns, received, aborted>>
    BY <1>2 DEF Chip, ConnectionAnswered, DisconnectEnds, dnsVars, serverVars
  <2> QED  BY <1>2, <2>1 DEF Chip, ConnectionAnswered, DisconnectEnds, SocketInv
<1>3. CASE Second
  <2>1. UNCHANGED <<phase, dns, chipVars, aborted>>
    BY <1>3 DEF Second, DNS_time_handler, serverVars
  <2> QED  BY <2>1 DEF SocketInv, chipVars
<1>4. CASE StartCheck
  BY <1>4 DEF StartCheck, At, BeginLookup, SocketInv, chipVars
<1>5. CASE Lookup
  BY <1>5, LookupSteps DEF SocketInv, chipVars
<1>6. CASE OpenSocket
  BY <1>6, OpenSocketSteps DEF SocketInv, Opens, OpenFails
<1>7. CASE Connect
  BY <1>7 DEF Connect, At, ConnectFails, Fail, CloseSocket, SocketInv, dnsVars
<1>8. CASE Connecting
  BY <1>8 DEF Connecting, At, ConnectFails, Fail, CloseSocket, SocketInv,
     chipVars, dnsVars
<1>9. CASE Send
  BY <1>9 DEF Send, At, Fail, CloseSocket, SocketInv, chipVars, dnsVars
<1>10. CASE ReadSize
  BY <1>10 DEF ReadSize, At, EndRead, SocketInv, chipVars, serverVars, dnsVars
<1>11. CASE ReadByte
  BY <1>11 DEF ReadByte, At, EndRead, SocketInv, serverVars, dnsVars
<1>12. CASE ReadByteFails
  BY <1>12 DEF ReadByteFails, At, CloseSocket, EndRead, SocketInv, serverVars,
     dnsVars
<1>13. CASE ReadState
  BY <1>13 DEF ReadState, At, EndRead, SocketInv, chipVars, serverVars, dnsVars
<1>14. CASE Disconnect
  BY <1>14 DEF Disconnect, At, SocketInv, dnsVars
<1>15. CASE Disconnecting
  BY <1>15 DEF Disconnecting, At, SocketInv, chipVars, dnsVars
<1>16. CASE Close
  BY <1>16 DEF Close, At, CloseSocket, SocketInv, dnsVars
<1>17. CASE Record
  BY <1>17 DEF Record, At, SocketInv, chipVars, dnsVars
<1> QED  BY <1>u, <1>n, <1>1, <1>2, <1>3, <1>4, <1>5, <1>6, <1>7, <1>8, <1>9,
            <1>10, <1>11, <1>12, <1>13, <1>14, <1>15, <1>16, <1>17
         DEF Next, Task, vars, dnsVars

(* The bytes: what the server sends goes into the chip, and one byte after *)
(* the other from there into the line.                                     *)
LEMMA LineStep ==
    ASSUME TypeOK, DnsInv, SocketInv, LineInv, OutcomeInv, [Next]_vars
    PROVE  LineInv'
<1> USE DEF Reading, Ending
<1>0. received \in Nat /\ sent \in Nat /\ lineLength \in Nat
      /\ reply.size \in Nat \ {0} /\ sent <= reply.size /\ asked \in BOOLEAN
  BY HttpAssumption DEF TypeOK, HttpAssumption
<1>u. CASE UNCHANGED httpVars
  BY <1>u DEF LineInv, httpVars, readVars, chipVars, serverVars
<1>1. CASE ServerSends
  <2>1. PICK n \in 1..(reply.size - sent) : /\ sent' = sent + n
                                            /\ received' = received + n
    BY <1>1 DEF ServerSends
  <2>2. asked /\ UNCHANGED <<phase, lineLength, reply, asked>>
    BY <1>1 DEF ServerSends, readVars
  <2> QED  BY <1>0, <2>1, <2>2 DEF LineInv
<1>2. CASE ServerCloses \/ ServerResets \/ Chip
  <2>1. UNCHANGED <<phase, lineLength, received, reply, sent, asked>>
    BY <1>2 DEF ServerCloses, ServerResets, Chip, ConnectionAnswered,
       DisconnectEnds, readVars, serverVars
  <2> QED  BY <2>1 DEF LineInv
<1>3. CASE Second
  <2>1. UNCHANGED <<phase, lineLength, received, reply, sent, asked>>
    BY <1>3 DEF Second, chipVars, serverVars
  <2> QED  BY <2>1 DEF LineInv
<1>4. CASE StartCheck
  BY <1>4 DEF StartCheck, At, LineInv, readVars, chipVars, serverVars
<1>5. CASE Lookup
  BY <1>5, LookupSteps DEF LineInv, readVars, chipVars, serverVars
<1>6. CASE OpenSocket
  <2>1. phase = "open" /\ (Opens \/ OpenFails)
    BY <1>6, OpenSocketSteps
  <2>2. phase' \in {"connect", "record"} /\ UNCHANGED <<sent, asked>>
    BY <2>1 DEF Opens, OpenFails, serverVars
  <2> QED  BY <2>1, <2>2 DEF LineInv
<1>7. CASE Connect \/ Connecting
  BY <1>7 DEF Connect, Connecting, At, ConnectFails, Fail, LineInv, serverVars
<1>8. CASE Send
  <2>1. sent = 0 /\ received = 0
    BY <1>0, <1>8 DEF Send, At, LineInv, TypeOK
  <2> QED  BY <1>0, <1>8, <2>1 DEF Send, At, Fail, CloseSocket, LineInv, chipVars
<1>9. CASE ReadSize
  BY <1>9 DEF ReadSize, At, EndRead, LineInv, readVars, chipVars, serverVars
<1>10. CASE ReadByte
  <2>1. /\ asked /\ lineLength + received = sent /\ received > 0
        /\ lineLength < reply.size /\ UNCHANGED <<reply, sent, asked>>
        /\ received' = received - 1
    BY <1>10 DEF ReadByte, At, LineInv, serverVars
  <2>2. \/ phase' = "disconnect"
        \/ /\ phase' = "size" /\ lineLength' = lineLength + 1
           /\ lineLength + 1 < reply.size
    BY <1>10 DEF ReadByte, EndRead
  <2> QED  BY <1>0, <2>1, <2>2 DEF LineInv
<1>11. CASE ReadByteFails \/ ReadState
  BY <1>11 DEF ReadByteFails, ReadState, At, EndRead, LineInv, readVars,
     chipVars, serverVars
<1>12. CASE Disconnect \/ Disconnecting \/ Close
  BY <1>12 DEF Disconnect, Disconnecting, Close, At, LineInv, serverVars
<1>13. CASE Record
  BY <1>13 DEF Record, LineInv
<1> QED  BY <1>u, <1>1, <1>2, <1>3, <1>4, <1>5, <1>6, <1>7, <1>8, <1>9, <1>10,
            <1>11, <1>12, <1>13
         DEF Next, Task, Network, Server, vars

(* A whole line stays whole, and an excuse an excuse, once the answer is read. *)
LEMMA OutcomeStays ==
    ASSUME TypeOK, SocketInv, Server \/ Chip,
           phase \in Ending \union {"record"}
    PROVE  /\ UNCHANGED <<phase, address, statusCode, error, reply, asked>>
           /\ Good => Good'
           /\ Excused => Excused'
<1>0. /\ sent \in Nat /\ reply.size \in Nat /\ status # "SYNSENT"
      /\ aborted \in BOOLEAN /\ reply.wellFormed \in BOOLEAN
  BY HttpAssumption DEF TypeOK, HttpAssumption, SocketInv, BeforeOpen, Ending, Open
<1>1. CASE ServerSends
  <2>1. /\ UNCHANGED <<phase, address, statusCode, error, reply, asked, aborted,
                       overtaken>>
        /\ status = "ESTABLISHED" /\ sent < reply.size
    BY <1>1 DEF ServerSends, localVars, historyVars
  <2> QED  BY <1>0, <2>1 DEF Good, Whole, Excused
<1>2. CASE ServerCloses \/ ServerResets \/ Chip
  <2>1. /\ UNCHANGED <<phase, address, statusCode, error, reply, asked, sent,
                       overtaken>>
        /\ status' # "ESTABLISHED"
        /\ aborted => aborted'
    BY <1>0, <1>2 DEF ServerCloses, ServerResets, Chip, ConnectionAnswered,
       DisconnectEnds, localVars, serverVars, historyVars
  <2> QED  BY <1>0, <2>1 DEF Good, Whole, Excused
<1> QED  BY <1>1, <1>2 DEF Server

(* The outcome.  What a look at the chip decides is decided by LineInv and  *)
(* SocketInv: a line that ends is whole, and one that does not end was cut  *)
(* off by a reset, by an end that overtook it, or before it was sent.       *)
LEMMA OutcomeStep ==
    ASSUME TypeOK, DnsInv, SocketInv, LineInv, OutcomeInv, [Next]_vars
    PROVE  OutcomeInv'
<1> USE DEF Reading, Ending, BeforeOpen
<1>0. /\ received \in Nat /\ sent \in Nat /\ lineLength \in Nat
      /\ reply.size \in Nat \ {0} /\ sent <= reply.size /\ asked \in BOOLEAN
      /\ reply.wellFormed \in BOOLEAN /\ LineSize \in Nat \ {0}
      /\ lineLength <= LineSize - 1
  BY HttpAssumption DEF TypeOK, HttpAssumption
<1>u. CASE UNCHANGED <<httpVars, dnsAnswer>>
  BY <1>u DEF OutcomeInv, Good, Whole, Excused, httpVars, localVars, chipVars,
     serverVars, historyVars
<1>n. CASE Network
  <2>1. UNCHANGED dnsAnswer
    BY <1>n DEF Network, DnsNetwork, ServerAnswers, LoseAnswer, DeliverAnswer
  <2> QED  BY <1>n, <1>u, <2>1 DEF Network
<1>1. CASE Server \/ Chip
  <2>1. UNCHANGED <<phase, address, statusCode, error, reply, asked, dnsAnswer>>
    BY <1>1 DEF Server, Chip, ServerSends, ServerCloses, ServerResets,
       ConnectionAnswered, DisconnectEnds, localVars, serverVars, dnsVars
  <2>2. phase \in Ending \union {"record"} =>
            (Good => Good') /\ (Excused => Excused')
    BY <1>1, OutcomeStays
  <2> HIDE DEF Reading, Ending, BeforeOpen
  <2> QED  BY <2>1, <2>2 DEF OutcomeInv, Ending
<1>3. CASE Second
  <2>1. UNCHANGED <<phase, localVars, chipVars, serverVars, historyVars, dnsAnswer>>
    BY <1>3 DEF Second, DNS_time_handler
  <2> QED  BY <2>1 DEF OutcomeInv, Good, Whole, Excused, localVars, chipVars,
              serverVars, historyVars
<1>4. CASE StartCheck
  BY <1>4 DEF StartCheck, OutcomeInv
<1>5. CASE Lookup
  <2>1. ~asked /\ ~asked'
    BY <1>5, LookupSteps DEF LineInv, serverVars
  <2> QED  BY <1>5, <2>1, LookupSteps DEF OutcomeInv
<1>6. CASE OpenSocket
  <2>1. /\ phase = "open" /\ error = "NONE" /\ ~asked
        /\ UNCHANGED <<address, dnsAnswer>> /\ (Opens \/ OpenFails)
    BY <1>6, OpenSocketSteps DEF OutcomeInv, LineInv
  <2>2. \/ phase' = "connect" /\ error' = "NONE"
        \/ phase' = "record" /\ error' = "SOCKET" /\ ~asked'
    BY <2>1 DEF Opens, OpenFails, serverVars
  <2> QED  BY <2>1, <2>2 DEF OutcomeInv
<1>7. CASE Connect
  <2>1. /\ phase = "connect" /\ error = "NONE" /\ ~asked
        /\ UNCHANGED <<address, dnsAnswer, asked>>
    BY <1>7 DEF Connect, At, OutcomeInv, LineInv, serverVars, dnsVars
  <2>2. \/ phase' = "connecting" /\ error' = "NONE" /\ address = "host"
        \/ phase' = "record" /\ error' = "CONNECT"
    BY <1>7, <2>1 DEF Connect, ConnectFails, Fail, TypeOK
  <2> QED  BY <2>1, <2>2 DEF OutcomeInv
<1>8. CASE Connecting
  <2>1. /\ phase = "connecting" /\ error = "NONE" /\ ~asked /\ address = "host"
        /\ UNCHANGED <<address, dnsAnswer, asked>>
    BY <1>8 DEF Connecting, At, OutcomeInv, LineInv, serverVars, dnsVars
  <2>2. \/ phase' = "send" /\ error' = "NONE"
        \/ phase' = "record" /\ error' = "CONNECT"
    BY <1>8, <2>1 DEF Connecting, ConnectFails, Fail
  <2> QED  BY <2>1, <2>2 DEF OutcomeInv
<1>9. CASE Send
  <2>1. /\ phase = "send" /\ error = "NONE" /\ ~asked /\ address = "host"
        /\ UNCHANGED <<address, dnsAnswer>>
    BY <1>9 DEF Send, At, OutcomeInv, LineInv, dnsVars
  <2>2. \/ phase' = "size" /\ error' = "NONE"
        \/ phase' = "record" /\ error' = "SEND" /\ ~asked'
    BY <1>9, <2>1 DEF Send, Fail
  <2> QED  BY <2>1, <2>2 DEF OutcomeInv
<1>10. CASE ReadSize
  <2>1. /\ phase = "size" /\ error = "NONE" /\ address = "host"
        /\ UNCHANGED <<address, dnsAnswer>>
    BY <1>10 DEF ReadSize, At, OutcomeInv, dnsVars
  <2>2. \/ phase' \in {"byte", "state"} /\ error' = "NONE"
        \/ phase' = "disconnect" /\ error' = "TIMEOUT"
    BY <1>10, <2>1 DEF ReadSize, EndRead
  <2> QED  BY <2>1, <2>2 DEF OutcomeInv
<1>11. CASE ReadByte
  <2>1. /\ phase = "byte" /\ error = "NONE" /\ address = "host" /\ asked
        /\ lineLength + received = sent /\ received > 0 /\ lineLength < reply.size
        /\ UNCHANGED <<address, dnsAnswer, reply, sent, asked, aborted, overtaken>>
    BY <1>11 DEF ReadByte, At, OutcomeInv, LineInv, serverVars, historyVars, dnsVars
  <2>2. \/ phase' = "size" /\ error' = "NONE"
        \/ /\ phase' = "disconnect" /\ error' = "NONE" /\ statusCode' = reply.code
           /\ ~(lineLength >= LineSize - 1) /\ ~(lineLength + 1 < reply.size)
           /\ reply.wellFormed
        \/ /\ phase' = "disconnect" /\ error' = "RESPONSE"
           /\ \/ lineLength >= LineSize - 1
              \/ ~reply.wellFormed
    BY <1>11, <2>1 DEF ReadByte, LineFull, EndRead
  <2>3. phase' = "disconnect" /\ error' = "NONE" =>
            Good' /\ statusCode' = reply'.code
    BY <1>0, <2>1, <2>2 DEF Good, Whole
  <2>4. error' = "RESPONSE" => Excused'
    BY <1>0, <2>1, <2>2 DEF Excused
  <2> QED  BY <2>1, <2>2, <2>3, <2>4 DEF OutcomeInv
<1>12. CASE ReadByteFails
  <2>1. /\ phase = "byte" /\ address = "host" /\ UNCHANGED <<address, dnsAnswer, aborted>>
        /\ phase' = "disconnect" /\ error' = "RESPONSE" /\ status \notin Open
    BY <1>12 DEF ReadByteFails, At, EndRead, OutcomeInv, serverVars, dnsVars
  <2>2. aborted
    BY <2>1 DEF SocketInv
  <2>3. Excused'
    BY <2>1, <2>2 DEF Excused
  <2> QED  BY <2>1, <2>3 DEF OutcomeInv
<1>13. CASE ReadState
  <2>1. /\ phase = "state" /\ address = "host" /\ error = "NONE"
        /\ lineLength + received = sent /\ lineLength < reply.size
        /\ UNCHANGED <<address, dnsAnswer, reply, sent, status, aborted>>
    BY <1>13 DEF ReadState, At, OutcomeInv, LineInv, serverVars, chipVars, dnsVars
  <2>2. \/ phase' = "size" /\ error' = "NONE"
        \/ /\ phase' = "disconnect" /\ error' = "RESPONSE"
           /\ status \in {"CLOSED", "CLOSE_WAIT"} /\ overtaken' = (received > 0)
    BY <1>13, <2>1 DEF ReadState, EndRead
  <2>3. error' = "RESPONSE" => Excused'
    <3>1. received > 0 \/ sent < reply.size
      BY <1>0, <2>1
    <3> QED  BY <2>1, <2>2, <3>1 DEF Excused
  <2> QED  BY <2>1, <2>2, <2>3 DEF OutcomeInv
<1>14. CASE Disconnect
  <2>1. /\ phase = "disconnect" /\ phase' \in {"close", "disconnecting"}
        /\ UNCHANGED <<localVars, serverVars, historyVars, dnsAnswer>>
        /\ status' # "ESTABLISHED"
    BY <1>14 DEF Disconnect, At, dnsVars
  <2> QED  BY <2>1 DEF OutcomeInv, localVars, serverVars, historyVars, Good,
              Whole, Excused
<1>15. CASE Disconnecting
  <2>1. /\ phase = "disconnecting" /\ phase' = "close"
        /\ UNCHANGED <<localVars, serverVars, historyVars, chipVars, dnsAnswer>>
    BY <1>15 DEF Disconnecting, At, dnsVars
  <2> QED  BY <2>1 DEF OutcomeInv, localVars, serverVars, historyVars, chipVars,
              Good, Whole, Excused
<1>16. CASE Close
  <2>1. /\ phase = "close" /\ phase' = "record" /\ error' = Judged
        /\ address = "host" /\ error \in {"NONE", "TIMEOUT", "RESPONSE"}
        /\ UNCHANGED <<address, statusCode, serverVars, historyVars, dnsAnswer>>
        /\ status' = "CLOSED"
    BY <1>16 DEF Close, CloseSocket, At, OutcomeInv, dnsVars
  <2>2. error' \in {"NONE", "STATUS"} => /\ Good'
                                         /\ error' = "NONE" <=> reply'.code = 200
    BY <2>1 DEF Judged, OutcomeInv, Good, Whole, serverVars
  <2>3. error' = "RESPONSE" => Excused'
    BY <2>1 DEF Judged, OutcomeInv, Excused, serverVars, historyVars
  <2>4. error' \in {"NONE", "STATUS", "TIMEOUT", "RESPONSE"}
    BY <2>1 DEF Judged
  <2> QED  BY <2>1, <2>2, <2>3, <2>4 DEF OutcomeInv
<1>17. CASE Record
  BY <1>17 DEF Record, OutcomeInv
<1> QED  BY <1>u, <1>n, <1>1, <1>3, <1>4, <1>5, <1>6, <1>7, <1>8, <1>9, <1>10,
            <1>11, <1>12, <1>13, <1>14, <1>15, <1>16, <1>17
         DEF Next, Task, vars, dnsVars

(* The count.  Only Record changes the snapshot, and it changes the true *)
(* count with it.                                                        *)
LEMMA CountStep ==
    ASSUME TypeOK, DnsInv, SocketInv, OutcomeInv, CountInv, [Next]_vars
    PROVE  CountInv'
<1>0. /\ snapshot.consecutiveFailures \in 0..FailureLimit
      /\ trueFailures \in 0..(FailureLimit + 1)
      /\ FailureLimit \in Nat /\ FailureThreshold \in Nat \ {0}
      /\ FailureThreshold <= FailureLimit
  BY HttpAssumption DEF TypeOK, HttpAssumption
<1>1. CASE Record
  <2>1. CASE error = "NONE"
    <3>1. /\ trueFailures' = 0 /\ snapshot'.state = "AVAILABLE"
          /\ snapshot'.consecutiveFailures = 0
      BY <1>1, <2>1 DEF Record, Recorded
    <3> QED  BY <1>0, <3>1 DEF CountInv, SnapshotFollowsTheChecks
  <2>2. CASE error # "NONE"
    <3>1. /\ trueFailures' = IF trueFailures <= FailureLimit
                                 THEN trueFailures + 1 ELSE trueFailures
          /\ snapshot'.consecutiveFailures = FailuresAfter
          /\ snapshot'.state = IF FailuresAfter >= FailureThreshold
                                   THEN "UNAVAILABLE" ELSE "DEGRADED"
      BY <1>1, <2>2 DEF Record, Recorded
    <3>2. FailuresAfter = IF trueFailures' <= FailureLimit
                              THEN trueFailures' ELSE FailureLimit
      BY <1>0, <3>1 DEF FailuresAfter, CountInv
    <3>3. trueFailures' # 0 /\ trueFailures' \in Nat
      BY <1>0, <3>1
    <3>4. FailuresAfter >= FailureThreshold <=> ~(trueFailures' < FailureThreshold)
      BY <1>0, <3>2, <3>3
    <3> QED  BY <3>1, <3>2, <3>3, <3>4 DEF CountInv, SnapshotFollowsTheChecks
  <2> QED  BY <2>1, <2>2
<1>2. CASE ~Record
  <2>1. UNCHANGED <<snapshot, trueFailures>>
    <3>1. CASE Server \/ Chip
      BY <3>1 DEF Server, Chip, ServerSends, ServerCloses, ServerResets,
         ConnectionAnswered, DisconnectEnds, historyVars
    <3>2. CASE Network \/ Second \/ UNCHANGED vars
      BY <3>2 DEF Network, Second, vars, httpVars, historyVars
    <3>3. CASE StartCheck \/ Connect \/ Connecting \/ Send
      BY <3>3 DEF StartCheck, Connect, Connecting, Send, historyVars
    <3>4. CASE Lookup
      BY <3>4 DEF Lookup, historyVars
    <3>5. CASE OpenSocket
      BY <3>5 DEF OpenSocket, historyVars
    <3>6. CASE ReadSize \/ ReadByte \/ ReadByteFails \/ ReadState
      BY <3>6 DEF ReadSize, ReadByte, ReadByteFails, ReadState, historyVars
    <3>7. CASE Disconnect \/ Disconnecting \/ Close
      BY <3>7 DEF Disconnect, Disconnecting, Close, historyVars
    <3> QED  BY <1>2, <3>1, <3>2, <3>3, <3>4, <3>5, <3>6, <3>7 DEF Next, Task
  <2> QED  BY <2>1 DEF CountInv, SnapshotFollowsTheChecks
<1> QED  BY <1>1, <1>2

-----------------------------------------------------------------------------
LEMMA InitIInv == Init => IInv
<1> SUFFICES ASSUME Init PROVE IInv
  OBVIOUS
<1> USE DEF Init, DnsInit
<1>0. /\ 0 \in 0..WaitTime /\ 0 \in 0..MaxRetry
      /\ 0 \in 0..(QueryLength + MaxDatagrams) /\ 0 \in 0..(Ports - 1)
      /\ NoPort \in 0..Ports /\ 0 <= MaxDatagrams /\ 0 \in 0..(MaxRetry + 1)
      /\ 0 \in 0..((MaxRetry + 1) * WaitTime)
  BY DnsAssumption DEF DnsAssumption, NoPort
<1>1. dnsRx \in Seq(Answer) /\ Len(dnsRx) = 0 /\ dnsRx = <<>>
  BY EmptySeq
<1>2. DnsTypeOK
  BY <1>0, <1>1 DEF DnsTypeOK
<1>3. /\ 0 \in 0..(LineSize - 1) /\ 0 \in 0..ResponseTime /\ 0 \in Codes
      /\ 0 \in 0..(FailureLimit + 1) /\ 0 \in 0..FailureLimit
      /\ reply.size \in Nat /\ 0 \in 0..reply.size /\ 0 \in 0..0
  BY HttpAssumption DEF HttpAssumption, Codes
<1>4. snapshot \in [state : {"INITIALIZING", "AVAILABLE", "DEGRADED",
                             "UNAVAILABLE"},
                    consecutiveFailures : 0..FailureLimit]
  BY <1>3
<1>5. TypeOK
  BY <1>2, <1>3, <1>4 DEF TypeOK, Errors
<1>6. LookupInv
  BY DEF LookupInv
<1>7. AnswersInv
  BY <1>1 DEF AnswersInv
<1>8. SocketInv
  BY DEF SocketInv, Reading, BeforeOpen
<1>9. LineInv
  BY DEF LineInv, Reading
<1>10. OutcomeInv
  BY DEF OutcomeInv, Reading, Ending
<1>11. CountInv
  BY HttpAssumption DEF CountInv, SnapshotFollowsTheChecks, HttpAssumption
<1> QED  BY <1>5, <1>6, <1>7, <1>8, <1>9, <1>10, <1>11 DEF IInv

LEMMA NextIInv == IInv /\ [Next]_vars => IInv'
<1> SUFFICES ASSUME IInv, [Next]_vars PROVE IInv'
  OBVIOUS
<1>1. TypeOK /\ DnsInv /\ SocketInv /\ LineInv /\ OutcomeInv /\ CountInv
  BY DEF IInv, TypeOK, DnsInv
<1>2. DnsInv'
  BY <1>1, DnsInvStep
<1>3. TypeOK'
  BY <1>1, TypesStep
<1>4. SocketInv'
  BY <1>1, SocketStep
<1>5. LineInv'
  BY <1>1, LineStep
<1>6. OutcomeInv'
  BY <1>1, OutcomeStep
<1>7. CountInv'
  BY <1>1, CountStep
<1> QED  BY <1>2, <1>3, <1>4, <1>5, <1>6, <1>7 DEF IInv, DnsInv

(* The inductive invariant of the HTTP monitor and its DNS client, from      *)
(* which the properties below follow (http_monitor_service.c:160-316,        *)
(* dns.c:484-613).                                                           *)
THEOREM HttpInvariant == Spec => []IInv
<1> QED  BY InitIInv, NextIInv, PTL DEF Spec

(* Type correctness of both modules: in particular the line never outgrows   *)
(* its buffer (http_monitor_service.c:225), no more bytes are read than were *)
(* sent, and a lookup never puts more than MAX_DNS_RETRY + 1 queries on the  *)
(* network (dns.c:500-513).                                                  *)
THEOREM HttpTypes == Spec => []TypeOK
<1>1. IInv => TypeOK
  BY DEF IInv
<1> QED  BY <1>1, HttpInvariant, PTL

(* Whatever way a check ends, it leaves neither of its sockets open          *)
(* (http_monitor_service.c:172-191, dns.c:586, 605).                         *)
THEOREM SocketsAreClosed == Spec => []NoSocketIsLeftOpen
<1>1. IInv => NoSocketIsLeftOpen
  BY DEF IInv, SocketInv, BeforeOpen, LookupInv, NoSocketIsLeftOpen
<1> QED  BY <1>1, HttpInvariant, PTL

(* The published state is that of the checks so far, for every threshold and *)
(* every limit of the counter that is not below it                           *)
(* (http_monitor_service.c:301-316).                                         *)
THEOREM SnapshotIsTrue == Spec => []SnapshotFollowsTheChecks
<1>1. IInv => SnapshotFollowsTheChecks
  BY DEF IInv, CountInv
<1> QED  BY <1>1, HttpInvariant, PTL

(* A check that succeeds has the whole line, with code 200, of a server that *)
(* an answer to this lookup's own query named: an answer to an earlier one   *)
(* is at a port that is closed, for every number of ports                    *)
(* (http_monitor_service.c:160-200, dns.c:576, socket.c:329-334).            *)
THEOREM SuccessIsOwn == Spec => []SuccessIsTheServersOwn
<1>1. IInv => SuccessIsTheServersOwn
  BY DEF IInv, OutcomeInv, SuccessIsTheServersOwn, At
<1> QED  BY <1>1, HttpInvariant, PTL

(* A line that arrived whole is what the check is judged by, unless the wait *)
(* was over, the server reset the connection or the end of the connection    *)
(* overtook the line (http_monitor_service.c:215-249).                       *)
THEOREM WholeLineIsJudged == Spec => []WholeLineDecides
<1>1. IInv => WholeLineDecides
  <2> SUFFICES ASSUME IInv, At("record"), Good
               PROVE  \/ error = IF reply.code = 200 THEN "NONE" ELSE "STATUS"
                      \/ error = "TIMEOUT"
                      \/ error = "RESPONSE" /\ (aborted \/ overtaken)
    BY DEF WholeLineDecides
  <2>1. phase = "record" /\ asked /\ sent = reply.size /\ reply.wellFormed
        /\ reply.size < LineSize
    BY DEF At, Good, Whole
  <2>2. error \in Errors /\ reply.size \in Nat /\ LineSize \in Nat
    BY HttpAssumption DEF IInv, TypeOK, HttpAssumption
  <2>3. CASE error \in {"NONE", "STATUS"}
    BY <2>1, <2>3 DEF IInv, OutcomeInv
  <2>4. CASE error = "RESPONSE"
    <3>1. Excused
      BY <2>1, <2>4 DEF IInv, OutcomeInv
    <3> QED  BY <2>1, <2>2, <2>4, <3>1 DEF Excused
  <2>5. error \notin {"DNS", "SOCKET", "CONNECT", "SEND"}
    BY <2>1 DEF IInv, OutcomeInv
  <2> QED  BY <2>2, <2>3, <2>4, <2>5 DEF Errors
<1> QED  BY <1>1, HttpInvariant, PTL

(* Every wait of a lookup is DNS_WAIT_TIME seconds long, for every value of  *)
(* it and of MAX_DNS_RETRY: the counter that is cleared after each of them,  *)
(* and again when the next lookup begins, cuts none short (dns.c:500-513,    *)
(* 532-533).                                                                 *)
THEOREM LookupsWaitLongEnough == Spec => EveryWaitIsWhole
<1>1. IInv /\ [Next]_vars => [dns = "check" /\ dns' \in {"send", "idle"}
                                => elapsed = (retryCount + 1) * WaitTime]_dnsVars
  <2> SUFFICES ASSUME IInv, [Next]_vars, dns = "check", dns' \in {"send", "idle"}
               PROVE  elapsed = (retryCount + 1) * WaitTime
    OBVIOUS
  <2>1. DnsInv
    BY DEF IInv, TypeOK, DnsInv
  <2>2. Retry \/ GiveUp
    <3>1. dns' # dns
      OBVIOUS
    <3>2. CASE Quiet \/ UNCHANGED vars
      BY <3>1, <3>2, QuietSteps DEF vars, dnsVars
    <3>3. CASE Network
      BY <3>1, <3>3 DEF Network, DnsNetwork, ServerAnswers, LoseAnswer,
         DeliverAnswer
    <3>4. CASE Second
      BY <3>1, <3>4 DEF Second, DNS_time_handler
    <3>5. CASE StartCheck
      BY <3>5 DEF StartCheck, BeginLookup
    <3>6. CASE OpenSocket
      BY <3>1, <3>6 DEF OpenSocket
    <3>7. CASE Lookup
      BY <3>7 DEF Lookup, DnsStep, SendQuery, PollSocket, WaitOn, ReceiveAnswer
    <3> QED  BY <3>2, <3>3, <3>4, <3>5, <3>6, <3>7 DEF Next, Task, Quiet
  <2> QED  BY <2>1, <2>2, WaitIsWhole
<1> QED  BY <1>1, HttpInvariant, PTL DEF Spec, EveryWaitIsWhole
=============================================================================
