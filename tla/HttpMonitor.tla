---------------------------- MODULE HttpMonitor -----------------------------
(***************************************************************************)
(* Srv/Src/http_monitor_service.c: one task that checks an HTTP server     *)
(* again and again.  A check resolves the name (module DnsClient), opens   *)
(* socket 4, connects, asks, reads the status line byte by byte, ends the  *)
(* connection and records the result.  The chip and the server act between *)
(* any two looks of the task at the chip; a step is what the code does     *)
(* between two looks.                                                      *)
(*                                                                         *)
(* A reply is its status line: how long it is, the code it carries and     *)
(* whether it is one that ParseStatus takes.  The wait for it is counted   *)
(* in the seconds of the timer task.                                       *)
(***************************************************************************)
EXTENDS DnsClient

CONSTANTS
    Replies,           \* status lines the server may answer with
    LineSize,          \* HTTP_MONITOR_LINE_SIZE
    ResponseTime,      \* HTTP_MONITOR_RESPONSE_MS, in seconds
    FailureThreshold,  \* HTTP_MONITOR_FAILURE_THRESHOLD
    FailureLimit       \* UINT16_MAX

ASSUME HttpAssumption ==
    /\ Replies \subseteq [size : Nat \ {0}, code : Nat, wellFormed : BOOLEAN]
    /\ LineSize \in Nat \ {0}
    /\ ResponseTime \in Nat \ {0}
    /\ FailureThreshold \in Nat \ {0}
    /\ FailureLimit \in Nat
    /\ FailureThreshold <= FailureLimit

VARIABLES
    phase,       \* what the task does next
    address,     \* the resolved address: "zero" or "host"
    statusCode,  \* the local of the same name
    error,       \* the local of the same name
    lineLength,  \* length in ReadStatus
    waited,      \* seconds since ReadStatus started, up to ResponseTime
    status,      \* Sn_SR of the socket
    timedOut,    \* Sn_IR_TIMEOUT
    received,    \* bytes in the chip, not read yet
    reply,       \* the status line of this connection
    sent,        \* bytes of it the server has sent
    asked,       \* the request is on its way to the server
    snapshot,    \* httpMonitorSnapshot
    aborted,     \* history: the server reset the connection
    overtaken,   \* history: bytes and their end came between two looks
    trueFailures \* history: failed checks since the last good one, not limited

localVars == <<address, statusCode, error>>
readVars == <<lineLength, waited>>
chipVars == <<status, timedOut, received>>
serverVars == <<reply, sent, asked, aborted>>
historyVars == <<overtaken, trueFailures>>
httpVars == <<phase, localVars, readVars, chipVars, serverVars, snapshot,
              historyVars>>
vars == <<dnsVars, httpVars>>

Open == {"ESTABLISHED", "CLOSE_WAIT"}
Reading == {"size", "byte", "state"}

(* The status line is there as far as the server is concerned, and it is one *)
(* that fits into the buffer and that ParseStatus takes.                     *)
Whole == asked /\ sent = reply.size
Good == Whole /\ reply.wellFormed /\ reply.size < LineSize

----------------------------------------------------------------------------
(* The server, and what the chip makes of it.                              *)

(* CONNECT ends in a connection, in the chip's own time-out or in a reset. *)
ConnectionAnswered ==
    /\ status = "SYNSENT"
    /\ \/ status' = "ESTABLISHED" /\ UNCHANGED timedOut
       \/ status' = "CLOSED" /\ timedOut' \in BOOLEAN
    /\ UNCHANGED <<phase, localVars, readVars, received, serverVars, snapshot,
                   historyVars, dnsVars>>

ServerSends ==
    /\ status = "ESTABLISHED"
    /\ asked
    /\ sent < reply.size
    /\ \E n \in 1..(reply.size - sent) :
          sent' = sent + n /\ received' = received + n
    /\ UNCHANGED <<phase, localVars, readVars, status, timedOut, reply, asked,
                   aborted, snapshot, historyVars, dnsVars>>

ServerCloses ==
    /\ status = "ESTABLISHED"
    /\ status' = "CLOSE_WAIT"
    /\ UNCHANGED <<phase, localVars, readVars, timedOut, received, serverVars,
                   snapshot, historyVars, dnsVars>>

ServerResets ==
    /\ status \in Open
    /\ status' = "CLOSED"
    /\ aborted' = TRUE
    /\ UNCHANGED <<phase, localVars, readVars, timedOut, received, reply, sent,
                   asked, snapshot, historyVars, dnsVars>>

(* DISCON ends the connection, at the latest with the chip's time-out. *)
DisconnectEnds ==
    /\ status = "CLOSING"
    /\ status' = "CLOSED"
    /\ timedOut' \in BOOLEAN
    /\ UNCHANGED <<phase, localVars, readVars, received, serverVars, snapshot,
                   historyVars, dnsVars>>

(* The timer task.  ReadStatus looks at the clock at least every 10 ms. *)
Second ==
    /\ DNS_time_handler
    /\ phase \in Reading => waited < ResponseTime
    /\ waited' = IF phase \in Reading THEN waited + 1 ELSE waited
    /\ UNCHANGED <<phase, localVars, lineLength, chipVars, serverVars, snapshot,
                   historyVars>>

----------------------------------------------------------------------------
(* The task: one check.                                                    *)

At(label) == phase = label

(* What a closed socket has not handed out is lost. *)
CloseSocket == status' = "CLOSED" /\ timedOut' = FALSE /\ received' = 0

StartCheck ==
    /\ At("delay")
    /\ phase' = "lookup"
    /\ address' = "zero"
    /\ statusCode' = 0
    /\ error' = "NONE"
    /\ BeginLookup
    /\ UNCHANGED <<readVars, chipVars, serverVars, snapshot, historyVars>>

Lookup ==
    /\ At("lookup")
    /\ DnsStep
    /\ address' = IF dns' = "idle" /\ dnsAnswer'.kind = "address"
                      THEN "host" ELSE address
    /\ IF dns' # "idle" THEN UNCHANGED <<phase, error>>
         ELSE IF dnsResult' = 1 THEN phase' = "open" /\ UNCHANGED error
         ELSE phase' = "record" /\ error' = "DNS"
    /\ UNCHANGED <<statusCode, readVars, chipVars, serverVars, snapshot,
                   historyVars>>

(* close and socket: socket refuses a chip that shows no address of its own. *)
OpenSocket ==
    /\ At("open")
    /\ \/ /\ phase' = "connect"
          /\ status' = "INIT"
          /\ timedOut' = FALSE
          /\ received' = 0
          /\ port' = NextPort(port)
          /\ network' = Older(network)
          /\ \E r \in Replies : reply' = r
          /\ UNCHANGED <<sent, asked, aborted, error>>
       \/ /\ phase' = "record"
          /\ error' = "SOCKET"
          /\ CloseSocket
          /\ UNCHANGED <<port, network, serverVars>>
    /\ UNCHANGED <<address, statusCode, readVars, snapshot, historyVars, dns,
                   ticks, retryCount, length, dnsPort, dnsRx, dnsResult,
                   dnsAnswer, queries, elapsed>>

Fail(e) == error' = e /\ phase' = "record"

(* Mutation: the socket is left as it is. *)
ConnectFails_LeavesOpen ==
    /\ Fail("CONNECT")
    /\ UNCHANGED chipVars

ConnectFails == Fail("CONNECT") /\ CloseSocket

(* An address of four zeros is refused. *)
Connect ==
    /\ At("connect")
    /\ IF address = "zero"
         THEN ConnectFails
         ELSE /\ status' = "SYNSENT"
              /\ phase' = "connecting"
              /\ UNCHANGED <<error, timedOut, received>>
    /\ UNCHANGED <<address, statusCode, readVars, serverVars, snapshot,
                   historyVars, dnsVars>>

(* One turn of the wait: only an established connection, a time-out and a    *)
(* closed socket end it.                                                     *)
Connecting ==
    /\ At("connecting")
    /\ \/ /\ status = "ESTABLISHED"
          /\ phase' = "send"
          /\ UNCHANGED <<error, chipVars>>
       \/ /\ timedOut \/ status = "CLOSED"
          /\ ConnectFails
    /\ UNCHANGED <<address, statusCode, readVars, serverVars, snapshot,
                   historyVars, dnsVars>>

Send ==
    /\ At("send")
    /\ IF status \in Open
         THEN /\ asked' = TRUE
              /\ phase' = "size"
              /\ UNCHANGED <<error, chipVars>>
         ELSE /\ Fail("SEND")
              /\ CloseSocket
              /\ UNCHANGED asked
    /\ lineLength' = 0
    /\ waited' = 0
    /\ UNCHANGED <<address, statusCode, reply, sent, aborted, snapshot,
                   historyVars, dnsVars>>

EndRead(e, code) == error' = e /\ statusCode' = code /\ phase' = "disconnect"

(* Mutation: the end of the connection is looked for before the size. *)
ReadSize_EndFirst ==
    /\ At("size")
    /\ IF waited >= ResponseTime THEN EndRead("TIMEOUT", statusCode)
         ELSE IF status # "ESTABLISHED" THEN EndRead("RESPONSE", statusCode)
         ELSE /\ phase' = IF received > 0 THEN "byte" ELSE "state"
              /\ UNCHANGED <<error, statusCode>>
    /\ UNCHANGED <<address, readVars, chipVars, serverVars, snapshot,
                   historyVars, dnsVars>>

(* The clock first, then the size. *)
ReadSize ==
    /\ At("size")
    /\ IF waited >= ResponseTime
         THEN EndRead("TIMEOUT", statusCode)
         ELSE /\ phase' = IF received > 0 THEN "byte" ELSE "state"
              /\ UNCHANGED <<error, statusCode>>
    /\ UNCHANGED <<address, readVars, chipVars, serverVars, snapshot,
                   historyVars, dnsVars>>

(* Mutation: the line buffer is one byte longer than the array. *)
LineFull_OffByOne == lineLength >= LineSize

LineFull == lineLength >= LineSize - 1

(* recv closes the socket of a connection that is gone. *)
ReadByteFails ==
    /\ At("byte")
    /\ status \notin Open
    /\ CloseSocket
    /\ EndRead("RESPONSE", statusCode)
    /\ UNCHANGED <<address, readVars, serverVars, snapshot, historyVars, dnsVars>>

ReadByte ==
    /\ At("byte")
    /\ status \in Open
    /\ received' = received - 1
    /\ IF LineFull
         THEN EndRead("RESPONSE", statusCode) /\ UNCHANGED lineLength
         ELSE /\ lineLength' = lineLength + 1
              /\ IF lineLength + 1 < reply.size
                   THEN phase' = "size" /\ UNCHANGED <<error, statusCode>>
                   ELSE IF reply.wellFormed THEN EndRead(error, reply.code)
                   ELSE EndRead("RESPONSE", statusCode)
    /\ UNCHANGED <<address, waited, status, timedOut, serverVars, snapshot,
                   historyVars, dnsVars>>

(* The status is read after the size: what has come in between is not seen. *)
ReadState ==
    /\ At("state")
    /\ IF status \in {"CLOSED", "CLOSE_WAIT"}
         THEN /\ EndRead("RESPONSE", statusCode)
              /\ overtaken' = (received > 0)
         ELSE phase' = "size" /\ UNCHANGED <<error, statusCode, overtaken>>
    /\ UNCHANGED <<address, readVars, chipVars, serverVars, snapshot,
                   trueFailures, dnsVars>>

Disconnect ==
    /\ At("disconnect")
    /\ IF status = "CLOSED"
         THEN phase' = "close" /\ UNCHANGED status
         ELSE phase' = "disconnecting" /\ status' = "CLOSING"
    /\ UNCHANGED <<localVars, readVars, timedOut, received, serverVars, snapshot,
                   historyVars, dnsVars>>

(* Mutation: only the time-out ends the wait. *)
Disconnecting_TimeoutOnly ==
    /\ At("disconnecting")
    /\ timedOut
    /\ phase' = "close"
    /\ UNCHANGED <<localVars, readVars, chipVars, serverVars, snapshot,
                   historyVars, dnsVars>>

Disconnecting ==
    /\ At("disconnecting")
    /\ status = "CLOSED" \/ timedOut
    /\ phase' = "close"
    /\ UNCHANGED <<localVars, readVars, chipVars, serverVars, snapshot,
                   historyVars, dnsVars>>

Judged == IF error = "NONE" /\ statusCode # 200 THEN "STATUS" ELSE error

Close ==
    /\ At("close")
    /\ CloseSocket
    /\ error' = Judged
    /\ phase' = "record"
    /\ UNCHANGED <<address, statusCode, readVars, serverVars, snapshot,
                   historyVars, dnsVars>>

(* Mutation: the counter is left as it is at its limit, and so is the state. *)
Recorded_StuckAtLimit ==
    IF snapshot.consecutiveFailures = FailureLimit
        THEN snapshot
        ELSE [state |-> IF error = "NONE" THEN "AVAILABLE"
                        ELSE IF snapshot.consecutiveFailures + 1
                                    >= FailureThreshold THEN "UNAVAILABLE"
                        ELSE "DEGRADED",
              consecutiveFailures |->
                  IF error = "NONE" THEN 0 ELSE snapshot.consecutiveFailures + 1]

FailuresAfter ==
    IF snapshot.consecutiveFailures < FailureLimit
        THEN snapshot.consecutiveFailures + 1
        ELSE snapshot.consecutiveFailures

(* The error, the code and the address are copied beside the state. *)
Recorded ==
    IF error = "NONE"
        THEN [state |-> "AVAILABLE", consecutiveFailures |-> 0]
        ELSE [state |-> IF FailuresAfter >= FailureThreshold
                            THEN "UNAVAILABLE" ELSE "DEGRADED",
              consecutiveFailures |-> FailuresAfter]

(* Record, the health report and the wait; the locals go out of scope. *)
Record ==
    /\ At("record")
    /\ snapshot' = Recorded
    /\ trueFailures' = IF error = "NONE" THEN 0
                       ELSE IF trueFailures <= FailureLimit THEN trueFailures + 1
                       ELSE trueFailures
    /\ phase' = "delay"
    /\ address' = "zero" /\ statusCode' = 0 /\ error' = "NONE"
    /\ lineLength' = 0 /\ waited' = 0
    /\ sent' = 0 /\ asked' = FALSE /\ aborted' = FALSE /\ overtaken' = FALSE
    /\ UNCHANGED <<chipVars, reply, dnsVars>>

----------------------------------------------------------------------------
Init ==
    /\ DnsInit
    /\ phase = "delay"
    /\ address = "zero"
    /\ statusCode = 0
    /\ error = "NONE"
    /\ lineLength = 0
    /\ waited = 0
    /\ status = "CLOSED"
    /\ timedOut = FALSE
    /\ received = 0
    /\ reply \in Replies
    /\ sent = 0
    /\ asked = FALSE
    /\ snapshot = [state |-> "INITIALIZING", consecutiveFailures |-> 0]
    /\ aborted = FALSE
    /\ overtaken = FALSE
    /\ trueFailures = 0

Network == DnsNetwork /\ UNCHANGED httpVars

Server == ServerSends \/ ServerCloses \/ ServerResets

Chip == ConnectionAnswered \/ DisconnectEnds

Task ==
    \/ StartCheck \/ Lookup \/ OpenSocket \/ Connect \/ Connecting \/ Send
    \/ ReadSize \/ ReadByte \/ ReadByteFails \/ ReadState
    \/ Disconnect \/ Disconnecting \/ Close \/ Record

Next == Network \/ Server \/ Chip \/ Second \/ Task

Spec == Init /\ [][Next]_vars

(* The task has priority 2, and those above it block; the chip answers every *)
(* command, at the latest with its time-out; the timer never stops.          *)
FairSpec == Spec /\ WF_vars(Task) /\ WF_vars(Chip) /\ WF_vars(Second)

----------------------------------------------------------------------------
Errors == {"NONE", "DNS", "SOCKET", "CONNECT", "SEND", "TIMEOUT", "RESPONSE",
           "STATUS"}

Codes == {0} \union {r.code : r \in Replies}

TypeOK ==
    /\ DnsTypeOK
    /\ phase \in {"delay", "lookup", "open", "connect", "connecting", "send",
                  "disconnect", "disconnecting", "close", "record"}
                 \union Reading
    /\ address \in {"zero", "host"}
    /\ statusCode \in Codes
    /\ error \in Errors
    /\ lineLength \in 0..(LineSize - 1)
    /\ waited \in 0..ResponseTime
    /\ status \in {"CLOSED", "INIT", "SYNSENT", "CLOSING"} \union Open
    /\ timedOut \in BOOLEAN
    /\ received \in 0..sent
    /\ reply \in Replies
    /\ sent \in 0..reply.size
    /\ asked \in BOOLEAN
    /\ aborted \in BOOLEAN
    /\ overtaken \in BOOLEAN
    /\ snapshot \in [state : {"INITIALIZING", "AVAILABLE", "DEGRADED",
                              "UNAVAILABLE"},
                     consecutiveFailures : 0..FailureLimit]
    /\ trueFailures \in 0..(FailureLimit + 1)

(* A check that succeeds has the server's whole status line, with code 200,  *)
(* from the address that an answer to this lookup's own query gave: a late   *)
(* answer to an earlier lookup is at a port that is no longer open           *)
(* (http_monitor_service.c:160-200, dns.c:576, socket.c:329-334).            *)
SuccessIsTheServersOwn ==
    At("record") /\ error = "NONE" =>
        /\ Good /\ reply.code = 200
        /\ dnsAnswer.kind = "address" /\ dnsAnswer.age = 0

(* A status line that arrived whole is what the check is judged by, unless   *)
(* the wait was over, the server reset the connection, or the line and the   *)
(* end of the connection came together between the read of the size and the  *)
(* read of the status (http_monitor_service.c:215-249).                      *)
WholeLineDecides ==
    At("record") /\ Good =>
        \/ error = IF reply.code = 200 THEN "NONE" ELSE "STATUS"
        \/ error = "TIMEOUT"
        \/ error = "RESPONSE" /\ (aborted \/ overtaken)

(* Whatever way a check ends, both its sockets are closed when the task      *)
(* waits for the next one (http_monitor_service.c:172-191, dns.c:586, 605).  *)
NoSocketIsLeftOpen ==
    /\ phase \in {"delay", "lookup", "open", "record"} => status = "CLOSED"
    /\ dns = "idle" => dnsPort = NoPort

(* The published state is that of the checks so far, through any number of   *)
(* failures: the count that stops at its limit neither hides an outage nor   *)
(* survives the end of one (http_monitor_service.c:301-316).                 *)
SnapshotFollowsTheChecks ==
    snapshot.state # "INITIALIZING" =>
        snapshot.state = IF trueFailures = 0 THEN "AVAILABLE"
                         ELSE IF trueFailures < FailureThreshold THEN "DEGRADED"
                         ELSE "UNAVAILABLE"

(* Every check ends, except one: a server that accepts the connection and    *)
(* ends it before connect() has seen it established leaves the task waiting  *)
(* for a status that never comes (socket.c:477-486).                         *)
ChecksEndUnlessConnectMissesIt ==
    \/ []<>At("delay")
    \/ <>[](At("connecting") /\ status = "CLOSE_WAIT")
============================================================================
