----------------------------- MODULE TcpService -----------------------------
(***************************************************************************)
(* Srv/Src/tcp_service.c: one task serves the measurement and the health   *)
(* port in turn, each on a W5500 socket and with a line buffer of its own. *)
(* The two halves of the file are the same code for different sockets and  *)
(* are one set of operators here, for the socket whose turn it is.         *)
(*                                                                         *)
(* The chip and the client act between any two steps of the task; a step   *)
(* is what the code does between two looks at the chip.  The chip clears   *)
(* its receive buffer when a socket is opened, and closes a connection the *)
(* client does not acknowledge (Sn_IR_TIMEOUT) on its own.  A line is its  *)
(* bytes; what a command is answered is the business of SensorRegistry.    *)
(***************************************************************************)
EXTENDS Integers, Sequences

CONSTANTS
    Sockets,      \* the sockets in the order the task serves them
    Text,         \* bytes a command is made of
    BufferSize,   \* TCP_COMMAND_BUFFER_SIZE
    MaxSent       \* bytes a client of each socket sends in one connection

ASSUME BufferAssumption == BufferSize \in Nat \ {0}
ASSUME TextAssumption == "eol" \notin Text
ASSUME SocketsAssumption ==
    /\ Sockets \in Seq({Sockets[i] : i \in DOMAIN Sockets})
    /\ Sockets # <<>>
    /\ \A i, j \in DOMAIN Sockets : Sockets[i] = Sockets[j] => i = j
ASSUME SentAssumption == \A i \in DOMAIN Sockets : MaxSent[Sockets[i]] \in Nat

VARIABLES
    status,        \* Sn_SR
    connected,     \* Sn_IR_CON
    sendOk,        \* Sn_IR_SENDOK
    received,      \* bytes in the chip, not read yet
    buffer,        \* commandBuffer up to commandLength
    turn,          \* the socket the task serves
    step,          \* what the task does next
    closeWait,     \* the task entered Run on SOCK_CLOSE_WAIT
    response,      \* what Send was called with
    sent,          \* history: bytes the client of this connection has sent
    answer         \* history: "none", "sent" or "received" by the client

chipVars == <<status, connected, sendOk, received>>
clientVars == <<sent, answer>>
taskVars == <<turn, step, closeWait, response>>
vars == <<chipVars, buffer, taskVars, clientVars>>

Byte == Text \union {"eol"}
NoResponse == [kind |-> "none", line |-> <<>>]
TooLong == [kind |-> "command_too_long", line |-> <<>>]
(* ProcessCommand sends one response to a line, on every path. *)
ToLine(line) == [kind |-> "line", line |-> line]
Socket == {Sockets[i] : i \in DOMAIN Sockets}
Open == {"ESTABLISHED", "CLOSE_WAIT"}

----------------------------------------------------------------------------
(* The bytes from the first one that is not an end of line, and the line     *)
(* they begin with when its end is there.                                    *)
Starts(bytes) == {i \in DOMAIN bytes : bytes[i] # "eol"}

FromFirst(bytes) ==
    IF Starts(bytes) = {}
        THEN <<>>
        ELSE SubSeq(bytes, CHOOSE i \in Starts(bytes) :
                              \A j \in Starts(bytes) : i <= j, Len(bytes))

Ends(bytes) == {i \in DOMAIN bytes : bytes[i] = "eol"}

FirstLine(bytes) ==
    SubSeq(bytes, 1, (CHOOSE i \in Ends(bytes) :
                         \A j \in Ends(bytes) : i <= j) - 1)

(* Mutation: an end of line that follows an end of line is a command. *)
Processed_EmptyLine(bytes) ==
    IF Ends(bytes) # {}
        THEN [response |-> ToLine(FirstLine(bytes)), buffer |-> bytes]
        ELSE IF Len(bytes) = BufferSize
            THEN [response |-> TooLong, buffer |-> bytes]
            ELSE [response |-> NoResponse, buffer |-> bytes]

(* ProcessInput: the response to the first line in the buffer, or what is    *)
(* kept of the bytes read.                                                   *)
Processed(bytes) ==
    LET line == FromFirst(bytes) IN
    IF Ends(line) # {}
        THEN [response |-> ToLine(FirstLine(line)), buffer |-> bytes]
        ELSE [response |-> IF Len(line) = BufferSize THEN TooLong ELSE NoResponse,
              buffer |-> line]

----------------------------------------------------------------------------
(* The task.  Socket s is the one whose turn it is.                          *)

s == Sockets[turn]

At(label) == step = label

(* The end of Run for this socket. *)
NextSocket ==
    /\ closeWait' = FALSE
    /\ response' = NoResponse
    /\ IF turn < Len(Sockets)
         THEN turn' = turn + 1 /\ step' = "run"
         ELSE turn' = turn /\ step' = "report"

(* The end of Receive: on SOCK_CLOSE_WAIT the status is looked at again. *)
AfterReceive ==
    IF closeWait
        THEN step' = "closing" /\ UNCHANGED <<turn, closeWait, response>>
        ELSE NextSocket

Close ==
    /\ status' = [status EXCEPT ![s] = "CLOSED"]
    /\ connected' = [connected EXCEPT ![s] = FALSE]
    /\ sendOk' = [sendOk EXCEPT ![s] = FALSE]

Forget == buffer' = [buffer EXCEPT ![s] = <<>>]

RunEstablished ==
    /\ At("run")
    /\ status[s] = "ESTABLISHED"
    /\ IF connected[s]
         THEN Forget /\ connected' = [connected EXCEPT ![s] = FALSE]
         ELSE UNCHANGED <<buffer, connected>>
    /\ step' = "receive"
    /\ UNCHANGED <<status, sendOk, received, turn, closeWait, response,
                   clientVars>>

(* Mutation: what arrived with the end of the connection is not read. *)
RunCloseWait_Unread ==
    /\ At("run")
    /\ status[s] = "CLOSE_WAIT"
    /\ closeWait' = TRUE
    /\ step' = "closing"
    /\ UNCHANGED <<chipVars, buffer, turn, response, clientVars>>

RunCloseWait ==
    /\ At("run")
    /\ status[s] = "CLOSE_WAIT"
    /\ closeWait' = TRUE
    /\ step' = IF received[s] # <<>> THEN "receive" ELSE "closing"
    /\ UNCHANGED <<chipVars, buffer, turn, response, clientVars>>

(* listen: a client that connects before the status is read back makes it    *)
(* close the socket again.                                                   *)
RunInit ==
    /\ At("run")
    /\ status[s] = "INIT"
    /\ \/ /\ status' = [status EXCEPT ![s] = "LISTEN"]
          /\ UNCHANGED <<connected, sendOk>>
       \/ Close
    /\ NextSocket
    /\ UNCHANGED <<received, buffer, clientVars>>

RunClosed ==
    /\ At("run")
    /\ status[s] = "CLOSED"
    /\ Forget
    /\ status' = [status EXCEPT ![s] = "INIT"]
    /\ connected' = [connected EXCEPT ![s] = FALSE]
    /\ sendOk' = [sendOk EXCEPT ![s] = FALSE]
    /\ received' = [received EXCEPT ![s] = <<>>]
    /\ sent' = [sent EXCEPT ![s] = <<>>]
    /\ answer' = [answer EXCEPT ![s] = "none"]
    /\ NextSocket

RunOther ==
    /\ At("run")
    /\ status[s] = "LISTEN"
    /\ NextSocket
    /\ UNCHANGED <<chipVars, buffer, clientVars>>

----------------------------------------------------------------------------
ReceiveNothing ==
    /\ At("receive")
    /\ received[s] = <<>>
    /\ AfterReceive
    /\ UNCHANGED <<chipVars, buffer, clientVars>>

(* recv closes the socket of a connection that is gone. *)
ReceiveFails ==
    /\ At("receive")
    /\ received[s] # <<>>
    /\ status[s] \notin Open
    /\ Close
    /\ Forget
    /\ AfterReceive
    /\ UNCHANGED <<received, clientVars>>

(* Mutation: the whole buffer counts as free. *)
Available_Whole(n) == BufferSize

Available(n) == BufferSize - Len(buffer[n])

Receive ==
    /\ At("receive")
    /\ received[s] # <<>>
    /\ status[s] \in Open
    /\ LET readSize == IF Len(received[s]) < Available(s)
                           THEN Len(received[s]) ELSE Available(s)
           input == Processed(buffer[s] \o SubSeq(received[s], 1, readSize))
           result == IF readSize = 0 THEN TooLong ELSE input.response
       IN /\ received' = [received EXCEPT
                              ![s] = SubSeq(@, readSize + 1, Len(@))]
          /\ buffer' = [buffer EXCEPT
                            ![s] = IF readSize = 0 THEN @ ELSE input.buffer]
          /\ IF result = NoResponse
               THEN AfterReceive
               ELSE /\ response' = result
                    /\ step' = "send"
                    /\ UNCHANGED <<turn, closeWait>>
    /\ UNCHANGED <<status, connected, sendOk, clientVars>>

----------------------------------------------------------------------------
(* Send, and what Receive does after it.                                     *)

Send ==
    /\ At("send")
    /\ status[s] \in Open
    /\ answer' = [answer EXCEPT ![s] = "sent"]
    /\ step' = "waitSendOk"
    /\ UNCHANGED <<chipVars, buffer, turn, closeWait, response, sent>>

SendFails ==
    /\ At("send")
    /\ status[s] \notin Open
    /\ Close
    /\ Forget
    /\ AfterReceive
    /\ UNCHANGED <<received, clientVars>>

(* disconnect, up to the loop that waits for the end of the connection. *)
Disconnect ==
    /\ status' = [status EXCEPT ![s] =
                     CASE @ = "ESTABLISHED" -> "FIN_WAIT"
                       [] @ = "CLOSE_WAIT" -> "LAST_ACK"
                       [] OTHER -> @]
    /\ step' = "waitClosed"

SendOk ==
    /\ At("waitSendOk")
    /\ sendOk[s]
    /\ sendOk' = [sendOk EXCEPT ![s] = FALSE]
    /\ Disconnect
    /\ UNCHANGED <<connected, received, buffer, turn, closeWait, response,
                   clientVars>>

(* Mutation: the wait for SENDOK ends only with the connection. *)
SendTimesOut_Never ==
    /\ At("waitSendOk")
    /\ ~sendOk[s]
    /\ status[s] \notin Open
    /\ Close
    /\ Forget
    /\ AfterReceive
    /\ UNCHANGED <<received, clientVars>>

(* The connection is gone, or a second has passed. *)
SendTimesOut ==
    /\ At("waitSendOk")
    /\ ~sendOk[s]
    /\ Close
    /\ Forget
    /\ AfterReceive
    /\ UNCHANGED <<received, clientVars>>

Disconnected ==
    /\ At("waitClosed")
    /\ status[s] = "CLOSED"
    /\ Forget
    /\ AfterReceive
    /\ UNCHANGED <<chipVars, clientVars>>

(* The second half of SOCK_CLOSE_WAIT. *)
CloseWait ==
    /\ At("closing")
    /\ IF status[s] = "CLOSE_WAIT"
         THEN /\ Disconnect
              /\ closeWait' = FALSE
              /\ UNCHANGED <<turn, response>>
         ELSE NextSocket /\ UNCHANGED status
    /\ UNCHANGED <<connected, sendOk, received, buffer, clientVars>>

Report ==
    /\ At("report")
    /\ turn' = 1
    /\ step' = "run"
    /\ UNCHANGED <<chipVars, buffer, closeWait, response, clientVars>>

----------------------------------------------------------------------------
(* The client and the chip.                                                  *)

Connect(n) ==
    /\ status[n] = "LISTEN"
    /\ status' = [status EXCEPT ![n] = "ESTABLISHED"]
    /\ connected' = [connected EXCEPT ![n] = TRUE]
    /\ UNCHANGED <<sendOk, received, buffer, taskVars, clientVars>>

ClientSends(n, byte) ==
    /\ status[n] = "ESTABLISHED"
    /\ Len(sent[n]) < MaxSent[n]
    /\ sent' = [sent EXCEPT ![n] = Append(@, byte)]
    /\ received' = [received EXCEPT ![n] = Append(@, byte)]
    /\ UNCHANGED <<status, connected, sendOk, buffer, taskVars, answer>>

(* The client has sent all it will send, before or after the device has. *)
ClientCloses(n) ==
    /\ status[n] \in {"ESTABLISHED", "FIN_WAIT"}
    /\ status' = [status EXCEPT ![n] =
                     IF @ = "ESTABLISHED" THEN "CLOSE_WAIT" ELSE "CLOSED"]
    /\ UNCHANGED <<connected, sendOk, received, buffer, taskVars, clientVars>>

ClientAcknowledges(n) ==
    /\ status[n] \in Open
    /\ answer[n] = "sent"
    /\ answer' = [answer EXCEPT ![n] = "received"]
    /\ sendOk' = [sendOk EXCEPT ![n] = TRUE]
    /\ UNCHANGED <<status, connected, received, buffer, taskVars, sent>>

(* A reset by the client. *)
ClientResets(n) ==
    /\ status[n] \in Open
    /\ status' = [status EXCEPT ![n] = "CLOSED"]
    /\ UNCHANGED <<connected, sendOk, received, buffer, taskVars, clientVars>>

(* The device's own end of the connection was acknowledged, or the chip has  *)
(* given up waiting for that.                                                *)
ConnectionEnds(n) ==
    /\ status[n] \in {"FIN_WAIT", "LAST_ACK"}
    /\ status' = [status EXCEPT ![n] = "CLOSED"]
    /\ UNCHANGED <<connected, sendOk, received, buffer, taskVars, clientVars>>

----------------------------------------------------------------------------
Init ==
    /\ status = [n \in Socket |-> "CLOSED"]
    /\ connected = [n \in Socket |-> FALSE]
    /\ sendOk = [n \in Socket |-> FALSE]
    /\ received = [n \in Socket |-> <<>>]
    /\ buffer = [n \in Socket |-> <<>>]
    /\ turn = 1
    /\ step = "run"
    /\ closeWait = FALSE
    /\ response = NoResponse
    /\ sent = [n \in Socket |-> <<>>]
    /\ answer = [n \in Socket |-> "none"]

Run == RunEstablished \/ RunCloseWait \/ RunInit \/ RunClosed \/ RunOther

TcpCommandTask ==
    \/ Run
    \/ ReceiveNothing \/ ReceiveFails \/ Receive
    \/ Send \/ SendFails \/ SendOk \/ SendTimesOut
    \/ Disconnected \/ CloseWait
    \/ Report

Network ==
    \E n \in Socket :
        \/ Connect(n)
        \/ \E byte \in Byte : ClientSends(n, byte)
        \/ ClientCloses(n)
        \/ ClientAcknowledges(n)
        \/ ClientResets(n)
        \/ ConnectionEnds(n)

Next == TcpCommandTask \/ Network

Spec == Init /\ [][Next]_vars

(* The task runs whenever nothing above it does.  The chip ends a connection *)
(* the device has closed, when the client agrees or after its own time-out;  *)
(* nothing is asked of the clients.                                          *)
FairSpec ==
    /\ Spec
    /\ WF_vars(TcpCommandTask)
    /\ \A n \in Socket : WF_vars(ConnectionEnds(n))

----------------------------------------------------------------------------
Steps == {"run", "receive", "send", "waitSendOk", "waitClosed", "closing",
          "report"}

TypeOK ==
    /\ status \in [Socket -> {"CLOSED", "INIT", "LISTEN", "ESTABLISHED",
                              "CLOSE_WAIT", "FIN_WAIT", "LAST_ACK"}]
    /\ connected \in [Socket -> BOOLEAN]
    /\ sendOk \in [Socket -> BOOLEAN]
    /\ received \in [Socket -> Seq(Byte)]
    /\ buffer \in [Socket -> Seq(Byte)]
    /\ \A n \in Socket : Len(buffer[n]) <= BufferSize
    /\ turn \in DOMAIN Sockets
    /\ step \in Steps
    /\ closeWait \in BOOLEAN
    /\ response \in [kind : {"none", "command_too_long", "line"}, line : Seq(Byte)]
    /\ sent \in [Socket -> Seq(Byte)]
    /\ answer \in [Socket -> {"none", "sent", "received"}]

(* What a client that has sent these bytes is to be answered: its first line *)
(* that is not empty, or that it is too long, as soon as either is certain.  *)
Answer(bytes) ==
    LET line == FromFirst(bytes) IN
    IF Ends(line) # {} /\ Len(FirstLine(line)) < BufferSize
        THEN ToLine(FirstLine(line))
        ELSE IF Len(line) >= BufferSize THEN TooLong ELSE NoResponse

(* However the bytes are cut into segments, whatever the previous client of  *)
(* the socket left behind and whichever socket is served in between: a       *)
(* client is answered once, and the answer is to the first line it sent in   *)
(* this connection (README.md:17-19).                                        *)
OneAnswerToTheFirstLine ==
    At("send") => response = Answer(sent[s]) /\ answer[s] = "none"

(* The device does not end a connection, or close one that the client has    *)
(* just ended, before the answer has been received, when the first           *)
(* BufferSize bytes ask for one.                                             *)
AnsweredBeforeDisconnect ==
    [][\A n \in Socket :
          /\ status[n] \in Open
          /\ status'[n] \in {"FIN_WAIT", "LAST_ACK"}
          /\ Answer(SubSeq(sent[n], 1,
                 IF Len(sent[n]) < BufferSize THEN Len(sent[n]) ELSE BufferSize))
             # NoResponse
          => answer[n] = "received"]_status

(* A client that has sent a line is answered unless its connection ends, no  *)
(* matter how the client of the other socket behaves.                        *)
LinesAreAnswered ==
    \A n \in Socket :
        (status[n] = "ESTABLISHED" /\ Answer(sent[n]) # NoResponse)
            ~> (answer[n] # "none" \/ status[n] = "CLOSED")
=============================================================================
