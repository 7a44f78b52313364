---------------------------- MODULE MCTcpService ----------------------------
(* The two ports with very short lines. *)
EXTENDS TcpService

TwoPorts == <<"command", "health">>

(* The command port's client can fill the buffer and send more; the client   *)
(* of the health port sends a line at most.                                  *)
Sends == [command |-> 3, health |-> 2]
=============================================================================
