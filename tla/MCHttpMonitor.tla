--------------------------- MODULE MCHttpMonitor ----------------------------
(* Instances of HttpMonitor: a good line, one with another code, one that is *)
(* no status line, and one that is too long for the buffer.                  *)
EXTENDS HttpMonitor

FourReplies ==
    {[size |-> 2, code |-> 200, wellFormed |-> TRUE],
     [size |-> 1, code |-> 500, wellFormed |-> TRUE],
     [size |-> 1, code |-> 200, wellFormed |-> FALSE],
     [size |-> 3, code |-> 200, wellFormed |-> TRUE]}
============================================================================
