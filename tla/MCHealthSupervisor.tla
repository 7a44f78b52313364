------------------------- MODULE MCHealthSupervisor -------------------------
(* The supervised tasks at a scale of one tick per poll of the Health task. *)
EXTENDS HealthSupervisor

\* Without Ethernet only these two services run; one waits each way.
BoardComponents == {"HEART_BEAT", "TEMPERATURE"}
BoardPeriodic == {"TEMPERATURE"}
BoardPeriod == [c \in BoardComponents |-> IF c = "TEMPERATURE" THEN 3 ELSE 1]
BoardWork == [c \in BoardComponents |-> IF c = "TEMPERATURE" THEN 2 ELSE 1]

\* The HTTP monitor waits as long as the self-check window is.
HttpComponents == {"HTTP"}
HttpPeriod == [c \in HttpComponents |-> CheckPeriod]
HttpWork == [c \in HttpComponents |-> 2]
=============================================================================
