------------------------- MODULE DelayCounterProofs -------------------------
(***************************************************************************)
(* The safety properties of DelayCounter, proved for every length of the   *)
(* waits and every width of the counter that its assumption allows.        *)
(***************************************************************************)
EXTENDS DelayCounter, TLAPS

TypeInv ==
    /\ counter \in 0..(Modulus - 1)
    /\ start \in 0..(Modulus - 1)
    /\ elapsed \in 0..Ticks
    /\ delay \in {"none", "start", "read", "wait", "stop"}

Waiting == delay \in {"read", "wait"}

(* A one-wire wait leaves the counter stopped, where its own wait ended. *)
DisturbedInv ==
    /\ delay = "start" => ~disturbed
    /\ Waiting /\ disturbed => ~enabled /\ counter = BitTicks

(* What the counter shows has passed. *)
ElapsedInv ==
    /\ delay = "wait" /\ ~disturbed =>
           elapsed >= Least((counter - start) % Modulus, Ticks)
    /\ delay = "stop" /\ ~disturbed => elapsed >= Ticks

IInv == TypeInv /\ DisturbedInv /\ ElapsedInv

----------------------------------------------------------------------------
(* The counter and differences of it, which need no more than one turn.     *)
LEMMA ModOneTurn ==
    ASSUME NEW d \in (-Modulus)..(2 * Modulus - 1)
    PROVE  d % Modulus = IF d < 0 THEN d + Modulus
                         ELSE IF d < Modulus THEN d ELSE d - Modulus
  BY DelayAssumption

LEMMA InitIInv == Init => IInv
  BY DelayAssumption
  DEF Init, IInv, TypeInv, DisturbedInv, ElapsedInv, Waiting

LEMMA NextTypeInv ==
    ASSUME TypeInv, [Next]_vars
    PROVE  TypeInv'
  <1> USE DelayAssumption DEF TypeInv
  <1>1. CASE Cycle
      <2>1. (counter + 1) % Modulus \in 0..(Modulus - 1)
          BY ModOneTurn
      <2> QED
          BY <1>1, <2>1 DEF Cycle, Least
  <1>2. CASE Delay_Microseconds
      BY <1>2
      DEF Delay_Microseconds, ClearCounter, StartCounter, ReadStart, EndWait,
          StopCounter
  <1>3. CASE OneWireDelay
      BY <1>3 DEF OneWireDelay, Least
  <1>4. CASE UNCHANGED vars
      BY <1>4 DEF vars
  <1> QED
      BY <1>1, <1>2, <1>3, <1>4 DEF Next

LEMMA NextDisturbedInv ==
    ASSUME TypeInv, DisturbedInv, [Next]_vars
    PROVE  DisturbedInv'
  <1> USE DEF DisturbedInv, Waiting, TypeInv
  <1>1. CASE Cycle
      BY <1>1 DEF Cycle
  <1>2. CASE Delay_Microseconds
      BY <1>2
      DEF Delay_Microseconds, ClearCounter, StartCounter, ReadStart, EndWait,
          StopCounter
  <1>3. CASE OneWireDelay
      BY <1>3 DEF OneWireDelay
  <1>4. CASE UNCHANGED vars
      BY <1>4 DEF vars
  <1> QED
      BY <1>1, <1>2, <1>3, <1>4 DEF Next

LEMMA NextElapsedInv ==
    ASSUME TypeInv, ElapsedInv, [Next]_vars
    PROVE  ElapsedInv'
  <1> USE DEF ElapsedInv
  <1>1. CASE Cycle
      <2>1. CASE delay = "wait" /\ ~disturbed /\ enabled
          (* The guard keeps the difference within one turn. *)
          <3>1. (((counter + 1) % Modulus) - start) % Modulus
                    = ((counter - start) % Modulus) + 1
              <4> DEFINE next == (counter + 1) % Modulus
              <4>1. next = IF counter + 1 < Modulus THEN counter + 1 ELSE 0
                  BY ModOneTurn, DelayAssumption DEF TypeInv
              <4>2. (counter - start) % Modulus < Modulus - 1
                  BY <1>1, <2>1 DEF Cycle
              <4>3. (counter - start) % Modulus =
                        IF counter < start THEN counter - start + Modulus
                                           ELSE counter - start
                  BY ModOneTurn, DelayAssumption DEF TypeInv
              <4>4. next - start \in (-Modulus)..(2 * Modulus - 1)
                  BY <4>1, DelayAssumption DEF TypeInv
              <4>5. (next - start) % Modulus =
                        IF next < start THEN next - start + Modulus
                                        ELSE next - start
                  BY <4>1, <4>4, ModOneTurn, DelayAssumption DEF TypeInv
              <4> QED
                  BY <4>1, <4>2, <4>3, <4>5, DelayAssumption DEF TypeInv
          <3>2. (counter - start) % Modulus \in Nat
              BY ModOneTurn, DelayAssumption DEF TypeInv
          <3> QED
              BY <1>1, <2>1, <3>1, <3>2, DelayAssumption
              DEF Cycle, Least, TypeInv
      <2>2. CASE ~(delay = "wait" /\ ~disturbed /\ enabled)
          <3>1. (counter - start) % Modulus \in Nat
              BY ModOneTurn, DelayAssumption DEF TypeInv
          <3> QED
              BY <1>1, <2>2, <3>1, DelayAssumption DEF Cycle, Least, TypeInv
      <2> QED
          BY <2>1, <2>2
  <1>2. CASE ReadStart
      <2>1. (counter' - start') % Modulus = 0
          BY <1>2, ModOneTurn, DelayAssumption DEF ReadStart, TypeInv
      <2> QED
          BY <1>2, <2>1, DelayAssumption DEF ReadStart, Least, TypeInv
  <1>3. CASE EndWait
      <2>1. (counter - start) % Modulus \in Nat
          BY ModOneTurn, DelayAssumption DEF TypeInv
      <2> QED
          BY <1>3, <2>1, DelayAssumption DEF EndWait, IsOver, Least, TypeInv
  <1>4. CASE ClearCounter \/ StartCounter \/ StopCounter
      BY <1>4 DEF ClearCounter, StartCounter, StopCounter
  <1>5. CASE OneWireDelay
      BY <1>5, DelayAssumption DEF OneWireDelay, Least, TypeInv
  <1>6. CASE UNCHANGED vars
      BY <1>6 DEF vars
  <1> QED
      BY <1>1, <1>2, <1>3, <1>4, <1>5, <1>6 DEF Next, Delay_Microseconds

(* Where a wait stands, and what it has read, fits the time that has passed, *)
(* whatever else waits on the counter (common.c:145-151).                    *)
THEOREM DelayInvariant == Spec => []IInv
  <1>1. Init => IInv
      BY InitIInv
  <1>2. IInv /\ [Next]_vars => IInv'
      BY NextTypeInv, NextDisturbedInv, NextElapsedInv DEF IInv
  <1> QED
      BY <1>1, <1>2, PTL DEF Spec

(* Wherever it is preempted, a wait that keeps its counter to itself is as   *)
(* long as it was asked to be (common.c:145-151).                            *)
THEOREM DelayIsLongEnough == Spec => []UndisturbedDelayIsLongEnough
  <1>1. IInv => UndisturbedDelayIsLongEnough
      BY DEF IInv, ElapsedInv, UndisturbedDelayIsLongEnough
  <1> QED
      BY <1>1, DelayInvariant, PTL

(* The counter of a disturbed wait stands below its end for good, so that    *)
(* only a start ahead of it lets the wait end (common.c:147-150).            *)
THEOREM DisturbedDelayLost == Spec => DisturbedDelayIsLost
  <1>1. IInv /\ [Next]_vars =>
            [delay = "wait" /\ delay' # "wait" /\ disturbed
                => counter < start]_vars
      <2> SUFFICES ASSUME IInv, Next, delay = "wait", delay' # "wait", disturbed
                   PROVE  counter < start
          OBVIOUS
      <2>1. EndWait
          BY DEF Next, Cycle, OneWireDelay, Delay_Microseconds, ClearCounter,
                 StartCounter, ReadStart, StopCounter
      <2>2. counter = BitTicks /\ TypeInv
          BY DEF IInv, DisturbedInv, Waiting
      <2> QED
          BY <2>1, <2>2, ModOneTurn, DelayAssumption DEF EndWait, IsOver, TypeInv
  <1> QED
      BY <1>1, DelayInvariant, PTL DEF Spec, DisturbedDelayIsLost
=============================================================================
