------------------------------- MODULE Clock -------------------------------
(***************************************************************************)
(* The wall clock that independent parts of the server read: time.Now() is *)
(* the value of now when a step is taken.                                  *)
(***************************************************************************)
EXTENDS Integers

CONSTANT MaxTime      \* bound: last instant of the clock

ASSUME ClockAssumption == MaxTime \in Nat \ {0}

VARIABLE now

Instants == 0 .. MaxTime

ClockInit == now = 0

Passes == now < MaxTime /\ now' = now + 1
=============================================================================
