-------------------------------- MODULE Clock --------------------------------
(***************************************************************************)
(* The wall clock every service reads (chrono's Utc::now()).  It is not    *)
(* monotonic: ClockSteps says how far one adjustment may move it, forwards *)
(* or backwards.                                                           *)
(***************************************************************************)
EXTENDS Integers

CONSTANTS
    ClockSteps,     \* how far the wall clock may move at once
    MaxClock        \* bound on the clock, for model checking

ASSUME ClockAssumption ==
    /\ ClockSteps \subseteq Int
    /\ MaxClock \in Nat

VARIABLE now        \* Utc::now()

Advance ==
    /\ \E d \in ClockSteps : now' = now + d
    /\ now' \in 0..MaxClock

\* The clock only advances.
ClockAdvances == ClockSteps \subseteq Nat
=============================================================================
