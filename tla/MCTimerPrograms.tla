-------------------------- MODULE MCTimerPrograms --------------------------
(* Instances of TimerPrograms for model checking.                          *)
EXTENDS TimerPrograms

SomeRequests == {-1, 0, 3, 4, 5, 8, 9}
=============================================================================
