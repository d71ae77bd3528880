-------------------------------- MODULE Copy --------------------------------
(***************************************************************************)
(* What "This program copies its standard input to standard output"        *)
(* (iopipe.c) promises: at any time the output is a beginning of the       *)
(* input, it is never taken back, and a program that is over without an    *)
(* error on the way has copied all of it.                                  *)
(***************************************************************************)
EXTENDS Naturals, Sequences

CONSTANT Input
VARIABLES out, over, mayFail

Init == out = <<>> /\ over = FALSE /\ mayFail \in BOOLEAN

Next == /\ ~over /\ over' \in BOOLEAN
        /\ \E n \in Len(out) .. Len(Input) : out' = SubSeq(Input, 1, n)
        /\ over' => mayFail \/ out' = Input
        /\ UNCHANGED mayFail

Spec == Init /\ [][Next]_<<out, over, mayFail>>
=============================================================================
