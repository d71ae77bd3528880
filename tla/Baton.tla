------------------------------- MODULE Baton -------------------------------
(***************************************************************************)
(* What a two-process IPC benchmark of this repository promises while it   *)
(* runs: one baton travels parent -> child -> parent for ever.  Each side  *)
(* may pass it on only after it has arrived, so the two sides alternate    *)
(* strictly, nothing is lost and nothing is duplicated, until the parent   *)
(* stops the experiment.                                                   *)
(*                                                                         *)
(* SigSwitch (sigs_sent_swtch.c), SigQueueSwitch (sigs_sent_swtch.p4.c)    *)
(* and FifoBench (fifo.c) are shown to implement this module.              *)
(***************************************************************************)
EXTENDS Naturals

VARIABLES ball,      \* where the baton is
          rallies    \* complete round trips seen by the parent

batonVars == <<ball, rallies>>

\* "idle": not yet served.  "down": the experiment is over.
Places == {"idle", "parent", "toChild", "child", "toParent", "down"}

BatonTypeOK == ball \in Places /\ rallies \in Nat

BatonInit == ball = "idle" /\ rallies = 0

Serve == ball = "idle" /\ ball' = "parent" /\ UNCHANGED rallies

Pass(from, to) == ball = from /\ ball' = to /\ UNCHANGED rallies

\* The baton is back: one more round trip is counted.
Return == ball = "toParent" /\ ball' = "parent" /\ rallies' = rallies + 1

Drop == ball # "down" /\ ball' = "down" /\ UNCHANGED rallies

BatonNext == \/ Serve
             \/ Pass("parent", "toChild")
             \/ Pass("toChild", "child")
             \/ Pass("child", "toParent")
             \/ Return
             \/ Drop

BatonSpec == BatonInit /\ [][BatonNext]_batonVars
=============================================================================
