---------------------------- MODULE CopyProgram ----------------------------
(***************************************************************************)
(* What iopipe.c and aiopipe.c share: standard input, standard output and  *)
(* the loop that moves the one to the other.  Files are sequences of       *)
(* blocks, a block is the least that a transfer moves, and offsets count   *)
(* blocks.                                                                 *)
(***************************************************************************)
EXTENDS Integers, Sequences

CONSTANT Input         \* the blocks of standard input

ASSUME InputAssumption == Input \in Seq(Nat \ {0})

VARIABLES program,     \* which of the two is run
          pc,          \* mainline
          out,         \* blocks of standard output, 0 for a hole
          mayFail      \* a call may fail, and a transfer may end in an I/O
                       \* error or be cut short by one

Over == pc \in {"exited", "failed"}
=============================================================================
