------------------------------- MODULE IoPipe -------------------------------
(***************************************************************************)
(* iopipe.c: copy standard input to standard output with read and write,   *)
(* BUFSIZE bytes at a time.  A read gives what there is, at least one      *)
(* block; a write that moves less than it was given ends the program,      *)
(* which exits 0 all the same.                                             *)
(***************************************************************************)
EXTENDS CopyProgram, FiniteSetsExt

CONSTANT BufSize       \* blocks that fit into buf

ASSUME BufSizeAssumption == BufSize \in Nat \ {0}

VARIABLES consumed,    \* blocks of standard input read so far
          nbytes       \* blocks of the last read

ioVars == <<consumed, nbytes>>

IoInit == consumed = 0 /\ nbytes = 0

Read ==
    /\ pc = "read"
    /\ \/ \E n \in 1 .. Min({BufSize, Len(Input) - consumed}) :
             pc' = "write" /\ nbytes' = n /\ consumed' = consumed + n
       \/ /\ consumed = Len(Input) \/ mayFail
          /\ pc' = "exited" /\ nbytes' = 0 /\ UNCHANGED consumed
    /\ UNCHANGED out

\* What write makes of n blocks.
Write(n) == out' = out \o SubSeq(Input, consumed - nbytes + 1,
                                 consumed - nbytes + n)

\* Mutant: the rest of a short write is not noticed.
write_GoOn == /\ pc = "write" /\ pc' = "read"
              /\ \E n \in (IF mayFail THEN 0 .. nbytes ELSE {nbytes}) : Write(n)
              /\ UNCHANGED ioVars

write == /\ pc = "write"
         /\ \E n \in (IF mayFail THEN 0 .. nbytes ELSE {nbytes}) :
               Write(n) /\ pc' = IF n = nbytes THEN "read" ELSE "exited"
         /\ UNCHANGED ioVars

iopipe == Read \/ write
=============================================================================
