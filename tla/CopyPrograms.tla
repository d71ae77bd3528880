---------------------------- MODULE CopyPrograms ----------------------------
(***************************************************************************)
(* The two programs that copy standard input to standard output; a         *)
(* behaviour is a run of one of them.  iopipe.c implements Copy.           *)
(***************************************************************************)
EXTENDS AioPipe, IoPipe

conditions == <<program, readable, mayFail>>      \* fixed from the start
vars == <<pc, out, aioVars, ioVars, conditions>>

Init == /\ program \in {"iopipe", "aiopipe"}
        /\ pc = IF program = "iopipe" THEN "read" ELSE "main"
        /\ out = <<>>
        /\ mayFail \in BOOLEAN
        /\ AioInit /\ IoInit

Synchronous == program = "iopipe" /\ iopipe /\ UNCHANGED aioVars
Asynchronous == program = "aiopipe" /\ aiopipe /\ UNCHANGED ioVars
Kernel(a) == Transfer(a) /\ UNCHANGED ioVars
Sleep == Hung /\ UNCHANGED ioVars
Ended == Over /\ UNCHANGED vars

Next == /\ \/ Synchronous \/ Asynchronous \/ Sleep \/ Ended
           \/ \E a \in Aiocbs : Kernel(a)
        /\ UNCHANGED conditions

\* A program runs, and the kernel completes every operation it accepted.
Spec == /\ Init /\ [][Next]_vars
        /\ WF_<<pc, out, ioVars>>(Synchronous)
        /\ WF_<<pc, out, aioVars>>(Asynchronous)
        /\ \A a \in Aiocbs : WF_<<pc, out, aioVars>>(Kernel(a))

-----------------------------------------------------------------------------
(* Properties.                                                             *)

TypeOK == /\ program \in {"iopipe", "aiopipe"}
          /\ pc \in IF program = "iopipe"
                   THEN {"read", "write", "exited"}
                   ELSE {"main", "a1", "a2", "check", "tested", "suspended",
                         "exited", "failed"}
          /\ out \in Seq(Nat) /\ mayFail \in BOOLEAN
          /\ consumed \in 0 .. Len(Input) /\ nbytes \in 0 .. BufSize
          /\ AioTypeOK

\* How far iopipe.c is: standard output has everything that was read, except
\* what buf still holds, and an end that is no error has all of the input.
CopySoFar ==
    program = "iopipe" =>
        CASE pc = "read"  -> out = SubSeq(Input, 1, consumed)
          [] pc = "write" -> /\ nbytes \in 1 .. consumed
                             /\ out = SubSeq(Input, 1, consumed - nbytes)
          [] OTHER        -> /\ \E n \in 0 .. Len(Input) :
                                   out = SubSeq(Input, 1, n)
                             /\ mayFail \/ out = Input

IInv == TypeOK /\ CopySoFar /\ AioInv

\* Types, how far each program is, one queued signal for each finished
\* operation of aiopipe.c, and chains that keep apart.
Inv == IInv /\ OneSignalPerOperation /\ DisjointBlocks

\* iopipe.c, "copies its standard input to standard output": whatever fails,
\* what it has written is a beginning of its input, and all of it when
\* nothing fails.
C == INSTANCE Copy WITH out <- IF program = "iopipe" THEN out ELSE <<>>,
                        over <- program = "iopipe" /\ Over
ImplementsCopy == C!Spec

Filled == {i \in 1 .. Len(out) : out[i] # 0}
Lands(a) == op[a].kind = "write" /\ op[a].phase = "flying" /\ op'[a].result = 1

\* No block of standard output is written twice or taken back, although the two
\* chains of aiopipe.c write wherever their own count of blocks has got to, in
\* any order, and never look at what is there.
NothingOverwritten ==
    [][/\ \A i \in Filled : i <= Len(out') /\ out'[i] = out[i]
       /\ \A a \in Aiocbs : Lands(a) => op[a].offset + 1 \notin Filled]_vars

\* Either program comes to an end; aiopipe.c when no call fails.
Terminates == program = "iopipe" \/ ~mayFail ~> Over

\* The same for aiopipe.c, which has two chains to do it: "Read some data, so
\* turn around and write it out", "Fire up another aio_read".
CopiesInput == pc = "exited" /\ ~mayFail => out = Input
=============================================================================
