------------------------------ MODULE AioPipe ------------------------------
(***************************************************************************)
(* aiopipe.c: two asynchronous I/O control blocks copy standard input to   *)
(* standard output, each in a chain of its own driven by completion        *)
(* signals: aioread_done starts a write, aiowrite_done starts a read two   *)
(* blocks further on.  The mainline sleeps until both chains have ended.   *)
(*                                                                         *)
(* A transfer moves one whole block of BUFSIZE bytes.  The two completion  *)
(* signals mask each other, and the mainline masks both except inside      *)
(* sigsuspend, so a handler is one step; only the kernel's transfers run   *)
(* beside it.                                                              *)
(***************************************************************************)
EXTENDS CopyProgram, FiniteSets, Functions

VARIABLES blocked,     \* the completion signals are blocked in the mainline
          aio_to_go,   \* chains not known to have ended
          op,          \* the operation of each control block
          curr,        \* curr_offset
          mem,         \* contents of buf1 and buf2
          sigs,        \* queued completion signals: SIG_AIO_READ_DONE and
                       \* SIG_AIO_WRITE_DONE
          readable     \* standard output is open for reading as well

aioVars == <<blocked, aio_to_go, op, curr, mem, sigs>>

Aiocbs == {1, 2}
Kinds == {"read", "write"}
Idle == [phase |-> "idle", kind |-> "read", file |-> "stdin", buf |-> 1,
         offset |-> 0, result |-> 0]

AioTypeOK ==
    /\ blocked \in BOOLEAN
    /\ aio_to_go \in 0 .. 2
    /\ op \in [Aiocbs -> [phase  : {"idle", "flying", "done"},
                          kind   : Kinds,
                          file   : {"stdin", "stdout"},
                          buf    : {1, 2},
                          offset : Nat,
                          result : {-1, 0, 1}]]
    /\ curr \in [Aiocbs -> Nat]
    /\ mem \in [{1, 2} -> Nat]
    /\ sigs \in [Kinds -> Seq(Aiocbs)]
    /\ readable \in BOOLEAN

AioInit == /\ blocked = FALSE /\ aio_to_go = 0
           /\ op = [a \in Aiocbs |-> Idle]
           /\ curr = [a \in Aiocbs |-> 0]
           /\ mem = [b \in {1, 2} |-> 0]
           /\ sigs = [k \in Kinds |-> <<>>]
           /\ readable \in BOOLEAN

\* Submit an operation.  When the call fails no signal will ever come of it.
Submit(a, kind, file, buf, offset) ==
    \E phase \in (IF mayFail THEN {"flying", "idle"} ELSE {"flying"}) :
        op' = [op EXCEPT ![a] = [phase |-> phase, kind |-> kind,
                                 file |-> file, buf |-> buf,
                                 offset |-> offset, result |-> 0]]

\* Mutant: the completion signals are not blocked in the mainline.
BlockSignals_Not == UNCHANGED blocked

BlockSignals == blocked' = TRUE

main ==
    \/ /\ pc = "main"
       /\ \/ pc' = "a1" /\ BlockSignals /\ aio_to_go' = 2
          \/ pc' = "failed" /\ UNCHANGED <<blocked, aio_to_go>>  \* sigaction
       /\ UNCHANGED <<op, curr, mem, out, sigs>>
    \/ \E a \in Aiocbs :
          /\ pc = (IF a = 1 THEN "a1" ELSE "a2")
          /\ pc' = (IF a = 1 THEN "a2" ELSE "check")
          /\ Submit(a, "read", "stdin", a, a - 1)
          /\ curr' = [curr EXCEPT ![a] = a - 1]
          /\ UNCHANGED <<blocked, aio_to_go, mem, out, sigs>>
    \/ /\ pc = "check"
       /\ pc' = IF aio_to_go = 0 THEN "exited" ELSE "tested"
       /\ UNCHANGED <<blocked, aio_to_go, op, curr, mem, out, sigs>>
    \/ /\ pc = "tested" /\ pc' = "suspended"
       /\ UNCHANGED <<blocked, aio_to_go, op, curr, mem, out, sigs>>

\* The completion signal of control block a is delivered; the one for reads
\* has the lower number and goes first.
Deliver(kind, a) ==
    /\ pc \notin {"main", "exited", "failed"}
    /\ pc = "suspended" \/ ~blocked
    /\ sigs[kind] # <<>> /\ a = Head(sigs[kind])
    /\ kind = "write" => sigs["read"] = <<>>
    /\ sigs' = [sigs EXCEPT ![kind] = Tail(@)]
    /\ pc' = IF pc = "suspended" THEN "check" ELSE pc

\* Mutant: aio_to_go goes down on every completion.
aioread_done_AlwaysDown(a) ==
    /\ Deliver("read", a)
    /\ IF op[a].result > 0 THEN Submit(a, "write", "stdout", 1, curr[a])
                           ELSE op' = [op EXCEPT ![a].phase = "idle"]
    /\ aio_to_go' = aio_to_go - 1
    /\ UNCHANGED <<blocked, curr, mem, out>>

aioread_done(a) ==
    /\ Deliver("read", a)
    /\ IF op[a].result > 0
       THEN /\ Submit(a, "write", "stdout", 1, curr[a])
            /\ UNCHANGED aio_to_go
       ELSE /\ aio_to_go' = aio_to_go - 1
            /\ op' = [op EXCEPT ![a].phase = "idle"]
    /\ UNCHANGED <<blocked, curr, mem, out>>

\* Mutant: on to the next block, which is the peer's.
aiowrite_done_NextBlock(a) ==
    /\ Deliver("write", a)
    /\ curr' = [curr EXCEPT ![a] = @ + 1]
    /\ Submit(a, "read", "stdout", 1, curr'[a])
    /\ UNCHANGED <<blocked, aio_to_go, mem, out>>

aiowrite_done(a) ==
    /\ Deliver("write", a)
    /\ curr' = [curr EXCEPT ![a] = @ + 2]
    /\ Submit(a, "read", "stdout", 1, curr'[a])
    /\ UNCHANGED <<blocked, aio_to_go, mem, out>>

\* The file with block b at offset o.
Put(file, o, b) ==
    [i \in 1 .. (IF o < Len(file) THEN Len(file) ELSE o + 1) |->
        IF i = o + 1 THEN b ELSE IF i <= Len(file) THEN file[i] ELSE 0]

Source(a) == IF op[a].file = "stdin" THEN Input ELSE out
CanRead(a) == op[a].file = "stdin" \/ readable

\* The kernel carries out a transfer, or finds that it cannot, and queues the
\* completion signal.
Transfer(a) ==
    LET o == op[a].offset
        Done(r) == op' = [op EXCEPT ![a].phase = "done", ![a].result = r]
    IN
    /\ ~Over /\ op[a].phase = "flying"
    /\ \/ /\ op[a].kind = "write"
          /\ out' = Put(out, o, mem[op[a].buf])
          /\ Done(1) /\ UNCHANGED mem
       \/ /\ op[a].kind = "read" /\ CanRead(a) /\ o < Len(Source(a))
          /\ mem' = [mem EXCEPT ![op[a].buf] = Source(a)[o + 1]]
          /\ Done(1) /\ UNCHANGED out
       \/ /\ op[a].kind = "read" /\ CanRead(a) /\ o >= Len(Source(a))
          /\ Done(0) /\ UNCHANGED <<mem, out>>
       \/ /\ mayFail \/ (op[a].kind = "read" /\ ~CanRead(a))
          /\ Done(-1) /\ UNCHANGED <<mem, out>>
    /\ sigs' = [sigs EXCEPT ![op[a].kind] = Append(@, a)]
    /\ UNCHANGED <<pc, blocked, aio_to_go, curr>>

\* A chain has broken off without a signal: the mainline sleeps for ever.
Hung == /\ pc = "suspended" /\ \A a \in Aiocbs : op[a].phase = "idle"
        /\ UNCHANGED <<pc, out, aioVars>>

aiopipe == main \/ \E a \in Aiocbs : aioread_done(a) \/ aiowrite_done(a)

-----------------------------------------------------------------------------
(* Properties.                                                             *)

Live == {a \in Aiocbs : op[a].phase # "idle"}
Begun == program = "aiopipe"
         /\ pc \in {"check", "tested", "suspended", "exited"}

\* Control block a has been submitted at least once.
Fired(a) == Begun \/ (program = "aiopipe" /\ pc = "a2" /\ a = 1)
Busy(a) == IF op[a].phase = "idle" THEN 0 ELSE 1

(* The inductive invariant, part by part.                                  *)

\* No operation before the first aio_read, and the signals stay blocked
\* outside sigsuspend.
Resting ==
    /\ \A a \in Aiocbs : ~Fired(a) => op[a].phase = "idle"
    /\ program = "aiopipe" /\ pc \notin {"main", "failed"} => blocked = TRUE

\* The queues hold the finished operations, each once and in its own queue.
Queued == \A k \in Kinds :
            /\ IsInjective(sigs[k])
            /\ Range(sigs[k]) =
                 {a \in Aiocbs : op[a].phase = "done" /\ op[a].kind = k}

\* One chain has the even blocks and the other the odd ones.
InStep == \A a \in Aiocbs :
            Fired(a) => op[a].offset = curr[a] /\ curr[a] % 2 = a - 1

\* aio_to_go against the chains, from the first aio_read on.
Counted ==
    /\ program = "aiopipe" /\ pc \in {"a1", "a2"} => aio_to_go = 2
    /\ pc = "a2" /\ ~mayFail => Busy(1) = 1
    /\ Begun => Busy(1) + Busy(2) <= aio_to_go
    /\ Begun /\ ~mayFail => Busy(1) + Busy(2) = aio_to_go

\* A chain has written nothing further on than the block it is at, and that one
\* only if its write has been carried out.
Chain(i) == IF i % 2 = 1 THEN 1 ELSE 2
Behind ==
    program = "aiopipe" =>
        \A i \in 1 .. Len(out) : out[i] # 0 =>
            LET a == Chain(i)
            IN  /\ Fired(a) /\ i - 1 <= curr[a]
                /\ i - 1 = curr[a] => op[a].kind = "write" /\ op[a].phase # "flying"

AioInv == Resting /\ Queued /\ InStep /\ Counted /\ Behind

(* What follows from it.                                                   *)

\* aio_to_go never undercounts the chains that are still going, so that the
\* process never exits over one; when no call fails it counts them exactly.
CountsChains ==
    Begun => /\ Cardinality(Live) <= aio_to_go
             /\ ~mayFail => Cardinality(Live) = aio_to_go

\* Every queued signal belongs to exactly one finished operation: no result is
\* collected twice and no control block is reused while in flight.
OneSignalPerOperation ==
    \A a \in Aiocbs :
        Cardinality({s \in Kinds \X (1 .. 2) :
                        s[2] <= Len(sigs[s[1]]) /\ sigs[s[1]][s[2]] = a})
          = IF op[a].phase = "done" THEN 1 ELSE 0

\* "skipping the data being read by our peer": the chains never work on the
\* same block.
DisjointBlocks == Begun => op[1].offset # op[2].offset
=============================================================================
