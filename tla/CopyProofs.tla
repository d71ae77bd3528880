----------------------------- MODULE CopyProofs -----------------------------
(***************************************************************************)
(* Theorems about CopyPrograms (iopipe.c and aiopipe.c), for any input and *)
(* any size of the buffer.                                                 *)
(***************************************************************************)
EXTENDS CopyPrograms, FiniteSetTheorems, SequenceTheorems, TLAPS

USE InputAssumption, BufSizeAssumption
USE DEF InputAssumption, BufSizeAssumption, Aiocbs, Kinds

-----------------------------------------------------------------------------
(* Sequences: files and queues.                                            *)

\* The smaller of two numbers is one of them and no more than either.
LEMMA Smaller ==
    ASSUME NEW m \in Int, NEW n \in Int
    PROVE  /\ Min({m, n}) \in {m, n}
           /\ Min({m, n}) <= m /\ Min({m, n}) <= n
<1>1. \E x \in {m, n} : \A y \in {m, n} : x =< y
  <2>1. CASE m =< n
    BY <2>1
  <2>2. CASE ~(m =< n)
    BY <2>2
  <2>3. QED
    BY <2>1, <2>2
<1>2. Min({m, n}) \in {m, n} /\ \A y \in {m, n} : Min({m, n}) =< y
  BY <1>1 DEF Min
<1>3. QED
  BY <1>2

\* A queue without repetitions gains an element it does not have.
LEMMA QueueAppend ==
    ASSUME NEW S, NEW s \in Seq(S), NEW a \in S,
           IsInjective(s), a \notin Range(s)
    PROVE  /\ Append(s, a) \in Seq(S)
           /\ IsInjective(Append(s, a))
           /\ Range(Append(s, a)) = Range(s) \cup {a}
<1> DEFINE t == Append(s, a)
<1>1. /\ t \in Seq(S) /\ Len(t) = Len(s) + 1 /\ t[Len(s) + 1] = a
      /\ \A i \in 1 .. Len(s) : t[i] = s[i]
  OBVIOUS
<1>2. DOMAIN t = 1 .. Len(s) + 1 /\ DOMAIN s = 1 .. Len(s)
  BY <1>1
<1> HIDE DEF t
<1>3. IsInjective(t)
  <2>1. \A i \in 1 .. Len(s) : t[i] # a
    BY <1>1, <1>2 DEF Range
  <2>2. \A i \in 1 .. Len(s) + 1 : i \in 1 .. Len(s) \/ i = Len(s) + 1
    BY <1>1
  <2>3. \A i, j \in 1 .. Len(s) + 1 : t[i] = t[j] => i = j
    BY <1>1, <1>2, <2>1, <2>2 DEF IsInjective
  <2>4. QED
    BY <1>2, <2>3 DEF IsInjective
<1>4. Range(t) = Range(s) \cup {a}
  <2>1. ASSUME NEW x \in Range(t) PROVE x \in Range(s) \cup {a}
    BY <1>1, <1>2 DEF Range
  <2>2. ASSUME NEW x \in Range(s) \cup {a} PROVE x \in Range(t)
    BY <1>1, <1>2 DEF Range
  <2>3. QED
    BY <2>1, <2>2
<1>5. QED
  BY <1>1, <1>3, <1>4 DEF t

\* A queue without repetitions loses its head.
LEMMA QueueTail ==
    ASSUME NEW S, NEW s \in Seq(S), s # <<>>, IsInjective(s)
    PROVE  /\ Head(s) \in Range(s)
           /\ Tail(s) \in Seq(S)
           /\ IsInjective(Tail(s))
           /\ Range(Tail(s)) = Range(s) \ {Head(s)}
<1> DEFINE t == Tail(s)
<1>1. /\ Len(s) >= 1 /\ Head(s) = s[1]
      /\ t \in Seq(S) /\ Len(t) = Len(s) - 1
      /\ \A i \in 1 .. Len(s) - 1 : t[i] = s[i + 1]
  OBVIOUS
<1>2. DOMAIN t = 1 .. Len(s) - 1 /\ DOMAIN s = 1 .. Len(s)
  BY <1>1
<1> HIDE DEF t
<1>3. IsInjective(t)
  <2>1. ASSUME NEW i \in DOMAIN t, NEW j \in DOMAIN t, t[i] = t[j]
        PROVE  i = j
    <3>1. i + 1 \in DOMAIN s /\ j + 1 \in DOMAIN s /\ s[i + 1] = s[j + 1]
      BY <1>1, <1>2, <2>1
    <3>2. QED
      BY <1>2, <3>1 DEF IsInjective
  <2>2. QED
    BY <2>1 DEF IsInjective
<1>4. \A i \in 2 .. Len(s) : i - 1 \in 1 .. Len(s) - 1 /\ t[i - 1] = s[i]
  BY <1>1
<1>5. Range(t) = Range(s) \ {Head(s)}
  <2>1. ASSUME NEW x \in Range(t) PROVE x \in Range(s) \ {Head(s)}
    <3>1. PICK i \in 1 .. Len(s) - 1 : x = s[i + 1]
      BY <1>1, <1>2 DEF Range
    <3>2. i + 1 \in DOMAIN s /\ 1 \in DOMAIN s /\ i + 1 # 1
      BY <1>1, <1>2
    <3>3. QED
      BY <1>1, <3>1, <3>2 DEF IsInjective, Range
  <2>2. ASSUME NEW x \in Range(s) \ {Head(s)} PROVE x \in Range(t)
    <3>1. PICK i \in 1 .. Len(s) : x = s[i]
      BY <1>2 DEF Range
    <3>2. i \in 2 .. Len(s)
      BY <1>1, <3>1
    <3>3. QED
      BY <1>2, <1>4, <3>1, <3>2 DEF Range
  <2>3. QED
    BY <2>1, <2>2
<1>6. Head(s) \in Range(s)
  BY <1>1, <1>2 DEF Range
<1>7. QED
  BY <1>1, <1>3, <1>5, <1>6 DEF t

\* A file is still one after a block has been put into it.
LEMMA PutFile ==
    ASSUME NEW file \in Seq(Nat), NEW o \in Nat, NEW b \in Nat
    PROVE  Put(file, o, b) \in Seq(Nat)
<1> DEFINE n == IF o < Len(file) THEN Len(file) ELSE o + 1
<1>1. n \in Nat
  OBVIOUS
<1>2. ASSUME NEW i \in 1 .. n
      PROVE  (IF i = o + 1 THEN b ELSE IF i <= Len(file) THEN file[i] ELSE 0)
                \in Nat
  OBVIOUS
<1>3. QED
  BY <1>1, <1>2 DEF Put
-----------------------------------------------------------------------------
(* iopipe.c.                                                               *)

\* iopipe.c leaves what belongs to aiopipe.c alone.
LEMMA AioApart ==
    ASSUME IInv, program = "iopipe", program' = "iopipe",
           pc' \in {"read", "write", "exited"}, UNCHANGED aioVars,
           UNCHANGED readable
    PROVE  AioTypeOK' /\ AioInv'
<1>1. ~Begun' /\ ~Begun /\ \A a \in Aiocbs : ~Fired(a)' /\ ~Fired(a)
  BY DEF Begun, Fired
<1>2. AioTypeOK'
  BY DEF IInv, TypeOK, AioTypeOK, aioVars
<1>3. Resting' /\ Queued'
  BY <1>1 DEF IInv, AioInv, Resting, Queued, aioVars
<1>4. InStep' /\ Counted'
  BY <1>1 DEF InStep, Counted
<1>5. Behind'
  BY DEF Behind
<1>6. QED
  BY <1>2, <1>3, <1>4, <1>5 DEF AioInv

\* A read, which finds at least one block or the end, keeps the invariant.
LEMMA ReadStep ==
    ASSUME IInv, program = "iopipe", Read, UNCHANGED aioVars,
           UNCHANGED conditions
    PROVE  IInv'
<1>1. AioTypeOK' /\ AioInv'
  BY AioApart DEF Read, conditions
<1>2. CASE \E n \in 1 .. Min({BufSize, Len(Input) - consumed}) :
              pc' = "write" /\ nbytes' = n /\ consumed' = consumed + n
  <2>1. PICK n \in 1 .. Min({BufSize, Len(Input) - consumed}) :
              pc' = "write" /\ nbytes' = n /\ consumed' = consumed + n
    BY <1>2
  <2>2. consumed \in 0 .. Len(Input) /\ Len(Input) \in Nat
    BY DEF IInv, TypeOK
  <2> DEFINE rest == Len(Input) - consumed
  <2>3. n \in Nat \ {0} /\ n <= BufSize /\ n <= Len(Input) - consumed
    <3>1. rest \in Int /\ BufSize \in Int
      BY <2>2
    <3>2. n \in 1 .. Min({BufSize, rest})
      BY <2>1
    <3> HIDE DEF rest
    <3>3. /\ Min({BufSize, rest}) \in Int
          /\ Min({BufSize, rest}) <= BufSize /\ Min({BufSize, rest}) <= rest
      BY <3>1, Smaller
    <3>4. QED
      BY <3>1, <3>2, <3>3 DEF rest
  <2>4. TypeOK'
    BY <1>1, <2>1, <2>2, <2>3 DEF IInv, TypeOK, Read, conditions
  <2>5. out' = SubSeq(Input, 1, consumed' - nbytes')
    BY <2>1, <2>2, <2>3 DEF IInv, CopySoFar, Read
  <2>6. CopySoFar'
    BY <2>1, <2>2, <2>3, <2>5 DEF CopySoFar
  <2>7. QED
    BY <1>1, <2>4, <2>6 DEF IInv
<1>3. CASE /\ consumed = Len(Input) \/ mayFail
           /\ pc' = "exited" /\ nbytes' = 0 /\ UNCHANGED consumed
  <2>1. TypeOK'
    BY <1>1, <1>3 DEF IInv, TypeOK, Read, conditions
  <2>2. consumed \in 0 .. Len(Input) /\ out' = SubSeq(Input, 1, consumed)
    BY DEF IInv, TypeOK, CopySoFar, Read
  <2>3. mayFail' \/ out' = Input
    BY <1>3, <2>2, SubSeqFull DEF conditions
  <2>4. CopySoFar'
    BY <1>3, <2>2, <2>3 DEF CopySoFar
  <2>5. QED
    BY <1>1, <2>1, <2>4 DEF IInv
<1>4. QED
  BY <1>2, <1>3 DEF Read

\* A write, which moves all of what was read or ends the program, keeps it.
LEMMA WriteStep ==
    ASSUME IInv, program = "iopipe", write, UNCHANGED aioVars,
           UNCHANGED conditions
    PROVE  IInv'
<1>1. AioTypeOK' /\ AioInv'
  BY AioApart DEF write, conditions
<1>2. /\ consumed \in 0 .. Len(Input) /\ nbytes \in 1 .. consumed
      /\ nbytes <= BufSize /\ out = SubSeq(Input, 1, consumed - nbytes)
  BY DEF IInv, TypeOK, CopySoFar, write
<1>3. PICK n \in 0 .. nbytes :
           /\ Write(n) /\ pc' = IF n = nbytes THEN "read" ELSE "exited"
           /\ n = nbytes \/ mayFail
  <2>1. nbytes \in 0 .. nbytes
    BY <1>2
  <2>2. QED
    BY <2>1 DEF write
<1>4. out' = SubSeq(Input, 1, consumed - nbytes + n)
  <2> DEFINE k == consumed - nbytes
  <2>1. /\ k \in 1 - 1 .. Len(Input) /\ k + n \in k .. Len(Input)
        /\ 1 \in 1 .. Len(Input) + 1 /\ Input \in Seq(Nat \ {0})
    BY <1>2
  <2> HIDE DEF k
  <2>2. SubSeq(Input, 1, k) \o SubSeq(Input, k + 1, k + n)
          = SubSeq(Input, 1, k + n)
    BY <2>1, ConcatAdjacentSubSeq
  <2>3. QED
    BY <1>2, <1>3, <2>2 DEF Write, k
<1>5. consumed - nbytes + n \in 0 .. Len(Input)
  BY <1>2
<1>6. TypeOK'
  BY <1>1, <1>2, <1>3, <1>4, <1>5 DEF IInv, TypeOK, write, ioVars, conditions
<1>7. CASE n = nbytes
  BY <1>1, <1>2, <1>3, <1>4, <1>6, <1>7
  DEF IInv, CopySoFar, write, ioVars, conditions
<1>8. CASE n # nbytes
  BY <1>1, <1>3, <1>4, <1>5, <1>6, <1>8
  DEF IInv, CopySoFar, write, ioVars, conditions
<1>9. QED
  BY <1>7, <1>8
-----------------------------------------------------------------------------
(* aiopipe.c: what its steps do to the control blocks and to the queues.   *)

Operations == [phase : {"idle", "flying", "done"}, kind : Kinds,
               file : {"stdin", "stdout"}, buf : {1, 2}, offset : Nat,
               result : {-1, 0, 1}]

\* What a submission leaves in its control block, and in the other one.
LEMMA Submitted ==
    ASSUME op \in [Aiocbs -> Operations],
           NEW a \in Aiocbs, NEW kind \in Kinds, NEW buf \in {1, 2},
           NEW file \in {"stdin", "stdout"}, NEW offset \in Nat,
           Submit(a, kind, file, buf, offset)
    PROVE  /\ op' \in [Aiocbs -> Operations]
           /\ op'[a].phase # "done" /\ op'[a].offset = offset
           /\ mayFail \/ op'[a].phase = "flying"
           /\ \A b \in Aiocbs \ {a} : op'[b] = op[b]
<1> DEFINE New(phase) == [phase |-> phase, kind |-> kind, file |-> file,
                          buf |-> buf, offset |-> offset, result |-> 0]
<1>1. PICK phase \in {"flying", "idle"} :
           op' = [op EXCEPT ![a] = New(phase)] /\ (mayFail \/ phase = "flying")
  BY DEF Submit
<1>2. New(phase) \in Operations
  BY DEF Operations
<1>3. New(phase).phase = phase /\ New(phase).offset = offset
  OBVIOUS
<1> HIDE DEF New
<1>4. op' \in [Aiocbs -> Operations] /\ op'[a] = New(phase)
  BY <1>1, <1>2
<1>5. \A b \in Aiocbs \ {a} : op'[b] = op[b]
  BY <1>1
<1>6. QED
  BY <1>1, <1>3, <1>4, <1>5

\* The queues stay right when no operation is finished or forgotten.
LEMMA QueuesStay ==
    ASSUME Queued, sigs' = sigs,
           \A b \in Aiocbs : /\ op'[b].phase = "done" <=> op[b].phase = "done"
                             /\ op[b].phase = "done" => op'[b].kind = op[b].kind
    PROVE  Queued'
BY DEF Queued

\* Delivering a signal wakes the mainline, and takes the signal of a finished
\* operation of control block a from its queue; once the control block is
\* used again the queues are right.
LEMMA Delivered ==
    ASSUME IInv, program = "aiopipe", NEW k \in Kinds, NEW a \in Aiocbs,
           Deliver(k, a), op'[a].phase # "done",
           \A b \in Aiocbs \ {a} : op'[b] = op[b]
    PROVE  /\ pc = "suspended" /\ pc' = "check"
           /\ op[a].phase = "done" /\ op[a].kind = k
           /\ sigs' \in [Kinds -> Seq(Aiocbs)]
           /\ Queued'
<1>1. sigs \in [Kinds -> Seq(Aiocbs)] /\ Queued
  BY DEF IInv, TypeOK, AioTypeOK, AioInv
<1>2. pc = "suspended" /\ pc' = "check"
  <2>1. pc \notin {"main", "failed"} /\ (pc = "suspended" \/ ~blocked)
    BY DEF Deliver
  <2>2. blocked = TRUE
    BY <2>1 DEF IInv, AioInv, Resting
  <2>3. QED
    BY <2>1, <2>2 DEF Deliver
<1>3. /\ sigs[k] \in Seq(Aiocbs) /\ sigs[k] # <<>> /\ a = Head(sigs[k])
      /\ IsInjective(sigs[k])
      /\ Range(sigs[k]) =
           {b \in Aiocbs : op[b].phase = "done" /\ op[b].kind = k}
  BY <1>1 DEF Deliver, Queued
<1>4. /\ a \in Range(sigs[k]) /\ Tail(sigs[k]) \in Seq(Aiocbs)
      /\ IsInjective(Tail(sigs[k]))
      /\ Range(Tail(sigs[k])) = Range(sigs[k]) \ {a}
  BY <1>3, QueueTail
<1>5. op[a].phase = "done" /\ op[a].kind = k
  BY <1>3, <1>4
<1>6. /\ sigs' = [sigs EXCEPT ![k] = Tail(sigs[k])]
      /\ sigs' \in [Kinds -> Seq(Aiocbs)]
      /\ sigs'[k] = Tail(sigs[k])
      /\ \A j \in Kinds \ {k} : sigs'[j] = sigs[j]
  BY <1>1, <1>4 DEF Deliver
<1>7. ASSUME NEW j \in Kinds
      PROVE  /\ IsInjective(sigs'[j])
             /\ Range(sigs'[j]) =
                  {b \in Aiocbs : op'[b].phase = "done" /\ op'[b].kind = j}
  <2>1. CASE j = k
    <3>1. {b \in Aiocbs : op'[b].phase = "done" /\ op'[b].kind = k}
            = {b \in Aiocbs : op[b].phase = "done" /\ op[b].kind = k} \ {a}
      OBVIOUS
    <3>2. QED
      BY <1>3, <1>4, <1>6, <2>1, <3>1
  <2>2. CASE j # k
    <3>1. {b \in Aiocbs : op'[b].phase = "done" /\ op'[b].kind = j}
            = {b \in Aiocbs : op[b].phase = "done" /\ op[b].kind = j}
      BY <1>5, <2>2
    <3>2. QED
      BY <1>1, <1>6, <2>2, <3>1 DEF Queued
  <2>3. QED
    BY <2>1, <2>2
<1>8. Queued'
  BY <1>7 DEF Queued
<1>9. QED
  BY <1>2, <1>5, <1>6, <1>8

\* A finished transfer is queued once.
LEMMA Transferred ==
    ASSUME IInv, NEW a \in Aiocbs, op[a].phase = "flying",
           op'[a].phase = "done", op'[a].kind = op[a].kind,
           \A b \in Aiocbs \ {a} : op'[b] = op[b],
           sigs' = [sigs EXCEPT ![op[a].kind] = Append(@, a)]
    PROVE  /\ sigs' \in [Kinds -> Seq(Aiocbs)]
           /\ Queued'
<1> DEFINE k == op[a].kind
<1>1. sigs \in [Kinds -> Seq(Aiocbs)] /\ Queued /\ k \in Kinds
  <2>1. op[a] \in Operations
    BY DEF IInv, TypeOK, AioTypeOK, Operations
  <2>2. QED
    BY <2>1 DEF IInv, TypeOK, AioTypeOK, AioInv, Operations
<1>2. /\ sigs[k] \in Seq(Aiocbs) /\ IsInjective(sigs[k])
      /\ Range(sigs[k]) =
           {b \in Aiocbs : op[b].phase = "done" /\ op[b].kind = k}
      /\ a \notin Range(sigs[k])
  BY <1>1 DEF Queued
<1> DEFINE t == Append(sigs[k], a)
<1>3. /\ t \in Seq(Aiocbs) /\ IsInjective(t)
      /\ Range(t) = Range(sigs[k]) \cup {a}
  BY <1>2, QueueAppend
<1> HIDE DEF k
<1>4. sigs' = [sigs EXCEPT ![k] = t]
  BY DEF k
<1> HIDE DEF t
<1>5. /\ sigs' \in [Kinds -> Seq(Aiocbs)] /\ sigs'[k] = t
      /\ \A j \in Kinds \ {k} : sigs'[j] = sigs[j]
  <2>1. /\ sigs \in [Kinds -> Seq(Aiocbs)] /\ k \in Kinds
        /\ t \in Seq(Aiocbs)
    BY <1>1, <1>3
  <2>2. sigs' \in [Kinds -> Seq(Aiocbs)]
    BY <2>1, <1>4, Zenon
  <2>3. sigs'[k] = t
    BY <2>1, <1>4, Zenon
  <2>4. \A j \in Kinds \ {k} : sigs'[j] = sigs[j]
    BY <2>1, <1>4, Zenon
  <2>5. QED
    BY <2>2, <2>3, <2>4
<1>6. ASSUME NEW j \in Kinds
      PROVE  /\ IsInjective(sigs'[j])
             /\ Range(sigs'[j]) =
                  {b \in Aiocbs : op'[b].phase = "done" /\ op'[b].kind = j}
  <2>1. CASE j = k
    <3>1. {b \in Aiocbs : op'[b].phase = "done" /\ op'[b].kind = k}
            = {b \in Aiocbs : op[b].phase = "done" /\ op[b].kind = k}
                \cup {a}
      BY DEF k
    <3>2. QED
      BY <1>2, <1>3, <1>5, <2>1, <3>1
  <2>2. CASE j # k
    <3>1. {b \in Aiocbs : op'[b].phase = "done" /\ op'[b].kind = j}
            = {b \in Aiocbs : op[b].phase = "done" /\ op[b].kind = j}
      BY <2>2 DEF k
    <3>2. QED
      BY <1>1, <1>5, <2>2, <3>1 DEF Queued
  <2>3. QED
    BY <2>1, <2>2
<1>7. Queued'
  BY <1>6 DEF Queued
<1>8. QED
  BY <1>5, <1>7
-----------------------------------------------------------------------------
(* aiopipe.c: its steps keep the invariant.                                *)

\* A block of standard output belongs to one of the two chains.
LEMMA ChainIs == \A i \in Nat : Chain(i) \in Aiocbs
BY DEF Chain

\* The write of the block that control block a is at is not still to come.
Written(a) == op[a].kind = "write" /\ op[a].phase # "flying"

\* Nothing is written and at most one chain moves, forward, or stays at its
\* block without taking its write up again: standard output still has nothing
\* further on than the chains are.
LEMMA BehindKept ==
    ASSUME IInv, program = "aiopipe", out' = out, NEW a \in Aiocbs,
           \A b \in Aiocbs : Fired(b) => Fired(b)',
           \A b \in Aiocbs \ {a} : op'[b] = op[b] /\ curr'[b] = curr[b],
           Fired(a) => \/ curr'[a] = curr[a] + 2
                       \/ curr'[a] = curr[a] /\ (Written(a) => Written(a)')
    PROVE  Behind'
<1> SUFFICES ASSUME NEW i \in 1 .. Len(out), out[i] # 0
             PROVE  /\ Fired(Chain(i))' /\ i - 1 <= curr'[Chain(i)]
                    /\ i - 1 = curr'[Chain(i)] => Written(Chain(i))'
  BY DEF Behind, Written
<1> DEFINE b == Chain(i)
<1>1. b \in Aiocbs /\ curr[b] \in Nat /\ i \in Nat
  <2>1. curr \in [Aiocbs -> Nat] /\ Len(out) \in Nat
    BY DEF IInv, TypeOK, AioTypeOK
  <2>2. QED
    BY <2>1, ChainIs
<1>2. Fired(b) /\ i - 1 <= curr[b] /\ (i - 1 = curr[b] => Written(b))
  BY DEF IInv, AioInv, Behind, Written
<1> HIDE DEF b
<1>3. /\ Fired(b)' /\ i - 1 <= curr'[b]
      /\ i - 1 = curr'[b] => Written(b)'
  <2>1. CASE b # a
    BY <1>1, <1>2, <2>1 DEF Written
  <2>2. CASE b = a
    BY <1>1, <1>2, <2>2
  <2>3. QED
    BY <2>1, <2>2
<1>4. QED
  BY <1>3 DEF b

\* The mainline.
LEMMA MainStep ==
    ASSUME IInv, program = "aiopipe", main, UNCHANGED ioVars,
           UNCHANGED conditions
    PROVE  IInv'
<1>1. /\ op \in [Aiocbs -> Operations] /\ curr \in [Aiocbs -> Nat]
      /\ sigs \in [Kinds -> Seq(Aiocbs)] /\ mem \in [{1, 2} -> Nat]
      /\ blocked \in BOOLEAN /\ aio_to_go \in 0 .. 2
  BY DEF IInv, TypeOK, AioTypeOK, Operations
<1>2. Resting /\ Queued /\ InStep /\ Counted
  BY DEF IInv, AioInv
<1>3. program' = "aiopipe" /\ CopySoFar' /\ mayFail' = mayFail
  BY DEF conditions, CopySoFar
<1>4. CASE /\ pc = "main"
           /\ \/ pc' = "a1" /\ BlockSignals /\ aio_to_go' = 2
              \/ pc' = "failed" /\ UNCHANGED <<blocked, aio_to_go>>
           /\ UNCHANGED <<op, curr, mem, out, sigs>>
  <2>1. TypeOK'
    <3>1. blocked' \in BOOLEAN /\ aio_to_go' \in 0 .. 2
      <4>1. CASE BlockSignals /\ aio_to_go' = 2
        BY <4>1 DEF BlockSignals
      <4>2. CASE UNCHANGED <<blocked, aio_to_go>>
        BY <1>1, <4>2
      <4>3. QED
        BY <1>4, <4>1, <4>2
    <3>2. pc' \in {"a1", "failed"}
      BY <1>4
    <3>3. QED
      BY <1>4, <3>1, <3>2 DEF IInv, TypeOK, AioTypeOK, ioVars, conditions
  <2>2. Queued'
    BY <1>2, <1>4 DEF Queued
  <2>3. \A a \in Aiocbs : ~Fired(a)' /\ ~Fired(a)
    BY <1>4 DEF Fired, Begun
  <2>4. Resting'
    BY <1>2, <1>4, <2>3 DEF Resting, BlockSignals
  <2>5. InStep' /\ Counted'
    BY <1>4, <2>3 DEF InStep, Counted, Begun
  <2>6. Behind'
    BY <1>4, <2>3, BehindKept
  <2>7. QED
    BY <1>3, <2>1, <2>2, <2>4, <2>5, <2>6 DEF IInv, AioInv
<1>5. ASSUME NEW a \in Aiocbs,
             pc = (IF a = 1 THEN "a1" ELSE "a2"),
             pc' = (IF a = 1 THEN "a2" ELSE "check"),
             Submit(a, "read", "stdin", a, a - 1),
             curr' = [curr EXCEPT ![a] = a - 1],
             UNCHANGED <<blocked, aio_to_go, mem, out, sigs>>
      PROVE  IInv'
  <2>1. /\ op' \in [Aiocbs -> Operations]
        /\ op'[a].phase # "done" /\ op'[a].offset = a - 1
        /\ mayFail \/ op'[a].phase = "flying"
        /\ \A b \in Aiocbs \ {a} : op'[b] = op[b]
    <3>1. a - 1 \in Nat /\ a \in {1, 2}
      OBVIOUS
    <3>2. QED
      BY <1>1, <1>5, <3>1, Submitted
  <2>2. /\ curr' \in [Aiocbs -> Nat] /\ curr'[a] = a - 1
        /\ \A b \in Aiocbs \ {a} : curr'[b] = curr[b]
    BY <1>1, <1>5
  <2>3. TypeOK'
    BY <1>5, <2>1, <2>2
    DEF IInv, TypeOK, AioTypeOK, Operations, ioVars, conditions
  <2>4. ~Fired(a)
    BY <1>5 DEF Fired, Begun
  <2>5. Queued'
    BY <1>2, <1>5, <2>1, <2>4, QueuesStay DEF Resting
  <2>6. \A b \in Aiocbs \ {a} : Fired(b)' <=> Fired(b)
    BY <1>3, <1>5 DEF Fired, Begun
  <2>7. Fired(a)'
    BY <1>3, <1>5 DEF Fired, Begun
  <2>8. Resting'
    BY <1>2, <1>5, <2>1, <2>6, <2>7 DEF Resting
  <2>9. InStep'
    <3>1. (a - 1) % 2 = a - 1
      OBVIOUS
    <3>2. QED
      BY <1>2, <2>1, <2>2, <2>6, <3>1 DEF InStep
  <2>10. Counted'
    <3>1. aio_to_go' = 2
      BY <1>2, <1>5 DEF Counted
    <3>2. CASE a = 1
      BY <1>3, <1>5, <2>1, <3>1, <3>2 DEF Counted, Begun, Busy
    <3>3. CASE a = 2
      <4>1. ~mayFail => op'[1] = op[1] /\ Busy(1) = 1 /\ Busy(2)' = 1
        BY <1>2, <1>5, <2>1, <3>3 DEF Counted, Busy
      <4>2. ~mayFail => Busy(1)' = 1 /\ Busy(2)' = 1
        BY <4>1 DEF Busy
      <4>3. Busy(1)' \in {0, 1} /\ Busy(2)' \in {0, 1}
        BY DEF Busy
      <4>4. pc' = "check"
        BY <1>5, <3>3
      <4>5. QED
        BY <1>3, <3>1, <4>2, <4>3, <4>4 DEF Counted
    <3>4. QED
      BY <3>2, <3>3
  <2>11. Behind'
    BY <1>5, <2>1, <2>2, <2>4, <2>6, BehindKept
  <2>12. QED
    BY <1>3, <2>3, <2>5, <2>8, <2>9, <2>10, <2>11 DEF IInv, AioInv
<1>6. CASE /\ \/ pc = "check" /\ pc' = IF aio_to_go = 0 THEN "exited"
                                                     ELSE "tested"
              \/ pc = "tested" /\ pc' = "suspended"
           /\ UNCHANGED <<blocked, aio_to_go, op, curr, mem, out, sigs>>
  <2>1. TypeOK'
    BY <1>6 DEF IInv, TypeOK, AioTypeOK, ioVars, conditions
  <2>2. Begun /\ Begun' /\ \A a \in Aiocbs : Fired(a)' /\ Fired(a)
    BY <1>3, <1>6 DEF Begun, Fired
  <2>3. Queued' /\ InStep'
    BY <1>2, <1>6, <2>2 DEF Queued, InStep
  <2>4. Resting'
    BY <1>2, <1>6, <2>2 DEF Resting
  <2>5. Counted'
    <3>1. Busy(1)' = Busy(1) /\ Busy(2)' = Busy(2) /\ aio_to_go' = aio_to_go
      BY <1>6 DEF Busy
    <3>2. pc' \notin {"a1", "a2"}
      BY <1>6
    <3>3. QED
      BY <1>2, <1>3, <2>2, <3>1, <3>2 DEF Counted
  <2>6. Behind'
    <3>1. ASSUME NEW a \in Aiocbs PROVE Written(a)' <=> Written(a)
      BY <1>6 DEF Written
    <3>2. \A b \in Aiocbs : op'[b] = op[b] /\ curr'[b] = curr[b]
      BY <1>6
    <3>3. QED
      BY <1>6, <2>2, <3>1, <3>2, BehindKept
  <2>7. QED
    BY <1>3, <2>1, <2>3, <2>4, <2>5, <2>6 DEF IInv, AioInv
<1>7. QED
  BY <1>4, <1>5, <1>6 DEF main

\* The part of a handler that its outcome does not change: the operation of
\* control block a is finished with, and either it has another or the chain
\* has ended.
LEMMA HandlerStep ==
    ASSUME IInv, program = "aiopipe", NEW k \in Kinds, NEW a \in Aiocbs,
           Deliver(k, a),
           op' \in [Aiocbs -> Operations], op'[a].phase # "done",
           \A b \in Aiocbs \ {a} : op'[b] = op[b],
           curr' \in [Aiocbs -> Nat], curr'[a] % 2 = curr[a] % 2,
           op'[a].offset = curr'[a],
           curr'[a] = curr[a] + 2 \/ (curr'[a] = curr[a] /\ k = "read"),
           \A b \in Aiocbs \ {a} : curr'[b] = curr[b],
           aio_to_go' \in {aio_to_go - 1, aio_to_go},
           aio_to_go' = aio_to_go - 1 => op'[a].phase = "idle",
           aio_to_go' = aio_to_go => mayFail \/ op'[a].phase = "flying",
           UNCHANGED <<blocked, mem, out>>, UNCHANGED ioVars,
           UNCHANGED conditions
    PROVE  IInv'
<1>1. /\ op \in [Aiocbs -> Operations] /\ curr \in [Aiocbs -> Nat]
      /\ blocked \in BOOLEAN /\ aio_to_go \in 0 .. 2
  BY DEF IInv, TypeOK, AioTypeOK, Operations
<1>2. Resting /\ Queued /\ InStep /\ Counted
  BY DEF IInv, AioInv
<1>3. program' = "aiopipe" /\ CopySoFar' /\ mayFail' = mayFail
  BY DEF conditions, CopySoFar
<1>4. /\ pc = "suspended" /\ pc' = "check"
      /\ op[a].phase = "done" /\ op[a].kind = k
      /\ sigs' \in [Kinds -> Seq(Aiocbs)] /\ Queued'
  BY Delivered
<1>5. Begun /\ Begun' /\ \A b \in Aiocbs : Fired(b)' /\ Fired(b)
  BY <1>3, <1>4 DEF Begun, Fired
<1>6. /\ Busy(1) \in {0, 1} /\ Busy(2) \in {0, 1}
      /\ Busy(1)' \in {0, 1} /\ Busy(2)' \in {0, 1}
      /\ \A b \in Aiocbs \ {a} : Busy(b)' = Busy(b)
      /\ Busy(a) = 1
      /\ aio_to_go' = aio_to_go - 1 => Busy(a)' = 0
      /\ aio_to_go' = aio_to_go => mayFail \/ Busy(a)' = 1
  BY <1>4 DEF Busy
<1>7. /\ Busy(1) + Busy(2) <= aio_to_go
      /\ ~mayFail => Busy(1) + Busy(2) = aio_to_go
  BY <1>2, <1>5 DEF Counted
<1>8. /\ aio_to_go' \in 0 .. 2
      /\ Busy(1)' + Busy(2)' <= aio_to_go'
      /\ ~mayFail => Busy(1)' + Busy(2)' = aio_to_go'
  <2>1. CASE a = 1
    BY <1>1, <1>6, <1>7, <2>1
  <2>2. CASE a = 2
    BY <1>1, <1>6, <1>7, <2>2
  <2>3. QED
    BY <2>1, <2>2
<1>9. TypeOK'
  BY <1>1, <1>4, <1>8
  DEF IInv, TypeOK, AioTypeOK, Operations, ioVars, conditions
<1>10. Resting'
  BY <1>2, <1>4, <1>5 DEF Resting
<1>11. InStep'
  BY <1>2, <1>5 DEF InStep
<1>12. Counted'
  BY <1>3, <1>4, <1>8 DEF Counted
<1>13. Behind'
  <2>1. curr'[a] = curr[a] + 2 \/ (curr'[a] = curr[a] /\ ~Written(a))
    BY <1>4 DEF Written
  <2>2. QED
    BY <1>5, <2>1, BehindKept
<1>14. QED
  BY <1>3, <1>4, <1>9, <1>10, <1>11, <1>12, <1>13 DEF IInv, AioInv

\* A handler that submits an operation, on the block k further on.
LEMMA AnotherOne ==
    ASSUME IInv, program = "aiopipe", NEW kind \in Kinds, NEW a \in Aiocbs,
           Deliver(kind, a), NEW next \in Kinds, NEW k \in {0, 2},
           k = 0 => kind = "read",
           curr' = [curr EXCEPT ![a] = @ + k],
           Submit(a, next, "stdout", 1, curr'[a]),
           UNCHANGED <<blocked, aio_to_go, mem, out>>, UNCHANGED ioVars,
           UNCHANGED conditions
    PROVE  IInv'
<1>1. /\ op \in [Aiocbs -> Operations] /\ curr \in [Aiocbs -> Nat]
      /\ aio_to_go \in 0 .. 2
  BY DEF IInv, TypeOK, AioTypeOK, Operations
<1>2. /\ curr' \in [Aiocbs -> Nat] /\ curr'[a] = curr[a] + k
      /\ \A b \in Aiocbs \ {a} : curr'[b] = curr[b]
  BY <1>1
<1>3. curr[a] \in Nat /\ curr'[a] \in Nat /\ curr'[a] % 2 = curr[a] % 2
  BY <1>1, <1>2
<1>4. /\ op' \in [Aiocbs -> Operations]
      /\ op'[a].phase # "done" /\ op'[a].offset = curr'[a]
      /\ mayFail \/ op'[a].phase = "flying"
      /\ \A b \in Aiocbs \ {a} : op'[b] = op[b]
  BY <1>1, <1>3, Submitted
<1>5. aio_to_go' = aio_to_go /\ aio_to_go' # aio_to_go - 1
  BY <1>1
<1>6. curr'[a] = curr[a] + 2 \/ (curr'[a] = curr[a] /\ kind = "read")
  BY <1>2, <1>3
<1>7. QED
  BY <1>2, <1>3, <1>4, <1>5, <1>6, HandlerStep

\* aioread_done.
LEMMA ReadDoneStep ==
    ASSUME IInv, program = "aiopipe", NEW a \in Aiocbs, aioread_done(a),
           UNCHANGED ioVars, UNCHANGED conditions
    PROVE  IInv'
<1>1. /\ op \in [Aiocbs -> Operations] /\ curr \in [Aiocbs -> Nat]
      /\ aio_to_go \in 0 .. 2
  BY DEF IInv, TypeOK, AioTypeOK, Operations
<1>2. CASE op[a].result > 0
  <2>1. /\ Deliver("read", a) /\ Submit(a, "write", "stdout", 1, curr[a])
        /\ UNCHANGED <<blocked, aio_to_go, mem, out>> /\ curr' = curr
    BY <1>2 DEF aioread_done
  <2>2. curr' = [curr EXCEPT ![a] = @ + 0] /\ curr'[a] = curr[a]
    BY <1>1, <2>1
  <2>3. QED
    BY <2>1, <2>2, AnotherOne
<1>3. CASE ~(op[a].result > 0)
  <2>1. /\ Deliver("read", a) /\ aio_to_go' = aio_to_go - 1
        /\ op' = [op EXCEPT ![a].phase = "idle"]
        /\ curr' = curr /\ UNCHANGED <<blocked, mem, out>>
    BY <1>3 DEF aioread_done
  <2>2. /\ op' \in [Aiocbs -> Operations] /\ op'[a].phase = "idle"
        /\ op'[a].offset = op[a].offset
        /\ \A b \in Aiocbs \ {a} : op'[b] = op[b]
    BY <1>1, <2>1 DEF Operations
  <2>3. pc = "suspended" /\ op[a].offset = curr[a]
    <3>1. pc = "suspended"
      BY <2>1, <2>2, Delivered
    <3>2. Fired(a)
      BY <3>1 DEF Fired, Begun
    <3>3. QED
      BY <3>1, <3>2 DEF IInv, AioInv, InStep
  <2>4. aio_to_go' # aio_to_go
    BY <1>1, <2>1
  <2>5. QED
    BY <1>1, <2>1, <2>2, <2>3, <2>4, HandlerStep
<1>4. QED
  BY <1>2, <1>3

\* aiowrite_done.
LEMMA WriteDoneStep ==
    ASSUME IInv, program = "aiopipe", NEW a \in Aiocbs, aiowrite_done(a),
           UNCHANGED ioVars, UNCHANGED conditions
    PROVE  IInv'
<1>1. /\ Deliver("write", a) /\ curr' = [curr EXCEPT ![a] = @ + 2]
      /\ Submit(a, "read", "stdout", 1, curr'[a])
      /\ UNCHANGED <<blocked, aio_to_go, mem, out>>
  BY DEF aiowrite_done
<1>2. 2 \in {0, 2} /\ 2 # 0
  OBVIOUS
<1>3. QED
  BY <1>1, <1>2, AnotherOne

\* The block that a write on its way is for has not been written.
LEMMA Unwritten ==
    ASSUME IInv, NEW a \in Aiocbs,
           op[a].kind = "write", op[a].phase = "flying"
    PROVE  /\ program = "aiopipe" /\ Fired(a)
           /\ op[a].offset = curr[a] /\ curr[a] \in Nat
           /\ Chain(curr[a] + 1) = a
           /\ op[a].offset + 1 \notin Filled
<1>1. /\ curr \in [Aiocbs -> Nat] /\ Resting /\ InStep /\ Behind
  BY DEF IInv, TypeOK, AioTypeOK, AioInv
<1>2. Fired(a) /\ program = "aiopipe"
  <2>1. Fired(a)
    BY <1>1 DEF Resting
  <2>2. QED
    BY <2>1 DEF Fired, Begun
<1>3. op[a].offset = curr[a] /\ curr[a] \in Nat /\ curr[a] % 2 = a - 1
  BY <1>1, <1>2 DEF InStep
<1> DEFINE o == curr[a]
<1>4. Chain(o + 1) = a
  <2>1. o \in Nat /\ o % 2 = a - 1 /\ a \in {1, 2}
    BY <1>3
  <2> HIDE DEF o
  <2>2. (o + 1) % 2 = 1 <=> a = 1
    BY <2>1
  <2>3. QED
    BY <2>1, <2>2 DEF Chain
<1>5. o + 1 \notin Filled
  <2> SUFFICES ASSUME o + 1 \in 1 .. Len(out), out[o + 1] # 0 PROVE FALSE
    BY DEF Filled
  <2>1. o + 1 - 1 = o
    BY <1>3
  <2>2. QED
    BY <1>1, <1>2, <1>4, <2>1 DEF Behind
<1>6. QED
  BY <1>2, <1>3, <1>4, <1>5

\* A block that a chain puts where its count of blocks says was not there
\* before, and leaves the others as they were.
LEMMA PutNew ==
    ASSUME IInv, NEW a \in Aiocbs,
           op[a].kind = "write", op[a].phase = "flying",
           NEW block \in Nat, out' = Put(out, op[a].offset, block)
    PROVE  /\ Chain(curr[a] + 1) = a /\ curr[a] \in Nat
           /\ curr[a] + 1 \notin Filled
           /\ Len(out) \in Nat /\ Len(out') \in Nat
           /\ Len(out) <= Len(out')
           /\ \A i \in 1 .. Len(out') :
                 i = curr[a] + 1 \/ out'[i] = 0
                   \/ (i \in 1 .. Len(out) /\ out'[i] = out[i])
           /\ \A i \in 1 .. Len(out) : i # curr[a] + 1 => out'[i] = out[i]
<1> DEFINE o == curr[a]
<1>1. out \in Seq(Nat) /\ Len(out) \in Nat
  BY DEF IInv, TypeOK
<1>2. /\ op[a].offset = o /\ o \in Nat /\ Chain(o + 1) = a
      /\ o + 1 \notin Filled
  BY Unwritten
<1> DEFINE n == IF o < Len(out) THEN Len(out) ELSE o + 1
<1> DEFINE E(i) == IF i = o + 1 THEN block
                              ELSE IF i <= Len(out) THEN out[i] ELSE 0
<1>3. n \in Nat /\ Len(out) <= n /\ out' = [i \in 1 .. n |-> E(i)]
  BY <1>1, <1>2 DEF Put
<1> HIDE DEF n, o, E
<1>4. Len(out') = n /\ \A i \in 1 .. n : out'[i] = E(i)
  BY <1>3
<1>5. ASSUME NEW i \in 1 .. n
      PROVE  /\ i # o + 1 /\ i <= Len(out) => out'[i] = out[i]
             /\ i # o + 1 /\ ~(i <= Len(out)) => out'[i] = 0
             /\ i <= Len(out) <=> i \in 1 .. Len(out)
  <2>1. i \in Nat /\ i >= 1
    BY <1>3
  <2>2. i <= Len(out) <=> i \in 1 .. Len(out)
    BY <1>1, <2>1
  <2>3. QED
    BY <1>4, <2>2 DEF E
<1>6. \A i \in 1 .. Len(out) : i \in 1 .. n
  BY <1>1, <1>2, <1>3
<1>7. QED
  BY <1>1, <1>2, <1>3, <1>4, <1>5, <1>6 DEF o

\* A block written is the one its chain is at.
LEMMA BehindWrite ==
    ASSUME IInv, program = "aiopipe", NEW a \in Aiocbs, Fired(a),
           op[a].kind = "write", op[a].phase = "flying",
           out' = Put(out, op[a].offset, mem[op[a].buf]),
           op'[a].kind = "write", op'[a].phase = "done", curr' = curr,
           \A b \in Aiocbs \ {a} : op'[b] = op[b],
           \A b \in Aiocbs : Fired(b) => Fired(b)'
    PROVE  Behind'
<1>1. /\ op \in [Aiocbs -> Operations] /\ curr \in [Aiocbs -> Nat]
      /\ mem \in [{1, 2} -> Nat]
  BY DEF IInv, TypeOK, AioTypeOK, Operations
<1>2. mem[op[a].buf] \in Nat
  BY <1>1 DEF Operations
<1>3. /\ curr[a] \in Nat /\ Chain(curr[a] + 1) = a
      /\ Len(out) \in Nat /\ Len(out') \in Nat
      /\ \A i \in 1 .. Len(out') :
            i = curr[a] + 1 \/ out'[i] = 0
              \/ (i \in 1 .. Len(out) /\ out'[i] = out[i])
  BY <1>2, PutNew
<1> SUFFICES ASSUME NEW i \in 1 .. Len(out'), out'[i] # 0
             PROVE  /\ Fired(Chain(i))' /\ i - 1 <= curr[Chain(i)]
                    /\ i - 1 = curr[Chain(i)] => Written(Chain(i))'
  BY DEF Behind, Written
<1>4. CASE i = curr[a] + 1
  BY <1>3, <1>4 DEF Written
<1>5. CASE i \in 1 .. Len(out) /\ out'[i] = out[i]
  <2> DEFINE b == Chain(i)
  <2>1. b \in Aiocbs
    BY <1>5, ChainIs
  <2>2. Fired(b) /\ i - 1 <= curr[b] /\ (i - 1 = curr[b] => Written(b))
    BY <1>5 DEF IInv, AioInv, Behind, Written
  <2> HIDE DEF b
  <2>3. Fired(b)' /\ i - 1 <= curr[b] /\ (i - 1 = curr[b] => Written(b)')
    BY <2>1, <2>2 DEF Written
  <2>4. QED
    BY <2>3 DEF b
<1>6. QED
  BY <1>3, <1>4, <1>5

\* A transfer of the kernel.
LEMMA TransferStep ==
    ASSUME IInv, NEW a \in Aiocbs, Transfer(a), UNCHANGED ioVars,
           UNCHANGED conditions
    PROVE  IInv'
<1>1. /\ op \in [Aiocbs -> Operations] /\ curr \in [Aiocbs -> Nat]
      /\ mem \in [{1, 2} -> Nat] /\ out \in Seq(Nat)
  BY DEF IInv, TypeOK, AioTypeOK, Operations
<1>2. Resting /\ Queued /\ InStep /\ Counted
  BY DEF IInv, AioInv
<1>3. /\ op[a].phase = "flying" /\ UNCHANGED <<pc, blocked, aio_to_go, curr>>
      /\ sigs' = [sigs EXCEPT ![op[a].kind] = Append(@, a)]
  BY DEF Transfer
<1>4. op[a] \in Operations /\ op[a].offset \in Nat /\ op[a].buf \in {1, 2}
  BY <1>1 DEF Operations
<1>5. PICK r \in {-1, 0, 1} :
           op' = [op EXCEPT ![a].phase = "done", ![a].result = r]
  BY DEF Transfer
<1>6. /\ op' \in [Aiocbs -> Operations] /\ op'[a].phase = "done"
      /\ op'[a].kind = op[a].kind /\ op'[a].offset = op[a].offset
      /\ \A b \in Aiocbs \ {a} : op'[b] = op[b]
  <2> DEFINE o == [op[a] EXCEPT !.phase = "done", !.result = r]
  <2>1. o \in Operations
    BY <1>4 DEF Operations
  <2>2. /\ o.phase = "done" /\ o.kind = op[a].kind
        /\ o.offset = op[a].offset
    BY <1>4 DEF Operations
  <2>3. op' = [op EXCEPT ![a] = o]
    BY <1>1, <1>5
  <2> HIDE DEF o
  <2>4. QED
    BY <1>1, <2>1, <2>2, <2>3
<1>7. sigs' \in [Kinds -> Seq(Aiocbs)] /\ Queued'
  BY <1>3, <1>6, Transferred
<1>8. out' \in Seq(Nat) /\ mem' \in [{1, 2} -> Nat]
  <2>1. mem[op[a].buf] \in Nat
    BY <1>1, <1>4
  <2>2. CASE out' = Put(out, op[a].offset, mem[op[a].buf]) /\ UNCHANGED mem
    BY <1>1, <1>4, <2>1, <2>2, PutFile
  <2>3. CASE /\ op[a].offset < Len(Source(a)) /\ UNCHANGED out
             /\ mem' = [mem EXCEPT ![op[a].buf]
                                     = Source(a)[op[a].offset + 1]]
    <3>1. Source(a) \in Seq(Nat)
      BY <1>1 DEF Source
    <3>2. Source(a)[op[a].offset + 1] \in Nat
      BY <1>4, <2>3, <3>1
    <3>3. QED
      BY <1>1, <1>4, <2>3, <3>2
  <2>4. CASE UNCHANGED <<mem, out>>
    BY <1>1, <2>4
  <2>5. QED
    BY <2>2, <2>3, <2>4 DEF Transfer
<1>9. /\ program = "aiopipe" /\ program' = "aiopipe" /\ mayFail' = mayFail
      /\ Fired(a)
  <2>1. Fired(a)
    BY <1>2, <1>3 DEF Resting
  <2>2. QED
    BY <2>1 DEF Fired, Begun, conditions
<1>10. (Begun' <=> Begun) /\ \A b \in Aiocbs : Fired(b)' <=> Fired(b)
  BY <1>3, <1>9 DEF Begun, Fired
<1>11. TypeOK'
  BY <1>3, <1>6, <1>7, <1>8
  DEF IInv, TypeOK, AioTypeOK, Operations, ioVars, conditions
<1>12. Resting'
  BY <1>2, <1>3, <1>6, <1>9, <1>10 DEF Resting
<1>13. InStep'
  BY <1>2, <1>3, <1>6, <1>10 DEF InStep
<1>14. Counted'
  <2>1. Busy(1)' = Busy(1) /\ Busy(2)' = Busy(2)
    BY <1>3, <1>6 DEF Busy
  <2>2. QED
    BY <1>2, <1>3, <1>9, <1>10, <2>1 DEF Counted
<1>15. Behind'
  <2>1. CASE UNCHANGED out
    <3>1. Written(a) => Written(a)'
      BY <1>3 DEF Written
    <3>2. QED
      BY <1>3, <1>6, <1>9, <1>10, <2>1, <3>1, BehindKept
  <2>2. CASE op[a].kind = "write"
             /\ out' = Put(out, op[a].offset, mem[op[a].buf])
    BY <1>3, <1>6, <1>9, <1>10, <2>2, BehindWrite
  <2>3. QED
    BY <2>1, <2>2 DEF Transfer
<1>16. QED
  BY <1>7, <1>9, <1>11, <1>12, <1>13, <1>14, <1>15
  DEF IInv, AioInv, CopySoFar

-----------------------------------------------------------------------------
(* The invariant.                                                          *)

\* The programs start with nothing read and no operation submitted.
LEMMA Initially == Init => IInv
<1> SUFFICES ASSUME Init PROVE IInv
  OBVIOUS
<1> USE DEF Init, AioInit, IoInit
<1>1. op \in [Aiocbs -> Operations] /\ \A a \in Aiocbs : op[a].phase = "idle"
  BY DEF Idle, Operations
<1>2. Len(Input) \in Nat /\ out \in Seq(Nat)
  OBVIOUS
<1>3. sigs \in [Kinds -> Seq(Aiocbs)] /\ curr \in [Aiocbs -> Nat]
      /\ mem \in [{1, 2} -> Nat] /\ readable \in BOOLEAN
  OBVIOUS
<1>4. AioTypeOK
  <2>1. blocked \in BOOLEAN /\ aio_to_go \in 0 .. 2
    <3>1. blocked = FALSE /\ aio_to_go = 0
      OBVIOUS
    <3> HIDE DEF Init, AioInit, IoInit
    <3>2. blocked \in BOOLEAN
      BY <3>1, Zenon
    <3>3. aio_to_go \in 0 .. 2
      BY <3>1
    <3>4. QED
      BY <3>2, <3>3
  <2> HIDE DEF Init, AioInit, IoInit
  <2>2. QED
    BY <1>1, <1>3, <2>1 DEF AioTypeOK, Operations
<1>5. TypeOK
  BY <1>2, <1>4 DEF TypeOK
<1>6. CopySoFar
  BY SubSeqEmpty DEF CopySoFar
<1>7. \A a \in Aiocbs : ~Fired(a)
  BY DEF Fired, Begun
<1>8. Resting /\ InStep /\ Counted
  BY <1>1, <1>7 DEF Resting, InStep, Counted, Begun
<1>9. Queued
  <2>1. IsInjective(<<>>) /\ Range(<<>>) = {}
    BY DEF IsInjective, Range
  <2>2. QED
    BY <1>1, <2>1 DEF Queued
<1>10. Behind
  BY DEF Behind
<1>11. QED
  BY <1>5, <1>6, <1>8, <1>9, <1>10 DEF IInv, AioInv

\* A step that changes nothing.
LEMMA StutterStep == IInv /\ UNCHANGED vars => IInv'
<1> SUFFICES ASSUME IInv, UNCHANGED vars PROVE IInv'
  OBVIOUS
<1> USE DEF vars, aioVars, ioVars, conditions
<1>1. TypeOK' /\ CopySoFar'
  BY DEF IInv, TypeOK, AioTypeOK, CopySoFar
<1>2. (Begun' <=> Begun) /\ \A b \in Aiocbs : Fired(b)' <=> Fired(b)
  BY DEF Begun, Fired
<1>3. Resting' /\ Queued' /\ InStep'
  BY <1>2 DEF IInv, AioInv, Resting, Queued, InStep
<1>4. Counted'
  BY <1>2 DEF IInv, AioInv, Counted, Busy
<1>5. Behind'
  BY <1>2, ChainIs DEF IInv, AioInv, Behind
<1>6. QED
  BY <1>1, <1>3, <1>4, <1>5 DEF IInv, AioInv

\* The inductive invariant of the two programs: types, how much iopipe.c has
\* copied, and for aiopipe.c what the queues hold, which block each chain is
\* at, how far it has written and what aio_to_go counts.
THEOREM Invariance == Spec => []IInv
<1>1. IInv /\ [Next]_vars => IInv'
  <2> SUFFICES ASSUME IInv, [Next]_vars PROVE IInv'
    OBVIOUS
  <2>1. CASE UNCHANGED vars
    BY <2>1, StutterStep
  <2>2. CASE Next
    <3>1. UNCHANGED conditions
      BY <2>2 DEF Next
    <3>2. CASE Synchronous
      BY <3>1, <3>2, ReadStep, WriteStep DEF Synchronous, iopipe
    <3>3. CASE Asynchronous
      BY <3>1, <3>3, MainStep, ReadDoneStep, WriteDoneStep
      DEF Asynchronous, aiopipe
    <3>4. CASE Sleep
      BY <3>1, <3>4, StutterStep DEF Sleep, Hung, vars
    <3>5. CASE Ended
      BY <3>5, StutterStep DEF Ended
    <3>6. ASSUME NEW a \in Aiocbs, Kernel(a) PROVE IInv'
      BY <3>1, <3>6, TransferStep DEF Kernel
    <3>7. QED
      BY <2>2, <3>2, <3>3, <3>4, <3>5, <3>6 DEF Next
  <2>3. QED
    BY <2>1, <2>2
<1>2. QED
  BY <1>1, Initially, PTL DEF Spec
-----------------------------------------------------------------------------
(* What follows from it.                                                   *)

\* Every variable of the two programs stays within its range.
THEOREM TypeCorrect == Spec => []TypeOK
<1>1. IInv => TypeOK
  BY DEF IInv
<1>2. QED
  BY <1>1, Invariance, PTL

\* A queue without repetitions has at most two completion signals, and one
\* for each finished operation.
LEMMA OneSignal == IInv => OneSignalPerOperation
<1> SUFFICES ASSUME IInv, NEW a \in Aiocbs
             PROVE  Cardinality({s \in Kinds \X (1 .. 2) :
                        s[2] <= Len(sigs[s[1]]) /\ sigs[s[1]][s[2]] = a})
                      = IF op[a].phase = "done" THEN 1 ELSE 0
  BY DEF OneSignalPerOperation
<1> DEFINE S == {s \in Kinds \X (1 .. 2) :
                    s[2] <= Len(sigs[s[1]]) /\ sigs[s[1]][s[2]] = a}
<1>1. /\ sigs \in [Kinds -> Seq(Aiocbs)] /\ Queued
      /\ op \in [Aiocbs -> Operations]
  BY DEF IInv, TypeOK, AioTypeOK, AioInv, Operations
<1>2. ASSUME NEW k \in Kinds
      PROVE  /\ Len(sigs[k]) \in Nat /\ DOMAIN sigs[k] = 1 .. Len(sigs[k])
             /\ IsInjective(sigs[k])
             /\ \A i \in DOMAIN sigs[k] : sigs[k][i] \in {1, 2}
             /\ (\E i \in DOMAIN sigs[k] : sigs[k][i] = a)
                   <=> op[a].phase = "done" /\ op[a].kind = k
  <2>1. sigs[k] \in Seq(Aiocbs)
    BY <1>1
  <2>2. /\ IsInjective(sigs[k])
        /\ Range(sigs[k]) =
             {b \in Aiocbs : op[b].phase = "done" /\ op[b].kind = k}
    BY <1>1 DEF Queued
  <2>3. (\E i \in DOMAIN sigs[k] : sigs[k][i] = a) <=> a \in Range(sigs[k])
    BY DEF Range
  <2>4. QED
    BY <2>1, <2>2, <2>3
<1>3. ASSUME NEW k \in Kinds PROVE Len(sigs[k]) <= 2
  <2> SUFFICES ASSUME Len(sigs[k]) >= 3 PROVE FALSE
    BY <1>2
  <2>1. 1 \in DOMAIN sigs[k] /\ 2 \in DOMAIN sigs[k] /\ 3 \in DOMAIN sigs[k]
    BY <1>2
  <2>2. QED
    BY <1>2, <2>1 DEF IsInjective
<1>4. CASE op[a].phase = "done"
  <2>1. op[a].kind \in Kinds
    BY <1>1 DEF Operations
  <2> DEFINE k == op[a].kind
  <2>2. PICK n \in DOMAIN sigs[k] : sigs[k][n] = a
    BY <1>2, <1>4, <2>1
  <2>3. n \in 1 .. 2 /\ n <= Len(sigs[k])
    BY <1>2, <1>3, <2>1, <2>2
  <2>4. <<k, n>> \in S
    BY <2>1, <2>2, <2>3
  <2>5. ASSUME NEW s \in S PROVE s = <<k, n>>
    <3>1. s[1] \in Kinds /\ s[2] \in DOMAIN sigs[s[1]] /\ sigs[s[1]][s[2]] = a
      BY <1>2
    <3>2. s[1] = k
      BY <1>2, <3>1
    <3>3. s[2] = n
      BY <1>2, <2>1, <2>2, <3>1, <3>2 DEF IsInjective
    <3>4. s \in Kinds \X (1 .. 2)
      OBVIOUS
    <3>5. QED
      BY <3>2, <3>3, <3>4
  <2>6. S = {<<k, n>>}
    BY <2>4, <2>5
  <2>7. QED
    BY <1>4, <2>6, FS_Singleton
<1>5. CASE op[a].phase # "done"
  <2>1. ASSUME NEW s \in S PROVE FALSE
    BY <1>2, <1>5
  <2>2. S = {}
    BY <2>1
  <2>3. QED
    BY <1>5, <2>2, FS_EmptySet
<1>6. QED
  BY <1>4, <1>5

\* The two chains are at blocks of different parity.
LEMMA Disjoint == IInv => DisjointBlocks
<1> SUFFICES ASSUME IInv, Begun PROVE op[1].offset # op[2].offset
  BY DEF DisjointBlocks
<1>1. Fired(1) /\ Fired(2)
  BY DEF Fired
<1>2. op[1].offset % 2 = 0 /\ op[2].offset % 2 = 1
  BY <1>1 DEF IInv, AioInv, InStep
<1>3. QED
  BY <1>2

\* No step of either program takes back a block that has been written.
LEMMA StepKeeps ==
    ASSUME IInv, [Next]_vars
    PROVE  \A i \in Filled : i <= Len(out') /\ out'[i] = out[i]
<1>1. out \in Seq(Nat) /\ Len(out) \in Nat
  BY DEF IInv, TypeOK
<1>2. CASE UNCHANGED out
  BY <1>1, <1>2 DEF Filled
<1>3. CASE Synchronous
  <2>1. CASE Read
    BY <1>2, <2>1 DEF Read
  <2>2. CASE write
    <3>1. /\ consumed \in 0 .. Len(Input) /\ nbytes \in 1 .. consumed
          /\ Len(Input) \in Nat
      BY <1>3, <2>2 DEF IInv, TypeOK, CopySoFar, write, Synchronous
    <3>2. PICK n \in 0 .. nbytes : Write(n)
      <4>1. nbytes \in 0 .. nbytes
        BY <3>1
      <4>2. QED
        BY <2>2, <4>1 DEF write
    <3> DEFINE l == consumed - nbytes + 1   h == consumed - nbytes + n
               s == SubSeq(Input, l, h)
    <3>3. s \in Seq(Nat)
      <4>1. l \in Int /\ h \in Int /\ \A i \in l .. h : Input[i] \in Nat
        BY <3>1
      <4> HIDE DEF l, h
      <4>2. QED
        BY <4>1, SubSeqProperties
    <3>4. out' = out \o s
      BY <3>2 DEF Write
    <3> HIDE DEF s
    <3>5. /\ Len(out') = Len(out) + Len(s) /\ Len(s) \in Nat
          /\ \A i \in 1 .. Len(out) : out'[i] = out[i]
      <4>1. \A i \in 1 .. Len(out) : i <= Len(out)
        BY <1>1
      <4>2. \A i \in 1 .. Len(out) + Len(s) :
               (out \o s)[i] = IF i <= Len(out) THEN out[i]
                                                ELSE s[i - Len(out)]
        BY <1>1, <3>3, ConcatProperties
      <4>3. Len(s) \in Nat /\ Len(out \o s) = Len(out) + Len(s)
        BY <1>1, <3>3, ConcatProperties
      <4>4. \A i \in 1 .. Len(out) : i \in 1 .. Len(out) + Len(s)
        BY <1>1, <4>3
      <4>5. QED
        BY <3>4, <4>1, <4>2, <4>3, <4>4
    <3>6. \A i \in Filled : i \in 1 .. Len(out) /\ i <= Len(out) + Len(s)
      BY <1>1, <3>5 DEF Filled
    <3>7. QED
      BY <3>5, <3>6
  <2>3. QED
    BY <1>3, <2>1, <2>2 DEF Synchronous, iopipe
<1>4. ASSUME NEW a \in Aiocbs, Kernel(a), out' # out
      PROVE  \A i \in Filled : i <= Len(out') /\ out'[i] = out[i]
  <2>1. /\ op[a].kind = "write" /\ op[a].phase = "flying"
        /\ out' = Put(out, op[a].offset, mem[op[a].buf])
    BY <1>4 DEF Kernel, Transfer
  <2>2. mem[op[a].buf] \in Nat
    <3>1. mem \in [{1, 2} -> Nat] /\ op \in [Aiocbs -> Operations]
      BY DEF IInv, TypeOK, AioTypeOK, Operations
    <3>2. QED
      BY <3>1 DEF Operations
  <2>3. /\ Len(out) \in Nat /\ Len(out') \in Nat /\ Len(out) <= Len(out')
        /\ curr[a] + 1 \notin Filled
        /\ \A i \in 1 .. Len(out) : i # curr[a] + 1 => out'[i] = out[i]
    BY <2>1, <2>2, Unwritten, PutNew
  <2>4. QED
    BY <2>3 DEF Filled
<1>5. CASE Asynchronous
  BY <1>2, <1>5 DEF Asynchronous, aiopipe, main, aioread_done, aiowrite_done
<1>6. CASE Sleep \/ Ended \/ UNCHANGED vars
  BY <1>2, <1>6 DEF Sleep, Hung, Ended, vars
<1>7. QED
  BY <1>2, <1>3, <1>4, <1>5, <1>6 DEF Next

\* No block of standard output is written twice or taken back: the chains of
\* aiopipe.c go forward, each over its own blocks, and iopipe.c only appends.
THEOREM BlocksWrittenOnce == Spec => NothingOverwritten
<1>1. ASSUME IInv, [Next]_vars
      PROVE  [/\ \A i \in Filled : i <= Len(out') /\ out'[i] = out[i]
              /\ \A a \in Aiocbs :
                    Lands(a) => op[a].offset + 1 \notin Filled]_vars
  <2>1. \A a \in Aiocbs : Lands(a) => op[a].offset + 1 \notin Filled
    BY <1>1, Unwritten DEF Lands
  <2>2. QED
    BY <1>1, <2>1, StepKeeps
<1>2. QED
  BY <1>1, Invariance, PTL DEF Spec, NothingOverwritten

\* Every queued completion signal of aiopipe.c belongs to exactly one finished
\* operation, and its two chains never work on the same block.
THEOREM ChainsApart == Spec => []Inv
<1>1. IInv => Inv
  BY OneSignal, Disjoint DEF Inv
<1>2. QED
  BY <1>1, Invariance, PTL

\* aiopipe.c never exits over a chain that is still going.
THEOREM ChainsCounted == Spec => []CountsChains
<1>1. IInv => CountsChains
  <2> SUFFICES ASSUME IInv, Begun
               PROVE  /\ Cardinality(Live) <= aio_to_go
                      /\ ~mayFail => Cardinality(Live) = aio_to_go
    BY DEF CountsChains
  <2>1. Cardinality(Live) = Busy(1) + Busy(2)
    <3>1. CASE op[1].phase = "idle" /\ op[2].phase = "idle"
      <4>1. Live = {}
        BY <3>1 DEF Live
      <4>2. QED
        BY <3>1, <4>1, FS_EmptySet DEF Busy
    <3>2. CASE op[1].phase = "idle" /\ op[2].phase # "idle"
      <4>1. Live = {2}
        BY <3>2 DEF Live
      <4>2. Cardinality(Live) = 1
        BY <4>1, FS_Singleton
      <4>3. QED
        BY <3>2, <4>2 DEF Busy
    <3>3. CASE op[1].phase # "idle" /\ op[2].phase = "idle"
      <4>1. Live = {1}
        BY <3>3 DEF Live
      <4>2. Cardinality(Live) = 1
        BY <4>1, FS_Singleton
      <4>3. QED
        BY <3>3, <4>2 DEF Busy
    <3>4. CASE op[1].phase # "idle" /\ op[2].phase # "idle"
      <4>1. Live = {1} \cup {2} /\ 2 \notin {1}
        BY <3>4 DEF Live
      <4>2. Cardinality({1}) = 1 /\ IsFiniteSet({1})
        BY FS_Singleton
      <4> DEFINE one == {1}
      <4>3. Cardinality(one \cup {2}) = Cardinality(one) + 1
        <5>1. IsFiniteSet(one) /\ 2 \notin one
          BY <4>1, <4>2
        <5> HIDE DEF one
        <5>2. QED
          BY <5>1, FS_AddElement
      <4>4. Cardinality(Live) = 2
        <5>1. Live = one \cup {2} /\ Cardinality(one) = 1
          BY <4>1, <4>2
        <5> HIDE DEF one
        <5>2. QED
          BY <4>3, <5>1
      <4>5. QED
        BY <3>4, <4>4 DEF Busy
    <3>5. QED
      BY <3>1, <3>2, <3>3, <3>4
  <2>2. QED
    BY <2>1 DEF IInv, AioInv, Counted
<1>2. QED
  BY <1>1, Invariance, PTL

-----------------------------------------------------------------------------
(* iopipe.c implements Copy.                                               *)

\* The two variables of Copy in terms of the programs'.
Copied == IF program = "iopipe" THEN out ELSE <<>>
Finished == program = "iopipe" /\ Over

\* Standard output only gets longer.
LEMMA Longer ==
    ASSUME IInv, program = "iopipe", iopipe
    PROVE  Len(out) <= Len(out')
<1>1. CASE Read
  <2>1. out' = out /\ Len(out) \in Nat
    BY <1>1 DEF IInv, TypeOK, Read
  <2>2. QED
    BY <2>1
<1>2. CASE write
  <2>1. /\ consumed \in 0 .. Len(Input) /\ nbytes \in 1 .. consumed
        /\ out \in Seq(Nat) /\ Len(Input) \in Nat
    BY <1>2 DEF IInv, TypeOK, CopySoFar, write
  <2>2. PICK n \in 0 .. nbytes : Write(n)
    <3>1. nbytes \in 0 .. nbytes
      BY <2>1
    <3>2. QED
      BY <1>2, <3>1 DEF write
  <2> DEFINE l == consumed - nbytes + 1   h == consumed - nbytes + n
             s == SubSeq(Input, l, h)
  <2>3. s \in Seq(Nat) /\ Len(s) \in Nat
    <3>1. l \in Int /\ h \in Int /\ \A i \in l .. h : Input[i] \in Nat
      BY <2>1
    <3> HIDE DEF l, h
    <3>2. QED
      BY <3>1, SubSeqProperties
  <2>4. out' = out \o s
    BY <2>2 DEF Write
  <2> HIDE DEF s
  <2>5. Len(out') = Len(out) + Len(s) /\ Len(out) \in Nat
    BY <2>1, <2>3, <2>4, ConcatProperties
  <2>6. QED
    BY <2>3, <2>5
<1>3. QED
  BY <1>1, <1>2 DEF iopipe

\* What iopipe.c has written is at any time a beginning of its input.
WroteBeginning == program = "iopipe" => \E n \in 0 .. Len(Input) :
                     out = SubSeq(Input, 1, n) /\ Len(out) = n

\* It follows from how far iopipe.c is.
LEMMA Beginning == IInv => WroteBeginning
<1> SUFFICES ASSUME IInv, program = "iopipe"
             PROVE  \E n \in 0 .. Len(Input) :
                       out = SubSeq(Input, 1, n) /\ Len(out) = n
  BY DEF WroteBeginning
<1>1. /\ pc \in {"read", "write", "exited"} /\ consumed \in 0 .. Len(Input)
      /\ Len(Input) \in Nat
  BY DEF IInv, TypeOK
<1>2. PICK n \in 0 .. Len(Input) : out = SubSeq(Input, 1, n)
  <2>1. CASE pc = "read"
    BY <1>1, <2>1 DEF IInv, CopySoFar
  <2>2. CASE pc = "write"
    <3>1. nbytes \in 1 .. consumed /\ out = SubSeq(Input, 1, consumed - nbytes)
      BY <2>2 DEF IInv, CopySoFar
    <3>2. consumed - nbytes \in 0 .. Len(Input)
      BY <1>1, <3>1
    <3>3. QED
      BY <3>1, <3>2
  <2>3. CASE pc = "exited"
    BY <2>3 DEF IInv, CopySoFar
  <2>4. QED
    BY <1>1, <2>1, <2>2, <2>3
<1>3. Len(out) = n
  <2>1. 1 \in Int /\ n \in Int /\ \A i \in 1 .. n : Input[i] \in Nat
    OBVIOUS
  <2>2. Len(SubSeq(Input, 1, n)) = IF 1 <= n THEN n - 1 + 1 ELSE 0
    BY <2>1, SubSeqProperties
  <2>3. QED
    BY <1>2, <2>2
<1>4. QED
  BY <1>2, <1>3

\* A step of iopipe.c adds to its output, and when it is the last one then
\* the output is complete or something has failed.
LEMMA CopyStep ==
    ASSUME IInv, IInv', WroteBeginning', program = "iopipe", iopipe,
           UNCHANGED conditions
    PROVE  C!Next
<1>1. program' = "iopipe" /\ mayFail' = mayFail
  BY DEF conditions
<1>2. ~Over
  BY DEF iopipe, Read, write, Over
<1>3. PICK m \in 0 .. Len(Input) : out' = SubSeq(Input, 1, m) /\ Len(out') = m
  BY <1>1 DEF WroteBeginning
<1>4. m \in Len(out) .. Len(Input)
  <2>1. Len(out) <= m
    BY <1>3, Longer
  <2>2. Len(out) \in Nat /\ Len(Input) \in Nat
    BY DEF IInv, TypeOK
  <2>3. QED
    BY <2>1, <2>2
<1>5. Over' => mayFail \/ out' = Input
  <2> SUFFICES ASSUME Over' PROVE mayFail' \/ out' = Input
    BY <1>1
  <2>1. pc' \notin {"read", "write"}
    BY DEF Over
  <2>2. QED
    BY <1>1, <2>1 DEF IInv, CopySoFar
<1>6. C!Next
  BY <1>1, <1>2, <1>3, <1>4, <1>5 DEF C!Next
<1>7. QED
  BY <1>6

\* iopipe.c copies its standard input to its standard output: whatever fails,
\* what it has written is a beginning of its input and is never taken back,
\* and a program that ends with nothing failed has copied all of it.
THEOREM Copies == Spec => ImplementsCopy
<1>1. Init => C!Init
  BY DEF Init, C!Init, Over
<1>2. ASSUME IInv, IInv', WroteBeginning', [Next]_vars
      PROVE  [C!Next]_<<Copied, Finished, mayFail>>
  <2>1. CASE Synchronous /\ UNCHANGED conditions
    BY <1>2, <2>1, CopyStep DEF Synchronous
  <2>2. CASE program # "iopipe" /\ UNCHANGED conditions
    BY <2>2 DEF Copied, Finished, conditions
  <2>3. CASE UNCHANGED <<program, pc, out, mayFail>>
    BY <2>3 DEF Copied, Finished, Over
  <2>4. ASSUME NEW a \in Aiocbs, Kernel(a) PROVE program # "iopipe"
    <3>1. op[a].phase = "flying"
      BY <2>4 DEF Kernel, Transfer
    <3>2. QED
      BY <1>2, <3>1 DEF IInv, AioInv, Resting, Fired, Begun
  <2>5. QED
    BY <1>2, <2>1, <2>2, <2>3, <2>4
    DEF Next, vars, conditions, Asynchronous, Sleep, Hung, Ended
<1>3. ASSUME IInv, IInv', WroteBeginning', [Next]_vars
      PROVE  [C!Next]_<<IF program = "iopipe" THEN out ELSE <<>>,
                        program = "iopipe" /\ Over, mayFail>>
  BY <1>2, <1>3 DEF Copied, Finished
<1>4. QED
  BY <1>1, <1>3, Invariance, Beginning, PTL DEF Spec, ImplementsCopy, C!Spec
=============================================================================
