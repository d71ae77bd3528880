---------------------------- MODULE SharedNames ----------------------------
(***************************************************************************)
(* The programs that meet through names: shmmutex_semembed.c,              *)
(* shmmutex_flock.c and shm.c, which all call their region /my_shm, and    *)
(* the set-up of msg.c.  Each process runs the program its mix gives it.   *)
(***************************************************************************)
EXTENDS ShmMutexEmbed, ShmMutexFlock, ShmExec, MsgSetup, FiniteSets

CONSTANT Mixes         \* what the processes may be running together

Programs == {"semembed", "flock", "shm", "msg", "none"}
ASSUME MixesAssumption == Mixes \subseteq [Users -> Programs]

vars == <<sharedVars, head, program, lockVars, shmVars, mqOne>>

Start(prog) == CASE prog = "msg" -> "mq_unlink"
                 [] prog = "none" -> "exited"
                 [] OTHER -> "shm_open"

Init == /\ program \in Mixes
        /\ pc = [p \in Users |-> Start(program[p])]
        /\ head = [r \in Users |-> 0]
        /\ RegionInit /\ FlockInit /\ ShmInit /\ MsgInit

Semembed(p) == program[p] = "semembed" /\ semembed(p)
               /\ UNCHANGED <<lockVars, shmVars, mqOne>>
Flock(p) == program[p] = "flock" /\ flock(p) /\ UNCHANGED <<shmVars, mqOne>>
Shm(p) == program[p] = "shm" /\ shm(p) /\ UNCHANGED <<lockVars, mqOne>>
Msg(p) == program[p] = "msg" /\ msg(p) /\ UNCHANGED <<lockVars, shmVars>>

Run(p) == Semembed(p) \/ Flock(p) \/ Shm(p) \/ Msg(p)

\* Mutant: the lock outlives its process.
Expire_KeepLock(p) == /\ timer_expired(p)
                      /\ UNCHANGED <<head, lockVars, shmVars, mqOne>>

Expire(p) == /\ timer_expired(p) /\ Release(p)
             /\ UNCHANGED <<head, fileName, file, shmVars, mqOne>>

Interrupt(p) == /\ program[p] = "shm" /\ Signal(p)
                /\ UNCHANGED <<lockVars, mqOne>>

Terminated == (\A p \in Users : Over(p) /\ ChildOver(p)) /\ UNCHANGED vars

Next == /\ (\E p \in Users : Run(p) \/ Expire(p) \/ Interrupt(p)) \/ Terminated
        /\ UNCHANGED program

\* Every process runs; whether its alarm goes off in time is left open.
Spec == /\ Init /\ [][Next]_vars
        /\ \A p \in Users : WF_vars(Flock(p) /\ UNCHANGED program)
        /\ \A p \in Users : WF_vars(Shm(p) /\ UNCHANGED program)

-----------------------------------------------------------------------------
(* Properties.                                                             *)

TypeOK ==
    /\ pc \in [Users -> {"shm_open", "ftruncate", "shm_unlink", "sem_init",
                         "alarm", "wait", "write", "post", "open", "unlink",
                         "unlock", "store", "fork", "await", "look",
                         "cleanup", "mq_unlink", "mq_open", "pipe",
                         "exited", "failed", "killed"}]
    /\ armed \in [Users -> BOOLEAN]
    /\ shmName \in Users \cup {None}
    /\ region \in [Users -> Users \cup {None}]
    /\ page \in SUBSET Users
    /\ head \in [Users -> Nat]
    /\ program \in Mixes
    /\ fileName \in Users \cup {None}
    /\ file \in [Users -> Users \cup {None}]
    /\ owner \in [Users -> Users \cup {None}]
    /\ child \in [Users -> {"none", "store", "exec", "shm_open", "poststore",
                            "exited", "failed", "killed"}]
    /\ childRegion \in [Users -> Users \cup {None}]
    /\ seen \in [Users -> {None} \cup Nat]
    /\ mqOne \in Users \cup {None, Leftover}

\* p has r mapped, or had when it ended, or its child has.
Maps(p, r) == r # None /\ r \in {region[p], childRegion[p]}
Alone(p) == \A q \in Users \ {p} : ~Maps(q, region[p])

\* A run of shmmutex_semembed.c that has its region to itself finds the
\* semaphore counting exactly: 1 in the loop, 0 while it stores its data.
ExactWhenAlone ==
    \A p \in Users : program[p] = "semembed" /\ region[p] # None /\ Alone(p) =>
        /\ pc[p] \in {"write", "post"} => head[region[p]] = 0
        /\ pc[p] \in {"alarm", "wait"} => head[region[p]] = 1

\* Runs of shmmutex_semembed.c that share a region reset each other's semaphore,
\* held or not.  In a region that is theirs alone every run lets in one at most
\* by that: those at work and those the semaphore would still let through are
\* never more than the runs past their sem_init.  Emptying the region lets in
\* nobody, nor does a run that is ended.
OneMorePerReset ==
    \A r \in Users : (\A p \in Users : Maps(p, r) => program[p] = "semembed") =>
        head[r] + Cardinality({p \in Users : region[p] = r /\ pc[p] \in {"write", "post"}})
          <= Cardinality({p \in Users : region[p] = r /\
                 pc[p] \notin {"shm_open", "ftruncate", "shm_unlink", "sem_init"}})

\* shmmutex_flock.c: the lock of a file is held exactly by the process at work
\* under it, of which there is one at most; a process that ends there, by its
\* alarm, a SIGBUS or an error, does not keep it.
HeldAtWorkOnly ==
    \A f, p \in Users :
        owner[f] = p <=> file[p] = f /\ pc[p] \in {"write", "unlock"}

\* No lock is stuck: whoever holds it, it comes free again.
LockComesFree == \A f \in Users : owner[f] # None ~> owner[f] = None

\* shm.c, "see what's in SHM": when the child has come through and had the
\* same region, which no other run has mapped, the parent sees its last text.
SeesChild ==
    \A p \in Users :
        pc[p] \in {"cleanup", "exited"} /\ child[p] = "exited"
          /\ childRegion[p] = region[p] /\ Alone(p) => seen[p] = PostExecData

\* p has taken the name /my_shm away from whatever it was bound to.
HasUnlinked(p) ==
    \/ program[p] = "shm" /\ (pc[p] \in {"exited", "failed"} \/ child[p] = "failed")
    \/ /\ program[p] \in {"semembed", "flock"}
       /\ pc[p] \notin {"shm_open", "ftruncate", "shm_unlink"}

\* The image that shm.c executes gets no other region than its parent's, unless
\* its own parent has been ended while it waited, or another run has taken the
\* name away.
OwnRegion ==
    \A p \in Users : childRegion[p] \notin {None, region[p]} =>
        pc[p] = "failed" \/ \E q \in Users \ {p} : HasUnlinked(q)

\* "make sure to clean up the shared memory region": a parent that is over, but
\* for a signal it does not handle, leaves no name for its region.
CleansUp ==
    \A p \in Users : program[p] = "shm" /\ pc[p] \in {"exited", "failed"} =>
        shmName = None \/ shmName # region[p]

\* "parent; await child": the wait ends, the child being gone whatever becomes
\* of it.
WaitEnds == \A p \in Users : pc[p] = "await" ~> Over(p)

\* msg.c, "Deal with possible leftovers": no run comes to create its queue with
\* that of an earlier run in the way.
LeftoverGone == \A p \in Users : pc[p] = "mq_open" => mqOne # Leftover

-----------------------------------------------------------------------------
(* The inductive invariant behind the safety properties.                   *)

\* A process that has yet to open the region has created none.
Fresh ==
    \A p \in Users : pc[p] = "shm_open" =>
        /\ region[p] = None /\ shmName # p
        /\ \A q \in Users : p \notin {region[q], childRegion[q]}

\* Who has a region (a parent of shm.c with a child or further calls ahead has
\* one), who has the lock file open, and whose alarm ticks.
Opened ==
    \A p \in Users :
        /\ pc[p] = "ftruncate" => region[p] # None
        /\ program[p] = "shm" /\ region[p] = None =>
                pc[p] \in {"shm_open", "failed", "killed"} /\ child[p] = "none"
        /\ program[p] = "flock"
             /\ pc[p] \in {"unlink", "alarm", "wait", "write", "unlock"} =>
                file[p] # None
        /\ program[p] # "flock" => file[p] = None
        /\ armed[p] => program[p] \in {"semembed", "flock"}

\* Where the child of shm.c is, seen from its parent and from its region.
Forked ==
    \A p \in Users :
        /\ program[p] # "shm" => child[p] = "none"
        /\ pc[p] \in {"shm_open", "ftruncate", "store", "fork"} => child[p] = "none"
        /\ program[p] = "shm" /\ pc[p] \in {"look", "cleanup", "exited"} => ChildOver(p)
        /\ childRegion[p] # None => child[p] \in {"poststore", "exited", "killed"}

\* As long as nobody has taken the name away it is bound to the region of
\* every run of shm.c that has one.
Named ==
    (\A q \in Users : ~HasUnlinked(q)) =>
        \A p \in Users : program[p] = "shm" /\ region[p] # None => shmName = region[p]

\* What the parent is about to see of a child that has come through.
ChildText ==
    \A p \in Users :
        program[p] = "shm" /\ pc[p] \in {"await", "look"} /\ child[p] = "exited"
          /\ childRegion[p] = region[p] /\ Alone(p) => head[region[p]] = PostExecData

IInv == /\ TypeOK /\ Fresh /\ Opened /\ Forked /\ Named /\ ChildText
        /\ ExactWhenAlone /\ HeldAtWorkOnly /\ SeesChild /\ OwnRegion
        /\ CleansUp /\ LeftoverGone

-----------------------------------------------------------------------------
(* Refinement: the file locks of shmmutex_flock.c, among all the programs.  *)

Under == [p \in Users |-> IF pc[p] \in {"write", "unlock"} THEN file[p] ELSE None]
Locked == {f \in Users : owner[f] # None}
Gone == {p \in Users : Over(p)}

M == INSTANCE Mutex WITH Locks <- Users, Robust <- TRUE,
                         under <- Under, locked <- Locked, gone <- Gone

\* "Repeatedly acquire mutual exclusion": each lock file, however many of them
\* the runs come to make, is a lock that one process at a time is under, and
\* one that never stays behind with a process that has been ended or has failed.
ImplementsMutex == M!Spec
=============================================================================
