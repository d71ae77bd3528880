---------------------------- MODULE SharedRegion ----------------------------
(***************************************************************************)
(* What shmmutex_sem.c, shmmutex_semembed.c, shmmutex_flock.c and shm.c    *)
(* share: the life of the region named /my_shm and, for the first three,   *)
(* the alarm that ends a process wherever it is.                           *)
(*                                                                         *)
(* Each element of Users is one run of the program; any number of them may *)
(* be started at any time.  A name is bound to an object or to None, and   *)
(* an object is called after the process that created it.                  *)
(***************************************************************************)
EXTENDS Naturals

CONSTANTS Users, None

ASSUME NoneAssumption == None \notin Users

VARIABLES pc,        \* next call of each process
          armed,     \* its 60-second alarm is ticking
          shmName,   \* region the name /my_shm is bound to
          region,    \* region each process has mapped
          page       \* regions that are PAGESIZE bytes big (others are empty)

regionVars == <<shmName, region, page>>
sharedVars == <<pc, armed, regionVars>>

Goto(p, to) == pc' = [pc EXCEPT ![p] = to]
Over(p) == pc[p] \in {"exited", "failed", "killed"}

RegionInit ==
    /\ armed = [p \in Users |-> FALSE]
    /\ shmName = None
    /\ region = [p \in Users |-> None]
    /\ page = {}

\* What p gets by opening the name: a new region of its own, or the one bound.
RegionFor(p) == IF shmName = None THEN p ELSE shmName

\* shm_open with O_CREAT|O_TRUNC: the region is emptied under its other users.
shm_open(p) ==
    /\ pc[p] = "shm_open" /\ Goto(p, "ftruncate")
    /\ shmName' = RegionFor(p)
    /\ region' = [region EXCEPT ![p] = RegionFor(p)]
    /\ page' = page \ {RegionFor(p)}
    /\ UNCHANGED armed

\* ftruncate and mmap.
ftruncate(p, next) ==
    /\ pc[p] = "ftruncate" /\ Goto(p, next)
    /\ page' = page \cup {region[p]}
    /\ UNCHANGED <<armed, shmName, region>>

\* The name goes, whichever region it is bound to by now.
shm_unlink(p, next) ==
    /\ pc[p] = "shm_unlink" /\ Goto(p, next)
    /\ shmName' = None
    /\ UNCHANGED <<armed, region, page>>

SetUpRegion(p, next) ==
    shm_open(p) \/ ftruncate(p, "shm_unlink") \/ shm_unlink(p, next)

\* Mutant: no alarm.
StartAlarm_Unarmed(p) == /\ pc[p] = "alarm" /\ Goto(p, "wait")
                         /\ UNCHANGED <<armed, regionVars>>

StartAlarm(p) == /\ pc[p] = "alarm" /\ Goto(p, "wait")
                 /\ armed' = [armed EXCEPT ![p] = TRUE]
                 /\ UNCHANGED regionVars

\* An access to the mapped region: SIGBUS if somebody has emptied it.
Access(p, at, next) == /\ pc[p] = at
                       /\ IF region[p] \in page THEN Goto(p, next)
                                                ELSE Goto(p, "killed")

\* The alarm strikes in the loop: print and exit.
timer_expired(p) == /\ armed[p] /\ ~Over(p) /\ Goto(p, "exited")
                    /\ armed' = [armed EXCEPT ![p] = FALSE]
                    /\ UNCHANGED regionVars
=============================================================================
