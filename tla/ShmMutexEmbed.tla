--------------------------- MODULE ShmMutexEmbed ---------------------------
(***************************************************************************)
(* shmmutex_semembed.c: as ShmMutexSem, with an unnamed semaphore laid     *)
(* over the beginning of the shared region, set to 1 by every run that     *)
(* maps it and wiped out by every run that truncates it.                   *)
(***************************************************************************)
EXTENDS RegionContents

\* An operation on the semaphore is an access to the region.
OnSemaphore(p, at, next, new) ==
    /\ Access(p, at, next)
    /\ IF Mapped(p) THEN Put(region[p], new) ELSE UNCHANGED head
    /\ UNCHANGED <<armed, regionVars>>

\* Mutant: the semaphore starts at 2.
sem_init_Two(p) == OnSemaphore(p, "sem_init", "alarm", 2)

sem_init(p) == OnSemaphore(p, "sem_init", "alarm", 1)

sem_wait(p) ==
    /\ Mapped(p) => head[region[p]] > 0
    /\ OnSemaphore(p, "wait", "write", head[region[p]] - 1)

sem_post(p) == OnSemaphore(p, "post", "wait", head[region[p]] + 1)

semembed(p) ==
    \/ OpenRegion(p)
    \/ /\ \/ ftruncate(p, "shm_unlink") \/ shm_unlink(p, "sem_init")
          \/ StartAlarm(p)
          \/ Access(p, "write", "post") /\ UNCHANGED <<armed, regionVars>>
       /\ UNCHANGED head
    \/ sem_init(p) \/ sem_wait(p) \/ sem_post(p)
=============================================================================
