--------------------------- MODULE ShmMutexFlock ---------------------------
(***************************************************************************)
(* shmmutex_flock.c: as ShmMutexSem, with a record lock on a file named    *)
(* "lockfile" in place of the semaphore.  The lock belongs to a process,   *)
(* and the system releases it when that process ends.                      *)
(***************************************************************************)
EXTENDS RegionContents

VARIABLES fileName,  \* file the name "lockfile" is bound to
          file,      \* file each process has open
          owner      \* process that holds the lock on each file

lockVars == <<fileName, file, owner>>

FlockInit == /\ fileName = None
             /\ file = [p \in Users |-> None]
             /\ owner = [f \in Users |-> None]

FileFor(p) == IF fileName = None THEN p ELSE fileName

\* Whatever p holds is free again.
Release(p) == owner' = [f \in Users |-> IF owner[f] = p THEN None ELSE owner[f]]

open(p) == /\ pc[p] = "open" /\ Goto(p, "unlink")
           /\ fileName' = FileFor(p)
           /\ file' = [file EXCEPT ![p] = FileFor(p)]
           /\ UNCHANGED <<armed, regionVars, head, owner>>

unlink(p) == /\ pc[p] = "unlink" /\ Goto(p, "alarm")
             /\ fileName' = None
             /\ UNCHANGED <<armed, regionVars, head, file, owner>>

\* fcntl(F_SETLKW): wait for the lock, or fail and exit.
Lock(p) ==
    /\ pc[p] = "wait"
    /\ \/ /\ owner[file[p]] = None
          /\ owner' = [owner EXCEPT ![file[p]] = p]
          /\ Goto(p, "write")
       \/ Goto(p, "failed") /\ UNCHANGED owner
    /\ UNCHANGED <<armed, regionVars, head, fileName, file>>

Unlock(p) ==
    /\ pc[p] = "unlock"
    /\ Goto(p, "wait") \/ Goto(p, "failed")
    /\ Release(p)
    /\ UNCHANGED <<armed, regionVars, head, fileName, file>>

\* Storing the data; a SIGBUS ends the process and frees its lock.
Store(p) ==
    /\ Access(p, "write", "unlock")
    /\ IF Mapped(p) THEN Put(region[p], AAAA) /\ UNCHANGED owner
                    ELSE Release(p) /\ UNCHANGED head
    /\ UNCHANGED <<armed, regionVars, fileName, file>>

flock(p) ==
    \/ /\ \/ OpenRegion(p)
          \/ /\ \/ ftruncate(p, "shm_unlink") \/ shm_unlink(p, "open")
                \/ StartAlarm(p)
             /\ UNCHANGED head
       /\ UNCHANGED lockVars
    \/ open(p) \/ unlink(p) \/ Lock(p) \/ Store(p) \/ Unlock(p)
=============================================================================
