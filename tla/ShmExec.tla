------------------------------- MODULE ShmExec -------------------------------
(***************************************************************************)
(* shm.c: shm_1 puts a text into a region and forks a child, which         *)
(* replaces it and executes shm_2; shm_2 opens the region again, by name,  *)
(* and replaces the text once more for the waiting parent to see.  The     *)
(* name stands until the parent cleans up, for all the other programs to   *)
(* take.                                                                   *)
(*                                                                         *)
(* pc[p] is where the parent of run p is, child[p] where its child is.     *)
(***************************************************************************)
EXTENDS RegionContents

VARIABLES child,
          childRegion,   \* region that shm_2 has mapped
          seen           \* text the parent sees in the end

shmVars == <<child, childRegion, seen>>

ShmInit == /\ child = [p \in Users |-> "none"]
           /\ childRegion = [p \in Users |-> None]
           /\ seen = [p \in Users |-> None]

ChildOver(p) == child[p] \in {"none", "exited", "failed", "killed"}
ChildTo(p, to) == child' = [child EXCEPT ![p] = to]

\* Mutant: the handlers leave the name alone.
cleanup_Skip(p) == UNCHANGED shmName

\* The name goes, whichever region it is bound to by now.
cleanup(p) == shmName' = None

\* The parent uses the region; the handler of SIGBUS cleans up and exits.
ParentUses(p, at, next) ==
    /\ pc[p] = at
    /\ IF Mapped(p) THEN Goto(p, next) /\ UNCHANGED shmName
                    ELSE Goto(p, "failed") /\ cleanup(p)

\* Mutants: the parent does not wait; it waits for a child that exits only.
wait_Not(p) == /\ pc[p] = "await" /\ Goto(p, "look")
               /\ UNCHANGED <<armed, regionVars, head, shmVars>>

wait_ForExit(p) == /\ pc[p] = "await" /\ child[p] = "exited" /\ Goto(p, "look")
                   /\ UNCHANGED <<armed, regionVars, head, shmVars>>

wait(p) == /\ pc[p] = "await" /\ ChildOver(p) /\ Goto(p, "look")
           /\ UNCHANGED <<armed, regionVars, head, shmVars>>

parent(p) ==
    \/ OpenRegion(p) /\ UNCHANGED shmVars
    \/ ftruncate(p, "store") /\ UNCHANGED <<head, shmVars>>
    \/ /\ ParentUses(p, "store", "fork")
       /\ IF Mapped(p) THEN Put(region[p], ParentData) ELSE UNCHANGED head
       /\ UNCHANGED <<armed, region, page, shmVars>>
    \/ /\ pc[p] = "fork"
       /\ \/ Goto(p, "await") /\ ChildTo(p, "store") /\ UNCHANGED shmName
          \/ Goto(p, "failed") /\ cleanup(p) /\ UNCHANGED child
       /\ UNCHANGED <<armed, region, page, head, childRegion, seen>>
    \/ wait(p)
    \/ /\ ParentUses(p, "look", "cleanup")
       /\ IF Mapped(p) THEN seen' = [seen EXCEPT ![p] = head[region[p]]]
                       ELSE UNCHANGED seen
       /\ UNCHANGED <<armed, region, page, head, child, childRegion>>
    \/ /\ pc[p] = "cleanup" /\ Goto(p, "exited") /\ cleanup(p)
       /\ UNCHANGED <<armed, region, page, head, shmVars>>

\* The child before exec, which has its parent's mapping and handlers.
BeforeExec(p) ==
    \/ /\ child[p] = "store"
       /\ IF Mapped(p)
          THEN ChildTo(p, "exec") /\ Put(region[p], PreExecData)
               /\ UNCHANGED shmName
          ELSE ChildTo(p, "failed") /\ cleanup(p) /\ UNCHANGED head
       /\ UNCHANGED childRegion
    \/ /\ child[p] = "exec" /\ (ChildTo(p, "shm_open") \/ ChildTo(p, "failed"))
       /\ UNCHANGED <<shmName, head, childRegion>>

\* The image executed: without a region there is nothing at addr and the
\* first access ends it, as does an access to a region emptied meanwhile.
shm_2(p) ==
    \/ /\ child[p] = "shm_open"
       /\ childRegion' = [childRegion EXCEPT ![p] = shmName]
       /\ IF shmName = None THEN ChildTo(p, "killed") ELSE ChildTo(p, "poststore")
       /\ UNCHANGED head
    \/ /\ child[p] = "poststore"
       /\ IF childRegion[p] \in page
          THEN ChildTo(p, "exited") /\ Put(childRegion[p], PostExecData)
          ELSE ChildTo(p, "killed") /\ UNCHANGED head
       /\ UNCHANGED childRegion

childSteps(p) ==
    /\ BeforeExec(p) \/ (shm_2(p) /\ UNCHANGED shmName)
    /\ UNCHANGED <<pc, armed, region, page, seen>>

shm(p) == parent(p) \/ childSteps(p)

\* A signal: SIGINT, which shm_1 cleans up after, or one that it does not
\* handle.  shm_2 handles none.
Signal(p) ==
    /\ \/ /\ ~Over(p)
          /\ \/ Goto(p, "failed") /\ cleanup(p)
             \/ Goto(p, "killed") /\ UNCHANGED shmName
          /\ UNCHANGED child
       \/ /\ ~ChildOver(p)
          /\ \/ /\ child[p] \in {"store", "exec"}
                /\ ChildTo(p, "failed") /\ cleanup(p)
             \/ ChildTo(p, "killed") /\ UNCHANGED shmName
          /\ UNCHANGED pc
    /\ UNCHANGED <<armed, region, page, head, childRegion, seen>>
=============================================================================
