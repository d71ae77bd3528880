-------------------------------- MODULE Mutex --------------------------------
(***************************************************************************)
(* What the shmmutex programs promise of their locks, "repeatedly acquire  *)
(* mutual exclusion": a process is under at most one lock and a lock has   *)
(* at most one process under it, until it leaves or is ended there, after  *)
(* which it never comes back.                                              *)
(*                                                                         *)
(* ShmMutexSem (shmmutex_sem.c), whose locks are not Robust, and           *)
(* SharedNames (shmmutex_flock.c), whose locks are, are shown to implement *)
(* this module.                                                            *)
(***************************************************************************)
CONSTANTS Users, None,
          Locks,
          Robust     \* a lock comes free when its process is ended under it

VARIABLES under,     \* lock each process is at work under, or None
          locked,    \* locks that nobody can take
          gone       \* processes that are over

mutexVars == <<under, locked, gone>>

\* A process may be over before it has done anything.
Init == /\ under = [p \in Users |-> None]
        /\ locked = {} /\ gone \in SUBSET Users

Enter(p, l) == /\ p \notin gone /\ under[p] = None /\ l \notin locked
               /\ under' = [under EXCEPT ![p] = l]
               /\ locked' = locked \cup {l}
               /\ UNCHANGED gone

Leave(p) == /\ under[p] # None
            /\ under' = [under EXCEPT ![p] = None]
            /\ locked' = locked \ {under[p]}
            /\ UNCHANGED gone

\* Whoever is ended outside of a lock has none to leave behind.
End(p) == /\ p \notin gone /\ gone' = gone \cup {p}
          /\ under' = [under EXCEPT ![p] = None]
          /\ locked' = IF Robust THEN locked \ {under[p]} ELSE locked

Next == \E p \in Users : (\E l \in Locks : Enter(p, l)) \/ Leave(p) \/ End(p)

Spec == Init /\ [][Next]_mutexVars

\* No two processes are ever under one lock, no lock is taken that somebody is
\* under, and a robust one is taken by nobody else.
Excludes ==
    /\ \A p, q \in Users : under[p] = under[q] /\ under[p] # None => p = q
    /\ \A p \in Users : under[p] # None => under[p] \in locked /\ p \notin gone
    /\ Robust => \A l \in locked : \E p \in Users : under[p] = l
=============================================================================
