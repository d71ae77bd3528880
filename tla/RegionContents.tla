--------------------------- MODULE RegionContents ---------------------------
(***************************************************************************)
(* What lies at the beginning of a region called /my_shm.  The programs    *)
(* that map it do not agree on that: for shmmutex_semembed.c it is a       *)
(* semaphore, for shmmutex_flock.c the data it stores, for shm.c a text.   *)
(* A value below 100 counts a semaphore; the others are texts, which a     *)
(* semaphore operation takes for a large count.                            *)
(***************************************************************************)
EXTENDS SharedRegion

VARIABLES head,      \* first bytes of each region
          program    \* what each process runs, fixed from the start

ParentData == 101
PreExecData == 102
PostExecData == 103
AAAA == 104

Put(r, v) == head' = [head EXCEPT ![r] = v]

\* Opening with O_TRUNC fills the region with zeros.
OpenRegion(p) == shm_open(p) /\ Put(RegionFor(p), 0)

Mapped(p) == region[p] \in page
=============================================================================
