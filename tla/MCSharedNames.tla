--------------------------- MODULE MCSharedNames ---------------------------
(* Instances of SharedNames for model checking.                            *)
EXTENDS SharedNames, TLC

CONSTANTS u1, u2, u3

Mix(a, b, c) == (u1 :> a) @@ (u2 :> b) @@ (u3 :> c)

SomeMixes == {Mix("semembed", "semembed", "semembed"),
              Mix("flock", "flock", "semembed"),
              Mix("shm", "flock", "none"),
              Mix("shm", "shm", "none"),
              Mix("shm", "semembed", "semembed"),
              Mix("msg", "msg", "msg")}
=============================================================================
