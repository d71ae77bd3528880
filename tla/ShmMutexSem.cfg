CONSTANTS Users = {u1, u2} Makers = {m1} Removers = {r1} None = None
SPECIFICATION Spec
INVARIANTS IInv NamesGoAway
PROPERTIES ImplementsMutex AllEnd
