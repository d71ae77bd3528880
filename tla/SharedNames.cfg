CONSTANTS u1 = u1 u2 = u2 u3 = u3
    Users = {u1, u2, u3} None = None Leftover = Leftover
    Mixes <- SomeMixes
SPECIFICATION Spec
INVARIANTS IInv ExactWhenAlone OneMorePerReset SeesChild OwnRegion CleansUp
PROPERTIES ImplementsMutex LockComesFree WaitEnds
