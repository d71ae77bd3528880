CONSTANTS Second = 4 Default = 2 Requests <- SomeRequests
    Hz = 2 TimebufMax = 2 JitterbufMax = 2 MaxTime = 14
SPECIFICATION Spec
INVARIANT Measures
