CONSTANTS Sizes = {2, 3, 5} PipeBuf = 2 Capacity = 4 MaxWrites = 3
SPECIFICATION Spec
INVARIANTS Inv ReportsAgree
PROPERTIES ImplementsBaton ComesToRest
