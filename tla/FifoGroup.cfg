CONSTANTS Sizes = {2, 5} PipeBuf = 2 Capacity = 4 MaxWrites = 3
SPECIFICATION Spec
INVARIANT OnlyTheChildIsKilled
