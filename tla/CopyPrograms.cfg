CONSTANTS Input <- FourBlocks BufSize = 2
SPECIFICATION Spec
INVARIANTS Inv CountsChains
PROPERTIES NothingOverwritten Terminates ImplementsCopy
