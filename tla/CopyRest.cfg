CONSTANTS Input <- FourBlocks BufSize = 2
SPECIFICATION Spec
INVARIANT CopiesInput
