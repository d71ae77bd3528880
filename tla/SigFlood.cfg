CONSTANT MaxCalls = 3
SPECIFICATION Spec
INVARIANTS IInv ReportsFit
PROPERTY Ends
