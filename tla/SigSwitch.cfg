CONSTANT MaxSends = 4
SPECIFICATION Spec
INVARIANTS IInv ReportsAgree
PROPERTIES ImplementsBaton KeepsGoing Ends
