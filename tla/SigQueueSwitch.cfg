CONSTANT MaxSends = 3
SPECIFICATION Spec
INVARIANTS IInv ReportsAgree
PROPERTIES ImplementsBaton ChildStopped
