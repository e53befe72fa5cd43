SPECIFICATION Spec
CONSTANTS
  Entries <- MCEntries
  TableSize = 2
  UIntRange = 5
INVARIANTS
  TableConsistent
PROPERTIES
  ImplementsMap
  IterationsAreComplete
