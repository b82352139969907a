\* Up to four nodes, three of them containers; two names, so that some collide and some do not.
CONSTANTS
  Nodes = {n1, n2, n3, n4}
  Null = Null
  Names = {a, b}
  NoName = NoName
SPECIFICATION Spec
SYMMETRY Symmetric
VIEW Memory
CONSTRAINT FewContainers
INVARIANTS
  WellFormed
PROPERTY
  ImplementsForest
