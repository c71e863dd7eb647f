SPECIFICATION Spec
CONSTANTS
  Owners = {n1, n2}
  Radixes = {a, b, c, d}
  Idxs = {i1}
  Nil = Nil
  ChildsSize = 1
  LightSize = 1
  HugeCapacity = 3
INVARIANTS TypeOK ListsOwned ArenaFreeList FindAgrees
PROPERTY ImplementsChildMap
SYMMETRY Symmetry
VIEW ListsView
