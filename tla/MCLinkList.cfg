CONSTANTS
  n1 = n1
  n2 = n2
  n3 = n3
  n4 = n4
  p1 = p1
  p2 = p2
  Lists = {l1, l2}
  Null = Null
  LastNode = LastNode
  Nodes <- MCNodes
  Borrowed = {p1, p2}
  Blocks = {b1}
  MergeLimit = 1
  MergeInside = FALSE
SPECIFICATION Spec
CONSTRAINT MCRoom
SYMMETRY MCSymmetry
INVARIANT StructureOK
INVARIANT CopiedInOrder
INVARIANT OwnedDataOnce
PROPERTY ActsOnSequences
