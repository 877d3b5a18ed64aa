SPECIFICATION Spec
CONSTANTS
  N = 6
  Values = {0, 1, 2}
INVARIANT
  BinarySearchFinds
