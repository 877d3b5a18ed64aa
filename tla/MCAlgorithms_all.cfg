SPECIFICATION Spec
CONSTANTS
  N = 5
  Values = {0, 1, 2}
INVARIANTS
  HeapDiscipline
  SelectionRight
  SequencesRight
