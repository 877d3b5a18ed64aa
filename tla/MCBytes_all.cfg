SPECIFICATION Spec
CONSTANTS
  WORD = 4
  SMALL = 4
  R = 16
  Strings <- MCStrings
  Filler = 1
  Blocks <- MCBlocks
  Chars = {0, 1, 33, 128}
  Counts = {0, 1, 2, 4, 6}
INVARIANTS
  CopiesRight
  StringAnswersRight
  ReadsInWords
  BlocksRight
CHECK_DEADLOCK FALSE
