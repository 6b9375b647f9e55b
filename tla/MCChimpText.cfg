SPECIFICATION Spec
CONSTANTS
  Word = 128
  MaxBlock = 63
  MaxPieces = 7
  Jobs <- MCJobs
  Chars <- MCChars
INVARIANT FillsItsBlock
INVARIANT AnswerIsMeant
CHECK_DEADLOCK FALSE
