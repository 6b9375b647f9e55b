SPECIFICATION Spec
CONSTANTS
  Nil = Nil
  True = True
  False = False
  Junk = Junk
  Values = {Nil, True}
  DefaultCapacity = 2
  Half = 4
  MaxSize = 3
  Indices <- MCIndices
  Literals <- MCLiterals
INVARIANT TypeOK
INVARIANT OverrunOnlyFromOne
PROPERTY ImplementsList
CHECK_DEADLOCK FALSE
