CONSTANT
  Programs <- HashPatternPrograms

SPECIFICATION Spec

INVARIANT ResultIsMeaning

\* The machine stops when its program ends.
CHECK_DEADLOCK FALSE
