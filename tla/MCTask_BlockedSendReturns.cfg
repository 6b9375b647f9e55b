CONSTANTS
  main = main
  a = a
  b = b
  h1 = h1
  Tasks = {main, a, b}
  Main = main
  Slots = {h1}
  MaxRefs = 1
  None = None
\* A chimp program may leave all its tasks in recv.
CHECK_DEADLOCK FALSE
SPECIFICATION FairSpec
PROPERTY BlockedSendReturns
