\* Two senders and joiners at one inbox, whose owner may die under them.
CONSTANTS
  main = main
  a = a
  b = b
  c = c
  h1 = h1
  h2 = h2
  h3 = h3
  Tasks = {main, a, b, c}
  Main = main
  Receiver = a
  Senders = {b, c}
  Slots = {h1, h2, h3}
  MaxRefs = 5
  None = None
SPECIFICATION SpecRivals
PROPERTIES RecvGetsMessage JoinReturns SenderGetsRoom
\* A chimp program may leave all its tasks in recv.
CHECK_DEADLOCK FALSE
