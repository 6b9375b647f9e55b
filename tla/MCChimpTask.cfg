\* Three tasks, one handle each: two senders can block on one inbox, a handle
\* can travel, and every task but Main can end or fail.
CONSTANTS
  main = main
  a = a
  b = b
  h1 = h1
  Tasks = {main, a, b}
  Main = main
  Slots = {h1}
  MaxRefs = 3
  None = None
SPECIFICATION Spec
INVARIANTS TypeOK Lifecycle RefsCover NoUseAfterFree DoneHeapReleased
PROPERTY NoOverwrite
SYMMETRY Symmetry
\* A chimp program may leave all its tasks in recv.
CHECK_DEADLOCK FALSE
