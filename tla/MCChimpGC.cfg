\* Two slabs of two slots: the free list runs out, collections free something
\* or nothing, the heap grows once.
CONSTANTS
  r1 = r1
  r2 = r2
  r3 = r3
  r4 = r4
  Refs = {r1, r2, r3, r4}
  SlabOf <- TwoSlabs
  SlabSize = 2
  MaxSlabs = 2
  MaxStack = 2
  MaxRoots = 1
  MaxOut = 1
  MaxStale = 1
SPECIFICATION Spec
INVARIANTS TypeOK ReachableIsLive CollectsGarbage UsedCountsLive
PROPERTIES KeepsPromise AllocationLosesNothing
SYMMETRY Symmetry
\* Out of memory, and the end of the task, are the end.
CHECK_DEADLOCK FALSE
