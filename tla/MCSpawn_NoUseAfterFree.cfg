\* The creator's handle may be collected once the arguments are sent.
CONSTANTS
  None = None
  P = P
  C = C
  Args = Args
SPECIFICATION Spec
INVARIANT NoUseAfterFree
\* Both threads end; and the creator may sleep through the broadcast.
CHECK_DEADLOCK FALSE
