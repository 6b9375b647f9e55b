\* A creator that keeps its handle until it has joined, and one that does not.
CONSTANTS
  None = None
  P = P
  C = C
  Args = Args
\* The thread scheduler is fair to both threads.
SPECIFICATION FairSpec
INVARIANTS NoUseAfterFreeIfKept JoinedAfterEnd CountsExact RunsWithItsArguments
PROPERTY BroadcastWakes
\* Both threads end; and the creator may sleep through the broadcast.
CHECK_DEADLOCK FALSE
