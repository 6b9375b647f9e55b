SPECIFICATION Spec
CONSTANTS
  Main = "main task"
  Mgr = "manager"
  Clients = {"k", "l"}
  Talkers = {"l"}
  Names = {"a", "b", "c", "d", "e", "f", "io", "nowhere"}
  Builtin = {"io"}
  InPath = {"a", "b", "c", "d", "e", "f"}
  Files = {"a", "b", "c", "d", "e", "f", "main", "rotten", "wrap", "round", "lost", "spoilt", "bad", "shut"}
  Uses <- MCUses
  Unreadable = {"e", "shut"}
  Malformed = {"bad", "f"}
  MainFiles = {"main", "rotten", "round", "lost", "spoilt", "bad", "shut"}
  Requests <- MCRequests
  Depth = 8
INVARIANT TypeOK
INVARIANT HeldIsCached
INVARIANT Linked
INVARIANT OneOfAName
INVARIANT OverflowsOnlyInCircles
PROPERTY Answered
CHECK_DEADLOCK FALSE
