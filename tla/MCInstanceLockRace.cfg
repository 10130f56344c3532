CONSTANTS
  Proc = {p1, p2, p3}
  NoProc = NoProc
  IOFaults = FALSE
SPECIFICATION Spec
INVARIANT TakeoverHasOneWinner
SYMMETRY Symmetry
CHECK_DEADLOCK FALSE
