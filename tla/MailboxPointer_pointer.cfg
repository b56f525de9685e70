SPECIFICATION Spec
SYMMETRY Symmetry
CONSTANTS
  Panes = {pane1, pane2}
  BatchLimit = 1
  MaxMessages = 1
  Titles = {"idle", "working"}
  Faults = {"restart", "exit", "park", "rebind", "refused", "unverifiable"}
  MaxFaults = 2
INVARIANTS
  PointerInvariant
  EnterFollowsItsText
  EnterNeverTwice
  FlightKeepsItsRows
CHECK_DEADLOCK FALSE
