SPECIFICATION LiveSpec
CONSTANTS
  Panes = {pane1}
  BatchLimit = 2
  MaxMessages = 2
  Titles = {"idle", "working", "neutral"}
  Faults = {"exit", "park"}
  MaxFaults = 1
PROPERTIES
  MailIsAnnounced
CHECK_DEADLOCK FALSE
