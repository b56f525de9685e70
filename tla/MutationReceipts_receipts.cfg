SPECIFICATION Spec
CONSTANTS
  Requests = {r1, r2}
  Payloads = {p, q}
  Methods = {"plain", "send", "worker_done", "worker_start", "release", "prompt"}
  MaxRows = 1
  MaxEffects = 2
  MaxFaults = 2
SYMMETRY Symmetry
INVARIANTS
  TypeOK
  AtMostOnce
  AnswersComeFromTheReceipt
  OneExecution
  AnsweredMailIsAnnounced
CHECK_DEADLOCK FALSE
