CONSTANTS
  Jobs = {j1}
  Workers = {w1, w2}
  Pages = {p1}
  None = None
  MaxAttempts = 2
  Faults = {"expiry"}
  MaxFaults = 2
SPECIFICATION LiveSpec
PROPERTIES
  TerminalNeverRerunUnlessTied
  EventuallyTerminal
CHECK_DEADLOCK FALSE
