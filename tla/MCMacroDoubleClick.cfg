SPECIFICATION Spec
CONSTANTS
  Callers = {c1, c2}
  Last = 2
  Messages <- SentMessages
  Articles <- SentMessages
  Users = {"u", "v"}
  Workspaces = {"w1", "w2"}
  Teams = {"t"}
  None = "none"
SYMMETRY Symmetry
PROPERTY RecordedNeverRerun
CHECK_DEADLOCK FALSE
