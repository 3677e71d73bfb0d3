SPECIFICATION Spec
CONSTANTS
  Callers = {c1, c2, c3}
  Last = 2
  Messages <- SentMessages
  Articles <- SentMessages
  Users = {"u", "v"}
  Workspaces = {"w1", "w2"}
  Teams = {"t"}
  None = "none"
SYMMETRY Symmetry
INVARIANTS SucceededIsDone MessagesOnce ServicesAccounted
CHECK_DEADLOCK FALSE
