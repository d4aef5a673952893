SPECIFICATION Spec
CONSTANTS
  Clients = {a, b}
  NoClient = none
  Features = {"position", "heading", "velocity"}
  MaxSessions = 1
  MaxLate = 1
  Restarts = FALSE
INVARIANTS
  EnabledDelivered
CHECK_DEADLOCK FALSE
