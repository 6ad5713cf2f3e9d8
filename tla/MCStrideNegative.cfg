\* transfer_tickets() preempted between its check and its subtraction.
CONSTANTS
  NPROC = 3
  CPU = {c0}
  Policies = {1}
  Winners = {}
  Amounts = {60}
  MaxTickets = 100
  MaxPass = 30
SPECIFICATION Spec
CHECK_DEADLOCK FALSE
INVARIANT
  TicketsNonNegative
