\* Two processes under stride scheduling; a transfer of half of the tickets.
CONSTANTS
  NPROC = 2
  CPU = {c0}
  Policies = {1}
  Winners = {}
  Amounts = {25}
  MaxTickets = 100
  MaxPass = 30
SPECIFICATION Spec
CHECK_DEADLOCK FALSE
PROPERTY
  TransferStands
