SPECIFICATION Spec
CONSTANTS
  slotA = slotA
  slotB = slotB
  other = other
  worker = worker
  process = process
  Clients = {slotA, slotB, other}
  Owners = {worker, process}
  Owner <- TwoProcesses
  Sources = {x, y}
  Rows = {r1, r2, r3}
  Limit = 1
  Lease = 1
  Retention = 1
  MaxOffers = 1
  MaxTime = 2
SYMMETRY Symmetry
INVARIANTS
  TypeOK
  CountCoversOpenRows
  OpenWithinLimit
PROPERTY
  OnlyOwnersCloseLiveRows
