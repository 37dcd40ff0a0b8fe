CONSTANTS
  Readers = {r1, r2}
  MaxPublications = 3
  Attaches = TRUE
SPECIFICATION Spec
INVARIANTS
  ClockInv
  FreshParts
  NeverBackwards
