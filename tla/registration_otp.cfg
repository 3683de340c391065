SPECIFICATION Spec
CONSTANTS
  Senders = {s1}
  Verifiers = {v1, v2}
  Registrars = {g1, g2}
  Null = Null
  MaxAttempts = 2
  MaxCodes = 2
SYMMETRY Symmetry
INVARIANTS GuessesBounded OneAccount
CHECK_DEADLOCK FALSE
