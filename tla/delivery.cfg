SPECIFICATION Spec
CONSTANTS
  Rows = {o1, o2, o3}
  Operators = {d1, d2}
  Kinds = {"verify-email", "email-verified", "reset-password", "registration-code"}
  Editors = {e1, e2}
  Edits <- MCEdits
  MaxEvents = 3
  MaxIntents = 1
  MaxAgain = 1
  Null = Null
SYMMETRY Symmetry
INVARIANTS TypeOK MailedOnce StoredSendable MailsComplete
PROPERTIES RedrivenOnce
CHECK_DEADLOCK FALSE
