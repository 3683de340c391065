SPECIFICATION LinkSpec
CONSTANTS
  Links = {l1, l2}
  Followers = {v1, v2}
  Requesters = {q1, q2}
  Resetters = {r1, r2}
  None = None
SYMMETRY Symmetry
INVARIANTS VerifiedWithOneNotice UsedLinkIsClosed
PROPERTIES OlderLinksEnd DeletedLinkSetsNothing
CHECK_DEADLOCK FALSE
