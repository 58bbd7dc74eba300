CONSTANTS
  User = {u1, u2}
  First = u1
  Workspace = {w1}
  Base = {b1}
  Term = {t1}
  Request = {q1, q2, q3}
SYMMETRY Requests
SPECIFICATION Spec
INVARIANTS OwnerIsMember MakerIsMember
CHECK_DEADLOCK FALSE
