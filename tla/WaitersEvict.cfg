\* Entries past the limit: every space refuses one principal.
SPECIFICATION Spec
CONSTANTS
  Connections = {c1, c2, c3}
  Spaces = {s1, s2}
  Principals = {p1}
  Limit = 1
SYMMETRY Symmetry
INVARIANTS IndexesAgree NoAdmittedWaiter
PROPERTIES NeverForgotten HeldUntilAnswered
