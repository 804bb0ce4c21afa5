\* Is there always a default group?
SPECIFICATION Spec
CONSTANTS
  Users = {u1, u2}
  Groups = {g0, g1}
  Default = g0
  MaxLogins = 2
  MaxCalls = 1
  MaxPushes = 2
SYMMETRY Symmetry
INVARIANTS DefaultGroupExists
CHECK_DEADLOCK FALSE
