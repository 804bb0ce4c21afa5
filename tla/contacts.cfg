\* Two people, one group beside the default one, two connections.
SPECIFICATION Spec
CONSTANTS
  Users = {u1, u2}
  Groups = {g0, g1}
  Default = g0
  MaxLogins = 2
  MaxCalls = 1
  MaxPushes = 2
SYMMETRY Symmetry
INVARIANTS TypeOK KnownShown ContactsResolve CountsMatch StatesAgree TreeMatches AuthorizedSettled OnlineNamed DefaultProtected
PROPERTIES ExactAtLogin
CHECK_DEADLOCK FALSE
