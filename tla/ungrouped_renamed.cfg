\* One person, three connections, processes that start with an old tree.
SPECIFICATION RestartSpec
CONSTANTS
  Users = {u1}
  Groups = {g0, g1}
  Default = g0
  MaxLogins = 3
  MaxCalls = 1
  MaxPushes = 1
INVARIANTS UngroupedNeverRenamed
CHECK_DEADLOCK FALSE
