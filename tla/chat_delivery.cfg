\* Texts to two buddies, one of them unknown to the account, and keep alive
\* rounds over the main connection and a channel; the abstract delivery
\* compares steps, so no symmetry.
CONSTANTS
  b1 = b1  b2 = b2  m1 = m1  m2 = m2  c1 = c1  c2 = c2
  Buddies = {b1, b2}
  Known = {b1}
  Messages = {m1, m2}
  Channels = {c1}
  Main = Main
  None = None
  MaxCallid = 5
  KeepAliveBelow = 3
SPECIFICATION Spec
CHECK_DEADLOCK FALSE
INVARIANTS CallidUnique NoMisdelivery
PROPERTIES ImplementsDelivery
