\* Two texts to one buddy, two channels, no keep alive rounds.
CONSTANTS
  b1 = b1  b2 = b2  m1 = m1  m2 = m2  c1 = c1  c2 = c2
  Buddies = {b1}
  Known = {b1}
  Messages = {m1, m2}
  Channels = {c1, c2}
  Main = Main
  None = None
  MaxCallid = 7
  KeepAliveBelow = 0
SPECIFICATION Spec
CHECK_DEADLOCK FALSE
SYMMETRY Symmetric
INVARIANTS TypeOK ListedIffOpen ReadyGate TimerMatch OneOwner
PROPERTIES FirstComeFirstSent
