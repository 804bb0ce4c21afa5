\* Timers are dispatched, the server answers and pushes User-Entered.
CONSTANTS
  b1 = b1  b2 = b2  m1 = m1  m2 = m2  c1 = c1  c2 = c2
  Buddies = {b1}
  Known = {b1}
  Messages = {m1, m2}
  Channels = {c1}
  Main = Main
  None = None
  MaxCallid = 9
  KeepAliveBelow = 0
SPECIFICATION ServedSpec
CHECK_DEADLOCK FALSE
PROPERTIES SmsResolved HeldResolved
