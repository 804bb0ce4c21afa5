SPECIFICATION Spec
CONSTANTS
  Buddies = {b1, b2}
  MaxContacts = 2
  MaxPersonal = 1
PROPERTY ExactAfterLogin
