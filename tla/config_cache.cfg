SPECIFICATION Spec
CONSTANTS
  Buddies = {b1, b2}
  MaxContacts = 3
  MaxPersonal = 2
INVARIANT TypeOK
INVARIANT VersionNamesCopy
INVARIANT ListOfTheAnswer
PROPERTY ExactOnceDownloaded
