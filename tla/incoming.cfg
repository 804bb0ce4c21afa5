\* Two contacts, four messages, reads of up to five cells.
SPECIFICATION Spec
CONSTANTS
  Contacts = {c1, c2}
  Self = self
  NULL = NULL
  BufLength = 5
  MaxMessages = 4
INVARIANTS TypeOK HandledInOrder NothingWaits AnnouncedIffListed TextsKept AckedIffShown
PROPERTIES EverythingHandled ImplementsInbox
CHECK_DEADLOCK FALSE
