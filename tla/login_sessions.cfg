\* Two connections, one after the other.
CONSTANT MaxSessions = 2
SPECIFICATION Spec
CHECK_DEADLOCK FALSE
INVARIANTS TypeOK OneKeepAlive OneStep VerificationPresent
