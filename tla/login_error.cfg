\* What account.h says of hybrid_account_error_reason, against the code.
CONSTANT MaxSessions = 1
SPECIFICATION Spec
CHECK_DEADLOCK FALSE
INVARIANTS ErrorCloses
