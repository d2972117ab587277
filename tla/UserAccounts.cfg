SPECIFICATION Spec
CONSTANTS
  Emails = {a, b, c}
  MaxAccounts = 4
  Nobody = Nobody
INVARIANTS
  ConfirmedIsKnown
  FileIsCurrent
CHECK_DEADLOCK FALSE
