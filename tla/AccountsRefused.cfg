SPECIFICATION Spec
CONSTANTS
  Emails = {a, b, c}
  MaxAccounts = 4
  Nobody = Nobody
INVARIANT RefusedIsRegistered
CHECK_DEADLOCK FALSE
