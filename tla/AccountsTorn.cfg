SPECIFICATION Spec
CONSTANTS
  Emails = {a, b, c}
  MaxAccounts = 4
  Nobody = Nobody
INVARIANT UsersArePersisted
CHECK_DEADLOCK FALSE
