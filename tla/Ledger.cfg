SPECIFICATION FairSpec
CONSTANTS
  Calls = {t1, t2}
  Accounts = {1, 2}
  Amounts = {1, 2}
  MaxMoney = 3
  None = None
  Nobody = Nobody
INVARIANTS MoneyStaysThere DeadlockNeedsNewAccount
PROPERTIES ImplementsBank Returns
