CONSTANTS
  HourSeconds = 2
  SessionTTL = 2
  Requests = {r1}
  Kinds = {"ME", "MUTATE", "LOGOUT", "CALLBACK"}
  Accounts = {"ada", "bob"}
  Emails = {"ada@x", "bob@x"}
  AllowLists <- ChangingLists
  MaxSession = 1
  MaxTime = 3
  None = None
  Cleared = Cleared
SPECIFICATION FairSpec
INVARIANT
  StaleAdminsExpire
PROPERTY
  DeadSessionsGo
