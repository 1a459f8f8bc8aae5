CONSTANTS
  HourSeconds = 2
  SessionTTL = 2
  Requests = {r1}
  Kinds = {"LOGOUT", "CALLBACK"}
  Accounts = {"ada"}
  Emails = {"ada@x"}
  AllowLists <- OneAdmin
  MaxSession = 1
  MaxTime = 3
  None = None
  Cleared = Cleared
SPECIFICATION Spec
PROPERTY ClearedCookieIsDead
