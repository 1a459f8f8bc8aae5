CONSTANTS
  HourSeconds = 2
  SessionTTL = 2
  Requests = {r1, r2}
  Kinds = {"ME", "LOGOUT", "CALLBACK"}
  Accounts = {"ada"}
  Emails = {"ada@x"}
  AllowLists <- OneAdmin
  MaxSession = 2
  MaxTime = 3
  None = None
  Cleared = Cleared
SPECIFICATION Spec
SYMMETRY RequestSymmetry
INVARIANTS
  TypeOK DeadStaysDead LogoutIsFinal HeldTokenAccepted
PROPERTY
  ReplyHeals
