SPECIFICATION FairSpec
CONSTANTS
  Tabs = {t1, t2}
  SignIn = {t1, t2}
  SignOut = {t2}
  MaxLogins = 2
  MaxLogouts = 1
  Anonymous = Anonymous
  None = None
INVARIANTS TypeOK
PROPERTIES SessionsAreEarned SignedOutIsRevoked TabsCatchUp
