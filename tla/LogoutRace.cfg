SPECIFICATION Spec
CONSTANTS
  Tabs = {t1}
  SignIn = {t1}
  SignOut = {t1}
  MaxLogins = 1
  MaxLogouts = 2
  Anonymous = Anonymous
  None = None
PROPERTY LoggedOutStaysOut
