SPECIFICATION Spec
CONSTANTS
  r1 = r1
  r2 = r2
  r3 = r3
  w1 = w1
  w2 = w2
  Requests = {r1, r2, r3}
  Calls = {"signin", "signup", "googleSignin", "refreshToken", "forgetPassword", "resetPassword", "getSelf", "changePassword", "updateSelf", "logoutAllSessions", "updateUser", "deleteUser", "deleteUserPermanent", "restoreUser"}
  Passwords = {w1, w2}
  Redis = {TRUE, FALSE}
  MaxUsers = 2
  MaxTicks = 3
  MaxFaults = 1
SYMMETRY SessionSymmetry
INVARIANTS
  OldOnlyFromCache
  CurrentWorks
  TokensAgree
  RefreshesCurrent
CHECK_DEADLOCK FALSE
