CONSTANTS
  Users = {u1, u2}
  Sessions = {s1, s2}
  Passwords = {p1, p2}
  NoUser = NoUser
  NoPassword = NoPassword
  Operations <- ExistingAccountOperations
  AssignableRoles = {"EMPLOYEE", "ADMIN"}
  MaxFailedAttempts = 2
  LockoutDuration = 1
  IdleTimeout = 0
  MaxVersion = 3
  MaxClock = 0
SPECIFICATION ExclusiveSpec
SYMMETRY AnyNames
VIEW ReadState
INVARIANTS
  FailuresLock
  LiveSessionsAreCurrent
  IssuedPasswordsAreTemporary
PROPERTIES
  InvalidatedForGood
  LockHolds
  LastAdminSurvives
  ImplementsRegister
