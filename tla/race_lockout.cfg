CONSTANTS
  Users = {u1}
  Sessions = {s1, s2}
  Passwords = {p1, p2}
  NoUser = NoUser
  NoPassword = NoPassword
  Operations <- SignInOperations
  AssignableRoles = {"ADMIN"}
  MaxFailedAttempts = 2
  LockoutDuration = 1
  IdleTimeout = 1
  MaxVersion = 3
  MaxClock = 0
SPECIFICATION Spec
SYMMETRY AnyNames
INVARIANTS
  FailuresLock
