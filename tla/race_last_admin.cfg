CONSTANTS
  Users = {u1, u2}
  Sessions = {s1, s2}
  Passwords = {p1}
  NoUser = NoUser
  NoPassword = NoPassword
  Operations <- RoleOperations
  AssignableRoles = {"EMPLOYEE", "ADMIN"}
  MaxFailedAttempts = 2
  LockoutDuration = 1
  IdleTimeout = 1
  MaxVersion = 3
  MaxClock = 0
SPECIFICATION Spec
SYMMETRY AnyNames
PROPERTIES
  LastAdminSurvives
