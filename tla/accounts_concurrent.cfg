CONSTANTS
  Users = {u1, u2}
  Sessions = {s1, s2}
  Passwords = {p1, p2}
  NoUser = NoUser
  NoPassword = NoPassword
  Operations <- OverlapOperations
  AssignableRoles = {"EMPLOYEE", "ADMIN"}
  MaxFailedAttempts = 1
  LockoutDuration = 1
  IdleTimeout = 0
  MaxVersion = 3
  MaxClock = 1
SPECIFICATION Spec
SYMMETRY AnyNames
VIEW ReadState
INVARIANTS
  TypeOK
PROPERTIES
  ChangesAreOwnedAndAudited
  NoSelfAdministration
