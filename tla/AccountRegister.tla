-------------------------- MODULE AccountRegister --------------------------
(***************************************************************************)
(* What the users table promises its readers: it moves from one whole      *)
(* operation to the next, each applied to the row as it is at that moment. *)
(* A role, status or password change takes session_version one further,    *)
(* an issued password is temporary, failures are counted one by one up to  *)
(* the lock, and the last active administrator is not taken away.          *)
(***************************************************************************)
EXTENDS Naturals

CONSTANTS
  Users, Roles, Passwords,
  NoRow,              \* the row of an account that does not exist yet
  MaxFailedAttempts,  \* failures in a row that lock an account
  LockEnds            \* the times at which a lock may end

VARIABLE rows

Exists(u) == rows[u] # NoRow

Administers(u) == rows[u].active /\ rows[u].role = "ADMIN"

AnotherAdministers(u) == \E v \in Users \ {u} : Administers(v)

Init == rows = [u \in Users |-> NoRow]

Register(u, role, password, temporary) ==
  /\ ~Exists(u)
  /\ rows' = [rows EXCEPT
       ![u] = [role |-> role, active |-> TRUE, mustChange |-> temporary,
               failed |-> 0, lockedUntil |-> 0, version |-> 1,
               password |-> password]]

GiveRole(u, role) ==
  /\ Exists(u) /\ rows[u].role # role
  /\ Administers(u) => AnotherAdministers(u)
  /\ rows' = [rows EXCEPT ![u].role = role, ![u].version = @ + 1]

Suspend(u) ==
  /\ Exists(u) /\ rows[u].active
  /\ Administers(u) => AnotherAdministers(u)
  /\ rows' = [rows EXCEPT ![u].active = FALSE, ![u].version = @ + 1]

Readmit(u) ==
  /\ Exists(u) /\ ~rows[u].active
  /\ rows' = [rows EXCEPT ![u].active = TRUE, ![u].version = @ + 1,
                          ![u].failed = 0, ![u].lockedUntil = 0]

IssuePassword(u, password) ==
  /\ Exists(u)
  /\ rows' = [rows EXCEPT ![u].password = password, ![u].mustChange = TRUE,
                          ![u].version = @ + 1, ![u].failed = 0,
                          ![u].lockedUntil = 0]

OwnPassword(u, password) ==
  /\ Exists(u) /\ rows[u].password # password
  /\ rows' = [rows EXCEPT ![u].password = password, ![u].mustChange = FALSE,
                          ![u].version = @ + 1]

SignIn(u) ==
  /\ Exists(u) /\ rows[u].active
  /\ rows' = [rows EXCEPT ![u].failed = 0, ![u].lockedUntil = 0]

Failure(u) ==
  /\ Exists(u) /\ rows[u].active
  /\ rows[u].failed + 1 < MaxFailedAttempts
  /\ rows' = [rows EXCEPT ![u].failed = @ + 1]

LastFailure(u, end) ==
  /\ Exists(u) /\ rows[u].active
  /\ rows[u].failed + 1 = MaxFailedAttempts
  /\ rows' = [rows EXCEPT ![u].failed = 0, ![u].lockedUntil = end]

Next ==
  \E u \in Users :
    \/ \E role \in Roles, password \in Passwords, temporary \in BOOLEAN :
         Register(u, role, password, temporary)
    \/ \E role \in Roles : GiveRole(u, role)
    \/ \E password \in Passwords :
         IssuePassword(u, password) \/ OwnPassword(u, password)
    \/ Suspend(u) \/ Readmit(u) \/ SignIn(u) \/ Failure(u)
    \/ \E end \in LockEnds : LastFailure(u, end)

Spec == Init /\ [][Next]_rows
=============================================================================
