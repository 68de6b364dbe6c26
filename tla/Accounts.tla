------------------------------ MODULE Accounts ------------------------------
(***************************************************************************)
(* Platform accounts, sign-in and user administration (package auth/).     *)
(*                                                                         *)
(* Every browser session runs in a thread of its own and every service     *)
(* call opens its own database transaction, so an operation is a sequence  *)
(* of steps: it is authorised in one transaction, reads the account row in *)
(* a second one, may count the administrators with another query, spends   *)
(* time in the password hasher, and commits.  No row is locked.  At the    *)
(* commit SQLAlchemy writes the columns whose value differs from the one   *)
(* it read, as absolute values (session_version is the value read plus     *)
(* one), which Merge models.                                               *)
(***************************************************************************)
EXTENDS Integers, FiniteSets

CONSTANTS
  Users,              \* the accounts that may come to exist (usernames)
  Sessions,           \* browser sessions, each with one script thread
  Passwords,          \* what people type into a password field
  NoUser, NoPassword, \* the absent user and the absent password hash
  Operations,         \* the operations that sessions perform
  AssignableRoles,    \* the roles that accounts are given
  MaxFailedAttempts,  \* AuthService.MAX_FAILED_ATTEMPTS
  LockoutDuration,    \* AuthService.LOCKOUT_DURATION
  IdleTimeout,        \* settings.session_idle_timeout_minutes
  MaxVersion,         \* bound: session_version of an account
  MaxClock            \* bound: the clock

Roles == {"EMPLOYEE", "MANAGER", "ADMIN"}

AdminOperations ==
  {"create_user", "change_role", "activate", "deactivate", "reset_password"}

AllOperations == AdminOperations \cup {"login", "change_own_password"}

ASSUME ConstantsAssumption ==
  /\ IsFiniteSet(Users)
  /\ NoUser \notin Users
  /\ NoPassword \notin Passwords
  /\ Operations \subseteq AllOperations
  /\ AssignableRoles \subseteq Roles
  /\ MaxFailedAttempts \in Nat \ {0}
  /\ LockoutDuration \in Nat \ {0}
  /\ IdleTimeout \in Nat
  /\ MaxVersion \in Nat
  /\ MaxClock \in Nat

VARIABLES
  users,      \* the users table: one row for each username
  principal,  \* st.session_state's principal of each browser session
  op,         \* the operation each browser session is performing
  now,        \* the clock of the service
  event,      \* the audit row the latest transaction inserted, if any
  issued,     \* history: an administrator chose the account's password
  streak      \* history: failed sign-ins since the last success or lock

vars == <<users, principal, op, now, event, issued, streak>>

(***************************************************************************)
(* The users table.  lockedUntil = 0 stands for NULL: the clock starts at  *)
(* 0, so a lock ends at 1 at the earliest.  A username with no row yet has *)
(* NoRow; rows are never deleted.                                          *)
(***************************************************************************)
Row == [role : Roles, active : BOOLEAN, mustChange : BOOLEAN, failed : Nat,
        lockedUntil : Nat, version : Nat,
        password : Passwords \cup {NoPassword}]

NoRow == [role |-> "EMPLOYEE", active |-> FALSE, mustChange |-> FALSE,
          failed |-> 0, lockedUntil |-> 0, version |-> 0,
          password |-> NoPassword]

NewRow(role, password, mustChange) ==
  [role |-> role, active |-> TRUE, mustChange |-> mustChange, failed |-> 0,
   lockedUntil |-> 0, version |-> 1, password |-> password]

Registered(u) == users[u].password # NoPassword

ActiveAdmins == {u \in Users : users[u].active /\ users[u].role = "ADMIN"}

\* Mutant of Column: the whole row is written back.
WholeRow(read, edited, current) == edited

\* The column a flush leaves: written only where the operation changed it.
Column(read, edited, current) == IF edited # read THEN edited ELSE current

Merge(read, edited, current) ==
  [role        |-> Column(read.role, edited.role, current.role),
   active      |-> Column(read.active, edited.active, current.active),
   mustChange  |-> Column(read.mustChange, edited.mustChange,
                          current.mustChange),
   failed      |-> Column(read.failed, edited.failed, current.failed),
   lockedUntil |-> Column(read.lockedUntil, edited.lockedUntil,
                          current.lockedUntil),
   version     |-> Column(read.version, edited.version, current.version),
   password    |-> Column(read.password, edited.password, current.password)]

\* A password is hashed with a fresh salt: its column is always written.
MergeHash(read, edited, current) ==
  [Merge(read, edited, current) EXCEPT !.password = edited.password]

(***************************************************************************)
(* The row as an operation edits it.                                       *)
(***************************************************************************)
Cleared(row) == [row EXCEPT !.failed = 0, !.lockedUntil = 0]

Failed(row) == [row EXCEPT !.failed = @ + 1]

\* Mutant of Locked: the duration is subtracted.
LockedInThePast(row, time) ==
  [row EXCEPT !.failed = 0, !.lockedUntil = time - LockoutDuration]

Locked(row, time) ==
  [row EXCEPT !.failed = 0, !.lockedUntil = time + LockoutDuration]

WithRole(row, role) == [row EXCEPT !.role = role, !.version = @ + 1]

Deactivated(row) == [row EXCEPT !.active = FALSE, !.version = @ + 1]

Activated(row) ==
  [row EXCEPT !.active = TRUE, !.version = @ + 1,
              !.failed = 0, !.lockedUntil = 0]

\* Mutants of WithIssuedPassword: the sessions stay, the password stays.
IssuedToOpenSessions(row, password) ==
  [row EXCEPT !.password = password, !.mustChange = TRUE, !.failed = 0,
              !.lockedUntil = 0]

IssuedForGood(row, password) ==
  [row EXCEPT !.password = password, !.failed = 0, !.lockedUntil = 0,
              !.version = @ + 1]

WithIssuedPassword(row, password) ==
  [row EXCEPT !.password = password, !.mustChange = TRUE, !.failed = 0,
              !.lockedUntil = 0, !.version = @ + 1]

\* Mutant of WithOwnPassword: the user's own password counts as temporary.
StillTemporary(row, password) ==
  [row EXCEPT !.password = password, !.version = @ + 1]

WithOwnPassword(row, password) ==
  [row EXCEPT !.password = password, !.mustChange = FALSE, !.version = @ + 1]

(***************************************************************************)
(* Principals.  A session keeps the account's id, the session_version it   *)
(* signed in with and the time of its last activity; the copies of the     *)
(* role and of must_change_password it also keeps are refreshed from the   *)
(* row before any decision is taken on them.  The password is a history    *)
(* field: the one the session was opened with.                             *)
(***************************************************************************)
Principal == [user : Users \cup {NoUser}, version : Nat, lastActivity : Nat,
              password : Passwords \cup {NoPassword}]

NoPrincipal == [user |-> NoUser, version |-> 0, lastActivity |-> 0,
                password |-> NoPassword]

SignedIn(s) == principal[s].user # NoUser

\* Mutant of Matches: session_version is not compared.
MatchesIfActive(p) == users[p.user].active

\* The account's row still answers for a principal of that account.
Matches(p) == users[p.user].active /\ users[p.user].version = p.version

Expired(p) == now - p.lastActivity > IdleTimeout

Validates(s) == ~Expired(principal[s]) /\ Matches(principal[s])

(***************************************************************************)
(* Operations in flight.                                                   *)
(***************************************************************************)
OpSteps == {"authorized", "counting", "writing", "refusing"}

Idle == [kind |-> "none", step |-> "idle", target |-> NoUser,
         role |-> "EMPLOYEE", password |-> NoPassword, at |-> 0,
         row |-> NoRow]

InFlight == [kind : AllOperations, step : OpSteps, target : Users, role : Roles,
             password : Passwords \cup {NoPassword}, at : Nat, row : Row]

Op == InFlight \cup {Idle}

IsIdle(s) == op[s].step = "idle"

At(s, kind, step) == op[s].kind = kind /\ op[s].step = step

\* What an administrator may ask for: the arguments each operation takes.
Requests ==
  [kind : {"activate", "deactivate"}, role : {"EMPLOYEE"},
   password : {NoPassword}]
  \cup [kind : {"change_role"}, role : AssignableRoles,
        password : {NoPassword}]
  \cup [kind : {"reset_password"}, role : {"EMPLOYEE"}, password : Passwords]
  \cup [kind : {"create_user"}, role : AssignableRoles, password : Passwords]

Finish(s) == op' = [op EXCEPT ![s] = Idle]

\* The commit of the edited row: flush the changed columns.
Flush(s, edited) ==
  users' = [users EXCEPT ![op[s].target] = Merge(op[s].row, edited, @)]

FlushHash(s, edited) ==
  users' = [users EXCEPT ![op[s].target] = MergeHash(op[s].row, edited, @)]

(***************************************************************************)
(* Audit rows.  An audit row is inserted by the transaction that makes the *)
(* change it reports; the table is append-only and nothing here reads it,  *)
(* so the state holds only the row of the latest transaction.              *)
(***************************************************************************)
EventTypes ==
  {"USER_LOGIN", "USER_LOGIN_FAILED", "USER_LOCKED_OUT", "USER_LOGOUT",
   "SESSION_EXPIRED", "SESSION_INVALIDATED", "PASSWORD_CHANGED",
   "ACCESS_DENIED", "USER_CREATED", "USER_ROLE_CHANGED", "USER_ACTIVATED",
   "USER_DEACTIVATED", "USER_PASSWORD_RESET"}

AuditRow == [type : EventTypes \cup {"none"}, actor : Users \cup {NoUser},
             target : Users \cup {NoUser}]

NoEvent == [type |-> "none", actor |-> NoUser, target |-> NoUser]

Record(type, actor, target) ==
  event' = [type |-> type, actor |-> actor, target |-> target]

Unaudited == event' = NoEvent

History == <<issued, streak>>

Init ==
  /\ users = [u \in Users |-> NoRow]
  /\ principal = [s \in Sessions |-> NoPrincipal]
  /\ op = [s \in Sessions |-> Idle]
  /\ now = 0
  /\ event = NoEvent
  /\ issued = [u \in Users |-> FALSE]
  /\ streak = [u \in Users |-> 0]

(***************************************************************************)
(* Sign-in.                                                                *)
(***************************************************************************)

\* Mutant of IsLocked: the lock is not looked at.
NeverLocked(u) == FALSE

IsLocked(u) == now < users[u].lockedUntil

\* The row is read and the account is unknown, locked or inactive.
RefuseLogin(s, u) ==
  /\ "login" \in Operations /\ IsIdle(s) /\ ~SignedIn(s)
  /\ \/ ~Registered(u)
     \/ IsLocked(u)
     \/ ~users[u].active
  /\ Record("USER_LOGIN_FAILED", IF Registered(u) THEN u ELSE NoUser, NoUser)
  /\ UNCHANGED <<users, principal, op, History>>

\* The row is read and the password goes to the hasher.
BeginLogin(s, u, password) ==
  /\ "login" \in Operations /\ IsIdle(s) /\ ~SignedIn(s)
  /\ Registered(u)
  /\ ~IsLocked(u)
  /\ users[u].active
  /\ op' = [op EXCEPT ![s] = [kind |-> "login", step |-> "writing",
       target |-> u, role |-> "EMPLOYEE", password |-> password, at |-> now,
       row |-> users[u]]]
  /\ Unaudited
  /\ UNCHANGED <<users, principal, History>>

PasswordMatches(s) == op[s].password = op[s].row.password

\* Mutant of ReachesLimit: one failure too many.
ExceedsLimit(s) == op[s].row.failed + 1 > MaxFailedAttempts

ReachesLimit(s) == op[s].row.failed + 1 >= MaxFailedAttempts

AcceptLogin(s) ==
  LET u == op[s].target IN
  /\ At(s, "login", "writing")
  /\ PasswordMatches(s)
  /\ Flush(s, Cleared(op[s].row))
  /\ principal' = [principal EXCEPT
       ![s] = [user |-> u, version |-> op[s].row.version,
               lastActivity |-> op[s].at, password |-> op[s].password]]
  /\ streak' = [streak EXCEPT ![u] = 0]
  /\ Finish(s)
  /\ Record("USER_LOGIN", u, NoUser)
  /\ UNCHANGED issued

CountFailure(s) ==
  LET u == op[s].target IN
  /\ At(s, "login", "writing")
  /\ ~PasswordMatches(s) /\ ~ReachesLimit(s)
  /\ Flush(s, Failed(op[s].row))
  /\ streak' = [streak EXCEPT ![u] = @ + 1]
  /\ Finish(s)
  /\ Record("USER_LOGIN_FAILED", u, NoUser)
  /\ UNCHANGED <<principal, issued>>

\* The lock and its audit row are one commit, the refusal's audit row the
\* next one.
LockAccount(s) ==
  LET u == op[s].target IN
  /\ At(s, "login", "writing")
  /\ ~PasswordMatches(s) /\ ReachesLimit(s)
  /\ Flush(s, Locked(op[s].row, op[s].at))
  /\ streak' = [streak EXCEPT ![u] = 0]
  /\ op' = [op EXCEPT ![s].step = "refusing"]
  /\ Record("USER_LOCKED_OUT", u, NoUser)
  /\ UNCHANGED <<principal, issued>>

RefuseAfterLock(s) ==
  /\ At(s, "login", "refusing")
  /\ Finish(s)
  /\ Record("USER_LOGIN_FAILED", op[s].target, NoUser)
  /\ UNCHANGED <<users, principal, History>>

SignOut(s) ==
  /\ IsIdle(s) /\ SignedIn(s)
  /\ principal' = [principal EXCEPT ![s] = NoPrincipal]
  /\ Record("USER_LOGOUT", principal[s].user, NoUser)
  /\ UNCHANGED <<users, op, History>>

(***************************************************************************)
(* Session validation, on every rerun and before every protected call.     *)
(***************************************************************************)
Refresh(s) ==
  /\ IsIdle(s) /\ SignedIn(s) /\ Validates(s)
  /\ principal' = [principal EXCEPT ![s].lastActivity = now]
  /\ Unaudited
  /\ UNCHANGED <<users, op, History>>

EndSession(s) ==
  /\ IsIdle(s) /\ SignedIn(s) /\ ~Validates(s)
  /\ principal' = [principal EXCEPT ![s] = NoPrincipal]
  /\ Record(IF Expired(principal[s]) THEN "SESSION_EXPIRED"
                                     ELSE "SESSION_INVALIDATED",
            principal[s].user, NoUser)
  /\ UNCHANGED <<users, op, History>>

(***************************************************************************)
(* User administration: Authorizer.require, then the operation itself.     *)
(***************************************************************************)
MayManageUsers(u) == ~users[u].mustChange /\ users[u].role = "ADMIN"

DenyAdministration(s) ==
  /\ Operations \cap AdminOperations # {}
  /\ IsIdle(s) /\ SignedIn(s) /\ Validates(s)
  /\ ~MayManageUsers(principal[s].user)
  /\ Record("ACCESS_DENIED", principal[s].user, NoUser)
  /\ UNCHANGED <<users, principal, op, History>>

Authorize(s, u, r) ==
  /\ r.kind \in Operations
  /\ IsIdle(s) /\ SignedIn(s) /\ Validates(s)
  /\ MayManageUsers(principal[s].user)
  /\ op' = [op EXCEPT ![s] = [kind |-> r.kind, step |-> "authorized",
       target |-> u, role |-> r.role, password |-> r.password, at |-> 0,
       row |-> NoRow]]
  /\ Unaudited
  /\ UNCHANGED <<users, principal, History>>

\* A username is taken or free at the moment of the insert: it is unique.
CreateUser(s) ==
  LET u == op[s].target IN
  /\ At(s, "create_user", "authorized")
  /\ ~Registered(u)
  /\ users' = [users EXCEPT ![u] = NewRow(op[s].role, op[s].password, TRUE)]
  /\ issued' = [issued EXCEPT ![u] = TRUE]
  /\ Finish(s)
  /\ Record("USER_CREATED", principal[s].user, u)
  /\ UNCHANGED <<principal, streak>>

\* The edit would change nothing, so the operation returns before writing.
ChangesNothing(kind, role, row) ==
  \/ kind = "change_role" /\ row.role = role
  \/ kind = "activate" /\ row.active
  \/ kind = "deactivate" /\ ~row.active

\* Mutant of RemovesActiveAdmin: deactivation is forgotten.
DemotesActiveAdmin(kind, row) ==
  kind = "change_role" /\ row.role = "ADMIN" /\ row.active

RemovesActiveAdmin(kind, row) ==
  kind \in {"change_role", "deactivate"} /\ row.role = "ADMIN" /\ row.active

\* Mutant of IsOwn: one's own account is not refused.
NeverOwn(s) == FALSE

IsOwn(s) == op[s].target = principal[s].user

\* No such account, one's own account, nothing to do, a taken username.
\* Versions at the bound stop here too.
GiveUp(s) ==
  LET o == op[s] IN
  /\ o.step = "authorized" /\ o.kind \in AdminOperations
  /\ IF o.kind = "create_user" THEN Registered(o.target)
     ELSE \/ ~Registered(o.target)
          \/ IsOwn(s)
          \/ ChangesNothing(o.kind, o.role, users[o.target])
          \/ users[o.target].version >= MaxVersion
  /\ Finish(s)
  /\ Unaudited
  /\ UNCHANGED <<users, principal, History>>

ReadTarget(s) ==
  LET o == op[s]  row == users[o.target] IN
  /\ o.step = "authorized" /\ o.kind \in AdminOperations \ {"create_user"}
  /\ Registered(o.target)
  /\ ~IsOwn(s)
  /\ ~ChangesNothing(o.kind, o.role, row)
  /\ row.version < MaxVersion
  /\ op' = [op EXCEPT ![s].row = row,
                      ![s].step = IF RemovesActiveAdmin(o.kind, row)
                                  THEN "counting" ELSE "writing"]
  /\ Unaudited
  /\ UNCHANGED <<users, principal, History>>

EnsureAnotherActiveAdmin(s) ==
  /\ op[s].kind \in {"change_role", "deactivate"} /\ op[s].step = "counting"
  /\ IF Cardinality(ActiveAdmins) > 1
     THEN op' = [op EXCEPT ![s].step = "writing"]
     ELSE Finish(s)
  /\ Unaudited
  /\ UNCHANGED <<users, principal, History>>

ChangeRole(s) ==
  /\ At(s, "change_role", "writing")
  /\ Flush(s, WithRole(op[s].row, op[s].role))
  /\ Finish(s)
  /\ Record("USER_ROLE_CHANGED", principal[s].user, op[s].target)
  /\ UNCHANGED <<principal, History>>

Deactivate(s) ==
  /\ At(s, "deactivate", "writing")
  /\ Flush(s, Deactivated(op[s].row))
  /\ Finish(s)
  /\ Record("USER_DEACTIVATED", principal[s].user, op[s].target)
  /\ UNCHANGED <<principal, History>>

Activate(s) ==
  LET u == op[s].target IN
  /\ At(s, "activate", "writing")
  /\ Flush(s, Activated(op[s].row))
  /\ streak' = [streak EXCEPT ![u] = 0]
  /\ Finish(s)
  /\ Record("USER_ACTIVATED", principal[s].user, u)
  /\ UNCHANGED <<principal, issued>>

ResetPassword(s) ==
  LET u == op[s].target IN
  /\ At(s, "reset_password", "writing")
  /\ FlushHash(s, WithIssuedPassword(op[s].row, op[s].password))
  /\ issued' = [issued EXCEPT ![u] = TRUE]
  /\ streak' = [streak EXCEPT ![u] = 0]
  /\ Finish(s)
  /\ Record("USER_PASSWORD_RESET", principal[s].user, u)
  /\ UNCHANGED principal

(***************************************************************************)
(* A user's own password.  The session is validated in one transaction and *)
(* the row read in another, which checks neither the version nor whether   *)
(* the account is active.                                                  *)
(***************************************************************************)
BeginOwnPassword(s, password) ==
  /\ "change_own_password" \in Operations
  /\ IsIdle(s) /\ SignedIn(s) /\ Validates(s)
  /\ op' = [op EXCEPT ![s] = [kind |-> "change_own_password",
       step |-> "authorized", target |-> principal[s].user,
       role |-> "EMPLOYEE", password |-> password, at |-> 0, row |-> NoRow]]
  /\ Unaudited
  /\ UNCHANGED <<users, principal, History>>

\* The current password typed is wrong, or the new one is not new.
RefuseOwnPassword(s) ==
  /\ At(s, "change_own_password", "authorized")
  /\ Finish(s)
  /\ Unaudited
  /\ UNCHANGED <<users, principal, History>>

ReadOwnRow(s) ==
  LET row == users[op[s].target] IN
  /\ At(s, "change_own_password", "authorized")
  /\ Registered(op[s].target)
  /\ op[s].password # row.password
  /\ row.version < MaxVersion
  /\ op' = [op EXCEPT ![s].row = row, ![s].step = "writing"]
  /\ Unaudited
  /\ UNCHANGED <<users, principal, History>>

ChangeOwnPassword(s) ==
  LET o == op[s] IN
  /\ At(s, "change_own_password", "writing")
  /\ FlushHash(s, WithOwnPassword(o.row, o.password))
  /\ principal' = [principal EXCEPT
       ![s] = [user |-> o.target, version |-> o.row.version + 1,
               lastActivity |-> now, password |-> o.password]]
  /\ issued' = [issued EXCEPT ![o.target] = FALSE]
  /\ Finish(s)
  /\ Record("PASSWORD_CHANGED", o.target, NoUser)
  /\ UNCHANGED streak

(***************************************************************************)
(* What is not a session's doing.                                          *)
(***************************************************************************)

\* scripts/create_admin.py and seed_demo_users.py, from the host's shell.
BootstrapUser(u, role, password) ==
  /\ ~Registered(u)
  /\ users' = [users EXCEPT ![u] = NewRow(role, password, FALSE)]
  /\ Record("USER_CREATED", NoUser, u)
  /\ UNCHANGED <<principal, op, now, History>>

\* An exception (a lost connection, say) rolls the open transaction back.
RollBack(s) ==
  /\ ~IsIdle(s)
  /\ Finish(s)
  /\ Unaudited
  /\ UNCHANGED <<users, principal, History>>

\* The tab is closed or the process restarts: the session's memory is gone.
LoseSession(s) ==
  /\ SignedIn(s) \/ ~IsIdle(s)
  /\ principal' = [principal EXCEPT ![s] = NoPrincipal]
  /\ Finish(s)
  /\ Unaudited
  /\ UNCHANGED <<users, History>>

Tick ==
  /\ now < MaxClock
  /\ now' = now + 1
  /\ Unaudited
  /\ UNCHANGED <<users, principal, op, History>>

SignInStep(s) ==
  \/ \E u \in Users : RefuseLogin(s, u)
  \/ \E u \in Users, p \in Passwords : BeginLogin(s, u, p)
  \/ AcceptLogin(s) \/ CountFailure(s) \/ LockAccount(s) \/ RefuseAfterLock(s)
  \/ SignOut(s) \/ Refresh(s) \/ EndSession(s)

AdministrationStep(s) ==
  \/ DenyAdministration(s)
  \/ \E u \in Users, r \in Requests : Authorize(s, u, r)
  \/ CreateUser(s) \/ GiveUp(s) \/ ReadTarget(s) \/ EnsureAnotherActiveAdmin(s)
  \/ ChangeRole(s) \/ Deactivate(s) \/ Activate(s) \/ ResetPassword(s)

OwnPasswordStep(s) ==
  \/ \E p \in Passwords : BeginOwnPassword(s, p)
  \/ RefuseOwnPassword(s) \/ ReadOwnRow(s) \/ ChangeOwnPassword(s)

\* Whatever is done at one moment is one step; time passes between steps.
SessionStep(s) ==
  /\ \/ SignInStep(s)
     \/ AdministrationStep(s)
     \/ OwnPasswordStep(s)
     \/ RollBack(s)
     \/ LoseSession(s)
  /\ UNCHANGED now

Next ==
  \/ \E s \in Sessions : SessionStep(s)
  \/ \E u \in Users, r \in AssignableRoles, p \in Passwords :
       BootstrapUser(u, r, p)
  \/ Tick

Spec == Init /\ [][Next]_vars
=============================================================================
