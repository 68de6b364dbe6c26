--------------------------- MODULE AccountsSafety ---------------------------
(***************************************************************************)
(* What the account model must guarantee, and the discipline under which   *)
(* it does.  Nothing in the code keeps two operations from working on one  *)
(* row at a time; ExclusiveSpec is the program in which nobody does that.  *)
(***************************************************************************)
EXTENDS Accounts

\* A row has been read and the write that depends on it is still to come.
Pending(s) == op[s].step \in {"counting", "writing"}

RemovesAdmin(s) == RemovesActiveAdmin(op[s].kind, op[s].row)

\* No two pending operations have the same account, nor do two of them take
\* an active administrator away.
NoOverlap ==
  \A s, t \in Sessions :
    s # t /\ Pending(s) /\ Pending(t)
      => /\ op[s].target # op[t].target
         /\ ~(RemovesAdmin(s) /\ RemovesAdmin(t))

ExclusiveSpec == Init /\ [][Next /\ NoOverlap']_vars

\* Type invariant of the tables, the sessions and the history variables.
TypeOK ==
  /\ users \in [Users -> Row]
  /\ principal \in [Sessions -> Principal]
  /\ op \in [Sessions -> Op]
  /\ now \in Nat
  /\ event \in AuditRow
  /\ issued \in [Users -> BOOLEAN]
  /\ streak \in [Users -> Nat]

\* Once the platform has an active administrator it always has one: the guard
\* of change_role and set_active that counts them before it writes
\* (user_admin_service.py:25, _ensure_another_active_admin).
LastAdminSurvives == [][ActiveAdmins # {} => ActiveAdmins' # {}]_vars

\* A session that still validates was opened with the password the account has
\* now: every password change moves session_version past the sessions opened
\* before it (storage/db/models/user.py:23).
LiveSessionsAreCurrent ==
  \A s \in Sessions :
    SignedIn(s) /\ Matches(principal[s])
      => users[principal[s].user].password = principal[s].password

\* A session that has been invalidated stays invalid however the account
\* changes afterwards, a later activation included.
InvalidatedForGood ==
  [][\A s \in Sessions :
       SignedIn(s) /\ ~Matches(principal[s]) /\ principal'[s] = principal[s]
         => ~Matches(principal[s])']_vars

\* A password an administrator chose is temporary: the account must change it
\* before anything else (user_admin_service.py:29).
IssuedPasswordsAreTemporary ==
  \A u \in Users : issued[u] => users[u].mustChange

\* As many failed sign-ins in a row as MAX_FAILED_ATTEMPTS lock the account:
\* fewer than that are outstanding at any time (auth_service.py:140-143).
FailuresLock == \A u \in Users : streak[u] < MaxFailedAttempts

\* A lock in force ends early only by the act of an administrator
\* (reset_password, or the activation that follows a deactivation).
LockHolds ==
  [][\A u \in Users :
       now < users[u].lockedUntil /\ users'[u].lockedUntil # users[u].lockedUntil
         => event'.type \in {"USER_PASSWORD_RESET", "USER_ACTIVATED"}]_vars

(***************************************************************************)
(* The inductive invariant of ExclusiveSpec.                               *)
(***************************************************************************)

\* A username with no account has a blank row.
BlankRows == \A u \in Users : ~Registered(u) => users[u] = NoRow

\* Whoever sets a password brings one.
PasswordsBrought ==
  \A s \in Sessions :
    op[s].kind \in {"create_user", "reset_password", "change_own_password"}
      => op[s].password \in Passwords

\* The row a pending operation has read is still the account's row.
SnapshotsHold ==
  \A s \in Sessions : Pending(s) => /\ Registered(op[s].target)
                                    /\ op[s].row = users[op[s].target]

\* Whoever is about to take an administrator away leaves another one.
AnotherAdminStays ==
  \A s \in Sessions : op[s].step = "writing" /\ RemovesAdmin(s)
                       => ActiveAdmins \ {op[s].target} # {}

\* No session is ahead of its account, and one at its version has its password.
SessionsFollow ==
  \A s \in Sessions : SignedIn(s) =>
    LET p == principal[s]  row == users[p.user] IN
      /\ Registered(p.user)
      /\ p.version <= row.version
      /\ p.version = row.version => p.password = row.password

\* The account's counter is the number of failures that happened.
FailuresCounted == \A u \in Users : streak[u] = users[u].failed

\* A password under verification belongs to an account found unlocked.
VerifiedUnlocked ==
  \A s \in Sessions : At(s, "login", "writing")
    => op[s].row.lockedUntil <= op[s].at /\ op[s].at <= now

ExclusiveInvariant ==
  /\ TypeOK
  /\ NoOverlap
  /\ BlankRows
  /\ PasswordsBrought
  /\ SnapshotsHold
  /\ AnotherAdminStays
  /\ SessionsFollow
  /\ IssuedPasswordsAreTemporary
  /\ FailuresCounted
  /\ FailuresLock
  /\ VerifiedUnlocked

(***************************************************************************)
(* Properties of every overlap.                                            *)
(***************************************************************************)

\* A write is pending only on an account that exists.
TargetsExist == \A s \in Sessions : Pending(s) => Registered(op[s].target)

\* Whoever administers an account is signed in, to another one.
OthersAdministered ==
  \A s \in Sessions :
    op[s].kind \in AdminOperations
      => /\ SignedIn(s)
         /\ Pending(s) => op[s].target # principal[s].user

\* Inductive over every overlap.
OverlapInvariant ==
  /\ TypeOK
  /\ BlankRows
  /\ PasswordsBrought
  /\ TargetsExist
  /\ OthersAdministered

\* The columns that the operation behind an audit type answers for.
OwnColumns(type) ==
  CASE type = "USER_ROLE_CHANGED" -> {"role", "version"}
    [] type \in {"USER_ACTIVATED", "USER_DEACTIVATED"} ->
         {"active", "version", "failed", "lockedUntil"}
    [] type = "USER_PASSWORD_RESET" ->
         {"password", "mustChange", "version", "failed", "lockedUntil"}
    [] type = "PASSWORD_CHANGED" -> {"password", "mustChange", "version"}
    [] type \in {"USER_LOGIN", "USER_LOGIN_FAILED", "USER_LOCKED_OUT"} ->
         {"failed", "lockedUntil"}
    [] OTHER -> {}

Owned(type, before, after) ==
  IF type = "USER_CREATED" THEN before = NoRow
  ELSE \A c \in DOMAIN before \ OwnColumns(type) : after[c] = before[c]

\* Whatever operations overlap, a transaction changes one account, only the
\* columns of its own operation, and is reported by an audit row of that
\* operation that names the account: no stale copy of a row is written back.
ChangesAreOwnedAndAudited ==
  [][\A u \in Users : users'[u] # users[u]
       => /\ \A v \in Users \ {u} : users'[v] = users[v]
          /\ Owned(event'.type, users[u], users'[u])
          /\ u \in {event'.actor, event'.target}]_vars

\* Nobody's role or status is changed by their own session, whatever the
\* order of operations (user_admin_service.py:24).
NoSelfAdministration ==
  [][\A u \in Users :
       Registered(u) /\ <<users'[u].role, users'[u].active>>
                          # <<users[u].role, users[u].active>>
         => /\ event'.actor \in Users \ {u}
            /\ event'.target = u]_vars
\* The users table of the program behaves as the register of whole operations
\* that AccountRegister describes.
Register == INSTANCE AccountRegister
  WITH rows <- users, LockEnds <- LockoutDuration..(MaxClock + LockoutDuration)

ImplementsRegister == Register!Spec
=============================================================================
