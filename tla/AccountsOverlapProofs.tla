----------------------- MODULE AccountsOverlapProofs -----------------------
(***************************************************************************)
(* What the account model promises however its operations overlap.         *)
(***************************************************************************)
EXTENDS AccountsExclusiveProofs

(***************************************************************************)
(* A commit merges the edit of a row read earlier into the present row.    *)
(***************************************************************************)

\* The operation s writes a row and reports it as the given type.
Reports(s, row, type, actor, target) ==
  /\ op[s].step = "writing"
  /\ users' = [users EXCEPT ![op[s].target] = row]
  /\ Record(type, actor, target)
  /\ op[s].target \in {actor, target}

\* The commits, each with the row it edits and the audit row it inserts.
MergesRow(s) ==
  LET o == op[s]  read == op[s].row  actor == principal[s].user
      merged(edited) == Merge(op[s].row, edited, users[op[s].target])
      hashed(edited) == MergeHash(op[s].row, edited, users[op[s].target])
  IN
  \/ AcceptLogin(s)
       /\ Reports(s, merged(Cleared(read)), "USER_LOGIN", o.target, NoUser)
  \/ CountFailure(s)
       /\ Reports(s, merged(Failed(read)), "USER_LOGIN_FAILED", o.target,
                  NoUser)
  \/ LockAccount(s)
       /\ Reports(s, merged(Locked(read, o.at)), "USER_LOCKED_OUT", o.target,
                  NoUser)
  \/ ChangeRole(s)
       /\ Reports(s, merged(WithRole(read, o.role)), "USER_ROLE_CHANGED",
                  actor, o.target)
  \/ Deactivate(s)
       /\ Reports(s, merged(Deactivated(read)), "USER_DEACTIVATED", actor,
                  o.target)
  \/ Activate(s)
       /\ Reports(s, merged(Activated(read)), "USER_ACTIVATED", actor,
                  o.target)
  \/ ResetPassword(s)
       /\ Reports(s, hashed(WithIssuedPassword(read, o.password)),
                  "USER_PASSWORD_RESET", actor, o.target)
  \/ ChangeOwnPassword(s)
       /\ Reports(s, hashed(WithOwnPassword(read, o.password)),
                  "PASSWORD_CHANGED", o.target, NoUser)

LEMMA OverlapSorts ==
  ASSUME Next, users' # users
  PROVE  \/ \E s \in Sessions : MergesRow(s) \/ CreateUser(s)
         \/ \E u \in Users, r \in AssignableRoles, p \in Passwords :
              BootstrapUser(u, r, p)
<1>1. ASSUME NEW s \in Sessions, SignInStep(s) PROVE MergesRow(s)
  <2>1. AcceptLogin(s) \/ CountFailure(s) \/ LockAccount(s)
    BY <1>1 DEF SignInStep, RefuseLogin, BeginLogin, RefuseAfterLock, SignOut,
                Refresh, EndSession
  <2> QED BY <2>1 DEF AcceptLogin, CountFailure, LockAccount, At, Reports,
                      MergesRow, Flush
<1>2. ASSUME NEW s \in Sessions, AdministrationStep(s)
      PROVE  MergesRow(s) \/ CreateUser(s)
  <2>1. \/ CreateUser(s) \/ ChangeRole(s) \/ Deactivate(s) \/ Activate(s)
        \/ ResetPassword(s)
    BY <1>2 DEF AdministrationStep, DenyAdministration, Authorize, GiveUp,
                ReadTarget, EnsureAnotherActiveAdmin
  <2> QED BY <2>1 DEF ChangeRole, Deactivate, Activate, ResetPassword, At,
                      Reports, MergesRow, Flush, FlushHash
<1>3. ASSUME NEW s \in Sessions, OwnPasswordStep(s) PROVE MergesRow(s)
  <2>1. ChangeOwnPassword(s)
    BY <1>3 DEF OwnPasswordStep, BeginOwnPassword, RefuseOwnPassword,
                ReadOwnRow
  <2> QED BY <2>1 DEF ChangeOwnPassword, At, Reports, MergesRow, FlushHash
<1> QED BY <1>1, <1>2, <1>3 DEF Next, SessionStep, RollBack, LoseSession, Tick

\* A pending operation's parts.
LEMMA WritingTypes ==
  ASSUME TypeOK, PasswordsBrought, NEW s \in Sessions, op[s].step = "writing"
  PROVE  /\ op[s].target \in Users /\ op[s].row \in Row /\ op[s].at \in Nat
         /\ op[s].role \in Roles
         /\ op[s].kind \in {"create_user", "reset_password",
                            "change_own_password"}
              => op[s].password \in Passwords
BY PartTypes DEF IsIdle, InFlight, PasswordsBrought

(***************************************************************************)
(* Only the operation's own columns change.                                *)
(***************************************************************************)
LEMMA MergeOwned ==
  ASSUME NEW read \in Row, NEW row \in Row, NEW role \in Roles,
         NEW time \in Nat, NEW password \in Passwords \cup {NoPassword}
  PROVE  /\ Owned("USER_LOGIN", row, Merge(read, Cleared(read), row))
         /\ Owned("USER_LOGIN_FAILED", row, Merge(read, Failed(read), row))
         /\ Owned("USER_LOCKED_OUT", row, Merge(read, Locked(read, time), row))
         /\ Owned("USER_ROLE_CHANGED", row,
                  Merge(read, WithRole(read, role), row))
         /\ Owned("USER_DEACTIVATED", row, Merge(read, Deactivated(read), row))
         /\ Owned("USER_ACTIVATED", row, Merge(read, Activated(read), row))
         /\ Owned("USER_PASSWORD_RESET", row,
                  MergeHash(read, WithIssuedPassword(read, password), row))
         /\ Owned("PASSWORD_CHANGED", row,
                  MergeHash(read, WithOwnPassword(read, password), row))
<1>0. /\ DOMAIN row = {"role", "active", "mustChange", "failed", "lockedUntil",
                       "version", "password"}
      /\ read.failed + 1 \in Nat /\ read.version + 1 \in Nat
  BY DEF Row
<1>1. Owned("USER_LOGIN", row, Merge(read, Cleared(read), row))
  BY <1>0 DEF Owned, OwnColumns, Merge, Column, Cleared, Row
<1>2. Owned("USER_LOGIN_FAILED", row, Merge(read, Failed(read), row))
  BY <1>0 DEF Owned, OwnColumns, Merge, Column, Failed, Row
<1>3. Owned("USER_LOCKED_OUT", row, Merge(read, Locked(read, time), row))
  BY <1>0 DEF Owned, OwnColumns, Merge, Column, Locked, Row
<1>4. Owned("USER_ROLE_CHANGED", row, Merge(read, WithRole(read, role), row))
  BY <1>0 DEF Owned, OwnColumns, Merge, Column, WithRole, Row
<1>5. Owned("USER_DEACTIVATED", row, Merge(read, Deactivated(read), row))
  BY <1>0 DEF Owned, OwnColumns, Merge, Column, Deactivated, Row
<1>6. Owned("USER_ACTIVATED", row, Merge(read, Activated(read), row))
  BY <1>0 DEF Owned, OwnColumns, Merge, Column, Activated, Row
<1>7. Owned("USER_PASSWORD_RESET", row,
            MergeHash(read, WithIssuedPassword(read, password), row))
  BY <1>0 DEF Owned, OwnColumns, MergeHash, Merge, Column, WithIssuedPassword, Row
<1>8. Owned("PASSWORD_CHANGED", row,
            MergeHash(read, WithOwnPassword(read, password), row))
  BY <1>0 DEF Owned, OwnColumns, MergeHash, Merge, Column, WithOwnPassword, Row
<1> QED BY <1>1, <1>2, <1>3, <1>4, <1>5, <1>6, <1>7, <1>8

\* A merge of a typed edit keeps the password a password.
LEMMA MergePassword ==
  ASSUME NEW read \in Row, NEW row \in Row, NEW role \in Roles, NEW time \in Nat
  PROVE  /\ \A e \in {Cleared(read), Failed(read), Locked(read, time),
                      WithRole(read, role), Deactivated(read),
                      Activated(read)} :
              Merge(read, e, row).password = row.password
         /\ \A p :
              /\ MergeHash(read, WithIssuedPassword(read, p), row).password = p
              /\ MergeHash(read, WithOwnPassword(read, p), row).password = p
<1>1. \A e : Merge(read, e, row).password
               = IF e.password # read.password THEN e.password ELSE row.password
  BY DEF Merge, Column
<1>4. \A e : MergeHash(read, e, row).password = e.password
  BY DEF MergeHash, Merge
<1>2. \A e \in {Cleared(read), Failed(read), Locked(read, time),
                WithRole(read, role), Deactivated(read), Activated(read)} :
        e.password = read.password
  BY DEF Cleared, Failed, Locked, WithRole, Deactivated, Activated, Row
<1>3. \A p : /\ WithIssuedPassword(read, p).password = p
             /\ WithOwnPassword(read, p).password = p
  BY DEF WithIssuedPassword, WithOwnPassword, Row
<1> QED BY <1>1, <1>2, <1>3, <1>4

\* A transaction that changes the table changes one row: it inserts a row with
\* a password, or merges an operation's columns into a row that keeps one.
LEMMA OneRow ==
  ASSUME OverlapInvariant, Next, NEW u \in Users, users'[u] # users[u]
  PROVE  /\ \A v \in Users \ {u} : users'[v] = users[v]
         /\ Owned(event'.type, users[u], users'[u])
         /\ u \in {event'.actor, event'.target}
         /\ users'[u].password # NoPassword
<1> USE DEF OverlapInvariant
<1>0. users \in [Users -> Row] /\ users' # users
  BY DEF TypeOK
<1>1. ASSUME NEW s \in Sessions, MergesRow(s)
      PROVE  /\ \A v \in Users \ {u} : users'[v] = users[v]
             /\ Owned(event'.type, users[u], users'[u])
             /\ u \in {event'.actor, event'.target}
             /\ users'[u].password # NoPassword
  <2> DEFINE merged(e) == Merge(op[s].row, e, users[op[s].target])
             hashed(e) == MergeHash(op[s].row, e, users[op[s].target])
  <2>1. op[s].step = "writing" /\ \E e, k, a, t : Reports(s, e, k, a, t)
    BY <1>1 DEF MergesRow, Reports
  <2>2. /\ op[s].target \in Users /\ op[s].row \in Row /\ op[s].at \in Nat
        /\ op[s].role \in Roles
        /\ op[s].password \in Passwords \cup {NoPassword}
    BY <2>1, WritingTypes, PartTypes
  <2>3. u = op[s].target
    BY <1>0, <2>1, <2>2 DEF Reports
  <2>4. users[u] \in Row /\ users[u].password # NoPassword
    BY <1>0, <2>1, <2>3 DEF TargetsExist, Pending, Registered
  <2>5. ASSUME NEW row, NEW k, NEW a, NEW t, Reports(s, row, k, a, t),
               Owned(k, users[u], row), row.password # NoPassword
        PROVE  /\ \A v \in Users \ {u} : users'[v] = users[v]
               /\ Owned(event'.type, users[u], users'[u])
               /\ u \in {event'.actor, event'.target}
               /\ users'[u].password # NoPassword
    <3>1. users' = [users EXCEPT ![u] = row]
      BY <2>3, <2>5 DEF Reports
    <3>2. event'.type = k /\ event'.actor = a /\ event'.target = t
      BY <2>5 DEF Reports, Record
    <3> QED BY <1>0, <2>3, <2>5, <3>1, <3>2 DEF Reports
  <2>6. /\ Owned("USER_LOGIN", users[u], merged(Cleared(op[s].row)))
        /\ Owned("USER_LOGIN_FAILED", users[u], merged(Failed(op[s].row)))
        /\ Owned("USER_LOCKED_OUT", users[u],
                 merged(Locked(op[s].row, op[s].at)))
        /\ Owned("USER_ROLE_CHANGED", users[u],
                 merged(WithRole(op[s].row, op[s].role)))
        /\ Owned("USER_DEACTIVATED", users[u], merged(Deactivated(op[s].row)))
        /\ Owned("USER_ACTIVATED", users[u], merged(Activated(op[s].row)))
        /\ Owned("USER_PASSWORD_RESET", users[u],
                 hashed(WithIssuedPassword(op[s].row, op[s].password)))
        /\ Owned("PASSWORD_CHANGED", users[u],
                 hashed(WithOwnPassword(op[s].row, op[s].password)))
    BY <2>2, <2>3, <2>4, MergeOwned
  <2>7. \A e \in {Cleared(op[s].row), Failed(op[s].row),
                  Locked(op[s].row, op[s].at),
                  WithRole(op[s].row, op[s].role), Deactivated(op[s].row),
                  Activated(op[s].row)} :
          merged(e).password # NoPassword
    BY <2>2, <2>3, <2>4, MergePassword
  <2>8. op[s].password # NoPassword =>
          /\ hashed(WithIssuedPassword(op[s].row, op[s].password)).password
               # NoPassword
          /\ hashed(WithOwnPassword(op[s].row, op[s].password)).password
               # NoPassword
    BY <2>2, <2>3, <2>4, MergePassword
  <2>9. ResetPassword(s) \/ ChangeOwnPassword(s)
           => op[s].password # NoPassword
    BY ConstantsAssumption
       DEF PasswordsBrought, ResetPassword, ChangeOwnPassword, At
  <2> QED BY <1>1, <2>5, <2>6, <2>7, <2>8, <2>9 DEF MergesRow
<1>2. ASSUME NEW v \in Users, NEW role, NEW p \in Passwords, NEW m,
             NEW actor, NEW target,
             ~Registered(v), users' = [users EXCEPT ![v] = NewRow(role, p, m)],
             Record("USER_CREATED", actor, target), v \in {actor, target}
      PROVE  /\ \A w \in Users \ {u} : users'[w] = users[w]
             /\ Owned(event'.type, users[u], users'[u])
             /\ u \in {event'.actor, event'.target}
             /\ users'[u].password # NoPassword
  <2>1. u = v /\ users[u] = NoRow
    BY <1>0, <1>2 DEF BlankRows
  <2>2. event'.type = "USER_CREATED" /\ v \in {event'.actor, event'.target}
    BY <1>2 DEF Record
  <2>3. users'[u] = NewRow(role, p, m) /\ NewRow(role, p, m).password = p
    BY <1>0, <1>2, <2>1 DEF NewRow
  <2> QED BY <1>0, <1>2, <2>1, <2>2, <2>3, ConstantsAssumption DEF Owned
<1>3. ASSUME NEW s \in Sessions, CreateUser(s)
      PROVE  /\ \A v \in Users \ {u} : users'[v] = users[v]
             /\ Owned(event'.type, users[u], users'[u])
             /\ u \in {event'.actor, event'.target}
             /\ users'[u].password # NoPassword
  <2>1. op[s].target \in Users /\ op[s].password \in Passwords
    BY <1>3, PartTypes DEF CreateUser, At, IsIdle, InFlight, PasswordsBrought
  <2> QED BY <1>2, <1>3, <2>1 DEF CreateUser
<1>4. ASSUME NEW v \in Users, NEW r \in AssignableRoles, NEW p \in Passwords,
             BootstrapUser(v, r, p)
      PROVE  /\ \A w \in Users \ {u} : users'[w] = users[w]
             /\ Owned(event'.type, users[u], users'[u])
             /\ u \in {event'.actor, event'.target}
             /\ users'[u].password # NoPassword
  BY <1>2, <1>4 DEF BootstrapUser
<1> QED BY <1>0, <1>1, <1>3, <1>4, OverlapSorts

(***************************************************************************)
(* The invariant of every overlap.                                         *)
(***************************************************************************)
LEMMA RegisteredStays ==
  ASSUME OverlapInvariant, Next, NEW u \in Users
  PROVE  /\ Registered(u) => users'[u].password # NoPassword
         /\ users'[u].password = NoPassword => users'[u] = NoRow
BY OneRow DEF OverlapInvariant, BlankRows, Registered

LEMMA TargetsNext ==
  ASSUME OverlapInvariant, Next
  PROVE  TargetsExist'
<1> USE DEF OverlapInvariant
<1> SUFFICES ASSUME NEW t \in Sessions,
                    op'[t].step \in {"counting", "writing"}
             PROVE  users'[op'[t].target].password # NoPassword
  BY DEF TargetsExist, Pending, Registered
<1>0. op \in [Sessions -> Op]
  BY DEF TypeOK
<1>1. ASSUME ~IsIdle(t), Registered(op[t].target), op'[t].target = op[t].target
      PROVE  users'[op'[t].target].password # NoPassword
  <2>1. op[t].target \in Users
    BY <1>1, PartTypes DEF InFlight
  <2> QED BY <1>1, <2>1, RegisteredStays
<1>2. CASE op'[t] = op[t]
  BY <1>1, <1>2 DEF TargetsExist, Pending, IsIdle
<1>3. CASE op'[t] # op[t]
  <2>1. ASSUME NEW u \in Users, NEW p \in Passwords, BeginLogin(t, u, p)
        PROVE  users'[op'[t].target].password # NoPassword
    <3>1. op'[t].target = u /\ Registered(u)
      BY <1>0, <2>1 DEF BeginLogin
    <3> QED BY <3>1, RegisteredStays
  <2>2. ASSUME ReadTarget(t) \/ ReadOwnRow(t) \/ EnsureAnotherActiveAdmin(t)
        PROVE  users'[op'[t].target].password # NoPassword
    <3>1. op[t] \in InFlight /\ ~IsIdle(t)
      BY <2>2, PartTypes
         DEF ReadTarget, ReadOwnRow, EnsureAnotherActiveAdmin, At, IsIdle
    <3>2. op'[t] # Idle
      BY DEF Idle
    <3>3. \/ \E step : op'[t] = [op[t] EXCEPT !.step = step]
          \/ \E step, row : op'[t] = [op[t] EXCEPT !.row = row, !.step = step]
      <4>1. CASE ReadTarget(t)
        BY <1>0, <4>1 DEF ReadTarget
      <4>2. CASE ReadOwnRow(t)
        BY <1>0, <4>2 DEF ReadOwnRow
      <4>3. CASE EnsureAnotherActiveAdmin(t)
        BY <1>0, <3>2, <4>3 DEF EnsureAnotherActiveAdmin, Finish
      <4> QED BY <2>2, <4>1, <4>2, <4>3
    <3>4. op'[t].target = op[t].target
      BY <3>1, <3>3 DEF InFlight
    <3>5. Registered(op[t].target)
      BY <2>2 DEF ReadTarget, ReadOwnRow, EnsureAnotherActiveAdmin,
                  TargetsExist, Pending
    <3> QED BY <1>1, <3>1, <3>4, <3>5
  <2> QED BY <1>3, <2>1, <2>2, PendingSteps
<1> QED BY <1>2, <1>3

\* Who begins to administer, and whom an administrator goes on to read.
LEMMA AdministeringSteps ==
  ASSUME TypeOK, Next, NEW t \in Sessions, op'[t].kind \in AdminOperations
  PROVE  \/ op'[t] = op[t]
         \/ op'[t].step = "authorized" /\ SignedIn(t)
         \/ /\ op[t].kind \in AdminOperations /\ op'[t].target = op[t].target
            /\ op[t].step = "counting" \/ op[t].target # principal[t].user
<1>0. op \in [Sessions -> Op] /\ "none" \notin AdminOperations
      /\ "login" \notin AdminOperations
      /\ "change_own_password" \notin AdminOperations
  BY DEF TypeOK, AdminOperations
<1>1. op'[t] # Idle
  BY <1>0 DEF Idle
<1>2. ASSUME NEW u \in Users, NEW p \in Passwords, BeginLogin(t, u, p)
      PROVE  FALSE
  BY <1>0, <1>2 DEF BeginLogin
<1>3. ASSUME NEW u \in Users, NEW r \in Requests, Authorize(t, u, r)
      PROVE  op'[t].step = "authorized" /\ SignedIn(t)
  <2>1. op'[t] = [kind |-> r.kind, step |-> "authorized", target |-> u,
                  role |-> r.role, password |-> r.password, at |-> 0,
                  row |-> NoRow]
    BY <1>0, <1>3 DEF Authorize
  <2> QED BY <1>3, <2>1 DEF Authorize
<1>4. ASSUME NEW p \in Passwords, BeginOwnPassword(t, p)
      PROVE  FALSE
  BY <1>0, <1>4 DEF BeginOwnPassword
<1>5. ASSUME \/ ReadTarget(t) \/ ReadOwnRow(t) \/ EnsureAnotherActiveAdmin(t)
             \/ LockAccount(t)
      PROVE  /\ op[t].kind \in AdminOperations /\ op'[t].target = op[t].target
             /\ op[t].step = "counting" \/ op[t].target # principal[t].user
  <2>1. op[t] \in InFlight
    BY <1>5, PartTypes
       DEF ReadTarget, ReadOwnRow, EnsureAnotherActiveAdmin, LockAccount, At,
           IsIdle
  <2>2. \/ \E step : op'[t] = [op[t] EXCEPT !.step = step]
        \/ \E step, row : op'[t] = [op[t] EXCEPT !.row = row, !.step = step]
    <3>1. CASE ReadTarget(t)
      BY <1>0, <3>1 DEF ReadTarget
    <3>2. CASE ReadOwnRow(t)
      BY <1>0, <3>2 DEF ReadOwnRow
    <3>3. CASE EnsureAnotherActiveAdmin(t)
      BY <1>0, <1>1, <3>3 DEF EnsureAnotherActiveAdmin, Finish
    <3>4. CASE LockAccount(t)
      BY <1>0, <3>4 DEF LockAccount
    <3> QED BY <1>5, <3>1, <3>2, <3>3, <3>4
  <2>3. op'[t].kind = op[t].kind /\ op'[t].target = op[t].target
    BY <2>1, <2>2 DEF InFlight
  <2>4. ~ReadOwnRow(t) /\ ~LockAccount(t)
    BY <1>0, <2>3 DEF ReadOwnRow, LockAccount, At
  <2> QED BY <1>5, <2>3, <2>4 DEF ReadTarget, IsOwn, EnsureAnotherActiveAdmin
<1> QED BY <1>1, <1>2, <1>3, <1>4, <1>5, OperationSteps DEF OperationStep

\* A session's principal changes only as it is refreshed or its operation ends.
LEMMA PrincipalChanges ==
  ASSUME TypeOK, Next, NEW t \in Sessions, principal'[t] # principal[t]
  PROVE  Refresh(t) \/ op'[t] = Idle
<1>0. principal \in [Sessions -> Principal] /\ op \in [Sessions -> Op]
      /\ principal' # principal
  BY DEF TypeOK
<1>1. CASE principal'[t] # NoPrincipal
  BY <1>0, <1>1, PrincipalSteps DEF AcceptLogin, ChangeOwnPassword, Finish
<1>2. CASE principal'[t] = NoPrincipal
  <2>1. ASSUME NEW s \in Sessions, NEW v,
               principal' = [principal EXCEPT ![s] = v]
        PROVE  s = t
    BY <1>0, <2>1
  <2>2. ASSUME NEW s \in Sessions, SignInStep(s)
        PROVE  Refresh(t) \/ op'[t] = Idle
    <3>1. CASE Refresh(s)
      <4>1. principal' = [principal EXCEPT
              ![s] = [principal[s] EXCEPT !.lastActivity = now]]
        BY <3>1 DEF Refresh
      <4> QED BY <2>1, <3>1, <4>1
    <3>2. CASE AcceptLogin(s)
      <4>1. \E v : principal' = [principal EXCEPT ![s] = v]
        BY <3>2 DEF AcceptLogin
      <4> QED BY <1>0, <2>1, <3>2, <4>1 DEF AcceptLogin, Finish
    <3>3. CASE SignOut(s) \/ EndSession(s)
      <4>1. s = t /\ IsIdle(t) /\ op' = op
        BY <2>1, <3>3 DEF SignOut, EndSession
      <4> QED BY <4>1, PartTypes DEF Op, InFlight, OpSteps, IsIdle
    <3> QED BY <1>0, <2>2, <3>1, <3>2, <3>3
            DEF SignInStep, RefuseLogin, BeginLogin, CountFailure, LockAccount,
                RefuseAfterLock
  <2>3. \A s \in Sessions : ~AdministrationStep(s)
    BY <1>0
       DEF AdministrationStep, DenyAdministration, Authorize, CreateUser,
           GiveUp, ReadTarget, EnsureAnotherActiveAdmin, ChangeRole, Deactivate,
           Activate, ResetPassword
  <2>4. ASSUME NEW s \in Sessions, OwnPasswordStep(s) PROVE op'[t] = Idle
    <3>1. ChangeOwnPassword(s)
      BY <1>0, <2>4 DEF OwnPasswordStep, BeginOwnPassword, RefuseOwnPassword,
                        ReadOwnRow
    <3>2. \E v : principal' = [principal EXCEPT ![s] = v]
      BY <3>1 DEF ChangeOwnPassword
    <3> QED BY <1>0, <2>1, <3>1, <3>2 DEF ChangeOwnPassword, Finish
  <2>5. ASSUME NEW s \in Sessions, LoseSession(s) PROVE op'[t] = Idle
    BY <1>0, <2>1, <2>5 DEF LoseSession, Finish
  <2> QED BY <1>0, <2>2, <2>3, <2>4, <2>5
          DEF Next, SessionStep, RollBack, BootstrapUser, Tick
<1> QED BY <1>1, <1>2

LEMMA OthersNext ==
  ASSUME TypeOK, OthersAdministered, Next
  PROVE  OthersAdministered'
<1> SUFFICES ASSUME NEW t \in Sessions, op'[t].kind \in AdminOperations
             PROVE  /\ principal'[t].user # NoUser
                    /\ op'[t].step \in {"counting", "writing"}
                         => op'[t].target # principal'[t].user
  BY DEF OthersAdministered, SignedIn, Pending
<1>1. SignedIn(t)
  BY AdministeringSteps DEF OthersAdministered
<1>2. op'[t].step \in {"counting", "writing"}
        => op'[t].target # principal[t].user
  <2>1. op[t].kind \in AdminOperations
          /\ op[t].step \in {"counting", "writing"}
          => op[t].target # principal[t].user
    BY DEF OthersAdministered, Pending
  <2> QED BY <2>1, AdministeringSteps
<1>3. principal'[t].user = principal[t].user
  <2>1. op'[t] # Idle
    BY DEF Idle, AdminOperations
  <2>2. CASE Refresh(t)
    <3>1. principal'[t] = [principal[t] EXCEPT !.lastActivity = now]
      BY <2>2 DEF Refresh, TypeOK
    <3> QED BY <3>1, PartTypes DEF Principal
  <2> QED BY <2>1, <2>2, PrincipalChanges
<1> QED BY <1>1, <1>2, <1>3 DEF SignedIn

\* However the operations overlap.
THEOREM OverlapCorrect == Spec => []OverlapInvariant
<1>1. Init => OverlapInvariant
  <2> SUFFICES ASSUME Init PROVE OverlapInvariant
    OBVIOUS
  <2>1. BlankRows
    BY DEF Init, BlankRows
  <2>2. PasswordsBrought /\ TargetsExist /\ OthersAdministered
    BY DEF Init, Idle, PasswordsBrought, TargetsExist, Pending,
           OthersAdministered, AdminOperations
  <2> QED BY <2>1, <2>2, TypeInit DEF OverlapInvariant
<1>2. OverlapInvariant /\ [Next]_vars => OverlapInvariant'
  <2> SUFFICES ASSUME OverlapInvariant, [Next]_vars PROVE OverlapInvariant'
    OBVIOUS
  <2>1. CASE Next
    <3>1. BlankRows'
      BY <2>1, RegisteredStays DEF BlankRows, Registered
    <3> QED BY <2>1, <3>1, TypeNext, PasswordsNext, TargetsNext, OthersNext
            DEF OverlapInvariant
  <2>2. CASE UNCHANGED vars
    BY <2>2 DEF vars, OverlapInvariant, TypeOK, BlankRows, Registered,
                PasswordsBrought, TargetsExist, Pending, OthersAdministered,
                SignedIn
  <2> QED BY <2>1, <2>2
<1> QED BY <1>1, <1>2, PTL DEF Spec

\* A transaction changes one account, only the columns of its operation, and
\* its audit row names the account.
THEOREM ChangesOwned == Spec => ChangesAreOwnedAndAudited
<1> DEFINE Answers ==
      \A u \in Users : users'[u] # users[u]
        => /\ \A v \in Users \ {u} : users'[v] = users[v]
           /\ Owned(event'.type, users[u], users'[u])
           /\ u \in {event'.actor, event'.target}
<1>1. OverlapInvariant /\ [Next]_vars => [Answers]_vars
  BY OneRow
<1> QED BY <1>1, OverlapCorrect, PTL DEF Spec, ChangesAreOwnedAndAudited

\* Nobody's own session changes their role or status.
THEOREM NobodyAdministersThemselves == Spec => NoSelfAdministration
<1> DEFINE Other ==
      \A u \in Users :
        Registered(u) /\ <<users'[u].role, users'[u].active>>
                           # <<users[u].role, users[u].active>>
          => /\ event'.actor \in Users \ {u}
             /\ event'.target = u
<1>1. OverlapInvariant /\ [Next]_vars => [Other]_vars
  <2> SUFFICES ASSUME OverlapInvariant, Next, NEW u \in Users, Registered(u),
                      <<users'[u].role, users'[u].active>>
                        # <<users[u].role, users[u].active>>
               PROVE  /\ event'.actor \in Users \ {u}
                      /\ event'.target = u
    OBVIOUS
  <2> USE DEF OverlapInvariant
  <2>0. users' # users /\ users'[u] # users[u] /\ users \in [Users -> Row]
        /\ users[u] \in Row
    BY DEF TypeOK
  <2>1. Owned(event'.type, users[u], users'[u]) /\ users[u] # NoRow
    BY <2>0, OneRow DEF Registered, NoRow
  <2>2. event'.type \in {"USER_ROLE_CHANGED", "USER_ACTIVATED",
                         "USER_DEACTIVATED"}
    <3>1. "role" \in DOMAIN users[u] /\ "active" \in DOMAIN users[u]
      BY <2>0 DEF Row
    <3>2. "role" \in OwnColumns(event'.type) \/ "active" \in OwnColumns(event'.type)
      BY <2>0, <2>1, <3>1 DEF Owned
    <3> QED BY <3>2 DEF OwnColumns
  <2>3. ASSUME NEW s \in Sessions,
               ChangeRole(s) \/ Activate(s) \/ Deactivate(s)
        PROVE  /\ event'.actor \in Users \ {u}
               /\ event'.target = u
    <3>1. op[s].kind \in AdminOperations /\ op[s].step = "writing"
      BY <2>3 DEF ChangeRole, Activate, Deactivate, At, AdminOperations
    <3>2. op[s].target # principal[s].user /\ principal[s].user \in Users
      BY <3>1, PartTypes DEF OthersAdministered, Pending, SignedIn
    <3>3. event'.actor = principal[s].user /\ event'.target = op[s].target
      BY <2>3 DEF ChangeRole, Activate, Deactivate, Record
    <3>4. op[s].target = u
      <4>1. op[s].target \in Users
        BY <3>1, WritingTypes
      <4> QED BY <2>0, <2>3, <4>1 DEF ChangeRole, Activate, Deactivate, Flush
    <3> QED BY <3>2, <3>3, <3>4
  <2>4. ASSUME NEW s \in Sessions, MergesRow(s)
        PROVE  ChangeRole(s) \/ Activate(s) \/ Deactivate(s)
    BY <2>2, <2>4 DEF MergesRow, Reports, Record
  <2>5. ASSUME NEW s \in Sessions, CreateUser(s) PROVE FALSE
    BY <2>2, <2>5 DEF CreateUser, Record
  <2>6. ASSUME NEW v \in Users, NEW r \in AssignableRoles, NEW p \in Passwords,
               BootstrapUser(v, r, p)
        PROVE  FALSE
    BY <2>2, <2>6 DEF BootstrapUser, Record
  <2> QED BY <2>0, <2>3, <2>4, <2>5, <2>6, OverlapSorts
<1> QED BY <1>1, OverlapCorrect, PTL DEF Spec, NoSelfAdministration
=============================================================================
