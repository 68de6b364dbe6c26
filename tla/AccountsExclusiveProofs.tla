---------------------- MODULE AccountsExclusiveProofs ----------------------
(***************************************************************************)
(* When no two operations overlap on an account, nor two that take an      *)
(* administrator away, the account model keeps its promises.  The code     *)
(* enforces neither: every theorem here is about ExclusiveSpec, the        *)
(* behaviours in which it happens so, and FailuresLock and                 *)
(* LastAdminSurvives are violated by behaviours of Spec.                   *)
(***************************************************************************)
EXTENDS AccountsProofs

(***************************************************************************)
(* What the commits do.  A pending operation that read the row as it still *)
(* is writes the edited row.                                               *)
(***************************************************************************)
LEMMA FlushWrites ==
  ASSUME TypeOK, SnapshotsHold, NEW s \in Sessions, Pending(s),
         NEW edited \in Row, Flush(s, edited) \/ FlushHash(s, edited)
  PROVE  users' = [users EXCEPT ![op[s].target] = edited]
<1>1. op[s].row = users[op[s].target] /\ op[s].row \in Row
  BY PartTypes DEF SnapshotsHold
<1>2. Merge(op[s].row, edited, users[op[s].target]) = edited
  BY <1>1, MergeUnchanged
<1>3. MergeHash(op[s].row, edited, users[op[s].target]) = edited
  BY <1>2 DEF MergeHash, Row
<1> QED BY <1>2, <1>3 DEF Flush, FlushHash

\* The commits, each with the row it leaves in terms of the row it found.
CommitsRow(s, row) ==
  /\ op[s].step = "writing"
  /\ UNCHANGED now
  /\ users' = [users EXCEPT ![op[s].target] = row]
  /\ \/ AcceptLogin(s) /\ row = Cleared(users[op[s].target])
     \/ CountFailure(s) /\ row = Failed(users[op[s].target])
     \/ LockAccount(s) /\ row = Locked(users[op[s].target], op[s].at)
     \/ ChangeRole(s) /\ row = WithRole(users[op[s].target], op[s].role)
     \/ Deactivate(s) /\ row = Deactivated(users[op[s].target])
     \/ Activate(s) /\ row = Activated(users[op[s].target])
     \/ ResetPassword(s)
          /\ row = WithIssuedPassword(users[op[s].target], op[s].password)
     \/ ChangeOwnPassword(s)
          /\ row = WithOwnPassword(users[op[s].target], op[s].password)

\* The insertions of a row.
InsertsRow(u) ==
  /\ ~Registered(u)
  /\ UNCHANGED now
  /\ \/ \E s \in Sessions : op[s].target = u /\ CreateUser(s)
     \/ \E r \in AssignableRoles, p \in Passwords : BootstrapUser(u, r, p)

\* The steps that leave the table and its history alone.
LeavesRows ==
  /\ UNCHANGED <<users, issued, streak>>
  /\ \/ \E s \in Sessions, u \in Users : RefuseLogin(s, u)
     \/ \E s \in Sessions, u \in Users, p \in Passwords : BeginLogin(s, u, p)
     \/ \E s \in Sessions, u \in Users, r \in Requests : Authorize(s, u, r)
     \/ \E s \in Sessions, p \in Passwords : BeginOwnPassword(s, p)
     \/ \E s \in Sessions :
          \/ RefuseAfterLock(s) \/ SignOut(s) \/ Refresh(s) \/ EndSession(s)
          \/ DenyAdministration(s) \/ GiveUp(s) \/ ReadTarget(s)
          \/ EnsureAnotherActiveAdmin(s) \/ RefuseOwnPassword(s)
          \/ ReadOwnRow(s) \/ RollBack(s) \/ LoseSession(s)
     \/ Tick

\* Every step is of one of the three sorts.
LEMMA StepSorts ==
  ASSUME TypeOK, SnapshotsHold, Next
  PROVE  \/ LeavesRows
         \/ \E s \in Sessions : \E row \in Row : CommitsRow(s, row)
         \/ \E u \in Users : InsertsRow(u)
<1> DEFINE Goal == \/ LeavesRows
                   \/ \E s \in Sessions : \E row \in Row : CommitsRow(s, row)
                   \/ \E u \in Users : InsertsRow(u)
<1>1. ASSUME NEW s \in Sessions, op[s].step = "writing"
      PROVE  /\ op[s].row = users[op[s].target] /\ op[s].row \in Row
             /\ op[s].role \in Roles /\ op[s].at \in Nat
             /\ op[s].password \in Passwords \cup {NoPassword}
             /\ Pending(s)
  BY <1>1, PartTypes DEF SnapshotsHold, Pending
<1>2. ASSUME NEW s \in Sessions, SignInStep(s), UNCHANGED now PROVE Goal
  <2>1. CASE AcceptLogin(s)
    <3>1. Pending(s) /\ op[s].step = "writing"
      BY <2>1 DEF AcceptLogin, At, Pending
    <3>2. Cleared(op[s].row) \in Row
      BY <1>1, <3>1, EditType
    <3> QED BY <1>1, <1>2, <2>1, <3>1, <3>2, FlushWrites
            DEF AcceptLogin, CommitsRow
  <2>2. CASE CountFailure(s)
    <3>1. Pending(s) /\ op[s].step = "writing"
      BY <2>2 DEF CountFailure, At, Pending
    <3>2. Failed(op[s].row) \in Row
      BY <1>1, <3>1, EditType
    <3> QED BY <1>1, <1>2, <2>2, <3>1, <3>2, FlushWrites
            DEF CountFailure, CommitsRow
  <2>3. CASE LockAccount(s)
    <3>1. Pending(s) /\ op[s].step = "writing"
      BY <2>3 DEF LockAccount, At, Pending
    <3>2. Locked(op[s].row, op[s].at) \in Row
      BY <1>1, <3>1, EditType
    <3> QED BY <1>1, <1>2, <2>3, <3>1, <3>2, FlushWrites
            DEF LockAccount, CommitsRow
  <2>4. CASE ~(AcceptLogin(s) \/ CountFailure(s) \/ LockAccount(s))
    BY <1>2, <2>4
       DEF SignInStep, LeavesRows, RefuseLogin, BeginLogin, RefuseAfterLock,
           SignOut, Refresh, EndSession, History
  <2> QED BY <2>1, <2>2, <2>3, <2>4
<1>3. ASSUME NEW s \in Sessions, AdministrationStep(s), UNCHANGED now PROVE Goal
  <2>1. CASE CreateUser(s)
    <3>1. op[s].target \in Users
      BY <2>1, PartTypes DEF CreateUser, At, IsIdle, InFlight
    <3> QED BY <1>3, <2>1, <3>1 DEF CreateUser, InsertsRow
  <2>2. CASE ChangeRole(s)
    <3>1. Pending(s) /\ op[s].step = "writing"
      BY <2>2 DEF ChangeRole, At, Pending
    <3>2. WithRole(op[s].row, op[s].role) \in Row
      BY <1>1, <3>1, EditType
    <3> QED BY <1>1, <1>3, <2>2, <3>1, <3>2, FlushWrites
            DEF ChangeRole, CommitsRow
  <2>3. CASE Deactivate(s)
    <3>1. Pending(s) /\ op[s].step = "writing"
      BY <2>3 DEF Deactivate, At, Pending
    <3>2. Deactivated(op[s].row) \in Row
      BY <1>1, <3>1, EditType
    <3> QED BY <1>1, <1>3, <2>3, <3>1, <3>2, FlushWrites
            DEF Deactivate, CommitsRow
  <2>4. CASE Activate(s)
    <3>1. Pending(s) /\ op[s].step = "writing"
      BY <2>4 DEF Activate, At, Pending
    <3>2. Activated(op[s].row) \in Row
      BY <1>1, <3>1, EditType
    <3> QED BY <1>1, <1>3, <2>4, <3>1, <3>2, FlushWrites DEF Activate, CommitsRow
  <2>5. CASE ResetPassword(s)
    <3>1. Pending(s) /\ op[s].step = "writing"
      BY <2>5 DEF ResetPassword, At, Pending
    <3>2. WithIssuedPassword(op[s].row, op[s].password) \in Row
      BY <1>1, <3>1, EditType
    <3> QED BY <1>1, <1>3, <2>5, <3>1, <3>2, FlushWrites
            DEF ResetPassword, CommitsRow
  <2>6. CASE ~(CreateUser(s) \/ ChangeRole(s) \/ Deactivate(s) \/ Activate(s)
               \/ ResetPassword(s))
    BY <1>3, <2>6
       DEF AdministrationStep, LeavesRows, DenyAdministration, Authorize,
           GiveUp, ReadTarget, EnsureAnotherActiveAdmin, History
  <2> QED BY <2>1, <2>2, <2>3, <2>4, <2>5, <2>6
<1>4. ASSUME NEW s \in Sessions, OwnPasswordStep(s), UNCHANGED now PROVE Goal
  <2>1. CASE ChangeOwnPassword(s)
    <3>1. Pending(s) /\ op[s].step = "writing"
      BY <2>1 DEF ChangeOwnPassword, At, Pending
    <3>2. WithOwnPassword(op[s].row, op[s].password) \in Row
      BY <1>1, <3>1, EditType
    <3> QED BY <1>1, <1>4, <2>1, <3>1, <3>2, FlushWrites
            DEF ChangeOwnPassword, CommitsRow
  <2>2. CASE ~ChangeOwnPassword(s)
    BY <1>4, <2>2 DEF OwnPasswordStep, LeavesRows, BeginOwnPassword,
                      RefuseOwnPassword, ReadOwnRow, History
  <2> QED BY <2>1, <2>2
<1>5. ASSUME NEW s \in Sessions, RollBack(s) \/ LoseSession(s) PROVE Goal
  BY <1>5 DEF RollBack, LoseSession, LeavesRows, History
<1>6. ASSUME NEW u \in Users, NEW r \in AssignableRoles, NEW p \in Passwords,
             BootstrapUser(u, r, p)
      PROVE  Goal
  BY <1>6 DEF BootstrapUser, InsertsRow
<1>7. Tick => Goal
  BY DEF Tick, LeavesRows, History
<1> QED BY <1>2, <1>3, <1>4, <1>5, <1>6, <1>7 DEF Next, SessionStep
\* A commit ends the operation, or takes it past its write.
LEMMA CommitFacts ==
  ASSUME TypeOK, SnapshotsHold, NEW s \in Sessions, NEW row \in Row,
         CommitsRow(s, row)
  PROVE  /\ op[s].target \in Users /\ Registered(op[s].target)
         /\ op[s].row = users[op[s].target]
         /\ ~IsIdle(s) /\ Pending(s)
         /\ users' = [users EXCEPT ![op[s].target] = row]
         /\ op'[s].step \notin {"counting", "writing"}
         /\ \A t \in Sessions \ {s} : op'[t] = op[t]
         /\ now' = now
<1>1. op[s].step = "writing"
  BY DEF CommitsRow
<1>2. ~IsIdle(s) /\ Pending(s)
  BY <1>1 DEF IsIdle, Pending
<1>3. op[s].target \in Users
  BY <1>2, PartTypes DEF InFlight
<1>4. /\ op'[s].step \notin {"counting", "writing"}
      /\ \A t \in Sessions \ {s} : op'[t] = op[t]
      /\ now' = now
  <2>1. op' = [op EXCEPT ![s] = Idle] \/ op' = [op EXCEPT ![s].step = "refusing"]
    BY DEF CommitsRow, Finish, AcceptLogin, CountFailure, LockAccount,
           ChangeRole, Deactivate, Activate, ResetPassword, ChangeOwnPassword
  <2>2. now' = now
    BY DEF CommitsRow, AcceptLogin, CountFailure, LockAccount, ChangeRole,
           Deactivate, Activate, ResetPassword, ChangeOwnPassword, History
  <2>3. op \in [Sessions -> Op]
    BY DEF TypeOK
  <2>4. op[s] \in InFlight
    BY <1>2, PartTypes
  <2>5. CASE op' = [op EXCEPT ![s] = Idle]
    BY <2>2, <2>3, <2>5 DEF Idle
  <2>6. CASE op' = [op EXCEPT ![s].step = "refusing"]
    <3>1. op'[s] = [op[s] EXCEPT !.step = "refusing"]
      BY <2>3, <2>6
    <3>2. op'[s].step = "refusing"
      BY <2>4, <3>1 DEF InFlight
    <3> QED BY <2>2, <2>3, <2>6, <3>2
  <2> QED BY <2>1, <2>5, <2>6
<1> QED BY <1>1, <1>2, <1>3, <1>4 DEF CommitsRow, SnapshotsHold

\* An insertion makes a row where there was none.
LEMMA InsertFacts ==
  ASSUME TypeOK, PasswordsBrought, NEW u \in Users, InsertsRow(u)
  PROVE  \E role \in Roles, password \in Passwords, temporary \in BOOLEAN :
           /\ users' = [users EXCEPT ![u] = NewRow(role, password, temporary)]
           /\ issued' = [issued EXCEPT ![u] = @ \/ temporary]
           /\ temporary \/ issued' = issued
           /\ UNCHANGED <<principal, now, streak>>
           /\ \/ UNCHANGED op
              \/ \E s \in Sessions : op' = [op EXCEPT ![s] = Idle]
<1>1. ASSUME NEW s \in Sessions, op[s].target = u, CreateUser(s), UNCHANGED now
      PROVE  /\ users' = [users EXCEPT
                            ![u] = NewRow(op[s].role, op[s].password, TRUE)]
             /\ issued' = [issued EXCEPT ![u] = @ \/ TRUE]
             /\ UNCHANGED <<principal, now, streak>>
             /\ op' = [op EXCEPT ![s] = Idle]
             /\ op[s].role \in Roles
             /\ op[s].password \in Passwords
  BY <1>1, PartTypes DEF CreateUser, Finish, PasswordsBrought, At
<1>2. ASSUME NEW r \in AssignableRoles, NEW p \in Passwords,
             BootstrapUser(u, r, p)
      PROVE  /\ users' = [users EXCEPT ![u] = NewRow(r, p, FALSE)]
             /\ issued' = issued
             /\ issued' = [issued EXCEPT ![u] = @ \/ FALSE]
             /\ UNCHANGED <<principal, op, now, streak>>
             /\ r \in Roles
  <2>1. /\ users' = [users EXCEPT ![u] = NewRow(r, p, FALSE)]
        /\ UNCHANGED <<principal, op, now, issued, streak>>
    BY <1>2 DEF BootstrapUser, History
  <2>2. issued = [issued EXCEPT ![u] = @ \/ FALSE]
    BY DEF TypeOK
  <2> QED BY <2>1, <2>2, ConstantsAssumption
<1> QED BY <1>1, <1>2 DEF InsertsRow

(***************************************************************************)
(* What a session is doing changes only by a step of that session: it      *)
(* stops, begins an operation, reads, counts, or goes past the lock.       *)
(***************************************************************************)
OperationStep(t) ==
  \/ \E u \in Users, p \in Passwords : BeginLogin(t, u, p)
  \/ \E u \in Users, r \in Requests : Authorize(t, u, r)
  \/ \E p \in Passwords : BeginOwnPassword(t, p)
  \/ ReadTarget(t) \/ ReadOwnRow(t) \/ EnsureAnotherActiveAdmin(t)
  \/ LockAccount(t)

LEMMA OperationSteps ==
  ASSUME TypeOK, Next, NEW t \in Sessions, op'[t] # op[t], op'[t] # Idle
  PROVE  OperationStep(t)
<1>0. op \in [Sessions -> Op] /\ op' # op
  BY DEF TypeOK
<1>1. \A s \in Sessions : op' # [op EXCEPT ![s] = Idle]
  BY <1>0
<1>2. ASSUME NEW s \in Sessions, NEW v, op' = [op EXCEPT ![s] = v]
      PROVE  s = t
  BY <1>0, <1>2
<1>3. ASSUME NEW s \in Sessions, SignInStep(s) PROVE OperationStep(t)
  <2>1. ASSUME NEW u \in Users, NEW p \in Passwords, BeginLogin(s, u, p)
        PROVE  OperationStep(t)
    BY <1>2, <2>1 DEF BeginLogin, OperationStep
  <2>2. ASSUME LockAccount(s) PROVE OperationStep(t)
    <3>1. op' = [op EXCEPT ![s] = [op[s] EXCEPT !.step = "refusing"]]
      BY <2>2 DEF LockAccount
    <3> QED BY <1>2, <2>2, <3>1 DEF OperationStep
  <2> QED BY <1>0, <1>1, <1>3, <2>1, <2>2
          DEF SignInStep, RefuseLogin, AcceptLogin, CountFailure,
              RefuseAfterLock, SignOut, Refresh, EndSession, Finish
<1>4. ASSUME NEW s \in Sessions, AdministrationStep(s) PROVE OperationStep(t)
  <2>1. ASSUME NEW u \in Users, NEW r \in Requests, Authorize(s, u, r)
        PROVE  OperationStep(t)
    BY <1>2, <2>1 DEF Authorize, OperationStep
  <2>2. ASSUME ReadTarget(s) \/ EnsureAnotherActiveAdmin(s)
        PROVE  s = t
    BY <1>0, <1>1, <2>2 DEF ReadTarget, EnsureAnotherActiveAdmin, Finish
  <2> QED BY <1>0, <1>1, <1>4, <2>1, <2>2
          DEF AdministrationStep, OperationStep, DenyAdministration, CreateUser,
              GiveUp, ChangeRole, Deactivate, Activate, ResetPassword, Finish
<1>5. ASSUME NEW s \in Sessions, OwnPasswordStep(s) PROVE OperationStep(t)
  <2>1. ASSUME NEW p \in Passwords, BeginOwnPassword(s, p)
        PROVE  OperationStep(t)
    BY <1>2, <2>1 DEF BeginOwnPassword, OperationStep
  <2>2. ASSUME ReadOwnRow(s) PROVE s = t
    BY <1>0, <2>2 DEF ReadOwnRow
  <2> QED BY <1>1, <1>5, <2>1, <2>2
          DEF OwnPasswordStep, OperationStep, RefuseOwnPassword,
              ChangeOwnPassword, Finish
<1> QED BY <1>0, <1>1, <1>3, <1>4, <1>5
        DEF Next, SessionStep, RollBack, LoseSession, Finish, BootstrapUser, Tick

\* Of these, the ones after which a write is pending.
LEMMA PendingSteps ==
  ASSUME TypeOK, Next, NEW t \in Sessions, op'[t] # op[t],
         op'[t].step \in {"counting", "writing"}
  PROVE  \/ \E u \in Users, p \in Passwords : BeginLogin(t, u, p)
         \/ ReadTarget(t) \/ ReadOwnRow(t) \/ EnsureAnotherActiveAdmin(t)
<1>0. op \in [Sessions -> Op]
  BY DEF TypeOK
<1>1. OperationStep(t)
  BY OperationSteps DEF Idle
<1>2. ASSUME NEW u \in Users, NEW r \in Requests, Authorize(t, u, r)
      PROVE  op'[t].step = "authorized"
  <2>1. op'[t] = [kind |-> r.kind, step |-> "authorized", target |-> u,
                  role |-> r.role, password |-> r.password, at |-> 0,
                  row |-> NoRow]
    BY <1>0, <1>2 DEF Authorize
  <2> QED BY <2>1
<1>3. ASSUME NEW p \in Passwords, BeginOwnPassword(t, p)
      PROVE  op'[t].step = "authorized"
  <2>1. op'[t] = [kind |-> "change_own_password", step |-> "authorized",
                  target |-> principal[t].user, role |-> "EMPLOYEE",
                  password |-> p, at |-> 0, row |-> NoRow]
    BY <1>0, <1>3 DEF BeginOwnPassword
  <2> QED BY <2>1
<1>4. LockAccount(t) => op'[t].step = "refusing"
  <2>1. ASSUME LockAccount(t) PROVE op'[t].step = "refusing"
    <3>1. op[t] \in InFlight
      BY <2>1, PartTypes DEF LockAccount, At, IsIdle
    <3>2. op'[t] = [op[t] EXCEPT !.step = "refusing"]
      BY <1>0, <2>1 DEF LockAccount
    <3> QED BY <3>1, <3>2 DEF InFlight
  <2> QED BY <2>1
<1> QED BY <1>1, <1>2, <1>3, <1>4 DEF OperationStep

(***************************************************************************)
(* Reads stay true.                                                        *)
(***************************************************************************)
LEMMA SnapshotsNext ==
  ASSUME TypeOK, NoOverlap, PasswordsBrought, SnapshotsHold, Next
  PROVE  SnapshotsHold'
<1> SUFFICES ASSUME NEW t \in Sessions, Pending(t)'
             PROVE  /\ users'[op'[t].target].password # NoPassword
                    /\ op'[t].row = users'[op'[t].target]
  BY DEF SnapshotsHold, Registered
<1> DEFINE Goal == /\ users'[op'[t].target].password # NoPassword
                   /\ op'[t].row = users'[op'[t].target]
<1>0. op'[t].step \in {"counting", "writing"} /\ op \in [Sessions -> Op]
  BY DEF Pending, TypeOK
<1>1. ASSUME op'[t] = op[t]
      PROVE  /\ Pending(t) /\ Registered(op[t].target)
             /\ op[t].row = users[op[t].target]
  BY <1>0, <1>1 DEF SnapshotsHold, Pending
<1>2. CASE LeavesRows
  <2>1. users' = users
    BY <1>2 DEF LeavesRows
  <2>2. ASSUME op'[t] = op[t] PROVE Goal
    BY <1>1, <2>1, <2>2 DEF Registered
  <2>3. ASSUME op'[t] # op[t] PROVE Goal
    <3>1. ASSUME NEW u \in Users, NEW p \in Passwords, BeginLogin(t, u, p)
          PROVE  Goal
      BY <1>0, <2>1, <3>1 DEF BeginLogin, Registered
    <3>2. ASSUME ReadTarget(t) \/ ReadOwnRow(t) PROVE Goal
      <4>1. op[t] \in InFlight
        BY <3>2, PartTypes DEF ReadTarget, ReadOwnRow, At, IsIdle
      <4>2. CASE ReadTarget(t)
        <5>1. \E step : op'[t] = [op[t] EXCEPT !.row = users[op[t].target],
                                               !.step = step]
          BY <1>0, <4>2 DEF ReadTarget
        <5>2. Registered(op[t].target)
          BY <4>2 DEF ReadTarget
        <5> QED BY <2>1, <4>1, <5>1, <5>2 DEF InFlight, Registered
      <4>3. CASE ReadOwnRow(t)
        <5>1. \E step : op'[t] = [op[t] EXCEPT !.row = users[op[t].target],
                                               !.step = step]
          BY <1>0, <4>3 DEF ReadOwnRow
        <5>2. Registered(op[t].target)
          BY <4>3 DEF ReadOwnRow
        <5> QED BY <2>1, <4>1, <5>1, <5>2 DEF InFlight, Registered
      <4> QED BY <3>2, <4>2, <4>3
    <3>3. CASE EnsureAnotherActiveAdmin(t)
      <4>1. op[t] \in InFlight /\ Pending(t)
        BY <3>3, PartTypes DEF EnsureAnotherActiveAdmin, IsIdle, Pending
      <4>2. op'[t] = [op[t] EXCEPT !.step = "writing"] \/ op'[t] = Idle
        BY <1>0, <3>3 DEF EnsureAnotherActiveAdmin, Finish
      <4>3. op'[t] # Idle
        BY <1>0 DEF Idle
      <4>4. op'[t].target = op[t].target /\ op'[t].row = op[t].row
        BY <4>1, <4>2, <4>3 DEF InFlight
      <4> QED BY <2>1, <4>1, <4>4 DEF SnapshotsHold, Registered
    <3>4. \/ \E u \in Users, p \in Passwords : BeginLogin(t, u, p)
          \/ ReadTarget(t) \/ ReadOwnRow(t) \/ EnsureAnotherActiveAdmin(t)
      BY <1>0, <2>3, PendingSteps
    <3> QED BY <3>1, <3>2, <3>3, <3>4
  <2> QED BY <2>2, <2>3
<1>3. ASSUME NEW s \in Sessions, NEW row \in Row, CommitsRow(s, row)
      PROVE  Goal
  <2>1. op'[s].step \notin {"counting", "writing"} /\ Pending(s)
        /\ (t # s => op'[t] = op[t])
        /\ users' = [users EXCEPT ![op[s].target] = row]
    BY <1>3, CommitFacts
  <2>2. t # s /\ op'[t] = op[t]
    BY <1>0, <2>1
  <2>3. Pending(t) /\ Registered(op[t].target)
        /\ op[t].row = users[op[t].target]
    BY <1>1, <2>2
  <2>4. op[t].target # op[s].target
    BY <2>1, <2>2, <2>3 DEF NoOverlap
  <2>5. op[t].target \in Users
    BY <2>3, PartTypes DEF Pending, IsIdle, InFlight
  <2>6. users'[op[t].target] = users[op[t].target]
    BY <2>1, <2>4, <2>5 DEF TypeOK
  <2> QED BY <2>2, <2>3, <2>6 DEF Registered
<1>4. ASSUME NEW u \in Users, InsertsRow(u)
      PROVE  Goal
  <2>1. op'[t] = op[t]
    <3>1. ASSUME NEW s \in Sessions, op' = [op EXCEPT ![s] = Idle]
          PROVE  op'[t] = op[t]
      BY <1>0, <3>1 DEF Idle
    <3> QED BY <1>4, <3>1, InsertFacts
  <2>2. Pending(t) /\ Registered(op[t].target)
        /\ op[t].row = users[op[t].target]
    BY <1>1, <2>1
  <2>3. op[t].target # u
    BY <1>4, <2>2 DEF InsertsRow
  <2>4. op[t].target \in Users
    BY <2>2, PartTypes DEF Pending, IsIdle, InFlight
  <2>5. users'[op[t].target] = users[op[t].target]
    BY <1>4, <2>3, <2>4, InsertFacts DEF TypeOK
  <2> QED BY <2>1, <2>2, <2>5 DEF Registered
<1> QED BY <1>2, <1>3, <1>4, StepSorts

(***************************************************************************)
(* Passwords and blank rows.                                               *)
(***************************************************************************)
LEMMA PasswordsNext ==
  ASSUME TypeOK, PasswordsBrought, Next
  PROVE  PasswordsBrought'
<1> DEFINE Setting == {"create_user", "reset_password", "change_own_password"}
<1> SUFFICES ASSUME NEW t \in Sessions, op'[t].kind \in Setting
             PROVE  op'[t].password \in Passwords
  BY DEF PasswordsBrought
<1>0. op \in [Sessions -> Op]
  BY DEF TypeOK
<1>1. CASE op'[t] = op[t]
  BY <1>1 DEF PasswordsBrought
<1>2. CASE op'[t] = Idle
  BY <1>2 DEF Idle
<1>3. ASSUME NEW u \in Users, NEW p \in Passwords, BeginLogin(t, u, p)
      PROVE  op'[t].password \in Passwords
  BY <1>0, <1>3 DEF BeginLogin
<1>4. ASSUME NEW u \in Users, NEW r \in Requests, Authorize(t, u, r)
      PROVE  op'[t].password \in Passwords
  <2>1. op'[t].kind = r.kind /\ op'[t].password = r.password
    BY <1>0, <1>4 DEF Authorize
  <2>2. r.kind \in Setting => r.password \in Passwords
    BY DEF Requests
  <2> QED BY <2>1, <2>2
<1>5. ASSUME NEW p \in Passwords, BeginOwnPassword(t, p)
      PROVE  op'[t].password \in Passwords
  BY <1>0, <1>5 DEF BeginOwnPassword
<1>6. ASSUME \/ ReadTarget(t) \/ ReadOwnRow(t) \/ EnsureAnotherActiveAdmin(t)
             \/ LockAccount(t),
             op'[t] # Idle
      PROVE  op'[t].password \in Passwords
  <2>1. op[t] \in InFlight
    BY <1>6, PartTypes
       DEF ReadTarget, ReadOwnRow, EnsureAnotherActiveAdmin, LockAccount, At,
           IsIdle
  <2>2. \/ \E step : op'[t] = [op[t] EXCEPT !.step = step]
        \/ \E step, row : op'[t] = [op[t] EXCEPT !.row = row, !.step = step]
    BY ZenonT(60), <1>0, <1>6
       DEF ReadTarget, ReadOwnRow, EnsureAnotherActiveAdmin, LockAccount,
           Finish
  <2>3. op'[t].kind = op[t].kind /\ op'[t].password = op[t].password
    BY <2>1, <2>2 DEF InFlight
  <2> QED BY <2>3 DEF PasswordsBrought
<1> QED BY <1>1, <1>2, <1>3, <1>4, <1>5, <1>6, OperationSteps
        DEF OperationStep

\* What any commit does to its row: it keeps it a registered one, a new
\* version accompanies every change of password, role or status, and an active
\* administrator is taken away only by an operation that counted them.
LEMMA CommitEdits ==
  ASSUME TypeOK, PasswordsBrought, SnapshotsHold, NEW s \in Sessions,
         NEW row \in Row, CommitsRow(s, row),
         NEW old, old = users[op[s].target]
  PROVE  /\ row.password # NoPassword
         /\ row.version = old.version \/ row.version = old.version + 1
         /\ row.version = old.version
              => /\ row.password = old.password
                 /\ row.active = old.active /\ row.role = old.role
         /\ ~RemovesAdmin(s) /\ old.active /\ old.role = "ADMIN"
              => row.active /\ row.role = "ADMIN"
<1>1. old \in Row /\ old.password # NoPassword /\ op[s].row = old
      /\ old.version \in Nat
  BY CommitFacts DEF TypeOK, Registered, Row
<1>2. CASE AcceptLogin(s) /\ row = Cleared(old)
  BY <1>1, <1>2 DEF Cleared, Row
<1>3. CASE CountFailure(s) /\ row = Failed(old)
  BY <1>1, <1>3 DEF Failed, Row
<1>4. CASE LockAccount(s) /\ row = Locked(old, op[s].at)
  BY <1>1, <1>4 DEF Locked, Row
<1>5. CASE ChangeRole(s) /\ row = WithRole(old, op[s].role)
  <2>1. RemovesAdmin(s) <=> old.role = "ADMIN" /\ old.active
    BY <1>1, <1>5 DEF ChangeRole, At, RemovesAdmin, RemovesActiveAdmin
  <2>2. row.version = old.version + 1 /\ row.password = old.password
    BY <1>1, <1>5 DEF WithRole, Row
  <2> QED BY <1>1, <2>1, <2>2
<1>6. CASE Deactivate(s) /\ row = Deactivated(old)
  <2>1. RemovesAdmin(s) <=> old.role = "ADMIN" /\ old.active
    BY <1>1, <1>6 DEF Deactivate, At, RemovesAdmin, RemovesActiveAdmin
  <2>2. row.version = old.version + 1 /\ row.password = old.password
    BY <1>1, <1>6 DEF Deactivated, Row
  <2> QED BY <1>1, <2>1, <2>2
<1>7. CASE Activate(s) /\ row = Activated(old)
  <2>1. /\ row.version = old.version + 1 /\ row.password = old.password
        /\ row.active = TRUE /\ row.role = old.role
    BY <1>1, <1>7 DEF Activated, Row
  <2> QED BY <1>1, <2>1
<1>8. CASE ResetPassword(s) /\ row = WithIssuedPassword(old, op[s].password)
  <2>1. op[s].password # NoPassword
    BY <1>8, ConstantsAssumption DEF PasswordsBrought, ResetPassword, At
  <2> QED BY <1>1, <1>8, <2>1 DEF WithIssuedPassword, Row
<1>9. CASE ChangeOwnPassword(s) /\ row = WithOwnPassword(old, op[s].password)
  <2>1. op[s].password # NoPassword
    BY <1>9, ConstantsAssumption DEF PasswordsBrought, ChangeOwnPassword, At
  <2> QED BY <1>1, <1>9, <2>1 DEF WithOwnPassword, Row
<1> QED BY <1>2, <1>3, <1>4, <1>5, <1>6, <1>7, <1>8, <1>9 DEF CommitsRow

LEMMA BlankNext ==
  ASSUME TypeOK, BlankRows, PasswordsBrought, SnapshotsHold, Next
  PROVE  BlankRows'
<1> SUFFICES ASSUME NEW u \in Users, users'[u].password = NoPassword
             PROVE  users'[u] = NoRow
  BY DEF BlankRows, Registered
<1>0. users \in [Users -> Row]
  BY DEF TypeOK
<1>1. CASE users'[u] = users[u]
  BY <1>1 DEF BlankRows, Registered
<1>2. CASE LeavesRows
  BY <1>1, <1>2 DEF LeavesRows
<1>3. ASSUME NEW s \in Sessions, NEW row \in Row, CommitsRow(s, row)
      PROVE  users'[u] = NoRow
  BY <1>0, <1>1, <1>3, CommitFacts, CommitEdits
<1>4. ASSUME NEW v \in Users, InsertsRow(v)
      PROVE  users'[u] = NoRow
  BY <1>0, <1>1, <1>4, InsertFacts, ConstantsAssumption DEF NewRow
<1> QED BY <1>2, <1>3, <1>4, StepSorts

(***************************************************************************)
(* Administrators.                                                         *)
(***************************************************************************)

\* No commit takes away an administrator other than its target, and its
\* target only if it counted; insertions and reads take away none.
LEMMA AdminsKept ==
  ASSUME TypeOK, BlankRows, PasswordsBrought, SnapshotsHold, Next
  PROVE  \/ ActiveAdmins \subseteq ActiveAdmins'
         \/ \E s \in Sessions :
              /\ op[s].step = "writing" /\ RemovesAdmin(s)
              /\ op'[s].step \notin {"counting", "writing"}
              /\ \A t \in Sessions \ {s} : op'[t] = op[t]
              /\ ActiveAdmins \ {op[s].target} \subseteq ActiveAdmins'
<1>0. users \in [Users -> Row]
  BY DEF TypeOK
<1>1. CASE LeavesRows
  BY <1>1 DEF LeavesRows, ActiveAdmins
<1>2. ASSUME NEW s \in Sessions, NEW row \in Row, CommitsRow(s, row)
      PROVE  /\ op[s].step = "writing"
             /\ op'[s].step \notin {"counting", "writing"}
             /\ \A t \in Sessions \ {s} : op'[t] = op[t]
             /\ ActiveAdmins \ {op[s].target} \subseteq ActiveAdmins'
             /\ ~RemovesAdmin(s) => ActiveAdmins \subseteq ActiveAdmins'
  <2>1. /\ users' = [users EXCEPT ![op[s].target] = row]
        /\ op[s].target \in Users
    BY <1>2, CommitFacts
  <2>2. ActiveAdmins \ {op[s].target} \subseteq ActiveAdmins'
    BY <1>0, <2>1 DEF ActiveAdmins
  <2>3. ASSUME ~RemovesAdmin(s), op[s].target \in ActiveAdmins
        PROVE  op[s].target \in ActiveAdmins'
    <3>1. row.active /\ row.role = "ADMIN"
      BY <1>2, <2>3, CommitEdits DEF ActiveAdmins
    <3> QED BY <1>0, <2>1, <3>1 DEF ActiveAdmins
  <2>4. op[s].step = "writing"
    BY <1>2 DEF CommitsRow
  <2> QED BY <1>2, <2>2, <2>3, <2>4, CommitFacts
<1>3. ASSUME NEW u \in Users, InsertsRow(u)
      PROVE  ActiveAdmins \subseteq ActiveAdmins'
  <2>1. ~users[u].active
    BY <1>3 DEF InsertsRow, BlankRows, NoRow
  <2> QED BY <1>0, <1>3, <2>1, InsertFacts DEF ActiveAdmins
<1> QED BY <1>1, <1>2, <1>3, StepSorts

\* Where there are two administrators, one remains without any of them.
LEMMA AnotherAdmin ==
  ASSUME NEW u, Cardinality(ActiveAdmins) > 1
  PROVE  ActiveAdmins \ {u} # {}
<1>1. SUFFICES ASSUME ActiveAdmins \ {u} = {} PROVE FALSE
  OBVIOUS
<1>2. ActiveAdmins \subseteq {u}
  BY <1>1
<1>3. IsFiniteSet({u}) /\ Cardinality({u}) = 1
  BY FS_Singleton
<1>4. Cardinality(ActiveAdmins) <= 1 /\ Cardinality(ActiveAdmins) \in Nat
  BY <1>2, <1>3, FS_Subset, FS_CardinalityType
<1> QED BY <1>4

LEMMA AnotherAdminNext ==
  ASSUME TypeOK, NoOverlap, BlankRows, PasswordsBrought, SnapshotsHold,
         AnotherAdminStays, Next
  PROVE  AnotherAdminStays'
<1> SUFFICES ASSUME NEW t \in Sessions, op'[t].step = "writing",
                    RemovesActiveAdmin(op'[t].kind, op'[t].row)
             PROVE  ActiveAdmins' \ {op'[t].target} # {}
  BY DEF AnotherAdminStays, RemovesAdmin, RemovesActiveAdmin
<1>0. op \in [Sessions -> Op]
  BY DEF TypeOK
<1>1. CASE op'[t] = op[t]
  <2>1. /\ op[t].step = "writing" /\ Pending(t) /\ RemovesAdmin(t)
        /\ ActiveAdmins \ {op[t].target} # {}
    BY <1>1 DEF AnotherAdminStays, RemovesAdmin, Pending
  <2>2. ASSUME NEW s \in Sessions, op[s].step = "writing", RemovesAdmin(s),
               op'[s].step \notin {"counting", "writing"}
        PROVE  FALSE
    <3>1. s # t /\ Pending(s)
      BY <2>2 DEF Pending
    <3> QED BY <2>1, <2>2, <3>1 DEF NoOverlap
  <2>3. ActiveAdmins \subseteq ActiveAdmins'
    BY <2>2, AdminsKept
  <2> QED BY <1>1, <2>1, <2>3
<1>2. CASE op'[t] # op[t]
  <2>1. ASSUME NEW u \in Users, NEW p \in Passwords, BeginLogin(t, u, p)
        PROVE  FALSE
    <3>1. op'[t].kind = "login"
      BY <1>0, <2>1 DEF BeginLogin
    <3> QED BY <3>1 DEF RemovesActiveAdmin
  <2>2. ASSUME ReadTarget(t) PROVE FALSE
    <3>1. op[t] \in InFlight
      BY <2>2, PartTypes DEF ReadTarget, IsIdle
    <3>2. op'[t] = [op[t] EXCEPT !.row = users[op[t].target],
                      !.step = IF RemovesActiveAdmin(op[t].kind,
                                                     users[op[t].target])
                               THEN "counting" ELSE "writing"]
      BY <1>0, <2>2 DEF ReadTarget
    <3>3. op'[t].kind = op[t].kind /\ op'[t].row = users[op[t].target]
      BY <3>1, <3>2 DEF InFlight
    <3>4. op'[t].step = "counting"
      BY <3>1, <3>2, <3>3 DEF InFlight
    <3> QED BY <3>4
  <2>3. ASSUME ReadOwnRow(t) PROVE FALSE
    <3>1. op[t] \in InFlight /\ op[t].kind = "change_own_password"
      BY <2>3, PartTypes DEF ReadOwnRow, At, IsIdle
    <3>2. op'[t] = [op[t] EXCEPT !.row = users[op[t].target],
                                 !.step = "writing"]
      BY <1>0, <2>3 DEF ReadOwnRow
    <3>3. op'[t].kind = "change_own_password"
      BY <3>1, <3>2 DEF InFlight
    <3> QED BY <3>3 DEF RemovesActiveAdmin
  <2>4. ASSUME EnsureAnotherActiveAdmin(t)
        PROVE  ActiveAdmins' \ {op'[t].target} # {}
    <3>1. Cardinality(ActiveAdmins) > 1
      BY <1>0, <2>4 DEF EnsureAnotherActiveAdmin, Finish, Idle
    <3>2. users' = users
      BY <2>4 DEF EnsureAnotherActiveAdmin
    <3> QED BY <3>1, <3>2, AnotherAdmin DEF ActiveAdmins
  <2> QED BY <1>2, <2>1, <2>2, <2>3, <2>4, PendingSteps
<1> QED BY <1>1, <1>2

(***************************************************************************)
(* Sessions.                                                               *)
(***************************************************************************)

\* A session's principal changes only by a step of that session.
LEMMA PrincipalSteps ==
  ASSUME TypeOK, Next, NEW t \in Sessions, principal'[t] # principal[t],
         principal'[t] # NoPrincipal
  PROVE  Refresh(t) \/ AcceptLogin(t) \/ ChangeOwnPassword(t)
<1>0. principal \in [Sessions -> Principal] /\ principal' # principal
  BY DEF TypeOK
<1>1. \A s \in Sessions : principal' # [principal EXCEPT ![s] = NoPrincipal]
  BY <1>0
<1>2. ASSUME NEW s \in Sessions, NEW v, principal' = [principal EXCEPT ![s] = v]
      PROVE  s = t
  BY <1>0, <1>2
<1>3. ASSUME NEW s \in Sessions,
             Refresh(s) \/ AcceptLogin(s) \/ ChangeOwnPassword(s)
      PROVE  s = t
  <2>1. Refresh(s) => principal' = [principal EXCEPT
          ![s] = [principal[s] EXCEPT !.lastActivity = now]]
    BY DEF Refresh
  <2>2. AcceptLogin(s) => \E v : principal' = [principal EXCEPT ![s] = v]
    BY DEF AcceptLogin
  <2>3. ChangeOwnPassword(s) => \E v : principal' = [principal EXCEPT ![s] = v]
    BY DEF ChangeOwnPassword
  <2> QED BY <1>2, <1>3, <2>1, <2>2, <2>3
<1>4. ASSUME NEW s \in Sessions, SignInStep(s)
      PROVE  Refresh(s) \/ AcceptLogin(s)
  BY <1>0, <1>1, <1>4
     DEF SignInStep, RefuseLogin, BeginLogin, CountFailure, LockAccount,
         RefuseAfterLock, SignOut, EndSession
<1>5. \A s \in Sessions : ~AdministrationStep(s)
  BY <1>0
     DEF AdministrationStep, DenyAdministration, Authorize, CreateUser, GiveUp,
         ReadTarget, EnsureAnotherActiveAdmin, ChangeRole, Deactivate,
         Activate, ResetPassword
<1>6. ASSUME NEW s \in Sessions, OwnPasswordStep(s)
      PROVE  ChangeOwnPassword(s)
  BY <1>0, <1>6
     DEF OwnPasswordStep, BeginOwnPassword, RefuseOwnPassword, ReadOwnRow
<1> QED BY <1>0, <1>1, <1>3, <1>4, <1>5, <1>6
        DEF Next, SessionStep, RollBack, LoseSession, BootstrapUser, Tick

\* An account stays registered, its version does not go back, and at an
\* unchanged version its password, role and status are unchanged.
LEMMA RowsAdvance ==
  ASSUME TypeOK, BlankRows, PasswordsBrought, SnapshotsHold, Next,
         NEW u \in Users, Registered(u)
  PROVE  /\ users'[u].password # NoPassword
         /\ users[u].version \in Nat /\ users'[u].version \in Nat
         /\ users[u].version <= users'[u].version
         /\ users'[u].version = users[u].version
              => /\ users'[u].password = users[u].password
                 /\ users'[u].active = users[u].active
                 /\ users'[u].role = users[u].role
<1>0. users \in [Users -> Row] /\ users[u].version \in Nat
  BY DEF TypeOK, Row
<1>1. CASE users'[u] = users[u]
  BY <1>0, <1>1 DEF Registered
<1>2. CASE LeavesRows
  BY <1>1, <1>2 DEF LeavesRows
<1>3. ASSUME NEW s \in Sessions, NEW row \in Row, CommitsRow(s, row),
             op[s].target = u
      PROVE  /\ row.password # NoPassword
             /\ row.version = users[u].version
                  \/ row.version = users[u].version + 1
             /\ row.version = users[u].version
                  => /\ row.password = users[u].password
                     /\ row.active = users[u].active
                     /\ row.role = users[u].role
             /\ users'[u] = row
  BY <1>0, <1>3, CommitFacts, CommitEdits
<1>4. ASSUME NEW s \in Sessions, NEW row \in Row, CommitsRow(s, row),
             op[s].target # u
      PROVE  users'[u] = users[u]
  BY <1>0, <1>4, CommitFacts
<1>5. ASSUME NEW v \in Users, InsertsRow(v)
      PROVE  users'[u] = users[u]
  BY <1>0, <1>5, InsertFacts DEF InsertsRow
<1> QED BY <1>0, <1>1, <1>2, <1>3, <1>4, <1>5, StepSorts

LEMMA SessionsNext ==
  ASSUME TypeOK, BlankRows, PasswordsBrought, SnapshotsHold, SessionsFollow,
         Next
  PROVE  SessionsFollow'
<1> DEFINE Follows(p, row) == /\ row.password # NoPassword
                              /\ p.version <= row.version
                              /\ p.version = row.version
                                   => p.password = row.password
<1> SUFFICES ASSUME NEW t \in Sessions, principal'[t].user # NoUser
             PROVE  Follows(principal'[t], users'[principal'[t].user])
  BY DEF SessionsFollow, SignedIn, Registered
<1>0. /\ principal \in [Sessions -> Principal] /\ users \in [Users -> Row]
      /\ principal[t] \in Principal
  BY DEF TypeOK
<1>1. ASSUME SignedIn(t)
      PROVE  Follows(principal[t], users'[principal[t].user])
  <2> DEFINE u == principal[t].user
  <2>1. u \in Users /\ Registered(u) /\ Follows(principal[t], users[u])
    BY <1>0, <1>1 DEF SessionsFollow, SignedIn, Registered, Principal
  <2>2. principal[t].version \in Nat
    BY <1>0 DEF Principal
  <2> HIDE DEF u
  <2>3. /\ users'[u].password # NoPassword
        /\ users[u].version \in Nat /\ users'[u].version \in Nat
        /\ users[u].version <= users'[u].version
        /\ users'[u].version = users[u].version
             => users'[u].password = users[u].password
    BY <2>1, RowsAdvance
  <2> QED BY <2>1, <2>2, <2>3 DEF u
<1>2. CASE principal'[t] = principal[t]
  BY <1>1, <1>2 DEF SignedIn
<1>3. CASE principal'[t] = NoPrincipal
  BY <1>3 DEF NoPrincipal
<1>4. CASE Refresh(t)
  <2>1. principal'[t] = [principal[t] EXCEPT !.lastActivity = now]
    BY <1>0, <1>4 DEF Refresh
  <2>2. /\ principal'[t].user = principal[t].user
        /\ principal'[t].version = principal[t].version
        /\ principal'[t].password = principal[t].password
    BY <1>0, <2>1 DEF Principal
  <2> QED BY <1>1, <1>4, <2>2 DEF Refresh
<1>5. CASE AcceptLogin(t)
  <2>1. /\ Pending(t) /\ op[t].password = op[t].row.password
        /\ Flush(t, Cleared(op[t].row))
    BY <1>5 DEF AcceptLogin, At, Pending, PasswordMatches
  <2>2. /\ op[t].target \in Users /\ Registered(op[t].target)
        /\ op[t].row = users[op[t].target] /\ op[t].row \in Row
    BY <2>1, PartTypes DEF SnapshotsHold, Pending, IsIdle, InFlight
  <2>3. users'[op[t].target] = Cleared(op[t].row) /\ Cleared(op[t].row) \in Row
    <3>1. Cleared(op[t].row) \in Row
      BY <2>2, EditType, PartTypes
    <3>2. users' = [users EXCEPT ![op[t].target] = Cleared(op[t].row)]
      BY <2>1, <3>1, FlushWrites
    <3> QED BY <1>0, <2>2, <3>1, <3>2
  <2>4. /\ Cleared(op[t].row).version = op[t].row.version
        /\ Cleared(op[t].row).password = op[t].row.password
        /\ op[t].row.version \in Nat
    BY <2>2 DEF Cleared, Row
  <2>5. principal'[t] = [user |-> op[t].target, version |-> op[t].row.version,
                         lastActivity |-> op[t].at, password |-> op[t].password]
    BY <1>0, <1>5 DEF AcceptLogin
  <2> QED BY <2>1, <2>2, <2>3, <2>4, <2>5 DEF Registered
<1>6. CASE ChangeOwnPassword(t)
  <2> DEFINE row == WithOwnPassword(op[t].row, op[t].password)
  <2>1. Pending(t) /\ FlushHash(t, row) /\ op[t].kind = "change_own_password"
    BY <1>6 DEF ChangeOwnPassword, At, Pending
  <2>2. /\ op[t].target \in Users /\ op[t].row \in Row
        /\ op[t].password \in Passwords
    BY <2>1, PartTypes DEF Pending, IsIdle, InFlight, PasswordsBrought
  <2>3. users'[op[t].target] = row /\ row \in Row
    <3>1. row \in Row
      BY <2>2, EditType, PartTypes
    <3> HIDE DEF row
    <3> QED BY <1>0, <2>1, <2>2, <3>1, FlushWrites
  <2>4. /\ row.version = op[t].row.version + 1
        /\ row.password = op[t].password /\ op[t].row.version \in Nat
    BY <2>2 DEF WithOwnPassword, Row
  <2>5. principal'[t] = [user |-> op[t].target,
                         version |-> op[t].row.version + 1,
                         lastActivity |-> now, password |-> op[t].password]
    BY <1>0, <1>6 DEF ChangeOwnPassword
  <2> HIDE DEF row
  <2> QED BY <2>2, <2>3, <2>4, <2>5, ConstantsAssumption
<1> QED BY <1>2, <1>3, <1>4, <1>5, <1>6, PrincipalSteps

(***************************************************************************)
(* Issued passwords, failures and locks.                                   *)
(***************************************************************************)
LEMMA IssuedNext ==
  ASSUME TypeOK, BlankRows, PasswordsBrought, SnapshotsHold,
         IssuedPasswordsAreTemporary, Next
  PROVE  IssuedPasswordsAreTemporary'
<1> SUFFICES ASSUME NEW u \in Users, issued'[u]
             PROVE  users'[u].mustChange
  BY DEF IssuedPasswordsAreTemporary
<1>0. users \in [Users -> Row] /\ issued \in [Users -> BOOLEAN]
  BY DEF TypeOK
<1>1. CASE users'[u] = users[u] /\ issued'[u] = issued[u]
  BY <1>1 DEF IssuedPasswordsAreTemporary
<1>2. CASE LeavesRows
  BY <1>1, <1>2 DEF LeavesRows
<1>3. ASSUME NEW s \in Sessions, NEW row \in Row, CommitsRow(s, row)
      PROVE  users'[u].mustChange
  <2> DEFINE old == users[op[s].target]
  <2>1. CASE op[s].target # u
    <3>1. \/ issued' = issued
          \/ \E b \in BOOLEAN : issued' = [issued EXCEPT ![op[s].target] = b]
      BY <1>3
         DEF CommitsRow, AcceptLogin, CountFailure, LockAccount, ChangeRole,
             Deactivate, Activate, ResetPassword, ChangeOwnPassword, History
    <3> QED BY <1>0, <1>1, <1>3, <2>1, <3>1, CommitFacts
  <2>2. CASE op[s].target = u
    <3>0. old \in Row /\ users'[u] = row
      BY <1>0, <1>3, <2>2, CommitFacts
    <3>1. CASE ResetPassword(s)
                 /\ row = WithIssuedPassword(old, op[s].password)
      BY <3>0, <3>1 DEF WithIssuedPassword, Row
    <3>2. CASE ChangeOwnPassword(s)
      BY <1>0, <2>2, <3>2 DEF ChangeOwnPassword
    <3>3. ASSUME issued' = issued, row.mustChange = old.mustChange
          PROVE  users'[u].mustChange
      BY <2>2, <3>0, <3>3 DEF IssuedPasswordsAreTemporary
    <3>4. /\ Cleared(old).mustChange = old.mustChange
          /\ Failed(old).mustChange = old.mustChange
          /\ Locked(old, op[s].at).mustChange = old.mustChange
          /\ WithRole(old, op[s].role).mustChange = old.mustChange
          /\ Deactivated(old).mustChange = old.mustChange
          /\ Activated(old).mustChange = old.mustChange
      BY <3>0 DEF Cleared, Failed, Locked, WithRole, Deactivated, Activated, Row
    <3> HIDE DEF old
    <3>5. CASE \/ AcceptLogin(s) /\ row = Cleared(old)
               \/ CountFailure(s) /\ row = Failed(old)
               \/ LockAccount(s) /\ row = Locked(old, op[s].at)
               \/ ChangeRole(s) /\ row = WithRole(old, op[s].role)
               \/ Deactivate(s) /\ row = Deactivated(old)
               \/ Activate(s) /\ row = Activated(old)
      <4>1. issued' = issued
        BY <3>5
           DEF AcceptLogin, CountFailure, LockAccount, ChangeRole, Deactivate,
               Activate, History
      <4>2. row.mustChange = old.mustChange
        BY <3>4, <3>5
      <4> QED BY <3>3, <4>1, <4>2
    <3> QED BY <1>3, <3>1, <3>2, <3>5 DEF CommitsRow, old
  <2> QED BY <2>1, <2>2
<1>4. ASSUME NEW v \in Users, InsertsRow(v)
      PROVE  users'[u].mustChange
  <2>1. users[v] = NoRow
    BY <1>4 DEF InsertsRow, BlankRows
  <2>2. issued[v] = FALSE
    BY <1>0, <2>1 DEF IssuedPasswordsAreTemporary, NoRow
  <2>3. CASE u = v
    BY <1>0, <1>4, <2>2, <2>3, InsertFacts DEF NewRow
  <2>4. CASE u # v
    BY ZenonT(60), <1>0, <1>1, <1>4, <2>4, InsertFacts
  <2> QED BY <2>3, <2>4
<1> QED BY <1>2, <1>3, <1>4, StepSorts

\* The counter of every account follows the failures, and the last of them
\* resets both.
LEMMA FailuresNext ==
  ASSUME TypeOK, BlankRows, PasswordsBrought, SnapshotsHold, FailuresCounted,
         FailuresLock, Next
  PROVE  FailuresCounted' /\ FailuresLock'
<1> SUFFICES ASSUME NEW u \in Users
             PROVE  /\ streak'[u] = users'[u].failed
                    /\ streak'[u] < MaxFailedAttempts
  BY DEF FailuresCounted, FailuresLock
<1>0. /\ users \in [Users -> Row] /\ streak \in [Users -> Nat]
      /\ streak[u] = users[u].failed /\ streak[u] < MaxFailedAttempts
      /\ 0 < MaxFailedAttempts
  BY ConstantsAssumption DEF TypeOK, FailuresCounted, FailuresLock
<1>1. CASE users'[u].failed = users[u].failed /\ streak'[u] = streak[u]
  BY <1>0, <1>1
<1>2. CASE LeavesRows
  BY <1>1, <1>2 DEF LeavesRows
<1>3. ASSUME NEW s \in Sessions, NEW row \in Row, CommitsRow(s, row),
             op[s].target # u
      PROVE  users'[u].failed = users[u].failed /\ streak'[u] = streak[u]
  <2>1. \/ streak' = streak
        \/ \E n : streak' = [streak EXCEPT ![op[s].target] = n]
    BY <1>3
       DEF CommitsRow, AcceptLogin, CountFailure, LockAccount, ChangeRole,
           Deactivate, Activate, ResetPassword, ChangeOwnPassword, History
  <2> QED BY <1>0, <1>3, <2>1, CommitFacts
<1>4. ASSUME NEW s \in Sessions, NEW row \in Row, CommitsRow(s, row),
             op[s].target = u
      PROVE  /\ streak'[u] = users'[u].failed
             /\ streak'[u] < MaxFailedAttempts
  <2>0. /\ users[u] \in Row /\ users'[u] = row
        /\ op[s].row = users[u]
    BY <1>0, <1>4, CommitFacts
  <2>1. CASE AcceptLogin(s) /\ row = Cleared(users[u])
    BY <1>0, <1>4, <2>0, <2>1 DEF AcceptLogin, Cleared, Row
  <2>2. CASE CountFailure(s) /\ row = Failed(users[u])
    <3>1. row.failed = users[u].failed + 1
      BY <2>0, <2>2 DEF Failed, Row
    <3>2. streak'[u] = streak[u] + 1
      BY <1>0, <1>4, <2>2 DEF CountFailure
    <3>3. ~(users[u].failed + 1 >= MaxFailedAttempts)
      BY <2>0, <2>2 DEF CountFailure, ReachesLimit
    <3> QED BY <1>0, <2>0, <3>1, <3>2, <3>3, ConstantsAssumption
  <2>3. CASE LockAccount(s) /\ row = Locked(users[u], op[s].at)
    BY <1>0, <1>4, <2>0, <2>3 DEF LockAccount, Locked, Row
  <2>4. CASE Activate(s) /\ row = Activated(users[u])
    BY <1>0, <1>4, <2>0, <2>4 DEF Activate, Activated, Row
  <2>5. CASE ResetPassword(s)
               /\ row = WithIssuedPassword(users[u], op[s].password)
    BY <1>0, <1>4, <2>0, <2>5 DEF ResetPassword, WithIssuedPassword, Row
  <2>6. CASE ChangeRole(s) /\ row = WithRole(users[u], op[s].role)
    BY <1>1, <2>0, <2>6 DEF ChangeRole, WithRole, Row, History
  <2>7. CASE Deactivate(s) /\ row = Deactivated(users[u])
    BY <1>1, <2>0, <2>7 DEF Deactivate, Deactivated, Row, History
  <2>8. CASE ChangeOwnPassword(s)
               /\ row = WithOwnPassword(users[u], op[s].password)
    BY <1>1, <2>0, <2>8 DEF ChangeOwnPassword, WithOwnPassword, Row
  <2> QED BY <1>4, <2>1, <2>2, <2>3, <2>4, <2>5, <2>6, <2>7, <2>8
          DEF CommitsRow
<1>5. ASSUME NEW v \in Users, InsertsRow(v)
      PROVE  users'[u].failed = users[u].failed /\ streak'[u] = streak[u]
  <2>1. users[v] = NoRow
    BY <1>5 DEF InsertsRow, BlankRows
  <2> QED BY <1>0, <1>5, <2>1, InsertFacts DEF NewRow, NoRow
<1> QED BY <1>1, <1>2, <1>3, <1>4, <1>5, StepSorts

LEMMA VerifiedNext ==
  ASSUME TypeOK, VerifiedUnlocked, Next
  PROVE  VerifiedUnlocked'
<1> SUFFICES ASSUME NEW t \in Sessions, op'[t].kind = "login",
                    op'[t].step = "writing"
             PROVE  op'[t].row.lockedUntil <= op'[t].at /\ op'[t].at <= now'
  BY DEF VerifiedUnlocked, At
<1>0. /\ op \in [Sessions -> Op] /\ users \in [Users -> Row] /\ now \in Nat
  BY DEF TypeOK
<1>a. now' = now \/ now' = now + 1
  BY DEF Next, SessionStep, BootstrapUser, Tick
<1>1. CASE op'[t] = op[t]
  <2>2. op[t].at \in Nat
    BY PartTypes
  <2> QED BY <1>0, <1>a, <1>1, <2>2 DEF VerifiedUnlocked, At
<1>2. CASE op'[t] # op[t]
  <2>1. ASSUME NEW u \in Users, NEW p \in Passwords, BeginLogin(t, u, p)
        PROVE  op'[t].row.lockedUntil <= op'[t].at /\ op'[t].at <= now'
    <3>1. op'[t].row = users[u] /\ op'[t].at = now
      BY <1>0, <2>1 DEF BeginLogin
    <3>2. ~(now < users[u].lockedUntil) /\ users[u].lockedUntil \in Nat
      BY <1>0, <2>1 DEF BeginLogin, IsLocked, Row
    <3> QED BY <1>0, <1>a, <3>1, <3>2
  <2>2. ASSUME ReadTarget(t) \/ ReadOwnRow(t) \/ EnsureAnotherActiveAdmin(t)
        PROVE  FALSE
    <3>1. op[t] \in InFlight
      BY <2>2, PartTypes
         DEF ReadTarget, ReadOwnRow, EnsureAnotherActiveAdmin, At, IsIdle
    <3>2. \/ \E step : op'[t] = [op[t] EXCEPT !.step = step]
          \/ \E step, row : op'[t] = [op[t] EXCEPT !.row = row, !.step = step]
      <4>1. op'[t] # Idle
        BY DEF Idle
      <4>2. CASE ReadTarget(t)
        BY <1>0, <4>2 DEF ReadTarget
      <4>3. CASE ReadOwnRow(t)
        BY <1>0, <4>3 DEF ReadOwnRow
      <4>4. CASE EnsureAnotherActiveAdmin(t)
        BY <1>0, <4>1, <4>4 DEF EnsureAnotherActiveAdmin, Finish
      <4> QED BY <2>2, <4>2, <4>3, <4>4
    <3>3. op[t].kind = "login"
      BY <3>1, <3>2 DEF InFlight
    <3>4. ReadTarget(t) => op[t].kind \in AdminOperations
      BY DEF ReadTarget
    <3>5. "login" \notin AdminOperations
      BY DEF AdminOperations
    <3> QED BY <2>2, <3>3, <3>4, <3>5 DEF ReadOwnRow, EnsureAnotherActiveAdmin,
                                         At
  <2> QED BY <1>2, <2>1, <2>2, PendingSteps
<1> QED BY <1>1, <1>2

(***************************************************************************)
(* The invariant and what follows from it.                                 *)
(***************************************************************************)
LEMMA ExclusiveInit == Init => ExclusiveInvariant
<1> SUFFICES ASSUME Init PROVE ExclusiveInvariant
  OBVIOUS
<1>1. TypeOK
  BY TypeInit
<1>2. NoOverlap /\ SnapshotsHold /\ AnotherAdminStays /\ VerifiedUnlocked
  BY DEF Init, Idle, NoOverlap, SnapshotsHold, AnotherAdminStays,
         VerifiedUnlocked, Pending, At
<1>3. BlankRows /\ FailuresCounted
  BY DEF Init, BlankRows, FailuresCounted, NoRow
<1>4. PasswordsBrought
  BY DEF Init, PasswordsBrought, Idle
<1>5. SessionsFollow /\ IssuedPasswordsAreTemporary
  BY DEF Init, SessionsFollow, SignedIn, NoPrincipal,
         IssuedPasswordsAreTemporary
<1>6. FailuresLock
  BY ConstantsAssumption DEF Init, FailuresLock
<1> QED BY <1>1, <1>2, <1>3, <1>4, <1>5, <1>6 DEF ExclusiveInvariant

LEMMA ExclusiveNext ==
  ExclusiveInvariant /\ [Next /\ NoOverlap']_vars => ExclusiveInvariant'
<1> SUFFICES ASSUME ExclusiveInvariant, [Next /\ NoOverlap']_vars
             PROVE  ExclusiveInvariant'
  OBVIOUS
<1> USE DEF ExclusiveInvariant
<1>1. CASE Next /\ NoOverlap'
  <2>1. TypeOK' /\ BlankRows' /\ PasswordsBrought' /\ SnapshotsHold'
    BY <1>1, TypeNext, BlankNext, PasswordsNext, SnapshotsNext
  <2>2. AnotherAdminStays' /\ SessionsFollow' /\ VerifiedUnlocked'
    BY <1>1, AnotherAdminNext, SessionsNext, VerifiedNext
  <2>3. IssuedPasswordsAreTemporary' /\ FailuresCounted' /\ FailuresLock'
    BY <1>1, IssuedNext, FailuresNext
  <2> QED BY <1>1, <2>1, <2>2, <2>3
<1>2. CASE UNCHANGED vars
  BY <1>2
     DEF vars, TypeOK, NoOverlap, Pending, RemovesAdmin, BlankRows, Registered,
         PasswordsBrought, SnapshotsHold, AnotherAdminStays, ActiveAdmins,
         SessionsFollow, SignedIn, IssuedPasswordsAreTemporary,
         FailuresCounted, FailuresLock, VerifiedUnlocked, At
<1> QED BY <1>1, <1>2

\* In the program without overlaps the invariant holds throughout.
THEOREM ExclusiveCorrect == ExclusiveSpec => []ExclusiveInvariant
BY ExclusiveInit, ExclusiveNext, PTL DEF ExclusiveSpec

\* While no two operations overlap on an account, a session that validates has
\* the account's present password.
THEOREM SessionsCurrent == ExclusiveSpec => []LiveSessionsAreCurrent
<1>1. ExclusiveInvariant => LiveSessionsAreCurrent
  BY DEF ExclusiveInvariant, SessionsFollow, LiveSessionsAreCurrent, SignedIn,
         Matches
<1> QED BY <1>1, ExclusiveCorrect, PTL

\* While no two operations overlap on an account, a reset and the user's own
\* change included, a password an administrator chose stays marked as temporary.
THEOREM IssuedTemporary == ExclusiveSpec => []IssuedPasswordsAreTemporary
<1>1. ExclusiveInvariant => IssuedPasswordsAreTemporary
  BY DEF ExclusiveInvariant
<1> QED BY <1>1, ExclusiveCorrect, PTL

\* While no two operations overlap on an account, so that no failed sign-in
\* reads the counter before another has written it, MAX_FAILED_ATTEMPTS failures
\* in a row lock the account.
THEOREM FailuresAlwaysLock == ExclusiveSpec => []FailuresLock
<1>1. ExclusiveInvariant => FailuresLock
  BY DEF ExclusiveInvariant
<1> QED BY <1>1, ExclusiveCorrect, PTL

\* While no two operations overlap on an account and no two that take an
\* active administrator away overlap at all, the last one stays.
THEOREM LastAdmin == ExclusiveSpec => LastAdminSurvives
<1>1. ExclusiveInvariant /\ [Next /\ NoOverlap']_vars
        => [ActiveAdmins # {} => ActiveAdmins' # {}]_vars
  <2> SUFFICES ASSUME ExclusiveInvariant, Next, ActiveAdmins # {}
               PROVE  ActiveAdmins' # {}
    OBVIOUS
  <2> USE DEF ExclusiveInvariant
  <2>1. CASE ActiveAdmins \subseteq ActiveAdmins'
    BY <2>1
  <2>2. ASSUME NEW s \in Sessions, op[s].step = "writing", RemovesAdmin(s),
               ActiveAdmins \ {op[s].target} \subseteq ActiveAdmins'
        PROVE  ActiveAdmins' # {}
    BY <2>2 DEF AnotherAdminStays
  <2> QED BY <2>1, <2>2, AdminsKept
<1> QED BY <1>1, ExclusiveCorrect, PTL DEF ExclusiveSpec, LastAdminSurvives

\* While no two operations overlap on an account, and so none increments
\* session_version from a stale value, an invalidated session never becomes
\* valid again.
THEOREM InvalidatedStayInvalid == ExclusiveSpec => InvalidatedForGood
<1> DEFINE Stays ==
      \A s \in Sessions :
        SignedIn(s) /\ ~Matches(principal[s]) /\ principal'[s] = principal[s]
          => ~Matches(principal[s])'
<1>1. ExclusiveInvariant /\ [Next /\ NoOverlap']_vars => [Stays]_vars
  <2> SUFFICES ASSUME ExclusiveInvariant, Next, NEW s \in Sessions,
                      SignedIn(s), ~Matches(principal[s]),
                      principal'[s] = principal[s]
               PROVE  ~Matches(principal[s])'
    OBVIOUS
  <2> USE DEF ExclusiveInvariant
  <2> DEFINE u == principal[s].user
  <2>1. u \in Users /\ principal[s].version \in Nat
    BY DEF TypeOK, Principal, SignedIn
  <2>2. Registered(u) /\ principal[s].version <= users[u].version
    BY DEF SessionsFollow
  <2>3. /\ users[u].version \in Nat /\ users'[u].version \in Nat
        /\ users[u].version <= users'[u].version
        /\ users'[u].version = users[u].version
             => users'[u].active = users[u].active
    BY <2>1, <2>2, RowsAdvance
  <2>4. ~(users'[u].active /\ users'[u].version = principal[s].version)
    BY <2>1, <2>2, <2>3 DEF Matches
  <2> QED BY <2>4 DEF Matches
<1> QED BY <1>1, ExclusiveCorrect, PTL DEF ExclusiveSpec, InvalidatedForGood

\* While no two operations overlap on an account, so that no sign-in begun
\* before a lock is completed after it, a lock in force yields only to an
\* administrator.
THEOREM LocksHold == ExclusiveSpec => LockHolds
<1> DEFINE Holds ==
      \A u \in Users :
        now < users[u].lockedUntil
          /\ users'[u].lockedUntil # users[u].lockedUntil
          => event'.type \in {"USER_PASSWORD_RESET", "USER_ACTIVATED"}
<1>1. ExclusiveInvariant /\ [Next /\ NoOverlap']_vars => [Holds]_vars
  <2> SUFFICES ASSUME ExclusiveInvariant, Next, NEW u \in Users,
                      now < users[u].lockedUntil,
                      users'[u].lockedUntil # users[u].lockedUntil
               PROVE  event'.type \in {"USER_PASSWORD_RESET", "USER_ACTIVATED"}
    OBVIOUS
  <2> USE DEF ExclusiveInvariant
  <2>0. users \in [Users -> Row] /\ now \in Nat /\ users[u].lockedUntil \in Nat
    BY DEF TypeOK, Row
  <2>1. ~LeavesRows
    BY DEF LeavesRows
  <2>2. ASSUME NEW v \in Users, InsertsRow(v) PROVE FALSE
    <3>1. users[v] = NoRow
      BY <2>2 DEF InsertsRow, BlankRows
    <3> QED BY <2>0, <2>2, <3>1, InsertFacts DEF NewRow, NoRow
  <2>3. ASSUME NEW s \in Sessions, NEW row \in Row, CommitsRow(s, row)
        PROVE  event'.type \in {"USER_PASSWORD_RESET", "USER_ACTIVATED"}
    <3>1. /\ op[s].target = u /\ op[s].row = users[u]
          /\ users'[u] = row
      BY <2>0, <2>3, CommitFacts
    <3>2. ~At(s, "login", "writing")
      <4>1. op[s].at \in Nat
        BY PartTypes
      <4> QED BY <2>0, <3>1, <4>1 DEF VerifiedUnlocked
    <3>3. ~AcceptLogin(s) /\ ~CountFailure(s) /\ ~LockAccount(s)
      BY <3>2 DEF AcceptLogin, CountFailure, LockAccount
    <3>4. /\ row # WithRole(users[u], op[s].role)
          /\ row # Deactivated(users[u])
          /\ row # WithOwnPassword(users[u], op[s].password)
      BY <2>0, <3>1 DEF WithRole, Deactivated, WithOwnPassword, Row
    <3>5. Activate(s) \/ ResetPassword(s)
      BY <2>3, <3>1, <3>3, <3>4 DEF CommitsRow
    <3> QED BY <3>5 DEF Activate, ResetPassword, Record
  <2> QED BY <2>1, <2>2, <2>3, StepSorts
<1> QED BY <1>1, ExclusiveCorrect, PTL DEF ExclusiveSpec, LockHolds

(***************************************************************************)
(* The table implements the register.  An operation that has a write       *)
(* pending has found that there is something to write.                     *)
(***************************************************************************)
WriteIsDue(s) ==
  Pending(s) =>
    /\ op[s].kind = "login" => op[s].row.active
    /\ ~ChangesNothing(op[s].kind, op[s].role, op[s].row)
    /\ op[s].kind = "change_own_password" => op[s].password # op[s].row.password

WritesAreDue == \A s \in Sessions : WriteIsDue(s)

RegisterInvariant ==
  /\ ExclusiveInvariant
  /\ WritesAreDue
  /\ now <= MaxClock

LEMMA WritesAreDueNext ==
  ASSUME TypeOK, WritesAreDue, Next
  PROVE  WritesAreDue'
<1> SUFFICES ASSUME NEW t \in Sessions, Pending(t)'
             PROVE  /\ op'[t].kind = "login" => op'[t].row.active
                    /\ ~ChangesNothing(op'[t].kind, op'[t].role, op'[t].row)
                    /\ op'[t].kind = "change_own_password"
                         => op'[t].password # op'[t].row.password
  BY DEF WritesAreDue, WriteIsDue, ChangesNothing
<1> DEFINE Goal == /\ op'[t].kind = "login" => op'[t].row.active
                   /\ ~ChangesNothing(op'[t].kind, op'[t].role, op'[t].row)
                   /\ op'[t].kind = "change_own_password"
                        => op'[t].password # op'[t].row.password
<1>0. op \in [Sessions -> Op] /\ op'[t].step \in {"counting", "writing"}
  BY DEF TypeOK, Pending
<1>1. CASE op'[t] = op[t]
  BY <1>0, <1>1 DEF WritesAreDue, WriteIsDue, Pending
<1>2. ASSUME NEW u \in Users, NEW p \in Passwords, BeginLogin(t, u, p)
      PROVE  Goal
  <2>1. op'[t].kind = "login" /\ op'[t].row = users[u] /\ users[u].active
    BY <1>0, <1>2 DEF BeginLogin
  <2> QED BY <2>1 DEF ChangesNothing
<1>3. ASSUME ReadTarget(t) PROVE Goal
  <2>1. op[t] \in InFlight /\ op[t].kind \in AdminOperations
    BY <1>3, PartTypes DEF ReadTarget, IsIdle
  <2>2. PICK step : op'[t] = [op[t] EXCEPT !.row = users[op[t].target], !.step = step]
    BY <1>0, <1>3 DEF ReadTarget
  <2>3. /\ op'[t].kind = op[t].kind /\ op'[t].role = op[t].role
        /\ op'[t].row = users[op[t].target]
    BY <2>1, <2>2 DEF InFlight
  <2>4. ~ChangesNothing(op[t].kind, op[t].role, users[op[t].target])
    BY <1>3 DEF ReadTarget
  <2> QED BY <2>1, <2>3, <2>4 DEF AdminOperations
<1>4. ASSUME ReadOwnRow(t) PROVE Goal
  <2>1. op[t] \in InFlight /\ op[t].kind = "change_own_password"
    BY <1>4, PartTypes DEF ReadOwnRow, At, IsIdle
  <2>2. op'[t] = [op[t] EXCEPT !.row = users[op[t].target], !.step = "writing"]
    BY <1>0, <1>4 DEF ReadOwnRow
  <2>3. /\ op'[t].kind = op[t].kind /\ op'[t].password = op[t].password
        /\ op'[t].row = users[op[t].target]
    BY <2>1, <2>2 DEF InFlight
  <2>4. op[t].password # users[op[t].target].password
    BY <1>4 DEF ReadOwnRow
  <2> QED BY <2>1, <2>3, <2>4 DEF ChangesNothing
<1>5. ASSUME EnsureAnotherActiveAdmin(t) PROVE Goal
  <2>1. op[t] \in InFlight /\ op[t].step = "counting"
    BY <1>5, PartTypes DEF EnsureAnotherActiveAdmin, IsIdle
  <2>2. op'[t] = [op[t] EXCEPT !.step = "writing"]
    <3>1. op'[t] # Idle
      BY <1>0 DEF Idle
    <3> QED BY <1>0, <1>5, <3>1 DEF EnsureAnotherActiveAdmin, Finish
  <2>3. /\ op'[t].kind = op[t].kind /\ op'[t].password = op[t].password
        /\ op'[t].row = op[t].row /\ op'[t].role = op[t].role
    BY <2>1, <2>2 DEF InFlight
  <2> QED BY <2>1, <2>3 DEF WritesAreDue, WriteIsDue, Pending
<1> QED BY <1>0, <1>1, <1>2, <1>3, <1>4, <1>5, PendingSteps

\* A commit is an act of the register.
LEMMA CommitImplements ==
  ASSUME RegisterInvariant, NEW s \in Sessions, NEW row \in Row, CommitsRow(s, row)
  PROVE  Register!Next
<1> USE DEF RegisterInvariant, ExclusiveInvariant
<1> DEFINE u == op[s].target
<1>1. /\ u \in Users /\ users[u].password # NoPassword
      /\ op[s].row = users[u] /\ Pending(s)
      /\ users' = [users EXCEPT ![u] = row]
  BY CommitFacts DEF Registered
<1>2. /\ users \in [Users -> Row] /\ users[u] \in Row
      /\ Register!Exists(u) /\ users[u] # NoRow
  BY <1>1 DEF TypeOK, Register!Exists, NoRow
<1>3. op[s].step = "writing" /\ WriteIsDue(s)
  BY DEF CommitsRow, WritesAreDue
<1>4. RemovesAdmin(s) => Register!AnotherAdministers(u)
  <2>1. RemovesAdmin(s) => \E v \in ActiveAdmins : v # u
    BY <1>3 DEF AnotherAdminStays
  <2> QED BY <2>1 DEF ActiveAdmins, Register!AnotherAdministers,
                      Register!Administers
<1>5. op[s].password \in Passwords \cup {NoPassword} /\ op[s].role \in Roles
      /\ op[s].at \in Nat
  BY PartTypes
<1>6. CASE AcceptLogin(s) /\ row = Cleared(users[u])
  <2>1. users[u].active
    BY <1>1, <1>3, <1>6 DEF WriteIsDue, AcceptLogin, At
  <2>2. Register!SignIn(u)
    BY <1>1, <1>2, <1>6, <2>1 DEF Register!SignIn, Cleared
  <2> QED BY <1>1, <2>2 DEF Register!Next
<1>7. CASE CountFailure(s) /\ row = Failed(users[u])
  <2>1. users[u].active
    BY <1>1, <1>3, <1>7 DEF WriteIsDue, CountFailure, At
  <2>2. users[u].failed + 1 < MaxFailedAttempts
    BY <1>1, <1>2, <1>7, ConstantsAssumption DEF CountFailure, ReachesLimit, Row
  <2>3. Register!Failure(u)
    BY <1>1, <1>2, <1>7, <2>1, <2>2 DEF Register!Failure, Failed
  <2> QED BY <1>1, <2>3 DEF Register!Next
<1>8. CASE LockAccount(s) /\ row = Locked(users[u], op[s].at)
  <2>1. users[u].active /\ op[s].at <= now
    BY <1>1, <1>3, <1>8 DEF WriteIsDue, VerifiedUnlocked, LockAccount, At
  <2>2. users[u].failed + 1 = MaxFailedAttempts
    <3>1. users[u].failed < MaxFailedAttempts /\ users[u].failed \in Nat
      BY <1>1, <1>2 DEF FailuresCounted, FailuresLock, Row
    <3>2. users[u].failed + 1 >= MaxFailedAttempts
      BY <1>1, <1>8 DEF LockAccount, ReachesLimit
    <3> QED BY <3>1, <3>2, ConstantsAssumption
  <2> DEFINE end == op[s].at + LockoutDuration
  <2>3. end \in LockoutDuration .. (MaxClock + LockoutDuration)
    BY <1>5, <2>1, ConstantsAssumption DEF TypeOK
  <2>4. Register!LastFailure(u, end)
    BY <1>1, <1>2, <1>8, <2>1, <2>2 DEF Register!LastFailure, Locked
  <2> HIDE DEF end
  <2> QED BY <1>1, <2>3, <2>4 DEF Register!Next
<1>9. CASE ChangeRole(s) /\ row = WithRole(users[u], op[s].role)
  <2>1. users[u].role # op[s].role
    BY <1>1, <1>3, <1>9 DEF WriteIsDue, ChangesNothing, ChangeRole, At
  <2>2. Register!Administers(u) => Register!AnotherAdministers(u)
    BY <1>1, <1>4, <1>9 DEF RemovesAdmin, RemovesActiveAdmin, ChangeRole, At,
                            Register!Administers
  <2>3. Register!GiveRole(u, op[s].role)
    BY <1>1, <1>2, <1>9, <2>1, <2>2 DEF Register!GiveRole, WithRole
  <2> QED BY <1>1, <1>5, <2>3 DEF Register!Next
<1>10. CASE Deactivate(s) /\ row = Deactivated(users[u])
  <2>1. users[u].active
    BY <1>1, <1>3, <1>10 DEF WriteIsDue, ChangesNothing, Deactivate, At
  <2>2. Register!Administers(u) => Register!AnotherAdministers(u)
    BY <1>1, <1>4, <1>10 DEF RemovesAdmin, RemovesActiveAdmin, Deactivate, At,
                             Register!Administers
  <2>3. Register!Suspend(u)
    BY <1>1, <1>2, <1>10, <2>1, <2>2 DEF Register!Suspend, Deactivated
  <2> QED BY <1>1, <2>3 DEF Register!Next
<1>11. CASE Activate(s) /\ row = Activated(users[u])
  <2>1. ~users[u].active
    BY <1>1, <1>3, <1>11 DEF WriteIsDue, ChangesNothing, Activate, At
  <2>2. Register!Readmit(u)
    BY <1>1, <1>2, <1>11, <2>1 DEF Register!Readmit, Activated
  <2> QED BY <1>1, <2>2 DEF Register!Next
<1>12. CASE ResetPassword(s) /\ row = WithIssuedPassword(users[u], op[s].password)
  <2>1. op[s].password \in Passwords
    BY <1>12 DEF PasswordsBrought, ResetPassword, At
  <2>2. Register!IssuePassword(u, op[s].password)
    BY <1>1, <1>2, <1>12 DEF Register!IssuePassword, WithIssuedPassword
  <2> QED BY <1>1, <2>1, <2>2 DEF Register!Next
<1>13. CASE ChangeOwnPassword(s) /\ row = WithOwnPassword(users[u], op[s].password)
  <2>1. op[s].password \in Passwords /\ users[u].password # op[s].password
    BY <1>1, <1>3, <1>13 DEF PasswordsBrought, ChangeOwnPassword, At, WriteIsDue
  <2>2. Register!OwnPassword(u, op[s].password)
    BY <1>1, <1>2, <1>13, <2>1 DEF Register!OwnPassword, WithOwnPassword
  <2> QED BY <1>1, <2>1, <2>2 DEF Register!Next
<1> QED BY <1>6, <1>7, <1>8, <1>9, <1>10, <1>11, <1>12, <1>13 DEF CommitsRow

LEMMA StepImplements ==
  ASSUME RegisterInvariant, [Next]_vars
  PROVE  [Register!Next]_users
<1> USE DEF RegisterInvariant, ExclusiveInvariant
<1>1. CASE UNCHANGED vars
  BY <1>1 DEF vars
<1>2. CASE LeavesRows
  BY <1>2 DEF LeavesRows
<1>3. ASSUME NEW s \in Sessions, NEW row \in Row, CommitsRow(s, row)
      PROVE  Register!Next
  BY <1>3, CommitImplements
<1>4. ASSUME NEW u \in Users, InsertsRow(u)
      PROVE  Register!Next
  <2>1. ~Register!Exists(u)
    BY <1>4 DEF InsertsRow, BlankRows, Register!Exists
  <2>2. PICK role \in Roles, password \in Passwords, temporary \in BOOLEAN :
          users' = [users EXCEPT ![u] = NewRow(role, password, temporary)]
    BY <1>4, InsertFacts
  <2>3. Register!Register(u, role, password, temporary)
    BY <2>1, <2>2 DEF Register!Register, NewRow
  <2> QED BY <2>3 DEF Register!Next
<1> QED BY <1>1, <1>2, <1>3, <1>4, StepSorts

\* Without overlaps the users table moves as the register does: from one whole
\* operation to the next, each applied to the row as it is at that moment.
THEOREM TableImplementsRegister == ExclusiveSpec => ImplementsRegister
<1>1. Init => RegisterInvariant /\ Register!Init
  <2> SUFFICES ASSUME Init PROVE RegisterInvariant /\ Register!Init
    OBVIOUS
  <2>1. WritesAreDue /\ now <= MaxClock
    BY ConstantsAssumption DEF Init, WritesAreDue, WriteIsDue, Pending, Idle
  <2>2. Register!Init
    BY DEF Init, Register!Init
  <2> QED BY <2>1, <2>2, ExclusiveInit DEF RegisterInvariant
<1>2. RegisterInvariant /\ [Next /\ NoOverlap']_vars => RegisterInvariant'
  <2> SUFFICES ASSUME RegisterInvariant, [Next /\ NoOverlap']_vars
               PROVE  RegisterInvariant'
    OBVIOUS
  <2>1. ExclusiveInvariant'
    BY ExclusiveNext DEF RegisterInvariant
  <2>2. CASE UNCHANGED vars
    BY <2>1, <2>2 DEF RegisterInvariant, vars, WritesAreDue, WriteIsDue, Pending
  <2>3. CASE Next
    <3>1. WritesAreDue'
      BY <2>3, WritesAreDueNext DEF RegisterInvariant, ExclusiveInvariant
    <3>2. now' = now \/ (now < MaxClock /\ now' = now + 1)
      BY <2>3 DEF Next, SessionStep, BootstrapUser, Tick
    <3>3. now \in Nat /\ MaxClock \in Nat /\ now <= MaxClock
      BY ConstantsAssumption DEF RegisterInvariant, ExclusiveInvariant, TypeOK
    <3>4. now' <= MaxClock
      BY <3>2, <3>3
    <3> QED BY <2>1, <3>1, <3>4 DEF RegisterInvariant
  <2> QED BY <2>2, <2>3
<1>3. RegisterInvariant /\ [Next /\ NoOverlap']_vars => [Register!Next]_users
  BY StepImplements
<1> QED BY <1>1, <1>2, <1>3, PTL DEF ExclusiveSpec, ImplementsRegister, Register!Spec
=============================================================================
