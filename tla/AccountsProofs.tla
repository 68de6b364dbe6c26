--------------------------- MODULE AccountsProofs ---------------------------
(***************************************************************************)
(* Proofs about the account model.                                         *)
(***************************************************************************)
EXTENDS AccountsSafety, FiniteSetTheorems, TLAPS

(***************************************************************************)
(* Rows and flushes.                                                       *)
(***************************************************************************)

\* A flush of typed rows leaves a typed row.
LEMMA MergeType ==
  ASSUME NEW read \in Row, NEW edited \in Row, NEW current \in Row
  PROVE  Merge(read, edited, current) \in Row
BY DEF Merge, Column, Row

LEMMA MergeHashType ==
  ASSUME NEW read \in Row, NEW edited \in Row, NEW current \in Row
  PROVE  MergeHash(read, edited, current) \in Row
BY MergeType DEF MergeHash, Row

\* Flushing a row over the very row that was read leaves the edited row.
LEMMA MergeUnchanged ==
  ASSUME NEW read \in Row, NEW edited \in Row
  PROVE  Merge(read, edited, read) = edited
<1>1. Merge(read, edited, read) = [role |-> edited.role,
        active |-> edited.active, mustChange |-> edited.mustChange,
        failed |-> edited.failed, lockedUntil |-> edited.lockedUntil,
        version |-> edited.version, password |-> edited.password]
  BY DEF Merge, Column
<1> QED BY <1>1 DEF Row

\* The rows that stand for a new account and for none are rows.
LEMMA RowConstants ==
  /\ NoRow \in Row
  /\ \A role \in Roles, password \in Passwords \cup {NoPassword},
        m \in BOOLEAN : NewRow(role, password, m) \in Row
BY DEF NoRow, NewRow, Row, Roles

\* An edited row is a row.
LEMMA EditType ==
  ASSUME NEW row \in Row, NEW role \in Roles, NEW time \in Nat,
         NEW password \in Passwords \cup {NoPassword}
  PROVE  /\ Cleared(row) \in Row /\ Failed(row) \in Row
         /\ Locked(row, time) \in Row /\ WithRole(row, role) \in Row
         /\ Deactivated(row) \in Row /\ Activated(row) \in Row
         /\ WithIssuedPassword(row, password) \in Row
         /\ WithOwnPassword(row, password) \in Row
<1>1. time + LockoutDuration \in Nat /\ row.failed + 1 \in Nat
      /\ row.version + 1 \in Nat
  BY ConstantsAssumption DEF Row
<1> QED BY <1>1 DEF Cleared, Failed, Locked, WithRole, Deactivated, Activated,
                   WithIssuedPassword, WithOwnPassword, Row

\* What an administrator asks for consists of a role and a password.
LEMMA RequestType ==
  ASSUME NEW r \in Requests
  PROVE  /\ r.kind \in AdminOperations
         /\ r.role \in Roles
         /\ r.password \in Passwords \cup {NoPassword}
BY ConstantsAssumption DEF Requests, AdminOperations, Roles

LEMMA IdleType == Idle \in Op
BY DEF Op

\* The table stays typed when an operation flushes a typed row.
LEMMA FlushType ==
  ASSUME TypeOK, NEW s \in Sessions, NEW edited \in Row,
         Flush(s, edited) \/ FlushHash(s, edited)
  PROVE  users' \in [Users -> Row]
<1>1. op[s].row \in Row
  BY RowConstants DEF TypeOK, Op, InFlight, Idle
<1>2. \A current \in Row : /\ Merge(op[s].row, edited, current) \in Row
                          /\ MergeHash(op[s].row, edited, current) \in Row
  BY <1>1, MergeType, MergeHashType
<1> QED BY <1>2 DEF TypeOK, Flush, FlushHash

LEMMA FinishType ==
  ASSUME TypeOK, NEW s \in Sessions, Finish(s)
  PROVE  op' \in [Sessions -> Op]
BY IdleType DEF TypeOK, Finish

\* The parts of an operation in flight and of a principal.
LEMMA PartTypes ==
  ASSUME TypeOK, NEW s \in Sessions
  PROVE  /\ op[s] \in Op /\ op[s].row \in Row /\ op[s].at \in Nat
         /\ op[s].role \in Roles
         /\ op[s].password \in Passwords \cup {NoPassword}
         /\ op[s].target \in Users \cup {NoUser}
         /\ op[s].row.version \in Nat
         /\ principal[s] \in Principal
         /\ principal[s].user \in Users \cup {NoUser}
         /\ now \in Nat
         /\ ~IsIdle(s) => op[s] \in InFlight
<1>1. op[s] \in Op
  BY DEF TypeOK
<1>2. CASE op[s] = Idle
  BY <1>2, RowConstants
     DEF TypeOK, Idle, Op, IsIdle, Roles, Row, Principal
<1>3. CASE op[s] \in InFlight
  BY <1>3 DEF TypeOK, Op, InFlight, Row, Principal
<1> QED BY <1>1, <1>2, <1>3 DEF Op

\* An operation in flight moves to its next step.
LEMMA StepType ==
  ASSUME TypeOK, NEW s \in Sessions, ~IsIdle(s), NEW step \in OpSteps,
         op' = [op EXCEPT ![s].step = step]
  PROVE  op' \in [Sessions -> Op]
<1>1. [op[s] EXCEPT !.step = step] \in InFlight
  BY PartTypes DEF InFlight
<1> QED BY <1>1 DEF TypeOK, Op

\* An operation in flight reads its account's row.
LEMMA ReadType ==
  ASSUME TypeOK, NEW s \in Sessions, ~IsIdle(s), NEW step \in OpSteps,
         op' = [op EXCEPT ![s].row = users[op[s].target], ![s].step = step]
  PROVE  op' \in [Sessions -> Op]
<1>1. op[s] \in InFlight
  BY PartTypes
<1>2. users[op[s].target] \in Row
  BY <1>1 DEF TypeOK, InFlight
<1>3. [op[s] EXCEPT !.row = users[op[s].target], !.step = step] \in InFlight
  BY <1>1, <1>2 DEF InFlight
<1> QED BY <1>3 DEF TypeOK, Op

\* What is recorded is an audit row.
LEMMA RecordType ==
  ASSUME NEW type \in EventTypes, NEW actor \in Users \cup {NoUser},
         NEW target \in Users \cup {NoUser}, Record(type, actor, target)
  PROVE  event' \in AuditRow
BY DEF Record, AuditRow

LEMMA UnauditedType == Unaudited => event' \in AuditRow
BY DEF Unaudited, NoEvent, AuditRow, EventTypes

(***************************************************************************)
(* Type correctness.                                                       *)
(***************************************************************************)
LEMMA TypeInit == Init => TypeOK
<1> SUFFICES ASSUME Init PROVE TypeOK
  OBVIOUS
<1>1. NoPrincipal \in Principal
  BY DEF NoPrincipal, Principal
<1>2. NoEvent \in AuditRow
  BY DEF NoEvent, AuditRow, EventTypes
<1> QED BY <1>1, <1>2, RowConstants, IdleType DEF Init, TypeOK

LEMMA TypeSignIn ==
  ASSUME TypeOK, NEW s \in Sessions, SignInStep(s), UNCHANGED now
  PROVE  TypeOK'
<1> USE DEF History
<1>0. /\ op[s].row \in Row /\ op[s].at \in Nat
      /\ op[s].row.version \in Nat
      /\ op[s].password \in Passwords \cup {NoPassword}
      /\ op[s].target \in Users \cup {NoUser}
      /\ principal[s].user \in Users \cup {NoUser}
      /\ now \in Nat
  BY PartTypes
<1>a. /\ Cleared(op[s].row) \in Row /\ Failed(op[s].row) \in Row
      /\ Locked(op[s].row, op[s].at) \in Row
  BY <1>0, EditType, RowConstants DEF Roles
<1>b. {"USER_LOGIN", "USER_LOGIN_FAILED", "USER_LOCKED_OUT", "USER_LOGOUT",
       "SESSION_EXPIRED", "SESSION_INVALIDATED"} \subseteq EventTypes
  BY DEF EventTypes
<1>1. ASSUME NEW u \in Users, RefuseLogin(s, u) PROVE TypeOK'
  <2>1. event' \in AuditRow
    BY <1>1, <1>b, RecordType DEF RefuseLogin
  <2> QED BY <1>1, <2>1 DEF TypeOK, RefuseLogin
<1>2. ASSUME NEW u \in Users, NEW p \in Passwords, BeginLogin(s, u, p)
      PROVE  TypeOK'
  <2>1. [kind |-> "login", step |-> "writing", target |-> u,
         role |-> "EMPLOYEE", password |-> p, at |-> now, row |-> users[u]]
          \in Op
    BY DEF TypeOK, Op, InFlight, OpSteps, AllOperations, Roles
  <2> QED BY <1>2, <2>1, UnauditedType DEF TypeOK, BeginLogin
<1>3. CASE AcceptLogin(s)
  <2>2. users' \in [Users -> Row]
    BY <1>3, <1>a, FlushType DEF AcceptLogin
  <2>3. op' \in [Sessions -> Op]
    BY <1>3, FinishType DEF AcceptLogin
  <2>4. principal' \in [Sessions -> Principal]
    BY <1>0, <1>3 DEF AcceptLogin, TypeOK, Principal
  <2>5. event' \in AuditRow
    BY <1>0, <1>3, <1>b, RecordType DEF AcceptLogin
  <2> QED BY <1>3, <2>2, <2>3, <2>4, <2>5 DEF AcceptLogin, TypeOK
<1>4. CASE CountFailure(s)
  <2>2. users' \in [Users -> Row]
    BY <1>4, <1>a, FlushType DEF CountFailure
  <2>3. op' \in [Sessions -> Op]
    BY <1>4, FinishType DEF CountFailure
  <2>4. streak' \in [Users -> Nat]
    <3>1. streak' = [streak EXCEPT ![op[s].target] = streak[op[s].target] + 1]
      BY <1>4 DEF CountFailure
    <3>2. \A u \in Users : streak[u] + 1 \in Nat
      BY DEF TypeOK
    <3> QED BY <3>1, <3>2 DEF TypeOK
  <2>5. event' \in AuditRow
    BY <1>0, <1>4, <1>b, RecordType DEF CountFailure
  <2> QED BY <1>4, <2>2, <2>3, <2>4, <2>5 DEF CountFailure, TypeOK
<1>5. CASE LockAccount(s)
  <2>2. users' \in [Users -> Row]
    BY <1>5, <1>a, FlushType DEF LockAccount
  <2>3. op' \in [Sessions -> Op]
    BY <1>5, StepType DEF LockAccount, At, IsIdle, OpSteps
  <2>5. event' \in AuditRow
    BY <1>0, <1>5, <1>b, RecordType DEF LockAccount
  <2> QED BY <1>5, <2>2, <2>3, <2>5 DEF LockAccount, TypeOK
<1>6. CASE RefuseAfterLock(s)
  <2>1. event' \in AuditRow
    BY <1>0, <1>6, <1>b, RecordType DEF RefuseAfterLock
  <2> QED BY <1>6, <2>1, FinishType DEF RefuseAfterLock, TypeOK
<1>7. CASE SignOut(s)
  <2>1. event' \in AuditRow
    BY <1>0, <1>7, <1>b, RecordType DEF SignOut
  <2> QED BY <1>7, <2>1 DEF SignOut, TypeOK, NoPrincipal, Principal
<1>8. CASE Refresh(s)
  BY <1>0, <1>8, UnauditedType DEF Refresh, TypeOK, Principal
<1>9. CASE EndSession(s)
  <2>1. event' \in AuditRow
    BY <1>0, <1>9, <1>b, RecordType DEF EndSession
  <2> QED BY <1>9, <2>1 DEF EndSession, TypeOK, NoPrincipal, Principal
<1> QED BY <1>1, <1>2, <1>3, <1>4, <1>5, <1>6, <1>7, <1>8, <1>9
        DEF SignInStep
LEMMA TypeAdministration ==
  ASSUME TypeOK, NEW s \in Sessions, AdministrationStep(s), UNCHANGED now
  PROVE  TypeOK'
<1> USE DEF History
<1>0. /\ op[s].row \in Row /\ op[s].role \in Roles
      /\ op[s].password \in Passwords \cup {NoPassword}
      /\ op[s].target \in Users \cup {NoUser}
      /\ principal[s].user \in Users \cup {NoUser}
  BY PartTypes
<1>a. /\ WithRole(op[s].row, op[s].role) \in Row
      /\ Deactivated(op[s].row) \in Row /\ Activated(op[s].row) \in Row
      /\ WithIssuedPassword(op[s].row, op[s].password) \in Row
  BY <1>0, EditType
<1>b. {"ACCESS_DENIED", "USER_CREATED", "USER_ROLE_CHANGED", "USER_ACTIVATED",
       "USER_DEACTIVATED", "USER_PASSWORD_RESET"} \subseteq EventTypes
  BY DEF EventTypes
<1>c. 0 \in Nat
  OBVIOUS
<1>1. CASE DenyAdministration(s)
  <2>1. event' \in AuditRow
    BY <1>0, <1>1, <1>b, RecordType DEF DenyAdministration
  <2> QED BY <1>1, <2>1 DEF DenyAdministration, TypeOK
<1>2. ASSUME NEW u \in Users, NEW r \in Requests, Authorize(s, u, r)
      PROVE  TypeOK'
  <2>1. [kind |-> r.kind, step |-> "authorized", target |-> u,
         role |-> r.role, password |-> r.password, at |-> 0, row |-> NoRow]
          \in Op
    BY RequestType, RowConstants DEF Op, InFlight, OpSteps, AllOperations
  <2> QED BY <1>2, <2>1, UnauditedType DEF TypeOK, Authorize
<1>3. CASE CreateUser(s)
  <2>1. NewRow(op[s].role, op[s].password, TRUE) \in Row
    BY <1>0, RowConstants
  <2>2. event' \in AuditRow
    BY <1>0, <1>3, <1>b, RecordType DEF CreateUser
  <2> QED BY <1>3, <2>1, <2>2, FinishType DEF CreateUser, TypeOK
<1>4. CASE GiveUp(s)
  BY <1>4, FinishType, UnauditedType DEF GiveUp, TypeOK
<1>5. CASE ReadTarget(s)
  <2>1. op' \in [Sessions -> Op]
    <3>1. CASE RemovesActiveAdmin(op[s].kind, users[op[s].target])
      BY <1>5, <3>1, ReadType DEF ReadTarget, IsIdle, OpSteps
    <3>2. CASE ~RemovesActiveAdmin(op[s].kind, users[op[s].target])
      BY <1>5, <3>2, ReadType DEF ReadTarget, IsIdle, OpSteps
    <3> QED BY <3>1, <3>2
  <2> QED BY <1>5, <2>1, UnauditedType DEF ReadTarget, TypeOK
<1>6. CASE EnsureAnotherActiveAdmin(s)
  <2>1. op' \in [Sessions -> Op]
    BY <1>6, StepType, FinishType
       DEF EnsureAnotherActiveAdmin, IsIdle, OpSteps
  <2> QED BY <1>6, <2>1, UnauditedType DEF EnsureAnotherActiveAdmin, TypeOK
<1>7. CASE ChangeRole(s)
  <2>1. event' \in AuditRow
    BY <1>0, <1>7, <1>b, RecordType DEF ChangeRole
  <2> QED BY <1>7, <1>a, <2>1, FlushType, FinishType DEF ChangeRole, TypeOK
<1>8. CASE Deactivate(s)
  <2>1. event' \in AuditRow
    BY <1>0, <1>8, <1>b, RecordType DEF Deactivate
  <2> QED BY <1>8, <1>a, <2>1, FlushType, FinishType DEF Deactivate, TypeOK
<1>9. CASE Activate(s)
  <2>1. event' \in AuditRow
    BY <1>0, <1>9, <1>b, RecordType DEF Activate
  <2> QED BY <1>9, <1>a, <1>c, <2>1, FlushType, FinishType
          DEF Activate, TypeOK
<1>10. CASE ResetPassword(s)
  <2>1. event' \in AuditRow
    BY <1>0, <1>10, <1>b, RecordType DEF ResetPassword
  <2> QED BY <1>10, <1>a, <1>c, <2>1, FlushType, FinishType
          DEF ResetPassword, TypeOK
<1> QED BY <1>1, <1>2, <1>3, <1>4, <1>5, <1>6, <1>7, <1>8, <1>9, <1>10
        DEF AdministrationStep

LEMMA TypeOwnPassword ==
  ASSUME TypeOK, NEW s \in Sessions, OwnPasswordStep(s), UNCHANGED now
  PROVE  TypeOK'
<1> USE DEF History
<1>0. /\ op[s].row \in Row /\ op[s].row.version + 1 \in Nat
      /\ op[s].password \in Passwords \cup {NoPassword}
      /\ op[s].target \in Users \cup {NoUser}
      /\ principal[s].user \in Users \cup {NoUser} /\ now \in Nat
  BY PartTypes
<1>1. ASSUME NEW p \in Passwords, BeginOwnPassword(s, p) PROVE TypeOK'
  <2>1. [kind |-> "change_own_password", step |-> "authorized",
         target |-> principal[s].user, role |-> "EMPLOYEE", password |-> p,
         at |-> 0, row |-> NoRow] \in Op
    BY <1>0, <1>1, RowConstants
       DEF BeginOwnPassword, SignedIn, Op, InFlight, OpSteps, AllOperations,
           Roles
  <2> QED BY <1>1, <2>1, UnauditedType DEF BeginOwnPassword, TypeOK
<1>2. CASE RefuseOwnPassword(s)
  BY <1>2, FinishType, UnauditedType DEF RefuseOwnPassword, TypeOK
<1>3. CASE ReadOwnRow(s)
  <2>1. op' \in [Sessions -> Op]
    BY <1>3, ReadType DEF ReadOwnRow, At, IsIdle, OpSteps
  <2> QED BY <1>3, <2>1, UnauditedType DEF ReadOwnRow, TypeOK
<1>4. CASE ChangeOwnPassword(s)
  <2>1. WithOwnPassword(op[s].row, op[s].password) \in Row
    BY <1>0, EditType, RowConstants DEF Roles
  <2>2. users' \in [Users -> Row]
    BY <1>4, <2>1, FlushType DEF ChangeOwnPassword
  <2>3. principal' \in [Sessions -> Principal]
    BY <1>0, <1>4 DEF ChangeOwnPassword, TypeOK, Principal
  <2>4. event' \in AuditRow
    <3>1. "PASSWORD_CHANGED" \in EventTypes
      BY DEF EventTypes
    <3> QED BY <1>0, <1>4, <3>1, RecordType DEF ChangeOwnPassword
  <2> QED BY <1>4, <2>2, <2>3, <2>4, FinishType DEF ChangeOwnPassword, TypeOK
<1> QED BY <1>1, <1>2, <1>3, <1>4 DEF OwnPasswordStep

LEMMA TypeSurroundings ==
  ASSUME TypeOK
  PROVE  /\ \A u \in Users, r \in AssignableRoles, p \in Passwords :
              BootstrapUser(u, r, p) => TypeOK'
         /\ \A s \in Sessions :
              (RollBack(s) \/ LoseSession(s)) /\ UNCHANGED now => TypeOK'
         /\ Tick => TypeOK'
         /\ UNCHANGED vars => TypeOK'
<1> USE DEF History
<1>1. ASSUME NEW u \in Users, NEW r \in AssignableRoles, NEW p \in Passwords,
             BootstrapUser(u, r, p)
      PROVE  TypeOK'
  <2>1. NewRow(r, p, FALSE) \in Row
    BY RowConstants, ConstantsAssumption
  <2>2. event' \in AuditRow
    BY <1>1, RecordType DEF BootstrapUser, EventTypes
  <2> QED BY <1>1, <2>1, <2>2 DEF BootstrapUser, TypeOK
<1>2. ASSUME NEW s \in Sessions, RollBack(s), UNCHANGED now PROVE TypeOK'
  BY <1>2, FinishType, UnauditedType DEF RollBack, TypeOK
<1>3. ASSUME NEW s \in Sessions, LoseSession(s), UNCHANGED now PROVE TypeOK'
  BY <1>3, FinishType, UnauditedType
     DEF LoseSession, TypeOK, NoPrincipal, Principal
<1>4. Tick => TypeOK'
  BY UnauditedType DEF Tick, TypeOK
<1>5. UNCHANGED vars => TypeOK'
  BY DEF vars, TypeOK
<1> QED BY <1>1, <1>2, <1>3, <1>4, <1>5

LEMMA TypeNext == TypeOK /\ [Next]_vars => TypeOK'
BY TypeSignIn, TypeAdministration, TypeOwnPassword, TypeSurroundings
   DEF Next, SessionStep

\* The tables, sessions and operations keep their types in every behaviour,
\* whatever operations overlap.
THEOREM TypeCorrect == Spec => []TypeOK
BY TypeInit, TypeNext, PTL DEF Spec
=============================================================================
