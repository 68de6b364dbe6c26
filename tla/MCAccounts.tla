----------------------------- MODULE MCAccounts -----------------------------
(***************************************************************************)
(* Values for the constants of the account model.  Sessions are            *)
(* interchangeable, and so are accounts and passwords: no definition       *)
(* singles one out.                                                        *)
(***************************************************************************)
EXTENDS AccountsSafety, TLC

AnyNames ==
  Permutations(Sessions) \cup Permutations(Users) \cup Permutations(Passwords)

\* What the rest of a behaviour depends on.  event is left out: every step
\* writes it, no step reads it, and the properties read only the next one.
ReadState == <<users, principal, op, now, issued, streak>>

\* Which sign-ins count against an account, and what clears them.
SignInOperations == {"login", "deactivate", "activate", "reset_password"}

\* What is done to accounts that there are.
ExistingAccountOperations == AllOperations \ {"create_user"}

\* What overlaps in most ways: sign-ins that lock, new accounts, and the
\* operations that take an administrator away and bring one back.
OverlapOperations == {"login", "create_user", "change_role", "activate", "deactivate"}

\* Administrators who remove one another.
RoleOperations == {"login", "change_role", "deactivate"}
=============================================================================
