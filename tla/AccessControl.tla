--------------------------- MODULE AccessControl ---------------------------
(***************************************************************************)
(* The role book of OpenZeppelin's AccessControl, which the registry, the  *)
(* fund and each token inherit.  No contract calls _setRoleAdmin, so that  *)
(* DEFAULT_ADMIN_ROLE governs every role, itself included.                 *)
(***************************************************************************)
CONSTANTS
    Users,                  \* the addresses that send transactions
    Roles,                  \* DEFAULT_ADMIN_ROLE among them
    DEFAULT_ADMIN_ROLE

VARIABLE members            \* who holds each role

hasRole(role, account) == account \in members[role]

\* A wrong getRoleAdmin: whoever holds a role may hand it on.
OwnRoleAdmin(role) == role

getRoleAdmin(role) == DEFAULT_ADMIN_ROLE

grantRole(caller, role, account) ==
    /\ hasRole(getRoleAdmin(role), caller)
    /\ members' = [members EXCEPT ![role] = @ \cup {account}]

revokeRole(caller, role, account) ==
    /\ hasRole(getRoleAdmin(role), caller)
    /\ members' = [members EXCEPT ![role] = @ \ {account}]

\* The caller gives up a role of its own, the last one of a role included.
renounceRole(caller, role) ==
    members' = [members EXCEPT ![role] = @ \ {caller}]

=============================================================================
