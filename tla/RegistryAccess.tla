--------------------------- MODULE RegistryAccess ---------------------------
(***************************************************************************)
(* The compliance registry with the people behind its roles: initialize    *)
(* makes the deployer DEFAULT_ADMIN and names one KYC and one AML          *)
(* administrator; from then on roles are granted, revoked and renounced    *)
(* between, and independently of, the updates of the two books.            *)
(***************************************************************************)
EXTENDS ComplianceRegistry

CONSTANTS
    Users,
    DEFAULT_ADMIN_ROLE, KYC_ADMIN, AML_ADMIN,
    deployer,               \* the sender of initialize
    _kycAdmin, _complianceAdmin,
    NoOne,
    MaxRoleChanges          \* bound on grants, revocations and renunciations

Roles == {DEFAULT_ADMIN_ROLE, KYC_ADMIN, AML_ADMIN}

\* initialize does not compare its arguments; src/script/Fund.s.sol passes two
\* addresses, and two people are what TwoPeopleAdmit is about.  The roles are
\* 0x00 and the hashes of their names: no two are the same.
ASSUME AccessAssumption ==
    /\ KYC_ADMIN # AML_ADMIN /\ DEFAULT_ADMIN_ROLE \notin {KYC_ADMIN, AML_ADMIN}
    /\ {deployer, _kycAdmin, _complianceAdmin} \subseteq Users
    /\ _kycAdmin # _complianceAdmin
    /\ NoOne \notin Users
    /\ MaxRoleChanges \in Nat

VARIABLES
    members,
    roleChanges,            \* counts them, for the bound only
    signer,                 \* history: who last wrote each account's records
    appointed               \* history: who got a role from a DEFAULT_ADMIN

accessVars == <<members, roleChanges, signer, appointed>>

INSTANCE AccessControl

Books == {KYC_ADMIN, AML_ADMIN}

AccessInit ==
    /\ Init
    /\ members = [r \in Roles |-> CASE r = DEFAULT_ADMIN_ROLE -> {deployer}
                                    [] r = KYC_ADMIN -> {_kycAdmin}
                                    [] r = AML_ADMIN -> {_complianceAdmin}]
    /\ roleChanges = 0
    /\ signer = [b \in Books |-> [a \in Accounts |-> NoOne]]
    /\ appointed = {}

Signed(book, account, u) ==
    /\ signer' = [signer EXCEPT ![book][account] = u]
    /\ UNCHANGED <<members, roleChanges, appointed>>

\* A wrong guard of the AML functions: the role of the functions they mirror.
MayWriteAlike(u) == hasRole(KYC_ADMIN, u)

MayWriteAml(u) == hasRole(AML_ADMIN, u)

KycCall(u, a) ==
    /\ hasRole(KYC_ADMIN, u)
    /\ \/ \E r \in Records : setKycStatus(a, r) \/ updateKycStatus(a, r)
       \/ clearKycStatus(a)
    /\ Signed(KYC_ADMIN, a, u)

AmlCall(u, a) ==
    /\ MayWriteAml(u)
    /\ \/ \E r \in Records : setAmlStatus(a, r) \/ updateAmlStatus(a, r)
       \/ clearAmlStatus(a)
    /\ Signed(AML_ADMIN, a, u)

Clock == TimePasses /\ UNCHANGED accessVars

\* The history remembers whom a DEFAULT_ADMIN appointed.
RoleGranted(caller, role, u) ==
    /\ grantRole(caller, role, u)
    /\ appointed' = IF hasRole(DEFAULT_ADMIN_ROLE, caller)
                    THEN appointed \cup {u} ELSE appointed

RoleRemoved(caller, role, u) ==
    /\ \/ revokeRole(caller, role, u)
       \/ caller = u /\ renounceRole(u, role)
    /\ UNCHANGED appointed

RoleChange(caller, role, u) ==
    /\ roleChanges < MaxRoleChanges
    /\ roleChanges' = roleChanges + 1
    /\ RoleGranted(caller, role, u) \/ RoleRemoved(caller, role, u)
    /\ UNCHANGED <<vars, signer>>

AccessNext ==
    \/ \E u \in Users, a \in Accounts : KycCall(u, a) \/ AmlCall(u, a)
    \/ \E caller, u \in Users, r \in Roles : RoleChange(caller, r, u)
    \/ Clock

AccessSpec == AccessInit /\ [][AccessNext]_<<vars, accessVars>>

-----------------------------------------------------------------------------
(* Correctness.                                                            *)

\* Nobody admits an account alone, on the strength of the role that
\* initialize gave them: when an account is compliant two people signed its
\* two records, or the one who signed both was given a role by somebody who
\* held DEFAULT_ADMIN at the time.
TwoPeopleAdmit ==
    \A a \in Accounts : IsCompliant(a) =>
        /\ NoOne \notin {signer[b][a] : b \in Books}
        /\ \/ signer[KYC_ADMIN][a] # signer[AML_ADMIN][a]
           \/ signer[KYC_ADMIN][a] \in appointed

=============================================================================
