------------------------- MODULE ComplianceRegistry -------------------------
(***************************************************************************)
(* The registry of src/compliance/ComplianceRegistry.sol: a KYC and an AML *)
(* book, each kept by its own administrator, whose records expire on their *)
(* own as block.timestamp advances.  An expiry of 0 marks an absent        *)
(* record, whatever its status.                                            *)
(***************************************************************************)
EXTENDS Naturals

CONSTANTS
    Accounts,
    Expiries,       \* expiry times the administrators give
    MaxTime         \* bound on block.timestamp

ASSUME RegistryAssumption ==
    /\ Expiries \subseteq Nat
    /\ MaxTime \in Nat

Statuses == {"NonCompliant", "Compliant"}
Record == [expiryTime : Nat, status : Statuses]

VARIABLES
    kycStatuses,    \* written by the KYC_ADMIN
    amlStatuses,    \* written by the AML_ADMIN
    now             \* block.timestamp

vars == <<kycStatuses, amlStatuses, now>>

Absent == [expiryTime |-> 0, status |-> "NonCompliant"]

TypeOK ==
    /\ kycStatuses \in [Accounts -> Record]
    /\ amlStatuses \in [Accounts -> Record]
    /\ now \in 1..(MaxTime + 1)

Init ==
    /\ kycStatuses = [a \in Accounts |-> Absent]
    /\ amlStatuses = [a \in Accounts |-> Absent]
    /\ now = 1

\* A wrong IsKycCompliant: the expiry is tested the other way round.
IsKycCompliantOnceExpired(a) ==
    /\ kycStatuses[a].status = "Compliant"
    /\ now >= kycStatuses[a].expiryTime

IsKycCompliant(a) ==
    /\ kycStatuses[a].status = "Compliant"
    /\ now < kycStatuses[a].expiryTime

IsAmlCompliant(a) ==
    /\ amlStatuses[a].status = "Compliant"
    /\ now < amlStatuses[a].expiryTime

IsCompliant(a) == IsKycCompliant(a) /\ IsAmlCompliant(a)

setKycStatus(a, r) ==
    /\ kycStatuses[a].expiryTime = 0
    /\ kycStatuses' = [kycStatuses EXCEPT ![a] = r]
    /\ UNCHANGED <<amlStatuses, now>>

updateKycStatus(a, r) ==
    /\ kycStatuses[a].expiryTime # 0
    /\ kycStatuses' = [kycStatuses EXCEPT ![a] = r]
    /\ UNCHANGED <<amlStatuses, now>>

clearKycStatus(a) ==
    /\ kycStatuses' = [kycStatuses EXCEPT ![a] = Absent]
    /\ UNCHANGED <<amlStatuses, now>>

setAmlStatus(a, r) ==
    /\ amlStatuses[a].expiryTime = 0
    /\ amlStatuses' = [amlStatuses EXCEPT ![a] = r]
    /\ UNCHANGED <<kycStatuses, now>>

updateAmlStatus(a, r) ==
    /\ amlStatuses[a].expiryTime # 0
    /\ amlStatuses' = [amlStatuses EXCEPT ![a] = r]
    /\ UNCHANGED <<kycStatuses, now>>

clearAmlStatus(a) ==
    /\ amlStatuses' = [amlStatuses EXCEPT ![a] = Absent]
    /\ UNCHANGED <<kycStatuses, now>>

TimePasses ==
    /\ now <= MaxTime
    /\ now' = now + 1
    /\ UNCHANGED <<kycStatuses, amlStatuses>>

Records == [expiryTime : Expiries, status : Statuses]

Next ==
    \/ \E a \in Accounts, r \in Records : setKycStatus(a, r)
    \/ \E a \in Accounts, r \in Records : updateKycStatus(a, r)
    \/ \E a \in Accounts : clearKycStatus(a)
    \/ \E a \in Accounts, r \in Records : setAmlStatus(a, r)
    \/ \E a \in Accounts, r \in Records : updateAmlStatus(a, r)
    \/ \E a \in Accounts : clearAmlStatus(a)
    \/ TimePasses

Spec == Init /\ [][Next]_vars

-----------------------------------------------------------------------------
(* Correctness.                                                            *)

CompliantAccounts == {a \in Accounts : IsCompliant(a)}

Registry == INSTANCE Compliance WITH compliant <- CompliantAccounts

\* To its callers the registry is a set of accounts: a transaction changes the
\* answer for one account at most, and time passing never admits one, although
\* two books and a clock decide each answer.
RefinesCompliance == Registry!Spec

=============================================================================
