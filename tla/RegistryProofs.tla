--------------------------- MODULE RegistryProofs ---------------------------
(***************************************************************************)
(* The compliance registry, for any accounts, people and expiry times: it  *)
(* implements the set of accounts the fund relies on, and nobody admits an *)
(* account alone on the strength of the role that initialize gave them.    *)
(***************************************************************************)
EXTENDS RegistryAccess, TLAPS

-----------------------------------------------------------------------------
(* The two books.                                                          *)

LEMMA AbsentRecord == Absent \in Record
  BY DEF Absent, Record, Statuses

LEMMA RecordsAreRecords == Records \subseteq Record
  BY RegistryAssumption DEF Records, Record

LEMMA RegistryInit == Init => TypeOK
  BY AbsentRecord, RegistryAssumption DEF Init, TypeOK

\* What a call that writes one account's record in one of the books does.
WritesKyc(a) ==
    /\ \E r \in Record : kycStatuses' = [kycStatuses EXCEPT ![a] = r]
    /\ UNCHANGED <<amlStatuses, now>>

WritesAml(a) ==
    /\ \E r \in Record : amlStatuses' = [amlStatuses EXCEPT ![a] = r]
    /\ UNCHANGED <<kycStatuses, now>>

\* Every step writes one record, lets time pass or changes nothing.
LEMMA RegistryKinds ==
    ASSUME [Next]_vars
    PROVE  \/ \E a \in Accounts : WritesKyc(a) \/ WritesAml(a)
           \/ TimePasses
           \/ UNCHANGED vars
  <1>1. CASE \E a \in Accounts, r \in Records : setKycStatus(a, r) \/ updateKycStatus(a, r)
    BY <1>1, RecordsAreRecords DEF setKycStatus, updateKycStatus, WritesKyc
  <1>2. CASE \E a \in Accounts : clearKycStatus(a)
    BY <1>2, AbsentRecord DEF clearKycStatus, WritesKyc
  <1>3. CASE \E a \in Accounts, r \in Records : setAmlStatus(a, r) \/ updateAmlStatus(a, r)
    BY <1>3, RecordsAreRecords DEF setAmlStatus, updateAmlStatus, WritesAml
  <1>4. CASE \E a \in Accounts : clearAmlStatus(a)
    BY <1>4, AbsentRecord DEF clearAmlStatus, WritesAml
  <1> QED BY <1>1, <1>2, <1>3, <1>4 DEF Next

LEMMA RegistryStep == TypeOK /\ [Next]_vars => TypeOK'
  <1> SUFFICES ASSUME TypeOK, [Next]_vars PROVE TypeOK'
    OBVIOUS
  <1>1. CASE \E a \in Accounts : WritesKyc(a) \/ WritesAml(a)
    BY <1>1 DEF WritesKyc, WritesAml, TypeOK
  <1>2. CASE TimePasses
    BY <1>2, RegistryAssumption DEF TimePasses, TypeOK
  <1>3. CASE UNCHANGED vars
    BY <1>3 DEF vars, TypeOK
  <1> QED BY <1>1, <1>2, <1>3, RegistryKinds

\* The records are well typed, whatever the administrators do.
THEOREM RegistryTypeCorrect == Spec => []TypeOK
  BY RegistryInit, RegistryStep, PTL DEF Spec

-----------------------------------------------------------------------------
(* The registry is a set of accounts.                                      *)

\* Writing one record changes the answer for one account at most.
LEMMA OneAnswer ==
    ASSUME TypeOK, NEW a \in Accounts, WritesKyc(a) \/ WritesAml(a)
    PROVE  Registry!Next
  <1>0. now' = now
    BY DEF WritesKyc, WritesAml
  <1>1. ASSUME NEW b \in Accounts, b # a
        PROVE  IsCompliant(b)' = IsCompliant(b)
    <2>1. /\ kycStatuses'[b] = kycStatuses[b] /\ amlStatuses'[b] = amlStatuses[b]
          /\ now' = now
      BY <1>1 DEF TypeOK, WritesKyc, WritesAml
    <2> QED BY <2>1 DEF IsCompliant, IsKycCompliant, IsAmlCompliant
  <1>2. CASE IsCompliant(a)'
    <2>1. CompliantAccounts' = CompliantAccounts \cup {a}
      BY <1>1, <1>2, Zenon DEF CompliantAccounts
    <2> QED BY <1>0, <2>1 DEF Registry!Next, Registry!Admit
  <1>3. CASE ~ IsCompliant(a)'
    <2>1. CompliantAccounts' = CompliantAccounts \ {a}
      BY <1>1, <1>3, Zenon DEF CompliantAccounts
    <2> QED BY <1>0, <2>1 DEF Registry!Next, Registry!Withdraw
  <1> QED BY <1>2, <1>3

\* Time admits nobody.
LEMMA TimeLapses ==
    ASSUME TypeOK, TimePasses
    PROVE  Registry!Next
  <1>1. ASSUME NEW b \in Accounts, IsCompliant(b)'
        PROVE  IsCompliant(b)
    <2>1. /\ kycStatuses' = kycStatuses /\ amlStatuses' = amlStatuses /\ now' = now + 1
          /\ now \in Nat
      BY RegistryAssumption DEF TimePasses, TypeOK
    <2>2. kycStatuses[b].expiryTime \in Nat /\ amlStatuses[b].expiryTime \in Nat
      BY DEF TypeOK, Record
    <2> QED BY <1>1, <2>1, <2>2 DEF IsCompliant, IsKycCompliant, IsAmlCompliant
  <1> DEFINE S == CompliantAccounts \ CompliantAccounts'
  <1>2. CompliantAccounts' \subseteq CompliantAccounts
    BY <1>1 DEF CompliantAccounts
  <1>3. S \in SUBSET Accounts
    BY DEF CompliantAccounts
  <1>4. CompliantAccounts' = CompliantAccounts \ S
    BY <1>2
  <1>5. now' > now
    BY RegistryAssumption DEF TimePasses, TypeOK
  <1> QED BY <1>3, <1>4, <1>5 DEF Registry!Next, Registry!Expire

\* The registry implements Compliance: each transaction admits or withdraws
\* one account at most, and the clock only withdraws.
THEOREM RegistryIsASet == Spec => RefinesCompliance
  <1>1. Init => Registry!Init
    BY RegistryAssumption DEF Init, Registry!Init, CompliantAccounts, IsCompliant, IsKycCompliant, Absent
  <1>2. TypeOK /\ [Next]_vars => [Registry!Next]_<<CompliantAccounts, now>>
    <2> SUFFICES ASSUME TypeOK, [Next]_vars PROVE [Registry!Next]_<<CompliantAccounts, now>>
      OBVIOUS
    <2>1. CASE UNCHANGED vars
      BY <2>1 DEF vars, CompliantAccounts, IsCompliant, IsKycCompliant, IsAmlCompliant
    <2> QED BY <2>1, RegistryKinds, OneAnswer, TimeLapses
  <1> QED BY <1>1, <1>2, RegistryTypeCorrect, PTL DEF Spec, RefinesCompliance, Registry!Spec

-----------------------------------------------------------------------------
(* The people behind the roles.                                            *)

AccessVars == <<vars, accessVars>>

AccessTypeOK ==
    /\ TypeOK
    /\ members \in [Roles -> SUBSET Users]
    /\ signer \in [Books -> [Accounts -> Users \cup {NoOne}]]
    /\ appointed \in SUBSET Users

\* The administrator that initialize named for a book.
Named(book) == IF book = KYC_ADMIN THEN _kycAdmin ELSE _complianceAdmin

\* Whoever may write in a book was named for it, or appointed later.
HoldersNamed == \A b \in Books : members[b] \subseteq {Named(b)} \cup appointed

\* So was whoever signed a record, even if the role has been lost since.
SignersNamed ==
    \A b \in Books, a \in Accounts : signer[b][a] \in {NoOne, Named(b)} \cup appointed

\* No record vouches for an account without a signature.
RecordsSigned ==
    \A a \in Accounts :
        /\ kycStatuses[a].status = "Compliant" => signer[KYC_ADMIN][a] # NoOne
        /\ amlStatuses[a].status = "Compliant" => signer[AML_ADMIN][a] # NoOne

AccessInv == AccessTypeOK /\ HoldersNamed /\ SignersNamed /\ RecordsSigned

LEMMA AccessInvInit == AccessInit => AccessInv
  <1> SUFFICES ASSUME AccessInit PROVE AccessInv
    OBVIOUS
  <1>1. TypeOK
    BY RegistryInit DEF AccessInit
  <1>2. /\ members = [r \in Roles |-> CASE r = DEFAULT_ADMIN_ROLE -> {deployer}
                                        [] r = KYC_ADMIN -> {_kycAdmin}
                                        [] r = AML_ADMIN -> {_complianceAdmin}]
        /\ signer = [b \in Books |-> [a \in Accounts |-> NoOne]]
        /\ appointed = {}
    BY DEF AccessInit
  <1>3. \A r \in Roles : members[r] \in SUBSET Users
    BY <1>2, AccessAssumption DEF Roles
  <1>4. AccessTypeOK
    BY <1>1, <1>2, <1>3 DEF AccessTypeOK
  <1>5. HoldersNamed
    BY <1>2, AccessAssumption DEF HoldersNamed, Books, Roles, Named
  <1>6. SignersNamed
    BY <1>2 DEF SignersNamed
  <1>7. RecordsSigned
    BY DEF AccessInit, Init, Absent, RecordsSigned
  <1> QED BY <1>4, <1>5, <1>6, <1>7 DEF AccessInv

\* A call of the KYC_ADMIN is a call to the registry, and signed.
LEMMA KycCallKept ==
    ASSUME AccessInv, NEW u \in Users, NEW a \in Accounts, KycCall(u, a)
    PROVE  AccessInv' /\ WritesKyc(a)
  <1>1. WritesKyc(a)
    BY RecordsAreRecords, AbsentRecord
       DEF KycCall, setKycStatus, updateKycStatus, clearKycStatus, WritesKyc
  <1>2. /\ u \in members[KYC_ADMIN]
        /\ signer' = [signer EXCEPT ![KYC_ADMIN][a] = u]
        /\ members' = members /\ appointed' = appointed
    BY DEF KycCall, Signed, hasRole
  <1>3. TypeOK'
    BY <1>1 DEF AccessInv, AccessTypeOK, TypeOK, WritesKyc
  <1>4. KYC_ADMIN \in Books /\ AML_ADMIN \in Books /\ KYC_ADMIN # AML_ADMIN /\ NoOne \notin Users
    BY AccessAssumption DEF Books
  <1>5. AccessTypeOK'
    BY <1>2, <1>3, <1>4 DEF AccessInv, AccessTypeOK
  <1>6. HoldersNamed'
    BY <1>2 DEF AccessInv, HoldersNamed
  <1>7. SignersNamed'
    BY <1>2, <1>4 DEF AccessInv, AccessTypeOK, HoldersNamed, SignersNamed
  <1>8. RecordsSigned'
    BY <1>1, <1>2, <1>4 DEF AccessInv, AccessTypeOK, TypeOK, RecordsSigned, WritesKyc
  <1> QED BY <1>1, <1>5, <1>6, <1>7, <1>8 DEF AccessInv

\* The same of the AML_ADMIN.
LEMMA AmlCallKept ==
    ASSUME AccessInv, NEW u \in Users, NEW a \in Accounts, AmlCall(u, a)
    PROVE  AccessInv' /\ WritesAml(a)
  <1>1. WritesAml(a)
    BY RecordsAreRecords, AbsentRecord
       DEF AmlCall, setAmlStatus, updateAmlStatus, clearAmlStatus, WritesAml
  <1>2. /\ u \in members[AML_ADMIN]
        /\ signer' = [signer EXCEPT ![AML_ADMIN][a] = u]
        /\ members' = members /\ appointed' = appointed
    BY DEF AmlCall, MayWriteAml, Signed, hasRole
  <1>3. TypeOK'
    BY <1>1 DEF AccessInv, AccessTypeOK, TypeOK, WritesAml
  <1>4. KYC_ADMIN \in Books /\ AML_ADMIN \in Books /\ KYC_ADMIN # AML_ADMIN /\ NoOne \notin Users
    BY AccessAssumption DEF Books
  <1>5. AccessTypeOK'
    BY <1>2, <1>3, <1>4 DEF AccessInv, AccessTypeOK
  <1>6. HoldersNamed'
    BY <1>2 DEF AccessInv, HoldersNamed
  <1>7. SignersNamed'
    BY <1>2, <1>4 DEF AccessInv, AccessTypeOK, HoldersNamed, SignersNamed
  <1>8. RecordsSigned'
    BY <1>1, <1>2, <1>4 DEF AccessInv, AccessTypeOK, TypeOK, RecordsSigned, WritesAml
  <1> QED BY <1>1, <1>5, <1>6, <1>7, <1>8 DEF AccessInv

\* Roles change hands between calls; whoever gains one is remembered.
LEMMA RoleChangeKept ==
    ASSUME AccessInv, NEW caller \in Users, NEW u \in Users, NEW r \in Roles,
           RoleChange(caller, r, u)
    PROVE  AccessInv' /\ UNCHANGED vars
  <1>1. UNCHANGED vars /\ signer' = signer
    BY DEF RoleChange
  <1>2. TypeOK'
    BY <1>1 DEF AccessInv, AccessTypeOK, TypeOK, vars
  <1>3. /\ \/ /\ members' = [members EXCEPT ![r] = @ \cup {u}]
              /\ appointed' = appointed \cup {u}
           \/ /\ members' = [members EXCEPT ![r] = @ \ {u}]
              /\ appointed' = appointed
    BY DEF RoleChange, RoleGranted, RoleRemoved, grantRole, revokeRole, renounceRole,
           getRoleAdmin
  <1>4. AccessTypeOK'
    BY <1>1, <1>2, <1>3 DEF AccessInv, AccessTypeOK
  <1>5. HoldersNamed'
    BY <1>3 DEF AccessInv, AccessTypeOK, HoldersNamed, Books, Roles
  <1>6. SignersNamed'
    BY <1>1, <1>3 DEF AccessInv, SignersNamed
  <1>7. RecordsSigned'
    BY <1>1 DEF AccessInv, RecordsSigned, vars
  <1> QED BY <1>1, <1>4, <1>5, <1>6, <1>7 DEF AccessInv

\* Whatever the people do, the invariant is kept and the registry makes one
\* of its own steps or none.
LEMMA AccessStep ==
    ASSUME AccessInv, [AccessNext]_AccessVars
    PROVE  AccessInv' /\ [Next]_vars
  <1>1. CASE \E u \in Users, a \in Accounts : KycCall(u, a) \/ AmlCall(u, a)
    <2>1. PICK u \in Users, a \in Accounts : KycCall(u, a) \/ AmlCall(u, a)
      BY <1>1
    <2>2. AccessInv'
      BY <2>1, KycCallKept, AmlCallKept
    <2>3. Next
      BY <2>1 DEF KycCall, AmlCall, Next
    <2> QED BY <2>2, <2>3
  <1>2. CASE \E caller, u \in Users, r \in Roles : RoleChange(caller, r, u)
    BY <1>2, RoleChangeKept
  <1>3. CASE Clock
    <2>1. Next
      BY <1>3 DEF Clock, Next
    <2>2. TypeOK'
      BY <2>1, RegistryStep DEF AccessInv, AccessTypeOK
    <2> QED BY <1>3, <2>1, <2>2
            DEF Clock, TimePasses, accessVars, AccessInv, AccessTypeOK, HoldersNamed,
                SignersNamed, RecordsSigned
  <1>4. CASE UNCHANGED AccessVars
    BY <1>4 DEF AccessVars, vars, accessVars, AccessInv, AccessTypeOK, TypeOK, HoldersNamed,
                SignersNamed, RecordsSigned
  <1> QED BY <1>1, <1>2, <1>3, <1>4 DEF AccessNext

\* Two people sign for a compliant account, or the one who signed twice got a
\* role from a DEFAULT_ADMIN: the two that initialize names are different
\* people, and a role reaches anyone else only by appointment.
THEOREM NobodyAdmitsAlone == AccessSpec => []TwoPeopleAdmit
  <1>1. AccessInv /\ [AccessNext]_AccessVars => AccessInv'
    BY AccessStep
  <1>2. AccessInv => TwoPeopleAdmit
    <2> SUFFICES ASSUME AccessInv, NEW a \in Accounts, IsCompliant(a)
                 PROVE  /\ NoOne \notin {signer[b][a] : b \in Books}
                        /\ \/ signer[KYC_ADMIN][a] # signer[AML_ADMIN][a]
                           \/ signer[KYC_ADMIN][a] \in appointed
      BY DEF TwoPeopleAdmit
    <2>1. signer[KYC_ADMIN][a] # NoOne /\ signer[AML_ADMIN][a] # NoOne
      BY DEF IsCompliant, IsKycCompliant, IsAmlCompliant, AccessInv, RecordsSigned
    <2>2. /\ signer[KYC_ADMIN][a] \in {_kycAdmin} \cup appointed
          /\ signer[AML_ADMIN][a] \in {_complianceAdmin} \cup appointed
      BY <2>1, AccessAssumption DEF AccessInv, SignersNamed, Books, Named
    <2> QED BY <2>1, <2>2, AccessAssumption DEF Books
  <1> QED BY AccessInvInit, <1>1, <1>2, PTL DEF AccessSpec, AccessVars

\* With people behind its roles the registry is still the set of accounts
\* that the fund relies on.
THEOREM RegistryOfPeopleIsASet == AccessSpec => RefinesCompliance
  <1>1. AccessInv /\ [AccessNext]_AccessVars => AccessInv' /\ [Next]_vars
    BY AccessStep
  <1>2. AccessInit => Init
    BY DEF AccessInit
  <1>3. AccessSpec => Spec
    BY AccessInvInit, <1>1, <1>2, PTL DEF AccessSpec, AccessVars, Spec
  <1> QED BY <1>3, RegistryIsASet

=============================================================================
