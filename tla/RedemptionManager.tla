------------------------- MODULE RedemptionManager -------------------------
(***************************************************************************)
(* Redemption requests of src/fund/RedemptionManager.sol, one per account. *)
(* The mapping's default is the record of zeroes: no account, amount 0 and *)
(* the first status of the enumeration, which is REDEMPTION_PENDING.       *)
(***************************************************************************)
EXTENDS FundTokenOps

CONSTANT NoAccount     \* address(0)

ASSUME NoAccountAssumption == NoAccount \notin Accounts

RedemptionStatuses == {"PENDING", "APPROVED", "CANCELLED", "REJECT", "BLOCKED"}

RedemptionData ==
    [amount : Nat, account : Accounts \cup {NoAccount}, status : RedemptionStatuses]

VARIABLES redemptions, totalRedemptions

redemptionVars == <<redemptions, totalRedemptions>>

RedemptionTypeOK ==
    /\ redemptions \in [Accounts -> RedemptionData]
    /\ totalRedemptions \in Nat

RedemptionInit ==
    /\ redemptions = [a \in Accounts |->
          [amount |-> 0, account |-> NoAccount, status |-> "PENDING"]]
    /\ totalRedemptions = 0

RequestRedemption(account, amount) ==
    /\ redemptions[account].status # "BLOCKED"
    /\ redemptions' = [redemptions EXCEPT ![account] =
          [amount |-> amount, account |-> account, status |-> "PENDING"]]
    /\ UNCHANGED totalRedemptions

UpdateRedemption(account, status) ==
    /\ redemptions[account].status = "PENDING"
    /\ redemptions' = [redemptions EXCEPT ![account].status = status]

ApproveRequest(account) ==
    /\ UpdateRedemption(account, "APPROVED")
    /\ totalRedemptions' = totalRedemptions + redemptions[account].amount

CancelRequest(account) ==
    /\ UpdateRedemption(account, "CANCELLED")
    /\ UNCHANGED totalRedemptions

RejectRequest(account) ==
    /\ UpdateRedemption(account, "REJECT")
    /\ UNCHANGED totalRedemptions

=============================================================================
