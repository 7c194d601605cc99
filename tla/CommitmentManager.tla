------------------------- MODULE CommitmentManager -------------------------
(***************************************************************************)
(* Commitments of src/fund/CommitmentManager.sol.  The functions are       *)
(* internal: each is an action the fund conjoins with the checks and the   *)
(* token calls of the external function it runs in.  gpAccounts and        *)
(* lpAccounts are arrays the fund only iterates, with an effect that       *)
(* repeats: they are sets here.                                            *)
(***************************************************************************)
EXTENDS FundTokenOps

CommitStates ==
    {"NONE", "PENDING", "APPROVED", "CANCELLED", "REJECTED", "BLOCKED"}

Commit == [amount : Nat, status : CommitStates]

VARIABLES
    lpCommitments, gpCommitments,
    lpAccounts, gpAccounts,
    totalInPendingLpCommits, totalCommittedGp, totalCommittedLp

commitVars == <<lpCommitments, gpCommitments, lpAccounts, gpAccounts,
                totalInPendingLpCommits, totalCommittedGp, totalCommittedLp>>

CommitTypeOK ==
    /\ lpCommitments \in [Accounts -> Commit]
    /\ gpCommitments \in [Accounts -> Commit]
    /\ lpAccounts \in SUBSET Accounts
    /\ gpAccounts \in SUBSET Accounts
    /\ totalInPendingLpCommits \in Nat
    /\ totalCommittedGp \in Nat
    /\ totalCommittedLp \in Nat

CommitInit ==
    /\ lpCommitments = [a \in Accounts |-> [amount |-> 0, status |-> "NONE"]]
    /\ gpCommitments = [a \in Accounts |-> [amount |-> 0, status |-> "NONE"]]
    /\ lpAccounts = {}
    /\ gpAccounts = {}
    /\ totalInPendingLpCommits = 0
    /\ totalCommittedGp = 0
    /\ totalCommittedLp = 0

totalCommitted == totalCommittedGp + totalCommittedLp

\* A wrong AddGpCommitment: a second commitment replaces the first one's total.
AddGpCommitmentReplacing(account, amount) ==
    /\ totalCommittedGp' = totalCommittedGp - gpCommitments[account].amount + amount
    /\ gpCommitments' = [gpCommitments EXCEPT
                            ![account] = [amount |-> amount, status |-> "APPROVED"]]
    /\ gpAccounts' = gpAccounts \cup {account}
    /\ UNCHANGED <<lpCommitments, lpAccounts, totalInPendingLpCommits, totalCommittedLp>>

AddGpCommitment(account, amount) ==
    /\ totalCommittedGp' = totalCommittedGp + amount
    /\ gpCommitments' = [gpCommitments EXCEPT
                            ![account] = [amount |-> amount, status |-> "APPROVED"]]
    /\ gpAccounts' = gpAccounts \cup {account}
    /\ UNCHANGED <<lpCommitments, lpAccounts, totalInPendingLpCommits, totalCommittedLp>>

\* What _setLpCommitment takes off the pending total: the amount on record,
\* whether it is still pending, was approved or was already cancelled.
Replaced(account) ==
    IF lpCommitments[account].status \in {"NONE", "BLOCKED"} THEN 0
    ELSE lpCommitments[account].amount

SetLpCommitment(account, amount) ==
    /\ IsUint(totalInPendingLpCommits - Replaced(account))
    /\ totalInPendingLpCommits' = totalInPendingLpCommits - Replaced(account) + amount
    /\ lpCommitments' = [lpCommitments EXCEPT
                            ![account] = [amount |-> amount, status |-> "PENDING"]]
    /\ lpAccounts' = lpAccounts \cup {account}
    /\ UNCHANGED <<gpCommitments, gpAccounts, totalCommittedGp, totalCommittedLp>>

\* A wrong CancelLpCommitment: the pending total may fall below zero.
CancelLpCommitmentUnchecked(account) ==
    /\ lpCommitments[account].status = "PENDING"
    /\ lpCommitments' = [lpCommitments EXCEPT ![account].status = "CANCELLED"]
    /\ totalInPendingLpCommits' = totalInPendingLpCommits - lpCommitments[account].amount
    /\ UNCHANGED <<gpCommitments, lpAccounts, gpAccounts, totalCommittedGp, totalCommittedLp>>

CancelLpCommitment(account) ==
    /\ lpCommitments[account].status = "PENDING"
    /\ IsUint(totalInPendingLpCommits - lpCommitments[account].amount)
    /\ lpCommitments' = [lpCommitments EXCEPT ![account].status = "CANCELLED"]
    /\ totalInPendingLpCommits' = totalInPendingLpCommits - lpCommitments[account].amount
    /\ UNCHANGED <<gpCommitments, lpAccounts, gpAccounts, totalCommittedGp, totalCommittedLp>>

\* A wrong ApproveLpCommitments: the approved total is not raised.
ApproveLpCommitmentsUncounted(accounts) ==
    /\ \A a \in accounts : lpCommitments[a].status = "PENDING"
    /\ lpCommitments' = [a \in Accounts |->
          IF a \in accounts THEN [lpCommitments[a] EXCEPT !.status = "APPROVED"]
          ELSE lpCommitments[a]]
    /\ UNCHANGED <<gpCommitments, lpAccounts, gpAccounts, totalInPendingLpCommits,
                   totalCommittedGp, totalCommittedLp>>

\* What the loop of _approveLpCommitments adds to the committed total.
Approved(accounts) == SumFunction([a \in accounts |-> lpCommitments[a].amount])

\* The loop of _approveLpCommitments without its mint, which is the fund's
\* token.  An account listed twice is no longer pending the second time and
\* reverts the call: accounts is a set.
ApproveLpCommitments(accounts) ==
    /\ \A a \in accounts : lpCommitments[a].status = "PENDING"
    /\ lpCommitments' = [a \in Accounts |->
          IF a \in accounts THEN [lpCommitments[a] EXCEPT !.status = "APPROVED"]
          ELSE lpCommitments[a]]
    /\ IsUint(Approved(accounts))
    /\ totalCommittedLp' = totalCommittedLp + Approved(accounts)
    /\ UNCHANGED <<gpCommitments, lpAccounts, gpAccounts, totalInPendingLpCommits,
                   totalCommittedGp>>

=============================================================================
