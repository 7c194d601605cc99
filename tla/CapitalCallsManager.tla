------------------------ MODULE CapitalCallsManager ------------------------
(***************************************************************************)
(* Capital calls of src/fund/CapitalCallsManager.sol: the list of calls    *)
(* and, per account, the amount it has to pay in under each call id.  A    *)
(* record never written reads as zero: a GP call of 0 that is not done.    *)
(* The drawdown type is logged only, and hasFailed has no writer.          *)
(***************************************************************************)
EXTENDS FundTokenOps

CONSTANT CallIdRange    \* 65536: call ids are uint16

ASSUME CallIdAssumption == CallIdRange \in Nat \ {0}

CallIds == 0..(CallIdRange - 1)
AccountTypes == {"GP", "LP"}
AccountCapitalCall == [amount : Nat, accountType : AccountTypes, isDone : BOOLEAN]

VARIABLES capitalCalls, accountCapitalCalls, totalCalled

callVars == <<capitalCalls, accountCapitalCalls, totalCalled>>

CallTypeOK ==
    /\ capitalCalls \in Seq(Nat)
    /\ accountCapitalCalls \in [Accounts -> [CallIds -> AccountCapitalCall]]
    /\ totalCalled \in Nat

AccountCall(amount, type) == [amount |-> amount, accountType |-> type, isDone |-> FALSE]

CallInit ==
    /\ capitalCalls = << >>
    /\ accountCapitalCalls = [a \in Accounts |-> [c \in CallIds |-> AccountCall(0, "GP")]]
    /\ totalCalled = 0

\* uint16(capitalCalls.length - 1) once the call is pushed.
NextCallId == Len(capitalCalls) % CallIdRange

\* The fund's two loops over _addAccountCapitalCall: an account that is a GP
\* and an LP keeps the LP record, which is written last.
AccountCalls(gps, lps, gpShare(_), lpShare(_)) ==
    [a \in Accounts |-> [accountCapitalCalls[a] EXCEPT ![NextCallId] =
        IF a \in lps THEN AccountCall(lpShare(a), "LP")
        ELSE IF a \in gps THEN AccountCall(gpShare(a), "GP")
        ELSE @]]

=============================================================================
