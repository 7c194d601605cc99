----------------------------- MODULE Compliance -----------------------------
(***************************************************************************)
(* What the fund relies on of the compliance registry: a set of accounts   *)
(* isCompliant answers true for.  An update by an administrator changes    *)
(* the answer for one account at most and takes no time; as time passes    *)
(* any number of accounts may lapse and none is admitted.  The Fund        *)
(* module's ComplianceChanges is this behaviour, one account at a time.    *)
(***************************************************************************)
EXTENDS Naturals

CONSTANT Accounts

VARIABLES
    compliant,
    now             \* block.timestamp

Init == compliant = {} /\ now \in Nat

Admit(a) ==
    /\ compliant' = compliant \cup {a}
    /\ UNCHANGED now

Withdraw(a) ==
    /\ compliant' = compliant \ {a}
    /\ UNCHANGED now

Expire(S) ==
    /\ compliant' = compliant \ S
    /\ now' > now

Next ==
    \/ \E a \in Accounts : Admit(a)
    \/ \E a \in Accounts : Withdraw(a)
    \/ \E S \in SUBSET Accounts : Expire(S)

Spec == Init /\ [][Next]_<<compliant, now>>

=============================================================================
