# A verification of the private-equity fund contracts

TLA+ models of the Solidity contracts under `src/src/`, the TLC runs that check
them on small instances, and theorems about them that TLAPS checks for every
value of the constants. Paths are relative to the directory that holds `src/`.

## The system

One fund is a set of contracts that call each other synchronously. A call from
outside is a transaction: it runs alone, to its end, or it reverts and changes
nothing. Two calls never interleave, but one call may write a dozen
records in five contracts before a check in the last of them reverts it. What
makes the code hard is that, the order in which independent callers (LPs, the
GP, the fund administrator, two compliance administrators, the clock) take their
turns, and state that one call leaves for another to read much later.

| Component | State | Operations | Talks to |
|---|---|---|---|
| `ComplianceRegistry` | a KYC and an AML record per account, with an expiry | set, update, clear of each; `isCompliant` | read by `Fund` and `FundToken` |
| `FundToken` (four instances) | balances, fees, distributions, lazily taken snapshots, two indices per account, USDC collected | mint, burn, transfer, charge and pay fees, waive, distribute, confirm, cancel, claim, collect, pause | registry, USDC |
| `Fund` | terms, returns, catch-up, count and total of distributions | commit to distribute, redeem, pause (below) | its four tokens, the registry, USDC; inherits the managers |
| `CommitmentManager` | commitments of LPs and GPs, three totals | add, replace, cancel, approve | runs inside `Fund` |
| `CapitalCallsManager` | calls, a record per account and call | add a call, write the records | runs inside `Fund` |
| `RedemptionManager` | one request per account, a total | request, approve, cancel, reject | runs inside `Fund` |
| `InterestPayments` | a list of entries: capital, total, daily interest | inflow, outflow, annual and quarterly compounding | runs inside `Fund` |
| `AccessControl` (OpenZeppelin) | the holders of each role | grant, revoke, renounce | inherited by registry, fund and tokens |
| ERC20, Pausable (OpenZeppelin) | balances, supply, paused flag | `_mint`, `_burn`, `_transfer`, `_pause`, ... | inherited by the tokens |
| Proxies, initializers | implementation slot, `initialized` | | in front of fund and registry |
| BokkyPooBah's calendar, USDC | external | | |

What makes each of them correct:

- *Registry*: an account is compliant only while both books say so and neither
  record has expired; two people stand behind every admission, unless an
  administrator gave one of them both roles.
- *FundToken*: who sends tokens has settled before they move; a bill is raised
  only by a fee or by its own payer, and neither a bill nor a claim is lost to
  what others do, short of sending tokens; every unit of USDC held is on the
  books.
- *Commitments and calls*: calls stay within commitments and the shares of a
  call within the call; commit tokens turn into fund tokens one for one, in
  whatever order calls are settled.
- *Waterfall and interest*: what is distributed is split to the last unit;
  carried interest waits until LPs have their capital and preferred return;
  interest is added once for each day.
- *Composition*: a pause freezes all four tokens, only compliant accounts gain
  tokens, redemptions never exceed what was minted; a call that returns has
  done all of its steps and one that reverts none.

`PROJECT.json` lists, at its line, each place where this is hard to test.

## The modules

| Module | Models | Uses |
|---|---|---|
| `ComplianceRegistry` | the registry, one action per function, and the clock | `Compliance` |
| `Compliance` | abstract: the set of accounts the others see as compliant, and the time, which tells an administrator's update from expiry | |
| `AccessControl` | the role book of one contract | |
| `RegistryAccess` | the registry with the people who hold its roles | `ComplianceRegistry`, `AccessControl` |
| `FundTokenOps` | one token's storage as a record (`Ledger`), each function's effect as an operator from ledger to ledger, its `require`s as predicates (`May...`) | |
| `FundToken` | one token contract with all its callers | `FundTokenOps` |
| `FundTokenHistory` | the same with a history of the balances at each distribution | `FundToken` |
| `CommitmentManager`, `CapitalCallsManager`, `RedemptionManager` | the inherited managers; their internal functions are actions the fund conjoins | `FundTokenOps` |
| `Calendar` | the four calendar functions the interest ledger calls, and the month of a date (external) | |
| `InterestPayments` | the interest ledger: a cash flow as a record of what it returns, the entries it pushes and whether it completes | `Calendar` |
| `Fund` | the fund with its managers, ledger, four tokens and the calls the tokens serve to others | all of the above |
| `FundTokens` | the claim that each token inside the fund is a `FundToken` | `Fund`, `FundToken` |
| `FundExecution` | the fund's calls step by step, over lists and loops, as they run | `Fund` twice: extended, and as the abstract specification |
| `InterestReference` | the ledger beside a day-by-day definition of compounding | `InterestPayments` |
| `MCRegistry`, `MCFundToken`, `MCFundTokenHistory`, `MCFund`, `MCFundExecution`, `MCInterest` | instances for TLC | |
| `LedgerLemmas` | lemmas about sums over accounts and about the operators of `FundTokenOps` | `FundTokenOps` |
| `InterestLemmas` | lemmas about compounding and the operators of `InterestPayments` | `InterestPayments` |
| `FundTokenProofs` | the theorems about one token | `FundToken`, `LedgerLemmas` |
| `FundProofs` | types of the fund | `Fund`, both modules of lemmas |
| `FundSafetyProofs` | the theorems about tokens, commitments, calls and pauses, then about interest, returns and carry | `FundProofs` |
| `FundExecutionProofs` | the calls step by step are the calls of `Fund` | `FundExecution`, `FundProofs` |
| `InterestReferenceProofs` | annual compounding against its definition by days | `InterestReference`, `InterestLemmas` |
| `RegistryProofs` | the theorems about the registry and who acts on it | `RegistryAccess` |

### How state and actions correspond to the code

A variable or a record field has the name of the storage variable it stands
for. An action has the name of the external function, with the caller and the
arguments as parameters. An action's guard is the conjunction of every
`require`, modifier and arithmetic check on the path the call takes, in the
contract it enters and in those it calls; `IsUint(n)` is Solidity 0.8's check
that a subtraction does not go below zero, and `Computed` the same for the
interest ledger's results. When the guard is false the call reverts, which is
a step not taken. Names whose body is shared or renamed:

- `AddLpCommitment` is `_addLpCommitment`; `cancelCommit` is both overloads;
  `cancelRedemption` likewise (the administrator's overload insists that the
  caller is the account).
- `setTerm` is the seven setters, each of which assigns one variable of
  `terms`. The constructor's other parameters have no setter and are CONSTANTS.
- `DistributeShares` and `Split` are the branches of `distribute`: the two
  early and the two late payments come to the same pair of amounts.
- `Touched` is `_updateSnapshot` for the parties of a movement. The zero
  address never holds tokens: a mint or a burn touches one account.
- `MayBurn` asks for the amount of the supply too, which the balance implies in
  every reachable state: OpenZeppelin's `_burn` subtracts it unchecked.
- In `Fund` the caller of `transfer` is a holder and never a `TOKEN_ADMIN`
  (`byTokenAdmin = FALSE`): the only one is the fund, which transfers nothing.
  What a `TOKEN_ADMIN` could do are the actions of `FundToken`.
- `CompoundAnnual` is the loop over years as a recursive function of the
  year, `CompoundQuarterly` one run of the quarterly loop. `FundExecution` runs
  both loops iteration by iteration. The quarterly one ends after its first
  iteration: its variable, a number of days, is handed to `_nextQuarter` as
  seconds, and the result exceeds the number of any day in question.
- The compounding period is a term without a setter: `InitialTerms` gives one
  or both periods, `SettableTerms` leaves it out.
- In `Fund` the arrays of accounts are sets, and each call is one step. That
  nothing is lost by either is what `FundExecution` is for (below).
- `Calendar` has the calendar's functions by their meaning; the year and the
  month of a day are functions, which TLC evaluates once per day.

Wrong versions of operators, marked as such in their comments, are the
mutations that show each property can fail.

### One step, or many

`Fund` takes each external call in one step, its guard the conjunction of all
checks on its way. `FundExecution` runs the calls that loop or go through
several contracts as the machine does: one step per iteration, per compounded
period and per token call, writing a working copy of the storage (`tx.written`).
A call that returns makes the copy the storage; a `require` that fails drops
it. `gpAccounts` and `lpAccounts` are sequences there, with a GP listed once per
commitment, and so are the lists the administrator gives, repetitions included.
Three properties tie the two together:

- `ImplementsFund`: under the mapping that forgets order and repetition in the
  arrays, every step of the detailed calls is a step of `Fund` or none. A call
  that returns has done what the one step does. This one is proved as well.
- `RevertsAsFund`: a call that reverts could not be taken in `Fund`. Together
  with the refinement, `Fund`'s guards are neither too strong nor too weak.
- `CallsEnd`: each call ends.

`FundTokens` ties `Fund` to `FundToken`: every transaction of the fund is, for
each of its four tokens, one call of the machine that the token runs and the
token's proofs are about.

## The runs

| Run | Question | States |
|---|---|---|
| `token` | Does one token, commit or fund, keep its books, bounds and bills? | 700,566 |
| `fund_flows` | Do calls and settlements keep tokens and commitments together, and is the waterfall exact and in the right order? | 458,363 |
| `fund_holders` | What can holders do under lapses of compliance, pauses, fees, and is each token still a `FundToken`? | 355,440 |
| `fund_execution` | Do the calls, run step by step, come to what `Fund` says? | 440,972 |
| `registry` | Is the registry the set of accounts its callers rely on, whoever holds its roles? | 878,841 |
| `interest_annual` | Does annual compounding add each day once? | 64,872 |

Six more runs show where the code does something else than its documentation
says; each ends with a counterexample.

| Run | What the trace shows |
|---|---|
| `token_pay_fees` | `payFees` sets `lastFeeIndex` to `fees.length - 1`; the last fee is still pending after it was paid, and is charged again. |
| `token_history` | A snapshot is stored under the number of events and read under an event's index: what is pending for a past distribution is not the share of the balance at that time. |
| `fund_claims` | After two distributions with a transfer between them a holder has a share pending; it is never confirmed, and claiming pays nothing for ever. |
| `interest_quarterly` | Quarterly compounding adds a quarter's interest and leaves the date where it was, so the caller adds the same days again. |
| `fund_cancel` | Committing again after a cancellation takes the old amount off the pending total twice; another LP's cancellation then reverts. |
| `fund_stale` | After a distribution that pays everything, the ledger's capital is not cleared. A later distribution that would pay everything again reverts. |

### Properties

On the token: `ClaimLoopInBounds` (the loop that runs to `i <= length` reads
nothing past the array), `CashWithinBooks` and `CashMatchesBooks` (USDC against
books), `OthersCannotRaiseBill`, `OnlyReceiptForgives` (what an account owes or
can claim never just disappears), `PastSnapshotsFrozen`. `CashWithinBooks` is an
upper bound: a claim repeated takes out more than its share, so that equality
holds only where nothing can be claimed. `PastSnapshotsFrozen` is about keys
that both kinds of event have passed; at the others one kind rewrites the other's
snapshots, which is what `token_history` shows.

`OnlyReceiptForgives` has an exception, and the exception is where the code
and its comments part. `FundToken.sol:386` says that "Neither the sender nor
recipient have pending fees or distributions", and lines 19 to 21 that an
account must pay all fees and claim all distributions before burning. The
modifiers at lines 391 and 392 ask the sender alone, and ask of distributions
only for confirmed ones. `_updateSnapshot` then moves the indices of both
parties to the counts, so that a mint or a transfer ends what the recipient
owes and can claim, and a movement out ends a share that was not yet confirmed.
The property says that, besides payment, claim,
waiver and cancellation, receiving tokens is the only way.

On the fund: `CalledWithinCommitted`, `GpTokensMatchCommitments`,
`CommitTokensOnlyConvert`, `CallSharesCovered` (the records a call writes never
add up to more than the call, however the divisions round and whoever is both
GP and LP), `LpTokensWithinCommitments`, `PausedMeansFrozen`,
`OnlyCompliantGain`, `TokensAreFundTokens`, and for the waterfall
`ReturnsMatchDistributed`, `EntriesInDayOrder`, `CapitalWasCalled`,
`CarryOnProfitOnly`, `PrefBeforeCarry`, `LpMadeWholeFirst`. `CapitalWasCalled` is
an inequality, which capital that stays on the ledger after it was paid back
does not break; that is `fund_stale`. `GpTokensMatchCommitments` and
`CommitTokensOnlyConvert` say what settling a record does, and not that a record
is kept until it is settled: a call whose id wraps, or an account that is both
GP and LP, overwrites records.

"Claiming distributions" is among the interactions that `src/README.md:56`
lists. `SharesArePaid` says that who has a share and keeps claiming is paid at
last, and does not hold: `confirmDistribution` is for the `TOKEN_ADMIN`, the
token's constructor makes the fund the only one, and no function of the fund
calls it. What is distributed stays in the token contracts until the fund
administrator, who holds `DEFAULT_ADMIN_ROLE` on them, grants `TOKEN_ADMIN` to
somebody else.

On the execution of calls: `ExecTypeOK`, which also has every LP listed once,
`ImplementsFund`, `RevertsAsFund` and `CallsEnd`.

On the registry: `RefinesCompliance` (it implements `Compliance`: one
transaction changes the answer for one account at most, and time passing, which
may end the compliance of many, begins that of none) and `TwoPeopleAdmit`:
whoever signed the two records of a compliant account, they were two people, or
somebody holding `DEFAULT_ADMIN` had given the one who signed both a role. Records outlive the roles of those who wrote them. On
interest: `AnnualMatchesDaily`.

### Bounds, and why they are enough

- *Accounts*: two. No function reads more than two accounts' records in a way
  that depends on their number, except loops that treat each alike. In the
  first story of `fund_flows` one of the two is both GP and LP.
- *Events of a token* (`MaxEvents`): two fees and two distributions in `token`.
  The index errors possible in the snapshot map are by one, so two of each kind
  show both a key reused by the other kind and a key passed over.
- *Two stories in `fund_flows`*: commitments and calls on the last day, with three
  calls, LPs that commit again, and the closing at any time before the first
  call; and calls and distributions over three dates, with one LP and one
  commitment of the GP. The terms the fund starts with tell which is told
  (`StorySpec` in `MCFund`), and steps that leave the story are not followed.
- *Amounts*: one or two values each. A token balance of 4 or 8 owes a fee of 4
  or 8, so that a missed, doubled or outdated balance changes a bill.
  `fund_flows` distributes two amounts: one that pays a call with a day's
  interest and part of the catch-up, and one that pays everything and carry.
  Interest accrues over the New Year.
- *Call ids*: `CallIdRange` stands for the 65536 values of a uint16. It is 2
  in `fund_flows`, which makes three calls: the third overwrites the records
  of the first, settled or not.
- *Calls in steps* (`Scenarios`): each behaviour of `fund_execution` raises one
  LP's capital and does one thing more (distribute, redeem, pause), or has two
  LPs committing, approved by list and waived by list; a list names one
  account, one twice, or one before another. One call has a share that rounds
  to zero for the LP after the GP's was written; one distribution pays in
  either order, and its second payment finds a token without supply; cash flows
  lie on both sides of a New Year under either period.
- *One LP in `fund_holders`*: an approval of several LPs mints several times on
  one token, which is several calls to it.
- *Dates*: the instances stay before 2038, the range of TLC's integers.
  `interest_annual` follows entries around the New Years 2018/19 and 2023/24
  and in the leap year 2020 for 900 days.
- *Registry*: an absent expiry and two within the clock's range; three people
  and two changes of roles, which is what it takes to move a role from one
  person to another. Symmetry in the two accounts.
- `MaxCash`, `MaxSupply`, `MaxCommittedLp`, `MaxCommittedGp`, `MaxCalls`,
  `MaxFees` and `MaxDistributions` are guards in the actions and bound the
  state. They are constants of arbitrary value in the proofs.

Each `fund_*` instance leaves out calls the others exercise, by giving them no
argument values; between them every action and every branch of the next-state
relation is taken. The token runs use symmetry in the two accounts, which no
action or constant distinguishes. Deadlock is checked except in
the runs that stop at their horizon in time: the interest runs and `registry`.

### Fairness

A call that was started is executed until it returns or reverts: the EVM has no
way to leave it half-way, which is weak fairness of the steps of the running
call (`WF_execVars(Executes)` in `FundExecution`). Nothing in the code makes a
caller call, and no property that a run shows to hold assumes that one does;
every one but `CallsEnd` is a safety or an action property.

`SharesArePaid`, which does not hold, is asked under fairness that only callers
could show (`FairSpec` in `Fund`): strong fairness of each holder's claims on
each token, and weak fairness of calls, settlements and distributions taken
together. The counterexample is therefore not one of somebody who gives up.

## What is proved

The theorems hold for every finite set of accounts, every amount, rate, scale
and date, and every value of the bounds, under the ASSUMEs of the modules:
types of the constants, a scale and a price of at least 1, a clock that starts
after the first day of 1970, three roles that are three different values, and,
for the day-by-day reference and the execution of calls, dates that a `uint32`
holds.

| Theorem | Statement |
|---|---|
| `FundTokenProofs!TypeCorrect` | `Spec => []TypeOK` for one token |
| `FundTokenProofs!ClaimLoopSafe` | `Spec => []ClaimLoopInBounds` |
| `FundTokenProofs!CashAccounted` | `Spec => []CashWithinBooks` |
| `FundTokenProofs!CommitCashAccounted` | `Spec => []CashMatchesBooks`: exact for a commit token |
| `FundTokenProofs!BillsAreOnesOwn` | `Spec => OthersCannotRaiseBill` |
| `FundTokenProofs!DebtsAndClaimsStand` | `Spec => OnlyReceiptForgives` |
| `FundTokenProofs!HistoryIsFrozen` | `Spec => PastSnapshotsFrozen` |
| `FundProofs!FundTypeCorrect` | `Spec => []TypeOK` for the fund |
| `FundSafetyProofs!DistributedInFull` | `Spec => []ReturnsMatchDistributed` |
| `FundSafetyProofs!CallsCovered` | `Spec => []CalledWithinCommitted` |
| `FundSafetyProofs!GpTokensAccounted` | `Spec => []GpTokensMatchCommitments` |
| `FundSafetyProofs!LpTokensAccounted` | `Spec => []LpTokensWithinCommitments` |
| `FundSafetyProofs!SharesCovered` | `Spec => CallSharesCovered` |
| `FundSafetyProofs!CommitTokensConvert` | `Spec => CommitTokensOnlyConvert` |
| `FundSafetyProofs!GainsAreCompliant` | `Spec => OnlyCompliantGain` |
| `FundSafetyProofs!PauseFreezes` | `Spec => PausedMeansFrozen` |
| `FundSafetyProofs!LedgerInOrder` | `Spec => []EntriesInDayOrder` |
| `FundSafetyProofs!OutstandingWasCalled` | `Spec => []CapitalWasCalled` |
| `FundSafetyProofs!PrefComesFirst` | `Spec => PrefBeforeCarry` |
| `FundSafetyProofs!LpsComeFirst` | `Spec => LpMadeWholeFirst` |
| `FundSafetyProofs!CarryComesFromProfit` | `Spec => CarryOnProfitOnly` |
| `FundExecutionProofs!ExecutionTypeCorrect` | `ExecSpec => []ExecTypeOK` |
| `FundExecutionProofs!ExecutionImplementsFund` | `ExecSpec => ImplementsFund` |
| `InterestReferenceProofs!AnnualCompoundingMatches` | `Spec => []AnnualMatchesDaily`, if the fund compounds annually |
| `RegistryProofs!RegistryTypeCorrect` | `Spec => []TypeOK` for the registry |
| `RegistryProofs!RegistryIsASet` | `Spec => RefinesCompliance` |
| `RegistryProofs!RegistryOfPeopleIsASet` | `AccessSpec => RefinesCompliance` |
| `RegistryProofs!NobodyAdmitsAlone` | `AccessSpec => []TwoPeopleAdmit` |

Along which argument, one token:

- *Types* of both machines rest on lemmas about the ledger operators
  (`LedgerLemmas`) and the interest operators (`InterestLemmas`): each maps
  well-typed ledgers to well-typed ledgers when its `May...` predicate and
  its `IsUint` guards hold. They are where a natural number could go negative.
- `ClaimLoopInBounds` is not inductive: an account's index is bounded, but what
  may be read depends on which distributions are confirmed. The invariant
  `LoopInv` adds `ConfirmedExist`, that only distributions that exist are ever
  confirmed; the array never shrinks.
- `CashWithinBooks` is proved with the gap between books and cash, of which each
  action's change is computed (`BooksStep`): payments move both, collecting
  fees moves both, a claim lowers cash alone and can only widen the gap.
- `CashMatchesBooks` needs that a commit token has no distribution
  (`CommitInv`), so that no claim or cancellation can complete.
- The action properties rest on one description of a movement (`Movement` in
  `LedgerLemmas`): it brings its parties' indices up to the counts of events,
  rewrites no snapshot below both counts and leaves other accounts alone. That
  only a payer's own call moves a bill up is then a comparison of two sums over
  the same fees (`PendingFees`).
- `OnlyReceiptForgives` compares sums both of whose ends may move. What an
  account owes or can claim stands (`BillStands`, `ClaimStands` in
  `LedgerLemmas`) when its indices and snapshots are kept and the arrays keep
  what they had or grow (`Extends`); each kind of step either keeps them for
  an account or is one of those the property names (`StepFates`). The sender of
  a movement had nothing left to lose, which is what `MayMove` asks of it. That
  a sum over more events is no smaller (`SumGrows`) needs that every bill and
  every share is a natural number.

The fund:

- `ReturnsMatchDistributed`, `CalledWithinCommitted` and
  `GpTokensMatchCommitments` are inductive together with types. They rest on
  two facts: the shares of `Split` add up in each branch (`SplitAddsUp`,
  `PayoutAddsUp`), and `Converted` moves as many tokens as it burns.
- `PausedMeansFrozen` needs that the four flags are equal (`FlagInv`): each
  call pauses or unpauses all four, so that one flag stops every movement.
- `LpTokensWithinCommitments` compares products with sums of rounded quotients:
  each mint of an approval is at most its commitment over the price, and a
  settlement and a redemption take from one summand what they add to another.
- `CallSharesCovered` needs that each total is at least the sum of the
  commitments on record, which a repeated commitment replaces, and that an
  account without a commitment has no record of a call (`CommitmentsCounted`).
  What a call writes is then a sum of rounded shares of a whole.

The waterfall (`WaterfallInv`, one invariant for five properties):

- Entries in the order of their days need that compounding never runs
  backwards, `Grown` in `InterestLemmas`, by induction over the years; and that
  the last entry is not taken for the four zeroes that stand for none
  (`LastDated`), for which no order is checked.
- `CapitalReturned` (LP returns and the outstanding capital together reach what
  was called) is what makes a payment to the GP imply that LPs are whole. The
  distribution that pays everything leaves the capital on the ledger although
  it was paid back (the run `fund_stale`): the invariant is an inequality.
- `CarryOnProfitOnly` says nothing of a state in which LPs are being repaid, so
  `CarryCovered` strengthens it to all of them: capital still outstanding
  counts as not yet called, and catch-up owed as paid.

The execution of calls (`ExecInv`):

- A running call is at a stage, and each stage says what the call has written as
  a function of the storage and of how far it has come: after `n` accounts of
  `approveCommits` the copy has exactly those approved and minted to
  (`ApprovingAt`), after some of the GPs and LPs of `capitalCall` exactly their
  records (`Recorded`), after some payments of `distribute` exactly those
  (`PaidTo`). The stages together are `Running`; each step of a call leads from
  one to the next or reverts (`ApproveContinues`, `CallContinues`, ...), and at
  the last one the copy is what the one step of `Fund` writes (`ApproveReturns`,
  `CallReturns`, ...).
- That an iteration adds one account to a set takes lemmas about the operators
  over sets: `MintedToOneMore`, `ApprovedOneMore`, `MarkedOneMore`,
  `LpRecordOneMore`. An account listed twice is refused by `approveCommits`,
  because the first approval ended its being pending; overwritten with the same
  record by `capitalCall`; and passed over by `markFeesAsPaidUpToID`.
- The loops over years and quarters go through the values of the recursive
  definition (`Progress`). That the quarterly loop ends after one iteration
  needs that no day number, read as seconds, leaves the first quarter of 1970:
  `DatesInRange`, from dates that a `uint32` holds.
- An LP is listed if and only if it ever committed (`ListedOnce`): that is why
  the list has no repetition, and why everyone who can be approved is an LP of
  `Fund`.
- No stage of the invariant mentions another transaction: nothing runs between
  two steps of a call, and every stage is stated about storage that no step but
  the last changes (`RunningStays`).

Interest and the registry:

- `AnnualMatchesDaily` follows day by day (`RefInv`): within a year the entry
  the contract would compute stays the same and its interest grows by a day
  (`AnnualSameYear`); on the first of January the loop runs once more
  (`AnnualNextYear`), and what it adds are the days until then (`YearTurns`).
  `YearOfDay` shows that the year of a day is computed right for every day a
  `uint32` holds, leap years and centuries included.
- `RefinesCompliance` is a step simulation: each setter of a book leaves the
  time alone and changes the set of compliant accounts by one account or not at
  all, and a step of the clock only removes.
- `TwoPeopleAdmit` needs that every compliant record has a signature
  (`RecordsSigned`), and that whoever holds a book's role, or signed under one
  since lost, was named for it by `initialize` or appointed by an administrator
  (`HoldersNamed`, `SignersNamed` in `AccessInv`).

Induction over sets and numbers is done by naming the set of those for which a
claim holds (`NatSetInduction`, `SubsetInduction`), since the provers cannot
instantiate an induction rule with an operator.

Only model-checked:

- `CallsEnd` is liveness, and `RevertsAsFund` is about what is ENABLED: both
  are out of the prover's reach.
- `TokensAreFundTokens`: it holds where an approval names one LP. An approval
  of several is several calls to one token, which no single step of `FundToken`
  is; `FundExecution` has them one by one.

## What is not modelled

- uint256 overflow upwards: amounts of money do not reach 2^256, and TLC's
  integers and the proofs' naturals have no such limit. Subtraction below zero
  is modelled everywhere. The uint16 of a call id wraps in the model.
- The roles of the fund and the tokens, beyond who may take which action.
  `RegistryAccess` composes roles with the registry only. Whoever is granted
  `TOKEN_ADMIN` on a token of the fund can do what `FundToken`'s actions do.
- Proxies, initializers (each `Init` is the state after `initialize`), the
  deployment script, gas.
- OpenZeppelin's JavaScript (release, code generation, build): third-party
  tooling in the tree, no part of the contracts.
- Payers' USDC balances and allowances; `approve` and `transferFrom` of the
  tokens, whose effect here is `transfer`'s.
- Names, types of drawdown and distribution, events: logged, never read.
- `_rejectLpCommitments` and `_capitalCallFailed`, which nothing calls, and
  `gpClawback`, which nothing reads.

## What comes next

What the code does is modelled, and what the runs check as an invariant or as
an action property is proved, with the exceptions listed under "Only
model-checked". Of these, `TokensAreFundTokens` can be proved for funds in which
approvals name one LP, action by action, from the lemmas in `LedgerLemmas`; the
theorems of `FundTokenProofs` would then hold of each token inside such a fund.
