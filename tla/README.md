# A verification project for StepFi-Contracts

StepFi lends small, guarantee-backed amounts to borrowers with an on-chain
reputation score, out of a pool that sponsors fund. Six Soroban contracts keep
the money and the trust. This directory models them in TLA+, checks small
instances with TLC and proves their safety properties with TLAPS.

Run from this directory:

    tlasany CreditLine.tla
    tlc -workers 2 -config MCPoolAccounting.cfg MCLiquidityPool
    tlapm LiquidityPoolProofs.tla

## 1. Inventory

All paths are under `src/contracts/<crate>/src/`. Each contract is sequential:
the host runs one transaction at a time, an `Err` or a panic anywhere in the
call tree reverts the whole transaction, and a contract cannot be re-entered.
What interleaves is transactions: of borrowers, providers, vendors, mentors,
several admins and, for the permissionless entry points, of anybody.

| Contract | State | Operations that change it | Calls |
|---|---|---|---|
| liquidity-pool | `TotalShares`, `TotalLiquidity`, `LockedLiquidity`, `LpShares(provider)`, pause, outflow cap and its (ledger, used) window, exposure cap and `MerchantFunded(vendor)`, wired addresses | deposit, withdraw (provider); fund_loan, receive_repayment, receive_guarantee, absorb_loss, distribute_interest / accumulate_interest (credit line); set_outflow_cap_bps, set_merchant_exposure_cap, set_vendor_registry, pause, unpause, address setters, upgrade (admin) | token, vendor registry |
| creditline | loans by id, per-borrower paginated loan index, `UserActiveDebt`, pause, wired addresses | create_loan, request_loan, cancel_loan, repay_loan, repay_installment (borrower); approve_loan, pause, setters, upgrade (admin); apply_late_fees, mark_defaulted, warn_grace_period (anyone) | token, pool, reputation, vendor registry, parameters |
| reputation | score per user (0..100), updater set, admin | increase_score, decrease_score, set_score, add_boost, remove_boost (updaters); set_updater, set_admin, upgrade (admin) | - |
| parameters | protocol parameters, guarded by an admin or by a multisig with proposals | configure_multisig, confirm_multisig (admin); propose, approve (signers); execute (anyone) | - |
| vendor-registry | vendor records and their status | register_vendor, approve_vendor, suspend_vendor, deactivate_vendor, activate_vendor, set_vendor_status, upgrade (admin) | - |
| vouching | vouches by mentor and learner, total boost and baseline per learner, verified mentors | vouch, revoke_vouch (mentor); expire_vouch (anyone); set_mentor, upgrade (admin) | reputation |

Shared by four contracts: a propose/execute upgrade timelock. Outside the
repository: the SEP-41 token.

**How they interact.** Opening a loan pulls the guarantee from the borrower to
the credit line and makes the pool pay the vendor `total - guarantee`; the pool
locks that amount. A repayment goes from the borrower through the credit line
into the pool, which splits it into principal (unlocks) and interest plus fees
(85 % stay with the providers, 10 % and 5 % are passed on). The last repayment
returns the guarantee and raises the score. A default sends the guarantee to the
pool, has it absorb the shortfall and lowers the score. Approvals, defaults and
terms read parameters, vendor status and score *at that moment*.

**What is hard.** Eight quantities in four contracts describe the same money:
debt counters, loan balances with four buckets, escrow, locked and total
liquidity, shares, exposure, token balances. Each transaction updates its own
subset, with caps (`min`, saturating subtraction) that differ from place to
place. The share price is truncated and floored. Caps roll with the ledger.
Callee refusals (score bounds, pauses) revert callers. Parameters, scores,
vendor status and pause switches change in the middle of a loan. The hazards
are listed with their lines in `PROJECT.json`.

**What makes each part correct.**

* *Pool*: locked never above total; shares accounted for; a round trip never
  profits from rounding; the share price falls only when shares are issued, a loss is
  written off or, by at most 1/10000 of a token per share, shares are redeemed at the
  floored price; caps hold over all payouts of a ledger; a pause freezes everything but repayment.
* *Loans*: balance equals its buckets; a borrower's debt equals its active
  loans; the escrow is exactly the open guarantees; the pool can account for
  every token of its liquidity; no day is charged twice; partial repayment is
  never blocked; only the score can block a default; matured loans are
  eventually closed.
* *Reputation, vouching*: scores in 0..100; a boost is taken back once.
* *Parameters*: nothing changes without a quorum of different signers in office;
  no change of signers outlives the committee it was proposed under; the committee
  can always reach its quorum.
* *Vendor registry*: a vendor is paid only while it is approved.
* *Loan index*: every read returns the slice of the borrower's loans it asks
  for; no page outgrows its capacity.
* *Upgrades*: new code was announced, as that code, and waited its delay.

## 2. Modules

| Module | Models | State |
|---|---|---|
| `SafeMath` | basis points, capped subtraction | - |
| `Token` | the external token: balances and a transfer that traps | - |
| `Sums` | sums of a function over a finite set | - |
| `PoolAccounting` | the pool's entry points: a guard `XxxOk` and an effect on the storage record for each | - |
| `LiquidityPool` | the pool under providers, an admin and an *arbitrary* credit line | `pool`, `bal`, `ledger`, history `paid` |
| `Loan` | one loan: terms, late-fee accrual, payment waterfall, maturity, reward and penalty | - |
| `CreditLine` | every loan transaction with all its calls, composed over `PoolAccounting`, `Token`, the score, the vendor status and the parameters | `loans`, `debt`, `paused`, `params`, `score`, `vendorStatus`, `pool`, `bal`, `now` |
| `LoanLedger` | abstract specification: what the credit line promises about a loan's stages, its guarantee and its borrower's debt; `CreditLine` implements it | `book`, `escrow`, `debt` |
| `VendorRegistry` | the statuses of a vendor and what each entry point asks of them | - |
| `Reputation` | the bounds of a score and the refusal to leave them | - |
| `Vouching` | vouches on top of the scores: boost, shared baseline, clamped removal, expiry, and the other updaters that move the same score | `score`, `updater`, `boost`, `verified`, `vouch`, `total`, `baseline`, history `punished` |
| `LoanIndex` | the loans by id and the paginated index of each borrower, with the entries an earlier version of the contract left | `owner`, `legacy`, `count`, `pages` |
| `Governance` | the parameters contract: committee, proposals, approvals, execution | `admin`, `govParams`, `version`, `multisig`, `pendingMultisig`, `proposals`, `now` |
| `Upgrades` | the upgrade timelock of four contracts and the instant upgrade of vouching, composed with `Governance`, which sets the delay | `wired`, `announced`, `code`, history `notice` |
| `MCLiquidityPool`, `MCCreditLine`, `MCVouching`, `MCLoanIndex`, `MCGovernance`, `MCUpgrades` | constants for TLC | - |
| `SumTheorems` | lemmas about `Sum` | - |
| `PoolAccountingProofs` | lemmas: arithmetic of truncated prices, what each entry point of the pool does to a storage record | - |
| `LiquidityPoolProofs`, `CreditLineProofs`, `VouchingProofs`, `LoanIndexProofs`, `GovernanceProofs`, `UpgradesProofs` | the inductive invariant and the theorems of the module each is named after | - |

`PoolAccounting` holds operators over a record rather than actions because one
transaction may call the pool twice: `mark_defaulted` calls
`receive_guarantee` and then `absorb_loss`, and the second call sees the state
the first one left. `LiquidityPool` and `CreditLine` compose the same operators,
so a pool property checked or proved in `LiquidityPool` covers any caller, and the
lemmas about them serve the proofs of both.

Correspondence with the code. One action per transaction; its guard is the
conjunction of every check on the path, callees included; its effect is
everything written. In `CreditLine` the registry's admin moves the vendors' statuses
between any two steps of a loan, and an executed parameter proposal is the step
`ExecuteParameters`; how it came to be executed is `Governance`. In `Upgrades` the
committee is the whole of `Governance`, whose parameters the announcements read.
Amounts are integers, `\div` is i128 division of
non-negative numbers. `now` is both the ledger timestamp and its sequence in
`CreditLine`; in `LiquidityPool` several transactions share one `ledger`.
`distribute_interest` and its alias `accumulate_interest` are one action. The
variable `paid` is a history of what left under a cap in the current ledger, and
`punished` remembers that a score was lowered since the first active vouch,
and `notice` is each contract's last announcement with the delay then in force; no
guard reads them. An installment is its due date and its paid mark, since no
computation reads its amount.

Facts of the code worth knowing when reading the models:

* the reentrancy lock is FALSE between transactions (a failing transaction
  reverts it), so it is not represented;
* `warn_grace_period` emits an event and changes no state;
* ending a vouch may take back *part* of its boost: if penalties left the score
  between the baseline and the baseline plus the boost, exactly what is above the
  baseline goes. What a penalty consumed is not charged again;
* a mentor who is no longer verified keeps its active vouches until it revokes
  them or they expire;
* late fees start at the *earliest* passed due date whether or not that
  installment was marked paid, and any amount marks an installment paid;
* the maturity of a loan is the *last* entry of its schedule even if the schedule
  is not sorted, so an unsorted loan may mature before its latest date;
* the cursor of late fees does not move when the fee rounds to 0;
* `create_loan` accepts an empty schedule; such a loan never matures and can
  only end by repayment. `approve_loan` refuses it;
* a full repayment collects the total of the loan as principal while the pool paid
  out the total without the guarantee. The pool's liquidity does not count the
  difference, which stays in its account (`PoolTokensExact` says exactly how much is
  uncounted), and unlocks more than was locked, out of other loans' locks, so
  `LockedLiquidity` can be below what is out on loans;
* the number of shares of a deposit is divided by an already truncated price and
  may be a share more than the exact quotient. Redeeming them still never profits
  (`RoundTripNeverProfits`), although the comment at `liquidity-pool-contract/src/lib.rs:248`
  says that a depositor never receives more;
* a price that truncates to 0 is floored to 1. It takes losses as large as the
  liquidity, which means all of it lent and defaulted, and then deposits at that
  price. From then on a share redeems for 1/10000 of a token even where its part of
  the liquidity is less, and a withdrawal lowers what the other shares are worth:
  with the contract's constants, deposits of 10^6 around two total losses leave 10^10
  shares that redeem for 1,000,000 tokens where their part is 900,819. That is the
  only case (`PriceFallsOnlyForCause`), and it contradicts the comment above the
  division (`MCWithdrawalRounding`);
* nothing assigns the vendor status "Rejected", and `activate_vendor` approves a
  vendor that is still pending;
* once a committee is confirmed the admin has no say in the parameters contract;
  one approver who lost the seat blocks a proposal. A signer who gets
  the seat back before the proposal expires is eligible again and the old approval
  counts again, although the comment at `parameters-contract/src/types.rs:78` says
  that a removed signer's approval does not count. `CommitteeRules` is about
  membership at proposal and at execution, which is what the code enforces;
* `set_late_fee_bps` is not validated, but validation does not look at that rate;
* an announced upgrade survives a change of the admin. The vouching contract's
  upgrade is the admin's alone and instant, and the parameters contract upgrades
  itself on the spot when a quorum executes it;
* the pool, the reputation contract and the vendor registry declare
  `ProtocolParameters` without `late_fee_bps`, so they cannot decode the record the
  parameters contract returns and never learn the governed delay;
* a page of the loan index created by the next loan covers the places of legacy
  entries if those did not fill whole pages; a read of these places then returns
  another loan's id, or does not return because the loop of the read does not
  advance. `ReadsExactUnlessOverlap` says that this is the only case.

Definitions commented "Mutation:" are not part of any specification. Each is a
plausible bug of the operator that follows it; replacing the operator by it
makes a named property fail (`PROJECT.json`, "mutants"), which shows that the
property watches the code.

## 3. Model checking

| Run (cfg) | Question | Instance |
|---|---|---|
| `MCPoolAccounting` | Do shares, liquidity and locked liquidity stay consistent, what lowers the share price, and do the outflow cap and the exposure record hold while the admin switches them between payouts, whatever the credit line does? | 2 providers, deposits 2 (refused), 3, 5, redemption of one share or all, up to 18 shares; 2 vendors, 2 ledgers, caps off and 50 %, ceiling off and 3 |
| `MCCreditLineAccounting` | Do the books of credit line, pool and token agree through every path of a loan, is each day late charged once, and does the credit line implement `LoanLedger`? | 2 borrowers, 2 loans of two installments, time to 4, a day a tick, up to two late days charged at once or one by one; payments of 150, of the late fees but one token, and of everything |
| `MCCreditLineLifecycle` | With pauses, suspensions, foreign score updates and parameter changes inside a loan: is partial repayment always possible, what can block a default, is a matured loan closed, is only an approved vendor paid, are parts of days left uncharged? | 1 borrower, 1 loan of four shapes (one refused), time to 6, a day of two ticks, two parameter records, one vendor, unregistered at first |
| `MCVouching` | Is every boost accounted for and taken back once, whatever else moves the score, and does every vouch end? | 2 mentors, 1 learner, boosts 10 and 25, rewards of 15, penalties of 20, duration 1 |
| `MCGovernance` | Can anything change without a quorum of members, can a change of signers outlive its committee, can the committee lose the ability to act? | 4 addresses, committees of 3 with threshold 2 or 3 and choices validation refuses, 7 actions, 2 proposals, lifetime 1, time to 2 |
| `MCUpgrades` | Does new code always wait the delay of its announcement, and use it once, while governance changes the delay? | credit line and pool, 2 codes, 2 upgrades of each, 2 signers, 1 proposal, delays 0, 1 and 2, time to 3 |
| `MCLoanIndex` | Are reads of the paginated index exact at every offset and limit, from every storage an earlier version may have left? | pages of 3, 2 borrowers, 9 loans, 4 legacy storages |

**Bounds.** TLC's integers have 32 bits and share prices depend on the ratio of
small numbers, so the pool runs scale the constants: precision 4 for 10 000, 1 dead
share for 1000, minimum deposit 3 for 1000. What matters is kept: the first deposit
buys more than the dead shares, and truncation and the floor of the price both occur
within a few deposits and losses. At 18 shares a pool that lost everything has been
deposited into and redeemed from at the floored price: without its last disjunct
`PriceFallsOnlyForCause` fails in the passing run, and the violation run, which has no
other limits to explore, goes to 40 shares. The bound on shares (`FewShares`) is needed
because deposits after a total loss multiply them; the tokens are conserved, which
bounds everything else. The admin's limits and the second ledger multiply the states of
the pool's accounts without touching them, so `Scope` explores the accounts with the limits as
initially set, and the limits over pools in which money came in, was lent and withdrawn
but nothing was repaid or lost.

In the loan runs fees, tiers and limits are the contract's own; the amounts
(200, 400, 500) are chosen such that every bucket is non-zero, that two loans
approach a limit of 1000 and that partial payments of 150 or 180 end inside
different buckets; a borrower may also pay the late fees but for one token, so that a
repayment charges more than it pays, or everything owed. A day is one tick in the accounting run, where two
late days are charged at once or one after the other, and two ticks in the
lifecycle run, where half days are left over. Two loans are enough for the accounting
hazards: they arise between one loan's unlocks and another's locks. The lifecycle run
has one loan: that the locks of other loans do not block a default either is shown by
the theorem about `DefaultBlockedOnlyByScore`, not by the run.

In the vouching run time is the age of each active vouch, which stops one past
the duration because the contract only asks whether it is over; so no bound on
time is needed and the state space is finite as it is. Two mentors suffice for
overlap, since a vouch interacts with the others through their sum and the
shared baseline only. Scores move in steps of 5, so that a boost is refused
near 100, and penalties reach below the baseline.

In the governance run two proposals are what the sweep of stale changes of signers
and re-proposals need; one of the two may replace a signer and the other be open
while it happens. A lifetime of 1 puts times before, at and after the expiry within
`MaxTime`. In the upgrade run the default delay of 1 lies between the delays 0 and 2
that the committee switches between, so a shortened, a lengthened and an ignored
delay are all told apart by time 3; one contract reads the governed delay and one
does not. Every contract may be upgraded twice (`MaxUpgrades`), so that an announcement
that outlived its execution would be used again. In
the index run nine loans of two borrowers fill pages and cross their borders, and the
legacy storages leave a borrower with nothing, part of a page, a whole page and both.

**Symmetry** is used on providers, borrowers and codes, which start alike and which no
action singles out, and only in runs without liveness properties.

**Deadlock** is checked in the pool, vouching and index runs. The loan, governance and
upgrade runs stop when time, loans, funds or proposals have reached their bounds, and
say so with `CHECK_DEADLOCK FALSE`.

**Refinement.** `CreditLine` instantiates `LoanLedger` with `book` as the loans without
terms, schedules and buckets, `escrow` as the balance of the credit line's account and
`debt` as its own counter; `LedgerKept` is the abstract specification under that
mapping. A loan transaction of the code maps to one abstract step or to a stutter; in
particular `apply_late_fees` is an adjustment of what is owed, and a transaction that
closes a loan releases its guarantee and its debt in the same step.

**Fairness.** In `CreditLine`, `FairSpec` assumes weak fairness of `Tick`, ledgers close, and of
`mark_defaulted` for each loan: the entry point is permissionless, and providers
have an interest in calling it. Nothing is assumed of borrowers, admins or
governance. `MaturedLoansClose` is conditional on the contracts staying
unpaused and on the score being able to bear the penalty from some time on,
which is exactly what the code makes the closing of a loan depend on. In
`Vouching`, it assumes weak fairness of time and of `expire_vouch`, which needs no
authorization. `VouchesEnd` is conditional on the vouching contract staying an
authorized updater, without which the reputation contract refuses the removal.

### Where documentation and code disagree

Each run checks one statement of the repository and TLC finds a state of the
model that contradicts it.

| Run (cfg) | Statement | What the code does |
|---|---|---|
| `MCWithdrawalRounding` | a withdrawal pays slightly less than the shares are worth, never more (comment at the division) | at the floored price it pays more, at the other providers' cost: 12 of 18 shares redeem for 3 where their part is 2.67 |
| `MCFullRepayment` | the reward is capped at 100 (test comment) | it is refused above 100 and the refusal reverts the last repayment |
| `MCDefaultPenalty` | a matured loan can always be marked defaulted (comment at `warn_grace_period`) | not when the score is below the penalty |
| `MCApprovalLimit` | the credit limit of the score is enforced (README) | approvals do not check it again, two pending requests pass it together |
| `MCUpgradeDelay` | every contract's upgrade waits the delay that governance set (comment in `types.rs`) | three contracts cannot decode the parameters (see above) and use the default or refuse the announcement |

The passing runs state what does hold instead: `DefaultBlockedOnlyByScore` (nothing
else, no lock of the pool or other loan, stands in the way of a default),
`PartialRepaymentNeverBlocked`, `PriceFallsOnlyForCause` (a withdrawal rounds
against the others at the floored price only, and by how much), `PoolSolvent` (the pool's liquidity is in its account or out on loans), `PoolTokensExact`
and `AvailableIsHeldUntilDefault` (until the first default the account holds the
liquidity that is not out on loans and, beyond it, exactly the guarantees of fully
repaid loans, and what the pool calls available is in it), `NoticeIsNeverEmpty`.

Three more sentences do not hold as written and have no run of their own: the comment that a
depositor never receives more shares than the exact quotient (see above), the comment about a
removed signer's approval (it counts again if the signer comes back), and `docs/PRD.md:221`, "no single-key instant upgrade", which
the vouching contract's `upgrade` is.

## 4. Proofs

Every safety invariant and action property that a passing run checks, and the
refinement of `LoanLedger`, is also a theorem: it holds for all sets of borrowers,
providers, vendors, mentors and addresses, all amounts, parameters, schedules, scores
and delays, and whatever the bounds on time, loans, proposals and shares.

| Module | Theorem | Proves |
|---|---|---|
| `LiquidityPoolProofs` | `PoolTypeCorrect` | `Spec => []TypeOK` |
| | `NeverOverlocked` | `Spec => []LockedWithinLiquidity` |
| | `NoShareLost` | `Spec => []SharesAccounted` |
| | `WindowExact` | `Spec => []WindowIsThisLedgers` |
| | `OutflowCapped` | `Spec => CappedOutflow` |
| | `PauseFreezes` | `Spec => PauseFreezesAllButRepayment` |
| | `RoundTripsDontPay` | `Spec => []RoundTripNeverProfits` |
| | `PriceFalls` | `Spec => PriceFallsOnlyForCause` |
| | `ExposureExact` (`VendorsApart`) | `Spec => []ExposureIsPayouts` |
| `CreditLineProofs` | `TypesHold` | `Spec => []TypeOK` |
| | `BucketsBalance` | `Spec => []LoansBalanced` |
| | `DebtsAddUp` | `Spec => []DebtIsActiveBalance` |
| | `EscrowHeld` | `Spec => []EscrowExact` |
| | `Solvency` | `Spec => []PoolSolvent` |
| | `AvailableHeld` | `Spec => []AvailableIsHeldUntilDefault` |
| | `PoolTokens` | `Spec => []PoolTokensExact` |
| | `PartialRepaymentsPass` | `Spec => []PartialRepaymentNeverBlocked` |
| | `DefaultsOnlyNeedScore` | `Spec => []DefaultBlockedOnlyByScore` |
| | `LateFeesOnce` (`BorrowersApart`) | `Spec => LateDaysChargedOnce` |
| | `VendorBooksAgree` (`VendorsApart`) | `Spec => []ExposureIsFundedLoans` |
| | `PayoutsNeedApproval` (`VendorsApart`) | `Spec => OnlyApprovedVendorsPaid` |
| | `LedgerImplemented` | `Spec => LedgerKept` |
| `VouchingProofs` | `VouchTypes` | `Spec => []TypeOK` |
| | `BoostsAdd` | `Spec => []BoostsAccounted` |
| | `RemovalsAccepted` | `Spec => []RemovalNeverRefused` |
| | `BoostsReturned` | `Spec => BoostTakenBack` |
| `GovernanceProofs` | `GovTypes` | `GovSpec => []GovTypeOK` |
| | `SignerProposals` | `GovSpec => []SignerProposalsCurrent` |
| | `QuorumsAttainable` | `GovSpec => []QuorumAttainable` |
| | `CommitteeGoverns` | `GovSpec => CommitteeRules` |
| `UpgradesProofs` | `NoticesNotEmpty` | `UpgradesSpec => []NoticeIsNeverEmpty` |
| | `UpgradesWaited` | `UpgradesSpec => UpgradesWait` |
| `LoanIndexProofs` | `PagesWithin` | `IndexSpec => []PagesWithinCapacity` |
| | `ReadsExactOrOverlap` | `IndexSpec => []ReadsExactUnlessOverlap` |

**Assumptions.** The `ASSUME`s of the modules, each named and evaluated by TLC in every run
of its module: constants of the contracts are positive, inputs are naturals or records
of the right type, the accounts of the pool and of the credit line are nobody else's,
initial balances and scores are in range, addresses, mentors and providers are finite
sets, `initialize` of vouching refuses a boost of 0.

Three theorems have a hypothesis besides, `VendorsApart`: a vendor is not also a
borrower, a provider or an account that collects fees. The code does not enforce it.
Without it the properties are false for a trivial reason, a vendor that deposits sees
its balance fall, so they are stated for the vendors that have no other role. The
instances that TLC checks satisfy it. `LateFeesOnce` likewise assumes `BorrowersApart`: a
borrower is not an account that collects fees. The property measures what was charged
by what the borrower's account lost, and such a borrower gets part of its payment back.

**The pool.** `TypeOK` is not inductive: that a withdrawal leaves naturals
depends on `locked <= liquidity` (it is checked against the available
liquidity) and on every provider's shares being part of the total. The window is
this ledger's only because it is never dated later than the present. So
`Inv` is the conjunction of the type, `LockedWithinLiquidity`,
`SharesAccounted`, the window's date and `WindowIsThisLedgers`. For each entry
point an effect lemma of `PoolAccountingProofs` (`DepositEffect`, `WithdrawEffect`, ...)
says what the operator of `PoolAccounting` does to a record, independently of the
variables, so that the same lemmas serve the credit line; a lemma per action
(`DepositInv`, ...) then preserves `Inv`. `SharesAccounted` rests on `SumTheorems`, which
derives from the definition of the fold (no induction theorem with an operator
parameter is used: a minimal counterexample exists because the subsets of a finite set
are well founded) that a sum changes by the difference when one value changes.

Rounding is nonlinear. The provers get it in pieces: products keep order, a positive
factor cancels, a rounded quotient is the largest number that fits (`ProductOrder`,
`ProductCancel`, `DivLargest`), from which `FloorOrder` compares two rounded quotients by
cross-multiplication. `RoundTripLoses` then has two cases. If the purchase does not raise
the rounded price, the shares redeem at most at the price they were bought at. If it does, the
exact price must have risen, so the shares were bought above it, and even the exact
price after the purchase redeems them for no more than was paid.
`RedemptionKeepsPrice` says that a truncated payout is at most the burnt shares' part of
the liquidity, unless the price is floored; then `FlooredWithdrawal` bounds the payout by
one Precision-th of a token per share.

**The credit line.** The accounting properties are inductive only together. `Inv` adds to
`TypeOK` that the pool is one the effect lemmas apply to, that each loan is balanced, has
a guarantee between 1 and its total and owes all of its principal while it waits for
approval, and one equation or bound for each total that the contracts keep in counters and accounts: debt, escrow, solvency, availability, the pool's
tokens, the vendors' exposure. Each total is `Total(w, loans)` for a weight `w` of one
loan, so that a transaction's effect on all of them follows from how it changes the
weights of the one loan it touches (`TotalExcept`, `TotalAppend`). A repayment
finds its tokens because the balance is the sum of the buckets; a default can be
collected because the escrow holds every guarantee; what a default takes off the
liquidity stays within the exposure because locked never exceeds liquidity.
`LedgerImplemented` maps every transaction to one action of `LoanLedger` or to a stutter,
using the escrow and the debt equation before and after the step.

`LateFeesOnce` compares two independent accounts of one step: what the borrower lost and
the loan's balance fell by (`Charged`), and where the cursor moved. `AccrualDays` says which days
an accrual charges for, `SettlePaid` what a repayment takes from the borrower through the transfers of
credit line, pool and funds, the returned guarantee included; together (`SettleCharges`) the
fee of those days is charged, also when the payment covers it at once.

**Vouching.** `VouchInv` says of each learner that the total is the sum of the active vouches,
that a baseline is kept exactly while the total is not 0, and that a score nothing lowered
stands above the baseline by at least the total. The last part is what makes overlapping vouches
removable in any order, and does not appear in the properties.

**Governance and upgrades.** `GovInv` adds to the properties that a committee in office, and one
that waits for confirmation, passed the validation, that no proposal is approved twice by
one address or by one outside its snapshot, and that there are no proposals before
there is a committee. `UpgradesSpec` implies `GovSpec` (`UpgradesGovern`), so the theorems about the
committee hold in the composition; `UpgradesInv` says that an announcement agrees with the
last notice and its delay is not empty.

**The loan index.** `IndexInv` describes every page exactly: page `n` of a borrower holds the
loans from `PageStart`, its first place or the end of the legacy entries if that is
later, up to `PageEnd`, its last place or the last loan, and exists exactly if that is not
empty. This holds even where a page overlaps legacy entries; reads go wrong there only because
they look in the wrong place, which is why `ReadsExactUnlessOverlap` is an equivalence:
`ReadsAreExact` proves one direction, `OverlapBlocks` finds in the other the read that does
not return. `MadeIn`, what a borrower has made, is a recursive function; `MadeInStep`, its value after one loan
more, is again by a minimal counterexample.

**Only model-checked.** Liveness, which is beyond the prover: `MaturedLoansClose` and `VouchesEnd`.
That the five statements under *Where documentation and code disagree* fail is TLC's
counterexample.

## 5. Not modelled

* Overflow of i128: every operation is checked and reverts. Amounts are far
  below 2^127.
* Events, storage TTL and its extension: no contract reads them. An expired
  entry is restored before use by the network.
* `require_auth`: an action is taken by the caller the code authenticates.
* Direct token transfers to a contract's account ("donations"): no contract
  reads its own token balance to compute prices, only the transfer's success
  depends on it.
* The setters of admins and wired addresses, the unconfigured states before
  deployment finishes and the optional calls skipped when an address is not
  configured. The models start from the wired system.
* The index of a learner's mentors, which never shrinks and which only
  `get_vouches` reads.
* The sharding of loan entries, a function of the id, and the number of vendors.
* What upgraded code does, its migrations included. `LoanIndex` starts from every
  kind of storage the earlier version left.

## 6. Plan

The models and the proofs planned for them are written. What could follow:

1. the enabling conditions that the liveness properties rest on, as invariants: that a
   matured loan's default and an overdue vouch's expiry are enabled is already
   `DefaultBlockedOnlyByScore` and `RemovalNeverRefused`; the temporal argument from
   fairness stays with TLC;
2. the setters of wired addresses and the optional calls skipped when one is missing.
