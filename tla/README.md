# Verification of the SCRT liquid-staking protocol

TLA+ models of the liquid-staking contract in `contracts/lst-core`, of the
keeper that maintains it, of the web application its users see and of the
scripts that deploy and upgrade it; the TLC configurations that check them on
small instances, and TLAPS proofs about them for every value of their
constants.

Paths without a directory (`contract.rs`, `windows.rs`, ...) are files of
`contracts/lst-core/src`. `types.rs` and `msg.rs` are in
`packages/lst-types/src/core`; `tasks.ts`, `index.ts`, `client.ts` and
`invariants.ts` in `keeper/src`; `page.tsx` alone is `app/src/app/page.tsx`, and
`protocol.ts`, `chain.ts`, `history.ts`, `endpoint.ts` and `upkeep.ts` are in
`app/src/lib`.

## 1. The system

Users deposit SCRT and receive shares, a SNIP-20 token that the contract mints.
The SCRT is staked with a weighted set of validators; rewards are compounded,
so a share is worth ever more SCRT. Redeeming a share burns it at once, fixes
what it is worth, and puts the claim into the *open window*. A window closes on
a schedule (one batch undelegation for all its claims), unbonds for three weeks
at the chain, matures, and pays its claimants.

| Component | State it keeps | Operations |
|---|---|---|
| Share accounting, `math.rs` | none | shares for a deposit, SCRT for shares, fee shares, entry-slot arithmetic |
| Unbonding windows, `windows.rs` | one `UnbondWindow` | open, close, mature, payout of a claim |
| Validator set, `validators.rs` | the ordered list of entries | check and apply weights, choose a delegation target, plan an undelegation |
| Contract core, `contract.rs`, `state.rs` | `CONFIG`, `VALIDATORS`, `SYNC_CURSOR`, `TOTALS` (pricing cache), `WINDOWS`, `OPEN_WINDOW`, `NEXT_WINDOW_ID`, `ACTIVE_WINDOWS`, `CLAIMS` and `CLAIM_INDEX` | instantiate, Bootstrap, Deposit, Receive/Unbond, AdvanceWindow, CollectMatured, ClaimMatured, Sync, Compound, SetWeights, SetPerformanceFee, Rebalance, SetPaused, migrate |
| Queries and permits, `contract.rs` | none | read-only |
| The chain (external) | delegations, rewards, unbonding entries, bank balance | delegate, undelegate, redelegate, pay out, slash |
| SNIP-20 token (external) | supply, balances | mint, burn, send with a hook |
| Keeper, `keeper/src` | two schedules with deadlines; the stakes and the rate of the last check; all in memory | each pass: health checks, window upkeep, compound, sync as a fallback; the loop around it |
| Stake page, wallet and account drawer, `app/` | connection, permits (storage), the figures read, the form, the transaction in flight | connect, restore, follow the extension's account, disconnect; read balances and claims; stake, withdraw, claim |
| Keeper page, `app/` | one reading of the protocol, the batch in flight | judge what is due, run it in one transaction |
| Governance page, `app/` | one reading, the manager's form, the message in flight | weights, fee, pause, rebalance; lists proposals |
| Statistics page, `app/` | the range, the load under way, the chart | ask past blocks for the protocol's state |
| Settings, `app/` | the chosen node and the custom nodes (storage, shared by tabs) | add, check, use, forget a node |
| Scripts, `scripts/` | the build, the deployment record, the application's `.env.local` | build, deploy, upgrade, devnet, probes |

**Interaction.** A handler runs to its end in one transaction with the chain
messages it emits: all take effect or none does. There is no interleaving inside
a handler. The concurrency is between transactions: anybody may call the
upkeep operations in any order between anybody's deposits and requests, with
slashes, rewards, payouts and gifts of the chain in between that the contract
does not see until somebody reads them. A handler therefore works on three
versions of the truth: what the chain says now, what the contract cached, and
what the windows remember.

The keeper, the application and the scripts know the contract by queries and act
on it by transactions, with awaits between a reading and the act that relies on
it. Whatever they have read may be out of date, other callers may have done the
same job, an answer may be lost after the chain has acted on the call, and the
process, the tab or the script may be gone. None of them talks to another: they
share the contract, and the application's tabs share the browser's storage.

**What is hard.**

- Money moves through five places (pool, open window, unbonding, matured,
  claimant), and its liability with it, in transactions weeks apart. The
  liabilities are moved with saturating subtractions, which would hide a slip.
- The contract decides maturity by its own clock and infers from its balance
  what came back. Nothing tells it which money belongs to which window.
- A slash can fall between any two steps, on delegations and on entries.
- A closing rides on deposits and requests and must never be why one fails,
  though it emits messages the chain may refuse.
- Prices are floored, the supply and the rewards are cached, and the cache is
  refreshed by different operations to different extents.
- The chain allows seven unbonding entries per validator; the contract counts
  them itself.
- The keeper's deadlines are noted from one pass to the next and consumed there;
  its paged loops end on what a query says after the call; its memory dies with
  it; its clock is not the chain's.
- Reads of the application are asked for under one account, mode or range and
  land under another. Its limits and its lists are those of an earlier reading,
  and one query answers with fifty windows at most.
- A script is a line of irreversible transactions that may break off anywhere,
  and its only memory is a file written at the end.

**What makes each component correct.**

- Share accounting: no conversion takes from those who stay; a fee is worth the
  fee.
- Windows: forward only; payouts share a loss and never exceed what came back.
- Validator set: weights complete, one entry per validator, drained validators
  gain nothing, plans the chain can carry out.
- Core: the queue is well formed; the liability legs are the windows' own
  figures; claims add up to windows; matured money is in the balance; claims are
  final; caches are as fresh as they claim.
- Keeper: what is due gets done, whatever failed before; a deadline is not
  missed by more than an interval; nobody is woken for nothing.
- Application: what is shown belongs to who and what is selected; what is due is
  offered; what the screen allows, the contract accepts, unless somebody
  overtook it.
- Scripts: no step leaves the deploy key a power it should not keep; a success
  is one; a record can be used by the next script.

The hazards this analysis found, each with its line and the properties that watch
it, are listed in `PROJECT.json`.

## 2. The modules

| Module | Models | Uses |
|---|---|---|
| `ShareMath` | `math.rs`: pure operators | |
| `Windows` | `windows.rs` and `UnbondWindow`: pure operators over a window record | `ShareMath` |
| `ValidatorSet` | `validators.rs`: pure operators over the list of entries | `ShareMath` |
| `LstCore` | `contract.rs` with the chain and the token around it: variables, one action per handler, one per event of the chain | `Windows`, `ValidatorSet` |
| `WithdrawalQueue` | the abstract promise to somebody who leaves: receipts on batches, sealed once, back once, paid once | |
| `LstCoreProperties` | what the contract promises, and the mapping to `WithdrawalQueue` | `LstCore`, `WithdrawalQueue` |
| `MCLstCore` | values of the constants for TLC | `LstCoreProperties` |
| `KeeperMonitor`, `MCKeeperMonitor` | `invariants.ts`, the watch over the stakes, composed with the whole contract | `LstCoreProperties`, `MCLstCore` |
| `Keeper` | `index.ts`, `tasks.ts`, `client.ts`: the loop, its schedules and its tasks | |
| `WalletSession` | `components/Wallet.tsx`, `chain.ts`, and the reads of `page.tsx` and `components/Account.tsx` | |
| `StakeForm` | `page.tsx`: the form, its refreshes and the date it tells | |
| `UpkeepPage` | `keeper/page.tsx`, `upkeep.ts`, the batch of `protocol.ts` | |
| `ManagerConsole` | `governance/page.tsx`: the manager's form, judged again by the contract's own checks | `ValidatorSet` |
| `ChartHistory` | `history.ts`, the loads of `statistics/page.tsx` | |
| `Endpoints` | `endpoint.ts`, `components/Settings.tsx` | |
| `App` | one browser tab: the page that is open, with its own state | the six modules above |
| `Release` | `scripts/deploy.mjs`, `scripts/upgrade.mjs` | |
| `SumFacts` | proofs about sums and counts | |
| `TypeProofs`, `LedgerProofs` | proofs about the arithmetic and about `LstCore`, each on top of the one before; the last also that it implements `WithdrawalQueue` | `SumFacts` |
| `SetProofs` | proofs about the contract's validator set and the chain's entries | `LedgerProofs` |
| `WatchProofs` | proofs by the chain's own figures: dilution, the fee, the keeper's alarm | `SetProofs`, `KeeperMonitor` |
| `KeeperProofs` | proofs about the keeper's loop | `Keeper`, `SumFacts` |
| `AppProofs` | proofs about the pages in `App` | `SumFacts` |
| `ReleaseProofs` | proofs about the scripts | `Release` |

### The contract

**State.** The variables of `LstCore` are the storage items of `state.rs`:
`config`, `validators`, `cursor`, `totals`, `windows`, `openWindow`,
`nextWindowId`, `active`, `claims`; then the chain: `now`, `delegated`, `accrued`,
`unbonding`, `balance`, `token`. `seen` counts the bounded events and is read
by properties only. `CLAIM_INDEX` is the domain of `claims[u]`. `ACTIVE_WINDOWS`
is a set: ids are pushed in increasing order and only ever filtered, so the
list is the set in order, and `Collected` and `Available` use that order.

**Actions.** Each action is a whole handler with the effect of every message it
emits. `Deposit` and `Unbond` re-read the set (`RefreshedSet`), price, write, and
then close the window along the way if they can (`CloseWindowIfOverdue`, the
handler's tail, is part of the action). `ClaimMatured` matures every due window
first, as the handler does. `Compound` works on a page and moves the cursor it
shares with `Sync`. An action is enabled when the handler returns Ok and the
chain accepts its messages; an error of either kind leaves everything as it was,
so a refused transaction is no step. `RideAlongNeverRefused` then asks the
question this hides: is there a state in which the handler accepts a deposit or
a request and the chain refuses the closing it carries?

**The chain.** `Undelegated` refuses an amount above the delegation or an entry
above the limit. `RewardsPaidAt` pays accrued rewards to the balance whenever a
delegation changes, as x/distribution does. `NextBlock` pays out ripe entries,
up to `ReleaseLag` late. `Slash` cuts a delegation and any of the entries behind
it. `BurnOwnShares` is a holder burning at the token, which `scripts/deploy.mjs`
enables; `Donate` is SCRT sent to the contract.

**Abstractions.** Callers are left out where a handler only compares them with a
stored address. Amounts are unbounded naturals (the code multiplies in 256 bits,
and the supply cap keeps the results small), except where the code saturates.
`opened_at`, memos, attributes and answers are left out. A Rebalance plan of several steps is several steps.
The chain's limits on redelegations are not modelled, so the model allows more
rebalancing than the chain does. `MAX_VALIDATORS` is not modelled. In the runs
two validators hold 50% each and the ceiling is scaled to match.

### The keeper

`Keeper` gives every await of a pass a value of `pc`, so that anything may happen
between two of them. The contract appears as far as the keeper can tell it
apart: ticks until the open window may close and until each window matures, the
cache's age, the sweep's cursor, and the pages with rewards on the chain and in
the cache. `SomeoneElse` is everybody else, a second keeper among them. `Schedule`
is kept as ticks to go, as of the moment the pass began, because that is the
`now` both `due` and `mark` are given; one tick is one sleep of the loop. A query that
throws ends the pass; `Keeper.execute` catches, so a refused or lost call is an
answer (`ExecuteFails`, with or without its effect); `Killed` loses the
schedules. `Lead` is how far the keeper's clock is ahead of block time: a call it
wakes for can then be refused. Ages and countdowns are capped, never
cut off, so behaviours do not end at a horizon.

`KeeperMonitor` runs the drift check against the whole contract of `LstCore`, as
`remembered` from the check before; `Restart` forgets it.

### The web application

Each page is a module with its own variables; `App` is a tab that has one of them
open (the stake page twice, for its session and its form). The pages share
nothing but the contract and the chain, and each module has the outside world
change what it reads at any moment, so composing them by the open page loses
nothing.

`WalletSession`: an effect of React runs with the commit that triggers it, so
`Effects` is part of the action that sets the connection. The three figures are
three values of `view`, because they differ in what they do on a change: the
stake card's balance is cancelled and asked again, the claims and the drawer's
balance load once per address. `attempts` holds the calls of `connect()` in
flight, since the extension answers in order and nothing cancels them. `missed`
is a history variable.

`StakeForm`: `polls` are the refreshes in flight, which land in any order;
`request` keeps the date that was on the screen at the click, because the
closure of `submit` does.

`UpkeepPage`: `Due` is `assess`; `RunJobs` is the one transaction; the page's and the
block's clock are the same. `ManagerConsole` counts percentages in
fifths of a basis point, to see both roundings, and lets `ValidateManagedWeights`
of `ValidatorSet` judge what the screen let pass. `ChartHistory`: a query is
encrypted for a code hash, so it answers only if the page believes the code
that really ran at that height. `Endpoints`: a list in storage, and each tab's own
view of it.

### The scripts

`Release` has one action per transaction or file of the two scripts. `run.at` is
the step that comes next, in the order of the program text (`Following`); `Die` may come
before any of them. `books` are the figures a migration must not touch,
`lost` and `touched` remember what the migration destroyed and what users changed
between the two snapshots. A proposal that names new code is `governed`.

### Mutated forms

The operators called "mutated form" are deliberate mistakes, each paired in
`PROJECT.json` with the definition it stands in for and the property that must then fail;
no specification uses them.

## 3. The runs

Every run explores the whole state space of its instance. Deadlock is checked.

| Run | Question | Bounds |
|---|---|---|
| `queue` | Does the queue keep its books and pay everyone in full and once? | 2 users, 2 deposits, 3 requests of 1 or 2 shares, 4 blocks, window and unbonding 1 block |
| `slashing` | And with a 90% slash at any moment of a delegation and any entries behind it? Are deposits and requests ever refused for the closing they carry? Does anyone who stays pay? Is it still the queue that `WithdrawalQueue` promises? | 2 deposits, 2 requests of 1 or 3 shares, 1 slash, 3 blocks |
| `upkeep` | Do the caches tell the truth between pages of Sync and Compound, and does the watch over them raise false alarms? | pages of 1 or 2, 2 accruals, 1 request, 1 burn, 2 blocks |
| `fee` | Does the treasury get exactly its cut? | pages of 1 or 2, larger amounts so that floors differ, 1 deposit, 1 request, 1 burn, 2 accruals, 1 slash, 1 gift, 1 migration, fee changes |
| `manager` | Does the set stay consistent under any sequence of assignments and moves? | 4 validators, 6 assignments (4 of which the checks refuse or which drop validators), 3 moves |
| `late` | Does the chain ever refuse an undelegation for want of an entry, paying out a block late? | 4 requests, 1 burn, 4 blocks, lag 1 |
| `keeper` | Is what is due done in time, and done at all after faults? | 2 pages a sweep, compound every 2 ticks, windows every 3, clock 1 ahead, 2 faults, at most 2 calls a task |
| `app` | Does each page show what is current, offer what is due and allow what is accepted? | 2 accounts, 2 connects and 2 reads in flight; 2 refreshes in flight; 4 windows on pages of 3; 2 validators; 5 blocks and 2 upgrades; 3 nodes, 2 kept, 2 tabs |
| `scripts` | Can a deployment or an upgrade break off, or users get in between, so that a key keeps a power, damage passes for success or a record is useless? | 2 deployments, 2 builds, figures of 0 or 1, 2 windows on snapshots of 1 |

The bounds are small because the interesting cases need few actors: two
claimants of one window, two windows in flight at once, one window matured
while another unbonds, a window that closes while an earlier one is uncollected,
two validators of which one is slashed, a sweep of two pages interrupted by
anything; two accounts, and two answers in flight that can arrive in the wrong
order; one window more than a page holds; one node more than the list keeps; one
more fault than the fallback needs (a sync runs only when the cache is stale after
a first fault and a second one stops the harvest). Each property is also run against a
mutated form of the code, and the instance is large enough for TLC to find the
violation.

**Fairness.** The contract runs nothing by itself and its specification assumes none. The
keeper's (`Keeper!Fairness`) is what its own process does:
its loop has no exit and catches what a pass throws (`index.ts:165-177`), every
await settles, the sleep ends, time passes, and the service manager starts a
dead process again (`WF` of `KeeperStep`, `Tick` and `Restarted`). Nothing is assumed of users, of other keepers or
of the absence of faults, except that there are finitely many: `UpkeepIsDone` says
that a due window is closed, a matured one collected and a stale cache
refreshed, whatever failed before. `RewardsAreHarvested` excepts strangers who keep
calling Sync: Sync and Compound share the cursor, and a harvest can be kept off a
page for ever. The pages and the scripts are judged by safety only: a user may leave
at any moment.

**Refinement.** `WithdrawalQueue` knows neither prices nor validators nor the chain. `KeepsQueuePromise`
maps windows to batches and claims to receipts and says that every step of
`LstCore` is a step of it or changes nothing it sees: a deposit that closes a
window along the way is a `Seal`, a request that closes the window it joined is
one `Request`, a claim that matures the due windows first is one `Settle`.

**Disagreements.** Three further runs each check one statement that the
repository makes about itself and that the code does not keep. TLC gives the
steps.

| Run | Statement | What happens |
|---|---|---|
| `late_release` | a window realises less only if a validator was slashed (`types.rs:98`) | matured by the clock a block before the payout, the window fixes the shortfall for good |
| `claim_all` | no list means every eligible window (`msg.rs:45`) | one window in flight refuses the whole call, which is the call the application's Claim button makes |
| `talked_out` | the page never talks somebody out of overdue upkeep (`keeper/page.tsx:66`) | with more windows than the first page of the query holds, the open one is never seen and nothing is due |

Lesser disagreements, seen while modelling and explained here without a run of
their own. In the contract:

- `state.rs:134` says that money of an unbonding window "has not yet reached the
  balance". Between the chain's payout and the collection it has, deposits and
  requests do not collect first, and they are priced with the leavers' money
  among the holders' (`contract.rs:201`).
- `invariants.ts:34`: "The exchange rate must never fall except through
  slashing." A harvest after a Sync lowers it by the fee, because the cache
  counted the rewards in full (`contract.rs:992`).
- `docs/runbook.md:126` calls a window that will not close with entries free a bug.
  After a slash the stake can be below what the window owes, and no plan
  exists (`validators.rs:187`).
- `contract.rs:964`: "A fee that depends on the order somebody pressed two
  permissionless buttons is not a fee." With a page shorter than the set it still
  does: rewards beyond the page count only if somebody synced since.
- `contract.rs:978`: Compound prices the fee with the mirrored supply, which a
  holder's burn at the token leaves too high; the treasury then gets more than
  its cut.
- `contract.rs:968`: "bonded as the chain reports it". After a slash, a closing or
  a move of all that is left leaves the slashed part in the cache, and a
  delegation that is gone does not correct it (`contract.rs:934`).
- The pool that a fee is priced from is clipped at zero. When requests were
  priced with so many unharvested rewards that stake and balance alone do not cover
  them, the treasury gets less than its cut. `FeeIsExact` is about the harvests of
  `PricedFromChain`, which excepts these four.
- `contract.rs:1116`: Rebalance accepts a Removed validator as destination,
  which `types.rs:23` calls "fully drained"; it is then drained first, like a
  Draining one.
- `contract.rs:1544`: the migration installs its ceiling without looking at the
  fee. `FeeAlwaysWithinLimit` has a premise for it.
- `windows.rs:118`: the floors of a slashed window's payouts can leave a
  remainder, and then the window stays Matured after its last claim (`types.rs:77`
  reserves Settled for "Every claim has been paid out.").
- Rewards that the chain pays out because a deposit or a closing changed a
  delegation stay in the balance: they count as assets, and no handler stakes
  them (`contract.rs:990`: "the whole reward stays staked").

In the keeper:

- `tasks.ts:90-94`: "a finished sweep leaves no pending rewards and a fresh
  cache" is not conclusive. When the cache has not heard of the second page's rewards,
  the loop calls the sweep finished after the first page.
- `invariants.ts:77` and `tasks.ts:38` say that a stale cache refuses
  deposits; the contract re-reads for itself and refuses nobody.
- `checkSolvency` (`invariants.ts:138`) compares two forms of the contract's own figures
  and cannot fire. The rate alarm fires without a slash after a harvest that
  follows a Sync. The drift alarm fires without one after a Rebalance, or
  when a window closed and was collected between two checks (`AlarmIsExplained`
  excepts exactly these).

In the application:

- `governance/page.tsx:385`: "The screen enforces the same bounds up front". Two
  weights typed finer than a basis point can pass its sum and be refused
  (`BoundsEnforcedUpFront` says so). The console also sends weight 0 for a dropped
  validator, which then stays Active instead of becoming Draining
  (`validators.rs:76`). A success whose refresh fails is reported as an error.
- `keeper/page.tsx:94-112`: the batch is one transaction, so a closing that
  the keeper has already made undoes the three jobs that `protocol.ts:256` calls
  "harmless" to run twice, and after the refusal the page does not read again.
- `page.tsx:56-72`: refreshes are not sequenced; a slow one
  overwrites newer figures until the next. The balance is not read again after
  a transaction, and a success empties whatever has been typed by then. Hence
  `DateToldIsEarliest` promises a lower bound and no more.
- `components/Wallet.tsx:98`: a reconnection in flight during Disconnect lands
  afterwards and remembers the session again, and a signature in flight stores the
  permit again. An account change during the first connection is missed
  (`AccountFollowed` excepts it), and claims of the account before stay on the
  screen until the new one's load (`Wallet.tsx:107` says it must not show
  the wrong position).
- `history.ts:205`: the newest point is also lost when an upgrade falls into the load, and every point of
  an older code when the history or a hash cannot be read. A load that fails
  leaves the old chart under the new label.
- `endpoint.ts:76`: another tab's choice takes effect in this tab without the reload that the
  comment insists on, because the node is read from storage on each use.

In the scripts:

- `deploy.mjs:19`: "After step 7 the deploy key holds nothing at all"; it stays
  manager, treasury and, without the hand-over, the contract's admin.
  `governanceGated` is recorded without a look at the transaction (`deploy.mjs:288-310`).
- `upgrade.mjs:97`: the windows compared are the oldest fifty, not "every figure
  that must survive". Transactions of users between the snapshots are reported
  as damage, and leave the record without the new hash although the chain has
  migrated; every later run then fails at its first query.

The passing runs are stated so as not to hide these: `EntryAndExitDoNotDilute`
names its premise (every window the chain has paid out was collected), `FeeIsExact`
names the harvests it is about, `queue` says a punctual chain, `VerdictIsRight` names
what users may have touched.

## 4. The proofs

TLAPS proves these for every value of the constants, under the named assumptions
of the modules, which TLC evaluates in every run. For the contract they are what
instantiation checks (`ParamsAreValid`, `LimitsAreValid`, `WeightsAreValid`),
`ConstantsAreTyped` and `NoneIsNotAnAmount`; for the pages and the scripts they give the
constants their types (`ChartConstants`, `UpkeepConstants`, `FormConstants`,
`NoneIsNothing`, `EndpointAssumption`, `PageIsANumber`; `ConsoleConstants` also says
that the allowlist has no repeats, which `governance/page.tsx` gets from the
contract's own list). Every safety property of a passing run is a theorem.

**The queue** (`TypeProofs`). `QueueWellFormed` is not inductive: that the open
window is the newest does not say that the next id is free. `QueueInv` adds
`WindowsNumbered`: the ids are `0 .. nextWindowId - 1` and every window has the
fields the code reads. One lemma treats a closing, one a window left open, one a
collection and one a claim; the actions cite them.
`QueueAlwaysWellFormed` follows. `ClaimsAlwaysFinal` needs `ClaimInv`: claims
name windows that exist, and a claim on the open window is unpaid. Only the open
window takes requests, it is never matured or paid, and it is never reopened,
because ids only grow; so whatever a step does to an account's claims is one
of three things (nothing, a request at the open window, marks at matured
windows), and none rewrites a claim that is paid or past its window.

**The types** (also in `TypeProofs`). All figures are unsigned, so the type invariant
says that nothing goes below zero: no holder burns more than the
supply, no plan takes more from a validator than the set holds, no fee exceeds
the rewards. `TypeInv` is `TypeOK` with three facts the types do not show: the
balances are covered by the supply (`SupplyCovers`), fee and ceiling stay at or below 100%
(`FeesBounded`), and unbonding entries are finitely many, so that their sums are
numbers. The proof splits the invariant into the parts that actions write
together (`TypedParts`), with one lemma per action. `FeeAlwaysWithinLimit`
proves the fee stays within the ceiling provided the migration's ceiling is not
below the one instantiated. Without the premise it fails: a deployment
instantiated with a higher ceiling keeps its fee through the migration.

**The ledgers** (`LedgerProofs`). The pricing cache keeps three sums of what
windows owe, windows keep sums of claims, and every handler updates
its part with a saturating subtraction, which would hide a mismatch. `Consistent`
is the invariant under which none ever saturates. To `TypeInv` and `ClaimInv` it adds
`Books`: the cache's legs are the sums over the windows (`LegsMatch`), a window
realises something exactly from its maturity on (`RealisedLate`), its figures are the sums
of its claims (`ClaimsAgree`), no claim is paid before (`PaidLate`); and that the
balance covers what the matured windows still owe. None of the parts is inductive
alone: that a payment stays below what is left needs the sums of the claims, that money
is there needs the legs, because a collection sets aside what the legs say. The
accounts that have no claim on a window count as zero there, so that
all sums are over the same set of users. `LiabilitiesAlwaysMatch`,
`ClaimsAlwaysMatch`, `MaturedMoneyAlwaysThere` and `WindowsAlwaysForward` follow.

**The promise** (also in `LedgerProofs`). `PromiseAlwaysKept` is the refinement that the
run `slashing` checks: the first state maps to an empty queue, and each action to a
step of `WithdrawalQueue` or to a stutter. A handler with a closing in its tail is
one `Request` or one `Seal`, never two steps; a collection is one `Arrive` for all the windows
that ripened; `Settle` pays the share that `PayoutIsShare` computes, and what has
been paid stays within what came back because the claims add up (`Consistent`).

**The set and the chain** (`SetProofs`). What the contract caches about its validators,
one invariant for each relation. `SupplyAlwaysMirrored`, `EntriesAlwaysUnique`
(`Distinct`: no address is listed twice) and `SweepsEndFresh` (`CursorInside`: every page starts
inside the set) need little more than the types; `DrainedGainNothing` reads it off
`SelectForDelegation`. `SlotsAlwaysMatch`: a counter is the number of unbonding
windows that use the entry. That is not inductive: a validator newly listed starts at
zero, which is right only because no window in flight uses one that is not
listed, hence `Occupied` has `UsedListed`.
`StakeCacheAlwaysTracks`: the cached stakes are the chain's until a slash.
`Tracking` adds that the chain holds nothing of ours with a validator that is not
listed (`NowhereElse`, for the entry a new listing starts with). A closing keeps it because its legs add up
to exactly what the window owes: `PlanCovers`, proved from the draining order being a
strict order of the candidates. `WeightsAlwaysComplete`: an assignment that passed the checks is
booked whole (`WeighedOut`); the sum over assigned rows becomes the sum over the set's
entries by a bijection between their positions (`SumReindexed`).
`ChainSlotsAlwaysSpare` and `RidesNeverRefused` assume `ReleaseLag = 0` and
`UnbondingPeriod > 0`, a chain that pays out when the time has come. Then an entry in
flight belongs to a window that still waits for it, each window has at most one at a validator (`InFlight`),
and the chain's count is bounded by the contract's counter, which the ceiling
holds below the chain's limit. With a late chain the counter is given back before the entry
is gone; the run `late` checks one block of lag, and there the spare slot is used.

`FullPaymentAlways` makes the same two assumptions. That what is there suffices *now* is not
inductive, since several windows may ripen in one block and be collected in any order, so
`Funded` looks ahead: for every time from now on, the balance and the entries released by then
cover what matured windows still owe and what the windows ripe by then owe.
A closing adds the same to both sides, because its entries bring exactly what its
window owes (`PlanCovers`, and the plan's legs reindexed by validator); a block moves money from the
entries to the balance; maturity moves a window from one sum to the other, and the earlier
windows of a collection are part of the later one's sum. The claim needs
`seen["slashes"] = 0`; the run `late_release` shows that it needs the punctual chain too.

**Prices** (`WatchProofs`). `NobodyDiluted`: no deposit and no request lowers what stands
behind a share by the chain's own figures, `ChainAssets`. `Priceable` collects what earlier
invariants say and adds two facts: no rewards accrue outside the set, and once the
contract is bootstrapped there are shares that nobody can burn (`SeedStays`; the seed's
belong to the contract), so there is always a supply to divide by. Then the pool of a
set that was re-read whole is the chain's (`PoolIsTheChains`), and the closing that rides
along takes the same off the stake and off what is owed (`ClosingIsCounted`); what is left is
`DepositKeepsRate` and `WithdrawalKeepsRate`. The proof needs neither that nobody was
slashed nor the property's premise about uncollected windows, because `ChainAssets` counts
their money on both sides of a step. `FeeAlwaysExact`: when a harvest of the whole set prices
from the chain's figures (`PricedFromChain`), its pool is the chain's without the
rewards (`HarvestPool`), what it restakes is all of them (`HarvestMoves`), and the rest is
`FeeSharesAreWorthTheFee`. Each of the premises is needed; the disagreements above
say how the code misses the fee without it.

**The alarm** (also in `WatchProofs`). `AlarmAlwaysExplained` is about the contract and the
keeper's check together. `MemoryHolds`, checked by TLC on the instance of `upkeep` before it was
proved, says of each remembered stake: the chain still has as much, or somebody was
slashed, or a window that closed since the last check used the validator. It is
inductive because without a slash a delegation falls by a closing only
(`StakeFalls`), and a window keeps the list of those it used (`UsesAlwaysRemain`). That an
alarm is raised only with no entries left says that this window is no longer
unbonding. The theorem assumes `Moves = {}`: the manager's Rebalance lowers a
stake too, and then the alarm is raised for that.

**The keeper** (`KeeperProofs`). `WindowClosedInTime` and `CacheRefreshedInTime` hold for
any intervals, any number of pages and any number of faults. In every state
`UntilWindowVisit` is the number of ticks after which the keeper has looked at the open
window at the latest, and `UntilHarvest` the number after which it has harvested the next
page. Each tick lowers both by one; neither strangers nor failed calls raise them,
because a schedule is set before the call is made and a pass ends at its
deadline. What is overdue plus `UntilWindowVisit` therefore stays below `LateLimit`
(`WindowInv`), and the age of the cache plus the turns left in the sweep below its bound
(`CacheInv`). A failed call of the keeper's own excuses the window until the next
visit, as the property says.

**The application** (`AppProofs`). All nine properties of the run `app`.
`PagesRunTheirSpecs` takes the tab apart: a step of `App` is a step of one page
and leaves the variables of the others alone. Each page has its own inductive invariant. The balance:
every read that has not been cancelled asks for the account and the mode shown
(`BalanceInv`). The account: the youngest call of `connect()` that is in flight was made for the
selected one (`FollowInv`). The chart: the history that a load has read is the beginning of the
chain's, so it knows the right hash for every height below the load's own
(`ChartInv`). The upkeep page: unless overtaken, reading and batch are what the
contract still says (`UpkeepInv`); `DueIsAlwaysOffered` counts windows up to the
page's limit. The form: windows mature in the order in which they
close, so the date of an earlier one is a lower bound (`FormInv`). The console: what was
sent lies within the bounds of the reading it was typed under (`ConsoleInv`), and
rounding a sum of whole basis points is exact, by induction over the allowlist. The nodes:
a list that is filtered keeps its order and repeats nothing, because the k-th member of a
set of positions is unique (`KthMember`), so the newest node survives the cut
(`EndpointInv`).

**The scripts** (`ReleaseProofs`). `ReleaseInv` says, for each step a script may
come to, which of its effects have happened (`DeployHasCome`, `UpgradeHasCome`), and
that the files name a deployment that stands (`FilesNameWhatStands`).
`DeployKeyIsPowerless` and `EndingWellIsUsable` follow, for any number of
deployments and builds and a death before any step. `VerdictAlwaysRight` compares two
snapshots taken with transactions in between: between them every figure of the book is
the one first read, or lost to the migration, or on the list of those a
user has touched (`VerdictInv`), and the page of windows that both readings cover only
grows.

**The arithmetic** (also in `TypeProofs`). Deposits and withdrawals keep the rate, a
round trip gains nothing, fee shares are worth the fee to within one share,
payouts share a loss and never add up to more than was realised, the entry slots
span the unbonding period with one to spare.

**Sums** (`SumFacts`). The community modules define sums by a recursive function
over subsets. The module proves from well-foundedness of the subset order that
it has exactly one solution, and from that how a sum changes with its set and
with one of its terms. Inductions are done by minimal counterexample, because
the library's induction theorems take an operator as a parameter.

**What stays with TLC.** Liveness and ENABLED are out of the prover's reach: the
keeper's `UpkeepIsDone` and `RewardsAreHarvested` are checked on the instance only. So
are the three disagreements, which are counterexamples.

## 5. Plan

In order of importance; what is left is at the end.

1. *Done.* Arithmetic, windows, validator set; the core with the chain; its
   safety properties; the queue's and the types' proofs.
2. *Done.* The leaver's promise and the refinement; the keeper with its
   faults and its liveness; its watch over the contract; the application's pages; the
   scripts.
3. *Done.* The ledgers' proofs, the refinement's, and those of the pages and the scripts.
4. *Done.* The proofs of the keeper's two bounds, of the prices, the fee and the
   alarm, of the nodes and of the scripts' verdicts.
5. *Left.* A composition of the keeper's loop with the contract's own
   actions (each is judged now against what it needs of the other).

## 6. Not modelled

Queries and permits of the contract (read-only; what is made of their answers is
modelled where it is read). The keeper's configuration, `--once` and
`--check-only`, its gas balance and the checks that only print a line. Of
the application: proposals and tallies, the plain figures of the statistics page,
previews of amounts, gas estimates, toasts and layout, and other tabs except
where they share storage in `Endpoints`. `build.mjs` and
`devnet.mjs` (a compiler and a container), probes, end-to-end tests and continuous
integration. Transfers of shares between holders: the contract neither
sees them nor keeps balances. Of the chain, limits on redelegations.
