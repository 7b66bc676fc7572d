------------------------------ MODULE LstCore ------------------------------
(***************************************************************************)
(* The liquid-staking contract (contracts/lst-core/src/contract.rs), with  *)
(* the parts of the chain it drives: the staking module, the distribution  *)
(* module, its own bank balance and the SNIP-20 derivative token.          *)
(*                                                                         *)
(* One transaction is one step: the handler and every message it emits     *)
(* take effect together, and an error anywhere reverts them all, so an     *)
(* action is enabled exactly when the handler and the chain both accept.   *)
(* Callers are left out where the handler only compares them with one      *)
(* stored address (the deployer, the manager, the token).                  *)
(***************************************************************************)
EXTENDS Windows, ValidatorSet

CONSTANTS
    Users,              \* accounts that hold the token
    Treasury,           \* the one that receives performance fees
    Allowlist,          \* validators the manager may assign weight to
    InitialWeights,     \* InstantiateMsg.validators
    WindowLength,       \* params.unbond_window_secs
    UnbondingPeriod,    \* params.unbonding_period_secs
    EntryCeiling,       \* params.max_unbond_entries_per_validator
    MinDeposit,         \* params.min_deposit
    InitialFee,         \* params.performance_fee_bps at instantiation
    InitialMaxFee,      \* limits.max_performance_fee_bps at instantiation
    MaxWeight,          \* limits.max_validator_weight_bps
    MinBootstrapSeed, MaxTotalSupply, MaxPerformanceFee, ChainMaxEntries,
    MigrationMaxFee,    \* the compiled-in constants of math.rs and contract.rs
    ReleaseLag,         \* how late the chain may release an unbonding entry
    SlashBps            \* the share of a stake that one slash takes

\* What the environment may do, and how often: bounds of the model only.
CONSTANTS
    Seeds, Deposits, Requests, Rewards, FeeChoices, WeightChoices, Moves,
    PauseChoices, PageLimits, CollectLimits, ClaimLists,
    Bound,              \* how often each counted event may happen
    MaxTime             \* last block time

Events == {"deposits", "requests", "slashes", "accruals", "burns",
           "donations", "migrations"}

ASSUME ParamsAreValid ==
    /\ InitialFee <= MaxPerformanceFee
    /\ EntryCeiling > 0 /\ EntryCeiling < ChainMaxEntries
    /\ RequiredEntrySlots(UnbondingPeriod, WindowLength) <= EntryCeiling

ASSUME LimitsAreValid ==
    /\ MaxPerformanceFee <= BPS_DENOM
    /\ InitialMaxFee <= MaxPerformanceFee
    /\ MaxWeight > 0
    /\ InitialFee <= InitialMaxFee
    /\ MigrationMaxFee <= MaxPerformanceFee

ASSUME WeightsAreValid ==
    ValidateManagedWeights(InitialWeights, Allowlist, MaxWeight)

ASSUME ConstantsAreTyped ==
    /\ IsFiniteSet(Validators) /\ IsFiniteSet(Users)
    /\ Treasury \in Users
    /\ Allowlist \subseteq Validators
    /\ InitialWeights \in Seq(ValidatorInit)
    /\ {WindowLength, UnbondingPeriod, EntryCeiling, MinDeposit, InitialFee,
        InitialMaxFee, MaxWeight, MinBootstrapSeed, MaxTotalSupply,
        MaxPerformanceFee, ChainMaxEntries, MigrationMaxFee, ReleaseLag,
        SlashBps, MaxTime} \subseteq Nat
    /\ WindowLength > 0 /\ MinBootstrapSeed > 0 /\ MinDeposit > 0
    /\ SlashBps < BPS_DENOM
    /\ Seeds \cup Deposits \cup Requests \cup Rewards \cup FeeChoices
         \subseteq Nat
    /\ PageLimits \cup CollectLimits \subseteq Nat \ {0}
    /\ WeightChoices \subseteq Seq(ValidatorInit)
    /\ Moves \subseteq [from : Validators, to : Validators, amount : Nat \ {0}]
    /\ PauseChoices \subseteq BOOLEAN
    /\ Bound \in [Events -> Nat]

-----------------------------------------------------------------------------
VARIABLES
    config,         \* CONFIG: fee, maxFee, paused, and bootstrapped (token bound,
                    \* deployer's right spent)
    validators,     \* VALIDATORS, in stored order
    cursor,         \* SYNC_CURSOR, shared by Sync and Compound
    totals,         \* TOTALS, the pricing cache
    windows,        \* WINDOWS, by id
    openWindow,     \* OPEN_WINDOW
    nextWindowId,   \* NEXT_WINDOW_ID
    active,         \* ACTIVE_WINDOWS; ids are pushed in increasing order
    claims          \* CLAIMS and CLAIM_INDEX: per account, by window id

VARIABLES
    now,            \* block time
    delegated,      \* staking: the contract's delegation at each validator
    accrued,        \* distribution: rewards not yet withdrawn
    unbonding,      \* staking: unbonding entries in flight
    balance,        \* bank: what the contract holds in the staking denom
    token,          \* SNIP-20: total supply and balances
    seen            \* how often each bounded event has happened

contractVars == <<config, validators, cursor, totals, windows, openWindow,
                  nextWindowId, active, claims>>
stakingVars  == <<delegated, accrued, unbonding>>
chainVars    == <<now, delegated, accrued, unbonding, balance, token, seen>>
queueVars    == <<windows, openWindow, nextWindowId, active>>
vars         == <<contractVars, chainVars>>

WindowIds == DOMAIN windows

ClaimRecord == [shares : Nat, owed : Nat, claimed : BOOLEAN]

UnbondingEntry ==
    [validator : Validators, window : Nat, amount : Nat, release : Nat]

TotalsCache ==
    [bonded : Nat, pending : Nat, supply : Nat, owedOpen : Nat,
     owedUnbonding : Nat, owedMatured : Nat, lastSync : Nat]

Config == [fee : Nat, maxFee : Nat, paused : BOOLEAN, bootstrapped : BOOLEAN]

\* Every stored and every chain value has the type its Rust type promises.
TypeOK ==
    /\ config \in Config
    /\ validators \in Seq(ValidatorEntry)
    /\ cursor \in Nat
    /\ totals \in TotalsCache
    /\ nextWindowId \in Nat
    /\ windows \in [0 .. nextWindowId - 1 -> UnbondWindow(Validators)]
    /\ openWindow \in WindowIds
    /\ active \in SUBSET WindowIds
    /\ claims = [u \in Users |-> claims[u]]
    /\ \A u \in Users :
         /\ DOMAIN claims[u] \in SUBSET WindowIds
         /\ claims[u] \in [DOMAIN claims[u] -> ClaimRecord]
    /\ now \in Nat
    /\ delegated \in [Validators -> Nat]
    /\ accrued \in [Validators -> Nat]
    /\ unbonding \in SUBSET UnbondingEntry
    /\ balance \in Nat
    /\ token \in [supply : Nat, held : [Users -> Nat]]
    /\ seen \in [Events -> Nat]

Count(event) ==
    /\ seen[event] < Bound[event]
    /\ seen' = [seen EXCEPT ![event] = @ + 1]

-----------------------------------------------------------------------------
(* Reading the chain.                                                      *)

Entries(v) == {e \in unbonding : e.validator = v}

\* A delegation that holds nothing is gone: the query answers None.
Delegates(v) == delegated[v] > 0

\* A delegation that is gone reads as zero stake and zero rewards.
ReadDelegation(entry) ==
    [entry EXCEPT !.bonded  = delegated[entry.address],
                  !.pending = accrued[entry.address]]

\* The entries of a page re-read from the chain, the others as they were.
ReadPage(page) ==
    [i \in DOMAIN validators |->
        IF i \in page THEN ReadDelegation(validators[i]) ELSE validators[i]]

\* The indices the next page of Sync or Compound covers, after `cursor`.
PageEnd(limit) == Min2(cursor + limit, Len(validators))

Page(limit) == (cursor + 1) .. PageEnd(limit)

SweepDone(limit) == PageEnd(limit) >= Len(validators)

(* Mutated form of NextCursor: a finished sweep does not start over.       *)
NextCursorUnreset(limit) == PageEnd(limit)

NextCursor(limit) == IF SweepDone(limit) THEN 0 ELSE PageEnd(limit)

-----------------------------------------------------------------------------
(* Pricing.                                                                *)

\* Liabilities whose SCRT is still in total_bonded or in the balance.
OwedBacked(t) == t.owedOpen + t.owedMatured

(* `held` is the balance the contract sees, `exclude` the deposit in it.   *)
PoolOf(t, held, exclude) ==
    [bonded |-> t.bonded, pending |-> t.pending,
     liquid |-> SatSub(held, exclude), owedBacked |-> OwedBacked(t),
     supply |-> t.supply]

(* Mutated form of RefreshedSet: the cache is trusted.                     *)
RefreshedSetFromCache == validators

\* refresh_totals: the whole set re-read, and the totals that result.
RefreshedSet == ReadPage(DOMAIN validators)

MirroredSupply == IF config.bootstrapped THEN token.supply ELSE totals.supply

RefreshedTotals ==
    [totals EXCEPT !.bonded = TotalBonded(RefreshedSet),
                   !.pending = TotalPending(RefreshedSet),
                   !.supply = MirroredSupply,
                   !.lastSync = now]

-----------------------------------------------------------------------------
(* Closing the open window.  A closing works on the set, the totals and    *)
(* the windows as the handler holds them, and answers with their new value *)
(* together with the queue's and what is to be undelegated at each entry.  *)

\* The entries after an undelegation: less stake, one more slot occupied.
WithLegs(set, legs) ==
    [i \in DOMAIN set |->
        IF legs[i] > 0
        THEN [set[i] EXCEPT !.bonded = SatSub(@, legs[i]), !.entries = @ + 1]
        ELSE set[i]]

(* Mutated form of LiabilityInFlight: the open leg keeps the liability.    *)
LiabilityInFlightTwice(t, owed) ==
    [t EXCEPT !.bonded = SatSub(@, owed), !.owedUnbonding = @ + owed]

\* The liability follows the money out of the bonded pool.
LiabilityInFlight(t, owed) ==
    [t EXCEPT !.bonded = SatSub(@, owed),
              !.owedOpen = SatSub(@, owed),
              !.owedUnbonding = @ + owed]

UsedBy(set, legs) == {set[i].address : i \in {j \in DOMAIN set : legs[j] > 0}}

CloseOpenWindow(set, t, ws) ==
    LET owed   == ws[openWindow].owed
        legs   == PlanUndelegation(set, owed, EntryCeiling)
        closed == Close([ws[openWindow] EXCEPT !.used = UsedBy(set, legs)],
                        now, UnbondingPeriod)
    IN  [set |-> WithLegs(set, legs),
         totals |-> LiabilityInFlight(t, owed),
         windows |-> [id \in 0 .. nextWindowId |->
                        CASE id = nextWindowId -> WindowOpen(now, WindowLength)
                          [] id = openWindow   -> closed
                          [] OTHER             -> ws[id]],
         active |-> IF closed.state = "Unbonding"
                    THEN active \cup {openWindow} ELSE active,
         open |-> nextWindowId,
         next |-> nextWindowId + 1,
         legs |-> legs]

StayOpen(set, t, ws) ==
    [set |-> set, totals |-> t, windows |-> ws, active |-> active,
     open |-> openWindow, next |-> nextWindowId,
     legs |-> [i \in DOMAIN set |-> 0]]

\* The window is due, and its undelegation can be planned.
CanClose(set, w) ==
    Closable(w, now) /\ HasUnbondingCapacity(set, w.owed, EntryCeiling)

\* Best effort: what rides along on a deposit or a withdrawal request.
CloseWindowIfOverdue(set, t, ws) ==
    IF CanClose(set, ws[openWindow])
    THEN CloseOpenWindow(set, t, ws)
    ELSE StayOpen(set, t, ws)

Commit(r) ==
    /\ validators' = r.set
    /\ totals' = r.totals
    /\ windows' = r.windows
    /\ active' = r.active
    /\ openWindow' = r.open
    /\ nextWindowId' = r.next

\* What the chain takes from validator v for the legs of a closing.
Leaving(r, v) ==
    SumFunctionOnSet(r.legs, {i \in DOMAIN r.set : r.set[i].address = v})

(***************************************************************************)
(* The staking module's answer to a closing's Undelegate messages, given   *)
(* the delegations `staked` they find: it refuses one that exceeds the     *)
(* delegation or that finds the unbonding entries at the chain's limit.    *)
(***************************************************************************)
ChainAccepts(r, staked) ==
    \A v \in Validators :
        Leaving(r, v) > 0 =>
            /\ Leaving(r, v) <= staked[v]
            /\ Cardinality(Entries(v)) < ChainMaxEntries

LeftBy(r) == {v \in Validators : Leaving(r, v) > 0}

Undelegated(r, staked) ==
    /\ ChainAccepts(r, staked)
    /\ delegated' = [v \in Validators |-> staked[v] - Leaving(r, v)]
    /\ unbonding' = unbonding \cup
         {[validator |-> v, window |-> openWindow, amount |-> Leaving(r, v),
           release |-> now + UnbondingPeriod] : v \in LeftBy(r)}

(***************************************************************************)
(* The distribution module pays a delegator what has accrued at a          *)
(* validator whenever the delegation there changes, asked or not (the      *)
(* Cosmos SDK does it on Delegate, Undelegate and Redelegate).             *)
(***************************************************************************)
RewardsPaidAt(touched) ==
    /\ accrued' = [v \in Validators |-> IF v \in touched THEN 0 ELSE accrued[v]]
    /\ balance' = balance + SumFunctionOnSet(accrued, touched)

-----------------------------------------------------------------------------
(* Instantiation, bootstrap and deposits.                                  *)

Init ==
    /\ config = [fee |-> InitialFee, maxFee |-> InitialMaxFee,
                 paused |-> FALSE, bootstrapped |-> FALSE]
    /\ validators = InitialValidatorSet(InitialWeights)
    /\ cursor = 0
    /\ now = 0
    /\ totals = [bonded |-> 0, pending |-> 0, supply |-> 0, owedOpen |-> 0,
                 owedUnbonding |-> 0, owedMatured |-> 0, lastSync |-> now]
    /\ windows = [id \in {0} |-> WindowOpen(now, WindowLength)]
    /\ openWindow = 0
    /\ nextWindowId = 1
    /\ active = {}
    /\ claims = [u \in Users |-> [id \in {} |-> {}]]
    /\ delegated = [v \in Validators |-> 0]
    /\ accrued = [v \in Validators |-> 0]
    /\ unbonding = {}
    /\ balance = 0
    /\ token = [supply |-> 0, held |-> [u \in Users |-> 0]]
    /\ seen = [e \in Events |-> 0]

\* The seed's shares go to the contract itself, where nothing unbonds them.
Bootstrap(seed) ==
    LET i == SelectForDelegation(validators, seed)
    IN  /\ ~config.bootstrapped
        /\ seed >= MinBootstrapSeed
        /\ AcceptsStake(validators) # {}
        /\ config' = [config EXCEPT !.bootstrapped = TRUE]
        /\ validators' = [validators EXCEPT ![i].bonded = @ + seed]
        /\ totals' = [totals EXCEPT !.bonded = @ + seed, !.supply = @ + seed,
                                    !.lastSync = now]
        /\ token' = [token EXCEPT !.supply = @ + seed]
        /\ delegated' = [delegated EXCEPT ![validators[i].address] = @ + seed]
        /\ UNCHANGED <<cursor, queueVars, claims, now, accrued, unbonding,
                       balance, seen>>

\* The funds are credited before the handler runs, and priced out again.
DepositPool(amount) == PoolOf(RefreshedTotals, balance + amount, amount)

DepositAccepted(amount) ==
    LET shares == SharesForDeposit(amount, DepositPool(amount))
    IN  /\ config.bootstrapped /\ ~config.paused
        /\ amount >= MinDeposit
        /\ shares > 0
        /\ DepositPool(amount).supply + shares <= MaxTotalSupply
        /\ AcceptsStake(RefreshedSet) # {}

(* Mutated form of DepositPlaced: the minted shares are not mirrored.      *)
DepositPlacedUnmirrored(amount) ==
    LET i == SelectForDelegation(RefreshedSet, amount)
    IN  CloseWindowIfOverdue(
            [RefreshedSet EXCEPT ![i].bonded = @ + amount],
            [RefreshedTotals EXCEPT !.bonded = @ + amount], windows)

\* The set and totals with the deposit placed, then the overdue window closed.
DepositPlaced(amount) ==
    LET i      == SelectForDelegation(RefreshedSet, amount)
        shares == SharesForDeposit(amount, DepositPool(amount))
    IN  CloseWindowIfOverdue(
            [RefreshedSet EXCEPT ![i].bonded = @ + amount],
            [RefreshedTotals EXCEPT !.bonded = @ + amount, !.supply = @ + shares],
            windows)

DepositTarget(amount) ==
    RefreshedSet[SelectForDelegation(RefreshedSet, amount)].address

\* The delegations once the deposit's Delegate message has run.
DepositStaked(amount) == [delegated EXCEPT ![DepositTarget(amount)] = @ + amount]

Deposit(u, amount) ==
    /\ Count("deposits")
    /\ DepositAccepted(amount)
    /\ LET placed == DepositPlaced(amount)
           shares == SharesForDeposit(amount, DepositPool(amount))
       IN  /\ Commit(placed)
           /\ Undelegated(placed, DepositStaked(amount))
           /\ RewardsPaidAt(LeftBy(placed) \cup {DepositTarget(amount)})
           /\ token' = [token EXCEPT !.supply = @ + shares, !.held[u] = @ + shares]
    /\ UNCHANGED <<config, cursor, claims, now>>

-----------------------------------------------------------------------------
(* Withdrawal requests.                                                    *)

(* Mutated form of RecordClaim: a second request overwrites the first.     *)
RecordClaimOverwriting(u, id, shares, owed) ==
    [i \in DOMAIN claims[u] \cup {id} |->
        IF i = id THEN [shares |-> shares, owed |-> owed, claimed |-> FALSE]
        ELSE claims[u][i]]

\* A request joins the claim the account already holds on the window.
RecordClaim(u, id, shares, owed) ==
    [i \in DOMAIN claims[u] \cup {id} |->
        IF i # id THEN claims[u][i]
        ELSE IF id \in DOMAIN claims[u]
             THEN [claims[u][id] EXCEPT !.shares = @ + shares, !.owed = @ + owed]
             ELSE [shares |-> shares, owed |-> owed, claimed |-> FALSE]]

RequestPool == PoolOf(RefreshedTotals, balance, 0)

RequestAccepted(shares) ==
    /\ config.bootstrapped
    /\ shares > 0
    /\ AssetsForShares(shares, RequestPool) > 0
    /\ windows[openWindow].state = "Open"

\* The request priced and joined to the open window, which then may close.
RequestPlaced(shares) ==
    LET owed == AssetsForShares(shares, RequestPool)
    IN  CloseWindowIfOverdue(
            RefreshedSet,
            [RefreshedTotals EXCEPT !.supply = SatSub(@, shares),
                                    !.owedOpen = @ + owed],
            [windows EXCEPT ![openWindow].shares = @ + shares,
                            ![openWindow].owed = @ + owed])

\* execute_receive: the token hands over `shares` that u sent with Unbond.
Unbond(u, shares) ==
    /\ shares <= token.held[u]
    /\ Count("requests")
    /\ RequestAccepted(shares)
    /\ LET placed == RequestPlaced(shares)
       IN  /\ Commit(placed)
           /\ Undelegated(placed, delegated)
           /\ RewardsPaidAt(LeftBy(placed))
    /\ claims' = [claims EXCEPT ![u] =
            RecordClaim(u, openWindow, shares, AssetsForShares(shares, RequestPool))]
    /\ token' = [token EXCEPT !.supply = @ - shares, !.held[u] = @ - shares]
    /\ UNCHANGED <<config, cursor, now>>

\* Anyone may close a window that is due; the set is planned as cached.
AdvanceWindow ==
    LET r == CloseOpenWindow(validators, totals, windows)
    IN  /\ CanClose(validators, windows[openWindow])
        /\ Commit(r)
        /\ Undelegated(r, delegated)
        /\ RewardsPaidAt(LeftBy(r))
        /\ UNCHANGED <<config, cursor, claims, now, token, seen>>

-----------------------------------------------------------------------------
(* Maturity and claims.                                                    *)

DueWindows == {id \in active : IsMature(windows[id], now)}

\* The due windows one collection reaches: the first `limit` in id order.
Collected(limit) ==
    {id \in DueWindows : Cardinality({k \in DueWindows : k < id}) < limit}

OutstandingOf(ws, ids) ==
    SumFunctionOnSet([id \in DOMAIN ws |-> Outstanding(ws[id])], ids)

OwedOf(ids) == SumFunctionOnSet([id \in WindowIds |-> windows[id].owed], ids)

(* Mutated form of SpokenFor: older matured windows are forgotten.         *)
SpokenForNothing == 0

(* Mutated form of SpokenFor: windows still in flight are reserved too.    *)
SpokenForInFlight == OutstandingOf(windows, active)

\* Money that windows matured earlier still have to pay out.
SpokenFor ==
    OutstandingOf(windows, {id \in active : windows[id].state = "Matured"})

\* What a window in `ids` finds, after the earlier of them took their share.
Available(ids, id) ==
    SatSub(SatSub(balance, SpokenFor), OwedOf({k \in ids : k < id}))

MaturedWindows(ids) ==
    [id \in WindowIds |->
        IF id \in ids THEN Mature(windows[id], Available(ids, id))
        ELSE windows[id]]

(* Mutated form of Released: the entry slots stay occupied.                *)
ReleasedNever(ids) == validators

\* The entry slots the matured windows held are free again.
Released(ids) ==
    [i \in DOMAIN validators |->
        [validators[i] EXCEPT !.entries = SatSub(@,
            Cardinality({id \in ids : validators[i].address \in windows[id].used}))]]

(* Mutated form of LiabilityArrived: the promise is carried forward.       *)
LiabilityArrivedAsPromised(ids) ==
    [totals EXCEPT !.owedUnbonding = SatSub(@, OwedOf(ids)),
                   !.owedMatured = @ + OwedOf(ids)]

\* The liability shrinks to what came back.
LiabilityArrived(ids) ==
    [totals EXCEPT !.owedUnbonding = SatSub(@, OwedOf(ids)),
                   !.owedMatured = @ + OutstandingOf(MaturedWindows(ids), ids)]

CollectMatured(limit) ==
    /\ validators' = Released(Collected(limit))
    /\ totals' = LiabilityArrived(Collected(limit))
    /\ windows' = MaturedWindows(Collected(limit))
    /\ UNCHANGED <<config, cursor, openWindow, nextWindowId, active, claims,
                   chainVars>>

\* A claim first matures every due window, without a limit.
WindowsAtClaim == MaturedWindows(DueWindows)

\* The claims of u among `ids` that are still to be paid.
Unpaid(u, ids) == {id \in ids \cap DOMAIN claims[u] : ~claims[u][id].claimed}

Paying(u, ids) == {id \in Unpaid(u, ids) : WindowsAtClaim[id].state = "Matured"}

PayoutAt(u, id) == PayoutForClaim(WindowsAtClaim[id], claims[u][id].owed)

PaidTo(u, ids) ==
    SumFunctionOnSet([id \in DOMAIN claims[u] |-> PayoutAt(u, id)], Paying(u, ids))

\* One immature window refuses the call, and so does a call that pays nothing.
ClaimAccepted(u, ids) ==
    /\ \A id \in Unpaid(u, ids) : WindowsAtClaim[id].state # "Unbonding"
    /\ PaidTo(u, ids) > 0

\* With no list the whole claim index is meant.
ClaimIds(u, list) == IF list = None THEN DOMAIN claims[u] ELSE list

PaidWindow(w, payout) ==
    LET paid == [w EXCEPT !.claimed = @ + payout]
    IN  IF IsDrained(paid) THEN [paid EXCEPT !.state = "Settled"] ELSE paid

WindowsAfterClaim(u, ids) ==
    [id \in WindowIds |->
        IF id \in Paying(u, ids) THEN PaidWindow(WindowsAtClaim[id], PayoutAt(u, id))
        ELSE WindowsAtClaim[id]]

(* Mutated form of ClaimsAfter: the claim is not marked.                   *)
ClaimsAfterUnmarked(u, ids) == claims[u]

(* Mutated form of ClaimsAfter: the record is emptied as it is paid.       *)
ClaimsAfterEmptied(u, ids) ==
    [id \in DOMAIN claims[u] |->
        IF id \in Paying(u, ids)
        THEN [claims[u][id] EXCEPT !.claimed = TRUE, !.owed = 0]
        ELSE claims[u][id]]

ClaimsAfter(u, ids) ==
    [id \in DOMAIN claims[u] |->
        IF id \in Paying(u, ids) THEN [claims[u][id] EXCEPT !.claimed = TRUE]
        ELSE claims[u][id]]

(* Mutated form of StillActive: settled windows are not pruned.            *)
StillActiveUnpruned(u, ids) == active

StillActive(u, ids) ==
    {id \in active : id \in Paying(u, ids) =>
                        WindowsAfterClaim(u, ids)[id].state # "Settled"}

(***************************************************************************)
(* The ids are a set: a repeated one finds its claim paid and is skipped.  *)
(***************************************************************************)
ClaimMatured(u, list) ==
    LET ids == ClaimIds(u, list)
    IN  /\ ClaimAccepted(u, ids)
        /\ PaidTo(u, ids) <= balance
        /\ validators' = Released(DueWindows)
        /\ totals' = [LiabilityArrived(DueWindows) EXCEPT
                        !.owedMatured = SatSub(@, PaidTo(u, ids))]
        /\ windows' = WindowsAfterClaim(u, ids)
        /\ active' = StillActive(u, ids)
        /\ claims' = [claims EXCEPT ![u] = ClaimsAfter(u, ids)]
        /\ balance' = balance - PaidTo(u, ids)
        /\ UNCHANGED <<config, cursor, openWindow, nextWindowId, now,
                       stakingVars, token, seen>>

-----------------------------------------------------------------------------
(* Upkeep: Sync and Compound, a page of the set at a time.                 *)

Sync(limit) ==
    LET set == ReadPage(Page(limit))
    IN  /\ validators' = set
        /\ cursor' = NextCursor(limit)
        /\ totals' = [totals EXCEPT
                !.bonded = TotalBonded(set),
                !.pending = TotalPending(set),
                !.supply = IF SweepDone(limit) THEN MirroredSupply ELSE @,
                !.lastSync = IF SweepDone(limit) THEN now ELSE @]
        /\ UNCHANGED <<config, queueVars, claims, chainVars>>

OnPage(limit) == {validators[i].address : i \in Page(limit)}

\* The page re-read; a delegation that is gone leaves the cached stake alone.
HarvestedSet(limit) ==
    [i \in DOMAIN validators |->
        LET entry == validators[i]
        IN  IF i \notin Page(limit) THEN entry
            ELSE [entry EXCEPT
                    !.bonded = IF Delegates(entry.address)
                               THEN delegated[entry.address] ELSE @,
                    !.pending = 0]]

Harvested(limit) == SumFunctionOnSet(accrued, OnPage(limit))

(* Mutated form of PoolBeforeHarvest: the pool as cached before the sweep. *)
PoolBeforeHarvestCached(limit) == PoolOf(totals, balance, 0)

\* The pool without the rewards being harvested, counted once.
PoolBeforeHarvest(limit) ==
    PoolOf([totals EXCEPT !.bonded = TotalBonded(HarvestedSet(limit)),
                          !.pending = TotalPending(HarvestedSet(limit))],
           balance, 0)

FeeShares(limit) ==
    FeeSharesForRewards(Harvested(limit), config.fee, PoolBeforeHarvest(limit))

\* Everything harvested is restaked with one validator.
RestakeIndex(limit) == SelectForDelegation(HarvestedSet(limit), Harvested(limit))

(* Mutated form of RestakedSet: the restaked amount is not booked.         *)
RestakedSetUnbooked(limit) == HarvestedSet(limit)

RestakedSet(limit) ==
    IF Harvested(limit) = 0 THEN HarvestedSet(limit)
    ELSE [HarvestedSet(limit) EXCEPT
            ![RestakeIndex(limit)].bonded = @ + Harvested(limit)]

RestakedAt(limit) ==
    IF Harvested(limit) = 0 THEN {}
    ELSE {validators[RestakeIndex(limit)].address}

(* Mutated form of TotalsAfterCompound: the minted fee is not mirrored.    *)
TotalsAfterCompoundUnmirrored(limit) ==
    [totals EXCEPT !.bonded = TotalBonded(RestakedSet(limit)),
                   !.pending = TotalPending(RestakedSet(limit)),
                   !.lastSync = IF SweepDone(limit) THEN now ELSE @]

TotalsAfterCompound(limit) ==
    [totals EXCEPT !.bonded = TotalBonded(RestakedSet(limit)),
                   !.pending = TotalPending(RestakedSet(limit)),
                   !.supply = @ + FeeShares(limit),
                   !.lastSync = IF SweepDone(limit) THEN now ELSE @]

\* The page's rewards are withdrawn and delegated again; the Delegate message
\* pays out what the chosen validator owes, if the page did not cover it.
Compound(limit) ==
    /\ Harvested(limit) > 0 => AcceptsStake(HarvestedSet(limit)) # {}
    /\ FeeShares(limit) > 0 => config.bootstrapped
    /\ validators' = RestakedSet(limit)
    /\ cursor' = NextCursor(limit)
    /\ totals' = TotalsAfterCompound(limit)
    /\ accrued' = [v \in Validators |->
            IF v \in OnPage(limit) \cup RestakedAt(limit) THEN 0 ELSE accrued[v]]
    /\ balance' = balance + SumFunctionOnSet(accrued, RestakedAt(limit) \ OnPage(limit))
    /\ delegated' = [v \in Validators |->
            delegated[v] + IF v \in RestakedAt(limit) THEN Harvested(limit) ELSE 0]
    /\ token' = [token EXCEPT !.supply = @ + FeeShares(limit),
                              !.held[Treasury] = @ + FeeShares(limit)]
    /\ UNCHANGED <<config, queueVars, claims, now, unbonding, seen>>

-----------------------------------------------------------------------------
(* The manager, and the code upgrade the network votes on.                 *)

SetWeights(weights) ==
    /\ ValidateManagedWeights(weights, Allowlist, MaxWeight)
    /\ validators' = ApplyWeights(validators, weights)
    /\ UNCHANGED <<config, cursor, totals, queueVars, claims, chainVars>>

(* Mutated form of FeeAllowed: the compiled ceiling stands in for the limit. *)
FeeAllowedByCode(bps) == bps <= MaxPerformanceFee

FeeAllowed(bps) == bps <= config.maxFee

SetPerformanceFee(bps) ==
    /\ FeeAllowed(bps)
    /\ config' = [config EXCEPT !.fee = bps]
    /\ UNCHANGED <<validators, cursor, totals, queueVars, claims, chainVars>>

IndexOf(v) == CHOOSE i \in DOMAIN validators : validators[i].address = v

(***************************************************************************)
(* One step of a plan: a plan of several has the effect of its steps, each *)
(* in a call of its own, and is refused when one of them is.  Nothing here *)
(* asks for the destination's status or weight.                            *)
(***************************************************************************)
Rebalance(move) ==
    /\ move.to \in Allowlist
    /\ {move.from, move.to} \subseteq AddressesIn(validators)
    /\ move.from # move.to
    /\ move.amount <= validators[IndexOf(move.from)].bonded
    /\ move.amount <= delegated[move.from]
    /\ validators' = [validators EXCEPT
                        ![IndexOf(move.from)].bonded = @ - move.amount,
                        ![IndexOf(move.to)].bonded = @ + move.amount]
    /\ delegated' = [delegated EXCEPT ![move.from] = @ - move.amount,
                                      ![move.to] = @ + move.amount]
    /\ RewardsPaidAt({move.from, move.to})
    /\ UNCHANGED <<config, cursor, totals, queueVars, claims, now, unbonding,
                   token, seen>>

SetPaused(paused) ==
    /\ config' = [config EXCEPT !.paused = paused]
    /\ UNCHANGED <<validators, cursor, totals, queueVars, claims, chainVars>>

\* Installs the fee ceiling of this code version; the fee stays as it is.
Migrate ==
    /\ config' = [config EXCEPT !.maxFee = MigrationMaxFee]
    /\ Count("migrations")
    /\ UNCHANGED <<validators, cursor, totals, queueVars, claims, now,
                   stakingVars, balance, token>>

-----------------------------------------------------------------------------
(* The chain and the token's holders.                                      *)

(***************************************************************************)
(* Time passes.  The staking module pays out an entry no earlier than its  *)
(* release and at most ReleaseLag later ("maturity landing a block or two  *)
(* later", math.rs).                                                       *)
(***************************************************************************)
NextBlock ==
    /\ now < MaxTime
    /\ now' = now + 1
    /\ LET ripe    == {e \in unbonding : e.release <= now + 1}
           overdue == {e \in ripe : e.release + ReleaseLag <= now + 1}
       IN  \E released \in {R \in SUBSET ripe : overdue \subseteq R} :
             /\ unbonding' = unbonding \ released
             /\ balance' = balance
                  + SumFunction([e \in released |-> e.amount])
    /\ UNCHANGED <<contractVars, delegated, accrued, token, seen>>

AfterSlash(amount) == amount - MulDivFloor(amount, SlashBps, BPS_DENOM)

\* A slash takes from the delegation and from the entries begun since the
\* infraction.
Slash(v) ==
    /\ Delegates(v) \/ Entries(v) # {}
    /\ delegated' = [delegated EXCEPT ![v] = AfterSlash(@)]
    /\ \E hit \in SUBSET Entries(v) :
         unbonding' = (unbonding \ hit) \cup
             {[e EXCEPT !.amount = AfterSlash(@)] : e \in hit}
    /\ Count("slashes")
    /\ UNCHANGED <<contractVars, now, accrued, balance, token>>

AccrueRewards(v, amount) ==
    /\ Delegates(v)
    /\ accrued' = [accrued EXCEPT ![v] = @ + amount]
    /\ Count("accruals")
    /\ UNCHANGED <<contractVars, now, delegated, unbonding, balance, token>>

\* A holder burns shares at the token, unseen by the contract.
BurnOwnShares(u, shares) ==
    /\ shares <= token.held[u]
    /\ token' = [token EXCEPT !.supply = @ - shares, !.held[u] = @ - shares]
    /\ Count("burns")
    /\ UNCHANGED <<contractVars, now, stakingVars, balance>>

Donate(amount) ==
    /\ balance' = balance + amount
    /\ Count("donations")
    /\ UNCHANGED <<contractVars, now, stakingVars, token>>

-----------------------------------------------------------------------------
UserAction ==
    \/ \E seed \in Seeds : Bootstrap(seed)
    \/ \E u \in Users, amount \in Deposits : Deposit(u, amount)
    \/ \E u \in Users, shares \in Requests : Unbond(u, shares)
    \/ \E u \in Users, list \in ClaimLists : ClaimMatured(u, list)

UpkeepAction ==
    \/ AdvanceWindow
    \/ \E limit \in CollectLimits : CollectMatured(limit)
    \/ \E limit \in PageLimits : Sync(limit)
    \/ \E limit \in PageLimits : Compound(limit)

ManagerAction ==
    \/ \E weights \in WeightChoices : SetWeights(weights)
    \/ \E bps \in FeeChoices : SetPerformanceFee(bps)
    \/ \E move \in Moves : Rebalance(move)
    \/ \E paused \in PauseChoices : SetPaused(paused)
    \/ Migrate

ChainAction ==
    \/ NextBlock
    \/ \E v \in Validators : Slash(v)
    \/ \E v \in Validators, amount \in Rewards : AccrueRewards(v, amount)
    \/ \E u \in Users, shares \in Requests : BurnOwnShares(u, shares)
    \/ \E amount \in Deposits : Donate(amount)

Next == UserAction \/ UpkeepAction \/ ManagerAction \/ ChainAction

Spec == Init /\ [][Next]_vars
=============================================================================
