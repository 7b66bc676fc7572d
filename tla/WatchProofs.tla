----------------------------- MODULE WatchProofs -----------------------------
(***************************************************************************)
(* Proofs of what those who only watch may rely on.  A holder who stays    *)
(* pays for nobody's entry or exit, by the chain's own figures: the price  *)
(* is taken from a set that is re-read whole, and what closes on the way   *)
(* takes as much off what is owed as off what is staked.  The treasury     *)
(* gets its cut of a harvest, to within a share, when the price is taken   *)
(* from the chain's figures.  And an operator whom the keeper alerts is    *)
(* alerted for a reason.                                                   *)
(***************************************************************************)
EXTENDS SetProofs, KeeperMonitor

(* A figure of every entry that is the chain's at its validator adds up to *)
(* the chain's own total.                                                  *)
LEMMA SumOverEntries ==
    ASSUME NEW set \in Seq(ValidatorEntry), Distinct(set),
           NEW f \in [Validators -> Nat], NowhereElse(set, f),
           NEW g, DOMAIN g = DOMAIN set, \A i \in DOMAIN set : g[i] = f[set[i].address]
    PROVE  SumFunction(g) = SumFunctionOnSet(f, Validators)
  <1> DEFINE b == [i \in DOMAIN set |-> set[i].address]
             A == {b[i] : i \in DOMAIN set}
  <1>1. /\ IsFiniteSet(DOMAIN set) /\ DOMAIN b = DOMAIN set
        /\ \A i \in DOMAIN set : b[i] \in Validators /\ g[i] = f[b[i]]
    BY SetDomain, EntryFields
  <1>2. \A i, j \in DOMAIN set : b[i] = b[j] => i = j
    BY DEF Distinct
  <1>3. A \in SUBSET Validators /\ \A v \in Validators \ A : f[v] = 0
    BY <1>1 DEF NowhereElse, AddressesIn
  <1> HIDE DEF b
  <1>4. \A i \in DOMAIN set : g[i] \in Int /\ f[b[i]] = g[i]
    BY <1>1
  <1>5. SumFunctionOnSet(g, DOMAIN set) = SumFunctionOnSet(f, A)
    <2> DEFINE T == DOMAIN set
    <2>1. /\ IsFiniteSet(T) /\ DOMAIN b = T /\ A = {b[i] : i \in T}
          /\ \A i \in T : g[i] \in Int /\ f[b[i]] = g[i]
          /\ \A i, j \in T : b[i] = b[j] => i = j
      BY <1>1, <1>2, <1>4
    <2> HIDE DEF T, A
    <2>2. SumFunctionOnSet(g, T) = SumFunctionOnSet(f, {b[i] : i \in T})
      BY <2>1, SumReindexed
    <2> QED BY <2>1, <2>2 DEF T
  <1>6. SumFunctionOnSet(f, A) = SumFunctionOnSet(f, Validators)
    <2>1. \A v \in A : f[v] \in Nat
      BY <1>3
    <2> HIDE DEF A
    <2> QED BY <1>3, <2>1, FiniteConstants, SumOfSupport
  <1>7. SumFunction(g) = SumFunctionOnSet(g, DOMAIN g)
    BY DEF SumFunction, SumFunctionOnSet, FoldFunction
  <1> QED BY <1>5, <1>6, <1>7

(* The whole set re-read adds up to what the chain holds and owes.         *)
LEMMA ReadSums ==
    ASSUME TypedParts, Distinct(validators),
           NowhereElse(validators, delegated), NowhereElse(validators, accrued)
    PROVE  /\ TotalBonded(RefreshedSet) = SumFunctionOnSet(delegated, Validators)
           /\ TotalPending(RefreshedSet) = SumFunctionOnSet(accrued, Validators)
  <1> DEFINE f == [i \in DOMAIN RefreshedSet |-> RefreshedSet[i].bonded]
             g == [i \in DOMAIN RefreshedSet |-> RefreshedSet[i].pending]
  <1>1. /\ RefreshedSet \in Seq(ValidatorEntry) /\ SameRows(RefreshedSet, validators)
        /\ delegated \in [Validators -> Nat] /\ accrued \in [Validators -> Nat]
    BY RefreshedTracks DEF TypedParts, TypedChain
  <1>2. /\ DOMAIN RefreshedSet = DOMAIN validators
        /\ \A i \in DOMAIN validators : RefreshedSet[i].address = validators[i].address
    BY <1>1 DEF SameRows, SameRow
  <1>3. Distinct(RefreshedSet) /\ AddressesIn(RefreshedSet) = AddressesIn(validators)
    BY <1>2 DEF Distinct, AddressesIn
  <1>4. ASSUME NEW i \in DOMAIN validators
        PROVE  /\ RefreshedSet[i].bonded = delegated[RefreshedSet[i].address]
               /\ RefreshedSet[i].pending = accrued[RefreshedSet[i].address]
    <2>1. PICK e \in ValidatorEntry : e = validators[i]
      BY SetDomain DEF TypedParts, TypedSet
    <2>2. RefreshedSet[i] = [e EXCEPT !.bonded = delegated[e.address],
                                      !.pending = accrued[e.address]]
      BY <2>1 DEF RefreshedSet, ReadPage, ReadDelegation
    <2>3. /\ RefreshedSet[i].bonded = delegated[e.address]
          /\ RefreshedSet[i].pending = accrued[e.address]
      BY <2>2 DEF ValidatorEntry
    <2> QED BY <1>2, <2>1, <2>3
  <1>5. NowhereElse(RefreshedSet, delegated) /\ NowhereElse(RefreshedSet, accrued)
    BY <1>3 DEF NowhereElse
  <1>6. /\ DOMAIN f = DOMAIN RefreshedSet /\ DOMAIN g = DOMAIN RefreshedSet
        /\ \A i \in DOMAIN RefreshedSet : f[i] = delegated[RefreshedSet[i].address]
        /\ \A i \in DOMAIN RefreshedSet : g[i] = accrued[RefreshedSet[i].address]
    BY <1>2, <1>4
  <1>7. TotalBonded(RefreshedSet) = SumFunction(f) /\ TotalPending(RefreshedSet) = SumFunction(g)
    BY DEF TotalBonded, TotalPending
  <1> HIDE DEF f, g
  <1>8. SumFunction(f) = SumFunctionOnSet(delegated, Validators)
    BY <1>1, <1>3, <1>5, <1>6, SumOverEntries, SMTT(30)
  <1>9. SumFunction(g) = SumFunctionOnSet(accrued, Validators)
    BY <1>1, <1>3, <1>5, <1>6, SumOverEntries, SMTT(30)
  <1> QED BY <1>7, <1>8, <1>9

StakedAndAccrued(dl, ac) == SumFunction([v \in Validators |-> dl[v] + ac[v]])

(* Stake and rewards of every validator, added up together or apart.       *)
LEMMA StakeAndRewards ==
    ASSUME NEW dl \in [Validators -> Nat], NEW ac \in [Validators -> Nat]
    PROVE  /\ StakedAndAccrued(dl, ac)
                = SumFunctionOnSet(dl, Validators) + SumFunctionOnSet(ac, Validators)
           /\ SumFunctionOnSet(dl, Validators) \in Nat
           /\ SumFunctionOnSet(ac, Validators) \in Nat
  <1> DEFINE f == [v \in Validators |-> dl[v] + ac[v]]
  <1>1. /\ DOMAIN f = Validators
        /\ \A v \in Validators : dl[v] \in Nat /\ ac[v] \in Nat /\ f[v] = dl[v] + ac[v]
    OBVIOUS
  <1> HIDE DEF f
  <1>2. SumFunctionOnSet(f, Validators)
          = SumFunctionOnSet(dl, Validators) + SumFunctionOnSet(ac, Validators)
    BY <1>1, FiniteConstants, SumAdded
  <1>3. SumFunction(f) = SumFunctionOnSet(f, Validators)
    BY <1>1 DEF SumFunction, SumFunctionOnSet, FoldFunction
  <1> QED BY <1>2, <1>3, FiniteConstants, SumOfPart DEF f, StakedAndAccrued

(* Rewards that are paid out go from what has accrued to the balance.      *)
LEMMA RewardsMove ==
    ASSUME TypedChain, NEW touched \in SUBSET Validators, RewardsPaidAt(touched)
    PROVE  SumFunctionOnSet(accrued', Validators) + balance'
             = SumFunctionOnSet(accrued, Validators) + balance
  <1> DEFINE S(f, T) == SumFunctionOnSet(f, T)
             rest == Validators \ touched
  <1>1. /\ accrued \in [Validators -> Nat] /\ accrued' \in [Validators -> Nat]
        /\ balance \in Nat /\ balance' = balance + S(accrued, touched)
    BY RewardsPaidTyped DEF TypedChain, RewardsPaidAt
  <1>2. /\ \A v \in touched : accrued'[v] = 0
        /\ \A v \in rest : accrued'[v] = accrued[v]
    BY DEF RewardsPaidAt
  <1>3. IsFiniteSet(touched) /\ IsFiniteSet(rest)
    BY FiniteConstants, FS_Subset
  <1>4. S(accrued, Validators) = S(accrued, touched) + S(accrued, rest)
    BY <1>1, FiniteConstants, SumSplit
  <1>5. S(accrued', Validators) = S(accrued', touched) + S(accrued', rest)
    BY <1>1, FiniteConstants, SumSplit
  <1>6. S(accrued', touched) = 0 /\ S(accrued', rest) = S(accrued, rest)
    BY <1>2, <1>3, SumZero, SumExt
  <1>7. S(accrued, touched) \in Nat /\ S(accrued, rest) \in Nat
    BY <1>1, FiniteConstants, SumOfPart
  <1> HIDE DEF S
  <1> QED BY <1>1, <1>4, <1>5, <1>6, <1>7 DEF S

-----------------------------------------------------------------------------
(* Two facts about the chain that prices rest on.                          *)

\* Shares of nobody: the seed's, which the contract holds for good.
Unheld(tk) == tk.supply - SumFunctionOnSet(tk.held, Users)

SeedStays == config.bootstrapped => Unheld(token) > 0

(* A mint to a holder leaves the shares of nobody as they are.             *)
LEMMA MintKeepsSeed ==
    ASSUME TypedToken, NEW u \in Users, NEW x \in Nat,
           token' = [token EXCEPT !.supply = @ + x, !.held[u] = @ + x]
    PROVE  Unheld(token') = Unheld(token) /\ token'.supply = token.supply + x
  <1>1. /\ token.supply \in Nat /\ token.held \in [Users -> Nat]
        /\ SumFunctionOnSet(token.held, Users) \in Nat
    BY TokenFields DEF TypedToken
  <1> DEFINE h == [token.held EXCEPT ![u] = token.held[u] + x]
  <1>2. token.held[u] \in Nat /\ token.held[u] + x \in Nat
    BY <1>1
  <1>3. token'.supply = token.supply + x /\ token'.held = h
    BY DEF TypedToken, Token
  <1>4. SumFunctionOnSet(h, Users)
          = SumFunctionOnSet(token.held, Users) - token.held[u] + (token.held[u] + x)
    BY <1>1, <1>2, FiniteConstants, SumUpdate
  <1> HIDE DEF h
  <1>5. SumFunctionOnSet(h, Users) = SumFunctionOnSet(token.held, Users) + x
    BY <1>1, <1>2, <1>4
  <1> QED BY <1>1, <1>3, <1>5 DEF Unheld

(* So does a burn by a holder.                                             *)
LEMMA BurnKeepsSeed ==
    ASSUME TypedToken, NEW u \in Users, NEW x \in Nat, x <= token.held[u],
           token' = [token EXCEPT !.supply = @ - x, !.held[u] = @ - x]
    PROVE  Unheld(token') = Unheld(token) /\ token'.supply = token.supply - x
  <1>1. /\ token.supply \in Nat /\ token.held \in [Users -> Nat]
        /\ SumFunctionOnSet(token.held, Users) \in Nat
    BY TokenFields DEF TypedToken
  <1> DEFINE h == [token.held EXCEPT ![u] = token.held[u] - x]
  <1>2. token.held[u] \in Nat /\ token.held[u] - x \in Nat
    BY <1>1
  <1>3. token'.supply = token.supply - x /\ token'.held = h
    BY DEF TypedToken, Token
  <1>4. SumFunctionOnSet(h, Users)
          = SumFunctionOnSet(token.held, Users) - token.held[u] + (token.held[u] - x)
    BY <1>1, <1>2, FiniteConstants, SumUpdate
  <1> HIDE DEF h
  <1>5. SumFunctionOnSet(h, Users) = SumFunctionOnSet(token.held, Users) - x
    BY <1>1, <1>2, <1>4
  <1> QED BY <1>1, <1>3, <1>5 DEF Unheld

(* What a deposit mints is an amount.                                      *)
LEMMA DepositMints ==
    ASSUME TypedParts, NEW amount \in Deposits
    PROVE  /\ DepositPool(amount) \in PoolTotals
           /\ SharesForDeposit(amount, DepositPool(amount)) \in Nat
  <1>1. amount \in Nat /\ RefreshedTotals \in TotalsCache
    BY InputsNat, RefreshTyped
  <1>2. balance + amount \in Nat
    BY <1>1 DEF TypedParts, TypedChain
  <1>3. DepositPool(amount) \in PoolTotals
    BY <1>1, <1>2, PoolTyped DEF DepositPool
  <1> QED BY <1>1, <1>3, SharesForDepositNat

(* Once the contract is bootstrapped there are shares that nobody can burn *)
(* (execute_bootstrap mints the seed's to the contract itself).            *)
LEMMA SeedStep == ASSUME TypedParts, SeedStays, [Next]_vars PROVE SeedStays'
  <1>0. TypedToken /\ config \in Config
    BY DEF TypedParts, TypedConfig
  <1>1. ASSUME Unheld(token') = Unheld(token), config'.bootstrapped = config.bootstrapped
        PROVE  SeedStays'
    <2>1. SeedStays' <=> (config'.bootstrapped => Unheld(token') > 0)
      BY DEF SeedStays, Unheld
    <2> QED BY <1>1, <2>1 DEF SeedStays
  <1>2. ASSUME NEW seed \in Seeds, Bootstrap(seed) PROVE SeedStays'
    <2>1. /\ token' = [token EXCEPT !.supply = @ + seed] /\ seed \in Nat
          /\ seed >= MinBootstrapSeed /\ MinBootstrapSeed > 0 /\ MinBootstrapSeed \in Nat
      BY <1>2, InputsNat, ConstantsAreTyped DEF Bootstrap
    <2>2. token'.supply = token.supply + seed /\ token'.held = token.held
      BY <1>0, <2>1 DEF TypedToken, Token
    <2>3. /\ token.supply \in Nat /\ SumFunctionOnSet(token.held, Users) \in Nat
          /\ SumFunctionOnSet(token.held, Users) <= token.supply
      BY <1>0, TokenFields DEF TypedToken, SupplyCovers
    <2>4. Unheld(token') > 0
      BY <2>1, <2>2, <2>3 DEF Unheld
    <2>5. SeedStays' <=> (config'.bootstrapped => Unheld(token') > 0)
      BY DEF SeedStays, Unheld
    <2> QED BY <2>4, <2>5
  <1>3. ASSUME NEW u \in Users, NEW amount \in Deposits, Deposit(u, amount) PROVE SeedStays'
    <2> DEFINE x == SharesForDeposit(amount, DepositPool(amount))
    <2>1. token' = [token EXCEPT !.supply = @ + x, !.held[u] = @ + x] /\ config' = config
      BY <1>3 DEF Deposit
    <2>2. x \in Nat
      BY DepositMints
    <2> HIDE DEF x
    <2> QED BY <1>0, <1>1, <2>1, <2>2, MintKeepsSeed
  <1>4. ASSUME NEW u \in Users, NEW shares \in Requests, Unbond(u, shares) PROVE SeedStays'
    <2>1. /\ token' = [token EXCEPT !.supply = @ - shares, !.held[u] = @ - shares]
          /\ config' = config /\ shares \in Nat /\ shares <= token.held[u]
      BY <1>4, InputsNat DEF Unbond
    <2> QED BY <1>0, <1>1, <2>1, BurnKeepsSeed
  <1>5. ASSUME NEW limit \in PageLimits, Compound(limit) PROVE SeedStays'
    <2> DEFINE x == FeeShares(limit)
    <2>1. /\ token' = [token EXCEPT !.supply = @ + x, !.held[Treasury] = @ + x]
          /\ config' = config /\ Treasury \in Users
      BY <1>5, ConstantsAreTyped DEF Compound
    <2>2. x \in Nat
      BY HarvestTyped
    <2> HIDE DEF x
    <2> QED BY <1>0, <1>1, <2>1, <2>2, MintKeepsSeed
  <1>6. ASSUME NEW u \in Users, NEW shares \in Requests, BurnOwnShares(u, shares)
        PROVE  SeedStays'
    <2>1. /\ token' = [token EXCEPT !.supply = @ - shares, !.held[u] = @ - shares]
          /\ config' = config /\ shares \in Nat /\ shares <= token.held[u]
      BY <1>6, InputsNat DEF BurnOwnShares, contractVars
    <2> QED BY <1>0, <1>1, <2>1, BurnKeepsSeed
  <1>7. ASSUME token' = token, config'.bootstrapped = config.bootstrapped PROVE SeedStays'
    BY <1>1, <1>7
  <1>8. CASE UserAction
    BY <1>2, <1>3, <1>4, <1>7, <1>8 DEF UserAction, ClaimMatured
  <1>9. CASE UpkeepAction
    BY <1>5, <1>7, <1>9 DEF UpkeepAction, AdvanceWindow, CollectMatured, Sync, chainVars
  <1>10. CASE ManagerAction
    BY <1>0, <1>7, <1>10 DEF ManagerAction, SetWeights, SetPerformanceFee, Rebalance,
       SetPaused, Migrate, chainVars, Config
  <1>11. CASE ChainAction
    BY <1>6, <1>7, <1>11 DEF ChainAction, NextBlock, Slash, AccrueRewards, Donate,
       contractVars
  <1>12. CASE UNCHANGED vars
    BY <1>7, <1>12 DEF vars, contractVars, chainVars
  <1> QED BY <1>8, <1>9, <1>10, <1>11, <1>12 DEF Next

(* No validator ever leaves the set (apply_weights).                       *)
LEMMA EntriesStay ==
    ASSUME TypedParts, [Next]_vars
    PROVE  AddressesIn(validators) \subseteq AddressesIn(validators')
  <1>1. CASE ~ \E weights \in WeightChoices : SetWeights(weights)
    <2>1. /\ DOMAIN validators' = DOMAIN validators
          /\ \A i \in DOMAIN validators : validators'[i].address = validators[i].address
      BY <1>1, RowsKept DEF SameRows, SameRow
    <2> QED BY <2>1 DEF AddressesIn
  <1>2. ASSUME NEW weights \in WeightChoices, SetWeights(weights)
        PROVE  AddressesIn(validators) \subseteq AddressesIn(validators')
    <2>1. /\ validators' = ApplyWeights(validators, weights)
          /\ validators \in Seq(ValidatorEntry) /\ weights \in Seq(ValidatorInit)
      BY <1>2, InputsNat DEF SetWeights, TypedParts, TypedSet
    <2>2. \A i \in DOMAIN validators : /\ i \in DOMAIN validators'
                                       /\ validators'[i].address = validators[i].address
      BY <2>1, AssignmentKeepsTotal
    <2> QED BY <2>2 DEF AddressesIn
  <1> QED BY <1>1, <1>2

(* Rewards accrue nowhere but at validators of the set.                    *)
LEMMA AccruedStep ==
    ASSUME TypedParts, NowhereElse(validators, delegated), NowhereElse(validators, accrued),
           [Next]_vars
    PROVE  NowhereElse(validators', accrued')
  <1>0. AddressesIn(validators) \subseteq AddressesIn(validators')
    BY EntriesStay
  <1>1. ASSUME \A v \in Validators : accrued'[v] \in {0, accrued[v]}
        PROVE  NowhereElse(validators', accrued')
    BY <1>0, <1>1 DEF NowhereElse
  <1>2. ASSUME NEW touched, RewardsPaidAt(touched)
        PROVE  \A v \in Validators : accrued'[v] \in {0, accrued[v]}
    BY <1>2 DEF RewardsPaidAt
  <1>3. ASSUME accrued' = accrued PROVE NowhereElse(validators', accrued')
    BY <1>1, <1>3
  <1>4. ASSUME NEW w \in Validators, NEW amount \in Rewards, AccrueRewards(w, amount)
        PROVE  NowhereElse(validators', accrued')
    <2>1. accrued' = [accrued EXCEPT ![w] = @ + amount] /\ delegated[w] > 0
      BY <1>4 DEF AccrueRewards, Delegates
    <2>2. w \in AddressesIn(validators)
      BY <2>1 DEF NowhereElse
    <2>3. \A v \in Validators : v # w => accrued'[v] = accrued[v]
      BY <2>1 DEF TypedParts, TypedChain
    <2> QED BY <1>0, <2>2, <2>3 DEF NowhereElse
  <1>5. ASSUME NEW limit \in PageLimits, Compound(limit)
        PROVE  NowhereElse(validators', accrued')
    <2>1. \A v \in Validators : accrued'[v] \in {0, accrued[v]}
      BY <1>5 DEF Compound
    <2> QED BY <1>1, <2>1
  <1>6. CASE UserAction
    <2>1. ASSUME NEW u \in Users, NEW amount \in Deposits, Deposit(u, amount)
          PROVE  NowhereElse(validators', accrued')
      BY <1>1, <1>2, <2>1 DEF Deposit
    <2>2. ASSUME NEW u \in Users, NEW shares \in Requests, Unbond(u, shares)
          PROVE  NowhereElse(validators', accrued')
      BY <1>1, <1>2, <2>2 DEF Unbond
    <2> QED BY <1>3, <1>6, <2>1, <2>2 DEF UserAction, Bootstrap, ClaimMatured, stakingVars
  <1>7. CASE UpkeepAction
    <2>1. ASSUME AdvanceWindow PROVE NowhereElse(validators', accrued')
      BY <1>1, <1>2, <2>1 DEF AdvanceWindow
    <2> QED BY <1>3, <1>5, <1>7, <2>1 DEF UpkeepAction, CollectMatured, Sync, chainVars
  <1>8. CASE ManagerAction
    <2>1. ASSUME NEW move \in Moves, Rebalance(move) PROVE NowhereElse(validators', accrued')
      BY <1>1, <1>2, <2>1 DEF Rebalance
    <2> QED BY <1>3, <1>8, <2>1 DEF ManagerAction, SetWeights, SetPerformanceFee, SetPaused,
            Migrate, chainVars, stakingVars
  <1>9. CASE ChainAction
    BY <1>3, <1>4, <1>9 DEF ChainAction, NextBlock, Slash, BurnOwnShares, Donate, stakingVars
  <1>10. CASE UNCHANGED vars
    BY <1>3, <1>10 DEF vars, chainVars
  <1> QED BY <1>6, <1>7, <1>8, <1>9, <1>10 DEF Next

-----------------------------------------------------------------------------
(* Prices.                                                                 *)

(* A closing takes as much off what the assets have to cover as it takes   *)
(* off the stake.                                                          *)
LEMMA ClosingIsNeutral ==
    ASSUME TypedQueue, NEW set \in Seq(ValidatorEntry), NEW t \in TotalsCache, NEW ws,
           TypedWindows(ws, nextWindowId), t.bonded = TotalBonded(set),
           t.owedOpen = ws[openWindow].owed, NEW r, PlannedClosing(r, set, t, ws)
    PROVE  \E o \in Nat : /\ r.totals.bonded = t.bonded - o /\ o <= t.bonded
                          /\ OwedBacked(r.totals) = OwedBacked(t) - o
                          /\ o <= OwedBacked(t)
  <1> DEFINE owed == ws[openWindow].owed
             legs == PlanUndelegation(set, owed, EntryCeiling)
  <1>1. /\ t.bonded \in Nat /\ t.owedOpen \in Nat /\ t.owedMatured \in Nat
        /\ OwedBacked(t) = t.owedOpen + t.owedMatured
    BY TotalsFields DEF OwedBacked
  <1>2. CASE r = StayOpen(set, t, ws)
    <2>1. r.totals = t
      BY <1>2 DEF StayOpen
    <2>2. t.bonded = t.bonded - 0 /\ OwedBacked(t) = OwedBacked(t) - 0
          /\ 0 <= t.bonded /\ 0 <= OwedBacked(t)
      BY <1>1
    <2> QED BY <2>1, <2>2
  <1>3. CASE /\ r = CloseOpenWindow(set, t, ws)
             /\ HasUnbondingCapacity(set, owed, EntryCeiling)
    <2>1. r.totals = LiabilityInFlight(t, owed)
      BY <1>3 DEF CloseOpenWindow
    <2>2. owed \in Nat /\ legs \in [DOMAIN set -> Nat]
      BY <1>1, LegsNat
    <2>3. SumFunctionOnSet(legs, DOMAIN set) = owed /\ \A i \in DOMAIN set : legs[i] <= set[i].bonded
      BY <1>3, <2>2, PlanCovers
    <2> HIDE DEF legs, owed
    <2>4. owed <= t.bonded
      <3>1. /\ TotalBonded(set) = TotalBonded(WithLegs(set, legs)) + owed
            /\ TotalBonded(WithLegs(set, legs)) \in Nat
        BY <2>2, <2>3, TotalLessLegs
      <3> QED BY <1>1, <2>2, <3>1
    <2>5. /\ r.totals.bonded = SatSub(t.bonded, owed)
          /\ r.totals.owedOpen = SatSub(t.owedOpen, owed)
          /\ r.totals.owedMatured = t.owedMatured
      BY <2>1 DEF LiabilityInFlight, TotalsCache
    <2>6. t.owedOpen = owed
      BY DEF owed
    <2>7. r.totals.bonded = t.bonded - owed /\ r.totals.owedOpen = 0
      BY <1>1, <2>2, <2>4, <2>5, <2>6 DEF SatSub
    <2>8. OwedBacked(r.totals) = t.owedMatured
      BY <1>1, <2>5, <2>7 DEF OwedBacked
    <2>9. OwedBacked(r.totals) = OwedBacked(t) - owed /\ owed <= OwedBacked(t)
      BY <1>1, <2>6, <2>8
    <2> QED BY <2>2, <2>4, <2>7, <2>9
  <1> QED BY <1>2, <1>3 DEF PlannedClosing

\* What the chain's figures and the cache together are, besides their types.
Priceable ==
    /\ Consistent /\ TypedParts /\ Distinct(validators) /\ TrackingNow
    /\ NowhereElse(validators, accrued) /\ SeedStays

(* The pool that a request is priced from, and a deposit as well, is made  *)
(* of the chain's own figures.                                             *)
LEMMA PoolIsTheChains ==
    ASSUME Priceable, config.bootstrapped
    PROVE  /\ RequestPool \in PoolTotals /\ RequestPool.supply = token.supply
           /\ RequestPool.supply > 0
           /\ Assets(RequestPool) = ChainAssets
           /\ Assets(RequestPool) = SatSub(SumFunctionOnSet(delegated, Validators)
                                  + (SumFunctionOnSet(accrued, Validators) + balance),
                                OwedBacked(totals))
  <1> DEFINE D == SumFunctionOnSet(delegated, Validators)
             R == SumFunctionOnSet(accrued, Validators)
  <1>1. /\ RefreshedTotals \in TotalsCache /\ balance \in Nat /\ totals \in TotalsCache
        /\ delegated \in [Validators -> Nat] /\ accrued \in [Validators -> Nat]
        /\ token \in Token
    BY RefreshTyped DEF Priceable, TypedParts, TypedChain, TypedToken
  <1>2. TotalBonded(RefreshedSet) = D /\ TotalPending(RefreshedSet) = R
    BY ReadSums DEF Priceable, TrackingNow, Tracking
  <1>3. /\ RefreshedTotals.bonded = D /\ RefreshedTotals.pending = R
        /\ RefreshedTotals.supply = token.supply
        /\ RefreshedTotals.owedOpen = totals.owedOpen
        /\ RefreshedTotals.owedMatured = totals.owedMatured
    BY <1>1, <1>2 DEF RefreshedTotals, TotalsCache, MirroredSupply
  <1>4. D \in Nat /\ R \in Nat
        /\ StakedAndAccrued(delegated, accrued) = D + R
    BY <1>1, StakeAndRewards
  <1>5. SatSub(balance, 0) = balance
    BY <1>1 DEF SatSub
  <1>6. OwedBacked(RefreshedTotals) = OwedBacked(totals)
    BY <1>3 DEF OwedBacked
  <1> HIDE DEF D, R
  <1>7. /\ RequestPool.bonded = D /\ RequestPool.pending = R /\ RequestPool.liquid = balance
        /\ RequestPool.owedBacked = OwedBacked(totals) /\ RequestPool.supply = token.supply
    BY <1>3, <1>5, <1>6 DEF RequestPool, PoolOf
  <1>8. RequestPool \in PoolTotals
    BY <1>1, PoolTyped DEF RequestPool
  <1>9. Assets(RequestPool) = SatSub(D + R + balance, OwedBacked(totals))
    BY <1>7 DEF Assets
  <1>10. ChainAssets = SatSub(D + R + balance, OwedBacked(totals))
    BY <1>4 DEF ChainAssets, StakedAndAccrued
  <1>11. D + R + balance = D + (R + balance)
    BY <1>1, <1>4
  <1>12. token.supply > 0
    <2>1. Unheld(token) > 0 /\ Unheld(token) = token.supply - SumFunctionOnSet(token.held, Users)
      BY DEF Priceable, SeedStays, Unheld
    <2> QED BY <1>1, <2>1, TokenFields
  <1> QED BY <1>7, <1>8, <1>9, <1>10, <1>11, <1>12 DEF D, R

(* What the chain holds when the entries' stakes are the chain's.          *)
LEMMA StakesCounted ==
    ASSUME NEW set \in Seq(ValidatorEntry), NEW dl \in [Validators -> Nat],
           NEW ac \in [Validators -> Nat], Distinct(set), StakesTrue(set, dl),
           NowhereElse(set, dl)
    PROVE  StakedAndAccrued(dl, ac) = TotalBonded(set) + SumFunctionOnSet(ac, Validators)
  <1> DEFINE g == [i \in DOMAIN set |-> set[i].bonded]
  <1>1. DOMAIN g = DOMAIN set /\ \A i \in DOMAIN set : g[i] = dl[set[i].address]
    BY DEF StakesTrue
  <1>2. TotalBonded(set) = SumFunction(g)
    BY DEF TotalBonded
  <1> HIDE DEF g
  <1>3. SumFunction(g) = SumFunctionOnSet(dl, Validators)
    BY <1>1, SumOverEntries
  <1> QED BY <1>2, <1>3, StakeAndRewards

\* The chain's assets with the next state's figures.
NextAssets ==
    SatSub(totals'.bonded + (SumFunctionOnSet(accrued', Validators) + balance'),
           OwedBacked(totals'))

(* After a closing that was planned from the chain's stake, the cache and  *)
(* the chain count the same assets.                                        *)
LEMMA ClosingIsCounted ==
    ASSUME Priceable, [Next]_vars, NEW set \in Seq(ValidatorEntry), Distinct(set),
           NEW t \in TotalsCache, NEW ws, TypedWindows(ws, nextWindowId),
           t.bonded = TotalBonded(set), t.owedOpen = ws[openWindow].owed,
           NEW r, PlannedClosing(r, set, t, ws), Commit(r),
           NEW staked \in [Validators -> Nat], Undelegated(r, staked),
           StakesTrue(set, staked), NowhereElse(set, staked),
           NEW touched \in SUBSET Validators, RewardsPaidAt(touched)
    PROVE  /\ ChainAssets' = NextAssets
           /\ SumFunctionOnSet(accrued', Validators) + balance'
                = SumFunctionOnSet(accrued, Validators) + balance
           /\ \E o \in Nat : /\ totals'.bonded = t.bonded - o /\ o <= t.bonded
                             /\ OwedBacked(totals') = OwedBacked(t) - o
                             /\ o <= OwedBacked(t)
  <1>1. /\ TypedParts' /\ TypedQueue /\ TypedChain
        /\ validators' = r.set /\ totals' = r.totals
        /\ \A v \in Validators : delegated'[v] = staked[v] - Leaving(r, v)
    BY PartsStep DEF Priceable, TypedParts, Commit, Undelegated
  <1>2. /\ validators' \in Seq(ValidatorEntry) /\ totals' \in TotalsCache
        /\ delegated' \in [Validators -> Nat] /\ accrued' \in [Validators -> Nat]
        /\ balance' \in Nat
    BY <1>1 DEF TypedParts, TypedSet, TypedChain
  <1>3. /\ totals'.bonded = TotalBonded(validators')
        /\ StakesTrue(validators', delegated') /\ NowhereElse(validators', delegated')
    BY <1>1, ClosingTracks
  <1>4. Distinct(validators')
    <2>1. SameRows(r.set, set)
      BY <1>1, ClosingLegs
    <2> QED BY <1>1, <2>1 DEF SameRows, SameRow, Distinct
  <1>5. StakedAndAccrued(delegated', accrued')
          = totals'.bonded + SumFunctionOnSet(accrued', Validators)
    <2>1. StakedAndAccrued(delegated', accrued')
            = TotalBonded(validators') + SumFunctionOnSet(accrued', Validators)
      BY <1>2, <1>3, <1>4, StakesCounted
    <2> QED BY <1>3, <2>1
  <1>6. ChainAssets' = SatSub(StakedAndAccrued(delegated', accrued') + balance',
                              OwedBacked(totals'))
    BY DEF ChainAssets, OwedBacked, StakedAndAccrued
  <1>7. totals'.bonded + SumFunctionOnSet(accrued', Validators) + balance'
          = totals'.bonded + (SumFunctionOnSet(accrued', Validators) + balance')
    <2>1. PICK b \in Nat, a \in Nat, l \in Nat :
            /\ b = totals'.bonded /\ a = SumFunctionOnSet(accrued', Validators)
            /\ l = balance'
      BY <1>2, StakeAndRewards, TotalsFields
    <2>2. b + a + l = b + (a + l)
      OBVIOUS
    <2> QED BY <2>1, <2>2
  <1>8. ChainAssets' = NextAssets
    BY <1>5, <1>6, <1>7 DEF NextAssets
  <1>9. SumFunctionOnSet(accrued', Validators) + balance'
          = SumFunctionOnSet(accrued, Validators) + balance
    BY <1>1, RewardsMove
  <1>10. \E o \in Nat : /\ r.totals.bonded = t.bonded - o /\ o <= t.bonded
                        /\ OwedBacked(r.totals) = OwedBacked(t) - o
                        /\ o <= OwedBacked(t)
    BY <1>1, ClosingIsNeutral
  <1> QED BY <1>1, <1>8, <1>9, <1>10

(* A deposit costs nobody who stays.                                       *)
LEMMA DepositDoesNotDilute ==
    ASSUME Priceable, [Next]_vars, NEW u \in Users, NEW amount \in Deposits,
           Deposit(u, amount)
    PROVE  ChainAssets' * token.supply >= ChainAssets * token'.supply
  <1> DEFINE r == DepositPlaced(amount)
             staked == DepositStaked(amount)
             m == SharesForDeposit(amount, DepositPool(amount))
             D == SumFunctionOnSet(delegated, Validators)
             q == SumFunctionOnSet(accrued, Validators) + balance
             ob == OwedBacked(totals)
             A == ChainAssets
             S == token.supply
             touched == LeftBy(r) \cup {DepositTarget(amount)}
  <1>1. /\ config.bootstrapped /\ AcceptsStake(RefreshedSet) # {}
        /\ Commit(r) /\ Undelegated(r, staked) /\ RewardsPaidAt(touched)
        /\ token' = [token EXCEPT !.supply = @ + m, !.held[u] = @ + m]
    BY DEF Deposit, DepositAccepted
  <1>2. /\ TypedParts /\ TypedChain /\ TypedToken /\ amount \in Nat /\ totals \in TotalsCache
        /\ delegated \in [Validators -> Nat] /\ accrued \in [Validators -> Nat]
        /\ balance \in Nat /\ Distinct(validators) /\ NowhereElse(validators, delegated)
        /\ TypedWindows(windows, nextWindowId)
    BY InputsNat DEF Priceable, TypedParts, TypedChain, TypedQueue, TrackingNow, Tracking
  <1>3. touched \in SUBSET Validators
    <2>1. RefreshedSet \in Seq(ValidatorEntry)
      BY <1>2, RefreshTyped
    <2>2. SelectForDelegation(RefreshedSet, amount) \in DOMAIN RefreshedSet
      BY <1>1, <1>2, <2>1, SelectsActive DEF AcceptsStake
    <2>3. DepositTarget(amount) \in Validators
      BY <2>1, <2>2, SetDomain, EntryFields DEF DepositTarget
    <2> QED BY <2>3 DEF LeftBy
  <1>4. DepositPool(amount) = RequestPool
    <2>1. SatSub(balance + amount, amount) = balance /\ SatSub(balance, 0) = balance
      BY <1>2 DEF SatSub
    <2> QED BY <2>1 DEF DepositPool, RequestPool, PoolOf
  <1>5. /\ RequestPool \in PoolTotals /\ RequestPool.supply = S /\ S > 0
        /\ Assets(RequestPool) = A /\ A = SatSub(D + q, ob)
    BY <1>1, PoolIsTheChains
  <1>6. /\ m \in Nat /\ (A + amount) * S >= A * (S + m)
        /\ token'.supply = S + m
    <2>1. m \in Nat
      BY <1>2, DepositMints
    <2>2. (Assets(RequestPool) + amount) * RequestPool.supply >= Assets(RequestPool) * (RequestPool.supply + m)
      BY <1>2, <1>4, <1>5, DepositKeepsRate
    <2>3. token'.supply = S + m
      <3> HIDE DEF m
      <3> QED BY <1>1, <1>2, <2>1, MintKeepsSeed
    <2> QED BY <1>5, <2>1, <2>2, <2>3
  <1>7. PICK set \in Seq(ValidatorEntry), t \in TotalsCache :
          /\ PlannedClosing(r, set, t, windows)
          /\ Distinct(set) /\ t.bonded = TotalBonded(set)
          /\ t.bonded = TotalBonded(RefreshedSet) + amount
          /\ t.owedOpen = totals.owedOpen /\ t.owedMatured = totals.owedMatured
          /\ staked \in [Validators -> Nat]
          /\ StakesTrue(set, staked) /\ NowhereElse(set, staked)
    BY <1>1, <1>2, DepositPlans
  <1>8. t.owedOpen = windows[openWindow].owed
    BY <1>7 DEF Priceable, Consistent, Books, LegsMatch
  <1> HIDE DEF r, staked, m, touched
  <1>9. /\ ChainAssets' = NextAssets
        /\ SumFunctionOnSet(accrued', Validators) + balance' = q
        /\ \E o \in Nat : /\ totals'.bonded = t.bonded - o /\ o <= t.bonded
                          /\ OwedBacked(totals') = OwedBacked(t) - o
                          /\ o <= OwedBacked(t)
    BY <1>1, <1>2, <1>3, <1>7, <1>8, ClosingIsCounted
  <1>10. /\ t.bonded = D + amount /\ OwedBacked(t) = ob
         /\ D \in Nat /\ q \in Nat /\ ob \in Nat /\ A \in Nat /\ S \in Nat
    <2>1. TotalBonded(RefreshedSet) = D
      BY <1>2, ReadSums DEF Priceable
    <2>2. OwedBacked(t) = ob
      BY <1>7 DEF OwedBacked
    <2>3. D \in Nat /\ SumFunctionOnSet(accrued, Validators) \in Nat
      BY <1>2, StakeAndRewards
    <2>4. q \in Nat /\ ob \in Nat /\ A \in Nat /\ S \in Nat
      BY <1>2, <1>5, <2>3, TotalsFields, AssetsNat, TokenFields DEF TypedToken
    <2> QED BY <1>7, <2>1, <2>2, <2>3, <2>4
  <1> HIDE DEF D, q, ob
  <1>11. PICK o \in Nat : /\ totals'.bonded = t.bonded - o /\ o <= t.bonded
                          /\ OwedBacked(totals') = OwedBacked(t) - o /\ o <= OwedBacked(t)
    BY <1>9
  <1>12. /\ NextAssets = SatSub(((D + amount) - o) + q, ob - o)
         /\ o <= D + amount /\ o <= ob
    <2>1. totals'.bonded = (D + amount) - o
      <3>1. t.bonded - o = (D + amount) - o
        BY <1>10
      <3> QED BY <1>11, <3>1
    <2>3. OwedBacked(totals') = ob - o
      BY <1>10, <1>11
    <2>2. o <= D + amount /\ o <= ob
      BY <1>10, <1>11
    <2> QED BY <1>9, <2>1, <2>2, <2>3 DEF NextAssets
  <1> HIDE DEF A, S
  <1>13. CASE A = 0
    <2>1. NextAssets \in Nat
      BY <1>2, <1>10, <1>12 DEF SatSub
    <2>2. NextAssets * S >= 0 /\ A * (S + m) = 0
      BY <1>6, <1>10, <1>13, <2>1, ProductNat
    <2> QED BY <1>6, <1>9, <2>2 DEF A, S
  <1>14. CASE A > 0
    <2>1. SatSub(((D + amount) - o) + q, ob - o) = SatSub(D + q, ob) + amount
      <3>1. SatSub(D + q, ob) > 0 /\ o <= D + amount /\ o <= ob
        BY <1>5, <1>12, <1>14
      <3>2. D \in Nat /\ q \in Nat /\ amount \in Nat /\ ob \in Nat /\ o \in Nat
        BY <1>2, <1>10
      <3> QED BY <3>1, <3>2 DEF SatSub
    <2>2. NextAssets = A + amount
      BY <1>5, <1>12, <2>1
    <2> QED BY <1>6, <1>9, <2>2 DEF A, S
  <1> QED BY <1>10, <1>13, <1>14

(* Nor does a request.                                                     *)
LEMMA RequestDoesNotDilute ==
    ASSUME Priceable, [Next]_vars, NEW u \in Users, NEW shares \in Requests,
           Unbond(u, shares)
    PROVE  ChainAssets' * token.supply >= ChainAssets * token'.supply
  <1> DEFINE r == RequestPlaced(shares)
             a == AssetsForShares(shares, RequestPool)
             D == SumFunctionOnSet(delegated, Validators)
             q == SumFunctionOnSet(accrued, Validators) + balance
             ob == OwedBacked(totals)
             A == ChainAssets
             S == token.supply
             touched == LeftBy(r)
  <1>1. /\ config.bootstrapped
        /\ Commit(r) /\ Undelegated(r, delegated) /\ RewardsPaidAt(touched)
        /\ token' = [token EXCEPT !.supply = @ - shares, !.held[u] = @ - shares]
        /\ shares <= token.held[u]
    BY DEF Unbond, RequestAccepted
  <1>2. /\ TypedParts /\ TypedChain /\ TypedToken /\ shares \in Nat /\ totals \in TotalsCache
        /\ delegated \in [Validators -> Nat] /\ accrued \in [Validators -> Nat]
        /\ balance \in Nat /\ Distinct(validators) /\ NowhereElse(validators, delegated)
    BY InputsNat DEF Priceable, TypedParts, TypedChain, TrackingNow, Tracking
  <1>3. touched \in SUBSET Validators
    BY DEF LeftBy
  <1>4. /\ RequestPool \in PoolTotals /\ RequestPool.supply = S /\ S > 0
        /\ Assets(RequestPool) = A /\ A = SatSub(D + q, ob)
    BY <1>1, PoolIsTheChains
  <1>5. shares <= S
    <2>1. token.held[u] <= SumFunctionOnSet(token.held, Users) /\ token.held[u] \in Nat
      BY <1>2, TokenFields, FiniteConstants, SumCovers DEF TypedToken
    <2>2. SumFunctionOnSet(token.held, Users) <= S /\ S \in Nat
          /\ SumFunctionOnSet(token.held, Users) \in Nat
      BY <1>2, TokenFields DEF TypedToken, SupplyCovers
    <2> QED BY <1>1, <1>2, <2>1, <2>2
  <1>6. /\ a \in Nat /\ a <= A /\ (A - a) * S >= A * (S - shares)
        /\ token'.supply = S - shares
    <2>1. a \in Nat
      BY <1>2, <1>4, AssetsForSharesNat
    <2>2. /\ a <= Assets(RequestPool)
          /\ (Assets(RequestPool) - a) * RequestPool.supply
               >= Assets(RequestPool) * (RequestPool.supply - shares)
      BY <1>2, <1>4, <1>5, WithdrawalKeepsRate
    <2>3. token'.supply = S - shares
      BY <1>1, <1>2, BurnKeepsSeed
    <2> QED BY <1>4, <2>1, <2>2, <2>3
  <1>7. PICK t, ws :
          /\ t \in TotalsCache
          /\ PlannedClosing(r, RefreshedSet, t, ws)
          /\ TypedWindows(ws, nextWindowId) /\ t.bonded = TotalBonded(RefreshedSet)
          /\ t.owedMatured = totals.owedMatured
          /\ t.owedOpen = totals.owedOpen + a
          /\ ws[openWindow].owed = windows[openWindow].owed + a
    BY <1>2, RequestPlans
  <1>8. t.owedOpen = ws[openWindow].owed
    BY <1>7 DEF Priceable, Consistent, Books, LegsMatch
  <1>9. /\ RefreshedSet \in Seq(ValidatorEntry) /\ Distinct(RefreshedSet)
        /\ StakesTrue(RefreshedSet, delegated) /\ NowhereElse(RefreshedSet, delegated)
    <2>1. /\ RefreshedSet \in Seq(ValidatorEntry) /\ SameRows(RefreshedSet, validators)
          /\ StakesTrue(RefreshedSet, delegated) /\ NowhereElse(RefreshedSet, delegated)
      BY <1>2, RefreshedTracks
    <2> QED BY <1>2, <2>1 DEF SameRows, SameRow, Distinct
  <1> HIDE DEF r, a, touched
  <1>10. /\ ChainAssets' = NextAssets
         /\ SumFunctionOnSet(accrued', Validators) + balance' = q
         /\ \E o \in Nat : /\ totals'.bonded = t.bonded - o /\ o <= t.bonded
                           /\ OwedBacked(totals') = OwedBacked(t) - o
                           /\ o <= OwedBacked(t)
    BY <1>1, <1>2, <1>3, <1>7, <1>8, <1>9, ClosingIsCounted
  <1>11. /\ t.bonded = D /\ OwedBacked(t) = ob + a
         /\ D \in Nat /\ q \in Nat /\ ob \in Nat /\ A \in Nat /\ S \in Nat
    <2>1. TotalBonded(RefreshedSet) = D
      BY <1>2, ReadSums DEF Priceable
    <2>2. OwedBacked(t) = ob + a
      <3>1. totals.owedOpen \in Nat /\ totals.owedMatured \in Nat
        BY <1>2, TotalsFields
      <3> QED BY <1>6, <1>7, <3>1 DEF OwedBacked
    <2>3. D \in Nat /\ SumFunctionOnSet(accrued, Validators) \in Nat
      BY <1>2, StakeAndRewards
    <2>4. q \in Nat /\ ob \in Nat /\ A \in Nat /\ S \in Nat
      BY <1>2, <1>4, <2>3, TotalsFields, AssetsNat, TokenFields DEF TypedToken
    <2> QED BY <1>7, <2>1, <2>2, <2>3, <2>4
  <1> HIDE DEF D, q, ob
  <1>12. PICK o \in Nat : /\ totals'.bonded = t.bonded - o /\ o <= t.bonded
                          /\ OwedBacked(totals') = OwedBacked(t) - o /\ o <= OwedBacked(t)
    BY <1>10
  <1>13. /\ NextAssets = SatSub((D - o) + q, (ob + a) - o)
         /\ o <= D /\ o <= ob + a
    <2>1. totals'.bonded = D - o
      BY <1>11, <1>12
    <2>2. OwedBacked(totals') = (ob + a) - o
      BY <1>11, <1>12
    <2>3. o <= D /\ o <= ob + a
      BY <1>11, <1>12
    <2> QED BY <1>10, <2>1, <2>2, <2>3 DEF NextAssets
  <1>14. NextAssets = A - a
    <2>1. SatSub((D - o) + q, (ob + a) - o) = SatSub(D + q, ob) - a
      <3>1. a <= SatSub(D + q, ob)
        BY <1>4, <1>6
      <3>2. D \in Nat /\ q \in Nat /\ a \in Nat /\ ob \in Nat /\ o \in Nat
        BY <1>6, <1>11
      <3> QED BY <1>13, <3>1, <3>2 DEF SatSub
    <2> QED BY <1>4, <1>13, <2>1
  <1> HIDE DEF A, S
  <1> QED BY <1>6, <1>10, <1>14 DEF A, S

(* Every step keeps the chain's figures and the cache priceable.           *)
LEMMA PriceableAlways == Spec => []Priceable
  <1>1. Init => NowhereElse(validators, accrued) /\ SeedStays
    BY DEF Init, NowhereElse, SeedStays
  <1>2. (TypeInv /\ TrackingNow /\ NowhereElse(validators, accrued) /\ SeedStays
          /\ [Next]_vars)
        => (NowhereElse(validators', accrued') /\ SeedStays')
    BY SeedStep, AccruedStep, PartsMakeTypeInv DEF TrackingNow, Tracking
  <1>3. NowhereElse(validators, accrued)' <=> NowhereElse(validators', accrued')
    BY DEF NowhereElse, AddressesIn
  <1>4. ASSUME Consistent, TypeInv, Distinct(validators), TrackingNow,
               NowhereElse(validators, accrued), SeedStays
        PROVE Priceable
    <2>1. TypedParts
      BY <1>4, PartsMakeTypeInv
    <2> QED BY <1>4, <2>1 DEF Priceable
  <1> QED BY <1>1, <1>2, <1>3, <1>4, LedgersAlwaysAgree, DistinctAlways, TrackingAlways,
          PTL DEF Spec

(* Nobody who stays pays for a deposit or a withdrawal request: the assets *)
(* behind a share, by the chain's own figures, do not fall, however stale  *)
(* the cache was, whatever was slashed before and whatever closed with it  *)
(* (refresh_totals, execute_deposit, execute_receive,                      *)
(* close_window_if_overdue).                                               *)
THEOREM NobodyDiluted == Spec => EntryAndExitDoNotDilute
  <1> DEFINE Kept == ChainAssets' * token.supply >= ChainAssets * token'.supply
  <1>1. Priceable /\ [Next]_vars => [PricedStep /\ DueWindows = {} => Kept]_vars
    <2> SUFFICES ASSUME Priceable, [Next]_vars, PricedStep PROVE Kept
      OBVIOUS
    <2>1. TypedParts
      BY DEF Priceable
    <2>2. \/ \E u \in Users, amount \in Deposits : Deposit(u, amount)
          \/ \E u \in Users, shares \in Requests : Unbond(u, shares)
      BY <2>1, PricedSteps
    <2> HIDE DEF Kept
    <2>3. ASSUME NEW u \in Users, NEW amount \in Deposits, Deposit(u, amount) PROVE Kept
      BY <2>3, DepositDoesNotDilute DEF Kept
    <2>4. ASSUME NEW u \in Users, NEW shares \in Requests, Unbond(u, shares) PROVE Kept
      BY <2>4, RequestDoesNotDilute DEF Kept
    <2> QED BY <2>2, <2>3, <2>4
  <1> QED BY <1>1, PriceableAlways, PTL DEF Spec, EntryAndExitDoNotDilute

-----------------------------------------------------------------------------
(* The fee.                                                                *)

(* A harvest of the whole set takes all that has accrued.                  *)
LEMMA HarvestIsAll ==
    ASSUME Priceable, NEW limit \in PageLimits, Page(limit) = DOMAIN validators
    PROVE  /\ OnPage(limit) = AddressesIn(validators)
           /\ OnPage(limit) \in SUBSET Validators
           /\ Harvested(limit) = SumFunctionOnSet(accrued, Validators)
  <1>1. OnPage(limit) = AddressesIn(validators)
    BY DEF OnPage, AddressesIn
  <1>2. OnPage(limit) \in SUBSET Validators /\ accrued \in [Validators -> Nat]
    BY PagesInside DEF Priceable, TypedParts, TypedChain
  <1>3. \A v \in Validators \ OnPage(limit) : accrued[v] = 0
    BY <1>1 DEF Priceable, NowhereElse
  <1>4. \A v \in OnPage(limit) : accrued[v] \in Nat
    BY <1>2
  <1>5. SumFunctionOnSet(accrued, OnPage(limit)) = SumFunctionOnSet(accrued, Validators)
    BY <1>2, <1>3, <1>4, FiniteConstants, SumOfSupport
  <1> QED BY <1>1, <1>2, <1>5 DEF Harvested

(* The set that the fee is priced from holds the chain's stakes, and none  *)
(* of the rewards.                                                         *)
LEMMA HarvestReads ==
    ASSUME Priceable, NEW limit \in PageLimits, PricedFromChain(limit)
    PROVE  /\ TotalBonded(HarvestedSet(limit)) = SumFunctionOnSet(delegated, Validators)
           /\ TotalPending(HarvestedSet(limit)) = 0
  <1> DEFINE h == HarvestedSet(limit)
             g == [i \in DOMAIN h |-> h[i].pending]
  <1>1. /\ TypedParts /\ TypedSet /\ TypedChain /\ Distinct(validators)
        /\ NowhereElse(validators, delegated)
        /\ delegated \in [Validators -> Nat] /\ accrued \in [Validators -> Nat]
    BY DEF Priceable, TypedParts, TypedChain, TrackingNow, Tracking
  <1>2. h \in Seq(ValidatorEntry) /\ DOMAIN h = DOMAIN validators
    BY <1>1, HarvestTyped
  <1>3. /\ SameRows(h, validators)
        /\ \A i \in DOMAIN validators : h[i].bonded =
              IF i \in Page(limit) /\ Delegates(validators[i].address)
              THEN delegated[validators[i].address] ELSE validators[i].bonded
    BY <1>1, HarvestedRows
  <1>4. ASSUME NEW i \in DOMAIN validators PROVE h[i].pending = 0
    <2>1. PICK e \in ValidatorEntry : e = validators[i]
      BY <1>1, SetDomain DEF TypedSet
    <2>2. i \in Page(limit)
      BY DEF PricedFromChain
    <2> DEFINE b == IF Delegates(e.address) THEN delegated[e.address] ELSE e.bonded
    <2>3. h[i] = [e EXCEPT !.bonded = b, !.pending = 0]
      BY <2>1, <2>2 DEF HarvestedSet
    <2> HIDE DEF h, b
    <2> QED BY <2>3 DEF ValidatorEntry
  <1>5. ASSUME NEW i \in DOMAIN validators
        PROVE  h[i].bonded = delegated[validators[i].address]
    <2>1. i \in Page(limit)
          /\ (Delegates(validators[i].address) \/ validators[i].bonded = 0)
      BY DEF PricedFromChain
    <2>2. delegated[validators[i].address] \in Nat
      BY <1>1, SetDomain, EntryFields DEF TypedSet
    <2> QED BY <1>3, <2>1, <2>2 DEF Delegates
  <1> HIDE DEF h
  <1>6. /\ AddressesIn(h) = AddressesIn(validators)
        /\ \A i \in DOMAIN validators : h[i].address = validators[i].address
    <2>1. \A i \in DOMAIN validators : h[i].address = validators[i].address
      BY <1>3 DEF SameRows, SameRow
    <2> QED BY <1>2, <2>1 DEF AddressesIn
  <1>7. Distinct(h) /\ NowhereElse(h, delegated) /\ StakesTrue(h, delegated)
    BY <1>1, <1>2, <1>5, <1>6 DEF Distinct, NowhereElse, StakesTrue
  <1>8. TotalBonded(h) = SumFunctionOnSet(delegated, Validators)
    <2>1. StakedAndAccrued(delegated, accrued)
            = TotalBonded(h) + SumFunctionOnSet(accrued, Validators)
      BY <1>1, <1>2, <1>7, StakesCounted
    <2>2. /\ StakedAndAccrued(delegated, accrued) = SumFunctionOnSet(delegated, Validators)
                                                    + SumFunctionOnSet(accrued, Validators)
          /\ SumFunctionOnSet(delegated, Validators) \in Nat
          /\ SumFunctionOnSet(accrued, Validators) \in Nat
      BY <1>1, StakeAndRewards
    <2>3. TotalBonded(h) \in Nat
      BY <1>2, StakesNat
    <2> QED BY <2>1, <2>2, <2>3
  <1>9. TotalPending(h) = 0
    <2>1. IsFiniteSet(DOMAIN h) /\ DOMAIN g = DOMAIN h /\ \A i \in DOMAIN h : g[i] = 0
      BY <1>2, <1>4, SetDomain
    <2>2. TotalPending(h) = SumFunction(g)
      BY DEF TotalPending
    <2> HIDE DEF g
    <2>3. SumFunction(g) = SumFunctionOnSet(g, DOMAIN g)
      BY Zenon DEF SumFunction, SumFunctionOnSet, FoldFunction
    <2>4. SumFunctionOnSet(g, DOMAIN h) = 0
      <3> DEFINE T == DOMAIN h
      <3>1. IsFiniteSet(T) /\ \A i \in T : g[i] = 0
        BY <2>1
      <3> HIDE DEF T
      <3> QED BY <3>1, SumZero DEF T
    <2> QED BY <2>1, <2>2, <2>3, <2>4
  <1> QED BY <1>8, <1>9 DEF h

(* Its pool is what the chain has, but for the rewards.                    *)
LEMMA HarvestPool ==
    ASSUME Priceable, NEW limit \in PageLimits, PricedFromChain(limit)
    PROVE  /\ PoolBeforeHarvest(limit) \in PoolTotals
           /\ PoolBeforeHarvest(limit).supply = token.supply
           /\ Assets(PoolBeforeHarvest(limit)) \in Nat \ {0}
           /\ Assets(PoolBeforeHarvest(limit)) = SatSub(
                  SumFunctionOnSet(delegated, Validators) + balance, OwedBacked(totals))
           /\ OwedBacked(totals) < SumFunctionOnSet(delegated, Validators) + balance
  <1> DEFINE D == SumFunctionOnSet(delegated, Validators)
             p == PoolBeforeHarvest(limit)
             t == [totals EXCEPT !.bonded = TotalBonded(HarvestedSet(limit)),
                                 !.pending = TotalPending(HarvestedSet(limit))]
  <1>1. /\ totals \in TotalsCache /\ balance \in Nat /\ token \in Token
        /\ delegated \in [Validators -> Nat] /\ accrued \in [Validators -> Nat]
    BY DEF Priceable, TypedParts, TypedChain, TypedToken
  <1>2. D \in Nat /\ OwedBacked(totals) \in Nat
    BY <1>1, StakeAndRewards, TotalsFields
  <1>3. /\ TotalBonded(HarvestedSet(limit)) = D /\ TotalPending(HarvestedSet(limit)) = 0
    BY HarvestReads
  <1> HIDE DEF D
  <1>4. t = [totals EXCEPT !.bonded = D, !.pending = 0]
    BY <1>3
  <1> HIDE DEF t
  <1>5. /\ t \in TotalsCache /\ t.bonded = D /\ t.pending = 0 /\ t.supply = totals.supply
        /\ OwedBacked(t) = OwedBacked(totals)
    <2>1. t \in TotalsCache /\ t.bonded = D /\ t.pending = 0 /\ t.supply = totals.supply
          /\ t.owedOpen = totals.owedOpen /\ t.owedMatured = totals.owedMatured
      BY <1>1, <1>2, <1>4 DEF TotalsCache
    <2> QED BY <2>1 DEF OwedBacked
  <1>6. p = PoolOf(t, balance, 0)
    BY DEF PoolBeforeHarvest, t
  <1> HIDE DEF p
  <1>7. p \in PoolTotals
    BY <1>1, <1>5, <1>6, PoolTyped
  <1>8. /\ p.bonded = D /\ p.pending = 0 /\ p.liquid = balance
        /\ p.owedBacked = OwedBacked(totals) /\ p.supply = totals.supply
    <2>1. SatSub(balance, 0) = balance
      BY <1>1 DEF SatSub
    <2> QED BY <1>5, <1>6, <2>1 DEF PoolOf
  <1>9. Assets(p) = SatSub(D + balance, OwedBacked(totals))
    <2>1. D + 0 + balance = D + balance
      BY <1>1, <1>2
    <2> QED BY <1>8, <2>1 DEF Assets
  <1>10. OwedBacked(totals) < D + balance /\ totals.supply = token.supply
    <2>1. DOMAIN delegated = Validators
      BY <1>1
    <2>2. SumFunction(delegated) = D
      BY <2>1, Zenon DEF D, SumFunction, SumFunctionOnSet, FoldFunction
    <2> QED BY <2>2 DEF PricedFromChain
  <1>11. Assets(p) \in Nat \ {0}
    BY <1>1, <1>2, <1>9, <1>10 DEF SatSub
  <1> QED BY <1>7, <1>8, <1>9, <1>10, <1>11 DEF p, D

(* What one validator gains, all of them gain.                             *)
LEMMA SumRaised ==
    ASSUME NEW f \in [Validators -> Nat], NEW v \in Validators, NEW x \in Nat
    PROVE  SumFunctionOnSet([f EXCEPT ![v] = f[v] + x], Validators)
             = SumFunctionOnSet(f, Validators) + x
  <1> DEFINE h == [f EXCEPT ![v] = f[v] + x]
             S(g, T) == SumFunctionOnSet(g, T)
             rest == Validators \ {v}
  <1>1. /\ h \in [Validators -> Nat] /\ h[v] = f[v] + x /\ f[v] \in Nat
        /\ \A w \in rest : h[w] = f[w]
    OBVIOUS
  <1>2. IsFiniteSet(Validators) /\ IsFiniteSet(rest)
    BY FiniteConstants, FS_Subset
  <1> HIDE DEF h
  <1>3. S(h, Validators) = h[v] + S(h, rest)
    BY <1>1, <1>2, SumElement
  <1>4. S(f, Validators) = f[v] + S(f, rest) /\ S(f, rest) \in Int
    BY <1>1, <1>2, SumElement
  <1>5. S(h, rest) = S(f, rest)
    BY <1>1, <1>2, SumExt
  <1> HIDE DEF S
  <1>6. S(h, Validators) = S(f, Validators) + x
    BY <1>1, <1>3, <1>4, <1>5
  <1> QED BY <1>6 DEF S, h

(* A harvest of the whole set turns all rewards into stake.                *)
LEMMA HarvestMoves ==
    ASSUME Priceable, NEW limit \in PageLimits, Page(limit) = DOMAIN validators,
           Compound(limit), Harvested(limit) > 0
    PROVE  /\ SumFunctionOnSet(accrued', Validators) = 0
           /\ balance' = balance
           /\ SumFunctionOnSet(delegated', Validators)
                = SumFunctionOnSet(delegated, Validators) + Harvested(limit)
           /\ delegated' \in [Validators -> Nat] /\ accrued' \in [Validators -> Nat]
  <1> DEFINE i == RestakeIndex(limit)
             a == validators[i].address
             H == Harvested(limit)
  <1>1. /\ TypedParts /\ TypedSet /\ balance \in Nat
        /\ delegated \in [Validators -> Nat] /\ accrued \in [Validators -> Nat]
        /\ H \in Nat
    BY HarvestTyped DEF Priceable, TypedParts, TypedChain
  <1>2. i \in DOMAIN validators
    <2>1. /\ HarvestedSet(limit) \in Seq(ValidatorEntry)
          /\ DOMAIN HarvestedSet(limit) = DOMAIN validators
          /\ AcceptsStake(HarvestedSet(limit)) # {}
      BY <1>1, HarvestTyped DEF Compound
    <2> QED BY <1>1, <2>1, SelectsActive DEF RestakeIndex, AcceptsStake
  <1>3. a \in Validators /\ a \in OnPage(limit)
    BY <1>1, <1>2, SetDomain, EntryFields DEF TypedSet, OnPage
  <1>4. RestakedAt(limit) = {a}
    BY DEF RestakedAt
  <1>5. /\ accrued' = [v \in Validators |->
              IF v \in OnPage(limit) \cup {a} THEN 0 ELSE accrued[v]]
        /\ balance' = balance + SumFunctionOnSet(accrued, {a} \ OnPage(limit))
        /\ delegated' = [v \in Validators |-> delegated[v] + IF v \in {a} THEN H ELSE 0]
    BY <1>4 DEF Compound
  <1> HIDE DEF i, a, H
  <1>6. \A v \in Validators : accrued'[v] = 0
    <2>1. \A v \in Validators \ OnPage(limit) : accrued[v] = 0
      BY HarvestIsAll DEF Priceable, NowhereElse
    <2> QED BY <1>5, <2>1
  <1>7. SumFunctionOnSet(accrued', Validators) = 0
    BY <1>6, FiniteConstants, SumZero
  <1>8. balance' = balance
    <2>1. {a} \ OnPage(limit) = {}
      BY <1>3
    <2> QED BY <1>1, <1>5, <2>1, SumEmpty
  <1>9. delegated' = [delegated EXCEPT ![a] = delegated[a] + H]
    <2>1. \A v \in Validators : delegated[v] + (IF v \in {a} THEN H ELSE 0)
                               = IF v = a THEN delegated[a] + H ELSE delegated[v]
      BY <1>1
    <2>2. delegated' = [v \in Validators |->
                          IF v = a THEN delegated[a] + H ELSE delegated[v]]
      BY <1>5, <2>1
    <2> QED BY <1>1, <2>2
  <1>10. SumFunctionOnSet(delegated', Validators)
           = SumFunctionOnSet(delegated, Validators) + H
    <2>1. delegated \in [Validators -> Nat] /\ a \in Validators /\ H \in Nat
      BY <1>1, <1>3
    <2>2. SumFunctionOnSet([delegated EXCEPT ![a] = delegated[a] + H], Validators)
            = SumFunctionOnSet(delegated, Validators) + H
      BY <2>1, SumRaised
    <2> QED BY <1>9, <2>2
  <1>11. delegated' \in [Validators -> Nat] /\ accrued' \in [Validators -> Nat]
    BY <1>1, <1>5, <1>6, <1>9
  <1> QED BY <1>7, <1>8, <1>10, <1>11 DEF H

(* The treasury's shares are new ones.                                     *)
LEMMA HarvestMints ==
    ASSUME TypedParts, NEW limit \in PageLimits, Compound(limit)
    PROVE  token'.supply = token.supply + FeeShares(limit)
  <1> DEFINE m == FeeShares(limit)
  <1>1. /\ token' = [token EXCEPT !.supply = @ + m, !.held[Treasury] = @ + m]
        /\ Treasury \in Users
    BY ConstantsAreTyped DEF Compound
  <1>2. m \in Nat
    BY HarvestTyped
  <1>3. TypedToken
    BY DEF TypedParts
  <1> HIDE DEF m
  <1>4. token'.supply = token.supply + m
    BY <1>1, <1>2, <1>3, MintKeepsSeed
  <1> QED BY <1>4 DEF m

(* What the treasury is minted is worth its cut of the harvest.            *)
LEMMA HarvestPaysTheFee ==
    ASSUME Priceable, NEW limit \in PageLimits, PricedFromChain(limit),
           Compound(limit), Harvested(limit) > 0
    PROVE  LET fee    == MulDivFloor(Harvested(limit), config.fee, BPS_DENOM)
               minted == token'.supply - token.supply
               rest   == ChainAssets' - fee
           IN  /\ minted * rest <= fee * token.supply
               /\ fee * token.supply < (minted + 1) * rest
  <1> DEFINE H == Harvested(limit)
             fee == MulDivFloor(H, config.fee, BPS_DENOM)
             p == PoolBeforeHarvest(limit)
             m == FeeShares(limit)
             D == SumFunctionOnSet(delegated, Validators)
             ob == OwedBacked(totals)
             A == Assets(p)
             Worth(minted, rest) == /\ minted * rest <= fee * token.supply
                                    /\ fee * token.supply < (minted + 1) * rest
  <1>1. /\ TypedParts /\ balance \in Nat /\ TypedToken /\ totals \in TotalsCache
        /\ delegated \in [Validators -> Nat] /\ accrued \in [Validators -> Nat]
        /\ H \in Nat \ {0} /\ m \in Nat /\ token.supply \in Nat
    BY HarvestTyped, TokenFields DEF Priceable, TypedParts, TypedChain, TypedToken
  <1>2. /\ p \in PoolTotals /\ p.supply = token.supply /\ A \in Nat \ {0}
        /\ A = SatSub(D + balance, ob) /\ ob < D + balance
    BY HarvestPool
  <1>3. config.fee \in Nat /\ config.fee <= BPS_DENOM
    <2>1. /\ config.fee \in Nat /\ config.fee <= MaxPerformanceFee
          /\ MaxPerformanceFee \in Nat /\ MaxPerformanceFee <= BPS_DENOM
      BY <1>1, ParametersNat, LimitsAreValid DEF TypedParts, TypedConfig, Config, FeesBounded
    <2> QED BY <2>1 DEF BPS_DENOM
  <1>4. token'.supply = token.supply + m
    BY <1>1, HarvestMints
  <1>5. ChainAssets' = A + H
    <2>1. /\ SumFunctionOnSet(accrued', Validators) = 0 /\ balance' = balance
          /\ SumFunctionOnSet(delegated', Validators) = D + H
          /\ delegated' \in [Validators -> Nat] /\ accrued' \in [Validators -> Nat]
      BY HarvestMoves DEF PricedFromChain
    <2>2. StakedAndAccrued(delegated', accrued') = D + H + 0
      BY <2>1, StakeAndRewards
    <2>3. OwedBacked(totals') = ob
      <3>1. totals'.owedOpen = totals.owedOpen /\ totals'.owedMatured = totals.owedMatured
        BY <1>1 DEF Compound, TotalsAfterCompound, TotalsCache
      <3> QED BY <3>1 DEF OwedBacked
    <2>4. ChainAssets' = SatSub(StakedAndAccrued(delegated', accrued') + balance',
                                OwedBacked(totals'))
      BY DEF ChainAssets, OwedBacked, StakedAndAccrued
    <2>5. D \in Nat /\ ob \in Nat
      BY <1>1, StakeAndRewards, TotalsFields
    <2> HIDE DEF D, ob, H, A
    <2>6. SatSub((D + H + 0) + balance, ob) = A + H
      BY <1>1, <1>2, <2>5 DEF SatSub
    <2> QED BY <2>1, <2>2, <2>3, <2>4, <2>6
  <1>6. fee \in Nat /\ fee <= H
    BY <1>1, <1>3, FeeWithinRewards
  <1>7. Worth(m, A + H - fee)
    <2>1. m = FeeSharesForRewards(H, config.fee, p)
      BY DEF FeeShares
    <2>2. CASE token.supply > 0
      <3> HIDE DEF p, H
      <3>1. /\ FeeSharesForRewards(H, config.fee, p) * (A + H - fee) <= fee * p.supply
            /\ fee * p.supply < (FeeSharesForRewards(H, config.fee, p) + 1) * (A + H - fee)
        BY <1>1, <1>2, <1>3, <2>2, FeeSharesAreWorthTheFee
      <3> HIDE DEF m, fee, A
      <3> QED BY <1>2, <2>1, <3>1
    <2>3. CASE token.supply = 0
      <3>1. m = 0
        BY <1>2, <2>1, <2>3 DEF FeeSharesForRewards
      <3> DEFINE rest == A + H - fee
      <3>2. rest \in Nat \ {0}
        <4> HIDE DEF A, H, fee
        <4> QED BY <1>1, <1>2, <1>6
      <3> HIDE DEF m, fee, rest
      <3>3. m * rest = 0 /\ fee * token.supply = 0 /\ (m + 1) * rest = rest
        BY <1>6, <2>3, <3>1, <3>2
      <3> QED BY <3>2, <3>3 DEF rest
    <2> QED BY <1>1, <2>2, <2>3
  <1>8. token'.supply - token.supply = m
    <2> HIDE DEF m
    <2>1. (token.supply + m) - token.supply = m
      BY <1>1
    <2> QED BY <1>4, <2>1
  <1>9. Worth(token'.supply - token.supply, ChainAssets' - fee)
    <2> HIDE DEF Worth, H, A, m, p, fee
    <2>1. ChainAssets' - fee = (A + H) - fee
      BY <1>5
    <2>2. (A + H) - fee = A + H - fee
      BY <1>1, <1>2, <1>6
    <2> QED BY <1>8, <1>7, <2>1, <2>2, Zenon
  <1> QED BY <1>9 DEF Worth

(* A harvest of the whole set gives the treasury its cut and no more, for  *)
(* every ledger and every fee, whichever of Sync and Compound ran before   *)
(* (execute_compound, fee_shares_for_rewards).                             *)
THEOREM FeeAlwaysExact == Spec => FeeIsExact
  <1> DEFINE Exact(limit) ==
               LET fee    == MulDivFloor(Harvested(limit), config.fee, BPS_DENOM)
                   minted == token'.supply - token.supply
                   rest   == ChainAssets' - fee
               IN  Compound(limit) /\ Harvested(limit) > 0 /\ PricedFromChain(limit) =>
                     /\ minted * rest <= fee * token.supply
                     /\ fee * token.supply < (minted + 1) * rest
  <1>1. Priceable => [\A limit \in PageLimits : Exact(limit)]_vars
    BY HarvestPaysTheFee
  <1> QED BY <1>1, PriceableAlways, PTL DEF FeeIsExact

-----------------------------------------------------------------------------
(* The alarm.                                                              *)

(* A window that has closed keeps the addresses it used, whatever matures  *)
(* or is paid.                                                             *)
UsesRemain ==
    \A id \in WindowIds : windows[id].state # "Open" =>
        /\ id \in DOMAIN windows'
        /\ windows'[id].used = windows[id].used
        /\ windows'[id].state # "Open"

\* A closing, or none, writes to the open window alone.
LEMMA ClosingSparesOthers ==
    ASSUME Consistent, NEW set, NEW t, NEW ws,
           DOMAIN ws = DOMAIN windows,
           \A id \in DOMAIN windows \ {openWindow} : ws[id] = windows[id],
           \/ Commit(CloseOpenWindow(set, t, ws)) \/ Commit(StayOpen(set, t, ws)),
           NEW id \in WindowIds, id # openWindow
    PROVE  windows'[id] = windows[id]
  <1>1. DOMAIN windows = 0 .. nextWindowId - 1 /\ nextWindowId \in Nat \ {0}
        /\ WindowIds = DOMAIN windows
    BY ConsistentShape DEF Shaped
  <1>2. CASE Commit(CloseOpenWindow(set, t, ws))
    <2>1. windows' = CloseOpenWindow(set, t, ws).windows
      BY <1>2 DEF Commit
    <2>2. \A k \in 0 .. nextWindowId :
             k # nextWindowId /\ k # openWindow => windows'[k] = ws[k]
      BY <2>1 DEF CloseOpenWindow
    <2> QED BY <1>1, <2>2
  <1>3. CASE Commit(StayOpen(set, t, ws))
    BY <1>1, <1>3 DEF Commit, StayOpen
  <1> QED BY <1>2, <1>3

\* A collection writes what came back, and the state.
LEMMA CollectingKeepsUses ==
    ASSUME Consistent, NEW ids \in SUBSET DueWindows, NEW id \in WindowIds
    PROVE  MaturedWindows(ids)[id].used = windows[id].used
  <1>1. CASE id \in ids
    <2>1. PICK w \in AWindow : w = windows[id]
      BY ConsistentShape
    <2>2. MaturedWindows(ids)[id] = Mature(w, Available(ids, id))
      BY <1>1, <2>1 DEF MaturedWindows
    <2> QED BY <2>1, <2>2 DEF Mature, AWindow, UnbondWindow
  <1>2. CASE id \notin ids
    BY <1>2, CollectedFigures
  <1> QED BY <1>1, <1>2

\* A claim collects, and writes what it pays.
LEMMA ClaimingKeepsUses ==
    ASSUME Consistent, NEW u \in Users, NEW ids, NEW id \in WindowIds
    PROVE  WindowsAfterClaim(u, ids)[id].used = windows[id].used
  <1>1. WindowsAtClaim[id].used = windows[id].used
    BY CollectingKeepsUses DEF WindowsAtClaim
  <1>2. PICK w \in AWindow : w = WindowsAtClaim[id]
    BY ClaimedFigures
  <1>3. CASE id \in Paying(u, ids)
    <2>1. WindowsAfterClaim(u, ids)[id] = PaidWindow(w, PayoutAt(u, id))
      BY <1>2, <1>3 DEF WindowsAfterClaim
    <2>2. PaidWindow(w, PayoutAt(u, id)).used = w.used
      BY DEF PaidWindow, AWindow, UnbondWindow
    <2> QED BY <1>1, <1>2, <2>1, <2>2
  <1>4. CASE id \notin Paying(u, ids)
    BY <1>1, <1>4, ClaimedFigures
  <1> QED BY <1>3, <1>4

(* Every step keeps the addresses of every window that has closed.         *)
LEMMA UsesAlwaysRemain ==
    ASSUME Consistent, [Next]_vars
    PROVE  UsesRemain
  <1> DEFINE Kept(id) == windows'[id].used = windows[id].used
  <1>0. /\ \A id \in WindowIds : windows[id].state # "Open" => id # openWindow
        /\ \A id \in WindowIds : windows[id].state \in WindowStates
        /\ WindowIds = DOMAIN windows
    BY ConsistentShape DEF AWindow, UnbondWindow
  <1>1. ASSUME NEW u \in Users, NEW amount \in Deposits, Deposit(u, amount),
               NEW id \in WindowIds, id # openWindow
        PROVE  Kept(id)
    <2>1. Commit(DepositPlaced(amount))
      BY <1>1 DEF Deposit
    <2>2. windows'[id] = windows[id]
      BY <1>1, <2>1, ClosingSparesOthers DEF DepositPlaced, CloseWindowIfOverdue
    <2> QED BY <2>2
  <1>2. ASSUME NEW u \in Users, NEW shares \in Requests, Unbond(u, shares),
               NEW id \in WindowIds, id # openWindow
        PROVE  Kept(id)
    <2>1. Commit(RequestPlaced(shares))
      BY <1>2 DEF Unbond
    <2> DEFINE owed == AssetsForShares(shares, RequestPool)
               ws   == [windows EXCEPT ![openWindow].shares = @ + shares,
                                       ![openWindow].owed = @ + owed]
    <2>2. /\ DOMAIN ws = DOMAIN windows
          /\ \A k \in DOMAIN windows \ {openWindow} : ws[k] = windows[k]
      OBVIOUS
    <2>3. PICK set, t : \/ Commit(CloseOpenWindow(set, t, ws))
                        \/ Commit(StayOpen(set, t, ws))
      BY <2>1 DEF RequestPlaced, CloseWindowIfOverdue
    <2> HIDE DEF ws
    <2>4. windows'[id] = windows[id]
      BY <1>2, <2>2, <2>3, ClosingSparesOthers
    <2> QED BY <2>4
  <1>3. ASSUME AdvanceWindow, NEW id \in WindowIds, id # openWindow
        PROVE  Kept(id)
    <2>1. Commit(CloseOpenWindow(validators, totals, windows))
      BY <1>3 DEF AdvanceWindow
    <2>2. windows'[id] = windows[id]
      BY <1>3, <2>1, ClosingSparesOthers
    <2> QED BY <2>2
  <1>4. ASSUME NEW u \in Users, NEW list, ClaimMatured(u, list), NEW id \in WindowIds
        PROVE  Kept(id)
    <2>1. windows' = WindowsAfterClaim(u, ClaimIds(u, list))
      BY <1>4 DEF ClaimMatured
    <2> QED BY <1>4, <2>1, ClaimingKeepsUses
  <1>5. ASSUME NEW limit, CollectMatured(limit), NEW id \in WindowIds PROVE Kept(id)
    <2>1. windows' = MaturedWindows(Collected(limit)) /\ Collected(limit) \in SUBSET DueWindows
      BY <1>5 DEF CollectMatured, Collected
    <2> QED BY <1>5, <2>1, CollectingKeepsUses
  <1>6. ASSUME windows' = windows, NEW id \in WindowIds PROVE Kept(id)
    BY <1>6
  <1> HIDE DEF Kept
  <1>7. \A id \in WindowIds : id # openWindow => Kept(id)
    <2>1. CASE UserAction
      BY <1>1, <1>2, <1>4, <1>6, <2>1 DEF UserAction, Bootstrap, queueVars
    <2>2. CASE UpkeepAction
      BY <1>3, <1>5, <1>6, <2>2 DEF UpkeepAction, Sync, Compound, queueVars
    <2>3. CASE ManagerAction \/ ChainAction \/ UNCHANGED vars
      BY <1>6, <2>3 DEF ManagerAction, SetWeights, SetPerformanceFee, Rebalance, SetPaused,
         Migrate, ChainAction, NextBlock, Slash, AccrueRewards, BurnOwnShares,
         Donate, contractVars, queueVars, vars
    <2> QED BY <2>1, <2>2, <2>3 DEF Next
  <1>8. ASSUME NEW id \in WindowIds, windows[id].state # "Open"
        PROVE  id \in DOMAIN windows' /\ windows'[id].state # "Open"
    <2>1. id \in DOMAIN windows' /\ windows'[id].state \in Later(windows[id].state)
      BY <1>8, QueueGoesForward DEF QueueForward, Forward
    <2>2. windows[id].state \in {"Unbonding", "Matured", "Settled"}
      BY <1>0, <1>8 DEF WindowStates
    <2> QED BY <2>1, <2>2 DEF Later
  <1> QED BY <1>0, <1>7, <1>8 DEF UsesRemain, Kept

(* What leaves a validator with a closing is on record with the window     *)
(* that closed.                                                            *)
LEMMA LeavingIsUsed ==
    ASSUME TypedQueue, openWindow = nextWindowId - 1, nextWindowId \in Nat \ {0},
           NEW set \in Seq(ValidatorEntry), Distinct(set), NEW t \in TotalsCache, NEW ws,
           TypedWindows(ws, nextWindowId), t.bonded = TotalBonded(set),
           NEW r, PlannedClosing(r, set, t, ws),
           NEW v, Leaving(r, v) > 0
    PROVE  /\ openWindow \in DOMAIN r.windows
           /\ r.windows[openWindow].state # "Open"
           /\ v \in r.windows[openWindow].used
  <1>1. PICK L \in [DOMAIN set -> Nat] : r.legs = L /\ SameRows(r.set, set)
    BY ClosingLegs
  <1>2. /\ DOMAIN r.set = DOMAIN set /\ Distinct(r.set) /\ IsFiniteSet(DOMAIN r.set)
        /\ \A i \in DOMAIN set : r.set[i].address = set[i].address
    <2>1. DOMAIN r.set = DOMAIN set /\ \A i \in DOMAIN set : r.set[i].address = set[i].address
      BY <1>1 DEF SameRows, SameRow
    <2> QED BY <2>1, SetDomain DEF Distinct
  <1>3. PICK i \in DOMAIN set : set[i].address = v /\ L[i] > 0
    <2>1. v \in AddressesIn(r.set)
      BY <1>1, <1>2, LeavingIsTheLeg
    <2>2. PICK i \in DOMAIN set : set[i].address = v
      BY <1>2, <2>1 DEF AddressesIn
    <2>3. Leaving(r, set[i].address) = L[i]
      BY <1>1, <1>2, LeavingIsTheLeg
    <2> QED BY <2>2, <2>3
  <1>4. CASE r = StayOpen(set, t, ws)
    BY <1>1, <1>3, <1>4 DEF StayOpen
  <1>5. CASE r = CloseOpenWindow(set, t, ws)
    <2> DEFINE w    == ws[openWindow]
               legs == PlanUndelegation(set, w.owed, EntryCeiling)
               u    == [w EXCEPT !.used = UsedBy(set, legs)]
    <2>1. /\ r.legs = legs /\ DOMAIN r.windows = 0 .. nextWindowId
          /\ r.windows[openWindow] = Close(u, now, UnbondingPeriod)
      BY <1>5 DEF CloseOpenWindow
    <2>2. w \in AWindow /\ w.owed \in Nat
      <3>1. openWindow \in 0 .. nextWindowId - 1
        OBVIOUS
      <3>2. w \in AWindow
        BY <3>1 DEF TypedWindows
      <3> QED BY <3>2 DEF AWindow, UnbondWindow
    <2>3. w.owed > 0
      BY <1>1, <1>3, <2>1, <2>2, LegsUseCandidates
    <2>4. v \in UsedBy(set, legs) /\ UsedBy(set, legs) \in SUBSET Validators
      <3>1. \A j \in DOMAIN set : set[j].address \in Validators
        BY SetDomain, EntryFields
      <3> HIDE DEF legs
      <3> QED BY <1>1, <1>3, <2>1, <3>1 DEF UsedBy
    <2> HIDE DEF legs, w
    <2>5. u \in AWindow /\ u.used = UsedBy(set, legs) /\ u.owed = w.owed
      BY <2>2, <2>4 DEF AWindow, UnbondWindow
    <2> HIDE DEF u
    <2>6. /\ r.windows[openWindow].used = u.used
          /\ r.windows[openWindow].state = "Unbonding"
      BY <2>1, <2>2, <2>3, <2>5, ClosedUses
    <2> QED BY <2>1, <2>4, <2>5, <2>6
  <1> QED BY <1>4, <1>5 DEF PlannedClosing

\* v's stake was on its way when the open window closed.
LeftWithTheWindow(v) ==
    /\ openWindow \in DOMAIN windows'
    /\ windows'[openWindow].state # "Open"
    /\ v \in windows'[openWindow].used

(* Slashes are counted, and nothing takes a count back.                    *)
LEMMA SlashesAreSeen ==
    ASSUME TypedParts, [Next]_vars, seen'["slashes"] = 0
    PROVE  seen["slashes"] = 0 /\ ~ \E v \in Validators : Slash(v)
  <1>1. seen \in [Events -> Nat] /\ "slashes" \in Events
    <2>1. seen \in [Events -> Nat]
      BY DEF TypedParts, TypedSeen
    <2>2. "slashes" \in Events
      BY DEF Events
    <2> QED BY <2>1, <2>2
  <1>2. ASSUME NEW v \in Validators, Slash(v) PROVE FALSE
    <2>1. seen'["slashes"] = seen["slashes"] + 1
      BY <1>1, <1>2 DEF Slash, Count
    <2>2. seen["slashes"] \in Nat
      BY <1>1
    <2> QED BY <2>1, <2>2
  <1>3. ASSUME NEW event, event # "slashes", Count(event) PROVE seen["slashes"] = 0
    BY <1>1, <1>3 DEF Count
  <1>4. ASSUME seen' = seen PROVE seen["slashes"] = 0
    BY <1>4
  <1>5. ASSUME UserAction PROVE seen["slashes"] = 0
    <2>1. ASSUME NEW seed \in Seeds, Bootstrap(seed) PROVE seen["slashes"] = 0
      <3>1. seen' = seen
        BY <2>1 DEF Bootstrap
      <3> QED BY <1>4, <3>1
    <2>2. ASSUME NEW u \in Users, NEW amount \in Deposits, Deposit(u, amount)
          PROVE  seen["slashes"] = 0
      <3>1. Count("deposits")
        BY <2>2, Zenon DEF Deposit
      <3> QED BY <1>3, <3>1
    <2>3. ASSUME NEW u \in Users, NEW shares \in Requests, Unbond(u, shares)
          PROVE  seen["slashes"] = 0
      <3>1. Count("requests")
        BY <2>3, Zenon DEF Unbond
      <3> QED BY <1>3, <3>1
    <2>4. ASSUME NEW u \in Users, NEW list \in ClaimLists, ClaimMatured(u, list)
          PROVE  seen["slashes"] = 0
      <3>1. seen' = seen
        BY <2>4 DEF ClaimMatured
      <3> QED BY <1>4, <3>1
    <2> QED BY <1>5, <2>1, <2>2, <2>3, <2>4 DEF UserAction
  <1>6. ASSUME UpkeepAction PROVE seen["slashes"] = 0
    <2>1. ASSUME AdvanceWindow PROVE seen["slashes"] = 0
      <3>1. seen' = seen
        BY <2>1 DEF AdvanceWindow
      <3> QED BY <1>4, <3>1
    <2>2. ASSUME NEW limit, CollectMatured(limit) PROVE seen["slashes"] = 0
      <3>1. seen' = seen
        BY <2>2 DEF CollectMatured, chainVars
      <3> QED BY <1>4, <3>1
    <2>3. ASSUME NEW limit, Sync(limit) PROVE seen["slashes"] = 0
      <3>1. seen' = seen
        BY <2>3 DEF Sync, chainVars
      <3> QED BY <1>4, <3>1
    <2>4. ASSUME NEW limit, Compound(limit) PROVE seen["slashes"] = 0
      <3>1. seen' = seen
        BY <2>4 DEF Compound
      <3> QED BY <1>4, <3>1
    <2> QED BY <1>6, <2>1, <2>2, <2>3, <2>4 DEF UpkeepAction
  <1>7. ASSUME ManagerAction PROVE seen["slashes"] = 0
    <2>1. CASE Migrate
      <3>1. Count("migrations")
        BY <2>1, Zenon DEF Migrate
      <3> QED BY <1>3, <3>1
    <2>2. ASSUME ~Migrate PROVE seen["slashes"] = 0
      <3>1. seen' = seen
        BY <1>7, <2>2 DEF ManagerAction, SetWeights, SetPerformanceFee, Rebalance,
           SetPaused, chainVars
      <3> QED BY <1>4, <3>1
    <2> QED BY <2>1, <2>2
  <1>8. ASSUME ChainAction PROVE seen["slashes"] = 0
    <2>1. ASSUME NextBlock PROVE seen["slashes"] = 0
      <3>1. seen' = seen
        BY <2>1 DEF NextBlock
      <3> QED BY <1>4, <3>1
    <2>2. ASSUME NEW v, NEW amount, AccrueRewards(v, amount) PROVE seen["slashes"] = 0
      BY <1>3, <2>2, Zenon DEF AccrueRewards
    <2>3. ASSUME NEW u, NEW shares, BurnOwnShares(u, shares) PROVE seen["slashes"] = 0
      BY <1>3, <2>3, Zenon DEF BurnOwnShares
    <2>4. ASSUME NEW amount, Donate(amount) PROVE seen["slashes"] = 0
      BY <1>3, <2>4, Zenon DEF Donate
    <2> QED BY <1>2, <1>8, <2>1, <2>2, <2>3, <2>4 DEF ChainAction
  <1>9. ASSUME UNCHANGED vars PROVE seen["slashes"] = 0
    <2>1. seen' = seen
      BY <1>9 DEF vars, chainVars
    <2> QED BY <1>4, <2>1
  <1> QED BY <1>2, <1>5, <1>6, <1>7, <1>8, <1>9 DEF Next

\* What leaves a validator is an amount.
LEMMA PlannedLeavingNat ==
    ASSUME TypedQueue, NEW set \in Seq(ValidatorEntry), NEW t \in TotalsCache, NEW ws,
           TypedWindows(ws, nextWindowId), t.bonded = TotalBonded(set),
           NEW r, PlannedClosing(r, set, t, ws), NEW v
    PROVE  Leaving(r, v) \in Nat
  <1>1. /\ DOMAIN r.set = DOMAIN set
        /\ \A i \in DOMAIN set : r.legs[i] \in Nat
    <2>1. PICK L \in [DOMAIN set -> Nat] : r.legs = L /\ SameRows(r.set, set)
      BY ClosingLegs
    <2> QED BY <2>1 DEF SameRows
  <1> DEFINE T == {i \in DOMAIN r.set : r.set[i].address = v}
  <1>2. IsFiniteSet(T) /\ \A i \in T : r.legs[i] \in Nat
    <2>1. IsFiniteSet(DOMAIN set)
      BY SetDomain
    <2>2. T \in SUBSET DOMAIN set
      BY <1>1
    <2> QED BY <1>1, <2>1, <2>2, FS_Subset
  <1>3. Leaving(r, v) = SumFunctionOnSet(r.legs, T)
    BY DEF Leaving
  <1> HIDE DEF T
  <1> QED BY <1>2, <1>3, SumNat

(* Without a slash, and while the manager moves no stake, a delegation     *)
(* falls only as a window closes, and that window keeps its address.       *)
LEMMA StakeFalls ==
    ASSUME Consistent, Priceable, Moves = {}, [Next]_vars, seen'["slashes"] = 0,
           NEW v \in Validators
    PROVE  delegated'[v] >= delegated[v] \/ LeftWithTheWindow(v)
  <1>1. /\ TypedParts /\ TypedQueue /\ validators \in Seq(ValidatorEntry)
        /\ totals \in TotalsCache /\ TypedWindows(windows, nextWindowId)
        /\ delegated \in [Validators -> Nat] /\ delegated[v] \in Nat
        /\ Distinct(validators) /\ NowhereElse(validators, delegated)
        /\ totals.bonded = TotalBonded(validators)
        /\ openWindow = nextWindowId - 1 /\ nextWindowId \in Nat \ {0}
    BY ConsistentShape
       DEF Priceable, TypedParts, TypedSet, TypedQueue, TypedChain, TrackingNow, Tracking, Shaped
  <1>2. ASSUME delegated' = delegated PROVE delegated'[v] >= delegated[v]
    BY <1>1, <1>2
  <1>3. ASSUME NEW a, NEW x \in Nat,
               delegated'[v] = IF v = a THEN delegated[v] + x ELSE delegated[v]
        PROVE  delegated'[v] >= delegated[v]
    BY <1>1, <1>3
  <1>4. ASSUME NEW seed \in Seeds, Bootstrap(seed) PROVE delegated'[v] >= delegated[v]
    <2> DEFINE a == validators[SelectForDelegation(validators, seed)].address
    <2>1. delegated' = [delegated EXCEPT ![a] = @ + seed] /\ seed \in Nat
      BY <1>4, InputsNat DEF Bootstrap
    <2> HIDE DEF a
    <2>2. delegated'[v] = IF v = a THEN delegated[v] + seed ELSE delegated[v]
      BY <1>1, <2>1
    <2> QED BY <1>3, <2>1, <2>2
  <1>5. ASSUME NEW u \in Users, NEW amount \in Deposits, Deposit(u, amount)
        PROVE  delegated'[v] >= delegated[v] \/ LeftWithTheWindow(v)
    <2> DEFINE r == DepositPlaced(amount)
               staked == DepositStaked(amount)
               a == DepositTarget(amount)
    <2>1. /\ windows' = r.windows /\ amount \in Nat /\ AcceptsStake(RefreshedSet) # {}
          /\ delegated' = [w \in Validators |-> staked[w] - Leaving(r, w)]
      BY <1>5, InputsNat DEF Deposit, DepositAccepted, Commit, Undelegated
    <2>2. PICK set \in Seq(ValidatorEntry), t \in TotalsCache :
             /\ PlannedClosing(r, set, t, windows)
             /\ Distinct(set) /\ t.bonded = TotalBonded(set)
             /\ staked \in [Validators -> Nat]
      BY <1>1, <2>1, DepositPlans
    <2>3. staked = [delegated EXCEPT ![a] = @ + amount]
      BY DEF DepositStaked
    <2> HIDE DEF r, staked, a
    <2>4. staked[v] >= delegated[v] /\ staked[v] \in Nat
      BY <1>1, <2>1, <2>2, <2>3
    <2>5. CASE Leaving(r, v) > 0
      BY <1>1, <2>1, <2>2, <2>5, LeavingIsUsed DEF LeftWithTheWindow
    <2>6. CASE ~(Leaving(r, v) > 0)
      <3>1. Leaving(r, v) \in Nat
        BY <1>1, <2>2, PlannedLeavingNat
      <3>2. Leaving(r, v) = 0
        BY <2>6, <3>1
      <3>3. delegated'[v] = staked[v] - Leaving(r, v)
        BY <2>1
      <3> QED BY <1>1, <2>4, <3>2, <3>3
    <2> QED BY <2>5, <2>6
  <1>6. ASSUME NEW u \in Users, NEW shares \in Requests, Unbond(u, shares)
        PROVE  delegated'[v] >= delegated[v] \/ LeftWithTheWindow(v)
    <2> DEFINE r == RequestPlaced(shares)
    <2>1. /\ windows' = r.windows
          /\ delegated' = [w \in Validators |-> delegated[w] - Leaving(r, w)]
      BY <1>6 DEF Unbond, Commit, Undelegated
    <2>2. PICK t \in TotalsCache : \E ws :
             /\ PlannedClosing(r, RefreshedSet, t, ws)
             /\ TypedWindows(ws, nextWindowId) /\ t.bonded = TotalBonded(RefreshedSet)
      BY <1>1, RequestPlans
    <2> HIDE DEF r
    <2>3. RefreshedSet \in Seq(ValidatorEntry) /\ Distinct(RefreshedSet)
      BY <1>1, RefreshedTracks DEF SameRows, SameRow, Distinct
    <2>4. CASE Leaving(r, v) > 0
      BY <1>1, <2>1, <2>2, <2>3, <2>4, LeavingIsUsed DEF LeftWithTheWindow
    <2>5. CASE ~(Leaving(r, v) > 0)
      <3>1. Leaving(r, v) \in Nat
        BY <1>1, <2>2, <2>3, PlannedLeavingNat
      <3>2. Leaving(r, v) = 0
        BY <2>5, <3>1
      <3>3. delegated'[v] = delegated[v] - Leaving(r, v)
        BY <2>1
      <3> QED BY <1>1, <3>2, <3>3
    <2> QED BY <2>4, <2>5
  <1>7. ASSUME AdvanceWindow
        PROVE  delegated'[v] >= delegated[v] \/ LeftWithTheWindow(v)
    <2> DEFINE r == CloseOpenWindow(validators, totals, windows)
    <2>1. /\ windows' = r.windows
          /\ delegated' = [w \in Validators |-> delegated[w] - Leaving(r, w)]
          /\ CanClose(validators, windows[openWindow])
      BY <1>7 DEF AdvanceWindow, Commit, Undelegated
    <2>2. PlannedClosing(r, validators, totals, windows)
      BY <2>1 DEF PlannedClosing, CanClose
    <2> HIDE DEF r
    <2>3. CASE Leaving(r, v) > 0
      BY <1>1, <2>1, <2>2, <2>3, LeavingIsUsed DEF LeftWithTheWindow
    <2>4. CASE ~(Leaving(r, v) > 0)
      <3>1. Leaving(r, v) \in Nat
        BY <1>1, <2>2, PlannedLeavingNat
      <3>2. Leaving(r, v) = 0
        BY <2>4, <3>1
      <3>3. delegated'[v] = delegated[v] - Leaving(r, v)
        BY <2>1
      <3> QED BY <1>1, <3>2, <3>3
    <2> QED BY <2>3, <2>4
  <1>8. ASSUME NEW limit \in PageLimits, Compound(limit) PROVE delegated'[v] >= delegated[v]
    <2> DEFINE x == Harvested(limit)
    <2>1. delegated' = [w \in Validators |->
              delegated[w] + IF w \in RestakedAt(limit) THEN x ELSE 0]
      BY <1>8 DEF Compound
    <2>2. x \in Nat
      BY <1>1, HarvestTyped
    <2> HIDE DEF x
    <2> QED BY <1>1, <2>1, <2>2
  <1>9. CASE UserAction
    <2>1. ASSUME NEW u \in Users, NEW list \in ClaimLists, ClaimMatured(u, list)
          PROVE  delegated' = delegated
      BY <2>1 DEF ClaimMatured, stakingVars
    <2> QED BY <1>2, <1>4, <1>5, <1>6, <1>9, <2>1 DEF UserAction
  <1>10. CASE UpkeepAction
    <2>1. ASSUME NEW limit, CollectMatured(limit) PROVE delegated' = delegated
      BY <2>1 DEF CollectMatured, chainVars
    <2>2. ASSUME NEW limit, Sync(limit) PROVE delegated' = delegated
      BY <2>2 DEF Sync, chainVars
    <2> QED BY <1>2, <1>7, <1>8, <1>10, <2>1, <2>2 DEF UpkeepAction
  <1>11. CASE ManagerAction
    <2>1. delegated' = delegated
      BY <1>11 DEF ManagerAction, SetWeights, SetPerformanceFee, SetPaused, Migrate,
         chainVars, stakingVars
    <2> QED BY <1>2, <2>1
  <1>12. CASE ChainAction
    <2>1. ~ \E w \in Validators : Slash(w)
      BY <1>1, SlashesAreSeen
    <2>2. delegated' = delegated
      BY <1>12, <2>1 DEF ChainAction, NextBlock, AccrueRewards, BurnOwnShares, Donate,
         stakingVars
    <2> QED BY <1>2, <2>2
  <1>13. CASE UNCHANGED vars
    BY <1>2, <1>13 DEF vars, chainVars
  <1> QED BY <1>9, <1>10, <1>11, <1>12, <1>13 DEF Next

\* A window that closed since the last check took stake from v.
Accounted(v) ==
    \E id \in WindowIds :
        id >= checkedAt /\ windows[id].state # "Open" /\ v \in windows[id].used

(* What the keeper remembers of a validator is still staked there, or a    *)
(* window that closed since accounts for what left.                        *)
MemoryHolds ==
    /\ checkedAt \in Nat /\ checkedAt <= openWindow
    /\ DOMAIN remembered \subseteq Validators
    /\ \A v \in DOMAIN remembered : remembered[v] \in Nat
    /\ seen["slashes"] = 0 =>
         \A v \in DOMAIN remembered : delegated[v] >= remembered[v] \/ Accounted(v)

\* What the theorem needs of the contract while the keeper watches.
Watched == Consistent /\ Priceable /\ Occupied(validators, windows)

(* What a window accounted for, it still accounts for.                     *)
LEMMA AccountedStays ==
    ASSUME Consistent, [Next]_vars, UNCHANGED monitorVars, NEW v, Accounted(v)
    PROVE  Accounted(v)'
  <1>1. PICK id \in WindowIds :
            id >= checkedAt /\ windows[id].state # "Open" /\ v \in windows[id].used
    BY DEF Accounted
  <1>2. /\ id \in DOMAIN windows' /\ windows'[id].used = windows[id].used
        /\ windows'[id].state # "Open"
    BY <1>1, UsesAlwaysRemain DEF UsesRemain
  <1>3. checkedAt' = checkedAt
    BY DEF monitorVars
  <1> QED BY <1>1, <1>2, <1>3 DEF Accounted, WindowIds

\* The open window is the newest, after a step as well.
LEMMA NewestIsLast ==
    Consistent' => openWindow' \in Int /\ \A id \in WindowIds' : id <= openWindow'
  <1>1. Consistent => openWindow \in Int /\ \A id \in WindowIds : id <= openWindow
    BY ConsistentShape DEF Shaped
  <1>2. Consistent' => (openWindow \in Int /\ \A id \in WindowIds : id <= openWindow)'
    BY <1>1, PTL
  <1> QED BY <1>2

(* The contract's own steps.                                               *)
LEMMA MemoryStep ==
    ASSUME Watched, MemoryHolds, Moves = {}, [Next]_vars, UNCHANGED monitorVars
    PROVE  MemoryHolds'
  <1>1. checkedAt' = checkedAt /\ remembered' = remembered
    BY DEF monitorVars
  <1>2. openWindow <= openWindow'
    <2>1. Consistent'
      BY ConsistentStep DEF Watched
    <2>2. openWindow \in DOMAIN windows'
      BY QueueGoesForward, ConsistentShape DEF QueueForward, Watched
    <2> QED BY <2>1, <2>2, NewestIsLast DEF WindowIds
  <1>3. openWindow \in Int /\ openWindow' \in Int
    BY ConsistentShape, ConsistentStep, NewestIsLast DEF Watched
  <1>4. ASSUME seen'["slashes"] = 0, NEW v \in DOMAIN remembered
        PROVE  delegated'[v] >= remembered[v] \/ Accounted(v)'
    <2>1. TypedParts /\ delegated \in [Validators -> Nat]
      BY DEF Watched, Priceable, TypedParts, TypedChain
    <2>2. seen["slashes"] = 0
      BY <1>4, <2>1, SlashesAreSeen
    <2>3. v \in Validators /\ remembered[v] \in Nat /\ delegated[v] \in Nat
      BY <1>4, <2>1 DEF MemoryHolds
    <2>4. delegated[v] >= remembered[v] \/ Accounted(v)
      BY <1>4, <2>2 DEF MemoryHolds
    <2>5. CASE Accounted(v)
      BY <2>5, AccountedStays DEF Watched
    <2>6. CASE LeftWithTheWindow(v)
      <3>1. openWindow >= checkedAt'
        BY <1>1 DEF MemoryHolds
      <3> QED BY <2>6, <3>1 DEF LeftWithTheWindow, Accounted, WindowIds
    <2>7. CASE delegated[v] >= remembered[v] /\ ~LeftWithTheWindow(v)
      <3>1. delegated'[v] >= delegated[v]
        BY <1>4, <2>3, <2>7, StakeFalls DEF Watched
      <3>2. TypedParts'
        BY <2>1, PartsStep
      <3>3. delegated'[v] \in Nat
        BY <2>3, <3>2 DEF TypedParts, TypedChain
      <3>4. delegated'[v] >= remembered[v]
        BY <2>3, <2>7, <3>1, <3>3
      <3> QED BY <3>4
    <2> QED BY <2>4, <2>5, <2>6, <2>7
  <1>5. /\ checkedAt' \in Nat /\ checkedAt' <= openWindow'
        /\ DOMAIN remembered' \subseteq Validators
        /\ \A v \in DOMAIN remembered' : remembered'[v] \in Nat
    BY <1>1, <1>2, <1>3 DEF MemoryHolds
  <1>6. seen'["slashes"] = 0 =>
          \A v \in DOMAIN remembered' : delegated'[v] >= remembered'[v] \/ Accounted(v)'
    BY <1>1, <1>4
  <1> QED BY <1>5, <1>6 DEF MemoryHolds

(* A check remembers the stored stakes, which are the chain's without a    *)
(* slash.                                                                  *)
LEMMA CheckRemembers ==
    ASSUME Watched, Check
    PROVE  MemoryHolds'
  <1>1. /\ remembered' = [v \in AddressesIn(validators) |-> validators[IndexOf(v)].bonded]
        /\ checkedAt' = openWindow /\ openWindow' = openWindow
        /\ delegated' = delegated /\ seen' = seen
    BY DEF Check, vars, contractVars, chainVars
  <1>2. /\ validators \in Seq(ValidatorEntry) /\ delegated \in [Validators -> Nat]
        /\ openWindow \in Nat
    BY ConsistentShape
       DEF Watched, Priceable, TypedParts, TypedSet, TypedChain, Shaped
  <1>3. ASSUME NEW v \in AddressesIn(validators)
        PROVE  /\ IndexOf(v) \in DOMAIN validators /\ validators[IndexOf(v)].address = v
               /\ v \in Validators /\ validators[IndexOf(v)].bonded \in Nat
    <2>1. \E i \in DOMAIN validators : validators[i].address = v
      BY <1>3 DEF AddressesIn
    <2>2. IndexOf(v) \in DOMAIN validators /\ validators[IndexOf(v)].address = v
      BY <2>1 DEF IndexOf
    <2> QED BY <1>2, <2>2, SetDomain, EntryFields
  <1>4. ASSUME seen["slashes"] = 0, NEW v \in AddressesIn(validators)
        PROVE  delegated[v] >= validators[IndexOf(v)].bonded
    <2>1. validators[IndexOf(v)].bonded = delegated[v]
      BY <1>3, <1>4 DEF Watched, Priceable, TrackingNow, Tracking, StakesTrue
    <2> QED BY <1>2, <1>3, <1>4, <2>1
  <1> QED BY <1>1, <1>2, <1>3, <1>4 DEF MemoryHolds

(* A validator that is reported lost its stake to a window that is no      *)
(* longer open; were that window still unbonding, the entry would have a   *)
(* slot taken.                                                             *)
LEMMA DriftCameAndWent ==
    ASSUME Watched, MemoryHolds, seen["slashes"] = 0, NEW v \in Drifted
    PROVE  CameAndWent(v)
  <1>1. PICK i \in DOMAIN validators :
            /\ validators[i].address = v /\ validators[i].entries = 0
            /\ v \in DOMAIN remembered /\ validators[i].bonded < remembered[v]
    BY DEF Drifted, Shrunk
  <1>2. /\ validators[i].bonded = delegated[v] /\ delegated[v] \in Nat
        /\ remembered[v] \in Nat
    <2>1. StakesTrue(validators, delegated) /\ delegated \in [Validators -> Nat]
      BY DEF Watched, Priceable, TrackingNow, Tracking, TypedParts, TypedChain
    <2>2. v \in Validators /\ remembered[v] \in Nat
      BY <1>1 DEF MemoryHolds
    <2> QED BY <1>1, <2>1, <2>2 DEF StakesTrue
  <1>3. Accounted(v)
    BY <1>1, <1>2 DEF MemoryHolds
  <1>4. PICK id \in WindowIds :
            id >= checkedAt /\ windows[id].state # "Open" /\ v \in windows[id].used
    BY <1>3 DEF Accounted
  <1>5. windows[id].state # "Unbonding"
    <2>1. Cardinality(UsesOf(windows, v)) = 0
      BY <1>1 DEF Watched, Occupied, SlotsMatch
    <2>2. IsFiniteSet(UsesOf(windows, v))
      <3>1. UsesOf(windows, v) \in SUBSET DOMAIN windows /\ IsFiniteSet(DOMAIN windows)
        BY ConsistentShape DEF UsesOf, Watched
      <3> QED BY <3>1, FS_Subset
    <2>3. UsesOf(windows, v) = {}
      BY <2>1, <2>2, FS_EmptySet
    <2> QED BY <1>4, <2>3 DEF UsesOf, WindowIds
  <1>6. windows[id].state \in WindowStates
    BY ConsistentShape DEF Watched, AWindow, UnbondWindow
  <1> QED BY <1>4, <1>5, <1>6 DEF CameAndWent, WindowStates

(* Watching changes nothing of the contract.                               *)
LEMMA WatchedIsSpec == MonitorSpec => Spec
  <1>1. MonitorInit => Init
    BY DEF MonitorInit
  <1>2. [MonitorNext]_<<vars, monitorVars>> => [Next]_vars
    BY DEF MonitorNext, Check, Restart
  <1> QED BY <1>1, <1>2, PTL DEF MonitorSpec, Spec

(* What the keeper remembers is accounted for, from one check to the next. *)
LEMMA MemoryAlwaysHolds ==
    ASSUME Moves = {}
    PROVE  MonitorSpec => [](Watched /\ MemoryHolds)
  <1>1. Spec => []Watched
    BY LedgersAlwaysAgree, PriceableAlways, OccupiedAlways, PTL DEF Watched
  <1>2. MonitorInit => MemoryHolds
    BY DEF MonitorInit, MemoryHolds, Init
  <1>3. Watched /\ MemoryHolds /\ [MonitorNext]_<<vars, monitorVars>> => MemoryHolds'
    <2> SUFFICES ASSUME Watched, MemoryHolds, [MonitorNext]_<<vars, monitorVars>>
                 PROVE  MemoryHolds'
      OBVIOUS
    <2>1. CASE [Next]_vars /\ UNCHANGED monitorVars
      BY <2>1, MemoryStep
    <2>2. CASE Check
      BY <2>2, CheckRemembers
    <2>3. CASE Restart
      <3>1. /\ DOMAIN remembered' = {} /\ checkedAt' = 0 /\ openWindow' = openWindow
        BY <2>3 DEF Restart, vars, contractVars
      <3>2. openWindow \in Nat
        BY ConsistentShape DEF Watched, Shaped
      <3> QED BY <3>1, <3>2 DEF MemoryHolds
    <2> QED BY <2>1, <2>2, <2>3 DEF MonitorNext
  <1> QED BY <1>1, <1>2, <1>3, WatchedIsSpec, PTL DEF MonitorSpec

(* Nobody is woken for nothing: without a slash, and while the manager     *)
(* moves no stake, what a check reports is a window that came and went     *)
(* since the check before it (checkValidatorDrift of keeper, invariants.ts, *)
(* close_open_window, mature_due_windows).                                 *)
THEOREM AlarmAlwaysExplained ==
    ASSUME Moves = {}
    PROVE  MonitorSpec => AlarmIsExplained
  <1>1. Watched /\ MemoryHolds
        => [Check /\ seen["slashes"] = 0 => \A v \in Drifted : CameAndWent(v)]_<<vars, monitorVars>>
    BY DriftCameAndWent
  <1> QED BY <1>1, MemoryAlwaysHolds, PTL DEF AlarmIsExplained
=============================================================================
