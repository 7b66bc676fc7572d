------------------------- MODULE LstCoreProperties -------------------------
(***************************************************************************)
(* What the contract promises, stated over LstCore's state and steps.      *)
(***************************************************************************)
EXTENDS LstCore

InState(state) == {id \in WindowIds : windows[id].state = state}

(***************************************************************************)
(* The queue is well formed: the newest window is the only open one, and   *)
(* ACTIVE_WINDOWS lists exactly the windows that money is still owed from. *)
(* close_open_window, mature_due_windows and prune_settled_windows each    *)
(* keep a part of it, in different transactions.                           *)
(***************************************************************************)
QueueWellFormed ==
    /\ openWindow = nextWindowId - 1
    /\ InState("Open") = {openWindow}
    /\ active = InState("Unbonding") \cup InState("Matured")

(***************************************************************************)
(* The three liability legs of the pricing cache are the windows' own      *)
(* figures: nothing is lost or counted twice as money goes from the pool   *)
(* to the staking module, to the balance and to its claimant, through      *)
(* saturating subtractions that would hide a mismatch.                     *)
(***************************************************************************)
LiabilitiesMatchWindows ==
    /\ totals.owedOpen = windows[openWindow].owed
    /\ totals.owedUnbonding = OwedOf(InState("Unbonding"))
    /\ totals.owedMatured = OutstandingOf(windows, InState("Matured"))

ClaimantsOf(id) == {u \in Users : id \in DOMAIN claims[u]}

ClaimsSum(id, f(_)) ==
    SumFunction([u \in ClaimantsOf(id) |-> f(claims[u][id])])

ClaimOwed(c) == c.owed
ClaimShares(c) == c.shares

PaidFrom(id, c) == IF c.claimed THEN PayoutForClaim(windows[id], c.owed) ELSE 0

(***************************************************************************)
(* A window owes exactly what its claims say, for exactly the shares they  *)
(* burned, and has paid exactly what its paid claims were worth: requests  *)
(* of one account merge instead of overwriting (record_claim), and no      *)
(* claim is paid twice or left unmarked (execute_claim_matured).           *)
(***************************************************************************)
ClaimsMatchWindows ==
    \A id \in WindowIds :
        /\ ClaimsSum(id, ClaimOwed) = windows[id].owed
        /\ ClaimsSum(id, ClaimShares) = windows[id].shares
        /\ ClaimsSum(id, LAMBDA c : PaidFrom(id, c)) = windows[id].claimed

(***************************************************************************)
(* What the matured windows still have to pay is in the contract's         *)
(* balance, whatever was slashed on the way: a shortfall stays with the    *)
(* window that suffered it (spoken_for in mature_due_windows).             *)
(***************************************************************************)
MaturedMoneyIsThere ==
    OutstandingOf(windows, InState("Matured")) <= balance

(***************************************************************************)
(* A validator's slot counter is the number of unbonding windows that used *)
(* it, and never passes the protocol's ceiling: taken at a closing, given  *)
(* back at maturity, three weeks and many transactions apart.              *)
(***************************************************************************)
EntrySlotsMatchWindows ==
    \A i \in DOMAIN validators :
        /\ validators[i].entries =
             Cardinality({id \in InState("Unbonding") :
                            validators[i].address \in windows[id].used})
        /\ validators[i].entries <= EntryCeiling

(***************************************************************************)
(* The chain's own count of unbonding entries stays below its limit, so it *)
(* never refuses an Undelegate for want of a slot.                         *)
(***************************************************************************)
ChainSlotsSpare ==
    \A v \in Validators : Cardinality(Entries(v)) < ChainMaxEntries

(***************************************************************************)
(* Closing the window along the way is never the reason a deposit or a     *)
(* withdrawal request fails (close_window_if_overdue: "it must never be    *)
(* the reason one fails"): what the handler accepts, the chain accepts.    *)
(***************************************************************************)
RideAlongNeverRefused ==
    /\ \A amount \in Deposits :
         DepositAccepted(amount) =>
            ChainAccepts(DepositPlaced(amount), DepositStaked(amount))
    /\ \A shares \in Requests :
         RequestAccepted(shares) => ChainAccepts(RequestPlaced(shares), delegated)

(***************************************************************************)
(* A paid claim is final, and a claim on a window that is no longer open   *)
(* only ever becomes paid: nothing reprices it.                            *)
(***************************************************************************)
ClaimsAreFinal ==
    [][\A u \in Users : \A id \in DOMAIN claims[u] :
          /\ id \in DOMAIN claims'[u]
          /\ claims[u][id].claimed => claims'[u][id] = claims[u][id]
          /\ windows[id].state # "Open" =>
                claims'[u][id] \in {claims[u][id],
                                    [claims[u][id] EXCEPT !.claimed = TRUE]}
      ]_vars

Later(state) ==
    CASE state = "Open"      -> WindowStates
      [] state = "Unbonding" -> {"Unbonding", "Matured", "Settled"}
      [] state = "Matured"   -> {"Matured", "Settled"}
      [] state = "Settled"   -> {"Settled"}

(***************************************************************************)
(* A window's life goes one way: it is never reopened, what it owes is     *)
(* fixed when it closes, and what it realised when it matures.             *)
(***************************************************************************)
WindowsMoveForward ==
    [][\A id \in WindowIds :
          /\ id \in DOMAIN windows'
          /\ windows'[id].state \in Later(windows[id].state)
          /\ windows[id].state # "Open" =>
                /\ windows'[id].owed = windows[id].owed
                /\ windows'[id].maturesAt = windows[id].maturesAt
                /\ windows'[id].claimed >= windows[id].claimed
          /\ windows[id].realised # None =>
                windows'[id].realised = windows[id].realised
      ]_vars

(***************************************************************************)
(* Claims are paid in full as long as no validator was slashed.            *)
(***************************************************************************)
FullPaymentUnlessSlashed ==
    seen["slashes"] = 0 =>
        \A id \in InState("Matured") : windows[id].realised = windows[id].owed

\* What the chain says backs the shares, before the open window's promises.
ChainAssets ==
    SatSub(SumFunction([v \in Validators |-> delegated[v] + accrued[v]]) + balance,
           OwedBacked(totals))

PricedStep ==
    seen'["deposits"] # seen["deposits"] \/ seen'["requests"] # seen["requests"]

(***************************************************************************)
(* Nobody who stays pays for a deposit or a withdrawal request: measured   *)
(* by the chain's own figures, not the cache, the assets behind one share  *)
(* do not fall, however stale the cache was and whatever closed with it.   *)
(* It asks that every window the chain has paid out was collected.         *)
(***************************************************************************)
EntryAndExitDoNotDilute ==
    [][PricedStep /\ DueWindows = {} =>
          ChainAssets' * token.supply >= ChainAssets * token'.supply]_vars

(***************************************************************************)
(* Without a slash the cached stake of every validator is the chain's, so  *)
(* a plan made from the cache is one the chain can carry out; and the      *)
(* cached total is the sum of the entries even then.                       *)
(***************************************************************************)
StakeCacheTracksChain ==
    /\ totals.bonded = TotalBonded(validators)
    /\ seen["slashes"] = 0 =>
         \A i \in DOMAIN validators :
            validators[i].bonded = delegated[validators[i].address]

(***************************************************************************)
(* The contract is the only minter: its mirror of the supply is exact      *)
(* until a holder burns shares at the token, and never too low.            *)
(***************************************************************************)
SupplyMirrored ==
    /\ totals.supply >= token.supply
    /\ seen["burns"] = 0 => totals.supply = token.supply

\* The manager's fee stays beneath the ceiling the network set.
FeeWithinLimit == config.fee <= config.maxFee

(***************************************************************************)
(* Whoever has a matured claim can collect it without naming windows       *)
(* ("Claims every eligible window when window_ids is omitted", msg.rs:45). *)
(***************************************************************************)
ClaimAllPaysWhatIsDue ==
    \A u \in Users :
        PaidTo(u, DOMAIN claims[u]) > 0 => ClaimAccepted(u, DOMAIN claims[u])

(***************************************************************************)
(* When a harvest prices its fee from what the chain has: its page is the  *)
(* whole set, the mirror of the supply is exact, no entry keeps a stake of *)
(* which nothing is left, and stake and balance alone cover what is owed.  *)
(***************************************************************************)
PricedFromChain(limit) ==
    /\ Page(limit) = DOMAIN validators
    /\ totals.supply = token.supply
    /\ \A i \in DOMAIN validators :
          Delegates(validators[i].address) \/ validators[i].bonded = 0
    /\ OwedBacked(totals) < SumFunction(delegated) + balance

(***************************************************************************)
(* Such a harvest gives the treasury its cut and no more, whichever of     *)
(* Sync and Compound ran before: the minted shares are worth the fee by    *)
(* the chain's figures, to within the one share that flooring drops.       *)
(***************************************************************************)
FeeIsExact ==
    [][\A limit \in PageLimits :
          LET fee    == MulDivFloor(Harvested(limit), config.fee, BPS_DENOM)
              minted == token'.supply - token.supply
              rest   == ChainAssets' - fee
          IN  Compound(limit) /\ Harvested(limit) > 0 /\ PricedFromChain(limit) =>
                /\ minted * rest <= fee * token.supply
                /\ fee * token.supply < (minted + 1) * rest
      ]_vars

(***************************************************************************)
(* The weights of the active validators sum to 100%, none passes the       *)
(* ceiling, and whoever was dropped has none, however often the manager    *)
(* changed his mind.                                                       *)
(***************************************************************************)
WeightsComplete ==
    /\ SumFunction([i \in DOMAIN validators |-> validators[i].weight]) = BPS_DENOM
    /\ \A i \in DOMAIN validators :
         IF validators[i].status = "Active"
         THEN /\ validators[i].weight <= MaxWeight
              /\ validators[i].address \in Allowlist
         ELSE validators[i].weight = 0

(***************************************************************************)
(* No validator is listed twice, so a reading, a leg or a released slot    *)
(* finds the one entry it is meant for; entries are never dropped.         *)
(***************************************************************************)
EntriesAreUnique ==
    IsInjective([i \in DOMAIN validators |-> validators[i].address])

StatusOf(v) ==
    IF v \in AddressesIn(validators) THEN validators[IndexOf(v)].status ELSE "Removed"

(***************************************************************************)
(* Deposits and harvests reach active validators only: one that is being   *)
(* drained gains stake by no hand but the manager's.                       *)
(***************************************************************************)
DrainingGainsNothing ==
    [][PricedStep \/ (\E limit \in PageLimits : Compound(limit)) =>
          \A v \in Validators :
              delegated'[v] > delegated[v] => StatusOf(v) = "Active"]_vars

(***************************************************************************)
(* Upkeep pages stay inside the set, and a sweep is stamped fresh only     *)
(* when it ends: the time of the last sync moves with the cursor at rest.  *)
(***************************************************************************)
FreshOnlyAfterWholeSweep ==
    [][/\ cursor' \in 0 .. Len(validators') - 1
       /\ (/\ totals'.lastSync # totals.lastSync
           /\ ~PricedStep
           /\ config'.bootstrapped = config.bootstrapped) => cursor' = 0]_vars

-----------------------------------------------------------------------------
(* The leaver's promise: windows are the batches of WithdrawalQueue, claims *)
(* its receipts.  Prices, validators and the chain are hidden.              *)

Batches ==
    [id \in WindowIds |->
        [owed |-> windows[id].owed, returned |-> windows[id].realised,
         paid |-> windows[id].claimed]]

Receipts ==
    [u \in Users |->
        [id \in DOMAIN claims[u] |->
            [owed |-> claims[u][id].owed, paid |-> claims[u][id].claimed]]]

Queue == INSTANCE WithdrawalQueue
            WITH open <- openWindow, batches <- Batches, receipts <- Receipts

(***************************************************************************)
(* The contract implements the promise: whatever deposits, slashes, upkeep *)
(* and other leavers do, a request is a fixed amount on the open window,   *)
(* and it is paid once, its share of what that window realised.            *)
(***************************************************************************)
KeepsQueuePromise == Queue!Spec
=============================================================================
