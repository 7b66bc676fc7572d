------------------------------ MODULE SetProofs ------------------------------
(***************************************************************************)
(* Proofs about the validator set as the contract caches it: that its      *)
(* entries are distinct, its slots the windows in flight, its stakes the   *)
(* chain's own, its weights whole; and that the chain therefore has a slot *)
(* to spare wherever a closing rides along, and sends in time the money    *)
(* that the windows promise.  Each is an invariant that looks at one       *)
(* relation between the set and the windows or the chain, and stands on    *)
(* the types and on the ledgers' agreement.                                *)
(***************************************************************************)
EXTENDS LedgerProofs

-----------------------------------------------------------------------------
(* The answers of the closings that ride along are well typed, and every   *)
(* step keeps the types.                                                   *)
LEMMA PartsStep == ASSUME TypedParts, [Next]_vars PROVE TypedParts'
  <1>1. TypeInv'
    BY PartsMakeTypeInv, TypeInvStep
  <1>2. TypeInv' <=> TypedParts'
    BY PartsMakeTypeInv, PTL
  <1> QED BY <1>1, <1>2

\* What a deposit answers with is well typed.
LEMMA DepositTyped ==
    ASSUME TypedParts, NEW amount \in Deposits
    PROVE  TypedResult(DepositPlaced(amount))
  <1> DEFINE i      == SelectForDelegation(RefreshedSet, amount)
             shares == SharesForDeposit(amount, DepositPool(amount))
             set    == [RefreshedSet EXCEPT ![i].bonded = @ + amount]
             t      == [RefreshedTotals EXCEPT !.bonded = @ + amount,
                                               !.supply = @ + shares]
  <1>1. amount \in Nat /\ RefreshedSet \in Seq(ValidatorEntry)
        /\ RefreshedTotals \in TotalsCache
    BY InputsNat, RefreshTyped
  <1>2. shares \in Nat
    <2>1. balance + amount \in Nat
      BY <1>1 DEF TypedParts, TypedChain
    <2>2. DepositPool(amount) \in PoolTotals
      BY <1>1, <2>1, PoolTyped DEF DepositPool
    <2> QED BY <1>1, <2>2, SharesForDepositNat
  <1>3. set \in Seq(ValidatorEntry)
    BY <1>1, StakeAdded
  <1>4. t \in TotalsCache
    <2>1. RefreshedTotals.bonded \in Nat /\ RefreshedTotals.supply \in Nat
      BY <1>1, TotalsFields
    <2>2. /\ RefreshedTotals.bonded + amount \in Nat
          /\ RefreshedTotals.supply + shares \in Nat
      BY <1>1, <1>2, <2>1
    <2> HIDE DEF shares
    <2> QED BY <1>1, <2>2 DEF TotalsCache
  <1>5. DepositPlaced(amount) = CloseWindowIfOverdue(set, t, windows)
    BY DEF DepositPlaced
  <1> HIDE DEF set, t
  <1> QED BY <1>3, <1>4, <1>5, RidingAlongTyped DEF TypedParts, TypedQueue

\* A request that joins the open window leaves the windows well typed.
LEMMA JoinedTyped ==
    ASSUME TypedParts, NEW shares \in Requests
    PROVE  /\ AssetsForShares(shares, RequestPool) \in Nat
           /\ TypedWindows([windows EXCEPT
                 ![openWindow].shares = @ + shares,
                 ![openWindow].owed = @ + AssetsForShares(shares, RequestPool)], nextWindowId)
           /\ [RefreshedTotals EXCEPT
                 !.supply = SatSub(@, shares),
                 !.owedOpen = @ + AssetsForShares(shares, RequestPool)] \in TotalsCache
  <1> DEFINE owed == AssetsForShares(shares, RequestPool)
  <1>1. shares \in Nat /\ RefreshedTotals \in TotalsCache /\ balance \in Nat
    BY InputsNat, RefreshTyped DEF TypedParts, TypedChain
  <1>2. owed \in Nat
    <2>1. RequestPool \in PoolTotals
      BY <1>1, PoolTyped DEF RequestPool
    <2> QED BY <1>1, <2>1, AssetsForSharesNat
  <1> HIDE DEF owed
  <1>3. TypedWindows([windows EXCEPT ![openWindow].shares = @ + shares,
                                     ![openWindow].owed = @ + owed], nextWindowId)
    <2>1. [windows[openWindow] EXCEPT !.shares = windows[openWindow].shares + shares,
                                      !.owed = windows[openWindow].owed + owed] \in AWindow
      BY <1>1, <1>2, JoinedWindowTyped DEF TypedParts, TypedQueue, TypedWindows
    <2> QED BY <2>1 DEF TypedParts, TypedQueue, TypedWindows
  <1>4. [RefreshedTotals EXCEPT !.supply = SatSub(@, shares),
                                !.owedOpen = @ + owed] \in TotalsCache
    <2>1. RefreshedTotals.owedOpen \in Nat /\ RefreshedTotals.supply \in Nat
      BY <1>1, TotalsFields
    <2>2. RefreshedTotals.owedOpen + owed \in Nat
      BY <1>2, <2>1
    <2>3. SatSub(RefreshedTotals.supply, shares) \in Nat
      BY <1>1, <2>1, SatSubNat
    <2> QED BY <1>1, <2>2, <2>3 DEF TotalsCache
  <1> QED BY <1>2, <1>3, <1>4 DEF owed

\* What a request answers with is well typed.
LEMMA RequestTyped ==
    ASSUME TypedParts, NEW shares \in Requests
    PROVE  TypedResult(RequestPlaced(shares))
  <1> DEFINE owed == AssetsForShares(shares, RequestPool)
             ws   == [windows EXCEPT ![openWindow].shares = @ + shares,
                                     ![openWindow].owed = @ + owed]
             t    == [RefreshedTotals EXCEPT !.supply = SatSub(@, shares),
                                             !.owedOpen = @ + owed]
  <1>1. TypedWindows(ws, nextWindowId) /\ t \in TotalsCache
    BY JoinedTyped
  <1>2. RequestPlaced(shares) = CloseWindowIfOverdue(RefreshedSet, t, ws)
    BY DEF RequestPlaced
  <1> HIDE DEF ws, t
  <1> QED BY <1>1, <1>2, RefreshTyped, RidingAlongTyped DEF TypedParts, TypedQueue

-----------------------------------------------------------------------------
(* What the answers of a closing keep of what they were given.             *)

ClosingOf(r, set, t, ws) ==
    r = CloseOpenWindow(set, t, ws) \/ r = StayOpen(set, t, ws)

\* A closing that rides along is a closing or nothing.
LEMMA RidingAlongIsOne ==
    ASSUME NEW set, NEW t, NEW ws
    PROVE  ClosingOf(CloseWindowIfOverdue(set, t, ws), set, t, ws)
  BY DEF ClosingOf, CloseWindowIfOverdue

(* A closing takes its liability out of the bonded and the open figures    *)
(* and leaves the mirrored supply and the stamp alone.                     *)
LEMMA ClosingTotals ==
    ASSUME NEW set, NEW t \in TotalsCache, NEW ws, NEW r, ClosingOf(r, set, t, ws)
    PROVE  r.totals.supply = t.supply /\ r.totals.lastSync = t.lastSync
  <1>1. CASE r = StayOpen(set, t, ws)
    BY <1>1 DEF StayOpen
  <1>2. CASE r = CloseOpenWindow(set, t, ws)
    <2> DEFINE owed == ws[openWindow].owed
    <2>1. r.totals = LiabilityInFlight(t, owed)
      BY <1>2 DEF CloseOpenWindow
    <2> HIDE DEF owed
    <2> QED BY <2>1 DEF LiabilityInFlight, TotalsCache
  <1> QED BY <1>1, <1>2 DEF ClosingOf

-----------------------------------------------------------------------------
(* The mirrored supply.                                                    *)

\* Before bootstrap the cached supply stands for the token's, which is not bound.
LEMMA MirrorIsGood ==
    ASSUME TypedParts, SupplyMirrored
    PROVE  /\ MirroredSupply \in Nat /\ MirroredSupply >= token.supply
           /\ seen["burns"] = 0 => MirroredSupply = token.supply
           /\ RefreshedTotals.supply = MirroredSupply
  <1>1. token.supply \in Nat /\ totals.supply \in Nat /\ totals \in TotalsCache
    BY TokenFields, TotalsFields DEF TypedParts, TypedToken
  <1>2. MirroredSupply \in {token.supply, totals.supply}
    BY DEF MirroredSupply
  <1>3. RefreshedTotals.supply = MirroredSupply
    BY <1>1 DEF RefreshedTotals, TotalsCache
  <1> QED BY <1>1, <1>2, <1>3 DEF SupplyMirrored

\* A deposit mints what it books.
LEMMA DepositMirrors ==
    ASSUME TypedParts, SupplyMirrored, NEW u \in Users, NEW amount \in Deposits,
           Deposit(u, amount)
    PROVE  SupplyMirrored'
  <1> DEFINE i      == SelectForDelegation(RefreshedSet, amount)
             shares == SharesForDeposit(amount, DepositPool(amount))
             set    == [RefreshedSet EXCEPT ![i].bonded = @ + amount]
             t      == [RefreshedTotals EXCEPT !.bonded = @ + amount,
                                               !.supply = @ + shares]
             r      == DepositPlaced(amount)
  <1>1. amount \in Nat /\ RefreshedTotals \in TotalsCache
    BY InputsNat, RefreshTyped
  <1>2. shares \in Nat
    <2>1. balance + amount \in Nat
      BY <1>1 DEF TypedParts, TypedChain
    <2>2. DepositPool(amount) \in PoolTotals
      BY <1>1, <2>1, PoolTyped DEF DepositPool
    <2> QED BY <1>1, <2>2, SharesForDepositNat
  <1>3. r = CloseWindowIfOverdue(set, t, windows)
    BY DEF DepositPlaced
  <1>4. /\ totals' = r.totals
        /\ token' = [token EXCEPT !.supply = @ + shares, !.held[u] = @ + shares]
        /\ Count("deposits")
    BY DEF Deposit, Commit
  <1> HIDE DEF shares, set, r
  <1>5. t \in TotalsCache /\ t.supply = RefreshedTotals.supply + shares
    <2>1. RefreshedTotals.bonded + amount \in Nat /\ RefreshedTotals.supply + shares \in Nat
      BY <1>1, <1>2, TotalsFields
    <2> QED BY <1>1, <2>1 DEF TotalsCache
  <1> HIDE DEF t
  <1>6. totals'.supply = MirroredSupply + shares
    BY <1>3, <1>4, <1>5, RidingAlongIsOne, ClosingTotals, MirrorIsGood
  <1>7. token'.supply = token.supply + shares /\ token.supply \in Nat
    BY <1>4, TokenFields DEF TypedParts, TypedToken, Token
  <1>8. seen'["burns"] = seen["burns"]
    BY <1>4 DEF Count, TypedParts, TypedSeen, Events
  <1> QED BY <1>2, <1>6, <1>7, <1>8, MirrorIsGood DEF SupplyMirrored

\* A request burns what it takes off the books.
LEMMA RequestMirrors ==
    ASSUME TypedParts, SupplyMirrored, NEW u \in Users, NEW shares \in Requests,
           Unbond(u, shares)
    PROVE  SupplyMirrored'
  <1> DEFINE owed == AssetsForShares(shares, RequestPool)
             ws   == [windows EXCEPT ![openWindow].shares = @ + shares,
                                     ![openWindow].owed = @ + owed]
             t    == [RefreshedTotals EXCEPT !.supply = SatSub(@, shares),
                                             !.owedOpen = @ + owed]
             r    == RequestPlaced(shares)
  <1>1. shares \in Nat /\ RefreshedTotals \in TotalsCache
    BY InputsNat, RefreshTyped
  <1>2. owed \in Nat
    <2>1. balance \in Nat
      BY DEF TypedParts, TypedChain
    <2>2. RequestPool \in PoolTotals
      BY <1>1, <2>1, PoolTyped DEF RequestPool
    <2> QED BY <1>1, <2>2, AssetsForSharesNat
  <1>3. r = CloseWindowIfOverdue(RefreshedSet, t, ws)
    BY DEF RequestPlaced
  <1>4. /\ totals' = r.totals /\ shares <= token.held[u]
        /\ token' = [token EXCEPT !.supply = @ - shares, !.held[u] = @ - shares]
        /\ Count("requests")
    BY DEF Unbond, Commit
  <1> HIDE DEF owed, ws, r
  <1>5. t \in TotalsCache /\ t.supply = SatSub(RefreshedTotals.supply, shares)
    <2>1. RefreshedTotals.owedOpen \in Nat /\ RefreshedTotals.supply \in Nat
      BY <1>1, TotalsFields
    <2>2. RefreshedTotals.owedOpen + owed \in Nat
      BY <1>2, <2>1
    <2>3. SatSub(RefreshedTotals.supply, shares) \in Nat
      BY <1>1, <2>1, SatSubNat
    <2> QED BY <1>1, <2>2, <2>3 DEF TotalsCache
  <1> HIDE DEF t
  <1>6. totals'.supply = SatSub(MirroredSupply, shares)
    BY <1>3, <1>4, <1>5, RidingAlongIsOne, ClosingTotals, MirrorIsGood
  <1>7. token'.supply = token.supply - shares /\ token.supply \in Nat
    BY <1>4, TokenFields DEF TypedParts, TypedToken, Token
  <1>8. shares <= token.supply
    <2>1. token.held \in [Users -> Nat] /\ SumFunctionOnSet(token.held, Users) \in Nat
          /\ SumFunctionOnSet(token.held, Users) <= token.supply
      BY TokenFields DEF TypedParts, TypedToken, SupplyCovers
    <2>2. token.held[u] <= SumFunctionOnSet(token.held, Users)
      BY <2>1, FiniteConstants, SumCovers
    <2> QED BY <1>1, <1>4, <1>7, <2>1, <2>2
  <1>9. seen'["burns"] = seen["burns"]
    BY <1>4 DEF Count, TypedParts, TypedSeen, Events
  <1>10. MirroredSupply \in Nat /\ MirroredSupply >= token.supply
         /\ (seen["burns"] = 0 => MirroredSupply = token.supply)
    BY MirrorIsGood
  <1>11. SatSub(MirroredSupply, shares) = MirroredSupply - shares
    BY <1>1, <1>7, <1>8, <1>10 DEF SatSub
  <1> QED BY <1>1, <1>6, <1>7, <1>9, <1>10, <1>11 DEF SupplyMirrored

\* A sweep mints the fee that it books.
LEMMA CompoundMirrors ==
    ASSUME TypedParts, SupplyMirrored, NEW limit \in PageLimits, Compound(limit)
    PROVE  SupplyMirrored'
  <1> DEFINE S == FeeShares(limit)
             b == TotalBonded(RestakedSet(limit))
             p == TotalPending(RestakedSet(limit))
             l == IF SweepDone(limit) THEN now ELSE totals.lastSync
  <1>1. S \in Nat
    BY HarvestTyped
  <1>2. /\ totals' = [totals EXCEPT !.bonded = b, !.pending = p, !.supply = @ + S,
                                    !.lastSync = l]
        /\ token' = [token EXCEPT !.supply = @ + S, !.held[Treasury] = @ + S]
        /\ seen' = seen
    BY DEF Compound, TotalsAfterCompound
  <1> HIDE DEF S, b, p, l
  <1>3. totals'.supply = totals.supply + S /\ totals.supply \in Nat
    BY <1>2, TotalsFields DEF TypedParts, TotalsCache
  <1>4. token'.supply = token.supply + S /\ token.supply \in Nat
    BY <1>2, TokenFields DEF TypedParts, TypedToken, Token
  <1> QED BY <1>1, <1>2, <1>3, <1>4 DEF SupplyMirrored

\* Every step keeps the mirror.
LEMMA MirrorStep == ASSUME TypedParts, SupplyMirrored, [Next]_vars PROVE SupplyMirrored'
  <1>0. /\ totals \in TotalsCache /\ token \in Token /\ TypedSeen
        /\ totals.supply \in Nat /\ token.supply \in Nat
    BY TokenFields, TotalsFields DEF TypedParts, TypedToken
  <1>1. ASSUME NEW seed \in Seeds, Bootstrap(seed) PROVE SupplyMirrored'
    <2>1. /\ totals' = [totals EXCEPT !.bonded = @ + seed, !.supply = @ + seed,
                                      !.lastSync = now]
          /\ token' = [token EXCEPT !.supply = @ + seed] /\ seen' = seen
      BY <1>1 DEF Bootstrap
    <2>2. totals'.supply = totals.supply + seed /\ token'.supply = token.supply + seed
      BY <1>0, <2>1 DEF TotalsCache, Token
    <2> QED BY <1>0, <2>1, <2>2, InputsNat DEF SupplyMirrored
  <1>2. ASSUME NEW u \in Users, NEW list \in ClaimLists, ClaimMatured(u, list)
        PROVE  SupplyMirrored'
    <2> DEFINE paid == PaidTo(u, ClaimIds(u, list))
               t == LiabilityArrived(DueWindows)
    <2>1. totals' = [t EXCEPT !.owedMatured = SatSub(@, paid)]
          /\ token' = token /\ seen' = seen
      BY <1>2 DEF ClaimMatured
    <2>2. t.supply = totals.supply /\ DOMAIN t = DOMAIN totals
      BY <1>0 DEF LiabilityArrived, TotalsCache
    <2> HIDE DEF t, paid
    <2>3. totals'.supply = t.supply
      BY <1>0, <2>1, <2>2 DEF TotalsCache
    <2> QED BY <2>1, <2>2, <2>3 DEF SupplyMirrored
  <1>3. ASSUME AdvanceWindow PROVE SupplyMirrored'
    <2>1. totals' = CloseOpenWindow(validators, totals, windows).totals
          /\ token' = token /\ seen' = seen
      BY <1>3 DEF AdvanceWindow, Commit
    <2>2. ClosingOf(CloseOpenWindow(validators, totals, windows), validators, totals, windows)
      BY DEF ClosingOf
    <2>3. totals'.supply = totals.supply
      BY <1>0, <2>1, <2>2, ClosingTotals
    <2> QED BY <2>1, <2>3 DEF SupplyMirrored
  <1>4. ASSUME NEW limit \in CollectLimits, CollectMatured(limit) PROVE SupplyMirrored'
    <2>1. totals' = LiabilityArrived(Collected(limit)) /\ token' = token /\ seen' = seen
      BY <1>4 DEF CollectMatured, chainVars
    <2>2. totals'.supply = totals.supply
      BY <1>0, <2>1 DEF LiabilityArrived, TotalsCache
    <2> QED BY <2>1, <2>2 DEF SupplyMirrored
  <1>5. ASSUME NEW limit \in PageLimits, Sync(limit) PROVE SupplyMirrored'
    <2>1. totals'.supply \in {MirroredSupply, totals.supply} /\ token' = token /\ seen' = seen
      BY <1>0, <1>5 DEF Sync, chainVars, TotalsCache
    <2> QED BY <2>1, MirrorIsGood DEF SupplyMirrored
  <1>6. ASSUME NEW u \in Users, NEW shares \in Requests, BurnOwnShares(u, shares)
        PROVE  SupplyMirrored'
    <2>1. /\ token' = [token EXCEPT !.supply = @ - shares, !.held[u] = @ - shares]
          /\ totals' = totals /\ Count("burns") /\ shares \in Nat
      BY <1>6, InputsNat DEF BurnOwnShares, contractVars
    <2>2. token'.supply = token.supply - shares
      BY <1>0, <2>1 DEF Token
    <2>3. seen'["burns"] # 0
      BY <1>0, <2>1 DEF Count, TypedSeen, Events
    <2> QED BY <1>0, <2>1, <2>2, <2>3 DEF SupplyMirrored
  <1>7. ASSUME totals' = totals, token' = token, seen'["burns"] = seen["burns"]
        PROVE  SupplyMirrored'
    BY <1>7 DEF SupplyMirrored
  <1>8. ASSUME NEW event \in Events \ {"burns"}, Count(event)
        PROVE  seen'["burns"] = seen["burns"]
    BY <1>0, <1>8 DEF Count, TypedSeen, Events
  <1>9. "migrations" \in Events \ {"burns"} /\ "slashes" \in Events \ {"burns"}
        /\ "accruals" \in Events \ {"burns"} /\ "donations" \in Events \ {"burns"}
    BY DEF Events
  <1>10. CASE UserAction
    BY <1>1, <1>2, <1>10, DepositMirrors, RequestMirrors DEF UserAction
  <1>11. CASE UpkeepAction
    BY <1>3, <1>4, <1>5, <1>11, CompoundMirrors DEF UpkeepAction
  <1>12. CASE ManagerAction
    BY <1>7, <1>8, <1>9, <1>12 DEF ManagerAction, SetWeights, SetPerformanceFee,
       Rebalance, SetPaused, Migrate, chainVars
  <1>13. CASE ChainAction
    BY <1>6, <1>7, <1>8, <1>9, <1>13 DEF ChainAction, NextBlock, Slash,
       AccrueRewards, Donate, contractVars
  <1>14. CASE UNCHANGED vars
    BY <1>7, <1>14 DEF vars, contractVars, chainVars
  <1> QED BY <1>10, <1>11, <1>12, <1>13, <1>14 DEF Next

(* The contract's mirror of the share supply is never too low, and exact   *)
(* until a holder burns shares at the token (MIRRORED_SUPPLY).             *)
THEOREM SupplyAlwaysMirrored == Spec => []SupplyMirrored
  <1>1. Init => SupplyMirrored
    BY DEF Init, SupplyMirrored
  <1>2. TypeInv /\ SupplyMirrored /\ [Next]_vars => SupplyMirrored'
    BY MirrorStep, PartsMakeTypeInv
  <1> QED BY <1>1, <1>2, TypeInvAlways, PTL DEF Spec

-----------------------------------------------------------------------------
(* Rewriting the set.  Every handler but SetWeights keeps the rows of the  *)
(* set, which are its order, addresses, weights and statuses.              *)

SameRow(e, f) ==
    e.address = f.address /\ e.weight = f.weight /\ e.status = f.status

SameRows(s, t) == DOMAIN s = DOMAIN t /\ \A i \in DOMAIN t : SameRow(s[i], t[i])

SameSlots(s, t) == \A i \in DOMAIN t : s[i].entries = t[i].entries

\* Two edits that keep the rows keep them together.
LEMMA RowsCompose ==
    ASSUME NEW s, NEW t, NEW w, SameRows(s, t), SameRows(t, w)
    PROVE  SameRows(s, w)
  BY DEF SameRows, SameRow

(* A page re-read from the chain.                                          *)
LEMMA PageRows ==
    ASSUME TypedSet, TypedChain, NEW page
    PROVE  /\ SameRows(ReadPage(page), validators)
           /\ SameSlots(ReadPage(page), validators)
           /\ \A i \in DOMAIN validators : ReadPage(page)[i].bonded =
                IF i \in page THEN delegated[validators[i].address] ELSE validators[i].bonded
  <1> DEFINE g == ReadPage(page)
  <1>1. DOMAIN g = DOMAIN validators
    BY DEF ReadPage
  <1>2. ASSUME NEW i \in DOMAIN validators
        PROVE  /\ SameRow(g[i], validators[i]) /\ g[i].entries = validators[i].entries
               /\ g[i].bonded = IF i \in page THEN delegated[validators[i].address]
                                ELSE validators[i].bonded
    <2>1. PICK e \in ValidatorEntry : e = validators[i]
      BY SetDomain DEF TypedSet
    <2>2. delegated[e.address] \in Nat /\ accrued[e.address] \in Nat
      BY EntryFields DEF TypedChain
    <2>3. CASE i \in page
      <3>1. g[i] = [e EXCEPT !.bonded = delegated[e.address],
                             !.pending = accrued[e.address]]
        BY <2>1, <2>3 DEF ReadPage, ReadDelegation
      <3>2. SameRow(g[i], e) /\ g[i].bonded = delegated[e.address] /\ g[i].entries = e.entries
        BY <2>2, <3>1 DEF ValidatorEntry, SameRow
      <3> QED BY <2>1, <2>3, <3>2
    <2>4. CASE i \notin page
      <3>1. g[i] = validators[i]
        BY <2>4 DEF ReadPage
      <3> QED BY <2>4, <3>1 DEF SameRow
    <2> QED BY <2>3, <2>4
  <1> QED BY <1>1, <1>2 DEF SameRows, SameSlots

(* Stake booked at one entry.                                              *)
LEMMA StakeRows ==
    ASSUME NEW set \in Seq(ValidatorEntry), NEW i, NEW amount \in Nat, NEW g,
           g = [set EXCEPT ![i].bonded = @ + amount]
    PROVE  /\ SameRows(g, set) /\ SameSlots(g, set)
           /\ \A j \in DOMAIN set : g[j].bonded =
                IF j = i THEN set[j].bonded + amount ELSE set[j].bonded
  <1>1. DOMAIN g = DOMAIN set
    OBVIOUS
  <1>2. ASSUME NEW j \in DOMAIN set
        PROVE  /\ SameRow(g[j], set[j]) /\ g[j].entries = set[j].entries
               /\ g[j].bonded = IF j = i THEN set[j].bonded + amount ELSE set[j].bonded
    <2>1. PICK e \in ValidatorEntry : e = set[j]
      BY SetDomain
    <2>2. e.bonded \in Nat /\ e.bonded + amount \in Nat
      BY EntryFields
    <2>3. CASE j = i
      <3>1. g[j] = [e EXCEPT !.bonded = e.bonded + amount]
        BY <2>1, <2>3
      <3>2. SameRow(g[j], e) /\ g[j].bonded = e.bonded + amount /\ g[j].entries = e.entries
        BY <2>2, <3>1 DEF ValidatorEntry, SameRow
      <3> QED BY <2>1, <2>3, <3>2
    <2>4. CASE j # i
      <3>1. g[j] = set[j]
        BY <2>4
      <3> QED BY <2>4, <3>1 DEF SameRow
    <2> QED BY <2>3, <2>4
  <1> QED BY <1>1, <1>2 DEF SameRows, SameSlots

(* The legs of an undelegation booked.                                     *)
LEMMA LegRows ==
    ASSUME NEW set \in Seq(ValidatorEntry), NEW legs \in [DOMAIN set -> Nat]
    PROVE  /\ SameRows(WithLegs(set, legs), set)
           /\ \A i \in DOMAIN set :
                /\ WithLegs(set, legs)[i].bonded = SatSub(set[i].bonded, legs[i])
                /\ WithLegs(set, legs)[i].entries =
                     IF legs[i] > 0 THEN set[i].entries + 1 ELSE set[i].entries
  <1> DEFINE g == WithLegs(set, legs)
  <1>1. DOMAIN g = DOMAIN set
    BY DEF WithLegs
  <1>2. ASSUME NEW i \in DOMAIN set
        PROVE  /\ SameRow(g[i], set[i])
               /\ g[i].bonded = SatSub(set[i].bonded, legs[i])
               /\ g[i].entries = IF legs[i] > 0 THEN set[i].entries + 1 ELSE set[i].entries
    <2>1. PICK e \in ValidatorEntry : e = set[i]
      BY SetDomain
    <2>2. e.bonded \in Nat /\ e.entries + 1 \in Nat /\ legs[i] \in Nat
      BY EntryFields
    <2>3. CASE legs[i] > 0
      <3>1. g[i] = [e EXCEPT !.bonded = SatSub(e.bonded, legs[i]), !.entries = e.entries + 1]
        BY <2>1, <2>3 DEF WithLegs
      <3>2. SatSub(e.bonded, legs[i]) \in Nat
        BY <2>2, SatSubNat
      <3>3. /\ SameRow(g[i], e) /\ g[i].bonded = SatSub(e.bonded, legs[i])
            /\ g[i].entries = e.entries + 1
        BY <2>2, <3>1, <3>2 DEF ValidatorEntry, SameRow
      <3> QED BY <2>1, <2>3, <3>3
    <2>4. CASE legs[i] = 0
      <3>1. g[i] = set[i]
        BY <2>4 DEF WithLegs
      <3>2. SatSub(set[i].bonded, legs[i]) = set[i].bonded
        BY <2>1, <2>2, <2>4 DEF SatSub
      <3> QED BY <2>4, <3>1, <3>2 DEF SameRow
    <2> QED BY <2>2, <2>3, <2>4
  <1> QED BY <1>1, <1>2 DEF SameRows

(* Slots released.                                                         *)
LEMMA ReleasedRows ==
    ASSUME TypedSet, TypedQueue, NEW ids \in SUBSET WindowIds
    PROVE  /\ SameRows(Released(ids), validators)
           /\ \A i \in DOMAIN validators :
                /\ Released(ids)[i].bonded = validators[i].bonded
                /\ Released(ids)[i].entries = SatSub(validators[i].entries,
                     Cardinality({id \in ids : validators[i].address \in windows[id].used}))
  <1> DEFINE g == Released(ids)
             n(i) == Cardinality({id \in ids : validators[i].address \in windows[id].used})
  <1>1. DOMAIN g = DOMAIN validators
    BY DEF Released
  <1>2. ASSUME NEW i \in DOMAIN validators
        PROVE  /\ SameRow(g[i], validators[i]) /\ g[i].bonded = validators[i].bonded
               /\ g[i].entries = SatSub(validators[i].entries, n(i))
    <2>1. PICK e \in ValidatorEntry : e = validators[i]
      BY SetDomain DEF TypedSet
    <2>2. n(i) \in Nat
      <3>1. {id \in ids : validators[i].address \in windows[id].used} \in SUBSET WindowIds
        OBVIOUS
      <3> QED BY <3>1, WindowsTyped, FS_Subset, FS_CardinalityType
    <2>3. g[i] = [validators[i] EXCEPT !.entries = SatSub(@, n(i))]
      BY DEF Released
    <2> HIDE DEF n, g
    <2>4. g[i] = [e EXCEPT !.entries = SatSub(e.entries, n(i))]
      BY <2>1, <2>3
    <2>5. SatSub(e.entries, n(i)) \in Nat
      BY <2>2, EntryFields, SatSubNat
    <2>6. SameRow(g[i], e) /\ g[i].bonded = e.bonded
          /\ g[i].entries = SatSub(e.entries, n(i))
      BY <2>4, <2>5 DEF ValidatorEntry, SameRow
    <2> QED BY <2>1, <2>6
  <1> QED BY <1>1, <1>2 DEF SameRows

(* A page harvested.                                                       *)
LEMMA HarvestedRows ==
    ASSUME TypedSet, TypedChain, NEW limit
    PROVE  /\ SameRows(HarvestedSet(limit), validators)
           /\ SameSlots(HarvestedSet(limit), validators)
           /\ \A i \in DOMAIN validators : HarvestedSet(limit)[i].bonded =
                IF i \in Page(limit) /\ Delegates(validators[i].address)
                THEN delegated[validators[i].address] ELSE validators[i].bonded
  <1> DEFINE g == HarvestedSet(limit)
             b(e) == IF Delegates(e.address) THEN delegated[e.address] ELSE e.bonded
  <1>1. DOMAIN g = DOMAIN validators
    BY DEF HarvestedSet
  <1>2. ASSUME NEW i \in DOMAIN validators
        PROVE  /\ SameRow(g[i], validators[i]) /\ g[i].entries = validators[i].entries
               /\ g[i].bonded = IF i \in Page(limit) /\ Delegates(validators[i].address)
                                THEN delegated[validators[i].address]
                                ELSE validators[i].bonded
    <2>1. PICK e \in ValidatorEntry : e = validators[i]
      BY SetDomain DEF TypedSet
    <2>2. delegated[e.address] \in Nat /\ e.bonded \in Nat
      BY EntryFields DEF TypedChain
    <2>3. CASE i \in Page(limit)
      <3>1. g[i] = [e EXCEPT !.bonded = b(e), !.pending = 0]
        BY <2>1, <2>3 DEF HarvestedSet
      <3>2. b(e) \in Nat
        BY <2>2
      <3>3. SameRow(g[i], e) /\ g[i].bonded = b(e) /\ g[i].entries = e.entries
        <4> HIDE DEF b, g
        <4> QED BY <3>1, <3>2 DEF ValidatorEntry, SameRow
      <3> QED BY <2>1, <2>3, <3>3
    <2>4. CASE i \notin Page(limit)
      <3>1. g[i] = validators[i]
        BY <2>4 DEF HarvestedSet
      <3> QED BY <2>4, <3>1 DEF SameRow
    <2> QED BY <2>3, <2>4
  <1> QED BY <1>1, <1>2 DEF SameRows, SameSlots

(* Stake moved between two entries.                                        *)
LEMMA MovedRows ==
    ASSUME TypedParts, NEW move \in Moves, Rebalance(move)
    PROVE  /\ SameRows(validators', validators) /\ SameSlots(validators', validators)
           /\ IndexOf(move.from) \in DOMAIN validators
           /\ IndexOf(move.to) \in DOMAIN validators
           /\ validators[IndexOf(move.from)].address = move.from
           /\ validators[IndexOf(move.to)].address = move.to
           /\ IndexOf(move.from) # IndexOf(move.to)
           /\ \A k \in DOMAIN validators : validators'[k].bonded =
                IF k = IndexOf(move.from) THEN validators[k].bonded - move.amount
                ELSE IF k = IndexOf(move.to) THEN validators[k].bonded + move.amount
                ELSE validators[k].bonded
  <1> DEFINE i == IndexOf(move.from)
             j == IndexOf(move.to)
             x == move.amount
  <1>1. /\ {move.from, move.to} \subseteq AddressesIn(validators)
        /\ move.from # move.to /\ x <= validators[i].bonded /\ x \in Nat
        /\ validators' = [validators EXCEPT ![i].bonded = @ - x, ![j].bonded = @ + x]
    BY ConstantsAreTyped DEF Rebalance
  <1>2. /\ i \in DOMAIN validators /\ validators[i].address = move.from
        /\ j \in DOMAIN validators /\ validators[j].address = move.to
    BY <1>1 DEF AddressesIn, IndexOf
  <1>3. i # j
    BY <1>1, <1>2
  <1> HIDE DEF i, j, x
  <1>4. validators \in Seq(ValidatorEntry) /\ DOMAIN validators' = DOMAIN validators
    BY <1>1 DEF TypedParts, TypedSet
  <1>5. ASSUME NEW k \in DOMAIN validators
        PROVE  /\ SameRow(validators'[k], validators[k])
               /\ validators'[k].entries = validators[k].entries
               /\ validators'[k].bonded =
                    IF k = i THEN validators[k].bonded - x
                    ELSE IF k = j THEN validators[k].bonded + x ELSE validators[k].bonded
    <2>1. PICK e \in ValidatorEntry : e = validators[k]
      BY <1>4, SetDomain
    <2>2. e.bonded \in Nat
      BY EntryFields
    <2>3. CASE k = i
      <3>1. validators'[k] = [e EXCEPT !.bonded = e.bonded - x] /\ e.bonded - x \in Nat
        BY <1>1, <1>2, <1>3, <2>1, <2>2, <2>3
      <3>2. /\ SameRow(validators'[k], e) /\ validators'[k].bonded = e.bonded - x
            /\ validators'[k].entries = e.entries
        BY <2>2, <3>1 DEF ValidatorEntry, SameRow
      <3> QED BY <2>1, <2>3, <3>2
    <2>4. CASE k = j
      <3>1. validators'[k] = [e EXCEPT !.bonded = e.bonded + x] /\ e.bonded + x \in Nat
        BY <1>1, <1>2, <1>3, <2>1, <2>2, <2>4
      <3>2. /\ SameRow(validators'[k], e) /\ validators'[k].bonded = e.bonded + x
            /\ validators'[k].entries = e.entries
        BY <2>2, <3>1 DEF ValidatorEntry, SameRow
      <3> QED BY <1>3, <2>1, <2>4, <3>2
    <2>5. CASE k # i /\ k # j
      <3>1. validators'[k] = validators[k]
        BY <1>1, <2>5
      <3> QED BY <2>5, <3>1 DEF SameRow
    <2> QED BY <2>3, <2>4, <2>5
  <1> QED BY <1>2, <1>3, <1>4, <1>5 DEF SameRows, SameSlots, i, j, x

(* A closing keeps the rows.                                               *)
LEMMA ClosingRows ==
    ASSUME TypedQueue, NEW set \in Seq(ValidatorEntry), NEW t, NEW ws,
           TypedWindows(ws, nextWindowId), NEW r, ClosingOf(r, set, t, ws)
    PROVE  SameRows(r.set, set)
  <1>1. CASE r = StayOpen(set, t, ws)
    BY <1>1 DEF StayOpen, SameRows, SameRow
  <1>2. CASE r = CloseOpenWindow(set, t, ws)
    <2> DEFINE owed == ws[openWindow].owed
               legs == PlanUndelegation(set, owed, EntryCeiling)
    <2>1. owed \in Nat
      BY WindowFields DEF TypedQueue, TypedWindows
    <2>2. r.set = WithLegs(set, legs)
      BY <1>2 DEF CloseOpenWindow
    <2>3. legs \in [DOMAIN set -> Nat]
      BY <2>1, LegsNat
    <2> HIDE DEF legs
    <2> QED BY <2>2, <2>3, LegRows
  <1> QED BY <1>1, <1>2 DEF ClosingOf

(* A harvest, restaked or not.                                             *)
LEMMA RestakedRows ==
    ASSUME TypedParts, NEW limit \in PageLimits
    PROVE  /\ SameRows(RestakedSet(limit), validators)
           /\ SameSlots(RestakedSet(limit), validators)
           /\ \A j \in DOMAIN validators : RestakedSet(limit)[j].bonded =
                IF Harvested(limit) # 0 /\ j = RestakeIndex(limit)
                THEN HarvestedSet(limit)[j].bonded + Harvested(limit)
                ELSE HarvestedSet(limit)[j].bonded
  <1> DEFINE h == HarvestedSet(limit)
             x == Harvested(limit)
             i == RestakeIndex(limit)
             g == RestakedSet(limit)
  <1>1. h \in Seq(ValidatorEntry) /\ DOMAIN h = DOMAIN validators /\ x \in Nat
    BY HarvestTyped
  <1>2. SameRows(h, validators) /\ SameSlots(h, validators)
    BY HarvestedRows DEF TypedParts
  <1>3. g = IF x = 0 THEN h ELSE [h EXCEPT ![i].bonded = @ + x]
    BY DEF RestakedSet
  <1> HIDE DEF h, x, i, g
  <1>4. CASE x = 0
    BY <1>2, <1>3, <1>4 DEF SameRows, h, x, g
  <1>5. CASE x # 0
    <2>1. g = [h EXCEPT ![i].bonded = @ + x]
      BY <1>3, <1>5
    <2>2. /\ SameRows(g, h) /\ SameSlots(g, h)
          /\ \A j \in DOMAIN h : g[j].bonded = IF j = i THEN h[j].bonded + x ELSE h[j].bonded
      <3>1. SameRows(g, h)
        BY <1>1, <2>1, StakeRows
      <3>2. SameSlots(g, h)
        BY <1>1, <2>1, StakeRows
      <3>3. \A j \in DOMAIN h : g[j].bonded = IF j = i THEN h[j].bonded + x ELSE h[j].bonded
        BY <1>1, <2>1, StakeRows
      <3> QED BY <3>1, <3>2, <3>3
    <2>3. SameRows(g, validators) /\ SameSlots(g, validators)
      BY <1>1, <1>2, <2>2, RowsCompose DEF SameSlots
    <2> QED BY <1>1, <1>5, <2>2, <2>3 DEF g, h, x, i
  <1> QED BY <1>4, <1>5

\* Every step but an assignment of weights.
LEMMA RowsKept ==
    ASSUME TypedParts, [Next]_vars, ~ \E weights \in WeightChoices : SetWeights(weights)
    PROVE  SameRows(validators', validators)
  <1>0. TypedSet /\ TypedQueue /\ TypedChain /\ TypedWindows(windows, nextWindowId)
        /\ validators \in Seq(ValidatorEntry)
    BY DEF TypedParts, TypedSet, TypedQueue
  <1>1. ASSUME NEW seed \in Seeds, Bootstrap(seed) PROVE SameRows(validators', validators)
    <2> DEFINE i == SelectForDelegation(validators, seed)
    <2>1. validators' = [validators EXCEPT ![i].bonded = @ + seed] /\ seed \in Nat
      BY <1>1, InputsNat DEF Bootstrap
    <2> HIDE DEF i
    <2> QED BY <1>0, <2>1, StakeRows
  <1>2. ASSUME NEW u \in Users, NEW amount \in Deposits, Deposit(u, amount)
        PROVE  SameRows(validators', validators)
    <2> DEFINE i      == SelectForDelegation(RefreshedSet, amount)
               shares == SharesForDeposit(amount, DepositPool(amount))
               set    == [RefreshedSet EXCEPT ![i].bonded = @ + amount]
               t      == [RefreshedTotals EXCEPT !.bonded = @ + amount,
                                                 !.supply = @ + shares]
               r      == DepositPlaced(amount)
    <2>1. validators' = r.set /\ amount \in Nat
      BY <1>2, InputsNat DEF Deposit, Commit
    <2>2. r = CloseWindowIfOverdue(set, t, windows)
      BY DEF DepositPlaced
    <2> HIDE DEF i, t, r
    <2>3. RefreshedSet \in Seq(ValidatorEntry) /\ SameRows(RefreshedSet, validators)
      BY <1>0, RefreshTyped, PageRows DEF RefreshedSet
    <2>4. SameRows(set, RefreshedSet) /\ set \in Seq(ValidatorEntry)
      BY <2>1, <2>3, StakeRows, StakeAdded
    <2> HIDE DEF set
    <2>5. SameRows(r.set, set)
      BY <1>0, <2>2, <2>4, RidingAlongIsOne, ClosingRows
    <2> QED BY <2>1, <2>3, <2>4, <2>5, RowsCompose
  <1>3. ASSUME NEW u \in Users, NEW shares \in Requests, Unbond(u, shares)
        PROVE  SameRows(validators', validators)
    <2> DEFINE owed == AssetsForShares(shares, RequestPool)
               ws   == [windows EXCEPT ![openWindow].shares = @ + shares,
                                       ![openWindow].owed = @ + owed]
               t    == [RefreshedTotals EXCEPT !.supply = SatSub(@, shares),
                                               !.owedOpen = @ + owed]
               r    == RequestPlaced(shares)
    <2>1. validators' = r.set /\ shares \in Nat
      BY <1>3, InputsNat DEF Unbond, Commit
    <2>2. r = CloseWindowIfOverdue(RefreshedSet, t, ws)
      BY DEF RequestPlaced
    <2>3. RefreshedSet \in Seq(ValidatorEntry) /\ SameRows(RefreshedSet, validators)
          /\ RefreshedTotals \in TotalsCache
      BY <1>0, RefreshTyped, PageRows DEF RefreshedSet
    <2>4. TypedWindows(ws, nextWindowId)
      <3>1. balance \in Nat
        BY <1>0 DEF TypedChain
      <3>2. RequestPool \in PoolTotals
        BY <2>3, <3>1, PoolTyped DEF RequestPool
      <3>3. owed \in Nat
        BY <2>1, <3>2, AssetsForSharesNat
      <3> HIDE DEF owed
      <3>4. [windows[openWindow] EXCEPT !.shares = windows[openWindow].shares + shares,
                                        !.owed = windows[openWindow].owed + owed] \in AWindow
        BY <1>0, <2>1, <3>3, JoinedWindowTyped DEF TypedQueue, TypedWindows
      <3> QED BY <1>0, <3>4 DEF TypedQueue, TypedWindows
    <2> HIDE DEF t, r, ws
    <2>5. SameRows(r.set, RefreshedSet)
      BY <1>0, <2>2, <2>3, <2>4, RidingAlongIsOne, ClosingRows
    <2> QED BY <2>1, <2>3, <2>5, RowsCompose
  <1>4. ASSUME AdvanceWindow PROVE SameRows(validators', validators)
    <2>1. validators' = CloseOpenWindow(validators, totals, windows).set
      BY <1>4 DEF AdvanceWindow, Commit
    <2>2. ClosingOf(CloseOpenWindow(validators, totals, windows), validators, totals, windows)
      BY DEF ClosingOf
    <2> QED BY <1>0, <2>1, <2>2, ClosingRows
  <1>5. ASSUME NEW u \in Users, NEW list \in ClaimLists, ClaimMatured(u, list)
        PROVE  SameRows(validators', validators)
    <2>1. validators' = Released(DueWindows)
      BY <1>5 DEF ClaimMatured
    <2>2. DueWindows \in SUBSET WindowIds
      BY <1>0, WindowsTyped DEF DueWindows
    <2> QED BY <1>0, <2>1, <2>2, ReleasedRows
  <1>6. ASSUME NEW limit \in CollectLimits, CollectMatured(limit)
        PROVE  SameRows(validators', validators)
    <2>1. validators' = Released(Collected(limit))
      BY <1>6 DEF CollectMatured
    <2>2. Collected(limit) \in SUBSET WindowIds
      BY <1>0, WindowsTyped DEF Collected, DueWindows
    <2> QED BY <1>0, <2>1, <2>2, ReleasedRows
  <1>7. ASSUME NEW limit \in PageLimits, Sync(limit) PROVE SameRows(validators', validators)
    BY <1>0, <1>7, PageRows DEF Sync
  <1>8. ASSUME NEW limit \in PageLimits, Compound(limit) PROVE SameRows(validators', validators)
    BY <1>8, RestakedRows DEF Compound
  <1>9. ASSUME NEW move \in Moves, Rebalance(move) PROVE SameRows(validators', validators)
    BY <1>9, MovedRows
  <1>10. ASSUME UNCHANGED validators PROVE SameRows(validators', validators)
    BY <1>10 DEF SameRows, SameRow
  <1>11. CASE UserAction
    BY <1>1, <1>2, <1>3, <1>5, <1>11 DEF UserAction
  <1>12. CASE UpkeepAction
    BY <1>4, <1>6, <1>7, <1>8, <1>12 DEF UpkeepAction
  <1>13. CASE ManagerAction
    BY <1>9, <1>10, <1>13 DEF ManagerAction, SetPerformanceFee, SetPaused, Migrate
  <1>14. CASE ChainAction
    BY <1>10, <1>14 DEF ChainAction, NextBlock, Slash, AccrueRewards, BurnOwnShares,
       Donate, contractVars
  <1>15. CASE UNCHANGED vars
    BY <1>10, <1>15 DEF vars, contractVars
  <1> QED BY <1>11, <1>12, <1>13, <1>14, <1>15 DEF Next

-----------------------------------------------------------------------------
(* No validator is listed twice.                                           *)

Distinct(s) == \A i, j \in DOMAIN s : s[i].address = s[j].address => i = j

(* The numbering of a finite set of integers names no member twice.        *)
LEMMA NthDistinct ==
    ASSUME NEW S, IsFiniteSet(S), \A i \in S : i \in Int,
           NEW k \in 1 .. Cardinality(S), NEW l \in 1 .. Cardinality(S),
           Nth(S, k) = Nth(S, l)
    PROVE  k = l
  <1> DEFINE UpTo(i) == {j \in S : j <= i}
  <1>1. ASSUME NEW m \in 1 .. Cardinality(S) PROVE Cardinality(UpTo(Nth(S, m))) = m
    BY NthInSet
  <1>2. Cardinality(UpTo(Nth(S, k))) = k /\ Cardinality(UpTo(Nth(S, l))) = l
    BY <1>1
  <1> QED BY <1>2

(* Reweighting keeps the address of an entry, the stake and the slots.     *)
LEMMA ReweightedFields ==
    ASSUME NEW e \in ValidatorEntry, NEW weights \in Seq(ValidatorInit)
    PROVE  /\ Reweighted(e, weights).address = e.address
           /\ Reweighted(e, weights).bonded = e.bonded
           /\ Reweighted(e, weights).entries = e.entries
           /\ \/ /\ Reweighted(e, weights).status = "Active"
                 /\ \E i \in DOMAIN weights :
                      /\ weights[i].address = e.address
                      /\ Reweighted(e, weights).weight = weights[i].weight
              \/ /\ Reweighted(e, weights).status # "Active"
                 /\ Reweighted(e, weights).weight = 0
                 /\ \A i \in DOMAIN weights : weights[i].address # e.address
  <1> DEFINE chosen == {i \in DOMAIN weights : weights[i].address = e.address}
             g == Reweighted(e, weights)
  <1>1. CASE chosen # {}
    <2> DEFINE c == CHOOSE i \in chosen : TRUE
    <2>1. c \in chosen
      BY <1>1
    <2>2. g = [e EXCEPT !.weight = weights[c].weight, !.status = "Active"]
      BY <1>1 DEF Reweighted
    <2> HIDE DEF c, g
    <2>3. /\ g.address = e.address /\ g.bonded = e.bonded /\ g.entries = e.entries
          /\ g.status = "Active" /\ g.weight = weights[c].weight
      BY <2>2 DEF ValidatorEntry
    <2> QED BY <2>1, <2>3 DEF g
  <1>2. CASE chosen = {}
    <2> DEFINE st == IF e.bonded = 0 THEN "Removed" ELSE "Draining"
    <2>1. g = [e EXCEPT !.weight = 0, !.status = st]
      BY <1>2 DEF Reweighted
    <2>2. st # "Active"
      OBVIOUS
    <2> HIDE DEF g, st
    <2>3. /\ g.address = e.address /\ g.bonded = e.bonded /\ g.entries = e.entries
          /\ g.status = st /\ g.weight = 0
      BY <2>1 DEF ValidatorEntry
    <2> QED BY <1>2, <2>2, <2>3 DEF g
  <1> QED BY <1>1, <1>2

(* The two parts of the set that apply_weights answers with.               *)
LEMMA ApplyWeightsParts ==
    ASSUME NEW set \in Seq(ValidatorEntry), NEW weights \in Seq(ValidatorInit)
    PROVE  /\ Cardinality(NewIn(weights, set)) \in Nat
           /\ DOMAIN ApplyWeights(set, weights)
                = 1 .. Len(set) + Cardinality(NewIn(weights, set))
           /\ NewIn(weights, set) \in SUBSET DOMAIN weights
           /\ IsFiniteSet(NewIn(weights, set))
           /\ \A i \in NewIn(weights, set) : i \in Int
           /\ \A i \in DOMAIN set :
                ApplyWeights(set, weights)[i] = Reweighted(set[i], weights)
           /\ \A k \in 1 .. Cardinality(NewIn(weights, set)) :
                ApplyWeights(set, weights)[Len(set) + k]
                  = NewEntry(weights[Nth(NewIn(weights, set), k)])
  <1> DEFINE old == [i \in DOMAIN set |-> Reweighted(set[i], weights)]
             N == NewIn(weights, set)
             n == Cardinality(N)
             new == [k \in 1 .. n |-> NewEntry(weights[Nth(N, k)])]
  <1>1. N \in SUBSET DOMAIN weights /\ IsFiniteSet(N) /\ \A i \in N : i \in Int
    <2>1. N \in SUBSET DOMAIN weights
      BY DEF NewIn
    <2> QED BY <2>1, SetDomain, FS_Subset
  <1>2. n \in Nat
    BY <1>1, FS_CardinalityType
  <1>3. old \in Seq(ValidatorEntry) /\ Len(old) = Len(set)
        /\ \A i \in DOMAIN set : old[i] = Reweighted(set[i], weights)
    <2>1. \A i \in DOMAIN set : Reweighted(set[i], weights) \in ValidatorEntry
      BY SetDomain, ReweightedTyped
    <2>2. DOMAIN old = DOMAIN set /\ old = [i \in DOMAIN set |-> old[i]]
      OBVIOUS
    <2>3. \A i \in DOMAIN set : old[i] \in ValidatorEntry
      BY <2>1
    <2>4. \A i \in DOMAIN set : old[i] = Reweighted(set[i], weights)
      OBVIOUS
    <2> HIDE DEF old
    <2>5. old \in Seq(ValidatorEntry)
      BY <2>2, <2>3, Rewritten
    <2>6. Len(old) = Len(set)
      BY <2>2, <2>5
    <2> QED BY <2>4, <2>5, <2>6
  <1>4. new \in Seq(ValidatorEntry) /\ Len(new) = n
        /\ \A k \in 1 .. n : new[k] = NewEntry(weights[Nth(N, k)])
    <2>1. ASSUME NEW k \in 1 .. n PROVE NewEntry(weights[Nth(N, k)]) \in ValidatorEntry
      <3>1. Nth(N, k) \in DOMAIN weights
        BY <1>1, NthInSet
      <3>2. weights[Nth(N, k)] \in ValidatorInit
        BY <3>1, SetDomain
      <3> QED BY <3>2, NewEntryTyped
    <2> HIDE DEF N
    <2> QED BY <1>2, <2>1
  <1>5. ApplyWeights(set, weights) = old \o new
    BY DEF ApplyWeights
  <1> HIDE DEF old, new, n, N
  <1>6. DOMAIN set = 1 .. Len(set) /\ Len(set) \in Nat
    BY SetDomain
  <1>7. DOMAIN (old \o new) = 1 .. Len(set) + n
        /\ \A i \in DOMAIN set : (old \o new)[i] = old[i]
        /\ \A k \in 1 .. n : (old \o new)[Len(set) + k] = new[k]
    <2>1. DOMAIN (old \o new) = 1 .. Len(set) + n
      <3>0. old \in Seq(ValidatorEntry) /\ new \in Seq(ValidatorEntry)
        BY <1>3, <1>4
      <3>1. (old \o new) \in Seq(ValidatorEntry) /\ Len(old \o new) = Len(old) + Len(new)
        <4>1. (old \o new) \in Seq(ValidatorEntry)
          BY <3>0
        <4>2. Len(old \o new) = Len(old) + Len(new)
          BY <3>0
        <4> QED BY <4>1, <4>2
      <3>2. DOMAIN (old \o new) = 1 .. Len(old \o new)
        BY <3>1, SetDomain
      <3> QED BY <1>3, <1>4, <3>1, <3>2
    <2>2. ASSUME NEW i \in DOMAIN set PROVE (old \o new)[i] = old[i]
      BY <1>2, <1>3, <1>4, <1>6
    <2>3. ASSUME NEW k \in 1 .. n PROVE (old \o new)[Len(set) + k] = new[k]
      BY <1>2, <1>3, <1>4, <1>6
    <2> QED BY <2>1, <2>2, <2>3
  <1>8. \A i \in DOMAIN set : ApplyWeights(set, weights)[i] = Reweighted(set[i], weights)
    BY <1>3, <1>5, <1>7
  <1>9. \A k \in 1 .. n :
          ApplyWeights(set, weights)[Len(set) + k] = NewEntry(weights[Nth(N, k)])
    BY <1>4, <1>5, <1>7
  <1> QED BY <1>1, <1>2, <1>5, <1>7, <1>8, <1>9 DEF n, N

(* An assignment keeps the set free of repeats: it appends whoever has no  *)
(* entry yet, and no assignment names a validator twice (validate_set).    *)
LEMMA ApplyWeightsDistinct ==
    ASSUME NEW set \in Seq(ValidatorEntry), NEW weights \in Seq(ValidatorInit),
           Distinct(set), ValidateSet(weights)
    PROVE  Distinct(ApplyWeights(set, weights))
  <1> DEFINE N == NewIn(weights, set)
             n == Cardinality(N)
             g == ApplyWeights(set, weights)
             m == Len(set)
  <1>1. /\ n \in Nat /\ DOMAIN g = 1 .. m + n /\ m \in Nat /\ DOMAIN set = 1 .. m
        /\ N \in SUBSET DOMAIN weights /\ IsFiniteSet(N) /\ \A i \in N : i \in Int
    BY ApplyWeightsParts, SetDomain
  <1>2. \A i \in 1 .. m : g[i].address = set[i].address
    <2>1. ASSUME NEW i \in 1 .. m PROVE g[i].address = set[i].address
      <3>1. i \in DOMAIN set /\ set[i] \in ValidatorEntry
        BY <1>1, SetDomain
      <3>2. g[i] = Reweighted(set[i], weights)
        BY <3>1, ApplyWeightsParts
      <3> QED BY <3>1, <3>2, ReweightedFields
    <2> QED BY <2>1
  <1>3. ASSUME NEW k \in 1 .. n
        PROVE  Nth(N, k) \in N /\ g[m + k].address = weights[Nth(N, k)].address
    <2>1. Nth(N, k) \in N
      BY <1>1, NthInSet
    <2>2. g[m + k] = NewEntry(weights[Nth(N, k)])
      BY ApplyWeightsParts
    <2> QED BY <2>1, <2>2 DEF NewEntry
  <1>4. \A k \in 1 .. n, i \in 1 .. m : g[m + k].address # set[i].address
    BY <1>1, <1>3 DEF NewIn, AddressesIn
  <1>5. ASSUME NEW k \in 1 .. n, NEW l \in 1 .. n, g[m + k].address = g[m + l].address
        PROVE  k = l
    <2>1. Nth(N, k) \in DOMAIN weights /\ Nth(N, l) \in DOMAIN weights
          /\ weights[Nth(N, k)].address = weights[Nth(N, l)].address
      BY <1>1, <1>3, <1>5
    <2>2. Nth(N, k) = Nth(N, l)
      BY <2>1 DEF ValidateSet, IsInjective
    <2> QED BY <1>1, <2>2, NthDistinct
  <1> HIDE DEF g, n, m, N
  <1>6. ASSUME NEW i \in 1 .. m + n, ~ (i <= m) PROVE i - m \in 1 .. n /\ i = m + (i - m)
    BY <1>1, <1>6
  <1>7. ASSUME NEW i \in 1 .. m + n, NEW j \in 1 .. m + n, g[i].address = g[j].address
        PROVE  i = j
    <2>1. CASE i <= m /\ j <= m
      BY <1>1, <1>2, <1>7, <2>1 DEF Distinct
    <2>2. CASE i <= m /\ ~ (j <= m)
      <3>1. j - m \in 1 .. n /\ j = m + (j - m) /\ i \in 1 .. m
        BY <1>1, <1>6, <2>2
      <3> QED BY <1>2, <1>4, <1>7, <3>1
    <2>3. CASE ~ (i <= m) /\ j <= m
      <3>1. i - m \in 1 .. n /\ i = m + (i - m) /\ j \in 1 .. m
        BY <1>1, <1>6, <2>3
      <3> QED BY <1>2, <1>4, <1>7, <3>1
    <2>4. CASE ~ (i <= m) /\ ~ (j <= m)
      <3>1. /\ i - m \in 1 .. n /\ i = m + (i - m) /\ j - m \in 1 .. n /\ j = m + (j - m)
        BY <1>6, <2>4
      <3>2. i - m = j - m
        BY <1>5, <1>7, <3>1
      <3> QED BY <3>1, <3>2
    <2> QED BY <2>1, <2>2, <2>3, <2>4
  <1> QED BY <1>1, <1>7 DEF Distinct, g

\* No step repeats an address in the set.
LEMMA DistinctStep == ASSUME TypedParts, Distinct(validators), [Next]_vars PROVE Distinct(validators')
  <1>1. CASE \E weights \in WeightChoices : SetWeights(weights)
    <2>1. PICK weights \in WeightChoices : SetWeights(weights)
      BY <1>1
    <2>2. /\ validators' = ApplyWeights(validators, weights) /\ ValidateSet(weights)
          /\ weights \in Seq(ValidatorInit) /\ validators \in Seq(ValidatorEntry)
      BY <2>1, InputsNat DEF SetWeights, ValidateManagedWeights, TypedParts, TypedSet
    <2> QED BY <2>2, ApplyWeightsDistinct
  <1>2. CASE ~ \E weights \in WeightChoices : SetWeights(weights)
    <2>1. SameRows(validators', validators)
      BY <1>2, RowsKept
    <2> QED BY <2>1 DEF SameRows, SameRow, Distinct
  <1> QED BY <1>1, <1>2

\* Reached states are typed and their entries distinct.
LEMMA DistinctAlways == Spec => [](TypeInv /\ Distinct(validators))
  <1>1. Init => Distinct(validators)
    <2> SUFFICES ASSUME Init PROVE Distinct(validators)
      OBVIOUS
    <2>1. validators = [i \in DOMAIN InitialWeights |-> NewEntry(InitialWeights[i])]
      BY DEF Init, InitialValidatorSet
    <2>2. \A i \in DOMAIN InitialWeights : validators[i].address = InitialWeights[i].address
      BY <2>1 DEF NewEntry
    <2>3. ValidateSet(InitialWeights)
      BY WeightsAreValid DEF ValidateManagedWeights
    <2> QED BY <2>1, <2>2, <2>3 DEF Distinct, ValidateSet, IsInjective
  <1>2. TypeInv /\ Distinct(validators) /\ [Next]_vars => Distinct(validators')
    BY DistinctStep, PartsMakeTypeInv
  <1>3. Distinct(validators)' <=> Distinct(validators')
    BY DEF Distinct
  <1> QED BY <1>1, <1>2, <1>3, TypeInvAlways, PTL DEF Spec

(* No validator is listed twice, however often the manager reassigns       *)
(* (apply_weights, validate_set).                                          *)
THEOREM EntriesAlwaysUnique == Spec => []EntriesAreUnique
  <1>1. Distinct(validators) => EntriesAreUnique
    BY DEF Distinct, EntriesAreUnique, IsInjective
  <1> QED BY <1>1, DistinctAlways, PTL

-----------------------------------------------------------------------------
(* The cursor stays inside the set, and a sweep is fresh at its end.       *)

CursorInside == cursor < Len(validators)

\* An entry once listed stays.
LEMMA SetGrows ==
    ASSUME TypedParts, [Next]_vars
    PROVE  /\ Len(validators) \in Nat /\ Len(validators') \in Nat
           /\ Len(validators) <= Len(validators')
  <1>1. validators \in Seq(ValidatorEntry) /\ Len(validators) \in Nat
        /\ DOMAIN validators = 1 .. Len(validators)
    BY SetDomain DEF TypedParts, TypedSet
  <1>2. validators' \in Seq(ValidatorEntry)
    <2>1. TypedParts'
      BY PartsStep
    <2> QED BY <2>1 DEF TypedParts, TypedSet
  <1>3. Len(validators') \in Nat /\ DOMAIN validators' = 1 .. Len(validators')
    BY <1>2, SetDomain
  <1>4. CASE \E weights \in WeightChoices : SetWeights(weights)
    <2>1. PICK weights \in WeightChoices : SetWeights(weights)
      BY <1>4
    <2> DEFINE n == Cardinality(NewIn(weights, validators))
    <2>2. /\ validators' = ApplyWeights(validators, weights)
          /\ weights \in Seq(ValidatorInit)
      BY <2>1, InputsNat DEF SetWeights
    <2>3. n \in Nat /\ DOMAIN validators' = 1 .. Len(validators) + n
      BY <1>1, <2>2, ApplyWeightsParts
    <2> HIDE DEF n
    <2> QED BY <1>1, <1>3, <2>3
  <1>5. CASE ~ \E weights \in WeightChoices : SetWeights(weights)
    <2>1. DOMAIN validators' = DOMAIN validators
      BY <1>5, RowsKept DEF SameRows
    <2> QED BY <1>1, <1>3, <2>1
  <1> QED BY <1>1, <1>3, <1>4, <1>5

\* A page moves the cursor inside the set, and to its start when it ends a sweep.
LEMMA CursorMoves ==
    ASSUME TypedParts, CursorInside, NEW limit \in PageLimits
    PROVE  /\ NextCursor(limit) \in Nat /\ NextCursor(limit) < Len(validators)
           /\ SweepDone(limit) => NextCursor(limit) = 0
  <1>1. PageEnd(limit) \in Nat /\ Len(validators) \in Nat /\ cursor \in Nat
    BY PagesInside, SetDomain DEF TypedParts, TypedSet
  <1>2. NextCursor(limit) = IF SweepDone(limit) THEN 0 ELSE PageEnd(limit)
    BY DEF NextCursor
  <1>3. SweepDone(limit) <=> PageEnd(limit) >= Len(validators)
    BY DEF SweepDone
  <1> QED BY <1>1, <1>2, <1>3 DEF CursorInside

\* What a step does to the cursor and to the stamp.
LEMMA SweepStep ==
    ASSUME TypedParts, CursorInside, [Next]_vars
    PROVE  /\ cursor' \in 0 .. Len(validators') - 1
           /\ (/\ totals'.lastSync # totals.lastSync
               /\ ~PricedStep
               /\ config'.bootstrapped = config.bootstrapped) => cursor' = 0
  <1> DEFINE Quiet == /\ totals'.lastSync # totals.lastSync
                      /\ ~PricedStep
                      /\ config'.bootstrapped = config.bootstrapped
  <1>0. /\ totals \in TotalsCache /\ config \in Config /\ TypedSeen /\ cursor \in Nat
        /\ Len(validators) \in Nat
    BY SetGrows DEF TypedParts, TypedConfig, TypedSet
  <1>1. ASSUME cursor' \in Nat, cursor' < Len(validators)
        PROVE  cursor' \in 0 .. Len(validators') - 1
    BY <1>1, SetGrows
  <1>2. ASSUME NEW limit \in PageLimits, cursor' = NextCursor(limit),
               totals'.lastSync = IF SweepDone(limit) THEN now ELSE totals.lastSync
        PROVE  cursor' \in 0 .. Len(validators') - 1 /\ (Quiet => cursor' = 0)
    BY <1>1, <1>2, CursorMoves
  <1>3. ASSUME NEW limit \in PageLimits, Sync(limit)
        PROVE  cursor' \in 0 .. Len(validators') - 1 /\ (Quiet => cursor' = 0)
    <2> DEFINE b == TotalBonded(ReadPage(Page(limit)))
               p == TotalPending(ReadPage(Page(limit)))
               s == IF SweepDone(limit) THEN MirroredSupply ELSE totals.supply
               l == IF SweepDone(limit) THEN now ELSE totals.lastSync
    <2>1. /\ totals' = [totals EXCEPT !.bonded = b, !.pending = p, !.supply = s,
                                      !.lastSync = l]
          /\ cursor' = NextCursor(limit)
      BY <1>3 DEF Sync
    <2> HIDE DEF b, p, s
    <2>2. totals'.lastSync = l
      <3> HIDE DEF l
      <3> QED BY <1>0, <2>1 DEF TotalsCache
    <2> QED BY <1>2, <2>1, <2>2
  <1>4. ASSUME NEW limit \in PageLimits, Compound(limit)
        PROVE  cursor' \in 0 .. Len(validators') - 1 /\ (Quiet => cursor' = 0)
    <2> DEFINE b == TotalBonded(RestakedSet(limit))
               p == TotalPending(RestakedSet(limit))
               f == FeeShares(limit)
               l == IF SweepDone(limit) THEN now ELSE totals.lastSync
    <2>1. /\ totals' = [totals EXCEPT !.bonded = b, !.pending = p, !.supply = @ + f,
                                      !.lastSync = l]
          /\ cursor' = NextCursor(limit)
      BY <1>4 DEF Compound, TotalsAfterCompound
    <2> HIDE DEF b, p, f
    <2>2. totals'.lastSync = l
      <3> HIDE DEF l
      <3> QED BY <1>0, <2>1 DEF TotalsCache
    <2> QED BY <1>2, <2>1, <2>2
  <1>5. ASSUME cursor' = cursor, ~Quiet
        PROVE  cursor' \in 0 .. Len(validators') - 1 /\ (Quiet => cursor' = 0)
    BY <1>0, <1>1, <1>5 DEF CursorInside
  <1>6. ASSUME NEW seed \in Seeds, Bootstrap(seed) PROVE cursor' = cursor /\ ~Quiet
    BY <1>0, <1>6 DEF Bootstrap, Config
  <1>7. ASSUME NEW u \in Users, NEW amount \in Deposits, Deposit(u, amount)
        PROVE  cursor' = cursor /\ ~Quiet
    <2>1. seen'["deposits"] # seen["deposits"]
      BY <1>0, <1>7 DEF Deposit, Count, TypedSeen, Events
    <2> QED BY <1>7, <2>1 DEF Deposit, PricedStep
  <1>8. ASSUME NEW u \in Users, NEW shares \in Requests, Unbond(u, shares)
        PROVE  cursor' = cursor /\ ~Quiet
    <2>1. seen'["requests"] # seen["requests"]
      BY <1>0, <1>8 DEF Unbond, Count, TypedSeen, Events
    <2> QED BY <1>8, <2>1 DEF Unbond, PricedStep
  <1>9. ASSUME NEW u \in Users, NEW list \in ClaimLists, ClaimMatured(u, list)
        PROVE  cursor' = cursor /\ ~Quiet
    <2> DEFINE paid == PaidTo(u, ClaimIds(u, list))
               t == LiabilityArrived(DueWindows)
    <2>1. totals' = [t EXCEPT !.owedMatured = SatSub(@, paid)] /\ cursor' = cursor
      BY <1>9 DEF ClaimMatured
    <2>2. t.lastSync = totals.lastSync /\ DOMAIN t = DOMAIN totals
      BY <1>0 DEF LiabilityArrived, TotalsCache
    <2> HIDE DEF t, paid
    <2>3. totals'.lastSync = t.lastSync
      BY <1>0, <2>1, <2>2 DEF TotalsCache
    <2> QED BY <2>1, <2>2, <2>3
  <1>10. ASSUME AdvanceWindow PROVE cursor' = cursor /\ ~Quiet
    <2>1. totals' = CloseOpenWindow(validators, totals, windows).totals /\ cursor' = cursor
      BY <1>10 DEF AdvanceWindow, Commit
    <2>2. ClosingOf(CloseOpenWindow(validators, totals, windows), validators, totals, windows)
      BY DEF ClosingOf
    <2>3. totals'.lastSync = totals.lastSync
      BY <1>0, <2>1, <2>2, ClosingTotals
    <2> QED BY <2>1, <2>3
  <1>11. ASSUME NEW limit \in CollectLimits, CollectMatured(limit)
         PROVE  cursor' = cursor /\ ~Quiet
    <2>1. totals' = LiabilityArrived(Collected(limit)) /\ cursor' = cursor
      BY <1>11 DEF CollectMatured
    <2>2. totals'.lastSync = totals.lastSync
      BY <1>0, <2>1 DEF LiabilityArrived, TotalsCache
    <2> QED BY <2>1, <2>2
  <1>12. CASE cursor' = cursor /\ totals' = totals
    BY <1>5, <1>12
  <1>13. CASE UserAction
    BY <1>5, <1>6, <1>7, <1>8, <1>9, <1>13 DEF UserAction
  <1>14. CASE UpkeepAction
    BY <1>3, <1>4, <1>5, <1>10, <1>11, <1>14 DEF UpkeepAction
  <1>15. CASE ManagerAction
    BY <1>12, <1>15 DEF ManagerAction, SetWeights, SetPerformanceFee, Rebalance,
       SetPaused, Migrate
  <1>16. CASE ChainAction
    BY <1>12, <1>16 DEF ChainAction, NextBlock, Slash, AccrueRewards, BurnOwnShares,
       Donate, contractVars
  <1>17. CASE UNCHANGED vars
    BY <1>12, <1>17 DEF vars, contractVars
  <1> QED BY <1>13, <1>14, <1>15, <1>16, <1>17 DEF Next

(* Pages of upkeep stay inside the set, and the stamp of the last sync     *)
(* moves only with the end of a sweep (SYNC_CURSOR in execute_sync and     *)
(* execute_compound), or with a whole-set reading.                         *)
THEOREM SweepsEndFresh == Spec => FreshOnlyAfterWholeSweep
  <1>1. Init => CursorInside
    <2> SUFFICES ASSUME Init PROVE CursorInside
      OBVIOUS
    <2>1. InitialWeights # << >> /\ InitialWeights \in Seq(ValidatorInit)
      BY WeightsAreValid, ConstantsAreTyped DEF ValidateManagedWeights, ValidateSet
    <2>2. validators = [i \in DOMAIN InitialWeights |-> NewEntry(InitialWeights[i])]
          /\ cursor = 0
      BY DEF Init, InitialValidatorSet
    <2>3. validators \in Seq(ValidatorEntry)
      BY InitialSetTyped, ConstantsAreTyped DEF Init
    <2>4. Len(validators) = Len(InitialWeights) /\ Len(InitialWeights) > 0
      BY <2>1, <2>2, <2>3
    <2> QED BY <2>2, <2>4 DEF CursorInside
  <1>2. TypeInv /\ CursorInside /\ [Next]_vars => CursorInside'
    <2> SUFFICES ASSUME TypedParts, CursorInside, [Next]_vars PROVE CursorInside'
      BY PartsMakeTypeInv
    <2> QED BY SweepStep, SetGrows DEF CursorInside
  <1>3. Spec => [](TypeInv /\ CursorInside)
    BY <1>1, <1>2, TypeInvAlways, PTL DEF Spec
  <1>4. TypeInv /\ CursorInside /\ [Next]_vars =>
          (/\ cursor' \in 0 .. Len(validators') - 1
           /\ (/\ totals'.lastSync # totals.lastSync
               /\ ~PricedStep
               /\ config'.bootstrapped = config.bootstrapped) => cursor' = 0)
    BY SweepStep, PartsMakeTypeInv
  <1> QED BY <1>3, <1>4, PTL DEF Spec, FreshOnlyAfterWholeSweep

-----------------------------------------------------------------------------
(* Whoever is being drained gains nothing.                                 *)

\* The status looked up for a listed validator is its entry's.
LEMMA StatusFound ==
    ASSUME Distinct(validators), NEW i \in DOMAIN validators
    PROVE  StatusOf(validators[i].address) = validators[i].status
  <1> DEFINE v == validators[i].address
  <1>1. v \in AddressesIn(validators)
    BY DEF AddressesIn
  <1>2. IndexOf(v) \in DOMAIN validators /\ validators[IndexOf(v)].address = v
    BY DEF IndexOf
  <1>3. IndexOf(v) = i
    BY <1>2 DEF Distinct
  <1> QED BY <1>1, <1>3 DEF StatusOf

\* New stake is placed with a validator that is active.
LEMMA PlacedWithActive ==
    ASSUME TypedParts, Distinct(validators), NEW set \in Seq(ValidatorEntry),
           SameRows(set, validators), NEW x \in Nat, AcceptsStake(set) # {}
    PROVE  /\ SelectForDelegation(set, x) \in DOMAIN validators
           /\ StatusOf(validators[SelectForDelegation(set, x)].address) = "Active"
           /\ set[SelectForDelegation(set, x)].address
                = validators[SelectForDelegation(set, x)].address
  <1> DEFINE i == SelectForDelegation(set, x)
  <1>1. i \in AcceptsStake(set)
    BY SelectsActive
  <1>2. i \in DOMAIN set /\ set[i].status = "Active"
    BY <1>1 DEF AcceptsStake
  <1>3. i \in DOMAIN validators /\ SameRow(set[i], validators[i])
    BY <1>2 DEF SameRows
  <1> HIDE DEF i
  <1>4. validators[i].status = "Active" /\ set[i].address = validators[i].address
    BY <1>2, <1>3 DEF SameRow
  <1> QED BY <1>3, <1>4, StatusFound DEF i

(* Only deposits and requests move their counters.                         *)
LEMMA PricedSteps ==
    ASSUME TypedParts, [Next]_vars, PricedStep
    PROVE  \/ \E u \in Users, amount \in Deposits : Deposit(u, amount)
           \/ \E u \in Users, shares \in Requests : Unbond(u, shares)
  <1>0. TypedSeen
    BY DEF TypedParts
  <1>1. ASSUME NEW event \in Events \ {"deposits", "requests"}, Count(event) PROVE FALSE
    BY <1>0, <1>1 DEF Count, TypedSeen, Events, PricedStep
  <1>2. ~ (seen' = seen)
    BY DEF PricedStep
  <1>3. {"migrations", "slashes", "accruals", "burns", "donations"}
          \subseteq Events \ {"deposits", "requests"}
    BY DEF Events
  <1>4. CASE UserAction
    BY <1>2, <1>4 DEF UserAction, Bootstrap, ClaimMatured
  <1>5. CASE UpkeepAction
    BY <1>2, <1>5 DEF UpkeepAction, AdvanceWindow, CollectMatured, Sync, Compound, chainVars
  <1>6. CASE ManagerAction
    BY <1>1, <1>2, <1>3, <1>6 DEF ManagerAction, SetWeights, SetPerformanceFee,
       Rebalance, SetPaused, Migrate, chainVars
  <1>7. CASE ChainAction
    BY <1>1, <1>2, <1>3, <1>7 DEF ChainAction, NextBlock, Slash, AccrueRewards,
       BurnOwnShares, Donate
  <1>8. CASE UNCHANGED vars
    BY <1>2, <1>8 DEF vars, chainVars
  <1> QED BY <1>4, <1>5, <1>6, <1>7, <1>8 DEF Next

\* A validator that a priced step or a sweep gives stake is active.
LEMMA GainersAreActive ==
    ASSUME TypedParts, Distinct(validators), [Next]_vars,
           PricedStep \/ (\E limit \in PageLimits : Compound(limit)),
           NEW v \in Validators, delegated'[v] > delegated[v]
    PROVE  StatusOf(v) = "Active"
  <1>0. delegated \in [Validators -> Nat] /\ TypedQueue /\ TypedSet /\ TypedChain
    BY DEF TypedParts, TypedChain
  <1>1. ASSUME NEW u \in Users, NEW shares \in Requests, Unbond(u, shares) PROVE FALSE
    <2> DEFINE r == RequestPlaced(shares)
    <2>1. Undelegated(r, delegated)
      BY <1>1 DEF Unbond
    <2> HIDE DEF r
    <2>2. delegated'[v] = delegated[v] - Leaving(r, v)
      BY <2>1 DEF Undelegated
    <2>3. Leaving(r, v) \in Nat
      BY <1>1, RequestTyped, LeavingNat DEF r
    <2> QED BY <1>0, <2>2, <2>3
  <1>2. ASSUME NEW u \in Users, NEW amount \in Deposits, Deposit(u, amount)
        PROVE  StatusOf(v) = "Active"
    <2> DEFINE r == DepositPlaced(amount)
               staked == DepositStaked(amount)
    <2>1. Undelegated(r, staked) /\ AcceptsStake(RefreshedSet) # {} /\ amount \in Nat
      BY <1>2, InputsNat DEF Deposit, DepositAccepted
    <2>2. Leaving(r, v) \in Nat
      BY <2>1, DepositTyped, LeavingNat
    <2> HIDE DEF r
    <2>3. delegated'[v] = staked[v] - Leaving(r, v)
      BY <2>1 DEF Undelegated
    <2>4. staked[v] = IF v = DepositTarget(amount) THEN delegated[v] + amount
                      ELSE delegated[v]
      BY <1>0 DEF DepositStaked
    <2>5. v = DepositTarget(amount)
      BY <1>0, <2>2, <2>3, <2>4
    <2>6. RefreshedSet \in Seq(ValidatorEntry) /\ SameRows(RefreshedSet, validators)
      BY <1>0, RefreshTyped, PageRows DEF RefreshedSet
    <2> QED BY <2>1, <2>5, <2>6, PlacedWithActive DEF DepositTarget
  <1>3. ASSUME NEW limit \in PageLimits, Compound(limit) PROVE StatusOf(v) = "Active"
    <2>1. delegated'[v] = delegated[v] + IF v \in RestakedAt(limit)
                                         THEN Harvested(limit) ELSE 0
      BY <1>3 DEF Compound
    <2>2. v \in RestakedAt(limit)
      BY <1>0, <2>1
    <2>3. Harvested(limit) # 0 /\ v = validators[RestakeIndex(limit)].address
      BY <2>2 DEF RestakedAt
    <2>4. /\ HarvestedSet(limit) \in Seq(ValidatorEntry) /\ Harvested(limit) \in Nat
          /\ SameRows(HarvestedSet(limit), validators)
      BY <1>0, HarvestTyped, HarvestedRows
    <2>6. Harvested(limit) > 0
      BY <2>3, <2>4
    <2>7. Harvested(limit) > 0 => AcceptsStake(HarvestedSet(limit)) # {}
      BY <1>3 DEF Compound
    <2>5. AcceptsStake(HarvestedSet(limit)) # {}
      BY <2>6, <2>7
    <2> QED BY <2>3, <2>4, <2>5, PlacedWithActive DEF RestakeIndex
  <1> QED BY <1>1, <1>2, <1>3, PricedSteps

(* Deposits and harvests reach active validators only: a validator that is *)
(* being drained gains stake by no hand but the manager's                  *)
(* (select_for_delegation).                                                *)
THEOREM DrainedGainNothing == Spec => DrainingGainsNothing
  <1>1. TypeInv /\ Distinct(validators) /\ [Next]_vars =>
          (PricedStep \/ (\E limit \in PageLimits : Compound(limit)) =>
             \A v \in Validators :
                 delegated'[v] > delegated[v] => StatusOf(v) = "Active")
    BY GainersAreActive, PartsMakeTypeInv
  <1> QED BY <1>1, DistinctAlways, PTL DEF Spec, DrainingGainsNothing

-----------------------------------------------------------------------------
(* The slots.  An entry's counter is the number of windows in flight that  *)
(* use it; for an entry yet to be appended that number must be zero, which *)
(* is so because whatever is in flight uses listed validators only.        *)

UsesOf(ws, a) == {id \in DOMAIN ws : ws[id].state = "Unbonding" /\ a \in ws[id].used}

SlotsMatch(set, ws) ==
    \A i \in DOMAIN set :
        /\ set[i].entries = Cardinality(UsesOf(ws, set[i].address))
        /\ set[i].entries <= EntryCeiling

UsedListed(set, ws) ==
    \A id \in DOMAIN ws :
        ws[id].state = "Unbonding" => ws[id].used \subseteq AddressesIn(set)

Occupied(set, ws) == SlotsMatch(set, ws) /\ UsedListed(set, ws)

(* What reads neither rows nor slots of the set disturbs nothing.          *)
LEMMA OccupiedKept ==
    ASSUME NEW set, NEW new, NEW ws, Occupied(set, ws), SameRows(new, set), SameSlots(new, set)
    PROVE  Occupied(new, ws)
  <1>1. SlotsMatch(new, ws)
    BY DEF Occupied, SlotsMatch, SameRows, SameRow, SameSlots
  <1>2. AddressesIn(new) = AddressesIn(set)
    BY DEF AddressesIn, SameRows, SameRow
  <1> QED BY <1>1, <1>2 DEF Occupied, UsedListed

(* A leg goes to a candidate, so its slot fits under the ceiling, and      *)
(* nothing is taken for an amount of zero.                                 *)
LEMMA LegsUseCandidates ==
    ASSUME NEW set \in Seq(ValidatorEntry), NEW amount \in Nat, NEW ceiling,
           NEW i \in DOMAIN set, PlanUndelegation(set, amount, ceiling)[i] > 0
    PROVE  set[i].entries < ceiling /\ amount > 0
  <1> DEFINE C == UnbondCandidates(set, ceiling)
             Ahead == {j \in C : DrainsBefore(set, TotalBonded(set), j, i)}
             b == BondedAt(set, Ahead)
  <1>1. PlanUndelegation(set, amount, ceiling)[i]
          = IF i \in C THEN Min2(set[i].bonded, SatSub(amount, b)) ELSE 0
    BY DEF PlanUndelegation
  <1>2. b \in Nat
    <2>1. Ahead \in SUBSET DOMAIN set
      BY DEF UnbondCandidates
    <2> QED BY <2>1, StakesNat
  <1>3. set[i].bonded \in Nat
    BY SetDomain, EntryFields
  <1>4. i \in C
    BY <1>1
  <1>5. set[i].entries < ceiling
    BY <1>4 DEF UnbondCandidates
  <1> HIDE DEF b, C
  <1>6. Min2(set[i].bonded, SatSub(amount, b)) > 0
    BY <1>1, <1>4
  <1>7. amount > 0
    BY <1>2, <1>3, <1>6 DEF Min2, SatSub
  <1> QED BY <1>5, <1>7

(* The state and the addresses of a window that closes.                    *)
LEMMA ClosedUses ==
    ASSUME NEW u \in AWindow, NEW time, NEW secs
    PROVE  /\ Close(u, time, secs).used = u.used
           /\ Close(u, time, secs).state = IF u.owed = 0 THEN "Settled" ELSE "Unbonding"
  <1>1. CASE u.owed = 0
    BY <1>1 DEF Close, AWindow, UnbondWindow
  <1>2. CASE u.owed # 0
    BY <1>2 DEF Close, AWindow, UnbondWindow
  <1> QED BY <1>1, <1>2

(* A closing occupies a slot at each entry it takes from.                  *)
LEMMA ClosingOccupies ==
    ASSUME TypedQueue, openWindow = nextWindowId - 1, nextWindowId \in Nat \ {0},
           NEW set \in Seq(ValidatorEntry), Distinct(set), NEW t, NEW ws,
           TypedWindows(ws, nextWindowId), ws[openWindow].state = "Open",
           Occupied(set, ws), NEW r, ClosingOf(r, set, t, ws)
    PROVE  Occupied(r.set, r.windows)
  <1>1. CASE r = StayOpen(set, t, ws)
    BY <1>1 DEF StayOpen
  <1>2. CASE r = CloseOpenWindow(set, t, ws)
    <2> DEFINE w    == ws[openWindow]
               legs == PlanUndelegation(set, w.owed, EntryCeiling)
               used == UsedBy(set, legs)
               c    == Close([w EXCEPT !.used = used], now, UnbondingPeriod)
               n    == WindowOpen(now, WindowLength)
               new  == WithLegs(set, legs)
               after == r.windows
    <2>1. /\ r.set = new
          /\ after = [id \in 0 .. nextWindowId |->
                        CASE id = nextWindowId -> n
                          [] id = openWindow   -> c
                          [] OTHER             -> ws[id]]
      BY <1>2 DEF CloseOpenWindow
    <2>2. /\ DOMAIN ws = 0 .. nextWindowId - 1 /\ w \in AWindow /\ openWindow \in DOMAIN ws
          /\ w.owed \in Nat
      BY WindowFields DEF TypedWindows
    <2>3. legs \in [DOMAIN set -> Nat] /\ n.state = "Open"
      BY <2>2, LegsNat DEF WindowOpen
    <2>4. used \in SUBSET Validators
      BY SetDomain, EntryFields DEF UsedBy
    <2>5. c.used = used /\ c.state = IF w.owed = 0 THEN "Settled" ELSE "Unbonding"
      <3> DEFINE u == [w EXCEPT !.used = used]
      <3>1. u \in AWindow /\ u.used = used /\ u.owed = w.owed
        <4> HIDE DEF used, w
        <4> QED BY <2>2, <2>4 DEF AWindow, UnbondWindow
      <3>2. c = Close(u, now, UnbondingPeriod)
        OBVIOUS
      <3> HIDE DEF u, c
      <3> QED BY <3>1, <3>2, ClosedUses
    <2>6. /\ DOMAIN after = 0 .. nextWindowId /\ after[nextWindowId] = n
          /\ after[openWindow] = c
          /\ \A id \in DOMAIN ws \ {openWindow} : after[id] = ws[id]
      BY <2>1, <2>2
    <2>7. SameRows(new, set)
      BY <2>3, LegRows
    <2>8. ASSUME NEW i \in DOMAIN set
          PROVE  /\ new[i].entries = IF legs[i] > 0 THEN set[i].entries + 1 ELSE set[i].entries
                 /\ set[i].entries \in Nat
                 /\ legs[i] > 0 => set[i].entries < EntryCeiling /\ w.owed > 0
                 /\ set[i].address \in used <=> legs[i] > 0
      <3>1. new[i].entries = IF legs[i] > 0 THEN set[i].entries + 1 ELSE set[i].entries
        BY <2>3, LegRows
      <3>2. legs[i] > 0 => set[i].entries < EntryCeiling /\ w.owed > 0
        BY <2>2, LegsUseCandidates
      <3>3. set[i].address \in used <=> legs[i] > 0
        <4> HIDE DEF legs
        <4> QED BY <2>3 DEF UsedBy, Distinct
      <3>4. set[i].entries \in Nat
        BY SetDomain, EntryFields
      <3> QED BY <3>1, <3>2, <3>3, <3>4
    <2>9. AddressesIn(new) = AddressesIn(set) /\ used \subseteq AddressesIn(set)
      <3>1. AddressesIn(new) = AddressesIn(set)
        BY <2>7 DEF AddressesIn, SameRows, SameRow
      <3>2. used \subseteq AddressesIn(set)
        BY DEF UsedBy, AddressesIn
      <3> QED BY <3>1, <3>2
    <2> HIDE DEF legs, used, c, n, new, after
    <2>10. ASSUME NEW a
           PROVE  UsesOf(after, a) = IF w.owed > 0 /\ a \in used
                                     THEN UsesOf(ws, a) \cup {openWindow} ELSE UsesOf(ws, a)
      <3>1. openWindow \notin UsesOf(ws, a) /\ nextWindowId \notin UsesOf(after, a)
        BY <2>3, <2>6 DEF UsesOf
      <3>2. \A id \in DOMAIN ws \ {openWindow} : id \in UsesOf(after, a) <=> id \in UsesOf(ws, a)
        BY <2>2, <2>6 DEF UsesOf
      <3>3. openWindow \in UsesOf(after, a) <=> w.owed > 0 /\ a \in used
        BY <2>2, <2>5, <2>6 DEF UsesOf
      <3>4. UsesOf(ws, a) \subseteq DOMAIN ws /\ UsesOf(after, a) \subseteq DOMAIN ws \cup {nextWindowId}
        BY <2>2, <2>6 DEF UsesOf
      <3>5. CASE w.owed > 0 /\ a \in used
        <4>1. UsesOf(after, a) = UsesOf(ws, a) \cup {openWindow}
          BY <2>2, <3>1, <3>2, <3>3, <3>4, <3>5
        <4> QED BY <3>5, <4>1
      <3>6. CASE ~ (w.owed > 0 /\ a \in used)
        <4>0. openWindow \notin UsesOf(after, a)
          BY <3>3, <3>6
        <4>2. ASSUME NEW id PROVE id \in UsesOf(after, a) <=> id \in UsesOf(ws, a)
          BY <3>1, <3>2, <3>4, <4>0
        <4>1. UsesOf(after, a) = UsesOf(ws, a)
          BY <4>2
        <4> QED BY <3>6, <4>1
      <3> QED BY <3>5, <3>6
    <2>11. ASSUME NEW i \in DOMAIN set
           PROVE  /\ new[i].entries = Cardinality(UsesOf(after, new[i].address))
                  /\ new[i].entries <= EntryCeiling
      <3> DEFINE a == set[i].address
      <3>1. new[i].address = a
        BY <2>7 DEF SameRows, SameRow
      <3>2. set[i].entries = Cardinality(UsesOf(ws, a)) /\ set[i].entries <= EntryCeiling
        BY DEF Occupied, SlotsMatch
      <3>3. IsFiniteSet(UsesOf(ws, a)) /\ openWindow \notin UsesOf(ws, a)
        <4>1. UsesOf(ws, a) \in SUBSET DOMAIN ws /\ IsFiniteSet(DOMAIN ws)
          BY <2>2, FS_Interval DEF UsesOf
        <4> QED BY <4>1, FS_Subset DEF UsesOf
      <3>4. EntryCeiling \in Nat
        BY ConstantsAreTyped
      <3>5. CASE legs[i] > 0
        <4>1. UsesOf(after, a) = UsesOf(ws, a) \cup {openWindow}
          BY <2>8, <2>10, <3>5
        <4>2. Cardinality(UsesOf(after, a)) = Cardinality(UsesOf(ws, a)) + 1
          BY <3>3, <4>1, FS_AddElement
        <4> QED BY <2>8, <3>1, <3>2, <3>4, <3>5, <4>2
      <3>6. CASE ~ (legs[i] > 0)
        <4>1. UsesOf(after, a) = UsesOf(ws, a)
          BY <2>8, <2>10, <3>6
        <4> QED BY <2>8, <3>1, <3>2, <3>6, <4>1
      <3> QED BY <3>5, <3>6
    <2>12. SlotsMatch(new, after)
      BY <2>7, <2>11 DEF SlotsMatch, SameRows
    <2>13. UsedListed(new, after)
      <3> SUFFICES ASSUME NEW id \in DOMAIN after, after[id].state = "Unbonding"
                   PROVE  after[id].used \subseteq AddressesIn(new)
        BY DEF UsedListed
      <3>1. CASE id = openWindow
        BY <2>5, <2>6, <2>9, <3>1
      <3>2. CASE id # openWindow
        <4>1. id \in DOMAIN ws /\ after[id] = ws[id]
          BY <2>2, <2>3, <2>6, <3>2
        <4> QED BY <2>9, <4>1 DEF Occupied, UsedListed
      <3> QED BY <3>1, <3>2
    <2> QED BY <2>1, <2>12, <2>13 DEF Occupied, after
  <1> QED BY <1>1, <1>2 DEF ClosingOf

(* Windows that leave what is in flight, and what it uses, alone.          *)
LEMMA UsesKept ==
    ASSUME NEW set, NEW ws, NEW old, Occupied(set, old), DOMAIN ws = DOMAIN old,
           \A id \in DOMAIN old :
               \/ ws[id] = old[id]
               \/ ws[id].state # "Unbonding" /\ old[id].state # "Unbonding"
    PROVE  Occupied(set, ws)
  <1>1. ASSUME NEW a PROVE UsesOf(ws, a) = UsesOf(old, a)
    BY DEF UsesOf
  <1>2. UsedListed(set, ws)
    BY DEF Occupied, UsedListed
  <1>3. SlotsMatch(set, ws)
    BY <1>1 DEF Occupied, SlotsMatch
  <1> QED BY <1>2, <1>3 DEF Occupied

(* mature_due_windows: a window that matures frees a slot wherever it used *)
(* one, and no other window is concerned.                                  *)
LEMMA CollectionFrees ==
    ASSUME Consistent, NEW ids \in SUBSET DueWindows, Occupied(validators, windows)
    PROVE  Occupied(Released(ids), MaturedWindows(ids))
  <1> DEFINE new == Released(ids)
             ws  == MaturedWindows(ids)
             Freed(a) == {id \in ids : a \in windows[id].used}
  <1>1. /\ TypedSet /\ TypedQueue /\ IsFiniteSet(WindowIds) /\ WindowIds = DOMAIN windows
        /\ ids \in SUBSET WindowIds /\ validators \in Seq(ValidatorEntry)
    BY ConsistentShape, PartsMakeTypeInv, WindowsTyped
       DEF Consistent, TypedParts, TypedSet
  <1>2. /\ DOMAIN ws = WindowIds
        /\ \A id \in WindowIds \ ids : ws[id] = windows[id]
        /\ \A id \in ids : windows[id].state = "Unbonding" /\ ws[id].state = "Matured"
    BY CollectedFigures
  <1>3. SameRows(new, validators)
    BY <1>1, ReleasedRows
  <1>4. ASSUME NEW i \in DOMAIN validators
        PROVE  new[i].entries = SatSub(validators[i].entries,
                                       Cardinality(Freed(validators[i].address)))
    BY <1>1, ReleasedRows
  <1> HIDE DEF new, ws
  <1>5. ASSUME NEW a
        PROVE  /\ UsesOf(ws, a) = UsesOf(windows, a) \ Freed(a)
               /\ Freed(a) \subseteq UsesOf(windows, a)
    BY <1>1, <1>2 DEF UsesOf
  <1>6. ASSUME NEW a
        PROVE  /\ Cardinality(UsesOf(ws, a)) =
                    Cardinality(UsesOf(windows, a)) - Cardinality(Freed(a))
               /\ Cardinality(UsesOf(ws, a)) \in Nat /\ Cardinality(Freed(a)) \in Nat
    <2>1. UsesOf(windows, a) \in SUBSET WindowIds
      BY <1>1 DEF UsesOf
    <2>2. IsFiniteSet(UsesOf(windows, a))
      BY <1>1, <2>1, FS_Subset
    <2>3. UsesOf(windows, a) \cap Freed(a) = Freed(a)
      BY <1>5
    <2>4. IsFiniteSet(Freed(a)) /\ IsFiniteSet(UsesOf(ws, a))
      BY <1>5, <2>2, FS_Subset
    <2> HIDE DEF Freed
    <2>5. Cardinality(UsesOf(windows, a) \ Freed(a)) =
            Cardinality(UsesOf(windows, a)) - Cardinality(UsesOf(windows, a) \cap Freed(a))
      BY <2>2, FS_Difference
    <2> QED BY <1>5, <2>3, <2>4, <2>5, FS_CardinalityType
  <1>7. ASSUME NEW i \in DOMAIN validators
        PROVE  /\ new[i].entries = Cardinality(UsesOf(ws, new[i].address))
               /\ new[i].entries <= EntryCeiling
    <2> DEFINE a == validators[i].address
               m == Cardinality(UsesOf(windows, a))
               f == Cardinality(Freed(a))
               k == Cardinality(UsesOf(ws, a))
    <2>1. new[i].address = a
      BY <1>3 DEF SameRows, SameRow
    <2>2. validators[i].entries = m /\ validators[i].entries <= EntryCeiling
          /\ validators[i].entries \in Nat /\ EntryCeiling \in Nat
      BY <1>1, SetDomain, EntryFields, ConstantsAreTyped DEF Occupied, SlotsMatch
    <2>3. new[i].entries = SatSub(validators[i].entries, f)
      BY <1>4
    <2>4. k = m - f /\ k \in Nat /\ f \in Nat
      BY <1>6
    <2> HIDE DEF m, f, k, a
    <2>5. new[i].entries = k /\ k <= EntryCeiling
      BY <2>2, <2>3, <2>4 DEF SatSub
    <2> QED BY <2>1, <2>5 DEF k
  <1>8. SlotsMatch(new, ws)
    BY <1>3, <1>7 DEF SlotsMatch, SameRows
  <1>9. AddressesIn(new) = AddressesIn(validators)
    BY <1>3 DEF AddressesIn, SameRows, SameRow
  <1>10. UsedListed(new, ws)
    BY <1>1, <1>2, <1>9 DEF Occupied, UsedListed
  <1> QED BY <1>8, <1>10 DEF Occupied, new, ws

(* An assignment keeps the slots, and whoever it appends has none.         *)
LEMMA AssignmentKeepsSlots ==
    ASSUME NEW set \in Seq(ValidatorEntry), NEW weights \in Seq(ValidatorInit),
           NEW ws, IsFiniteSet(DOMAIN ws), Occupied(set, ws)
    PROVE  Occupied(ApplyWeights(set, weights), ws)
  <1> DEFINE N == NewIn(weights, set)
             n == Cardinality(N)
             g == ApplyWeights(set, weights)
             m == Len(set)
  <1>1. /\ n \in Nat /\ DOMAIN g = 1 .. m + n /\ m \in Nat /\ DOMAIN set = 1 .. m
        /\ IsFiniteSet(N) /\ \A i \in N : i \in Int
    BY ApplyWeightsParts, SetDomain
  <1>2. ASSUME NEW i \in 1 .. m
        PROVE  g[i].address = set[i].address /\ g[i].entries = set[i].entries
    <2>1. i \in DOMAIN set /\ set[i] \in ValidatorEntry
      BY <1>1, SetDomain
    <2>2. g[i] = Reweighted(set[i], weights)
      BY <2>1, ApplyWeightsParts
    <2> QED BY <2>1, <2>2, ReweightedFields
  <1>3. ASSUME NEW k \in 1 .. n
        PROVE  g[m + k].address \notin AddressesIn(set) /\ g[m + k].entries = 0
    <2>1. Nth(N, k) \in N
      BY <1>1, NthInSet
    <2>2. g[m + k] = NewEntry(weights[Nth(N, k)])
      BY ApplyWeightsParts
    <2> QED BY <2>1, <2>2 DEF NewEntry, NewIn
  <1>4. ASSUME NEW a, a \notin AddressesIn(set) PROVE UsesOf(ws, a) = {}
    BY <1>4 DEF Occupied, UsedListed, UsesOf
  <1> HIDE DEF N, n, g, m
  <1>5. ASSUME NEW i \in DOMAIN g
        PROVE  /\ g[i].entries = Cardinality(UsesOf(ws, g[i].address))
               /\ g[i].entries <= EntryCeiling
    <2>1. CASE i <= m
      <3>1. i \in 1 .. m /\ i \in DOMAIN set
        BY <1>1, <2>1
      <3> QED BY <1>2, <3>1 DEF Occupied, SlotsMatch
    <2>2. CASE ~ (i <= m)
      <3>1. i - m \in 1 .. n /\ i = m + (i - m)
        BY <1>1, <2>2
      <3>2. g[i].address \notin AddressesIn(set) /\ g[i].entries = 0
        BY <1>3, <3>1
      <3>3. UsesOf(ws, g[i].address) = {}
        BY <1>4, <3>2
      <3>4. EntryCeiling \in Nat
        BY ConstantsAreTyped
      <3> QED BY <3>2, <3>3, <3>4, FS_EmptySet
    <2> QED BY <2>1, <2>2
  <1>6. AddressesIn(set) \subseteq AddressesIn(g)
    <2>1. ASSUME NEW i \in DOMAIN set PROVE set[i].address \in AddressesIn(g)
      <3>1. i \in DOMAIN g /\ g[i].address = set[i].address
        BY <1>1, <1>2
      <3> QED BY <3>1 DEF AddressesIn
    <2> QED BY <2>1 DEF AddressesIn
  <1> QED BY <1>5, <1>6 DEF Occupied, SlotsMatch, UsedListed, g

(* Every step keeps the slots in step with the windows.                    *)
LEMMA OccupiedStep ==
    ASSUME Consistent, Distinct(validators), Occupied(validators, windows), [Next]_vars
    PROVE  Occupied(validators', windows')
  <1>0. /\ TypedParts /\ TypedSet /\ TypedQueue /\ TypedChain /\ WindowIds = DOMAIN windows
        /\ validators \in Seq(ValidatorEntry) /\ TypedWindows(windows, nextWindowId)
        /\ openWindow = nextWindowId - 1 /\ nextWindowId \in Nat \ {0}
        /\ windows[openWindow].state = "Open" /\ openWindow \in WindowIds
        /\ IsFiniteSet(DOMAIN windows)
    BY ConsistentShape, PartsMakeTypeInv
       DEF Consistent, TypedParts, TypedSet, TypedQueue, Shaped
  <1>1. ASSUME NEW seed \in Seeds, Bootstrap(seed) PROVE Occupied(validators', windows')
    <2> DEFINE i == SelectForDelegation(validators, seed)
    <2>1. /\ validators' = [validators EXCEPT ![i].bonded = @ + seed] /\ seed \in Nat
          /\ windows' = windows
      BY <1>1, InputsNat DEF Bootstrap, queueVars
    <2> HIDE DEF i
    <2>2. SameRows(validators', validators)
      BY <1>0, <2>1, StakeRows
    <2>3. SameSlots(validators', validators)
      BY <1>0, <2>1, StakeRows
    <2> QED BY <2>1, <2>2, <2>3, OccupiedKept
  <1>2. ASSUME NEW u \in Users, NEW amount \in Deposits, Deposit(u, amount)
        PROVE  Occupied(validators', windows')
    <2> DEFINE i      == SelectForDelegation(RefreshedSet, amount)
               shares == SharesForDeposit(amount, DepositPool(amount))
               set    == [RefreshedSet EXCEPT ![i].bonded = @ + amount]
               t      == [RefreshedTotals EXCEPT !.bonded = @ + amount,
                                                 !.supply = @ + shares]
               r      == DepositPlaced(amount)
    <2>1. validators' = r.set /\ windows' = r.windows /\ amount \in Nat
      BY <1>2, InputsNat DEF Deposit, Commit
    <2>2. r = CloseWindowIfOverdue(set, t, windows)
      BY DEF DepositPlaced
    <2> HIDE DEF i, t, r
    <2>3. /\ RefreshedSet \in Seq(ValidatorEntry) /\ SameRows(RefreshedSet, validators)
          /\ SameSlots(RefreshedSet, validators)
      BY <1>0, RefreshTyped, PageRows DEF RefreshedSet
    <2>4. SameRows(set, RefreshedSet) /\ set \in Seq(ValidatorEntry)
      BY <2>1, <2>3, StakeRows, StakeAdded
    <2>5. SameSlots(set, RefreshedSet)
      BY <2>1, <2>3, StakeRows
    <2> HIDE DEF set
    <2>6. Occupied(set, windows)
      BY <2>3, <2>4, <2>5, OccupiedKept
    <2>7. Distinct(set)
      BY <2>3, <2>4 DEF SameRows, SameRow, Distinct
    <2>8. ClosingOf(r, set, t, windows)
      BY <2>2, RidingAlongIsOne
    <2>9. Occupied(r.set, r.windows)
      BY <1>0, <2>4, <2>6, <2>7, <2>8, ClosingOccupies
    <2> QED BY <2>1, <2>9
  <1>3. ASSUME NEW u \in Users, NEW shares \in Requests, Unbond(u, shares)
        PROVE  Occupied(validators', windows')
    <2> DEFINE owed == AssetsForShares(shares, RequestPool)
               ws   == [windows EXCEPT ![openWindow].shares = @ + shares,
                                       ![openWindow].owed = @ + owed]
               t    == [RefreshedTotals EXCEPT !.supply = SatSub(@, shares),
                                               !.owedOpen = @ + owed]
               r    == RequestPlaced(shares)
    <2>1. validators' = r.set /\ windows' = r.windows /\ shares \in Nat
      BY <1>3, InputsNat DEF Unbond, Commit
    <2>2. r = CloseWindowIfOverdue(RefreshedSet, t, ws)
      BY DEF RequestPlaced
    <2>3. /\ RefreshedSet \in Seq(ValidatorEntry) /\ SameRows(RefreshedSet, validators)
          /\ SameSlots(RefreshedSet, validators)
      BY <1>0, RefreshTyped, PageRows DEF RefreshedSet
    <2>4. TypedWindows(ws, nextWindowId)
      BY <1>0, JoinedTyped
    <2> HIDE DEF t, r, owed
    <2>5. /\ DOMAIN ws = DOMAIN windows /\ ws[openWindow].state = "Open"
          /\ \A id \in DOMAIN windows \ {openWindow} : ws[id] = windows[id]
      <3>1. DOMAIN ws = DOMAIN windows
            /\ \A id \in DOMAIN windows \ {openWindow} : ws[id] = windows[id]
        OBVIOUS
      <3>2. ws[openWindow].state = "Open"
        <4>1. PICK w \in AWindow : w = windows[openWindow]
          BY <1>0 DEF TypedWindows
        <4>2. ws[openWindow] = [w EXCEPT !.shares = w.shares + shares, !.owed = w.owed + owed]
          BY <1>0, <4>1
        <4> QED BY <1>0, <4>1, <4>2 DEF AWindow, UnbondWindow
      <3> QED BY <3>1, <3>2
    <2> HIDE DEF ws
    <2>6. Occupied(RefreshedSet, windows)
      BY <2>3, OccupiedKept
    <2>7. Occupied(RefreshedSet, ws)
      <3>1. \A id \in DOMAIN windows :
               \/ ws[id] = windows[id]
               \/ ws[id].state # "Unbonding" /\ windows[id].state # "Unbonding"
        BY <1>0, <2>5
      <3> QED BY <2>5, <2>6, <3>1, UsesKept
    <2>8. Distinct(RefreshedSet)
      BY <2>3 DEF SameRows, SameRow, Distinct
    <2>9. ClosingOf(r, RefreshedSet, t, ws)
      BY <2>2, RidingAlongIsOne
    <2>10. Occupied(r.set, r.windows)
      BY <1>0, <2>3, <2>4, <2>5, <2>7, <2>8, <2>9, ClosingOccupies
    <2> QED BY <2>1, <2>10
  <1>4. ASSUME AdvanceWindow PROVE Occupied(validators', windows')
    <2> DEFINE r == CloseOpenWindow(validators, totals, windows)
    <2>1. validators' = r.set /\ windows' = r.windows
      BY <1>4 DEF AdvanceWindow, Commit
    <2>2. ClosingOf(r, validators, totals, windows)
      BY DEF ClosingOf
    <2> HIDE DEF r
    <2>3. Occupied(r.set, r.windows)
      BY <1>0, <2>2, ClosingOccupies
    <2> QED BY <2>1, <2>3
  <1>5. ASSUME NEW u \in Users, NEW list \in ClaimLists, ClaimMatured(u, list)
        PROVE  Occupied(validators', windows')
    <2> DEFINE ids == ClaimIds(u, list)
               at  == WindowsAtClaim
               ws  == WindowsAfterClaim(u, ids)
               P   == Paying(u, ids)
    <2>1. validators' = Released(DueWindows) /\ windows' = ws
      BY <1>5 DEF ClaimMatured
    <2>2. Occupied(Released(DueWindows), at)
      BY CollectionFrees DEF WindowsAtClaim
    <2>3. /\ DOMAIN ws = WindowIds /\ DOMAIN at = WindowIds
          /\ P \subseteq In(at, "Matured")
          /\ \A id \in WindowIds \ P : ws[id] = at[id]
          /\ \A id \in P : ws[id].state \in {"Matured", "Settled"}
      BY ClaimedFigures
    <2> HIDE DEF ids, at, ws, P
    <2>4. \A id \in DOMAIN at : \/ ws[id] = at[id]
                                \/ ws[id].state # "Unbonding" /\ at[id].state # "Unbonding"
      BY <2>3 DEF In
    <2>5. Occupied(Released(DueWindows), ws)
      BY <2>2, <2>3, <2>4, UsesKept
    <2> QED BY <2>1, <2>5
  <1>6. ASSUME NEW limit \in CollectLimits, CollectMatured(limit)
        PROVE  Occupied(validators', windows')
    <2>1. validators' = Released(Collected(limit)) /\ windows' = MaturedWindows(Collected(limit))
      BY <1>6 DEF CollectMatured
    <2>2. Collected(limit) \in SUBSET DueWindows
      BY DEF Collected
    <2> QED BY <2>1, <2>2, CollectionFrees
  <1>7. ASSUME NEW limit \in PageLimits, Sync(limit) PROVE Occupied(validators', windows')
    <2>1. validators' = ReadPage(Page(limit)) /\ windows' = windows
      BY <1>7 DEF Sync, queueVars
    <2>2. SameRows(validators', validators) /\ SameSlots(validators', validators)
      BY <1>0, <2>1, PageRows
    <2> QED BY <2>1, <2>2, OccupiedKept
  <1>8. ASSUME NEW limit \in PageLimits, Compound(limit) PROVE Occupied(validators', windows')
    <2>1. validators' = RestakedSet(limit) /\ windows' = windows
      BY <1>8 DEF Compound, queueVars
    <2>2. SameRows(validators', validators) /\ SameSlots(validators', validators)
      BY <1>0, <2>1, RestakedRows
    <2> QED BY <2>1, <2>2, OccupiedKept
  <1>9. ASSUME NEW weights \in WeightChoices, SetWeights(weights)
        PROVE  Occupied(validators', windows')
    <2>1. /\ validators' = ApplyWeights(validators, weights) /\ windows' = windows
          /\ weights \in Seq(ValidatorInit)
      BY <1>9, InputsNat DEF SetWeights, queueVars
    <2> QED BY <1>0, <2>1, AssignmentKeepsSlots
  <1>10. ASSUME NEW move \in Moves, Rebalance(move) PROVE Occupied(validators', windows')
    <2>1. SameRows(validators', validators) /\ SameSlots(validators', validators)
      BY <1>0, <1>10, MovedRows
    <2>2. windows' = windows
      BY <1>10 DEF Rebalance, queueVars
    <2> QED BY <2>1, <2>2, OccupiedKept
  <1>11. ASSUME validators' = validators, windows' = windows
         PROVE  Occupied(validators', windows')
    BY <1>11
  <1>12. CASE UserAction
    BY <1>1, <1>2, <1>3, <1>5, <1>12 DEF UserAction
  <1>13. CASE UpkeepAction
    BY <1>4, <1>6, <1>7, <1>8, <1>13 DEF UpkeepAction
  <1>14. CASE ManagerAction
    BY <1>9, <1>10, <1>11, <1>14 DEF ManagerAction, SetPerformanceFee, SetPaused,
       Migrate, queueVars
  <1>15. CASE ChainAction
    BY <1>11, <1>15 DEF ChainAction, NextBlock, Slash, AccrueRewards, BurnOwnShares,
       Donate, contractVars
  <1>16. CASE UNCHANGED vars
    BY <1>11, <1>16 DEF vars, contractVars
  <1> QED BY <1>12, <1>13, <1>14, <1>15, <1>16 DEF Next

(* Every step carries it.                                                  *)
LEMMA OccupiedAlways == Spec => []Occupied(validators, windows)
  <1>1. Init => Occupied(validators, windows)
    <2> SUFFICES ASSUME Init PROVE Occupied(validators, windows)
      OBVIOUS
    <2>1. /\ validators = [i \in DOMAIN InitialWeights |-> NewEntry(InitialWeights[i])]
          /\ DOMAIN windows = {0} /\ windows[0].state = "Open"
      BY DEF Init, InitialValidatorSet, WindowOpen
    <2>2. \A a : UsesOf(windows, a) = {}
      BY <2>1 DEF UsesOf
    <2>3. \A i \in DOMAIN validators : validators[i].entries = 0
      BY <2>1 DEF NewEntry
    <2>4. EntryCeiling \in Nat
      BY ConstantsAreTyped
    <2>5. SlotsMatch(validators, windows)
      BY <2>2, <2>3, <2>4, FS_EmptySet DEF SlotsMatch
    <2> QED BY <2>1, <2>5 DEF Occupied, UsedListed
  <1>2. Consistent /\ Distinct(validators) /\ Occupied(validators, windows) /\ [Next]_vars
          => Occupied(validators', windows')
    BY OccupiedStep
  <1>3. Occupied(validators, windows)' <=> Occupied(validators', windows')
    BY DEF Occupied, SlotsMatch, UsedListed, UsesOf, AddressesIn
  <1> QED BY <1>1, <1>2, <1>3, LedgersAlwaysAgree, DistinctAlways, PTL DEF Spec

(* A validator's slot counter is always the number of unbonding windows    *)
(* that used it, and never passes the protocol's ceiling                   *)
(* (close_open_window, mature_due_windows).                                *)
THEOREM SlotsAlwaysMatch == Spec => []EntrySlotsMatchWindows
  <1>1. Occupied(validators, windows) => EntrySlotsMatchWindows
    BY DEF Occupied, SlotsMatch, UsesOf, EntrySlotsMatchWindows, InState, WindowIds
  <1> QED BY <1>1, OccupiedAlways, PTL

-----------------------------------------------------------------------------
(* The cached stake.  A plan takes from the candidates in draining order,  *)
(* which is a strict order of the whole set, exactly what the window owes. *)

Orders(R, T) ==
    /\ \A x, y, z \in T : <<x, y>> \in R /\ <<y, z>> \in R => <<x, z>> \in R
    /\ \A x, y \in T : x # y => <<x, y>> \in R \/ <<y, x>> \in R
    /\ \A x \in T : <<x, x>> \notin R

Before(R, T, x) == {k \in T : <<k, x>> \in R}

(* A finite, totally ordered set has a last member.                        *)
LEMMA LastInOrder ==
    ASSUME NEW T, IsFiniteSet(T), T # {}, NEW R, Orders(R, T)
    PROVE  \E x \in T : \A y \in T : y # x => <<y, x>> \in R
  <1> DEFINE Last(u, x) == \A y \in u : y # x => <<y, x>> \in R
             B == {u \in SUBSET T : u # {} /\ ~ \E x \in u : Last(u, x)}
  <1>1. ASSUME B # {} PROVE FALSE
    <2>1. PICK m \in B : \A u \in B : u \subseteq m => u = m
      <3>1. B \in SUBSET SUBSET T
        OBVIOUS
      <3>2. IsFiniteSet(T) /\ B # {}
        BY <1>1
      <3> HIDE DEF B
      <3> QED BY <3>1, <3>2, SmallestSubset
    <2>2. m \in SUBSET T /\ m # {} /\ ~ \E x \in m : Last(m, x)
      BY <2>1
    <2>3. PICK a \in m : TRUE
      BY <2>2
    <2> DEFINE r == m \ {a}
    <2>4. r \in SUBSET T /\ r \subseteq m /\ r # m
      BY <2>2, <2>3
    <2>5. r \notin B
      BY <2>1, <2>4
    <2>6. CASE r = {}
      BY <2>2, <2>3, <2>6
    <2>0. /\ \A x, y, z \in T : <<x, y>> \in R /\ <<y, z>> \in R => <<x, z>> \in R
          /\ \A x, y \in T : x # y => <<x, y>> \in R \/ <<y, x>> \in R
      BY DEF Orders
    <2>7. CASE r # {}
      <3>1. PICK x \in r : Last(r, x)
        BY <2>4, <2>5, <2>7
      <3>2. x \in T /\ a \in T /\ x # a /\ x \in m
        BY <2>2, <2>3, <3>1
      <3>3. CASE <<a, x>> \in R
        <4>1. Last(m, x)
          BY <3>1, <3>3
        <4> QED BY <2>2, <3>2, <4>1
      <3>4. CASE <<x, a>> \in R
        <4>1. ASSUME NEW y \in m, y # a PROVE <<y, a>> \in R
          <5>1. y \in r /\ y \in T
            BY <2>2, <4>1
          <5>2. y = x \/ <<y, x>> \in R
            BY <3>1, <5>1
          <5> QED BY <2>0, <3>2, <3>4, <5>1, <5>2
        <4>2. Last(m, a)
          BY <4>1
        <4> QED BY <2>2, <2>3, <4>2
      <3> QED BY <2>0, <3>2, <3>3, <3>4
    <2> QED BY <2>6, <2>7
  <1>2. T \notin B
    BY <1>1
  <1> QED BY <1>2

(* Whoever is asked in turn for what is still missing, and has enough      *)
(* together, gives it all.                                                 *)
LEMMA GivenInTurn ==
    ASSUME NEW T, IsFiniteSet(T), NEW R, NEW f, NEW g, NEW A \in Nat, Orders(R, T),
           \A x \in T : f[x] \in Nat,
           \A x \in T : g[x] =
               Min2(f[x], SatSub(A, SumFunctionOnSet(f, Before(R, T, x)))),
           A <= SumFunctionOnSet(f, T)
    PROVE  SumFunctionOnSet(g, T) = A
  <1> DEFINE S(h, u) == SumFunctionOnSet(h, u)
             First(u) == \A x \in u : \A k \in T : <<k, x>> \in R => k \in u
             B == {u \in SUBSET T : First(u) /\ S(g, u) # Min2(A, S(f, u))}
  <1>1. ASSUME B # {} PROVE FALSE
    <2>1. PICK m \in B : \A u \in B : u \subseteq m => u = m
      <3>1. B \in SUBSET SUBSET T
        OBVIOUS
      <3>2. IsFiniteSet(T) /\ B # {}
        BY <1>1
      <3> HIDE DEF B
      <3> QED BY <3>1, <3>2, SmallestSubset
    <2>2. m \in SUBSET T /\ First(m) /\ S(g, m) # Min2(A, S(f, m)) /\ IsFiniteSet(m)
      BY <2>1, FS_Subset
    <2>3. m # {}
      <3>1. ASSUME m = {} PROVE FALSE
        <4>1. S(g, m) = 0 /\ S(f, m) = 0
          BY <3>1, SumEmpty
        <4> QED BY <2>2, <4>1 DEF Min2
      <3> QED BY <3>1
    <2>4. PICK x \in m : \A y \in m : y # x => <<y, x>> \in R
      <3>1. Orders(R, m)
        BY <2>2 DEF Orders
      <3>2. IsFiniteSet(m)
        BY <2>2
      <3> HIDE DEF First, S, B
      <3> QED BY <2>3, <3>1, <3>2, LastInOrder
    <2> DEFINE r == m \ {x}
    <2>5. x \in T /\ r \in SUBSET T /\ r \subseteq m /\ r # m /\ IsFiniteSet(r)
      BY <2>2, <2>4, FS_Subset
    <2>6. Before(R, T, x) = r
      BY <2>2, <2>4, <2>5 DEF Orders, Before
    <2>7. First(r)
      <3>1. ASSUME NEW y \in r, NEW k \in T, <<k, y>> \in R PROVE k \in r
        <4>1. k \in m
          BY <2>2, <3>1
        <4>2. k # x
          <5>1. <<y, x>> \in R /\ y \in T
            BY <2>4, <2>5, <3>1
          <5> QED BY <2>5, <3>1, <5>1 DEF Orders
        <4> QED BY <4>1, <4>2
      <3> QED BY <3>1
    <2>8. S(g, r) = Min2(A, S(f, r))
      BY <2>1, <2>5, <2>7
    <2>9. S(f, r) \in Nat /\ f[x] \in Nat
      BY <2>5, SumNat
    <2>10. g[x] = Min2(f[x], SatSub(A, S(f, r)))
      BY <2>5, <2>6
    <2>11. S(f, m) = f[x] + S(f, r)
      <3>1. \A y \in m : f[y] \in Int
        BY <2>2
      <3> QED BY <2>2, <2>4, <3>1, SumElement
    <2>12. S(g, m) = g[x] + S(g, r)
      <3>1. ASSUME NEW y \in m PROVE g[y] \in Int
        <4>1. Before(R, T, y) \in SUBSET T /\ y \in T
          BY <2>2 DEF Before
        <4>2. S(f, Before(R, T, y)) \in Nat
          BY <4>1, FS_Subset, SumNat
        <4>3. g[y] = Min2(f[y], SatSub(A, S(f, Before(R, T, y)))) /\ f[y] \in Nat
          BY <4>1
        <4> HIDE DEF S
        <4> QED BY <4>2, <4>3 DEF Min2, SatSub
      <3> QED BY <2>2, <2>4, <3>1, SumElement
    <2> HIDE DEF S, r
    <2>13. S(g, m) = Min2(A, S(f, m))
      BY <2>8, <2>9, <2>10, <2>11, <2>12 DEF Min2, SatSub
    <2> QED BY <2>2, <2>13
  <1>2. T \notin B
    BY <1>1
  <1>3. First(T)
    OBVIOUS
  <1>4. S(g, T) = Min2(A, S(f, T)) /\ S(f, T) \in Nat
    BY <1>2, <1>3, SumNat
  <1> QED BY <1>4 DEF Min2

(* DrainsBefore orders the entries strictly and totally.                   *)
LEMMA DrainingOrder ==
    ASSUME NEW set \in Seq(ValidatorEntry), NEW pool \in Nat
    PROVE  /\ \A i \in DOMAIN set : ~ DrainsBefore(set, pool, i, i)
           /\ \A i, j \in DOMAIN set :
                i # j => DrainsBefore(set, pool, i, j) \/ DrainsBefore(set, pool, j, i)
           /\ \A i, j, k \in DOMAIN set :
                DrainsBefore(set, pool, i, j) /\ DrainsBefore(set, pool, j, k)
                  => DrainsBefore(set, pool, i, k)
  <1> DEFINE rank(i) == IF set[i].status = "Active" THEN 1 ELSE 0
             s(i) == Surplus(set[i], pool)
             b(i) == set[i].bonded
             D(i, j) == DrainsBefore(set, pool, i, j)
  <1>1. ASSUME NEW i \in DOMAIN set
        PROVE  s(i) \in Nat /\ b(i) \in Nat /\ rank(i) \in {0, 1} /\ i \in Int
    <2>1. set[i] \in ValidatorEntry /\ i \in Int
      BY SetDomain
    <2>2. Target(set[i], pool) \in Nat /\ set[i].bonded \in Nat
      BY <2>1, TargetNat, EntryFields
    <2>3. s(i) \in Nat
      BY <2>2, SatSubNat DEF Surplus
    <2> QED BY <2>1, <2>2, <2>3
  <1>2. ASSUME NEW i \in DOMAIN set, NEW j \in DOMAIN set
        PROVE  D(i, j) <=> \/ rank(i) < rank(j)
                           \/ /\ rank(i) = rank(j)
                              /\ \/ s(i) > s(j)
                                 \/ s(i) = s(j) /\ b(i) > b(j)
                                 \/ s(i) = s(j) /\ b(i) = b(j) /\ i < j
    BY DEF DrainsBefore
  <1> HIDE DEF rank, s, b, D
  <1>3. \A i \in DOMAIN set : ~ D(i, i)
    BY <1>1, <1>2
  <1>4. \A i, j \in DOMAIN set : i # j => D(i, j) \/ D(j, i)
    BY <1>1, <1>2
  <1>5. ASSUME NEW i \in DOMAIN set, NEW j \in DOMAIN set, NEW k \in DOMAIN set,
               D(i, j), D(j, k)
        PROVE  D(i, k)
    <2>1. /\ s(i) \in Nat /\ b(i) \in Nat /\ rank(i) \in {0, 1} /\ i \in Int
          /\ s(j) \in Nat /\ b(j) \in Nat /\ rank(j) \in {0, 1} /\ j \in Int
          /\ s(k) \in Nat /\ b(k) \in Nat /\ rank(k) \in {0, 1} /\ k \in Int
      BY <1>1
    <2>2. /\ D(i, j) <=> \/ rank(i) < rank(j)
                         \/ /\ rank(i) = rank(j)
                            /\ \/ s(i) > s(j)
                               \/ s(i) = s(j) /\ b(i) > b(j)
                               \/ s(i) = s(j) /\ b(i) = b(j) /\ i < j
          /\ D(j, k) <=> \/ rank(j) < rank(k)
                         \/ /\ rank(j) = rank(k)
                            /\ \/ s(j) > s(k)
                               \/ s(j) = s(k) /\ b(j) > b(k)
                               \/ s(j) = s(k) /\ b(j) = b(k) /\ j < k
          /\ D(i, k) <=> \/ rank(i) < rank(k)
                         \/ /\ rank(i) = rank(k)
                            /\ \/ s(i) > s(k)
                               \/ s(i) = s(k) /\ b(i) > b(k)
                               \/ s(i) = s(k) /\ b(i) = b(k) /\ i < k
      BY <1>2
    <2> QED BY <1>5, <2>1, <2>2
  <1> QED BY <1>3, <1>4, <1>5 DEF D

(* plan_undelegation: with capacity for it the legs add up to the amount,  *)
(* and none is more than its entry has.                                    *)
THEOREM PlanCovers ==
    ASSUME NEW set \in Seq(ValidatorEntry), NEW amount \in Nat, NEW ceiling,
           HasUnbondingCapacity(set, amount, ceiling)
    PROVE  /\ SumFunctionOnSet(PlanUndelegation(set, amount, ceiling), DOMAIN set) = amount
           /\ \A i \in DOMAIN set :
                PlanUndelegation(set, amount, ceiling)[i] <= set[i].bonded
  <1> DEFINE C == UnbondCandidates(set, ceiling)
             pool == TotalBonded(set)
             legs == PlanUndelegation(set, amount, ceiling)
             R == {p \in C \X C : DrainsBefore(set, pool, p[1], p[2])}
             f == [i \in DOMAIN set |-> set[i].bonded]
  <1>1. C \in SUBSET DOMAIN set /\ IsFiniteSet(C) /\ pool \in Nat
    <2>1. C \in SUBSET DOMAIN set
      BY DEF UnbondCandidates
    <2> QED BY <2>1, SetDomain, StakesNat, FS_Subset
  <1>2. \A i \in DOMAIN set : f[i] \in Nat /\ f[i] = set[i].bonded
    BY SetDomain, EntryFields
  <1>3. Orders(R, C)
    <2>1. \A x, y \in C : <<x, y>> \in R <=> DrainsBefore(set, pool, x, y)
      OBVIOUS
    <2> HIDE DEF R, C, pool
    <2> QED BY <1>1, <2>1, DrainingOrder DEF Orders
  <1>4. ASSUME NEW x \in C
        PROVE  legs[x] = Min2(f[x], SatSub(amount,
                                SumFunctionOnSet(f, Before(R, C, x))))
    <2>1. Before(R, C, x) = {k \in C : DrainsBefore(set, pool, k, x)}
      BY <1>1 DEF Before
    <2>2. legs[x] = Min2(set[x].bonded, SatSub(amount,
                       BondedAt(set, {k \in C : DrainsBefore(set, pool, k, x)})))
      BY <1>1 DEF PlanUndelegation
    <2> QED BY <1>1, <1>2, <2>1, <2>2 DEF BondedAt
  <1>5. amount <= SumFunctionOnSet(f, C)
    BY DEF HasUnbondingCapacity, BondedAt
  <1>6. legs \in [DOMAIN set -> Nat] /\ \A i \in DOMAIN set \ C : legs[i] = 0
    <2>1. \A i \in DOMAIN set \ C : legs[i] = 0
      BY DEF PlanUndelegation
    <2> QED BY <2>1, LegsNat
  <1> HIDE DEF C, pool, legs, R, f
  <1>7. SumFunctionOnSet(legs, C) = amount
    BY <1>1, <1>2, <1>3, <1>4, <1>5, GivenInTurn
  <1>8. SumFunctionOnSet(legs, C) = SumFunctionOnSet(legs, DOMAIN set)
    <2>1. IsFiniteSet(DOMAIN set)
      BY SetDomain
    <2> QED BY <1>1, <1>6, <2>1, SumOfSupport
  <1>9. ASSUME NEW i \in DOMAIN set PROVE legs[i] <= set[i].bonded
    <2>1. set[i].bonded \in Nat /\ f[i] = set[i].bonded
      BY <1>2
    <2>2. CASE i \in C
      <3> DEFINE x == SumFunctionOnSet(f, Before(R, C, i))
      <3>1. x \in Nat
        <4>1. Before(R, C, i) \in SUBSET C
          BY DEF Before
        <4> QED BY <1>1, <1>2, <4>1, FS_Subset, SumNat
      <3>2. legs[i] = Min2(f[i], SatSub(amount, x))
        BY <1>4, <2>2
      <3> HIDE DEF x
      <3> QED BY <2>1, <3>1, <3>2 DEF Min2, SatSub
    <2>3. CASE i \notin C
      BY <1>6, <2>1, <2>3
    <2> QED BY <2>2, <2>3
  <1> QED BY <1>7, <1>8, <1>9 DEF legs

-----------------------------------------------------------------------------
(* Totals over a rewritten set.                                            *)

StakesOf(set) == [i \in DOMAIN set |-> set[i].bonded]

\* The total of the entries' stakes as a sum over the set's positions.
LEMMA TotalIsSum ==
    ASSUME NEW set \in Seq(ValidatorEntry)
    PROVE  /\ TotalBonded(set) = SumFunctionOnSet(StakesOf(set), DOMAIN set)
           /\ StakesOf(set) \in [DOMAIN set -> Nat] /\ IsFiniteSet(DOMAIN set)
           /\ \A i \in DOMAIN set : StakesOf(set)[i] = set[i].bonded
  <1> DEFINE f == [i \in DOMAIN set |-> set[i].bonded]
  <1>1. f \in [DOMAIN set -> Nat]
    BY SetDomain, EntryFields
  <1>2. SumFunction(f) = SumFunctionOnSet(f, DOMAIN f)
    BY DEF SumFunction, SumFunctionOnSet, FoldFunction
  <1>3. DOMAIN f = DOMAIN set /\ TotalBonded(set) = SumFunction(f) /\ StakesOf(set) = f
    BY DEF TotalBonded, StakesOf
  <1>4. \A i \in DOMAIN set : f[i] = set[i].bonded
    OBVIOUS
  <1> HIDE DEF f
  <1> QED BY <1>1, <1>2, <1>3, <1>4, SetDomain

(* A set that books the same stakes has the same total.                    *)
LEMMA SameTotal ==
    ASSUME NEW set \in Seq(ValidatorEntry), NEW new \in Seq(ValidatorEntry),
           DOMAIN new = DOMAIN set, \A i \in DOMAIN set : new[i].bonded = set[i].bonded
    PROVE  TotalBonded(new) = TotalBonded(set)
  <1>1. \A i \in DOMAIN set : StakesOf(new)[i] = StakesOf(set)[i]
    BY TotalIsSum
  <1>2. SumFunctionOnSet(StakesOf(new), DOMAIN set) = SumFunctionOnSet(StakesOf(set), DOMAIN set)
    BY <1>1, TotalIsSum, SumExt
  <1> QED BY <1>2, TotalIsSum

BookedAt(g, set, i, amount) ==
    \A j \in DOMAIN set :
        g[j].bonded = IF j = i THEN set[j].bonded + amount ELSE set[j].bonded

(* One entry with more stake.                                              *)
LEMMA TotalAdded ==
    ASSUME NEW set \in Seq(ValidatorEntry), NEW new \in Seq(ValidatorEntry),
           DOMAIN new = DOMAIN set, NEW i \in DOMAIN set, NEW amount \in Int,
           BookedAt(new, set, i, amount)
    PROVE  TotalBonded(new) = TotalBonded(set) + amount
  <1> DEFINE f == StakesOf(set)
             h == StakesOf(new)
             r == DOMAIN set \ {i}
  <1>1. /\ \A j \in DOMAIN set : f[j] \in Nat /\ f[j] = set[j].bonded
        /\ \A j \in DOMAIN set : h[j] \in Nat /\ h[j] = new[j].bonded
        /\ IsFiniteSet(DOMAIN set)
    BY TotalIsSum
  <1>2. h[i] = f[i] + amount /\ \A j \in r : h[j] = f[j]
    BY <1>1 DEF BookedAt
  <1> HIDE DEF f, h
  <1>3. /\ SumFunctionOnSet(f, DOMAIN set) = f[i] + SumFunctionOnSet(f, r)
        /\ SumFunctionOnSet(f, r) \in Int
    <2>1. \A j \in DOMAIN set : f[j] \in Int
      BY <1>1
    <2> QED BY <1>1, <2>1, SumElement
  <1>4. SumFunctionOnSet(h, DOMAIN set) = h[i] + SumFunctionOnSet(h, r)
    <2>1. \A j \in DOMAIN set : h[j] \in Int
      BY <1>1
    <2> QED BY <1>1, <2>1, SumElement
  <1>5. SumFunctionOnSet(h, r) = SumFunctionOnSet(f, r)
    BY <1>1, <1>2, FS_Subset, SumExt
  <1>6. SumFunctionOnSet(h, DOMAIN set) = SumFunctionOnSet(f, DOMAIN set) + amount
    BY <1>1, <1>2, <1>3, <1>4, <1>5
  <1> QED BY <1>6, TotalIsSum DEF f, h

(* Legs that no entry is too small for.                                    *)
LEMMA TotalLessLegs ==
    ASSUME NEW set \in Seq(ValidatorEntry), NEW legs \in [DOMAIN set -> Nat],
           \A i \in DOMAIN set : legs[i] <= set[i].bonded
    PROVE  /\ TotalBonded(set)
                = TotalBonded(WithLegs(set, legs)) + SumFunctionOnSet(legs, DOMAIN set)
           /\ TotalBonded(WithLegs(set, legs)) \in Nat
           /\ SumFunctionOnSet(legs, DOMAIN set) \in Nat
           /\ \A i \in DOMAIN set : WithLegs(set, legs)[i].bonded = set[i].bonded - legs[i]
  <1> DEFINE new == WithLegs(set, legs)
             f == StakesOf(set)
             h == StakesOf(new)
  <1>1. new \in Seq(ValidatorEntry) /\ DOMAIN new = DOMAIN set /\ IsFiniteSet(DOMAIN set)
    BY LegsLeaveASet, SetDomain
  <1>2. ASSUME NEW i \in DOMAIN set
        PROVE  new[i].bonded = set[i].bonded - legs[i] /\ set[i].bonded \in Nat
    <2>1. new[i].bonded = SatSub(set[i].bonded, legs[i]) /\ set[i].bonded \in Nat
      BY LegRows, SetDomain, EntryFields
    <2>2. legs[i] <= set[i].bonded
      OBVIOUS
    <2> QED BY <2>1, <2>2 DEF SatSub
  <1> HIDE DEF new
  <1>3. /\ \A j \in DOMAIN set : f[j] = set[j].bonded
        /\ \A j \in DOMAIN set : h[j] = new[j].bonded /\ h[j] \in Nat
    BY <1>1, TotalIsSum
  <1>4. \A j \in DOMAIN set : h[j] \in Nat /\ legs[j] \in Nat /\ f[j] = h[j] + legs[j]
    BY <1>2, <1>3, SMTT(30)
  <1> HIDE DEF f, h
  <1>5. SumFunctionOnSet(f, DOMAIN set)
          = SumFunctionOnSet(h, DOMAIN set) + SumFunctionOnSet(legs, DOMAIN set)
    <2> DEFINE T == DOMAIN set
    <2>1. IsFiniteSet(T) /\ \A j \in T : h[j] \in Nat /\ legs[j] \in Nat /\ f[j] = h[j] + legs[j]
      BY <1>1, <1>4
    <2> HIDE DEF T
    <2>2. SumFunctionOnSet(f, T) = SumFunctionOnSet(h, T) + SumFunctionOnSet(legs, T)
      BY <2>1, SumAdded
    <2> QED BY <2>2 DEF T
  <1>6. SumFunctionOnSet(legs, DOMAIN set) \in Nat /\ SumFunctionOnSet(h, DOMAIN set) \in Nat
    BY <1>1, <1>4, SumNat
  <1> QED BY <1>1, <1>2, <1>5, <1>6, TotalIsSum DEF f, h, new

(* New entries come without stake.                                         *)
LEMMA AssignmentKeepsTotal ==
    ASSUME NEW set \in Seq(ValidatorEntry), NEW weights \in Seq(ValidatorInit)
    PROVE  /\ TotalBonded(ApplyWeights(set, weights)) = TotalBonded(set)
           /\ \A i \in DOMAIN set :
                /\ i \in DOMAIN ApplyWeights(set, weights)
                /\ ApplyWeights(set, weights)[i].bonded = set[i].bonded
                /\ ApplyWeights(set, weights)[i].address = set[i].address
           /\ \A i \in DOMAIN ApplyWeights(set, weights) \ DOMAIN set :
                /\ ApplyWeights(set, weights)[i].bonded = 0
                /\ ApplyWeights(set, weights)[i].address \notin AddressesIn(set)
                /\ ApplyWeights(set, weights)[i].address \in Validators
  <1> DEFINE N == NewIn(weights, set)
             n == Cardinality(N)
             g == ApplyWeights(set, weights)
             m == Len(set)
  <1>1. /\ n \in Nat /\ DOMAIN g = 1 .. m + n /\ m \in Nat /\ DOMAIN set = 1 .. m
        /\ IsFiniteSet(N) /\ \A i \in N : i \in Int
    BY ApplyWeightsParts, SetDomain
  <1>2. g \in Seq(ValidatorEntry)
    BY ApplyWeightsTyped
  <1>3. ASSUME NEW i \in DOMAIN set
        PROVE  /\ i \in DOMAIN g
               /\ g[i].address = set[i].address /\ g[i].bonded = set[i].bonded
    <2>1. g[i] = Reweighted(set[i], weights) /\ set[i] \in ValidatorEntry
      BY SetDomain, ApplyWeightsParts
    <2> QED BY <1>1, <2>1, ReweightedFields
  <1>4. ASSUME NEW k \in 1 .. n
        PROVE  g[m + k].address \notin AddressesIn(set) /\ g[m + k].bonded = 0
    <2>1. Nth(N, k) \in N
      BY <1>1, NthInSet
    <2>2. g[m + k] = NewEntry(weights[Nth(N, k)])
      BY ApplyWeightsParts
    <2> QED BY <2>1, <2>2 DEF NewEntry, NewIn
  <1> HIDE DEF N, n, g, m
  <1>5. ASSUME NEW i \in DOMAIN g \ DOMAIN set
        PROVE  /\ g[i].address \notin AddressesIn(set) /\ g[i].bonded = 0
               /\ g[i].address \in Validators
    <2>1. i - m \in 1 .. n /\ i = m + (i - m)
      BY <1>1
    <2>2. g[i] \in ValidatorEntry
      BY <1>2, SetDomain
    <2> QED BY <1>4, <2>1, <2>2, EntryFields
  <1>6. TotalBonded(g) = TotalBonded(set)
    <2> DEFINE f == StakesOf(set)
               h == StakesOf(g)
    <2>1. /\ \A i \in DOMAIN set : f[i] \in Nat /\ f[i] = set[i].bonded
          /\ \A i \in DOMAIN g : h[i] = g[i].bonded
          /\ IsFiniteSet(DOMAIN g) /\ DOMAIN set \in SUBSET DOMAIN g
      BY <1>2, <1>3, TotalIsSum
    <2>2. /\ \A i \in DOMAIN set : f[i] \in Nat /\ h[i] = f[i]
          /\ \A i \in DOMAIN g \ DOMAIN set : h[i] = 0
      BY <1>3, <1>5, <2>1
    <2> HIDE DEF f, h
    <2>3. SumFunctionOnSet(f, DOMAIN set) = SumFunctionOnSet(h, DOMAIN g)
      BY <2>1, <2>2, SumOfSupport
    <2> QED BY <1>2, <2>3, TotalIsSum DEF f, h
  <1> QED BY <1>3, <1>5, <1>6 DEF g

-----------------------------------------------------------------------------
(* The cache tracks the chain.                                             *)

StakesTrue(set, dl) == \A i \in DOMAIN set : set[i].bonded = dl[set[i].address]

NowhereElse(set, dl) == \A v \in Validators : v \notin AddressesIn(set) => dl[v] = 0

(* What leaves a validator is the leg of its entry.                        *)
LEMMA LeavingIsTheLeg ==
    ASSUME NEW r, Distinct(r.set), IsFiniteSet(DOMAIN r.set),
           r.legs \in [DOMAIN r.set -> Nat]
    PROVE  /\ \A i \in DOMAIN r.set : Leaving(r, r.set[i].address) = r.legs[i]
           /\ \A v : v \notin AddressesIn(r.set) => Leaving(r, v) = 0
  <1>1. ASSUME NEW i \in DOMAIN r.set PROVE Leaving(r, r.set[i].address) = r.legs[i]
    <2>1. {j \in DOMAIN r.set : r.set[j].address = r.set[i].address} = {i}
      BY DEF Distinct
    <2>2. SumFunctionOnSet(r.legs, {i}) = r.legs[i] + SumFunctionOnSet(r.legs, {i} \ {i})
      <3>1. IsFiniteSet({i}) /\ \A x \in {i} : r.legs[x] \in Int
        BY FS_Singleton
      <3> QED BY <3>1, SumElement
    <2>3. SumFunctionOnSet(r.legs, {i} \ {i}) = 0
      <3>1. {i} \ {i} = {}
        OBVIOUS
      <3> QED BY <3>1, SumEmpty
    <2>4. SumFunctionOnSet(r.legs, {i}) = r.legs[i]
      <3>1. r.legs[i] \in Nat
        OBVIOUS
      <3> QED BY <2>2, <2>3, <3>1
    <2> QED BY <2>1, <2>4 DEF Leaving
  <1>2. ASSUME NEW v, v \notin AddressesIn(r.set) PROVE Leaving(r, v) = 0
    <2>1. {j \in DOMAIN r.set : r.set[j].address = v} = {}
      BY <1>2 DEF AddressesIn
    <2> QED BY <2>1, SumEmpty DEF Leaving
  <1> QED BY <1>1, <1>2

\* A closing that was planned, or none.
PlannedClosing(r, set, t, ws) ==
    \/ r = StayOpen(set, t, ws)
    \/ /\ r = CloseOpenWindow(set, t, ws)
       /\ HasUnbondingCapacity(set, ws[openWindow].owed, EntryCeiling)

\* A closing that rides along follows a plan for what its window owes.
LEMMA RidingAlongIsPlanned ==
    ASSUME NEW set, NEW t, NEW ws
    PROVE  PlannedClosing(CloseWindowIfOverdue(set, t, ws), set, t, ws)
  BY DEF PlannedClosing, CloseWindowIfOverdue, CanClose

(* What a closing takes from the entries and from the cached total is what *)
(* it asks the chain to undelegate, and no entry is asked for more than it *)
(* holds.                                                                  *)
LEMMA ClosingLegs ==
    ASSUME TypedQueue, NEW set \in Seq(ValidatorEntry), NEW t \in TotalsCache, NEW ws,
           TypedWindows(ws, nextWindowId), t.bonded = TotalBonded(set),
           NEW r, PlannedClosing(r, set, t, ws)
    PROVE  \E L \in [DOMAIN set -> Nat] :
               /\ r.legs = L
               /\ SameRows(r.set, set)
               /\ \A i \in DOMAIN set : r.set[i].bonded = set[i].bonded - L[i]
               /\ \A i \in DOMAIN set : L[i] <= set[i].bonded
               /\ r.totals.bonded = TotalBonded(r.set)
  <1> DEFINE owed == ws[openWindow].owed
             legs == PlanUndelegation(set, owed, EntryCeiling)
             none == [i \in DOMAIN set |-> 0]
  <1>1. owed \in Nat
    BY WindowFields DEF TypedQueue, TypedWindows
  <1>2. CASE r = StayOpen(set, t, ws)
    <2>1. r.set = set /\ r.totals = t /\ r.legs = none
      BY <1>2 DEF StayOpen
    <2>2. none \in [DOMAIN set -> Nat] /\ \A i \in DOMAIN set : none[i] = 0
      OBVIOUS
    <2> HIDE DEF none
    <2>3. \A i \in DOMAIN set : set[i].bonded \in Nat
      BY SetDomain, EntryFields
    <2>4. \A i \in DOMAIN set : /\ r.set[i].bonded = set[i].bonded - none[i]
                                /\ none[i] <= set[i].bonded
      BY <2>1, <2>2, <2>3
    <2>5. SameRows(r.set, set)
      BY <2>1 DEF SameRows, SameRow
    <2> QED BY <2>1, <2>2, <2>4, <2>5
  <1>3. CASE /\ r = CloseOpenWindow(set, t, ws)
             /\ HasUnbondingCapacity(set, owed, EntryCeiling)
    <2>1. r.set = WithLegs(set, legs) /\ r.totals = LiabilityInFlight(t, owed) /\ r.legs = legs
      BY <1>3 DEF CloseOpenWindow
    <2>2. legs \in [DOMAIN set -> Nat]
      BY <1>1, LegsNat
    <2>3. SumFunctionOnSet(legs, DOMAIN set) = owed /\ \A i \in DOMAIN set : legs[i] <= set[i].bonded
      BY <1>1, <1>3, PlanCovers
    <2> HIDE DEF legs, owed
    <2>4. /\ TotalBonded(set) = TotalBonded(r.set) + owed /\ TotalBonded(r.set) \in Nat
          /\ \A i \in DOMAIN set : r.set[i].bonded = set[i].bonded - legs[i]
      BY <2>1, <2>2, <2>3, TotalLessLegs
    <2>5. SameRows(r.set, set)
      BY <2>1, <2>2, LegRows
    <2>6. r.totals.bonded = SatSub(t.bonded, owed)
      BY <2>1 DEF LiabilityInFlight, TotalsCache
    <2>7. r.totals.bonded = TotalBonded(r.set)
      BY <1>1, <2>4, <2>6 DEF SatSub
    <2> QED BY <2>1, <2>2, <2>3, <2>4, <2>5, <2>7
  <1> QED BY <1>2, <1>3 DEF PlannedClosing

(* A closing takes from the cached total what it takes from the entries,   *)
(* and from the entries what the chain takes from the delegations.         *)
LEMMA ClosingTracks ==
    ASSUME TypedQueue, NEW set \in Seq(ValidatorEntry), Distinct(set),
           NEW t \in TotalsCache, NEW ws, TypedWindows(ws, nextWindowId),
           t.bonded = TotalBonded(set), NEW r, PlannedClosing(r, set, t, ws),
           NEW staked, NEW dl, \A v \in Validators : dl[v] = staked[v] - Leaving(r, v),
           staked \in [Validators -> Nat]
    PROVE  /\ r.totals.bonded = TotalBonded(r.set)
           /\ StakesTrue(set, staked) => StakesTrue(r.set, dl)
           /\ NowhereElse(set, staked) => NowhereElse(r.set, dl)
           /\ StakesTrue(set, staked) =>
                \A v \in Validators : Leaving(r, v) <= staked[v]
  <1>2. PICK L \in [DOMAIN set -> Nat] :
          /\ r.legs = L
          /\ SameRows(r.set, set)
          /\ \A i \in DOMAIN set : r.set[i].bonded = set[i].bonded - L[i]
          /\ \A i \in DOMAIN set : L[i] <= set[i].bonded
          /\ r.totals.bonded = TotalBonded(r.set)
    BY ClosingLegs
  <1>3. /\ DOMAIN r.set = DOMAIN set /\ AddressesIn(r.set) = AddressesIn(set)
        /\ Distinct(r.set) /\ IsFiniteSet(DOMAIN r.set)
        /\ \A i \in DOMAIN set : r.set[i].address = set[i].address
    <2>1. DOMAIN r.set = DOMAIN set /\ \A i \in DOMAIN set : r.set[i].address = set[i].address
      BY <1>2 DEF SameRows, SameRow
    <2>2. AddressesIn(r.set) = AddressesIn(set)
      BY <2>1 DEF AddressesIn
    <2>3. Distinct(r.set)
      BY <2>1 DEF Distinct
    <2>4. IsFiniteSet(DOMAIN r.set)
      BY <2>1, SetDomain
    <2> QED BY <2>1, <2>2, <2>3, <2>4
  <1>4. /\ \A i \in DOMAIN set : Leaving(r, set[i].address) = L[i]
        /\ \A v : v \notin AddressesIn(set) => Leaving(r, v) = 0
    BY <1>2, <1>3, LeavingIsTheLeg
  <1>5. ASSUME StakesTrue(set, staked) PROVE StakesTrue(r.set, dl)
    <2>1. ASSUME NEW i \in DOMAIN set PROVE r.set[i].bonded = dl[r.set[i].address]
      <3>1. set[i].address \in Validators
        BY SetDomain, EntryFields
      <3>2. dl[set[i].address] = staked[set[i].address] - L[i]
        BY <1>4, <3>1
      <3>3. set[i].bonded = staked[set[i].address]
        BY <1>5 DEF StakesTrue
      <3> QED BY <1>2, <1>3, <3>2, <3>3
    <2> QED BY <1>3, <2>1 DEF StakesTrue
  <1>6. ASSUME NowhereElse(set, staked) PROVE NowhereElse(r.set, dl)
    <2>1. ASSUME NEW v \in Validators, v \notin AddressesIn(set) PROVE dl[v] = 0
      <3>1. staked[v] = 0 /\ Leaving(r, v) = 0
        BY <1>4, <1>6, <2>1 DEF NowhereElse
      <3> QED BY <3>1
    <2> QED BY <1>3, <2>1 DEF NowhereElse
  <1>7. ASSUME StakesTrue(set, staked), NEW v \in Validators PROVE Leaving(r, v) <= staked[v]
    <2>1. CASE v \in AddressesIn(set)
      <3>1. PICK i \in DOMAIN set : set[i].address = v
        BY <2>1 DEF AddressesIn
      <3> QED BY <1>2, <1>4, <1>7, <3>1 DEF StakesTrue
    <2>2. CASE v \notin AddressesIn(set)
      BY <1>4, <2>2
    <2> QED BY <2>1, <2>2
  <1> QED BY <1>2, <1>5, <1>6, <1>7

DelegatedAt(d2, dl, a, amount) ==
    \A v \in Validators : d2[v] = IF v = a THEN dl[v] + amount ELSE dl[v]

(* Stake booked at an entry.                                               *)
LEMMA Booked ==
    ASSUME NEW set \in Seq(ValidatorEntry), NEW i \in DOMAIN set, NEW amount \in Nat,
           NEW g, g = [set EXCEPT ![i].bonded = @ + amount]
    PROVE  /\ SameRows(g, set) /\ g \in Seq(ValidatorEntry)
           /\ BookedAt(g, set, i, amount)
           /\ TotalBonded(g) = TotalBonded(set) + amount
  <1>1. SameRows(g, set)
    BY StakeRows
  <1>2. g \in Seq(ValidatorEntry)
    BY StakeAdded
  <1>3. BookedAt(g, set, i, amount)
    BY StakeRows DEF BookedAt
  <1>4. DOMAIN g = DOMAIN set /\ amount \in Int
    BY <1>1 DEF SameRows
  <1>5. TotalBonded(g) = TotalBonded(set) + amount
    BY <1>2, <1>3, <1>4, TotalAdded
  <1> QED BY <1>1, <1>2, <1>3, <1>5

(* Stake booked at one entry and delegated to its validator.               *)
LEMMA StakeTracks ==
    ASSUME NEW set \in Seq(ValidatorEntry), Distinct(set), NEW i \in DOMAIN set,
           NEW g, SameRows(g, set), NEW amount \in Nat, NEW dl, NEW d2,
           BookedAt(g, set, i, amount), DelegatedAt(d2, dl, set[i].address, amount)
    PROVE  /\ StakesTrue(set, dl) => StakesTrue(g, d2)
           /\ NowhereElse(set, dl) => NowhereElse(g, d2)
  <1>1. /\ DOMAIN g = DOMAIN set /\ AddressesIn(g) = AddressesIn(set)
        /\ \A j \in DOMAIN set : g[j].address = set[j].address
    <2>1. DOMAIN g = DOMAIN set /\ \A j \in DOMAIN set : g[j].address = set[j].address
      BY DEF SameRows, SameRow
    <2> QED BY <2>1 DEF AddressesIn
  <1>2. ASSUME StakesTrue(set, dl), NEW j \in DOMAIN set
        PROVE  g[j].bonded = d2[g[j].address]
    <2>1. set[j].address \in Validators /\ set[j].bonded = dl[set[j].address]
      BY <1>2, SetDomain, EntryFields DEF StakesTrue
    <2>2. set[j].address = set[i].address <=> j = i
      BY DEF Distinct
    <2> QED BY <1>1, <2>1, <2>2 DEF BookedAt, DelegatedAt
  <1>3. ASSUME NowhereElse(set, dl), NEW v \in Validators, v \notin AddressesIn(set)
        PROVE  d2[v] = 0
    <2>1. v # set[i].address
      BY <1>3 DEF AddressesIn
    <2> QED BY <1>3, <2>1 DEF NowhereElse, DelegatedAt
  <1> QED BY <1>1, <1>2, <1>3 DEF StakesTrue, NowhereElse

\* What is carried from step to step: the claim, and that nothing is
\* delegated to a validator without an entry.
Tracking(set, t, dl, slashes) ==
    /\ t.bonded = TotalBonded(set)
    /\ slashes = 0 => StakesTrue(set, dl)
    /\ NowhereElse(set, dl)

(* Rewritten rows that book the same stakes.                               *)
LEMMA SameStakesTrack ==
    ASSUME NEW set \in Seq(ValidatorEntry), NEW g \in Seq(ValidatorEntry), SameRows(g, set),
           \A j \in DOMAIN set : g[j].bonded = set[j].bonded,
           NEW t, NEW t2, t2.bonded = t.bonded, NEW dl, NEW n, Tracking(set, t, dl, n)
    PROVE  Tracking(g, t2, dl, n)
  <1>1. /\ DOMAIN g = DOMAIN set /\ AddressesIn(g) = AddressesIn(set)
        /\ \A j \in DOMAIN set : g[j].address = set[j].address
    <2>1. DOMAIN g = DOMAIN set /\ \A j \in DOMAIN set : g[j].address = set[j].address
      BY DEF SameRows, SameRow
    <2> QED BY <2>1 DEF AddressesIn
  <1>2. TotalBonded(g) = TotalBonded(set)
    BY <1>1, SameTotal
  <1> QED BY <1>1, <1>2 DEF Tracking, StakesTrue, NowhereElse

\* The seed is booked where it is delegated.
LEMMA BootstrapTracks ==
    ASSUME TypedParts, Distinct(validators), NEW seed \in Seeds, Bootstrap(seed),
           Tracking(validators, totals, delegated, seen["slashes"])
    PROVE  Tracking(validators', totals', delegated', seen'["slashes"])
  <1> DEFINE i == SelectForDelegation(validators, seed)
             a == validators[i].address
  <1>1. /\ validators \in Seq(ValidatorEntry) /\ seed \in Nat /\ totals \in TotalsCache
        /\ delegated \in [Validators -> Nat]
    BY InputsNat DEF TypedParts, TypedSet, TypedChain
  <1>2. i \in DOMAIN validators
    BY <1>1, SelectsActive DEF Bootstrap, AcceptsStake
  <1>3. /\ validators' = [validators EXCEPT ![i].bonded = @ + seed]
        /\ totals'.bonded = totals.bonded + seed
        /\ delegated' = [delegated EXCEPT ![a] = @ + seed]
        /\ seen' = seen
    BY <1>1 DEF Bootstrap, TotalsCache
  <1>4. DelegatedAt(delegated', delegated, a, seed)
    BY <1>1, <1>3 DEF DelegatedAt
  <1> HIDE DEF i
  <1>5. /\ SameRows(validators', validators) /\ BookedAt(validators', validators, i, seed)
        /\ TotalBonded(validators') = TotalBonded(validators) + seed
    BY <1>1, <1>2, <1>3, Booked
  <1>6. /\ StakesTrue(validators, delegated) => StakesTrue(validators', delegated')
        /\ NowhereElse(validators, delegated) => NowhereElse(validators', delegated')
    BY <1>1, <1>2, <1>4, <1>5, StakeTracks
  <1> QED BY <1>3, <1>5, <1>6 DEF Tracking

\* A closing that is called for takes from the chain what it books.
LEMMA AdvanceTracks ==
    ASSUME TypedParts, Distinct(validators), AdvanceWindow,
           Tracking(validators, totals, delegated, seen["slashes"])
    PROVE  Tracking(validators', totals', delegated', seen'["slashes"])
  <1> DEFINE r == CloseOpenWindow(validators, totals, windows)
  <1>1. /\ validators' = r.set /\ totals' = r.totals /\ seen' = seen
        /\ delegated' = [v \in Validators |-> delegated[v] - Leaving(r, v)]
        /\ CanClose(validators, windows[openWindow])
    BY DEF AdvanceWindow, Commit, Undelegated
  <1>2. PlannedClosing(r, validators, totals, windows)
    BY <1>1 DEF PlannedClosing, CanClose
  <1> HIDE DEF r
  <1>3. /\ TypedQueue /\ validators \in Seq(ValidatorEntry) /\ totals \in TotalsCache
        /\ TypedWindows(windows, nextWindowId) /\ delegated \in [Validators -> Nat]
        /\ totals.bonded = TotalBonded(validators)
    BY DEF TypedParts, TypedSet, TypedQueue, TypedChain, Tracking
  <1>4. \A v \in Validators : delegated'[v] = delegated[v] - Leaving(r, v)
    BY <1>1
  <1>5. /\ r.totals.bonded = TotalBonded(r.set)
        /\ StakesTrue(validators, delegated) => StakesTrue(r.set, delegated')
        /\ NowhereElse(validators, delegated) => NowhereElse(r.set, delegated')
    BY <1>2, <1>3, <1>4, ClosingTracks
  <1> QED BY <1>1, <1>5 DEF Tracking

(* The whole set re-read is the chain's.                                   *)
LEMMA RefreshedTracks ==
    ASSUME TypedParts, NowhereElse(validators, delegated)
    PROVE  /\ RefreshedSet \in Seq(ValidatorEntry) /\ SameRows(RefreshedSet, validators)
           /\ RefreshedTotals \in TotalsCache
           /\ RefreshedTotals.bonded = TotalBonded(RefreshedSet)
           /\ StakesTrue(RefreshedSet, delegated) /\ NowhereElse(RefreshedSet, delegated)
  <1>1. /\ RefreshedSet \in Seq(ValidatorEntry) /\ SameRows(RefreshedSet, validators)
        /\ \A j \in DOMAIN validators :
              RefreshedSet[j].bonded = delegated[validators[j].address]
    BY RefreshTyped, PageRows DEF TypedParts, RefreshedSet
  <1>2. /\ DOMAIN RefreshedSet = DOMAIN validators
        /\ \A j \in DOMAIN validators : RefreshedSet[j].address = validators[j].address
    BY <1>1 DEF SameRows, SameRow
  <1>3. AddressesIn(RefreshedSet) = AddressesIn(validators)
    BY <1>2 DEF AddressesIn
  <1>4. RefreshedTotals \in TotalsCache /\ RefreshedTotals.bonded = TotalBonded(RefreshedSet)
    BY RefreshTyped DEF TypedParts, RefreshedTotals, TotalsCache
  <1> QED BY <1>1, <1>2, <1>3, <1>4 DEF StakesTrue, NowhereElse

(* What a request plans from is the chain's own state.                     *)
LEMMA RequestPlans ==
    ASSUME TypedParts, NowhereElse(validators, delegated), NEW shares \in Requests
    PROVE  \E t \in TotalsCache : \E ws :
             /\ PlannedClosing(RequestPlaced(shares), RefreshedSet, t, ws)
             /\ TypedWindows(ws, nextWindowId) /\ t.bonded = TotalBonded(RefreshedSet)
             /\ t.owedMatured = totals.owedMatured
             /\ t.owedOpen = totals.owedOpen + AssetsForShares(shares, RequestPool)
             /\ ws[openWindow].owed
                  = windows[openWindow].owed + AssetsForShares(shares, RequestPool)
  <1> DEFINE owed == AssetsForShares(shares, RequestPool)
             ws   == [windows EXCEPT ![openWindow].shares = @ + shares,
                                     ![openWindow].owed = @ + owed]
             t    == [RefreshedTotals EXCEPT !.supply = SatSub(@, shares),
                                             !.owedOpen = @ + owed]
  <1>1. PlannedClosing(RequestPlaced(shares), RefreshedSet, t, ws)
    BY RidingAlongIsPlanned DEF RequestPlaced
  <1>2. t \in TotalsCache /\ TypedWindows(ws, nextWindowId)
    BY JoinedTyped
  <1>3. /\ t.bonded = RefreshedTotals.bonded
        /\ t.owedMatured = RefreshedTotals.owedMatured
        /\ t.owedOpen = RefreshedTotals.owedOpen + owed
    <2>1. RefreshedTotals \in TotalsCache
      BY RefreshTyped DEF TypedParts
    <2> HIDE DEF owed
    <2> QED BY <2>1 DEF TotalsCache
  <1>4. RefreshedTotals.owedMatured = totals.owedMatured
        /\ RefreshedTotals.owedOpen = totals.owedOpen
    BY DEF RefreshedTotals, TypedParts, TotalsCache
  <1>5. ws[openWindow].owed = windows[openWindow].owed + owed
    <2>1. PICK w \in AWindow : w = windows[openWindow] /\ openWindow \in DOMAIN windows
      BY DEF TypedParts, TypedQueue, TypedWindows
    <2> HIDE DEF owed
    <2>2. ws[openWindow] = [w EXCEPT !.shares = @ + shares, !.owed = @ + owed]
      BY <2>1
    <2> QED BY <2>1, <2>2 DEF AWindow, UnbondWindow
  <1> HIDE DEF t, ws
  <1>6. RefreshedTotals.bonded = TotalBonded(RefreshedSet)
    BY RefreshedTracks
  <1> QED BY <1>1, <1>2, <1>3, <1>4, <1>5, <1>6

\* So does a request's, which rides along.
LEMMA RequestTracks ==
    ASSUME TypedParts, Distinct(validators), NEW u \in Users, NEW shares \in Requests,
           Unbond(u, shares), Tracking(validators, totals, delegated, seen["slashes"])
    PROVE  Tracking(validators', totals', delegated', seen'["slashes"])
  <1> DEFINE r == RequestPlaced(shares)
  <1>1. /\ validators' = r.set /\ totals' = r.totals
        /\ delegated' = [v \in Validators |-> delegated[v] - Leaving(r, v)]
        /\ seen' = [seen EXCEPT !["requests"] = @ + 1]
    BY DEF Unbond, Commit, Undelegated, Count
  <1>2. PICK t \in TotalsCache : \E ws :
             /\ PlannedClosing(r, RefreshedSet, t, ws)
             /\ TypedWindows(ws, nextWindowId) /\ t.bonded = TotalBonded(RefreshedSet)
    BY RequestPlans DEF Tracking
  <1> HIDE DEF r
  <1>3. /\ RefreshedSet \in Seq(ValidatorEntry) /\ SameRows(RefreshedSet, validators)
        /\ StakesTrue(RefreshedSet, delegated) /\ NowhereElse(RefreshedSet, delegated)
    BY RefreshedTracks DEF Tracking
  <1>4. Distinct(RefreshedSet)
    BY <1>3 DEF SameRows, SameRow, Distinct
  <1>5. TypedQueue /\ delegated \in [Validators -> Nat]
    BY DEF TypedParts, TypedChain
  <1>6. \A v \in Validators : delegated'[v] = delegated[v] - Leaving(r, v)
    BY <1>1
  <1>7. /\ r.totals.bonded = TotalBonded(r.set)
        /\ StakesTrue(RefreshedSet, delegated) => StakesTrue(r.set, delegated')
        /\ NowhereElse(RefreshedSet, delegated) => NowhereElse(r.set, delegated')
    BY <1>2, <1>3, <1>4, <1>5, <1>6, ClosingTracks
  <1> QED BY <1>1, <1>3, <1>7 DEF Tracking

(* So is what a deposit plans from, with the deposit in it.                *)
LEMMA DepositPlans ==
    ASSUME TypedParts, Distinct(validators), NowhereElse(validators, delegated),
           NEW amount \in Deposits, AcceptsStake(RefreshedSet) # {}
    PROVE  \E set \in Seq(ValidatorEntry), t \in TotalsCache :
             /\ PlannedClosing(DepositPlaced(amount), set, t, windows)
             /\ Distinct(set) /\ t.bonded = TotalBonded(set)
             /\ t.bonded = TotalBonded(RefreshedSet) + amount
             /\ t.owedOpen = totals.owedOpen /\ t.owedMatured = totals.owedMatured
             /\ DepositStaked(amount) \in [Validators -> Nat]
             /\ StakesTrue(set, DepositStaked(amount))
             /\ NowhereElse(set, DepositStaked(amount))
  <1> DEFINE i      == SelectForDelegation(RefreshedSet, amount)
             shares == SharesForDeposit(amount, DepositPool(amount))
             set    == [RefreshedSet EXCEPT ![i].bonded = @ + amount]
             t      == [RefreshedTotals EXCEPT !.bonded = @ + amount,
                                               !.supply = @ + shares]
             staked == DepositStaked(amount)
  <1>2. PlannedClosing(DepositPlaced(amount), set, t, windows)
    BY RidingAlongIsPlanned DEF DepositPlaced
  <1>3. /\ RefreshedSet \in Seq(ValidatorEntry) /\ SameRows(RefreshedSet, validators)
        /\ RefreshedTotals \in TotalsCache
        /\ RefreshedTotals.bonded = TotalBonded(RefreshedSet)
        /\ StakesTrue(RefreshedSet, delegated) /\ NowhereElse(RefreshedSet, delegated)
        /\ amount \in Nat
    BY RefreshedTracks, InputsNat
  <1>4. Distinct(RefreshedSet)
    BY <1>3 DEF SameRows, SameRow, Distinct
  <1>5. TypedQueue /\ delegated \in [Validators -> Nat] /\ TypedWindows(windows, nextWindowId)
    BY DEF TypedParts, TypedChain, TypedQueue
  <1>6. i \in DOMAIN RefreshedSet
    BY <1>3, SelectsActive DEF AcceptsStake
  <1>7. set = [RefreshedSet EXCEPT ![i].bonded = @ + amount]
    OBVIOUS
  <1>8. t \in TotalsCache /\ t.bonded = RefreshedTotals.bonded + amount
    <2>1. shares \in Nat
      <3>1. balance + amount \in Nat
        BY <1>3 DEF TypedParts, TypedChain
      <3>2. DepositPool(amount) \in PoolTotals
        BY <1>3, <3>1, PoolTyped DEF DepositPool, TypedParts
      <3> QED BY <1>3, <3>2, SharesForDepositNat
    <2>2. RefreshedTotals.bonded \in Nat /\ RefreshedTotals.supply \in Nat
      BY <1>3, TotalsFields
    <2>3. RefreshedTotals.bonded + amount \in Nat /\ RefreshedTotals.supply + shares \in Nat
      BY <1>3, <2>1, <2>2
    <2> HIDE DEF shares
    <2> QED BY <1>3, <2>3 DEF TotalsCache
  <1>10. t.owedOpen = totals.owedOpen /\ t.owedMatured = totals.owedMatured
    <2>1. /\ RefreshedTotals.owedOpen = totals.owedOpen
          /\ RefreshedTotals.owedMatured = totals.owedMatured
      BY DEF RefreshedTotals, TypedParts, TotalsCache
    <2> HIDE DEF shares
    <2> QED BY <1>3, <2>1 DEF TotalsCache
  <1>9. /\ staked \in [Validators -> Nat]
        /\ DelegatedAt(staked, delegated, RefreshedSet[i].address, amount)
    <2>1. RefreshedSet[i].address \in Validators
      BY <1>3, <1>6, SetDomain, EntryFields
    <2>2. staked = [delegated EXCEPT ![RefreshedSet[i].address] = @ + amount]
      BY DEF DepositStaked, DepositTarget
    <2> HIDE DEF i, staked
    <2> QED BY <1>3, <1>5, <2>1, <2>2 DEF DelegatedAt
  <1> HIDE DEF i, shares, set, t, staked
  <1>11. /\ SameRows(set, RefreshedSet) /\ set \in Seq(ValidatorEntry)
         /\ BookedAt(set, RefreshedSet, i, amount)
         /\ TotalBonded(set) = TotalBonded(RefreshedSet) + amount
    BY <1>3, <1>6, <1>7, Booked
  <1>12. StakesTrue(set, staked) /\ NowhereElse(set, staked)
    BY <1>3, <1>4, <1>6, <1>9, <1>11, StakeTracks
  <1>13. Distinct(set)
    BY <1>4, <1>11 DEF SameRows, SameRow, Distinct
  <1>14. t.bonded = TotalBonded(set)
    BY <1>3, <1>8, <1>11
  <1>15. t.bonded = TotalBonded(RefreshedSet) + amount
    BY <1>11, <1>14
  <1> QED BY <1>2, <1>7, <1>8, <1>9, <1>10, <1>11, <1>12, <1>13, <1>14, <1>15 DEF staked

\* A deposit is booked where it is delegated, and its closing as before.
LEMMA DepositTracks ==
    ASSUME TypedParts, Distinct(validators), NEW u \in Users, NEW amount \in Deposits,
           Deposit(u, amount), Tracking(validators, totals, delegated, seen["slashes"])
    PROVE  Tracking(validators', totals', delegated', seen'["slashes"])
  <1> DEFINE r == DepositPlaced(amount)
             staked == DepositStaked(amount)
  <1>1. /\ validators' = r.set /\ totals' = r.totals
        /\ delegated' = [v \in Validators |-> staked[v] - Leaving(r, v)]
        /\ seen' = [seen EXCEPT !["deposits"] = @ + 1]
        /\ AcceptsStake(RefreshedSet) # {}
    BY DEF Deposit, DepositAccepted, Commit, Undelegated, Count
  <1>2. PICK set \in Seq(ValidatorEntry), t \in TotalsCache :
             /\ PlannedClosing(r, set, t, windows)
             /\ Distinct(set) /\ t.bonded = TotalBonded(set)
             /\ staked \in [Validators -> Nat]
             /\ StakesTrue(set, staked) /\ NowhereElse(set, staked)
    BY <1>1, DepositPlans DEF Tracking
  <1> HIDE DEF r, staked
  <1>3. TypedQueue /\ TypedWindows(windows, nextWindowId)
    BY DEF TypedParts, TypedQueue
  <1>4. \A v \in Validators : delegated'[v] = staked[v] - Leaving(r, v)
    BY <1>1
  <1>5. /\ r.totals.bonded = TotalBonded(r.set)
        /\ StakesTrue(set, staked) => StakesTrue(r.set, delegated')
        /\ NowhereElse(set, staked) => NowhereElse(r.set, delegated')
    BY <1>2, <1>3, <1>4, ClosingTracks
  <1> QED BY <1>1, <1>2, <1>5 DEF Tracking

(* A page re-read, and its totals taken.                                   *)
LEMMA SyncTracks ==
    ASSUME TypedParts, NEW limit \in PageLimits, Sync(limit),
           Tracking(validators, totals, delegated, seen["slashes"])
    PROVE  Tracking(validators', totals', delegated', seen'["slashes"])
  <1>1. /\ validators' = ReadPage(Page(limit)) /\ delegated' = delegated /\ seen' = seen
        /\ totals'.bonded = TotalBonded(ReadPage(Page(limit)))
    BY DEF Sync, chainVars, TypedParts, TotalsCache
  <1>2. /\ SameRows(validators', validators)
        /\ \A i \in DOMAIN validators : validators'[i].bonded =
              IF i \in Page(limit) THEN delegated[validators[i].address]
              ELSE validators[i].bonded
    BY <1>1, PageRows DEF TypedParts
  <1>3. /\ DOMAIN validators' = DOMAIN validators
        /\ \A j \in DOMAIN validators : validators'[j].address = validators[j].address
    BY <1>2 DEF SameRows, SameRow
  <1>4. AddressesIn(validators') = AddressesIn(validators)
    BY <1>3 DEF AddressesIn
  <1>5. seen["slashes"] = 0 => StakesTrue(validators', delegated)
    BY <1>2, <1>3 DEF Tracking, StakesTrue
  <1> QED BY <1>1, <1>4, <1>5 DEF Tracking, NowhereElse

(* The page harvested, and the harvest delegated again.                    *)
LEMMA CompoundTracks ==
    ASSUME TypedParts, Distinct(validators), NEW limit \in PageLimits, Compound(limit),
           Tracking(validators, totals, delegated, seen["slashes"])
    PROVE  Tracking(validators', totals', delegated', seen'["slashes"])
  <1> DEFINE h == HarvestedSet(limit)
             x == Harvested(limit)
             i == RestakeIndex(limit)
  <1>1. /\ validators' = RestakedSet(limit) /\ seen' = seen
        /\ totals'.bonded = TotalBonded(RestakedSet(limit))
        /\ delegated' = [v \in Validators |->
              delegated[v] + IF v \in RestakedAt(limit) THEN x ELSE 0]
        /\ x > 0 => AcceptsStake(h) # {}
    BY DEF Compound, TotalsAfterCompound, TypedParts, TotalsCache
  <1>2. h \in Seq(ValidatorEntry) /\ x \in Nat
    BY HarvestTyped
  <1>3. /\ SameRows(h, validators)
        /\ \A j \in DOMAIN validators : h[j].bonded =
              IF j \in Page(limit) /\ Delegates(validators[j].address)
              THEN delegated[validators[j].address] ELSE validators[j].bonded
    BY HarvestedRows DEF TypedParts
  <1>4. delegated \in [Validators -> Nat] /\ validators \in Seq(ValidatorEntry)
    BY DEF TypedParts, TypedSet, TypedChain
  <1>5. RestakedAt(limit) = IF x = 0 THEN {} ELSE {validators[i].address}
    BY DEF RestakedAt
  <1>6. RestakedSet(limit) = IF x = 0 THEN h ELSE [h EXCEPT ![i].bonded = @ + x]
    BY DEF RestakedSet
  <1>7. x # 0 => i \in DOMAIN h
    BY <1>1, <1>2, SelectsActive DEF AcceptsStake, RestakeIndex
  <1> HIDE DEF h, x, i
  <1>8. /\ DOMAIN h = DOMAIN validators
        /\ \A j \in DOMAIN validators : h[j].address = validators[j].address
    BY <1>3 DEF SameRows, SameRow
  <1>9. NowhereElse(h, delegated) /\ Distinct(h)
    <2>1. AddressesIn(h) = AddressesIn(validators)
      BY <1>8 DEF AddressesIn
    <2> QED BY <1>8, <2>1 DEF Tracking, NowhereElse, Distinct
  <1>10. seen["slashes"] = 0 => StakesTrue(h, delegated)
    <2>1. ASSUME StakesTrue(validators, delegated), NEW j \in DOMAIN validators
          PROVE  h[j].bonded = delegated[h[j].address]
      BY <1>3, <1>8, <2>1 DEF StakesTrue
    <2> QED BY <1>8, <2>1 DEF Tracking, StakesTrue
  <1>11. /\ StakesTrue(h, delegated) => StakesTrue(validators', delegated')
         /\ NowhereElse(h, delegated) => NowhereElse(validators', delegated')
    <2>1. CASE x = 0
      <3>1. validators' = h
        BY <1>1, <1>6, <2>1
      <3>2. \A v \in Validators : delegated'[v] = delegated[v]
        BY <1>1, <1>4, <1>5, <2>1
      <3>3. \A j \in DOMAIN h : h[j].address \in Validators
        BY <1>2, SetDomain, EntryFields
      <3> QED BY <3>1, <3>2, <3>3 DEF StakesTrue, NowhereElse
    <2>2. CASE x # 0
      <3>1. validators' = [h EXCEPT ![i].bonded = @ + x] /\ i \in DOMAIN h
        BY <1>1, <1>6, <1>7, <2>2
      <3>2. DelegatedAt(delegated', delegated, h[i].address, x)
        <4>1. RestakedAt(limit) = {h[i].address}
          BY <1>5, <1>8, <2>2, <3>1
        <4>2. ASSUME NEW v \in Validators
              PROVE  delegated'[v] = IF v = h[i].address THEN delegated[v] + x ELSE delegated[v]
          <5>1. delegated[v] \in Nat
            BY <1>4
          <5>2. delegated'[v] = delegated[v] + IF v = h[i].address THEN x ELSE 0
            BY <1>1, <4>1
          <5> QED BY <1>2, <5>1, <5>2
        <4> QED BY <4>2 DEF DelegatedAt
      <3>3. SameRows(validators', h) /\ BookedAt(validators', h, i, x)
        BY <1>2, <3>1, Booked
      <3> QED BY <1>2, <1>9, <3>1, <3>2, <3>3, StakeTracks
    <2> QED BY <2>1, <2>2
  <1> QED BY <1>1, <1>9, <1>10, <1>11 DEF Tracking

(* An entry may be added for a validator that holds nothing.               *)
LEMMA AssignmentTracks ==
    ASSUME NEW set \in Seq(ValidatorEntry), NEW weights \in Seq(ValidatorInit),
           NEW t, NEW dl, NEW n, Tracking(set, t, dl, n)
    PROVE  Tracking(ApplyWeights(set, weights), t, dl, n)
  <1> DEFINE g == ApplyWeights(set, weights)
  <1>1. /\ TotalBonded(g) = TotalBonded(set)
        /\ \A i \in DOMAIN set : /\ i \in DOMAIN g
                                 /\ g[i].bonded = set[i].bonded
                                 /\ g[i].address = set[i].address
        /\ \A i \in DOMAIN g \ DOMAIN set : /\ g[i].bonded = 0
                                            /\ g[i].address \notin AddressesIn(set)
                                            /\ g[i].address \in Validators
    BY AssignmentKeepsTotal
  <1> HIDE DEF g
  <1>2. ASSUME StakesTrue(set, dl), NowhereElse(set, dl) PROVE StakesTrue(g, dl)
    BY <1>1, <1>2 DEF StakesTrue, NowhereElse
  <1>3. ASSUME NowhereElse(set, dl) PROVE NowhereElse(g, dl)
    <2>1. AddressesIn(set) \in SUBSET AddressesIn(g)
      BY <1>1 DEF AddressesIn
    <2> QED BY <1>3, <2>1 DEF NowhereElse
  <1>4. Tracking(g, t, dl, n)
    BY <1>1, <1>2, <1>3 DEF Tracking
  <1> QED BY <1>4 DEF g

(* What one entry loses the other gains, and so do their delegations.      *)
LEMMA MoveTracks ==
    ASSUME TypedParts, Distinct(validators), NEW move \in Moves, Rebalance(move),
           Tracking(validators, totals, delegated, seen["slashes"])
    PROVE  Tracking(validators', totals', delegated', seen'["slashes"])
  <1> DEFINE i == IndexOf(move.from)
             k == IndexOf(move.to)
             x == move.amount
             mid == [validators EXCEPT ![k].bonded = @ + x]
  <1>1. /\ SameRows(validators', validators)
        /\ i \in DOMAIN validators /\ k \in DOMAIN validators /\ i # k
        /\ validators[i].address = move.from /\ validators[k].address = move.to
        /\ \A j \in DOMAIN validators : validators'[j].bonded =
              IF j = i THEN validators[j].bonded - x
              ELSE IF j = k THEN validators[j].bonded + x
              ELSE validators[j].bonded
    BY MovedRows
  <1>2. /\ validators \in Seq(ValidatorEntry) /\ validators' \in Seq(ValidatorEntry)
        /\ delegated \in [Validators -> Nat]
    <2>1. TypedParts'
      BY TypedRebalance
    <2> QED BY <2>1 DEF TypedParts, TypedSet, TypedChain
  <1>3. x \in Nat /\ move.from \in Validators /\ move.to \in Validators
    BY ConstantsAreTyped
  <1>4. /\ totals' = totals /\ seen' = seen /\ move.from # move.to
        /\ delegated' = [delegated EXCEPT ![move.from] = @ - x, ![move.to] = @ + x]
    BY DEF Rebalance
  <1>5. \A v \in Validators : delegated'[v] =
            IF v = move.from THEN delegated[v] - x
            ELSE IF v = move.to THEN delegated[v] + x ELSE delegated[v]
    BY <1>2, <1>3, <1>4
  <1>6. mid = [validators EXCEPT ![k].bonded = @ + x]
    OBVIOUS
  <1> HIDE DEF i, k, x, mid
  <1>7. /\ SameRows(mid, validators) /\ mid \in Seq(ValidatorEntry)
        /\ BookedAt(mid, validators, k, x)
        /\ TotalBonded(mid) = TotalBonded(validators) + x
    BY <1>1, <1>2, <1>3, <1>6, Booked, ZenonT(30)
  <1>8. BookedAt(validators', mid, i, -x)
    <2>1. DOMAIN mid = DOMAIN validators
      BY <1>7 DEF SameRows
    <2>2. \A j \in DOMAIN validators : validators[j].bonded \in Nat
      BY <1>2, SetDomain, EntryFields
    <2> QED BY <1>1, <1>3, <1>7, <2>1, <2>2 DEF BookedAt
  <1>9. TotalBonded(validators') = TotalBonded(mid) + (-x)
    <2>1. DOMAIN validators' = DOMAIN mid /\ i \in DOMAIN mid /\ -x \in Int
      BY <1>1, <1>3, <1>7 DEF SameRows
    <2> QED BY <1>2, <1>7, <1>8, <2>1, TotalAdded
  <1>10. TotalBonded(validators') = TotalBonded(validators)
    <2>1. TotalBonded(validators) \in Nat
      <3>1. /\ StakesOf(validators) \in [DOMAIN validators -> Nat]
            /\ IsFiniteSet(DOMAIN validators)
            /\ TotalBonded(validators) = SumFunctionOnSet(StakesOf(validators), DOMAIN validators)
        BY <1>2, TotalIsSum
      <3>2. \A j \in DOMAIN validators : StakesOf(validators)[j] \in Nat
        BY <3>1
      <3> HIDE DEF StakesOf
      <3> QED BY <3>1, <3>2, SumNat
    <2> QED BY <1>3, <1>7, <1>9, <2>1
  <1>11. /\ DOMAIN validators' = DOMAIN validators
         /\ \A j \in DOMAIN validators : validators'[j].address = validators[j].address
    BY <1>1 DEF SameRows, SameRow
  <1>12. ASSUME StakesTrue(validators, delegated), NEW j \in DOMAIN validators
         PROVE  validators'[j].bonded = delegated'[validators'[j].address]
    <2>1. validators[j].address \in Validators
          /\ validators[j].bonded = delegated[validators[j].address]
      BY <1>2, <1>12, SetDomain, EntryFields DEF StakesTrue
    <2>2. /\ validators[j].address = move.from <=> j = i
          /\ validators[j].address = move.to <=> j = k
      BY <1>1 DEF Distinct
    <2> QED BY <1>1, <1>5, <1>11, <2>1, <2>2
  <1>13. ASSUME NEW v \in Validators, v \notin AddressesIn(validators) PROVE delegated'[v] = 0
    <2>1. v # move.from /\ v # move.to
      BY <1>1, <1>13 DEF AddressesIn
    <2> QED BY <1>5, <1>13, <2>1 DEF Tracking, NowhereElse
  <1>14. AddressesIn(validators') = AddressesIn(validators)
    BY <1>11 DEF AddressesIn
  <1> QED BY <1>4, <1>10, <1>11, <1>12, <1>13, <1>14 DEF Tracking, StakesTrue, NowhereElse

\* A slash ends the promise, which is about chains that have slashed nothing.
LEMMA SlashTracks ==
    ASSUME TypedParts, NEW v \in Validators, Slash(v),
           Tracking(validators, totals, delegated, seen["slashes"])
    PROVE  Tracking(validators', totals', delegated', seen'["slashes"])
  <1>1. /\ validators' = validators /\ totals' = totals
        /\ delegated' = [delegated EXCEPT ![v] = AfterSlash(@)]
        /\ seen' = [seen EXCEPT !["slashes"] = @ + 1]
    BY DEF Slash, contractVars, Count
  <1>2. delegated \in [Validators -> Nat] /\ seen \in [Events -> Nat]
    BY DEF TypedParts, TypedChain, TypedSeen
  <1>3. seen'["slashes"] # 0
    <2>1. "slashes" \in Events
      BY DEF Events
    <2> QED BY <1>1, <1>2, <2>1
  <1>4. AfterSlash(0) = 0
    <2>1. MulDivFloor(0, SlashBps, BPS_DENOM) = 0
      <3>1. SlashBps \in Nat /\ BPS_DENOM \in Nat \ {0}
        BY ConstantsAreTyped DEF BPS_DENOM
      <3>2. 0 * SlashBps = 0
        BY <3>1
      <3> QED BY <3>1, <3>2 DEF MulDivFloor, BPS_DENOM
    <2> QED BY <2>1 DEF AfterSlash
  <1>5. ASSUME NEW w \in Validators, w \notin AddressesIn(validators) PROVE delegated'[w] = 0
    BY <1>1, <1>2, <1>4, <1>5 DEF Tracking, NowhereElse
  <1> QED BY <1>1, <1>3, <1>5 DEF Tracking, NowhereElse

(* Maturing windows frees slots and moves no stake.                        *)
LEMMA MaturityTracks ==
    ASSUME TypedParts, NEW ids \in SUBSET DueWindows, NEW t2, t2.bonded = totals.bonded,
           Tracking(validators, totals, delegated, seen["slashes"])
    PROVE  Tracking(Released(ids), t2, delegated, seen["slashes"])
  <1>1. ids \in SUBSET WindowIds
    BY DEF DueWindows, TypedParts, TypedQueue, TypedWindows, WindowIds
  <1>2. /\ SameRows(Released(ids), validators)
        /\ \A j \in DOMAIN validators : Released(ids)[j].bonded = validators[j].bonded
    BY <1>1, ReleasedRows DEF TypedParts
  <1>3. Released(ids) \in Seq(ValidatorEntry) /\ validators \in Seq(ValidatorEntry)
    BY <1>1, ReleasedTyped DEF TypedParts, TypedSet
  <1> QED BY <1>2, <1>3, SameStakesTrack

\* Every step keeps the cache on the chain's figures.
LEMMA TrackingStep ==
    ASSUME TypedParts, Distinct(validators), [Next]_vars,
           Tracking(validators, totals, delegated, seen["slashes"])
    PROVE  Tracking(validators', totals', delegated', seen'["slashes"])
  <1> DEFINE Kept == Tracking(validators', totals', delegated', seen'["slashes"])
  <1>1. ASSUME validators' = validators, totals' = totals, delegated' = delegated,
               seen'["slashes"] = seen["slashes"]
        PROVE  Kept
    BY <1>1
  <1>2. ASSUME NEW seed \in Seeds, Bootstrap(seed) PROVE Kept
    BY <1>2, BootstrapTracks
  <1>3. ASSUME NEW u \in Users, NEW amount \in Deposits, Deposit(u, amount) PROVE Kept
    BY <1>3, DepositTracks
  <1>4. ASSUME NEW u \in Users, NEW shares \in Requests, Unbond(u, shares) PROVE Kept
    BY <1>4, RequestTracks
  <1>5. ASSUME NEW u \in Users, NEW list \in ClaimLists, ClaimMatured(u, list) PROVE Kept
    <2>1. /\ validators' = Released(DueWindows) /\ delegated' = delegated /\ seen' = seen
          /\ totals' = [LiabilityArrived(DueWindows) EXCEPT
                          !.owedMatured = SatSub(@, PaidTo(u, ClaimIds(u, list)))]
      BY <1>5 DEF ClaimMatured, stakingVars
    <2>2. totals'.bonded = totals.bonded
      BY <2>1 DEF LiabilityArrived, TypedParts, TotalsCache
    <2> QED BY <2>1, <2>2, MaturityTracks
  <1>6. CASE AdvanceWindow
    BY <1>6, AdvanceTracks
  <1>7. ASSUME NEW limit \in CollectLimits, CollectMatured(limit) PROVE Kept
    <2>1. /\ validators' = Released(Collected(limit)) /\ delegated' = delegated /\ seen' = seen
          /\ totals' = LiabilityArrived(Collected(limit))
      BY <1>7 DEF CollectMatured, chainVars
    <2>2. totals'.bonded = totals.bonded
      BY <2>1 DEF LiabilityArrived, TypedParts, TotalsCache
    <2>3. Collected(limit) \in SUBSET DueWindows
      BY DEF Collected
    <2> QED BY <2>1, <2>2, <2>3, MaturityTracks
  <1>8. ASSUME NEW limit \in PageLimits, Sync(limit) PROVE Kept
    BY <1>8, SyncTracks
  <1>9. ASSUME NEW limit \in PageLimits, Compound(limit) PROVE Kept
    BY <1>9, CompoundTracks
  <1>10. ASSUME NEW weights \in WeightChoices, SetWeights(weights) PROVE Kept
    <2>1. /\ validators' = ApplyWeights(validators, weights) /\ totals' = totals
          /\ delegated' = delegated /\ seen' = seen
      BY <1>10 DEF SetWeights, chainVars
    <2>2. validators \in Seq(ValidatorEntry) /\ weights \in Seq(ValidatorInit)
      BY InputsNat DEF TypedParts, TypedSet
    <2> QED BY <2>1, <2>2, AssignmentTracks
  <1>11. ASSUME NEW move \in Moves, Rebalance(move) PROVE Kept
    BY <1>11, MoveTracks
  <1>12. ASSUME NEW v \in Validators, Slash(v) PROVE Kept
    BY <1>12, SlashTracks
  <1>13. CASE UserAction
    BY <1>2, <1>3, <1>4, <1>5, <1>13 DEF UserAction
  <1>14. CASE UpkeepAction
    BY <1>6, <1>7, <1>8, <1>9, <1>14 DEF UpkeepAction
  <1>15. CASE ManagerAction
    <2>1. ASSUME NEW bps \in FeeChoices, SetPerformanceFee(bps) PROVE Kept
      BY <1>1, <2>1 DEF SetPerformanceFee, chainVars
    <2>2. ASSUME NEW paused \in PauseChoices, SetPaused(paused) PROVE Kept
      BY <1>1, <2>2 DEF SetPaused, chainVars
    <2>3. ASSUME Migrate PROVE Kept
      BY <1>1, <2>3 DEF Migrate, stakingVars, Count
    <2> QED BY <1>10, <1>11, <1>15, <2>1, <2>2, <2>3 DEF ManagerAction
  <1>16. CASE ChainAction
    <2>1. ASSUME NextBlock PROVE Kept
      BY <1>1, <2>1 DEF NextBlock, contractVars
    <2>2. ASSUME NEW v \in Validators, NEW amount \in Rewards, AccrueRewards(v, amount)
          PROVE  Kept
      BY <1>1, <2>2 DEF AccrueRewards, contractVars, Count
    <2>3. ASSUME NEW u \in Users, NEW shares \in Requests, BurnOwnShares(u, shares)
          PROVE  Kept
      BY <1>1, <2>3 DEF BurnOwnShares, contractVars, stakingVars, Count
    <2>4. ASSUME NEW amount \in Deposits, Donate(amount) PROVE Kept
      BY <1>1, <2>4 DEF Donate, contractVars, stakingVars, Count
    <2> QED BY <1>12, <1>16, <2>1, <2>2, <2>3, <2>4 DEF ChainAction
  <1>17. CASE UNCHANGED vars
    BY <1>1, <1>17 DEF vars, contractVars, chainVars
  <1> QED BY <1>13, <1>14, <1>15, <1>16, <1>17 DEF Next

TrackingNow == Tracking(validators, totals, delegated, seen["slashes"])

(* Every step carries it.                                                  *)
LEMMA TrackingAlways == Spec => []TrackingNow
  <1>1. Init => TrackingNow
    <2> SUFFICES ASSUME Init PROVE TrackingNow
      OBVIOUS
    <2>1. /\ validators = [i \in DOMAIN InitialWeights |-> NewEntry(InitialWeights[i])]
          /\ totals.bonded = 0 /\ delegated = [v \in Validators |-> 0]
      BY DEF Init, InitialValidatorSet
    <2>2. validators \in Seq(ValidatorEntry)
      BY TypeInvInit DEF TypeInv, TypeOK
    <2>3. \A i \in DOMAIN validators :
             validators[i].bonded = 0 /\ validators[i].address \in Validators
      BY <2>1, <2>2, SetDomain, EntryFields DEF NewEntry
    <2>4. TotalBonded(validators) = 0
      <3>1. /\ StakesOf(validators) \in [DOMAIN validators -> Nat]
            /\ IsFiniteSet(DOMAIN validators)
            /\ TotalBonded(validators) = SumFunctionOnSet(StakesOf(validators), DOMAIN validators)
            /\ \A i \in DOMAIN validators : StakesOf(validators)[i] = 0
        BY <2>2, <2>3, TotalIsSum
      <3> HIDE DEF StakesOf
      <3> QED BY <3>1, SumZero
    <2> QED BY <2>1, <2>3, <2>4 DEF TrackingNow, Tracking, StakesTrue, NowhereElse
  <1>2. TypeInv /\ Distinct(validators) /\ TrackingNow /\ [Next]_vars
          => Tracking(validators', totals', delegated', seen'["slashes"])
    BY TrackingStep, PartsMakeTypeInv DEF TrackingNow
  <1>3. TrackingNow' <=> Tracking(validators', totals', delegated', seen'["slashes"])
    BY DEF TrackingNow, Tracking, StakesTrue, NowhereElse, AddressesIn
  <1> QED BY <1>1, <1>2, <1>3, DistinctAlways, PTL DEF Spec

(* The cached total is the sum of the cached stakes, and as long as nobody *)
(* is slashed each of those is what the staking module holds               *)
(* (refresh_totals, execute_deposit, close_open_window, execute_compound,  *)
(* execute_rebalance).                                                     *)
THEOREM StakeCacheAlwaysTracks == Spec => []StakeCacheTracksChain
  <1>1. TrackingNow => StakeCacheTracksChain
    BY DEF TrackingNow, Tracking, StakesTrue, StakeCacheTracksChain
  <1> QED BY <1>1, TrackingAlways, PTL

-----------------------------------------------------------------------------
(* An assignment is booked whole.                                          *)

(* Every member of a finite set of numbers has its place.                  *)
LEMMA NthCovers ==
    ASSUME NEW S, IsFiniteSet(S), \A i \in S : i \in Int, NEW i \in S
    PROVE  \E k \in 1 .. Cardinality(S) : Nth(S, k) = i
  <1> DEFINE n == Cardinality(S)
             f == [k \in 1 .. n |-> Nth(S, k)]
  <1>1. n \in Nat
    BY FS_CardinalityType
  <1>2. \A k \in 1 .. n : f[k] = Nth(S, k) /\ f[k] \in S
    BY NthInSet
  <1>3. \A k, l \in 1 .. n : f[k] = f[l] => k = l
    <2>1. ASSUME NEW k \in 1 .. n, NEW l \in 1 .. n, f[k] = f[l] PROVE k = l
      <3>1. Nth(S, k) = Nth(S, l)
        BY <1>2, <2>1
      <3> QED BY <3>1, NthDistinct
    <2> QED BY <2>1
  <1>4. DOMAIN f = 1 .. n /\ f \in [1 .. n -> S]
    BY <1>2
  <1>5. IsFiniteSet(1 .. n) /\ Cardinality(1 .. n) = n
    BY <1>1, FS_Interval
  <1> HIDE DEF f
  <1>6. f \in Injection(1 .. n, S)
    BY <1>3, <1>4 DEF Injection, IsInjective
  <1>7. f \in Surjection(1 .. n, S)
    BY <1>5, <1>6, FS_Injection
  <1>8. \E k \in 1 .. n : f[k] = i
    BY <1>7 DEF Surjection
  <1> QED BY <1>2, <1>8

Weights(set) == [i \in DOMAIN set |-> set[i].weight]

WeighedOut(set) ==
    /\ SumFunction(Weights(set)) = BPS_DENOM
    /\ \A i \in DOMAIN set :
         IF set[i].status = "Active"
         THEN set[i].weight <= MaxWeight /\ set[i].address \in Allowlist
         ELSE set[i].weight = 0

\* Row i holds what the assignment says of its validator.
AsAssigned(row, weights) ==
    \/ /\ row.status = "Active"
       /\ \E w \in DOMAIN weights :
            weights[w].address = row.address /\ weights[w].weight = row.weight
    \/ /\ row.status # "Active" /\ row.weight = 0
       /\ \A w \in DOMAIN weights : weights[w].address # row.address

(* Every row answers to the assignment, and every line of it has its row.  *)
LEMMA AssignmentRows ==
    ASSUME NEW set \in Seq(ValidatorEntry), NEW weights \in Seq(ValidatorInit)
    PROVE  /\ \A i \in DOMAIN ApplyWeights(set, weights) :
                AsAssigned(ApplyWeights(set, weights)[i], weights)
           /\ \A w \in DOMAIN weights : \E i \in DOMAIN ApplyWeights(set, weights) :
                ApplyWeights(set, weights)[i].address = weights[w].address
  <1> DEFINE N == NewIn(weights, set)
             n == Cardinality(N)
             g == ApplyWeights(set, weights)
             m == Len(set)
  <1>1. /\ n \in Nat /\ DOMAIN g = 1 .. m + n /\ m \in Nat /\ DOMAIN set = 1 .. m
        /\ N \in SUBSET DOMAIN weights /\ IsFiniteSet(N) /\ \A i \in N : i \in Int
    BY ApplyWeightsParts, SetDomain
  <1>2. ASSUME NEW i \in DOMAIN set
        PROVE  AsAssigned(g[i], weights) /\ g[i].address = set[i].address
    <2>1. g[i] = Reweighted(set[i], weights) /\ set[i] \in ValidatorEntry
      BY SetDomain, ApplyWeightsParts
    <2> HIDE DEF g
    <2> QED BY <2>1, ReweightedFields DEF AsAssigned
  <1>3. ASSUME NEW k \in 1 .. n
        PROVE  /\ AsAssigned(g[m + k], weights)
               /\ g[m + k].address = weights[Nth(N, k)].address
    <2>1. Nth(N, k) \in DOMAIN weights
      BY <1>1, NthInSet
    <2>2. g[m + k] = NewEntry(weights[Nth(N, k)])
      BY ApplyWeightsParts
    <2> HIDE DEF g, N
    <2> QED BY <2>1, <2>2 DEF NewEntry, AsAssigned
  <1>4. ASSUME NEW w \in DOMAIN weights
        PROVE  \E i \in DOMAIN g : g[i].address = weights[w].address
    <2>1. CASE weights[w].address \in AddressesIn(set)
      <3>1. PICK i \in DOMAIN set : set[i].address = weights[w].address
        BY <2>1 DEF AddressesIn
      <3>2. i \in DOMAIN g
        BY <1>1
      <3> QED BY <1>2, <3>1, <3>2
    <2>2. CASE weights[w].address \notin AddressesIn(set)
      <3>1. w \in N
        BY <2>2 DEF NewIn
      <3>2. PICK k \in 1 .. n : Nth(N, k) = w
        BY <1>1, <3>1, NthCovers
      <3>3. m + k \in DOMAIN g
        BY <1>1
      <3> QED BY <1>3, <3>2, <3>3
    <2> QED BY <2>1, <2>2
  <1> HIDE DEF g, n, m, N
  <1>5. ASSUME NEW i \in DOMAIN g PROVE AsAssigned(g[i], weights)
    <2>1. CASE i \in DOMAIN set
      BY <1>2, <2>1
    <2>2. CASE i \notin DOMAIN set
      <3>1. i - m \in 1 .. n /\ i = m + (i - m)
        BY <1>1, <2>2
      <3> QED BY <1>3, <3>1
    <2> QED BY <2>1, <2>2
  <1> QED BY <1>4, <1>5 DEF g

(* A checked assignment leaves the whole weight handed out, and nothing    *)
(* to a validator it does not name.                                        *)
LEMMA AssignmentWeighsOut ==
    ASSUME NEW set \in Seq(ValidatorEntry), Distinct(set),
           NEW weights \in Seq(ValidatorInit),
           ValidateManagedWeights(weights, Allowlist, MaxWeight)
    PROVE  WeighedOut(ApplyWeights(set, weights))
  <1> DEFINE g == ApplyWeights(set, weights)
             T == DOMAIN weights
             f == [w \in T |-> weights[w].weight]
             h == Weights(g)
             b == [w \in T |-> CHOOSE i \in DOMAIN g : g[i].address = weights[w].address]
             Img == {b[w] : w \in T}
  <1>1. /\ \A w, x \in T : weights[w].address = weights[x].address => w = x
        /\ SumFunction(f) = BPS_DENOM
        /\ \A w \in T : weights[w].address \in Allowlist /\ weights[w].weight <= MaxWeight
    BY DEF ValidateManagedWeights, ValidateSet, IsInjective, AddressesIn
  <1>2. /\ g \in Seq(ValidatorEntry) /\ Distinct(g)
        /\ \A i \in DOMAIN g : AsAssigned(g[i], weights)
        /\ \A w \in T : \E i \in DOMAIN g : g[i].address = weights[w].address
    BY ApplyWeightsTyped, ApplyWeightsDistinct, AssignmentRows DEF ValidateManagedWeights
  <1>3. IsFiniteSet(T) /\ \A w \in T : weights[w].weight \in Nat
    <2>1. /\ T = 1 .. Len(weights) /\ Len(weights) \in Nat
          /\ \A w \in T : weights[w] \in ValidatorInit
      OBVIOUS
    <2>2. \A x \in ValidatorInit : x.weight \in Nat
      BY DEF ValidatorInit
    <2>3. IsFiniteSet(1 .. Len(weights))
      BY <2>1, FS_Interval
    <2> QED BY <2>1, <2>2, <2>3
  <1> HIDE DEF g
  <1>4. \A w \in T : b[w] \in DOMAIN g /\ g[b[w]].address = weights[w].address
    BY <1>2
  <1>5. DOMAIN b = T
    OBVIOUS
  <1> HIDE DEF b
  <1>6. \A w, x \in T : b[w] = b[x] => w = x
    BY <1>1, <1>4
  <1>7. ASSUME NEW w \in T PROVE g[b[w]].weight = weights[w].weight
    <2>1. /\ AsAssigned(g[b[w]], weights)
          /\ g[b[w]].address = weights[w].address
      BY <1>2, <1>4
    <2>2. PICK x \in T : weights[x].address = g[b[w]].address
                         /\ weights[x].weight = g[b[w]].weight
      BY <2>1 DEF AsAssigned
    <2> QED BY <1>1, <2>1, <2>2
  <1>8. \A i \in DOMAIN g \ Img : g[i].weight = 0
    <2>1. ASSUME NEW i \in DOMAIN g, NEW w \in T, weights[w].address = g[i].address
          PROVE  i = b[w]
      BY <1>2, <1>4, <2>1 DEF Distinct
    <2> QED BY <1>2, <2>1 DEF AsAssigned
  <1>9. \A i \in DOMAIN g : h[i] = g[i].weight /\ h[i] \in Nat
    BY <1>2, SetDomain, EntryFields DEF Weights
  <1>10. DOMAIN h = DOMAIN g /\ DOMAIN f = T /\ IsFiniteSet(DOMAIN g)
    BY <1>2, SetDomain DEF Weights
  <1>11. \A w \in T : f[w] \in Int /\ h[b[w]] = f[w]
    BY <1>3, <1>4, <1>7, <1>9
  <1> HIDE DEF f, h
  <1>12. SumFunctionOnSet(f, T) = SumFunctionOnSet(h, Img)
    <2> HIDE DEF T
    <2> QED BY <1>3, <1>5, <1>6, <1>11, SumReindexed
  <1>13. SumFunctionOnSet(h, Img) = SumFunctionOnSet(h, DOMAIN g)
    <2>1. Img \in SUBSET DOMAIN g
      BY <1>4
    <2>2. /\ \A i \in Img : h[i] \in Nat /\ h[i] = h[i]
          /\ \A i \in DOMAIN g \ Img : h[i] = 0
      BY <1>8, <1>9, <2>1
    <2> HIDE DEF Img
    <2> QED BY <1>10, <2>1, <2>2, SumOfSupport
  <1>14. /\ SumFunction(f) = SumFunctionOnSet(f, DOMAIN f)
         /\ SumFunction(h) = SumFunctionOnSet(h, DOMAIN h)
    BY DEF SumFunction, SumFunctionOnSet, FoldFunction
  <1>15. SumFunction(h) = BPS_DENOM
    BY <1>1, <1>10, <1>12, <1>13, <1>14
  <1>16. ASSUME NEW i \in DOMAIN g
         PROVE  IF g[i].status = "Active"
                THEN g[i].weight <= MaxWeight /\ g[i].address \in Allowlist
                ELSE g[i].weight = 0
    BY <1>1, <1>2 DEF AsAssigned
  <1> QED BY <1>15, <1>16 DEF WeighedOut, g, h

(* Rows that keep address, weight and status stay as assigned.             *)
LEMMA WeighedOutKept ==
    ASSUME NEW set, NEW new, SameRows(new, set), WeighedOut(set)
    PROVE  WeighedOut(new)
  <1>1. DOMAIN new = DOMAIN set /\ \A i \in DOMAIN set : SameRow(new[i], set[i])
    BY DEF SameRows
  <1>2. Weights(new) = Weights(set)
    BY <1>1 DEF Weights, SameRow
  <1> QED BY <1>1, <1>2 DEF WeighedOut, SameRow

(* The weights of the active validators always make up the whole, none     *)
(* passes the ceiling, and a dropped validator has none (validate_set,     *)
(* validate_managed_weights, apply_weights).                               *)
THEOREM WeightsAlwaysComplete == Spec => []WeightsComplete
  <1>1. Init => WeighedOut(validators)
    <2> SUFFICES ASSUME Init PROVE WeighedOut(validators)
      OBVIOUS
    <2>1. /\ validators = [i \in DOMAIN InitialWeights |-> NewEntry(InitialWeights[i])]
          /\ ValidateManagedWeights(InitialWeights, Allowlist, MaxWeight)
      BY WeightsAreValid DEF Init, InitialValidatorSet
    <2>2. /\ DOMAIN validators = DOMAIN InitialWeights
          /\ \A i \in DOMAIN validators :
               /\ validators[i].status = "Active"
               /\ validators[i].weight = InitialWeights[i].weight
               /\ validators[i].address = InitialWeights[i].address
      BY <2>1 DEF NewEntry
    <2>3. Weights(validators) = [i \in DOMAIN InitialWeights |-> InitialWeights[i].weight]
      BY <2>2 DEF Weights
    <2> QED BY <2>1, <2>2, <2>3 DEF WeighedOut, ValidateManagedWeights, ValidateSet, AddressesIn
  <1>2. TypeInv /\ Distinct(validators) /\ WeighedOut(validators) /\ [Next]_vars
          => WeighedOut(validators')
    <2> SUFFICES ASSUME TypedParts, Distinct(validators), WeighedOut(validators), [Next]_vars
                 PROVE  WeighedOut(validators')
      BY PartsMakeTypeInv
    <2>1. CASE \E weights \in WeightChoices : SetWeights(weights)
      <3>1. PICK weights \in WeightChoices : SetWeights(weights)
        BY <2>1
      <3>2. /\ validators' = ApplyWeights(validators, weights)
            /\ ValidateManagedWeights(weights, Allowlist, MaxWeight)
            /\ weights \in Seq(ValidatorInit) /\ validators \in Seq(ValidatorEntry)
        BY <3>1, InputsNat DEF SetWeights, TypedParts, TypedSet
      <3> QED BY <3>2, AssignmentWeighsOut
    <2>2. CASE ~ \E weights \in WeightChoices : SetWeights(weights)
      BY <2>2, RowsKept, WeighedOutKept
    <2> QED BY <2>1, <2>2
  <1>3. WeighedOut(validators)' <=> WeighedOut(validators')
    BY DEF WeighedOut, Weights
  <1>4. WeighedOut(validators) => WeightsComplete
    BY DEF WeighedOut, Weights, WeightsComplete
  <1> QED BY <1>1, <1>2, <1>3, <1>4, DistinctAlways, PTL DEF Spec

-----------------------------------------------------------------------------
(* Entries in flight.                                                      *)

\* The window that waits for an unbonding entry.
Waits(e, ws) ==
    /\ e.window \in DOMAIN ws
    /\ ws[e.window].state = "Unbonding" /\ ws[e.window].maturesAt = e.release
    /\ e.validator \in ws[e.window].used

\* Each entry is still to be released, its window waits for it, and a window
\* has one entry at a validator.
InFlight(entries, ws, t) ==
    /\ \A e \in entries : Waits(e, ws) /\ e.release > t
    /\ \A e, f \in entries : e.validator = f.validator /\ e.window = f.window => e = f

(* Windows that wait for a later time are all it looks at.                 *)
LEMMA InFlightKept ==
    ASSUME NEW entries, NEW ws, NEW ws2, NEW t, InFlight(entries, ws, t),
           \A id \in DOMAIN ws :
               ws[id].state = "Unbonding" /\ ws[id].maturesAt > t
                 => id \in DOMAIN ws2 /\ ws2[id] = ws[id]
    PROVE  InFlight(entries, ws2, t)
  <1>1. ASSUME NEW e \in entries PROVE Waits(e, ws2) /\ e.release > t
    BY DEF InFlight, Waits
  <1> QED BY <1>1 DEF InFlight

(* An undelegation enters one entry per validator it used.                 *)
LEMMA UndelegationInFlight ==
    ASSUME TypedQueue, openWindow = nextWindowId - 1, nextWindowId \in Nat \ {0},
           UnbondingPeriod > 0,
           NEW set \in Seq(ValidatorEntry), Distinct(set), NEW t, NEW ws,
           TypedWindows(ws, nextWindowId), ws[openWindow].state = "Open",
           NEW r, ClosingOf(r, set, t, ws), NEW staked, Undelegated(r, staked),
           InFlight(unbonding, ws, now)
    PROVE  InFlight(unbonding', r.windows, now)
  <1> DEFINE w    == ws[openWindow]
             plan == PlanUndelegation(set, w.owed, EntryCeiling)
             E(v) == [validator |-> v, window |-> openWindow,
                      amount |-> Leaving(r, v), release |-> now + UnbondingPeriod]
  <1>1. /\ DOMAIN ws = 0 .. nextWindowId - 1 /\ w \in AWindow /\ openWindow \in DOMAIN ws
        /\ w.owed \in Nat /\ now \in Nat /\ UnbondingPeriod \in Nat
    BY WindowFields, ParametersNat DEF TypedWindows, TypedQueue
  <1>2. unbonding' = unbonding \cup {E(v) : v \in LeftBy(r)}
    BY DEF Undelegated
  <1>3. CASE r = StayOpen(set, t, ws)
    <2>1. r.set = set /\ r.windows = ws /\ r.legs = [i \in DOMAIN set |-> 0]
      BY <1>3 DEF StayOpen
    <2>2. r.legs \in [DOMAIN r.set -> Nat] /\ \A i \in DOMAIN r.set : r.legs[i] = 0
      BY <2>1
    <2>3. Distinct(r.set) /\ IsFiniteSet(DOMAIN r.set)
      BY <2>1, SetDomain
    <2>4. /\ \A i \in DOMAIN r.set : Leaving(r, r.set[i].address) = r.legs[i]
          /\ \A v : v \notin AddressesIn(r.set) => Leaving(r, v) = 0
      BY <2>2, <2>3, LeavingIsTheLeg
    <2>5. \A v : Leaving(r, v) = 0
      BY <2>2, <2>4 DEF AddressesIn
    <2>6. LeftBy(r) = {}
      BY <2>5 DEF LeftBy
    <2>7. unbonding' = unbonding
      BY <1>2, <2>6
    <2> QED BY <2>1, <2>7
  <1>4. CASE r = CloseOpenWindow(set, t, ws)
    <2> DEFINE used == UsedBy(set, plan)
               c    == Close([w EXCEPT !.used = used], now, UnbondingPeriod)
    <2>1. /\ r.set = WithLegs(set, plan) /\ r.legs = plan
          /\ r.windows = [id \in 0 .. nextWindowId |->
                            CASE id = nextWindowId -> WindowOpen(now, WindowLength)
                              [] id = openWindow   -> c
                              [] OTHER             -> ws[id]]
      BY <1>4 DEF CloseOpenWindow
    <2>2. plan \in [DOMAIN set -> Nat]
      BY <1>1, LegsNat
    <2>3. used \in SUBSET Validators
      BY SetDomain, EntryFields DEF UsedBy
    <2>4. w.owed > 0 => /\ c.used = used /\ c.state = "Unbonding"
                        /\ c.maturesAt = now + UnbondingPeriod
      <3> DEFINE u == [w EXCEPT !.used = used]
      <3>1. u \in AWindow /\ u.used = used /\ u.owed = w.owed
        <4> HIDE DEF used, w
        <4> QED BY <1>1, <2>3 DEF AWindow, UnbondWindow
      <3>2. c = Close(u, now, UnbondingPeriod)
        OBVIOUS
      <3> HIDE DEF u, c, used, w
      <3>3. u.owed # 0 => Close(u, now, UnbondingPeriod)
                            = [u EXCEPT !.state = "Unbonding", !.maturesAt = now + UnbondingPeriod]
        BY DEF Close
      <3>4. ASSUME u.owed # 0
            PROVE  /\ Close(u, now, UnbondingPeriod).used = u.used
                   /\ Close(u, now, UnbondingPeriod).state = "Unbonding"
                   /\ Close(u, now, UnbondingPeriod).maturesAt = now + UnbondingPeriod
        BY <3>1, <3>3, <3>4 DEF AWindow, UnbondWindow
      <3> QED BY <1>1, <3>1, <3>2, <3>4
    <2>5. /\ DOMAIN r.windows = 0 .. nextWindowId /\ r.windows[openWindow] = c
          /\ \A id \in DOMAIN ws \ {openWindow} : r.windows[id] = ws[id]
      BY <1>1, <2>1
    <2>6. ASSUME NEW v \in LeftBy(r) PROVE w.owed > 0 /\ v \in used
      <3>1. SameRows(r.set, set)
        BY <2>1, <2>2, LegRows
      <3>2. /\ DOMAIN r.set = DOMAIN set /\ IsFiniteSet(DOMAIN r.set)
            /\ \A i \in DOMAIN set : r.set[i].address = set[i].address
        BY <3>1, SetDomain DEF SameRows, SameRow
      <3>3. Distinct(r.set)
        BY <3>2 DEF Distinct
      <3>4. r.legs \in [DOMAIN r.set -> Nat]
        BY <2>1, <2>2, <3>2
      <3>5. /\ \A i \in DOMAIN r.set : Leaving(r, r.set[i].address) = r.legs[i]
            /\ \A x : x \notin AddressesIn(r.set) => Leaving(r, x) = 0
        BY <3>2, <3>3, <3>4, LeavingIsTheLeg
      <3>6. PICK i \in DOMAIN set : set[i].address = v /\ plan[i] > 0
        <4>1. Leaving(r, v) > 0
          BY DEF LeftBy
        <4>2. v \in AddressesIn(r.set)
          BY <3>5, <4>1
        <4>3. PICK i \in DOMAIN r.set : r.set[i].address = v
          BY <4>2 DEF AddressesIn
        <4> QED BY <2>1, <3>2, <3>5, <4>1, <4>3
      <3>7. w.owed > 0
        BY <1>1, <3>6, LegsUseCandidates
      <3> HIDE DEF plan
      <3> QED BY <3>6, <3>7 DEF UsedBy
    <2> HIDE DEF plan, used, c, w
    <2>7. ASSUME NEW v \in LeftBy(r) PROVE Waits(E(v), r.windows) /\ E(v).release > now
      <3>1. /\ E(v).validator = v /\ E(v).window = openWindow
            /\ E(v).release = now + UnbondingPeriod
        OBVIOUS
      <3> HIDE DEF E
      <3> QED BY <1>1, <2>4, <2>5, <2>6, <3>1 DEF Waits
    <2>8. \A e \in unbonding : e.window # openWindow
      BY DEF InFlight, Waits
    <2>9. InFlight(unbonding, r.windows, now)
      <3>1. ASSUME NEW id \in DOMAIN ws, ws[id].state = "Unbonding"
            PROVE  id \in DOMAIN r.windows /\ r.windows[id] = ws[id]
        BY <1>1, <2>5, <3>1
      <3> QED BY <3>1, InFlightKept
    <2>10. \A v \in LeftBy(r) : E(v).window = openWindow /\ E(v).validator = v
      OBVIOUS
    <2> HIDE DEF E
    <2>11. ASSUME NEW e \in unbonding', NEW f \in unbonding',
                  e.validator = f.validator, e.window = f.window
           PROVE  e = f
      <3>1. CASE e \in unbonding /\ f \in unbonding
        BY <2>9, <2>11, <3>1 DEF InFlight
      <3>2. CASE e \notin unbonding /\ f \notin unbonding
        BY <1>2, <2>10, <2>11, <3>2
      <3>3. CASE ~(e \in unbonding <=> f \in unbonding)
        BY <1>2, <2>8, <2>10, <2>11, <3>3
      <3> QED BY <3>1, <3>2, <3>3
    <2>12. ASSUME NEW e \in unbonding' PROVE Waits(e, r.windows) /\ e.release > now
      BY <1>2, <2>7, <2>9 DEF InFlight
    <2> QED BY <2>11, <2>12 DEF InFlight
  <1> QED BY <1>3, <1>4 DEF ClosingOf

(* Only a window whose time has come matures, and nothing waits for it.    *)
LEMMA MaturityInFlight ==
    ASSUME Consistent, NEW ids \in SUBSET DueWindows, InFlight(unbonding, windows, now)
    PROVE  InFlight(unbonding, MaturedWindows(ids), now)
  <1>1. /\ \A id \in WindowIds : windows[id] \in AWindow
        /\ WindowIds = DOMAIN windows /\ now \in Nat
    BY ConsistentShape DEF TypedQueue
  <1>2. ASSUME NEW id \in DOMAIN windows, windows[id].maturesAt > now
        PROVE  /\ id \in DOMAIN MaturedWindows(ids)
               /\ MaturedWindows(ids)[id] = windows[id]
    <2>1. windows[id].maturesAt \in Nat
      BY <1>1 DEF AWindow, UnbondWindow
    <2>2. id \notin ids
      BY <1>1, <1>2, <2>1 DEF DueWindows, IsMature
    <2> QED BY <1>1, <2>2 DEF MaturedWindows
  <1> QED BY <1>2, InFlightKept

(* A slash shrinks entries and leaves the rest of them alone.              *)
LEMMA SlashInFlight ==
    ASSUME TypedParts, InFlight(unbonding, windows, now), NEW v \in Validators, Slash(v)
    PROVE  InFlight(unbonding', windows', now')
  <1>1. windows' = windows /\ now' = now
    BY DEF Slash, contractVars
  <1> DEFINE cut(e) == [e EXCEPT !.amount = AfterSlash(@)]
  <1>2. PICK hit \in SUBSET Entries(v) :
          unbonding' = (unbonding \ hit) \cup {cut(e) : e \in hit}
    BY DEF Slash
  <1>3. unbonding \in SUBSET UnbondingEntry /\ hit \in SUBSET unbonding
    BY DEF TypedParts, TypedChain, Entries
  <1>4. \A e \in hit : /\ cut(e).validator = e.validator /\ cut(e).window = e.window
                       /\ cut(e).release = e.release
    BY <1>3 DEF UnbondingEntry
  <1> HIDE DEF cut
  <1>5. ASSUME NEW e \in unbonding'
        PROVE  \E o \in unbonding :
                  /\ e.validator = o.validator /\ e.window = o.window /\ e.release = o.release
                  /\ e = IF o \in hit THEN cut(o) ELSE o
    BY <1>2, <1>3, <1>4
  <1>6. ASSUME NEW e \in unbonding' PROVE Waits(e, windows) /\ e.release > now
    <2>1. PICK o \in unbonding :
             e.validator = o.validator /\ e.window = o.window /\ e.release = o.release
      BY <1>5
    <2>2. Waits(o, windows) /\ o.release > now
      BY DEF InFlight
    <2> QED BY <2>1, <2>2 DEF Waits
  <1>7. ASSUME NEW e \in unbonding', NEW f \in unbonding',
               e.validator = f.validator, e.window = f.window
        PROVE  e = f
    <2>1. PICK o \in unbonding : /\ e.validator = o.validator /\ e.window = o.window
                                 /\ e = IF o \in hit THEN cut(o) ELSE o
      BY <1>5
    <2>2. PICK p \in unbonding : /\ f.validator = p.validator /\ f.window = p.window
                                 /\ f = IF p \in hit THEN cut(p) ELSE p
      BY <1>5
    <2>3. o = p
      BY <1>7, <2>1, <2>2 DEF InFlight
    <2> QED BY <2>1, <2>2, <2>3
  <1> QED BY <1>1, <1>6, <1>7 DEF InFlight

(* A chain that pays on time has released what a new block finds ripe.     *)
LEMMA BlockInFlight ==
    ASSUME TypedParts, ReleaseLag = 0, InFlight(unbonding, windows, now), NextBlock
    PROVE  InFlight(unbonding', windows', now')
  <1>1. windows' = windows /\ now' = now + 1 /\ now \in Nat
    BY DEF NextBlock, contractVars, TypedParts, TypedChain
  <1>2. \A e \in unbonding : e.release \in Nat
    BY DEF TypedParts, TypedChain, UnbondingEntry
  <1>3. PICK released : /\ unbonding' = unbonding \ released
                        /\ {e \in {f \in unbonding : f.release <= now + 1} :
                               e.release + ReleaseLag <= now + 1} \subseteq released
    BY DEF NextBlock
  <1>4. ASSUME NEW e \in unbonding' PROVE e \in unbonding /\ e.release > now + 1
    <2>1. e \in unbonding /\ e \notin released
      BY <1>3
    <2>2. ~ (e.release <= now + 1 /\ e.release + ReleaseLag <= now + 1)
      BY <1>3, <2>1
    <2> QED BY <1>1, <1>2, <2>1, <2>2
  <1>5. \A e \in unbonding' : Waits(e, windows) /\ e.release > now + 1
    BY <1>4 DEF InFlight
  <1>6. \A e, f \in unbonding' : e.validator = f.validator /\ e.window = f.window => e = f
    BY <1>4 DEF InFlight
  <1> QED BY <1>1, <1>5, <1>6 DEF InFlight

\* Every step keeps the entries in flight to the windows that wait for them.
LEMMA InFlightStep ==
    ASSUME Consistent, Distinct(validators), ReleaseLag = 0, UnbondingPeriod > 0,
           InFlight(unbonding, windows, now), [Next]_vars
    PROVE  InFlight(unbonding', windows', now')
  <1> DEFINE Kept == InFlight(unbonding', windows', now')
  <1>0. /\ TypedParts /\ TypedQueue /\ openWindow = nextWindowId - 1
        /\ nextWindowId \in Nat \ {0} /\ windows[openWindow].state = "Open"
        /\ TypedWindows(windows, nextWindowId) /\ DOMAIN windows = 0 .. nextWindowId - 1
        /\ validators \in Seq(ValidatorEntry) /\ openWindow \in DOMAIN windows
    BY ConsistentShape, PartsMakeTypeInv
       DEF Consistent, TypedParts, TypedSet, TypedQueue, Shaped, TypedWindows
  <1>1. ASSUME unbonding' = unbonding, windows' = windows, now' = now PROVE Kept
    BY <1>1
  <1>2. ASSUME NEW seed \in Seeds, Bootstrap(seed) PROVE Kept
    BY <1>1, <1>2 DEF Bootstrap, queueVars
  <1>3. ASSUME NEW u \in Users, NEW amount \in Deposits, Deposit(u, amount) PROVE Kept
    <2> DEFINE i      == SelectForDelegation(RefreshedSet, amount)
               shares == SharesForDeposit(amount, DepositPool(amount))
               set    == [RefreshedSet EXCEPT ![i].bonded = @ + amount]
               t      == [RefreshedTotals EXCEPT !.bonded = @ + amount,
                                                 !.supply = @ + shares]
               r      == DepositPlaced(amount)
    <2>1. /\ windows' = r.windows /\ now' = now /\ amount \in Nat
          /\ Undelegated(r, DepositStaked(amount))
      BY <1>3, InputsNat DEF Deposit, Commit
    <2>2. ClosingOf(r, set, t, windows)
      BY RidingAlongIsOne DEF DepositPlaced
    <2> HIDE DEF i, t, r
    <2>3. RefreshedSet \in Seq(ValidatorEntry) /\ SameRows(RefreshedSet, validators)
      BY <1>0, RefreshTyped, PageRows DEF RefreshedSet, TypedParts
    <2>4. SameRows(set, RefreshedSet) /\ set \in Seq(ValidatorEntry)
      BY <2>1, <2>3, StakeRows, StakeAdded
    <2> HIDE DEF set
    <2>5. Distinct(set)
      BY <2>3, <2>4 DEF SameRows, SameRow, Distinct
    <2>6. InFlight(unbonding', r.windows, now)
      BY <1>0, <2>1, <2>2, <2>4, <2>5, UndelegationInFlight
    <2> QED BY <2>1, <2>6
  <1>4. ASSUME NEW u \in Users, NEW shares \in Requests, Unbond(u, shares) PROVE Kept
    <2> DEFINE owed == AssetsForShares(shares, RequestPool)
               ws   == [windows EXCEPT ![openWindow].shares = @ + shares,
                                       ![openWindow].owed = @ + owed]
               t    == [RefreshedTotals EXCEPT !.supply = SatSub(@, shares),
                                               !.owedOpen = @ + owed]
               r    == RequestPlaced(shares)
    <2>1. windows' = r.windows /\ now' = now /\ Undelegated(r, delegated)
      BY <1>4 DEF Unbond, Commit
    <2>2. ClosingOf(r, RefreshedSet, t, ws)
      BY RidingAlongIsOne DEF RequestPlaced
    <2>3. RefreshedSet \in Seq(ValidatorEntry) /\ SameRows(RefreshedSet, validators)
      BY <1>0, RefreshTyped, PageRows DEF RefreshedSet, TypedParts
    <2>4. TypedWindows(ws, nextWindowId)
      BY <1>0, JoinedTyped
    <2> HIDE DEF t, r, owed
    <2>5. /\ DOMAIN ws = DOMAIN windows /\ ws[openWindow].state = "Open"
          /\ \A id \in DOMAIN windows \ {openWindow} : ws[id] = windows[id]
      <3>1. DOMAIN ws = DOMAIN windows
            /\ \A id \in DOMAIN windows \ {openWindow} : ws[id] = windows[id]
        OBVIOUS
      <3>2. ws[openWindow].state = "Open"
        <4>1. PICK w \in AWindow : w = windows[openWindow]
          BY <1>0 DEF TypedWindows
        <4>2. ws[openWindow] = [w EXCEPT !.shares = w.shares + shares, !.owed = w.owed + owed]
          BY <1>0, <4>1
        <4> QED BY <1>0, <4>1, <4>2 DEF AWindow, UnbondWindow
      <3> QED BY <3>1, <3>2
    <2> HIDE DEF ws
    <2>6. Distinct(RefreshedSet)
      BY <2>3 DEF SameRows, SameRow, Distinct
    <2>7. InFlight(unbonding, ws, now)
      <3>1. ASSUME NEW id \in DOMAIN windows, windows[id].state = "Unbonding"
            PROVE  id \in DOMAIN ws /\ ws[id] = windows[id]
        BY <1>0, <2>5, <3>1
      <3> QED BY <3>1, InFlightKept
    <2>8. InFlight(unbonding', r.windows, now)
      BY <1>0, <2>1, <2>2, <2>3, <2>4, <2>5, <2>6, <2>7, UndelegationInFlight
    <2> QED BY <2>1, <2>8
  <1>5. ASSUME AdvanceWindow PROVE Kept
    <2> DEFINE r == CloseOpenWindow(validators, totals, windows)
    <2>1. windows' = r.windows /\ now' = now /\ Undelegated(r, delegated)
      BY <1>5 DEF AdvanceWindow, Commit
    <2>2. ClosingOf(r, validators, totals, windows)
      BY DEF ClosingOf
    <2> HIDE DEF r
    <2>3. InFlight(unbonding', r.windows, now)
      BY <1>0, <2>1, <2>2, UndelegationInFlight
    <2> QED BY <2>1, <2>3
  <1>6. ASSUME NEW u \in Users, NEW list \in ClaimLists, ClaimMatured(u, list) PROVE Kept
    <2> DEFINE ids == ClaimIds(u, list)
               at  == WindowsAtClaim
               ws  == WindowsAfterClaim(u, ids)
               P   == Paying(u, ids)
    <2>1. windows' = ws /\ unbonding' = unbonding /\ now' = now
      BY <1>6 DEF ClaimMatured, stakingVars
    <2>2. InFlight(unbonding, at, now)
      BY MaturityInFlight DEF WindowsAtClaim
    <2>3. /\ DOMAIN ws = WindowIds /\ DOMAIN at = WindowIds
          /\ P \subseteq In(at, "Matured")
          /\ \A id \in WindowIds \ P : ws[id] = at[id]
      BY ClaimedFigures
    <2> HIDE DEF ids, at, ws, P
    <2>4. ASSUME NEW id \in DOMAIN at, at[id].state = "Unbonding"
          PROVE  id \in DOMAIN ws /\ ws[id] = at[id]
      BY <2>3, <2>4 DEF In
    <2>5. InFlight(unbonding, ws, now)
      BY <2>2, <2>4, InFlightKept
    <2> QED BY <2>1, <2>5
  <1>7. ASSUME NEW limit \in CollectLimits, CollectMatured(limit) PROVE Kept
    <2>1. windows' = MaturedWindows(Collected(limit)) /\ unbonding' = unbonding /\ now' = now
      BY <1>7 DEF CollectMatured, chainVars
    <2>2. Collected(limit) \in SUBSET DueWindows
      BY DEF Collected
    <2>3. InFlight(unbonding, MaturedWindows(Collected(limit)), now)
      BY <2>2, MaturityInFlight
    <2> QED BY <2>1, <2>3
  <1>8. ASSUME NEW limit \in PageLimits, Sync(limit) PROVE Kept
    BY <1>1, <1>8 DEF Sync, queueVars, chainVars
  <1>9. ASSUME NEW limit \in PageLimits, Compound(limit) PROVE Kept
    BY <1>1, <1>9 DEF Compound, queueVars
  <1>10. ASSUME NEW v \in Validators, Slash(v) PROVE Kept
    BY <1>0, <1>10, SlashInFlight
  <1>11. CASE UserAction
    BY <1>2, <1>3, <1>4, <1>6, <1>11 DEF UserAction
  <1>12. CASE UpkeepAction
    BY <1>5, <1>7, <1>8, <1>9, <1>12 DEF UpkeepAction
  <1>13. CASE ManagerAction
    BY <1>1, <1>13 DEF ManagerAction, SetWeights, SetPerformanceFee, Rebalance, SetPaused,
       Migrate, queueVars, chainVars, stakingVars
  <1>14. ASSUME NextBlock PROVE Kept
    BY <1>0, <1>14, BlockInFlight
  <1>15. CASE ChainAction
    <2>1. ASSUME NEW v \in Validators, NEW amount \in Rewards, AccrueRewards(v, amount)
          PROVE  Kept
      BY <1>1, <2>1 DEF AccrueRewards, contractVars
    <2>2. ASSUME NEW u \in Users, NEW shares \in Requests, BurnOwnShares(u, shares)
          PROVE  Kept
      BY <1>1, <2>2 DEF BurnOwnShares, contractVars, stakingVars
    <2>3. ASSUME NEW amount \in Deposits, Donate(amount) PROVE Kept
      BY <1>1, <2>3 DEF Donate, contractVars, stakingVars
    <2> QED BY <1>10, <1>14, <1>15, <2>1, <2>2, <2>3 DEF ChainAction
  <1>16. CASE UNCHANGED vars
    BY <1>1, <1>16 DEF vars, contractVars, chainVars, stakingVars
  <1> QED BY <1>11, <1>12, <1>13, <1>15, <1>16 DEF Next

(* At a validator there are no more entries than windows that used it.     *)
LEMMA EntriesAreUses ==
    ASSUME Consistent, InFlight(unbonding, windows, now), NEW v \in Validators
    PROVE  /\ Cardinality(Entries(v)) \in Nat
           /\ Cardinality(Entries(v)) <= Cardinality(UsesOf(windows, v))
           /\ Cardinality(UsesOf(windows, v)) \in Nat
  <1> DEFINE S == Entries(v)
             T == UsesOf(windows, v)
             f == [e \in S |-> e.window]
  <1>1. IsFiniteSet(T)
    <2>1. IsFiniteSet(DOMAIN windows) /\ T \in SUBSET DOMAIN windows
      BY ConsistentShape DEF UsesOf
    <2> QED BY <2>1, FS_Subset
  <1>2. \A e \in S : /\ e \in unbonding /\ e.validator = v
                     /\ f[e] = e.window /\ f[e] \in T
    BY DEF Entries, UsesOf, InFlight, Waits
  <1>3. \A e, g \in S : f[e] = f[g] => e = g
    BY <1>2 DEF InFlight
  <1>4. DOMAIN f = S /\ f \in [S -> T]
    BY <1>2
  <1> HIDE DEF f, S, T
  <1>5. f \in Injection(S, T)
    BY <1>3, <1>4 DEF Injection, IsInjective
  <1>6. IsFiniteSet(S) /\ Cardinality(S) <= Cardinality(T)
    BY <1>1, <1>5, FS_Injection
  <1> QED BY <1>1, <1>6, FS_CardinalityType DEF S, T

(* With a chain that releases entries when they are due, its own count of  *)
(* unbonding entries stays below its limit, so it never refuses an         *)
(* Undelegate for want of a slot: the contract's slot counters, which it   *)
(* gives back at maturity, are never behind the chain's.                   *)
THEOREM ChainSlotsAlwaysSpare ==
    ASSUME ReleaseLag = 0, UnbondingPeriod > 0
    PROVE  Spec => []ChainSlotsSpare
  <1> DEFINE Flying == InFlight(unbonding, windows, now)
  <1>1. Init => Flying
    BY DEF Init, InFlight
  <1>2. Consistent /\ Distinct(validators) /\ Flying /\ [Next]_vars
          => InFlight(unbonding', windows', now')
    BY InFlightStep
  <1>3. Flying' <=> InFlight(unbonding', windows', now')
    BY DEF InFlight, Waits
  <1>4. Consistent /\ Occupied(validators, windows) /\ Flying => ChainSlotsSpare
    <2> SUFFICES ASSUME Consistent, Occupied(validators, windows), Flying,
                        NEW v \in Validators
                 PROVE  Cardinality(Entries(v)) < ChainMaxEntries
      BY DEF ChainSlotsSpare
    <2> DEFINE n == Cardinality(Entries(v))
               k == Cardinality(UsesOf(windows, v))
    <2>1. n \in Nat /\ k \in Nat /\ n <= k
      BY EntriesAreUses
    <2>2. EntryCeiling \in Nat /\ ChainMaxEntries \in Nat /\ EntryCeiling < ChainMaxEntries
      BY ConstantsAreTyped, ParamsAreValid
    <2>3. k <= EntryCeiling
      <3>1. CASE v \in AddressesIn(validators)
        <4>1. PICK i \in DOMAIN validators : validators[i].address = v
          BY <3>1 DEF AddressesIn
        <4>2. k = validators[i].entries /\ validators[i].entries <= EntryCeiling
          BY <4>1 DEF Occupied, SlotsMatch
        <4> QED BY <4>2
      <3>2. CASE v \notin AddressesIn(validators)
        <4>1. UsesOf(windows, v) = {}
          BY <3>2 DEF UsesOf, Occupied, UsedListed
        <4> QED BY <2>2, <4>1, FS_EmptySet
      <3> QED BY <3>1, <3>2
    <2> HIDE DEF n, k
    <2>4. n < ChainMaxEntries
      BY <2>1, <2>2, <2>3
    <2> QED BY <2>4 DEF n
  <1> QED BY <1>1, <1>2, <1>3, <1>4, LedgersAlwaysAgree, DistinctAlways, OccupiedAlways,
             PTL DEF Spec

(* With such a chain, closing the window along the way is never the reason *)
(* a deposit or a withdrawal request fails: the plan is made from stakes   *)
(* just re-read, so every leg is covered, and a slot is free               *)
(* (close_window_if_overdue, plan_undelegation).                           *)
THEOREM RidesNeverRefused ==
    ASSUME ReleaseLag = 0, UnbondingPeriod > 0
    PROVE  Spec => []RideAlongNeverRefused
  <1>1. ASSUME TypedParts, Distinct(validators), TrackingNow, ChainSlotsSpare
        PROVE  RideAlongNeverRefused
    <2>1. NowhereElse(validators, delegated) /\ TypedQueue /\ delegated \in [Validators -> Nat]
          /\ TypedWindows(windows, nextWindowId)
      BY <1>1 DEF TrackingNow, Tracking, TypedParts, TypedChain, TypedQueue
    <2>2. ASSUME NEW amount \in Deposits, DepositAccepted(amount)
          PROVE  ChainAccepts(DepositPlaced(amount), DepositStaked(amount))
      <3> DEFINE r == DepositPlaced(amount)
                 staked == DepositStaked(amount)
                 dl == [v \in Validators |-> staked[v] - Leaving(r, v)]
      <3>1. PICK set \in Seq(ValidatorEntry), t \in TotalsCache :
               /\ PlannedClosing(r, set, t, windows)
               /\ Distinct(set) /\ t.bonded = TotalBonded(set)
               /\ staked \in [Validators -> Nat] /\ StakesTrue(set, staked)
        BY <1>1, <2>1, <2>2, DepositPlans DEF DepositAccepted
      <3>2. \A v \in Validators : dl[v] = staked[v] - Leaving(r, v)
        OBVIOUS
      <3> HIDE DEF r, staked, dl
      <3>3. \A v \in Validators : Leaving(r, v) <= staked[v]
        BY <2>1, <3>1, <3>2, ClosingTracks, SMTT(30)
      <3>4. ChainAccepts(r, staked)
        BY <1>1, <3>3 DEF ChainAccepts, ChainSlotsSpare
      <3> QED BY <3>4 DEF r, staked
    <2>3. ASSUME NEW shares \in Requests
          PROVE  ChainAccepts(RequestPlaced(shares), delegated)
      <3> DEFINE r == RequestPlaced(shares)
                 dl == [v \in Validators |-> delegated[v] - Leaving(r, v)]
      <3>1. PICK t \in TotalsCache : \E ws :
               /\ PlannedClosing(r, RefreshedSet, t, ws)
               /\ TypedWindows(ws, nextWindowId) /\ t.bonded = TotalBonded(RefreshedSet)
        BY <1>1, <2>1, RequestPlans
      <3>2. \A v \in Validators : dl[v] = delegated[v] - Leaving(r, v)
        OBVIOUS
      <3> HIDE DEF r, dl
      <3>3. /\ RefreshedSet \in Seq(ValidatorEntry) /\ SameRows(RefreshedSet, validators)
            /\ StakesTrue(RefreshedSet, delegated)
        BY <1>1, <2>1, RefreshedTracks
      <3>4. Distinct(RefreshedSet)
        BY <1>1, <3>3 DEF SameRows, SameRow, Distinct
      <3>5. \A v \in Validators : Leaving(r, v) <= delegated[v]
        BY <2>1, <3>1, <3>2, <3>3, <3>4, ClosingTracks
      <3>6. ChainAccepts(r, delegated)
        BY <1>1, <3>5 DEF ChainAccepts, ChainSlotsSpare
      <3> QED BY <3>6 DEF r
    <2> QED BY <2>2, <2>3 DEF RideAlongNeverRefused
  <1>2. TypeInv <=> TypedParts
    BY PartsMakeTypeInv
  <1> QED BY <1>1, <1>2, DistinctAlways, TrackingAlways, ChainSlotsAlwaysSpare, PTL

-----------------------------------------------------------------------------
(* The money.  For every time to come, what the chain will have paid out   *)
(* by then covers, with the balance, what will then have to be paid.       *)

Amounts == [e \in UnbondingEntry |-> e.amount]

\* What the entries released by `time` bring, and what the windows owe by it.
MoneyBy(entries, time) == SumFunctionOnSet(Amounts, {e \in entries : e.release <= time})

RipeBy(ws, time) == {id \in In(ws, "Unbonding") : ws[id].maturesAt <= time}

Backed(ws, entries, held, time) ==
    OutstandingOf(ws, In(ws, "Matured")) + OwedIn(ws, RipeBy(ws, time))
      <= held + MoneyBy(entries, time)

PaidUp(ws) == \A id \in In(ws, "Matured") : ws[id].realised = ws[id].owed

Funded(ws, entries, held, t) ==
    /\ PaidUp(ws)
    /\ \A time \in Nat : t <= time => Backed(ws, entries, held, time)

\* The sum of what entries bring is a number.
LEMMA MoneyNat ==
    ASSUME NEW E \in SUBSET UnbondingEntry, IsFiniteSet(E), NEW time
    PROVE  MoneyBy(E, time) \in Nat
  <1> DEFINE R == {e \in E : e.release <= time}
  <1>1. R \in SUBSET E /\ IsFiniteSet(R)
    BY FS_Subset
  <1>2. \A e \in R : Amounts[e] \in Nat
    BY DEF Amounts, UnbondingEntry
  <1>3. SumFunctionOnSet(Amounts, R) \in Nat
    BY <1>1, <1>2, SumNat
  <1> QED BY <1>3 DEF MoneyBy

(* New entries add what they bring by the time.                            *)
LEMMA MoneyAdded ==
    ASSUME NEW E \in SUBSET UnbondingEntry, IsFiniteSet(E),
           NEW N \in SUBSET UnbondingEntry, IsFiniteSet(N), E \cap N = {}, NEW time
    PROVE  MoneyBy(E \cup N, time) = MoneyBy(E, time) + MoneyBy(N, time)
  <1> DEFINE W == {e \in E \cup N : e.release <= time}
             R == {e \in E : e.release <= time}
             S == {e \in N : e.release <= time}
  <1>1. R \in SUBSET W /\ W \ R = S /\ W \in SUBSET (E \cup N)
    OBVIOUS
  <1>2. IsFiniteSet(W)
    BY <1>1, FS_Union, FS_Subset
  <1>3. \A e \in W : Amounts[e] \in Nat
    BY DEF Amounts, UnbondingEntry
  <1> HIDE DEF W, R, S
  <1>4. SumFunctionOnSet(Amounts, W)
          = SumFunctionOnSet(Amounts, R) + SumFunctionOnSet(Amounts, W \ R)
    BY <1>1, <1>2, <1>3, SumSplit
  <1>5. SumFunctionOnSet(Amounts, W \ R) = SumFunctionOnSet(Amounts, S)
    BY <1>1
  <1> QED BY <1>4, <1>5 DEF MoneyBy, W, R, S

\* The entries that a closing's messages begin.
EntriesOf(r) ==
    {[validator |-> v, window |-> openWindow, amount |-> Leaving(r, v),
      release |-> now + UnbondingPeriod] : v \in LeftBy(r)}

(* A closing's entries bring what its window owes.                         *)
LEMMA EntriesBringTheOwed ==
    ASSUME TypedQueue, openWindow \in Nat,
           NEW set \in Seq(ValidatorEntry), Distinct(set), NEW owed \in Nat,
           HasUnbondingCapacity(set, owed, EntryCeiling),
           NEW r, r.legs = PlanUndelegation(set, owed, EntryCeiling), SameRows(r.set, set),
           NEW N, N = EntriesOf(r)
    PROVE  /\ N \in SUBSET UnbondingEntry /\ IsFiniteSet(N)
           /\ SumFunctionOnSet(Amounts, N) = owed
  <1> DEFINE L == PlanUndelegation(set, owed, EntryCeiling)
             D == DOMAIN set
             U == {i \in D : L[i] > 0}
             E(v) == [validator |-> v, window |-> openWindow, amount |-> Leaving(r, v),
                      release |-> now + UnbondingPeriod]
             b == [i \in U |-> E(set[i].address)]
  <1>1. /\ L \in [D -> Nat] /\ IsFiniteSet(D) /\ D = DOMAIN r.set
        /\ \A i \in D : r.set[i].address = set[i].address /\ set[i].address \in Validators
    BY LegsNat, SetDomain, EntryFields DEF SameRows, SameRow
  <1>2. Distinct(r.set)
    BY <1>1 DEF Distinct
  <1>3. now \in Nat /\ UnbondingPeriod \in Nat
    BY ParametersNat DEF TypedQueue
  <1>4. SumFunctionOnSet(L, D) = owed
    BY PlanCovers
  <1> HIDE DEF L
  <1>5. /\ \A i \in D : Leaving(r, set[i].address) = L[i]
        /\ \A v : v \notin AddressesIn(r.set) => Leaving(r, v) = 0
    <2>1. r.legs \in [DOMAIN r.set -> Nat] /\ r.legs = L
      BY <1>1 DEF L
    <2>2. /\ \A i \in DOMAIN r.set : Leaving(r, r.set[i].address) = r.legs[i]
          /\ \A v : v \notin AddressesIn(r.set) => Leaving(r, v) = 0
      BY <1>1, <1>2, <2>1, LeavingIsTheLeg
    <2> QED BY <1>1, <2>1, <2>2
  <1>6. U \in SUBSET D /\ IsFiniteSet(U)
    BY <1>1, FS_Subset
  <1>7. LeftBy(r) = {set[i].address : i \in U}
    <2>1. ASSUME NEW v \in LeftBy(r) PROVE \E i \in U : v = set[i].address
      <3>1. Leaving(r, v) > 0
        BY DEF LeftBy
      <3>2. v \in AddressesIn(r.set)
        BY <1>5, <3>1
      <3>3. PICK i \in D : set[i].address = v
        BY <1>1, <3>2 DEF AddressesIn
      <3> QED BY <1>5, <3>1, <3>3
    <2>2. ASSUME NEW i \in U PROVE set[i].address \in LeftBy(r)
      BY <1>1, <1>5 DEF LeftBy
    <2> QED BY <2>1, <2>2
  <1>8. N = {b[i] : i \in U}
    <2>1. N = {E(v) : v \in LeftBy(r)}
      BY DEF EntriesOf
    <2> HIDE DEF E, U
    <2> QED BY <1>7, <2>1
  <1>9. ASSUME NEW i \in U
        PROVE  /\ b[i] \in UnbondingEntry /\ Amounts[b[i]] = L[i]
               /\ b[i].validator = set[i].address /\ L[i] \in Nat
    <2>1. /\ b[i] = E(set[i].address) /\ set[i].address \in Validators
          /\ Leaving(r, set[i].address) = L[i] /\ L[i] \in Nat
      BY <1>1, <1>5, <1>6
    <2>2. E(set[i].address) \in UnbondingEntry
      BY <1>3, <2>1 DEF UnbondingEntry
    <2> QED BY <2>1, <2>2 DEF Amounts
  <1> HIDE DEF b, U, D, E
  <1>10. \A i, j \in U : b[i] = b[j] => i = j
    <2>1. ASSUME NEW i \in U, NEW j \in U, b[i] = b[j] PROVE i = j
      <3>1. set[i].address = set[j].address
        BY <1>9, <2>1
      <3>2. i \in DOMAIN set /\ j \in DOMAIN set
        BY <1>6 DEF D
      <3> QED BY <3>1, <3>2 DEF Distinct
    <2> QED BY <2>1
  <1>11. IsFiniteSet(N) /\ N \in SUBSET UnbondingEntry
    <2> DEFINE f == [e \in N |-> e.validator]
    <2>1. \A e \in N : f[e] \in Validators /\ \E i \in U : e = b[i] /\ f[e] = set[i].address
      BY <1>1, <1>6, <1>8, <1>9, SMTT(30) DEF D
    <2>2. ASSUME NEW e \in N, NEW g \in N, f[e] = f[g] PROVE e = g
      <3>1. PICK i \in U : e = b[i] /\ f[e] = set[i].address
        BY <2>1
      <3>2. PICK j \in U : g = b[j] /\ f[g] = set[j].address
        BY <2>1
      <3>3. i \in DOMAIN set /\ j \in DOMAIN set
        BY <1>6 DEF D
      <3> QED BY <2>2, <3>1, <3>2, <3>3 DEF Distinct
    <2>3. DOMAIN f = N /\ f \in [N -> Validators]
      BY <2>1
    <2> HIDE DEF f
    <2>4. f \in Injection(N, Validators)
      BY <2>2, <2>3 DEF Injection, IsInjective
    <2>5. IsFiniteSet(N)
      BY <2>4, ConstantsAreTyped, FS_Injection
    <2> QED BY <1>8, <1>9, <2>5
  <1>12. DOMAIN b = U
    BY DEF b
  <1>13. SumFunctionOnSet(L, U) = SumFunctionOnSet(Amounts, N)
    <2>1. \A i \in U : L[i] \in Int /\ Amounts[b[i]] = L[i]
      BY <1>9
    <2> QED BY <1>6, <1>8, <1>10, <1>12, <2>1, SumReindexed
  <1>14. SumFunctionOnSet(L, U) = SumFunctionOnSet(L, D)
    <2>1. \A i \in D \ U : L[i] = 0
      BY <1>1 DEF U
    <2> QED BY <1>1, <1>6, <1>9, <2>1, SumOfSupport
  <1> QED BY <1>4, <1>11, <1>13, <1>14

\* More money and more entries back it still.
LEMMA BackedMore ==
    ASSUME NEW ws, NEW E \in SUBSET UnbondingEntry, IsFiniteSet(E),
           NEW N \in SUBSET UnbondingEntry, IsFiniteSet(N), E \cap N = {},
           NEW held \in Nat, NEW more \in Nat, held <= more, NEW t,
           IsFiniteSet(DOMAIN ws), \A x \in DOMAIN ws : ws[x] \in AWindow,
           Funded(ws, E, held, t)
    PROVE  Funded(ws, E \cup N, more, t)
  <1>1. ASSUME NEW time \in Nat, t <= time PROVE Backed(ws, E \cup N, more, time)
    <2>1. /\ MoneyBy(E \cup N, time) = MoneyBy(E, time) + MoneyBy(N, time)
          /\ MoneyBy(E, time) \in Nat /\ MoneyBy(N, time) \in Nat
      BY MoneyAdded, MoneyNat
    <2>2. /\ OutstandingOf(ws, In(ws, "Matured")) \in Nat
          /\ OwedIn(ws, RipeBy(ws, time)) \in Nat
      <3>1. /\ In(ws, "Matured") \in SUBSET DOMAIN ws
            /\ RipeBy(ws, time) \in SUBSET DOMAIN ws
        BY DEF In, RipeBy
      <3> QED BY <3>1, FS_Subset, SumsNat
    <2>3. Backed(ws, E, held, time)
      BY <1>1 DEF Funded
    <2> QED BY <2>1, <2>2, <2>3 DEF Backed
  <1> QED BY <1>1 DEF Funded

(* A closing sends as much on its way as its window owes.                  *)
LEMMA ClosingFunded ==
    ASSUME TypedQueue, openWindow = nextWindowId - 1, nextWindowId \in Nat \ {0},
           NEW set \in Seq(ValidatorEntry), Distinct(set), NEW t, NEW ws,
           TypedWindows(ws, nextWindowId), ws[openWindow].state = "Open",
           NEW r, PlannedClosing(r, set, t, ws), NEW staked, Undelegated(r, staked),
           unbonding \in SUBSET UnbondingEntry, IsFiniteSet(unbonding),
           InFlight(unbonding, ws, now),
           NEW held \in Nat, NEW more \in Nat, held <= more,
           Funded(ws, unbonding, held, now)
    PROVE  Funded(r.windows, unbonding', more, now)
  <1> DEFINE w    == ws[openWindow]
             plan == PlanUndelegation(set, w.owed, EntryCeiling)
             N    == EntriesOf(r)
  <1>1. /\ DOMAIN ws = 0 .. nextWindowId - 1 /\ openWindow \in DOMAIN ws /\ openWindow \in Nat
        /\ IsFiniteSet(DOMAIN ws) /\ \A x \in DOMAIN ws : ws[x] \in AWindow
        /\ w \in AWindow /\ w.owed \in Nat /\ now \in Nat /\ UnbondingPeriod \in Nat
    BY FS_Interval, WindowFields, ParametersNat DEF TypedWindows, TypedQueue
  <1>2. unbonding' = unbonding \cup N
    BY DEF Undelegated, EntriesOf
  <1>3. unbonding \cap N = {}
    <2>1. \A e \in unbonding : e.window # openWindow
      BY DEF InFlight, Waits
    <2>2. \A e \in N : e.window = openWindow
      BY DEF EntriesOf
    <2> QED BY <2>1, <2>2
  <1>4. CASE r = StayOpen(set, t, ws)
    <2>1. r.set = set /\ r.windows = ws /\ r.legs = [i \in DOMAIN set |-> 0]
      BY <1>4 DEF StayOpen
    <2>2. r.legs \in [DOMAIN r.set -> Nat] /\ \A i \in DOMAIN r.set : r.legs[i] = 0
      BY <2>1
    <2>3. Distinct(r.set) /\ IsFiniteSet(DOMAIN r.set)
      BY <2>1, SetDomain
    <2>4. /\ \A i \in DOMAIN r.set : Leaving(r, r.set[i].address) = r.legs[i]
          /\ \A v : v \notin AddressesIn(r.set) => Leaving(r, v) = 0
      BY <2>2, <2>3, LeavingIsTheLeg
    <2>5. \A v : Leaving(r, v) = 0
      BY <2>2, <2>4 DEF AddressesIn
    <2>6. LeftBy(r) = {}
      BY <2>5 DEF LeftBy
    <2>7. N = {}
      BY <2>6 DEF EntriesOf
    <2> HIDE DEF N
    <2> QED BY <1>1, <1>2, <2>1, <2>7, BackedMore, FS_EmptySet
  <1>5. CASE r = CloseOpenWindow(set, t, ws) /\ HasUnbondingCapacity(set, w.owed, EntryCeiling)
    <2> DEFINE c   == Close([w EXCEPT !.used = UsedBy(set, plan)], now, UnbondingPeriod)
               new == r.windows
    <2>1. /\ r.set = WithLegs(set, plan) /\ r.legs = plan
          /\ new = [id \in 0 .. nextWindowId |->
                      CASE id = nextWindowId -> WindowOpen(now, WindowLength)
                        [] id = openWindow   -> c
                        [] OTHER             -> ws[id]]
      BY <1>5 DEF CloseOpenWindow
    <2>2. plan \in [DOMAIN set -> Nat] /\ SameRows(r.set, set)
      BY <1>1, <2>1, LegsNat, LegRows, SMTT(30)
    <2>3. /\ c.owed = w.owed
          /\ w.owed = 0 => c.state = "Settled"
          /\ w.owed # 0 => c.state = "Unbonding"
      BY <1>1, ClosedFigures, SMTT(30)
    <2>4. w.owed # 0 => c.maturesAt = now + UnbondingPeriod
      <3> DEFINE u == [w EXCEPT !.used = UsedBy(set, plan)]
      <3>1. UsedBy(set, plan) \in SUBSET Validators
        BY SetDomain, EntryFields DEF UsedBy
      <3>2. u \in AWindow /\ u.owed = w.owed
        <4> HIDE DEF w, plan
        <4> QED BY <1>1, <3>1 DEF AWindow, UnbondWindow
      <3>3. c = Close(u, now, UnbondingPeriod)
        OBVIOUS
      <3> HIDE DEF u, c, w, plan
      <3>4. u.owed # 0 => Close(u, now, UnbondingPeriod)
                            = [u EXCEPT !.state = "Unbonding", !.maturesAt = now + UnbondingPeriod]
        BY DEF Close
      <3>5. ASSUME u.owed # 0
            PROVE  Close(u, now, UnbondingPeriod).maturesAt = now + UnbondingPeriod
        BY <3>2, <3>4, <3>5 DEF AWindow, UnbondWindow
      <3> QED BY <3>2, <3>3, <3>5
    <2>5. /\ N \in SUBSET UnbondingEntry /\ IsFiniteSet(N)
          /\ SumFunctionOnSet(Amounts, N) = w.owed
      <3> HIDE DEF w, plan, c, new
      <3>1. /\ r.legs = plan /\ SameRows(r.set, set) /\ w.owed \in Nat
            /\ HasUnbondingCapacity(set, w.owed, EntryCeiling)
        BY <1>1, <1>5, <2>1, <2>2
      <3>2. r.legs = PlanUndelegation(set, w.owed, EntryCeiling)
        BY <3>1 DEF plan
      <3> DEFINE o == w.owed
      <3>3. o \in Nat /\ r.legs = PlanUndelegation(set, o, EntryCeiling)
            /\ HasUnbondingCapacity(set, o, EntryCeiling)
        BY <3>1, <3>2
      <3>4. N = EntriesOf(r)
        OBVIOUS
      <3> HIDE DEF N, o
      <3>5. N \in SUBSET UnbondingEntry /\ IsFiniteSet(N) /\ SumFunctionOnSet(Amounts, N) = o
        BY <1>1, <3>1, <3>3, <3>4, EntriesBringTheOwed
      <3> QED BY <3>5 DEF o
    <2>6. \A e \in N : e.release = now + UnbondingPeriod
      BY DEF EntriesOf
    <2>7. WindowOpen(now, WindowLength).state = "Open"
      BY DEF WindowOpen
    <2> DEFINE fresh == WindowOpen(now, WindowLength)
    <2> HIDE DEF c, fresh
    <2>8. /\ DOMAIN new = 0 .. nextWindowId /\ new[nextWindowId] = fresh
          /\ new[openWindow] = c
          /\ \A id \in DOMAIN ws \ {openWindow} : new[id] = ws[id]
          /\ DOMAIN new = DOMAIN ws \cup {nextWindowId}
          /\ nextWindowId \notin DOMAIN ws /\ fresh.state = "Open"
      BY <1>1, <2>1, <2>7 DEF fresh
    <2> HIDE DEF new, plan, N
    <2>9. /\ In(new, "Matured") = In(ws, "Matured")
          /\ In(new, "Matured") \in SUBSET (DOMAIN ws \ {openWindow})
      BY <1>1, <2>3, <2>8 DEF In
    <2>10. PaidUp(new)
      BY <2>8, <2>9 DEF Funded, PaidUp
    <2>11. OutstandingOf(new, In(new, "Matured")) = OutstandingOf(ws, In(ws, "Matured"))
      <3> DEFINE S == In(ws, "Matured")
      <3>1. S \subseteq DOMAIN ws /\ S \subseteq DOMAIN new
        BY <2>8, <2>9
      <3>2. \A id \in S : Outstanding(new[id]) = Outstanding(ws[id])
        BY <2>8, <2>9
      <3>3. IsFiniteSet(S)
        BY <1>1, <3>1, FS_Subset
      <3> HIDE DEF S
      <3>4. OutstandingOf(new, S) = OutstandingOf(ws, S)
        BY <3>1, <3>2, <3>3, SameOutstanding
      <3> QED BY <2>9, <3>4 DEF S
    <2>12. ASSUME NEW time \in Nat, now <= time PROVE Backed(new, unbonding', more, time)
      <3> DEFINE S == RipeBy(ws, time)
      <3>1. /\ S \subseteq DOMAIN ws /\ S \subseteq DOMAIN new /\ openWindow \notin S
            /\ openWindow \in DOMAIN new
        BY <1>1, <2>8 DEF RipeBy, In
      <3>2. \A id \in S \cup {openWindow} : new[id].owed = ws[id].owed
        BY <2>3, <2>8, <3>1
      <3>3. IsFiniteSet(S) /\ IsFiniteSet(S \cup {openWindow})
        BY <1>1, <3>1, FS_Subset, FS_AddElement
      <3>4. /\ MoneyBy(unbonding', time) = MoneyBy(unbonding, time) + MoneyBy(N, time)
            /\ MoneyBy(unbonding, time) \in Nat /\ MoneyBy(N, time) \in Nat
        BY <1>2, <1>3, <2>5, MoneyAdded, MoneyNat
      <3>5. /\ OutstandingOf(ws, In(ws, "Matured")) + OwedIn(ws, S)
                 <= held + MoneyBy(unbonding, time)
            /\ OutstandingOf(ws, In(ws, "Matured")) \in Nat
        <4>1. Backed(ws, unbonding, held, time)
          BY <2>12 DEF Funded
        <4>2. IsFiniteSet(In(ws, "Matured")) /\ In(ws, "Matured") \subseteq DOMAIN ws
          BY <1>1, FS_Subset DEF In
        <4> QED BY <1>1, <4>1, <4>2, SumsNat DEF Backed
      <3>6. OwedIn(new, S) = OwedIn(ws, S) /\ OwedIn(ws, S) \in Nat
        <4> HIDE DEF S
        <4> QED BY <1>1, <3>1, <3>2, <3>3, SameOwed, SumsNat
      <3>7. CASE w.owed # 0 /\ now + UnbondingPeriod <= time
        <4>1. RipeBy(new, time) = S \cup {openWindow}
          <5>1. \A id \in DOMAIN ws \ {openWindow} : id \in RipeBy(new, time) <=> id \in S
            BY <2>8 DEF RipeBy, In
          <5>2. openWindow \in RipeBy(new, time)
            BY <2>3, <2>4, <2>8, <3>1, <3>7 DEF RipeBy, In
          <5>3. nextWindowId \notin RipeBy(new, time)
            BY <2>8 DEF RipeBy, In
          <5>4. RipeBy(new, time) \subseteq DOMAIN new
            BY DEF RipeBy, In
          <5> HIDE DEF S
          <5> QED BY <2>8, <3>1, <5>1, <5>2, <5>3, <5>4
        <4> HIDE DEF S
        <4>2. OwedIn(new, S \cup {openWindow}) = OwedIn(ws, S \cup {openWindow})
          BY <1>1, <3>1, <3>2, <3>3, SameOwed
        <4>3. OwedIn(ws, S \cup {openWindow}) = OwedIn(ws, S) + w.owed
          BY <1>1, <3>1, <3>3, WindowAdded
        <4>4. MoneyBy(N, time) = w.owed
          <5>1. {e \in N : e.release <= time} = N
            BY <2>6, <3>7
          <5> QED BY <2>5, <5>1 DEF MoneyBy
        <4>5. OwedIn(new, RipeBy(new, time)) = OwedIn(ws, S) + w.owed
          BY <4>1, <4>2, <4>3
        <4>6. MoneyBy(unbonding', time) = MoneyBy(unbonding, time) + w.owed
          BY <3>4, <4>4
        <4>7. PICK n \in Nat : n = w.owed
          BY <1>1
        <4> HIDE DEF w
        <4>8. OutstandingOf(ws, In(ws, "Matured")) + (OwedIn(ws, S) + n)
                <= more + (MoneyBy(unbonding, time) + n)
          BY <3>4, <3>5, <3>6, SMTT(30)
        <4>9. OwedIn(new, RipeBy(new, time)) = OwedIn(ws, S) + n
              /\ MoneyBy(unbonding', time) = MoneyBy(unbonding, time) + n
          BY <4>5, <4>6, <4>7, Zenon
        <4> QED BY <2>11, <4>8, <4>9 DEF Backed
      <3>8. CASE w.owed = 0 \/ ~ (now + UnbondingPeriod <= time)
        <4>1. RipeBy(new, time) = S
          <5>1. \A id \in DOMAIN ws \ {openWindow} : id \in RipeBy(new, time) <=> id \in S
            BY <2>8 DEF RipeBy, In
          <5>2. openWindow \notin RipeBy(new, time)
            BY <2>3, <2>4, <2>8, <3>1, <3>8 DEF RipeBy, In
          <5>3. nextWindowId \notin RipeBy(new, time)
            BY <2>8 DEF RipeBy, In
          <5>4. RipeBy(new, time) \subseteq DOMAIN new
            BY DEF RipeBy, In
          <5>5. S \subseteq DOMAIN ws \ {openWindow}
            BY <3>1
          <5>6. RipeBy(new, time) \subseteq DOMAIN ws \ {openWindow}
            BY <2>8, <5>2, <5>3, <5>4
          <5> HIDE DEF S
          <5> QED BY <5>1, <5>5, <5>6
        <4> HIDE DEF S
        <4>2. OwedIn(new, RipeBy(new, time)) = OwedIn(ws, S)
          BY <3>6, <4>1
        <4>3. OutstandingOf(ws, In(ws, "Matured")) + OwedIn(ws, S)
                <= more + MoneyBy(unbonding', time)
          BY <3>4, <3>5, <3>6
        <4> QED BY <2>11, <4>2, <4>3 DEF Backed
      <3> QED BY <3>7, <3>8
    <2>13. Funded(new, unbonding', more, now)
      BY <2>10, <2>12 DEF Funded
    <2> QED BY <2>13 DEF new
  <1> QED BY <1>4, <1>5 DEF PlannedClosing

(* Nothing that comes later is in the balance yet, and what is ripe is: so *)
(* a window finds all it owes when it matures.                             *)
LEMMA RipeIsThere ==
    ASSUME Consistent, InFlight(unbonding, windows, now),
           unbonding \in SUBSET UnbondingEntry,
           Funded(windows, unbonding, balance, now),
           NEW ids \in SUBSET DueWindows, NEW id \in ids
    PROVE  windows[id].owed <= Available(ids, id)
  <1> DEFINE M == In(windows, "Matured")
             R == RipeBy(windows, now)
             K == {k \in ids : k < id}
             T == K \cup {id}
  <1>1. /\ IsFiniteSet(WindowIds) /\ WindowIds = DOMAIN windows /\ balance \in Nat
        /\ \A x \in WindowIds : windows[x] \in AWindow /\ x \in Int
        /\ {x \in active : windows[x].state = "Matured"} = M /\ now \in Nat
        /\ DueWindows \subseteq In(windows, "Unbonding")
    BY ConsistentShape DEF TypedQueue
  <1>2. MoneyBy(unbonding, now) = 0
    <2>1. \A e \in unbonding : e.release > now /\ e.release \in Nat
      BY DEF InFlight, UnbondingEntry
    <2>2. {e \in unbonding : e.release <= now} = {}
      BY <1>1, <2>1
    <2> QED BY <2>2, SumEmpty DEF MoneyBy
  <1>3. OutstandingOf(windows, M) + OwedIn(windows, R) <= balance
    <2>1. Backed(windows, unbonding, balance, now)
      BY <1>1 DEF Funded
    <2> QED BY <1>1, <1>2, <2>1 DEF Backed
  <1>4. ids \subseteq R
    <2>1. \A x \in ids : now >= windows[x].maturesAt /\ x \in In(windows, "Unbonding")
      BY <1>1 DEF DueWindows, IsMature
    <2>2. \A x \in ids : windows[x].maturesAt \in Nat
      BY <1>1, <2>1 DEF In, AWindow, UnbondWindow
    <2> QED BY <1>1, <2>1, <2>2 DEF RipeBy
  <1>5. /\ R \subseteq DOMAIN windows /\ M \subseteq DOMAIN windows
        /\ IsFiniteSet(R) /\ IsFiniteSet(M) /\ T \in SUBSET R /\ IsFiniteSet(K)
        /\ K \subseteq DOMAIN windows /\ id \in DOMAIN windows /\ id \notin K
    <2>1. R \subseteq DOMAIN windows /\ M \subseteq DOMAIN windows
      BY DEF RipeBy, In
    <2>2. K \subseteq R /\ id \in R
      BY <1>4
    <2>3. id \notin K
      BY <1>1, <2>1, <2>2
    <2> HIDE DEF K, R, M
    <2> QED BY <1>1, <2>1, <2>2, <2>3, FS_Subset
  <1> HIDE DEF K, R, M
  <1>6. /\ OwedIn(windows, R) = OwedIn(windows, T) + OwedIn(windows, R \ T)
        /\ OwedIn(windows, T) = OwedIn(windows, K) + windows[id].owed
        /\ OwedIn(windows, R \ T) \in Nat /\ OwedIn(windows, K) \in Nat
        /\ OutstandingOf(windows, M) \in Nat /\ windows[id].owed \in Nat
    <2>1. R \ T \in SUBSET R /\ R \ T \subseteq DOMAIN windows
      BY <1>5
    <2>2. IsFiniteSet(R \ T)
      BY <1>5, <2>1, FS_Subset
    <2>3. OwedIn(windows, T) = OwedIn(windows, K) + windows[id].owed
      BY <1>1, <1>5, WindowAdded
    <2>4. windows[id].owed \in Nat
      BY <1>1, <1>5, WindowFields
    <2> HIDE DEF T
    <2> QED BY <1>1, <1>5, <2>1, <2>2, <2>3, <2>4, SumsSplit, SumsNat
  <1>7. Available(ids, id)
          = SatSub(SatSub(balance, OutstandingOf(windows, M)), OwedIn(windows, K))
    BY <1>1 DEF Available, SpokenFor, OwedOf, OwedIn, K
  <1> QED BY <1>1, <1>3, <1>6, <1>7 DEF SatSub

(* Maturity turns what is owed into money set aside, unit for unit.        *)
LEMMA MaturityFunded ==
    ASSUME Consistent, InFlight(unbonding, windows, now),
           unbonding \in SUBSET UnbondingEntry, IsFiniteSet(unbonding),
           Funded(windows, unbonding, balance, now), NEW ids \in SUBSET DueWindows
    PROVE  Funded(MaturedWindows(ids), unbonding, balance, now)
  <1> DEFINE ws == MaturedWindows(ids)
             M  == In(windows, "Matured")
  <1>1. /\ IsFiniteSet(WindowIds) /\ WindowIds = DOMAIN windows /\ balance \in Nat
        /\ \A x \in WindowIds : windows[x] \in AWindow
        /\ TypedQueue /\ now \in Nat
    BY ConsistentShape DEF TypedQueue
  <1>2. /\ DOMAIN ws = WindowIds
        /\ \A id \in WindowIds :
             /\ ws[id] \in AWindow /\ ws[id].owed = windows[id].owed
             /\ ws[id].maturesAt = windows[id].maturesAt
             /\ ws[id].claimed = windows[id].claimed
        /\ \A id \in WindowIds \ ids : ws[id] = windows[id]
        /\ \A id \in ids : id \in WindowIds /\ windows[id].state = "Unbonding"
        /\ In(ws, "Unbonding") = In(windows, "Unbonding") \ ids
        /\ In(ws, "Matured") = M \cup ids
    BY CollectedFigures
  <1>3. ASSUME NEW id \in ids PROVE ws[id].realised = ws[id].owed /\ ws[id].realised \in Nat
    <2>1. PICK w \in AWindow : w = windows[id]
      BY <1>1, <1>2
    <2>2. w.owed \in Nat /\ w.owed <= Available(ids, id) /\ Available(ids, id) \in Nat
      BY <1>1, <1>2, <2>1, RipeIsThere, AvailableNat, WindowFields
    <2>3. ws[id] = Mature(w, Available(ids, id))
      BY <1>2, <2>1 DEF MaturedWindows
    <2>4. Mature(w, Available(ids, id)).realised = Min2(w.owed, Available(ids, id))
      BY DEF Mature, AWindow, UnbondWindow
    <2>5. Min2(w.owed, Available(ids, id)) = w.owed
      BY <2>2 DEF Min2
    <2> QED BY <1>2, <2>1, <2>2, <2>3, <2>4, <2>5
  <1>4. /\ M \subseteq WindowIds /\ ids \subseteq WindowIds /\ M \cap ids = {}
        /\ IsFiniteSet(M) /\ IsFiniteSet(ids) /\ ids \subseteq In(windows, "Unbonding")
    <2>1. M \subseteq WindowIds /\ ids \subseteq WindowIds /\ M \cap ids = {}
          /\ ids \subseteq In(windows, "Unbonding")
      BY <1>1, <1>2 DEF In
    <2> QED BY <1>1, <2>1, FS_Subset
  <1> HIDE DEF ws
  <1>5. PaidUp(ws)
    <2>1. ASSUME NEW id \in M PROVE ws[id].realised = ws[id].owed
      <3>1. windows[id].realised = windows[id].owed
        BY DEF Funded, PaidUp
      <3> QED BY <1>2, <1>4, <3>1
    <2> QED BY <1>2, <1>3, <2>1 DEF PaidUp
  <1>6. /\ OutstandingOf(ws, In(ws, "Matured"))
             = OutstandingOf(windows, M) + OutstandingOf(ws, ids)
        /\ OutstandingOf(windows, M) \in Nat /\ OutstandingOf(ws, ids) \in Nat
    <2>1. /\ IsFiniteSet(M \cup ids) /\ (M \cup ids) \ ids = M
          /\ M \cup ids \subseteq DOMAIN ws /\ ids \in SUBSET (M \cup ids)
          /\ \A x \in DOMAIN ws : ws[x] \in AWindow
      <3>1. IsFiniteSet(M \cup ids)
        BY <1>4, FS_Union
      <3> QED BY <1>2, <1>4, <3>1
    <2>2. M \subseteq DOMAIN windows /\ M \subseteq DOMAIN ws /\ ids \subseteq DOMAIN ws
          /\ \A id \in M : Outstanding(ws[id]) = Outstanding(windows[id])
      BY <1>1, <1>2, <1>4
    <2> HIDE DEF M
    <2>3. OutstandingOf(ws, M \cup ids)
            = OutstandingOf(ws, ids) + OutstandingOf(ws, (M \cup ids) \ ids)
      BY <2>1, SumsSplit
    <2>4. OutstandingOf(ws, M) = OutstandingOf(windows, M)
      BY <1>4, <2>2, SameOutstanding
    <2>5. OutstandingOf(windows, M) \in Nat /\ OutstandingOf(ws, ids) \in Nat
      BY <1>1, <1>4, <2>1, <2>2, SumsNat
    <2>6. OutstandingOf(ws, (M \cup ids) \ ids) = OutstandingOf(windows, M)
      BY <2>1, <2>4, Zenon
    <2>7. OutstandingOf(ws, In(ws, "Matured")) = OutstandingOf(ws, M \cup ids)
      BY <1>2, Zenon
    <2> QED BY <2>3, <2>5, <2>6, <2>7
  <1>7. OutstandingOf(ws, ids) <= OwedIn(windows, ids) /\ OwedIn(windows, ids) \in Nat
    <2> DEFINE f == [id \in DOMAIN ws |-> Outstanding(ws[id])]
               h == [id \in DOMAIN windows |-> windows[id].owed]
    <2>1. ASSUME NEW id \in ids PROVE f[id] \in Nat /\ h[id] \in Nat /\ f[id] <= h[id]
      <3>1. PICK w \in AWindow : w = ws[id]
        BY <1>2, <1>4
      <3>2. /\ w.owed \in Nat /\ w.claimed \in Nat /\ w.realised \in Nat
            /\ w.realised = w.owed /\ h[id] = w.owed
        BY <1>1, <1>2, <1>3, <1>4, <3>1, WindowFields
      <3>3. f[id] = SatSub(w.realised, w.claimed)
        <4>1. None # w.realised
          BY <3>2, NoneIsNotAnAmount
        <4> QED BY <1>2, <1>4, <3>1, <4>1 DEF Outstanding, Payable
      <3> HIDE DEF f, h
      <3> QED BY <3>2, <3>3, SatSubNat
    <2> HIDE DEF f, h
    <2>2. SumFunctionOnSet(f, ids) <= SumFunctionOnSet(h, ids)
      BY <1>4, <2>1, SumAtMost
    <2>3. SumFunctionOnSet(h, ids) \in Nat
      BY <1>4, <2>1, SumNat
    <2> QED BY <2>2, <2>3 DEF f, h, OutstandingOf, OwedIn
  <1>8. ASSUME NEW time \in Nat, now <= time PROVE Backed(ws, unbonding, balance, time)
    <2> DEFINE R == RipeBy(windows, time)
    <2>1. ids \in SUBSET R
      <3>1. \A x \in ids : now >= windows[x].maturesAt /\ windows[x].maturesAt \in Nat
        BY <1>1, <1>4 DEF DueWindows, IsMature, AWindow, UnbondWindow
      <3> QED BY <1>1, <1>4, <1>8, <3>1 DEF RipeBy
    <2>2. R \subseteq DOMAIN windows /\ IsFiniteSet(R)
      <3>1. R \subseteq DOMAIN windows
        BY DEF RipeBy, In
      <3> QED BY <1>1, <3>1, FS_Subset
    <2>3. RipeBy(ws, time) = R \ ids
      <3>1. \A id \in In(windows, "Unbonding") \ ids : ws[id].maturesAt = windows[id].maturesAt
        BY <1>1, <1>2 DEF In
      <3> QED BY <1>2, <3>1 DEF RipeBy
    <2> HIDE DEF R
    <2>4. OwedIn(windows, R) = OwedIn(windows, ids) + OwedIn(windows, R \ ids)
      BY <1>1, <2>1, <2>2, SumsSplit
    <2>5. OwedIn(ws, R \ ids) = OwedIn(windows, R \ ids)
      <3>1. /\ IsFiniteSet(R \ ids) /\ R \ ids \subseteq DOMAIN windows
            /\ R \ ids \subseteq DOMAIN ws
            /\ \A id \in R \ ids : ws[id].owed = windows[id].owed
        BY <1>1, <1>2, <2>2, FS_Subset
      <3> DEFINE S == R \ ids
      <3> HIDE DEF S
      <3>2. /\ IsFiniteSet(S) /\ S \subseteq DOMAIN windows /\ S \subseteq DOMAIN ws
            /\ \A id \in S : ws[id].owed = windows[id].owed
        BY <3>1 DEF S
      <3>3. OwedIn(ws, S) = OwedIn(windows, S)
        BY <3>2, SameOwed
      <3> QED BY <3>3 DEF S
    <2>6. OwedIn(windows, R \ ids) \in Nat
      <3>1. IsFiniteSet(R \ ids) /\ R \ ids \subseteq DOMAIN windows
        BY <2>2, FS_Subset
      <3> QED BY <1>1, <3>1, SumsNat
    <2>7. OutstandingOf(windows, M) + OwedIn(windows, R) <= balance + MoneyBy(unbonding, time)
      BY <1>8 DEF Funded, Backed, R
    <2>8. MoneyBy(unbonding, time) \in Nat
      BY MoneyNat
    <2> HIDE DEF M
    <2>9. OwedIn(ws, RipeBy(ws, time)) = OwedIn(windows, R \ ids)
      BY <2>3, <2>5
    <2>10. OutstandingOf(windows, M) + OutstandingOf(ws, ids) + OwedIn(windows, R \ ids)
             <= balance + MoneyBy(unbonding, time)
      BY <1>1, <1>6, <1>7, <2>4, <2>6, <2>7, <2>8
    <2> QED BY <1>6, <2>9, <2>10 DEF Backed
  <1> QED BY <1>5, <1>8 DEF Funded, ws

(* A claim takes from the balance what it takes off the windows.           *)
LEMMA ClaimFunded ==
    ASSUME Consistent, NEW u \in Users, NEW ids, PaidTo(u, ids) <= balance,
           unbonding \in SUBSET UnbondingEntry, IsFiniteSet(unbonding),
           Funded(WindowsAtClaim, unbonding, balance, now)
    PROVE  Funded(WindowsAfterClaim(u, ids), unbonding, balance - PaidTo(u, ids), now)
  <1> DEFINE at   == WindowsAtClaim
             ws   == WindowsAfterClaim(u, ids)
             P    == Paying(u, ids)
             paid == PaidTo(u, ids)
  <1>1. /\ OutstandingOf(at, In(at, "Matured"))
             = OutstandingOf(ws, In(ws, "Matured")) + paid
        /\ OutstandingOf(ws, In(ws, "Matured")) \in Nat /\ paid \in Nat
    BY PaidFromMatured
  <1>2. /\ DOMAIN at = WindowIds /\ DOMAIN ws = WindowIds
        /\ P \subseteq In(at, "Matured")
        /\ \A id \in WindowIds \ P : ws[id] = at[id]
        /\ \A id \in P : ws[id].state \in {"Matured", "Settled"}
        /\ \A id \in WindowIds :
             /\ at[id] \in AWindow /\ ws[id] \in AWindow
             /\ ws[id].owed = at[id].owed /\ ws[id].realised = at[id].realised
             /\ ws[id].maturesAt = at[id].maturesAt
    BY ClaimedFigures
  <1>3. balance \in Nat /\ IsFiniteSet(WindowIds)
    BY ConsistentShape
  <1> HIDE DEF at, ws, P, paid
  <1>4. PaidUp(ws)
    <2>1. ASSUME NEW id \in In(ws, "Matured") PROVE ws[id].realised = ws[id].owed
      <3>1. id \in WindowIds /\ id \in In(at, "Matured")
        BY <1>2 DEF In
      <3>2. at[id].realised = at[id].owed
        BY <3>1 DEF Funded, PaidUp, at
      <3> QED BY <1>2, <3>1, <3>2
    <2> QED BY <2>1 DEF PaidUp
  <1>5. ASSUME NEW time \in Nat, now <= time PROVE Backed(ws, unbonding, balance - paid, time)
    <2> DEFINE R == RipeBy(at, time)
    <2>1. RipeBy(ws, time) = R
      <3>1. In(ws, "Unbonding") = In(at, "Unbonding") /\ In(at, "Unbonding") \subseteq WindowIds
        BY <1>2 DEF In
      <3> QED BY <1>2, <3>1 DEF RipeBy
    <2>2. /\ IsFiniteSet(R) /\ R \subseteq DOMAIN at /\ R \subseteq DOMAIN ws
          /\ \A id \in R : ws[id].owed = at[id].owed
      <3>1. R \subseteq WindowIds
        BY <1>2 DEF RipeBy, In
      <3> HIDE DEF R
      <3> QED BY <1>2, <1>3, <3>1, FS_Subset
    <2>3. Backed(at, unbonding, balance, time)
      BY <1>5 DEF Funded, at
    <2>4. MoneyBy(unbonding, time) \in Nat
      BY MoneyNat
    <2>5. OutstandingOf(at, In(at, "Matured")) + OwedIn(at, R)
            <= balance + MoneyBy(unbonding, time)
      BY <2>3 DEF Backed
    <2> HIDE DEF R
    <2>6. OwedIn(ws, R) = OwedIn(at, R)
      BY <2>2, SameOwed
    <2>7. OwedIn(at, R) \in Nat
      BY <1>2, <2>2, SumsNat
    <2> QED BY <1>1, <1>3, <2>1, <2>4, <2>5, <2>6, <2>7 DEF Backed, paid
  <1> QED BY <1>4, <1>5 DEF Funded, ws, paid

(* A chain that pays on time brings in a new block what was due by it.     *)
LEMMA BlockFunded ==
    ASSUME TypedParts, ReleaseLag = 0, NextBlock,
           Funded(windows, unbonding, balance, now)
    PROVE  Funded(windows', unbonding', balance', now')
  <1> DEFINE ripe == {e \in unbonding : e.release <= now + 1}
             rest == unbonding \ ripe
  <1>1. /\ windows' = windows /\ now' = now + 1 /\ now \in Nat /\ balance \in Nat
        /\ unbonding \in SUBSET UnbondingEntry /\ IsFiniteSet(unbonding)
    BY DEF NextBlock, contractVars, TypedParts, TypedChain
  <1>2. \A e \in unbonding : e.release \in Nat
    BY <1>1 DEF UnbondingEntry
  <1>3. PICK released \in SUBSET ripe :
          /\ {e \in ripe : e.release + ReleaseLag <= now + 1} \subseteq released
          /\ unbonding' = unbonding \ released
          /\ balance' = balance + SumFunction([e \in released |-> e.amount])
    BY DEF NextBlock
  <1>4. released = ripe
    <2>1. \A e \in ripe : e.release + ReleaseLag <= now + 1
      BY <1>2
    <2> QED BY <1>3, <2>1
  <1>5. rest \in SUBSET UnbondingEntry /\ ripe \in SUBSET UnbondingEntry
        /\ rest \cap ripe = {} /\ rest \cup ripe = unbonding
        /\ IsFiniteSet(rest) /\ IsFiniteSet(ripe)
    <2>1. rest \in SUBSET unbonding /\ ripe \in SUBSET unbonding /\ rest \cap ripe = {}
          /\ rest \cup ripe = unbonding
      OBVIOUS
    <2> QED BY <1>1, <2>1, FS_Subset
  <1>6. SumFunction([e \in released |-> e.amount]) = SumFunctionOnSet(Amounts, ripe)
    <2> DEFINE f == [e \in ripe |-> e.amount]
    <2>1. \A e \in ripe : f[e] = Amounts[e]
      BY <1>5 DEF Amounts
    <2>2. DOMAIN f = ripe
      OBVIOUS
    <2> HIDE DEF f, ripe
    <2>3. SumFunctionOnSet(f, ripe) = SumFunctionOnSet(Amounts, ripe)
      BY <1>5, <2>1, SumExt
    <2>4. SumFunction(f) = SumFunctionOnSet(f, ripe)
      BY <2>2 DEF SumFunction
    <2> QED BY <1>4, <2>3, <2>4 DEF f
  <1>7. ASSUME NEW time \in Nat, now + 1 <= time
        PROVE  Backed(windows, rest, balance + SumFunctionOnSet(Amounts, ripe), time)
    <2>1. {e \in ripe : e.release <= time} = ripe
      BY <1>1, <1>2, <1>7
    <2>2. MoneyBy(ripe, time) = SumFunctionOnSet(Amounts, ripe)
      BY <2>1 DEF MoneyBy
    <2> HIDE DEF ripe, rest
    <2>3. /\ MoneyBy(unbonding, time) = MoneyBy(rest, time) + MoneyBy(ripe, time)
          /\ MoneyBy(rest, time) \in Nat /\ MoneyBy(ripe, time) \in Nat
      BY <1>5, MoneyAdded, MoneyNat
    <2>4. Backed(windows, unbonding, balance, time)
      BY <1>1, <1>7 DEF Funded
    <2> QED BY <1>1, <2>2, <2>3, <2>4 DEF Backed
  <1> HIDE DEF ripe, rest
  <1>8. unbonding' = rest /\ balance' = balance + SumFunctionOnSet(Amounts, ripe)
    BY <1>3, <1>4, <1>6 DEF rest
  <1>9. PaidUp(windows)
    BY DEF Funded
  <1> QED BY <1>1, <1>7, <1>8, <1>9 DEF Funded

(* What happens in an open window is no claim on the money yet.            *)
LEMMA JoiningFunded ==
    ASSUME NEW ws, NEW ws2, NEW E, NEW held, NEW t, NEW open, NEW n \in Nat,
           TypedWindows(ws, n), TypedWindows(ws2, n), DOMAIN ws2 = DOMAIN ws,
           open \in DOMAIN ws, ws[open].state = "Open", ws2[open].state = "Open",
           \A id \in DOMAIN ws \ {open} : ws2[id] = ws[id], Funded(ws, E, held, t)
    PROVE  Funded(ws2, E, held, t)
  <1> DEFINE M == In(ws, "Matured")
  <1>1. /\ IsFiniteSet(DOMAIN ws) /\ \A x \in DOMAIN ws : ws[x] \in AWindow /\ ws2[x] \in AWindow
    <2>1. DOMAIN ws = 0 .. n - 1 /\ DOMAIN ws2 = 0 .. n - 1
      BY DEF TypedWindows
    <2>2. \A x \in 0 .. n - 1 : ws[x] \in AWindow /\ ws2[x] \in AWindow
      BY DEF TypedWindows
    <2>3. IsFiniteSet(0 .. n - 1)
      BY FS_Interval
    <2> QED BY <2>1, <2>2, <2>3
  <1>2. /\ In(ws2, "Matured") = M /\ In(ws2, "Unbonding") = In(ws, "Unbonding")
        /\ \A id \in M \cup In(ws, "Unbonding") : id \in DOMAIN ws /\ ws2[id] = ws[id]
    BY DEF In
  <1>3. M \subseteq DOMAIN ws /\ IsFiniteSet(M)
    <2>1. M \subseteq DOMAIN ws
      BY DEF In
    <2> QED BY <1>1, <2>1, FS_Subset
  <1>4. PaidUp(ws2)
    BY <1>2 DEF Funded, PaidUp
  <1> HIDE DEF M
  <1>5. OutstandingOf(ws2, M) = OutstandingOf(ws, M)
    BY <1>2, <1>3, SameOutstanding
  <1>6. ASSUME NEW time \in Nat, t <= time PROVE Backed(ws2, E, held, time)
    <2> DEFINE R == RipeBy(ws, time)
    <2>1. RipeBy(ws2, time) = R /\ R \subseteq In(ws, "Unbonding") /\ R \subseteq DOMAIN ws
      BY <1>2 DEF RipeBy
    <2>2. IsFiniteSet(R)
      BY <1>1, <2>1, FS_Subset
    <2> HIDE DEF R
    <2>3. OwedIn(ws2, R) = OwedIn(ws, R)
      BY <1>2, <2>1, <2>2, SameOwed
    <2>4. Backed(ws, E, held, time)
      BY <1>6 DEF Funded
    <2>5. OutstandingOf(ws2, In(ws2, "Matured")) = OutstandingOf(ws, In(ws, "Matured"))
      BY <1>2, <1>5 DEF M
    <2>6. OwedIn(ws2, RipeBy(ws2, time)) = OwedIn(ws, RipeBy(ws, time))
      BY <2>1, <2>3 DEF R
    <2> QED BY <2>4, <2>5, <2>6 DEF Backed
  <1> QED BY <1>4, <1>6 DEF Funded

(* A deposit is placed, and the closing that rides along is planned whole. *)
LEMMA DepositFunded ==
    ASSUME Consistent, Distinct(validators), NowhereElse(validators, delegated),
           InFlight(unbonding, windows, now), Funded(windows, unbonding, balance, now),
           NEW u \in Users, NEW amount \in Deposits, Deposit(u, amount)
    PROVE  Funded(windows', unbonding', balance', now')
  <1> DEFINE r      == DepositPlaced(amount)
             staked == DepositStaked(amount)
  <1>1. /\ windows' = r.windows /\ now' = now /\ Undelegated(r, staked)
        /\ RewardsPaidAt(LeftBy(r) \cup {DepositTarget(amount)})
        /\ AcceptsStake(RefreshedSet) # {}
    BY DEF Deposit, DepositAccepted, Commit
  <1>2. /\ TypedParts /\ TypedQueue /\ openWindow = nextWindowId - 1
        /\ nextWindowId \in Nat \ {0} /\ windows[openWindow].state = "Open"
        /\ TypedWindows(windows, nextWindowId) /\ balance \in Nat
        /\ unbonding \in SUBSET UnbondingEntry /\ IsFiniteSet(unbonding)
        /\ delegated \in [Validators -> Nat]
    BY ConsistentShape, PartsMakeTypeInv
       DEF Consistent, TypedParts, TypedChain, TypedQueue, Shaped, TypedWindows
  <1>3. PICK set \in Seq(ValidatorEntry), t \in TotalsCache :
             PlannedClosing(r, set, t, windows) /\ Distinct(set)
    BY <1>1, <1>2, DepositPlans
  <1>4. balance' \in Nat /\ balance <= balance'
    <2>1. DepositTarget(amount) \in Validators
      <3>1. /\ RefreshedSet \in Seq(ValidatorEntry)
            /\ SelectForDelegation(RefreshedSet, amount) \in DOMAIN RefreshedSet
        BY <1>1, <1>2, RefreshedTracks, SelectsActive, InputsNat DEF AcceptsStake
      <3> QED BY <3>1, SetDomain, EntryFields DEF DepositTarget
    <2>2. LeftBy(r) \cup {DepositTarget(amount)} \in SUBSET Validators
      BY <2>1 DEF LeftBy
    <2> QED BY <1>1, <2>2, RewardsAdd
  <1> HIDE DEF r, staked
  <1>5. Funded(r.windows, unbonding', balance', now)
    BY <1>1, <1>2, <1>3, <1>4, ClosingFunded
  <1> QED BY <1>1, <1>5

(* A request only adds to the open window, which nothing is paid from yet. *)
LEMMA RequestFunded ==
    ASSUME Consistent, Distinct(validators),
           InFlight(unbonding, windows, now), Funded(windows, unbonding, balance, now),
           NEW u \in Users, NEW shares \in Requests, Unbond(u, shares)
    PROVE  Funded(windows', unbonding', balance', now')
  <1> DEFINE owed == AssetsForShares(shares, RequestPool)
             ws   == [windows EXCEPT ![openWindow].shares = @ + shares,
                                     ![openWindow].owed = @ + owed]
             t    == [RefreshedTotals EXCEPT !.supply = SatSub(@, shares),
                                             !.owedOpen = @ + owed]
             r    == RequestPlaced(shares)
  <1>1. /\ windows' = r.windows /\ now' = now /\ Undelegated(r, delegated)
        /\ RewardsPaidAt(LeftBy(r))
    BY DEF Unbond, Commit
  <1>2. PlannedClosing(r, RefreshedSet, t, ws)
    BY RidingAlongIsPlanned DEF RequestPlaced
  <1>3. /\ TypedParts /\ TypedQueue /\ openWindow = nextWindowId - 1
        /\ nextWindowId \in Nat \ {0} /\ windows[openWindow].state = "Open"
        /\ TypedWindows(windows, nextWindowId) /\ balance \in Nat
        /\ DOMAIN windows = 0 .. nextWindowId - 1 /\ openWindow \in DOMAIN windows
        /\ unbonding \in SUBSET UnbondingEntry /\ IsFiniteSet(unbonding)
    BY ConsistentShape, PartsMakeTypeInv
       DEF Consistent, TypedParts, TypedChain, TypedQueue, Shaped, TypedWindows
  <1>4. RefreshedSet \in Seq(ValidatorEntry) /\ SameRows(RefreshedSet, validators)
    BY <1>3, RefreshTyped, PageRows DEF RefreshedSet, TypedParts, TypedSet
  <1>5. TypedWindows(ws, nextWindowId)
    BY <1>3, JoinedTyped
  <1> HIDE DEF t, r, owed
  <1>6. /\ DOMAIN ws = DOMAIN windows /\ ws[openWindow].state = "Open"
        /\ \A id \in DOMAIN windows \ {openWindow} : ws[id] = windows[id]
    <2>1. DOMAIN ws = DOMAIN windows
          /\ \A id \in DOMAIN windows \ {openWindow} : ws[id] = windows[id]
      OBVIOUS
    <2>2. ws[openWindow].state = "Open"
      <3>1. PICK w \in AWindow : w = windows[openWindow]
        BY <1>3 DEF TypedWindows
      <3>2. ws[openWindow] = [w EXCEPT !.shares = w.shares + shares, !.owed = w.owed + owed]
        BY <1>3, <3>1
      <3> QED BY <1>3, <3>1, <3>2 DEF AWindow, UnbondWindow
    <2> QED BY <2>1, <2>2
  <1> HIDE DEF ws
  <1>7. Distinct(RefreshedSet)
    BY <1>4 DEF SameRows, SameRow, Distinct
  <1>8. InFlight(unbonding, ws, now)
    <2>1. ASSUME NEW id \in DOMAIN windows, windows[id].state = "Unbonding"
          PROVE  id \in DOMAIN ws /\ ws[id] = windows[id]
      BY <1>3, <1>6, <2>1
    <2> QED BY <2>1, InFlightKept
  <1>9. Funded(ws, unbonding, balance, now)
    BY <1>3, <1>5, <1>6, JoiningFunded
  <1>10. balance' \in Nat /\ balance <= balance'
    <2>1. LeftBy(r) \in SUBSET Validators
      BY DEF LeftBy
    <2> QED BY <1>1, <2>1, RewardsAdd
  <1>11. Funded(r.windows, unbonding', balance', now)
    BY <1>1, <1>2, <1>3, <1>4, <1>5, <1>6, <1>7, <1>8, <1>9, <1>10, ClosingFunded
  <1> QED BY <1>1, <1>11

(* At first nothing is promised.                                           *)
LEMMA NothingOwedAtFirst == Init => Funded(windows, unbonding, balance, now)
  <1> SUFFICES ASSUME Init PROVE Funded(windows, unbonding, balance, now)
    OBVIOUS
  <1>1. windows = [id \in {0} |-> WindowOpen(now, WindowLength)] /\ unbonding = {} /\ balance = 0
    BY DEF Init
  <1>2. WindowOpen(now, WindowLength).state = "Open"
    BY DEF WindowOpen
  <1>3. In(windows, "Matured") = {} /\ In(windows, "Unbonding") = {}
    BY <1>1, <1>2 DEF In
  <1>4. ASSUME NEW time \in Nat PROVE Backed(windows, unbonding, balance, time)
    <2>1. RipeBy(windows, time) = {} /\ {e \in unbonding : e.release <= time} = {}
      BY <1>1, <1>3 DEF RipeBy
    <2>2. /\ OutstandingOf(windows, {}) = 0 /\ OwedIn(windows, {}) = 0
          /\ SumFunctionOnSet(Amounts, {}) = 0
      BY SumEmpty DEF OutstandingOf, OwedIn
    <2> QED BY <1>1, <1>3, <2>1, <2>2 DEF Backed, MoneyBy
  <1> QED BY <1>3, <1>4 DEF Funded, PaidUp

\* Every step keeps the money that is promised on its way or at hand.
LEMMA FundedStep ==
    ASSUME Consistent, Distinct(validators), NowhereElse(validators, delegated),
           ReleaseLag = 0, UnbondingPeriod > 0,
           InFlight(unbonding, windows, now), [Next]_vars,
           seen["slashes"] = 0 => Funded(windows, unbonding, balance, now)
    PROVE  seen'["slashes"] = 0 => Funded(windows', unbonding', balance', now')
  <1> DEFINE Same == seen'["slashes"] = seen["slashes"]
             Kept == seen'["slashes"] = 0 => Funded(windows', unbonding', balance', now')
  <1>0. /\ TypedParts /\ TypedQueue /\ openWindow = nextWindowId - 1
        /\ nextWindowId \in Nat \ {0} /\ windows[openWindow].state = "Open"
        /\ TypedWindows(windows, nextWindowId) /\ balance \in Nat
        /\ IsFiniteSet(DOMAIN windows) /\ \A x \in DOMAIN windows : windows[x] \in AWindow
        /\ validators \in Seq(ValidatorEntry) /\ accrued \in [Validators -> Nat]
        /\ unbonding \in SUBSET UnbondingEntry /\ IsFiniteSet(unbonding)
        /\ delegated \in [Validators -> Nat] /\ seen \in [Events -> Nat]
    BY ConsistentShape, PartsMakeTypeInv
       DEF Consistent, TypedParts, TypedSet, TypedChain, TypedQueue, TypedSeen, Shaped,
           TypedWindows
  <1>1. ASSUME windows' = windows, unbonding' = unbonding, now' = now,
               balance' \in Nat, balance <= balance', Same
        PROVE  Kept
    <2> SUFFICES ASSUME seen'["slashes"] = 0
                 PROVE  Funded(windows', unbonding', balance', now')
      OBVIOUS
    <2>1. Funded(windows, unbonding, balance, now)
      BY <1>1
    <2>2. {} \in SUBSET UnbondingEntry /\ IsFiniteSet({}) /\ unbonding \cap {} = {}
      BY FS_EmptySet
    <2>3. Funded(windows, unbonding \cup {}, balance', now)
      BY <1>0, <1>1, <2>1, <2>2, BackedMore
    <2>4. unbonding \cup {} = unbonding
      OBVIOUS
    <2> QED BY <1>1, <2>3, <2>4
  <1>2. ASSUME NEW seed \in Seeds, Bootstrap(seed) PROVE Kept
    BY <1>0, <1>1, <1>2 DEF Bootstrap, queueVars
  <1>3. ASSUME NEW u \in Users, NEW amount \in Deposits, Deposit(u, amount) PROVE Kept
    <2>1. Same
      BY <1>0, <1>3 DEF Deposit, Count, Events
    <2>2. Funded(windows, unbonding, balance, now)
            => Funded(windows', unbonding', balance', now')
      BY <1>3, DepositFunded
    <2> QED BY <2>1, <2>2
  <1>4. ASSUME NEW u \in Users, NEW shares \in Requests, Unbond(u, shares) PROVE Kept
    <2>1. Same
      BY <1>0, <1>4 DEF Unbond, Count, Events
    <2>2. Funded(windows, unbonding, balance, now)
            => Funded(windows', unbonding', balance', now')
      BY <1>4, RequestFunded
    <2> QED BY <2>1, <2>2
  <1>5. ASSUME AdvanceWindow PROVE Kept
    <2> DEFINE r == CloseOpenWindow(validators, totals, windows)
    <2>1. /\ windows' = r.windows /\ now' = now /\ Undelegated(r, delegated) /\ Same
          /\ RewardsPaidAt(LeftBy(r))
      BY <1>5 DEF AdvanceWindow, Commit
    <2>2. PlannedClosing(r, validators, totals, windows)
      BY <1>5 DEF PlannedClosing, AdvanceWindow, CanClose
    <2> HIDE DEF r
    <2>3. balance' \in Nat /\ balance <= balance'
      <3>1. LeftBy(r) \in SUBSET Validators
        BY DEF LeftBy
      <3> QED BY <2>1, <3>1, RewardsAdd
    <2>4. Funded(windows, unbonding, balance, now) => Funded(r.windows, unbonding', balance', now)
      BY <1>0, <2>1, <2>2, <2>3, ClosingFunded
    <2> QED BY <2>1, <2>4
  <1>6. ASSUME NEW u \in Users, NEW list \in ClaimLists, ClaimMatured(u, list) PROVE Kept
    <2> DEFINE ids == ClaimIds(u, list)
    <2>1. /\ windows' = WindowsAfterClaim(u, ids) /\ unbonding' = unbonding /\ now' = now
          /\ balance' = balance - PaidTo(u, ids) /\ PaidTo(u, ids) <= balance /\ Same
      BY <1>6 DEF ClaimMatured, stakingVars
    <2> HIDE DEF ids
    <2>2. Funded(windows, unbonding, balance, now)
            => Funded(WindowsAtClaim, unbonding, balance, now)
      <3>1. DueWindows \in SUBSET DueWindows
        OBVIOUS
      <3> QED BY <1>0, <3>1, MaturityFunded DEF WindowsAtClaim
    <2>3. Funded(windows, unbonding, balance, now)
            => Funded(WindowsAfterClaim(u, ids), unbonding, balance - PaidTo(u, ids), now)
      BY <1>0, <2>1, <2>2, ClaimFunded
    <2> QED BY <2>1, <2>3
  <1>7. ASSUME NEW limit \in CollectLimits, CollectMatured(limit) PROVE Kept
    <2>1. /\ windows' = MaturedWindows(Collected(limit)) /\ unbonding' = unbonding
          /\ now' = now /\ balance' = balance /\ Same
      BY <1>7 DEF CollectMatured, chainVars, stakingVars
    <2>2. Collected(limit) \in SUBSET DueWindows
      BY DEF Collected
    <2>3. Funded(windows, unbonding, balance, now)
            => Funded(MaturedWindows(Collected(limit)), unbonding, balance, now)
      BY <1>0, <2>2, MaturityFunded
    <2> QED BY <2>1, <2>3
  <1>8. ASSUME NEW limit \in PageLimits, Sync(limit) PROVE Kept
    BY <1>0, <1>1, <1>8 DEF Sync, queueVars, chainVars, stakingVars
  <1>9. ASSUME NEW limit \in PageLimits, Compound(limit) PROVE Kept
    <2> DEFINE T == RestakedAt(limit) \ OnPage(limit)
    <2>1. /\ windows' = windows /\ unbonding' = unbonding /\ now' = now /\ Same
          /\ balance' = balance + SumFunctionOnSet(accrued, T)
      BY <1>9 DEF Compound, queueVars
    <2>2. SumFunctionOnSet(accrued, T) \in Nat
      <3>1. T \in SUBSET Validators
        BY <1>0, <1>9, RestakedInside
      <3> QED BY <1>0, <3>1, FiniteConstants, SumOfPart
    <2> HIDE DEF T
    <2> QED BY <1>0, <1>1, <2>1, <2>2
  <1>10. ASSUME NEW move \in Moves, Rebalance(move) PROVE Kept
    <2>1. {move.from, move.to} \in SUBSET Validators
      BY ConstantsAreTyped
    <2>2. balance' \in Nat /\ balance <= balance'
      BY <1>10, <2>1, RewardsAdd DEF Rebalance
    <2> QED BY <1>1, <1>10, <2>2 DEF Rebalance, queueVars
  <1>11. ASSUME NEW v \in Validators, Slash(v) PROVE Kept
    <2>1. seen' = [seen EXCEPT !["slashes"] = @ + 1] /\ "slashes" \in Events
      BY <1>11 DEF Slash, Count, Events
    <2> QED BY <1>0, <2>1
  <1>12. ASSUME NextBlock PROVE Kept
    <2>1. Same
      BY <1>12 DEF NextBlock
    <2>2. Funded(windows, unbonding, balance, now)
            => Funded(windows', unbonding', balance', now')
      BY <1>0, <1>12, BlockFunded
    <2> QED BY <2>1, <2>2
  <1>13. CASE UserAction
    BY <1>2, <1>3, <1>4, <1>6, <1>13 DEF UserAction
  <1>14. CASE UpkeepAction
    BY <1>5, <1>7, <1>8, <1>9, <1>14 DEF UpkeepAction
  <1>15. CASE ManagerAction
    <2>1. ASSUME NEW weights \in WeightChoices, SetWeights(weights) PROVE Kept
      BY <1>0, <1>1, <2>1 DEF SetWeights, queueVars, chainVars, stakingVars
    <2>2. ASSUME NEW bps \in FeeChoices, SetPerformanceFee(bps) PROVE Kept
      BY <1>0, <1>1, <2>2 DEF SetPerformanceFee, queueVars, chainVars, stakingVars
    <2>3. ASSUME NEW paused \in PauseChoices, SetPaused(paused) PROVE Kept
      BY <1>0, <1>1, <2>3 DEF SetPaused, queueVars, chainVars, stakingVars
    <2>4. ASSUME Migrate PROVE Kept
      BY <1>0, <1>1, <2>4 DEF Migrate, queueVars, stakingVars, Count, Events
    <2> QED BY <1>10, <1>15, <2>1, <2>2, <2>3, <2>4 DEF ManagerAction
  <1>16. CASE ChainAction
    <2>1. ASSUME NEW v \in Validators, NEW amount \in Rewards, AccrueRewards(v, amount)
          PROVE  Kept
      BY <1>0, <1>1, <2>1 DEF AccrueRewards, contractVars, Count, Events
    <2>2. ASSUME NEW u \in Users, NEW shares \in Requests, BurnOwnShares(u, shares)
          PROVE  Kept
      BY <1>0, <1>1, <2>2 DEF BurnOwnShares, contractVars, stakingVars, Count, Events
    <2>3. ASSUME NEW amount \in Deposits, Donate(amount) PROVE Kept
      <3>1. amount \in Nat
        BY InputsNat
      <3>2. balance' = balance + amount
        BY <2>3 DEF Donate
      <3>3. windows' = windows /\ unbonding' = unbonding /\ now' = now /\ Same
        BY <1>0, <2>3 DEF Donate, contractVars, stakingVars, Count, Events
      <3> QED BY <1>0, <1>1, <3>1, <3>2, <3>3
    <2> QED BY <1>11, <1>12, <1>16, <2>1, <2>2, <2>3 DEF ChainAction
  <1>17. CASE UNCHANGED vars
    BY <1>0, <1>1, <1>17 DEF vars, contractVars, queueVars, chainVars, stakingVars
  <1> QED BY <1>13, <1>14, <1>15, <1>16, <1>17 DEF Next

(* As long as nobody is slashed, and the chain pays on time, a matured     *)
(* window has the whole of what its requesters were promised, whoever      *)
(* claims first and however many windows ripen together                    *)
(* (mature_due_windows, mature in lst-math).                               *)
THEOREM FullPaymentAlways ==
    ASSUME ReleaseLag = 0, UnbondingPeriod > 0
    PROVE  Spec => []FullPaymentUnlessSlashed
  <1> DEFINE Flying == InFlight(unbonding, windows, now)
             Paid   == seen["slashes"] = 0 => Funded(windows, unbonding, balance, now)
  <1>1. Init => Flying
    BY DEF Init, InFlight
  <1>2. Consistent /\ Distinct(validators) /\ Flying /\ [Next]_vars
          => InFlight(unbonding', windows', now')
    BY InFlightStep
  <1>3. Flying' <=> InFlight(unbonding', windows', now')
    BY DEF InFlight, Waits
  <1>4. Init => Paid
    BY NothingOwedAtFirst
  <1>5. Consistent /\ Distinct(validators) /\ TrackingNow /\ Flying /\ Paid /\ [Next]_vars
          => (seen'["slashes"] = 0 => Funded(windows', unbonding', balance', now'))
    BY FundedStep DEF TrackingNow, Tracking
  <1>6. Paid' <=> (seen'["slashes"] = 0 => Funded(windows', unbonding', balance', now'))
    BY DEF Funded, PaidUp, Backed, RipeBy, MoneyBy, In, OutstandingOf, OwedIn, Amounts
  <1>7. Paid => FullPaymentUnlessSlashed
    BY DEF Funded, PaidUp, FullPaymentUnlessSlashed, InState, WindowIds, In
  <1> HIDE DEF Flying, Paid
  <1> QED BY <1>1, <1>2, <1>3, <1>4, <1>5, <1>6, <1>7, LedgersAlwaysAgree, DistinctAlways,
             TrackingAlways, PTL DEF Spec

=============================================================================
