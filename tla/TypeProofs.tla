----------------------------- MODULE TypeProofs -----------------------------
(***************************************************************************)
(* Proofs about the contract, for every set of users and validators, every *)
(* parameter and every number of windows: what its conversions promise,    *)
(* that the queue stays well formed and claims are final, and that every   *)
(* figure keeps its type.                                                  *)
(*                                                                         *)
(* Queue and claims do not depend on an amount, so the invariant they rest *)
(* on says nothing of the figures: it says which windows there are, which  *)
(* of them is open, and what may be claimed at all.                        *)
(*                                                                         *)
(* In a system of unsigned integers a type is the statement that no        *)
(* subtraction ever goes below zero, which rests on a few relations        *)
(* between figures (SupplyCovers, FeesBounded) the types do not show.      *)
(***************************************************************************)
EXTENDS LstCoreProperties, SumFacts, TLAPS

-----------------------------------------------------------------------------
(* What the conversions of math.rs and the pro-rata payout of windows.rs   *)
(* promise for every amount: flooring always favours the pool, and so the  *)
(* holders and claimants who stay.                                         *)

(* Floor division, as the three facts the proofs below use.                *)
LEMMA DivFloor ==
    ASSUME NEW n \in Nat, NEW d \in Nat \ {0}
    PROVE  /\ n \div d \in Nat
           /\ d * (n \div d) <= n
           /\ n < d * ((n \div d) + 1)
  OBVIOUS

(* A product of naturals is one.                                           *)
LEMMA ProductNat == ASSUME NEW a \in Nat, NEW b \in Nat PROVE a * b \in Nat
  OBVIOUS

(* Multiplication is monotone.                                             *)
LEMMA ProductMonotone ==
    ASSUME NEW a \in Nat, NEW b \in Nat, NEW c \in Nat, b <= c
    PROVE  a * b <= a * c
  <1>1. PICK d \in Nat : c = b + d
    <2>1. c - b \in Nat /\ c = b + (c - b)
      OBVIOUS
    <2> QED BY <2>1
  <1>2. a * c = a * b + a * d /\ a * d >= 0
    BY <1>1
  <1> QED BY <1>2, ProductNat

(* mul_div_floor brackets the exact quotient.                              *)
LEMMA MulDivFloorBounds ==
    ASSUME NEW a \in Nat, NEW b \in Nat, NEW d \in Nat \ {0}
    PROVE  /\ MulDivFloor(a, b, d) \in Nat
           /\ d * MulDivFloor(a, b, d) <= a * b
           /\ a * b < d * (MulDivFloor(a, b, d) + 1)
  BY ProductNat, DivFloor DEF MulDivFloor

(* The pool's assets are never negative (saturating subtraction).          *)
LEMMA AssetsNat == ASSUME NEW p \in PoolTotals PROVE Assets(p) \in Nat
  BY DEF PoolTotals, Assets, SatSub

(* shares_for_deposit yields an amount.                                    *)
LEMMA SharesForDepositNat ==
    ASSUME NEW p \in PoolTotals, NEW deposit \in Nat
    PROVE  SharesForDeposit(deposit, p) \in Nat
  <1>1. p.supply \in Nat /\ Assets(p) \in Nat
    BY AssetsNat DEF PoolTotals
  <1> QED BY <1>1, MulDivFloorBounds DEF SharesForDeposit

(* assets_for_shares yields an amount.                                     *)
LEMMA AssetsForSharesNat ==
    ASSUME NEW p \in PoolTotals, NEW shares \in Nat
    PROVE  AssetsForShares(shares, p) \in Nat
  <1>1. p.supply \in Nat /\ Assets(p) \in Nat
    BY AssetsNat DEF PoolTotals
  <1> QED BY <1>1, MulDivFloorBounds DEF AssetsForShares

(***************************************************************************)
(* A deposit never lowers the assets behind a share (shares_for_deposit).  *)
(***************************************************************************)
THEOREM DepositKeepsRate ==
    ASSUME NEW p \in PoolTotals, NEW deposit \in Nat, p.supply > 0
    PROVE  (Assets(p) + deposit) * p.supply
             >= Assets(p) * (p.supply + SharesForDeposit(deposit, p))
  <1> DEFINE A == Assets(p)
             S == p.supply
             m == SharesForDeposit(deposit, p)
  <1>1. A \in Nat /\ S \in Nat \ {0} /\ m \in Nat
    BY AssetsNat, SharesForDepositNat DEF PoolTotals
  <1>2. A * m <= deposit * S
    <2>1. CASE A = 0
      BY <1>1, <2>1
    <2>2. CASE A # 0
      <3>1. m = MulDivFloor(deposit, S, A)
        BY <1>1, <2>2 DEF SharesForDeposit
      <3> QED BY <1>1, <2>2, <3>1, MulDivFloorBounds
    <2> QED BY <2>1, <2>2
  <1> HIDE DEF A, S, m
  <1>3. (A + deposit) * S = A * S + deposit * S /\ A * (S + m) = A * S + A * m
    BY <1>1
  <1>4. {A * S, deposit * S, A * m} \subseteq Nat
    BY <1>1, ProductNat
  <1>5. (A + deposit) * S >= A * (S + m)
    BY <1>2, <1>3, <1>4
  <1> QED BY <1>5 DEF A, S, m

(***************************************************************************)
(* A withdrawal takes no more than there is, and never lowers the assets   *)
(* behind the shares that stay (assets_for_shares).                        *)
(***************************************************************************)
THEOREM WithdrawalKeepsRate ==
    ASSUME NEW p \in PoolTotals, NEW shares \in Nat, shares <= p.supply, p.supply > 0
    PROVE  /\ AssetsForShares(shares, p) <= Assets(p)
           /\ (Assets(p) - AssetsForShares(shares, p)) * p.supply
                >= Assets(p) * (p.supply - shares)
  <1> DEFINE A == Assets(p)
             S == p.supply
             a == AssetsForShares(shares, p)
  <1>1. A \in Nat /\ S \in Nat \ {0} /\ a \in Nat
    BY AssetsNat, AssetsForSharesNat DEF PoolTotals
  <1>2. S * a <= shares * A
    <2>1. a = MulDivFloor(shares, A, S)
      BY <1>1 DEF AssetsForShares
    <2> QED BY <1>1, <2>1, MulDivFloorBounds
  <1>0. shares \in Nat /\ shares <= S
    OBVIOUS
  <1> HIDE DEF A, S, a
  <1>3. shares * A <= S * A
    BY <1>0, <1>1
  <1>4. a <= A
    <2>1. S * a <= S * A
      BY <1>1, <1>2, <1>3, <1>0
    <2>2. ASSUME a > A PROVE FALSE
      <3>1. a >= A + 1
        BY <1>1, <2>2
      <3>2. S * a >= S * (A + 1) /\ S * (A + 1) = S * A + S
        BY <1>1, <3>1
      <3> QED BY <1>1, <2>1, <3>2
    <2> QED BY <1>1, <2>2
  <1>5. (A - a) * S = A * S - S * a /\ A * (S - shares) = A * S - shares * A
    BY <1>0, <1>1
  <1>6. (A - a) * S >= A * (S - shares)
    BY <1>0, <1>1, <1>2, <1>5
  <1> QED BY <1>4, <1>6 DEF A, S, a

(***************************************************************************)
(* What was just deposited is never worth more than was put in: shares     *)
(* minted from p and redeemed at once, from the pool q the deposit left.   *)
(***************************************************************************)
THEOREM RoundTripGainsNothing ==
    ASSUME NEW p \in PoolTotals, NEW q \in PoolTotals, NEW deposit \in Nat,
           p.supply > 0, Assets(p) > 0,
           Assets(q) = Assets(p) + deposit,
           q.supply = p.supply + SharesForDeposit(deposit, p)
    PROVE  AssetsForShares(SharesForDeposit(deposit, p), q) <= deposit
  <1> DEFINE A == Assets(p)
             S == p.supply
             m == SharesForDeposit(deposit, p)
             a == AssetsForShares(m, q)
  <1>1. A \in Nat \ {0} /\ S \in Nat \ {0} /\ m \in Nat /\ a \in Nat
    BY AssetsNat, SharesForDepositNat, AssetsForSharesNat DEF PoolTotals
  <1>2. A * m <= deposit * S
    BY <1>1, MulDivFloorBounds DEF SharesForDeposit
  <1>3. (S + m) * a <= m * (A + deposit)
    <2>1. a = MulDivFloor(m, A + deposit, S + m) /\ S + m \in Nat \ {0}
      BY <1>1 DEF AssetsForShares
    <2> HIDE DEF A, S, m, a
    <2> QED BY <1>1, <2>1, MulDivFloorBounds
  <1> HIDE DEF A, S, m, a
  <1>4. m * (A + deposit) = A * m + deposit * m
        /\ deposit * (S + m) = deposit * S + deposit * m
    BY <1>1
  <1>5. m * (A + deposit) <= deposit * (S + m)
    BY <1>1, <1>2, <1>4, ProductNat
  <1>6. (S + m) * a <= (S + m) * deposit
    BY <1>1, <1>3, <1>5, ProductNat
  <1>7. ASSUME a > deposit PROVE FALSE
    <2>1. (S + m) * a >= (S + m) * (deposit + 1)
      BY <1>1, <1>7
    <2>2. (S + m) * (deposit + 1) = (S + m) * deposit + (S + m)
      BY <1>1
    <2> QED BY <1>1, <1>6, <2>1, <2>2, ProductNat
  <1> QED BY <1>1, <1>7 DEF a, m

(* A fee in basis points is never more than what it is taken from.         *)
LEMMA FeeWithinRewards ==
    ASSUME NEW rewards \in Nat, NEW bps \in Nat, bps <= BPS_DENOM
    PROVE  /\ MulDivFloor(rewards, bps, BPS_DENOM) \in Nat
           /\ MulDivFloor(rewards, bps, BPS_DENOM) <= rewards
  <1> DEFINE fee == MulDivFloor(rewards, bps, BPS_DENOM)
  <1>1. fee \in Nat /\ BPS_DENOM * fee <= rewards * bps
    BY MulDivFloorBounds DEF BPS_DENOM
  <1>2. rewards * bps <= rewards * BPS_DENOM
    BY DEF BPS_DENOM
  <1> HIDE DEF fee
  <1>3. fee \in Nat /\ fee <= rewards
    BY <1>1, <1>2 DEF BPS_DENOM
  <1> QED BY <1>3 DEF fee

(***************************************************************************)
(* The treasury's shares are worth the fee, to within one share: with f    *)
(* the fee's value and R the rewards, m of them satisfy                    *)
(* m (A + R - f) <= f S < (m + 1) (A + R - f)  (fee_shares_for_rewards).   *)
(***************************************************************************)
THEOREM FeeSharesAreWorthTheFee ==
    ASSUME NEW p \in PoolTotals, NEW rewards \in Nat \ {0}, NEW bps \in Nat,
           bps <= BPS_DENOM, p.supply > 0, Assets(p) > 0
    PROVE  LET fee  == MulDivFloor(rewards, bps, BPS_DENOM)
               m    == FeeSharesForRewards(rewards, bps, p)
               rest == Assets(p) + rewards - fee
           IN  /\ m \in Nat
               /\ fee <= rewards
               /\ m * rest <= fee * p.supply
               /\ fee * p.supply < (m + 1) * rest
  <1> DEFINE fee  == MulDivFloor(rewards, bps, BPS_DENOM)
             m    == FeeSharesForRewards(rewards, bps, p)
             rest == Assets(p) + rewards - fee
             S    == p.supply
  <1>1. Assets(p) \in Nat \ {0} /\ S \in Nat \ {0}
    BY AssetsNat DEF PoolTotals
  <1>2. fee \in Nat /\ fee <= rewards
    BY FeeWithinRewards
  <1>3. rest \in Nat \ {0}
    BY <1>1, <1>2
  <1>4. CASE bps = 0 \/ fee = 0
    <2>1. m = 0
      BY <1>4 DEF FeeSharesForRewards
    <2>2. fee = 0
      BY <1>4, <1>2 DEF MulDivFloor, BPS_DENOM
    <2> QED BY <1>1, <1>2, <1>3, <2>1, <2>2
  <1>5. CASE bps # 0 /\ fee # 0
    <2>1. m = MulDivFloor(fee, S, rest)
      BY <1>1, <1>2, <1>3, <1>5 DEF FeeSharesForRewards
    <2>2. m \in Nat /\ rest * m <= fee * S /\ fee * S < rest * (m + 1)
      BY <1>1, <1>2, <1>3, <2>1, MulDivFloorBounds, ZenonT(30)
    <2> HIDE DEF fee, m, rest, S
    <2>3. m * rest = rest * m /\ (m + 1) * rest = rest * (m + 1)
      BY <1>3, <2>2
    <2>4. m \in Nat /\ fee <= rewards /\ m * rest <= fee * S /\ fee * S < (m + 1) * rest
      BY <1>2, <2>2, <2>3
    <2> QED BY <2>4 DEF fee, m, rest, S
  <1> QED BY <1>4, <1>5

-----------------------------------------------------------------------------
(* Unbonding windows.                                                      *)

(***************************************************************************)
(* A window that recovered less than it owes shares the loss: no claim is  *)
(* paid more than it is owed, and splitting a claim in two never pays      *)
(* more, so all the claims together get no more than came back             *)
(* (payout_for_claim: "the window can never pay out more than it took in").*)
(***************************************************************************)
THEOREM PayoutsShareTheLoss ==
    ASSUME NEW w, w.owed \in Nat \ {0}, w.realised \in Nat, w.realised <= w.owed,
           NEW a \in Nat, NEW b \in Nat, a + b <= w.owed
    PROVE  /\ PayoutForClaim(w, a) \in Nat
           /\ PayoutForClaim(w, a) <= a
           /\ PayoutForClaim(w, a) + PayoutForClaim(w, b) <= PayoutForClaim(w, a + b)
           /\ PayoutForClaim(w, w.owed) = w.realised
  <1> DEFINE r == w.realised
             o == w.owed
             Pay(x) == MulDivFloor(x, r, o)
  <1>1. Payable(w) = r
    BY NoneIsNotAnAmount DEF Payable
  <1>2. \A x \in Nat : PayoutForClaim(w, x) = IF r = o THEN x ELSE Pay(x)
    BY <1>1 DEF PayoutForClaim
  <1>3. \A x \in Nat : Pay(x) \in Nat /\ o * Pay(x) <= x * r /\ x * r < o * (Pay(x) + 1)
    BY MulDivFloorBounds
  <1>4. r \in Nat /\ o \in Nat \ {0} /\ r <= o
    OBVIOUS
  <1> HIDE DEF Pay, r, o
  <1>5. ASSUME NEW x \in Nat, NEW y \in Nat, o * x < o * (y + 1) PROVE x <= y
    <2>1. ASSUME x >= y + 1 PROVE FALSE
      BY <1>4, <1>5, <2>1
    <2> QED BY <2>1
  <1>6. ASSUME NEW x \in Nat PROVE Pay(x) <= x
    <2>1. x * r <= x * o /\ x * o = o * x /\ o * (x + 1) = o * x + o
      BY <1>4
    <2>3. {o * Pay(x), x * r, o * x, o * (x + 1)} \subseteq Nat
      BY <1>3, <1>4, ProductNat
    <2>2. o * Pay(x) < o * (x + 1)
      <3>1. o * Pay(x) <= x * r
        BY <1>3
      <3> QED BY <1>4, <2>1, <2>3, <3>1
    <2> QED BY <1>3, <1>5, <2>2
  <1>7. Pay(a) + Pay(b) <= Pay(a + b)
    <2>1. (a + b) * r = a * r + b * r /\ o * (Pay(a) + Pay(b)) = o * Pay(a) + o * Pay(b)
      BY <1>3, <1>4
    <2>2. {a * r, b * r, o * Pay(a), o * Pay(b), o * (Pay(a + b) + 1)} \subseteq Nat
      BY <1>3, <1>4, ProductNat
    <2>3. o * Pay(a) <= a * r /\ o * Pay(b) <= b * r
          /\ (a + b) * r < o * (Pay(a + b) + 1)
      BY <1>3
    <2>4. o * (Pay(a) + Pay(b)) < o * (Pay(a + b) + 1)
      BY <2>1, <2>2, <2>3
    <2> QED BY <1>3, <1>5, <2>4
  <1>8. Pay(o) = r
    <2>1. o * r < o * (Pay(o) + 1) /\ o * Pay(o) <= o * r
      BY <1>3, <1>4
    <2>2. o * (r + 1) = o * r + o
      BY <1>4
    <2>3. r <= Pay(o)
      BY <1>3, <1>4, <1>5, <2>1
    <2>4. Pay(o) <= r
      <3>1. {o * r, o * Pay(o), o * (r + 1)} \subseteq Nat
        BY <1>3, <1>4, ProductNat
      <3>2. o * Pay(o) < o * (r + 1)
        BY <1>4, <2>1, <2>2, <3>1
      <3> QED BY <1>3, <1>4, <1>5, <3>2
    <2>5. Pay(o) \in Nat
      BY <1>3, <1>4
    <2> QED BY <1>4, <2>3, <2>4, <2>5
  <1> QED BY <1>2, <1>3, <1>4, <1>6, <1>7, <1>8 DEF r, o

(***************************************************************************)
(* A window realises neither more than it owes nor more than it finds      *)
(* (mature: an earlier window's shortfall is never made good from it).     *)
(***************************************************************************)
THEOREM MaturedWithinBothBounds ==
    ASSUME NEW w \in UnbondWindow({}), NEW available \in Nat
    PROVE  /\ Mature(w, available).realised \in Nat
           /\ Mature(w, available).realised <= w.owed
           /\ Mature(w, available).realised <= available
  BY DEF Mature, Min2, UnbondWindow

(***************************************************************************)
(* The slots that validate_params asks for: windows of length P opened one *)
(* after the other hold at most ceil(U / P) entries of U seconds at once,  *)
(* the least number whose windows span the unbonding period; one is spare. *)
(***************************************************************************)
THEOREM SlotsSpanTheUnbondingPeriod ==
    ASSUME NEW period \in Nat, NEW window \in Nat \ {0}
    PROVE  LET n == ConcurrentEntriesForWindow(period, window)
           IN  /\ n \in Nat
               /\ window * n >= period
               /\ window * n < period + window
               /\ RequiredEntrySlots(period, window) = n + 1
  <1> DEFINE k == period + window - 1
             n == ConcurrentEntriesForWindow(period, window)
  <1>1. k \in Nat /\ n = k \div window
    BY DEF ConcurrentEntriesForWindow
  <1> HIDE DEF k, n
  <1>2. n \in Nat /\ window * n <= k /\ k < window * (n + 1)
    BY <1>1, DivFloor
  <1>3. window * (n + 1) = window * n + window
    BY <1>2
  <1>4. window * n \in Nat
    BY <1>2, ProductNat
  <1>5. window * n >= period /\ window * n < period + window
    BY <1>2, <1>3, <1>4 DEF k
  <1> QED BY <1>2, <1>5 DEF n, RequiredEntrySlots

-----------------------------------------------------------------------------
(* The queue.                                                              *)

\* A window has the fields of UnbondWindow, whatever its amounts are.
IsWindow(w) ==
    /\ w = [closesAt |-> w.closesAt, maturesAt |-> w.maturesAt,
            shares |-> w.shares, owed |-> w.owed, realised |-> w.realised,
            claimed |-> w.claimed, used |-> w.used, state |-> w.state]
    /\ w.state \in WindowStates

WindowsNumbered ==
    /\ nextWindowId \in Nat \ {0}
    /\ DOMAIN windows = 0 .. nextWindowId - 1
    /\ \A id \in DOMAIN windows : IsWindow(windows[id])

QueueInv == WindowsNumbered /\ QueueWellFormed

\* What a handler may have done to the windows before it closes one.
SameQueue(ws) ==
    /\ DOMAIN ws = DOMAIN windows
    /\ \A id \in DOMAIN windows :
         IsWindow(ws[id]) /\ ws[id].state = windows[id].state

-----------------------------------------------------------------------------
(* Closing settles an empty window and sends any other one on its way.     *)
LEMMA CloseState ==
    ASSUME NEW w, IsWindow(w), NEW time, NEW period
    PROVE  /\ IsWindow(Close(w, time, period))
           /\ Close(w, time, period).state \in {"Settled", "Unbonding"}
  BY DEF Close, IsWindow, WindowStates

(* The open window leaves the queue or joins the active ones, and its      *)
(* successor is the only open window.                                      *)
LEMMA ClosingKeepsQueue ==
    ASSUME QueueInv, NEW set, NEW t, NEW ws, SameQueue(ws),
           Commit(CloseOpenWindow(set, t, ws))
    PROVE  QueueInv'
  <1> DEFINE legs   == PlanUndelegation(set, ws[openWindow].owed, EntryCeiling)
             used   == [ws[openWindow] EXCEPT !.used = UsedBy(set, legs)]
             closed == Close(used, now, UnbondingPeriod)
             fresh  == WindowOpen(now, WindowLength)
  <1>1. /\ openWindow \in DOMAIN windows
        /\ openWindow = nextWindowId - 1
        /\ nextWindowId \in Nat \ {0}
    BY DEF QueueInv, QueueWellFormed, WindowsNumbered
  <1>2. IsWindow(used)
    BY <1>1 DEF SameQueue, IsWindow
  <1>3. IsWindow(closed) /\ closed.state \in {"Settled", "Unbonding"}
    BY <1>2, CloseState
  <1>4. IsWindow(fresh) /\ fresh.state = "Open"
    BY DEF IsWindow, WindowOpen, WindowStates
  <1>5. /\ windows' = [id \in 0 .. nextWindowId |->
                         CASE id = nextWindowId -> fresh
                           [] id = openWindow   -> closed
                           [] OTHER             -> ws[id]]
        /\ active' = IF closed.state = "Unbonding"
                     THEN active \cup {openWindow} ELSE active
        /\ openWindow' = nextWindowId
        /\ nextWindowId' = nextWindowId + 1
    BY DEF Commit, CloseOpenWindow
  <1> HIDE DEF closed, fresh
  <1>6. /\ DOMAIN windows = 0 .. nextWindowId - 1
        /\ DOMAIN windows' = 0 .. nextWindowId
        /\ windows'[nextWindowId] = fresh
        /\ windows'[openWindow] = closed
        /\ \A id \in DOMAIN windows \ {openWindow} :
             IsWindow(windows'[id]) /\ windows'[id].state = windows[id].state
    <2>1. DOMAIN windows = 0 .. nextWindowId - 1
      BY DEF QueueInv, WindowsNumbered
    <2>2. DOMAIN windows' = 0 .. nextWindowId
      BY <1>5
    <2>3. windows'[nextWindowId] = fresh /\ windows'[openWindow] = closed
      BY <1>1, <1>5
    <2>4. \A id \in DOMAIN windows \ {openWindow} : windows'[id] = ws[id]
      BY <1>1, <1>5, <2>1
    <2> QED BY <2>1, <2>2, <2>3, <2>4 DEF SameQueue
  <1>7. WindowsNumbered'
    <2>1. \A id \in DOMAIN windows' : IsWindow(windows'[id])
      BY <1>1, <1>3, <1>4, <1>6
    <2> QED BY <1>1, <1>5, <1>6, <2>1 DEF WindowsNumbered
  <1>8. QueueWellFormed'
    <2>1. /\ openWindow = nextWindowId - 1
          /\ {id \in DOMAIN windows : windows[id].state = "Open"} = {openWindow}
          /\ active = {id \in DOMAIN windows : windows[id].state = "Unbonding"}
                        \cup {id \in DOMAIN windows : windows[id].state = "Matured"}
      BY DEF QueueInv, QueueWellFormed, InState, WindowIds
    <2>2. DOMAIN windows' = DOMAIN windows \cup {nextWindowId}
      BY <1>1, <1>6
    <2>3. nextWindowId \notin DOMAIN windows
      BY <1>1, <1>6
    <2>4. {id \in DOMAIN windows' : windows'[id].state = "Open"} = {nextWindowId}
      BY <1>1, <1>3, <1>4, <1>6, <2>1, <2>2, <2>3
    <2>5. active' = {id \in DOMAIN windows' : windows'[id].state = "Unbonding"}
                      \cup {id \in DOMAIN windows' : windows'[id].state = "Matured"}
      <3>1. openWindow \notin active
        BY <1>1, <2>1
      <3> QED BY <1>1, <1>3, <1>4, <1>5, <1>6, <2>1, <2>2, <2>3, <3>1
    <2>6. openWindow' = nextWindowId' - 1
      BY <1>1, <1>5
    <2>7. InState("Open")' = {openWindow'}
      BY <1>5, <2>4 DEF InState, WindowIds
    <2>8. active' = InState("Unbonding")' \cup InState("Matured")'
      BY <2>5 DEF InState, WindowIds
    <2> QED BY <2>6, <2>7, <2>8 DEF QueueWellFormed
  <1> QED BY <1>7, <1>8 DEF QueueInv

(* A handler that leaves the window open leaves the queue as it is.        *)
LEMMA StayingKeepsQueue ==
    ASSUME QueueInv, NEW set, NEW t, NEW ws, SameQueue(ws),
           Commit(StayOpen(set, t, ws))
    PROVE  QueueInv'
  BY DEF QueueInv, WindowsNumbered, QueueWellFormed, SameQueue, Commit, StayOpen,
         InState, WindowIds

(* A best-effort closing (close_window_if_overdue) does one or the other.  *)
LEMMA RidingAlongKeepsQueue ==
    ASSUME QueueInv, NEW set, NEW t, NEW ws, SameQueue(ws),
           Commit(CloseWindowIfOverdue(set, t, ws))
    PROVE  QueueInv'
  BY ClosingKeepsQueue, StayingKeepsQueue DEF CloseWindowIfOverdue

-----------------------------------------------------------------------------
(* Collecting moves windows that were in flight to Matured and no others;  *)
(* the amounts it looks at play no part.                                   *)
LEMMA CollectingKeepsQueue ==
    ASSUME QueueInv, NEW ids, ids \subseteq DueWindows
    PROVE  /\ DOMAIN MaturedWindows(ids) = DOMAIN windows
           /\ \A id \in DOMAIN windows :
                /\ IsWindow(MaturedWindows(ids)[id])
                /\ id \in ids =>
                     /\ windows[id].state = "Unbonding"
                     /\ id \in active
                     /\ MaturedWindows(ids)[id].state = "Matured"
                /\ id \notin ids => MaturedWindows(ids)[id] = windows[id]
  <1>1. DOMAIN MaturedWindows(ids) = DOMAIN windows
    BY DEF MaturedWindows, WindowIds
  <1>2. ASSUME NEW id \in DOMAIN windows, id \in ids
        PROVE  /\ IsWindow(MaturedWindows(ids)[id])
               /\ windows[id].state = "Unbonding" /\ id \in active
               /\ MaturedWindows(ids)[id].state = "Matured"
    <2>1. windows[id].state = "Unbonding" /\ id \in active
      BY <1>2 DEF DueWindows, IsMature
    <2>2. MaturedWindows(ids)[id] = Mature(windows[id], Available(ids, id))
      BY <1>2 DEF MaturedWindows, WindowIds
    <2>3. IsWindow(windows[id])
      BY DEF QueueInv, WindowsNumbered
    <2> QED BY <2>1, <2>2, <2>3 DEF Mature, IsWindow, WindowStates
  <1>3. ASSUME NEW id \in DOMAIN windows, id \notin ids
        PROVE  IsWindow(MaturedWindows(ids)[id]) /\ MaturedWindows(ids)[id] = windows[id]
    BY <1>3 DEF MaturedWindows, WindowIds, QueueInv, WindowsNumbered
  <1> QED BY <1>1, <1>2, <1>3

(* A paid window is still matured or settles, and those that settle leave  *)
(* the active list with the claim that emptied them.                       *)
LEMMA PayingKeepsQueue ==
    ASSUME QueueInv, NEW u, NEW ids
    PROVE  /\ DOMAIN WindowsAfterClaim(u, ids) = DOMAIN windows
           /\ \A id \in DOMAIN windows :
                /\ IsWindow(WindowsAfterClaim(u, ids)[id])
                /\ id \in Paying(u, ids) =>
                     /\ WindowsAfterClaim(u, ids)[id].state \in {"Matured", "Settled"}
                     /\ windows[id].state \in {"Unbonding", "Matured"}
                /\ id \notin Paying(u, ids) =>
                     WindowsAfterClaim(u, ids)[id] = MaturedWindows(DueWindows)[id]
  <1>1. DOMAIN WindowsAfterClaim(u, ids) = DOMAIN windows
    BY DEF WindowsAfterClaim, WindowIds
  <1>2. ASSUME NEW id \in DOMAIN windows
        PROVE  /\ IsWindow(WindowsAtClaim[id])
               /\ WindowsAtClaim[id].state = "Matured" =>
                    windows[id].state \in {"Unbonding", "Matured"}
    BY CollectingKeepsQueue DEF WindowsAtClaim
  <1>3. ASSUME NEW id \in DOMAIN windows, id \in Paying(u, ids)
        PROVE  /\ IsWindow(WindowsAfterClaim(u, ids)[id])
               /\ WindowsAfterClaim(u, ids)[id].state \in {"Matured", "Settled"}
               /\ windows[id].state \in {"Unbonding", "Matured"}
    <2>1. WindowsAtClaim[id].state = "Matured"
      BY <1>3 DEF Paying
    <2>2. WindowsAfterClaim(u, ids)[id] = PaidWindow(WindowsAtClaim[id], PayoutAt(u, id))
      BY <1>3 DEF WindowsAfterClaim, WindowIds
    <2>3. ASSUME NEW w, NEW payout, IsWindow(w), w.state = "Matured"
          PROVE  /\ IsWindow(PaidWindow(w, payout))
                 /\ PaidWindow(w, payout).state \in {"Matured", "Settled"}
      BY <2>3 DEF PaidWindow, IsWindow, WindowStates
    <2> QED BY <1>2, <2>1, <2>2, <2>3
  <1>4. ASSUME NEW id \in DOMAIN windows, id \notin Paying(u, ids)
        PROVE  WindowsAfterClaim(u, ids)[id] = MaturedWindows(DueWindows)[id]
    BY <1>4 DEF WindowsAfterClaim, WindowsAtClaim, WindowIds
  <1> QED BY <1>1, <1>2, <1>3, <1>4 DEF WindowsAtClaim

-----------------------------------------------------------------------------
(* Instantiation opens window 0 and nothing else.                          *)
LEMMA QueueInvInit == Init => QueueInv
  <1> SUFFICES ASSUME Init PROVE QueueInv
    OBVIOUS
  <1>1. /\ windows = [id \in {0} |-> WindowOpen(now, WindowLength)]
        /\ openWindow = 0 /\ nextWindowId = 1 /\ active = {}
    BY DEF Init
  <1>2. IsWindow(WindowOpen(now, WindowLength))
        /\ WindowOpen(now, WindowLength).state = "Open"
    BY DEF IsWindow, WindowOpen, WindowStates
  <1>3. WindowsNumbered
    BY <1>1, <1>2 DEF WindowsNumbered
  <1>4. QueueWellFormed
    BY <1>1, <1>2 DEF QueueWellFormed, InState, WindowIds
  <1> QED BY <1>3, <1>4 DEF QueueInv

(* mature_due_windows, called alone, keeps the invariant.                  *)
LEMMA CollectingInv ==
    ASSUME QueueInv, NEW ids, ids \subseteq DueWindows,
           windows' = MaturedWindows(ids),
           UNCHANGED <<openWindow, nextWindowId, active>>
    PROVE  QueueInv'
  <1>1. /\ DOMAIN windows' = DOMAIN windows
        /\ \A id \in DOMAIN windows :
             /\ IsWindow(windows'[id])
             /\ id \in ids => /\ windows[id].state = "Unbonding" /\ id \in active
                              /\ windows'[id].state = "Matured"
             /\ id \notin ids => windows'[id] = windows[id]
    BY CollectingKeepsQueue
  <1>2. WindowsNumbered'
    BY <1>1 DEF QueueInv, WindowsNumbered
  <1>3. InState("Open")' = InState("Open")
    BY <1>1 DEF InState, WindowIds
  <1>4. (InState("Unbonding") \cup InState("Matured"))'
          = InState("Unbonding") \cup InState("Matured")
    BY <1>1 DEF InState, WindowIds
  <1> QED BY <1>2, <1>3, <1>4 DEF QueueInv, QueueWellFormed

(* execute_claim_matured, with the maturing and pruning it does, keeps it. *)
LEMMA ClaimingInv ==
    ASSUME QueueInv, NEW u, NEW ids,
           windows' = WindowsAfterClaim(u, ids), active' = StillActive(u, ids),
           UNCHANGED <<openWindow, nextWindowId>>
    PROVE  QueueInv'
  <1>1. /\ DOMAIN windows' = DOMAIN windows
        /\ \A id \in DOMAIN windows :
             /\ IsWindow(windows'[id])
             /\ id \in Paying(u, ids) =>
                  /\ windows'[id].state \in {"Matured", "Settled"}
                  /\ windows[id].state \in {"Unbonding", "Matured"}
             /\ id \notin Paying(u, ids) =>
                  windows'[id] = MaturedWindows(DueWindows)[id]
    BY PayingKeepsQueue
  <1>2. \A id \in DOMAIN windows :
          /\ id \in DueWindows =>
               /\ windows[id].state = "Unbonding"
               /\ MaturedWindows(DueWindows)[id].state = "Matured"
          /\ id \notin DueWindows => MaturedWindows(DueWindows)[id] = windows[id]
    BY CollectingKeepsQueue
  <1>3. /\ InState("Open") = {openWindow}
        /\ active = InState("Unbonding") \cup InState("Matured")
    BY DEF QueueInv, QueueWellFormed
  <1>4. WindowsNumbered'
    BY <1>1 DEF QueueInv, WindowsNumbered
  <1>5. InState("Open")' = InState("Open")
    BY <1>1, <1>2 DEF InState, WindowIds
  <1>6. active' = {id \in active : id \in Paying(u, ids) =>
                                      windows'[id].state # "Settled"}
    BY DEF StillActive
  <1>7. active' = (InState("Unbonding") \cup InState("Matured"))'
    BY <1>1, <1>2, <1>3, <1>6 DEF InState, WindowIds
  <1> QED BY <1>3, <1>4, <1>5, <1>7 DEF QueueInv, QueueWellFormed

(* A step that leaves the queue's variables alone keeps it.                *)
LEMMA QueueInvUnchanged ==
    ASSUME QueueInv, UNCHANGED queueVars
    PROVE  QueueInv'
  BY DEF QueueInv, WindowsNumbered, QueueWellFormed, InState, WindowIds, queueVars

(* Requests and deposits reach the queue only through the open window.     *)
LEMMA RequestKeepsQueue ==
    ASSUME QueueInv, NEW shares, NEW owed
    PROVE  SameQueue([windows EXCEPT ![openWindow].shares = @ + shares,
                                     ![openWindow].owed = @ + owed])
  BY DEF SameQueue, QueueInv, QueueWellFormed, WindowsNumbered, IsWindow,
         InState, WindowIds

(* The users' operations keep the invariant.                               *)
LEMMA QueueInvUser == ASSUME QueueInv, UserAction PROVE QueueInv'
  <1>0. SameQueue(windows)
    BY DEF QueueInv, WindowsNumbered, SameQueue
  <1>1. ASSUME NEW seed \in Seeds, Bootstrap(seed) PROVE QueueInv'
    BY <1>1, QueueInvUnchanged DEF Bootstrap
  <1>2. ASSUME NEW u \in Users, NEW amount \in Deposits, Deposit(u, amount)
        PROVE  QueueInv'
    <2>1. Commit(DepositPlaced(amount))
      BY <1>2 DEF Deposit
    <2> QED BY <1>0, <2>1, RidingAlongKeepsQueue DEF DepositPlaced
  <1>3. ASSUME NEW u \in Users, NEW shares \in Requests, Unbond(u, shares)
        PROVE  QueueInv'
    <2>1. Commit(RequestPlaced(shares))
      BY <1>3 DEF Unbond
    <2> QED BY <2>1, RequestKeepsQueue, RidingAlongKeepsQueue DEF RequestPlaced
  <1>4. ASSUME NEW u \in Users, NEW list \in ClaimLists, ClaimMatured(u, list)
        PROVE  QueueInv'
    BY <1>4, ClaimingInv DEF ClaimMatured
  <1> QED BY <1>1, <1>2, <1>3, <1>4 DEF UserAction

(* The upkeep operations keep the invariant.                               *)
LEMMA QueueInvUpkeep == ASSUME QueueInv, UpkeepAction PROVE QueueInv'
  <1>1. ASSUME AdvanceWindow PROVE QueueInv'
    <2>1. SameQueue(windows)
      BY DEF QueueInv, WindowsNumbered, SameQueue
    <2> QED BY <1>1, <2>1, ClosingKeepsQueue DEF AdvanceWindow
  <1>2. ASSUME NEW limit \in CollectLimits, CollectMatured(limit) PROVE QueueInv'
    <2>1. Collected(limit) \subseteq DueWindows
      BY DEF Collected
    <2> QED BY <1>2, <2>1, CollectingInv DEF CollectMatured
  <1>3. ASSUME NEW limit \in PageLimits, Sync(limit) PROVE QueueInv'
    BY <1>3, QueueInvUnchanged DEF Sync
  <1>4. ASSUME NEW limit \in PageLimits, Compound(limit) PROVE QueueInv'
    BY <1>4, QueueInvUnchanged DEF Compound
  <1> QED BY <1>1, <1>2, <1>3, <1>4 DEF UpkeepAction

(* Neither the manager nor the chain touches the queue.                    *)
LEMMA QueueInvOthers ==
    ASSUME QueueInv, ManagerAction \/ ChainAction \/ UNCHANGED vars
    PROVE  QueueInv'
  <1>1. UNCHANGED queueVars
    BY DEF ManagerAction, SetWeights, SetPerformanceFee, Rebalance, SetPaused,
           Migrate, ChainAction, NextBlock, Slash, AccrueRewards, BurnOwnShares,
           Donate, contractVars, queueVars, vars
  <1> QED BY <1>1, QueueInvUnchanged

(* Every step keeps the invariant.                                         *)
LEMMA QueueInvStep == QueueInv /\ [Next]_vars => QueueInv'
  BY QueueInvUser, QueueInvUpkeep, QueueInvOthers DEF Next

(***************************************************************************)
(* The queue is well formed in every state and its windows are numbered    *)
(* without a gap: the invariant that the steps keep together               *)
(* (close_open_window, mature_due_windows, prune_settled_windows).         *)
(***************************************************************************)
THEOREM QueueInvAlways == Spec => []QueueInv
  BY QueueInvInit, QueueInvStep, PTL DEF Spec

(* At every moment the newest window is the only open one and              *)
(* ACTIVE_WINDOWS holds exactly the windows that money is still owed from  *)
(* (close_open_window, mature_due_windows, prune_settled_windows).         *)
THEOREM QueueAlwaysWellFormed == Spec => []QueueWellFormed
  <1>1. QueueInv => QueueWellFormed
    BY DEF QueueInv
  <1> QED BY QueueInvAlways, <1>1, PTL

-----------------------------------------------------------------------------
(* Claims.  What makes a paid claim final is that only the open window     *)
(* takes requests, and that no claim on the open window is paid yet.       *)
IsClaim(c) == "claimed" \in DOMAIN c

ClaimsNumbered ==
    /\ DOMAIN claims = Users
    /\ \A u \in Users : \A id \in DOMAIN claims[u] :
         id \in DOMAIN windows /\ IsClaim(claims[u][id])

OpenClaimsUnpaid ==
    \A u \in Users : \A id \in DOMAIN claims[u] :
        windows[id].state = "Open" => ~claims[u][id].claimed

ClaimInv == QueueInv /\ ClaimsNumbered /\ OpenClaimsUnpaid

(* Windows are only ever added, one at a time.                             *)
LEMMA QueueGrows ==
    ASSUME QueueInv, Next
    PROVE  nextWindowId' \in {nextWindowId, nextWindowId + 1}
  <1>1. ASSUME NEW set, NEW t, NEW ws, Commit(CloseOpenWindow(set, t, ws))
        PROVE  nextWindowId' = nextWindowId + 1
    BY <1>1 DEF Commit, CloseOpenWindow
  <1>2. ASSUME NEW set, NEW t, NEW ws, Commit(StayOpen(set, t, ws))
        PROVE  nextWindowId' = nextWindowId
    BY <1>2 DEF Commit, StayOpen
  <1>3. ASSUME NEW set, NEW t, NEW ws, Commit(CloseWindowIfOverdue(set, t, ws))
        PROVE  nextWindowId' \in {nextWindowId, nextWindowId + 1}
    BY <1>1, <1>2, <1>3 DEF CloseWindowIfOverdue
  <1>4. CASE UserAction
    BY <1>3, <1>4 DEF UserAction, Bootstrap, Deposit, DepositPlaced, Unbond,
       RequestPlaced, ClaimMatured, queueVars
  <1>5. CASE UpkeepAction
    BY <1>1, <1>5 DEF UpkeepAction, AdvanceWindow, CollectMatured, Sync, Compound,
       queueVars
  <1>6. CASE ManagerAction \/ ChainAction
    BY <1>6 DEF ManagerAction, SetWeights, SetPerformanceFee, Rebalance, SetPaused,
       Migrate, ChainAction, NextBlock, Slash, AccrueRewards, BurnOwnShares,
       Donate, contractVars, queueVars
  <1> QED BY <1>4, <1>5, <1>6 DEF Next

(* A window that takes no requests never takes them again.                 *)
LEMMA OnlyTheOpenWindowIsOpen ==
    ASSUME QueueInv, QueueInv', nextWindowId' \in {nextWindowId, nextWindowId + 1},
           NEW id \in DOMAIN windows
    PROVE  /\ id \in DOMAIN windows'
           /\ windows[id].state = "Open" <=> id = openWindow
           /\ windows'[id].state = "Open" => id = openWindow
  BY DEF QueueInv, WindowsNumbered, QueueWellFormed, InState, WindowIds

\* What one step may do to the claims of one account.
ClaimsStep(u) ==
    /\ DOMAIN claims[u] \subseteq DOMAIN claims'[u]
    /\ DOMAIN claims'[u] \subseteq DOMAIN claims[u] \cup {openWindow}
    /\ \A id \in DOMAIN claims'[u] : IsClaim(claims'[u][id])
    /\ openWindow \in DOMAIN claims'[u] => ~claims'[u][openWindow].claimed
    /\ \A id \in DOMAIN claims[u] \ {openWindow} :
         \/ claims'[u][id] = claims[u][id]
         \/ /\ ~claims[u][id].claimed
            /\ claims'[u][id] = [claims[u][id] EXCEPT !.claimed = TRUE]

(* An account whose record a step leaves alone.                            *)
LEMMA ClaimsUntouched ==
    ASSUME ClaimInv, NEW u \in Users, claims'[u] = claims[u]
    PROVE  ClaimsStep(u)
  <1>1. openWindow \in DOMAIN windows /\ windows[openWindow].state = "Open"
    BY DEF ClaimInv, QueueInv, QueueWellFormed, InState, WindowIds
  <1> QED BY <1>1 DEF ClaimInv, ClaimsNumbered, OpenClaimsUnpaid, ClaimsStep

(* record_claim writes to the open window's claim only.                    *)
LEMMA RequestingClaims ==
    ASSUME ClaimInv, NEW u \in Users, NEW shares, NEW owed,
           claims'[u] = RecordClaim(u, openWindow, shares, owed)
    PROVE  ClaimsStep(u)
  <1>1. openWindow \in DOMAIN windows /\ windows[openWindow].state = "Open"
    BY DEF ClaimInv, QueueInv, QueueWellFormed, InState, WindowIds
  <1>2. DOMAIN claims'[u] = DOMAIN claims[u] \cup {openWindow}
    BY DEF RecordClaim
  <1>3. \A id \in DOMAIN claims[u] \ {openWindow} : claims'[u][id] = claims[u][id]
    BY DEF RecordClaim
  <1>4. IsClaim(claims'[u][openWindow]) /\ ~claims'[u][openWindow].claimed
    <2>1. CASE openWindow \in DOMAIN claims[u]
      <3>1. IsClaim(claims[u][openWindow]) /\ ~claims[u][openWindow].claimed
        BY <1>1, <2>1 DEF ClaimInv, ClaimsNumbered, OpenClaimsUnpaid
      <3>2. claims'[u][openWindow] =
              [claims[u][openWindow] EXCEPT !.shares = @ + shares, !.owed = @ + owed]
        BY <2>1 DEF RecordClaim
      <3> QED BY <3>1, <3>2 DEF IsClaim
    <2>2. CASE openWindow \notin DOMAIN claims[u]
      BY <2>2 DEF RecordClaim, IsClaim
    <2> QED BY <2>1, <2>2
  <1> QED BY <1>2, <1>3, <1>4 DEF ClaimInv, ClaimsNumbered, ClaimsStep

(* execute_claim_matured marks claims of matured windows only.             *)
LEMMA PayingClaims ==
    ASSUME ClaimInv, NEW u \in Users, NEW ids, claims'[u] = ClaimsAfter(u, ids)
    PROVE  ClaimsStep(u)
  <1>1. openWindow \in DOMAIN windows /\ windows[openWindow].state = "Open"
    BY DEF ClaimInv, QueueInv, QueueWellFormed, InState, WindowIds
  <1>2. openWindow \notin Paying(u, ids)
    <2>1. WindowsAtClaim[openWindow] = windows[openWindow]
      BY <1>1, CollectingKeepsQueue DEF WindowsAtClaim, ClaimInv
    <2> QED BY <1>1, <2>1 DEF Paying
  <1>3. DOMAIN claims'[u] = DOMAIN claims[u]
    BY DEF ClaimsAfter
  <1>4. ASSUME NEW id \in DOMAIN claims[u], id \in Paying(u, ids)
        PROVE  /\ ~claims[u][id].claimed
               /\ claims'[u][id] = [claims[u][id] EXCEPT !.claimed = TRUE]
    BY <1>4 DEF ClaimsAfter, Paying, Unpaid
  <1>5. ASSUME NEW id \in DOMAIN claims[u], id \notin Paying(u, ids)
        PROVE  claims'[u][id] = claims[u][id]
    BY <1>5 DEF ClaimsAfter
  <1>6. \A id \in DOMAIN claims[u] : IsClaim(claims'[u][id])
    <2>1. ASSUME NEW c, IsClaim(c) PROVE IsClaim([c EXCEPT !.claimed = TRUE])
      BY <2>1 DEF IsClaim
    <2>2. \A id \in DOMAIN claims[u] : IsClaim(claims[u][id])
      BY DEF ClaimInv, ClaimsNumbered
    <2> QED BY <1>4, <1>5, <2>1, <2>2, ZenonT(30)
  <1>7. openWindow \in DOMAIN claims'[u] => ~claims'[u][openWindow].claimed
    BY <1>1, <1>2, <1>3, <1>5 DEF ClaimInv, ClaimsNumbered, OpenClaimsUnpaid
  <1> QED BY <1>3, <1>4, <1>5, <1>6, <1>7 DEF ClaimsStep

(* Every step treats every account in one of these three ways.             *)
LEMMA EveryClaimsStep ==
    ASSUME ClaimInv, [Next]_vars
    PROVE  DOMAIN claims' = Users /\ \A u \in Users : ClaimsStep(u)
  <1>0. DOMAIN claims = Users
    BY DEF ClaimInv, ClaimsNumbered
  <1>1. ASSUME NEW u \in Users, NEW shares \in Requests, Unbond(u, shares)
        PROVE  DOMAIN claims' = Users /\ \A w \in Users : ClaimsStep(w)
    <2>1. claims' = [claims EXCEPT ![u] =
            RecordClaim(u, openWindow, shares, AssetsForShares(shares, RequestPool))]
      BY <1>1 DEF Unbond
    <2>2. ClaimsStep(u)
      BY <1>0, <2>1, RequestingClaims
    <2>3. ASSUME NEW w \in Users, w # u PROVE ClaimsStep(w)
      BY <1>0, <2>1, <2>3, ClaimsUntouched
    <2> QED BY <1>0, <2>1, <2>2, <2>3
  <1>2. ASSUME NEW u \in Users, NEW list \in ClaimLists, ClaimMatured(u, list)
        PROVE  DOMAIN claims' = Users /\ \A w \in Users : ClaimsStep(w)
    <2>1. claims' = [claims EXCEPT ![u] = ClaimsAfter(u, ClaimIds(u, list))]
      BY <1>2 DEF ClaimMatured
    <2>2. ClaimsStep(u)
      BY <1>0, <2>1, PayingClaims
    <2>3. ASSUME NEW w \in Users, w # u PROVE ClaimsStep(w)
      BY <1>0, <2>1, <2>3, ClaimsUntouched
    <2> QED BY <1>0, <2>1, <2>2, <2>3
  <1>3. ASSUME claims' = claims
        PROVE  DOMAIN claims' = Users /\ \A w \in Users : ClaimsStep(w)
    BY <1>0, <1>3, ClaimsUntouched
  <1>4. CASE UserAction
    <2>1. ASSUME NEW seed \in Seeds, Bootstrap(seed) PROVE claims' = claims
      BY <2>1 DEF Bootstrap
    <2>2. ASSUME NEW u \in Users, NEW amount \in Deposits, Deposit(u, amount)
          PROVE  claims' = claims
      BY <2>2 DEF Deposit
    <2> QED BY <1>1, <1>2, <1>3, <1>4, <2>1, <2>2 DEF UserAction
  <1>5. CASE UpkeepAction \/ ManagerAction \/ ChainAction \/ UNCHANGED vars
    <2>1. claims' = claims
      BY <1>5 DEF UpkeepAction, AdvanceWindow, CollectMatured, Sync, Compound,
         ManagerAction, SetWeights, SetPerformanceFee, Rebalance, SetPaused,
         Migrate, ChainAction, NextBlock, Slash, AccrueRewards, BurnOwnShares,
         Donate, contractVars, vars
    <2> QED BY <1>3, <2>1
  <1> QED BY <1>4, <1>5 DEF Next

(* There are no claims at instantiation.                                   *)
LEMMA ClaimInvInit == Init => ClaimInv
  <1>1. ASSUME Init
        PROVE  DOMAIN claims = Users /\ \A u \in Users : DOMAIN claims[u] = {}
    BY <1>1 DEF Init
  <1> QED BY <1>1, QueueInvInit DEF ClaimInv, ClaimsNumbered, OpenClaimsUnpaid

(* Every step keeps the claims' invariant.                                 *)
LEMMA ClaimInvStep == ClaimInv /\ [Next]_vars => ClaimInv'
  <1> SUFFICES ASSUME ClaimInv, [Next]_vars PROVE ClaimInv'
    OBVIOUS
  <1>1. QueueInv /\ QueueInv'
    BY QueueInvStep DEF ClaimInv
  <1>2. nextWindowId' \in {nextWindowId, nextWindowId + 1}
    BY <1>1, QueueGrows DEF vars, contractVars
  <1>3. DOMAIN claims' = Users /\ \A u \in Users : ClaimsStep(u)
    BY EveryClaimsStep
  <1>4. openWindow \in DOMAIN windows
    BY <1>1 DEF QueueInv, QueueWellFormed, InState, WindowIds
  <1>5. ASSUME NEW u \in Users, NEW id \in DOMAIN claims'[u]
        PROVE  /\ id \in DOMAIN windows' /\ IsClaim(claims'[u][id])
               /\ windows'[id].state = "Open" => ~claims'[u][id].claimed
    <2>1. id \in DOMAIN windows
      BY <1>3, <1>4 DEF ClaimInv, ClaimsNumbered, ClaimsStep
    <2>2. id \in DOMAIN windows' /\ (windows'[id].state = "Open" => id = openWindow)
      BY <1>1, <1>2, <2>1, OnlyTheOpenWindowIsOpen
    <2> QED BY <1>3, <2>2 DEF ClaimsStep
  <1> QED BY <1>1, <1>3, <1>5 DEF ClaimInv, ClaimsNumbered, OpenClaimsUnpaid

(* Claims name windows that exist, and one on the open window is unpaid    *)
(* (record_claim, execute_claim_matured).                                  *)
THEOREM ClaimInvAlways == Spec => []ClaimInv
  BY ClaimInvInit, ClaimInvStep, PTL DEF Spec

(***************************************************************************)
(* A paid claim is final, and a claim on a window that no longer takes     *)
(* requests only ever becomes paid (record_claim, execute_claim_matured).  *)
(***************************************************************************)
THEOREM ClaimsAlwaysFinal == Spec => ClaimsAreFinal
  <1> DEFINE Final(u, id) ==
        /\ id \in DOMAIN claims'[u]
        /\ claims[u][id].claimed => claims'[u][id] = claims[u][id]
        /\ windows[id].state # "Open" =>
              claims'[u][id] \in {claims[u][id],
                                  [claims[u][id] EXCEPT !.claimed = TRUE]}
  <1>1. ASSUME ClaimInv, [Next]_vars, NEW u \in Users, NEW id \in DOMAIN claims[u]
        PROVE  Final(u, id)
    <2>1. ClaimsStep(u)
      BY <1>1, EveryClaimsStep
    <2>2. id = openWindow => windows[id].state = "Open" /\ ~claims[u][id].claimed
      BY <1>1 DEF ClaimInv, QueueInv, QueueWellFormed, InState, WindowIds,
                  OpenClaimsUnpaid
    <2> QED BY <2>1, <2>2 DEF ClaimsStep
  <1>2. ClaimInv /\ [Next]_vars =>
          [\A u \in Users : \A id \in DOMAIN claims[u] : Final(u, id)]_vars
    BY <1>1
  <1> QED BY ClaimInvAlways, <1>2, PTL DEF Spec, ClaimsAreFinal
-----------------------------------------------------------------------------
\* Nobody can burn or redeem more than there is.
SupplyCovers == SumFunctionOnSet(token.held, Users) <= token.supply

\* The fee never exceeds the rewards it is taken from.
FeesBounded ==
    config.fee <= MaxPerformanceFee /\ config.maxFee <= MaxPerformanceFee

TypeInv == TypeOK /\ SupplyCovers /\ FeesBounded /\ IsFiniteSet(unbonding)

-----------------------------------------------------------------------------
(* Sums over a part of a ledger.                                           *)
LEMMA SumOfPart ==
    ASSUME NEW T, IsFiniteSet(T), NEW f \in [T -> Nat], NEW U \in SUBSET T
    PROVE  SumFunctionOnSet(f, U) \in Nat
  BY FS_Subset, SumNat

(* The sum of a whole ledger is an amount.                                 *)
LEMMA SumOfAll ==
    ASSUME NEW T, IsFiniteSet(T), NEW f \in [T -> Nat]
    PROVE  SumFunction(f) \in Nat
  <1>1. SumFunction(f) = SumFunctionOnSet(f, T)
    BY DEF SumFunction, SumFunctionOnSet, FoldFunction
  <1> QED BY <1>1, SumOfPart

(* The part of an element is at most the whole.                            *)
LEMMA SumCovers ==
    ASSUME NEW T, IsFiniteSet(T), NEW f \in [T -> Nat], NEW e \in T
    PROVE  f[e] <= SumFunctionOnSet(f, T)
  <1>1. SumFunctionOnSet(f, T) = f[e] + SumFunctionOnSet(f, T \ {e})
    BY SumElement
  <1>2. SumFunctionOnSet(f, T \ {e}) \in Nat
    BY SumOfPart
  <1> QED BY <1>1, <1>2

(* Changing one entry of a ledger changes its sum by as much.              *)
LEMMA SumUpdate ==
    ASSUME NEW T, IsFiniteSet(T), NEW f \in [T -> Nat], NEW e \in T, NEW x \in Nat
    PROVE  SumFunctionOnSet([f EXCEPT ![e] = x], T)
             = SumFunctionOnSet(f, T) - f[e] + x
  <1> DEFINE h == [f EXCEPT ![e] = x]
             r == T \ {e}
  <1>1. h \in [T -> Nat] /\ h[e] = x /\ \A y \in r : h[y] = f[y]
    OBVIOUS
  <1> HIDE DEF h
  <1>2. IsFiniteSet(r)
    BY FS_Subset
  <1>3. SumFunctionOnSet(h, r) = SumFunctionOnSet(f, r)
    BY <1>1, <1>2, SumExt
  <1>4. SumFunctionOnSet(h, T) = x + SumFunctionOnSet(h, r)
    BY <1>1, SumElement
  <1>5. SumFunctionOnSet(f, T) = f[e] + SumFunctionOnSet(f, r)
    BY SumElement
  <1>6. SumFunctionOnSet(f, r) \in Nat
    BY SumOfPart
  <1>7. SumFunctionOnSet(h, T) = SumFunctionOnSet(f, T) - f[e] + x
    BY <1>3, <1>4, <1>5, <1>6
  <1> QED BY <1>7 DEF h

-----------------------------------------------------------------------------
(* The validator set.                                                      *)
LEMMA SetDomain ==
    ASSUME NEW S, NEW set \in Seq(S)
    PROVE  /\ DOMAIN set = 1 .. Len(set) /\ Len(set) \in Nat
           /\ IsFiniteSet(DOMAIN set)
           /\ \A i \in DOMAIN set : set[i] \in S
  BY FS_Interval

(* A rewritten list of entries is one as long as its members are.          *)
LEMMA Rewritten ==
    ASSUME NEW S, NEW set \in Seq(S), NEW R, NEW g, DOMAIN g = DOMAIN set,
           g = [i \in DOMAIN set |-> g[i]], \A i \in DOMAIN set : g[i] \in R
    PROVE  g \in Seq(R)
  <1>1. g = [i \in 1 .. Len(set) |-> g[i]] /\ Len(set) \in Nat
    BY SetDomain
  <1> QED BY <1>1, SetDomain

(* What the fields of a validator entry are.                               *)
LEMMA EntryFields ==
    ASSUME NEW e \in ValidatorEntry
    PROVE  /\ e.address \in Validators /\ e.status \in Statuses
           /\ e.weight \in Nat /\ e.bonded \in Nat
           /\ e.pending \in Nat /\ e.entries \in Nat
  BY DEF ValidatorEntry

(* A saturating subtraction yields an amount, never above the first.       *)
LEMMA SatSubNat ==
    ASSUME NEW a \in Nat, NEW b \in Nat
    PROVE  SatSub(a, b) \in Nat /\ SatSub(a, b) <= a
  BY DEF SatSub

(* An entry stays one when its stake or its slots change.                  *)
LEMMA EntryChanged ==
    ASSUME NEW e \in ValidatorEntry, NEW x \in Nat, NEW y \in Nat
    PROVE  /\ [e EXCEPT !.bonded = x] \in ValidatorEntry
           /\ [e EXCEPT !.entries = x] \in ValidatorEntry
           /\ [e EXCEPT !.bonded = x, !.entries = y] \in ValidatorEntry
           /\ [e EXCEPT !.bonded = x, !.pending = y] \in ValidatorEntry
  BY DEF ValidatorEntry

(* An entry less a leg of an undelegation, and less a number of slots.     *)
LEMMA EntryReduced ==
    ASSUME NEW e \in ValidatorEntry, NEW x \in Nat
    PROVE  /\ [e EXCEPT !.bonded = SatSub(@, x), !.entries = @ + 1]
                \in ValidatorEntry
           /\ [e EXCEPT !.entries = SatSub(@, x)] \in ValidatorEntry
  <1>1. e.bonded \in Nat /\ e.entries \in Nat
    BY EntryFields
  <1>2. SatSub(e.bonded, x) \in Nat /\ SatSub(e.entries, x) \in Nat
    BY <1>1, SatSubNat
  <1>3. e.entries + 1 \in Nat
    BY <1>1
  <1> QED BY <1>2, <1>3, EntryChanged

(* The totals over a validator set are amounts (total_bonded).             *)
LEMMA StakesNat ==
    ASSUME NEW set \in Seq(ValidatorEntry)
    PROVE  /\ TotalBonded(set) \in Nat
           /\ TotalPending(set) \in Nat
           /\ \A I \in SUBSET DOMAIN set : BondedAt(set, I) \in Nat
  <1>1. IsFiniteSet(DOMAIN set)
    BY SetDomain
  <1>2. /\ [i \in DOMAIN set |-> set[i].bonded] \in [DOMAIN set -> Nat]
        /\ [i \in DOMAIN set |-> set[i].pending] \in [DOMAIN set -> Nat]
    BY SetDomain, EntryFields
  <1> QED BY <1>1, <1>2, SumOfAll, SumOfPart DEF TotalBonded, TotalPending, BondedAt

(* plan_undelegation plans an amount for every entry.                      *)
LEMMA LegsNat ==
    ASSUME NEW set \in Seq(ValidatorEntry), NEW amount \in Nat, NEW ceiling
    PROVE  PlanUndelegation(set, amount, ceiling) \in [DOMAIN set -> Nat]
  <1> DEFINE C == UnbondCandidates(set, ceiling)
             Ahead(i) == {j \in C : DrainsBefore(set, TotalBonded(set), j, i)}
  <1>1. ASSUME NEW i \in DOMAIN set
        PROVE  Min2(set[i].bonded, SatSub(amount, BondedAt(set, Ahead(i)))) \in Nat
    <2>1. set[i].bonded \in Nat
      BY SetDomain, EntryFields
    <2>2. Ahead(i) \in SUBSET DOMAIN set
      BY DEF UnbondCandidates
    <2>3. BondedAt(set, Ahead(i)) \in Nat
      BY <2>2, StakesNat
    <2> QED BY <2>1, <2>3 DEF Min2, SatSub
  <1> QED BY <1>1 DEF PlanUndelegation

(* Booking the legs of a plan leaves a validator set.                      *)
LEMMA LegsLeaveASet ==
    ASSUME NEW set \in Seq(ValidatorEntry), NEW legs \in [DOMAIN set -> Nat]
    PROVE  WithLegs(set, legs) \in Seq(ValidatorEntry)
           /\ DOMAIN WithLegs(set, legs) = DOMAIN set
  <1>1. ASSUME NEW i \in DOMAIN set PROVE WithLegs(set, legs)[i] \in ValidatorEntry
    <2>1. set[i] \in ValidatorEntry /\ legs[i] \in Nat
      BY SetDomain
    <2> QED BY <2>1, EntryReduced DEF WithLegs
  <1>2. /\ DOMAIN WithLegs(set, legs) = DOMAIN set
        /\ WithLegs(set, legs) = [i \in DOMAIN set |-> WithLegs(set, legs)[i]]
    BY DEF WithLegs
  <1> QED BY <1>1, <1>2, Rewritten

(* A validator's target share is an amount.                                *)
LEMMA TargetNat ==
    ASSUME NEW entry \in ValidatorEntry, NEW pool \in Nat
    PROVE  Target(entry, pool) \in Nat
  BY MulDivFloorBounds DEF Target, ValidatorEntry, BPS_DENOM

(* So is its distance to the target (select_for_delegation).               *)
LEMMA SurplusTyped ==
    ASSUME NEW set \in Seq(ValidatorEntry), NEW incoming \in Nat,
           NEW i \in DOMAIN set
    PROVE  SatSub(Target(set[i], TotalBonded(set) + incoming), set[i].bonded) \in Nat
  <1>1. set[i] \in ValidatorEntry
    BY SetDomain
  <1>2. set[i].bonded \in Nat /\ TotalBonded(set) + incoming \in Nat
    BY <1>1, EntryFields, StakesNat
  <1> QED BY <1>1, <1>2, TargetNat, SatSubNat

(* Stake is always placed with one of the active validators.               *)
LEMMA SelectsActive ==
    ASSUME NEW set \in Seq(ValidatorEntry), NEW incoming \in Nat,
           AcceptsStake(set) # {}
    PROVE  SelectForDelegation(set, incoming) \in AcceptsStake(set)
  <1> DEFINE pool == TotalBonded(set) + incoming
             D == [i \in AcceptsStake(set) |->
                     SatSub(Target(set[i], pool), set[i].bonded)]
  <1>1. AcceptsStake(set) \in SUBSET (1 .. Len(set)) /\ Len(set) \in Nat
    BY SetDomain DEF AcceptsStake
  <1>2. D \in [AcceptsStake(set) -> Nat]
    BY SurplusTyped DEF AcceptsStake
  <1> HIDE DEF D
  <1>3. \E i \in AcceptsStake(set) : \A j \in AcceptsStake(set) :
           D[j] < D[i] \/ (D[j] = D[i] /\ i <= j)
    <2>1. IsFiniteSet(AcceptsStake(set))
      BY SetDomain, FS_Subset DEF AcceptsStake
    <2>2. \A i \in AcceptsStake(set) : i \in Int /\ D[i] \in Int
      BY <1>1, <1>2
    <2> QED BY <2>1, <2>2, FirstLargest
  <1>4. \A i \in AcceptsStake(set) :
           D[i] = SatSub(Target(set[i], pool), set[i].bonded)
    BY DEF D
  <1>5. \E i \in AcceptsStake(set) : \A j \in AcceptsStake(set) :
           \/ SatSub(Target(set[j], pool), set[j].bonded)
                < SatSub(Target(set[i], pool), set[i].bonded)
           \/ /\ SatSub(Target(set[j], pool), set[j].bonded)
                    = SatSub(Target(set[i], pool), set[i].bonded)
              /\ i <= j
    BY <1>3, <1>4
  <1> QED BY <1>5 DEF SelectForDelegation

(* Every number up to its cardinality numbers a member of a finite set.    *)
LEMMA NthInSet ==
    ASSUME NEW S, IsFiniteSet(S), \A i \in S : i \in Int,
           NEW k \in 1 .. Cardinality(S)
    PROVE  Nth(S, k) \in S /\ Cardinality({j \in S : j <= Nth(S, k)}) = k
  BY KthMember DEF Nth

(* A newly weighted validator's entry is well typed.                       *)
LEMMA NewEntryTyped ==
    ASSUME NEW init \in ValidatorInit
    PROVE  NewEntry(init) \in ValidatorEntry
  BY DEF ValidatorInit, NewEntry, ValidatorEntry, Statuses

(* So is the set of entries made of an assignment.                         *)
LEMMA InitialSetTyped ==
    ASSUME NEW inits \in Seq(ValidatorInit)
    PROVE  InitialValidatorSet(inits) \in Seq(ValidatorEntry)
  <1>1. \A i \in DOMAIN inits : InitialValidatorSet(inits)[i] \in ValidatorEntry
    BY SetDomain, NewEntryTyped DEF InitialValidatorSet
  <1>2. /\ DOMAIN InitialValidatorSet(inits) = DOMAIN inits
        /\ InitialValidatorSet(inits)
             = [i \in DOMAIN inits |-> InitialValidatorSet(inits)[i]]
    BY DEF InitialValidatorSet
  <1> QED BY <1>1, <1>2, Rewritten

(* Reweighting keeps an entry one.                                         *)
LEMMA ReweightedTyped ==
    ASSUME NEW e \in ValidatorEntry, NEW weights \in Seq(ValidatorInit)
    PROVE  Reweighted(e, weights) \in ValidatorEntry
  <1> DEFINE chosen == {i \in DOMAIN weights : weights[i].address = e.address}
  <1>1. CASE chosen # {}
    <2> DEFINE c == CHOOSE i \in chosen : TRUE
    <2>1. c \in chosen
      BY <1>1
    <2>2. weights[c] \in ValidatorInit
      BY <2>1, SetDomain
    <2>3. weights[c].weight \in Nat
      BY <2>2 DEF ValidatorInit
    <2> HIDE DEF c
    <2>4. [e EXCEPT !.weight = weights[c].weight, !.status = "Active"]
            \in ValidatorEntry
      BY <2>3 DEF ValidatorEntry, Statuses
    <2> QED BY <1>1, <2>4 DEF Reweighted, c
  <1>2. CASE chosen = {}
    <2>1. [e EXCEPT !.weight = 0, !.status = IF e.bonded = 0 THEN "Removed"
                                             ELSE "Draining"] \in ValidatorEntry
      BY DEF ValidatorEntry, Statuses
    <2> QED BY <1>2, <2>1 DEF Reweighted
  <1> QED BY <1>1, <1>2

(* apply_weights keeps the set one.                                        *)
LEMMA ApplyWeightsTyped ==
    ASSUME NEW set \in Seq(ValidatorEntry), NEW weights \in Seq(ValidatorInit)
    PROVE  ApplyWeights(set, weights) \in Seq(ValidatorEntry)
  <1> DEFINE old == [i \in DOMAIN set |-> Reweighted(set[i], weights)]
             N == NewIn(weights, set)
             new == [k \in 1 .. Cardinality(N) |-> NewEntry(weights[Nth(N, k)])]
  <1>1. old \in Seq(ValidatorEntry)
    <2>1. \A i \in DOMAIN set : Reweighted(set[i], weights) \in ValidatorEntry
      BY SetDomain, ReweightedTyped
    <2>2. DOMAIN old = DOMAIN set /\ old = [i \in DOMAIN set |-> old[i]]
      OBVIOUS
    <2>3. \A i \in DOMAIN set : old[i] \in ValidatorEntry
      BY <2>1
    <2> HIDE DEF old
    <2> QED BY <2>2, <2>3, Rewritten
  <1>2. N \in SUBSET DOMAIN weights /\ IsFiniteSet(N) /\ \A i \in N : i \in Int
    <2>1. N \in SUBSET DOMAIN weights
      BY DEF NewIn
    <2> QED BY <2>1, SetDomain, FS_Subset
  <1>3. Cardinality(N) \in Nat
    BY <1>2, FS_CardinalityType
  <1>4. ASSUME NEW k \in 1 .. Cardinality(N)
        PROVE  NewEntry(weights[Nth(N, k)]) \in ValidatorEntry
    <2>1. Nth(N, k) \in DOMAIN weights
      BY <1>2, NthInSet
    <2>2. weights[Nth(N, k)] \in ValidatorInit
      BY <2>1, SetDomain
    <2> QED BY <2>2, NewEntryTyped
  <1>5. new \in Seq(ValidatorEntry)
    BY <1>3, <1>4
  <1> HIDE DEF old, new
  <1>6. old \o new \in Seq(ValidatorEntry)
    BY <1>1, <1>5
  <1> QED BY <1>6 DEF ApplyWeights, old, new

-----------------------------------------------------------------------------
(* Windows.                                                                *)
AWindow == UnbondWindow(Validators)

(* What the fields of a window are.                                        *)
LEMMA WindowFields ==
    ASSUME NEW w \in AWindow
    PROVE  /\ w.closesAt \in Nat /\ w.maturesAt \in Nat /\ w.shares \in Nat
           /\ w.owed \in Nat /\ w.claimed \in Nat /\ Payable(w) \in Nat
           /\ Outstanding(w) \in Nat
  BY DEF AWindow, UnbondWindow, Payable, Outstanding, SatSub

(* A new window is well typed.                                             *)
LEMMA FreshWindowTyped ==
    ASSUME NEW time \in Nat, NEW secs \in Nat
    PROVE  WindowOpen(time, secs) \in AWindow
  BY DEF AWindow, UnbondWindow, WindowOpen, WindowStates

(* UnbondWindow::close keeps a window one.                                 *)
LEMMA ClosedWindowTyped ==
    ASSUME NEW w \in AWindow, NEW time \in Nat, NEW secs \in Nat,
           NEW used \in SUBSET Validators
    PROVE  Close([w EXCEPT !.used = used], time, secs) \in AWindow
  <1> DEFINE u == [w EXCEPT !.used = used]
  <1>1. u \in AWindow
    BY DEF AWindow, UnbondWindow
  <1>2. time + secs \in Nat
    OBVIOUS
  <1> HIDE DEF u
  <1>3. [u EXCEPT !.state = "Settled", !.realised = 0] \in AWindow
    BY <1>1 DEF AWindow, UnbondWindow, WindowStates
  <1>4. [u EXCEPT !.state = "Unbonding", !.maturesAt = time + secs] \in AWindow
    BY <1>1, <1>2 DEF AWindow, UnbondWindow, WindowStates
  <1>5. Close(u, time, secs) \in AWindow
    BY <1>3, <1>4 DEF Close
  <1> QED BY <1>5 DEF u

(* UnbondWindow::mature keeps a window one.                                *)
LEMMA MaturedWindowTyped ==
    ASSUME NEW w \in AWindow, NEW available \in Nat
    PROVE  Mature(w, available) \in AWindow
  BY DEF AWindow, UnbondWindow, Mature, Min2, WindowStates

(* A request that joins the open window keeps it one.                      *)
LEMMA JoinedWindowTyped ==
    ASSUME NEW w \in AWindow, NEW shares \in Nat, NEW owed \in Nat
    PROVE  [w EXCEPT !.shares = @ + shares, !.owed = @ + owed] \in AWindow
  <1>1. w.shares + shares \in Nat /\ w.owed + owed \in Nat
    BY WindowFields
  <1> QED BY <1>1 DEF AWindow, UnbondWindow

(* payout_for_claim yields an amount.                                      *)
LEMMA PayoutNat ==
    ASSUME NEW w \in AWindow, NEW owed \in Nat
    PROVE  PayoutForClaim(w, owed) \in Nat
  <1>1. w.owed \in Nat /\ Payable(w) \in Nat
    BY WindowFields
  <1> QED BY <1>1, MulDivFloorBounds DEF PayoutForClaim

(* Paying a claim keeps a window one.                                      *)
LEMMA PaidWindowTyped ==
    ASSUME NEW w \in AWindow, NEW payout \in Nat
    PROVE  PaidWindow(w, payout) \in AWindow
  <1> DEFINE paid == [w EXCEPT !.claimed = @ + payout]
  <1>1. w.claimed + payout \in Nat
    BY WindowFields
  <1>2. paid \in AWindow
    BY <1>1 DEF AWindow, UnbondWindow
  <1> HIDE DEF paid
  <1>3. [paid EXCEPT !.state = "Settled"] \in AWindow
    BY <1>2 DEF AWindow, UnbondWindow, WindowStates
  <1> QED BY <1>2, <1>3 DEF PaidWindow, paid

-----------------------------------------------------------------------------
(* Closing the open window.                                                *)
TypedWindows(ws, n) == ws \in [0 .. n - 1 -> AWindow]

\* What a closing answers with, whether or not the window closed.
TypedResult(r) ==
    /\ r.set \in Seq(ValidatorEntry)
    /\ r.legs \in [DOMAIN r.set -> Nat]
    /\ r.totals \in TotalsCache
    /\ r.next \in {nextWindowId, nextWindowId + 1}
    /\ r.next \in Nat
    /\ r.open \in 0 .. r.next - 1
    /\ r.active \in SUBSET (0 .. r.next - 1)
    /\ TypedWindows(r.windows, r.next)

\* The part of TypeOK a closing reads and writes.
TypedQueue ==
    /\ nextWindowId \in Nat
    /\ TypedWindows(windows, nextWindowId)
    /\ openWindow \in 0 .. nextWindowId - 1
    /\ active \in SUBSET (0 .. nextWindowId - 1)
    /\ now \in Nat

(* The type invariant gives the part a closing needs.                      *)
LEMMA TypedQueueHolds == ASSUME TypeOK PROVE TypedQueue
  BY DEF TypeOK, TypedQueue, TypedWindows, WindowIds, AWindow

(* The parameters are amounts.                                             *)
LEMMA ParametersNat ==
    /\ WindowLength \in Nat /\ UnbondingPeriod \in Nat /\ MinBootstrapSeed \in Nat
    /\ InitialFee \in Nat /\ InitialMaxFee \in Nat /\ MigrationMaxFee \in Nat
    /\ MaxPerformanceFee \in Nat /\ SlashBps \in Nat /\ EntryCeiling \in Nat
  BY ConstantsAreTyped

(* What the fields of the pricing cache are.                               *)
LEMMA TotalsFields ==
    ASSUME NEW t \in TotalsCache
    PROVE  /\ t.bonded \in Nat /\ t.pending \in Nat /\ t.supply \in Nat
           /\ t.owedOpen \in Nat /\ t.owedUnbonding \in Nat
           /\ t.owedMatured \in Nat /\ t.lastSync \in Nat
           /\ OwedBacked(t) \in Nat
  BY DEF TotalsCache, OwedBacked

(* Moving a liability in flight keeps the cache one.                       *)
LEMMA InFlightTyped ==
    ASSUME NEW t \in TotalsCache, NEW owed \in Nat
    PROVE  LiabilityInFlight(t, owed) \in TotalsCache
  <1>1. t.bonded \in Nat /\ t.owedOpen \in Nat /\ t.owedUnbonding \in Nat
    BY TotalsFields
  <1>2. SatSub(t.bonded, owed) \in Nat /\ SatSub(t.owedOpen, owed) \in Nat
    BY <1>1, SatSubNat
  <1>3. t.owedUnbonding + owed \in Nat
    BY <1>1
  <1> QED BY <1>2, <1>3 DEF LiabilityInFlight, TotalsCache

(* close_open_window answers with well-typed state.                        *)
LEMMA ClosingTyped ==
    ASSUME TypedQueue, NEW set \in Seq(ValidatorEntry), NEW t \in TotalsCache,
           NEW ws, TypedWindows(ws, nextWindowId)
    PROVE  TypedResult(CloseOpenWindow(set, t, ws))
  <1> DEFINE owed   == ws[openWindow].owed
             legs   == PlanUndelegation(set, owed, EntryCeiling)
             used   == UsedBy(set, legs)
             closed == Close([ws[openWindow] EXCEPT !.used = used], now,
                             UnbondingPeriod)
             fresh  == WindowOpen(now, WindowLength)
             r      == CloseOpenWindow(set, t, ws)
  <1>1. ws[openWindow] \in AWindow /\ now \in Nat
    BY DEF TypedQueue, TypedWindows
  <1>2. owed \in Nat
    BY <1>1, WindowFields
  <1>3. legs \in [DOMAIN set -> Nat]
    BY <1>2, LegsNat
  <1>4. used \in SUBSET Validators
    <2>1. \A i \in DOMAIN set : set[i].address \in Validators
      BY SetDomain, EntryFields
    <2> QED BY <2>1 DEF UsedBy
  <1>5. closed \in AWindow /\ fresh \in AWindow
    BY <1>1, <1>4, ParametersNat, ClosedWindowTyped, FreshWindowTyped
  <1>6. LiabilityInFlight(t, owed) \in TotalsCache
    BY <1>2, InFlightTyped
  <1>7. /\ r.set = WithLegs(set, legs) /\ r.legs = legs
        /\ r.totals = LiabilityInFlight(t, owed)
        /\ r.next = nextWindowId + 1 /\ r.open = nextWindowId
        /\ r.active = IF closed.state = "Unbonding"
                      THEN active \cup {openWindow} ELSE active
        /\ r.windows = [id \in 0 .. nextWindowId |->
                          CASE id = nextWindowId -> fresh
                            [] id = openWindow   -> closed
                            [] OTHER             -> ws[id]]
    BY DEF CloseOpenWindow
  <1> HIDE DEF closed, fresh, used, legs, owed, r
  <1>8. r.set \in Seq(ValidatorEntry) /\ r.legs \in [DOMAIN r.set -> Nat]
    BY <1>3, <1>7, LegsLeaveASet
  <1>9. r.next \in Nat /\ r.next = nextWindowId + 1 /\ r.open \in 0 .. r.next - 1
    BY <1>7 DEF TypedQueue
  <1>10. r.active \in SUBSET (0 .. r.next - 1)
    BY <1>7 DEF TypedQueue
  <1>11. TypedWindows(r.windows, r.next)
    <2>1. ASSUME NEW id \in 0 .. nextWindowId PROVE r.windows[id] \in AWindow
      BY <1>5, <1>7 DEF TypedQueue, TypedWindows
    <2>2. r.next - 1 = nextWindowId
      BY <1>7 DEF TypedQueue
    <2> QED BY <1>7, <2>1, <2>2 DEF TypedWindows
  <1> QED BY <1>6, <1>7, <1>8, <1>9, <1>10, <1>11 DEF TypedResult, r

(* So does close_window_if_overdue, closing or not.                        *)
LEMMA RidingAlongTyped ==
    ASSUME TypedQueue, NEW set \in Seq(ValidatorEntry), NEW t \in TotalsCache,
           NEW ws, TypedWindows(ws, nextWindowId)
    PROVE  TypedResult(CloseWindowIfOverdue(set, t, ws))
  <1>1. TypedResult(StayOpen(set, t, ws))
    BY DEF TypedQueue, StayOpen, TypedResult
  <1> QED BY <1>1, ClosingTyped DEF CloseWindowIfOverdue

(* What a closing takes from a validator is an amount.                     *)
LEMMA LeavingNat ==
    ASSUME NEW r, TypedResult(r), NEW v
    PROVE  Leaving(r, v) \in Nat
  <1>1. r.set \in Seq(ValidatorEntry) /\ r.legs \in [DOMAIN r.set -> Nat]
    BY DEF TypedResult
  <1>2. IsFiniteSet(DOMAIN r.set)
    BY <1>1, SetDomain
  <1> QED BY <1>1, <1>2, SumOfPart DEF Leaving

-----------------------------------------------------------------------------
(* The chain's side.                                                       *)
TypedChain ==
    /\ now \in Nat /\ balance \in Nat
    /\ delegated \in [Validators -> Nat]
    /\ accrued \in [Validators -> Nat]
    /\ unbonding \in SUBSET UnbondingEntry
    /\ IsFiniteSet(unbonding)

(* The type invariant gives the part that is the chain's.                  *)
LEMMA TypedChainHolds == ASSUME TypeInv PROVE TypedChain
  BY DEF TypeInv, TypeOK, TypedChain

(* The validators and the users are finitely many.                         *)
LEMMA FiniteConstants == IsFiniteSet(Validators) /\ IsFiniteSet(Users)
  BY ConstantsAreTyped

(* Paying out rewards keeps the ledgers ones.                              *)
LEMMA RewardsPaidTyped ==
    ASSUME TypedChain, NEW touched \in SUBSET Validators, RewardsPaidAt(touched)
    PROVE  accrued' \in [Validators -> Nat] /\ balance' \in Nat
  <1>1. SumFunctionOnSet(accrued, touched) \in Nat
    BY FiniteConstants, SumOfPart DEF TypedChain
  <1>2. balance' = balance + SumFunctionOnSet(accrued, touched)
    BY DEF RewardsPaidAt
  <1>3. accrued' \in [Validators -> Nat]
    BY DEF RewardsPaidAt, TypedChain
  <1> QED BY <1>1, <1>2, <1>3 DEF TypedChain

\* The image of a finite set.
LEMMA FiniteImage ==
    ASSUME NEW S, IsFiniteSet(S), NEW f, DOMAIN f = S
    PROVE  IsFiniteSet({f[x] : x \in S})
  <1> DEFINE T == {f[x] : x \in S}
             g == [x \in S |-> f[x]]
  <1>1. g \in Surjection(S, T)
    BY DEF Surjection
  <1> QED BY <1>1, FS_Surjection

(* The staking module never goes below zero: it refuses such a message.    *)
LEMMA UndelegatedTyped ==
    ASSUME TypedChain, TypedQueue, NEW r, TypedResult(r),
           NEW staked \in [Validators -> Nat], Undelegated(r, staked)
    PROVE  /\ delegated' \in [Validators -> Nat]
           /\ unbonding' \in SUBSET UnbondingEntry
           /\ IsFiniteSet(unbonding')
  <1>1. ASSUME NEW v \in Validators
        PROVE  /\ Leaving(r, v) \in Nat /\ staked[v] \in Nat
               /\ Leaving(r, v) <= staked[v]
    <2>1. Leaving(r, v) \in Nat
      BY LeavingNat
    <2>2. Leaving(r, v) > 0 => Leaving(r, v) <= staked[v]
      BY DEF Undelegated, ChainAccepts
    <2> QED BY <2>1, <2>2
  <1>2. delegated' \in [Validators -> Nat]
    <2>1. \A v \in Validators : staked[v] - Leaving(r, v) \in Nat
      BY <1>1
    <2> QED BY <2>1 DEF Undelegated
  <1> DEFINE E(v) == [validator |-> v, window |-> openWindow,
                      amount |-> Leaving(r, v), release |-> now + UnbondingPeriod]
             new == {E(v) : v \in LeftBy(r)}
  <1>3. unbonding' = unbonding \cup new
    BY DEF Undelegated
  <1>4. LeftBy(r) \in SUBSET Validators /\ IsFiniteSet(LeftBy(r))
    BY FiniteConstants, FS_Subset DEF LeftBy
  <1>5. openWindow \in Nat /\ now + UnbondingPeriod \in Nat
    BY ParametersNat DEF TypedQueue
  <1>6. new \in SUBSET UnbondingEntry
    BY <1>1, <1>4, <1>5 DEF UnbondingEntry
  <1>7. IsFiniteSet(new)
    <2> DEFINE f == [v \in LeftBy(r) |-> E(v)]
    <2>1. DOMAIN f = LeftBy(r) /\ new = {f[v] : v \in LeftBy(r)}
      OBVIOUS
    <2> HIDE DEF f, new
    <2> QED BY <1>4, <2>1, FiniteImage
  <1>8. IsFiniteSet(unbonding \cup new)
    BY <1>7, FS_Union DEF TypedChain
  <1> HIDE DEF new
  <1> QED BY <1>2, <1>3, <1>6, <1>8 DEF TypedChain

-----------------------------------------------------------------------------
(* The invariant in parts, one for each group of variables that the        *)
(* actions write together.                                                 *)
TypedConfig == config \in Config /\ FeesBounded

TypedSet == validators \in Seq(ValidatorEntry) /\ cursor \in Nat

TypedClaims ==
    /\ DOMAIN claims = Users
    /\ claims = [u \in Users |-> claims[u]]
    /\ \A u \in Users :
         /\ DOMAIN claims[u] \in SUBSET (0 .. nextWindowId - 1)
         /\ claims[u] \in [DOMAIN claims[u] -> ClaimRecord]

Token == [supply : Nat, held : [Users -> Nat]]

TypedToken == token \in Token /\ SupplyCovers

TypedSeen == seen \in [Events -> Nat]

TypedParts ==
    /\ TypedConfig /\ TypedSet /\ totals \in TotalsCache /\ TypedQueue
    /\ TypedClaims /\ TypedChain /\ TypedToken /\ TypedSeen

(* The parts together are the invariant.                                   *)
LEMMA PartsMakeTypeInv == TypeInv <=> TypedParts
  <1>1. ASSUME TypeInv PROVE TypedParts
    <2>1. TypedQueue /\ TypedChain
      BY <1>1, TypedQueueHolds, TypedChainHolds DEF TypeInv
    <2>2. TypedClaims
      <3>1. WindowIds = 0 .. nextWindowId - 1
        BY <2>1 DEF TypedQueue, TypedWindows, WindowIds
      <3> QED BY <1>1, <3>1 DEF TypeInv, TypeOK, TypedClaims
    <2> QED BY <1>1, <2>1, <2>2 DEF TypeInv, TypeOK, TypedParts, TypedConfig,
            TypedSet, TypedToken, Token, TypedSeen
  <1>2. ASSUME TypedParts PROVE TypeInv
    <2>1. WindowIds = 0 .. nextWindowId - 1
      BY <1>2 DEF TypedParts, TypedQueue, TypedWindows, WindowIds
    <2>2. windows \in [0 .. nextWindowId - 1 -> UnbondWindow(Validators)]
      BY <1>2 DEF TypedParts, TypedQueue, TypedWindows, AWindow
    <2>3. TypeOK
      BY <1>2, <2>1, <2>2 DEF TypeOK, TypedParts, TypedConfig, TypedSet,
         TypedQueue, TypedClaims, TypedChain, TypedToken, Token, TypedSeen
    <2> QED BY <1>2, <2>3 DEF TypeInv, TypedParts, TypedConfig, TypedToken, TypedChain
  <1> QED BY <1>1, <1>2

(* Storing a closing's answer keeps the queue's part.                      *)
LEMMA CommitTyped ==
    ASSUME TypedQueue, NEW r, TypedResult(r), Commit(r), now' = now,
           cursor \in Nat, cursor' = cursor
    PROVE  /\ TypedQueue' /\ TypedSet' /\ totals' \in TotalsCache
           /\ nextWindowId' \in {nextWindowId, nextWindowId + 1}
  BY DEF TypedResult, Commit, TypedQueue, TypedWindows, TypedSet

(* The queue's part when a step leaves the queue alone.                    *)
LEMMA QueueKept ==
    ASSUME TypedQueue, UNCHANGED queueVars, now' \in Nat
    PROVE  TypedQueue' /\ nextWindowId' = nextWindowId
  BY DEF TypedQueue, TypedWindows, queueVars

(* Window ids stay ids as the counter grows.                               *)
LEMMA IdsKept ==
    ASSUME NEW n \in Nat, NEW m \in {n, n + 1}
    PROVE  0 .. n - 1 \subseteq 0 .. m - 1
  OBVIOUS

(* The claims' part when a step leaves the claims alone.                   *)
LEMMA ClaimsKept ==
    ASSUME TypedQueue, TypedClaims, claims' = claims,
           nextWindowId' \in {nextWindowId, nextWindowId + 1}
    PROVE  TypedClaims'
  <1>1. 0 .. nextWindowId - 1 \subseteq 0 .. nextWindowId' - 1
    <2>1. nextWindowId \in Nat
      BY DEF TypedQueue
    <2> QED BY <2>1, IdsKept
  <1> QED BY <1>1 DEF TypedClaims

(* The claims' part when a step rewrites one account's claims.             *)
LEMMA ClaimsOfOne ==
    ASSUME TypedQueue, TypedClaims, NEW u \in Users, NEW c,
           claims' = [claims EXCEPT ![u] = c],
           nextWindowId' \in {nextWindowId, nextWindowId + 1},
           DOMAIN c \in SUBSET (0 .. nextWindowId - 1),
           c \in [DOMAIN c -> ClaimRecord]
    PROVE  TypedClaims'
  <1>1. 0 .. nextWindowId - 1 \subseteq 0 .. nextWindowId' - 1
    <2>1. nextWindowId \in Nat
      BY DEF TypedQueue
    <2> QED BY <2>1, IdsKept
  <1>2. DOMAIN claims' = Users /\ claims'[u] = c
        /\ \A w \in Users \ {u} : claims'[w] = claims[w]
    BY DEF TypedClaims
  <1>3. claims' = [w \in Users |-> claims'[w]]
    BY DEF TypedClaims
  <1> QED BY <1>1, <1>2, <1>3 DEF TypedClaims

(* What the token's figures are.                                           *)
LEMMA TokenFields ==
    ASSUME token \in Token
    PROVE  /\ token.supply \in Nat /\ token.held \in [Users -> Nat]
           /\ SumFunctionOnSet(token.held, Users) \in Nat
  <1>1. token.supply \in Nat /\ token.held \in [Users -> Nat]
    BY DEF Token
  <1> QED BY <1>1, FiniteConstants, SumOfPart

(* A mint keeps the balances covered by the supply.                        *)
LEMMA MintTyped ==
    ASSUME TypedToken, NEW u \in Users, NEW x \in Nat,
           token' = [token EXCEPT !.supply = @ + x, !.held[u] = @ + x]
    PROVE  TypedToken'
  <1>1. /\ token.supply \in Nat /\ token.held \in [Users -> Nat]
        /\ SumFunctionOnSet(token.held, Users) \in Nat
    BY TokenFields DEF TypedToken
  <1> DEFINE h == [token.held EXCEPT ![u] = token.held[u] + x]
  <1>2. token.held[u] \in Nat /\ token.held[u] + x \in Nat /\ token.supply + x \in Nat
    BY <1>1
  <1>3. h \in [Users -> Nat]
    BY <1>1, <1>2
  <1>4. token'.supply = token.supply + x /\ token'.held = h /\ token' \in Token
    BY <1>2, <1>3 DEF TypedToken, Token
  <1>5. SumFunctionOnSet(h, Users)
          = SumFunctionOnSet(token.held, Users) - token.held[u] + (token.held[u] + x)
    BY <1>1, <1>2, FiniteConstants, SumUpdate
  <1> HIDE DEF h
  <1>6. SumFunctionOnSet(token'.held, Users) <= token'.supply
    BY <1>1, <1>2, <1>4, <1>5 DEF TypedToken, SupplyCovers
  <1> QED BY <1>4, <1>6 DEF TypedToken, SupplyCovers

(* So does a burn of no more than the holder has.                          *)
LEMMA BurnTyped ==
    ASSUME TypedToken, NEW u \in Users, NEW x \in Nat, x <= token.held[u],
           token' = [token EXCEPT !.supply = @ - x, !.held[u] = @ - x]
    PROVE  TypedToken'
  <1>1. /\ token.supply \in Nat /\ token.held \in [Users -> Nat]
        /\ SumFunctionOnSet(token.held, Users) \in Nat
    BY TokenFields DEF TypedToken
  <1> DEFINE h == [token.held EXCEPT ![u] = token.held[u] - x]
  <1>2. token.held[u] \in Nat /\ token.held[u] <= token.supply
    <2>1. token.held[u] <= SumFunctionOnSet(token.held, Users)
      BY <1>1, FiniteConstants, SumCovers
    <2> QED BY <1>1, <2>1 DEF TypedToken, SupplyCovers
  <1>3. token.held[u] - x \in Nat /\ token.supply - x \in Nat
    BY <1>1, <1>2
  <1>4. h \in [Users -> Nat]
    BY <1>1, <1>3
  <1>5. token'.supply = token.supply - x /\ token'.held = h /\ token' \in Token
    BY <1>3, <1>4 DEF TypedToken, Token
  <1>6. SumFunctionOnSet(h, Users)
          = SumFunctionOnSet(token.held, Users) - token.held[u] + (token.held[u] - x)
    BY <1>1, <1>3, FiniteConstants, SumUpdate
  <1> HIDE DEF h
  <1>7. SumFunctionOnSet(token'.held, Users) <= token'.supply
    BY <1>1, <1>2, <1>5, <1>6 DEF TypedToken, SupplyCovers
  <1> QED BY <1>5, <1>7 DEF TypedToken, SupplyCovers

(* Counting an event.                                                      *)
LEMMA CountTyped ==
    ASSUME TypedSeen, NEW event \in Events, Count(event)
    PROVE  TypedSeen'
  BY DEF TypedSeen, Count

-----------------------------------------------------------------------------
(* The state after instantiation satisfies the invariant.                  *)
LEMMA TypeInvInit == Init => TypeInv
  <1> SUFFICES ASSUME Init PROVE TypedParts
    BY PartsMakeTypeInv
  <1>1. TypedConfig
    BY ParametersNat, ParamsAreValid, LimitsAreValid
       DEF Init, TypedConfig, Config, FeesBounded
  <1>2. TypedSet
    BY InitialSetTyped, ConstantsAreTyped DEF Init, TypedSet
  <1>3. now = 0 /\ totals \in TotalsCache
    BY DEF Init, TotalsCache
  <1>4. TypedQueue
    <2>1. WindowOpen(0, WindowLength) \in AWindow
      BY ParametersNat, FreshWindowTyped
    <2>2. windows \in [0 .. 0 -> AWindow] /\ nextWindowId = 1
      BY <1>3, <2>1 DEF Init
    <2> QED BY <1>3, <2>2 DEF Init, TypedQueue, TypedWindows
  <1>5. TypedClaims
    BY DEF Init, TypedClaims
  <1>6. TypedChain
    BY <1>3, FS_EmptySet DEF Init, TypedChain
  <1>7. TypedToken
    <2>1. token.supply = 0 /\ token.held = [u \in Users |-> 0] /\ token \in Token
      BY DEF Init, Token
    <2>2. SumFunctionOnSet(token.held, Users) = 0
      <3> DEFINE z == [u \in Users |-> 0]
      <3>1. \A x \in Users : z[x] = 0
        OBVIOUS
      <3> HIDE DEF z
      <3>2. SumFunctionOnSet(z, Users) = 0
        BY <3>1, FiniteConstants, SumZero
      <3> QED BY <2>1, <3>2 DEF z
    <2> QED BY <2>1, <2>2 DEF TypedToken, SupplyCovers
  <1>8. TypedSeen
    BY DEF Init, TypedSeen
  <1> QED BY <1>1, <1>2, <1>3, <1>4, <1>5, <1>6, <1>7, <1>8 DEF TypedParts

-----------------------------------------------------------------------------
(* What the handlers read before they act.                                 *)
LEMMA ReadPageTyped ==
    ASSUME TypedSet, TypedChain, NEW page
    PROVE  /\ ReadPage(page) \in Seq(ValidatorEntry)
           /\ DOMAIN ReadPage(page) = DOMAIN validators
  <1>1. ASSUME NEW e \in ValidatorEntry PROVE ReadDelegation(e) \in ValidatorEntry
    <2>1. delegated[e.address] \in Nat /\ accrued[e.address] \in Nat
      BY EntryFields DEF TypedChain
    <2> QED BY <2>1, EntryChanged DEF ReadDelegation
  <1>2. \A i \in DOMAIN validators : ReadPage(page)[i] \in ValidatorEntry
    BY <1>1, SetDomain DEF TypedSet, ReadPage
  <1>3. /\ DOMAIN ReadPage(page) = DOMAIN validators
        /\ ReadPage(page) = [i \in DOMAIN validators |-> ReadPage(page)[i]]
    BY DEF ReadPage
  <1> QED BY <1>2, <1>3, Rewritten DEF TypedSet

(* refresh_totals yields well-typed state.                                 *)
LEMMA RefreshTyped ==
    ASSUME TypedParts
    PROVE  RefreshedSet \in Seq(ValidatorEntry) /\ RefreshedTotals \in TotalsCache
  <1>1. RefreshedSet \in Seq(ValidatorEntry)
    BY ReadPageTyped DEF RefreshedSet, TypedParts
  <1>2. TotalBonded(RefreshedSet) \in Nat /\ TotalPending(RefreshedSet) \in Nat
    BY <1>1, StakesNat
  <1>3. MirroredSupply \in Nat /\ now \in Nat
    BY TokenFields, TotalsFields DEF MirroredSupply, TypedParts, TypedToken, TypedQueue
  <1> QED BY <1>1, <1>2, <1>3 DEF RefreshedTotals, TypedParts, TotalsCache

(* The pool that prices are taken from is well typed.                      *)
LEMMA PoolTyped ==
    ASSUME NEW t \in TotalsCache, NEW held \in Nat, NEW exclude \in Nat
    PROVE  PoolOf(t, held, exclude) \in PoolTotals
  <1>1. SatSub(held, exclude) \in Nat
    BY SatSubNat
  <1> QED BY <1>1, TotalsFields DEF PoolOf, PoolTotals

(* Booking stake at one entry keeps the set one.                           *)
LEMMA StakeAdded ==
    ASSUME NEW set \in Seq(ValidatorEntry), NEW i, NEW amount \in Nat
    PROVE  [set EXCEPT ![i].bonded = @ + amount] \in Seq(ValidatorEntry)
  <1> DEFINE g == [set EXCEPT ![i].bonded = @ + amount]
  <1>1. ASSUME NEW j \in DOMAIN set PROVE g[j] \in ValidatorEntry
    <2>1. set[j] \in ValidatorEntry
      BY SetDomain
    <2>2. set[j].bonded \in Nat
      BY <2>1, EntryFields
    <2>3. set[j].bonded + amount \in Nat
      BY <2>2
    <2>4. [set[j] EXCEPT !.bonded = set[j].bonded + amount] \in ValidatorEntry
      BY <2>1, <2>3, EntryChanged
    <2> QED BY <2>1, <2>4
  <1>2. DOMAIN g = DOMAIN set /\ g = [j \in DOMAIN set |-> g[j]]
    OBVIOUS
  <1> HIDE DEF g
  <1>3. g \in Seq(ValidatorEntry)
    BY <1>1, <1>2, Rewritten
  <1> QED BY <1>3 DEF g

(* So does adding to one account of a ledger.                              *)
LEMMA LedgerAdded ==
    ASSUME NEW S, NEW f \in [S -> Nat], NEW e, NEW x \in Nat
    PROVE  [f EXCEPT ![e] = @ + x] \in [S -> Nat]
  <1>1. \A y \in S : f[y] \in Nat /\ f[y] + x \in Nat
    OBVIOUS
  <1> QED BY <1>1

(* What the environment chooses from is well typed.                        *)
LEMMA InputsNat ==
    /\ Seeds \subseteq Nat /\ Deposits \subseteq Nat /\ Requests \subseteq Nat
    /\ Rewards \subseteq Nat /\ FeeChoices \subseteq Nat
    /\ PageLimits \subseteq Nat \ {0} /\ CollectLimits \subseteq Nat \ {0}
    /\ WeightChoices \subseteq Seq(ValidatorInit)
  BY ConstantsAreTyped

-----------------------------------------------------------------------------
(* One lemma for each action.                                              *)
LEMMA TypedBootstrap ==
    ASSUME TypedParts, NEW seed \in Seeds, Bootstrap(seed)
    PROVE  TypedParts'
  <1> DEFINE i == SelectForDelegation(validators, seed)
  <1>1. seed \in Nat
    BY InputsNat
  <1>2. TypedConfig'
    BY DEF TypedParts, TypedConfig, Config, FeesBounded, Bootstrap
  <1>3. TypedSet'
    <2>1. validators' = [validators EXCEPT ![i].bonded = @ + seed] /\ cursor' = cursor
      BY DEF Bootstrap
    <2> QED BY <1>1, <2>1, StakeAdded DEF TypedParts, TypedSet
  <1>4. totals' \in TotalsCache
    <2>1. totals.bonded + seed \in Nat /\ totals.supply + seed \in Nat /\ now \in Nat
      BY <1>1, TotalsFields DEF TypedParts, TypedQueue
    <2> QED BY <2>1 DEF TypedParts, Bootstrap, TotalsCache
  <1>5. TypedQueue' /\ nextWindowId' = nextWindowId
    BY QueueKept DEF TypedParts, Bootstrap, TypedQueue
  <1>6. TypedClaims'
    BY <1>5, ClaimsKept DEF TypedParts, Bootstrap
  <1>7. TypedChain'
    <2>1. delegated' \in [Validators -> Nat]
      BY <1>1, LedgerAdded DEF TypedParts, TypedChain, Bootstrap
    <2> QED BY <2>1 DEF TypedParts, TypedChain, Bootstrap
  <1>8. TypedToken'
    <2>1. token' = [token EXCEPT !.supply = @ + seed]
      BY DEF Bootstrap
    <2>2. token.supply \in Nat /\ SumFunctionOnSet(token.held, Users) \in Nat
      BY TokenFields DEF TypedParts, TypedToken
    <2>3. token' \in Token /\ token'.held = token.held
          /\ token'.supply = token.supply + seed
      BY <1>1, <2>1, <2>2 DEF TypedParts, TypedToken, Token
    <2>4. SumFunctionOnSet(token'.held, Users) <= token'.supply
      BY <1>1, <2>2, <2>3 DEF TypedParts, TypedToken, SupplyCovers
    <2> QED BY <2>3, <2>4 DEF TypedToken, SupplyCovers
  <1>9. TypedSeen'
    BY DEF TypedParts, TypedSeen, Bootstrap
  <1> QED BY <1>2, <1>3, <1>4, <1>5, <1>6, <1>7, <1>8, <1>9 DEF TypedParts

(* Deposit keeps the invariant.                                            *)
LEMMA TypedDeposit ==
    ASSUME TypedParts, NEW u \in Users, NEW amount \in Deposits, Deposit(u, amount)
    PROVE  TypedParts'
  <1> DEFINE i      == SelectForDelegation(RefreshedSet, amount)
             shares == SharesForDeposit(amount, DepositPool(amount))
             set    == [RefreshedSet EXCEPT ![i].bonded = @ + amount]
             t      == [RefreshedTotals EXCEPT !.bonded = @ + amount,
                                               !.supply = @ + shares]
             r      == DepositPlaced(amount)
  <1>1. amount \in Nat
    BY InputsNat
  <1>2. RefreshedSet \in Seq(ValidatorEntry) /\ RefreshedTotals \in TotalsCache
    BY RefreshTyped
  <1>3. shares \in Nat
    <2>1. balance + amount \in Nat
      BY <1>1 DEF TypedParts, TypedChain
    <2>2. DepositPool(amount) \in PoolTotals
      BY <1>1, <1>2, <2>1, PoolTyped DEF DepositPool
    <2> QED BY <1>1, <2>2, SharesForDepositNat
  <1>4. set \in Seq(ValidatorEntry)
    BY <1>1, <1>2, StakeAdded
  <1>5. t \in TotalsCache
    <2>1. RefreshedTotals.bonded \in Nat /\ RefreshedTotals.supply \in Nat
      BY <1>2, TotalsFields
    <2>2. /\ RefreshedTotals.bonded + amount \in Nat
          /\ RefreshedTotals.supply + shares \in Nat
      BY <1>1, <1>3, <2>1
    <2> HIDE DEF shares
    <2> QED BY <1>2, <2>2 DEF TotalsCache
  <1>6. r = CloseWindowIfOverdue(set, t, windows)
    BY DEF DepositPlaced
  <1>7. TypedResult(r)
    <2> HIDE DEF set, t, r
    <2> QED BY <1>4, <1>5, <1>6, RidingAlongTyped DEF TypedParts, TypedQueue
  <1>8. DepositTarget(amount) \in Validators
    <2>1. AcceptsStake(RefreshedSet) # {}
      BY DEF Deposit, DepositAccepted
    <2>2. i \in DOMAIN RefreshedSet
      BY <1>1, <1>2, <2>1, SelectsActive DEF AcceptsStake
    <2>3. RefreshedSet[i] \in ValidatorEntry
      BY <1>2, <2>2, SetDomain
    <2> QED BY <2>3, EntryFields DEF DepositTarget
  <1>9. DepositStaked(amount) \in [Validators -> Nat]
    BY <1>1, LedgerAdded DEF DepositStaked, TypedParts, TypedChain
  <1> HIDE DEF r, set, t, shares, i
  <1>10. Commit(r) /\ Undelegated(r, DepositStaked(amount)) /\ cursor' = cursor
         /\ RewardsPaidAt(LeftBy(r) \cup {DepositTarget(amount)}) /\ now' = now
         /\ token' = [token EXCEPT !.supply = @ + shares, !.held[u] = @ + shares]
         /\ config' = config /\ claims' = claims /\ Count("deposits")
    BY DEF Deposit, r, shares
  <1>11. /\ TypedQueue' /\ TypedSet' /\ totals' \in TotalsCache
         /\ nextWindowId' \in {nextWindowId, nextWindowId + 1}
    BY <1>7, <1>10, CommitTyped DEF TypedParts, TypedSet
  <1>12. TypedClaims'
    BY <1>10, <1>11, ClaimsKept DEF TypedParts
  <1>13. TypedChain'
    <2>1. LeftBy(r) \cup {DepositTarget(amount)} \in SUBSET Validators
      BY <1>8 DEF LeftBy
    <2>2. accrued' \in [Validators -> Nat] /\ balance' \in Nat
      BY <1>10, <2>1, RewardsPaidTyped DEF TypedParts
    <2>3. /\ delegated' \in [Validators -> Nat]
          /\ unbonding' \in SUBSET UnbondingEntry /\ IsFiniteSet(unbonding')
      BY <1>7, <1>9, <1>10, UndelegatedTyped DEF TypedParts
    <2> QED BY <1>10, <2>2, <2>3 DEF TypedParts, TypedChain
  <1>14. TypedToken'
    BY <1>3, <1>10, MintTyped DEF TypedParts
  <1>15. TypedSeen' /\ TypedConfig'
    <2>1. "deposits" \in Events
      BY DEF Events
    <2> QED BY <1>10, <2>1, CountTyped DEF TypedParts, TypedConfig, FeesBounded
  <1> QED BY <1>11, <1>12, <1>13, <1>14, <1>15 DEF TypedParts

(* record_claim yields a well-typed record.                                *)
LEMMA RecordClaimTyped ==
    ASSUME TypedParts, NEW u \in Users, NEW shares \in Nat, NEW owed \in Nat
    PROVE  LET c == RecordClaim(u, openWindow, shares, owed)
           IN  /\ DOMAIN c \in SUBSET (0 .. nextWindowId - 1)
               /\ c \in [DOMAIN c -> ClaimRecord]
  <1> DEFINE c == RecordClaim(u, openWindow, shares, owed)
  <1>1. /\ DOMAIN c = DOMAIN claims[u] \cup {openWindow}
        /\ c = [i \in DOMAIN c |-> c[i]]
    BY DEF RecordClaim
  <1>2. DOMAIN claims[u] \in SUBSET (0 .. nextWindowId - 1)
        /\ \A id \in DOMAIN claims[u] : claims[u][id] \in ClaimRecord
    BY DEF TypedParts, TypedClaims
  <1>3. ASSUME NEW i \in DOMAIN c PROVE c[i] \in ClaimRecord
    <2>1. CASE i # openWindow
      BY <1>1, <1>2, <2>1 DEF RecordClaim
    <2>2. CASE i = openWindow /\ openWindow \in DOMAIN claims[u]
      <3>1. claims[u][openWindow] \in ClaimRecord
        BY <1>2, <2>2
      <3>2. /\ claims[u][openWindow].shares + shares \in Nat
            /\ claims[u][openWindow].owed + owed \in Nat
        BY <3>1 DEF ClaimRecord
      <3>3. c[i] = [claims[u][openWindow] EXCEPT !.shares = @ + shares,
                                                 !.owed = @ + owed]
        BY <2>2 DEF RecordClaim
      <3> QED BY <3>1, <3>2, <3>3 DEF ClaimRecord
    <2>3. CASE i = openWindow /\ openWindow \notin DOMAIN claims[u]
      BY <2>3 DEF RecordClaim, ClaimRecord
    <2> QED BY <2>1, <2>2, <2>3
  <1>4. openWindow \in 0 .. nextWindowId - 1
    BY DEF TypedParts, TypedQueue
  <1> HIDE DEF c
  <1>5. DOMAIN c \in SUBSET (0 .. nextWindowId - 1) /\ c \in [DOMAIN c -> ClaimRecord]
    BY <1>1, <1>2, <1>3, <1>4
  <1> QED BY <1>5 DEF c

(* Unbond, the withdrawal request, keeps the invariant.                    *)
LEMMA TypedUnbond ==
    ASSUME TypedParts, NEW u \in Users, NEW shares \in Requests, Unbond(u, shares)
    PROVE  TypedParts'
  <1> DEFINE owed == AssetsForShares(shares, RequestPool)
             t    == [RefreshedTotals EXCEPT !.supply = SatSub(@, shares),
                                             !.owedOpen = @ + owed]
             ws   == [windows EXCEPT ![openWindow].shares = @ + shares,
                                     ![openWindow].owed = @ + owed]
             r    == RequestPlaced(shares)
  <1>1. shares \in Nat
    BY InputsNat
  <1>2. RefreshedSet \in Seq(ValidatorEntry) /\ RefreshedTotals \in TotalsCache
    BY RefreshTyped
  <1>3. owed \in Nat
    <2>1. RequestPool \in PoolTotals
      BY <1>2, PoolTyped DEF RequestPool, TypedParts, TypedChain
    <2> QED BY <1>1, <2>1, AssetsForSharesNat
  <1> HIDE DEF owed
  <1>4. t \in TotalsCache
    <2>1. RefreshedTotals.supply \in Nat /\ RefreshedTotals.owedOpen \in Nat
      BY <1>2, TotalsFields
    <2>2. SatSub(RefreshedTotals.supply, shares) \in Nat
      BY <1>1, <2>1, SatSubNat
    <2>3. RefreshedTotals.owedOpen + owed \in Nat
      BY <1>3, <2>1
    <2> QED BY <1>2, <2>2, <2>3 DEF TotalsCache
  <1>5. TypedWindows(ws, nextWindowId)
    <2>1. windows \in [0 .. nextWindowId - 1 -> AWindow]
          /\ openWindow \in 0 .. nextWindowId - 1
      BY DEF TypedParts, TypedQueue, TypedWindows
    <2>2. [windows[openWindow] EXCEPT !.shares = @ + shares, !.owed = @ + owed]
            \in AWindow
      BY <1>1, <1>3, <2>1, JoinedWindowTyped
    <2>3. ws = [windows EXCEPT ![openWindow] =
             [windows[openWindow] EXCEPT !.shares = @ + shares, !.owed = @ + owed]]
      BY <2>1
    <2> QED BY <2>1, <2>2, <2>3 DEF TypedWindows
  <1>6. r = CloseWindowIfOverdue(RefreshedSet, t, ws)
    BY DEF RequestPlaced, owed
  <1>7. TypedResult(r)
    <2> HIDE DEF t, ws, r
    <2> QED BY <1>2, <1>4, <1>5, <1>6, RidingAlongTyped DEF TypedParts
  <1> HIDE DEF t, ws, r
  <1>8. /\ Commit(r) /\ Undelegated(r, delegated) /\ cursor' = cursor
        /\ RewardsPaidAt(LeftBy(r)) /\ now' = now /\ config' = config
        /\ claims' = [claims EXCEPT ![u] = RecordClaim(u, openWindow, shares, owed)]
        /\ shares <= token.held[u] /\ Count("requests")
        /\ token' = [token EXCEPT !.supply = @ - shares, !.held[u] = @ - shares]
    BY DEF Unbond, r, owed
  <1>9. /\ TypedQueue' /\ TypedSet' /\ totals' \in TotalsCache
        /\ nextWindowId' \in {nextWindowId, nextWindowId + 1}
    BY <1>7, <1>8, CommitTyped DEF TypedParts, TypedSet
  <1>10. TypedClaims'
    BY <1>1, <1>3, <1>8, <1>9, RecordClaimTyped, ClaimsOfOne DEF TypedParts
  <1>11. TypedChain'
    <2>1. LeftBy(r) \in SUBSET Validators
      BY DEF LeftBy
    <2>2. accrued' \in [Validators -> Nat] /\ balance' \in Nat
      BY <1>8, <2>1, RewardsPaidTyped DEF TypedParts
    <2>3. /\ delegated' \in [Validators -> Nat]
          /\ unbonding' \in SUBSET UnbondingEntry /\ IsFiniteSet(unbonding')
      BY <1>7, <1>8, UndelegatedTyped DEF TypedParts, TypedChain
    <2> QED BY <1>8, <2>2, <2>3 DEF TypedParts, TypedChain
  <1>12. TypedToken'
    BY <1>1, <1>8, BurnTyped DEF TypedParts
  <1>13. TypedSeen' /\ TypedConfig'
    <2>1. "requests" \in Events
      BY DEF Events
    <2> QED BY <1>8, <2>1, CountTyped DEF TypedParts, TypedConfig, FeesBounded
  <1> QED BY <1>9, <1>10, <1>11, <1>12, <1>13 DEF TypedParts

(* AdvanceWindow keeps the invariant.                                      *)
LEMMA TypedAdvanceWindow ==
    ASSUME TypedParts, AdvanceWindow
    PROVE  TypedParts'
  <1> DEFINE r == CloseOpenWindow(validators, totals, windows)
  <1>1. TypedResult(r)
    BY ClosingTyped DEF TypedParts, TypedSet, TypedQueue
  <1> HIDE DEF r
  <1>2. /\ Commit(r) /\ Undelegated(r, delegated) /\ cursor' = cursor
        /\ RewardsPaidAt(LeftBy(r)) /\ now' = now /\ config' = config
        /\ claims' = claims /\ token' = token /\ seen' = seen
    BY DEF AdvanceWindow, r
  <1>3. /\ TypedQueue' /\ TypedSet' /\ totals' \in TotalsCache
        /\ nextWindowId' \in {nextWindowId, nextWindowId + 1}
    BY <1>1, <1>2, CommitTyped DEF TypedParts, TypedSet
  <1>4. TypedClaims'
    BY <1>2, <1>3, ClaimsKept DEF TypedParts
  <1>5. TypedChain'
    <2>1. LeftBy(r) \in SUBSET Validators
      BY DEF LeftBy
    <2>2. accrued' \in [Validators -> Nat] /\ balance' \in Nat
      BY <1>2, <2>1, RewardsPaidTyped DEF TypedParts
    <2>3. /\ delegated' \in [Validators -> Nat]
          /\ unbonding' \in SUBSET UnbondingEntry /\ IsFiniteSet(unbonding')
      BY <1>1, <1>2, UndelegatedTyped DEF TypedParts, TypedChain
    <2> QED BY <1>2, <2>2, <2>3 DEF TypedParts, TypedChain
  <1> QED BY <1>2, <1>3, <1>4, <1>5 DEF TypedParts, TypedConfig, FeesBounded,
          TypedToken, SupplyCovers, TypedSeen

-----------------------------------------------------------------------------
(* Maturity.                                                               *)
LEMMA WindowsTyped ==
    ASSUME TypedQueue
    PROVE  /\ WindowIds = 0 .. nextWindowId - 1 /\ IsFiniteSet(WindowIds)
           /\ \A id \in WindowIds : windows[id] \in AWindow
           /\ active \subseteq WindowIds /\ DueWindows \subseteq WindowIds
  <1>1. WindowIds = 0 .. nextWindowId - 1 /\ nextWindowId - 1 \in Int
    BY DEF TypedQueue, TypedWindows, WindowIds
  <1>2. IsFiniteSet(0 .. nextWindowId - 1)
    BY <1>1, FS_Interval
  <1> QED BY <1>1, <1>2 DEF TypedQueue, TypedWindows, DueWindows

(* What a set of windows owes is an amount.                                *)
LEMMA OwedNat ==
    ASSUME TypedQueue, NEW ids \in SUBSET WindowIds
    PROVE  OwedOf(ids) \in Nat
  <1>1. IsFiniteSet(WindowIds) /\ \A id \in WindowIds : windows[id].owed \in Nat
    BY WindowsTyped, WindowFields
  <1>2. [id \in WindowIds |-> windows[id].owed] \in [WindowIds -> Nat]
    BY <1>1
  <1> QED BY <1>1, <1>2, SumOfPart DEF OwedOf

(* What a set of windows still has to pay is an amount.                    *)
LEMMA OutstandingNat ==
    ASSUME TypedQueue, NEW ws \in [WindowIds -> AWindow], NEW ids \in SUBSET WindowIds
    PROVE  OutstandingOf(ws, ids) \in Nat
  <1>1. IsFiniteSet(WindowIds) /\ \A id \in WindowIds : Outstanding(ws[id]) \in Nat
    BY WindowsTyped, WindowFields
  <1>2. DOMAIN ws = WindowIds
        /\ [id \in WindowIds |-> Outstanding(ws[id])] \in [WindowIds -> Nat]
    BY <1>1
  <1> QED BY <1>1, <1>2, SumOfPart DEF OutstandingOf

(* The windows after mature_due_windows are well typed.                    *)
LEMMA MaturedTyped ==
    ASSUME TypedQueue, balance \in Nat, NEW ids \in SUBSET WindowIds
    PROVE  MaturedWindows(ids) \in [WindowIds -> AWindow]
  <1>1. SpokenFor \in Nat
    <2>1. {id \in active : windows[id].state = "Matured"} \in SUBSET WindowIds
      BY WindowsTyped
    <2>2. windows \in [WindowIds -> AWindow]
      BY WindowsTyped DEF TypedQueue, TypedWindows
    <2> QED BY <2>1, <2>2, OutstandingNat DEF SpokenFor
  <1>2. ASSUME NEW id \in WindowIds PROVE Available(ids, id) \in Nat
    <2>1. OwedOf({k \in ids : k < id}) \in Nat
      BY OwedNat
    <2>2. SatSub(balance, SpokenFor) \in Nat
      BY <1>1, SatSubNat
    <2> QED BY <2>1, <2>2, SatSubNat DEF Available
  <1>3. \A id \in WindowIds : windows[id] \in AWindow
    BY WindowsTyped
  <1> QED BY <1>2, <1>3, MaturedWindowTyped DEF MaturedWindows

(* So is the validator set with its slots released.                        *)
LEMMA ReleasedTyped ==
    ASSUME TypedSet, TypedQueue, NEW ids \in SUBSET WindowIds
    PROVE  Released(ids) \in Seq(ValidatorEntry)
  <1> DEFINE n(i) ==
        Cardinality({id \in ids : validators[i].address \in windows[id].used})
  <1>1. ASSUME NEW i \in DOMAIN validators PROVE Released(ids)[i] \in ValidatorEntry
    <2>1. validators[i] \in ValidatorEntry
      BY SetDomain DEF TypedSet
    <2>2. n(i) \in Nat
      <3>1. {id \in ids : validators[i].address \in windows[id].used}
              \in SUBSET WindowIds
        OBVIOUS
      <3> QED BY <3>1, WindowsTyped, FS_Subset, FS_CardinalityType
    <2>3. Released(ids)[i] = [validators[i] EXCEPT !.entries = SatSub(@, n(i))]
      BY DEF Released
    <2> HIDE DEF n
    <2> QED BY <2>1, <2>2, <2>3, EntryReduced
  <1>2. /\ DOMAIN Released(ids) = DOMAIN validators
        /\ Released(ids) = [i \in DOMAIN validators |-> Released(ids)[i]]
    BY DEF Released
  <1> QED BY <1>1, <1>2, Rewritten DEF TypedSet

(* So is the pricing cache.                                                *)
LEMMA ArrivedTyped ==
    ASSUME TypedQueue, totals \in TotalsCache, balance \in Nat,
           NEW ids \in SUBSET WindowIds
    PROVE  LiabilityArrived(ids) \in TotalsCache
  <1>1. totals.owedUnbonding \in Nat /\ totals.owedMatured \in Nat
    BY TotalsFields
  <1>2. OwedOf(ids) \in Nat /\ OutstandingOf(MaturedWindows(ids), ids) \in Nat
    BY OwedNat, MaturedTyped, OutstandingNat
  <1>3. SatSub(totals.owedUnbonding, OwedOf(ids)) \in Nat
    BY <1>1, <1>2, SatSubNat
  <1>4. totals.owedMatured + OutstandingOf(MaturedWindows(ids), ids) \in Nat
    BY <1>1, <1>2
  <1> QED BY <1>3, <1>4 DEF LiabilityArrived, TotalsCache

(* CollectMatured keeps the invariant.                                     *)
LEMMA TypedCollectMatured ==
    ASSUME TypedParts, NEW limit \in CollectLimits, CollectMatured(limit)
    PROVE  TypedParts'
  <1> DEFINE ids == Collected(limit)
  <1>1. TypedQueue /\ TypedSet /\ totals \in TotalsCache /\ balance \in Nat
    BY DEF TypedParts, TypedChain
  <1>2. ids \in SUBSET WindowIds
    BY <1>1, WindowsTyped DEF Collected
  <1>3. /\ MaturedWindows(ids) \in [WindowIds -> AWindow]
        /\ Released(ids) \in Seq(ValidatorEntry)
        /\ LiabilityArrived(ids) \in TotalsCache
    BY <1>1, <1>2, MaturedTyped, ReleasedTyped, ArrivedTyped
  <1> HIDE DEF ids
  <1>4. /\ validators' = Released(ids) /\ totals' = LiabilityArrived(ids)
        /\ windows' = MaturedWindows(ids)
        /\ UNCHANGED <<config, cursor, openWindow, nextWindowId, active, claims,
                       chainVars>>
    BY DEF CollectMatured, ids
  <1>5. TypedQueue'
    BY <1>1, <1>3, <1>4, WindowsTyped DEF TypedQueue, TypedWindows, chainVars
  <1>6. TypedClaims'
    BY <1>1, <1>4, ClaimsKept DEF TypedParts
  <1>7. TypedChain' /\ TypedToken' /\ TypedSeen' /\ TypedConfig'
    BY <1>4 DEF TypedParts, TypedChain, TypedToken, SupplyCovers, TypedSeen,
                TypedConfig, FeesBounded, chainVars
  <1>8. TypedSet'
    BY <1>1, <1>3, <1>4 DEF TypedSet
  <1> QED BY <1>3, <1>4, <1>5, <1>6, <1>7, <1>8 DEF TypedParts

-----------------------------------------------------------------------------
(* Claims.                                                                 *)
LEMMA PaymentTyped ==
    ASSUME TypedParts, NEW u \in Users, NEW ids
    PROVE  /\ PaidTo(u, ids) \in Nat
           /\ WindowsAfterClaim(u, ids) \in [WindowIds -> AWindow]
  <1>1. TypedQueue /\ balance \in Nat
    BY DEF TypedParts, TypedChain
  <1>2. WindowsAtClaim \in [WindowIds -> AWindow]
    BY <1>1, WindowsTyped, MaturedTyped DEF WindowsAtClaim
  <1>3. /\ DOMAIN claims[u] \in SUBSET WindowIds
        /\ \A id \in DOMAIN claims[u] : claims[u][id].owed \in Nat
    <2>1. DOMAIN claims[u] \in SUBSET WindowIds
      BY <1>1, WindowsTyped DEF TypedParts, TypedClaims
    <2>2. \A id \in DOMAIN claims[u] : claims[u][id] \in ClaimRecord
      BY DEF TypedParts, TypedClaims
    <2> QED BY <2>1, <2>2 DEF ClaimRecord
  <1>4. \A id \in DOMAIN claims[u] : PayoutAt(u, id) \in Nat
    BY <1>2, <1>3, PayoutNat DEF PayoutAt
  <1>5. Paying(u, ids) \in SUBSET DOMAIN claims[u]
    BY DEF Paying, Unpaid
  <1>6. PaidTo(u, ids) \in Nat
    <2>1. IsFiniteSet(DOMAIN claims[u])
      BY <1>1, <1>3, WindowsTyped, FS_Subset
    <2>2. [id \in DOMAIN claims[u] |-> PayoutAt(u, id)] \in [DOMAIN claims[u] -> Nat]
      BY <1>4
    <2> QED BY <1>5, <2>1, <2>2, SumOfPart DEF PaidTo
  <1>7. \A id \in Paying(u, ids) :
          PaidWindow(WindowsAtClaim[id], PayoutAt(u, id)) \in AWindow
    BY <1>2, <1>3, <1>4, <1>5, PaidWindowTyped
  <1> QED BY <1>2, <1>6, <1>7 DEF WindowsAfterClaim

(* ClaimMatured keeps the invariant.                                       *)
LEMMA TypedClaimMatured ==
    ASSUME TypedParts, NEW u \in Users, NEW list, ClaimMatured(u, list)
    PROVE  TypedParts'
  <1> DEFINE ids == ClaimIds(u, list)
             paid == PaidTo(u, ids)
  <1>1. TypedQueue /\ TypedSet /\ totals \in TotalsCache /\ balance \in Nat
    BY DEF TypedParts, TypedChain
  <1>2. paid \in Nat /\ WindowsAfterClaim(u, ids) \in [WindowIds -> AWindow]
    BY PaymentTyped
  <1>3. /\ Released(DueWindows) \in Seq(ValidatorEntry)
        /\ LiabilityArrived(DueWindows) \in TotalsCache
    BY <1>1, WindowsTyped, ReleasedTyped, ArrivedTyped
  <1> HIDE DEF ids, paid
  <1>4. /\ paid <= balance /\ validators' = Released(DueWindows)
        /\ totals' = [LiabilityArrived(DueWindows) EXCEPT
                        !.owedMatured = SatSub(@, paid)]
        /\ windows' = WindowsAfterClaim(u, ids) /\ active' = StillActive(u, ids)
        /\ claims' = [claims EXCEPT ![u] = ClaimsAfter(u, ids)]
        /\ balance' = balance - paid
        /\ UNCHANGED <<config, cursor, openWindow, nextWindowId, now,
                       stakingVars, token, seen>>
    BY DEF ClaimMatured, ids, paid
  <1>5. totals' \in TotalsCache
    <2>1. LiabilityArrived(DueWindows).owedMatured \in Nat
      BY <1>3, TotalsFields
    <2>2. SatSub(LiabilityArrived(DueWindows).owedMatured, paid) \in Nat
      BY <1>2, <2>1, SatSubNat
    <2> QED BY <1>3, <1>4, <2>2 DEF TotalsCache
  <1>6. TypedQueue'
    <2>1. active' \in SUBSET (0 .. nextWindowId - 1)
      BY <1>1, <1>4 DEF StillActive, TypedQueue
    <2> QED BY <1>1, <1>2, <1>4, <2>1, WindowsTyped DEF TypedQueue, TypedWindows
  <1>7. TypedClaims'
    <2> DEFINE c == ClaimsAfter(u, ids)
    <2>1. DOMAIN c = DOMAIN claims[u] /\ c = [id \in DOMAIN claims[u] |-> c[id]]
      BY DEF ClaimsAfter
    <2>2. /\ DOMAIN claims[u] \in SUBSET (0 .. nextWindowId - 1)
          /\ \A id \in DOMAIN claims[u] : claims[u][id] \in ClaimRecord
      BY DEF TypedParts, TypedClaims
    <2>3. ASSUME NEW id \in DOMAIN claims[u] PROVE c[id] \in ClaimRecord
      <3>1. claims[u][id] \in ClaimRecord
        BY <2>2
      <3>2. [claims[u][id] EXCEPT !.claimed = TRUE] \in ClaimRecord
        BY <3>1 DEF ClaimRecord
      <3> QED BY <3>1, <3>2 DEF ClaimsAfter
    <2> HIDE DEF c
    <2>4. c \in [DOMAIN c -> ClaimRecord] /\ DOMAIN c \in SUBSET (0 .. nextWindowId - 1)
      BY <2>1, <2>2, <2>3
    <2>5. claims' = [claims EXCEPT ![u] = c]
      BY <1>4 DEF c
    <2> QED BY <1>1, <1>4, <2>4, <2>5, ClaimsOfOne DEF TypedParts
  <1>8. TypedChain'
    <2>1. balance' \in Nat
      BY <1>1, <1>2, <1>4
    <2> QED BY <1>4, <2>1 DEF TypedParts, TypedChain, stakingVars
  <1>9. TypedSet'
    BY <1>1, <1>3, <1>4 DEF TypedSet
  <1>10. TypedToken' /\ TypedSeen' /\ TypedConfig'
    BY <1>4 DEF TypedParts, TypedToken, SupplyCovers, TypedSeen, TypedConfig, FeesBounded
  <1> QED BY <1>5, <1>6, <1>7, <1>8, <1>9, <1>10 DEF TypedParts

-----------------------------------------------------------------------------
(* Upkeep.                                                                 *)
LEMMA PagesInside ==
    ASSUME TypedSet, NEW limit \in PageLimits
    PROVE  /\ PageEnd(limit) \in Nat /\ NextCursor(limit) \in Nat
           /\ Page(limit) \subseteq DOMAIN validators
           /\ OnPage(limit) \in SUBSET Validators
  <1>1. /\ limit \in Nat /\ cursor \in Nat /\ Len(validators) \in Nat
        /\ DOMAIN validators = 1 .. Len(validators)
    BY InputsNat, SetDomain DEF TypedSet
  <1>2. PageEnd(limit) \in Nat /\ PageEnd(limit) <= Len(validators)
    BY <1>1 DEF PageEnd, Min2
  <1>3. Page(limit) \subseteq DOMAIN validators
    BY <1>1, <1>2 DEF Page
  <1>4. \A i \in DOMAIN validators : validators[i].address \in Validators
    BY SetDomain, EntryFields DEF TypedSet
  <1>5. OnPage(limit) \in SUBSET Validators
    BY <1>3, <1>4 DEF OnPage
  <1> QED BY <1>2, <1>3, <1>5 DEF NextCursor

(* Sync keeps the invariant.                                               *)
LEMMA TypedSync ==
    ASSUME TypedParts, NEW limit \in PageLimits, Sync(limit)
    PROVE  TypedParts'
  <1> DEFINE set == ReadPage(Page(limit))
  <1>1. set \in Seq(ValidatorEntry)
    BY ReadPageTyped DEF TypedParts
  <1>2. TotalBonded(set) \in Nat /\ TotalPending(set) \in Nat
    BY <1>1, StakesNat
  <1> HIDE DEF set
  <1>3. /\ validators' = set /\ cursor' = NextCursor(limit)
        /\ totals' = [totals EXCEPT
                !.bonded = TotalBonded(set),
                !.pending = TotalPending(set),
                !.supply = IF SweepDone(limit) THEN MirroredSupply ELSE @,
                !.lastSync = IF SweepDone(limit) THEN now ELSE @]
        /\ UNCHANGED <<config, queueVars, claims, chainVars>>
    BY DEF Sync, set
  <1>4. TypedSet'
    BY <1>1, <1>3, PagesInside DEF TypedParts, TypedSet
  <1>5. totals' \in TotalsCache
    <2>1. MirroredSupply \in Nat /\ now \in Nat
      BY TokenFields, TotalsFields
         DEF MirroredSupply, TypedParts, TypedToken, TypedQueue
    <2> QED BY <1>2, <1>3, <2>1 DEF TypedParts, TotalsCache
  <1>6. TypedQueue' /\ nextWindowId' = nextWindowId
    BY <1>3, QueueKept DEF TypedParts, TypedQueue, chainVars
  <1>7. TypedClaims'
    BY <1>3, <1>6, ClaimsKept DEF TypedParts
  <1>8. TypedChain' /\ TypedToken' /\ TypedSeen' /\ TypedConfig'
    BY <1>3 DEF TypedParts, TypedChain, TypedToken, SupplyCovers, TypedSeen,
                TypedConfig, FeesBounded, chainVars
  <1> QED BY <1>4, <1>5, <1>6, <1>7, <1>8 DEF TypedParts

(* fee_shares_for_rewards yields an amount.                                *)
LEMMA FeeSharesNat ==
    ASSUME NEW p \in PoolTotals, NEW rewards \in Nat, NEW bps \in Nat, bps <= BPS_DENOM
    PROVE  FeeSharesForRewards(rewards, bps, p) \in Nat
  <1> DEFINE fee   == MulDivFloor(rewards, bps, BPS_DENOM)
             denom == Assets(p) + rewards - fee
  <1>1. p.supply \in Nat /\ Assets(p) \in Nat
    BY AssetsNat DEF PoolTotals
  <1>2. fee \in Nat /\ fee <= rewards
    BY FeeWithinRewards
  <1>3. denom \in Nat
    BY <1>1, <1>2
  <1>4. denom # 0 => MulDivFloor(fee, p.supply, denom) \in Nat
    BY <1>1, <1>2, <1>3, MulDivFloorBounds
  <1> QED BY <1>4 DEF FeeSharesForRewards

(* What a page of Compound reads and harvests is well typed.               *)
LEMMA HarvestTyped ==
    ASSUME TypedParts, NEW limit \in PageLimits
    PROVE  /\ HarvestedSet(limit) \in Seq(ValidatorEntry)
           /\ DOMAIN HarvestedSet(limit) = DOMAIN validators
           /\ Harvested(limit) \in Nat
           /\ FeeShares(limit) \in Nat
  <1>1. ASSUME NEW i \in DOMAIN validators
        PROVE  HarvestedSet(limit)[i] \in ValidatorEntry
    <2> DEFINE e == validators[i]
               b == IF Delegates(e.address) THEN delegated[e.address] ELSE e.bonded
    <2>1. e \in ValidatorEntry
      BY SetDomain DEF TypedParts, TypedSet
    <2>2. b \in Nat
      BY <2>1, EntryFields DEF TypedParts, TypedChain
    <2>3. [e EXCEPT !.bonded = b, !.pending = 0] \in ValidatorEntry
      BY <2>1, <2>2, EntryChanged
    <2> QED BY <2>1, <2>3 DEF HarvestedSet
  <1>2. /\ DOMAIN HarvestedSet(limit) = DOMAIN validators
        /\ HarvestedSet(limit) = [i \in DOMAIN validators |-> HarvestedSet(limit)[i]]
    BY DEF HarvestedSet
  <1>3. HarvestedSet(limit) \in Seq(ValidatorEntry)
    BY <1>1, <1>2, Rewritten DEF TypedParts, TypedSet
  <1>4. Harvested(limit) \in Nat
    BY PagesInside, FiniteConstants, SumOfPart
       DEF Harvested, TypedParts, TypedChain
  <1>5. PoolBeforeHarvest(limit) \in PoolTotals
    <2>1. /\ TotalBonded(HarvestedSet(limit)) \in Nat
          /\ TotalPending(HarvestedSet(limit)) \in Nat
      BY <1>3, StakesNat
    <2>2. [totals EXCEPT !.bonded = TotalBonded(HarvestedSet(limit)),
                         !.pending = TotalPending(HarvestedSet(limit))] \in TotalsCache
      BY <2>1 DEF TypedParts, TotalsCache
    <2>3. balance \in Nat
      BY DEF TypedParts, TypedChain
    <2> QED BY <2>2, <2>3, PoolTyped DEF PoolBeforeHarvest
  <1>6. config.fee \in Nat /\ config.fee <= BPS_DENOM
    <2>1. /\ config.fee \in Nat /\ config.fee <= MaxPerformanceFee
          /\ MaxPerformanceFee \in Nat /\ MaxPerformanceFee <= BPS_DENOM
      BY ParametersNat, LimitsAreValid DEF TypedParts, TypedConfig, Config, FeesBounded
    <2> QED BY <2>1 DEF BPS_DENOM
  <1>7. FeeShares(limit) \in Nat
    BY <1>4, <1>5, <1>6, FeeSharesNat DEF FeeShares
  <1> QED BY <1>2, <1>3, <1>4, <1>7

(* What a compound restakes goes to a known validator.                     *)
LEMMA RestakedInside ==
    ASSUME TypedParts, NEW limit \in PageLimits, Compound(limit)
    PROVE  RestakedAt(limit) \in SUBSET Validators
  <1> DEFINE H == Harvested(limit)
  <1>1. /\ HarvestedSet(limit) \in Seq(ValidatorEntry)
        /\ DOMAIN HarvestedSet(limit) = DOMAIN validators
        /\ H \in Nat
    BY HarvestTyped
  <1>2. CASE H = 0
    BY <1>2 DEF RestakedAt
  <1>3. CASE H # 0
    <2>1. AcceptsStake(HarvestedSet(limit)) # {}
      BY <1>1, <1>3 DEF Compound
    <2>2. RestakeIndex(limit) \in DOMAIN validators
      BY <1>1, <2>1, SelectsActive DEF RestakeIndex, AcceptsStake
    <2>3. validators[RestakeIndex(limit)].address \in Validators
      BY <2>2, SetDomain, EntryFields DEF TypedParts, TypedSet
    <2> QED BY <2>3 DEF RestakedAt
  <1> QED BY <1>2, <1>3

(* Compound keeps the invariant.                                           *)
LEMMA TypedCompound ==
    ASSUME TypedParts, NEW limit \in PageLimits, Compound(limit)
    PROVE  TypedParts'
  <1> DEFINE H   == Harvested(limit)
             S   == FeeShares(limit)
             set == RestakedSet(limit)
             at  == RestakedAt(limit)
  <1>1. /\ HarvestedSet(limit) \in Seq(ValidatorEntry)
        /\ DOMAIN HarvestedSet(limit) = DOMAIN validators
        /\ H \in Nat /\ S \in Nat
    BY HarvestTyped
  <1>2. set \in Seq(ValidatorEntry)
    BY <1>1, StakeAdded DEF RestakedSet
  <1>3. at \in SUBSET Validators
    BY RestakedInside
  <1>4. TotalBonded(set) \in Nat /\ TotalPending(set) \in Nat
    BY <1>2, StakesNat
  <1> HIDE DEF H, S, set, at
  <1>5. /\ validators' = set /\ cursor' = NextCursor(limit)
        /\ totals' = [totals EXCEPT
                !.bonded = TotalBonded(set), !.pending = TotalPending(set),
                !.supply = @ + S,
                !.lastSync = IF SweepDone(limit) THEN now ELSE @]
        /\ accrued' = [v \in Validators |->
                IF v \in OnPage(limit) \cup at THEN 0 ELSE accrued[v]]
        /\ balance' = balance + SumFunctionOnSet(accrued, at \ OnPage(limit))
        /\ delegated' = [v \in Validators |-> delegated[v] + IF v \in at THEN H ELSE 0]
        /\ token' = [token EXCEPT !.supply = @ + S, !.held[Treasury] = @ + S]
        /\ UNCHANGED <<config, queueVars, claims, now, unbonding, seen>>
    BY DEF Compound, TotalsAfterCompound, H, S, set, at
  <1>6. TypedSet'
    BY <1>2, <1>5, PagesInside DEF TypedParts, TypedSet
  <1>7. totals' \in TotalsCache
    <2>1. totals.supply + S \in Nat /\ now \in Nat
      BY <1>1, TotalsFields DEF TypedParts, TypedQueue
    <2> QED BY <1>4, <1>5, <2>1 DEF TypedParts, TotalsCache
  <1>8. TypedQueue' /\ nextWindowId' = nextWindowId
    BY <1>5, QueueKept DEF TypedParts, TypedQueue
  <1>9. TypedClaims'
    BY <1>5, <1>8, ClaimsKept DEF TypedParts
  <1>10. TypedChain'
    <2>1. SumFunctionOnSet(accrued, at \ OnPage(limit)) \in Nat
      BY <1>3, FiniteConstants, SumOfPart DEF TypedParts, TypedChain
    <2>2. balance' \in Nat
      BY <1>5, <2>1 DEF TypedParts, TypedChain
    <2>3. delegated' \in [Validators -> Nat] /\ accrued' \in [Validators -> Nat]
      BY <1>1, <1>5 DEF TypedParts, TypedChain
    <2> QED BY <1>5, <2>2, <2>3 DEF TypedParts, TypedChain
  <1>11. TypedToken'
    BY <1>1, <1>5, ConstantsAreTyped, MintTyped DEF TypedParts
  <1>12. TypedSeen' /\ TypedConfig'
    BY <1>5 DEF TypedParts, TypedSeen, TypedConfig, FeesBounded
  <1> QED BY <1>6, <1>7, <1>8, <1>9, <1>10, <1>11, <1>12 DEF TypedParts

-----------------------------------------------------------------------------
(* The manager.                                                            *)
LEMMA TypedSetWeights ==
    ASSUME TypedParts, NEW weights \in WeightChoices, SetWeights(weights)
    PROVE  TypedParts'
  <1>1. weights \in Seq(ValidatorInit)
    BY InputsNat
  <1>2. /\ validators' = ApplyWeights(validators, weights)
        /\ UNCHANGED <<config, cursor, totals, queueVars, claims, chainVars>>
    BY DEF SetWeights
  <1>3. TypedSet'
    BY <1>1, <1>2, ApplyWeightsTyped DEF TypedParts, TypedSet
  <1>4. TypedQueue' /\ nextWindowId' = nextWindowId
    BY <1>2, QueueKept DEF TypedParts, TypedQueue, chainVars
  <1>5. TypedClaims'
    BY <1>2, <1>4, ClaimsKept DEF TypedParts
  <1> QED BY <1>2, <1>3, <1>4, <1>5 DEF TypedParts, TypedChain, TypedToken,
          SupplyCovers, TypedSeen, TypedConfig, FeesBounded, chainVars

(* A step that writes the configuration only.                              *)
LEMMA ConfigStep ==
    ASSUME TypedParts, TypedConfig', TypedSeen',
           UNCHANGED <<validators, cursor, totals, queueVars, claims, now,
                       stakingVars, balance, token>>
    PROVE  TypedParts'
  <1>1. TypedQueue' /\ nextWindowId' = nextWindowId
    BY QueueKept DEF TypedParts, TypedQueue
  <1>2. TypedClaims'
    BY <1>1, ClaimsKept DEF TypedParts
  <1> QED BY <1>1, <1>2 DEF TypedParts, TypedSet, TypedChain, TypedToken,
          SupplyCovers, stakingVars

(* SetPerformanceFee, SetPaused and the migration keep the invariant.      *)
LEMMA TypedFeeAndPause ==
    ASSUME TypedParts,
           \/ \E bps \in FeeChoices : SetPerformanceFee(bps)
           \/ \E paused \in PauseChoices : SetPaused(paused)
           \/ Migrate
    PROVE  TypedParts'
  <1>1. /\ config \in Config /\ FeesBounded /\ TypedSeen
        /\ config.fee \in Nat /\ config.maxFee \in Nat
    BY DEF TypedParts, TypedConfig, Config
  <1>2. ASSUME NEW bps \in FeeChoices, SetPerformanceFee(bps) PROVE TypedParts'
    <2>1. /\ bps \in Nat /\ bps <= config.maxFee /\ config' = [config EXCEPT !.fee = bps]
          /\ UNCHANGED <<validators, cursor, totals, queueVars, claims, chainVars>>
      BY <1>2, InputsNat DEF SetPerformanceFee, FeeAllowed
    <2>2. bps <= MaxPerformanceFee
      BY <1>1, <2>1, ParametersNat DEF FeesBounded
    <2>3. TypedConfig'
      BY <1>1, <2>1, <2>2 DEF TypedConfig, Config, FeesBounded
    <2> QED BY <1>1, <2>1, <2>3, ConfigStep DEF chainVars, stakingVars, TypedSeen
  <1>3. ASSUME NEW paused \in PauseChoices, SetPaused(paused) PROVE TypedParts'
    <2>1. /\ paused \in BOOLEAN /\ config' = [config EXCEPT !.paused = paused]
          /\ UNCHANGED <<validators, cursor, totals, queueVars, claims, chainVars>>
      BY <1>3, ConstantsAreTyped DEF SetPaused
    <2>2. TypedConfig'
      BY <1>1, <2>1 DEF TypedConfig, Config, FeesBounded
    <2> QED BY <1>1, <2>1, <2>2, ConfigStep DEF chainVars, stakingVars, TypedSeen
  <1>4. ASSUME Migrate PROVE TypedParts'
    <2>1. /\ config' = [config EXCEPT !.maxFee = MigrationMaxFee]
          /\ Count("migrations")
          /\ UNCHANGED <<validators, cursor, totals, queueVars, claims, now,
                         stakingVars, balance, token>>
      BY <1>4 DEF Migrate
    <2>2. TypedConfig'
      BY <1>1, <2>1, ParametersNat, LimitsAreValid DEF TypedConfig, Config, FeesBounded
    <2>3. TypedSeen'
      BY <1>1, <2>1, CountTyped DEF Events
    <2> QED BY <2>1, <2>2, <2>3, ConfigStep
  <1> QED BY <1>2, <1>3, <1>4

(* Rebalance keeps the invariant.                                          *)
LEMMA TypedRebalance ==
    ASSUME TypedParts, NEW move \in Moves, Rebalance(move)
    PROVE  TypedParts'
  <1> DEFINE i == IndexOf(move.from)
             j == IndexOf(move.to)
             x == move.amount
  <1>1. move.from \in Validators /\ move.to \in Validators /\ x \in Nat
    BY ConstantsAreTyped
  <1>2. /\ {move.from, move.to} \subseteq AddressesIn(validators)
        /\ move.from # move.to /\ x <= validators[i].bonded
        /\ x <= delegated[move.from]
        /\ validators' = [validators EXCEPT ![i].bonded = @ - x, ![j].bonded = @ + x]
        /\ delegated' = [delegated EXCEPT ![move.from] = @ - x, ![move.to] = @ + x]
        /\ RewardsPaidAt({move.from, move.to})
        /\ UNCHANGED <<config, cursor, totals, queueVars, claims, now, unbonding,
                       token, seen>>
    BY DEF Rebalance
  <1>3. /\ i \in DOMAIN validators /\ validators[i].address = move.from
        /\ j \in DOMAIN validators /\ validators[j].address = move.to
    BY <1>2 DEF AddressesIn, IndexOf
  <1>4. i # j
    BY <1>2, <1>3
  <1>5. TypedSet'
    <2>1. validators \in Seq(ValidatorEntry) /\ cursor \in Nat
      BY DEF TypedParts, TypedSet
    <2>2. validators[i] \in ValidatorEntry /\ validators[j] \in ValidatorEntry
      BY <1>3, <2>1, SetDomain
    <2>3. validators[i].bonded - x \in Nat /\ validators[j].bonded + x \in Nat
      <3>1. validators[i].bonded \in Nat /\ validators[j].bonded \in Nat
        BY <2>2, EntryFields
      <3> QED BY <1>1, <1>2, <3>1
    <2>4. /\ [validators[i] EXCEPT !.bonded = validators[i].bonded - x] \in ValidatorEntry
          /\ [validators[j] EXCEPT !.bonded = validators[j].bonded + x] \in ValidatorEntry
      BY <2>2, <2>3, EntryChanged
    <2> HIDE DEF i, j, x
    <2>5. /\ DOMAIN validators' = DOMAIN validators
          /\ validators' = [k \in DOMAIN validators |-> validators'[k]]
          /\ validators'[i] = [validators[i] EXCEPT !.bonded = validators[i].bonded - x]
          /\ validators'[j] = [validators[j] EXCEPT !.bonded = validators[j].bonded + x]
          /\ \A k \in DOMAIN validators \ {i, j} : validators'[k] = validators[k]
      BY <1>2, <1>3, <1>4
    <2>6. \A k \in DOMAIN validators : validators'[k] \in ValidatorEntry
      BY <2>1, <2>4, <2>5, SetDomain
    <2>7. validators' \in Seq(ValidatorEntry)
      BY <2>1, <2>5, <2>6, Rewritten
    <2> QED BY <1>2, <2>1, <2>7 DEF TypedSet
  <1>6. TypedChain'
    <2>1. delegated \in [Validators -> Nat]
      BY DEF TypedParts, TypedChain
    <2>2. delegated[move.from] - x \in Nat /\ delegated[move.to] + x \in Nat
      BY <1>1, <1>2, <2>1
    <2>3. delegated' \in [Validators -> Nat]
      BY <1>1, <1>2, <2>1, <2>2
    <2>4. accrued' \in [Validators -> Nat] /\ balance' \in Nat
      BY <1>1, <1>2, RewardsPaidTyped DEF TypedParts
    <2> QED BY <1>2, <2>3, <2>4 DEF TypedParts, TypedChain
  <1>7. TypedQueue' /\ nextWindowId' = nextWindowId
    BY <1>2, QueueKept DEF TypedParts, TypedQueue
  <1>8. TypedClaims'
    BY <1>2, <1>7, ClaimsKept DEF TypedParts
  <1>9. /\ totals' \in TotalsCache /\ TypedToken' /\ TypedSeen' /\ TypedConfig'
    BY <1>2 DEF TypedParts, TypedToken, SupplyCovers, TypedSeen, TypedConfig, FeesBounded
  <1> QED BY <1>5, <1>6, <1>7, <1>8, <1>9 DEF TypedParts

-----------------------------------------------------------------------------
(* The chain.                                                              *)
LEMMA ChainStep ==
    ASSUME TypedParts, UNCHANGED contractVars, TypedChain', TypedToken', TypedSeen'
    PROVE  TypedParts'
  <1>1. UNCHANGED queueVars /\ now' \in Nat
    BY DEF contractVars, queueVars, TypedChain
  <1>2. TypedQueue' /\ nextWindowId' = nextWindowId
    BY <1>1, QueueKept DEF TypedParts
  <1>3. TypedClaims'
    BY <1>2, ClaimsKept DEF TypedParts, contractVars
  <1> QED BY <1>2, <1>3 DEF TypedParts, TypedSet, TypedConfig, FeesBounded, contractVars

(* A slash leaves an amount.                                               *)
LEMMA AfterSlashNat == ASSUME NEW x \in Nat PROVE AfterSlash(x) \in Nat
  <1> DEFINE cut == MulDivFloor(x, SlashBps, BPS_DENOM)
  <1>1. SlashBps \in Nat /\ SlashBps <= 10000
    BY ConstantsAreTyped, SMTT(30) DEF BPS_DENOM
  <1>2. cut \in Nat /\ 10000 * cut <= x * SlashBps
    BY <1>1, MulDivFloorBounds DEF BPS_DENOM
  <1>3. x * SlashBps <= x * 10000 /\ x * SlashBps \in Nat
    BY <1>1, ProductMonotone, ProductNat
  <1> HIDE DEF cut
  <1>4. cut <= x
    BY <1>2, <1>3
  <1> QED BY <1>2, <1>4 DEF AfterSlash, cut

(* A block, with the payouts it brings, keeps the invariant.               *)
LEMMA TypedNextBlock == ASSUME TypedParts, NextBlock PROVE TypedParts'
  <1>1. /\ now' = now + 1 /\ UNCHANGED <<contractVars, delegated, accrued, token, seen>>
    BY DEF NextBlock
  <1>2. PICK released \in SUBSET unbonding :
          /\ unbonding' = unbonding \ released
          /\ balance' = balance + SumFunction([e \in released |-> e.amount])
    BY DEF NextBlock
  <1>3. SumFunction([e \in released |-> e.amount]) \in Nat
    <2>1. IsFiniteSet(released)
      BY FS_Subset DEF TypedParts, TypedChain
    <2>2. [e \in released |-> e.amount] \in [released -> Nat]
      BY DEF TypedParts, TypedChain, UnbondingEntry
    <2> QED BY <2>1, <2>2, SumOfAll
  <1>4. TypedChain'
    <2>1. balance' \in Nat /\ now' \in Nat
      BY <1>1, <1>2, <1>3 DEF TypedParts, TypedChain
    <2>2. unbonding' \in SUBSET UnbondingEntry /\ IsFiniteSet(unbonding')
      BY <1>2, FS_Subset DEF TypedParts, TypedChain
    <2> QED BY <1>1, <2>1, <2>2 DEF TypedParts, TypedChain
  <1>5. TypedToken' /\ TypedSeen'
    BY <1>1 DEF TypedParts, TypedToken, SupplyCovers, TypedSeen
  <1> QED BY <1>1, <1>4, <1>5, ChainStep

(* A slash keeps it.                                                       *)
LEMMA TypedSlash ==
    ASSUME TypedParts, NEW v \in Validators, Slash(v)
    PROVE  TypedParts'
  <1>1. /\ delegated' = [delegated EXCEPT ![v] = AfterSlash(@)]
        /\ UNCHANGED <<contractVars, now, accrued, balance, token>>
        /\ Count("slashes")
    BY DEF Slash
  <1>2. PICK hit \in SUBSET Entries(v) :
          unbonding' = (unbonding \ hit) \cup
             {[e EXCEPT !.amount = AfterSlash(@)] : e \in hit}
    BY DEF Slash
  <1> DEFINE cut(e) == [e EXCEPT !.amount = AfterSlash(e.amount)]
             new == {cut(e) : e \in hit}
  <1>3. hit \in SUBSET unbonding /\ IsFiniteSet(hit)
    BY FS_Subset DEF Entries, TypedParts, TypedChain
  <1>4. new \in SUBSET UnbondingEntry
    <2>1. ASSUME NEW e \in UnbondingEntry PROVE cut(e) \in UnbondingEntry
      <3>1. AfterSlash(e.amount) \in Nat
        BY AfterSlashNat DEF UnbondingEntry
      <3> QED BY <3>1 DEF UnbondingEntry
    <2>2. hit \in SUBSET UnbondingEntry
      BY <1>3 DEF TypedParts, TypedChain
    <2> QED BY <2>1, <2>2
  <1>5. IsFiniteSet(new)
    <2> DEFINE f == [e \in hit |-> cut(e)]
    <2>1. DOMAIN f = hit /\ new = {f[e] : e \in hit}
      OBVIOUS
    <2> HIDE DEF f, new
    <2> QED BY <1>3, <2>1, FiniteImage
  <1>6. unbonding' = (unbonding \ hit) \cup new
    BY <1>2
  <1> HIDE DEF new
  <1>7. IsFiniteSet(unbonding')
    <2>1. IsFiniteSet(unbonding \ hit)
      BY FS_Subset DEF TypedParts, TypedChain
    <2> QED BY <1>5, <1>6, <2>1, FS_Union
  <1>8. delegated' \in [Validators -> Nat]
    <2>1. delegated \in [Validators -> Nat]
      BY DEF TypedParts, TypedChain
    <2>2. AfterSlash(delegated[v]) \in Nat
      BY <2>1, AfterSlashNat
    <2> QED BY <1>1, <2>1, <2>2
  <1>9. TypedChain'
    BY <1>1, <1>4, <1>6, <1>7, <1>8 DEF TypedParts, TypedChain
  <1>10. TypedToken' /\ TypedSeen'
    BY <1>1, CountTyped DEF TypedParts, TypedToken, SupplyCovers, Events
  <1> QED BY <1>1, <1>9, <1>10, ChainStep

(* So do accruals, holders' burns and gifts.                               *)
LEMMA TypedAccrualsBurnsGifts ==
    ASSUME TypedParts,
           \/ \E v \in Validators, amount \in Rewards : AccrueRewards(v, amount)
           \/ \E u \in Users, shares \in Requests : BurnOwnShares(u, shares)
           \/ \E amount \in Deposits : Donate(amount)
    PROVE  TypedParts'
  <1>1. ASSUME NEW v \in Validators, NEW amount \in Rewards, AccrueRewards(v, amount)
        PROVE  TypedParts'
    <2>1. amount \in Nat
      BY InputsNat
    <2>2. TypedChain'
      BY <1>1, <2>1, LedgerAdded DEF AccrueRewards, TypedParts, TypedChain
    <2>3. TypedToken' /\ TypedSeen'
      BY <1>1, CountTyped DEF AccrueRewards, TypedParts, TypedToken, SupplyCovers, Events
    <2> QED BY <1>1, <2>2, <2>3, ChainStep DEF AccrueRewards
  <1>2. ASSUME NEW u \in Users, NEW shares \in Requests, BurnOwnShares(u, shares)
        PROVE  TypedParts'
    <2>1. TypedToken'
      BY <1>2, InputsNat, BurnTyped DEF BurnOwnShares, TypedParts
    <2>2. TypedChain' /\ TypedSeen'
      BY <1>2, CountTyped DEF BurnOwnShares, TypedParts, TypedChain, stakingVars, Events
    <2> QED BY <1>2, <2>1, <2>2, ChainStep DEF BurnOwnShares
  <1>3. ASSUME NEW amount \in Deposits, Donate(amount) PROVE TypedParts'
    <2>1. balance + amount \in Nat
      BY InputsNat DEF TypedParts, TypedChain
    <2>2. TypedChain'
      BY <1>3, <2>1 DEF Donate, TypedParts, TypedChain, stakingVars
    <2>3. TypedToken' /\ TypedSeen'
      BY <1>3, CountTyped DEF Donate, TypedParts, TypedToken, SupplyCovers, Events
    <2> QED BY <1>3, <2>2, <2>3, ChainStep DEF Donate
  <1> QED BY <1>1, <1>2, <1>3

(* A stuttering step keeps it.                                             *)
LEMMA TypedUnchanged == ASSUME TypedParts, UNCHANGED vars PROVE TypedParts'
  BY ChainStep DEF vars, chainVars, TypedParts, TypedChain, TypedToken,
     SupplyCovers, TypedSeen

(* Every step keeps the invariant.                                         *)
LEMMA TypeInvStep == TypeInv /\ [Next]_vars => TypeInv'
  <1>0. TypeInv' <=> TypedParts'
    BY PartsMakeTypeInv, PTL
  <1> SUFFICES ASSUME TypedParts, [Next]_vars PROVE TypedParts'
    BY <1>0, PartsMakeTypeInv
  <1>1. CASE UserAction
    BY <1>1, TypedBootstrap, TypedDeposit, TypedUnbond, TypedClaimMatured DEF UserAction
  <1>2. CASE UpkeepAction
    BY <1>2, TypedAdvanceWindow, TypedCollectMatured, TypedSync, TypedCompound
       DEF UpkeepAction
  <1>3. CASE ManagerAction
    BY <1>3, TypedSetWeights, TypedRebalance, TypedFeeAndPause DEF ManagerAction
  <1>4. CASE ChainAction
    BY <1>4, TypedNextBlock, TypedSlash, TypedAccrualsBurnsGifts DEF ChainAction
  <1> QED BY <1>1, <1>2, <1>3, <1>4, TypedUnchanged DEF Next

(***************************************************************************)
(* Every figure is a natural number in every state, whatever was slashed,  *)
(* burned or rounded on the way: no plain subtraction of the contract, of  *)
(* the token or of the chain (as opposed to a saturating one) underflows.  *)
(***************************************************************************)
THEOREM TypeInvAlways == Spec => []TypeInv
  BY TypeInvInit, TypeInvStep, PTL DEF Spec

(* Every stored figure and every figure of the chain has its type in       *)
(* every state: no unsigned subtraction of contract.rs goes below zero.    *)
THEOREM AlwaysTyped == Spec => []TypeOK
  <1>1. TypeInv => TypeOK
    BY DEF TypeInv
  <1> QED BY TypeInvAlways, <1>1, PTL

-----------------------------------------------------------------------------
(* The fee.  A migration may replace the ceiling the fee was checked       *)
(* against, so what holds depends on how the two ceilings compare.         *)
FeeInv ==
    /\ config \in Config
    /\ FeeWithinLimit
    /\ config.maxFee \in {InitialMaxFee, MigrationMaxFee}

(***************************************************************************)
(* The fee is never above the ceiling, provided that no upgrade lowers the *)
(* ceiling (execute_set_performance_fee checks it, migrate does not).      *)
(***************************************************************************)
THEOREM FeeAlwaysWithinLimit ==
    ASSUME InitialMaxFee <= MigrationMaxFee
    PROVE  Spec => []FeeWithinLimit
  <1>1. Init => FeeInv
    BY ParametersNat, LimitsAreValid DEF Init, FeeInv, FeeWithinLimit, Config
  <1>2. FeeInv /\ [Next]_vars => FeeInv'
    <2> SUFFICES ASSUME FeeInv, [Next]_vars PROVE FeeInv'
      OBVIOUS
    <2>1. /\ config \in Config /\ config.fee \in Nat /\ config.maxFee \in Nat
          /\ config.fee <= config.maxFee
      BY DEF FeeInv, FeeWithinLimit, Config
    <2>2. ASSUME config' = config PROVE FeeInv'
      BY <2>2 DEF FeeInv, FeeWithinLimit
    <2>3. ASSUME NEW seed \in Seeds, Bootstrap(seed) PROVE FeeInv'
      BY <2>1, <2>3 DEF Bootstrap, FeeInv, FeeWithinLimit, Config
    <2>4. ASSUME NEW bps \in FeeChoices, SetPerformanceFee(bps) PROVE FeeInv'
      BY <2>1, <2>4, InputsNat
         DEF SetPerformanceFee, FeeAllowed, FeeInv, FeeWithinLimit, Config
    <2>5. ASSUME NEW paused \in PauseChoices, SetPaused(paused) PROVE FeeInv'
      BY <2>1, <2>5, ConstantsAreTyped DEF SetPaused, FeeInv, FeeWithinLimit, Config
    <2>6. ASSUME Migrate PROVE FeeInv'
      <3>1. config.fee <= MigrationMaxFee
        BY <2>1, ParametersNat DEF FeeInv
      <3> QED BY <2>1, <2>6, <3>1, ParametersNat
              DEF Migrate, FeeInv, FeeWithinLimit, Config
    <2>7. CASE UserAction
      BY <2>2, <2>3, <2>7 DEF UserAction, Deposit, Unbond, ClaimMatured
    <2>8. CASE UpkeepAction
      BY <2>2, <2>8 DEF UpkeepAction, AdvanceWindow, CollectMatured, Sync, Compound
    <2>9. CASE ManagerAction
      BY <2>2, <2>4, <2>5, <2>6, <2>9 DEF ManagerAction, SetWeights, Rebalance
    <2>10. CASE ChainAction \/ UNCHANGED vars
      BY <2>2, <2>10 DEF ChainAction, NextBlock, Slash, AccrueRewards,
         BurnOwnShares, Donate, contractVars, vars
    <2> QED BY <2>7, <2>8, <2>9, <2>10 DEF Next
  <1>3. FeeInv => FeeWithinLimit
    BY DEF FeeInv
  <1> QED BY <1>1, <1>2, <1>3, PTL DEF Spec
=============================================================================
