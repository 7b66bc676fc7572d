----------------------------- MODULE ShareMath -----------------------------
(***************************************************************************)
(* Share accounting of the derivative token (contracts/lst-core/src/       *)
(* math.rs).  Every conversion is a floor division of exact products: the  *)
(* code multiplies in 256 bits and narrows afterwards, and both factors    *)
(* stay far below 2^128 (MAX_TOTAL_SUPPLY caps the shares, the SCRT supply *)
(* caps the rest), so the Overflow error paths are not reachable and the   *)
(* operators work on unbounded naturals.                                   *)
(***************************************************************************)
EXTENDS Integers

BPS_DENOM == 10000

(* Mutated form of SatSub: the subtraction may go below zero.              *)
SatSubUnchecked(a, b) == a - b

SatSub(a, b) == IF a >= b THEN a - b ELSE 0

Min2(a, b) == IF a <= b THEN a ELSE b

MulDivFloor(a, b, d) == (a * b) \div d

PoolTotals == [bonded : Nat, pending : Nat, liquid : Nat,
               owedBacked : Nat, supply : Nat]

\* SCRT backing the outstanding supply.
Assets(p) == SatSub(p.bonded + p.pending + p.liquid, p.owedBacked)

\* Shares minted for a deposit.  Callers reject deposit = 0 beforehand.
SharesForDeposit(deposit, p) ==
    IF p.supply = 0 \/ Assets(p) = 0
    THEN deposit
    ELSE MulDivFloor(deposit, p.supply, Assets(p))

(* Mutated form of AssetsForShares: rounded up.                            *)
AssetsForSharesCeil(shares, p) ==
    IF p.supply = 0 THEN 0 ELSE MulDivFloor(shares, Assets(p), p.supply) + 1

\* SCRT redeemable for a number of shares.
AssetsForShares(shares, p) ==
    IF p.supply = 0 THEN 0 ELSE MulDivFloor(shares, Assets(p), p.supply)

(***************************************************************************)
(* Shares minted to the treasury so that it owns bps of the rewards about  *)
(* to be added to the pool p: f * S / (A + R - f), with f the fee's value. *)
(***************************************************************************)
FeeSharesForRewards(rewards, bps, p) ==
    LET fee   == MulDivFloor(rewards, bps, BPS_DENOM)
        denom == Assets(p) + rewards - fee
    IN  IF rewards = 0 \/ bps = 0 \/ p.supply = 0 \/ fee = 0 \/ denom = 0
        THEN 0
        ELSE MulDivFloor(fee, p.supply, denom)

\* ceil(U / P): the unbonding entries alive at once when windows of length P
\* each hold one for U seconds.  A zero window length never validates.
ConcurrentEntriesForWindow(unbonding, window) ==
    (unbonding + window - 1) \div window

RequiredEntrySlots(unbonding, window) ==
    ConcurrentEntriesForWindow(unbonding, window) + 1
=============================================================================
