---------------------------- MODULE ValidatorSet ----------------------------
(***************************************************************************)
(* Validator set checks and stake placement                                *)
(* (contracts/lst-core/src/validators.rs): pure operators over the stored  *)
(* list of validator entries, whose order breaks every tie.                *)
(***************************************************************************)
EXTENDS ShareMath, Sequences, FiniteSets, Functions

CONSTANT Validators   \* every validator address that can be named

Statuses == {"Active", "Draining", "Removed"}

ValidatorEntry ==
    [address : Validators, weight : Nat, status : Statuses,
     bonded : Nat, pending : Nat, entries : Nat]

ValidatorInit == [address : Validators, weight : Nat]

NewEntry(init) ==
    [address |-> init.address, weight |-> init.weight, status |-> "Active",
     bonded |-> 0, pending |-> 0, entries |-> 0]

InitialValidatorSet(inits) == [i \in DOMAIN inits |-> NewEntry(inits[i])]

AddressesIn(list) == {list[i].address : i \in DOMAIN list}

TotalBonded(set) == SumFunction([i \in DOMAIN set |-> set[i].bonded])

TotalPending(set) == SumFunction([i \in DOMAIN set |-> set[i].pending])

-----------------------------------------------------------------------------
(* Weight assignments.                                                     *)

\* Not empty, no validator twice, and the weights sum to exactly 100%.
ValidateSet(weights) ==
    /\ weights # << >>
    /\ IsInjective([i \in DOMAIN weights |-> weights[i].address])
    /\ SumFunction([i \in DOMAIN weights |-> weights[i].weight]) = BPS_DENOM

\* What the manager may assign: allowlisted validators, none above the ceiling.
ValidateManagedWeights(weights, allowlist, maxWeight) ==
    /\ ValidateSet(weights)
    /\ AddressesIn(weights) \subseteq allowlist
    /\ \A i \in DOMAIN weights : weights[i].weight <= maxWeight

(* Mutated form of Reweighted: a dropped validator keeps its weight.       *)
ReweightedKeepingWeight(entry, weights) ==
    LET chosen == {i \in DOMAIN weights : weights[i].address = entry.address}
    IN  IF chosen # {}
        THEN [entry EXCEPT !.weight = weights[CHOOSE i \in chosen : TRUE].weight,
                           !.status = "Active"]
        ELSE [entry EXCEPT !.status = IF entry.bonded = 0
                                      THEN "Removed" ELSE "Draining"]

Reweighted(entry, weights) ==
    LET chosen == {i \in DOMAIN weights : weights[i].address = entry.address}
    IN  IF chosen # {}
        THEN [entry EXCEPT !.weight = weights[CHOOSE i \in chosen : TRUE].weight,
                           !.status = "Active"]
        ELSE [entry EXCEPT !.weight = 0,
                           !.status = IF entry.bonded = 0
                                      THEN "Removed" ELSE "Draining"]

(* Mutated form of ApplyWeights: every named validator is appended.        *)
ApplyWeightsAppending(set, weights) ==
    [i \in DOMAIN set |-> Reweighted(set[i], weights)] \o InitialValidatorSet(weights)

\* The k-th smallest number of S.
Nth(S, k) == CHOOSE i \in S : Cardinality({j \in S : j <= i}) = k

NewIn(weights, set) ==
    {i \in DOMAIN weights : weights[i].address \notin AddressesIn(set)}

\* Existing entries keep their place; newly weighted validators are appended.
ApplyWeights(set, weights) ==
    [i \in DOMAIN set |-> Reweighted(set[i], weights)]
    \o [k \in 1 .. Cardinality(NewIn(weights, set)) |->
           NewEntry(weights[Nth(NewIn(weights, set), k)])]

-----------------------------------------------------------------------------
(* Stake placement.                                                        *)

Target(entry, pool) == MulDivFloor(pool, entry.weight, BPS_DENOM)

AcceptsStake(set) == {i \in DOMAIN set : set[i].status = "Active"}

(* Mutated form of SelectForDelegation: the status is not looked at.       *)
SelectForDelegationAny(set, incoming) ==
    CHOOSE i \in DOMAIN set : \A j \in DOMAIN set :
        \/ set[i].bonded < set[j].bonded
        \/ set[i].bonded = set[j].bonded /\ i <= j

\* The first of the active validators furthest below their target share.
SelectForDelegation(set, incoming) ==
    LET pool == TotalBonded(set) + incoming
        Deficit(i) == SatSub(Target(set[i], pool), set[i].bonded)
    IN  CHOOSE i \in AcceptsStake(set) :
            \A j \in AcceptsStake(set) :
                \/ Deficit(j) < Deficit(i)
                \/ Deficit(j) = Deficit(i) /\ i <= j

\* Validators an undelegation may use: stake left and an entry slot free.
UnbondCandidates(set, ceiling) ==
    {i \in DOMAIN set : set[i].bonded > 0 /\ set[i].entries < ceiling}

\* How far above its target share an entry is, of a pool of that size.
Surplus(entry, pool) == SatSub(entry.bonded, Target(entry, pool))

\* Draining first, then the most overweight, then the largest, then by index.
DrainsBefore(set, pool, i, j) ==
    LET Rank(k) == IF set[k].status = "Active" THEN 1 ELSE 0
        si == Surplus(set[i], pool)
        sj == Surplus(set[j], pool)
    IN  \/ Rank(i) < Rank(j)
        \/ /\ Rank(i) = Rank(j)
           /\ \/ si > sj
              \/ si = sj /\ set[i].bonded > set[j].bonded
              \/ si = sj /\ set[i].bonded = set[j].bonded /\ i < j

BondedAt(set, indices) ==
    SumFunctionOnSet([i \in DOMAIN set |-> set[i].bonded], indices)

\* plan_undelegation answers with a plan, rather than NoUnbondingCapacity.
HasUnbondingCapacity(set, amount, ceiling) ==
    BondedAt(set, UnbondCandidates(set, ceiling)) >= amount

(***************************************************************************)
(* The amount taken from each entry: the candidates, in draining order,    *)
(* give what they hold until the amount is covered.  A zero is no leg.     *)
(***************************************************************************)
PlanUndelegation(set, amount, ceiling) ==
    LET C    == UnbondCandidates(set, ceiling)
        pool == TotalBonded(set)
        Ahead(i) == {j \in C : DrainsBefore(set, pool, j, i)}
    IN  [i \in DOMAIN set |->
            IF i \in C
            THEN Min2(set[i].bonded, SatSub(amount, BondedAt(set, Ahead(i))))
            ELSE 0]
=============================================================================
