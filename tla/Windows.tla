------------------------------ MODULE Windows ------------------------------
(***************************************************************************)
(* The life of one unbonding window (contracts/lst-core/src/windows.rs and *)
(* UnbondWindow in packages/lst-types/src/core/types.rs).  opened_at is    *)
(* left out: nothing reads it back.  The id is the window's index.         *)
(***************************************************************************)
EXTENDS ShareMath

CONSTANT None          \* scrt_realised before the window matures

ASSUME NoneIsNotAnAmount == None \notin Nat

WindowStates == {"Open", "Unbonding", "Matured", "Settled"}

\* A window, with the set of addresses it may have undelegated from.
UnbondWindow(addresses) ==
    [closesAt : Nat, maturesAt : Nat, shares : Nat, owed : Nat,
     realised : Nat \cup {None}, claimed : Nat,
     used : SUBSET addresses, state : WindowStates]

WindowOpen(now, windowSecs) ==
    [closesAt |-> now + windowSecs, maturesAt |-> 0, shares |-> 0, owed |-> 0,
     realised |-> None, claimed |-> 0, used |-> {}, state |-> "Open"]

\* What the window can pay: what it received, or its promise before maturity.
Payable(w) == IF w.realised = None THEN w.owed ELSE w.realised

Outstanding(w) == SatSub(Payable(w), w.claimed)

(* Mutated form of Closable: the closing time is not looked at.            *)
ClosableEarly(w, now) == w.state = "Open"

Closable(w, now) == w.state = "Open" /\ now >= w.closesAt

\* An empty window settles at once and never touches the staking module.
Close(w, now, unbondingSecs) ==
    IF w.owed = 0
    THEN [w EXCEPT !.state = "Settled", !.realised = 0]
    ELSE [w EXCEPT !.state = "Unbonding", !.maturesAt = now + unbondingSecs]

(* Mutated form of IsMature: the state is not looked at.                   *)
IsMatureByTimeOnly(w, now) == now >= w.maturesAt

IsMature(w, now) == w.state = "Unbonding" /\ now >= w.maturesAt

\* Caps what the window realises at what can be attributed to it.
Mature(w, available) ==
    [w EXCEPT !.realised = Min2(w.owed, available), !.state = "Matured"]

\* A claim's share of a matured window; the identity when nothing was lost.
PayoutForClaim(w, owed) ==
    IF Payable(w) = w.owed
    THEN owed
    ELSE IF w.owed = 0 THEN 0 ELSE MulDivFloor(owed, Payable(w), w.owed)

IsDrained(w) == w.claimed >= Payable(w)
=============================================================================
