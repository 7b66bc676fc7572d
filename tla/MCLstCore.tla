----------------------------- MODULE MCLstCore -----------------------------
(***************************************************************************)
(* Small instances of LstCore for TLC: the values of the constants that a  *)
(* configuration file cannot write down.                                   *)
(***************************************************************************)
EXTENDS LstCoreProperties

CONSTANTS v1, v2, v3, v4, u1, u2

\* Two validators at 50% each, with the ceiling scaled to match.
TwoEqual == <<[address |-> v1, weight |-> 5000], [address |-> v2, weight |-> 5000]>>

Quiet == [e \in Events |-> 0]

QueueBound == [Quiet EXCEPT !["deposits"] = 2, !["requests"] = 3]

LateBound == [Quiet EXCEPT !["deposits"] = 1, !["requests"] = 4, !["burns"] = 1]

SlashBound == [Quiet EXCEPT !["deposits"] = 2, !["requests"] = 2, !["slashes"] = 1]

UpkeepBound == [Quiet EXCEPT !["deposits"] = 1, !["requests"] = 1,
                             !["accruals"] = 2, !["burns"] = 1]

FeeBound == [Quiet EXCEPT !["deposits"] = 1, !["requests"] = 1, !["burns"] = 1,
                          !["accruals"] = 2, !["slashes"] = 1, !["donations"] = 1,
                          !["migrations"] = 1]

ManagerBound == [Quiet EXCEPT !["deposits"] = 1, !["accruals"] = 1]

AllOrOne == {None, {0}, {1}}
OnlyAll == {None}
NoWeights == {}
NoMoves == {}

Half(v) == [address |-> v, weight |-> 5000]

\* Rotations between three validators, and what the checks must refuse: one
\* above the ceiling, one not allowlisted, one named twice, a sum short of 100%.
Rotations ==
    {<<Half(v1), Half(v2)>>, <<Half(v3), Half(v1)>>,
     <<[address |-> v1, weight |-> 10000]>>, <<Half(v2), Half(v4)>>,
     <<Half(v3), Half(v3)>>, <<Half(v3)>>}

SomeMoves == {[from |-> v1, to |-> v2, amount |-> 2],
              [from |-> v2, to |-> v3, amount |-> 1],
              [from |-> v2, to |-> v4, amount |-> 1]}
=============================================================================
