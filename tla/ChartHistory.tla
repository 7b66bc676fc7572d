---------------------------- MODULE ChartHistory ----------------------------
(***************************************************************************)
(* The chart of the statistics page (app/src/lib/history.ts, app/src/app/  *)
(* statistics/page.tsx): the contract's state is asked for at past heights *)
(* of the chain, each query encrypted for the code that the contract ran   *)
(* there, while blocks go on, nodes prune and the contract is upgraded.    *)
(***************************************************************************)
EXTENDS Integers, Sequences, FiniteSets

CONSTANTS
    Ranges,         \* the ranges on offer
    Blocks(_),      \* how many blocks a range spans
    Points,         \* points to plot (24)
    Created         \* the block that the contract was created in

\* Bounds of the model.
CONSTANTS MaxHeight, MaxUpgrades

ASSUME ChartConstants ==
    /\ Created \in Nat \ {0} /\ Points \in Nat \ {0, 1}
    /\ \A r \in Ranges : Blocks(r) \in Nat

VARIABLES
    height,     \* the latest block
    upgrades,   \* the heights at which the contract's code changed, oldest first
    pruned,     \* heights below it have been pruned away
    shipped,    \* the code whose hash is compiled into the page
    range,      \* the range chosen
    load,       \* the load that answers for it
    cancelled,  \* an older load that is still under way
    chart,      \* the range that is drawn, "none" before the first
    plotting

network   == <<height, upgrades, pruned, shipped>>
chartVars == <<network, range, load, cancelled, chart, plotting>>

\* The code at a height: code 1 until the first upgrade.
CodeAt(h, changes) ==
    1 + Cardinality({i \in DOMAIN changes : changes[i] <= h})

Codes == 1 .. MaxUpgrades + 1

\* A load: what it waits for, the latest block it found, the heights still to
\* be asked for and those that did not answer, the code history it read and the
\* codes whose hash it knows.
NoLoad == [step |-> "done", range |-> "none", latest |-> 0, first |-> 0, asks |-> {},
           missing |-> {}, known |-> {}, changes |-> << >>]

Starting(r) == [NoLoad EXCEPT !.step = "latest", !.range = r]

Loads ==
    [step : {"latest", "hashes", "states", "done"}, range : Ranges \cup {"none"},
     latest : 0 .. MaxHeight, first : 0 .. MaxHeight, asks : SUBSET (1 .. MaxHeight),
     missing : SUBSET (1 .. MaxHeight), known : SUBSET Codes, changes : Seq(1 .. MaxHeight)]

ChartTypeOK ==
    /\ height \in Created .. MaxHeight /\ pruned \in 1 .. MaxHeight
    /\ upgrades \in Seq(Created .. MaxHeight) /\ shipped \in Codes
    /\ range \in Ranges /\ chart \in Ranges \cup {"none"} /\ plotting \in BOOLEAN
    /\ {load, cancelled} \subseteq Loads

ChartInit ==
    /\ height = Created /\ upgrades = << >> /\ pruned = 1
    /\ shipped \in Codes
    /\ range \in Ranges
    /\ load = Starting(range) /\ cancelled = NoLoad
    /\ chart = "none" /\ plotting = TRUE

-----------------------------------------------------------------------------
(* The network.                                                            *)

OnPage == UNCHANGED <<range, load, cancelled, chart, plotting>>

NewBlock ==
    /\ height < MaxHeight /\ height' = height + 1
    /\ OnPage /\ UNCHANGED <<upgrades, pruned, shipped>>

\* A block with a migration: a query at its height meets the new code.
Upgrade ==
    /\ height < MaxHeight /\ Len(upgrades) < MaxUpgrades
    /\ height' = height + 1 /\ upgrades' = Append(upgrades, height + 1)
    /\ OnPage /\ UNCHANGED <<pruned, shipped>>

Prune ==
    /\ pruned < height /\ pruned' = pruned + 1
    /\ OnPage /\ UNCHANGED <<height, upgrades, shipped>>

-----------------------------------------------------------------------------
(* Loading.                                                                *)

\* The heights to plot: evenly spaced over the range, none before `first`.
Heights(latest, first, blocks) ==
    LET Clamp(h) == IF h < first THEN first ELSE IF h > latest THEN latest ELSE h
        wanted   == IF blocks < latest - first THEN blocks ELSE latest - first
        span     == IF wanted < 1 THEN 1 ELSE wanted
        step     == IF span < Points - 1 THEN 1 ELSE span \div (Points - 1)
    IN  {Clamp(latest - span + i * step) : i \in 0 .. Points - 1}

\* The latest block, and the contract's creation where the node knows of it.
LatestAnswers(l) ==
    /\ l.step = "latest"
    /\ \E first \in {1, Created} :
         load' = [l EXCEPT !.step = "hashes", !.latest = height, !.first = first,
                           !.asks = Heights(height, first, Blocks(l.range))]

\* contract_history, and the hash of each code in it; where either fails the page
\* is left with the hash it was built with.
HashesAnswer(l) ==
    /\ l.step = "hashes"
    /\ \/ \E known \in SUBSET (1 .. Len(upgrades) + 1) :
             load' = [l EXCEPT !.step = "states", !.known = known, !.changes = upgrades]
       \/ load' = [l EXCEPT !.step = "states"]

HashOf(l, code) == IF code \in l.known THEN code ELSE shipped

(* Mutated form of HashFor: the code of today is asked for everywhere.     *)
HashForToday(l, h) == HashOf(l, CodeAt(l.latest, l.changes))

\* The code that the page believes ran at a height.
HashFor(l, h) == HashOf(l, CodeAt(h, l.changes))

\* A query that names no height is answered at the newest block.
Answered(l, h) ==
    LET at == IF h >= l.latest THEN height ELSE h
    IN  /\ at >= Created /\ at >= pruned
        /\ HashFor(l, h) = CodeAt(at, upgrades)

StateAnswers(l) ==
    /\ l.step = "states"
    /\ \E h \in l.asks :
         load' = [l EXCEPT !.asks = @ \ {h},
                           !.missing = IF Answered(l, h) THEN @ ELSE @ \cup {h}]

LoadAdvances ==
    /\ LatestAnswers(load) \/ HashesAnswer(load) \/ StateAnswers(load)
    /\ UNCHANGED <<network, range, cancelled, chart, plotting>>

\* The chart is drawn, from the points that answered.
LoadLands ==
    /\ load.step = "states" /\ load.asks = {}
    /\ chart' = load.range /\ plotting' = FALSE
    /\ load' = NoLoad
    /\ UNCHANGED <<network, range, cancelled>>

\* A load fails: what was drawn stays.
LoadFails ==
    /\ load.step = "latest"
    /\ plotting' = FALSE /\ load' = NoLoad
    /\ UNCHANGED <<network, range, cancelled, chart>>

(* Mutated form of CancelledLands: an older load still draws its chart.    *)
CancelledLandsAnyway ==
    /\ cancelled.step # "done"
    /\ cancelled' = NoLoad /\ chart' = cancelled.range
    /\ UNCHANGED <<network, range, load, plotting>>

\* A cancelled load answers, whatever it has found, to nobody.
CancelledLands ==
    /\ cancelled.step # "done"
    /\ cancelled' = NoLoad
    /\ UNCHANGED <<network, range, load, chart, plotting>>

\* Another range is chosen while the load of the last may be under way.
SetRange ==
    /\ cancelled.step = "done"
    /\ \E r \in Ranges \ {range} :
         /\ range' = r /\ load' = Starting(r)
         /\ cancelled' = IF load.step = "done" THEN NoLoad ELSE Starting(load.range)
    /\ plotting' = TRUE
    /\ UNCHANGED <<network, chart>>

ChartNext ==
    \/ NewBlock \/ Upgrade \/ Prune
    \/ LoadAdvances \/ LoadLands \/ LoadFails \/ CancelledLands \/ SetRange

ChartSpec == ChartInit /\ [][ChartNext]_chartVars

-----------------------------------------------------------------------------
(* Properties.                                                             *)

\* "Points the chain could not answer - before deployment, or pruned away"
\* (history.ts:205): upgrades lose no point of the chart, as long as the code
\* history and the hashes can be read; only one during the load loses the newest.
NothingElseIsMissing ==
    \A h \in load.missing :
        \/ h < Created \/ h < pruned
        \/ CodeAt(h, load.changes) \notin load.known
        \/ h = load.latest /\ \E i \in DOMAIN upgrades : upgrades[i] > h

\* A chart that lands is the chart of the range that is chosen, whatever loads
\* of other ranges are still under way.
ChartFollowsRange ==
    [][chart' # chart => chart' = range]_chartVars
=============================================================================
