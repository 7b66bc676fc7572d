--------------------------- MODULE KeeperMonitor ---------------------------
(***************************************************************************)
(* The keeper's watch over the contract (keeper/src/invariants.ts): every  *)
(* pass reads the validators and compares them with what the pass before   *)
(* has remembered.  A stake that fell with no unbonding in flight is       *)
(* reported as a slash.  Between two checks anything may happen to the     *)
(* contract; a restarted keeper remembers nothing.                         *)
(***************************************************************************)
EXTENDS LstCoreProperties

VARIABLES
    remembered,     \* memory.lastBondedByValidator; empty at first
    checkedAt       \* the window that was open at that reading

monitorVars == <<remembered, checkedAt>>

MonitorInit == Init /\ remembered = [v \in {} |-> 0] /\ checkedAt = 0

Shrunk(entry) ==
    /\ entry.address \in DOMAIN remembered
    /\ entry.bonded < remembered[entry.address]

(* Mutated form of Drifted: stake on its way to the leavers counts too.    *)
DriftedOrLeaving == {validators[i].address : i \in {j \in DOMAIN validators :
                        Shrunk(validators[j])}}

\* The validators that a check reports as likely slashed or jailed.
Drifted == {validators[i].address : i \in {j \in DOMAIN validators :
                Shrunk(validators[j]) /\ validators[j].entries = 0}}

\* The query answers with the stored entries, whatever their age.
Check ==
    /\ remembered' = [v \in AddressesIn(validators) |-> validators[IndexOf(v)].bonded]
    /\ checkedAt' = openWindow
    /\ UNCHANGED vars

Restart ==
    /\ remembered' = [v \in {} |-> 0] /\ checkedAt' = 0
    /\ UNCHANGED vars

MonitorNext ==
    \/ Next /\ UNCHANGED monitorVars
    \/ Check
    \/ Restart

MonitorSpec == MonitorInit /\ [][MonitorNext]_<<vars, monitorVars>>

-----------------------------------------------------------------------------

\* A window that closed since the last check has already been collected.
CameAndWent(v) ==
    \E id \in WindowIds :
        /\ id >= checkedAt
        /\ windows[id].state \in {"Matured", "Settled"}
        /\ v \in windows[id].used

(***************************************************************************)
(* Nobody is woken for nothing: without a slash, and while the manager     *)
(* moves no stake, a drop is reported only if a whole unbonding period     *)
(* went by unwatched, so that a window came and went between two checks    *)
(* (invariants.ts:98-102, "without the protocol asking").                  *)
(***************************************************************************)
AlarmIsExplained ==
    [][Check /\ seen["slashes"] = 0 => \A v \in Drifted : CameAndWent(v)]_<<vars, monitorVars>>
=============================================================================
