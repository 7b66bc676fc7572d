---------------------------- MODULE KeeperProofs ----------------------------
(***************************************************************************)
(* What the keeper promises of the window and of the cache, for any        *)
(* intervals, any number of pages and any number of faults.                *)
(*                                                                         *)
(* Both rest on the same argument.  In every state there is a number of    *)
(* ticks after which the keeper has looked at the window at the latest,    *)
(* and one after which it has harvested the next page; a tick takes one    *)
(* off, and nobody else can put one on.  What it may be overdue by is then *)
(* a sum that no step lets grow.                                           *)
(***************************************************************************)
EXTENDS Keeper, SumFacts, TLAPS

Harvesting == {"compound", "compound-read", "sync-start", "sync", "sync-read"}
Calling    == {"compound", "compound-read", "sync", "sync-read"}
Syncing    == {"sync-start", "sync", "sync-read"}

InPass == pc \in Queries \cup Executes

\* Ticks until a task that has `ticks` left on its schedule is reached, when
\* the keeper sleeps: a pass may begin just before it is due.
FromSleep(ticks) ==
    IF ticks = 0 THEN (IF slept THEN 0 ELSE 1) + MaxPass ELSE ticks + 2 * MaxPass

\* The same in a pass that goes to sleep without reaching the task.
FromPass(ticks) == ticks - passAge + 2 * MaxPass

ThisPass == MaxPass - passAge

\* Ticks until the keeper has dealt with the open window, at the latest.
UntilWindowVisit ==
    CASE pc = "asleep" -> FromSleep(untilWindow)
      [] pc \in {"open", "advance"} -> ThisPass
      [] pc = "check" -> IF untilWindow = 0 THEN ThisPass ELSE FromPass(untilWindow)
      [] pc \in {"unbonding", "collect"} -> FromPass(Least(WindowInterval, nextDue))
      [] OTHER -> FromPass(untilWindow)

\* Ticks until the keeper has harvested one more page, at the latest.
UntilHarvest ==
    CASE pc = "asleep" -> FromSleep(untilCompound)
      [] pc = "compound" -> ThisPass
      [] pc = "compound-read" -> FromPass(CompoundInterval)
      [] pc \in Syncing -> FromPass(untilCompound)
      [] OTHER -> IF untilCompound = 0 THEN ThisPass ELSE FromPass(untilCompound)

\* Ticks between two harvested pages at the latest, and between the first and
\* the last page of a sweep that begins after page `n`.
Turn == CompoundInterval + MaxPass
TurnsAfter(n) == (Pages - 1 - n) * Turn

\* Where the pass stands.
PassInv ==
    /\ TypeOK
    /\ InPass => passAge <= MaxPass
    /\ pc = "asleep" => passAge = 0
    /\ slept => pc = "asleep"
    /\ pc \in Harvesting => untilWindow > 0
    /\ pc \in Syncing => untilCompound = CompoundInterval
    /\ nextDue > 0
    /\ pc \notin Calling => calls = 0
    /\ pc \in {"compound", "sync"} => calls < CallCap
    /\ pc = "down" => excused = {"window", "cache"}

\* The window is visited before it has been closable for too long.
WindowInv ==
    /\ toClose > 0 => late = 0
    /\ Lead = 0 /\ pc = "advance" => toClose = 0 \/ toClose >= WindowLength - passAge
    /\ pc # "down" => UntilWindowVisit <= WindowInterval + 2 * MaxPass
    /\ "window" \notin excused => late + UntilWindowVisit <= toClose + LateLimit

\* The pages still to come are harvested before the cache is too old.
CacheInv ==
    /\ pc # "down" => UntilHarvest <= Turn + MaxPass
    /\ "cache" \notin excused =>
         age + UntilHarvest + TurnsAfter(cursor) <= Pages * Turn + MaxPass

Inv == PassInv /\ WindowInv /\ CacheInv
-----------------------------------------------------------------------------
(* Helpers.                                                                *)

(* The constants, one by one.                                              *)
LEMMA Constants ==
    /\ WindowLength \in Nat /\ WindowLength > 0
    /\ UnbondingPeriod \in Nat /\ UnbondingPeriod > 0
    /\ StaleAfter \in Nat /\ StaleAfter > 0
    /\ Pages \in Nat /\ Pages > 0
    /\ CompoundInterval \in Nat /\ CompoundInterval > 0
    /\ WindowInterval \in Nat /\ WindowInterval > 0
    /\ CallCap \in Nat /\ CallCap > 0
    /\ Lead \in Nat /\ MaxPass \in Nat /\ MaxDown \in Nat /\ MaxFaults \in Nat
    /\ Never \in Nat /\ Never >= WindowInterval /\ Never > 0
    /\ LateLimit \in Nat /\ LateLimit >= 2 * MaxPass
  BY KeeperConstants DEF Never, LateLimit, Minus

(* The soonest of a set of moments is one of them, and none is sooner.     *)
LEMMA Soonest ==
    ASSUME NEW S \in SUBSET Nat, S # {}
    PROVE  Min(S) \in S /\ \A n \in S : Min(S) <= n
  <1>1. PICK top \in S : TRUE
    OBVIOUS
  <1> DEFINE Below == {0 .. n : n \in {k \in S : k <= top}}
  <1> DEFINE All == 0 .. top
  <1>2. IsFiniteSet(All)
    BY FS_Interval
  <1>3. Below \in SUBSET SUBSET All /\ Below # {}
    BY <1>1
  <1> HIDE DEF Below, All
  <1>4. PICK m \in Below : \A s \in Below : s \subseteq m => s = m
    BY <1>2, <1>3, SmallestSubset
  <1> USE DEF Below
  <1>5. PICK n \in S : n <= top /\ m = 0 .. n
    BY <1>4
  <1>6. ASSUME NEW k \in S, k < n PROVE FALSE
    <2>1. 0 .. k \in Below /\ 0 .. k \subseteq 0 .. n
      BY <1>5, <1>6
    <2>2. 0 .. k = 0 .. n
      BY <1>4, <1>5, <2>1
    <2> QED BY <1>5, <1>6, <2>2
  <1>7. \A k \in S : n <= k
    BY <1>6
  <1> QED BY <1>7 DEF Min

(* The page after the last one is the first.                               *)
LEMMA NextPage ==
    ASSUME TypeOK
    PROVE  (cursor + 1) % Pages = IF cursor + 1 = Pages THEN 0 ELSE cursor + 1
  <1>1. \A b \in Nat \ {0} : \A a \in 0 .. b : a % b = IF a = b THEN 0 ELSE a
    BY Z3
  <1> QED BY <1>1, Constants DEF TypeOK

(* A call of the sweep.                                                    *)
LEMMA Swept ==
    ASSUME TypeOK, NEW cached, cached \in SUBSET AllPages, SweepsPage(cached)
    PROVE  /\ cursor' \in 0 .. Pages - 1 /\ age' \in 0 .. StaleAfter + 1
           /\ age' = 0 \/ (age' = age /\ cursor' = cursor + 1)
           /\ pending' \in SUBSET AllPages
           /\ UNCHANGED <<toClose, requested, inFlight, late>>
  <1>1. cursor' = (IF cursor + 1 = Pages THEN 0 ELSE cursor + 1)
    BY NextPage DEF SweepsPage
  <1> QED BY <1>1, Constants DEF SweepsPage, TypeOK

(* What an applied transaction leaves of the contract.                     *)
LEMMA ContractType ==
    ASSUME TypeOK, UserTransacts \/ Closes \/ Collects \/ Harvests \/ Rereads
    PROVE  /\ toClose' \in 0 .. WindowLength
           /\ inFlight' \in SUBSET (0 .. UnbondingPeriod)
           /\ age' \in 0 .. StaleAfter + 1 /\ cursor' \in 0 .. Pages - 1
           /\ accrued' \in SUBSET AllPages /\ pending' \in SUBSET AllPages
           /\ late' \in 0 .. LateLimit + 1
           /\ age' = 0 \/ (age' = age /\ (cursor' = cursor \/ cursor' = cursor + 1))
           /\ (toClose' = WindowLength /\ late' = 0) \/ (toClose' = toClose /\ late' = late)
  <1> USE Constants
  <1>1. CASE UserTransacts
    <2>1. PICK new \in {{}, {UnbondingPeriod}} :
            \/ toClose' = WindowLength /\ inFlight' = inFlight \cup new /\ late' = 0
            \/ toClose' = toClose /\ inFlight' = inFlight /\ late' = late
      BY <1>1 DEF UserTransacts
    <2>2. age' = 0 /\ pending' = accrued /\ cursor' = cursor /\ accrued' = accrued
      BY <1>1 DEF UserTransacts
    <2>3. inFlight' \in SUBSET (0 .. UnbondingPeriod)
      <3>1. new \subseteq 0 .. UnbondingPeriod
        OBVIOUS
      <3> QED BY <2>1, <3>1 DEF TypeOK
    <2>4. (toClose' = WindowLength /\ late' = 0) \/ (toClose' = toClose /\ late' = late)
      BY <2>1, <2>2
    <2>5. toClose \in 0 .. WindowLength /\ late \in 0 .. LateLimit + 1
      BY DEF TypeOK
    <2>6. toClose' \in 0 .. WindowLength /\ late' \in 0 .. LateLimit + 1
      BY <2>4, <2>5
    <2>7. /\ accrued' \in SUBSET AllPages /\ pending' \in SUBSET AllPages
          /\ cursor' \in 0 .. Pages - 1 /\ age' \in 0 .. StaleAfter + 1
      BY <2>2 DEF TypeOK
    <2>8. age' = 0 \/ (age' = age /\ (cursor' = cursor \/ cursor' = cursor + 1))
      BY <2>2
    <2> QED BY <2>3, <2>4, <2>6, <2>7, <2>8
  <1>2. CASE Closes
    <2>1. PICK new \in {{}, {UnbondingPeriod}} : inFlight' = inFlight \cup new
      BY <1>2 DEF Closes
    <2>2. /\ age' = age /\ pending' = pending /\ cursor' = cursor /\ accrued' = accrued
          /\ toClose' = WindowLength /\ late' = 0
      BY <1>2 DEF Closes
    <2>3. inFlight' \in SUBSET (0 .. UnbondingPeriod)
      <3>1. new \subseteq 0 .. UnbondingPeriod
        OBVIOUS
      <3> QED BY <2>1, <3>1 DEF TypeOK
    <2>4. (toClose' = WindowLength /\ late' = 0) \/ (toClose' = toClose /\ late' = late)
      BY <2>1, <2>2
    <2>5. toClose \in 0 .. WindowLength /\ late \in 0 .. LateLimit + 1
      BY DEF TypeOK
    <2>6. toClose' \in 0 .. WindowLength /\ late' \in 0 .. LateLimit + 1
      BY <2>4, <2>5
    <2>7. /\ accrued' \in SUBSET AllPages /\ pending' \in SUBSET AllPages
          /\ cursor' \in 0 .. Pages - 1 /\ age' \in 0 .. StaleAfter + 1
      BY <2>2 DEF TypeOK
    <2>8. age' = 0 \/ (age' = age /\ (cursor' = cursor \/ cursor' = cursor + 1))
      BY <2>2
    <2> QED BY <2>3, <2>4, <2>6, <2>7, <2>8
  <1>3. CASE Collects
    BY <1>3 DEF Collects, TypeOK
  <1>4. CASE Harvests
    <2>1. pending \ {cursor + 1} \in SUBSET AllPages /\ accrued' \in SUBSET AllPages
      BY <1>4 DEF Harvests, TypeOK
    <2>2. SweepsPage(pending \ {cursor + 1})
      BY <1>4 DEF Harvests
    <2> QED BY <2>1, <2>2, Swept DEF TypeOK
  <1>5. CASE Rereads
    <2>1. /\ (pending \ {cursor + 1}) \cup (accrued \cap {cursor + 1}) \in SUBSET AllPages
          /\ accrued' \in SUBSET AllPages
      BY <1>5 DEF Rereads, TypeOK
    <2>2. SweepsPage((pending \ {cursor + 1}) \cup (accrued \cap {cursor + 1}))
      BY <1>5 DEF Rereads
    <2> QED BY <2>1, <2>2, Swept DEF TypeOK
  <1> QED BY <1>1, <1>2, <1>3, <1>4, <1>5

-----------------------------------------------------------------------------
(* What every step keeps of the types, and of where a pass stands.         *)

ContractTypes ==
    /\ toClose \in 0 .. WindowLength
    /\ inFlight \in SUBSET (0 .. UnbondingPeriod)
    /\ age \in 0 .. StaleAfter + 1
    /\ cursor \in 0 .. Pages - 1
    /\ accrued \in SUBSET AllPages /\ pending \in SUBSET AllPages
    /\ late \in 0 .. LateLimit + 1

KeeperTypes ==
    /\ pc \in Queries \cup Executes \cup {"asleep", "down"}
    /\ passAge \in Nat
    /\ untilWindow \in 0 .. WindowInterval
    /\ untilCompound \in 0 .. CompoundInterval
    /\ nextDue \in 1 .. Never
    /\ calls \in 0 .. CallCap
    /\ InPass => passAge <= MaxPass
    /\ pc = "asleep" => passAge = 0
    /\ pc \in Harvesting => untilWindow > 0
    /\ pc \in Syncing => untilCompound = CompoundInterval
    /\ pc \notin Calling => calls = 0
    /\ pc \in {"compound", "sync"} => calls < CallCap

FaultTypes ==
    /\ faults \in 0 .. MaxFaults
    /\ excused \in SUBSET {"window", "cache"}
    /\ pc = "down" => excused = {"window", "cache"}

Flags ==
    /\ requested \in BOOLEAN /\ slept \in BOOLEAN /\ stale \in BOOLEAN
    /\ slept => pc = "asleep"

(* PassInv in four parts, which are kept for reasons of their own.         *)
LEMMA Parts == PassInv <=> ContractTypes /\ KeeperTypes /\ FaultTypes /\ Flags
  BY Constants DEF PassInv, TypeOK, ContractTypes, KeeperTypes, FaultTypes, Flags

(* The calls by name.                                                      *)
LEMMA Calls ==
    /\ InPass <=> pc \in {"check", "open", "advance", "unbonding", "collect",
                          "compound", "compound-read", "sync-start", "sync", "sync-read"}
  BY DEF InPass, Queries, Executes

(* The moment the keeper marks its window schedule with, after it has asked *)
(* for the windows in flight.                                              *)
LEMMA Marked ==
    ASSUME ContractTypes, KeeperTypes, ~Ripe, NEW maturities,
           maturities = {r - Lead + passAge : r \in inFlight},
           NEW mark, mark = MarkedUntil(WindowInterval, Min({nextDue} \cup maturities))
    PROVE  mark \in 1 .. WindowInterval /\ mark <= Least(WindowInterval, nextDue)
  <1>1. \A r \in inFlight : r \in Nat /\ r > Lead
    BY Constants DEF ContractTypes, KeeperTypes, Ripe
  <1>2. \A m \in maturities : m \in Nat /\ m > 0
    BY <1>1, Constants DEF ContractTypes, KeeperTypes
  <1>3. nextDue \in Nat /\ nextDue > 0
    BY Constants DEF ContractTypes, KeeperTypes
  <1> DEFINE S == {nextDue} \cup maturities
  <1>4. Min(S) \in S /\ \A n \in S : Min(S) <= n
    BY <1>2, <1>3, Soonest
  <1>5. Min(S) \in Nat /\ Min(S) > 0 /\ Min(S) <= nextDue
    BY <1>2, <1>3, <1>4
  <1> QED BY <1>3, <1>5, Constants DEF MarkedUntil, Least

(* A pass that goes to sleep.                                              *)
LEMMA SleepTypes ==
    ASSUME KeeperTypes, NEW window \in 0 .. WindowInterval,
           NEW compound \in 0 .. CompoundInterval, Sleeps(window, compound)
    PROVE  KeeperTypes'
  BY Constants DEF KeeperTypes, Sleeps, Minus, InPass, Queries, Executes, Harvesting, Syncing, Calling

(* A pass that goes on to the harvest or to sleep.                         *)
LEMMA HarvestTypes ==
    ASSUME KeeperTypes, InPass, calls = 0, NEW isStale, NEW window \in 1 .. WindowInterval,
           HarvestOrSleep(isStale, window)
    PROVE  KeeperTypes'
  <1>1. CASE isStale \/ untilCompound = 0
    <2>1. /\ pc' = "compound" /\ untilWindow' = window /\ nextDue' = Never
          /\ UNCHANGED <<passAge, untilCompound, calls>>
      BY <1>1 DEF HarvestOrSleep
    <2> QED BY <2>1, Constants
            DEF KeeperTypes, InPass, Queries, Executes, Harvesting, Syncing, Calling
  <1>2. CASE ~(isStale \/ untilCompound = 0)
    <2>1. Sleeps(window, untilCompound)
      BY <1>2 DEF HarvestOrSleep
    <2>2. window \in 0 .. WindowInterval /\ untilCompound \in 0 .. CompoundInterval
      BY DEF KeeperTypes
    <2> QED BY <2>1, <2>2, SleepTypes
  <1> QED BY <1>1, <1>2

(* The answer of a transaction, whatever it was.                           *)
LEMMA AnswerTypes ==
    ASSUME KeeperTypes, NEW ok \in BOOLEAN, Answered(ok)
    PROVE  KeeperTypes'
  <1> USE Constants DEF KeeperTypes, InPass, Queries, Executes, Harvesting, Syncing, Calling
  <1>1. CASE pc = "advance" /\ Awaits("unbonding") /\ UNCHANGED passVars
    BY <1>1 DEF Awaits, passVars, scheduleVars
  <1>2. CASE pc = "collect" /\ HarvestOrSleep(stale, MarkedUntil(WindowInterval, nextDue))
    <2>1. MarkedUntil(WindowInterval, nextDue) \in 1 .. WindowInterval
      BY DEF MarkedUntil, Least
    <2> QED BY <1>2, <2>1, HarvestTypes
  <1>3. CASE /\ pc = "compound" /\ ok
             /\ Awaits("compound-read") /\ calls' = calls + 1
             /\ UNCHANGED <<nextDue, stale>>
    BY <1>3 DEF Awaits, scheduleVars
  <1>4. CASE /\ pc = "compound" /\ ~ok /\ stale
             /\ pc' = "sync-start" /\ untilCompound' = CompoundInterval /\ calls' = 0
             /\ UNCHANGED <<slept, passAge, untilWindow, nextDue, stale>>
    BY <1>4
  <1>5. CASE pc = "compound" /\ ~ok /\ ~stale /\ Sleeps(untilWindow, CompoundInterval)
    BY <1>5, SleepTypes
  <1>6. CASE /\ pc = "sync" /\ ok
             /\ Awaits("sync-read") /\ calls' = calls + 1
             /\ UNCHANGED <<nextDue, stale>>
    BY <1>6 DEF Awaits, scheduleVars
  <1>7. CASE pc = "sync" /\ ~ok /\ Sleeps(untilWindow, untilCompound)
    BY <1>7, SleepTypes
  <1> HIDE DEF KeeperTypes
  <1> QED BY <1>1, <1>2, <1>3, <1>4, <1>5, <1>6, <1>7 DEF Answered

(* Every step keeps where a pass stands.                                   *)
LEMMA KeeperTypesStep ==
    ASSUME ContractTypes, KeeperTypes, Flags, [Next]_vars
    PROVE  KeeperTypes'
  <1> USE Constants
  <1>1. CASE WakeUp
    BY <1>1 DEF WakeUp, passVars, scheduleVars, KeeperTypes, InPass, Queries, Executes,
                Harvesting, Syncing, Calling
  <1>2. CASE Check
    <2>1. CASE untilWindow = 0
      BY <1>2, <2>1 DEF Check, Awaits, scheduleVars, KeeperTypes, InPass, Queries,
                        Executes, Harvesting, Syncing, Calling
    <2>2. CASE untilWindow # 0
      <3>1. untilWindow \in 1 .. WindowInterval /\ InPass /\ calls = 0
        BY <1>2, <2>2 DEF Check, KeeperTypes, InPass, Queries, Calling
      <3>2. HarvestOrSleep(Unattended, untilWindow)
        BY <1>2, <2>2 DEF Check
      <3> QED BY <3>1, <3>2, HarvestTypes
    <2> QED BY <2>1, <2>2
  <1>3. CASE AskOpenWindow
    <2>1. nextDue' \in 1 .. Never
      BY <1>3 DEF AskOpenWindow, Least, KeeperTypes, ContractTypes
    <2> QED BY <1>3, <2>1 DEF AskOpenWindow, Awaits, scheduleVars, KeeperTypes, InPass,
                              Queries, Executes, Harvesting, Syncing, Calling
  <1>4. CASE AskUnbonding
    <2>1. CASE Ripe
      BY <1>4, <2>1 DEF AskUnbonding, Awaits, passVars, scheduleVars, KeeperTypes, InPass,
                        Queries, Executes, Harvesting, Syncing, Calling
    <2>2. CASE ~Ripe
      <3> DEFINE mark == MarkedUntil(WindowInterval,
                           Min({nextDue} \cup {r - Lead + passAge : r \in inFlight}))
      <3>1. mark \in 1 .. WindowInterval
        BY <2>2, Marked
      <3>2. HarvestOrSleep(stale, mark)
        BY <1>4, <2>2 DEF AskUnbonding
      <3>3. InPass /\ calls = 0
        BY <1>4 DEF AskUnbonding, KeeperTypes, InPass, Queries, Calling
      <3> HIDE DEF mark
      <3> QED BY <3>1, <3>2, <3>3, HarvestTypes
    <2> QED BY <2>1, <2>2
  <1>5. CASE Execute
    <2>1. Answered(TRUE)
      BY <1>5 DEF Execute
    <2> QED BY <2>1, AnswerTypes
  <1>6. CASE ReadAfterCompound
    <2>1. CASE SweptAway \/ calls = CallCap
      <3>1. Sleeps(untilWindow, CompoundInterval)
        BY <1>6, <2>1 DEF ReadAfterCompound
      <3>2. untilWindow \in 0 .. WindowInterval /\ CompoundInterval \in 0 .. CompoundInterval
        BY DEF KeeperTypes
      <3> QED BY <3>1, <3>2, SleepTypes
    <2>2. CASE ~(SweptAway \/ calls = CallCap)
      BY <1>6, <2>2 DEF ReadAfterCompound, Awaits, passVars, scheduleVars, KeeperTypes,
                        InPass, Queries, Executes, Harvesting, Syncing, Calling
    <2> QED BY <2>1, <2>2
  <1>7. CASE ReadForSync
    <2>1. CASE pc = "sync-read" /\ (~Unattended \/ calls = CallCap)
      <3>1. Sleeps(untilWindow, untilCompound)
        BY <1>7, <2>1 DEF ReadForSync
      <3>2. untilWindow \in 0 .. WindowInterval /\ untilCompound \in 0 .. CompoundInterval
        BY DEF KeeperTypes
      <3> QED BY <3>1, <3>2, SleepTypes
    <2>2. CASE ~(pc = "sync-read" /\ (~Unattended \/ calls = CallCap))
      <3>1. /\ pc' = "sync" /\ pc \in {"sync-start", "sync-read"}
            /\ pc = "sync-read" => calls # CallCap
            /\ UNCHANGED <<passAge, untilWindow, untilCompound, nextDue, calls>>
        BY <1>7, <2>2 DEF ReadForSync, Awaits, passVars, scheduleVars
      <3> QED BY <3>1 DEF KeeperTypes, InPass, Queries, Executes, Harvesting, Syncing, Calling
    <2> QED BY <2>1, <2>2
  <1>8. CASE SomeoneElse
    <2>1. UNCHANGED <<pc, passAge, untilWindow, untilCompound, nextDue, calls>>
      BY <1>8 DEF SomeoneElse, passVars, scheduleVars
    <2> QED BY <2>1 DEF KeeperTypes, InPass
  <1>9. CASE Tick
    <2>1. UNCHANGED <<pc, nextDue, calls>>
      BY <1>9 DEF Tick, passVars
    <2>2. CASE pc = "asleep"
      <3>1. /\ passAge' = passAge /\ untilWindow' = Dec(untilWindow)
            /\ untilCompound' = Dec(untilCompound)
        BY <1>9, <2>2 DEF Tick
      <3> QED BY <2>1, <2>2, <3>1 DEF KeeperTypes, Dec, InPass, Queries, Executes,
                                      Harvesting, Syncing, Calling
    <2>3. CASE pc # "asleep"
      <3>1. passAge' = passAge + 1 /\ UNCHANGED <<untilWindow, untilCompound>>
        BY <1>9, <2>3 DEF Tick, scheduleVars
      <3>2. pc # "down" => passAge < MaxPass
        BY <1>9, <2>3 DEF Tick, MayTick
      <3> QED BY <2>1, <2>3, <3>1, <3>2 DEF KeeperTypes, InPass, Queries, Executes,
                                            Harvesting, Syncing, Calling
    <2> QED BY <2>2, <2>3
  <1>10. CASE QueryThrows
    <2>1. Sleeps(untilWindow, untilCompound)
      BY <1>10 DEF QueryThrows
    <2>2. untilWindow \in 0 .. WindowInterval /\ untilCompound \in 0 .. CompoundInterval
      BY DEF KeeperTypes
    <2> QED BY <2>1, <2>2, SleepTypes
  <1>11. CASE ExecuteFails
    <2>1. Answered(FALSE)
      BY <1>11 DEF ExecuteFails
    <2> QED BY <2>1, AnswerTypes
  <1>12. CASE Killed
    BY <1>12 DEF Killed, KeeperTypes, InPass, Queries, Executes, Harvesting, Syncing, Calling
  <1>13. CASE Restarted
    BY <1>13 DEF Restarted, passVars, scheduleVars, KeeperTypes, InPass, Queries, Executes,
                 Harvesting, Syncing, Calling
  <1>14. CASE UNCHANGED vars
    BY <1>14 DEF vars, passVars, scheduleVars, KeeperTypes, InPass
  <1> QED BY <1>1, <1>2, <1>3, <1>4, <1>5, <1>6, <1>7, <1>8, <1>9, <1>10, <1>11, <1>12,
             <1>13, <1>14 DEF Next, KeeperStep

(* Every step keeps the contract's types.                                  *)
LEMMA ContractTypesStep ==
    ASSUME PassInv, [Next]_vars
    PROVE  ContractTypes'
  <1> DEFINE Someone == UserTransacts \/ Closes \/ Collects \/ Harvests \/ Rereads
  <1>1. CASE Someone
    <2>1. TypeOK
      BY DEF PassInv
    <2> QED BY <1>1, <2>1, ContractType DEF ContractTypes
  <1>2. CASE UNCHANGED <<contractVars, late>>
    BY <1>2, Parts DEF ContractTypes, contractVars
  <1>3. CASE Tick
    <2>1. ContractTypes
      BY Parts
    <2>2. \A r \in inFlight : Dec(r) \in 0 .. UnbondingPeriod
      BY <2>1, Constants DEF ContractTypes, Dec
    <2>3. inFlight' \in SUBSET (0 .. UnbondingPeriod)
      BY <1>3, <2>2 DEF Tick
    <2>4. /\ toClose' = Dec(toClose) /\ age' = Upto(age + 1, StaleAfter + 1)
          /\ accrued' = AllPages /\ UNCHANGED <<cursor, pending>>
          /\ late' = IF toClose = 0 THEN Upto(late + 1, LateLimit + 1) ELSE 0
      BY <1>3 DEF Tick
    <2>5. toClose' \in 0 .. WindowLength
      BY <2>1, <2>4, Constants DEF ContractTypes, Dec
    <2>6. late' \in 0 .. LateLimit + 1 /\ age' \in 0 .. StaleAfter + 1
      BY <2>1, <2>4, Constants DEF ContractTypes, Upto
    <2> QED BY <2>1, <2>3, <2>4, <2>5, <2>6 DEF ContractTypes
  <1>4. Next => \/ Someone \/ Tick \/ UNCHANGED <<contractVars, late>>
    BY DEF Next, KeeperStep, WakeUp, Check, AskOpenWindow, AskUnbonding, Execute,
           ReadAfterCompound, ReadForSync, QueryThrows, ExecuteFails, Killed, Restarted,
           SomeoneElse, Observes, history, Applied, Untouched
  <1>5. UNCHANGED vars => UNCHANGED <<contractVars, late>>
    BY DEF vars, history
  <1> QED BY <1>1, <1>2, <1>3, <1>4, <1>5

(* Every step keeps the count of the faults, and a dead keeper is excused. *)
LEMMA FaultTypesStep ==
    ASSUME FaultTypes, [Next]_vars
    PROVE  FaultTypes'
  <1> USE Constants DEF FaultTypes
  <1>1. CASE Fault
    BY <1>1 DEF Fault
  <1>2. CASE UNCHANGED <<faults, excused>> /\ pc' # "down"
    BY <1>2
  <1>3. CASE Execute
    <2>1. faults' = faults /\ excused' \subseteq excused
      BY <1>3 DEF Execute, Closed, Stamped
    <2>2. pc' # "down"
      BY <1>3 DEF Execute, Answered, HarvestOrSleep, Sleeps, Awaits
    <2> QED BY <2>1, <2>2
  <1>4. CASE SomeoneElse
    BY <1>4 DEF SomeoneElse
  <1>5. CASE Tick
    BY <1>5 DEF Tick
  <1>6. CASE UNCHANGED vars
    BY <1>6 DEF vars, history
  <1>7. WakeUp \/ Check \/ AskOpenWindow \/ AskUnbonding \/ ReadAfterCompound
          \/ ReadForSync \/ Restarted
        => UNCHANGED <<faults, excused>> /\ pc' # "down"
    BY DEF WakeUp, Check, AskOpenWindow, AskUnbonding, ReadAfterCompound, ReadForSync,
           Restarted, Observes, history, HarvestOrSleep, Sleeps, Awaits
  <1>8. QueryThrows \/ ExecuteFails \/ Killed => Fault
    BY DEF QueryThrows, ExecuteFails, Killed
  <1> QED BY <1>1, <1>2, <1>3, <1>4, <1>5, <1>6, <1>7, <1>8 DEF Next, KeeperStep

(* Every step keeps the flags.                                             *)
LEMMA FlagsStep ==
    ASSUME Flags, [Next]_vars
    PROVE  Flags'
  <1>1. requested' \in BOOLEAN
    BY DEF Flags, Next, vars, contractVars, KeeperStep, WakeUp, Check, AskOpenWindow, AskUnbonding,
           Execute, ReadAfterCompound, ReadForSync, QueryThrows, ExecuteFails, Killed,
           Restarted, SomeoneElse, Observes, Applied, Untouched, UserTransacts, Closes,
           Collects, Harvests, Rereads, SweepsPage, Tick
  <1>2. Unattended \in BOOLEAN
    BY DEF Unattended
  <1>3. CASE UNCHANGED <<pc, slept, stale>>
    BY <1>1, <1>3 DEF Flags
  <1>4. ASSUME NEW window, NEW compound, Sleeps(window, compound) PROVE Flags'
    BY <1>1, <1>4 DEF Sleeps, Flags
  <1>5. ASSUME NEW isStale \in BOOLEAN, NEW window, HarvestOrSleep(isStale, window), ~slept
        PROVE  Flags'
    <2>1. CASE isStale \/ untilCompound = 0
      BY <1>1, <1>5, <2>1 DEF HarvestOrSleep, Flags
    <2>2. CASE ~(isStale \/ untilCompound = 0)
      BY <1>4, <1>5, <2>2 DEF HarvestOrSleep
    <2> QED BY <2>1, <2>2
  <1>6. ASSUME ~slept, slept' = slept, stale' \in BOOLEAN PROVE Flags'
    <2>1. slept \in BOOLEAN
      BY DEF Flags
    <2> QED BY <1>1, <1>6, <2>1, Zenon DEF Flags
  <1>7. pc # "asleep" => ~slept
    BY DEF Flags
  <1>8. CASE WakeUp
    <2>1. slept' = FALSE /\ stale' = stale
      BY <1>8 DEF WakeUp, passVars
    <2> QED BY <1>1, <2>1, Zenon DEF Flags
  <1>9. CASE Check
    <2>1. ~slept
      BY <1>7, <1>9 DEF Check
    <2>2. CASE untilWindow = 0
      <3>1. stale' = Unattended /\ slept' = slept
        BY <1>9, <2>2 DEF Check, Awaits
      <3> QED BY <1>2, <1>6, <2>1, <3>1
    <2>3. CASE untilWindow # 0
      BY <1>2, <1>5, <1>9, <2>1, <2>3 DEF Check
    <2> QED BY <2>2, <2>3
  <1>10. CASE AskOpenWindow
    <2>1. ~slept /\ slept' = slept /\ stale' = stale
      BY <1>7, <1>10 DEF AskOpenWindow, Awaits
    <2> QED BY <1>6, <2>1 DEF Flags
  <1>11. CASE AskUnbonding
    <2>1. ~slept /\ stale \in BOOLEAN
      BY <1>7, <1>11 DEF AskUnbonding, Flags
    <2>2. CASE Ripe
      BY <1>6, <1>11, <2>1, <2>2 DEF AskUnbonding, Awaits, passVars
    <2>3. CASE ~Ripe
      BY <1>5, <1>11, <2>1, <2>3 DEF AskUnbonding
    <2> QED BY <2>2, <2>3
  <1>12. ASSUME NEW ok \in BOOLEAN, Answered(ok) PROVE Flags'
    <2>1. ~slept /\ stale \in BOOLEAN
      BY <1>7, <1>12 DEF Answered, Flags
    <2> QED BY <1>4, <1>5, <1>6, <1>12, <2>1 DEF Answered, Awaits, passVars
  <1>13. CASE Execute
    BY <1>12, <1>13 DEF Execute
  <1>14. CASE ReadAfterCompound
    <2>1. ~slept /\ stale \in BOOLEAN
      BY <1>7, <1>14 DEF ReadAfterCompound, Flags
    <2> QED BY <1>4, <1>6, <1>14, <2>1 DEF ReadAfterCompound, Awaits, passVars
  <1>15. CASE ReadForSync
    <2>1. ~slept /\ stale \in BOOLEAN
      BY <1>7, <1>15 DEF ReadForSync, Flags
    <2> QED BY <1>4, <1>6, <1>15, <2>1 DEF ReadForSync, Awaits, passVars
  <1>16. CASE QueryThrows
    BY <1>4, <1>16 DEF QueryThrows
  <1>17. CASE ExecuteFails
    BY <1>12, <1>17 DEF ExecuteFails
  <1>18. CASE Killed
    <2>1. slept' = FALSE /\ stale' = FALSE
      BY <1>18 DEF Killed
    <2> QED BY <1>1, <2>1, Zenon DEF Flags
  <1>19. CASE Restarted
    <2>1. pc' = "asleep" /\ slept' = TRUE /\ stale' = stale
      BY <1>19 DEF Restarted, passVars
    <2> QED BY <1>1, <2>1, Zenon DEF Flags
  <1>20. CASE SomeoneElse
    BY <1>3, <1>20 DEF SomeoneElse, passVars
  <1>21. CASE Tick
    <2>1. pc' = pc /\ stale' = stale
      BY <1>21 DEF Tick, passVars
    <2>2. CASE pc = "asleep"
      <3>1. slept' = TRUE
        BY <1>21, <2>2 DEF Tick
      <3> QED BY <1>1, <2>1, <2>2, <3>1, Zenon DEF Flags
    <2>3. CASE pc # "asleep"
      BY <1>3, <1>21, <2>1, <2>3 DEF Tick
    <2> QED BY <2>2, <2>3
  <1>22. CASE UNCHANGED vars
    BY <1>3, <1>22 DEF vars, passVars
  <1> QED BY <1>8, <1>9, <1>10, <1>11, <1>13, <1>14, <1>15, <1>16, <1>17, <1>18, <1>19,
             <1>20, <1>21, <1>22 DEF Next, KeeperStep

(* Every step keeps the types and where a pass stands.                     *)
LEMMA PassStep ==
    ASSUME PassInv, [Next]_vars
    PROVE  PassInv'
  <1>1. ContractTypes /\ KeeperTypes /\ FaultTypes /\ Flags
    BY Parts
  <1>2. ContractTypes'
    BY ContractTypesStep
  <1>3. KeeperTypes' /\ FaultTypes' /\ Flags'
    BY <1>1, KeeperTypesStep, FaultTypesStep, FlagsStep
  <1>4. PassInv' <=> ContractTypes' /\ KeeperTypes' /\ FaultTypes' /\ Flags'
    BY Constants DEF PassInv, TypeOK, ContractTypes, KeeperTypes, FaultTypes, Flags, InPass
  <1> QED BY <1>2, <1>3, <1>4

-----------------------------------------------------------------------------
(* The window.                                                             *)

(* The turn of the window, once the pass goes on to the harvest or sleeps. *)
LEMMA VisitAfter ==
    ASSUME PassInv, InPass, NEW isStale, NEW window \in 1 .. WindowInterval,
           HarvestOrSleep(isStale, window)
    PROVE  /\ UntilWindowVisit' <= FromPass(window)
           /\ pc' \in {"compound", "asleep"}
  <1>0. passAge \in Nat /\ passAge <= MaxPass /\ KeeperTypes
    BY Parts DEF KeeperTypes
  <1>1. CASE isStale \/ untilCompound = 0
    <2>1. pc' = "compound" /\ untilWindow' = window /\ passAge' = passAge
      BY <1>1 DEF HarvestOrSleep
    <2> QED BY <1>0, <2>1, Constants DEF UntilWindowVisit, FromPass
  <1>2. CASE ~(isStale \/ untilCompound = 0)
    <2>1. Sleeps(window, untilCompound)
      BY <1>2 DEF HarvestOrSleep
    <2>2. pc' = "asleep" /\ ~slept' /\ untilWindow' = Minus(window, passAge)
      BY <2>1 DEF Sleeps
    <2> QED BY <1>0, <2>2, Constants DEF UntilWindowVisit, FromPass, FromSleep, Minus
  <1> QED BY <1>1, <1>2

(* The turn of the window, once the pass goes to sleep before or after it. *)
LEMMA VisitAfterSleep ==
    ASSUME PassInv, InPass, NEW window \in 0 .. WindowInterval, NEW compound,
           Sleeps(window, compound)
    PROVE  /\ UntilWindowVisit' <= WindowInterval + 2 * MaxPass
           /\ window > 0 => UntilWindowVisit' <= FromPass(window)
           /\ pc' = "asleep"
  <1>0. passAge \in Nat /\ passAge <= MaxPass
    BY Parts DEF KeeperTypes
  <1>1. pc' = "asleep" /\ ~slept' /\ untilWindow' = Minus(window, passAge)
    BY DEF Sleeps
  <1> QED BY <1>0, <1>1, Constants DEF UntilWindowVisit, FromPass, FromSleep, Minus

(* The turn is a number of ticks, and none of them is owed.                *)
LEMMA VisitType ==
    ASSUME PassInv
    PROVE  UntilWindowVisit \in Int /\ (pc # "down" => UntilWindowVisit >= 0)
  <1>1. KeeperTypes
    BY Parts
  <1> QED BY <1>1, Constants DEF KeeperTypes, UntilWindowVisit, FromPass, FromSleep, ThisPass,
                Least, InPass, Queries, Executes

(* The same after a step.                                                  *)
LEMMA VisitTypeAfter == ASSUME PassInv' PROVE UntilWindowVisit' \in Int
  <1>1. KeeperTypes'
    BY Constants DEF PassInv, TypeOK, KeeperTypes, InPass
  <1> QED BY <1>1, Constants
          DEF KeeperTypes, UntilWindowVisit, FromPass, FromSleep, ThisPass, Least

(* A step of the keeper that leaves the window alone and does not put off   *)
(* the visit, or that is a fault.                                          *)
LEMMA NoLater ==
    ASSUME PassInv, PassInv', WindowInv, UNCHANGED <<toClose, late>>, pc' # "advance",
           pc' # "down" => UntilWindowVisit' <= WindowInterval + 2 * MaxPass,
           \/ "window" \in excused'
           \/ pc # "down" /\ "window" \notin excused /\ UntilWindowVisit' <= UntilWindowVisit
    PROVE  WindowInv'
  <1>1. UntilWindowVisit \in Int /\ toClose \in Nat /\ late \in Nat /\ LateLimit \in Nat
    BY VisitType, Constants DEF PassInv, TypeOK
  <1>2. UntilWindowVisit' \in Int
    BY VisitTypeAfter
  <1>3. "window" \notin excused' => late' + UntilWindowVisit' <= toClose' + LateLimit
    <2> SUFFICES ASSUME "window" \notin excused'
                 PROVE  late' + UntilWindowVisit' <= toClose' + LateLimit
      OBVIOUS
    <2>1. late + UntilWindowVisit <= toClose + LateLimit
      BY DEF WindowInv
    <2>2. UntilWindowVisit' <= UntilWindowVisit /\ late' = late /\ toClose' = toClose
      OBVIOUS
    <2>3. PICK before \in Int, after \in Int :
            before = UntilWindowVisit /\ after = UntilWindowVisit'
      BY <1>1, <1>2
    <2>4. after <= before
      BY <2>2, <2>3
    <2>5. late + before <= toClose + LateLimit
      BY <2>1, <2>3
    <2>6. late \in Nat /\ toClose \in Nat /\ LateLimit \in Nat
      BY <1>1
    <2>7. late + after <= toClose + LateLimit
      BY <2>4, <2>5, <2>6
    <2> QED BY <2>2, <2>3, <2>7
  <1> QED BY <1>3 DEF WindowInv

(* A visit that did not close the window, because someone else had.        *)
LEMMA EarlyEnough ==
    ASSUME WindowInv, PassInv, pc = "advance",
           NEW visit \in Int, visit <= WindowInterval - passAge + 2 * MaxPass
    PROVE  /\ toClose > 0 => visit <= toClose + LateLimit
           /\ visit <= WindowLength + LateLimit
  <1>1. toClose \in Nat /\ passAge \in Nat
    BY Constants DEF PassInv, TypeOK
  <1> QED BY <1>1, Constants DEF WindowInv, LateLimit, Minus

(* The pass is over after the harvest.                                     *)
LEMMA VisitAtEnd ==
    ASSUME PassInv, pc \in Harvesting, NEW compound, Sleeps(untilWindow, compound)
    PROVE  UntilWindowVisit' <= UntilWindowVisit /\ pc' = "asleep"
  <1>1. untilWindow \in 0 .. WindowInterval /\ untilWindow > 0 /\ InPass
    BY Parts DEF KeeperTypes, Harvesting, InPass, Executes, Queries
  <1>2. UntilWindowVisit = FromPass(untilWindow)
    BY DEF UntilWindowVisit, Harvesting
  <1> QED BY <1>1, <1>2, VisitAfterSleep

(* The keeper's answers, as the window sees them.                          *)
LEMMA VisitAfterAnswer ==
    ASSUME PassInv, NEW ok \in BOOLEAN, Answered(ok)
    PROVE  /\ pc' \notin {"advance", "down"}
           /\ pc = "advance" => UntilWindowVisit' <= WindowInterval - passAge + 2 * MaxPass
           /\ pc # "advance" => UntilWindowVisit' <= UntilWindowVisit
  <1>0. KeeperTypes
    BY Parts
  <1> USE Constants
  <1>1. CASE pc = "advance" /\ Awaits("unbonding") /\ UNCHANGED passVars
    BY <1>0, <1>1 DEF Awaits, passVars, scheduleVars, UntilWindowVisit, FromPass, Least, KeeperTypes
  <1>2. CASE pc = "collect" /\ HarvestOrSleep(stale, MarkedUntil(WindowInterval, nextDue))
    <2> DEFINE window == MarkedUntil(WindowInterval, nextDue)
    <2>1. window \in 1 .. WindowInterval /\ UntilWindowVisit = FromPass(window)
      BY <1>0, <1>2 DEF MarkedUntil, Least, KeeperTypes, UntilWindowVisit
    <2>2. InPass
      BY <1>2 DEF InPass, Executes
    <2> HIDE DEF window
    <2>3. UntilWindowVisit' <= FromPass(window) /\ pc' \in {"compound", "asleep"}
      BY <1>2, <2>1, <2>2, VisitAfter DEF window
    <2> QED BY <1>2, <2>1, <2>3
  <1>3. CASE /\ pc = "compound" /\ ok
             /\ Awaits("compound-read") /\ calls' = calls + 1
             /\ UNCHANGED <<nextDue, stale>>
    BY <1>0, <1>3 DEF Awaits, scheduleVars, UntilWindowVisit, FromPass, KeeperTypes
  <1>4. CASE /\ pc = "compound" /\ ~ok /\ stale
             /\ pc' = "sync-start" /\ untilCompound' = CompoundInterval /\ calls' = 0
             /\ UNCHANGED <<slept, passAge, untilWindow, nextDue, stale>>
    BY <1>0, <1>4 DEF UntilWindowVisit, FromPass, KeeperTypes
  <1>5. ASSUME pc \in {"compound", "sync"}, NEW compound, Sleeps(untilWindow, compound)
        PROVE  UntilWindowVisit' <= UntilWindowVisit /\ pc' = "asleep"
    BY <1>5, VisitAtEnd DEF Harvesting
  <1>6. CASE pc = "compound" /\ ~ok /\ ~stale /\ Sleeps(untilWindow, CompoundInterval)
    BY <1>5, <1>6
  <1>7. CASE /\ pc = "sync" /\ ok
             /\ Awaits("sync-read") /\ calls' = calls + 1
             /\ UNCHANGED <<nextDue, stale>>
    BY <1>0, <1>7 DEF Awaits, scheduleVars, UntilWindowVisit, FromPass, KeeperTypes
  <1>8. CASE pc = "sync" /\ ~ok /\ Sleeps(untilWindow, untilCompound)
    BY <1>5, <1>8
  <1> QED BY <1>1, <1>2, <1>3, <1>4, <1>6, <1>7, <1>8 DEF Answered

(* A step that leaves the window and its excuse alone and does not put off *)
(* the visit.                                                              *)
LEMMA NotPutOff ==
    ASSUME PassInv, PassInv', WindowInv, UNCHANGED <<toClose, late>>,
           "window" \in excused => "window" \in excused', pc # "down",
           pc' \notin {"advance", "down"}, UntilWindowVisit' <= UntilWindowVisit
    PROVE  WindowInv'
  <1>1. /\ UntilWindowVisit \in Int /\ UntilWindowVisit' \in Int
        /\ UntilWindowVisit <= WindowInterval + 2 * MaxPass
    BY VisitType, VisitTypeAfter DEF WindowInv
  <1>2. PICK before \in Int, after \in Int :
          before = UntilWindowVisit /\ after = UntilWindowVisit'
    BY <1>1
  <1>3. after <= before /\ before <= WindowInterval + 2 * MaxPass
    BY <1>1, <1>2
  <1>4. after <= WindowInterval + 2 * MaxPass
    BY <1>3, Constants
  <1>5. UntilWindowVisit' <= WindowInterval + 2 * MaxPass
    BY <1>2, <1>4
  <1> QED BY <1>5, NoLater

(* Every step keeps the window from being closable for too long.           *)
LEMMA WindowStep ==
    ASSUME PassInv, WindowInv, [Next]_vars
    PROVE  WindowInv'
  <1> USE Constants
  <1>0. PassInv' /\ KeeperTypes /\ ContractTypes /\ FaultTypes /\ Flags
    BY PassStep, Parts
  <1>a. /\ UntilWindowVisit \in Int /\ UntilWindowVisit' \in Int
        /\ pc # "down" => UntilWindowVisit <= WindowInterval + 2 * MaxPass
    BY <1>0, VisitType, VisitTypeAfter DEF WindowInv
  <1>b. ASSUME UNCHANGED <<contractVars, history>>, pc # "down", pc' \notin {"advance", "down"},
               UntilWindowVisit' <= UntilWindowVisit
        PROVE  WindowInv'
    <2>1. UNCHANGED <<toClose, late, excused>>
      BY <1>b DEF contractVars, history
    <2> QED BY <1>0, <1>b, <2>1, NotPutOff
  <1>1. CASE WakeUp
    <2>1. /\ pc = "asleep" /\ slept /\ pc' = "check" /\ passAge = 0
          /\ UNCHANGED <<passAge, untilWindow>>
      BY <1>0, <1>1 DEF WakeUp, scheduleVars, KeeperTypes
    <2>2. UntilWindowVisit' <= UntilWindowVisit
      BY <1>0, <2>1 DEF UntilWindowVisit, FromSleep, FromPass, ThisPass, KeeperTypes
    <2> QED BY <1>1, <1>b, <2>1, <2>2 DEF WakeUp, Observes
  <1>2. CASE Check
    <2>1. UntilWindowVisit' <= UntilWindowVisit /\ pc' \in {"open", "compound", "asleep"}
      <3>1. CASE untilWindow = 0
        BY <1>0, <1>2, <3>1 DEF Check, Awaits, UntilWindowVisit, FromPass, ThisPass, KeeperTypes
      <3>2. CASE untilWindow # 0
        <4>1. untilWindow \in 1 .. WindowInterval /\ InPass
          BY <1>0, <1>2, <3>2 DEF Check, KeeperTypes, InPass, Queries
        <4>2. UntilWindowVisit = FromPass(untilWindow)
          BY <1>2, <3>2 DEF Check, UntilWindowVisit
        <4>3. HarvestOrSleep(Unattended, untilWindow)
          BY <1>2, <3>2 DEF Check
        <4> QED BY <4>1, <4>2, <4>3, VisitAfter
      <3> QED BY <3>1, <3>2
    <2> QED BY <1>2, <1>b, <2>1 DEF Check, Observes
  <1>3. CASE AskOpenWindow
    <2>1. UNCHANGED <<toClose, late, excused>> /\ pc = "open"
      BY <1>3 DEF AskOpenWindow, Observes, contractVars, history
    <2>2. CASE toClose <= Lead
      <3>1. pc' = "advance" /\ UNCHANGED <<passAge, untilWindow, nextDue>>
        BY <1>3, <2>2 DEF AskOpenWindow, Awaits, scheduleVars
      <3>2. UntilWindowVisit' = UntilWindowVisit
        BY <2>1, <3>1 DEF UntilWindowVisit, ThisPass
      <3>3. Lead = 0 => toClose' = 0
        BY <1>0, <2>1, <2>2 DEF ContractTypes
      <3> QED BY <2>1, <3>1, <3>2, <3>3 DEF WindowInv
    <2>3. CASE toClose > Lead
      <3>1. /\ pc' = "unbonding" /\ nextDue' = Least(nextDue, toClose - Lead + passAge)
            /\ passAge' = passAge
        BY <1>0, <1>3, <2>3 DEF AskOpenWindow, Awaits, ContractTypes
      <3>2. late' = 0 /\ toClose' = toClose /\ toClose \in Nat
        BY <1>0, <2>1, <2>3 DEF WindowInv, ContractTypes
      <3>3. /\ UntilWindowVisit' \in Int
            /\ UntilWindowVisit' <= WindowInterval + 2 * MaxPass
            /\ UntilWindowVisit' <= toClose + 2 * MaxPass
        BY <1>0, <2>3, <3>1, <3>2 DEF UntilWindowVisit, FromPass, Least, KeeperTypes
      <3>4. late' + UntilWindowVisit' <= toClose' + LateLimit
        <4>1. PICK visit \in Int : visit = UntilWindowVisit'
          BY <1>a
        <4>2. visit <= toClose + 2 * MaxPass
          BY <3>3, <4>1
        <4>3. 0 + visit <= toClose + LateLimit
          BY <3>2, <4>2
        <4> QED BY <3>2, <4>1, <4>3
      <3> QED BY <3>1, <3>2, <3>3, <3>4 DEF WindowInv
    <2> QED BY <1>0, <2>2, <2>3 DEF ContractTypes
  <1>4. CASE AskUnbonding
    <2>1. UntilWindowVisit' <= UntilWindowVisit /\ pc' \in {"collect", "compound", "asleep"}
      <3>1. CASE Ripe
        BY <1>0, <1>4, <3>1 DEF AskUnbonding, Awaits, passVars, UntilWindowVisit, FromPass,
                                Least, KeeperTypes
      <3>2. CASE ~Ripe
        <4> DEFINE mark == MarkedUntil(WindowInterval,
                             Min({nextDue} \cup {r - Lead + passAge : r \in inFlight}))
        <4>1. mark \in 1 .. WindowInterval /\ mark <= Least(WindowInterval, nextDue)
          BY <1>0, <3>2, Marked
        <4>2. HarvestOrSleep(stale, mark) /\ InPass
          BY <1>4, <3>2 DEF AskUnbonding, InPass, Queries
        <4> HIDE DEF mark
        <4>3. /\ UntilWindowVisit' <= FromPass(mark)
              /\ pc' \in {"compound", "asleep"}
          BY <4>1, <4>2, VisitAfter
        <4>4. UntilWindowVisit = FromPass(Least(WindowInterval, nextDue))
          BY <1>4 DEF AskUnbonding, UntilWindowVisit
        <4>5. Least(WindowInterval, nextDue) \in Int /\ passAge \in Int
          BY <1>0 DEF KeeperTypes, Least
        <4>6. FromPass(mark) <= FromPass(Least(WindowInterval, nextDue))
          BY <4>1, <4>5 DEF FromPass
        <4>7. FromPass(mark) \in Int /\ FromPass(Least(WindowInterval, nextDue)) \in Int
          BY <4>1, <4>5 DEF FromPass
        <4> QED BY <1>a, <4>3, <4>4, <4>6, <4>7
      <3> QED BY <3>1, <3>2
    <2> QED BY <1>4, <1>b, <2>1 DEF AskUnbonding, Observes
  <1>5. CASE Execute
    <2>1. /\ pc' \notin {"advance", "down"}
          /\ pc = "advance" => UntilWindowVisit' <= WindowInterval - passAge + 2 * MaxPass
          /\ pc # "advance" => UntilWindowVisit' <= UntilWindowVisit
      BY <1>5, VisitAfterAnswer DEF Execute
    <2>2. CASE pc = "advance"
      <3>1. PICK visit \in Int : visit = UntilWindowVisit'
        BY <1>a
      <3>2. visit <= WindowInterval - passAge + 2 * MaxPass /\ passAge \in Nat
        BY <1>0, <2>1, <2>2, <3>1 DEF KeeperTypes
      <3>3. /\ toClose > 0 => visit <= toClose + LateLimit
            /\ visit <= WindowLength + LateLimit
        BY <2>2, <3>2, EarlyEnough
      <3>4. \/ toClose' = WindowLength /\ late' = 0
            \/ toClose' = toClose /\ late' = late /\ toClose # 0
        BY <1>5, <2>2 DEF Execute, Applied, Closes, Untouched, contractVars
      <3>5. late' = 0 /\ visit <= toClose' + LateLimit
        BY <1>0, <3>3, <3>4 DEF WindowInv, ContractTypes
      <3>6. PICK left \in Nat : left = toClose'
        BY <1>0, <3>4 DEF ContractTypes
      <3>7. late' + visit <= toClose' + LateLimit
        <4>1. visit <= left + LateLimit
          BY <3>5, <3>6
        <4>2. 0 + visit <= left + LateLimit
          BY <4>1
        <4> QED BY <3>5, <3>6, <4>2
      <3>8. visit <= WindowInterval + 2 * MaxPass
        BY <3>2
      <3> QED BY <2>1, <3>1, <3>5, <3>7, <3>8 DEF WindowInv
    <2>3. CASE pc # "advance"
      <3>1. UNCHANGED <<toClose, late>>
        BY <1>5, <2>3 DEF Execute, Applied, Collects, Harvests, Rereads, SweepsPage
      <3>2. "window" \in excused <=> "window" \in excused'
        BY <1>5, <2>3 DEF Execute, Closed, Stamped
      <3>3. pc # "down"
        BY <1>5 DEF Execute, Applied
      <3> QED BY <1>0, <1>a, <2>1, <2>3, <3>1, <3>2, <3>3, NotPutOff
    <2> QED BY <2>2, <2>3
  <1>6. CASE ReadAfterCompound
    <2>1. UntilWindowVisit' <= UntilWindowVisit /\ pc' \in {"compound", "asleep"}
      <3>1. CASE SweptAway \/ calls = CallCap
        <4>1. Sleeps(untilWindow, CompoundInterval)
          BY <1>6, <3>1 DEF ReadAfterCompound
        <4> QED BY <1>6, <4>1, VisitAtEnd DEF ReadAfterCompound, Harvesting
      <3>2. CASE ~(SweptAway \/ calls = CallCap)
        BY <1>0, <1>6, <3>2 DEF ReadAfterCompound, Awaits, scheduleVars, UntilWindowVisit,
                                FromPass, KeeperTypes
      <3> QED BY <3>1, <3>2
    <2> QED BY <1>6, <1>b, <2>1 DEF ReadAfterCompound, Observes
  <1>7. CASE ReadForSync
    <2>1. UntilWindowVisit' <= UntilWindowVisit /\ pc' \in {"sync", "asleep"}
      <3>1. CASE pc = "sync-read" /\ (~Unattended \/ calls = CallCap)
        <4>1. Sleeps(untilWindow, untilCompound)
          BY <1>7, <3>1 DEF ReadForSync
        <4> QED BY <1>7, <4>1, VisitAtEnd DEF ReadForSync, Harvesting
      <3>2. CASE ~(pc = "sync-read" /\ (~Unattended \/ calls = CallCap))
        <4>1. /\ pc' = "sync" /\ pc \in {"sync-start", "sync-read"}
              /\ UNCHANGED <<passAge, untilWindow>>
          BY <1>7, <3>2 DEF ReadForSync, Awaits, scheduleVars
        <4> QED BY <1>0, <4>1 DEF UntilWindowVisit, FromPass, KeeperTypes
      <3> QED BY <3>1, <3>2
    <2> QED BY <1>7, <1>b, <2>1 DEF ReadForSync, Observes
  <1>8. CASE SomeoneElse
    <2>1. UNCHANGED <<pc, slept, passAge, untilWindow, nextDue>>
      BY <1>8 DEF SomeoneElse, scheduleVars, passVars
    <2>2. UntilWindowVisit' = UntilWindowVisit
      BY <2>1 DEF UntilWindowVisit, FromPass, FromSleep, ThisPass
    <2>3. (toClose' = WindowLength /\ late' = 0) \/ (toClose' = toClose /\ late' = late)
      BY <1>8, ContractType DEF SomeoneElse, PassInv
    <2>4. CASE toClose' = WindowLength /\ late' = 0
      <3>1. PICK visit \in Int : visit = UntilWindowVisit /\ visit = UntilWindowVisit'
        BY <1>a, <2>2
      <3>2. pc # "down" => visit <= WindowInterval + 2 * MaxPass
        BY <1>a, <3>1
      <3>3. pc = "down" => "window" \in excused'
        BY <1>0, <1>8 DEF SomeoneElse, FaultTypes
      <3>4. pc # "down" => late' + visit <= toClose' + LateLimit
        BY <2>4, <3>2 DEF LateLimit, Minus
      <3>5. passAge \in Nat
        BY <1>0 DEF KeeperTypes
      <3>6. toClose' >= WindowLength - passAge'
        BY <2>1, <2>4, <3>5
      <3> QED BY <2>1, <2>4, <3>1, <3>2, <3>3, <3>4, <3>6 DEF WindowInv
    <2>5. CASE toClose' = toClose /\ late' = late
      <3>1. "window" \in excused => "window" \in excused'
        BY <1>0, <1>8, <2>5 DEF SomeoneElse, ContractTypes
      <3> QED BY <1>a, <2>1, <2>2, <2>5, <3>1 DEF WindowInv
    <2> QED BY <2>3, <2>4, <2>5
  <1>9. CASE Tick
    <2>1. /\ toClose' = Dec(toClose)
          /\ late' = IF toClose = 0 THEN Upto(late + 1, LateLimit + 1) ELSE 0
          /\ UNCHANGED <<pc, nextDue, excused>>
      BY <1>9 DEF Tick, passVars
    <2>2. pc # "down" => UntilWindowVisit' <= UntilWindowVisit - 1
      <3>1. CASE pc = "asleep"
        <4>1. ~slept /\ slept' /\ untilWindow' = Dec(untilWindow) /\ passAge' = passAge
          BY <1>9, <3>1 DEF Tick, MayTick
        <4> QED BY <1>0, <2>1, <3>1, <4>1 DEF UntilWindowVisit, FromSleep, Dec, KeeperTypes
      <3>2. CASE pc \notin {"asleep", "down"}
        <4>1. passAge' = passAge + 1 /\ untilWindow' = untilWindow
          BY <1>9, <3>2 DEF Tick, scheduleVars
        <4> QED BY <1>0, <2>1, <3>2, <4>1 DEF UntilWindowVisit, FromPass, ThisPass, Least,
                                              KeeperTypes
      <3> QED BY <3>1, <3>2
    <2>3. PICK before \in Int, after \in Int :
            before = UntilWindowVisit /\ after = UntilWindowVisit'
      BY <1>a
    <2>4. toClose \in Nat /\ late \in Nat /\ LateLimit \in Nat /\ passAge \in Nat
      BY <1>0 DEF ContractTypes, KeeperTypes
    <2>5. /\ toClose' + 1 >= toClose /\ late' \in Nat
          /\ late' <= late + (IF toClose = 0 THEN 1 ELSE 0)
          /\ toClose' > 0 => late' = 0
          /\ toClose = 0 => toClose' = 0
          /\ toClose > 0 => toClose' = toClose - 1 /\ late' = 0 /\ late = 0
      BY <2>1, <2>4 DEF Dec, Upto, WindowInv
    <2>6. pc # "down" => /\ after <= before - 1 /\ after <= WindowInterval + 2 * MaxPass
      BY <1>a, <2>2, <2>3
    <2>7. ASSUME "window" \notin excused' PROVE late' + after <= toClose' + LateLimit
      <3>1. pc # "down" /\ "window" \notin excused
        BY <1>0, <2>1, <2>7 DEF FaultTypes
      <3>2. late + before <= toClose + LateLimit
        BY <2>3, <3>1 DEF WindowInv
      <3>3. after <= before - 1
        BY <2>6, <3>1
      <3> QED BY <2>4, <2>5, <3>2, <3>3
    <2>8. Lead = 0 /\ pc' = "advance" => toClose' = 0 \/ toClose' >= WindowLength - passAge'
      <3>1. SUFFICES ASSUME Lead = 0, pc = "advance", toClose > 0
                     PROVE  toClose' >= WindowLength - passAge'
        BY <2>1, <2>4, <2>5
      <3>2. passAge' = passAge + 1
        BY <1>9, <3>1 DEF Tick
      <3>3. toClose >= WindowLength - passAge
        BY <2>4, <3>1 DEF WindowInv
      <3> QED BY <2>4, <2>5, <3>1, <3>2, <3>3
    <2> QED BY <2>1, <2>3, <2>5, <2>6, <2>7, <2>8 DEF WindowInv
  <1>c. ASSUME Fault, pc' # "advance",
               pc' # "down" => UntilWindowVisit' <= WindowInterval + 2 * MaxPass,
               (toClose' = WindowLength /\ late' = 0) \/ (toClose' = toClose /\ late' = late)
        PROVE  WindowInv'
    <2>1. "window" \in excused'
      BY <1>c DEF Fault
    <2>2. toClose' > 0 => late' = 0
      BY <1>c DEF WindowInv
    <2> QED BY <1>c, <2>1, <2>2 DEF WindowInv
  <1>10. CASE QueryThrows
    <2>1. Sleeps(untilWindow, untilCompound) /\ InPass /\ untilWindow \in 0 .. WindowInterval
      BY <1>0, <1>10 DEF QueryThrows, InPass, KeeperTypes
    <2>2. pc' = "asleep" /\ UntilWindowVisit' <= WindowInterval + 2 * MaxPass
      BY <2>1, VisitAfterSleep
    <2> QED BY <1>c, <1>10, <2>2 DEF QueryThrows, contractVars
  <1>11. CASE ExecuteFails
    <2>1. /\ pc' \notin {"advance", "down"}
          /\ pc = "advance" => UntilWindowVisit' <= WindowInterval - passAge + 2 * MaxPass
          /\ pc # "advance" => UntilWindowVisit' <= UntilWindowVisit
      BY <1>11, VisitAfterAnswer DEF ExecuteFails
    <2>2. PICK before \in Int, after \in Int :
            before = UntilWindowVisit /\ after = UntilWindowVisit'
      BY <1>a
    <2>3. pc # "down" /\ passAge \in Nat
      BY <1>0, <1>11 DEF ExecuteFails, Executes, KeeperTypes
    <2>4. ASSUME pc = "advance" PROVE after <= WindowInterval + 2 * MaxPass
      <3>1. after <= WindowInterval - passAge + 2 * MaxPass
        BY <2>1, <2>2, <2>4
      <3> QED BY <2>3, <3>1
    <2>5. ASSUME pc # "advance" PROVE after <= WindowInterval + 2 * MaxPass
      <3>1. after <= before /\ before <= WindowInterval + 2 * MaxPass
        BY <1>a, <2>1, <2>2, <2>3, <2>5
      <3> QED BY <3>1
    <2>6. UntilWindowVisit' <= WindowInterval + 2 * MaxPass
      BY <2>2, <2>4, <2>5
    <2>7. (toClose' = WindowLength /\ late' = 0) \/ (toClose' = toClose /\ late' = late)
      BY <1>11 DEF ExecuteFails, Applied, Untouched, contractVars, Closes, Collects, Harvests,
                   Rereads, SweepsPage
    <2> QED BY <1>c, <1>11, <2>1, <2>6, <2>7 DEF ExecuteFails
  <1>12. CASE Killed
    BY <1>c, <1>12 DEF Killed, contractVars
  <1>13. CASE Restarted
    <2>1. /\ pc = "down" /\ pc' = "asleep" /\ slept'
          /\ UNCHANGED <<toClose, late, excused, untilWindow>>
      BY <1>13 DEF Restarted, Observes, contractVars, history, scheduleVars
    <2>2. UntilWindowVisit' <= WindowInterval + 2 * MaxPass
      BY <1>0, <2>1 DEF UntilWindowVisit, FromSleep, KeeperTypes
    <2>3. "window" \in excused'
      BY <1>0, <2>1 DEF FaultTypes
    <2> QED BY <2>1, <2>2, <2>3 DEF WindowInv
  <1>14. CASE UNCHANGED vars
    BY <1>14 DEF vars, contractVars, history, passVars, scheduleVars, WindowInv, UntilWindowVisit,
                 FromPass, FromSleep, ThisPass
  <1> QED BY <1>1, <1>2, <1>3, <1>4, <1>5, <1>6, <1>7, <1>8, <1>9, <1>10, <1>11, <1>12,
             <1>13, <1>14 DEF Next, KeeperStep

-----------------------------------------------------------------------------
(* The cache.                                                              *)

(* A turn less for every page.                                             *)
LEMMA Turns ==
    /\ Turn \in Nat /\ Pages * Turn \in Nat
    /\ \A n \in 0 .. Pages - 1 :
         /\ TurnsAfter(n) \in Nat
         /\ TurnsAfter(n) + Turn <= Pages * Turn
         /\ n + 1 <= Pages - 1 => TurnsAfter(n) = TurnsAfter(n + 1) + Turn
  <1>1. Turn \in Nat
    BY Constants DEF Turn
  <1>2. ASSUME NEW t \in Nat, NEW p \in Nat
        PROVE  /\ p * t \in Nat
               /\ \A n \in 0 .. p - 1 :
                    /\ (p - 1 - n) * t \in Nat
                    /\ (p - 1 - n) * t + t <= p * t
                    /\ (p - 1 - n) * t = (p - 1 - (n + 1)) * t + t
    <2>1. \A a \in Nat : a * t \in Nat
      OBVIOUS
    <2>2. \A a \in Int : a * t = (a - 1) * t + t
      OBVIOUS
    <2>3. ASSUME NEW n \in 0 .. p - 1 PROVE (p - 1 - n) * t + t <= p * t
      <3>1. p * t = (p - 1 - n) * t + (n + 1) * t
        OBVIOUS
      <3>2. (n + 1) * t = n * t + t
        OBVIOUS
      <3>3. PICK a \in Nat, b \in Nat, c \in Nat :
              a = (p - 1 - n) * t /\ b = n * t /\ c = p * t
        BY <2>1
      <3>4. c = a + (b + t)
        BY <3>1, <3>2, <3>3
      <3>5. a + t <= c
        BY <3>4
      <3> QED BY <3>3, <3>5
    <2>4. ASSUME NEW n \in 0 .. p - 1 PROVE (p - 1 - n) * t = (p - 1 - (n + 1)) * t + t
      <3>1. p - 1 - n \in Int /\ (p - 1 - n) - 1 = p - 1 - (n + 1)
        OBVIOUS
      <3> QED BY <2>2, <3>1
    <2>5. \A n \in 0 .. p - 1 : p - 1 - n \in Nat
      OBVIOUS
    <2> QED BY <2>1, <2>3, <2>4, <2>5
  <1> QED BY <1>1, <1>2, Constants DEF TurnsAfter

(* The turn of the harvest, once the pass goes on to it or sleeps.         *)
LEMMA HarvestAfter ==
    ASSUME PassInv, pc \in {"check", "unbonding", "collect"}, NEW isStale, NEW window,
           HarvestOrSleep(isStale, window)
    PROVE  UntilHarvest' <= UntilHarvest /\ pc' \in {"compound", "asleep"}
  <1>0. KeeperTypes /\ InPass
    BY Parts DEF InPass, Queries, Executes
  <1>1. UntilHarvest = IF untilCompound = 0 THEN ThisPass ELSE FromPass(untilCompound)
    BY DEF UntilHarvest, Syncing
  <1>2. CASE isStale \/ untilCompound = 0
    <2>1. pc' = "compound" /\ passAge' = passAge
      BY <1>2 DEF HarvestOrSleep
    <2>2. UntilHarvest' = ThisPass
      BY <2>1 DEF UntilHarvest, Syncing, ThisPass
    <2> QED BY <1>0, <1>1, <2>1, <2>2, Constants DEF ThisPass, FromPass, KeeperTypes
  <1>3. CASE ~(isStale \/ untilCompound = 0)
    <2>1. Sleeps(window, untilCompound) /\ untilCompound # 0
      BY <1>3 DEF HarvestOrSleep
    <2>2. pc' = "asleep" /\ ~slept' /\ untilCompound' = Minus(untilCompound, passAge)
      BY <2>1 DEF Sleeps
    <2> QED BY <1>0, <1>1, <2>1, <2>2, Constants
            DEF KeeperTypes, UntilHarvest, Syncing, FromPass, FromSleep, Minus
  <1> QED BY <1>2, <1>3

(* The turn of the harvest after a pass that goes to sleep.                *)
LEMMA HarvestAfterSleep ==
    ASSUME PassInv, InPass, NEW window, NEW compound \in 0 .. CompoundInterval,
           Sleeps(window, compound)
    PROVE  /\ UntilHarvest' <= Turn + MaxPass
           /\ compound > 0 => UntilHarvest' <= FromPass(compound)
           /\ pc' = "asleep"
  <1>0. passAge \in Nat /\ passAge <= MaxPass
    BY Parts DEF KeeperTypes
  <1>1. pc' = "asleep" /\ ~slept' /\ untilCompound' = Minus(compound, passAge)
    BY DEF Sleeps
  <1> QED BY <1>0, <1>1, Constants DEF UntilHarvest, Syncing, FromPass, FromSleep, Minus, Turn

(* The turn is a number of ticks, and none of them is owed.                *)
LEMMA HarvestType ==
    ASSUME PassInv
    PROVE  UntilHarvest \in Int /\ (pc # "down" => UntilHarvest >= 0)
  <1>1. KeeperTypes
    BY Parts
  <1> QED BY <1>1, Constants DEF KeeperTypes, UntilHarvest, FromPass, FromSleep, ThisPass,
                InPass, Queries, Executes, Syncing

(* The same after a step.                                                  *)
LEMMA HarvestTypeAfter == ASSUME PassInv' PROVE UntilHarvest' \in Int
  <1>1. KeeperTypes'
    BY Constants DEF PassInv, TypeOK, KeeperTypes, InPass
  <1>2. passAge' \in Nat /\ untilCompound' \in Nat /\ CompoundInterval \in Nat /\ MaxPass \in Nat
    BY <1>1, Constants DEF KeeperTypes
  <1>3. FromSleep(untilCompound)' \in Int /\ ThisPass' \in Int /\ FromPass(untilCompound)' \in Int
        /\ FromPass(CompoundInterval)' \in Int
    BY <1>2 DEF FromPass, FromSleep, ThisPass
  <1> QED BY <1>3 DEF UntilHarvest

(* The keeper's answers, as the cache sees them.                           *)
LEMMA HarvestAfterAnswer ==
    ASSUME PassInv, NEW ok \in BOOLEAN, Answered(ok)
    PROVE  /\ pc' # "down"
           /\ pc = "compound" => UntilHarvest' <= FromPass(CompoundInterval)
           /\ pc # "compound" => UntilHarvest' <= UntilHarvest
  <1>0. KeeperTypes
    BY Parts
  <1> USE Constants
  <1>1. CASE pc = "advance" /\ Awaits("unbonding") /\ UNCHANGED passVars
    <2>1. pc = "advance" /\ pc' = "unbonding" /\ UNCHANGED <<passAge, untilCompound>>
      BY <1>1 DEF Awaits, scheduleVars
    <2> QED BY <1>0, <2>1 DEF UntilHarvest, FromPass, ThisPass, Syncing, KeeperTypes
  <1>2. CASE pc = "collect" /\ HarvestOrSleep(stale, MarkedUntil(WindowInterval, nextDue))
    BY <1>2, HarvestAfter
  <1>3. CASE /\ pc = "compound" /\ ok
             /\ Awaits("compound-read") /\ calls' = calls + 1
             /\ UNCHANGED <<nextDue, stale>>
    <2>1. pc' = "compound-read" /\ passAge' = passAge
      BY <1>3 DEF Awaits
    <2> QED BY <1>0, <1>3, <2>1 DEF UntilHarvest, Syncing, FromPass, KeeperTypes
  <1>4. CASE /\ pc = "compound" /\ ~ok /\ stale
             /\ pc' = "sync-start" /\ untilCompound' = CompoundInterval /\ calls' = 0
             /\ UNCHANGED <<slept, passAge, untilWindow, nextDue, stale>>
    BY <1>0, <1>4 DEF UntilHarvest, FromPass, Syncing, KeeperTypes
  <1>5. CASE pc = "compound" /\ ~ok /\ ~stale /\ Sleeps(untilWindow, CompoundInterval)
    <2>1. InPass /\ CompoundInterval \in 0 .. CompoundInterval
      BY <1>5 DEF InPass, Executes
    <2> QED BY <1>5, <2>1, HarvestAfterSleep
  <1>6. CASE /\ pc = "sync" /\ ok
             /\ Awaits("sync-read") /\ calls' = calls + 1
             /\ UNCHANGED <<nextDue, stale>>
    <2>1. pc' = "sync-read" /\ UNCHANGED <<passAge, untilCompound>>
      BY <1>6 DEF Awaits, scheduleVars
    <2> QED BY <1>0, <1>6, <2>1 DEF UntilHarvest, FromPass, Syncing, KeeperTypes
  <1>7. CASE pc = "sync" /\ ~ok /\ Sleeps(untilWindow, untilCompound)
    <2>1. InPass /\ untilCompound \in 0 .. CompoundInterval /\ untilCompound > 0
      BY <1>0, <1>7 DEF InPass, Executes, KeeperTypes, Syncing
    <2>2. UntilHarvest = FromPass(untilCompound)
      BY <1>7 DEF UntilHarvest, Syncing
    <2> QED BY <1>7, <2>1, <2>2, HarvestAfterSleep
  <1> QED BY <1>1, <1>2, <1>3, <1>4, <1>5, <1>6, <1>7 DEF Answered

(* A step that is a fault, that refreshes the cache, or that reaches        *)
(* another page at the cost of no more than a turn.                        *)
LEMMA SweepGoesOn ==
    ASSUME PassInv, PassInv', CacheInv,
           pc' # "down" => UntilHarvest' <= Turn + MaxPass,
           pc' = "down" => "cache" \in excused',
           \/ "cache" \in excused'
           \/ age' = 0
           \/ /\ "cache" \notin excused /\ age' = age
              /\ \/ cursor' = cursor /\ UntilHarvest' <= UntilHarvest
                 \/ cursor' = cursor + 1 /\ UntilHarvest' <= UntilHarvest + Turn
    PROVE  CacheInv'
  <1>1. /\ age \in Nat /\ cursor \in 0 .. Pages - 1
        /\ age' \in Nat /\ cursor' \in 0 .. Pages - 1
    BY Constants DEF PassInv, TypeOK
  <1>2. PICK a \in Nat, next \in Int, rest \in Nat, aNew \in Nat, nextNew \in Int,
             restNew \in Nat, whole \in Nat, turn \in Nat :
          /\ a = age /\ next = UntilHarvest /\ rest = TurnsAfter(cursor)
          /\ aNew = age' /\ nextNew = UntilHarvest' /\ restNew = TurnsAfter(cursor')
          /\ whole = Pages * Turn /\ turn = Turn
    BY <1>1, HarvestType, HarvestTypeAfter, Turns
  <1>3. restNew + turn <= whole
    BY <1>1, <1>2, Turns
  <1>4. ASSUME "cache" \notin excused'
        PROVE  aNew + nextNew + restNew <= whole + MaxPass
    <2>1. CASE age' = 0
      <3>1. pc' # "down" /\ aNew = 0
        BY <1>2, <1>4, <2>1
      <3>2. nextNew <= turn + MaxPass
        BY <1>2, <3>1
      <3> QED BY <1>3, <3>1, <3>2, Constants
    <2>2. CASE age' # 0
      <3>1. "cache" \notin excused /\ age' = age
        BY <1>4, <2>2
      <3>2. a + next + rest <= whole + MaxPass /\ aNew = a
        BY <1>2, <3>1 DEF CacheInv
      <3>3. CASE cursor' = cursor /\ UntilHarvest' <= UntilHarvest
        <4>1. restNew = rest /\ nextNew <= next
          BY <1>2, <3>3
        <4> QED BY <3>2, <4>1, Constants
      <3>4. CASE cursor' = cursor + 1 /\ UntilHarvest' <= UntilHarvest + Turn
        <4>1. rest = restNew + turn /\ nextNew <= next + turn
          BY <1>1, <1>2, <3>4, Turns
        <4> QED BY <3>2, <4>1, Constants
      <3> QED BY <1>4, <2>2, <3>3, <3>4
    <2> QED BY <2>1, <2>2
  <1>5. "cache" \notin excused' => age' + UntilHarvest' + TurnsAfter(cursor') <= Pages * Turn + MaxPass
    BY <1>2, <1>4
  <1> QED BY <1>5 DEF CacheInv, TurnsAfter, Turn

(* A step of the keeper alone that does not put off the harvest.           *)
LEMMA HarvestNotPutOff ==
    ASSUME PassInv, PassInv', CacheInv, UNCHANGED <<age, cursor>>,
           "cache" \in excused => "cache" \in excused', pc # "down", pc' # "down",
           UntilHarvest' <= UntilHarvest
    PROVE  CacheInv'
  <1>1. PICK next \in Int, nextNew \in Int, turn \in Nat :
          next = UntilHarvest /\ nextNew = UntilHarvest' /\ turn = Turn
    BY HarvestType, HarvestTypeAfter, Turns
  <1>2. next <= turn + MaxPass /\ nextNew <= next
    BY <1>1 DEF CacheInv
  <1>3. nextNew <= turn + MaxPass
    BY <1>2, Constants
  <1>4. UntilHarvest' <= Turn + MaxPass
    BY <1>1, <1>3
  <1> QED BY <1>4, SweepGoesOn

(* What is no later is within a turn of it.                                *)
LEMMA Within ==
    ASSUME PassInv, PassInv', CacheInv, UntilHarvest' <= UntilHarvest
    PROVE  /\ pc # "down" => UntilHarvest' <= Turn + MaxPass
           /\ UntilHarvest' <= UntilHarvest + Turn
  <1>1. PICK next \in Int, nextNew \in Int, turn \in Nat :
          next = UntilHarvest /\ nextNew = UntilHarvest' /\ turn = Turn
    BY HarvestType, HarvestTypeAfter, Turns
  <1>2. nextNew <= next /\ (pc # "down" => next <= turn + MaxPass)
    BY <1>1 DEF CacheInv
  <1>3. nextNew <= next + turn /\ (pc # "down" => nextNew <= turn + MaxPass)
    BY <1>2, Constants
  <1> QED BY <1>1, <1>3

(* Every step keeps the pages still to come on time.                       *)
LEMMA CacheStep ==
    ASSUME PassInv, CacheInv, [Next]_vars
    PROVE  CacheInv'
  <1> USE Constants
  <1>0. PassInv' /\ KeeperTypes /\ ContractTypes /\ FaultTypes /\ Flags /\ TypeOK
    BY PassStep, Parts DEF PassInv
  <1>a. /\ UntilHarvest \in Int /\ UntilHarvest' \in Int /\ Turn \in Nat
        /\ pc # "down" => UntilHarvest <= Turn + MaxPass
    BY <1>0, HarvestType, HarvestTypeAfter, Turns DEF CacheInv
  <1>b. ASSUME UNCHANGED <<contractVars, history>>, pc # "down", pc' # "down",
               UntilHarvest' <= UntilHarvest
        PROVE  CacheInv'
    BY <1>0, <1>b, HarvestNotPutOff DEF contractVars, history
  <1>1. CASE WakeUp
    <2>1. /\ pc = "asleep" /\ slept /\ pc' = "check" /\ passAge = 0
          /\ UNCHANGED <<passAge, untilCompound>>
      BY <1>0, <1>1 DEF WakeUp, scheduleVars, KeeperTypes
    <2>2. UntilHarvest' <= UntilHarvest
      BY <1>0, <2>1 DEF UntilHarvest, Syncing, FromSleep, FromPass, ThisPass, KeeperTypes
    <2> QED BY <1>1, <1>b, <2>1, <2>2 DEF WakeUp, Observes
  <1>c. ASSUME pc \in {"check", "open", "unbonding"}, pc' \in {"open", "advance", "unbonding", "collect"},
               UNCHANGED <<passAge, untilCompound>>
        PROVE  UntilHarvest' <= UntilHarvest
    BY <1>0, <1>c DEF UntilHarvest, Syncing, FromPass, ThisPass, KeeperTypes
  <1>2. CASE Check
    <2>1. UntilHarvest' <= UntilHarvest /\ pc' # "down"
      <3>1. CASE untilWindow = 0
        BY <1>2, <1>c, <3>1 DEF Check, Awaits, scheduleVars
      <3>2. CASE untilWindow # 0
        BY <1>2, <3>2, HarvestAfter DEF Check
      <3> QED BY <3>1, <3>2
    <2> QED BY <1>2, <1>b, <2>1 DEF Check, Observes
  <1>3. CASE AskOpenWindow
    <2>1. UntilHarvest' <= UntilHarvest /\ pc' # "down"
      BY <1>3, <1>c DEF AskOpenWindow, Awaits, scheduleVars
    <2> QED BY <1>3, <1>b, <2>1 DEF AskOpenWindow, Observes
  <1>4. CASE AskUnbonding
    <2>1. UntilHarvest' <= UntilHarvest /\ pc' # "down"
      <3>1. CASE Ripe
        BY <1>4, <1>c, <3>1 DEF AskUnbonding, Awaits, scheduleVars
      <3>2. CASE ~Ripe
        BY <1>4, <3>2, HarvestAfter DEF AskUnbonding
      <3> QED BY <3>1, <3>2
    <2> QED BY <1>4, <1>b, <2>1 DEF AskUnbonding, Observes
  <1>5. CASE Execute
    <2>1. /\ pc' # "down"
          /\ pc = "compound" => UntilHarvest' <= FromPass(CompoundInterval)
          /\ pc # "compound" => UntilHarvest' <= UntilHarvest
      BY <1>5, HarvestAfterAnswer DEF Execute
    <2>2. pc # "down" /\ ("cache" \in excused => "cache" \in excused' \/ age' = 0)
      BY <1>5 DEF Execute, Applied, Closed, Stamped
    <2>3. CASE pc = "compound"
      <3>1. Harvests
        BY <1>5, <2>3 DEF Execute, Applied
      <3>2. SweepsPage(pending \ {cursor + 1}) /\ pending \ {cursor + 1} \in SUBSET AllPages
        BY <1>0, <3>1 DEF Harvests, ContractTypes
      <3>3. age' = 0 \/ (age' = age /\ cursor' = cursor + 1)
        BY <1>0, <3>2, Swept
      <3>4. PICK next \in Int, nextNew \in Int, p \in Nat :
              /\ next = UntilHarvest /\ nextNew = UntilHarvest' /\ p = passAge
              /\ next = MaxPass - p /\ nextNew <= CompoundInterval - p + 2 * MaxPass
        <4>1. UntilHarvest = ThisPass /\ passAge \in Nat
          BY <1>0, <2>3 DEF UntilHarvest, Syncing, KeeperTypes
        <4>2. UntilHarvest' <= FromPass(CompoundInterval)
          BY <2>1, <2>3
        <4> QED BY <1>a, <4>1, <4>2 DEF ThisPass, FromPass
      <3>5. /\ nextNew <= CompoundInterval + MaxPass + MaxPass
            /\ nextNew <= next + (CompoundInterval + MaxPass)
        BY <3>4
      <3>6. UntilHarvest' <= Turn + MaxPass /\ UntilHarvest' <= UntilHarvest + Turn
        BY <3>4, <3>5 DEF Turn
      <3> QED BY <1>0, <2>1, <2>2, <3>3, <3>6, SweepGoesOn
    <2>4. CASE pc = "sync"
      <3>1. Rereads
        BY <1>5, <2>4 DEF Execute, Applied
      <3>2. /\ SweepsPage((pending \ {cursor + 1}) \cup (accrued \cap {cursor + 1}))
            /\ (pending \ {cursor + 1}) \cup (accrued \cap {cursor + 1}) \in SUBSET AllPages
        BY <1>0, <3>1 DEF Rereads, ContractTypes
      <3>3. age' = 0 \/ (age' = age /\ cursor' = cursor + 1)
        BY <1>0, <3>2, Swept
      <3>4. UntilHarvest' <= Turn + MaxPass /\ UntilHarvest' <= UntilHarvest + Turn
        BY <1>a, <2>1, <2>2, <2>4, Within
      <3> QED BY <1>0, <2>1, <2>2, <3>3, <3>4, SweepGoesOn
    <2>5. CASE pc \in {"advance", "collect"}
      <3>1. UNCHANGED <<age, cursor>>
        BY <1>5, <2>5 DEF Execute, Applied, Closes, Collects, Untouched, contractVars
      <3>2. "cache" \in excused => "cache" \in excused'
            \/ age' = 0
        BY <2>2
      <3>3. UntilHarvest' <= Turn + MaxPass /\ UntilHarvest' <= UntilHarvest
        BY <1>a, <2>1, <2>2, <2>5, Within
      <3> QED BY <1>0, <2>1, <2>2, <3>1, <3>2, <3>3, SweepGoesOn
    <2> QED BY <1>5, <2>3, <2>4, <2>5 DEF Execute, Applied
  <1>6. CASE ReadAfterCompound
    <2>1. UntilHarvest' <= UntilHarvest /\ pc' # "down"
      <3>0. UntilHarvest = FromPass(CompoundInterval)
        BY <1>6 DEF ReadAfterCompound, UntilHarvest, Syncing
      <3>1. CASE SweptAway \/ calls = CallCap
        <4>1. /\ Sleeps(untilWindow, CompoundInterval) /\ InPass
              /\ CompoundInterval \in 0 .. CompoundInterval
          BY <1>6, <3>1 DEF ReadAfterCompound, InPass, Queries
        <4>2. UntilHarvest' <= FromPass(CompoundInterval) /\ pc' = "asleep"
          BY <4>1, HarvestAfterSleep, Constants
        <4> QED BY <3>0, <4>2
      <3>2. CASE ~(SweptAway \/ calls = CallCap)
        <4>1. pc' = "compound" /\ passAge' = passAge
          BY <1>6, <3>2 DEF ReadAfterCompound, Awaits
        <4>2. UntilHarvest' = MaxPass - passAge
          BY <4>1 DEF UntilHarvest, Syncing, ThisPass
        <4>3. UntilHarvest = CompoundInterval - passAge + 2 * MaxPass /\ passAge \in Nat
          BY <1>0, <3>0 DEF FromPass, KeeperTypes
        <4> QED BY <4>1, <4>2, <4>3
      <3> QED BY <3>1, <3>2
    <2> QED BY <1>6, <1>b, <2>1 DEF ReadAfterCompound, Observes
  <1>7. CASE ReadForSync
    <2>1. UntilHarvest' <= UntilHarvest /\ pc' # "down"
      <3>0. UntilHarvest = FromPass(untilCompound)
        BY <1>7 DEF ReadForSync, UntilHarvest, Syncing
      <3>1. CASE pc = "sync-read" /\ (~Unattended \/ calls = CallCap)
        <4>1. Sleeps(untilWindow, untilCompound) /\ InPass
          BY <1>7, <3>1 DEF ReadForSync, InPass, Queries
        <4>2. untilCompound \in 0 .. CompoundInterval /\ untilCompound > 0
          BY <1>0, <3>1 DEF KeeperTypes, Syncing
        <4> QED BY <3>0, <4>1, <4>2, HarvestAfterSleep
      <3>2. CASE ~(pc = "sync-read" /\ (~Unattended \/ calls = CallCap))
        <4>1. pc' = "sync" /\ UNCHANGED <<passAge, untilCompound>>
          BY <1>7, <3>2 DEF ReadForSync, Awaits, scheduleVars
        <4> QED BY <1>0, <3>0, <4>1 DEF UntilHarvest, FromPass, Syncing, KeeperTypes
      <3> QED BY <3>1, <3>2
    <2> QED BY <1>7, <1>b, <2>1 DEF ReadForSync, Observes
  <1>8. CASE SomeoneElse
    <2>1. UNCHANGED <<pc, slept, passAge, untilCompound>>
      BY <1>8 DEF SomeoneElse, scheduleVars
    <2>2. UntilHarvest' = UntilHarvest
      BY <2>1 DEF UntilHarvest, Syncing, FromPass, FromSleep, ThisPass
    <2>3. age' = 0 \/ (age' = age /\ (cursor' = cursor \/ cursor' = cursor + 1))
      BY <1>0, <1>8, ContractType DEF SomeoneElse
    <2>4. /\ "cache" \in excused => "cache" \in excused' \/ age' = 0
          /\ pc = "down" => "cache" \in excused'
      BY <1>0, <1>8 DEF SomeoneElse, FaultTypes
    <2>5. pc # "down" => UntilHarvest' <= Turn + MaxPass
      BY <1>a, <2>2
    <2>6. UntilHarvest' <= UntilHarvest /\ UntilHarvest' <= UntilHarvest + Turn
      BY <1>a, <2>2, Within
    <2> QED BY <1>0, <2>1, <2>3, <2>4, <2>5, <2>6, SweepGoesOn
  <1>9. CASE Tick
    <2>1. /\ age' = Upto(age + 1, StaleAfter + 1)
          /\ UNCHANGED <<pc, cursor, excused>>
      BY <1>9 DEF Tick
    <2>2. pc # "down" => UntilHarvest' <= UntilHarvest - 1
      <3>1. CASE pc = "asleep"
        <4>1. ~slept /\ slept' /\ untilCompound' = Dec(untilCompound) /\ passAge' = passAge
          BY <1>9, <3>1 DEF Tick, MayTick
        <4> QED BY <1>0, <2>1, <3>1, <4>1 DEF UntilHarvest, Syncing, FromSleep, Dec, KeeperTypes
      <3>2. CASE pc \notin {"asleep", "down"}
        <4>1. passAge' = passAge + 1 /\ untilCompound' = untilCompound
          BY <1>9, <3>2 DEF Tick, scheduleVars
        <4> QED BY <1>0, <2>1, <3>2, <4>1 DEF UntilHarvest, Syncing, FromPass, ThisPass,
                                              KeeperTypes
      <3> QED BY <3>1, <3>2
    <2>3. PICK a \in Nat, aNew \in Nat, next \in Int, nextNew \in Int, rest \in Nat,
               whole \in Nat, turn \in Nat :
            /\ a = age /\ aNew = age' /\ next = UntilHarvest /\ nextNew = UntilHarvest'
            /\ rest = TurnsAfter(cursor) /\ whole = Pages * Turn /\ turn = Turn
            /\ aNew <= a + 1
      <3>1. PICK a \in Nat, aNew \in Nat : a = age /\ aNew = age' /\ aNew <= a + 1
        BY <1>0, <2>1 DEF ContractTypes, Upto
      <3>2. TurnsAfter(cursor) \in Nat /\ Pages * Turn \in Nat
        BY <1>0, Turns DEF ContractTypes
      <3> QED BY <1>a, <3>1, <3>2
    <2>4. pc # "down" => nextNew <= next - 1 /\ nextNew <= turn + MaxPass
      BY <1>a, <2>2, <2>3
    <2>5. ASSUME "cache" \notin excused' PROVE aNew + nextNew + rest <= whole + MaxPass
      <3>1. pc # "down" /\ "cache" \notin excused
        BY <1>0, <2>1, <2>5 DEF FaultTypes
      <3>2. a + next + rest <= whole + MaxPass
        BY <2>3, <3>1 DEF CacheInv
      <3>3. nextNew <= next - 1 /\ aNew <= a + 1
        BY <2>3, <2>4, <3>1
      <3> QED BY <3>2, <3>3
    <2>6. "cache" \notin excused' =>
            age' + UntilHarvest' + TurnsAfter(cursor') <= Pages * Turn + MaxPass
      BY <2>1, <2>3, <2>5
    <2>7. pc' # "down" => UntilHarvest' <= Turn + MaxPass
      BY <2>1, <2>3, <2>4
    <2> QED BY <2>6, <2>7 DEF CacheInv, TurnsAfter, Turn
  <1>d. ASSUME Fault, pc' # "down" => UntilHarvest' <= Turn + MaxPass
        PROVE  CacheInv'
    <2>1. "cache" \in excused'
      BY <1>d DEF Fault
    <2> QED BY <1>0, <1>d, <2>1, SweepGoesOn
  <1>10. CASE QueryThrows
    <2>1. /\ Sleeps(untilWindow, untilCompound) /\ InPass
          /\ untilCompound \in 0 .. CompoundInterval
      BY <1>0, <1>10 DEF QueryThrows, InPass, KeeperTypes
    <2>2. UntilHarvest' <= Turn + MaxPass
      BY <2>1, HarvestAfterSleep
    <2> QED BY <1>d, <1>10, <2>2 DEF QueryThrows
  <1>11. CASE ExecuteFails
    <2>1. /\ pc = "compound" => UntilHarvest' <= FromPass(CompoundInterval)
          /\ pc # "compound" => UntilHarvest' <= UntilHarvest
      BY <1>11, HarvestAfterAnswer DEF ExecuteFails
    <2>2. pc # "down"
      BY <1>11 DEF ExecuteFails, Executes
    <2>3. CASE pc = "compound"
      <3>1. PICK nextNew \in Int, p \in Nat :
              /\ nextNew = UntilHarvest' /\ p = passAge
              /\ nextNew <= CompoundInterval - p + 2 * MaxPass
        BY <1>0, <1>a, <2>1, <2>3 DEF FromPass, KeeperTypes
      <3>2. nextNew <= CompoundInterval + MaxPass + MaxPass
        BY <3>1
      <3>3. UntilHarvest' <= Turn + MaxPass
        BY <3>1, <3>2 DEF Turn
      <3> QED BY <1>d, <1>11, <3>3 DEF ExecuteFails
    <2>4. CASE pc # "compound"
      <3>1. UntilHarvest' <= Turn + MaxPass
        BY <1>a, <2>1, <2>2, <2>4, Within
      <3> QED BY <1>d, <1>11, <3>1 DEF ExecuteFails
    <2> QED BY <2>3, <2>4
  <1>12. CASE Killed
    BY <1>d, <1>12 DEF Killed
  <1>13. CASE Restarted
    <2>1. /\ pc = "down" /\ pc' = "asleep" /\ slept'
          /\ UNCHANGED <<excused, untilCompound>>
      BY <1>13 DEF Restarted, Observes, history, scheduleVars
    <2>2. UntilHarvest' <= Turn + MaxPass
      BY <1>0, <2>1 DEF UntilHarvest, Syncing, FromSleep, Turn, KeeperTypes
    <2>3. "cache" \in excused'
      BY <1>0, <2>1 DEF FaultTypes
    <2> QED BY <1>0, <2>1, <2>2, <2>3, SweepGoesOn
  <1>14. CASE UNCHANGED vars
    BY <1>14 DEF vars, contractVars, history, passVars, scheduleVars, CacheInv, UntilHarvest,
                 Syncing, FromPass, FromSleep, ThisPass, TurnsAfter, Turn
  <1> QED BY <1>1, <1>2, <1>3, <1>4, <1>5, <1>6, <1>7, <1>8, <1>9, <1>10, <1>11, <1>12,
             <1>13, <1>14 DEF Next, KeeperStep

-----------------------------------------------------------------------------
(* Every step keeps the invariant.                                         *)
LEMMA InvStep == ASSUME Inv, [Next]_vars PROVE Inv'
  <1>1. PassInv /\ WindowInv /\ CacheInv
    BY DEF Inv
  <1>2. PassInv' /\ WindowInv' /\ CacheInv'
    BY <1>1, PassStep, WindowStep, CacheStep
  <1>3. Inv' <=> PassInv' /\ WindowInv' /\ CacheInv'
    BY DEF Inv, PassInv, WindowInv, CacheInv, UntilHarvest, UntilWindowVisit, FromPass,
           FromSleep, ThisPass, TurnsAfter, InPass
  <1> QED BY <1>2, <1>3

(* A keeper that has just been started has it.                             *)
LEMMA InvInit == ASSUME Init PROVE Inv
  <1> USE Constants DEF Init
  <1>1. Flags
    BY DEF Flags
  <1>2. ContractTypes
    BY DEF ContractTypes
  <1>3. KeeperTypes
    BY DEF KeeperTypes, InPass, Queries, Executes, Harvesting, Syncing, Calling
  <1>4. FaultTypes
    BY DEF FaultTypes
  <1>5. UntilWindowVisit = MaxPass /\ UntilHarvest = MaxPass
    <2>1. slept /\ pc = "asleep" /\ untilWindow = 0 /\ untilCompound = 0
      OBVIOUS
    <2> HIDE DEF Init
    <2>2. FromSleep(untilWindow) = 0 + MaxPass /\ FromSleep(untilCompound) = 0 + MaxPass
      BY <2>1 DEF FromSleep
    <2>3. 0 + MaxPass = MaxPass
      BY Constants
    <2>4. UntilWindowVisit = FromSleep(untilWindow) /\ UntilHarvest = FromSleep(untilCompound)
      BY <2>1 DEF UntilWindowVisit, UntilHarvest, Syncing
    <2> QED BY <2>2, <2>3, <2>4
  <1>6. WindowInv
    BY <1>5 DEF WindowInv
  <1>7. CacheInv
    <2>1. Turn \in Nat /\ MaxPass <= Turn + MaxPass
      BY DEF Turn
    <2>2. PICK rest \in Nat, whole \in Nat : rest = TurnsAfter(0) /\ whole = Pages * Turn
      BY Turns
    <2>3. rest + Turn <= whole
      BY <2>2, Turns
    <2>4. 0 + MaxPass + rest <= whole + MaxPass
      BY <2>1, <2>3
    <2> QED BY <1>5, <2>1, <2>2, <2>4 DEF CacheInv
  <1> QED BY <1>1, <1>2, <1>3, <1>4, <1>6, <1>7, Parts DEF Inv

(* TypeOK holds, and every behaviour keeps the invariant.                  *)
THEOREM KeeperInvariant == Spec => []Inv
  <1>1. Init => Inv
    BY InvInit
  <1>2. Inv /\ [Next]_vars => Inv'
    BY InvStep
  <1> QED BY <1>1, <1>2, PTL DEF Spec

(* The keeper's window is closed in time: whatever the intervals are and    *)
(* whoever else calls, it is closable for LateLimit at most, unless a call *)
(* of this keeper failed after it fell due (index.ts:57).                  *)
THEOREM WindowClosedInTime == Spec => []OverdueIsBounded
  <1>1. ASSUME Inv PROVE OverdueIsBounded
    <2> SUFFICES ASSUME "window" \notin excused PROVE ~(late > LateLimit)
      BY DEF OverdueIsBounded
    <2>1. PassInv /\ WindowInv /\ pc # "down"
      BY <1>1 DEF Inv, PassInv
    <2>2. PICK visit \in Nat : visit = UntilWindowVisit
      BY <2>1, VisitType
    <2>3. late \in Nat /\ toClose \in Nat /\ LateLimit \in Nat
      BY <2>1, Constants DEF PassInv, TypeOK
    <2>4. late + visit <= toClose + LateLimit /\ (toClose > 0 => late = 0)
      BY <2>1, <2>2 DEF WindowInv
    <2> QED BY <2>3, <2>4
  <1> QED BY <1>1, KeeperInvariant, PTL

(* The keeper's cache stays fresh: one page is harvested in every interval  *)
(* at the latest, whatever the number of pages, so the cache is never older *)
(* than a sweep at that pace, unless a call of this keeper failed.         *)
THEOREM CacheRefreshedInTime == Spec => []CacheKeptFresh
  <1>1. ASSUME Inv PROVE CacheKeptFresh
    <2> SUFFICES ASSUME "cache" \notin excused
                 PROVE  ~(age > Pages * (CompoundInterval + MaxPass) + MaxPass)
      BY DEF CacheKeptFresh
    <2>1. PassInv /\ CacheInv /\ pc # "down"
      BY <1>1 DEF Inv, PassInv
    <2>2. age \in Nat /\ cursor \in 0 .. Pages - 1
      BY <2>1, Constants DEF PassInv, TypeOK
    <2>3. PICK next \in Nat, rest \in Nat, whole \in Nat :
            next = UntilHarvest /\ rest = TurnsAfter(cursor) /\ whole = Pages * Turn
      BY <2>1, <2>2, HarvestType, Turns
    <2>4. age + next + rest <= whole + MaxPass
      BY <2>1, <2>3 DEF CacheInv
    <2>5. ~(age > whole + MaxPass)
      BY <2>2, <2>4, Constants
    <2> QED BY <2>3, <2>5 DEF Turn
  <1> QED BY <1>1, KeeperInvariant, PTL

=============================================================================
