------------------------------- MODULE Keeper -------------------------------
(***************************************************************************)
(* The upkeep loop (keeper/src): a pass of health check, window upkeep and *)
(* harvest, then sixty seconds of sleep, for ever.  One tick is one sleep. *)
(*                                                                         *)
(* Between two awaits of a pass anyone else may call the contract, the     *)
(* chain may refuse or lose a call, a query may throw and the process may  *)
(* be killed.  The contract appears by what the keeper drives: one open    *)
(* window, the windows in flight, the cache's age and the paged sweep.     *)
(* Moments are kept as ticks to go or ticks since, so every value is       *)
(* bounded and behaviours need not end.                                    *)
(***************************************************************************)
EXTENDS Integers, FiniteSetsExt

CONSTANTS
    WindowLength,       \* params.unbond_window_secs
    UnbondingPeriod,    \* params.unbonding_period_secs
    StaleAfter,         \* params.sync_stale_after_secs
    Pages,              \* calls that one sweep of the set takes
    CompoundInterval,   \* config.compoundIntervalMs
    WindowInterval,     \* config.windowIntervalMs
    CallCap,            \* calls that one task makes at most (20)
    Lead                \* the keeper's clock is this far ahead of block time

\* Bounds of the model.
CONSTANTS
    MaxPass,            \* ticks that a pass may take
    MaxDown,            \* ticks until a dead keeper is restarted
    MaxFaults

ASSUME KeeperConstants ==
    /\ {WindowLength, UnbondingPeriod, StaleAfter, Pages, CompoundInterval,
        WindowInterval, CallCap} \subseteq Nat \ {0}
    /\ {Lead, MaxPass, MaxDown, MaxFaults} \subseteq Nat

VARIABLES
    \* The contract, as far as the keeper can tell.
    toClose,        \* ticks until the open window may be closed
    requested,      \* the open window holds a request
    inFlight,       \* for each unbonding window, the ticks until it matures
    age,            \* ticks since last_sync_time, StaleAfter + 1 standing for more
    cursor,         \* SYNC_CURSOR, in pages
    accrued,        \* pages whose validators have earned rewards
    pending,        \* pages with pending rewards in the cache
    \* The keeper's process.
    pc,             \* the call the pass awaits
    slept,          \* the sleep is over
    passAge,        \* ticks since the pass began (since the death, when down)
    untilWindow,    \* ticks until schedules.window is due
    untilCompound,  \* ticks until schedules.compound is due
    nextDue,        \* the soonest deadline the pass has been told of
    stale,          \* the check of this pass found the cache stale
    calls,          \* calls the running task has made
    \* What happened, for the properties.
    faults,         \* faults so far
    late,           \* ticks the open window has been closable
    excused         \* the upkeep ("window", "cache") a fault has touched

contractVars == <<toClose, requested, inFlight, age, cursor, accrued, pending>>
scheduleVars == <<untilWindow, untilCompound>>
passVars     == <<nextDue, stale, calls>>
history      == <<faults, late, excused>>
vars == <<contractVars, pc, slept, passAge, scheduleVars, passVars, history>>

AllPages == 1 .. Pages

\* Later than every deadline: what Infinity is in Schedule.
Never == WindowLength + UnbondingPeriod + WindowInterval

Minus(n, k) == IF n > k THEN n - k ELSE 0

\* How long a window may stay closable.  A keeper that wakes for the moment it
\* was told of comes a pass or two late, unless someone else closed the window
\* after it had asked: then it knows of no moment and comes at its interval.
\* When its clock is ahead the chain may refuse the call as too early, and then
\* too it comes again at its interval.
LateLimit ==
    2 * MaxPass + IF Lead = 0 THEN Minus(WindowInterval, WindowLength)
                              ELSE WindowInterval - 1

Queries  == {"check", "open", "unbonding", "compound-read", "sync-start", "sync-read"}
Executes == {"advance", "collect", "compound", "sync"}

TypeOK ==
    /\ toClose \in 0 .. WindowLength
    /\ requested \in BOOLEAN
    /\ inFlight \in SUBSET (0 .. UnbondingPeriod)
    /\ age \in 0 .. StaleAfter + 1
    /\ cursor \in 0 .. Pages - 1
    /\ accrued \in SUBSET AllPages /\ pending \in SUBSET AllPages
    /\ pc \in Queries \cup Executes \cup {"asleep", "down"}
    /\ slept \in BOOLEAN /\ stale \in BOOLEAN
    /\ passAge \in Nat
    /\ untilWindow \in 0 .. WindowInterval
    /\ untilCompound \in 0 .. CompoundInterval
    /\ nextDue \in 0 .. Never
    /\ calls \in 0 .. CallCap
    /\ faults \in 0 .. MaxFaults
    /\ late \in 0 .. LateLimit + 1
    /\ excused \in SUBSET {"window", "cache"}

Dec(n) == IF n = 0 THEN 0 ELSE n - 1
Upto(n, cap) == IF n > cap THEN cap ELSE n
Least(a, b) == IF a < b THEN a ELSE b

Unattended == age > StaleAfter

Init ==
    /\ toClose = WindowLength /\ requested = FALSE /\ inFlight = {}
    /\ age = 0 /\ cursor = 0 /\ accrued = {} /\ pending = {}
    /\ pc = "asleep" /\ slept = TRUE /\ passAge = 0
    /\ untilWindow = 0 /\ untilCompound = 0
    /\ nextDue = Never /\ stale = FALSE /\ calls = 0
    /\ faults = 0 /\ late = 0 /\ excused = {}

-----------------------------------------------------------------------------
(* The contract's handlers, as the steps below use them.                   *)

Closes ==
    /\ toClose = 0
    /\ toClose' = WindowLength
    /\ inFlight' = inFlight \cup (IF requested THEN {UnbondingPeriod} ELSE {})
    /\ requested' = FALSE
    /\ late' = 0
    /\ UNCHANGED <<age, cursor, accrued, pending>>

Collects ==
    /\ inFlight' = inFlight \ {0}
    /\ UNCHANGED <<toClose, requested, age, cursor, accrued, pending, late>>

(* Mutated form of SweepsPage: every call starts at the first page.        *)
SweepsPageAnew(cached) ==
    /\ cursor' = 0 /\ age' = 0 /\ pending' = cached
    /\ UNCHANGED <<toClose, requested, inFlight, late>>

\* The next page of a sweep; the last one stamps the cache.
SweepsPage(cached) ==
    /\ cursor' = (cursor + 1) % Pages
    /\ age' = IF cursor' = 0 THEN 0 ELSE age
    /\ pending' = cached
    /\ UNCHANGED <<toClose, requested, inFlight, late>>

Harvests ==
    /\ SweepsPage(pending \ {cursor + 1})
    /\ accrued' = accrued \ {cursor + 1}

Rereads ==
    /\ SweepsPage((pending \ {cursor + 1}) \cup (accrued \cap {cursor + 1}))
    /\ UNCHANGED accrued

\* A deposit or a request re-reads the whole set and closes a due window.
UserTransacts ==
    /\ age' = 0 /\ pending' = accrued
    /\ \E unbonds \in BOOLEAN :
         IF toClose = 0
         THEN /\ toClose' = WindowLength
              /\ inFlight' = inFlight \cup
                    (IF requested \/ unbonds THEN {UnbondingPeriod} ELSE {})
              /\ requested' = FALSE /\ late' = 0
         ELSE /\ requested' = (requested \/ unbonds)
              /\ UNCHANGED <<toClose, inFlight, late>>
    /\ UNCHANGED <<cursor, accrued>>

\* Users, and everyone else who runs upkeep: another keeper among them.
SomeoneElse ==
    /\ UserTransacts \/ Closes \/ Collects \/ Harvests \/ Rereads
    /\ excused' = IF pc = "down" THEN excused
                  ELSE excused \ ((IF age' = 0 THEN {"cache"} ELSE {}) \cup
                                  (IF toClose' > toClose THEN {"window"} ELSE {}))
    /\ UNCHANGED <<pc, slept, passAge, scheduleVars, passVars, faults>>

-----------------------------------------------------------------------------
(* The schedules.  During a pass they count from the moment it began: that *)
(* is the `now` they are compared with and marked at.                      *)

(* Mutated form of MarkedUntil: the interval is not a ceiling.             *)
MarkedUntilDeadline(interval, deadline) == deadline

\* Schedule.mark: due at the interval, or at a deadline named before it.
MarkedUntil(interval, deadline) == Least(interval, deadline)

\* The pass is over; what a schedule has left counts from here.
Sleeps(window, compound) ==
    /\ pc' = "asleep" /\ slept' = FALSE /\ passAge' = 0
    /\ untilWindow' = Minus(window, passAge)
    /\ untilCompound' = Minus(compound, passAge)
    /\ nextDue' = Never /\ stale' = FALSE /\ calls' = 0

Awaits(call) ==
    /\ pc' = call
    /\ UNCHANGED <<slept, passAge, scheduleVars>>

(* Mutated form of HarvestOrSleep: the schedule is not asked.              *)
HarvestOrSleepWhenStale(isStale, window) ==
    IF isStale
    THEN /\ pc' = "compound" /\ untilWindow' = window
         /\ stale' = isStale /\ UNCHANGED <<slept, passAge, untilCompound, calls>>
         /\ nextDue' = Never
    ELSE Sleeps(window, untilCompound)

\* A stale cache is harvested out of turn.
HarvestOrSleep(isStale, window) ==
    IF isStale \/ untilCompound = 0
    THEN /\ pc' = "compound" /\ untilWindow' = window
         /\ stale' = isStale /\ UNCHANGED <<slept, passAge, untilCompound, calls>>
         /\ nextDue' = Never
    ELSE Sleeps(window, untilCompound)

-----------------------------------------------------------------------------
(* The steps of a pass, one for each await.                                *)

Observes == UNCHANGED <<contractVars, history>>

WakeUp ==
    /\ pc = "asleep" /\ slept
    /\ pc' = "check" /\ slept' = FALSE
    /\ Observes /\ UNCHANGED <<passAge, scheduleVars, passVars>>

\* runChecks; of its findings only freshness decides anything here.
Check ==
    /\ pc = "check"
    /\ IF untilWindow = 0
       THEN Awaits("open") /\ stale' = Unattended /\ UNCHANGED <<nextDue, calls>>
       ELSE HarvestOrSleep(Unattended, untilWindow)
    /\ Observes

\* advanceWindow asks for the open window and compares it with its own clock.
AskOpenWindow ==
    /\ pc = "open"
    /\ IF toClose <= Lead
       THEN Awaits("advance") /\ UNCHANGED nextDue
       ELSE Awaits("unbonding") /\ nextDue' = Least(nextDue, toClose - Lead + passAge)
    /\ Observes /\ UNCHANGED <<stale, calls>>

(* Mutated form of Ripe: the collection waits for the last window.         *)
RipeAltogether == inFlight # {} /\ \A r \in inFlight : r <= Lead

\* Some window in flight has matured by the keeper's clock.
Ripe == \E r \in inFlight : r <= Lead

\* collectMatured asks for the windows in flight.
AskUnbonding ==
    /\ pc = "unbonding"
    /\ IF Ripe
       THEN Awaits("collect") /\ UNCHANGED passVars
       ELSE LET maturities == {r - Lead + passAge : r \in inFlight}
            IN  HarvestOrSleep(stale,
                    MarkedUntil(WindowInterval, Min({nextDue} \cup maturities)))
    /\ Observes

\* What the awaited transaction does when the chain runs it.
Applied ==
    \/ pc = "advance" /\ Closes
    \/ pc = "collect" /\ Collects
    \/ pc = "compound" /\ Harvests
    \/ pc = "sync" /\ Rereads

Untouched == UNCHANGED <<contractVars, late>>

\* How the task goes on: `ok` is the answer of Keeper.execute.
Answered(ok) ==
    \/ pc = "advance" /\ Awaits("unbonding") /\ UNCHANGED passVars
    \/ pc = "collect" /\ HarvestOrSleep(stale, MarkedUntil(WindowInterval, nextDue))
    \/ /\ pc = "compound" /\ ok
       /\ Awaits("compound-read") /\ calls' = calls + 1
       /\ UNCHANGED <<nextDue, stale>>
    \/ /\ pc = "compound" /\ ~ok /\ stale
       /\ pc' = "sync-start" /\ untilCompound' = CompoundInterval /\ calls' = 0
       /\ UNCHANGED <<slept, passAge, untilWindow, nextDue, stale>>
    \/ pc = "compound" /\ ~ok /\ ~stale /\ Sleeps(untilWindow, CompoundInterval)
    \/ /\ pc = "sync" /\ ok
       /\ Awaits("sync-read") /\ calls' = calls + 1
       /\ UNCHANGED <<nextDue, stale>>
    \/ pc = "sync" /\ ~ok /\ Sleeps(untilWindow, untilCompound)

Stamped == IF age' = 0 THEN excused \ {"cache"} ELSE excused

Closed == IF pc = "advance" THEN Stamped \ {"window"} ELSE Stamped

\* A call that the chain runs, or refuses as not due, and answers.
Execute ==
    /\ \/ Applied /\ excused' = Closed
       \/ pc = "advance" /\ toClose # 0 /\ Untouched /\ UNCHANGED excused
    /\ Answered(TRUE)
    /\ UNCHANGED faults

\* What compound takes for a finished sweep.
SweptAway == ~Unattended /\ pending = {}

ReadAfterCompound ==
    /\ pc = "compound-read"
    /\ IF SweptAway \/ calls = CallCap
       THEN Sleeps(untilWindow, CompoundInterval)
       ELSE Awaits("compound") /\ UNCHANGED passVars
    /\ Observes

\* The fallback sync reads the state before its first call and after each.
ReadForSync ==
    /\ pc \in {"sync-start", "sync-read"}
    /\ IF pc = "sync-read" /\ (~Unattended \/ calls = CallCap)
       THEN Sleeps(untilWindow, untilCompound)
       ELSE Awaits("sync") /\ UNCHANGED passVars
    /\ Observes

KeeperStep ==
    \/ WakeUp \/ Check \/ AskOpenWindow \/ AskUnbonding
    \/ Execute \/ ReadAfterCompound \/ ReadForSync

-----------------------------------------------------------------------------
(* Faults: a query that throws ends the pass, which the loop survives; a   *)
(* transaction that was refused, or whose answer was lost, is an error the *)
(* task reports; a killed process forgets its schedules.                   *)

Fault ==
    /\ faults < MaxFaults
    /\ faults' = faults + 1
    /\ excused' = {"window", "cache"}

QueryThrows ==
    /\ pc \in Queries
    /\ Sleeps(untilWindow, untilCompound)
    /\ Fault /\ UNCHANGED <<contractVars, late>>

ExecuteFails ==
    /\ pc \in Executes
    /\ Applied \/ Untouched
    /\ Answered(FALSE)
    /\ Fault

Killed ==
    /\ pc # "down"
    /\ pc' = "down" /\ slept' = FALSE /\ passAge' = 0
    /\ untilWindow' = 0 /\ untilCompound' = 0
    /\ nextDue' = Never /\ stale' = FALSE /\ calls' = 0
    /\ Fault /\ UNCHANGED <<contractVars, late>>

\* A new process: everything is due, and the first pass comes at once.
Restarted ==
    /\ pc = "down"
    /\ pc' = "asleep" /\ slept' = TRUE /\ passAge' = 0
    /\ Observes /\ UNCHANGED <<scheduleVars, passVars>>

\* The keeper is where its timers let it be: asleep no longer than one tick,
\* in a pass or dead no longer than the bounds.
MayTick ==
    CASE pc = "asleep" -> ~slept
      [] pc = "down"   -> passAge < MaxDown
      [] OTHER         -> passAge < MaxPass

Tick ==
    /\ MayTick
    /\ toClose' = Dec(toClose)
    /\ inFlight' = {Dec(r) : r \in inFlight}
    /\ age' = Upto(age + 1, StaleAfter + 1)
    /\ accrued' = AllPages
    /\ late' = IF toClose = 0 THEN Upto(late + 1, LateLimit + 1) ELSE 0
    /\ IF pc = "asleep"
       THEN /\ slept' = TRUE /\ UNCHANGED passAge
            /\ untilWindow' = Dec(untilWindow) /\ untilCompound' = Dec(untilCompound)
       ELSE passAge' = passAge + 1 /\ UNCHANGED <<slept, scheduleVars>>
    /\ UNCHANGED <<requested, cursor, pending, pc, passVars, faults, excused>>

Next ==
    \/ KeeperStep \/ SomeoneElse \/ Tick
    \/ QueryThrows \/ ExecuteFails \/ Killed \/ Restarted

(***************************************************************************)
(* The loop has no exit, every await settles, the sleep ends, time passes, *)
(* and the operator's service manager starts a dead keeper again.  Nothing *)
(* is assumed of users or of other keepers.                                *)
(***************************************************************************)
Fairness == WF_vars(KeeperStep) /\ WF_vars(Tick) /\ WF_vars(Restarted)

Spec == Init /\ [][Next]_vars /\ Fairness

-----------------------------------------------------------------------------
(* Properties.                                                             *)

\* A window is closable for at most one interval and the time of a pass, while
\* nothing failed since it fell due: the deadline the keeper noted is never
\* lost, and an early call that the chain refused is repeated (index.ts:57).
OverdueIsBounded == late > LateLimit => "window" \in excused

\* With nobody but the keeper to refresh it, and no fault, the cache is never
\* older than the intervals of one sweep: a page an interval at worst.
CacheKeptFresh ==
    age > Pages * (CompoundInterval + MaxPass) + MaxPass => "cache" \in excused

\* Whatever failed before, a window that is due gets closed, one that has
\* matured gets collected and a stale cache gets refreshed (index.ts:159-161).
UpkeepIsDone ==
    /\ (toClose = 0) ~> (toClose > 0)
    /\ (0 \in inFlight) ~> (0 \notin inFlight)
    /\ Unattended ~> ~Unattended

\* Every page's rewards are harvested again and again, unless other people's
\* Syncs keep moving the cursor that Sync and Compound share (tasks.ts:81).
RewardsAreHarvested ==
    \/ []<><<Rereads /\ UNCHANGED pc>>_vars
    \/ \A page \in AllPages : []<>(page \notin accrued)
=============================================================================
