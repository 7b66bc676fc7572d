----------------------------- MODULE UpkeepPage -----------------------------
(***************************************************************************)
(* Upkeep from a browser (app/src/app/keeper/page.tsx, lib/upkeep.ts and   *)
(* the upkeep part of lib/protocol.ts): the page reads the protocol once,  *)
(* judges what is due by its own clock, and sends every due job in one     *)
(* transaction, which the chain runs whole or not at all.                  *)
(*                                                                         *)
(* The contract appears by what the page reads of it and what the four     *)
(* messages do; the keeper and everyone else act on it at any moment.      *)
(* Moments are ticks to go, in the contract and in what the page has read. *)
(***************************************************************************)
EXTENDS Integers, Sequences, SequencesExt

CONSTANTS
    Length,         \* ticks that a window stays open
    Unbonding,      \* ticks from its closing to its maturity
    PageSize        \* windows that one query answers with (50)

\* Bounds of the model.
CONSTANT MaxWindows

ASSUME UpkeepConstants == Length \in Nat /\ Unbonding \in Nat /\ PageSize \in Nat

VARIABLES
    \* The contract.
    windows,        \* its windows, oldest first: state, and ticks until the next
    worthHarvest,   \* the validators hold rewards above COMPOUND_FLOOR
    cachedRewards,  \* the cache says they do
    unattended,     \* is_unattended: the cache is too old
    \* The page.
    loading,        \* refresh runs: the queries that have not answered
    known,          \* the answers; on the screen when none is awaited
    failed,         \* the last refresh failed
    batch,          \* the jobs of the transaction in flight
    touched         \* the contract changed since `known` was read

contractState == <<windows, worthHarvest, cachedRewards, unattended>>
pageState     == <<loading, known, failed, batch>>
upkeepVars    == <<contractState, pageState, touched>>

Queries == {"state", "windows", "rewards"}

Jobs == {"compound", "advance_window", "collect_matured", "sync"}

Window == [state : {"open", "unbonding", "matured"}, left : 0 .. Length + Unbonding]

UpkeepTypeOK ==
    /\ Len(windows) \in 1 .. MaxWindows /\ Range(windows) \subseteq Window
    /\ worthHarvest \in BOOLEAN /\ cachedRewards \in BOOLEAN
    /\ unattended \in BOOLEAN
    /\ loading \subseteq Queries
    /\ known.unattended \in BOOLEAN /\ known.cached \in BOOLEAN
    /\ known.rewards \in {"worth", "small", "unknown"}
    /\ Len(known.windows) <= PageSize /\ Range(known.windows) \subseteq Window
    /\ failed \in BOOLEAN /\ batch \subseteq Jobs /\ touched \in BOOLEAN

Opened == [state |-> "open", left |-> Length]

Nothing == [unattended |-> FALSE, cached |-> FALSE, rewards |-> "unknown",
            windows |-> << >>]

UpkeepInit ==
    /\ windows = <<Opened>>
    /\ worthHarvest = FALSE /\ cachedRewards = FALSE /\ unattended = FALSE
    /\ loading = Queries /\ known = Nothing
    /\ failed = FALSE /\ batch = {} /\ touched = FALSE

-----------------------------------------------------------------------------
(* The contract.                                                           *)

\* assert_closable: the others refuse nothing.
Accepts(job) == job = "advance_window" => Last(windows).left = 0

\* The windows after AdvanceWindow and CollectMatured, as far as they are asked for.
WindowsAfter(jobs) ==
    LET collected == [i \in DOMAIN windows |->
            IF /\ "collect_matured" \in jobs
               /\ windows[i].state = "unbonding" /\ windows[i].left = 0
            THEN [windows[i] EXCEPT !.state = "matured"] ELSE windows[i]]
    IN  IF "advance_window" \in jobs
        THEN Append([collected EXCEPT ![Len(windows)] =
                        [state |-> "unbonding", left |-> Unbonding]], Opened)
        ELSE collected

\* Every message refreshes what it reads; one page covers the set.
RunJobs(jobs) ==
    /\ "advance_window" \in jobs => Len(windows) < MaxWindows
    /\ windows' = WindowsAfter(jobs)
    /\ worthHarvest' = (worthHarvest /\ "compound" \notin jobs)
    /\ cachedRewards' = IF "sync" \in jobs THEN worthHarvest'
                        ELSE cachedRewards /\ "compound" \notin jobs
    /\ unattended' = (unattended /\ jobs \cap {"sync", "compound"} = {})

\* The keeper, or anybody, runs one job.
SomeoneRuns ==
    /\ \E job \in Jobs : Accepts(job) /\ RunJobs({job})
    /\ touched' = TRUE
    /\ UNCHANGED pageState

Aged(list) ==
    [i \in DOMAIN list |->
        [list[i] EXCEPT !.left = IF list[i].left = 0 THEN 0 ELSE list[i].left - 1]]

\* Time passes, on the screen as on the chain: the countdowns are re-judged by
\* the clock (the effect's `tick`).  Rewards accrue and the cache grows old.
UpkeepTick ==
    /\ windows' = Aged(windows)
    /\ known' = [known EXCEPT !.windows = Aged(@)]
    /\ worthHarvest' \in {worthHarvest, TRUE}
    /\ unattended' \in {unattended, TRUE}
    /\ UNCHANGED <<cachedRewards, loading, failed, batch, touched>>

-----------------------------------------------------------------------------
(* The page.                                                               *)

Overdue(w) == w.state = "open" /\ w.left = 0
RipeWindow(w) == w.state = "unbonding" /\ w.left = 0

\* The live figure of the distribution module, or else the contract's cache.
WorthHarvesting(view) ==
    IF view.rewards = "unknown" THEN view.cached ELSE view.rewards = "worth"

(* Mutated form of Due: a window is closed a moment before its time.       *)
DueEarly(view) ==
    {job \in Jobs :
        \/ job = "compound" /\ WorthHarvesting(view)
        \/ job = "advance_window" /\ \E w \in Range(view.windows) :
                w.state = "open" /\ w.left <= 1
        \/ job = "collect_matured" /\ \E w \in Range(view.windows) : RipeWindow(w)
        \/ job = "sync" /\ view.unattended}

(* Mutated form of Due: the first window is taken for the open one.        *)
DueOfFirst(view) ==
    {job \in Jobs :
        \/ job = "compound" /\ WorthHarvesting(view)
        \/ job = "advance_window" /\ view.windows # << >> /\ Overdue(view.windows[1])
        \/ job = "collect_matured" /\ \E w \in Range(view.windows) : RipeWindow(w)
        \/ job = "sync" /\ view.unattended}

\* assess: the jobs that are due, as far as this reading can tell.
Due(view) ==
    {job \in Jobs :
        \/ job = "compound" /\ WorthHarvesting(view)
        \/ job = "advance_window" /\ \E w \in Range(view.windows) : Overdue(w)
        \/ job = "collect_matured" /\ \E w \in Range(view.windows) : RipeWindow(w)
        \/ job = "sync" /\ view.unattended}

\* fetchWindows asks for one page, and the contract answers oldest first.
FirstPage == SubSeq(windows, 1, IF Len(windows) < PageSize THEN Len(windows) ELSE PageSize)

\* What one of the parallel queries of refresh finds; liveRewards may not know.
Found(query) ==
    CASE query = "state" ->
            known' = [known EXCEPT !.unattended = unattended, !.cached = cachedRewards]
      [] query = "windows" -> known' = [known EXCEPT !.windows = FirstPage]
      [] query = "rewards" ->
            \E r \in {"unknown", IF worthHarvest THEN "worth" ELSE "small"} :
                known' = [known EXCEPT !.rewards = r]

QueryAnswers ==
    /\ \E query \in loading : loading' = loading \ {query} /\ Found(query)
    /\ touched' = IF loading = Queries THEN FALSE ELSE touched
    /\ failed' = (failed /\ loading' # {})
    /\ UNCHANGED <<contractState, batch>>

\* A query throws: the page says that it does not know.
RefreshFails ==
    /\ loading # {}
    /\ loading' = {} /\ failed' = TRUE
    /\ UNCHANGED <<contractState, known, batch, touched>>

\* "Try again".
TryAgain ==
    /\ failed /\ loading = {}
    /\ loading' = Queries
    /\ UNCHANGED <<contractState, known, failed, batch, touched>>

\* The button sends every job that the screen calls due.
Press ==
    /\ loading = {} /\ ~failed /\ batch = {}
    /\ Due(known) # {}
    /\ batch' = Due(known)
    /\ UNCHANGED <<contractState, loading, known, failed, touched>>

\* One transaction, in the order of the screen; the page then reads again.
BatchRuns ==
    /\ batch # {} /\ \A job \in batch : Accepts(job)
    /\ RunJobs(batch)
    /\ batch' = {} /\ loading' = Queries
    /\ touched' = TRUE
    /\ UNCHANGED <<known, failed>>

\* One refusal undoes the whole transaction, and what the page shows stays.
BatchRefused ==
    /\ batch # {} /\ \E job \in batch : ~Accepts(job)
    /\ batch' = {}
    /\ UNCHANGED <<contractState, loading, known, failed, touched>>

\* Rejected in the wallet, or never included; what the page shows stays.
BatchLost ==
    /\ batch # {}
    /\ batch' = {}
    /\ UNCHANGED <<contractState, loading, known, failed, touched>>

UpkeepNext ==
    \/ SomeoneRuns \/ UpkeepTick
    \/ QueryAnswers \/ RefreshFails \/ TryAgain
    \/ Press \/ BatchRuns \/ BatchRefused \/ BatchLost

UpkeepSpec == UpkeepInit /\ [][UpkeepNext]_upkeepVars

-----------------------------------------------------------------------------
(* Properties.                                                             *)

\* The page and the contract agree about what "due" means (upkeep.ts:5-6): a
\* transaction is refused only when somebody acted after the page had read.
RefusedOnlyIfOvertaken == [][BatchRefused => touched]_upkeepVars

\* A window that is overdue, or has ripened, is on the list of a page that has
\* read it, for as long as one page of windows holds them all.
DueIsOffered ==
    loading = {} /\ ~failed /\ ~touched /\ Len(windows) <= PageSize
        => \A i \in DOMAIN windows :
               /\ Overdue(windows[i]) => "advance_window" \in Due(known)
               /\ RipeWindow(windows[i]) => "collect_matured" \in Due(known)

\* "The one thing it must never do is talk somebody out of running upkeep that
\* is overdue" (keeper/page.tsx:66-67): a page that has just read the protocol
\* offers the closing of a window that is overdue.
NeverTalkedOut ==
    loading = {} /\ ~failed /\ ~touched /\ Overdue(Last(windows))
        => "advance_window" \in Due(known)
=============================================================================
