----------------------------- MODULE AppProofs ------------------------------
(***************************************************************************)
(* What the pages of the application keep, for any number of accounts,     *)
(* validators, ranges and windows, and any amounts.                        *)
(***************************************************************************)
EXTENDS App, SumFacts, TLAPS, SequenceTheorems, FiniteSetTheorems

-----------------------------------------------------------------------------
(* Each page runs its own specification inside the tab.                    *)

THEOREM PagesRunTheirSpecs ==
    AppSpec => /\ SessionSpec /\ FormSpec /\ UpkeepSpec
               /\ ConsoleSpec /\ ChartSpec /\ EndpointSpec
<1>1. AppInit => /\ SessionInit /\ FormInit /\ UpkeepInit
                 /\ ConsoleInit /\ ChartInit /\ EndpointInit
  BY DEF AppInit
<1>2. [AppNext]_appVars => /\ [SessionNext]_sessionVars /\ [FormNext]_formVars
                           /\ [UpkeepNext]_upkeepVars /\ [ConsoleNext]_consoleVars
                           /\ [ChartNext]_chartVars /\ [EndpointNext]_endpointVars
  BY DEF AppNext, appVars, StakePage, StakePageForm, KeeperPage, GovernancePage,
         StatisticsPage, SettingsPanel
<1> QED
  BY <1>1, <1>2, PTL DEF AppSpec, SessionSpec, FormSpec, UpkeepSpec, ConsoleSpec,
                         ChartSpec, EndpointSpec

-----------------------------------------------------------------------------
(* The wallet session.                                                     *)

\* On the stake card the live reads are for what is shown, and no transaction
\* of another view is under way.
LiveReadsAreCurrent ==
    view = "balance" =>
        /\ \A r \in reads :
             /\ r = [figure |-> r.figure, live |-> r.live, step |-> r.step]
             /\ r.live = TRUE =>
                  r.figure = [address |-> connection, token |-> Token(mode)]
        /\ busy = None

BalanceInv == LiveReadsAreCurrent /\ ShownBalanceIsCurrent

\* Asking for the balance anew leaves only current reads alive.
LEMMA BalanceEffectIsCurrent ==
    ASSUME BalanceInv, NEW address, NEW m, view = "balance",
           BalanceEffect(address, m), connection' = address, mode' = m,
           busy' = None, UNCHANGED view
    PROVE  BalanceInv'
<1>1. shown' = None
  BY DEF BalanceEffect
<1>2. ASSUME NEW r \in reads'
      PROVE  /\ r = [figure |-> r.figure, live |-> r.live, step |-> r.step]
             /\ r.live = TRUE => r.figure = [address |-> connection', token |-> Token(m)']
  <2>1. CASE \E old \in reads : r = Cancelled(old)
    BY <2>1 DEF Cancelled, BalanceInv, LiveReadsAreCurrent
  <2>2. CASE r = Reading(address, Token(m))
    BY <2>2 DEF Reading, Token
  <2> QED
    BY <2>1, <2>2 DEF BalanceEffect
<1> QED
  BY <1>1, <1>2 DEF BalanceInv, LiveReadsAreCurrent, ShownBalanceIsCurrent

\* What is in flight only shrinks, or takes its next step, and may be shown.
LEMMA ReadStepIsCurrent ==
    ASSUME BalanceInv, view = "balance", ReadStep
    PROVE  BalanceInv'
<1>1. PICK r \in reads : Signed(r) \/ Landed(r) \/ ReadFails(r)
  BY DEF ReadStep
<1>2. UNCHANGED <<connection, view, mode, busy>>
  BY DEF ReadStep, session
<1>3. /\ r = [figure |-> r.figure, live |-> r.live, step |-> r.step]
      /\ r.live = TRUE => r.figure = [address |-> connection, token |-> Token(mode)]
  BY DEF BalanceInv, LiveReadsAreCurrent
<1>4. Token(mode)' = Token(mode)
  BY <1>2 DEF Token
<1>5. CASE Signed(r)
  <2>1. DEFINE next == [r EXCEPT !.step = "query"]
  <2>2. /\ next = [figure |-> next.figure, live |-> next.live, step |-> next.step]
        /\ next.figure = r.figure /\ next.live = r.live
    BY <1>3
  <2> QED
    BY <1>2, <1>3, <1>4, <1>5, <2>2
    DEF Signed, BalanceInv, LiveReadsAreCurrent, ShownBalanceIsCurrent
<1>6. CASE Landed(r) \/ ReadFails(r)
  BY <1>2, <1>3, <1>4, <1>6
  DEF Landed, ReadFails, BalanceInv, LiveReadsAreCurrent, ShownBalanceIsCurrent
<1> QED
  BY <1>1, <1>5, <1>6

\* Every step of the session keeps it.
LEMMA BalanceStep == BalanceInv /\ [SessionNext]_sessionVars => BalanceInv'
<1> SUFFICES ASSUME BalanceInv, [SessionNext]_sessionVars
             PROVE  BalanceInv'
  OBVIOUS
<1>1. view' = view
  BY DEF SessionNext, sessionVars, ConnectClick, WalletReads, AttemptLands, AttemptFails,
         SwitchAccount, Disconnect, Inject, Reload, ReadStep, SetMode, AskForFigure,
         ToggleDrawer, Submit, TxLands, TxFails, OnScreen
<1>2. CASE view # "balance"
  BY <1>1, <1>2 DEF BalanceInv, LiveReadsAreCurrent, ShownBalanceIsCurrent
<1>3. CASE view = "balance"
  <2> USE <1>1, <1>3
  <2>1. CASE ConnectClick \/ WalletReads \/ AttemptFails \/ SwitchAccount \/ Inject
             \/ UNCHANGED sessionVars
    <3>1. UNCHANGED <<connection, mode, reads, shown, busy>>
      BY <2>1 DEF ConnectClick, WalletReads, AttemptFails, SwitchAccount, Inject,
                  session, screen, sessionVars
    <3> QED
      BY <3>1 DEF BalanceInv, LiveReadsAreCurrent, ShownBalanceIsCurrent, Token
  <2>2. CASE AttemptLands
    <3>1. /\ BalanceEffect(attempts[1].address, mode)
          /\ connection' = attempts[1].address /\ UNCHANGED <<mode, busy>>
      BY <2>2 DEF AttemptLands, Effects
    <3> QED
      BY <3>1, BalanceEffectIsCurrent DEF BalanceInv, LiveReadsAreCurrent
  <2>3. CASE Disconnect
    <3>1. /\ BalanceEffect(None, mode)
          /\ connection' = None /\ UNCHANGED <<mode, busy>>
      BY <2>3 DEF Disconnect
    <3> QED
      BY <3>1, BalanceEffectIsCurrent DEF BalanceInv, LiveReadsAreCurrent
  <2>4. CASE SetMode
    <3>1. BalanceEffect(connection, mode') /\ UNCHANGED <<connection, busy>>
      BY <2>4 DEF SetMode, OnScreen, session
    <3> QED
      BY <3>1, BalanceEffectIsCurrent DEF BalanceInv, LiveReadsAreCurrent
  <2>5. CASE Reload
    BY <2>5 DEF Reload, BalanceInv, LiveReadsAreCurrent, ShownBalanceIsCurrent
  <2>6. CASE ReadStep
    BY <2>6, ReadStepIsCurrent
  <2>7. ~(AskForFigure \/ ToggleDrawer \/ Submit \/ TxLands \/ TxFails)
    BY DEF AskForFigure, ToggleDrawer, Submit, TxLands, TxFails, BalanceInv,
           LiveReadsAreCurrent
  <2> QED
    BY <2>1, <2>2, <2>3, <2>4, <2>5, <2>6, <2>7 DEF SessionNext
<1> QED
  BY <1>2, <1>3

(***************************************************************************)
(* The stake card never shows the balance of an account that is no longer  *)
(* connected, nor one of the wrong token (page.tsx:76-96).                 *)
(***************************************************************************)
THEOREM BalanceAlwaysCurrent == AppSpec => []ShownBalanceIsCurrent
<1>1. SessionInit => BalanceInv
  BY DEF SessionInit, BalanceInv, LiveReadsAreCurrent, ShownBalanceIsCurrent
<1>2. BalanceInv => ShownBalanceIsCurrent
  BY DEF BalanceInv
<1> QED
  BY <1>1, <1>2, BalanceStep, PagesRunTheirSpecs, PTL DEF SessionSpec

-----------------------------------------------------------------------------
(* The account that the tab is on.                                         *)

\* Unless something was missed, the youngest call of connect() - or, with none
\* in flight, the connection - is for the account that is selected.
YoungestFollows ==
    ~missed => IF attempts = << >> THEN connection \in {None, selected}
               ELSE attempts[Len(attempts)].address \in {None, selected}

FollowInv ==
    /\ attempts \in Seq(Attempt)
    /\ selected \in Accounts
    /\ YoungestFollows

\* A call of connect() joins the queue.
LEMMA AppendedFollows ==
    ASSUME FollowInv, NEW kind \in {"click", "restore", "change"},
           attempts' = Append(attempts, [kind |-> kind, address |-> None]),
           selected' \in Accounts
    PROVE  FollowInv'
<1>1. [kind |-> kind, address |-> None] \in Attempt
  BY DEF Attempt
<1>2. /\ attempts' \in Seq(Attempt) /\ attempts' # << >>
      /\ attempts'[Len(attempts')] = [kind |-> kind, address |-> None]
  BY <1>1 DEF FollowInv
<1> QED
  BY <1>2 DEF FollowInv, YoungestFollows

\* The oldest one leaves it.
LEMMA TailFollows ==
    ASSUME FollowInv, attempts # << >>, attempts' = Tail(attempts), UNCHANGED selected,
           ~missed' => ~missed \/ (attempts[1].address = selected /\ Len(attempts) = 1),
           ~missed' => (Len(attempts) = 1 => connection' \in {None, attempts[1].address})
    PROVE  FollowInv'
<1>1. /\ attempts \in Seq(Attempt) /\ Len(attempts) \in Nat \ {0}
      /\ attempts' \in Seq(Attempt) /\ Len(attempts') = Len(attempts) - 1
  BY DEF FollowInv
<1>2. CASE Len(attempts) = 1
  <2>1. attempts' = << >>
    BY <1>1, <1>2
  <2> QED
    BY <1>1, <1>2, <2>1 DEF FollowInv, YoungestFollows
<1>3. CASE Len(attempts) # 1
  <2>1. Len(attempts') \in 1 .. Len(attempts) - 1
    BY <1>1, <1>3
  <2>2. attempts'[Len(attempts')] = attempts[Len(attempts') + 1]
    BY <1>1, <2>1
  <2>3. attempts' # << >>
    <3>1. Len(<< >>) = 0
      OBVIOUS
    <3>2. Len(attempts') # 0
      BY <1>1, <2>1
    <3> QED
      BY <3>1, <3>2, Zenon
  <2>4. Len(attempts') + 1 = Len(attempts)
    BY <1>1
  <2> QED
    BY <1>1, <1>3, <2>1, <2>2, <2>3, <2>4 DEF FollowInv, YoungestFollows
<1> QED
  BY <1>2, <1>3

\* Every step of the session keeps it.
LEMMA FollowStep == FollowInv /\ [SessionNext]_sessionVars => FollowInv'
<1> SUFFICES ASSUME FollowInv, [SessionNext]_sessionVars
             PROVE  FollowInv'
  OBVIOUS
<1>1. CASE ConnectClick
  BY <1>1, AppendedFollows DEF ConnectClick, Attempts, browser, FollowInv
<1>2. CASE WalletReads
  <2>1. PICK i \in DOMAIN attempts :
            attempts' = [attempts EXCEPT ![i].address = selected]
    BY <1>2 DEF WalletReads
  <2>2. UNCHANGED <<selected, connection, missed>>
    BY <1>2 DEF WalletReads, browser
  <2>3. /\ attempts \in Seq(Attempt) /\ selected \in Accounts
        /\ DOMAIN attempts = 1 .. Len(attempts) /\ Len(attempts) \in Nat
    BY DEF FollowInv
  <2>4. [attempts[i] EXCEPT !.address = selected] \in Attempt
    <3>1. attempts[i] \in Attempt
      BY <2>1, <2>3
    <3>2. \A r \in Attempt : [r EXCEPT !.address = selected] \in Attempt
      BY <2>3 DEF Attempt
    <3> QED
      BY <3>1, <3>2
  <2>5. attempts' \in Seq(Attempt) /\ Len(attempts') = Len(attempts)
    BY <2>1, <2>3, <2>4
  <2>6. attempts # << >> /\ attempts' # << >>
    BY <2>1, <2>3, <2>5
  <2>7. attempts'[Len(attempts)].address \in {attempts[Len(attempts)].address, selected}
    BY <2>1, <2>3, <2>6 DEF Attempt
  <2> QED
    BY <2>2, <2>3, <2>5, <2>6, <2>7 DEF FollowInv, YoungestFollows
<1>3. CASE AttemptLands
  <2>1. /\ attempts # << >> /\ attempts' = Tail(attempts) /\ UNCHANGED selected
        /\ connection' = attempts[1].address
        /\ missed' = (missed /\ (attempts[1].address # selected \/ Len(attempts) > 1))
    BY <1>3 DEF AttemptLands
  <2>2. attempts \in Seq(Attempt) /\ Len(attempts) \in Nat \ {0}
    BY <2>1 DEF FollowInv
  <2>3. (attempts[1].address = selected /\ Len(attempts) = 1)
          \/ attempts[1].address # selected \/ Len(attempts) > 1
    <3>1. \A n \in Nat \ {0} : n = 1 \/ n > 1
      OBVIOUS
    <3> QED
      BY <2>2, <3>1, Zenon
  <2>4. ~missed' => ~missed \/ (attempts[1].address = selected /\ Len(attempts) = 1)
    BY <2>1, <2>3, Zenon
  <2> QED
    BY <2>1, <2>4, TailFollows
<1>4. CASE AttemptFails
  <2>1. /\ attempts # << >> /\ attempts' = Tail(attempts) /\ UNCHANGED <<selected, connection>>
        /\ missed' = (missed \/ connection # None)
    BY <1>4 DEF AttemptFails
  <2> QED
    BY <2>1, TailFollows
<1>5. CASE SwitchAccount
  <2>1. CASE connection # None
    BY <1>5, <2>1, AppendedFollows DEF SwitchAccount, Reconnects, Attempts
  <2>2. CASE connection = None
    BY <1>5, <2>2 DEF SwitchAccount, Reconnects, FollowInv, YoungestFollows
  <2> QED
    BY <2>1, <2>2
<1>6. CASE Disconnect
  <2>1. /\ UNCHANGED <<selected, attempts>> /\ connection' = None
        /\ missed' = (missed /\ attempts # << >>)
    BY <1>6 DEF Disconnect
  <2>2. CASE attempts = << >>
    BY <2>1, <2>2 DEF FollowInv, YoungestFollows
  <2>3. CASE attempts # << >>
    BY <2>1, <2>3 DEF FollowInv, YoungestFollows
  <2> QED
    BY <2>2, <2>3
<1>7. CASE Reload
  <2>1. UNCHANGED selected /\ connection' = None /\ attempts' \in {Restoring, << >>}
    BY <1>7 DEF Reload
  <2>2. Restoring \in Seq(Attempt) /\ Restoring # << >> /\ Restoring[Len(Restoring)].address = None
    BY DEF Restoring, Attempt
  <2>3. CASE attempts' = Restoring
    BY <2>1, <2>2, <2>3 DEF FollowInv, YoungestFollows
  <2>4. CASE attempts' = << >>
    BY <2>1, <2>4 DEF FollowInv, YoungestFollows
  <2> QED
    BY <2>1, <2>3, <2>4
<1>8. CASE UNCHANGED <<attempts, selected, connection, missed>>
  BY <1>8 DEF FollowInv, YoungestFollows
<1>9. ASSUME \/ Inject \/ ReadStep \/ SetMode \/ AskForFigure \/ ToggleDrawer
             \/ Submit \/ TxLands \/ TxFails \/ UNCHANGED sessionVars
      PROVE  UNCHANGED <<attempts, selected, connection, missed>>
  BY <1>9 DEF Inject, ReadStep, SetMode, AskForFigure, ToggleDrawer, Submit, TxLands,
              TxFails, OnScreen, browser, session, sessionVars
<1> QED
  BY <1>1, <1>2, <1>3, <1>4, <1>5, <1>6, <1>7, <1>8, <1>9 DEF SessionNext

(***************************************************************************)
(* A settled tab is on the account that the wallet has selected, unless    *)
(* the change came before it was connected or the reconnection failed      *)
(* (Wallet.tsx:107-115).                                                   *)
(***************************************************************************)
THEOREM AccountAlwaysFollowed == AppSpec => []AccountFollowed
<1>1. SessionInit => FollowInv
  <2>1. /\ Restoring \in Seq(Attempt) /\ Restoring # << >>
        /\ Restoring[Len(Restoring)].address = None
    BY DEF Restoring, Attempt
  <2> QED
    BY <2>1 DEF SessionInit, FollowInv, YoungestFollows
<1>2. FollowInv => AccountFollowed
  BY DEF FollowInv, YoungestFollows, AccountFollowed
<1> QED
  BY <1>1, <1>2, FollowStep, PagesRunTheirSpecs, PTL DEF SessionSpec

-----------------------------------------------------------------------------
(* The chart.                                                              *)

NetworkInv ==
    /\ height \in Nat /\ pruned \in Nat
    /\ Created <= height /\ pruned <= height
    /\ upgrades \in Seq(Nat)
    /\ \A i \in DOMAIN upgrades : upgrades[i] <= height

\* The code history that a load read is the beginning of the real one, and what
\* it lacks came after the latest block it found.
HistoryRead(l) ==
    /\ l.changes \in Seq(Nat) /\ Len(l.changes) <= Len(upgrades)
    /\ \A i \in DOMAIN upgrades :
         IF i <= Len(l.changes) THEN l.changes[i] = upgrades[i]
         ELSE upgrades[i] > l.latest

LoadShape(l) ==
    l = [step |-> l.step, range |-> l.range, latest |-> l.latest, first |-> l.first,
         asks |-> l.asks, missing |-> l.missing, known |-> l.known,
         changes |-> l.changes]

LoadInv ==
    /\ LoadShape(load)
    /\ load.step # "done" => load.range = range
    /\ range \in Ranges
    /\ load.step # "states" => load.known = {} /\ load.missing = {}
    /\ load.missing \subseteq Int
    /\ load.step \in {"hashes", "states"} =>
         /\ load.latest \in Nat /\ load.latest <= height
         /\ \A h \in load.asks : h \in Int /\ h <= load.latest
    /\ load.known # {} => HistoryRead(load)

ChartInv == NetworkInv /\ LoadInv /\ NothingElseIsMissing

\* The chain's own steps keep the chart's invariant.
LEMMA NetworkStep ==
    ASSUME ChartInv, NewBlock \/ Upgrade \/ Prune
    PROVE  ChartInv'
<1> USE ChartConstants
<1>1. /\ UNCHANGED <<range, load>>
      /\ height' \in Nat /\ height <= height' /\ pruned' \in Nat /\ pruned <= pruned'
      /\ pruned' <= height'
  BY DEF NewBlock, Upgrade, Prune, OnPage, ChartInv, NetworkInv
<1>2. \/ upgrades' = upgrades
      \/ upgrades' = Append(upgrades, height + 1) /\ height' = height + 1
  BY DEF NewBlock, Upgrade, Prune
<1>3. /\ upgrades' \in Seq(Nat) /\ Len(upgrades) <= Len(upgrades')
      /\ DOMAIN upgrades = 1 .. Len(upgrades) /\ DOMAIN upgrades' = 1 .. Len(upgrades')
      /\ Len(upgrades) \in Nat /\ Len(upgrades') \in Nat
      /\ \A i \in 1 .. Len(upgrades) : upgrades'[i] = upgrades[i]
      /\ \A i \in 1 .. Len(upgrades') :
            i > Len(upgrades) => upgrades'[i] = height + 1 /\ height' = height + 1
  <2>1. upgrades \in Seq(Nat) /\ Len(upgrades) \in Nat /\ DOMAIN upgrades = 1 .. Len(upgrades)
    BY DEF ChartInv, NetworkInv
  <2>2. CASE upgrades' = upgrades
    BY <2>1, <2>2
  <2>3. CASE upgrades' = Append(upgrades, height + 1) /\ height' = height + 1
    <3>1. height + 1 \in Nat
      BY DEF ChartInv, NetworkInv
    <3>2. /\ upgrades' \in Seq(Nat) /\ Len(upgrades') = Len(upgrades) + 1
          /\ DOMAIN upgrades' = 1 .. Len(upgrades')
      BY <2>1, <2>3, <3>1
    <3>3. \A i \in 1 .. Len(upgrades) : upgrades'[i] = upgrades[i]
      BY <2>1, <2>3, <3>1
    <3>4. upgrades'[Len(upgrades) + 1] = height + 1
      BY <2>1, <2>3, <3>1
    <3>5. \A i \in 1 .. Len(upgrades') : i > Len(upgrades) => i = Len(upgrades) + 1
      BY <2>1, <3>2
    <3> QED
      BY <2>1, <2>3, <3>2, <3>3, <3>4, <3>5
  <2> QED
    BY <1>2, <2>2, <2>3
<1>4. NetworkInv'
  BY <1>1, <1>3, SMTT(30) DEF ChartInv, NetworkInv
<1>5. LoadInv'
  <2>1. ASSUME load.known # {}
        PROVE  HistoryRead(load)'
    <3>1. HistoryRead(load) /\ load.latest \in Nat /\ load.latest <= height
      BY <2>1 DEF ChartInv, LoadInv
    <3>2. /\ load.changes \in Seq(Nat) /\ Len(load.changes) \in Nat
          /\ Len(load.changes) <= Len(upgrades')
      BY <1>3, <3>1 DEF HistoryRead
    <3>3. ASSUME NEW i \in 1 .. Len(upgrades')
          PROVE  IF i <= Len(load.changes) THEN load.changes[i] = upgrades'[i]
                 ELSE upgrades'[i] > load.latest
      <4>1. CASE i \in 1 .. Len(upgrades)
        BY <1>3, <3>1, <4>1 DEF HistoryRead
      <4>2. CASE i \notin 1 .. Len(upgrades)
        <5>1. i > Len(upgrades) /\ i > Len(load.changes)
          BY <1>3, <3>1, <3>2, <4>2 DEF HistoryRead
        <5>2. upgrades'[i] = height + 1
          BY <1>3, <5>1
        <5> QED
          BY <3>1, <3>2, <5>1, <5>2 DEF ChartInv, NetworkInv
      <4> QED
        BY <4>1, <4>2
    <3> QED
      BY <1>1, <1>3, <3>2, <3>3 DEF HistoryRead
  <2> QED
    BY <1>1, <2>1 DEF ChartInv, NetworkInv, LoadInv, LoadShape
<1>6. NothingElseIsMissing'
  <2> SUFFICES ASSUME NEW h \in load.missing
               PROVE  \/ h < Created \/ h < pruned'
                      \/ CodeAt(h, load.changes) \notin load.known
                      \/ h = load.latest /\ \E i \in DOMAIN upgrades' : upgrades'[i] > h
    BY <1>1 DEF NothingElseIsMissing, CodeAt
  <2>1. \/ h < Created \/ h < pruned
        \/ CodeAt(h, load.changes) \notin load.known
        \/ h = load.latest /\ \E i \in DOMAIN upgrades : upgrades[i] > h
    BY DEF ChartInv, NothingElseIsMissing
  <2>2. h \in Int /\ pruned \in Nat
    BY DEF ChartInv, NetworkInv, LoadInv
  <2>3. ASSUME NEW i \in DOMAIN upgrades, upgrades[i] > h
        PROVE  i \in DOMAIN upgrades' /\ upgrades'[i] > h
    BY <1>3, <2>3
  <2>4. h < pruned => h < pruned'
    BY <1>1, <2>2
  <2> QED
    BY <2>1, <2>3, <2>4
<1> QED
  BY <1>4, <1>5, <1>6 DEF ChartInv

\* A height that does not answer is missing for one of the four reasons.
LEMMA MissingForAReason ==
    ASSUME ChartInv, load.step = "states", NEW h \in load.asks, ~ Answered(load, h),
           h >= Created, h >= pruned, CodeAt(h, load.changes) \in load.known
    PROVE  h = load.latest /\ \E i \in DOMAIN upgrades : upgrades[i] > h
<1> USE ChartConstants
<1>1. /\ height \in Nat /\ pruned \in Nat /\ Created <= height /\ pruned <= height
      /\ load.latest \in Nat /\ load.latest <= height /\ h \in Int /\ h <= load.latest
      /\ HistoryRead(load) /\ upgrades \in Seq(Nat)
      /\ \A i \in DOMAIN upgrades : upgrades[i] <= height
  BY DEF ChartInv, NetworkInv, LoadInv
<1>2. HashFor(load, h) = CodeAt(h, load.changes)
  BY DEF HashFor, HashOf
<1>3. /\ load.changes \in Seq(Nat) /\ Len(load.changes) \in Nat /\ Len(upgrades) \in Nat
      /\ DOMAIN load.changes = 1 .. Len(load.changes)
      /\ DOMAIN upgrades = 1 .. Len(upgrades) /\ Len(load.changes) <= Len(upgrades)
      /\ \A i \in DOMAIN upgrades : upgrades[i] \in Nat
      /\ \A i \in DOMAIN load.changes : load.changes[i] = upgrades[i]
      /\ \A i \in DOMAIN upgrades : i > Len(load.changes) => upgrades[i] > load.latest
  BY <1>1, SMTT(30) DEF HistoryRead
<1>4. CASE h < load.latest
  <2>1. \A i \in DOMAIN upgrades : i > Len(load.changes) => ~(upgrades[i] <= h)
    BY <1>1, <1>3, <1>4
  <2>2. {i \in DOMAIN load.changes : load.changes[i] <= h}
          = {i \in DOMAIN upgrades : upgrades[i] <= h}
    BY <1>3, <2>1
  <2>3. CodeAt(h, load.changes) = CodeAt(h, upgrades)
    BY <2>2 DEF CodeAt
  <2>4. ~(h >= load.latest)
    BY <1>1, <1>4
  <2> QED
    BY <1>2, <2>3, <2>4 DEF Answered
<1>5. CASE ~(h < load.latest)
  <2>1. h = load.latest
    BY <1>1, <1>5
  <2>2. SUFFICES ASSUME \A i \in DOMAIN upgrades : ~(upgrades[i] > h)
                 PROVE  FALSE
    BY <2>1
  <2>3. DOMAIN load.changes = DOMAIN upgrades
    <3>1. \A i \in DOMAIN upgrades : ~(i > Len(load.changes))
      BY <1>3, <2>1, <2>2
    <3>2. Len(upgrades) \in DOMAIN upgrades => ~(Len(upgrades) > Len(load.changes))
      BY <3>1
    <3>3. Len(upgrades) = Len(load.changes)
      BY <1>3, <3>2
    <3> QED
      BY <1>3, <3>3
  <2>4. {i \in DOMAIN load.changes : load.changes[i] <= h}
          = {i \in DOMAIN upgrades : upgrades[i] <= height}
    BY <1>1, <1>3, <2>1, <2>2, <2>3
  <2>5. CodeAt(h, load.changes) = CodeAt(height, upgrades)
    BY <2>4 DEF CodeAt
  <2>6. h >= load.latest /\ height >= Created /\ height >= pruned
    BY <1>1, <2>1
  <2> QED
    BY <1>2, <2>5, <2>6 DEF Answered
<1> QED
  BY <1>4, <1>5

\* No height that a load asks for lies beyond the latest block it found.
LEMMA HeightsAreKnown ==
    ASSUME NEW latest \in Nat, NEW first \in Nat, first <= latest, NEW blocks \in Nat
    PROVE  \A h \in Heights(latest, first, blocks) : h \in Int /\ h <= latest
<1> USE ChartConstants
<1> DEFINE Clamp(h) == IF h < first THEN first ELSE IF h > latest THEN latest ELSE h
           wanted == IF blocks < latest - first THEN blocks ELSE latest - first
           span == IF wanted < 1 THEN 1 ELSE wanted
           step == IF span < Points - 1 THEN 1 ELSE span \div (Points - 1)
<1>1. wanted \in Int
  OBVIOUS
<1>2. span \in Nat /\ Points - 1 \in Nat \ {0}
  BY <1>1
<1>3. step \in Int
  <2> HIDE DEF span
  <2>1. \A a \in Nat, b \in Nat \ {0} : a \div b \in Int
    OBVIOUS
  <2> QED
    BY <1>2, <2>1
<1>4. \A x \in Int : Clamp(x) \in Int /\ Clamp(x) <= latest
  OBVIOUS
<1> HIDE DEF Clamp, span, step
<1>5. \A i \in 0 .. Points - 1 : latest - span + i * step \in Int
  BY <1>2, <1>3
<1>6. Heights(latest, first, blocks) = {Clamp(latest - span + i * step) : i \in 0 .. Points - 1}
  BY DEF Heights, Clamp, span, step
<1> QED
  BY <1>4, <1>5, <1>6

\* So does a load that advances.
LEMMA AdvanceStep ==
    ASSUME ChartInv, LoadAdvances
    PROVE  ChartInv'
<1> USE ChartConstants
<1>1. UNCHANGED <<height, upgrades, pruned, range>> /\ NetworkInv'
  BY DEF LoadAdvances, network, ChartInv, NetworkInv
<1>2. load = [step |-> load.step, range |-> load.range, latest |-> load.latest,
              first |-> load.first, asks |-> load.asks, missing |-> load.missing,
              known |-> load.known, changes |-> load.changes]
  BY DEF ChartInv, LoadInv, LoadShape
<1>3. CASE LatestAnswers(load)
  <2>1. PICK first \in {1, Created} :
            load' = [load EXCEPT !.step = "hashes", !.latest = height, !.first = first,
                                 !.asks = Heights(height, first, Blocks(load.range))]
    BY <1>3 DEF LatestAnswers
  <2>2. /\ LoadShape(load') /\ load'.step = "hashes" /\ load'.range = load.range
        /\ load'.latest = height
        /\ load'.asks = Heights(height, first, Blocks(load.range))
        /\ load'.missing = load.missing /\ load'.known = load.known
    BY <1>2, <2>1, Zenon DEF LoadShape
  <2>3. load.step = "latest"
    BY <1>3 DEF LatestAnswers
  <2>4. load.range = range /\ load.missing = {} /\ load.known = {} /\ range \in Ranges
    BY <2>3 DEF ChartInv, LoadInv
  <2>5. \A h \in load'.asks : h \in Int /\ h <= height
    BY <2>2, <2>4, HeightsAreKnown DEF ChartInv, NetworkInv
  <2>6. LoadInv'
    BY <1>1, <2>2, <2>4, <2>5 DEF LoadInv, ChartInv, NetworkInv
  <2>7. NothingElseIsMissing'
    BY <2>2, <2>4 DEF NothingElseIsMissing
  <2> QED
    BY <1>1, <2>6, <2>7 DEF ChartInv
<1>4. CASE HashesAnswer(load)
  <2>1. load.step = "hashes" /\ load.range = range /\ load.missing = {} /\ load.known = {}
    BY <1>4 DEF HashesAnswer, ChartInv, LoadInv
  <2>2. CASE load' = [load EXCEPT !.step = "states"]
    <3>1. /\ LoadShape(load') /\ load'.step = "states" /\ load'.range = load.range
          /\ load'.latest = load.latest /\ load'.asks = load.asks
          /\ load'.missing = {} /\ load'.known = {}
      BY <1>2, <2>1, <2>2 DEF LoadShape
    <3>2. LoadInv'
      BY <1>1, <2>1, <3>1 DEF ChartInv, LoadInv
    <3>3. NothingElseIsMissing'
      BY <3>1 DEF NothingElseIsMissing
    <3> QED
      BY <1>1, <3>2, <3>3 DEF ChartInv
  <2>3. ASSUME NEW codes,
               load' = [load EXCEPT !.step = "states", !.known = codes, !.changes = upgrades]
        PROVE  ChartInv'
    <3>1. /\ LoadShape(load') /\ load'.step = "states" /\ load'.range = load.range
          /\ load'.latest = load.latest /\ load'.asks = load.asks
          /\ load'.missing = {} /\ load'.changes = upgrades
      BY <1>2, <2>1, <2>3 DEF LoadShape
    <3>2. HistoryRead(load)'
      BY <1>1, <3>1 DEF ChartInv, NetworkInv, HistoryRead
    <3>3. LoadInv'
      BY <1>1, <2>1, <3>1, <3>2 DEF ChartInv, LoadInv
    <3>4. NothingElseIsMissing'
      BY <3>1 DEF NothingElseIsMissing
    <3> QED
      BY <1>1, <3>3, <3>4 DEF ChartInv
  <2> QED
    BY <1>4, <2>2, <2>3 DEF HashesAnswer
<1>5. CASE StateAnswers(load)
  <2>1. load.step = "states" /\ load.range = range
    BY <1>5 DEF StateAnswers, ChartInv, LoadInv
  <2>2. PICK h \in load.asks :
            load' = [load EXCEPT !.asks = @ \ {h},
                                 !.missing = IF Answered(load, h) THEN @ ELSE @ \cup {h}]
    BY <1>5 DEF StateAnswers
  <2>3. /\ LoadShape(load') /\ load'.step = load.step /\ load'.range = load.range
        /\ load'.latest = load.latest /\ load'.asks = load.asks \ {h}
        /\ load'.missing = IF Answered(load, h) THEN load.missing ELSE load.missing \cup {h}
        /\ load'.known = load.known /\ load'.changes = load.changes
    BY <1>2, <2>2, Zenon DEF LoadShape
  <2>4. h \in Int
    BY <2>1 DEF ChartInv, LoadInv
  <2>5. HistoryRead(load)' <=> HistoryRead(load)
    BY <1>1, <2>3 DEF HistoryRead
  <2>6. LoadInv'
    BY <1>1, <2>1, <2>3, <2>4, <2>5 DEF ChartInv, LoadInv
  <2>7. ASSUME NEW g \in load'.missing
        PROVE  \/ g < Created \/ g < pruned
               \/ CodeAt(g, load.changes) \notin load.known
               \/ g = load.latest /\ \E i \in DOMAIN upgrades : upgrades[i] > g
    <3>1. CASE g \in load.missing
      BY <3>1 DEF ChartInv, NothingElseIsMissing
    <3>2. CASE g = h /\ ~ Answered(load, h)
      <4>1. (g >= Created /\ g >= pruned) \/ g < Created \/ g < pruned
        BY <2>4, <3>2 DEF ChartInv, NetworkInv
      <4> QED
        BY <2>1, <3>2, <4>1, MissingForAReason
    <3> QED
      BY <2>3, <3>1, <3>2
  <2>8. NothingElseIsMissing'
    BY <1>1, <2>3, <2>7 DEF NothingElseIsMissing, CodeAt
  <2> QED
    BY <1>1, <2>6, <2>8 DEF ChartInv
<1> QED
  BY <1>3, <1>4, <1>5 DEF LoadAdvances

\* A load that ends, and one that begins.
LEMMA LoadTurns ==
    ASSUME ChartInv, UNCHANGED <<height, upgrades, pruned>>,
           \/ load' = NoLoad /\ UNCHANGED range
           \/ range' \in Ranges /\ load' = Starting(range')
    PROVE  ChartInv'
<1>1. NetworkInv'
  BY DEF ChartInv, NetworkInv
<1>2. /\ LoadShape(load') /\ load'.step \in {"done", "latest"}
      /\ load'.step # "done" => load'.range = range'
      /\ load'.missing = {} /\ load'.known = {}
  <2>1. CASE load' = NoLoad
    BY <2>1 DEF NoLoad, LoadShape
  <2>2. CASE load' = Starting(range')
    <3>1. load' = [step |-> "latest", range |-> range', latest |-> 0, first |-> 0,
                   asks |-> {}, missing |-> {}, known |-> {}, changes |-> << >>]
      BY <2>2 DEF NoLoad, Starting
    <3> QED
      BY <3>1 DEF LoadShape
  <2> QED
    BY <2>1, <2>2
<1>3. range' \in Ranges
  BY DEF ChartInv, LoadInv
<1>4. LoadInv'
  BY <1>2, <1>3 DEF LoadInv
<1>5. NothingElseIsMissing'
  BY <1>2 DEF NothingElseIsMissing
<1> QED
  BY <1>1, <1>4, <1>5 DEF ChartInv

\* So does every step of the chart.
LEMMA ChartStep == ChartInv /\ [ChartNext]_chartVars => ChartInv'
<1> SUFFICES ASSUME ChartInv, [ChartNext]_chartVars
             PROVE  ChartInv'
  OBVIOUS
<1>1. CASE LoadLands \/ LoadFails
  BY <1>1, LoadTurns DEF LoadLands, LoadFails, network
<1>2. CASE SetRange
  BY <1>2, LoadTurns DEF SetRange, network
<1>3. CASE CancelledLands \/ UNCHANGED chartVars
  <2>1. UNCHANGED <<height, upgrades, pruned, range, load>>
    BY <1>3 DEF CancelledLands, chartVars, network
  <2> QED
    BY <2>1 DEF ChartInv, NetworkInv, LoadInv, HistoryRead, NothingElseIsMissing, CodeAt
<1> QED
  BY <1>1, <1>2, <1>3, NetworkStep, AdvanceStep DEF ChartNext

\* The chart's first state has it.
LEMMA ChartBegins == ChartInit => ChartInv
<1> SUFFICES ASSUME ChartInit PROVE ChartInv
  OBVIOUS
<1>1. NetworkInv
  BY ChartConstants DEF ChartInit, NetworkInv
<1>2. load = Starting(range) /\ range \in Ranges
  BY DEF ChartInit
<1>3. LoadInv /\ load.missing = {}
  BY <1>2 DEF Starting, NoLoad, LoadInv, LoadShape
<1> QED
  BY <1>1, <1>3 DEF ChartInv, NothingElseIsMissing

(***************************************************************************)
(* Upgrades lose no point of the chart, however many there are and however *)
(* many blocks a range spans, except the newest where one comes during the *)
(* load itself (history.ts:150-230).                                       *)
(***************************************************************************)
THEOREM UpgradesLoseNoPoint == AppSpec => []NothingElseIsMissing
<1>1. ChartInv => NothingElseIsMissing
  BY DEF ChartInv
<1> QED
  BY <1>1, ChartBegins, ChartStep, PagesRunTheirSpecs, PTL DEF ChartSpec

(***************************************************************************)
(* A chart that lands is the chart of the range that is chosen, whatever   *)
(* loads of other ranges are still under way (statistics/page.tsx).        *)
(***************************************************************************)
THEOREM ChartIsOfTheRange == AppSpec => ChartFollowsRange
<1>1. ChartInv /\ [ChartNext]_chartVars => [chart' # chart => chart' = range]_chartVars
  <2> SUFFICES ASSUME ChartInv, [ChartNext]_chartVars, chart' # chart
               PROVE  chart' = range
    OBVIOUS
  <2>1. LoadLands
    BY DEF ChartNext, NewBlock, Upgrade, Prune, OnPage, LoadAdvances, LoadFails,
           CancelledLands, SetRange, chartVars
  <2> QED
    BY <2>1 DEF LoadLands, ChartInv, LoadInv
<1> QED
  BY <1>1, ChartBegins, ChartStep, PagesRunTheirSpecs, PTL DEF ChartSpec, ChartFollowsRange

-----------------------------------------------------------------------------
(* Upkeep from the browser.                                                *)

\* Only the newest window can be open.
WindowsFormed ==
    /\ windows \in Seq(Window) /\ Len(windows) >= 1
    /\ \A i \in 1 .. Len(windows) - 1 : windows[i].state # "open"

\* What an untouched page shows, or has read so far, ages with the contract.
ReadingIsCurrent ==
    ~touched /\ "windows" \notin loading /\ (~failed \/ loading # {})
        => known.windows = FirstPage

\* A batch is in flight only over a settled screen; what closes a window in it was
\* judged of this very window.
BatchIsJustified ==
    batch # {} => /\ loading = {} /\ ~failed
                  /\ ~touched /\ "advance_window" \in batch
                        => windows[Len(windows)].left = 0

UpkeepInv ==
    /\ WindowsFormed /\ ReadingIsCurrent /\ BatchIsJustified
    /\ loading \subseteq Queries
    /\ known = [unattended |-> known.unattended, cached |-> known.cached,
                rewards |-> known.rewards, windows |-> known.windows]

\* A window matured, aged or opened is a window.
LEMMA WindowEdits ==
    /\ \A w \in Window : [w EXCEPT !.state = "matured"] \in Window
    /\ \A w \in Window : [w EXCEPT !.left = IF w.left = 0 THEN 0 ELSE w.left - 1] \in Window
    /\ Opened \in Window /\ [state |-> "unbonding", left |-> Unbonding] \in Window
    /\ \A w \in Window : [w EXCEPT !.state = "matured"].state = "matured"
    /\ \A w \in Window :
          LET a == [w EXCEPT !.left = IF w.left = 0 THEN 0 ELSE w.left - 1]
          IN  a.state = w.state /\ (w.left = 0 => a.left = 0)
  BY UpkeepConstants DEF Window, Opened

\* The jobs that the contract runs keep the windows in shape.
LEMMA RunKeepsForm ==
    ASSUME WindowsFormed, NEW jobs, RunJobs(jobs)
    PROVE  WindowsFormed'
<1> DEFINE n == Len(windows)
           Collected(i) == IF /\ "collect_matured" \in jobs
                              /\ windows[i].state = "unbonding" /\ windows[i].left = 0
                           THEN [windows[i] EXCEPT !.state = "matured"] ELSE windows[i]
           collected == [i \in DOMAIN windows |-> Collected(i)]
           closed == [collected EXCEPT ![n] = [state |-> "unbonding", left |-> Unbonding]]
<1>1. n \in Nat \ {0} /\ DOMAIN windows = 1 .. n /\ \A i \in 1 .. n : windows[i] \in Window
  BY DEF WindowsFormed
<1>2. ASSUME NEW i \in 1 .. n
      PROVE  Collected(i) \in Window /\ (i < n => Collected(i).state # "open")
  <2>1. windows[i] \in Window /\ (i < n => windows[i].state # "open")
    BY <1>1 DEF WindowsFormed
  <2> QED
    BY <2>1, WindowEdits
<1> HIDE DEF Collected
<1>3. /\ collected \in Seq(Window) /\ Len(collected) = n
      /\ \A i \in 1 .. n : collected[i] = Collected(i)
  BY <1>1, <1>2
<1>4. windows' = IF "advance_window" \in jobs THEN Append(closed, Opened) ELSE collected
  BY DEF RunJobs, WindowsAfter, Collected
<1>5. CASE "advance_window" \notin jobs
  <2>1. windows' = collected
    BY <1>4, <1>5
  <2> HIDE DEF collected
  <2> QED
    BY <1>1, <1>2, <1>3, <2>1 DEF WindowsFormed
<1>6. CASE "advance_window" \in jobs
  <2>1. windows' = Append(closed, Opened)
    BY <1>4, <1>6
  <2> HIDE DEF collected
  <2>2. closed \in Seq(Window) /\ Len(closed) = n
    BY <1>1, <1>3, WindowEdits
  <2>3. /\ closed[n].state = "unbonding"
        /\ \A i \in 1 .. n - 1 : closed[i] = Collected(i)
    <3>1. DOMAIN collected = 1 .. n /\ n \in 1 .. n
      BY <1>1, <1>3
    <3>2. closed[n] = [state |-> "unbonding", left |-> Unbonding]
      BY <3>1
    <3>3. \A i \in 1 .. n - 1 : i # n /\ i \in 1 .. n
      <4>1. \A k \in Nat : \A i \in 1 .. k - 1 : i # k /\ i \in 1 .. k
        OBVIOUS
      <4>2. n \in Nat
        BY <1>1
      <4> QED
        BY <4>1, <4>2, Zenon
    <3>4. \A i \in 1 .. n - 1 : closed[i] = collected[i]
      BY <3>1, <3>3
    <3> QED
      BY <1>3, <3>2, <3>3, <3>4
  <2> HIDE DEF closed
  <2>4. windows' \in Seq(Window) /\ Len(windows') = n + 1
    BY <2>1, <2>2, WindowEdits
  <2>5. \A i \in 1 .. n : windows'[i] = closed[i]
    BY <2>1, <2>2, WindowEdits
  <2>6. \A i \in 1 .. n : windows'[i].state # "open"
    BY <1>1, <1>2, <2>3, <2>5
  <2> QED
    BY <1>1, <2>4, <2>6 DEF WindowsFormed
<1> QED
  BY <1>5, <1>6

\* A minute that passes keeps the upkeep page's invariant.
LEMMA TickKeepsUpkeep ==
    ASSUME UpkeepInv, UpkeepTick
    PROVE  UpkeepInv'
<1> DEFINE n == Len(windows)
           m == IF n < PageSize THEN n ELSE PageSize
           Older(w) == [w EXCEPT !.left = IF w.left = 0 THEN 0 ELSE w.left - 1]
<1> USE UpkeepConstants
<1>1. n \in Nat \ {0} /\ DOMAIN windows = 1 .. n /\ \A i \in 1 .. n : windows[i] \in Window
  BY DEF UpkeepInv, WindowsFormed
<1>2. windows' = [i \in 1 .. n |-> Older(windows[i])]
  BY <1>1 DEF UpkeepTick, Aged
<1>3. \A w \in Window : /\ Older(w) \in Window /\ Older(w).state = w.state
                         /\ (w.left = 0 => Older(w).left = 0)
  BY WindowEdits
<1> HIDE DEF Older
<1>4. windows' \in Seq(Window) /\ Len(windows') = n
  BY <1>1, <1>2, <1>3
<1>5. /\ UNCHANGED <<loading, failed, batch, touched>>
      /\ known' = [known EXCEPT !.windows = Aged(known.windows)]
  BY DEF UpkeepTick
<1>6. WindowsFormed'
  BY <1>1, <1>2, <1>3, <1>4 DEF UpkeepInv, WindowsFormed
<1>7. BatchIsJustified'
  BY <1>1, <1>2, <1>3, <1>4, <1>5 DEF UpkeepInv, BatchIsJustified
<1>8. /\ known' = [unattended |-> known'.unattended, cached |-> known'.cached,
                   rewards |-> known'.rewards, windows |-> known'.windows]
      /\ known'.windows = Aged(known.windows)
  <2>1. known = [unattended |-> known.unattended, cached |-> known.cached,
                 rewards |-> known.rewards, windows |-> known.windows]
    BY DEF UpkeepInv
  <2> QED
    BY <1>5, <2>1
<1>9. ReadingIsCurrent'
  <2>1. m \in 0 .. n
    BY <1>1
  <2>2. FirstPage = [i \in 1 .. m |-> windows[i]]
    BY <1>1, <2>1 DEF FirstPage, UpkeepInv, WindowsFormed
  <2>3. FirstPage' = [i \in 1 .. m |-> windows'[i]]
    BY <1>1, <1>4, <2>1 DEF FirstPage
  <2>4. Aged(FirstPage) = [i \in 1 .. m |-> Older(windows[i])]
    BY <2>2 DEF Aged, Older
  <2>5. Aged(FirstPage) = FirstPage'
    BY <1>1, <1>2, <2>1, <2>3, <2>4
  <2> QED
    BY <1>5, <1>8, <2>5 DEF UpkeepInv, ReadingIsCurrent
<1> QED
  BY <1>5, <1>6, <1>7, <1>8, <1>9 DEF UpkeepInv

\* So does an answer that arrives.
LEMMA AnswerKeepsUpkeep ==
    ASSUME UpkeepInv, QueryAnswers
    PROVE  UpkeepInv'
<1>1. PICK query \in loading : loading' = loading \ {query} /\ Found(query)
  BY DEF QueryAnswers
<1>2. /\ UNCHANGED <<windows, batch>>
      /\ touched' = IF loading = Queries THEN FALSE ELSE touched
      /\ batch = {}
  BY <1>1 DEF QueryAnswers, contractState, UpkeepInv, BatchIsJustified
<1>3. /\ WindowsFormed' /\ BatchIsJustified' /\ FirstPage' = FirstPage
      /\ loading' \subseteq Queries
  BY <1>1, <1>2 DEF UpkeepInv, WindowsFormed, BatchIsJustified, FirstPage
<1>4. known = [unattended |-> known.unattended, cached |-> known.cached,
               rewards |-> known.rewards, windows |-> known.windows]
  BY DEF UpkeepInv
<1>5. CASE query = "windows"
  <2>1. known' = [known EXCEPT !.windows = FirstPage]
    BY <1>1, <1>5 DEF Found
  <2>2. /\ known' = [unattended |-> known'.unattended, cached |-> known'.cached,
                     rewards |-> known'.rewards, windows |-> known'.windows]
        /\ known'.windows = FirstPage
    BY <1>4, <2>1
  <2> QED
    BY <1>3, <2>2 DEF UpkeepInv, ReadingIsCurrent
<1>6. CASE query # "windows"
  <2>1. \/ known' = [known EXCEPT !.unattended = unattended, !.cached = cachedRewards]
        \/ \E r : known' = [known EXCEPT !.rewards = r]
        \/ query \notin {"state", "windows", "rewards"}
    BY <1>1, <1>6 DEF Found
  <2>2. CASE query \in {"state", "rewards"}
    <3>1. \/ known' = [known EXCEPT !.unattended = unattended, !.cached = cachedRewards]
          \/ \E r : known' = [known EXCEPT !.rewards = r]
      BY <2>1, <2>2
    <3>2. /\ known' = [unattended |-> known'.unattended, cached |-> known'.cached,
                       rewards |-> known'.rewards, windows |-> known'.windows]
          /\ known'.windows = known.windows
      BY <1>4, <3>1
    <3>3. "windows" \notin loading' => "windows" \notin loading /\ loading # Queries
      BY <1>1, <1>6 DEF Queries
    <3> QED
      BY <1>1, <1>2, <1>3, <3>2, <3>3 DEF UpkeepInv, ReadingIsCurrent
  <2>3. query \in {"state", "rewards"}
    BY <1>6 DEF UpkeepInv, Queries
  <2> QED
    BY <2>2, <2>3
<1> QED
  BY <1>5, <1>6

\* The button, over a settled screen.
LEMMA PressIsJustified ==
    ASSUME UpkeepInv, Press
    PROVE  UpkeepInv'
<1>1. /\ UNCHANGED <<windows, loading, known, failed, touched>>
      /\ loading = {} /\ ~failed /\ batch' = Due(known)
  BY DEF Press, contractState
<1>2. ASSUME ~touched, "advance_window" \in Due(known)
      PROVE  windows[Len(windows)].left = 0
  <2>1. known.windows = FirstPage
    BY <1>1, <1>2 DEF UpkeepInv, ReadingIsCurrent
  <2>2. PICK w \in Range(FirstPage) : w.state = "open" /\ w.left = 0
    BY <1>2, <2>1 DEF Due, Overdue
  <2>3. /\ windows \in Seq(Window) /\ Len(windows) \in Nat \ {0}
        /\ \A i \in 1 .. Len(windows) - 1 : windows[i].state # "open"
    BY DEF UpkeepInv, WindowsFormed
  <2> DEFINE m == IF Len(windows) < PageSize THEN Len(windows) ELSE PageSize
  <2>4. m \in 0 .. Len(windows)
    BY <2>3, UpkeepConstants
  <2>5. FirstPage = [i \in 1 .. m |-> windows[i]]
    BY <2>3, <2>4 DEF FirstPage
  <2> HIDE DEF m
  <2>6. PICK i \in 1 .. m : windows[i] = w
    BY <2>2, <2>5 DEF Range
  <2>7. i \in 1 .. Len(windows) /\ i \notin 1 .. Len(windows) - 1
    BY <2>2, <2>3, <2>4, <2>6
  <2>8. i = Len(windows)
    BY <2>3, <2>7
  <2> QED
    BY <2>2, <2>6, <2>8
<1>3. WindowsFormed' /\ ReadingIsCurrent'
  BY <1>1 DEF UpkeepInv, WindowsFormed, ReadingIsCurrent, FirstPage
<1>4. BatchIsJustified'
  BY <1>1, <1>2 DEF BatchIsJustified
<1> QED
  BY <1>1, <1>3, <1>4 DEF UpkeepInv

\* So does every step of the page.
LEMMA UpkeepStep == UpkeepInv /\ [UpkeepNext]_upkeepVars => UpkeepInv'
<1> SUFFICES ASSUME UpkeepInv, [UpkeepNext]_upkeepVars
             PROVE  UpkeepInv'
  OBVIOUS
<1>1. CASE SomeoneRuns
  <2>1. WindowsFormed'
    BY <1>1, RunKeepsForm DEF SomeoneRuns, UpkeepInv
  <2> QED
    BY <1>1, <2>1 DEF SomeoneRuns, pageState, UpkeepInv, ReadingIsCurrent, BatchIsJustified
<1>2. CASE BatchRuns
  <2>1. WindowsFormed'
    BY <1>2, RunKeepsForm DEF BatchRuns, UpkeepInv
  <2> QED
    BY <1>2, <2>1 DEF BatchRuns, UpkeepInv, ReadingIsCurrent, BatchIsJustified
<1>3. CASE RefreshFails \/ TryAgain
  <2>1. UNCHANGED <<windows, known, batch, touched>> /\ batch = {}
    BY <1>3 DEF RefreshFails, TryAgain, contractState, UpkeepInv, BatchIsJustified
  <2>2. WindowsFormed' /\ BatchIsJustified' /\ loading' \subseteq Queries
    BY <1>3, <2>1 DEF RefreshFails, TryAgain, UpkeepInv, WindowsFormed, BatchIsJustified
  <2>3. ReadingIsCurrent'
    BY <1>3 DEF RefreshFails, TryAgain, ReadingIsCurrent, Queries
  <2> QED
    BY <2>1, <2>2, <2>3 DEF UpkeepInv
<1>4. CASE BatchRefused \/ BatchLost \/ UNCHANGED upkeepVars
  BY <1>4 DEF BatchRefused, BatchLost, upkeepVars, contractState, pageState, UpkeepInv,
              WindowsFormed, ReadingIsCurrent, BatchIsJustified, FirstPage
<1> QED
  BY <1>1, <1>2, <1>3, <1>4, TickKeepsUpkeep, AnswerKeepsUpkeep, PressIsJustified
  DEF UpkeepNext

\* The page's first state has it.
LEMMA UpkeepBegins == UpkeepInit => UpkeepInv
<1> SUFFICES ASSUME UpkeepInit PROVE UpkeepInv
  OBVIOUS
<1>1. windows = <<Opened>> /\ Opened \in Window
  BY WindowEdits DEF UpkeepInit
<1>2. WindowsFormed
  BY <1>1 DEF WindowsFormed
<1> QED
  BY <1>2 DEF UpkeepInit, UpkeepInv, ReadingIsCurrent, BatchIsJustified, Queries, Nothing

(***************************************************************************)
(* The page and the contract agree about what is due: the one transaction  *)
(* that the button sends is refused only when somebody acted on the        *)
(* contract after the page had read it (upkeep.ts, keeper/page.tsx).       *)
(***************************************************************************)
THEOREM RefusalsAreOvertaken == AppSpec => RefusedOnlyIfOvertaken
<1>1. UpkeepInv /\ [UpkeepNext]_upkeepVars => [BatchRefused => touched]_upkeepVars
  <2> SUFFICES ASSUME UpkeepInv, BatchRefused
               PROVE  touched
    OBVIOUS
  <2>1. "advance_window" \in batch /\ windows[Len(windows)].left # 0
    BY DEF BatchRefused, Accepts, Last
  <2> QED
    BY <2>1 DEF UpkeepInv, BatchIsJustified
<1> QED
  BY <1>1, UpkeepBegins, UpkeepStep, PagesRunTheirSpecs, PTL
  DEF UpkeepSpec, RefusedOnlyIfOvertaken

(***************************************************************************)
(* A window that is overdue or ripe is on the list of a settled page, as   *)
(* long as one answer of the contract holds every window there ever was    *)
(* (protocol.ts fetchWindows, upkeep.ts assess).                           *)
(***************************************************************************)
THEOREM DueIsAlwaysOffered == AppSpec => []DueIsOffered
<1>1. UpkeepInv => DueIsOffered
  <2> SUFFICES ASSUME UpkeepInv, loading = {}, ~failed, ~touched, Len(windows) <= PageSize,
                      NEW i \in DOMAIN windows
               PROVE  /\ Overdue(windows[i]) => "advance_window" \in Due(known)
                      /\ RipeWindow(windows[i]) => "collect_matured" \in Due(known)
    BY DEF DueIsOffered
  <2>1. windows \in Seq(Window) /\ Len(windows) \in Nat
    BY DEF UpkeepInv, WindowsFormed
  <2>2. FirstPage = windows
    <3>1. (IF Len(windows) < PageSize THEN Len(windows) ELSE PageSize) = Len(windows)
      BY <2>1, UpkeepConstants
    <3>2. FirstPage = SubSeq(windows, 1, Len(windows))
      BY <3>1 DEF FirstPage
    <3>3. SubSeq(windows, 1, Len(windows)) = [j \in 1 .. Len(windows) |-> windows[j]]
      BY <2>1
    <3>4. windows = [j \in 1 .. Len(windows) |-> windows[j]]
      BY <2>1
    <3> QED
      BY <3>2, <3>3, <3>4
  <2>3. known.windows = windows
    BY <2>2 DEF UpkeepInv, ReadingIsCurrent
  <2>4. windows[i] \in Range(known.windows)
    BY <2>3 DEF Range
  <2> QED
    BY <2>4 DEF Due, Jobs
<1> QED
  BY <1>1, UpkeepBegins, UpkeepStep, PagesRunTheirSpecs, PTL DEF UpkeepSpec

-----------------------------------------------------------------------------
(* The form of the stake page.                                             *)

\* When a window, closed or open, can be claimed from at the earliest.
MaturityOf(k) ==
    IF k <= Len(maturities) THEN maturities[k] ELSE closesAt + UnbondTicks

\* What is known of windows at some moment, rightly or not any more.
WindowsTold ==
    {w \in [id : Nat \ {0}, closes : Nat] :
        w.id <= Len(maturities) + 1 /\ w.closes + UnbondTicks <= MaturityOf(w.id)}

DatesTold ==
    {d \in [window : Nat \ {0}, date : Nat] :
        d.window <= Len(maturities) + 1 /\ d.date <= MaturityOf(d.window)}

PollsTold == [paused : BOOLEAN \cup {Unread}, window : WindowsTold \cup {Unread}]

KeptWord(t) ==
    /\ t.joined \in Nat \ {0} /\ t.joined <= Len(maturities) + 1
    /\ t.maturity.window <= t.joined
    /\ t.maturity.date \in Nat /\ t.maturity.date <= MaturityOf(t.joined)

\* What is known and told, with the chain it is told of.
ChainInv ==
    /\ now \in Nat /\ closesAt \in Nat /\ maturities \in Seq(Nat)
    /\ \A k \in 1 .. Len(maturities) :
         /\ maturities[k] <= closesAt + UnbondTicks
         /\ \A j \in 1 .. k : maturities[j] <= maturities[k]

FormInv ==
    /\ ChainInv /\ pausedNow \in BOOLEAN
    /\ polls \in Seq(PollsTold) /\ seen \in PollsTold
    /\ request # Unread => request.maturity \in DatesTold \cup {Unread}
    /\ told # Unread => KeptWord(told)

\* Windows mature in the order in which they close.
LEMMA LaterWindowsMatureLater ==
    ASSUME ChainInv, NEW j \in Nat \ {0}, NEW k \in Nat, j <= k, k <= Len(maturities) + 1
    PROVE  /\ MaturityOf(j) \in Nat /\ MaturityOf(k) \in Nat
           /\ MaturityOf(j) <= MaturityOf(k)
<1> USE FormConstants
<1> DEFINE n == Len(maturities)
<1>1. /\ closesAt + UnbondTicks \in Nat /\ maturities \in Seq(Nat) /\ n \in Nat
      /\ \A i \in 1 .. n : maturities[i] \in Nat /\ maturities[i] <= closesAt + UnbondTicks
      /\ \A i \in 1 .. n : \A h \in 1 .. i : maturities[h] <= maturities[i]
  BY DEF ChainInv
<1>2. CASE k <= n
  <2>1. j \in 1 .. n /\ k \in 1 .. n /\ j \in 1 .. k
    BY <1>1, <1>2
  <2>2. MaturityOf(j) = maturities[j] /\ MaturityOf(k) = maturities[k]
    BY <2>1 DEF MaturityOf
  <2> QED
    BY <1>1, <2>1, <2>2
<1>3. CASE k = n + 1
  <2>1. MaturityOf(k) = closesAt + UnbondTicks
    BY <1>1, <1>3 DEF MaturityOf
  <2>2. CASE j <= n
    <3>1. j \in 1 .. n /\ MaturityOf(j) = maturities[j]
      BY <1>1, <2>2 DEF MaturityOf
    <3> QED
      BY <1>1, <2>1, <3>1
  <2>3. CASE j = k
    BY <1>1, <2>1, <2>3
  <2> QED
    BY <1>1, <1>3, <2>2, <2>3
<1> QED
  BY <1>1, <1>2, <1>3

\* Closing the open window puts nobody's maturity forward.
LEMMA CloseKeepsWord ==
    ASSUME ChainInv, now >= closesAt, CloseWindow
    PROVE  /\ closesAt' \in Nat /\ maturities' \in Seq(Nat)
           /\ Len(maturities') = Len(maturities) + 1
           /\ \A k \in 1 .. Len(maturities') :
                /\ maturities'[k] <= closesAt' + UnbondTicks
                /\ \A j \in 1 .. k : maturities'[j] <= maturities'[k]
           /\ \A k \in Nat \ {0} : k <= Len(maturities) + 1
                => MaturityOf(k)' \in Nat /\ MaturityOf(k) <= MaturityOf(k)'
<1> USE FormConstants
<1> DEFINE n == Len(maturities)
<1>1. /\ now \in Nat /\ closesAt \in Nat /\ maturities \in Seq(Nat) /\ n \in Nat
      /\ \A k \in 1 .. n : /\ maturities[k] \in Nat /\ maturities[k] <= closesAt + UnbondTicks
                            /\ \A j \in 1 .. k : maturities[j] <= maturities[k]
  BY DEF ChainInv
<1>2. closesAt' = now + WindowTicks /\ maturities' = Append(maturities, now + UnbondTicks)
  BY DEF CloseWindow
<1>3. /\ closesAt' \in Nat /\ now + UnbondTicks \in Nat
      /\ closesAt + UnbondTicks <= now + UnbondTicks
      /\ now + UnbondTicks <= closesAt' + UnbondTicks
  BY <1>1, <1>2
<1>4. /\ maturities' \in Seq(Nat) /\ Len(maturities') = n + 1
      /\ \A k \in 1 .. n : maturities'[k] = maturities[k]
      /\ maturities'[n + 1] = now + UnbondTicks
  BY <1>1, <1>2, <1>3
<1>5. ASSUME NEW k \in 1 .. n + 1
      PROVE  /\ maturities'[k] \in Nat /\ maturities'[k] <= closesAt' + UnbondTicks
             /\ \A j \in 1 .. k : maturities'[j] <= maturities'[k]
  <2>1. CASE k \in 1 .. n
    <3>1. maturities'[k] = maturities[k] /\ maturities[k] \in Nat
      BY <1>1, <1>4, <2>1
    <3>2. maturities[k] <= closesAt + UnbondTicks /\ closesAt + UnbondTicks \in Nat
      BY <1>1, <2>1
    <3>3. maturities[k] <= closesAt' + UnbondTicks
      <4>1. now \in Nat /\ closesAt \in Nat
        BY <1>1
      <4> QED
        <5>1. \A x, a, b, c \in Int : x <= a /\ a <= b /\ b <= c => x <= c
          OBVIOUS
        <5>2. now + UnbondTicks \in Int /\ closesAt' + UnbondTicks \in Int
          BY <1>3
        <5> QED
          BY <1>3, <3>1, <3>2, <5>1, <5>2
    <3>4. ASSUME NEW j \in 1 .. k
          PROVE  maturities'[j] <= maturities'[k]
      <4>1. j \in 1 .. n
        BY <1>1, <2>1
      <4> QED
        BY <1>1, <1>4, <2>1, <4>1
    <3> QED
      BY <3>1, <3>3, <3>4
  <2>2. CASE k = n + 1
    <3>1. maturities'[k] = now + UnbondTicks
      BY <1>4, <2>2
    <3>2. ASSUME NEW j \in 1 .. k
          PROVE  maturities'[j] <= now + UnbondTicks
      <4>1. CASE j \in 1 .. n
        <5>1. maturities'[j] = maturities[j] /\ maturities[j] \in Nat
          BY <1>1, <1>4, <4>1
        <5>2. maturities[j] <= closesAt + UnbondTicks /\ closesAt + UnbondTicks \in Nat
          BY <1>1, <4>1
        <5> QED
          BY <1>3, <5>1, <5>2
      <4>2. CASE j = k
        BY <1>3, <3>1, <4>2
      <4> QED
        BY <1>1, <2>2, <4>1, <4>2
    <3> QED
      BY <1>3, <3>1, <3>2
  <2> QED
    BY <1>1, <2>1, <2>2
<1>6. ASSUME NEW k \in Nat \ {0}, k <= n + 1
      PROVE  MaturityOf(k)' \in Nat /\ MaturityOf(k) <= MaturityOf(k)'
  <2>1. MaturityOf(k)' = maturities'[k]
    BY <1>4, <1>6 DEF MaturityOf
  <2>2. CASE k <= n
    <3>1. MaturityOf(k) = maturities[k] /\ k \in 1 .. n
      BY <1>1, <2>2 DEF MaturityOf
    <3> QED
      BY <1>1, <1>4, <2>1, <3>1
  <2>3. CASE k = n + 1
    <3>1. MaturityOf(k) = closesAt + UnbondTicks
      BY <1>1, <2>3 DEF MaturityOf
    <3> QED
      BY <1>1, <1>3, <1>4, <2>1, <2>3, <3>1
  <2> QED
    BY <1>1, <1>6, <2>2, <2>3
<1> QED
  BY <1>3, <1>4, <1>5, <1>6

\* A step of the chain keeps everything true that was told.
LEMMA WordIsKept ==
    ASSUME ChainInv, now' \in Nat, RideAlong \/ UNCHANGED <<closesAt, maturities>>
    PROVE  /\ ChainInv' /\ Len(maturities) <= Len(maturities')
           /\ WindowsTold \subseteq WindowsTold' /\ DatesTold \subseteq DatesTold'
           /\ \A t : KeptWord(t) => KeptWord(t)'
<1>1. /\ ChainInv' /\ Len(maturities) <= Len(maturities')
      /\ \A k \in Nat \ {0} : k <= Len(maturities) + 1
            => MaturityOf(k) \in Nat /\ MaturityOf(k)' \in Nat /\ MaturityOf(k) <= MaturityOf(k)'
  <2>0. \A k \in Nat \ {0} : k <= Len(maturities) + 1 => MaturityOf(k) \in Nat
    BY LaterWindowsMatureLater
  <2>1. CASE now >= closesAt /\ CloseWindow
    <3>1. /\ closesAt' \in Nat /\ maturities' \in Seq(Nat)
          /\ Len(maturities') = Len(maturities) + 1 /\ Len(maturities) \in Nat
          /\ \A k \in 1 .. Len(maturities') :
               /\ maturities'[k] <= closesAt' + UnbondTicks
               /\ \A j \in 1 .. k : maturities'[j] <= maturities'[k]
          /\ \A k \in Nat \ {0} : k <= Len(maturities) + 1
               => MaturityOf(k)' \in Nat /\ MaturityOf(k) <= MaturityOf(k)'
      BY <2>1, CloseKeepsWord DEF ChainInv
    <3> QED
      BY <2>0, <3>1 DEF ChainInv
  <2>2. CASE UNCHANGED <<closesAt, maturities>>
    <3>1. \A k : MaturityOf(k)' = MaturityOf(k)
      BY <2>2 DEF MaturityOf
    <3>2. ChainInv' /\ Len(maturities) \in Nat /\ Len(maturities') = Len(maturities)
      BY <2>2 DEF ChainInv
    <3> QED
      BY <2>0, <3>1, <3>2
  <2> QED
    BY <2>1, <2>2 DEF RideAlong
<1>2. Len(maturities) \in Nat /\ Len(maturities') \in Nat /\ UnbondTicks \in Nat
  BY <1>1, FormConstants DEF ChainInv
<1>3. ASSUME NEW k \in Nat \ {0}, NEW d \in Nat, k <= Len(maturities) + 1, d <= MaturityOf(k)
      PROVE  k <= Len(maturities') + 1 /\ d <= MaturityOf(k)'
  BY <1>1, <1>2, <1>3
<1>4. WindowsTold \subseteq WindowsTold'
  <2>1. ASSUME NEW w \in WindowsTold
        PROVE  w \in WindowsTold'
    <3>1. /\ w \in [id : Nat \ {0}, closes : Nat] /\ w.id <= Len(maturities) + 1
          /\ w.closes + UnbondTicks <= MaturityOf(w.id)
          /\ w.id \in Nat \ {0} /\ w.closes + UnbondTicks \in Nat
      BY <1>2, <2>1 DEF WindowsTold
    <3>2. w.id <= Len(maturities') + 1 /\ w.closes + UnbondTicks <= MaturityOf(w.id)'
      BY <1>3, <3>1
    <3> QED
      BY <3>1, <3>2 DEF WindowsTold
  <2> QED
    BY <2>1
<1>5. DatesTold \subseteq DatesTold'
  <2>1. ASSUME NEW d \in DatesTold
        PROVE  d \in DatesTold'
    <3>1. /\ d \in [window : Nat \ {0}, date : Nat] /\ d.window <= Len(maturities) + 1
          /\ d.date <= MaturityOf(d.window) /\ d.window \in Nat \ {0} /\ d.date \in Nat
      BY <2>1 DEF DatesTold
    <3>2. d.window <= Len(maturities') + 1 /\ d.date <= MaturityOf(d.window)'
      BY <1>3, <3>1
    <3> QED
      BY <3>1, <3>2 DEF DatesTold
  <2> QED
    BY <2>1
<1>6. ASSUME NEW t, KeptWord(t)
      PROVE  KeptWord(t)'
  <2>1. t.joined <= Len(maturities') + 1 /\ t.maturity.date <= MaturityOf(t.joined)'
    BY <1>3, <1>6 DEF KeptWord
  <2> QED
    BY <1>6, <2>1 DEF KeptWord
<1> QED
  BY <1>1, <1>4, <1>5, <1>6

\* What the page itself adds to what it knows is true when it is added.
LEMMA PageTellsTheTruth ==
    ASSUME FormInv
    PROVE  /\ OpenWindow \in WindowsTold /\ Blank \in PollsTold
           /\ Maturity \in DatesTold \cup {Unread}
<1> USE FormConstants
<1>1. /\ Len(maturities) + 1 \in Nat \ {0} /\ closesAt \in Nat
      /\ MaturityOf(Len(maturities) + 1) = closesAt + UnbondTicks
  BY DEF FormInv, ChainInv, MaturityOf
<1>2. OpenWindow \in WindowsTold
  BY <1>1 DEF OpenWindow, WindowsTold
<1>3. Blank \in PollsTold
  BY DEF Blank, PollsTold
<1>4. seen.window \in WindowsTold \cup {Unread}
  BY DEF FormInv, PollsTold
<1>5. CASE seen.window # Unread
  <2>1. seen.window \in WindowsTold
    BY <1>4, <1>5
  <2>2. /\ seen.window.id \in Nat \ {0} /\ seen.window.closes + UnbondTicks \in Nat
        /\ seen.window.id <= Len(maturities) + 1
        /\ seen.window.closes + UnbondTicks <= MaturityOf(seen.window.id)
    BY <2>1 DEF WindowsTold
  <2>3. Maturity = [window |-> seen.window.id, date |-> seen.window.closes + UnbondTicks]
    BY <1>5 DEF Maturity
  <2> QED
    BY <1>2, <1>3, <2>2, <2>3 DEF DatesTold
<1>6. CASE seen.window = Unread
  BY <1>2, <1>3, <1>6 DEF Maturity
<1> QED
  BY <1>5, <1>6

\* A step of the chain alone.
LEMMA ChainStepKeepsForm ==
    ASSUME FormInv, FormTick \/ WindowCloses \/ PauseSwitched
    PROVE  FormInv'
<1>1. /\ now' \in Nat /\ (RideAlong \/ UNCHANGED <<closesAt, maturities>>)
      /\ pausedNow' \in BOOLEAN /\ UNCHANGED <<polls, seen, request, told>>
  <2>1. now' \in Nat /\ (RideAlong \/ UNCHANGED <<closesAt, maturities>>)
    BY DEF FormTick, WindowCloses, PauseSwitched, RideAlong, FormInv, ChainInv
  <2>2. pausedNow' \in {pausedNow, ~pausedNow} /\ pausedNow \in BOOLEAN
    BY DEF FormTick, WindowCloses, PauseSwitched, FormInv
  <2>3. pausedNow' \in BOOLEAN
    BY <2>2, Zenon
  <2>4. UNCHANGED <<polls, seen, request, told>>
    BY DEF FormTick, WindowCloses, PauseSwitched
  <2> QED
    BY <2>1, <2>3, <2>4
<1>2. /\ ChainInv' /\ WindowsTold \subseteq WindowsTold' /\ DatesTold \subseteq DatesTold'
      /\ \A t : KeptWord(t) => KeptWord(t)'
  <2>1. ChainInv
    BY DEF FormInv
  <2> QED
    BY <1>1, <2>1, WordIsKept
<1>3. PollsTold \subseteq PollsTold'
  BY <1>2 DEF PollsTold
<1>4. polls' \in Seq(PollsTold')
  BY <1>1, <1>3 DEF FormInv
<1>5. seen' \in PollsTold'
  BY <1>1, <1>3 DEF FormInv
<1>6. request' # Unread => request'.maturity \in DatesTold' \cup {Unread}
  BY <1>1, <1>2 DEF FormInv
<1>7. told' # Unread => KeptWord(told)'
  BY <1>1, <1>2 DEF FormInv
<1> QED
  BY <1>1, <1>2, <1>4, <1>5, <1>6, <1>7 DEF FormInv

\* A step of the page that leaves the chain alone.
LEMMA PageStepKeepsForm ==
    ASSUME FormInv, UNCHANGED contractSide, polls' \in Seq(PollsTold), seen' \in PollsTold,
           \/ UNCHANGED request \/ request' = Unread
           \/ request'.maturity \in DatesTold \cup {Unread},
           UNCHANGED told
    PROVE  FormInv'
<1>1. UNCHANGED <<now, closesAt, maturities, pausedNow>>
  BY DEF contractSide
<1>2. /\ ChainInv' /\ WindowsTold' = WindowsTold /\ DatesTold' = DatesTold
      /\ pausedNow' \in BOOLEAN
  BY <1>1 DEF FormInv, ChainInv, WindowsTold, DatesTold, MaturityOf
<1>3. PollsTold' = PollsTold
  BY <1>2 DEF PollsTold
<1>4. told' # Unread => KeptWord(told)'
  BY <1>1 DEF FormInv, KeptWord, MaturityOf
<1>5. request' # Unread => request'.maturity \in DatesTold \cup {Unread}
  BY DEF FormInv
<1> QED
  BY <1>2, <1>3, <1>4, <1>5 DEF FormInv

\* A poll, answered or failed, keeps the form's invariant.
LEMMA PollsKeepForm ==
    ASSUME FormInv, Poll \/ PollAnswers \/ PollLands \/ PollFails
    PROVE  FormInv'
<1>1. UNCHANGED <<contractSide, request, told>> /\ polls \in Seq(PollsTold)
  BY DEF Poll, PollAnswers, PollLands, PollFails, FormInv
<1>2. CASE Poll
  BY <1>1, <1>2, PageTellsTheTruth, PageStepKeepsForm DEF Poll, FormInv
<1>3. CASE PollAnswers
  <2>1. PICK i \in DOMAIN polls :
            polls' = [polls EXCEPT ![i] = [paused |-> pausedNow, window |-> OpenWindow]]
    BY <1>3 DEF PollAnswers
  <2>2. [paused |-> pausedNow, window |-> OpenWindow] \in PollsTold
    BY PageTellsTheTruth DEF PollsTold, FormInv
  <2>3. polls' \in Seq(PollsTold)
    BY <1>1, <2>1, <2>2
  <2> QED
    BY <1>1, <1>3, <2>3, PageStepKeepsForm DEF PollAnswers, FormInv
<1>4. CASE PollLands \/ PollFails
  <2>1. PICK i \in DOMAIN polls :
            /\ polls' = RemoveAt(polls, i)
            /\ seen' = polls[i] \/ seen' = seen
    BY <1>4 DEF PollLands, PollFails
  <2>2. polls' \in Seq(PollsTold)
    <3>1. i \in 1 .. Len(polls) /\ Len(polls) \in Nat
      BY <1>1
    <3>2. /\ SubSeq(polls, 1, i - 1) \in Seq(PollsTold)
          /\ SubSeq(polls, i + 1, Len(polls)) \in Seq(PollsTold)
      BY <1>1, <3>1
    <3>3. polls' = SubSeq(polls, 1, i - 1) \o SubSeq(polls, i + 1, Len(polls))
      BY <2>1 DEF RemoveAt
    <3> QED
      BY <3>2, <3>3
  <2>3. seen' \in PollsTold
    BY <1>1, <2>1 DEF FormInv
  <2> QED
    BY <1>1, <2>2, <2>3, PageStepKeepsForm
<1> QED
  BY <1>2, <1>3, <1>4

\* So does a transaction that lands.
LEMMA SubmitKeepsForm ==
    ASSUME FormInv, SubmitLands
    PROVE  FormInv'
<1>1. /\ request # Unread /\ RideAlong /\ UNCHANGED <<now, pausedNow, seen>>
      /\ told' = IF request.mode = "stake" \/ request.maturity = Unread THEN told
                 ELSE [joined |-> OpenWindow.id, maturity |-> request.maturity]
      /\ request' = Unread /\ polls' = Append(polls, Blank)
  BY DEF SubmitLands
<1>2. /\ ChainInv' /\ WindowsTold \subseteq WindowsTold'
      /\ \A t : KeptWord(t) => KeptWord(t)'
  <2>1. ChainInv /\ now' \in Nat
    BY <1>1 DEF FormInv, ChainInv
  <2> QED
    BY <1>1, <2>1, WordIsKept
<1>3. PollsTold \subseteq PollsTold'
  BY <1>2 DEF PollsTold
<1>4. polls' \in Seq(PollsTold')
  <2>1. polls' \in Seq(PollsTold)
    BY <1>1, PageTellsTheTruth DEF FormInv
  <2> QED
    BY <1>3, <2>1
<1>5. seen' \in PollsTold'
  BY <1>1, <1>3 DEF FormInv
<1>6. ASSUME ~(request.mode = "stake" \/ request.maturity = Unread)
      PROVE  KeptWord([joined |-> OpenWindow.id, maturity |-> request.maturity])
  <2>1. request.maturity \in DatesTold
    BY <1>1, <1>6 DEF FormInv
  <2>2. /\ request.maturity.window \in Nat \ {0} /\ request.maturity.date \in Nat
        /\ request.maturity.window <= Len(maturities) + 1
        /\ request.maturity.date <= MaturityOf(request.maturity.window)
    BY <2>1 DEF DatesTold
  <2>3. ChainInv /\ Len(maturities) \in Nat
    BY DEF FormInv, ChainInv
  <2>4. Len(maturities) + 1 \in Nat \ {0} /\ Len(maturities) + 1 <= Len(maturities) + 1
    BY <2>3
  <2>5. /\ MaturityOf(request.maturity.window) <= MaturityOf(Len(maturities) + 1)
        /\ MaturityOf(request.maturity.window) \in Nat
        /\ MaturityOf(Len(maturities) + 1) \in Nat
    BY <2>2, <2>3, <2>4, LaterWindowsMatureLater
  <2>6. request.maturity.date <= MaturityOf(Len(maturities) + 1)
    BY <2>2, <2>5
  <2> QED
    BY <2>2, <2>4, <2>6 DEF KeptWord, OpenWindow
<1>7. told' # Unread => KeptWord(told)'
  <2>1. CASE request.mode = "stake" \/ request.maturity = Unread
    BY <1>1, <1>2, <2>1 DEF FormInv
  <2>2. CASE ~(request.mode = "stake" \/ request.maturity = Unread)
    <3>1. PICK t : t = [joined |-> OpenWindow.id, maturity |-> request.maturity]
      OBVIOUS
    <3>2. KeptWord(t)' /\ told' = t
      BY <1>1, <1>2, <1>6, <2>2, <3>1
    <3> QED
      BY <3>2 DEF KeptWord
  <2> QED
    BY <2>1, <2>2
<1> QED
  BY <1>1, <1>2, <1>4, <1>5, <1>7 DEF FormInv

\* So does every step of the form.
LEMMA FormStep == FormInv /\ [FormNext]_formVars => FormInv'
<1> SUFFICES ASSUME FormInv, [FormNext]_formVars
             PROVE  FormInv'
  OBVIOUS
<1>1. ASSUME \/ SetFormMode \/ BalanceRead \/ TypeAmount \/ PressShare
             \/ SubmitFails \/ UNCHANGED formVars
      PROVE  FormInv'
  <2>1. UNCHANGED <<contractSide, polls, seen, told>> /\ request' \in {request, Unread}
    BY <1>1 DEF SetFormMode, BalanceRead, TypeAmount, PressShare, SubmitFails, OnlyForm, formVars
  <2> QED
    BY <2>1, PageStepKeepsForm DEF FormInv
<1>2. CASE PressSubmit
  <2>1. UNCHANGED <<contractSide, polls, seen, told>> /\ request'.maturity = Maturity
    BY <1>2 DEF PressSubmit
  <2> QED
    BY <2>1, PageTellsTheTruth, PageStepKeepsForm DEF FormInv
<1> QED
  BY <1>1, <1>2, ChainStepKeepsForm, PollsKeepForm, SubmitKeepsForm DEF FormNext

(***************************************************************************)
(* The date told to whoever requests a withdrawal is never later than the  *)
(* money is there, however many windows close between the reading that it  *)
(* was reckoned from, the click and the transaction (page.tsx, maturity).  *)
(***************************************************************************)
THEOREM NobodyIsToldTooLate == AppSpec => []DateToldIsEarliest
<1> USE FormConstants
<1>1. FormInit => FormInv
  <2> SUFFICES ASSUME FormInit PROVE FormInv
    OBVIOUS
  <2>1. ChainInv
    BY DEF FormInit, ChainInv
  <2>2. Blank \in PollsTold
    BY DEF Blank, PollsTold
  <2>3. /\ polls = <<Blank>> /\ seen = Blank /\ pausedNow = FALSE
        /\ request = Unread /\ told = Unread
    BY DEF FormInit
  <2>4. polls \in Seq(PollsTold)
    BY <2>2, <2>3
  <2> QED
    BY <2>1, <2>2, <2>3, <2>4 DEF FormInv
<1>2. FormInv => DateToldIsEarliest
  BY DEF FormInv, KeptWord, MaturityOf, DateToldIsEarliest
<1> QED
  BY <1>1, <1>2, FormStep, PagesRunTheirSpecs, PTL DEF FormSpec

-----------------------------------------------------------------------------
(* The manager's console.                                                  *)

\* What is sent was within the bounds that the screen still shows.
SentWithinBounds ==
    phase = "sent" =>
        /\ sent.kind \in {"weights", "fee", "paused", "plan"}
        /\ sent.kind = "fee" => sent.bps \in Nat /\ sent.bps <= onScreen.maxFee
        /\ sent.kind = "weights" => sent.grains \in [Places -> Nat] /\ WeightsValid(sent.grains)

\* A reading of the contract, as far as the bounds depend on it.
WellRead(c) ==
    /\ c = [fee |-> c.fee, maxFee |-> c.maxFee, paused |-> c.paused,
            weights |-> c.weights, bonded |-> c.bonded]
    /\ c.maxFee \in Nat /\ c.weights \in [Places -> Nat]

ConsoleInv ==
    /\ WellRead(contract) /\ WellRead(incoming) /\ WellRead(onScreen)
    /\ form \in [Places -> Nat]
    /\ SentWithinBounds

\* Rounding to basis points: monotone, and exact for whole ones.
LEMMA RoundingIsExact ==
    /\ \A g \in Nat : Rounded(g) \in Nat
    /\ \A g, m \in Nat : g <= GrainsPerBp * m => Rounded(g) <= m
    /\ \A b \in Nat : Rounded(GrainsPerBp * b) = b
    /\ \A g \in Nat : g % GrainsPerBp = 0 => g = GrainsPerBp * Rounded(g)
  BY DEF Rounded, GrainsPerBp

\* Weights that the screen lets through, typed in whole basis points, are weights
\* that the contract accepts.
LEMMA ValidOnScreenIsAcceptable ==
    ASSUME NEW grains \in [Places -> Nat], WeightsValid(grains),
           \A i \in Places : grains[i] % GrainsPerBp = 0
    PROVE  ValidateManagedWeights(BpsOf(grains), {Listed[i] : i \in Places}, MaxWeight)
<1> DEFINE bps == [i \in Places |-> Rounded(grains[i])]
           S == SumFunctionOnSet(bps, Places)
<1>1. IsFiniteSet(Places) /\ Places = 1 .. Len(Listed) /\ Len(Listed) \in Nat
  BY ConsoleConstants, FS_Interval DEF Places
<1>2. \A i \in Places : bps[i] \in Nat /\ grains[i] = GrainsPerBp * bps[i]
  BY RoundingIsExact
<1>3. bps \in [Places -> Nat] /\ S \in Nat
  <2>1. bps \in [Places -> Nat]
    BY <1>2
  <2> HIDE DEF bps
  <2> QED
    BY <1>1, <2>1, SumNat
<1>4. SumFunctionOnSet(grains, Places) = GrainsPerBp * S
  <2> HIDE DEF bps
  <2> QED
    BY <1>1, <1>2, SumScaled, SMTT(30) DEF GrainsPerBp
<1>5. S = BPS_DENOM
  <2>1. Rounded(SumFunctionOnSet(grains, Places)) = BPS_DENOM
    BY DEF WeightsValid, SumFunction
  <2> QED
    BY <1>3, <1>4, <2>1, RoundingIsExact
<1>6. /\ DOMAIN BpsOf(grains) = Places
      /\ \A i \in Places : /\ BpsOf(grains)[i].address = Listed[i]
                           /\ BpsOf(grains)[i].weight = bps[i]
  BY DEF BpsOf
<1>7. SumFunction([i \in DOMAIN BpsOf(grains) |-> BpsOf(grains)[i].weight]) = BPS_DENOM
  <2>1. [i \in DOMAIN BpsOf(grains) |-> BpsOf(grains)[i].weight] = bps
    BY <1>6
  <2>2. DOMAIN bps = Places
    OBVIOUS
  <2> HIDE DEF bps
  <2> QED
    BY <1>5, <2>1, <2>2 DEF SumFunction
<1>8. BpsOf(grains) # << >>
  <2>1. Places # {}
    <3>1. SumFunctionOnSet(bps, {}) = 0
      BY SumEmpty
    <3> QED
      BY <1>5, <3>1 DEF BPS_DENOM
  <2>2. DOMAIN << >> = {}
    OBVIOUS
  <2> QED
    BY <1>6, <2>1, <2>2
<1>9. IsInjective([i \in DOMAIN BpsOf(grains) |-> BpsOf(grains)[i].address])
  BY <1>6, ConsoleConstants DEF IsInjective, Places
<1>10. AddressesIn(BpsOf(grains)) \subseteq {Listed[i] : i \in Places}
  BY <1>6 DEF AddressesIn
<1>11. \A i \in DOMAIN BpsOf(grains) : BpsOf(grains)[i].weight <= MaxWeight
  <2>1. MaxWeight \in Nat /\ \A i \in Places : grains[i] <= GrainsPerBp * MaxWeight
    BY ConsoleConstants DEF WeightsValid
  <2>2. ASSUME NEW i \in Places PROVE Rounded(grains[i]) <= MaxWeight
    <3>1. grains[i] \in Nat /\ grains[i] <= GrainsPerBp * MaxWeight
      BY <2>1
    <3> QED
      BY <2>1, <3>1, RoundingIsExact
  <2>3. \A i \in Places : bps[i] <= MaxWeight
    BY <2>2
  <2> HIDE DEF bps
  <2> QED
    BY <1>6, <2>3
<1> QED
  BY <1>7, <1>8, <1>9, <1>10, <1>11 DEF ValidateManagedWeights, ValidateSet

\* A reading that arrives keeps the console's invariant.
LEMMA AnswerKeepsConsole ==
    ASSUME ConsoleInv, ConsoleReads
    PROVE  ConsoleInv'
<1>1. PICK query \in Readings : Answer(query)
  BY DEF ConsoleReads
<1>2. contract' = contract /\ phase # "sent"
  BY DEF ConsoleReads
<1> DEFINE seen_ == IF query = "config"
                    THEN [incoming EXCEPT !.fee = contract.fee, !.maxFee = contract.maxFee,
                                          !.paused = contract.paused]
                    ELSE [incoming EXCEPT !.weights = contract.weights,
                                          !.bonded = contract.bonded]
<1>3. WellRead(seen_)
  BY DEF ConsoleInv, WellRead
<1>4. seen_.weights \in [Places -> Nat]
  BY <1>3 DEF WellRead
<1>5. /\ incoming' = seen_
      /\ \/ /\ phase' = "ready" /\ onScreen' = seen_
            /\ form' = [i \in Places |-> GrainsPerBp * seen_.weights[i]]
         \/ UNCHANGED <<phase, onScreen, form>>
  BY <1>1 DEF Answer
<1> HIDE DEF seen_
<1>6. form' \in [Places -> Nat]
  BY <1>4, <1>5 DEF ConsoleInv, GrainsPerBp
<1>7. phase' # "sent"
  BY <1>2, <1>5
<1> QED
  BY <1>2, <1>3, <1>5, <1>6, <1>7 DEF ConsoleInv, SentWithinBounds, WellRead

\* So does a message that is sent.
LEMMA SendKeepsConsole ==
    ASSUME ConsoleInv, PressWeights \/ PressFee \/ PressPause \/ PressRedelegate
    PROVE  ConsoleInv'
<1> USE ConsoleConstants
<1>1. UNCHANGED <<contract, incoming, onScreen, form>>
  BY DEF PressWeights, PressFee, PressPause, PressRedelegate, Send
<1>2. CASE PressWeights
  <2>1. sent' = [kind |-> "weights", grains |-> form] /\ WeightsValid(form)
    BY <1>2 DEF PressWeights, Send
  <2>2. sent'.kind = "weights" /\ sent'.grains = form
    BY <2>1
  <2> QED
    BY <1>1, <2>1, <2>2 DEF ConsoleInv, SentWithinBounds, WellRead
<1>3. CASE PressFee
  <2>1. PICK grains \in TypedFees : /\ grains <= GrainsPerBp * onScreen.maxFee
                                    /\ sent' = [kind |-> "fee", bps |-> Rounded(grains)]
    BY <1>3 DEF PressFee, Send
  <2>2. grains \in Nat /\ onScreen.maxFee \in Nat
    BY DEF ConsoleInv, WellRead
  <2>3. Rounded(grains) \in Nat /\ Rounded(grains) <= onScreen.maxFee
    BY <2>1, <2>2, RoundingIsExact
  <2>4. sent'.kind = "fee" /\ sent'.bps = Rounded(grains)
    BY <2>1
  <2> QED
    BY <1>1, <2>3, <2>4 DEF ConsoleInv, SentWithinBounds, WellRead
<1>4. CASE PressPause \/ PressRedelegate
  <2>1. sent'.kind \in {"paused", "plan"}
    BY <1>4 DEF PressPause, PressRedelegate, Send
  <2> QED
    BY <1>1, <2>1 DEF ConsoleInv, SentWithinBounds, WellRead
<1> QED
  BY <1>2, <1>3, <1>4

\* So does what the contract does.
LEMMA ContractKeepsConsole ==
    ASSUME ConsoleInv, MessageAccepted \/ ContractChanges
    PROVE  ConsoleInv'
<1> USE ConsoleConstants
<1>1. UNCHANGED <<incoming, onScreen, form>>
  BY DEF MessageAccepted, ContractChanges
<1>2. SentWithinBounds'
  BY DEF MessageAccepted, ContractChanges, ConsoleInv, SentWithinBounds
<1>3. WellRead(contract)
  BY DEF ConsoleInv
<1>4. CASE ContractChanges
  <2>1. WellRead(contract')
    <3>1. CASE \E w \in OtherWeights : contract' = [contract EXCEPT !.weights = w]
      BY <1>3, <3>1 DEF WellRead, Places
    <3>2. CASE \E f : contract' = [contract EXCEPT !.fee = f]
      BY <1>3, <3>2 DEF WellRead
    <3>3. CASE contract' = [contract EXCEPT !.paused = ~@]
      BY <1>3, <3>3 DEF WellRead
    <3>4. CASE contract' = [contract EXCEPT !.maxFee = MigratedMaxFee]
      BY <1>3, <3>4 DEF WellRead
    <3> QED
      BY <1>4, <3>1, <3>2, <3>3, <3>4 DEF ContractChanges
  <2> QED
    BY <1>1, <1>2, <2>1 DEF ConsoleInv, WellRead
<1>5. CASE MessageAccepted
  <2>1. phase = "sent" /\ contract' = After(sent)
    BY <1>5 DEF MessageAccepted
  <2>2. WellRead(contract')
    <3>1. CASE sent.kind = "weights"
      <4>1. contract' = [contract EXCEPT !.weights = [i \in Places |-> Rounded(sent.grains[i])]]
        BY <2>1, <3>1 DEF After
      <4>2. [i \in Places |-> Rounded(sent.grains[i])] \in [Places -> Nat]
        BY <2>1, <3>1, RoundingIsExact DEF ConsoleInv, SentWithinBounds
      <4> QED
        BY <1>3, <4>1, <4>2 DEF WellRead
    <3>2. CASE sent.kind = "fee"
      BY <1>3, <2>1, <3>2 DEF After, WellRead
    <3>3. CASE sent.kind = "paused"
      BY <1>3, <2>1, <3>3 DEF After, WellRead
    <3>4. CASE sent.kind = "plan"
      <4>1. \E b : contract' = [contract EXCEPT !.bonded = b]
        BY <2>1, <3>4 DEF After
      <4> QED
        BY <1>3, <4>1 DEF WellRead
    <3> QED
      BY <2>1, <3>1, <3>2, <3>3, <3>4 DEF ConsoleInv, SentWithinBounds
  <2> QED
    BY <1>1, <1>2, <2>2 DEF ConsoleInv, WellRead
<1> QED
  BY <1>4, <1>5

\* So does every step of the console.
LEMMA ConsoleStep == ConsoleInv /\ [ConsoleNext]_consoleVars => ConsoleInv'
<1> SUFFICES ASSUME ConsoleInv, [ConsoleNext]_consoleVars
             PROVE  ConsoleInv'
  OBVIOUS
<1>1. CASE TypeWeight
  <2>1. PICK i \in Places, grains \in TypedWeights : form' = [form EXCEPT ![i] = grains]
    BY <1>1 DEF TypeWeight
  <2>2. form' \in [Places -> Nat]
    BY <2>1, ConsoleConstants DEF ConsoleInv
  <2> QED
    BY <1>1, <2>2 DEF TypeWeight, ConsoleInv, SentWithinBounds, WellRead
<1>2. CASE RefreshFailed
  BY <1>2 DEF RefreshFailed, ConsoleInv, SentWithinBounds, WellRead
<1>3. CASE MessageRefused \/ MessageLost
  BY <1>3 DEF MessageRefused, MessageLost, ConsoleInv, SentWithinBounds, WellRead
<1>4. CASE UNCHANGED consoleVars
  BY <1>4 DEF consoleVars, ConsoleInv, SentWithinBounds, WellRead
<1> QED
  BY <1>1, <1>2, <1>3, <1>4, AnswerKeepsConsole, SendKeepsConsole, ContractKeepsConsole
  DEF ConsoleNext

\* The console's first state has it.
LEMMA ConsoleBegins == ConsoleInit => ConsoleInv
<1> SUFFICES ASSUME ConsoleInit PROVE ConsoleInv
  OBVIOUS
<1>1. contract \in [fee : OtherFees, maxFee : {InitialMaxFee}, paused : {FALSE},
                    weights : OtherWeights, bonded : {[i \in Places |-> 1]}]
  BY DEF ConsoleInit
<1>2. contract.maxFee \in Nat /\ contract.weights \in [Places -> Nat]
  BY <1>1, ConsoleConstants DEF Places
<1>3. WellRead(contract)
  BY <1>1, <1>2 DEF WellRead
<1> QED
  BY <1>3 DEF ConsoleInit, ConsoleInv, SentWithinBounds, WellRead

(***************************************************************************)
(* "The screen enforces the same bounds up front": a fee is refused only   *)
(* when the limit has changed since it was read, and weights only when one *)
(* was typed finer than a basis point, for any allowlist without repeats   *)
(* (governance/page.tsx, validators.rs validate_managed_weights).          *)
(***************************************************************************)
THEOREM ScreenBoundsSuffice == AppSpec => BoundsEnforcedUpFront
<1>1. ConsoleInv /\ [ConsoleNext]_consoleVars =>
        [MessageRefused =>
            /\ sent.kind = "fee" => onScreen.maxFee # contract.maxFee
            /\ sent.kind = "weights" =>
                  \E i \in Places : sent.grains[i] % GrainsPerBp # 0]_consoleVars
  <2> SUFFICES ASSUME ConsoleInv, MessageRefused
               PROVE  /\ sent.kind = "fee" => onScreen.maxFee # contract.maxFee
                      /\ sent.kind = "weights" =>
                            \E i \in Places : sent.grains[i] % GrainsPerBp # 0
    OBVIOUS
  <2>1. phase = "sent" /\ ~Acceptable(sent)
    BY DEF MessageRefused
  <2>2. ASSUME sent.kind = "fee"
        PROVE  onScreen.maxFee # contract.maxFee
    BY <2>1, <2>2 DEF Acceptable, ConsoleInv, SentWithinBounds
  <2>3. ASSUME sent.kind = "weights", \A i \in Places : sent.grains[i] % GrainsPerBp = 0
        PROVE  FALSE
    <3>1. sent.grains \in [Places -> Nat] /\ WeightsValid(sent.grains)
      BY <2>1, <2>3 DEF ConsoleInv, SentWithinBounds
    <3>2. ValidateManagedWeights(BpsOf(sent.grains), {Listed[i] : i \in Places}, MaxWeight)
      BY <2>3, <3>1, ValidOnScreenIsAcceptable
    <3> QED
      BY <2>1, <2>3, <3>2 DEF Acceptable
  <2> QED
    BY <2>2, <2>3
<1> QED
  BY <1>1, ConsoleBegins, ConsoleStep, PagesRunTheirSpecs, PTL
  DEF ConsoleSpec, BoundsEnforcedUpFront

-----------------------------------------------------------------------------
(* The nodes.                                                              *)

\* The filter leaves out the one node and nothing else, and repeats nothing.
LEMMA WithoutOne ==
    ASSUME NEW D, NEW list \in Seq(D), NEW n
    PROVE  /\ Without(list, n) \in Seq(D)
           /\ Range(Without(list, n)) = Range(list) \ {n}
           /\ IsInjective(list) => IsInjective(Without(list, n))
<1> DEFINE kept == {i \in DOMAIN list : list[i] # n}
           Count(i) == Cardinality({j \in kept : j <= i})
           Kept(k) == CHOOSE i \in kept : Count(i) = k
           new == [k \in 1 .. Cardinality(kept) |-> list[Kept(k)]]
<1>1. Without(list, n) = new
  BY DEF Without
<1>2. /\ IsFiniteSet(kept) /\ \A i \in kept : i \in Int
      /\ kept \subseteq DOMAIN list /\ Cardinality(kept) \in Nat
  <2>1. DOMAIN list = 1 .. Len(list) /\ Len(list) \in Nat
    OBVIOUS
  <2>2. IsFiniteSet(1 .. Len(list))
    BY <2>1, FS_Interval
  <2>3. kept \subseteq 1 .. Len(list)
    BY <2>1
  <2> QED
    BY <2>1, <2>2, <2>3, FS_Subset, FS_CardinalityType
<1>3. \A i \in kept : list[i] # n /\ list[i] \in D
  OBVIOUS
<1>4. \A i \in DOMAIN list : list[i] = n \/ i \in kept
  OBVIOUS
<1> HIDE DEF kept
<1>5. /\ \A k \in 1 .. Cardinality(kept) : \E i \in kept : Count(i) = k
      /\ \A i \in kept : Count(i) \in 1 .. Cardinality(kept)
      /\ \A i, l \in kept : Count(l) = Count(i) => l = i
  BY <1>2, KthMember, CountUpTo, ZenonT(30)
<1> HIDE DEF Count
<1>6. /\ \A k \in 1 .. Cardinality(kept) : Kept(k) \in kept /\ Count(Kept(k)) = k
      /\ \A i \in kept : \E k \in 1 .. Cardinality(kept) : Kept(k) = i
  BY <1>5
<1> HIDE DEF Kept
<1>7. new \in Seq(D)
  BY <1>2, <1>3, <1>6
<1>8. DOMAIN new = 1 .. Cardinality(kept)
  OBVIOUS
<1>9. Range(new) = Range(list) \ {n}
  <2>1. ASSUME NEW k \in DOMAIN new PROVE new[k] \in Range(list) \ {n}
    BY <1>2, <1>3, <1>6, <2>1 DEF Range
  <2>2. ASSUME NEW i \in DOMAIN list, list[i] # n PROVE list[i] \in Range(new)
    <3>1. PICK k \in 1 .. Cardinality(kept) : Kept(k) = i
      BY <1>4, <1>6, <2>2
    <3> QED
      BY <3>1 DEF Range
  <2> QED
    BY <2>1, <2>2 DEF Range
<1>10. ASSUME IsInjective(list) PROVE IsInjective(new)
  <2>1. ASSUME NEW k \in DOMAIN new, NEW l \in DOMAIN new, new[k] = new[l]
        PROVE  k = l
    <3>1. Kept(k) \in DOMAIN list /\ Kept(l) \in DOMAIN list
      BY <1>2, <1>6
    <3>2. Kept(k) = Kept(l)
      BY <1>10, <2>1, <3>1 DEF IsInjective
    <3> QED
      BY <1>6, <3>2
  <2> QED
    BY <2>1 DEF IsInjective
<1> QED
  BY <1>1, <1>7, <1>9, <1>10

\* A filter never makes a list longer.
LEMMA WithoutIsNoLonger ==
    ASSUME NEW D, NEW list \in Seq(D), NEW n
    PROVE  Len(Without(list, n)) <= Len(list)
<1> DEFINE kept == {i \in DOMAIN list : list[i] # n}
<1>1. DOMAIN list = 1 .. Len(list) /\ Len(list) \in Nat
  OBVIOUS
<1>2. IsFiniteSet(1 .. Len(list)) /\ Cardinality(1 .. Len(list)) = Len(list)
  BY <1>1, FS_Interval, SMTT(30)
<1>3. Cardinality(kept) <= Len(list) /\ Cardinality(kept) \in Nat
  <2>1. kept \in SUBSET (1 .. Len(list))
    BY <1>1
  <2> QED
    BY <1>2, <2>1, FS_Subset, FS_CardinalityType
<1>4. DOMAIN Without(list, n) = 1 .. Cardinality(kept)
  BY DEF Without
<1>5. Without(list, n) \in Seq(D)
  BY WithoutOne
<1>6. Len(Without(list, n)) = Cardinality(kept)
  BY <1>3, <1>4, <1>5
<1> QED
  BY <1>3, <1>6

\* A node that is used heads a list without repeats that is cut at its end.
LEMMA RememberedFirst ==
    ASSUME custom \in Seq(Nodes), IsInjective(custom), NEW n \in Nodes
    PROVE  /\ Remembering(n) \in Seq(Nodes)
           /\ n \in Range(Remembering(n))
           /\ Len(Remembering(n)) <= MaxCustom
           /\ IsInjective(Remembering(n))
<1> DEFINE rest == Without(custom, n)
           whole == <<n>> \o rest
           cut == IF Len(whole) < MaxCustom THEN Len(whole) ELSE MaxCustom
<1>1. rest \in Seq(Nodes) /\ n \notin Range(rest) /\ IsInjective(rest)
  BY WithoutOne
<1>2. Remembering(n) = SubSeq(whole, 1, cut)
  BY DEF Remembering, FirstOf
<1> HIDE DEF rest
<1>3. /\ whole \in Seq(Nodes) /\ Len(whole) = Len(rest) + 1 /\ Len(rest) \in Nat
      /\ whole[1] = n
      /\ \A i \in 2 .. Len(whole) : whole[i] = rest[i - 1] /\ i - 1 \in DOMAIN rest
  BY <1>1
<1>4. \A i, j \in 1 .. Len(whole) : whole[i] = whole[j] => i = j
  <2> SUFFICES ASSUME NEW i \in 1 .. Len(whole), NEW j \in 1 .. Len(whole),
                      whole[i] = whole[j]
               PROVE  i = j
    OBVIOUS
  <2>1. \A l \in 2 .. Len(whole) : whole[l] \in Range(rest)
    BY <1>3 DEF Range
  <2>2. CASE i = 1 \/ j = 1
    <3>1. i \in {1} \cup (2 .. Len(whole)) /\ j \in {1} \cup (2 .. Len(whole))
      BY <1>3
    <3> QED
      BY <1>1, <1>3, <2>1, <2>2, <3>1
  <2>3. CASE i # 1 /\ j # 1
    <3>1. i \in 2 .. Len(whole) /\ j \in 2 .. Len(whole)
      BY <1>3, <2>3
    <3>2. rest[i - 1] = rest[j - 1] /\ i - 1 \in DOMAIN rest /\ j - 1 \in DOMAIN rest
      BY <1>3, <3>1
    <3>3. i - 1 = j - 1
      BY <1>1, <3>2 DEF IsInjective
    <3> QED
      BY <3>1, <3>3
  <2> QED
    BY <2>2, <2>3
<1> HIDE DEF whole
<1>5. cut \in 1 .. Len(whole) /\ cut <= MaxCustom
  BY <1>3, EndpointAssumption
<1> HIDE DEF cut
<1>6. /\ Remembering(n) \in Seq(Nodes) /\ Len(Remembering(n)) = cut
      /\ \A i \in 1 .. cut : Remembering(n)[i] = whole[i]
  BY <1>2, <1>3, <1>5
<1>7. DOMAIN Remembering(n) = 1 .. cut
  BY <1>6
<1>8. n \in Range(Remembering(n))
  <2>1. 1 \in 1 .. cut
    BY <1>5
  <2> QED
    BY <1>3, <1>6, <1>7, <2>1 DEF Range
<1>9. IsInjective(Remembering(n))
  <2>1. \A i \in 1 .. cut : i \in 1 .. Len(whole)
    BY <1>3, <1>5
  <2> QED
    BY <1>4, <1>6, <1>7, <2>1 DEF IsInjective
<1> QED
  BY <1>5, <1>6, <1>8, <1>9

EndpointInv == EndpointTypeOK /\ ChosenIsListed

\* Every step of the settings keeps the list.
LEMMA EndpointStep == EndpointInv /\ [EndpointNext]_endpointVars => EndpointInv'
<1> SUFFICES ASSUME EndpointInv, [EndpointNext]_endpointVars
             PROVE  EndpointInv'
  OBVIOUS
<1>1. /\ chosen \in Named /\ custom \in Seq(Nodes) /\ IsInjective(custom)
      /\ current \in [Tabs -> Named] /\ listed \in [Tabs -> SUBSET Named]
      /\ forgotten \in BOOLEAN /\ Range(custom) \subseteq Nodes
  BY DEF EndpointInv, EndpointTypeOK, ChosenIsListed, Range
<1>2. CASE \E t \in Tabs : OpenSettings(t) \/ AddNode(t)
  <2>1. PICK t \in Tabs : OpenSettings(t) \/ AddNode(t)
    BY <1>2
  <2>2. /\ UNCHANGED <<chosen, custom, forgotten>>
        /\ current' \in [Tabs -> Named] /\ listed' \in [Tabs -> SUBSET Named]
    BY <1>1, <2>1 DEF OpenSettings, AddNode, Mounts, Named
  <2> QED
    BY <1>1, <2>2 DEF EndpointInv, EndpointTypeOK, ChosenIsListed
<1>3. CASE \E t \in Tabs : UseNode(t)
  <2>1. PICK t \in Tabs, n \in Named :
            /\ chosen' = n /\ forgotten' = FALSE
            /\ custom' = IF n = DefaultNode THEN custom ELSE Remembering(n)
            /\ Mounts(t, chosen', custom')
    BY <1>1, <1>3 DEF UseNode
  <2>2. /\ custom' \in Seq(Nodes) /\ IsInjective(custom')
        /\ Len(custom') <= MaxCustom /\ chosen' \in Range(custom') \cup {DefaultNode}
    <3>1. CASE n = DefaultNode
      BY <1>1, <2>1, <3>1 DEF EndpointInv, ChosenIsListed
    <3>2. CASE n # DefaultNode
      <4>1. n \in Nodes
        BY <2>1, <3>2 DEF Named
      <4> QED
        BY <1>1, <2>1, <3>2, <4>1, RememberedFirst
    <3> QED
      BY <3>1, <3>2
  <2>3. Range(custom') \subseteq Nodes
    BY <2>2 DEF Range
  <2>4. current' \in [Tabs -> Named] /\ listed' \in [Tabs -> SUBSET Named]
    BY <1>1, <2>1, <2>3 DEF Mounts, Named
  <2> QED
    BY <2>1, <2>2, <2>4 DEF EndpointInv, EndpointTypeOK, ChosenIsListed
<1>4. CASE \E t \in Tabs : ForgetNode(t)
  <2>1. PICK t \in Tabs, n \in Named :
            /\ custom' = Without(custom, n)
            /\ listed' = [listed EXCEPT ![t] = @ \ {n}]
            /\ forgotten' = (forgotten \/ n = chosen)
            /\ UNCHANGED <<chosen, current>>
    BY <1>1, <1>4 DEF ForgetNode
  <2>2. /\ custom' \in Seq(Nodes) /\ IsInjective(custom')
        /\ Range(custom') = Range(custom) \ {n}
    BY <1>1, <2>1, WithoutOne
  <2>3. Len(custom') <= MaxCustom
    <3>1. Len(custom') <= Len(custom) /\ Len(custom) <= MaxCustom
      BY <1>1, <2>1, WithoutIsNoLonger DEF EndpointInv, ChosenIsListed
    <3>2. PICK after \in Seq(Nodes) : after = custom'
      BY <2>2
    <3>3. Len(after) <= Len(custom) /\ Len(after) \in Nat /\ Len(custom) \in Nat
      BY <1>1, <3>1, <3>2
    <3>4. Len(after) <= MaxCustom
      BY <3>1, <3>3, EndpointAssumption
    <3> QED
      BY <3>2, <3>4
  <2>4. chosen' \notin Range(custom') \cup {DefaultNode} => forgotten'
    BY <2>1, <2>2 DEF EndpointInv, ChosenIsListed
  <2>5. listed' \in [Tabs -> SUBSET Named] /\ forgotten' \in BOOLEAN
    BY <1>1, <2>1
  <2> QED
    BY <1>1, <2>1, <2>2, <2>3, <2>4, <2>5 DEF EndpointInv, EndpointTypeOK, ChosenIsListed
<1>5. CASE UNCHANGED endpointVars
  BY <1>5 DEF endpointVars, EndpointInv, EndpointTypeOK, ChosenIsListed
<1> QED
  BY <1>2, <1>3, <1>4, <1>5 DEF EndpointNext

(***************************************************************************)
(* The node in use stays on the list of custom nodes, which names no node  *)
(* twice and keeps its limit, whatever the tabs do to it, unless another   *)
(* tab removed that node (endpoint.ts useEndpoint, forgetEndpoint).        *)
(***************************************************************************)
THEOREM ChosenAlwaysListed == AppSpec => []ChosenIsListed
<1>1. EndpointInit => EndpointInv
  <2> SUFFICES ASSUME EndpointInit PROVE EndpointInv
    OBVIOUS
  <2>1. EndpointTypeOK
    <3>1. custom \in Seq(Nodes)
      BY DEF EndpointInit
    <3>2. forgotten \in BOOLEAN
      BY DEF EndpointInit
    <3>3. /\ chosen \in Named /\ current \in [Tabs -> Named]
          /\ listed \in [Tabs -> SUBSET Named]
      BY DEF EndpointInit, Named
    <3> QED
      BY <3>1, <3>2, <3>3 DEF EndpointTypeOK
  <2>2. IsInjective(custom)
    BY DEF EndpointInit, IsInjective
  <2>3. Len(custom) <= MaxCustom
    <3>1. Len(<< >>) = 0
      OBVIOUS
    <3>2. Len(<< >>) <= MaxCustom
      BY <3>1, EndpointAssumption
    <3> QED
      BY <3>2 DEF EndpointInit
  <2> QED
    BY <2>1, <2>2, <2>3 DEF EndpointInit, EndpointInv, ChosenIsListed
<1>2. EndpointInv => ChosenIsListed
  BY DEF EndpointInv
<1> QED
  BY <1>1, <1>2, EndpointStep, PagesRunTheirSpecs, PTL DEF EndpointSpec
=============================================================================
