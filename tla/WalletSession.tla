--------------------------- MODULE WalletSession ---------------------------
(***************************************************************************)
(* The wallet session of one browser tab (app/src/components/Wallet.tsx,   *)
(* app/src/lib/chain.ts), and what the stake page and the account drawer   *)
(* do with it: every figure they show is asked for under one account and   *)
(* arrives, some awaits later, under what may be another.                  *)
(*                                                                         *)
(* An effect of React runs with the commit that triggers it.  The wallet   *)
(* extension answers in the order it is asked.  Other tabs, which share    *)
(* the storage, are left out.                                              *)
(***************************************************************************)
EXTENDS Sequences, FiniteSets, SequencesExt

CONSTANTS Accounts, None

\* Bounds of the model.
CONSTANTS
    MaxAttempts,    \* calls of connect() in flight
    MaxReads        \* reads of private or public figures in flight

VARIABLES
    \* The browser, outside the page.
    selected,       \* the account the extension has selected
    injected,       \* window.keplr is there
    remembered,     \* the address under SESSION_KEY
    permits,        \* the addresses with a permit in storage
    \* WalletProvider.
    connection,     \* the address of the connection, or None
    connecting,
    attempts,       \* calls of connect(), oldest first; address None until read
    missed,         \* an account change found nothing to reconnect, or failed to
    \* The figure that is watched, on the stake page or in the drawer.
    view,
    mode,           \* "stake" or "unstake"
    open,           \* the drawer is open
    reads,          \* reads in flight; a cancelled one is no longer live
    shown,          \* the figure on the screen: whose, and of which token
    autoLoaded,     \* autoLoaded.current (autoRevealed.current in the drawer)
    busy            \* the transaction in flight: its sender, and if a list was shown

browser == <<selected, injected, remembered, permits>>
session == <<connection, connecting, attempts, missed>>
screen  == <<mode, open, reads, shown, autoLoaded, busy>>
sessionVars == <<browser, session, view, screen>>

Views == {"balance", "claims", "drawer"}

Attempt ==
    [kind : {"click", "restore", "change"}, address : Accounts \cup {None}]

Token(m) == IF view = "balance" /\ m = "stake" THEN "SCRT" ELSE "dSCRT"

Figure == [address : Accounts, token : {"SCRT", "dSCRT"}]
Read   == [figure : Figure, live : BOOLEAN, step : {"sign", "query"}]

SessionTypeOK ==
    /\ selected \in Accounts /\ injected \in BOOLEAN
    /\ remembered \in Accounts \cup {None} /\ permits \subseteq Accounts
    /\ connection \in Accounts \cup {None} /\ connecting \in BOOLEAN
    /\ Len(attempts) <= MaxAttempts /\ Range(attempts) \subseteq Attempt
    /\ missed \in BOOLEAN
    /\ view \in Views /\ mode \in {"stake", "unstake"} /\ open \in BOOLEAN
    /\ reads \subseteq Read /\ shown \in Figure \cup {None}
    /\ autoLoaded \in Accounts \cup {None}
    /\ busy \in [from : Accounts, listed : BOOLEAN] \cup {None}

Restoring == <<[kind |-> "restore", address |-> None]>>

SessionInit ==
    /\ selected \in Accounts /\ injected = FALSE
    /\ remembered \in {None, selected} /\ permits = {}
    /\ connection = None /\ missed = FALSE
    /\ connecting = (remembered # None)
    /\ attempts = IF remembered # None THEN Restoring ELSE << >>
    /\ view \in Views /\ mode = "stake" /\ open = FALSE
    /\ reads = {} /\ shown = None /\ autoLoaded = None /\ busy = None

-----------------------------------------------------------------------------
(* Reading a figure.                                                       *)

\* getPermit answers from storage, or asks for a signature.
Reading(address, token) ==
    [figure |-> [address |-> address, token |-> token], live |-> TRUE,
     step |-> IF token = "dSCRT" /\ address \notin permits THEN "sign" ELSE "query"]

Cancelled(r) == [r EXCEPT !.live = FALSE]

\* The balance is asked for anew whenever the connection or the mode changes,
\* and what was asked before is cancelled.
BalanceEffect(address, m) ==
    /\ shown' = None
    /\ reads' = {Cancelled(r) : r \in reads} \cup
                IF address = None THEN {} ELSE {Reading(address, Token(m))}
    /\ UNCHANGED autoLoaded

\* Claims, and the drawer's balance, load unasked once a permit exists, once
\* for each address; nothing is cleared or cancelled.
AutoLoad(address) ==
    IF address # None /\ address \in permits /\ autoLoaded # address
    THEN /\ reads' = reads \cup {Reading(address, "dSCRT")}
         /\ autoLoaded' = address
         /\ UNCHANGED shown
    ELSE UNCHANGED <<reads, autoLoaded, shown>>

\* The effects of a commit with this connection.
Effects(address) ==
    CASE view = "balance"            -> BalanceEffect(address, mode)
      [] view = "drawer" /\ ~open    -> UNCHANGED <<reads, autoLoaded, shown>>
      [] OTHER                       -> AutoLoad(address)

\* Nothing more is asked while the reads would exceed the bound.
RoomToRead == Cardinality(reads) < MaxReads

Signed(r) ==
    /\ r.step = "sign"
    /\ permits' = permits \cup {r.figure.address}
    /\ reads' = (reads \ {r}) \cup {[r EXCEPT !.step = "query"]}
    /\ UNCHANGED shown

(* Mutated form of Landed: a cancelled read still sets the figure.         *)
LandedAnyway(r) ==
    /\ r.step = "query"
    /\ reads' = reads \ {r}
    /\ shown' = r.figure
    /\ UNCHANGED permits

Landed(r) ==
    /\ r.step = "query"
    /\ reads' = reads \ {r}
    /\ shown' = IF r.live THEN r.figure ELSE shown
    /\ UNCHANGED permits

\* The signature was refused, or the query failed.
ReadFails(r) ==
    /\ reads' = reads \ {r}
    /\ shown' = IF r.live /\ view = "balance" THEN None ELSE shown
    /\ UNCHANGED permits

ReadStep ==
    /\ \E r \in reads : Signed(r) \/ Landed(r) \/ ReadFails(r)
    /\ UNCHANGED <<selected, injected, remembered, session, view, mode, open,
                   autoLoaded, busy>>

-----------------------------------------------------------------------------
(* The session.                                                            *)

Attempts(kind) ==
    /\ Len(attempts) < MaxAttempts
    /\ attempts' = Append(attempts, [kind |-> kind, address |-> None])
    /\ connecting' = TRUE

\* The Connect button, and the stake button of a page without a connection.
ConnectClick ==
    /\ connection = None /\ ~connecting /\ injected
    /\ Attempts("click")
    /\ UNCHANGED <<browser, connection, missed, view, screen>>

\* The extension, asked by the oldest call it has not answered, reads the account.
WalletReads ==
    /\ injected
    /\ \E i \in DOMAIN attempts :
         /\ attempts[i].address = None
         /\ \A j \in 1 .. i - 1 : attempts[j].address # None
         /\ attempts' = [attempts EXCEPT ![i].address = selected]
    /\ UNCHANGED <<browser, connection, connecting, missed, view, screen>>

\* setConnection, rememberConnection, and the end of `connecting`.
AttemptLands ==
    /\ attempts # << >> /\ attempts[1].address # None
    /\ LET address == attempts[1].address
       IN  /\ connection' = address /\ remembered' = address
           /\ missed' = (missed /\ (address # selected \/ Len(attempts) > 1))
           /\ Effects(address)
    /\ RoomToRead
    /\ connecting' = FALSE /\ attempts' = Tail(attempts)
    /\ UNCHANGED <<selected, injected, permits, view, mode, open, busy>>

\* A locked wallet, a refusal, or no extension within three seconds; a failed
\* restoration forgets the session.
AttemptFails ==
    /\ attempts # << >>
    /\ connecting' = FALSE /\ attempts' = Tail(attempts)
    /\ remembered' = IF attempts[1].kind = "restore" THEN None ELSE remembered
    /\ missed' = (missed \/ connection # None)
    /\ UNCHANGED <<selected, injected, permits, connection, view, screen>>

(* Mutated form of Reconnects: one reconnection at a time.                 *)
ReconnectsUnlessConnecting ==
    IF connection # None /\ ~connecting
    THEN Attempts("change") /\ UNCHANGED missed
    ELSE /\ missed' = (missed \/ (connection = None /\ attempts # << >>))
         /\ UNCHANGED <<attempts, connecting>>

\* The listener of keplr_keystorechange reconnects only a tab that is connected.
Reconnects ==
    IF connection # None
    THEN Attempts("change") /\ UNCHANGED missed
    ELSE /\ missed' = (missed \/ attempts # << >>)
         /\ UNCHANGED <<attempts, connecting>>

SwitchAccount ==
    /\ selected' \in Accounts \ {selected}
    /\ Reconnects
    /\ UNCHANGED <<injected, remembered, permits, connection, view, screen>>

\* The permit of the connected account and the session are forgotten; calls in
\* flight go on.
Disconnect ==
    /\ connection # None
    /\ view = "drawer" => open
    /\ connection' = None /\ remembered' = None
    /\ permits' = permits \ {connection}
    /\ missed' = (missed /\ attempts # << >>)
    /\ CASE view = "balance" -> BalanceEffect(None, mode)
         [] view = "claims"  -> UNCHANGED <<reads, autoLoaded, shown>>
         [] view = "drawer"  -> /\ reads' = {Cancelled(r) : r \in reads}
                                /\ shown' = None /\ autoLoaded' = None
    /\ open' = FALSE
    /\ UNCHANGED <<selected, injected, connecting, attempts, view, mode, busy>>

Inject ==
    /\ ~injected /\ injected' = TRUE
    /\ UNCHANGED <<selected, remembered, permits, session, view, screen>>

\* A new page: only the storage is kept, and a session in it is restored.
Reload ==
    /\ injected' = FALSE
    /\ connection' = None /\ missed' = FALSE
    /\ connecting' = (remembered # None)
    /\ attempts' = IF remembered # None THEN Restoring ELSE << >>
    /\ mode' = "stake" /\ open' = FALSE
    /\ reads' = {} /\ shown' = None /\ autoLoaded' = None /\ busy' = None
    /\ UNCHANGED <<selected, remembered, permits, view>>

-----------------------------------------------------------------------------
(* The stake page and the drawer.                                          *)

OnScreen == UNCHANGED <<browser, session, view>>

SetMode ==
    /\ view = "balance" /\ RoomToRead
    /\ mode' \in {"stake", "unstake"} \ {mode}
    /\ BalanceEffect(connection, mode')
    /\ OnScreen /\ UNCHANGED <<open, busy>>

\* "Sign permit" or "Retry" under the withdrawals, "Reveal" in the drawer.
AskForFigure ==
    /\ connection # None /\ shown = None /\ RoomToRead
    /\ \/ view = "claims" /\ busy = None
       \/ view = "drawer" /\ open /\ ~\E r \in reads : r.live
    /\ reads' = reads \cup {Reading(connection, "dSCRT")}
    /\ OnScreen /\ UNCHANGED <<mode, open, shown, autoLoaded, busy>>

ToggleDrawer ==
    /\ view = "drawer" /\ connection # None /\ RoomToRead
    /\ open' = ~open
    /\ IF open
       THEN /\ reads' = {Cancelled(r) : r \in reads}
            /\ shown' = None /\ autoLoaded' = None
       ELSE AutoLoad(connection)
    /\ OnScreen /\ UNCHANGED <<mode, busy>>

\* A stake, a withdrawal or a claim is sent from the connected account ...
Submit ==
    /\ view = "claims" /\ connection # None /\ busy = None
    /\ busy' = [from |-> connection, listed |-> shown # None]
    /\ OnScreen /\ UNCHANGED <<mode, open, reads, shown, autoLoaded>>

\* ... and when it is in, a list that was shown is read again for that account.
TxLands ==
    /\ busy # None /\ RoomToRead
    /\ busy' = None
    /\ reads' = IF busy.listed THEN reads \cup {Reading(busy.from, "dSCRT")} ELSE reads
    /\ OnScreen /\ UNCHANGED <<mode, open, shown, autoLoaded>>

TxFails ==
    /\ busy # None /\ busy' = None
    /\ OnScreen /\ UNCHANGED <<mode, open, reads, shown, autoLoaded>>

SessionNext ==
    \/ ConnectClick \/ WalletReads \/ AttemptLands \/ AttemptFails
    \/ SwitchAccount \/ Disconnect \/ Inject \/ Reload
    \/ ReadStep \/ SetMode \/ AskForFigure \/ ToggleDrawer
    \/ Submit \/ TxLands \/ TxFails

SessionSpec == SessionInit /\ [][SessionNext]_sessionVars

-----------------------------------------------------------------------------
(* Properties.                                                             *)

\* The balance on the stake card is the connected account's, in the token that
\* the mode spends, whatever reads of other accounts and modes are still to
\* land (page.tsx:76-96).
ShownBalanceIsCurrent ==
    view = "balance" /\ shown # None
        => shown = [address |-> connection, token |-> Token(mode)]

\* Once no call of connect() is in flight the tab is on the account that the
\* wallet has selected, unless the change came before the tab was connected or
\* the reconnection failed (Wallet.tsx:107-115).
AccountFollowed ==
    attempts = << >> /\ connection \notin {None, selected} => missed
=============================================================================
