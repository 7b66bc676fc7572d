----------------------------- MODULE StakeForm -----------------------------
(***************************************************************************)
(* The form of the stake page (app/src/app/page.tsx): the protocol is read *)
(* every half minute, by refreshes that may overtake each other; a click   *)
(* sends what the page shows at that moment, and the date it then tells is *)
(* the one of the click, however long the wallet kept the transaction.     *)
(*                                                                         *)
(* One connected account; whose figures arrive is WalletSession's matter.  *)
(* What it holds is left out: any balance may be read, and a transaction   *)
(* of more than the account has is one of those that the chain refuses.    *)
(***************************************************************************)
EXTENDS Integers, Sequences, SequencesExt

CONSTANTS
    WindowTicks,    \* ticks that a window stays open, at least
    UnbondTicks,    \* ticks from its closing to its maturity
    Reserve,        \* kept back by Max, for the fee (GAS_RESERVE)
    Unread          \* null: nothing was read yet

\* Bounds of the model.
CONSTANTS
    Horizon,        \* ticks
    MaxPolls,       \* refreshes in flight
    MostHeld        \* a balance

ASSUME FormConstants == WindowTicks \in Nat /\ UnbondTicks \in Nat

VARIABLES
    \* The chain.
    now, closesAt,  \* the time, and when the open window may be closed
    maturities,     \* of the windows closed so far, oldest first
    pausedNow,      \* Config.paused
    \* The page.
    polls,          \* refreshes in flight: what their queries have answered
    seen,           \* config and openWindow, as last set
    formMode, typed, balance,
    request,        \* the transaction in flight, with the date it will tell
    told            \* the last date told, and the window that the request joined

contractSide == <<now, closesAt, maturities, pausedNow>>
formVars == <<contractSide, polls, seen, formMode, typed, balance, request, told>>

Modes == {"stake", "unstake"}

\* The open window: every window closed before it has a lower id.
OpenWindow == [id |-> Len(maturities) + 1, closes |-> closesAt]

Blank == [paused |-> Unread, window |-> Unread]

FormTypeOK ==
    /\ now \in 0 .. Horizon /\ closesAt \in 0 .. Horizon + WindowTicks
    /\ maturities \in Seq(0 .. Horizon + UnbondTicks)
    /\ pausedNow \in BOOLEAN
    /\ Len(polls) <= MaxPolls
    /\ formMode \in Modes /\ typed \in 0 .. MostHeld
    /\ balance \in (0 .. MostHeld) \cup {Unread}

FormInit ==
    /\ now = 0 /\ closesAt = WindowTicks /\ maturities = << >>
    /\ pausedNow = FALSE
    /\ polls = <<Blank>> /\ seen = Blank
    /\ formMode = "stake" /\ typed = 0 /\ balance = Unread
    /\ request = Unread /\ told = Unread

-----------------------------------------------------------------------------
(* The chain, as far as the form meets it.                                 *)

FormTick ==
    /\ now < Horizon /\ now' = now + 1
    /\ UNCHANGED <<closesAt, maturities, pausedNow, polls, seen, formMode,
                   typed, balance, request, told>>

CloseWindow ==
    /\ closesAt' = now + WindowTicks
    /\ maturities' = Append(maturities, now + UnbondTicks)

\* Somebody closes the window; the keeper, or another user's transaction.
WindowCloses ==
    /\ now >= closesAt /\ CloseWindow
    /\ UNCHANGED <<now, pausedNow, polls, seen, formMode, typed, balance,
                   request, told>>

\* The manager pauses or resumes deposits.
PauseSwitched ==
    /\ pausedNow' = ~pausedNow
    /\ UNCHANGED <<now, closesAt, maturities, polls, seen, formMode, typed,
                   balance, request, told>>

\* A deposit or a request also closes the window, when it is overdue and slots
\* of the validators are free; the request has joined it by then.
RideAlong ==
    \/ now >= closesAt /\ CloseWindow
    \/ UNCHANGED <<closesAt, maturities>>

-----------------------------------------------------------------------------
(* Reading the protocol.                                                   *)

Poll ==
    /\ Len(polls) < MaxPolls
    /\ polls' = Append(polls, Blank)
    /\ UNCHANGED <<contractSide, seen, formMode, typed, balance, request, told>>

\* The node answers the queries of one refresh.
PollAnswers ==
    /\ \E i \in DOMAIN polls :
        /\ polls[i] = Blank
        /\ polls' = [polls EXCEPT ![i] = [paused |-> pausedNow, window |-> OpenWindow]]
    /\ UNCHANGED <<contractSide, seen, formMode, typed, balance, request, told>>

\* In any order: a slow refresh sets what a faster one has already replaced.
PollLands ==
    /\ \E i \in DOMAIN polls :
        /\ polls[i] # Blank
        /\ seen' = polls[i] /\ polls' = RemoveAt(polls, i)
    /\ UNCHANGED <<contractSide, formMode, typed, balance, request, told>>

\* The screen keeps its last good figures.
PollFails ==
    /\ \E i \in DOMAIN polls : polls' = RemoveAt(polls, i)
    /\ UNCHANGED <<contractSide, seen, formMode, typed, balance, request, told>>

-----------------------------------------------------------------------------
(* Filling the form.                                                       *)

OnlyForm == UNCHANGED <<contractSide, polls, seen, request, told>>

SetFormMode ==
    /\ formMode' \in Modes \ {formMode} /\ balance' = Unread
    /\ OnlyForm /\ UNCHANGED typed

\* It is read once for each mode, and not again after a transaction.
BalanceRead ==
    /\ balance = Unread /\ balance' \in 0 .. MostHeld
    /\ OnlyForm /\ UNCHANGED <<formMode, typed>>

TypeAmount ==
    /\ typed' \in (0 .. MostHeld) \ {typed}
    /\ OnlyForm /\ UNCHANGED <<formMode, balance>>

\* A share of the balance; all of it, without the reserve when it is staked.
ShareOf(all) ==
    IF ~all THEN balance \div 2
    ELSE IF formMode = "unstake" THEN balance
    ELSE IF balance > Reserve THEN balance - Reserve ELSE 0

PressShare ==
    /\ balance \notin {Unread, 0}
    /\ \E all \in BOOLEAN : typed' = ShareOf(all)
    /\ OnlyForm /\ UNCHANGED <<formMode, balance>>

-----------------------------------------------------------------------------
(* Sending it.                                                             *)

OverBalance == balance # Unread /\ typed > balance

Disabled ==
    \/ typed = 0 \/ request # Unread \/ OverBalance
    \/ formMode = "stake" /\ seen.paused = TRUE

(* Mutated form of Maturity: a whole window is reckoned from the click.    *)
MaturityFromNow ==
    IF seen.window = Unread THEN Unread
    ELSE [window |-> seen.window.id, date |-> now + WindowTicks + UnbondTicks]

\* When a withdrawal requested now would pay out, from the last good figures.
Maturity ==
    IF seen.window = Unread THEN Unread
    ELSE [window |-> seen.window.id, date |-> seen.window.closes + UnbondTicks]

PressSubmit ==
    /\ ~Disabled
    /\ request' = [mode |-> formMode, maturity |-> Maturity]
    /\ UNCHANGED <<contractSide, polls, seen, formMode, typed, balance, told>>

\* The transaction is in: the form is emptied, whatever it holds by now, and the
\* protocol is read again.
SubmitLands ==
    /\ request # Unread
    /\ request.mode = "stake" => ~pausedNow
    /\ RideAlong
    /\ told' = IF request.mode = "stake" \/ request.maturity = Unread THEN told
               ELSE [joined |-> OpenWindow.id, maturity |-> request.maturity]
    /\ typed' = 0 /\ request' = Unread
    /\ Len(polls) < MaxPolls /\ polls' = Append(polls, Blank)
    /\ UNCHANGED <<now, pausedNow, seen, formMode, balance>>

\* Refused in the wallet or by the chain, or never included.
SubmitFails ==
    /\ request # Unread /\ request' = Unread
    /\ UNCHANGED <<contractSide, polls, seen, formMode, typed, balance, told>>

FormNext ==
    \/ FormTick \/ WindowCloses \/ PauseSwitched
    \/ Poll \/ PollAnswers \/ PollLands \/ PollFails
    \/ SetFormMode \/ BalanceRead \/ TypeAmount \/ PressShare
    \/ PressSubmit \/ SubmitLands \/ SubmitFails

FormSpec == FormInit /\ [][FormNext]_formVars

-----------------------------------------------------------------------------
(* Properties.                                                             *)

\* The date told to whoever requests a withdrawal (page.tsx:115-122, 166-173)
\* is never later than the money is there: it may be the date of a window that
\* closed before the request got in, or that closes late, but nobody is kept
\* from a claim that has matured already.
DateToldIsEarliest ==
    told # Unread =>
        /\ told.maturity.window <= told.joined
        /\ told.maturity.date <= IF told.joined <= Len(maturities)
                                 THEN maturities[told.joined]
                                 ELSE closesAt + UnbondTicks
=============================================================================
