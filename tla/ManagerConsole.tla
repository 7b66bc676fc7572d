--------------------------- MODULE ManagerConsole ---------------------------
(***************************************************************************)
(* The manager's console (app/src/app/governance/page.tsx, the manager     *)
(* actions of app/src/lib/protocol.ts): a form filled from one reading of  *)
(* the contract, checked on the screen and judged again by the contract,   *)
(* which other tabs and a vote may have changed in between.                *)
(*                                                                         *)
(* What is typed is a percentage, finer than the basis points that are     *)
(* sent: a number is counted in fifths of a basis point (0.002 %), so that *)
(* roundings are seen and none is of exactly one half.                     *)
(***************************************************************************)
EXTENDS ValidatorSet

CONSTANTS
    Listed,             \* validator_allowlist, in its order
    MaxWeight,          \* limits.max_validator_weight_bps
    InitialMaxFee,      \* limits.max_performance_fee_bps
    MigratedMaxFee      \* ... of the next code version

\* Bounds of the model: what is typed, and what other tabs set.
CONSTANTS TypedWeights, TypedFees, OtherWeights, OtherFees

\* The allowlist names nobody twice: a deployment sees to it, not the contract.
ASSUME ConsoleConstants ==
    /\ Listed \in Seq(Validators) /\ IsInjective(Listed)
    /\ MaxWeight \in Nat /\ InitialMaxFee \in Nat /\ MigratedMaxFee \in Nat
    /\ TypedWeights \subseteq Nat /\ TypedFees \subseteq Nat /\ OtherFees \subseteq Nat
    /\ OtherWeights \subseteq [DOMAIN Listed -> Nat]

VARIABLES
    contract,   \* fee, its limit, paused, and each listed validator's weight and stake
    phase,      \* "loading" at first; then "ready", "sent", or "refreshing"
    answered,   \* the queries of the refresh under way that have answered ...
    incoming,   \* ... and what they have brought, over the reading before
    onScreen,   \* the reading on the screen; nobody sees it while "loading"
    form,       \* the weights typed
    sent        \* the message in flight

consoleVars == <<contract, phase, answered, incoming, onScreen, form, sent>>

Places == DOMAIN Listed

GrainsPerBp == 5

\* Math.round(percent * 100).
Rounded(grains) == (2 * grains + GrainsPerBp) \div (2 * GrainsPerBp)

Contract == [fee : Nat, maxFee : Nat, paused : BOOLEAN,
             weights : [Places -> Nat], bonded : [Places -> Nat]]

Readings == {"config", "validators"}

Silence == [kind |-> "none"]

Messages ==
    {Silence} \cup
    [kind : {"weights"}, grains : [Places -> Nat]] \cup
    [kind : {"fee"}, bps : Nat] \cup [kind : {"paused"}, paused : BOOLEAN] \cup
    [kind : {"plan"}, from : Places, to : Places, amount : Nat]

ConsoleTypeOK ==
    /\ {contract, incoming, onScreen} \subseteq Contract
    /\ phase \in {"loading", "ready", "sent", "refreshing"}
    /\ answered \subseteq Readings
    /\ form \in [Places -> Nat] /\ sent \in Messages

ConsoleInit ==
    /\ contract \in [fee : OtherFees, maxFee : {InitialMaxFee}, paused : {FALSE},
                     weights : OtherWeights, bonded : {[i \in Places |-> 1]}]
    /\ phase = "loading" /\ answered = {}
    /\ onScreen = contract /\ incoming = contract /\ form = [i \in Places |-> 0] /\ sent = Silence

-----------------------------------------------------------------------------
(* Reading.                                                                *)

\* Two queries, answered at moments of their own and shown together.  Showing
\* them fills the form again, whatever has been typed.
Answer(query) ==
    LET seen == IF query = "config"
                THEN [incoming EXCEPT !.fee = contract.fee, !.maxFee = contract.maxFee,
                                      !.paused = contract.paused]
                ELSE [incoming EXCEPT !.weights = contract.weights,
                                      !.bonded = contract.bonded]
    IN  /\ query \notin answered
        /\ incoming' = seen
        /\ IF answered \cup {query} = Readings
           THEN /\ answered' = {} /\ phase' = "ready"
                /\ onScreen' = seen
                /\ form' = [i \in Places |-> GrainsPerBp * seen.weights[i]]
           ELSE /\ answered' = answered \cup {query}
                /\ UNCHANGED <<phase, onScreen, form>>

ConsoleReads ==
    /\ phase \in {"loading", "refreshing"}
    /\ \E query \in Readings : Answer(query)
    /\ UNCHANGED <<contract, sent>>

\* A refresh that fails keeps what was shown; the first is not tried again.
RefreshFailed ==
    /\ phase = "refreshing"
    /\ phase' = "ready" /\ answered' = {} /\ incoming' = onScreen
    /\ UNCHANGED <<contract, onScreen, form, sent>>

-----------------------------------------------------------------------------
(* Typing and sending.                                                     *)

TypeWeight ==
    /\ phase # "loading"
    /\ \E i \in Places, grains \in TypedWeights : form' = [form EXCEPT ![i] = grains]
    /\ UNCHANGED <<contract, phase, answered, incoming, onScreen, sent>>

(* Mutated form of WeightsValid: the ceiling is not looked at.             *)
WeightsValidBySum(grains) == Rounded(SumFunction(grains)) = BPS_DENOM

\* The sum is rounded once; every entry is rounded by itself when it is sent.
WeightsValid(grains) ==
    /\ Rounded(SumFunction(grains)) = BPS_DENOM
    /\ \A i \in Places : grains[i] <= GrainsPerBp * MaxWeight

\* A button is dead while a transaction or the refresh after it is under way.
Send(message) ==
    /\ phase = "ready"
    /\ sent' = message /\ phase' = "sent"
    /\ UNCHANGED <<contract, answered, incoming, onScreen, form>>

PressWeights ==
    /\ WeightsValid(form)
    /\ Send([kind |-> "weights", grains |-> form])

PressFee ==
    \E grains \in TypedFees :
        /\ grains <= GrainsPerBp * onScreen.maxFee
        /\ Send([kind |-> "fee", bps |-> Rounded(grains)])

\* The message carries what the label says, and does not toggle.
PressPause == Send([kind |-> "paused", paused |-> ~onScreen.paused])

PressRedelegate ==
    \E i, j \in Places, amount \in 1 .. 2 :
        /\ onScreen.bonded[i] # 0
        /\ Send([kind |-> "plan", from |-> i, to |-> j, amount |-> amount])

-----------------------------------------------------------------------------
(* The contract.                                                           *)

BpsOf(grains) ==
    [i \in Places |-> [address |-> Listed[i], weight |-> Rounded(grains[i])]]

Acceptable(message) ==
    CASE message.kind = "weights" ->
            ValidateManagedWeights(BpsOf(message.grains),
                                   {Listed[i] : i \in Places}, MaxWeight)
      [] message.kind = "fee"     -> message.bps <= contract.maxFee
      [] message.kind = "paused"  -> TRUE
      [] message.kind = "plan"    -> /\ message.from # message.to
                                     /\ message.amount <= contract.bonded[message.from]

After(message) ==
    CASE message.kind = "weights" ->
            [contract EXCEPT !.weights = [i \in Places |-> Rounded(message.grains[i])]]
      [] message.kind = "fee"     -> [contract EXCEPT !.fee = message.bps]
      [] message.kind = "paused"  -> [contract EXCEPT !.paused = message.paused]
      [] message.kind = "plan"    ->
            [contract EXCEPT !.bonded[message.from] = @ - message.amount,
                             !.bonded[message.to] = @ + message.amount]

\* A success is followed by a refresh, under which the buttons stay dead.
MessageAccepted ==
    /\ phase = "sent" /\ Acceptable(sent)
    /\ contract' = After(sent)
    /\ phase' = "refreshing" /\ sent' = Silence
    /\ UNCHANGED <<answered, incoming, onScreen, form>>

MessageRefused ==
    /\ phase = "sent" /\ ~Acceptable(sent)
    /\ phase' = "ready" /\ sent' = Silence
    /\ UNCHANGED <<contract, answered, incoming, onScreen, form>>

\* Refused in the wallet, or never included.
MessageLost ==
    /\ phase = "sent" /\ phase' = "ready" /\ sent' = Silence
    /\ UNCHANGED <<contract, answered, incoming, onScreen, form>>

\* The same manager in another tab, or a vote that brings the next code version.
ContractChanges ==
    /\ \/ \E w \in OtherWeights : contract' = [contract EXCEPT !.weights = w]
       \/ \E f \in OtherFees : contract' = [contract EXCEPT !.fee = f]
       \/ contract' = [contract EXCEPT !.paused = ~@]
       \/ contract' = [contract EXCEPT !.maxFee = MigratedMaxFee]
    /\ UNCHANGED <<phase, answered, incoming, onScreen, form, sent>>

ConsoleNext ==
    \/ ConsoleReads \/ RefreshFailed \/ TypeWeight
    \/ PressWeights \/ PressFee \/ PressPause \/ PressRedelegate
    \/ MessageAccepted \/ MessageRefused \/ MessageLost \/ ContractChanges

ConsoleSpec == ConsoleInit /\ [][ConsoleNext]_consoleVars

-----------------------------------------------------------------------------
(* Properties.                                                             *)

\* "The screen enforces the same bounds up front" (governance/page.tsx:385): a
\* fee is refused only when the limit has changed since it was read, and
\* weights only when one was typed finer than a basis point.
BoundsEnforcedUpFront ==
    [][MessageRefused =>
          /\ sent.kind = "fee" => onScreen.maxFee # contract.maxFee
          /\ sent.kind = "weights" =>
                \E i \in Places : sent.grains[i] % GrainsPerBp # 0]_consoleVars
=============================================================================
