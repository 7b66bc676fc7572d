-------------------------------- MODULE App --------------------------------
(***************************************************************************)
(* The web application in one browser tab (app/src/app): a page is open,   *)
(* and what it keeps is its own.  The pages are independent of each other: *)
(* leaving one throws its state away, and what they share - the contract   *)
(* and the chain - each sees changed by others at any moment.  The stake   *)
(* page comes twice: with its wallet session, and with its form.           *)
(***************************************************************************)
EXTENDS WalletSession, StakeForm, UpkeepPage, ManagerConsole, ChartHistory, Endpoints

CONSTANTS v1, v2

VARIABLE page

Pages == {"stake", "form", "keeper", "governance", "statistics", "settings"}

appVars == <<page, sessionVars, formVars, upkeepVars, consoleVars, chartVars,
             endpointVars>>

\* Two validators, and the splits of another tab.
TwoListed == <<v1, v2>>
TwoSplits == {<<5000, 5000>>, <<4000, 6000>>}

\* A range shorter than the chain, and one that reaches back beyond the contract.
ShortAndLong == {"24h", "7d"}
BlocksOf(r) == IF r = "24h" THEN 2 ELSE 4

AppInit ==
    /\ page \in Pages
    /\ SessionInit /\ FormInit /\ UpkeepInit /\ ConsoleInit /\ ChartInit
    /\ EndpointInit
    \* One initial state is enough for the pages that are not open.
    /\ page # "stake" => view = "balance" /\ selected = CHOOSE a \in Accounts : TRUE
    /\ page # "stake" => remembered = None
    /\ page # "statistics" => shipped = 1 /\ range = "24h"
    /\ page # "governance" => contract.weights = <<5000, 5000>>

StakePage ==
    /\ page = "stake" /\ SessionNext
    /\ UNCHANGED <<page, formVars, upkeepVars, consoleVars, chartVars, endpointVars>>

StakePageForm ==
    /\ page = "form" /\ FormNext
    /\ UNCHANGED <<page, sessionVars, upkeepVars, consoleVars, chartVars, endpointVars>>

KeeperPage ==
    /\ page = "keeper" /\ UpkeepNext
    /\ UNCHANGED <<page, sessionVars, formVars, consoleVars, chartVars, endpointVars>>

GovernancePage ==
    /\ page = "governance" /\ ConsoleNext
    /\ UNCHANGED <<page, sessionVars, formVars, upkeepVars, chartVars, endpointVars>>

StatisticsPage ==
    /\ page = "statistics" /\ ChartNext
    /\ UNCHANGED <<page, sessionVars, formVars, upkeepVars, consoleVars, endpointVars>>

SettingsPanel ==
    /\ page = "settings" /\ EndpointNext
    /\ UNCHANGED <<page, sessionVars, formVars, upkeepVars, consoleVars, chartVars>>

AppNext ==
    \/ StakePage \/ StakePageForm \/ KeeperPage \/ GovernancePage
    \/ StatisticsPage \/ SettingsPanel

AppSpec == AppInit /\ [][AppNext]_appVars

\* The type invariants of the pages together: what each page keeps stays of its
\* type, whatever arrives late (all of app/src/app).
AppTypeOK ==
    /\ SessionTypeOK /\ FormTypeOK /\ UpkeepTypeOK /\ ConsoleTypeOK /\ ChartTypeOK
    /\ EndpointTypeOK
=============================================================================
