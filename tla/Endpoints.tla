----------------------------- MODULE Endpoints -----------------------------
(***************************************************************************)
(* The choice of a node (app/src/lib/endpoint.ts, app/src/components/      *)
(* Settings.tsx): one choice and one list of custom nodes in storage,      *)
(* shared by every tab of the browser, and a list on each tab's screen     *)
(* that was read from it once.                                             *)
(*                                                                         *)
(* Verdicts on the nodes are left out: a check that failed only disables   *)
(* "Use", and while a check is under way every listed node may be taken.   *)
(***************************************************************************)
EXTENDS Naturals, Sequences, FiniteSets, SequencesExt

CONSTANTS
    Nodes,          \* the custom nodes that can be named
    DefaultNode,    \* DEPLOYMENT.lcdUrl
    MaxCustom,      \* custom nodes that are kept (8)
    Tabs

ASSUME EndpointAssumption == MaxCustom \in Nat \ {0}

VARIABLES
    chosen,     \* the custom node under STORAGE_KEY, or the default
    custom,     \* the list under CUSTOM_KEY, latest first
    current,    \* the node that each tab's settings call "in use"
    listed,     \* the nodes that each tab's settings list
    forgotten   \* the chosen node has been removed from the list

endpointVars == <<chosen, custom, current, listed, forgotten>>

Named == Nodes \cup {DefaultNode}

EndpointTypeOK ==
    /\ chosen \in Named /\ custom \in Seq(Nodes)
    /\ current \in [Tabs -> Named] /\ listed \in [Tabs -> SUBSET Named]
    /\ forgotten \in BOOLEAN

EndpointInit ==
    /\ chosen = DefaultNode /\ custom = << >> /\ forgotten = FALSE
    /\ current = [t \in Tabs |-> DefaultNode]
    /\ listed = [t \in Tabs |-> {DefaultNode}]

\* The settings mount, in a tab that was just loaded or where they were closed.
Mounts(t, node, list) ==
    /\ current' = [current EXCEPT ![t] = node]
    /\ listed' = [listed EXCEPT ![t] = {DefaultNode} \cup Range(list)]

OpenSettings(t) ==
    /\ Mounts(t, chosen, custom)
    /\ UNCHANGED <<chosen, custom, forgotten>>

\* Only this tab's list: a node is remembered once it is used.
AddNode(t) ==
    /\ \E n \in Named : listed' = [listed EXCEPT ![t] = @ \cup {n}]
    /\ UNCHANGED <<chosen, custom, current, forgotten>>

FirstOf(list) == SubSeq(list, 1, IF Len(list) < MaxCustom THEN Len(list) ELSE MaxCustom)

\* The list without n, in its order.
Without(list, n) ==
    LET kept == {i \in DOMAIN list : list[i] # n}
        Kept(k) == CHOOSE i \in kept : Cardinality({j \in kept : j <= i}) = k
    IN  [k \in 1 .. Cardinality(kept) |-> list[Kept(k)]]

(* Mutated form of Remembering: the newest goes to the end of the list.    *)
RememberingLast(n) == FirstOf(Without(custom, n) \o <<n>>)

Remembering(n) == FirstOf(<<n>> \o Without(custom, n))

\* The page is loaded again: only the storage is kept.
UseNode(t) ==
    \E n \in listed[t] :
        /\ n # current[t]
        /\ chosen' = n
        /\ custom' = IF n = DefaultNode THEN custom ELSE Remembering(n)
        /\ forgotten' = FALSE
        /\ Mounts(t, chosen', custom')

\* Not the node that this tab calls "in use".
ForgetNode(t) ==
    \E n \in listed[t] \ {DefaultNode, current[t]} :
        /\ custom' = Without(custom, n)
        /\ listed' = [listed EXCEPT ![t] = @ \ {n}]
        /\ forgotten' = (forgotten \/ n = chosen)
        /\ UNCHANGED <<chosen, current>>

EndpointNext ==
    \E t \in Tabs :
        \/ OpenSettings(t) \/ AddNode(t) \/ UseNode(t) \/ ForgetNode(t)

EndpointSpec == EndpointInit /\ [][EndpointNext]_endpointVars

-----------------------------------------------------------------------------
(* Properties.                                                             *)

\* The node that is used is always on the list that the settings will show, so
\* that it can be seen and checked there, unless another tab removed it; and
\* the list names no node twice, within its limit.
ChosenIsListed ==
    /\ chosen \notin Range(custom) \cup {DefaultNode} => forgotten
    /\ Len(custom) <= MaxCustom
    /\ IsInjective(custom)
=============================================================================
