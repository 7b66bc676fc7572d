-------------------------- MODULE WithdrawalQueue ---------------------------
(***************************************************************************)
(* What the protocol promises somebody who leaves, whatever the staking    *)
(* module, the prices and the other users do.  A request is a receipt for  *)
(* a fixed amount on the open batch.  A sealed batch takes no more         *)
(* requests, comes back once, as its promise or less, and then pays each   *)
(* receipt once, its share of what came back.                              *)
(***************************************************************************)
EXTENDS Naturals

CONSTANTS
    Users,
    None        \* `returned` before the batch comes back

VARIABLES
    open,       \* the batch that takes requests
    batches,    \* by id: what is owed, what came back, what was paid
    receipts    \* per user, by batch: the amount, and whether it was paid

vars == <<open, batches, receipts>>

Init ==
    /\ open = 0
    /\ batches = [id \in {0} |-> [owed |-> 0, returned |-> None, paid |-> 0]]
    /\ receipts = [u \in Users |-> [id \in {} |-> {}]]

\* The next batch opens; the one before may come back at once only if empty.
Sealed(before) ==
    /\ open' = open + 1
    /\ \E sealed \in {before[open]} \cup
            (IF before[open].owed = 0 THEN {[before[open] EXCEPT !.returned = 0]} ELSE {}) :
         batches' = [id \in DOMAIN before \cup {open'} |->
            CASE id = open' -> [owed |-> 0, returned |-> None, paid |-> 0]
              [] id = open  -> sealed
              [] OTHER      -> before[id]]

Seal == Sealed(batches) /\ UNCHANGED receipts

\* The amount is whatever the receipt has grown by.
Request(u) ==
    LET was  == IF open \in DOMAIN receipts[u] THEN receipts[u][open].owed ELSE 0
        owed == receipts'[u][open].owed - was
        joined == [batches EXCEPT ![open].owed = @ + owed]
    IN  /\ open \in DOMAIN receipts'[u]
        /\ owed > 0
        /\ receipts' = [receipts EXCEPT ![u] =
                [id \in DOMAIN receipts[u] \cup {open} |->
                    IF id = open THEN [owed |-> was + owed, paid |-> FALSE]
                    ELSE receipts[u][id]]]
        /\ \/ batches' = joined /\ UNCHANGED open
           \/ Sealed(joined)

\* A batch as it was, or come back in this step.
Returns(id) ==
    \/ batches'[id].returned = batches[id].returned
    \/ /\ id < open
       /\ batches[id].returned = None
       /\ batches'[id].returned \in 0 .. batches[id].owed

Arrive ==
    /\ DOMAIN batches' = DOMAIN batches
    /\ \A id \in DOMAIN batches :
         /\ Returns(id)
         /\ batches'[id] = [batches[id] EXCEPT !.returned = batches'[id].returned]
    /\ UNCHANGED <<open, receipts>>

\* The receipt's share of what came back, rounded in favour of the others.
Share(batch, owed) ==
    IF batch.owed = 0 THEN 0 ELSE (owed * batch.returned) \div batch.owed

\* The receipts of u that are paid in this step.
Paying(u) ==
    {id \in DOMAIN receipts[u] : receipts'[u][id].paid /\ ~receipts[u][id].paid}

Settle(u) ==
    /\ DOMAIN receipts'[u] = DOMAIN receipts[u]
    /\ Paying(u) # {}
    /\ receipts' = [receipts EXCEPT ![u] =
            [id \in DOMAIN receipts[u] |->
                [receipts[u][id] EXCEPT !.paid = @ \/ id \in Paying(u)]]]
    /\ DOMAIN batches' = DOMAIN batches
    /\ \A id \in DOMAIN batches :
         LET due == IF id \notin Paying(u) THEN 0
                    ELSE Share(batches'[id], receipts[u][id].owed)
         IN  /\ Returns(id)
             /\ id \in Paying(u) => batches'[id].returned # None
             /\ batches'[id] = [batches[id] EXCEPT
                    !.returned = batches'[id].returned, !.paid = @ + due]
             /\ id \in Paying(u) => batches'[id].paid <= batches'[id].returned
    /\ UNCHANGED open

Next ==
    \/ Seal \/ Arrive
    \/ \E u \in Users : Request(u) \/ Settle(u)

Spec == Init /\ [][Next]_vars
=============================================================================
