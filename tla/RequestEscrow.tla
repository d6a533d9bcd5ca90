--------------------------- MODULE RequestEscrow ---------------------------
(***************************************************************************)
(* What the TownCrier contract promises to those who use it, seen at the   *)
(* boundaries of transactions: every request is a small escrow with a      *)
(* one-way life.  Ids are issued one after the other.  A response closes   *)
(* one request per transaction, and the ether held for a request only ever *)
(* goes down, to nothing when the request is closed.                       *)
(*                                                                         *)
(*     none --> open --> answered      (one callback)                      *)
(*       \       |                                                         *)
(*        `------+-----> cancelled --> settled     (no callback)           *)
(***************************************************************************)
EXTENDS Integers

CONSTANT Ids          \* the request ids that may be issued: 1..n

VARIABLES
    status,           \* where in its life each request is
    held              \* the wei held for each request

escrowVars == <<status, held>>

Statuses == {"none", "open", "cancelled", "answered", "settled"}

Init ==
    /\ status = [id \in Ids |-> "none"]
    /\ held = [id \in Ids |-> 0]

Same(id) == status'[id] = status[id] /\ held'[id] = held[id]

\* Paid for, and perhaps cancelled at once by the same transaction.
Submitted(id) ==
    /\ status[id] = "none"
    /\ status'[id] \in {"open", "cancelled"}
    /\ held'[id] > 0

\* Cancelled: a part of the fee stays, to pay for the response.
Withdrawn(id) ==
    /\ status[id] = "open"
    /\ status'[id] = "cancelled"
    /\ held'[id] \in 1..held[id]

Closed(id) ==
    /\ \/ status[id] = "open" /\ status'[id] = "answered"
       \/ status[id] = "cancelled" /\ status'[id] = "settled"
    /\ held'[id] = 0

\* A requester's transaction; its callees may make further requests.
RequesterTx == \A id \in Ids : Same(id) \/ Submitted(id) \/ Withdrawn(id)

\* A response leaves every other request as it was.
ResponseTx(id) == Closed(id) /\ \A other \in Ids \ {id} : Same(other)

InOrder(s) == \A i, j \in Ids : i < j /\ s[j] # "none" => s[i] # "none"

Next ==
    /\ RequesterTx \/ \E id \in Ids : ResponseTx(id)
    /\ InOrder(status')

Spec == Init /\ [][Next]_escrowVars
=============================================================================
