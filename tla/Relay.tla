------------------------------- MODULE Relay -------------------------------
(***************************************************************************)
(* The relay (python-relay/relay.py) between the TownCrier contract, an    *)
(* Ethereum node and the Town Crier server.                                *)
(*                                                                         *)
(* The relay is one sequential process.  With --catchup it first answers   *)
(* the requests logged up to the current block; then it polls an event     *)
(* filter of the node.  Each request goes to the server, together with the *)
(* nonce of the SGX wallet, and the transaction that comes back is sent to *)
(* the node; the relay waits for its receipt before it goes on.            *)
(*                                                                         *)
(* Of the contract only where each request is in its life appears, which   *)
(* TownCrier models.  The node, the network of miners and the server are   *)
(* external: they are modelled from what the relay's calls may return.     *)
(* A call of the server goes on when the relay that made it is gone, and   *)
(* shares the buffer of later calls (see NoStaleTransaction of Server).    *)
(* Every mined transaction is a block of its own.                          *)
(***************************************************************************)
EXTENDS Integers, FiniteSetsExt

CONSTANTS
    MaxRequests,   \* bound: requests made
    MaxFaults,     \* bound: crashes, failing calls, lost transactions
    Catchups,      \* whether the operator starts the relay with --catchup
    Funds,         \* transactions the SGX wallet can pay for
    Failing        \* the requests for which the enclave returns an error

Ids == 1..MaxRequests

ASSUME RelayAssumption ==
    /\ MaxRequests \in Nat
    /\ MaxFaults \in Nat
    /\ Funds \in Nat
    /\ Failing \subseteq Ids
    /\ Catchups \subseteq BOOLEAN

VARIABLES
    status,        \* the contract: where in its life each request is
    nonce,         \* the chain: transactions of the SGX wallet mined
    mempool,       \* the node: transactions of the SGX wallet not yet mined
    filter,        \* the node: events the filter has returned, or NoFilter
    relay,         \* the relay process
    running,       \* the server: what calls of relays that are gone will make
    faults,        \* bound: faults so far
    log            \* history: what happened to each request

vars == <<status, nonce, mempool, filter, relay, running, faults, log>>

NoFilter == -1

\* A transaction is identified by its content, as by its hash.
Tx == [id: Ids, nonce: Nat]
NoTx == [id |-> 0, nonce |-> 0]

\* `mode` is the function the relay runs, `batch` the requests left of its
\* loop over log entries, which come in the order of the ids, one for each
\* id; `upto` and `answered` are what catchup asks the node about, and
\* `nonce` and `tx` the local variables of handle_request_event.
RelayState ==
    [pc: {"down", "start", "create", "poll", "nonce", "process", "send", "wait"},
     mode: {"catchup", "watch"}, batch: SUBSET Ids, upto: 0..MaxRequests,
     answered: SUBSET Ids, nonce: Nat, tx: Tx \cup {NoTx}]

\* `handled`: times this run of the relay passed the request to the server.
\* `mined`: its deliver transactions on the chain, failed ones included.
\* `seen`: the server got it.  `caughtUp`: the last request that a finished
\* catchup covered.  `crossed`: this run of the relay got the transaction of
\* another request for it.
Log == [handled: [Ids -> Nat], mined: [Ids -> Nat], seen: SUBSET Ids,
        caughtUp: 0..MaxRequests, crossed: SUBSET Ids]

Logged == {id \in Ids : status[id] # "none"}
LogLength == Cardinality(Logged)
Unresponded == {id \in Ids : status[id] \in {"open", "cancelled"}}
Answered == {id \in Ids : status[id] = "answered"}

Down == [pc |-> "down", mode |-> "watch", batch |-> {}, upto |-> 0,
         answered |-> {}, nonce |-> 0, tx |-> NoTx]

Init ==
    /\ status = [id \in Ids |-> "none"]
    /\ nonce = 0
    /\ mempool = {}
    /\ filter = NoFilter
    /\ relay = Down
    /\ running = {}
    /\ faults = 0
    /\ log = [handled |-> [id \in Ids |-> 0], mined |-> [id \in Ids |-> 0],
              seen |-> {}, caughtUp |-> 0, crossed |-> {}]

Fault == faults < MaxFaults /\ faults' = faults + 1
-----------------------------------------------------------------------------
(* The contract and the chain.                                             *)

Request(id) ==
    /\ status[id] = "none"
    /\ id = LogLength + 1
    /\ status' = [status EXCEPT ![id] = "open"]
    /\ UNCHANGED <<nonce, mempool, filter, relay, running, faults, log>>

Cancel(id) ==
    /\ status[id] = "open"
    /\ status' = [status EXCEPT ![id] = "cancelled"]
    /\ UNCHANGED <<nonce, mempool, filter, relay, running, faults, log>>

\* deliver: a cancelled request is settled without an event DeliverInfo; a
\* response to a request that was responded to is discarded.
Delivered(s) == CASE s = "open"      -> "answered"
                  [] s = "cancelled" -> "settled"
                  [] OTHER           -> s

Mined(tx) ==
    /\ tx \in mempool /\ tx.nonce = nonce
    /\ mempool' = mempool \ {tx}
    /\ nonce' = nonce + 1
    /\ log' = [log EXCEPT !.mined[tx.id] = @ + 1]

Mine(tx) ==
    /\ Mined(tx)
    /\ status' = [status EXCEPT ![tx.id] = Delivered(@)]
    /\ UNCHANGED <<filter, relay, running, faults>>

\* deliver runs out of gas: the transaction is mined without an effect.
MineReverted(tx) ==
    /\ Fault
    /\ Mined(tx)
    /\ UNCHANGED <<status, filter, relay, running>>

\* The network forgets a transaction.
Drop(tx) ==
    /\ Fault
    /\ tx \in mempool
    /\ mempool' = mempool \ {tx}
    /\ UNCHANGED <<status, nonce, filter, relay, running, log>>

\* The node retires the filter.
Retire ==
    /\ Fault
    /\ filter # NoFilter
    /\ filter' = NoFilter
    /\ UNCHANGED <<status, nonce, mempool, relay, running, log>>
-----------------------------------------------------------------------------
(* The relay.                                                              *)

RelayStep == UNCHANGED <<status, nonce, mempool, filter, running, faults>>

\* After a request, or when the loop over the log entries starts.
Continue(r, batch) ==
    [r EXCEPT !.batch = batch, !.tx = NoTx,
              !.pc = IF batch # {} THEN "nonce"
                     ELSE IF r.mode = "catchup" THEN "create" ELSE "poll"]

\* catchup is done, unless r still has requests to handle.
CaughtUp(r) ==
    IF r.pc = "create" /\ r.mode = "catchup"
    THEN [log EXCEPT !.caughtUp = r.upto] ELSE log

\* main with or without --catchup; the current block is read at once.
Start(catchup) ==
    /\ relay.pc = "down"
    /\ relay' = [Down EXCEPT !.pc = IF catchup THEN "start" ELSE "create",
                             !.mode = IF catchup THEN "catchup" ELSE "watch",
                             !.upto = IF catchup THEN LogLength ELSE 0,
                             !.answered = IF catchup THEN Answered ELSE {}]
    /\ log' = [log EXCEPT !.handled = [id \in Ids |-> 0], !.caughtUp = 0,
                         !.crossed = {}]
    /\ RelayStep

\* Mutant of Missing: cancelled requests are left out.
MissingUncancelled(upto, answered) ==
    {id \in 1..upto : id \notin answered /\ status[id] # "cancelled"}

\* Mutant of Missing: answered requests are handled again.
MissingAll(upto, answered) == 1..upto

\* The requests up to the block `upto` without a DeliverInfo up to it.
Missing(upto, answered) == (1..upto) \ answered

\* catchup: unrespondedCnt is that of the latest block, not of `upto`.
Catchup ==
    /\ relay.pc = "start"
    /\ LET batch == IF Unresponded = {} THEN {}
                    ELSE Missing(relay.upto, relay.answered)
           r == Continue(relay, batch)
       IN  relay' = r /\ log' = CaughtUp(r)
    /\ RelayStep

\* Mutant of NewFilter: the filter starts with the first block.
NewFilterFromStart == 0

\* The filter starts with the latest block: it returns later events only.
NewFilter == LogLength

\* wait_for_requests creates its filter.
CreateFilter ==
    /\ relay.pc = "create"
    /\ filter' = NewFilter
    /\ relay' = [relay EXCEPT !.pc = "poll", !.mode = "watch"]
    /\ UNCHANGED <<status, nonce, mempool, running, faults, log>>

\* get_new_entries: the events since the last call.
Poll ==
    /\ relay.pc = "poll"
    /\ filter # NoFilter
    /\ relay' = Continue(relay, (filter + 1)..LogLength)
    /\ filter' = LogLength
    /\ UNCHANGED <<status, nonce, mempool, running, faults, log>>

\* "filter not found": a new filter is created.
PollRetired ==
    /\ relay.pc = "poll"
    /\ filter = NoFilter
    /\ filter' = NewFilter
    /\ UNCHANGED <<status, nonce, mempool, relay, running, faults, log>>

\* Mutant of WalletNonce: the transactions in the mempool count.
WalletNoncePending == nonce + Cardinality(mempool)

\* getTransactionCount as of the latest block.
WalletNonce == nonce

ReadNonce ==
    /\ relay.pc = "nonce"
    /\ relay' = [relay EXCEPT !.pc = "process", !.nonce = WalletNonce]
    /\ UNCHANGED log
    /\ RelayStep

\* The request of the log entry that the loop is at.
Current == Min(relay.batch)

Own == [id |-> Current, nonce |-> relay.nonce]

\* What the relay has received, if `rest` is still running.
Received(tx, rest) ==
    /\ relay' = [relay EXCEPT !.pc = "send", !.tx = tx]
    /\ running' = rest
    /\ log' = [log EXCEPT !.handled[Current] = @ + 1,
                          !.seen = @ \cup {Current},
                          !.crossed = IF tx.id \in {0, Current} THEN @
                                      ELSE @ \cup {Current}]

\* The server answers, with the relay's own transaction unless another call
\* ends meanwhile: then it may be that call's transaction, or a mixture, which
\* is none.  An error code of the enclave is logged only, and the empty
\* transaction that comes with it is sent to the node.
Process ==
    /\ relay.pc = "process"
    /\ IF Current \in Failing THEN Received(NoTx, running)
       ELSE \/ Received(Own, running)
            \/ \E other \in running : \E tx \in {other, NoTx} :
                   Received(tx, running \ {other})
    /\ UNCHANGED <<status, nonce, mempool, filter, faults>>

\* The relay gives up: its call goes on, if there is one that makes anything.
Abandoned ==
    running \cup IF relay.pc = "process" /\ Current \notin Failing
                 THEN {Own} ELSE {}

\* An exception ends the batch or, in catchup, the process.
Raised == IF relay.mode = "catchup" THEN Down ELSE Continue(relay, {})

\* The node takes a transaction that the wallet can pay for if its nonce is
\* the next one or later and no other one waits with the same nonce.
Acceptable(tx) ==
    /\ tx # NoTx
    /\ tx.nonce \in nonce..(Funds - 1)
    /\ \A other \in mempool : other.nonce # tx.nonce

Send ==
    /\ relay.pc = "send"
    /\ Acceptable(relay.tx)
    /\ mempool' = mempool \cup {relay.tx}
    /\ relay' = [relay EXCEPT !.pc = "wait"]
    /\ UNCHANGED <<status, nonce, filter, running, faults, log>>

\* "nonce too low", "replacement transaction underpriced", "already known",
\* "insufficient funds", or an empty transaction: ValueError is raised.
SendRejected ==
    /\ relay.pc = "send"
    /\ ~Acceptable(relay.tx)
    /\ relay' = Raised
    /\ UNCHANGED log
    /\ RelayStep

\* Mutant of HasReceipt: the relay does not wait.
HasReceiptAtOnce == TRUE

\* The transaction was mined; whether it had an effect is not looked at.
HasReceipt == relay.tx \notin mempool /\ relay.tx.nonce < nonce

Receipt ==
    /\ relay.pc = "wait"
    /\ HasReceipt
    /\ LET r == Continue(relay, relay.batch \ {Current}) IN
           relay' = r /\ log' = CaughtUp(r)
    /\ RelayStep

\* waitForTransactionReceipt gives up after its timeout: the transaction was
\* dropped or, which counts as a fault, is not mined in time.
Timeout ==
    /\ relay.pc = "wait"
    /\ ~HasReceipt
    /\ IF relay.tx \in mempool THEN Fault ELSE UNCHANGED faults
    /\ relay' = Raised
    /\ UNCHANGED <<status, nonce, mempool, filter, running, log>>

\* A call to the node or the server fails.  Nothing handles those before the
\* first filter exists or while a retired filter is replaced; the handlers
\* of the polling loop drop the batch.
CallFails ==
    /\ Fault
    /\ \/ /\ \/ relay.pc \in {"start", "create"}
             \/ relay.pc = "poll" /\ filter = NoFilter
          /\ relay' = Down
       \/ /\ relay.pc \in {"nonce", "process", "send"}
          /\ relay' = Raised
    /\ running' = Abandoned
    /\ UNCHANGED <<status, nonce, mempool, filter, log>>

\* The connection breaks after the node returned the new entries.
PollLost ==
    /\ Fault
    /\ relay.pc = "poll"
    /\ filter # NoFilter
    /\ filter' = LogLength
    /\ UNCHANGED <<status, nonce, mempool, relay, running, log>>

\* The node took the transaction, and the answer got lost.
SendLost ==
    /\ Fault
    /\ relay.pc = "send"
    /\ Acceptable(relay.tx)
    /\ mempool' = mempool \cup {relay.tx}
    /\ relay' = Raised
    /\ UNCHANGED <<status, nonce, filter, running, log>>

Crash ==
    /\ Fault
    /\ relay.pc # "down"
    /\ relay' = Down
    /\ running' = Abandoned
    /\ UNCHANGED <<status, nonce, mempool, filter, log>>
-----------------------------------------------------------------------------
Run ==
    \/ Catchup \/ CreateFilter \/ Poll \/ PollRetired
    \/ ReadNonce \/ Process \/ Send \/ SendRejected
    \/ Receipt \/ Timeout

Next ==
    \/ \E id \in Ids : Request(id) \/ Cancel(id)
    \/ \E tx \in mempool : Mine(tx) \/ MineReverted(tx) \/ Drop(tx)
    \/ \E catchup \in Catchups : Start(catchup)
    \/ Run
    \/ Retire \/ CallFails \/ PollLost \/ SendLost \/ Crash

Spec == Init /\ [][Next]_vars

\* The server answers and the process runs; miners take a transaction they
\* can take; a relay that is down is started again.
Fairness ==
    /\ WF_vars(Run)
    /\ WF_vars(\E tx \in mempool : Mine(tx))
    /\ WF_vars(\E catchup \in Catchups : Start(catchup))

FairSpec == Init /\ [][Next]_vars /\ Fairness
-----------------------------------------------------------------------------
(* Properties.                                                             *)

\* The state of the relay, the node and the chain has its type.
TypeOK ==
    /\ status \in [Ids -> {"none", "open", "cancelled", "answered", "settled"}]
    /\ nonce \in Nat
    /\ mempool \in SUBSET Tx
    /\ filter \in {NoFilter} \cup 0..MaxRequests
    /\ relay \in RelayState
    /\ running \in SUBSET Tx
    /\ faults \in 0..MaxFaults
    /\ log \in Log

\* A transaction the node took can always be mined: timeouts, crashes and
\* lost transactions never leave a gap in the nonces of the SGX wallet.
NonceNeverStuck ==
    \A tx \in mempool : mempool = {tx} /\ tx.nonce = nonce

\* One run of the relay passes a request to the server at most once,
\* whether catchup or the filter found it, or both looked.
HandledOncePerRun ==
    /\ TypeOK
    /\ \A id \in Ids : log.handled[id] <= 1

\* A request costs the SGX wallet one transaction, and another one only for
\* each fault that leaves the relay unsure of the last: no restart, late filter
\* or transaction that came back for another request sends what was answered
\* again.  The exception are cancelled requests: no event tells that they are
\* settled, and each catchup sends them again.
SentOnceUnlessFault ==
    \A id \in Ids :
        status[id] \notin {"cancelled", "settled"} => log.mined[id] <= 1 + faults

\* When catchup is done, every request up to its block was responded to, or
\* its transaction was mined but reverted: none is still on its way.  The
\* exception is a request for which the server returned the transaction of
\* another one, which the relay takes for an answer to this one.
CatchupLeavesNone ==
    \A id \in 1..log.caughtUp :
        id \in Unresponded => log.mined[id] > 0 \/ id \in log.crossed

\* A request that a catchup covers is responded to in the end, or its
\* transaction reverted, if the relay is restarted whenever it crashes.  The
\* exceptions are requests after one for which the enclave returns an error:
\* it ends each catchup, while the resent ones before it use up the wallet;
\* and again those for which the transaction of another one came back.
CatchupRecovers ==
    \A id \in Ids :
        (relay.pc = "start" /\ id <= relay.upto /\ 1..id \cap Failing = {})
            ~> \/ id \notin Unresponded \/ log.mined[id] > 0
               \/ nonce = Funds \/ id \in log.crossed

\* The documentation: "The Town Crier server watches events and processes a
\* request once logged by RequestInfo()."
LoggedIsProcessed == \A id \in Ids : status[id] # "none" ~> id \in log.seen
=============================================================================
