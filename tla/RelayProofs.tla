---------------------------- MODULE RelayProofs ----------------------------
(***************************************************************************)
(* Proofs about the relay, for every number of requests and of faults.     *)
(*                                                                         *)
(* The nonces of the SGX wallet never get a gap because the relay never    *)
(* runs ahead of the chain: what it read, and so what is in the            *)
(* transaction it sends, is at most the next nonce, and the node takes     *)
(* only one transaction with that nonce.  The same holds for transactions  *)
(* of calls that a relay left behind, and which another may get.           *)
(***************************************************************************)
EXTENDS Relay, FiniteSetTheorems, WellFoundedInduction, TLAPS

\* The relay's variables are there; what most of them hold does not matter.
RelayShape ==
    relay = [pc |-> relay.pc, mode |-> relay.mode, batch |-> relay.batch,
             upto |-> relay.upto, answered |-> relay.answered,
             nonce |-> relay.nonce, tx |-> relay.tx]

\* The relay is never ahead of the chain.
NotAhead ==
    /\ relay.nonce \in 0..nonce
    /\ relay.tx.nonce \in 0..nonce
    /\ \A tx \in running : tx.nonce \in 0..nonce

\* The inductive invariant.
NonceInv ==
    /\ nonce \in Nat
    /\ RelayShape
    /\ NotAhead
    /\ NonceNeverStuck
-----------------------------------------------------------------------------
USE RelayAssumption

\* The invariant holds at the start.
LEMMA InitNonceInv == Init => NonceInv
BY DEF Init, NonceInv, RelayShape, NotAhead, Down, NoTx, NonceNeverStuck

\* A step that touches neither the chain nor the mempool keeps the invariant
\* if the relay afterwards knows no more than it knew, or nothing.
LEMMA RelayForgets ==
    ASSUME NonceInv, UNCHANGED <<nonce, mempool>>, RelayShape',
           relay'.nonce \in {0, relay.nonce}, relay'.tx \in {NoTx, relay.tx},
           running' = running \/ running' = Abandoned
    PROVE  NonceInv'
<1>1. \A tx \in running' : tx.nonce \in 0..nonce
  BY DEF NonceInv, NotAhead, Abandoned, Own
<1> QED
  BY <1>1 DEF NonceInv, NotAhead, NonceNeverStuck, NoTx

\* Continue and Raised forget the transaction.
LEMMA ContinueForgets ==
    ASSUME NonceInv, NEW batch, relay' = Continue(relay, batch)
    PROVE  RelayShape' /\ relay'.nonce = relay.nonce /\ relay'.tx = NoTx
BY DEF NonceInv, RelayShape, Continue

LEMMA RaisedForgets ==
    ASSUME NonceInv, relay' = Raised
    PROVE  RelayShape' /\ relay'.nonce \in {0, relay.nonce} /\ relay'.tx = NoTx
<1>1. CASE relay.mode = "catchup"
  BY <1>1 DEF Raised, Down, RelayShape
<1>2. CASE relay.mode # "catchup"
  BY <1>2, ContinueForgets DEF Raised
<1> QED
  BY <1>1, <1>2
-----------------------------------------------------------------------------
(* The actions, in the order of Next.                                      *)

\* A transaction leaves the mempool, mined or forgotten.
LEMMA MinedNonceInv ==
    ASSUME NonceInv, NEW tx \in mempool, Mined(tx), UNCHANGED <<relay, running>>
    PROVE  NonceInv'
BY DEF NonceInv, RelayShape, NotAhead, NonceNeverStuck, Mined

LEMMA DropNonceInv ==
    ASSUME NonceInv, NEW tx \in mempool, Drop(tx)
    PROVE  NonceInv'
BY DEF NonceInv, RelayShape, NotAhead, NonceNeverStuck, Drop

\* A new process knows nothing.
LEMMA StartNonceInv ==
    ASSUME NonceInv, NEW catchup, Start(catchup)
    PROVE  NonceInv'
<1>1. RelayShape' /\ relay'.nonce = 0 /\ relay'.tx = NoTx
  BY DEF Start, Down, RelayShape
<1> QED
  BY <1>1, RelayForgets DEF Start, RelayStep

\* The relay reads the nonce, and puts what it read into a transaction.
LEMMA ReadNonceInv ==
    ASSUME NonceInv, ReadNonce
    PROVE  NonceInv'
<1>1. RelayShape' /\ relay'.nonce = nonce /\ relay'.tx = relay.tx
  BY DEF NonceInv, RelayShape, ReadNonce, WalletNonce
<1> QED
  BY <1>1 DEF NonceInv, NotAhead, NonceNeverStuck, ReadNonce, RelayStep

\* Whatever transaction the server returns, it is not ahead of the chain.
LEMMA ReceivedNonceInv ==
    ASSUME NonceInv, NEW tx, NEW rest \in SUBSET running, Received(tx, rest),
           tx.nonce \in 0..nonce, UNCHANGED <<nonce, mempool>>
    PROVE  NonceInv'
<1>1. /\ RelayShape' /\ relay'.nonce = relay.nonce /\ relay'.tx = tx
      /\ running' \subseteq running
  BY DEF NonceInv, RelayShape, Received
<1> QED
  BY <1>1 DEF NonceInv, NotAhead, NonceNeverStuck

LEMMA ProcessNonceInv ==
    ASSUME NonceInv, Process
    PROVE  NonceInv'
<1>1. /\ NoTx.nonce \in 0..nonce /\ Own.nonce \in 0..nonce
      /\ \A other \in running : other.nonce \in 0..nonce
  BY DEF NonceInv, NotAhead, NoTx, Own
<1>2. CASE Received(NoTx, running) \/ Received(Own, running)
  BY <1>1, <1>2, ReceivedNonceInv DEF Process
<1>3. CASE \E other \in running : \E tx \in {other, NoTx} :
               Received(tx, running \ {other})
  <2>1. PICK other \in running : \E tx \in {other, NoTx} :
            Received(tx, running \ {other})
    BY <1>3
  <2>2. PICK tx \in {other, NoTx} : Received(tx, running \ {other})
    BY <2>1
  <2> QED
    BY <1>1, <2>1, <2>2, ReceivedNonceInv DEF Process
<1> QED
  BY <1>2, <1>3 DEF Process

\* What the node takes has the next nonce, and nothing else is waiting.
LEMMA AcceptedIsNext ==
    ASSUME NonceInv, Acceptable(relay.tx)
    PROVE  relay.tx.nonce = nonce /\ mempool = {}
BY DEF NonceInv, NotAhead, NonceNeverStuck, Acceptable

\* So the mempool then holds this one transaction.
LEMMA SendNonceInv ==
    ASSUME NonceInv, Acceptable(relay.tx), mempool' = mempool \cup {relay.tx},
           UNCHANGED <<nonce, running>>, RelayShape',
           relay'.nonce \in {0, relay.nonce}, relay'.tx \in {NoTx, relay.tx}
    PROVE  NonceInv'
BY AcceptedIsNext DEF NonceInv, NotAhead, NonceNeverStuck, NoTx

\* The other steps of the relay itself.
LEMMA RunNonceInv ==
    ASSUME NonceInv, Run
    PROVE  NonceInv'
<1>1. CASE Catchup
  <2>1. PICK batch : relay' = Continue(relay, batch)
    BY <1>1 DEF Catchup
  <2> QED
    BY <1>1, <2>1, ContinueForgets, RelayForgets DEF Catchup, RelayStep
<1>2. CASE CreateFilter
  BY <1>2, RelayForgets DEF CreateFilter, NonceInv, RelayShape
<1>3. CASE Poll
  <2>1. PICK batch : relay' = Continue(relay, batch)
    BY <1>3 DEF Poll
  <2> QED
    BY <1>3, <2>1, ContinueForgets, RelayForgets DEF Poll
<1>4. CASE PollRetired
  BY <1>4, RelayForgets DEF PollRetired, NonceInv, RelayShape
<1>5. CASE ReadNonce
  BY <1>5, ReadNonceInv
<1>6. CASE Process
  BY <1>6, ProcessNonceInv
<1>7. CASE Send
  <2>1. RelayShape' /\ relay'.nonce = relay.nonce /\ relay'.tx = relay.tx
    BY <1>7 DEF Send, NonceInv, RelayShape
  <2> QED
    BY <1>7, <2>1, SendNonceInv DEF Send
<1>8. CASE SendRejected
  BY <1>8, RaisedForgets, RelayForgets DEF SendRejected, RelayStep
<1>9. CASE Receipt
  <2>1. PICK batch : relay' = Continue(relay, batch)
    BY <1>9 DEF Receipt
  <2> QED
    BY <1>9, <2>1, ContinueForgets, RelayForgets DEF Receipt, RelayStep
<1>10. CASE Timeout
  BY <1>10, RaisedForgets, RelayForgets DEF Timeout
<1> QED
  BY <1>1, <1>2, <1>3, <1>4, <1>5, <1>6, <1>7, <1>8, <1>9, <1>10 DEF Run

\* Whatever fails, the relay forgets what it was about to send.
LEMMA FaultNonceInv ==
    ASSUME NonceInv, Retire \/ CallFails \/ PollLost \/ SendLost \/ Crash
    PROVE  NonceInv'
<1>1. CASE Retire \/ PollLost
  BY <1>1, RelayForgets DEF Retire, PollLost, NonceInv, RelayShape
<1>2. CASE relay' = Down /\ UNCHANGED <<nonce, mempool>> /\ running' = Abandoned
  BY <1>2, RelayForgets DEF Down, RelayShape
<1>3. CASE relay' = Raised /\ UNCHANGED <<nonce, mempool>> /\ running' = Abandoned
  BY <1>3, RaisedForgets, RelayForgets
<1>4. CASE SendLost
  BY <1>4, RaisedForgets, SendNonceInv DEF SendLost
<1> QED
  BY <1>1, <1>2, <1>3, <1>4 DEF CallFails, Crash

\* Every step keeps the invariant.
LEMMA NextNonceInv ==
    ASSUME NonceInv, [Next]_vars
    PROVE  NonceInv'
<1>1. CASE \E id \in Ids : Request(id) \/ Cancel(id)
  BY <1>1, RelayForgets DEF Request, Cancel, NonceInv, RelayShape
<1>2. CASE \E tx \in mempool : Mine(tx) \/ MineReverted(tx) \/ Drop(tx)
  BY <1>2, MinedNonceInv, DropNonceInv DEF Mine, MineReverted
<1>3. CASE \E catchup \in Catchups : Start(catchup)
  BY <1>3, StartNonceInv
<1>4. CASE Run
  BY <1>4, RunNonceInv
<1>5. CASE Retire \/ CallFails \/ PollLost \/ SendLost \/ Crash
  BY <1>5, FaultNonceInv
<1>6. CASE UNCHANGED vars
  BY <1>6, RelayForgets DEF vars, NonceInv, RelayShape
<1> QED
  BY <1>1, <1>2, <1>3, <1>4, <1>5, <1>6 DEF Next
-----------------------------------------------------------------------------
\* The relay (handle_request_event and send_response_check) never leaves a
\* gap in the nonces of the SGX wallet, whatever crashes, times out or gets
\* lost: a transaction that the node took is the only one and the next one.
\* No fairness is assumed.
THEOREM NoncesInOrder == Spec => []NonceNeverStuck
<1>1. NonceInv => NonceNeverStuck
  BY DEF NonceInv
<1> QED
  BY InitNonceInv, NextNonceInv, <1>1, PTL DEF Spec
-----------------------------------------------------------------------------
(* The requests on the chain.  Ids are issued one after the other, so the  *)
(* logged requests are the first ones.                                     *)

Statuses == {"none", "open", "cancelled", "answered", "settled"}

ChainInv ==
    /\ status \in [Ids -> Statuses]
    /\ Logged = 1..LogLength
    /\ LogLength \in 0..MaxRequests

\* What one step may do to the requests.
StatusStep ==
    \/ UNCHANGED status
    \/ \E id \in Ids : /\ status[id] = "none" /\ id = LogLength + 1
                       /\ status' = [status EXCEPT ![id] = "open"]
    \/ \E id \in Ids : /\ status[id] = "open"
                       /\ status' = [status EXCEPT ![id] = "cancelled"]
    \/ \E id \in Ids : /\ status[id] \in {"open", "cancelled"}
                       /\ status' = [status EXCEPT ![id] = Delivered(status[id])]

LEMMA StepsOfStatus ==
    ASSUME ChainInv, [Next]_vars
    PROVE  StatusStep
<1>1. CASE \E id \in Ids : Request(id) \/ Cancel(id)
  BY <1>1 DEF Request, Cancel, StatusStep
<1>2. ASSUME NEW tx \in mempool, Mine(tx)
      PROVE  StatusStep
  <2>1. status' = [status EXCEPT ![tx.id] = Delivered(status[tx.id])]
    BY <1>2 DEF Mine, ChainInv
  <2>2. CASE tx.id \in Ids /\ status[tx.id] \in {"open", "cancelled"}
    BY <2>1, <2>2 DEF StatusStep
  <2>3. CASE tx.id \in Ids /\ status[tx.id] \notin {"open", "cancelled"}
    BY <2>1, <2>3 DEF StatusStep, Delivered, ChainInv
  <2>4. CASE tx.id \notin Ids
    BY <2>1, <2>4 DEF StatusStep, ChainInv
  <2> QED
    BY <2>2, <2>3, <2>4
<1>3. CASE UNCHANGED status
  BY <1>3 DEF StatusStep
<1>4. \/ \E id \in Ids : Request(id) \/ Cancel(id)
      \/ \E tx \in mempool : Mine(tx)
      \/ UNCHANGED status
  BY DEF Next, vars, MineReverted, Drop, Start, RelayStep, Run, Catchup,
     CreateFilter, Poll, PollRetired, ReadNonce, Process, Received, Send,
     SendRejected, Receipt, Timeout, Retire, CallFails, PollLost, SendLost,
     Crash
<1> QED
  BY <1>1, <1>2, <1>3, <1>4

\* Nothing but a new request changes which requests are logged.
LEMMA LogGrows ==
    ASSUME ChainInv, StatusStep
    PROVE  /\ ChainInv'
           /\ Logged \subseteq Logged' /\ LogLength <= LogLength'
           /\ Logged' \subseteq Logged \cup {LogLength + 1}
<1>1. /\ status \in [Ids -> Statuses] /\ Logged = 1..LogLength
      /\ LogLength \in 0..MaxRequests
  BY DEF ChainInv
<1>2. CASE UNCHANGED status
  BY <1>1, <1>2 DEF ChainInv, Logged, LogLength
<1>3. ASSUME NEW id \in Ids, id = LogLength + 1,
             status' = [status EXCEPT ![id] = "open"]
      PROVE  /\ ChainInv'
             /\ Logged \subseteq Logged' /\ LogLength <= LogLength'
             /\ Logged' \subseteq Logged \cup {LogLength + 1}
  <2>1. Logged' = Logged \cup {id}
    BY <1>1, <1>3 DEF Logged
  <2>2. Logged' = 1..(LogLength + 1) /\ LogLength + 1 \in 0..MaxRequests
    BY <1>1, <1>3, <2>1 DEF Ids
  <2>3. LogLength' = LogLength + 1
    BY <2>2, <1>1, FS_Interval DEF LogLength
  <2>4. status' \in [Ids -> Statuses]
    BY <1>1, <1>3 DEF Statuses
  <2> QED
    BY <1>1, <1>3, <2>1, <2>2, <2>3, <2>4 DEF ChainInv
<1>4. ASSUME NEW id \in Ids, status[id] \in {"open", "cancelled"},
             NEW s \in Statuses \ {"none"}, status' = [status EXCEPT ![id] = s]
      PROVE  /\ ChainInv'
             /\ Logged \subseteq Logged' /\ LogLength <= LogLength'
             /\ Logged' \subseteq Logged \cup {LogLength + 1}
  <2>1. Logged' = Logged
    BY <1>1, <1>4 DEF Logged
  <2>2. status' \in [Ids -> Statuses]
    BY <1>1, <1>4
  <2> QED
    BY <1>1, <2>1, <2>2 DEF ChainInv, LogLength
<1>5. \A s \in {"open", "cancelled"} : Delivered(s) \in Statuses \ {"none"}
  BY DEF Delivered, Statuses
<1>6. "cancelled" \in Statuses \ {"none"}
  BY DEF Statuses
<1>7. ASSUME NEW id \in Ids, status[id] \in {"open", "cancelled"},
             status' = [status EXCEPT ![id] = Delivered(status[id])]
      PROVE  /\ ChainInv'
             /\ Logged \subseteq Logged' /\ LogLength <= LogLength'
             /\ Logged' \subseteq Logged \cup {LogLength + 1}
  BY <1>4, <1>5, <1>7
<1>8. ASSUME NEW id \in Ids, status[id] = "open",
             status' = [status EXCEPT ![id] = "cancelled"]
      PROVE  /\ ChainInv'
             /\ Logged \subseteq Logged' /\ LogLength <= LogLength'
             /\ Logged' \subseteq Logged \cup {LogLength + 1}
  BY <1>4, <1>6, <1>8
<1> QED
  BY <1>2, <1>3, <1>7, <1>8 DEF StatusStep

LEMMA InitChainInv == Init => ChainInv
<1> SUFFICES ASSUME Init
             PROVE  ChainInv
  OBVIOUS
<1>1. Logged = {} /\ LogLength = 0
  BY FS_EmptySet DEF Init, Logged, LogLength
<1> QED
  BY <1>1 DEF Init, ChainInv, Statuses

LEMMA NextChainInv == ChainInv /\ [Next]_vars => ChainInv'
BY StepsOfStatus, LogGrows
-----------------------------------------------------------------------------
(* The relay's loop over log entries.                                      *)

PCs == {"down", "start", "create", "poll", "nonce", "process", "send", "wait"}

\* The relay is at a log entry; it has passed the entry to the server.
InLoop == relay.pc \in {"nonce", "process", "send", "wait"}
Sent == relay.pc \in {"send", "wait"}

\* The loop ends when no entry is left, and goes over logged requests only.
LoopInv ==
    /\ relay.batch # {} <=> InLoop
    /\ relay.batch \subseteq Logged
    /\ relay.upto <= LogLength
    /\ \A id \in relay.answered : status[id] = "answered"
    /\ relay.pc = "start" => relay.mode = "catchup"
    /\ relay.pc = "poll" => relay.mode = "watch"
    /\ relay.pc = "wait" => relay.tx \in Tx

Typed == TypeOK /\ ChainInv /\ LoopInv

\* A loop that is not over is at one of its entries.
LEMMA CurrentIsLeft ==
    ASSUME NEW S \in SUBSET Ids, S # {}
    PROVE  Min(S) \in S
<1>1. S \in SUBSET Nat
  BY DEF Ids
<1>2. PICK x \in S : \A y \in S : ~(<<y, x>> \in OpToRel(<, Nat))
  BY <1>1, NatLessThanWellFounded, WFMin
<1>3. ASSUME NEW y \in S
      PROVE  x <= y
  <2>1. x \in Nat /\ y \in Nat
    BY <1>1, <1>3
  <2>2. ~(y < x)
    BY <1>2, <1>3, <2>1, Zenon DEF OpToRel
  <2> QED
    BY <2>1, <2>2
<1> QED
  BY <1>3 DEF Min

LEMMA Types ==
    ASSUME TypeOK
    PROVE  /\ nonce \in Nat
           /\ mempool \in SUBSET Tx
           /\ filter \in {NoFilter} \cup 0..MaxRequests
           /\ relay \in RelayState
           /\ running \in SUBSET Tx
           /\ faults \in 0..MaxFaults
           /\ log \in Log
BY DEF TypeOK

LEMMA RelayTypes ==
    ASSUME NEW r \in RelayState
    PROVE  /\ r.pc \in PCs /\ r.mode \in {"catchup", "watch"}
           /\ r.batch \in SUBSET Ids /\ r.upto \in 0..MaxRequests
           /\ r.answered \in SUBSET Ids /\ r.nonce \in Nat
           /\ r.tx \in Tx \cup {NoTx}
BY DEF RelayState, PCs

LEMMA LogTypes ==
    ASSUME NEW l \in Log
    PROVE  /\ l.handled \in [Ids -> Nat] /\ l.mined \in [Ids -> Nat]
           /\ l.seen \in SUBSET Ids /\ l.caughtUp \in 0..MaxRequests
           /\ l.crossed \in SUBSET Ids
BY DEF Log

\* Continue ends the loop or goes to its next entry.
LEMMA ContinueIs ==
    ASSUME NEW r \in RelayState, NEW batch \in SUBSET Ids
    PROVE  LET c == Continue(r, batch) IN
           /\ c \in RelayState
           /\ c.pc = IF batch # {} THEN "nonce"
                     ELSE IF r.mode = "catchup" THEN "create" ELSE "poll"
           /\ c.mode = r.mode /\ c.batch = batch /\ c.upto = r.upto
           /\ c.answered = r.answered /\ c.nonce = r.nonce /\ c.tx = NoTx
BY DEF Continue, RelayState

LEMMA DownIs ==
    /\ Down \in RelayState
    /\ Down.pc = "down" /\ Down.mode = "watch" /\ Down.batch = {}
    /\ Down.upto = 0 /\ Down.answered = {} /\ Down.tx = NoTx
BY DEF Down, RelayState

\* A step at an entry of the loop, or between the functions of the relay.
Stepped(r, pc, mode, n, tx) ==
    [r EXCEPT !.pc = pc, !.mode = mode, !.nonce = n, !.tx = tx]

LEMMA SteppedIs ==
    ASSUME NEW r \in RelayState, NEW pc \in PCs, NEW n \in Nat,
           NEW tx \in Tx \cup {NoTx}, NEW mode \in {"catchup", "watch"}
    PROVE  LET c == Stepped(r, pc, mode, n, tx) IN
           /\ c \in RelayState
           /\ c.pc = pc /\ c.mode = mode /\ c.batch = r.batch
           /\ c.upto = r.upto /\ c.answered = r.answered
           /\ c.nonce = n /\ c.tx = tx
BY DEF RelayState, PCs, Stepped

LEMMA OwnIsTx ==
    ASSUME TypeOK, LoopInv, InLoop
    PROVE  Own \in Tx /\ Current \in Ids /\ Current \in relay.batch
<1>1. relay.batch \in SUBSET Ids /\ relay.batch # {} /\ relay.nonce \in Nat
  BY Types, RelayTypes DEF LoopInv
<1>2. Current \in relay.batch
  BY <1>1, CurrentIsLeft DEF Current
<1> QED
  BY <1>1, <1>2 DEF Own, Tx

\* The ways the relay moves: it stays, stops, goes to an entry of a loop or
\* past its end, takes a step at an entry, or starts.
Stays == UNCHANGED relay
Stops == relay' = Down
Continues == \E batch \in SUBSET Logged : relay' = Continue(relay, batch)
Steps(pc, mode, n, tx) == relay' = Stepped(relay, pc, mode, n, tx)

\* LoopInv after a move that keeps or ends the loop.
LEMMA StaysLoopInv ==
    ASSUME Typed, StatusStep, Stays
    PROVE  LoopInv' /\ relay' \in RelayState
<1>1. relay \in RelayState /\ relay.answered \in SUBSET Ids
      /\ relay.upto \in 0..MaxRequests
  BY Types, RelayTypes DEF Typed
<1>2. \A id \in Ids : status[id] = "answered" => status'[id] = "answered"
  BY DEF StatusStep, Typed, ChainInv
<1>3. Logged \subseteq Logged' /\ LogLength <= LogLength'
      /\ LogLength \in Int /\ LogLength' \in Int
  BY LogGrows DEF Typed, ChainInv
<1>4. relay' = relay
  BY DEF Stays
<1>5. relay.upto <= LogLength'
  BY <1>1, <1>3 DEF Typed, LoopInv
<1> QED
  BY <1>1, <1>2, <1>3, <1>4, <1>5 DEF Typed, LoopInv, InLoop

LEMMA StopsLoopInv ==
    ASSUME Typed, UNCHANGED status, Stops
    PROVE  LoopInv' /\ relay' \in RelayState
<1>1. LogLength' \in 0..MaxRequests
  BY DEF Typed, ChainInv, LogLength, Logged
<1> QED
  BY <1>1, DownIs DEF LoopInv, InLoop, Stops

LEMMA ContinuesLoopInv ==
    ASSUME Typed, UNCHANGED status, Continues,
           relay.pc # "down", relay.mode = "watch" \/ relay.pc # "poll"
    PROVE  LoopInv' /\ relay' \in RelayState
<1>1. PICK batch \in SUBSET Logged : relay' = Continue(relay, batch)
  BY DEF Continues
<1>2. /\ relay \in RelayState /\ relay.mode \in {"catchup", "watch"}
      /\ batch \in SUBSET Ids
  BY Types, RelayTypes DEF Typed, Logged
<1>3. /\ relay' \in RelayState
      /\ relay'.pc = IF batch # {} THEN "nonce"
                     ELSE IF relay.mode = "catchup" THEN "create" ELSE "poll"
      /\ relay'.mode = relay.mode /\ relay'.batch = batch
      /\ relay'.upto = relay.upto /\ relay'.answered = relay.answered
  BY <1>1, <1>2, ContinueIs
<1>4. Logged' = Logged /\ LogLength' = LogLength
  BY DEF Logged, LogLength
<1> QED
  BY <1>2, <1>3, <1>4 DEF Typed, LoopInv, InLoop

LEMMA StepsLoopInv ==
    ASSUME Typed, UNCHANGED status, NEW pc \in PCs, NEW n \in Nat,
           NEW tx \in Tx \cup {NoTx}, NEW mode \in {"catchup", "watch"},
           Steps(pc, mode, n, tx),
           relay.batch # {} <=> pc \in {"nonce", "process", "send", "wait"},
           pc # "start", pc = "poll" => mode = "watch", pc = "wait" => tx \in Tx
    PROVE  LoopInv' /\ relay' \in RelayState
<1>1. relay \in RelayState
  BY Types DEF Typed
<1>2. /\ relay' \in RelayState
      /\ relay'.pc = pc /\ relay'.mode = mode /\ relay'.batch = relay.batch
      /\ relay'.upto = relay.upto /\ relay'.answered = relay.answered
      /\ relay'.tx = tx
  BY <1>1, SteppedIs DEF Steps
<1>3. Logged' = Logged /\ LogLength' = LogLength
  BY DEF Logged, LogLength
<1> QED
  BY <1>2, <1>3 DEF Typed, LoopInv, InLoop

\* An exception ends the loop.
LEMMA RaisedLoopInv ==
    ASSUME Typed, UNCHANGED status, relay' = Raised, InLoop
    PROVE  LoopInv' /\ relay' \in RelayState
<1>1. CASE relay.mode = "catchup"
  BY <1>1, StopsLoopInv DEF Raised, Stops
<1>2. CASE relay.mode # "catchup"
  <2>1. Continues
    BY <1>2 DEF Raised, Continues
  <2> QED
    BY <2>1, ContinuesLoopInv DEF InLoop
<1> QED
  BY <1>1, <1>2

LEMMA StartLoopInv ==
    ASSUME Typed, NEW catchup \in BOOLEAN, Start(catchup)
    PROVE  LoopInv' /\ relay' \in RelayState /\ log' \in Log
<1>1. LogLength \in 0..MaxRequests /\ LogLength' = LogLength
      /\ Answered \in SUBSET Ids /\ UNCHANGED status /\ log \in Log
  BY Types DEF Typed, ChainInv, Start, RelayStep, LogLength, Logged, Answered
<1>2. /\ relay'.pc = IF catchup THEN "start" ELSE "create"
      /\ relay'.mode = IF catchup THEN "catchup" ELSE "watch"
      /\ relay'.upto = IF catchup THEN LogLength ELSE 0
      /\ relay'.answered = IF catchup THEN Answered ELSE {}
      /\ relay'.batch = {} /\ relay' \in RelayState
  <2>1. CASE catchup
    BY <1>1, <2>1 DEF Start, Down, RelayState
  <2>2. CASE ~catchup
    <3>1. relay' = [Down EXCEPT !.pc = "create", !.mode = "watch", !.upto = 0,
                                !.answered = {}]
      BY <2>2 DEF Start
    <3> QED
      BY <1>1, <2>2, <3>1, DownIs DEF RelayState
  <2> QED
    BY <2>1, <2>2
<1>3. log' \in Log
  <2>1. log' = [log EXCEPT !.handled = [id \in Ids |-> 0], !.caughtUp = 0,
                          !.crossed = {}]
    BY DEF Start
  <2>2. [id \in Ids |-> 0] \in [Ids -> Nat] /\ 0 \in 0..MaxRequests
    OBVIOUS
  <2> QED
    BY <1>1, <2>1, <2>2 DEF Log
<1> QED
  BY <1>1, <1>2, <1>3 DEF LoopInv, InLoop, Answered

\* LoopInv holds after each step of the relay that is up.
LEMMA RunLoopInv ==
    ASSUME Typed, Run
    PROVE  LoopInv' /\ relay' \in RelayState
<1>1. /\ relay \in RelayState /\ relay.mode \in {"catchup", "watch"}
      /\ relay.nonce \in Nat /\ relay.tx \in Tx \cup {NoTx} /\ nonce \in Nat
      /\ running \in SUBSET Tx /\ filter \in {NoFilter} \cup 0..MaxRequests
      /\ LogLength \in 0..MaxRequests /\ Logged = 1..LogLength
      /\ relay.batch \subseteq Logged /\ relay.upto \in 0..LogLength
  BY Types, RelayTypes DEF Typed, ChainInv, LoopInv
<1>2. (relay.batch # {} <=> InLoop) /\ UNCHANGED status
  BY DEF Typed, LoopInv, Run, Catchup, RelayStep, CreateFilter, Poll,
     PollRetired, ReadNonce, Process, Send, SendRejected, Receipt, Timeout
<1>3. CASE Catchup
  <2>1. Missing(relay.upto, relay.answered) \subseteq Logged
    BY <1>1 DEF Missing
  <2>2. Continues
    BY <1>3, <2>1 DEF Catchup, Continues
  <2> QED
    BY <1>2, <1>3, <2>2, ContinuesLoopInv DEF Catchup
<1>4. CASE CreateFilter
  <2>1. relay' = [relay EXCEPT !.pc = "poll", !.mode = "watch"]
        /\ relay.pc = "create"
    BY <1>4 DEF CreateFilter
  <2>2. relay' = Stepped(relay, "poll", "watch", relay.nonce, relay.tx)
    BY <1>1, <2>1 DEF Stepped, RelayState
  <2>3. relay.batch = {}
    BY <1>2, <2>1 DEF InLoop
  <2> QED
    BY <1>1, <1>2, <2>2, <2>3, StepsLoopInv DEF Steps, PCs
<1>5. CASE Poll
  <2>1. (filter + 1)..LogLength \subseteq Logged
    BY <1>1, <1>5 DEF Poll
  <2>2. Continues
    BY <1>5, <2>1 DEF Poll, Continues
  <2>3. relay.mode = "watch"
    BY <1>5 DEF Poll, Typed, LoopInv
  <2> QED
    BY <1>2, <1>5, <2>2, <2>3, ContinuesLoopInv DEF Poll
<1>6. CASE PollRetired
  BY <1>2, <1>6, StaysLoopInv DEF PollRetired, Stays, StatusStep
<1>7. CASE ReadNonce
  <2>1. relay' = Stepped(relay, "process", relay.mode, nonce, relay.tx)
        /\ relay.pc = "nonce"
    BY <1>1, <1>7 DEF ReadNonce, WalletNonce, Stepped, RelayState
  <2>2. relay.batch # {}
    BY <1>2, <2>1 DEF InLoop
  <2> QED
    BY <1>1, <1>2, <2>1, <2>2, StepsLoopInv DEF Steps, PCs
<1>8. CASE Process
  <2>1. relay.pc = "process" /\ InLoop
    BY <1>8 DEF Process, InLoop
  <2>2. PICK tx \in Tx \cup {NoTx} : relay' = [relay EXCEPT !.pc = "send", !.tx = tx]
    <3>1. Own \in Tx
      BY <2>1, OwnIsTx DEF Typed
    <3>2. \E tx \in {Own, NoTx} \cup running : \E rest : Received(tx, rest)
      BY <1>8 DEF Process
    <3> QED
      BY <1>1, <3>1, <3>2 DEF Received
  <2>3. relay' = Stepped(relay, "send", relay.mode, relay.nonce, tx)
    BY <1>1, <2>2 DEF Stepped, RelayState
  <2> QED
    BY <1>1, <1>2, <2>1, <2>3, StepsLoopInv DEF Steps, PCs
<1>9. CASE Send
  <2>1. relay' = Stepped(relay, "wait", relay.mode, relay.nonce, relay.tx)
        /\ relay.pc = "send" /\ relay.tx \in Tx
    BY <1>1, <1>9 DEF Send, Acceptable, Stepped, RelayState
  <2>2. relay.batch # {}
    BY <1>2, <2>1 DEF InLoop
  <2> QED
    BY <1>1, <1>2, <2>1, <2>2, StepsLoopInv DEF Steps, PCs
<1>10. CASE SendRejected \/ Timeout
  BY <1>2, <1>10, RaisedLoopInv DEF SendRejected, Timeout, InLoop
<1>11. CASE Receipt
  <2>1. Continues
    BY <1>1, <1>11 DEF Receipt, Continues
  <2> QED
    BY <1>2, <1>11, <2>1, ContinuesLoopInv DEF Receipt
<1> QED
  BY <1>3, <1>4, <1>5, <1>6, <1>7, <1>8, <1>9, <1>10, <1>11 DEF Run

\* LoopInv holds after each other step.
LEMMA NextLoopInv ==
    ASSUME Typed, [Next]_vars
    PROVE  LoopInv' /\ relay' \in RelayState
<1>1. StatusStep
  BY StepsOfStatus DEF Typed
<1>2. CASE Stays
  BY <1>1, <1>2, StaysLoopInv
<1>3. CASE Run
  BY <1>3, RunLoopInv
<1>4. CASE \E catchup \in Catchups : Start(catchup)
  BY <1>4, StartLoopInv
<1>5. CASE CallFails \/ Crash \/ SendLost
  <2>1. UNCHANGED status /\ (Stops \/ (relay' = Raised /\ InLoop))
    BY <1>5 DEF CallFails, Crash, SendLost, Stops, InLoop
  <2> QED
    BY <2>1, StopsLoopInv, RaisedLoopInv
<1>6. \/ Stays \/ Run \/ (\E catchup \in Catchups : Start(catchup))
      \/ CallFails \/ Crash \/ SendLost
  BY DEF Next, Request, Cancel, Mine, MineReverted, Drop, Retire, PollLost,
     Stays, vars
<1> QED
  BY <1>2, <1>3, <1>4, <1>5, <1>6

\* What one step does to the history, but for the start of the relay.
Counted(tx) == log' = [log EXCEPT !.mined[tx.id] = @ + 1]
PassedOn(tx) ==
    log' = [log EXCEPT !.handled[Current] = @ + 1,
                       !.seen = @ \cup {Current},
                       !.crossed = IF tx.id \in {0, Current} THEN @
                                   ELSE @ \cup {Current}]

LEMMA CountedTyped ==
    ASSUME log \in Log, NEW tx \in Tx, Counted(tx)
    PROVE  log' \in Log
<1>1. tx.id \in Ids /\ log.mined \in [Ids -> Nat]
  BY LogTypes DEF Tx
<1>2. [log.mined EXCEPT ![tx.id] = @ + 1] \in [Ids -> Nat]
  BY <1>1
<1> QED
  BY <1>1, <1>2 DEF Counted, Log

LEMMA PassedOnIs ==
    ASSUME log \in Log, NEW tx, Current \in Ids, PassedOn(tx)
    PROVE  /\ log' \in Log
           /\ log'.handled = [log.handled EXCEPT ![Current] = @ + 1]
           /\ log'.mined = log.mined /\ log'.caughtUp = log.caughtUp
           /\ log'.crossed = IF tx.id \in {0, Current} THEN log.crossed
                             ELSE log.crossed \cup {Current}
<1>1. log.handled \in [Ids -> Nat]
  BY LogTypes
<1>2. [log.handled EXCEPT ![Current] = @ + 1] \in [Ids -> Nat]
  BY <1>1
<1> QED
  BY <1>1, <1>2 DEF PassedOn, Log

LEMMA CaughtUpIs ==
    ASSUME log \in Log, NEW r \in RelayState
    PROVE  LET l == CaughtUp(r) IN
           /\ l \in Log
           /\ l.handled = log.handled /\ l.mined = log.mined
           /\ l.crossed = log.crossed
           /\ l.caughtUp = IF r.pc = "create" /\ r.mode = "catchup"
                           THEN r.upto ELSE log.caughtUp
BY RelayTypes DEF CaughtUp, Log

LEMMA NextLog ==
    ASSUME Typed, [Next]_vars
    PROVE  log' \in Log
<1>1. log \in Log /\ relay \in RelayState
  BY Types DEF Typed
<1>2. CASE UNCHANGED log
  BY <1>1, <1>2
<1>3. ASSUME NEW tx \in mempool, Mine(tx) \/ MineReverted(tx)
      PROVE  log' \in Log
  <2>1. tx \in Tx /\ Counted(tx)
    BY <1>3, Types DEF Typed, Mine, MineReverted, Mined, Counted
  <2> QED
    BY <1>1, <2>1, CountedTyped
<1>4. CASE \E catchup \in Catchups : Start(catchup)
  BY <1>4, StartLoopInv
<1>5. CASE Process
  <2>1. Current \in Ids
    BY <1>5, OwnIsTx DEF Process, InLoop, Typed
  <2>2. PICK tx : PassedOn(tx)
    BY <1>5 DEF Process, Received, PassedOn
  <2> QED
    BY <1>1, <2>1, <2>2, PassedOnIs
<1>6. CASE Catchup \/ Receipt
  <2>1. relay' \in RelayState
    BY NextLoopInv
  <2>2. log' = CaughtUp(relay')
    BY <1>6 DEF Catchup, Receipt, CaughtUp
  <2> QED
    BY <1>1, <2>1, <2>2, CaughtUpIs
<1>7. \/ UNCHANGED log \/ (\E tx \in mempool : Mine(tx) \/ MineReverted(tx))
      \/ (\E catchup \in Catchups : Start(catchup))
      \/ Process \/ Catchup \/ Receipt
  BY DEF Next, Request, Cancel, Drop, Retire, PollLost, CallFails, SendLost,
     Crash, Run, CreateFilter, Poll, PollRetired, ReadNonce, Send,
     SendRejected, Timeout, vars
<1> QED
  BY <1>2, <1>3, <1>4, <1>5, <1>6, <1>7

\* The variables of the chain, the node and the server.
LEMMA NextNode ==
    ASSUME Typed, [Next]_vars
    PROVE  /\ nonce' \in Nat /\ mempool' \in SUBSET Tx
           /\ filter' \in {NoFilter} \cup 0..MaxRequests
           /\ running' \in SUBSET Tx /\ faults' \in 0..MaxFaults
<1>1. /\ nonce \in Nat /\ mempool \in SUBSET Tx
      /\ filter \in {NoFilter} \cup 0..MaxRequests
      /\ running \in SUBSET Tx /\ faults \in 0..MaxFaults
      /\ LogLength \in 0..MaxRequests /\ relay.tx \in Tx \cup {NoTx}
  BY Types, RelayTypes DEF Typed, ChainInv
<1>2. nonce' \in {nonce, nonce + 1}
  BY DEF Next, Request, Cancel, Mine, MineReverted, Mined, Drop, Start,
     RelayStep, Run, Catchup, CreateFilter, Poll, PollRetired, ReadNonce,
     Process, Send, SendRejected, Receipt, Timeout, Retire, CallFails,
     PollLost, SendLost, Crash, vars
<1>3. mempool' \subseteq mempool \cup (IF relay.tx # NoTx THEN {relay.tx} ELSE {})
  BY DEF Next, Request, Cancel, Mine, MineReverted, Mined, Drop, Start,
     RelayStep, Run, Catchup, CreateFilter, Poll, PollRetired, ReadNonce,
     Process, Send, SendRejected, Receipt, Timeout, Retire, CallFails,
     PollLost, SendLost, Crash, vars, Acceptable
<1>4. filter' \in {filter, NoFilter, LogLength}
  BY DEF Next, Request, Cancel, Mine, MineReverted, Mined, Drop, Start,
     RelayStep, Run, Catchup, CreateFilter, Poll, PollRetired, ReadNonce,
     Process, Send, SendRejected, Receipt, Timeout, Retire, CallFails,
     PollLost, SendLost, Crash, vars, NewFilter
<1>5. running' \subseteq running \/ running' = Abandoned
  BY DEF Next, Request, Cancel, Mine, MineReverted, Mined, Drop, Start,
     RelayStep, Run, Catchup, CreateFilter, Poll, PollRetired, ReadNonce,
     Process, Received, Send, SendRejected, Receipt, Timeout, Retire,
     CallFails, PollLost, SendLost, Crash, vars
<1>6. Abandoned \in SUBSET Tx
  BY <1>1, OwnIsTx DEF Abandoned, Typed, InLoop
<1>7. UNCHANGED faults \/ Fault
  BY DEF Next, Request, Cancel, Mine, MineReverted, Mined, Drop, Start,
     RelayStep, Run, Catchup, CreateFilter, Poll, PollRetired, ReadNonce,
     Process, Send, SendRejected, Receipt, Timeout, Retire, CallFails,
     PollLost, SendLost, Crash, vars
<1>8. faults' \in 0..MaxFaults
  BY <1>1, <1>7 DEF Fault
<1> QED
  BY <1>1, <1>2, <1>3, <1>4, <1>5, <1>6, <1>8

LEMMA InitTyped == Init => Typed
<1> SUFFICES ASSUME Init
             PROVE  Typed
  OBVIOUS
<1>1. ChainInv /\ LogLength = 0 /\ Logged = {}
  BY InitChainInv, FS_EmptySet DEF Init, Logged, LogLength
<1>2. relay = Down /\ 0 \in 0..MaxRequests
  BY DEF Init
<1>3. LoopInv
  BY <1>1, <1>2, DownIs DEF LoopInv, InLoop
<1>4. log \in Log
  <2>1. [id \in Ids |-> 0] \in [Ids -> Nat]
    OBVIOUS
  <2> QED
    BY <1>2, <2>1 DEF Init, Log
<1>5. TypeOK
  BY <1>1, <1>2, <1>4, DownIs DEF Init, TypeOK
<1> QED
  BY <1>1, <1>3, <1>5 DEF Typed

LEMMA NextTyped == Typed /\ [Next]_vars => Typed'
<1> SUFFICES ASSUME Typed, [Next]_vars
             PROVE  Typed'
  OBVIOUS
<1>1. ChainInv'
  BY NextChainInv DEF Typed
<1> QED
  BY <1>1, NextLoopInv, NextLog, NextNode DEF Typed, TypeOK, ChainInv, Statuses
-----------------------------------------------------------------------------
(* One run of the relay hands a request to the server at most once.        *)

\* The entries that the relay has still to pass to the server.
Todo == IF Sent THEN relay.batch \ {Current} ELSE relay.batch

\* wait_for_requests has its filter.
Watching == relay.mode = "watch" /\ relay.pc \notin {"down", "start", "create"}

\* What was handled is logged and not to be handled again: it is not left in
\* the loop, and the filter is past it.
HandledInv ==
    /\ \A id \in Ids : log.handled[id] <= 1
    /\ \A id \in Ids : log.handled[id] # 0 => id \in Logged
    /\ \A id \in Todo : log.handled[id] = 0
    /\ relay.pc = "start" => (\A id \in Ids : log.handled[id] = 0)
    /\ Watching /\ filter # NoFilter =>
           (\A id \in Ids :
               id > filter => log.handled[id] = 0 /\ id \notin relay.batch)

\* HandledInv for one request after a step, and what is left to show when a
\* step hands no request to the server.
NotYet(id) == log.handled[id] = 0
FilterPast ==
    Watching /\ filter # NoFilter =>
        (\A id \in Ids : id > filter => NotYet(id) /\ id \notin relay.batch)

LEMMA HandledSame ==
    ASSUME Typed, HandledInv, [Next]_vars, log'.handled = log.handled,
           \A id \in Todo' : NotYet(id),
           relay'.pc = "start" => relay.pc = "start",
           FilterPast'
    PROVE  HandledInv'
<1>1. Logged \subseteq Logged'
  BY StepsOfStatus, LogGrows DEF Typed
<1> QED
  BY <1>1 DEF HandledInv, NotYet, FilterPast

\* Requests with higher ids than that of the last one are not handled yet.
LEMMA LaterNotYet ==
    ASSUME Typed, HandledInv
    PROVE  /\ LogLength \in 0..MaxRequests
           /\ \A id \in Ids : id > LogLength =>
                  NotYet(id) /\ id \notin relay.batch /\ id \notin Logged
<1>1. Logged = 1..LogLength /\ LogLength \in 0..MaxRequests
      /\ relay.batch \subseteq Logged
  BY DEF Typed, ChainInv, LoopInv
<1>2. \A id \in Ids : id > LogLength => id \notin Logged
  BY <1>1 DEF Ids
<1> QED
  BY <1>1, <1>2 DEF HandledInv, NotYet

\* The relay stays, and the filter too unless it goes to the end of the log.
LEMMA HandledStays ==
    ASSUME Typed, HandledInv, [Next]_vars, log'.handled = log.handled, Stays,
           \/ filter' \in {filter, NoFilter}
           \/ filter' = LogLength /\ relay.batch = {}
    PROVE  HandledInv'
<1>1. relay' = relay /\ Todo' = Todo
  BY DEF Stays, Todo, Sent, Current
<1>2. FilterPast'
  <2>1. CASE filter' \in {filter, NoFilter}
    BY <1>1, <2>1 DEF FilterPast, HandledInv, Watching, NotYet
  <2>2. CASE filter' = LogLength
    BY <1>1, <2>2, LaterNotYet DEF FilterPast, NotYet
  <2> QED
    BY <2>1, <2>2
<1> QED
  BY <1>1, <1>2, HandledSame DEF HandledInv, NotYet

LEMMA HandledStops ==
    ASSUME Typed, HandledInv, [Next]_vars, log'.handled = log.handled, Stops
    PROVE  HandledInv'
<1>1. relay'.pc = "down" /\ relay'.batch = {}
  BY DownIs DEF Stops
<1> QED
  BY <1>1, HandledSame DEF Todo, FilterPast, Watching, Sent

\* The loop goes on with entries that are not handled yet.
LEMMA HandledContinues ==
    ASSUME Typed, HandledInv, [Next]_vars, log'.handled = log.handled,
           NEW batch \in SUBSET Ids, relay' = Continue(relay, batch),
           \A id \in batch : NotYet(id),
           relay.mode = "watch" =>
               \/ filter' = LogLength /\ batch \subseteq Logged
               \/ filter' = filter /\ Watching /\ batch \subseteq relay.batch
    PROVE  HandledInv'
<1>1. relay \in RelayState /\ relay.mode \in {"catchup", "watch"}
  BY Types, RelayTypes DEF Typed
<1>2. /\ relay'.pc \in {"nonce", "create", "poll"} /\ relay'.mode = relay.mode
      /\ relay'.batch = batch
  BY <1>1, ContinueIs
<1>3. Todo' = batch
  BY <1>2 DEF Todo, Sent
<1>4. ASSUME Watching', filter' # NoFilter, NEW id \in Ids, id > filter'
      PROVE  NotYet(id) /\ id \notin batch
  <2>1. relay.mode = "watch"
    BY <1>2, <1>4 DEF Watching
  <2>2. CASE filter' = LogLength /\ batch \subseteq Logged
    BY <1>4, <2>2, LaterNotYet
  <2>3. CASE filter' = filter /\ Watching /\ batch \subseteq relay.batch
    <3>1. FilterPast
      BY DEF HandledInv, FilterPast, NotYet
    <3>2. id \notin relay.batch /\ NotYet(id)
      BY <1>4, <2>3, <3>1, Zenon DEF FilterPast
    <3> QED
      BY <2>3, <3>2
  <2> QED
    BY <2>1, <2>2, <2>3
<1>5. FilterPast'
  BY <1>2, <1>4, Zenon DEF FilterPast, NotYet
<1> QED
  BY <1>2, <1>3, <1>5, HandledSame

\* The relay takes a step that hands no request to the server.
LEMMA HandledSteps ==
    ASSUME Typed, HandledInv, [Next]_vars, log'.handled = log.handled,
           NEW pc \in PCs \ {"start"}, NEW n \in Nat,
           NEW tx \in Tx \cup {NoTx}, NEW mode \in {"catchup", "watch"},
           Steps(pc, mode, n, tx),
           relay.batch = {} \/ (pc \in {"send", "wait"} <=> Sent),
           \/ filter' = LogLength
           \/ filter' = filter /\ (mode = "watch" => Watching)
    PROVE  HandledInv'
<1>1. relay \in RelayState
  BY Types DEF Typed
<1>2. /\ relay'.pc = pc /\ relay'.mode = mode /\ relay'.batch = relay.batch
  BY <1>1, SteppedIs DEF Steps
<1>3. \A id \in Todo' : NotYet(id)
  <2>1. Current' = Current
    BY <1>2 DEF Current
  <2>2. Todo' \subseteq Todo
    BY <1>2, <2>1 DEF Todo, Sent
  <2> QED
    BY <2>2 DEF HandledInv, NotYet
<1>4. FilterPast'
  <2>1. CASE filter' = LogLength
    BY <1>2, <2>1, LaterNotYet DEF FilterPast, NotYet
  <2>2. CASE filter' = filter /\ (mode = "watch" => Watching)
    BY <1>2, <2>2 DEF FilterPast, HandledInv, Watching, NotYet
  <2> QED
    BY <2>1, <2>2
<1> QED
  BY <1>2, <1>3, <1>4, HandledSame

\* The relay hands the request that the loop is at to the server.
LEMMA HandledProcess ==
    ASSUME Typed, HandledInv, Process
    PROVE  HandledInv'
<1>1. /\ relay \in RelayState /\ relay.mode \in {"catchup", "watch"}
      /\ relay.nonce \in Nat /\ log \in Log /\ log.handled \in [Ids -> Nat]
      /\ running \in SUBSET Tx /\ relay.batch \subseteq Logged
  BY Types, RelayTypes, LogTypes DEF Typed, LoopInv
<1>2. relay.pc = "process" /\ InLoop /\ UNCHANGED <<status, filter>>
  BY DEF Process, InLoop
<1>3. Current \in Ids /\ Current \in relay.batch /\ Own \in Tx
  BY <1>2, OwnIsTx DEF Typed
<1>4. PICK tx \in Tx \cup {NoTx} :
          PassedOn(tx) /\ relay' = [relay EXCEPT !.pc = "send", !.tx = tx]
  <2>1. \E tx \in {Own, NoTx} \cup running : \E rest : Received(tx, rest)
    BY DEF Process
  <2> QED
    BY <1>1, <1>3, <2>1 DEF Received, PassedOn
<1>5. relay'.pc = "send" /\ relay'.mode = relay.mode /\ relay'.batch = relay.batch
  BY <1>1, <1>4 DEF RelayState
<1>6. log'.handled = [log.handled EXCEPT ![Current] = @ + 1]
  BY <1>1, <1>3, <1>4, PassedOnIs
<1>7. Todo = relay.batch /\ Todo' = relay.batch \ {Current}
  BY <1>2, <1>5 DEF Todo, Sent, Current
<1>8. log.handled[Current] = 0 /\ log'.handled[Current] = 1
  BY <1>1, <1>3, <1>6, <1>7 DEF HandledInv
<1>9. \A id \in Ids \ {Current} : log'.handled[id] = log.handled[id]
  BY <1>1, <1>6
<1>10. Logged' = Logged /\ Logged \subseteq Ids
  BY <1>2 DEF Logged
<1>11. FilterPast'
  <2>1. FilterPast
    BY DEF HandledInv, FilterPast, NotYet
  <2>2. Watching' <=> Watching
    BY <1>2, <1>5 DEF Watching
  <2> QED
    BY <1>2, <1>3, <1>5, <1>9, <2>1, <2>2 DEF FilterPast, NotYet
<1>12. \A id \in Todo' : log'.handled[id] = 0
  BY <1>1, <1>7, <1>9, <1>10 DEF HandledInv
<1>13. \A id \in Ids : log'.handled[id] <= 1 /\ (log'.handled[id] # 0 => id \in Logged')
  BY <1>1, <1>3, <1>8, <1>9, <1>10 DEF HandledInv
<1> QED
  BY <1>5, <1>11, <1>12, <1>13 DEF HandledInv, FilterPast, NotYet

LEMMA HandledStart ==
    ASSUME Typed, NEW catchup \in BOOLEAN, Start(catchup)
    PROVE  HandledInv'
<1>1. log \in Log
  BY Types DEF Typed
<1>2. log'.handled = [id \in Ids |-> 0]
  BY <1>1 DEF Start, Log
<1>3. relay'.batch = {} /\ relay'.pc \in {"start", "create"}
  BY DEF Start, Down
<1> QED
  BY <1>2, <1>3 DEF HandledInv, Todo, Sent, Watching

LEMMA HandledRaised ==
    ASSUME Typed, HandledInv, [Next]_vars, UNCHANGED <<log, filter>>,
           relay' = Raised, InLoop
    PROVE  HandledInv'
<1>1. CASE relay.mode = "catchup"
  BY <1>1, HandledStops DEF Raised, Stops
<1>2. CASE relay.mode # "catchup"
  <2>1. relay' = Continue(relay, {}) /\ {} \in SUBSET Ids
    BY <1>2 DEF Raised
  <2>2. relay.mode = "watch" => Watching
    BY DEF Watching, InLoop
  <2> QED
    BY <2>1, <2>2, HandledContinues
<1> QED
  BY <1>1, <1>2

\* HandledInv holds after each step of the relay that is up.
LEMMA HandledRun ==
    ASSUME Typed, HandledInv, Run
    PROVE  HandledInv'
<1> [Next]_vars
  BY DEF Next
<1>1. /\ relay \in RelayState /\ relay.mode \in {"catchup", "watch"}
      /\ relay.nonce \in Nat /\ relay.tx \in Tx \cup {NoTx} /\ nonce \in Nat
      /\ LogLength \in 0..MaxRequests /\ Logged = 1..LogLength
      /\ relay.batch \subseteq Logged /\ relay.upto \in 0..LogLength
      /\ (relay.batch # {} <=> InLoop) /\ relay.batch \in SUBSET Ids
      /\ filter \in {NoFilter} \cup 0..MaxRequests
      /\ log \in Log
  BY Types, RelayTypes DEF Typed, ChainInv, LoopInv
<1>2. CASE Catchup
  <2>1. PICK batch \in SUBSET Ids : relay' = Continue(relay, batch)
    <3>1. Missing(relay.upto, relay.answered) \subseteq Ids
      BY <1>1 DEF Missing, Ids
    <3> QED
      BY <1>2, <3>1 DEF Catchup
  <2>2. log' = CaughtUp(relay') /\ relay.pc = "start" /\ relay' \in RelayState
    BY <1>2, NextLoopInv DEF Catchup
  <2>3. log'.handled = log.handled
    BY <1>1, <2>2, CaughtUpIs
  <2>4. relay.mode = "catchup"
    BY <2>2 DEF Typed, LoopInv
  <2>5. \A id \in batch : NotYet(id)
    BY <2>2 DEF HandledInv, NotYet
  <2> QED
    BY <2>1, <2>3, <2>4, <2>5, HandledContinues
<1>3. CASE CreateFilter
  <2>1. /\ relay' = [relay EXCEPT !.pc = "poll", !.mode = "watch"]
        /\ relay.pc = "create" /\ filter' = LogLength /\ UNCHANGED log
    BY <1>3 DEF CreateFilter, NewFilter
  <2>2. relay' = Stepped(relay, "poll", "watch", relay.nonce, relay.tx)
    BY <1>1, <2>1 DEF Stepped, RelayState
  <2>3. relay.batch = {}
    BY <1>1, <2>1 DEF InLoop
  <2> QED
    BY <1>1, <2>1, <2>2, <2>3, HandledSteps DEF Steps, PCs
<1>4. CASE Poll
  <2> DEFINE batch == (filter + 1)..LogLength
  <2>1. /\ relay' = Continue(relay, batch) /\ filter' = LogLength
        /\ UNCHANGED log /\ relay.pc = "poll" /\ filter # NoFilter
    BY <1>4 DEF Poll
  <2>2. batch \subseteq Logged /\ batch \in SUBSET Ids
    BY <1>1, <2>1 DEF Ids
  <2>3. Watching
    BY <2>1 DEF Watching, Typed, LoopInv
  <2>4. FilterPast /\ \A id \in batch : id \in Ids /\ id > filter
    BY <1>1, <2>1, <2>2 DEF HandledInv, FilterPast, NotYet
  <2>5. \A id \in batch : NotYet(id)
    BY <2>1, <2>3, <2>4 DEF FilterPast
  <2> HIDE DEF batch
  <2> QED
    BY <2>1, <2>2, <2>5, HandledContinues
<1>5. CASE PollRetired
  <2>1. relay.batch = {}
    BY <1>1, <1>5 DEF PollRetired, InLoop
  <2> QED
    BY <1>5, <2>1, HandledStays DEF PollRetired, NewFilter, Stays
<1>6. CASE ReadNonce
  <2>1. /\ relay' = Stepped(relay, "process", relay.mode, nonce, relay.tx)
        /\ relay.pc = "nonce" /\ UNCHANGED <<log, filter>>
    BY <1>1, <1>6 DEF ReadNonce, RelayStep, WalletNonce, Stepped, RelayState
  <2>2. (relay.mode = "watch" => Watching) /\ ~Sent
    BY <2>1 DEF Watching, Sent
  <2> QED
    BY <1>1, <2>1, <2>2, HandledSteps DEF Steps, PCs
<1>7. CASE Process
  BY <1>7, HandledProcess
<1>8. CASE Send
  <2>1. /\ relay' = Stepped(relay, "wait", relay.mode, relay.nonce, relay.tx)
        /\ relay.pc = "send" /\ UNCHANGED <<log, filter>>
    BY <1>1, <1>8 DEF Send, Stepped, RelayState
  <2>2. (relay.mode = "watch" => Watching) /\ Sent
    BY <2>1 DEF Watching, Sent
  <2> QED
    BY <1>1, <2>1, <2>2, HandledSteps DEF Steps, PCs
<1>9. CASE SendRejected \/ Timeout
  BY <1>9, HandledRaised DEF SendRejected, Timeout, RelayStep, InLoop
<1>10. CASE Receipt
  <2>1. /\ relay' = Continue(relay, relay.batch \ {Current})
        /\ log' = CaughtUp(relay') /\ relay.pc = "wait" /\ UNCHANGED filter
        /\ relay' \in RelayState
    BY <1>10, NextLoopInv DEF Receipt, RelayStep
  <2>2. log'.handled = log.handled
    BY <1>1, <2>1, CaughtUpIs
  <2>3. (relay.mode = "watch" => Watching) /\ Todo = relay.batch \ {Current}
    BY <2>1 DEF Watching, Todo, Sent
  <2>4. \A id \in relay.batch \ {Current} : NotYet(id)
    BY <2>3 DEF HandledInv, NotYet
  <2>5. relay.batch \ {Current} \in SUBSET Ids
    BY <1>1
  <2> QED
    BY <2>1, <2>2, <2>3, <2>4, <2>5, HandledContinues
<1> QED
  BY <1>2, <1>3, <1>4, <1>5, <1>6, <1>7, <1>8, <1>9, <1>10 DEF Run

LEMMA NextHandledInv == Typed /\ HandledInv /\ [Next]_vars => HandledInv'
<1> SUFFICES ASSUME Typed, HandledInv, [Next]_vars
             PROVE  HandledInv'
  OBVIOUS
<1>1. CASE Run
  BY <1>1, HandledRun
<1>2. CASE \E catchup \in Catchups : Start(catchup)
  BY <1>2, HandledStart
<1>3. CASE CallFails \/ Crash \/ SendLost
  <2>1. UNCHANGED <<log, filter>> /\ (Stops \/ (relay' = Raised /\ InLoop))
    BY <1>3 DEF CallFails, Crash, SendLost, Stops, InLoop
  <2> QED
    BY <2>1, HandledStops, HandledRaised
<1>4. ASSUME Stays, \/ filter' \in {filter, NoFilter}
                    \/ filter' = LogLength /\ relay.pc = "poll",
             \/ UNCHANGED log
             \/ \E tx \in mempool : Counted(tx)
      PROVE  HandledInv'
  <2>1. log \in Log /\ (relay.pc = "poll" => relay.batch = {})
    BY Types DEF Typed, LoopInv, InLoop
  <2>2. log'.handled = log.handled
    BY <1>4, <2>1 DEF Counted, Log
  <2> QED
    BY <1>4, <2>1, <2>2, HandledStays
<1>5. \/ Run \/ (\E catchup \in Catchups : Start(catchup))
      \/ CallFails \/ Crash \/ SendLost
      \/ /\ Stays
         /\ \/ filter' \in {filter, NoFilter}
            \/ filter' = LogLength /\ relay.pc = "poll"
         /\ \/ UNCHANGED log
            \/ \E tx \in mempool : Counted(tx)
  BY DEF Next, Request, Cancel, Mine, MineReverted, Mined, Counted, Drop,
     Retire, PollLost, Stays, vars
<1> QED
  BY <1>1, <1>2, <1>3, <1>4, <1>5

\* One run of the relay (catchup and wait_for_requests) never hands a request
\* to the server twice, whatever fails, is lost or retires: what the filter
\* returns is later than what catchup and the filter before it covered.
THEOREM RelayHandlesOnce == Spec => []HandledOncePerRun
<1>1. Init => HandledInv
  BY DownIs DEF Init, HandledInv, Todo, Sent, Watching
<1>2. Typed /\ HandledInv => HandledOncePerRun
  BY DEF Typed, HandledInv, HandledOncePerRun
<1> QED
  BY InitTyped, NextTyped, NextHandledInv, <1>1, <1>2, PTL DEF Spec
-----------------------------------------------------------------------------
(* Catchup leaves no request on its way.                                   *)

\* The relay waits for a transaction that is the next one or mined.
WaitInv ==
    relay.pc = "wait" =>
        \/ relay.tx \in mempool
        \/ mempool = {} /\ relay.tx.nonce = nonce
        \/ log.mined[relay.tx.id] > 0

\* The transaction sent for a request is its own one.
SentInv == Sent => relay.tx.id \in {0, Current} \/ Current \in log.crossed

\* The requests of the loop of catchup that are done with.
DoneInv ==
    InLoop /\ relay.mode = "catchup" =>
        (\A id \in 1..relay.upto :
            id \in Unresponded =>
                id \in relay.batch \/ log.mined[id] > 0 \/ id \in log.crossed)

\* The requests of a catchup that is done.
LeftInv == log.caughtUp <= LogLength /\ CatchupLeavesNone

CatchInv == WaitInv /\ SentInv /\ DoneInv /\ LeftInv

\* A request that was handled stays handled: no step but a start forgets it.
Kept == /\ \A id \in Ids : log.mined[id] > 0 => log'.mined[id] > 0
        /\ log.crossed \subseteq log'.crossed

LEMMA ResponsesStay ==
    ASSUME Typed, StatusStep
    PROVE  \A id \in 1..LogLength : id \in Unresponded' => id \in Unresponded
<1> SUFFICES ASSUME NEW id \in 1..LogLength, id \in Unresponded'
             PROVE  id \in Unresponded
  OBVIOUS
<1>1. /\ status \in [Ids -> Statuses] /\ id \in Ids /\ status[id] # "none"
      /\ status'[id] \in {"open", "cancelled"}
  BY DEF Typed, ChainInv, Unresponded, Logged
<1>2. status[id] \in {"open", "cancelled"}
  BY <1>1 DEF StatusStep, Delivered
<1> QED
  BY <1>1, <1>2 DEF Unresponded

LEMMA LeftKept ==
    ASSUME Typed, StatusStep, LeftInv, log'.caughtUp = log.caughtUp, Kept
    PROVE  LeftInv'
<1>1. /\ LogLength \in Nat /\ LogLength' \in Nat /\ LogLength <= LogLength'
      /\ log.caughtUp \in Nat /\ log.caughtUp <= LogLength
      /\ LogLength <= MaxRequests
  BY LogGrows, Types, LogTypes DEF Typed, ChainInv, LeftInv
<1>2. \A id \in 1..log.caughtUp : id \in 1..LogLength /\ id \in Ids
  BY <1>1 DEF Ids
<1>3. \A id \in 1..log.caughtUp :
          id \in Unresponded' => log'.mined[id] > 0 \/ id \in log'.crossed
  BY <1>2, ResponsesStay DEF LeftInv, CatchupLeavesNone, Kept
<1> QED
  BY <1>1, <1>3 DEF LeftInv, CatchupLeavesNone

LEMMA DoneKept ==
    ASSUME Typed, StatusStep, DoneInv, Kept, InLoop \/ ~InLoop',
           relay'.mode = relay.mode, relay'.upto = relay.upto,
           relay'.batch = relay.batch
    PROVE  DoneInv'
<1>1. relay.upto \in Nat /\ relay.upto <= LogLength /\ LogLength \in 0..MaxRequests
  BY Types, RelayTypes DEF Typed, ChainInv, LoopInv
<1>2. \A id \in 1..relay.upto : id \in 1..LogLength /\ id \in Ids
  BY <1>1 DEF Ids
<1>3. ASSUME InLoop', relay'.mode = "catchup", NEW id \in 1..relay.upto,
             id \in Unresponded'
      PROVE  id \in relay.batch \/ log'.mined[id] > 0 \/ id \in log'.crossed
  BY <1>2, <1>3, ResponsesStay DEF DoneInv, Kept
<1> QED
  BY <1>3 DEF DoneInv

\* The relay stays; what the chain and the node do with transactions of the
\* relay is all that matters.
LEMMA CatchStays ==
    ASSUME Typed, NonceInv, CatchInv, StatusStep, Stays,
           \/ UNCHANGED <<nonce, mempool, log>>
           \/ \E tx \in mempool : Mined(tx)
           \/ /\ UNCHANGED <<nonce, log>>
              /\ \E tx \in mempool : mempool' = mempool \ {tx}
    PROVE  CatchInv'
<1>1. /\ log \in Log /\ log.mined \in [Ids -> Nat] /\ relay' = relay
      /\ mempool \in SUBSET Tx /\ NonceNeverStuck
  BY Types, LogTypes DEF Typed, Stays, NonceInv
<1>2. Current' = Current
  BY <1>1 DEF Current
<1>3. CASE UNCHANGED <<nonce, mempool, log>>
  <2>1. Kept /\ WaitInv' /\ SentInv'
    BY <1>1, <1>2, <1>3 DEF Kept, CatchInv, WaitInv, SentInv, Sent
  <2> QED
    BY <1>1, <1>3, <2>1, LeftKept, DoneKept DEF CatchInv, InLoop
<1>4. ASSUME NEW tx \in mempool, Mined(tx)
      PROVE  CatchInv'
  <2>1. tx.id \in Ids
    BY <1>1 DEF Tx
  <2>2. /\ log'.mined = [log.mined EXCEPT ![tx.id] = @ + 1]
        /\ log'.crossed = log.crossed /\ log'.caughtUp = log.caughtUp
    BY <1>1, <1>4 DEF Mined, Log
  <2>3. Kept /\ log'.mined[tx.id] > 0
    BY <1>1, <2>1, <2>2 DEF Kept
  <2>4. WaitInv'
    <3>1. mempool = {tx}
      BY <1>1, <1>4 DEF NonceNeverStuck
    <3>2. relay.pc = "wait" => relay.tx \in Tx
      BY DEF Typed, LoopInv
    <3> QED
      BY <1>1, <2>3, <3>1, <3>2 DEF WaitInv, CatchInv, Kept, Tx
  <2>5. SentInv'
    BY <1>1, <1>2, <2>2 DEF CatchInv, SentInv, Sent
  <2> QED
    BY <1>1, <2>2, <2>3, <2>4, <2>5, LeftKept, DoneKept DEF CatchInv, InLoop
<1>5. ASSUME NEW tx \in mempool, mempool' = mempool \ {tx},
             UNCHANGED <<nonce, log>>
      PROVE  CatchInv'
  <2>1. mempool = {tx} /\ tx.nonce = nonce
    BY <1>1, <1>5 DEF NonceNeverStuck
  <2>2. Kept /\ WaitInv' /\ SentInv'
    BY <1>1, <1>2, <1>5, <2>1 DEF Kept, CatchInv, WaitInv, SentInv, Sent
  <2> QED
    BY <1>1, <1>5, <2>2, LeftKept, DoneKept DEF CatchInv, InLoop
<1> QED
  BY <1>3, <1>4, <1>5

\* The relay is in no loop of catchup afterwards.
LEMMA CatchLeaves ==
    ASSUME Typed, CatchInv, UNCHANGED <<status, log>>,
           ~InLoop' \/ (relay'.mode = "watch" /\ ~Sent')
    PROVE  CatchInv'
<1>1. StatusStep /\ Kept
  BY DEF StatusStep, Kept
<1>2. LeftInv'
  BY <1>1, LeftKept DEF CatchInv
<1> QED
  BY <1>2 DEF CatchInv, WaitInv, SentInv, DoneInv, Sent, InLoop

\* catchup starts its loop or goes on with it: what is not left in it is done.
LEMMA CatchContinues ==
    ASSUME Typed, CatchInv, UNCHANGED status, relay.mode = "catchup",
           NEW batch \in SUBSET Ids, relay' = Continue(relay, batch),
           log' = CaughtUp(relay'),
           \A id \in 1..relay.upto :
               id \in Unresponded =>
                   id \in batch \/ log.mined[id] > 0 \/ id \in log.crossed
    PROVE  CatchInv'
<1>1. /\ relay \in RelayState /\ log \in Log /\ LogLength' = LogLength
      /\ relay.upto <= LogLength /\ Unresponded' = Unresponded
  BY Types DEF Typed, LoopInv, LogLength, Logged, Unresponded
<1>2. /\ relay'.mode = "catchup" /\ relay'.batch = batch /\ relay' \in RelayState
      /\ relay'.pc = IF batch # {} THEN "nonce" ELSE "create"
      /\ relay'.upto = relay.upto
  BY <1>1, ContinueIs
<1>3. /\ log'.mined = log.mined /\ log'.crossed = log.crossed
      /\ log'.caughtUp = IF batch = {} THEN relay.upto ELSE log.caughtUp
  BY <1>1, <1>2, CaughtUpIs
<1>4. WaitInv' /\ SentInv'
  BY <1>2 DEF WaitInv, SentInv, Sent
<1>5. DoneInv'
  BY <1>1, <1>2, <1>3 DEF DoneInv, InLoop
<1>6. LeftInv'
  BY <1>1, <1>2, <1>3 DEF LeftInv, CatchInv, CatchupLeavesNone
<1> QED
  BY <1>4, <1>5, <1>6 DEF CatchInv

\* The transaction for the entry has its receipt: it was mined.
LEMMA ReceiptIsMined ==
    ASSUME Typed, NonceInv, CatchInv, relay.pc = "wait", HasReceipt
    PROVE  log.mined[Current] > 0 \/ Current \in log.crossed
<1>1. relay.tx \in Tx /\ nonce \in Nat
  BY Types DEF Typed, LoopInv
<1>2. relay.tx.nonce \in Nat /\ relay.tx.nonce < nonce /\ relay.tx \notin mempool
      /\ relay.tx.id \in Ids
  BY <1>1 DEF HasReceipt, Tx
<1>3. log.mined[relay.tx.id] > 0
  BY <1>1, <1>2 DEF CatchInv, WaitInv
<1>4. relay.tx.id = Current \/ Current \in log.crossed
  BY <1>2 DEF CatchInv, SentInv, Sent, Ids
<1> QED
  BY <1>3, <1>4

LEMMA CatchProcess ==
    ASSUME Typed, CatchInv, Process
    PROVE  CatchInv'
<1>1. /\ relay \in RelayState /\ log \in Log /\ running \in SUBSET Tx
      /\ UNCHANGED <<status, mempool, nonce>> /\ relay.pc = "process" /\ InLoop
  BY Types DEF Typed, Process, InLoop
<1>2. Current \in Ids /\ Own \in Tx
  BY <1>1, OwnIsTx DEF Typed
<1>3. PICK tx \in Tx \cup {NoTx} :
          PassedOn(tx) /\ relay' = [relay EXCEPT !.pc = "send", !.tx = tx]
  <2>1. \E tx \in {Own, NoTx} \cup running : \E rest : Received(tx, rest)
    BY DEF Process
  <2> QED
    BY <1>1, <1>2, <2>1 DEF Received, PassedOn
<1>4. /\ relay'.pc = "send" /\ relay'.mode = relay.mode
      /\ relay'.batch = relay.batch /\ relay'.upto = relay.upto /\ relay'.tx = tx
  BY <1>1, <1>3 DEF RelayState
<1>5. /\ log'.mined = log.mined /\ log'.caughtUp = log.caughtUp
      /\ log'.crossed = IF tx.id \in {0, Current} THEN log.crossed
                        ELSE log.crossed \cup {Current}
  BY <1>1, <1>2, <1>3, PassedOnIs
<1>6. Kept /\ StatusStep
  BY <1>1, <1>5 DEF Kept, StatusStep
<1>7. SentInv'
  BY <1>4, <1>5 DEF SentInv, Current
<1>8. DoneInv'
  BY <1>1, <1>4, <1>6, DoneKept DEF CatchInv
<1>9. LeftInv'
  BY <1>5, <1>6, LeftKept DEF CatchInv
<1> QED
  BY <1>4, <1>7, <1>8, <1>9 DEF CatchInv, WaitInv

LEMMA CatchSend ==
    ASSUME Typed, CatchInv, Send
    PROVE  CatchInv'
<1>1. /\ relay \in RelayState /\ relay.pc = "send" /\ UNCHANGED <<status, log>>
      /\ relay' = [relay EXCEPT !.pc = "wait"] /\ relay.tx \in mempool' /\ InLoop
  BY Types DEF Typed, Send, InLoop
<1>2. /\ relay'.pc = "wait" /\ relay'.mode = relay.mode
      /\ relay'.batch = relay.batch /\ relay'.upto = relay.upto
      /\ relay'.tx = relay.tx
  BY <1>1 DEF RelayState
<1>3. Kept /\ StatusStep
  BY <1>1 DEF Kept, StatusStep
<1>4. WaitInv' /\ SentInv'
  BY <1>1, <1>2 DEF CatchInv, WaitInv, SentInv, Sent, Current
<1> QED
  BY <1>1, <1>2, <1>3, <1>4, LeftKept, DoneKept DEF CatchInv

LEMMA CatchReadNonce ==
    ASSUME Typed, CatchInv, ReadNonce
    PROVE  CatchInv'
<1>1. /\ relay \in RelayState /\ UNCHANGED <<status, log>> /\ InLoop
      /\ relay' = [relay EXCEPT !.pc = "process", !.nonce = nonce]
  BY Types DEF Typed, ReadNonce, RelayStep, WalletNonce, InLoop
<1>2. /\ relay'.pc = "process" /\ relay'.mode = relay.mode
      /\ relay'.batch = relay.batch /\ relay'.upto = relay.upto
  BY <1>1 DEF RelayState
<1>3. Kept /\ StatusStep
  BY <1>1 DEF Kept, StatusStep
<1>4. WaitInv' /\ SentInv'
  BY <1>2 DEF WaitInv, SentInv, Sent
<1> QED
  BY <1>1, <1>2, <1>3, <1>4, LeftKept, DoneKept DEF CatchInv

\* The end of a loop over new entries, or the start of one.
LEMMA CatchWatches ==
    ASSUME Typed, CatchInv, UNCHANGED <<status, log>>, relay.mode = "watch",
           NEW batch \in SUBSET Ids, relay' = Continue(relay, batch)
    PROVE  CatchInv'
<1>1. relay'.mode = "watch" /\ ~Sent'
  BY Types, ContinueIs DEF Typed, Sent
<1> QED
  BY <1>1, CatchLeaves

LEMMA CatchRaised ==
    ASSUME Typed, CatchInv, UNCHANGED <<status, log>>, relay' = Raised
    PROVE  CatchInv'
<1>1. CASE relay.mode = "catchup"
  BY <1>1, DownIs, CatchLeaves DEF Raised, InLoop
<1>2. CASE relay.mode # "catchup"
  <2>1. relay.mode = "watch"
    BY <1>2, Types, RelayTypes DEF Typed
  <2>2. relay' = Continue(relay, {}) /\ {} \in SUBSET Ids
    BY <1>2 DEF Raised
  <2> QED
    BY <2>1, <2>2, CatchWatches
<1> QED
  BY <1>1, <1>2

LEMMA CatchStart ==
    ASSUME Typed, NEW catchup \in BOOLEAN, Start(catchup)
    PROVE  CatchInv'
<1>1. log \in Log /\ LogLength' = LogLength /\ LogLength \in Nat
  BY Types DEF Typed, ChainInv, Start, RelayStep, LogLength, Logged
<1>2. log'.caughtUp = 0
  BY <1>1 DEF Start, Log
<1>3. relay'.pc \in {"start", "create"}
  BY DEF Start, Down
<1> QED
  BY <1>1, <1>2, <1>3 DEF CatchInv, WaitInv, SentInv, Sent, DoneInv, InLoop,
     LeftInv, CatchupLeavesNone

\* CatchInv holds after each step of the relay that is up.
LEMMA CatchRun ==
    ASSUME Typed, NonceInv, CatchInv, Run
    PROVE  CatchInv'
<1>1. /\ relay \in RelayState /\ relay.mode \in {"catchup", "watch"}
      /\ relay.batch \in SUBSET Ids /\ relay.upto \in 0..LogLength
      /\ LogLength \in 0..MaxRequests /\ log \in Log
      /\ filter \in {NoFilter} \cup 0..MaxRequests
  BY Types, RelayTypes DEF Typed, ChainInv, LoopInv
<1>2. CASE Catchup
  <2> DEFINE batch == IF Unresponded = {} THEN {}
                      ELSE Missing(relay.upto, relay.answered)
  <2>1. relay.mode = "catchup" /\ UNCHANGED status
    BY <1>2 DEF Catchup, RelayStep, Typed, LoopInv
  <2>2. relay' = Continue(relay, batch) /\ log' = CaughtUp(relay')
    BY <1>2 DEF Catchup, CaughtUp
  <2>3. batch \in SUBSET Ids
    BY <1>1 DEF Missing, Ids
  <2>4. \A id \in 1..relay.upto : id \in Unresponded => id \in batch
    BY DEF Missing, Unresponded, Typed, LoopInv
  <2> HIDE DEF batch
  <2> QED
    BY <2>1, <2>2, <2>3, <2>4, CatchContinues
<1>3. CASE CreateFilter
  <2>1. ~InLoop' /\ UNCHANGED <<status, log>>
    BY <1>1, <1>3 DEF CreateFilter, InLoop, RelayState
  <2> QED
    BY <2>1, CatchLeaves
<1>4. CASE Poll
  <2>1. (filter + 1)..LogLength \in SUBSET Ids
    BY <1>1, <1>4 DEF Poll, Ids
  <2>2. relay.mode = "watch"
    BY <1>4 DEF Poll, Typed, LoopInv
  <2> QED
    BY <1>4, <2>1, <2>2, CatchWatches DEF Poll
<1>5. CASE PollRetired
  <2>1. StatusStep
    BY <1>5 DEF PollRetired, StatusStep
  <2> QED
    BY <1>5, <2>1, CatchStays DEF PollRetired, Stays
<1>6. CASE ReadNonce
  BY <1>6, CatchReadNonce
<1>7. CASE Process
  BY <1>7, CatchProcess
<1>8. CASE Send
  BY <1>8, CatchSend
<1>9. CASE SendRejected \/ Timeout
  BY <1>9, CatchRaised DEF SendRejected, Timeout, RelayStep
<1>10. CASE Receipt
  <2>1. /\ relay.pc = "wait" /\ HasReceipt /\ UNCHANGED status
        /\ relay' = Continue(relay, relay.batch \ {Current})
        /\ log' = CaughtUp(relay')
    BY <1>10 DEF Receipt, RelayStep
  <2>2. relay.batch \ {Current} \in SUBSET Ids
    BY <1>1
  <2>3. CASE relay.mode = "watch"
    <3>1. UNCHANGED log
      BY <1>1, <2>1, <2>2, <2>3, ContinueIs DEF CaughtUp
    <3> QED
      BY <2>1, <2>2, <2>3, <3>1, CatchWatches
  <2>4. CASE relay.mode = "catchup"
    <3>1. \A id \in 1..relay.upto :
              id \in Unresponded =>
                  id \in relay.batch \/ log.mined[id] > 0 \/ id \in log.crossed
      BY <2>1, <2>4 DEF CatchInv, DoneInv, InLoop
    <3>2. \A id \in 1..relay.upto :
              id \in Unresponded =>
                  \/ id \in relay.batch \ {Current}
                  \/ log.mined[id] > 0 \/ id \in log.crossed
      BY <2>1, <3>1, ReceiptIsMined
    <3> QED
      BY <2>1, <2>2, <2>4, <3>2, CatchContinues
  <2> QED
    BY <1>1, <2>3, <2>4
<1> QED
  BY <1>2, <1>3, <1>4, <1>5, <1>6, <1>7, <1>8, <1>9, <1>10 DEF Run

LEMMA NextCatchInv == Typed /\ NonceInv /\ CatchInv /\ [Next]_vars => CatchInv'
<1> SUFFICES ASSUME Typed, NonceInv, CatchInv, [Next]_vars
             PROVE  CatchInv'
  OBVIOUS
<1>1. CASE Run
  BY <1>1, CatchRun
<1>2. CASE \E catchup \in Catchups : Start(catchup)
  BY <1>2, CatchStart
<1>3. CASE CallFails \/ Crash \/ SendLost
  <2>1. UNCHANGED <<status, log>> /\ (relay' = Down \/ relay' = Raised)
    BY <1>3 DEF CallFails, Crash, SendLost
  <2>2. CASE relay' = Down
    BY <2>1, <2>2, DownIs, CatchLeaves DEF InLoop
  <2> QED
    BY <2>1, <2>2, CatchRaised
<1>4. ASSUME Stays,
             \/ UNCHANGED <<nonce, mempool, log>>
             \/ \E tx \in mempool : Mined(tx)
             \/ /\ UNCHANGED <<nonce, log>>
                /\ \E tx \in mempool : mempool' = mempool \ {tx}
      PROVE  CatchInv'
  <2>1. StatusStep
    BY StepsOfStatus DEF Typed
  <2> QED
    BY <1>4, <2>1, CatchStays
<1>5. \/ Run \/ (\E catchup \in Catchups : Start(catchup))
      \/ CallFails \/ Crash \/ SendLost
      \/ /\ Stays
         /\ \/ UNCHANGED <<nonce, mempool, log>>
            \/ \E tx \in mempool : Mined(tx)
            \/ /\ UNCHANGED <<nonce, log>>
               /\ \E tx \in mempool : mempool' = mempool \ {tx}
  BY DEF Next, Request, Cancel, Mine, MineReverted, Drop, Retire, PollLost,
     Stays, vars
<1> QED
  BY <1>1, <1>2, <1>3, <1>4, <1>5

\* A catchup that is done leaves no request on its way: each one up to its
\* block was responded to, or its transaction was mined without an effect, or
\* the server crossed it with another one.
THEOREM CatchupIsComplete == Spec => []CatchupLeavesNone
<1>1. Init => CatchInv
  <2> SUFFICES ASSUME Init
               PROVE  CatchInv
    OBVIOUS
  <2>1. LogLength = 0 /\ relay.pc = "down" /\ log.caughtUp = 0
    BY FS_EmptySet, DownIs DEF Init, LogLength, Logged
  <2> QED
    BY <2>1 DEF CatchInv, WaitInv, SentInv, Sent, DoneInv, InLoop, LeftInv,
       CatchupLeavesNone
<1>2. CatchInv => CatchupLeavesNone
  BY DEF CatchInv, LeftInv
<1> QED
  BY InitTyped, NextTyped, InitNonceInv, NextNonceInv, NextCatchInv, <1>1, <1>2,
     PTL DEF Spec
=============================================================================
