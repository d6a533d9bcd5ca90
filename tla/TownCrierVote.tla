--------------------------- MODULE TownCrierVote ---------------------------
(***************************************************************************)
(* The TownCrier contract with voting (contracts/TownCrier-vote.sol):      *)
(* three enclaves answer each request, and two equal answers decide.       *)
(*                                                                         *)
(* The enclaves' wallets are no contracts.  The callback gets control when *)
(* deliver has nothing left to do, so what it requests is a request of its *)
(* own here, and a callback that fails undoes nothing of deliver.  A       *)
(* deliver that is refused, or runs out of gas, changes nothing.  The hash *)
(* of the parameters stands for the request: an enclave that was given     *)
(* other data is refused.                                                  *)
(***************************************************************************)
EXTENDS Integers, FiniteSets, Sequences

CONSTANTS
    Enclaves,            \* SGX1_ADDRESS, SGX2_ADDRESS, SGX3_ADDRESS
    Responses,           \* what an enclave may answer
    NoResponse,          \* the zero of an unused field
    Values,              \* amounts of wei that may come with a request
    FIRST_DELIVER_COST, SECOND_DELIVER_COST, LAST_DELIVER_COST,
    MAX_FEE,
    MaxRequests,         \* bound: last request id the model issues
    MaxRefused,          \* bound: refused requests
    MaxVotes             \* bound: votes on all requests together

Costs == {FIRST_DELIVER_COST, SECOND_DELIVER_COST, LAST_DELIVER_COST}
MIN_FEE == FIRST_DELIVER_COST + SECOND_DELIVER_COST + LAST_DELIVER_COST

ASSUME VoteAssumption ==
    /\ IsFiniteSet(Enclaves) /\ Cardinality(Enclaves) = 3
    /\ NoResponse \notin Responses
    /\ Values \subseteq Nat /\ MAX_FEE \in Nat /\ Costs \subseteq Nat \ {0}
    /\ MaxRequests \in Nat /\ MaxRefused \in Nat /\ MaxVotes \in Nat

RequestIds == 1..MaxRequests
Answers == Responses \cup {NoResponse}

Request == [fee: Nat, responseCnt: {0, 1, 2}, response0: Answers, response1: Answers]

VARIABLES
    requestCnt,          \* the next id
    requests,
    balance,
    refused,             \* requests refused so far, whose ether stays
    votes,               \* per request, who voted, for what (history)
    paid,                \* per request, the fee and what was paid of it (history)
    callbacks            \* per request, the responses called back (history)

vars == <<requestCnt, requests, balance, refused, votes, paid, callbacks>>

Init ==
    /\ requestCnt = 1
    /\ requests = [id \in RequestIds |->
                      [fee |-> 0, responseCnt |-> 0,
                       response0 |-> NoResponse, response1 |-> NoResponse]]
    /\ balance = 0 /\ refused = 0
    /\ votes = [id \in RequestIds |-> <<>>]
    /\ paid = [id \in RequestIds |-> [of |-> 0, sum |-> 0]]
    /\ callbacks = [id \in RequestIds |-> <<>>]

\* request by whoever sends `value`.  Nothing is sent back if it is refused.
RequestRefused(value) ==
    /\ value < MIN_FEE \/ value > MAX_FEE
    /\ refused < MaxRefused
    /\ balance' = balance + value
    /\ refused' = refused + 1
    /\ UNCHANGED <<requestCnt, requests, votes, paid, callbacks>>

RequestRecorded(value) ==
    /\ MIN_FEE <= value /\ value <= MAX_FEE
    /\ requestCnt <= MaxRequests
    /\ requestCnt' = requestCnt + 1
    /\ requests' = [requests EXCEPT ![requestCnt].fee = value,
                                    ![requestCnt].responseCnt = 0]
    /\ paid' = [paid EXCEPT ![requestCnt].of = value]
    /\ balance' = balance + value
    /\ UNCHANGED <<refused, votes, callbacks>>

\* send: nothing happens if the balance does not suffice.
Send(id, amount) ==
    IF amount <= balance
    THEN /\ balance' = balance - amount
         /\ paid' = [paid EXCEPT ![id].sum = @ + amount]
    ELSE UNCHANGED <<balance, paid>>

Deliverable(id) == requests[id].fee # 0

Voted(e, id, resp) ==
    votes' = [votes EXCEPT ![id] = Append(@, [by |-> e, resp |-> resp])]

DeliverFirst(id, resp) ==
    /\ requests[id].responseCnt = 0
    /\ requests' = [requests EXCEPT ![id].response0 = resp,
                                    ![id].responseCnt = 1]
    /\ Send(id, FIRST_DELIVER_COST)
    /\ UNCHANGED callbacks

DeliverSecond(id, resp) ==
    /\ requests[id].responseCnt = 1
    /\ requests' = [requests EXCEPT ![id].response1 = resp,
                                    ![id].responseCnt = 2]
    /\ Send(id, SECOND_DELIVER_COST)
    /\ UNCHANGED callbacks

\* Mutant of Winner: the first two need not agree.
WinnerFirst(r, resp) ==
    IF resp \in {r.response0, r.response1} THEN resp ELSE r.response0

\* Mutant of Winner: the third vote must agree with another one.
WinnerWithLast(r, resp) ==
    IF resp \in {r.response0, r.response1} THEN resp ELSE NoResponse

\* The response that two votes agree on, if any.
Winner(r, resp) ==
    CASE resp \in {r.response0, r.response1} -> resp
      [] resp \notin {r.response0, r.response1} /\ r.response0 = r.response1 ->
           r.response1
      [] OTHER -> NoResponse

\* Mutant of LastPayment: all of the fee, if it settles the request.
LastPaymentAll(r, winner) ==
    IF winner = NoResponse THEN LAST_DELIVER_COST ELSE r.fee

LastPayment(r, winner) ==
    IF winner = NoResponse THEN LAST_DELIVER_COST
    ELSE r.fee - (FIRST_DELIVER_COST + SECOND_DELIVER_COST)

\* Mutant of Undecided: the vote is counted like those before.
UndecidedCounted(id) ==
    /\ requests' = [requests EXCEPT ![id].responseCnt = @ + 1]
    /\ UNCHANGED callbacks

\* None of the options won.
Undecided(id) == UNCHANGED <<requests, callbacks>>

\* The third vote, and without a majority all that follow.
DeliverLast(id, resp) ==
    LET winner == Winner(requests[id], resp) IN
    /\ requests[id].responseCnt = 2
    /\ Send(id, LastPayment(requests[id], winner))
    /\ IF winner = NoResponse
       THEN Undecided(id)
       ELSE /\ requests' = [requests EXCEPT ![id].fee = 0]
            /\ callbacks' = [callbacks EXCEPT ![id] = Append(@, winner)]

VotesCast ==
    LET upTo[n \in 0..MaxRequests] ==
            IF n = 0 THEN 0 ELSE upTo[n - 1] + Len(votes[n])
    IN  upTo[MaxRequests]

\* deliver by one of the enclaves, which may have voted before.
Deliver(e, id, resp) ==
    /\ VotesCast < MaxVotes
    /\ Deliverable(id)
    /\ Voted(e, id, resp)
    /\ \/ DeliverFirst(id, resp)
       \/ DeliverSecond(id, resp)
       \/ DeliverLast(id, resp)
    /\ UNCHANGED <<requestCnt, refused>>

Next ==
    \/ \E value \in Values : RequestRefused(value) \/ RequestRecorded(value)
    \/ \E e \in Enclaves, id \in RequestIds, resp \in Responses :
           Deliver(e, id, resp)

Spec == Init /\ [][Next]_vars
-----------------------------------------------------------------------------
(* Properties.                                                             *)

Vote == [by: Enclaves, resp: Responses]

TypeOK ==
    /\ requestCnt \in 1..(MaxRequests + 1)
    /\ requests \in [RequestIds -> Request]
    /\ balance \in Nat /\ refused \in 0..MaxRefused
    /\ votes \in [RequestIds -> Seq(Vote)]
    /\ paid \in [RequestIds -> [of: Nat, sum: Nat]]
    /\ callbacks \in [RequestIds -> Seq(Responses)]

\* No enclave voted twice on the request.  The contract does not see to that.
OnceEach(id) ==
    \A i, j \in DOMAIN votes[id] : votes[id][i].by = votes[id][j].by => i = j

\* A request is called back at most once, with a response that got two votes,
\* and is settled then.  As long as no enclave votes twice these are votes of
\* two enclaves, so that one alone decides nothing.
AnsweredByTwo ==
    \A id \in RequestIds : callbacks[id] # <<>> =>
        /\ Len(callbacks[id]) = 1 /\ ~Deliverable(id)
        /\ \E i, j \in DOMAIN votes[id] :
               /\ i # j
               /\ votes[id][i].resp = callbacks[id][1]
               /\ votes[id][j].resp = callbacks[id][1]
               /\ OnceEach(id) => votes[id][i].by # votes[id][j].by

\* Of three votes two that agree decide, whichever they are: the request stays
\* open beyond the third vote only if those three all differ.
MajorityDecides ==
    \A id \in RequestIds : Len(votes[id]) >= 3 /\ Deliverable(id) =>
        \A i, j \in 1..3 : votes[id][i].resp = votes[id][j].resp => i = j

\* What was paid for n votes on a request with this fee.
Due(n, answered, fee) ==
    IF answered THEN fee
    ELSE CASE n = 0 -> 0
           [] n = 1 -> FIRST_DELIVER_COST
           [] n = 2 -> FIRST_DELIVER_COST + SECOND_DELIVER_COST
           [] OTHER -> MIN_FEE

\* The votes beyond one of each enclave.
Repeated(id) == IF Len(votes[id]) > 3 THEN Len(votes[id]) - 3 ELSE 0

\* As long as no enclave votes twice, each vote is paid, out of the fee of its own
\* request.  Otherwise a request without a majority pays for every further vote, in
\* the end from the fees of others, whose votes go unpaid: but never more than
\* the price of a last vote for each, also if it settles the request.
EachVotePaid ==
    /\ (\A id \in RequestIds : OnceEach(id)) =>
           \A id \in RequestIds :
               paid[id].sum = Due(Len(votes[id]), callbacks[id] # <<>>, paid[id].of)
    /\ \A id \in RequestIds :
           paid[id].sum <= paid[id].of + LAST_DELIVER_COST * Repeated(id)
=============================================================================
