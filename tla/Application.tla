---------------------------- MODULE Application ----------------------------
(***************************************************************************)
(* The example contract Application (contracts/Application.sol) together   *)
(* with the TownCrier contract it uses.                                    *)
(***************************************************************************)
EXTENDS TownCrierClient

\* In the units of TownCrier's InitialPrices: 5000 gas at 5 * 10^10 wei.
TC_FEE == 10
CANCELLATION_FEE == 5

\* `held` is history: the wei Application got from TownCrier on account of
\* each request minus the wei it paid to users for it.  `paid` is the latter.
AppState == [requesters: [RequestIds -> Users \cup {NoAddress}],
             fee: [RequestIds -> Nat], balance: Nat,
             held: [RequestIds -> Int], paid: [RequestIds -> Nat]]

\* Ether on account of request id comes from TownCrier, or leaves for a user.
Receive(a, id, v) == [a EXCEPT !.balance = @ + v, !.held[id] = @ + v]
Spend(a, id, v) ==
    [a EXCEPT !.balance = @ - v, !.held[id] = @ - v, !.paid[id] = @ + v]
-----------------------------------------------------------------------------
Init ==
    /\ TownCrier!Init
    /\ app = [requesters |-> [i \in RequestIds |-> NoAddress],
              fee |-> [i \in RequestIds |-> 0], balance |-> 0,
              held |-> [i \in RequestIds |-> 0],
              paid |-> [i \in RequestIds |-> 0]]
    /\ calls = <<>>

\* request with too little ether, or refused by TownCrier, which sends the
\* ether back to Application: the user gets it back.
RequestRefused(u, v) ==
    /\ CanCall(u)
    /\ \/ v < TC_FEE
       \/ ~tc.externalCallFlag /\ ~Accepts(v)
    /\ PayUser("request", u, Now, Now, Now)

\* Mutant of RequestSent: the requester is stored under the following id.
RequestSentOffByOne(u, v) ==
    /\ CanCall(u)
    /\ v >= TC_FEE
    /\ ~tc.externalCallFlag /\ Accepts(v)
    /\ tc.requestCnt < MaxRequests
    /\ tc' = TownCrier!Recorded(tc, App, v, App, Param)
    /\ app' = [app EXCEPT !.requesters[tc.requestCnt + 1] = u,
                          !.fee[tc.requestCnt + 1] = v]
    /\ UNCHANGED calls

\* request: the ether goes on to TownCrier, which records Application as the
\* requester and as the contract to call back.
RequestSent(u, v) ==
    /\ CanCall(u)
    /\ v >= TC_FEE
    /\ ~tc.externalCallFlag /\ Accepts(v)
    /\ tc.requestCnt <= MaxRequests
    /\ tc' = TownCrier!Recorded(tc, App, v, App, Param)
    /\ app' = [app EXCEPT !.requesters[tc.requestCnt] = u,
                          !.fee[tc.requestCnt] = v]
    /\ UNCHANGED calls
-----------------------------------------------------------------------------
(* deliver and the callback response.                                      *)

\* deliver up to the callback; a refund goes to the requester, Application.
Delivering(id, error) ==
    [tc  |-> AtCallback(id, error),
     app |-> IF error >= 2 /\ tc.requests[id].requester = App
             THEN Receive(app, id, tc.requests[id].fee) ELSE app]

\* Mutant of Answered: the requester is kept.
AnsweredKept(a, id) == a

\* response marks the request as responded to.
Answered(a, id) == [a EXCEPT !.requesters[id] = NoAddress]

\* The fee of a cancelled request goes to SGX; there is no callback.
DeliverCancelled(id) ==
    /\ calls = <<>>
    /\ TownCrier!DeliverCancelled(id, Param)
    /\ UNCHANGED <<app, calls>>

\* response to an answer, or to an error while nobody is to be paid: a
\* request that is not Application's, or a payment it cannot afford.
ResponseLogged(id, error) ==
    /\ calls = <<>>
    /\ Pending(id)
    /\ LET s == Delivering(id, error) IN
           /\ \/ error < 2
              \/ app.requesters[id] = NoAddress
              \/ s.app.balance < app.fee[id]
           /\ Become(DeliverEnds([s EXCEPT !.app = Answered(@, id)]))
    /\ UNCHANGED calls

\* response to an error pays the fee back to the requester.
ResponseRefunds(id, error) ==
    /\ calls = <<>>
    /\ Pending(id)
    /\ error >= 2
    /\ app.requesters[id] # NoAddress
    /\ LET s == Delivering(id, error) IN
           /\ s.app.balance >= app.fee[id]
           /\ PayUser("response", app.requesters[id], s,
                  [s EXCEPT !.app = Answered(@, id)],
                  [s EXCEPT !.app = Spend(Answered(@, id), id, app.fee[id])])

\* response itself runs out of the gas that the fee pays for.
ResponseFails(id, error) ==
    /\ calls = <<>>
    /\ Pending(id)
    /\ Become(DeliverEnds(Delivering(id, error)))
    /\ UNCHANGED calls
-----------------------------------------------------------------------------
\* TownCrier's cancel on behalf of Application succeeds.
CancelledByTC(id) ==
    /\ ~tc.killswitch
    /\ tc.requests[id].requester = App
    /\ tc.requests[id].fee >= tc.CANCELLATION_FEE

\* Mutant of Cancel: the result of TownCrier's cancel is not looked at.
CancelUnchecked(u, id) ==
    /\ CanCall(u)
    /\ id # 0 /\ app.requesters[id] = u
    /\ ~tc.externalCallFlag
    /\ LET back == IF CancelledByTC(id)
                   THEN tc.requests[id].fee - tc.CANCELLATION_FEE ELSE 0
           due == app.fee[id] - CANCELLATION_FEE
       IN  /\ tc.balance >= back
           /\ app.balance + back >= due
           /\ PayUser("cancel", u, Now, Now,
                  [tc  |-> IF CancelledByTC(id)
                           THEN [TownCrier!Cancelled(tc, id) EXCEPT
                                    !.externalCallFlag = FALSE]
                           ELSE tc,
                   app |-> Spend(Answered(Receive(app, id, back), id), id, due)])

\* cancel: what TownCrier pays back comes in, the fee minus the constant
\* cancellation fee goes out.  A payment it cannot afford throws.
Cancel(u, id) ==
    /\ CanCall(u)
    /\ id # 0 /\ app.requesters[id] = u
    /\ ~tc.externalCallFlag
    /\ CancelledByTC(id)
    /\ LET back == tc.requests[id].fee - tc.CANCELLATION_FEE
           due == app.fee[id] - CANCELLATION_FEE
       IN  /\ tc.balance >= back
           /\ app.balance + back >= due
           /\ PayUser("cancel", u, Now, Now,
                  [tc  |-> [TownCrier!Cancelled(tc, id) EXCEPT
                               !.externalCallFlag = FALSE],
                   app |-> Spend(Answered(Receive(app, id, back), id), id, due)])
-----------------------------------------------------------------------------
Next ==
    \/ \E u \in Users, v \in Values :
           RequestRefused(u, v) \/ RequestSent(u, v) \/ ForeignRequest(u, v)
    \/ \E id \in RequestIds : DeliverCancelled(id)
    \/ \E id \in RequestIds, error \in Errors :
           \/ ResponseLogged(id, error)
           \/ ResponseRefunds(id, error)
           \/ ResponseFails(id, error)
    \/ \E u \in Users, id \in RequestIds : Cancel(u, id)
    \/ PaymentEnds
    \/ OwnerCall

Spec == Init /\ [][Next]_vars
-----------------------------------------------------------------------------
(* Properties.                                                             *)

\* The stored values have their types; in particular the balance never
\* becomes negative.
TypeOK ==
    /\ tc \in TownCrier!World
    /\ app \in AppState
    /\ calls \in Seq(Frame(AppState))

\* A request that TownCrier holds for Application has a user to answer to
\* and the fee that user paid; once it is cancelled there it has none, so
\* that it can be neither answered nor cancelled again.
RequestersAgree ==
    /\ TypeOK
    /\ \A id \in RequestIds \ {0} :
           tc.requests[id].requester = App =>
               /\ Pending(id) => /\ app.requesters[id] # NoAddress
                                 /\ app.fee[id] = tc.requests[id].fee
               /\ tc.requests[id].fee = TownCrier!CANCELLED_FEE_FLAG =>
                      app.requesters[id] = NoAddress

\* A user is paid for a request at most what was paid in, and nothing more
\* may be asked for a request that was paid out.
PaidOnce ==
    \A id \in RequestIds :
        /\ app.paid[id] <= app.fee[id]
        /\ app.paid[id] > 0 => app.requesters[id] = NoAddress

\* No user is paid with the ether that belongs to another user's request, but
\* for a cancellation after the owner raised Town Crier's cancellation fee:
\* Application pays as if it were its constant, and exactly the difference is
\* missing.
LossOnlyByReset ==
    \A id \in RequestIds :
        \/ app.held[id] >= 0
        \/ /\ app.requesters[id] = NoAddress
           /\ \E a \in ResetArgs :
                  app.held[id] = CANCELLATION_FEE - a.price * a.cancellationGas
=============================================================================
