-------------------------- MODULE FlightInsurance --------------------------
(***************************************************************************)
(* The example contract FlightInsurance (contracts/FlightInsurance.sol)    *)
(* together with the TownCrier contract it asks for the delay of a flight. *)
(*                                                                         *)
(* Time is counted in days: DAY_EPOCH is 1, and a flight departs at the    *)
(* beginning of a day.  Amounts are in the units of TownCrier's            *)
(* InitialPrices and are computed modulo WORD, as those of uint are modulo *)
(* 2^256; the premium is a caller's argument and may have any value.       *)
(***************************************************************************)
EXTENDS TownCrierClient

LOCAL INSTANCE FiniteSetsExt

CONSTANTS
    InsuranceOwner,   \* the user that deployed FlightInsurance
    WORD,             \* number of values of a uint
    Payments,         \* the premiums a user may ask for, in wei: of the product
                      \* with ETHER_TO_WEI only the lowest 256 bits are left
    Departures,       \* the days on which flights depart
    Delays,           \* the answers, read as numbers, that TownCrier may give
    Pool,             \* the ether the deployer put into the contract
    MaxPolicies,      \* bound: policies sold
    MaxDay            \* bound: the last day of the model

ASSUME InsuranceAssumption ==
    /\ InsuranceOwner \in Users
    /\ WORD \in Nat \ {0}
    /\ Payments \subseteq 0..(WORD - 1)
    /\ Departures \subseteq Nat
    /\ Delays \subseteq Nat
    /\ Pool \in Nat
    /\ MaxPolicies \in Nat
    /\ MaxDay \in Nat

VARIABLE today

insuranceVars == <<tc, app, calls, today>>

TC_FEE == 10
PAYOUT_RATE == 5
PAYOUT_DELAY == 30

PolicyIds == 0..MaxPolicies

Policy == [requester: Users \cup {NoAddress}, tc_id: Int,
           departure: Departures \cup {0}, fee: Nat, premium: Nat]

\* `payouts` is history: what became of each policy's money.  `why` says
\* what settled the policy (`rejected`: whoever response paid refused the
\* ether), `due` is the amount that the comments of the contract promise,
\* `sent` the amount paid, `count` the number of payments.
Payout == [why: {"open", "refused", "cancelled", "answer", "error",
                 "rejected"},
           count: Nat, due: Nat, sent: Nat]
InsuranceState ==
    [policyCnt: Nat, policies: [PolicyIds -> Policy],
     id_map: [RequestIds -> PolicyIds], balance: Nat,
     payouts: [PolicyIds -> Payout]]
-----------------------------------------------------------------------------
\* Mutant of Settled: a policy is not marked.
SettledNever(a, pid) == a

\* The fee field doubles as the mark of a policy that was responded to or
\* cancelled.
Settled(a, pid) == [a EXCEPT !.policies[pid].fee = 0]

\* The account books of a payment of v wei for policy pid, where `due` was
\* promised.
Paid(a, pid, why, v, due) ==
    [a EXCEPT !.balance = @ - v,
              !.payouts[pid] = [why |-> why, count |-> @.count + 1,
                                due |-> due, sent |-> v]]

Init ==
    /\ TownCrier!Init
    /\ app = [policyCnt |-> 1,
              policies |-> [i \in PolicyIds |->
                  [requester |-> NoAddress, tc_id |-> 0, departure |-> 0,
                   fee |-> 0, premium |-> 0]],
              id_map |-> [i \in RequestIds |-> 0], balance |-> Pool,
              payouts |-> [i \in PolicyIds |->
                  [why |-> "open", count |-> 0, due |-> 0, sent |-> 0]]]
    /\ calls = <<>>
    /\ today = 0

\* A new day; block.timestamp does not change within a transaction.
Tomorrow ==
    /\ calls = <<>>
    /\ today < MaxDay
    /\ today' = today + 1
    /\ UNCHANGED vars

\* insure with too little ether or too late: the ether goes back.  The price of a
\* premium just below 2^256 wraps, and so does the fee that is left of the ether.
InsureRefused(u, v, payment, departure) ==
    /\ CanCall(u)
    /\ v < (payment + TC_FEE) % WORD \/ today + 1 > departure
    /\ PayUser("insure", u, Now, Now, Now)
    /\ UNCHANGED today

Insure(u, v, payment, departure) ==
    /\ CanCall(u)
    /\ v >= (payment + TC_FEE) % WORD /\ today + 1 <= departure
    /\ app.policyCnt <= MaxPolicies
    /\ app' = [app EXCEPT !.policyCnt = @ + 1, !.balance = @ + v,
                          !.policies[app.policyCnt] =
                              [requester |-> u, tc_id |-> 0,
                               departure |-> departure,
                               fee |-> (v - payment) % WORD, premium |-> payment]]
    /\ UNCHANGED <<tc, calls, today>>
-----------------------------------------------------------------------------
\* request and cancel: the policy is the caller's and still open.
MayAsk(u, pid) ==
    /\ pid # 0
    /\ app.policies[pid].requester = u
    /\ app.policies[pid].tc_id = 0
    /\ app.policies[pid].fee # 0

\* Mutant of RequestSent: the map is written under the count of requests
\* that were made before.
RequestSentMiscounted(u, pid) ==
    /\ CanCall(u)
    /\ MayAsk(u, pid)
    /\ LET fee == app.policies[pid].fee IN
           /\ ~tc.externalCallFlag /\ Accepts(fee)
           /\ app.balance >= fee
           /\ tc.requestCnt <= MaxRequests
           /\ tc' = TownCrier!Recorded(tc, App, fee, App, Param)
           /\ app' = [app EXCEPT !.policies[pid].tc_id = tc.requestCnt,
                                 !.id_map[tc.requestCnt - 1] = pid,
                                 !.balance = @ - fee]
    /\ UNCHANGED <<calls, today>>

\* request: the fee goes to TownCrier, which takes the request.
RequestSent(u, pid) ==
    /\ CanCall(u)
    /\ MayAsk(u, pid)
    /\ LET fee == app.policies[pid].fee IN
           /\ ~tc.externalCallFlag /\ Accepts(fee)
           /\ app.balance >= fee
           /\ tc.requestCnt <= MaxRequests
           /\ tc' = TownCrier!Recorded(tc, App, fee, App, Param)
           /\ app' = [app EXCEPT !.policies[pid].tc_id = tc.requestCnt,
                                 !.id_map[tc.requestCnt] = pid,
                                 !.balance = @ - fee]
    /\ UNCHANGED <<calls, today>>

\* request: TownCrier sends the fee back and returns newVersion, which is 0
\* here, or FAIL_FLAG; then the policy is refunded, without the fee, which
\* was just cleared.
RequestRefused(u, pid) ==
    /\ CanCall(u)
    /\ MayAsk(u, pid)
    /\ LET policy == app.policies[pid]
           result == IF tc.killswitch THEN 0 ELSE -1
           a == [Settled(app, pid) EXCEPT !.policies[pid].tc_id = result]
           v == (a.policies[pid].premium + a.policies[pid].fee) % WORD
       IN  /\ ~tc.externalCallFlag /\ ~Accepts(policy.fee)
           /\ app.balance >= policy.fee /\ app.balance >= v
           /\ PayUser("request", u, Now, Now,
                  [Now EXCEPT !.app =
                      Paid(a, pid, "refused", v,
                           (policy.premium + policy.fee) % WORD)])
    /\ UNCHANGED today

\* Mutant of Cancel: the policy is paid but not marked.
CancelUnmarked(u, pid) ==
    /\ CanCall(u)
    /\ MayAsk(u, pid)
    /\ LET policy == app.policies[pid]
           v == (policy.premium + policy.fee) % WORD
       IN  /\ today + 1 <= policy.departure
           /\ app.balance >= v
           /\ PayUser("cancel", u, Now, Now,
                  [Now EXCEPT !.app = Paid(app, pid, "cancelled", v, v)])
    /\ UNCHANGED today

\* cancel, a day ahead of the departure at the latest; again the fee is
\* cleared before it is read.
Cancel(u, pid) ==
    /\ CanCall(u)
    /\ MayAsk(u, pid)
    /\ LET policy == app.policies[pid]
           a == Settled(app, pid)
           v == (a.policies[pid].premium + a.policies[pid].fee) % WORD
       IN  /\ today + 1 <= policy.departure
           /\ app.balance >= v
           /\ PayUser("cancel", u, Now, Now,
                  [Now EXCEPT !.app =
                      Paid(a, pid, "cancelled", v,
                           (policy.premium + policy.fee) % WORD)])
    /\ UNCHANGED today
-----------------------------------------------------------------------------
(* deliver and the callback response.                                      *)

\* deliver up to the callback; a refund goes to FlightInsurance.
Delivering(id, error) ==
    [tc  |-> AtCallback(id, error),
     app |-> IF error >= 2 /\ tc.requests[id].requester = App
             THEN [app EXCEPT !.balance = @ + tc.requests[id].fee] ELSE app]

\* Whom response pays, how much, and how much the comments say is due.
Reward(id, error, delay) ==
    LET policy == app.policies[app.id_map[id]]
        late == error = 0 /\ delay >= PAYOUT_DELAY
        refund == IF error >= 2 THEN tc.requests[id].fee ELSE 0
    IN  [why  |-> IF error >= 2 THEN "error" ELSE "answer",
         to   |-> IF error = 0 /\ ~late THEN InsuranceOwner
                                        ELSE policy.requester,
         sent |-> IF late THEN (policy.premium * PAYOUT_RATE) % WORD
                          ELSE policy.premium,
         due  |-> IF late THEN (policy.premium * PAYOUT_RATE) % WORD
                          ELSE (policy.premium + refund) % WORD]

\* response settles the policy and pays the reward.
ResponsePays(id, error, delay) ==
    /\ calls = <<>>
    /\ Pending(id)
    /\ app.id_map[id] # 0
    /\ LET s == Delivering(id, error)
           pid == app.id_map[id]
           r == Reward(id, error, delay)
           After(why, sent) ==
               [s EXCEPT !.app = Paid(Settled(@, pid), pid, why, sent, r.due)]
       IN  /\ s.app.balance >= r.sent
           /\ PayUser("response", r.to, s, After("rejected", 0), After(r.why, r.sent))
    /\ UNCHANGED today

\* response cannot afford the reward, which nobody notices, or the request
\* was not made by this contract: its policy is the empty policy 0.
ResponseUnpaid(id, error, delay) ==
    /\ calls = <<>>
    /\ Pending(id)
    /\ LET s == Delivering(id, error)
           pid == app.id_map[id]
           r == Reward(id, error, delay)
           a == IF pid = 0 THEN s.app
                ELSE Paid(Settled(s.app, pid), pid, r.why, 0, r.due)
       IN  /\ pid = 0 \/ s.app.balance < r.sent
           /\ Become(DeliverEnds([s EXCEPT !.app = a]))
    /\ UNCHANGED <<calls, today>>

\* response runs out of the gas that the fee pays for.
ResponseFails(id, error) ==
    /\ calls = <<>>
    /\ Pending(id)
    /\ Become(DeliverEnds(Delivering(id, error)))
    /\ UNCHANGED <<calls, today>>

Response(id, error, delay) ==
    \/ ResponsePays(id, error, delay)
    \/ ResponseUnpaid(id, error, delay)
-----------------------------------------------------------------------------
Next ==
    \/ Tomorrow
    \/ \E u \in Users, v \in Values, payment \in Payments, d \in Departures :
           InsureRefused(u, v, payment, d) \/ Insure(u, v, payment, d)
    \/ \E u \in Users, pid \in PolicyIds :
           RequestSent(u, pid) \/ RequestRefused(u, pid) \/ Cancel(u, pid)
    \/ \E id \in RequestIds, error \in Errors :
           \/ \E delay \in Delays : Response(id, error, delay)
           \/ ResponseFails(id, error)
    \/ \E u \in Users, v \in Values : ForeignRequest(u, v) /\ UNCHANGED today
    \/ (PaymentEnds \/ OwnerCall) /\ UNCHANGED today

Spec == Init /\ [][Next]_insuranceVars
-----------------------------------------------------------------------------
(* Properties.                                                             *)

\* Stored values have their types; the balance never becomes negative.
TypeOK ==
    /\ tc \in TownCrier!World
    /\ app \in InsuranceState
    /\ calls \in Seq(Frame(InsuranceState))
    /\ today \in 0..MaxDay

Policies == PolicyIds \ {0}

\* A request that TownCrier holds for this contract and the policy it was
\* made for point at each other, so no response settles another policy.
IdMapAgrees ==
    /\ TypeOK
    /\ \A id \in RequestIds \ {0} :
           tc.requests[id].requester = App =>
               LET pid == app.id_map[id] IN
               /\ pid \in Policies
               /\ app.policies[pid].tc_id = id
               /\ Pending(id) => app.policies[pid].fee = tc.requests[id].fee

\* No policy is paid twice, in whatever order its owner, re-entered while
\* being paid, asks, cancels and is answered; and none is paid while open.
PaidOnce ==
    \A pid \in Policies :
        /\ app.payouts[pid].count <= 1
        /\ app.payouts[pid].count = 1 => app.policies[pid].fee = 0

\* Whoever is paid for a policy, and does not refuse the ether, gets what the
\* comments promise: "fully refunded" after cancel, "the premium and delivery
\* fee" when TownCrier refuses the request, "the premium and query fee" after
\* an error, and "5 times as much as the premium" for a delayed flight.
PaidInFull ==
    \A pid \in Policies :
        \/ app.payouts[pid].why = "rejected"
        \/ app.payouts[pid].sent = app.payouts[pid].due

\* What FlightInsurance paid for the other policies.
PaidToOthers(pid) ==
    MapThenSumSet(LAMBDA other: app.payouts[other].sent, Policies \ {pid})

\* response ignores the result of its payment, and policies are sold whatever the
\* balance.  But an answer goes unpaid only when the pool and the policy's own
\* premium do not cover it together with what others were paid: no refund,
\* cancellation or fee takes the money, unless a premium wrapped and brought less
\* ether than its fee.
UnpaidOnlyIfDry ==
    \A pid \in Policies :
        LET payout == app.payouts[pid]
            premium == app.policies[pid].premium
        IN  payout.why = "answer" /\ payout.sent # payout.due =>
                \/ Pool + premium < payout.due + PaidToOthers(pid)
                \/ \E other \in Policies :
                       app.policies[other].premium + TC_FEE >= WORD
=============
