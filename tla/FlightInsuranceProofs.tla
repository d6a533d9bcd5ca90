----------------------- MODULE FlightInsuranceProofs -----------------------
(***************************************************************************)
(* Proofs about FlightInsurance, for every number of policies, requests    *)
(* and nested payments and all amounts.                                    *)
(*                                                                         *)
(* As in ApplicationProofs, Sound is about one state of FlightInsurance    *)
(* and TownCrier, and holds now and in every state that a suspended        *)
(* payment may still be rolled back to.                                    *)
(***************************************************************************)
EXTENDS FlightInsurance, SequenceTheorems, TLAPS

Awaits(w, id) ==
    /\ TownCrier!Deliverable(w, id, Param)
    /\ w.requests[id].fee # TownCrier!CANCELLED_FEE_FLAG

\* Request id of TownCrier w is that of the policy that it is mapped to.
IdSound(w, a, id) ==
    /\ id >= w.requestCnt =>
           w.requests[id].requester = NoAddress /\ a.id_map[id] = 0
    /\ a.id_map[id] # 0 => w.requests[id].requester = App
    /\ w.requests[id].requester = App =>
           /\ a.id_map[id] # 0 /\ a.id_map[id] < a.policyCnt
           /\ a.policies[a.id_map[id]].tc_id = id
           /\ Awaits(w, id) => a.policies[a.id_map[id]].fee = w.requests[id].fee

\* A policy is open, with a holder and without a payment, or closed.
PolicySound(a, pid) ==
    /\ a.payouts[pid].count <= 1
    /\ a.payouts[pid].count = 1 => a.policies[pid].fee = 0
    /\ a.policies[pid].fee # 0 => a.policies[pid].requester # NoAddress
    /\ pid >= a.policyCnt => /\ a.policies[pid].requester = NoAddress
                             /\ a.policies[pid].fee = 0
                             /\ a.payouts[pid].count = 0

Sound(w, a) ==
    /\ w \in TownCrier!World
    /\ a \in InsuranceState
    /\ w.requestCnt >= 1
    /\ a.policyCnt >= 1
    /\ \A id \in RequestIds \ {0} : IdSound(w, a, id)
    /\ \A pid \in Policies : PolicySound(a, pid)

SoundState(s) == s \in State(InsuranceState) /\ Sound(s.tc, s.app)

\* The inductive invariant.
Inv ==
    /\ Sound(tc, app)
    /\ calls \in Seq(Frame(InsuranceState))
    /\ \A i \in 1..Len(calls) : /\ SoundState(calls[i].entry)
                                /\ SoundState(calls[i].callback)
                                /\ SoundState(calls[i].unpaid)
    /\ today \in 0..MaxDay
-----------------------------------------------------------------------------
USE ClientAssumption, InsuranceAssumption
    DEF TownCrier!CANCELLED_FEE_FLAG, TownCrier!DELIVERED_FEE_FLAG

LEMMA IdsAre == RequestIds = 0..MaxRequests
BY DEF RequestIds, TownCrier!RequestIds

LEMMA TownCrierTypes ==
    ASSUME NEW w \in TownCrier!World
    PROVE  /\ w.requestCnt \in Nat /\ w.unrespondedCnt \in Nat /\ w.balance \in Int
           /\ w.killswitch \in BOOLEAN
           /\ w.requests \in [RequestIds -> TownCrier!Request]
           /\ w.callbacks \in [RequestIds -> Nat]
BY DEF TownCrier!World, RequestIds

LEMMA RequestTypes ==
    ASSUME NEW r \in TownCrier!Request
    PROVE  /\ r.requester \in Users \cup {App, NoAddress} /\ r.fee \in Nat
           /\ r.callbackAddr \in Users \cup {App, NoAddress}
           /\ r.paramsHash \in {Param, NoAddress}
BY DEF TownCrier!Request

LEMMA AppTypes ==
    ASSUME NEW a \in InsuranceState
    PROVE  /\ a.policyCnt \in Nat /\ a.policies \in [PolicyIds -> Policy]
           /\ a.id_map \in [RequestIds -> PolicyIds] /\ a.balance \in Nat
           /\ a.payouts \in [PolicyIds -> Payout]
BY DEF InsuranceState

LEMMA PolicyTypes ==
    ASSUME NEW p \in Policy
    PROVE  /\ p.requester \in Users \cup {NoAddress} /\ p.tc_id \in Int
           /\ p.departure \in Departures \cup {0}
           /\ p.fee \in Nat /\ p.premium \in Nat
BY DEF Policy

LEMMA PoliciesAre == PolicyIds = 0..MaxPolicies /\ Policies = 1..MaxPolicies
BY DEF PolicyIds, Policies

\* TownCrier may change what is not about requests, and the balance may change.
LEMMA SameRequests ==
    ASSUME NEW w, NEW a, Sound(w, a), NEW w2 \in TownCrier!World,
           NEW b \in InsuranceState,
           w2.requests = w.requests, w2.requestCnt = w.requestCnt,
           b.policyCnt = a.policyCnt, b.policies = a.policies,
           b.id_map = a.id_map, b.payouts = a.payouts
    PROVE  Sound(w2, b)
BY DEF Sound, IdSound, PolicySound, Awaits, TownCrier!Deliverable

-----------------------------------------------------------------------------
(* The operations, one state at a time.                                    *)

LEMMA StateParts ==
    ASSUME NEW s \in State(InsuranceState)
    PROVE  s = [tc |-> s.tc, app |-> s.app]
           /\ s.tc \in TownCrier!World /\ s.app \in InsuranceState
BY DEF State

LEMMA SoundPair ==
    ASSUME NEW w, NEW a, Sound(w, a)
    PROVE  SoundState([tc |-> w, app |-> a])
BY DEF SoundState, State, Sound

LEMMA DeliverEndsSound ==
    ASSUME NEW s, SoundState(s)
    PROVE  SoundState(DeliverEnds(s))
<1> DEFINE w == [s.tc EXCEPT !.externalCallFlag = FALSE]
<1>1. s = [tc |-> s.tc, app |-> s.app] /\ Sound(s.tc, s.app)
  BY StateParts DEF SoundState
<1>2. DeliverEnds(s) = [tc |-> w, app |-> s.app]
  <2>1. DeliverEnds(s) = [s EXCEPT !.tc = w]
    BY DEF DeliverEnds
  <2> HIDE DEF w
  <2> QED
    BY <2>1 DEF SoundState, State
<1>3. /\ w \in TownCrier!World /\ w.requests = s.tc.requests
      /\ w.requestCnt = s.tc.requestCnt
  BY <1>1 DEF Sound, TownCrier!World
<1> HIDE DEF w
<1>4. Sound(w, s.app)
  BY <1>1, <1>3, SameRequests DEF Sound
<1> QED
  BY <1>2, <1>4, SoundPair

\* A request gets the next id.
LEMMA RecordedIs ==
    ASSUME NEW w \in TownCrier!World, w.requestCnt \in RequestIds,
           NEW u \in Users \cup {App}, NEW v \in Nat
    PROVE  LET r == TownCrier!Recorded(w, u, v, App, Param) IN
           /\ r \in TownCrier!World /\ r.requestCnt = w.requestCnt + 1
           /\ r.requests = [w.requests EXCEPT ![w.requestCnt] =
                  [requester |-> u, fee |-> v, callbackAddr |-> App,
                   paramsHash |-> Param]]
           /\ r.CANCELLATION_FEE = w.CANCELLATION_FEE
<1> DEFINE slot == [requester |-> u, fee |-> v, callbackAddr |-> App,
                    paramsHash |-> Param]
<1>1. slot \in TownCrier!Request
  BY DEF TownCrier!Request
<1>2. /\ w.requests \in [RequestIds -> TownCrier!Request]
      /\ w.requestCnt + 1 \in Nat /\ w.balance + v \in Int
      /\ (w.unrespondedCnt + 1) % UINT64 \in Nat
  <2>1. w.unrespondedCnt \in Nat /\ UINT64 \in Nat /\ UINT64 > 0
    BY TownCrierTypes
  <2>2. (w.unrespondedCnt + 1) % UINT64 \in Nat
    BY <2>1
  <2> QED
    BY <2>2, TownCrierTypes
<1> HIDE DEF slot
<1>3. [w.requests EXCEPT ![w.requestCnt] = slot] \in [RequestIds -> TownCrier!Request]
  BY <1>1, <1>2
<1>4. TownCrier!Recorded(w, u, v, App, Param) =
          [w EXCEPT !.requestCnt = w.requestCnt + 1,
                    !.unrespondedCnt = (w.unrespondedCnt + 1) % UINT64,
                    !.requests = [w.requests EXCEPT ![w.requestCnt] = slot],
                    !.balance = w.balance + v]
  BY DEF TownCrier!Recorded, TownCrier!World, slot
<1>5. TownCrier!Recorded(w, u, v, App, Param) \in TownCrier!World
  BY <1>2, <1>3, <1>4 DEF TownCrier!World, RequestIds
<1> QED
  BY <1>4, <1>5 DEF TownCrier!World, slot

-----------------------------------------------------------------------------
(* deliver and response.                                                   *)

LEMMA PendingIs ==
    ASSUME NEW id \in RequestIds, Sound(tc, app), Pending(id)
    PROVE  /\ tc.requests[id] \in TownCrier!Request
           /\ tc.requests[id].requester \in Users \cup {App}
           /\ tc.requests[id].fee \in Nat /\ tc.requests[id].fee # 0
           /\ id # 0 /\ Awaits(tc, id) /\ IdSound(tc, app, id)
<1>1. tc.requests[id] \in TownCrier!Request
  BY TownCrierTypes DEF Sound
<1>2. /\ tc.requests[id].requester # NoAddress /\ tc.requests[id].fee # 0
      /\ id # 0 /\ Awaits(tc, id)
  BY IdsAre DEF Pending, Awaits, TownCrier!Deliverable
<1> QED
  BY <1>1, <1>2, RequestTypes DEF Sound

\* A request of TownCrier that was responded to, once it was paid for.
Respond(w, id, v, n) ==
    [TownCrier!Responded(w, id) EXCEPT !.balance = v, !.callbacks[id] = n]

LEMMA RespondIs ==
    ASSUME NEW w \in TownCrier!World, NEW id \in RequestIds,
           NEW v \in Int, NEW n \in Nat
    PROVE  LET r == Respond(w, id, v, n) IN
           /\ r \in TownCrier!World /\ r.requestCnt = w.requestCnt
           /\ r.CANCELLATION_FEE = w.CANCELLATION_FEE
           /\ \A other \in RequestIds \ {id} : r.requests[other] = w.requests[other]
           /\ r.requests[id] = [w.requests[id] EXCEPT !.fee = 0]
<1> DEFINE q == [w.requests EXCEPT ![id] = [w.requests[id] EXCEPT !.fee = 0]]
           k == [w.callbacks EXCEPT ![id] = n]
<1>1. /\ w.requests \in [RequestIds -> TownCrier!Request]
      /\ w.callbacks \in [RequestIds -> Nat]
      /\ (w.unrespondedCnt - 1) % UINT64 \in Nat
  <2>1. w.unrespondedCnt - 1 \in Int /\ UINT64 \in Nat /\ UINT64 > 0
    BY TownCrierTypes
  <2>2. (w.unrespondedCnt - 1) % UINT64 \in Nat
    BY <2>1
  <2> QED
    BY <2>2, TownCrierTypes
<1>2. [w.requests[id] EXCEPT !.fee = 0] \in TownCrier!Request
  BY <1>1 DEF TownCrier!Request
<1>3. q \in [RequestIds -> TownCrier!Request] /\ k \in [RequestIds -> Nat]
  BY <1>1, <1>2
<1>4. /\ \A other \in RequestIds \ {id} : q[other] = w.requests[other]
      /\ q[id] = [w.requests[id] EXCEPT !.fee = 0]
  BY <1>1
<1>5. TownCrier!Responded(w, id) =
          [w EXCEPT !.requests = q,
                    !.unrespondedCnt = (w.unrespondedCnt - 1) % UINT64]
  BY DEF TownCrier!Responded, TownCrier!World
<1>6. Respond(w, id, v, n) =
      [w EXCEPT !.requests = q,
                !.unrespondedCnt = (w.unrespondedCnt - 1) % UINT64,
                !.balance = v, !.callbacks = k]
  BY <1>5 DEF TownCrier!World, Respond
<1> HIDE DEF q, k
<1>7. LET r == [w EXCEPT !.requests = q,
                !.unrespondedCnt = (w.unrespondedCnt - 1) % UINT64,
                !.balance = v, !.callbacks = k] IN
      /\ r \in TownCrier!World /\ r.requestCnt = w.requestCnt
      /\ r.CANCELLATION_FEE = w.CANCELLATION_FEE /\ r.requests = q
  BY <1>1, <1>3 DEF TownCrier!World, RequestIds
<1> QED
  BY <1>4, <1>6, <1>7

LEMMA AtCallbackIs ==
    ASSUME NEW id \in RequestIds, NEW error, tc \in TownCrier!World,
           tc.requests[id].fee \in Nat
    PROVE  LET r == AtCallback(id, error) IN
           /\ r \in TownCrier!World /\ r.requestCnt = tc.requestCnt
           /\ r.CANCELLATION_FEE = tc.CANCELLATION_FEE
           /\ \A other \in RequestIds \ {id} : r.requests[other] = tc.requests[other]
           /\ r.requests[id] = [tc.requests[id] EXCEPT !.fee = 0]
<1> DEFINE v == tc.balance - tc.requests[id].fee
           n == tc.callbacks[id] + 1
<1>1. v \in Int /\ n \in Nat
  BY TownCrierTypes
<1> DEFINE r == Respond(tc, id, v, n)
<1>2. /\ r \in TownCrier!World /\ r.requestCnt = tc.requestCnt
      /\ r.CANCELLATION_FEE = tc.CANCELLATION_FEE
      /\ \A other \in RequestIds \ {id} : r.requests[other] = tc.requests[other]
      /\ r.requests[id] = [tc.requests[id] EXCEPT !.fee = 0]
  BY <1>1, RespondIs
<1>3. AtCallback(id, error) = [r EXCEPT !.externalCallFlag = TRUE]
  BY DEF Respond, AtCallback, TownCrier!FeePaid, TownCrier!Responded, TownCrier!World
<1> HIDE DEF r
<1> QED
  BY <1>2, <1>3 DEF TownCrier!World

\* deliver up to the callback: the request is closed and FlightInsurance has
\* what comes back.
LEMMA DeliveringSound ==
    ASSUME NEW id \in RequestIds, NEW error \in Nat, Sound(tc, app), Pending(id)
    PROVE  LET s == Delivering(id, error) IN
           /\ SoundState(s) /\ s.tc.requests[id].fee = 0
           /\ s.app.policyCnt = app.policyCnt /\ s.app.policies = app.policies
           /\ s.app.id_map = app.id_map /\ s.app.payouts = app.payouts
<1> DEFINE w == AtCallback(id, error)
           back == error >= 2 /\ tc.requests[id].requester = App
           a == IF back THEN [app EXCEPT !.balance = @ + tc.requests[id].fee]
                        ELSE app
<1>1. /\ tc.requests[id] \in TownCrier!Request
      /\ tc.requests[id].fee \in Nat /\ tc.requests[id].fee # 0
      /\ id # 0 /\ Awaits(tc, id)
      /\ tc \in TownCrier!World /\ app \in InsuranceState
  BY PendingIs DEF Sound
<1>2. /\ w \in TownCrier!World /\ w.requestCnt = tc.requestCnt
      /\ \A other \in RequestIds \ {id} : w.requests[other] = tc.requests[other]
      /\ w.requests[id] = [tc.requests[id] EXCEPT !.fee = 0]
  BY <1>1, AtCallbackIs
<1>3. /\ a \in InsuranceState /\ a.policyCnt = app.policyCnt
      /\ a.policies = app.policies /\ a.id_map = app.id_map
      /\ a.payouts = app.payouts
  <2>1. app.balance + tc.requests[id].fee \in Nat
    BY <1>1, AppTypes
  <2> QED
    BY <1>1, <2>1 DEF InsuranceState
<1>4. Delivering(id, error) = [tc |-> w, app |-> a]
  BY DEF Delivering
<1>5. /\ w.requests[id].fee = 0
      /\ w.requests[id].requester = tc.requests[id].requester
  BY <1>1, <1>2 DEF TownCrier!Request
<1> HIDE DEF w, a
<1>6. ASSUME NEW other \in RequestIds \ {0}
      PROVE  IdSound(w, a, other)
  <2>1. IdSound(tc, app, other)
    BY DEF Sound
  <2>2. CASE other = id
    <3>1. ~Awaits(w, id)
      BY <1>5 DEF Awaits, TownCrier!Deliverable
    <3> QED
      BY <1>2, <1>3, <1>5, <2>1, <2>2, <3>1 DEF IdSound
  <2>3. CASE other # id
    <3>1. w.requests[other] = tc.requests[other]
      BY <1>2, <2>3
    <3>2. Awaits(w, other) => Awaits(tc, other)
      BY <1>2, <3>1 DEF Awaits, TownCrier!Deliverable
    <3> QED
      BY <1>2, <1>3, <2>1, <3>1, <3>2 DEF IdSound
  <2> QED
    BY <2>2, <2>3
<1>7. \A pid \in Policies : PolicySound(a, pid)
  BY <1>3 DEF Sound, PolicySound
<1>8. Sound(w, a)
  BY <1>2, <1>3, <1>6, <1>7 DEF Sound
<1>9. /\ SoundState(Delivering(id, error))
      /\ Delivering(id, error).tc = w /\ Delivering(id, error).app = a
  BY <1>4, <1>8, SoundPair
<1> HIDE DEF back
<1> QED
  BY ONLY <1>3, <1>5, <1>9

\* A request for an open policy.  The ids that are in use belong to policies
\* whose tc_id is not 0, so to other ones.
LEMMA RecordedOwn ==
    ASSUME NEW w, NEW a, Sound(w, a), w.requestCnt <= MaxRequests,
           NEW pid \in Policies, a.policies[pid].tc_id = 0,
           a.policies[pid].fee # 0, a.balance >= a.policies[pid].fee
    PROVE  Sound(TownCrier!Recorded(w, App, a.policies[pid].fee, App, Param),
                 [a EXCEPT !.policies[pid].tc_id = w.requestCnt,
                           !.id_map[w.requestCnt] = pid,
                           !.balance = @ - a.policies[pid].fee])
<1> DEFINE n == w.requestCnt
           v == a.policies[pid].fee
           r == TownCrier!Recorded(w, App, v, App, Param)
           p == [a.policies EXCEPT ![pid] = [a.policies[pid] EXCEPT !.tc_id = n]]
           m == [a.id_map EXCEPT ![n] = pid]
           b == [a EXCEPT !.policies = p, !.id_map = m, !.balance = a.balance - v]
<1>1. /\ n \in RequestIds /\ n \in Nat /\ n # 0 /\ w \in TownCrier!World
      /\ a \in InsuranceState /\ pid \in PolicyIds
  BY TownCrierTypes, IdsAre, PoliciesAre DEF Sound
<1>2. /\ a.policies \in [PolicyIds -> Policy] /\ a.payouts \in [PolicyIds -> Payout]
      /\ a.id_map \in [RequestIds -> PolicyIds]
      /\ a.balance \in Nat /\ a.policyCnt \in Nat
  BY <1>1, AppTypes
<1>3. v \in Nat
  BY <1>1, <1>2, PolicyTypes
<1>4. /\ r \in TownCrier!World /\ r.requestCnt = n + 1
      /\ r.requests = [w.requests EXCEPT ![n] =
             [requester |-> App, fee |-> v, callbackAddr |-> App,
              paramsHash |-> Param]]
      /\ w.requests \in [RequestIds -> TownCrier!Request]
  BY <1>1, <1>3, RecordedIs, TownCrierTypes
<1>5. [a EXCEPT !.policies[pid].tc_id = w.requestCnt,
                !.id_map[w.requestCnt] = pid,
                !.balance = @ - a.policies[pid].fee] = b
  BY <1>1 DEF InsuranceState
<1>6. p \in [PolicyIds -> Policy] /\ m \in [RequestIds -> PolicyIds]
  <2>1. [a.policies[pid] EXCEPT !.tc_id = n] \in Policy
    BY <1>1, <1>2 DEF Policy
  <2> QED
    BY <1>1, <1>2, <2>1
<1>7. /\ b \in InsuranceState /\ b.policyCnt = a.policyCnt /\ b.policies = p
      /\ b.id_map = m /\ b.payouts = a.payouts
  <2>1. a.balance - v \in Nat
    BY <1>2, <1>3
  <2> HIDE DEF p, m, v
  <2> QED
    BY <1>1, <1>6, <2>1 DEF InsuranceState
<1>8. /\ p[pid].tc_id = n /\ p[pid].fee = v
      /\ p[pid].requester = a.policies[pid].requester
      /\ \A other \in Policies \ {pid} : p[other] = a.policies[other]
      /\ m[n] = pid /\ \A id \in RequestIds \ {n} : m[id] = a.id_map[id]
  <2>1. a.policies[pid] \in Policy
    BY <1>1, <1>2
  <2>2. p[pid] = [a.policies[pid] EXCEPT !.tc_id = n]
        /\ \A other \in PolicyIds \ {pid} : p[other] = a.policies[other]
    BY <1>1, <1>2
  <2>3. m[n] = pid /\ \A id \in RequestIds \ {n} : m[id] = a.id_map[id]
    BY <1>1, <1>2
  <2> HIDE DEF p, m
  <2> QED
    BY <2>1, <2>2, <2>3, PoliciesAre DEF Policy
<1>9. pid < a.policyCnt /\ pid # 0
  BY <1>2, PoliciesAre DEF Sound, PolicySound
<1>10. /\ r.requests[n].requester = App /\ r.requests[n].fee = v
       /\ \A id \in RequestIds \ {n} : r.requests[id] = w.requests[id]
  BY <1>1, <1>4
<1> HIDE DEF p, m, b, r, v, n
<1>11. ASSUME NEW id \in RequestIds \ {0}
       PROVE  IdSound(r, b, id)
  <2>1. IdSound(w, a, id) /\ id \in Nat
    BY IdsAre DEF Sound
  <2>2. CASE id = n
    BY <1>1, <1>4, <1>7, <1>8, <1>9, <1>10, <2>2 DEF IdSound
  <2>3. CASE id # n
    <3>1. r.requests[id] = w.requests[id] /\ b.id_map[id] = a.id_map[id]
      BY <1>7, <1>8, <1>10, <2>3
    <3>2. Awaits(r, id) => Awaits(w, id)
      BY <3>1 DEF Awaits, TownCrier!Deliverable
    <3>3. id >= r.requestCnt => id >= w.requestCnt
      BY <1>1, <1>4, <2>1 DEF n
    <3>4. ASSUME w.requests[id].requester = App
          PROVE  b.policies[a.id_map[id]] = a.policies[a.id_map[id]]
      <4>1. a.id_map[id] # pid
        BY <2>1, <3>4 DEF IdSound
      <4>2. a.id_map[id] \in Policies
        BY <1>2, <2>1, <3>4, PoliciesAre DEF IdSound
      <4> QED
        BY <1>7, <1>8, <4>1, <4>2
    <3> QED
      BY <1>7, <2>1, <3>1, <3>2, <3>3, <3>4 DEF IdSound
  <2> QED
    BY <2>2, <2>3
<1>12. ASSUME NEW other \in Policies
       PROVE  PolicySound(b, other)
  <2>1. PolicySound(a, other) /\ PolicySound(a, pid)
    BY DEF Sound
  <2>2. /\ b.policies[other].fee = a.policies[other].fee
        /\ b.policies[other].requester = a.policies[other].requester
    BY <1>7, <1>8 DEF v
  <2> QED
    BY <1>7, <2>1, <2>2 DEF PolicySound
<1>13. r.requestCnt >= 1
  BY <1>1, <1>4
<1>14. Sound(r, b)
  BY <1>4, <1>7, <1>11, <1>12, <1>13 DEF Sound
<1> QED
  BY <1>5, <1>14 DEF r, v

\* A request of somebody else leaves the map at 0.
LEMMA RecordedForeign ==
    ASSUME NEW w, NEW a, Sound(w, a), w.requestCnt <= MaxRequests,
           NEW u \in Users, NEW v \in Nat
    PROVE  Sound(TownCrier!Recorded(w, u, v, App, Param), a)
<1> DEFINE n == w.requestCnt
           r == TownCrier!Recorded(w, u, v, App, Param)
<1>1. n \in RequestIds /\ n \in Nat /\ n # 0 /\ w \in TownCrier!World
  BY TownCrierTypes, IdsAre DEF Sound
<1>2. /\ r \in TownCrier!World /\ r.requestCnt = n + 1
      /\ r.requests = [w.requests EXCEPT ![n] =
             [requester |-> u, fee |-> v, callbackAddr |-> App,
              paramsHash |-> Param]]
      /\ w.requests \in [RequestIds -> TownCrier!Request] /\ a \in InsuranceState
  BY <1>1, RecordedIs, TownCrierTypes DEF Sound
<1>3. /\ r.requests[n].requester = u
      /\ \A other \in RequestIds \ {n} : r.requests[other] = w.requests[other]
  BY <1>1, <1>2
<1> HIDE DEF r, n
<1>4. ASSUME NEW id \in RequestIds \ {0}
      PROVE  IdSound(r, a, id)
  <2>1. IdSound(w, a, id) /\ id \in Nat
    BY IdsAre DEF Sound
  <2>2. CASE id = n
    <3>1. a.id_map[id] = 0 /\ u # App
      BY <1>1, <2>1, <2>2 DEF IdSound, n
    <3> QED
      BY <1>1, <1>2, <1>3, <2>2, <3>1 DEF IdSound
  <2>3. CASE id # n
    <3>1. r.requests[id] = w.requests[id]
      BY <1>3, <2>3
    <3>2. id >= r.requestCnt => id >= w.requestCnt
      BY <1>1, <1>2, <2>1 DEF n
    <3>3. Awaits(r, id) => Awaits(w, id)
      BY <3>1 DEF Awaits, TownCrier!Deliverable
    <3> QED
      BY <2>1, <3>1, <3>2, <3>3 DEF IdSound
  <2> QED
    BY <2>2, <2>3
<1>5. Sound(r, a)
  <2>1. r.requestCnt >= 1
    BY <1>1, <1>2
  <2> QED
    BY <1>2, <1>4, <2>1 DEF Sound
<1> QED
  BY <1>5 DEF r
-----------------------------------------------------------------------------
(* Policies are sold and closed.                                           *)

\* An amount is a natural number, whatever wraps.
LEMMA WordIs ==
    /\ \A x \in Int : x % WORD \in Nat
    /\ \A x \in Payments : x \in Nat
<1>1. WORD \in Nat \ {0}
  OBVIOUS
<1>2. ASSUME NEW x \in Int PROVE x % WORD \in Nat
  BY <1>1
<1> QED
  BY <1>2

LEMMA InsureSound ==
    ASSUME NEW w, NEW a, Sound(w, a), a.policyCnt <= MaxPolicies,
           NEW u \in Users, NEW v \in Nat, NEW payment \in Payments,
           NEW departure \in Departures
    PROVE  Sound(w, [a EXCEPT !.policyCnt = @ + 1, !.balance = @ + v,
                              !.policies[a.policyCnt] =
                                  [requester |-> u, tc_id |-> 0,
                                   departure |-> departure,
                                   fee |-> (v - payment) % WORD, premium |-> payment]])
<1> DEFINE n == a.policyCnt
           policy == [requester |-> u, tc_id |-> 0, departure |-> departure,
                      fee |-> (v - payment) % WORD, premium |-> payment]
           p == [a.policies EXCEPT ![n] = policy]
           b == [a EXCEPT !.policyCnt = n + 1, !.balance = a.balance + v,
                          !.policies = p]
<1>1. /\ a \in InsuranceState /\ n \in Nat /\ n >= 1 /\ n \in Policies
      /\ n \in PolicyIds
      /\ a.policies \in [PolicyIds -> Policy] /\ a.balance \in Nat
      /\ a.id_map \in [RequestIds -> PolicyIds]
  BY AppTypes, PoliciesAre DEF Sound
<1>2. policy \in Policy
  <2>1. (v - payment) % WORD \in Nat /\ payment \in Nat
    BY WordIs
  <2> HIDE DEF n
  <2> QED
    BY <2>1 DEF Policy
<1>3. /\ p \in [PolicyIds -> Policy] /\ p[n] = policy
      /\ \A other \in PolicyIds \ {n} : p[other] = a.policies[other]
  <2> HIDE DEF policy, n
  <2> QED
    BY <1>1, <1>2
<1>4. [a EXCEPT !.policyCnt = @ + 1, !.balance = @ + v,
                !.policies[a.policyCnt] = policy] = b
  <2> HIDE DEF policy
  <2> QED
    BY <1>1 DEF InsuranceState
<1>5. policy.requester = u
  OBVIOUS
<1> HIDE DEF policy, p
<1>6. /\ b \in InsuranceState /\ b.policyCnt = n + 1 /\ b.policies = p
      /\ b.id_map = a.id_map /\ b.payouts = a.payouts
  <2>1. n + 1 \in Nat /\ a.balance + v \in Nat
    BY <1>1
  <2> HIDE DEF n
  <2> QED
    BY <1>1, <1>3, <2>1 DEF InsuranceState
<1> HIDE DEF b, n
<1>7. ASSUME NEW id \in RequestIds \ {0}
      PROVE  IdSound(w, b, id)
  <2>1. IdSound(w, a, id)
    BY DEF Sound
  <2>2. a.id_map[id] \in PolicyIds /\ a.id_map[id] \in Nat
    BY <1>1, PoliciesAre
  <2>3. a.id_map[id] < n => p[a.id_map[id]] = a.policies[a.id_map[id]]
                            /\ a.id_map[id] < n + 1
    BY <1>1, <1>3, <2>2
  <2> QED
    BY <1>6, <2>1, <2>3 DEF IdSound, n
<1>8. ASSUME NEW pid \in Policies
      PROVE  PolicySound(b, pid)
  <2>1. PolicySound(a, pid) /\ pid \in PolicyIds /\ pid \in Nat
    BY PoliciesAre DEF Sound
  <2>2. CASE pid = n
    <3>1. a.payouts[n].count = 0
      BY <1>1, <2>1, <2>2 DEF PolicySound, n
    <3> QED
      BY <1>1, <1>3, <1>5, <1>6, <2>2, <3>1 DEF PolicySound
  <2>3. CASE pid # n
    <3>1. p[pid] = a.policies[pid]
      BY <1>3, <2>1, <2>3
    <3>2. pid >= n + 1 => pid >= n
      BY <1>1, <2>1
    <3> QED
      BY <1>6, <2>1, <3>1, <3>2 DEF PolicySound, n
  <2> QED
    BY <2>2, <2>3
<1>9. Sound(w, b)
  <2>1. b.policyCnt >= 1
    BY <1>1, <1>6
  <2> QED
    BY <1>6, <1>7, <1>8, <2>1 DEF Sound
<1> QED
  BY <1>4, <1>9 DEF policy

\* b is a after the payment for policy pid; tc_id is t.
Closes(a, b, pid, t) ==
    /\ b \in InsuranceState
    /\ b.policyCnt = a.policyCnt /\ b.id_map = a.id_map
    /\ b.policies = [a.policies EXCEPT
                        ![pid] = [a.policies[pid] EXCEPT !.fee = 0, !.tc_id = t]]
    /\ \A other \in PolicyIds \ {pid} : b.payouts[other] = a.payouts[other]
    /\ b.payouts[pid].count = a.payouts[pid].count + 1

\* b is a after a payment for policy pid that leaves its record as it is.
Pays(a, b, pid) ==
    /\ b \in InsuranceState
    /\ b.policyCnt = a.policyCnt /\ b.id_map = a.id_map
    /\ b.policies = a.policies
    /\ \A other \in PolicyIds \ {pid} : b.payouts[other] = a.payouts[other]
    /\ b.payouts[pid].count = a.payouts[pid].count + 1

LEMMA PaidIs ==
    ASSUME NEW a \in InsuranceState, NEW pid \in PolicyIds,
           NEW why \in {"open", "refused", "cancelled", "answer", "error", "rejected"},
           NEW v \in Nat, v <= a.balance, NEW due \in Nat
    PROVE  Pays(a, Paid(a, pid, why, v, due), pid)
<1> DEFINE q == [why |-> why, count |-> a.payouts[pid].count + 1,
                 due |-> due, sent |-> v]
           f == [a.payouts EXCEPT ![pid] = q]
<1>1. /\ a.payouts \in [PolicyIds -> Payout] /\ a.balance \in Nat
      /\ a.payouts[pid] \in Payout
  BY AppTypes
<1>2. q \in Payout /\ q.count = a.payouts[pid].count + 1
  BY <1>1 DEF Payout
<1>3. Paid(a, pid, why, v, due) = [a EXCEPT !.balance = a.balance - v, !.payouts = f]
  BY <1>1 DEF Paid, InsuranceState
<1> HIDE DEF q
<1>4. /\ f \in [PolicyIds -> Payout] /\ f[pid] = q
      /\ \A other \in PolicyIds \ {pid} : f[other] = a.payouts[other]
  BY <1>1, <1>2
<1>5. a.balance - v \in Nat
  BY <1>1
<1> HIDE DEF f
<1> QED
  BY <1>1, <1>2, <1>3, <1>4, <1>5 DEF InsuranceState, Pays

\* The policies of a when policy pid is marked and its tc_id becomes t.
Marked(a, pid, t) ==
    [a.policies EXCEPT ![pid] = [a.policies[pid] EXCEPT !.fee = 0, !.tc_id = t]]

SettledWith(a, pid, t) == [Settled(a, pid) EXCEPT !.policies[pid].tc_id = t]

LEMMA SettledIs ==
    ASSUME NEW a \in InsuranceState, NEW pid \in PolicyIds, NEW t \in Int
    PROVE  /\ SettledWith(a, pid, t) \in InsuranceState
           /\ SettledWith(a, pid, t) = [a EXCEPT !.policies = Marked(a, pid, t)]
           /\ a.policies[pid].tc_id = t => SettledWith(a, pid, t) = Settled(a, pid)
<1>1. a.policies \in [PolicyIds -> Policy] /\ a.policies[pid] \in Policy
  BY AppTypes
<1>2. [a.policies[pid] EXCEPT !.fee = 0, !.tc_id = t] \in Policy
  BY <1>1 DEF Policy
<1>3. Marked(a, pid, t) \in [PolicyIds -> Policy]
  BY <1>1, <1>2 DEF Marked
<1>4. SettledWith(a, pid, t) = [a EXCEPT !.policies = Marked(a, pid, t)]
  BY <1>1 DEF Settled, InsuranceState, SettledWith, Marked
<1>5. SettledWith(a, pid, t) \in InsuranceState
  BY <1>3, <1>4 DEF InsuranceState
<1>6. ASSUME a.policies[pid].tc_id = t
      PROVE  SettledWith(a, pid, t) = Settled(a, pid)
  <2>1. [a.policies[pid] EXCEPT !.fee = 0, !.tc_id = t] = [a.policies[pid] EXCEPT !.fee = 0]
    BY <1>1, <1>6 DEF Policy
  <2>2. Settled(a, pid) =
            [a EXCEPT !.policies =
                [a.policies EXCEPT ![pid] = [a.policies[pid] EXCEPT !.fee = 0]]]
    BY <1>1 DEF Settled, InsuranceState
  <2> QED
    BY <1>4, <2>1, <2>2 DEF Marked
<1> DEFINE c == [a EXCEPT !.policies = Marked(a, pid, t)]
<1>7. SettledWith(a, pid, t) = c
  BY <1>4
<1> HIDE DEF c
<1>8. /\ SettledWith(a, pid, t) \in InsuranceState /\ SettledWith(a, pid, t) = c
      /\ a.policies[pid].tc_id = t => SettledWith(a, pid, t) = Settled(a, pid)
  BY <1>5, <1>6, <1>7
<1> QED
  BY <1>8 DEF c

LEMMA ClosesIs ==
    ASSUME NEW a \in InsuranceState, NEW pid \in PolicyIds, NEW t \in Int,
           NEW why \in {"open", "refused", "cancelled", "answer", "error", "rejected"},
           NEW v \in Nat, v <= a.balance, NEW due \in Nat
    PROVE  Closes(a, Paid(SettledWith(a, pid, t), pid, why, v, due), pid, t)
<1> DEFINE c == SettledWith(a, pid, t)
<1>1. /\ c = [a EXCEPT !.policies = Marked(a, pid, t)]
      /\ c \in InsuranceState
  BY SettledIs
<1> HIDE DEF c
<1>2. /\ c.balance = a.balance /\ c.policyCnt = a.policyCnt
      /\ c.id_map = a.id_map /\ c.payouts = a.payouts
      /\ c.policies = Marked(a, pid, t)
  BY <1>1 DEF InsuranceState
<1> DEFINE b == Paid(c, pid, why, v, due)
<1>3. /\ b \in InsuranceState
      /\ b.policyCnt = c.policyCnt /\ b.id_map = c.id_map
      /\ b.policies = c.policies
      /\ \A other \in PolicyIds \ {pid} : b.payouts[other] = c.payouts[other]
      /\ b.payouts[pid].count = c.payouts[pid].count + 1
  <2>1. v <= c.balance /\ c \in InsuranceState
    BY <1>1, <1>2
  <2> HIDE DEF c
  <2>2. Pays(c, Paid(c, pid, why, v, due), pid)
    BY <2>1, PaidIs
  <2> QED
    BY <2>2 DEF Pays
<1> HIDE DEF b
<1>4. Closes(a, b, pid, t)
  BY <1>2, <1>3 DEF Closes, Marked
<1> QED
  BY <1>4 DEF b, c

\* An open policy may be closed once TownCrier has no request that still
\* waits for its answer.
LEMMA ClosesSound ==
    ASSUME NEW w, NEW a, Sound(w, a), NEW pid \in Policies,
           a.policies[pid].fee # 0, NEW t, NEW b, Closes(a, b, pid, t),
           \A id \in RequestIds \ {0} :
               w.requests[id].requester = App /\ a.id_map[id] = pid =>
                   ~Awaits(w, id) /\ t = id
    PROVE  Sound(w, b)
<1>1. /\ a \in InsuranceState /\ b \in InsuranceState /\ pid \in PolicyIds
      /\ a.policies \in [PolicyIds -> Policy] /\ a.policies[pid] \in Policy
      /\ a.payouts[pid] \in Payout /\ a.policyCnt \in Nat
      /\ a.id_map \in [RequestIds -> PolicyIds]
  BY AppTypes, PoliciesAre DEF Sound, Closes
<1>2. /\ b.policies[pid].fee = 0 /\ b.policies[pid].tc_id = t
      /\ b.policies[pid].requester = a.policies[pid].requester
  BY <1>1 DEF Closes, Policy
<1>3. \A other \in PolicyIds \ {pid} : b.policies[other] = a.policies[other]
  BY <1>1 DEF Closes
<1>4. PolicySound(a, pid) /\ a.payouts[pid].count \in Nat
  BY <1>1 DEF Sound, Payout
<1>5. a.payouts[pid].count = 0 /\ pid < a.policyCnt
  BY <1>1, <1>4, PoliciesAre DEF PolicySound
<1>6. ASSUME NEW id \in RequestIds \ {0}
      PROVE  IdSound(w, b, id)
  <2>1. IdSound(w, a, id) /\ a.id_map[id] \in PolicyIds
    BY <1>1 DEF Sound
  <2>2. b.id_map = a.id_map /\ b.policyCnt = a.policyCnt
    BY DEF Closes
  <2>3. CASE w.requests[id].requester = App /\ a.id_map[id] = pid
    BY <1>2, <2>1, <2>2, <2>3 DEF IdSound
  <2>4. CASE w.requests[id].requester # App
    BY <2>1, <2>2, <2>4 DEF IdSound
  <2>5. CASE a.id_map[id] # pid
    BY <1>3, <2>1, <2>2, <2>5 DEF IdSound
  <2> QED
    BY <2>3, <2>4, <2>5
<1>7. ASSUME NEW other \in Policies
      PROVE  PolicySound(b, other)
  <2>1. PolicySound(a, other) /\ other \in PolicyIds /\ b.policyCnt = a.policyCnt
        /\ other \in Nat
    BY PoliciesAre DEF Sound, Closes
  <2>2. CASE other = pid
    <3>1. b.payouts[pid].count = 1
      BY <1>5 DEF Closes
    <3> QED
      BY <1>2, <1>5, <2>1, <2>2, <3>1, <1>1 DEF PolicySound
  <2>3. CASE other # pid
    <3>1. b.payouts[other] = a.payouts[other] /\ b.policies[other] = a.policies[other]
      BY <1>3, <2>1, <2>3 DEF Closes
    <3> QED
      BY <2>1, <3>1 DEF PolicySound
  <2> QED
    BY <2>2, <2>3
<1> QED
  BY <1>1, <1>6, <1>7 DEF Sound, Closes
-----------------------------------------------------------------------------
(* The suspended payments.                                                 *)

LEMMA NowSound == Inv => SoundState(Now)
BY SoundPair DEF Inv, Now

LEMMA StayInv ==
    ASSUME Inv, UNCHANGED calls, today' \in 0..MaxDay, Sound(tc', app')
    PROVE  Inv'
BY DEF Inv

LEMMA BecomeInv ==
    ASSUME Inv, UNCHANGED <<calls, today>>, NEW s, SoundState(s), Become(s)
    PROVE  Inv'
BY StayInv DEF Become, SoundState, Inv

LEMMA PushInv ==
    ASSUME Inv, NEW fn \in {"insure", "request", "response", "cancel"},
           NEW u \in Users, NEW callback, SoundState(callback),
           NEW unpaid, SoundState(unpaid), NEW s, SoundState(s),
           PayUser(fn, u, callback, unpaid, s), UNCHANGED today
    PROVE  Inv'
<1> DEFINE frame == [fn |-> fn, callee |-> u, entry |-> Now,
                     callback |-> callback, unpaid |-> unpaid]
<1>1. SoundState(Now)
  BY NowSound
<1>2. frame \in Frame(InsuranceState)
  BY <1>1 DEF Frame, SoundState
<1>3. calls \in Seq(Frame(InsuranceState)) /\ calls' = Append(calls, frame)
  BY DEF Inv, PayUser
<1>4. SoundState(frame.entry) /\ SoundState(frame.callback) /\ SoundState(frame.unpaid)
  BY <1>1
<1> HIDE DEF frame
<1>5. /\ calls' \in Seq(Frame(InsuranceState)) /\ Len(calls') = Len(calls) + 1
      /\ \A i \in 1..Len(calls) : calls'[i] = calls[i]
      /\ calls'[Len(calls) + 1] = frame
      /\ Len(calls) \in Nat
  BY <1>2, <1>3, AppendProperties, LenProperties
<1>6. ASSUME NEW i \in 1..Len(calls')
      PROVE  /\ SoundState(calls'[i].entry)
             /\ SoundState(calls'[i].callback)
             /\ SoundState(calls'[i].unpaid)
  <2>1. CASE i = Len(calls) + 1
    BY <2>1, <1>4, <1>5
  <2>2. CASE i \in 1..Len(calls)
    BY <2>2, <1>5 DEF Inv
  <2> QED
    BY <2>1, <2>2, <1>5
<1>7. Sound(tc', app')
  BY DEF PayUser, Become, SoundState
<1> QED
  BY <1>5, <1>6, <1>7 DEF Inv

LEMMA TopSound ==
    ASSUME Inv, calls # <<>>
    PROVE  /\ Len(calls) \in Nat \ {0}
           /\ SoundState(Top.entry) /\ SoundState(Top.callback)
           /\ SoundState(Top.unpaid)
<1>1. calls \in Seq(Frame(InsuranceState)) /\ Len(calls) \in Nat /\ Len(calls) # 0
  BY EmptySeq, LenProperties DEF Inv
<1>2. Len(calls) \in 1..Len(calls)
  BY <1>1
<1> QED
  BY <1>1, <1>2 DEF Inv, Top

LEMMA PopInv ==
    ASSUME Inv, NEW s, SoundState(s), EndCall(s), UNCHANGED today
    PROVE  Inv'
<1> DEFINE n == Len(calls) - 1
<1>1. calls # <<>> /\ calls' = SubSeq(calls, 1, n)
  BY DEF EndCall
<1>2. Len(calls) \in Nat \ {0} /\ calls \in Seq(Frame(InsuranceState))
  BY <1>1, TopSound DEF Inv
<1>3. n \in Nat /\ n \in Int /\ \A i \in 1..n : calls[i] \in Frame(InsuranceState)
  BY <1>2, ElementOfSeq
<1> HIDE DEF n
<1>4. /\ SubSeq(calls, 1, n) \in Seq(Frame(InsuranceState))
      /\ Len(SubSeq(calls, 1, n)) = IF 1 <= n THEN n - 1 + 1 ELSE 0
      /\ \A i \in 1..(n - 1 + 1) : SubSeq(calls, 1, n)[i] = calls[1 + i - 1]
  BY <1>3, SubSeqProperties, Z3
<1>5. Len(calls') = n /\ calls' \in Seq(Frame(InsuranceState))
  BY <1>1, <1>3, <1>4
<1>6. \A i \in 1..n : calls'[i] = calls[i]
  BY <1>1, <1>3, <1>4
<1>7. \A i \in 1..Len(calls') : /\ SoundState(calls'[i].entry)
                                /\ SoundState(calls'[i].callback)
                                /\ SoundState(calls'[i].unpaid)
  BY <1>2, <1>5, <1>6 DEF Inv, n
<1>8. Sound(tc', app')
  <2>1. SoundState(s) /\ SoundState(DeliverEnds(s))
    BY DeliverEndsSound
  <2> QED
    BY <2>1 DEF EndCall, Become, SoundState
<1> QED
  BY <1>5, <1>7, <1>8 DEF Inv
-----------------------------------------------------------------------------
(* The operations, with the payments.                                      *)

LEMMA InitInv == Init => Inv
<1> SUFFICES ASSUME Init
             PROVE  Inv
  OBVIOUS
<1> DEFINE slots == [i \in RequestIds |->
                        [requester |-> IF i = 0 THEN Owner ELSE NoAddress,
                         fee |-> 0, callbackAddr |-> NoAddress,
                         paramsHash |-> NoAddress]]
<1>1. tc = [GAS_PRICE |-> 1, MIN_FEE |-> 6, CANCELLATION_FEE |-> 5,
            killswitch |-> FALSE, externalCallFlag |-> FALSE,
            requestCnt |-> 1, unrespondedCnt |-> 0, requests |-> slots,
            newVersion |-> 0, balance |-> 0, surplus |-> 0,
            callbacks |-> [i \in RequestIds |-> 0]]
  BY DEF Init, TownCrier!Init, TownCrier!InitialPrices, RequestIds
<1>2. slots \in [RequestIds -> TownCrier!Request]
  BY DEF TownCrier!Request
<1> HIDE DEF slots
<1>3. /\ tc \in TownCrier!World /\ tc.requests = slots /\ tc.requestCnt = 1
  BY <1>1, <1>2 DEF TownCrier!World, RequestIds
<1>4. app \in InsuranceState /\ app.policyCnt = 1
  BY PoliciesAre DEF Init, InsuranceState, Policy, Payout
<1>5. ASSUME NEW id \in RequestIds \ {0}
      PROVE  IdSound(tc, app, id)
  <2>1. app.id_map[id] = 0 /\ slots[id].requester = NoAddress
    BY DEF Init, slots
  <2> QED
    BY <1>3, <2>1 DEF IdSound
<1>6. ASSUME NEW pid \in Policies
      PROVE  PolicySound(app, pid)
  BY PoliciesAre DEF Init, PolicySound
<1>7. calls = <<>> /\ today \in 0..MaxDay
  BY DEF Init
<1>8. calls \in Seq(Frame(InsuranceState)) /\ \A i \in 1..Len(calls) : FALSE
  BY <1>7, EmptySeq, LenProperties
<1> QED
  BY <1>3, <1>4, <1>5, <1>6, <1>7, <1>8 DEF Inv, Sound

LEMMA OwnerInv ==
    ASSUME Inv, OwnerCall, UNCHANGED today
    PROVE  Inv'
<1>1. /\ Sound(tc, app) /\ tc \in TownCrier!World /\ app \in InsuranceState
      /\ UNCHANGED <<app, calls, today>> /\ today' \in 0..MaxDay
  BY DEF Inv, Sound, OwnerCall
<1>2. CASE \E k \in BOOLEAN : tc' = [tc EXCEPT !.killswitch = k]
  <2>1. /\ tc' \in TownCrier!World /\ tc'.requests = tc.requests
        /\ tc'.requestCnt = tc.requestCnt
    BY <1>1, <1>2 DEF TownCrier!World
  <2>2. Sound(tc', app)
    BY <1>1, <2>1, SameRequests
  <2> QED
    BY <1>1, <2>2, StayInv
<1>3. ASSUME NEW a \in ResetArgs,
             tc' = [tc EXCEPT !.GAS_PRICE = a.price,
                              !.MIN_FEE = a.price * a.minGas,
                              !.CANCELLATION_FEE = a.price * a.cancellationGas]
      PROVE  Inv'
  <2>1. a.price \in Nat /\ a.minGas \in Nat /\ a.cancellationGas \in Nat
    OBVIOUS
  <2>2. a.price * a.minGas \in Nat /\ a.price * a.cancellationGas \in Nat
    BY <2>1
  <2>3. /\ tc' \in TownCrier!World /\ tc'.requests = tc.requests
        /\ tc'.requestCnt = tc.requestCnt
    BY <1>1, <1>3, <2>1, <2>2 DEF TownCrier!World
  <2>4. Sound(tc', app)
    BY <1>1, <2>3, SameRequests
  <2> QED
    BY <1>1, <2>4, StayInv
<1> QED
  BY <1>2, <1>3 DEF OwnerCall
-----------------------------------------------------------------------------
(* The operations, with the payments.                                      *)

\* A payment for open policy pid in state s, in which no request of the
\* policy waits for its answer.
LEMMA PaymentSound ==
    ASSUME NEW s, SoundState(s), NEW pid \in Policies,
           s.app.policies[pid].fee # 0, NEW t \in Int,
           \A id \in RequestIds \ {0} :
               s.tc.requests[id].requester = App /\ s.app.id_map[id] = pid =>
                   ~Awaits(s.tc, id) /\ t = id,
           NEW why \in {"open", "refused", "cancelled", "answer", "error", "rejected"},
           NEW v \in Nat, v <= s.app.balance, NEW due \in Nat
    PROVE  SoundState([s EXCEPT !.app = Paid(SettledWith(s.app, pid, t), pid, why, v, due)])
<1> DEFINE b == Paid(SettledWith(s.app, pid, t), pid, why, v, due)
<1>1. /\ s = [tc |-> s.tc, app |-> s.app] /\ Sound(s.tc, s.app)
      /\ s.app \in InsuranceState /\ pid \in PolicyIds
  BY StateParts, PoliciesAre DEF SoundState
<1>2. Closes(s.app, b, pid, t)
  <2> HIDE DEF b
  <2> QED
    BY <1>1, ClosesIs DEF b
<1> HIDE DEF b
<1>3. Sound(s.tc, b)
  BY <1>1, <1>2, ClosesSound
<1>4. [s EXCEPT !.app = b] = [tc |-> s.tc, app |-> b]
  BY <1>1
<1> QED
  BY <1>3, <1>4, SoundPair DEF b

LEMMA MayAskIs ==
    ASSUME Inv, NEW u \in Users, NEW pid \in PolicyIds, MayAsk(u, pid)
    PROVE  /\ pid \in Policies /\ app.policies[pid].fee # 0
           /\ app.policies[pid].tc_id = 0 /\ app.policies[pid] \in Policy
           /\ app.policies[pid].fee \in Nat /\ app.policies[pid].premium \in Nat
           /\ app \in InsuranceState
           /\ \A id \in RequestIds \ {0} :
                  ~(tc.requests[id].requester = App /\ app.id_map[id] = pid)
<1>1. /\ pid \in Policies /\ app.policies[pid].fee # 0 /\ app \in InsuranceState
      /\ app.policies[pid].tc_id = 0
  BY DEF MayAsk, Policies, Inv, Sound
<1>2. app.policies[pid] \in Policy
  BY <1>1, AppTypes
<1>3. ASSUME NEW id \in RequestIds \ {0}
      PROVE  ~(tc.requests[id].requester = App /\ app.id_map[id] = pid)
  <2>1. IdSound(tc, app, id)
    BY DEF Inv, Sound
  <2> QED
    BY <1>1, <2>1 DEF IdSound
<1> QED
  BY <1>1, <1>2, <1>3, PolicyTypes

LEMMA RequestRefusedInv ==
    ASSUME Inv, NEW u \in Users, NEW pid \in PolicyIds, RequestRefused(u, pid)
    PROVE  Inv'
<1> DEFINE policy == app.policies[pid]
           result == IF tc.killswitch THEN 0 ELSE -1
           a == SettledWith(app, pid, result)
           v == (a.policies[pid].premium + a.policies[pid].fee) % WORD
           s == [Now EXCEPT !.app =
                    Paid(a, pid, "refused", v, (policy.premium + policy.fee) % WORD)]
<1>1. /\ MayAsk(u, pid) /\ app.balance >= v /\ UNCHANGED today
      /\ PayUser("request", u, Now, Now, s)
  BY DEF RequestRefused, SettledWith
<1>2. /\ pid \in Policies /\ policy.fee # 0
      /\ policy.tc_id = 0 /\ policy \in Policy
      /\ policy.fee \in Nat /\ policy.premium \in Nat
      /\ app \in InsuranceState
      /\ \A id \in RequestIds \ {0} :
             ~(tc.requests[id].requester = App /\ app.id_map[id] = pid)
  BY <1>1, MayAskIs
<1>3. result \in Int
  OBVIOUS
<1> HIDE DEF result
<1>4. v \in Nat
  <2>1. a = [app EXCEPT !.policies = Marked(app, pid, result)]
    BY <1>2, <1>3, SettledIs
  <2>2. app.policies \in [PolicyIds -> Policy]
    BY <1>2, AppTypes
  <2>3. /\ a.policies[pid].premium = policy.premium
        /\ a.policies[pid].fee = 0
    BY <1>2, <2>1, <2>2 DEF Marked, InsuranceState, Policy
  <2>4. a.policies[pid].premium + a.policies[pid].fee \in Int
    BY <1>2, <2>3
  <2> QED
    BY <2>4, WordIs
<1>5. (policy.premium + policy.fee) % WORD \in Nat /\ app.balance \in Nat
  <2>1. policy.premium + policy.fee \in Int
    BY <1>2
  <2> QED
    BY <1>2, <2>1, AppTypes, WordIs
<1>6. SoundState(Now) /\ Now.app = app /\ Now.tc = tc
  BY NowSound DEF Now
<1>7. SoundState(s)
  <2> DEFINE due == (policy.premium + policy.fee) % WORD
  <2>1. due \in Nat /\ v <= app.balance
    BY <1>1, <1>4, <1>5
  <2> HIDE DEF v, due
  <2>2. SoundState([Now EXCEPT !.app =
            Paid(SettledWith(Now.app, pid, result), pid, "refused", v, due)])
    BY <1>2, <1>3, <1>4, <1>6, <2>1, PaymentSound
  <2> QED
    BY <1>6, <2>2 DEF due
<1> HIDE DEF s
<1> QED
  BY <1>1, <1>6, <1>7, PushInv

LEMMA CancelInv ==
    ASSUME Inv, NEW u \in Users, NEW pid \in PolicyIds, Cancel(u, pid)
    PROVE  Inv'
<1> DEFINE policy == app.policies[pid]
           t == policy.tc_id
           a == Settled(app, pid)
           v == (a.policies[pid].premium + a.policies[pid].fee) % WORD
           s == [Now EXCEPT !.app =
                    Paid(a, pid, "cancelled", v, (policy.premium + policy.fee) % WORD)]
<1>1. /\ MayAsk(u, pid) /\ app.balance >= v /\ UNCHANGED today
      /\ PayUser("cancel", u, Now, Now, s)
  BY DEF Cancel
<1>2. /\ pid \in Policies /\ policy.fee # 0
      /\ policy.tc_id = 0 /\ policy \in Policy
      /\ policy.fee \in Nat /\ policy.premium \in Nat
      /\ app \in InsuranceState
      /\ \A id \in RequestIds \ {0} :
             ~(tc.requests[id].requester = App /\ app.id_map[id] = pid)
  BY <1>1, MayAskIs
<1>3. a = SettledWith(app, pid, t)
      /\ a = [app EXCEPT !.policies = Marked(app, pid, t)] /\ t \in Int
  <2>1. t \in Int /\ app.policies[pid].tc_id = t
    BY <1>2
  <2> HIDE DEF t, policy
  <2>2. /\ SettledWith(app, pid, t) = [app EXCEPT !.policies = Marked(app, pid, t)]
        /\ app.policies[pid].tc_id = t => SettledWith(app, pid, t) = Settled(app, pid)
    BY <1>2, <2>1, SettledIs
  <2> QED
    BY <2>1, <2>2
<1> HIDE DEF a, t
<1>4. v \in Nat
  <2>1. app.policies \in [PolicyIds -> Policy]
    BY <1>2, AppTypes
  <2>2. /\ a.policies[pid].premium = policy.premium
        /\ a.policies[pid].fee = 0
    BY <1>2, <1>3, <2>1 DEF Marked, InsuranceState, Policy
  <2>3. a.policies[pid].premium + a.policies[pid].fee \in Int
    BY <1>2, <2>2
  <2> QED
    BY <2>3, WordIs
<1>5. (policy.premium + policy.fee) % WORD \in Nat /\ app.balance \in Nat
  <2>1. policy.premium + policy.fee \in Int
    BY <1>2
  <2> QED
    BY <1>2, <2>1, AppTypes, WordIs
<1>6. SoundState(Now) /\ Now.app = app /\ Now.tc = tc
  BY NowSound DEF Now
<1>7. SoundState(s)
  <2> DEFINE due == (policy.premium + policy.fee) % WORD
  <2>1. due \in Nat /\ v <= app.balance
    BY <1>1, <1>4, <1>5
  <2> HIDE DEF v, due
  <2>2. SoundState([Now EXCEPT !.app =
            Paid(SettledWith(Now.app, pid, t), pid, "cancelled", v, due)])
    BY <1>2, <1>3, <1>4, <1>6, <2>1, PaymentSound
  <2> QED
    BY <1>3, <1>6, <2>2 DEF due
<1> HIDE DEF s
<1> QED
  BY <1>1, <1>6, <1>7, PushInv

\* What response pays, and to whom, when the request has a policy.
LEMMA RewardIs ==
    ASSUME NEW id \in RequestIds, NEW error \in Nat, NEW delay \in Delays,
           Sound(tc, app), Pending(id), app.id_map[id] # 0
    PROVE  /\ app.id_map[id] \in Policies
           /\ tc.requests[id].requester = App
           /\ app.policies[app.id_map[id]].fee # 0
           /\ app.policies[app.id_map[id]].tc_id = id
           /\ Reward(id, error, delay).why \in {"answer", "error"}
           /\ Reward(id, error, delay).to \in Users
           /\ Reward(id, error, delay).sent \in Nat
           /\ Reward(id, error, delay).due \in Nat
<1> DEFINE pid == app.id_map[id]
           policy == app.policies[pid]
           refund == IF error >= 2 THEN tc.requests[id].fee ELSE 0
<1>1. /\ app \in InsuranceState /\ IdSound(tc, app, id) /\ Awaits(tc, id)
      /\ tc.requests[id].fee \in Nat /\ tc.requests[id].fee # 0
  BY PendingIs DEF Sound
<1>2. pid \in Policies /\ pid \in PolicyIds
  <2>1. app.id_map \in [RequestIds -> PolicyIds]
    BY <1>1, AppTypes
  <2> QED
    BY <2>1 DEF Policies
<1>3. /\ tc.requests[id].requester = App /\ policy.tc_id = id
      /\ policy.fee = tc.requests[id].fee
  BY <1>1 DEF IdSound
<1>4. policy \in Policy
  BY <1>1, <1>2, AppTypes
<1>5. policy.requester \in Users
  <2>1. PolicySound(app, pid)
    BY <1>2 DEF Sound
  <2> QED
    BY <1>1, <1>3, <1>4, <2>1, PolicyTypes DEF PolicySound
<1>6. /\ policy.premium \in Nat /\ (policy.premium * PAYOUT_RATE) % WORD \in Nat
      /\ (policy.premium + refund) % WORD \in Nat
  <2>1. policy.premium \in Nat /\ refund \in Nat
    BY <1>1, <1>4, PolicyTypes
  <2> HIDE DEF policy, refund
  <2>2. policy.premium * PAYOUT_RATE \in Int /\ policy.premium + refund \in Int
    BY <2>1 DEF PAYOUT_RATE
  <2> QED
    BY <2>1, <2>2, WordIs
<1> HIDE DEF refund
<1>7. /\ Reward(id, error, delay).why \in {"answer", "error"}
      /\ Reward(id, error, delay).to \in {InsuranceOwner, policy.requester}
      /\ Reward(id, error, delay).sent \in
             {(policy.premium * PAYOUT_RATE) % WORD, policy.premium}
      /\ Reward(id, error, delay).due \in
             {(policy.premium * PAYOUT_RATE) % WORD, (policy.premium + refund) % WORD}
  BY DEF Reward, refund
<1> QED
  BY <1>1, <1>2, <1>3, <1>5, <1>6, <1>7

\* response closes the policy of a request that TownCrier just closed.
LEMMA ResponseSound ==
    ASSUME NEW id \in RequestIds, NEW error \in Nat, Sound(tc, app), Pending(id),
           app.id_map[id] # 0, app.id_map[id] \in Policies,
           app.policies[app.id_map[id]].fee # 0,
           app.policies[app.id_map[id]].tc_id = id,
           NEW why \in {"open", "refused", "cancelled", "answer", "error", "rejected"},
           NEW v \in Nat, v <= Delivering(id, error).app.balance, NEW due \in Nat
    PROVE  LET s == Delivering(id, error)
               pid == app.id_map[id]
           IN  SoundState([s EXCEPT !.app =
                               Paid(Settled(s.app, pid), pid, why, v, due)])
<1> DEFINE s == Delivering(id, error)
           pid == app.id_map[id]
<1>1. /\ SoundState(s) /\ s.tc.requests[id].fee = 0
      /\ s.app.policies = app.policies /\ s.app.id_map = app.id_map
  BY DeliveringSound
<1>2. /\ pid \in Policies /\ pid \in PolicyIds /\ s.app.policies[pid].fee # 0
      /\ s.app.policies[pid].tc_id = id /\ s.app.id_map[id] = pid
      /\ v <= s.app.balance
      /\ s.app \in InsuranceState /\ Sound(s.tc, s.app) /\ id \in Int
  BY <1>1, IdsAre, PoliciesAre DEF SoundState, Sound
<1> HIDE DEF s, pid
<1>3. ASSUME NEW other \in RequestIds \ {0},
             s.tc.requests[other].requester = App, s.app.id_map[other] = pid
      PROVE  ~Awaits(s.tc, other) /\ id = other
  <2>1. IdSound(s.tc, s.app, other)
    BY <1>2 DEF Sound
  <2>2. other = id
    BY <1>2, <1>3, <2>1 DEF IdSound
  <2> QED
    BY <1>1, <2>2 DEF Awaits, TownCrier!Deliverable
<1>4. Settled(s.app, pid) = SettledWith(s.app, pid, id)
  BY <1>2, SettledIs
<1>5. SoundState([s EXCEPT !.app =
                      Paid(SettledWith(s.app, pid, id), pid, why, v, due)])
  BY <1>1, <1>2, <1>3, PaymentSound
<1> QED
  BY <1>4, <1>5 DEF s, pid

LEMMA ResponsePaysInv ==
    ASSUME Inv, NEW id \in RequestIds, NEW error \in Errors, NEW delay \in Delays,
           ResponsePays(id, error, delay)
    PROVE  Inv'
<1> DEFINE s == Delivering(id, error)
           pid == app.id_map[id]
           r == Reward(id, error, delay)
           After(why, sent) ==
               [s EXCEPT !.app = Paid(Settled(s.app, pid), pid, why, sent, r.due)]
<1>1. /\ Pending(id) /\ pid # 0 /\ s.app.balance >= r.sent
      /\ PayUser("response", r.to, s, After("rejected", 0), After(r.why, r.sent))
      /\ UNCHANGED today
  BY DEF ResponsePays
<1>2. Sound(tc, app) /\ error \in Nat
  BY DEF Inv
<1>3. /\ pid \in Policies /\ app.policies[pid].fee # 0
      /\ app.policies[pid].tc_id = id
      /\ r.why \in {"answer", "error"} /\ r.to \in Users
      /\ r.sent \in Nat /\ r.due \in Nat
  BY <1>1, <1>2, RewardIs
<1>4. SoundState(s) /\ s.app.balance \in Nat
  <2>1. SoundState(s)
    BY <1>1, <1>2, DeliveringSound
  <2> QED
    BY <2>1, AppTypes DEF SoundState, Sound
<1> HIDE DEF r
<1>5. SoundState(After("rejected", 0))
  <2>1. 0 <= s.app.balance
    BY <1>4
  <2> QED
    BY <1>1, <1>2, <1>3, <2>1, ResponseSound
<1>6. SoundState(After(r.why, r.sent))
  <2> DEFINE v == r.sent
             why == r.why
  <2>1. v <= s.app.balance /\ v \in Nat
        /\ why \in {"open", "refused", "cancelled", "answer", "error", "rejected"}
    BY <1>1, <1>3, <1>4
  <2> HIDE DEF v, why
  <2>2. SoundState(After(why, v))
    BY <1>1, <1>2, <1>3, <2>1, ResponseSound
  <2> QED
    BY <2>2 DEF v, why
<1> HIDE DEF s, After
<1> QED
  BY <1>1, <1>3, <1>4, <1>5, <1>6, PushInv

LEMMA ResponseUnpaidInv ==
    ASSUME Inv, NEW id \in RequestIds, NEW error \in Errors, NEW delay \in Delays,
           ResponseUnpaid(id, error, delay)
    PROVE  Inv'
<1> DEFINE s == Delivering(id, error)
           pid == app.id_map[id]
           r == Reward(id, error, delay)
           a == IF pid = 0 THEN s.app
                ELSE Paid(Settled(s.app, pid), pid, r.why, 0, r.due)
<1>1. /\ Pending(id) /\ UNCHANGED <<calls, today>>
      /\ Become(DeliverEnds([s EXCEPT !.app = a]))
  BY DEF ResponseUnpaid
<1>2. Sound(tc, app) /\ error \in Nat
  BY DEF Inv
<1>3. SoundState(s) /\ s.app.balance \in Nat
  <2>1. SoundState(s)
    BY <1>1, <1>2, DeliveringSound
  <2> QED
    BY <2>1, AppTypes DEF SoundState, Sound
<1>4. SoundState([s EXCEPT !.app = a])
  <2>1. CASE pid = 0
    <3> HIDE DEF s
    <3>1. [s EXCEPT !.app = s.app] = s
      BY <1>3, StateParts DEF SoundState
    <3> QED
      BY <1>3, <2>1, <3>1
  <2>2. CASE pid # 0
    <3>1. /\ pid \in Policies /\ app.policies[pid].fee # 0
          /\ app.policies[pid].tc_id = id
          /\ r.why \in {"answer", "error"} /\ r.due \in Nat
      BY <1>1, <1>2, <2>2, RewardIs
    <3> DEFINE why == r.why
               due == r.due
    <3>2. why \in {"open", "refused", "cancelled", "answer", "error", "rejected"}
          /\ due \in Nat /\ 0 <= s.app.balance
      BY <1>3, <3>1
    <3> HIDE DEF why, due, r
    <3>3. SoundState([s EXCEPT !.app = Paid(Settled(s.app, pid), pid, why, 0, due)])
      BY <1>1, <1>2, <2>2, <3>1, <3>2, ResponseSound
    <3> QED
      BY <2>2, <3>3 DEF why, due
  <2> QED
    BY <2>1, <2>2
<1> HIDE DEF a, s
<1>5. SoundState(DeliverEnds([s EXCEPT !.app = a]))
  BY <1>4, DeliverEndsSound
<1> QED
  BY <1>1, <1>5, BecomeInv

LEMMA ResponseFailsInv ==
    ASSUME Inv, NEW id \in RequestIds, NEW error \in Errors, ResponseFails(id, error)
    PROVE  Inv'
<1>1. /\ Pending(id) /\ UNCHANGED <<calls, today>>
      /\ Become(DeliverEnds(Delivering(id, error)))
  BY DEF ResponseFails
<1>2. Sound(tc, app) /\ error \in Nat
  BY DEF Inv
<1>3. SoundState(Delivering(id, error))
  BY <1>1, <1>2, DeliveringSound
<1>4. SoundState(DeliverEnds(Delivering(id, error)))
  BY <1>3, DeliverEndsSound
<1> QED
  BY <1>1, <1>4, BecomeInv

LEMMA InsureInv ==
    ASSUME Inv, NEW u \in Users, NEW v \in Values, NEW payment \in Payments,
           NEW d \in Departures,
           InsureRefused(u, v, payment, d) \/ Insure(u, v, payment, d)
    PROVE  Inv'
<1>1. CASE InsureRefused(u, v, payment, d)
  BY <1>1, NowSound, PushInv DEF InsureRefused
<1>2. CASE Insure(u, v, payment, d)
  <2>1. Sound(tc', app')
    <3>1. Sound(tc, app) /\ v \in Nat
      BY DEF Inv
    <3> QED
      BY <1>2, <3>1, InsureSound DEF Insure
  <2>2. today' \in 0..MaxDay /\ UNCHANGED calls
    BY <1>2 DEF Inv, Insure
  <2> QED
    BY <2>1, <2>2, StayInv
<1> QED
  BY <1>1, <1>2

LEMMA RequestInv ==
    ASSUME Inv, NEW u \in Users, NEW pid \in PolicyIds, RequestSent(u, pid)
    PROVE  Inv'
<1>1. /\ MayAsk(u, pid) /\ Sound(tc, app) /\ UNCHANGED <<calls, today>>
      /\ tc.requestCnt <= MaxRequests /\ app.balance >= app.policies[pid].fee
  BY DEF RequestSent, Inv
<1>2. pid \in Policies /\ app.policies[pid].fee # 0 /\ app.policies[pid].tc_id = 0
  BY <1>1, MayAskIs
<1>3. Sound(tc', app')
  BY <1>1, <1>2, RecordedOwn DEF RequestSent
<1> QED
  BY <1>1, <1>3, StayInv DEF Inv

LEMMA NextInv == Inv /\ [Next]_insuranceVars => Inv'
<1> SUFFICES ASSUME Inv, [Next]_insuranceVars
             PROVE  Inv'
  OBVIOUS
<1>1. CASE Tomorrow
  <2>1. UNCHANGED vars /\ today' \in 0..MaxDay
    BY <1>1 DEF Tomorrow, Inv
  <2> QED
    BY <2>1, StayInv DEF vars, Inv
<1>2. CASE \E u \in Users, v \in Values, payment \in Payments, d \in Departures :
               InsureRefused(u, v, payment, d) \/ Insure(u, v, payment, d)
  BY <1>2, InsureInv
<1>3. CASE \E u \in Users, pid \in PolicyIds :
               RequestSent(u, pid) \/ RequestRefused(u, pid) \/ Cancel(u, pid)
  BY <1>3, RequestInv, RequestRefusedInv, CancelInv
<1>4. CASE \E id \in RequestIds, error \in Errors :
               \/ \E delay \in Delays : Response(id, error, delay)
               \/ ResponseFails(id, error)
  BY <1>4, ResponsePaysInv, ResponseUnpaidInv, ResponseFailsInv DEF Response
<1>5. CASE \E u \in Users, v \in Values : ForeignRequest(u, v) /\ UNCHANGED today
  <2>1. PICK u \in Users, v \in Values : ForeignRequest(u, v) /\ UNCHANGED today
    BY <1>5
  <2>2. Sound(tc', app')
    BY <2>1, RecordedForeign DEF ForeignRequest, Inv
  <2> QED
    BY <2>1, <2>2, StayInv DEF ForeignRequest, Inv
<1>6. CASE PaymentEnds /\ UNCHANGED today
  <2>1. calls # <<>>
    BY <1>6 DEF PaymentEnds, UserReturns, UserFails, OutOfGas, EndCall
  <2>2. SoundState(Top.entry) /\ SoundState(Top.callback) /\ SoundState(Top.unpaid)
        /\ SoundState(Now)
    BY <2>1, TopSound, NowSound
  <2>3. \E s \in {Now, Top.entry, Top.callback, Top.unpaid} : EndCall(s)
    BY <1>6 DEF PaymentEnds, UserReturns, UserFails, OutOfGas
  <2> QED
    BY <1>6, <2>2, <2>3, PopInv
<1>7. CASE OwnerCall /\ UNCHANGED today
  BY <1>7, OwnerInv
<1>8. CASE UNCHANGED insuranceVars
  BY <1>8, StayInv DEF insuranceVars, Inv
<1> QED
  BY <1>1, <1>2, <1>3, <1>4, <1>5, <1>6, <1>7, <1>8 DEF Next
-----------------------------------------------------------------------------
\* FlightInsurance and TownCrier agree in every state they are in and in
\* every one that a failing user or the lack of gas may bring back.
THEOREM Invariance == Spec => []Inv
BY InitInv, NextInv, PTL DEF Spec

\* The map that request writes and response reads leads every request that
\* TownCrier holds for FlightInsurance to the one policy it was made for,
\* which is open with the same fee until the request is answered.
THEOREM ResponsesFindTheirPolicy == Spec => []IdMapAgrees
<1>1. Inv => IdMapAgrees
  <2> SUFFICES ASSUME Inv
               PROVE  IdMapAgrees
    OBVIOUS
  <2>1. TypeOK
    BY DEF Inv, Sound, TypeOK
  <2>2. app.id_map \in [RequestIds -> PolicyIds]
    BY AppTypes DEF Inv, Sound
  <2>3. \A id \in RequestIds \ {0} :
            IdSound(tc, app, id) /\ (Pending(id) => Awaits(tc, id))
    BY DEF Inv, Sound, Pending, Awaits
  <2> QED
    BY <2>1, <2>2, <2>3 DEF IdMapAgrees, IdSound, Policies
<1> QED
  BY Invariance, <1>1, PTL

\* No policy is paid twice and none is paid while open, whatever its holder,
\* called in the middle of a payment, does: every payment is behind the fee
\* that insure set and that is cleared before the ether leaves.
THEOREM PoliciesPaidOnce == Spec => []PaidOnce
<1>1. Inv => PaidOnce
  BY DEF Inv, Sound, PolicySound, PaidOnce
<1> QED
  BY Invariance, <1>1, PTL
=============================================================================
