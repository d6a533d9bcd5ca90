------------------------- MODULE ApplicationProofs -------------------------
(***************************************************************************)
(* Proofs about Application, for every number of requests, every depth of  *)
(* nested payments and all amounts of wei.                                 *)
(*                                                                         *)
(* The invariant Sound is about one state of the two contracts, slot by    *)
(* slot.  Every operation keeps it by itself, so it holds now and in every *)
(* state that a suspended payment may still be rolled back to.             *)
(***************************************************************************)
EXTENDS Application, SequenceTheorems, TLAPS

\* The cancellation fee that TownCrier starts with or was reset to.
SomeFee(f) ==
    \/ f = CANCELLATION_FEE
    \/ \E r \in ResetArgs : f = r.price * r.cancellationGas

\* What a cancellation leaves on account of a request, if TownCrier charges f.
Left(h) ==
    \/ h >= 0
    \/ \E r \in ResetArgs : h = CANCELLATION_FEE - r.price * r.cancellationGas

Awaits(w, id) ==
    /\ TownCrier!Deliverable(w, id, Param)
    /\ w.requests[id].fee # TownCrier!CANCELLED_FEE_FLAG

\* What Application stores for a request fits what TownCrier w stores.
SlotSound(w, a, id) ==
    /\ a.paid[id] <= a.fee[id]
    /\ a.paid[id] > 0 => a.requesters[id] = NoAddress
    /\ id >= w.requestCnt =>
           /\ w.requests[id].requester = NoAddress
           /\ a.requesters[id] = NoAddress
           /\ a.paid[id] = 0 /\ a.held[id] = 0
    /\ id # 0 =>
           /\ w.requests[id].requester # NoAddress =>
                  w.requests[id].paramsHash = Param
           /\ a.requesters[id] # NoAddress =>
                  w.requests[id].requester = App /\ a.fee[id] >= TC_FEE
           /\ w.requests[id].requester = App =>
                  /\ Awaits(w, id) => /\ a.requesters[id] # NoAddress
                                      /\ a.fee[id] = w.requests[id].fee
                  /\ w.requests[id].fee = TownCrier!CANCELLED_FEE_FLAG =>
                         a.requesters[id] = NoAddress
    /\ TownCrier!FlagsDistinct =>
           /\ \/ a.held[id] >= 0
              \/ a.requesters[id] = NoAddress /\ Left(a.held[id])
           /\ w.requests[id].fee \notin {0, 1} => a.held[id] = 0

Sound(w, a) ==
    /\ w \in TownCrier!World
    /\ a \in AppState
    /\ w.requestCnt >= 1
    /\ SomeFee(w.CANCELLATION_FEE)
    /\ \A id \in RequestIds : SlotSound(w, a, id)

SoundState(s) == s \in State(AppState) /\ Sound(s.tc, s.app)

\* The inductive invariant.
Inv ==
    /\ Sound(tc, app)
    /\ calls \in Seq(Frame(AppState))
    /\ \A i \in 1..Len(calls) : /\ SoundState(calls[i].entry)
                                /\ SoundState(calls[i].callback)
                                /\ SoundState(calls[i].unpaid)
-----------------------------------------------------------------------------
USE ClientAssumption DEF TownCrier!CANCELLED_FEE_FLAG, TownCrier!DELIVERED_FEE_FLAG

LEMMA IdsAre == RequestIds = 0..MaxRequests
BY DEF RequestIds, TownCrier!RequestIds

LEMMA TownCrierTypes ==
    ASSUME NEW w \in TownCrier!World
    PROVE  /\ w.requestCnt \in Nat /\ w.unrespondedCnt \in Nat /\ w.balance \in Int
           /\ w.CANCELLATION_FEE \in Nat /\ w.killswitch \in BOOLEAN
           /\ w.requests \in [RequestIds -> TownCrier!Request]
           /\ w.callbacks \in [RequestIds -> Nat]
BY DEF TownCrier!World, RequestIds

LEMMA RequestTypes ==
    ASSUME NEW r \in TownCrier!Request
    PROVE  /\ r.requester \in Users \cup {App, NoAddress} /\ r.fee \in Nat
           /\ r.callbackAddr \in Users \cup {App, NoAddress}
           /\ r.paramsHash \in {Param, NoAddress}
BY DEF TownCrier!Request

LEMMA AppTypes ==
    ASSUME NEW a \in AppState
    PROVE  /\ a.requesters \in [RequestIds -> Users \cup {NoAddress}]
           /\ a.fee \in [RequestIds -> Nat] /\ a.balance \in Nat
           /\ a.held \in [RequestIds -> Int] /\ a.paid \in [RequestIds -> Nat]
BY DEF AppState

\* A slot is sound whatever happens to the other ones.
LEMMA SlotSame ==
    ASSUME NEW w \in TownCrier!World, NEW a, NEW w2 \in TownCrier!World, NEW a2,
           NEW id \in RequestIds, SlotSound(w, a, id),
           w2.requests[id] = w.requests[id], w2.requestCnt >= w.requestCnt,
           a2.requesters[id] = a.requesters[id], a2.fee[id] = a.fee[id],
           a2.paid[id] = a.paid[id], a2.held[id] = a.held[id]
    PROVE  SlotSound(w2, a2, id)
<1>1. w.requestCnt \in Nat /\ w2.requestCnt \in Nat /\ id \in Nat
  BY TownCrierTypes, IdsAre
<1> QED
  BY <1>1 DEF SlotSound, Awaits, TownCrier!Deliverable

\* So a state is sound if it differs from a sound one in one sound slot.
LEMMA OneSlot ==
    ASSUME NEW w, NEW a, Sound(w, a), NEW w2 \in TownCrier!World,
           NEW a2 \in AppState, NEW id \in RequestIds,
           w2.requestCnt >= w.requestCnt,
           w2.CANCELLATION_FEE = w.CANCELLATION_FEE,
           \A other \in RequestIds \ {id} :
               /\ w2.requests[other] = w.requests[other]
               /\ a2.requesters[other] = a.requesters[other]
               /\ a2.fee[other] = a.fee[other]
               /\ a2.paid[other] = a.paid[other]
               /\ a2.held[other] = a.held[other],
           SlotSound(w2, a2, id)
    PROVE  Sound(w2, a2)
<1>1. \A other \in RequestIds \ {id} : SlotSound(w2, a2, other)
  BY SlotSame DEF Sound
<1>2. w.requestCnt \in Nat /\ w2.requestCnt \in Nat /\ w.requestCnt >= 1
  BY TownCrierTypes DEF Sound
<1> QED
  BY <1>1, <1>2 DEF Sound

\* TownCrier may change what is not about requests.
LEMMA SameRequests ==
    ASSUME NEW w, NEW a, Sound(w, a), NEW w2 \in TownCrier!World,
           w2.requests = w.requests, w2.requestCnt = w.requestCnt,
           SomeFee(w2.CANCELLATION_FEE)
    PROVE  Sound(w2, a)
<1>1. \A id \in RequestIds : SlotSound(w2, a, id)
  <2>1. w2.requestCnt >= w.requestCnt /\ w \in TownCrier!World
    BY TownCrierTypes DEF Sound
  <2> QED
    BY <2>1, SlotSame DEF Sound
<1> QED
  BY <1>1 DEF Sound
-----------------------------------------------------------------------------
(* The operations, one state at a time.                                    *)

LEMMA StateParts ==
    ASSUME NEW s \in State(AppState)
    PROVE  s = [tc |-> s.tc, app |-> s.app]
           /\ s.tc \in TownCrier!World /\ s.app \in AppState
BY DEF State

LEMMA SoundPair ==
    ASSUME NEW w, NEW a, Sound(w, a)
    PROVE  SoundState([tc |-> w, app |-> a])
BY DEF SoundState, State, Sound

LEMMA DeliverEndsSound ==
    ASSUME NEW s, SoundState(s)
    PROVE  SoundState(DeliverEnds(s))
<1> DEFINE w == [s.tc EXCEPT !.externalCallFlag = FALSE]
<1>1. s = [tc |-> s.tc, app |-> s.app] /\ Sound(s.tc, s.app)
  BY StateParts DEF SoundState
<1>2. DeliverEnds(s) = [tc |-> w, app |-> s.app]
  <2>1. DeliverEnds(s) = [s EXCEPT !.tc = w]
    BY DEF DeliverEnds
  <2> HIDE DEF w
  <2> QED
    BY <2>1 DEF SoundState, State
<1>3. /\ w \in TownCrier!World /\ w.requests = s.tc.requests
      /\ w.requestCnt = s.tc.requestCnt
      /\ w.CANCELLATION_FEE = s.tc.CANCELLATION_FEE
  BY <1>1 DEF Sound, TownCrier!World
<1> HIDE DEF w
<1>4. Sound(w, s.app)
  BY <1>1, <1>3, SameRequests DEF Sound
<1> QED
  BY <1>2, <1>4, SoundPair

\* A request gets the next id.
LEMMA RecordedIs ==
    ASSUME NEW w \in TownCrier!World, w.requestCnt \in RequestIds,
           NEW u \in Users \cup {App}, NEW v \in Nat
    PROVE  LET r == TownCrier!Recorded(w, u, v, App, Param) IN
           /\ r \in TownCrier!World /\ r.requestCnt = w.requestCnt + 1
           /\ r.requests = [w.requests EXCEPT ![w.requestCnt] =
                  [requester |-> u, fee |-> v, callbackAddr |-> App,
                   paramsHash |-> Param]]
           /\ r.CANCELLATION_FEE = w.CANCELLATION_FEE
<1> DEFINE slot == [requester |-> u, fee |-> v, callbackAddr |-> App,
                    paramsHash |-> Param]
<1>1. slot \in TownCrier!Request
  BY DEF TownCrier!Request
<1>2. /\ w.requests \in [RequestIds -> TownCrier!Request]
      /\ w.requestCnt + 1 \in Nat /\ w.balance + v \in Int
      /\ (w.unrespondedCnt + 1) % UINT64 \in Nat
  <2>1. w.unrespondedCnt \in Nat /\ UINT64 \in Nat /\ UINT64 > 0
    BY TownCrierTypes
  <2>2. (w.unrespondedCnt + 1) % UINT64 \in Nat
    BY <2>1
  <2> QED
    BY <2>2, TownCrierTypes
<1> HIDE DEF slot
<1>3. [w.requests EXCEPT ![w.requestCnt] = slot] \in [RequestIds -> TownCrier!Request]
  BY <1>1, <1>2
<1>4. TownCrier!Recorded(w, u, v, App, Param) =
          [w EXCEPT !.requestCnt = w.requestCnt + 1,
                    !.unrespondedCnt = (w.unrespondedCnt + 1) % UINT64,
                    !.requests = [w.requests EXCEPT ![w.requestCnt] = slot],
                    !.balance = w.balance + v]
  BY DEF TownCrier!Recorded, TownCrier!World, slot
<1>5. TownCrier!Recorded(w, u, v, App, Param) \in TownCrier!World
  BY <1>2, <1>3, <1>4 DEF TownCrier!World, RequestIds
<1> QED
  BY <1>4, <1>5 DEF TownCrier!World, slot

LEMMA RecordedOwn ==
    ASSUME NEW w, NEW a, Sound(w, a), w.requestCnt <= MaxRequests,
           NEW u \in Users, NEW v \in Nat, v >= TC_FEE
    PROVE  Sound(TownCrier!Recorded(w, App, v, App, Param),
                 [a EXCEPT !.requesters[w.requestCnt] = u,
                           !.fee[w.requestCnt] = v])
<1> DEFINE n == w.requestCnt
           r == TownCrier!Recorded(w, App, v, App, Param)
           b == [a EXCEPT !.requesters[n] = u, !.fee[n] = v]
<1>1. n \in RequestIds /\ n \in Nat /\ n # 0 /\ w \in TownCrier!World
  BY TownCrierTypes, IdsAre DEF Sound
<1>2. /\ r \in TownCrier!World /\ r.requestCnt = n + 1
      /\ r.requests = [w.requests EXCEPT ![n] =
             [requester |-> App, fee |-> v, callbackAddr |-> App,
              paramsHash |-> Param]]
      /\ r.CANCELLATION_FEE = w.CANCELLATION_FEE
      /\ w.requests \in [RequestIds -> TownCrier!Request]
  BY <1>1, RecordedIs, TownCrierTypes
<1>3. /\ a \in AppState /\ a.requesters \in [RequestIds -> Users \cup {NoAddress}]
      /\ a.fee \in [RequestIds -> Nat] /\ a.held \in [RequestIds -> Int]
      /\ a.paid \in [RequestIds -> Nat]
  BY AppTypes DEF Sound
<1>4. /\ b \in AppState /\ b.requesters = [a.requesters EXCEPT ![n] = u]
      /\ b.fee = [a.fee EXCEPT ![n] = v] /\ b.held = a.held /\ b.paid = a.paid
  <2>1. [a.requesters EXCEPT ![n] = u] \in [RequestIds -> Users \cup {NoAddress}]
        /\ [a.fee EXCEPT ![n] = v] \in [RequestIds -> Nat]
    BY <1>3
  <2> QED
    BY <1>3, <2>1 DEF AppState
<1> HIDE DEF n, r, b
<1>5. a.paid[n] = 0 /\ a.held[n] = 0
  BY <1>1 DEF Sound, SlotSound, n
<1>6. SlotSound(r, b, n)
  <2>1. /\ r.requests[n] = [requester |-> App, fee |-> v, callbackAddr |-> App,
                            paramsHash |-> Param]
        /\ b.requesters[n] = u /\ b.fee[n] = v /\ b.held[n] = 0 /\ b.paid[n] = 0
    BY <1>1, <1>2, <1>3, <1>4, <1>5
  <2> QED
    BY <1>1, <1>2, <2>1 DEF SlotSound, TC_FEE
<1>7. \A other \in RequestIds \ {n} :
          /\ r.requests[other] = w.requests[other]
          /\ b.requesters[other] = a.requesters[other]
          /\ b.fee[other] = a.fee[other]
          /\ b.paid[other] = a.paid[other]
          /\ b.held[other] = a.held[other]
  BY <1>2, <1>3, <1>4
<1>8. r.requestCnt >= w.requestCnt
  BY <1>1, <1>2 DEF n
<1>9. Sound(r, b)
  <2>1. /\ n \in RequestIds /\ r \in TownCrier!World /\ b \in AppState
        /\ r.CANCELLATION_FEE = w.CANCELLATION_FEE
    BY <1>1, <1>2, <1>4
  <2> QED
    BY ONLY Sound(w, a), <2>1, <1>6, <1>7, <1>8, OneSlot
<1> QED
  BY <1>9 DEF r, b, n

LEMMA RecordedForeign ==
    ASSUME NEW w, NEW a, Sound(w, a), w.requestCnt <= MaxRequests,
           NEW u \in Users, NEW v \in Nat
    PROVE  Sound(TownCrier!Recorded(w, u, v, App, Param), a)
<1> DEFINE n == w.requestCnt
           r == TownCrier!Recorded(w, u, v, App, Param)
<1>1. n \in RequestIds /\ n \in Nat /\ n # 0 /\ w \in TownCrier!World
  BY TownCrierTypes, IdsAre DEF Sound
<1>2. /\ r \in TownCrier!World /\ r.requestCnt = n + 1
      /\ r.requests = [w.requests EXCEPT ![n] =
             [requester |-> u, fee |-> v, callbackAddr |-> App,
              paramsHash |-> Param]]
      /\ r.CANCELLATION_FEE = w.CANCELLATION_FEE
      /\ w.requests \in [RequestIds -> TownCrier!Request] /\ a \in AppState
  BY <1>1, RecordedIs, TownCrierTypes DEF Sound
<1>3. \A other \in RequestIds \ {n} : r.requests[other] = w.requests[other]
  BY <1>2
<1>4. /\ r.requests[n] = [requester |-> u, fee |-> v, callbackAddr |-> App,
                          paramsHash |-> Param]
  BY <1>1, <1>2
<1> HIDE DEF r
<1>5. SlotSound(r, a, n)
  <2>1. SlotSound(w, a, n)
    BY <1>1 DEF Sound
  <2>2. a.requesters[n] = NoAddress /\ a.paid[n] = 0 /\ a.held[n] = 0
    BY <1>1, <2>1 DEF SlotSound
  <2> QED
    BY <1>1, <1>2, <1>4, <2>1, <2>2 DEF SlotSound
<1>6. r.requestCnt >= w.requestCnt
  BY <1>1, <1>2
<1> HIDE DEF n
<1>7. Sound(r, a)
  BY <1>1, <1>2, <1>3, <1>5, <1>6, OneSlot
<1> QED
  BY <1>7 DEF r
-----------------------------------------------------------------------------
(* deliver and response.                                                   *)

LEMMA PendingIs ==
    ASSUME NEW id \in RequestIds, Sound(tc, app), Pending(id)
    PROVE  /\ tc.requests[id] \in TownCrier!Request
           /\ tc.requests[id].requester \in Users \cup {App}
           /\ tc.requests[id].fee \in Nat /\ tc.requests[id].fee # 0
           /\ id # 0 /\ Awaits(tc, id) /\ SlotSound(tc, app, id)
<1>1. tc.requests[id] \in TownCrier!Request
  BY TownCrierTypes DEF Sound
<1>2. /\ tc.requests[id].requester # NoAddress /\ tc.requests[id].fee # 0
      /\ id # 0 /\ Awaits(tc, id)
  BY IdsAre DEF Pending, Awaits, TownCrier!Deliverable
<1> QED
  BY <1>1, <1>2, RequestTypes DEF Sound

\* A request of TownCrier that was responded to, once it was paid for.
Settled(w, id, v, n) ==
    [TownCrier!Responded(w, id) EXCEPT !.balance = v, !.callbacks[id] = n]

LEMMA SettledIs ==
    ASSUME NEW w \in TownCrier!World, NEW id \in RequestIds,
           NEW v \in Int, NEW n \in Nat
    PROVE  LET r == Settled(w, id, v, n) IN
           /\ r \in TownCrier!World /\ r.requestCnt = w.requestCnt
           /\ r.CANCELLATION_FEE = w.CANCELLATION_FEE
           /\ \A other \in RequestIds \ {id} : r.requests[other] = w.requests[other]
           /\ r.requests[id] = [w.requests[id] EXCEPT !.fee = 0]
<1> DEFINE q == [w.requests EXCEPT ![id] = [w.requests[id] EXCEPT !.fee = 0]]
           k == [w.callbacks EXCEPT ![id] = n]
<1>1. /\ w.requests \in [RequestIds -> TownCrier!Request]
      /\ w.callbacks \in [RequestIds -> Nat]
      /\ (w.unrespondedCnt - 1) % UINT64 \in Nat
  <2>1. w.unrespondedCnt - 1 \in Int /\ UINT64 \in Nat /\ UINT64 > 0
    BY TownCrierTypes
  <2>2. (w.unrespondedCnt - 1) % UINT64 \in Nat
    BY <2>1
  <2> QED
    BY <2>2, TownCrierTypes
<1>2. [w.requests[id] EXCEPT !.fee = 0] \in TownCrier!Request
  BY <1>1 DEF TownCrier!Request
<1>3. q \in [RequestIds -> TownCrier!Request] /\ k \in [RequestIds -> Nat]
  BY <1>1, <1>2
<1>4. /\ \A other \in RequestIds \ {id} : q[other] = w.requests[other]
      /\ q[id] = [w.requests[id] EXCEPT !.fee = 0]
  BY <1>1
<1>5. TownCrier!Responded(w, id) =
          [w EXCEPT !.requests = q,
                    !.unrespondedCnt = (w.unrespondedCnt - 1) % UINT64]
  BY DEF TownCrier!Responded, TownCrier!World
<1>6. Settled(w, id, v, n) =
      [w EXCEPT !.requests = q,
                !.unrespondedCnt = (w.unrespondedCnt - 1) % UINT64,
                !.balance = v, !.callbacks = k]
  BY <1>5 DEF TownCrier!World, Settled
<1> HIDE DEF q, k
<1>7. LET r == [w EXCEPT !.requests = q,
                !.unrespondedCnt = (w.unrespondedCnt - 1) % UINT64,
                !.balance = v, !.callbacks = k] IN
      /\ r \in TownCrier!World /\ r.requestCnt = w.requestCnt
      /\ r.CANCELLATION_FEE = w.CANCELLATION_FEE /\ r.requests = q
  BY <1>1, <1>3 DEF TownCrier!World, RequestIds
<1> QED
  BY <1>4, <1>6, <1>7

LEMMA AtCallbackIs ==
    ASSUME NEW id \in RequestIds, NEW error, tc \in TownCrier!World,
           tc.requests[id].fee \in Nat
    PROVE  LET r == AtCallback(id, error) IN
           /\ r \in TownCrier!World /\ r.requestCnt = tc.requestCnt
           /\ r.CANCELLATION_FEE = tc.CANCELLATION_FEE
           /\ \A other \in RequestIds \ {id} : r.requests[other] = tc.requests[other]
           /\ r.requests[id] = [tc.requests[id] EXCEPT !.fee = 0]
<1> DEFINE v == tc.balance - tc.requests[id].fee
           n == tc.callbacks[id] + 1
<1>1. v \in Int /\ n \in Nat
  BY TownCrierTypes
<1> DEFINE r == Settled(tc, id, v, n)
<1>2. /\ r \in TownCrier!World /\ r.requestCnt = tc.requestCnt
      /\ r.CANCELLATION_FEE = tc.CANCELLATION_FEE
      /\ \A other \in RequestIds \ {id} : r.requests[other] = tc.requests[other]
      /\ r.requests[id] = [tc.requests[id] EXCEPT !.fee = 0]
  BY <1>1, SettledIs
<1>3. AtCallback(id, error) = [r EXCEPT !.externalCallFlag = TRUE]
  BY DEF Settled, AtCallback, TownCrier!FeePaid, TownCrier!Responded, TownCrier!World
<1> HIDE DEF r
<1> QED
  BY <1>2, <1>3 DEF TownCrier!World

\* deliver up to the callback: what comes back with an error is held for the
\* request.
LEMMA DeliveringSound ==
    ASSUME NEW id \in RequestIds, NEW error \in Nat, Sound(tc, app), Pending(id)
    PROVE  LET s == Delivering(id, error) IN
           /\ SoundState(s) /\ s.tc.requests[id].fee = 0
           /\ s.app.requesters = app.requesters /\ s.app.fee = app.fee
           /\ TownCrier!FlagsDistinct /\ error >= 2 /\ app.requesters[id] # NoAddress =>
                  s.app.held[id] = app.fee[id]
<1> DEFINE w == AtCallback(id, error)
           back == error >= 2 /\ tc.requests[id].requester = App
           a == IF back THEN Receive(app, id, tc.requests[id].fee) ELSE app
<1>1. /\ tc.requests[id] \in TownCrier!Request
      /\ tc.requests[id].requester \in Users \cup {App}
      /\ tc.requests[id].fee \in Nat /\ tc.requests[id].fee \notin {0, 1}
      /\ id # 0 /\ Awaits(tc, id) /\ SlotSound(tc, app, id)
      /\ tc \in TownCrier!World /\ app \in AppState
  <2>1. tc.requests[id].fee # 1
    BY DEF Pending
  <2> QED
    BY <2>1, PendingIs DEF Sound
<1>2. /\ w \in TownCrier!World /\ w.requestCnt = tc.requestCnt
      /\ w.CANCELLATION_FEE = tc.CANCELLATION_FEE
      /\ \A other \in RequestIds \ {id} : w.requests[other] = tc.requests[other]
      /\ w.requests[id] = [tc.requests[id] EXCEPT !.fee = 0]
  BY <1>1, AtCallbackIs
<1>3. /\ app.requesters \in [RequestIds -> Users \cup {NoAddress}]
      /\ app.fee \in [RequestIds -> Nat] /\ app.balance \in Nat
      /\ app.held \in [RequestIds -> Int] /\ app.paid \in [RequestIds -> Nat]
  BY <1>1, AppTypes
<1>4. /\ a \in AppState /\ a.requesters = app.requesters /\ a.fee = app.fee
      /\ a.paid = app.paid
      /\ a.held = IF back
                  THEN [app.held EXCEPT ![id] = app.held[id] + tc.requests[id].fee]
                  ELSE app.held
  <2>1. CASE back
    <3>1. /\ [app.held EXCEPT ![id] = app.held[id] + tc.requests[id].fee]
                 \in [RequestIds -> Int]
          /\ app.balance + tc.requests[id].fee \in Nat
      BY <1>1, <1>3
    <3> QED
      BY <1>1, <1>3, <2>1, <3>1 DEF Receive, AppState
  <2>2. CASE ~back
    BY <1>1, <2>2
  <2> QED
    BY <2>1, <2>2
<1>5. Delivering(id, error) = [tc |-> w, app |-> a]
  BY DEF Delivering
<1>6. /\ w.requests[id].fee = 0
      /\ w.requests[id].requester = tc.requests[id].requester
      /\ w.requests[id].paramsHash = tc.requests[id].paramsHash
  BY <1>1, <1>2 DEF TownCrier!Request
<1>7. TownCrier!FlagsDistinct => app.held[id] = 0
  BY <1>1 DEF SlotSound
<1>8. a.held[id] = IF back THEN app.held[id] + tc.requests[id].fee
                           ELSE app.held[id]
  BY <1>3, <1>4
<1>9. \A other \in RequestIds \ {id} : a.held[other] = app.held[other]
  BY <1>3, <1>4
<1>10. TownCrier!FlagsDistinct /\ error >= 2 /\ app.requesters[id] # NoAddress =>
           a.held[id] = app.fee[id]
  BY <1>1, <1>3, <1>7, <1>8 DEF SlotSound
<1> HIDE DEF w, a
<1>11. SlotSound(w, a, id)
  <2>1. ~Awaits(w, id)
    BY <1>6 DEF Awaits, TownCrier!Deliverable
  <2>2. TownCrier!FlagsDistinct => a.held[id] >= 0
    BY <1>1, <1>7, <1>8
  <2> QED
    BY <1>1, <1>2, <1>4, <1>6, <2>1, <2>2 DEF SlotSound
<1>12. w.requestCnt >= tc.requestCnt
  BY <1>1, <1>2, TownCrierTypes
<1>13. Sound(w, a)
  <2>1. \A other \in RequestIds \ {id} :
            /\ w.requests[other] = tc.requests[other]
            /\ a.requesters[other] = app.requesters[other]
            /\ a.fee[other] = app.fee[other]
            /\ a.paid[other] = app.paid[other]
            /\ a.held[other] = app.held[other]
    BY <1>2, <1>4, <1>9
  <2>2. w.CANCELLATION_FEE = tc.CANCELLATION_FEE /\ w \in TownCrier!World
        /\ a \in AppState
    BY <1>2, <1>4
  <2> QED
    BY ONLY Sound(tc, app), id \in RequestIds, <2>1, <2>2, <1>11, <1>12, OneSlot
<1>14. /\ SoundState(Delivering(id, error))
       /\ Delivering(id, error).tc = w /\ Delivering(id, error).app = a
  BY <1>5, <1>13, SoundPair
<1> HIDE DEF back
<1> QED
  BY ONLY <1>4, <1>6, <1>10, <1>14

\* What Application does for a request that TownCrier is done with: it marks
\* it, and may pay for it what is held for it.
LEMMA AnsweredSound ==
    ASSUME NEW s, SoundState(s), NEW id \in RequestIds,
           s.tc.requests[id].fee = 0
    PROVE  SoundState([s EXCEPT !.app = Answered(s.app, id)])
<1> DEFINE a == Answered(s.app, id)
<1>1. /\ s \in State(AppState) /\ Sound(s.tc, s.app) /\ s.app \in AppState
      /\ s.tc \in TownCrier!World /\ SlotSound(s.tc, s.app, id)
  BY StateParts DEF SoundState, Sound
<1>2. /\ a \in AppState /\ a.fee = s.app.fee /\ a.paid = s.app.paid
      /\ a.held = s.app.held
      /\ a.requesters = [s.app.requesters EXCEPT ![id] = NoAddress]
  BY <1>1, AppTypes DEF Answered, AppState
<1>3. s.app.requesters \in [RequestIds -> Users \cup {NoAddress}]
  BY <1>1, AppTypes
<1> HIDE DEF a
<1>4. SlotSound(s.tc, a, id)
  <2>1. a.requesters[id] = NoAddress
    BY <1>2, <1>3
  <2>2. ~Awaits(s.tc, id)
    BY DEF Awaits, TownCrier!Deliverable
  <2> QED
    BY <1>1, <1>2, <2>1, <2>2 DEF SlotSound
<1>5. s.tc.requestCnt >= s.tc.requestCnt
  BY <1>1, TownCrierTypes
<1>6. Sound(s.tc, a)
  <2>1. \A other \in RequestIds \ {id} :
            /\ a.requesters[other] = s.app.requesters[other]
            /\ a.fee[other] = s.app.fee[other]
            /\ a.paid[other] = s.app.paid[other]
            /\ a.held[other] = s.app.held[other]
    BY <1>2, <1>3
  <2>2. Sound(s.tc, s.app) /\ s.tc \in TownCrier!World /\ a \in AppState
    BY <1>1, <1>2
  <2> QED
    BY ONLY id \in RequestIds, <2>1, <2>2, <1>4, <1>5, OneSlot
<1>7. [s EXCEPT !.app = a] = [tc |-> s.tc, app |-> a]
  BY <1>1 DEF State
<1> QED
  BY <1>6, <1>7, SoundPair DEF a

\* Application b paid v wei for the request, h of which remain, after
\* TownCrier closed it.
Closed(w, w2, id) ==
    /\ w2 \in TownCrier!World
    /\ w2.requestCnt = w.requestCnt /\ w2.CANCELLATION_FEE = w.CANCELLATION_FEE
    /\ \A other \in RequestIds \ {id} : w2.requests[other] = w.requests[other]
    /\ w2.requests[id].requester = w.requests[id].requester
    /\ w2.requests[id].paramsHash = w.requests[id].paramsHash
    /\ w2.requests[id].fee \in {0, 1}

PaidOut(a, b, id, v, h) ==
    /\ b \in AppState /\ b.fee = a.fee
    /\ b.requesters = [a.requesters EXCEPT ![id] = NoAddress]
    /\ b.paid = [a.paid EXCEPT ![id] = a.paid[id] + v]
    /\ b.held = [a.held EXCEPT ![id] = h]

LEMMA PaidOutSound ==
    ASSUME NEW w, NEW a, Sound(w, a), NEW id \in RequestIds, NEW w2, NEW b,
           NEW v \in Nat, NEW h \in Int, Closed(w, w2, id), PaidOut(a, b, id, v, h),
           a.requesters[id] # NoAddress, v <= a.fee[id],
           TownCrier!FlagsDistinct => Left(h)
    PROVE  Sound(w2, b)
<1>1. /\ w \in TownCrier!World /\ a \in AppState /\ SlotSound(w, a, id)
      /\ a.requesters \in [RequestIds -> Users \cup {NoAddress}]
      /\ a.fee \in [RequestIds -> Nat]
      /\ a.held \in [RequestIds -> Int] /\ a.paid \in [RequestIds -> Nat]
      /\ w.requestCnt \in Nat
  BY AppTypes, TownCrierTypes DEF Sound
<1>2. a.paid[id] = 0 /\ id < w.requestCnt
  BY <1>1, IdsAre DEF SlotSound
<1>3. /\ b.requesters[id] = NoAddress /\ b.paid[id] = v /\ b.held[id] = h
      /\ b.fee[id] = a.fee[id]
  BY <1>1, <1>2 DEF PaidOut
<1>4. SlotSound(w2, b, id)
  <2>1. ~Awaits(w2, id)
    BY DEF Awaits, TownCrier!Deliverable, Closed
  <2>2. w2.requestCnt = w.requestCnt
        /\ w2.requests[id].requester = w.requests[id].requester
        /\ w2.requests[id].paramsHash = w.requests[id].paramsHash
    BY DEF Closed
  <2>3. TownCrier!FlagsDistinct =>
            /\ b.requesters[id] = NoAddress /\ Left(b.held[id])
            /\ ~(w2.requests[id].fee \notin {0, 1})
    BY <1>3 DEF Closed
  <2> QED
    BY <1>1, <1>2, <1>3, <2>1, <2>2, <2>3, IdsAre DEF SlotSound
<1>5. \A other \in RequestIds \ {id} :
          /\ w2.requests[other] = w.requests[other]
          /\ b.requesters[other] = a.requesters[other]
          /\ b.fee[other] = a.fee[other]
          /\ b.paid[other] = a.paid[other]
          /\ b.held[other] = a.held[other]
  BY <1>1 DEF PaidOut, Closed
<1>6. /\ w2 \in TownCrier!World /\ b \in AppState /\ w2.requestCnt >= w.requestCnt
      /\ w2.CANCELLATION_FEE = w.CANCELLATION_FEE
  BY <1>1 DEF PaidOut, Closed
<1> QED
  BY ONLY Sound(w, a), id \in RequestIds, <1>4, <1>5, <1>6, OneSlot

LEMMA ReceiveIs ==
    ASSUME NEW a \in AppState, NEW id \in RequestIds, NEW v \in Nat
    PROVE  LET b == Receive(a, id, v) IN
           /\ b \in AppState /\ b.requesters = a.requesters /\ b.fee = a.fee
           /\ b.paid = a.paid /\ b.balance = a.balance + v
           /\ b.held = [a.held EXCEPT ![id] = a.held[id] + v]
<1>1. a.held \in [RequestIds -> Int] /\ a.balance \in Nat
  BY AppTypes
<1>2. /\ [a.held EXCEPT ![id] = a.held[id] + v] \in [RequestIds -> Int]
      /\ a.balance + v \in Nat
  BY <1>1
<1> QED
  BY <1>2 DEF Receive, AppState

LEMMA SpendIs ==
    ASSUME NEW a \in AppState, NEW id \in RequestIds, NEW v \in Nat,
           a.balance >= v
    PROVE  PaidOut(a, Spend(Answered(a, id), id, v), id, v, a.held[id] - v)
<1> DEFINE c == Answered(a, id)
           b == Spend(c, id, v)
<1>1. /\ a.requesters \in [RequestIds -> Users \cup {NoAddress}]
      /\ a.held \in [RequestIds -> Int] /\ a.balance \in Nat
      /\ a.paid \in [RequestIds -> Nat]
  BY AppTypes
<1>2. /\ c \in AppState /\ c.fee = a.fee /\ c.paid = a.paid /\ c.held = a.held
      /\ c.balance = a.balance
      /\ c.requesters = [a.requesters EXCEPT ![id] = NoAddress]
  BY <1>1 DEF Answered, AppState
<1>3. /\ [a.paid EXCEPT ![id] = a.paid[id] + v] \in [RequestIds -> Nat]
      /\ [a.held EXCEPT ![id] = a.held[id] - v] \in [RequestIds -> Int]
      /\ a.balance - v \in Nat
  BY <1>1
<1> HIDE DEF c
<1>4. /\ b \in AppState /\ b.fee = c.fee /\ b.requesters = c.requesters
      /\ b.paid = [c.paid EXCEPT ![id] = c.paid[id] + v]
      /\ b.held = [c.held EXCEPT ![id] = c.held[id] - v]
  BY <1>2, <1>3 DEF Spend, AppState
<1> QED
  BY <1>2, <1>4 DEF PaidOut, c

\* response pays the fee back.
LEMMA RefundSound ==
    ASSUME NEW s, SoundState(s), NEW id \in RequestIds, s.tc.requests[id].fee = 0,
           s.app.requesters[id] # NoAddress, s.app.balance >= s.app.fee[id],
           TownCrier!FlagsDistinct => s.app.held[id] = s.app.fee[id]
    PROVE  SoundState([s EXCEPT !.app =
                           Spend(Answered(s.app, id), id, s.app.fee[id])])
<1> DEFINE a == s.app
           v == a.fee[id]
           b == Spend(Answered(a, id), id, v)
<1>1. /\ s \in State(AppState) /\ Sound(s.tc, a) /\ s.tc \in TownCrier!World
      /\ a \in AppState
      /\ a.requesters \in [RequestIds -> Users \cup {NoAddress}]
      /\ a.fee \in [RequestIds -> Nat] /\ a.balance \in Nat
      /\ a.held \in [RequestIds -> Int] /\ a.paid \in [RequestIds -> Nat]
  BY StateParts, AppTypes DEF SoundState, Sound
<1>2. v \in Nat /\ a.held[id] - v \in Int
  BY <1>1
<1>3. PaidOut(a, b, id, v, a.held[id] - v)
  BY <1>1, <1>2, SpendIs
<1>4. Closed(s.tc, s.tc, id)
  BY <1>1 DEF Closed
<1> HIDE DEF a, b, v
<1>5. Sound(s.tc, b)
  <2>1. a.requesters[id] # NoAddress /\ v <= a.fee[id]
    BY <1>1, <1>2 DEF a, v
  <2>2. TownCrier!FlagsDistinct => Left(a.held[id] - v)
    BY <1>1, <1>2 DEF a, v, Left
  <2> QED
    BY ONLY id \in RequestIds, <1>1, <1>2, <1>3, <1>4, <2>1, <2>2, PaidOutSound
<1>6. [s EXCEPT !.app = b] = [tc |-> s.tc, app |-> b]
  BY <1>1 DEF State
<1> QED
  BY <1>5, <1>6, SoundPair DEF a, b, v

\* cancel passes on what comes back.
CancelledWorld(w, id) ==
    [TownCrier!Cancelled(w, id) EXCEPT !.externalCallFlag = FALSE]
CancelledApp(a, id, back, due) == Spend(Answered(Receive(a, id, back), id), id, due)

LEMMA CancelledIs ==
    ASSUME NEW w \in TownCrier!World, NEW id \in RequestIds
    PROVE  Closed(w, CancelledWorld(w, id), id)
           /\ CancelledWorld(w, id).requests[id].fee = 1
<1> DEFINE slot == [w.requests[id] EXCEPT !.fee = 1]
           q == [w.requests EXCEPT ![id] = slot]
           v == w.balance - (w.requests[id].fee - w.CANCELLATION_FEE)
<1>1. /\ w.requests \in [RequestIds -> TownCrier!Request]
      /\ w.requests[id] \in TownCrier!Request /\ w.requests[id].fee \in Nat
      /\ w.balance \in Int /\ w.CANCELLATION_FEE \in Nat
  BY TownCrierTypes, RequestTypes
<1>2. /\ slot \in TownCrier!Request /\ slot.fee = 1
      /\ slot.requester = w.requests[id].requester
      /\ slot.paramsHash = w.requests[id].paramsHash
  BY <1>1 DEF TownCrier!Request
<1>3. v \in Int
  BY <1>1
<1>4. CancelledWorld(w, id) =
          [w EXCEPT !.requests = q, !.externalCallFlag = FALSE, !.balance = v]
  BY DEF CancelledWorld, TownCrier!Cancelled, TownCrier!World
<1> HIDE DEF slot, v
<1>5. /\ q \in [RequestIds -> TownCrier!Request] /\ q[id] = slot
      /\ \A other \in RequestIds \ {id} : q[other] = w.requests[other]
  BY <1>1, <1>2
<1> HIDE DEF q
<1>6. /\ CancelledWorld(w, id) \in TownCrier!World
      /\ CancelledWorld(w, id).requests = q
      /\ CancelledWorld(w, id).requestCnt = w.requestCnt
      /\ CancelledWorld(w, id).CANCELLATION_FEE = w.CANCELLATION_FEE
  BY <1>3, <1>4, <1>5 DEF TownCrier!World, RequestIds
<1> QED
  BY <1>2, <1>5, <1>6 DEF Closed

LEMMA CancelSound ==
    ASSUME NEW w, NEW a, Sound(w, a), NEW id \in RequestIds, id # 0,
           a.requesters[id] # NoAddress, w.requests[id].requester = App,
           w.requests[id].fee >= w.CANCELLATION_FEE,
           NEW back \in Nat, back = w.requests[id].fee - w.CANCELLATION_FEE,
           NEW due \in Int, due = a.fee[id] - CANCELLATION_FEE,
           a.balance + back >= due
    PROVE  Sound(CancelledWorld(w, id), CancelledApp(a, id, back, due))
<1> DEFINE b == CancelledApp(a, id, back, due)
           h == a.held[id] + back - due
<1>1. /\ w \in TownCrier!World /\ a \in AppState /\ SlotSound(w, a, id)
      /\ w.requests[id] \in TownCrier!Request /\ w.requests[id].fee \in Nat
      /\ w.CANCELLATION_FEE \in Nat
      /\ a.requesters \in [RequestIds -> Users \cup {NoAddress}]
      /\ a.fee \in [RequestIds -> Nat] /\ a.balance \in Nat
      /\ a.held \in [RequestIds -> Int] /\ a.paid \in [RequestIds -> Nat]
  BY AppTypes, TownCrierTypes, RequestTypes DEF Sound
<1>2. due \in Nat /\ due <= a.fee[id] /\ h \in Int
  BY <1>1 DEF SlotSound, TC_FEE, CANCELLATION_FEE
<1>3. TownCrier!FlagsDistinct => Left(h)
  <2> SUFFICES ASSUME TownCrier!FlagsDistinct
               PROVE  Left(h)
    OBVIOUS
  <2>1. SomeFee(w.CANCELLATION_FEE)
    BY DEF Sound
  <2>2. w.CANCELLATION_FEE > 1
    BY <2>1 DEF SomeFee, CANCELLATION_FEE, TownCrier!FlagsDistinct
  <2>3. a.held[id] = 0 /\ Awaits(w, id)
    <3>1. w.requests[id].fee \notin {0, 1}
      BY <1>1, <2>2
    <3>2. a.held[id] = 0 /\ w.requests[id].paramsHash = Param
      BY <1>1, <3>1 DEF SlotSound
    <3> QED
      BY <3>1, <3>2, IdsAre DEF Awaits, TownCrier!Deliverable
  <2>4. a.fee[id] = w.requests[id].fee
    BY <1>1, <2>3 DEF SlotSound
  <2>5. h = CANCELLATION_FEE - w.CANCELLATION_FEE
    BY <1>1, <2>3, <2>4 DEF CANCELLATION_FEE
  <2> HIDE DEF h
  <2> QED
    BY <2>1, <2>5 DEF SomeFee, Left, CANCELLATION_FEE
<1>4. PaidOut(a, b, id, due, h)
  <2> DEFINE c == Receive(a, id, back)
  <2>1. /\ c \in AppState /\ c.requesters = a.requesters /\ c.fee = a.fee
        /\ c.paid = a.paid /\ c.balance = a.balance + back
        /\ c.held = [a.held EXCEPT ![id] = a.held[id] + back]
    BY <1>1, ReceiveIs
  <2> HIDE DEF c
  <2>2. PaidOut(c, Spend(Answered(c, id), id, due), id, due, c.held[id] - due)
    BY <1>2, <2>1, SpendIs
  <2>3. /\ c.held[id] - due = h
        /\ [c.held EXCEPT ![id] = h] = [a.held EXCEPT ![id] = h]
    BY <1>1, <1>2, <2>1
  <2>4. b = Spend(Answered(c, id), id, due)
    BY DEF b, c, CancelledApp
  <2>5. PaidOut(c, b, id, due, h)
    BY <2>2, <2>3, <2>4
  <2> HIDE DEF b, h
  <2> QED
    BY <2>1, <2>3, <2>5 DEF PaidOut
<1> HIDE DEF b, h
<1>5. Closed(w, CancelledWorld(w, id), id)
  BY <1>1, CancelledIs
<1>6. TownCrier!FlagsDistinct => Left(h)
  BY <1>3
<1> QED
  BY ONLY Sound(w, a), id \in RequestIds, a.requesters[id] # NoAddress, <1>2,
     <1>4, <1>5, <1>6, PaidOutSound DEF b

LEMMA DeliverCancelledSound ==
    ASSUME NEW w, NEW a, Sound(w, a), NEW id \in RequestIds,
           w.requests[id].fee = 1
    PROVE  Sound([TownCrier!Responded(w, id) EXCEPT
                      !.balance = @ - w.CANCELLATION_FEE], a)
<1> DEFINE v == w.balance - w.CANCELLATION_FEE
           r == Settled(w, id, v, w.callbacks[id])
<1>1. /\ w \in TownCrier!World /\ a \in AppState /\ v \in Int
      /\ w.callbacks[id] \in Nat /\ SlotSound(w, a, id)
      /\ w.requests[id] \in TownCrier!Request /\ w.requestCnt \in Nat
  BY TownCrierTypes DEF Sound
<1>2. [TownCrier!Responded(w, id) EXCEPT !.balance = @ - w.CANCELLATION_FEE] = r
  BY <1>1, TownCrierTypes DEF Settled, TownCrier!Responded, TownCrier!World
<1> HIDE DEF v
<1>3. /\ r \in TownCrier!World /\ r.requestCnt = w.requestCnt
      /\ r.CANCELLATION_FEE = w.CANCELLATION_FEE
      /\ \A other \in RequestIds \ {id} : r.requests[other] = w.requests[other]
      /\ r.requests[id] = [w.requests[id] EXCEPT !.fee = 0]
  BY <1>1, SettledIs
<1> HIDE DEF r
<1>4. /\ r.requests[id].fee = 0
      /\ r.requests[id].requester = w.requests[id].requester
      /\ r.requests[id].paramsHash = w.requests[id].paramsHash
  BY <1>1, <1>3 DEF TownCrier!Request
<1>5. SlotSound(r, a, id)
  <2>1. ~Awaits(r, id)
    BY <1>4 DEF Awaits, TownCrier!Deliverable
  <2> QED
    BY <1>1, <1>3, <1>4, <2>1 DEF SlotSound
<1>6. r.requestCnt >= w.requestCnt
  BY <1>1, <1>3
<1>7. Sound(r, a)
  BY ONLY Sound(w, a), id \in RequestIds, <1>1, <1>3, <1>5, <1>6, OneSlot
<1> QED
  BY <1>2, <1>7
-----------------------------------------------------------------------------
(* The suspended payments.                                                 *)

LEMMA NowSound == Inv => SoundState(Now)
BY SoundPair DEF Inv, Now

LEMMA StayInv ==
    ASSUME Inv, UNCHANGED calls, Sound(tc', app')
    PROVE  Inv'
BY DEF Inv

LEMMA BecomeInv ==
    ASSUME Inv, UNCHANGED calls, NEW s, SoundState(s), Become(s)
    PROVE  Inv'
BY StayInv DEF Become, SoundState

LEMMA PushInv ==
    ASSUME Inv, NEW fn \in {"insure", "request", "response", "cancel"},
           NEW u \in Users, NEW callback, SoundState(callback),
           NEW unpaid, SoundState(unpaid), NEW s, SoundState(s),
           PayUser(fn, u, callback, unpaid, s)
    PROVE  Inv'
<1> DEFINE frame == [fn |-> fn, callee |-> u, entry |-> Now,
                     callback |-> callback, unpaid |-> unpaid]
<1>1. SoundState(Now)
  BY NowSound
<1>2. frame \in Frame(AppState)
  BY <1>1 DEF Frame, SoundState
<1>3. calls \in Seq(Frame(AppState)) /\ calls' = Append(calls, frame)
  BY DEF Inv, PayUser
<1>4. SoundState(frame.entry) /\ SoundState(frame.callback) /\ SoundState(frame.unpaid)
  BY <1>1
<1> HIDE DEF frame
<1>5. /\ calls' \in Seq(Frame(AppState)) /\ Len(calls') = Len(calls) + 1
      /\ \A i \in 1..Len(calls) : calls'[i] = calls[i]
      /\ calls'[Len(calls) + 1] = frame
      /\ Len(calls) \in Nat
  BY <1>2, <1>3, AppendProperties, LenProperties
<1>6. ASSUME NEW i \in 1..Len(calls')
      PROVE  /\ SoundState(calls'[i].entry)
             /\ SoundState(calls'[i].callback)
             /\ SoundState(calls'[i].unpaid)
  <2>1. CASE i = Len(calls) + 1
    BY <2>1, <1>4, <1>5
  <2>2. CASE i \in 1..Len(calls)
    BY <2>2, <1>5 DEF Inv
  <2> QED
    BY <2>1, <2>2, <1>5
<1>7. Sound(tc', app')
  BY DEF PayUser, Become, SoundState
<1> QED
  BY <1>5, <1>6, <1>7 DEF Inv

LEMMA TopSound ==
    ASSUME Inv, calls # <<>>
    PROVE  /\ Len(calls) \in Nat \ {0}
           /\ SoundState(Top.entry) /\ SoundState(Top.callback)
           /\ SoundState(Top.unpaid)
<1>1. calls \in Seq(Frame(AppState)) /\ Len(calls) \in Nat /\ Len(calls) # 0
  BY EmptySeq, LenProperties DEF Inv
<1>2. Len(calls) \in 1..Len(calls)
  BY <1>1
<1> QED
  BY <1>1, <1>2 DEF Inv, Top

LEMMA PopInv ==
    ASSUME Inv, NEW s, SoundState(s), EndCall(s)
    PROVE  Inv'
<1> DEFINE n == Len(calls) - 1
<1>1. calls # <<>> /\ calls' = SubSeq(calls, 1, n)
  BY DEF EndCall
<1>2. Len(calls) \in Nat \ {0} /\ calls \in Seq(Frame(AppState))
  BY <1>1, TopSound DEF Inv
<1>3. n \in Nat /\ n \in Int /\ \A i \in 1..n : calls[i] \in Frame(AppState)
  BY <1>2, ElementOfSeq
<1> HIDE DEF n
<1>4. /\ SubSeq(calls, 1, n) \in Seq(Frame(AppState))
      /\ Len(SubSeq(calls, 1, n)) = IF 1 <= n THEN n - 1 + 1 ELSE 0
      /\ \A i \in 1..(n - 1 + 1) : SubSeq(calls, 1, n)[i] = calls[1 + i - 1]
  BY <1>3, SubSeqProperties, Z3
<1>5. Len(calls') = n /\ calls' \in Seq(Frame(AppState))
  BY <1>1, <1>3, <1>4
<1>6. \A i \in 1..n : calls'[i] = calls[i]
  BY <1>1, <1>3, <1>4
<1>7. \A i \in 1..Len(calls') : /\ SoundState(calls'[i].entry)
                                /\ SoundState(calls'[i].callback)
                                /\ SoundState(calls'[i].unpaid)
  BY <1>2, <1>5, <1>6 DEF Inv, n
<1>8. Sound(tc', app')
  <2>1. SoundState(s) /\ SoundState(DeliverEnds(s))
    BY DeliverEndsSound
  <2> QED
    BY <2>1 DEF EndCall, Become, SoundState
<1> QED
  BY <1>5, <1>7, <1>8 DEF Inv
-----------------------------------------------------------------------------
(* The operations, with the payments.                                      *)

LEMMA InitInv == Init => Inv
<1> SUFFICES ASSUME Init
             PROVE  Inv
  OBVIOUS
<1> DEFINE slots == [i \in RequestIds |->
                        [requester |-> IF i = 0 THEN Owner ELSE NoAddress,
                         fee |-> 0, callbackAddr |-> NoAddress,
                         paramsHash |-> NoAddress]]
<1>1. tc = [GAS_PRICE |-> 1, MIN_FEE |-> 6, CANCELLATION_FEE |-> 5,
            killswitch |-> FALSE, externalCallFlag |-> FALSE,
            requestCnt |-> 1, unrespondedCnt |-> 0, requests |-> slots,
            newVersion |-> 0, balance |-> 0, surplus |-> 0,
            callbacks |-> [i \in RequestIds |-> 0]]
  BY DEF Init, TownCrier!Init, TownCrier!InitialPrices, RequestIds
<1>2. slots \in [RequestIds -> TownCrier!Request]
  BY DEF TownCrier!Request
<1> HIDE DEF slots
<1>3. /\ tc \in TownCrier!World /\ tc.requests = slots /\ tc.requestCnt = 1
      /\ tc.CANCELLATION_FEE = 5
  BY <1>1, <1>2 DEF TownCrier!World, RequestIds
<1>4. app \in AppState
  BY DEF Init, AppState
<1>5. ASSUME NEW id \in RequestIds
      PROVE  SlotSound(tc, app, id)
  <2>1. /\ app.requesters[id] = NoAddress /\ app.fee[id] = 0
        /\ app.held[id] = 0 /\ app.paid[id] = 0
    BY DEF Init
  <2>2. /\ slots[id].fee = 0
        /\ id # 0 => slots[id].requester = NoAddress
    BY DEF slots
  <2>3. ~Awaits(tc, id)
    BY <1>3, <2>2 DEF Awaits, TownCrier!Deliverable
  <2>4. id >= 1 => id # 0
    BY IdsAre
  <2> QED
    BY <1>3, <2>1, <2>2, <2>3, <2>4 DEF SlotSound
<1>6. calls = <<>>
  BY DEF Init
<1>7. calls \in Seq(Frame(AppState)) /\ \A i \in 1..Len(calls) : FALSE
  BY <1>6, EmptySeq, LenProperties
<1> QED
  BY <1>3, <1>4, <1>5, <1>7 DEF Inv, Sound, SomeFee, CANCELLATION_FEE

LEMMA OwnerInv ==
    ASSUME Inv, OwnerCall
    PROVE  Inv'
<1>1. Sound(tc, app) /\ tc \in TownCrier!World /\ UNCHANGED <<app, calls>>
  BY DEF Inv, Sound, OwnerCall
<1>2. CASE \E k \in BOOLEAN : tc' = [tc EXCEPT !.killswitch = k]
  <2>1. /\ tc' \in TownCrier!World /\ tc'.requests = tc.requests
        /\ tc'.requestCnt = tc.requestCnt
        /\ tc'.CANCELLATION_FEE = tc.CANCELLATION_FEE
    BY <1>1, <1>2 DEF TownCrier!World
  <2>2. Sound(tc', app)
    BY <1>1, <2>1, SameRequests DEF Sound
  <2> QED
    BY <1>1, <2>2, StayInv
<1>3. ASSUME NEW a \in ResetArgs,
             tc' = [tc EXCEPT !.GAS_PRICE = a.price,
                              !.MIN_FEE = a.price * a.minGas,
                              !.CANCELLATION_FEE = a.price * a.cancellationGas]
      PROVE  Inv'
  <2>1. a.price \in Nat /\ a.minGas \in Nat /\ a.cancellationGas \in Nat
    OBVIOUS
  <2>2. a.price * a.minGas \in Nat /\ a.price * a.cancellationGas \in Nat
    BY <2>1
  <2>3. /\ tc' \in TownCrier!World /\ tc'.requests = tc.requests
        /\ tc'.requestCnt = tc.requestCnt
        /\ tc'.CANCELLATION_FEE = a.price * a.cancellationGas
    BY <1>1, <1>3, <2>1, <2>2 DEF TownCrier!World
  <2>4. SomeFee(tc'.CANCELLATION_FEE)
    BY <2>3 DEF SomeFee
  <2>5. Sound(tc', app)
    BY <1>1, <2>3, <2>4, SameRequests
  <2> QED
    BY <1>1, <2>5, StayInv
<1> QED
  BY <1>2, <1>3 DEF OwnerCall

LEMMA RequestInv ==
    ASSUME Inv, NEW u \in Users, NEW v \in Values,
           RequestRefused(u, v) \/ RequestSent(u, v) \/ ForeignRequest(u, v)
    PROVE  Inv'
<1>1. Sound(tc, app) /\ v \in Nat
  BY DEF Inv
<1>2. CASE RequestRefused(u, v)
  BY <1>2, NowSound, PushInv DEF RequestRefused
<1>3. CASE RequestSent(u, v)
  <2>1. Sound(tc', app')
    BY <1>1, <1>3, RecordedOwn DEF RequestSent
  <2> QED
    BY <1>3, <2>1, StayInv DEF RequestSent
<1>4. CASE ForeignRequest(u, v)
  <2>1. Sound(tc', app')
    BY <1>1, <1>4, RecordedForeign DEF ForeignRequest
  <2> QED
    BY <1>4, <2>1, StayInv DEF ForeignRequest
<1> QED
  BY <1>2, <1>3, <1>4

LEMMA ResponseInv ==
    ASSUME Inv, NEW id \in RequestIds, NEW error \in Errors,
           \/ ResponseLogged(id, error)
           \/ ResponseRefunds(id, error)
           \/ ResponseFails(id, error)
    PROVE  Inv'
<1> DEFINE s == Delivering(id, error)
<1>1. Pending(id) /\ Sound(tc, app) /\ error \in Nat
  BY DEF Inv, ResponseLogged, ResponseRefunds, ResponseFails
<1>2. /\ SoundState(s) /\ s.tc.requests[id].fee = 0
      /\ s.app.requesters = app.requesters /\ s.app.fee = app.fee
      /\ TownCrier!FlagsDistinct /\ error >= 2 /\ app.requesters[id] # NoAddress =>
             s.app.held[id] = app.fee[id]
  BY <1>1, DeliveringSound
<1>3. SoundState([s EXCEPT !.app = Answered(s.app, id)])
  BY <1>2, AnsweredSound
<1>4. CASE ResponseLogged(id, error)
  <2>1. Become(DeliverEnds([s EXCEPT !.app = Answered(s.app, id)])) /\ UNCHANGED calls
    BY <1>4 DEF ResponseLogged
  <2> HIDE DEF s
  <2>2. SoundState(DeliverEnds([s EXCEPT !.app = Answered(s.app, id)]))
    BY <1>3, DeliverEndsSound
  <2> QED
    BY <2>1, <2>2, BecomeInv
<1>5. CASE ResponseFails(id, error)
  <2>1. Become(DeliverEnds(s)) /\ UNCHANGED calls
    BY <1>5 DEF ResponseFails
  <2>2. SoundState(DeliverEnds(s))
    BY <1>2, DeliverEndsSound
  <2> QED
    BY <2>1, <2>2, BecomeInv
<1>6. CASE ResponseRefunds(id, error)
  <2>1. /\ error >= 2 /\ app.requesters[id] # NoAddress
        /\ s.app.balance >= app.fee[id]
        /\ PayUser("response", app.requesters[id], s,
               [s EXCEPT !.app = Answered(s.app, id)],
               [s EXCEPT !.app = Spend(Answered(s.app, id), id, app.fee[id])])
    BY <1>6 DEF ResponseRefunds
  <2>2. app.requesters[id] \in Users
    BY <1>1, <2>1, AppTypes DEF Sound
  <2> HIDE DEF s
  <2>3. SoundState([s EXCEPT !.app = Spend(Answered(s.app, id), id, s.app.fee[id])])
    BY <1>2, <2>1, RefundSound
  <2>4. SoundState([s EXCEPT !.app = Spend(Answered(s.app, id), id, app.fee[id])])
    BY <1>2, <2>3
  <2> QED
    BY <1>2, <1>3, <2>1, <2>2, <2>4, PushInv
<1> QED
  BY <1>4, <1>5, <1>6

LEMMA CancelInv ==
    ASSUME Inv, NEW u \in Users, NEW id \in RequestIds, Cancel(u, id)
    PROVE  Inv'
<1> DEFINE back == tc.requests[id].fee - tc.CANCELLATION_FEE
           due == app.fee[id] - CANCELLATION_FEE
           s == [tc |-> CancelledWorld(tc, id), app |-> CancelledApp(app, id, back, due)]
<1>1. /\ Sound(tc, app) /\ id # 0 /\ app.requesters[id] = u
      /\ tc.requests[id].requester = App
      /\ tc.requests[id].fee >= tc.CANCELLATION_FEE
      /\ app.balance + back >= due
      /\ PayUser("cancel", u, Now, Now, s)
  BY DEF Inv, Cancel, CancelledByTC, CancelledWorld, CancelledApp
<1>2. back \in Nat /\ due \in Int
  <2>1. tc.requests[id] \in TownCrier!Request /\ tc.CANCELLATION_FEE \in Nat
        /\ app.fee[id] \in Nat
    BY <1>1, TownCrierTypes, AppTypes DEF Sound
  <2> QED
    BY <1>1, <2>1, RequestTypes DEF CANCELLATION_FEE
<1>3. SoundState(s)
  <2> HIDE DEF back, due
  <2>1. Sound(CancelledWorld(tc, id), CancelledApp(app, id, back, due))
    <3>1. back = tc.requests[id].fee - tc.CANCELLATION_FEE
          /\ due = app.fee[id] - CANCELLATION_FEE
      BY DEF back, due
    <3> QED
      BY <1>1, <1>2, <3>1, CancelSound
  <2> QED
    BY <2>1, SoundPair
<1> HIDE DEF s
<1> QED
  BY <1>1, <1>3, NowSound, PushInv

LEMMA NextInv == Inv /\ [Next]_vars => Inv'
<1> SUFFICES ASSUME Inv, [Next]_vars
             PROVE  Inv'
  OBVIOUS
<1>1. CASE \E u \in Users, v \in Values :
               RequestRefused(u, v) \/ RequestSent(u, v) \/ ForeignRequest(u, v)
  BY <1>1, RequestInv
<1>2. ASSUME NEW id \in RequestIds, DeliverCancelled(id)
      PROVE  Inv'
  <2>1. /\ tc' = [TownCrier!Responded(tc, id) EXCEPT
                      !.balance = @ - tc.CANCELLATION_FEE]
        /\ tc.requests[id].fee = 1 /\ UNCHANGED <<app, calls>>
    BY <1>2 DEF DeliverCancelled, TownCrier!DeliverCancelled
  <2>2. Sound(tc', app)
    BY <2>1, DeliverCancelledSound DEF Inv
  <2> QED
    BY <2>1, <2>2, StayInv
<1>3. CASE \E id \in RequestIds, error \in Errors :
               \/ ResponseLogged(id, error)
               \/ ResponseRefunds(id, error)
               \/ ResponseFails(id, error)
  BY <1>3, ResponseInv
<1>4. CASE \E u \in Users, id \in RequestIds : Cancel(u, id)
  BY <1>4, CancelInv
<1>5. CASE PaymentEnds
  <2>1. calls # <<>>
    BY <1>5 DEF PaymentEnds, UserReturns, UserFails, OutOfGas, EndCall
  <2>2. SoundState(Top.entry) /\ SoundState(Top.callback) /\ SoundState(Top.unpaid)
        /\ SoundState(Now)
    BY <2>1, TopSound, NowSound
  <2>3. \E s \in {Now, Top.entry, Top.callback, Top.unpaid} : EndCall(s)
    BY <1>5 DEF PaymentEnds, UserReturns, UserFails, OutOfGas
  <2> QED
    BY <2>2, <2>3, PopInv
<1>6. CASE OwnerCall
  BY <1>6, OwnerInv
<1>7. CASE UNCHANGED vars
  BY <1>7, StayInv DEF vars, Inv
<1> QED
  BY <1>1, <1>2, <1>3, <1>4, <1>5, <1>6, <1>7 DEF Next
-----------------------------------------------------------------------------
\* Application and TownCrier agree in every state they are in and in every
\* one that a failing user or the lack of gas may bring back.
THEOREM Invariance == Spec => []Inv
BY InitInv, NextInv, PTL DEF Spec

\* Whom and how much Application has to pay back (requesters and fee, which
\* request writes and response and cancel clear) fits the slots of TownCrier,
\* whatever users, paid in between, do.  No assumption on the owner is needed.
THEOREM AgreementOnRequesters == Spec => []RequestersAgree
<1>1. Inv => RequestersAgree
  <2> SUFFICES ASSUME Inv
               PROVE  RequestersAgree
    OBVIOUS
  <2>1. TypeOK
    BY DEF Inv, Sound, TypeOK
  <2>2. \A id \in RequestIds : SlotSound(tc, app, id) /\ (Pending(id) => Awaits(tc, id))
    BY DEF Inv, Sound, Pending, Awaits
  <2> QED
    BY <2>1, <2>2 DEF RequestersAgree, SlotSound
<1> QED
  BY Invariance, <1>1, PTL

\* No user is paid twice for a request, and none that was paid can ask again:
\* response and cancel clear the requester before they pay.
THEOREM PaymentsOnce == Spec => []PaidOnce
<1>1. Inv => PaidOnce
  BY DEF Inv, Sound, SlotSound, PaidOnce
<1> QED
  BY Invariance, <1>1, PTL

\* Whatever the owner resets the cancellation fee of TownCrier to, response and
\* cancel pay a user from the ether of other requests only what that fee is above
\* the constant of Application, and only for a request that is closed by it.
\* The fees that are set must not be mistaken for the marks of settled requests.
THEOREM EachPaysForItself ==
    ASSUME TownCrier!FlagsDistinct
    PROVE  Spec => []LossOnlyByReset
<1>1. Inv => LossOnlyByReset
  BY DEF Inv, Sound, SlotSound, Left, LossOnlyByReset
<1> QED
  BY Invariance, <1>1, PTL
=============================================================================
