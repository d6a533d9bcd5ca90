------------------------ MODULE TownCrierVoteProofs ------------------------
(***************************************************************************)
(* What the votes of TownCrierVote decide and what they are paid, proved   *)
(* for any number of requests, votes, responses and prices.                *)
(***************************************************************************)
EXTENDS TownCrierVote, FiniteSetTheorems, TLAPS

\* What the fields of a request say of the votes on it.
Counted(id) ==
    LET r == requests[id] v == votes[id] IN
    /\ r.responseCnt = IF Len(v) < 2 THEN Len(v) ELSE 2
    /\ Len(v) >= 1 => r.response0 = v[1].resp
    /\ Len(v) >= 2 => r.response1 = v[2].resp

\* An open request has a sufficient fee, no callback and no majority.
Open(id) ==
    LET v == votes[id] IN
    Deliverable(id) =>
        /\ requests[id].fee >= MIN_FEE
        /\ callbacks[id] = <<>>
        /\ Len(v) >= 3 => \A i, j \in 1..3 : v[i].resp = v[j].resp => i = j

Unused(id) ==
    id >= requestCnt =>
        ~Deliverable(id) /\ votes[id] = <<>> /\ callbacks[id] = <<>>

Answered(id) ==
    callbacks[id] # <<>> =>
        /\ Len(callbacks[id]) = 1 /\ ~Deliverable(id)
        /\ \E i, j \in DOMAIN votes[id] :
               /\ i # j
               /\ votes[id][i].resp = callbacks[id][1]
               /\ votes[id][j].resp = callbacks[id][1]

Slot(id) == Counted(id) /\ Open(id) /\ Unused(id) /\ Answered(id)

Inv == TypeOK /\ \A id \in RequestIds : Slot(id)

LEMMA CostsAreNat ==
    /\ FIRST_DELIVER_COST \in Nat \ {0} /\ SECOND_DELIVER_COST \in Nat \ {0}
    /\ LAST_DELIVER_COST \in Nat \ {0} /\ MIN_FEE \in Nat \ {0}
<1>1. Costs \subseteq Nat \ {0}
  BY VoteAssumption
<1> QED
  BY <1>1 DEF Costs, MIN_FEE

LEMMA InitInv == Init => Inv
<1> SUFFICES ASSUME Init PROVE Inv
  OBVIOUS
<1>1. TypeOK
  BY VoteAssumption DEF Init, TypeOK, Request, Answers, RequestIds
<1>2. ASSUME NEW id \in RequestIds PROVE Slot(id)
  BY <1>2 DEF Init, Slot, Counted, Open, Unused, Answered, Deliverable
<1> QED
  BY <1>1, <1>2 DEF Inv

\* A slot stays sound as long as nothing of it changes.
LEMMA SlotUnchanged ==
    ASSUME NEW id, Slot(id), requests'[id] = requests[id], votes'[id] = votes[id],
           callbacks'[id] = callbacks[id],
           requestCnt \in Nat, requestCnt' \in Nat, id \in Nat,
           requestCnt' >= requestCnt
    PROVE  Slot(id)'
BY DEF Slot, Counted, Open, Unused, Answered, Deliverable

LEMMA RefusedKeepsInv ==
    ASSUME Inv, NEW value \in Values, RequestRefused(value)
    PROVE  Inv'
<1>1. TypeOK'
  <2>1. value \in Nat
    BY VoteAssumption
  <2> QED
    BY <2>1, VoteAssumption DEF Inv, TypeOK, RequestRefused
<1>2. ASSUME NEW id \in RequestIds PROVE Slot(id)'
  <2>1. Slot(id) /\ requestCnt \in Nat /\ id \in Nat
    BY DEF Inv, TypeOK, RequestIds
  <2> QED
    BY <2>1 DEF RequestRefused, Slot, Counted, Open, Unused, Answered, Deliverable
<1> QED
  BY <1>1, <1>2 DEF Inv

LEMMA RecordedKeepsInv ==
    ASSUME Inv, NEW value \in Values, RequestRecorded(value)
    PROVE  Inv'
<1>0. /\ value \in Nat /\ value >= MIN_FEE
      /\ requestCnt \in RequestIds /\ requestCnt' = requestCnt + 1
  BY VoteAssumption DEF RequestRecorded, Inv, TypeOK, RequestIds
<1>1. TypeOK'
  <2>1. requests' \in [RequestIds -> Request]
    <3> DEFINE r == [requests[requestCnt] EXCEPT !.fee = value, !.responseCnt = 0]
    <3>1. requests[requestCnt] \in Request /\ requests \in [RequestIds -> Request]
      BY <1>0 DEF Inv, TypeOK
    <3>2. r \in Request
      BY <1>0, <3>1 DEF Request
    <3>3. requests' = [requests EXCEPT ![requestCnt] = r]
      BY <1>0, <3>1 DEF RequestRecorded
    <3> QED
      BY <3>1, <3>2, <3>3
  <2>2. paid' \in [RequestIds -> [of: Nat, sum: Nat]]
    BY <1>0 DEF RequestRecorded, Inv, TypeOK
  <2>3. requestCnt' \in 1..(MaxRequests + 1) /\ balance' \in Nat
    BY <1>0, VoteAssumption DEF RequestRecorded, Inv, TypeOK, RequestIds
  <2> QED
    BY <2>1, <2>2, <2>3 DEF RequestRecorded, Inv, TypeOK
<1>2. ASSUME NEW id \in RequestIds PROVE Slot(id)'
  <2>1. CASE id # requestCnt
    <3>1. requests'[id] = requests[id]
      BY <2>1, <1>0 DEF RequestRecorded, Inv, TypeOK
    <3>2. requestCnt \in Nat /\ requestCnt' \in Nat /\ id \in Nat
      BY <1>0, <1>2 DEF RequestIds
    <3>3. requestCnt' >= requestCnt
      BY <1>0, <3>2
    <3>4. votes'[id] = votes[id] /\ callbacks'[id] = callbacks[id]
      BY DEF RequestRecorded
    <3>5. Slot(id)
      BY <1>2 DEF Inv
    <3> QED
      BY <3>1, <3>2, <3>3, <3>4, <3>5, SlotUnchanged
  <2>2. CASE id = requestCnt
    <3>1. votes'[id] = <<>> /\ callbacks'[id] = <<>>
      BY <1>0, <1>2, <2>2 DEF Inv, Slot, Unused, RequestRecorded, RequestIds
    <3>2. requests'[id].fee = value /\ requests'[id].responseCnt = 0
      BY <1>0, <2>2 DEF RequestRecorded, Inv, TypeOK, Request
    <3>3. Len(<<>>) = 0
      OBVIOUS
    <3>4. Counted(id)'
      BY <3>1, <3>2, <3>3 DEF Counted
    <3>5. Answered(id)'
      BY <3>1 DEF Answered
    <3>6. Open(id)'
      BY <1>0, <3>1, <3>2, <3>3 DEF Open
    <3>7. Unused(id)'
      BY <1>0, <2>2 DEF Unused, RequestIds
    <3> QED
      BY <3>4, <3>5, <3>6, <3>7 DEF Slot
  <2> QED
    BY <2>1, <2>2
<1> QED
  BY <1>1, <1>2 DEF Inv

\* A payment leaves a balance, whatever it amounts to.
LEMMA SendType ==
    ASSUME TypeOK, NEW id \in RequestIds, NEW amount \in Nat, Send(id, amount)
    PROVE  balance' \in Nat /\ paid' \in [RequestIds -> [of: Nat, sum: Nat]]
<1>1. /\ paid \in [RequestIds -> [of: Nat, sum: Nat]]
      /\ paid[id] \in [of: Nat, sum: Nat] /\ balance \in Nat
  BY DEF TypeOK
<1>2. CASE amount <= balance
  <2>1. paid' = [paid EXCEPT ![id] = [paid[id] EXCEPT !.sum = paid[id].sum + amount]]
    BY <1>2 DEF Send
  <2>2. [paid[id] EXCEPT !.sum = @ + amount] \in [of: Nat, sum: Nat]
    BY <1>1
  <2>3. balance' \in Nat
    BY <1>1, <1>2 DEF Send
  <2> QED
    BY <1>1, <2>1, <2>2, <2>3
<1>3. CASE ~(amount <= balance)
  BY <1>1, <1>3 DEF Send
<1> QED
  BY <1>2, <1>3

\* What a vote adds.
LEMMA VoteAppended ==
    ASSUME TypeOK, NEW e \in Enclaves, NEW id \in RequestIds,
           NEW resp \in Responses, Voted(e, id, resp)
    PROVE  /\ votes' \in [RequestIds -> Seq(Vote)]
           /\ votes[id] \in Seq(Vote) /\ Len(votes[id]) \in Nat
           /\ Len(votes'[id]) = Len(votes[id]) + 1
           /\ DOMAIN votes[id] = 1..Len(votes[id])
           /\ DOMAIN votes'[id] = 1..(Len(votes[id]) + 1)
           /\ votes'[id][Len(votes[id]) + 1].resp = resp
           /\ \A i \in 1..Len(votes[id]) : votes'[id][i] = votes[id][i]
           /\ \A other \in RequestIds \ {id} : votes'[other] = votes[other]
<1> DEFINE vote == [by |-> e, resp |-> resp]
<1>1. vote \in Vote
  BY DEF Vote
<1>2. /\ votes' = [votes EXCEPT ![id] = Append(votes[id], vote)]
      /\ votes \in [RequestIds -> Seq(Vote)]
  BY DEF Voted, TypeOK
<1>3. votes[id] \in Seq(Vote)
  BY <1>2
<1> HIDE DEF vote
<1>4. /\ Append(votes[id], vote) \in Seq(Vote)
      /\ Len(Append(votes[id], vote)) = Len(votes[id]) + 1
      /\ \A i \in 1..Len(votes[id]) : Append(votes[id], vote)[i] = votes[id][i]
      /\ Append(votes[id], vote)[Len(votes[id]) + 1] = vote
      /\ DOMAIN Append(votes[id], vote) = 1..(Len(votes[id]) + 1)
      /\ Len(votes[id]) \in Nat /\ DOMAIN votes[id] = 1..Len(votes[id])
  BY <1>1, <1>3
<1>5. vote.resp = resp
  BY DEF vote
<1>6. votes'[id] = Append(votes[id], vote)
  BY <1>2
<1>7. \A other \in RequestIds \ {id} : votes'[other] = votes[other]
  BY <1>2
<1>8. votes' \in [RequestIds -> Seq(Vote)]
  BY <1>2, <1>4
<1> QED
  BY <1>3, <1>4, <1>5, <1>6, <1>7, <1>8

\* The slot of a request after a vote that does not settle it.
LEMMA VoteKeepsOpen ==
    ASSUME TypeOK, NEW e \in Enclaves, NEW id \in RequestIds,
           NEW resp \in Responses, Voted(e, id, resp),
           Slot(id), Deliverable(id), requestCnt' = requestCnt,
           callbacks'[id] = callbacks[id], requests'[id].fee = requests[id].fee,
           Counted(id)',
           Len(votes[id]) >= 2 => /\ requests[id].response0 # requests[id].response1
                                  /\ resp # requests[id].response0
                                  /\ resp # requests[id].response1
    PROVE  Slot(id)'
<1> DEFINE n == Len(votes[id])
<1>1. /\ Len(votes'[id]) = n + 1 /\ n \in Nat
      /\ votes'[id][n + 1].resp = resp
      /\ \A i \in 1..n : votes'[id][i] = votes[id][i]
  BY VoteAppended
<1>2. callbacks[id] = <<>> /\ requests[id].fee >= MIN_FEE /\ Counted(id)
      /\ (n >= 3 => \A i, j \in 1..3 : votes[id][i].resp = votes[id][j].resp => i = j)
  BY DEF Slot, Open
<1>3. Open(id)'
  <2>1. ASSUME n + 1 >= 3, NEW i \in 1..3, NEW j \in 1..3,
               votes'[id][i].resp = votes'[id][j].resp
        PROVE  i = j
    <3>1. CASE n >= 3
      <4>1. votes'[id][i] = votes[id][i] /\ votes'[id][j] = votes[id][j]
        BY <1>1, <3>1
      <4> QED
        BY <1>2, <2>1, <3>1, <4>1
    <3>2. CASE n = 2
      <4>1. /\ votes'[id][1].resp = requests[id].response0
            /\ votes'[id][2].resp = requests[id].response1
            /\ votes'[id][3].resp = resp
        BY <1>1, <1>2, <3>2 DEF Counted
      <4>2. /\ requests[id].response0 # requests[id].response1
            /\ resp # requests[id].response0 /\ resp # requests[id].response1
        BY <3>2
      <4>3. (i = 1 \/ i = 2 \/ i = 3) /\ (j = 1 \/ j = 2 \/ j = 3)
        BY <2>1
      <4>4. /\ votes'[id][1].resp # votes'[id][2].resp
            /\ votes'[id][1].resp # votes'[id][3].resp
            /\ votes'[id][2].resp # votes'[id][3].resp
        BY <4>1, <4>2
      <4> QED
        <5>1. CASE i = 1
          BY <2>1, <4>3, <4>4, <5>1
        <5>2. CASE i = 2
          BY <2>1, <4>3, <4>4, <5>2
        <5>3. CASE i = 3
          BY <2>1, <4>3, <4>4, <5>3
        <5> QED
          BY <4>3, <5>1, <5>2, <5>3
    <3> HIDE DEF n
    <3>3. n >= 3 \/ n = 2
      BY <1>1, <2>1
    <3> QED
      BY <3>1, <3>2, <3>3
  <2> QED
    BY <1>1, <1>2, <2>1 DEF Open, Deliverable
<1>4. Unused(id)'
  BY DEF Slot, Unused, Deliverable
<1>5. Answered(id)'
  BY <1>2 DEF Answered
<1> QED
  BY <1>3, <1>4, <1>5 DEF Slot

LEMMA CountedAfterFirst ==
    ASSUME TypeOK, NEW e \in Enclaves, NEW id \in RequestIds,
           NEW resp \in Responses, Voted(e, id, resp), Counted(id),
           DeliverFirst(id, resp) \/ DeliverSecond(id, resp)
    PROVE  /\ Counted(id)' /\ requests' \in [RequestIds -> Request]
           /\ requests'[id].fee = requests[id].fee
           /\ \A other \in RequestIds \ {id} : requests'[other] = requests[other]
           /\ Len(votes[id]) < 2
<1> DEFINE n == Len(votes[id])
<1>1. /\ Len(votes'[id]) = n + 1 /\ n \in Nat
      /\ votes'[id][n + 1].resp = resp
      /\ \A i \in 1..n : votes'[id][i] = votes[id][i]
  BY VoteAppended
<1>2. requests \in [RequestIds -> Request] /\ requests[id] \in Request
  BY DEF TypeOK
<1>3. resp \in Answers
  BY DEF Answers
<1>4. CASE DeliverFirst(id, resp)
  <2> DEFINE r == [requests[id] EXCEPT !.response0 = resp, !.responseCnt = 1]
  <2>1. requests' = [requests EXCEPT ![id] = r] /\ requests[id].responseCnt = 0
    BY <1>2, <1>4 DEF DeliverFirst
  <2>2. /\ r \in Request /\ r.fee = requests[id].fee
        /\ r.response0 = resp /\ r.responseCnt = 1
    BY <1>2, <1>3 DEF Request
  <2>3. n = 0
    BY <1>1, <2>1 DEF Counted
  <2> HIDE DEF r
  <2>4. requests'[id] = r
    BY <1>2, <2>1
  <2> QED
    BY <1>1, <1>2, <2>1, <2>2, <2>3, <2>4 DEF Counted
<1>5. CASE DeliverSecond(id, resp)
  <2> DEFINE r == [requests[id] EXCEPT !.response1 = resp, !.responseCnt = 2]
  <2>1. requests' = [requests EXCEPT ![id] = r] /\ requests[id].responseCnt = 1
    BY <1>2, <1>5 DEF DeliverSecond
  <2>2. /\ r \in Request /\ r.fee = requests[id].fee
        /\ r.response0 = requests[id].response0
        /\ r.response1 = resp /\ r.responseCnt = 2
    BY <1>2, <1>3 DEF Request
  <2>3. n = 1
    <3>1. requests[id].responseCnt = IF n < 2 THEN n ELSE 2
      BY DEF Counted
    <3> HIDE DEF n
    <3> QED
      BY <1>1, <2>1, <3>1
  <2> HIDE DEF r
  <2>4. requests'[id] = r
    BY <1>2, <2>1
  <2> QED
    BY <1>1, <1>2, <2>1, <2>2, <2>3, <2>4 DEF Counted
<1> QED
  BY <1>4, <1>5

\* The first and the second vote.
LEMMA EarlyVoteKeepsInv ==
    ASSUME Inv, NEW e \in Enclaves, NEW id \in RequestIds, NEW resp \in Responses,
           Voted(e, id, resp), Deliverable(id),
           DeliverFirst(id, resp) \/ DeliverSecond(id, resp),
           requestCnt' = requestCnt, refused' = refused
    PROVE  Inv'
<1>1. TypeOK /\ Slot(id) /\ Counted(id) /\ requestCnt \in Nat
  BY DEF Inv, Slot, TypeOK
<1>2. /\ Counted(id)' /\ requests' \in [RequestIds -> Request]
      /\ requests'[id].fee = requests[id].fee
      /\ \A other \in RequestIds \ {id} : requests'[other] = requests[other]
      /\ Len(votes[id]) < 2
  BY <1>1, CountedAfterFirst
<1>3. /\ votes' \in [RequestIds -> Seq(Vote)] /\ Len(votes[id]) \in Nat
      /\ \A other \in RequestIds \ {id} : votes'[other] = votes[other]
  BY <1>1, VoteAppended
<1>4. balance' \in Nat /\ paid' \in [RequestIds -> [of: Nat, sum: Nat]]
  BY <1>1, CostsAreNat, SendType DEF DeliverFirst, DeliverSecond
<1>5. callbacks' = callbacks
  BY DEF DeliverFirst, DeliverSecond
<1>6. TypeOK'
  BY <1>1, <1>2, <1>3, <1>4, <1>5 DEF TypeOK
<1>7. Slot(id)'
  BY <1>1, <1>2, <1>3, <1>5, VoteKeepsOpen
<1>8. ASSUME NEW other \in RequestIds, other # id PROVE Slot(other)'
  <2>1. Slot(other) /\ other \in Nat
    BY <1>8 DEF Inv, RequestIds
  <2>2. requests'[other] = requests[other] /\ votes'[other] = votes[other]
    BY <1>2, <1>3, <1>8
  <2> QED
    BY <1>1, <1>5, <2>1, <2>2, SlotUnchanged
<1> QED
  BY <1>6, <1>7, <1>8 DEF Inv

\* What Winner says of a request with two votes.
LEMMA WinnerAgrees ==
    ASSUME NEW r \in Request, NEW resp \in Responses, r.response1 \in Responses
    PROVE  /\ Winner(r, resp) = NoResponse =>
                  /\ r.response0 # r.response1
                  /\ resp # r.response0 /\ resp # r.response1
           /\ Winner(r, resp) # NoResponse =>
                  \/ Winner(r, resp) = resp /\ resp = r.response0
                  \/ Winner(r, resp) = resp /\ resp = r.response1
                  \/ Winner(r, resp) = r.response0 /\ r.response0 = r.response1
<1>1. resp # NoResponse /\ r.response1 # NoResponse
  BY VoteAssumption
<1>2. CASE resp \in {r.response0, r.response1}
  BY <1>1, <1>2 DEF Winner
<1>3. CASE resp \notin {r.response0, r.response1} /\ r.response0 = r.response1
  BY <1>1, <1>3 DEF Winner
<1>4. CASE resp \notin {r.response0, r.response1} /\ r.response0 # r.response1
  BY <1>1, <1>4 DEF Winner
<1> QED
  BY <1>2, <1>3, <1>4

\* The third vote and those after it.
LEMMA LastVoteKeepsInv ==
    ASSUME Inv, NEW e \in Enclaves, NEW id \in RequestIds, NEW resp \in Responses,
           Voted(e, id, resp), Deliverable(id), DeliverLast(id, resp),
           requestCnt' = requestCnt, refused' = refused
    PROVE  Inv'
<1> DEFINE n == Len(votes[id])
           r == requests[id]
           winner == Winner(r, resp)
<1>1. /\ TypeOK /\ Slot(id) /\ Counted(id) /\ Open(id) /\ requestCnt \in Nat
      /\ r \in Request /\ requests \in [RequestIds -> Request]
      /\ callbacks \in [RequestIds -> Seq(Responses)]
  BY DEF Inv, Slot, TypeOK
<1>2. /\ votes' \in [RequestIds -> Seq(Vote)] /\ n \in Nat
      /\ Len(votes'[id]) = n + 1
      /\ DOMAIN votes'[id] = 1..(n + 1)
      /\ votes'[id][n + 1].resp = resp
      /\ \A i \in 1..n : votes'[id][i] = votes[id][i]
      /\ \A other \in RequestIds \ {id} : votes'[other] = votes[other]
  BY <1>1, VoteAppended
<1>3. n >= 2
  <2>1. r.responseCnt = IF n < 2 THEN n ELSE 2
    BY <1>1 DEF Counted
  <2>2. r.responseCnt = 2
    BY DEF DeliverLast
  <2> HIDE DEF n, r
  <2> QED
    BY <1>2, <2>1, <2>2
<1>4. /\ votes'[id][1].resp = r.response0 /\ votes'[id][2].resp = r.response1
      /\ votes[id][1].resp = r.response0 /\ votes[id][2].resp = r.response1
  BY <1>1, <1>2, <1>3 DEF Counted
<1>5. r.response0 \in Responses /\ r.response1 \in Responses
  <2>1. votes[id] \in Seq(Vote)
    BY <1>1 DEF TypeOK
  <2>2. votes[id][1] \in Vote /\ votes[id][2] \in Vote
    BY <1>2, <1>3, <2>1
  <2> QED
    BY <1>4, <2>2 DEF Vote
<1>6. balance' \in Nat /\ paid' \in [RequestIds -> [of: Nat, sum: Nat]]
  <2>1. r.fee \in Nat /\ r.fee >= MIN_FEE
    BY <1>1 DEF Open, Request
  <2>2. LastPayment(r, winner) \in Nat
    BY <2>1, CostsAreNat DEF LastPayment, MIN_FEE
  <2> QED
    BY <1>1, <2>2, SendType DEF DeliverLast
<1>7. CASE winner = NoResponse
  <2>1. requests' = requests /\ callbacks' = callbacks
    BY <1>7 DEF DeliverLast, Undecided
  <2>2. TypeOK'
    BY <1>1, <1>2, <1>6, <2>1 DEF TypeOK
  <2>3. r.response0 # r.response1 /\ resp # r.response0 /\ resp # r.response1
    BY <1>1, <1>5, <1>7, WinnerAgrees
  <2>4. Counted(id)'
    <3>1. r.responseCnt = 2
      BY DEF DeliverLast
    <3> QED
      BY <1>2, <1>3, <1>4, <2>1, <3>1 DEF Counted
  <2>5. Slot(id)'
    BY <1>1, <2>1, <2>3, <2>4, VoteKeepsOpen
  <2>6. ASSUME NEW other \in RequestIds, other # id PROVE Slot(other)'
    <3>1. Slot(other) /\ other \in Nat
      BY <2>6 DEF Inv, RequestIds
    <3>2. votes'[other] = votes[other]
      BY <1>2, <2>6
    <3> QED
      BY <1>1, <2>1, <3>1, <3>2, SlotUnchanged
  <2> QED
    BY <2>2, <2>5, <2>6 DEF Inv
<1>8. CASE winner # NoResponse
  <2> DEFINE s == [r EXCEPT !.fee = 0]
  <2>1. /\ requests' = [requests EXCEPT ![id] = s]
        /\ callbacks' = [callbacks EXCEPT ![id] = Append(callbacks[id], winner)]
    BY <1>1, <1>8 DEF DeliverLast
  <2>2. /\ s \in Request /\ s.fee = 0 /\ s.responseCnt = r.responseCnt
        /\ s.response0 = r.response0 /\ s.response1 = r.response1
    BY <1>1 DEF Request
  <2> HIDE DEF s
  <2>3. requests'[id] = s /\ requests' \in [RequestIds -> Request]
        /\ \A other \in RequestIds \ {id} : requests'[other] = requests[other]
    BY <1>1, <2>1, <2>2
  <2>4. \/ winner = resp /\ resp = r.response0
        \/ winner = resp /\ resp = r.response1
        \/ winner = r.response0 /\ r.response0 = r.response1
    BY <1>1, <1>5, <1>8, WinnerAgrees
  <2>5. winner \in Responses
    BY <1>5, <2>4
  <2> HIDE DEF winner
  <2>6. /\ callbacks' \in [RequestIds -> Seq(Responses)]
        /\ callbacks'[id] = <<winner>>
        /\ \A other \in RequestIds \ {id} : callbacks'[other] = callbacks[other]
    <3>1. callbacks[id] = <<>>
      BY <1>1 DEF Open
    <3>2. Append(callbacks[id], winner) = <<winner>> /\ <<winner>> \in Seq(Responses)
      BY <2>5, <3>1
    <3> QED
      BY <1>1, <2>1, <3>2
  <2>7. TypeOK'
    BY <1>1, <1>2, <1>6, <2>3, <2>6 DEF TypeOK
  <2>8. Counted(id)'
    <3>1. r.responseCnt = 2
      BY DEF DeliverLast
    <3> QED
      BY <1>2, <1>3, <1>4, <2>2, <2>3, <3>1 DEF Counted
  <2>9. Open(id)'
    BY <2>2, <2>3 DEF Open, Deliverable
  <2>10. Unused(id)'
    BY <1>1 DEF Slot, Unused
  <2>11. Answered(id)'
    <3>1. Len(callbacks'[id]) = 1 /\ callbacks'[id][1] = winner
      BY <2>6
    <3>2. ~(requests'[id].fee # 0)
      BY <2>2, <2>3
    <3>3. {1, 2, n + 1} \subseteq DOMAIN votes'[id] /\ n + 1 # 1 /\ n + 1 # 2
      BY <1>2, <1>3
    <3>4. \E i, j \in DOMAIN votes'[id] :
             /\ i # j
             /\ votes'[id][i].resp = winner /\ votes'[id][j].resp = winner
      <4> HIDE DEF n, r
      <4>1. CASE winner = resp /\ resp = r.response0
        BY <1>2, <1>4, <3>3, <4>1
      <4>2. CASE winner = resp /\ resp = r.response1
        BY <1>2, <1>4, <3>3, <4>2
      <4>3. CASE winner = r.response0 /\ r.response0 = r.response1
        BY <1>4, <3>3, <4>3
      <4> QED
        BY <2>4, <4>1, <4>2, <4>3
    <3> QED
      BY <3>1, <3>2, <3>4 DEF Answered, Deliverable
  <2>12. ASSUME NEW other \in RequestIds, other # id PROVE Slot(other)'
    <3>1. Slot(other) /\ other \in Nat
      BY <2>12 DEF Inv, RequestIds
    <3>2. /\ requests'[other] = requests[other] /\ votes'[other] = votes[other]
          /\ callbacks'[other] = callbacks[other]
      BY <1>2, <2>3, <2>6, <2>12
    <3> QED
      BY <1>1, <3>1, <3>2, SlotUnchanged
  <2> QED
    BY <2>7, <2>8, <2>9, <2>10, <2>11, <2>12 DEF Inv, Slot
<1> QED
  BY <1>7, <1>8

\* The invariant holds in every reachable state.
THEOREM Invariance == Spec => []Inv
<1>1. Init => Inv
  BY InitInv
<1>2. Inv /\ [Next]_vars => Inv'
  <2> SUFFICES ASSUME Inv, [Next]_vars PROVE Inv'
    OBVIOUS
  <2>1. ASSUME NEW value \in Values, RequestRefused(value) PROVE Inv'
    BY <2>1, RefusedKeepsInv
  <2>2. ASSUME NEW value \in Values, RequestRecorded(value) PROVE Inv'
    BY <2>2, RecordedKeepsInv
  <2>3. ASSUME NEW e \in Enclaves, NEW id \in RequestIds, NEW resp \in Responses,
               Deliver(e, id, resp)
        PROVE  Inv'
    <3>1. /\ Voted(e, id, resp) /\ Deliverable(id)
          /\ requestCnt' = requestCnt /\ refused' = refused
      BY <2>3 DEF Deliver
    <3>2. CASE DeliverFirst(id, resp) \/ DeliverSecond(id, resp)
      BY <3>1, <3>2, EarlyVoteKeepsInv
    <3>3. CASE DeliverLast(id, resp)
      BY <3>1, <3>3, LastVoteKeepsInv
    <3> QED
      BY <2>3, <3>2, <3>3 DEF Deliver
  <2>4. CASE UNCHANGED vars
    BY <2>4 DEF vars, Inv, TypeOK, Slot, Counted, Open, Unused, Answered, Deliverable
  <2> QED
    BY <2>1, <2>2, <2>3, <2>4 DEF Next
<1> QED
  BY <1>1, <1>2, PTL DEF Spec

\* Every stored value has its type; in particular the balance never wraps.
THEOREM TypeCorrect == Spec => []TypeOK
<1>1. Inv => TypeOK
  BY DEF Inv
<1> QED
  BY <1>1, Invariance, PTL

\* A callback is made once, for a response with two votes, which are those of two
\* enclaves as long as none votes twice.
THEOREM TwoVotesAnswer == Spec => []AnsweredByTwo
<1>1. Inv => AnsweredByTwo
  <2> SUFFICES ASSUME Inv, NEW id \in RequestIds, callbacks[id] # <<>>
               PROVE  /\ Len(callbacks[id]) = 1 /\ ~Deliverable(id)
                      /\ \E i, j \in DOMAIN votes[id] :
                             /\ i # j
                             /\ votes[id][i].resp = callbacks[id][1]
                             /\ votes[id][j].resp = callbacks[id][1]
                             /\ OnceEach(id) => votes[id][i].by # votes[id][j].by
    BY DEF AnsweredByTwo
  <2>1. Answered(id)
    BY DEF Inv, Slot
  <2>2. PICK i, j \in DOMAIN votes[id] :
            /\ i # j
            /\ votes[id][i].resp = callbacks[id][1]
            /\ votes[id][j].resp = callbacks[id][1]
    BY <2>1 DEF Answered
  <2>3. OnceEach(id) => votes[id][i].by # votes[id][j].by
    BY <2>2 DEF OnceEach
  <2> QED
    BY <2>1, <2>2, <2>3 DEF Answered
<1> QED
  BY <1>1, Invariance, PTL

\* An open request with three votes or more has no two equal ones among the
\* first three.
THEOREM MajoritySettles == Spec => []MajorityDecides
<1>1. Inv => MajorityDecides
  BY DEF Inv, Slot, Open, MajorityDecides
<1> QED
  BY <1>1, Invariance, PTL
-----------------------------------------------------------------------------
(* What the votes are paid.                                                *)

\* No enclave voted twice on any request.
AllOnce == \A id \in RequestIds : OnceEach(id)

\* The history of payments follows the requests.
FeeNoted(id) == Deliverable(id) => paid[id].of = requests[id].fee

VotesPaid(id) ==
    /\ paid[id].sum = Due(Len(votes[id]), callbacks[id] # <<>>, paid[id].of)
    /\ paid[id].sum <= paid[id].of

\* What is left of the fee of each open request.
Rest == [id \in RequestIds |->
            IF Deliverable(id) THEN requests[id].fee - paid[id].sum ELSE 0]

\* The same as a set of numbered wei, since the sum of a function is out of the
\* provers' reach.
Wei(rest) == UNION {{id} \X (1..rest[id]) : id \in RequestIds}

\* The balance holds what is left of the fees.
Funded(rest, b) == IsFiniteSet(Wei(rest)) /\ Cardinality(Wei(rest)) <= b

\* The inductive invariant for payments.  Enclaves that vote twice spend the
\* fees of others, so nothing is promised then.
PayInv ==
    /\ Inv
    /\ \A id \in RequestIds : FeeNoted(id)
    /\ AllOnce => /\ \A id \in RequestIds : VotesPaid(id)
                  /\ Funded(Rest, balance)

\* The wei numbered k + 1 to k + n of one request.
Numbered(id, k, n) == {id} \X ((k + 1)..(k + n))

LEMMA NewWei ==
    ASSUME NEW id, NEW k \in Nat, NEW n \in Nat
    PROVE  IsFiniteSet(Numbered(id, k, n)) /\ Cardinality(Numbered(id, k, n)) = n
<1>1. IsFiniteSet({id}) /\ Cardinality({id}) = 1
  BY FS_Singleton
<1>2. IsFiniteSet((k + 1)..(k + n)) /\ Cardinality((k + 1)..(k + n)) = n
  <2>1. k + 1 \in Int /\ k + n \in Int
    OBVIOUS
  <2>2. /\ IsFiniteSet((k + 1)..(k + n))
        /\ Cardinality((k + 1)..(k + n)) =
              IF k + 1 > k + n THEN 0 ELSE (k + n) - (k + 1) + 1
    BY <2>1, FS_Interval
  <2> QED
    BY <2>2
<1>3. /\ IsFiniteSet({id} \X ((k + 1)..(k + n)))
      /\ Cardinality({id} \X ((k + 1)..(k + n)))
             = Cardinality({id}) * Cardinality((k + 1)..(k + n))
  BY <1>1, <1>2, FS_Product, Zenon
<1> QED
  BY <1>1, <1>2, <1>3 DEF Numbered

\* If n wei more remain for one request, n wei more remain in all.
LEMMA WeiAdded ==
    ASSUME NEW f \in [RequestIds -> Nat], NEW g \in [RequestIds -> Nat],
           NEW id \in RequestIds, NEW n \in Nat, g[id] = f[id] + n,
           \A other \in RequestIds \ {id} : g[other] = f[other],
           IsFiniteSet(Wei(f)) \/ IsFiniteSet(Wei(g))
    PROVE  /\ IsFiniteSet(Wei(f)) /\ IsFiniteSet(Wei(g))
           /\ Cardinality(Wei(f)) \in Nat
           /\ Cardinality(Wei(g)) = Cardinality(Wei(f)) + n
<1> DEFINE C == Numbered(id, f[id], n)
<1>1. f[id] \in Nat
  OBVIOUS
<1>2. IsFiniteSet(C) /\ Cardinality(C) = n
  BY <1>1, NewWei
<1>3. 1..g[id] = (1..f[id]) \cup ((f[id] + 1)..(f[id] + n))
  BY <1>1
<1>4. Wei(g) = Wei(f) \cup C
  <2>1. ASSUME NEW x \in Wei(g) PROVE x \in Wei(f) \cup C
    <3>1. PICK other \in RequestIds : x \in {other} \X (1..g[other])
      BY <2>1 DEF Wei
    <3>2. CASE other = id
      <4>1. x \in {id} \X (1..f[id]) \/ x \in C
        BY <3>1, <3>2, <1>3 DEF Numbered
      <4> QED
        BY <4>1 DEF Wei
    <3>3. CASE other # id
      <4>1. x \in {other} \X (1..f[other])
        BY <3>1, <3>3
      <4> QED
        BY <4>1 DEF Wei
    <3> QED
      BY <3>2, <3>3
  <2>2. ASSUME NEW x \in Wei(f) PROVE x \in Wei(g)
    <3>1. PICK other \in RequestIds : x \in {other} \X (1..f[other])
      BY <2>2 DEF Wei
    <3>2. x \in {other} \X (1..g[other])
      BY <3>1, <1>3
    <3> QED
      BY <3>2 DEF Wei
  <2>3. C \subseteq Wei(g)
    <3>1. C \subseteq {id} \X (1..g[id])
      BY <1>3 DEF Numbered
    <3> QED
      BY <3>1 DEF Wei
  <2> HIDE DEF C
  <2> QED
    BY <2>1, <2>2, <2>3
<1>5. Wei(f) \cap C = {}
  <2> SUFFICES ASSUME NEW x \in Wei(f), x \in C PROVE FALSE
    OBVIOUS
  <2>1. PICK other \in RequestIds : x \in {other} \X (1..f[other])
    BY DEF Wei
  <2>2. x[1] = other /\ x[2] \in 1..f[other]
    BY <2>1
  <2>3. x[1] = id /\ x[2] \in (f[id] + 1)..(f[id] + n)
    BY DEF Numbered
  <2> QED
    BY <1>1, <2>2, <2>3
<1> HIDE DEF C
<1>6. IsFiniteSet(Wei(f))
  <2>1. ASSUME IsFiniteSet(Wei(g)) PROVE IsFiniteSet(Wei(f))
    <3>1. Wei(f) \in SUBSET Wei(g)
      BY <1>4
    <3> QED
      BY ONLY <2>1, <3>1, FS_Subset
  <2> QED
    BY <2>1
<1>7. /\ IsFiniteSet(Wei(f) \cup C)
      /\ Cardinality(Wei(f) \cup C)
             = Cardinality(Wei(f)) + Cardinality(C) - Cardinality(Wei(f) \cap C)
  BY ONLY <1>2, <1>6, FS_Union
<1>8. Cardinality(Wei(f)) \in Nat
  BY <1>6, FS_CardinalityType
<1>9. Cardinality(Wei(f) \cap C) = 0
  BY <1>5, FS_EmptySet
<1> QED
  BY <1>2, <1>4, <1>6, <1>7, <1>8, <1>9

\* An amount that its request can still afford is in the balance, so it is
\* sent, and the rest stays funded.
LEMMA AffordableIsSent ==
    ASSUME TypeOK, NEW id \in RequestIds, NEW amount \in Nat, Send(id, amount),
           NEW f \in [RequestIds -> Nat], Funded(f, balance), amount <= f[id],
           NEW g \in [RequestIds -> Nat], g[id] = f[id] - amount,
           \A other \in RequestIds \ {id} : g[other] = f[other]
    PROVE  /\ Funded(g, balance')
           /\ paid' = [paid EXCEPT ![id].sum = paid[id].sum + amount]
<1>1. f[id] = g[id] + amount
  <2>1. f[id] \in Nat
    OBVIOUS
  <2> QED
    BY <2>1
<1>2. \A other \in RequestIds \ {id} : f[other] = g[other]
  OBVIOUS
<1>3. IsFiniteSet(Wei(f)) /\ Cardinality(Wei(f)) <= balance /\ balance \in Nat
  BY DEF Funded, TypeOK
<1>4. /\ IsFiniteSet(Wei(g)) /\ Cardinality(Wei(g)) \in Nat
      /\ Cardinality(Wei(f)) = Cardinality(Wei(g)) + amount
  BY <1>1, <1>2, <1>3, WeiAdded
<1>5. amount <= balance
  BY <1>3, <1>4
<1>6. balance' = balance - amount
  BY <1>5 DEF Send
<1>7. Funded(g, balance')
  BY <1>3, <1>4, <1>6 DEF Funded
<1>8. paid' = [paid EXCEPT ![id].sum = paid[id].sum + amount]
  BY <1>5 DEF Send
<1> QED
  BY <1>7, <1>8

\* Three enclaves cast at most three votes if none votes twice.
LEMMA ThreeVotesAtMost ==
    ASSUME NEW v \in Seq(Vote),
           \A i, j \in DOMAIN v : v[i].by = v[j].by => i = j
    PROVE  Len(v) <= 3
<1> SUFFICES ASSUME Len(v) > 3 PROVE FALSE
  <2>1. Len(v) \in Nat
    OBVIOUS
  <2> QED
    BY <2>1
<1>1. 1..4 \subseteq DOMAIN v /\ \A i \in 1..4 : v[i] \in Vote
  <2>1. Len(v) \in Nat /\ DOMAIN v = 1..Len(v) /\ \A i \in 1..Len(v) : v[i] \in Vote
    OBVIOUS
  <2>2. 1..4 \subseteq 1..Len(v)
    BY <2>1
  <2> QED
    BY <2>1, <2>2
<1> DEFINE f == [i \in 1..4 |-> v[i].by]
           S == 1..4
<1>2. f \in [S -> Enclaves]
  BY <1>1 DEF Vote
<1>3. IsFiniteSet(S) /\ Cardinality(S) = 4
  <2>1. /\ IsFiniteSet(1..4)
        /\ Cardinality(1..4) = IF 1 > 4 THEN 0 ELSE 4 - 1 + 1
    <3>1. 1 \in Int /\ 4 \in Int
      OBVIOUS
    <3> QED
      BY <3>1, FS_Interval, Zenon
  <2> QED
    BY <2>1
<1>4. IsFiniteSet(Enclaves) /\ Cardinality(Enclaves) < Cardinality(S)
  BY <1>3, VoteAssumption
<1>5. PICK i, j \in S : i # j /\ f[i] = f[j]
  <2> HIDE DEF f, S
  <2> QED
    BY ONLY <1>2, <1>3, <1>4, FS_PigeonHole
<1>6. i \in DOMAIN v /\ j \in DOMAIN v /\ v[i].by = v[j].by
  BY <1>1, <1>5
<1> QED
  BY <1>5, <1>6

\* The cases of what is due.
LEMMA DueIs ==
    ASSUME NEW fee
    PROVE  /\ Due(0, FALSE, fee) = 0
           /\ Due(1, FALSE, fee) = FIRST_DELIVER_COST
           /\ Due(2, FALSE, fee) = FIRST_DELIVER_COST + SECOND_DELIVER_COST
           /\ Due(3, FALSE, fee) = MIN_FEE
           /\ \A n : Due(n, TRUE, fee) = fee
<1>1. Due(0, FALSE, fee) = 0
  BY DEF Due
<1>2. Due(1, FALSE, fee) = FIRST_DELIVER_COST
  BY DEF Due
<1>3. Due(2, FALSE, fee) = FIRST_DELIVER_COST + SECOND_DELIVER_COST
  BY DEF Due
<1>4. Due(3, FALSE, fee) = MIN_FEE
  BY DEF Due
<1>5. ASSUME NEW n PROVE Due(n, TRUE, fee) = fee
  BY DEF Due
<1> QED
  BY <1>1, <1>2, <1>3, <1>4, <1>5

\* What is left of a fee is never negative, and never below the prices of the
\* votes that are missing.
LEMMA RestType ==
    ASSUME Inv, \A id \in RequestIds : FeeNoted(id) /\ VotesPaid(id)
    PROVE  /\ Rest \in [RequestIds -> Nat]
           /\ \A id \in RequestIds :
                  Rest[id] = IF Deliverable(id) THEN paid[id].of - paid[id].sum ELSE 0
<1> SUFFICES ASSUME NEW id \in RequestIds
             PROVE  /\ Rest[id] \in Nat
                    /\ Rest[id] = IF Deliverable(id) THEN paid[id].of - paid[id].sum
                                  ELSE 0
  <2>1. Rest = [i \in RequestIds |-> Rest[i]]
    BY DEF Rest
  <2> QED
    BY <2>1
<1>1. Rest[id] = IF Deliverable(id) THEN requests[id].fee - paid[id].sum ELSE 0
  BY DEF Rest
<1>2. paid[id].of \in Nat /\ paid[id].sum \in Nat
  BY DEF Inv, TypeOK
<1>3. FeeNoted(id) /\ paid[id].sum <= paid[id].of
  BY DEF VotesPaid
<1> QED
  BY <1>1, <1>2, <1>3 DEF FeeNoted

LEMMA InitPayInv == Init => PayInv
<1> SUFFICES ASSUME Init PROVE PayInv
  OBVIOUS
<1>1. Inv
  BY InitInv
<1>2. ASSUME NEW id \in RequestIds PROVE FeeNoted(id) /\ VotesPaid(id)
  <2>1. /\ paid[id].of = 0 /\ paid[id].sum = 0
        /\ callbacks[id] = <<>> /\ votes[id] = <<>> /\ ~Deliverable(id)
    BY <1>2 DEF Init, Deliverable
  <2>2. Len(<<>>) = 0
    OBVIOUS
  <2> QED
    BY <2>1, <2>2 DEF FeeNoted, VotesPaid, Due
<1>3. Funded(Rest, balance)
  <2>1. \A id \in RequestIds : Rest[id] = 0
    BY DEF Rest, Init, Deliverable
  <2>2. Wei(Rest) = {}
    BY <2>1 DEF Wei
  <2>3. balance = 0
    BY DEF Init
  <2> QED
    BY <2>2, <2>3, FS_EmptySet DEF Funded
<1> QED
  BY <1>1, <1>2, <1>3 DEF PayInv

LEMMA RefusedKeepsPayInv ==
    ASSUME PayInv, NEW value \in Values, RequestRefused(value)
    PROVE  PayInv'
<1>1. Inv'
  BY RefusedKeepsInv DEF PayInv
<1>2. ASSUME NEW id \in RequestIds PROVE FeeNoted(id)'
  BY <1>2 DEF PayInv, FeeNoted, Deliverable, RequestRefused
<1>3. ASSUME AllOnce'
      PROVE  (\A id \in RequestIds : VotesPaid(id)') /\ Funded(Rest, balance)'
  <2>1. AllOnce
    BY <1>3 DEF AllOnce, OnceEach, RequestRefused
  <2>2. Rest' = Rest
    BY DEF Rest, Deliverable, RequestRefused
  <2>3. balance' >= balance /\ balance \in Nat /\ balance' \in Nat
    <3>1. value \in Nat /\ balance \in Nat
      BY VoteAssumption DEF PayInv, Inv, TypeOK
    <3> QED
      BY <3>1 DEF RequestRefused
  <2>4. IsFiniteSet(Wei(Rest)) /\ Cardinality(Wei(Rest)) <= balance
    BY <2>1 DEF PayInv, Funded
  <2>5. Cardinality(Wei(Rest)) \in Nat
    BY <2>4, FS_CardinalityType
  <2>6. Cardinality(Wei(Rest)) <= balance'
    BY <2>3, <2>4, <2>5
  <2>7. Funded(Rest', balance')
    BY <2>2, <2>4, <2>6 DEF Funded
  <2>8. \A id \in RequestIds : VotesPaid(id)'
    BY <2>1 DEF PayInv, VotesPaid, RequestRefused, Due
  <2> QED
    BY <2>7, <2>8 DEF Funded, Wei
<1> QED
  BY <1>1, <1>2, <1>3 DEF PayInv

LEMMA RecordedKeepsPayInv ==
    ASSUME PayInv, NEW value \in Values, RequestRecorded(value)
    PROVE  PayInv'
<1>0. PICK new : new = requestCnt
  OBVIOUS
<1>1. Inv /\ Inv'
  BY RecordedKeepsInv DEF PayInv
<1>2. /\ value \in Nat /\ value >= MIN_FEE /\ MIN_FEE \in Nat \ {0}
      /\ new \in RequestIds /\ new \in Nat
      /\ balance \in Nat /\ balance' = balance + value
  BY <1>0, VoteAssumption, CostsAreNat DEF RequestRecorded, PayInv, Inv, TypeOK, RequestIds
<1>3. /\ requests'[new].fee = value /\ paid'[new].of = value
      /\ paid'[new].sum = paid[new].sum
      /\ \A other \in RequestIds \ {new} :
             requests'[other] = requests[other] /\ paid'[other] = paid[other]
      /\ votes' = votes /\ callbacks' = callbacks
  BY <1>0, <1>1, <1>2 DEF RequestRecorded, Inv, TypeOK, Request
<1>4. ~Deliverable(new) /\ votes[new] = <<>> /\ callbacks[new] = <<>>
  BY <1>0, <1>1, <1>2 DEF Inv, Slot, Unused
<1>5. ASSUME NEW id \in RequestIds PROVE FeeNoted(id)'
  BY <1>3, <1>5 DEF PayInv, FeeNoted, Deliverable
<1>6. ASSUME AllOnce'
      PROVE  (\A id \in RequestIds : VotesPaid(id)') /\ Funded(Rest, balance)'
  <2>1. AllOnce
    BY <1>3, <1>6 DEF AllOnce, OnceEach
  <2>2. /\ \A id \in RequestIds : FeeNoted(id) /\ VotesPaid(id)
        /\ Funded(Rest, balance)
    BY <2>1 DEF PayInv
  <2>3. paid[new].sum = 0
    <3>1. Len(<<>>) = 0
      OBVIOUS
    <3>2. paid[new].sum = Due(0, FALSE, paid[new].of)
      BY <1>2, <1>4, <2>2, <3>1 DEF VotesPaid
    <3> QED
      BY <3>2, DueIs
  <2>4. VotesPaid(new)'
    <3>1. Len(<<>>) = 0
      OBVIOUS
    <3>2. paid'[new].sum = Due(0, FALSE, paid'[new].of)
      BY <1>3, <2>3, DueIs
    <3>3. Len(votes'[new]) = 0 /\ callbacks'[new] = <<>>
      BY <1>3, <1>4, <3>1
    <3> QED
      <4>1. paid'[new].sum <= paid'[new].of
        BY <1>2, <1>3, <2>3
      <4>2. paid'[new].sum = Due(Len(votes'[new]), callbacks'[new] # <<>>, paid'[new].of)
        BY <3>2, <3>3
      <4> QED
        BY <4>1, <4>2 DEF VotesPaid, Due
  <2>5. ASSUME NEW id \in RequestIds, id # new PROVE VotesPaid(id)'
    BY <1>3, <2>2, <2>5 DEF VotesPaid
  <2>6. \A id \in RequestIds : VotesPaid(id)'
    BY <2>4, <2>5
  <2>7. Rest \in [RequestIds -> Nat] /\ Rest[new] = 0
    BY <1>1, <1>2, <1>4, <2>2, RestType
  <2>8. Rest' \in [RequestIds -> Nat] /\ Rest'[new] = value
    <3>1. Rest' = [id \in RequestIds |->
                      IF requests'[id].fee # 0
                      THEN requests'[id].fee - paid'[id].sum ELSE 0]
      BY DEF Rest, Deliverable
    <3>2. Rest'[new] = value
      BY <1>2, <1>3, <2>3, <3>1
    <3>3. ASSUME NEW id \in RequestIds, id # new PROVE Rest'[id] = Rest[id]
      BY <1>3, <3>1, <3>3 DEF Rest, Deliverable
    <3>4. \A id \in RequestIds : Rest'[id] \in Nat
      BY <1>2, <2>7, <3>2, <3>3
    <3> QED
      BY <3>1, <3>2, <3>4
  <2>9. ASSUME NEW id \in RequestIds \ {new} PROVE Rest'[id] = Rest[id]
    BY <1>3, <2>9 DEF Rest, Deliverable
  <2>10. /\ IsFiniteSet(Wei(Rest')) /\ Cardinality(Wei(Rest)) \in Nat
         /\ Cardinality(Wei(Rest')) = Cardinality(Wei(Rest)) + value
    <3>1. Rest'[new] = Rest[new] + value
      BY <1>2, <2>7, <2>8
    <3>2. IsFiniteSet(Wei(Rest))
      BY <2>2 DEF Funded
    <3> QED
      BY ONLY <1>2, <2>7, <2>8, <2>9, <3>1, <3>2, WeiAdded
  <2>11. Funded(Rest', balance')
    BY <1>2, <2>2, <2>10 DEF Funded
  <2> QED
    BY <2>6, <2>11 DEF Funded, Wei
<1> QED
  BY <1>1, <1>5, <1>6 DEF PayInv

\* If no enclave has voted twice after a vote, none had before, and the vote is the
\* third one at most.
LEMMA OnceBefore ==
    ASSUME TypeOK, NEW e \in Enclaves, NEW id \in RequestIds,
           NEW resp \in Responses, Voted(e, id, resp), AllOnce'
    PROVE  AllOnce /\ Len(votes[id]) <= 2
<1>1. /\ votes' \in [RequestIds -> Seq(Vote)]
      /\ Len(votes[id]) \in Nat /\ Len(votes'[id]) = Len(votes[id]) + 1
      /\ DOMAIN votes[id] = 1..Len(votes[id])
      /\ DOMAIN votes'[id] = 1..(Len(votes[id]) + 1)
      /\ \A i \in 1..Len(votes[id]) : votes'[id][i] = votes[id][i]
      /\ \A other \in RequestIds \ {id} : votes'[other] = votes[other]
  BY VoteAppended
<1>2. \A i, j \in DOMAIN votes'[id] : votes'[id][i].by = votes'[id][j].by => i = j
  BY DEF AllOnce, OnceEach
<1>3. OnceEach(id)
  <2> SUFFICES ASSUME NEW i \in 1..Len(votes[id]), NEW j \in 1..Len(votes[id]),
                      votes[id][i].by = votes[id][j].by
               PROVE  i = j
    BY <1>1 DEF OnceEach
  <2>1. votes'[id][i] = votes[id][i] /\ votes'[id][j] = votes[id][j]
    BY <1>1
  <2>2. i \in DOMAIN votes'[id] /\ j \in DOMAIN votes'[id]
    BY <1>1
  <2> QED
    BY <1>2, <2>1, <2>2
<1>4. ASSUME NEW other \in RequestIds, other # id PROVE OnceEach(other)
  BY <1>1, <1>4 DEF AllOnce, OnceEach
<1>5. votes'[id] \in Seq(Vote)
  BY <1>1
<1>6. Len(votes'[id]) <= 3
  BY <1>2, <1>5, ThreeVotesAtMost
<1> QED
  BY <1>1, <1>3, <1>4, <1>6 DEF AllOnce

\* A vote is paid if its price is part of what is left of the fee, and all that
\* is left if it settles the request.
LEMMA VoteIsPaid ==
    ASSUME PayInv, Inv', AllOnce, NEW e \in Enclaves, NEW id \in RequestIds,
           NEW resp \in Responses, Voted(e, id, resp), Deliverable(id),
           NEW amount \in Nat, Send(id, amount), amount <= Rest[id],
           \A other \in RequestIds \ {id} : /\ requests'[other] = requests[other]
                                           /\ callbacks'[other] = callbacks[other],
           \/ requests'[id].fee = requests[id].fee
           \/ requests'[id].fee = 0 /\ amount = Rest[id],
           paid[id].sum + amount
               = Due(Len(votes'[id]), callbacks'[id] # <<>>, paid[id].of)
    PROVE  (\A any \in RequestIds : VotesPaid(any)') /\ Funded(Rest, balance)'
<1>1. /\ TypeOK /\ Inv /\ \A any \in RequestIds : FeeNoted(any) /\ VotesPaid(any)
      /\ Funded(Rest, balance)
  BY DEF PayInv, Inv
<1>2. /\ Rest \in [RequestIds -> Nat]
      /\ Rest[id] = paid[id].of - paid[id].sum
      /\ Rest[id] \in Nat
  BY <1>1, RestType
<1> DEFINE g == [Rest EXCEPT ![id] = Rest[id] - amount]
<1>3. /\ g \in [RequestIds -> Nat] /\ g[id] = Rest[id] - amount
      /\ \A other \in RequestIds \ {id} : g[other] = Rest[other]
  <2>1. Rest[id] - amount \in Nat
    BY <1>2
  <2> QED
    BY <1>2, <2>1
<1> HIDE DEF g
<1>4. /\ Funded(g, balance')
      /\ paid' = [paid EXCEPT ![id].sum = paid[id].sum + amount]
  BY <1>1, <1>2, <1>3, AffordableIsSent
<1>5. /\ paid'[id].sum = paid[id].sum + amount /\ paid'[id].of = paid[id].of
      /\ \A other \in RequestIds \ {id} : paid'[other] = paid[other]
      /\ paid[id].sum \in Nat /\ paid[id].of \in Nat
  BY <1>1, <1>4 DEF TypeOK
<1>6. \A other \in RequestIds \ {id} : votes'[other] = votes[other]
  BY <1>1, VoteAppended
<1>7. VotesPaid(id)'
  <2>1. paid'[id].sum <= paid'[id].of
    BY <1>2, <1>5
  <2>2. paid'[id].sum = Due(Len(votes'[id]), callbacks'[id] # <<>>, paid'[id].of)
    BY <1>5
  <2> QED
    BY <2>1, <2>2 DEF VotesPaid, Due
<1>8. ASSUME NEW other \in RequestIds, other # id PROVE VotesPaid(other)'
  <2>1. /\ VotesPaid(other) /\ votes'[other] = votes[other]
        /\ callbacks'[other] = callbacks[other] /\ paid'[other] = paid[other]
    BY <1>1, <1>5, <1>6, <1>8
  <2> QED
    BY <2>1 DEF VotesPaid, Due
<1>9. Rest' = g
  <2>1. Rest' = [any \in RequestIds |->
                    IF requests'[any].fee # 0
                    THEN requests'[any].fee - paid'[any].sum ELSE 0]
    BY DEF Rest, Deliverable
  <2>2. Rest'[id] = g[id]
    <3>1. requests[id].fee = paid[id].of /\ requests[id].fee # 0
      BY <1>1 DEF FeeNoted, Deliverable
    <3> QED
      BY <1>2, <1>3, <1>5, <2>1, <3>1
  <2>3. ASSUME NEW other \in RequestIds, other # id PROVE Rest'[other] = g[other]
    <3>1. Rest[other] = IF requests[other].fee # 0
                        THEN requests[other].fee - paid[other].sum ELSE 0
      BY DEF Rest, Deliverable
    <3> QED
      BY <1>3, <1>5, <2>1, <2>3, <3>1
  <2>4. \A any \in RequestIds : Rest'[any] = g[any]
    BY <2>2, <2>3
  <2> QED
    BY <1>3, <2>1, <2>4
<1>10. Funded(Rest', balance')
  BY <1>4, <1>9
<1> QED
  BY <1>7, <1>8, <1>10 DEF Funded, Wei

\* A payment does not touch the note of the fee.
LEMMA FeeStaysNoted ==
    ASSUME PayInv, NEW id \in RequestIds, NEW amount, Send(id, amount),
           requests'[id].fee = requests[id].fee \/ requests'[id].fee = 0,
           \A other \in RequestIds \ {id} : requests'[other] = requests[other]
    PROVE  \A any \in RequestIds : FeeNoted(any)'
<1>1. \A any \in RequestIds : paid'[any].of = paid[any].of
  <2>1. paid \in [RequestIds -> [of: Nat, sum: Nat]]
    BY DEF PayInv, Inv, TypeOK
  <2>2. CASE amount <= balance
    BY <2>1, <2>2 DEF Send
  <2>3. CASE ~(amount <= balance)
    BY <2>3 DEF Send
  <2> QED
    BY <2>2, <2>3
<1>2. ASSUME NEW any \in RequestIds PROVE FeeNoted(any)'
  <2>1. FeeNoted(any)
    BY DEF PayInv
  <2>2. requests'[any].fee = requests[any].fee \/ requests'[any].fee = 0
    BY <1>2
  <2> QED
    BY <1>1, <2>1, <2>2 DEF FeeNoted, Deliverable
<1> QED
  BY <1>2

\* The first and the second vote are paid.
LEMMA EarlyVoteKeepsPayInv ==
    ASSUME PayInv, Inv', NEW e \in Enclaves, NEW id \in RequestIds,
           NEW resp \in Responses, Voted(e, id, resp), Deliverable(id),
           DeliverFirst(id, resp) \/ DeliverSecond(id, resp)
    PROVE  PayInv'
<1> DEFINE n == Len(votes[id])
<1>1. TypeOK /\ Slot(id) /\ Counted(id) /\ Open(id) /\ Inv
  BY DEF PayInv, Inv, Slot
<1>2. /\ requests'[id].fee = requests[id].fee
      /\ \A other \in RequestIds \ {id} : requests'[other] = requests[other]
      /\ n < 2
  BY <1>1, CountedAfterFirst
<1>3. n \in Nat /\ Len(votes'[id]) = n + 1
  BY <1>1, VoteAppended
<1>4. callbacks' = callbacks /\ callbacks[id] = <<>>
  BY <1>1 DEF DeliverFirst, DeliverSecond, Open
<1>5. PICK amount \in Nat :
          /\ Send(id, amount)
          /\ \/ n = 0 /\ amount = FIRST_DELIVER_COST
             \/ n = 1 /\ amount = SECOND_DELIVER_COST
  <2>1. requests[id].responseCnt = IF n < 2 THEN n ELSE 2
    BY <1>1 DEF Counted
  <2> HIDE DEF n
  <2>2. requests[id].responseCnt = n
    BY <1>2, <2>1
  <2> QED
    BY <2>2, CostsAreNat DEF DeliverFirst, DeliverSecond
<1> HIDE DEF n
<1>6. \A any \in RequestIds : FeeNoted(any)'
  BY <1>2, <1>5, FeeStaysNoted
<1>7. ASSUME AllOnce'
      PROVE  (\A any \in RequestIds : VotesPaid(any)') /\ Funded(Rest, balance)'
  <2>1. AllOnce
    BY <1>1, <1>7, OnceBefore
  <2>2. VotesPaid(id) /\ FeeNoted(id)
    BY <2>1 DEF PayInv
  <2>3. /\ requests[id].fee >= MIN_FEE /\ paid[id].of = requests[id].fee
        /\ paid[id].of \in Nat /\ paid[id].sum \in Nat
    BY <1>1, <2>2 DEF FeeNoted, Open, TypeOK
  <2>4. paid[id].sum = Due(n, FALSE, paid[id].of)
    BY <1>4, <2>2 DEF VotesPaid, n
  <2>5. /\ Rest[id] = paid[id].of - paid[id].sum
        /\ paid[id].sum + amount = Due(n + 1, FALSE, paid[id].of)
        /\ amount <= Rest[id]
    <3>1. Rest[id] = paid[id].of - paid[id].sum
      BY <2>3 DEF Rest, Deliverable
    <3>2. CASE n = 0 /\ amount = FIRST_DELIVER_COST
      <4>1. n = 0 /\ n + 1 = 1
        BY <3>2
      <4>2. paid[id].sum = Due(0, FALSE, paid[id].of)
        BY ONLY <2>4, <4>1
      <4>3. Due(n + 1, FALSE, paid[id].of) = Due(1, FALSE, paid[id].of)
        BY ONLY <4>1
      <4>4. /\ paid[id].sum = 0
            /\ Due(n + 1, FALSE, paid[id].of) = FIRST_DELIVER_COST
        BY ONLY <4>2, <4>3, DueIs
      <4> QED
        <5>1. paid[id].sum + amount = Due(n + 1, FALSE, paid[id].of)
          <6>1. 0 + amount = amount /\ amount = FIRST_DELIVER_COST
            BY <1>5, <3>2
          <6> QED
            BY ONLY <4>4, <6>1, Zenon
        <5>2. paid[id].sum + amount <= MIN_FEE /\ MIN_FEE <= paid[id].of
          BY ONLY <2>3, <3>2, <4>4, CostsAreNat DEF MIN_FEE
        <5> HIDE DEF n
        <5>3. amount <= paid[id].of - paid[id].sum
          BY ONLY <1>5, <2>3, <5>2, CostsAreNat
        <5> QED
          BY ONLY <3>1, <5>1, <5>3
    <3>3. CASE n = 1 /\ amount = SECOND_DELIVER_COST
      <4>1. n = 1 /\ n + 1 = 2
        BY <3>3
      <4>2. paid[id].sum = Due(1, FALSE, paid[id].of)
        BY ONLY <2>4, <4>1
      <4>3. Due(n + 1, FALSE, paid[id].of) = Due(2, FALSE, paid[id].of)
        BY ONLY <4>1
      <4>4. /\ paid[id].sum = FIRST_DELIVER_COST
            /\ Due(n + 1, FALSE, paid[id].of)
                   = FIRST_DELIVER_COST + SECOND_DELIVER_COST
        BY ONLY <4>2, <4>3, DueIs
      <4> QED
        <5>1. paid[id].sum + amount = Due(n + 1, FALSE, paid[id].of)
          BY ONLY <3>3, <4>4, CostsAreNat
        <5>2. paid[id].sum + amount <= MIN_FEE /\ MIN_FEE <= paid[id].of
          BY ONLY <2>3, <3>3, <4>4, CostsAreNat DEF MIN_FEE
        <5> HIDE DEF n
        <5>3. amount <= paid[id].of - paid[id].sum
          BY ONLY <1>5, <2>3, <5>2, CostsAreNat
        <5> QED
          BY ONLY <3>1, <5>1, <5>3
    <3> QED
      BY <1>5, <3>2, <3>3
  <2>6. paid[id].sum + amount
            = Due(Len(votes'[id]), callbacks'[id] # <<>>, paid[id].of)
    BY <1>3, <1>4, <2>5
  <2>7. \A other \in RequestIds \ {id} : callbacks'[other] = callbacks[other]
    BY <1>4
  <2> QED
    BY <1>2, <1>5, <2>1, <2>5, <2>6, <2>7, VoteIsPaid
<1> QED
  BY <1>6, <1>7 DEF PayInv

\* The third vote is paid, and with what is left of the fee if it settles the
\* request.
LEMMA LastVoteKeepsPayInv ==
    ASSUME PayInv, Inv', NEW e \in Enclaves, NEW id \in RequestIds,
           NEW resp \in Responses, Voted(e, id, resp), Deliverable(id),
           DeliverLast(id, resp)
    PROVE  PayInv'
<1> DEFINE n == Len(votes[id])
           winner == Winner(requests[id], resp)
           amount == LastPayment(requests[id], winner)
<1>1. TypeOK /\ Slot(id) /\ Counted(id) /\ Open(id) /\ Inv
  BY DEF PayInv, Inv, Slot
<1>2. n \in Nat /\ Len(votes'[id]) = n + 1
  BY <1>1, VoteAppended
<1>3. n >= 2
  <2>1. requests[id].responseCnt = IF n < 2 THEN n ELSE 2
    BY <1>1 DEF Counted
  <2>2. requests[id].responseCnt = 2
    BY DEF DeliverLast
  <2> HIDE DEF n
  <2> QED
    BY <1>2, <2>1, <2>2
<1>4. /\ requests \in [RequestIds -> Request] /\ requests[id] \in Request
      /\ requests[id].fee \in Nat /\ requests[id].fee >= MIN_FEE
      /\ callbacks \in [RequestIds -> Seq(Responses)] /\ callbacks[id] = <<>>
  BY <1>1 DEF TypeOK, Open, Request
<1>5. amount \in Nat
  BY <1>4, CostsAreNat DEF LastPayment, MIN_FEE
<1>6. \/ /\ winner = NoResponse /\ requests' = requests /\ callbacks' = callbacks
      \/ /\ winner # NoResponse /\ requests'[id].fee = 0
         /\ callbacks'[id] # <<>>
         /\ \A other \in RequestIds \ {id} : /\ requests'[other] = requests[other]
                                             /\ callbacks'[other] = callbacks[other]
  <2> HIDE DEF winner
  <2>1. CASE winner = NoResponse
    BY <2>1 DEF DeliverLast, winner, Undecided
  <2>2. CASE winner # NoResponse
    <3>1. /\ requests' = [requests EXCEPT ![id].fee = 0]
          /\ callbacks' = [callbacks EXCEPT ![id] = Append(@, winner)]
      BY <2>2 DEF DeliverLast, winner
    <3>2. Append(<<>>, winner) = <<winner>> /\ <<winner>> # <<>>
      OBVIOUS
    <3> QED
      BY <1>4, <2>2, <3>1, <3>2 DEF Request
  <2> QED
    BY <2>1, <2>2
<1>7. Send(id, amount)
  BY DEF DeliverLast
<1>8. \A any \in RequestIds : FeeNoted(any)'
  <2> HIDE DEF amount, winner
  <2> QED
    BY <1>6, <1>7, FeeStaysNoted
<1>9. ASSUME AllOnce'
      PROVE  (\A any \in RequestIds : VotesPaid(any)') /\ Funded(Rest, balance)'
  <2>1. AllOnce /\ n = 2
    <3>1. AllOnce /\ n <= 2
      <4> HIDE DEF winner, amount
      <4> QED
        BY ONLY <1>1, <1>9, Voted(e, id, resp), OnceBefore, e \in Enclaves,
                id \in RequestIds, resp \in Responses
    <3> HIDE DEF n
    <3> QED
      BY ONLY <1>2, <1>3, <3>1
  <2>2. VotesPaid(id) /\ FeeNoted(id)
    BY <2>1 DEF PayInv
  <2>3. paid[id].of = requests[id].fee /\ paid[id].of \in Nat /\ paid[id].sum \in Nat
    BY <1>1, <2>2 DEF FeeNoted, TypeOK
  <2>4. paid[id].sum = FIRST_DELIVER_COST + SECOND_DELIVER_COST
    <3>1. paid[id].sum = Due(2, FALSE, paid[id].of)
      BY <1>4, <2>1, <2>2 DEF VotesPaid
    <3> QED
      BY <3>1, DueIs
  <2>5. Rest[id] = paid[id].of - paid[id].sum
    BY <2>3 DEF Rest, Deliverable
  <2> HIDE DEF n
  <2>6. Len(votes'[id]) = 3
    BY <1>2, <2>1
  <2>7. /\ amount <= Rest[id]
        /\ \/ requests'[id].fee = requests[id].fee
           \/ requests'[id].fee = 0 /\ amount = Rest[id]
        /\ paid[id].sum + amount
               = Due(Len(votes'[id]), callbacks'[id] # <<>>, paid[id].of)
        /\ \A other \in RequestIds \ {id} : /\ requests'[other] = requests[other]
                                            /\ callbacks'[other] = callbacks[other]
    <3> HIDE DEF winner
    <3>1. CASE winner = NoResponse /\ requests' = requests /\ callbacks' = callbacks
      <4>1. amount = LAST_DELIVER_COST
        BY <3>1 DEF LastPayment
      <4>2. Due(3, callbacks'[id] # <<>>, paid[id].of) = MIN_FEE
        <5>1. (callbacks'[id] # <<>>) = FALSE
          BY <1>4, <3>1
        <5> QED
          BY <5>1, DueIs
      <4> QED
        BY <1>4, <2>3, <2>4, <2>5, <2>6, <3>1, <4>1, <4>2, CostsAreNat DEF MIN_FEE
    <3>2. CASE /\ winner # NoResponse /\ requests'[id].fee = 0
               /\ callbacks'[id] # <<>>
               /\ \A other \in RequestIds \ {id} :
                      /\ requests'[other] = requests[other]
                      /\ callbacks'[other] = callbacks[other]
      <4>1. amount = requests[id].fee - (FIRST_DELIVER_COST + SECOND_DELIVER_COST)
        BY <3>2 DEF LastPayment
      <4>2. Due(3, callbacks'[id] # <<>>, paid[id].of) = paid[id].of
        BY <3>2 DEF Due
      <4> HIDE DEF amount
      <4>3. amount = Rest[id] /\ paid[id].sum + amount = paid[id].of
        BY <1>4, <2>3, <2>4, <2>5, <4>1, CostsAreNat
      <4> QED
        BY <1>5, <2>6, <3>2, <4>2, <4>3
    <3> QED
      BY <1>6, <3>1, <3>2
  <2> HIDE DEF amount
  <2> QED
    BY <1>5, <1>7, <2>1, <2>7, VoteIsPaid
<1> QED
  BY <1>8, <1>9 DEF PayInv

-----------------------------------------------------------------------------
(* What votes are paid if enclaves vote again.                             *)

\* What was paid of the fee at most.
Limited(id) ==
    LET n == Len(votes[id]) sum == paid[id].sum IN
    /\ id >= requestCnt => sum = 0
    /\ Deliverable(id) =>
           /\ n = 0 => sum = 0
           /\ n = 1 => sum <= FIRST_DELIVER_COST
           /\ n >= 2 => sum <= FIRST_DELIVER_COST + SECOND_DELIVER_COST
                               + LAST_DELIVER_COST * (n - 2)
    /\ ~Deliverable(id) =>
           sum <= paid[id].of + LAST_DELIVER_COST * Repeated(id)

LimitInv == PayInv /\ \A id \in RequestIds : Limited(id)

LEMMA SentAtMost ==
    ASSUME TypeOK, NEW id \in RequestIds, NEW amount \in Nat, Send(id, amount)
    PROVE  /\ paid'[id].of = paid[id].of /\ paid[id].of \in Nat
           /\ paid[id].sum \in Nat /\ paid'[id].sum \in Nat
           /\ paid'[id].sum <= paid[id].sum + amount
           /\ \A other \in RequestIds \ {id} : paid'[other] = paid[other]
<1>1. paid \in [RequestIds -> [of: Nat, sum: Nat]]
      /\ paid[id] \in [of: Nat, sum: Nat]
  BY DEF TypeOK
<1>2. CASE amount <= balance
  <2>1. paid' = [paid EXCEPT ![id] = [paid[id] EXCEPT !.sum = paid[id].sum + amount]]
    BY <1>2 DEF Send
  <2> QED
    BY <1>1, <2>1
<1>3. CASE ~(amount <= balance)
  <2>1. paid' = paid
    BY <1>3 DEF Send
  <2> QED
    BY <1>1, <2>1
<1> QED
  BY <1>2, <1>3

\* Prices of votes beyond the second.
LEMMA Further ==
    ASSUME NEW n \in Nat, n >= 2
    PROVE  /\ LAST_DELIVER_COST * (n - 2) \in Nat
           /\ LAST_DELIVER_COST * ((n + 1) - 2)
                  = LAST_DELIVER_COST * (n - 2) + LAST_DELIVER_COST
           /\ (n + 1) - 3 = n - 2
<1> DEFINE l == LAST_DELIVER_COST
<1>1. l \in Nat
  BY CostsAreNat
<1> HIDE DEF l
<1>2. /\ l * (n - 2) \in Nat
      /\ l * ((n + 1) - 2) = l * (n - 2) + l
      /\ (n + 1) - 3 = n - 2
  BY <1>1
<1> QED
  BY <1>2 DEF l

LEMMA LimitedSame ==
    ASSUME Inv, Inv', NEW id \in RequestIds, Limited(id),
           requests'[id] = requests[id], votes'[id] = votes[id],
           paid'[id] = paid[id], requestCnt' >= requestCnt
    PROVE  Limited(id)'
<1>1. requestCnt \in Nat /\ requestCnt' \in Nat /\ id \in Nat
  BY DEF Inv, TypeOK, RequestIds
<1> QED
  BY <1>1 DEF Limited, Deliverable, Repeated

LEMMA RecordedKeepsLimit ==
    ASSUME LimitInv, Inv', NEW value \in Values, RequestRecorded(value)
    PROVE  \A id \in RequestIds : Limited(id)'
<1>0. PICK new : new = requestCnt
  OBVIOUS
<1>1. Inv /\ TypeOK
  BY DEF LimitInv, PayInv, Inv
<1>2. /\ value \in Nat /\ value >= MIN_FEE /\ MIN_FEE \in Nat \ {0}
      /\ new \in RequestIds /\ new \in Nat /\ requestCnt' = new + 1
  BY <1>0, <1>1, VoteAssumption, CostsAreNat DEF RequestRecorded, TypeOK, RequestIds
<1>3. /\ requests'[new].fee = value /\ paid'[new].sum = paid[new].sum
      /\ \A other \in RequestIds \ {new} :
             requests'[other] = requests[other] /\ paid'[other] = paid[other]
      /\ votes' = votes
  BY <1>0, <1>1, <1>2 DEF RequestRecorded, TypeOK, Request
<1>4. votes[new] = <<>>
  BY <1>0, <1>1, <1>2 DEF Inv, Slot, Unused
<1>5. Limited(new)'
  <2>1. Limited(new) /\ new >= requestCnt
    BY <1>0, <1>2 DEF LimitInv
  <2>2. paid[new].sum = 0
    BY <2>1 DEF Limited
  <2>3. Len(<<>>) = 0
    OBVIOUS
  <2>4. /\ paid'[new].sum = 0 /\ Len(votes'[new]) = 0 /\ requests'[new].fee # 0
    BY <1>2, <1>3, <1>4, <2>2, <2>3
  <2> QED
    BY <2>4 DEF Limited, Deliverable
<1>6. ASSUME NEW other \in RequestIds, other # new PROVE Limited(other)'
  <2>1. Limited(other) /\ requestCnt' >= requestCnt
    BY <1>0, <1>2 DEF LimitInv
  <2>2. /\ requests'[other] = requests[other] /\ paid'[other] = paid[other]
        /\ votes'[other] = votes[other]
    BY <1>3, <1>6
  <2> QED
    BY <1>1, <2>1, <2>2, LimitedSame
<1> QED
  BY <1>5, <1>6

\* A vote on request id, for which at most amount is paid.
LEMMA VoteKeepsLimit ==
    ASSUME LimitInv, PayInv', NEW e \in Enclaves, NEW id \in RequestIds,
           NEW resp \in Responses, Voted(e, id, resp), Deliverable(id),
           UNCHANGED requestCnt,
           DeliverFirst(id, resp) \/ DeliverSecond(id, resp) \/ DeliverLast(id, resp)
    PROVE  \A any \in RequestIds : Limited(any)'
<1> DEFINE n == Len(votes[id])
           F == FIRST_DELIVER_COST
           S == SECOND_DELIVER_COST
           L == LAST_DELIVER_COST
           fee == requests[id].fee
<1>1. /\ TypeOK /\ Inv /\ Inv' /\ Counted(id) /\ Open(id) /\ Unused(id)
      /\ FeeNoted(id) /\ Limited(id)
      /\ requests \in [RequestIds -> Request] /\ requests[id] \in Request
      /\ requestCnt \in Nat /\ id \in Nat
  <2>1. TypeOK /\ Inv /\ Inv' /\ FeeNoted(id) /\ Limited(id)
    BY DEF LimitInv, PayInv, Inv
  <2>2. Counted(id) /\ Open(id) /\ Unused(id)
    BY <2>1 DEF Inv, Slot
  <2>3. requests \in [RequestIds -> Request] /\ requestCnt \in Nat /\ id \in Nat
    BY <2>1 DEF TypeOK, RequestIds
  <2> QED
    BY <2>1, <2>2, <2>3
<1>2. n \in Nat /\ Len(votes'[id]) = n + 1
      /\ \A other \in RequestIds \ {id} : votes'[other] = votes[other]
  BY <1>1, VoteAppended
<1>3. /\ F \in Nat /\ S \in Nat /\ L \in Nat /\ MIN_FEE = F + S + L
      /\ fee \in Nat /\ fee >= MIN_FEE /\ fee # 0 /\ paid[id].of = fee
      /\ id < requestCnt
  BY <1>1, CostsAreNat DEF MIN_FEE, Open, FeeNoted, Deliverable, Unused, Request
<1>4. requests[id].responseCnt = IF n < 2 THEN n ELSE 2
  BY <1>1 DEF Counted
<1>5. \E amount \in Nat :
          /\ Send(id, amount)
          /\ \A other \in RequestIds \ {id} : requests'[other] = requests[other]
          /\ \/ n = 0 /\ amount = F /\ requests'[id].fee = fee
             \/ n = 1 /\ amount = S /\ requests'[id].fee = fee
             \/ n >= 2 /\ amount = L /\ requests'[id].fee = fee
             \/ n >= 2 /\ amount = fee - (F + S) /\ requests'[id].fee = 0
  <2> HIDE DEF n
  <2>1. CASE DeliverFirst(id, resp)
    <3>1. n = 0 /\ Send(id, F)
      BY <1>2, <1>4, <2>1 DEF DeliverFirst
    <3>2. /\ requests'[id].fee = fee
          /\ \A other \in RequestIds \ {id} : requests'[other] = requests[other]
      BY <1>1, <2>1 DEF DeliverFirst, Request
    <3> QED
      BY <1>3, <3>1, <3>2
  <2>2. CASE DeliverSecond(id, resp)
    <3>1. n = 1 /\ Send(id, S)
      BY <1>2, <1>4, <2>2 DEF DeliverSecond
    <3>2. /\ requests'[id].fee = fee
          /\ \A other \in RequestIds \ {id} : requests'[other] = requests[other]
      BY <1>1, <2>2 DEF DeliverSecond, Request
    <3> QED
      BY <1>3, <3>1, <3>2
  <2>3. CASE DeliverLast(id, resp)
    <3> DEFINE winner == Winner(requests[id], resp)
               amount == LastPayment(requests[id], winner)
    <3>1. n >= 2 /\ Send(id, amount)
      BY <1>2, <1>4, <2>3 DEF DeliverLast
    <3>2. /\ winner = NoResponse => amount = L /\ requests' = requests
          /\ winner # NoResponse =>
                 /\ amount = fee - (F + S)
                 /\ requests' = [requests EXCEPT ![id].fee = 0]
      BY <2>3 DEF DeliverLast, Undecided, LastPayment
    <3>3. winner # NoResponse =>
              /\ requests'[id].fee = 0
              /\ \A other \in RequestIds \ {id} : requests'[other] = requests[other]
      BY <1>1, <3>2 DEF Request
    <3> HIDE DEF winner, amount
    <3>4. amount \in Nat
      BY <1>3, <3>2
    <3>5. CASE winner = NoResponse
      BY <3>1, <3>2, <3>4, <3>5
    <3>6. CASE winner # NoResponse
      BY <3>1, <3>2, <3>3, <3>4, <3>6
    <3> QED
      BY <3>5, <3>6
  <2> QED
    BY <2>1, <2>2, <2>3
<1>6. PICK amount \in Nat :
          /\ Send(id, amount)
          /\ \A other \in RequestIds \ {id} : requests'[other] = requests[other]
          /\ \/ n = 0 /\ amount = F /\ requests'[id].fee = fee
             \/ n = 1 /\ amount = S /\ requests'[id].fee = fee
             \/ n >= 2 /\ amount = L /\ requests'[id].fee = fee
             \/ n >= 2 /\ amount = fee - (F + S) /\ requests'[id].fee = 0
  BY <1>5
<1>7. /\ paid'[id].of = fee /\ paid[id].sum \in Nat /\ paid'[id].sum \in Nat
      /\ paid'[id].sum <= paid[id].sum + amount
      /\ \A other \in RequestIds \ {id} : paid'[other] = paid[other]
  BY <1>1, <1>3, <1>6, SentAtMost
<1>8. /\ n = 0 => paid[id].sum = 0
      /\ n = 1 => paid[id].sum <= F
      /\ n >= 2 => paid[id].sum <= F + S + L * (n - 2)
  BY <1>1 DEF Limited
<1>9. Limited(id)'
  <2> HIDE DEF n, F, S, L, fee
  <2> DEFINE sum == paid'[id].sum
  <2>1. ~(id >= requestCnt')
    BY <1>1, <1>3
  <2>2. CASE n = 0 /\ amount = F /\ requests'[id].fee = fee
    <3>1. Len(votes'[id]) = 1 /\ sum <= F /\ requests'[id].fee # 0
      BY <1>2, <1>3, <1>7, <1>8, <2>2
    <3> QED
      BY <2>1, <3>1 DEF Limited, Deliverable, F
  <2>3. CASE n = 1 /\ amount = S /\ requests'[id].fee = fee
    <3>1. Len(votes'[id]) = 2 /\ sum <= F + S /\ requests'[id].fee # 0
      BY <1>2, <1>3, <1>7, <1>8, <2>3
    <3>2. F + S + L * (2 - 2) = F + S
      BY <1>3
    <3>3. sum <= F + S + L * (Len(votes'[id]) - 2)
      BY <3>1, <3>2
    <3> QED
      BY <2>1, <3>1, <3>3 DEF Limited, Deliverable, F, S, L
  <2>4. ASSUME n >= 2
        PROVE  /\ L * (n - 2) \in Nat
               /\ L * (Len(votes'[id]) - 2) = L * (n - 2) + L
               /\ Len(votes'[id]) - 3 = n - 2 /\ Len(votes'[id]) >= 3
               /\ Repeated(id)' = n - 2
    <3>1. /\ L * (n - 2) \in Nat
          /\ L * ((n + 1) - 2) = L * (n - 2) + L
          /\ (n + 1) - 3 = n - 2
      BY <1>2, <2>4, Further DEF L
    <3>2. Repeated(id)' = n - 2
      BY <1>2, <2>4 DEF Repeated
    <3> QED
      BY <1>2, <2>4, <3>1, <3>2
  <2>5. CASE n >= 2 /\ amount = L /\ requests'[id].fee = fee
    <3> DEFINE d == L * (n - 2)
    <3>1. d \in Nat /\ L * (Len(votes'[id]) - 2) = d + L
          /\ paid[id].sum <= F + S + d
      BY <1>8, <2>4, <2>5
    <3> HIDE DEF d
    <3>2. sum <= F + S + (d + L)
      <4> DEFINE old == paid[id].sum
      <4>1. /\ F \in Nat /\ S \in Nat /\ L \in Nat /\ d \in Nat /\ old \in Nat
            /\ sum \in Nat /\ sum <= old + L /\ old <= F + S + d
        BY <1>3, <1>7, <2>5, <3>1
      <4> HIDE DEF old, sum
      <4> QED
        BY ONLY <4>1
    <3>3. sum <= F + S + L * (Len(votes'[id]) - 2)
      BY <3>1, <3>2
    <3>4. requests'[id].fee # 0 /\ Len(votes'[id]) >= 3
      BY <1>3, <2>4, <2>5
    <3>5. /\ Len(votes'[id]) # 0 /\ Len(votes'[id]) # 1
      BY <1>2, <2>5
    <3> QED
      BY <2>1, <3>3, <3>4, <3>5 DEF Limited, Deliverable, F, S, L
  <2>6. CASE n >= 2 /\ amount = fee - (F + S) /\ requests'[id].fee = 0
    <3> DEFINE d == L * (n - 2)
    <3>1. d \in Nat /\ L * Repeated(id)' = d /\ paid[id].sum <= F + S + d
      BY <1>8, <2>4, <2>6
    <3> HIDE DEF d
    <3>2. sum <= fee + d
      BY <1>3, <1>7, <2>6, <3>1
    <3>3. sum <= paid'[id].of + L * Repeated(id)'
      BY <1>7, <3>1, <3>2
    <3> QED
      BY <2>1, <2>6, <3>3 DEF Limited, Deliverable, L
  <2> QED
    BY <1>6, <2>2, <2>3, <2>5, <2>6
<1>10. ASSUME NEW other \in RequestIds, other # id PROVE Limited(other)'
  <2>1. Limited(other) /\ requestCnt' >= requestCnt
    BY <1>1 DEF LimitInv
  <2> QED
    BY <1>1, <1>2, <1>6, <1>7, <1>10, <2>1, LimitedSame
<1> QED
  BY <1>9, <1>10

\* No request is paid more than its fee and a last vote for each that an enclave
\* cast again.
LEMMA LimitedIsEnough ==
    ASSUME LimitInv, NEW id \in RequestIds
    PROVE  paid[id].sum <= paid[id].of + LAST_DELIVER_COST * Repeated(id)
<1> DEFINE n == Len(votes[id])
           F == FIRST_DELIVER_COST
           S == SECOND_DELIVER_COST
           L == LAST_DELIVER_COST
<1>1. /\ TypeOK /\ Open(id) /\ FeeNoted(id) /\ Limited(id)
  BY DEF LimitInv, PayInv, Inv, Slot
<1>2. /\ n \in Nat /\ paid[id].of \in Nat /\ paid[id].sum \in Nat
  BY <1>1 DEF TypeOK
<1>3. /\ F \in Nat /\ S \in Nat /\ L \in Nat /\ MIN_FEE = F + S + L
  BY CostsAreNat DEF MIN_FEE
<1>4. CASE ~Deliverable(id)
  BY <1>1, <1>4 DEF Limited
<1>5. CASE Deliverable(id)
  <2>1. paid[id].of >= F + S + L
    BY <1>1, <1>3, <1>5 DEF Open, FeeNoted
  <2>2. /\ n = 0 => paid[id].sum = 0
        /\ n = 1 => paid[id].sum <= F
        /\ n >= 2 => paid[id].sum <= F + S + L * (n - 2)
    BY <1>1, <1>5 DEF Limited
  <2> HIDE DEF F, S, L
  <2>3. CASE n <= 2
    <3>1. Repeated(id) = 0
      BY <1>2, <2>3 DEF Repeated
    <3>2. L * 0 = 0 /\ L * (2 - 2) = 0
      BY <1>3
    <3> HIDE DEF n
    <3>3. n = 0 \/ n = 1 \/ n = 2
      BY <1>2, <2>3
    <3>4. n = 2 => paid[id].sum <= F + S
      BY <1>3, <2>2, <3>2
    <3>5. paid[id].sum <= paid[id].of
      BY <1>2, <1>3, <2>1, <2>2, <3>3, <3>4
    <3>6. paid[id].sum <= paid[id].of + L * Repeated(id)
      BY <1>2, <3>1, <3>2, <3>5
    <3> QED
      BY <3>6 DEF L
  <2>4. CASE n >= 3
    <3>1. Repeated(id) = n - 3
      BY <1>2, <2>4 DEF Repeated
    <3> HIDE DEF n
    <3>2. L * (n - 2) = L * (n - 3) + L /\ L * (n - 3) \in Nat
      <4>1. n - 1 \in Nat /\ n - 1 >= 2 /\ (n - 1) + 1 = n /\ (n - 1) - 2 = n - 3
        BY <1>2, <2>4
      <4> QED
        BY <4>1, Further DEF L
    <3> DEFINE d == L * (n - 3)
    <3>3. paid[id].sum <= F + S + (d + L) /\ d \in Nat
      BY <1>2, <2>2, <2>4, <3>2
    <3> HIDE DEF d
    <3>4. paid[id].sum <= paid[id].of + d
      BY <1>2, <1>3, <2>1, <3>3
    <3> QED
      BY <3>1, <3>4 DEF L, d
  <2> QED
    BY <1>2, <2>3, <2>4
<1> QED
  BY <1>4, <1>5

\* Each vote is paid, from the fee of its own request and never more than that,
\* as long as no enclave votes twice; votes that are cast again take a last vote's
\* price each at most.  The number of requests, of refused ones and the prices
\* do not matter.
THEOREM VotesArePaid == Spec => []EachVotePaid
<1>1. Init => LimitInv
  <2> SUFFICES ASSUME Init PROVE LimitInv
    OBVIOUS
  <2>1. PayInv
    BY InitPayInv
  <2>2. ASSUME NEW id \in RequestIds PROVE Limited(id)
    <3>1. /\ ~Deliverable(id) /\ paid[id].sum = 0 /\ paid[id].of = 0
          /\ votes[id] = <<>>
      BY DEF Init, Deliverable
    <3>2. Len(<<>>) = 0
      OBVIOUS
    <3>3. Repeated(id) = 0 /\ LAST_DELIVER_COST * 0 = 0
      BY <3>1, <3>2, CostsAreNat DEF Repeated
    <3> QED
      BY <3>1, <3>3 DEF Limited
  <2> QED
    BY <2>1, <2>2 DEF LimitInv
<1>2. LimitInv /\ Inv' /\ [Next]_vars => LimitInv'
  <2> SUFFICES ASSUME LimitInv, Inv', [Next]_vars PROVE LimitInv'
    OBVIOUS
  <2>0. PayInv /\ Inv /\ requestCnt \in Nat
    BY DEF LimitInv, PayInv, Inv, TypeOK
  <2>1. ASSUME NEW value \in Values, RequestRefused(value) PROVE LimitInv'
    <3>1. /\ UNCHANGED <<requestCnt, requests, votes, paid>>
      BY <2>1 DEF RequestRefused
    <3>2. \A id \in RequestIds : Limited(id)'
      BY <2>0, <3>1, LimitedSame DEF LimitInv
    <3> QED
      BY <2>0, <2>1, <3>2, RefusedKeepsPayInv DEF LimitInv
  <2>2. ASSUME NEW value \in Values, RequestRecorded(value) PROVE LimitInv'
    BY <2>0, <2>2, RecordedKeepsPayInv, RecordedKeepsLimit DEF LimitInv
  <2>3. ASSUME NEW e \in Enclaves, NEW id \in RequestIds, NEW resp \in Responses,
               Deliver(e, id, resp)
        PROVE  LimitInv'
    <3>1. Voted(e, id, resp) /\ Deliverable(id) /\ UNCHANGED requestCnt
      BY <2>3 DEF Deliver
    <3>2. CASE DeliverFirst(id, resp) \/ DeliverSecond(id, resp)
      BY <2>0, <3>1, <3>2, EarlyVoteKeepsPayInv, VoteKeepsLimit DEF LimitInv
    <3>3. CASE DeliverLast(id, resp)
      BY <2>0, <3>1, <3>3, LastVoteKeepsPayInv, VoteKeepsLimit DEF LimitInv
    <3> QED
      BY <2>3, <3>2, <3>3 DEF Deliver
  <2>4. CASE UNCHANGED vars
    <3>1. Rest' = Rest /\ balance' = balance
      BY <2>4 DEF vars, Rest, Deliverable
    <3>2. Funded(Rest, balance) => Funded(Rest', balance')
      BY <3>1
    <3>3. AllOnce' => AllOnce
      BY <2>4 DEF vars, AllOnce, OnceEach
    <3>4. \A id \in RequestIds : /\ FeeNoted(id) => FeeNoted(id)'
                                 /\ VotesPaid(id) => VotesPaid(id)'
      BY <2>4 DEF vars, FeeNoted, VotesPaid, Deliverable, Due
    <3>5. Funded(Rest', balance') => Funded(Rest, balance)'
      BY DEF Funded, Wei
    <3>6. PayInv'
      BY <2>0, <3>2, <3>3, <3>4, <3>5 DEF PayInv
    <3>7. \A id \in RequestIds : Limited(id)'
      BY <2>0, <2>4, LimitedSame DEF vars, LimitInv
    <3> QED
      BY <3>6, <3>7 DEF LimitInv
  <2> QED
    BY <2>1, <2>2, <2>3, <2>4 DEF Next
<1>3. LimitInv => EachVotePaid
  <2> SUFFICES ASSUME LimitInv PROVE EachVotePaid
    OBVIOUS
  <2>1. \A id \in RequestIds :
            paid[id].sum <= paid[id].of + LAST_DELIVER_COST * Repeated(id)
    BY LimitedIsEnough
  <2> QED
    BY <2>1 DEF LimitInv, PayInv, EachVotePaid, AllOnce, VotesPaid
<1> QED
  BY <1>1, <1>2, <1>3, Invariance, PTL DEF Spec
=============================================================================
