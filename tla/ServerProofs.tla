---------------------------- MODULE ServerProofs ----------------------------
(***************************************************************************)
(* Proofs about the Town Crier server, for every number of threads of the  *)
(* enclave, of calls and of faults.                                        *)
(*                                                                         *)
(* All calls share one buffer, so what a reply carries depends on which    *)
(* calls ran at the same time.  The invariant says of the buffer what the  *)
(* properties say of the replies: while a call writes, and until it has    *)
(* replied, the buffer holds what it wrote itself or what a call wrote     *)
(* that runs, or ran, together with it.                                    *)
(***************************************************************************)
EXTENDS Server, FiniteSetTheorems, TLAPS

\* The keys and the address are loaded in the order of main, and calls are
\* there only while it serves.
Stages ==
    /\ main \in {"hybrid key", "address", "serving"} => enclave.sigKey
    /\ main \in {"address", "serving"} => enclave.hybridKey
    /\ main = "serving" => enclave.address
    /\ Running # {} => main = "serving"

\* Two calls that run know of each other.
Acquainted ==
    \A b, c \in Running : b # c => b \in calls[c].others

\* The calls whose writes a call may get to see.
Company(c) == {c} \cup calls[c].others

\* What the buffer holds for a call that has written to it.
BufferShared ==
    \A c \in Calls :
        /\ calls[c].pc = "writing" => buffer[1] \in Company(c)
        /\ calls[c].pc = "returned" =>
               /\ calls[c].result # "none"
               /\ calls[c].result = "ok" =>
                      buffer[1] \in Company(c) /\ buffer[2] \in Company(c)

\* The inductive invariant.
ServerInv ==
    /\ TypeOK
    /\ Stages
    /\ Acquainted
    /\ BufferShared
    /\ NoStaleTransaction
-----------------------------------------------------------------------------
USE ServerAssumption

\* What the types of single variables are.
LEMMA Types ==
    ASSUME TypeOK
    PROVE  /\ enclave \in Enclave
           /\ buffer \in (0..MaxCalls) \X (0..MaxCalls)
           /\ calls \in [Calls -> Call]
           /\ client \in 0..MaxCalls
           /\ faults \in 0..MaxFaults
BY DEF TypeOK

LEMMA FaultCounted ==
    ASSUME TypeOK, Fault
    PROVE  faults' \in 0..MaxFaults
BY Types DEF Fault

\* A call that gets to know another.
LEMMA CallLearns ==
    ASSUME NEW k \in Call, NEW c \in Calls
    PROVE  LET l == [k EXCEPT !.others = @ \cup {c}] IN
           /\ l \in Call
           /\ l.pc = k.pc /\ l.result = k.result
           /\ l.others = k.others \cup {c}
BY DEF Call

LEMMA CallBegins ==
    ASSUME NEW S \in SUBSET Calls
    PROVE  [NoCall EXCEPT !.pc = "accepted", !.others = S] \in Call
BY DEF Call, NoCall

\* Threads that only leave the enclave make room.
LEMMA FewerInside ==
    ASSUME TypeOK, Inside' \subseteq Inside
    PROVE  Cardinality(Inside') <= TCSNum
<1>1. IsFiniteSet(Calls)
  BY FS_Interval DEF Calls
<1>2. IsFiniteSet(Inside)
  BY <1>1, FS_Subset DEF Inside
<1>3. /\ Cardinality(Inside') <= Cardinality(Inside)
      /\ Cardinality(Inside) \in Nat
      /\ Cardinality(Inside') \in Nat
  BY <1>2, FS_Subset, FS_CardinalityType
<1>4. Cardinality(Inside) <= TCSNum
  BY DEF TypeOK
<1> QED
  BY <1>3, <1>4

\* A thread that enters where there is room fits in.
LEMMA OneMoreInside ==
    ASSUME TypeOK, NEW c \in Calls, Cardinality(Inside) < TCSNum,
           Inside' \subseteq Inside \cup {c}
    PROVE  Cardinality(Inside') <= TCSNum
<1>1. IsFiniteSet(Calls)
  BY FS_Interval DEF Calls
<1>2. IsFiniteSet(Inside) /\ Cardinality(Inside) \in Nat
  BY <1>1, FS_Subset, FS_CardinalityType DEF Inside
<1>3. /\ IsFiniteSet(Inside \cup {c})
      /\ Cardinality(Inside \cup {c}) <= Cardinality(Inside) + 1
      /\ Cardinality(Inside \cup {c}) \in Nat
  <2>1. /\ IsFiniteSet(Inside \cup {c})
        /\ Cardinality(Inside \cup {c}) = Cardinality(Inside)
               \/ Cardinality(Inside \cup {c}) = Cardinality(Inside) + 1
    BY <1>2, FS_AddElement
  <2> QED
    BY <1>2, <2>1
<1>4. /\ Cardinality(Inside') <= Cardinality(Inside \cup {c})
      /\ Cardinality(Inside') \in Nat
  BY <1>3, FS_Subset, FS_CardinalityType
<1> QED
  BY <1>2, <1>3, <1>4

LEMMA InitServerInv == Init => ServerInv
<1> SUFFICES ASSUME Init
             PROVE  ServerInv
  OBVIOUS
<1>1. \A c \in Calls : calls[c] = NoCall
  BY DEF Init
<1>2. Running = {} /\ Inside = {}
  BY <1>1 DEF Running, Inside, Entered, NoCall
<1>3. TypeOK
  <2>1. NoCall \in Call
    BY DEF NoCall, Call
  <2>2. Cardinality(Inside) = 0
    BY <1>2, FS_EmptySet
  <2>3. calls \in [Calls -> Call] /\ enclave \in Enclave
    BY <2>1 DEF Init, NewEnclave, Enclave
  <2> QED
    BY <2>2, <2>3 DEF Init, TypeOK
<1>4. Stages /\ Acquainted
  BY <1>2 DEF Init, Stages, Acquainted
<1>5. BufferShared /\ NoStaleTransaction
  BY <1>1 DEF BufferShared, NoStaleTransaction, NoCall
<1> QED
  BY <1>3, <1>4, <1>5 DEF ServerInv

\* The steps of main, which no call takes part in.
LEMMA MainServerInv ==
    ASSUME ServerInv,
           \/ Start \/ LoadSigKey \/ LoadHybridKey \/ InitEnclaveKvStore
           \/ StartFails
    PROVE  ServerInv'
<1>1. /\ main # "serving"
      /\ UNCHANGED <<calls, client>>
      /\ buffer' \in {buffer, <<0, 0>>}
      /\ faults' = faults \/ Fault
      /\ main' \in {"down", "signature key", "hybrid key", "address", "serving"}
  BY DEF Start, LoadSigKey, LoadHybridKey, InitEnclaveKvStore, StartFails
<1>2. Running = {} /\ Running' = {} /\ Inside' = Inside
  BY <1>1 DEF ServerInv, Stages, Running, Inside
<1>3. TypeOK'
  <2>1. Cardinality(Inside') <= TCSNum
    BY <1>2, FewerInside DEF ServerInv
  <2>2. enclave' \in Enclave
    <3>1. enclave \in Enclave
      BY Types DEF ServerInv
    <3>2. \/ enclave' = NewEnclave
          \/ enclave' = [enclave EXCEPT !.sigKey = TRUE]
          \/ enclave' = [enclave EXCEPT !.hybridKey = TRUE]
          \/ enclave' = [enclave EXCEPT !.address = TRUE]
          \/ enclave' = enclave
      BY DEF Start, LoadSigKey, LoadHybridKey, InitEnclaveKvStore, StartFails
    <3>3. /\ NewEnclave \in Enclave
          /\ [enclave EXCEPT !.sigKey = TRUE] \in Enclave
          /\ [enclave EXCEPT !.hybridKey = TRUE] \in Enclave
          /\ [enclave EXCEPT !.address = TRUE] \in Enclave
      BY <3>1 DEF Enclave, NewEnclave
    <3> QED
      BY <3>1, <3>2, <3>3
  <2>3. buffer' \in (0..MaxCalls) \X (0..MaxCalls)
    <3>1. buffer \in (0..MaxCalls) \X (0..MaxCalls)
      BY Types DEF ServerInv
    <3>2. <<0, 0>> \in (0..MaxCalls) \X (0..MaxCalls)
      OBVIOUS
    <3> QED
      BY <3>1, <3>2, <1>1, Zenon
  <2>4. faults' \in 0..MaxFaults
    BY <1>1, Types, FaultCounted DEF ServerInv
  <2> QED
    BY <2>1, <2>2, <2>3, <2>4, <1>1 DEF ServerInv, TypeOK
<1>4. Stages'
  <2>1. enclave \in Enclave /\ Stages
    BY DEF ServerInv, TypeOK
  <2> QED
    BY <1>2, <2>1 DEF Stages, Enclave, Start, LoadSigKey, LoadHybridKey,
       InitEnclaveKvStore, StartFails
<1>5. Acquainted'
  BY <1>2 DEF Acquainted
<1>6. BufferShared'
  <2>1. \A c \in Calls : calls[c].pc \notin {"writing", "returned"}
    BY <1>2 DEF Running, Entered
  <2> QED
    BY <2>1, <1>1 DEF BufferShared
<1>7. NoStaleTransaction'
  BY <1>1 DEF ServerInv, NoStaleTransaction
<1> QED
  BY <1>3, <1>4, <1>5, <1>6, <1>7 DEF ServerInv

\* Calls die with the process.
LEMMA CrashServerInv ==
    ASSUME ServerInv, Crash
    PROVE  ServerInv'
<1>1. /\ calls \in [Calls -> Call]
      /\ \A c \in Calls : calls'[c] = IF c \in Running
                                      THEN [calls[c] EXCEPT !.pc = "dead"]
                                      ELSE calls[c]
  BY DEF ServerInv, TypeOK, Crash
<1>2. \A c \in Calls : calls'[c].pc = IF c \in Running THEN "dead" ELSE calls[c].pc
  BY <1>1 DEF Call
<1>3. Running' = {} /\ Inside' = {}
  BY <1>2 DEF Running, Inside, Entered
<1>4. TypeOK'
  <2>1. calls' \in [Calls -> Call]
    BY <1>1 DEF Crash, Call
  <2>2. Cardinality(Inside') <= TCSNum
    BY <1>3, FewerInside DEF ServerInv
  <2> QED
    BY <2>1, <2>2 DEF ServerInv, TypeOK, Crash, Fault
<1>5. Stages' /\ Acquainted'
  BY <1>3 DEF Crash, Stages, Acquainted
<1>6. BufferShared'
  BY <1>2 DEF BufferShared, Running, Entered
<1>7. NoStaleTransaction'
  BY <1>1, <1>2 DEF ServerInv, NoStaleTransaction
<1> QED
  BY <1>4, <1>5, <1>6, <1>7 DEF ServerInv

\* A new call gets to know the calls that run, and they it.
LEMMA RequestServerInv ==
    ASSUME ServerInv, NEW c \in Calls, Request(c)
    PROVE  ServerInv'
<1>1. /\ calls \in [Calls -> Call] /\ Running \subseteq Calls
      /\ c \notin Running
      /\ \A b \in Calls : calls[b] \in Call
  BY DEF ServerInv, TypeOK, Request, Running, Entered
<1>2. /\ calls'[c] = [NoCall EXCEPT !.pc = "accepted", !.others = Running]
      /\ \A b \in Running : calls'[b] = [calls[b] EXCEPT !.others = @ \cup {c}]
      /\ \A b \in Calls : b # c /\ b \notin Running => calls'[b] = calls[b]
  BY <1>1 DEF Request
<1>3. /\ calls'[c].pc = "accepted" /\ calls'[c].others = Running
      /\ \A b \in Running : /\ calls'[b].pc = calls[b].pc
                            /\ calls'[b].result = calls[b].result
                            /\ calls'[b].others = calls[b].others \cup {c}
      /\ \A b \in Calls : b # c => calls'[b].pc = calls[b].pc
  <2>1. calls'[c].pc = "accepted" /\ calls'[c].others = Running
    BY <1>2 DEF NoCall
  <2>2. ASSUME NEW b \in Running
        PROVE  /\ calls'[b].pc = calls[b].pc
               /\ calls'[b].result = calls[b].result
               /\ calls'[b].others = calls[b].others \cup {c}
    <3>1. calls[b] \in Call
      BY <1>1
    <3>2. calls'[b] = [calls[b] EXCEPT !.others = @ \cup {c}]
      BY <1>2
    <3> QED
      BY <3>1, <3>2, CallLearns
  <2>3. \A b \in Calls : b # c => calls'[b].pc = calls[b].pc
    BY <2>2, <1>2
  <2> QED
    BY <2>1, <2>2, <2>3
<1>4. Running' = Running \cup {c} /\ Inside' = Inside
  <2>1. calls[c].pc = "none"
    BY DEF Request
  <2>2. \A b \in Calls : b \in Running' <=> b \in Running \/ b = c
    BY <1>3 DEF Running, Entered
  <2>3. \A b \in Calls : b \in Inside' <=> b \in Inside
    BY <2>1, <1>3 DEF Inside, Entered
  <2> QED
    BY <2>2, <2>3, <1>1 DEF Running, Inside
<1>5. TypeOK'
  <2>1. calls' \in [Calls -> Call]
    <3>1. ASSUME NEW b \in Calls
          PROVE  calls'[b] \in Call
      <4>1. CASE b = c
        <5>1. Running \in SUBSET Calls
          BY <1>1
        <5>2. calls'[b] = [NoCall EXCEPT !.pc = "accepted", !.others = Running]
          BY <4>1, <1>2
        <5> QED
          BY <5>1, <5>2, CallBegins, Zenon
      <4>2. CASE b \in Running
        <5>1. calls[b] \in Call
          BY <1>1
        <5>2. calls'[b] = [calls[b] EXCEPT !.others = @ \cup {c}]
          BY <4>2, <1>2
        <5> QED
          BY <5>1, <5>2, CallLearns
      <4> QED
        BY <4>1, <4>2, <1>1, <1>2
    <3> QED
      BY <3>1 DEF Request
  <2>2. Cardinality(Inside') <= TCSNum
    BY <1>4, FewerInside DEF ServerInv
  <2>3. client' \in 0..MaxCalls
    BY DEF Request, Calls
  <2> QED
    BY <2>1, <2>2, <2>3 DEF ServerInv, TypeOK, Request
<1>6. Stages'
  BY DEF ServerInv, Stages, Request
<1>7. Acquainted'
  BY <1>1, <1>3, <1>4 DEF ServerInv, Acquainted
<1>8. BufferShared'
  <2>1. buffer' = buffer
    BY DEF Request
  <2>2. ASSUME NEW b \in Calls, calls'[b].pc \in {"writing", "returned"}
        PROVE  /\ b \in Running /\ calls'[b].pc = calls[b].pc
               /\ calls'[b].result = calls[b].result
               /\ Company(b) \subseteq Company(b)'
    <3>1. b # c
      BY <2>2, <1>3
    <3>2. b \in Running
      BY <2>2, <3>1, <1>3 DEF Running, Entered
    <3> QED
      BY <3>2, <1>3 DEF Company
  <2> QED
    BY <2>1, <2>2 DEF ServerInv, BufferShared
<1>9. NoStaleTransaction'
  <2>1. \A b \in Calls : calls'[b].pc = "done" => calls'[b] = calls[b]
    BY <1>2, <1>3 DEF Running, Entered
  <2> QED
    BY <2>1 DEF ServerInv, NoStaleTransaction
<1> QED
  BY <1>5, <1>6, <1>7, <1>8, <1>9 DEF ServerInv

\* The relay goes away.
LEMMA AbandonServerInv ==
    ASSUME ServerInv, Abandon
    PROVE  ServerInv'
<1>1. Running' = Running /\ Inside' = Inside
  BY DEF Abandon, Running, Inside
<1>2. TypeOK'
  <2>1. Cardinality(Inside') <= TCSNum
    BY <1>1, FewerInside DEF ServerInv
  <2>2. faults' \in 0..MaxFaults /\ client' \in 0..MaxCalls
    BY Types, FaultCounted DEF ServerInv, Abandon
  <2> QED
    BY <2>1, <2>2 DEF ServerInv, TypeOK, Abandon
<1> QED
  BY <1>1, <1>2 DEF ServerInv, Stages, Acquainted, BufferShared, Company,
     NoStaleTransaction, Abandon
-----------------------------------------------------------------------------
\* A call goes on, to pc with a result: what the other calls know does not
\* change.
LEMMA Moves ==
    ASSUME TypeOK, NEW c \in Calls, NEW pc, NEW result,
           calls' = [calls EXCEPT ![c].pc = pc, ![c].result = result]
    PROVE  /\ calls'[c].pc = pc /\ calls'[c].result = result
           /\ \A b \in Calls : /\ b # c => calls'[b] = calls[b]
                               /\ calls'[b].others = calls[b].others
                               /\ calls'[b].tx = calls[b].tx
                               /\ calls'[b].error_code = calls[b].error_code
<1>1. calls \in [Calls -> Call] /\ calls[c] \in Call
  BY DEF TypeOK
<1> QED
  BY <1>1 DEF Call

\* It goes on where there is room, and writes to the buffer, if at all, what
\* it has written until then.
GoesOn(c, pc, result) ==
    /\ calls' = [calls EXCEPT ![c].pc = pc, ![c].result = result]
    /\ UNCHANGED <<main, client, enclave>>
    /\ faults' \in 0..MaxFaults
    /\ buffer' \in (0..MaxCalls) \X (0..MaxCalls)
    /\ buffer'[1] \in {buffer[1], c}
    /\ buffer'[2] \in {buffer[2], c}
    /\ pc \in Entered => calls[c].pc \in Entered \/ Cardinality(Inside) < TCSNum
    /\ pc = "writing" => buffer'[1] \in Company(c)
    /\ pc = "returned" =>
           /\ result # "none"
           /\ result = "ok" =>
                  buffer'[1] \in Company(c) /\ buffer'[2] \in Company(c)

\* The other calls keep what they have: the buffer stays, or is written by a
\* call that runs while they do.
LEMMA MoveServerInv ==
    ASSUME ServerInv, NEW c \in Running,
           NEW pc \in Entered \cup {"returned"},
           NEW result \in {"none", "failed", "error", "ok"},
           GoesOn(c, pc, result)
    PROVE  ServerInv'
<1> USE DEF GoesOn
<1>1. c \in Calls /\ calls \in [Calls -> Call] /\ calls[c] \in Call
  BY DEF ServerInv, TypeOK, Running
<1>2. /\ calls'[c].pc = pc /\ calls'[c].result = result
      /\ \A b \in Calls : /\ b # c => calls'[b] = calls[b]
                          /\ calls'[b].others = calls[b].others
                          /\ calls'[b].tx = calls[b].tx
                          /\ calls'[b].error_code = calls[b].error_code
  BY <1>1, Moves DEF ServerInv
<1>3. Running' = Running
  BY <1>1, <1>2 DEF Running, Entered
<1>4. /\ Inside' \subseteq Inside \cup {c}
      /\ Inside' \subseteq Inside \/ Cardinality(Inside) < TCSNum
  BY <1>1, <1>2 DEF Inside, Entered
<1>5. TypeOK'
  <2>1. calls' \in [Calls -> Call]
    BY <1>1 DEF Call, Entered
  <2>2. Cardinality(Inside') <= TCSNum
    BY <1>1, <1>4, FewerInside, OneMoreInside DEF ServerInv
  <2> QED
    BY <2>1, <2>2 DEF ServerInv, TypeOK
<1>6. Stages'
  BY <1>3 DEF ServerInv, Stages
<1>7. Acquainted'
  BY <1>2, <1>3 DEF ServerInv, Acquainted, Running
<1>8. BufferShared'
  <2> SUFFICES ASSUME NEW b \in Calls
               PROVE  /\ calls'[b].pc = "writing" => buffer'[1] \in Company(b)
                      /\ calls'[b].pc = "returned" =>
                             /\ calls'[b].result # "none"
                             /\ calls'[b].result = "ok" =>
                                    /\ buffer'[1] \in Company(b)
                                    /\ buffer'[2] \in Company(b)
    BY <1>2 DEF BufferShared, Company
  <2>1. CASE b = c
    BY <2>1, <1>2
  <2>2. CASE b # c
    <3>1. calls'[b] = calls[b]
      BY <2>2, <1>2
    <3>2. CASE calls[b].pc \in {"writing", "returned"}
      <4>1. c \in Company(b)
        BY <2>2, <3>2 DEF ServerInv, Acquainted, Running, Entered, Company
      <4> QED
        BY <3>1, <4>1 DEF ServerInv, BufferShared
    <3> QED
      BY <3>1, <3>2
  <2> QED
    BY <2>1, <2>2
<1>9. NoStaleTransaction'
  <2>1. \A b \in Calls : calls'[b].pc = "done" => b # c
    BY <1>2 DEF Entered
  <2> QED
    BY <2>1, <1>2 DEF ServerInv, NoStaleTransaction
<1> QED
  BY <1>5, <1>6, <1>7, <1>8, <1>9 DEF ServerInv

\* The steps of a call before its reply.
LEMMA ProcessServerInv ==
    ASSUME ServerInv, NEW c \in Calls,
           \/ Enter(c) \/ EcallFails(c) \/ InternalError(c) \/ Stall(c)
           \/ Write(c) \/ WriteRest(c)
    PROVE  ServerInv'
<1>1. /\ TypeOK /\ enclave \in Enclave
      /\ buffer \in (0..MaxCalls) \X (0..MaxCalls)
      /\ calls \in [Calls -> Call] /\ calls[c] \in Call
      /\ faults \in 0..MaxFaults
      /\ c \in Running => c \in 0..MaxCalls
  BY Types DEF ServerInv, Calls
<1>2. calls[c].result \in {"none", "failed", "error", "ok"}
  BY <1>1 DEF Call
<1>3. UNCHANGED <<main, client, enclave>>
  BY DEF Enter, EcallFails, InternalError, Stall, Write, WriteRest, Step,
     Return
<1>4. ASSUME NEW pc, calls' = [calls EXCEPT ![c].pc = pc]
      PROVE  calls' = [calls EXCEPT ![c].pc = pc, ![c].result = calls[c].result]
  BY <1>1, <1>4 DEF Call
<1>5. CASE Enter(c)
  <2>1. /\ calls' = [calls EXCEPT ![c].pc = "inside"]
        /\ c \in Running /\ buffer' = buffer /\ faults' = faults
        /\ Cardinality(Inside) < TCSNum
    BY <1>5 DEF Enter, Step, Running
  <2>2. calls' = [calls EXCEPT ![c].pc = "inside", ![c].result = calls[c].result]
    BY <2>1, <1>4
  <2>8. "inside" \in Entered \cup {"returned"}
    BY DEF Entered
  <2>9. GoesOn(c, "inside", calls[c].result)
    BY <2>1, <2>2, <1>1, <1>2, <1>3 DEF GoesOn, Entered
  <2> QED
    BY <2>1, <2>8, <2>9, <1>2, MoveServerInv
<1>6. CASE EcallFails(c) \/ InternalError(c)
  <2>1. PICK result \in {"failed", "error"} :
            calls' = [calls EXCEPT ![c].pc = "returned", ![c].result = result]
    BY <1>6 DEF EcallFails, InternalError, Return
  <2>2. c \in Running /\ buffer' = buffer /\ faults' = faults
    BY <1>6 DEF EcallFails, InternalError, Return, Running, Entered
  <2>8. "returned" \in Entered \cup {"returned"}
    BY DEF Entered
  <2>9. GoesOn(c, "returned", result)
    BY <2>1, <2>2, <1>1, <1>2, <1>3 DEF GoesOn, Entered
  <2> QED
    BY <2>2, <2>8, <2>9, <1>2, MoveServerInv
<1>7. CASE Stall(c)
  <2>1. /\ calls' = [calls EXCEPT ![c].pc = "stalled"]
        /\ c \in Running /\ calls[c].pc \in Entered /\ buffer' = buffer
        /\ faults' \in 0..MaxFaults
    BY <1>1, <1>7, FaultCounted DEF Stall, Step, Running, Entered
  <2>2. calls' = [calls EXCEPT ![c].pc = "stalled", ![c].result = calls[c].result]
    BY <2>1, <1>4
  <2>8. "stalled" \in Entered \cup {"returned"}
    BY DEF Entered
  <2>9. GoesOn(c, "stalled", calls[c].result)
    BY <2>1, <2>2, <1>1, <1>2, <1>3 DEF GoesOn, Entered
  <2> QED
    BY <2>1, <2>8, <2>9, <1>2, MoveServerInv
<1>8. CASE Write(c)
  <2>1. /\ calls' = [calls EXCEPT ![c].pc = "writing"]
        /\ c \in Running /\ calls[c].pc \in Entered /\ faults' = faults
        /\ buffer' = [buffer EXCEPT ![1] = c]
    BY <1>8 DEF Write, Step, Running, Entered
  <2>2. /\ buffer' \in (0..MaxCalls) \X (0..MaxCalls)
        /\ buffer'[1] = c /\ buffer'[2] = buffer[2]
    BY <2>1, <1>1
  <2>3. calls' = [calls EXCEPT ![c].pc = "writing", ![c].result = calls[c].result]
    BY <2>1, <1>4
  <2>4. c \in Company(c)
    BY DEF Company
  <2>8. "writing" \in Entered \cup {"returned"}
    BY DEF Entered
  <2>9. GoesOn(c, "writing", calls[c].result)
    BY <2>1, <2>2, <2>3, <2>4, <1>1, <1>2, <1>3 DEF GoesOn, Entered
  <2> QED
    BY <2>1, <2>8, <2>9, <1>2, MoveServerInv
<1>9. CASE WriteRest(c)
  <2>1. /\ calls' = [calls EXCEPT ![c].pc = "returned", ![c].result = "ok"]
        /\ c \in Running /\ calls[c].pc = "writing" /\ faults' = faults
        /\ buffer' = [buffer EXCEPT ![2] = c]
    BY <1>9 DEF WriteRest, Return, Running, Entered
  <2>2. /\ buffer' \in (0..MaxCalls) \X (0..MaxCalls)
        /\ buffer'[1] = buffer[1] /\ buffer'[2] = c
    BY <2>1, <1>1
  <2>3. buffer[1] \in Company(c) /\ c \in Company(c)
    BY <2>1 DEF ServerInv, BufferShared, Company
  <2>8. "returned" \in Entered \cup {"returned"}
    BY DEF Entered
  <2>9. GoesOn(c, "returned", "ok")
    BY <2>1, <2>2, <2>3, <1>1, <1>2, <1>3 DEF GoesOn, Entered
  <2> QED
    BY <2>1, <2>8, <2>9, <1>2, MoveServerInv
<1> QED
  BY <1>5, <1>6, <1>7, <1>8, <1>9

\* The enclave is lost under the calls in it.
LEMMA LoseServerInv ==
    ASSUME ServerInv, LoseEnclave
    PROVE  ServerInv'
<1>1. /\ calls \in [Calls -> Call] /\ enclave \in Enclave
      /\ \A c \in Calls :
             /\ c \in Inside => calls'[c] = [calls[c] EXCEPT !.pc = "returned",
                                                             !.result = "failed"]
             /\ c \notin Inside => calls'[c] = calls[c]
  BY Types DEF ServerInv, LoseEnclave
<1>2. ASSUME NEW c \in Calls
      PROVE  /\ calls'[c].others = calls[c].others
             /\ c \in Inside => /\ calls'[c].pc = "returned"
                               /\ calls'[c].result = "failed"
  <2>1. calls[c] \in Call
    BY <1>1
  <2> QED
    BY <2>1, <1>1 DEF Call
<1>3. Running' = Running /\ Inside' = {}
  BY <1>1, <1>2 DEF Running, Inside, Entered
<1>4. TypeOK'
  <2>1. calls' \in [Calls -> Call]
    <3>1. ASSUME NEW c \in Calls
          PROVE  calls'[c] \in Call
      BY <1>1 DEF Call
    <3> QED
      BY <3>1 DEF LoseEnclave
  <2>2. Cardinality(Inside') <= TCSNum
    BY <1>3, FewerInside DEF ServerInv
  <2>3. enclave' \in Enclave
    BY <1>1 DEF LoseEnclave, Enclave
  <2>4. faults' \in 0..MaxFaults
    BY FaultCounted DEF ServerInv, LoseEnclave
  <2> QED
    BY <2>1, <2>2, <2>3, <2>4 DEF ServerInv, TypeOK, LoseEnclave
<1>5. Stages'
  BY <1>1, <1>3 DEF ServerInv, Stages, LoseEnclave, Enclave
<1>6. Acquainted'
  BY <1>2, <1>3 DEF ServerInv, Acquainted, Running
<1>7. BufferShared'
  <2>1. \A c \in Calls : calls'[c].pc = "writing" => c \notin Inside
    BY <1>2
  <2>2. buffer' = buffer /\ \A c \in Calls : Company(c)' = Company(c)
    BY <1>2 DEF LoseEnclave, Company
  <2> QED
    BY <2>1, <2>2, <1>1, <1>2 DEF ServerInv, BufferShared
<1>8. NoStaleTransaction'
  <2>1. \A c \in Calls : calls'[c].pc = "done" => calls'[c] = calls[c]
    BY <1>1, <1>2
  <2> QED
    BY <2>1 DEF ServerInv, NoStaleTransaction
<1> QED
  BY <1>4, <1>5, <1>6, <1>7, <1>8 DEF ServerInv

\* A reply carries what the buffer holds.
LEMMA ReplyServerInv ==
    ASSUME ServerInv, NEW c \in Calls, Reply(c)
    PROVE  ServerInv'
<1> DEFINE answer == Answer(calls[c].result)
<1>1. /\ calls \in [Calls -> Call] /\ calls[c] \in Call
      /\ buffer \in (0..MaxCalls) \X (0..MaxCalls)
      /\ client \in 0..MaxCalls
      /\ calls[c].pc = "returned"
      /\ calls[c].result \in {"failed", "error", "ok"}
  <2>1. calls[c].pc = "returned" /\ calls[c].result # "none"
    BY DEF ServerInv, BufferShared, Reply
  <2> QED
    BY <2>1, Types DEF ServerInv, Call
<1>2. /\ answer.error_code \in {0, 3}
      /\ answer.tx = IF calls[c].result = "ok" THEN buffer ELSE NoTx
  BY <1>1 DEF Answer
<1>3. calls' = [calls EXCEPT ![c].pc = "done",
                             ![c].error_code = answer.error_code,
                             ![c].tx = answer.tx]
  BY DEF Reply
<1> HIDE DEF answer
<1>4. /\ calls'[c].pc = "done" /\ calls'[c].tx = answer.tx
      /\ calls'[c].result = calls[c].result
      /\ \A b \in Calls : b # c => calls'[b] = calls[b]
      /\ \A b \in Calls : calls'[b].others = calls[b].others
  BY <1>1, <1>3 DEF Call
<1>5. Running' \subseteq Running /\ Inside' = Inside
  BY <1>1, <1>4 DEF Running, Inside, Entered
<1>6. TypeOK'
  <2>1. calls' \in [Calls -> Call]
    BY <1>1, <1>2, <1>3 DEF Call
  <2>2. Cardinality(Inside') <= TCSNum
    BY <1>5, FewerInside DEF ServerInv
  <2>3. client' \in 0..MaxCalls
    BY <1>1 DEF Reply
  <2> QED
    BY <2>1, <2>2, <2>3 DEF ServerInv, TypeOK, Reply
<1>7. Stages'
  BY <1>5 DEF ServerInv, Stages, Reply
<1>8. Acquainted'
  BY <1>4, <1>5 DEF ServerInv, Acquainted, Running
<1>9. BufferShared'
  <2>1. \A b \in Calls : calls'[b].pc \in {"writing", "returned"} => b # c
    BY <1>4
  <2>2. buffer' = buffer /\ \A b \in Calls : Company(b)' = Company(b)
    BY <1>4 DEF Reply, Company
  <2> QED
    BY <2>1, <2>2, <1>4 DEF ServerInv, BufferShared
<1>10. NoStaleTransaction'
  <2> SUFFICES ASSUME NEW b \in Calls, calls'[b].pc = "done"
               PROVE  IF calls'[b].result = "ok"
                      THEN calls'[b].tx \in ({b} \cup calls'[b].others)
                                            \X ({b} \cup calls'[b].others)
                      ELSE calls'[b].tx = NoTx
    BY DEF NoStaleTransaction
  <2>1. CASE b = c
    <3>1. calls[c].result = "ok" =>
              buffer[1] \in Company(c) /\ buffer[2] \in Company(c)
      BY <1>1 DEF ServerInv, BufferShared
    <3>2. calls[c].result = "ok" => buffer \in Company(c) \X Company(c)
      BY <3>1, <1>1
    <3> QED
      BY <2>1, <3>2, <1>2, <1>4 DEF Company
  <2>2. CASE b # c
    BY <2>2, <1>4 DEF ServerInv, NoStaleTransaction
  <2> QED
    BY <2>1, <2>2
<1> QED
  BY <1>6, <1>7, <1>8, <1>9, <1>10 DEF ServerInv

LEMMA NextServerInv == ServerInv /\ [Next]_vars => ServerInv'
<1> SUFFICES ASSUME ServerInv, [Next]_vars
             PROVE  ServerInv'
  OBVIOUS
<1>1. CASE UNCHANGED vars
  <2>1. Running' = Running /\ Inside' = Inside
    BY <1>1 DEF vars, Running, Inside
  <2>2. TypeOK'
    BY <1>1, <2>1 DEF vars, ServerInv, TypeOK
  <2> QED
    BY <1>1, <2>1, <2>2 DEF vars, ServerInv, Stages, Acquainted,
       BufferShared, Company, NoStaleTransaction
<1> QED
  BY <1>1, MainServerInv, CrashServerInv, LoseServerInv, AbandonServerInv,
     RequestServerInv, ProcessServerInv, ReplyServerInv DEF Next, Process
-----------------------------------------------------------------------------
\* No assumption on the scheduling of the threads is used.
THEOREM ServerInvariance == Spec => []ServerInv
BY InitServerInv, NextServerInv, PTL DEF Spec

\* A thread of the enclave finds the keys and the address of the contract,
\* which handle_request and form_transaction use without a check, however
\* the process is started, killed and started again; and there are never
\* more threads in the enclave than its configuration has room for.
THEOREM ProvisionedBeforeUse == Spec => []ProvisionedInside
<1>1. ServerInv => ProvisionedInside
  BY DEF ServerInv, ProvisionedInside, Stages, Running, Inside
<1> QED
  BY <1>1, ServerInvariance, PTL

\* What process copies out of the shared buffer was written by its own call
\* or by one that ran at the same time, never by one that was over before.
THEOREM RepliesNotStale == Spec => []NoStaleTransaction
<1>1. ServerInv => NoStaleTransaction
  BY DEF ServerInv
<1> QED
  BY <1>1, ServerInvariance, PTL
=============================================================================
