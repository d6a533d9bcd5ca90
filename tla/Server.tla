------------------------------- MODULE Server -------------------------------
(***************************************************************************)
(* The Town Crier server: the start-up of src/App/tc.cpp, which loads the  *)
(* keys into the enclave before it serves, and the RPC process of          *)
(* src/App/rpc.cpp, which runs the enclave on each request.                *)
(*                                                                         *)
(* gRPC runs each call in a thread of its own; all calls share the object  *)
(* RpcServer with one buffer, into which the enclave writes (the EDL says  *)
(* user_check) and from which process copies the transaction.  The relay   *)
(* makes one call at a time.  When it is killed or restarted, however, its *)
(* last call goes on in the server while it makes the next one.            *)
(*                                                                         *)
(* What the enclave computes is abstracted to the call it is for.          *)
(***************************************************************************)
EXTENDS Integers, FiniteSets

CONSTANTS
    TCSNum,        \* threads the enclave has room for
    MaxCalls,      \* bound: calls of process
    MaxFaults      \* bound: crashes, failures, restarts of the relay

ASSUME ServerAssumption ==
    /\ TCSNum \in Nat \ {0}
    /\ MaxCalls \in Nat
    /\ MaxFaults \in Nat

VARIABLES
    main,          \* how far main is
    enclave,       \* the globals of the enclave, and whether it is lost
    buffer,        \* resp_buffer: the call that wrote its first, second half
    calls,         \* the calls of process
    client,        \* the call that the relay waits for, or 0
    faults         \* bound: faults so far

vars == <<main, enclave, buffer, calls, client, faults>>

Calls == 1..MaxCalls

Enclave == [sigKey: BOOLEAN, hybridKey: BOOLEAN, address: BOOLEAN,
            lost: BOOLEAN]
NewEnclave == [sigKey |-> FALSE, hybridKey |-> FALSE, address |-> FALSE,
               lost |-> FALSE]

\* `result`: whether the ecall failed, returned an error, or wrote a
\* transaction.  `tx`: the transaction in the reply, given as the calls that
\* wrote its halves, or NoTx.  `others`: the calls that ran meanwhile (history).
NoTx == <<>>
Call == [pc: {"none", "accepted", "inside", "stalled", "writing", "returned",
              "done", "dead"},
         result: {"none", "failed", "error", "ok"},
         error_code: {0, 3},
         tx: {NoTx} \cup ((0..MaxCalls) \X (0..MaxCalls)),
         others: SUBSET Calls]
NoCall == [pc |-> "none", result |-> "none", error_code |-> 0, tx |-> NoTx,
           others |-> {}]

Entered == {"inside", "stalled", "writing"}
Running == {c \in Calls : calls[c].pc \in Entered \cup {"accepted", "returned"}}
Inside == {c \in Calls : calls[c].pc \in Entered}

Init ==
    /\ main = "down"
    /\ enclave = NewEnclave
    /\ buffer = <<0, 0>>
    /\ calls = [c \in Calls |-> NoCall]
    /\ client = 0
    /\ faults = 0

Fault == faults < MaxFaults /\ faults' = faults + 1
-----------------------------------------------------------------------------
(* main.                                                                   *)

\* A new process with a new enclave.
Start ==
    /\ main = "down"
    /\ main' = "signature key"
    /\ enclave' = NewEnclave
    /\ buffer' = <<0, 0>>
    /\ UNCHANGED <<calls, client, faults>>

\* Mutant of LoadSigKey: a key that cannot be unsealed is passed over.
LoadSigKeyUnchecked ==
    /\ main = "signature key"
    /\ main' = "hybrid key"
    /\ \E ok \in BOOLEAN : enclave' = [enclave EXCEPT !.sigKey = ok]
    /\ UNCHANGED <<buffer, calls, client, faults>>

\* unseal_key and provision_key; what fails is StartFails.
LoadSigKey ==
    /\ main = "signature key"
    /\ main' = "hybrid key"
    /\ enclave' = [enclave EXCEPT !.sigKey = TRUE]
    /\ UNCHANGED <<buffer, calls, client, faults>>

LoadHybridKey ==
    /\ main = "hybrid key"
    /\ main' = "address"
    /\ enclave' = [enclave EXCEPT !.hybridKey = TRUE]
    /\ UNCHANGED <<buffer, calls, client, faults>>

\* init_enclave_kv_store; then the RPC server starts.
InitEnclaveKvStore ==
    /\ main = "address"
    /\ main' = "serving"
    /\ enclave' = [enclave EXCEPT !.address = TRUE]
    /\ UNCHANGED <<buffer, calls, client, faults>>

\* A key does not unseal, or an ecall fails: main exits.
StartFails ==
    /\ main \in {"signature key", "hybrid key", "address"}
    /\ Fault
    /\ main' = "down"
    /\ UNCHANGED <<enclave, buffer, calls, client>>

\* The process dies, and with it its calls.
Crash ==
    /\ main = "serving"
    /\ Fault
    /\ main' = "down"
    /\ calls' = [c \in Calls |-> IF c \in Running
                                 THEN [calls[c] EXCEPT !.pc = "dead"]
                                 ELSE calls[c]]
    /\ client' = 0
    /\ UNCHANGED <<enclave, buffer>>
-----------------------------------------------------------------------------
(* The relay.                                                              *)

\* stub.process, while calls that were abandoned may still run.
Request(c) ==
    /\ main = "serving"
    /\ client = 0
    /\ calls[c].pc = "none" /\ \A b \in 1..(c - 1) : calls[b].pc # "none"
    /\ client' = c
    /\ calls' = [b \in Calls |->
           CASE b = c          -> [NoCall EXCEPT !.pc = "accepted",
                                                 !.others = Running]
             [] b \in Running  -> [calls[b] EXCEPT !.others = @ \cup {c}]
             [] OTHER          -> calls[b]]
    /\ UNCHANGED <<main, enclave, buffer, faults>>

\* The relay is killed, or started anew, while it waits.
Abandon ==
    /\ client # 0
    /\ Fault
    /\ client' = 0
    /\ UNCHANGED <<main, enclave, buffer, calls>>
-----------------------------------------------------------------------------
(* process and handle_request.                                             *)

Step(c, from, to) ==
    /\ calls[c].pc = from
    /\ calls' = [calls EXCEPT ![c].pc = to]
    /\ UNCHANGED <<main, enclave, client>>

Return(c, from, result) ==
    /\ calls[c].pc = from
    /\ calls' = [calls EXCEPT ![c].pc = "returned", ![c].result = result]
    /\ UNCHANGED <<main, enclave, client>>

\* The ecall gets one of the thread control structures.
Enter(c) ==
    /\ ~enclave.lost /\ Cardinality(Inside) < TCSNum
    /\ Step(c, "accepted", "inside")
    /\ UNCHANGED <<buffer, faults>>

\* Mutant of EcallFails: a call waits for a free thread.
EcallWaits(c) ==
    /\ enclave.lost
    /\ Return(c, "accepted", "failed")
    /\ UNCHANGED <<buffer, faults>>

\* There is none, or no enclave: the ecall itself fails.
EcallFails(c) ==
    /\ enclave.lost \/ Cardinality(Inside) >= TCSNum
    /\ Return(c, "accepted", "failed")
    /\ UNCHANGED <<buffer, faults>>

\* handle_request caught an exception, or form_transaction failed.
InternalError(c) ==
    /\ Return(c, "inside", "error")
    /\ UNCHANGED <<buffer, faults>>

\* The web site neither answers nor closes the connection.
Stall(c) ==
    /\ Fault
    /\ Step(c, "inside", "stalled")
    /\ UNCHANGED buffer

\* form_transaction signs, and copies the transaction to the buffer.
Write(c) ==
    /\ enclave.sigKey /\ enclave.address
    /\ Step(c, "inside", "writing")
    /\ buffer' = [buffer EXCEPT ![1] = c]
    /\ UNCHANGED faults

WriteRest(c) ==
    /\ Return(c, "writing", "ok")
    /\ buffer' = [buffer EXCEPT ![2] = c]
    /\ UNCHANGED faults

\* A power transition or a fault in the enclave.  The process goes on.
LoseEnclave ==
    /\ main = "serving" /\ ~enclave.lost
    /\ Fault
    /\ enclave' = [enclave EXCEPT !.lost = TRUE]
    /\ calls' = [c \in Calls |->
           IF c \in Inside
           THEN [calls[c] EXCEPT !.pc = "returned", !.result = "failed"]
           ELSE calls[c]]
    /\ UNCHANGED <<main, buffer, client>>

\* Mutant of Answer: the value that the ecall returned is not looked at.
AnswerUnchecked(result) ==
    [error_code |-> 0, tx |-> IF result = "failed" THEN NoTx ELSE buffer]

\* What the response is filled with.  ecall_ret starts as TC_SUCCESS and
\* stays so when the ecall itself fails.
Answer(result) ==
    CASE result = "ok"     -> [error_code |-> 0, tx |-> buffer]
      [] result = "error"  -> [error_code |-> 3, tx |-> NoTx]
      [] result = "failed" -> [error_code |-> 0, tx |-> NoTx]

\* process returns; the relay gets the reply if it still waits for it.
Reply(c) ==
    /\ calls[c].pc = "returned"
    /\ LET answer == Answer(calls[c].result) IN
           calls' = [calls EXCEPT ![c].pc = "done",
                                  ![c].error_code = answer.error_code,
                                  ![c].tx = answer.tx]
    /\ client' = IF client = c THEN 0 ELSE client
    /\ UNCHANGED <<main, enclave, buffer, faults>>

Process(c) ==
    \/ Enter(c) \/ EcallFails(c)
    \/ InternalError(c) \/ Write(c) \/ WriteRest(c)
    \/ Reply(c)
-----------------------------------------------------------------------------
Next ==
    \/ Start \/ LoadSigKey \/ LoadHybridKey \/ InitEnclaveKvStore
    \/ StartFails \/ Crash \/ LoseEnclave
    \/ Abandon
    \/ \E c \in Calls : Request(c) \/ Process(c) \/ Stall(c)

Spec == Init /\ [][Next]_vars

\* Every thread runs; a relay that is not killed waits for its reply.
FairSpec == Spec /\ \A c \in Calls : WF_vars(Process(c))
-----------------------------------------------------------------------------
(* Properties.                                                             *)

\* The state has its type; no more threads are in the enclave than fit.
TypeOK ==
    /\ main \in {"down", "signature key", "hybrid key", "address", "serving"}
    /\ enclave \in Enclave
    /\ buffer \in (0..MaxCalls) \X (0..MaxCalls)
    /\ calls \in [Calls -> Call]
    /\ client \in 0..MaxCalls
    /\ faults \in 0..MaxFaults
    /\ Cardinality(Inside) <= TCSNum

\* A thread in the enclave finds both keys and the address of the contract,
\* neither of which it checks before it uses them: get_env follows the
\* pointer g_environment, and handleEncryptedQuery uses the hybrid key.
ProvisionedInside ==
    /\ TypeOK
    /\ Inside # {} => enclave.sigKey /\ enclave.hybridKey /\ enclave.address

\* A reply carries a transaction exactly if the enclave made one, and then
\* that of its own call; if calls overlap, which share the buffer, of a call
\* that ran meanwhile, or a mixture.  It never carries what an earlier call
\* left in the buffer.
NoStaleTransaction ==
    \A c \in Calls :
        calls[c].pc = "done" =>
            IF calls[c].result = "ok"
            THEN calls[c].tx \in ({c} \cup calls[c].others)
                                 \X ({c} \cup calls[c].others)
            ELSE calls[c].tx = NoTx

\* No call waits for another: stalled ones use up the threads, and then
\* calls fail, but each is answered in the end unless it is stalled itself.
CallsEnd ==
    \A c \in Calls :
        calls[c].pc = "accepted" ~> calls[c].pc \in {"done", "dead", "stalled"}
=============================================================================
