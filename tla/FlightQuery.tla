---------------------------- MODULE FlightQuery ----------------------------
(***************************************************************************)
(* One flight query from end to end: the enclave asks the FlightAware      *)
(* service (Enclave/scrapers/flight.cpp), puts the result into the         *)
(* response of a deliver transaction (event_handler.cpp and                *)
(* eth_transaction.cpp), and the FlightInsurance contract decides.         *)
(*                                                                         *)
(* The flight departs or is cancelled at any time, also between these      *)
(* steps.  The query comes in plain text or encrypted.  Times are seconds; *)
(* the enclave computes with uint64_t and stores the result in an int,     *)
(* whose 32 bits become the response.                                      *)
(***************************************************************************)
EXTENDS Integers

CONSTANTS
    UINT64,        \* the number of values of uint64_t
    UINT32,        \* the number of values of a 32-bit integer
    Filed,         \* the departure time that the policy names
    Times,         \* the times at which the flight may depart
    Garbage        \* the values an uninitialised int may have

MAX_DELAY_MIN == 30
PAYOUT_DELAY == 30
LateBy == MAX_DELAY_MIN * 60

INT_MIN == -(UINT32 \div 2)
INT_MAX == UINT32 \div 2 - 1

\* Two words of different width; a delay that fits 32 bits, which are 136
\* years; times that are not among FlightAware's marks for "not departed"
\* and "cancelled".
ASSUME FlightAssumption ==
    /\ UINT32 \in Nat /\ UINT32 % 2 = 0 /\ 2 * LateBy < UINT32
    /\ UINT64 \in Nat /\ UINT64 % UINT32 = 0 /\ UINT64 > UINT32
    /\ Filed \in 1..(UINT64 - 2)
    /\ Times \subseteq 1..(UINT64 - 2)
    /\ \A t \in Times : t - Filed < UINT32
    /\ Garbage \subseteq INT_MIN..INT_MAX

VARIABLES
    actual,        \* FlightAware: the field actualdeparturetime
    query,         \* the query: what was asked and how far it got
    response,      \* error and respData of the deliver transaction
    decision       \* FlightInsurance: what becomes of the policy

flightVars == <<actual, query, response, decision>>

NotDeparted == 0
WasCancelled == UINT64 - 1      \* -1 as a uint64_t

\* The handler that is called, and whether it can read the request.  `seen`
\* is what FlightAware said when it was asked (history).
Query == [pc: {"none", "asked", "answered", "decided"},
          kind: {"plain", "encrypted"}, valid: BOOLEAN,
          reply: {"none", "flight", "unknown", "unreachable", "malformed"},
          seen: 0..(UINT64 - 1)]
Answer == [error: {0, 1, 3}, data: 0..(UINT32 - 1)]
Decisions == {"none", "payout", "no payout", "refund", "refund with fee"}

NoQuery == [pc |-> "none", kind |-> "plain", valid |-> FALSE,
            reply |-> "none", seen |-> NotDeparted]

FlightInit ==
    /\ actual = NotDeparted
    /\ query = NoQuery
    /\ response = [error |-> 0, data |-> 0]
    /\ decision = "none"

\* The flight departs or is cancelled.
Depart(t) ==
    /\ actual = NotDeparted
    /\ actual' = t
    /\ UNCHANGED <<query, response, decision>>

\* Data of a wrong length, or that cannot be decrypted or parsed, is not
\* valid.
Ask(kind, valid) ==
    /\ query.pc = "none"
    /\ query' = [NoQuery EXCEPT !.pc = "asked", !.kind = kind, !.valid = valid]
    /\ UNCHANGED <<actual, response, decision>>
-----------------------------------------------------------------------------
\* An int has as many bits as the low half of the uint64_t.
ToInt(n) ==
    LET low == n % UINT32 IN IF low > INT_MAX THEN low - UINT32 ELSE low

\* Mutants of parse_response: the delay must exceed the limit; the limit is
\* taken for seconds.
ParseSeconds(t, delay) ==
    CASE t = NotDeparted  -> [status |-> "NOT_DEPARTED", delay |-> delay]
      [] t = WasCancelled -> [status |-> "CANCELLED", delay |-> INT_MAX - 4]
      [] OTHER ->
           LET diff == (t - Filed) % UINT64 IN
           IF diff >= MAX_DELAY_MIN
           THEN [status |-> "DELAYED", delay |-> ToInt(diff)]
           ELSE [status |-> "DEPARTED", delay |-> 0]

ParseExceeds(t, delay) ==
    CASE t = NotDeparted  -> [status |-> "NOT_DEPARTED", delay |-> delay]
      [] t = WasCancelled -> [status |-> "CANCELLED", delay |-> INT_MAX - 4]
      [] OTHER ->
           LET diff == (t - Filed) % UINT64 IN
           IF diff > LateBy
           THEN [status |-> "DELAYED", delay |-> ToInt(diff)]
           ELSE [status |-> "DEPARTED", delay |-> 0]

\* parse_response for a flight that departed at t: the difference is that of
\* unsigned numbers.  `delay` is what the variable was before.
parse_response(t, delay) ==
    CASE t = NotDeparted  -> [status |-> "NOT_DEPARTED", delay |-> delay]
      [] t = WasCancelled -> [status |-> "CANCELLED", delay |-> INT_MAX - 4]
      [] OTHER ->
           LET diff == (t - Filed) % UINT64 IN
           IF diff >= LateBy
           THEN [status |-> "DELAYED", delay |-> ToInt(diff)]
           ELSE [status |-> "DEPARTED", delay |-> 0]

\* get_flight_delay.  "unknown": FlightAware knows no such flight;
\* "malformed": the reply is JSON of another shape, which raises.
get_flight_delay(reply, t, delay) ==
    CASE reply = "flight"      -> parse_response(t, delay)
      [] reply = "unknown"     -> [status |-> "NOT_FOUND", delay |-> delay]
      [] reply = "unreachable" -> [status |-> "HTTP_ERROR", delay |-> delay]
      [] reply = "malformed"   -> [status |-> "INTERNAL_ERR", delay |-> delay]

\* Mutant of FlightErrorFlag: a flight that is not found is an internal error.
ErrorFlagNotFound(status) ==
    CASE status = "INVALID" -> 1
      [] status \in {"NOT_FOUND", "HTTP_ERROR", "INTERNAL_ERR"} -> 3
      [] OTHER -> 0

\* The err_code of handle and handleEncryptedQuery, which agree, and the
\* error flag that do_handle_request makes of it.
FlightErrorFlag(status) ==
    CASE status \in {"INVALID", "NOT_FOUND"} -> 1
      [] status \in {"HTTP_ERROR", "INTERNAL_ERR"} -> 3
      [] OTHER -> 0

\* Mutant of AsUint256: the sign is kept.
AppendSigned(n) == n

\* append_as_uint256 writes the 4 bytes of the int after 28 zero bytes.
AsUint256(n) == n % UINT32

\* The response; form_transaction leaves it zero if there is an error.
Response(outcome) ==
    LET error == FlightErrorFlag(outcome.status)
    IN  [error |-> error,
         data |-> IF error = 0 THEN AsUint256(outcome.delay) ELSE 0]

Answered(reply, outcome) ==
    /\ query.pc = "asked"
    /\ query' = [query EXCEPT !.pc = "answered", !.reply = reply,
                              !.seen = actual]
    /\ response' = Response(outcome)
    /\ UNCHANGED <<actual, decision>>

\* The handlers refuse what they cannot read.
HandleInvalid ==
    /\ ~query.valid
    /\ Answered("none", [status |-> "INVALID", delay |-> 0])

\* handle: the int delay is not initialised.
Handle(reply, garbage) ==
    /\ query.kind = "plain" /\ query.valid
    /\ Answered(reply, get_flight_delay(reply, actual, garbage))

\* handleEncryptedQuery: the int delay starts as 0.
HandleEncrypted(reply) ==
    /\ query.kind = "encrypted" /\ query.valid
    /\ Answered(reply, get_flight_delay(reply, actual, 0))

\* FlightInsurance.response.
Verdict(a) ==
    CASE a.error = 1 -> "refund"
      [] a.error > 1 -> "refund with fee"
      [] a.error = 0 /\ a.data >= PAYOUT_DELAY -> "payout"
      [] OTHER -> "no payout"

Decide ==
    /\ query.pc = "answered"
    /\ query' = [query EXCEPT !.pc = "decided"]
    /\ decision' = Verdict(response)
    /\ UNCHANGED <<actual, response>>
-----------------------------------------------------------------------------
FlightAwareReplies == {"flight", "unknown", "unreachable", "malformed"}

FlightNext ==
    \/ \E t \in Times \cup {WasCancelled} : Depart(t)
    \/ \E kind \in {"plain", "encrypted"}, valid \in BOOLEAN : Ask(kind, valid)
    \/ HandleInvalid
    \/ \E reply \in FlightAwareReplies, garbage \in Garbage : Handle(reply, garbage)
    \/ \E reply \in FlightAwareReplies : HandleEncrypted(reply)
    \/ Decide

FlightSpec == FlightInit /\ [][FlightNext]_flightVars
-----------------------------------------------------------------------------
(* Properties.                                                             *)

\* The response is an unsigned number whatever the enclave computed.
FlightTypeOK ==
    /\ actual \in 0..(UINT64 - 1)
    /\ query \in Query
    /\ response \in Answer
    /\ decision \in Decisions

Departed == query.seen \notin {NotDeparted, WasCancelled}
Late == query.seen = WasCancelled \/ (Departed /\ query.seen >= Filed + LateBy)

\* The decision on a flight that FlightAware knew when it was asked.
Decided(seen) == decision # "none" /\ query.reply = "flight" /\ seen

\* A flight that departed half an hour late or more, or was cancelled, is
\* paid, though the limit is checked twice and in different units: by the
\* enclave in seconds, and by the contract, against 30, once more.
LateIsPaid == Decided(Late) => decision = "payout"

\* A flight that departed on time or up to half an hour late is not paid; nor
\* is one that was asked for, encrypted, before it departed.
OnTimeIsNotPaid ==
    /\ Decided(Departed /\ query.seen \in Filed..(Filed + LateBy - 1))
           => decision = "no payout"
    /\ Decided(query.seen = NotDeparted /\ query.kind = "encrypted")
           => decision = "no payout"

\* The fee comes back exactly when it was not the requester's fault that the
\* query failed, and then there is no decision about the flight.
FeeBackIfBlameless ==
    decision # "none" =>
        /\ (decision = "refund with fee")
               <=> (query.reply \in {"unreachable", "malformed"})
        /\ (decision = "refund") <=> (~query.valid \/ query.reply = "unknown")
=============================================================================
