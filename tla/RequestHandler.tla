--------------------------- MODULE RequestHandler ---------------------------
(***************************************************************************)
(* do_handle_request (Enclave/event_handler.cpp) with the scrapers it      *)
(* calls and the download on which each of them depends.                   *)
(*                                                                         *)
(* The JSON text of a page is abstracted to what the scraper can tell of   *)
(* it.  No page that is cut off is JSON: all of them are objects or        *)
(* arrays.  What a flight's delay is, and what it leads to, is the         *)
(* business of FlightQuery.                                                *)
(***************************************************************************)
EXTENDS HttpsClient

Types == {"BITCOIN_FEE", "FLIGHT_INS", "FLIGHT_INS_ENC", "STEAM_EX", "FINANCE_INFO",
          "UPS_TRACKING", "COINMARKET", "WEATHER", "WOLFRAM", "unknown type"}
FlightTypes == {"FLIGHT_INS", "FLIGHT_INS_ENC"}

\* What the page says: what was asked for; that there is no such thing; that the
\* flight has not departed; JSON of another shape; text.
Pages == {"fact", "not found", "not departed", "other JSON", "text"}

VARIABLES
    request,       \* the request, and whether its data can be read
    page,          \* what the site says, once it is looked at
    answer         \* what becomes of the request

vars == <<httpVars, request, page, answer>>

\* `data`: the site's fact; none; "zero"; a number that was cut off; an int that was
\* never set; the text of the page; memory behind the response.
Answers == [is: {"none", "transaction", "no transaction", "crash"},
            error: 0..3,
            data: {"none", "fact", "zero", "part", "unset", "text", "stray"}]

NoAnswer == [is |-> "none", error |-> 0, data |-> "none"]

Init ==
    /\ \E r \in Replies : HttpInit(r)
    /\ request \in [type: Types, valid: BOOLEAN]
    /\ page = "none"
    /\ answer = NoAnswer
-----------------------------------------------------------------------------
(* The scrapers: what they return, and what they store for the response.   *)

Return(err) == [err |-> err, data |-> "none"]
Store(data) == [err |-> "NO_ERROR", data |-> data]

\* The content that the scraper gets, if p is what the site says.
Content(p) ==
    IF http.body = <<>> THEN "empty"
    ELSE IF http.body # Body(reply) THEN "cut" ELSE p
NotJSON == {"empty", "cut", "text"}

\* Most scrapers: making the client may throw outside of their try block; what
\* getResponse throws is caught.
NoPage == IF client = "no client" THEN {Return("exception")}
          ELSE {Return("WEB_ERROR")}

\* BitcoinFees::handle.  If get_recommended_fees cannot read the page it returns
\* without setting the fees.
BitcoinFees(p) ==
    IF client # "returned" THEN {Return("WEB_ERROR")}
    ELSE IF http.status = 200 /\ Content(p) = "fact" THEN {Store("fact")}
    ELSE {Store("unset")}

\* FlightScraper::handle, which does not initialise the delay, and
\* handleEncryptedQuery, which sets it to 0.  JSON that is no object, an object
\* without flights, a member of a type that is not expected, and an empty array of
\* flights, of which the first is read, have different results.
Flight(p) ==
    IF client # "returned" THEN NoPage
    ELSE CASE Content(p) \in NotJSON     -> {Return("WEB_ERROR")}
           [] Content(p) = "not found"   -> {Return("INVALID_PARAMS")}
           [] Content(p) = "other JSON"  -> {Return("INVALID_PARAMS"),
                                             Return("WEB_ERROR"),
                                             Return("UNKNOWN_ERROR"),
                                             Return("crash")}
           [] Content(p) = "fact"        -> {Store("fact")}
           [] OTHER ->
                {Store(IF request.type = "FLIGHT_INS" THEN "unset" ELSE "zero")}

\* SteamScraper::handle: any object without a response is "no trade"; JSON that is
\* no object is the requester's fault.
Steam(p) ==
    IF client # "returned" THEN NoPage
    ELSE CASE Content(p) \in NotJSON     -> {Return("INVALID_PARAMS")}
           [] Content(p) = "fact"        -> {Store("fact")}
           [] Content(p) = "not found"   -> {Store("zero")}
           [] OTHER                      -> {Store("zero"), Return("INVALID_PARAMS")}

\* Mutant of YahooYQLStock: the page must be JSON of the right form.
StockBlames(p) ==
    IF client # "returned" THEN NoPage
    ELSE CASE Content(p) # "fact"        -> {Return("INVALID_PARAMS")}
           [] OTHER                      -> {Store("fact")}

\* YahooYQLStock::handle_one.  An object whose query has no usable results is the
\* requester's fault; one without a query raises, and JSON that is no object, or
\* without a price, is the site's fault.
YahooYQLStock(p) ==
    IF client # "returned" THEN NoPage
    ELSE CASE Content(p) = "fact"        -> {Store("fact")}
           [] Content(p) = "not found"   -> {Return("INVALID_PARAMS")}
           [] Content(p) = "other JSON"  -> {Return("INVALID_PARAMS"),
                                             Return("WEB_ERROR")}
           [] OTHER                      -> {Return("WEB_ERROR")}

\* CoinMarket::handle.  If the page is no JSON, manual_parse_response looks for
\* the price in the text.  In a page that is cut off it may find all of the
\* price, a part of it, or none, and it reads on for a quotation mark behind
\* the text.  An array whose only element is no object raises.
CoinMarket(p) ==
    IF client # "returned" THEN {Return("WEB_ERROR")}
    ELSE CASE Content(p) = "fact"        -> {Store("fact")}
           [] Content(p) = "cut"         -> {Store("fact"), Store("part"),
                                             Return("INVALID_PARAMS"),
                                             Return("crash")}
           [] Content(p) = "other JSON"  -> {Return("INVALID_PARAMS"),
                                             Return("WEB_ERROR")}
           [] OTHER                      -> {Return("INVALID_PARAMS")}

\* WeatherScraper::handle.  JSON that is no object is the requester's fault.  If an
\* object lacks a key it dereferences end(), and a value of another type raises.
Weather(p) ==
    IF client # "returned" THEN NoPage
    ELSE CASE Content(p) \in NotJSON     -> {Return("INVALID_PARAMS")}
           [] Content(p) = "not found"   -> {Return("WEB_ERROR")}
           [] Content(p) = "other JSON"  -> {Return("INVALID_PARAMS"),
                                             Return("exception"), Return("crash")}
           [] OTHER                      -> {Store("fact")}

\* WolframScraper::handle: the page as it is, or nothing if there is none.
\* Whether a page has 32 bytes is open.
Wolfram(p) ==
    IF client = "no client" THEN {Return("exception")}
    ELSE IF client = "threw" \/ Content(p) = "empty" THEN {Store("stray")}
    ELSE {Store("text"), Store("stray")}

Scrape(p) ==
    CASE request.type = "BITCOIN_FEE"  -> BitcoinFees(p)
      [] request.type \in FlightTypes  -> Flight(p)
      [] request.type = "STEAM_EX"     -> Steam(p)
      [] request.type = "FINANCE_INFO" -> YahooYQLStock(p)
      [] request.type = "COINMARKET"   -> CoinMarket(p)
      [] request.type = "WEATHER"      -> Weather(p)
      [] request.type = "WOLFRAM"      -> Wolfram(p)
-----------------------------------------------------------------------------
(* do_handle_request and form_transaction.                                 *)

\* Mutant of ErrorFlag: no case for other errors.
ErrorFlagUnset(err) ==
    CASE err = "INVALID_PARAMS"  -> 1
      [] err = "WEB_ERROR"       -> 3
      [] OTHER                   -> 0

ErrorFlag(err) ==
    CASE err = "NO_ERROR"        -> 0
      [] err = "INVALID_PARAMS"  -> 1
      [] err = "WEB_ERROR"       -> 3
      [] err = "UNKNOWN_ERROR"   ->
           IF request.type = "FINANCE_INFO" THEN 2 ELSE 3

\* form_transaction copies 32 bytes of the response, which may have fewer.
\* handle_request turns an exception into an error of the call, without a
\* transaction; a crash ends the enclave.
Respond(result) ==
    CASE result.err = "exception" ->
           {[NoAnswer EXCEPT !.is = "no transaction"]}
      [] result.err = "crash" -> {[NoAnswer EXCEPT !.is = "crash"]}
      [] OTHER ->
           {[is |-> "transaction", error |-> ErrorFlag(result.err),
             data |-> result.data]}
           \cup IF result.data = "stray" THEN {[NoAnswer EXCEPT !.is = "crash"]}
                ELSE {}

\* The types for which do_handle_request returns without a scraper.
NeedsSite ==
    /\ request.type \notin {"UPS_TRACKING", "unknown type"}
    /\ request.valid \/ request.type = "BITCOIN_FEE"

Refuse ==
    /\ answer = NoAnswer /\ ~NeedsSite
    /\ answer' = [is |-> "transaction", data |-> "none",
                  error |-> IF request.type = "UPS_TRACKING" THEN 2 ELSE 1]
    /\ UNCHANGED <<httpVars, request, page>>

Fetch ==
    /\ NeedsSite
    /\ Download
    /\ UNCHANGED <<request, page, answer>>

Finish(p) ==
    /\ answer = NoAnswer
    /\ client \in {"returned", "threw", "no client"}
    /\ p = "not departed" => request.type \in FlightTypes
    /\ page' = p
    /\ \E result \in Scrape(p) : answer' \in Respond(result)
    /\ UNCHANGED <<httpVars, request>>

Next ==
    \/ Refuse
    \/ Fetch
    \/ \E p \in Pages : Finish(p)

Spec == Init /\ [][Next]_vars

\* The read loop goes on as long as there is something to read.
FairSpec == Spec /\ WF_vars(NeedsSite /\ Reading /\ UNCHANGED <<request, page, answer>>)
-----------------------------------------------------------------------------
(* Properties.                                                             *)

TypeOK ==
    /\ request \in [type: Types, valid: BOOLEAN]
    /\ page \in Pages \cup {"none"}
    /\ answer \in Answers

Whole == http.body = Body(reply) /\ http.body # <<>>

\* The flag 1 leaves the fee with the enclave.  A request that is in order gets
\* it only if the site answered, and only if it knows no such thing or
\* the scraper takes a page that it cannot read for that: never for a fee
\* of Bitcoin, and for a flight or a stock price only if the page was whole
\* and JSON.
BlamedForCause ==
    /\ TypeOK
    /\ answer.is = "transaction" /\ answer.error = 1 =>
           \/ ~request.valid \/ request.type = "unknown type"
           \/ /\ client = "returned" /\ request.type # "BITCOIN_FEE"
              /\ \/ Whole /\ page = "not found"
                 \/ /\ Whole /\ page = "other JSON"
                    /\ request.type \in FlightTypes \cup {"FINANCE_INFO"}
                 \/ /\ request.type \in {"STEAM_EX", "COINMARKET", "WEATHER"}
                    /\ ~(Whole /\ page = "fact")

\* "If error = 0, ... the application contract can then safely use respData": a
\* response without an error is what the site says, in a page that was received as
\* it was sent.  The code does not keep to it in five scrapers: Wolfram Alpha passes on
\* whatever there is; the fee of Bitcoin may never have been set; nor may the delay
\* of a flight that has not departed, which an encrypted query takes for none; Steam
\* takes an error for "no trade"; and of a page without a length that was cut off
\* the price of a coin may be what is left of it.
NoErrorMeansFact ==
    answer.is = "transaction" /\ answer.error = 0 =>
        \/ answer.data = "fact" /\ Whole /\ page = "fact"
        \/ request.type = "WOLFRAM"
        \/ /\ request.type = "BITCOIN_FEE" /\ answer.data = "unset"
           /\ client = "returned"
           /\ http.status # 200 \/ ~Whole \/ page # "fact"
        \/ /\ Whole /\ page = "not departed"
           /\ \/ request.type = "FLIGHT_INS" /\ answer.data = "unset"
              \/ request.type = "FLIGHT_INS_ENC" /\ answer.data = "zero"
        \/ /\ request.type = "STEAM_EX" /\ answer.data = "zero"
           /\ Whole /\ page \in {"not found", "other JSON"}
        \/ request.type = "COINMARKET" /\ cut /\ ~Framed
=============================================================================
