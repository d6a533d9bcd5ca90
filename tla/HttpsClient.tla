---------------------------- MODULE HttpsClient ----------------------------
(***************************************************************************)
(* One download of the enclave: the read loop of HttpsClient::getResponse  *)
(* (tls_client_tiny.cpp) and the parser it feeds (external/tinyhttp).      *)
(*                                                                         *)
(* The site sends a reply, in TLS records of any size.  At any point it    *)
(* may stop sending, or close the connection, in one of three ways.  On    *)
(* the wire a line of the header is one item, since nothing depends on     *)
(* where it is split; the body is made of bytes, with the lines between    *)
(* the chunks.                                                             *)
(***************************************************************************)
EXTENDS Notation

CONSTANTS
    Replies,       \* what the site may send
    BUFFER         \* the size of the buffer of getResponse

\* The body of a reply is given in chunks; `framing` is how its end is
\* marked; `code` is the status.  Fields of the header may follow the last
\* chunk (`trailer`).
CR == 13
LF == 10
Bodies == Seq(Seq(0..255))
ASSUME HttpsAssumption ==
    /\ BUFFER \in Nat \ {0}
    /\ \A r \in Replies : /\ r.framing \in {"length", "chunked", "close"}
                          /\ r.code \in Nat /\ r.chunks \in Bodies
                          /\ r.trailer \in BOOLEAN
                          /\ \A i \in DOMAIN r.chunks : r.chunks[i] # <<>>

VARIABLES
    reply,         \* what the site sends
    wire,          \* what of it has not been read and will still arrive
    peer,          \* whether the site still sends; if not, how it ended
    cut,           \* whether a part of the reply will not arrive (history)
    client,        \* how far getResponse is
    http           \* http_roundtripper and the HttpResponseTiny it fills

httpVars == <<reply, wire, peer, cut, client, http>>

\* "open": the rest of the reply will arrive; "silent": the connection is open, but
\* nothing arrives after what is on the wire.
Closed == {"eof", "close_notify", "reset"}
Peers == {"open", "silent"} \cup Closed
Clients == {"none", "connecting", "reading", "returned", "threw", "no client"}
Http == [state: {"header", "chunk_header", "chunk_data", "raw_data",
                 "unknown_data", "close", "error"},
         code: Nat, parsestate: 0..4, contentlength: Int, chunked: BOOLEAN,
         status: Nat, body: Seq(0..255)]
-----------------------------------------------------------------------------
(* The site.                                                               *)

Line(name, n) == [is |-> name, n |-> n]
Bytes(s) == [i \in DOMAIN s |-> Line("byte", s[i])]
CRLF == <<Line("byte", CR), Line("byte", LF)>>

Body(r) == Concat(r.chunks)

\* The parser keeps lengths in an int, which has at most eight hexadecimal digits.
LargestInt == 2147483647
ASSUME LengthAssumption == \A r \in Replies : Len(Body(r)) <= LargestInt

\* A size in hexadecimal, without leading zeros: n divided by powers of 16.
HexDigit(n) == Line("byte", IF n < 10 THEN 48 + n ELSE 97 + n - 10)
Digits(n) ==
    CHOOSE d \in 1..8 : /\ Quotients(n, 16)[d] = 0
                        /\ \A i \in 1..(d - 1) : Quotients(n, 16)[i] # 0
Size(n) == [j \in 1..Digits(n) |->
               HexDigit(Quotients(n, 16)[Digits(n) - j] % 16)]
Chunk(s) == Size(Len(s)) \o CRLF \o Bytes(s) \o CRLF

\* A reply as RFC 7230 has it.
OnTheWire(r) ==
    <<Line("status", r.code), Line("other", 0)>>
    \o CASE r.framing = "length" ->
              <<Line("content-length", Len(Body(r))), Line("end", 0)>>
              \o Bytes(Body(r))
         [] r.framing = "chunked" ->
              <<Line("chunked", 0), Line("end", 0)>>
              \o Concat([i \in DOMAIN r.chunks |-> Chunk(r.chunks[i])])
              \o Size(0) \o CRLF
              \o (IF r.trailer THEN <<Line("byte", 88)>> \o CRLF ELSE <<>>) \o CRLF
         [] r.framing = "close" ->
              <<Line("end", 0)>> \o Bytes(Body(r))
-----------------------------------------------------------------------------
(* tinyhttp.                                                               *)

http_init ==
    [state |-> "header", code |-> 0, parsestate |-> 0, contentlength |-> -1,
     chunked |-> FALSE, status |-> 0, body |-> <<>>]

\* What follows the header.
AfterHeader(h) ==
    IF h.chunked
    THEN [h EXCEPT !.state = "chunk_header", !.contentlength = 0]
    ELSE [h EXCEPT !.state = CASE h.contentlength = 0  -> "close"
                               [] h.contentlength > 0  -> "raw_data"
                               [] h.contentlength = -1 -> "unknown_data"
                               [] OTHER                -> "error"]

Header(h, line) ==
    CASE line.is = "status"         -> [h EXCEPT !.code = line.n]
      [] line.is = "content-length" -> [h EXCEPT !.contentlength = line.n]
      [] line.is = "chunked"        -> [h EXCEPT !.chunked = TRUE]
      [] line.is = "other"          -> h
      [] line.is = "end" -> AfterHeader([h EXCEPT !.status = h.code])

Hex(c) == CASE c \in 48..57 -> c - 48
            [] c \in 65..70 -> c - 65 + 10
            [] c \in 97..102 -> c - 97 + 10
            [] OTHER -> -1
IsHex(c) == Hex(c) >= 0

\* Mutant of http_parse_chunked: a chunk of size zero is one like others.
ParseEndless(s, size, c) ==
    CASE s = 0 /\ IsHex(c) -> [s |-> 1, size |-> Hex(c), more |-> TRUE]
      [] s = 1 /\ IsHex(c) -> [s |-> 1, size |-> 16 * size + Hex(c), more |-> TRUE]
      [] s = 1 /\ c = CR   -> [s |-> 2, size |-> size, more |-> TRUE]
      [] s = 2 /\ c = LF   -> [s |-> 3, size |-> size, more |-> size = 0]
      [] s = 3 /\ c = CR   -> [s |-> 4, size |-> size, more |-> TRUE]
      [] s = 4 /\ c = LF   -> [s |-> 0, size |-> size, more |-> TRUE]
      [] OTHER             -> [s |-> 1, size |-> -1, more |-> FALSE]

\* The table http_chunk_state: the size, its line end, and the line end after
\* the chunk.  A size of -1 is an error.
http_parse_chunked(s, size, c) ==
    CASE s = 0 /\ IsHex(c) -> [s |-> 1, size |-> Hex(c), more |-> TRUE]
      [] s = 1 /\ IsHex(c) -> [s |-> 1, size |-> 16 * size + Hex(c), more |-> TRUE]
      [] s = 1 /\ c = CR   -> [s |-> 2, size |-> size, more |-> TRUE]
      [] s = 2 /\ c = LF   -> [s |-> 3, size |-> size, more |-> size = 0]
      [] s = 3 /\ c = CR   -> [s |-> 4, size |-> size, more |-> TRUE]
      [] s = 4 /\ c = LF   -> [s |-> 0, size |-> size, more |-> size # 0]
      [] OTHER             -> [s |-> 1, size |-> -1, more |-> FALSE]

ChunkHeader(h, c) ==
    LET p == http_parse_chunked(h.parsestate, h.contentlength, c) IN
    [h EXCEPT !.parsestate = p.s, !.contentlength = p.size,
              !.state = IF p.more THEN @
                        ELSE CASE p.size = -1 -> "error"
                               [] p.size = 0  -> "close"
                               [] OTHER       -> "chunk_data"]

Min(a, b) == IF a < b THEN a ELSE b

\* How many bytes of the record the parser takes at once.
BlockSize(h, size) ==
    CASE h.state \in {"header", "chunk_header"}   -> 1
      [] h.state \in {"chunk_data", "raw_data"}   -> Min(size, h.contentlength)
      [] h.state = "unknown_data"                 -> size

Block(h, data) ==
    LET taken == [h EXCEPT !.body = @ \o [i \in DOMAIN data |-> data[i].n]]
        left  == h.contentlength - Len(data)
    IN  CASE h.state = "chunk_data" ->
               IF left = 0
               THEN [taken EXCEPT !.state = "chunk_header", !.contentlength = 1]
               ELSE [taken EXCEPT !.contentlength = left]
          [] h.state = "raw_data" ->
               [taken EXCEPT !.contentlength = left,
                             !.state = IF left = 0 THEN "close" ELSE @]
          [] h.state = "unknown_data" -> taken

NeedMore(h) == h.state \notin {"close", "error"}

\* One round of the loop of http_data: the parser takes the first bytes that are
\* left of the record.
Pass(p) ==
    IF p.data = <<>> \/ ~NeedMore(p.http) THEN p
    ELSE LET h == p.http
             n == BlockSize(h, Len(p.data))
         IN  [http |-> CASE h.state = "header" -> Header(h, p.data[1])
                         [] h.state = "chunk_header" ->
                              ChunkHeader(h, p.data[1].n)
                         [] OTHER -> Block(h, SubSeq(p.data, 1, n)),
              data |-> SubSeq(p.data, n + 1, Len(p.data))]

\* http_data on one record: a round takes a byte or more.  What is left of the
\* record when the parser is done is dropped.
http_data(h, data) ==
    LET round[i \in 0..Len(data)] ==
            IF i = 0 THEN [http |-> h, data |-> data] ELSE Pass(round[i - 1])
    IN  round[Len(data)].http
-----------------------------------------------------------------------------
(* getResponse.                                                            *)

\* The state before the request for r.
HttpInit(r) ==
    /\ reply = r
    /\ wire = OnTheWire(r)
    /\ peer = "open" /\ cut = FALSE
    /\ client = "none"
    /\ http = http_init

\* The constructor throws if it gets no random numbers or no certificates.
NewClient ==
    /\ client = "none"
    /\ client' \in {"connecting", "no client"}
    /\ UNCHANGED <<reply, wire, peer, cut, http>>

\* Connecting, the handshake and sending the request either work or throw.
Connect ==
    /\ client = "connecting"
    /\ client' \in {"reading", "threw"}
    /\ UNCHANGED <<reply, wire, peer, cut, http>>

\* The site, or the network, ends the connection after n more items, or sends no
\* more after them.
Stop(n) ==
    /\ wire' = SubSeq(wire, 1, n)
    /\ cut' = (cut \/ n < Len(wire))
    /\ UNCHANGED <<reply, client, http>>

Close(n, how) ==
    /\ client = "reading" /\ peer \notin Closed
    /\ peer' = how
    /\ Stop(n)

\* Reads have the timeout 0, which is none.
FallSilent(n) ==
    /\ client = "reading" /\ peer = "open" /\ n < Len(wire)
    /\ peer' = "silent"
    /\ Stop(n)

\* Where the loop ends: with the parser's last state, or at the end of file.
Returned(h) == IF h.state = "error" THEN "threw" ELSE "returned"

\* mbedtls_ssl_read returns a record of n items.
Read(n) ==
    /\ client = "reading"
    /\ wire' = SubSeq(wire, n + 1, Len(wire))
    /\ http' = http_data(http, SubSeq(wire, 1, n))
    /\ client' = IF NeedMore(http') THEN client ELSE Returned(http')
    /\ UNCHANGED <<reply, peer, cut>>

\* Mutant of ReadEof: the end of the connection ends every body.
ReadEofAlways ==
    /\ client = "reading" /\ wire = <<>> /\ peer = "eof"
    /\ client' = Returned(http)
    /\ UNCHANGED <<reply, wire, peer, cut, http>>

\* It returns 0.  This ends a body of unknown length, or a header that gave no
\* length so far.  Otherwise the loop goes round for ever.
ReadEof ==
    /\ client = "reading" /\ wire = <<>> /\ peer = "eof"
    /\ http.contentlength = -1
    /\ client' = Returned(http)
    /\ UNCHANGED <<reply, wire, peer, cut, http>>

\* It returns an error, also when the site closes as TLS demands.
ReadFails ==
    /\ client = "reading" /\ wire = <<>> /\ peer \in {"close_notify", "reset"}
    /\ client' = "threw"
    /\ UNCHANGED <<reply, wire, peer, cut, http>>

Reading ==
    \/ \E n \in 1..Min(Len(wire), BUFFER) : Read(n)
    \/ ReadEof
    \/ ReadFails

Download ==
    \/ NewClient
    \/ Connect
    \/ \E n \in 0..Len(wire) : FallSilent(n) \/ \E how \in Closed : Close(n, how)
    \/ Reading
-----------------------------------------------------------------------------
(* Properties.                                                             *)

HttpTypeOK ==
    /\ reply \in Replies
    /\ \E n \in 0..Len(OnTheWire(reply)) :
           wire = SubSeq(OnTheWire(reply), n + 1, n + Len(wire))
    /\ peer \in Peers /\ cut \in BOOLEAN
    /\ client \in Clients
    /\ http \in Http

Framed == reply.framing \in {"length", "chunked"}

\* However records split the stream, a response that getResponse returns has
\* the status and the body that were sent.  Only a body without a length may be
\* shorter, and only if the connection broke without notice.  If it broke in
\* the header there is neither status nor body.
ReturnsWhatWasSent ==
    /\ HttpTypeOK
    /\ client = "returned" =>
           \/ http.status = reply.code /\ http.body = Body(reply)
           \/ /\ peer = "eof" /\ cut /\ ~Framed
              /\ http.status = reply.code
              /\ http.body = SubSeq(Body(reply), 1, Len(http.body))
           \/ peer = "eof" /\ cut /\ http.status = 0 /\ http.body = <<>>

\* The loop ends, except for three reasons: the site neither gives a length nor
\* closes the connection; or it keeps the connection open and sends no more of its
\* reply, which no timeout ends; or the connection breaks without notice while the
\* parser knows that more must come.  In particular a whole reply with a length ends
\* it though the site keeps the connection open.
LoopEnds ==
    client = "reading" ~>
        \/ client # "reading"
        \/ peer = "open" /\ ~Framed
        \/ peer = "silent" /\ cut
        \/ peer = "eof" /\ cut /\ Framed
=============================================================================
