-------------------------- MODULE MCRequestHandler --------------------------
(***************************************************************************)
(* Instances of RequestHandler for TLC.                                    *)
(***************************************************************************)
EXTENDS RequestHandler

\* An empty page; one in two chunks, which begin and end with bytes that have a
\* meaning between chunks; one with a chunk whose size has two digits.
MCChunks == {<<>>, <<<<LF, 48>>, <<CR>>>>, <<[i \in 1..17 |-> 49]>>}

MCReplies ==
    [code: {200, 404}, framing: {"length", "chunked", "close"},
     chunks: MCChunks, trailer: {FALSE}]
    \cup [code: {200}, framing: {"chunked"}, chunks: MCChunks, trailer: {TRUE}]
=============================================================================
