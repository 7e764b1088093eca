--------------------------- MODULE ResponseWriter ---------------------------
(***************************************************************************)
(* write_response of http.rs: how a response becomes bytes, and what a     *)
(* client makes of them that reads any number at a time and knows only     *)
(* HTTP.  A body is a length: its bytes are numbered.  Headers other than  *)
(* Content-Length and Transfer-Encoding do not matter to the framing.      *)
(***************************************************************************)
EXTENDS Naturals, Sequences, SequencesExt

CONSTANTS
    ChunkLen,   \* chunk_len, 1024 in the code
    MaxU32      \* the largest u32

VARIABLES
    response,  \* what handle returned
    unsent,    \* bytes write_all has not written
    wire,      \* bytes written and not read
    closed,    \* the server has dropped the stream
    client     \* where the client is in the response, and what it made of it
vars == <<response, unsent, wire, closed, client>>

Byte(i) == <<"data", i>>
Size(n) == <<"size", n>>
CRLF == <<<<"crlf", 0>>>>
Width(b) == IF b[1] = "crlf" THEN 2 ELSE 1
Bytes(first, last) == [i \in 1..(last - first + 1) |-> Byte(first + i - 1)]

(***************************************************************************)
(* The responses the program makes: of a file or a script, with a          *)
(* Content-Length that counts the CRLF behind the body (files.rs:79,       *)
(* cgi.rs:66); of an error, a heartbeat or a 304, of length 0.  A script   *)
(* may print a Transfer-Encoding header of its own.                        *)
(***************************************************************************)
BodyLen(r) == IF r.length = 0 THEN 0 ELSE r.length - 2
-----------------------------------------------------------------------------
(* write_response.                                                         *)

Header(length, chunked) == <<"head", length, chunked>>

\* Response::to_string
Plain(r) == <<Header(r.length, r.chunked)>> \o CRLF
                \o IF BodyLen(r) = 0 THEN <<>> ELSE Bytes(1, BodyLen(r)) \o CRLF

\* write_chunk
Chunk(first, last) ==
    <<Size(last - first + 1)>> \o CRLF \o Bytes(first, last) \o CRLF

\* Mutant: an empty remainder is a chunk like any other.
ChunksWithEmpty(n) ==
    FlattenSeq([i \in 1..(n \div ChunkLen) |->
                    Chunk((i - 1) * ChunkLen + 1, i * ChunkLen)])
        \o Chunk(n - (n % ChunkLen) + 1, n)

\* chunks_exact, then the remainder.
Chunks(n) ==
    FlattenSeq([i \in 1..(n \div ChunkLen) |->
                    Chunk((i - 1) * ChunkLen + 1, i * ChunkLen)])
        \o IF n % ChunkLen = 0 THEN <<>> ELSE Chunk(n - (n % ChunkLen) + 1, n)

\* write_chunked: the header without Content-Length, the chunks, the last one.
Chunked(r) == <<Header(0, TRUE)>> \o CRLF \o Chunks(BodyLen(r)) \o Chunk(1, 0)

\* Content-Length does not parse as a u32, or is above chunk_len.
TooLong(length) == length > MaxU32 \/ length > ChunkLen

Encode(r) == IF TooLong(r.length) THEN Chunked(r) ELSE Plain(r)
-----------------------------------------------------------------------------
(* Server and client.                                                      *)

NewClient == [at |-> "head", left |-> 0, chunked |-> FALSE, last |-> FALSE,
              got |-> <<>>]

\* write_all writes some of the rest.
Send ==
    /\ unsent # <<>>
    /\ wire' = Append(wire, Head(unsent))
    /\ unsent' = Tail(unsent)
    /\ UNCHANGED <<response, closed, client>>

\* Mutant: the stream is dropped with bytes that are not written.
CloseEarly == /\ ~closed /\ Len(unsent) <= 2
              /\ closed' = TRUE
              /\ UNCHANGED <<response, unsent, wire, client>>

\* seq::process returns, or the event loop drops the source.
Close == /\ ~closed /\ unsent = <<>>
         /\ closed' = TRUE
         /\ UNCHANGED <<response, unsent, wire, client>>

\* What a client expects to read next, where it is not content.
Expected == [head |-> "head", headEnd |-> "crlf", size |-> "size",
             sizeEnd |-> "crlf", contentEnd |-> "crlf"]

\* What the client is after it has read b.  Transfer-Encoding goes before
\* Content-Length (RFC 7230, 3.3.3).
Step(b) ==
    LET Goto(at) == [client EXCEPT !.at = at]
        Content(over) == Goto(IF client.left = 0 THEN over ELSE "content")
        rest == client.left - Width(b)
    IN  CASE client.at \in DOMAIN Expected /\ Expected[client.at] # b[1] -> Goto("garbled")
          [] OTHER ->
             CASE client.at = "head" ->
                    [Goto("headEnd") EXCEPT !.left = b[2], !.chunked = b[3]]
               [] client.at = "headEnd" ->
                    IF client.chunked THEN Goto("size") ELSE Content("done")
               [] client.at = "size" ->
                    [Goto("sizeEnd") EXCEPT !.left = b[2], !.last = (b[2] = 0)]
               [] client.at = "sizeEnd" -> Content("contentEnd")
               [] client.at = "content" /\ rest < 0 -> Goto("garbled")
               [] client.at = "content" /\ rest >= 0 ->
                    [client EXCEPT !.got = Append(@, b), !.left = rest,
                       !.at = CASE rest > 0 -> "content"
                                [] rest = 0 /\ client.chunked -> "contentEnd"
                                [] rest = 0 /\ ~client.chunked -> "done"]
               [] client.at = "contentEnd" ->
                    Goto(IF client.last THEN "done" ELSE "size")
               [] client.at \in {"done", "garbled", "cut"} -> Goto("garbled")

Receive ==
    /\ wire # <<>>
    /\ client' = Step(Head(wire))
    /\ wire' = Tail(wire)
    /\ UNCHANGED <<response, unsent, closed>>

\* The end of the input before the end of the response.
EndOfInput ==
    /\ closed /\ wire = <<>> /\ client.at \notin {"done", "garbled", "cut"}
    /\ client' = [client EXCEPT !.at = "cut"]
    /\ UNCHANGED <<response, unsent, wire, closed>>
=============================================================================
