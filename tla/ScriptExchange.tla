--------------------------- MODULE ScriptExchange ---------------------------
(***************************************************************************)
(* The second half of seq::process (seq.rs:36-37): the response that       *)
(* Cgi::handle (CgiScript) or another handler returns is encoded, written  *)
(* to the client and the stream closed (ResponseWriter).  One thread does  *)
(* the one after the other, so nothing is written while the script runs.   *)
(***************************************************************************)
EXTENDS CgiScript

CONSTANTS
    ChunkLen,   \* chunk_len, 1024 in the code
    MaxU32,     \* the largest u32
    MaxBody,    \* bound: bytes of a body that is not a script's
    NoSent      \* nothing is returned yet

ASSUME WriterAssumption ==
    /\ ChunkLen \in Nat \ {0}
    /\ {MaxU32, MaxBody} \subseteq Nat
    /\ NoSent \notin [length : Nat, chunked : BOOLEAN]

VARIABLES
    sent,     \* the response handle returned
    unsent,   \* bytes write_all has not written
    wire,     \* bytes written and not read
    closed,   \* the server has dropped the stream
    client    \* where the client is in the response, and what it made of it
writing == <<sent, unsent, wire, closed, client>>
exchange == <<vars, writing>>

Writer == INSTANCE ResponseWriter WITH response <- sent

ExchangeInit ==
    /\ Init
    /\ sent = NoSent /\ unsent = <<>> /\ wire = <<>> /\ closed = FALSE
    /\ client = Writer!NewClient

Write(r) == /\ sent' = r
            /\ unsent' = Writer!Encode(r)
            /\ UNCHANGED <<vars, wire, closed, client>>

\* Cgi::handle returns: body.len() + 2, or error_response.  The script may
\* have printed a Transfer-Encoding header of its own.
ScriptHandled ==
    /\ sent = NoSent
    /\ \/ pc = "ok" /\ \E own \in BOOLEAN :
              Write([length |-> Len(response) + 2, chunked |-> own])
       \/ pc = "error" /\ Write([length |-> 0, chunked |-> FALSE])

\* A request for a file, or one that no handler is asked about: no script.
OtherHandled ==
    /\ sent = NoSent /\ pc = "spawn" /\ body = <<>> /\ style = "ignore"
    /\ \E n \in 0..MaxBody : Write([length |-> n + 2, chunked |-> FALSE])

\* The connection's thread is past the handler.
Writing == sent # NoSent /\ UNCHANGED vars

ServerThread == \/ sent = NoSent /\ Server /\ UNCHANGED writing
                \/ ScriptHandled \/ OtherHandled
                \/ Writing /\ (Writer!Send \/ Writer!Close)
ScriptProcess == Script /\ UNCHANGED writing
Client == Writing /\ (Writer!Receive \/ Writer!EndOfInput)

ExchangeNext == \/ ServerThread \/ ScriptProcess \/ Client
                \/ ScriptDies /\ UNCHANGED writing

ExchangeSpec == ExchangeInit /\ [][ExchangeNext]_exchange

(* The thread, the script and the client are scheduled, and the client     *)
(* reads; a script is free to be killed or not.                            *)
FairExchange == /\ ExchangeSpec
                /\ WF_exchange(ServerThread)
                /\ WF_exchange(ScriptProcess)
                /\ WF_exchange(Client)
-----------------------------------------------------------------------------
(* Properties.                                                             *)

Ended == client.at \in {"done", "garbled", "cut"}

\* The body that was to be sent: of a script, what was made of its output.
Content == Writer!Bytes(1, CASE pc = "ok" -> Len(response)
                             [] pc = "error" -> 0
                             [] OTHER -> sent.length - 2)

\* A script's own Transfer-Encoding header on a response that is not chunked.
Mislabelled == sent.chunked /\ ~Writer!TooLong(sent.length)

(* What a client takes for the response is the body, whole and in order;   *)
(* sent plainly it has a CRLF behind it, which its Content-Length counts,  *)
(* sent in chunks it has not.  Nothing follows that a client which reads   *)
(* on would take for another response.  Bodies that are a multiple of      *)
(* chunk_len, one byte off, or longer than a u32 counts are no exception   *)
(* (http.rs:11-55, 211-222).                                               *)
DecodesToBody ==
    /\ client.at = "done" =>
           /\ client.got = IF client.chunked \/ Content = <<>> THEN Content
                                                              ELSE Content \o Writer!CRLF
           /\ wire = <<>> /\ unsent = <<>>
    /\ client.at = "garbled" => Mislabelled

(* A client sees the connection close in the middle of a response for two  *)
(* reasons only: an empty body is announced as two bytes that are never    *)
(* sent (files.rs:79 and http.rs:219), or the script said "chunked".       *)
CutOnlyIfEmpty ==
    client.at = "cut" => Mislabelled \/ (Content = <<>> /\ sent.length = 2)

(* Every client that reads gets to an end, without waiting for a byte that *)
(* is never sent, if the script ends when left alone and server and script *)
(* do not fill both pipes: the stall of StallsWhenPipesFull and a script   *)
(* that does not end are all that keeps a client waiting (cgi.rs:43-60).   *)
EndsUnlessPipesFull == PipesSuffice => <>Ended
=============================================================================
