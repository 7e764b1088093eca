--------------------------- MODULE RequestReader ---------------------------
(***************************************************************************)
(* seq::process: one connection read in blocking mode, by the accept loop  *)
(* of `single` or by a worker of the pool.  Each read returns between one  *)
(* and BufSize of the bytes the client has sent, as the network cut them;  *)
(* the parser is fed until the request is full, the input ends or an error *)
(* is met.  The properties relate what comes out to the bytes that were    *)
(* sent, however they were cut.                                            *)
(***************************************************************************)
EXTENDS RequestParser, FiniteSetsExt

CONSTANTS
    Inputs,      \* what a client may send before it shuts its side
    BufSize      \* size of the read buffer (32 in the code)

ASSUME ConstantsAssumption ==
    /\ Inputs \subseteq Seq(Symbols)
    /\ BufSize \in Nat \ {0}

VARIABLES
    input,     \* the bytes the client sends
    position,  \* how many of them were read
    request,   \* incremental_request
    outcome    \* "reading", then how seq::process goes on and ends

vars == <<input, position, request, outcome>>

Init ==
    /\ input \in Inputs
    /\ position = 0
    /\ request = NoRequest
    /\ outcome = "reading"

\* stream.read returns the next n bytes.
Read(n) ==
    LET latest == SubSeq(input, position + 1, position + n)
        next == TryParse(latest, request)
    IN  /\ outcome = "reading"
        /\ position + n <= Len(input)
        /\ position' = position + n
        /\ \/ /\ ~Utf8(latest) \/ next.variant = "Err"
              /\ outcome' = "err" /\ UNCHANGED request
           \/ /\ Utf8(latest) /\ next.variant = "Panic"
              /\ outcome' = "panic" /\ UNCHANGED request
           \/ /\ Utf8(latest) /\ next.variant \notin {"Err", "Panic"}
              /\ request' = next
              /\ outcome' = IF next.variant = "FullRequest" THEN "full" ELSE "reading"
        /\ UNCHANGED input

\* Mutant: the end of the input is waited out.
EndOfInputIgnored ==
    /\ outcome = "reading"
    /\ position = Len(input)
    /\ UNCHANGED vars

\* read returns 0 before the request is full: an Err.
EndOfInput ==
    /\ outcome = "reading"
    /\ position = Len(input)
    /\ outcome' = "err"
    /\ UNCHANGED <<input, position, request>>

\* read returns Err: the client has reset the connection.
ReadFails ==
    /\ outcome = "reading"
    /\ outcome' = "err"
    /\ UNCHANGED <<input, position, request>>

\* peer_addr, handle, write_response and write_all succeed.
Answer ==
    /\ outcome = "full"
    /\ outcome' = "answered"
    /\ UNCHANGED <<input, position, request>>

\* peer_addr or write_all returns Err: the client is gone.
AnswerFails ==
    /\ outcome = "full"
    /\ outcome' = "err"
    /\ UNCHANGED <<input, position, request>>

Next == \/ \E n \in 1..BufSize : Read(n)
        \/ EndOfInput \/ ReadFails \/ Answer \/ AnswerFails

Spec == Init /\ [][Next]_vars

(* The client goes on sending its input and then shuts its side, and the    *)
(* thread is scheduled.  Nothing makes a read or a write fail.              *)
FairSpec == /\ Spec
            /\ WF_vars((\E n \in 1..BufSize : Read(n)) \/ EndOfInput)
            /\ WF_vars(Answer)
-----------------------------------------------------------------------------
(* A request by its grammar, to compare with: each line is three bytes.    *)

\* The input begins with a request line and n header lines.
Lines(n) ==
    /\ 3 * n + 3 <= Len(input)
    /\ input[1] = "line"
    /\ \A k \in 1..n : input[3 * k + 1] \in HeaderSymbols
    /\ \A k \in 0..n : input[3 * k + 2] = "cr" /\ input[3 * k + 3] = "lf"

\* The blank line follows them.
HeaderEnd(n) == 3 * n + 5

IsHeader(n) ==
    /\ Lines(n) /\ HeaderEnd(n) <= Len(input)
    /\ input[3 * n + 4] = "cr" /\ input[3 * n + 5] = "lf"

\* The last of the n header lines that is a Content-Length says how much follows.
DeclaredLength(n) ==
    LET lengths == {k \in 1..n : input[3 * k + 1] # "head"}
    IN  IF lengths = {} THEN 0 ELSE InsertHeader(0, <<input[3 * Max(lengths) + 1]>>)

RequestEnd(n) == HeaderEnd(n) + DeclaredLength(n)

\* The first p bytes of the input hold a whole request of n header lines.
Holds(p, n) == IsHeader(n) /\ DeclaredLength(n) # BadLength /\ RequestEnd(n) <= p

\* The last read ended within a character.
CutCharacter == position > 0 /\ input[position] = "u"
-----------------------------------------------------------------------------
(* Properties.                                                             *)

(* A request the parser calls full is the one the bytes spell: its body is  *)
(* the Content-Length bytes that follow the blank line, wherever the reads  *)
(* were cut, inside a CRLF or a line (http.rs:57-145).                      *)
FullRequestIsTheOneSent ==
    outcome \in {"full", "answered"} =>
        \E n \in 1..Len(input) :
            /\ Holds(position, n)
            /\ request.declared = DeclaredLength(n)
            /\ request.body = SubSeq(input, HeaderEnd(n) + 1, RequestEnd(n))

(* The server never waits for more bytes when it has a whole request: with  *)
(* a client that waits for its answer, both would wait for ever             *)
(* (http.rs:101-127, 134-138).                                              *)
NoWaitOnWholeRequest ==
    outcome = "reading" => \A n \in 1..Len(input) : ~Holds(position, n)

(* A whole request is only refused because a read was cut within one of its *)
(* characters, or the client was gone: not because of any other cut.  It    *)
(* panics only if its Content-Length ends within a character (seq.rs:16,    *)
(* http.rs:135).                                                            *)
WholeRequestRefusedOnlyByCut ==
    [][\A n \in 1..Len(input) :
          Holds(Len(input), n) /\ Utf8(input) /\ position' # position =>
              /\ outcome' = "err" => CutCharacter'
              /\ outcome' = "panic" => ~CharBoundary(input, RequestEnd(n))]_vars

(* Processing ends once the client has shut its side, whatever it sent.     *)
ProcessingEnds == <>(outcome \in {"answered", "err", "panic"})
=============================================================================
