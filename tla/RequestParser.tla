--------------------------- MODULE RequestParser ---------------------------
(***************************************************************************)
(* The incremental request parser of http.rs: try_parse_request takes the  *)
(* bytes just read and an IncrementalRequest, and returns the next one, an *)
(* Err, or panics.  It is the one definition of a request that the three   *)
(* concurrency models share.                                               *)
(*                                                                         *)
(* Bytes are symbols.  "line" stands for the bytes of a line that          *)
(* parse_request_line accepts, "head" for a header line other than         *)
(* Content-Length, "len0" .. "len2" and "lenX" for Content-Length lines    *)
(* with that value and with one that is no number; each counts as one      *)
(* byte.  "u" "v" are the two bytes of one character.  A line is good when *)
(* it is exactly one of these symbols.                                     *)
(***************************************************************************)
EXTENDS Integers, Sequences, FiniteSets

HeaderSymbols == {"head", "len0", "len1", "len2", "lenX"}
Symbols == HeaderSymbols \cup {"line", "cr", "lf", "x", "u", "v"}

\* A Content-Length that is no number.
BadLength == -1

\* str::from_utf8 accepts these bytes.
Utf8(s) == \A i \in 1..Len(s) :
    /\ s[i] = "u" => i < Len(s) /\ s[i + 1] = "v"
    /\ s[i] = "v" => i > 1 /\ s[i - 1] = "u"

\* Index i of a string is not the middle of a character.
CharBoundary(s, i) == i = Len(s) \/ s[i + 1] # "v"

Breaks(s) == {i \in 1..(Len(s) - 1) : s[i] = "cr" /\ s[i + 1] = "lf"}

\* s.find(CRLF), when there is one.
NextBreak(s) == CHOOSE i \in Breaks(s) : \A j \in Breaks(s) : i <= j

RequestLineParses(l) == l = <<"line">>
HeaderLineParses(l) == Len(l) = 1 /\ l[1] \in HeaderSymbols

\* header_lines.insert, for the only field the parser looks at: the last
\* Content-Length counts.
InsertHeader(declared, l) ==
    CASE l[1] = "len0" -> 0
      [] l[1] = "len1" -> 1
      [] l[1] = "len2" -> 2
      [] l[1] = "lenX" -> BadLength
      [] OTHER -> declared

(***************************************************************************)
(* An IncrementalRequest: its variant, the Content-Length among its        *)
(* header_lines (0 without one), the body so far, bytes_left, and the      *)
(* bytes not parsed yet.                                                   *)
(***************************************************************************)
IncrementalRequests ==
    [variant : {"None", "RequestLine", "HeaderLines", "Body", "FullRequest", "Err", "Panic"},
     declared : Int, body : Seq(Symbols), bytesLeft : Nat, buf : Seq(Symbols)]

NoRequest == [variant |-> "None", declared |-> 0, body |-> <<>>,
              bytesLeft |-> 0, buf |-> <<>>]

Err == [NoRequest EXCEPT !.variant = "Err"]
Panic == [NoRequest EXCEPT !.variant = "Panic"]

\* Mutant: the bytes kept from earlier reads are forgotten.
CombinedLatestOnly(latest, request) == latest

\* [&buf, latest].concat()
Combined(latest, request) == request.buf \o latest

\* min(bytes_left, s.len())
BytesToAdd(request, s) ==
    IF request.bytesLeft < Len(s) THEN request.bytesLeft ELSE Len(s)

\* Mutant: the blank line is taken to be followed by more bytes.
TakeBodyLater(request, s) ==
    LET n == BytesToAdd(request, s)
    IN  IF s = <<>> THEN request
        ELSE IF ~CharBoundary(s, n) THEN Panic
        ELSE [request EXCEPT !.variant = IF request.bytesLeft = n
                                         THEN "FullRequest" ELSE "Body",
                             !.body = @ \o SubSeq(s, 1, n),
                             !.bytesLeft = @ - n,
                             !.buf = SubSeq(s, n + 1, Len(s))]

\* The Body variant.  &s[..bytes_to_add] panics in the middle of a character.
TakeBody(request, s) ==
    LET n == BytesToAdd(request, s)
    IN  IF ~CharBoundary(s, n) THEN Panic
        ELSE [request EXCEPT !.variant = IF request.bytesLeft = n
                                         THEN "FullRequest" ELSE "Body",
                             !.body = @ \o SubSeq(s, 1, n),
                             !.bytesLeft = @ - n,
                             !.buf = SubSeq(s, n + 1, Len(s))]

\* A line is complete: what the variants None, RequestLine and HeaderLines
\* become; `rest` is what follows the line's CRLF.
TakeLine(request, l, rest) ==
    CASE request.variant = "None" ->
           IF RequestLineParses(l)
           THEN [request EXCEPT !.variant = "RequestLine", !.buf = rest] ELSE Err
      [] request.variant = "HeaderLines" /\ l = <<>> ->
           IF request.declared = BadLength THEN Err
           ELSE [request EXCEPT !.variant = "Body",
                                !.bytesLeft = request.declared, !.buf = rest]
      [] OTHER ->
           IF HeaderLineParses(l)
           THEN [request EXCEPT !.variant = "HeaderLines",
                                !.declared = InsertHeader(@, l), !.buf = rest]
           ELSE Err

\* One call of try_parse_request, on what it has put into buf: the request it
\* returns, or calls itself with.  What is returned is left as it is.
Parse[request \in IncrementalRequests] ==
    LET s == request.buf
        b == NextBreak(s)
    IN  CASE request.variant \in {"FullRequest", "Err", "Panic"} -> request
          [] request.variant \in {"None", "RequestLine", "HeaderLines", "Body"} /\ ~Utf8(s) -> Err
          [] request.variant = "Body" /\ Utf8(s) -> TakeBody(request, s)
          [] request.variant \in {"None", "RequestLine", "HeaderLines"} /\ Utf8(s) ->
               IF Breaks(s) = {} THEN request
               ELSE TakeLine(request, SubSeq(s, 1, b - 1), SubSeq(s, b + 2, Len(s)))

(***************************************************************************)
(* The calls one after the other: each takes a line, and the last one the  *)
(* body, so that there are at most as many as there are bytes, and one.    *)
(***************************************************************************)
TryParse(latest, request) ==
    LET s == Combined(latest, request)
        after[i \in 0..(Len(s) + 1)] ==
            IF i = 0 THEN [request EXCEPT !.buf = s] ELSE Parse[after[i - 1]]
    IN  IF request.variant = "FullRequest" THEN Err ELSE after[Len(s) + 1]
=============================================================================
