-------------------------- MODULE MCRequestReader --------------------------
(* RequestReader for TLC: whole requests with up to two header lines, all  *)
(* bodies, bytes after the body, and the same with one byte replaced or    *)
(* missing.                                                                *)
EXTENDS RequestReader, SequencesExt

CONSTANT MaxHeaders   \* header lines in the requests, at most

Line(l) == <<l, "cr", "lf">>

\* A request with these header lines, up to its body.
Header(headers) ==
    Line("line") \o FlattenSeq([i \in 1..Len(headers) |-> Line(headers[i])])
                 \o <<"cr", "lf">>

HeaderLists == BoundedSeq(HeaderSymbols, MaxHeaders) \ {<<>>}

Bodies == {<<>>, <<"x">>, <<"x", "x">>, <<"u", "v">>, <<"x", "u", "v">>,
           <<"cr", "lf">>, <<"u", "v", "x">>}

WholeRequests == {Header(h) \o b : h \in HeaderLists, b \in Bodies}

Replaced(s) == {[s EXCEPT ![i] = y] : i \in 1..Len(s), y \in {"x"}}
Shortened(s) == {RemoveAt(s, i) : i \in 1..Len(s)}

AllInputs ==
    {<<>>} \cup WholeRequests
           \cup UNION {Replaced(s) \cup Shortened(s) : s \in WholeRequests}
=============================================================================
