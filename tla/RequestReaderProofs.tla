------------------------ MODULE RequestReaderProofs ------------------------
(***************************************************************************)
(* Proofs about seq::process and the request parser (RequestReader), for   *)
(* any inputs, however long, and reads of any size.  What the parser keeps *)
(* is the part of the input it has not taken, so that where a request is   *)
(* said by positions in the input: first one call of the parser, then all  *)
(* of them, then the reads.                                                *)
(***************************************************************************)
EXTENDS RequestReader, SequenceTheorems, WellFoundedInduction, TLAPS

Text == Seq(Symbols)
-----------------------------------------------------------------------------
(* Sequences.                                                              *)

(* A set of naturals has a least one.                                      *)
LEMMA LeastNatural ==
    ASSUME NEW S \in SUBSET Nat, S # {}
    PROVE  \E m \in S : \A n \in S : m <= n
<1> DEFINE Below == OpToRel(<, Nat)
<1>1. IsWellFoundedOn(Below, Nat)
  BY NatLessThanWellFounded
<1>2. \A m, n \in Nat : <<m, n>> \in Below <=> m < n
  BY DEF OpToRel
<1> HIDE DEF Below
<1>3. PICK m \in S : \A n \in S : ~(<<n, m>> \in Below)
  BY <1>1, WFMin
<1>4. ASSUME NEW n \in S PROVE m <= n
  <2>1. m \in Nat /\ n \in Nat
    OBVIOUS
  <2>2. ~(n < m)
    BY <1>2, <1>3, <2>1
  <2> QED BY <2>1, <2>2
<1> QED BY <1>4

(* What holds of 0 and, if of a number, of the next one, holds up to n.    *)
LEMMA UpTo ==
    ASSUME NEW n \in Nat, NEW good, 0 \in good, \A i \in 1..n : i - 1 \in good => i \in good
    PROVE  \A i \in 0..n : i \in good
<1> DEFINE bad == {i \in 0..n : i \notin good}
<1> SUFFICES ASSUME bad # {} PROVE FALSE
  OBVIOUS
<1>1. PICK m \in bad : \A i \in bad : m <= i
  <2>1. bad \in SUBSET Nat
    OBVIOUS
  <2> HIDE DEF bad
  <2> QED BY <2>1, LeastNatural
<1>2. m \in 0..n /\ m \notin good
  OBVIOUS
<1>3. m # 0 /\ m \in 1..n /\ m - 1 \in 0..n /\ ~(m <= m - 1)
  BY <1>2
<1>4. m - 1 \in good
  BY <1>1, <1>3
<1> QED BY <1>2, <1>3, <1>4

(* A piece of a text.                                                      *)
LEMMA Piece ==
    ASSUME NEW t \in Text, NEW m \in Nat, NEW p \in Nat, m <= p, p <= Len(t)
    PROVE  /\ SubSeq(t, m + 1, p) \in Text /\ Len(SubSeq(t, m + 1, p)) = p - m
           /\ \A i \in 1..(p - m) : SubSeq(t, m + 1, p)[i] = t[m + i]
<1>1. Len(t) \in Nat
  BY LenProperties DEF Text
<1>2. m + 1 \in 1..(Len(t) + 1) /\ p \in 0..Len(t) /\ p \in Nat
  BY <1>1
<1>3. \A i \in (m + 1)..p : t[i] \in Symbols
  BY <1>1, ElementOfSeq DEF Text
<1>4. /\ SubSeq(t, m + 1, p) \in Seq(Symbols)
      /\ Len(SubSeq(t, m + 1, p)) = IF m + 1 <= p THEN p - (m + 1) + 1 ELSE 0
      /\ \A i \in 1..(p - (m + 1) + 1) : SubSeq(t, m + 1, p)[i] = t[(m + 1) + i - 1]
  BY <1>2, <1>3, SubSeqProperties
<1>5. /\ IF m + 1 <= p THEN p - (m + 1) + 1 = p - m ELSE 0 = p - m
      /\ p - (m + 1) + 1 = p - m
      /\ \A i \in 1..(p - m) : (m + 1) + i - 1 = m + i
  BY <1>2
<1> QED BY <1>4, <1>5 DEF Text

(* Two pieces that follow each other.                                      *)
LEMMA Joined ==
    ASSUME NEW t \in Text, NEW m \in Nat, NEW p \in Nat, NEW q \in Nat,
           m <= p, p <= q, q <= Len(t)
    PROVE  SubSeq(t, m + 1, p) \o SubSeq(t, p + 1, q) = SubSeq(t, m + 1, q)
<1> DEFINE a == SubSeq(t, m + 1, p)
           b == SubSeq(t, p + 1, q)
           c == SubSeq(t, m + 1, q)
<1>1. Len(t) \in Nat
  BY LenProperties DEF Text
<1>2. a \in Text /\ Len(a) = p - m /\ \A i \in 1..(p - m) : a[i] = t[m + i]
  <2>1. p <= Len(t)
    BY <1>1
  <2> QED BY <2>1, Piece
<1>3. b \in Text /\ Len(b) = q - p /\ \A i \in 1..(q - p) : b[i] = t[p + i]
  BY Piece
<1>4. c \in Text /\ Len(c) = q - m /\ \A i \in 1..(q - m) : c[i] = t[m + i]
  <2>1. m <= q
    OBVIOUS
  <2> QED BY <2>1, Piece
<1> HIDE DEF a, b, c
<1>5. /\ a \o b \in Text /\ Len(a \o b) = Len(a) + Len(b)
      /\ \A i \in 1..(Len(a) + Len(b)) :
            (a \o b)[i] = IF i <= Len(a) THEN a[i] ELSE b[i - Len(a)]
  BY <1>2, <1>3, ConcatProperties DEF Text
<1>6. Len(a \o b) = Len(c)
  BY <1>2, <1>3, <1>4, <1>5
<1>7. ASSUME NEW i \in 1..Len(c) PROVE (a \o b)[i] = c[i]
  <2>1. i \in 1..(q - m) /\ i \in 1..(Len(a) + Len(b)) /\ c[i] = t[m + i]
    BY <1>2, <1>3, <1>4
  <2>2. CASE i <= p - m
    <3>1. i \in 1..(p - m)
      BY <2>1, <2>2
    <3> QED BY <1>2, <1>5, <2>1, <2>2, <3>1
  <2>3. CASE ~(i <= p - m)
    <3>1. i - (p - m) \in 1..(q - p) /\ p + (i - (p - m)) = m + i
      BY <2>1, <2>3
    <3>2. (a \o b)[i] = b[i - (p - m)]
      BY <1>2, <1>5, <2>1, <2>3
    <3> QED BY <1>3, <2>1, <3>1, <3>2
  <2> QED BY <2>2, <2>3
<1> QED BY <1>4, <1>5, <1>6, <1>7, SeqEqual DEF Text, a, b, c

(* A piece of a piece.                                                     *)
LEMMA PieceOfPiece ==
    ASSUME NEW t \in Text, NEW m \in Nat, NEW p \in Nat, m <= p, p <= Len(t),
           NEW i \in Nat, NEW j \in Nat, i <= j, j <= p - m
    PROVE  SubSeq(SubSeq(t, m + 1, p), i + 1, j) = SubSeq(t, (m + i) + 1, m + j)
<1> DEFINE a == SubSeq(t, m + 1, p)
           b == SubSeq(a, i + 1, j)
           c == SubSeq(t, (m + i) + 1, m + j)
<1>1. Len(t) \in Nat
  BY LenProperties DEF Text
<1>2. a \in Text /\ Len(a) = p - m /\ \A k \in 1..(p - m) : a[k] = t[m + k]
  BY Piece
<1>3. c \in Text /\ Len(c) = j - i /\ \A k \in 1..(j - i) : c[k] = t[(m + i) + k]
  <2> DEFINE u == m + i
             v == m + j
  <2>1. u \in Nat /\ v \in Nat /\ u <= v /\ v <= Len(t) /\ v - u = j - i
    BY <1>1
  <2> HIDE DEF u, v
  <2>2. /\ SubSeq(t, u + 1, v) \in Text /\ Len(SubSeq(t, u + 1, v)) = v - u
        /\ \A k \in 1..(v - u) : SubSeq(t, u + 1, v)[k] = t[u + k]
    BY <2>1, Piece
  <2>3. c = SubSeq(t, u + 1, v) /\ \A k : t[u + k] = t[(m + i) + k]
    BY DEF u, v
  <2> HIDE DEF c
  <2> QED BY <2>1, <2>2, <2>3
<1> HIDE DEF a, c
<1>4. b \in Text /\ Len(b) = j - i /\ \A k \in 1..(j - i) : b[k] = a[i + k]
  BY <1>2, Piece
<1> HIDE DEF b
<1>5. ASSUME NEW k \in 1..Len(b) PROVE b[k] = c[k]
  <2>1. k \in 1..(j - i) /\ i + k \in 1..(p - m) /\ m + (i + k) = (m + i) + k
    BY <1>4
  <2> QED BY <1>2, <1>3, <1>4, <2>1
<1> QED BY <1>3, <1>4, <1>5, SeqEqual DEF Text, a, b, c
-----------------------------------------------------------------------------
(* The invariant.                                                          *)

(* The bytes of the input after the first m, up to the p-th.               *)
Between(m, p) == SubSeq(input, m + 1, p)

LineVariants == {"None", "RequestLine", "HeaderLines"}
Refused == {"Err", "Panic"}

(* The request r of a parser that has taken the first m bytes.             *)
Taken(r, m) ==
    /\ r.variant \notin Refused
    /\ r.variant = "None" => m = 0 /\ r.declared = 0 /\ r.body = <<>>
    /\ r.variant \in {"RequestLine", "HeaderLines"} =>
         \E n \in Nat : /\ m = 3 * n + 3 /\ Lines(n)
                        /\ r.declared = DeclaredLength(n) /\ r.body = <<>>
                        /\ r.variant = "RequestLine" <=> n = 0
    /\ r.variant \in {"Body", "FullRequest"} =>
         \E n \in Nat \ {0} :
            /\ IsHeader(n) /\ DeclaredLength(n) # BadLength
            /\ r.declared = DeclaredLength(n)
            /\ HeaderEnd(n) <= m /\ m + r.bytesLeft = RequestEnd(n)
            /\ r.body = SubSeq(input, HeaderEnd(n) + 1, m)
            /\ r.variant = "FullRequest" => r.bytesLeft = 0

(* It has been given the first p bytes.  What it keeps does not begin      *)
(* within a character.                                                     *)
Reached(r, m, p) ==
    /\ r \in IncrementalRequests
    /\ m \in 0..p
    /\ r.buf = Between(m, p)
    /\ Taken(r, m)
    /\ Utf8(input) /\ r.variant # "FullRequest" => m = p \/ m = 0 \/ input[m] # "u"

(* It can do nothing without more bytes.                                   *)
Waits(r) == \/ r.variant \in LineVariants /\ Breaks(r.buf) = {}
            \/ r.variant = "Body" /\ r.bytesLeft > 0 /\ r.buf = <<>>

(* A call returns it.                                                      *)
Ended(r) == r.variant \in {"FullRequest", "Err", "Panic"} \/ Waits(r)

(* What came of the first p bytes.                                         *)
ComesOf(r, p) ==
    \/ \E m \in 0..p : Reached(r, m, p)
    \/ /\ r = Err
       /\ \A n \in 1..Len(input) :
             Holds(Len(input), n) /\ Utf8(input) => p > 0 /\ input[p] = "u"
    \/ /\ r = Panic
       /\ \A n \in 1..Len(input) :
             Holds(Len(input), n) => ~CharBoundary(input, RequestEnd(n))

ReaderInv ==
    /\ input \in Inputs
    /\ position \in 0..Len(input)
    /\ outcome \in {"reading", "full", "answered", "err", "panic"}
    /\ outcome \in {"reading", "full", "answered"} =>
         \E m \in 0..position : Reached(request, m, position)
    /\ outcome = "reading" => Waits(request) /\ (Utf8(input) => ~CutCharacter)
    /\ outcome \in {"full", "answered"} => request.variant = "FullRequest"

(* Such a part of the input.                                               *)
LEMMA PieceIs ==
    ASSUME input \in Text, NEW p \in Nat, p <= Len(input), NEW m \in Nat, m <= p
    PROVE  /\ Between(m, p) \in Text /\ Len(Between(m, p)) = p - m
           /\ \A i \in 1..(p - m) : Between(m, p)[i] = input[m + i]
BY Piece DEF Between
-----------------------------------------------------------------------------
(* What the parser looks for.                                              *)

(* A call comes nearer to the end.                                         *)
Forward(r, next, p) ==
    ComesOf(next, p) /\ (Ended(next) \/ Len(next.buf) < Len(r.buf))

(* The ends of lines in a piece of the input.                              *)
LEMMA BreaksOfPiece ==
    ASSUME input \in Text, NEW m \in Nat, NEW p \in Nat, m <= p, p <= Len(input)
    PROVE  /\ Breaks(Between(m, p)) \subseteq Nat
           /\ \A i : i \in Breaks(Between(m, p)) <=>
                        i \in 1..(p - m - 1) /\ input[m + i] = "cr" /\ input[m + i + 1] = "lf"
<1> DEFINE s == Between(m, p)
<1>1. s \in Text /\ Len(s) = p - m /\ \A i \in 1..(p - m) : s[i] = input[m + i]
  BY Piece DEF Between
<1> HIDE DEF s
<1>2. ASSUME NEW i \in 1..(p - m - 1)
      PROVE  s[i] = input[m + i] /\ s[i + 1] = input[m + i + 1]
  <2>1. i \in 1..(p - m) /\ i + 1 \in 1..(p - m) /\ m + (i + 1) = m + i + 1
    OBVIOUS
  <2> QED BY <1>1, <2>1
<1>3. Breaks(s) = {i \in 1..(p - m - 1) : s[i] = "cr" /\ s[i + 1] = "lf"}
  BY <1>1 DEF Breaks
<1>4. Breaks(s) \subseteq Nat
  BY <1>3
<1>5. \A i : i \in Breaks(s) <=>
                i \in 1..(p - m - 1) /\ input[m + i] = "cr" /\ input[m + i + 1] = "lf"
  BY <1>2, <1>3
<1> QED BY <1>4, <1>5 DEF s

(* The end of line that is looked for is the first.                        *)
LEMMA NextBreakIsFirst ==
    ASSUME NEW s, Breaks(s) \subseteq Nat, Breaks(s) # {}
    PROVE  NextBreak(s) \in Breaks(s) /\ \A i \in Breaks(s) : NextBreak(s) <= i
<1>1. \E i \in Breaks(s) : \A j \in Breaks(s) : i <= j
  BY LeastNatural
<1> QED BY <1>1 DEF NextBreak

LineOf(s) == SubSeq(s, 1, NextBreak(s) - 1)
RestOf(s) == SubSeq(s, NextBreak(s) + 2, Len(s))

(* The line that is taken, and what is left.                               *)
LEMMA LineTaken ==
    ASSUME input \in Text, NEW m \in Nat, NEW p \in Nat, m <= p, p <= Len(input),
           Breaks(Between(m, p)) # {},
           NEW b, b = NextBreak(Between(m, p))
    PROVE  /\ b \in 1..(p - m - 1) /\ input[m + b] = "cr" /\ input[m + b + 1] = "lf"
           /\ \A i \in Breaks(Between(m, p)) : b <= i
           /\ LineOf(Between(m, p)) \in Text /\ Len(LineOf(Between(m, p))) = b - 1
           /\ \A i \in 1..(b - 1) : LineOf(Between(m, p))[i] = input[m + i]
           /\ RestOf(Between(m, p)) = Between(m + b + 1, p)
<1> DEFINE s == Between(m, p)
<1>1. b \in Breaks(s) /\ \A i \in Breaks(s) : b <= i
  BY BreaksOfPiece, NextBreakIsFirst
<1>2. b \in 1..(p - m - 1) /\ input[m + b] = "cr" /\ input[m + b + 1] = "lf"
  BY <1>1, BreaksOfPiece
<1>3. s \in Text /\ Len(s) = p - m /\ \A i \in 1..(p - m) : s[i] = input[m + i]
  BY PieceIs
<1>4. Len(input) \in Nat
  BY LenProperties DEF Text
<1>5. b = NextBreak(s)
  OBVIOUS
<1>6. s = Between(m, p)
  OBVIOUS
<1> HIDE DEF s
<1>7. /\ LineOf(s) \in Text /\ Len(LineOf(s)) = b - 1
      /\ \A i \in 1..(b - 1) : LineOf(s)[i] = input[m + i]
  <2> DEFINE c == b - 1
  <2>1. c \in Nat /\ 0 <= c /\ c <= Len(s) /\ 0 \in Nat /\ c - 0 = c
    BY <1>2, <1>3
  <2>2. LineOf(s) = SubSeq(s, 1, c)
    BY <1>5 DEF LineOf
  <2> HIDE DEF c
  <2>3. /\ SubSeq(s, 0 + 1, c) \in Text /\ Len(SubSeq(s, 0 + 1, c)) = c - 0
        /\ \A i \in 1..(c - 0) : SubSeq(s, 0 + 1, c)[i] = s[0 + i]
    BY <1>3, <2>1, Piece
  <2>4. 0 + 1 = 1 /\ \A i \in 1..c : 0 + i = i
    BY <2>1
  <2>5. \A i \in 1..c : SubSeq(s, 1, c)[i] = s[i]
    BY <2>1, <2>3, <2>4
  <2>6. \A i \in 1..c : i \in 1..(p - m)
    BY <1>3, <2>1
  <2>7. /\ SubSeq(s, 1, c) \in Text /\ Len(SubSeq(s, 1, c)) = c
        /\ \A i \in 1..c : SubSeq(s, 1, c)[i] = input[m + i]
    BY <1>3, <2>1, <2>3, <2>4, <2>5, <2>6
  <2> QED BY <2>2, <2>7 DEF c
<1>8. RestOf(s) = Between(m + b + 1, p)
  <2> DEFINE i == b + 1
             j == p - m
  <2>1. /\ i \in Nat /\ j \in Nat /\ i <= j /\ j <= p - m
        /\ i + 1 = b + 2 /\ j = Len(s) /\ m + i = m + b + 1 /\ m + j = p
    BY <1>2, <1>3
  <2>2. RestOf(s) = SubSeq(s, b + 2, Len(s))
    BY <1>5 DEF RestOf
  <2> HIDE DEF i, j
  <2>3. SubSeq(SubSeq(input, m + 1, p), i + 1, j) = SubSeq(input, (m + i) + 1, m + j)
    BY <1>4, <2>1, PieceOfPiece
  <2>4. SubSeq(s, i + 1, j) = Between(m + i, m + j)
    BY <1>6, <2>3 DEF Between
  <2> QED BY <2>1, <2>2, <2>4
<1> QED BY <1>1, <1>2, <1>6, <1>7, <1>8

(* A line of one symbol ends after it.                                     *)
LEMMA SymbolLine ==
    ASSUME input \in Text, NEW m \in Nat, NEW p \in Nat, m <= p, p <= Len(input),
           NEW s, s = Between(m, p), Breaks(s) # {},
           input[m + 1] # "cr", input[m + 2] = "cr", input[m + 3] = "lf"
    PROVE  NextBreak(s) = 2
<1>0. PICK b : b = NextBreak(s)
  OBVIOUS
<1>1. b \in 1..(p - m - 1) /\ input[m + b] = "cr" /\ \A i \in Breaks(s) : b <= i
  <2>1. b \in Breaks(s) /\ \A i \in Breaks(s) : b <= i
    BY <1>0, BreaksOfPiece, NextBreakIsFirst
  <2> QED BY <2>1, BreaksOfPiece
<1>2. b # 1
  BY <1>1
<1>3. 2 \in 1..(p - m - 1) /\ m + 2 + 1 = m + 3
  BY <1>1, <1>2
<1>4. 2 \in Breaks(s)
  <2>1. input[m + 2] = "cr" /\ input[m + 2 + 1] = "lf"
    BY <1>3
  <2>2. \A i : i \in Breaks(s) <=>
                 i \in 1..(p - m - 1) /\ input[m + i] = "cr" /\ input[m + i + 1] = "lf"
    BY BreaksOfPiece, SMTT(30)
  <2>3. 2 \in Breaks(s) <=>
           2 \in 1..(p - m - 1) /\ input[m + 2] = "cr" /\ input[m + 2 + 1] = "lf"
    BY <2>2, Zenon
  <2> QED BY <1>3, <2>1, <2>3
<1>5. b \in Nat /\ b >= 1
  BY <1>1
<1>6. b <= 2
  BY <1>1, <1>4
<1>7. b = 2
  BY <1>2, <1>5, <1>6
<1> QED BY <1>0, <1>7

(* A sequence of one element.                                              *)
LEMMA OneSymbol ==
    ASSUME NEW t \in Text, Len(t) = 1
    PROVE  t = <<t[1]>>
<1>1. t[1] \in Symbols
  BY ElementOfSeq DEF Text
<1>2. <<t[1]>> \in Seq(Symbols) /\ Len(<<t[1]>>) = 1 /\ <<t[1]>>[1] = t[1]
  BY <1>1
<1>3. \A i \in 1..Len(t) : <<t[1]>>[i] = t[i]
  BY <1>2
<1> QED BY <1>2, <1>3, SeqEqual DEF Text

(* A text that is cut between characters is made of characters.            *)
LEMMA Utf8Piece ==
    ASSUME input \in Text, Utf8(input), NEW m \in Nat, NEW p \in Nat, m <= p, p <= Len(input),
           m = 0 \/ input[m] # "u", p = 0 \/ input[p] # "u"
    PROVE  Utf8(Between(m, p))
<1> DEFINE s == Between(m, p)
<1>1. Len(s) = p - m /\ \A i \in 1..(p - m) : s[i] = input[m + i]
  BY Piece DEF Between
<1>2. Len(input) \in Nat
  BY LenProperties DEF Text
<1> HIDE DEF s
<1>3. ASSUME NEW i \in 1..(p - m), s[i] = "u" PROVE i < p - m /\ s[i + 1] = "v"
  <2>1. m + i \in 1..Len(input) /\ input[m + i] = "u"
    BY <1>1, <1>2, <1>3
  <2>2. input[(m + i) + 1] = "v"
    BY <2>1 DEF Utf8
  <2>3. m + i # p
    BY <2>1
  <2>4. i < p - m /\ i + 1 \in 1..(p - m) /\ m + (i + 1) = (m + i) + 1
    BY <2>3
  <2> QED BY <1>1, <2>2, <2>4
<1>4. ASSUME NEW i \in 1..(p - m), s[i] = "v" PROVE i > 1 /\ s[i - 1] = "u"
  <2>1. m + i \in 1..Len(input) /\ input[m + i] = "v"
    BY <1>1, <1>2, <1>4
  <2>2. m + i > 1 /\ input[(m + i) - 1] = "u"
    BY <2>1 DEF Utf8
  <2>3. i # 1
    <3> SUFFICES ASSUME i = 1 PROVE FALSE
      OBVIOUS
    <3>1. (m + i) - 1 = m /\ m # 0
      BY <2>2
    <3> QED BY <2>2, <3>1
  <2>4. i > 1 /\ i - 1 \in 1..(p - m) /\ m + (i - 1) = (m + i) - 1
    BY <2>3
  <2> QED BY <1>1, <2>2, <2>4
<1>5. Utf8(s)
  BY <1>1, <1>3, <1>4 DEF Utf8
<1> QED BY <1>5 DEF s
-----------------------------------------------------------------------------
(* The grammar.                                                            *)

(* A Content-Length is a number, or none.                                  *)
LEMMA LengthIsNumber ==
    ASSUME NEW n PROVE DeclaredLength(n) \in Int /\ (DeclaredLength(n) # BadLength => DeclaredLength(n) \in Nat)
<1>1. \A l : InsertHeader(0, l) \in {0, 1, 2, BadLength}
  BY DEF InsertHeader
<1>2. DeclaredLength(n) \in {0, 1, 2, BadLength}
  BY <1>1 DEF DeclaredLength
<1> QED BY <1>2 DEF BadLength

(* Without header lines there is no Content-Length.                        *)
LEMMA NoLines == DeclaredLength(0) = 0
BY DEF DeclaredLength

(* One header line more: the last Content-Length is the one that counts.   *)
LEMMA NextLine ==
    ASSUME NEW n \in Nat, input[3 * (n + 1) + 1] \in HeaderSymbols
    PROVE  DeclaredLength(n + 1) = InsertHeader(DeclaredLength(n), <<input[3 * (n + 1) + 1]>>)
<1> DEFINE h(k) == input[3 * k + 1]
           before == {k \in 1..n : h(k) # "head"}
           lengths == {k \in 1..(n + 1) : h(k) # "head"}
           next == h(n + 1)
<1>1. DeclaredLength(n + 1) = IF lengths = {} THEN 0 ELSE InsertHeader(0, <<h(Max(lengths))>>)
  BY DEF DeclaredLength
<1>2. DeclaredLength(n) = IF before = {} THEN 0 ELSE InsertHeader(0, <<h(Max(before))>>)
  BY DEF DeclaredLength
<1>3. next \in HeaderSymbols
  OBVIOUS
<1> HIDE DEF h
<1>4. \A k : k \in lengths <=> k \in before \/ (k = n + 1 /\ next # "head")
  OBVIOUS
<1>5. CASE next = "head"
  <2>1. lengths = before
    BY <1>4, <1>5
  <2>2. InsertHeader(DeclaredLength(n), <<next>>) = DeclaredLength(n)
    BY <1>5 DEF InsertHeader
  <2> HIDE DEF lengths, before, next
  <2>3. DeclaredLength(n + 1) = InsertHeader(DeclaredLength(n), <<next>>)
    BY <1>1, <1>2, <2>1, <2>2
  <2> QED BY <2>3 DEF next, h
<1>6. CASE next # "head"
  <2>1. n + 1 \in lengths /\ lengths \subseteq 1..(n + 1) /\ lengths # {}
    BY <1>6
  <2> HIDE DEF lengths
  <2>2. Max(lengths) = n + 1
    <3>1. \A x \in lengths : n + 1 >= x
      BY <2>1
    <3>2. \A x \in lengths : (\A y \in lengths : x >= y) => x = n + 1
      BY <2>1
    <3> QED BY <2>1, <3>1, <3>2 DEF Max
  <2>3. DeclaredLength(n + 1) = InsertHeader(0, <<next>>)
    BY <1>1, <2>1, <2>2
  <2> HIDE DEF next
  <2>4. InsertHeader(DeclaredLength(n), <<next>>) = InsertHeader(0, <<next>>)
    BY <1>3, <1>6 DEF InsertHeader, HeaderSymbols
  <2>5. DeclaredLength(n + 1) = InsertHeader(DeclaredLength(n), <<next>>)
    BY <2>3, <2>4
  <2> QED BY <2>5 DEF next, h
<1> QED BY <1>5, <1>6

(* One line more.                                                          *)
LEMMA OneLineMore ==
    ASSUME NEW n \in Nat, Lines(n), 3 * n + 6 <= Len(input), Len(input) \in Nat,
           input[3 * n + 4] \in HeaderSymbols, input[3 * n + 5] = "cr", input[3 * n + 6] = "lf"
    PROVE  /\ Lines(n + 1)
           /\ DeclaredLength(n + 1) = InsertHeader(DeclaredLength(n), <<input[3 * n + 4]>>)
<1>1. /\ 3 * (n + 1) + 1 = 3 * n + 4 /\ 3 * (n + 1) + 2 = 3 * n + 5
      /\ 3 * (n + 1) + 3 = 3 * n + 6
  OBVIOUS
<1>2. /\ \A k \in 1..(n + 1) : k \in 1..n \/ k = n + 1
      /\ \A k \in 0..(n + 1) : k \in 0..n \/ k = n + 1
  OBVIOUS
<1>3. Lines(n + 1)
  BY <1>1, <1>2 DEF Lines
<1>4. input[3 * (n + 1) + 1] \in HeaderSymbols
  BY <1>1
<1> QED BY <1>1, <1>3, <1>4, NextLine

(* After fewer header lines comes another one, not the blank line.         *)
LEMMA OtherLineFollows ==
    ASSUME NEW n \in Nat, NEW k \in Nat, Lines(n), k < n
    PROVE  /\ input[3 * k + 4] \in HeaderSymbols /\ input[3 * k + 4] # "cr"
           /\ input[3 * k + 5] = "cr" /\ input[3 * k + 6] = "lf"
           /\ 3 * k + 6 <= 3 * n + 3
<1>1. /\ k + 1 \in 1..n /\ k + 1 \in 0..n
      /\ 3 * (k + 1) + 1 = 3 * k + 4 /\ 3 * (k + 1) + 2 = 3 * k + 5
      /\ 3 * (k + 1) + 3 = 3 * k + 6
  OBVIOUS
<1>2. /\ input[3 * (k + 1) + 1] \in HeaderSymbols
      /\ input[3 * (k + 1) + 2] = "cr" /\ input[3 * (k + 1) + 3] = "lf"
  BY <1>1 DEF Lines
<1>3. input[3 * k + 4] # "cr"
  BY <1>1, <1>2 DEF HeaderSymbols
<1> QED BY <1>1, <1>2, <1>3

(* The input has one number of header lines.                               *)
LEMMA OneHeader ==
    ASSUME NEW n \in Nat, NEW k \in Nat, IsHeader(n), IsHeader(k)
    PROVE  n = k
<1>1. Lines(n) /\ Lines(k) /\ input[3 * n + 4] = "cr" /\ input[3 * k + 4] = "cr"
  BY DEF IsHeader
<1>2. ~(k < n) /\ ~(n < k)
  BY <1>1, OtherLineFollows
<1> QED BY <1>2
-----------------------------------------------------------------------------
(* One call.                                                               *)

Reading == {"None", "RequestLine", "HeaderLines", "Body"}

(* The text that is kept of the input.                                     *)
LEMMA Kept ==
    ASSUME input \in Text, NEW p \in Nat, p <= Len(input), NEW m \in 0..p,
           NEW r, Reached(r, m, p)
    PROVE  /\ r \in IncrementalRequests /\ r.buf \in Text /\ Len(r.buf) = p - m
           /\ \A i \in 1..(p - m) : r.buf[i] = input[m + i]
           /\ m \in Nat /\ m <= p /\ Len(input) \in Nat
<1>1. m \in Nat /\ m <= p
  OBVIOUS
<1>2. r \in IncrementalRequests /\ r.buf = Between(m, p)
  BY DEF Reached
<1> QED BY <1>1, <1>2, Piece, LenProperties DEF Text, Between

(* An Err for text that is no UTF-8: a read was cut within a character.    *)
LEMMA CutRefuses ==
    ASSUME input \in Text, NEW p \in Nat, p <= Len(input), NEW m \in 0..p,
           NEW r, Reached(r, m, p), r.variant \in Reading, ~Utf8(r.buf)
    PROVE  Forward(r, Err, p)
<1>1. /\ r.buf \in Text /\ Len(r.buf) = p - m /\ m \in Nat /\ m <= p
      /\ r.buf = Between(m, p)
  BY Kept DEF Reached
<1>2. m # p
  <2> SUFFICES ASSUME m = p PROVE FALSE
    OBVIOUS
  <2>1. Len(r.buf) = 0
    BY <1>1
  <2> QED BY <2>1 DEF Utf8
<1>3. ASSUME Utf8(input) PROVE p > 0 /\ input[p] = "u"
  <2>1. m = 0 \/ input[m] # "u"
    BY <1>2, <1>3 DEF Reached, Reading
  <2>2. ~(p = 0 \/ input[p] # "u")
    BY <1>1, <1>3, <2>1, Utf8Piece
  <2> QED BY <2>2
<1> QED BY <1>3 DEF Forward, ComesOf, Ended, Err, NoRequest

(* None: the request line, and nothing else.                               *)
LEMMA RequestLineTaken ==
    ASSUME input \in Text, NEW p \in Nat, p <= Len(input), NEW m \in 0..p,
           NEW r, Reached(r, m, p), r.variant = "None", Breaks(r.buf) # {}
    PROVE  Forward(r, TakeLine(r, LineOf(r.buf), RestOf(r.buf)), p)
<1> DEFINE l == LineOf(r.buf)
           rest == RestOf(r.buf)
<1>1. /\ r \in IncrementalRequests /\ Len(r.buf) = p - m /\ m \in Nat /\ m <= p
      /\ r.buf = Between(m, p) /\ Len(input) \in Nat
  BY Kept DEF Reached
<1>2. PICK b : b = NextBreak(r.buf)
  OBVIOUS
<1>3. /\ b \in 1..(p - m - 1) /\ input[m + b] = "cr" /\ input[m + b + 1] = "lf"
      /\ l \in Text /\ Len(l) = b - 1 /\ \A i \in 1..(b - 1) : l[i] = input[m + i]
      /\ rest = Between(m + b + 1, p)
  BY <1>1, <1>2, LineTaken
<1>4. m = 0 /\ r.declared = 0 /\ r.body = <<>>
  BY DEF Reached, Taken
<1> HIDE DEF l, rest
<1>5. CASE RequestLineParses(l)
  <2> DEFINE next == [r EXCEPT !.variant = "RequestLine", !.buf = rest]
  <2>1. TakeLine(r, l, rest) = next
    BY <1>5 DEF TakeLine
  <2>2. /\ input[1] = "line" /\ input[2] = "cr" /\ input[3] = "lf" /\ 3 <= p
        /\ rest = Between(3, p)
    <3>1. Len(l) = 1 /\ l[1] = "line"
      BY <1>5 DEF RequestLineParses
    <3>2. b \in 1..(p - m - 1) /\ b - 1 = 1
      BY <1>3, <3>1
    <3>3. b = 2 /\ 1 \in 1..(b - 1) /\ m + 1 = 1 /\ m + b = 2 /\ m + b + 1 = 3 /\ 3 <= p
      BY <1>4, <3>2
    <3>4. input[1] = "line"
      BY <1>3, <3>1, <3>3
    <3> QED BY <1>3, <3>3, <3>4
  <2>3. rest \in Text /\ Len(rest) = p - 3
    <3>1. 3 \in Nat
      OBVIOUS
    <3> QED BY <2>2, <3>1, PieceIs
  <2>4. Lines(0)
    BY <1>1, <2>2 DEF Lines
  <2>5. /\ next \in IncrementalRequests /\ next.variant = "RequestLine" /\ next.buf = rest
        /\ next.declared = 0 /\ next.body = <<>>
    BY <1>1, <1>4, <2>3 DEF IncrementalRequests, Text
  <2> HIDE DEF next
  <2>6. Taken(next, 3)
    <3>1. 3 = 3 * 0 + 3 /\ 0 \in Nat
      OBVIOUS
    <3> QED BY <2>4, <2>5, <3>1, NoLines DEF Taken, Refused
  <2>7. Reached(next, 3, p) /\ 3 \in 0..p
    BY <2>2, <2>5, <2>6 DEF Reached
  <2>8. Len(next.buf) < Len(r.buf)
    BY <1>1, <1>4, <2>3, <2>5
  <2>9. Forward(r, next, p)
    BY <2>7, <2>8 DEF Forward, ComesOf
  <2> QED BY <2>1, <2>9 DEF l, rest
<1>6. CASE ~RequestLineParses(l)
  <2>1. TakeLine(r, l, rest) = Err
    BY <1>6 DEF TakeLine
  <2>2. ASSUME NEW n \in 1..Len(input), Holds(Len(input), n) PROVE FALSE
    <3>1. input[1] = "line" /\ input[2] = "cr" /\ input[3] = "lf"
      <4>1. Lines(n) /\ 0 \in 0..n /\ 3 * 0 + 2 = 2 /\ 3 * 0 + 3 = 3
        BY <2>2 DEF Holds, IsHeader
      <4> QED BY <4>1 DEF Lines
    <3>2. m + 1 = 1 /\ m + 2 = 2 /\ m + 3 = 3
      BY <1>4
    <3>3. b = 2
      BY <1>1, <1>2, <3>1, <3>2, SymbolLine
    <3>4. Len(l) = 1 /\ l[1] = "line"
      BY <1>3, <3>1, <3>2, <3>3
    <3> QED BY <1>3, <1>6, <3>4, OneSymbol DEF RequestLineParses
  <2>3. Forward(r, Err, p)
    BY <2>2 DEF Forward, ComesOf, Ended, Err, NoRequest
  <2> QED BY <2>1, <2>3 DEF l, rest
<1> QED BY <1>5, <1>6

(* RequestLine and HeaderLines: a header line.                             *)
LEMMA HeaderLineTaken ==
    ASSUME input \in Text, NEW p \in Nat, p <= Len(input), NEW m \in 0..p,
           NEW r, Reached(r, m, p), r.variant \in {"RequestLine", "HeaderLines"},
           Breaks(r.buf) # {}, ~(r.variant = "HeaderLines" /\ LineOf(r.buf) = <<>>)
    PROVE  Forward(r, TakeLine(r, LineOf(r.buf), RestOf(r.buf)), p)
<1> DEFINE l == LineOf(r.buf)
           rest == RestOf(r.buf)
<1>1. /\ r \in IncrementalRequests /\ Len(r.buf) = p - m /\ m \in Nat /\ m <= p
      /\ r.buf = Between(m, p) /\ Len(input) \in Nat
  BY Kept DEF Reached
<1>2. PICK b : b = NextBreak(r.buf)
  OBVIOUS
<1>3. /\ b \in 1..(p - m - 1) /\ input[m + b] = "cr" /\ input[m + b + 1] = "lf"
      /\ \A i \in Breaks(Between(m, p)) : b <= i
      /\ l \in Text /\ Len(l) = b - 1 /\ \A i \in 1..(b - 1) : l[i] = input[m + i]
      /\ rest = Between(m + b + 1, p)
  BY <1>1, <1>2, LineTaken
<1>4. PICK n \in Nat : /\ m = 3 * n + 3 /\ Lines(n)
                       /\ r.declared = DeclaredLength(n) /\ r.body = <<>>
                       /\ r.variant = "RequestLine" <=> n = 0
  BY DEF Reached, Taken
<1>5. /\ m + 1 = 3 * n + 4 /\ m + 2 = 3 * n + 5 /\ m + 3 = 3 * n + 6
      /\ m + 2 + 1 = 3 * n + 6 /\ 3 * n + 6 = 3 * (n + 1) + 3
  BY <1>4
<1> HIDE DEF l, rest
<1>6. TakeLine(r, l, rest) = IF HeaderLineParses(l)
                             THEN [r EXCEPT !.variant = "HeaderLines",
                                            !.declared = InsertHeader(@, l), !.buf = rest]
                             ELSE Err
  BY DEF TakeLine, l
<1>7. CASE HeaderLineParses(l)
  <2> DEFINE next == [r EXCEPT !.variant = "HeaderLines",
                               !.declared = InsertHeader(@, l), !.buf = rest]
             q == m + 3
  <2>1. TakeLine(r, l, rest) = next
    BY <1>6, <1>7
  <2>2. Len(l) = 1 /\ l[1] \in HeaderSymbols
    BY <1>7 DEF HeaderLineParses
  <2>3. b = 2 /\ 1 \in 1..(b - 1) /\ q \in Nat /\ q <= p /\ m + b + 1 = q /\ m + b = m + 2
    <3>1. b \in 1..(p - m - 1) /\ b - 1 = 1
      BY <1>3, <2>2
    <3> QED BY <1>1, <3>1
  <2>4. /\ input[3 * n + 4] \in HeaderSymbols /\ input[3 * n + 5] = "cr"
        /\ input[3 * n + 6] = "lf" /\ 3 * n + 6 <= Len(input) /\ l[1] = input[3 * n + 4]
    BY <1>1, <1>3, <1>5, <2>2, <2>3
  <2>5. Lines(n + 1) /\ DeclaredLength(n + 1) = InsertHeader(DeclaredLength(n), <<input[3 * n + 4]>>)
    BY <1>1, <1>4, <2>4, OneLineMore
  <2>6. l = <<input[3 * n + 4]>>
    BY <1>3, <2>2, <2>4, OneSymbol
  <2>7. InsertHeader(r.declared, l) = DeclaredLength(n + 1)
    BY <1>4, <2>5, <2>6
  <2>8. rest = Between(q, p) /\ rest \in Text /\ Len(rest) = p - q
    <3>1. rest = Between(q, p)
      BY <1>3, <2>3
    <3> HIDE DEF q
    <3> QED BY <2>3, <3>1, PieceIs
  <2>9. /\ next \in IncrementalRequests /\ next.variant = "HeaderLines" /\ next.buf = rest
        /\ next.declared = DeclaredLength(n + 1) /\ next.body = <<>>
    BY <1>1, <1>4, <2>7, <2>8, LengthIsNumber DEF IncrementalRequests, Text
  <2>10. q = 3 * (n + 1) + 3 /\ n + 1 \in Nat /\ n + 1 # 0 /\ input[q] = "lf"
    BY <1>4, <1>5, <2>4
  <2>11. Len(next.buf) < Len(r.buf)
    BY <1>1, <2>3, <2>8, <2>9
  <2> HIDE DEF next, q
  <2>12. Taken(next, q)
    BY <2>5, <2>9, <2>10 DEF Taken, Refused
  <2>13. Reached(next, q, p) /\ q \in 0..p
    BY <2>3, <2>8, <2>9, <2>10, <2>12 DEF Reached
  <2>14. Forward(r, next, p)
    BY <2>11, <2>13 DEF Forward, ComesOf
  <2> QED BY <2>1, <2>14 DEF l, rest
<1>8. CASE ~HeaderLineParses(l)
  <2>1. TakeLine(r, l, rest) = Err
    BY <1>6, <1>8
  <2>2. ASSUME NEW k \in 1..Len(input), Holds(Len(input), k) PROVE FALSE
    <3>1. k \in Nat /\ k # 0 /\ Lines(k) /\ input[3 * k + 4] = "cr" /\ input[3 * k + 5] = "lf"
      BY <1>1, <2>2 DEF Holds, IsHeader
    <3>2. CASE k < n
      BY <1>4, <3>1, <3>2, OtherLineFollows
    <3>3. CASE k = n
      <4>1. 1 \in 1..(p - m - 1) /\ m + 1 + 1 = m + 2
        BY <1>3
      <4>2. 1 \in Breaks(Between(m, p))
        <5>1. 1 \in 1..(p - m - 1) /\ input[m + 1] = "cr" /\ input[m + 1 + 1] = "lf"
          BY <1>5, <3>1, <3>3, <4>1
        <5> QED BY <1>1, <5>1, BreaksOfPiece
      <4>3. b = 1
        BY <1>3, <4>1, <4>2
      <4>4. Len(l) = 0 /\ l \in Seq(Symbols)
        BY <1>3, <4>3 DEF Text
      <4>5. l = <<>>
        BY <4>4, EmptySeq
      <4> QED BY <1>4, <3>1, <3>3, <4>5 DEF l
    <3>4. CASE n < k
      <4>1. /\ input[m + 1] \in HeaderSymbols /\ input[m + 1] # "cr"
            /\ input[m + 2] = "cr" /\ input[m + 3] = "lf"
        BY <1>4, <1>5, <3>1, <3>4, OtherLineFollows
      <4>2. b = 2
        BY <1>1, <1>2, <4>1, SymbolLine
      <4>3. Len(l) = 1 /\ l[1] \in HeaderSymbols
        BY <1>3, <4>1, <4>2
      <4> QED BY <1>8, <4>3 DEF HeaderLineParses
    <3> QED BY <1>4, <3>1, <3>2, <3>3, <3>4
  <2>3. Forward(r, Err, p)
    BY <2>2 DEF Forward, ComesOf, Ended, Err, NoRequest
  <2> QED BY <2>1, <2>3 DEF l, rest
<1> QED BY <1>7, <1>8

(* HeaderLines: the blank line.                                            *)
LEMMA BlankLineTaken ==
    ASSUME input \in Text, NEW p \in Nat, p <= Len(input), NEW m \in 0..p,
           NEW r, Reached(r, m, p), r.variant = "HeaderLines",
           Breaks(r.buf) # {}, LineOf(r.buf) = <<>>
    PROVE  Forward(r, TakeLine(r, LineOf(r.buf), RestOf(r.buf)), p)
<1> DEFINE rest == RestOf(r.buf)
<1>1. /\ r \in IncrementalRequests /\ Len(r.buf) = p - m /\ m \in Nat /\ m <= p
      /\ r.buf = Between(m, p) /\ Len(input) \in Nat
  BY Kept DEF Reached
<1>2. PICK b : b = NextBreak(r.buf)
  OBVIOUS
<1>3. /\ b \in 1..(p - m - 1) /\ input[m + b] = "cr" /\ input[m + b + 1] = "lf"
      /\ Len(LineOf(r.buf)) = b - 1 /\ rest = Between(m + b + 1, p)
  BY <1>1, <1>2, LineTaken
<1>4. PICK n \in Nat : /\ m = 3 * n + 3 /\ Lines(n) /\ n # 0
                       /\ r.declared = DeclaredLength(n) /\ r.body = <<>>
  BY DEF Reached, Taken
<1>5. /\ b = 1 /\ input[3 * n + 4] = "cr" /\ input[3 * n + 5] = "lf"
      /\ HeaderEnd(n) \in Nat /\ HeaderEnd(n) <= p
      /\ HeaderEnd(n) = m + 2 /\ rest = Between(HeaderEnd(n), p) /\ input[HeaderEnd(n)] = "lf"
  <2>1. b - 1 = 0
    BY <1>3
  <2>2. b = 1 /\ m + b = 3 * n + 4 /\ m + b + 1 = 3 * n + 5 /\ 3 * n + 5 <= p
        /\ 3 * n + 5 = m + 2 /\ 3 * n + 5 \in Nat
    BY <1>3, <1>4, <2>1
  <2> QED BY <1>3, <2>2 DEF HeaderEnd
<1>6. IsHeader(n)
  BY <1>1, <1>4, <1>5 DEF IsHeader
<1> HIDE DEF rest
<1>7. TakeLine(r, <<>>, rest) = IF r.declared = BadLength THEN Err
                                ELSE [r EXCEPT !.variant = "Body",
                                               !.bytesLeft = r.declared, !.buf = rest]
  BY DEF TakeLine
<1>8. CASE r.declared = BadLength
  <2>1. ASSUME NEW k \in 1..Len(input), Holds(Len(input), k) PROVE FALSE
    <3>1. k \in Nat /\ IsHeader(k) /\ DeclaredLength(k) # BadLength
      BY <2>1 DEF Holds
    <3> QED BY <1>4, <1>6, <1>8, <3>1, OneHeader
  <2>2. Forward(r, Err, p)
    BY <2>1 DEF Forward, ComesOf, Ended, Err, NoRequest
  <2> QED BY <1>7, <1>8, <2>2 DEF rest
<1>9. CASE r.declared # BadLength
  <2> DEFINE next == [r EXCEPT !.variant = "Body", !.bytesLeft = r.declared, !.buf = rest]
             q == HeaderEnd(n)
  <2>1. TakeLine(r, <<>>, rest) = next
    BY <1>7, <1>9
  <2>2. r.declared \in Nat
    BY <1>4, <1>9, LengthIsNumber
  <2>3. rest \in Text /\ Len(rest) = p - q
    BY <1>5, PieceIs
  <2>4. /\ next \in IncrementalRequests /\ next.variant = "Body" /\ next.buf = rest
        /\ next.declared = DeclaredLength(n) /\ next.bytesLeft = DeclaredLength(n)
        /\ next.body = <<>>
    BY <1>1, <1>4, <2>2, <2>3 DEF IncrementalRequests, Text
  <2>5. SubSeq(input, q + 1, q) = <<>>
    <3>1. Between(q, q) \in Seq(Symbols) /\ Len(Between(q, q)) = 0
      <4>1. q \in Nat /\ q <= Len(input) /\ q <= q /\ q - q = 0
        BY <1>1, <1>5
      <4> HIDE DEF q
      <4> QED BY <4>1, PieceIs DEF Text
    <3> HIDE DEF q
    <3> QED BY <3>1, EmptySeq DEF Between
  <2>6. Len(next.buf) < Len(r.buf)
    BY <1>1, <1>5, <2>3, <2>4
  <2> HIDE DEF next
  <2>7. Taken(next, q)
    <3>1. q + DeclaredLength(n) = RequestEnd(n) /\ q <= q
      BY <1>5 DEF RequestEnd
    <3> QED BY <1>4, <1>6, <1>9, <2>4, <2>5, <3>1 DEF Taken, Refused
  <2>8. Reached(next, q, p) /\ q \in 0..p
    BY <1>5, <2>4, <2>7 DEF Reached
  <2>9. Forward(r, next, p)
    BY <2>6, <2>8 DEF Forward, ComesOf
  <2> QED BY <2>1, <2>9 DEF rest
<1> QED BY <1>8, <1>9

(* Two pieces that follow each other.                                      *)
LEMMA PiecesJoin ==
    ASSUME input \in Text, NEW h \in Nat, NEW m \in Nat, NEW q \in Nat,
           h <= m, m <= q, q <= Len(input)
    PROVE  Between(h, m) \o Between(m, q) = Between(h, q)
BY Joined DEF Between

(* The first k bytes of a piece, and the others.                           *)
LEMMA PieceSplit ==
    ASSUME input \in Text, NEW p \in Nat, p <= Len(input), NEW m \in Nat, m <= p,
           NEW k \in Nat, k <= p - m
    PROVE  /\ SubSeq(Between(m, p), 1, k) = Between(m, m + k)
           /\ SubSeq(Between(m, p), k + 1, Len(Between(m, p))) = Between(m + k, p)
<1>1. Len(input) \in Nat
  BY LenProperties DEF Text
<1>2. SubSeq(SubSeq(input, m + 1, p), 0 + 1, k) = SubSeq(input, (m + 0) + 1, m + k)
  <2>1. 0 \in Nat /\ 0 <= k
    OBVIOUS
  <2> QED BY <2>1, PieceOfPiece
<1>3. 0 + 1 = 1 /\ m + 0 = m
  OBVIOUS
<1>4. SubSeq(Between(m, p), 1, k) = Between(m, m + k)
  BY <1>2, <1>3 DEF Between
<1>5. Len(Between(m, p)) = p - m
  BY PieceIs
<1> DEFINE j == p - m
<1>6. j \in Nat /\ k <= j /\ j <= p - m /\ m + j = p
  OBVIOUS
<1> HIDE DEF j
<1>7. SubSeq(SubSeq(input, m + 1, p), k + 1, j) = SubSeq(input, (m + k) + 1, m + j)
  BY <1>1, <1>6, PieceOfPiece
<1>8. SubSeq(Between(m, p), k + 1, j) = Between(m + k, p)
  BY <1>6, <1>7 DEF Between
<1>9. SubSeq(Between(m, p), k + 1, Len(Between(m, p))) = Between(m + k, p)
  BY <1>5, <1>8 DEF j
<1> QED BY <1>4, <1>9

(* Body: as many bytes as are missing, or all there are.                   *)
LEMMA BodyTaken ==
    ASSUME input \in Text, NEW p \in Nat, p <= Len(input), NEW m \in 0..p,
           NEW r, Reached(r, m, p), r.variant = "Body"
    PROVE  Forward(r, TakeBody(r, r.buf), p)
<1> DEFINE s == r.buf
           k == BytesToAdd(r, s)
           q == m + k
<1>1. /\ r \in IncrementalRequests /\ s \in Text /\ Len(s) = p - m /\ m \in Nat /\ m <= p
      /\ s = Between(m, p) /\ Len(input) \in Nat
      /\ \A i \in 1..(p - m) : s[i] = input[m + i]
  BY Kept DEF Reached
<1>2. PICK n \in Nat \ {0} :
        /\ IsHeader(n) /\ DeclaredLength(n) # BadLength /\ r.declared = DeclaredLength(n)
        /\ HeaderEnd(n) <= m /\ m + r.bytesLeft = RequestEnd(n)
        /\ r.body = SubSeq(input, HeaderEnd(n) + 1, m)
  BY DEF Reached, Taken
<1>3. r.bytesLeft \in Nat
  BY <1>1 DEF IncrementalRequests
<1>4. /\ k \in Nat /\ k <= r.bytesLeft /\ k <= p - m
      /\ k < r.bytesLeft => k = p - m
  BY <1>1, <1>3 DEF BytesToAdd
<1>5. q \in Nat /\ m <= q /\ q <= p
  BY <1>1, <1>4
<1>6. TakeBody(r, s) = IF ~CharBoundary(s, k) THEN Panic
                       ELSE [r EXCEPT !.variant = IF r.bytesLeft = k THEN "FullRequest" ELSE "Body",
                                      !.body = @ \o SubSeq(s, 1, k),
                                      !.bytesLeft = @ - k,
                                      !.buf = SubSeq(s, k + 1, Len(s))]
  BY DEF TakeBody
<1> HIDE DEF k
<1>7. CASE ~CharBoundary(s, k)
  <2>1. k # p - m /\ s[k + 1] = "v"
    BY <1>1, <1>7 DEF CharBoundary
  <2>2. k + 1 \in 1..(p - m) /\ m + (k + 1) = q + 1 /\ q # Len(input) /\ q = RequestEnd(n)
    <3>1. k < p - m
      BY <1>1, <1>4, <2>1
    <3>2. ~(k < r.bytesLeft)
      BY <1>1, <1>4, <3>1
    <3>3. k = r.bytesLeft
      BY <1>3, <1>4, <3>2
    <3>4. q = RequestEnd(n)
      BY <1>2, <3>3
    <3> QED BY <1>1, <1>4, <3>1, <3>4
  <2>3. input[q + 1] = "v"
    BY <1>1, <2>1, <2>2
  <2>4. ASSUME NEW j \in 1..Len(input), Holds(Len(input), j)
        PROVE  ~CharBoundary(input, RequestEnd(j))
    <3>1. j = n
      BY <1>2, <2>4, OneHeader DEF Holds
    <3> QED BY <2>2, <2>3, <3>1 DEF CharBoundary
  <2>5. Forward(r, Panic, p)
    BY <2>4 DEF Forward, ComesOf, Ended, Panic, NoRequest
  <2> QED BY <1>6, <1>7, <2>5
<1>8. CASE CharBoundary(s, k)
  <2> DEFINE next == [r EXCEPT !.variant = IF r.bytesLeft = k THEN "FullRequest" ELSE "Body",
                               !.body = @ \o SubSeq(s, 1, k),
                               !.bytesLeft = @ - k,
                               !.buf = SubSeq(s, k + 1, Len(s))]
  <2>1. TakeBody(r, s) = next
    BY <1>6, <1>8
  <2>2. SubSeq(s, 1, k) = Between(m, q) /\ SubSeq(s, k + 1, Len(s)) = Between(q, p)
    <3>1. /\ SubSeq(Between(m, p), 1, k) = Between(m, m + k)
          /\ SubSeq(Between(m, p), k + 1, Len(Between(m, p))) = Between(m + k, p)
      BY <1>1, <1>4, PieceSplit
    <3> QED BY <1>1, <3>1
  <2>3. HeaderEnd(n) \in Nat
    BY DEF HeaderEnd
  <2>4. r.body \o Between(m, q) = SubSeq(input, HeaderEnd(n) + 1, q)
    <3>1. q <= Len(input)
      BY <1>1, <1>5
    <3> HIDE DEF q
    <3>2. Between(HeaderEnd(n), m) \o Between(m, q) = Between(HeaderEnd(n), q)
      BY <1>1, <1>2, <1>5, <2>3, <3>1, PiecesJoin
    <3> QED BY <1>2, <3>2 DEF Between
  <2>5. Between(q, p) \in Text /\ Len(Between(q, p)) = p - q
    <3> HIDE DEF q
    <3> QED BY <1>5, PieceIs
  <2>6. SubSeq(input, HeaderEnd(n) + 1, q) \in Text
    <3>1. q <= Len(input) /\ HeaderEnd(n) <= q
      BY <1>1, <1>2, <1>5, <2>3
    <3> HIDE DEF q
    <3> QED BY <1>5, <2>3, <3>1, Piece
  <2>7. /\ next \in IncrementalRequests /\ next.declared = r.declared
        /\ next.body = SubSeq(input, HeaderEnd(n) + 1, q) /\ next.buf = Between(q, p)
        /\ next.bytesLeft = r.bytesLeft - k
        /\ next.variant = IF r.bytesLeft = k THEN "FullRequest" ELSE "Body"
    <3>1. r.bytesLeft - k \in Nat
      BY <1>3, <1>4
    <3> QED BY <1>1, <2>2, <2>4, <2>5, <2>6, <3>1 DEF IncrementalRequests, Text
  <2> HIDE DEF next
  <2>8. /\ q + next.bytesLeft = RequestEnd(n) /\ HeaderEnd(n) <= q
        /\ next.variant \in {"Body", "FullRequest"}
        /\ next.variant = "FullRequest" => next.bytesLeft = 0
        /\ next.variant = "Body" => next.bytesLeft > 0 /\ q = p
    <3>1. CASE r.bytesLeft = k
      <4>1. next.variant = "FullRequest" /\ next.bytesLeft = 0
        BY <1>3, <2>7, <3>1
      <4>2. q + 0 = RequestEnd(n) /\ HeaderEnd(n) <= q
        BY <1>1, <1>2, <1>5, <2>3, <3>1
      <4> QED BY <4>1, <4>2
    <3>2. CASE r.bytesLeft # k
      <4>1. k < r.bytesLeft
        BY <1>3, <1>4, <3>2
      <4>2. next.variant = "Body" /\ next.bytesLeft > 0
        BY <1>3, <1>4, <2>7, <3>2, <4>1
      <4>3. q = p
        BY <1>1, <1>4, <4>1
      <4>4. q + (r.bytesLeft - k) = RequestEnd(n) /\ HeaderEnd(n) <= q
        <5>1. k \in Nat /\ q = m + k /\ RequestEnd(n) = m + r.bytesLeft
          BY <1>2, <1>4, <1>5
        <5> HIDE DEF q
        <5> QED BY <1>1, <1>2, <1>3, <1>5, <2>3, <5>1
      <4> QED BY <2>7, <4>2, <4>3, <4>4
    <3> QED BY <3>1, <3>2
  <2> HIDE DEF q
  <2>9. Taken(next, q)
    BY <1>2, <2>7, <2>8 DEF Taken, Refused
  <2>10. Reached(next, q, p) /\ q \in 0..p
    BY <1>5, <2>7, <2>8, <2>9 DEF Reached
  <2>11. Ended(next)
    <3>1. CASE next.variant = "FullRequest"
      BY <3>1 DEF Ended
    <3>2. CASE next.variant = "Body"
      <4>1. Len(next.buf) = 0 /\ next.buf \in Seq(Symbols)
        BY <1>5, <2>5, <2>7, <2>8, <3>2 DEF Text
      <4>2. next.buf = <<>>
        BY <4>1, EmptySeq
      <4> QED BY <2>8, <3>2, <4>2 DEF Ended, Waits
    <3> QED BY <2>8, <3>1, <3>2
  <2>12. Forward(r, next, p)
    BY <2>10, <2>11 DEF Forward, ComesOf
  <2> QED BY <2>1, <2>12
<1> QED BY <1>7, <1>8

(* Any call.                                                               *)
LEMMA ParseForward ==
    ASSUME input \in Text, NEW p \in Nat, p <= Len(input), NEW m \in 0..p,
           NEW r, Reached(r, m, p)
    PROVE  Forward(r, Parse[r], p)
<1> DEFINE s == r.buf
<1>1. r \in IncrementalRequests /\ r.variant \notin Refused
  BY DEF Reached, Taken
<1>2. Parse[r] = CASE r.variant \in {"FullRequest", "Err", "Panic"} -> r
                   [] r.variant \in {"None", "RequestLine", "HeaderLines", "Body"} /\ ~Utf8(s) -> Err
                   [] r.variant = "Body" /\ Utf8(s) -> TakeBody(r, s)
                   [] r.variant \in {"None", "RequestLine", "HeaderLines"} /\ Utf8(s) ->
                        IF Breaks(s) = {} THEN r
                        ELSE TakeLine(r, LineOf(s), RestOf(s))
  BY <1>1 DEF Parse, LineOf, RestOf
<1>3. r.variant \in Reading \/ r.variant = "FullRequest"
  BY <1>1 DEF IncrementalRequests, Reading, Refused
<1>4. CASE r.variant = "FullRequest"
  <2>1. Parse[r] = r
    BY <1>2, <1>4
  <2> QED BY <1>4, <2>1 DEF Forward, ComesOf, Ended
<1>5. CASE r.variant \in Reading /\ ~Utf8(s)
  <2>1. Parse[r] = Err
    BY <1>2, <1>5 DEF Reading
  <2> QED BY <1>5, <2>1, CutRefuses
<1>6. CASE r.variant = "Body" /\ Utf8(s)
  <2>1. Parse[r] = TakeBody(r, s)
    BY <1>2, <1>6
  <2> QED BY <1>6, <2>1, BodyTaken
<1>7. CASE r.variant \in LineVariants /\ Utf8(s)
  <2>1. CASE Breaks(s) = {}
    <3>1. Parse[r] = r
      BY <1>2, <1>7, <2>1 DEF LineVariants
    <3> QED BY <1>7, <2>1, <3>1 DEF Forward, ComesOf, Ended, Waits
  <2>2. CASE Breaks(s) # {}
    <3>1. Parse[r] = TakeLine(r, LineOf(s), RestOf(s))
      BY <1>2, <1>7, <2>2 DEF LineVariants
    <3>2. CASE r.variant = "None"
      BY <2>2, <3>1, <3>2, RequestLineTaken
    <3>3. CASE r.variant = "HeaderLines" /\ LineOf(s) = <<>>
      BY <2>2, <3>1, <3>3, BlankLineTaken
    <3>4. CASE r.variant \in {"RequestLine", "HeaderLines"}
               /\ ~(r.variant = "HeaderLines" /\ LineOf(s) = <<>>)
      BY <2>2, <3>1, <3>4, HeaderLineTaken
    <3> QED BY <1>7, <3>2, <3>3, <3>4 DEF LineVariants
  <2> QED BY <2>1, <2>2
<1> QED BY <1>3, <1>4, <1>5, <1>6, <1>7 DEF Reading, LineVariants
-----------------------------------------------------------------------------
(* All calls.                                                              *)

(* What n calls make of r.                                                 *)
Calls(f, n, r) == f = [i \in 0..n |-> IF i = 0 THEN r ELSE Parse[f[i - 1]]]

(* They exist, and try_parse_request returns what the last one does.       *)
LEMMA CallsEnd ==
    ASSUME NEW latest, NEW r, NEW s, s = Combined(latest, r), Len(s) \in Nat,
           r.variant # "FullRequest"
    PROVE  \E f : /\ Calls(f, Len(s) + 1, [r EXCEPT !.buf = s])
                  /\ TryParse(latest, r) = f[Len(s) + 1]
<1> DEFINE N == Len(s) + 1
           start == [r EXCEPT !.buf = s]
           Upto(n) == \E f : f = [i \in 0..n |-> IF i = 0 THEN start ELSE Parse[f[i - 1]]]
           good == {n \in 0..N : Upto(n)}
<1>1. N \in Nat
  OBVIOUS
<1>2. TryParse(latest, r) = (CHOOSE f : Calls(f, N, start))[N]
  BY DEF TryParse, Calls
<1> HIDE DEF N, start
<1>3. Upto(0)
  <2> DEFINE f == [i \in 0..0 |-> start]
  <2>1. f = [i \in 0..0 |-> IF i = 0 THEN start ELSE Parse[f[i - 1]]]
    OBVIOUS
  <2> HIDE DEF f
  <2> QED BY <2>1
<1>4. ASSUME NEW n \in Nat, Upto(n) PROVE Upto(n + 1)
  <2>1. PICK b : b = [i \in 0..n |-> IF i = 0 THEN start ELSE Parse[b[i - 1]]]
    BY <1>4
  <2> DEFINE f == [i \in 0..(n + 1) |-> IF i = n + 1 THEN Parse[b[n]] ELSE b[i]]
  <2>2. ASSUME NEW i \in 0..(n + 1)
        PROVE  f[i] = IF i = 0 THEN start ELSE Parse[f[i - 1]]
    <3>1. CASE i = n + 1
      <4>1. i # 0 /\ i - 1 = n /\ n \in 0..(n + 1) /\ n # n + 1
        BY <3>1
      <4>2. f[n] = b[n] /\ f[i] = Parse[b[n]]
        BY <3>1, <4>1
      <4> QED BY <3>1, <4>1, <4>2
    <3>2. CASE i # n + 1
      <4>1. i \in 0..n /\ f[i] = b[i]
        BY <3>2
      <4>2. b[i] = IF i = 0 THEN start ELSE Parse[b[i - 1]]
        BY <2>1, <4>1
      <4>3. i # 0 => i - 1 \in 0..(n + 1) /\ i - 1 # n + 1 /\ f[i - 1] = b[i - 1]
        BY <4>1
      <4> QED BY <4>1, <4>2, <4>3
    <3> QED BY <3>1, <3>2
  <2>3. f = [i \in 0..(n + 1) |-> f[i]]
    OBVIOUS
  <2> HIDE DEF f
  <2>4. f = [i \in 0..(n + 1) |-> IF i = 0 THEN start ELSE Parse[f[i - 1]]]
    BY <2>2, <2>3
  <2> QED BY <2>4
<1> HIDE DEF Upto
<1>5. \A i \in 1..N : i - 1 \in good => i \in good
  <2> SUFFICES ASSUME NEW i \in 1..N, Upto(i - 1) PROVE Upto(i)
    BY <1>1
  <2>1. i - 1 \in Nat /\ (i - 1) + 1 = i
    BY <1>1
  <2>2. Upto((i - 1) + 1)
    BY <1>4, <2>1
  <2> QED BY <2>1, <2>2
<1>6. Upto(N)
  <2>1. 0 \in good
    BY <1>1, <1>3
  <2> HIDE DEF good
  <2>2. \A i \in 0..N : i \in good
    BY <1>1, <1>5, <2>1, UpTo
  <2>3. N \in 0..N
    BY <1>1
  <2> QED BY <2>2, <2>3 DEF good
<1>7. \E f : Calls(f, N, start)
  BY <1>6 DEF Upto, Calls
<1> DEFINE f == CHOOSE g : Calls(g, N, start)
<1>8. Calls(f, N, start)
  BY <1>7
<1>9. TryParse(latest, r) = f[N]
  BY <1>2
<1> HIDE DEF f
<1> QED BY <1>8, <1>9 DEF N, start

(* An Err or a panic is what it is.                                        *)
LEMMA RefusedStays ==
    /\ Parse[Err] = Err /\ Parse[Panic] = Panic
    /\ Err \in IncrementalRequests /\ Err.variant = "Err"
    /\ Panic \in IncrementalRequests /\ Panic.variant = "Panic"
<1>1. <<>> \in Seq(Symbols)
  OBVIOUS
<1>2. /\ Err \in IncrementalRequests /\ Err.variant = "Err"
      /\ Panic \in IncrementalRequests /\ Panic.variant = "Panic"
  <2>1. NoRequest \in IncrementalRequests
    BY <1>1 DEF NoRequest, IncrementalRequests
  <2>2. /\ Err \in IncrementalRequests /\ Panic \in IncrementalRequests
    BY <2>1 DEF Err, Panic, IncrementalRequests
  <2> QED BY <2>1, <2>2 DEF Err, Panic, IncrementalRequests
<1>3. \A r \in IncrementalRequests : r.variant \in {"Err", "Panic"} => Parse[r] = r
  BY DEF Parse
<1> QED BY <1>2, <1>3

(* One call more.                                                          *)
LEMMA CallAgain ==
    ASSUME input \in Text, NEW q \in Nat, q <= Len(input), NEW r, ComesOf(r, q),
           NEW left \in Int, Ended(r) \/ Len(r.buf) <= left + 1
    PROVE  ComesOf(Parse[r], q) /\ (Ended(Parse[r]) \/ Len(Parse[r].buf) <= left)
<1>1. CASE r = Err \/ r = Panic
  BY <1>1, RefusedStays DEF Ended
<1>2. CASE \E m \in 0..q : Reached(r, m, q)
  <2>1. PICK m \in 0..q : Reached(r, m, q)
    BY <1>2
  <2>2. ComesOf(Parse[r], q) /\ (Ended(Parse[r]) \/ Len(Parse[r].buf) < Len(r.buf))
    BY <2>1, ParseForward DEF Forward
  <2>3. r \in IncrementalRequests /\ r.buf \in Text /\ Len(r.buf) \in Nat
    BY <2>1, Kept, LenProperties DEF Text
  <2>4. ASSUME ~Ended(Parse[r])
        PROVE  Len(Parse[r].buf) \in Nat
    <3>1. ~(Parse[r] = Err \/ Parse[r] = Panic)
      BY <2>4, RefusedStays DEF Ended
    <3>2. PICK k \in 0..q : Reached(Parse[r], k, q)
      BY <2>2, <3>1 DEF ComesOf
    <3> QED BY <3>2, Kept, LenProperties DEF Text
  <2>5. CASE ~Ended(r)
    BY <2>2, <2>3, <2>4, <2>5
  <2>6. CASE r.variant \in {"FullRequest", "Err", "Panic"}
    <3>1. Parse[r] = r
      BY <2>3, <2>6 DEF Parse
    <3> QED BY <2>2, <2>6, <3>1 DEF Ended
  <2>7. CASE r.variant \in LineVariants /\ Breaks(r.buf) = {}
    <3>1. Parse[r] = r \/ Parse[r] = Err
      BY <2>3, <2>7 DEF Parse, LineVariants
    <3> QED BY <2>2, <2>7, <3>1, RefusedStays DEF Ended, Waits
  <2>8. CASE r.variant = "Body" /\ r.buf = <<>>
    <3>1. Len(r.buf) = 0
      BY <2>8
    <3> QED BY <2>2, <2>4, <3>1
  <2> QED BY <2>5, <2>6, <2>7, <2>8 DEF Ended, Waits
<1> QED BY <1>1, <1>2 DEF ComesOf

(* What try_parse_request returns comes of the bytes read, and waits for   *)
(* more only if it needs them.                                             *)
LEMMA TryParseComes ==
    ASSUME input \in Text, NEW q \in Nat, q <= Len(input), NEW p \in Nat, p <= q,
           NEW m \in 0..p, NEW r, Reached(r, m, p), r.variant # "FullRequest",
           Utf8(input) => p = 0 \/ input[p] # "u"
    PROVE  ComesOf(TryParse(Between(p, q), r), q) /\ Ended(TryParse(Between(p, q), r))
<1> DEFINE s == Combined(Between(p, q), r)
           start == [r EXCEPT !.buf = s]
           N == Len(s) + 1
<1>1. m \in Nat /\ m <= p /\ Len(input) \in Nat /\ r \in IncrementalRequests /\ r.buf = Between(m, p)
  BY LenProperties DEF Text, Reached
<1>2. s = Between(m, q)
  <2>1. s = Between(m, p) \o Between(p, q)
    BY <1>1 DEF Combined
  <2> HIDE DEF s
  <2> QED BY <1>1, <2>1, PiecesJoin
<1>3. s \in Text /\ Len(s) = q - m /\ Len(s) \in Nat
  <2>1. m <= q
    BY <1>1
  <2> QED BY <1>1, <1>2, <2>1, PieceIs
<1>4. PICK f : Calls(f, N, start) /\ TryParse(Between(p, q), r) = f[N]
  <2> HIDE DEF s
  <2>1. s = Combined(Between(p, q), r)
    BY DEF s
  <2> QED BY <1>3, <2>1, CallsEnd
<1> HIDE DEF s
<1>5. /\ start \in IncrementalRequests /\ start.variant = r.variant /\ start.declared = r.declared
      /\ start.body = r.body /\ start.bytesLeft = r.bytesLeft /\ start.buf = s
  BY <1>1, <1>3 DEF IncrementalRequests, Text
<1> HIDE DEF start
<1>6. ComesOf(start, q)
  <2>1. Taken(start, m)
    <3>1. Taken(r, m)
      BY DEF Reached
    <3> QED BY <1>5, <3>1 DEF Taken
  <2>2. Utf8(input) => m = q \/ m = 0 \/ input[m] # "u"
    BY <1>1 DEF Reached
  <2>3. m \in 0..q
    BY <1>1
  <2>4. Reached(start, m, q)
    BY <1>2, <1>5, <2>1, <2>2, <2>3 DEF Reached
  <2> QED BY <2>3, <2>4 DEF ComesOf
<1> DEFINE good == {i \in 0..N : /\ ComesOf(f[i], q)
                                 /\ Ended(f[i]) \/ Len(f[i].buf) <= Len(s) - i}
<1>7. N \in Nat /\ N = Len(s) + 1 /\ N \in 0..N
  BY <1>3
<1> HIDE DEF N
<1>8. f[0] = start /\ \A i \in 1..N : f[i] = Parse[f[i - 1]]
  BY <1>4, <1>7 DEF Calls
<1>9. 0 \in good
  BY <1>3, <1>5, <1>6, <1>7, <1>8
<1>10. \A i \in 1..N : i - 1 \in good => i \in good
  <2> SUFFICES ASSUME NEW i \in 1..N, i - 1 \in good PROVE i \in good
    OBVIOUS
  <2> DEFINE left == Len(s) - i
  <2>1. left \in Int /\ Len(s) - (i - 1) = left + 1 /\ i \in 0..N
    BY <1>3, <1>7
  <2>2. ComesOf(f[i - 1], q) /\ (Ended(f[i - 1]) \/ Len(f[i - 1].buf) <= left + 1)
    BY <2>1
  <2> HIDE DEF left
  <2>3. ComesOf(f[i], q) /\ (Ended(f[i]) \/ Len(f[i].buf) <= left)
    BY <1>8, <2>1, <2>2, CallAgain
  <2> QED BY <2>1, <2>3 DEF left
<1>11. N \in good
  <2> HIDE DEF good
  <2>1. \A i \in 0..N : i \in good
    BY <1>7, <1>9, <1>10, UpTo
  <2> QED BY <1>7, <2>1
<1>12. ComesOf(f[N], q) /\ (Ended(f[N]) \/ Len(f[N].buf) <= -1)
  BY <1>3, <1>7, <1>11
<1>13. Ended(f[N])
  <2> SUFFICES ASSUME ~Ended(f[N]) PROVE FALSE
    OBVIOUS
  <2>1. ~(f[N] = Err \/ f[N] = Panic)
    BY RefusedStays DEF Ended
  <2>2. PICK k \in 0..q : Reached(f[N], k, q)
    BY <1>12, <2>1 DEF ComesOf
  <2>3. Len(f[N].buf) \in Nat
    BY <2>2, Kept, LenProperties DEF Text
  <2> QED BY <1>12, <2>3
<1> QED BY <1>4, <1>12, <1>13
-----------------------------------------------------------------------------
(* The reads.                                                              *)

(* The input is a text.                                                    *)
LEMMA InputIsText ==
    ASSUME ReaderInv
    PROVE  input \in Text /\ Len(input) \in Nat /\ position \in Nat /\ position <= Len(input)
<1>1. input \in Text
  BY ConstantsAssumption DEF ReaderInv, Text
<1> QED BY <1>1, LenProperties DEF ReaderInv, Text

(* What a read returns, and what the parser makes of it.                   *)
LEMMA ReadComes ==
    ASSUME ReaderInv, outcome = "reading", NEW n \in 1..BufSize, position + n <= Len(input),
           NEW q, q = position + n, NEW latest, latest = SubSeq(input, position + 1, position + n)
    PROVE  /\ q \in Nat /\ q <= Len(input) /\ q > position
           /\ latest \in Text /\ Len(latest) = n /\ latest = Between(position, q)
           /\ \A i \in 1..n : latest[i] = input[position + i]
           /\ ComesOf(TryParse(latest, request), q) /\ Ended(TryParse(latest, request))
<1>1. input \in Text /\ Len(input) \in Nat /\ position \in Nat /\ position <= Len(input)
  BY InputIsText
<1>2. n \in Nat /\ n > 0
  BY ConstantsAssumption
<1>3. q \in Nat /\ q <= Len(input) /\ q > position /\ position <= q /\ q - position = n
  BY <1>1, <1>2
<1>4. latest = Between(position, q)
  BY DEF Between
<1>5. PICK m \in 0..position : Reached(request, m, position)
  BY DEF ReaderInv
<1>6. request.variant # "FullRequest"
  BY DEF ReaderInv, Waits, LineVariants
<1>7. Utf8(input) => position = 0 \/ input[position] # "u"
  BY <1>1 DEF ReaderInv, CutCharacter
<1>8. latest \in Text /\ Len(latest) = n /\ \A i \in 1..n : latest[i] = input[position + i]
  <2>1. /\ Between(position, q) \in Text /\ Len(Between(position, q)) = q - position
        /\ \A i \in 1..(q - position) : Between(position, q)[i] = input[position + i]
    BY <1>1, <1>3, PieceIs
  <2> QED BY <1>3, <1>4, <2>1
<1>9. ComesOf(TryParse(Between(position, q), request), q)
      /\ Ended(TryParse(Between(position, q), request))
  BY <1>1, <1>3, <1>5, <1>6, <1>7, TryParseComes
<1> QED BY <1>3, <1>4, <1>8, <1>9

(* What was reached is, after a step, too.                                 *)
LEMMA ReachedNext ==
    ASSUME input' = input, NEW r, r = request', NEW p, p = position', NEW m, Reached(r, m, p)
    PROVE  Reached(request, m, position)'
<1>1. Taken(request, m)' <=> Taken(r, m)
  BY DEF Taken, Lines, IsHeader, HeaderEnd, DeclaredLength, RequestEnd
<1>2. Between(m, position)' = Between(m, p) /\ Utf8(input)' = Utf8(input)
  BY DEF Between
<1> QED BY <1>1, <1>2 DEF Reached

(* A read keeps the invariant.                                             *)
LEMMA ReadKept ==
    ASSUME ReaderInv, NEW n \in 1..BufSize, Read(n)
    PROVE  ReaderInv'
<1> DEFINE latest == SubSeq(input, position + 1, position + n)
           next == TryParse(latest, request)
           q == position + n
<1>1. outcome = "reading" /\ q <= Len(input) /\ position' = q /\ input' = input
  BY DEF Read
<1>2. \/ outcome' \in {"err", "panic"}
      \/ /\ Utf8(latest) /\ next.variant \notin Refused /\ request' = next
         /\ outcome' = IF next.variant = "FullRequest" THEN "full" ELSE "reading"
  BY DEF Read, Refused
<1>3. /\ q \in Nat /\ q > position /\ Len(latest) = n
      /\ \A i \in 1..n : latest[i] = input[position + i]
      /\ ComesOf(next, q) /\ Ended(next)
  BY <1>1, ReadComes
<1>4. n \in 1..n /\ n \in Nat
  BY ConstantsAssumption
<1> HIDE DEF latest, next
<1>5. input' \in Inputs /\ position' \in 0..Len(input')
  BY <1>1, <1>3 DEF ReaderInv
<1>6. CASE outcome' \in {"err", "panic"}
  BY <1>5, <1>6 DEF ReaderInv
<1>7. CASE /\ Utf8(latest) /\ next.variant \notin Refused /\ request' = next
           /\ outcome' = IF next.variant = "FullRequest" THEN "full" ELSE "reading"
  <2>1. PICK m \in 0..q : Reached(next, m, q)
    BY <1>3, <1>7, RefusedStays DEF ComesOf, Refused
  <2>2. Reached(request, m, position)' /\ m \in 0..position'
    BY <1>1, <1>7, <2>1, ReachedNext
  <2>3. CASE next.variant = "FullRequest"
    BY <1>5, <1>7, <2>2, <2>3 DEF ReaderInv
  <2>4. CASE next.variant # "FullRequest"
    <3>1. Waits(request)'
      BY <1>3, <1>7, <2>4 DEF Ended, Waits, Refused
    <3>2. ~CutCharacter'
      <4>1. latest[n] = input[q] /\ latest[n] # "u"
        BY <1>3, <1>4, <1>7 DEF Utf8
      <4> QED BY <1>1, <4>1 DEF CutCharacter
    <3> QED BY <1>5, <1>7, <2>2, <2>4, <3>1, <3>2 DEF ReaderInv
  <2> QED BY <2>3, <2>4
<1> QED BY <1>2, <1>6, <1>7

(* The other steps.                                                        *)
LEMMA OthersKept ==
    ASSUME ReaderInv, EndOfInput \/ ReadFails \/ Answer \/ AnswerFails
    PROVE  ReaderInv'
<1>1. input' = input /\ position' = position /\ request' = request
  BY DEF EndOfInput, ReadFails, Answer, AnswerFails
<1>2. CASE outcome' = "err"
  BY <1>1, <1>2 DEF ReaderInv
<1>3. CASE Answer
  <2>1. outcome = "full" /\ outcome' = "answered"
    BY <1>3 DEF Answer
  <2>2. PICK m \in 0..position : Reached(request, m, position)
    BY <2>1 DEF ReaderInv
  <2>3. Reached(request, m, position)' /\ m \in 0..position'
    BY <1>1, <2>2, ReachedNext
  <2> QED BY <1>1, <2>1, <2>3 DEF ReaderInv
<1> QED BY <1>2, <1>3 DEF EndOfInput, ReadFails, AnswerFails

(* A step that leaves the reader alone keeps the invariant.                *)
LEMMA ReaderStutters ==
    ASSUME ReaderInv, UNCHANGED vars
    PROVE  ReaderInv'
<1>1. /\ input' = input /\ position' = position /\ request' = request /\ outcome' = outcome
  BY DEF vars
<1>2. \A m : Reached(request, m, position) => Reached(request, m, position)'
  BY <1>1, ReachedNext
<1>3. Waits(request)' <=> Waits(request)
  BY <1>1 DEF Waits
<1>4. /\ Utf8(input)' <=> Utf8(input)
      /\ CutCharacter' <=> CutCharacter
  BY <1>1 DEF CutCharacter
<1> QED BY <1>1, <1>2, <1>3, <1>4 DEF ReaderInv

(* Nothing is read at first.                                               *)
LEMMA ReaderStarts ==
    ASSUME Init
    PROVE  ReaderInv
<1>1. input \in Inputs /\ position = 0 /\ request = NoRequest /\ outcome = "reading"
  BY DEF Init
<1>2. input \in Text /\ Len(input) \in Nat
  BY <1>1, ConstantsAssumption, LenProperties DEF Text
<1>3. /\ NoRequest \in IncrementalRequests /\ NoRequest.variant = "None" /\ NoRequest.buf = <<>>
      /\ NoRequest.declared = 0 /\ NoRequest.body = <<>>
  <2>1. <<>> \in Seq(Symbols)
    OBVIOUS
  <2> QED BY <2>1 DEF NoRequest, IncrementalRequests
<1>4. Between(0, 0) = <<>>
  <2>1. Between(0, 0) \in Seq(Symbols) /\ Len(Between(0, 0)) = 0 - 0
    BY <1>2, PieceIs DEF Text
  <2> QED BY <2>1, EmptySeq
<1>5. Reached(request, 0, 0)
  BY <1>1, <1>3, <1>4 DEF Reached, Taken, Refused
<1>6. Waits(request)
  <2>1. Breaks(<<>>) = {}
    BY DEF Breaks
  <2> QED BY <1>1, <1>3, <2>1 DEF Waits, LineVariants
<1>7. ~CutCharacter
  BY <1>1 DEF CutCharacter
<1>8. 0 \in 0..Len(input) /\ 0 \in 0..0
  BY <1>2
<1> QED BY <1>1, <1>5, <1>6, <1>7, <1>8 DEF ReaderInv

(* The invariant holds in every behaviour.                                 *)
LEMMA ReaderAlways == Spec => []ReaderInv
<1>1. ASSUME ReaderInv, [Next]_vars PROVE ReaderInv'
  <2>1. ASSUME NEW n \in 1..BufSize, Read(n) PROVE ReaderInv'
    BY <1>1, <2>1, ReadKept
  <2>2. CASE EndOfInput \/ ReadFails \/ Answer \/ AnswerFails
    BY <1>1, <2>2, OthersKept
  <2>3. CASE UNCHANGED vars
    BY <1>1, <2>3, ReaderStutters
  <2> QED BY <1>1, <2>1, <2>2, <2>3 DEF Next
<1> QED BY <1>1, ReaderStarts, PTL DEF Spec
-----------------------------------------------------------------------------
(* The properties.                                                         *)

(* A header that the input has is within it.                               *)
LEMMA HeaderInInput ==
    ASSUME NEW n \in Nat \ {0}, IsHeader(n), Len(input) \in Nat
    PROVE  n \in 1..Len(input)
BY DEF IsHeader, HeaderEnd

(* A full request is the one the input spells.                             *)
LEMMA FullIsSpelt ==
    ASSUME ReaderInv
    PROVE  FullRequestIsTheOneSent
<1> SUFFICES ASSUME outcome \in {"full", "answered"}
             PROVE  \E n \in 1..Len(input) :
                       /\ Holds(position, n)
                       /\ request.declared = DeclaredLength(n)
                       /\ request.body = SubSeq(input, HeaderEnd(n) + 1, RequestEnd(n))
  BY DEF FullRequestIsTheOneSent
<1>1. PICK m \in 0..position : Reached(request, m, position)
  BY DEF ReaderInv
<1>2. request.variant = "FullRequest"
  BY DEF ReaderInv
<1>3. PICK n \in Nat \ {0} :
        /\ IsHeader(n) /\ DeclaredLength(n) # BadLength /\ request.declared = DeclaredLength(n)
        /\ m + request.bytesLeft = RequestEnd(n) /\ request.bytesLeft = 0
        /\ request.body = SubSeq(input, HeaderEnd(n) + 1, m)
  BY <1>1, <1>2 DEF Reached, Taken
<1>4. Len(input) \in Nat /\ position \in Nat
  BY InputIsText
<1>5. m = RequestEnd(n) /\ m <= position
  BY <1>3, <1>4
<1>6. Holds(position, n) /\ n \in 1..Len(input)
  BY <1>3, <1>4, <1>5, HeaderInInput DEF Holds
<1> QED BY <1>3, <1>5, <1>6

(* What waits has not the end of a line, or not the end of the body.       *)
LEMMA WaitsForMore ==
    ASSUME ReaderInv
    PROVE  NoWaitOnWholeRequest
<1> SUFFICES ASSUME outcome = "reading", NEW k \in 1..Len(input), Holds(position, k) PROVE FALSE
  BY DEF NoWaitOnWholeRequest
<1>1. input \in Text /\ Len(input) \in Nat /\ position \in Nat /\ position <= Len(input)
  BY InputIsText
<1>2. PICK m \in 0..position : Reached(request, m, position)
  BY DEF ReaderInv
<1>3. m \in Nat /\ m <= position /\ request.buf = Between(m, position)
  BY <1>1, <1>2 DEF Reached
<1>4. /\ k \in Nat /\ k # 0 /\ IsHeader(k) /\ Lines(k) /\ HeaderEnd(k) <= position
      /\ RequestEnd(k) <= position /\ DeclaredLength(k) # BadLength
      /\ input[3 * k + 4] = "cr" /\ input[3 * k + 5] = "lf"
  <2>1. k \in Nat /\ k # 0 /\ IsHeader(k) /\ DeclaredLength(k) # BadLength /\ RequestEnd(k) <= position
    BY DEF Holds
  <2>2. DeclaredLength(k) \in Nat
    BY <2>1, LengthIsNumber
  <2>3. HeaderEnd(k) <= position
    BY <1>1, <2>1, <2>2 DEF RequestEnd, HeaderEnd
  <2> QED BY <2>1, <2>3 DEF IsHeader
<1>5. 3 * k + 5 <= position
  BY <1>4 DEF HeaderEnd
<1>6. Waits(request)
  BY DEF ReaderInv
<1>7. ASSUME NEW i \in Nat, i \in 1..(position - m - 1), input[m + i] = "cr", input[m + i + 1] = "lf",
             request.variant \in LineVariants
      PROVE  FALSE
  <2>1. i \in Breaks(Between(m, position))
    BY <1>1, <1>3, <1>7, BreaksOfPiece
  <2>2. Breaks(Between(m, position)) = {}
    BY <1>3, <1>6, <1>7 DEF Waits, LineVariants
  <2> QED BY <2>1, <2>2
<1>8. CASE request.variant = "None"
  <2>1. m = 0
    BY <1>2, <1>8 DEF Reached, Taken
  <2>2. input[2] = "cr" /\ input[3] = "lf"
    <3>1. 0 \in 0..k /\ 3 * 0 + 2 = 2 /\ 3 * 0 + 3 = 3
      BY <1>4
    <3> QED BY <1>4, <3>1 DEF Lines
  <2>3. 2 \in 1..(position - m - 1) /\ m + 2 = 2 /\ m + 2 + 1 = 3
    BY <1>1, <1>4, <1>5, <2>1
  <2> QED BY <1>7, <1>8, <2>2, <2>3 DEF LineVariants
<1>9. CASE request.variant \in {"RequestLine", "HeaderLines"}
  <2>1. PICK n \in Nat : m = 3 * n + 3 /\ Lines(n)
    BY <1>2, <1>9 DEF Reached, Taken
  <2>2. CASE k < n
    BY <1>4, <2>1, <2>2, OtherLineFollows
  <2>3. CASE k = n
    <3>1. 1 \in 1..(position - m - 1) /\ m + 1 = 3 * k + 4 /\ m + 1 + 1 = 3 * k + 5
      BY <1>1, <1>5, <2>1, <2>3
    <3> QED BY <1>4, <1>7, <1>9, <3>1 DEF LineVariants
  <2>4. CASE n < k
    <3>1. input[3 * n + 5] = "cr" /\ input[3 * n + 6] = "lf" /\ 3 * n + 6 <= 3 * k + 3
      BY <1>4, <2>1, <2>4, OtherLineFollows
    <3>2. 2 \in 1..(position - m - 1) /\ m + 2 = 3 * n + 5 /\ m + 2 + 1 = 3 * n + 6
      BY <1>1, <1>4, <1>5, <2>1, <2>4
    <3> QED BY <1>7, <1>9, <3>1, <3>2 DEF LineVariants
  <2> QED BY <1>4, <2>1, <2>2, <2>3, <2>4
<1>10. CASE request.variant = "Body"
  <2>1. PICK n \in Nat \ {0} : IsHeader(n) /\ m + request.bytesLeft = RequestEnd(n)
    BY <1>2, <1>10 DEF Reached, Taken
  <2>2. n = k
    BY <1>4, <2>1, OneHeader
  <2>3. request.bytesLeft \in Nat /\ request.bytesLeft > 0 /\ request.buf = <<>>
    BY <1>2, <1>6, <1>10 DEF Waits, Reached, IncrementalRequests, LineVariants
  <2>4. Len(Between(m, position)) = position - m /\ Len(Between(m, position)) = 0
    <3>1. Len(Between(m, position)) = position - m
      BY <1>1, <1>3, PieceIs
    <3>2. Between(m, position) = <<>> /\ Len(<<>>) = 0
      BY <1>3, <2>3
    <3> QED BY <3>1, <3>2
  <2> QED BY <1>1, <1>3, <1>4, <2>1, <2>2, <2>3, <2>4
<1> QED BY <1>6, <1>8, <1>9, <1>10 DEF Waits, LineVariants

(* What refuses a whole request.                                           *)
LEMMA OnlyCutsRefuse ==
    ASSUME ReaderInv, [Next]_vars, NEW k \in 1..Len(input),
           Holds(Len(input), k), Utf8(input), position' # position
    PROVE  /\ outcome' = "err" => CutCharacter'
           /\ outcome' = "panic" => ~CharBoundary(input, RequestEnd(k))
<1>1. PICK n \in 1..BufSize : Read(n)
  BY DEF Next, vars, EndOfInput, ReadFails, Answer, AnswerFails
<1> DEFINE latest == SubSeq(input, position + 1, position + n)
           next == TryParse(latest, request)
           q == position + n
<1>2. outcome = "reading" /\ q <= Len(input) /\ position' = q /\ input' = input
  BY <1>1 DEF Read
<1>3. /\ outcome' = "err" => ~Utf8(latest) \/ next.variant = "Err"
      /\ outcome' = "panic" => next.variant = "Panic"
  BY <1>1 DEF Read
<1>4. q \in Nat /\ q > position /\ latest = Between(position, q) /\ ComesOf(next, q)
  BY <1>2, ReadComes
<1>5. input \in Text /\ Len(input) \in Nat /\ position \in Nat /\ position <= q
  BY <1>4, InputIsText
<1> HIDE DEF latest, next
<1>6. CutCharacter' <=> q > 0 /\ input[q] = "u"
  BY <1>2 DEF CutCharacter
<1>7. ASSUME next.variant \in Refused PROVE ~\E m \in 0..q : Reached(next, m, q)
  BY <1>7 DEF Reached, Taken
<1>8. ASSUME outcome' = "err" PROVE CutCharacter'
  <2>1. CASE next.variant = "Err"
    <3>1. next = Err
      BY <1>4, <1>7, <2>1, RefusedStays DEF ComesOf, Refused
    <3> QED BY <1>4, <1>6, <1>7, <2>1, <3>1, RefusedStays DEF ComesOf, Refused
  <2>2. CASE ~Utf8(latest)
    <3>1. position = 0 \/ input[position] # "u"
      BY <1>2, <1>5 DEF ReaderInv, CutCharacter
    <3>2. ~(q = 0 \/ input[q] # "u")
      <4> HIDE DEF q
      <4> QED BY <1>2, <1>4, <1>5, <2>2, <3>1, Utf8Piece
    <3> QED BY <1>4, <1>6, <3>2
  <2> QED BY <1>3, <1>8, <2>1, <2>2
<1>9. ASSUME outcome' = "panic" PROVE ~CharBoundary(input, RequestEnd(k))
  <2>1. next.variant = "Panic"
    BY <1>3, <1>9
  <2> QED BY <1>4, <1>7, <2>1, RefusedStays DEF ComesOf, Refused
<1> QED BY <1>8, <1>9

(* Whatever the input and however its reads are cut: a request the parser  *)
(* calls full is the one the bytes spell (http.rs:57-145).                 *)
THEOREM FullRequestIsSpelt == Spec => []FullRequestIsTheOneSent
BY ReaderAlways, FullIsSpelt, PTL

(* The server does not wait for more bytes when it has a whole request     *)
(* (http.rs:101-127, 134-138).                                             *)
THEOREM WholeRequestIsNotWaitedFor == Spec => []NoWaitOnWholeRequest
BY ReaderAlways, WaitsForMore, PTL

(* A whole request is refused only by a cut within one of its characters,  *)
(* and panics only if its body ends within one (seq.rs:16, http.rs:135).   *)
THEOREM OnlyCutsRefuseWholeRequests == Spec => WholeRequestRefusedOnlyByCut
<1> DEFINE Refusal ==
      \A n \in 1..Len(input) :
          Holds(Len(input), n) /\ Utf8(input) /\ position' # position =>
              /\ outcome' = "err" => CutCharacter'
              /\ outcome' = "panic" => ~CharBoundary(input, RequestEnd(n))
<1>1. ReaderInv /\ [Next]_vars => [Refusal]_vars
  BY OnlyCutsRefuse
<1>2. Spec => [][Refusal]_vars
  BY <1>1, ReaderAlways, PTL DEF Spec
<1> QED BY <1>2 DEF WholeRequestRefusedOnlyByCut
=============================================================================
