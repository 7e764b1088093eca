------------------------- MODULE HostHandlerProofs -------------------------
(***************************************************************************)
(* Proofs about Host::handle (HostHandler), for any tree of files, any     *)
(* configurations, targets of any length and any dates.  First what        *)
(* canonicalizing a path does, name by name; then where a request is       *)
(* routed; then what a date is read as.                                    *)
(***************************************************************************)
EXTENDS HostHandler, SequenceTheorems, WellFoundedInduction, TLAPS

Names == Seq(STRING)
InTree == DOMAIN Tree

(* A set of naturals has a least one.                                      *)
LEMMA LeastNatural ==
    ASSUME NEW S \in SUBSET Nat, S # {}
    PROVE  \E m \in S : \A n \in S : m <= n
<1> DEFINE Below == OpToRel(<, Nat)
<1>1. IsWellFoundedOn(Below, Nat)
  BY NatLessThanWellFounded
<1>2. \A m, n \in Nat : <<m, n>> \in Below <=> m < n
  BY DEF OpToRel
<1> HIDE DEF Below
<1>3. PICK m \in S : \A n \in S : ~(<<n, m>> \in Below)
  BY <1>1, WFMin
<1>4. ASSUME NEW n \in S PROVE m <= n
  <2>1. m \in Nat /\ n \in Nat
    OBVIOUS
  <2>2. ~(n < m)
    BY <1>2, <1>3, <2>1
  <2> QED BY <2>1, <2>2
<1> QED BY <1>4

(* The least of a set of naturals is one of them.                          *)
LEMMA MinIsLeast ==
    ASSUME NEW S \in SUBSET Nat, S # {}
    PROVE  Min(S) \in S /\ \A n \in S : Min(S) <= n
BY LeastNatural DEF Min

(* What holds of 0 and, if of a number, of the next one, holds up to n.    *)
LEMMA UpTo ==
    ASSUME NEW n \in Nat, NEW good, 0 \in good, \A i \in 1..n : i - 1 \in good => i \in good
    PROVE  \A i \in 0..n : i \in good
<1> DEFINE bad == {i \in 0..n : i \notin good}
<1> SUFFICES ASSUME bad # {} PROVE FALSE
  OBVIOUS
<1>1. PICK m \in bad : \A i \in bad : m <= i
  <2>1. bad \in SUBSET Nat
    OBVIOUS
  <2> HIDE DEF bad
  <2> QED BY <2>1, LeastNatural
<1>2. m \in 0..n /\ m \notin good
  OBVIOUS
<1>3. m # 0 /\ m \in 1..n /\ m - 1 \in 0..n /\ ~(m <= m - 1)
  BY <1>2
<1>4. m - 1 \in good
  BY <1>1, <1>3
<1> QED BY <1>2, <1>3, <1>4

(* All but the last name of a path.                                        *)
LEMMA FrontNames ==
    ASSUME NEW p \in Names, p # <<>>
    PROVE  /\ Front(p) \in Names /\ Len(p) \in Nat \ {0} /\ Len(Front(p)) = Len(p) - 1
           /\ \A i \in 1..(Len(p) - 1) : Front(p)[i] = p[i]
<1>1. Len(p) \in Nat \ {0}
  BY EmptySeq DEF Names
<1>2. \A i \in 1..(Len(p) - 1) : p[i] \in STRING
  BY <1>1, ElementOfSeq DEF Names
<1> DEFINE n == Len(p) - 1
<1>3. n \in Nat /\ \A i \in 1..n : p[i] \in STRING
  BY <1>1, <1>2
<1>4. /\ SubSeq(p, 1, n) \in Seq(STRING)
      /\ Len(SubSeq(p, 1, n)) = IF 1 <= n THEN n - 1 + 1 ELSE 0
      /\ \A i \in 1..(n - 1 + 1) : SubSeq(p, 1, n)[i] = p[1 + i - 1]
  <2> HIDE DEF n
  <2> QED BY <1>3, SubSeqProperties
<1>5. SubSeq(p, 1, n) = Front(p)
  BY DEF Front
<1>6. \A i \in 1..n : 1 + i - 1 = i
  BY <1>3
<1> QED BY <1>1, <1>3, <1>4, <1>5, <1>6 DEF Names

(* The first k names of a path.                                            *)
LEMMA FirstNames ==
    ASSUME NEW p \in Names, NEW k \in 0..Len(p)
    PROVE  /\ SubSeq(p, 1, k) \in Names /\ Len(SubSeq(p, 1, k)) = k
           /\ \A i \in 1..k : SubSeq(p, 1, k)[i] = p[i]
<1>1. Len(p) \in Nat
  BY LenProperties DEF Names
<1>2. k \in Nat /\ \A i \in 1..k : p[i] \in STRING
  BY <1>1, ElementOfSeq DEF Names
<1>3. /\ SubSeq(p, 1, k) \in Seq(STRING)
      /\ Len(SubSeq(p, 1, k)) = IF 1 <= k THEN k - 1 + 1 ELSE 0
      /\ \A i \in 1..(k - 1 + 1) : SubSeq(p, 1, k)[i] = p[1 + i - 1]
  BY <1>2, SubSeqProperties
<1>4. \A i \in 1..k : 1 + i - 1 = i
  BY <1>2
<1> QED BY <1>2, <1>3, <1>4 DEF Names

(* Prefixes, position by position.                                         *)
LEMMA PrefixMeans ==
    ASSUME NEW s \in Names, NEW t \in Names
    PROVE  IsPrefix(s, t) <=> Len(s) <= Len(t) /\ \A i \in 1..Len(s) : s[i] = t[i]
<1>1. Len(s) \in Nat /\ Len(t) \in Nat /\ SubSeq(s, 1, Len(s)) = s
  BY LenProperties, SubSeqFull DEF Names
<1>2. CASE Len(s) <= Len(t)
  <2>1. Len(s) \in 0..Len(t)
    BY <1>1, <1>2
  <2> DEFINE u == SubSeq(t, 1, Len(s))
  <2>2. u \in Names /\ Len(u) = Len(s) /\ \A i \in 1..Len(s) : u[i] = t[i]
    BY <2>1, FirstNames
  <2> HIDE DEF u
  <2>3. s = u <=> \A i \in 1..Len(s) : s[i] = u[i]
    BY <2>2, SeqEqual DEF Names
  <2>4. IsPrefix(s, t) <=> s = u
    BY <1>1, <1>2 DEF IsPrefix, u
  <2> QED BY <1>2, <2>2, <2>3, <2>4
<1>3. CASE ~(Len(s) <= Len(t))
  BY <1>3 DEF IsPrefix
<1> QED BY <1>2, <1>3

(* A path and one name more.                                               *)
LEMMA OneMore ==
    ASSUME NEW p \in Names, NEW n
    PROVE  /\ Append(p, n) = p \o <<n>> /\ Len(Append(p, n)) = Len(p) + 1
           /\ \A i \in 1..Len(p) : Append(p, n)[i] = p[i]
           /\ Append(p, n)[Len(p) + 1] = n
<1> DEFINE S == STRING \cup {n}
<1>1. p \in Seq(S) /\ n \in S
  BY SeqMonotonic DEF Names
<1> HIDE DEF S
<1> QED BY <1>1, AppendProperties, AppendIsConcat

(* What is in a directory lies below what the directory lies below.        *)
LEMMA ChildBelow ==
    ASSUME NEW s \in Names, NEW p \in Names, NEW n, Append(p, n) \in Names, IsPrefix(s, p)
    PROVE  IsPrefix(s, Append(p, n))
<1>1. Len(s) \in Nat /\ Len(p) \in Nat
  BY LenProperties DEF Names
<1>2. Len(s) <= Len(p) /\ \A i \in 1..Len(s) : s[i] = p[i]
  BY PrefixMeans
<1>3. Len(s) <= Len(p) + 1 /\ \A i \in 1..Len(s) : i \in 1..Len(p)
  BY <1>1, <1>2
<1>4. /\ Len(Append(p, n)) = Len(p) + 1
      /\ \A i \in 1..Len(p) : Append(p, n)[i] = p[i]
  BY OneMore
<1>5. Len(s) <= Len(Append(p, n)) /\ \A i \in 1..Len(s) : s[i] = Append(p, n)[i]
  BY <1>2, <1>3, <1>4
<1> QED BY <1>5, PrefixMeans
-----------------------------------------------------------------------------
(* Canonicalizing.                                                         *)

(* The paths the walk from p along the names comes to.                     *)
Walk(w, p, names) ==
    w = [i \in 0..Len(names) |-> IF i = 0 THEN p ELSE Entry(w[i - 1], names[i])]

(* The walk exists, and canonicalizing gives where it ends.                *)
LEMMA CanonicalEndsWalk ==
    ASSUME NEW p, NEW names, Len(names) \in Nat
    PROVE  \E w : Walk(w, p, names) /\ Canonical(p, names) = w[Len(names)]
<1> DEFINE Upto(n) == \E w : w = [i \in 0..n |-> IF i = 0 THEN p ELSE Entry(w[i - 1], names[i])]
           good == {n \in 0..Len(names) : Upto(n)}
<1>1. Upto(0)
  <2> DEFINE w == [i \in 0..0 |-> p]
  <2>1. w = [i \in 0..0 |-> IF i = 0 THEN p ELSE Entry(w[i - 1], names[i])]
    OBVIOUS
  <2> HIDE DEF w
  <2> QED BY <2>1
<1>2. ASSUME NEW n \in Nat, Upto(n) PROVE Upto(n + 1)
  <2>1. PICK b : b = [i \in 0..n |-> IF i = 0 THEN p ELSE Entry(b[i - 1], names[i])]
    BY <1>2
  <2> DEFINE w == [i \in 0..(n + 1) |-> IF i = n + 1 THEN Entry(b[n], names[n + 1]) ELSE b[i]]
  <2>2. ASSUME NEW i \in 0..(n + 1)
        PROVE  w[i] = IF i = 0 THEN p ELSE Entry(w[i - 1], names[i])
    <3>1. CASE i = n + 1
      <4>1. i # 0 /\ i - 1 = n /\ n \in 0..(n + 1) /\ n # n + 1
        BY <3>1
      <4>2. w[n] = b[n] /\ w[i] = Entry(b[n], names[n + 1])
        BY <3>1, <4>1
      <4> QED BY <3>1, <4>1, <4>2
    <3>2. CASE i # n + 1
      <4>1. i \in 0..n /\ w[i] = b[i]
        BY <3>2
      <4>2. b[i] = IF i = 0 THEN p ELSE Entry(b[i - 1], names[i])
        BY <2>1, <4>1
      <4>3. i # 0 => i - 1 \in 0..(n + 1) /\ i - 1 # n + 1 /\ w[i - 1] = b[i - 1]
        BY <4>1
      <4> QED BY <4>1, <4>2, <4>3
    <3> QED BY <3>1, <3>2
  <2>3. w = [i \in 0..(n + 1) |-> w[i]]
    OBVIOUS
  <2> HIDE DEF w
  <2>4. w = [i \in 0..(n + 1) |-> IF i = 0 THEN p ELSE Entry(w[i - 1], names[i])]
    BY <2>2, <2>3
  <2> QED BY <2>4
<1> HIDE DEF Upto
<1>3. \A i \in 1..Len(names) : i - 1 \in good => i \in good
  <2> SUFFICES ASSUME NEW i \in 1..Len(names), Upto(i - 1) PROVE Upto(i)
    OBVIOUS
  <2>1. i - 1 \in Nat /\ (i - 1) + 1 = i
    OBVIOUS
  <2>2. Upto((i - 1) + 1)
    BY <1>2, <2>1
  <2> QED BY <2>1, <2>2
<1>4. Upto(Len(names))
  <2>1. 0 \in good
    BY <1>1
  <2> HIDE DEF good
  <2>2. \A i \in 0..Len(names) : i \in good
    BY <1>3, <2>1, UpTo
  <2>3. Len(names) \in 0..Len(names)
    OBVIOUS
  <2> QED BY <2>2, <2>3 DEF good
<1> DEFINE w == CHOOSE b : Walk(b, p, names)
<1>5. \E b : Walk(b, p, names)
  BY <1>4 DEF Upto, Walk
<1>6. Walk(w, p, names)
  BY <1>5
<1>7. Canonical(p, names) = w[Len(names)]
  BY DEF Canonical, Walk
<1> QED BY <1>6, <1>7

(* One step of a walk.                                                     *)
LEMMA WalkSteps ==
    ASSUME NEW w, NEW p, NEW names, Len(names) \in Nat, Walk(w, p, names)
    PROVE  /\ w[0] = p
           /\ \A i \in 1..Len(names) : i - 1 \in 0..Len(names) /\ w[i] = Entry(w[i - 1], names[i])
BY DEF Walk

(* The lookup of a name leads to what is in the tree, or nowhere.          *)
LEMMA EntryInTree ==
    ASSUME NEW p \in InTree \cup {None}, NEW name
    PROVE  Entry(p, name) \in InTree \cup {None}
<1>1. CASE p = None \/ Tree[p].kind # "dir"
  BY <1>1 DEF Entry
<1>2. CASE p # None /\ Tree[p].kind = "dir"
  <2>1. p \in InTree /\ <<>> \in InTree /\ (p # <<>> => Front(p) \in InTree)
    BY <1>2, TreeAssumption DEF InTree
  <2>2. CASE name = ".."
    BY <1>2, <2>1, <2>2 DEF Entry
  <2>3. CASE name # ".." /\ Append(p, name) \notin InTree
    BY <1>2, <2>3 DEF Entry, InTree
  <2>4. CASE name # ".." /\ Append(p, name) \in InTree /\ Tree[Append(p, name)].kind # "link"
    BY <1>2, <2>4 DEF Entry, InTree
  <2>5. CASE name # ".." /\ Append(p, name) \in InTree /\ Tree[Append(p, name)].kind = "link"
    BY <1>2, <2>5 DEF Entry, InTree
  <2> QED BY <2>2, <2>3, <2>4, <2>5
<1> QED BY <1>1, <1>2

(* So does canonicalizing.                                                 *)
LEMMA CanonicalInTree ==
    ASSUME NEW p \in InTree, NEW names \in Names
    PROVE  Canonical(p, names) \in InTree \cup {None}
<1>1. Len(names) \in Nat
  BY LenProperties DEF Names
<1>2. PICK w : Walk(w, p, names) /\ Canonical(p, names) = w[Len(names)]
  BY <1>1, CanonicalEndsWalk
<1>3. /\ w[0] = p
      /\ \A i \in 1..Len(names) : i - 1 \in 0..Len(names) /\ w[i] = Entry(w[i - 1], names[i])
  BY <1>1, <1>2, WalkSteps
<1> DEFINE good == {i \in 0..Len(names) : w[i] \in InTree \cup {None}}
<1>4. 0 \in good
  BY <1>1, <1>3
<1>5. ASSUME NEW i \in 1..Len(names), i - 1 \in good PROVE i \in good
  <2>1. w[i] \in InTree \cup {None}
    BY <1>3, <1>5, EntryInTree
  <2> QED BY <1>1, <2>1
<1>6. \A i \in 0..Len(names) : i \in good
  <2> HIDE DEF good
  <2> QED BY <1>1, <1>4, <1>5, UpTo
<1>7. Len(names) \in 0..Len(names)
  BY <1>1
<1> QED BY <1>2, <1>6, <1>7

(* The paths on the way to a path of the tree are directories of it.       *)
LEMMA FirstInTree ==
    ASSUME NEW f \in InTree, NEW k \in 0..Len(f)
    PROVE  /\ SubSeq(f, 1, k) \in InTree
           /\ k < Len(f) => Tree[SubSeq(f, 1, k)].kind = "dir"
<1>1. f \in Names /\ Len(f) \in Nat
  BY TreeAssumption, LenProperties DEF InTree, Names
<1>2. ASSUME NEW n \in 1..Len(f), SubSeq(f, 1, n) \in InTree
      PROVE  /\ n - 1 \in 0..Len(f) /\ SubSeq(f, 1, n - 1) \in InTree
             /\ Tree[SubSeq(f, 1, n - 1)].kind = "dir"
  <2> DEFINE u == SubSeq(f, 1, n)
             v == SubSeq(f, 1, n - 1)
  <2>1. n \in 0..Len(f) /\ n - 1 \in 0..Len(f) /\ n # 0
    BY <1>1
  <2>2. u \in Names /\ Len(u) = n /\ \A i \in 1..n : u[i] = f[i]
    BY <1>1, <2>1, FirstNames
  <2>3. v \in Names /\ Len(v) = n - 1 /\ \A i \in 1..(n - 1) : v[i] = f[i]
    BY <1>1, <2>1, FirstNames
  <2> HIDE DEF u, v
  <2>4. u # <<>>
    BY <2>1, <2>2
  <2>5. /\ Front(u) \in Names /\ Len(Front(u)) = n - 1
        /\ \A i \in 1..(n - 1) : Front(u)[i] = u[i]
    BY <2>2, <2>4, FrontNames
  <2>6. \A i \in 1..(n - 1) : Front(u)[i] = v[i]
    BY <2>2, <2>3, <2>5
  <2>7. Front(u) = v
    BY <2>3, <2>5, <2>6, SeqEqual DEF Names
  <2>8. u \in InTree
    BY <1>2 DEF u
  <2>9. v \in InTree /\ Tree[v].kind = "dir"
    BY <2>4, <2>7, <2>8, TreeAssumption DEF InTree
  <2> QED BY <2>1, <2>9 DEF v
<1> DEFINE good == {j \in 0..Len(f) : SubSeq(f, 1, Len(f) - j) \in InTree}
<1>3. 0 \in good
  <2>1. SubSeq(f, 1, Len(f)) = f /\ Len(f) - 0 = Len(f)
    BY <1>1, SubSeqFull DEF Names
  <2>2. SubSeq(f, 1, Len(f) - 0) \in InTree
    BY <2>1, Zenon
  <2>3. 0 \in 0..Len(f)
    BY <1>1
  <2> QED BY <2>2, <2>3
<1>4. ASSUME NEW j \in 1..Len(f), j - 1 \in good PROVE j \in good
  <2>1. Len(f) - (j - 1) \in 1..Len(f) /\ (Len(f) - (j - 1)) - 1 = Len(f) - j
    BY <1>1
  <2>2. SubSeq(f, 1, Len(f) - (j - 1)) \in InTree
    BY <1>4
  <2>3. SubSeq(f, 1, (Len(f) - (j - 1)) - 1) \in InTree
    BY <1>2, <2>1, <2>2
  <2>4. SubSeq(f, 1, Len(f) - j) \in InTree
    BY <2>1, <2>3
  <2> QED BY <1>1, <2>4
<1>5. \A j \in 0..Len(f) : j \in good
  <2> HIDE DEF good
  <2> QED BY <1>1, <1>3, <1>4, UpTo
<1>6. ASSUME NEW n \in 0..Len(f) PROVE SubSeq(f, 1, n) \in InTree
  <2>1. Len(f) - n \in 0..Len(f) /\ Len(f) - (Len(f) - n) = n
    BY <1>1
  <2>2. SubSeq(f, 1, Len(f) - (Len(f) - n)) \in InTree
    BY <1>5, <2>1
  <2> QED BY <2>1, <2>2
<1>7. CASE k < Len(f)
  <2>1. k + 1 \in 1..Len(f) /\ k + 1 \in 0..Len(f) /\ (k + 1) - 1 = k
    BY <1>1, <1>7
  <2>2. SubSeq(f, 1, k + 1) \in InTree
    BY <1>6, <2>1
  <2>3. Tree[SubSeq(f, 1, (k + 1) - 1)].kind = "dir"
    BY <1>2, <2>1, <2>2
  <2> QED BY <1>6, <2>1, <2>3
<1> QED BY <1>6, <1>7

(* What a path of the tree is, a link in its last place followed.          *)
Followed(f) == IF Tree[f].kind # "link" THEN f
               ELSE IF Tree[f].to \in InTree THEN Tree[f].to ELSE None

(* Canonicalizing a path of the tree follows no more than its last link.   *)
LEMMA CanonicalOfTree ==
    ASSUME NEW p \in InTree, Tree[p].kind # "link", NEW names \in Names, p \o names \in InTree
    PROVE  Canonical(p, names) = Followed(p \o names)
<1> DEFINE f == p \o names
           first(i) == SubSeq(f, 1, Len(p) + i)
<1>1. /\ p \in Names /\ Len(p) \in Nat /\ Len(names) \in Nat /\ f \in Names
      /\ Len(f) \in Nat /\ \A i \in 1..Len(f) : f[i] # ".."
  <2>1. p \in Names /\ f \in Names /\ ".." \notin Range(f)
    BY TreeAssumption DEF InTree, Names
  <2> HIDE DEF f
  <2>2. Len(p) \in Nat /\ Len(names) \in Nat /\ Len(f) \in Nat /\ DOMAIN f = 1..Len(f)
    BY <2>1, LenProperties DEF Names
  <2> QED BY <2>1, <2>2 DEF Range
<1>2. /\ Len(f) = Len(p) + Len(names)
      /\ \A i \in 1..Len(names) : f[Len(p) + i] = names[i]
      /\ \A i \in 1..Len(p) : f[i] = p[i]
  <2>1. /\ Len(f) = Len(p) + Len(names)
        /\ \A i \in 1..(Len(p) + Len(names)) :
               f[i] = IF i <= Len(p) THEN p[i] ELSE names[i - Len(p)]
    BY <1>1, ConcatProperties DEF Names
  <2> HIDE DEF f
  <2>2. ASSUME NEW i \in 1..Len(names) PROVE f[Len(p) + i] = names[i]
    <3>1. /\ Len(p) + i \in 1..(Len(p) + Len(names)) /\ ~(Len(p) + i <= Len(p))
          /\ (Len(p) + i) - Len(p) = i
      BY <1>1
    <3> QED BY <2>1, <3>1
  <2>3. ASSUME NEW i \in 1..Len(p) PROVE f[i] = p[i]
    <3>1. i \in 1..(Len(p) + Len(names)) /\ i <= Len(p)
      BY <1>1
    <3> QED BY <2>1, <3>1
  <2> QED BY <2>1, <2>2, <2>3
<1> HIDE DEF f
<1>3. ASSUME NEW i \in 0..Len(names)
      PROVE  /\ first(i) \in Names /\ Len(first(i)) = Len(p) + i
             /\ \A j \in 1..(Len(p) + i) : first(i)[j] = f[j]
             /\ first(i) \in InTree
             /\ i # Len(names) => Tree[first(i)].kind = "dir"
  <2>1. Len(p) + i \in 0..Len(f) /\ (i # Len(names) => Len(p) + i < Len(f))
    BY <1>1, <1>2
  <2>2. f \in InTree
    BY DEF f
  <2> QED BY <1>1, <2>1, <2>2, FirstNames, FirstInTree
<1>4. first(0) = p /\ first(Len(names)) = f
  <2>1. 0 \in 0..Len(names) /\ Len(p) + 0 = Len(p)
    BY <1>1
  <2>2. first(0) \in Names /\ Len(first(0)) = Len(p) /\ \A j \in 1..Len(p) : first(0)[j] = p[j]
    BY <1>2, <1>3, <2>1
  <2>3. first(0) = p
    <3> HIDE DEF first
    <3> QED BY <1>1, <2>2, SeqEqual DEF Names
  <2>4. first(Len(names)) = f
    BY <1>1, <1>2, SubSeqFull DEF Names
  <2> QED BY <2>3, <2>4
<1>5. ASSUME NEW i \in 1..Len(names)
      PROVE  /\ i - 1 \in 0..Len(names) /\ Append(first(i - 1), names[i]) = first(i)
             /\ Entry(first(i - 1), names[i]) = Followed(first(i))
  <2> DEFINE u == first(i - 1)
             v == first(i)
  <2>1. i - 1 \in 0..Len(names) /\ i \in 0..Len(names) /\ i - 1 # Len(names)
        /\ Len(p) + (i - 1) = (Len(p) + i) - 1
    BY <1>1
  <2>2. /\ u \in Names /\ Len(u) = (Len(p) + i) - 1
        /\ \A j \in 1..((Len(p) + i) - 1) : u[j] = f[j]
        /\ u \in InTree /\ Tree[u].kind = "dir"
    BY <1>3, <2>1
  <2>3. /\ v \in Names /\ Len(v) = Len(p) + i /\ \A j \in 1..(Len(p) + i) : v[j] = f[j]
        /\ v \in InTree
    BY <1>3, <2>1
  <2>4. /\ f[Len(p) + i] = names[i] /\ names[i] # ".." /\ names[i] \in STRING
        /\ Len(p) + i \in 1..(Len(p) + i) /\ Len(p) + i \in Nat
    <3>1. Len(p) + i \in 1..Len(f)
      BY <1>1, <1>2
    <3>2. names[i] \in STRING
      BY ElementOfSeq DEF Names
    <3> QED BY <1>1, <1>2, <3>1, <3>2
  <2> HIDE DEF u, v, first
  <2>5. Append(u, names[i]) = v
    <3> DEFINE m == Len(p) + i
    <3>1. /\ Append(u, names[i]) \in Names /\ Len(Append(u, names[i])) = Len(u) + 1
          /\ \A j \in 1..Len(u) : Append(u, names[i])[j] = u[j]
          /\ Append(u, names[i])[Len(u) + 1] = names[i]
      <4>1. Append(u, names[i]) \in Names
        BY <2>2, <2>4, AppendProperties DEF Names
      <4> QED BY <2>2, <4>1, OneMore
    <3>2. m \in Nat /\ Len(u) = m - 1 /\ Len(v) = m /\ (m - 1) + 1 = m
      BY <2>2, <2>3, <2>4
    <3>3. \A j \in 1..m : j # m => j \in 1..(m - 1)
      BY <3>2
    <3>4. \A j \in 1..m : Append(u, names[i])[j] = v[j]
      BY <2>2, <2>3, <2>4, <3>1, <3>2, <3>3
    <3> HIDE DEF m
    <3> QED BY <2>3, <3>1, <3>2, <3>4, SeqEqual DEF Names
  <2>6. u # None
    BY <2>2, TreeAssumption DEF InTree
  <2>7. Entry(u, names[i]) = Followed(v)
    <3>1. CASE Tree[v].kind = "link"
      BY <2>2, <2>3, <2>4, <2>5, <2>6, <3>1 DEF Entry, Followed, InTree
    <3>2. CASE Tree[v].kind # "link"
      BY <2>2, <2>3, <2>4, <2>5, <2>6, <3>2 DEF Entry, Followed, InTree
    <3> QED BY <3>1, <3>2
  <2> QED BY <2>1, <2>5, <2>7 DEF u, v
<1>6. PICK w : Walk(w, p, names) /\ Canonical(p, names) = w[Len(names)]
  BY <1>1, CanonicalEndsWalk
<1>7. /\ w[0] = p
      /\ \A i \in 1..Len(names) : i - 1 \in 0..Len(names) /\ w[i] = Entry(w[i - 1], names[i])
  BY <1>1, <1>6, WalkSteps
<1> DEFINE good == {i \in 0..Len(names) : w[i] = Followed(first(i))}
<1>8. 0 \in good
  <2>1. Followed(p) = p
    BY DEF Followed
  <2> HIDE DEF first
  <2> QED BY <1>1, <1>4, <1>7, <2>1
<1>9. ASSUME NEW i \in 1..Len(names), i - 1 \in good PROVE i \in good
  <2>1. i - 1 \in 0..Len(names) /\ i \in 0..Len(names) /\ i - 1 # Len(names)
    BY <1>1
  <2>2. Tree[first(i - 1)].kind = "dir"
    BY <1>3, <2>1
  <2> HIDE DEF first
  <2>3. w[i - 1] = first(i - 1)
    BY <1>9, <2>2 DEF Followed
  <2>4. w[i] = Followed(first(i))
    BY <1>5, <1>7, <2>3
  <2> QED BY <2>1, <2>4
<1>10. \A i \in 0..Len(names) : i \in good
  <2> HIDE DEF good
  <2> QED BY <1>1, <1>8, <1>9, UpTo
<1>11. w[Len(names)] = Followed(first(Len(names)))
  BY <1>1, <1>10
<1>12. Canonical(p, names) = Followed(f)
  <2> HIDE DEF first
  <2> QED BY <1>4, <1>6, <1>11
<1> QED BY <1>12 DEF f

(* A document root that is in the tree as it is written is that directory, *)
(* or what the link in its place leads to.                                 *)
LEMMA WrittenRoot ==
    ASSUME NEW p \in InTree
    PROVE  RootOf(p) = Followed(p)
<1>1. <<>> \in InTree /\ Tree[<<>>].kind # "link" /\ p \in Names
  BY TreeAssumption DEF InTree, Names
<1>2. <<>> \o p = p
  BY <1>1, ConcatEmptySeq DEF Names
<1> QED BY <1>1, <1>2, CanonicalOfTree DEF RootOf
-----------------------------------------------------------------------------
(* Routing.                                                                *)

(* What the properties say of a request that may still be answered.        *)
OwnFile ==
    /\ request.get /\ request.host # None /\ hosts # <<>>
    /\ ~request.slash /\ request.names # <<"load">>
    /\ OwnRoot # None /\ OwnRoot \o request.names \in InTree
    /\ Tree[OwnRoot \o request.names].kind = "file"

HostFound == request.host # None /\ hosts # <<>> /\ vhost = Chosen

RouteInv ==
    /\ hosts \in Configs /\ request \in Requests
    /\ pc \in {"host", "load", "root", "path", "method", "end"}
    /\ pc # "end" => answer = NoAnswer
    /\ pc \in {"load", "root", "path", "method"} => HostFound
    /\ pc \in {"path", "method"} => root = OwnRoot /\ root \in InTree
    /\ pc = "method" => path = Target /\ path \in InTree /\ IsPrefix(root, path)
    /\ ServedBelowRoot
    /\ OwnFilesReachable

(* The first host of the name, or the first of all, is the one chosen.     *)
LEMMA ChosenIsFirst ==
    ASSUME hosts \in Configs, hosts # <<>>
    PROVE  VirtualHost(request.host) = Chosen /\ Chosen \in 1..Len(hosts)
<1> DEFINE n == Len(hosts)
           named == {i \in 1..n : hosts[i].name = request.host}
           Fits(j) == hosts[j].name = request.host
                      \/ ~\E k \in 1..n : hosts[k].name = request.host
           First(i) == Fits(i) /\ \A j \in 1..(i - 1) : ~Fits(j)
           m == VirtualHost(request.host)
<1>1. n \in Nat \ {0}
  <2>1. hosts \in Seq(Range(hosts))
    BY ConfigsAssumption
  <2> QED BY <2>1, EmptySeq
<1>2. m = IF named = {} THEN 1 ELSE Min(named)
  BY DEF VirtualHost
<1>3. Chosen = CHOOSE i \in 1..n : First(i)
  BY DEF Chosen
<1>4. named \in SUBSET Nat
  BY <1>1
<1> HIDE DEF n, m
<1>5. m \in 1..n /\ First(m)
  <2>1. CASE named = {}
    <3>1. m = 1 /\ m \in 1..n /\ 1..(m - 1) = {}
      BY <1>1, <1>2, <2>1
    <3>2. Fits(m)
      BY <2>1
    <3> QED BY <3>1, <3>2
  <2>2. CASE named # {}
    <3>1. m \in named /\ \A j \in named : m <= j
      <4> HIDE DEF named
      <4> QED BY <1>2, <1>4, <2>2, MinIsLeast
    <3>2. ASSUME NEW j \in 1..(m - 1), Fits(j) PROVE FALSE
      <4>1. j \in 1..n /\ ~(m <= j)
        BY <1>1, <3>1
      <4>2. j \in named
        BY <2>2, <3>2, <4>1
      <4> QED BY <3>1, <4>1, <4>2
    <3> QED BY <3>1, <3>2
  <2> QED BY <2>1, <2>2
<1>6. ASSUME NEW i \in 1..n, First(i) PROVE i = m
  <2>1. ~(i < m)
    <3> SUFFICES ASSUME i < m PROVE FALSE
      OBVIOUS
    <3>1. i \in 1..(m - 1)
      BY <1>1, <1>5
    <3> QED BY <1>5, <1>6, <3>1
  <2>2. ~(m < i)
    <3> SUFFICES ASSUME m < i PROVE FALSE
      OBVIOUS
    <3>1. m \in 1..(i - 1)
      BY <1>1, <1>5
    <3> QED BY <1>5, <1>6, <3>1
  <2> QED BY <1>1, <1>5, <2>1, <2>2
<1> HIDE DEF First
<1>7. Chosen = m
  BY <1>3, <1>5, <1>6
<1> QED BY <1>5, <1>7 DEF m, n

(* The document root is in the tree, if there is one.                      *)
LEMMA OwnRootInTree ==
    ASSUME hosts \in Configs, hosts # <<>>
    PROVE  OwnRoot \in InTree \cup {None}
<1>1. hosts[Chosen].root # None => hosts[Chosen].root \in Names
  BY ChosenIsFirst, ConfigsAssumption DEF Names
<1>2. <<>> \in InTree
  BY TreeAssumption DEF InTree
<1> QED BY <1>1, <1>2, CanonicalInTree DEF OwnRoot, RootOf

(* The choice and its root depend on the configuration and the request.    *)
LEMMA SameChoice ==
    ASSUME hosts' = hosts, request' = request
    PROVE  /\ Chosen' = Chosen /\ OwnRoot' = OwnRoot /\ OwnFile' = OwnFile
           /\ HostFound' = (request.host # None /\ hosts # <<>> /\ vhost' = Chosen)
<1>1. Chosen' = Chosen
  BY DEF Chosen
<1>2. OwnRoot' = OwnRoot
  BY <1>1 DEF OwnRoot, RootOf
<1> QED BY <1>1, <1>2 DEF OwnFile, HostFound

(* A file of the document root is what its name canonicalizes to.          *)
LEMMA OwnFileIsTarget ==
    ASSUME RouteInv, OwnFile, root = OwnRoot, root \in InTree
    PROVE  Target = OwnRoot \o request.names /\ IsPrefix(root, Target)
<1> DEFINE f == root \o request.names
<1>1. request.names \in Names /\ root \in Names /\ f \in InTree /\ Tree[f].kind = "file"
  BY RequestsAssumption, TreeAssumption DEF RouteInv, OwnFile, Names, InTree
<1>2. /\ Len(root) \in Nat /\ Len(request.names) \in Nat /\ f \in Names
      /\ Len(f) = Len(root) + Len(request.names)
      /\ \A i \in 1..(Len(root) + Len(request.names)) :
             f[i] = IF i <= Len(root) THEN root[i] ELSE request.names[i - Len(root)]
  BY <1>1, LenProperties, ConcatProperties DEF Names
<1>3. \A i \in 1..Len(root) : f[i] = root[i]
  <2> HIDE DEF f
  <2>1. \A i \in 1..Len(root) : i \in 1..(Len(root) + Len(request.names)) /\ i <= Len(root)
    BY <1>2
  <2> QED BY <1>2, <2>1
<1>4. Tree[root].kind # "link"
  <2>1. CASE Len(request.names) = 0
    <3>1. request.names = <<>>
      BY <1>1, <2>1, EmptySeq DEF Names
    <3>2. f = root
      BY <1>1, <3>1, ConcatEmptySeq DEF Names
    <3> QED BY <1>1, <3>2
  <2>2. CASE Len(request.names) # 0
    <3> HIDE DEF f
    <3>1. Len(root) \in 0..Len(f) /\ Len(root) < Len(f)
      BY <1>2, <2>2
    <3>2. Tree[SubSeq(f, 1, Len(root))].kind = "dir"
      BY <1>1, <3>1, FirstInTree
    <3>3. /\ SubSeq(f, 1, Len(root)) \in Names /\ Len(SubSeq(f, 1, Len(root))) = Len(root)
          /\ \A i \in 1..Len(root) : SubSeq(f, 1, Len(root))[i] = f[i]
      BY <1>2, <3>1, FirstNames
    <3>4. SubSeq(f, 1, Len(root)) = root
      <4> DEFINE u == SubSeq(f, 1, Len(root))
      <4>1. u \in Seq(STRING) /\ Len(u) = Len(root) /\ \A i \in 1..Len(u) : u[i] = root[i]
        BY <1>3, <3>3 DEF Names
      <4> HIDE DEF u
      <4>2. u = root
        BY <1>1, <4>1, SeqEqual DEF Names
      <4> QED BY <4>2 DEF u
    <3> QED BY <3>2, <3>4
  <2> QED BY <2>1, <2>2
<1>5. Canonical(root, request.names) = f
  BY <1>1, <1>4, CanonicalOfTree DEF Followed
<1>6. Target = f
  BY <1>1, <1>5 DEF Target, OwnFile
<1>7. IsPrefix(root, f)
  <2> HIDE DEF f
  <2>1. Len(root) <= Len(f)
    BY <1>2
  <2> QED BY <1>1, <1>2, <1>3, <2>1, PrefixMeans
<1> QED BY <1>6, <1>7

(* What an index page is: in the directory, or a link's goal.              *)
LEMMA IndexOf ==
    ASSUME NEW p \in InTree, NEW n \in {"index.html", "index_m.html"}, Entry(p, n) # None
    PROVE  /\ Append(p, n) \in InTree
           /\ \/ Entry(p, n) = Append(p, n)
              \/ Tree[Append(p, n)].kind = "link" /\ Tree[Append(p, n)].to = Entry(p, n)
<1>1. n # ".." /\ p # None
  BY TreeAssumption DEF InTree
<1>2. Tree[p].kind = "dir"
  BY <1>1 DEF Entry
<1>3. Append(p, n) \in InTree
  BY <1>1, <1>2 DEF Entry, InTree
<1>4. CASE Tree[Append(p, n)].kind # "link"
  BY <1>1, <1>2, <1>3, <1>4 DEF Entry, InTree
<1>5. CASE Tree[Append(p, n)].kind = "link"
  BY <1>1, <1>2, <1>3, <1>5 DEF Entry, InTree
<1> QED BY <1>3, <1>4, <1>5

(* A step that does not answer.                                            *)
LEMMA GoesOn ==
    ASSUME RouteInv, UNCHANGED <<hosts, request, answer>>, answer = NoAnswer, pc' # "end"
    PROVE  ServedBelowRoot' /\ OwnFilesReachable'
BY DEF ServedBelowRoot, Served, NoAnswer, OwnFilesReachable

(* A step that refuses a request which is not for a file of its root.      *)
LEMMA Refuses ==
    ASSUME RouteInv, hosts' = hosts, request' = request,
           answer'.status \notin {"file", "script"}, ~OwnFile
    PROVE  ServedBelowRoot' /\ OwnFilesReachable'
<1>1. ServedBelowRoot'
  BY DEF ServedBelowRoot, Served
<1>2. ~OwnFile'
  BY SameChoice
<1>3. OwnFilesReachable'
  BY <1>2 DEF OwnFilesReachable, OwnFile, InTree
<1> QED BY <1>1, <1>3

(* The virtual host.                                                       *)
LEMMA FindHostKept == ASSUME RouteInv, FindHost PROVE RouteInv'
<1>1. CASE request.host = None \/ hosts = <<>>
  <2>1. /\ hosts' = hosts /\ request' = request /\ pc' = "end"
        /\ answer'.status \in {"400", "panic"}
    <3>1. CASE request.host = None
      BY <3>1 DEF FindHost, Return
    <3>2. CASE request.host # None /\ hosts = <<>>
      BY <3>2 DEF FindHost, Return
    <3> QED BY <1>1, <3>1, <3>2
  <2>2. ~OwnFile
    BY <1>1 DEF OwnFile
  <2>3. ServedBelowRoot' /\ OwnFilesReachable'
    BY <2>1, <2>2, Refuses
  <2> QED BY <2>1, <2>3 DEF RouteInv
<1>2. CASE request.host # None /\ hosts # <<>>
  <2>1. /\ hosts' = hosts /\ request' = request /\ answer' = answer /\ pc' = "load"
        /\ vhost' = VirtualHost(request.host) /\ answer = NoAnswer
    BY <1>2 DEF FindHost, Goto, RouteInv
  <2>2. vhost' = Chosen
    BY <1>2, <2>1, ChosenIsFirst DEF RouteInv
  <2>3. HostFound'
    BY <1>2, <2>1, <2>2, SameChoice
  <2>4. ServedBelowRoot' /\ OwnFilesReachable'
    BY <2>1, GoesOn
  <2> QED BY <2>1, <2>3, <2>4 DEF RouteInv
<1> QED BY <1>1, <1>2

(* "/load", which is no file's name for a GET.                             *)
LEMMA HeartbeatKept == ASSUME RouteInv, Heartbeat PROVE RouteInv'
<1>1. HostFound /\ answer = NoAnswer /\ hosts' = hosts /\ request' = request /\ vhost' = vhost
  BY DEF Heartbeat, RouteInv, Return, Goto
<1>2. HostFound'
  BY <1>1, SameChoice DEF HostFound
<1>3. CASE request.get /\ request.names = <<"load">> /\ ~request.slash
  <2>1. pc' = "end" /\ answer'.status \in {"503", "200"}
    BY <1>3 DEF Heartbeat, Return
  <2>2. ServedBelowRoot' /\ OwnFilesReachable'
    BY <1>1, <1>3, <2>1, Refuses DEF OwnFile
  <2> QED BY <1>1, <2>1, <2>2 DEF RouteInv
<1>4. CASE ~(request.get /\ request.names = <<"load">> /\ ~request.slash)
  <2>1. pc' = "root" /\ answer' = answer
    BY <1>4 DEF Heartbeat, Goto
  <2>2. ServedBelowRoot' /\ OwnFilesReachable'
    BY <1>1, <2>1, GoesOn
  <2> QED BY <1>1, <1>2, <2>1, <2>2 DEF RouteInv
<1> QED BY <1>3, <1>4

(* The document root, which is the one of the host that is asked.          *)
LEMMA DocumentRootKept == ASSUME RouteInv, DocumentRoot PROVE RouteInv'
<1>1. HostFound /\ answer = NoAnswer /\ hosts' = hosts /\ request' = request /\ vhost' = vhost
  BY DEF DocumentRoot, RouteInv, Return, Goto
<1>2. HostFound' /\ OwnRoot' = OwnRoot
  BY <1>1, SameChoice DEF HostFound
<1>3. root' = OwnRoot /\ IF root' = None THEN Return("500", None) ELSE Goto("path")
  BY <1>1 DEF DocumentRoot, OwnRoot, HostFound
<1>4. CASE root' = None
  <2>1. pc' = "end" /\ answer'.status = "500"
    BY <1>3, <1>4 DEF Return
  <2>2. ~OwnFile
    BY <1>3, <1>4 DEF OwnFile
  <2>3. ServedBelowRoot' /\ OwnFilesReachable'
    BY <1>1, <2>1, <2>2, Refuses
  <2> QED BY <1>1, <2>1, <2>3 DEF RouteInv
<1>5. CASE root' # None
  <2>1. pc' = "path" /\ answer' = answer
    BY <1>3, <1>5 DEF Goto
  <2>2. root' \in InTree
    BY <1>1, <1>3, <1>5, OwnRootInTree DEF RouteInv, HostFound
  <2>3. ServedBelowRoot' /\ OwnFilesReachable'
    BY <1>1, <2>1, GoesOn
  <2>4. InTree' = InTree
    BY DEF InTree
  <2> QED BY <1>1, <1>2, <1>3, <2>1, <2>2, <2>3, <2>4 DEF RouteInv
<1> QED BY <1>4, <1>5

(* The path, which is refused only if it is not a file's of the root.      *)
LEMMA ParsePathKept == ASSUME RouteInv, ParsePath PROVE RouteInv'
<1>1. /\ HostFound /\ answer = NoAnswer /\ root = OwnRoot /\ root \in InTree
      /\ hosts' = hosts /\ request' = request /\ vhost' = vhost /\ root' = root
  BY DEF ParsePath, RouteInv, Return, Goto
<1>2. HostFound' /\ OwnRoot' = OwnRoot /\ InTree' = InTree
  BY <1>1, SameChoice DEF HostFound, InTree
<1>3. Target \in InTree \cup {None}
  <2>1. request.names \in Names
    BY RequestsAssumption DEF RouteInv, Names
  <2>2. Canonical(root, request.names) \in InTree \cup {None}
    BY <1>1, <2>1, CanonicalInTree
  <2> QED BY <2>2 DEF Target
<1>4. CASE Target = None \/ ~UnderRoot(Target)
  <2>1. pc' = "end" /\ answer'.status \in {"404", "403"}
    <3>1. CASE Target = None
      BY <3>1 DEF ParsePath, Return
    <3>2. CASE Target # None /\ ~UnderRoot(Target)
      <4>1. Return("403", None)
        BY <3>2 DEF ParsePath
      <4> QED BY <4>1 DEF Return
    <3> QED BY <1>4, <3>1, <3>2
  <2>2. ~OwnFile
    <3>1. None \notin InTree
      BY TreeAssumption DEF InTree
    <3>2. OwnFile => Target \in InTree /\ UnderRoot(Target)
      BY <1>1, OwnFileIsTarget DEF OwnFile, UnderRoot
    <3> QED BY <1>4, <3>1, <3>2
  <2>3. ServedBelowRoot' /\ OwnFilesReachable'
    BY <1>1, <2>1, <2>2, Refuses
  <2> QED BY <1>1, <2>1, <2>3 DEF RouteInv
<1>5. CASE Target # None /\ UnderRoot(Target)
  <2>1. pc' = "method" /\ answer' = answer /\ path' = Target
    BY <1>5 DEF ParsePath, Goto
  <2>2. Target' = Target
    BY <1>1 DEF Target
  <2>3. path' \in InTree /\ IsPrefix(root', path')
    BY <1>1, <1>3, <1>5, <2>1 DEF UnderRoot
  <2>4. ServedBelowRoot' /\ OwnFilesReachable'
    BY <1>1, <2>1, GoesOn
  <2> QED BY <1>1, <1>2, <2>1, <2>2, <2>3, <2>4 DEF RouteInv
<1> QED BY <1>4, <1>5

(* GET: what is served is the path, or an index page beside it.            *)
LEMMA GetKept == ASSUME RouteInv, Get PROVE RouteInv'
<1> DEFINE p == Negotiated
<1>1. /\ HostFound /\ root = OwnRoot /\ root \in InTree
      /\ path = Target /\ path \in InTree /\ IsPrefix(root, path)
      /\ hosts' = hosts /\ request' = request /\ pc' = "end"
      /\ answer' = IF p = None \/ Tree[p].kind = "dir"
                   THEN [status |-> "404", path |-> None]
                   ELSE [status |-> Tree[p].kind, path |-> p]
  <2>1. CASE p = None \/ Tree[p].kind = "dir"
    BY <2>1 DEF Get, RouteInv, Return
  <2>2. CASE p # None /\ Tree[p].kind # "dir"
    BY <2>2 DEF Get, RouteInv, Return
  <2> QED BY <2>1, <2>2
<1>2. OwnRoot' = OwnRoot /\ OwnFile' = OwnFile
  BY <1>1, SameChoice
<1>3. p # None => \/ IsPrefix(OwnRoot, p)
                  \/ request.slash /\ \E d \in InTree, n \in {"index.html", "index_m.html"} :
                        /\ IsPrefix(OwnRoot, d) /\ d \o <<n>> \in InTree
                        /\ Tree[d \o <<n>>].kind = "link" /\ Tree[d \o <<n>>].to = p
  <2>1. \/ p = path
        \/ request.slash /\ \E n \in {"index.html", "index_m.html"} : p = Entry(path, n)
    BY DEF Negotiated
  <2>2. ASSUME request.slash, NEW n \in {"index.html", "index_m.html"}, p = Entry(path, n), p # None
        PROVE  \/ IsPrefix(OwnRoot, p)
               \/ /\ path \o <<n>> \in InTree
                  /\ Tree[path \o <<n>>].kind = "link" /\ Tree[path \o <<n>>].to = p
    <3>1. path \in Names /\ root \in Names
      BY <1>1, TreeAssumption DEF InTree, Names
    <3>2. Append(path, n) = path \o <<n>>
      BY <3>1, OneMore
    <3>3. /\ Append(path, n) \in InTree
          /\ \/ p = Append(path, n)
             \/ Tree[Append(path, n)].kind = "link" /\ Tree[Append(path, n)].to = p
      BY <1>1, <2>2, IndexOf
    <3>4. IsPrefix(root, Append(path, n))
      <4>1. Append(path, n) \in Names
        BY <3>3, TreeAssumption DEF InTree, Names
      <4> QED BY <1>1, <3>1, <4>1, ChildBelow
    <3> QED BY <1>1, <3>2, <3>3, <3>4
  <2> HIDE DEF p
  <2> QED BY <1>1, <2>1, <2>2
<1>4. ServedBelowRoot'
  <2>1. Served' => p # None /\ answer'.path = p
    BY <1>1 DEF Served
  <2> HIDE DEF p
  <2>2. ASSUME Served', ~IsPrefix(OwnRoot', p)
        PROVE  /\ request'.slash
               /\ \E d \in DOMAIN Tree, n \in {"index.html", "index_m.html"} :
                      /\ IsPrefix(OwnRoot', d) /\ d \o <<n>> \in DOMAIN Tree
                      /\ Tree[d \o <<n>>].kind = "link" /\ Tree[d \o <<n>>].to = p
    BY <1>1, <1>2, <1>3, <2>1, <2>2 DEF InTree
  <2> QED BY <2>1, <2>2 DEF ServedBelowRoot, IsIndexLink
<1>5. OwnFilesReachable'
  <2>1. ASSUME OwnFile PROVE answer' = [status |-> "file", path |-> OwnRoot \o request.names]
    <3>1. path = OwnRoot \o request.names
      BY <1>1, <2>1, OwnFileIsTarget
    <3>2. p = path
      BY <2>1 DEF OwnFile, Negotiated
    <3>3. Tree[p].kind = "file" /\ p # None
      BY <1>1, <2>1, <3>1, <3>2, TreeAssumption DEF OwnFile, InTree
    <3> HIDE DEF p
    <3> QED BY <1>1, <3>1, <3>2, <3>3
  <2> QED BY <1>1, <1>2, <2>1 DEF OwnFilesReachable, OwnFile, InTree
<1> QED BY <1>1, <1>4, <1>5 DEF RouteInv

(* POST: the path itself.                                                  *)
LEMMA PostKept == ASSUME RouteInv, Post PROVE RouteInv'
<1>1. /\ HostFound /\ root = OwnRoot /\ IsPrefix(root, path) /\ ~request.get
      /\ hosts' = hosts /\ request' = request /\ pc' = "end"
      /\ answer'.path = path
  BY DEF Post, RouteInv, Return
<1>2. OwnRoot' = OwnRoot
  BY <1>1, SameChoice
<1>3. ServedBelowRoot'
  BY <1>1, <1>2 DEF ServedBelowRoot, Served
<1>4. OwnFilesReachable'
  BY <1>1 DEF OwnFilesReachable
<1> QED BY <1>1, <1>3, <1>4 DEF RouteInv

(* The invariant holds at the start and is kept.                           *)
LEMMA RouteStarts == ASSUME Init PROVE RouteInv
BY DEF Init, RouteInv, ServedBelowRoot, Served, NoAnswer, OwnFilesReachable

(* A step that leaves the handler alone keeps the invariant.               *)
LEMMA RouteStutters == ASSUME RouteInv, UNCHANGED vars PROVE RouteInv'
<1>1. /\ hosts' = hosts /\ request' = request /\ pc' = pc /\ vhost' = vhost
      /\ root' = root /\ path' = path /\ answer' = answer
  BY DEF vars
<1>2. Chosen' = Chosen /\ OwnRoot' = OwnRoot /\ HostFound' = HostFound /\ Target' = Target
  BY <1>1, SameChoice DEF HostFound, Target
<1>3. ServedBelowRoot' /\ OwnFilesReachable'
  BY <1>1, <1>2 DEF RouteInv, ServedBelowRoot, Served, IsIndexLink, OwnFilesReachable
<1> QED BY <1>1, <1>2, <1>3 DEF RouteInv, InTree

(* The routing invariant holds in every behaviour.                         *)
LEMMA RouteAlways == HandlerSpec => []RouteInv
<1>1. HandlerInit => RouteInv
  BY RouteStarts DEF HandlerInit
<1>2. RouteInv /\ [HandlerNext]_<<vars, date>> => RouteInv'
  BY FindHostKept, HeartbeatKept, DocumentRootKept, ParsePathKept, GetKept, PostKept,
     RouteStutters DEF HandlerNext, Next
<1> QED BY <1>1, <1>2, PTL DEF HandlerSpec

(* What is served lies below the document root of the host asked for, or   *)
(* is what a link in an index page's place leads to (host.rs:130-172).     *)
THEOREM ServedBelow == HandlerSpec => []ServedBelowRoot
<1>1. RouteInv => ServedBelowRoot
  BY DEF RouteInv
<1> QED BY <1>1, RouteAlways, PTL

(* Every file below the document root is answered under its own name       *)
(* (host.rs:50-61, 152-161).                                               *)
THEOREM OwnFilesReached == HandlerSpec => []OwnFilesReachable
<1>1. RouteInv => OwnFilesReachable
  BY DEF RouteInv
<1> QED BY <1>1, RouteAlways, PTL
-----------------------------------------------------------------------------
(* Dates.                                                                  *)

(* The sums of the first digits of s.                                      *)
Sums(run, s) ==
    run = [i \in 0..Len(s) |-> IF i = 0 THEN 0 ELSE run[i - 1] + s[i] * 10^(Len(s) - i)]

(* The weights of up to four digits.                                       *)
LEMMA PowersOfTen == 10^0 = 1 /\ 10^1 = 10 /\ 10^2 = 100 /\ 10^3 = 1000
OBVIOUS

(* What parse_digits makes of two digits.                                  *)
LEMMA ParseTwo ==
    ASSUME NEW s, Len(s) = 2, s[1] \in Nat, s[2] \in Nat
    PROVE  Dates!ParseDigits(s) = s[1] * 10 + s[2]
<1> DEFINE good == [i \in 0..2 |-> IF i = 0 THEN 0
                                   ELSE IF i = 1 THEN s[1] * 10 ELSE s[1] * 10 + s[2]]
           run == CHOOSE r : Sums(r, s)
<1>1. Dates!ParseDigits(s) = run[2]
  BY DEF Dates!ParseDigits, Sums
<1>2. Sums(good, s)
  <2>1. good[0] = 0 /\ good[1] = s[1] * 10 /\ good[2] = s[1] * 10 + s[2]
    OBVIOUS
  <2>2. good = [i \in 0..2 |-> good[i]]
    OBVIOUS
  <2>3. ASSUME NEW i \in 0..2
        PROVE  good[i] = IF i = 0 THEN 0 ELSE good[i - 1] + s[i] * 10^(2 - i)
    <3> HIDE DEF good
    <3>1. CASE i = 0
      BY <2>1, <3>1
    <3>2. CASE i = 1
      <4>1. 2 - i = 1 /\ i - 1 = 0
        BY <3>2
      <4> QED BY <2>1, <3>2, <4>1, PowersOfTen
    <3>3. CASE i = 2
      <4>1. 2 - i = 0 /\ i - 1 = 1
        BY <3>3
      <4> QED BY <2>1, <3>3, <4>1, PowersOfTen
    <3> QED BY <3>1, <3>2, <3>3
  <2> HIDE DEF good
  <2> QED BY <2>2, <2>3 DEF Sums
<1>3. Sums(run, s)
  BY <1>2
<1> HIDE DEF run
<1>4. /\ run[0] = 0 /\ run[1] = run[0] + s[1] * 10^1
      /\ run[2] = run[1] + s[2] * 10^0
  <2>1. \A i \in 0..2 : run[i] = IF i = 0 THEN 0 ELSE run[i - 1] + s[i] * 10^(2 - i)
    BY <1>3, Zenon DEF Sums
  <2>2. /\ run[0] = 0 /\ run[1] = run[1 - 1] + s[1] * 10^(2 - 1)
        /\ run[2] = run[2 - 1] + s[2] * 10^(2 - 2)
    <3>1. 0 \in 0..2 /\ 1 \in 0..2 /\ 2 \in 0..2 /\ 1 # 0 /\ 2 # 0
      OBVIOUS
    <3> QED BY <2>1, <3>1
  <2>3. 1 - 1 = 0 /\ 2 - 1 = 1 /\ 2 - 2 = 0
    OBVIOUS
  <2> QED BY <2>2, <2>3
<1>5. run[2] = s[1] * 10 + s[2]
  BY <1>4, PowersOfTen
<1> QED BY <1>1, <1>5

(* And of four.                                                            *)
LEMMA ParseFour ==
    ASSUME NEW s, Len(s) = 4, s[1] \in Nat, s[2] \in Nat, s[3] \in Nat, s[4] \in Nat
    PROVE  Dates!ParseDigits(s) = s[1] * 1000 + s[2] * 100 + s[3] * 10 + s[4]
<1> DEFINE good == [i \in 0..4 |-> IF i = 0 THEN 0
                                   ELSE IF i = 1 THEN s[1] * 1000
                                   ELSE IF i = 2 THEN s[1] * 1000 + s[2] * 100
                                   ELSE IF i = 3 THEN s[1] * 1000 + s[2] * 100 + s[3] * 10
                                   ELSE s[1] * 1000 + s[2] * 100 + s[3] * 10 + s[4]]
           run == CHOOSE r : Sums(r, s)
<1>1. Dates!ParseDigits(s) = run[4]
  BY DEF Dates!ParseDigits, Sums
<1>2. Sums(good, s)
  <2>1. /\ good[0] = 0 /\ good[1] = s[1] * 1000 /\ good[2] = s[1] * 1000 + s[2] * 100
        /\ good[3] = s[1] * 1000 + s[2] * 100 + s[3] * 10
        /\ good[4] = s[1] * 1000 + s[2] * 100 + s[3] * 10 + s[4]
    OBVIOUS
  <2>2. good = [i \in 0..4 |-> good[i]]
    OBVIOUS
  <2>3. ASSUME NEW i \in 0..4
        PROVE  good[i] = IF i = 0 THEN 0 ELSE good[i - 1] + s[i] * 10^(4 - i)
    <3> HIDE DEF good
    <3>1. CASE i = 0
      BY <2>1, <3>1
    <3>2. CASE i = 1
      <4>1. 4 - i = 3 /\ i - 1 = 0
        BY <3>2
      <4> QED BY <2>1, <3>2, <4>1, PowersOfTen
    <3>3. CASE i = 2
      <4>1. 4 - i = 2 /\ i - 1 = 1
        BY <3>3
      <4> QED BY <2>1, <3>3, <4>1, PowersOfTen
    <3>4. CASE i = 3
      <4>1. 4 - i = 1 /\ i - 1 = 2
        BY <3>4
      <4> QED BY <2>1, <3>4, <4>1, PowersOfTen
    <3>5. CASE i = 4
      <4>1. 4 - i = 0 /\ i - 1 = 3
        BY <3>5
      <4> QED BY <2>1, <3>5, <4>1, PowersOfTen
    <3> QED BY <3>1, <3>2, <3>3, <3>4, <3>5
  <2> HIDE DEF good
  <2> QED BY <2>2, <2>3 DEF Sums
<1>3. Sums(run, s)
  BY <1>2
<1> HIDE DEF run
<1>4. /\ run[0] = 0 /\ run[1] = run[0] + s[1] * 10^3 /\ run[2] = run[1] + s[2] * 10^2
      /\ run[3] = run[2] + s[3] * 10^1 /\ run[4] = run[3] + s[4] * 10^0
  <2>1. \A i \in 0..4 : run[i] = IF i = 0 THEN 0 ELSE run[i - 1] + s[i] * 10^(4 - i)
    BY <1>3, Zenon DEF Sums
  <2>2. /\ run[0] = 0 /\ run[1] = run[1 - 1] + s[1] * 10^(4 - 1)
        /\ run[2] = run[2 - 1] + s[2] * 10^(4 - 2)
        /\ run[3] = run[3 - 1] + s[3] * 10^(4 - 3)
        /\ run[4] = run[4 - 1] + s[4] * 10^(4 - 4)
    <3>1. /\ 0 \in 0..4 /\ 1 \in 0..4 /\ 2 \in 0..4 /\ 3 \in 0..4 /\ 4 \in 0..4
          /\ 1 # 0 /\ 2 # 0 /\ 3 # 0 /\ 4 # 0
      OBVIOUS
    <3> QED BY <2>1, <3>1
  <2>3. /\ 1 - 1 = 0 /\ 2 - 1 = 1 /\ 3 - 1 = 2 /\ 4 - 1 = 3
        /\ 4 - 2 = 2 /\ 4 - 3 = 1 /\ 4 - 4 = 0
    OBVIOUS
  <2> QED BY <2>2, <2>3
<1>5. run[4] = s[1] * 1000 + s[2] * 100 + s[3] * 10 + s[4]
  BY <1>4, PowersOfTen
<1> QED BY <1>1, <1>5

(* A year is a number.                                                     *)
LEMMA YearsAreNumbers == Years \subseteq Nat
BY DEF Years

(* What is written as digits is read as the same number.                   *)
LEMMA TwoDigitsReadBack ==
    ASSUME NEW n \in 0..99
    PROVE  Dates!ParseDigits(Dates!Digits(n, 2)) = n
<1> DEFINE s == Dates!Digits(n, 2)
<1>1. s = [i \in 1..2 |-> (n \div 10^(2 - i)) % 10]
  BY DEF Dates!Digits
<1>2. Len(s) = 2
  BY <1>1
<1>3. s[1] = (n \div 10^(2 - 1)) % 10 /\ s[2] = (n \div 10^(2 - 2)) % 10
  BY <1>1
<1>4. s[1] = (n \div 10) % 10 /\ s[2] = (n \div 1) % 10
  <2>1. 2 - 1 = 1 /\ 2 - 2 = 0
    OBVIOUS
  <2> QED BY <1>3, <2>1, PowersOfTen
<1> HIDE DEF s
<1>5. s[1] \in Nat /\ s[2] \in Nat /\ s[1] * 10 + s[2] = n
  BY <1>4
<1> QED BY <1>2, <1>5, ParseTwo DEF s

(* The decimal digits of a number below ten thousand add up to it.         *)
LEMMA FourDigitsAddUp ==
    ASSUME NEW n \in Nat, n < 10000
    PROVE  /\ (n \div 1000) % 10 \in Nat /\ (n \div 100) % 10 \in Nat
           /\ (n \div 10) % 10 \in Nat /\ (n \div 1) % 10 \in Nat
           /\ ((n \div 1000) % 10) * 1000 + ((n \div 100) % 10) * 100
                + ((n \div 10) % 10) * 10 + ((n \div 1) % 10) = n
OBVIOUS

(* Four digits are read as the year they were written for.                 *)
LEMMA FourDigitsReadBack ==
    ASSUME NEW n \in Years
    PROVE  Dates!ParseDigits(Dates!Digits(n, 4)) = n
<1> DEFINE s == Dates!Digits(n, 4)
<1>1. s = [i \in 1..4 |-> (n \div 10^(4 - i)) % 10]
  BY DEF Dates!Digits
<1>2. Len(s) = 4
  BY <1>1
<1>3. /\ s[1] = (n \div 10^(4 - 1)) % 10 /\ s[2] = (n \div 10^(4 - 2)) % 10
      /\ s[3] = (n \div 10^(4 - 3)) % 10 /\ s[4] = (n \div 10^(4 - 4)) % 10
  BY <1>1
<1>4. /\ s[1] = (n \div 1000) % 10 /\ s[2] = (n \div 100) % 10
      /\ s[3] = (n \div 10) % 10 /\ s[4] = (n \div 1) % 10
  <2>1. 4 - 1 = 3 /\ 4 - 2 = 2 /\ 4 - 3 = 1 /\ 4 - 4 = 0
    OBVIOUS
  <2> QED BY <1>3, <2>1, PowersOfTen
<1> HIDE DEF s
<1>5. /\ s[1] \in Nat /\ s[2] \in Nat /\ s[3] \in Nat /\ s[4] \in Nat
      /\ s[1] * 1000 + s[2] * 100 + s[3] * 10 + s[4] = n
  <2>1. n \in Nat /\ n < 10000
    BY DEF Years
  <2> QED BY <1>4, <2>1, FourDigitsAddUp
<1> QED BY <1>2, <1>5, ParseFour DEF s

(* The name of a month is read as that month.                              *)
LEMMA MonthsReadBack ==
    ASSUME NEW m \in 1..12
    PROVE  Dates!ParseMonth(Dates!Months[m]) = m
<1>1. \A j, k \in 1..12 : Dates!Months[j] = Dates!Months[k] => j = k
  BY DEF Dates!Months
<1> QED BY <1>1 DEF Dates!ParseMonth
-----------------------------------------------------------------------------
(* What a date is read as.                                                 *)

(* The fields that are numbers and lie before position k.                  *)
FieldsBefore(k) == {f \in Dates!Numbers : \E i \in 1..(k - 1) : Dates!Layout[i] = f}

BlankDay == padding = "blank" /\ value.day < 10

DateInv ==
    /\ outcome \in {"absent", "reading", "date", "err", "panic"}
    /\ outcome # "absent" =>
        /\ value \in Values
        /\ damage \in {Dates!NoDamage} \cup Dates!Damages
        /\ at \in 1..17 /\ damage.at \notin 1..(at - 1)
        /\ at > 1 => wkday \in Dates!Weekdays
        /\ read = [f \in FieldsBefore(at) |-> value[f]]
        /\ at > 8 => Dates!DateExists(value)
        /\ at > 14 => Dates!TimeExists(value)
        /\ outcome = "date" => at = 17 /\ value.year >= 1970
        /\ outcome = "panic" => ~Spelt
        /\ outcome = "err" => ~FieldsSpelt \/ BlankDay

(* The layout, position by position.                                       *)
LEMMA LayoutIs ==
    /\ Len(Dates!Layout) = 16
    /\ \A i \in 1..16 :
          /\ Dates!Layout[i] \in Dates!Numbers <=> i \in {4, 6, 8, 10, 12, 14}
          /\ Dates!Layout[i] = "wkday" <=> i = 1
          /\ Dates!Layout[i] = "day" <=> i = 4
          /\ Dates!Layout[i] = "month" <=> i = 6
          /\ Dates!Layout[i] = "year" <=> i = 8
          /\ Dates!Layout[i] = "hour" <=> i = 10
          /\ Dates!Layout[i] = "minute" <=> i = 12
          /\ Dates!Layout[i] = "second" <=> i = 14
BY DEF Dates!Layout, Dates!Numbers

(* The fields of any record.                                               *)
LEMMA FieldsOfRecord ==
    ASSUME NEW A, NEW B, NEW C,
           NEW v \in [day : A, month : B, year : C, hour : A, minute : A, second : A]
    PROVE  /\ v.day \in A /\ v.month \in B /\ v.year \in C
           /\ v.hour \in A /\ v.minute \in A /\ v.second \in A
           /\ v = [f \in {"day", "month", "year", "hour", "minute", "second"} |-> v[f]]
OBVIOUS

(* The fields of a date and their numbers.                                 *)
LEMMA FieldsOfValue ==
    ASSUME NEW v \in Values
    PROVE  /\ v.day \in 0..99 /\ v.month \in 1..12 /\ v.year \in Years
           /\ v.hour \in 0..99 /\ v.minute \in 0..99 /\ v.second \in 0..99
           /\ \A r : r = [f \in Dates!Numbers |-> v[f]] => r = v
<1>1. v \in [day : TwoDigits, month : MonthNumbers, year : Years,
             hour : TwoDigits, minute : TwoDigits, second : TwoDigits]
  BY ValuesAssumption, Zenon
<1>2. /\ v.day \in TwoDigits /\ v.month \in MonthNumbers /\ v.year \in Years
      /\ v.hour \in TwoDigits /\ v.minute \in TwoDigits /\ v.second \in TwoDigits
      /\ v = [f \in {"day", "month", "year", "hour", "minute", "second"} |-> v[f]]
  BY <1>1, FieldsOfRecord
<1>3. Dates!Numbers = {"day", "month", "year", "hour", "minute", "second"}
  BY DEF Dates!Numbers
<1>4. \A r : r = [f \in Dates!Numbers |-> v[f]] => r = v
  BY <1>2, <1>3, Zenon
<1> QED BY <1>2, <1>4, Zenon DEF TwoDigits, MonthNumbers

(* One field more.                                                         *)
LEMMA NextField ==
    ASSUME NEW k \in 1..16
    PROVE  FieldsBefore(k + 1) = FieldsBefore(k) \cup ({Dates!Layout[k]} \cap Dates!Numbers)
<1>1. (k + 1) - 1 = k /\ \A i : i \in 1..k <=> i \in 1..(k - 1) \/ i = k
  OBVIOUS
<1> QED BY <1>1 DEF FieldsBefore

(* Before the first position nothing was read, after the last everything.  *)
LEMMA AllFields == FieldsBefore(1) = {} /\ FieldsBefore(17) = Dates!Numbers
<1>1. 1 - 1 = 0 /\ 1..0 = {}
  OBVIOUS
<1>2. FieldsBefore(1) = {}
  BY <1>1 DEF FieldsBefore
<1>3. ASSUME NEW f \in Dates!Numbers PROVE \E i \in 1..16 : Dates!Layout[i] = f
  <2>1. f \in {"day", "month", "year", "hour", "minute", "second"}
    BY DEF Dates!Numbers
  <2>2. /\ 4 \in 1..16 /\ 6 \in 1..16 /\ 8 \in 1..16
        /\ 10 \in 1..16 /\ 12 \in 1..16 /\ 14 \in 1..16
    OBVIOUS
  <2> QED BY <2>1, <2>2, LayoutIs
<1>4. 17 - 1 = 16
  OBVIOUS
<1> QED BY <1>2, <1>3, <1>4 DEF FieldsBefore

(* A field that is as it was written is read as it was written.            *)
LEMMA FieldReadBack ==
    ASSUME value \in Values, at \in 1..16, Dates!Field \in Dates!Numbers
    PROVE  value[Dates!Field] =
               IF Dates!Field = "month" THEN Dates!ParseMonth(Dates!Written(Dates!Field))
                                        ELSE Dates!ParseDigits(Dates!Written(Dates!Field))
<1>1. /\ value.day \in 0..99 /\ value.month \in 1..12 /\ value.year \in Years
      /\ value.hour \in 0..99 /\ value.minute \in 0..99 /\ value.second \in 0..99
  BY FieldsOfValue
<1>2. Dates!Field \in {"day", "month", "year", "hour", "minute", "second"}
  BY DEF Dates!Numbers
<1>3. CASE Dates!Field = "month"
  <2>1. Dates!Written(Dates!Field) = Dates!Months[value.month]
    BY <1>3 DEF Dates!Written
  <2> QED BY <1>1, <1>3, <2>1, MonthsReadBack
<1>4. CASE Dates!Field = "year"
  <2>1. Dates!Written(Dates!Field) = Dates!Digits(value.year, 4)
    BY <1>4 DEF Dates!Written
  <2>2. Dates!ParseDigits(Dates!Written(Dates!Field)) = value.year
    <3>1. Dates!ParseDigits(Dates!Digits(value.year, 4)) = value.year
      BY <1>1, FourDigitsReadBack
    <3> QED BY <2>1, <3>1
  <2>3. value[Dates!Field] = value.year /\ Dates!Field # "month"
    BY <1>4
  <2> QED BY <2>2, <2>3
<1>5. CASE Dates!Field \notin {"month", "year"}
  <2>1. Dates!Written(Dates!Field) = Dates!Digits(value[Dates!Field], 2)
    BY <1>5 DEF Dates!Written
  <2>2. value[Dates!Field] \in 0..99
    BY <1>1, <1>2, <1>5
  <2> QED BY <1>5, <2>1, <2>2, TwoDigitsReadBack
<1> QED BY <1>3, <1>4, <1>5

(* A damaged field keeps a text from being spelt.                          *)
LEMMA DamageAt ==
    ASSUME NEW i \in 1..16, damage.at = i
    PROVE  ~FieldsSpelt
BY LayoutIs DEF FieldsSpelt, Dates!NoDamage, Dates!TextBehind

(* Damage is none, at a position of the text, or behind it.                *)
LEMMA UndamagedOrInText ==
    ASSUME damage \in {Dates!NoDamage} \cup Dates!Damages, damage.at \notin 1..16
    PROVE  damage \in {Dates!NoDamage, Dates!TextBehind}
BY LayoutIs DEF Dates!Damages

(* Going on to the next field.                                             *)
LEMMA FieldDone ==
    ASSUME DateInv, outcome = "reading", at \in 1..16, Dates!Good, Dates!Advance,
           outcome' = outcome,
           read' = [f \in FieldsBefore(at + 1) |-> value[f]],
           at = 1 => wkday \in Dates!Weekdays,
           at = 8 => Dates!DateExists(value),
           at = 14 => Dates!TimeExists(value)
    PROVE  DateInv'
<1>1. /\ at' = at + 1 /\ value' = value /\ wkday' = wkday /\ padding' = padding /\ damage' = damage
      /\ damage.at # at
  BY DEF Dates!Advance, Dates!Good
<1>2. /\ at + 1 \in 1..17 /\ (at + 1) - 1 = at
      /\ (at + 1 > 8 => at > 8 \/ at = 8) /\ (at + 1 > 14 => at > 14 \/ at = 14)
      /\ \A i \in 1..at : i \in 1..(at - 1) \/ i = at
  OBVIOUS
<1>3. damage'.at \notin 1..(at' - 1)
  BY <1>1, <1>2 DEF DateInv
<1>4. Dates!DateExists(value)' = Dates!DateExists(value) /\ Dates!TimeExists(value)' = Dates!TimeExists(value)
  BY <1>1 DEF Dates!DateExists, Dates!DaysIn, Dates!Leap, Dates!TimeExists
<1>5. read' = [f \in FieldsBefore(at)' |-> value'[f]]
  BY <1>1 DEF FieldsBefore
<1> QED BY <1>1, <1>2, <1>3, <1>4, <1>5 DEF DateInv

(* Ending before the last field.                                           *)
LEMMA EndsEarly ==
    ASSUME DateInv, outcome = "reading", NEW how \in {"err", "panic"}, Dates!End(how),
           how = "panic" => ~Spelt,
           how = "err" => ~FieldsSpelt \/ BlankDay
    PROVE  DateInv'
<1>1. /\ value' = value /\ wkday' = wkday /\ padding' = padding /\ damage' = damage /\ at' = at /\ read' = read
      /\ outcome' = how
  BY DEF Dates!End
<1>2. /\ Dates!DateExists(value)' = Dates!DateExists(value)
      /\ Dates!TimeExists(value)' = Dates!TimeExists(value)
  BY <1>1 DEF Dates!DateExists, Dates!DaysIn, Dates!Leap, Dates!TimeExists
<1>3. how = "panic" => ~Spelt'
  BY <1>1, <1>2 DEF Spelt, FieldsSpelt
<1>4. /\ BlankDay' = BlankDay /\ FieldsBefore(at)' = FieldsBefore(at)
      /\ FieldsSpelt' = FieldsSpelt
  BY <1>1 DEF BlankDay, FieldsBefore, FieldsSpelt
<1> QED BY <1>1, <1>2, <1>3, <1>4 DEF DateInv

(* A literal, and the day of the week.                                     *)
LEMMA LiteralKept ==
    ASSUME DateInv, outcome = "reading", at \in 1..16, Dates!Literal \/ Dates!Wkday
    PROVE  DateInv'
<1>1. Dates!Layout[at] \notin Dates!Numbers
  BY DEF Dates!Literal, Dates!Wkday, Dates!Field, Dates!Numbers
<1>2. FieldsBefore(at + 1) = FieldsBefore(at) /\ at # 8 /\ at # 14
  <2>1. FieldsBefore(at + 1) = FieldsBefore(at) \cup ({Dates!Layout[at]} \cap Dates!Numbers)
    BY NextField
  <2>2. at # 8 /\ at # 14
    BY <1>1, LayoutIs
  <2> QED BY <1>1, <2>1, <2>2
<1>3. Dates!Wkday <=> at = 1 /\ Dates!Wkday
  BY LayoutIs DEF Dates!Wkday, Dates!Field
<1>4. CASE Dates!Good /\ (at = 1 => wkday \in Dates!Weekdays)
  <2>1. Dates!Advance /\ read' = read /\ outcome' = outcome
    BY <1>3, <1>4 DEF Dates!Literal, Dates!Wkday
  <2>2. read' = [f \in FieldsBefore(at + 1) |-> value[f]]
    BY <1>2, <2>1 DEF DateInv
  <2> QED BY <1>2, <1>4, <2>1, <2>2, FieldDone
<1>5. CASE ~Dates!Good \/ (at = 1 /\ wkday \notin Dates!Weekdays)
  <2>1. ~FieldsSpelt
    BY <1>5, DamageAt DEF Dates!Good, FieldsSpelt
  <2>2. Dates!End("err") \/ Dates!End("panic")
    <3>1. CASE Dates!Wkday
      BY <1>5, <3>1 DEF Dates!Wkday
    <3>2. CASE Dates!Literal
      BY <1>5, <3>2, LayoutIs DEF Dates!Literal, Dates!Field
    <3> QED BY <3>1, <3>2
  <2> QED BY <2>1, <2>2, EndsEarly DEF Spelt
<1> QED BY <1>4, <1>5

(* A number, with the checks of the date and the time behind it.           *)
LEMMA NumberKept ==
    ASSUME DateInv, outcome = "reading", at \in 1..16, Dates!Number
    PROVE  DateInv'
<1> DEFINE F == Dates!Field
           n == IF F = "month" THEN Dates!ParseMonth(Dates!Written(F))
                               ELSE Dates!ParseDigits(Dates!Written(F))
           now == [f \in DOMAIN read \cup {F} |-> IF f = F THEN n ELSE read[f]]
           exists == CASE F = "year" -> Dates!DateExists(now)
                       [] F = "second" -> Dates!TimeExists(now)
                       [] OTHER -> TRUE
<1>1. /\ F \in Dates!Numbers
      /\ CASE ~Dates!Good -> Dates!End(IF damage.how = "other" THEN "err" ELSE "panic")
           [] Dates!Good /\ Dates!Blank -> Dates!End("err")
           [] Dates!Good /\ ~Dates!Blank /\ ~exists -> Dates!End("panic")
           [] Dates!Good /\ ~Dates!Blank /\ exists ->
                  Dates!Advance /\ read' = now /\ outcome' = outcome
  BY DEF Dates!Number
<1>2. value \in Values /\ F = Dates!Layout[at] /\ read = [f \in FieldsBefore(at) |-> value[f]]
  BY DEF DateInv, Dates!Field
<1>3. now = [f \in FieldsBefore(at + 1) |-> value[f]]
  <2>1. n = value[F]
    BY <1>1, <1>2, FieldReadBack
  <2>2. FieldsBefore(at + 1) = FieldsBefore(at) \cup {F}
    BY <1>1, <1>2, NextField
  <2>3. DOMAIN read = FieldsBefore(at) /\ \A f \in FieldsBefore(at) : read[f] = value[f]
    BY <1>2
  <2> HIDE DEF F, n
  <2> QED BY <2>1, <2>2, <2>3
<1>4. exists <=> (at = 8 => Dates!DateExists(value)) /\ (at = 14 => Dates!TimeExists(value))
  <2>1. (F = "year" <=> at = 8) /\ (F = "second" <=> at = 14)
    BY <1>2, LayoutIs
  <2>2. CASE at = 8
    <3>1. {"day", "month", "year"} \subseteq FieldsBefore(at + 1)
      <4>1. 4 \in 1..((at + 1) - 1) /\ 6 \in 1..((at + 1) - 1) /\ 8 \in 1..((at + 1) - 1)
        BY <2>2
      <4>2. Dates!Layout[4] = "day" /\ Dates!Layout[6] = "month" /\ Dates!Layout[8] = "year"
        BY LayoutIs
      <4> QED BY <4>1, <4>2 DEF FieldsBefore, Dates!Numbers
    <3> HIDE DEF now, F
    <3>2. now.day = value.day /\ now.month = value.month /\ now.year = value.year
      BY <1>3, <3>1
    <3>3. Dates!DateExists(now) <=> Dates!DateExists(value)
      BY <3>2 DEF Dates!DateExists
    <3> QED BY <2>1, <2>2, <3>3
  <2>3. CASE at = 14
    <3>1. {"hour", "minute", "second"} \subseteq FieldsBefore(at + 1)
      <4>1. 10 \in 1..((at + 1) - 1) /\ 12 \in 1..((at + 1) - 1) /\ 14 \in 1..((at + 1) - 1)
        BY <2>3
      <4>2. Dates!Layout[10] = "hour" /\ Dates!Layout[12] = "minute" /\ Dates!Layout[14] = "second"
        BY LayoutIs
      <4> QED BY <4>1, <4>2 DEF FieldsBefore, Dates!Numbers
    <3> HIDE DEF now, F
    <3>2. now.hour = value.hour /\ now.minute = value.minute /\ now.second = value.second
      BY <1>3, <3>1
    <3>3. Dates!TimeExists(now) <=> Dates!TimeExists(value)
      BY <3>2 DEF Dates!TimeExists
    <3> QED BY <2>1, <2>3, <3>3
  <2>4. CASE at # 8 /\ at # 14
    <3> HIDE DEF now, F
    <3> QED BY <2>1, <2>4
  <2> QED BY <2>2, <2>3, <2>4
<1>5. Dates!Blank => BlankDay
  BY DEF Dates!Blank, BlankDay
<1> HIDE DEF exists, now, n, F
<1>6. CASE ~Dates!Good
  <2>1. Dates!End("err") \/ Dates!End("panic")
    BY <1>1, <1>6
  <2>2. ~FieldsSpelt
    BY <1>6, DamageAt DEF Dates!Good
  <2> QED BY <2>1, <2>2, EndsEarly DEF Spelt
<1>7. CASE Dates!Good /\ Dates!Blank
  <2>1. Dates!End("err")
    BY <1>1, <1>7
  <2> QED BY <1>5, <1>7, <2>1, EndsEarly
<1>8. CASE Dates!Good /\ ~Dates!Blank /\ ~exists
  <2>1. Dates!End("panic")
    BY <1>1, <1>8
  <2>2. ~Spelt
    BY <1>4, <1>8 DEF Spelt
  <2> QED BY <2>1, <2>2, EndsEarly
<1>9. CASE Dates!Good /\ ~Dates!Blank /\ exists
  <2>1. Dates!Advance /\ read' = now /\ outcome' = outcome
    BY <1>1, <1>9
  <2>2. at # 1
    BY <1>1, <1>2, LayoutIs
  <2> QED BY <1>3, <1>4, <1>9, <2>1, <2>2, FieldDone
<1> QED BY <1>6, <1>7, <1>8, <1>9

(* What has been read to the end is what was written.                      *)
LEMMA AllRead ==
    ASSUME DateInv, outcome # "absent", at = 17
    PROVE  /\ read = value /\ FieldsSpelt
           /\ Dates!DateExists(value) /\ Dates!TimeExists(value)
<1>1. /\ value \in Values /\ read = [f \in FieldsBefore(17) |-> value[f]]
      /\ damage \in {Dates!NoDamage} \cup Dates!Damages /\ damage.at \notin 1..(17 - 1)
      /\ wkday \in Dates!Weekdays
      /\ Dates!DateExists(value) /\ Dates!TimeExists(value)
  BY DEF DateInv
<1>2. read = value
  BY <1>1, AllFields, FieldsOfValue
<1>3. 17 - 1 = 16
  OBVIOUS
<1> QED BY <1>1, <1>2, <1>3, UndamagedOrInText DEF FieldsSpelt

(* A date is used unless it is before 1970.                                *)
LEMMA UseKept ==
    ASSUME DateInv, outcome = "reading", at = 17, Dates!Use
    PROVE  DateInv'
<1>1. read = value /\ value \in Values
  BY AllRead DEF DateInv
<1>2. value.year \in Nat
  BY <1>1, FieldsOfValue, YearsAreNumbers
<1>3. CASE value.year < 1970
  <2>1. Dates!End("panic")
    BY <1>1, <1>3 DEF Dates!Use
  <2>2. ~Spelt
    BY <1>2, <1>3 DEF Spelt
  <2> QED BY <2>1, <2>2, EndsEarly
<1>4. CASE ~(value.year < 1970)
  <2>1. Dates!End("date")
    BY <1>1, <1>4 DEF Dates!Use
  <2>2. /\ value' = value /\ wkday' = wkday /\ padding' = padding /\ damage' = damage /\ at' = at /\ read' = read
        /\ outcome' = "date"
    BY <2>1 DEF Dates!End
  <2>3. /\ Dates!DateExists(value)' = Dates!DateExists(value)
        /\ Dates!TimeExists(value)' = Dates!TimeExists(value)
        /\ FieldsBefore(at)' = FieldsBefore(at)
    BY <2>2 DEF Dates!DateExists, Dates!DaysIn, Dates!Leap, Dates!TimeExists, FieldsBefore
  <2>4. value.year >= 1970
    BY <1>2, <1>4
  <2> QED BY <2>2, <2>3, <2>4 DEF DateInv
<1> QED BY <1>3, <1>4

(* The invariant holds at the start and is kept.                           *)
LEMMA DateStarts == ASSUME HandlerInit PROVE DateInv
<1>1. CASE Dates!NoHeader
  BY <1>1 DEF Dates!NoHeader, DateInv
<1>2. CASE Dates!Header
  <2>1. /\ value \in Values /\ damage \in {Dates!NoDamage} \cup Dates!Damages
        /\ at = 1 /\ read = [f \in {} |-> 0] /\ outcome = "reading"
    BY <1>2 DEF Dates!Header
  <2>2. read = [f \in FieldsBefore(at) |-> value[f]]
    BY <2>1, AllFields
  <2>3. 1 \in 1..17 /\ ~(1 > 1) /\ ~(1 > 8) /\ ~(1 > 14) /\ 1..(1 - 1) = {}
    OBVIOUS
  <2> QED BY <2>1, <2>2, <2>3 DEF DateInv
<1> QED BY <1>1, <1>2 DEF HandlerInit

(* A step that leaves the date alone keeps the invariant.                  *)
LEMMA DateStutters == ASSUME DateInv, UNCHANGED date PROVE DateInv'
<1>1. /\ value' = value /\ wkday' = wkday /\ padding' = padding /\ damage' = damage /\ at' = at /\ read' = read
      /\ outcome' = outcome
  BY DEF date
<1>2. /\ Dates!DateExists(value)' = Dates!DateExists(value)
      /\ Dates!TimeExists(value)' = Dates!TimeExists(value)
      /\ FieldsBefore(at)' = FieldsBefore(at) /\ BlankDay' = BlankDay
  BY <1>1 DEF Dates!DateExists, Dates!DaysIn, Dates!Leap, Dates!TimeExists, FieldsBefore, BlankDay
<1>3. Spelt' = Spelt /\ FieldsSpelt' = FieldsSpelt
  BY <1>1, <1>2 DEF Spelt, FieldsSpelt
<1> QED BY <1>1, <1>2, <1>3 DEF DateInv

(* Every step of a date keeps the invariant.                               *)
LEMMA DateKept == ASSUME DateInv, Dates!Next PROVE DateInv'
<1>1. outcome = "reading" /\ at \in 1..17 /\ Len(Dates!Layout) = 16
  BY LayoutIs DEF Dates!Next, DateInv
<1>2. CASE at <= 16
  <2>1. at \in 1..16 /\ (Dates!Literal \/ Dates!Wkday \/ Dates!Number)
    BY <1>1, <1>2 DEF Dates!Next
  <2> QED BY <1>1, <2>1, LiteralKept, NumberKept
<1>3. CASE at > 16
  <2>1. at = 17 /\ Dates!Use
    BY <1>1, <1>3 DEF Dates!Next
  <2> QED BY <1>1, <2>1, UseKept
<1> QED BY <1>1, <1>2, <1>3

(* The date invariant holds in every behaviour.                            *)
LEMMA DateAlways == HandlerSpec => []DateInv
<1>1. DateInv /\ [HandlerNext]_<<vars, date>> => DateInv'
  BY DateKept, DateStutters DEF HandlerNext
<1> QED BY <1>1, DateStarts, PTL DEF HandlerSpec

(* A date the server wrote is read as the same date or, if its day is one  *)
(* digit behind a blank, refused, under the name of any weekday and with   *)
(* any text behind it; nothing else is used as a date (time.rs:16-92,      *)
(* host.rs:77).                                                            *)
THEOREM DatesReadBack == HandlerSpec => []ReadBackOrRefused
<1>1. ASSUME DateInv PROVE ReadBackOrRefused
  <2>1. CASE Spelt
    <3>1. outcome = "date" => read = value
      BY <1>1, AllRead DEF DateInv
    <3>2. outcome # "panic" /\ (outcome = "err" => BlankDay)
      BY <1>1, <2>1 DEF DateInv, Spelt
    <3> QED BY <1>1, <2>1, <3>1, <3>2 DEF ReadBackOrRefused, Outcome, Spelt, BlankDay, DateInv
  <2>2. CASE ~Spelt
    <3>1. outcome # "date"
      <4> SUFFICES ASSUME outcome = "date" PROVE Spelt
        BY <2>2
      <4>1. at = 17 /\ value.year >= 1970 /\ outcome # "absent"
        BY <1>1 DEF DateInv
      <4> QED BY <1>1, <4>1, AllRead DEF Spelt
    <3> QED BY <1>1, <2>2, <3>1 DEF ReadBackOrRefused, Outcome, DateInv
  <2> QED BY <2>1, <2>2
<1>2. DateInv => ReadBackOrRefused
  BY <1>1
<1> QED BY <1>2, DateAlways, PTL
=============================================================================
