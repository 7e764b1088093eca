----------------------- MODULE SequentialServerProofs -----------------------
(***************************************************************************)
(* Proofs about SequentialServer.  That its thread serves connections as   *)
(* ConnectionDispatch promises needs to know where a connection can be:    *)
(* one nobody has opened is nowhere, and none is in two places.  What a    *)
(* configuration file means, for files of any length, needs to know of the *)
(* lines read so far what the properties say of the whole file: blocks     *)
(* counted, every line allowed where it stands, every value the last one's.*)
(***************************************************************************)
EXTENDS SequentialServer, SequenceTheorems, FiniteSetTheorems, TLAPS

ConnectionsTyped ==
    /\ pc \in {"accept", "process", "failed", "ended"}
    /\ serving \in Conn \cup {NoConn}
    /\ kind \in [Conn -> Loop!AllKinds \cup {"none"}]
    /\ backlog \in Seq(Conn)
    /\ reply \in [Conn -> {"none", "ok", "closed"}]

(* The thread holds a connection while it processes one, and only then.    *)
HoldsWhileProcessing == pc = "process" <=> serving # NoConn

(* A connection that waits or is served was opened and is not over; one    *)
(* that waits is not being served, and waits in one place.                 *)
OnePlace ==
    /\ \A c \in Conn :
          /\ c \in ToSet(backlog) \/ serving = c => kind[c] # "none" /\ reply[c] = "none"
          /\ c \in ToSet(backlog) => serving # c
          /\ reply[c] # "none" => kind[c] # "none"
    /\ \A i, j \in 1..Len(backlog) : backlog[i] = backlog[j] => i = j

ConnectionsInv == ConnectionsTyped /\ HoldsWhileProcessing /\ OnePlace
-----------------------------------------------------------------------------
(* The backlog.                                                            *)

(* What ToSet collects is what is in the line.                             *)
LEMMA LineAsSet ==
    ASSUME NEW q \in Seq(Conn)
    PROVE  \A c : c \in ToSet(q) <=> \E i \in 1..Len(q) : q[i] = c
  BY LenProperties DEF ToSet

(* A connection is put behind those that wait.                             *)
LEMMA LineAppend ==
    ASSUME NEW q \in Seq(Conn), NEW c \in Conn
    PROVE  /\ Append(q, c) \in Seq(Conn)
           /\ ToSet(Append(q, c)) = ToSet(q) \cup {c}
<1>1. /\ Append(q, c) \in Seq(Conn)
      /\ Len(Append(q, c)) = Len(q) + 1 /\ Len(q) \in Nat
      /\ \A i \in 1..Len(q) : Append(q, c)[i] = q[i]
      /\ Append(q, c)[Len(q) + 1] = c
  BY AppendProperties, LenProperties
<1>2. \A d : d \in ToSet(Append(q, c)) <=> d \in ToSet(q) \/ d = c
  <2>1. \A i \in 1..Len(Append(q, c)) : i \in 1..Len(q) \/ i = Len(q) + 1
    BY <1>1
  <2>2. \A i \in 1..Len(q) : i \in 1..Len(Append(q, c))
    BY <1>1
  <2>3. Len(q) + 1 \in 1..Len(Append(q, c))
    BY <1>1
  <2>4. \A d : d \in ToSet(Append(q, c)) <=>
                 \E i \in 1..Len(Append(q, c)) : Append(q, c)[i] = d
    BY <1>1, LineAsSet
  <2> QED BY <1>1, <2>1, <2>2, <2>3, <2>4, LineAsSet
<1> QED BY <1>1, <1>2

(* The first of those that wait is taken, the others stay.                 *)
LEMMA LineTail ==
    ASSUME NEW q \in Seq(Conn), q # <<>>,
           \A i, j \in 1..Len(q) : q[i] = q[j] => i = j
    PROVE  /\ Head(q) \in ToSet(q)
           /\ Tail(q) \in Seq(Conn)
           /\ ToSet(Tail(q)) = ToSet(q) \ {Head(q)}
           /\ \A i, j \in 1..Len(Tail(q)) : Tail(q)[i] = Tail(q)[j] => i = j
<1>1. /\ Tail(q) \in Seq(Conn)
      /\ Head(q) = q[1] /\ Len(q) \in Nat \ {0}
      /\ Len(Tail(q)) = Len(q) - 1
      /\ \A i \in 1..Len(Tail(q)) : Tail(q)[i] = q[i + 1]
  BY HeadTailProperties, EmptySeq
<1>2. \A i \in 1..Len(Tail(q)) : i + 1 \in 1..Len(q) /\ i + 1 # 1
  BY <1>1
<1>3. \A i \in 1..Len(q) : i # 1 => i - 1 \in 1..Len(Tail(q)) /\ (i - 1) + 1 = i
  BY <1>1
<1>4. 1 \in 1..Len(q)
  BY <1>1
<1>5. \A d : d \in ToSet(Tail(q)) <=> d \in ToSet(q) /\ d # Head(q)
  <2>1. ASSUME NEW i \in 1..Len(Tail(q))
        PROVE  Tail(q)[i] \in ToSet(q) /\ Tail(q)[i] # Head(q)
    BY <1>1, <1>2, <1>4, LineAsSet
  <2>2. ASSUME NEW i \in 1..Len(q), q[i] # Head(q)
        PROVE  q[i] \in ToSet(Tail(q))
    <3>1. i # 1 /\ q[i] = Tail(q)[i - 1]
      BY <1>1, <1>3, <2>2
    <3> QED BY <1>1, <1>3, <3>1, LineAsSet
  <2>3. \A d : d \in ToSet(Tail(q)) <=> \E i \in 1..Len(Tail(q)) : Tail(q)[i] = d
    BY <1>1, LineAsSet
  <2>4. \A d : d \in ToSet(q) <=> \E i \in 1..Len(q) : q[i] = d
    BY LineAsSet
  <2> QED BY <2>1, <2>2, <2>3, <2>4
<1>6. \A i, j \in 1..Len(Tail(q)) : Tail(q)[i] = Tail(q)[j] => i = j
  <2> TAKE i, j \in 1..Len(Tail(q))
  <2> HAVE Tail(q)[i] = Tail(q)[j]
  <2>1. i + 1 = j + 1
    BY <1>1, <1>2
  <2> QED BY <2>1
<1> QED BY <1>1, <1>4, <1>5, <1>6, LineAsSet
-----------------------------------------------------------------------------
(* The steps.                                                              *)

(* A client connects: an arrival.                                          *)
LEMMA ConnectArrives ==
    ASSUME ConnectionsInv, NEW c \in Conn, NEW k \in RequestKinds,
           Loop!Connect(c, k)
    PROVE  ConnectionsInv' /\ Dispatcher!Arrive(c)
<1>1. /\ pc \in {"accept", "process"} /\ kind[c] = "none"
      /\ k \in Loop!AllKinds /\ k # "none"
      /\ kind' = [kind EXCEPT ![c] = k]
      /\ backlog' = Append(backlog, c)
      /\ UNCHANGED <<pc, serving, reply>>
  BY ConnectionsAssumption DEF Loop!Connect, Loop!AllKinds
<1>2. /\ backlog' \in Seq(Conn)
      /\ ToSet(backlog') = ToSet(backlog) \cup {c}
  BY <1>1, LineAppend DEF ConnectionsInv, ConnectionsTyped
<1>3. c \notin ToSet(backlog) /\ serving # c /\ reply[c] = "none"
  BY <1>1 DEF ConnectionsInv, OnePlace, ConnectionsTyped
<1>4. ConnectionsTyped'
  BY <1>1, <1>2 DEF ConnectionsInv, ConnectionsTyped
<1>5. OnePlace'
  <2>1. \A d \in Conn :
          /\ d \in ToSet(backlog') \/ serving' = d => kind'[d] # "none" /\ reply'[d] = "none"
          /\ d \in ToSet(backlog') => serving' # d
          /\ reply'[d] # "none" => kind'[d] # "none"
    BY <1>1, <1>2, <1>3 DEF ConnectionsInv, OnePlace, ConnectionsTyped
  <2>2. \A i, j \in 1..Len(backlog') : backlog'[i] = backlog'[j] => i = j
    <3>1. /\ Len(backlog') = Len(backlog) + 1 /\ Len(backlog) \in Nat
          /\ \A i \in 1..Len(backlog) : backlog'[i] = backlog[i]
          /\ backlog'[Len(backlog) + 1] = c
      BY <1>1, AppendProperties, LenProperties DEF ConnectionsInv, ConnectionsTyped
    <3>2. \A i \in 1..Len(backlog') : i \in 1..Len(backlog) \/ i = Len(backlog) + 1
      BY <3>1
    <3>3. \A i \in 1..Len(backlog) : backlog[i] # c
      BY <1>3, LineAsSet DEF ConnectionsInv, ConnectionsTyped
    <3> QED BY <3>1, <3>2, <3>3 DEF ConnectionsInv, OnePlace
  <2> QED BY <2>1, <2>2 DEF OnePlace
<1>6. Dispatcher!Arrive(c)
  BY <1>1, <1>2, <1>3 DEF Dispatcher!Arrive
<1> QED BY <1>1, <1>4, <1>5, <1>6 DEF ConnectionsInv, HoldsWhileProcessing

(* The thread takes the first of those that wait.                          *)
LEMMA AcceptAssigns ==
    ASSUME ConnectionsInv, Loop!Accept
    PROVE  ConnectionsInv' /\ \E c \in Conn : Dispatcher!Assign("main", c)
<1>1. /\ pc = "accept" /\ backlog # <<>> /\ pc' = "process"
      /\ serving' = Head(backlog)
      /\ backlog' = Tail(backlog)
      /\ UNCHANGED <<kind, reply>>
  BY DEF Loop!Accept
<1>2. /\ backlog \in Seq(Conn)
      /\ \A i, j \in 1..Len(backlog) : backlog[i] = backlog[j] => i = j
  BY DEF ConnectionsInv, ConnectionsTyped, OnePlace
<1>3. /\ serving' \in ToSet(backlog) /\ serving' \in Conn
      /\ backlog' \in Seq(Conn)
      /\ ToSet(backlog') = ToSet(backlog) \ {serving'}
      /\ \A i, j \in 1..Len(backlog') : backlog'[i] = backlog'[j] => i = j
  BY <1>1, <1>2, LineTail, HeadTailProperties
<1>4. serving = NoConn
  BY <1>1 DEF ConnectionsInv, HoldsWhileProcessing
<1>5. ConnectionsTyped' /\ HoldsWhileProcessing'
  BY <1>1, <1>3, ConnectionsAssumption
  DEF ConnectionsInv, ConnectionsTyped, HoldsWhileProcessing
<1>6. OnePlace'
  BY <1>1, <1>3 DEF ConnectionsInv, OnePlace
<1>7. Dispatcher!Assign("main", serving')
  BY <1>1, <1>3, <1>4 DEF Dispatcher!Assign
<1> QED BY <1>3, <1>5, <1>6, <1>7 DEF ConnectionsInv

(* The connection served is over: answered or closed, once.                *)
LEMMA OverSettles ==
    ASSUME ConnectionsInv, pc = "process",
           NEW how \in {"ok", "closed"}, Loop!Over(serving, how),
           NEW next \in {"accept", "ended"}, pc' = next,
           UNCHANGED <<kind, backlog>>
    PROVE  /\ ConnectionsInv'
           /\ next = "accept" => Dispatcher!Settle("main")
           /\ next = "ended" => Dispatcher!Crash("main")
<1>1. /\ serving \in Conn /\ serving # NoConn
      /\ reply' = [reply EXCEPT ![serving] = how]
      /\ serving' = NoConn
  BY DEF ConnectionsInv, ConnectionsTyped, HoldsWhileProcessing, Loop!Over
<1>2. /\ kind[serving] # "none" /\ serving \notin ToSet(backlog)
      /\ reply'[serving] # "none"
      /\ \A c \in Conn : c # serving => reply'[c] = reply[c]
  BY <1>1 DEF ConnectionsInv, ConnectionsTyped, OnePlace
<1>3. ConnectionsTyped' /\ HoldsWhileProcessing'
  BY <1>1 DEF ConnectionsInv, ConnectionsTyped, HoldsWhileProcessing
<1>4. OnePlace'
  BY <1>1, <1>2, ConnectionsAssumption DEF ConnectionsInv, OnePlace
<1>5. {c \in Conn : reply'[c] # "none"} = {c \in Conn : reply[c] # "none"} \cup {serving}
  BY <1>1, <1>2
<1>6. next = "accept" => Dispatcher!Settle("main")
  BY <1>1, <1>5 DEF Dispatcher!Settle
<1>7. next = "ended" => Dispatcher!Crash("main")
  BY <1>1, <1>5 DEF Dispatcher!Crash
<1> QED BY <1>3, <1>4, <1>6, <1>7 DEF ConnectionsInv

(* Whatever its one thread or a client does is a step of the dispatcher.   *)
LEMMA LoopStep ==
    ASSUME ConnectionsInv, Loop!Next
    PROVE  ConnectionsInv' /\ Dispatcher!Next
<1>1. ASSUME NEW c \in Conn, NEW k \in RequestKinds, Loop!Connect(c, k)
      PROVE  ConnectionsInv' /\ Dispatcher!Next
  BY <1>1, ConnectArrives DEF Dispatcher!Next
<1>2. CASE Loop!Accept
  BY <1>2, AcceptAssigns DEF Dispatcher!Next
<1>3. CASE Loop!Finish
  <2>1. PICK how \in {"ok", "closed"} : Loop!Over(serving, how)
    BY <1>3 DEF Loop!Finish
  <2> QED BY <1>3, <2>1, OverSettles DEF Loop!Finish, Dispatcher!Next
<1>4. CASE Loop!Panic
  BY <1>4, OverSettles DEF Loop!Panic, Dispatcher!Next
<1>5. CASE Loop!AcceptFails
  <2>1. ConnectionsInv'
    BY <1>5 DEF Loop!AcceptFails, ConnectionsInv, ConnectionsTyped,
                HoldsWhileProcessing, OnePlace
  <2>2. Dispatcher!Retire("main")
    BY <1>5 DEF Loop!AcceptFails, Dispatcher!Retire, ConnectionsInv,
                HoldsWhileProcessing
  <2> QED BY <2>1, <2>2 DEF Dispatcher!Next
<1> QED BY <1>1, <1>2, <1>3, <1>4, <1>5 DEF Loop!Next, Loop!Server

(* Every step of the program.                                              *)
LEMMA ConnectionsStep ==
    ASSUME ConnectionsInv, [ServerNext]_<<vars, connections>>
    PROVE  ConnectionsInv' /\ [Dispatcher!Next]_(Dispatcher!vars)
<1>1. CASE UNCHANGED connections
  BY <1>1 DEF connections, ConnectionsInv, ConnectionsTyped, HoldsWhileProcessing,
              OnePlace, Dispatcher!vars
<1>2. CASE Accepting /\ Loop!Next
  BY <1>2, LoopStep
<1> QED BY <1>1, <1>2 DEF ServerNext

(* Nobody has connected when the program starts.                           *)
LEMMA ConnectionsInit == ASSUME ServerInit PROVE ConnectionsInv /\ Dispatcher!Init
<1>1. /\ pc = "accept" /\ serving = NoConn /\ backlog = <<>>
      /\ kind = [c \in Conn |-> "none"] /\ reply = [c \in Conn |-> "none"]
  BY DEF ServerInit, Loop!Init
<1>2. backlog \in Seq(Conn) /\ Len(backlog) = 0 /\ ToSet(backlog) = {}
  <2>1. backlog \in Seq(Conn) /\ Len(backlog) = 0
    BY <1>1, EmptySeq
  <2>2. \A c : c \in ToSet(backlog) <=> \E i \in 1..Len(backlog) : backlog[i] = c
    BY <2>1, LineAsSet
  <2> QED BY <2>1, <2>2
<1> QED BY <1>1, <1>2, ConnectionsAssumption
        DEF ConnectionsInv, ConnectionsTyped, HoldsWhileProcessing, OnePlace,
            Dispatcher!Init

(* The sequential server is a dispatcher with one worker: whatever clients *)
(* send and in whatever order they come, every connection is taken once,   *)
(* served alone and over once, and only a panic or a failed accept stops   *)
(* the thread (single in main.rs).                                         *)
THEOREM DispatchesOneByOne == ServerSpec => DispatchesConnections
<1>1. ServerInit => ConnectionsInv /\ Dispatcher!Init
  BY ConnectionsInit
<1>2. ConnectionsInv /\ [ServerNext]_<<vars, connections>>
        => ConnectionsInv' /\ [Dispatcher!Next]_(Dispatcher!vars)
  BY ConnectionsStep
<1> QED BY <1>1, <1>2, PTL DEF ServerSpec, DispatchesConnections, Dispatcher!Spec
-----------------------------------------------------------------------------
(* Reading the configuration.  What is known of the lines read so far, the *)
(* first at - 1: how many blocks they open and close, that each was        *)
(* allowed where it stands, and whose value every directive is.            *)

Opens(i) == {j \in 1..(i - 1) : text[j].kind = "open"}
Closes(i) == {j \in 1..(i - 1) : text[j].kind = "close"}

ConfigTyped ==
    /\ text \in Texts /\ terminated \in BOOLEAN
    /\ at \in 1..(Len(text) + 1)
    /\ directives \in Directives /\ block \in Directives \cup {None}
    /\ hosts \in Seq(Directives)
    /\ phase \in {"parse", "start", "serving", "idle", "refused", "panicked"}

(* A host for every block that is closed, and at most one block is open.   *)
BlocksCounted ==
    /\ Cardinality(Opens(at)) = Len(hosts) + (IF block = None THEN 0 ELSE 1)
    /\ Cardinality(Closes(at)) = Len(hosts)

Allowed(i) == text[i].kind \in
    IF Inside(i) THEN {"directive", "close"} ELSE {"directive", "blank", "open"}

LinesAllowed ==
    /\ \A i \in 1..(at - 1) : Allowed(i)
    /\ at > Len(text) => terminated

(* The whole file is read before anything starts.                          *)
ReadFirst ==
    /\ phase \notin {"parse", "refused"} => at > Len(text) /\ block = None
    /\ phase = "refused" => ~WellFormed \/ at > Len(text)

(* Directives by the lines read.  The block of the open tag i is still     *)
(* being read if it is the last one.                                       *)
OuterRead == {i \in 1..(at - 1) : ~Inside(i)}
BlockRead(i) == {j \in (i + 1)..(at - 1) :
                    Inside(j) /\ \A k \in (i + 1)..j : text[k].kind # "open"}
Nth(i) == Cardinality({j \in 1..i : text[j].kind = "open"})
Current(i) == block # None /\ \A k \in (i + 1)..(at - 1) : text[k].kind # "open"

DirectivesRead ==
    /\ \A f \in Fields : directives[f] = LastOf(OuterRead, f)
    /\ \A i \in Opens(at) :
          IF Current(i)
          THEN /\ Nth(i) = Len(hosts) + 1
               /\ \A f \in Fields : block[f] = LastOf(BlockRead(i), f)
          ELSE /\ Nth(i) \in 1..Len(hosts)
               /\ \A f \in Fields : hosts[Nth(i)][f] = LastOf(BlockRead(i), f)

ConfigInv == /\ ConfigTyped /\ BlocksCounted /\ LinesAllowed
             /\ ReadFirst /\ DirectivesRead

(* The text is a finite sequence of lines, and stays.                      *)
LEMMA TextTyped ==
    ASSUME ConfigTyped
    PROVE  /\ Len(text) \in Nat /\ at \in Nat
           /\ \A i \in 1..Len(text) :
                 /\ text[i].kind \in LineKinds
                 /\ text[i].kind = "directive" =>
                       text[i].field \in Fields /\ text[i].value \in Values
<1>1. text \in Seq(Lines) /\ text \in Texts
  BY TextsAssumption DEF ConfigTyped
<1>2. Len(text) \in Nat /\ at \in Nat
  BY <1>1, LenProperties DEF ConfigTyped
<1>3. \A i \in 1..Len(text) : text[i] \in Lines
  BY <1>1, ElementOfSeq
<1> QED BY <1>1, <1>2, <1>3, TextsAssumption DEF Lines

(* A tag more among the lines read.                                        *)
LEMMA TagsRead ==
    ASSUME ConfigTyped, NEW i \in 1..Len(text)
    PROVE  /\ Cardinality(Opens(i)) \in Nat /\ Cardinality(Closes(i)) \in Nat
           /\ Opens(i + 1) = Opens(i) \cup (IF text[i].kind = "open" THEN {i} ELSE {})
           /\ Closes(i + 1) = Closes(i) \cup (IF text[i].kind = "close" THEN {i} ELSE {})
           /\ Cardinality(Opens(i + 1)) =
                 Cardinality(Opens(i)) + (IF text[i].kind = "open" THEN 1 ELSE 0)
           /\ Cardinality(Closes(i + 1)) =
                 Cardinality(Closes(i)) + (IF text[i].kind = "close" THEN 1 ELSE 0)
<1>1. i \in Nat \ {0}
  BY TextTyped
<1>2. IsFiniteSet(1..(i - 1))
  BY <1>1, FS_Interval
<1>3. /\ IsFiniteSet(Opens(i)) /\ IsFiniteSet(Closes(i))
      /\ i \notin Opens(i) /\ i \notin Closes(i)
  <2>1. Opens(i) \subseteq 1..(i - 1) /\ Closes(i) \subseteq 1..(i - 1)
    BY DEF Opens, Closes
  <2>2. i \notin 1..(i - 1)
    BY <1>1
  <2> QED BY <1>2, <2>1, <2>2, FS_Subset
<1>4. \A j : j \in 1..((i + 1) - 1) <=> j \in 1..(i - 1) \/ j = i
  BY <1>1
<1>5. /\ Opens(i + 1) = Opens(i) \cup (IF text[i].kind = "open" THEN {i} ELSE {})
      /\ Closes(i + 1) = Closes(i) \cup (IF text[i].kind = "close" THEN {i} ELSE {})
  BY <1>4 DEF Opens, Closes
<1>6. /\ Cardinality(Opens(i)) \in Nat /\ Cardinality(Closes(i)) \in Nat
  BY <1>3, FS_CardinalityType
<1>7. Cardinality(Opens(i + 1)) =
                 Cardinality(Opens(i)) + (IF text[i].kind = "open" THEN 1 ELSE 0)
  <2>1. CASE text[i].kind = "open"
    BY <1>3, <1>5, <2>1, FS_AddElement
  <2>2. CASE text[i].kind # "open"
    <3>1. Opens(i + 1) = Opens(i)
      BY <1>5, <2>2
    <3> QED BY <1>6, <2>2, <3>1
  <2> QED BY <2>1, <2>2
<1>8. Cardinality(Closes(i + 1)) =
                 Cardinality(Closes(i)) + (IF text[i].kind = "close" THEN 1 ELSE 0)
  <2>1. CASE text[i].kind = "close"
    BY <1>3, <1>5, <2>1, FS_AddElement
  <2>2. CASE text[i].kind # "close"
    <3>1. Closes(i + 1) = Closes(i)
      BY <1>5, <2>2
    <3> QED BY <1>6, <2>2, <3>1
  <2> QED BY <2>1, <2>2
<1> QED BY <1>5, <1>6, <1>7, <1>8

(* The line being read is inside a block exactly if a block is open.       *)
LEMMA InsideIfOpen ==
    ASSUME ConfigTyped, BlocksCounted
    PROVE  Inside(at) <=> block # None
<1>1. Len(hosts) \in Nat
  BY LenProperties DEF ConfigTyped
<1>2. Inside(at) <=> Cardinality(Opens(at)) > Cardinality(Closes(at))
  BY DEF Inside, Opens, Closes
<1> QED BY <1>1, <1>2 DEF BlocksCounted

(* The value of a field after a line that does not set it.                 *)
LEMMA LastStays ==
    ASSUME NEW S, NEW i, NEW f, ~(text[i].kind = "directive" /\ text[i].field = f)
    PROVE  LastOf(S \cup {i}, f) = LastOf(S, f)
<1> DEFINE set(T) == {j \in T : text[j].kind = "directive" /\ text[j].field = f}
<1>1. set(S \cup {i}) = set(S)
  OBVIOUS
<1> QED BY <1>1 DEF LastOf

(* And after a line, behind the others, that does.                         *)
LEMMA LastSet ==
    ASSUME NEW i \in Nat, NEW S \in SUBSET (1..(i - 1)), NEW f,
           text[i].kind = "directive", text[i].field = f
    PROVE  LastOf(S \cup {i}, f) = text[i].value
<1> DEFINE set == {j \in S \cup {i} : text[j].kind = "directive" /\ text[j].field = f}
<1>1. i \in set /\ \A j \in set : j \in Nat /\ i >= j
  <2>1. \A j \in S \cup {i} : j \in Nat /\ i >= j
    OBVIOUS
  <2>2. i \in set
    OBVIOUS
  <2> QED BY <2>1, <2>2
<1> HIDE DEF set
<1>2. Max(set) = i
  <2>1. Max(set) \in set /\ \A j \in set : Max(set) >= j
    BY <1>1 DEF Max
  <2>2. \A m \in Nat : m >= i /\ i >= m => m = i
    OBVIOUS
  <2> QED BY <1>1, <2>1, <2>2
<1>3. LastOf(S \cup {i}, f) = IF set = {} THEN None ELSE text[Max(set)].value
  BY DEF LastOf, set
<1> QED BY <1>1, <1>2, <1>3

(* One line further: what is read includes it.                             *)
LEMMA OneMoreLine ==
    ASSUME ConfigTyped, Unread, at' = at + 1, UNCHANGED text
    PROVE  /\ \A i : i \in 1..(at' - 1) <=> i \in 1..(at - 1) \/ i = at
           /\ at \in 1..Len(text) /\ at' \in 1..(Len(text) + 1)
           /\ OuterRead' = OuterRead \cup (IF Inside(at) THEN {} ELSE {at})
           /\ \A i \in 1..(at - 1) : BlockRead(i)' = BlockRead(i) \cup
                 (IF Inside(at) /\ \A k \in (i + 1)..at : text[k].kind # "open"
                  THEN {at} ELSE {})
           /\ \A i : i = at => BlockRead(i)' = {}
<1>1. at \in Nat \ {0} /\ Len(text) \in Nat /\ at' - 1 = at /\ at <= Len(text)
  BY TextTyped DEF ConfigTyped, Unread
<1>2. \A i : i \in 1..(at' - 1) <=> i \in 1..(at - 1) \/ i = at
  BY <1>1
<1>3. \A i : Inside(i)' <=> Inside(i)
  BY DEF Inside
<1>4. OuterRead' = OuterRead \cup (IF Inside(at) THEN {} ELSE {at})
  BY <1>1, <1>2, <1>3 DEF OuterRead
<1>5. ASSUME NEW i \in 1..(at - 1)
      PROVE  BlockRead(i)' = BlockRead(i) \cup
                 (IF Inside(at) /\ \A k \in (i + 1)..at : text[k].kind # "open"
                  THEN {at} ELSE {})
  <2>1. \A j : j \in (i + 1)..at <=> j \in (i + 1)..(at - 1) \/ j = at
    BY <1>1
  <2>2. \A j : j \in BlockRead(i)' <=>
           /\ j \in (i + 1)..at /\ Inside(j)
           /\ \A k \in (i + 1)..j : text[k].kind # "open"
    BY <1>1, <1>3 DEF BlockRead
  <2>3. \A j : j \in BlockRead(i) <=>
           /\ j \in (i + 1)..(at - 1) /\ Inside(j)
           /\ \A k \in (i + 1)..j : text[k].kind # "open"
    BY DEF BlockRead
  <2> QED BY <2>1, <2>2, <2>3
<1>6. \A i : i = at => BlockRead(i)' = {}
  BY <1>1 DEF BlockRead
<1> QED BY <1>1, <1>2, <1>4, <1>5, <1>6

(* Unless the line is a tag, hosts and blocks count as before.             *)
LEMMA BlocksStay ==
    ASSUME ConfigInv, Unread, Ended, Kind \in {"blank", "directive"},
           Allowed(at), NextLine, UNCHANGED hosts,
           block' = None <=> block = None, block' \in Directives \cup {None}
    PROVE  BlocksCounted' /\ LinesAllowed'
<1>1. UNCHANGED <<text, terminated>> /\ at' = at + 1
  BY DEF NextLine
<1>2. at \in 1..Len(text) /\ ConfigTyped
  BY <1>1, OneMoreLine DEF ConfigInv
<1>3. Opens(at)' = Opens(at + 1) /\ Closes(at)' = Closes(at + 1)
  BY <1>1 DEF Opens, Closes
<1>4. BlocksCounted'
  BY <1>2, <1>3, TagsRead DEF ConfigInv, BlocksCounted, Kind
<1>5. LinesAllowed'
  <2>1. \A i : Allowed(i)' <=> Allowed(i)
    BY <1>1 DEF Allowed, Inside
  <2>2. \A i \in 1..(at' - 1) : Allowed(i)
    BY <1>1, <1>2, OneMoreLine DEF ConfigInv, LinesAllowed
  <2>3. at' > Len(text') => terminated'
    BY <1>1, <1>2, TextTyped DEF Ended
  <2> QED BY <2>1, <2>2, <2>3 DEF LinesAllowed
<1> QED BY <1>4, <1>5

(* Lines that set no directive leave every value.                          *)
LEMMA ValuesStay ==
    ASSUME ConfigTyped, Unread, NextLine, Kind # "directive", NEW f
    PROVE  /\ LastOf(OuterRead, f)' = LastOf(OuterRead, f)
           /\ \A i \in 1..(at - 1) : LastOf(BlockRead(i), f)' = LastOf(BlockRead(i), f)
<1>1. /\ UNCHANGED text /\ at' = at + 1 /\ text[at].kind # "directive"
      /\ OuterRead' = OuterRead \cup (IF Inside(at) THEN {} ELSE {at})
      /\ \A i \in 1..(at - 1) : BlockRead(i)' = BlockRead(i) \cup
                 (IF Inside(at) /\ \A k \in (i + 1)..at : text[k].kind # "open"
                  THEN {at} ELSE {})
  BY OneMoreLine DEF NextLine, Kind
<1>2. \A S : LastOf(S \cup {at}, f) = LastOf(S, f) /\ LastOf(S \cup {}, f) = LastOf(S, f)
  BY <1>1, LastStays
<1>3. LastOf(OuterRead, f)' = LastOf(OuterRead', f)
  BY <1>1 DEF LastOf
<1>4. ASSUME NEW i \in 1..(at - 1)
      PROVE  LastOf(BlockRead(i), f)' = LastOf(BlockRead(i), f)
  <2>1. LastOf(BlockRead(i), f)' = LastOf(BlockRead(i)', f)
    BY <1>1 DEF LastOf
  <2> QED BY <1>1, <1>2, <2>1
<1> QED BY <1>1, <1>2, <1>3, <1>4

(* A blank line, outside the blocks.                                       *)
LEMMA BlankKept ==
    ASSUME ConfigInv, phase = "parse", Unread, BlankLine
    PROVE  ConfigInv'
<1>1. /\ Kind = "blank" /\ Ended /\ block = None /\ NextLine
      /\ UNCHANGED <<directives, block, hosts, text, terminated, phase>>
      /\ at' = at + 1 /\ text[at].kind = "blank"
  BY DEF BlankLine, NextLine, Kind
<1>2. at \in 1..Len(text) /\ ConfigTyped /\ ConfigTyped' /\ ~Inside(at)
  BY <1>1, OneMoreLine, InsideIfOpen DEF ConfigInv, ConfigTyped
<1>3. BlocksCounted' /\ LinesAllowed'
  <2>1. Allowed(at) /\ block' \in Directives \cup {None}
    BY <1>1, <1>2 DEF Allowed, ConfigTyped
  <2> QED BY <1>1, <2>1, BlocksStay
<1>4. ReadFirst'
  BY <1>1 DEF ReadFirst
<1>5. DirectivesRead'
  <2>1. Opens(at)' = Opens(at)
    BY <1>1, <1>2, TagsRead DEF Opens
  <2>2. \A i : Nth(i)' = Nth(i)
    BY <1>1 DEF Nth
  <2>3. \A f \in Fields : directives'[f] = LastOf(OuterRead, f)'
    BY <1>1, <1>2, ValuesStay DEF ConfigInv, DirectivesRead
  <2>4. ASSUME NEW i \in Opens(at)
        PROVE  /\ ~Current(i)' /\ Nth(i)' \in 1..Len(hosts')
               /\ \A f \in Fields : hosts'[Nth(i)'][f] = LastOf(BlockRead(i), f)'
    <3>1. i \in 1..(at - 1) /\ ~Current(i) /\ ~Current(i)'
      BY <1>1 DEF Opens, Current
    <3>2. /\ Nth(i) \in 1..Len(hosts)
          /\ \A f \in Fields : hosts[Nth(i)][f] = LastOf(BlockRead(i), f)
      BY <3>1 DEF ConfigInv, DirectivesRead
    <3> QED BY <1>1, <1>2, <2>2, <3>1, <3>2, ValuesStay
  <2> QED BY <2>1, <2>3, <2>4 DEF DirectivesRead
<1> QED BY <1>2, <1>3, <1>4, <1>5 DEF ConfigInv

(* An open block makes the line inside; only the last block gains it.      *)
LEMMA OnlyCurrentGains ==
    ASSUME ConfigInv, Unread, NextLine, Kind # "open"
    PROVE  /\ Opens(at)' = Opens(at)
           /\ \A i : Nth(i)' = Nth(i)
           /\ \A i \in Opens(at) :
                 /\ block # None /\ block' # None => (Current(i)' <=> Current(i))
                 /\ Current(i) => BlockRead(i)' = BlockRead(i) \cup {at}
                 /\ ~Current(i) => BlockRead(i)' = BlockRead(i)
<1>1. /\ UNCHANGED text /\ at' = at + 1 /\ text[at].kind # "open"
      /\ at \in 1..Len(text) /\ ConfigTyped
  BY OneMoreLine DEF NextLine, Kind, ConfigInv
<1>2. Opens(at)' = Opens(at)
  BY <1>1, TagsRead DEF Opens
<1>3. \A i : Nth(i)' = Nth(i)
  BY <1>1 DEF Nth
<1>4. ASSUME NEW i \in Opens(at)
      PROVE  /\ block # None /\ block' # None => (Current(i)' <=> Current(i))
             /\ Current(i) => BlockRead(i)' = BlockRead(i) \cup {at}
             /\ ~Current(i) => BlockRead(i)' = BlockRead(i)
  <2>1. i \in 1..(at - 1) /\ at \in Nat
    BY <1>1, TextTyped DEF Opens
  <2>2. \A k : k \in (i + 1)..at <=> k \in (i + 1)..(at - 1) \/ k = at
    BY <2>1
  <2>3. (\A k \in (i + 1)..at : text[k].kind # "open") <=>
        (\A k \in (i + 1)..(at - 1) : text[k].kind # "open")
    BY <1>1, <2>2
  <2>4. BlockRead(i)' = BlockRead(i) \cup
                 (IF Inside(at) /\ \A k \in (i + 1)..at : text[k].kind # "open"
                  THEN {at} ELSE {})
    BY <1>1, <2>1, OneMoreLine
  <2>5. Inside(at) <=> block # None
    BY InsideIfOpen DEF ConfigInv
  <2>6. block # None /\ block' # None => (Current(i)' <=> Current(i))
    <3>1. at' - 1 = at
      BY <1>1, <2>1
    <3> QED BY <1>1, <2>3, <3>1 DEF Current
  <2>7. Current(i) <=> Inside(at) /\ \A k \in (i + 1)..at : text[k].kind # "open"
    BY <2>3, <2>5 DEF Current
  <2> QED BY <2>4, <2>6, <2>7
<1> QED BY <1>2, <1>3, <1>4

(* A directive: the value is the last one of the server's, or of the block *)
(* that is open.                                                           *)
LEMMA DirectiveKept ==
    ASSUME ConfigInv, phase = "parse", Unread, Directive
    PROVE  ConfigInv'
<1>1. /\ Kind = "directive" /\ Ended /\ NextLine /\ at' = at + 1
      /\ UNCHANGED <<hosts, text, terminated, phase>>
      /\ text[at].kind = "directive"
      /\ block = None => directives' = Set(directives) /\ UNCHANGED block
      /\ block # None => block' = Set(block) /\ UNCHANGED directives
  BY DEF Directive, NextLine, Kind
<1> DEFINE field == text[at].field
           value == text[at].value
<1>2. /\ at \in 1..Len(text) /\ at \in Nat /\ ConfigTyped
      /\ field \in Fields /\ value \in Values
      /\ Inside(at) <=> block # None
  BY <1>1, OneMoreLine, InsideIfOpen, TextTyped DEF ConfigInv, ConfigTyped
<1>3. /\ Set(directives) \in Directives
      /\ \A f \in Fields : Set(directives)[f] = IF f = field THEN value ELSE directives[f]
      /\ block # None =>
            /\ Set(block) \in Directives
            /\ \A f \in Fields : Set(block)[f] = IF f = field THEN value ELSE block[f]
  BY <1>2 DEF Set, Directives, ConfigTyped
<1>4. block' = None <=> block = None
  BY <1>1, <1>3, TextsAssumption
<1>5. ConfigTyped'
  BY <1>1, <1>2, <1>3, OneMoreLine DEF ConfigTyped
<1>6. BlocksCounted' /\ LinesAllowed'
  <2>1. Allowed(at) /\ block' \in Directives \cup {None}
    BY <1>1, <1>5 DEF Allowed, ConfigTyped
  <2> QED BY <1>1, <1>4, <2>1, BlocksStay
<1>7. ReadFirst'
  BY <1>1 DEF ReadFirst
<1>8. \A S, f : S \in SUBSET (1..(at - 1)) =>
         LastOf(S \cup {at}, f) = IF f = field THEN value ELSE LastOf(S, f)
  <2> SUFFICES ASSUME NEW S \in SUBSET (1..(at - 1)), NEW f
               PROVE  LastOf(S \cup {at}, f) = IF f = field THEN value ELSE LastOf(S, f)
    OBVIOUS
  <2>1. text[at].kind = "directive" /\ text[at].field = field /\ text[at].value = value
        /\ at \in Nat
    BY <1>1, <1>2
  <2>2. CASE f = field
    BY <2>1, <2>2, LastSet
  <2>3. CASE f # field
    BY <2>1, <2>3, LastStays
  <2> QED BY <2>2, <2>3
<1>9. \A f \in Fields : directives'[f] = LastOf(OuterRead, f)'
  <2>1. \A f : LastOf(OuterRead, f)' = LastOf(OuterRead', f)
    BY <1>1 DEF LastOf
  <2>2. OuterRead \in SUBSET (1..(at - 1))
    BY DEF OuterRead
  <2>3. OuterRead' = IF block = None THEN OuterRead \cup {at} ELSE OuterRead
    BY <1>1, <1>2, OneMoreLine DEF NextLine
  <2>4. \A f \in Fields : directives[f] = LastOf(OuterRead, f)
    BY DEF ConfigInv, DirectivesRead
  <2>5. CASE block = None
    <3>1. \A f \in Fields : LastOf(OuterRead \cup {at}, f) =
                               IF f = field THEN value ELSE directives[f]
      BY <1>8, <2>2, <2>4
    <3>2. \A f \in Fields : directives'[f] = IF f = field THEN value ELSE directives[f]
      BY <1>1, <1>3, <2>5
    <3> QED BY <2>1, <2>3, <2>5, <3>1, <3>2
  <2>6. CASE block # None
    BY <1>1, <2>1, <2>3, <2>4, <2>6
  <2> QED BY <2>5, <2>6
<1>10. ASSUME NEW i \in Opens(at)
       PROVE  IF Current(i)'
              THEN /\ Nth(i)' = Len(hosts') + 1
                   /\ \A f \in Fields : block'[f] = LastOf(BlockRead(i), f)'
              ELSE /\ Nth(i)' \in 1..Len(hosts')
                   /\ \A f \in Fields : hosts'[Nth(i)'][f] = LastOf(BlockRead(i), f)'
  <2>1. /\ block # None => (Current(i)' <=> Current(i))
        /\ Current(i) => BlockRead(i)' = BlockRead(i) \cup {at}
        /\ ~Current(i) => BlockRead(i)' = BlockRead(i)
        /\ Nth(i)' = Nth(i)
    BY <1>1, <1>4, OnlyCurrentGains
  <2>2. block = None => ~Current(i) /\ ~Current(i)'
    BY <1>4 DEF Current
  <2>3. Current(i) => block # None
    BY DEF Current
  <2>4. \A f : LastOf(BlockRead(i), f)' = LastOf(BlockRead(i)', f)
    BY <1>1 DEF LastOf
  <2>5. BlockRead(i) \in SUBSET (1..(at - 1))
    BY DEF BlockRead, Opens
  <2>6. IF Current(i)
        THEN /\ Nth(i) = Len(hosts) + 1
             /\ \A f \in Fields : block[f] = LastOf(BlockRead(i), f)
        ELSE /\ Nth(i) \in 1..Len(hosts)
             /\ \A f \in Fields : hosts[Nth(i)][f] = LastOf(BlockRead(i), f)
    BY DEF ConfigInv, DirectivesRead
  <2>7. CASE Current(i)
    <3>1. \A f \in Fields : LastOf(BlockRead(i)', f) =
                               IF f = field THEN value ELSE block[f]
      BY <1>8, <2>1, <2>5, <2>6, <2>7
    <3> QED BY <1>1, <1>3, <2>1, <2>3, <2>4, <2>6, <2>7, <3>1
  <2>8. CASE ~Current(i)
    BY <1>1, <2>1, <2>2, <2>4, <2>6, <2>8
  <2> QED BY <2>7, <2>8
<1>11. DirectivesRead'
  <2>1. Opens(at)' = Opens(at)
    BY <1>1, OnlyCurrentGains
  <2> QED BY <1>9, <1>10, <2>1 DEF DirectivesRead
<1> QED BY <1>5, <1>6, <1>7, <1>11 DEF ConfigInv

(* A block begins: it has set nothing yet.                                 *)
LEMMA OpenKept ==
    ASSUME ConfigInv, phase = "parse", Unread, Open
    PROVE  ConfigInv'
<1>1. /\ Kind = "open" /\ Ended /\ block = None /\ block' = Unset /\ NextLine
      /\ UNCHANGED <<directives, hosts, text, terminated, phase>>
      /\ at' = at + 1 /\ text[at].kind = "open"
  BY DEF Open, NextLine, Kind
<1>2. /\ at \in 1..Len(text) /\ at \in Nat \ {0} /\ ConfigTyped /\ ~Inside(at)
      /\ Len(hosts) \in Nat
  BY <1>1, OneMoreLine, InsideIfOpen, TextTyped, LenProperties DEF ConfigInv, ConfigTyped
<1>3. /\ Unset \in Directives /\ Unset # None
      /\ \A f \in Fields : Unset[f] = None
  BY TextsAssumption DEF Unset, Directives
<1>4. ConfigTyped'
  BY <1>1, <1>2, <1>3, OneMoreLine DEF ConfigTyped
<1>5. /\ Opens(at)' = Opens(at) \cup {at}
      /\ Cardinality(Opens(at)') = Len(hosts) + 1
      /\ Cardinality(Closes(at)') = Len(hosts)
  <2>1. Opens(at)' = Opens(at + 1) /\ Closes(at)' = Closes(at + 1)
    BY <1>1 DEF Opens, Closes
  <2> QED BY <1>1, <1>2, <2>1, TagsRead DEF ConfigInv, BlocksCounted
<1>6. BlocksCounted'
  BY <1>1, <1>3, <1>5 DEF BlocksCounted
<1>7. LinesAllowed'
  <2>1. \A i : Allowed(i)' <=> Allowed(i)
    BY <1>1 DEF Allowed, Inside
  <2>2. Allowed(at)
    BY <1>1, <1>2 DEF Allowed
  <2>3. \A i \in 1..(at' - 1) : Allowed(i)
    BY <1>1, <2>2, OneMoreLine DEF ConfigInv, LinesAllowed
  <2>4. at' > Len(text') => terminated'
    BY <1>1, <1>2, TextTyped DEF Ended
  <2> QED BY <2>1, <2>3, <2>4 DEF LinesAllowed
<1>8. ReadFirst'
  BY <1>1 DEF ReadFirst
<1>9. \A f \in Fields : directives'[f] = LastOf(OuterRead, f)'
  BY <1>1, <1>2, ValuesStay DEF ConfigInv, DirectivesRead
<1>10. \A i : Nth(i)' = Nth(i)
  BY <1>1 DEF Nth
<1>11. ASSUME NEW i \in Opens(at)
       PROVE  /\ ~Current(i)' /\ Nth(i)' \in 1..Len(hosts')
              /\ \A f \in Fields : hosts'[Nth(i)'][f] = LastOf(BlockRead(i), f)'
  <2>1. i \in 1..(at - 1) /\ at \in (i + 1)..(at' - 1)
    BY <1>1, <1>2 DEF Opens
  <2>2. ~Current(i) /\ ~Current(i)'
    BY <1>1, <2>1 DEF Current
  <2>3. /\ Nth(i) \in 1..Len(hosts)
        /\ \A f \in Fields : hosts[Nth(i)][f] = LastOf(BlockRead(i), f)
    BY <2>2 DEF ConfigInv, DirectivesRead
  <2> QED BY <1>1, <1>2, <1>10, <2>1, <2>2, <2>3, ValuesStay
<1>12. ASSUME NEW i, i = at
       PROVE  /\ Current(i)' /\ Nth(i)' = Len(hosts') + 1
              /\ \A f \in Fields : block'[f] = LastOf(BlockRead(i), f)'
  <2>1. Current(i)'
    <3>1. \A k : k \notin (i + 1)..(at' - 1)
      BY <1>1, <1>2, <1>12
    <3> QED BY <1>1, <1>3, <3>1 DEF Current
  <2>2. Nth(i) = Cardinality(Opens(at)')
    <3>1. 1..(at' - 1) = 1..i
      BY <1>1, <1>2, <1>12
    <3> QED BY <1>1, <3>1 DEF Nth, Opens
  <2>3. \A f : LastOf({}, f) = None
    BY DEF LastOf
  <2>4. \A f : LastOf(BlockRead(i), f)' = LastOf(BlockRead(i)', f)
    BY <1>1 DEF LastOf
  <2>5. BlockRead(i)' = {}
    BY <1>1, <1>2, <1>12, OneMoreLine DEF NextLine
  <2> QED BY <1>1, <1>3, <1>5, <1>10, <2>1, <2>2, <2>3, <2>4, <2>5
<1>13. DirectivesRead'
  <2>1. \A i \in Opens(at)' : i \in Opens(at) \/ i = at
    BY <1>5
  <2> QED BY <1>9, <1>11, <1>12, <2>1 DEF DirectivesRead
<1> QED BY <1>4, <1>6, <1>7, <1>8, <1>13 DEF ConfigInv

(* A block ends: its directives are those of one more host.                *)
LEMMA CloseKept ==
    ASSUME ConfigInv, phase = "parse", Unread, Close
    PROVE  ConfigInv'
<1>1. /\ Kind = "close" /\ Ended /\ block # None /\ block' = None /\ NextLine
      /\ hosts' = Append(hosts, block)
      /\ UNCHANGED <<directives, text, terminated, phase>>
      /\ at' = at + 1 /\ text[at].kind = "close"
  BY DEF Close, NextLine, Kind
<1>2. /\ at \in 1..Len(text) /\ at \in Nat \ {0} /\ ConfigTyped /\ Inside(at)
      /\ hosts \in Seq(Directives) /\ block \in Directives
  BY <1>1, OneMoreLine, InsideIfOpen, TextTyped DEF ConfigInv, ConfigTyped
<1>3. /\ hosts' \in Seq(Directives)
      /\ Len(hosts) \in Nat /\ Len(hosts') = Len(hosts) + 1
      /\ \A i \in 1..Len(hosts) : hosts'[i] = hosts[i]
      /\ hosts'[Len(hosts) + 1] = block
  BY <1>1, <1>2, AppendProperties, LenProperties
<1>4. ConfigTyped'
  BY <1>1, <1>2, <1>3, OneMoreLine DEF ConfigTyped
<1>5. Opens(at)' = Opens(at) /\ \A i : Nth(i)' = Nth(i)
  BY <1>1, OnlyCurrentGains
<1>6. BlocksCounted'
  <2>1. Opens(at)' = Opens(at + 1) /\ Closes(at)' = Closes(at + 1)
    BY <1>1 DEF Opens, Closes
  <2> QED BY <1>1, <1>2, <1>3, <2>1, TagsRead DEF ConfigInv, BlocksCounted
<1>7. LinesAllowed'
  <2>1. \A i : Allowed(i)' <=> Allowed(i)
    BY <1>1 DEF Allowed, Inside
  <2>2. Allowed(at)
    BY <1>1, <1>2 DEF Allowed
  <2>3. \A i \in 1..(at' - 1) : Allowed(i)
    BY <1>1, <2>2, OneMoreLine DEF ConfigInv, LinesAllowed
  <2>4. at' > Len(text') => terminated'
    BY <1>1, <1>2, TextTyped DEF Ended
  <2> QED BY <2>1, <2>3, <2>4 DEF LinesAllowed
<1>8. ReadFirst'
  BY <1>1 DEF ReadFirst
<1>9. \A f \in Fields : directives'[f] = LastOf(OuterRead, f)'
  BY <1>1, <1>2, ValuesStay DEF ConfigInv, DirectivesRead
<1>10. ASSUME NEW i \in Opens(at)
       PROVE  /\ ~Current(i)' /\ Nth(i)' \in 1..Len(hosts')
              /\ \A f \in Fields : hosts'[Nth(i)'][f] = LastOf(BlockRead(i), f)'
  <2>1. i \in 1..(at - 1) /\ ~Current(i)'
    BY <1>1 DEF Opens, Current
  <2>2. \A f : LastOf(BlockRead(i), f)' = LastOf(BlockRead(i), f)
    BY <1>1, <1>2, <2>1, ValuesStay
  <2>3. IF Current(i)
        THEN /\ Nth(i) = Len(hosts) + 1
             /\ \A f \in Fields : block[f] = LastOf(BlockRead(i), f)
        ELSE /\ Nth(i) \in 1..Len(hosts)
             /\ \A f \in Fields : hosts[Nth(i)][f] = LastOf(BlockRead(i), f)
    BY DEF ConfigInv, DirectivesRead
  <2> QED BY <1>3, <1>5, <2>1, <2>2, <2>3
<1>11. DirectivesRead'
  BY <1>5, <1>9, <1>10 DEF DirectivesRead
<1> QED BY <1>4, <1>6, <1>7, <1>8, <1>11 DEF ConfigInv

(* A line that cannot be read refuses the file, which is malformed.        *)
LEMMA RefusedIsMalformed ==
    ASSUME ConfigInv, Unread, Unparsable
    PROVE  ~WellFormed
<1>1. /\ at \in 1..Len(text) /\ at \in Nat /\ Len(text) \in Nat
      /\ Inside(at) <=> block # None
  BY TextTyped, InsideIfOpen DEF ConfigInv, ConfigTyped, Unread
<1>2. CASE ~Ended
  BY <1>1, <1>2 DEF Ended, ConfigInv, ConfigTyped, WellFormed
<1>3. CASE ~Allowed(at)
  BY <1>1, <1>3 DEF Allowed, WellFormed
<1> QED BY <1>1, <1>2, <1>3 DEF Unparsable, Kind, Allowed

(* What has been read stays true while nothing more is read.               *)
LEMMA NothingRead ==
    ASSUME ConfigInv, NEW p, Enter(p)
    PROVE  BlocksCounted' /\ LinesAllowed' /\ DirectivesRead'
<1>1. UNCHANGED <<text, terminated, at, directives, block, hosts>>
  BY DEF Enter
<1>2. BlocksCounted' /\ LinesAllowed'
  BY <1>1 DEF ConfigInv, BlocksCounted, LinesAllowed, Opens, Closes, Allowed, Inside
<1>3. DirectivesRead'
  <2>1. OuterRead' = OuterRead /\ Opens(at)' = Opens(at)
    BY <1>1 DEF OuterRead, Opens, Inside
  <2>2. \A i : /\ Current(i)' <=> Current(i)
              /\ Nth(i)' = Nth(i) /\ BlockRead(i)' = BlockRead(i)
    BY <1>1 DEF Current, Nth, BlockRead, Inside
  <2>3. \A f : LastOf(OuterRead, f)' = LastOf(OuterRead', f)
    BY <1>1 DEF LastOf
  <2>4. \A i, f : LastOf(BlockRead(i), f)' = LastOf(BlockRead(i)', f)
    BY <1>1 DEF LastOf
  <2> QED BY <1>1, <2>1, <2>2, <2>3, <2>4 DEF ConfigInv, DirectivesRead
<1> QED BY <1>2, <1>3

(* The end of the file: it is well formed if no block is open.             *)
LEMMA EndOfFile ==
    ASSUME ConfigInv, ~Unread
    PROVE  /\ at = Len(text) + 1
           /\ WellFormed <=> block = None
<1>1. /\ at = Len(text) + 1 /\ at - 1 = Len(text)
      /\ Inside(at) <=> block # None
  BY TextTyped, InsideIfOpen DEF ConfigInv, ConfigTyped, Unread
<1>2. terminated /\ \A i \in 1..Len(text) : Allowed(i)
  BY <1>1, TextTyped DEF ConfigInv, LinesAllowed
<1> QED BY <1>1, <1>2 DEF WellFormed, Allowed

(* Reading keeps the invariant.                                            *)
LEMMA ParseKept == ASSUME ConfigInv, Parse PROVE ConfigInv'
<1>1. CASE Unread /\ Known
  BY <1>1, BlankKept, DirectiveKept, OpenKept, CloseKept DEF Parse, Known
<1>2. CASE Unread /\ Unparsable /\ Enter("refused")
  <2>1. ConfigTyped'
    BY <1>2 DEF ConfigInv, ConfigTyped, Enter
  <2>2. ReadFirst'
    <3>1. ~WellFormed
      BY <1>2, RefusedIsMalformed
    <3> QED BY <1>2, <3>1 DEF ReadFirst, Enter, WellFormed, Inside
  <2> QED BY <1>2, <2>1, <2>2, NothingRead DEF ConfigInv
<1>3. CASE ~Unread /\ Enter(IF BlockOpen THEN "refused" ELSE "start")
  <2>1. ConfigTyped'
    BY <1>3 DEF ConfigInv, ConfigTyped, Enter
  <2>2. ReadFirst'
    <3>1. at > Len(text)
      BY <1>3, EndOfFile, TextTyped DEF ConfigInv
    <3> QED BY <1>3, <3>1 DEF ReadFirst, Enter, BlockOpen
  <2> QED BY <1>3, <2>1, <2>2, NothingRead DEF ConfigInv
<1> QED BY <1>1, <1>2, <1>3 DEF Parse

(* Starting keeps it.                                                      *)
LEMMA StartKept == ASSUME ConfigInv, Start PROVE ConfigInv'
<1>1. PICK p \in {"serving", "idle", "refused", "panicked"} : Enter(p)
  BY DEF Start, StartSingle, StartPool, StartSelect
<1>2. ConfigTyped'
  BY <1>1 DEF ConfigInv, ConfigTyped, Enter
<1>3. ReadFirst'
  BY <1>1 DEF Start, ConfigInv, ReadFirst, Enter
<1> QED BY <1>1, <1>2, <1>3, NothingRead DEF ConfigInv

(* Nothing has been read at the beginning.                                 *)
LEMMA ConfigStarts == ASSUME Init PROVE ConfigInv
<1>1. /\ text \in Texts /\ terminated \in BOOLEAN /\ at = 1 /\ phase = "parse"
      /\ directives = Unset /\ block = None /\ hosts = <<>>
      /\ ~terminated => text # <<>>
  BY DEF Init
<1>2. /\ Unset \in Directives /\ \A f \in Fields : Unset[f] = None
      /\ hosts \in Seq(Directives) /\ Len(hosts) = 0
  BY <1>1, EmptySeq DEF Unset, Directives
<1>3. text \in Seq(Lines) /\ Len(text) \in Nat /\ (text # <<>> => Len(text) # 0)
  BY <1>1, TextsAssumption, LenProperties, EmptySeq
<1>4. ConfigTyped
  BY <1>1, <1>2, <1>3 DEF ConfigTyped
<1>5. Opens(at) = {} /\ Closes(at) = {} /\ OuterRead = {}
  BY <1>1 DEF Opens, Closes, OuterRead
<1>6. BlocksCounted
  <2>1. Cardinality(Opens(at)) = 0 /\ Cardinality(Closes(at)) = 0
    BY <1>5, FS_EmptySet
  <2> QED BY <1>1, <1>2, <2>1 DEF BlocksCounted
<1>7. LinesAllowed
  BY <1>1, <1>3 DEF LinesAllowed
<1>8. DirectivesRead
  <2>1. \A f : LastOf({}, f) = None
    BY DEF LastOf
  <2> QED BY <1>1, <1>2, <1>5, <2>1 DEF DirectivesRead
<1> QED BY <1>1, <1>4, <1>6, <1>7, <1>8 DEF ConfigInv, ReadFirst

(* The program's other steps do not touch the configuration.               *)
LEMMA ConfigAlways == ServerSpec => []ConfigInv
<1>1. ServerInit => ConfigInv
  BY ConfigStarts DEF ServerInit
<1>2. ConfigInv /\ [ServerNext]_<<vars, connections>> => ConfigInv'
  <2>1. ASSUME ConfigInv, UNCHANGED vars PROVE ConfigInv'
    <3>1. Enter(phase)
      BY <2>1 DEF vars, Enter
    <3>2. ConfigTyped' /\ ReadFirst'
      BY <2>1 DEF vars, ConfigInv, ConfigTyped, ReadFirst,
                  WellFormed, Inside
    <3> QED BY <2>1, <3>1, <3>2, NothingRead DEF ConfigInv
  <2> QED BY <2>1, ParseKept, StartKept DEF ServerNext, Next, Accepting
<1> QED BY <1>1, <1>2, PTL DEF ServerSpec

(* However its lines are mixed, a configuration file is read as a whole    *)
(* exactly if its blocks are closed, not nested and hold nothing but       *)
(* directives, and every line ends in a newline (parse_server_config).     *)
THEOREM ReadOrRefused == ServerSpec => []ReadIffWellFormed
<1>1. ConfigInv => ReadIffWellFormed
  <2> SUFFICES ASSUME ConfigInv, phase \notin {"parse", "refused"} PROVE WellFormed
    BY DEF ConfigInv, ReadFirst, ReadIffWellFormed
  <2>1. ~Unread /\ block = None
    BY TextTyped DEF ConfigInv, ReadFirst, Unread
  <2> QED BY <2>1, EndOfFile
<1> QED BY <1>1, ConfigAlways, PTL

(* Every virtual host gets the directives of its own block and the server  *)
(* those outside, the last of a name each, for files of any length.        *)
THEOREM DirectivesOfTheirBlocks == ServerSpec => []DirectivesOfOwnBlock
<1>1. ConfigInv => DirectivesOfOwnBlock
  <2> SUFFICES ASSUME ConfigInv, phase \in {"start", "serving", "idle"}
               PROVE  DirectivesOfOwnBlock
    BY DEF DirectivesOfOwnBlock
  <2>1. ~Unread /\ block = None
    BY TextTyped DEF ConfigInv, ReadFirst, Unread
  <2>2. at - 1 = Len(text)
    BY <2>1, EndOfFile, TextTyped DEF ConfigInv
  <2>3. /\ OuterRead = OuterLines
        /\ \A i : BlockRead(i) = BlockLines(i)
        /\ Opens(at) = {i \in 1..Len(text) : text[i].kind = "open"}
    BY <2>2 DEF OuterRead, OuterLines, BlockRead, BlockLines, Opens
  <2>4. Len(hosts) = Cardinality(Opens(at))
    BY <2>1, LenProperties DEF ConfigInv, ConfigTyped, BlocksCounted
  <2>5. \A i \in Opens(at) : \A f \in Fields :
           hosts[Nth(i)][f] = LastOf(BlockLines(i), f)
    BY <2>1, <2>3 DEF ConfigInv, DirectivesRead, Current
  <2>6. \A f \in Fields : directives[f] = LastOf(OuterLines, f)
    BY <2>3 DEF ConfigInv, DirectivesRead
  <2> QED BY <2>3, <2>4, <2>5, <2>6 DEF DirectivesOfOwnBlock, Nth
<1> QED BY <1>1, ConfigAlways, PTL
=============================================================================
