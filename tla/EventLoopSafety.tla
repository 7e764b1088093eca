-------------------------- MODULE EventLoopSafety --------------------------
(***************************************************************************)
(* The safety of EventLoop, for any values of its constants: the layers of *)
(* the inductive invariant above the types and tokens of EventLoopProofs.  *)
(***************************************************************************)
EXTENDS EventLoopProofs

(* What is submitted, and what is to be resubmitted.                       *)
Resubmitting(t) == \E i \in 1..Len(resubmits) : resubmits[i] = t

(* A source is registered once, and its timeout check comes behind it.     *)
NewOnce ==
    \A i, j \in 1..Len(queue) : queue[i].op = "new" =>
          /\ sources[queue[i].token] = "none"
          /\ queue[j] = queue[i] => i = j

NewChecked ==
    \A t \in StreamToken : Pending(New(t)) =>
          /\ Pending(CheckTimeout(t))
          /\ ~Pending(ModifyInterests(t))
          /\ ~Pending(CloseSource(t))

CheckBehindNew ==
    \A i, j \in 1..Len(queue) :
          queue[i].op = "check" /\ queue[j] = New(queue[i].token) => j < i

(* No token has two checks.                                                *)
CheckOnly ==
    /\ \A i, j \in 1..Len(queue) :
          queue[i].op = "check" /\ queue[j] = queue[i] => i = j
    /\ \A i, j \in 1..Len(resubmits) : resubmits[i] = resubmits[j] => i = j
    /\ \A t \in StreamToken : ~(Pending(CheckTimeout(t)) /\ Resubmitting(t))

ReaderChecked ==
    \A t \in StreamToken : sources[t] = "read" =>
          Pending(CheckTimeout(t)) \/ Resubmitting(t)

(* Nothing is modified or closed but by the commands of one iteration.     *)
CommandsOfIteration ==
    /\ loopPc \in {"poll", "resubmit"} =>
          \A i \in 1..Len(queue) : queue[i].op \in {"new", "check"}
    /\ loopPc \in {"poll", "commands", "resubmit"} => batch = {}

(* The two commands of the main thread are sent once.                      *)
StartupOnce ==
    /\ startup = "listener" => sources[ListenerToken] = "none" /\ ~Pending(New(ListenerToken))
    /\ startup # "join" => /\ sources[StdinToken] = "none"
                           /\ interest[StdinToken] = "none"
                           /\ ~Pending(New(StdinToken))

Commanded == /\ NewOnce
             /\ NewChecked
             /\ CheckBehindNew
             /\ CheckOnly
             /\ ReaderChecked
             /\ CommandsOfIteration
             /\ StartupOnce
-----------------------------------------------------------------------------
(* What is written is not asked to be read, and the other way round.       *)
ModifiesWriters ==
    \A t \in StreamToken : Pending(ModifyInterests(t)) => sources[t] # "read"

Watched == /\ InterestMatchesState
           /\ ModifiesWriters
           /\ \A t \in ready : interest[t] # "none"
           /\ \A t \in batch : /\ t # StdinToken => sources[t] # "none"
                               /\ t = StdinToken => interest[t] # "none"
-----------------------------------------------------------------------------
(* What standard input is ready for is there to be read, what was typed     *)
(* last is read last, and the thread waits for the end of a line's part.    *)
LineAwaited ==
    /\ StdinToken \in batch => typed # <<>> /\ loopPc # "reading"
    /\ typed # <<>> => lines # <<>> /\ typed[Len(typed)] = lines[Len(lines)]
    /\ loopPc = "reading" /\ typed = <<>> => lines # <<>> /\ lines[Len(lines)] = "part"
-----------------------------------------------------------------------------
(* A request that is being read is not complete, nothing is written of a   *)
(* response before it is there, and what is closed is written.             *)
Untouched(c) == stream[c].got = 0 /\ stream[c].left = 0 /\ stream[c].written = 0

Progress(t) ==
    /\ Pending(New(t)) => Untouched(connOf[t]) /\ stream[connOf[t]].ended = "none"
    /\ sources[t] # "none" => stream[connOf[t]].ended = "none"
    /\ sources[t] = "read" => /\ stream[connOf[t]].got < RequestPieces
                              /\ stream[connOf[t]].written = 0
    /\ sources[t] = "close" => stream[connOf[t]].left = 0
    /\ sources[t] \in {"write", "close"} =>
          stream[connOf[t]].written + stream[connOf[t]].left = ResponsePieces

Unserved(c) ==
    /\ c \notin Connected => stream[c].ended = "none"
    /\ \A i \in 1..Len(backlog) : backlog[i] = c => stream[c].ended = "none"
    /\ (\A t \in StreamToken : connOf[t] # c) =>
          Untouched(c) /\ stream[c].ended # "answered"

Written(c) == stream[c].ended = "answered" => stream[c].written = ResponsePieces

RequestsPartial ==
    /\ \A t \in StreamToken : Progress(t)
    /\ \A c \in Conn : Unserved(c) /\ Written(c)
-----------------------------------------------------------------------------
(* What is pending before and after a step.                                *)

(* A command that is sent is pending.                                      *)
LEMMA PendingAppend ==
    ASSUME Base, NEW q \in Command, queue' = Append(queue, q), NEW r
    PROVE  Pending(r)' <=> Pending(r) \/ r = q
<1>1. /\ Len(queue) \in Nat /\ Len(queue') = Len(queue) + 1
      /\ \A j \in 1..Len(queue) : queue'[j] = queue[j]
      /\ queue'[Len(queue) + 1] = q
  BY AppendProperties DEF Base, TypeOK
<1> QED
  BY <1>1 DEF Pending

(* A command that is received was pending.                                 *)
LEMMA PendingTail ==
    ASSUME Base, TakesCommand, NEW r
    PROVE  Pending(r) <=> Pending(r)' \/ r = Head(queue)
<1>1. /\ queue \in Seq(Command) /\ queue # <<>> /\ queue' = Tail(queue)
  BY DEF Base, TypeOK, TakesCommand, Executed
<1>2. /\ Len(queue) \in Nat \ {0} /\ Len(queue') = Len(queue) - 1
      /\ \A j \in 1..Len(queue') : queue'[j] = queue[j + 1]
      /\ Head(queue) = queue[1]
  BY <1>1, HeadTailProperties, EmptySeq
<1>3. Pending(r)' => Pending(r)
  <2> SUFFICES ASSUME NEW j \in 1..Len(queue'), queue'[j] = r
               PROVE  Pending(r)
    BY DEF Pending
  <2>1. j + 1 \in 1..Len(queue) /\ queue[j + 1] = r
    BY <1>2
  <2> QED
    BY <2>1 DEF Pending
<1>4. Pending(Head(queue))
  BY <1>2 DEF Pending
<1>5. ASSUME NEW j \in 1..Len(queue), queue[j] = r, j # 1
      PROVE  Pending(r)'
  <2>1. j - 1 \in 1..Len(queue') /\ (j - 1) + 1 = j
    BY <1>2, <1>5
  <2>2. queue'[j - 1] = r
    BY <1>2, <1>5, <2>1
  <2> QED
    BY <2>1, <2>2 DEF Pending
<1> QED
  BY <1>2, <1>3, <1>4, <1>5 DEF Pending

(* What was submitted before is about tokens up to the counter.            *)
LEMMA AcceptPositions ==
    ASSUME Base, AcceptAll, NEW i \in 1..Len(queue')
    PROVE  \/ /\ i \in 1..Len(queue) /\ queue'[i] = queue[i]
              /\ queue[i].token \in StreamToken => queue[i].token <= tokenCounter
           \/ \E k \in 1..Len(backlog) :
                 i = Len(queue) + 2 * k - 1 /\ queue'[i] = New(tokenCounter + k)
           \/ \E k \in 1..Len(backlog) :
                 i = Len(queue) + 2 * k /\ queue'[i] = CheckTimeout(tokenCounter + k)
<1>1. CASE i \in 1..Len(queue)
  <2>1. queue[i].token \in StreamToken => queue[i].token <= tokenCounter
    BY <1>1 DEF Base, CommandsKnown, CommandKnown, TokensNumbered
  <2> QED
    BY <1>1, <2>1, AcceptCommands
<1> QED
  BY <1>1, AcceptCommands

(* Accepting submits two commands for each connection.                     *)
LEMMA PendingAccept ==
    ASSUME Base, AcceptAll, NEW r
    PROVE  Pending(r)' <=> \/ Pending(r)
                           \/ \E k \in 1..Len(backlog) :
                                 r \in {New(tokenCounter + k), CheckTimeout(tokenCounter + k)}
<1>1. Pending(r)' => \/ Pending(r)
                     \/ \E k \in 1..Len(backlog) :
                           r \in {New(tokenCounter + k), CheckTimeout(tokenCounter + k)}
  BY AcceptPositions DEF Pending
<1>2. Len(queue) \in Nat /\ Len(backlog) \in Nat /\ Len(queue') = Len(queue) + 2 * Len(backlog)
  BY AcceptCommands, TokensSuffice DEF Base, TypeOK
<1>3. Pending(r) => Pending(r)'
  BY <1>2, AcceptCommands DEF Pending
<1>4. ASSUME NEW k \in 1..Len(backlog), r \in {New(tokenCounter + k), CheckTimeout(tokenCounter + k)}
      PROVE  Pending(r)'
  <2>1. Len(queue) + 2 * k - 1 \in 1..Len(queue') /\ Len(queue) + 2 * k \in 1..Len(queue')
    BY <1>2
  <2> QED
    BY <1>4, <2>1, AcceptCommands DEF Pending
<1> QED
  BY <1>1, <1>3, <1>4

(* A token that is given out is in no command yet, and has no source.      *)
LEMMA FreshToken ==
    ASSUME Base, NEW k \in 1..Len(backlog), NEW t, t = tokenCounter + k
    PROVE  /\ t \in StreamToken /\ sources[t] = "none" /\ ~Resubmitting(t)
           /\ ~Pending(New(t)) /\ ~Pending(ModifyInterests(t))
           /\ ~Pending(CloseSource(t)) /\ ~Pending(CheckTimeout(t))
<1>1. t \in StreamToken /\ connOf[t] = NoConn
  BY TokensSuffice
<1>2. \A i \in 1..Len(queue) : queue[i].token # t
  BY <1>1 DEF Base, CommandsKnown, CommandKnown
<1>3. sources[t] = "none" /\ ~Resubmitting(t)
  BY <1>1 DEF Base, SourcesKnown, CommandsKnown, Resubmitting
<1>4. \A q \in {New(t), ModifyInterests(t), CloseSource(t), CheckTimeout(t)} : q.token = t
  BY <1>1, TokenFacts, CommandFacts
<1> QED
  BY <1>1, <1>2, <1>3, <1>4 DEF Pending

(* A source comes into the map by its command only.                        *)
LEMMA SourcesGrow ==
    ASSUME Base, Next, NEW t \in Token
    PROVE  /\ sources'[t] # "none" => sources[t] # "none" \/ RegisterSource(t)
           /\ sources'[t] = "read" => sources[t] = "read" \/ RegisterSource(t)
<1>1. sources \in [Token -> {"none", "listener", "stdin", "read", "write", "close"}]
  BY DEF Base, TypeOK
<1>2. ASSUME NEW u \in Token, sources' = [sources EXCEPT ![u] = "none"]
      PROVE  sources'[t] # "none" => sources'[t] = sources[t]
  BY <1>1, <1>2
<1>3. CASE AcceptFails \/ HandleLineFails \/ CloseListener
  BY <1>2, <1>3, TokenFacts DEF AcceptFails, HandleLineFails, CloseListener
<1>4. ASSUME NEW u \in StreamToken, ReadFullRequest(u) \/ WriteDone(u)
      PROVE  /\ sources'[t] # "none" => sources[t] # "none"
             /\ sources'[t] = "read" => sources[t] = "read"
  BY <1>1, <1>4, TokenFacts DEF ReadFullRequest, WriteDone, Handling
<1>5. ASSUME NEW u \in StreamToken, ReadFails(u) \/ WriteFails(u) \/ CloseStream(u)
      PROVE  sources' = [sources EXCEPT ![u] = "none"]
  BY <1>5 DEF ReadFails, WriteFails, CloseStream, Drop
<1>6. ASSUME NEW u \in Token, CheckCloses(u)
      PROVE  sources' = [sources EXCEPT ![u] = "none"]
  BY <1>6 DEF CheckCloses, Drop
<1>7. ASSUME NEW u \in Token, RegisterSource(u), u # t
      PROVE  sources'[t] = sources[t]
  BY <1>1, <1>7 DEF RegisterSource
<1> QED
  BY <1>2, <1>3, <1>4, <1>5, <1>6, <1>7, SourcesChange, TokenFacts
-----------------------------------------------------------------------------
(* What is submitted is registered, checked and modified in order.         *)

(* The commands that are submitted, and by whom.                           *)
Submits(q) ==
    /\ queue' = Append(queue, q)
    /\ \/ SubmitListener /\ q = New(ListenerToken)
       \/ SubmitStdin /\ q = New(StdinToken)
       \/ HandleLine /\ q = CloseSource(ListenerToken)
       \/ \E t \in StreamToken : ReadFullRequest(t) /\ q = ModifyInterests(t)
       \/ \E t \in StreamToken : ReadRejected(t) /\ q = CloseSource(t)
       \/ \E t \in StreamToken : WriteDone(t) /\ q = CloseSource(t)
       \/ Resubmit /\ resubmits # <<>> /\ q = CheckTimeout(Head(resubmits))

(* A step accepts, executes a command, submits one, or leaves the channel. *)
LEMMA QueueCases ==
    ASSUME Base, Next
    PROVE  \/ AcceptAll
           \/ TakesCommand /\ \E t \in Token : ExecuteCommand(t)
           \/ ~TakesCommand /\ \E q \in Command : Submits(q)
           \/ ~TakesCommand /\ queue' = queue
<1>1. queue \in Seq(Command)
  BY DEF Base, TypeOK
<1>2. ASSUME TakesCommand
      PROVE  Len(queue') = Len(queue) - 1 /\ Len(queue) \in Nat
  BY <1>1, <1>2, HeadTailProperties, EmptySeq DEF TakesCommand, Executed
<1>3. ASSUME NEW q \in Command, queue' = Append(queue, q)
      PROVE  ~TakesCommand
  BY <1>1, <1>2, <1>3, AppendProperties
<1>4. queue' = queue => ~TakesCommand
  BY <1>2
<1>5. CASE TakesCommand
  <2>1. ~\E q \in Command : queue' = Append(queue, q)
    BY <1>3, <1>5
  <2>2. queue' # queue
    BY <1>4, <1>5
  <2>3. loopPc = "commands"
    BY <1>5 DEF TakesCommand
  <2>4. \/ AcceptAll \/ \E t \in Token : ExecuteCommand(t) /\ TakesCommand
    <3>1. ~SubmitListener /\ ~SubmitStdin
      BY <2>1, TokenFacts, CommandFacts DEF SubmitListener, SubmitStdin
    <3>2. /\ ~HandleLine /\ ~Resubmit
          /\ \A t \in StreamToken : ~ReadFullRequest(t) /\ ~ReadRejected(t) /\ ~WriteDone(t)
      BY <2>3 DEF HandleLine, LineHandled, Resubmit, ReadFullRequest, ReadRejected, WriteDone, Handling
    <3> QED
      BY <2>2, <3>1, <3>2, QueueChanges
  <2> QED
    BY <1>5, <2>4
<1>6. CASE ~TakesCommand
  BY <1>6, QueueSteps DEF Submits
<1> QED
  BY <1>5, <1>6

(* Positions of a command after a step come from positions before it.      *)
LEMMA SamePosition ==
    ASSUME Base, Next, NEW i \in 1..Len(queue'), NEW j \in 1..Len(queue'),
           queue'[i] = queue'[j], i # j
    PROVE  \/ \E m, n \in 1..Len(queue) : m # n /\ queue[m] = queue[n] /\ queue[m] = queue'[i]
           \/ \E q \in Command : Submits(q) /\ queue'[i] = q /\ Pending(q)
<1>0. queue \in Seq(Command) /\ Len(queue) \in Nat
  BY DEF Base, TypeOK
<1>1. CASE AcceptAll
  <2> DEFINE L == Len(queue)
             n == Len(backlog)
  <2>1. tokenCounter \in Nat /\ n \in Nat
    BY TokensSuffice
  <2>2. ASSUME NEW a \in 1..n, NEW b \in 1..n
        PROVE  /\ New(tokenCounter + a) = New(tokenCounter + b) => a = b
               /\ CheckTimeout(tokenCounter + a) = CheckTimeout(tokenCounter + b) => a = b
               /\ New(tokenCounter + a) # CheckTimeout(tokenCounter + b)
    <3>1. tokenCounter + a = tokenCounter + b => a = b
      BY <2>1
    <3> QED
      BY <3>1 DEF New, CheckTimeout
  <2>3. ASSUME NEW m \in 1..L, NEW a \in 1..n
        PROVE  queue[m] # New(tokenCounter + a) /\ queue[m] # CheckTimeout(tokenCounter + a)
    BY FreshToken DEF Pending
  <2>4. \/ i \in 1..L /\ queue'[i] = queue[i]
        \/ \E a \in 1..n : \/ i = L + 2 * a - 1 /\ queue'[i] = New(tokenCounter + a)
                           \/ i = L + 2 * a /\ queue'[i] = CheckTimeout(tokenCounter + a)
    BY <1>1, AcceptPositions
  <2>5. \/ j \in 1..L /\ queue'[j] = queue[j]
        \/ \E a \in 1..n : \/ j = L + 2 * a - 1 /\ queue'[j] = New(tokenCounter + a)
                           \/ j = L + 2 * a /\ queue'[j] = CheckTimeout(tokenCounter + a)
    BY <1>1, AcceptPositions
  <2> HIDE DEF L, n
  <2>6. CASE queue'[i] = queue[i] /\ queue'[j] = queue[j] /\ i \in 1..L /\ j \in 1..L
    BY <2>6 DEF L
  <2>7. CASE i \in 1..L /\ queue'[i] = queue[i] /\ ~(j \in 1..L /\ queue'[j] = queue[j])
    BY <2>3, <2>5, <2>7
  <2>8. CASE j \in 1..L /\ queue'[j] = queue[j] /\ ~(i \in 1..L /\ queue'[i] = queue[i])
    BY <2>3, <2>4, <2>8
  <2>9. CASE /\ ~(i \in 1..L /\ queue'[i] = queue[i])
             /\ ~(j \in 1..L /\ queue'[j] = queue[j])
    <3>1. PICK a \in 1..n : \/ i = L + 2 * a - 1 /\ queue'[i] = New(tokenCounter + a)
                            \/ i = L + 2 * a /\ queue'[i] = CheckTimeout(tokenCounter + a)
      BY <2>4, <2>9
    <3>2. PICK b \in 1..n : \/ j = L + 2 * b - 1 /\ queue'[j] = New(tokenCounter + b)
                            \/ j = L + 2 * b /\ queue'[j] = CheckTimeout(tokenCounter + b)
      BY <2>5, <2>9
    <3>3. New(tokenCounter + b) # CheckTimeout(tokenCounter + a)
      BY <2>2
    <3>4. a = b
      BY <2>2, <3>1, <3>2, <3>3
    <3> QED
      BY <2>2, <3>1, <3>2, <3>3, <3>4
  <2> QED
    BY <2>6, <2>7, <2>8, <2>9
<1>2. CASE TakesCommand
  <2>1. /\ Len(queue) \in Nat /\ Len(queue') = Len(queue) - 1
        /\ \A k \in 1..Len(queue') : queue'[k] = queue[k + 1]
    BY <1>0, <1>2, HeadTailProperties, EmptySeq DEF TakesCommand, Executed
  <2>2. i + 1 \in 1..Len(queue) /\ j + 1 \in 1..Len(queue) /\ i + 1 # j + 1
    BY <2>1
  <2> QED
    BY <2>1, <2>2
<1>3. ASSUME NEW q \in Command, Submits(q)
      PROVE  \/ \E m, n \in 1..Len(queue) : m # n /\ queue[m] = queue[n] /\ queue[m] = queue'[i]
             \/ Submits(q) /\ queue'[i] = q /\ Pending(q)
  <2>1. /\ Len(queue') = Len(queue) + 1
        /\ \A k \in 1..Len(queue) : queue'[k] = queue[k]
        /\ queue'[Len(queue) + 1] = q
    BY <1>0, <1>3, AppendProperties DEF Submits
  <2>2. \A k \in 1..Len(queue') : k \in 1..Len(queue) \/ k = Len(queue) + 1
    BY <1>0, <2>1
  <2> QED
    BY <1>3, <2>1, <2>2 DEF Pending
<1>4. CASE queue' = queue
  BY <1>4
<1> QED
  BY <1>1, <1>2, <1>3, <1>4, QueueCases

(* A command executed on its token is taken out of the channel.            *)
LEMMA Executes ==
    ASSUME Base, NEW t \in Token, NEW op \in Ops, Executing(op, t), Executed
    PROVE  TakesCommand /\ Head(queue).op = op /\ Head(queue).token = t
BY DEF Executing, TakesCommand

(* A source is registered by the command at the head of the channel.       *)
LEMMA Registers ==
    ASSUME Base, NEW t \in Token, RegisterSource(t)
    PROVE  TakesCommand /\ Head(queue) = New(t)
BY Executes DEF RegisterSource, Executing, TakesCommand, New

(* What is pending is a command with its token.                            *)
LEMMA PendingFacts ==
    ASSUME Base, NEW q, Pending(q)
    PROVE  q \in Command /\ CommandKnown(q)
BY DEF Base, TypeOK, CommandsKnown, Pending

(* The head of the channel is there once, if it is a source or a check.    *)
LEMMA HeadOnce ==
    ASSUME Base, Commanded, TakesCommand, NEW q, q = Head(queue), q.op \in {"new", "check"}
    PROVE  ~Pending(q)'
<1>1. /\ queue \in Seq(Command) /\ queue # <<>> /\ queue' = Tail(queue)
  BY DEF Base, TypeOK, TakesCommand, Executed
<1>2. /\ Len(queue) \in Nat \ {0} /\ Len(queue') = Len(queue) - 1
      /\ \A j \in 1..Len(queue') : queue'[j] = queue[j + 1]
      /\ Head(queue) = queue[1]
  BY <1>1, HeadTailProperties, EmptySeq
<1>3. ASSUME NEW j \in 1..Len(queue'), queue'[j] = q
      PROVE  FALSE
  <2>1. j + 1 \in 1..Len(queue) /\ 1 \in 1..Len(queue) /\ j + 1 # 1
    BY <1>2
  <2>2. queue[j + 1] = queue[1] /\ queue[1].op \in {"new", "check"}
    BY <1>2, <1>3
  <2> QED
    BY <2>1, <2>2 DEF Commanded, NewOnce, CheckOnly
<1> QED
  BY <1>3 DEF Pending

(* A source that is submitted is not in the map, before and after.         *)
LEMMA NewNext ==
    ASSUME Base, Commanded, Next, NEW t \in Token, Pending(New(t))'
    PROVE  sources'[t] = "none"
<1>1. ~RegisterSource(t)
  <2>1. RegisterSource(t) => TakesCommand /\ Head(queue) = New(t)
    BY Registers
  <2>2. New(t).op = "new"
    BY CommandFacts
  <2> QED
    BY <2>1, <2>2, HeadOnce
<1>2. ASSUME Pending(New(t))
      PROVE  sources[t] = "none"
  BY <1>2, CommandFacts DEF Commanded, NewOnce, Pending
<1>3. CASE AcceptAll
  <2>1. ASSUME NEW k \in 1..Len(backlog), New(t) \in {New(tokenCounter + k), CheckTimeout(tokenCounter + k)}
        PROVE  sources[t] = "none"
    <3>1. t = tokenCounter + k
      BY <2>1 DEF New, CheckTimeout
    <3> QED
      BY <3>1, FreshToken
  <2> QED
    BY <1>1, <1>2, <1>3, <2>1, PendingAccept, SourcesGrow
<1>4. CASE TakesCommand
  BY <1>1, <1>2, <1>4, PendingTail, SourcesGrow
<1>5. ASSUME NEW q \in Command, Submits(q)
      PROVE  sources'[t] = "none"
  <2>1. Pending(New(t)) \/ q = New(t)
    BY <1>5, PendingAppend DEF Submits
  <2>2. q.op = "new" => \/ SubmitListener /\ q = New(ListenerToken)
                        \/ SubmitStdin /\ q = New(StdinToken)
    BY <1>5, TokenFacts, CommandFacts DEF Submits, CheckTimeout, ModifyInterests, CloseSource
  <2>3. q = New(t) => sources[t] = "none"
    BY <2>2, CommandFacts, TokenFacts DEF Commanded, StartupOnce, SubmitListener, SubmitStdin, New
  <2> QED
    BY <1>1, <1>2, <2>1, <2>3, SourcesGrow
<1>6. CASE queue' = queue
  BY <1>1, <1>2, <1>6, SourcesGrow DEF Pending
<1> QED
  BY <1>3, <1>4, <1>5, <1>6, QueueCases

(* Who submits a source, and a check.                                      *)
LEMMA SubmitsFacts ==
    ASSUME Base, Commanded, NEW q \in Command, Submits(q)
    PROVE  /\ q.op = "new" => /\ q.token \notin StreamToken /\ ~Pending(q)
                              /\ SubmitListener \/ SubmitStdin
           /\ q.op = "check" => /\ Resubmit /\ resubmits # <<>> /\ ~Pending(q)
                                /\ q = CheckTimeout(Head(resubmits))
                                /\ Resubmitting(Head(resubmits))
                                /\ Head(resubmits) \in StreamToken
           /\ q.op \in {"modify", "close"} /\ q.token \in StreamToken =>
                 sources[q.token] # "none" /\ batch # {}
<1>1. resubmits # <<>> => Resubmitting(Head(resubmits)) /\ Head(resubmits) \in StreamToken
  BY HeadTailProperties, EmptySeq DEF Base, TypeOK, CommandsKnown, Resubmitting
<1>2. CASE SubmitListener /\ q = New(ListenerToken)
  BY <1>2, TokenFacts, CommandFacts DEF SubmitListener, Commanded, StartupOnce
<1>3. CASE SubmitStdin /\ q = New(StdinToken)
  BY <1>3, TokenFacts, CommandFacts DEF SubmitStdin, Commanded, StartupOnce
<1>4. CASE HandleLine /\ q = CloseSource(ListenerToken)
  BY <1>4, TokenFacts, CommandFacts
<1>5. ASSUME NEW t \in StreamToken,
             \/ ReadFullRequest(t) /\ q = ModifyInterests(t)
             \/ ReadRejected(t) /\ q = CloseSource(t)
             \/ WriteDone(t) /\ q = CloseSource(t)
      PROVE  q.op \in {"modify", "close"} /\ q.token = t /\ sources[t] # "none" /\ batch # {}
  BY <1>5, TokenFacts, CommandFacts DEF ReadFullRequest, ReadRejected, WriteDone, Handling
<1>6. CASE Resubmit /\ resubmits # <<>> /\ q = CheckTimeout(Head(resubmits))
  <2>1. q.op = "check" /\ q = CheckTimeout(Head(resubmits))
    BY <1>1, <1>6, TokenFacts, CommandFacts
  <2> QED
    BY <1>1, <1>6, <2>1 DEF Commanded, CheckOnly
<1> QED
  BY <1>2, <1>3, <1>4, <1>5, <1>6 DEF Submits

(* No source is submitted twice, and none that is in the map.              *)
LEMMA NewOnceNext ==
    ASSUME Base, Commanded, Next
    PROVE  NewOnce'
<1> SUFFICES ASSUME NEW i \in 1..Len(queue'), NEW j \in 1..Len(queue'), queue'[i].op = "new"
             PROVE  /\ sources'[queue'[i].token] = "none"
                    /\ queue'[j] = queue'[i] => i = j
  BY DEF NewOnce
<1>1. queue' \in Seq(Command) /\ queue'[i] \in Command
  BY QueueTyped
<1>2. PICK t \in Token : queue'[i].token = t /\ queue'[i] = New(t)
  BY <1>1, CommandIs
<1>3. Pending(New(t))'
  BY <1>2 DEF Pending, New
<1>4. sources'[queue'[i].token] = "none"
  BY <1>2, <1>3, NewNext
<1>5. ASSUME queue'[j] = queue'[i], i # j
      PROVE  FALSE
  <2>1. ~\E q \in Command : Submits(q) /\ queue'[i] = q /\ Pending(q)
    BY <1>1, SubmitsFacts
  <2> QED
    BY <1>5, <2>1, SamePosition DEF Commanded, NewOnce
<1> QED
  BY <1>4, <1>5

(* A source that is submitted has its check submitted, and nothing else.   *)
LEMMA NewCheckedNext ==
    ASSUME Base, Commanded, Next
    PROVE  NewChecked'
<1> SUFFICES ASSUME NEW t \in StreamToken, Pending(New(t))'
             PROVE  /\ Pending(CheckTimeout(t))'
                    /\ ~Pending(ModifyInterests(t))'
                    /\ ~Pending(CloseSource(t))'
  BY DEF NewChecked
<1>1. /\ t \in Token
      /\ New(t).op = "new" /\ New(t).token = t
      /\ CheckTimeout(t).op = "check" /\ CheckTimeout(t).token = t
      /\ ModifyInterests(t).op = "modify" /\ ModifyInterests(t).token = t
      /\ CloseSource(t).op = "close" /\ CloseSource(t).token = t
  BY TokenFacts, CommandFacts
<1>2. ASSUME Pending(New(t))
      PROVE  /\ Pending(CheckTimeout(t)) /\ ~Pending(ModifyInterests(t))
             /\ ~Pending(CloseSource(t)) /\ sources[t] = "none"
  BY <1>1, <1>2 DEF Commanded, NewChecked, NewOnce, Pending
<1>3. CASE AcceptAll
  <2>1. CASE Pending(New(t))
    <3>1. \A k : /\ ModifyInterests(t) \notin {New(k), CheckTimeout(k)}
                 /\ CloseSource(t) \notin {New(k), CheckTimeout(k)}
      BY DEF New, CheckTimeout, ModifyInterests, CloseSource
    <3> QED
      BY <1>2, <1>3, <2>1, <3>1, PendingAccept
  <2>2. ASSUME NEW k \in 1..Len(backlog), New(t) \in {New(tokenCounter + k), CheckTimeout(tokenCounter + k)}
        PROVE  /\ Pending(CheckTimeout(t))'
               /\ ~Pending(ModifyInterests(t))'
               /\ ~Pending(CloseSource(t))'
    <3>1. t = tokenCounter + k
      BY <2>2 DEF New, CheckTimeout
    <3>2. \A u : /\ ModifyInterests(t) \notin {New(u), CheckTimeout(u)}
                 /\ CloseSource(t) \notin {New(u), CheckTimeout(u)}
      BY DEF New, CheckTimeout, ModifyInterests, CloseSource
    <3>3. ~Pending(ModifyInterests(t)) /\ ~Pending(CloseSource(t))
      BY <3>1, FreshToken
    <3> QED
      BY <1>3, <3>1, <3>2, <3>3, PendingAccept
  <2> QED
    BY <1>3, <2>1, <2>2, PendingAccept
<1>4. CASE TakesCommand
  <2>1. Pending(New(t))
    BY <1>4, PendingTail
  <2>2. Head(queue) # CheckTimeout(t)
    <3>1. queue # <<>>
      BY <1>4 DEF TakesCommand
    <3>2. PICK j \in 1..Len(queue) : queue[j] = New(t)
      BY <2>1 DEF Pending
    <3>3. 1 \in 1..Len(queue) /\ Head(queue) = queue[1] /\ ~(j < 1)
      BY <3>1, HeadKnown
    <3> QED
      BY <1>1, <3>2, <3>3 DEF Commanded, CheckBehindNew
  <2> QED
    BY <1>2, <1>4, <2>1, <2>2, PendingTail
<1>5. ASSUME NEW q \in Command, Submits(q)
      PROVE  /\ Pending(CheckTimeout(t))'
             /\ ~Pending(ModifyInterests(t))'
             /\ ~Pending(CloseSource(t))'
  <2>1. q # New(t)
    BY <1>1, <1>5, SubmitsFacts
  <2>2. Pending(New(t))
    BY <1>5, <2>1, PendingAppend DEF Submits
  <2>3. q # ModifyInterests(t) /\ q # CloseSource(t)
    BY <1>1, <1>2, <1>5, <2>2, SubmitsFacts
  <2> QED
    BY <1>2, <1>5, <2>2, <2>3, PendingAppend DEF Submits
<1>6. CASE queue' = queue
  BY <1>2, <1>6 DEF Pending
<1> QED
  BY <1>3, <1>4, <1>5, <1>6, QueueCases

(* ... and behind it.                                                      *)
LEMMA CheckBehindNewNext ==
    ASSUME Base, Commanded, Next
    PROVE  CheckBehindNew'
<1> SUFFICES ASSUME NEW i \in 1..Len(queue'), NEW j \in 1..Len(queue'),
                    queue'[i].op = "check", queue'[j] = New(queue'[i].token)
             PROVE  j < i
  BY DEF CheckBehindNew
<1>0. queue \in Seq(Command) /\ Len(queue) \in Nat
  BY DEF Base, TypeOK
<1>1. queue'[j].op = "new" /\ queue'[j].token = queue'[i].token
  BY DEF New
<1>2. CASE AcceptAll
  <2> DEFINE L == Len(queue)
             n == Len(backlog)
  <2>1. tokenCounter \in Nat /\ n \in Nat
    BY TokensSuffice
  <2>2. \A k : New(k).op = "new" /\ CheckTimeout(k).op = "check"
               /\ New(k).token = k /\ CheckTimeout(k).token = k
    BY DEF New, CheckTimeout
  <2>3. ASSUME i \in 1..L, queue'[i] = queue[i]
        PROVE  j < i
    <3>1. queue[i].token \in StreamToken
      BY <2>3 DEF Base, CommandsKnown, CommandKnown
    <3>2. ASSUME NEW k \in 1..n, queue'[j] = New(tokenCounter + k)
          PROVE  FALSE
      <4>1. queue[i] = CheckTimeout(tokenCounter + k)
        BY <1>0, <1>1, <2>2, <2>3, <3>2, CommandIs
      <4> QED
        BY <2>3, <4>1, FreshToken DEF Pending
    <3>3. j \in 1..L /\ queue'[j] = queue[j]
      BY <1>1, <1>2, <2>2, <3>2, AcceptPositions
    <3> QED
      BY <2>3, <3>3 DEF Commanded, CheckBehindNew
  <2>4. ASSUME NEW k \in 1..n, i = L + 2 * k, queue'[i] = CheckTimeout(tokenCounter + k)
        PROVE  j < i
    <3>1. queue'[j] = New(tokenCounter + k)
      BY <2>2, <2>4
    <3>2. ASSUME NEW m \in 1..n, j = L + 2 * m - 1, queue'[j] = New(tokenCounter + m)
          PROVE  j < i
      <4>1. tokenCounter + k = tokenCounter + m
        BY <2>2, <3>1, <3>2
      <4> QED
        BY <1>0, <2>1, <2>4, <3>2, <4>1
    <3>3. ASSUME j \in 1..L
          PROVE  j < i
      BY <1>0, <2>1, <2>4, <3>3
    <3> QED
      BY <1>1, <1>2, <2>2, <3>2, <3>3, AcceptPositions
  <2>5. ASSUME NEW k, queue'[i] = New(k)
        PROVE  FALSE
    BY <2>2, <2>5
  <2> QED
    BY <1>2, <2>3, <2>4, <2>5, AcceptPositions
<1>3. CASE TakesCommand
  <2>1. /\ Len(queue') = Len(queue) - 1
        /\ \A k \in 1..Len(queue') : queue'[k] = queue[k + 1]
    BY <1>0, <1>3, HeadTailProperties, EmptySeq DEF TakesCommand, Executed
  <2>2. i + 1 \in 1..Len(queue) /\ j + 1 \in 1..Len(queue)
    BY <1>0, <2>1
  <2>3. j + 1 < i + 1
    BY <2>1, <2>2 DEF Commanded, CheckBehindNew
  <2> QED
    BY <2>3
<1>4. ASSUME NEW q \in Command, Submits(q)
      PROVE  j < i
  <2>1. /\ Len(queue') = Len(queue) + 1
        /\ \A k \in 1..Len(queue) : queue'[k] = queue[k]
        /\ queue'[Len(queue) + 1] = q
    BY <1>0, <1>4, AppendProperties DEF Submits
  <2>2. \A k \in 1..Len(queue') : k \in 1..Len(queue) \/ k = Len(queue) + 1
    BY <1>0, <2>1
  <2>3. j # i
    BY <1>1
  <2>4. CASE i \in 1..Len(queue) /\ j \in 1..Len(queue)
    BY <2>1, <2>4 DEF Commanded, CheckBehindNew
  <2>5. CASE i \in 1..Len(queue) /\ j = Len(queue) + 1
    <3>1. queue'[i].token \in StreamToken
      BY <2>1, <2>5 DEF Base, CommandsKnown, CommandKnown
    <3>2. q.op = "new" /\ q.token \in StreamToken
      BY <1>1, <2>1, <2>5, <3>1
    <3> QED
      BY <1>4, <3>2, SubmitsFacts
  <2>6. CASE i = Len(queue) + 1
    BY <1>0, <2>2, <2>3, <2>6
  <2> QED
    BY <2>2, <2>4, <2>5, <2>6
<1>5. CASE queue' = queue
  BY <1>5 DEF Commanded, CheckBehindNew
<1> QED
  BY <1>2, <1>3, <1>4, <1>5, QueueCases

(* A check is to be submitted again when it has been executed, and is      *)
(* submitted again at the end of the iteration.                            *)
LEMMA ResubmitSteps ==
    ASSUME Base, Next
    PROVE  \/ UNCHANGED resubmits
           \/ /\ Resubmit /\ resubmits # <<>> /\ resubmits' = Tail(resubmits)
              /\ queue' = Append(queue, CheckTimeout(Head(resubmits)))
           \/ \E t \in StreamToken :
                 /\ CheckResubmits(t) /\ TakesCommand /\ Head(queue) = CheckTimeout(t)
                 /\ resubmits' = Append(resubmits, t)
<1>1. ASSUME NEW t \in Token, CheckResubmits(t)
      PROVE  /\ t \in StreamToken /\ TakesCommand /\ Head(queue) = CheckTimeout(t)
             /\ resubmits' = Append(resubmits, t)
  <2>1. TakesCommand /\ Head(queue) = CheckTimeout(t)
    BY <1>1 DEF CheckResubmits, Executing, TakesCommand, CheckTimeout
  <2>2. CommandKnown(Head(queue))
    BY <2>1, HeadKnown DEF TakesCommand
  <2> QED
    BY <1>1, <2>1, <2>2, CommandFacts DEF CheckResubmits, CommandKnown
<1> QED
  BY <1>1, ResubmitsChange DEF Resubmit

(* No token gets a second timeout check.                                   *)
LEMMA CheckOnlyNext ==
    ASSUME Base, Commanded, Next
    PROVE  CheckOnly'
<1>0. /\ resubmits \in Seq(Token) /\ Len(resubmits) \in Nat
      /\ \A i, j \in 1..Len(resubmits) : resubmits[i] = resubmits[j] => i = j
      /\ \A t \in StreamToken : ~(Pending(CheckTimeout(t)) /\ Resubmitting(t))
  BY DEF Base, TypeOK, Commanded, CheckOnly
<1>1. ASSUME NEW i \in 1..Len(queue'), NEW j \in 1..Len(queue'),
             queue'[i].op = "check", queue'[j] = queue'[i], i # j
      PROVE  FALSE
  <2>1. ~\E q \in Command : Submits(q) /\ queue'[i] = q /\ Pending(q)
    BY <1>1, SubmitsFacts
  <2> QED
    BY <1>1, <2>1, SamePosition DEF Commanded, CheckOnly
<1>2. CASE UNCHANGED resubmits
  <2>1. ASSUME NEW t \in StreamToken, Pending(CheckTimeout(t))', Resubmitting(t)
        PROVE  FALSE
    <3>1. ~Pending(CheckTimeout(t))
      BY <1>0, <2>1
    <3>2. CASE AcceptAll
      <4>1. ASSUME NEW k \in 1..Len(backlog),
                   CheckTimeout(t) \in {New(tokenCounter + k), CheckTimeout(tokenCounter + k)}
            PROVE  FALSE
        <5>1. t = tokenCounter + k
          BY <4>1 DEF New, CheckTimeout
        <5> QED
          BY <2>1, <5>1, FreshToken
      <4> QED
        BY <2>1, <3>1, <3>2, <4>1, PendingAccept
    <3>3. CASE TakesCommand
      BY <2>1, <3>1, <3>3, PendingTail
    <3>4. ASSUME NEW q \in Command, Submits(q)
          PROVE  FALSE
      <4>1. q = CheckTimeout(t)
        BY <2>1, <3>1, <3>4, PendingAppend DEF Submits
      <4>2. Resubmit /\ resubmits # <<>>
        BY <3>4, <4>1, SubmitsFacts, TokenFacts, CommandFacts
      <4> QED
        BY <1>0, <1>2, <4>2, HeadTailProperties DEF Resubmit
    <3>5. CASE queue' = queue
      BY <2>1, <3>1, <3>5 DEF Pending
    <3> QED
      BY <3>2, <3>3, <3>4, <3>5, QueueCases
  <2> QED
    BY <1>0, <1>1, <1>2, <2>1 DEF CheckOnly, Resubmitting
<1>3. CASE Resubmit /\ resubmits # <<>> /\ resubmits' = Tail(resubmits)
           /\ queue' = Append(queue, CheckTimeout(Head(resubmits)))
  <2>1. /\ Len(resubmits') = Len(resubmits) - 1
        /\ \A i \in 1..Len(resubmits') : resubmits'[i] = resubmits[i + 1]
        /\ Head(resubmits) = resubmits[1]
        /\ 1 \in 1..Len(resubmits)
    BY <1>0, <1>3, HeadTailProperties, EmptySeq
  <2>2. \A i \in 1..Len(resubmits') : i + 1 \in 1..Len(resubmits) /\ i + 1 # 1
    BY <1>0, <2>1
  <2>3. \A i, j \in 1..Len(resubmits') : resubmits'[i] = resubmits'[j] => i = j
    <3> SUFFICES ASSUME NEW i \in 1..Len(resubmits'), NEW j \in 1..Len(resubmits'),
                        resubmits'[i] = resubmits'[j]
                 PROVE  i = j
      OBVIOUS
    <3>1. i + 1 = j + 1
      BY <1>0, <2>1, <2>2
    <3> QED
      BY <3>1
  <2>4. \A t : Resubmitting(t)' => Resubmitting(t) /\ t # Head(resubmits)
    BY <1>0, <2>1, <2>2 DEF Resubmitting
  <2>5. ASSUME NEW t \in StreamToken, Pending(CheckTimeout(t))', Resubmitting(t)'
        PROVE  FALSE
    <3>1. CheckTimeout(Head(resubmits)) \in Command
      BY <1>0, <2>1, CommandFacts
    <3>2. CheckTimeout(t) # CheckTimeout(Head(resubmits))
      BY <2>4, <2>5 DEF CheckTimeout
    <3>3. Pending(CheckTimeout(t))
      BY <1>3, <2>5, <3>1, <3>2, PendingAppend
    <3> QED
      BY <1>0, <2>4, <2>5, <3>3
  <2> QED
    BY <1>1, <2>3, <2>5 DEF CheckOnly
<1>4. ASSUME NEW u \in StreamToken, TakesCommand, Head(queue) = CheckTimeout(u),
             resubmits' = Append(resubmits, u)
      PROVE  CheckOnly'
  <2>1. /\ Len(resubmits') = Len(resubmits) + 1
        /\ \A i \in 1..Len(resubmits) : resubmits'[i] = resubmits[i]
        /\ resubmits'[Len(resubmits) + 1] = u
    BY <1>0, <1>4, AppendProperties
  <2>2. \A i \in 1..Len(resubmits') : i \in 1..Len(resubmits) \/ i = Len(resubmits) + 1
    BY <1>0, <2>1
  <2>3. Pending(CheckTimeout(u)) /\ ~Pending(CheckTimeout(u))'
    BY <1>4, PendingTail, HeadOnce, TokenFacts, CommandFacts
  <2>4. ~Resubmitting(u)
    BY <1>0, <2>3
  <2>5. \A i, j \in 1..Len(resubmits') : resubmits'[i] = resubmits'[j] => i = j
    BY <1>0, <2>1, <2>2, <2>4 DEF Resubmitting
  <2>6. \A t : Resubmitting(t)' => Resubmitting(t) \/ t = u
    BY <2>1, <2>2 DEF Resubmitting
  <2>7. \A t \in StreamToken : ~(Pending(CheckTimeout(t))' /\ Resubmitting(t)')
    BY <1>0, <1>4, <2>3, <2>6, PendingTail
  <2> QED
    BY <1>1, <2>5, <2>7 DEF CheckOnly
<1> QED
  BY <1>2, <1>3, <1>4, ResubmitSteps

(* A stream being read has its check submitted, or to be submitted again.  *)
LEMMA ReaderCheckedNext ==
    ASSUME Base, Commanded, Next
    PROVE  ReaderChecked'
<1> SUFFICES ASSUME NEW t \in StreamToken, sources'[t] = "read"
             PROVE  Pending(CheckTimeout(t))' \/ Resubmitting(t)'
  BY DEF ReaderChecked
<1>0. /\ t \in Token /\ resubmits \in Seq(Token) /\ Len(resubmits) \in Nat
  BY TokenFacts DEF Base, TypeOK
<1>1. CASE RegisterSource(t)
  <2>1. TakesCommand /\ Head(queue) = New(t)
    BY <1>0, <1>1, Registers
  <2>2. Pending(New(t))
    BY <2>1, PendingTail
  <2>3. Pending(CheckTimeout(t)) /\ CheckTimeout(t) # Head(queue)
    BY <1>0, <2>1, <2>2, CommandFacts DEF Commanded, NewChecked
  <2> QED
    BY <2>1, <2>3, PendingTail
<1>2. ASSUME sources[t] = "read", Pending(CheckTimeout(t))
      PROVE  Pending(CheckTimeout(t))' \/ Resubmitting(t)'
  <2>1. CASE AcceptAll
    BY <1>2, <2>1, PendingAccept
  <2>2. ASSUME TakesCommand, NEW u \in Token, ExecuteCommand(u)
        PROVE  Pending(CheckTimeout(t))' \/ Resubmitting(t)'
    <3>1. CASE Head(queue) # CheckTimeout(t)
      BY <1>2, <2>2, <3>1, PendingTail
    <3>2. CASE Head(queue) = CheckTimeout(t)
      <4>1. CheckCloses(t) \/ CheckResubmits(t)
        BY <1>0, <1>2, <2>2, <3>2, TokenFacts, CommandFacts
           DEF ExecuteCommand, RegisterSource, ReregisterSource, AlreadyClosed,
               CloseStream, CloseListener, CheckCloses, CheckResubmits, CheckEnds, Executing
      <4>2. ~CheckCloses(t)
        BY <1>0 DEF CheckCloses, Drop, Base, TypeOK
      <4>3. resubmits' = Append(resubmits, t)
        BY <4>1, <4>2 DEF CheckResubmits
      <4>4. Len(resubmits) + 1 \in 1..Len(resubmits') /\ resubmits'[Len(resubmits) + 1] = t
        BY <1>0, <4>3, AppendProperties
      <4> QED
        BY <4>4 DEF Resubmitting
    <3> QED
      BY <3>1, <3>2
  <2>3. ASSUME NEW q \in Command, Submits(q)
        PROVE  Pending(CheckTimeout(t))'
    BY <1>2, <2>3, PendingAppend DEF Submits
  <2>4. CASE queue' = queue
    BY <1>2, <2>4 DEF Pending
  <2> QED
    BY <2>1, <2>2, <2>3, <2>4, QueueCases
<1>3. ASSUME Resubmitting(t)
      PROVE  Pending(CheckTimeout(t))' \/ Resubmitting(t)'
  <2>1. PICK i \in 1..Len(resubmits) : resubmits[i] = t
    BY <1>3 DEF Resubmitting
  <2>2. CASE UNCHANGED resubmits
    BY <2>1, <2>2 DEF Resubmitting
  <2>3. CASE resubmits # <<>> /\ resubmits' = Tail(resubmits)
             /\ queue' = Append(queue, CheckTimeout(Head(resubmits)))
    <3>1. /\ Len(resubmits') = Len(resubmits) - 1
          /\ \A k \in 1..Len(resubmits') : resubmits'[k] = resubmits[k + 1]
          /\ Head(resubmits) = resubmits[1]
      BY <1>0, <2>3, HeadTailProperties, EmptySeq
    <3>2. CASE i = 1
      <4>1. queue' = Append(queue, CheckTimeout(t))
        BY <2>1, <2>3, <3>1, <3>2
      <4> QED
        BY <1>0, <4>1, PendingAppend, CommandFacts
    <3>3. CASE i # 1
      <4>1. i - 1 \in 1..Len(resubmits') /\ (i - 1) + 1 = i
        BY <1>0, <3>1, <3>3
      <4>2. resubmits'[i - 1] = t
        BY <2>1, <3>1, <4>1
      <4> QED
        BY <4>1, <4>2 DEF Resubmitting
    <3> QED
      BY <3>2, <3>3
  <2>4. ASSUME NEW u \in StreamToken, resubmits' = Append(resubmits, u)
        PROVE  Resubmitting(t)'
    BY <1>0, <2>1, <2>4, TokenFacts, AppendProperties DEF Resubmitting
  <2> QED
    BY <2>2, <2>3, <2>4, ResubmitSteps
<1> QED
  BY <1>0, <1>1, <1>2, <1>3, SourcesGrow DEF Commanded, ReaderChecked

(* Where the phase of an iteration ends.                                   *)
LEMMA PhaseChanges ==
    ASSUME Next
    PROVE  /\ loopPc' \in {"poll", "resubmit", "commands"} =>
                 \/ UNCHANGED <<loopPc, batch>> /\ loopPc # "events"
                 \/ BatchDone \/ CommandsDone \/ NextIteration
           /\ startup' # startup => SubmitListener \/ SubmitStdin
BY DEF Next, LoopStep, FaultStep, MainStep, ClientStep, ExecuteCommand, HandleStream,
       Connect, SendPiece, FinishSending, Reset, ReadPiece, TypeLine, Expire,
       SubmitListener, SubmitStdin, PollReturns, PollFails,
       AcceptPanics, WaitForLine, EventWithoutSource,
       AcceptAll, AcceptFails, HandleLine, HandleLineFails, LineHandled, ReadPart,
       ReadFullRequest, ReadRejected, ReadFails, ReadPanics, ReadHangs, WritePart,
       WriteDone, WriteFails, BatchDone, RegisterSource, ReregisterSource,
       CloseListener, CloseStream, AlreadyClosed, CheckCloses, CheckResubmits,
       CheckEnds, CommandFails, CommandsDone, Resubmit, NextIteration,
       loopVars, Handling, Executed, Stops, StopsByFault

(* Commands that modify or close do not outlive their iteration.           *)
LEMMA CommandsOfIterationNext ==
    ASSUME Base, Commanded, Next
    PROVE  CommandsOfIteration'
<1>0. CommandsOfIteration
  BY DEF Commanded
<1>1. CASE UNCHANGED <<loopPc, batch>> /\ loopPc # "events"
  <2>1. ASSUME loopPc \in {"poll", "resubmit"}, NEW i \in 1..Len(queue')
        PROVE  queue'[i].op \in {"new", "check"}
    <3>0. batch = {}
      BY <1>0, <2>1 DEF CommandsOfIteration
    <3>1. \A j \in 1..Len(queue) : queue[j].op \in {"new", "check"}
      BY <1>0, <2>1 DEF CommandsOfIteration
    <3>2. CASE queue' = queue
      BY <2>1, <3>1, <3>2
    <3>3. ASSUME i = Len(queue) + 1, queue' = Append(queue, queue'[i])
          PROVE  queue'[i].op \in {"new", "check"}
      <4>1. ~TakesCommand /\ ~AcceptAll
        BY <2>1 DEF TakesCommand, AcceptAll, Handling
      <4>2. queue' # queue
        BY <3>3, AppendProperties DEF Base, TypeOK
      <4>3. PICK q \in Command : Submits(q)
        BY <4>1, <4>2, QueueCases
      <4>4. q.op \in {"new", "check"}
        BY <2>1, <3>0, <4>3, TokenFacts, CommandFacts, SMTT(30)
           DEF Submits, HandleLine, LineHandled, ReadFullRequest, ReadRejected,
               WriteDone, Handling,
               Base, TypeOK
      <4>5. queue'[i] = q
        BY <3>3, <4>3, AppendProperties DEF Submits, Base, TypeOK
      <4> QED
        BY <4>4, <4>5
    <3>4. ASSUME AcceptAll
          PROVE  FALSE
      BY <2>1, <3>4 DEF AcceptAll, Handling
    <3> QED
      BY <2>1, <3>1, <3>2, <3>3, <3>4, QueueContents
  <2> QED
    BY <1>0, <1>1, <2>1 DEF CommandsOfIteration
<1>2. CASE BatchDone
  BY <1>2 DEF BatchDone, CommandsOfIteration
<1>3. CASE CommandsDone
  BY <1>0, <1>3 DEF CommandsDone, CommandsOfIteration, commandVars
<1>4. CASE NextIteration
  BY <1>0, <1>4 DEF NextIteration, CommandsOfIteration, commandVars
<1>5. CASE loopPc' \notin {"poll", "resubmit", "commands"}
  BY <1>5 DEF CommandsOfIteration
<1> QED
  BY <1>1, <1>2, <1>3, <1>4, <1>5, PhaseChanges

(* What has been registered by nobody is not watched.                      *)
LEMMA StdinInterest ==
    ASSUME Base, Next, interest[StdinToken] = "none"
    PROVE  interest'[StdinToken] = "none" \/ RegisterSource(StdinToken)
<1>0. interest \in [Token -> {"none", "readable", "writable"}]
  BY DEF Base, TypeOK
<1>1. ASSUME NEW t \in Token, t # StdinToken \/ interest' = [interest EXCEPT ![t] = "none"],
             NEW what, interest' = [interest EXCEPT ![t] = what]
      PROVE  interest'[StdinToken] = "none"
  BY <1>0, <1>1, TokenFacts
<1>2. ASSUME NEW t \in Token, ReregisterSource(t)
      PROVE  interest'[StdinToken] = "none"
  <2>1. t # StdinToken
    <3>1. Head(queue) = [op |-> "modify", token |-> t] /\ queue # <<>>
      BY <1>2 DEF ReregisterSource, Executing
    <3> QED
      BY <3>1, HeadKnown, TokenFacts DEF CommandKnown
  <2> QED
    BY <1>1, <1>2, <2>1 DEF ReregisterSource, Register, epollVars
<1>3. ASSUME NEW t \in Token, RegisterSource(t), t # StdinToken
      PROVE  interest'[StdinToken] = "none"
  BY <1>1, <1>3 DEF RegisterSource, Register
<1>4. ASSUME NEW t \in Token, Unregister(t)
      PROVE  interest'[StdinToken] = "none"
  BY <1>1, <1>4 DEF Unregister
<1>5. ASSUME NEW t \in Token,
             \/ t \in StreamToken /\ (ReadFails(t) \/ WriteFails(t) \/ CloseStream(t))
             \/ CheckCloses(t)
      PROVE  interest'[StdinToken] = "none"
  BY <1>4, <1>5 DEF ReadFails, WriteFails, CloseStream, CheckCloses, Drop
<1>6. CASE AcceptFails \/ CloseListener
  BY <1>4, <1>6, TokenFacts DEF AcceptFails, CloseListener
<1>7. ASSUME UNCHANGED interest
      PROVE  interest'[StdinToken] = "none"
  BY <1>7
<1>8. ASSUME \/ \E c \in Conn : \/ \E k \in RequestKinds : Connect(c, k)
                                \/ SendPiece(c) \/ FinishSending(c)
                                \/ Reset(c) \/ ReadPiece(c)
             \/ \E l \in LineKinds : TypeLine(l)
             \/ PollReturns
             \/ UNCHANGED epollVars
      PROVE  UNCHANGED interest
  BY <1>8 DEF Connect, SendPiece, FinishSending, Reset, ReadPiece, TypeLine, PollReturns,
              epollVars
<1> QED
  BY <1>2, <1>3, <1>5, <1>6, <1>7, <1>8, EpollChanges, TokenFacts

(* The main thread submits listener and standard input once.               *)
LEMMA StartupOnceNext ==
    ASSUME Base, Commanded, Next
    PROVE  StartupOnce'
<1>0. StartupOnce /\ StdinToken \in Token /\ ListenerToken \in Token
      /\ StdinToken \notin StreamToken /\ ListenerToken \notin StreamToken
      /\ StdinToken # ListenerToken
      /\ startup \in {"listener", "stdin", "join"}
  BY TokenFacts DEF Commanded, Base, TypeOK
<1>1. ASSUME NEW t \in {StdinToken, ListenerToken}, ~Pending(New(t)),
             t = ListenerToken => ~SubmitListener,
             t = StdinToken => ~SubmitStdin
      PROVE  ~Pending(New(t))' /\ ~RegisterSource(t)
  <2>1. ~RegisterSource(t)
    BY <1>0, <1>1, Registers, PendingTail
  <2>2. CASE AcceptAll
    <3>1. \A k \in 1..Len(backlog) : New(t) # New(tokenCounter + k) /\ New(t) # CheckTimeout(tokenCounter + k)
      BY <1>0, FreshToken DEF New, CheckTimeout
    <3> QED
      BY <1>1, <2>1, <2>2, <3>1, PendingAccept
  <2>3. CASE TakesCommand
    BY <1>1, <2>1, <2>3, PendingTail
  <2>4. ASSUME NEW q \in Command, Submits(q)
        PROVE  ~Pending(New(t))'
    <3>1. q # New(t)
      BY <1>0, <1>1, <2>4 DEF Submits, New, CloseSource, ModifyInterests, CheckTimeout
    <3> QED
      BY <1>1, <2>4, <3>1, PendingAppend DEF Submits
  <2>5. CASE queue' = queue
    <3>1. Pending(New(t))' <=> Pending(New(t))
      BY <2>5 DEF Pending, New
    <3> QED
      BY <1>1, <2>1, <3>1
  <2> QED
    BY <2>1, <2>2, <2>3, <2>4, <2>5, QueueCases
<1>2. ASSUME startup' = "listener"
      PROVE  sources'[ListenerToken] = "none" /\ ~Pending(New(ListenerToken))'
  <2>1. startup = "listener" /\ ~SubmitListener
    BY <1>2, PhaseChanges DEF SubmitListener, SubmitStdin
  <2> QED
    BY <1>0, <1>1, <2>1, SourcesGrow DEF StartupOnce
<1>3. ASSUME startup' # "join"
      PROVE  /\ sources'[StdinToken] = "none" /\ ~Pending(New(StdinToken))'
             /\ interest'[StdinToken] = "none"
  <2>1. startup # "join" /\ ~SubmitStdin
    BY <1>0, <1>3, PhaseChanges DEF SubmitListener, SubmitStdin
  <2> QED
    BY <1>0, <1>1, <2>1, SourcesGrow, StdinInterest DEF StartupOnce
<1> QED
  BY <1>2, <1>3 DEF StartupOnce

(* The layer about commands holds at the start.                            *)
LEMMA CommandedInit == Init => Commanded
BY TokenFacts
   DEF Init, Commanded, NewOnce, NewChecked, CheckBehindNew, CheckOnly, ReaderChecked,
       CommandsOfIteration, StartupOnce, Pending, Resubmitting

(* Every step keeps the layer about commands.                              *)
LEMMA CommandedNext ==
    ASSUME Base, Commanded, [Next]_vars
    PROVE  Commanded'
<1>1. CASE Next
  BY <1>1, NewOnceNext, NewCheckedNext, CheckBehindNewNext, CheckOnlyNext,
     ReaderCheckedNext, CommandsOfIterationNext, StartupOnceNext DEF Commanded
<1>2. CASE UNCHANGED vars
  BY <1>2 DEF vars, loopVars, sourceVars, commandVars, epollVars, Commanded, NewOnce,
              NewChecked, CheckBehindNew, CheckOnly, ReaderChecked, CommandsOfIteration,
              StartupOnce, Pending, Resubmitting
<1> QED
  BY <1>1, <1>2
-----------------------------------------------------------------------------
(* What is in the map is watched.                                          *)

(* The source of token t is dropped, and taken out of epoll.               *)
Dropped(t) ==
    /\ sources' = [sources EXCEPT ![t] = "none"]
    /\ Unregister(t)
    /\ \/ Handling(t, sources[t])
       \/ TakesCommand

(* How sources and interests change.                                       *)
LEMMA WatchSteps ==
    ASSUME Base, Next
    PROVE  \/ UNCHANGED <<sources, interest>>
           \/ UNCHANGED interest /\ sources' = [sources EXCEPT ![StdinToken] = "none"]
           \/ \E t \in Token \ {StdinToken} : Dropped(t)
           \/ \E t \in StreamToken : ReadFullRequest(t) \/ WriteDone(t)
           \/ \E t \in Token : /\ RegisterSource(t) /\ TakesCommand
                               /\ Head(queue) = New(t)
           \/ \E t \in StreamToken : /\ ReregisterSource(t) /\ TakesCommand
                                     /\ Head(queue) = ModifyInterests(t)
                                     /\ sources[t] # "none"
<1>0. SourcesKnown
  BY DEF Base
<1>1. ASSUME NEW t \in Token, ReregisterSource(t), ~UNCHANGED interest
      PROVE  t \in StreamToken /\ TakesCommand /\ Head(queue) = ModifyInterests(t) /\ sources[t] # "none"
  <2>1. TakesCommand /\ Head(queue) = ModifyInterests(t) /\ sources[t] # "none"
    BY <1>1 DEF ReregisterSource, Executing, TakesCommand, ModifyInterests, epollVars
  <2>2. CommandKnown(Head(queue))
    BY <2>1, HeadKnown DEF TakesCommand
  <2> QED
    BY <2>1, <2>2, CommandFacts DEF CommandKnown
<1>2. ASSUME NEW t \in Token, CheckCloses(t)
      PROVE  t \in Token \ {StdinToken} /\ Dropped(t)
  <2>1. t # StdinToken
    BY <1>0, <1>2 DEF CheckCloses, SourcesKnown
  <2> QED
    BY <1>2, <2>1, Executes DEF CheckCloses, Drop, Dropped, Ops
<1>3. ASSUME NEW t \in StreamToken, ReadFails(t) \/ WriteFails(t) \/ CloseStream(t)
      PROVE  t \in Token \ {StdinToken} /\ Dropped(t)
  <2>1. t \in Token \ {StdinToken}
    BY TokenFacts
  <2>2. CASE ReadFails(t) \/ WriteFails(t)
    BY <2>1, <2>2 DEF ReadFails, WriteFails, Drop, Dropped, Handling
  <2>3. CASE CloseStream(t)
    BY <2>1, <2>3, Executes DEF CloseStream, Drop, Dropped, Ops
  <2> QED
    BY <1>3, <2>1, <2>2, <2>3
<1>4. ASSUME AcceptFails \/ CloseListener
      PROVE  ListenerToken \in Token \ {StdinToken} /\ Dropped(ListenerToken)
  <2>1. ListenerToken \in Token \ {StdinToken}
    BY TokenFacts
  <2>2. CASE AcceptFails
    <3>1. Handling(ListenerToken, "listener") /\ sources[ListenerToken] = "listener"
      BY <2>2 DEF AcceptFails, Handling
    <3> QED
      BY <2>1, <2>2, <3>1 DEF AcceptFails, Dropped
  <2>3. CASE CloseListener
    BY <2>1, <2>3, Executes DEF CloseListener, Dropped, Ops
  <2> QED
    BY <1>4, <2>1, <2>2, <2>3
<1>5. CASE HandleLineFails
  BY <1>5 DEF HandleLineFails, epollVars
<1>6. ASSUME NEW t \in Token, RegisterSource(t)
      PROVE  TakesCommand /\ Head(queue) = New(t)
  BY <1>6, Registers
<1>7. CASE UNCHANGED sources
  <2>1. \/ UNCHANGED interest
        \/ AcceptFails \/ CloseListener
        \/ \E t \in StreamToken : ReadFails(t) \/ WriteFails(t) \/ CloseStream(t)
        \/ \E t \in Token : RegisterSource(t) \/ ReregisterSource(t) \/ CheckCloses(t)
    BY EpollChanges DEF Connect, SendPiece, FinishSending, Reset, ReadPiece, TypeLine,
                        PollReturns, epollVars
  <2> QED
    BY <1>1, <1>2, <1>3, <1>4, <1>6, <1>7, <2>1
<1> QED
  BY <1>2, <1>3, <1>4, <1>5, <1>6, <1>7, SourcesChange

(* Events are handled one by one, and come from what is ready.             *)
LEMMA BatchSteps ==
    ASSUME Next
    PROVE  \/ batch' \subseteq batch
           \/ PollReturns /\ batch' \subseteq Fired
BY DEF Next, LoopStep, FaultStep, MainStep, ClientStep, ExecuteCommand, HandleStream,
       Connect, SendPiece, FinishSending, Reset, ReadPiece, TypeLine, Expire,
       SubmitListener, SubmitStdin, PollReturns, PollFails,
       AcceptPanics, WaitForLine, EventWithoutSource,
       AcceptAll, AcceptFails, HandleLine, HandleLineFails, ReadPart,
       ReadFullRequest, ReadRejected, ReadFails, ReadPanics, ReadHangs, WritePart,
       WriteDone, WriteFails, BatchDone, RegisterSource, ReregisterSource,
       CloseListener, CloseStream, AlreadyClosed, CheckCloses, CheckResubmits,
       CheckEnds, CommandFails, CommandsDone, Resubmit, NextIteration,
       LineHandled, loopVars, Handling, Executed

(* A token is put on epoll's list where its interests are, or are set.     *)
LEMMA ReadySteps ==
    ASSUME Base, Next, NEW t \in ready', t \notin ready
    PROVE  interest'[t] # "none"
<1>0. interest \in [Token -> {"none", "readable", "writable"}] /\ ready \in SUBSET Token
  BY DEF Base, TypeOK
<1>1. ASSUME NEW c \in Conn, \/ \E k \in RequestKinds : Connect(c, k)
                             \/ SendPiece(c) \/ FinishSending(c)
                             \/ Reset(c) \/ ReadPiece(c)
      PROVE  UNCHANGED interest /\ interest[t] # "none"
  BY <1>0, <1>1, TokenFacts
     DEF Connect, SendPiece, FinishSending, Reset, ReadPiece, Edge
<1>2. ASSUME NEW l \in LineKinds, TypeLine(l)
      PROVE  UNCHANGED interest /\ interest[t] # "none"
  BY <1>0, <1>2, TokenFacts DEF TypeLine
<1>3. ASSUME NEW u \in Token, Unregister(u)
      PROVE  FALSE
  BY <1>3 DEF Unregister
<1>4. ASSUME NEW u \in Token, RegisterSource(u) \/ ReregisterSource(u)
      PROVE  interest'[t] # "none"
  BY <1>0, <1>4 DEF RegisterSource, ReregisterSource, Register, epollVars
<1>5. ~PollReturns /\ ready' # ready
  BY DEF PollReturns, Fired
<1>6. ASSUME NEW u \in Token,
             \/ u \in StreamToken /\ (ReadFails(u) \/ WriteFails(u) \/ CloseStream(u))
             \/ CheckCloses(u)
      PROVE  Unregister(u)
  BY <1>6 DEF ReadFails, WriteFails, CloseStream, CheckCloses, Drop
<1>7. CASE AcceptFails \/ CloseListener
  BY <1>3, <1>7, TokenFacts DEF AcceptFails, CloseListener
<1> QED
  BY <1>1, <1>2, <1>3, <1>4, <1>5, <1>6, <1>7, EpollChanges, TokenFacts DEF epollVars

(* Commands of the channel stay there until they are executed.             *)
LEMMA PendingStays ==
    ASSUME Base, Next, NEW r, Pending(r), ~Pending(r)'
    PROVE  TakesCommand /\ r = Head(queue) /\ \E t \in Token : ExecuteCommand(t)
<1>1. ~AcceptAll
  BY PendingAccept
<1>2. ~\E q \in Command : Submits(q)
  BY PendingAppend DEF Submits
<1>3. queue' # queue
  BY DEF Pending
<1>4. TakesCommand /\ \E t \in Token : ExecuteCommand(t)
  BY <1>1, <1>2, <1>3, QueueCases
<1> QED
  BY <1>4, PendingTail

(* Requests to modify or to close come from handlers.                      *)
LEMMA PendingComes ==
    ASSUME Base, Commanded, Next, NEW t \in StreamToken
    PROVE  /\ Pending(ModifyInterests(t))' => Pending(ModifyInterests(t)) \/ ReadFullRequest(t)
           /\ Pending(CloseSource(t))' => Pending(CloseSource(t)) \/ ReadRejected(t) \/ WriteDone(t)
<1>0. \A u : /\ ModifyInterests(t) \notin {New(u), CheckTimeout(u), CloseSource(u)}
             /\ CloseSource(t) \notin {New(u), CheckTimeout(u), ModifyInterests(u)}
             /\ ModifyInterests(t) = ModifyInterests(u) => t = u
             /\ CloseSource(t) = CloseSource(u) => t = u
  BY DEF New, CheckTimeout, ModifyInterests, CloseSource
<1>1. CASE AcceptAll
  BY <1>0, <1>1, PendingAccept
<1>2. CASE TakesCommand
  BY <1>2, PendingTail
<1>3. ASSUME NEW q \in Command, Submits(q)
      PROVE  /\ Pending(ModifyInterests(t))' => Pending(ModifyInterests(t)) \/ ReadFullRequest(t)
             /\ Pending(CloseSource(t))' => Pending(CloseSource(t)) \/ ReadRejected(t) \/ WriteDone(t)
  <2>1. t # ListenerToken
    BY TokenFacts
  <2>2. q = ModifyInterests(t) => ReadFullRequest(t)
    BY <1>0, <1>3 DEF Submits
  <2>3. q = CloseSource(t) => ReadRejected(t) \/ WriteDone(t)
    BY <1>0, <1>3, <2>1 DEF Submits
  <2> QED
    BY <1>3, <2>2, <2>3, PendingAppend DEF Submits
<1>4. CASE queue' = queue
  <2>1. /\ Pending(ModifyInterests(t))' <=> Pending(ModifyInterests(t))
        /\ Pending(CloseSource(t))' <=> Pending(CloseSource(t))
    BY <1>4 DEF Pending, ModifyInterests, CloseSource
  <2> QED
    BY <2>1
<1> QED
  BY <1>1, <1>2, <1>3, <1>4, QueueCases

(* A command on a stream at the head of the channel does what it says.     *)
LEMMA ExecutesHead ==
    ASSUME Base, NEW t \in StreamToken, NEW u \in Token, ExecuteCommand(u), TakesCommand
    PROVE  /\ Head(queue) = New(t) => RegisterSource(t)
           /\ Head(queue) = ModifyInterests(t) => ReregisterSource(t)
           /\ Head(queue) = CloseSource(t) => CloseStream(t) \/ AlreadyClosed(t)
           /\ Head(queue) = CheckTimeout(t) => CheckCloses(t) \/ CheckResubmits(t) \/ CheckEnds(t)
BY TokenFacts DEF ExecuteCommand, RegisterSource, ReregisterSource, AlreadyClosed, CloseStream,
    CloseListener, CheckCloses, CheckResubmits, CheckEnds, Executing,
    New, ModifyInterests, CloseSource, CheckTimeout

(* Only streams that are written ask for other interests.                  *)
LEMMA ModifiesWritersNext ==
    ASSUME Base, Commanded, Watched, Next
    PROVE  ModifiesWriters'
<1> SUFFICES ASSUME NEW t \in StreamToken, Pending(ModifyInterests(t))', sources'[t] = "read"
             PROVE  FALSE
  BY DEF ModifiesWriters
<1>0. t \in Token /\ sources \in [Token -> {"none", "listener", "stdin", "read", "write", "close"}]
  BY TokenFacts DEF Base, TypeOK
<1>1. CASE RegisterSource(t)
  <2>1. TakesCommand /\ Pending(New(t))
    BY <1>0, <1>1, Registers, PendingTail
  <2>2. ~Pending(ModifyInterests(t))
    BY <2>1 DEF Commanded, NewChecked
  <2> QED
    BY <2>1, <2>2, PendingTail
<1>2. CASE sources[t] = "read"
  <2>1. ReadFullRequest(t)
    BY <1>2, PendingComes DEF Watched, ModifiesWriters
  <2> QED
    BY <1>0, <2>1 DEF ReadFullRequest
<1> QED
  BY <1>0, <1>1, <1>2, SourcesGrow

(* One source at a time changes, and its interests with it.                *)
LEMMA InterestNext ==
    ASSUME Base, Commanded, Watched, Next
    PROVE  InterestMatchesState'
<1> SUFFICES ASSUME NEW t \in Token \ {StdinToken}
             PROVE  /\ sources'[t] = "none" <=> interest'[t] = "none"
                    /\ sources'[t] \in {"listener", "read"} => interest'[t] = "readable"
                    /\ sources'[t] = "write" =>
                          interest'[t] = "writable" \/ Pending(ModifyInterests(t))'
                    /\ sources'[t] = "close" => Pending(CloseSource(t))'
                    /\ loopPc' = "poll" => ~Pending(ModifyInterests(t))' /\ ~Pending(CloseSource(t))'
  BY DEF InterestMatchesState
<1>0. /\ sources \in [Token -> {"none", "listener", "stdin", "read", "write", "close"}]
      /\ interest \in [Token -> {"none", "readable", "writable"}]
      /\ t \in StreamToken \/ t = ListenerToken
      /\ ListenerToken \notin StreamToken /\ StreamToken \subseteq Token
      /\ sources[ListenerToken] \in {"none", "listener"}
  BY TokenFacts DEF Base, TypeOK, SourcesKnown
<1>1. loopPc' = "poll" => ~Pending(ModifyInterests(t))' /\ ~Pending(CloseSource(t))'
  <2>1. ModifyInterests(t).op = "modify" /\ CloseSource(t).op = "close"
    BY CommandFacts
  <2>2. CommandsOfIteration'
    BY CommandsOfIterationNext
  <2>3. ASSUME NEW q, q.op \in {"modify", "close"}, loopPc' = "poll"
        PROVE  ~Pending(q)'
    BY <2>2, <2>3 DEF CommandsOfIteration, Pending
  <2> QED
    BY <2>1, <2>3
<1>2. /\ sources[t] = "none" <=> interest[t] = "none"
      /\ sources[t] \in {"listener", "read"} => interest[t] = "readable"
      /\ sources[t] = "write" => interest[t] = "writable" \/ Pending(ModifyInterests(t))
      /\ sources[t] = "close" => Pending(CloseSource(t))
  BY DEF Watched, InterestMatchesState
<1>3. ASSUME sources'[t] = sources[t], interest'[t] = interest[t]
      PROVE  /\ sources'[t] = "none" <=> interest'[t] = "none"
             /\ sources'[t] \in {"listener", "read"} => interest'[t] = "readable"
             /\ sources'[t] = "write" =>
                   interest'[t] = "writable" \/ Pending(ModifyInterests(t))'
             /\ sources'[t] = "close" => Pending(CloseSource(t))'
  <2>1. ASSUME sources[t] = "write", interest[t] # "writable"
        PROVE  Pending(ModifyInterests(t))'
    <3>1. Pending(ModifyInterests(t)) /\ t \in StreamToken
      BY <1>0, <1>2, <2>1
    <3>2. CASE TakesCommand /\ Head(queue) = ModifyInterests(t) /\ \E u \in Token : ExecuteCommand(u)
      <4>1. ReregisterSource(t)
        BY <3>1, <3>2, ExecutesHead
      <4>2. interest'[t] = "writable"
        BY <1>0, <2>1, <3>1, <4>1 DEF ReregisterSource, Register
      <4> QED
        BY <1>3, <2>1, <4>2
    <3> QED
      BY <3>1, <3>2, PendingStays
  <2>2. ASSUME sources[t] = "close"
        PROVE  Pending(CloseSource(t))'
    <3>1. Pending(CloseSource(t)) /\ t \in StreamToken
      BY <1>0, <1>2, <2>2
    <3>2. CASE TakesCommand /\ Head(queue) = CloseSource(t) /\ \E u \in Token : ExecuteCommand(u)
      <4>1. CloseStream(t) \/ AlreadyClosed(t)
        BY <3>1, <3>2, ExecutesHead
      <4>2. sources'[t] = "none"
        BY <1>0, <2>2, <3>1, <4>1 DEF CloseStream, AlreadyClosed, Drop
      <4> QED
        BY <1>3, <2>2, <4>2
    <3> QED
      BY <3>1, <3>2, PendingStays
  <2> QED
    BY <1>2, <1>3, <2>1, <2>2
<1>4. ASSUME NEW u \in Token, Dropped(u)
      PROVE  IF u = t THEN sources'[t] = "none" /\ interest'[t] = "none"
                      ELSE sources'[t] = sources[t] /\ interest'[t] = interest[t]
  BY <1>0, <1>4 DEF Dropped, Unregister
<1>5. ASSUME NEW u \in StreamToken, ReadFullRequest(u)
      PROVE  IF u = t THEN /\ sources'[t] = "write" /\ interest'[t] # "none"
                           /\ Pending(ModifyInterests(t))'
                      ELSE sources'[t] = sources[t] /\ interest'[t] = interest[t]
  <2>1. /\ sources[u] = "read" /\ sources' = [sources EXCEPT ![u] = "write"]
        /\ UNCHANGED interest /\ queue' = Append(queue, ModifyInterests(u))
    BY <1>5 DEF ReadFullRequest, Handling, AskWritable, epollVars
  <2>2. Pending(ModifyInterests(u))'
    BY <1>0, <2>1, PendingAppend, CommandFacts
  <2> QED
    BY <1>0, <1>2, <2>1, <2>2
<1>6. ASSUME NEW u \in StreamToken, WriteDone(u)
      PROVE  IF u = t THEN /\ sources'[t] = "close" /\ interest'[t] # "none"
                           /\ Pending(CloseSource(t))'
                      ELSE sources'[t] = sources[t] /\ interest'[t] = interest[t]
  <2>1. /\ sources[u] = "write" /\ sources' = [sources EXCEPT ![u] = "close"]
        /\ UNCHANGED interest /\ queue' = Append(queue, CloseSource(u))
    BY <1>6 DEF WriteDone, Handling, epollVars
  <2>2. Pending(CloseSource(u))'
    BY <1>0, <2>1, PendingAppend, CommandFacts
  <2> QED
    BY <1>0, <1>2, <2>1, <2>2
<1>7. ASSUME NEW u \in Token, RegisterSource(u)
      PROVE  IF u = t THEN sources'[t] \in {"listener", "read"} /\ interest'[t] = "readable"
                      ELSE sources'[t] = sources[t] /\ interest'[t] = interest[t]
  BY <1>0, <1>7 DEF RegisterSource, Register, SourceOf
<1>8. ASSUME NEW u \in StreamToken, ReregisterSource(u), Head(queue) = ModifyInterests(u),
             TakesCommand, sources[u] # "none"
      PROVE  IF u = t THEN /\ sources'[t] = sources[t] /\ sources[t] \notin {"listener", "read"}
                           /\ interest'[t] = "writable"
                      ELSE sources'[t] = sources[t] /\ interest'[t] = interest[t]
  <2>1. Pending(ModifyInterests(u))
    BY <1>8, PendingTail
  <2>2. sources[u] \notin {"listener", "read"}
    BY <2>1 DEF Watched, ModifiesWriters, Base, SourcesKnown
  <2>3. UNCHANGED sources /\ interest' = [interest EXCEPT ![u] = "writable"]
    BY <1>8 DEF ReregisterSource, Register, sourceVars
  <2> QED
    BY <1>0, <2>2, <2>3
<1>9. ASSUME NEW u \in StreamToken, ReregisterSource(u), u = t, sources[t] = "close",
             Head(queue) = ModifyInterests(u), TakesCommand
      PROVE  Pending(CloseSource(t))'
  <2>1. Head(queue) # CloseSource(t)
    BY <1>9 DEF CloseSource, ModifyInterests
  <2> QED
    BY <1>2, <1>9, <2>1, PendingStays
<1> QED
  BY <1>0, <1>1, <1>2, <1>3, <1>4, <1>5, <1>6, <1>7, <1>8, <1>9, WatchSteps

(* Every step keeps the layer about epoll and the map.                     *)
LEMMA WatchedNext ==
    ASSUME Base, Commanded, Watched, [Next]_vars
    PROVE  Watched'
<1>0. /\ sources \in [Token -> {"none", "listener", "stdin", "read", "write", "close"}]
      /\ interest \in [Token -> {"none", "readable", "writable"}]
      /\ batch \in SUBSET Token /\ ready \in SUBSET Token
      /\ \A t \in Token \ {StdinToken} : sources[t] = "none" <=> interest[t] = "none"
      /\ \A t \in ready : interest[t] # "none"
      /\ \A t \in batch : /\ t # StdinToken => sources[t] # "none"
                          /\ t = StdinToken => interest[t] # "none"
      /\ loopPc = "commands" => batch = {}
      /\ StreamToken \subseteq Token \ {StdinToken}
  BY TokenFacts DEF Base, TypeOK, Watched, InterestMatchesState, Commanded, CommandsOfIteration
<1>1. CASE Next
  <2>1. ASSUME NEW t \in Token, interest[t] # "none", interest'[t] = "none"
        PROVE  t \notin ready' /\ t # StdinToken
    <3>1. \E u \in Token \ {StdinToken} : Dropped(u)
      BY <1>0, <1>1, <2>1, WatchSteps
         DEF ReadFullRequest, WriteDone, RegisterSource, ReregisterSource, Register, epollVars
    <3>2. PICK u \in Token \ {StdinToken} : Dropped(u)
      BY <3>1
    <3> QED
      BY <1>0, <2>1, <3>2 DEF Dropped, Unregister
  <2>2. ASSUME NEW t \in ready'
        PROVE  interest'[t] # "none"
    BY <1>0, <1>1, <2>1, <2>2, ReadySteps, EpollTyped
  <2>3. ASSUME NEW t \in Token \ {StdinToken}, sources[t] # "none", sources'[t] = "none"
        PROVE  t \notin batch'
    <3>1. Dropped(t)
      <4>1. \A u \in Token : RegisterSource(u) => sources'[t] # "none"
        BY <1>0, <2>3 DEF RegisterSource, SourceOf
      <4> QED
        BY <1>0, <1>1, <2>3, <4>1, WatchSteps
           DEF ReadFullRequest, WriteDone, ReregisterSource, Dropped, sourceVars
    <3>2. CASE Handling(t, sources[t])
      BY <3>2 DEF Handling
    <3>3. CASE TakesCommand
      BY <1>0, <1>1, <3>3, BatchSteps DEF TakesCommand, PollReturns
    <3> QED
      BY <3>1, <3>2, <3>3 DEF Dropped
  <2>4. ASSUME NEW t \in batch'
        PROVE  /\ t # StdinToken => sources'[t] # "none"
               /\ t = StdinToken => interest'[t] # "none"
    <3>1. t \in Token
      BY <1>1, ControlTyped
    <3>2. t \in batch \/ interest[t] # "none"
      BY <1>0, <1>1, <2>4, BatchSteps DEF Fired
    <3>3. t \in batch \/ PollReturns
      BY <1>1, <2>4, BatchSteps
    <3>4. PollReturns => UNCHANGED <<sources, interest>>
      BY DEF PollReturns, sourceVars
    <3> QED
      BY <1>0, <2>1, <2>3, <2>4, <3>1, <3>2, <3>3, <3>4
  <2> QED
    BY <1>1, <2>2, <2>4, ModifiesWritersNext, InterestNext DEF Watched
<1>2. CASE UNCHANGED vars
  BY <1>2 DEF vars, loopVars, sourceVars, commandVars, epollVars, Watched, InterestMatchesState,
              ModifiesWriters, Pending, ModifyInterests, CloseSource
<1> QED
  BY <1>1, <1>2

(* The layer about epoll and the map holds at the start.                   *)
LEMMA WatchedInit == Init => Watched
BY TokenFacts
   DEF Init, Watched, InterestMatchesState, ModifiesWriters, Pending

(* epoll watches exactly the sources in the map.                           *)
THEOREM SourcesWatched == Spec => []InterestMatchesState
<1>1. Init => Base /\ Commanded /\ Watched
  BY BaseInit, CommandedInit, WatchedInit
<1>2. Base /\ Commanded /\ Watched /\ [Next]_vars => (Base /\ Commanded /\ Watched)'
  BY BaseNext, CommandedNext, WatchedNext
<1>3. Watched => InterestMatchesState
  BY DEF Watched
<1> QED
  BY <1>1, <1>2, <1>3, PTL DEF Spec

(* No connection has two tokens, no token is registered twice.             *)
THEOREM TokensNameConnections == Spec => []TokensUnique
<1>1. Spec => [](Base /\ Commanded)
  BY BaseInit, BaseNext, CommandedInit, CommandedNext, PTL DEF Spec
<1>2. Base /\ Commanded => TokensUnique
  BY DEF Base, TokensNumbered, Commanded, NewOnce, TokensUnique
<1> QED
  BY <1>1, <1>2, PTL

(* Positions of something that is nowhere twice.                           *)
LEMMA PositionsOf ==
    ASSUME NEW n \in Nat, NEW P, P \subseteq 1..n, \A i, j \in P : i = j
    PROVE  /\ P = {} => Cardinality(P) = 0
           /\ P # {} => Cardinality(P) = 1
<1>1. P # {} => \E i \in P : P = {i}
  OBVIOUS
<1> QED
  BY <1>1, FS_EmptySet, FS_Singleton

(* A stream being read has exactly one timeout check, no stream has two,   *)
(* and none is ahead of its stream's registration.                         *)
THEOREM ReadersWatched == Spec => []EveryReaderWatched
<1>1. Spec => [](Base /\ Commanded)
  BY BaseInit, BaseNext, CommandedInit, CommandedNext, PTL DEF Spec
<1>2. ASSUME Base, Commanded
      PROVE  EveryReaderWatched
  <2>0. Len(queue) \in Nat /\ Len(resubmits) \in Nat
    BY <1>2 DEF Base, TypeOK
  <2>1. ASSUME NEW t \in StreamToken
        PROVE  /\ Checks(t) <= 1
               /\ sources[t] = "read" => Checks(t) = 1
    <3> DEFINE P == {i \in 1..Len(queue) : queue[i] = CheckTimeout(t)}
               R == {i \in 1..Len(resubmits) : resubmits[i] = t}
    <3>1. CheckTimeout(t).op = "check"
      BY TokenFacts, CommandFacts
    <3>2. \A i, j \in P : i = j
      BY <1>2, <3>1 DEF Commanded, CheckOnly
    <3>3. \A i, j \in R : i = j
      BY <1>2 DEF Commanded, CheckOnly
    <3>4. /\ P = {} <=> ~Pending(CheckTimeout(t))
          /\ R = {} <=> ~Resubmitting(t)
      BY DEF Pending, Resubmitting
    <3>5. P = {} \/ R = {}
      BY <1>2, <3>4 DEF Commanded, CheckOnly
    <3>6. sources[t] = "read" => P # {} \/ R # {}
      BY <1>2, <3>4 DEF Commanded, ReaderChecked
    <3>7. Checks(t) = Cardinality(P) + Cardinality(R)
      BY DEF Checks
    <3>8. /\ P = {} => Cardinality(P) = 0
          /\ P # {} => Cardinality(P) = 1
      BY <2>0, <3>2, PositionsOf
    <3>9. /\ R = {} => Cardinality(R) = 0
          /\ R # {} => Cardinality(R) = 1
      BY <2>0, <3>3, PositionsOf
    <3> HIDE DEF P, R
    <3> QED
      BY <3>5, <3>6, <3>7, <3>8, <3>9
  <2> QED
    BY <1>2, <2>1 DEF EveryReaderWatched, Commanded, CheckBehindNew
<1> QED
  BY <1>1, <1>2, PTL
-----------------------------------------------------------------------------
(* Requests and responses.                                                 *)

(* The source of a stream is submitted when the stream is accepted.        *)
LEMMA NewComes ==
    ASSUME Base, Commanded, Next, NEW t \in StreamToken, Pending(New(t))'
    PROVE  \/ Pending(New(t))
           \/ AcceptAll /\ \E k \in 1..Len(backlog) : t = tokenCounter + k
<1>1. CASE AcceptAll
  BY <1>1, PendingAccept DEF New, CheckTimeout
<1>2. CASE TakesCommand
  BY <1>2, PendingTail
<1>3. ASSUME NEW q \in Command, Submits(q)
      PROVE  Pending(New(t))
  <2>1. q # New(t)
    BY <1>3, SubmitsFacts, TokenFacts, CommandFacts
  <2> QED
    BY <1>3, <2>1, PendingAppend DEF Submits
<1>4. CASE queue' = queue
  <2>1. Pending(New(t))' <=> Pending(New(t))
    BY <1>4 DEF Pending, New
  <2> QED
    BY <2>1
<1> QED
  BY <1>1, <1>2, <1>3, <1>4, QueueCases

(* A step that touches nothing of the requests and responses.              *)
SameProgress(d) == /\ stream'[d].got = stream[d].got
                   /\ stream'[d].left = stream[d].left
                   /\ stream'[d].written = stream[d].written
                   /\ stream'[d].ended = stream[d].ended

(* A step that leaves the streams as they are keeps their progress.        *)
LEMMA ProgressKept ==
    ASSUME Base, Commanded, RequestsPartial, Next, \A d \in Conn : SameProgress(d),
           \/ HandleLineFails
           \/ \E t \in Token : RegisterSource(t)
           \/ UNCHANGED sources
    PROVE  RequestsPartial'
<1> USE ConstantsAssumption
<1>0. /\ connOf \in [StreamToken -> Conn \cup {NoConn}]
      /\ sources \in [Token -> {"none", "listener", "stdin", "read", "write", "close"}]
      /\ backlog \in Seq(Conn)
      /\ \A i \in 1..Len(backlog) : backlog[i] \in Conn
      /\ StreamToken \subseteq Token /\ StdinToken \notin StreamToken
  BY TokenFacts DEF Base, TypeOK
<1>1. ASSUME NEW t \in StreamToken
      PROVE  Progress(t)'
  <2>1. Progress(t)
    BY DEF RequestsPartial
  <2>2. ASSUME Pending(New(t))'
        PROVE  /\ connOf'[t] \in Conn /\ Untouched(connOf'[t])
               /\ stream[connOf'[t]].ended = "none"
    <3>1. CASE Pending(New(t))
      <4>1. connOf[t] \in Conn
        BY <1>0, <3>1, PendingFacts, TokenFacts, CommandFacts DEF CommandKnown
      <4>2. connOf'[t] = connOf[t]
        BY <4>1, ConnStays
      <4> QED
        BY <2>1, <3>1, <4>1, <4>2 DEF Progress, Untouched
    <3>2. ASSUME AcceptAll, NEW k \in 1..Len(backlog), t = tokenCounter + k
          PROVE  /\ connOf'[t] \in Conn /\ Untouched(connOf'[t])
                 /\ stream[connOf'[t]].ended = "none"
      <4>1. connOf'[t] = backlog[k] /\ backlog[k] \in Conn
        BY <1>0, <3>2, AcceptNumbers
      <4>2. \A u \in StreamToken : connOf[u] # backlog[k]
        BY DEF Base, BacklogFresh
      <4>3. Unserved(backlog[k])
        BY <4>1 DEF RequestsPartial
      <4>4. Untouched(backlog[k]) /\ stream[backlog[k]].ended = "none"
        BY <4>2, <4>3 DEF Unserved
      <4> QED
        BY <4>1, <4>4 DEF Untouched
    <3> QED
      BY <2>2, <3>1, <3>2, NewComes
  <2>3. CASE RegisterSource(t)
    <3>1. TakesCommand /\ Pending(New(t)) /\ Head(queue) = New(t)
      BY <1>0, <2>3, Registers, PendingTail
    <3>2. ~Pending(New(t))'
      BY <3>1, HeadOnce, TokenFacts, CommandFacts
    <3>3. connOf[t] \in Conn
      BY <1>0, <3>1, PendingFacts, TokenFacts, CommandFacts DEF CommandKnown
    <3>4. connOf'[t] = connOf[t]
      BY <3>3, ConnStays
    <3>5. sources'[t] = "read"
      BY <1>0, <2>3, TokenFacts DEF RegisterSource, SourceOf
    <3>6. stream[connOf[t]].ended = "none" /\ Untouched(connOf[t])
      BY <2>1, <3>1 DEF Progress
    <3>7. /\ stream'[connOf'[t]].ended = "none" /\ stream'[connOf'[t]].got = 0
          /\ stream'[connOf'[t]].written = 0
      BY <3>3, <3>4, <3>6 DEF Untouched, SameProgress
    <3> QED
      BY <3>2, <3>5, <3>7 DEF Progress
  <2>4. CASE ~RegisterSource(t)
    <3>1. sources'[t] = sources[t]
      BY <1>0, <2>4 DEF HandleLineFails, RegisterSource
    <3>2. sources[t] # "none" => connOf[t] \in Conn /\ connOf'[t] = connOf[t]
      BY SourceHasConn, ConnStays
    <3>3. sources[t] # "none" => SameProgress(connOf[t])
      BY <3>2
    <3>4. Pending(New(t))' => SameProgress(connOf'[t])
      BY <2>2
    <3> QED
      BY <2>1, <2>2, <3>1, <3>2, <3>3, <3>4 DEF Progress, Untouched, SameProgress
  <2> QED
    BY <2>3, <2>4
<1>2. ASSUME NEW c \in Conn
      PROVE  Unserved(c)'
  <2>1. Unserved(c) /\ SameProgress(c)
    BY DEF RequestsPartial
  <2>2. ASSUME NEW d \in Conn, NEW k \in RequestKinds, Connect(d, k)
        PROVE  Unserved(c)'
    <3>1. /\ d \notin Connected /\ Connected' = Connected \cup {d}
          /\ Len(backlog') = Len(backlog) + 1
          /\ \A i \in 1..Len(backlog) : backlog'[i] = backlog[i]
          /\ backlog'[Len(backlog) + 1] = d
          /\ UNCHANGED connOf
      BY <2>2, ConnectEffect
    <3>2. \A i \in 1..Len(backlog') : i \in 1..Len(backlog) \/ i = Len(backlog) + 1
      BY <1>0, <3>1
    <3>3. c = d => stream[c].ended = "none"
      BY <2>1, <3>1 DEF Unserved
    <3>4. ASSUME NEW i \in 1..Len(backlog'), backlog'[i] = c
          PROVE  stream[c].ended = "none"
      BY <2>1, <3>1, <3>2, <3>3, <3>4 DEF Unserved
    <3> QED
      BY <2>1, <3>1, <3>4 DEF Unserved, Untouched, SameProgress
  <2>3. CASE ~\E d \in Conn, k \in RequestKinds : Connect(d, k)
    <3>1. Connected' = Connected
      BY <2>3, KindsKept DEF Connected
    <3>2. backlog' = <<>> \/ backlog' = backlog
      BY <2>3, BacklogChanges, AcceptNumbers
    <3>3. (\A t \in StreamToken : connOf'[t] # c) => \A t \in StreamToken : connOf[t] # c
      BY ConnStays
    <3>4. ASSUME NEW i \in 1..Len(backlog'), backlog'[i] = c
          PROVE  stream[c].ended = "none"
      BY <2>1, <3>2, <3>4 DEF Unserved
    <3> QED
      BY <2>1, <3>1, <3>3, <3>4 DEF Unserved, Untouched, SameProgress
  <2> QED
    BY <2>2, <2>3
<1>3. ASSUME NEW c \in Conn
      PROVE  Written(c)'
  BY DEF RequestsPartial, Written, SameProgress
<1> QED
  BY <1>1, <1>2, <1>3 DEF RequestsPartial

(* A step that touches one stream, whose source is in the map.             *)
LEMMA OneStream ==
    ASSUME Base, Commanded, RequestsPartial, Next, NEW u \in StreamToken,
           sources[u] # "none",
           UNCHANGED <<connOf, backlog>>,
           \A d \in Conn \ {connOf[u]} : stream'[d] = stream[d],
           \A v \in StreamToken \ {u} : sources'[v] = sources[v],
           Progress(u)', stream'[connOf[u]].ended = "answered" =>
                            stream'[connOf[u]].written = ResponsePieces,
           ~AcceptAll
    PROVE  RequestsPartial'
<1> USE ConstantsAssumption
<1>0. /\ connOf \in [StreamToken -> Conn \cup {NoConn}]
      /\ backlog \in Seq(Conn)
      /\ connOf[u] \in Conn /\ connOf[u] \in Connected
      /\ \A i \in 1..Len(backlog) : backlog[i] # connOf[u]
      /\ \A v \in StreamToken : connOf[v] = connOf[u] => v = u
      /\ \A v \in StreamToken : sources[v] # "none" => connOf[v] # NoConn
  BY SourceHasConn DEF Base, TypeOK, TokensNumbered, BacklogFresh, SourcesKnown
<1>1. Connected' = Connected
  <2>1. ~\E c \in Conn, k \in RequestKinds : Connect(c, k)
    BY <1>0, AppendProperties DEF Connect
  <2> QED
    BY <2>1, KindsKept DEF Connected
<1>2. ASSUME NEW v \in StreamToken, v # u
      PROVE  Progress(v)'
  <2>1. Progress(v)
    BY DEF RequestsPartial
  <2>2. Pending(New(v))' => Pending(New(v)) /\ connOf[v] # NoConn
    BY NewComes, PendingFacts, TokenFacts, CommandFacts DEF CommandKnown
  <2>3. connOf[v] # NoConn => connOf[v] \in Conn \ {connOf[u]}
    BY <1>0, <1>2
  <2>4. connOf'[v] = connOf[v] /\ sources'[v] = sources[v]
    BY <1>2
  <2>5. connOf[v] # NoConn => stream'[connOf'[v]] = stream[connOf[v]]
    BY <2>3, <2>4
  <2> QED
    BY <1>0, <2>1, <2>2, <2>4, <2>5 DEF Progress, Untouched
<1>3. ASSUME NEW c \in Conn, c # connOf[u]
      PROVE  Unserved(c)' /\ Written(c)'
  <2>1. Unserved(c) /\ Written(c) /\ stream'[c] = stream[c]
    BY <1>3 DEF RequestsPartial
  <2> QED
    BY <1>1, <2>1 DEF Unserved, Untouched, Written
<1>4. ASSUME NEW c \in Conn, c = connOf[u]
      PROVE  Unserved(c)' /\ Written(c)'
  BY <1>0, <1>1, <1>4 DEF Unserved, Written
<1> QED
  BY <1>2, <1>3, <1>4 DEF RequestsPartial

(* Handling another event, or executing a command, is not accepting.       *)
LEMMA NotAccepting ==
    ASSUME NEW u \in StreamToken, NEW what, Handling(u, what) \/ TakesCommand
    PROVE  ~AcceptAll
BY TokenFacts DEF Handling, TakesCommand, AcceptAll

(* A source in the map is not submitted any more.                          *)
LEMMA NewGone ==
    ASSUME Base, Commanded, Next, NEW u \in StreamToken, sources[u] # "none", ~AcceptAll
    PROVE  ~Pending(New(u))'
<1>1. ~Pending(New(u))
  BY TokenFacts, CommandFacts DEF Commanded, NewOnce, Pending
<1> QED
  BY <1>1, NewComes

(* Refusing the backlog touches no connection that has a token.            *)
LEMMA BacklogEnds ==
    ASSUME Base, Commanded, RequestsPartial, Next, AcceptFails \/ CloseListener
    PROVE  RequestsPartial'
<1> USE ConstantsAssumption
<1>0. /\ stream \in [Conn -> StreamState]
      /\ connOf \in [StreamToken -> Conn \cup {NoConn}]
      /\ sources \in [Token -> {"none", "listener", "stdin", "read", "write", "close"}]
      /\ StreamToken \subseteq Token /\ ListenerToken \notin StreamToken
      /\ \A i \in 1..Len(backlog) :
            backlog[i] \in Connected /\ \A t \in StreamToken : connOf[t] # backlog[i]
  <2>1. ListenerToken \notin StreamToken /\ ListenerToken \in Token /\ StreamToken \subseteq Token
    BY TokenFacts
  <2> QED
    BY <2>1 DEF Base, TypeOK, BacklogFresh
<1>1. PICK how \in {"dropped", "refused"} : stream' = EndBacklog(how)
  BY DEF AcceptFails, CloseListener
<1>2. /\ backlog' = <<>> /\ UNCHANGED <<connOf, tcp>>
      /\ sources' = [sources EXCEPT ![ListenerToken] = "none"]
      /\ ~AcceptAll
  <2>1. sources[ListenerToken] # "none" /\ sources' = [sources EXCEPT ![ListenerToken] = "none"]
    BY DEF AcceptFails, CloseListener, Handling
  <2>2. sources' # sources
    BY <1>0, <2>1, TokenFacts
  <2>3. ~AcceptAll
    BY <2>2 DEF AcceptAll
  <2> QED
    BY <2>1, <2>3 DEF AcceptFails, CloseListener
<1>3. Connected' = Connected
  BY <1>2 DEF Connected
<1>4. ASSUME NEW c \in Conn
      PROVE  /\ stream'[c].got = stream[c].got /\ stream'[c].left = stream[c].left
             /\ stream'[c].written = stream[c].written
             /\ \/ stream'[c].ended = stream[c].ended
                \/ /\ stream'[c].ended = how
                   /\ \E i \in 1..Len(backlog) : backlog[i] = c
  BY <1>0, <1>1 DEF EndBacklog, StreamState
<1>5. ASSUME NEW t \in StreamToken
      PROVE  Progress(t)'
  <2>1. Progress(t) /\ sources'[t] = sources[t] /\ connOf'[t] = connOf[t]
    BY <1>0, <1>2 DEF RequestsPartial
  <2>2. Pending(New(t))' => Pending(New(t)) /\ connOf[t] # NoConn
    BY <1>2, NewComes, PendingFacts, TokenFacts, CommandFacts DEF CommandKnown
  <2>3. sources[t] # "none" => connOf[t] # NoConn
    BY DEF Base, SourcesKnown
  <2>4. connOf[t] # NoConn => SameProgress(connOf[t])
    BY <1>0, <1>4 DEF SameProgress
  <2> QED
    BY <2>1, <2>2, <2>3, <2>4 DEF Progress, Untouched, SameProgress
<1>6. ASSUME NEW c \in Conn
      PROVE  Unserved(c)' /\ Written(c)'
  <2>1. Unserved(c) /\ Written(c)
    BY DEF RequestsPartial
  <2>2. c \notin Connected => stream'[c].ended = "none"
    BY <1>0, <1>4, <2>1 DEF Unserved
  <2> QED
    BY <1>2, <1>3, <1>4, <2>1, <2>2 DEF Unserved, Written, Untouched
<1> QED
  BY <1>5, <1>6 DEF RequestsPartial

(* The source is dropped: what is closed as answered was written.          *)
LEMMA StreamDropped ==
    ASSUME Base, Commanded, RequestsPartial, Next, NEW u \in StreamToken, NEW how,
           sources[u] # "none", Drop(u, how), how = "answered" => sources[u] = "close",
           UNCHANGED <<connOf, backlog>>, ~AcceptAll
    PROVE  RequestsPartial'
<1>0. /\ stream \in [Conn -> StreamState] /\ connOf[u] \in Conn
      /\ sources \in [Token -> {"none", "listener", "stdin", "read", "write", "close"}]
      /\ StreamToken \subseteq Token
      /\ Progress(u)
  BY SourceHasConn, TokenFacts DEF Base, TypeOK, RequestsPartial
<1>1. /\ sources' = [sources EXCEPT ![u] = "none"]
      /\ stream' = [stream EXCEPT ![connOf[u]].ended = how]
  BY DEF Drop
<1>2. /\ \A d \in Conn \ {connOf[u]} : stream'[d] = stream[d]
      /\ stream'[connOf[u]].ended = how
      /\ stream'[connOf[u]].written = stream[connOf[u]].written
  BY <1>0, <1>1 DEF StreamState
<1>3. sources'[u] = "none" /\ \A v \in StreamToken \ {u} : sources'[v] = sources[v]
  BY <1>0, <1>1
<1>4. how = "answered" => stream[connOf[u]].written = ResponsePieces
  <2>1. stream[connOf[u]].written \in Nat
    BY <1>0 DEF StreamState
  <2> QED
    BY <1>0, <2>1 DEF Progress
<1>5. Progress(u)'
  BY <1>3, NewGone DEF Progress
<1> QED
  BY <1>2, <1>3, <1>4, <1>5, OneStream

(* Every step keeps the layer about requests and responses.                *)
LEMMA RequestsPartialNext ==
    ASSUME Base, Commanded, Watched, RequestsPartial, [Next]_vars
    PROVE  RequestsPartial'
<1> USE ConstantsAssumption
<1>0. /\ stream \in [Conn -> StreamState] /\ tcp \in [Conn -> Socket]
      /\ sources \in [Token -> {"none", "listener", "stdin", "read", "write", "close"}]
      /\ StreamToken \subseteq Token
      /\ \A t \in StreamToken : Progress(t)
  BY TokenFacts DEF Base, TypeOK, RequestsPartial
<1>1. ASSUME Next, NEW u \in StreamToken, ReadPart(u)
      PROVE  RequestsPartial'
  <2> DEFINE c == connOf[u]
             n == tcp[c].inbox
  <2>1. /\ sources[u] = "read" /\ c \in Conn /\ ~AcceptAll
        /\ UNCHANGED <<connOf, backlog, sources>>
        /\ stream' = [stream EXCEPT ![c].got = @ + n]
        /\ ~(stream[c].got + n >= RequestPieces)
    BY <1>1, SourceHasConn, NotAccepting DEF ReadPart, Handling, Complete
  <2>2. n \in Nat /\ stream[c].got \in Nat
    BY <1>0, <2>1 DEF Socket, StreamState
  <2> HIDE DEF n, c
  <2>3. /\ \A d \in Conn \ {c} : stream'[d] = stream[d]
        /\ stream'[c].got = stream[c].got + n
        /\ stream'[c].written = stream[c].written
        /\ stream'[c].ended = stream[c].ended
    BY <1>0, <2>1 DEF StreamState
  <2>4. stream'[c].got < RequestPieces
    BY <2>1, <2>2, <2>3
  <2>5. connOf'[u] = c
    BY <2>1 DEF c
  <2>6. stream[c].ended = "none" /\ stream[c].written = 0
    BY <1>0, <2>1 DEF Progress, c
  <2>7. Progress(u)'
    BY <1>1, <2>1, <2>3, <2>4, <2>5, <2>6, NewGone DEF Progress
  <2> QED
    BY <1>1, <2>1, <2>3, <2>6, <2>7, OneStream DEF c
<1>2. ASSUME Next, NEW u \in StreamToken, ReadFullRequest(u)
      PROVE  RequestsPartial'
  <2> DEFINE c == connOf[u]
  <2>1. /\ sources[u] = "read" /\ c \in Conn /\ ~AcceptAll
        /\ UNCHANGED <<connOf, backlog>>
        /\ sources' = [sources EXCEPT ![u] = "write"]
        /\ stream' = [stream EXCEPT ![c].got = RequestPieces, ![c].left = ResponsePieces]
    BY <1>2, SourceHasConn, NotAccepting DEF ReadFullRequest, Handling
  <2> HIDE DEF c
  <2>2. /\ \A d \in Conn \ {c} : stream'[d] = stream[d]
        /\ stream'[c].left = ResponsePieces
        /\ stream'[c].written = stream[c].written
        /\ stream'[c].ended = stream[c].ended
    BY <1>0, <2>1 DEF StreamState
  <2>3. sources'[u] = "write" /\ \A v \in StreamToken \ {u} : sources'[v] = sources[v]
    BY <1>0, <2>1
  <2>4. connOf'[u] = c
    BY <2>1 DEF c
  <2>5. stream[c].ended = "none" /\ stream[c].written = 0
    BY <1>0, <2>1 DEF Progress, c
  <2>6. Progress(u)'
    BY <1>2, <2>1, <2>2, <2>3, <2>4, <2>5, NewGone DEF Progress
  <2> QED
    BY <1>2, <2>1, <2>2, <2>3, <2>5, <2>6, OneStream DEF c
<1>3. ASSUME Next, NEW u \in StreamToken, ReadRejected(u)
      PROVE  RequestsPartial'
  <2> DEFINE c == connOf[u]
  <2>1. /\ sources[u] = "read" /\ c \in Conn /\ ~AcceptAll
        /\ UNCHANGED <<connOf, backlog, sources>>
        /\ stream' = [stream EXCEPT ![c].got = 0]
    BY <1>3, SourceHasConn, NotAccepting DEF ReadRejected, Handling
  <2> HIDE DEF c
  <2>2. /\ \A d \in Conn \ {c} : stream'[d] = stream[d]
        /\ stream'[c].got = 0
        /\ stream'[c].written = stream[c].written
        /\ stream'[c].ended = stream[c].ended
    BY <1>0, <2>1 DEF StreamState
  <2>3. connOf'[u] = c
    BY <2>1 DEF c
  <2>4. stream[c].ended = "none" /\ stream[c].written = 0
    BY <1>0, <2>1 DEF Progress, c
  <2>5. Progress(u)'
    BY <1>3, <2>1, <2>2, <2>3, <2>4, NewGone DEF Progress
  <2> QED
    BY <1>3, <2>1, <2>2, <2>4, <2>5, OneStream DEF c
<1>4. ASSUME Next, NEW u \in StreamToken, WritePart(u) \/ WriteDone(u)
      PROVE  RequestsPartial'
  <2> DEFINE c == connOf[u]
  <2>1. /\ sources[u] = "write" /\ ~AcceptAll
        /\ UNCHANGED <<connOf, backlog>>
        /\ \/ UNCHANGED sources
           \/ /\ sources' = [sources EXCEPT ![u] = "close"]
              /\ stream[c].left = Takes(c)
    BY <1>4, NotAccepting DEF WritePart, WriteDone, Handling, Takes
  <2>2. /\ c \in Conn /\ Takes(c) \in 0..stream[c].left
        /\ \A d \in Conn \ {c} : stream'[d] = stream[d]
        /\ stream'[c].left = stream[c].left - Takes(c)
        /\ stream'[c].written = stream[c].written + Takes(c)
        /\ stream'[c].ended = stream[c].ended
    BY <1>4, WriteEffect
  <2> HIDE DEF c
  <2>3. stream[c].left \in Nat /\ stream[c].written \in Nat
    BY <1>0, <2>2 DEF StreamState
  <2>4. connOf'[u] = c
    BY <2>1 DEF c
  <2>5. stream[c].ended = "none" /\ stream[c].written + stream[c].left = ResponsePieces
    BY <1>0, <2>1 DEF Progress, c
  <2>6. /\ sources'[u] \in {"write", "close"}
        /\ sources'[u] = "close" => stream'[c].left = 0
        /\ \A v \in StreamToken \ {u} : sources'[v] = sources[v]
    BY <1>0, <2>1, <2>2, <2>3
  <2>7. stream'[c].written + stream'[c].left = ResponsePieces
    BY <2>2, <2>3, <2>5
  <2>8. Progress(u)'
    BY <1>4, <2>1, <2>2, <2>4, <2>5, <2>6, <2>7, NewGone DEF Progress
  <2> QED
    BY <1>4, <2>1, <2>2, <2>5, <2>6, <2>8, OneStream DEF c
<1>5. ASSUME Next, NEW u \in StreamToken, ReadFails(u) \/ WriteFails(u) \/ CloseStream(u)
      PROVE  RequestsPartial'
  <2>1. PICK how : /\ Drop(u, how)
                   /\ how = "answered" => sources[u] = "close"
                   /\ UNCHANGED <<connOf, backlog>> /\ sources[u] # "none"
    BY <1>5 DEF ReadFails, WriteFails, CloseStream, Handling
  <2>2. ~AcceptAll
    BY <1>5, NotAccepting, Executes, TokenFacts DEF ReadFails, WriteFails, CloseStream, Ops
  <2> QED
    BY <1>5, <2>1, <2>2, StreamDropped
<1>6. ASSUME Next, NEW u \in Token, CheckCloses(u)
      PROVE  RequestsPartial'
  <2>1. /\ Drop(u, "timedOut") /\ sources[u] = "read" /\ u \in StreamToken
        /\ UNCHANGED <<connOf, backlog>>
    BY <1>6, TokenFacts DEF CheckCloses, Base, SourcesKnown
  <2>2. ~AcceptAll
    BY <1>6, <2>1, NotAccepting, Executes DEF CheckCloses, Ops
  <2> QED
    BY <1>6, <2>1, <2>2, StreamDropped
<1>7. ASSUME Next, NEW c \in Conn, Expire(c)
      PROVE  RequestsPartial'
  <2>1. \A d \in Conn : SameProgress(d)
    BY <1>0, <1>7 DEF Expire, SameProgress, StreamState
  <2> QED
    BY <1>7, <2>1, ProgressKept DEF Expire
<1>8. ASSUME Next, UNCHANGED stream,
             \A t \in StreamToken : /\ ~ReadFullRequest(t) /\ ~ReadFails(t) /\ ~WriteDone(t)
                                    /\ ~WriteFails(t) /\ ~CloseStream(t),
             \A t \in Token : ~CheckCloses(t), ~AcceptFails, ~CloseListener
      PROVE  RequestsPartial'
  BY <1>8, ProgressKept, SourcesChange DEF SameProgress
<1>9. CASE UNCHANGED vars
  BY <1>9 DEF vars, loopVars, sourceVars, commandVars, RequestsPartial, Progress, Pending, New,
              Untouched, Unserved, Written, Connected
<1> QED
  BY <1>1, <1>2, <1>3, <1>4, <1>5, <1>6, <1>7, <1>8, <1>9, BacklogEnds, StreamChanges

(* The layer about requests and responses holds at the start.              *)
LEMMA RequestsPartialInit == Init => RequestsPartial
<1> SUFFICES ASSUME Init PROVE RequestsPartial
  OBVIOUS
<1>1. \A t \in StreamToken : Progress(t)
  BY TokenFacts DEF Init, Progress, Pending
<1>2. \A c \in Conn : Unserved(c) /\ Written(c)
  BY DEF Init, Unserved, Untouched, Written
<1> QED
  BY <1>1, <1>2 DEF RequestsPartial

(* What is closed as answered was written whole, whatever the writes took. *)
THEOREM ResponsesWhole == Spec => []ResponseWhole
<1>1. Init => Base /\ Commanded /\ Watched /\ RequestsPartial
  BY BaseInit, CommandedInit, WatchedInit, RequestsPartialInit
<1>2. Base /\ Commanded /\ Watched /\ RequestsPartial /\ [Next]_vars =>
         (Base /\ Commanded /\ Watched /\ RequestsPartial)'
  BY BaseNext, CommandedNext, WatchedNext, RequestsPartialNext
<1>3. RequestsPartial => ResponseWhole
  BY DEF RequestsPartial, Progress, Written, ResponseWhole
<1> QED
  BY <1>1, <1>2, <1>3, PTL DEF Spec
-----------------------------------------------------------------------------
(* No edge is lost.                                                        *)

(* An event is taken away by its handler only.                             *)
LEMMA BatchLoses ==
    ASSUME Next, NEW t \in batch, t \notin batch'
    PROVE  \/ PollReturns
           \/ EventWithoutSource(t)
           \/ t = ListenerToken /\ (AcceptAll \/ AcceptFails \/ AcceptPanics)
           \/ t = StdinToken /\ (HandleLine \/ HandleLineFails \/ WaitForLine)
           \/ t \in StreamToken /\ HandleStream(t)
<1>1. ASSUME NEW u, NEW what, Handling(u, what)
      PROVE  t = u
  BY <1>1 DEF Handling
<1>2. ASSUME UNCHANGED batch
      PROVE  FALSE
  BY <1>2
<1>3. ASSUME NEW u \in StreamToken, HandleStream(u)
      PROVE  t = u
  BY <1>1, <1>3 DEF HandleStream, ReadPart, ReadFullRequest, ReadRejected, ReadFails,
       ReadPanics, ReadHangs, WritePart, WriteDone, WriteFails
<1>4. ASSUME NEW u \in Token, EventWithoutSource(u)
      PROVE  t = u
  BY <1>1, <1>4 DEF EventWithoutSource
<1>5. /\ AcceptAll \/ AcceptFails \/ AcceptPanics => t = ListenerToken
      /\ HandleLine \/ HandleLineFails \/ WaitForLine => t = StdinToken
  BY <1>1, <1>2 DEF AcceptAll, AcceptFails, AcceptPanics, HandleLine, HandleLineFails,
                    LineHandled, WaitForLine
<1>6. \/ PollReturns \/ AcceptAll \/ AcceptFails \/ AcceptPanics
      \/ HandleLine \/ HandleLineFails \/ WaitForLine
      \/ \E u \in Token : EventWithoutSource(u)
      \/ \E u \in StreamToken : HandleStream(u)
      \/ UNCHANGED batch
  BY DEF Next, LoopStep, FaultStep, MainStep, ClientStep, ExecuteCommand,
       Connect, SendPiece, FinishSending, Reset, ReadPiece, TypeLine, Expire,
       SubmitListener, SubmitStdin, PollFails, BatchDone, RegisterSource, ReregisterSource,
       CloseListener, CloseStream, AlreadyClosed, CheckCloses, CheckResubmits,
       CheckEnds, CommandFails, CommandsDone, Resubmit, NextIteration, loopVars, Executed
<1> QED
  BY <1>2, <1>3, <1>4, <1>5, <1>6

(* An edge is taken away when it is reported, or its source is dropped.    *)
LEMMA ReadyLoses ==
    ASSUME Base, Next, NEW t \in ready, t \notin ready'
    PROVE  PollReturns \/ sources'[t] = "none"
<1>0. /\ sources \in [Token -> {"none", "listener", "stdin", "read", "write", "close"}]
      /\ ready \in SUBSET Token
      /\ StreamToken \subseteq Token /\ ListenerToken \in Token
  BY TokenFacts DEF Base, TypeOK
<1>1. ASSUME NEW u \in Token, Unregister(u), sources' = [sources EXCEPT ![u] = "none"]
      PROVE  sources'[t] = "none"
  BY <1>0, <1>1 DEF Unregister
<1>2. CASE AcceptFails \/ CloseListener
  BY <1>0, <1>1, <1>2 DEF AcceptFails, CloseListener
<1>3. ASSUME NEW u \in Token,
             \/ u \in StreamToken /\ (ReadFails(u) \/ WriteFails(u) \/ CloseStream(u))
             \/ CheckCloses(u)
      PROVE  sources'[t] = "none"
  BY <1>1, <1>3 DEF ReadFails, WriteFails, CloseStream, CheckCloses, Drop
<1>4. ASSUME ready \subseteq ready'
      PROVE  FALSE
  BY <1>4
<1>5. ASSUME NEW u \in Token, RegisterSource(u) \/ ReregisterSource(u)
      PROVE  ready \subseteq ready'
  BY <1>5 DEF RegisterSource, ReregisterSource, Register, epollVars
<1>6. ASSUME NEW c \in Conn, \/ \E k \in RequestKinds : Connect(c, k)
                             \/ SendPiece(c) \/ FinishSending(c)
                             \/ Reset(c) \/ ReadPiece(c)
      PROVE  ready \subseteq ready'
  BY <1>6 DEF Connect, SendPiece, FinishSending, Reset, ReadPiece, Edge
<1>7. ASSUME NEW l \in LineKinds, TypeLine(l)
      PROVE  ready \subseteq ready'
  BY <1>7 DEF TypeLine
<1> QED
  BY <1>0, <1>2, <1>3, <1>4, <1>5, <1>6, <1>7, EpollChanges DEF epollVars

(* A poll reports what the sources in the map wait for, or keeps it.       *)
LEMMA PollKeeps ==
    ASSUME Base, PollReturns, NEW t \in ready \cup batch, batch = {}, Ready(t)
    PROVE  t \in ready' \cup batch'
BY DEF PollReturns, Fired

(* How much there is to read, and room to write.                           *)
LEMMA InboxGrows ==
    ASSUME Base, Next, NEW c \in Conn, tcp[c].inbox = 0, tcp'[c].inbox # 0
    PROVE  SendPiece(c)
<1>0. tcp \in [Conn -> Socket]
  BY DEF Base, TypeOK
<1>1. ASSUME NEW d \in Conn, \/ \E k \in RequestKinds : Connect(d, k)
                             \/ FinishSending(d) \/ Reset(d) \/ ReadPiece(d)
                             \/ SendPiece(d) /\ d # c
      PROVE  tcp'[c].inbox = tcp[c].inbox
  <2>1. ASSUME NEW k \in RequestKinds, Connect(d, k)
        PROVE  tcp'[c].inbox = tcp[c].inbox
    BY <1>0, <2>1 DEF Connect, Socket
  <2>2. CASE FinishSending(d) \/ Reset(d) \/ ReadPiece(d)
    BY <1>0, <2>2 DEF FinishSending, Reset, ReadPiece, Socket
  <2>3. CASE SendPiece(d) /\ d # c
    BY <1>0, <2>3 DEF SendPiece, Socket
  <2> QED
    BY <1>1, <2>1, <2>2, <2>3
<1>2. ASSUME NEW t \in StreamToken, ReadPart(t) \/ ReadFullRequest(t) \/ ReadRejected(t)
      PROVE  tcp'[c].inbox \in {0, tcp[c].inbox}
  <2>1. connOf[t] \in Conn /\ tcp' = [tcp EXCEPT ![connOf[t]].inbox = 0]
    BY <1>2, SourceHasConn DEF ReadPart, ReadFullRequest, ReadRejected, Handling
  <2> QED
    BY <1>0, <2>1 DEF Socket
<1>3. ASSUME NEW t \in StreamToken, WritePart(t) \/ WriteDone(t)
      PROVE  tcp'[c].inbox = tcp[c].inbox
  BY <1>3, WriteEffect
<1> QED
  BY <1>1, <1>2, <1>3, TcpChanges

(* Room in a full send buffer is made by a client, which is an edge.       *)
LEMMA RoomGrows ==
    ASSUME Base, Next, NEW c \in Conn, tcp[c].room = 0, tcp'[c].room # 0
    PROVE  ReadPiece(c)
<1>0. tcp \in [Conn -> Socket] /\ tcp[c].room \in Nat
  BY DEF Base, TypeOK, Socket
<1>1. ASSUME NEW d \in Conn, \/ \E k \in RequestKinds : Connect(d, k)
                             \/ FinishSending(d) \/ Reset(d) \/ SendPiece(d)
                             \/ ReadPiece(d) /\ d # c
      PROVE  tcp'[c].room = tcp[c].room
  BY <1>0, <1>1 DEF Connect, FinishSending, Reset, ReadPiece, SendPiece, Socket
<1>2. ASSUME NEW t \in StreamToken, ReadPart(t) \/ ReadFullRequest(t) \/ ReadRejected(t)
      PROVE  tcp'[c].room = tcp[c].room
  <2>1. connOf[t] \in Conn /\ tcp' = [tcp EXCEPT ![connOf[t]].inbox = 0]
    BY <1>2, SourceHasConn DEF ReadPart, ReadFullRequest, ReadRejected, Handling
  <2> QED
    BY <1>0, <2>1 DEF Socket
<1>3. ASSUME NEW t \in StreamToken, WritePart(t) \/ WriteDone(t)
      PROVE  tcp'[c].room = 0
  <2>1. connOf[t] \in Conn
    BY <1>3, WriteEffect
  <2>2. CASE c = connOf[t]
    <3>1. tcp'[c].room = tcp[c].room - Takes(c) /\ Takes(c) <= tcp[c].room /\ Takes(c) \in 0..stream[c].left
      BY <1>3, <2>2, WriteEffect
    <3>2. stream[c].left \in Nat
      BY ConstantsAssumption DEF Base, TypeOK, StreamState
    <3> QED
      BY <3>1, <3>2
  <2>3. CASE c # connOf[t]
    BY <1>3, <2>3, WriteEffect
  <2> QED
    BY <2>2, <2>3
<1> QED
  BY <1>1, <1>2, <1>3, TcpChanges

(* A loop that has stopped, or hangs, does so for good.                    *)
LEMMA GoesOn ==
    ASSUME Next, Running', loopPc' # "hung"
    PROVE  Running /\ loopPc # "hung"
BY DEF Next, LoopStep, FaultStep, MainStep, ClientStep, ExecuteCommand, HandleStream,
       Connect, SendPiece, FinishSending, Reset, ReadPiece, TypeLine, Expire,
       SubmitListener, SubmitStdin, PollReturns, PollFails,
       AcceptPanics, WaitForLine, EventWithoutSource,
       AcceptAll, AcceptFails, HandleLine, HandleLineFails, LineHandled, ReadPart,
       ReadFullRequest, ReadRejected, ReadFails, ReadPanics, ReadHangs, WritePart,
       WriteDone, WriteFails, BatchDone, RegisterSource, ReregisterSource,
       CloseListener, CloseStream, AlreadyClosed, CheckCloses, CheckResubmits,
       CheckEnds, CommandFails, CommandsDone, Resubmit, NextIteration,
       loopVars, Handling, Executing, Executed, Running

(* A stream begins to be written when its request is complete.             *)
LEMMA WritingBegins ==
    ASSUME Base, Next, NEW t \in StreamToken, sources'[t] = "write"
    PROVE  sources[t] = "write" \/ ReadFullRequest(t)
<1>0. /\ sources \in [Token -> {"none", "listener", "stdin", "read", "write", "close"}]
      /\ StreamToken \subseteq Token
  BY TokenFacts DEF Base, TypeOK
<1>1. ASSUME NEW u \in Token, NEW what, what # "write", sources' = [sources EXCEPT ![u] = what]
      PROVE  sources[t] = "write"
  BY <1>0, <1>1
<1>2. CASE AcceptFails \/ HandleLineFails \/ CloseListener
  BY <1>1, <1>2, TokenFacts DEF AcceptFails, HandleLineFails, CloseListener
<1>3. ASSUME NEW u \in Token,
             \/ /\ u \in StreamToken
                /\ ReadFails(u) \/ WriteFails(u) \/ CloseStream(u) \/ WriteDone(u)
             \/ CheckCloses(u)
      PROVE  sources[t] = "write"
  BY <1>1, <1>3 DEF ReadFails, WriteFails, CloseStream, WriteDone, CheckCloses, Drop
<1>4. ASSUME NEW u \in Token, RegisterSource(u)
      PROVE  sources[t] = "write"
  BY <1>1, <1>4 DEF RegisterSource, SourceOf
<1>5. ASSUME NEW u \in StreamToken, ReadFullRequest(u), u # t
      PROVE  sources[t] = "write"
  BY <1>0, <1>5 DEF ReadFullRequest
<1> QED
  BY <1>0, <1>2, <1>3, <1>4, <1>5, SourcesChange

(* While events are coming, they are kept for every source that goes on.   *)
LEMMA EventKept ==
    ASSUME Base, Commanded, Watched, Next, Running', loopPc' # "hung",
           NEW t \in StreamToken \cup {ListenerToken}, t \in ready \cup batch,
           t \notin ready' \cup batch', sources'[t] = sources[t], sources[t] # "none"
    PROVE  \/ PollReturns /\ ~Ready(t)
           \/ t = ListenerToken /\ AcceptAll
           \/ /\ t \in StreamToken
              /\ ReadPart(t) \/ ReadRejected(t) \/ WritePart(t)
<1>0. /\ sources \in [Token -> {"none", "listener", "stdin", "read", "write", "close"}]
      /\ StreamToken \subseteq Token /\ StdinToken \notin StreamToken
      /\ StdinToken # ListenerToken /\ ListenerToken \in Token
      /\ ListenerToken \notin StreamToken
  BY TokenFacts DEF Base, TypeOK
<1>1. CASE PollReturns
  <2>1. batch = {}
    BY <1>1 DEF Commanded, CommandsOfIteration, PollReturns
  <2> QED
    BY <1>1, <2>1, PollKeeps
<1>2. CASE ~PollReturns
  <2>1. t \in batch /\ t \notin batch'
    BY <1>2, ReadyLoses
  <2>2. ~EventWithoutSource(t)
    BY DEF EventWithoutSource, Handling
  <2>3. ~AcceptFails \/ t # ListenerToken
    BY <1>0 DEF AcceptFails
  <2>4. ASSUME t \in StreamToken
        PROVE  /\ ~ReadFullRequest(t) /\ ~ReadFails(t) /\ ~WriteFails(t) /\ ~WriteDone(t)
               /\ ~ReadPanics(t) /\ ~ReadHangs(t)
    <3>1. ~ReadFullRequest(t) /\ ~WriteDone(t)
      BY <1>0, <2>4 DEF ReadFullRequest, WriteDone, Handling
    <3>2. ~ReadFails(t) /\ ~WriteFails(t)
      BY <1>0, <2>4 DEF ReadFails, WriteFails, Drop
    <3> QED
      BY <3>1, <3>2 DEF ReadPanics, ReadHangs, Stops, Running
  <2>5. ~AcceptPanics
    BY DEF AcceptPanics, Stops, Running
  <2> QED
    BY <1>0, <1>2, <2>1, <2>2, <2>3, <2>4, <2>5, BatchLoses DEF HandleStream
<1> QED
  BY <1>1, <1>2

(* Input of a stream that is read keeps having an event.                   *)
LEMMA ReadableAwaited ==
    ASSUME Base, Commanded, Watched, NoEdgeLost, Next, Running', loopPc' # "hung",
           NEW t \in StreamToken, sources'[t] = "read", tcp'[connOf'[t]].inbox > 0
    PROVE  t \in ready' \cup batch'
<1>0. /\ tcp \in [Conn -> Socket] /\ StreamToken \subseteq Token
      /\ sources \in [Token -> {"none", "listener", "stdin", "read", "write", "close"}]
      /\ interest \in [Token -> {"none", "readable", "writable"}]
      /\ t # StdinToken /\ t # ListenerToken
  BY TokenFacts DEF Base, TypeOK
<1>1. CASE RegisterSource(t)
  <2>1. TakesCommand /\ Pending(New(t))
    BY <1>0, <1>1, Registers, PendingTail
  <2>2. connOf[t] # NoConn
    BY <2>1, PendingFacts, TokenFacts, CommandFacts DEF CommandKnown
  <2>3. tcp'[connOf'[t]] = tcp[connOf[t]]
    BY <1>1 DEF RegisterSource
  <2>4. Readable(t)
    BY <2>2, <2>3 DEF Readable
  <2> QED
    BY <1>1, <2>4 DEF RegisterSource, Register
<1>2. CASE sources[t] = "read"
  <2> DEFINE c == connOf[t]
  <2>1. c \in Conn /\ connOf'[t] = c
    BY <1>2, SourceHasConn, ConnStays, ConstantsAssumption
  <2>2. interest[t] = "readable"
    BY <1>0, <1>2 DEF Watched, InterestMatchesState
  <2>3. tcp[c].inbox \in Nat
    BY <1>0, <2>1, ConstantsAssumption DEF Socket
  <2>4. CASE tcp[c].inbox = 0
    <3>1. SendPiece(c)
      BY <2>1, <2>4, InboxGrows
    <3> QED
      BY <2>2, <3>1 DEF SendPiece, Edge
  <2>5. CASE tcp[c].inbox > 0
    <3>1. t \in ready \cup batch
      BY <1>2, <2>5, GoesOn DEF NoEdgeLost
    <3>2. Ready(t)
      BY <2>1, <2>2, <2>5, ConstantsAssumption DEF Ready, Readable
    <3>3. ~WritePart(t)
      BY <1>2 DEF WritePart, Handling
    <3>4. ReadPart(t) \/ ReadRejected(t) => tcp'[c].inbox = 0
      BY <1>0, <2>1 DEF ReadPart, ReadRejected, Socket
    <3> QED
      BY <1>0, <1>2, <2>1, <3>1, <3>2, <3>3, <3>4, EventKept
  <2> QED
    BY <2>3, <2>4, <2>5
<1> QED
  BY <1>0, <1>1, <1>2, SourcesGrow

(* Room for a stream that is written keeps having an event.                *)
LEMMA WritableAwaited ==
    ASSUME Base, Commanded, Watched, NoEdgeLost, Next, Running', loopPc' # "hung",
           NEW t \in StreamToken, sources'[t] = "write", tcp'[connOf'[t]].room > 0,
           ~Pending(ModifyInterests(t))'
    PROVE  t \in ready' \cup batch'
<1>0. /\ tcp \in [Conn -> Socket] /\ StreamToken \subseteq Token
      /\ sources \in [Token -> {"none", "listener", "stdin", "read", "write", "close"}]
      /\ interest \in [Token -> {"none", "readable", "writable"}]
      /\ t # StdinToken /\ t # ListenerToken
      /\ ModifyInterests(t) \in Command
  BY TokenFacts, CommandFacts DEF Base, TypeOK
<1>1. ~ReadFullRequest(t)
  BY <1>0, PendingAppend DEF ReadFullRequest, AskWritable
<1>2. sources[t] = "write"
  BY <1>1, WritingBegins
<1> DEFINE c == connOf[t]
<1>3. c \in Conn /\ connOf'[t] = c
  BY <1>2, SourceHasConn, ConnStays, ConstantsAssumption
<1>4. CASE Pending(ModifyInterests(t))
  <2>1. ReregisterSource(t)
    BY <1>4, PendingStays, ExecutesHead
  <2>2. tcp' = tcp
    BY <2>1 DEF ReregisterSource
  <2>3. Writable(t)
    BY <1>3, <2>2, ConstantsAssumption DEF Writable
  <2> QED
    BY <1>2, <2>1, <2>3 DEF ReregisterSource, Register
<1>5. CASE ~Pending(ModifyInterests(t))
  <2>1. interest[t] = "writable"
    BY <1>0, <1>2, <1>5 DEF Watched, InterestMatchesState
  <2>2. tcp[c].room \in Nat
    BY <1>0, <1>3, ConstantsAssumption DEF Socket
  <2>3. CASE tcp[c].room = 0
    <3>1. ReadPiece(c)
      BY <1>3, <2>3, RoomGrows
    <3> QED
      BY <2>1, <2>3, <3>1 DEF ReadPiece, Edge
  <2>4. CASE tcp[c].room > 0
    <3>1. t \in ready \cup batch
      BY <1>2, <1>5, <2>4, GoesOn DEF NoEdgeLost
    <3>2. Ready(t)
      BY <1>3, <2>1, <2>4, ConstantsAssumption DEF Ready, Writable
    <3>3. ~ReadPart(t) /\ ~ReadRejected(t)
      BY <1>2 DEF ReadPart, ReadRejected, Handling
    <3>4. WritePart(t) => tcp'[c].room = 0
      BY <1>0, <1>3 DEF WritePart, Socket
    <3> QED
      BY <1>0, <1>2, <1>3, <3>1, <3>2, <3>3, <3>4, EventKept
  <2> QED
    BY <2>2, <2>3, <2>4
<1> QED
  BY <1>4, <1>5

(* Connections that wait keep having an event of the listener.             *)
LEMMA BacklogAwaited ==
    ASSUME Base, Commanded, Watched, NoEdgeLost, Next, Running', loopPc' # "hung",
           sources'[ListenerToken] = "listener", backlog' # <<>>
    PROVE  ListenerToken \in ready' \cup batch'
<1>0. /\ ListenerToken \in Token /\ ListenerToken \notin StreamToken
      /\ ListenerToken # StdinToken
      /\ sources \in [Token -> {"none", "listener", "stdin", "read", "write", "close"}]
      /\ sources[ListenerToken] \in {"none", "listener"}
  BY TokenFacts DEF Base, TypeOK, SourcesKnown
<1>1. CASE RegisterSource(ListenerToken)
  BY <1>1 DEF RegisterSource, Register, Readable
<1>2. CASE sources[ListenerToken] = "listener"
  <2>1. interest[ListenerToken] = "readable"
    BY <1>0, <1>2 DEF Watched, InterestMatchesState
  <2>2. CASE backlog = <<>>
    <3>1. ~AcceptAll
      BY AcceptNumbers
    <3>2. \E c \in Conn, k \in RequestKinds : Connect(c, k)
      BY <2>2, <3>1, BacklogChanges
    <3> QED
      BY <2>1, <3>2 DEF Connect
  <2>3. CASE backlog # <<>>
    <3>1. ListenerToken \in ready \cup batch
      BY <1>2, <2>3, GoesOn DEF NoEdgeLost
    <3>2. Ready(ListenerToken)
      BY <2>1, <2>3 DEF Ready, Readable
    <3>3. ~AcceptAll
      BY AcceptNumbers
    <3> QED
      BY <1>0, <1>2, <3>1, <3>2, <3>3, EventKept
  <2> QED
    BY <2>2, <2>3
<1> QED
  BY <1>0, <1>1, <1>2, SourcesGrow

(* Every step keeps all edges.                                             *)
LEMMA NoEdgeLostNext ==
    ASSUME Base, Commanded, Watched, NoEdgeLost, [Next]_vars
    PROVE  NoEdgeLost'
<1>1. CASE Next
  <2> SUFFICES ASSUME Running', loopPc' # "hung"
               PROVE  /\ \A t \in StreamToken :
                            /\ sources'[t] = "read" /\ tcp'[connOf'[t]].inbox > 0 =>
                                   t \in ready' \cup batch'
                            /\ sources'[t] = "write" /\ tcp'[connOf'[t]].room > 0 =>
                                   t \in ready' \cup batch' \/ Pending(ModifyInterests(t))'
                      /\ sources'[ListenerToken] = "listener" /\ backlog' # <<>> =>
                             ListenerToken \in ready' \cup batch'
    BY DEF NoEdgeLost
  <2> QED
    BY <1>1, ReadableAwaited, WritableAwaited, BacklogAwaited
<1>2. CASE UNCHANGED vars
  BY <1>2 DEF vars, loopVars, sourceVars, commandVars, epollVars, NoEdgeLost, Running, Pending,
              ModifyInterests
<1> QED
  BY <1>1, <1>2

(* There is no edge to lose at the start.                                  *)
LEMMA NoEdgeLostInit == Init => NoEdgeLost
BY TokenFacts DEF Init, NoEdgeLost

(* A handler that stopped short of WouldBlock would wait for an edge that  *)
(* does not come: there is none it leaves something to do without.         *)
THEOREM EdgesKept == Spec => []NoEdgeLost
<1>1. Init => Base /\ Commanded /\ Watched /\ NoEdgeLost
  BY BaseInit, CommandedInit, WatchedInit, NoEdgeLostInit
<1>2. Base /\ Commanded /\ Watched /\ NoEdgeLost /\ [Next]_vars =>
         (Base /\ Commanded /\ Watched /\ NoEdgeLost)'
  BY BaseNext, CommandedNext, WatchedNext, NoEdgeLostNext
<1> QED
  BY <1>1, <1>2, PTL DEF Spec
-----------------------------------------------------------------------------
(* What breaks the loop, and what the timeout cuts.                        *)

(* What has been sent whole stays so.                                      *)
LEMMA SentStays ==
    ASSUME Base, Next, NEW c \in Conn, NEW k, k # "none", Sent(c, k)
    PROVE  Sent(c, k)'
<1>0. tcp \in [Conn -> Socket] /\ tcp[c].kind = k /\ tcp[c].unsent = 0
  BY DEF Base, TypeOK, Sent
<1>1. ASSUME NEW d \in Conn, NEW j \in RequestKinds, Connect(d, j)
      PROVE  tcp'[c].kind = k /\ tcp'[c].unsent = 0
  BY <1>0, <1>1 DEF Connect, Socket
<1>2. ASSUME NEW d \in Conn, FinishSending(d) \/ Reset(d) \/ ReadPiece(d)
      PROVE  tcp'[c].kind = k /\ tcp'[c].unsent = 0
  BY <1>0, <1>2 DEF FinishSending, Reset, ReadPiece, Socket
<1>3. ASSUME NEW d \in Conn, SendPiece(d)
      PROVE  tcp'[c].kind = k /\ tcp'[c].unsent = 0
  <2>1. d # c
    BY <1>0, <1>3 DEF SendPiece
  <2> QED
    BY <1>0, <1>3, <2>1 DEF SendPiece, Socket
<1>4. ASSUME NEW t \in StreamToken, ReadPart(t) \/ ReadFullRequest(t) \/ ReadRejected(t)
      PROVE  tcp'[c].kind = k /\ tcp'[c].unsent = 0
  <2>1. connOf[t] \in Conn /\ tcp' = [tcp EXCEPT ![connOf[t]].inbox = 0]
    BY <1>4, SourceHasConn DEF ReadPart, ReadFullRequest, ReadRejected, Handling
  <2> QED
    BY <1>0, <2>1 DEF Socket
<1>5. ASSUME NEW t \in StreamToken, WritePart(t) \/ WriteDone(t)
      PROVE  tcp'[c].kind = k /\ tcp'[c].unsent = 0
  BY <1>0, <1>5, WriteEffect
<1> QED
  BY <1>0, <1>1, <1>2, <1>3, <1>4, <1>5, TcpChanges DEF Sent

(* How the loop comes to stop, to hang or to wait for a line.              *)
LEMMA Breaks ==
    ASSUME Next
    PROVE  /\ loopPc # "stopped"
           /\ loopPc' = "stopped" => \/ \E t \in Token : EventWithoutSource(t)
                                     \/ \E t \in StreamToken : ReadPanics(t)
                                     \/ AcceptPanics
           /\ loopPc' = "hung" => loopPc = "hung" \/ \E t \in StreamToken : ReadHangs(t)
           /\ loopPc' = "reading" => loopPc = "reading" \/ WaitForLine
BY DEF Next, LoopStep, FaultStep, MainStep, ClientStep, ExecuteCommand, HandleStream,
       Connect, SendPiece, FinishSending, Reset, ReadPiece, TypeLine, Expire,
       SubmitListener, SubmitStdin, PollReturns, PollFails,
       AcceptPanics, WaitForLine, EventWithoutSource,
       AcceptAll, AcceptFails, HandleLine, HandleLineFails, LineHandled, ReadPart,
       ReadFullRequest, ReadRejected, ReadFails, ReadPanics, ReadHangs, WritePart,
       WriteDone, WriteFails, BatchDone, RegisterSource, ReregisterSource,
       CloseListener, CloseStream, AlreadyClosed, CheckCloses, CheckResubmits,
       CheckEnds, CommandFails, CommandsDone, Resubmit, NextIteration,
       loopVars, Handling, Executing, Executed, Running, Open, Stops, StopsByFault

(* A request is handled when all of it has been sent.                      *)
LEMMA CompleteIsSent ==
    ASSUME Base, NEW t \in StreamToken, sources[t] # "none", Complete(connOf[t])
    PROVE  connOf[t] \in Conn /\ tcp[connOf[t]].unsent = 0
<1>1. connOf[t] \in Conn
  BY SourceHasConn
<1>2. /\ tcp[connOf[t]].unsent \in Nat /\ tcp[connOf[t]].inbox \in Nat
      /\ stream[connOf[t]].got \in Nat
      /\ tcp[connOf[t]].unsent + tcp[connOf[t]].inbox + stream[connOf[t]].got <= RequestPieces
  BY <1>1, ConstantsAssumption DEF Base, TypeOK, PiecesBounded, Socket, StreamState
<1>3. stream[connOf[t]].got + tcp[connOf[t]].inbox >= RequestPieces /\ RequestPieces \in Nat
  BY ConstantsAssumption DEF Complete
<1>4. \A u, i, g, r \in Nat : u + i + g <= r /\ g + i >= r => u = 0
  OBVIOUS
<1> QED
  BY <1>1, <1>2, <1>3, <1>4

(* What is left of lines ends as they did.                                 *)
LEMMA RestEnds ==
    ASSUME NEW s \in Seq(AllLines), NEW n \in 1..Len(s),
           SubSeq(s, n + 1, Len(s)) # <<>>
    PROVE  SubSeq(s, n + 1, Len(s))[Len(SubSeq(s, n + 1, Len(s)))] = s[Len(s)]
<1> DEFINE rest == SubSeq(s, n + 1, Len(s))
<1>1. /\ Len(rest) = IF n + 1 <= Len(s) THEN Len(s) - n ELSE 0
      /\ \A i \in 1..Len(rest) : rest[i] = s[n + i]
      /\ rest \in Seq(AllLines)
  BY SubSeqProperties
<1>2. Len(rest) # 0
  BY <1>1, EmptySeq
<1> HIDE DEF rest
<1>3. Len(rest) \in 1..Len(rest) /\ n + Len(rest) = Len(s)
  BY <1>1, <1>2
<1> QED
  BY <1>1, <1>3 DEF rest

(* Every step keeps what is known of lines.                                *)
LEMMA LineAwaitedNext ==
    ASSUME Base, LineAwaited, [Next]_vars
    PROVE  LineAwaited'
<1>0. typed \in Seq(AllLines) /\ lines \in Seq(AllLines)
  BY DEF Base, TypeOK
<1>1. ASSUME Next, NEW l \in LineKinds, TypeLine(l)
      PROVE  LineAwaited'
  <2>1. /\ typed' # <<>> /\ typed'[Len(typed')] = l
        /\ lines' # <<>> /\ lines'[Len(lines')] = l
    BY <1>0, <1>1, AppendProperties, EmptySeq, ConstantsAssumption DEF TypeLine
  <2>2. UNCHANGED <<batch, loopPc>>
    BY <1>1 DEF TypeLine, loopVars
  <2> QED
    BY <2>1, <2>2 DEF LineAwaited
<1>2. ASSUME HandleLine \/ HandleLineFails
      PROVE  LineAwaited'
  <2>1. PICK line : ReadLine(line)
    BY <1>2 DEF HandleLine, HandleLineFails
  <2>2. typed' # <<>> => typed # <<>> /\ typed'[Len(typed')] = typed[Len(typed)]
    <3>1. CASE typed' = typed \/ typed' = <<>>
      BY <3>1
    <3>2. ASSUME NEW n \in 1..Len(typed), typed' = SubSeq(typed, n + 1, Len(typed))
          PROVE  typed' # <<>> => typed # <<>> /\ typed'[Len(typed')] = typed[Len(typed)]
      <4>1. typed # <<>>
        BY EmptySeq
      <4>2. typed' # <<>> => typed'[Len(typed')] = typed[Len(typed)]
        BY <1>0, <3>2, RestEnds
      <4> QED
        BY <4>1, <4>2
    <3> QED
      BY <2>1, <3>1, <3>2 DEF ReadLine
  <2>3. /\ UNCHANGED lines /\ loopPc' = "events"
        /\ StdinToken \notin batch'
    BY <1>2 DEF HandleLine, HandleLineFails, LineHandled, Handling, LineAwaited
  <2> QED
    BY <2>2, <2>3 DEF LineAwaited
<1>3. CASE WaitForLine
  <2>1. /\ typed # <<>> /\ typed' = <<>> /\ UNCHANGED lines
        /\ StdinToken \notin batch' /\ NoLine(typed)
    BY <1>3 DEF WaitForLine, Handling, LineAwaited
  <2>2. typed[Len(typed)] = "part"
    BY <1>0, <2>1, EmptySeq DEF NoLine
  <2> QED
    BY <2>1, <2>2 DEF LineAwaited
<1>4. ASSUME Next, ~WaitForLine, UNCHANGED stdinVars
      PROVE  LineAwaited'
  <2>1. StdinToken \in batch' => typed # <<>>
    <3>1. StdinToken \in Fired => typed # <<>>
      BY TokenFacts DEF Fired, Ready, Readable, Writable
    <3> QED
      BY <1>4, <3>1, BatchSteps DEF LineAwaited
  <2>2. loopPc' = "reading" => loopPc = "reading" /\ batch' \subseteq batch
    BY <1>4, Breaks, BatchSteps DEF PollReturns
  <2> QED
    BY <1>4, <2>1, <2>2 DEF LineAwaited, stdinVars
<1>5. CASE UNCHANGED vars
  BY <1>5 DEF vars, loopVars, stdinVars, LineAwaited
<1> QED
  BY <1>1, <1>2, <1>3, <1>4, <1>5, StdinChanges

(* A thread that waits in read_line waits for the end of what was typed    *)
(* last.                                                                   *)
LEMMA WaitsForPart ==
    ASSUME Base, LineAwaited, loopPc = "reading", NoLine(typed)
    PROVE  lines # <<>> /\ lines[Len(lines)] = "part"
<1>1. typed \in Seq(AllLines)
  BY DEF Base, TypeOK
<1>2. typed # <<>> => typed[Len(typed)] = "part"
  BY <1>1, EmptySeq DEF NoLine
<1> QED
  BY <1>2 DEF LineAwaited

(* Every step keeps the causes of an end known.                            *)
LEMMA BrokenNext ==
    ASSUME Base, Commanded, Watched, LineAwaited, BrokenHasCause, [Next]_vars
    PROVE  BrokenHasCause'
<1>1. CASE Next
  <2>1. ASSUME NEW t \in Token, EventWithoutSource(t)
        PROVE  startup' = "join" /\ sources'[StdinToken] = "none"
    <3>1. /\ t \in batch /\ sources[t] = "none"
          /\ UNCHANGED <<startup, sources>>
      BY <2>1 DEF EventWithoutSource, Handling, sourceVars
    <3>2. t = StdinToken /\ interest[StdinToken] # "none"
      BY <3>1 DEF Watched
    <3> QED
      BY <3>1, <3>2 DEF Commanded, StartupOnce
  <2>2. ASSUME NEW t \in StreamToken, NEW k \in {"panic", "hang"},
               Handling(t, "read"), Complete(connOf[t]), tcp[connOf[t]].kind = k, UNCHANGED tcp
        PROVE  \E c \in Conn : Sent(c, k)'
    BY <2>2, CompleteIsSent DEF Handling, Sent
  <2>3. ASSUME NEW t \in StreamToken, ReadPanics(t)
        PROVE  \E c \in Conn : Sent(c, "panic")'
    BY <2>2, <2>3 DEF ReadPanics
  <2>4. ASSUME NEW t \in StreamToken, ReadHangs(t)
        PROVE  \E c \in Conn : Sent(c, "hang")'
    BY <2>2, <2>4 DEF ReadHangs
  <2>5. (\E c \in Conn : Sent(c, "hang")) => \E c \in Conn : Sent(c, "hang")'
    BY <1>1, SentStays
  <2>6. AcceptPanics => "host" \in Faults /\ backlog' # <<>>
    BY DEF AcceptPanics
  <2>7. loopPc' = "reading" /\ NoLine(typed') => lines' # <<>> /\ lines'[Len(lines')] = "part"
    <3>1. Base' /\ LineAwaited'
      BY BaseNext, LineAwaitedNext
    <3>2. (loopPc = "reading" /\ NoLine(typed) => lines # <<>> /\ lines[Len(lines)] = "part")'
      BY <3>1, WaitsForPart, PTL
    <3> QED
      BY <3>2
  <2> QED
    BY <1>1, <2>1, <2>3, <2>4, <2>5, <2>6, <2>7, Breaks DEF BrokenHasCause
<1>2. CASE UNCHANGED vars
  BY <1>2 DEF vars, loopVars, sourceVars, stdinVars, BrokenHasCause, Sent, NoLine
<1> QED
  BY <1>1, <1>2

(* But for faults of the system, the loop ends by a line it could not read, *)
(* by a request whose handling panics or by a Host that cannot be made for  *)
(* an accepted stream; it hangs in a request only, and waits in read_line   *)
(* for the end of a line only (select.rs:48-119, 331, 385).                 *)
THEOREM BrokenHasItsCause == Spec => []BrokenHasCause
<1>1. Init => Base /\ Commanded /\ Watched /\ LineAwaited /\ BrokenHasCause
  <2>1. Init => LineAwaited /\ BrokenHasCause
    BY DEF Init, LineAwaited, BrokenHasCause
  <2> QED
    BY <2>1, BaseInit, CommandedInit, WatchedInit
<1>2. Base /\ Commanded /\ Watched /\ LineAwaited /\ BrokenHasCause /\ [Next]_vars =>
         (Base /\ Commanded /\ Watched /\ LineAwaited /\ BrokenHasCause)'
  BY BaseNext, CommandedNext, WatchedNext, LineAwaitedNext, BrokenNext
<1> QED
  BY <1>1, <1>2, PTL DEF Spec

(* How a stream ends.                                                      *)
LEMMA TimedOut ==
    ASSUME Base, Next, NEW c \in Conn, stream[c].ended # "timedOut",
           stream'[c].ended = "timedOut"
    PROVE  \E t \in StreamToken : CheckCloses(t) /\ sources[t] = "read" /\ connOf[t] = c
<1>0. stream \in [Conn -> StreamState]
  BY DEF Base, TypeOK
<1>1. ASSUME NEW d \in Conn, Expire(d)
      PROVE  stream'[c].ended = stream[c].ended
  BY <1>0, <1>1 DEF Expire, StreamState
<1>2. CASE AcceptFails \/ CloseListener
  <2>1. PICK how \in {"dropped", "refused"} : stream' = EndBacklog(how)
    BY <1>2 DEF AcceptFails, CloseListener
  <2> QED
    BY <1>0, <2>1 DEF EndBacklog, StreamState
<1>3. ASSUME NEW t \in StreamToken, ReadPart(t) \/ ReadFullRequest(t) \/ ReadRejected(t)
      PROVE  stream'[c].ended = stream[c].ended
  <2>1. connOf[t] \in Conn
    BY <1>3, SourceHasConn DEF ReadPart, ReadFullRequest, ReadRejected, Handling
  <2> QED
    BY <1>0, <1>3, <2>1 DEF ReadPart, ReadFullRequest, ReadRejected, StreamState
<1>4. ASSUME NEW t \in StreamToken, WritePart(t) \/ WriteDone(t)
      PROVE  stream'[c].ended = stream[c].ended
  BY <1>4, WriteEffect
<1>5. ASSUME NEW t \in StreamToken, NEW how, Drop(t, how), sources[t] # "none"
      PROVE  stream'[c].ended = IF connOf[t] = c THEN how ELSE stream[c].ended
  BY <1>0, <1>5, SourceHasConn DEF Drop, StreamState
<1>6. ASSUME NEW t \in StreamToken, ReadFails(t) \/ WriteFails(t) \/ CloseStream(t)
      PROVE  stream'[c].ended \in {"dropped", "answered", "rejected", stream[c].ended}
  BY <1>5, <1>6 DEF ReadFails, WriteFails, CloseStream, Handling
<1>7. ASSUME NEW t \in Token, CheckCloses(t)
      PROVE  t \in StreamToken /\ sources[t] = "read" /\ connOf[t] = c
  <2>1. t \in StreamToken /\ sources[t] = "read" /\ Drop(t, "timedOut")
    BY <1>7, TokenFacts DEF CheckCloses, Base, SourcesKnown
  <2> QED
    BY <1>5, <2>1
<1> QED
  BY <1>1, <1>2, <1>3, <1>4, <1>6, <1>7, StreamChanges

(* A timeout that cuts a complete request does so while its event is still *)
(* to be reported: never one that poll has reported in that iteration.     *)
THEOREM TimeoutSpares == Spec => TimeoutSparesCompleteRequest
<1>1. Init => Base /\ Commanded /\ Watched /\ RequestsPartial /\ NoEdgeLost
  BY BaseInit, CommandedInit, WatchedInit, RequestsPartialInit, NoEdgeLostInit
<1>2. Base /\ Commanded /\ Watched /\ RequestsPartial /\ NoEdgeLost /\ [Next]_vars =>
         (Base /\ Commanded /\ Watched /\ RequestsPartial /\ NoEdgeLost)'
  BY BaseNext, CommandedNext, WatchedNext, RequestsPartialNext, NoEdgeLostNext
<1> DEFINE Spares == \A t \in StreamToken :
                        LET c == connOf[t]
                        IN  /\ c # NoConn
                            /\ stream[c].ended = "none"
                            /\ stream'[c].ended = "timedOut"
                            /\ Complete(c)
                            => t \in ready
<1>3. ASSUME Base, Commanded, RequestsPartial, NoEdgeLost, Next
      PROVE  Spares
  <2> SUFFICES ASSUME NEW t \in StreamToken, NEW c, c = connOf[t], c # NoConn,
                      stream[c].ended = "none", stream'[c].ended = "timedOut", Complete(c)
               PROVE  t \in ready
    OBVIOUS
  <2>1. c \in Conn
    BY <1>3 DEF Base, TypeOK
  <2>2. PICK u \in StreamToken : CheckCloses(u) /\ sources[u] = "read" /\ connOf[u] = c
    BY <1>3, <2>1, TimedOut
  <2>3. u = t
    BY <1>3, <2>2 DEF Base, TokensNumbered
  <2>4. loopPc = "commands"
    BY <2>2 DEF CheckCloses, Executing
  <2>5. batch = {} /\ Running /\ loopPc # "hung"
    BY <1>3, <2>4 DEF Commanded, CommandsOfIteration, Running
  <2>6. stream[c].got < RequestPieces
    BY <1>3, <2>2 DEF RequestsPartial, Progress
  <2>7. tcp[c].inbox \in Nat /\ stream[c].got \in Nat
    <3>1. tcp[c] \in Socket /\ stream[c] \in StreamState
      BY <1>3, <2>1 DEF Base, TypeOK
    <3> QED
      BY <3>1 DEF Socket, StreamState
  <2>8. tcp[c].inbox > 0
    BY <2>6, <2>7, ConstantsAssumption DEF Complete
  <2> QED
    BY <1>3, <2>2, <2>3, <2>5, <2>8 DEF NoEdgeLost
<1>4. Base /\ Commanded /\ RequestsPartial /\ NoEdgeLost /\ [Next]_vars => [Spares]_vars
  BY <1>3
<1> QED
  BY <1>1, <1>2, <1>4, PTL DEF Spec, TimeoutSparesCompleteRequest
-----------------------------------------------------------------------------
(***************************************************************************)
(* EventLoop implements ConnectionService, for any values of its           *)
(* constants: every step of the loop, its clients and the main thread is   *)
(* one step of the service under Phase, or none.                           *)
(***************************************************************************)

Waits(c) == \E i \in 1..Len(backlog) : backlog[i] = c
Writes(c) == \E t \in StreamToken : connOf[t] = c /\ sources[t] \in {"write", "close"}

Inv == Base /\ Commanded /\ Watched /\ RequestsPartial

(* The phase of a connection depends on nothing else.                      *)
LEMMA SamePhase ==
    ASSUME NEW c \in Conn, stream'[c].ended = stream[c].ended,
           tcp'[c].kind = tcp[c].kind, Waits(c)' <=> Waits(c), Writes(c)' <=> Writes(c)
    PROVE  Phase(c)' = Phase(c)
BY DEF Phase, Waits, Writes

(* A connection with a source has been accepted and is not over.           *)
LEMMA ServedPhase ==
    ASSUME Inv, NEW t \in StreamToken, sources[t] # "none"
    PROVE  /\ connOf[t] \in Conn
           /\ stream[connOf[t]].ended = "none" /\ tcp[connOf[t]].kind # "none"
           /\ ~Waits(connOf[t])
           /\ sources[t] = "read" => Phase(connOf[t]) = "reading"
           /\ sources[t] # "read" => Phase(connOf[t]) = "writing"
<1>1. /\ connOf[t] \in Conn /\ connOf[t] \in Connected
      /\ \A i \in 1..Len(backlog) : backlog[i] # connOf[t]
      /\ \A v \in StreamToken : connOf[v] = connOf[t] => v = t
  BY SourceHasConn DEF Inv, Base, TokensNumbered, BacklogFresh, SourcesKnown
<1>2. stream[connOf[t]].ended = "none"
  BY DEF Inv, RequestsPartial, Progress
<1>3. sources[t] \in {"read", "write", "close"}
  BY DEF Inv, Base, SourcesKnown
<1> QED
  BY <1>1, <1>2, <1>3 DEF Phase, Connected, Waits

(* A connection that waits is in the phase of that name, and no other is.  *)
LEMMA WaitingPhase ==
    ASSUME Inv, NEW c \in Conn
    PROVE  /\ Phase(c) = "waiting" <=> Waits(c)
           /\ Waits(c) => /\ stream[c].ended = "none" /\ tcp[c].kind # "none"
                          /\ \A t \in StreamToken : connOf[t] # c
<1>1. Waits(c) => /\ stream[c].ended = "none" /\ tcp[c].kind # "none"
                  /\ \A t \in StreamToken : connOf[t] # c
  BY DEF Inv, RequestsPartial, Unserved, Base, BacklogFresh, Connected, Waits
<1> QED
  BY <1>1 DEF Phase, Waits
-----------------------------------------------------------------------------
(* The listener.                                                           *)

(* The listener is open until its source is taken out of the map, also     *)
(* before it is put there.                                                 *)
LEMMA ListenerKept ==
    ASSUME Inv, Next, sources[ListenerToken] # "none" => sources'[ListenerToken] # "none"
    PROVE  ListenerOpen' <=> ListenerOpen
<1> DEFINE Mapped == sources[ListenerToken] # "none"
           Submitted == Pending(New(ListenerToken))
<1>0. Base /\ Commanded
  BY DEF Inv
<1>1. ListenerOpen <=> startup = "listener" \/ Submitted \/ Mapped
  BY <1>0 DEF ListenerOpen, Pending, Base, SourcesKnown
<1>2. ListenerOpen' <=> startup' = "listener" \/ Submitted' \/ Mapped'
  <2>1. SourcesKnown'
    BY <1>0, BaseNext DEF Base
  <2> QED BY <2>1 DEF ListenerOpen, Pending, SourcesKnown
<1>3. Mapped' => Mapped \/ Submitted
  <2>1. ASSUME RegisterSource(ListenerToken)
        PROVE  Submitted
    BY <1>0, <2>1, Registers, PendingTail, TokenFacts
  <2> QED
    BY <1>0, <2>1, SourcesGrow, TokenFacts
<1>4. ASSUME Submitted, ~Submitted'
      PROVE  Mapped'
  <2>1. TakesCommand /\ New(ListenerToken) = Head(queue) /\ \E t \in Token : ExecuteCommand(t)
    BY <1>0, <1>4, PendingStays
  <2>2. RegisterSource(ListenerToken)
    BY <2>1, TokenFacts
       DEF ExecuteCommand, RegisterSource, ReregisterSource, AlreadyClosed, CloseStream,
           CloseListener, CheckCloses, CheckResubmits, CheckEnds, Executing, New
  <2> QED
    BY <1>0, <2>2, TokenFacts DEF RegisterSource, SourceOf, Base, TypeOK
<1>5. ASSUME Submitted', ~Submitted
      PROVE  SubmitListener
  <2>1. ~AcceptAll
    <3>1. ASSUME NEW k \in 1..Len(backlog)
          PROVE  New(ListenerToken) \notin {New(tokenCounter + k), CheckTimeout(tokenCounter + k)}
      <4>1. tokenCounter + k \in StreamToken
        BY <1>0, FreshToken
      <4> QED
        BY <4>1, TokenFacts DEF New, CheckTimeout
    <3> QED
      BY <1>0, <1>5, <3>1, PendingAccept
  <2>2. ~TakesCommand
    BY <1>0, <1>5, PendingTail
  <2>3. queue' # queue
    BY <1>5 DEF Pending, New
  <2>4. PICK q \in Command : Submits(q)
    BY <1>0, <2>1, <2>2, <2>3, QueueCases
  <2>5. q = New(ListenerToken)
    BY <1>0, <1>5, <2>4, PendingAppend DEF Submits
  <2>6. \A t : /\ New(ListenerToken) \notin {ModifyInterests(t), CloseSource(t), CheckTimeout(t)}
               /\ New(ListenerToken) = New(t) => t = ListenerToken
    BY DEF New, CloseSource, ModifyInterests, CheckTimeout
  <2>7. StdinToken # ListenerToken
    BY TokenFacts
  <2> QED
    BY <2>4, <2>5, <2>6, <2>7 DEF Submits
<1>6. ASSUME startup = "listener", startup' # "listener"
      PROVE  Submitted'
  <2>1. SubmitListener
    BY <1>6, PhaseChanges DEF SubmitStdin
  <2> QED
    BY <1>0, <2>1, PendingAppend, TokenFacts, CommandFacts DEF SubmitListener
<1>7. ASSUME startup' = "listener"
      PROVE  startup = "listener"
  BY <1>7, PhaseChanges DEF SubmitListener, SubmitStdin
<1> QED
  BY <1>1, <1>2, <1>3, <1>4, <1>5, <1>6, <1>7 DEF SubmitListener
-----------------------------------------------------------------------------
(* Each step of the loop is one of the service.                            *)

(* A client connects: its connection arrives.                              *)
LEMMA ConnectArrives ==
    ASSUME Inv, Next, NEW c \in Conn, NEW k \in RequestKinds, Connect(c, k)
    PROVE  Service!Arrive(c)
<1>0. Base /\ Len(backlog) \in Nat
  BY DEF Inv, Base, TypeOK
<1>1. /\ c \notin Connected /\ ~Waits(c)
      /\ Len(backlog') = Len(backlog) + 1 /\ backlog'[Len(backlog) + 1] = c
      /\ \A i \in 1..Len(backlog) : backlog'[i] = backlog[i]
      /\ UNCHANGED <<sources, connOf, stream>> /\ ListenerOpen
      /\ ~Writes(c) /\ \A t \in StreamToken : connOf[t] # c
  <2>1. c \notin Connected /\ c # NoConn
    BY <1>0, ConnectEffect, ConstantsAssumption
  <2>2. \A t \in StreamToken : connOf[t] # c
    BY <1>0, <2>1 DEF Base, TokensNumbered
  <2> QED
    BY <1>0, <2>1, <2>2, ConnectEffect
       DEF Base, BacklogFresh, Waits, Writes, Connect, sourceVars
<1>2. \A d \in Conn : Waits(d)' <=> Waits(d) \/ d = c
  BY <1>0, <1>1 DEF Waits
<1>3. \A d \in Conn : tcp'[d].kind = IF d = c THEN k ELSE tcp[d].kind
  BY <1>0 DEF Base, TypeOK, Connect, Socket
<1>4. stream[c].ended = "none" /\ tcp[c].kind = "none" /\ k # "none"
  BY <1>1, ConstantsAssumption DEF Inv, RequestsPartial, Unserved, Connected, AllKinds
<1>5. Phase(c) = "idle" /\ Phase(c)' = "waiting"
  <2>1. Phase(c) = "idle"
    BY <1>1, <1>4 DEF Phase, Waits, Writes
  <2>2. stream'[c].ended = "none" /\ tcp'[c].kind # "none" /\ Waits(c)' /\ ~Writes(c)'
    BY <1>1, <1>2, <1>3, <1>4 DEF Writes
  <2> QED
    BY <2>1, <2>2 DEF Phase, Waits, Writes
<1>6. \A d \in Conn \ {c} : Phase(d)' = Phase(d)
  BY <1>1, <1>2, <1>3, SamePhase DEF Writes
<1>7. ListenerOpen' <=> ListenerOpen
  BY <1>1, ListenerKept
<1> QED
  BY <1>1, <1>5, <1>6, <1>7 DEF Service!Arrive

(* All that wait are accepted at once: each has a token, and no source is  *)
(* in a state of writing under it.                                         *)
LEMMA AcceptsAll ==
    ASSUME Inv, Next, AcceptAll
    PROVE  Service!Accept
<1>0. Base /\ Len(backlog) \in Nat
  BY DEF Inv, Base, TypeOK
<1>1. /\ UNCHANGED <<sources, stream, tcp>> /\ Len(backlog') = 0
      /\ sources[ListenerToken] = "listener"
  BY <1>0, AcceptNumbers DEF AcceptAll, Handling
<1>2. \A c \in Conn : ~Waits(c)'
  BY <1>1 DEF Waits
<1>3. ASSUME NEW t \in StreamToken, sources[t] # "none"
      PROVE  connOf'[t] = connOf[t]
  BY <1>0, <1>3, ConnStays DEF Base, SourcesKnown
<1>4. \A c \in Conn : Writes(c)' <=> Writes(c)
  BY <1>1, <1>3 DEF Writes
<1>5. ASSUME NEW c \in Conn, Waits(c)
      PROVE  Phase(c)' = "reading"
  <2>1. stream[c].ended = "none" /\ tcp[c].kind # "none" /\ ~Writes(c)
    BY <1>5, WaitingPhase DEF Writes
  <2>2. /\ stream'[c].ended = "none" /\ tcp'[c].kind # "none"
        /\ ~Writes(c)' /\ ~Waits(c)'
    BY <1>1, <1>2, <1>4, <2>1
  <2> QED
    BY <2>2 DEF Phase, Writes, Waits
<1>6. ASSUME NEW c \in Conn, ~Waits(c)
      PROVE  Phase(c)' = Phase(c)
  BY <1>1, <1>2, <1>4, <1>6, SamePhase
<1>7. ListenerOpen /\ (ListenerOpen' <=> ListenerOpen)
  BY <1>1, ListenerKept DEF ListenerOpen
<1> QED
  BY <1>1, <1>5, <1>6, <1>7, WaitingPhase DEF Service!Accept, Service!WaitingBecome

(* The listener is closed, or fails: those that wait are refused, those    *)
(* that are served are not touched.                                        *)
LEMMA ListenerEnds ==
    ASSUME Inv, Next, AcceptFails \/ CloseListener
    PROVE  Service!StopListening
<1>0. /\ Base /\ Commanded
      /\ stream \in [Conn -> StreamState]
      /\ sources \in [Token -> {"none", "listener", "stdin", "read", "write", "close"}]
      /\ ListenerToken \in Token \ StreamToken /\ StreamToken \subseteq Token
  BY TokenFacts DEF Inv, Base, TypeOK
<1>1. PICK how \in {"dropped", "refused"} : stream' = EndBacklog(how)
  BY DEF AcceptFails, CloseListener
<1>2. /\ backlog' = <<>> /\ UNCHANGED <<connOf, tcp, startup>>
      /\ sources[ListenerToken] = "listener"
      /\ sources' = [sources EXCEPT ![ListenerToken] = "none"]
      /\ queue' = queue \/ TakesCommand
  BY <1>0 DEF AcceptFails, CloseListener, Handling, Executing, TakesCommand, Executed,
              commandVars, loopVars, Base, SourcesKnown
<1>3. /\ \A t \in StreamToken : sources'[t] = sources[t]
      /\ sources'[ListenerToken] = "none"
  BY <1>0, <1>2
<1>4. \A c \in Conn : ~Waits(c)' /\ (Writes(c)' <=> Writes(c))
  BY <1>2, <1>3 DEF Waits, Writes
<1>5. ASSUME NEW c \in Conn
      PROVE  stream'[c].ended = IF Waits(c) THEN how ELSE stream[c].ended
  BY <1>0, <1>1 DEF EndBacklog, StreamState, Waits
<1>6. ASSUME NEW c \in Conn, Waits(c)
      PROVE  Phase(c)' = "over"
  <2>1. stream'[c].ended # "none" /\ tcp'[c].kind # "none" /\ ~Writes(c)' /\ ~Waits(c)'
    <3>1. tcp[c].kind # "none" /\ ~Writes(c)
      BY <1>6, WaitingPhase DEF Writes
    <3> QED BY <1>2, <1>4, <1>5, <1>6, <3>1
  <2> QED BY <2>1 DEF Phase, Waits, Writes
<1>7. ASSUME NEW c \in Conn, ~Waits(c)
      PROVE  Phase(c)' = Phase(c)
  BY <1>2, <1>4, <1>5, <1>7, SamePhase
<1>8. {c \in Conn : stream[c].ended = "answered"}' = {c \in Conn : stream[c].ended = "answered"}
  BY <1>5, WaitingPhase
<1>9. ListenerOpen /\ ~ListenerOpen'
  <2>1. startup # "listener" /\ ~Pending(New(ListenerToken))
    BY <1>0, <1>2, TokenFacts, CommandFacts
       DEF Commanded, StartupOnce, NewOnce, Pending
  <2>2. ~Pending(New(ListenerToken))'
    <3>1. CASE TakesCommand
      BY <1>0, <2>1, <3>1, PendingTail
    <3>2. CASE queue' = queue
      BY <2>1, <3>2 DEF Pending, New
    <3> QED BY <1>2, <3>1, <3>2
  <2> QED
    BY <1>2, <1>3, <2>1, <2>2 DEF ListenerOpen, Pending
<1> QED
  BY <1>6, <1>7, <1>8, <1>9, WaitingPhase
     DEF Service!StopListening, Service!WaitingBecome

(* A complete request is handled: its connection is answered.              *)
LEMMA RequestAnswers ==
    ASSUME Inv, Next, NEW t \in StreamToken, ReadFullRequest(t)
    PROVE  Service!Answer(connOf[t])
<1>0. /\ Base /\ stream \in [Conn -> StreamState] /\ tcp \in [Conn -> Socket]
      /\ sources \in [Token -> {"none", "listener", "stdin", "read", "write", "close"}]
      /\ ListenerToken \in Token \ StreamToken /\ t \in Token
  BY TokenFacts DEF Inv, Base, TypeOK
<1>1. /\ sources[t] = "read" /\ sources' = [sources EXCEPT ![t] = "write"]
      /\ UNCHANGED <<connOf, backlog>>
      /\ stream' = [stream EXCEPT ![connOf[t]].got = RequestPieces,
                                  ![connOf[t]].left = ResponsePieces]
      /\ tcp' = [tcp EXCEPT ![connOf[t]].inbox = 0]
  BY DEF ReadFullRequest, Handling
<1>2. connOf[t] \in Conn /\ Phase(connOf[t]) = "reading"
  BY <1>1, ServedPhase
<1>3. \A c \in Conn : stream'[c].ended = stream[c].ended /\ tcp'[c].kind = tcp[c].kind
  BY <1>0, <1>1, <1>2 DEF StreamState, Socket
<1>4. \A c \in Conn : Waits(c)' <=> Waits(c)
  BY <1>1 DEF Waits
<1>5. \A c \in Conn \ {connOf[t]} : Writes(c)' <=> Writes(c)
  BY <1>0, <1>1 DEF Writes
<1>6. \A c \in Conn \ {connOf[t]} : Phase(c)' = Phase(c)
  BY <1>3, <1>4, <1>5, SamePhase
<1>7. Phase(connOf[t])' = "writing"
  <2> SUFFICES ASSUME NEW c \in Conn, c = connOf[t] PROVE Phase(c)' = "writing"
    BY <1>1, <1>2
  <2>1. Writes(c)'
    BY <1>0, <1>1 DEF Writes
  <2>2. stream'[c].ended = "none" /\ tcp'[c].kind # "none" /\ ~Waits(c)'
    BY <1>1, <1>3, <1>4, ServedPhase
  <2> QED BY <2>1, <2>2 DEF Phase, Writes, Waits
<1>8. ListenerOpen' <=> ListenerOpen
  BY <1>0, <1>1, ListenerKept
<1>9. {c \in Conn : stream[c].ended = "answered"}' = {c \in Conn : stream[c].ended = "answered"}
  BY <1>3
<1> QED
  BY <1>1, <1>2, <1>6, <1>7, <1>8, <1>9 DEF Service!Answer

(* A stream is dropped: its connection is completed if it was answered and *)
(* written whole, and cut otherwise.                                       *)
LEMMA DropEnds ==
    ASSUME Inv, Next, NEW t \in StreamToken, NEW how,
           sources[t] # "none", Drop(t, how), how # "none",
           how = "answered" => sources[t] = "close",
           UNCHANGED <<connOf, backlog, tcp>>
    PROVE  Service!Complete(connOf[t]) \/ Service!Cut(connOf[t])
<1>0. /\ Base /\ stream \in [Conn -> StreamState]
      /\ sources \in [Token -> {"none", "listener", "stdin", "read", "write", "close"}]
      /\ ListenerToken \in Token \ StreamToken /\ t \in Token /\ StreamToken \subseteq Token
  BY TokenFacts, SMTT(30) DEF Inv, Base, TypeOK
<1>1. /\ sources' = [sources EXCEPT ![t] = "none"]
      /\ stream' = [stream EXCEPT ![connOf[t]].ended = how]
  BY DEF Drop
<1>2. /\ connOf[t] \in Conn /\ stream[connOf[t]].ended = "none"
      /\ sources[t] = "read" => Phase(connOf[t]) = "reading"
      /\ sources[t] # "read" => Phase(connOf[t]) = "writing"
  BY ServedPhase
<1>3. ASSUME NEW c \in Conn
      PROVE  stream'[c].ended = IF c = connOf[t] THEN how ELSE stream[c].ended
  BY <1>0, <1>1, <1>2 DEF StreamState
<1>4. ASSUME NEW c \in Conn \ {connOf[t]}
      PROVE  Phase(c)' = Phase(c)
  <2>1. (Waits(c)' <=> Waits(c)) /\ (Writes(c)' <=> Writes(c))
    BY <1>0, <1>1 DEF Waits, Writes
  <2> QED BY <1>3, <2>1, SamePhase
<1>5. ASSUME NEW c \in Conn, c = connOf[t]
      PROVE  Phase(c)' = "over"
  <2>1. /\ stream'[c].ended # "none" /\ tcp'[c].kind # "none" /\ ~Waits(c)' /\ ~Writes(c)'
    <3>1. tcp[c].kind # "none" /\ ~Waits(c)
      BY <1>5, ServedPhase
    <3>2. ~Writes(c)'
      <4>1. \A u \in StreamToken : connOf[u] = c => u = t
        BY <1>2, <1>5, ConstantsAssumption DEF Inv, Base, TokensNumbered
      <4> QED BY <1>0, <1>1, <4>1 DEF Writes
    <3> QED BY <1>3, <1>5, <3>1, <3>2 DEF Waits
  <2> QED BY <2>1 DEF Phase, Waits, Writes
<1>6. ListenerOpen' <=> ListenerOpen
  BY <1>0, <1>1, ListenerKept
<1>7. {c \in Conn : stream[c].ended = "answered"}' =
         IF how = "answered" THEN {c \in Conn : stream[c].ended = "answered"} \cup {connOf[t]}
                             ELSE {c \in Conn : stream[c].ended = "answered"}
  BY <1>2, <1>3
<1>8. [c \in Conn |-> Phase(c)]' = [[c \in Conn |-> Phase(c)] EXCEPT ![connOf[t]] = "over"]
  BY <1>2, <1>4, <1>5
<1> QED
  BY <1>2, <1>6, <1>7, <1>8 DEF Service!Complete, Service!Cut
-----------------------------------------------------------------------------
(* The other steps are none of the service.                                *)

(* The source of a stream is dropped by its handlers, by the command that  *)
(* closes it and by its timeout check.                                     *)
Drops(t) == ReadFails(t) \/ WriteFails(t) \/ CloseStream(t) \/ CheckCloses(t)

Serves == \/ \E c \in Conn, k \in RequestKinds : Connect(c, k)
          \/ AcceptAll \/ AcceptFails \/ CloseListener
          \/ \E t \in StreamToken : ReadFullRequest(t) \/ Drops(t)

(* Where the backlog changes.                                              *)
LEMMA BacklogServed == ASSUME Next, ~Serves PROVE UNCHANGED backlog
BY DEF Next, LoopStep, FaultStep, MainStep, ClientStep, ExecuteCommand, HandleStream,
       SendPiece, FinishSending, Reset, ReadPiece, TypeLine, Expire,
       SubmitListener, SubmitStdin, PollReturns, PollFails, AcceptPanics, WaitForLine,
       EventWithoutSource, HandleLine, HandleLineFails, ReadPart,
       ReadRejected, ReadFails, ReadPanics, ReadHangs, WritePart,
       WriteDone, WriteFails, BatchDone, RegisterSource, ReregisterSource,
       CloseStream, AlreadyClosed, CheckCloses, CheckResubmits,
       CheckEnds, CommandFails, CommandsDone, Resubmit, NextIteration, Serves

(* A timeout check closes streams only.                                    *)
LEMMA CheckDrops ==
    ASSUME Base, NEW t \in Token, CheckCloses(t)
    PROVE  t \in StreamToken /\ sources[t] = "read"
BY TokenFacts DEF CheckCloses, Base, SourcesKnown

(* No connection ends but by these.                                        *)
LEMMA EndsServed ==
    ASSUME Base, Next, ~Serves, NEW c \in Conn
    PROVE  stream'[c].ended = stream[c].ended
<1>0. stream \in [Conn -> StreamState]
  BY DEF Base, TypeOK
<1>1. ASSUME NEW d \in Conn, Expire(d)
      PROVE  stream'[c].ended = stream[c].ended
  BY <1>0, <1>1 DEF Expire, StreamState
<1>2. ASSUME NEW t \in StreamToken, ReadPart(t) \/ ReadRejected(t)
      PROVE  stream'[c].ended = stream[c].ended
  <2>1. connOf[t] \in Conn
    BY <1>2, SourceHasConn DEF ReadPart, ReadRejected, Handling
  <2> QED
    BY <1>0, <1>2, <2>1 DEF ReadPart, ReadRejected, StreamState
<1>3. ASSUME NEW t \in StreamToken, WritePart(t) \/ WriteDone(t)
      PROVE  stream'[c].ended = stream[c].ended
  BY <1>3, WriteEffect
<1> QED
  BY <1>1, <1>2, <1>3, StreamChanges, CheckDrops DEF Serves, Drops

(* No stream begins or ends to be written to but by these.                 *)
LEMMA WritesServed ==
    ASSUME Base, Commanded, Next, ~Serves, NEW c \in Conn
    PROVE  Writes(c)' <=> Writes(c)
<1>0. /\ sources \in [Token -> {"none", "listener", "stdin", "read", "write", "close"}]
      /\ StreamToken \subseteq Token /\ StdinToken \notin StreamToken
      /\ StdinToken \in Token /\ UNCHANGED connOf
  BY TokenFacts, TokensChange DEF Base, TypeOK, Serves
<1> SUFFICES ASSUME NEW t \in StreamToken
             PROVE  sources'[t] \in {"write", "close"} <=> sources[t] \in {"write", "close"}
  BY <1>0 DEF Writes
<1>1. CASE HandleLineFails
  BY <1>0, <1>1 DEF HandleLineFails
<1>2. ASSUME NEW u \in StreamToken, WriteDone(u)
      PROVE  sources[u] = "write" /\ sources' = [sources EXCEPT ![u] = "close"]
  BY <1>2 DEF WriteDone, Handling
<1>3. ASSUME NEW u \in Token, RegisterSource(u)
      PROVE  /\ sources[u] = "none" /\ SourceOf(u) \notin {"write", "close"}
             /\ sources' = [sources EXCEPT ![u] = SourceOf(u)]
  <2>1. Pending(New(u)) /\ New(u).op = "new" /\ New(u).token = u
    BY <1>3, Registers, PendingTail, CommandFacts
  <2> QED
    BY <1>3, <2>1 DEF RegisterSource, SourceOf, Commanded, NewOnce, Pending
<1> QED
  BY <1>0, <1>1, <1>2, <1>3, SourcesChange, CheckDrops DEF Serves, Drops

(* What a step does that does not serve is not seen.                       *)
LEMMA OthersStutter ==
    ASSUME Inv, Next, ~Serves
    PROVE  UNCHANGED Service!vars
<1>0. Base /\ Commanded
  BY DEF Inv
<1>1. \A c \in Conn : stream'[c].ended = stream[c].ended
  BY <1>0, EndsServed
<1>2. \A c \in Conn : tcp'[c].kind = tcp[c].kind
  BY <1>0, KindsKept DEF Serves
<1>3. \A c \in Conn : (Waits(c)' <=> Waits(c)) /\ (Writes(c)' <=> Writes(c))
  BY <1>0, BacklogServed, WritesServed DEF Waits
<1>4. [c \in Conn |-> Phase(c)]' = [c \in Conn |-> Phase(c)]
  BY <1>1, <1>2, <1>3, SamePhase
<1>5. {c \in Conn : stream[c].ended = "answered"}' = {c \in Conn : stream[c].ended = "answered"}
  BY <1>1
<1>6. ListenerOpen' <=> ListenerOpen
  <2>1. sources[ListenerToken] # "none" => sources'[ListenerToken] # "none"
    <3>1. /\ sources \in [Token -> {"none", "listener", "stdin", "read", "write", "close"}]
          /\ ListenerToken \in Token \ StreamToken /\ StdinToken # ListenerToken
      BY <1>0, TokenFacts DEF Base, TypeOK
    <3>2. ASSUME NEW u \in Token, RegisterSource(u), sources[ListenerToken] # "none"
          PROVE  sources'[ListenerToken] # "none"
      BY <3>1, <3>2 DEF RegisterSource, SourceOf
    <3>3. ASSUME NEW u \in StreamToken, WriteDone(u)
          PROVE  sources'[ListenerToken] = sources[ListenerToken]
      BY <3>1, <3>3 DEF WriteDone
    <3>4. ASSUME HandleLineFails
          PROVE  sources'[ListenerToken] = sources[ListenerToken]
      BY <3>1, <3>4 DEF HandleLineFails
    <3> QED
      BY <1>0, <3>2, <3>3, <3>4, SourcesChange, CheckDrops DEF Serves, Drops
  <2> QED BY <2>1, ListenerKept
<1> QED
  BY <1>4, <1>5, <1>6 DEF Service!vars
-----------------------------------------------------------------------------
(* The service begins with no connection and an open listener.             *)
LEMMA InitServes == Init => Service!Init
<1> SUFFICES ASSUME Init PROVE Service!Init
  OBVIOUS
<1>1. \A c \in Conn : Phase(c) = "idle"
  BY TokenFacts DEF Init, Phase
<1>2. {c \in Conn : stream[c].ended = "answered"} = {}
  BY DEF Init
<1>3. ListenerOpen
  BY DEF Init, ListenerOpen
<1> QED
  BY <1>1, <1>2, <1>3 DEF Service!Init

(* Every step is a step of the service or none.                            *)
LEMMA NextServes ==
    ASSUME Inv, [Next]_vars
    PROVE  [Service!Next]_(Service!vars)
<1>1. CASE UNCHANGED vars
  BY <1>1 DEF vars, loopVars, sourceVars, commandVars, epollVars, Phase, ListenerOpen,
              Service!vars
<1>2. ASSUME Next, NEW t \in StreamToken, Drops(t)
      PROVE  Service!Next
  <2>1. PICK how \in {"dropped", "answered", "rejected", "timedOut"} :
           Drop(t, how) /\ (how = "answered" => sources[t] = "close")
    BY <1>2 DEF Drops, ReadFails, WriteFails, CloseStream, CheckCloses
  <2>2. sources[t] # "none" /\ UNCHANGED <<connOf, backlog, tcp>>
    BY <1>2 DEF Drops, ReadFails, WriteFails, CloseStream, CheckCloses, Handling
  <2>3. connOf[t] \in Conn
    BY <2>2, ServedPhase
  <2>4. CASE Service!Complete(connOf[t])
    BY <2>3, <2>4 DEF Service!Next, Service!Complete
  <2>5. CASE Service!Cut(connOf[t])
    BY <2>3, <2>5 DEF Service!Next
  <2> QED
    BY <1>2, <2>1, <2>2, <2>4, <2>5, DropEnds
<1>3. ASSUME Next, NEW t \in StreamToken, ReadFullRequest(t)
      PROVE  Service!Next
  <2>1. connOf[t] \in Conn
    BY <1>3, ServedPhase DEF ReadFullRequest, Handling
  <2> QED
    BY <1>3, <2>1, RequestAnswers DEF Service!Next
<1>4. ASSUME Next, NEW c \in Conn, NEW k \in RequestKinds, Connect(c, k)
      PROVE  Service!Next
  BY <1>4, ConnectArrives DEF Service!Next
<1>5. CASE Next /\ (AcceptAll \/ AcceptFails \/ CloseListener)
  BY <1>5, AcceptsAll, ListenerEnds DEF Service!Next
<1> QED
  BY <1>1, <1>2, <1>3, <1>4, <1>5, OthersStutter DEF Serves

(* The event loop, with its tokens, edges, commands and timeouts, serves   *)
(* connections as ConnectionService says (select.rs, select_multiplex).    *)
THEOREM ImplementsService == Spec => ServesConnections
<1>1. Init => Inv
  BY BaseInit, CommandedInit, WatchedInit, RequestsPartialInit DEF Inv
<1>2. Inv /\ [Next]_vars => Inv'
  BY BaseNext, CommandedNext, WatchedNext, RequestsPartialNext DEF Inv
<1> QED
  BY <1>1, <1>2, InitServes, NextServes, PTL DEF Spec, ServesConnections, Service!Spec
=============================================================================
