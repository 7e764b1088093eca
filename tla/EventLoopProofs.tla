-------------------------- MODULE EventLoopProofs --------------------------
(***************************************************************************)
(* Proofs about EventLoop, for any set of connections, any sizes of        *)
(* requests, responses and buffers, and any faults.  The inductive         *)
(* invariant is built in layers; each is preserved given those above it.   *)
(***************************************************************************)
EXTENDS EventLoop, FiniteSetTheorems, SequenceTheorems, TLAPS

Connected == {c \in Conn : tcp[c].kind # "none"}

(* Tokens are given out in the order of the counter, one to a connection.  *)
TokensNumbered ==
    /\ tokenCounter >= ListenerToken
    /\ \A t \in StreamToken : connOf[t] # NoConn <=> t <= tokenCounter
    /\ \A t, u \in StreamToken :
          connOf[t] = connOf[u] /\ connOf[t] # NoConn => t = u
    /\ \A t \in StreamToken :
          connOf[t] # NoConn => connOf[t] \in Connected

(* There is a token for every connection that waits to be accepted.        *)
BacklogFresh ==
    /\ tokenCounter + Len(backlog) <= ListenerToken + Cardinality(Connected)
    /\ \A i, j \in 1..Len(backlog) : backlog[i] = backlog[j] => i = j
    /\ \A i \in 1..Len(backlog) :
          /\ backlog[i] \in Connected
          /\ \A t \in StreamToken : connOf[t] # backlog[i]

(* A command or a source is about a connection that has been accepted.     *)
SourcesKnown ==
    /\ sources[StdinToken] \in {"none", "stdin"}
    /\ sources[ListenerToken] \in {"none", "listener"}
    /\ \A t \in StreamToken :
          /\ sources[t] \in {"none", "read", "write", "close"}
          /\ sources[t] # "none" => connOf[t] # NoConn

CommandKnown(q) ==
    /\ q.op \in {"modify", "check"} => q.token \in StreamToken
    /\ q.op = "close" => q.token # StdinToken
    /\ q.token \in StreamToken => connOf[q.token] # NoConn

CommandsKnown ==
    /\ \A i \in 1..Len(queue) : CommandKnown(queue[i])
    /\ \A i \in 1..Len(resubmits) :
          resubmits[i] \in StreamToken /\ connOf[resubmits[i]] # NoConn

(* Pieces of a request are in one place.                                   *)
PiecesBounded ==
    \A c \in Conn : tcp[c].unsent + tcp[c].inbox + stream[c].got <= RequestPieces

Base == /\ TypeOK
        /\ TokensNumbered
        /\ BacklogFresh
        /\ SourcesKnown
        /\ CommandsKnown
        /\ PiecesBounded
-----------------------------------------------------------------------------
(* Tokens.                                                                 *)

(* The three kinds of tokens are told apart, and streams have the largest. *)
LEMMA TokenFacts ==
    /\ Cardinality(Conn) \in Nat
    /\ Token \subseteq Nat
    /\ StreamToken \subseteq Token
    /\ StdinToken \in Token /\ ListenerToken \in Token
    /\ StdinToken = 0 /\ ListenerToken = 1
    /\ \A t \in Nat : t \in StreamToken <=> t > 1 /\ t <= 1 + Cardinality(Conn)
    /\ \A t \in Token : t \in StreamToken \/ t = StdinToken \/ t = ListenerToken
BY FS_CardinalityType, ConstantsAssumption
   DEF Token, StreamToken, StdinToken, ListenerToken

(* The commands are commands.                                              *)
LEMMA CommandFacts ==
    \A t \in Token :
        /\ {New(t), ModifyInterests(t), CloseSource(t), CheckTimeout(t)} \subseteq Command
        /\ New(t).op = "new" /\ New(t).token = t
        /\ ModifyInterests(t).op = "modify" /\ ModifyInterests(t).token = t
        /\ CloseSource(t).op = "close" /\ CloseSource(t).token = t
        /\ CheckTimeout(t).op = "check" /\ CheckTimeout(t).token = t
BY DEF New, ModifyInterests, CloseSource, CheckTimeout, Command, Ops

(* A command is made of its parts.                                         *)
LEMMA CommandIs ==
    ASSUME NEW q \in Command
    PROVE  /\ q.op \in Ops /\ q.token \in Token
           /\ q.op = "new" => q = New(q.token)
           /\ q.op = "modify" => q = ModifyInterests(q.token)
           /\ q.op = "close" => q = CloseSource(q.token)
           /\ q.op = "check" => q = CheckTimeout(q.token)
BY DEF New, ModifyInterests, CloseSource, CheckTimeout, Command, Ops

-----------------------------------------------------------------------------
(* Which actions change which variable.                                    *)

(* Clients and the handlers of streams touch sockets.                      *)
LEMMA TcpChanges ==
    ASSUME Next
    PROVE  \/ \E c \in Conn : \/ \E k \in RequestKinds : Connect(c, k)
                              \/ SendPiece(c) \/ FinishSending(c)
                              \/ Reset(c) \/ ReadPiece(c)
           \/ \E t \in StreamToken : \/ ReadPart(t) \/ ReadFullRequest(t)
                                     \/ ReadRejected(t)
                                     \/ WritePart(t) \/ WriteDone(t)
           \/ UNCHANGED tcp
BY DEF Next, LoopStep, FaultStep, MainStep, ClientStep, ExecuteCommand, HandleStream,
       TypeLine, Expire, SubmitListener, SubmitStdin, PollReturns, PollFails,
       AcceptPanics, WaitForLine,
       EventWithoutSource, AcceptAll, AcceptFails, HandleLine, HandleLineFails,
       ReadFails, ReadPanics, ReadHangs, WriteFails, BatchDone, RegisterSource,
       ReregisterSource, CloseListener, CloseStream, AlreadyClosed, CheckCloses,
       CheckResubmits, CheckEnds, CommandFails, CommandsDone, Resubmit, NextIteration

(* The loop's end of a stream is touched by its handlers, by what closes   *)
(* it, and by the end of the backlog.                                      *)
LEMMA StreamChanges ==
    ASSUME Next
    PROVE  \/ \E c \in Conn : Expire(c)
           \/ AcceptFails \/ CloseListener
           \/ \E t \in StreamToken : \/ ReadPart(t) \/ ReadFullRequest(t)
                                     \/ ReadRejected(t) \/ ReadFails(t)
                                     \/ WritePart(t) \/ WriteDone(t) \/ WriteFails(t)
                                     \/ CloseStream(t)
           \/ \E t \in Token : CheckCloses(t)
           \/ UNCHANGED stream
BY DEF Next, LoopStep, FaultStep, MainStep, ClientStep, ExecuteCommand, HandleStream,
       Connect, SendPiece, FinishSending, Reset, ReadPiece, TypeLine,
       SubmitListener, SubmitStdin, PollReturns, PollFails, AcceptPanics, WaitForLine,
       EventWithoutSource, AcceptAll, HandleLine, HandleLineFails,
       ReadPanics, ReadHangs, BatchDone, RegisterSource, ReregisterSource,
       AlreadyClosed, CheckResubmits, CheckEnds, CommandFails, CommandsDone,
       Resubmit, NextIteration, sourceVars

(* Sources are put into the map by commands, and taken out where they are  *)
(* closed or dropped.                                                      *)
LEMMA SourcesChange ==
    ASSUME Next
    PROVE  \/ AcceptFails \/ HandleLineFails \/ CloseListener
           \/ \E t \in StreamToken : \/ ReadFullRequest(t) \/ ReadFails(t)
                                     \/ WriteDone(t) \/ WriteFails(t)
                                     \/ CloseStream(t)
           \/ \E t \in Token : RegisterSource(t) \/ CheckCloses(t)
           \/ UNCHANGED sources
BY DEF Next, LoopStep, FaultStep, MainStep, ClientStep, ExecuteCommand, HandleStream,
       Connect, SendPiece, FinishSending, Reset, ReadPiece, TypeLine, Expire,
       SubmitListener, SubmitStdin, PollReturns, PollFails, AcceptPanics, WaitForLine,
       EventWithoutSource, AcceptAll, HandleLine, ReadPart, ReadRejected,
       ReadPanics, ReadHangs, WritePart, BatchDone, ReregisterSource,
       AlreadyClosed, CheckResubmits, CheckEnds, CommandFails, CommandsDone,
       Resubmit, NextIteration, sourceVars

(* Tokens are given out by the listener's handler.                         *)
LEMMA TokensChange ==
    ASSUME Next
    PROVE  AcceptAll \/ UNCHANGED <<tokenCounter, connOf>>
BY DEF Next, LoopStep, FaultStep, MainStep, ClientStep, ExecuteCommand, HandleStream,
       Connect, SendPiece, FinishSending, Reset, ReadPiece, TypeLine, Expire,
       SubmitListener, SubmitStdin, PollReturns, PollFails, AcceptPanics, WaitForLine,
       EventWithoutSource, AcceptFails, HandleLine, HandleLineFails, ReadPart,
       ReadFullRequest, ReadRejected, ReadFails, ReadPanics, ReadHangs, WritePart,
       WriteDone, WriteFails, BatchDone, RegisterSource, ReregisterSource,
       CloseListener, CloseStream, AlreadyClosed, CheckCloses, CheckResubmits,
       CheckEnds, CommandFails, CommandsDone, Resubmit, NextIteration, sourceVars

(* Connections join the backlog at its end, and leave it all at once.      *)
LEMMA BacklogChanges ==
    ASSUME Next
    PROVE  \/ \E c \in Conn, k \in RequestKinds : Connect(c, k)
           \/ AcceptAll
           \/ backlog' = <<>>
           \/ UNCHANGED backlog
BY DEF Next, LoopStep, FaultStep, MainStep, ClientStep, ExecuteCommand, HandleStream,
       SendPiece, FinishSending, Reset, ReadPiece, TypeLine, Expire,
       SubmitListener, SubmitStdin, PollReturns, PollFails, AcceptPanics, WaitForLine,
       EventWithoutSource, AcceptFails, HandleLine, HandleLineFails, ReadPart,
       ReadFullRequest, ReadRejected, ReadFails, ReadPanics, ReadHangs, WritePart,
       WriteDone, WriteFails, BatchDone, RegisterSource, ReregisterSource,
       CloseListener, CloseStream, AlreadyClosed, CheckCloses, CheckResubmits,
       CheckEnds, CommandFails, CommandsDone, Resubmit, NextIteration

(* A command is executed: it is taken out of the channel.                  *)
TakesCommand == queue # <<>> /\ loopPc = "commands" /\ Executed

(* Commands are submitted by the main thread, by handlers, and for the     *)
(* checks that are to be repeated; they are taken out one by one.          *)
LEMMA QueueChanges ==
    ASSUME Next
    PROVE  \/ SubmitListener \/ SubmitStdin \/ AcceptAll \/ HandleLine \/ Resubmit
           \/ \E t \in StreamToken : ReadFullRequest(t) \/ ReadRejected(t) \/ WriteDone(t)
           \/ \E t \in Token : ExecuteCommand(t) /\ TakesCommand
           \/ UNCHANGED queue
BY DEF Next, LoopStep, FaultStep, MainStep, ClientStep, ExecuteCommand, HandleStream,
       Connect, SendPiece, FinishSending, Reset, ReadPiece, TypeLine, Expire,
       PollReturns, PollFails,
       AcceptPanics, WaitForLine, EventWithoutSource, AcceptFails, HandleLineFails,
       ReadPart, ReadFails, ReadPanics, ReadHangs, WritePart,
       WriteFails, BatchDone, RegisterSource, ReregisterSource,
       CloseListener, CloseStream, AlreadyClosed, CheckCloses, CheckResubmits,
       CheckEnds, CommandFails, CommandsDone, NextIteration, commandVars,
       TakesCommand, Executing

(* What is to be resubmitted is what was checked too early.                *)
LEMMA ResubmitsChange ==
    ASSUME Next
    PROVE  Resubmit \/ (\E t \in Token : CheckResubmits(t)) \/ UNCHANGED resubmits
BY DEF Next, LoopStep, FaultStep, MainStep, ClientStep, ExecuteCommand, HandleStream,
       Connect, SendPiece, FinishSending, Reset, ReadPiece, TypeLine, Expire,
       SubmitListener, SubmitStdin, PollReturns, PollFails,
       AcceptPanics, WaitForLine, EventWithoutSource,
       AcceptAll, AcceptFails, HandleLine, HandleLineFails, ReadPart,
       ReadFullRequest, ReadRejected, ReadFails, ReadPanics, ReadHangs, WritePart,
       WriteDone, WriteFails, BatchDone, RegisterSource, ReregisterSource,
       CloseListener, CloseStream, AlreadyClosed, CheckCloses,
       CheckEnds, CommandFails, CommandsDone, NextIteration, commandVars
-----------------------------------------------------------------------------
(* The base layer.                                                         *)

(* The first layer of the invariant holds at the start.                    *)
LEMMA BaseInit == Init => Base
<1> SUFFICES ASSUME Init PROVE Base
  OBVIOUS
<1>1. TypeOK
  <2>1. stream \in [Conn -> StreamState]
    BY ConstantsAssumption DEF Init, StreamState, Endings
  <2>2. tcp \in [Conn -> Socket]
    BY ConstantsAssumption DEF Init, Socket
  <2>3. sources \in [Token -> {"none", "listener", "stdin", "read", "write", "close"}]
    BY DEF Init
  <2>4. interest \in [Token -> {"none", "readable", "writable"}]
    BY DEF Init
  <2>5. connOf \in [StreamToken -> Conn \cup {NoConn}]
    BY DEF Init
  <2>6. /\ batch \in SUBSET Token /\ ready \in SUBSET Token
        /\ queue \in Seq(Command) /\ resubmits \in Seq(Token) /\ backlog \in Seq(Conn)
        /\ typed \in Seq(AllLines) /\ lineBuffer \in Seq(AllLines)
    BY EmptySeq DEF Init
  <2> QED
    BY <2>1, <2>2, <2>3, <2>4, <2>5, <2>6, TokenFacts DEF Init, TypeOK
<1>2. TokensNumbered
  BY TokenFacts DEF Init, TokensNumbered
<1>3. BacklogFresh
  <2>1. Connected = {}
    BY DEF Init, Connected
  <2>2. Cardinality(Connected) = 0
    BY <2>1, FS_EmptySet
  <2> QED
    BY <2>2, TokenFacts DEF Init, BacklogFresh
<1>4. SourcesKnown
  BY TokenFacts DEF Init, SourcesKnown
<1>5. CommandsKnown
  BY DEF Init, CommandsKnown
<1>6. PiecesBounded
  BY ConstantsAssumption DEF Init, PiecesBounded
<1> QED
  BY <1>1, <1>2, <1>3, <1>4, <1>5, <1>6 DEF Base

(* A token with a source names a connection.                               *)
LEMMA SourceHasConn ==
    ASSUME Base, NEW t \in StreamToken, sources[t] # "none"
    PROVE  connOf[t] \in Conn
BY DEF Base, TypeOK, SourcesKnown

(* The sockets keep their type, and no piece of a request is counted twice. *)
LEMMA TcpTyped ==
    ASSUME Base, Next
    PROVE  tcp' \in [Conn -> Socket]
<1> USE ConstantsAssumption
<1>0. tcp \in [Conn -> Socket] /\ stream \in [Conn -> StreamState]
  BY DEF Base, TypeOK
<1>1. ASSUME NEW c \in Conn, NEW k \in RequestKinds, Connect(c, k)
      PROVE  tcp' \in [Conn -> Socket]
  BY <1>0, <1>1 DEF Connect, Socket
<1>2. ASSUME NEW c \in Conn, SendPiece(c)
      PROVE  tcp' \in [Conn -> Socket]
  <2>1. tcp[c].unsent > 0 /\ tcp[c].unsent + tcp[c].inbox <= RequestPieces
    BY <1>0, <1>2 DEF SendPiece, Base, PiecesBounded, Socket, StreamState
  <2> QED
    BY <1>0, <1>2, <2>1 DEF SendPiece, Socket
<1>3. ASSUME NEW c \in Conn, FinishSending(c)
      PROVE  tcp' \in [Conn -> Socket]
  BY <1>0, <1>3 DEF FinishSending, Socket
<1>4. ASSUME NEW c \in Conn, Reset(c)
      PROVE  tcp' \in [Conn -> Socket]
  BY <1>0, <1>4 DEF Reset, Socket
<1>5. ASSUME NEW c \in Conn, ReadPiece(c)
      PROVE  tcp' \in [Conn -> Socket]
  BY <1>0, <1>5 DEF ReadPiece, Socket
<1>6. ASSUME NEW t \in StreamToken, ReadPart(t) \/ ReadFullRequest(t) \/ ReadRejected(t)
      PROVE  tcp' \in [Conn -> Socket]
  <2>1. connOf[t] \in Conn
    BY <1>6, SourceHasConn DEF ReadPart, ReadFullRequest, ReadRejected, Handling
  <2>2. tcp' = [tcp EXCEPT ![connOf[t]].inbox = 0]
    BY <1>6 DEF ReadPart, ReadFullRequest, ReadRejected
  <2> QED
    BY <1>0, <2>1, <2>2 DEF Socket
<1>7. ASSUME NEW t \in StreamToken, WritePart(t)
      PROVE  tcp' \in [Conn -> Socket]
  <2>1. connOf[t] \in Conn
    BY <1>7, SourceHasConn DEF WritePart, Handling
  <2>2. tcp' = [tcp EXCEPT ![connOf[t]].room = 0]
    BY <1>7 DEF WritePart
  <2> QED
    BY <1>0, <2>1, <2>2 DEF Socket
<1>8. ASSUME NEW t \in StreamToken, WriteDone(t)
      PROVE  tcp' \in [Conn -> Socket]
  <2> DEFINE c == connOf[t]
             n == stream[c].left
  <2>1. c \in Conn
    BY <1>8, SourceHasConn DEF WriteDone, Handling
  <2>2. tcp' = [tcp EXCEPT ![c].room = @ - n] /\ n <= tcp[c].room /\ n \in Nat
    BY <1>0, <1>8, <2>1 DEF WriteDone, FitsWhole, StreamState
  <2> HIDE DEF n, c
  <2> QED
    BY <1>0, <2>1, <2>2 DEF Socket
<1> QED
  BY <1>0, <1>1, <1>2, <1>3, <1>4, <1>5, <1>6, <1>7, <1>8, TcpChanges

(* Pieces the socket takes.                                                *)
Takes(c) == IF FitsWhole(c) THEN stream[c].left ELSE tcp[c].room

(* What the write arm does, whether everything is written or not.          *)
LEMMA WriteEffect ==
    ASSUME Base, NEW t \in StreamToken, WritePart(t) \/ WriteDone(t),
           NEW c, c = connOf[t]
    PROVE  /\ c \in Conn
           /\ Takes(c) \in 0..stream[c].left /\ Takes(c) <= tcp[c].room
           /\ Takes(c) \in {stream[c].left, tcp[c].room}
           /\ \A d \in Conn \ {c} : stream'[d] = stream[d] /\ tcp'[d] = tcp[d]
           /\ stream'[c].left = stream[c].left - Takes(c)
           /\ stream'[c].written = stream[c].written + Takes(c)
           /\ \A d \in Conn : /\ stream'[d].got = stream[d].got
                              /\ stream'[d].expired = stream[d].expired
                              /\ stream'[d].ended = stream[d].ended
           /\ tcp'[c].room = tcp[c].room - Takes(c)
           /\ \A d \in Conn : /\ tcp'[d].kind = tcp[d].kind
                              /\ tcp'[d].unsent = tcp[d].unsent
                              /\ tcp'[d].inbox = tcp[d].inbox
                              /\ tcp'[d].fin = tcp[d].fin
                              /\ tcp'[d].rst = tcp[d].rst
<1>0. stream \in [Conn -> StreamState] /\ tcp \in [Conn -> Socket]
  BY DEF Base, TypeOK
<1>1. c \in Conn
  BY SourceHasConn DEF WritePart, WriteDone, Handling
<1>2. /\ stream[c].left \in Nat /\ stream[c].written \in Nat /\ tcp[c].room \in Nat
  BY <1>0, <1>1, ConstantsAssumption DEF StreamState, Socket
<1> DEFINE rest == IF FitsWhole(c) THEN 0 ELSE stream[c].left - tcp[c].room
           room == IF FitsWhole(c) THEN tcp[c].room - stream[c].left ELSE 0
           sum == stream[c].written + Takes(c)
<1>3. /\ stream' = [stream EXCEPT ![c].left = rest, ![c].written = sum]
      /\ tcp' = [tcp EXCEPT ![c].room = room]
  <2>1. CASE WritePart(t)
    BY <1>0, <1>1, <2>1 DEF WritePart, Unwritten, Takes
  <2>2. CASE WriteDone(t)
    BY <1>0, <1>1, <2>2 DEF WriteDone, Takes
  <2> QED
    BY <2>1, <2>2
<1>4. /\ Takes(c) \in 0..stream[c].left /\ Takes(c) <= tcp[c].room
      /\ Takes(c) \in {stream[c].left, tcp[c].room}
      /\ rest = stream[c].left - Takes(c)
      /\ room = tcp[c].room - Takes(c)
  BY <1>2 DEF Takes, FitsWhole
<1> HIDE DEF rest, room, sum
<1>5. /\ \A d \in Conn \ {c} : stream'[d] = stream[d]
      /\ stream'[c].left = rest /\ stream'[c].written = sum
      /\ \A d \in Conn : /\ stream'[d].got = stream[d].got
                         /\ stream'[d].expired = stream[d].expired
                         /\ stream'[d].ended = stream[d].ended
  BY <1>0, <1>1, <1>3 DEF StreamState
<1>6. /\ \A d \in Conn \ {c} : tcp'[d] = tcp[d]
      /\ tcp'[c].room = room
      /\ \A d \in Conn : /\ tcp'[d].kind = tcp[d].kind
                         /\ tcp'[d].unsent = tcp[d].unsent
                         /\ tcp'[d].inbox = tcp[d].inbox
                         /\ tcp'[d].fin = tcp[d].fin
                         /\ tcp'[d].rst = tcp[d].rst
  BY <1>0, <1>1, <1>3 DEF Socket
<1> QED
  BY <1>1, <1>4, <1>5, <1>6 DEF sum

(* The loop's ends of the streams keep their type.                         *)
LEMMA StreamTyped ==
    ASSUME Base, Next
    PROVE  stream' \in [Conn -> StreamState]
<1> USE ConstantsAssumption
<1>0. tcp \in [Conn -> Socket] /\ stream \in [Conn -> StreamState]
  BY DEF Base, TypeOK
<1>1. ASSUME NEW c \in Conn, Expire(c)
      PROVE  stream' \in [Conn -> StreamState]
  BY <1>0, <1>1 DEF Expire, StreamState
<1>2. ASSUME AcceptFails \/ CloseListener
      PROVE  stream' \in [Conn -> StreamState]
  <2>1. PICK how \in Endings : stream' = EndBacklog(how)
    BY <1>2 DEF AcceptFails, CloseListener, Endings
  <2>2. \A c \in Conn : [stream[c] EXCEPT !.ended = how] \in StreamState
    BY <1>0 DEF StreamState
  <2> QED
    BY <1>0, <2>1, <2>2 DEF EndBacklog
<1>3. ASSUME NEW t \in StreamToken, ReadPart(t)
      PROVE  stream' \in [Conn -> StreamState]
  <2> DEFINE c == connOf[t]
             n == tcp[c].inbox
  <2>1. c \in Conn
    BY <1>3, SourceHasConn DEF ReadPart, Handling
  <2>2. /\ stream' = [stream EXCEPT ![c].got = @ + n]
        /\ n \in Nat /\ stream[c].got + n < RequestPieces
    BY <1>0, <1>3, <2>1 DEF ReadPart, Complete, StreamState, Socket
  <2> HIDE DEF n, c
  <2> QED
    BY <1>0, <2>1, <2>2 DEF StreamState
<1>4. ASSUME NEW t \in StreamToken, ReadFullRequest(t)
      PROVE  stream' \in [Conn -> StreamState]
  <2> DEFINE c == connOf[t]
  <2>1. c \in Conn
    BY <1>4, SourceHasConn DEF ReadFullRequest, Handling
  <2>2. stream' = [stream EXCEPT ![c].got = RequestPieces, ![c].left = ResponsePieces]
    BY <1>4 DEF ReadFullRequest
  <2>3. RequestPieces \in 0..RequestPieces /\ ResponsePieces \in 0..ResponsePieces
    OBVIOUS
  <2> HIDE DEF c
  <2> QED
    BY <1>0, <2>1, <2>2, <2>3 DEF StreamState
<1>5. ASSUME NEW t \in StreamToken, ReadRejected(t)
      PROVE  stream' \in [Conn -> StreamState]
  <2>1. connOf[t] \in Conn
    BY <1>5, SourceHasConn DEF ReadRejected, Handling
  <2>2. stream' = [stream EXCEPT ![connOf[t]].got = 0]
    BY <1>5 DEF ReadRejected
  <2> QED
    BY <1>0, <2>1, <2>2 DEF StreamState
<1>6. ASSUME NEW t \in StreamToken, WritePart(t) \/ WriteDone(t)
      PROVE  stream' \in [Conn -> StreamState]
  <2> DEFINE c == connOf[t]
             n == IF FitsWhole(c) THEN stream[c].left ELSE tcp[c].room
             rest == IF FitsWhole(c) THEN 0 ELSE stream[c].left - tcp[c].room
             sum == stream[c].written + n
  <2>1. c \in Conn
    BY <1>6, SourceHasConn DEF WritePart, WriteDone, Handling
  <2>2. stream' = [stream EXCEPT ![c].left = rest, ![c].written = sum]
    BY <1>6, <1>0, <2>1 DEF WritePart, WriteDone, Unwritten
  <2>3. rest \in 0..ResponsePieces /\ sum \in Nat
    BY <1>0, <2>1 DEF FitsWhole, StreamState, Socket
  <2> HIDE DEF c, rest, sum
  <2> QED
    BY <1>0, <2>1, <2>2, <2>3 DEF StreamState
<1>7. ASSUME NEW t \in StreamToken, ReadFails(t) \/ WriteFails(t) \/ CloseStream(t)
      PROVE  stream' \in [Conn -> StreamState]
  BY <1>0, <1>7, SourceHasConn DEF ReadFails, WriteFails, CloseStream, Drop, Handling,
                                   StreamState, Endings
<1>8. ASSUME NEW t \in Token, CheckCloses(t)
      PROVE  stream' \in [Conn -> StreamState]
  BY <1>0, <1>8, TokenFacts, SourceHasConn
     DEF CheckCloses, Drop, Base, SourcesKnown, StreamState, Endings
<1> QED
  BY <1>0, <1>1, <1>2, <1>3, <1>4, <1>5, <1>6, <1>7, <1>8, StreamChanges

(* A piece is sent, is in the socket, and is read; or is thrown away.      *)
LEMMA PiecesNext ==
    ASSUME Base, Next
    PROVE  PiecesBounded'
<1> USE ConstantsAssumption
<1>0. /\ tcp \in [Conn -> Socket] /\ stream \in [Conn -> StreamState]
      /\ PiecesBounded
  BY DEF Base, TypeOK
<1> SUFFICES ASSUME NEW d \in Conn
             PROVE  tcp'[d].unsent + tcp'[d].inbox + stream'[d].got <= RequestPieces
  BY DEF PiecesBounded
<1>1. /\ tcp[d].unsent + tcp[d].inbox + stream[d].got <= RequestPieces
      /\ tcp[d].unsent \in Nat /\ tcp[d].inbox \in Nat /\ stream[d].got \in Nat
  BY <1>0 DEF PiecesBounded, Socket, StreamState
<1>2. ASSUME NEW c \in Conn, NEW k \in RequestKinds, Connect(c, k)
      PROVE  tcp'[d].unsent + tcp'[d].inbox + stream'[d].got <= RequestPieces
  BY <1>0, <1>1, <1>2 DEF Connect, sourceVars, Socket
<1>3. ASSUME NEW c \in Conn, SendPiece(c)
      PROVE  tcp'[d].unsent + tcp'[d].inbox + stream'[d].got <= RequestPieces
  BY <1>0, <1>1, <1>3 DEF SendPiece, sourceVars, Socket
<1>4. ASSUME NEW c \in Conn, FinishSending(c) \/ Reset(c) \/ ReadPiece(c)
      PROVE  tcp'[d].unsent + tcp'[d].inbox + stream'[d].got <= RequestPieces
  BY <1>0, <1>1, <1>4 DEF FinishSending, Reset, ReadPiece, sourceVars, Socket
<1>5. ASSUME NEW t \in StreamToken, ReadPart(t)
      PROVE  tcp'[d].unsent + tcp'[d].inbox + stream'[d].got <= RequestPieces
  <2> DEFINE c == connOf[t]
  <2>1. c \in Conn
    BY <1>5, SourceHasConn DEF ReadPart, Handling
  <2>2. /\ stream' = [stream EXCEPT ![c].got = @ + tcp[c].inbox]
        /\ tcp' = [tcp EXCEPT ![c].inbox = 0]
    BY <1>5 DEF ReadPart
  <2> HIDE DEF c
  <2> QED
    BY <1>0, <1>1, <2>1, <2>2 DEF Socket, StreamState
<1>6. ASSUME NEW t \in StreamToken, ReadFullRequest(t)
      PROVE  tcp'[d].unsent + tcp'[d].inbox + stream'[d].got <= RequestPieces
  <2> DEFINE c == connOf[t]
  <2>1. c \in Conn
    BY <1>6, SourceHasConn DEF ReadFullRequest, Handling
  <2>2. /\ stream' = [stream EXCEPT ![c].got = RequestPieces, ![c].left = ResponsePieces]
        /\ tcp' = [tcp EXCEPT ![c].inbox = 0]
        /\ stream[c].got + tcp[c].inbox >= RequestPieces
    BY <1>6 DEF ReadFullRequest, Complete
  <2> HIDE DEF c
  <2>3. CASE d = c
    BY <1>0, <1>1, <2>1, <2>2, <2>3 DEF Socket, StreamState
  <2>4. CASE d # c
    BY <1>0, <1>1, <2>1, <2>2, <2>4
  <2> QED
    BY <2>3, <2>4
<1>7. ASSUME NEW t \in StreamToken, ReadRejected(t)
      PROVE  tcp'[d].unsent + tcp'[d].inbox + stream'[d].got <= RequestPieces
  <2>1. connOf[t] \in Conn
    BY <1>7, SourceHasConn DEF ReadRejected, Handling
  <2> QED
    BY <1>0, <1>1, <1>7, <2>1 DEF ReadRejected, Socket, StreamState
<1>8. ASSUME NEW t \in StreamToken, WritePart(t) \/ WriteDone(t)
      PROVE  tcp'[d].unsent + tcp'[d].inbox + stream'[d].got <= RequestPieces
  <2>1. connOf[t] \in Conn
    BY <1>8, WriteEffect
  <2>2. tcp'[d].unsent = tcp[d].unsent /\ tcp'[d].inbox = tcp[d].inbox
    BY <1>8, WriteEffect
  <2>3. stream'[d].got = stream[d].got
    BY <1>8, WriteEffect
  <2> QED
    BY <1>1, <2>2, <2>3
<1>9. ASSUME UNCHANGED tcp, stream'[d].got = stream[d].got
      PROVE  tcp'[d].unsent + tcp'[d].inbox + stream'[d].got <= RequestPieces
  BY <1>1, <1>9
<1>10. ASSUME NEW c \in Conn, Expire(c)
       PROVE  UNCHANGED tcp /\ stream'[d].got = stream[d].got
  BY <1>0, <1>10 DEF Expire, StreamState
<1>11. ASSUME AcceptFails \/ CloseListener
       PROVE  UNCHANGED tcp /\ stream'[d].got = stream[d].got
  <2>1. PICK how : stream' = EndBacklog(how) /\ UNCHANGED tcp
    BY <1>11 DEF AcceptFails, CloseListener
  <2> QED
    BY <1>0, <2>1 DEF EndBacklog, StreamState
<1>12. ASSUME NEW t \in Token, NEW how,
              UNCHANGED tcp, stream' = [stream EXCEPT ![connOf[t]].ended = how]
       PROVE  UNCHANGED tcp /\ stream'[d].got = stream[d].got
  BY <1>0, <1>12 DEF StreamState
<1>13. ASSUME NEW t \in Token,
              ReadFails(t) \/ WriteFails(t) \/ CloseStream(t) \/ CheckCloses(t)
       PROVE  UNCHANGED tcp /\ stream'[d].got = stream[d].got
  BY <1>12, <1>13 DEF ReadFails, WriteFails, CloseStream, CheckCloses, Drop
<1> QED
  BY <1>1, <1>2, <1>3, <1>4, <1>5, <1>6, <1>7, <1>8, <1>9, <1>10, <1>11, <1>13,
     TcpChanges, StreamChanges, TokenFacts

(* Nothing but a connect changes what a connection carries.                *)
LEMMA KindsKept ==
    ASSUME Base, Next, ~\E c \in Conn, k \in RequestKinds : Connect(c, k)
    PROVE  \A d \in Conn : tcp'[d].kind = tcp[d].kind
<1> SUFFICES ASSUME NEW d \in Conn PROVE tcp'[d].kind = tcp[d].kind
  OBVIOUS
<1>0. tcp \in [Conn -> Socket]
  BY DEF Base, TypeOK
<1>1. ASSUME NEW c \in Conn, SendPiece(c) \/ FinishSending(c) \/ Reset(c) \/ ReadPiece(c)
      PROVE  tcp'[d].kind = tcp[d].kind
  BY <1>0, <1>1 DEF SendPiece, FinishSending, Reset, ReadPiece, Socket
<1>2. ASSUME NEW t \in StreamToken,
             ReadPart(t) \/ ReadFullRequest(t) \/ ReadRejected(t) \/ WritePart(t) \/ WriteDone(t)
      PROVE  tcp'[d].kind = tcp[d].kind
  <2>1. connOf[t] \in Conn
    BY <1>2, SourceHasConn
       DEF ReadPart, ReadFullRequest, ReadRejected, WritePart, WriteDone, Handling
  <2>2. CASE ReadPart(t) \/ ReadFullRequest(t) \/ ReadRejected(t)
    BY <1>0, <2>1, <2>2 DEF ReadPart, ReadFullRequest, ReadRejected, Socket
  <2>3. CASE WritePart(t) \/ WriteDone(t)
    BY <2>3, WriteEffect
  <2> QED
    BY <1>2, <2>2, <2>3
<1> QED
  BY <1>1, <1>2, TcpChanges

-----------------------------------------------------------------------------
(* Accepting.                                                              *)

(* Every connection can have a token.                                      *)
LEMMA TokensSuffice ==
    ASSUME Base
    PROVE  /\ Len(backlog) \in Nat /\ tokenCounter \in Nat
           /\ \A k \in 1..Len(backlog) :
                 tokenCounter + k \in StreamToken /\ connOf[tokenCounter + k] = NoConn
<1>1. IsFiniteSet(Connected) /\ Cardinality(Connected) <= Cardinality(Conn)
  BY FS_Subset, ConstantsAssumption DEF Connected
<1>2. Cardinality(Connected) \in Nat /\ Cardinality(Conn) \in Nat
  BY <1>1, FS_CardinalityType, ConstantsAssumption
<1>3. /\ Len(backlog) \in Nat /\ tokenCounter \in Nat /\ tokenCounter >= 1
      /\ tokenCounter + Len(backlog) <= 1 + Cardinality(Conn)
  BY <1>1, <1>2 DEF Base, TypeOK, BacklogFresh, TokensNumbered, ListenerToken
<1>4. ASSUME NEW k \in 1..Len(backlog)
      PROVE  tokenCounter + k \in StreamToken /\ connOf[tokenCounter + k] = NoConn
  <2>1. /\ tokenCounter + k \in Nat /\ tokenCounter + k > 1
        /\ tokenCounter + k <= 1 + Cardinality(Conn)
        /\ ~(tokenCounter + k <= tokenCounter)
    BY <1>2, <1>3
  <2>2. tokenCounter + k \in StreamToken
    BY <2>1, TokenFacts
  <2> QED
    BY <2>1, <2>2 DEF Base, TokensNumbered
<1> QED
  BY <1>3, <1>4

(* The stream accepted k-th gets the k-th token behind the counter's.      *)
LEMMA AcceptNumbers ==
    ASSUME Base, AcceptAll
    PROVE  /\ backlog' = <<>>
           /\ tokenCounter' = tokenCounter + Len(backlog)
           /\ connOf' \in [StreamToken -> Conn \cup {NoConn}]
           /\ \A t \in StreamToken :
                 /\ t <= tokenCounter => connOf'[t] = connOf[t]
                 /\ t > tokenCounter + Len(backlog) => connOf'[t] = NoConn
           /\ \A k \in 1..Len(backlog) : connOf'[tokenCounter + k] = backlog[k]
<1> DEFINE n == Len(backlog)
<1>1. /\ backlog \in Seq(Conn) /\ n \in Nat /\ tokenCounter \in Nat
      /\ \A i \in 1..n : backlog[i] \in Conn
      /\ connOf \in [StreamToken -> Conn \cup {NoConn}]
      /\ StreamToken \subseteq Nat
  BY TokenFacts DEF Base, TypeOK
<1>2. connOf' = [t \in StreamToken |->
               IF t - tokenCounter \in 1..n THEN backlog[t - tokenCounter] ELSE connOf[t]]
  BY DEF AcceptAll, Accepted
<1>3. backlog' = <<>>
  BY <1>1 DEF AcceptAll, Accepted
<1>4. tokenCounter' = tokenCounter + n
  BY DEF AcceptAll, Accepted, CounterAfter
<1>5. ASSUME NEW t \in StreamToken
      PROVE  /\ connOf'[t] \in Conn \cup {NoConn}
             /\ t <= tokenCounter => connOf'[t] = connOf[t]
             /\ t > tokenCounter + n => connOf'[t] = NoConn
  <2>1. t > tokenCounter + n => t - tokenCounter \notin 1..n /\ ~(t <= tokenCounter)
    BY <1>1
  <2>2. connOf[t] # NoConn <=> t <= tokenCounter
    BY DEF Base, TokensNumbered
  <2> QED
    BY <1>1, <1>2, <2>1, <2>2
<1>6. ASSUME NEW k \in 1..n
      PROVE  connOf'[tokenCounter + k] = backlog[k]
  <2>1. (tokenCounter + k) - tokenCounter = k /\ tokenCounter + k \in StreamToken
    BY <1>1, TokensSuffice
  <2> QED
    BY <1>2, <2>1
<1> QED
  BY <1>2, <1>3, <1>4, <1>5, <1>6

(* Two commands are submitted for it, the source before the check.         *)
LEMMA AcceptCommands ==
    ASSUME Base, AcceptAll
    PROVE  /\ queue' \in Seq(Command)
           /\ Len(queue') = Len(queue) + 2 * Len(backlog)
           /\ \A i \in 1..Len(queue) : queue'[i] = queue[i]
           /\ \A k \in 1..Len(backlog) :
                 /\ queue'[Len(queue) + 2 * k - 1] = New(tokenCounter + k)
                 /\ queue'[Len(queue) + 2 * k] = CheckTimeout(tokenCounter + k)
           /\ \A i \in 1..Len(queue') :
                 \/ i \in 1..Len(queue)
                 \/ \E k \in 1..Len(backlog) : i \in {Len(queue) + 2 * k - 1, Len(queue) + 2 * k}
<1> DEFINE n == Len(backlog)
           L == Len(queue)
           more == [i \in 1..(2 * n) |->
                       SourceAndCheck(tokenCounter + (i + 1) \div 2)[2 - (i % 2)]]
<1>1. queue \in Seq(Command) /\ L \in Nat /\ n \in Nat /\ tokenCounter \in Nat
  BY TokensSuffice DEF Base, TypeOK
<1>2. queue' = queue \o more
  BY DEF AcceptAll, Accepted
<1>3. ASSUME NEW k \in 1..n
      PROVE  /\ more[2 * k - 1] = New(tokenCounter + k)
             /\ more[2 * k] = CheckTimeout(tokenCounter + k)
  <2>1. /\ 2 * k - 1 \in 1..(2 * n) /\ 2 * k \in 1..(2 * n)
        /\ ((2 * k - 1) + 1) \div 2 = k /\ (2 * k + 1) \div 2 = k
        /\ (2 * k - 1) % 2 = 1 /\ (2 * k) % 2 = 0
    BY <1>1
  <2>2. /\ SourceAndCheck(tokenCounter + k)[1] = New(tokenCounter + k)
        /\ SourceAndCheck(tokenCounter + k)[2] = CheckTimeout(tokenCounter + k)
    BY DEF SourceAndCheck
  <2>3. more[2 * k - 1] = SourceAndCheck(tokenCounter + k)[2 - 1]
    BY <2>1
  <2>4. more[2 * k] = SourceAndCheck(tokenCounter + k)[2 - 0]
    BY <2>1
  <2> QED
    BY <2>2, <2>3, <2>4
<1>4. ASSUME NEW i \in 1..(2 * n)
      PROVE  \E k \in 1..n : i \in {2 * k - 1, 2 * k}
  <2>1. (i + 1) \div 2 \in 1..n /\ i \in {2 * ((i + 1) \div 2) - 1, 2 * ((i + 1) \div 2)}
    BY <1>1
  <2> QED
    BY <2>1
<1> HIDE DEF more
<1>5. \A i \in 1..(2 * n) : more[i] \in Command
  <2> SUFFICES ASSUME NEW i \in 1..(2 * n) PROVE more[i] \in Command
    OBVIOUS
  <2>1. PICK k \in 1..n : i \in {2 * k - 1, 2 * k}
    BY <1>4
  <2>2. tokenCounter + k \in Token
    BY TokensSuffice, TokenFacts
  <2>3. more[i] \in {New(tokenCounter + k), CheckTimeout(tokenCounter + k)}
    BY <1>3, <2>1
  <2>4. {New(tokenCounter + k), CheckTimeout(tokenCounter + k)} \subseteq Command
    BY <2>2, CommandFacts
  <2> QED
    BY <2>3, <2>4
<1>6. more \in Seq(Command) /\ Len(more) = 2 * n
  <2>1. DOMAIN more = 1..(2 * n) /\ more = [i \in 1..(2 * n) |-> more[i]]
    BY DEF more
  <2> QED
    BY <1>1, <1>5, <2>1
<1>7. /\ queue' \in Seq(Command) /\ Len(queue') = L + 2 * n
      /\ \A i \in 1..(L + 2 * n) : queue'[i] = IF i <= L THEN queue[i] ELSE more[i - L]
  BY <1>1, <1>2, <1>6, ConcatProperties
<1>8. ASSUME NEW k \in 1..n
      PROVE  /\ queue'[L + 2 * k - 1] = New(tokenCounter + k)
             /\ queue'[L + 2 * k] = CheckTimeout(tokenCounter + k)
  <2>1. /\ L + 2 * k - 1 \in 1..(L + 2 * n) /\ L + 2 * k \in 1..(L + 2 * n)
        /\ ~(L + 2 * k - 1 <= L) /\ ~(L + 2 * k <= L)
        /\ (L + 2 * k - 1) - L = 2 * k - 1 /\ (L + 2 * k) - L = 2 * k
    BY <1>1
  <2> QED
    BY <1>3, <1>7, <2>1
<1>9. ASSUME NEW i \in 1..Len(queue'), i \notin 1..L
      PROVE  \E k \in 1..n : i \in {L + 2 * k - 1, L + 2 * k}
  <2>1. i - L \in 1..(2 * n)
    BY <1>1, <1>7, <1>9
  <2>2. PICK k \in 1..n : i - L \in {2 * k - 1, 2 * k}
    BY <1>4, <2>1
  <2> QED
    BY <1>1, <2>2
<1> QED
  BY <1>1, <1>7, <1>8, <1>9

(* A connection that is opened was not, and waits for its token.           *)
LEMMA ConnectEffect ==
    ASSUME Base, NEW c \in Conn, NEW k \in RequestKinds, Connect(c, k)
    PROVE  /\ c \notin Connected /\ Connected' = Connected \cup {c}
           /\ Cardinality(Connected') = Cardinality(Connected) + 1
           /\ backlog' \in Seq(Conn) /\ Len(backlog') = Len(backlog) + 1
           /\ \A i \in 1..Len(backlog) : backlog'[i] = backlog[i]
           /\ backlog'[Len(backlog) + 1] = c
           /\ UNCHANGED <<tokenCounter, connOf>>
<1>1. /\ tcp \in [Conn -> Socket] /\ backlog \in Seq(Conn)
  BY DEF Base, TypeOK
<1>2. /\ tcp[c].kind = "none" /\ k # "none"
      /\ \A d \in Conn : tcp'[d].kind = IF d = c THEN k ELSE tcp[d].kind
  BY <1>1, ConstantsAssumption DEF Connect, Socket, AllKinds
<1>3. c \notin Connected /\ Connected' = Connected \cup {c}
  BY <1>2 DEF Connected
<1>4. IsFiniteSet(Connected)
  BY FS_Subset, ConstantsAssumption DEF Connected
<1>5. Cardinality(Connected') = Cardinality(Connected) + 1
  BY <1>3, <1>4, FS_AddElement
<1> QED
  BY <1>1, <1>3, <1>5, AppendProperties DEF Connect, sourceVars

(* Tokens stay numbered, and the backlog without tokens.                   *)
LEMMA TokensNext ==
    ASSUME Base, Next
    PROVE  TokensNumbered' /\ BacklogFresh' /\ backlog' \in Seq(Conn)
           /\ connOf' \in [StreamToken -> Conn \cup {NoConn}] /\ tokenCounter' \in Nat
<1>0. /\ TokensNumbered /\ BacklogFresh
      /\ backlog \in Seq(Conn) /\ Len(backlog) \in Nat /\ tokenCounter \in Nat
      /\ connOf \in [StreamToken -> Conn \cup {NoConn}]
      /\ StreamToken \subseteq Nat
  BY TokenFacts DEF Base, TypeOK
<1>1. Cardinality(Connected) \in Nat
  BY FS_Subset, FS_CardinalityType, ConstantsAssumption DEF Connected
<1>2. ASSUME NEW c \in Conn, NEW k \in RequestKinds, Connect(c, k)
      PROVE  TokensNumbered' /\ BacklogFresh' /\ backlog' \in Seq(Conn)
  <2>1. \A t \in StreamToken : connOf[t] # c
    BY <1>0, <1>2, ConnectEffect, ConstantsAssumption DEF TokensNumbered
  <2>2. \A i \in 1..Len(backlog) : backlog[i] # c
    BY <1>0, <1>2, ConnectEffect DEF BacklogFresh
  <2>3. TokensNumbered'
    BY <1>0, <1>2, ConnectEffect DEF TokensNumbered
  <2>4. tokenCounter' + Len(backlog') <= ListenerToken + Cardinality(Connected')
    BY <1>0, <1>1, <1>2, ConnectEffect DEF BacklogFresh, ListenerToken
  <2>5. \A i \in 1..Len(backlog') : i \in 1..Len(backlog) \/ i = Len(backlog) + 1
    BY <1>0, <1>2, ConnectEffect
  <2>6. \A i, j \in 1..Len(backlog') : backlog'[i] = backlog'[j] => i = j
    BY <1>0, <1>2, <2>2, <2>5, ConnectEffect DEF BacklogFresh
  <2>7. \A i \in 1..Len(backlog') :
           backlog'[i] \in Connected' /\ \A t \in StreamToken : connOf'[t] # backlog'[i]
    BY <1>0, <1>2, <2>1, <2>5, ConnectEffect DEF BacklogFresh
  <2> QED
    BY <1>2, <2>3, <2>4, <2>6, <2>7, ConnectEffect DEF BacklogFresh
<1>3. ASSUME ~\E c \in Conn, k \in RequestKinds : Connect(c, k)
      PROVE  Connected' = Connected
  BY <1>3, KindsKept DEF Connected
<1>4. ASSUME AcceptAll
      PROVE  TokensNumbered' /\ BacklogFresh' /\ backlog' \in Seq(Conn)
  <2> DEFINE n == Len(backlog)
  <2>1. Connected' = Connected
    BY <1>4 DEF AcceptAll, Connected
  <2>2. /\ backlog' = <<>> /\ tokenCounter' = tokenCounter + n
        /\ \A t \in StreamToken :
              \/ t <= tokenCounter /\ connOf'[t] = connOf[t]
              \/ /\ t - tokenCounter \in 1..n /\ connOf'[t] = backlog[t - tokenCounter]
                 /\ connOf[t] = NoConn
              \/ t > tokenCounter + n /\ connOf'[t] = NoConn
    <3>1. ASSUME NEW t \in StreamToken, ~(t <= tokenCounter), ~(t > tokenCounter + n)
          PROVE  t - tokenCounter \in 1..n /\ tokenCounter + (t - tokenCounter) = t
      BY <1>0, <3>1
    <3> QED
      BY <1>0, <1>4, <3>1, AcceptNumbers DEF TokensNumbered
  <2>3. ASSUME NEW t \in StreamToken
        PROVE  connOf'[t] # NoConn <=> t <= tokenCounter'
    <3>1. t \in Nat /\ tokenCounter \in Nat /\ n \in Nat /\ tokenCounter' = tokenCounter + n
      BY <1>0, <2>2
    <3>2. CASE t <= tokenCounter /\ connOf'[t] = connOf[t]
      BY <1>0, <3>1, <3>2 DEF TokensNumbered
    <3>3. CASE t - tokenCounter \in 1..n /\ connOf'[t] = backlog[t - tokenCounter]
      BY <1>0, <3>1, <3>3, ConstantsAssumption
    <3>4. CASE t > tokenCounter + n /\ connOf'[t] = NoConn
      BY <3>1, <3>4
    <3> QED BY <2>2, <3>2, <3>3, <3>4
  <2>4. ASSUME NEW t \in StreamToken, NEW u \in StreamToken,
               connOf'[t] = connOf'[u], connOf'[t] # NoConn
        PROVE  t = u
    <3>1. CASE t <= tokenCounter /\ u <= tokenCounter
      BY <1>0, <2>2, <2>4, <3>1 DEF TokensNumbered
    <3>2. CASE t - tokenCounter \in 1..n /\ u - tokenCounter \in 1..n
      <4>1. connOf'[t] = backlog[t - tokenCounter] /\ connOf'[u] = backlog[u - tokenCounter]
        BY <1>0, <2>2, <3>2
      <4>2. backlog[t - tokenCounter] = backlog[u - tokenCounter]
        BY <2>4, <4>1
      <4>3. \A i, j \in 1..n : backlog[i] = backlog[j] => i = j
        BY <1>0 DEF BacklogFresh
      <4>4. t - tokenCounter = u - tokenCounter
        BY <3>2, <4>2, <4>3
      <4> QED
        BY <1>0, <4>4
    <3>3. CASE t <= tokenCounter /\ u - tokenCounter \in 1..n
      <4>1. connOf'[t] = connOf[t] /\ connOf'[u] = backlog[u - tokenCounter]
        BY <1>0, <2>2, <3>3
      <4> QED
        BY <2>4, <3>3, <4>1, <1>0 DEF BacklogFresh
    <3>4. CASE u <= tokenCounter /\ t - tokenCounter \in 1..n
      <4>1. connOf'[u] = connOf[u] /\ connOf'[t] = backlog[t - tokenCounter]
        BY <1>0, <2>2, <3>4
      <4> QED
        BY <2>4, <3>4, <4>1, <1>0 DEF BacklogFresh
    <3> QED
      BY <2>2, <2>4, <3>1, <3>2, <3>3, <3>4
  <2>5. \A t \in StreamToken : connOf'[t] # NoConn => connOf'[t] \in Connected'
    BY <1>0, <2>1, <2>2 DEF TokensNumbered, BacklogFresh
  <2>6. TokensNumbered'
    BY <1>0, <2>2, <2>3, <2>4, <2>5 DEF TokensNumbered, ListenerToken
  <2>7. Len(backlog') = 0
    BY <2>2
  <2> QED
    BY <1>0, <1>1, <2>1, <2>2, <2>6, <2>7 DEF BacklogFresh, ListenerToken
<1>5. ASSUME ~\E c \in Conn, k \in RequestKinds : Connect(c, k), ~AcceptAll
      PROVE  TokensNumbered' /\ BacklogFresh' /\ backlog' \in Seq(Conn)
  <2>1. UNCHANGED <<tokenCounter, connOf>> /\ Connected' = Connected
    BY <1>3, <1>5, TokensChange
  <2>2. TokensNumbered'
    BY <1>0, <2>1 DEF TokensNumbered
  <2>3. backlog' = <<>> \/ backlog' = backlog
    BY <1>5, BacklogChanges
  <2>4. CASE backlog' = <<>>
    BY <1>0, <1>1, <2>1, <2>2, <2>4 DEF BacklogFresh, ListenerToken
  <2>5. CASE backlog' = backlog
    BY <1>0, <2>1, <2>2, <2>5 DEF BacklogFresh
  <2> QED
    BY <2>3, <2>4, <2>5
<1>6. connOf' \in [StreamToken -> Conn \cup {NoConn}] /\ tokenCounter' \in Nat
  BY <1>0, TokensChange, AcceptNumbers
<1> QED
  BY <1>2, <1>4, <1>5, <1>6

(* A token names its connection for good.                                  *)
LEMMA ConnStays ==
    ASSUME Base, Next, NEW t \in StreamToken, connOf[t] # NoConn
    PROVE  connOf'[t] = connOf[t]
BY TokensChange, AcceptNumbers DEF Base, TokensNumbered

(* What a step puts into the channel, and what it takes out.               *)
LEMMA QueueSteps ==
    ASSUME Base, Next, ~AcceptAll
    PROVE  \/ queue' = queue
           \/ queue # <<>> /\ queue' = Tail(queue) /\ TakesCommand
           \/ \E q \in Command :
                 /\ queue' = Append(queue, q)
                 /\ \/ SubmitListener /\ q = New(ListenerToken)
                    \/ SubmitStdin /\ q = New(StdinToken)
                    \/ HandleLine /\ q = CloseSource(ListenerToken)
                    \/ \E t \in StreamToken : ReadFullRequest(t) /\ q = ModifyInterests(t)
                    \/ \E t \in StreamToken : ReadRejected(t) /\ q = CloseSource(t)
                    \/ \E t \in StreamToken : WriteDone(t) /\ q = CloseSource(t)
                    \/ Resubmit /\ resubmits # <<>> /\ q = CheckTimeout(Head(resubmits))
<1>0. queue \in Seq(Command) /\ resubmits \in Seq(Token)
  BY DEF Base, TypeOK
<1>1. CASE SubmitListener
  BY <1>1, TokenFacts, CommandFacts DEF SubmitListener
<1>2. CASE SubmitStdin
  BY <1>2, TokenFacts, CommandFacts DEF SubmitStdin
<1>3. CASE HandleLine
  BY <1>3, TokenFacts, CommandFacts DEF HandleLine
<1>4. CASE Resubmit
  <2>1. Head(resubmits) \in Token
    BY <1>0, <1>4 DEF Resubmit
  <2> QED
    BY <1>4, <2>1, CommandFacts DEF Resubmit
<1>5. ASSUME NEW t \in StreamToken, ReadFullRequest(t)
      PROVE  \E q \in Command : queue' = Append(queue, q) /\ q = ModifyInterests(t)
  BY <1>5, TokenFacts, CommandFacts DEF ReadFullRequest, AskWritable
<1>6. ASSUME NEW t \in StreamToken, ReadRejected(t) \/ WriteDone(t)
      PROVE  \E q \in Command : queue' = Append(queue, q) /\ q = CloseSource(t)
  BY <1>6, TokenFacts, CommandFacts DEF ReadRejected, WriteDone
<1>7. CASE TakesCommand
  BY <1>7 DEF TakesCommand, Executed
<1> QED
  BY <1>1, <1>2, <1>3, <1>4, <1>5, <1>6, <1>7, QueueChanges

(* The channel holds commands.                                             *)
LEMMA QueueTyped ==
    ASSUME Base, Next
    PROVE  queue' \in Seq(Command)
<1>1. queue \in Seq(Command)
  BY DEF Base, TypeOK
<1>2. \A q \in Command : Append(queue, q) \in Seq(Command)
  BY <1>1
<1>3. queue # <<>> => Tail(queue) \in Seq(Command)
  BY <1>1
<1> QED
  BY <1>1, <1>2, <1>3, AcceptCommands, QueueSteps

(* What is in the channel after a step was in it, or is new.               *)
LEMMA QueueContents ==
    ASSUME Base, Next, NEW i \in 1..Len(queue')
    PROVE  \/ queue' = queue
           \/ TakesCommand /\ i + 1 \in 1..Len(queue) /\ queue'[i] = queue[i + 1]
           \/ ~TakesCommand /\ i \in 1..Len(queue) /\ queue'[i] = queue[i]
           \/ i = Len(queue) + 1 /\ queue' = Append(queue, queue'[i])
           \/ AcceptAll /\ \E k \in 1..Len(backlog) :
                              queue'[i] \in {New(tokenCounter + k), CheckTimeout(tokenCounter + k)}
<1>1. queue \in Seq(Command)
  BY DEF Base, TypeOK
<1>2. CASE AcceptAll
  <2>1. ~TakesCommand
    BY <1>2 DEF AcceptAll, Handling, TakesCommand
  <2> QED
    <3>1. CASE i \in 1..Len(queue)
      BY <1>2, <2>1, <3>1, AcceptCommands
    <3>2. CASE i \notin 1..Len(queue)
      <4>1. PICK k \in 1..Len(backlog) : i \in {Len(queue) + 2 * k - 1, Len(queue) + 2 * k}
        BY <1>2, <3>2, AcceptCommands
      <4>2. queue'[i] \in {New(tokenCounter + k), CheckTimeout(tokenCounter + k)}
        BY <1>2, <4>1, AcceptCommands
      <4> QED
        BY <1>2, <4>2
    <3> QED
      BY <3>1, <3>2
<1>3. ASSUME NEW q \in Command, queue' = Append(queue, q)
      PROVE  \/ i \in 1..Len(queue) /\ queue'[i] = queue[i]
             \/ i = Len(queue) + 1 /\ queue'[i] = q
  <2>1. /\ Len(queue) \in Nat /\ Len(queue') = Len(queue) + 1
        /\ \A j \in 1..Len(queue) : queue'[j] = queue[j]
        /\ queue'[Len(queue) + 1] = q
    BY <1>1, <1>3, AppendProperties
  <2> QED
    BY <2>1
<1>4. ASSUME queue # <<>>, queue' = Tail(queue)
      PROVE  i + 1 \in 1..Len(queue) /\ queue'[i] = queue[i + 1]
  BY <1>1, <1>4, HeadTailProperties
<1>5. ASSUME NEW q \in Command, queue' = Append(queue, q)
      PROVE  ~TakesCommand
  BY <1>1, <1>5, AppendProperties, HeadTailProperties DEF TakesCommand, Executed
<1> QED
  BY <1>2, <1>3, <1>4, <1>5, QueueSteps

(* What is to be resubmitted are tokens.                                   *)
LEMMA ResubmitsTyped ==
    ASSUME Base, Next
    PROVE  /\ resubmits' \in Seq(Token)
           /\ \A i \in 1..Len(resubmits') :
                 resubmits'[i] \in StreamToken /\ connOf'[resubmits'[i]] # NoConn
<1>0. /\ resubmits \in Seq(Token) /\ CommandsKnown /\ SourcesKnown
  BY DEF Base, TypeOK
<1>1. CASE Resubmit
  <2>1. resubmits # <<>> /\ resubmits' = Tail(resubmits) /\ UNCHANGED connOf
    BY <1>1 DEF Resubmit, sourceVars
  <2> QED
    BY <1>0, <2>1, HeadTailProperties DEF CommandsKnown
<1>2. ASSUME NEW t \in Token, CheckResubmits(t)
      PROVE  /\ resubmits' \in Seq(Token)
             /\ \A i \in 1..Len(resubmits') :
                   resubmits'[i] \in StreamToken /\ connOf'[resubmits'[i]] # NoConn
  <2>1. resubmits' = Append(resubmits, t) /\ UNCHANGED connOf /\ sources[t] = "read"
    BY <1>2 DEF CheckResubmits, sourceVars
  <2>2. t \in StreamToken /\ connOf[t] # NoConn
    BY <1>0, <2>1, TokenFacts DEF SourcesKnown
  <2> QED
    BY <1>0, <2>1, <2>2, AppendProperties DEF CommandsKnown
<1>3. CASE UNCHANGED resubmits
  BY <1>0, <1>3, ConnStays DEF CommandsKnown
<1> QED
  BY <1>1, <1>2, <1>3, ResubmitsChange

(* A command that is submitted is about an accepted stream, or is one of   *)
(* the listener's or of standard input's.                                  *)
LEMMA CommandsNext ==
    ASSUME Base, Next
    PROVE  CommandsKnown'
<1>0. /\ queue \in Seq(Command) /\ resubmits \in Seq(Token) /\ CommandsKnown /\ SourcesKnown
  BY DEF Base, TypeOK
<1>1. ASSUME NEW q \in Command, CommandKnown(q)
      PROVE  CommandKnown(q)'
  BY <1>1, ConnStays DEF CommandKnown
<1>2. ASSUME NEW t \in StreamToken, connOf'[t] # NoConn
      PROVE  /\ CommandKnown(New(t))'
             /\ CommandKnown(ModifyInterests(t))'
             /\ CommandKnown(CloseSource(t))'
             /\ CommandKnown(CheckTimeout(t))'
  BY <1>2, TokenFacts, CommandFacts DEF CommandKnown
<1>3. /\ CommandKnown(New(StdinToken))'
      /\ CommandKnown(New(ListenerToken))'
      /\ CommandKnown(CloseSource(ListenerToken))'
  BY TokenFacts, CommandFacts DEF CommandKnown
<1>4. ASSUME NEW i \in 1..Len(queue'), NEW q, q = queue'[i]
      PROVE  CommandKnown(q)'
  <2>1. CASE AcceptAll
    <3> DEFINE n == Len(backlog)
    <3>1. ASSUME NEW k \in 1..n
          PROVE  tokenCounter + k \in StreamToken /\ connOf'[tokenCounter + k] # NoConn
      <4>1. backlog[k] \in Conn
        BY <3>1 DEF Base, TypeOK
      <4> QED
        BY <2>1, <3>1, <4>1, TokensSuffice, AcceptNumbers, ConstantsAssumption
    <3>2. CASE i \in 1..Len(queue)
      BY <1>0, <1>1, <1>4, <2>1, <3>2, AcceptCommands, ElementOfSeq DEF CommandsKnown
    <3>3. ASSUME NEW k \in 1..n, i \in {Len(queue) + 2 * k - 1, Len(queue) + 2 * k}
          PROVE  CommandKnown(q)'
      BY <1>2, <1>4, <2>1, <3>1, <3>3, AcceptCommands
    <3> QED
      BY <1>4, <2>1, <3>2, <3>3, AcceptCommands
  <2>2. ASSUME NEW j \in 1..Len(queue), queue'[i] = queue[j]
        PROVE  CommandKnown(q)'
    BY <1>0, <1>1, <1>4, <2>2, ElementOfSeq DEF CommandsKnown
  <2>3. ASSUME ~AcceptAll, i = Len(queue) + 1, queue' = Append(queue, queue'[i])
        PROVE  CommandKnown(q)'
    <3>1. ASSUME NEW t \in StreamToken, ReadFullRequest(t) \/ ReadRejected(t) \/ WriteDone(t)
          PROVE  connOf'[t] # NoConn
      BY <1>0, <3>1, ConnStays DEF ReadFullRequest, ReadRejected, WriteDone, Handling, SourcesKnown
    <3>2. ASSUME resubmits # <<>>
          PROVE  Head(resubmits) \in StreamToken /\ connOf'[Head(resubmits)] # NoConn
      BY <1>0, <3>2, ConnStays DEF CommandsKnown
    <3>3. ASSUME NEW p \in Command, queue' = Append(queue, p)
          PROVE  p = q
      BY <1>0, <1>4, <2>3, <3>3, AppendProperties
    <3>4. queue' # queue /\ ~TakesCommand
      BY <1>0, <2>3, QueueTyped, AppendProperties, HeadTailProperties DEF TakesCommand, Executed
    <3> QED
      BY <1>2, <1>3, <1>4, <2>3, <3>1, <3>2, <3>3, <3>4, QueueSteps
  <2> QED
    BY <2>1, <2>2, <2>3, QueueContents
<1> QED
  BY <1>4, ResubmitsTyped DEF CommandsKnown, CommandKnown

(* The command at the head of the channel names an accepted stream.        *)
LEMMA HeadKnown ==
    ASSUME Base, queue # <<>>
    PROVE  /\ 1 \in 1..Len(queue) /\ Head(queue) = queue[1] /\ Head(queue) \in Command
           /\ CommandKnown(Head(queue))
BY HeadTailProperties, EmptySeq DEF Base, TypeOK, CommandsKnown

(* The map keeps its type, and its streams are connections' streams.       *)
LEMMA SourcesNext ==
    ASSUME Base, Next
    PROVE  /\ SourcesKnown'
           /\ sources' \in [Token -> {"none", "listener", "stdin", "read", "write", "close"}]
<1>0. /\ sources \in [Token -> {"none", "listener", "stdin", "read", "write", "close"}]
      /\ SourcesKnown
  BY DEF Base, TypeOK
<1>1. ASSUME NEW t \in Token, NEW what, sources' = [sources EXCEPT ![t] = what],
             \/ what = "none"
             \/ t \in StreamToken /\ connOf[t] # NoConn /\ what \in {"read", "write", "close"}
             \/ t = StdinToken /\ what = "stdin"
             \/ t = ListenerToken /\ what = "listener"
      PROVE  /\ SourcesKnown'
             /\ sources' \in [Token -> {"none", "listener", "stdin", "read", "write", "close"}]
  <2>1. sources' \in [Token -> {"none", "listener", "stdin", "read", "write", "close"}]
    BY <1>0, <1>1
  <2>2. \A u \in Token : sources'[u] = IF u = t THEN what ELSE sources[u]
    BY <1>0, <1>1
  <2>3. /\ sources'[StdinToken] \in {"none", "stdin"}
        /\ sources'[ListenerToken] \in {"none", "listener"}
    BY <1>0, <1>1, <2>2, TokenFacts DEF SourcesKnown
  <2>4. ASSUME NEW u \in StreamToken
        PROVE  /\ sources'[u] \in {"none", "read", "write", "close"}
               /\ sources'[u] # "none" => connOf'[u] # NoConn
    <3>1. CASE u = t
      BY <1>1, <2>2, <3>1, TokenFacts, ConnStays
    <3>2. CASE u # t
      BY <1>0, <2>2, <3>2, TokenFacts, ConnStays DEF SourcesKnown
    <3> QED
      BY <3>1, <3>2
  <2> QED
    BY <2>1, <2>3, <2>4 DEF SourcesKnown
<1>2. CASE AcceptFails \/ HandleLineFails \/ CloseListener
  BY <1>1, <1>2, TokenFacts DEF AcceptFails, HandleLineFails, CloseListener
<1>3. ASSUME NEW t \in StreamToken, ReadFullRequest(t) \/ WriteDone(t)
      PROVE  /\ SourcesKnown'
             /\ sources' \in [Token -> {"none", "listener", "stdin", "read", "write", "close"}]
  <2>1. connOf[t] # NoConn
    BY <1>0, <1>3 DEF ReadFullRequest, WriteDone, Handling, SourcesKnown
  <2> QED
    BY <1>1, <1>3, <2>1, TokenFacts DEF ReadFullRequest, WriteDone
<1>4. ASSUME NEW t \in StreamToken, ReadFails(t) \/ WriteFails(t) \/ CloseStream(t)
      PROVE  sources' = [sources EXCEPT ![t] = "none"]
  BY <1>4 DEF ReadFails, WriteFails, CloseStream, Drop
<1>5. ASSUME NEW t \in Token, CheckCloses(t)
      PROVE  sources' = [sources EXCEPT ![t] = "none"]
  BY <1>5 DEF CheckCloses, Drop
<1>6. ASSUME NEW t \in Token, RegisterSource(t)
      PROVE  /\ SourcesKnown'
             /\ sources' \in [Token -> {"none", "listener", "stdin", "read", "write", "close"}]
  <2>1. t \in StreamToken => connOf[t] # NoConn
    BY <1>6, HeadKnown DEF RegisterSource, Executing, CommandKnown
  <2>2. sources' = [sources EXCEPT ![t] = SourceOf(t)]
    BY <1>6 DEF RegisterSource
  <2>3. \/ t = StdinToken /\ SourceOf(t) = "stdin"
        \/ t = ListenerToken /\ SourceOf(t) = "listener"
        \/ t \in StreamToken /\ SourceOf(t) = "read"
    BY TokenFacts DEF SourceOf
  <2> QED
    BY <1>1, <2>1, <2>2, <2>3
<1>7. CASE UNCHANGED sources
  BY <1>0, <1>7, ConnStays DEF SourcesKnown
<1> QED
  BY <1>1, <1>2, <1>3, <1>4, <1>5, <1>6, <1>7, SourcesChange, TokenFacts

(* The phases and the batch keep their types.                              *)
LEMMA ControlTyped ==
    ASSUME Base, Next
    PROVE  /\ startup' \in {"listener", "stdin", "join"}
           /\ loopPc' \in {"poll", "events", "reading", "commands", "resubmit",
                          "stopped", "failed", "hung"}
           /\ batch' \in SUBSET Token
<1>0. /\ startup \in {"listener", "stdin", "join"}
      /\ loopPc \in {"poll", "events", "reading", "commands", "resubmit",
                     "stopped", "failed", "hung"}
      /\ batch \in SUBSET Token /\ ready \in SUBSET Token
  BY DEF Base, TypeOK
<1>1. CASE \/ \E t \in Token : ExecuteCommand(t)
           \/ \E t \in StreamToken : HandleStream(t)
  <2>1. CASE \E t \in Token : ExecuteCommand(t)
    BY <1>0, <2>1 DEF ExecuteCommand, RegisterSource, ReregisterSource,
         CloseListener, CloseStream, AlreadyClosed, CheckCloses, CheckResubmits,
         CheckEnds, loopVars, Executed
  <2>2. CASE \E t \in StreamToken : HandleStream(t)
    BY <1>0, <2>2 DEF HandleStream, ReadPart, ReadFullRequest, ReadRejected, ReadFails,
         ReadPanics, ReadHangs, WritePart, WriteDone, WriteFails, Handling, Stops
  <2> QED
    BY <1>1, <2>1, <2>2
<1>2. CASE FaultStep
  BY <1>0, <1>2 DEF FaultStep, PollFails, AcceptPanics, AcceptFails, CommandFails,
       loopVars, Handling, Executed, Stops, StopsByFault, Fired
<1>3. CASE PollReturns
  <2>1. Fired \in SUBSET Token
    BY <1>0 DEF Fired
  <2> QED
    BY <1>0, <1>3, <2>1 DEF PollReturns
<1>4. CASE \/ BatchDone \/ CommandsDone \/ Resubmit \/ NextIteration
           \/ AcceptAll \/ HandleLine \/ HandleLineFails \/ WaitForLine
           \/ \E t \in Token : EventWithoutSource(t)
  BY <1>0, <1>4 DEF BatchDone, CommandsDone, Resubmit, NextIteration,
       AcceptAll, HandleLine, HandleLineFails, WaitForLine, LineHandled,
       EventWithoutSource, loopVars, Handling, Stops
<1>5. CASE \/ MainStep \/ \E c \in Conn : ClientStep(c) \/ Expire(c)
           \/ \E l \in LineKinds : TypeLine(l)
  BY <1>0, <1>5 DEF MainStep, ClientStep, Connect, SendPiece, FinishSending, Reset,
       ReadPiece, TypeLine, Expire, SubmitListener, SubmitStdin, loopVars
<1> QED
  BY <1>1, <1>2, <1>3, <1>4, <1>5 DEF Next, LoopStep

(* Tokens are put on epoll's list, and watched, by commands, clients and   *)
(* the terminal.                                                           *)
LEMMA EpollChanges ==
    ASSUME Next
    PROVE  \/ \E c \in Conn : \/ \E k \in RequestKinds : Connect(c, k)
                              \/ SendPiece(c) \/ FinishSending(c)
                              \/ Reset(c) \/ ReadPiece(c)
           \/ \E l \in LineKinds : TypeLine(l)
           \/ PollReturns \/ AcceptFails \/ CloseListener
           \/ \E t \in StreamToken : ReadFails(t) \/ WriteFails(t) \/ CloseStream(t)
           \/ \E t \in Token : RegisterSource(t) \/ ReregisterSource(t) \/ CheckCloses(t)
           \/ UNCHANGED epollVars
BY DEF Next, LoopStep, FaultStep, MainStep, ClientStep, ExecuteCommand, HandleStream,
       Expire, SubmitListener, SubmitStdin, PollFails,
       AcceptPanics, WaitForLine, EventWithoutSource,
       AcceptAll, HandleLine, HandleLineFails, ReadPart,
       ReadFullRequest, ReadRejected, ReadPanics, ReadHangs, WritePart,
       WriteDone, BatchDone, AlreadyClosed, CheckResubmits,
       CheckEnds, CommandFails, CommandsDone, Resubmit, NextIteration, epollVars

(* What epoll knows are tokens and interests.                              *)
LEMMA EpollTyped ==
    ASSUME Base, Next
    PROVE  /\ interest' \in [Token -> {"none", "readable", "writable"}]
           /\ ready' \in SUBSET Token
<1>0. /\ interest \in [Token -> {"none", "readable", "writable"}]
      /\ ready \in SUBSET Token
  BY DEF Base, TypeOK
<1>1. ASSUME NEW c \in Conn, \/ \E k \in RequestKinds : Connect(c, k)
                             \/ SendPiece(c) \/ FinishSending(c)
                             \/ Reset(c) \/ ReadPiece(c)
      PROVE  UNCHANGED interest /\ ready' \in SUBSET Token
  BY <1>0, <1>1, TokenFacts
     DEF Connect, SendPiece, FinishSending, Reset, ReadPiece, Edge
<1>2. ASSUME NEW l \in LineKinds, TypeLine(l)
      PROVE  UNCHANGED interest /\ ready' \in SUBSET Token
  BY <1>0, <1>2, TokenFacts DEF TypeLine
<1>3. CASE PollReturns
  BY <1>0, <1>3 DEF PollReturns, Fired
<1>4. ASSUME NEW t \in Token, NEW what \in {"readable", "writable"}, NEW is, Register(t, what, is)
      PROVE  /\ interest' \in [Token -> {"none", "readable", "writable"}]
             /\ ready' \in SUBSET Token
  BY <1>0, <1>4 DEF Register
<1>5. ASSUME NEW t \in Token, Unregister(t)
      PROVE  /\ interest' \in [Token -> {"none", "readable", "writable"}]
             /\ ready' \in SUBSET Token
  BY <1>0, <1>5 DEF Unregister
<1>6. CASE AcceptFails \/ CloseListener
  BY <1>5, <1>6, TokenFacts DEF AcceptFails, CloseListener
<1>7. ASSUME NEW t \in Token,
             \/ t \in StreamToken /\ (ReadFails(t) \/ WriteFails(t) \/ CloseStream(t))
             \/ CheckCloses(t)
      PROVE  Unregister(t)
  BY <1>7 DEF ReadFails, WriteFails, CloseStream, CheckCloses, Drop
<1>8. ASSUME NEW t \in Token, RegisterSource(t) \/ ReregisterSource(t)
      PROVE  /\ interest' \in [Token -> {"none", "readable", "writable"}]
             /\ ready' \in SUBSET Token
  BY <1>0, <1>4, <1>8 DEF RegisterSource, ReregisterSource, epollVars
<1> QED
  BY <1>0, <1>1, <1>2, <1>3, <1>5, <1>6, <1>7, <1>8, EpollChanges, TokenFacts DEF epollVars

(* Lines are typed, read, and waited for by standard input's handler.      *)
LEMMA StdinChanges ==
    ASSUME Next
    PROVE  \/ \E l \in LineKinds : TypeLine(l)
           \/ HandleLine \/ HandleLineFails \/ WaitForLine
           \/ UNCHANGED stdinVars
BY DEF Next, LoopStep, FaultStep, MainStep, ClientStep, ExecuteCommand, HandleStream,
       Connect, SendPiece, FinishSending, Reset, ReadPiece, Expire,
       SubmitListener, SubmitStdin, PollReturns, PollFails, AcceptPanics, EventWithoutSource,
       AcceptAll, AcceptFails, ReadPart,
       ReadFullRequest, ReadRejected, ReadFails, ReadPanics, ReadHangs, WritePart,
       WriteDone, WriteFails, BatchDone, RegisterSource, ReregisterSource,
       CloseListener, CloseStream, AlreadyClosed, CheckCloses, CheckResubmits,
       CheckEnds, CommandFails, CommandsDone, Resubmit, NextIteration

(* Lines that are typed stay lines, wherever they are buffered.            *)
LEMMA StdinTyped ==
    ASSUME Base, Next
    PROVE  /\ typed' \in Seq(AllLines) /\ lineBuffer' \in Seq(AllLines)
           /\ lines' \in Seq(AllLines)
<1>0. /\ typed \in Seq(AllLines) /\ lineBuffer \in Seq(AllLines) /\ lines \in Seq(AllLines)
      /\ LineKinds \subseteq AllLines
  BY ConstantsAssumption DEF Base, TypeOK
<1>1. ASSUME NEW l \in LineKinds, TypeLine(l)
      PROVE  /\ typed' \in Seq(AllLines) /\ lineBuffer' \in Seq(AllLines)
             /\ lines' \in Seq(AllLines)
  BY <1>0, <1>1, AppendProperties DEF TypeLine
<1>2. ASSUME NEW line, ReadLine(line)
      PROVE  typed' \in Seq(AllLines) /\ lineBuffer' \in Seq(AllLines)
  <2>1. ASSUME NEW s \in Seq(AllLines), NEW n \in 1..Len(s)
        PROVE  SubSeq(s, n + 1, Len(s)) \in Seq(AllLines)
    BY <2>1, SubSeqProperties
  <2> QED
    BY <1>0, <1>2, <2>1, EmptySeq DEF ReadLine
<1>3. CASE HandleLine \/ HandleLineFails
  BY <1>0, <1>2, <1>3 DEF HandleLine, HandleLineFails
<1>4. CASE WaitForLine
  BY <1>0, <1>4, EmptySeq DEF WaitForLine
<1> QED
  BY <1>0, <1>1, <1>3, <1>4, StdinChanges DEF stdinVars

(* Every step keeps the first layer.                                       *)
LEMMA BaseNext ==
    ASSUME Base, [Next]_vars
    PROVE  Base'
<1>1. CASE Next
  <2>1. TypeOK'
    BY <1>1, TcpTyped, StreamTyped, QueueTyped, ResubmitsTyped, SourcesNext, ControlTyped,
       EpollTyped, StdinTyped, TokensNext DEF TypeOK
  <2> QED
    BY <1>1, <2>1, PiecesNext, TokensNext, CommandsNext, SourcesNext DEF Base
<1>2. CASE UNCHANGED vars
  BY <1>2 DEF vars, loopVars, sourceVars, commandVars, epollVars, stdinVars, Base, TypeOK,
              TokensNumbered, BacklogFresh, SourcesKnown, CommandsKnown, CommandKnown,
              PiecesBounded, Connected
<1> QED
  BY <1>1, <1>2

(* Every variable of the loop keeps its type; in particular, no more tokens *)
(* are given out than there are connections.                               *)
THEOREM TypeCorrect == Spec => []TypeOK
<1>1. Spec => []Base
  BY BaseInit, BaseNext, PTL DEF Spec
<1>2. Base => TypeOK
  BY DEF Base
<1> QED
  BY <1>1, <1>2, PTL
=============================================================================
