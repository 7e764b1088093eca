----------------------------- MODULE EventLoop -----------------------------
(***************************************************************************)
(* The "select" concurrency model: the event loop of select.rs, the main   *)
(* thread that starts it (main.rs, select_multiplex), and the kernel it    *)
(* talks to: an edge-triggered epoll instance (that is how mio registers   *)
(* on Linux), the sockets' buffers, and standard input.                    *)
(*                                                                         *)
(* A step of the loop is one poll, the handling of one event, or the       *)
(* execution of one command.  A handler touches one socket and the channel *)
(* of commands; nobody else reads that socket, so handling an event is one *)
(* step: what arrives during it either was read or raises a new edge.      *)
(* Only read_line is different: standard input is not set to non-blocking, *)
(* so the loop's thread waits in it for the end of a line ("reading").     *)
(* Bytes are counted in pieces: a request is RequestPieces reads long.     *)
(***************************************************************************)
EXTENDS Naturals, Sequences, FiniteSets

CONSTANTS
    Conn,            \* the TCP connections clients may open
    RequestKinds,    \* what they carry, a subset of AllKinds
    RequestPieces,   \* pieces in a request
    ResponsePieces,  \* pieces in a response
    SendBuffer,      \* pieces a socket's send buffer holds
    EventCapacity,   \* events one poll returns at most (128 in the code)
    LineKinds,       \* what may be typed, a subset of AllLines
    MaxLines,        \* bound: lines and parts of lines typed
    Faults,          \* which faults of the system happen, a subset of AllFaults
    NoConn           \* no connection

(***************************************************************************)
(* "page"  a request that is answered;  "bad"  one the parser rejects;     *)
(* "panic" one whose handling panics;  "hang" one whose script never ends. *)
(* "garbled" is a line that is not UTF-8, so that read_line returns Err;   *)
(* "part" the beginning of a line, sent to a pipe or with Ctrl-D: which    *)
(* line it is says its end, a newline or the end of input.                 *)
(* "poll" poll returns Err (a signal);  "registry" an epoll_ctl returns    *)
(* Err (standard input is a file);  "accept" accept returns an Err other   *)
(* than WouldBlock (no descriptor is left);  "host" Host::new panics, as   *)
(* CacheSize overflows in a debug build, or gets no memory for the cache   *)
(* it reserves for every connection.                                       *)
(***************************************************************************)
AllKinds == {"page", "bad", "panic", "hang"}
AllLines == {"shutdown", "other", "garbled", "part"}
AllFaults == {"poll", "registry", "accept", "host"}

ASSUME ConstantsAssumption ==
    /\ IsFiniteSet(Conn)
    /\ RequestKinds \subseteq AllKinds
    /\ RequestPieces \in Nat \ {0}
    /\ ResponsePieces \in Nat \ {0}
    /\ SendBuffer \in Nat \ {0}
    /\ EventCapacity \in Nat \ {0}
    /\ LineKinds \subseteq AllLines
    /\ MaxLines \in Nat
    /\ Faults \subseteq AllFaults
    /\ NoConn \notin Conn

VARIABLES
    startup,      \* where the main thread is
    loopPc,       \* the phase of EventLoop::next
    batch,        \* tokens of the events still to be handled
    sources,      \* event_sources: what each token maps to, "none" if nothing
    tokenCounter, \* the counter the listener's source carries
    connOf,       \* connOf[t]: the connection accepted under token t
    queue,        \* the channel of commands
    resubmits,    \* new_commands: tokens of timeout checks to submit again
    stream,       \* stream[c]: the server's end of connection c
    interest,     \* epoll: what each token is registered for
    ready,        \* epoll: tokens with an edge not reported yet
    tcp,          \* tcp[c]: the client and the socket buffers of connection c
    backlog,      \* connected, not accepted, in order
    typed,        \* lines the kernel holds for standard input
    lineBuffer,   \* lines in the buffer of std::io::Stdin
    lines         \* all lines and parts typed so far

loopVars == <<startup, loopPc, batch>>
sourceVars == <<sources, tokenCounter, connOf, stream>>
commandVars == <<queue, resubmits>>
epollVars == <<interest, ready>>
stdinVars == <<typed, lineBuffer, lines>>
vars == <<loopVars, sourceVars, commandVars, epollVars, tcp, backlog, stdinVars>>

StdinToken == 0
ListenerToken == 1
StreamToken == 2..(1 + Cardinality(Conn))
Token == {StdinToken, ListenerToken} \cup StreamToken

Ops == {"new", "modify", "close", "check"}
Command == [op : Ops, token : Token]
New(t) == [op |-> "new", token |-> t]
ModifyInterests(t) == [op |-> "modify", token |-> t]  \* always to WRITABLE
CloseSource(t) == [op |-> "close", token |-> t]
CheckTimeout(t) == [op |-> "check", token |-> t]

Endings == {"none", "answered", "rejected", "timedOut", "dropped", "refused"}

StreamState == [got : 0..RequestPieces, left : 0..ResponsePieces, written : Nat,
                expired : BOOLEAN, ended : Endings]

Socket == [kind : AllKinds \cup {"none"}, unsent : 0..RequestPieces,
           inbox : 0..RequestPieces, fin : BOOLEAN, rst : BOOLEAN, room : 0..SendBuffer]

TypeOK ==
    /\ startup \in {"listener", "stdin", "join"}
    /\ loopPc \in {"poll", "events", "reading", "commands", "resubmit",
                  "stopped", "failed", "hung"}
    /\ batch \in SUBSET Token
    /\ sources \in [Token ->
           {"none", "listener", "stdin", "read", "write", "close"}]
    /\ tokenCounter \in Nat
    /\ connOf \in [StreamToken -> Conn \cup {NoConn}]
    /\ queue \in Seq(Command)
    /\ resubmits \in Seq(Token)
    /\ stream \in [Conn -> StreamState]
    /\ interest \in [Token -> {"none", "readable", "writable"}]
    /\ ready \in SUBSET Token
    /\ tcp \in [Conn -> Socket]
    /\ backlog \in Seq(Conn)
    /\ typed \in Seq(AllLines)
    /\ lineBuffer \in Seq(AllLines)
    /\ lines \in Seq(AllLines)

\* The listener is bound and the loop's thread runs; no command is sent yet.
Init ==
    /\ startup = "listener"
    /\ loopPc = "poll"
    /\ batch = {}
    /\ sources = [t \in Token |-> "none"]
    /\ tokenCounter = ListenerToken
    /\ connOf = [t \in StreamToken |-> NoConn]
    /\ queue = <<>>
    /\ resubmits = <<>>
    /\ stream = [c \in Conn |-> [got |-> 0, left |-> 0, written |-> 0,
                                 expired |-> FALSE, ended |-> "none"]]
    /\ interest = [t \in Token |-> "none"]
    /\ ready = {}
    /\ tcp = [c \in Conn |-> [kind |-> "none", unsent |-> RequestPieces,
                              inbox |-> 0, fin |-> FALSE, rst |-> FALSE,
                              room |-> SendBuffer]]
    /\ backlog = <<>>
    /\ typed = <<>>
    /\ lineBuffer = <<>>
    /\ lines = <<>>
-----------------------------------------------------------------------------
(* The kernel: readiness, and the edges that put a token on epoll's list.  *)

Readable(t) ==
    \/ t = StdinToken /\ typed # <<>>
    \/ t = ListenerToken /\ backlog # <<>>
    \/ /\ t \in StreamToken /\ connOf[t] # NoConn
       /\ LET s == tcp[connOf[t]] IN s.inbox > 0 \/ s.fin \/ s.rst

Writable(t) == /\ t \in StreamToken /\ connOf[t] # NoConn
               /\ LET s == tcp[connOf[t]] IN s.room > 0 \/ s.rst

Ready(t) == \/ interest[t] = "readable" /\ Readable(t)
            \/ interest[t] = "writable" /\ Writable(t)

\* epoll's list once connection c has raised an edge for `wanted` interests.
Edge(c, wanted) ==
    ready \cup {t \in StreamToken : connOf[t] = c /\ interest[t] \in wanted}

\* epoll_ctl ADD or MOD: the token is listed at once if it is ready.
Register(t, what, isReady) ==
    /\ interest' = [interest EXCEPT ![t] = what]
    /\ ready' = IF isReady THEN ready \cup {t} ELSE ready

\* The descriptor is closed, or taken out of epoll and then closed.
Unregister(t) ==
    /\ interest' = [interest EXCEPT ![t] = "none"]
    /\ ready' = ready \ {t}

ListenerOpen == \/ startup = "listener"
                \/ \E i \in 1..Len(queue) : queue[i] = New(ListenerToken)
                \/ sources[ListenerToken] = "listener"

\* Connections of the backlog end this way, the others stay.
EndBacklog(how) == [c \in Conn |->
    IF \E i \in 1..Len(backlog) : backlog[i] = c
    THEN [stream[c] EXCEPT !.ended = how] ELSE stream[c]]
-----------------------------------------------------------------------------
(* Clients and the terminal.                                               *)

\* Once the loop has stopped the process ends, and everything with it.
Running == loopPc \notin {"stopped", "failed"}

Open(c) == Running /\ tcp[c].kind # "none" /\ stream[c].ended = "none" /\ ~tcp[c].rst

Connect(c, k) ==
    /\ Running /\ ListenerOpen
    /\ tcp[c].kind = "none"
    /\ tcp' = [tcp EXCEPT ![c].kind = k]
    /\ backlog' = Append(backlog, c)
    /\ ready' = IF interest[ListenerToken] = "readable"
                THEN ready \cup {ListenerToken} ELSE ready
    /\ UNCHANGED <<loopVars, sourceVars, commandVars, interest, stdinVars>>

SendPiece(c) ==
    /\ Open(c) /\ tcp[c].unsent > 0 /\ ~tcp[c].fin
    /\ tcp' = [tcp EXCEPT ![c].unsent = @ - 1, ![c].inbox = @ + 1]
    /\ ready' = Edge(c, {"readable"})
    /\ UNCHANGED <<loopVars, sourceVars, commandVars, interest, backlog, stdinVars>>

\* The client shuts its sending side.
FinishSending(c) ==
    /\ Open(c) /\ ~tcp[c].fin
    /\ tcp' = [tcp EXCEPT ![c].fin = TRUE]
    /\ ready' = Edge(c, {"readable"})
    /\ UNCHANGED <<loopVars, sourceVars, commandVars, interest, backlog, stdinVars>>

\* The client aborts the connection.
Reset(c) ==
    /\ Open(c)
    /\ tcp' = [tcp EXCEPT ![c].rst = TRUE]
    /\ ready' = Edge(c, {"readable", "writable"})
    /\ UNCHANGED <<loopVars, sourceVars, commandVars, interest, backlog, stdinVars>>

\* The client reads: space that was missing in the send buffer is an edge.
ReadPiece(c) ==
    /\ Open(c) /\ tcp[c].room < SendBuffer
    /\ tcp' = [tcp EXCEPT ![c].room = @ + 1]
    /\ ready' = IF tcp[c].room = 0 THEN Edge(c, {"writable"}) ELSE ready
    /\ UNCHANGED <<loopVars, sourceVars, commandVars, interest, backlog, stdinVars>>

TypeLine(l) ==
    /\ Running /\ Len(lines) < MaxLines
    /\ lines' = Append(lines, l)
    /\ typed' = Append(typed, l)
    /\ ready' = IF interest[StdinToken] = "readable"
                THEN ready \cup {StdinToken} ELSE ready
    /\ UNCHANGED <<loopVars, sourceVars, commandVars, interest, tcp, backlog,
                   lineBuffer>>

\* STREAM_TIMEOUT has passed since connection c was accepted.
Expire(c) ==
    /\ Running /\ \E t \in StreamToken : connOf[t] = c
    /\ stream[c].ended = "none" /\ ~stream[c].expired
    /\ stream' = [stream EXCEPT ![c].expired = TRUE]
    /\ UNCHANGED <<loopVars, sources, tokenCounter, connOf, commandVars,
                   epollVars, tcp, backlog, stdinVars>>
-----------------------------------------------------------------------------
(* The main thread.                                                        *)

SubmitListener ==
    /\ Running /\ startup = "listener"
    /\ startup' = "stdin"
    /\ queue' = Append(queue, New(ListenerToken))
    /\ UNCHANGED <<loopPc, batch, sourceVars, resubmits, epollVars, tcp,
                   backlog, stdinVars>>

SubmitStdin ==
    /\ Running /\ startup = "stdin"
    /\ startup' = "join"
    /\ queue' = Append(queue, New(StdinToken))
    /\ UNCHANGED <<loopPc, batch, sourceVars, resubmits, epollVars, tcp,
                   backlog, stdinVars>>
-----------------------------------------------------------------------------
(* EventLoop::next: the poll.                                              *)

Fired == {t \in ready : Ready(t)}

\* poll returns: with all that is ready or as much as `events` holds; with
\* nothing when POLL_TIMEOUT passes.
PollReturns ==
    /\ loopPc = "poll"
    /\ \E b \in SUBSET Fired :
          /\ \/ b = Fired /\ Cardinality(b) <= EventCapacity
             \/ Cardinality(b) = EventCapacity
          /\ batch' = b
          /\ ready' = Fired \ b
    /\ loopPc' = "events"
    /\ UNCHANGED <<startup, sourceVars, commandVars, interest, tcp, backlog,
                   stdinVars>>

\* An Err that `?` passes on: next and run return, and main's join with them.
Stops == loopPc' = "stopped"

\* The same, and a fault of the system is the cause.
StopsByFault == loopPc' = "failed"

PollFails ==
    /\ loopPc = "poll"
    /\ "poll" \in Faults
    /\ StopsByFault
    /\ UNCHANGED <<startup, batch, sourceVars, commandVars, epollVars, tcp,
                   backlog, stdinVars>>
-----------------------------------------------------------------------------
(* EventLoop::next: the events.                                            *)

Handling(t, what) ==
    /\ loopPc = "events"
    /\ t \in batch
    /\ sources[t] = what
    /\ batch' = batch \ {t}
    /\ UNCHANGED startup

\* event_sources has no such token.
EventWithoutSource(t) ==
    /\ Handling(t, "none")
    /\ Stops
    /\ UNCHANGED <<sourceVars, commandVars, epollVars, tcp, backlog, stdinVars>>

\* Mutant: one accept for each event.
AcceptedOnce == 1

\* Accepts until WouldBlock.
Accepted == Len(backlog)

\* Mutant: the check is submitted before the source.
CheckAndSource(t) == <<CheckTimeout(t), New(t)>>

\* What is submitted for the stream accepted under token t, source first.
SourceAndCheck(t) == <<New(t), CheckTimeout(t)>>

\* Mutant: the listener is put back with the counter it had.
CounterKept(n) == tokenCounter

\* The counter the listener is put back with after n accepts.
CounterAfter(n) == tokenCounter + n

\* handle_listener_event: every accepted stream gets the next token.
AcceptAll ==
    LET n == Accepted
    IN  /\ Handling(ListenerToken, "listener")
        /\ tokenCounter' = CounterAfter(n)
        /\ connOf' = [t \in StreamToken |->
               IF t - tokenCounter \in 1..n THEN backlog[t - tokenCounter]
                                            ELSE connOf[t]]
        /\ queue' = queue \o [i \in 1..(2 * n) |->
               SourceAndCheck(tokenCounter + (i + 1) \div 2)[2 - (i % 2)]]
        /\ backlog' = SubSeq(backlog, n + 1, Len(backlog))
        /\ UNCHANGED <<loopPc, sources, stream, resubmits, epollVars, tcp,
                       stdinVars>>

\* handle_listener_event returns Err: the listener is dropped with the streams
\* this call had accepted; the kernel resets the rest of the backlog.
AcceptFails ==
    /\ Handling(ListenerToken, "listener")
    /\ "accept" \in Faults
    /\ sources' = [sources EXCEPT ![ListenerToken] = "none"]
    /\ stream' = EndBacklog("dropped")
    /\ backlog' = <<>>
    /\ Unregister(ListenerToken)
    /\ UNCHANGED <<loopPc, tokenCounter, connOf, commandVars, tcp, stdinVars>>

\* Host::new panics for an accepted stream, and the loop's thread with it.
AcceptPanics ==
    /\ Handling(ListenerToken, "listener")
    /\ "host" \in Faults /\ backlog # <<>>
    /\ Stops
    /\ UNCHANGED <<sourceVars, commandVars, epollVars, tcp, backlog, stdinVars>>

\* No line ends in s.
NoLine(s) == \A i \in 1..Len(s) : s[i] = "part"

\* The first line of s ends with its n-th element.
EndsFirstLine(s, n) == s[n] # "part" /\ \A i \in 1..(n - 1) : s[i] = "part"

\* read_line: what is buffered comes first; a read(2) returns one line (from a
\* terminal) or everything there is (from a pipe).
ReadLine(line) ==
    \/ \E n \in 1..Len(lineBuffer) :
          /\ EndsFirstLine(lineBuffer, n)
          /\ line = lineBuffer[n]
          /\ lineBuffer' = SubSeq(lineBuffer, n + 1, Len(lineBuffer))
          /\ UNCHANGED typed
    \/ /\ NoLine(lineBuffer)
       /\ \E n \in 1..Len(typed) :
             LET rest == SubSeq(typed, n + 1, Len(typed))
             IN  /\ EndsFirstLine(typed, n)
                 /\ line = typed[n]
                 /\ \/ typed' = rest /\ lineBuffer' = <<>>
                    \/ typed' = <<>> /\ lineBuffer' = rest

\* read_line finds parts of a line only: it waits for the rest, and the loop
\* with it.
WaitForLine ==
    /\ Handling(StdinToken, "stdin")
    /\ NoLine(lineBuffer) /\ NoLine(typed)
    /\ loopPc' = "reading"
    /\ typed' = <<>> /\ lineBuffer' = <<>>
    /\ UNCHANGED <<sourceVars, commandVars, epollVars, tcp, backlog, lines>>

\* handle_stdin_event is called, or its read_line goes on, and returns.
LineHandled ==
    /\ \/ Handling(StdinToken, "stdin")
       \/ loopPc = "reading" /\ UNCHANGED <<startup, batch>>
    /\ loopPc' = "events"

\* handle_stdin_event: one line for each event.
HandleLine ==
    /\ LineHandled
    /\ \E line \in AllLines \ {"garbled"} :
          /\ ReadLine(line)
          /\ queue' = IF line = "shutdown"
                      THEN Append(queue, CloseSource(ListenerToken)) ELSE queue
    /\ UNCHANGED <<sourceVars, resubmits, epollVars, tcp, backlog, lines>>

\* read_line returns Err: the source is dropped, which closes no descriptor.
HandleLineFails ==
    /\ LineHandled
    /\ ReadLine("garbled")
    /\ sources' = [sources EXCEPT ![StdinToken] = "none"]
    /\ UNCHANGED <<tokenCounter, connOf, stream, commandVars, epollVars,
                   tcp, backlog, lines>>

\* Mutant: the descriptor stays in epoll.
DropStaysRegistered(t, how) ==
    /\ sources' = [sources EXCEPT ![t] = "none"]
    /\ stream' = [stream EXCEPT ![connOf[t]].ended = how]
    /\ UNCHANGED epollVars

\* The stream is dropped with its source: its descriptor is closed.
Drop(t, how) ==
    /\ sources' = [sources EXCEPT ![t] = "none"]
    /\ stream' = [stream EXCEPT ![connOf[t]].ended = how]
    /\ Unregister(t)

Complete(c) == stream[c].got + tcp[c].inbox >= RequestPieces

\* The read arm: read until WouldBlock or end of input; the request is not
\* complete and the stream goes on being read, even after the end of input.
ReadPart(t) ==
    LET c == connOf[t]
    IN  /\ Handling(t, "read")
        /\ ~tcp[c].rst /\ ~Complete(c)
        /\ stream' = [stream EXCEPT ![c].got = @ + tcp[c].inbox]
        /\ tcp' = [tcp EXCEPT ![c].inbox = 0]
        /\ UNCHANGED <<loopPc, sources, tokenCounter, connOf, commandVars,
                       epollVars, backlog, stdinVars>>

\* Mutant: the interests are left as they are.
LeaveReadable(t) == UNCHANGED queue

\* ModifyInterests(token, WRITABLE) is submitted.
AskWritable(t) == queue' = Append(queue, ModifyInterests(t))

\* The request is complete: it is handled at once, and the stream's interests
\* are to be modified.
ReadFullRequest(t) ==
    LET c == connOf[t]
    IN  /\ Handling(t, "read")
        /\ ~tcp[c].rst /\ Complete(c) /\ tcp[c].kind = "page"
        /\ stream' = [stream EXCEPT ![c].got = RequestPieces,
                                    ![c].left = ResponsePieces]
        /\ tcp' = [tcp EXCEPT ![c].inbox = 0]
        /\ sources' = [sources EXCEPT ![t] = "write"]
        /\ AskWritable(t)
        /\ UNCHANGED <<loopPc, tokenCounter, connOf, resubmits, epollVars,
                       backlog, stdinVars>>

\* try_parse_request returns Err: the stream keeps its source, with an empty
\* request, until the command closes it.
ReadRejected(t) ==
    LET c == connOf[t]
    IN  /\ Handling(t, "read")
        /\ Complete(c) /\ tcp[c].kind = "bad"
        /\ stream' = [stream EXCEPT ![c].got = 0]
        /\ tcp' = [tcp EXCEPT ![c].inbox = 0]
        /\ queue' = Append(queue, CloseSource(t))
        /\ UNCHANGED <<loopPc, sources, tokenCounter, connOf, resubmits,
                       epollVars, backlog, stdinVars>>

\* read returns Err, or peer_addr does once the request is complete.
ReadFails(t) ==
    LET c == connOf[t]
    IN  /\ Handling(t, "read")
        /\ tcp[c].rst /\ ~(Complete(c) /\ tcp[c].kind = "bad")
        /\ Drop(t, "dropped")
        /\ UNCHANGED <<loopPc, tokenCounter, connOf, commandVars, tcp, backlog,
                       stdinVars>>

\* handle panics, and the loop's thread with it.
ReadPanics(t) ==
    LET c == connOf[t]
    IN  /\ Handling(t, "read")
        /\ ~tcp[c].rst /\ Complete(c) /\ tcp[c].kind = "panic"
        /\ Stops
        /\ UNCHANGED <<sourceVars, commandVars, epollVars, tcp, backlog,
                       stdinVars>>

\* handle waits for the script's output, on the loop's thread: nothing else is
\* served, no timeout checked, while clients and the terminal go on.
ReadHangs(t) ==
    LET c == connOf[t]
    IN  /\ Handling(t, "read")
        /\ ~tcp[c].rst /\ Complete(c) /\ tcp[c].kind = "hang"
        /\ loopPc' = "hung"
        /\ UNCHANGED <<sourceVars, commandVars, epollVars, tcp, backlog,
                       stdinVars>>

\* Mutant: what was written is kept as well.
KeepAll(c, n) == stream[c].left

\* &bytes[bytes_written..] after n more pieces.
Unwritten(c, n) == stream[c].left - n

\* Mutant: one write is taken to have written everything.
TakenWhole(c) == TRUE

\* The socket takes all that is left.
FitsWhole(c) == stream[c].left <= tcp[c].room

\* The write arm: write until WouldBlock; what could not be written is kept.
WritePart(t) ==
    LET c == connOf[t]
        n == tcp[c].room
    IN  /\ Handling(t, "write")
        /\ ~tcp[c].rst /\ ~FitsWhole(c)
        /\ stream' = [stream EXCEPT ![c].left = Unwritten(c, n),
                                    ![c].written = @ + n]
        /\ tcp' = [tcp EXCEPT ![c].room = 0]
        /\ UNCHANGED <<loopPc, sources, tokenCounter, connOf, commandVars,
                       epollVars, backlog, stdinVars>>

\* Everything is written (write of nothing returns 0): close the source.
WriteDone(t) ==
    LET c == connOf[t]
        n == stream[c].left
    IN  /\ Handling(t, "write")
        /\ ~tcp[c].rst /\ FitsWhole(c)
        /\ stream' = [stream EXCEPT ![c].left = 0, ![c].written = @ + n]
        /\ tcp' = [tcp EXCEPT ![c].room = @ - n]
        /\ sources' = [sources EXCEPT ![t] = "close"]
        /\ queue' = Append(queue, CloseSource(t))
        /\ UNCHANGED <<loopPc, tokenCounter, connOf, resubmits, epollVars,
                       backlog, stdinVars>>

WriteFails(t) ==
    /\ Handling(t, "write")
    /\ tcp[connOf[t]].rst
    /\ Drop(t, "dropped")
    /\ UNCHANGED <<loopPc, tokenCounter, connOf, commandVars, tcp, backlog,
                   stdinVars>>

\* Mutant: the commands run before the events are handled.
BatchPostponed ==
    /\ loopPc = "events"
    /\ loopPc' = "commands"
    /\ UNCHANGED <<startup, batch, sourceVars, commandVars, epollVars, tcp,
                   backlog, stdinVars>>

BatchDone ==
    /\ loopPc = "events"
    /\ batch = {}
    /\ loopPc' = "commands"
    /\ UNCHANGED <<startup, batch, sourceVars, commandVars, epollVars, tcp,
                   backlog, stdinVars>>
-----------------------------------------------------------------------------
(* EventLoop::next: the commands.                                          *)

\* The next command is `op` on token t.
Executing(op, t) ==
    /\ loopPc = "commands"
    /\ queue # <<>>
    /\ Head(queue) = [op |-> op, token |-> t]

Executed == queue' = Tail(queue) /\ UNCHANGED loopVars

SourceOf(t) == CASE t = StdinToken -> "stdin"
                 [] t = ListenerToken -> "listener"
                 [] OTHER -> "read"

RegisterSource(t) ==
    /\ Executing("new", t)
    /\ Executed
    /\ sources' = [sources EXCEPT ![t] = SourceOf(t)]
    /\ Register(t, "readable", Readable(t))
    /\ UNCHANGED <<tokenCounter, connOf, stream, resubmits, tcp, backlog,
                   stdinVars>>

ReregisterSource(t) ==
    /\ Executing("modify", t)
    /\ Executed
    /\ IF sources[t] # "none" THEN Register(t, "writable", Writable(t))
                              ELSE UNCHANGED epollVars
    /\ UNCHANGED <<sourceVars, resubmits, tcp, backlog, stdinVars>>

\* Mutant: the listener is taken out of epoll and of the map, but not dropped.
CloseListenerKeepsSocket ==
    /\ Executing("close", ListenerToken)
    /\ sources[ListenerToken] # "none"
    /\ Executed
    /\ sources' = [sources EXCEPT ![ListenerToken] = "none"]
    /\ Unregister(ListenerToken)
    /\ UNCHANGED <<tokenCounter, connOf, stream, resubmits, tcp, backlog, stdinVars>>

\* Closing the listener refuses what it has not accepted.
CloseListener ==
    /\ Executing("close", ListenerToken)
    /\ sources[ListenerToken] # "none"
    /\ Executed
    /\ sources' = [sources EXCEPT ![ListenerToken] = "none"]
    /\ stream' = EndBacklog("refused")
    /\ backlog' = <<>>
    /\ Unregister(ListenerToken)
    /\ UNCHANGED <<tokenCounter, connOf, resubmits, tcp, stdinVars>>

CloseStream(t) ==
    /\ Executing("close", t)
    /\ sources[t] # "none"
    /\ Executed
    /\ Drop(t, IF sources[t] = "close" THEN "answered" ELSE "rejected")
    /\ UNCHANGED <<tokenCounter, connOf, resubmits, tcp, backlog, stdinVars>>

AlreadyClosed(t) ==
    /\ Executing("close", t)
    /\ sources[t] = "none"
    /\ Executed
    /\ UNCHANGED <<sourceVars, resubmits, epollVars, tcp, backlog, stdinVars>>

\* check_stream_timeout: the stream is still read and its time is over.
CheckCloses(t) ==
    /\ Executing("check", t)
    /\ sources[t] = "read" /\ stream[connOf[t]].expired
    /\ Executed
    /\ Drop(t, "timedOut")
    /\ UNCHANGED <<tokenCounter, connOf, resubmits, tcp, backlog, stdinVars>>

\* Mutant: a check is made only once.
CheckOnce(t) ==
    /\ Executing("check", t)
    /\ sources[t] = "read" /\ ~stream[connOf[t]].expired
    /\ Executed
    /\ UNCHANGED <<sourceVars, resubmits, epollVars, tcp, backlog, stdinVars>>

\* ... its time is not over.
CheckResubmits(t) ==
    /\ Executing("check", t)
    /\ sources[t] = "read" /\ ~stream[connOf[t]].expired
    /\ Executed
    /\ resubmits' = Append(resubmits, t)
    /\ UNCHANGED <<sourceVars, epollVars, tcp, backlog, stdinVars>>

\* ... it is not read any more, or gone: nobody checks it again.
CheckEnds(t) ==
    /\ Executing("check", t)
    /\ sources[t] # "read"
    /\ Executed
    /\ UNCHANGED <<sourceVars, resubmits, epollVars, tcp, backlog, stdinVars>>

\* register, reregister or deregister returns Err.
CommandFails(t) ==
    /\ "registry" \in Faults
    /\ \/ Executing("new", t)
       \/ \E op \in {"modify", "close"} : Executing(op, t) /\ sources[t] # "none"
       \/ /\ Executing("check", t)
          /\ sources[t] = "read" /\ stream[connOf[t]].expired
    /\ StopsByFault
    /\ UNCHANGED <<startup, batch, sourceVars, commandVars, epollVars, tcp,
                   backlog, stdinVars>>

CommandsDone ==
    /\ loopPc = "commands"
    /\ queue = <<>>
    /\ loopPc' = "resubmit"
    /\ UNCHANGED <<startup, batch, sourceVars, commandVars, epollVars, tcp,
                   backlog, stdinVars>>

\* new_commands are submitted once the channel has been found empty.
Resubmit ==
    /\ loopPc = "resubmit"
    /\ resubmits # <<>>
    /\ queue' = Append(queue, CheckTimeout(Head(resubmits)))
    /\ resubmits' = Tail(resubmits)
    /\ UNCHANGED <<loopVars, sourceVars, epollVars, tcp, backlog, stdinVars>>

NextIteration ==
    /\ loopPc = "resubmit"
    /\ resubmits = <<>>
    /\ loopPc' = "poll"
    /\ UNCHANGED <<startup, batch, sourceVars, commandVars, epollVars, tcp,
                   backlog, stdinVars>>
-----------------------------------------------------------------------------
HandleStream(t) == \/ ReadPart(t) \/ ReadFullRequest(t) \/ ReadRejected(t)
                   \/ ReadFails(t) \/ ReadPanics(t) \/ ReadHangs(t)
                   \/ WritePart(t) \/ WriteDone(t) \/ WriteFails(t)

ExecuteCommand(t) == \/ RegisterSource(t) \/ ReregisterSource(t)
                     \/ AlreadyClosed(t)
                     \/ t \in StreamToken /\ CloseStream(t)
                     \/ t = ListenerToken /\ CloseListener
                     \/ CheckCloses(t) \/ CheckResubmits(t) \/ CheckEnds(t)

LoopStep == \/ PollReturns \/ BatchDone \/ CommandsDone
            \/ Resubmit \/ NextIteration
            \/ AcceptAll \/ HandleLine \/ HandleLineFails \/ WaitForLine
            \/ \E t \in Token : EventWithoutSource(t) \/ ExecuteCommand(t)
            \/ \E t \in StreamToken : HandleStream(t)

FaultStep == \/ PollFails \/ AcceptFails \/ AcceptPanics
             \/ \E t \in Token : CommandFails(t)

MainStep == SubmitListener \/ SubmitStdin

ClientStep(c) == \/ \E k \in RequestKinds : Connect(c, k)
                 \/ SendPiece(c) \/ FinishSending(c) \/ Reset(c) \/ ReadPiece(c)

Next == \/ LoopStep \/ FaultStep \/ MainStep
        \/ \E c \in Conn : ClientStep(c) \/ Expire(c)
        \/ \E l \in LineKinds : TypeLine(l)

Spec == Init /\ [][Next]_vars

(* Both threads are scheduled again and again, and time passes.  Nothing   *)
(* makes a client send, read, close or type; nothing makes a fault happen. *)
FairSpec == /\ Spec
            /\ WF_vars(MainStep)
            /\ WF_vars(LoopStep)
            /\ \A c \in Conn : WF_vars(Expire(c))
-----------------------------------------------------------------------------
(* Properties.                                                             *)

Pending(command) == \E i \in 1..Len(queue) : queue[i] = command

\* Submitted timeout checks of token t.
Checks(t) == Cardinality({i \in 1..Len(queue) : queue[i] = CheckTimeout(t)})
           + Cardinality({i \in 1..Len(resubmits) : resubmits[i] = t})

(* epoll watches exactly the sources in the map: the listener and a stream  *)
(* being read for input, a stream being written for output, from the moment *)
(* the commands of that iteration have run; nothing waits in the state      *)
(* Close for a poll (select.rs:91-117).  (Standard input is left out: see   *)
(* EventHasSource.)                                                         *)
InterestMatchesState ==
    \A t \in Token \ {StdinToken} :
        /\ sources[t] = "none" <=> interest[t] = "none"
        /\ sources[t] \in {"listener", "read"} => interest[t] = "readable"
        /\ sources[t] = "write" =>
               interest[t] = "writable" \/ Pending(ModifyInterests(t))
        /\ sources[t] = "close" => Pending(CloseSource(t))
        /\ loopPc = "poll" => ~Pending(ModifyInterests(t)) /\ ~Pending(CloseSource(t))

(* Edges are reported once, so a handler must use up what caused them: a    *)
(* stream with unread input, a stream with something left to write and room *)
(* for it, a listener with connections to accept always have an event       *)
(* coming while the loop runs and does not hang in a request, which stays   *)
(* unread then (select.rs:227-258, 276-305, 322-350).                       *)
NoEdgeLost == Running /\ loopPc # "hung" =>
    /\ \A t \in StreamToken :
          /\ sources[t] = "read" /\ tcp[connOf[t]].inbox > 0 =>
                 t \in ready \cup batch
          /\ sources[t] = "write" /\ tcp[connOf[t]].room > 0 =>
                 t \in ready \cup batch \/ Pending(ModifyInterests(t))
    /\ sources[ListenerToken] = "listener" /\ backlog # <<>> =>
           ListenerToken \in ready \cup batch

(* A stream being read has exactly one timeout check submitted, no stream   *)
(* has two, and no check is ahead of its stream's registration: the comment *)
(* on the order of the two commands (select.rs:334-341, 355-379).           *)
EveryReaderWatched ==
    /\ \A t \in StreamToken :
          /\ Checks(t) <= 1
          /\ sources[t] = "read" => Checks(t) = 1
    /\ \A i, j \in 1..Len(queue) :
          queue[i].op = "check" /\ queue[j] = New(queue[i].token) => j < i

(* A token names one connection for good: no connection has two, and the    *)
(* token of a source to be registered is used by no registered one          *)
(* (select.rs:325-326, 351).                                                *)
TokensUnique ==
    /\ \A t, u \in StreamToken :
          connOf[t] = connOf[u] /\ connOf[t] # NoConn => t = u
    /\ \A i, j \in 1..Len(queue) : queue[i].op = "new" =>
          /\ sources[queue[i].token] = "none"
          /\ queue[j] = queue[i] => i = j

(* No piece of a response is lost or sent twice however the writes are      *)
(* split: a stream is closed as answered only after all of it was written   *)
(* (select.rs:276-305).                                                     *)
ResponseWhole ==
    /\ \A t \in StreamToken : sources[t] \in {"write", "close"} =>
          stream[connOf[t]].written + stream[connOf[t]].left = ResponsePieces
    /\ \A c \in Conn : stream[c].ended = "answered" =>
          stream[c].written = ResponsePieces

Sent(c, k) == tcp[c].kind = k /\ tcp[c].unsent = 0

(* But for faults of the system, the loop only ends because a line could    *)
(* not be read from standard input, because handling a request panicked or  *)
(* because Host::new did for a stream that was waiting to be accepted.  It  *)
(* only hangs in a request whose handling does not return; and it only      *)
(* waits in read_line if what was typed last is the beginning of a line.    *)
(* Nothing that rejected, reset, timed out or half-sent streams do stops it *)
(* (select.rs:48-119, 222-258, 331, 385).                                   *)
BrokenHasCause ==
    /\ loopPc = "stopped" =>
          \/ startup = "join" /\ sources[StdinToken] = "none"
          \/ \E c \in Conn : Sent(c, "panic")
          \/ "host" \in Faults /\ backlog # <<>>
    /\ loopPc = "hung" => \E c \in Conn : Sent(c, "hang")
    /\ loopPc = "reading" /\ NoLine(typed) =>
          lines # <<>> /\ lines[Len(lines)] = "part"

(* A complete request that was in the socket when poll last returned is not *)
(* cut by its timeout in that iteration: it is only while the event that    *)
(* would have it read is still to be reported (select.rs:50-83, 360-365).   *)
TimeoutSparesCompleteRequest ==
    [][\A t \in StreamToken :
          LET c == connOf[t]
          IN  /\ c # NoConn
              /\ stream[c].ended = "none"
              /\ stream'[c].ended = "timedOut"
              /\ Complete(c)
              => t \in ready]_vars

Phase(c) ==
    CASE stream[c].ended # "none" -> "over"
      [] tcp[c].kind = "none" -> "idle"
      [] \E i \in 1..Len(backlog) : backlog[i] = c -> "waiting"
      [] \E t \in StreamToken :
            connOf[t] = c /\ sources[t] \in {"write", "close"} -> "writing"
      [] OTHER -> "reading"

(* The loop serves connections as ConnectionService promises.               *)
Service == INSTANCE ConnectionService WITH
    phase <- [c \in Conn |-> Phase(c)],
    answered <- {c \in Conn : stream[c].ended = "answered"},
    listening <- ListenerOpen

ServesConnections == Service!Spec

\* The client has not read what fills its socket's buffer.
Unread(c) == stream[c].left > 0 /\ tcp[c].room = 0

(* Every connection comes to an end, whatever its client does or leaves     *)
(* undone (select.rs:276-305, 354-380, 385), with two exceptions: a client  *)
(* that never reads its response, as the timeout is only for requests; and  *)
(* a loop whose thread is kept, by a request whose handling does not return *)
(* or in read_line by the beginning of a line, when no timeout is checked.  *)
EveryConnectionEnds ==
    \A c \in Conn : tcp[c].kind # "none" ~>
        \/ stream[c].ended # "none" \/ Unread(c) \/ loopPc = "hung"
        \/ loopPc = "reading" /\ NoLine(typed)

(* README.md:9: "Each event is associated with a handler (stored in a hash  *)
(* map with a unique token as a key) that is used to process the event on   *)
(* that source."                                                            *)
EventHasSource == \A t \in batch : sources[t] # "none"

ShutdownTyped ==
    \/ \E i \in 1..Len(typed) : typed[i] = "shutdown"
    \/ \E i \in 1..Len(lineBuffer) : lineBuffer[i] = "shutdown"

(* main.rs:76: "Type 'shutdown' to close the listener."                     *)
ShutdownClosesListener == ShutdownTyped ~> ~ListenerOpen
=============================================================================
