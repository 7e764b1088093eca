----------------------------- MODULE ThreadPool -----------------------------
(***************************************************************************)
(* The "pool" concurrency model: the accept loop of main.rs (thread_pool)  *)
(* and the worker threads of pool.rs.  All of them talk over unbounded     *)
(* mpsc channels: one `ready` channel carries thread numbers from the      *)
(* workers to main (and from main back to itself), and each worker has a   *)
(* channel of its own on which main sends it (stream, overloaded).         *)
(*                                                                         *)
(* A step is one blocking or visible operation of one thread: an accept, a *)
(* send, a recv, a try_recv, or the processing of one connection.  What    *)
(* seq::process does with a connection is reduced to how it ends.          *)
(***************************************************************************)
EXTENDS Naturals, Sequences, FiniteSets

CONSTANTS
    Worker,           \* the threads spawn_threads starts, by thread_num
    Conn,             \* the TCP connections clients open
    RequestKinds,     \* what they carry, a subset of AllKinds
    MaxAcceptErrors,  \* bound: accepts that return Err
    MaxFaulty,        \* bound: connections whose worker never comes back
    NoConn,           \* no connection
    AcceptError,      \* the Err item of listener.incoming()
    NoWorker          \* no thread number

(***************************************************************************)
(* "page"   a request that is answered; "load" GET /load, the heartbeat;   *)
(* "bad"    processing ends in Err (parse error, end of input, I/O error); *)
(* "panic"  processing panics;                                             *)
(* "silent" the client neither completes its request nor closes.           *)
(***************************************************************************)
AllKinds == {"page", "load", "bad", "panic", "silent"}
FaultyKinds == {"panic", "silent"}

ASSUME ConstantsAssumption ==
    /\ IsFiniteSet(Worker)
    /\ RequestKinds \subseteq AllKinds
    /\ MaxAcceptErrors \in Nat
    /\ MaxFaulty \in Nat
    /\ NoConn \notin Conn
    /\ AcceptError \notin Conn
    /\ AcceptError # NoConn
    /\ NoWorker \notin Worker

VARIABLES
    \* the main thread
    mainPc,       \* where main is in its loop
    incoming,     \* the item of listener.incoming() main holds
    picked,       \* `thread_num`, taken from the ready channel
    drained,      \* the Vec `ready`
    overloaded,   \* the local of the same name
    \* the channels
    readyQ,       \* thread numbers, sent but not received
    streamQ,      \* streamQ[w]: (stream, overloaded) pairs sent to worker w
    \* the workers
    workerPc,     \* where worker w is in its loop
    job,          \* job[w]: the pair worker w is processing
    \* the clients and the kernel
    kind,         \* kind[c]: what connection c carries, "none" before connect
    backlog,      \* connected, not accepted
    reply,        \* reply[c]: how connection c ended, "none" before
    acceptErrors  \* number of accepts that returned Err

mainVars == <<mainPc, incoming, picked, drained, overloaded>>
workerVars == <<workerPc, job>>
clientVars == <<kind, backlog, reply>>
vars == <<mainVars, readyQ, streamQ, workerVars, clientVars, acceptErrors>>

Entry == [conn : Conn, overloaded : BOOLEAN]
NoJob == [conn |-> NoConn, overloaded |-> FALSE]
Replies == {"none", "ok", "unavailable", "closed"}

TypeOK ==
    /\ mainPc \in {"accept", "recv", "drain", "resend"}
    /\ incoming \in Conn \cup {NoConn, AcceptError}
    /\ picked \in Worker \cup {NoWorker}
    /\ drained \in Seq(Worker)
    /\ overloaded \in BOOLEAN
    /\ readyQ \in Seq(Worker)
    /\ streamQ \in [Worker -> Seq(Entry)]
    /\ workerPc \in [Worker -> {"ready", "recv", "process", "dead"}]
    /\ job \in [Worker -> Entry \cup {NoJob}]
    /\ kind \in [Conn -> AllKinds \cup {"none"}]
    /\ backlog \in SUBSET Conn
    /\ reply \in [Conn -> Replies]
    /\ acceptErrors \in Nat

(* spawn_threads: every worker starts its loop; main starts to accept.     *)
Init ==
    /\ mainPc = "accept"
    /\ incoming = NoConn
    /\ picked = NoWorker
    /\ drained = <<>>
    /\ overloaded = FALSE
    /\ readyQ = <<>>
    /\ streamQ = [w \in Worker |-> <<>>]
    /\ workerPc = [w \in Worker |-> "ready"]
    /\ job = [w \in Worker |-> NoJob]
    /\ kind = [c \in Conn |-> "none"]
    /\ backlog = {}
    /\ reply = [c \in Conn |-> "none"]
    /\ acceptErrors = 0
-----------------------------------------------------------------------------
(* Clients and kernel.                                                     *)

Faulty == {c \in Conn : kind[c] \in FaultyKinds}

Connect(c, k) ==
    /\ kind[c] = "none"
    /\ k \in FaultyKinds => Cardinality(Faulty) < MaxFaulty
    /\ kind' = [kind EXCEPT ![c] = k]
    /\ backlog' = backlog \cup {c}
    /\ UNCHANGED <<mainVars, readyQ, streamQ, workerVars, reply, acceptErrors>>
-----------------------------------------------------------------------------
(* The main thread.                                                        *)

\* listener.incoming() yields Ok(stream).
Accept(c) ==
    /\ mainPc = "accept"
    /\ c \in backlog
    /\ backlog' = backlog \ {c}
    /\ incoming' = c
    /\ mainPc' = "recv"
    /\ UNCHANGED <<picked, drained, overloaded, readyQ, streamQ, workerVars,
                   kind, reply, acceptErrors>>

\* listener.incoming() yields Err: the loop body runs all the same, the Err
\* is looked at only where the stream is sent.
AcceptFails ==
    /\ mainPc = "accept"
    /\ acceptErrors < MaxAcceptErrors
    /\ acceptErrors' = acceptErrors + 1
    /\ incoming' = AcceptError
    /\ mainPc' = "recv"
    /\ UNCHANGED <<picked, drained, overloaded, readyQ, streamQ, workerVars,
                   clientVars>>

\* Mutant: the popped thread number is put back with the drained ones.
RecvReadyKeepsPicked ==
    /\ mainPc = "recv"
    /\ readyQ # <<>>
    /\ picked' = Head(readyQ)
    /\ drained' = <<Head(readyQ)>>
    /\ readyQ' = Tail(readyQ)
    /\ mainPc' = "drain"
    /\ UNCHANGED <<incoming, overloaded, streamQ, workerVars, clientVars,
                   acceptErrors>>

\* let thread_num = recv_ready.recv()?   (main keeps a Sender of the channel,
\* so recv never reports a disconnected channel: it blocks)
RecvReady ==
    /\ mainPc = "recv"
    /\ readyQ # <<>>
    /\ picked' = Head(readyQ)
    /\ readyQ' = Tail(readyQ)
    /\ mainPc' = "drain"
    /\ UNCHANGED <<incoming, drained, overloaded, streamQ, workerVars,
                   clientVars, acceptErrors>>

\* for thread in recv_ready.try_iter() { ready.push(thread) }
DrainOne ==
    /\ mainPc = "drain"
    /\ readyQ # <<>>
    /\ drained' = Append(drained, Head(readyQ))
    /\ readyQ' = Tail(readyQ)
    /\ UNCHANGED <<mainPc, incoming, picked, overloaded, streamQ, workerVars,
                   clientVars, acceptErrors>>

\* Mutant: off by one.
OverloadOffByOne == Len(drained) <= 1

\* The verdict the code reaches on a drained ready channel.
Overload == drained = <<>>

DrainEnd ==
    /\ mainPc = "drain"
    /\ readyQ = <<>>
    /\ overloaded' = Overload
    /\ mainPc' = "resend"
    /\ UNCHANGED <<incoming, picked, drained, readyQ, streamQ, workerVars,
                   clientVars, acceptErrors>>

\* Mutant: only the first drained number is sent back.
ResendOnlyFirst ==
    /\ mainPc = "resend"
    /\ drained # <<>>
    /\ readyQ' = Append(readyQ, Head(drained))
    /\ drained' = <<>>
    /\ UNCHANGED <<mainPc, incoming, picked, overloaded, streamQ, workerVars,
                   clientVars, acceptErrors>>

\* for thread in ready.drain(..) { send_ready.send(thread)? }
ResendOne ==
    /\ mainPc = "resend"
    /\ drained # <<>>
    /\ readyQ' = Append(readyQ, Head(drained))
    /\ drained' = Tail(drained)
    /\ UNCHANGED <<mainPc, incoming, picked, overloaded, streamQ, workerVars,
                   clientVars, acceptErrors>>

\* The closure returns and its locals go out of scope.
EndIteration ==
    /\ mainPc' = "accept"
    /\ incoming' = NoConn
    /\ picked' = NoWorker
    /\ overloaded' = FALSE

\* Mutant: the item is sent without looking at its Err.
DispatchUnchecked ==
    /\ mainPc = "resend"
    /\ drained = <<>>
    /\ streamQ' = [streamQ EXCEPT ![picked] =
            Append(@, [conn |-> incoming, overloaded |-> overloaded])]
    /\ EndIteration
    /\ UNCHANGED <<drained, readyQ, workerVars, clientVars, acceptErrors>>

\* thread.send_stream.send((stream?, overloaded))?  A dead worker's Receiver is
\* gone: send then hands the stream back, and dropping it closes the connection.
Dispatch ==
    /\ mainPc = "resend"
    /\ drained = <<>>
    /\ incoming # AcceptError
    /\ IF workerPc[picked] = "dead"
       THEN /\ reply' = [reply EXCEPT ![incoming] = "closed"]
            /\ UNCHANGED streamQ
       ELSE /\ streamQ' = [streamQ EXCEPT ![picked] =
                 Append(@, [conn |-> incoming, overloaded |-> overloaded])]
            /\ UNCHANGED reply
    /\ EndIteration
    /\ UNCHANGED <<drained, readyQ, workerVars, kind, backlog, acceptErrors>>

\* `stream?` on the Err item: the closure returns before anything is sent.
DispatchAcceptError ==
    /\ mainPc = "resend"
    /\ drained = <<>>
    /\ incoming = AcceptError
    /\ EndIteration
    /\ UNCHANGED <<drained, readyQ, streamQ, workerVars, clientVars, acceptErrors>>
-----------------------------------------------------------------------------
(* A worker thread.                                                        *)

\* send_ready.send(thread_num)?
SendReady(w) ==
    /\ workerPc[w] = "ready"
    /\ readyQ' = Append(readyQ, w)
    /\ workerPc' = [workerPc EXCEPT ![w] = "recv"]
    /\ UNCHANGED <<mainVars, streamQ, job, clientVars, acceptErrors>>

\* Mutant: the worker signals that it is ready when it takes the stream.
RecvStreamSignals(w) ==
    /\ workerPc[w] = "recv"
    /\ streamQ[w] # <<>>
    /\ job' = [job EXCEPT ![w] = Head(streamQ[w])]
    /\ streamQ' = [streamQ EXCEPT ![w] = Tail(@)]
    /\ workerPc' = [workerPc EXCEPT ![w] = "process"]
    /\ readyQ' = Append(readyQ, w)
    /\ UNCHANGED <<mainVars, clientVars, acceptErrors>>

\* let (stream, overloaded) = recv_stream.recv()?
RecvStream(w) ==
    /\ workerPc[w] = "recv"
    /\ streamQ[w] # <<>>
    /\ job' = [job EXCEPT ![w] = Head(streamQ[w])]
    /\ streamQ' = [streamQ EXCEPT ![w] = Tail(@)]
    /\ workerPc' = [workerPc EXCEPT ![w] = "process"]
    /\ UNCHANGED <<mainVars, readyQ, clientVars, acceptErrors>>

\* The status of the answer: heartbeat(overloaded) for GET /load.
Answer(k, over) == CASE k = "bad" -> "closed"
                     [] k = "load" /\ over -> "unavailable"
                     [] OTHER -> "ok"

\* Mutant: an Err ends the worker's loop.
FinishStopsOnErr(w) ==
    /\ workerPc[w] = "process"
    /\ kind[job[w].conn] \notin FaultyKinds
    /\ reply' = [reply EXCEPT ![job[w].conn] =
                    Answer(kind[job[w].conn], job[w].overloaded)]
    /\ job' = [job EXCEPT ![w] = NoJob]
    /\ workerPc' = [workerPc EXCEPT ![w] =
                       IF kind[job[w].conn] = "bad" THEN "dead" ELSE "ready"]
    /\ UNCHANGED <<mainVars, readyQ, streamQ, kind, backlog, acceptErrors>>

\* seq::process returns, Ok or Err: the stream is dropped and the loop of
\* `worker` goes round.
Finish(w) ==
    /\ workerPc[w] = "process"
    /\ kind[job[w].conn] \notin FaultyKinds
    /\ reply' = [reply EXCEPT ![job[w].conn] =
                    Answer(kind[job[w].conn], job[w].overloaded)]
    /\ job' = [job EXCEPT ![w] = NoJob]
    /\ workerPc' = [workerPc EXCEPT ![w] = "ready"]
    /\ UNCHANGED <<mainVars, readyQ, streamQ, kind, backlog, acceptErrors>>

\* seq::process panics: the thread unwinds, closing the stream and dropping
\* its Receiver.
Panic(w) ==
    /\ workerPc[w] = "process"
    /\ kind[job[w].conn] = "panic"
    /\ reply' = [reply EXCEPT ![job[w].conn] = "closed"]
    /\ job' = [job EXCEPT ![w] = NoJob]
    /\ workerPc' = [workerPc EXCEPT ![w] = "dead"]
    /\ UNCHANGED <<mainVars, readyQ, streamQ, kind, backlog, acceptErrors>>
-----------------------------------------------------------------------------
MainStep == \/ \E c \in Conn : Accept(c)
            \/ RecvReady
            \/ DrainOne \/ DrainEnd
            \/ ResendOne
            \/ Dispatch \/ DispatchAcceptError

WorkerStep(w) == SendReady(w) \/ RecvStream(w) \/ Finish(w) \/ Panic(w)

Next == \/ MainStep
        \/ AcceptFails
        \/ \E w \in Worker : WorkerStep(w)
        \/ \E c \in Conn, k \in RequestKinds : Connect(c, k)

Spec == Init /\ [][Next]_vars

(* Every thread that can run is scheduled again.  Nothing makes a client   *)
(* connect, an accept fail or a silent client speak.                       *)
FairSpec == /\ Spec
            /\ WF_vars(MainStep)
            /\ \A w \in Worker : WF_vars(WorkerStep(w))
-----------------------------------------------------------------------------
(* Properties.                                                             *)

InSeq(w, s) == \E i \in 1..Len(s) : s[i] = w

\* Worker w's number is somewhere between its SendReady and main's dispatch.
NumberOut(w) == \/ w = picked
                \/ InSeq(w, readyQ)
                \/ InSeq(w, drained)

\* Worker w is blocked in recv_stream.recv().
Waiting(w) == workerPc[w] = "recv" /\ streamQ[w] = <<>>

\* Workers blocked for good: they wait for a stream and main has no way left
\* to pick them.
Stranded == {w \in Worker : Waiting(w) /\ ~NumberOut(w)}

\* Accepts that failed and whose iteration of main's loop is over.
AcceptErrorsHandled ==
    acceptErrors - (IF incoming = AcceptError THEN 1 ELSE 0)

(* The ready list only holds threads that wait for a stream: main, while it *)
(* drains and refills the channel that workers send to concurrently, never  *)
(* picks a thread that is busy or dead (main.rs:93-105, pool.rs:34-35).     *)
ReadyMeansWaiting == \A w \in Worker : NumberOut(w) => Waiting(w)

(* A stream is never queued behind another one, nor behind a connection     *)
(* that a worker still processes, though the per-worker channels are        *)
(* unbounded (main.rs:105, pool.rs:35-37).                                  *)
OneStreamAtATime ==
    \A w \in Worker : streamQ[w] # <<>> =>
        Len(streamQ[w]) = 1 /\ workerPc[w] = "recv"

(* Each accept that returns Err costs exactly one worker, popped off the    *)
(* ready list and then given no stream; nothing else strands a worker: not  *)
(* the drain and refill of the ready channel, not an Err of seq::process.   *)
StrandedByAcceptErrors == Cardinality(Stranded) = AcceptErrorsHandled

(* When main has decided that the pool is not overloaded, another worker    *)
(* that waits is on the ready list, and still is when the stream is sent.   *)
SpareWorkerKept ==
    mainPc = "resend" /\ ~overloaded =>
        \E w \in Worker \ {picked} :
            Waiting(w) /\ (InSeq(w, readyQ) \/ InSeq(w, drained))

(* A request that can be answered is: its connection is never closed        *)
(* because it was given to a worker that could not take it.                 *)
GoodRequestNotDropped ==
    \A c \in Conn : kind[c] \in {"page", "load"} => reply[c] # "closed"

(* The verdict `overloaded` counts the other workers that wait at that      *)
(* moment: it is TRUE exactly when there is none, apart from the workers    *)
(* accept errors have stranded (main.rs:95-99).                             *)
OverloadVerdictExact ==
    [][mainPc = "drain" /\ mainPc' = "resend" =>
          (overloaded' <=>
              Cardinality({w \in Worker \ {picked} : Waiting(w)})
                  = AcceptErrorsHandled)]_vars

(* The pool hands connections to workers as ConnectionDispatch promises: at *)
(* most one connection per worker, each connection given once.              *)
Dispatcher == INSTANCE ConnectionDispatch WITH
    waiting <- backlog \cup ({incoming} \cap Conn),
    serving <- [w \in Worker |-> IF streamQ[w] # <<>>
                                 THEN Head(streamQ[w]).conn
                                 ELSE job[w].conn],
    retired <- {w \in Worker : workerPc[w] = "dead"} \cup Stranded,
    settled <- {c \in Conn : reply[c] # "none"}

DispatchesConnections == Dispatcher!Spec

(* Every client that connects and does not keep silent is answered or       *)
(* closed, as long as accept errors, panics and silent clients together     *)
(* cost less than the whole pool.                                           *)
EveryConnectionSettled ==
    \A c \in Conn :
        (c \in backlog /\ kind[c] # "silent") ~> reply[c] # "none"

(* README.md:7: "When such a connection arrives, a thread is popped off a   *)
(* ready list of threads and tasked with processing the newly accepted      *)
(* connection": no thread is popped off and left without a connection.      *)
PoppedThreadIsTasked == Stranded = {}
=============================================================================
