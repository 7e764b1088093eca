------------------------------- MODULE Single -------------------------------
(***************************************************************************)
(* The "single" concurrency model (single in main.rs): one thread accepts  *)
(* a connection, processes it and accepts the next.  Unlike in the pool,   *)
(* an accept error ends the server: `stream?` returns from main.  What     *)
(* connections carry is as in ThreadPool.                                  *)
(***************************************************************************)
EXTENDS Naturals, Sequences, SequencesExt

CONSTANTS Conn,             \* the TCP connections clients open
          RequestKinds,     \* what they carry, a subset of AllKinds
          MaxAcceptErrors,  \* bound: accepts that return Err, 0 or 1
          NoConn            \* no connection

AllKinds == {"page", "load", "bad", "panic", "silent"}

VARIABLES pc,       \* "accept", "process"; "failed", "ended" once main returns or unwinds
          serving,  \* `stream`
          kind,     \* kind[c]: what c carries, "none" before it is opened
          backlog,  \* connected and not accepted, in the order they came
          reply     \* reply[c]: how c ended, "none" before
vars == <<pc, serving, kind, backlog, reply>>

Init == /\ pc = "accept"
        /\ serving = NoConn
        /\ kind = [c \in Conn |-> "none"]
        /\ backlog = <<>>
        /\ reply = [c \in Conn |-> "none"]

Connect(c, k) == /\ pc \in {"accept", "process"}
                 /\ kind[c] = "none"
                 /\ kind' = [kind EXCEPT ![c] = k]
                 /\ backlog' = Append(backlog, c)
                 /\ UNCHANGED <<pc, serving, reply>>

\* listener.incoming() yields Ok(stream).
Accept == /\ pc = "accept" /\ backlog # <<>>
          /\ serving' = Head(backlog)
          /\ backlog' = Tail(backlog)
          /\ pc' = "process"
          /\ UNCHANGED <<kind, reply>>

\* It yields Err: single returns it, and main with it.
AcceptFails == /\ pc = "accept" /\ MaxAcceptErrors > 0
               /\ pc' = "failed"
               /\ UNCHANGED <<serving, kind, backlog, reply>>

\* The stream goes out of scope and is closed.
Over(c, how) == /\ reply' = [reply EXCEPT ![c] = how]
                /\ serving' = NoConn

\* Mutant: a request that ended in Err is processed again.
FinishRetries == /\ pc = "process" /\ kind[serving] \in {"page", "load", "bad"}
                 /\ IF kind[serving] = "bad"
                    THEN /\ reply' = [reply EXCEPT ![serving] = "closed"]
                         /\ UNCHANGED <<pc, serving>>
                    ELSE Over(serving, "ok") /\ pc' = "accept"
                 /\ UNCHANGED <<kind, backlog>>

\* seq::process returns; its Err is printed.  GET /load is answered "200", as
\* process is called with overloaded = false.
Finish == /\ pc = "process" /\ kind[serving] \in {"page", "load", "bad"}
          /\ Over(serving, IF kind[serving] = "bad" THEN "closed" ELSE "ok")
          /\ pc' = "accept"
          /\ UNCHANGED <<kind, backlog>>

\* Mutant: the panic is caught and the loop goes on with the same stream.
PanicCaught == /\ pc = "process" /\ kind[serving] = "panic"
               /\ reply' = [reply EXCEPT ![serving] = "closed"]
               /\ UNCHANGED <<pc, serving, kind, backlog>>

\* The main thread unwinds.
Panic == /\ pc = "process" /\ kind[serving] = "panic"
         /\ Over(serving, "closed")
         /\ pc' = "ended"
         /\ UNCHANGED <<kind, backlog>>

Server == Accept \/ Finish \/ Panic

Next == \/ \E c \in Conn, k \in RequestKinds : Connect(c, k)
        \/ Server \/ AcceptFails
=============================================================================
