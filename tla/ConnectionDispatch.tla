------------------------- MODULE ConnectionDispatch -------------------------
(***************************************************************************)
(* What the thread pool promises, without its channels: a connection that  *)
(* has arrived waits until one worker that serves nobody takes it; it is   *)
(* served by that worker alone and is settled once (answered, or closed    *)
(* without an answer).  A worker may be lost for good, either with the     *)
(* connection it serves or while it serves nobody.                         *)
(*                                                                         *)
(* README.md, "Design": "When such a connection arrives, a thread is       *)
(* popped off a ready list of threads and tasked with processing the newly *)
(* accepted connection."                                                   *)
(***************************************************************************)
CONSTANTS Worker,   \* the worker threads
          Conn,     \* the connections clients may open
          NoConn    \* "this worker serves nobody"

VARIABLES waiting,  \* connections that arrived and were given to no worker
          serving,  \* serving[w]: the connection worker w was given
          retired,  \* workers that will never serve again
          settled   \* connections that are over

vars == <<waiting, serving, retired, settled>>

Init == /\ waiting = {}
        /\ serving = [w \in Worker |-> NoConn]
        /\ retired = {}
        /\ settled = {}

Arrive(c) == /\ c \notin waiting \cup settled
             /\ \A w \in Worker : serving[w] # c
             /\ waiting' = waiting \cup {c}
             /\ UNCHANGED <<serving, retired, settled>>

Assign(w, c) == /\ c \in waiting
                /\ w \notin retired
                /\ serving[w] = NoConn
                /\ waiting' = waiting \ {c}
                /\ serving' = [serving EXCEPT ![w] = c]
                /\ UNCHANGED <<retired, settled>>

Settle(w) == /\ serving[w] # NoConn
             /\ settled' = settled \cup {serving[w]}
             /\ serving' = [serving EXCEPT ![w] = NoConn]
             /\ UNCHANGED <<waiting, retired>>

\* The worker dies with the connection it serves.
Crash(w) == /\ serving[w] # NoConn
            /\ settled' = settled \cup {serving[w]}
            /\ serving' = [serving EXCEPT ![w] = NoConn]
            /\ retired' = retired \cup {w}
            /\ UNCHANGED waiting

\* The worker is lost while it serves nobody.
Retire(w) == /\ w \notin retired
             /\ serving[w] = NoConn
             /\ retired' = retired \cup {w}
             /\ UNCHANGED <<waiting, serving, settled>>

Next == \/ \E c \in Conn : Arrive(c)
        \/ \E w \in Worker : Settle(w) \/ Crash(w) \/ Retire(w)
        \/ \E w \in Worker, c \in Conn : Assign(w, c)

Spec == Init /\ [][Next]_vars
=============================================================================
