-------------------------- MODULE SequentialServer --------------------------
(***************************************************************************)
(* The program with the "single" model from its configuration file (Config)*)
(* to its last connection (Single), and with the others up to where the    *)
(* accept loop of ThreadPool or the loop of EventLoop begins.  Clients     *)
(* connect once the listener is bound.                                     *)
(***************************************************************************)
EXTENDS Config

CONSTANTS Conn,             \* the TCP connections clients open
          RequestKinds,     \* what they carry
          MaxAcceptErrors,  \* bound: accepts that return Err, 0 or 1
          NoConn            \* no connection

VARIABLES pc, serving, kind, backlog, reply
connections == <<pc, serving, kind, backlog, reply>>

Loop == INSTANCE Single

ASSUME ConnectionsAssumption == /\ RequestKinds \subseteq Loop!AllKinds
                                /\ MaxAcceptErrors \in {0, 1}
                                /\ NoConn \notin Conn

ServerInit == Init /\ Loop!Init

Accepting == phase = "serving" /\ model = "single" /\ UNCHANGED vars

ServerNext == \/ Next /\ UNCHANGED connections
              \/ Accepting /\ Loop!Next

ServerSpec == ServerInit /\ [][ServerNext]_<<vars, connections>>

(* Its one thread is scheduled.                                            *)
FairServer == ServerSpec /\ WF_<<vars, connections>>(Accepting /\ Loop!Server)
-----------------------------------------------------------------------------
(* Properties.                                                             *)

(* The thread serves connections as ConnectionDispatch promises of one     *)
(* worker: one at a time, each once; it is lost by a panic or an error.    *)
Dispatcher == INSTANCE ConnectionDispatch WITH
    Worker <- {"main"},
    waiting <- ToSet(backlog),
    serving <- [w \in {"main"} |-> serving],
    retired <- IF pc \in {"ended", "failed"} THEN {"main"} ELSE {},
    settled <- {c \in Conn : reply[c] # "none"}

DispatchesConnections == Dispatcher!Spec

(* Every connection is over in the end, unless accept fails, a panic on an *)
(* earlier one ends the program, or a client that keeps silent holds the   *)
(* thread: there is no timeout (seq.rs:12).  No request that is refused    *)
(* and no client that goes away ends the program.                          *)
SettledUnlessHeld ==
    \A c \in Conn : Contains(backlog, c) ~>
        \/ reply[c] # "none"
        \/ pc = "failed"
        \/ \E d \in Conn : kind[d] = "panic" /\ reply[d] = "closed" /\ pc = "ended"
        \/ serving # NoConn /\ kind[serving] = "silent"
=============================================================================
