------------------------- MODULE ConnectionService -------------------------
(***************************************************************************)
(* What the event loop promises to its clients, without tokens, events or  *)
(* commands.  Connections wait until they are accepted, all that wait at   *)
(* once; an accepted one is read until its request is complete, is then    *)
(* written to, and is over when it has been answered or was cut.  When the *)
(* listener closes, the connections that wait are refused and those that   *)
(* were accepted go on being served.                                       *)
(***************************************************************************)
CONSTANT Conn   \* the connections clients may open

VARIABLES phase,      \* phase[c]: how far connection c has come
          answered,   \* connections whose response has been written
          listening   \* the listener accepts

vars == <<phase, answered, listening>>

Init == /\ phase = [c \in Conn |-> "idle"]
        /\ answered = {}
        /\ listening = TRUE

Arrive(c) == /\ listening
             /\ phase[c] = "idle"
             /\ phase' = [phase EXCEPT ![c] = "waiting"]
             /\ UNCHANGED <<answered, listening>>

\* Every connection that waits moves on.
WaitingBecome(p) ==
    phase' = [c \in Conn |-> IF phase[c] = "waiting" THEN p ELSE phase[c]]

Accept == /\ listening
          /\ WaitingBecome("reading")
          /\ UNCHANGED <<answered, listening>>

StopListening == /\ listening
                 /\ listening' = FALSE
                 /\ WaitingBecome("over")
                 /\ UNCHANGED answered

Answer(c) == /\ phase[c] = "reading"
             /\ phase' = [phase EXCEPT ![c] = "writing"]
             /\ UNCHANGED <<answered, listening>>

Complete(c) == /\ phase[c] = "writing"
               /\ phase' = [phase EXCEPT ![c] = "over"]
               /\ answered' = answered \cup {c}
               /\ UNCHANGED listening

Cut(c) == /\ phase[c] \in {"reading", "writing"}
          /\ phase' = [phase EXCEPT ![c] = "over"]
          /\ UNCHANGED <<answered, listening>>

Next == \/ Accept \/ StopListening
        \/ \E c \in Conn : Arrive(c) \/ Answer(c) \/ Complete(c) \/ Cut(c)

Spec == Init /\ [][Next]_vars
=============================================================================
