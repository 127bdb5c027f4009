--------------------------- MODULE ConnectionSignals ---------------------------
(***************************************************************************)
(* What the controller is told of the connections, by signals that their   *)
(* run threads queue for the main thread: a connection activates, perhaps  *)
(* again, and then it is Closed, which is the last that is heard of it.    *)
(* SessionController is written on top of this; RdpConnection implements   *)
(* it.                                                                     *)
(***************************************************************************)
EXTENDS Sequences

CONSTANT Conns

VARIABLES
    conn,       \* each connection: "absent", "accepted", "active", "closed", "gone"
    events      \* stateChanged signals queued for the main thread

signalVars == <<conn, events>>

Init == conn = [c \in Conns |-> "absent"] /\ events = <<>>

Become(c, from, to) == conn[c] \in from /\ conn' = [conn EXCEPT ![c] = to]
Queue(c, what)      == events' = Append(events, [conn |-> c, what |-> what])
Take(c, what) ==
    events # <<>> /\ Head(events) = [conn |-> c, what |-> what] /\ events' = Tail(events)

\* A client connects, and the server has a connection for it, ...
Connect(c)  == Become(c, {"absent"}, "accepted") /\ UNCHANGED events
\* ... which activates when it is authenticated, ...
Activate(c) == Become(c, {"accepted", "active"}, "active") /\ Queue(c, "Activated")
\* ... and whose run thread ends, whether or not it has activated.
EndRun(c)   == Become(c, {"accepted", "active"}, "closed") /\ Queue(c, "Closed")

\* What the main thread does with the signals: Closed has the connection destroyed.
TakeActivated(c) == Take(c, "Activated") /\ UNCHANGED conn
TakeClosed(c)    == Take(c, "Closed") /\ conn' = [conn EXCEPT ![c] = "gone"]

\* The process ends, whatever there is.
Exit == conn' = [c \in Conns |-> "gone"] /\ events' = <<>>

Next ==
    \/ Exit
    \/ \E c \in Conns : Connect(c) \/ Activate(c) \/ EndRun(c) \/ TakeActivated(c) \/ TakeClosed(c)

Spec == Init /\ [][Next]_signalVars
=============================================================================
