---------------------------- MODULE ConnectionLife ----------------------------
(***************************************************************************)
(* What the server's main thread is promised of the connections it holds.  *)
(* A connection is accepted, may become active (authenticated, a session   *)
(* belongs to it), and is destroyed once; nothing of it is used after      *)
(* that. RdpConnection implements this.                                    *)
(***************************************************************************)
CONSTANT Conns      \* the connections of a run of the server

VARIABLE life       \* each connection as the main thread sees it

Lives == {"absent", "accepted", "active", "ending", "gone"}

Init == life = [c \in Conns |-> "absent"]

Become(c, from, to) == life[c] \in from /\ life' = [life EXCEPT ![c] = to]

Accept(c)   == Become(c, {"absent"}, "accepted")
Activate(c) == Become(c, {"accepted"}, "active")

\* The destructor runs: from here on nobody else knows the connection.
BeginEnd(c) == Become(c, {"accepted", "active"}, "ending")
End(c)      == Become(c, {"ending"}, "gone")

\* The process ends, whatever it holds.
Exit == life' = [c \in Conns |-> "gone"]

Next == Exit \/ \E c \in Conns : Accept(c) \/ Activate(c) \/ BeginEnd(c) \/ End(c)

\* A destructor that has begun comes to its end: the thread is joined.
Spec == Init /\ [][Next]_life /\ \A c \in Conns : WF_life(End(c))
=============================================================================
