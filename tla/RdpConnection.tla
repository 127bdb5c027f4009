---------------------------- MODULE RdpConnection ----------------------------
(***************************************************************************)
(* The life of the connections of a server (src/src/RdpConnection.cpp,     *)
(* Server::incomingConnection): each connection is created and destroyed   *)
(* on the MAIN thread, which runs the event loop, and served by a RUN      *)
(* thread of its own, which drives the FreeRDP peer, and by the thread     *)
(* that FreeRDP starts for its clipboard channel. Both call the main       *)
(* thread with BlockingQueuedConnection and sleep until it has answered.   *)
(***************************************************************************)
EXTENDS Integers, Sequences, FiniteSets

CONSTANTS
    Conns,
    MaxCalls,           \* bound: blocking calls of one connection
    MaxActivations,     \* bound: activations of one connection
    CanQuit,            \* the event loop may be left with connections open
    CanFail             \* setting up the peer may fail

ASSUME BoundsAssumption == MaxCalls \in Nat /\ MaxActivations \in Nat
ASSUME FlagsAssumption == CanQuit \in BOOLEAN /\ CanFail \in BOOLEAN

States   == {"Initial", "Starting", "Running", "Activated", "Streaming", "Closed"}
RunSteps == {"none", "start", "loop", "wait", "read", "blocked", "channels",
             "closePeer", "stopClipboard", "closeStream", "setClosed", "returning", "ended"}
Requests == {"initialize", "Activated", "call", "clipboard", "streamClosed", "Closed", "removed"}
Nobody   == "nobody"
ASSUME NobodyAssumption == Nobody \notin Conns

VARIABLES
    state,      \* the State of each connection
    runStep,    \* where its run thread is; "none": not started
    clip,       \* its clipboard thread: "off", "idle" or "blocked" in a call
    stop,       \* the stop token of the run thread
    stopEvent,  \* signalled; never reset
    peer,       \* "none", "open", "closed" or "freed"
    calls, activations,
    events,     \* the queue of the main thread's event loop
    mainStep,   \* "loop", "join" (in ~RdpConnection) or "done"
    joining,    \* the connection whose destructor runs
    leaving,    \* the event loop has been left for good
    sessions,   \* Server::sessions
    wrappers    \* connections that SessionController holds a session for

connVars == <<state, runStep, clip, stop, stopEvent, peer, calls, activations>>
mainVars == <<events, mainStep, joining, leaving, sessions, wrappers>>
vars == <<connVars, mainVars>>

Init ==
    /\ state = [c \in Conns |-> "Initial"] /\ runStep = [c \in Conns |-> "none"]
    /\ clip = [c \in Conns |-> "off"] /\ peer = [c \in Conns |-> "none"]
    /\ stop = [c \in Conns |-> FALSE] /\ stopEvent = [c \in Conns |-> FALSE]
    /\ calls = [c \in Conns |-> 0] /\ activations = [c \in Conns |-> 0]
    /\ events = <<>> /\ mainStep = "loop" /\ joining = Nobody /\ leaving = FALSE
    /\ sessions = {} /\ wrappers = {}

Post(c, what) == events' = Append(events, [conn |-> c, what |-> what])

\* requestStop, from any thread: the token of a thread that was never started
\* cannot be set, and the event exists once initialize has made it.
RequestStop(c) ==
    /\ stop' = [stop EXCEPT ![c] = runStep[c] # "none"]
    /\ stopEvent' = [stopEvent EXCEPT ![c] = runStep[c] # "none"]

-----------------------------------------------------------------------------
(* The main thread *)

Posted(c, what) == mainStep = "loop" /\ ~leaving /\ events # <<>>
                   /\ Head(events) = [conn |-> c, what |-> what]

\* Server::incomingConnection: the constructor posts initialize to itself.
IncomingConnection(c) ==
    /\ mainStep = "loop" /\ ~leaving
    /\ c \notin sessions /\ state[c] = "Initial"
    /\ ~\E i \in DOMAIN events : events[i].conn = c
    /\ sessions' = sessions \union {c}
    /\ Post(c, "initialize")
    /\ UNCHANGED <<connVars, mainStep, joining, leaving, wrappers>>

\* initialize: an early return leaves the connection Starting, without a
\* thread, with or without a peer.
Initialize(c) ==
    /\ Posted(c, "initialize")
    /\ events' = Tail(events)
    /\ state' = [state EXCEPT ![c] = "Starting"]
    /\ \/ /\ peer' = [peer EXCEPT ![c] = "open"]
          /\ runStep' = [runStep EXCEPT ![c] = "start"]
       \/ /\ CanFail
          /\ \E p \in {"none", "open"} : peer' = [peer EXCEPT ![c] = p]
          /\ UNCHANGED runStep
    /\ UNCHANGED <<clip, stop, stopEvent, calls, activations,
                   mainStep, joining, leaving, sessions, wrappers>>

\* SessionController::onNewConnection's handler of Activated.
Activated(c) ==
    /\ Posted(c, "Activated")
    /\ events' = Tail(events)
    /\ wrappers' = wrappers \union {c}
    /\ UNCHANGED <<connVars, mainStep, joining, leaving, sessions>>

\* What a run or clipboard thread has been waiting for is done.
AnswerCall(c) ==
    /\ Posted(c, "call")
    /\ events' = Tail(events)
    /\ runStep' = [runStep EXCEPT ![c] = "read"]
    /\ UNCHANGED <<state, clip, stop, stopEvent, peer, calls, activations,
                   mainStep, joining, leaving, sessions, wrappers>>

AnswerClipboard(c) ==
    /\ Posted(c, "clipboard")
    /\ events' = Tail(events)
    /\ clip' = [clip EXCEPT ![c] = "idle"]
    /\ UNCHANGED <<state, runStep, stop, stopEvent, peer, calls, activations,
                   mainStep, joining, leaving, sessions, wrappers>>

\* The handler of VideoStream::closed, queued since the run thread emits it, looks
\* at the state of the moment.
StreamClosed(c) ==
    /\ Posted(c, "streamClosed")
    /\ events' = Tail(events)
    /\ IF state[c] \in {"Running", "Streaming"} THEN RequestStop(c)
       ELSE UNCHANGED <<stop, stopEvent>>
    /\ UNCHANGED <<state, runStep, clip, peer, calls, activations,
                   mainStep, joining, leaving, sessions, wrappers>>

\* Mutant of BeginDestroy: the main thread closes the peer beside the run thread.
BeginDestroyClosingPeer(c) ==
    /\ RequestStop(c)
    /\ peer' = [peer EXCEPT ![c] = IF @ = "open" THEN "closed" ELSE @]
    /\ mainStep' = "join" /\ joining' = c
    /\ sessions' = sessions \ {c}

\* ~RdpConnection up to the join. Without a run thread there is nobody to join,
\* and the peer is closed here.
BeginDestroy(c) ==
    /\ RequestStop(c)
    /\ peer' = [peer EXCEPT ![c] = IF @ = "open" /\ runStep[c] = "none" THEN "closed" ELSE @]
    /\ mainStep' = "join" /\ joining' = c
    /\ sessions' = sessions \ {c}

\* Mutant of Close: the caller destroys the connection and does not leave that to
\* the run thread's last word.
CloseAndDestroy(c) ==
    /\ mainStep = "loop" /\ ~leaving
    /\ c \in wrappers /\ state[c] # "Closed" /\ ~stop[c]
    /\ BeginDestroy(c)
    /\ UNCHANGED <<state, runStep, clip, calls, activations, events, leaving, wrappers>>

\* close(reason) for a connection with a session: a take-over, an error of the
\* session or of the encoder, or somebody at the seat. A connection that is Closed
\* already is left alone, and a second request changes nothing.
Close(c) ==
    /\ mainStep = "loop" /\ ~leaving
    /\ c \in wrappers /\ state[c] # "Closed" /\ ~stop[c]
    /\ RequestStop(c)
    /\ UNCHANGED <<state, runStep, clip, peer, calls, activations, mainVars>>

\* The queued handler of Closed erases the connection, which destroys it.
Closed(c) ==
    /\ Posted(c, "Closed")
    /\ events' = Tail(events)
    /\ c \in sessions
    /\ BeginDestroy(c)
    /\ UNCHANGED <<state, runStep, clip, calls, activations, leaving, wrappers>>

\* Events for the connection and the objects it owns are removed; those of stateChanged
\* are not, they belong to the server and the controller. That the event loop passes over
\* removed ones is no step here: while it runs there are none (ClosedComesLast).
RemoveEvents(c) ==
    events' = [i \in DOMAIN events |->
                  IF events[i].conn = c /\ events[i].what \notin {"Activated", "Closed"}
                  THEN [conn |-> c, what |-> "removed"] ELSE events[i]]

\* Mutant of EndDestroy: the thread is detached and not joined.
EndDestroyWithoutJoin(c) ==
    /\ mainStep = "join" /\ joining = c
    /\ peer' = [peer EXCEPT ![c] = "freed"]
    /\ RemoveEvents(c)
    /\ wrappers' = wrappers \ {c}
    /\ mainStep' = "loop" /\ joining' = Nobody
    /\ UNCHANGED <<state, runStep, clip, stop, stopEvent, calls, activations, leaving, sessions>>

\* Mutant of EndDestroy: the controller is not told that the connection is gone.
EndDestroyUnnoticed(c) ==
    /\ mainStep = "join" /\ joining = c
    /\ runStep[c] \in {"none", "ended"}
    /\ peer' = [peer EXCEPT ![c] = "freed"]
    /\ RemoveEvents(c)
    /\ mainStep' = "loop" /\ joining' = Nobody
    /\ UNCHANGED <<state, runStep, clip, stop, stopEvent, calls, activations,
                   leaving, sessions, wrappers>>

\* The rest of ~RdpConnection: the peer is freed, and destroyed() takes the session
\* away.
EndDestroy(c) ==
    /\ mainStep = "join" /\ joining = c
    /\ runStep[c] \in {"none", "ended"}
    /\ peer' = [peer EXCEPT ![c] = "freed"]
    /\ RemoveEvents(c)
    /\ wrappers' = wrappers \ {c}
    /\ mainStep' = "loop" /\ joining' = Nobody
    /\ UNCHANGED <<state, runStep, clip, stop, stopEvent, calls, activations, leaving, sessions>>

\* QCoreApplication::quit: main returns from exec, destroys the controller with
\* its sessions, and then the server with its connections, one after another.
Quit ==
    /\ CanQuit /\ mainStep = "loop" /\ ~leaving
    /\ leaving' = TRUE
    /\ wrappers' = {}
    /\ UNCHANGED <<connVars, events, mainStep, joining, sessions>>

DestroyServer(c) ==
    /\ leaving /\ mainStep = "loop" /\ c \in sessions
    /\ BeginDestroy(c)
    /\ UNCHANGED <<state, runStep, clip, calls, activations, events, leaving, wrappers>>

-----------------------------------------------------------------------------
(* The run thread *)

Goto(c, from, to) == runStep[c] = from /\ runStep' = [runStep EXCEPT ![c] = to]

RunStart(c) ==
    /\ Goto(c, "start", "loop")
    /\ state' = [state EXCEPT ![c] = "Running"]
    /\ UNCHANGED <<clip, stop, stopEvent, peer, calls, activations, mainVars>>

\* A stop request ends the loop, and a transport without event handles does.
LoopHead(c) ==
    /\ Goto(c, "loop", "closePeer") \/ (~stop[c] /\ Goto(c, "loop", "wait"))
    /\ UNCHANGED <<state, clip, stop, stopEvent, peer, calls, activations, mainVars>>

\* WaitForMultipleObjects returns for the client or for the stop event, and the
\* token is looked at before the transport is touched.
Wake(c) ==
    /\ Goto(c, "wait", IF stop[c] THEN "closePeer" ELSE "read")
    /\ UNCHANGED <<state, clip, stop, stopEvent, peer, calls, activations, mainVars>>

\* CheckFileDescriptor and the channel manager run callbacks. Those of input
\* and of the graphics capabilities call the main thread and wait; a client gets
\* there only after its activation.
CallMain(c) ==
    /\ state[c] \in {"Activated", "Streaming"} /\ calls[c] < MaxCalls
    /\ Goto(c, "read", "blocked")
    /\ calls' = [calls EXCEPT ![c] = @ + 1]
    /\ Post(c, "call")
    /\ UNCHANGED <<state, clip, stop, stopEvent, peer, activations,
                   mainStep, joining, leaving, sessions, wrappers>>

\* onActivate, which a client may reach again by reactivating. Only a change of
\* state is signalled.
OnActivate(c) ==
    /\ runStep[c] = "read" /\ activations[c] < MaxActivations
    /\ activations' = [activations EXCEPT ![c] = @ + 1]
    /\ state' = [state EXCEPT ![c] = "Activated"]
    /\ IF state[c] # "Activated" THEN Post(c, "Activated") ELSE UNCHANGED events
    /\ UNCHANGED <<runStep, clip, stop, stopEvent, peer, calls,
                   mainStep, joining, leaving, sessions, wrappers>>

\* capsAdvertise finds no usable capability set and closes its own connection.
RefuseGraphics(c) ==
    /\ runStep[c] = "read" /\ state[c] \in {"Activated", "Streaming"} /\ ~stop[c]
    /\ RequestStop(c)
    /\ UNCHANGED <<state, runStep, clip, peer, calls, activations, mainVars>>

\* The transport or the channel manager fails, or the client is gone.
ReadFails(c) ==
    /\ Goto(c, "read", "closePeer")
    /\ UNCHANGED <<state, clip, stop, stopEvent, peer, calls, activations, mainVars>>

ReadDone(c) ==
    /\ Goto(c, "read", "channels")
    /\ UNCHANGED <<state, clip, stop, stopEvent, peer, calls, activations, mainVars>>

\* The rest of the loop's body, for a client that is Activated: start the
\* clipboard (its context is kept once made), then the graphics channel, which
\* makes the connection Streaming; or break off.
Channels(c) ==
    /\ \/ /\ Goto(c, "channels", "loop")
          /\ \/ UNCHANGED <<clip, state>>
             \/ /\ state[c] = "Activated"
                /\ clip' = [clip EXCEPT ![c] = IF @ = "off" THEN "idle" ELSE @]
                /\ state' \in {state, [state EXCEPT ![c] = "Streaming"]}
       \/ /\ state[c] = "Activated"
          /\ Goto(c, "channels", "closePeer")
          /\ UNCHANGED <<clip, state>>
    /\ UNCHANGED <<stop, stopEvent, peer, calls, activations, mainVars>>

ClosePeer(c) ==
    /\ Goto(c, "closePeer", "stopClipboard")
    /\ peer' = [peer EXCEPT ![c] = "closed"]
    /\ UNCHANGED <<state, clip, stop, stopEvent, calls, activations, mainVars>>

\* Mutant of StopClipboard: the clipboard thread is stopped without waiting for it.
StopClipboardAtOnce(c) ==
    /\ Goto(c, "stopClipboard", "closeStream")
    /\ UNCHANGED <<state, clip, stop, stopEvent, peer, calls, activations, mainVars>>

\* onClose: Clipboard::close ends the clipboard thread and waits for it.
StopClipboard(c) ==
    /\ clip[c] # "blocked"
    /\ Goto(c, "stopClipboard", "closeStream")
    /\ clip' = [clip EXCEPT ![c] = "off"]
    /\ UNCHANGED <<state, stop, stopEvent, peer, calls, activations, mainVars>>

\* onClose, its end: VideoStream::close tells the main thread, and Closed is the
\* last state.
CloseStream(c) ==
    /\ Goto(c, "closeStream", "setClosed")
    /\ Post(c, "streamClosed")
    /\ UNCHANGED <<state, clip, stop, stopEvent, peer, calls, activations,
                   mainStep, joining, leaving, sessions, wrappers>>

SetClosed(c) ==
    /\ Goto(c, "setClosed", "returning")
    /\ state' = [state EXCEPT ![c] = "Closed"]
    /\ Post(c, "Closed")
    /\ UNCHANGED <<clip, stop, stopEvent, peer, calls, activations,
                   mainStep, joining, leaving, sessions, wrappers>>

RunReturns(c) ==
    /\ Goto(c, "returning", "ended")
    /\ UNCHANGED <<state, clip, stop, stopEvent, peer, calls, activations, mainVars>>

\* The clipboard thread has something from the client and calls the main thread.
CallFromClipboard(c) ==
    /\ clip[c] = "idle" /\ calls[c] < MaxCalls
    /\ clip' = [clip EXCEPT ![c] = "blocked"]
    /\ calls' = [calls EXCEPT ![c] = @ + 1]
    /\ Post(c, "clipboard")
    /\ UNCHANGED <<state, runStep, stop, stopEvent, peer, activations,
                   mainStep, joining, leaving, sessions, wrappers>>

-----------------------------------------------------------------------------
Deliver == \E c \in Conns :
    Initialize(c) \/ Activated(c) \/ AnswerCall(c) \/ AnswerClipboard(c)
    \/ StreamClosed(c) \/ Closed(c)

Destroy == \E c \in Conns : DestroyServer(c) \/ EndDestroy(c)

Main == Deliver \/ Destroy \/ Quit \/ \E c \in Conns : IncomingConnection(c) \/ Close(c)

\* What the run thread does without waiting for anybody.
Proceed(c) ==
    \/ RunStart(c) \/ LoopHead(c) \/ ReadFails(c) \/ ReadDone(c) \/ Channels(c)
    \/ ClosePeer(c) \/ StopClipboard(c) \/ CloseStream(c) \/ SetClosed(c) \/ RunReturns(c)

Run(c) ==
    \/ Proceed(c) \/ Wake(c)
    \/ CallMain(c) \/ OnActivate(c) \/ RefuseGraphics(c) \/ CallFromClipboard(c)

Next == Main \/ \E c \in Conns : Run(c)

(***************************************************************************)
(* Fairness: the event loop delivers, a destructor goes on, a run thread   *)
(* is scheduled, and a signalled stop event ends a wait. Nothing is        *)
(* assumed of clients.                                                     *)
(***************************************************************************)
Fairness ==
    /\ WF_vars(Deliver) /\ WF_vars(Destroy)
    /\ \A c \in Conns : WF_vars(Proceed(c)) /\ WF_vars(stopEvent[c] /\ Wake(c))

Spec == Init /\ [][Next]_vars
FairSpec == Spec /\ Fairness

-----------------------------------------------------------------------------
(* Properties *)

\* Every variable stays in its range; a stop token is set exactly when the event
\* that wakes the thread is, and the main thread joins exactly while a destructor
\* runs.
TypeOK ==
    /\ stop = stopEvent /\ (mainStep = "join" <=> joining # Nobody)
    /\ state \in [Conns -> States] /\ runStep \in [Conns -> RunSteps]
    /\ clip \in [Conns -> {"off", "idle", "blocked"}]
    /\ stop \in [Conns -> BOOLEAN] /\ stopEvent \in [Conns -> BOOLEAN]
    /\ peer \in [Conns -> {"none", "open", "closed", "freed"}]
    /\ calls \in [Conns -> 0..MaxCalls] /\ activations \in [Conns -> 0..MaxActivations]
    /\ events \in Seq([conn : Conns, what : Requests])
    /\ mainStep \in {"loop", "join"} /\ joining \in Conns \union {Nobody}
    /\ leaving \in BOOLEAN
    /\ sessions \subseteq Conns /\ wrappers \subseteq Conns

\* No thread of a connection is left to use its peer once the destructor has freed
\* it.
PeerFreedSafely ==
    \A c \in Conns : peer[c] = "freed" =>
        runStep[c] \in {"none", "ended"} /\ clip[c] = "off"

\* Only the thread that owns the transport closes it: the run thread as it leaves
\* its loop, or the main thread when no run thread was ever started. No other step
\* ends a transport that is open.
OneTransportOwner ==
    [][\A c \in Conns : peer[c] = "open" /\ peer'[c] # "open"
           => peer'[c] = "closed" /\ runStep[c] \in {"none", "closePeer"}]_vars

\* While the event loop runs, the main thread never joins a thread that waits for
\* the main thread, itself or through the clipboard thread it is stopping.
NoCircularWait ==
    ~leaving /\ mainStep = "join" =>
        /\ runStep[joining] # "blocked"
        /\ clip[joining] # "blocked"

\* Nothing is delivered for a connection that is gone: Closed, whose handler
\* destroys the connection, is the last thing that its threads post, and every
\* event in the queue belongs to a connection the server holds.
ClosedComesLast ==
    ~leaving => \A i \in DOMAIN events :
        /\ events[i].conn \in sessions /\ events[i].what # "removed"
        /\ events[i].what = "Closed" =>
               \A j \in DOMAIN events : j > i => events[j].conn # events[i].conn

\* While the event loop runs, a connection that was asked to stop, or whose client is
\* gone, is destroyed in the end, and its session with it.
StopDestroys ==
    \A c \in Conns :
        (stop[c] \/ runStep[c] = "closePeer")
            ~> (leaving \/ (peer[c] = "freed" /\ c \notin wrappers))

\* Leaving the event loop, the process gets through the destructors of the
\* connections that are open.
QuitCompletes == leaving ~> (sessions = {} /\ mainStep = "loop")

\* What the main thread sees of a connection, and that it is the life promised by
\* ConnectionLife, for as long as the server runs.
LifeOf(c) ==
    IF leaving \/ peer[c] = "freed" THEN "gone"
    ELSE IF joining = c THEN "ending"
    ELSE IF c \in wrappers THEN "active"
    ELSE IF c \in sessions THEN "accepted" ELSE "absent"

Life == INSTANCE ConnectionLife WITH life <- [c \in Conns |-> LifeOf(c)]

\* What the controller has been told of a connection or will be, ...
Signal(e) == e.what \in {"Activated", "Closed"}
SignalsOf(c) ==
    IF leaving THEN "gone"
    ELSE IF state[c] = "Closed" THEN IF c \in sessions THEN "closed" ELSE "gone"
    ELSE IF c \notin sessions THEN "absent"
    ELSE IF activations[c] > 0 THEN "active" ELSE "accepted"

\* ... and the signals among the events, in their order.
SignalsIn(queue) ==
    LET found[i \in 0..Len(queue)] ==
          IF i = 0 THEN <<>>
          ELSE IF Signal(queue[i]) THEN Append(found[i - 1], queue[i]) ELSE found[i - 1]
    IN found[Len(queue)]

Signals == INSTANCE ConnectionSignals
               WITH conn   <- [c \in Conns |-> SignalsOf(c)],
                    events <- IF leaving THEN <<>> ELSE SignalsIn(events)

\* To the main thread a connection is what ConnectionLife promises, and to the controller
\* what ConnectionSignals does, on which SessionController is built.
ImplementsLife == Life!Spec /\ Signals!Spec
=============================================================================
