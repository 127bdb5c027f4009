------------------------------- MODULE Session -------------------------------
(***************************************************************************)
(* The session a connection is shown, from its activation to its end: the  *)
(* desktop portal's (src/src/PortalSession.cpp), reached by a chain of     *)
(* D-Bus requests each of which is answered by a signal, or KWin's         *)
(* (src/src/PlasmaScreencastV1Session.cpp); the connection to the input    *)
(* server on which its keys are pressed (src/src/EiConnection.cpp,         *)
(* src/src/InputHandler.cpp); and the SessionWrapper that ties it to the   *)
(* connection and its stream (src/server/SessionController.cpp).           *)
(*                                                                         *)
(* All of this runs on the main thread. The portal, KWin and the input     *)
(* server are outside: each answers in its own time, may refuse, and may   *)
(* end the session. What one of them sends arrives in the order sent.      *)
(***************************************************************************)
EXTENDS StreamControl, Sequences

CONSTANTS
    SessionTypes,   \* "Portal", "Plasma"
    OutputExists,   \* KWin can be asked for a stream of the output that is configured
    Keys, Devices,  \* keyboards of the input server
    NoDevice,
    MaxEisEvents    \* bound: events the input server has queued

ASSUME TypesAssumption == SessionTypes \subseteq {"Portal", "Plasma"} /\ OutputExists \in BOOLEAN
ASSUME EisAssumption == NoDevice \notin Devices /\ MaxEisEvents \in Nat

VARIABLES
    type,           \* the SessionType
    request,        \* what is being waited for: a portal request, KWin's stream, or "none"
    sessionPath,    \* known: the portal has answered CreateSession
    watching,       \* connected to the Closed signal of the portal's session
    started,        \* AbstractSession's
    ei,             \* eiConnection: "none", "valid", "invalid"
    keyboard,       \* m_keyboardDevice
    pressedKeys,    \* InputHandler's
    (* outside *)
    remote,         \* the session at the portal, the stream at KWin: "none", "open", "closed"
    calls,          \* D-Bus calls not answered yet
    bus,            \* messages on their way from the portal or KWin
    eisUp,          \* the input server keeps the connection
    eisDevices,     \* its keyboards
    eisEvents,      \* sent and not read yet
    held            \* the keys that are down, on the keyboards they were pressed on

sessionVars == <<type, request, sessionPath, watching, started>>
busVars     == <<remote, calls, bus>>
eisVars     == <<eisUp, eisDevices, eisEvents, held>>
inputVars   == <<ei, keyboard, pressedKeys>>
vars == <<conn, wrapper, streamVars, sessionVars, busVars, eisVars, inputVars>>

Chain    == {"CreateSession", "SelectDevices", "SelectSources", "Start"}
Messages == [what: {"Response", "Fd", "Eis", "Closed"}, result: {"ok", "failed", "empty"}]
EisEvents == [what: {"Added", "Removed"}, device: Devices] \union [what: {"Disconnect"}, device: {NoDevice}]

TypeOK ==
    /\ StreamTypeOK
    /\ type \in SessionTypes /\ request \in Chain \union {"Stream", "none"}
    /\ {sessionPath, watching, started, eisUp} \subseteq BOOLEAN
    /\ ei \in {"none", "valid", "invalid"} /\ keyboard \in Devices \union {NoDevice}
    /\ pressedKeys \subseteq Keys
    /\ remote \in {"none", "open", "closed"} /\ calls \subseteq {"OpenPipeWireRemote", "ConnectToEIS"}
    /\ bus \in Seq(Messages) /\ eisEvents \in Seq(EisEvents)
    /\ eisDevices \subseteq Devices /\ held \subseteq Devices \X Keys

\* The client is active and the signal that says so is on its way.
Init ==
    /\ StreamInit
    /\ type \in SessionTypes /\ request = "none"
    /\ sessionPath = FALSE /\ watching = FALSE /\ started = FALSE
    /\ ei = "none" /\ keyboard = NoDevice /\ pressedKeys = {}
    /\ remote = "none" /\ calls = {} /\ bus = <<>>
    /\ eisUp = FALSE /\ eisDevices = {} /\ eisEvents = <<>> /\ held = {}

\* AbstractSession::error, which the controller answers by closing the connection.
Error == conn' = Stopped

\* PortalRequest::start waits for the call to return. A call that is refused
\* calls back with an error at once, one for a session that is closed always is.
Ask(what) ==
    \/ /\ remote = "open" \/ what = "CreateSession"
       /\ request' = what /\ UNCHANGED conn
    \/ request' = "none" /\ Error

\* A message arrives, and somebody is there whom it is for.
Receive(what, result) ==
    /\ wrapper = "alive"
    /\ bus # <<>> /\ Head(bus) = [what |-> what, result |-> result]
    /\ bus' = Tail(bus)

-----------------------------------------------------------------------------
(* The wrapper and the session, on the main thread *)

\* The constructors, and start.
OnNewConnection ==
    /\ wrapper = "absent" /\ conn # "gone"
    /\ wrapper' = "alive"
    /\ \/ type = "Portal" /\ calls' = calls /\ Ask("CreateSession")
       \/ /\ type = "Plasma" /\ calls' = {"ConnectToEIS"}
          /\ request' = (IF OutputExists THEN "Stream" ELSE "none")
          /\ UNCHANGED conn
    /\ UNCHANGED <<streamVars, type, sessionPath, watching, started, remote, bus, eisVars, inputVars>>

\* Any answer but success ends the chain, and what was asked for.
OnRequestFailed ==
    /\ \E result \in {"failed", "empty"} :
           /\ Receive("Response", result)
           /\ result = "empty" => request = "Start"
    /\ request' = "none" /\ Error
    /\ UNCHANGED <<wrapper, streamVars, type, sessionPath, watching, started, remote, calls, eisVars, inputVars>>

OnCreateSession ==
    /\ request = "CreateSession" /\ Receive("Response", "ok")
    /\ sessionPath' = TRUE
    /\ Ask("SelectDevices")
    /\ UNCHANGED <<wrapper, streamVars, type, watching, started, remote, calls, eisVars, inputVars>>

OnDevicesSelected ==
    /\ request = "SelectDevices" /\ Receive("Response", "ok")
    /\ Ask("SelectSources")
    /\ UNCHANGED <<wrapper, streamVars, type, sessionPath, watching, started, remote, calls, eisVars, inputVars>>

OnSourcesSelected ==
    /\ request = "SelectSources" /\ Receive("Response", "ok")
    /\ Ask("Start")
    /\ UNCHANGED <<wrapper, streamVars, type, sessionPath, watching, started, remote, calls, eisVars, inputVars>>

\* PortalSession::onSessionStarted: the node and the input server are asked for together.
OnPortalStarted ==
    /\ request = "Start" /\ Receive("Response", "ok")
    /\ request' = "none"
    /\ calls' = {"OpenPipeWireRemote", "ConnectToEIS"}
    /\ UNCHANGED <<conn, wrapper, streamVars, type, sessionPath, watching, started, remote, eisVars, inputVars>>

\* Mutant: a node that is refused is only logged.
PipeWireRefusedQuietly ==
    /\ \/ /\ Receive("Fd", "ok")
          /\ watching' = TRUE /\ started' = TRUE
          /\ OnSessionStarted
       \/ Receive("Fd", "failed") /\ UNCHANGED <<watching, started, conn, wrapper, streamVars>>
    /\ UNCHANGED <<type, request, sessionPath, remote, calls, eisVars, inputVars>>

\* The node is there. Only now is the Closed signal listened for.
OnPipeWireRemote ==
    /\ \/ /\ Receive("Fd", "ok")
          /\ watching' = TRUE /\ started' = TRUE
          /\ OnSessionStarted
       \/ /\ Receive("Fd", "failed")
          /\ Error
          /\ UNCHANGED <<watching, started, wrapper, streamVars>>
    /\ UNCHANGED <<type, request, sessionPath, remote, calls, eisVars, inputVars>>

\* KWin has created the stream.
OnStreamCreated ==
    /\ request = "Stream" /\ Receive("Response", "ok")
    /\ request' = "none" /\ started' = TRUE
    /\ OnSessionStarted
    /\ UNCHANGED <<type, sessionPath, watching, remote, calls, eisVars, inputVars>>

\* The connection to the input server may not be had, or may not be set up. A
\* session of KWin goes on without.
OnConnectToEis ==
    /\ \/ Receive("Eis", "ok") /\ ei' = "valid" /\ UNCHANGED <<conn, eisUp, eisEvents>>
       \/ /\ Receive("Eis", "ok") /\ ei' = "invalid"
          /\ eisUp' = FALSE /\ eisEvents' = <<>>
          /\ conn' = IF type = "Portal" THEN Stopped ELSE conn
       \/ /\ Receive("Eis", "failed")
          /\ conn' = IF type = "Portal" THEN Stopped ELSE conn
          /\ UNCHANGED <<ei, eisUp, eisEvents>>
    /\ IF eisUp' THEN UNCHANGED <<eisDevices, held>> ELSE eisDevices' = {} /\ held' = {}
    /\ UNCHANGED <<wrapper, streamVars, sessionVars, remote, calls, keyboard, pressedKeys>>

OnSessionClosed ==
    /\ Receive("Closed", "ok")
    /\ Error
    /\ UNCHANGED <<wrapper, streamVars, sessionVars, remote, calls, eisVars, inputVars>>

\* A message for a session that is gone: a PortalRequest that outlived it finds no context.
DropMessage ==
    /\ wrapper = "gone" /\ bus # <<>>
    /\ bus' = Tail(bus)
    /\ request' = IF Head(bus).what = "Response" THEN "none" ELSE request
    /\ IF Head(bus).what = "Eis" THEN eisUp' = FALSE /\ eisEvents' = <<>> ELSE UNCHANGED <<eisUp, eisEvents>>
    /\ UNCHANGED <<conn, wrapper, streamVars, type, sessionPath, watching, started, remote, calls, eisDevices, held, inputVars>>

\* One event of the input server: only the first keyboard is taken.
KeyboardAfter(k, e) ==
    IF e.what = "Added" /\ k = NoDevice THEN e.device
    ELSE IF e.what = "Removed" /\ k = e.device THEN NoDevice
    ELSE k

\* All of them, in their order.
KeyboardAfterAll ==
    LET after[i \in 0..Len(eisEvents)] ==
          IF i = 0 THEN keyboard ELSE KeyboardAfter(after[i - 1], eisEvents[i])
    IN  after[Len(eisEvents)]

\* Mutant: nobody is connected to EiConnection::error.
NoEisError(e) == FALSE

\* The connection is lost: an error of the portal's session, KWin's is not connected to it.
EisError(e) == e.what = "Disconnect" /\ type = "Portal"

ProcessEisEvents ==
    /\ ei = "valid" /\ eisEvents # <<>>
    /\ eisEvents' = <<>>
    /\ keyboard' = KeyboardAfterAll
    /\ conn' = IF \E i \in DOMAIN eisEvents : EisError(eisEvents[i]) THEN Stopped ELSE conn
    /\ UNCHANGED <<wrapper, streamVars, sessionVars, busVars, eisUp, eisDevices, held, ei, pressedKeys>>

\* Mutant: the connection to the input server is not closed.
DestroyedWithoutDisconnect ==
    /\ conn = "closed" /\ wrapper # "absent"
    /\ conn' = "gone" /\ wrapper' = "gone" /\ enabledSignals' = 0 /\ encoder' = "none"
    /\ ei' = "none" /\ keyboard' = NoDevice
    /\ remote' = IF remote = "open" /\ (sessionPath \/ type = "Plasma") THEN "closed" ELSE remote
    /\ UNCHANGED <<enabled, streamingEnabled, sessionStarted, source, mode, sessionVars, calls, bus, eisVars, pressedKeys>>

\* The connection is deleted once its run thread has ended, and the wrapper,
\* the session and the connection to the input server with it.
OnConnectionDestroyed ==
    /\ conn = "closed" /\ wrapper # "absent"
    /\ conn' = "gone" /\ wrapper' = "gone" /\ enabledSignals' = 0 /\ encoder' = "none"
    /\ ei' = "none" /\ keyboard' = NoDevice
    /\ IF ei = "valid" THEN eisUp' = FALSE /\ eisDevices' = {} /\ eisEvents' = <<>> /\ held' = {}
                       ELSE UNCHANGED eisVars
    /\ remote' = IF remote = "open" /\ (sessionPath \/ type = "Plasma") THEN "closed" ELSE remote
    /\ UNCHANGED <<enabled, streamingEnabled, sessionStarted, source, mode, sessionVars, calls, bus, pressedKeys>>

-----------------------------------------------------------------------------
(* Input, which the run thread hands to the main thread *)

\* Mutant: the device is not looked at.
NoKeyboardCheck == wrapper = "alive" /\ started /\ ei = "valid"

\* A key reaches the input server if there is a keyboard to press it on.
KeyboardUp == wrapper = "alive" /\ started /\ ei = "valid" /\ keyboard \in eisDevices

KeyboardEvent(down, k) ==
    /\ conn \in {"running", "stopping"}
    /\ pressedKeys' = IF down THEN pressedKeys \union {k} ELSE pressedKeys \ {k}
    /\ held' = IF ~KeyboardUp THEN held
               ELSE IF down THEN held \union {<<keyboard, k>>} ELSE held \ {<<keyboard, k>>}
    /\ UNCHANGED <<conn, wrapper, streamVars, sessionVars, busVars, eisUp, eisDevices, eisEvents, ei, keyboard>>

\* Mutant: the keys are forgotten before they are released.
ForgetKeys ==
    /\ conn \in {"running", "stopping"}
    /\ pressedKeys' = {}
    /\ UNCHANGED <<conn, wrapper, streamVars, sessionVars, busVars, eisVars, ei, keyboard>>

\* The client is not sure which of its keys are down: all of them are released.
SynchronizeEvent ==
    /\ conn \in {"running", "stopping"}
    /\ pressedKeys' = {}
    /\ held' = IF KeyboardUp THEN held \ ({keyboard} \X pressedKeys) ELSE held
    /\ UNCHANGED <<conn, wrapper, streamVars, sessionVars, busVars, eisUp, eisDevices, eisEvents, ei, keyboard>>

-----------------------------------------------------------------------------
(* The portal and KWin *)

Creates == request \in {"CreateSession", "Stream"}

\* A request is answered. The user is asked at Start, and may not grant a
\* device or a stream ("empty"); whatever belongs to a closed session fails.
RemoteAnswers(result) ==
    /\ request # "none" /\ \A i \in DOMAIN bus : bus[i].what # "Response"
    /\ type = "Plasma" => wrapper = "alive"
    /\ result = "ok" => remote = "open" \/ Creates
    /\ result = "empty" => remote = "open" /\ request = "Start"
    /\ remote' = IF result = "ok" /\ Creates THEN "open" ELSE remote
    /\ bus' = Append(bus, [what |-> "Response", result |-> result])
    /\ UNCHANGED <<conn, wrapper, streamVars, sessionVars, calls, eisVars, inputVars>>

\* A call is answered, in any order.
RemoteReplies(call, result) ==
    /\ call \in calls
    /\ calls' = calls \ {call}
    /\ result = "ok" /\ type = "Portal" => remote = "open"
    /\ LET what == IF call = "ConnectToEIS" THEN "Eis" ELSE "Fd"
       IN /\ bus' = Append(bus, [what |-> what, result |-> result])
          /\ eisUp' = (eisUp \/ (what = "Eis" /\ result = "ok"))
    /\ UNCHANGED <<conn, wrapper, streamVars, sessionVars, remote, eisDevices, eisEvents, held, inputVars>>

\* The user revokes the session, or its output goes. The signal is routed to
\* those who listen when it is sent; nobody listens to KWin's.
RemoteCloses ==
    /\ remote = "open"
    /\ remote' = "closed"
    /\ bus' = IF watching THEN Append(bus, [what |-> "Closed", result |-> "ok"]) ELSE bus
    /\ UNCHANGED <<conn, wrapper, streamVars, sessionVars, calls, eisVars, inputVars>>

-----------------------------------------------------------------------------
(* The input server *)

\* Devices come once krdp has answered the offer of a seat.
DeviceAdded(d) ==
    /\ eisUp /\ ei = "valid" /\ Len(eisEvents) < MaxEisEvents
    /\ d \notin eisDevices /\ \A i \in DOMAIN eisEvents : eisEvents[i].device # d
    /\ eisDevices' = eisDevices \union {d}
    /\ eisEvents' = Append(eisEvents, [what |-> "Added", device |-> d])
    /\ UNCHANGED <<conn, wrapper, streamVars, sessionVars, busVars, eisUp, held, inputVars>>

\* The keys of a keyboard that is removed are up.
DeviceRemoved(d) ==
    /\ d \in eisDevices /\ Len(eisEvents) < MaxEisEvents
    /\ eisDevices' = eisDevices \ {d}
    /\ held' = held \ ({d} \X Keys)
    /\ eisEvents' = Append(eisEvents, [what |-> "Removed", device |-> d])
    /\ UNCHANGED <<conn, wrapper, streamVars, sessionVars, busVars, eisUp, inputVars>>

EisDisconnects ==
    /\ eisUp
    /\ eisUp' = FALSE /\ eisDevices' = {} /\ held' = {}
    /\ eisEvents' = Append(eisEvents, [what |-> "Disconnect", device |-> NoDevice])
    /\ UNCHANGED <<conn, wrapper, streamVars, sessionVars, busVars, inputVars>>

-----------------------------------------------------------------------------
(* The specification *)

others == <<sessionVars, busVars, eisVars, inputVars>>

Messaging == OnRequestFailed \/ OnCreateSession \/ OnDevicesSelected \/ OnSourcesSelected
    \/ OnPortalStarted \/ OnPipeWireRemote \/ OnStreamCreated \/ OnConnectToEis \/ OnSessionClosed
    \/ DropMessage

Stream ==
    /\ \/ \E on \in BOOLEAN : SetEnabled(on)
       \/ \E m \in Modes : SetActiveEncodingMode(m)
       \/ OnVideoStreamEnabledChanged
       \/ CloseStream
    /\ UNCHANGED others

Outside ==
    \/ \E result \in {"ok", "failed", "empty"} : RemoteAnswers(result)
    \/ \E call \in calls, result \in {"ok", "failed"} : RemoteReplies(call, result)
    \/ RemoteCloses
    \/ \E d \in Devices : DeviceAdded(d) \/ DeviceRemoved(d)
    \/ EisDisconnects

Next ==
    \/ OnNewConnection \/ Messaging \/ ProcessEisEvents \/ OnConnectionDestroyed
    \/ \E down \in BOOLEAN, k \in Keys : KeyboardEvent(down, k)
    \/ SynchronizeEvent
    \/ Stream
    \/ Outside

Spec == Init /\ [][Next]_vars

\* The main thread handles what has arrived, the connection ends when asked to
\* (see RdpConnection), and the portal, KWin and the input server answer and
\* drop what belongs to a closed session. Only the user, at Start, may take
\* for ever. Nothing obliges clients to do or the outside to close anything.
Fairness ==
    /\ WF_vars(OnNewConnection) /\ WF_vars(Messaging) /\ WF_vars(ProcessEisEvents)
    /\ WF_vars(OnConnectionDestroyed)
    /\ WF_vars(OnVideoStreamEnabledChanged /\ UNCHANGED others)
    /\ WF_vars(conn = "stopping" /\ CloseStream /\ UNCHANGED others)
    /\ WF_vars((request # "Start" \/ remote = "closed") /\ \E result \in {"ok", "failed"} : RemoteAnswers(result))
    /\ WF_vars(\E call \in calls, result \in {"ok", "failed"} : RemoteReplies(call, result))
    /\ WF_vars(remote = "closed" /\ type = "Portal" /\ EisDisconnects)

FairSpec == Spec /\ Fairness

-----------------------------------------------------------------------------
(* Properties *)

\* A key that is down at the input server is one krdp believes to be down, so
\* that a synchronisation releases it: whatever was pressed before the session
\* started or while there was no keyboard, and however keyboards came and went.
HeldKeysAreKnown == \A p \in held : p[2] \in pressedKeys

\* No key stays down when its client has left, whether it said so or not.
KeysAreReleased == conn # "running" ~> held = {}

\* A portal session that is closed under the client ends the connection. The
\* Closed signal is lost if it is sent before the node is there; then a request
\* of the chain, or the input server, must bring the error.
PortalCloseIsNoticed == remote = "closed" /\ type = "Portal" ~> conn # "running"

\* A client is not left with a session that neither works nor fails: it starts,
\* with its input if it is the portal's, or waits for the user, or the
\* connection ends.
SessionSettles ==
    conn = "running" ~>
        \/ started /\ (type = "Portal" => ei = "valid")
        \/ request = "Start"
        \/ conn # "running"
=============================================================================
