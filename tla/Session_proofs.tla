--------------------------- MODULE Session_proofs ---------------------------
(* That the capture runs when it is wanted, that no key is held that a     *)
(* synchronisation would not release, and that a session which has not     *)
(* settled always has something to wait for.                               *)
EXTENDS Session, Induction, TLAPS

\* What brings CapturesWhenWanted about: streaming follows the wrapper's last
\* look at the client's wish, the node is known from the moment the session has
\* started, and what captures does what streaming says.
CaptureInv ==
    /\ enabled \in BOOLEAN /\ streamingEnabled \in BOOLEAN
    /\ sessionStarted \in BOOLEAN /\ source \in BOOLEAN
    /\ sessionStarted <=> source
    /\ source => wrapper # "absent"
    /\ streamingEnabled => source
    /\ enabledSignals \in Nat
    /\ enabledSignals = 0 /\ wrapper = "alive" => (streamingEnabled <=> sessionStarted /\ enabled)
    /\ conn = "running" => (encoder = "running" <=> streamingEnabled /\ mode # NoMode)
    /\ conn = "running" => (encoder = "none" <=> mode = NoMode)

LEMMA CaptureInit == Init => CaptureInv
<1> SUFFICES ASSUME Init PROVE CaptureInv
  OBVIOUS
<1>1. ~enabled /\ ~streamingEnabled /\ ~sessionStarted /\ ~source
  BY DEF Init, StreamInit
<1>2. enabled \in BOOLEAN /\ streamingEnabled \in BOOLEAN /\ sessionStarted \in BOOLEAN /\ source \in BOOLEAN
  BY DEF Init, StreamInit
<1>3. enabledSignals = 0 /\ wrapper = "absent" /\ mode = NoMode /\ encoder = "none"
  BY DEF Init, StreamInit
<1> QED
  BY <1>1, <1>2, <1>3 DEF CaptureInv, NoMode

\* A session starts when it has its wrapper, and for the first time.
LEMMA StartKeeps ==
  ASSUME CaptureInv, wrapper = "alive", OnSessionStarted
  PROVE  CaptureInv'
  BY DEF CaptureInv, OnSessionStarted, Told, Stopped

LEMMA StreamKeeps ==
  ASSUME CaptureInv, Stream
  PROVE  CaptureInv'
<1>1. ASSUME NEW on \in BOOLEAN, SetEnabled(on) PROVE CaptureInv'
  BY <1>1 DEF CaptureInv, SetEnabled
<1>2. ASSUME NEW m \in Modes, SetActiveEncodingMode(m) PROVE CaptureInv'
  BY <1>2 DEF CaptureInv, SetActiveEncodingMode, Modes, NoMode, Stopped
<1>3. ASSUME OnVideoStreamEnabledChanged PROVE CaptureInv'
  BY <1>3 DEF CaptureInv, OnVideoStreamEnabledChanged, Told
<1>4. ASSUME CloseStream PROVE CaptureInv'
  BY <1>4 DEF CaptureInv, CloseStream
<1> QED
  BY <1>1, <1>2, <1>3, <1>4 DEF Stream

\* Everything else at most stops the connection.
LEMMA OthersKeep ==
  ASSUME CaptureInv, UNCHANGED <<wrapper, streamVars>>, conn' = conn \/ conn' = Stopped
  PROVE  CaptureInv'
  BY DEF CaptureInv, streamVars, Stopped

LEMMA CaptureStep ==
  ASSUME CaptureInv, [Next]_vars
  PROVE  CaptureInv'
<1>1. CASE OnNewConnection
  BY <1>1 DEF OnNewConnection, CaptureInv, streamVars, Ask, Error, Stopped
<1>2. CASE Messaging
  <2>1. CASE OnPipeWireRemote
    <3>1. CASE OnSessionStarted /\ wrapper = "alive"
      BY <3>1, StartKeeps
    <3>2. CASE Error /\ UNCHANGED <<wrapper, streamVars>>
      BY <3>2, OthersKeep DEF Error
    <3> QED
      BY <2>1, <3>1, <3>2 DEF OnPipeWireRemote, Receive
  <2>2. CASE OnStreamCreated
    BY <2>2, StartKeeps DEF OnStreamCreated, Receive
  <2>3. CASE OnRequestFailed \/ OnCreateSession \/ OnDevicesSelected \/ OnSourcesSelected
    BY <2>3, OthersKeep DEF OnRequestFailed, OnCreateSession, OnDevicesSelected, OnSourcesSelected, Ask, Error
  <2>4. CASE OnPortalStarted \/ OnConnectToEis \/ OnSessionClosed \/ DropMessage
    BY <2>4, OthersKeep DEF OnPortalStarted, OnConnectToEis, OnSessionClosed, DropMessage, Error
  <2> QED
    BY <1>2, <2>1, <2>2, <2>3, <2>4 DEF Messaging
<1>3. CASE ProcessEisEvents
  BY <1>3, OthersKeep DEF ProcessEisEvents
<1>4. CASE OnConnectionDestroyed
  BY <1>4 DEF OnConnectionDestroyed, CaptureInv
<1>5. CASE \E down \in BOOLEAN, k \in Keys : KeyboardEvent(down, k)
  BY <1>5, OthersKeep DEF KeyboardEvent
<1>6. CASE SynchronizeEvent
  BY <1>6, OthersKeep DEF SynchronizeEvent
<1>7. CASE Stream
  BY <1>7, StreamKeeps
<1>8. CASE Outside
  BY <1>8, OthersKeep DEF Outside, RemoteAnswers, RemoteReplies, RemoteCloses, DeviceAdded, DeviceRemoved,
      EisDisconnects
<1>9. CASE UNCHANGED vars
  BY <1>9, OthersKeep DEF vars
<1> QED
  BY <1>1, <1>2, <1>3, <1>4, <1>5, <1>6, <1>7, <1>8, <1>9 DEF Next

\* CapturesWhenWanted: for every session, whatever the order in which the client
\* enables its output, a mode is settled and the session starts (SessionWrapper,
\* VideoStream::setStreamingEnabled, VideoStreamSurface).
THEOREM CapturesCorrect == Spec => []CapturesWhenWanted
<1>1. CaptureInv => CapturesWhenWanted
  BY DEF CaptureInv, CapturesWhenWanted
<1> QED
  BY CaptureInit, CaptureStep, <1>1, PTL DEF Spec

-----------------------------------------------------------------------------
\* What is held is held on krdp's keyboard, which the input server still has: a
\* keyboard with a removal on its way is not among its devices, so that letting
\* go of a keyboard loses no key.
HeldInv ==
    /\ held \subseteq Devices \X Keys
    /\ \A p \in held : p[1] = keyboard /\ p[2] \in pressedKeys
    /\ held # {} => KeyboardUp
    /\ eisDevices \subseteq Devices
    /\ eisEvents \in Seq(EisEvents)
    /\ \A i \in DOMAIN eisEvents : eisEvents[i].what = "Removed" => eisEvents[i].device \notin eisDevices

\* The keyboard after each of the events.
IsTaken(g) ==
    g = [i \in 0..Len(eisEvents) |->
            IF i = 0 THEN keyboard ELSE KeyboardAfter(g[i - 1], eisEvents[i])]

LEMMA TakenAt ==
  ASSUME NEW g, IsTaken(g), NEW i \in 0..Len(eisEvents)
  PROVE  g[i] = IF i = 0 THEN keyboard ELSE KeyboardAfter(g[i - 1], eisEvents[i])
<1> DEFINE f == [j \in 0..Len(eisEvents) |->
                    IF j = 0 THEN keyboard ELSE KeyboardAfter(g[j - 1], eisEvents[j])]
<1>1. g = f
  BY DEF IsTaken
<1>2. f[i] = IF i = 0 THEN keyboard ELSE KeyboardAfter(g[i - 1], eisEvents[i])
  OBVIOUS
<1> HIDE DEF f
<1> QED  BY <1>1, <1>2

LEMMA EisEventParts ==
  ASSUME NEW e \in EisEvents
  PROVE  e.device \in Devices \union {NoDevice} /\ e.what \in {"Added", "Removed", "Disconnect"}
  BY DEF EisEvents

\* The events are taken one after another, and each leaves krdp with a keyboard or without.
LEMMA KeyboardIsTaken ==
  ASSUME eisEvents \in Seq(EisEvents), keyboard \in Devices \union {NoDevice}
  PROVE  \E g : /\ IsTaken(g) /\ KeyboardAfterAll = g[Len(eisEvents)]
                /\ g \in [0..Len(eisEvents) -> Devices \union {NoDevice}]
<1> DEFINE n == Len(eisEvents)
           Kbds == Devices \union {NoDevice}
           F == [p \in (1..n) \X Kbds |-> KeyboardAfter(p[2], eisEvents[p[1]])]
<1>1. n \in Nat /\ \A i \in 1..n : eisEvents[i] \in EisEvents
  OBVIOUS
<1>2. ASSUME NEW i \in 1..n, NEW k \in Kbds PROVE KeyboardAfter(k, eisEvents[i]) \in Kbds
  BY <1>1, EisEventParts DEF KeyboardAfter
<1>3. F \in [(1..n) \X Kbds -> Kbds] /\ \A i \in 1..n, k \in Kbds : F[<<i, k>>] = KeyboardAfter(k, eisEvents[i])
  BY <1>2
<1> HIDE DEF F, n
<1>4. PICK g \in [0..n -> Kbds] : IsIteration(g, n, keyboard, F)
  BY <1>1, <1>3, IterationExists
<1>5. ASSUME NEW i \in 0..n
      PROVE  g[i] = IF i = 0 THEN keyboard ELSE KeyboardAfter(g[i - 1], eisEvents[i])
  <2>1. CASE i = 0
    BY <1>4, <2>1 DEF IsIteration
  <2>2. CASE i # 0
    <3>1. i \in 1..n /\ i - 1 \in 0..n
      BY <1>1, <2>2
    <3> QED  BY <1>3, <1>4, <2>2, <3>1 DEF IsIteration
  <2> QED  BY <2>1, <2>2
<1> DEFINE h == CHOOSE x : IsTaken(x)
<1>6. IsTaken(g)
  <2>1. g = [i \in 0..n |-> g[i]]
    OBVIOUS
  <2>2. [i \in 0..n |-> g[i]]
          = [i \in 0..n |-> IF i = 0 THEN keyboard ELSE KeyboardAfter(g[i - 1], eisEvents[i])]
    BY <1>5
  <2> QED  BY <2>1, <2>2 DEF IsTaken, n
<1>7. IsTaken(h)
  BY <1>6, Zenon
<1>8. KeyboardAfterAll = h[n]
  BY DEF KeyboardAfterAll, IsTaken, n
<1> HIDE DEF h
<1> DEFINE P == {i \in 0..n : h[i] \in Kbds}
<1>9. \A i \in 0..n : h[i] = IF i = 0 THEN keyboard ELSE KeyboardAfter(h[i - 1], eisEvents[i])
  BY <1>7, TakenAt DEF n
<1>10. 0 \in P
  BY <1>1, <1>9
<1>11. ASSUME NEW i \in P, i < n PROVE i + 1 \in P
  <2>1. i + 1 \in 1..n /\ i + 1 \in 0..n /\ (i + 1) - 1 = i /\ i + 1 # 0
    BY <1>1, <1>11
  <2>2. h[i + 1] = KeyboardAfter(h[i], eisEvents[i + 1])
    BY <1>9, <2>1
  <2> QED  BY <1>2, <2>1, <2>2
<1>12. P \in SUBSET (0..n)
  OBVIOUS
<1> HIDE DEF P
<1>13. P = 0..n
  BY <1>1, <1>10, <1>11, <1>12, Upwards
<1>14. h \in [0..n -> Kbds]
  <2>1. \A i \in 0..n : h[i] \in Kbds
    BY <1>13 DEF P
  <2>2. h = [i \in 0..n |-> h[i]]
    BY <1>7 DEF IsTaken, n
  <2> QED  BY <2>1, <2>2
<1> QED  BY <1>7, <1>8, <1>14 DEF n

\* A keyboard that is not removed meanwhile is kept.
LEMMA KeyboardIsKept ==
  ASSUME eisEvents \in Seq(EisEvents), keyboard \in Devices,
         \A i \in DOMAIN eisEvents : eisEvents[i].what = "Removed" => eisEvents[i].device # keyboard
  PROVE  KeyboardAfterAll = keyboard
<1> DEFINE n == Len(eisEvents)
<1>1. n \in Nat /\ DOMAIN eisEvents = 1..n
  OBVIOUS
<1>2. PICK g : IsTaken(g) /\ KeyboardAfterAll = g[n]
  BY KeyboardIsTaken
<1>3. \A i \in 0..n : g[i] = IF i = 0 THEN keyboard ELSE KeyboardAfter(g[i - 1], eisEvents[i])
  BY <1>2, TakenAt
<1> HIDE DEF n
<1> DEFINE P == {i \in 0..n : g[i] = keyboard}
<1>4. 0 \in P
  BY <1>1, <1>3
<1>5. ASSUME NEW i \in P, i < n PROVE i + 1 \in P
  <2>1. i + 1 \in 1..n /\ i + 1 \in 0..n /\ (i + 1) - 1 = i /\ i + 1 # 0
    BY <1>1, <1>5
  <2>2. g[i + 1] = KeyboardAfter(keyboard, eisEvents[i + 1])
    BY <1>3, <2>1
  <2>3. keyboard # NoDevice
    BY EisAssumption
  <2> QED  BY <1>1, <2>1, <2>2, <2>3 DEF KeyboardAfter
<1>6. P \in SUBSET (0..n)
  OBVIOUS
<1> HIDE DEF P
<1>7. n \in P
  BY <1>1, <1>4, <1>5, <1>6, Upwards
<1> QED  BY <1>2, <1>7 DEF P

heldVars == <<held, keyboard, pressedKeys, eisDevices, ei, eisEvents, wrapper, started>>

LEMMA HeldInit == Init => HeldInv
  BY DEF Init, HeldInv

LEMMA KeyKeeps ==
  ASSUME HeldInv, NEW down \in BOOLEAN, NEW k \in Keys, KeyboardEvent(down, k)
  PROVE  HeldInv'
<1> USE DEF HeldInv, KeyboardEvent, sessionVars
<1>1. CASE KeyboardUp /\ down
  BY <1>1 DEF KeyboardUp
<1>2. CASE KeyboardUp /\ ~down
  BY <1>2 DEF KeyboardUp
<1>3. CASE ~KeyboardUp
  BY <1>3 DEF KeyboardUp
<1> QED
  BY <1>1, <1>2, <1>3

LEMMA HeldStep ==
  ASSUME HeldInv, [Next]_vars
  PROVE  HeldInv'
<1> USE DEF HeldInv, KeyboardUp
<1>1. CASE UNCHANGED heldVars
  BY <1>1 DEF heldVars
<1>2. CASE ProcessEisEvents
  <2>1. /\ eisEvents' = <<>> /\ keyboard' = KeyboardAfterAll
        /\ UNCHANGED <<held, pressedKeys, eisDevices, ei, wrapper, started>>
    BY <1>2 DEF ProcessEisEvents, sessionVars
  <2>2. ASSUME held # {} PROVE keyboard' = keyboard
    <3>1. keyboard \in Devices
      BY <2>2
    <3>2. \A i \in DOMAIN eisEvents : eisEvents[i].what = "Removed" => eisEvents[i].device # keyboard
      BY <2>2
    <3> QED  BY <2>1, <3>1, <3>2, KeyboardIsKept
  <2> QED  BY <2>1, <2>2
<1>3. CASE OnConnectToEis
  <2>1. UNCHANGED <<keyboard, pressedKeys, wrapper, started>>
    BY <1>3 DEF OnConnectToEis, sessionVars
  <2>2. \/ eisEvents' = eisEvents /\ ei' = ei
        \/ eisEvents' = eisEvents /\ ei' = "valid"
        \/ eisEvents' = <<>> /\ eisUp' = FALSE
    BY <1>3 DEF OnConnectToEis
  <2>3. \/ eisDevices' = eisDevices /\ held' = held /\ eisUp'
        \/ eisDevices' = {} /\ held' = {}
    BY <1>3 DEF OnConnectToEis
  <2>4. CASE eisEvents' = <<>>
    BY <2>1, <2>2, <2>3, <2>4
  <2>5. CASE eisEvents' = eisEvents
    BY <2>1, <2>2, <2>3, <2>5
  <2> QED
    BY <2>2, <2>4, <2>5
<1>4. CASE DropMessage
  <2>1. UNCHANGED <<held, keyboard, pressedKeys, eisDevices, ei, wrapper, started>>
    BY <1>4 DEF DropMessage, inputVars
  <2>2. eisEvents' = eisEvents \/ eisEvents' = <<>>
    BY <1>4 DEF DropMessage
  <2>3. CASE eisEvents' = <<>>
    BY <2>1, <2>3
  <2>4. CASE eisEvents' = eisEvents
    BY <2>1, <2>4
  <2> QED
    BY <2>2, <2>3, <2>4
<1>5. CASE OnConnectionDestroyed
  <2>1. CASE ei = "valid"
    BY <1>5, <2>1 DEF OnConnectionDestroyed
  <2>2. CASE ei # "valid"
    BY <1>5, <2>2 DEF OnConnectionDestroyed, eisVars
  <2> QED
    BY <2>1, <2>2
<1>6. CASE \E d \in Devices : DeviceAdded(d)
  BY <1>6 DEF DeviceAdded, EisEvents, inputVars, sessionVars
<1>7. CASE \E d \in Devices : DeviceRemoved(d)
  BY <1>7 DEF DeviceRemoved, EisEvents, inputVars, sessionVars
<1>8. CASE EisDisconnects
  BY <1>8 DEF EisDisconnects, EisEvents, inputVars
<1>9. CASE \E down \in BOOLEAN, k \in Keys : KeyboardEvent(down, k)
  <2>1. PICK down \in BOOLEAN, k \in Keys : KeyboardEvent(down, k)
    BY <1>9
  <2> QED
    BY <2>1, KeyKeeps
<1>10. CASE SynchronizeEvent
  BY <1>10 DEF SynchronizeEvent, sessionVars
<1>11. CASE Stream
  BY <1>11 DEF Stream, SetEnabled, SetActiveEncodingMode, OnVideoStreamEnabledChanged, CloseStream,
      others, sessionVars, eisVars, inputVars
<1>12. CASE OnNewConnection
  BY <1>12 DEF OnNewConnection, eisVars, inputVars
<1>13. OnRequestFailed \/ OnCreateSession \/ OnDevicesSelected \/ OnSourcesSelected \/ OnPortalStarted
         => UNCHANGED heldVars
  BY DEF OnRequestFailed, OnCreateSession, OnDevicesSelected, OnSourcesSelected, OnPortalStarted,
     heldVars, eisVars, inputVars
<1>14. CASE OnPipeWireRemote \/ OnStreamCreated \/ OnSessionClosed
  BY <1>14 DEF OnPipeWireRemote, OnStreamCreated, OnSessionClosed, OnSessionStarted, Receive, sessionVars,
     eisVars, inputVars
<1>15. (\E result \in {"ok", "failed", "empty"} : RemoteAnswers(result))
         \/ (\E call \in calls, result \in {"ok", "failed"} : RemoteReplies(call, result))
         \/ RemoteCloses \/ UNCHANGED vars => UNCHANGED heldVars
  BY DEF RemoteAnswers, RemoteReplies, RemoteCloses, vars, heldVars, sessionVars, eisVars, inputVars
<1> QED
  BY <1>1, <1>2, <1>3, <1>4, <1>5, <1>6, <1>7, <1>8, <1>9, <1>10, <1>11, <1>12, <1>13, <1>14, <1>15
     DEF Next, Messaging, Outside

\* HeldKeysAreKnown: for any keyboards that come and go, and any keys
\* (InputHandler::synchronizeEvent, EiConnection).
THEOREM HeldCorrect == Spec => []HeldKeysAreKnown
<1>1. HeldInv => HeldKeysAreKnown
  BY DEF HeldInv, HeldKeysAreKnown
<1> QED
  BY HeldInit, HeldStep, <1>1, PTL DEF Spec

\* Keys are down only for a session that is there, through a connection to the input
\* server that is up and on a keyboard that it still has.
NoKeyLeftBehind == wrapper # "alive" \/ ei # "valid" \/ keyboard \notin eisDevices => held = {}

\* Whichever way a session ends, no key that its client held stays down: when the wrapper
\* is gone the keys are up, also for a client that never said so. (That the wrapper goes is
\* the rest of KeysAreReleased.)
THEOREM KeysEndWithTheSession == Spec => []NoKeyLeftBehind
<1>1. HeldInv => NoKeyLeftBehind
  BY DEF HeldInv, KeyboardUp, NoKeyLeftBehind
<1> QED
  BY HeldInit, HeldStep, <1>1, PTL DEF Spec

-----------------------------------------------------------------------------
(***************************************************************************)
(* Types. What the steps of StreamControl leave is in its range, and the   *)
(* queues hold messages and events of the kinds that are sent.             *)
(***************************************************************************)
\* What the portal's, KWin's and the input server's side may become.
SessionTypeOK ==
    /\ type \in SessionTypes /\ request \in Chain \union {"Stream", "none"}
    /\ {sessionPath, watching, started} \subseteq BOOLEAN
BusTypeOK ==
    /\ remote \in {"none", "open", "closed"} /\ calls \subseteq {"OpenPipeWireRemote", "ConnectToEIS"}
    /\ bus \in Seq(Messages)
EisTypeOK ==
    /\ eisUp \in BOOLEAN /\ eisDevices \subseteq Devices /\ held \subseteq Devices \X Keys
    /\ eisEvents \in Seq(EisEvents)
KeysTypeOK ==
    /\ ei \in {"none", "valid", "invalid"} /\ keyboard \in Devices \union {NoDevice}
    /\ pressedKeys \subseteq Keys

LEMMA SentMessage ==
  ASSUME NEW what \in {"Response", "Fd", "Eis", "Closed"}, NEW result \in {"ok", "failed", "empty"},
         bus \in Seq(Messages)
  PROVE  Append(bus, [what |-> what, result |-> result]) \in Seq(Messages)
<1>1. [what |-> what, result |-> result] \in Messages
  BY DEF Messages
<1> QED  BY <1>1

LEMMA SentEvent ==
  ASSUME NEW e \in EisEvents, eisEvents \in Seq(EisEvents)
  PROVE  Append(eisEvents, e) \in Seq(EisEvents)
  OBVIOUS

\* Without its connection krdp has neither events nor devices; without a server, no keys.
LEMMA EisLostType ==
  ASSUME EisTypeOK, eisUp' \in {eisUp, FALSE}, eisEvents' \in {eisEvents, <<>>},
         eisDevices' \in {eisDevices, {}}, held' \in {held, {}}
  PROVE  EisTypeOK'
<1>1. eisEvents' \in Seq(EisEvents)
  <2>1. CASE eisEvents' = eisEvents
    BY <2>1 DEF EisTypeOK
  <2>2. CASE eisEvents' = <<>>
    BY <2>2
  <2> QED  BY <2>1, <2>2
<1>2. eisUp' \in BOOLEAN /\ eisDevices' \subseteq Devices /\ held' \subseteq Devices \X Keys
  BY DEF EisTypeOK
<1> QED  BY <1>1, <1>2 DEF EisTypeOK

LEMMA ReceivedType ==
  ASSUME bus \in Seq(Messages), bus # <<>>
  PROVE  Tail(bus) \in Seq(Messages)
  OBVIOUS

\* What starts a session, as StreamControl sees it, and what asks the portal.
LEMMA StartedType ==
  ASSUME StreamTypeOK, OnSessionStarted
  PROVE  StreamTypeOK'
<1>1. \A on : Told(on) \in {"none", "idle", "running"}
  BY DEF Told
<1>2. /\ encoder' \in {"none", "idle", "running"} /\ conn' \in {"running", "stopping", "closed", "gone"}
      /\ streamingEnabled' = enabled /\ sessionStarted' = TRUE /\ source' = TRUE
      /\ UNCHANGED <<wrapper, enabled, enabledSignals, mode>>
  BY <1>1 DEF OnSessionStarted, Stopped, StreamTypeOK
<1> QED  BY <1>2 DEF StreamTypeOK

LEMMA StoppedType ==
  ASSUME StreamTypeOK, UNCHANGED <<wrapper, streamVars>>, conn' = conn \/ conn' = Stopped
  PROVE  StreamTypeOK'
  BY DEF StreamTypeOK, streamVars, Stopped

LEMMA StreamType ==
  ASSUME StreamTypeOK, Stream
  PROVE  StreamTypeOK'
<1>1. \A on : Told(on) \in {"none", "idle", "running"}
  BY DEF Told
<1>2. ASSUME NEW on \in BOOLEAN, SetEnabled(on) PROVE StreamTypeOK'
  <2>1. enabledSignals' \in 0..MaxSignals
    BY <1>2, SignalAssumption DEF SetEnabled, StreamTypeOK
  <2> QED  BY <1>2, <2>1 DEF SetEnabled, StreamTypeOK
<1>3. ASSUME NEW m \in Modes, SetActiveEncodingMode(m) PROVE StreamTypeOK'
  BY <1>3 DEF StreamTypeOK, SetActiveEncodingMode, Stopped
<1>4. ASSUME OnVideoStreamEnabledChanged PROVE StreamTypeOK'
  <2>1. enabledSignals' \in 0..MaxSignals
    BY <1>4, SignalAssumption DEF OnVideoStreamEnabledChanged, StreamTypeOK
  <2>2. streamingEnabled' \in BOOLEAN
    <3>1. streamingEnabled' = (sessionStarted /\ enabled)
      BY <1>4 DEF OnVideoStreamEnabledChanged
    <3> QED  BY <3>1 DEF StreamTypeOK
  <2>3. encoder' \in {"none", "idle", "running"}
    <3>1. encoder' = encoder \/ \E on : encoder' = Told(on)
      BY <1>4 DEF OnVideoStreamEnabledChanged
    <3> QED  BY <1>1, <3>1 DEF StreamTypeOK
  <2> QED  BY <1>4, <2>1, <2>2, <2>3 DEF OnVideoStreamEnabledChanged, StreamTypeOK
<1>5. ASSUME CloseStream PROVE StreamTypeOK'
  BY <1>1, <1>5 DEF StreamTypeOK, CloseStream
<1> QED  BY <1>2, <1>3, <1>4, <1>5 DEF Stream

LEMMA TypeParts == TypeOK <=> StreamTypeOK /\ SessionTypeOK /\ BusTypeOK /\ EisTypeOK /\ KeysTypeOK
  BY DEF TypeOK, SessionTypeOK, BusTypeOK, EisTypeOK, KeysTypeOK

LEMMA TypePartsNext ==
  (StreamTypeOK /\ SessionTypeOK /\ BusTypeOK /\ EisTypeOK /\ KeysTypeOK)' => TypeOK'
  BY DEF TypeOK, SessionTypeOK, BusTypeOK, EisTypeOK, KeysTypeOK

LEMMA AskType ==
  ASSUME NEW what \in Chain, StreamTypeOK, UNCHANGED <<wrapper, streamVars>>, Ask(what)
  PROVE  StreamTypeOK' /\ request' \in Chain \union {"Stream", "none"}
<1>1. (conn' = conn \/ conn' = Stopped) /\ request' \in Chain \union {"Stream", "none"}
  BY DEF Ask, Error
<1> QED  BY <1>1, StoppedType

LEMMA MessagingType ==
  ASSUME TypeOK, Messaging
  PROVE  TypeOK'
<1>0. StreamTypeOK /\ SessionTypeOK /\ BusTypeOK /\ EisTypeOK /\ KeysTypeOK
  BY TypeParts
<1>1. bus # <<>> /\ bus' = Tail(bus) => bus' \in Seq(Messages)
  BY <1>0, ReceivedType DEF BusTypeOK
<1>2. CASE OnRequestFailed
  <2>1. StreamTypeOK'
    BY <1>0, <1>2, StoppedType DEF OnRequestFailed, Error
  <2> QED  BY <1>0, <1>1, <1>2, <2>1, TypePartsNext
           DEF OnRequestFailed, Receive, SessionTypeOK, BusTypeOK, EisTypeOK, KeysTypeOK, eisVars, inputVars
<1>3. CASE OnCreateSession \/ OnDevicesSelected \/ OnSourcesSelected
  <2>1. StreamTypeOK' /\ request' \in Chain \union {"Stream", "none"}
    BY <1>0, <1>3, AskType DEF OnCreateSession, OnDevicesSelected, OnSourcesSelected, Chain
  <2>2. /\ bus # <<>> /\ bus' = Tail(bus) /\ sessionPath' \in {sessionPath, TRUE}
        /\ UNCHANGED <<type, watching, started, remote, calls, eisVars, inputVars>>
    BY <1>3 DEF OnCreateSession, OnDevicesSelected, OnSourcesSelected, Receive
  <2> QED  BY <1>0, <1>1, <2>1, <2>2, TypePartsNext
           DEF SessionTypeOK, BusTypeOK, EisTypeOK, KeysTypeOK, eisVars, inputVars
<1>4. CASE OnPortalStarted
  <2>1. StreamTypeOK'
    BY <1>0, <1>4, StoppedType DEF OnPortalStarted
  <2> QED  BY <1>0, <1>1, <1>4, <2>1, TypePartsNext
           DEF OnPortalStarted, Receive, SessionTypeOK, BusTypeOK, EisTypeOK, KeysTypeOK, eisVars, inputVars
<1>5. CASE OnPipeWireRemote \/ OnStreamCreated
  <2>1. StreamTypeOK'
    BY <1>0, <1>5, StoppedType, StartedType DEF OnPipeWireRemote, OnStreamCreated, Error
  <2>2. /\ bus # <<>> /\ bus' = Tail(bus) /\ request' \in {request, "none"}
        /\ watching' \in {watching, TRUE} /\ started' \in {started, TRUE}
        /\ UNCHANGED <<type, sessionPath, remote, calls, eisVars, inputVars>>
    BY <1>5 DEF OnPipeWireRemote, OnStreamCreated, Receive
  <2> QED  BY <1>0, <1>1, <2>1, <2>2, TypePartsNext
           DEF SessionTypeOK, BusTypeOK, EisTypeOK, KeysTypeOK, eisVars, inputVars
<1>6. CASE OnConnectToEis
  <2>1. StreamTypeOK'
    BY <1>0, <1>6, StoppedType DEF OnConnectToEis
  <2>2. /\ bus # <<>> /\ bus' = Tail(bus) /\ ei' \in {ei, "valid", "invalid"}
        /\ UNCHANGED <<sessionVars, remote, calls, keyboard, pressedKeys>>
    BY <1>6 DEF OnConnectToEis, Receive
  <2>3. eisUp' \in {eisUp, FALSE} /\ eisEvents' \in {eisEvents, <<>>}
        /\ eisDevices' \in {eisDevices, {}} /\ held' \in {held, {}}
    BY <1>6 DEF OnConnectToEis
  <2>4. EisTypeOK'
    BY <1>0, <2>3, EisLostType
  <2> QED  BY <1>0, <1>1, <2>1, <2>2, <2>4, TypePartsNext
           DEF SessionTypeOK, BusTypeOK, KeysTypeOK, sessionVars
<1>7. CASE OnSessionClosed
  <2>1. StreamTypeOK'
    BY <1>0, <1>7, StoppedType DEF OnSessionClosed, Error
  <2> QED  BY <1>0, <1>1, <1>7, <2>1, TypePartsNext
           DEF OnSessionClosed, Receive, SessionTypeOK, BusTypeOK, EisTypeOK, KeysTypeOK, sessionVars,
               eisVars, inputVars
<1>8. CASE DropMessage
  <2>1. StreamTypeOK'
    BY <1>0, <1>8, StoppedType DEF DropMessage
  <2>2. /\ bus # <<>> /\ bus' = Tail(bus) /\ request' \in {request, "none"}
        /\ eisUp' \in {eisUp, FALSE} /\ eisEvents' \in {eisEvents, <<>>}
        /\ UNCHANGED <<type, sessionPath, watching, started, remote, calls, eisDevices, held, inputVars>>
    BY <1>8 DEF DropMessage
  <2>3. EisTypeOK'
    <3>1. eisDevices' \in {eisDevices, {}} /\ held' \in {held, {}}
      BY <2>2
    <3> QED  BY <1>0, <2>2, <3>1, EisLostType
  <2> QED  BY <1>0, <1>1, <2>1, <2>2, <2>3, TypePartsNext DEF SessionTypeOK, BusTypeOK, KeysTypeOK, inputVars
<1> QED  BY <1>2, <1>3, <1>4, <1>5, <1>6, <1>7, <1>8 DEF Messaging

LEMMA OutsideType ==
  ASSUME TypeOK, Outside
  PROVE  TypeOK'
<1>0. StreamTypeOK /\ SessionTypeOK /\ BusTypeOK /\ EisTypeOK /\ KeysTypeOK
  BY TypeParts
<1>1. StreamTypeOK'
  BY <1>0, StoppedType DEF Outside, RemoteAnswers, RemoteReplies, RemoteCloses, DeviceAdded, DeviceRemoved,
     EisDisconnects
<1>2. ASSUME NEW result \in {"ok", "failed", "empty"}, RemoteAnswers(result) PROVE TypeOK'
  <2>1. bus' \in Seq(Messages)
    BY <1>0, <1>2, SentMessage DEF RemoteAnswers, BusTypeOK
  <2> QED  BY <1>0, <1>1, <1>2, <2>1, TypePartsNext
           DEF RemoteAnswers, SessionTypeOK, BusTypeOK, EisTypeOK, KeysTypeOK, sessionVars, eisVars, inputVars
<1>3. ASSUME NEW call \in calls, NEW result \in {"ok", "failed"}, RemoteReplies(call, result) PROVE TypeOK'
  <2>1. bus' = Append(bus, [what |-> "Eis", result |-> result])
        \/ bus' = Append(bus, [what |-> "Fd", result |-> result])
    BY <1>3 DEF RemoteReplies
  <2>2. bus' \in Seq(Messages)
    BY <1>0, <2>1, SentMessage DEF BusTypeOK
  <2>3. eisUp' \in BOOLEAN
    <3>1. \E b \in BOOLEAN : eisUp' = (eisUp \/ b)
      BY <1>3 DEF RemoteReplies
    <3> QED  BY <3>1
  <2> QED  BY <1>0, <1>1, <1>3, <2>2, <2>3, TypePartsNext
           DEF RemoteReplies, SessionTypeOK, BusTypeOK, EisTypeOK, KeysTypeOK, sessionVars, inputVars
<1>4. ASSUME RemoteCloses PROVE TypeOK'
  <2>1. bus' \in Seq(Messages)
    BY <1>0, <1>4, SentMessage DEF RemoteCloses, BusTypeOK
  <2> QED  BY <1>0, <1>1, <1>4, <2>1, TypePartsNext
           DEF RemoteCloses, SessionTypeOK, BusTypeOK, EisTypeOK, KeysTypeOK, sessionVars, eisVars, inputVars
<1>5. ASSUME NEW d \in Devices, DeviceAdded(d) \/ DeviceRemoved(d) PROVE TypeOK'
  <2>1. \A what \in {"Added", "Removed"} : [what |-> what, device |-> d] \in EisEvents
    BY DEF EisEvents
  <2>2. eisEvents' \in Seq(EisEvents)
    BY <1>0, <1>5, <2>1, SentEvent DEF DeviceAdded, DeviceRemoved, EisTypeOK
  <2>3. EisTypeOK'
    BY <1>0, <1>5, <2>2 DEF DeviceAdded, DeviceRemoved, EisTypeOK
  <2> QED  BY <1>0, <1>1, <1>5, <2>3, TypePartsNext
           DEF DeviceAdded, DeviceRemoved, SessionTypeOK, BusTypeOK, KeysTypeOK, sessionVars, busVars, inputVars
<1>6. ASSUME EisDisconnects PROVE TypeOK'
  <2>1. [what |-> "Disconnect", device |-> NoDevice] \in EisEvents
    BY DEF EisEvents
  <2>2. eisEvents' \in Seq(EisEvents)
    BY <1>0, <1>6, <2>1, SentEvent DEF EisDisconnects, EisTypeOK
  <2>3. EisTypeOK'
    BY <1>0, <1>6, <2>2 DEF EisDisconnects, EisTypeOK
  <2> QED  BY <1>0, <1>1, <1>6, <2>3, TypePartsNext
           DEF EisDisconnects, SessionTypeOK, BusTypeOK, KeysTypeOK, sessionVars, busVars, inputVars
<1> QED  BY <1>2, <1>3, <1>4, <1>5, <1>6 DEF Outside

LEMMA KeyType ==
  ASSUME TypeOK, (\E down \in BOOLEAN, k \in Keys : KeyboardEvent(down, k)) \/ SynchronizeEvent
  PROVE  TypeOK'
<1>0. StreamTypeOK /\ SessionTypeOK /\ BusTypeOK /\ EisTypeOK /\ KeysTypeOK
  BY TypeParts
<1>1. /\ UNCHANGED <<conn, wrapper, streamVars, sessionVars, busVars, eisUp, eisDevices, eisEvents, ei, keyboard>>
  BY DEF KeyboardEvent, SynchronizeEvent
<1>2. StreamTypeOK'
  BY <1>0, <1>1, StoppedType
<1>3. pressedKeys' \subseteq Keys
  BY <1>0 DEF KeyboardEvent, SynchronizeEvent, KeysTypeOK
<1>4. held' \subseteq Devices \X Keys
  <2>1. ASSUME NEW down \in BOOLEAN, NEW k \in Keys, KeyboardEvent(down, k) PROVE held' \subseteq Devices \X Keys
    <3>1. KeyboardUp => keyboard \in Devices
      BY <1>0 DEF KeyboardUp, EisTypeOK
    <3> QED  BY <1>0, <2>1, <3>1 DEF KeyboardEvent, EisTypeOK
  <2>2. ASSUME SynchronizeEvent PROVE held' \subseteq Devices \X Keys
    BY <1>0, <2>2 DEF SynchronizeEvent, EisTypeOK
  <2> QED  BY <2>1, <2>2
<1> QED  BY <1>0, <1>1, <1>2, <1>3, <1>4, TypePartsNext
         DEF SessionTypeOK, BusTypeOK, EisTypeOK, KeysTypeOK, sessionVars, busVars

\* Every variable stays in its range: for any chain of answers of the portal, KWin and the
\* input server, krdp's keyboard is one that the server has had, and no message is of a kind
\* that nobody handles.
THEOREM SessionTypeCorrect == Spec => []TypeOK
<1>1. Init => TypeOK
  <2> SUFFICES ASSUME Init PROVE TypeOK
    OBVIOUS
  <2>1. StreamTypeOK
    <3>1. /\ enabled = FALSE /\ streamingEnabled = FALSE /\ sessionStarted = FALSE /\ source = FALSE
          /\ enabledSignals = 0 /\ conn = "running" /\ wrapper = "absent" /\ mode = NoMode
          /\ encoder = "none"
      BY DEF Init, StreamInit
    <3>2. 0 \in 0..MaxSignals
      BY SignalAssumption
    <3> QED  BY <3>1, <3>2 DEF StreamTypeOK
  <2>2. SessionTypeOK
    BY DEF Init, SessionTypeOK
  <2>3. BusTypeOK
    <3>1. bus = <<>> /\ remote = "none" /\ calls = {}
      BY DEF Init
    <3> QED  BY <3>1 DEF BusTypeOK
  <2>4. EisTypeOK
    <3>1. eisEvents = <<>> /\ eisUp = FALSE /\ eisDevices = {} /\ held = {}
      BY DEF Init
    <3>2. eisEvents \in Seq(EisEvents)
      BY <3>1
    <3>3. held \subseteq Devices \X Keys /\ eisDevices \subseteq Devices
      BY <3>1
    <3> QED  BY <3>1, <3>2, <3>3 DEF EisTypeOK
  <2>5. KeysTypeOK
    BY DEF Init, KeysTypeOK
  <2> QED  BY <2>1, <2>2, <2>3, <2>4, <2>5, TypeParts
<1>2. TypeOK /\ [Next]_vars => TypeOK'
  <2> SUFFICES ASSUME TypeOK, [Next]_vars PROVE TypeOK'
    OBVIOUS
  <2>0. StreamTypeOK /\ SessionTypeOK /\ BusTypeOK /\ EisTypeOK /\ KeysTypeOK
    BY TypeParts
  <2>1. CASE OnNewConnection
    <3>1. /\ conn' = conn \/ conn' = Stopped
          /\ request' \in Chain \union {"Stream", "none"}
          /\ calls' = calls \/ calls' = {"ConnectToEIS"}
      BY <2>1 DEF OnNewConnection, Ask, Error, Chain
    <3>2. wrapper' = "alive"
          /\ UNCHANGED <<streamVars, type, sessionPath, watching, started, remote, bus, eisVars, inputVars>>
      BY <2>1 DEF OnNewConnection
    <3>3. StreamTypeOK'
      BY <2>0, <3>1, <3>2 DEF StreamTypeOK, streamVars, Stopped
    <3> QED  BY <2>0, <3>1, <3>2, <3>3, TypePartsNext
             DEF SessionTypeOK, BusTypeOK, EisTypeOK, KeysTypeOK, eisVars, inputVars
  <2>2. CASE ProcessEisEvents
    <3>1. keyboard' \in Devices \union {NoDevice}
      <4>1. PICK g : /\ KeyboardAfterAll = g[Len(eisEvents)]
                     /\ g \in [0..Len(eisEvents) -> Devices \union {NoDevice}]
        BY <2>0, KeyboardIsTaken DEF EisTypeOK, KeysTypeOK
      <4>2. Len(eisEvents) \in 0..Len(eisEvents)
        BY <2>0 DEF EisTypeOK
      <4> QED  BY <2>2, <4>1, <4>2 DEF ProcessEisEvents
    <3>2. StreamTypeOK'
      BY <2>0, <2>2, StoppedType DEF ProcessEisEvents
    <3> QED  BY <2>0, <2>2, <3>1, <3>2, TypePartsNext
             DEF ProcessEisEvents, SessionTypeOK, BusTypeOK, EisTypeOK, KeysTypeOK, sessionVars, busVars
  <2>3. CASE OnConnectionDestroyed
    <3>1. StreamTypeOK'
      BY <2>0, <2>3, SignalAssumption DEF OnConnectionDestroyed, StreamTypeOK
    <3>2. EisTypeOK'
      <4>1. /\ eisUp' \in {eisUp, FALSE} /\ eisEvents' \in {eisEvents, <<>>}
            /\ eisDevices' \in {eisDevices, {}} /\ held' \in {held, {}}
        BY <2>3 DEF OnConnectionDestroyed, eisVars
      <4> QED  BY <2>0, <4>1, EisLostType
    <3> QED  BY <2>0, <2>3, <3>1, <3>2, TypePartsNext
             DEF OnConnectionDestroyed, SessionTypeOK, BusTypeOK, KeysTypeOK, sessionVars
  <2>4. CASE Stream
    <3>1. StreamTypeOK'
      BY <2>0, <2>4, StreamType
    <3> QED  BY <2>0, <2>4, <3>1, TypePartsNext
             DEF Stream, others, SessionTypeOK, BusTypeOK, EisTypeOK, KeysTypeOK, sessionVars, busVars,
                 eisVars, inputVars
  <2>5. CASE UNCHANGED vars
    BY <2>5 DEF vars, streamVars, sessionVars, busVars, eisVars, inputVars, TypeOK, StreamTypeOK
  <2> QED  BY <2>1, <2>2, <2>3, <2>4, <2>5, MessagingType, OutsideType, KeyType DEF Next
<1> QED  BY <1>1, <1>2, PTL DEF Spec

-----------------------------------------------------------------------------
(***************************************************************************)
(* Why a session does not hang: what the liveness properties rest on. That *)
(* the answers come, and that the main thread takes them, needs fairness,  *)
(* and is checked.                                                         *)
(***************************************************************************)
Sent(what)   == \E i \in 1..Len(bus) : bus[i].what = what
EisGiven     == \E i \in 1..Len(bus) : bus[i] = [what |-> "Eis", result |-> "ok"]
EisRefused   == \E i \in 1..Len(bus) : bus[i] = [what |-> "Eis", result |-> "failed"]
Disconnected == \E i \in 1..Len(eisEvents) : eisEvents[i].what = "Disconnect"

\* Somebody handles the message: an answer is to the request that is being waited for, and
\* only Start may be answered without a device or a stream.
Expected(m) ==
    /\ m.what = "Response" => request # "none" /\ (m.result = "empty" => request = "Start")
    /\ m.what \in {"Fd", "Eis"} => m.result # "empty"
    /\ m.what = "Closed" => m.result = "ok"
MessagesExpected == wrapper = "alive" => \A i \in 1..Len(bus) : Expected(bus[i])

\* A session that is not settled yet waits for an answer, or for the user.
AnswerAwaited ==
    conn = "running" /\ wrapper = "alive" =>
        /\ type = "Portal" =>
              /\ request \in Chain \union {"none"}
              /\ request = "none" =>
                    /\ started \/ "OpenPipeWireRemote" \in calls \/ Sent("Fd")
                    /\ ei = "valid" \/ "ConnectToEIS" \in calls \/ Sent("Eis")
        /\ type = "Plasma" =>
              /\ request \in {"Stream", "none"}
              /\ OutputExists => started \/ request = "Stream"

\* Something always stands by to tell krdp that its portal session is closed: a request or a
\* call that would be refused, a refusal on its way, or the connection to the input server,
\* which the server drops with the session, and whose end is among the events.
CloseShows ==
    conn = "running" /\ wrapper = "alive" /\ type = "Portal" =>
        request # "none" \/ "ConnectToEIS" \in calls \/ EisRefused \/ eisUp \/ Disconnected

\* The connection to the input server that krdp has, or is going to have, is up, or its end
\* is among the events it has not read.
EisLossIsTold ==
    /\ conn = "running" /\ wrapper = "alive" /\ type = "Portal"
    /\ ei = "valid" \/ EisGiven
    => eisUp \/ Disconnected

OneResponse ==
    \A i, j \in 1..Len(bus) : bus[i].what = "Response" /\ bus[j].what = "Response" => i = j

NothingBefore ==
    wrapper = "absent" => bus = <<>> /\ request = "none" /\ calls = {} /\ remote = "none" /\ ei = "none"

AnswerInv == MessagesExpected /\ AnswerAwaited /\ EisLossIsTold /\ OneResponse /\ NothingBefore

LEMMA StoppedIsNotRunning == Stopped # "running"
  BY DEF Stopped

\* What is left of the messages when the first one is taken.
LEMMA MessageTaken ==
  ASSUME TypeOK, OneResponse, bus # <<>>, bus' = Tail(bus)
  PROVE  /\ OneResponse' /\ Head(bus) = bus[1] /\ 1 \in 1..Len(bus)
         /\ \A i \in 1..Len(bus') : \E k \in 1..Len(bus) : bus'[i] = bus[k]
         /\ \A w : w # Head(bus).what /\ Sent(w) => Sent(w)'
         /\ Head(bus).what = "Response" => \A i \in 1..Len(bus') : bus'[i].what # "Response"
<1>1. bus \in Seq(Messages)
  BY DEF TypeOK
<1>2. /\ Len(bus) \in Nat /\ 1 \in 1..Len(bus) /\ Head(bus) = bus[1] /\ Len(bus') = Len(bus) - 1
      /\ \A i \in 1..Len(bus) - 1 : bus'[i] = bus[i + 1] /\ i + 1 \in 1..Len(bus) /\ i + 1 # 1 /\ i \in Nat
  BY <1>1
<1>3. \A i \in 1..Len(bus') : \E k \in 1..Len(bus) : bus'[i] = bus[k]
  BY <1>2
<1>4. OneResponse'
  <2>1. ASSUME NEW i \in 1..Len(bus'), NEW j \in 1..Len(bus'),
               bus'[i].what = "Response", bus'[j].what = "Response"
        PROVE  i = j
    <3>1. i + 1 = j + 1
      BY <1>2, <2>1 DEF OneResponse
    <3>2. i \in Nat /\ j \in Nat
      BY <1>2
    <3> QED  BY <3>1, <3>2
  <2> QED  BY <2>1 DEF OneResponse
<1>5. ASSUME NEW w, w # Head(bus).what, Sent(w) PROVE Sent(w)'
  <2>1. PICK i \in 1..Len(bus) : bus[i].what = w
    BY <1>5 DEF Sent
  <2>2. i # 1
    BY <1>2, <1>5, <2>1
  <2>3. i - 1 \in 1..Len(bus) - 1 /\ (i - 1) + 1 = i
    BY <1>2, <2>2
  <2>4. bus'[i - 1] = bus[i]
    BY <1>2, <2>3
  <2> QED  BY <1>2, <2>1, <2>3, <2>4 DEF Sent
<1>6. ASSUME Head(bus).what = "Response", NEW i \in 1..Len(bus') PROVE bus'[i].what # "Response"
  BY <1>2, <1>6 DEF OneResponse
<1> QED  BY <1>2, <1>3, <1>4, <1>5, <1>6

LEMMA MessageSent ==
  ASSUME TypeOK, NEW m \in Messages, bus' = Append(bus, m)
  PROVE  /\ \A i \in 1..Len(bus') : bus'[i] = m \/ \E k \in 1..Len(bus) : bus'[i] = bus[k]
         /\ \A w : Sent(w) \/ w = m.what => Sent(w)'
         /\ OneResponse /\ (m.what = "Response" => ~Sent("Response")) => OneResponse'
<1>1. bus \in Seq(Messages)
  BY DEF TypeOK
<1>2. /\ Len(bus) \in Nat /\ Len(bus') = Len(bus) + 1 /\ bus'[Len(bus) + 1] = m
      /\ \A i \in 1..Len(bus) : bus'[i] = bus[i] /\ i \in 1..Len(bus) + 1
      /\ \A i \in 1..Len(bus) + 1 : i \in 1..Len(bus) \/ i = Len(bus) + 1
  BY <1>1
<1>3. Len(bus) + 1 \in 1..Len(bus) + 1
  BY <1>2
<1>4. \A i \in 1..Len(bus') : bus'[i] = m \/ \E k \in 1..Len(bus) : bus'[i] = bus[k]
  BY <1>2
<1>5. \A w : Sent(w) \/ w = m.what => Sent(w)'
  BY <1>2, <1>3 DEF Sent
<1>6. OneResponse /\ (m.what = "Response" => ~Sent("Response")) => OneResponse'
  BY <1>2 DEF OneResponse, Sent
<1> QED  BY <1>4, <1>5, <1>6

\* A message that is handled is one of those expected, and the others stay so.
LEMMA ReceivedExpected ==
  ASSUME TypeOK, AnswerInv, NEW what, NEW result, Receive(what, result), wrapper' = wrapper,
         what = "Response" \/ request' = request
  PROVE  /\ MessagesExpected' /\ OneResponse' /\ NothingBefore'
         /\ wrapper = "alive" /\ \A w : w # what /\ Sent(w) => Sent(w)'
         /\ \A m : (\E i \in 1..Len(bus') : bus'[i] = m) => \E i \in 1..Len(bus) : bus[i] = m
<1>1. wrapper = "alive" /\ bus # <<>> /\ bus' = Tail(bus) /\ Head(bus).what = what
  BY DEF Receive
<1>2. /\ OneResponse'
      /\ \A i \in 1..Len(bus') : \E k \in 1..Len(bus) : bus'[i] = bus[k]
      /\ \A w : w # what /\ Sent(w) => Sent(w)'
      /\ what = "Response" => \A i \in 1..Len(bus') : bus'[i].what # "Response"
  BY <1>1, MessageTaken DEF AnswerInv
<1>3. ASSUME NEW i \in 1..Len(bus') PROVE Expected(bus[i])'
  <2>1. PICK k \in 1..Len(bus) : bus'[i] = bus[k]
    BY <1>2
  <2>2. Expected(bus[k])
    BY <1>1 DEF AnswerInv, MessagesExpected
  <2> QED  BY <1>2, <2>1, <2>2 DEF Expected
<1>4. MessagesExpected' /\ NothingBefore'
  BY <1>1, <1>3 DEF MessagesExpected, NothingBefore
<1> QED  BY <1>1, <1>2, <1>4

\* A step that ends the connection, or finds no session, has nothing to keep of the two.
LEMMA NotRunningKeeps ==
  ASSUME conn' # "running" \/ wrapper' # "alive"
  PROVE  AnswerAwaited' /\ EisLossIsTold'
  BY DEF AnswerAwaited, EisLossIsTold

\* The answers to the portal's requests, and to KWin's.
LEMMA ResponseKeeps ==
  ASSUME TypeOK, AnswerInv, OnRequestFailed \/ OnCreateSession \/ OnDevicesSelected \/ OnSourcesSelected
                            \/ OnPortalStarted \/ OnStreamCreated
  PROVE  AnswerInv'
<1>1. PICK result : Receive("Response", result) /\ wrapper' = wrapper
  BY DEF OnRequestFailed, OnCreateSession, OnDevicesSelected, OnSourcesSelected, OnPortalStarted,
         OnStreamCreated, OnSessionStarted
<1>2. /\ MessagesExpected' /\ OneResponse' /\ NothingBefore'
      /\ wrapper = "alive" /\ \A w : w # "Response" /\ Sent(w) => Sent(w)'
      /\ \A m : (\E i \in 1..Len(bus') : bus'[i] = m) => \E i \in 1..Len(bus) : bus[i] = m
  BY <1>1, ReceivedExpected
<1>3. AnswerAwaited' /\ EisLossIsTold'
  <2>1. CASE conn' # "running"
    BY <2>1, NotRunningKeeps
  <2>2. CASE conn' = "running"
    <3>1. conn = "running"
      BY <2>2 DEF OnRequestFailed, OnCreateSession, OnDevicesSelected, OnSourcesSelected, OnPortalStarted,
             OnStreamCreated, OnSessionStarted, Ask, Error, Stopped
    <3>2. UNCHANGED <<type, ei, eisUp, eisEvents>>
      BY DEF OnRequestFailed, OnCreateSession, OnDevicesSelected, OnSourcesSelected, OnPortalStarted,
             OnStreamCreated, eisVars, inputVars
    <3>3. EisLossIsTold'
      <4>1. EisGiven' => EisGiven
        BY <1>2 DEF EisGiven
      <4>2. Disconnected' = Disconnected
        BY <3>2 DEF Disconnected
      <4> QED  BY <1>2, <3>1, <3>2, <4>1, <4>2 DEF AnswerInv, EisLossIsTold, EisGiven, Disconnected
    <3>4. AnswerAwaited'
      <4>1. AnswerAwaited
        BY DEF AnswerInv
      <4>2. CASE OnRequestFailed
        BY <2>2, <4>2, StoppedIsNotRunning DEF OnRequestFailed, Error
      <4>3. CASE OnCreateSession \/ OnDevicesSelected \/ OnSourcesSelected
        <5>1. request \in {"CreateSession", "SelectDevices", "SelectSources"}
              /\ request' \in {"SelectDevices", "SelectSources", "Start"}
          BY <2>2, <4>3, StoppedIsNotRunning DEF OnCreateSession, OnDevicesSelected, OnSourcesSelected, Ask, Error
        <5>2. type # "Plasma"
          BY <1>2, <3>1, <4>1, <5>1 DEF AnswerAwaited
        <5> QED  BY <3>2, <5>1, <5>2 DEF AnswerAwaited, Chain
      <4>4. CASE OnPortalStarted
        <5>1. request = "Start" /\ request' = "none" /\ calls' = {"OpenPipeWireRemote", "ConnectToEIS"}
          BY <4>4 DEF OnPortalStarted
        <5>2. type # "Plasma"
          BY <1>2, <3>1, <4>1, <5>1 DEF AnswerAwaited
        <5> QED  BY <3>2, <5>1, <5>2 DEF AnswerAwaited
      <4>5. CASE OnStreamCreated
        <5>1. request = "Stream" /\ request' = "none" /\ started' = TRUE
          BY <4>5 DEF OnStreamCreated
        <5>2. type # "Portal"
          BY <1>2, <3>1, <4>1, <5>1 DEF AnswerAwaited, Chain
        <5> QED  BY <3>2, <5>1, <5>2 DEF AnswerAwaited
      <4> QED  BY <4>2, <4>3, <4>4, <4>5
    <3> QED  BY <3>3, <3>4
  <2> QED  BY <2>1, <2>2
<1> QED  BY <1>2, <1>3 DEF AnswerInv

\* The answers to the two calls, and the Closed signal.
LEMMA PipeWireKeeps ==
  ASSUME TypeOK, AnswerInv, OnPipeWireRemote
  PROVE  AnswerInv'
<1>1. PICK result : Receive("Fd", result) /\ wrapper' = wrapper /\ request' = request
  BY DEF OnPipeWireRemote, OnSessionStarted
<1>2. /\ MessagesExpected' /\ OneResponse' /\ NothingBefore'
      /\ wrapper = "alive" /\ \A w : w # "Fd" /\ Sent(w) => Sent(w)'
      /\ \A m : (\E i \in 1..Len(bus') : bus'[i] = m) => \E i \in 1..Len(bus) : bus[i] = m
  BY <1>1, ReceivedExpected
<1>3. AnswerAwaited' /\ EisLossIsTold'
  <2>1. CASE conn' # "running"
    BY <2>1, NotRunningKeeps
  <2>2. CASE conn' = "running"
    <3>1. started' = TRUE /\ conn = "running" /\ UNCHANGED <<type, request, calls, ei, eisUp, eisEvents>>
      BY <2>2, StoppedIsNotRunning DEF OnPipeWireRemote, OnSessionStarted, Error, Stopped, eisVars, inputVars
    <3>2. AnswerAwaited'
      BY <1>2, <3>1 DEF AnswerInv, AnswerAwaited
    <3>3. EisGiven' => EisGiven
      BY <1>2 DEF EisGiven
    <3>4. Disconnected' = Disconnected
      BY <3>1 DEF Disconnected
    <3> QED  BY <1>2, <3>1, <3>2, <3>3, <3>4 DEF AnswerInv, EisLossIsTold, EisGiven, Disconnected
  <2> QED  BY <2>1, <2>2
<1> QED  BY <1>2, <1>3 DEF AnswerInv

LEMMA EisKeeps ==
  ASSUME TypeOK, AnswerInv, OnConnectToEis
  PROVE  AnswerInv'
<1>1. PICK result : Receive("Eis", result) /\ wrapper' = wrapper /\ request' = request
  BY DEF OnConnectToEis, sessionVars
<1>2. /\ MessagesExpected' /\ OneResponse' /\ NothingBefore'
      /\ wrapper = "alive" /\ \A w : w # "Eis" /\ Sent(w) => Sent(w)'
      /\ \A m : (\E i \in 1..Len(bus') : bus'[i] = m) => \E i \in 1..Len(bus) : bus[i] = m
  BY <1>1, ReceivedExpected
<1>3. AnswerAwaited' /\ EisLossIsTold'
  <2>1. CASE conn' # "running"
    BY <2>1, NotRunningKeeps
  <2>2. CASE conn' = "running"
    <3>1. conn = "running" /\ UNCHANGED <<type, request, started, calls>>
      BY <2>2 DEF OnConnectToEis, Stopped, sessionVars
    <3>2. CASE type # "Portal"
      BY <1>2, <3>1, <3>2 DEF AnswerInv, AnswerAwaited, EisLossIsTold
    <3>3. CASE type = "Portal"
      <4>1. Receive("Eis", "ok") /\ ei' = "valid" /\ UNCHANGED <<eisUp, eisEvents>>
        BY <2>2, <3>3, StoppedIsNotRunning DEF OnConnectToEis
      <4>2. AnswerAwaited'
        BY <1>2, <3>1, <3>3, <4>1 DEF AnswerInv, AnswerAwaited
      <4>3. EisGiven
        <5>1. bus \in Seq(Messages)
          BY DEF TypeOK
        <5>2. 1 \in 1..Len(bus) /\ bus[1] = [what |-> "Eis", result |-> "ok"]
          BY <4>1, <5>1 DEF Receive
        <5> QED  BY <5>2 DEF EisGiven
      <4>4. eisUp \/ Disconnected
        BY <1>2, <3>1, <3>3, <4>3 DEF AnswerInv, EisLossIsTold, EisGiven, Disconnected
      <4>5. EisLossIsTold'
        BY <4>1, <4>4 DEF EisLossIsTold, Disconnected
      <4> QED  BY <4>2, <4>5
    <3> QED  BY <3>2, <3>3
  <2> QED  BY <2>1, <2>2
<1> QED  BY <1>2, <1>3 DEF AnswerInv

LEMMA ClosedKeeps ==
  ASSUME TypeOK, AnswerInv, OnSessionClosed
  PROVE  AnswerInv'
<1>1. Receive("Closed", "ok") /\ wrapper' = wrapper /\ request' = request
  BY DEF OnSessionClosed, sessionVars
<1>2. MessagesExpected' /\ OneResponse' /\ NothingBefore'
  BY <1>1, ReceivedExpected
<1>3. conn' # "running"
  BY StoppedIsNotRunning DEF OnSessionClosed, Error
<1> QED  BY <1>2, <1>3, NotRunningKeeps DEF AnswerInv

LEMMA DropKeeps ==
  ASSUME TypeOK, AnswerInv, DropMessage
  PROVE  AnswerInv'
<1>1. wrapper = "gone" /\ wrapper' = "gone" /\ bus # <<>> /\ bus' = Tail(bus)
  BY DEF DropMessage
<1>2. OneResponse'
  BY <1>1, MessageTaken DEF AnswerInv
<1> QED  BY <1>1, <1>2, NotRunningKeeps DEF AnswerInv, MessagesExpected, NothingBefore

\* The session begins, and ends.
LEMMA NewConnectionKeeps ==
  ASSUME TypeOK, AnswerInv, OnNewConnection
  PROVE  AnswerInv'
<1>1. bus = <<>> /\ bus' = <<>> /\ wrapper' = "alive" /\ ei = "none"
      /\ UNCHANGED <<type, started, ei, eisUp, eisEvents>>
  BY DEF OnNewConnection, AnswerInv, NothingBefore, eisVars, inputVars
<1>2. Len(bus') = 0
  BY <1>1
<1>3. MessagesExpected' /\ OneResponse' /\ NothingBefore'
  BY <1>1, <1>2 DEF MessagesExpected, OneResponse, NothingBefore
<1>4. EisLossIsTold'
  BY <1>1, <1>2 DEF EisLossIsTold, EisGiven, Disconnected
<1>5. AnswerAwaited'
  <2>1. CASE conn' # "running"
    BY <2>1, NotRunningKeeps
  <2>2. CASE conn' = "running"
    <3>1. CASE type = "Portal"
      <4>1. request' = "CreateSession"
        BY <2>2, <3>1, StoppedIsNotRunning DEF OnNewConnection, Ask, Error
      <4> QED  BY <1>1, <3>1, <4>1 DEF AnswerAwaited, Chain
    <3>2. CASE type = "Plasma"
      BY <1>1, <3>2 DEF OnNewConnection, AnswerAwaited
    <3>3. type = "Portal" \/ type = "Plasma"
      BY DEF OnNewConnection
    <3> QED  BY <3>1, <3>2, <3>3
  <2> QED  BY <2>1, <2>2
<1> QED  BY <1>3, <1>4, <1>5 DEF AnswerInv

LEMMA DestroyedKeeps ==
  ASSUME TypeOK, AnswerInv, OnConnectionDestroyed
  PROVE  AnswerInv'
<1>1. wrapper' = "gone" /\ bus' = bus
  BY DEF OnConnectionDestroyed
<1> QED  BY <1>1, NotRunningKeeps DEF AnswerInv, MessagesExpected, OneResponse, NothingBefore

\* The events are read: one that tells of the connection's end ends the portal's session.
LEMMA EventsKeep ==
  ASSUME TypeOK, AnswerInv, ProcessEisEvents
  PROVE  AnswerInv'
<1>1. UNCHANGED <<wrapper, type, request, started, remote, calls, bus, ei, eisUp>>
      /\ conn' = IF \E i \in DOMAIN eisEvents : EisError(eisEvents[i]) THEN Stopped ELSE conn
  BY DEF ProcessEisEvents, sessionVars, busVars
<1>2. MessagesExpected' /\ OneResponse' /\ NothingBefore'
  BY <1>1 DEF AnswerInv, MessagesExpected, Expected, OneResponse, NothingBefore
<1>3. AnswerAwaited' /\ EisLossIsTold'
  <2>1. CASE conn' # "running"
    BY <2>1, NotRunningKeeps
  <2>2. CASE conn' = "running"
    <3>1. conn = "running" /\ \A i \in DOMAIN eisEvents : ~EisError(eisEvents[i])
      BY <1>1, <2>2, StoppedIsNotRunning
    <3>2. AnswerAwaited'
      BY <1>1, <3>1 DEF AnswerInv, AnswerAwaited, Sent
    <3>3. type = "Portal" => ~Disconnected
      <4>1. DOMAIN eisEvents = 1..Len(eisEvents)
        BY DEF TypeOK
      <4> QED  BY <3>1, <4>1 DEF EisError, Disconnected
    <3> QED  BY <1>1, <3>1, <3>2, <3>3 DEF AnswerInv, EisLossIsTold, EisGiven, Disconnected
  <2> QED  BY <2>1, <2>2
<1> QED  BY <1>2, <1>3 DEF AnswerInv

\* The keys, the capture and the end of the stream have no part in it.
LEMMA AsideKeeps ==
  ASSUME TypeOK, AnswerInv,
         \/ \E down \in BOOLEAN, k \in Keys : KeyboardEvent(down, k)
         \/ SynchronizeEvent
         \/ Stream
         \/ UNCHANGED vars
  PROVE  AnswerInv'
<1>1. UNCHANGED <<wrapper, type, request, started, remote, calls, bus, ei, eisUp, eisEvents>>
  BY DEF KeyboardEvent, SynchronizeEvent, Stream, SetEnabled, SetActiveEncodingMode,
         OnVideoStreamEnabledChanged, CloseStream, others, vars, sessionVars, busVars, eisVars, inputVars
<1>2. conn' = "running" => conn = "running"
  BY DEF KeyboardEvent, SynchronizeEvent, Stream, SetEnabled, SetActiveEncodingMode,
         OnVideoStreamEnabledChanged, CloseStream, Stopped, vars
<1>3. MessagesExpected' /\ OneResponse' /\ NothingBefore'
  BY <1>1 DEF AnswerInv, MessagesExpected, Expected, OneResponse, NothingBefore
<1>4. AnswerAwaited' /\ EisLossIsTold'
  BY <1>1, <1>2 DEF AnswerInv, AnswerAwaited, EisLossIsTold, EisGiven, Disconnected, Sent
<1> QED  BY <1>3, <1>4 DEF AnswerInv

\* A message that is sent while it is expected joins those that are.
LEMMA SentExpected ==
  ASSUME TypeOK, AnswerInv, NEW m \in Messages, bus' = Append(bus, m), Expected(m)',
         m.what = "Response" => ~Sent("Response"), wrapper # "absent",
         UNCHANGED <<wrapper, request>>
  PROVE  /\ MessagesExpected' /\ OneResponse' /\ NothingBefore'
         /\ \A w : Sent(w) \/ w = m.what => Sent(w)'
         /\ EisGiven' => EisGiven \/ m = [what |-> "Eis", result |-> "ok"]
<1>1. /\ \A i \in 1..Len(bus') : bus'[i] = m \/ \E k \in 1..Len(bus) : bus'[i] = bus[k]
      /\ \A w : Sent(w) \/ w = m.what => Sent(w)'
      /\ OneResponse'
  BY MessageSent DEF AnswerInv
<1>2. ASSUME wrapper = "alive", NEW i \in 1..Len(bus') PROVE Expected(bus[i])'
  <2>1. CASE bus'[i] = m
    BY <2>1 DEF Expected
  <2>2. ASSUME NEW k \in 1..Len(bus), bus'[i] = bus[k] PROVE Expected(bus[i])'
    <3>1. Expected(bus[k])
      BY <1>2 DEF AnswerInv, MessagesExpected
    <3> QED  BY <2>2, <3>1 DEF Expected
  <2> QED  BY <1>1, <2>1, <2>2
<1>3. EisGiven' => EisGiven \/ m = [what |-> "Eis", result |-> "ok"]
  BY <1>1 DEF EisGiven
<1> QED  BY <1>1, <1>2, <1>3 DEF MessagesExpected, NothingBefore

LEMMA AnswersKeep ==
  ASSUME TypeOK, AnswerInv, NEW result \in {"ok", "failed", "empty"}, RemoteAnswers(result)
  PROVE  AnswerInv'
<1> DEFINE m == [what |-> "Response", result |-> result]
<1>1. /\ request # "none" /\ (result = "empty" => request = "Start") /\ bus' = Append(bus, m)
      /\ UNCHANGED <<conn, wrapper, type, request, started, calls, ei, eisUp, eisEvents>>
  BY DEF RemoteAnswers, sessionVars, eisVars, inputVars
<1>2. m \in Messages /\ m.what = "Response" /\ m # [what |-> "Eis", result |-> "ok"]
  BY DEF Messages
<1>3. ~Sent("Response")
  <2>1. DOMAIN bus = 1..Len(bus)
    BY DEF TypeOK
  <2> QED  BY <2>1 DEF RemoteAnswers, Sent
<1>4. wrapper # "absent" /\ Expected(m)'
  BY <1>1 DEF AnswerInv, NothingBefore, Expected
<1> HIDE DEF m
<1>5. /\ MessagesExpected' /\ OneResponse' /\ NothingBefore' /\ (EisGiven' => EisGiven)
      /\ \A w : Sent(w) => Sent(w)'
  BY <1>1, <1>2, <1>3, <1>4, SentExpected
<1>6. AnswerAwaited'
  BY <1>1, <1>5 DEF AnswerInv, AnswerAwaited
<1>7. EisLossIsTold'
  BY <1>1, <1>5 DEF AnswerInv, EisLossIsTold, Disconnected, EisGiven
<1> QED  BY <1>5, <1>6, <1>7 DEF AnswerInv

LEMMA RepliesKeep ==
  ASSUME TypeOK, AnswerInv, NEW call \in calls, NEW result \in {"ok", "failed"}, RemoteReplies(call, result)
  PROVE  AnswerInv'
<1> DEFINE what == IF call = "ConnectToEIS" THEN "Eis" ELSE "Fd"
           m == [what |-> what, result |-> result]
<1>1. /\ bus' = Append(bus, m) /\ eisUp' = (eisUp \/ (what = "Eis" /\ result = "ok"))
      /\ calls' = calls \ {call}
      /\ UNCHANGED <<conn, wrapper, type, request, started, ei, eisEvents>>
  BY DEF RemoteReplies, sessionVars, inputVars
<1>2. m \in Messages /\ m.what = what /\ what \in {"Eis", "Fd"} /\ m.result = result
  BY DEF Messages
<1>3. wrapper # "absent" /\ Expected(m)'
  BY <1>2 DEF AnswerInv, NothingBefore, Expected
<1>4. m = [what |-> "Eis", result |-> "ok"] => eisUp'
  <2>1. m = [what |-> "Eis", result |-> "ok"] => what = "Eis" /\ result = "ok"
    BY <1>2
  <2> QED  BY <1>1, <2>1
<1>5. eisUp => eisUp'
  BY <1>1
<1>6. /\ call = "ConnectToEIS" => what = "Eis"
      /\ call = "OpenPipeWireRemote" => what = "Fd"
  OBVIOUS
<1> HIDE DEF m, what
<1>7. /\ MessagesExpected' /\ OneResponse' /\ NothingBefore'
      /\ \A w : Sent(w) \/ w = what => Sent(w)'
      /\ EisGiven' => EisGiven \/ m = [what |-> "Eis", result |-> "ok"]
  BY <1>1, <1>2, <1>3, SentExpected
<1>8. AnswerAwaited'
  BY <1>1, <1>6, <1>7 DEF AnswerInv, AnswerAwaited
<1>9. EisLossIsTold'
  BY <1>1, <1>4, <1>5, <1>7 DEF AnswerInv, EisLossIsTold, Disconnected, EisGiven
<1> QED  BY <1>7, <1>8, <1>9 DEF AnswerInv

LEMMA ClosesKeep ==
  ASSUME TypeOK, AnswerInv, RemoteCloses
  PROVE  AnswerInv'
<1> DEFINE m == [what |-> "Closed", result |-> "ok"]
<1>1. /\ remote = "open" /\ bus' = (IF watching THEN Append(bus, m) ELSE bus)
      /\ UNCHANGED <<conn, wrapper, type, request, started, calls, ei, eisUp, eisEvents>>
  BY DEF RemoteCloses, sessionVars, eisVars, inputVars
<1>2. wrapper # "absent"
  BY <1>1 DEF AnswerInv, NothingBefore
<1>3. CASE watching
  <2>1. m \in Messages /\ m.what = "Closed" /\ Expected(m)' /\ m # [what |-> "Eis", result |-> "ok"]
    BY DEF Messages, Expected
  <2> HIDE DEF m
  <2>2. /\ MessagesExpected' /\ OneResponse' /\ NothingBefore' /\ (EisGiven' => EisGiven)
        /\ \A w : Sent(w) => Sent(w)'
    BY <1>1, <1>2, <1>3, <2>1, SentExpected
  <2>3. AnswerAwaited'
    BY <1>1, <2>2 DEF AnswerInv, AnswerAwaited
  <2>4. EisLossIsTold'
    BY <1>1, <2>2 DEF AnswerInv, EisLossIsTold, Disconnected, EisGiven
  <2> QED  BY <2>2, <2>3, <2>4 DEF AnswerInv
<1>4. CASE ~watching
  <2>1. UNCHANGED bus
    BY <1>1, <1>4
  <2>2. MessagesExpected' /\ OneResponse' /\ NothingBefore'
    BY <1>1, <1>2, <2>1 DEF AnswerInv, MessagesExpected, Expected, OneResponse, NothingBefore
  <2>3. AnswerAwaited' /\ EisLossIsTold'
    BY <1>1, <2>1 DEF AnswerInv, AnswerAwaited, EisLossIsTold, EisGiven, Disconnected, Sent
  <2> QED  BY <2>2, <2>3 DEF AnswerInv
<1> QED  BY <1>3, <1>4

\* The input server's side: an event joins the others, and an end is an event.
LEMMA ServerKeeps ==
  ASSUME TypeOK, AnswerInv,
         (\E d \in Devices : DeviceAdded(d) \/ DeviceRemoved(d)) \/ EisDisconnects
  PROVE  AnswerInv'
<1>1. UNCHANGED <<conn, wrapper, type, request, started, remote, calls, bus, ei>>
  BY DEF DeviceAdded, DeviceRemoved, EisDisconnects, sessionVars, busVars, inputVars
<1>2. PICK e : eisEvents' = Append(eisEvents, e) /\ (eisUp' = eisUp \/ e.what = "Disconnect")
  <2>1. ASSUME NEW d \in Devices, DeviceAdded(d) \/ DeviceRemoved(d)
        PROVE  \E e : eisEvents' = Append(eisEvents, e) /\ eisUp' = eisUp
    BY <2>1 DEF DeviceAdded, DeviceRemoved
  <2>2. ASSUME EisDisconnects PROVE \E e : eisEvents' = Append(eisEvents, e) /\ e.what = "Disconnect"
    <3>1. eisEvents' = Append(eisEvents, [what |-> "Disconnect", device |-> NoDevice])
      BY <2>2 DEF EisDisconnects
    <3>2. [what |-> "Disconnect", device |-> NoDevice].what = "Disconnect"
      OBVIOUS
    <3> QED  BY <3>1, <3>2
  <2> QED  BY <2>1, <2>2
<1>3. /\ Len(eisEvents) \in Nat /\ Len(eisEvents') = Len(eisEvents) + 1
      /\ \A i \in 1..Len(eisEvents) : eisEvents'[i] = eisEvents[i] /\ i \in 1..Len(eisEvents')
      /\ eisEvents'[Len(eisEvents) + 1] = e /\ Len(eisEvents) + 1 \in 1..Len(eisEvents')
  BY <1>2 DEF TypeOK
<1>4. eisUp \/ Disconnected => eisUp' \/ Disconnected'
  <2>1. Disconnected \/ e.what = "Disconnect" => Disconnected'
    BY <1>3 DEF Disconnected
  <2> QED  BY <1>2, <2>1
<1>5. MessagesExpected' /\ OneResponse' /\ NothingBefore'
  BY <1>1 DEF AnswerInv, MessagesExpected, Expected, OneResponse, NothingBefore
<1>6. AnswerAwaited'
  BY <1>1 DEF AnswerInv, AnswerAwaited, Sent
<1>7. EisGiven' = EisGiven
  BY <1>1 DEF EisGiven
<1>8. EisLossIsTold'
  BY <1>1, <1>4, <1>7 DEF AnswerInv, EisLossIsTold, EisGiven, Disconnected
<1> QED  BY <1>5, <1>6, <1>8 DEF AnswerInv

LEMMA AnswerStep == TypeOK /\ AnswerInv /\ [Next]_vars => AnswerInv'
<1> SUFFICES ASSUME TypeOK, AnswerInv, [Next]_vars PROVE AnswerInv'
  OBVIOUS
<1>1. CASE Messaging
  BY <1>1, ResponseKeeps, PipeWireKeeps, EisKeeps, ClosedKeeps, DropKeeps DEF Messaging
<1>2. CASE Outside
  BY <1>2, AnswersKeep, RepliesKeep, ClosesKeep, ServerKeeps DEF Outside
<1> QED  BY <1>1, <1>2, NewConnectionKeeps, DestroyedKeeps, EventsKeep, AsideKeeps DEF Next

LEMMA AnswerInvInvariant == Spec => []AnswerInv
<1>1. Init => AnswerInv
  <2> SUFFICES ASSUME Init PROVE AnswerInv
    OBVIOUS
  <2>1. bus = <<>> /\ wrapper = "absent" /\ request = "none" /\ calls = {} /\ remote = "none" /\ ei = "none"
    BY DEF Init, StreamInit
  <2>2. Len(bus) = 0
    BY <2>1
  <2> QED  BY <2>1, <2>2
           DEF AnswerInv, MessagesExpected, AnswerAwaited, EisLossIsTold, EisGiven, Disconnected, OneResponse, NothingBefore
<1> QED  BY <1>1, AnswerStep, SessionTypeCorrect, PTL DEF Spec

\* Whatever the portal and KWin answer, in whatever order, a session receives no answer
\* unless it waits for one, and none that the code has no case for.
THEOREM MessagesAreHandled == Spec => []MessagesExpected
<1>1. AnswerInv => MessagesExpected
  BY DEF AnswerInv
<1> QED  BY <1>1, AnswerInvInvariant, PTL

\* While the connection runs, a session that has not started, or is the portal's and has no
\* input, has a request, a call or an answer under way: it cannot be left with nothing to
\* wait for. (That the wait ends is SessionSettles.)
THEOREM NoSessionHangs == Spec => []AnswerAwaited
<1>1. AnswerInv => AnswerAwaited
  BY DEF AnswerInv
<1> QED  BY <1>1, AnswerInvInvariant, PTL

\* There is no moment at which the portal could close its session and krdp would not come to
\* know, although the Closed signal is not listened for until the node is there. (That it
\* comes to know is PortalCloseIsNoticed.)
THEOREM ClosureShows == Spec => []CloseShows
<1>1. TypeOK /\ AnswerInv => CloseShows
  <2> SUFFICES ASSUME TypeOK, AnswerInv, conn = "running", wrapper = "alive", type = "Portal",
                      request = "none", "ConnectToEIS" \notin calls
               PROVE  EisRefused \/ eisUp \/ Disconnected
    BY DEF CloseShows
  <2>1. ei = "valid" \/ Sent("Eis")
    BY DEF AnswerInv, AnswerAwaited
  <2>2. ei = "valid" \/ EisGiven => eisUp \/ Disconnected
    BY DEF AnswerInv, EisLossIsTold, EisGiven, Disconnected
  <2>3. ASSUME Sent("Eis") PROVE EisGiven \/ EisRefused
    <3>1. PICK i \in 1..Len(bus) : bus[i].what = "Eis"
      BY <2>3 DEF Sent
    <3>2. bus[i] \in Messages
      BY <3>1 DEF TypeOK
    <3>3. bus[i].result \in {"ok", "failed"}
      BY <3>1, <3>2 DEF AnswerInv, MessagesExpected, Expected, Messages
    <3>4. bus[i] = [what |-> "Eis", result |-> bus[i].result]
      BY <3>1, <3>2 DEF Messages
    <3> QED  BY <3>3, <3>4 DEF EisGiven, EisRefused
  <2> QED  BY <2>1, <2>2, <2>3
<1> QED  BY <1>1, AnswerInvInvariant, SessionTypeCorrect, PTL
=============================================================================
