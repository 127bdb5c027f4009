----------------------------- MODULE VideoStream -----------------------------
(***************************************************************************)
(* The frame pipeline of one connection (src/src/VideoStream.cpp and the   *)
(* surface half of VideoStreamSurface.cpp): frames come from the encoder   *)
(* to the MAIN thread, wait in frameQueue, are taken and sent by the       *)
(* SUBMISSION thread, and are acknowledged by the client to the RUN thread *)
(* of the connection, which also (re)negotiates the graphics pipeline and  *)
(* closes the stream.  A variable is written by the thread the code writes *)
(* it from; what the code does under one mutex is one step, and what it    *)
(* does in two critical sections is two.                                   *)
(***************************************************************************)
EXTENDS Integers, Sequences, SequencesExt, FiniteSets

CONSTANTS
    Modes,              \* the encoding modes this client can negotiate
    Sizes,              \* the frame sizes the source can have
    Regions,            \* the parts of the screen that damage is made of
    HighQueueCount,     \* 3 in the code
    LowQueueCount,      \* 1 in the code
    MinWindow,          \* MaximumInFlightFrames, 2 in the code
    MaxWindow,          \* the largest window the round trip time can ask for
    SurfaceIds,         \* nextSurfaceId is an uint16_t: 2^16 in the code
    MaxFrames,          \* bound: frames the source produces
    MaxAdverts,         \* bound: capability advertisements of the client
    CanBlock,           \* the transport may report IsWriteBlocked
    CanFail,            \* a graphics PDU may fail
    CanSuspendAcks,     \* the client may suspend frame acknowledgements
    CanSuppress,        \* the client may suppress and allow output
    CanClose            \* the connection may be closed

ASSUME ModesAssumption == Modes \subseteq {"H264", "Progressive"} /\ Modes # {}
ASSUME QueueAssumption ==
    HighQueueCount \in Nat /\ LowQueueCount \in Nat \ {0} /\ LowQueueCount <= HighQueueCount
ASSUME WindowAssumption == MinWindow \in Nat \ {0} /\ MaxWindow \in Nat /\ MinWindow <= MaxWindow
ASSUME BoundAssumption == SurfaceIds \in Nat \ {0} /\ MaxFrames \in Nat /\ MaxAdverts \in Nat
ASSUME EnvironmentAssumption ==
    /\ CanBlock \in BOOLEAN /\ CanFail \in BOOLEAN /\ CanSuspendAcks \in BOOLEAN
    /\ CanSuppress \in BOOLEAN /\ CanClose \in BOOLEAN

NoMode  == "none"
NoSize  == "no size"
ASSUME SizesAssumption == NoSize \notin Sizes

\* A VideoFrame. codec is the stream it came from (data or image is set), seq
\* its number among all frames the source produced, damage the regions that
\* changed since the frame before it.
Frame == [seq : Nat, codec : {"H264", "Progressive"}, key : BOOLEAN,
          size : Sizes, damage : SUBSET Regions]

NoFrame   == [seq |-> 0, codec |-> NoMode, key |-> FALSE, size |-> NoSize, damage |-> {}]
NoSurface == [id |-> 0, size |-> NoSize]

VARIABLES
    \* main thread
    mode,               \* activeEncodingMode
    queue,              \* frameQueue, under frameQueueMutex
    encoderPaused,      \* encodedStream->encoderPaused()
    mainStep,           \* where the main thread is in updateBackpressure
    seenCount,          \* pendingSendQueueCount, the local of updateBackpressure
    posted,             \* updateBackpressure calls posted to the main thread
    maxInFlight,
    accepting,          \* session Streaming and enabled: queueFrame's guard
    \* submission thread
    sendStep, frame,    \* where it is in its loop and sendFrame; nextFrame
    firstReset,         \* in the performReset of pendingReset, not of the size
    frameId, nextSurfaceId,
    \* shared by the submission and the run thread
    pendingFrames, suspended, surface, pendingReset, capsConfirmed, stopRequested,
    \* run thread
    runStep, negotiated, adverts,
    \* the source's frame count and last size; the client's side: frames it will
    \* acknowledge, whether it suspended that, the last frame it decoded, and
    \* for each region the last change it does not show (0: up to date)
    produced, sourceSize, unacked, clientSuspended, reference, stale

queueVars   == <<mode, queue, encoderPaused, mainStep, seenCount>>
envVars     == <<maxInFlight, accepting>>
threadVars  == <<sendStep, frame, firstReset, frameId, nextSurfaceId>>
windowVars  == <<pendingFrames, suspended>>
surfaceVars == <<surface, pendingReset>>
runVars     == <<runStep, negotiated, adverts, stopRequested>>
sourceVars  == <<produced, sourceSize>>
clientVars  == <<unacked, clientSuspended, reference, stale>>
vars == <<queueVars, posted, envVars, threadVars, windowVars, surfaceVars,
          capsConfirmed, runVars, sourceVars, clientVars>>

MainSteps == {"idle", "count", "decide"}
SendSteps == {"check", "take", "guard", "reset", "clear", "size", "destroy", "drop", "create",
              "undo", "undrop", "insert", "submit", "remove", "post", "done"}
RunSteps  == {"idle", "destroy", "drop", "negotiate", "confirm",
              "close", "join", "clear", "closeDestroy", "closed"}

-----------------------------------------------------------------------------
\* VideoStream::initialize has run and openChannel has succeeded: the session
\* is Streaming, the submission thread runs, and no capabilities are known.
Init ==
    /\ mode = NoMode /\ queue = <<>> /\ encoderPaused = FALSE
    /\ mainStep = "idle" /\ seenCount = 0 /\ posted = 0
    /\ maxInFlight = MinWindow /\ accepting = TRUE
    /\ sendStep = "check" /\ frame = NoFrame /\ firstReset = FALSE
    /\ frameId = 0 /\ nextSurfaceId = 1
    /\ pendingFrames = {} /\ suspended = FALSE
    /\ surface = NoSurface /\ pendingReset = TRUE
    /\ capsConfirmed = FALSE /\ stopRequested = FALSE
    /\ runStep = "idle" /\ negotiated = NoMode /\ adverts = 0
    /\ produced = 0 /\ sourceSize = NoSize
    /\ unacked = {} /\ clientSuspended = FALSE /\ reference = 0
    /\ stale = [r \in Regions |-> 0]

-----------------------------------------------------------------------------
(* The main thread *)

\* Mutated forms of Enqueue: every frame replaces what waits; the damage of a
\* replaced frame is forgotten.
EnqueueLatestOnly(q, f) == <<f>>
EnqueueWithoutDamage(q, f) == IF f.codec = "H264" /\ ~f.key THEN Append(q, f) ELSE <<f>>

\* queueFrame's effect on the queue: a key frame replaces all that waits; a
\* raster frame replaces the one that waits and takes over its damage.
Enqueue(q, f) ==
    IF f.codec = "H264"
    THEN IF f.key THEN <<f>> ELSE Append(q, f)
    ELSE <<IF q = <<>> THEN f ELSE [f EXCEPT !.damage = @ \union Last(q).damage]>>

\* What the source can produce: an encoder starts every size with a key frame,
\* and the first raster frame of a size is damaged all over.
SourceFrames ==
    {f \in [seq : {produced + 1}, codec : {mode}, key : BOOLEAN,
            size : Sizes, damage : SUBSET Regions] :
       IF f.codec = "H264" THEN f.damage = {} /\ (f.size # sourceSize => f.key)
                           ELSE ~f.key /\ (f.size # sourceSize => f.damage = Regions)}

\* onPacketReceived or onFrameReceived, then queueFrame up to its call of
\* updateBackpressure. A frame that is not accepted is gone.
QueueFrame(f) ==
    /\ mainStep = "idle" /\ produced < MaxFrames
    /\ produced' = produced + 1
    /\ sourceSize' = f.size
    /\ stale' = [r \in Regions |-> IF r \in f.damage THEN f.seq ELSE stale[r]]
    /\ IF accepting
       THEN queue' = Enqueue(queue, f) /\ mainStep' = "count"
       ELSE UNCHANGED <<queue, mainStep>>
    /\ UNCHANGED <<mode, encoderPaused, seenCount, posted, envVars, threadVars, windowVars,
                   surfaceVars, capsConfirmed, runVars, unacked, clientSuspended, reference>>

\* The event loop delivers an updateBackpressure that sendFrame posted.
DeliverPosted ==
    /\ mainStep = "idle" /\ posted > 0
    /\ posted' = posted - 1
    /\ mainStep' = "count"
    /\ UNCHANGED <<mode, queue, encoderPaused, seenCount, envVars, threadVars, windowVars,
                   surfaceVars, capsConfirmed, runVars, sourceVars, clientVars>>

\* updateBackpressure, its critical section: only an encoder can be paused.
CountQueue ==
    /\ mainStep = "count"
    /\ IF mode = "H264"
       THEN seenCount' = Len(queue) /\ mainStep' = "decide"
       ELSE mainStep' = "idle" /\ UNCHANGED seenCount
    /\ UNCHANGED <<mode, queue, encoderPaused, posted, envVars, threadVars, windowVars,
                   surfaceVars, capsConfirmed, runVars, sourceVars, clientVars>>

\* Mutated form of PauseFor: the lower level is off by one.
PauseForOffByOne(count) ==
    IF encoderPaused THEN count >= LowQueueCount - 1 ELSE count > HighQueueCount

\* Whether the encoder is to be paused: two levels, with hysteresis.
PauseFor(count) ==
    IF encoderPaused THEN count >= LowQueueCount ELSE count > HighQueueCount

\* updateBackpressure, after the unlock: it acts on the count it has read.
DecidePause ==
    /\ mainStep = "decide"
    /\ mainStep' = "idle"
    /\ seenCount' = 0
    /\ encoderPaused' = PauseFor(seenCount)
    /\ UNCHANGED <<mode, queue, posted, envVars, threadVars, windowVars,
                   surfaceVars, capsConfirmed, runVars, sourceVars, clientVars>>

\* setActiveEncodingMode, for which the run thread waits: another mode drops
\* what waits and starts a new stream, whose encoder is not paused.
SetActiveEncodingMode ==
    /\ mainStep = "idle" /\ runStep = "negotiate"
    /\ runStep' = "confirm"
    /\ IF mode = negotiated
       THEN UNCHANGED <<mode, queue, encoderPaused, sourceSize>>
       ELSE /\ mode' = negotiated
            /\ queue' = <<>>
            /\ encoderPaused' = FALSE
            /\ sourceSize' = NoSize
    /\ UNCHANGED <<mainStep, seenCount, posted, envVars, threadVars, windowVars, surfaceVars,
                   capsConfirmed, negotiated, adverts, stopRequested, produced, clientVars>>

\* updateInFlightWindow: the round trip time and frame rate are arbitrary.
UpdateInFlightWindow ==
    /\ mainStep = "idle"
    /\ \E w \in MinWindow..MaxWindow : w # maxInFlight /\ maxInFlight' = w
    /\ UNCHANGED <<queueVars, posted, accepting, threadVars, windowVars, surfaceVars,
                   capsConfirmed, runVars, sourceVars, clientVars>>

-----------------------------------------------------------------------------
(* The submission thread *)

\* destroySurface, called by both threads, in its two halves: the window is
\* emptied under its mutex even when there is no surface; then the surface, if
\* there is one, goes without a lock. The client shows nothing of it any more.
EmptyWindow == pendingFrames' = {} /\ suspended' = FALSE

DropSurface ==
    IF surface.id = 0
    THEN UNCHANGED <<surface, stale>>
    ELSE /\ surface' = NoSurface
         /\ stale' = [r \in Regions |-> IF stale[r] = 0 THEN 1 ELSE stale[r]]

\* Mutated form of HasInFlightCapacity: off by one.
HasInFlightCapacityOrEqual == Cardinality(pendingFrames) <= maxInFlight

HasInFlightCapacity == Cardinality(pendingFrames) < maxInFlight

\* Mutated form of CheckCapacity: the stop token is tested after the capacity.
CheckCapacityBeforeStop ==
    /\ sendStep = "check"
    /\ HasInFlightCapacity /\ capsConfirmed
    /\ sendStep' = IF stopRequested THEN "done" ELSE "take"
    /\ UNCHANGED <<queueVars, posted, envVars, frame, firstReset, frameId, nextSurfaceId, windowVars,
                   surfaceVars, capsConfirmed, runVars, sourceVars, clientVars>>

\* The head of the loop: it ends when asked to, and goes on when the window
\* has room and capabilities are confirmed.
CheckCapacity ==
    /\ sendStep = "check"
    /\ \/ stopRequested /\ sendStep' = "done"
       \/ /\ ~stopRequested
          /\ HasInFlightCapacity /\ capsConfirmed
          /\ sendStep' = "take"
    /\ UNCHANGED <<queueVars, posted, envVars, frame, firstReset, frameId, nextSurfaceId, windowVars,
                   surfaceVars, capsConfirmed, runVars, sourceVars, clientVars>>

TakeFrame ==
    /\ sendStep = "take"
    /\ IF queue = <<>>
       THEN sendStep' = "check" /\ UNCHANGED <<queue, frame>>
       ELSE sendStep' = "guard" /\ frame' = Head(queue) /\ queue' = Tail(queue)
    /\ UNCHANGED <<mode, encoderPaused, mainStep, seenCount, posted, envVars, firstReset, frameId,
                   nextSurfaceId, windowVars, surfaceVars, capsConfirmed, runVars, sourceVars, clientVars>>

\* sendFrame's early returns: the frame is lost, and nothing is posted.
DropFrame ==
    /\ sendStep = "guard"
    /\ CanBlock \/ mode = NoMode \/ ~capsConfirmed
    /\ sendStep' = "check" /\ frame' = NoFrame
    /\ UNCHANGED <<queueVars, posted, envVars, firstReset, frameId, nextSurfaceId, windowVars,
                   surfaceVars, capsConfirmed, runVars, sourceVars, clientVars>>

PassGuards ==
    /\ sendStep = "guard" /\ mode # NoMode /\ capsConfirmed
    /\ sendStep' = "reset"
    /\ UNCHANGED <<queueVars, posted, envVars, frame, firstReset, frameId, nextSurfaceId, windowVars,
                   surfaceVars, capsConfirmed, runVars, sourceVars, clientVars>>

TestPendingReset ==
    /\ sendStep = "reset"
    /\ sendStep' = IF pendingReset THEN "clear" ELSE "size"
    /\ UNCHANGED <<queueVars, posted, envVars, frame, firstReset, frameId, nextSurfaceId, windowVars,
                   surfaceVars, capsConfirmed, runVars, sourceVars, clientVars>>

\* A reset that is asked for between the test and this step is forgotten.
ClearPendingReset ==
    /\ sendStep = "clear"
    /\ sendStep' = "destroy"
    /\ pendingReset' = FALSE /\ firstReset' = TRUE
    /\ UNCHANGED <<queueVars, posted, envVars, frame, frameId, nextSurfaceId, windowVars,
                   surface, capsConfirmed, runVars, sourceVars, clientVars>>

\* Mutated form of SizeDiffers: a surface is created only when there is none.
SizeDiffersWithoutSurface == surface.size = NoSize

SizeDiffers == surface.size # frame.size

TestSize ==
    /\ sendStep = "size"
    /\ sendStep' = IF SizeDiffers THEN "destroy" ELSE "insert"
    /\ firstReset' = FALSE
    /\ UNCHANGED <<queueVars, posted, envVars, frame, frameId, nextSurfaceId, windowVars,
                   surfaceVars, capsConfirmed, runVars, sourceVars, clientVars>>

\* performReset, first half: destroySurface.
ResetDestroy ==
    /\ sendStep = "destroy"
    /\ EmptyWindow
    /\ sendStep' = "drop"
    /\ UNCHANGED <<queueVars, posted, envVars, frame, firstReset, frameId, nextSurfaceId, surfaceVars,
                   capsConfirmed, runVars, sourceVars, clientVars>>

ResetDrop ==
    /\ sendStep = "drop"
    /\ DropSurface
    /\ sendStep' = "create"
    /\ UNCHANGED <<queueVars, posted, envVars, frame, firstReset, frameId, nextSurfaceId, windowVars,
                   pendingReset, capsConfirmed, runVars, sourceVars, unacked, clientSuspended, reference>>

\* sendFrame goes on after performReset: it was called for pendingReset, or for
\* the size.
AfterReset == IF firstReset THEN "size" ELSE "insert"

\* performReset, second half: ResetGraphics and CreateSurface may fail, and leave
\* no surface; what fails once there is one has it destroyed again.
ResetCreate ==
    /\ sendStep = "create"
    /\ \/ /\ surface' = [id |-> nextSurfaceId, size |-> frame.size]
          /\ sendStep' \in {AfterReset} \union IF CanFail THEN {"undo"} ELSE {}
          /\ nextSurfaceId' = (nextSurfaceId + 1) % SurfaceIds
       \/ /\ CanFail                            \* ResetGraphics or CreateSurface
          /\ sendStep' = AfterReset
          /\ nextSurfaceId' \in {nextSurfaceId, (nextSurfaceId + 1) % SurfaceIds}
          /\ UNCHANGED surface
    /\ UNCHANGED <<queueVars, posted, envVars, frame, firstReset, frameId, windowVars, pendingReset,
                   capsConfirmed, runVars, sourceVars, clientVars>>

\* The surface context or MapSurfaceToOutput has failed: destroySurface again.
UndoCreate ==
    /\ sendStep = "undo"
    /\ EmptyWindow
    /\ sendStep' = "undrop"
    /\ UNCHANGED <<queueVars, posted, envVars, frame, firstReset, frameId, nextSurfaceId, surfaceVars,
                   capsConfirmed, runVars, sourceVars, clientVars>>

UndoDrop ==
    /\ sendStep = "undrop"
    /\ DropSurface
    /\ sendStep' = AfterReset
    /\ UNCHANGED <<queueVars, posted, envVars, frame, firstReset, frameId, nextSurfaceId, windowVars,
                   pendingReset, capsConfirmed, runVars, sourceVars, unacked, clientSuspended, reference>>

InsertPending ==
    /\ sendStep = "insert"
    /\ frameId' = frameId + 1
    /\ pendingFrames' = IF suspended THEN pendingFrames ELSE pendingFrames \union {frameId}
    /\ sendStep' = "submit"
    /\ UNCHANGED <<queueVars, posted, envVars, frame, firstReset, nextSurfaceId, suspended,
                   surfaceVars, capsConfirmed, runVars, sourceVars, clientVars>>

\* The frame that is being sent, after frameId has moved on.
CurrentId == frameId - 1

\* sendFrameH264 or sendFrameProgressive: without a surface, or for a frame of
\* the other mode, nothing is sent. The client decodes and will acknowledge; a
\* SurfaceCommand that failed is only logged, and it acknowledges a frame it has
\* no data of.
Submit ==
    /\ sendStep = "submit"
    /\ \/ /\ surface.id # 0 /\ frame.codec = mode
          /\ sendStep' = "post"
          /\ unacked' = IF clientSuspended THEN unacked ELSE unacked \union {CurrentId}
          /\ reference' = frame.seq
          /\ stale' = [r \in Regions |->
                         IF r \in frame.damage /\ stale[r] <= frame.seq THEN 0 ELSE stale[r]]
       \/ /\ CanFail /\ surface.id # 0 /\ frame.codec = mode /\ mode = "H264"
          /\ sendStep' = "post"
          /\ unacked' = IF clientSuspended THEN unacked ELSE unacked \union {CurrentId}
          /\ UNCHANGED <<reference, stale>>
       \/ /\ surface.id = 0 \/ frame.codec # mode \/ CanFail
          /\ sendStep' = "remove"
          /\ UNCHANGED <<unacked, reference, stale>>
    /\ UNCHANGED <<queueVars, posted, envVars, frame, firstReset, frameId, nextSurfaceId, windowVars,
                   surfaceVars, capsConfirmed, runVars, sourceVars, clientSuspended>>

\* Mutated form of RemovePending: a frame that was not submitted stays pending.
RemoveForgotten ==
    /\ sendStep = "remove"
    /\ sendStep' = "post"
    /\ UNCHANGED <<queueVars, posted, envVars, frame, firstReset, frameId, nextSurfaceId, windowVars,
                   surfaceVars, capsConfirmed, runVars, sourceVars, clientVars>>

RemovePending ==
    /\ sendStep = "remove"
    /\ pendingFrames' = pendingFrames \ {CurrentId}
    /\ sendStep' = "post"
    /\ UNCHANGED <<queueVars, posted, envVars, frame, firstReset, frameId, nextSurfaceId, suspended,
                   surfaceVars, capsConfirmed, runVars, sourceVars, clientVars>>

\* Mutated form of PostBackpressure: nothing is posted for an empty queue.
PostUnlessEmpty ==
    /\ sendStep = "post"
    /\ posted' = IF queue = <<>> THEN posted ELSE posted + 1
    /\ sendStep' = "check" /\ frame' = NoFrame
    /\ UNCHANGED <<queueVars, envVars, firstReset, frameId, nextSurfaceId, windowVars,
                   surfaceVars, capsConfirmed, runVars, sourceVars, clientVars>>

PostBackpressure ==
    /\ sendStep = "post"
    /\ posted' = posted + 1
    /\ sendStep' = "check" /\ frame' = NoFrame
    /\ UNCHANGED <<queueVars, envVars, firstReset, frameId, nextSurfaceId, windowVars,
                   surfaceVars, capsConfirmed, runVars, sourceVars, clientVars>>

-----------------------------------------------------------------------------
(* The run thread: callbacks of the graphics channel, and the close *)

\* onCapsAdvertise up to destroySurface. m is the mode the client's set leads
\* to, NoMode when none is usable. A confirmed client resets the channel.
CapsAdvertise(m) ==
    /\ runStep = "idle" /\ adverts < MaxAdverts
    /\ adverts' = adverts + 1
    /\ negotiated' = m
    /\ IF capsConfirmed
       THEN runStep' = "destroy" /\ capsConfirmed' = FALSE /\ pendingReset' = TRUE
       ELSE /\ runStep' = IF m = NoMode THEN "close" ELSE "negotiate"
            /\ UNCHANGED <<capsConfirmed, pendingReset>>
    /\ UNCHANGED <<queueVars, posted, envVars, threadVars, windowVars, surface,
                   stopRequested, sourceVars, clientVars>>

AdvertiseDestroy ==
    /\ runStep = "destroy"
    /\ EmptyWindow
    /\ runStep' = "drop"
    /\ UNCHANGED <<queueVars, posted, envVars, threadVars, surfaceVars, capsConfirmed, negotiated,
                   adverts, stopRequested, sourceVars, clientVars>>

AdvertiseDrop ==
    /\ runStep = "drop"
    /\ DropSurface
    /\ runStep' = IF negotiated = NoMode THEN "close" ELSE "negotiate"
    /\ UNCHANGED <<queueVars, posted, envVars, threadVars, windowVars, pendingReset, capsConfirmed,
                   negotiated, adverts, stopRequested, sourceVars, unacked, clientSuspended, reference>>

CapsConfirm ==
    /\ runStep = "confirm"
    /\ runStep' = "idle"
    /\ capsConfirmed' = TRUE \/ (CanFail /\ UNCHANGED capsConfirmed)
    /\ UNCHANGED <<queueVars, posted, envVars, threadVars, windowVars, surfaceVars,
                   negotiated, adverts, stopRequested, sourceVars, clientVars>>

\* onFrameAcknowledge with a queue depth; an unknown id changes no frame.
Acknowledge(id) ==
    /\ runStep = "idle" /\ ~clientSuspended
    /\ unacked' = unacked \ {id}
    /\ suspended' = FALSE
    /\ pendingFrames' = pendingFrames \ {id}
    /\ UNCHANGED <<queueVars, posted, envVars, threadVars, surfaceVars, capsConfirmed, runVars,
                   sourceVars, clientSuspended, reference, stale>>

\* Mutated form of SuspendAcks: what was in flight stays in the window.
SuspendKeepsPending ==
    /\ runStep = "idle" /\ CanSuspendAcks /\ ~clientSuspended /\ unacked # {}
    /\ clientSuspended' = TRUE /\ unacked' = {}
    /\ suspended' = TRUE
    /\ UNCHANGED <<queueVars, posted, envVars, threadVars, pendingFrames, surfaceVars, capsConfirmed,
                   runVars, sourceVars, reference, stale>>

\* onFrameAcknowledge with SUSPEND_FRAME_ACKNOWLEDGEMENT, sent instead of the
\* next acknowledgement: the client sends none from now on.
SuspendAcks ==
    /\ runStep = "idle" /\ CanSuspendAcks /\ ~clientSuspended /\ unacked # {}
    /\ clientSuspended' = TRUE /\ unacked' = {}
    /\ suspended' = TRUE /\ pendingFrames' = {}
    /\ UNCHANGED <<queueVars, posted, envVars, threadVars, surfaceVars, capsConfirmed, runVars,
                   sourceVars, reference, stale>>

\* The client takes up acknowledging with the next frame it decodes; the server
\* learns of it from that acknowledgement.
ResumeAcks ==
    /\ clientSuspended
    /\ clientSuspended' = FALSE
    /\ UNCHANGED <<queueVars, posted, envVars, threadVars, windowVars, surfaceVars, capsConfirmed,
                   runVars, sourceVars, unacked, reference, stale>>

\* onSuppressOutput: setEnabled.
SuppressOutput ==
    /\ runStep = "idle" /\ CanSuppress
    /\ accepting' = ~accepting
    /\ UNCHANGED <<queueVars, posted, maxInFlight, threadVars, windowVars, surfaceVars,
                   capsConfirmed, runVars, sourceVars, clientVars>>

\* close(), called on the run thread when its loop has ended. Frames that are
\* already on their way to the main thread still arrive.
CloseRequestStop ==
    /\ (runStep = "idle" /\ CanClose) \/ runStep = "close"
    /\ stopRequested' = TRUE
    /\ runStep' = "join"
    /\ UNCHANGED <<queueVars, posted, envVars, threadVars, windowVars, surfaceVars,
                   capsConfirmed, negotiated, adverts, sourceVars, clientVars>>

\* Mutated form of CloseJoin: close does not wait for the submission thread.
CloseWithoutJoin ==
    /\ runStep = "join"
    /\ runStep' = "clear"
    /\ UNCHANGED <<queueVars, posted, envVars, threadVars, windowVars, surfaceVars,
                   capsConfirmed, negotiated, adverts, stopRequested, sourceVars, clientVars>>

CloseJoin ==
    /\ runStep = "join" /\ sendStep = "done"
    /\ runStep' = "clear"
    /\ UNCHANGED <<queueVars, posted, envVars, threadVars, windowVars, surfaceVars,
                   capsConfirmed, negotiated, adverts, stopRequested, sourceVars, clientVars>>

CloseClear ==
    /\ runStep = "clear"
    /\ pendingFrames' = {} /\ suspended' = FALSE
    /\ queue' = <<>>
    /\ runStep' = "closeDestroy"
    /\ UNCHANGED <<mode, encoderPaused, mainStep, seenCount, posted, envVars, threadVars, surfaceVars,
                   capsConfirmed, negotiated, adverts, stopRequested, sourceVars, clientVars>>

\* Nothing runs beside this destroySurface: it is one step.
CloseDestroy ==
    /\ runStep = "closeDestroy"
    /\ EmptyWindow /\ DropSurface
    /\ mode' = NoMode
    /\ runStep' = "closed"
    /\ UNCHANGED <<queue, encoderPaused, mainStep, seenCount, posted, envVars, threadVars, pendingReset,
                   capsConfirmed, negotiated, adverts, stopRequested, sourceVars,
                   unacked, clientSuspended, reference>>

-----------------------------------------------------------------------------
UpdateBackpressure == DeliverPosted \/ CountQueue \/ DecidePause

Main ==
    \/ mode # NoMode /\ \E f \in SourceFrames : QueueFrame(f)
    \/ UpdateBackpressure
    \/ SetActiveEncodingMode
    \/ UpdateInFlightWindow

PerformReset == ResetDestroy \/ ResetDrop \/ ResetCreate \/ UndoCreate \/ UndoDrop

SendFrame ==
    \/ DropFrame \/ PassGuards
    \/ TestPendingReset \/ ClearPendingReset \/ TestSize \/ PerformReset
    \/ InsertPending \/ Submit \/ RemovePending \/ PostBackpressure

Submission == CheckCapacity \/ TakeFrame \/ SendFrame

Negotiation == AdvertiseDestroy \/ AdvertiseDrop \/ CapsConfirm
Closing == CloseJoin \/ CloseClear \/ CloseDestroy

Run ==
    \/ \E m \in Modes : CapsAdvertise(m)
    \/ CanClose /\ CapsAdvertise(NoMode)
    \/ Negotiation
    \/ \E id \in unacked : Acknowledge(id)
    \/ SuspendAcks \/ ResumeAcks
    \/ SuppressOutput
    \/ CloseRequestStop \/ Closing

Next == Main \/ Submission \/ Run

Spec == Init /\ [][Next]_vars
(***************************************************************************)
(* Fairness: the threads are scheduled by the operating system, the event  *)
(* loop delivers what was posted, and a client that has not suspended them *)
(* goes on to acknowledge frames. Nothing is assumed of the source, of     *)
(* suppression, of when a close or an advertisement comes, or of a client  *)
(* that suspended its acknowledgements.                                    *)
(***************************************************************************)
Fairness ==
    /\ WF_vars(UpdateBackpressure) /\ WF_vars(SetActiveEncodingMode)
    /\ WF_vars(Submission)
    /\ WF_vars(Negotiation) /\ WF_vars(Closing)
    /\ WF_vars(\E id \in unacked : Acknowledge(id))

FairSpec == Spec /\ Fairness

-----------------------------------------------------------------------------
TypeOK ==
    /\ mode \in Modes \union {NoMode} /\ queue \in Seq(Frame)
    /\ encoderPaused \in BOOLEAN /\ mainStep \in MainSteps
    /\ seenCount \in Nat /\ posted \in Nat
    /\ maxInFlight \in MinWindow..MaxWindow /\ accepting \in BOOLEAN
    /\ sendStep \in SendSteps /\ frame \in Frame \union {NoFrame}
    /\ firstReset \in BOOLEAN /\ frameId \in Nat /\ nextSurfaceId \in Nat
    /\ pendingFrames \subseteq 0..CurrentId /\ suspended \in BOOLEAN
    /\ surface \in [id : Nat, size : Sizes \union {NoSize}] /\ pendingReset \in BOOLEAN
    /\ capsConfirmed \in BOOLEAN /\ stopRequested \in BOOLEAN
    /\ runStep \in RunSteps /\ negotiated \in Modes \union {NoMode} /\ adverts \in Nat
    /\ produced \in Nat /\ sourceSize \in Sizes \union {NoSize}
    /\ unacked \subseteq 0..CurrentId /\ clientSuspended \in BOOLEAN
    /\ reference \in Nat /\ stale \in [Regions -> Nat]
    /\ sendStep = "submit" => frameId > 0

\* The frames in flight never exceed the widest window the round trip time can
\* ask for, although the window is read, a frame taken and its id inserted in
\* three critical sections, and the window may shrink in between
\* (hasInFlightCapacity, updateInFlightWindow, sendFrame).
InFlightBounded == Cardinality(pendingFrames) <= MaxWindow

\* The id that sendFrame has inserted and not yet submitted or removed.
InHand == IF sendStep \in {"submit", "remove"} THEN {CurrentId} ELSE {}

\* Each frame that occupies the window is one the client is going to
\* acknowledge, or the one being sent: no id stays behind and narrows the
\* window for good (sendFrame, onFrameAcknowledge, destroySurface).
WindowDrains == pendingFrames \subseteq unacked \union InHand

\* A frame is only ever drawn on a surface of its own size, also when the run
\* thread destroys the surface while sendFrame is under way.
SurfaceFitsFrame == sendStep = "submit" /\ surface.id # 0 => surface.size = frame.size

\* When no frame is refused or lost, the client decodes the encoder's stream
\* without a gap: a delta frame follows the frame it refers to (queueFrame
\* drops what waits only for a key frame, and one thread sends in order).
DeltaFollowsReference ==
    sendStep = "submit" /\ frame.codec = "H264" /\ ~frame.key => reference = frame.seq - 1

\* The frames that can still repair what the client shows.
Waiting == Range(queue) \union
           IF sendStep \in {"check", "take", "remove", "post", "done"} THEN {} ELSE {frame}

\* No damage is lost on the way of raster frames: whatever the client shows out of
\* date lies in the damage of a frame at least as new that is still to be sent
\* (queueFrame keeps the latest frame only, and accumulates the damage).
DamageCovered ==
    \A r \in Regions : mode = "Progressive" /\ stale[r] > 0 =>
        \E f \in Waiting : r \in f.damage /\ f.seq >= stale[r]

\* A paused encoder whose queue has drained is going to be looked at again: an
\* updateBackpressure is posted, is running, or will be posted for the frame in
\* hand (sendFrame's last statement). A count read before the queue drained
\* does not get the encoder stuck.
BackpressureCovered ==
    encoderPaused /\ Len(queue) < LowQueueCount =>
        \/ posted > 0
        \/ mainStep = "count"
        \/ mainStep = "decide" /\ seenCount < LowQueueCount
        \/ sendStep \notin {"check", "take", "done"}
        \/ stopRequested

\* When the client's channel is confirmed, also after a reset, the next frame
\* creates the surface anew: nothing of before is kept (the comment in
\* onCapsAdvertise, which clears the surface state of a confirmed client).
RecreatedAfterConfirm ==
    [][~capsConfirmed /\ capsConfirmed' => surface = NoSurface \/ pendingReset]_vars

\* A paused encoder resumes once the queue has drained (LowQueueCount), unless
\* the stream is closed.
EncoderResumes == encoderPaused ~> (~encoderPaused \/ stopRequested)

\* The queue is worked off, unless the stream is closed: frames that wait are
\* sent or dropped, and the window always opens again.
FramesAreTaken == queue # <<>> ~> (queue = <<>> \/ stopRequested)

\* A stop request brings close() to its end: the submission thread is never in
\* a state from which it cannot be joined.
CloseCompletes == stopRequested ~> runStep = "closed"

\* Once closed, nothing is sent any more, and nothing is left in flight.
ClosedIsQuiet ==
    runStep = "closed" => sendStep = "done" /\ pendingFrames = {} /\ surface = NoSurface
=============================================================================
