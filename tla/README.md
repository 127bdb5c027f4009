# KRdp, specified and checked

TLA+ modules, TLC configurations and TLAPS proofs for KRdp, the remote desktop
server of Plasma. Paths below are those of the repository with a leading
`src/`: `src/src/VideoStream.cpp` is the library, `src/server/main.cpp` the
server. `PROJECT.json` lists for every definition the lines it models.

## The system

`krdpserver` accepts RDP connections for the desktop session it runs in. Per
connection there is one `RdpConnection` with its helpers; one
`SessionController` gives each authenticated connection a session (portal or
Plasma screencast) and decides who may use the desktop.

Threads:

| thread | runs | created and ended by |
| --- | --- | --- |
| main | the Qt event loop: accepting, sessions, the controller, frames from PipeWire, input, cursor, clipboard data | `main` |
| run | one per connection, `RdpConnection::run`: waits for the client or a stop event, drives the FreeRDP peer and its callbacks | `initialize`; ends by itself, joined by `~RdpConnection` on the main thread |
| submission | one per stream: takes frames from the queue and sends them | `VideoStream::initialize`, joined by `close` on the run thread |
| clipboard | one per connection, inside FreeRDP's cliprdr server | `Clipboard::initialize`, joined by `Clipboard::close` on the run thread |

The run and the clipboard thread call the main thread with
`BlockingQueuedConnection` and sleep until they are answered; the main thread
joins the run thread in a destructor. Everything else between them is a queued
signal, an atomic, one of two mutexes (`frameQueueMutex`,
`pendingFramesMutex`), or a plain member.

### Components

**Frame pipeline** (`VideoStream.cpp`, `VideoStreamSurface.cpp`). State: the
encoding mode, the frame queue, whether the encoder is paused, the window of
frames in flight with its limit, whether the client suspended its
acknowledgements, the surface, `pendingReset`, `capsConfirmed`. Operations:
`queueFrame`, `updateBackpressure`, `updateInFlightWindow`,
`setActiveEncodingMode` (main); `sendFrame`, `performReset` (submission);
`onCapsAdvertise`, `onFrameAcknowledge`, `setEnabled`, `close` (run). Hard:
three threads, two mutexes and plain members; a decision on a count that is
stale; a reset of the graphics channel under a frame that is being sent.
Correct when the window is bounded and drains, references and damage are
complete, a paused encoder resumes, frames do not wait for ever, and a close
ends. Beside this: when the desktop is captured at all, which the client, the
graphics channel and the session decide together (`enabled`,
`activeEncodingMode`, `sessionStarted`), and the quality that is adapted to the
measured network.

**Connection** (`RdpConnection.cpp`, `Server.cpp`). State: the connection's
`State`, its run thread, the stop token and event, the FreeRDP peer; the
server's list. Operations: `initialize`, `run` with the callbacks of FreeRDP,
`close`, `onClose`, the destructor. Hard: destruction while threads wait for
one another, a transport that only one thread may touch, events that outlive
their connection, stopping a thread that waits without a timeout. Correct when
every connection that stops is destroyed once, by the right thread, with no
thread left in it.

**Session controller** (`SessionController.cpp`). State: one wrapper per
activated connection; calls to the display manager and logind under way.
Operations: a new client, a destroyed connection, an error of a session, a
change of the seat. Hard: clients that take over from one another while others
end, signals that arrive late, lock and unlock in the right order. Correct when
one client has control, the desktop is locked exactly when the last one has
left, and the seat is not shared with a remote client.

**Pointer** (`Cursor.cpp`). State: a cache of cursors and its copy at the
client. Correct when both agree under every index and the client shows the
cursor that was reported.

**Clipboard** (`Clipboard.cpp`, `AbstractSession.cpp`). State: the server's
and the client's data, who owns the clipboard of the desktop, how far the
client's handshake is. Hard: its own thread; a copy before the handshake is
complete, announcements that are posted and find another state. Correct when
both sides hold the same text in the end, and no copy comes back as an echo.

**Network detection** (`NetworkDetection.cpp`). State: open round-trip
requests by sequence number, one bandwidth measurement with three states. Hard:
answers that never come, come late or out of order, sequence numbers that wrap,
and a run loop that sleeps until something happens on the connection. Correct when
an answer is never taken for that to another request, and measuring goes on as long
as there is traffic.

**Adaptation** (`VideoStream.cpp`). State: the quality with its cap and whether
it adapts, the window with its smoothed estimates. Hard: the quality comes from
four sources in any order, some of them before there is an encoder; measured
values are stored one by one by another thread. Correct when the encoder has
the quality it should have, and recovers it.

**Sessions** (`AbstractSession.cpp`, `PortalSession.cpp`,
`PlasmaScreencastV1Session.cpp`, `EiConnection.cpp`). State: how far the set-up
is, the path of the portal's session, the connection to the input server with
its devices. Operations: a chain of portal requests, each answered by a signal,
or KWin's stream; at its end the node and the input server. Hard: any step may
fail, answers outlive the session, the user may close it at any time. Correct
when the session starts or its connection ends, an end of the session is
noticed, and the portal and the input server are left as they were found.

**Input** (`InputHandler.cpp`, `EiConnection.cpp`). State: keys held, the last
pointer position, the devices of the input server. Correct when nothing stays
down that the client does not hold, and the wheel turns as the client turned it.

**Settings module** (`src/kcm`). State: the form's users and settings, the jobs
that write passwords to the keychain, the status that is shown. Hard: the file
is written at once, the keychain and the server follow in their own time; the
unit is asked over D-Bus while it changes. Correct when file, keychain and a
server that is started agree with what was entered, and the status is the
unit's.

**Server process** (`server/main.cpp`): reads the users and their passwords,
and runs the event loop. **Display control** (`DisplayControl.cpp`): a monitor
layout of the client, handed to the source. The **example streamer**.

## The modules

| module | what it is |
| --- | --- |
| `VideoStream` | the frame pipeline of one connection, its client and its source |
| `MCVideoStream` | instances of it |
| `VideoStream_proofs` | theorems about it |
| `ConnectionLife` | abstract: what the main thread is promised of a connection |
| `ConnectionSignals` | abstract: what the controller is told of the connections |
| `RdpConnection` | the threads of all connections, and the main thread; implements `ConnectionLife` and `ConnectionSignals` |
| `MCRdpConnection` | instances of it |
| `RdpConnection_proofs` | theorems about it |
| `SessionController` | the controller, the seat, logind and the display manager, on top of `ConnectionSignals` |
| `MCSessionController` | instances of it |
| `SessionController_proofs` | theorems about it |
| `StreamControl` | what switches the capture of the desktop on and off; used by `Session` |
| `Session` | one connection's session, from activation to its end: the portal or KWin, the input server, the wrapper |
| `MCSession` | instances of it |
| `Session_proofs` | theorems about it |
| `Pointer` | abstract: a pointer channel without a cache |
| `Cursor` | the two pointer caches; implements `Pointer` |
| `Clipboard` | the clipboards of desktop and client, and the threads between them |
| `InputDevices` | buttons, characters and the wheel on the devices of the input server |
| `Channels_proofs` | theorems about `Cursor` and both of these |
| `NetworkDetection` | measuring round trips and bandwidth |
| `Bounds` | `std::min`, `std::max`, `std::clamp` |
| `AdaptiveQuality` | the quality of the encoder |
| `FlightWindow` | how the window of `VideoStream` is computed |
| `Quality_proofs` | theorems about both, and about `NetworkDetection` |
| `Logins` | users and passwords from the form over file and keychain to the server |
| `ServiceStatus` | the status of the unit over D-Bus |
| `Induction` | recursive functions over an index, for the proofs |
| `MCServices` | instances of `Cursor` and the modules after it, each on its own |
| `Services_proofs` | theorems about `Logins` and `ServiceStatus`, and about all parts of `MCServices` together |

### VideoStream

One variable per member the pipeline's control depends on, grouped by the
thread that writes it, and a program counter per thread (`mainStep`,
`sendStep`, `runStep`). What the code does under one mutex is one step; what it
does in two critical sections, or without a lock, is several, so every
interleaving of the three threads is a behaviour. `sendFrame` is the sequence
`guard, reset, clear, size, destroy, drop, create, insert, submit, remove, post`,
with `undo, undrop` when `performReset` fails after it has made a surface;
`updateBackpressure` is `count, decide`; `onCapsAdvertise` is `destroy, drop,
negotiate` (the blocking call of `setActiveEncodingMode`) and `confirm`;
`close` is `join, clear, closeDestroy`. `destroySurface` is two steps on every
thread, `EmptyWindow` under its mutex and `DropSurface`, which takes the surface
away; only in `close` is it one, for the submission thread has been joined there.
The test of `pendingReset` and its clearing are two steps as well. The local
variables that live across steps are `frame`, `firstReset`, `seenCount` and
`negotiated`.

A frame that cannot be encoded or sent is taken out of the window again
(`remove`). One failure is only logged: after a `SurfaceCommand` that was not
written `sendFrameH264` goes on to the end of the frame, so the frame stays
pending and the client acknowledges it without having its picture.

A frame is its number, codec, key flag, size and damage (a set of regions).
The client's side is what the properties need: the frames it will acknowledge
(`unacked`), whether it suspended acknowledging, the last frame it decoded
(`reference`), and for each region of the screen the change it does not show
yet (`stale`).

Assumed of PipeWire and the encoder: an encoder starts each size with a key frame, the
first raster frame of a size is damaged all over, and a size is known before its frames
come (a frame of no size is dropped by the loop). `maxInFlight` takes any value between
`MinWindow` and `MaxWindow` at any time, which covers whatever round trip times and
frame rates `updateInFlightWindow` computes it from: `WindowStaysInRange` of
`FlightWindow` is proved. Plain members that two threads use are read and written in one
step each; torn reads of them are not modelled.

### RdpConnection

Per connection: the `State`, the step of its run thread (`start, loop, wait,
read, channels`, then `closePeer, stopClipboard, closeStream, setClosed,
returning, ended`), its clipboard thread, the stop token and event, and whether
the peer is open, closed or freed. The main thread has the queue of its event
loop, and is either in that loop or in a destructor's `join`. `blocked` is a
thread asleep in a `BlockingQueuedConnection`, whose call is an event in the
queue. Events for a connection and its helpers are void when it is
destroyed, as Qt removes those of a receiver: `RemoveEvents` puts `"removed"` in
their place, and `ClosedComesLast` says that there never is one to remove while
the event loop runs.

FreeRDP's callbacks (input, graphics capabilities, activation) happen in step
`read`; which of them a client provokes is arbitrary. `initialize` may fail
before and after the peer exists, which leaves a connection without a thread.
`Quit` leaves the event loop for good; after it the destructors of the open
connections run one after another and nothing is delivered any more.

`ConnectionLife` is the promise: a connection is absent, accepted, active,
ending, gone, in this order, and an end that has begun is completed. The
refinement mapping `LifeOf` reads this off the list of the server, the wrappers
and the running destructor; leaving the event loop is `Exit`.

`ConnectionSignals` is the other side of it, what the controller hears: a
connection is accepted, activates, perhaps again, and ends; each of the two last
queues a signal for the main thread, and `Closed` is the last. `SignalsOf` reads
the connection's part of that off `State` and the activations, and `SignalsIn`
picks the signals out of the event queue, which also has calls, initializations
and removed events in it.

### SessionController

`wrappers` is `m_wrappers`, a sequence of connections, since a connection that
activates twice has two. `Without` is the `erase(remove_if)` that ends a wrapper;
the model takes away all of the connection, since all of them are told of its end.
Of the connections it has what `ConnectionSignals` has, queued `Activated` and
`Closed` events, and the stop request: every step of it that has to do with them
is a step of that module, which `RdpConnection` is shown to implement. So what the
controller assumes of the connections is what the threads give it. The calls to the
display manager (`SwitchToGreeter`) and to logind (`Lock`, `Unlock`) are
asynchronous: they are under way in `greeterCalls` and `lockCalls`, and served
later; logind serves them in the order they were sent, as one D-Bus connection
delivers them. A call may be answered
with an error (`CanRefuse`), which the code logs and otherwise ignores. Changes of
the seat reach the controller as signals, later than they happen, and only once
it is `watching`: the constructor asks logind for the path of the session, and
`WatchSessionActive` is the answer to that, which may come at any time or, as an
error, never. `unheeded` is kept for the properties: it says which kind of call was refused
when it was last answered, and whether a login went unnoticed. External: the
display manager makes the greeter active, a login makes the desktop session
active and unlocks it.

### StreamControl and Session

`StreamControl` has the variables and steps that decide whether an encoder or a
source stream runs: `setEnabled` on the run thread, whose `enabledChanged` is
queued for the wrapper (or lost, when there is no wrapper yet),
`onVideoStreamEnabledChanged`, `onSessionStarted` with `setPipeWireSource`, and
`setActiveEncodingMode`, which replaces the encoder. `Session` EXTENDS it and
puts it in motion beside the rest of a session.

A portal session is one action per callback: `OnCreateSession`,
`OnDevicesSelected`, `OnSourcesSelected`, `OnPortalStarted`, with `request` the
one that is under way, then `OpenPipeWireRemote` and `ConnectToEIS` in `calls`,
answered in any order. `bus` is what the portal or KWin have sent and krdp has
not handled, in the order sent. `OnRequestFailed` is the error path all
callbacks share, the grant of no device or no stream (`empty`) included. The
`Closed` signal is put on the bus only if somebody is connected to it when it
is sent. A session of KWin has one request, `Stream`, and `ConnectToEIS` from
its constructor. `OnConnectionDestroyed` is the destruction of the connection
and, with it, of wrapper, session and input connection; an answer that comes
later is dropped (`DropMessage`).

The input server has keyboards, which come and go; `eisEvents` is what it has sent, read
all at once by `ProcessEisEvents` (`KeyboardAfterAll` is its loop). `held` is the keys
that are down there, with the keyboard they were pressed on, and `pressedKeys` what the
`InputHandler` believes. A key that is sent counts as down at once: libei writes it to a
socket the server reads in order. External: the server lets keys of a keyboard go when
it is removed, and all of them when a connection ends.

One wrapper per connection; a second activation, which gives another, is in
`SessionController`. There two wrappers would both answer `enabledChanged`, and
the one whose session has not started yet would pause the other's stream until
it starts. Pointer and text devices are in `InputDevices`; the restore token, sizes and
the descriptor of PipeWire are left out.

### Cursor

`update` is one of four actions: an image too large for the protocol shows the
client's default pointer, the cursor that is shown only gets a new time, a
cached one is recalled by index, a new one is stored under the next index or
that of the least recently used one. The client executes what it is sent.
Times are the number of updates; two updates at the same instant are not
modelled. `Pointer` is the channel one would write without a cache, and the
refinement mapping is the identity on `reported` and `shown`.

### Clipboard

`clipStep` is how far the run thread is with the channel; `calling` is the message of
the client for which the clipboard thread waits; `clipEvents` is the main thread's
queue: a change of the desktop's clipboard to look at (`OnClipboardChanged`), an
announcement it has posted to itself (`SendServerData`), a blocking call. A `Stop` that
fails leaves the clipboard enabled (`clipStep` "failed"), so that announcements are
still tried. `toServer` and `toClient` are the virtual channel. A copy is its side and a
number, `desktop` and `clientClip` are what each side has and from whom. `mayCross` is
chosen initially: with it both sides copy whenever they like, without it one user copies
on a side only when nothing is under way.

### InputDevices

The devices krdp knows (`pointerDevices` in order, `textDevice`), those the
server has, and the events between them. A button is sent to the first pointer
device that has buttons, a character to the text device; krdp keeps nothing
about what it has pressed where. Events are handled one by one, which is the
loop of `processEisEvents` with the later ones still in the socket. The wheel is
the conversion of nine bits with `% 512`; it has no state. A client that sets
the move flag in a release is not modelled: the code takes it for a move.

### NetworkDetection

`update` and the two handlers of answers, on the run thread. `update` is called at the
end of a pass of `RdpConnection::run`, which first waits for the transport, the channels
or the stop event without a limit (`RdpConnection.cpp:544`); no timer ends that wait. So
`NetworkUpdate` needs a pass that has begun (`awake`): an answer begins one, and `Wake`
is whatever else does. Times are ages that stop counting where nothing depends on them;
every interval of the code is a constant. Two assumptions relate them to the size of the
circle of numbers, which the code leaves to its constants (requests each 70 ms, reports
each second, given up after 30 s, and 16 bits): those used up while an answer is under
way (`NumbersAssumption`) and while a request is open (`OpenNumbersAssumption`) are not
all there are. `asked` is the client's side: requests it is going to answer, of any age
up to `MaxDelay`, in any order; those it does not answer are never there. A round trip
of no duration, which the handler returns early for, is possible for a request of age 0.
Sequence numbers are `0..SequenceNumbers - 1`, used in turn, without 0 and those that
are open.

### AdaptiveQuality and FlightWindow

The events of the main thread that touch the quality, in their order: an
activation (`setAdaptiveQuality`, `setVideoQuality`), the seed, a mode with a
new encoder, and measured bandwidth. `updateAdaptiveQuality` is two steps, since
it reads the average of the round trips and later their minimum, which the run
thread stores as two steps as well. Quality is a byte (`% ByteSize`). Bandwidth is
reported at any time or never. `Ceiling` is the upper end of the adaptation as the
code computes it (`VideoStream.cpp:838`), the greater of the configured quality
(`qualityCap`) and `MinAdaptiveQuality`; `CapIsUpperBound` is what
the option promises of the configured quality itself.
`FlightWindow` has the two smoothed estimates with the code's integer divisions,
fed by any rates and round trip times of a set.

### Logins and ServiceStatus

`Logins` has the form, the file (written with `save`), the queue of keychain
jobs with the refused ones, and the server: it reads the file, then asks for the
passwords, one job each. `ServiceStatus` has the unit with its failures and
invocations, and two queues of messages, which D-Bus keeps in order: asking for
the state, the state, asking for the invocation, the invocation, and the signal
`PropertiesChanged`. External: systemd, which restarts a unit that failed but
for `MaxInvocations`, and the keychain.

### MCServices

These modules and `Cursor` share no variable. `ServicesSpec` starts with one
`part` and takes its steps only, so that one run checks them side by side
without their product; the choices of the other parts are fixed.

## The runs

Deadlock is not checked in any run: sources, clients and counters are bounded,
and a system whose client is silent does nothing.

| run | shows | bounds |
| --- | --- | --- |
| `stream_safety` | `InFlightBounded`, `WindowDrains`, `SurfaceFitsFrame`, `ClosedIsQuiet` | both modes, two sizes, 3 frames, 2 advertisements, any PDU may fail, blocking, close at any time; a window of 1 to 2; the two sizes are symmetric |
| `stream_lossless` | `DamageCovered`, `DeltaFollowsReference` | both modes, two sizes, two regions, 4 frames, one advertisement, nothing is refused or fails |
| `stream_flow` | `BackpressureCovered`; under fairness `EncoderResumes`, `FramesAreTaken`, `CloseCompletes` | H.264, one size, 4 frames (one more than `HighQueueCount`), suspension, suppression, close |
| `stream_blocked`, `stream_suspended`, `stream_readvertise` | findings, see below | |
| `connection` | `PeerFreedSafely`, `OneTransportOwner`, `NoCircularWait`, `ClosedComesLast`; under fairness `StopDestroys`; `ImplementsLife`: both `ConnectionLife`, with its fairness, and `ConnectionSignals` | two connections, one blocking call and one activation each (`MaxActivations` is 1; a second activation is in `controller`), failing set-up, quit |
| `connection_quit` | a finding | one connection |
| `controller` | `OneController`, `NewcomerStays`, `LeftLocked`, `UsableWhileConnected`; types; under fairness `SeatGivenUp` | two clients, four activations, two logins at the seat, any call may be refused, the seat is watched from any time on |
| `session` | `CapturesWhenWanted`, `HeldKeysAreKnown`; under fairness `KeysAreReleased`, `PortalCloseIsNoticed`, `SessionSettles` | both kinds of session, two keyboards, two keys, two events of the input server and two `enabledChanged` under way, every request may fail, the session may be closed at any time; `OutputExists` |
| `services` | of `Cursor`: `CachesAgree`, `ImplementsPointer` | a cache of 3, five cursors of which one is too large, 6 updates |
| | of `Clipboard`: `ClipboardsAgree`; under fairness `CopyIsAnnounced` | 2 copies on each side, one of them not text, 2 text formats |
| | of `NetworkDetection`: `AnswersFitRequests`; under fairness, and with traffic, `MeasuringGoesOn` | requests each tick, given up after 2, answers in any order after up to 3, 9 sequence numbers |
| | of `AdaptiveQuality`: `EncoderObeys`; under fairness, and with reports of bandwidth, `QualitySettles` | qualities 5 and 300 (a byte, and below `MinAdaptiveQuality`), the code's steps, 2 activations, 4 changes of network, surface and mode |
| | of `FlightWindow`: `WindowInRange` (with the types) | rates and round trips at and around the code's limits, scaled |
| | of `Logins`: `LoginsAreKept` | two names, two passwords, 3 edits, any job may be refused |
| | of `ServiceStatus`: `StatusIsShown` | 2 clicks, 2 invocations |
| | of `InputDevices`: `NothingStuck` | three devices of different capabilities, a button, a character, 2 events under way |
| `quality_bound` | a finding | a configured quality of 5 |

Why the bounds are enough to be interesting. The window of `stream_safety` is scaled to
1..2 where the code has 2 as its floor, so that three frames overfill it;
`InFlightCorrect` is proved for every window. Two advertisements are what mstsc sends.
Four frames in `stream_flow` are the fewest that pause an encoder with the code's levels
of 3 and 1. Two connections are enough for one to be destroyed while threads of the
other wait. Two clients take over from one another, and four activations let each of them
activate again, also while it is being taken over from; the theorems about the controller
are for any number of clients. `SeatGivenUp` is about one client against the seat, with a
second one to come or go meanwhile, and two logins let the second come while the greeter
called for the first is under way. Two keyboards are enough for a key to be pressed on one that is going
while the other waits, and for the second to be passed over; two signals under way let
the client change its mind before the wrapper has heard of it. Without `OutputExists`,
that is with a `--monitor` that does not exist, a session of KWin neither starts nor
fails, and `SessionSettles` does not hold. Six updates on a cache of three evict, recall
what was evicted and evict again. Nine sequence numbers are the fewest that both
assumptions about them allow with these ages: a number is used again as soon as an
answer to its last request can no longer come. The code has 65535 of them for a request
every 70 ms, more than an hour. A quality of 300 does not fit a byte, one of 5 is below
`MinAdaptiveQuality`. Two clicks let a stop overtake the replies to a start, and two
invocations let an error be that of an earlier run. Three devices are enough for a
release to have a wrong one to go to, on either side of the right one.

Each property has a mutant, a definition beside the one it changes, under which
its run fails: they are the plausible slips (an off-by-one in the window, a
frame left in it, a thread that is not joined, a lock on every leave) that the
property is there to catch.

### Fairness

`VideoStream`: the operating system schedules the submission thread and the
steps of a negotiation or a close that has begun; the event loop delivers what
was posted; a client that has not suspended them acknowledges frames. Nothing
is assumed of the source, of suppression, of a transport that unblocks, or of
clients that suspend. `RdpConnection`: the event loop delivers, a destructor
goes on, a run thread that waits for nobody is scheduled, a signalled event
ends its wait; clients may be silent. `SessionController`: events and signals
are delivered, a connection asked to stop ends, which is `StopDestroys`, and
the services answer, be it with an error; nothing obliges logind to let the controller
watch. So `SeatGivenUp` excepts a display manager that refuses and a login no
signal told of. `Session`: the event loop delivers, a connection asked to
stop ends, the portal, KWin and the input server answer what they are asked, and
the input server drops the connection of a portal session that is closed; only
the user, whom the portal asks at `Start`, may take for ever, and nothing
obliges the outside to close anything. `Clipboard`: the main thread handles its
queue, the clipboard thread hands on messages, the client handles what it is
sent; nobody has to copy. `NetworkDetection`: a pass of the run loop that has
begun comes to its end, time passes, and, in behaviours with `answering`, the client
answers; nothing has to wake the run loop. `MeasuringGoesOn` is therefore stated
of connections that are woken again and again (`[]<>awake`): on one that is idle a
measurement that is due is not begun, and one that has begun is not ended, until
there is traffic again. `AdaptiveQuality`: the event loop delivers, time passes, and the
run thread finishes storing what it has begun to store; nobody has to report bandwidth,
which takes traffic and a client that answers, and results of no bytes report nothing.
One adaptation is one step, so `QualitySettles` is stated of behaviours with a report again and
again; without them the quality stays where the last report has put it.
The other parts have safety properties only. All of it is weak fairness, and
`MCServices` states it for the part that runs.

### Findings

- **A blocked transport leaves the encoder paused** (`stream_blocked`).
  `sendFrame` returns early on `IsWriteBlocked` and posts no
  `updateBackpressure`; if it dropped the last queued frame, nobody resumes the
  encoder. The same return drops a raster frame with the damage it has
  accumulated, and drops H.264 frames that later ones refer to: with `CanBlock`
  set in `VideoStream_lossless.cfg`, TLC finds `DamageCovered` and
  `DeltaFollowsReference` violated. They have no runs of their own for that; that
  nothing is refused is an assumption of `DamageCorrect` and `DeltaCorrect`.
- **A size change forgets suspended acknowledgements** (`stream_suspended`).
  `destroySurface` resets `frameAcknowledgementSuspended`; the window fills with
  frames nobody acknowledges.
- **A re-advertisement races a frame** (`stream_readvertise`). A frame past its
  guards recreates the surface while the channel is being reset, and consumes
  the `pendingReset` that was meant for the next frame.
- **Quitting while a call is under way** (`connection_quit`). After `exec` has
  returned nobody answers a `BlockingQueuedConnection`, and the destructor
  joins the thread that waits in it.
- With `--monitor` or `--virtual-monitor` (`MonitorOverride`) the mode is
  looked at when a client leaves, but not when it comes: `OneController`,
  `UsableWhileConnected` and `SeatGivenUp` say nothing or fail there. There is
  no run for it.
- **The configured quality is not the upper bound** (`quality_bound`).
  `main.cpp:70` calls the quality of the command line the upper bound of the
  adaptive one. The bound is the greater of it and `MinAdaptiveQuality`
  (`VideoStream.cpp:838`), so a quality of 5 is exceeded once bandwidth is reported.
  `CapHoldsAboveMinimum` proves that this is the only way.

## The proofs

`tlapm` proves, for every value of the constants (any thresholds, windows,
sizes, numbers of clients and connections, qualities, names and cache sizes; the
bounds on counters are parameters too):

| theorem | states | assumes |
| --- | --- | --- |
| `TypeCorrect` | `TypeOK` of `VideoStream` | |
| `InFlightCorrect` | `InFlightBounded` | |
| `WindowDrainsCorrect` | `WindowDrains` | the client never suspends acknowledgements |
| `OnlyRefusalsStall` | `BackpressureCovered` | `sendFrame` refuses no frame (`[][~DropFrame]_vars`) |
| `BackpressureCorrect` | `BackpressureCovered` | the transport never blocks, the client advertises once |
| `SurfaceFitsCorrect` | `SurfaceFitsFrame` | |
| `ClosedCorrect` | `ClosedIsQuiet` | surface ids do not come round (`[]IdsLast`) |
| `NoIdIsReused` | `[]IdsLast` | fewer frames than half the ids |
| `DeltaCorrect` | `DeltaFollowsReference` | `[]IdsLast`; no frame is refused, fails or is suppressed, one advertisement (`Lossless`) |
| `DamageCorrect` | `DamageCovered` | the same, and the stream is not closed |
| `LeftLockedCorrect`, `UsableCorrect` | `LeftLocked`, `UsableWhileConnected`, which except a call that was refused | |
| `WrappersAreOfConnections` | `TypeOK` of `SessionController` | |
| `OneControllerCorrect`, `NewcomerCorrect` | `OneController`, `NewcomerStays` | |
| `OnlySignalsAreSeen` | `SessionController` implements `ConnectionSignals` | |
| `SeatAlwaysNoticed` | `SeatNoticed`, the safety part of `SeatGivenUp` | |
| `CapturesCorrect`, `HeldCorrect` | `CapturesWhenWanted`, `HeldKeysAreKnown` | |
| `SessionTypeCorrect` | `TypeOK` of `Session` | |
| `MessagesAreHandled`, `NoSessionHangs`, `ClosureShows` | `MessagesExpected`, `AnswerAwaited`, `CloseShows`, the safety parts of `SessionSettles` and `PortalCloseIsNoticed` | |
| `KeysEndWithTheSession` | `NoKeyLeftBehind`, the safety part of `KeysAreReleased` | |
| `CachesAgreeCorrect`, `ShownCorrect` | `CachesAgree`, `ShownIsCurrent` | |
| `CursorTypeCorrect`, `NewestAlwaysSurvives` | `TypeOK` of `Cursor` and that the indices in use are the first ones; an eviction spares the cursor that is shown | the cache has two entries (the second) |
| `CursorImplementsPointer` | `ImplementsPointer` | |
| `ConnectionTypeCorrect` | `TypeOK` of `RdpConnection` | |
| `PeerIsFreedSafely`, `NoThreadWaitsForItsJoiner`, `ClosedIsTheLastEvent` | `PeerFreedSafely`, `NoCircularWait`, `ClosedComesLast` | |
| `TransportHasOneOwner` | `OneTransportOwner` | |
| `LifeIsAsPromised`, `SignalsAsPromised` | `ConnectionLife` without its fairness, `ConnectionSignals` | |
| `NobodyWaitsInVain` | `Served`, the safety part of `StopDestroys` | |
| `EncoderAlwaysObeys`, `QualityTypeCorrect` | `EncoderObeys`, `QualityTypeOK` | |
| `CapHoldsAboveMinimum` | `CapIsUpperBound` | no configured quality is below `MinAdaptiveQuality`, which is at most 100 |
| `AdaptationConverges` | `Converges`: each adaptation nears its target, what `QualitySettles` rests on | |
| `WindowStaysInRange` | `WindowInRange` | |
| `AnswersFitCorrect`, `NetworkTypeCorrect` | `AnswersFitRequests`, `NetworkTypeOK` | |
| `MeasurementEnds` | `ResultsAwaited`, the safety part of `MeasuringGoesOn` | |
| `LoginsAreAlwaysKept`, `StatusIsAlwaysShown` | `LoginsAreKept`, `StatusIsShown` | |
| `LoginsTypeCorrect`, `StatusTypeCorrect` | `LoginsTypeOK`, `StatusTypeOK` | |
| `NothingEchoes` | `NoEcho` of `Clipboard` | |
| `ClipboardTypeCorrect`, `ClipboardsAgreeCorrect` | `ClipboardTypeOK`, `ClipboardsAgree` | |
| `NoCopyIsForgotten` | `AnnouncementComes`, the safety part of `CopyIsAnnounced` | |
| `NothingStaysStuck` | `NothingStuck` | |
| `WheelTurnsAsTold` | nine bits, two's complement, to the signs of both axes | |
| `ServicesTypeCorrect`, `ServicesCorrect` | `ServicesTypeOK`; the invariants of all parts together | |

The assumptions are those the findings show to be necessary; beside them the
proofs use only the named assumptions of the modules about their constants. The
one about surface ids is of another kind: `nextSurfaceId` has 16 bits, and a
surface with the id 0 would count as none and never be destroyed. Its theorems
speak of streams that have not come that far, and `NoIdIsReused` says which
these are: a frame in hand asks for two surfaces at most, and no frame is taken
twice (`IdsInv`).

*The window.* `InFlightBounded` alone is not inductive: the window is read in
one step, and the id inserted five steps later. The invariant adds that from
the moment the capacity was found until the insertion there are fewer ids than
`MaxWindow`, whatever happens to `maxInFlight` meanwhile, and that the set of
ids is finite. Only the submission thread inserts, so the count can only fall
in between.

*Draining.* `DrainInv` adds to `WindowDrains` and the types that the client is
not suspending, which no step changes under the assumption.

*Back-pressure.* `CloseInv` says what is the case while a stream is closed;
`PauseInv` that only an H.264 encoder is ever paused, and that a queue shorter than
the count the main thread has read means a post that is pending or about to be made,
or a stop request. A paused encoder with a short queue got there because the
submission thread took a frame, and that frame ends in a post unless it is refused; or
because the main thread put a key frame in place of the others, and then it goes on
to count. So refusals are the only steps that break it, which `OnlyRefusalsStall`
says for clients that advertise again as well: `stream_blocked` shows such a
refusal. That none happens is `NoneIsRefused`: with one advertisement
(`NegotiationInv`, where its mode is settled) nothing is sent before the client's
capabilities are confirmed, and a frame is refused only because of these or of a
transport that blocks.

*The surface.* `SurfaceInv`: the end of a reset leaves either no surface or one of
the frame's size, and what the run thread does between that and `submit` only takes
it away. *The close.* `QuietInv` goes with `CloseInv`: a surface without an id is
none at all, so that what the submission thread leaves behind when it is joined is
what `closeDestroy` finds.

*No gap.* Under `Lossless`, `PassInv` says that the mode is chosen before anything
is produced, that what waits and what is in hand is of that mode (`OfMode`), and that
a frame in hand finds its surface and is submitted (`DrawnInv`). `ChainInv` adds the
numbers: those in the queue run up to the newest frame, and the first one follows the
frame in hand, or the reference when there is none, unless it is a key frame; for
`queueFrame` empties the queue for nothing less. *The damage*: `DamageInv` adds to
`DamageCovered` that the frame that waits is the newest produced and as large as the
source (`OneWaits`), and that a frame of another size than the one drawn before it is
damaged all over (`WholeOnResize`), so that it repaints the new surface.

*The lock.* `LockInv` speaks of the last call under way, and of the state of the desktop
when there is none: with no wrapper it is `Lock` (or the desktop was never unlocked for
a client), with one it is `Unlock`. A refused call counts as the last one too, and is
remembered in `unheeded`.

*The take-over.* `ControlInv`: queued events are of connections that are still there,
and `Closed` is the last of each (`EventsInv`); wrappers are of such connections. So a
connection that activates once more while another has taken over meets its own stop
request, and its newest wrapper is the last of the list again. `Without` keeps the order
of the others, which is what `OneController` needs of it. *The seat.* What `SeatGivenUp`
rests on needs no fairness: `SeatNoticed` says that a session at the seat with clients
that have control is never left at that. A login queues its signal behind the older
ones, or is in `unheeded`; a call for the greeter takes effect, is refused or is still
under way; and the wrappers of the others have a stop request, which nobody takes back.

*The capture.* `CaptureInv` adds to `CapturesWhenWanted` that `streamingEnabled`
is what the wrapper made of `enabled` when it last looked, that a started
session has its node, and that an encoder does what `streamingEnabled` says.

*The keys.* `HeldInv` adds that keys are held only on the keyboard krdp uses,
which the server still has, and that a keyboard whose removal is on its way is
no longer among the server's: so a release never goes to another keyboard than
the press did. They are held only while the wrapper is there, so that none outlives
its session (`NoKeyLeftBehind`).

*The answers.* A session goes on by what it is sent, so it must never wait for
nothing. `AnswerInv`: as long as the connection runs, one of the portal is in its
chain of requests, or else has what each of the two calls gives, or the call, or its
answer, is under way (`AnswerAwaited`); an answer is only there for a request that is
waited for, and there is one at most (`MessagesExpected`, `OneResponse`); the
input server's connection that krdp has or is being given is up, or its end is among
the events (`EisLossIsTold`). Every step that takes one of these away puts the next in
its place or stops the connection. Until the node is there nobody listens for the
`Closed` signal; `ClosureShows` follows from the three: there is always a request, a
call, a refusal or the input server's connection by which a closed session shows.

*The caches.* `CursorInv` is `CachesAgree` and `ShownIsCurrent` together with
the shape of the caches: the indices in use are indices of the cache, the
default pointer goes with `lastCursor` of -1, and a cursor that is shown is in
use. Which entry is evicted plays no part in it, and has an invariant of its own,
`OrderInv`: the indices in use are the first ones, and none was used after the one that
is shown. The step of `Pointer` that each of the four actions implements follows from
`CursorInv`.

*The connection.* None of the three invariants is inductive. `IInv` says of
each event in the queue where the thread is that posted it (`EventInv`: a
blocking call means a blocked thread, `Closed` a thread that is returning or has
ended), that there is at most one of those (`OnceInv`), what the steps of a
run thread say about peer, clipboard thread and stop token (`ThreadInv`), whom
the server and the main thread hold (`MainInv`, `HeldInv`), and
`ClosedComesLast`. A destructor starts by handling `Closed`, which is the last
event; so the run thread has no call in the queue, and is not blocked.

*Its life.* That every step of the threads is one of `ConnectionLife` or none needs
`LifeInv` besides: while the event loop runs, what the server holds is not freed and
has the wrappers. Each step changes the life of one connection, by what the main
thread does; what a run or clipboard thread does changes none. The last condition,
fairness, is TLC's.

*Its signals.* `SignalsIn` of the queue is the queue of `ConnectionSignals`: posting a
signal appends to both, posting a call only to one, and removing the events of a
connection takes away none of them, since `Closed` was the last (`ClosedComesLast`).
`SignalInv` relates `State` and the activations to the step of the run thread.
*Nobody in vain.* `Served`: while the event loop runs, whoever waits for the main
thread has its event in the queue. An event is taken by the step that serves it, a
`Closed` that is handled takes away only events of a thread that is not blocked, and
whether the client activates again or not changes none of the others.

*The quality.* `QualityInv` says of `quality` what `EncoderObeys` says of the encoder,
also while there is none, so that a new encoder starts right; and that a reading is only
under way while the quality adapts. `CapInv` says what the cap can be, that of a new
stream or a configured one; where neither is below the minimum the ceiling is the cap,
and `QualityInv` has no quality above the ceiling. `Closer` says where one adaptation
may go, by cases of the two readings: between the quality and the target, the target
included, or, on a congested network, between the quality and the minimum; the lemma
about `NextQuality` is arithmetic for any step sizes. *The window*: `WindowInv` adds
that both round trip estimates are known or neither is.

*The numbers.* Numbers are used in turn, on a circle without 0, by requests and by
reports of a measurement. `NetworkInv` counts the requests `p` and the reports `q` since
each request that is open or unanswered, and bounds both by its age: requests
are `RttInterval` apart, reports `ResultInterval`. An open request stops counting its age
at `MaxDelay`, and then it is the age of the last request, of one that is not answered,
or the measurement itself that bounds the reports. With the two assumptions the count
stays below the circle, so that the number of a new request is neither open nor one
whose answer may still come. `NetworkTypeOK` follows: open requests have different
counts, of which there are `RequestMaxAge \div RttInterval + 1`. For a client that answers,
a measurement that has stopped has one report on its way, and no other has any
(`ResultsAwaited`): none stays pending for ever, which would be the last.

*Users.* `LoginsInv` says of each name that the last job in the queue is the one
with what was entered last (`Fits`), or, without a job, that the keychain has it
already, of the names that were refused nothing. Putting a job behind the others
makes it the last of its name, doing the oldest one makes it the keychain's. *The
status.* `StatusInv`: somebody has yet to be asked, or the last reply under way
is that of the unit as it is.

*The parts together.* `ServicesSpec` takes the steps of one part. `StepOfParts`: such a
step is a step of that part and none of the others, so that the specification of each
part follows (`PartsAsAlone`), and with it every theorem about it; none is proved twice.

*The clipboard.* `EchoInv` adds that a copy whose owner is an application is one
of the desktop: krdp looks at the owner when it handles the change, not when it
happened. For one user, `AgreeInv` says which side has copied last and where that
copy is. The desktop (`DesktopLast`): the change is to be looked at, or it is kept for
the client, and its announcement is posted, on the channel, done, or waits for the
handshake. The client (`ClientLast`): the text is on its way as a list, a request or an
answer, or has arrived, and nothing older follows it. `SetUpInv` is what
the order of the handshake gives: the channel is empty before it, and what makes the
client ready is on its way afterwards. With any number of users `AnnounceInv` holds
besides: what an application has copied is kept for the client or about to be looked
at, and what is kept is about to be sent, waits for the handshake, or is the newest list
on the channel, or the last the client was told of when there is none there.

*The devices.* `StuckInv` adds that what is down is down on the device
a release would be sent to, which the server still has. The lemmas about
`FirstWithButtons` show that neither a device that comes last nor another that
goes changes it.

*Loops.* `Without` and `KeyboardAfterAll` walk through a sequence and are written as
recursive functions. The induction theorems of the library take an operator, which
the provers cannot instantiate; module `Induction` has what is needed without one:
a nonempty set of numbers has a smallest member (from their well-foundedness), so a set
that has 0 and the successor of each member up to `n` is `0..n`, and a function on `0..n`
that is given by its first value and a step exists.

Model-checked only: all liveness properties, and with them the fairness of
`ConnectionLife`, for the prover has no `ENABLED`. Of those of `RdpConnection`,
`SessionController`, `Session`, `VideoStream`, `Clipboard` and `NetworkDetection` the
part that is safety is proved, namely that what they wait for is always under way:
`Served`, `SeatNoticed`, `AnswerAwaited` and `CloseShows` (and `NoKeyLeftBehind`, that
the end of a session suffices), `BackpressureCovered`, `AnnouncementComes`,
`ResultsAwaited`; and of `AdaptiveQuality` that each adaptation makes progress,
`Converges`. TLC shows that it arrives, as long as there are reports. The properties of
the five runs that expect a violation are false. Of `CapIsUpperBound` a theorem says
where it holds, `CapHoldsAboveMinimum`.

## Not modelled

- Authentication (PAM, TLS and the generation of certificates), which decides
  only whether a client activates.
- Display control: a monitor layout is stored on a thread of FreeRDP without a
  lock and read by the main thread; the size it asks for is an arbitrary size of
  a frame in `VideoStream`.
- The pixels: codecs, the probe for H.264, progressive encoding, masks of
  cursors. Positions of the pointer and regions of its devices.
- The restore token, autostart and the permission of the portal, the dialogs of
  the settings module and its translations, and the example streamer.
- What FreeRDP, Qt, PipeWire, KWin, logind, systemd, the keychain and the display
  manager do inside a call.

## What is left

1. *Two activations*: two wrappers of one connection over one stream. The controller has
   them and `Session` has one.
2. *Surface ids*: what a stream does that has come round to the id 0. The theorems about
   surfaces leave it out and `NoIdIsReused` says how far they reach.
3. *Display control*: sizes of the client beside those of the source.
4. *One system*: `VideoStream` is a stream of one connection and `Session` its session;
   each has its own picture of the connection they belong to. `ConnectionSignals` joins
   connections and controller; what the others assume of a connection is written down in
   their fairness only.
