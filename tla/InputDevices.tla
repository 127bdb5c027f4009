----------------------------- MODULE InputDevices -----------------------------
(***************************************************************************)
(* The buttons and the characters of one client on the devices of the      *)
(* input server (src/src/InputHandler.cpp, src/src/EiConnection.cpp),      *)
(* beside the keys of Session: buttons go to the first of many pointer     *)
(* devices, characters to the one text device, and krdp does not keep what *)
(* is down. Devices come and go while something is held on them.           *)
(***************************************************************************)
EXTENDS Integers, Sequences, SequencesExt

CONSTANTS
    InputDevs, NoDev,   \* devices of the input server
    Capabilities,       \* of each of them, among "pointer", "button" and "text"
    Buttons, Characters,
    MaxDeviceEvents     \* bound: events the input server has queued

ASSUME DevicesAssumption ==
    /\ NoDev \notin InputDevs /\ Buttons \intersect Characters = {}
    /\ Capabilities \in [InputDevs -> SUBSET {"pointer", "button", "text"}]
    /\ MaxDeviceEvents \in Nat

VARIABLES
    pointerDevices,     \* m_pointerDevices, in the order they came
    textDevice,         \* m_textDevice
    emulating,          \* the session has started and has its connection
    (* outside *)
    clientDown,         \* what the client holds
    serverDevices,      \* devices the server has
    deviceEvents,       \* sent and not read yet
    serverDown          \* what is down, on the device it was pressed on

krdpVars   == <<pointerDevices, textDevice, emulating>>
eisVars == <<serverDevices, deviceEvents, serverDown>>
inputVars  == <<krdpVars, clientDown, eisVars>>

Inputs == Buttons \union Characters
DeviceEvents == [what : {"Added", "Removed"}, device : InputDevs]

InputInit ==
    /\ pointerDevices = <<>> /\ textDevice = NoDev /\ emulating = FALSE
    /\ clientDown = {} /\ serverDevices = {} /\ deviceEvents = <<>> /\ serverDown = {}

-----------------------------------------------------------------------------
(* krdp, on the main thread *)

Has(d, capability) == capability \in Capabilities[d]

\* i is the first pointer device with buttons.
IsFirstWithButtons(devices, i) ==
    /\ i \in DOMAIN devices /\ Has(devices[i], "button")
    /\ \A j \in 1..i - 1 : ~Has(devices[j], "button")

FirstWithButtons(devices) ==
    IF \E i \in DOMAIN devices : IsFirstWithButtons(devices, i)
    THEN devices[CHOOSE i \in DOMAIN devices : IsFirstWithButtons(devices, i)]
    ELSE NoDev

\* Where the press and the release of an input are sent.
DeviceOf(x) == IF x \in Buttons THEN FirstWithButtons(pointerDevices) ELSE textDevice

\* A button or a character of the client goes down or up. One that is sent to a device
\* the server does not have any more is lost.
InputEvent(isPress, x) ==
    /\ clientDown' = IF isPress THEN clientDown \union {x} ELSE clientDown \ {x}
    /\ serverDown' = IF ~emulating \/ DeviceOf(x) \notin serverDevices THEN serverDown
                     ELSE IF isPress THEN serverDown \union {<<DeviceOf(x), x>>}
                     ELSE serverDown \ {<<DeviceOf(x), x>>}
    /\ UNCHANGED <<krdpVars, serverDevices, deviceEvents>>

\* Mutant of WithPointer: the newest device comes first.
NewestFirst(devices, d) == <<d>> \o devices

WithPointer(devices, d) == Append(devices, d)

OnDeviceAdded(d) ==
    /\ pointerDevices' = IF Has(d, "pointer") THEN WithPointer(pointerDevices, d) ELSE pointerDevices
    /\ textDevice' = IF textDevice = NoDev /\ Has(d, "text") THEN d ELSE textDevice

EraseDevice(devices, d) ==
    IF \E i \in DOMAIN devices : devices[i] = d
    THEN RemoveAt(devices, CHOOSE i \in DOMAIN devices : devices[i] = d) ELSE devices

OnDeviceRemoved(d) ==
    /\ pointerDevices' = EraseDevice(pointerDevices, d)
    /\ textDevice' = IF textDevice = d THEN NoDev ELSE textDevice

\* One event of the input server, as far as they have come.
ProcessDeviceEvent ==
    /\ deviceEvents # <<>> /\ deviceEvents' = Tail(deviceEvents)
    /\ LET e == Head(deviceEvents)
       IN  IF e.what = "Added" THEN OnDeviceAdded(e.device) ELSE OnDeviceRemoved(e.device)
    /\ UNCHANGED <<emulating, clientDown, serverDevices, serverDown>>

\* Until then whatever the client does is dropped.
SessionStarts ==
    /\ ~emulating /\ emulating' = TRUE
    /\ UNCHANGED <<pointerDevices, textDevice, clientDown, eisVars>>

-----------------------------------------------------------------------------
(* The input server *)

AddDevice(d) ==
    /\ Len(deviceEvents) < MaxDeviceEvents
    /\ d \notin serverDevices /\ \A i \in DOMAIN deviceEvents : deviceEvents[i].device # d
    /\ serverDevices' = serverDevices \union {d}
    /\ deviceEvents' = Append(deviceEvents, [what |-> "Added", device |-> d])
    /\ UNCHANGED <<krdpVars, clientDown, serverDown>>

\* Whatever is down on a device that is removed is up.
RemoveDevice(d) ==
    /\ Len(deviceEvents) < MaxDeviceEvents
    /\ d \in serverDevices
    /\ serverDevices' = serverDevices \ {d}
    /\ serverDown' = {p \in serverDown : p[1] # d}
    /\ deviceEvents' = Append(deviceEvents, [what |-> "Removed", device |-> d])
    /\ UNCHANGED <<krdpVars, clientDown>>

-----------------------------------------------------------------------------
InputNext ==
    \/ \E isPress \in BOOLEAN, x \in Inputs : InputEvent(isPress, x)
    \/ ProcessDeviceEvent \/ SessionStarts
    \/ \E d \in InputDevs : AddDevice(d) \/ RemoveDevice(d)

InputSpec == InputInit /\ [][InputNext]_inputVars

-----------------------------------------------------------------------------
(* The wheel *)

\* Nine bits: how far it is turned, and of which sign. A positive one turns it up, and
\* Qt's and the input server's positive is down; across, the sign is kept.
WheelMask     == 511
WheelNegative == 256

WheelAxis(bits) ==
    LET rotation == bits % (WheelMask + 1)
    IN  IF rotation >= WheelNegative THEN (WheelMask - rotation) + 1 ELSE -rotation

ScrollDown(bits)   == WheelAxis(bits)
ScrollRight(bits)  == -WheelAxis(bits)

-----------------------------------------------------------------------------
(* Properties *)

\* Every variable stays in its range.
InputTypeOK ==
    /\ pointerDevices \in Seq(InputDevs) /\ textDevice \in InputDevs \union {NoDev}
    /\ emulating \in BOOLEAN
    /\ clientDown \subseteq Inputs /\ serverDevices \subseteq InputDevs
    /\ deviceEvents \in Seq(DeviceEvents) /\ serverDown \subseteq InputDevs \X Inputs

\* What is down at the input server is held by the client: a release goes to the device
\* that had the press, whatever devices came and went in between, although nobody has
\* written down which one that was.
NothingStuck == \A p \in serverDown : p[2] \in clientDown
=============================================================================
