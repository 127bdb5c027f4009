------------------------------- MODULE Clipboard -------------------------------
(***************************************************************************)
(* The clipboard of one connection (src/src/Clipboard.cpp) between that of *)
(* the desktop (src/src/AbstractSession.cpp) and that of the client. Its   *)
(* thread waits for the main thread to handle each message of the client;  *)
(* the run thread starts and stops it; copies are announced by calls the   *)
(* main thread posts to itself, which every state the announcement depends *)
(* on may change before they are delivered.                                *)
(***************************************************************************)
EXTENDS Integers, Sequences

CONSTANTS
    MaxCopies,      \* bound: copies on each side
    NonText,        \* which of them are not text
    TextFormats     \* how many text formats a client names for one text

ASSUME ClipboardAssumption ==
    MaxCopies \in Nat /\ NonText \subseteq 1..MaxCopies /\ TextFormats \in Nat \ {0}

\* A copy is who made it and the how-manieth of that side it is.
Copies == {"desktop", "client"} \X (1..MaxCopies)
NoCopy == <<"nobody", 0>>
IsText(copy) == copy # NoCopy /\ copy[2] \notin NonText

VARIABLES
    clipStep,       \* the run thread: "none", "started", "open", "stopping", "closed",
                    \* or "failed" to stop
    clientReady, serverData,
    calling,        \* the message the clipboard thread waits with, or Idle
    clipEvents,     \* of the main thread: "changed", "send" and "call"
    toServer, toClient,     \* the channel
    desktop,        \* the clipboard of the desktop: what is in it, and who owns it
    handshake,      \* the client has answered the server's capabilities
    clientClip,     \* the clipboard of the client
    announced,      \* the number of the last copy that client was told of
    copied,         \* copies made so far by each side
    mayCross        \* both sides may copy at the same time; never changes

serverVars == <<clipStep, clientReady, serverData>>
channelVars == <<toServer, toClient>>
clientVars == <<handshake, clientClip, announced>>
clipboardVars == <<serverVars, calling, clipEvents, channelVars, desktop, clientVars,
                   copied, mayCross>>

Idle == [type |-> "idle"]

\* The client may have something in its clipboard when it connects: it copies
\* before the handshake. What the desktop has copied before is not seen.
ClipboardInit ==
    /\ clipStep = "none" /\ clientReady = FALSE /\ serverData = NoCopy
    /\ calling = Idle /\ clipEvents = <<>> /\ toServer = <<>> /\ toClient = <<>>
    /\ desktop = [copy |-> NoCopy, owner |-> "nobody"]
    /\ handshake = FALSE /\ clientClip = [copy |-> NoCopy, owner |-> "client"]
    /\ announced = 0 /\ copied = [s \in {"desktop", "client"} |-> 0]
    /\ mayCross \in BOOLEAN

enabled == clipStep \in {"open", "stopping", "failed"}
ThreadRuns == clipStep \in {"started", "open"}

-----------------------------------------------------------------------------
(* The run thread *)

\* initialize: Start creates the thread and begins the handshake, ...
StartClipboard ==
    /\ clipStep = "none"
    /\ clipStep' = "started"
    /\ UNCHANGED <<clientReady, serverData, calling, clipEvents, channelVars, desktop,
                   clientVars, copied, mayCross>>

\* Mutant of EnableClipboard: what was copied meanwhile is not looked at again.
EnableWithoutFlush ==
    /\ clipStep = "started"
    /\ clipStep' = "open"
    /\ UNCHANGED <<clientReady, serverData, calling, clipEvents, channelVars, desktop,
                   clientVars, copied, mayCross>>

\* ... and only afterwards may anything be announced.
EnableClipboard ==
    /\ clipStep = "started"
    /\ clipStep' = "open"
    /\ clipEvents' = Append(clipEvents, "send")
    /\ UNCHANGED <<clientReady, serverData, calling, channelVars, desktop, clientVars,
                   copied, mayCross>>

\* close: Stop joins the thread, which must not wait for the main thread then; a
\* clipboard that was never started, or failed to, is closed at once. One that
\* cannot be stopped stays enabled.
CloseClipboard ==
    /\ \/ clipStep = "none" /\ clipStep' = "closed"
       \/ clipStep = "open" /\ calling = Idle /\ clipStep' = "stopping"
       \/ clipStep = "stopping" /\ clipStep' \in {"closed", "failed"}
    /\ UNCHANGED <<clientReady, serverData, calling, clipEvents, channelVars, desktop,
                   clientVars, copied, mayCross>>

-----------------------------------------------------------------------------
(* The clipboard thread *)

\* processInMainThread, with the next message of the client.
CallMainThread ==
    /\ ThreadRuns /\ calling = Idle /\ toServer # <<>>
    /\ calling' = Head(toServer) /\ toServer' = Tail(toServer)
    /\ clipEvents' = Append(clipEvents, "call")
    /\ UNCHANGED <<serverVars, toClient, desktop, clientVars, copied, mayCross>>

-----------------------------------------------------------------------------
(* The main thread *)

NextEvent(e) == clipEvents # <<>> /\ Head(clipEvents) = e
Called(type) == NextEvent("call") /\ calling.type = type /\ calling' = Idle

\* Clipboard::setServerData.
PutServerData(copy) == serverData' = copy /\ clipEvents' = Append(Tail(clipEvents), "send")

\* KSystemClipboard::changed: the copy that is there now, if there is one and krdp did
\* not put it there. One that is not text has none.
OnClipboardChanged ==
    /\ NextEvent("changed")
    /\ IF desktop.owner \in {"krdp", "nobody"}
       THEN clipEvents' = Tail(clipEvents) /\ UNCHANGED serverData
       ELSE PutServerData(desktop.copy)
    /\ UNCHANGED <<clipStep, clientReady, calling, channelVars, desktop, clientVars, copied,
                   mayCross>>

\* sendServerData: a channel that is being stopped, or could not be, may lose the
\* list.
SendServerData ==
    /\ NextEvent("send")
    /\ clipEvents' = Tail(clipEvents)
    /\ \/ /\ serverData # NoCopy /\ enabled /\ clientReady
          /\ toClient' = Append(toClient, [type |-> "list", copy |-> serverData])
       \/ /\ ~(serverData # NoCopy /\ clipStep = "open" /\ clientReady)
          /\ UNCHANGED toClient
    /\ UNCHANGED <<serverVars, calling, toServer, desktop, clientVars, copied, mayCross>>

\* Mutant of MarkClientReady: a copy that has waited for the client goes on waiting.
MarkOnly == clientReady' = TRUE /\ clipEvents' = Tail(clipEvents)

MarkClientReady ==
    /\ clientReady' = TRUE
    /\ clipEvents' = IF clientReady THEN Tail(clipEvents) ELSE Append(Tail(clipEvents), "send")

OnClientCapabilities ==
    /\ Called("capabilities")
    /\ MarkClientReady
    /\ UNCHANGED <<clipStep, serverData, channelVars, desktop, clientVars, copied, mayCross>>

\* Every text format the client names is asked for; the answer to the list itself
\* changes nothing at the client.
OnClientFormatList ==
    /\ Called("list")
    /\ MarkClientReady
    /\ toClient' = IF IsText(calling.copy)
                   THEN toClient \o [i \in 1..TextFormats |-> [type |-> "request"]]
                   ELSE toClient
    /\ UNCHANGED <<clipStep, serverData, toServer, desktop, clientVars, copied, mayCross>>

\* setClipboardData: without data the clipboard is cleared.
SetClipboardData(copy) ==
    desktop' = [copy |-> copy, owner |-> IF copy = NoCopy THEN "nobody" ELSE "krdp"]

\* clientDataChanged, and getClipboard, which takes the data away. A refusal changes
\* nothing.
OnClientFormatDataResponse ==
    /\ Called("data")
    /\ IF calling.ok
       THEN /\ SetClipboardData(calling.copy)
            /\ clipEvents' = Append(Tail(clipEvents), "changed")
       ELSE clipEvents' = Tail(clipEvents) /\ UNCHANGED desktop
    /\ UNCHANGED <<serverVars, channelVars, clientVars, copied, mayCross>>

\* onClientFormatDataRequest: what a client gets that pastes; NoCopy is a refusal.
PasteResult == serverData

-----------------------------------------------------------------------------
(* The desktop and the client *)

Settled == clipEvents = <<>> /\ calling = Idle /\ toServer = <<>> /\ toClient = <<>>

\* A side may copy when the other one's copies have arrived, or have never been,
\* unless both copy as they like.
MayCopy(side, other) ==
    /\ copied[side] < MaxCopies
    /\ mayCross \/ copied[other] = 0 \/ (Settled /\ handshake /\ clipStep = "open")

\* An application copies, while the session exists.
DesktopCopies ==
    /\ MayCopy("desktop", "client")
    /\ copied' = [copied EXCEPT !["desktop"] = @ + 1]
    /\ desktop' = [copy |-> <<"desktop", copied'["desktop"]>>, owner |-> "application"]
    /\ clipEvents' = Append(clipEvents, "changed")
    /\ UNCHANGED <<serverVars, calling, channelVars, clientVars, mayCross>>

List == [type |-> "list", copy |-> clientClip.copy]

\* A client answers the server's capabilities with its own, and with a list if it
\* has something; some begin with the list.
ClientAnswers ==
    /\ clipStep # "none" /\ ~handshake
    /\ handshake' = TRUE
    /\ \/ toServer' = <<[type |-> "capabilities"]>>
                        \o (IF clientClip.copy = NoCopy THEN <<>> ELSE <<List>>)
       \/ clientClip.copy # NoCopy /\ toServer' = <<List>>
    /\ UNCHANGED <<serverVars, calling, clipEvents, toClient, desktop, clientClip, announced,
                   copied, mayCross>>

ClientCopies ==
    /\ MayCopy("client", "desktop")
    /\ copied' = [copied EXCEPT !["client"] = @ + 1]
    /\ clientClip' = [copy |-> <<"client", copied'["client"]>>, owner |-> "client"]
    /\ toServer' = IF handshake THEN Append(toServer, List') ELSE toServer
    /\ UNCHANGED <<serverVars, calling, clipEvents, toClient, desktop, handshake, announced,
                   mayCross>>

\* A list takes the place of what the client had; before the handshake it is dropped.
ClientReceivesList ==
    /\ toClient # <<>> /\ Head(toClient).type = "list"
    /\ toClient' = Tail(toClient)
    /\ IF handshake
       THEN /\ clientClip' = [copy |-> NoCopy, owner |-> "server"]
            /\ announced' = Head(toClient).copy[2]
       ELSE UNCHANGED <<clientClip, announced>>
    /\ UNCHANGED <<serverVars, calling, clipEvents, toServer, desktop, handshake, copied,
                   mayCross>>

\* A client that has no text any more refuses, or sends an empty one.
Answers ==
    IF IsText(clientClip.copy) THEN {[type |-> "data", ok |-> TRUE, copy |-> clientClip.copy]}
    ELSE [type : {"data"}, ok : BOOLEAN, copy : {NoCopy}]

ClientReceivesRequest ==
    /\ toClient # <<>> /\ Head(toClient).type = "request"
    /\ toClient' = Tail(toClient)
    /\ \E answer \in Answers : toServer' = Append(toServer, answer)
    /\ UNCHANGED <<serverVars, calling, clipEvents, desktop, clientVars, copied, mayCross>>

-----------------------------------------------------------------------------
MainThread ==
    \/ OnClipboardChanged \/ SendServerData \/ OnClientCapabilities \/ OnClientFormatList
    \/ OnClientFormatDataResponse

Client == ClientReceivesList \/ ClientReceivesRequest

ClipboardNext ==
    \/ StartClipboard \/ EnableClipboard \/ CloseClipboard \/ CallMainThread \/ MainThread
    \/ DesktopCopies \/ ClientAnswers \/ ClientCopies \/ Client

\* The event loop delivers, the thread is scheduled while it runs, the client reads.
ClipboardFairness ==
    /\ WF_clipboardVars(MainThread)
    /\ WF_clipboardVars(CallMainThread)
    /\ WF_clipboardVars(Client)

ClipboardSpec == ClipboardInit /\ [][ClipboardNext]_clipboardVars /\ ClipboardFairness
-----------------------------------------------------------------------------
(* Properties *)

Messages ==
    [type : {"idle", "capabilities", "request"}] \union [type : {"list"}, copy : Copies]
    \union [type : {"data"}, ok : BOOLEAN, copy : Copies \union {NoCopy}]

\* Every variable stays in its range.
ClipboardTypeOK ==
    /\ clipStep \in {"none", "started", "open", "stopping", "closed", "failed"}
    /\ clientReady \in BOOLEAN /\ serverData \in Copies \union {NoCopy} /\ calling \in Messages
    /\ clipEvents \in Seq({"changed", "send", "call"})
    /\ toServer \in Seq(Messages) /\ toClient \in Seq(Messages)
    /\ desktop \in [copy : Copies \union {NoCopy}, owner : {"nobody", "krdp", "application"}]
    /\ handshake \in BOOLEAN
    /\ clientClip \in [copy : Copies \union {NoCopy}, owner : {"client", "server"}]
    /\ announced \in 0..MaxCopies /\ copied \in [{"desktop", "client"} -> 0..MaxCopies]
    /\ mayCross \in BOOLEAN

\* With one user, who copies on one side after the other, both sides have the same
\* text whenever nothing is under way, whatever the moment of a copy in the set-up of
\* the channel; what is not text stays with the client that copied it.
ClientSees == IF clientClip.owner = "client" THEN clientClip.copy ELSE PasteResult
ClipboardsAgree ==
    clipStep = "open" /\ handshake /\ Settled /\ ~mayCross =>
        \/ ClientSees = desktop.copy
        \/ clientClip.owner = "client" /\ clientClip.copy # NoCopy /\ ~IsText(clientClip.copy)

\* What a client has copied is never announced to it as a copy of the desktop.
NoEcho == serverData[1] # "client"

\* A client that has completed its handshake hears of each copy of the desktop, or of
\* a later one, also of those made before; the copies of both sides may cross.
CopyIsAnnounced ==
    \A n \in 1..MaxCopies :
        (serverData = <<"desktop", n>> /\ handshake /\ clipStep = "open")
            ~> (announced >= n \/ clipStep \in {"stopping", "closed", "failed"})
=============================================================================
