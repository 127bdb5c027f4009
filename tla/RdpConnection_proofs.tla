------------------------- MODULE RdpConnection_proofs -------------------------
(***************************************************************************)
(* Proofs about RdpConnection: that a connection is freed when none of its *)
(* threads is left, and that the main thread never joins a thread that     *)
(* waits for it. Both rest on what is in the queue of the event loop: an   *)
(* event says where the thread that posted it is.                          *)
(***************************************************************************)
EXTENDS RdpConnection, Induction, TLAPS

Event == [conn : Conns, what : Requests]

-----------------------------------------------------------------------------
(* The queue *)

\* What is left after the oldest event has been delivered.
LEMMA TailOfEvents ==
  ASSUME NEW s \in Seq(Event), s # <<>>
  PROVE  /\ Tail(s) \in Seq(Event)
         /\ Head(s) = s[1] /\ 1 \in DOMAIN s
         /\ \A i \in DOMAIN Tail(s) : i + 1 \in DOMAIN s /\ Tail(s)[i] = s[i + 1] /\ i \in Nat
  OBVIOUS

\* A posted event is the last one.
LEMMA AppendToEvents ==
  ASSUME NEW s \in Seq(Event), NEW e \in Event
  PROVE  /\ Append(s, e) \in Seq(Event)
         /\ \A i \in DOMAIN Append(s, e) :
               \/ i \in DOMAIN s /\ Append(s, e)[i] = s[i] /\ i # Len(s) + 1 /\ i < Len(s) + 1
               \/ i = Len(s) + 1 /\ Append(s, e)[i] = e
  OBVIOUS

LEMMA PostedType ==
  ASSUME TypeOK, NEW c \in Conns, NEW what \in Requests, Post(c, what)
  PROVE  events' \in Seq(Event)
<1>1. [conn |-> c, what |-> what] \in Event /\ events \in Seq(Event)
  BY DEF Event, TypeOK
<1> QED  BY <1>1, AppendToEvents DEF Post

LEMMA DeliveredType ==
  ASSUME TypeOK, NEW c \in Conns, NEW what \in Requests, Posted(c, what), events' = Tail(events)
  PROVE  events' \in Seq(Event)
  BY TailOfEvents DEF Posted, TypeOK, Event

LEMMA RemovedType ==
  ASSUME TypeOK, NEW c \in Conns, RemoveEvents(c)
  PROVE  events' \in Seq(Event) /\ DOMAIN events' = DOMAIN events
<1>1. events \in Seq(Event) /\ DOMAIN events = 1..Len(events) /\ Len(events) \in Nat
  BY DEF TypeOK, Event
<1>2. \A i \in 1..Len(events) : events[i] \in Event
  BY <1>1
<1>3. [conn |-> c, what |-> "removed"] \in Event
  BY DEF Event, Requests
<1>4. events' \in [1..Len(events) -> Event]
  BY <1>1, <1>2, <1>3 DEF RemoveEvents
<1> QED  BY <1>1, <1>4

-----------------------------------------------------------------------------
(* Types *)

LEMMA TypeOKInit == Init => TypeOK
<1> SUFFICES ASSUME Init PROVE TypeOK
  OBVIOUS
<1>1. <<>> \in Seq([conn : Conns, what : Requests])
  OBVIOUS
<1>2. 0 \in 0..MaxCalls /\ 0 \in 0..MaxActivations
  BY BoundsAssumption
<1>3. calls \in [Conns -> 0..MaxCalls] /\ activations \in [Conns -> 0..MaxActivations]
  BY <1>2 DEF Init
<1>4. stop = stopEvent /\ (mainStep = "join" <=> joining # Nobody)
  BY DEF Init
<1>5. /\ state \in [Conns -> States] /\ runStep \in [Conns -> RunSteps]
      /\ clip \in [Conns -> {"off", "idle", "blocked"}]
      /\ stop \in [Conns -> BOOLEAN] /\ stopEvent \in [Conns -> BOOLEAN]
      /\ peer \in [Conns -> {"none", "open", "closed", "freed"}]
  BY DEF Init, States, RunSteps
<1> QED  BY <1>1, <1>3, <1>4, <1>5 DEF Init, TypeOK

LEMMA TypeOKStop ==
  ASSUME TypeOK, NEW c \in Conns, RequestStop(c)
  PROVE  stop' \in [Conns -> BOOLEAN] /\ stopEvent' \in [Conns -> BOOLEAN] /\ stop' = stopEvent'
  BY DEF TypeOK, RequestStop

LEMMA TypeOKDeliver ==
  ASSUME TypeOK, NEW c \in Conns,
         Initialize(c) \/ Activated(c) \/ AnswerCall(c) \/ AnswerClipboard(c) \/ StreamClosed(c)
         \/ Closed(c)
  PROVE  TypeOK'
<1>1. events' \in Seq(Event)
  BY DeliveredType DEF Initialize, Activated, AnswerCall, AnswerClipboard, StreamClosed, Closed, Requests
<1>2. CASE Initialize(c)
  <2>1. state' \in [Conns -> States] /\ runStep' \in [Conns -> RunSteps]
    BY <1>2 DEF TypeOK, Initialize, States, RunSteps
  <2>2. peer' \in [Conns -> {"none", "open", "closed", "freed"}]
    BY <1>2 DEF TypeOK, Initialize
  <2>3. UNCHANGED <<clip, stop, stopEvent, calls, activations, mainStep, joining, leaving, sessions, wrappers>>
    BY <1>2 DEF Initialize
  <2> QED  BY <1>1, <2>1, <2>2, <2>3 DEF TypeOK, Event
<1>3. CASE Activated(c)
  BY <1>1, <1>3 DEF TypeOK, Activated, connVars, Event
<1>4. CASE AnswerCall(c) \/ AnswerClipboard(c)
  BY <1>1, <1>4 DEF TypeOK, AnswerCall, AnswerClipboard, RunSteps, Event
<1>5. CASE StreamClosed(c)
  BY <1>1, <1>5, TypeOKStop DEF TypeOK, StreamClosed, Event
<1>6. CASE Closed(c)
  BY <1>1, <1>6, TypeOKStop, NobodyAssumption DEF TypeOK, Closed, BeginDestroy, Event
<1> QED  BY <1>2, <1>3, <1>4, <1>5, <1>6

LEMMA TypeOKMain ==
  ASSUME TypeOK, NEW c \in Conns,
         IncomingConnection(c) \/ Close(c) \/ DestroyServer(c) \/ EndDestroy(c) \/ Quit
  PROVE  TypeOK'
<1>1. CASE IncomingConnection(c)
  <2>1. events' \in Seq(Event)
    BY <1>1, PostedType DEF IncomingConnection, Requests
  <2> QED  BY <1>1, <2>1 DEF TypeOK, IncomingConnection, connVars, Event
<1>2. CASE Close(c)
  BY <1>2, TypeOKStop DEF TypeOK, Close, mainVars
<1>3. CASE DestroyServer(c)
  BY <1>3, TypeOKStop, NobodyAssumption DEF TypeOK, DestroyServer, BeginDestroy
<1>4. CASE EndDestroy(c)
  <2>1. events' \in Seq(Event)
    BY <1>4, RemovedType DEF EndDestroy
  <2> QED  BY <1>4, <2>1 DEF TypeOK, EndDestroy, Event
<1>5. CASE Quit
  BY <1>5 DEF TypeOK, Quit, connVars
<1> QED  BY <1>1, <1>2, <1>3, <1>4, <1>5

LEMMA TypeOKRun ==
  ASSUME TypeOK, NEW c \in Conns, Run(c)
  PROVE  TypeOK'
<1>1. CASE RunStart(c) \/ LoopHead(c) \/ ReadFails(c) \/ ReadDone(c) \/ ClosePeer(c)
           \/ StopClipboard(c) \/ RunReturns(c) \/ Wake(c)
  BY <1>1 DEF TypeOK, RunStart, LoopHead, ReadFails, ReadDone, ClosePeer, StopClipboard,
              RunReturns, Wake, Goto, mainVars, States, RunSteps
<1>2. CASE Channels(c)
  BY <1>2 DEF TypeOK, Channels, Goto, mainVars, States, RunSteps
<1>3. CASE RefuseGraphics(c)
  BY <1>3, TypeOKStop DEF TypeOK, RefuseGraphics, mainVars
<1>4. CASE CallMain(c) \/ OnActivate(c) \/ CloseStream(c) \/ SetClosed(c) \/ CallFromClipboard(c)
  <2>1. events' \in Seq(Event)
    BY <1>4, PostedType DEF CallMain, OnActivate, CloseStream, SetClosed, CallFromClipboard,
                            Requests, TypeOK, Event
  <2>2. calls' \in [Conns -> 0..MaxCalls] /\ activations' \in [Conns -> 0..MaxActivations]
    BY <1>4, BoundsAssumption DEF TypeOK, CallMain, OnActivate, CloseStream, SetClosed,
                                  CallFromClipboard
  <2> QED  BY <1>4, <2>1, <2>2 DEF TypeOK, CallMain, OnActivate, CloseStream, SetClosed,
                                   CallFromClipboard, Goto, States, RunSteps, Event
<1> QED  BY <1>1, <1>2, <1>3, <1>4 DEF Run, Proceed

LEMMA TypeOKNext == TypeOK /\ [Next]_vars => TypeOK'
<1> SUFFICES ASSUME TypeOK, [Next]_vars PROVE TypeOK'
  OBVIOUS
<1>1. CASE UNCHANGED vars
  BY <1>1 DEF TypeOK, vars, connVars, mainVars
<1>2. CASE Quit
  BY <1>2 DEF TypeOK, Quit, connVars
<1> QED  BY <1>1, <1>2, TypeOKDeliver, TypeOKMain, TypeOKRun DEF Next, Main, Deliver, Destroy

\* Every variable keeps its type; a stop token is set exactly when the event is, whoever
\* asks the thread to stop.
THEOREM ConnectionTypeCorrect == Spec => []TypeOK
  BY TypeOKInit, TypeOKNext, PTL DEF Spec

-----------------------------------------------------------------------------
(* The inductive invariant *)

EndSteps  == {"returning", "ended"}
ClipSteps == {"loop", "wait", "read", "blocked", "channels", "closePeer", "stopClipboard"}
PastPeer  == {"stopClipboard", "closeStream", "setClosed"} \union EndSteps

\* How the threads of a connection and its transport stand to each other: the clipboard
\* thread lives inside the loop of the run thread, and is gone before that ends.
ThreadInv ==
    \A c \in Conns :
        /\ state[c] = "Initial" => runStep[c] = "none" /\ peer[c] # "open"
        /\ clip[c] # "off" => runStep[c] \in ClipSteps
        /\ runStep[c] \in PastPeer => peer[c] # "open"
        /\ peer[c] = "freed" => runStep[c] \in {"none", "ended"}

\* What an event says of the thread that posted it, for as long as it is in the queue.
Says(e) ==
    /\ e.what = "initialize" => state[e.conn] = "Initial"
    /\ e.what = "call" => runStep[e.conn] = "blocked"
    /\ e.what = "clipboard" => clip[e.conn] = "blocked"
    /\ e.what = "Closed" => runStep[e.conn] \in EndSteps
EventInv == \A i \in DOMAIN events : Says(events[i])

\* A thread that waits has posted one event, so that answering it leaves none behind.
Unique   == {"initialize", "call", "clipboard"}
OnceInv  == \A i, j \in DOMAIN events :
                events[i].what \in Unique /\ events[i] = events[j] => i = j

\* The thread that a destructor joins is past its last word, unless the process quits.
MainInv ==
    mainStep = "join" =>
        /\ runStep[joining] = "none" => peer[joining] # "open"
        /\ ~leaving => runStep[joining] \in EndSteps

\* The server holds every connection with a thread that may still post.
HeldInv ==
    ~leaving =>
        /\ \A c \in Conns : runStep[c] \notin EndSteps \union {"none"} => c \in sessions
        /\ mainStep = "join" => joining \notin sessions

IInv == TypeOK /\ ThreadInv /\ EventInv /\ OnceInv /\ MainInv /\ HeldInv /\ ClosedComesLast

-----------------------------------------------------------------------------
(* The threads *)

LEMMA HeadSays ==
  ASSUME TypeOK, EventInv, NEW c \in Conns, NEW what, Posted(c, what)
  PROVE  Says([conn |-> c, what |-> what])
<1>1. events \in Seq(Event) /\ events # <<>>
  BY DEF TypeOK, Event, Posted
<1>2. 1 \in DOMAIN events /\ events[1] = [conn |-> c, what |-> what]
  BY <1>1, TailOfEvents DEF Posted
<1> QED  BY <1>2 DEF EventInv

LEMMA ThreadMain ==
  ASSUME TypeOK, ThreadInv, EventInv, MainInv, Main
  PROVE  ThreadInv'
<1>1. ASSUME NEW c \in Conns, NEW what \in Requests, Posted(c, what)
      PROVE  Says([conn |-> c, what |-> what])
  BY <1>1, HeadSays
<1>2. ASSUME NEW c \in Conns, Initialize(c) PROVE ThreadInv'
  <2>1. state[c] = "Initial"
    BY <1>1, <1>2 DEF Initialize, Requests, Says
  <2> QED  BY <1>2, <2>1 DEF Initialize, ThreadInv, TypeOK, PastPeer, EndSteps, ClipSteps
<1>3. ASSUME NEW c \in Conns, AnswerCall(c) PROVE ThreadInv'
  <2>1. runStep[c] = "blocked"
    BY <1>1, <1>3 DEF AnswerCall, Requests, Says
  <2> QED  BY <1>3, <2>1 DEF AnswerCall, ThreadInv, TypeOK, PastPeer, EndSteps, ClipSteps
<1>4. ASSUME NEW c \in Conns, AnswerClipboard(c) PROVE ThreadInv'
  <2>1. clip[c] = "blocked"
    BY <1>1, <1>4 DEF AnswerClipboard, Requests, Says
  <2> QED  BY <1>4, <2>1 DEF AnswerClipboard, ThreadInv, TypeOK, PastPeer, EndSteps, ClipSteps
<1>5. ASSUME NEW c \in Conns, Closed(c) \/ DestroyServer(c) PROVE ThreadInv'
  BY <1>5 DEF Closed, DestroyServer, BeginDestroy, ThreadInv, TypeOK
<1>6. ASSUME NEW c \in Conns, EndDestroy(c) PROVE ThreadInv'
  BY <1>6 DEF EndDestroy, ThreadInv, TypeOK, PastPeer, EndSteps
<1>7. ASSUME NEW c \in Conns,
             Activated(c) \/ StreamClosed(c) \/ IncomingConnection(c) \/ Close(c) \/ Quit
      PROVE  ThreadInv'
  BY <1>7 DEF Activated, StreamClosed, IncomingConnection, Close, Quit, ThreadInv, connVars
<1>8. CASE Quit
  BY <1>8 DEF Quit, ThreadInv, connVars
<1> QED  BY <1>2, <1>3, <1>4, <1>5, <1>6, <1>7, <1>8 DEF Main, Deliver, Destroy

LEMMA ThreadRun ==
  ASSUME TypeOK, ThreadInv, NEW c \in Conns, Run(c)
  PROVE  ThreadInv'
<1>1. CASE RunStart(c) \/ LoopHead(c) \/ Wake(c) \/ ReadFails(c) \/ ReadDone(c) \/ RunReturns(c)
  BY <1>1 DEF RunStart, LoopHead, Wake, ReadFails, ReadDone, RunReturns, Goto,
              ThreadInv, TypeOK, PastPeer, EndSteps, ClipSteps
<1>2. CASE Channels(c)
  BY <1>2 DEF Channels, Goto, ThreadInv, TypeOK, PastPeer, EndSteps, ClipSteps
<1>3. CASE ClosePeer(c)
  BY <1>3 DEF ClosePeer, Goto, ThreadInv, TypeOK, PastPeer, EndSteps, ClipSteps
<1>4. CASE StopClipboard(c)
  BY <1>4 DEF StopClipboard, Goto, ThreadInv, TypeOK, PastPeer, EndSteps, ClipSteps
<1>5. CASE CloseStream(c)
  BY <1>5 DEF CloseStream, Goto, ThreadInv, TypeOK, PastPeer, EndSteps, ClipSteps
<1>7. CASE SetClosed(c)
  BY <1>7 DEF SetClosed, Goto, ThreadInv, TypeOK, PastPeer, EndSteps, ClipSteps
<1>8. CASE CallMain(c)
  BY <1>8 DEF CallMain, Goto, ThreadInv, TypeOK, PastPeer, EndSteps, ClipSteps
<1>9. CASE CallFromClipboard(c)
  BY <1>9 DEF CallFromClipboard, ThreadInv, TypeOK, PastPeer, EndSteps, ClipSteps
<1>6. CASE OnActivate(c) \/ RefuseGraphics(c)
  BY <1>6 DEF OnActivate, RefuseGraphics, ThreadInv, TypeOK, PastPeer, EndSteps, ClipSteps
<1> QED  BY <1>1, <1>2, <1>3, <1>4, <1>5, <1>6, <1>7, <1>8, <1>9 DEF Run, Proceed

-----------------------------------------------------------------------------
(* What the events say *)

\* What the run thread and the clipboard thread do is never against what an event says:
\* a thread that waits takes no step.
LEMMA SaysRun ==
  ASSUME TypeOK, ThreadInv, NEW c \in Conns, Run(c), NEW e \in Event, Says(e)
  PROVE  Says(e)'
<1>1. e.conn \in Conns
  BY DEF Event
<1>2. CASE RunStart(c) \/ LoopHead(c) \/ Wake(c) \/ ReadFails(c) \/ ReadDone(c) \/ RunReturns(c)
  BY <1>1, <1>2 DEF RunStart, LoopHead, Wake, ReadFails, ReadDone, RunReturns, Goto,
                    ThreadInv, TypeOK, Says, EndSteps
<1>3. CASE Channels(c)
  BY <1>1, <1>3 DEF Channels, Goto, ThreadInv, TypeOK, Says, EndSteps
<1>4. CASE ClosePeer(c) \/ StopClipboard(c) \/ CloseStream(c) \/ SetClosed(c)
  BY <1>1, <1>4 DEF ClosePeer, StopClipboard, CloseStream, SetClosed, Goto,
                    ThreadInv, TypeOK, Says, EndSteps
<1>5. CASE CallMain(c) \/ CallFromClipboard(c)
  BY <1>1, <1>5 DEF CallMain, CallFromClipboard, Goto, ThreadInv, TypeOK, Says, EndSteps
<1>6. CASE OnActivate(c) \/ RefuseGraphics(c)
  BY <1>1, <1>6 DEF OnActivate, RefuseGraphics, ThreadInv, TypeOK, Says, EndSteps
<1> QED  BY <1>2, <1>3, <1>4, <1>5, <1>6 DEF Run, Proceed

LEMMA PostEvent ==
  ASSUME TypeOK, EventInv, OnceInv, NEW c \in Conns, NEW what \in Requests, Post(c, what),
         \A e \in Event : Says(e) => Says(e)',
         Says([conn |-> c, what |-> what])',
         what \in Unique => \A i \in DOMAIN events : events[i] # [conn |-> c, what |-> what]
  PROVE  EventInv' /\ OnceInv'
<1> DEFINE e == [conn |-> c, what |-> what]
<1>1. events \in Seq(Event) /\ e \in Event
  BY DEF TypeOK, Event
<1>2. \A i \in DOMAIN events : events[i] \in Event
  BY <1>1
<1>3. \A i \in DOMAIN events' :
          \/ i \in DOMAIN events /\ events'[i] = events[i] /\ i # Len(events) + 1
          \/ i = Len(events) + 1 /\ events'[i] = e
  BY <1>1, AppendToEvents DEF Post
<1>4. EventInv'
  <2> SUFFICES ASSUME NEW i \in DOMAIN events' PROVE Says(events[i])'
    BY DEF EventInv
  <2>1. CASE i \in DOMAIN events /\ events'[i] = events[i]
    <3>1. PICK f \in Event : f = events[i]
      BY <1>2, <2>1
    <3>2. Says(f)'
      BY <2>1, <3>1 DEF EventInv
    <3> QED  BY <2>1, <3>1, <3>2 DEF Says
  <2>2. CASE events'[i] = e
    BY <2>2 DEF Says
  <2> QED  BY <1>3, <2>1, <2>2
<1>5. OnceInv'
  BY <1>3 DEF OnceInv
<1> QED  BY <1>4, <1>5

LEMMA DeliverEvent ==
  ASSUME TypeOK, EventInv, OnceInv, NEW c \in Conns, NEW what \in Requests, Posted(c, what),
         events' = Tail(events),
         \A e \in Event : Says(e) /\ (what \in Unique => e # [conn |-> c, what |-> what])
                              => Says(e)'
  PROVE  EventInv' /\ OnceInv'
<1>1. events \in Seq(Event) /\ events # <<>>
  BY DEF TypeOK, Event, Posted
<1>2. \A i \in DOMAIN events : events[i] \in Event
  BY <1>1
<1>3. /\ 1 \in DOMAIN events /\ events[1] = [conn |-> c, what |-> what]
      /\ \A i \in DOMAIN events' : i + 1 \in DOMAIN events /\ events'[i] = events[i + 1] /\ i \in Nat
  BY <1>1, TailOfEvents DEF Posted
<1>4. \A i \in DOMAIN events' : i + 1 # 1
  BY <1>1, TailOfEvents
<1>5. EventInv'
  <2> SUFFICES ASSUME NEW i \in DOMAIN events' PROVE Says(events[i])'
    BY DEF EventInv
  <2>1. what \in Unique => events[i + 1] # [conn |-> c, what |-> what]
    BY <1>3, <1>4 DEF OnceInv
  <2>2. PICK f \in Event : f = events[i + 1]
    BY <1>2, <1>3
  <2>3. Says(f)'
    BY <1>3, <2>1, <2>2 DEF EventInv
  <2> QED  BY <1>3, <2>2, <2>3 DEF Says
<1>6. OnceInv'
  BY <1>3 DEF OnceInv
<1> QED  BY <1>5, <1>6

\* Nothing but the delivery of an event itself makes what it says untrue.
LEMMA SaysDelivered ==
  ASSUME TypeOK, ThreadInv, EventInv, NEW c \in Conns, NEW e \in Event, Says(e),
         \/ Initialize(c) /\ e # [conn |-> c, what |-> "initialize"]
         \/ AnswerCall(c) /\ e # [conn |-> c, what |-> "call"]
         \/ AnswerClipboard(c) /\ e # [conn |-> c, what |-> "clipboard"]
         \/ Activated(c) \/ StreamClosed(c) \/ Closed(c)
  PROVE  Says(e)'
<1>1. e.conn \in Conns /\ e = [conn |-> e.conn, what |-> e.what]
  BY DEF Event
<1>2. CASE Initialize(c) /\ e # [conn |-> c, what |-> "initialize"]
  <2>1. state[c] = "Initial"
    BY <1>2, HeadSays DEF Initialize, Says
  <2>2. runStep[c] = "none" /\ clip[c] = "off"
    BY <2>1 DEF ThreadInv, ClipSteps, TypeOK
  <2> QED  BY <1>1, <1>2, <2>2 DEF Initialize, TypeOK, Says, EndSteps
<1>3. CASE AnswerCall(c) /\ e # [conn |-> c, what |-> "call"]
  <2>1. runStep[c] = "blocked"
    BY <1>3, HeadSays DEF AnswerCall, Says
  <2> QED  BY <1>1, <1>3, <2>1 DEF AnswerCall, TypeOK, Says, EndSteps
<1>4. CASE AnswerClipboard(c) /\ e # [conn |-> c, what |-> "clipboard"]
  BY <1>1, <1>4 DEF AnswerClipboard, TypeOK, Says
<1>5. CASE Activated(c) \/ StreamClosed(c) \/ Closed(c)
  BY <1>1, <1>5 DEF Activated, StreamClosed, Closed, connVars, Says
<1> QED  BY <1>2, <1>3, <1>4, <1>5

LEMMA EventsDelivered ==
  ASSUME TypeOK, ThreadInv, EventInv, OnceInv, Deliver
  PROVE  EventInv' /\ OnceInv'
<1> PICK c \in Conns : Initialize(c) \/ Activated(c) \/ AnswerCall(c) \/ AnswerClipboard(c)
                       \/ StreamClosed(c) \/ Closed(c)
  BY DEF Deliver
<1>1. CASE Initialize(c)
  BY <1>1, SaysDelivered, DeliverEvent DEF Initialize, Requests, Unique
<1>2. CASE AnswerCall(c)
  BY <1>2, SaysDelivered, DeliverEvent DEF AnswerCall, Requests, Unique
<1>3. CASE AnswerClipboard(c)
  BY <1>3, SaysDelivered, DeliverEvent DEF AnswerClipboard, Requests, Unique
<1>4. CASE Activated(c)
  BY <1>4, SaysDelivered, DeliverEvent DEF Activated, Requests
<1>5. CASE StreamClosed(c)
  BY <1>5, SaysDelivered, DeliverEvent DEF StreamClosed, Requests
<1>6. CASE Closed(c)
  BY <1>6, SaysDelivered, DeliverEvent DEF Closed, Requests
<1> QED  BY <1>1, <1>2, <1>3, <1>4, <1>5, <1>6

LEMMA EventsMain ==
  ASSUME TypeOK, ThreadInv, EventInv, OnceInv, Main
  PROVE  EventInv' /\ OnceInv'
<1>1. ASSUME NEW c \in Conns, IncomingConnection(c) PROVE EventInv' /\ OnceInv'
  <2>1. \A e \in Event : Says(e) => Says(e)'
    BY <1>1 DEF IncomingConnection, connVars, Says
  <2>2. Says([conn |-> c, what |-> "initialize"])'
    BY <1>1 DEF IncomingConnection, connVars, Says
  <2>3. \A i \in DOMAIN events : events[i] # [conn |-> c, what |-> "initialize"]
    BY <1>1 DEF IncomingConnection
  <2> QED  BY <1>1, <2>1, <2>2, <2>3, PostEvent DEF IncomingConnection, Requests
<1>2. ASSUME NEW c \in Conns, Close(c) \/ DestroyServer(c) PROVE EventInv' /\ OnceInv'
  BY <1>2 DEF Close, DestroyServer, BeginDestroy, mainVars, EventInv, OnceInv, Says
<1>3. CASE Quit
  BY <1>3 DEF Quit, connVars, EventInv, OnceInv, Says
<1>4. ASSUME NEW c \in Conns, EndDestroy(c) PROVE EventInv' /\ OnceInv'
  <2>1. DOMAIN events' = DOMAIN events
    BY <1>4, RemovedType DEF EndDestroy
  <2>2. \A i \in DOMAIN events : events'[i] = events[i] \/ events'[i] = [conn |-> c, what |-> "removed"]
    BY <1>4 DEF EndDestroy, RemoveEvents
  <2>3. OnceInv'
    BY <2>1, <2>2 DEF OnceInv, Unique
  <2> QED  BY <1>4, <2>1, <2>2, <2>3 DEF EndDestroy, EventInv, Says
<1> QED  BY <1>1, <1>2, <1>3, <1>4, EventsDelivered DEF Main, Destroy

LEMMA EventsRun ==
  ASSUME TypeOK, ThreadInv, EventInv, OnceInv, NEW c \in Conns, Run(c)
  PROVE  EventInv' /\ OnceInv'
<1>1. \A e \in Event : Says(e) => Says(e)'
  BY SaysRun
<1>2. \A i \in DOMAIN events : events[i] \in Event
  <2>1. events \in Seq(Event)
    BY DEF TypeOK, Event
  <2> QED  BY <2>1
<1>3. ASSUME UNCHANGED events PROVE EventInv' /\ OnceInv'
  BY <1>1, <1>2, <1>3 DEF EventInv, OnceInv, Says
<1>4. CASE CallMain(c)
  <2>1. \A i \in DOMAIN events : events[i] # [conn |-> c, what |-> "call"]
    BY <1>4 DEF CallMain, Goto, EventInv, Says
  <2>2. Says([conn |-> c, what |-> "call"])'
    BY <1>4 DEF CallMain, Goto, Says, TypeOK
  <2> QED  BY <1>1, <1>4, <2>1, <2>2, PostEvent DEF CallMain, Requests
<1>5. CASE CallFromClipboard(c)
  <2>1. \A i \in DOMAIN events : events[i] # [conn |-> c, what |-> "clipboard"]
    BY <1>5 DEF CallFromClipboard, EventInv, Says
  <2>2. Says([conn |-> c, what |-> "clipboard"])'
    BY <1>5 DEF CallFromClipboard, Says, TypeOK
  <2> QED  BY <1>1, <1>5, <2>1, <2>2, PostEvent DEF CallFromClipboard, Requests
<1>6. CASE OnActivate(c)
  <2>1. Says([conn |-> c, what |-> "Activated"])'
    BY DEF Says
  <2> QED  BY <1>1, <1>3, <1>6, <2>1, PostEvent DEF OnActivate, Requests, Unique
<1>7. CASE CloseStream(c)
  <2>1. Says([conn |-> c, what |-> "streamClosed"])'
    BY DEF Says
  <2> QED  BY <1>1, <1>7, <2>1, PostEvent DEF CloseStream, Requests, Unique
<1>8. CASE SetClosed(c)
  <2>1. Says([conn |-> c, what |-> "Closed"])'
    BY <1>8 DEF SetClosed, Goto, Says, TypeOK, EndSteps
  <2> QED  BY <1>1, <1>8, <2>1, PostEvent DEF SetClosed, Requests, Unique
<1>9. CASE RunStart(c) \/ LoopHead(c) \/ Wake(c) \/ ReadFails(c) \/ ReadDone(c) \/ Channels(c)
           \/ ClosePeer(c) \/ StopClipboard(c) \/ RunReturns(c) \/ RefuseGraphics(c)
  BY <1>3, <1>9 DEF RunStart, LoopHead, Wake, ReadFails, ReadDone, Channels, ClosePeer,
                    StopClipboard, RunReturns, RefuseGraphics, mainVars
<1> QED  BY <1>4, <1>5, <1>6, <1>7, <1>8, <1>9 DEF Run, Proceed

-----------------------------------------------------------------------------
(* The destructor *)

LEMMA MainInvStep ==
  ASSUME TypeOK, ThreadInv, EventInv, MainInv, Next
  PROVE  MainInv'
<1>1. ASSUME NEW c \in Conns, Closed(c) PROVE MainInv'
  <2>1. runStep[c] \in EndSteps
    BY <1>1, HeadSays DEF Closed, Says
  <2> QED  BY <1>1, <2>1 DEF Closed, BeginDestroy, MainInv, EndSteps
<1>2. ASSUME NEW c \in Conns, DestroyServer(c) PROVE MainInv'
  BY <1>2 DEF DestroyServer, BeginDestroy, MainInv, TypeOK
<1>3. ASSUME NEW c \in Conns,
             Initialize(c) \/ Activated(c) \/ AnswerCall(c) \/ AnswerClipboard(c)
             \/ StreamClosed(c) \/ IncomingConnection(c) \/ Close(c) \/ EndDestroy(c)
      PROVE  MainInv'
  BY <1>3 DEF Initialize, Activated, AnswerCall, AnswerClipboard, StreamClosed,
              IncomingConnection, Close, EndDestroy, Posted, MainInv, mainVars, TypeOK
<1>4. CASE Quit
  BY <1>4 DEF Quit, MainInv
<1>5. ASSUME NEW c \in Conns, Run(c), mainStep = "join" PROVE MainInv'
  <2>1. joining \in Conns /\ UNCHANGED <<mainStep, joining, leaving>>
    BY <1>5, NobodyAssumption DEF TypeOK, Run, Proceed, RunStart, LoopHead, Wake, ReadFails,
             ReadDone, Channels, ClosePeer, StopClipboard, CloseStream, SetClosed, RunReturns,
             CallMain, OnActivate, RefuseGraphics, CallFromClipboard, mainVars
  <2>2. runStep'[joining] = "none" => runStep[joining] = "none"
    BY <1>5, <2>1 DEF TypeOK, Run, Proceed, RunStart, LoopHead, Wake, ReadFails,
             ReadDone, Channels, ClosePeer, StopClipboard, CloseStream, SetClosed, RunReturns,
             CallMain, OnActivate, RefuseGraphics, CallFromClipboard, Goto
  <2>3. peer'[joining] = "open" => peer[joining] = "open"
    BY <1>5, <2>1 DEF TypeOK, Run, Proceed, RunStart, LoopHead, Wake, ReadFails,
             ReadDone, Channels, ClosePeer, StopClipboard, CloseStream, SetClosed, RunReturns,
             CallMain, OnActivate, RefuseGraphics, CallFromClipboard
  <2>4. runStep[joining] \in EndSteps => runStep'[joining] \in EndSteps
    BY <1>5, <2>1 DEF TypeOK, Run, Proceed, RunStart, LoopHead, Wake, ReadFails,
             ReadDone, Channels, ClosePeer, StopClipboard, CloseStream, SetClosed, RunReturns,
             CallMain, OnActivate, RefuseGraphics, CallFromClipboard, Goto, EndSteps
  <2> QED  BY <1>5, <2>1, <2>2, <2>3, <2>4 DEF MainInv
<1>6. ASSUME NEW c \in Conns, Run(c), mainStep # "join" PROVE MainInv'
  BY <1>6 DEF MainInv, Run, Proceed, RunStart, LoopHead, Wake, ReadFails,
              ReadDone, Channels, ClosePeer, StopClipboard, CloseStream, SetClosed, RunReturns,
              CallMain, OnActivate, RefuseGraphics, CallFromClipboard, mainVars
<1> QED  BY <1>1, <1>2, <1>3, <1>4, <1>5, <1>6 DEF Next, Main, Deliver, Destroy

-----------------------------------------------------------------------------
(* What the server holds *)

LEMMA HeadHeld ==
  ASSUME TypeOK, ClosedComesLast, ~leaving, NEW c \in Conns, NEW what, Posted(c, what)
  PROVE  /\ c \in sessions
         /\ what = "Closed" => \A i \in DOMAIN Tail(events) : Tail(events)[i].conn # c
<1>1. events \in Seq(Event) /\ events # <<>>
  BY DEF TypeOK, Event, Posted
<1>2. /\ 1 \in DOMAIN events /\ events[1] = [conn |-> c, what |-> what]
      /\ \A i \in DOMAIN Tail(events) :
            i + 1 \in DOMAIN events /\ Tail(events)[i] = events[i + 1] /\ i + 1 > 1
  BY <1>1, TailOfEvents DEF Posted
<1> QED  BY <1>2 DEF ClosedComesLast

\* While the event loop runs, the destructor finds no event of its connection.
LEMMA NothingToRemove ==
  ASSUME TypeOK, HeldInv, ClosedComesLast, ~leaving, NEW c \in Conns, EndDestroy(c)
  PROVE  events' = events
<1>1. \A i \in DOMAIN events : events[i].conn # c
  BY DEF EndDestroy, HeldInv, ClosedComesLast
<1>2. events \in Seq(Event)
  BY DEF TypeOK, Event
<1> QED  BY <1>1, <1>2 DEF EndDestroy, RemoveEvents

LEMMA HeldMain ==
  ASSUME TypeOK, ThreadInv, EventInv, HeldInv, ClosedComesLast, Main
  PROVE  HeldInv'
<1> SUFFICES ASSUME ~leaving' PROVE HeldInv'
  BY DEF HeldInv
<1>1. ASSUME NEW c \in Conns, Initialize(c) PROVE HeldInv'
  <2>1. c \in sessions
    BY <1>1, HeadHeld DEF Initialize, Posted
  <2> QED  BY <1>1, <2>1 DEF Initialize, Posted, HeldInv, TypeOK
<1>2. ASSUME NEW c \in Conns, AnswerCall(c) PROVE HeldInv'
  <2>1. c \in sessions
    BY <1>2, HeadHeld DEF AnswerCall, Posted
  <2> QED  BY <1>2, <2>1 DEF AnswerCall, Posted, HeldInv, TypeOK
<1>3. ASSUME NEW c \in Conns, Closed(c) PROVE HeldInv'
  <2>1. runStep[c] \in EndSteps
    BY <1>3, HeadSays DEF Closed, Says
  <2> QED  BY <1>3, <2>1 DEF Closed, BeginDestroy, Posted, HeldInv
<1>4. ASSUME NEW c \in Conns, IncomingConnection(c) PROVE HeldInv'
  BY <1>4 DEF IncomingConnection, connVars, HeldInv
<1>5. ASSUME NEW c \in Conns, EndDestroy(c) PROVE HeldInv'
  BY <1>5 DEF EndDestroy, HeldInv
<1>6. ASSUME NEW c \in Conns,
             Activated(c) \/ AnswerClipboard(c) \/ StreamClosed(c) \/ Close(c)
      PROVE  HeldInv'
  BY <1>6 DEF Activated, AnswerClipboard, StreamClosed, Close, connVars, mainVars, HeldInv
<1>7. ASSUME NEW c \in Conns, DestroyServer(c) PROVE HeldInv'
  BY <1>7 DEF DestroyServer
<1>8. CASE Quit
  BY <1>8 DEF Quit
<1> QED  BY <1>1, <1>2, <1>3, <1>4, <1>5, <1>6, <1>7, <1>8 DEF Main, Deliver, Destroy

LEMMA HeldRun ==
  ASSUME TypeOK, ThreadInv, HeldInv, NEW c \in Conns, Run(c)
  PROVE  HeldInv'
<1>1. UNCHANGED <<mainStep, joining, leaving, sessions>>
  BY DEF Run, Proceed, RunStart, LoopHead, Wake, ReadFails,
         ReadDone, Channels, ClosePeer, StopClipboard, CloseStream, SetClosed, RunReturns,
         CallMain, OnActivate, RefuseGraphics, CallFromClipboard, mainVars
<1>2. ASSUME NEW d \in Conns, runStep'[d] \notin EndSteps \union {"none"}
      PROVE  runStep[d] \notin EndSteps \union {"none"}
  BY <1>2 DEF TypeOK, Run, Proceed, RunStart, LoopHead, Wake, ReadFails,
         ReadDone, Channels, ClosePeer, StopClipboard, CloseStream, SetClosed, RunReturns,
         CallMain, OnActivate, RefuseGraphics, CallFromClipboard, Goto, EndSteps, mainVars
<1> QED  BY <1>1, <1>2 DEF HeldInv

LEMMA PostLast ==
  ASSUME TypeOK, EventInv, ClosedComesLast, NEW c \in Conns, NEW what \in Requests \ {"removed"},
         Post(c, what), UNCHANGED leaving, sessions \subseteq sessions', c \in sessions',
         \A i \in DOMAIN events : events[i].conn = c => events[i].what # "Closed"
  PROVE  ClosedComesLast'
<1> SUFFICES ASSUME ~leaving' PROVE ClosedComesLast'
  BY DEF ClosedComesLast
<1>1. events \in Seq(Event) /\ [conn |-> c, what |-> what] \in Event
  BY DEF TypeOK, Event
<1>2. \A i \in DOMAIN events' :
          \/ i \in DOMAIN events /\ events'[i] = events[i] /\ i < Len(events) + 1
          \/ i = Len(events) + 1 /\ events'[i] = [conn |-> c, what |-> what]
  BY <1>1, AppendToEvents DEF Post
<1>3. Len(events) \in Nat /\ DOMAIN events = 1..Len(events)
  BY <1>1
<1> QED  BY <1>2, <1>3 DEF ClosedComesLast

LEMMA LastMain ==
  ASSUME TypeOK, ThreadInv, EventInv, HeldInv, ClosedComesLast, Main
  PROVE  ClosedComesLast'
<1> SUFFICES ASSUME ~leaving' PROVE ClosedComesLast'
  BY DEF ClosedComesLast
<1>1. ASSUME NEW c \in Conns, NEW what, Posted(c, what), events' = Tail(events), UNCHANGED leaving,
             IF what = "Closed" THEN sessions' = sessions \ {c} ELSE sessions' = sessions
      PROVE  ClosedComesLast'
  <2>1. events \in Seq(Event) /\ events # <<>>
    BY <1>1 DEF TypeOK, Event, Posted
  <2>2. \A i \in DOMAIN events' :
            i + 1 \in DOMAIN events /\ events'[i] = events[i + 1] /\ i \in Nat
    BY <1>1, <2>1, TailOfEvents
  <2>3. \A i \in DOMAIN events' : events'[i].conn \in sessions'
    BY <1>1, <2>2, HeadHeld DEF ClosedComesLast
  <2>4. \A i, j \in DOMAIN events' : j > i => j + 1 > i + 1
    BY <2>2
  <2> QED  BY <1>1, <2>2, <2>3, <2>4 DEF ClosedComesLast
<1>2. ASSUME NEW c \in Conns, Closed(c) PROVE ClosedComesLast'
  BY <1>1, <1>2 DEF Closed, BeginDestroy
<1>3. CASE Deliver
  BY <1>1, <1>2, <1>3 DEF Deliver, Initialize, Activated, AnswerCall, AnswerClipboard, StreamClosed,
                          connVars
<1>4. ASSUME NEW c \in Conns, IncomingConnection(c) PROVE ClosedComesLast'
  BY <1>4, PostLast DEF IncomingConnection, Requests
<1>5. ASSUME NEW c \in Conns, EndDestroy(c) PROVE ClosedComesLast'
  BY <1>5, NothingToRemove DEF EndDestroy, ClosedComesLast
<1>6. ASSUME NEW c \in Conns, Close(c) PROVE ClosedComesLast'
  BY <1>6 DEF Close, mainVars, ClosedComesLast
<1>7. ASSUME NEW c \in Conns, DestroyServer(c) PROVE ClosedComesLast'
  BY <1>7 DEF DestroyServer
<1>8. CASE Quit
  BY <1>8 DEF Quit
<1> QED  BY <1>3, <1>4, <1>5, <1>6, <1>7, <1>8 DEF Main, Destroy

LEMMA LastRun ==
  ASSUME TypeOK, ThreadInv, EventInv, HeldInv, ClosedComesLast, NEW c \in Conns, Run(c)
  PROVE  ClosedComesLast'
<1>1. ASSUME UNCHANGED <<events, leaving, sessions>> PROVE ClosedComesLast'
  BY <1>1 DEF ClosedComesLast
<1>2. ASSUME runStep[c] \notin EndSteps \union {"none"}, ~leaving
      PROVE  /\ c \in sessions
             /\ \A i \in DOMAIN events : events[i].conn = c => events[i].what # "Closed"
  BY <1>2 DEF HeldInv, EventInv, Says
<1>3. CASE leaving
  BY <1>3 DEF ClosedComesLast, Run, Proceed, RunStart, LoopHead, Wake, ReadFails,
         ReadDone, Channels, ClosePeer, StopClipboard, CloseStream, SetClosed, RunReturns,
         CallMain, OnActivate, RefuseGraphics, CallFromClipboard, mainVars
<1>4. CASE ~leaving /\ (CallMain(c) \/ OnActivate(c) \/ CloseStream(c) \/ SetClosed(c))
  BY <1>1, <1>2, <1>4, PostLast DEF CallMain, OnActivate, CloseStream, SetClosed, Goto, EndSteps,
                                    Requests
<1>5. CASE ~leaving /\ CallFromClipboard(c)
  BY <1>2, <1>5, PostLast DEF CallFromClipboard, ThreadInv, ClipSteps, EndSteps, Requests
<1>6. CASE RunStart(c) \/ LoopHead(c) \/ Wake(c) \/ ReadFails(c) \/ ReadDone(c) \/ Channels(c)
           \/ ClosePeer(c) \/ StopClipboard(c) \/ RunReturns(c) \/ RefuseGraphics(c)
  BY <1>1, <1>6 DEF RunStart, LoopHead, Wake, ReadFails, ReadDone, Channels, ClosePeer,
                    StopClipboard, RunReturns, RefuseGraphics, mainVars
<1> QED  BY <1>3, <1>4, <1>5, <1>6 DEF Run, Proceed

-----------------------------------------------------------------------------
(* The theorems *)

LEMMA IInvInit == Init => IInv
<1> SUFFICES ASSUME Init PROVE IInv
  OBVIOUS
<1>1. TypeOK
  BY TypeOKInit
<1>2. ThreadInv
  BY DEF Init, ThreadInv, PastPeer, EndSteps
<1>3. EventInv /\ OnceInv /\ ClosedComesLast
  BY DEF Init, EventInv, OnceInv, ClosedComesLast
<1>4. MainInv /\ HeldInv
  BY DEF Init, MainInv, HeldInv, EndSteps
<1> QED  BY <1>1, <1>2, <1>3, <1>4 DEF IInv

LEMMA IInvNext == IInv /\ [Next]_vars => IInv'
<1> SUFFICES ASSUME IInv, [Next]_vars PROVE IInv'
  OBVIOUS
<1>1. CASE UNCHANGED vars
  <2>1. TypeOK'
    BY <1>1, TypeOKNext DEF IInv
  <2> QED  BY <1>1, <2>1 DEF IInv, vars, connVars, mainVars, ThreadInv, EventInv, Says, OnceInv,
                             MainInv, HeldInv, ClosedComesLast
<1>2. CASE Next
  <2>1. TypeOK'
    BY <1>2, TypeOKNext DEF IInv
  <2>2. ThreadInv' /\ EventInv' /\ OnceInv' /\ HeldInv' /\ ClosedComesLast'
    BY <1>2, ThreadMain, ThreadRun, EventsMain, EventsRun, HeldMain, HeldRun, LastMain, LastRun
       DEF IInv, Next
  <2>3. MainInv'
    BY <1>2, MainInvStep DEF IInv
  <2> QED  BY <2>1, <2>2, <2>3 DEF IInv
<1> QED  BY <1>1, <1>2

\* The invariant the other theorems rest on: where the threads of every connection are, what
\* the events in the queue say of them, and whom the main thread may join.
THEOREM ConnectionInvariant == Spec => []IInv
  BY IInvInit, IInvNext, PTL DEF Spec

\* ~RdpConnection frees the peer when neither the run thread nor the clipboard thread is
\* left to use it, whichever way the connection came to be destroyed.
THEOREM PeerIsFreedSafely == Spec => []PeerFreedSafely
<1>1. IInv => PeerFreedSafely
  BY DEF IInv, TypeOK, ThreadInv, PeerFreedSafely, ClipSteps
<1> QED  BY <1>1, ConnectionInvariant, PTL

\* The main thread never joins a run thread that waits for the main thread, or that waits
\* for a clipboard thread which does.
THEOREM NoThreadWaitsForItsJoiner == Spec => []NoCircularWait
<1>1. IInv => NoCircularWait
  BY NobodyAssumption DEF IInv, TypeOK, ThreadInv, MainInv, NoCircularWait, ClipSteps, EndSteps
<1> QED  BY <1>1, ConnectionInvariant, PTL

\* Closed is the last event of a connection, and no event is left of one that is gone.
THEOREM ClosedIsTheLastEvent == Spec => []ClosedComesLast
<1>1. IInv => ClosedComesLast
  BY DEF IInv
<1> QED  BY <1>1, ConnectionInvariant, PTL

\* An open transport is closed by the run thread as it leaves its loop, or by the destructor
\* of a connection that never had one, and in no other step.
THEOREM TransportHasOneOwner == Spec => OneTransportOwner
<1> DEFINE Owner == \A c \in Conns : peer[c] = "open" /\ peer'[c] # "open"
                        => peer'[c] = "closed" /\ runStep[c] \in {"none", "closePeer"}
<1>1. IInv /\ [Next]_vars => [Owner]_vars
  <2> SUFFICES ASSUME IInv, Next PROVE Owner
    OBVIOUS
  <2> USE DEF IInv
  <2>1. ASSUME NEW c \in Conns, Initialize(c) PROVE Owner
    <3>1. peer[c] # "open"
      BY <2>1, HeadSays DEF Initialize, Says, ThreadInv
    <3> QED  BY <2>1, <3>1 DEF Initialize, TypeOK
  <2>2. ASSUME NEW c \in Conns, Closed(c) \/ DestroyServer(c) PROVE Owner
    BY <2>2 DEF Closed, DestroyServer, BeginDestroy, TypeOK
  <2>3. ASSUME NEW c \in Conns, EndDestroy(c) PROVE Owner
    <3>1. peer[c] # "open"
      BY <2>3 DEF EndDestroy, MainInv, ThreadInv, PastPeer, EndSteps
    <3> QED  BY <2>3, <3>1 DEF EndDestroy, TypeOK
  <2>4. CASE Main
    BY <2>1, <2>2, <2>3, <2>4 DEF Main, Deliver, Destroy, Activated, AnswerCall, AnswerClipboard,
           StreamClosed, IncomingConnection, Close, Quit, connVars
  <2>5. ASSUME NEW c \in Conns, Run(c) PROVE Owner
    BY <2>5 DEF TypeOK, Run, Proceed, RunStart, LoopHead, Wake, ReadFails,
         ReadDone, Channels, ClosePeer, StopClipboard, CloseStream, SetClosed, RunReturns,
         CallMain, OnActivate, RefuseGraphics, CallFromClipboard, Goto
  <2> QED  BY <2>4, <2>5 DEF Next
<1> QED  BY <1>1, ConnectionInvariant, PTL DEF Spec, OneTransportOwner


-----------------------------------------------------------------------------
(***************************************************************************)
(* The life of a connection as the main thread sees it. While the server   *)
(* runs, a connection is freed only by its destructor, which it has come   *)
(* to by its Closed, and its session goes with it.                         *)
(***************************************************************************)
LifeInv ==
    ~leaving =>
        /\ \A c \in sessions : peer[c] # "freed"
        /\ \A c \in Conns : state[c] = "Initial" => peer[c] # "freed"
        /\ \A c \in wrappers : c \in sessions \/ c = joining

lives == [c \in Conns |-> LifeOf(c)]

LEMMA HeadIsHeld ==
  ASSUME IInv, NEW c \in Conns, NEW what, Posted(c, what)
  PROVE  c \in sessions /\ ~leaving /\ joining = Nobody
<1>1. events \in Seq(Event) /\ events # <<>> /\ ~leaving /\ mainStep = "loop"
  BY DEF IInv, TypeOK, Event, Posted
<1>2. 1 \in DOMAIN events /\ events[1] = [conn |-> c, what |-> what]
  BY <1>1, TailOfEvents DEF Posted
<1>3. events[1].conn \in sessions
  BY <1>1, <1>2 DEF IInv, ClosedComesLast
<1> QED  BY <1>1, <1>2, <1>3 DEF IInv, TypeOK

LEMMA LeavingStays == leaving /\ [Next]_vars => leaving'
  BY DEF Next, Main, Deliver, Destroy, Initialize, Activated, AnswerCall, AnswerClipboard,
         StreamClosed, Closed, DestroyServer, EndDestroy, Quit, IncomingConnection, Close,
         Run, Proceed, RunStart, LoopHead, Wake, ReadFails, ReadDone, Channels, ClosePeer,
         StopClipboard, CloseStream, SetClosed, RunReturns, CallMain, OnActivate, RefuseGraphics,
         CallFromClipboard, mainVars, vars

\* What the threads do to their own, and the main thread for them, is no event in the life
\* of a connection; none that was freed is taken up again.
QuietStep ==
    \/ \E c \in Conns : \/ Initialize(c) \/ AnswerCall(c) \/ AnswerClipboard(c) \/ StreamClosed(c)
                        \/ Close(c) \/ Run(c)
    \/ UNCHANGED vars

LEMMA QuietKeeps ==
  ASSUME IInv, LifeInv, ~leaving, QuietStep
  PROVE  /\ UNCHANGED <<wrappers, sessions, joining, leaving>>
         /\ \A d \in Conns : /\ peer'[d] = "freed" <=> peer[d] = "freed"
                             /\ state'[d] = "Initial" => state[d] = "Initial"
<1> DEFINE Quiet == /\ UNCHANGED <<wrappers, sessions, joining, leaving>>
                    /\ \A d \in Conns : /\ peer'[d] = "freed" <=> peer[d] = "freed"
                                        /\ state'[d] = "Initial" => state[d] = "Initial"
<1> USE DEF TypeOK
<1>0. TypeOK /\ ThreadInv
  BY DEF IInv
<1>1. ASSUME NEW c \in Conns, Initialize(c) PROVE Quiet
  <2>1. state[c] = "Initial"
    BY <1>1, HeadSays DEF Initialize, Says, IInv
  <2> QED  BY <1>0, <1>1, <2>1 DEF Initialize, LifeInv
<1>2. ASSUME NEW c \in Conns, ClosePeer(c) PROVE Quiet
  BY <1>0, <1>2 DEF ClosePeer, Goto, ThreadInv, mainVars
<1>3. ASSUME NEW c \in Conns, AnswerCall(c) \/ AnswerClipboard(c) \/ StreamClosed(c) \/ Close(c)
      PROVE  Quiet
  BY <1>3 DEF AnswerCall, AnswerClipboard, StreamClosed, Close, mainVars
<1>4. ASSUME NEW c \in Conns,
             \/ LoopHead(c) \/ Wake(c) \/ ReadFails(c) \/ ReadDone(c) \/ StopClipboard(c)
             \/ CloseStream(c) \/ RunReturns(c) \/ CallMain(c) \/ RefuseGraphics(c) \/ CallFromClipboard(c)
      PROVE  Quiet
  BY <1>4 DEF LoopHead, Wake, ReadFails, ReadDone, StopClipboard, CloseStream, RunReturns,
              CallMain, RefuseGraphics, CallFromClipboard, mainVars
<1>5. ASSUME NEW c \in Conns, RunStart(c) \/ SetClosed(c) \/ OnActivate(c) \/ Channels(c)
      PROVE  Quiet
  <2>1. peer' = peer /\ UNCHANGED <<wrappers, sessions, joining, leaving>>
    BY <1>5 DEF RunStart, SetClosed, OnActivate, Channels, mainVars
  <2>2. \A d \in Conns : state'[d] = "Initial" => state[d] = "Initial"
    BY <1>0, <1>5 DEF RunStart, SetClosed, OnActivate, Channels
  <2> QED  BY <2>1, <2>2
<1>6. ASSUME UNCHANGED vars PROVE Quiet
  BY <1>6 DEF vars, connVars, mainVars
<1> QED  BY <1>1, <1>2, <1>3, <1>4, <1>5, <1>6 DEF QuietStep, Run, Proceed

LEMMA NextSteps ==
  ASSUME [Next]_vars, ~leaving
  PROVE  \/ QuietStep \/ Quit
         \/ \E c \in Conns : IncomingConnection(c) \/ Activated(c) \/ Closed(c) \/ EndDestroy(c)
  BY DEF Next, Main, Deliver, Destroy, DestroyServer, QuietStep

LEMMA LifeInvNext ==
  ASSUME IInv, LifeInv, [Next]_vars
  PROVE  LifeInv'
<1> USE DEF TypeOK
<1>0. TypeOK /\ HeldInv /\ MainInv /\ ThreadInv
  BY DEF IInv
<1>1. CASE leaving \/ Quit
  <2>1. leaving'
    BY <1>1, LeavingStays DEF Quit
  <2> QED  BY <2>1 DEF LifeInv
<1>2. CASE ~leaving /\ QuietStep
  BY <1>0, <1>2, QuietKeeps DEF LifeInv
<1>3. ASSUME ~leaving, NEW c \in Conns, IncomingConnection(c) PROVE LifeInv'
  BY <1>3 DEF IncomingConnection, LifeInv, connVars
<1>4. ASSUME ~leaving, NEW c \in Conns, Activated(c) PROVE LifeInv'
  <2>1. c \in sessions
    BY <1>4, HeadIsHeld DEF Activated
  <2> QED  BY <1>4, <2>1 DEF Activated, LifeInv, connVars
<1>5. ASSUME ~leaving, NEW c \in Conns, Closed(c) PROVE LifeInv'
  <2>1. joining = Nobody
    BY <1>5, HeadIsHeld DEF Closed
  <2>2. \A d \in Conns : peer'[d] = "freed" <=> peer[d] = "freed"
    BY <1>0, <1>5 DEF Closed, BeginDestroy
  <2>3. /\ sessions' = sessions \ {c} /\ joining' = c /\ UNCHANGED <<state, wrappers>>
    BY <1>5 DEF Closed, BeginDestroy
  <2> QED  BY <1>0, <1>5, <2>1, <2>2, <2>3, NobodyAssumption DEF LifeInv
<1>6. ASSUME ~leaving, NEW c \in Conns, EndDestroy(c) PROVE LifeInv'
  <2>1. c \notin sessions /\ state[c] # "Initial" /\ joining = c
    BY <1>0, <1>6 DEF EndDestroy, HeldInv, MainInv, ThreadInv, EndSteps
  <2> QED  BY <1>0, <1>6, <2>1 DEF EndDestroy, LifeInv
<1> QED  BY <1>1, <1>2, <1>3, <1>4, <1>5, <1>6, NextSteps

\* One connection goes on in its life, and the others stay where they are.
LEMMA OneBecomes ==
  ASSUME NEW c \in Conns, NEW from, NEW to,
         LifeOf(c) \in from, LifeOf(c)' = to, \A d \in Conns : d # c => LifeOf(d)' = LifeOf(d)
  PROVE  Life!Become(c, from, to)
<1>1. lives' = [d \in Conns |-> IF d = c THEN to ELSE LifeOf(d)]
  BY DEF lives
<1>2. lives' = [lives EXCEPT ![c] = to] /\ lives[c] \in from
  BY <1>1 DEF lives
<1> QED  BY <1>2 DEF Life!Become, lives

LEMMA NobodyBecomes ==
  ASSUME \A d \in Conns : LifeOf(d)' = LifeOf(d)
  PROVE  UNCHANGED lives
  BY DEF lives

LEMMA LifeSteps ==
  ASSUME IInv, LifeInv, [Next]_vars
  PROVE  [Life!Next]_lives
<1> USE DEF TypeOK
<1>0. TypeOK /\ HeldInv
  BY DEF IInv
<1>1. CASE leaving
  <2>1. \A d \in Conns : LifeOf(d)' = LifeOf(d)
    BY <1>1, LeavingStays DEF LifeOf
  <2> QED  BY <2>1, NobodyBecomes
<1>2. CASE Quit
  <2>1. leaving'
    BY <1>2 DEF Quit
  <2>2. lives' = [d \in Conns |-> "gone"]
    BY <2>1 DEF lives, LifeOf
  <2> QED  BY <2>2 DEF Life!Next, Life!Exit, lives
<1>3. CASE ~leaving /\ QuietStep
  <2>1. \A d \in Conns : LifeOf(d)' = LifeOf(d)
    BY <1>3, QuietKeeps DEF LifeOf
  <2> QED  BY <2>1, NobodyBecomes
<1>4. ASSUME ~leaving, NEW c \in Conns, IncomingConnection(c) PROVE Life!Accept(c)
  <2>1. /\ joining = Nobody /\ c # Nobody /\ c \notin sessions /\ c \notin wrappers /\ peer[c] # "freed"
    BY <1>0, <1>4, NobodyAssumption DEF IncomingConnection, LifeInv
  <2>2. /\ sessions' = sessions \union {c} /\ UNCHANGED <<peer, joining, leaving, wrappers>>
    BY <1>4 DEF IncomingConnection, connVars
  <2>3. LifeOf(c) = "absent" /\ LifeOf(c)' = "accepted"
    BY <1>4, <2>1, <2>2 DEF LifeOf
  <2>4. \A d \in Conns : d # c => LifeOf(d)' = LifeOf(d)
    BY <2>2 DEF LifeOf
  <2> QED  BY <2>3, <2>4, OneBecomes DEF Life!Accept
<1>5. ASSUME ~leaving, NEW c \in Conns, Activated(c) PROVE Life!Activate(c) \/ UNCHANGED lives
  <2>1. c \in sessions /\ joining = Nobody /\ c # Nobody /\ peer[c] # "freed"
    BY <1>5, HeadIsHeld, NobodyAssumption DEF Activated, LifeInv
  <2>2. wrappers' = wrappers \union {c} /\ UNCHANGED <<peer, joining, leaving, sessions>>
    BY <1>5 DEF Activated, connVars
  <2>3. LifeOf(c) \in {"accepted", "active"} /\ LifeOf(c)' = "active"
    BY <1>5, <2>1, <2>2 DEF LifeOf
  <2>4. \A d \in Conns : d # c => LifeOf(d)' = LifeOf(d)
    BY <2>2 DEF LifeOf
  <2>5. CASE LifeOf(c) = "accepted"
    BY <2>3, <2>4, <2>5, OneBecomes DEF Life!Activate
  <2>6. CASE LifeOf(c) = "active"
    BY <2>3, <2>4, <2>6, NobodyBecomes
  <2> QED  BY <2>3, <2>5, <2>6
<1>6. ASSUME ~leaving, NEW c \in Conns, Closed(c) PROVE Life!BeginEnd(c)
  <2>1. c \in sessions /\ joining = Nobody /\ c # Nobody /\ peer[c] # "freed"
    BY <1>6, HeadIsHeld, NobodyAssumption DEF Closed, LifeInv
  <2>2. /\ joining' = c /\ sessions' = sessions \ {c} /\ UNCHANGED <<leaving, wrappers>>
    BY <1>6 DEF Closed, BeginDestroy
  <2>3. \A d \in Conns : peer'[d] = "freed" <=> peer[d] = "freed"
    BY <1>0, <1>6 DEF Closed, BeginDestroy
  <2>4. LifeOf(c) \in {"accepted", "active"} /\ LifeOf(c)' = "ending"
    BY <1>6, <2>1, <2>2, <2>3 DEF LifeOf
  <2>5. \A d \in Conns : d # c => LifeOf(d)' = LifeOf(d)
    BY <2>1, <2>2, <2>3, NobodyAssumption DEF LifeOf
  <2> QED  BY <2>4, <2>5, OneBecomes DEF Life!BeginEnd
<1>7. ASSUME ~leaving, NEW c \in Conns, EndDestroy(c) PROVE Life!End(c) \/ UNCHANGED lives
  <2>1. joining = c /\ joining' = Nobody /\ wrappers' = wrappers \ {c} /\ UNCHANGED <<sessions, leaving>>
    BY <1>7 DEF EndDestroy
  <2>2. peer' = [peer EXCEPT ![c] = "freed"]
    BY <1>7 DEF EndDestroy
  <2>3. LifeOf(c) \in {"ending", "gone"} /\ LifeOf(c)' = "gone"
    BY <1>0, <1>7, <2>1, <2>2 DEF LifeOf
  <2>4. \A d \in Conns : d # c => LifeOf(d)' = LifeOf(d)
    BY <1>0, <2>1, <2>2, NobodyAssumption DEF LifeOf
  <2>5. CASE LifeOf(c) = "ending"
    BY <2>3, <2>4, <2>5, OneBecomes DEF Life!End
  <2>6. CASE LifeOf(c) = "gone"
    BY <2>3, <2>4, <2>6, NobodyBecomes
  <2> QED  BY <2>3, <2>5, <2>6
<1> QED  BY <1>1, <1>2, <1>3, <1>4, <1>5, <1>6, <1>7, NextSteps DEF Life!Next

\* Every connection goes through the life that ConnectionLife promises the main thread:
\* it is accepted and destroyed once, is active only in between, and is not seen again.
\* That a destructor which has begun comes to its end needs fairness, and is not part of it.
THEOREM LifeIsAsPromised == Spec => Life!Init /\ [][Life!Next]_lives
<1>1. Init => Life!Init /\ LifeInv
  <2> SUFFICES ASSUME Init PROVE Life!Init /\ LifeInv
    OBVIOUS
  <2>1. \A c \in Conns : LifeOf(c) = "absent"
    BY NobodyAssumption DEF Init, LifeOf
  <2> QED  BY <2>1 DEF Init, LifeInv, Life!Init
<1>2. IInv /\ LifeInv /\ [Next]_vars => LifeInv' /\ [Life!Next]_lives
  BY LifeInvNext, LifeSteps
<1> QED  BY <1>1, <1>2, ConnectionInvariant, PTL DEF Spec

-----------------------------------------------------------------------------
(***************************************************************************)
(* The signals in a queue: how they are found along it, and what a posted  *)
(* and a delivered event change.                                           *)
(***************************************************************************)
\* What is found with one more event.
Plus(found, e) == IF Signal(e) THEN Append(found, e) ELSE found

\* g holds what is found in the first elements of s.
Finds(g, s) == g[0] = <<>> /\ \A i \in 1..Len(s) : g[i] = Plus(g[i - 1], s[i])

LEMMA FindsExists ==
  ASSUME NEW S, NEW s \in Seq(S)
  PROVE  \E g \in [0..Len(s) -> Seq(S)] : Finds(g, s)
<1> DEFINE n == Len(s)
           F == [p \in (1..n) \X Seq(S) |-> Plus(p[2], s[p[1]])]
<1>1. n \in Nat /\ <<>> \in Seq(S)
  OBVIOUS
<1>2. F \in [(1..n) \X Seq(S) -> Seq(S)]
  BY DEF Plus
<1>3. \A i \in 1..n, q \in Seq(S) : F[<<i, q>>] = Plus(q, s[i])
  OBVIOUS
<1> HIDE DEF F, n
<1>4. PICK g \in [0..n -> Seq(S)] : IsIteration(g, n, <<>>, F)
  BY <1>1, <1>2, IterationExists
<1>5. ASSUME NEW i \in 1..n PROVE g[i] = Plus(g[i - 1], s[i])
  <2>1. i - 1 \in 0..n
    BY <1>1
  <2> QED  BY <1>3, <1>4, <2>1 DEF IsIteration
<1> QED  BY <1>4, <1>5 DEF Finds, IsIteration, n

\* There is one way to find them.
LEMMA FindsOne ==
  ASSUME NEW S, NEW s \in Seq(S), NEW f, NEW g, Finds(f, s), Finds(g, s)
  PROVE  f[Len(s)] = g[Len(s)]
<1> DEFINE n == Len(s)
           P == {i \in 0..n : f[i] = g[i]}
<1>1. n \in Nat /\ P \in SUBSET (0..n)
  OBVIOUS
<1>2. 0 \in P
  BY <1>1 DEF Finds
<1>3. ASSUME NEW i \in P, i < n PROVE i + 1 \in P
  <2>1. i + 1 \in 1..n /\ (i + 1) - 1 = i /\ f[i] = g[i]
    BY <1>1, <1>3
  <2>2. f[i + 1] = Plus(f[(i + 1) - 1], s[i + 1]) /\ g[i + 1] = Plus(g[(i + 1) - 1], s[i + 1])
    BY <2>1 DEF Finds
  <2>3. f[i + 1] = g[i + 1]
    BY <2>1, <2>2
  <2> QED  BY <2>1, <2>3
<1> HIDE DEF P
<1>4. n \in P
  BY <1>1, <1>2, <1>3, Upwards
<1> QED  BY <1>4 DEF P

LEMMA SignalsFound ==
  ASSUME NEW S, NEW s \in Seq(S)
  PROVE  /\ SignalsIn(s) \in Seq(S)
         /\ \A g : Finds(g, s) => SignalsIn(s) = g[Len(s)]
<1> DEFINE n == Len(s)
           Found(g, i) == IF i = 0 THEN <<>>
                          ELSE IF Signal(s[i]) THEN Append(g[i - 1], s[i]) ELSE g[i - 1]
           Is(g) == g = [i \in 0..n |-> Found(g, i)]
           f == CHOOSE g : Is(g)
<1>0. n \in Nat
  OBVIOUS
<1>1. PICK h \in [0..n -> Seq(S)] : Finds(h, s)
  BY FindsExists
<1>2. Is(h)
  <2>1. ASSUME NEW i \in 0..n PROVE h[i] = Found(h, i)
    <3>1. i # 0 => i \in 1..n
      BY <1>0
    <3> QED  BY <1>1, <3>1 DEF Finds, Plus
  <2>2. h = [i \in 0..n |-> h[i]]
    BY <1>1
  <2>3. [i \in 0..n |-> h[i]] = [i \in 0..n |-> Found(h, i)]
    BY <2>1
  <2> QED  BY <2>2, <2>3
<1>3. Is(f)
  <2> HIDE DEF Is
  <2> QED  BY <1>2, Zenon
<1>4. SignalsIn(s) = f[n]
  BY DEF SignalsIn
<1>5. \A i \in 0..n : f[i] = Found(f, i)
  <2> DEFINE t == [i \in 0..n |-> Found(f, i)]
  <2>1. f = t
    BY <1>3
  <2>2. \A i \in 0..n : t[i] = Found(f, i)
    OBVIOUS
  <2> HIDE DEF f, t, Found
  <2> QED  BY <2>1, <2>2
<1> HIDE DEF f
<1>6. Finds(f, s)
  <2>1. f[0] = <<>> /\ \A i \in 1..n : i \in 0..n /\ i # 0
    BY <1>0, <1>5
  <2> QED  BY <1>5, <2>1 DEF Finds, Plus
<1>7. f[n] = h[n] /\ n \in 0..n
  BY <1>0, <1>1, <1>6, FindsOne
<1>8. \A g : Finds(g, s) => f[n] = g[n]
  BY <1>6, FindsOne
<1> QED  BY <1>1, <1>4, <1>7, <1>8

\* A signal that is posted is the last one, and no other event is one.
LEMMA SignalsAppended ==
  ASSUME NEW S, NEW s \in Seq(S), NEW e \in S
  PROVE  SignalsIn(Append(s, e)) = Plus(SignalsIn(s), e)
<1> DEFINE n == Len(s)
           t == Append(s, e)
<1>1. /\ n \in Nat /\ t \in Seq(S) /\ Len(t) = n + 1 /\ t[n + 1] = e
      /\ \A i \in 1..n : t[i] = s[i]
  OBVIOUS
<1>2. PICK g \in [0..n -> Seq(S)] : Finds(g, s)
  BY FindsExists
<1> DEFINE h == [i \in 0..n + 1 |-> IF i = n + 1 THEN Plus(g[n], e) ELSE g[i]]
<1>3. h[n + 1] = Plus(g[n], e) /\ \A i \in 0..n : h[i] = g[i]
  BY <1>1
<1> HIDE DEF h, t
<1>4. h[0] = <<>>
  BY <1>1, <1>2, <1>3 DEF Finds
<1>5. ASSUME NEW i \in 1..n + 1 PROVE h[i] = Plus(h[i - 1], t[i])
  <2>1. CASE i = n + 1
    <3>1. i - 1 = n /\ n \in 0..n
      BY <1>1, <2>1
    <3> QED  BY <1>1, <1>3, <2>1, <3>1
  <2>2. CASE i # n + 1
    <3>1. i \in 1..n /\ i \in 0..n /\ i - 1 \in 0..n
      BY <1>1, <2>2
    <3> QED  BY <1>1, <1>2, <1>3, <3>1 DEF Finds
  <2> QED  BY <2>1, <2>2
<1>6. Finds(h, t)
  BY <1>1, <1>4, <1>5 DEF Finds
<1>7. SignalsIn(t) = h[n + 1] /\ SignalsIn(s) = g[n]
  BY <1>1, <1>2, <1>6, SignalsFound
<1> QED  BY <1>3, <1>7 DEF t

LEMMA AppendedBehind ==
  ASSUME NEW S, NEW q \in Seq(S), q # <<>>, NEW x \in S
  PROVE  /\ Append(q, x) \in Seq(S) /\ Append(q, x) # <<>> /\ Head(Append(q, x)) = Head(q)
         /\ Tail(Append(q, x)) = Append(Tail(q), x)
  OBVIOUS

\* A delivered signal was the first one.
LEMMA SignalsDelivered ==
  ASSUME NEW S, NEW s \in Seq(S), s # <<>>
  PROVE  IF Signal(Head(s))
         THEN /\ SignalsIn(s) # <<>> /\ Head(SignalsIn(s)) = Head(s)
              /\ SignalsIn(Tail(s)) = Tail(SignalsIn(s))
         ELSE SignalsIn(Tail(s)) = SignalsIn(s)
<1> DEFINE n == Len(s)
           t == Tail(s)
           e == Head(s)
<1>1. /\ n \in Nat /\ n >= 1 /\ t \in Seq(S) /\ Len(t) = n - 1 /\ e = s[1] /\ e \in S
      /\ \A i \in 1..n - 1 : t[i] = s[i + 1]
  OBVIOUS
<1>2. PICK g \in [0..n -> Seq(S)] : Finds(g, s)
  BY FindsExists
<1>3. g[1] = Plus(<<>>, e)
  BY <1>1, <1>2 DEF Finds
<1>4. SignalsIn(s) = g[n]
  BY <1>2, SignalsFound
<1> HIDE DEF n, t, e
<1>5. CASE ~Signal(e)
  <2> DEFINE h == [i \in 0..n - 1 |-> g[i + 1]]
  <2>1. \A i \in 0..n - 1 : h[i] = g[i + 1]
    OBVIOUS
  <2> HIDE DEF h
  <2>2. h[0] = <<>>
    BY <1>1, <1>3, <1>5, <2>1 DEF Plus
  <2>3. ASSUME NEW i \in 1..n - 1 PROVE h[i] = Plus(h[i - 1], t[i])
    <3>1. i \in 0..n - 1 /\ i - 1 \in 0..n - 1 /\ i + 1 \in 1..n /\ (i - 1) + 1 = i /\ (i + 1) - 1 = i
      BY <1>1
    <3>2. g[i + 1] = Plus(g[(i + 1) - 1], s[i + 1])
      BY <1>2, <3>1 DEF Finds, n
    <3>3. h[i] = g[i + 1] /\ h[i - 1] = g[(i - 1) + 1] /\ t[i] = s[i + 1]
      BY <1>1, <2>1, <3>1
    <3> QED  BY <3>1, <3>2, <3>3
  <2>4. Finds(h, t)
    BY <1>1, <2>2, <2>3 DEF Finds
  <2>5. SignalsIn(t) = h[n - 1] /\ n - 1 \in 0..n - 1 /\ (n - 1) + 1 = n
    <3>1. n - 1 \in 0..n - 1 /\ (n - 1) + 1 = n
      BY <1>1
    <3> QED  BY <1>1, <2>4, <3>1, SignalsFound
  <2> QED  BY <1>4, <1>5, <2>1, <2>5 DEF t, e
<1>6. CASE Signal(e)
  <2> DEFINE Begins(q) == q \in Seq(S) /\ q # <<>> /\ Head(q) = e
             P == {i \in 0..n : i = 0 \/ Begins(g[i])}
  <2>1. Begins(<<e>>) /\ Tail(<<e>>) = <<>>
    BY <1>1
  <2>2. ASSUME NEW q, Begins(q), NEW x \in S
        PROVE  Begins(Plus(q, x)) /\ Tail(Plus(q, x)) = Plus(Tail(q), x)
    <3>1. /\ Append(q, x) \in Seq(S) /\ Append(q, x) # <<>> /\ Head(Append(q, x)) = Head(q)
          /\ Tail(Append(q, x)) = Append(Tail(q), x)
      BY <2>2, AppendedBehind
    <3> QED  BY <2>2, <3>1 DEF Plus
  <2> HIDE DEF Begins
  <2>3. 0 \in P /\ P \in SUBSET (0..n)
    BY <1>1
  <2>4. ASSUME NEW i \in P, i < n PROVE i + 1 \in P
    <3>1. i \in 0..n /\ i + 1 \in 1..n /\ i + 1 \in 0..n /\ (i + 1) - 1 = i
      BY <1>1, <2>4
    <3>2. g[i + 1] = Plus(g[i], s[i + 1]) /\ s[i + 1] \in S
      BY <1>1, <1>2, <3>1 DEF Finds, n
    <3>3. CASE i = 0
      <4>1. g[i + 1] = <<e>>
        BY <1>3, <1>6, <3>3 DEF Plus
      <4> QED  BY <2>1, <3>1, <4>1
    <3>4. CASE i # 0
      BY <2>2, <3>1, <3>2, <3>4
    <3> QED  BY <3>3, <3>4
  <2> HIDE DEF P
  <2>5. P = 0..n
    BY <1>1, <2>3, <2>4, Upwards
  <2>6. ASSUME NEW i \in 1..n PROVE Begins(g[i])
    <3>1. i \in P /\ i # 0
      BY <1>1, <2>5
    <3> QED  BY <3>1 DEF P
  <2> DEFINE h == [i \in 0..n - 1 |-> Tail(g[i + 1])]
  <2>7. \A i \in 0..n - 1 : h[i] = Tail(g[i + 1])
    OBVIOUS
  <2> HIDE DEF h
  <2>8. h[0] = <<>>
    <3>1. g[1] = <<e>>
      BY <1>3, <1>6 DEF Plus
    <3>2. 0 \in 0..n - 1 /\ 0 + 1 = 1
      BY <1>1
    <3> QED  BY <2>1, <2>7, <3>1, <3>2
  <2>9. ASSUME NEW i \in 1..n - 1 PROVE h[i] = Plus(h[i - 1], t[i])
    <3>1. i \in 0..n - 1 /\ i - 1 \in 0..n - 1 /\ i + 1 \in 1..n /\ i \in 1..n
          /\ (i - 1) + 1 = i /\ (i + 1) - 1 = i
      BY <1>1
    <3>2. g[i + 1] = Plus(g[i], s[i + 1]) /\ s[i + 1] \in S /\ t[i] = s[i + 1]
      BY <1>1, <1>2, <3>1 DEF Finds, n
    <3>3. Tail(g[i + 1]) = Plus(Tail(g[i]), t[i])
      BY <2>2, <2>6, <3>1, <3>2
    <3> QED  BY <2>7, <3>1, <3>3
  <2>10. Finds(h, t)
    BY <1>1, <2>8, <2>9 DEF Finds
  <2>11. SignalsIn(t) = h[n - 1] /\ n - 1 \in 0..n - 1 /\ (n - 1) + 1 = n /\ n \in 1..n
    <3>1. n - 1 \in 0..n - 1 /\ (n - 1) + 1 = n /\ n \in 1..n
      BY <1>1
    <3> QED  BY <1>1, <2>10, <3>1, SignalsFound
  <2>12. SignalsIn(t) = Tail(SignalsIn(s)) /\ Begins(SignalsIn(s))
    BY <1>4, <2>6, <2>7, <2>11
  <2> QED  BY <1>6, <2>12 DEF Begins, t, e
<1> QED  BY <1>5, <1>6

-----------------------------------------------------------------------------
(***************************************************************************)
(* The connections as the controller hears of them. What it has been told  *)
(* and what is still in the queue come in the order of what happened.      *)
(***************************************************************************)
\* A connection is Closed when its thread has nothing more to say, and Activated only by a
\* client that has activated; one that the server does not hold is as it was made, or Closed.
SignalInv ==
    /\ \A c \in Conns : /\ state[c] = "Closed" <=> runStep[c] \in EndSteps
                        /\ state[c] = "Activated" => activations[c] > 0
                        /\ state[c] = "Initial" => activations[c] = 0
    /\ ~leaving => \A c \in Conns \ sessions : state[c] \in {"Initial", "Closed"}

heard  == [c \in Conns |-> SignalsOf(c)]
queued == IF leaving THEN <<>> ELSE SignalsIn(events)

LEMMA SignalInvMain ==
  ASSUME IInv, SignalInv, Main
  PROVE  SignalInv'
<1> USE DEF SignalInv, TypeOK
<1>0. TypeOK /\ EventInv /\ ThreadInv
  BY DEF IInv
<1>1. ASSUME NEW c \in Conns, Initialize(c) PROVE SignalInv'
  <2>1. state[c] = "Initial" /\ c \in sessions
    BY <1>0, <1>1, HeadSays, HeadIsHeld DEF Initialize, Says
  <2>2. runStep[c] = "none"
    BY <1>0, <2>1 DEF ThreadInv
  <2> QED  BY <1>0, <1>1, <2>1, <2>2 DEF Initialize, EndSteps
<1>2. ASSUME NEW c \in Conns, AnswerCall(c) PROVE SignalInv'
  <2>1. runStep[c] = "blocked"
    BY <1>0, <1>2, HeadSays DEF AnswerCall, Says
  <2> QED  BY <1>0, <1>2, <2>1 DEF AnswerCall, EndSteps
<1>3. ASSUME NEW c \in Conns, Closed(c) PROVE SignalInv'
  <2>1. runStep[c] \in EndSteps
    BY <1>0, <1>3, HeadSays DEF Closed, Says
  <2> QED  BY <1>0, <1>3, <2>1 DEF Closed, BeginDestroy
<1>4. ASSUME NEW c \in Conns,
             \/ Activated(c) \/ AnswerClipboard(c) \/ StreamClosed(c) \/ DestroyServer(c)
             \/ EndDestroy(c) \/ IncomingConnection(c) \/ Close(c)
      PROVE  SignalInv'
  BY <1>4 DEF Activated, AnswerClipboard, StreamClosed, DestroyServer, BeginDestroy, EndDestroy,
              IncomingConnection, Close, connVars, mainVars
<1>5. ASSUME Quit PROVE SignalInv'
  BY <1>5 DEF Quit, connVars
<1> QED  BY <1>1, <1>2, <1>3, <1>4, <1>5 DEF Main, Deliver, Destroy

LEMMA SignalInvRun ==
  ASSUME IInv, SignalInv, NEW c \in Conns, Run(c)
  PROVE  SignalInv'
<1> USE DEF SignalInv, TypeOK
<1>0. TypeOK /\ ThreadInv
  BY DEF IInv
<1>1. CASE RunStart(c) \/ OnActivate(c) \/ Channels(c) \/ SetClosed(c)
  <2>1. runStep[c] \notin EndSteps \union {"none"} /\ (~leaving => c \in sessions)
    BY <1>1 DEF RunStart, OnActivate, Channels, SetClosed, Goto, EndSteps, IInv, HeldInv
  <2>2. CASE RunStart(c)
    BY <1>0, <2>1, <2>2 DEF RunStart, Goto, EndSteps, mainVars
  <2>3. CASE OnActivate(c)
    BY <1>0, <2>1, <2>3 DEF OnActivate, EndSteps
  <2>4. CASE Channels(c)
    BY <1>0, <2>1, <2>4 DEF Channels, Goto, EndSteps, mainVars
  <2>5. CASE SetClosed(c)
    BY <1>0, <2>1, <2>5 DEF SetClosed, Goto, EndSteps
  <2> QED  BY <1>1, <2>2, <2>3, <2>4, <2>5
<1>2. CASE \/ LoopHead(c) \/ Wake(c) \/ ReadFails(c) \/ ReadDone(c) \/ ClosePeer(c)
           \/ StopClipboard(c) \/ CloseStream(c) \/ RunReturns(c) \/ CallMain(c)
  BY <1>0, <1>2 DEF LoopHead, Wake, ReadFails, ReadDone, ClosePeer, StopClipboard, CloseStream,
                    RunReturns, CallMain, Goto, EndSteps, mainVars
<1>3. CASE RefuseGraphics(c) \/ CallFromClipboard(c)
  BY <1>3 DEF RefuseGraphics, CallFromClipboard, mainVars
<1> QED  BY <1>1, <1>2, <1>3 DEF Run, Proceed

LEMMA SignalInvNext ==
  ASSUME IInv, SignalInv, [Next]_vars
  PROVE  SignalInv'
<1>1. CASE UNCHANGED vars
  BY <1>1 DEF SignalInv, vars, connVars, mainVars
<1> QED  BY <1>1, SignalInvMain, SignalInvRun DEF Next

LEMMA SignalPosted ==
  ASSUME TypeOK, NEW c \in Conns, NEW what \in Requests, Post(c, what)
  PROVE  SignalsIn(events') = Plus(SignalsIn(events), [conn |-> c, what |-> what])
<1>1. [conn |-> c, what |-> what] \in Event /\ events \in Seq(Event)
  BY DEF Event, TypeOK
<1> QED  BY <1>1, SignalsAppended DEF Post

LEMMA SignalTaken ==
  ASSUME TypeOK, NEW c \in Conns, NEW what, Posted(c, what), events' = Tail(events)
  PROVE  IF what \in {"Activated", "Closed"}
         THEN /\ SignalsIn(events) # <<>> /\ Head(SignalsIn(events)) = [conn |-> c, what |-> what]
              /\ SignalsIn(events') = Tail(SignalsIn(events))
         ELSE SignalsIn(events') = SignalsIn(events)
<1>1. events \in Seq(Event)
  BY DEF Event, TypeOK
<1>2. events # <<>> /\ Head(events) = [conn |-> c, what |-> what]
  BY DEF Posted
<1> QED  BY <1>1, <1>2, SignalsDelivered DEF Signal

\* One connection is heard of, and of the others there is nothing new.
LEMMA OneIsHeard ==
  ASSUME NEW c \in Conns, NEW from, NEW to, SignalsOf(c) \in from, SignalsOf(c)' = to,
         \A d \in Conns : d # c => SignalsOf(d)' = SignalsOf(d)
  PROVE  Signals!Become(c, from, to)
<1>1. heard' = [d \in Conns |-> IF d = c THEN to ELSE SignalsOf(d)]
  BY DEF heard
<1>2. heard' = [heard EXCEPT ![c] = to] /\ heard[c] \in from
  BY <1>1 DEF heard
<1> QED  BY <1>2 DEF Signals!Become, heard

LEMMA NobodyIsHeard ==
  ASSUME \A d \in Conns : SignalsOf(d)' = SignalsOf(d)
  PROVE  UNCHANGED heard
  BY DEF heard

LEMMA SignalQueued ==
  ASSUME IInv, ~leaving, ~leaving', NEW c \in Conns, NEW what \in {"Activated", "Closed"}, Post(c, what)
  PROVE  Signals!Queue(c, what)
<1>1. SignalsIn(events') = Append(SignalsIn(events), [conn |-> c, what |-> what])
  BY SignalPosted DEF IInv, Requests, Plus, Signal
<1> QED  BY <1>1 DEF Signals!Queue

LEMMA SignalHandled ==
  ASSUME IInv, ~leaving', NEW c \in Conns, NEW what \in {"Activated", "Closed"},
         Posted(c, what), events' = Tail(events)
  PROVE  Signals!Take(c, what)
<1>1. ~leaving
  BY DEF Posted
<1> QED  BY <1>1, SignalTaken DEF IInv, Signals!Take

\* The steps that the controller hears nothing of.
Unheard(c) ==
    \/ Initialize(c) \/ AnswerCall(c) \/ AnswerClipboard(c) \/ StreamClosed(c)
    \/ EndDestroy(c) \/ Close(c)
    \/ RunStart(c) \/ LoopHead(c) \/ Wake(c) \/ ReadFails(c) \/ ReadDone(c) \/ Channels(c)
    \/ ClosePeer(c) \/ StopClipboard(c) \/ CloseStream(c) \/ RunReturns(c)
    \/ CallMain(c) \/ RefuseGraphics(c) \/ CallFromClipboard(c)

LEMMA UnheardConnections ==
  ASSUME IInv, SignalInv, ~leaving, NEW c \in Conns, Unheard(c)
  PROVE  UNCHANGED heard /\ ~leaving'
<1> USE DEF TypeOK
<1>0. TypeOK /\ EventInv
  BY DEF IInv
<1>1. ASSUME UNCHANGED <<activations, sessions, leaving>>,
             \A d \in Conns : state'[d] = "Closed" <=> state[d] = "Closed"
      PROVE  UNCHANGED heard /\ ~leaving'
  <2>1. \A d \in Conns : SignalsOf(d)' = SignalsOf(d)
    BY <1>1 DEF SignalsOf
  <2> QED  BY <1>1, <2>1, NobodyIsHeard
<1>2. CASE Initialize(c)
  <2>1. state[c] = "Initial"
    BY <1>0, <1>2, HeadSays DEF Initialize, Says
  <2> QED  BY <1>0, <1>1, <1>2, <2>1 DEF Initialize
<1>3. CASE RunStart(c) \/ Channels(c)
  <2>1. state[c] # "Closed"
    BY <1>3 DEF RunStart, Channels, Goto, SignalInv, EndSteps
  <2> QED  BY <1>0, <1>1, <1>3, <2>1 DEF RunStart, Channels, mainVars
<1>4. CASE \/ AnswerCall(c) \/ AnswerClipboard(c) \/ StreamClosed(c) \/ EndDestroy(c) \/ Close(c)
           \/ LoopHead(c) \/ Wake(c) \/ ReadFails(c) \/ ReadDone(c) \/ ClosePeer(c)
           \/ StopClipboard(c) \/ CloseStream(c) \/ RunReturns(c) \/ CallMain(c)
           \/ RefuseGraphics(c) \/ CallFromClipboard(c)
  BY <1>1, <1>4 DEF AnswerCall, AnswerClipboard, StreamClosed, EndDestroy, Close,
       LoopHead, Wake, ReadFails, ReadDone, ClosePeer, StopClipboard, CloseStream, RunReturns,
       CallMain, RefuseGraphics, CallFromClipboard, mainVars
<1> QED  BY <1>2, <1>3, <1>4 DEF Unheard

LEMMA UnheardEvents ==
  ASSUME IInv, ~leaving, NEW c \in Conns, Unheard(c)
  PROVE  SignalsIn(events') = SignalsIn(events)
<1>0. TypeOK
  BY DEF IInv
<1>1. CASE Initialize(c) \/ AnswerCall(c) \/ AnswerClipboard(c) \/ StreamClosed(c)
  <2>1. PICK what \in {"initialize", "call", "clipboard", "streamClosed"} :
           Posted(c, what) /\ events' = Tail(events)
    BY <1>1 DEF Initialize, AnswerCall, AnswerClipboard, StreamClosed
  <2> QED  BY <1>0, <2>1, SignalTaken
<1>2. CASE CloseStream(c) \/ CallMain(c) \/ CallFromClipboard(c)
  <2>1. PICK what \in {"call", "clipboard", "streamClosed"} : Post(c, what)
    BY <1>2 DEF CloseStream, CallMain, CallFromClipboard
  <2> QED  BY <1>0, <2>1, SignalPosted DEF Requests, Plus, Signal
<1>3. CASE EndDestroy(c)
  BY <1>3, NothingToRemove DEF IInv
<1>4. CASE \/ Close(c) \/ RunStart(c) \/ LoopHead(c) \/ Wake(c) \/ ReadFails(c) \/ ReadDone(c)
           \/ Channels(c) \/ ClosePeer(c) \/ StopClipboard(c) \/ RunReturns(c) \/ RefuseGraphics(c)
  BY <1>4 DEF Close, RunStart, LoopHead, Wake, ReadFails, ReadDone, Channels, ClosePeer,
       StopClipboard, RunReturns, RefuseGraphics, mainVars
<1> QED  BY <1>1, <1>2, <1>3, <1>4 DEF Unheard

LEMMA StepsHeard ==
  ASSUME [Next]_vars, ~leaving
  PROVE  \/ UNCHANGED vars \/ Quit
         \/ \E c \in Conns : \/ Unheard(c) \/ IncomingConnection(c) \/ Activated(c) \/ Closed(c)
                             \/ OnActivate(c) \/ SetClosed(c)
  BY DEF Next, Main, Deliver, Destroy, DestroyServer, Run, Proceed, Unheard

LEMMA SignalSteps ==
  ASSUME IInv, SignalInv, [Next]_vars
  PROVE  [Signals!Next]_(Signals!signalVars)
<1> USE DEF TypeOK
<1>0. TypeOK /\ EventInv /\ HeldInv
  BY DEF IInv
<1>1. CASE leaving
  <2>1. leaving'
    BY <1>1, LeavingStays
  <2>2. \A d \in Conns : SignalsOf(d)' = SignalsOf(d)
    BY <1>1, <2>1 DEF SignalsOf
  <2> QED  BY <1>1, <2>1, <2>2, NobodyIsHeard DEF Signals!signalVars, heard
<1>2. CASE Quit
  <2>1. leaving'
    BY <1>2 DEF Quit
  <2>2. heard' = [d \in Conns |-> "gone"]
    BY <2>1 DEF heard, SignalsOf
  <2> QED  BY <2>1, <2>2 DEF Signals!Next, Signals!Exit, heard
<1>3. CASE UNCHANGED vars
  <2>1. \A d \in Conns : SignalsOf(d)' = SignalsOf(d)
    BY <1>3 DEF SignalsOf, vars, connVars, mainVars
  <2>2. queued' = queued
    BY <1>3 DEF queued, vars, mainVars
  <2> QED  BY <2>1, <2>2, NobodyIsHeard DEF Signals!signalVars, heard, queued
<1>4. ASSUME ~leaving, NEW c \in Conns, Unheard(c) PROVE UNCHANGED Signals!signalVars
  BY <1>4, UnheardConnections, UnheardEvents DEF Signals!signalVars, heard
<1>5. ASSUME ~leaving, NEW c \in Conns, IncomingConnection(c) PROVE Signals!Connect(c)
  <2>1. /\ state[c] = "Initial" /\ c \notin sessions /\ sessions' = sessions \union {c}
        /\ ~leaving' /\ UNCHANGED <<state, activations>> /\ Post(c, "initialize")
    BY <1>5 DEF IncomingConnection, connVars
  <2>2. SignalsOf(c) = "absent" /\ SignalsOf(c)' = "accepted"
    BY <1>0, <1>5, <2>1 DEF SignalsOf, SignalInv
  <2>3. \A d \in Conns : d # c => SignalsOf(d)' = SignalsOf(d)
    BY <1>5, <2>1 DEF SignalsOf
  <2>4. SignalsIn(events') = SignalsIn(events)
    BY <1>0, <2>1, SignalPosted DEF Requests, Plus, Signal
  <2> QED  BY <1>5, <2>1, <2>2, <2>3, <2>4, OneIsHeard DEF Signals!Connect
<1>6. ASSUME ~leaving, NEW c \in Conns, Activated(c) PROVE Signals!TakeActivated(c)
  <2>1. UNCHANGED <<state, sessions, activations, leaving>>
    BY <1>6 DEF Activated, connVars
  <2>2. \A d \in Conns : SignalsOf(d)' = SignalsOf(d)
    BY <2>1 DEF SignalsOf
  <2>3. Signals!Take(c, "Activated")
    BY <1>6, <2>1, SignalHandled DEF Activated
  <2> QED  BY <2>2, <2>3, NobodyIsHeard DEF Signals!TakeActivated, heard
<1>7. ASSUME ~leaving, NEW c \in Conns, Closed(c) PROVE Signals!TakeClosed(c)
  <2>1. runStep[c] \in EndSteps
    BY <1>0, <1>7, HeadSays DEF Closed, Says
  <2>2. /\ sessions' = sessions \ {c} /\ UNCHANGED <<state, activations, leaving>>
    BY <1>7 DEF Closed, BeginDestroy
  <2>3. SignalsOf(c)' = "gone"
    BY <1>7, <2>1, <2>2 DEF SignalsOf, SignalInv
  <2>4. \A d \in Conns : d # c => SignalsOf(d)' = SignalsOf(d)
    BY <2>2 DEF SignalsOf
  <2>5. heard' = [heard EXCEPT ![c] = "gone"]
    BY <2>3, <2>4 DEF heard
  <2>6. Signals!Take(c, "Closed")
    BY <1>7, <2>2, SignalHandled DEF Closed
  <2> QED  BY <2>5, <2>6 DEF Signals!TakeClosed, heard
<1>8. ASSUME ~leaving, NEW c \in Conns, OnActivate(c)
      PROVE  Signals!Activate(c) \/ UNCHANGED Signals!signalVars
  <2>1. /\ state' = [state EXCEPT ![c] = "Activated"]
        /\ activations' = [activations EXCEPT ![c] = @ + 1]
        /\ UNCHANGED <<sessions, leaving>>
    BY <1>8 DEF OnActivate
  <2>2. c \in sessions /\ state[c] # "Closed"
    BY <1>0, <1>8 DEF OnActivate, SignalInv, HeldInv, EndSteps
  <2>3. activations[c] \in Nat /\ activations'[c] > 0 /\ state'[c] # "Closed"
    BY <1>0, <2>1, BoundsAssumption
  <2>4. SignalsOf(c) \in {"accepted", "active"} /\ SignalsOf(c)' = "active"
    BY <1>8, <2>1, <2>2, <2>3 DEF SignalsOf
  <2>5. \A d \in Conns : d # c => SignalsOf(d)' = SignalsOf(d)
    BY <1>0, <2>1 DEF SignalsOf
  <2>6. CASE state[c] = "Activated"
    <3>1. SignalsOf(c) = "active"
      BY <1>8, <2>2, <2>6 DEF SignalsOf, SignalInv
    <3>2. UNCHANGED events
      BY <1>8, <2>6 DEF OnActivate
    <3>3. \A d \in Conns : SignalsOf(d)' = SignalsOf(d)
      BY <2>4, <2>5, <3>1
    <3>4. queued' = queued
      BY <2>1, <3>2 DEF queued
    <3> QED  BY <3>3, <3>4, NobodyIsHeard DEF Signals!signalVars, heard, queued
  <2>7. CASE state[c] # "Activated"
    <3>1. Post(c, "Activated")
      BY <1>8, <2>7 DEF OnActivate
    <3>2. Signals!Queue(c, "Activated")
      BY <1>8, <2>1, <3>1, SignalQueued
    <3> QED  BY <2>4, <2>5, <3>2, OneIsHeard DEF Signals!Activate
  <2> QED  BY <2>6, <2>7
<1>9. ASSUME ~leaving, NEW c \in Conns, SetClosed(c) PROVE Signals!EndRun(c)
  <2>1. /\ state' = [state EXCEPT ![c] = "Closed"] /\ Post(c, "Closed")
        /\ UNCHANGED <<activations, sessions, leaving>>
    BY <1>9 DEF SetClosed
  <2>2. c \in sessions /\ state[c] # "Closed"
    BY <1>0, <1>9 DEF SetClosed, Goto, SignalInv, HeldInv, EndSteps
  <2>3. SignalsOf(c) \in {"accepted", "active"} /\ SignalsOf(c)' = "closed"
    BY <1>0, <1>9, <2>1, <2>2 DEF SignalsOf
  <2>4. \A d \in Conns : d # c => SignalsOf(d)' = SignalsOf(d)
    BY <1>0, <2>1 DEF SignalsOf
  <2>5. Signals!Queue(c, "Closed")
    BY <1>9, <2>1, SignalQueued
  <2> QED  BY <2>3, <2>4, <2>5, OneIsHeard DEF Signals!EndRun
<1> QED  BY <1>1, <1>2, <1>3, <1>4, <1>5, <1>6, <1>7, <1>8, <1>9, StepsHeard DEF Signals!Next

\* The controller hears of every connection what ConnectionSignals says: that it activated
\* before it is Closed, and of its Closed once and last, in the order in which the threads
\* of the connections came to it, whatever else is in the queue of the event loop.
THEOREM SignalsAsPromised == Spec => Signals!Spec
<1>1. Init => Signals!Init /\ SignalInv
  <2> SUFFICES ASSUME Init PROVE Signals!Init /\ SignalInv
    OBVIOUS
  <2>1. \A c \in Conns : SignalsOf(c) = "absent"
    BY DEF Init, SignalsOf
  <2>2. SignalsIn(<<>>) = <<>>
    <3> DEFINE g == [i \in 0..0 |-> <<>>]
    <3>1. Finds(g, <<>>) /\ g[0] = <<>>
      BY DEF Finds
    <3> QED  BY <3>1, SignalsFound
  <2> QED  BY <2>1, <2>2 DEF Init, SignalInv, EndSteps, Signals!Init
<1>2. IInv /\ SignalInv /\ [Next]_vars => SignalInv' /\ [Signals!Next]_(Signals!signalVars)
  BY SignalInvNext, SignalSteps
<1> QED  BY <1>1, <1>2, ConnectionInvariant, PTL DEF Spec, Signals!Spec

-----------------------------------------------------------------------------
(***************************************************************************)
(* What StopDestroys rests on: what the main thread has to do for a        *)
(* connection is in its queue. That it comes to it needs fairness, and is  *)
(* checked.                                                                *)
(***************************************************************************)
Queued(c, what) == \E i \in DOMAIN events : events[i] = [conn |-> c, what |-> what]

\* A thread that waits for the main thread, a connection that is to be set up and one whose
\* thread is done, each have an event in the queue, as long as there is an event loop.
Served ==
    ~leaving => \A c \in Conns :
        /\ runStep[c] = "blocked" => Queued(c, "call")
        /\ clip[c] = "blocked" => Queued(c, "clipboard")
        /\ c \in sessions /\ state[c] = "Initial" => Queued(c, "initialize")
        /\ c \in sessions /\ runStep[c] \in EndSteps => Queued(c, "Closed")

LEMMA QueuedByPost ==
  ASSUME TypeOK, NEW c \in Conns, NEW what \in Requests, Post(c, what)
  PROVE  Queued(c, what)' /\ \A d, w : Queued(d, w) => Queued(d, w)'
<1> DEFINE e == [conn |-> c, what |-> what]
           n == Len(events)
<1>1. e \in Event /\ events \in Seq(Event) /\ events' = Append(events, e)
  BY DEF Event, TypeOK, Post
<1>2. /\ n \in Nat /\ DOMAIN events = 1..n /\ DOMAIN events' = 1..n + 1
      /\ events'[n + 1] = e /\ \A i \in 1..n : events'[i] = events[i]
  BY <1>1
<1>3. n + 1 \in 1..n + 1 /\ \A i \in 1..n : i \in 1..n + 1
  BY <1>2
<1> HIDE DEF n
<1> QED  BY <1>2, <1>3 DEF Queued

LEMMA QueuedBehind ==
  ASSUME TypeOK, NEW c \in Conns, NEW what, Posted(c, what), events' = Tail(events), NEW d, NEW w,
         d # c \/ w # what, Queued(d, w)
  PROVE  Queued(d, w)'
<1>1. events \in Seq(Event) /\ events # <<>> /\ Head(events) = [conn |-> c, what |-> what]
  BY DEF Event, TypeOK, Posted
<1>2. PICK i \in DOMAIN events : events[i] = [conn |-> d, what |-> w]
  BY DEF Queued
<1>3. i # 1
  <2>1. Head(events) = events[1]
    BY <1>1
  <2>2. events[i].conn = d /\ events[i].what = w /\ Head(events).conn = c /\ Head(events).what = what
    BY <1>1, <1>2
  <2> QED  BY <2>1, <2>2
<1>4. i - 1 \in DOMAIN Tail(events) /\ Tail(events)[i - 1] = events[i]
  BY <1>1, <1>3
<1> QED  BY <1>2, <1>4 DEF Queued

\* Nobody else has to be served, and what is queued stays so, or is not needed any more.
LEMMA ServedKept ==
  ASSUME Served, UNCHANGED leaving,
         \A c \in Conns :
             /\ runStep'[c] = "blocked" => runStep[c] = "blocked"
             /\ clip'[c] = "blocked" => clip[c] = "blocked"
             /\ c \in sessions' /\ state'[c] = "Initial" => c \in sessions /\ state[c] = "Initial"
             /\ c \in sessions' /\ runStep'[c] \in EndSteps => c \in sessions /\ runStep[c] \in EndSteps,
         \A c \in Conns :
             /\ runStep'[c] = "blocked" /\ Queued(c, "call") => Queued(c, "call")'
             /\ clip'[c] = "blocked" /\ Queued(c, "clipboard") => Queued(c, "clipboard")'
             /\ state'[c] = "Initial" /\ Queued(c, "initialize") => Queued(c, "initialize")'
             /\ c \in sessions' /\ Queued(c, "Closed") => Queued(c, "Closed")'
  PROVE  Served'
  BY DEF Served

LEMMA ServedMain ==
  ASSUME IInv, Served, ~leaving, Main, ~Quit
  PROVE  Served'
<1> USE DEF TypeOK
<1>0. TypeOK /\ EventInv /\ ThreadInv
  BY DEF IInv
<1>1. ASSUME NEW c \in Conns,
             \/ Initialize(c) \/ AnswerCall(c) \/ AnswerClipboard(c) \/ Activated(c) \/ StreamClosed(c)
             \/ Closed(c)
      PROVE  Served'
  <2>1. PICK what \in {"initialize", "call", "clipboard", "Activated", "streamClosed", "Closed"} :
           /\ Posted(c, what) /\ events' = Tail(events)
           /\ what = "initialize" => Initialize(c)
           /\ what = "call" => AnswerCall(c)
           /\ what = "clipboard" => AnswerClipboard(c)
           /\ what = "Activated" => Activated(c)
           /\ what = "streamClosed" => StreamClosed(c)
           /\ what = "Closed" => Closed(c)
    BY <1>1 DEF Initialize, AnswerCall, AnswerClipboard, Activated, StreamClosed, Closed
  <2>2. \A d, w : Queued(d, w) /\ (d # c \/ w # what) => Queued(d, w)'
    BY <1>0, <2>1, QueuedBehind
  <2>3. CASE what = "initialize"
    <3>1. state[c] = "Initial" /\ runStep[c] = "none"
      BY <1>0, <2>1, <2>3, HeadSays DEF Says, ThreadInv
    <3> QED  BY <1>0, <2>1, <2>2, <2>3, <3>1, ServedKept DEF Initialize, EndSteps
  <2>4. CASE what = "call"
    BY <1>0, <2>1, <2>2, <2>4, ServedKept DEF AnswerCall, EndSteps
  <2>5. CASE what = "clipboard"
    BY <1>0, <2>1, <2>2, <2>5, ServedKept DEF AnswerClipboard
  <2>6. CASE what \in {"Activated", "streamClosed"}
    <3>1. UNCHANGED <<runStep, clip, state, sessions, leaving>>
      BY <2>1, <2>6 DEF Activated, StreamClosed, connVars
    <3> QED  BY <2>2, <2>6, <3>1, ServedKept
  <2>7. CASE what = "Closed"
    <3>1. UNCHANGED <<runStep, clip, state, leaving>> /\ sessions' = sessions \ {c}
      BY <2>1, <2>7 DEF Closed, BeginDestroy
    <3> QED  BY <2>2, <2>7, <3>1, ServedKept
  <2> QED  BY <2>3, <2>4, <2>5, <2>6, <2>7
<1>2. ASSUME NEW c \in Conns, EndDestroy(c) \/ Close(c)
      PROVE  Served'
  <2>1. events' = events
    BY <1>2, NothingToRemove DEF IInv, Close, mainVars
  <2>2. UNCHANGED <<runStep, clip, state, sessions, leaving>>
    BY <1>2 DEF EndDestroy, Close, mainVars
  <2> QED  BY <2>1, <2>2, ServedKept DEF Queued
<1>3. ASSUME NEW c \in Conns, IncomingConnection(c)
      PROVE  Served'
  <2>1. /\ sessions' = sessions \union {c} /\ state[c] = "Initial" /\ Post(c, "initialize")
        /\ UNCHANGED <<runStep, clip, state, leaving>>
    BY <1>3 DEF IncomingConnection, connVars
  <2>2. runStep[c] = "none"
    BY <1>0, <2>1 DEF ThreadInv
  <2>3. Queued(c, "initialize")' /\ \A d, w : Queued(d, w) => Queued(d, w)'
    BY <1>0, <2>1, QueuedByPost DEF Requests
  <2> QED  BY <2>1, <2>2, <2>3 DEF Served, EndSteps
<1> QED  BY <1>1, <1>2, <1>3 DEF Main, Deliver, Destroy, DestroyServer

LEMMA ServedRun ==
  ASSUME IInv, Served, NEW c \in Conns, Run(c)
  PROVE  Served'
<1> USE DEF TypeOK
<1>0. TypeOK /\ ThreadInv
  BY DEF IInv
<1>1. CASE \/ RunStart(c) \/ LoopHead(c) \/ Wake(c) \/ ReadFails(c) \/ ReadDone(c) \/ Channels(c)
           \/ ClosePeer(c) \/ StopClipboard(c) \/ RunReturns(c) \/ RefuseGraphics(c)
  <2>1. UNCHANGED <<events, sessions, leaving>>
    BY <1>1 DEF RunStart, LoopHead, Wake, ReadFails, ReadDone, Channels, ClosePeer, StopClipboard,
         RunReturns, RefuseGraphics, mainVars
  <2>2. \A d \in Conns :
             /\ runStep'[d] = "blocked" => runStep[d] = "blocked"
             /\ clip'[d] = "blocked" => clip[d] = "blocked"
             /\ state'[d] = "Initial" => state[d] = "Initial"
             /\ runStep'[d] \in EndSteps => runStep[d] \in EndSteps
    BY <1>0, <1>1 DEF RunStart, LoopHead, Wake, ReadFails, ReadDone, Channels, ClosePeer, StopClipboard,
         RunReturns, RefuseGraphics, Goto, EndSteps
  <2> QED  BY <2>1, <2>2, ServedKept DEF Queued
<1>2. ASSUME NEW what \in Requests, Post(c, what), UNCHANGED <<sessions, leaving>>,
             \A d \in Conns :
               /\ runStep'[d] = "blocked" => runStep[d] = "blocked" \/ (d = c /\ what = "call")
               /\ clip'[d] = "blocked" => clip[d] = "blocked" \/ (d = c /\ what = "clipboard")
               /\ state'[d] = "Initial" => state[d] = "Initial"
               /\ runStep'[d] \in EndSteps => runStep[d] \in EndSteps \/ (d = c /\ what = "Closed")
      PROVE  Served'
  BY <1>0, <1>2, QueuedByPost DEF Served
<1>3. CASE CallMain(c)
  BY <1>0, <1>2, <1>3 DEF CallMain, Goto, EndSteps, Requests
<1>4. CASE CallFromClipboard(c)
  BY <1>0, <1>2, <1>4 DEF CallFromClipboard, Requests
<1>5. CASE CloseStream(c)
  BY <1>0, <1>2, <1>5 DEF CloseStream, Goto, EndSteps, Requests
<1>6. CASE SetClosed(c)
  BY <1>0, <1>2, <1>6 DEF SetClosed, Goto, EndSteps, Requests
<1>7. CASE OnActivate(c)
  <2>1. /\ UNCHANGED <<runStep, clip, sessions, leaving>>
        /\ \A d \in Conns : state'[d] = "Initial" => state[d] = "Initial"
    BY <1>0, <1>7 DEF OnActivate
  <2>2. CASE events' = events
    BY <2>1, <2>2, ServedKept DEF Queued
  <2>3. CASE Post(c, "Activated")
    BY <1>2, <2>1, <2>3 DEF Requests
  <2> QED  BY <1>7, <2>2, <2>3 DEF OnActivate
<1> QED  BY <1>1, <1>3, <1>4, <1>5, <1>6, <1>7 DEF Run, Proceed

\* While the event loop runs, no thread waits for an answer that nobody is going to give it,
\* and no connection whose thread has ended is left behind: what the main thread must do for
\* it is in the queue, whatever was delivered and removed before. It is why StopDestroys
\* holds, and it does not hold once the loop is left, see QuitCompletes.
THEOREM NobodyWaitsInVain == Spec => []Served
<1>1. Init => Served
  BY DEF Init, Served
<1>2. IInv /\ Served /\ [Next]_vars => Served'
  <2> SUFFICES ASSUME IInv, Served, [Next]_vars PROVE Served'
    OBVIOUS
  <2>1. CASE leaving \/ Quit
    <3>1. leaving'
      BY <2>1, LeavingStays DEF Quit
    <3> QED  BY <3>1 DEF Served
  <2>2. CASE UNCHANGED vars
    BY <2>2 DEF Served, Queued, vars, connVars, mainVars
  <2> QED  BY <2>1, <2>2, ServedMain, ServedRun DEF Next
<1> QED  BY <1>1, <1>2, ConnectionInvariant, PTL DEF Spec
=============================================================================
