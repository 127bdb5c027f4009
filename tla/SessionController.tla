-------------------------- MODULE SessionController --------------------------
(***************************************************************************)
(* Who may use the desktop session (src/server/SessionController.cpp): the *)
(* controller gives every authenticated connection a session wrapper, lets *)
(* a new client take over, has the seat switched to the greeter and the    *)
(* desktop session unlocked and locked, and disconnects the clients when   *)
(* somebody is back at the seat. It runs on the main thread; it learns of  *)
(* connections by queued signals, and of the seat by D-Bus signals, and    *)
(* its calls to the display manager and to logind are not waited for: an   *)
(* error that one of them is answered with is only logged.                 *)
(***************************************************************************)
EXTENDS Integers, Sequences, SequencesExt, FiniteSets

CONSTANTS
    Conns,
    OperatingMode,      \* "RemoteAccess", "SharedAccess" or "AdditionalDisplay"
    MonitorOverride,    \* --monitor or --virtual-monitor was given
    MaxActivations,     \* bound: activations of all connections
    MaxLogins,          \* bound: log-ins at the seat
    CanError,           \* a session may report an error
    CanRefuse           \* a call may be answered with an error

ASSUME ModeAssumption == OperatingMode \in {"RemoteAccess", "SharedAccess", "AdditionalDisplay"}
ASSUME FlagAssumption ==
    MonitorOverride \in BOOLEAN /\ CanError \in BOOLEAN /\ CanRefuse \in BOOLEAN
ASSUME LimitAssumption == MaxActivations \in Nat /\ MaxLogins \in Nat

VARIABLES
    conn,           \* each connection: "absent", "accepted", "active", "closed", "gone"
    stop,           \* it was asked to stop
    activations,    \* so far; a client may activate again
    events,         \* stateChanged signals queued for the main thread
    wrappers,       \* m_wrappers, by their connections
    greeterCalls,   \* SwitchToGreeter calls under way to the display manager
    lockCalls,      \* Lock and Unlock calls under way to logind, in order
    watching,       \* logind has been asked to tell of changes of Active
    signals,        \* those changes, under way
    seatActive,     \* the desktop session is the one at the seat
    unlockedBy,     \* who unlocked it last; "nobody": it is locked
    logins,
    unheeded        \* "lock", "greeter": the last such call that was answered (since a
                    \* log-in) was refused; "watch": no signal told of the last log-in

connVars == <<conn, stop, activations>>
busVars  == <<greeterCalls, lockCalls>>
seatVars == <<watching, signals, seatActive, unlockedBy, logins, unheeded>>
vars == <<connVars, events, wrappers, busVars, seatVars>>

\* The user has logged in at the seat, and nobody is connected.
Init ==
    /\ conn = [c \in Conns |-> "absent"] /\ stop = [c \in Conns |-> FALSE]
    /\ activations = 0
    /\ events = <<>> /\ wrappers = <<>>
    /\ greeterCalls = 0 /\ lockCalls = <<>>
    /\ watching = FALSE /\ signals = <<>>
    /\ seatActive = TRUE /\ unlockedBy = "user" /\ logins = 0 /\ unheeded = {}

HasWrapper(c) == c \in Range(wrappers)

\* RdpConnection implements this too, for as long as the server runs.
Signals == INSTANCE ConnectionSignals

-----------------------------------------------------------------------------
(* Connections: their run threads, and what the controller hears of them *)

Connect(c) == Signals!Connect(c) /\ UNCHANGED <<stop, activations, wrappers, busVars, seatVars>>

\* Authentication is over when a client activates.
Activate(c) ==
    /\ activations < MaxActivations /\ activations' = activations + 1
    /\ Signals!Activate(c)
    /\ UNCHANGED <<stop, wrappers, busVars, seatVars>>

\* The run thread ends, for a client that is gone, that was refused, or because
\* it was asked to.
EndRun(c) == Signals!EndRun(c) /\ UNCHANGED <<stop, activations, wrappers, busVars, seatVars>>

-----------------------------------------------------------------------------
(* The controller, on the main thread *)

\* RdpConnection::close for each connection of C that is not Closed yet.
CloseAll(C) == stop' = [c \in Conns |-> stop[c] \/ (c \in C /\ conn[c] # "closed")]

\* Mutant of TakeOver: the clients that are there stay.
TakeOverSharing ==
    /\ greeterCalls' = greeterCalls + 1
    /\ lockCalls' = Append(lockCalls, "Unlock")
    /\ UNCHANGED stop

\* In remote access a new client takes over from those that have a session.
TakeOver ==
    /\ CloseAll(Range(wrappers))
    /\ greeterCalls' = greeterCalls + 1
    /\ lockCalls' = Append(lockCalls, "Unlock")

\* Mutant of OnActivated: the new wrapper is there when the others are closed.
OnActivatedPushFirst(c) ==
    /\ Signals!TakeActivated(c)
    /\ wrappers' = Append(wrappers, c)
    /\ IF OperatingMode = "RemoteAccess" /\ ~MonitorOverride
       THEN /\ CloseAll(Range(wrappers) \union {c})
            /\ greeterCalls' = greeterCalls + 1
            /\ lockCalls' = Append(lockCalls, "Unlock")
       ELSE UNCHANGED <<stop, busVars>>
    /\ UNCHANGED <<activations, seatVars>>

\* onNewConnection's handler of Activated: the mode counts only when no monitor
\* was chosen on the command line.
OnActivated(c) ==
    /\ Signals!TakeActivated(c)
    /\ IF OperatingMode = "RemoteAccess" /\ ~MonitorOverride
       THEN TakeOver
       ELSE UNCHANGED <<stop, busVars>>
    /\ wrappers' = Append(wrappers, c)
    /\ UNCHANGED <<activations, seatVars>>

\* Mutants of LockAfter: the session is locked whenever a client leaves; it is
\* never locked.
LockAfterEvery(left) == OperatingMode = "RemoteAccess"
LockAfterNone(left) == FALSE

\* Whether the session is locked when these wrappers are left.
LockAfter(left) == left = <<>> /\ OperatingMode = "RemoteAccess"

\* The wrappers of all connections but c, in their order.
Without(s, c) ==
    LET left[i \in 0..Len(s)] ==
          IF i = 0 THEN <<>>
          ELSE IF s[i] = c THEN left[i - 1] ELSE Append(left[i - 1], s[i])
    IN left[Len(s)]

\* Mutant of OnClosed: the wrapper of a connection that is destroyed stays.
OnClosedKeepingWrapper(c) ==
    /\ Signals!TakeClosed(c)
    /\ UNCHANGED <<stop, activations, wrappers, busVars, seatVars>>

\* The server destroys a connection that is Closed, which takes its wrappers
\* along (onConnectionDestroyed).
OnClosed(c) ==
    /\ Signals!TakeClosed(c)
    /\ IF HasWrapper(c)
       THEN /\ wrappers' = Without(wrappers, c)
            /\ lockCalls' = IF LockAfter(wrappers') THEN Append(lockCalls, "Lock") ELSE lockCalls
       ELSE UNCHANGED <<wrappers, lockCalls>>
    /\ UNCHANGED <<stop, activations, greeterCalls, seatVars>>

\* The session, or the encoder, cannot go on.
OnSessionError(c) ==
    /\ CanError /\ HasWrapper(c) /\ ~stop[c] /\ conn[c] # "closed"
    /\ CloseAll({c})
    /\ UNCHANGED <<conn, activations, events, wrappers, busVars, seatVars>>

\* Mutant of OnSessionPropertiesChanged: what is left at the seat is noticed, and
\* not what is taken up.
OnSessionInactive ==
    /\ signals # <<>>
    /\ signals' = Tail(signals)
    /\ IF OperatingMode = "RemoteAccess" /\ ~Head(signals)
       THEN CloseAll(Range(wrappers))
       ELSE UNCHANGED stop
    /\ UNCHANGED <<conn, activations, events, wrappers, busVars>>
    /\ UNCHANGED <<watching, seatActive, unlockedBy, logins, unheeded>>

\* The logind session has changed: somebody logged in at the seat if it became
\* active.
OnSessionPropertiesChanged ==
    /\ signals # <<>>
    /\ signals' = Tail(signals)
    /\ IF OperatingMode = "RemoteAccess" /\ Head(signals)
       THEN CloseAll(Range(wrappers))
       ELSE UNCHANGED stop
    /\ UNCHANGED <<conn, activations, events, wrappers, busVars>>
    /\ UNCHANGED <<watching, seatActive, unlockedBy, logins, unheeded>>

-----------------------------------------------------------------------------
(* The display manager, logind and the seat, which are not krdp's *)

\* logind signals a change of Active to those that watch it.
SetActive(b) ==
    /\ seatActive' = b
    /\ signals' = IF watching /\ seatActive # b THEN Append(signals, b) ELSE signals

\* logind has answered with the path of the session (watchSessionActive): the
\* signals of a session that it does not find are never heard.
WatchSessionActive ==
    /\ ~watching /\ watching' = TRUE
    /\ UNCHANGED <<connVars, events, wrappers, busVars>>
    /\ UNCHANGED <<signals, seatActive, unlockedBy, logins, unheeded>>

ServeGreeter ==
    /\ greeterCalls > 0
    /\ greeterCalls' = greeterCalls - 1
    /\ \/ /\ SetActive(FALSE)
          /\ unheeded' = unheeded \ {"greeter", "watch"}
       \/ /\ CanRefuse
          /\ unheeded' = unheeded \union {"greeter"}
          /\ UNCHANGED <<signals, seatActive>>
    /\ UNCHANGED <<connVars, events, wrappers, lockCalls, watching, unlockedBy, logins>>

ServeLock ==
    /\ lockCalls # <<>>
    /\ lockCalls' = Tail(lockCalls)
    /\ \/ /\ unlockedBy' = IF Head(lockCalls) = "Lock" THEN "nobody" ELSE "client"
          /\ unheeded' = unheeded \ {"lock"}
       \/ /\ CanRefuse
          /\ unheeded' = unheeded \union {"lock"}
          /\ UNCHANGED unlockedBy
    /\ UNCHANGED <<connVars, events, wrappers, greeterCalls, watching, signals, seatActive, logins>>

LogIn ==
    /\ ~seatActive /\ logins < MaxLogins
    /\ logins' = logins + 1
    /\ SetActive(TRUE)
    /\ unlockedBy' = "user"
    /\ unheeded' = (unheeded \ {"greeter"}) \union IF watching THEN {} ELSE {"watch"}
    /\ UNCHANGED <<connVars, events, wrappers, busVars, watching>>

-----------------------------------------------------------------------------
Controller ==
    \/ \E c \in Conns : OnActivated(c) \/ OnClosed(c)
    \/ OnSessionPropertiesChanged

Next ==
    \/ \E c \in Conns : Connect(c) \/ Activate(c) \/ EndRun(c) \/ OnSessionError(c)
    \/ Controller
    \/ WatchSessionActive \/ ServeGreeter \/ ServeLock \/ LogIn

Spec == Init /\ [][Next]_vars

(***************************************************************************)
(* Fairness: the event loop delivers, a connection that was asked to stop  *)
(* ends (RdpConnection's StopDestroys), and the services answer, be it     *)
(* with an error.                                                          *)
(***************************************************************************)
FairSpec ==
    /\ Spec
    /\ WF_vars(\E c \in Conns : OnActivated(c) \/ OnClosed(c))
    /\ WF_vars(OnSessionPropertiesChanged)
    /\ \A c \in Conns : WF_vars(stop[c] /\ EndRun(c))
    /\ WF_vars(ServeGreeter) /\ WF_vars(ServeLock)

-----------------------------------------------------------------------------
(* Properties *)

\* Every variable stays in its range; every wrapper belongs to a connection that is
\* not destroyed yet.
TypeOK ==
    /\ conn \in [Conns -> {"absent", "accepted", "active", "closed", "gone"}]
    /\ stop \in [Conns -> BOOLEAN] /\ activations \in 0..MaxActivations
    /\ events \in Seq([conn : Conns, what : {"Activated", "Closed"}])
    /\ wrappers \in Seq({c \in Conns : conn[c] \in {"active", "closed"}})
    /\ greeterCalls \in Nat /\ lockCalls \in Seq({"Lock", "Unlock"})
    /\ watching \in BOOLEAN /\ signals \in Seq(BOOLEAN) /\ seatActive \in BOOLEAN
    /\ unlockedBy \in {"user", "client", "nobody"} /\ logins \in 0..MaxLogins
    /\ unheeded \subseteq {"greeter", "lock", "watch"}

\* In remote access one client has control: every other one that still has a
\* session was asked to stop, or has ended (the loop of onNewConnection).
OneController ==
    OperatingMode = "RemoteAccess" /\ ~MonitorOverride =>
        \A i \in 1..Len(wrappers) - 1 : stop[wrappers[i]] \/ conn[wrappers[i]] = "closed"

\* A client that takes over is not closed by its own take-over.
NewcomerStays ==
    [][\A c \in Conns : ~HasWrapper(c) /\ HasWrapper(c)' => stop'[c] = stop[c]]_vars

\* What a client unlocked is locked when the last client has left, whatever the
\* order in which clients take over from one another and end, and unless logind
\* refused the call.
LeftLocked ==
    wrappers = <<>> /\ lockCalls = <<>> => unlockedBy # "client" \/ "lock" \in unheeded

\* While a client has control, the last thing logind was asked for is to unlock: a
\* client that leaves does not lock the session under the one that took over.
UsableWhileConnected ==
    OperatingMode = "RemoteAccess" /\ ~MonitorOverride /\ wrappers # <<>> /\ lockCalls = <<>> =>
        unlockedBy # "nobody" \/ "lock" \in unheeded

\* In remote access the seat does not stay with the desktop session while clients
\* are connected: either it shows the greeter, or the clients are disconnected. All
\* that prevents it is a display manager that refuses to switch, and a log-in of
\* which the controller is not told, because it does not watch the session yet.
SeatGivenUp ==
    OperatingMode = "RemoteAccess" =>
        ((seatActive /\ wrappers # <<>>)
            ~> (~seatActive \/ wrappers = <<>> \/ unheeded \intersect {"greeter", "watch"} # {}))
=============================================================================
