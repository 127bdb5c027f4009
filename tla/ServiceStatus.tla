----------------------------- MODULE ServiceStatus -----------------------------
(***************************************************************************)
(* The status of the server as the settings module shows it                *)
(* (src/src/kcm/kcmkrdpserver.cpp): the unit of systemd is told over D-Bus *)
(* to start and stop, and asked for its state, with replies and signals    *)
(* that arrive in the order systemd sends them.                            *)
(***************************************************************************)
EXTENDS Integers, Sequences

CONSTANTS
    MaxClicks,      \* bound: times the server is started, stopped or restarted
    MaxInvocations  \* bound: invocations after which a crash starts no other

ASSUME ClicksAssumption == MaxClicks \in Nat /\ MaxInvocations \in Nat

VARIABLES
    unit,           \* the ActiveState of the unit
    again,          \* it starts again when it has stopped
    invocation,     \* how often it has been started
    toSystemd, toSettings,      \* D-Bus
    status,         \* m_currentServerStatus
    errorOf,        \* the invocation whose error message is shown
    clicks

unitVars == <<unit, again, invocation>>
shownVars == <<status, errorOf>>
statusVars == <<unitVars, toSystemd, toSettings, shownVars, clicks>>

Statuses == {"Unknown", "Running", "Stopped", "Failed"}

\* The page asks for the status when it is complete. Nothing initializes the status
\* before: it may have any value.
StatusInit ==
    /\ unit = "inactive" /\ again = FALSE /\ invocation = 0
    /\ toSystemd = <<"Get">> /\ toSettings = <<>>
    /\ status \in Statuses /\ errorOf = 0
    /\ clicks = 0

-----------------------------------------------------------------------------
(* The status, in the settings module *)

Click == clicks < MaxClicks /\ clicks' = clicks + 1

\* toggleServer: the status is asked for although it cannot have changed yet.
ToggleServer ==
    /\ Click
    /\ \E call \in {"Start", "Stop"} : toSystemd' = toSystemd \o <<call, "Get">>
    /\ UNCHANGED <<unitVars, toSettings, shownVars>>

RestartServer ==
    /\ Click
    /\ toSystemd' = Append(toSystemd, "Restart")
    /\ UNCHANGED <<unitVars, toSettings, shownVars>>

Told(type) == toSettings # <<>> /\ Head(toSettings).type = type /\ toSettings' = Tail(toSettings)

\* Mutant of OnTold: a change of the unit is not asked about.
OnToldRestarted ==
    /\ Told("changed") \/ Told("restarted")
    /\ toSystemd' = IF Head(toSettings).type = "restarted" THEN Append(toSystemd, "Get")
                    ELSE toSystemd
    /\ UNCHANGED <<clicks, unitVars, shownVars>>

\* servicePropertiesChanged, and the reply to a restart: updateServerStatus.
OnTold ==
    /\ Told("changed") \/ Told("restarted")
    /\ toSystemd' = Append(toSystemd, "Get")
    /\ UNCHANGED <<clicks, unitVars, shownVars>>

StatusOf(state) ==
    CASE state = "active"   -> "Running"
      [] state = "failed"   -> "Failed"
      [] state = "inactive" -> "Stopped"
      [] OTHER              -> "Unknown"

\* The reply to updateServerStatus. Of a failed unit the invocation is asked for.
OnState ==
    /\ Told("state")
    /\ status' = StatusOf(Head(toSettings).state)
    /\ toSystemd' = IF status' = "Failed" THEN Append(toSystemd, "GetInvocation") ELSE toSystemd
    /\ UNCHANGED <<clicks, unitVars, errorOf>>

\* setErrorMessage, with the messages of that invocation in the journal.
OnInvocation ==
    /\ Told("invocation")
    /\ errorOf' = Head(toSettings).invocation
    /\ UNCHANGED <<clicks, unitVars, toSystemd, status>>

-----------------------------------------------------------------------------
(* systemd *)

Changed(replies) == toSettings' = toSettings \o replies \o <<[type |-> "changed"]>>

Receives(call) == toSystemd # <<>> /\ Head(toSystemd) = call /\ toSystemd' = Tail(toSystemd)

AnswerGet ==
    /\ \/ /\ Receives("Get")
          /\ toSettings' = Append(toSettings, [type |-> "state", state |-> unit])
       \/ /\ Receives("GetInvocation")
          /\ toSettings' = Append(toSettings, [type |-> "invocation", invocation |-> invocation])
    /\ UNCHANGED <<clicks, unitVars, shownVars>>

Down == unit \in {"inactive", "failed"}

\* A call that changes nothing is answered too; nobody waits for those answers.
AnswerStart ==
    /\ Receives("Start") \/ Receives("Restart")
    /\ LET reply == IF Head(toSystemd) = "Restart" THEN <<[type |-> "restarted"]>> ELSE <<>>
       IN  IF Down \/ (unit = "active" /\ Head(toSystemd) = "Restart")
           THEN /\ unit' = IF Down THEN "activating" ELSE "deactivating"
                /\ again' = ~Down
                /\ Changed(reply)
           ELSE /\ again' = (again \/ unit = "deactivating")
                /\ toSettings' = toSettings \o reply /\ UNCHANGED unit
    /\ UNCHANGED <<clicks, invocation, shownVars>>

AnswerStop ==
    /\ Receives("Stop")
    /\ again' = FALSE
    /\ IF unit \in {"active", "activating"}
       THEN unit' = "deactivating" /\ Changed(<<>>)
       ELSE UNCHANGED <<unit, toSettings>>
    /\ UNCHANGED <<clicks, invocation, shownVars>>

UnitStarts ==
    /\ unit = "activating"
    /\ unit' = "active" /\ invocation' = invocation + 1 /\ Changed(<<>>)
    /\ UNCHANGED <<clicks, again, toSystemd, shownVars>>

UnitStops ==
    /\ unit = "deactivating"
    /\ unit' = (IF again THEN "activating" ELSE "inactive") /\ again' = FALSE
    /\ Changed(<<>>)
    /\ UNCHANGED <<clicks, invocation, toSystemd, shownVars>>

\* The server has nobody who may log in or cannot listen, or it crashes and is started
\* again, which the unit asks for.
UnitFails ==
    /\ unit = "active"
    /\ \/ unit' = "failed"
       \/ unit' = "activating" /\ invocation < MaxInvocations
    /\ Changed(<<>>)
    /\ UNCHANGED <<clicks, again, invocation, toSystemd, shownVars>>

-----------------------------------------------------------------------------
StatusNext ==
    \/ ToggleServer \/ RestartServer \/ OnTold \/ OnState \/ OnInvocation
    \/ AnswerGet \/ AnswerStart \/ AnswerStop \/ UnitStarts \/ UnitStops \/ UnitFails

StatusSpec == StatusInit /\ [][StatusNext]_statusVars
-----------------------------------------------------------------------------
(* Properties *)

\* Every variable stays in its range.
StatusTypeOK ==
    /\ unit \in {"inactive", "activating", "active", "deactivating", "failed"}
    /\ status \in Statuses /\ errorOf <= invocation /\ (again => unit = "deactivating")

\* Once nothing is under way on the bus, the status is that of the unit, whatever it was
\* before, and the error message shown with a failure is that of the run that failed.
StatusIsShown ==
    toSystemd = <<>> /\ toSettings = <<>> =>
        status = StatusOf(unit) /\ (status = "Failed" => errorOf = invocation)
=============================================================================
