------------------------------ MODULE MCServices ------------------------------
(***************************************************************************)
(* The components that share no state, each on its own, in one run for     *)
(* TLC: a behaviour is one of the part it has chosen. What else the others *)
(* may choose initially, they do not choose then.                          *)
(***************************************************************************)
EXTENDS Cursor, Clipboard, NetworkDetection, AdaptiveQuality, FlightWindow, Logins, ServiceStatus,
    InputDevices

Parts == {"cursor", "clipboard", "network", "quality", "window", "logins", "status", "input"}

VARIABLE part

\* A mouse, a tablet that can also type, and a device for characters alone.
CONSTANTS mouse, tablet, board

DeviceCapabilities ==
    (mouse :> {"pointer", "button"}) @@ (tablet :> {"pointer", "button", "text"}) @@ (board :> {"text"})

ServicesInit ==
    /\ part \in Parts
    /\ Init /\ ClipboardInit /\ NetworkInit /\ QualityInit /\ WindowInit /\ LoginsInit /\ StatusInit
    /\ InputInit
    /\ part = "clipboard" \/ ~mayCross
    /\ part = "network" \/ ~answering
    /\ part = "quality" \/ settings = CHOOSE s \in [adaptive : {TRUE}, quality : Qualities] : TRUE
    /\ part = "status" \/ status = "Unknown"

\* The steps of the parts, by name, and what the other parts keep.
Kept(others) ==
    /\ UNCHANGED part
    /\ "cursor" \in others => UNCHANGED vars
    /\ "clipboard" \in others => UNCHANGED clipboardVars
    /\ "network" \in others => UNCHANGED networkVars
    /\ "quality" \in others => UNCHANGED adaptiveVars
    /\ "window" \in others => UNCHANGED windowVars
    /\ "logins" \in others => UNCHANGED loginVars
    /\ "status" \in others => UNCHANGED statusVars
    /\ "input" \in others => UNCHANGED inputVars

Step(name) == part = name /\ Kept(Parts \ {name})

ServicesNext ==
    \/ Next          /\ Step("cursor")
    \/ ClipboardNext /\ Step("clipboard")
    \/ NetworkNext   /\ Step("network")
    \/ QualityNext   /\ Step("quality")
    \/ WindowNext    /\ Step("window")
    \/ LoginsNext    /\ Step("logins")
    \/ StatusNext    /\ Step("status")
    \/ InputNext     /\ Step("input")

allVars == <<part, vars, clipboardVars, networkVars, adaptiveVars, windowVars, loginVars, statusVars,
             inputVars>>

\* The fairness of each part, while it is the one that runs.
ServicesFairness ==
    /\ WF_clipboardVars(part = "clipboard" /\ MainThread)
    /\ WF_clipboardVars(part = "clipboard" /\ CallMainThread)
    /\ WF_clipboardVars(part = "clipboard" /\ Client)
    /\ WF_networkVars(part = "network" /\ NetworkUpdate)
    /\ WF_networkVars(part = "network" /\ OnRttMeasureResponse)
    /\ WF_networkVars(part = "network" /\ \E empty \in BOOLEAN : OnBandwidthMeasureResults(empty))
    /\ WF_networkVars(part = "network" /\ Tick)
    /\ WF_adaptiveVars(part = "quality" /\ Handle)
    /\ WF_adaptiveVars(part = "quality" /\ Rest)
    /\ WF_adaptiveVars(part = "quality" /\ StoreAverage)

ServicesSpec == ServicesInit /\ [][ServicesNext]_allVars /\ ServicesFairness

\* Every variable of every part stays in its range; for the window that range is the one
\* VideoStream assumes.
ServicesTypeOK ==
    /\ TypeOK /\ ClipboardTypeOK /\ NetworkTypeOK /\ QualityTypeOK /\ WindowTypeOK
    /\ LoginsTypeOK /\ StatusTypeOK /\ InputTypeOK
    /\ NoEcho /\ WindowInRange
=============================================================================
