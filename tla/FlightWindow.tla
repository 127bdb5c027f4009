----------------------------- MODULE FlightWindow -----------------------------
(***************************************************************************)
(* How many frames may be in flight (src/src/VideoStream.cpp): as many as  *)
(* are produced in one round trip, by two estimates that are smoothed on   *)
(* the main thread. VideoStream lets this number be any in a range; here   *)
(* is what makes it one. Times are in units of which UnitsPerSecond make a *)
(* second, rates are frames per second, both rounded.                      *)
(***************************************************************************)
EXTENDS Bounds

CONSTANTS
    WindowFloor,        \* MaximumInFlightFrames
    UnitsPerSecond,
    MinimumRate,        \* MinimumWindowFrameRate
    RequestedRate,      \* requestedFrameRate, which nothing changes
    MinimumValidRtt, MaximumValidRtt,
    Rates,              \* what the source may produce; 0 is an idle source
    RoundTrips          \* averages that NetworkDetection may publish; 0 is none

ASSUME WindowFloorAssumption ==
    /\ {WindowFloor, UnitsPerSecond, MinimumRate} \subseteq Nat \ {0}
    /\ {RequestedRate, MinimumValidRtt, MaximumValidRtt} \subseteq Nat
    /\ Rates \subseteq Nat /\ RoundTrips \subseteq Nat

Unknown == -1

VARIABLES
    inFlightLimit,      \* maxInFlight
    producerFps,        \* smoothedProducerFps, or Unknown before the first call
    smoothedRtt,        \* or Unknown
    baseRtt             \* the least of the session, or Unknown

windowVars == <<inFlightLimit, producerFps, smoothedRtt, baseRtt>>

WindowInit ==
    inFlightLimit = WindowFloor /\ producerFps = Unknown /\ smoothedRtt = Unknown /\ baseRtt = Unknown

CeilDiv(a, b) == (a + b - 1) \div b
Between(a, b) == Lesser(a, b)..Greater(a, b)

\* effectiveProducerFps: the rate that was asked for at first, then a smoothed one; an
\* idle source does not lower it.
Smoothed(old, rate) ==
    IF old = Unknown THEN {Greater(RequestedRate, MinimumRate)}
    ELSE IF rate = 0 THEN {old} ELSE Between(old, rate)

EffectiveFps(fps) == Clamp(fps, MinimumRate, Greater(MinimumRate, RequestedRate))

\* What is produced in one round trip, but not less than the floor nor more than is
\* produced in a second.
Limit(fps, rtt) ==
    Clamp(CeilDiv(fps * rtt, UnitsPerSecond), WindowFloor, Greater(WindowFloor, fps))

\* updateInFlightWindow, on rttChanged. A round trip that is not plausible gives the floor.
ResizeWindow(rate, rtt) ==
    /\ producerFps' \in Smoothed(producerFps, rate)
    /\ IF rtt >= MinimumValidRtt /\ rtt < MaximumValidRtt
       THEN /\ baseRtt' = IF baseRtt = Unknown THEN rtt ELSE Lesser(baseRtt, rtt)
            /\ smoothedRtt' \in IF smoothedRtt = Unknown THEN {rtt} ELSE Between(smoothedRtt, rtt)
            /\ inFlightLimit' = Limit(EffectiveFps(producerFps'), Greater(baseRtt', smoothedRtt'))
       ELSE inFlightLimit' = WindowFloor /\ UNCHANGED <<baseRtt, smoothedRtt>>

WindowNext == \E rate \in Rates, rtt \in RoundTrips : ResizeWindow(rate, rtt)

WindowSpec == WindowInit /\ [][WindowNext]_windowVars
-----------------------------------------------------------------------------
(* Properties *)

\* Every variable stays in its range, and the smoothed round trip time is never
\* below the least of the session.
WindowTypeOK ==
    /\ inFlightLimit \in Nat /\ producerFps \in Nat \union {Unknown}
    /\ smoothedRtt \in Nat \union {Unknown} /\ baseRtt \in Nat \union {Unknown}
    /\ baseRtt <= smoothedRtt

\* Whatever is measured, the window is at least the floor and holds at most a second of
\* frames at the rate that was asked for: it is in the range that VideoStream assumes,
\* so that what is shown there of every window holds for these.
WindowInRange == inFlightLimit \in WindowFloor..Greater(WindowFloor, Greater(MinimumRate, RequestedRate))
=============================================================================
