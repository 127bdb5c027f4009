---------------------------- MODULE StreamControl ----------------------------
(***************************************************************************)
(* When the desktop is captured: whether PipeWire's stream or encoder runs *)
(* depends on the client, which enables and suppresses its output on the   *)
(* run thread, on the graphics channel, which settles the encoding mode,   *)
(* and on the session, which learns of a PipeWire node at some time. Here  *)
(* are the steps of src/src/VideoStream.cpp, src/src/VideoStreamSurface.cpp*)
(* and of SessionWrapper in src/server/SessionController.cpp that bring    *)
(* the three together. Session puts them in motion.                        *)
(***************************************************************************)
EXTENDS Integers

CONSTANTS
    MaxSignals,     \* bound: enabledChanged signals queued
    CanFailSource   \* PipeWire may refuse a stream for its node

ASSUME SignalAssumption == MaxSignals \in Nat \ {0} /\ CanFailSource \in BOOLEAN

VARIABLES
    conn,               \* "running", "stopping", "closed" (the run thread is over), "gone"
    wrapper,            \* the SessionWrapper: "absent", "alive", "gone"
    enabled,            \* VideoStream: the client wants its output
    enabledSignals,     \* enabledChanged signals queued for the wrapper
    streamingEnabled,
    sessionStarted,     \* m_sessionStarted
    source,             \* the surface knows a PipeWire node
    mode,               \* activeEncodingMode
    encoder             \* encodedStream or sourceStream: "none", "idle", "running"

streamVars == <<enabled, enabledSignals, streamingEnabled, sessionStarted, source, mode, encoder>>

NoMode == "none"
Modes  == {"H264", "Progressive"}

StreamTypeOK ==
    /\ conn \in {"running", "stopping", "closed", "gone"}
    /\ wrapper \in {"absent", "alive", "gone"}
    /\ {enabled, streamingEnabled, sessionStarted, source} \subseteq BOOLEAN
    /\ enabledSignals \in 0..MaxSignals
    /\ mode \in Modes \union {NoMode}
    /\ encoder \in {"none", "idle", "running"}

StreamInit ==
    /\ conn = "running" /\ wrapper = "absent"
    /\ enabled = FALSE /\ enabledSignals = 0 /\ streamingEnabled = FALSE
    /\ sessionStarted = FALSE /\ source = FALSE
    /\ mode = NoMode /\ encoder = "none"

\* Close(reason): the run thread is asked to stop; a connection that is closed is left alone.
Stopped == IF conn = "running" THEN "stopping" ELSE conn

\* What the capture does when told that streaming is on, if there is one.
Told(on) == IF encoder = "none" THEN "none" ELSE IF on THEN "running" ELSE "idle"

-----------------------------------------------------------------------------
(* The run thread *)

\* The channels are ready, or the client allows or suppresses its output. The
\* signal reaches a wrapper that is connected to it, on the main thread.
SetEnabled(on) ==
    /\ conn = "running" /\ enabled # on /\ enabledSignals < MaxSignals
    /\ enabled' = on
    /\ enabledSignals' = IF wrapper = "alive" THEN enabledSignals + 1 ELSE enabledSignals
    /\ UNCHANGED <<conn, wrapper, streamingEnabled, sessionStarted, source, mode, encoder>>

\* VideoStream::close, when the connection's thread ends.
CloseStream ==
    /\ conn \in {"running", "stopping"}
    /\ conn' = "closed"
    /\ mode' = NoMode
    /\ encoder' = Told(FALSE)
    /\ UNCHANGED <<wrapper, enabled, enabledSignals, streamingEnabled, sessionStarted, source>>

-----------------------------------------------------------------------------
(* The main thread *)

OnVideoStreamEnabledChanged ==
    /\ wrapper = "alive" /\ enabledSignals > 0
    /\ enabledSignals' = enabledSignals - 1
    /\ LET on == sessionStarted /\ enabled
       IN /\ streamingEnabled' = on
          /\ encoder' = IF on = streamingEnabled THEN encoder ELSE Told(on /\ source)
    /\ UNCHANGED <<conn, wrapper, enabled, sessionStarted, source, mode>>

\* Mutant: the wrapper leaves it to the next enabledChanged to start streaming.
SourceOnly ==
    /\ sessionStarted' = TRUE /\ source' = TRUE
    /\ encoder' = Told(streamingEnabled)
    /\ UNCHANGED <<conn, wrapper, enabled, enabledSignals, streamingEnabled, mode>>

\* The session has a node: setPipeWireSource, then setStreamingEnabled. A
\* source stream that cannot be created fails the connection.
OnSessionStarted ==
    /\ sessionStarted' = TRUE /\ source' = TRUE
    /\ streamingEnabled' = enabled
    /\ \/ /\ encoder' = Told(enabled) /\ UNCHANGED conn
       \/ /\ CanFailSource /\ mode = "Progressive" /\ conn' = Stopped
          /\ encoder' = IF enabled = streamingEnabled THEN encoder ELSE Told(enabled)
    /\ UNCHANGED <<wrapper, enabled, enabledSignals, mode>>

\* The graphics channel has settled a mode, and waits for the main thread: a
\* new encoder or source stream takes the place of the other one.
SetActiveEncodingMode(m) ==
    /\ conn \in {"running", "stopping"} /\ m # mode
    /\ mode' = m
    /\ \/ /\ encoder' = (IF streamingEnabled /\ source THEN "running" ELSE "idle")
          /\ UNCHANGED conn
       \/ /\ CanFailSource /\ m = "Progressive" /\ source
          /\ encoder' = "idle" /\ conn' = Stopped
    /\ UNCHANGED <<wrapper, enabled, enabledSignals, streamingEnabled, sessionStarted, source>>

-----------------------------------------------------------------------------
(* Properties *)

\* Once every enabledChanged has been delivered, the desktop is captured
\* exactly if the client wants its output, the session has started and a mode
\* is settled, in whatever order the three have come about: a signal emitted
\* before the wrapper was there to hear it is made up for when the session
\* starts, and a new encoder starts by itself.
CapturesWhenWanted ==
    conn = "running" /\ wrapper = "alive" /\ enabledSignals = 0 =>
        (encoder = "running" <=> enabled /\ sessionStarted /\ mode # NoMode)
=============================================================================
