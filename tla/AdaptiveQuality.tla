---------------------------- MODULE AdaptiveQuality ----------------------------
(***************************************************************************)
(* The quality of the encoder of one connection (src/src/VideoStream.cpp): *)
(* configured by the controller when the client activates, seeded from the *)
(* kind of its network, and adapted to what NetworkDetection measures. All *)
(* of that is done by the main thread; the run thread posts it, and stores *)
(* the measured values one by one.                                         *)
(***************************************************************************)
EXTENDS Bounds, Sequences

CONSTANTS
    MinAdaptiveQuality, QualityStepUp, QualityStepDown,
    ByteSize,           \* 2^8, of a quality
    Qualities,          \* what may be configured
    Seeds,              \* qualities for kinds of networks
    Shares,             \* measured bandwidth, in percent of what quality 100 takes
    Rtts,               \* measured round trip times; 0 is none
    MaxActivations,     \* bound: activations of the client
    MaxChanges          \* bound: changes of the network, the surface and the mode

ASSUME QualityAssumption ==
    /\ MinAdaptiveQuality \in 0..ByteSize - 1 /\ ByteSize \in Nat
    /\ {QualityStepUp, QualityStepDown} \subseteq Nat \ {0}
    /\ Qualities \subseteq Nat /\ Seeds \subseteq 0..ByteSize - 1
    /\ Shares \subseteq Nat /\ Rtts \subseteq Nat /\ 0 \in Shares /\ 0 \in Rtts
    /\ MaxActivations \in Nat /\ MaxChanges \in Nat

NoEncoder == -1
Nobody == [share |-> 0, average |-> -1]

VARIABLES
    quality, qualityCap, adaptiveQuality,
    encodingMode,       \* activeEncodingMode: "none", "H264" or "Progressive"
    encoder,            \* the quality the encoder was given, or NoEncoder
    rested,             \* QualityUpdateInterval has passed since the last adaptation
    reading,            \* what updateAdaptiveQuality has read so far, or Nobody
    qualityEvents,      \* of the main thread, in order
    posting,            \* the run thread: "idle", "waiting" (for a mode) or "storing"
    seeded, activations,
    bandwidth, minimumRtt, averageRtt,      \* as stored by NetworkDetection
    sized,              \* the surface has a size
    network, changes,   \* what there is to be measured
    settings            \* what is configured; never changes

qualityVars == <<quality, qualityCap, adaptiveQuality, encodingMode, encoder, rested, reading>>
runVars == <<posting, seeded, activations, bandwidth, minimumRtt, averageRtt>>
worldVars == <<sized, network, changes, settings>>
adaptiveVars == <<qualityVars, qualityEvents, runVars, worldVars>>

QualityInit ==
    /\ quality = 100 /\ qualityCap = 100 /\ adaptiveQuality = TRUE
    /\ encodingMode = "none" /\ encoder = NoEncoder /\ rested = TRUE /\ reading = Nobody
    /\ qualityEvents = <<>> /\ posting = "idle" /\ seeded = FALSE /\ activations = 0
    /\ bandwidth = 0 /\ minimumRtt = 0 /\ averageRtt = 0
    /\ sized = FALSE /\ network = [share |-> 0, minimum |-> 0, average |-> 0] /\ changes = 0
    /\ settings \in [adaptive : BOOLEAN, quality : Qualities]

-----------------------------------------------------------------------------
(* The main thread *)

Event(e) == qualityEvents # <<>> /\ Head(qualityEvents).type = e /\ reading = Nobody
Handled == qualityEvents' = Tail(qualityEvents)

\* Mutant of ApplyQuality: the encoder is not told.
ApplyNothing(q) == quality' = q /\ UNCHANGED encoder

\* d->quality = q and applyQuality, which an encoder hears if there is one.
ApplyQuality(q) == quality' = q /\ encoder' = (IF encoder = NoEncoder THEN NoEncoder ELSE q)

\* onNewConnection: setAdaptiveQuality, setVideoQuality. A quality is a byte.
ConfigureQuality ==
    /\ Event("activated") /\ Handled
    /\ adaptiveQuality' = settings.adaptive
    /\ qualityCap' = settings.quality % ByteSize
    /\ LET q == IF adaptiveQuality /\ ~settings.adaptive THEN qualityCap ELSE quality
       IN  ApplyQuality(IF settings.adaptive THEN Lesser(q, qualityCap') ELSE qualityCap')
    /\ UNCHANGED <<encodingMode, rested, reading, runVars, worldVars>>

Ceiling == Greater(qualityCap, MinAdaptiveQuality)

Adapting == adaptiveQuality /\ encodingMode = "H264"

SeedQuality ==
    /\ Event("seed") /\ Handled
    /\ IF Adapting
       THEN ApplyQuality(Clamp(Head(qualityEvents).quality, MinAdaptiveQuality, Ceiling))
       ELSE UNCHANGED <<quality, encoder>>
    /\ UNCHANGED <<qualityCap, adaptiveQuality, encodingMode, rested, reading, runVars, worldVars>>

\* VideoStream::setActiveEncodingMode, for which the run thread waits. Only a new mode
\* gives a new encoder, and only H.264 is encoded here.
ChooseMode ==
    /\ Event("mode") /\ Handled
    /\ LET m == Head(qualityEvents).mode
       IN  /\ encodingMode' = m
           /\ encoder' = IF m = encodingMode THEN encoder
                         ELSE IF m = "H264" THEN quality ELSE NoEncoder
    /\ posting' = "idle"
    /\ UNCHANGED <<quality, qualityCap, adaptiveQuality, rested, reading, seeded, activations,
                   bandwidth, minimumRtt, averageRtt, worldVars>>

\* updateAdaptiveQuality up to its two reads of round trip times, ...
BeginAdapt ==
    /\ Event("bandwidth")
    /\ IF Adapting /\ bandwidth # 0 /\ rested /\ sized
       THEN reading' = [share |-> bandwidth, average |-> averageRtt] /\ UNCHANGED qualityEvents
       ELSE Handled /\ UNCHANGED reading
    /\ UNCHANGED <<quality, qualityCap, adaptiveQuality, encodingMode, encoder, rested, runVars,
                   worldVars>>

Congested(average, minimum) == minimum > 0 /\ average > (minimum * 3) \div 2

Target(share) == Clamp(share, MinAdaptiveQuality, Ceiling)

\* Mutant of NextQuality: it goes down but does not come back.
NeverUp(share, congested) == Lesser(quality, Target(share))

\* The quality after one adaptation: towards the target, and one step down from where
\* it is when the network is congested.
NextQuality(share, congested) ==
    LET target == IF congested
                  THEN Clamp(quality - QualityStepDown, MinAdaptiveQuality, Target(share))
                  ELSE Target(share)
    IN  IF target < quality THEN Greater(target, quality - QualityStepDown)
        ELSE IF target > quality /\ ~congested THEN Lesser(target, quality + QualityStepUp)
        ELSE quality

\* ... and the rest of it. Without a change it may adapt again at once.
EndAdapt ==
    /\ reading # Nobody
    /\ LET next == NextQuality(reading.share, Congested(reading.average, minimumRtt))
       IN  IF next = quality THEN UNCHANGED <<quality, encoder, rested>>
           ELSE ApplyQuality(next) /\ rested' = FALSE
    /\ reading' = Nobody /\ Handled
    /\ UNCHANGED <<qualityCap, adaptiveQuality, encodingMode, runVars, worldVars>>

-----------------------------------------------------------------------------
(* The run thread *)

QPost(e) == qualityEvents' = Append(qualityEvents, e)

\* onActivate: the state, and once a seed for the kind of network, if that is known.
ClientActivates ==
    /\ posting = "idle" /\ activations < MaxActivations
    /\ activations' = activations + 1 /\ seeded' = TRUE
    /\ \E s \in Seeds \union {NoEncoder} :
         qualityEvents' = qualityEvents \o <<[type |-> "activated"]>>
              \o (IF seeded \/ s = NoEncoder THEN <<>> ELSE <<[type |-> "seed", quality |-> s]>>)
    /\ UNCHANGED <<qualityVars, posting, bandwidth, minimumRtt, averageRtt, worldVars>>

\* onCapsAdvertise, on a graphics channel that was opened after the activation.
Negotiate ==
    /\ posting = "idle" /\ activations > 0 /\ changes < MaxChanges
    /\ posting' = "waiting" /\ changes' = changes + 1
    /\ \E m \in {"H264", "Progressive"} : QPost([type |-> "mode", mode |-> m])
    /\ UNCHANGED <<qualityVars, seeded, activations, bandwidth, minimumRtt, averageRtt, sized,
                   network, settings>>

\* onBandwidthMeasureResults: bandwidthChanged comes before the round trip times.
\* Reports that the main thread has not come to yet are one.
ReportBandwidth ==
    /\ posting = "idle" /\ qualityEvents = <<>>
    /\ bandwidth' = network.share
    /\ QPost([type |-> "bandwidth"])
    /\ UNCHANGED <<qualityVars, posting, seeded, activations, minimumRtt, averageRtt, worldVars>>

\* updateAverageRtt stores the minimum, then the average.
StoreMinimum ==
    /\ posting = "idle"
    /\ minimumRtt # network.minimum \/ averageRtt # network.average
    /\ posting' = "storing" /\ minimumRtt' = network.minimum
    /\ UNCHANGED <<qualityVars, qualityEvents, seeded, activations, bandwidth, averageRtt,
                   worldVars>>

StoreAverage ==
    /\ posting = "storing"
    /\ posting' = "idle" /\ averageRtt' = network.average
    /\ UNCHANGED <<qualityVars, qualityEvents, seeded, activations, bandwidth, minimumRtt,
                   worldVars>>

-----------------------------------------------------------------------------
(* The world *)

\* The network gets better or worse, the surface gets a size or is reset.
WorldChanges ==
    /\ changes < MaxChanges /\ posting # "storing"
    /\ changes' = changes + 1
    /\ \/ /\ sized' = ~sized /\ UNCHANGED network
       \/ /\ network' \in {n \in [share : Shares \ {0}, minimum : Rtts \ {0}, average : Rtts] :
                             n.minimum <= n.average}
          /\ UNCHANGED sized
    /\ UNCHANGED <<qualityVars, qualityEvents, runVars, settings>>

Rest ==
    /\ ~rested /\ rested' = TRUE
    /\ UNCHANGED <<quality, qualityCap, adaptiveQuality, encodingMode, encoder, reading,
                   qualityEvents, runVars, worldVars>>

-----------------------------------------------------------------------------
Handle == ConfigureQuality \/ SeedQuality \/ ChooseMode \/ BeginAdapt \/ EndAdapt
Report == ReportBandwidth \/ StoreMinimum \/ StoreAverage

QualityNext == Handle \/ ClientActivates \/ Negotiate \/ Report \/ WorldChanges \/ Rest

\* The event loop delivers, time passes, and updateAverageRtt comes to its end. Nothing has
\* to be measured: that takes traffic, and a client that answers.
QualityFairness ==
    /\ WF_adaptiveVars(Handle) /\ WF_adaptiveVars(Rest) /\ WF_adaptiveVars(StoreAverage)

QualitySpec == QualityInit /\ [][QualityNext]_adaptiveVars /\ QualityFairness
-----------------------------------------------------------------------------
(* Properties *)

\* Every variable stays in its range.
QualityTypeOK ==
    /\ quality \in Nat /\ qualityCap \in Nat /\ adaptiveQuality \in BOOLEAN
    /\ encodingMode \in {"none", "H264", "Progressive"} /\ encoder \in Nat \union {NoEncoder}
    /\ rested \in BOOLEAN /\ posting \in {"idle", "waiting", "storing"}
    /\ bandwidth \in Shares /\ minimumRtt \in Rtts /\ averageRtt \in Rtts

\* The encoder that runs has the quality the stream believes it has, whichever of the two
\* came first, and while it is fixed that is the configured one, whatever was adapted
\* before.
EncoderObeys ==
    encoder # NoEncoder => encoder = quality /\ (~adaptiveQuality => encoder = qualityCap)

\* What the option of the server says: with adaptive quality, which is the default, the
\* configured quality is the upper bound.
CapIsUpperBound == encoder # NoEncoder /\ adaptiveQuality => encoder <= qualityCap

\* On a network that has become steady the quality settles where the bandwidth allows, and
\* at the minimum when the round trips say it is congested: it recovers from what it was
\* before, and from round trip times it has read halfway. It moves one step with a report
\* of bandwidth, and so only as long as there are reports.
QualitySettles ==
    []<><<ReportBandwidth>>_adaptiveVars =>
        <>[](Adapting /\ bandwidth # 0 /\ sized =>
                IF Congested(averageRtt, minimumRtt) THEN quality <= MinAdaptiveQuality
                ELSE quality = Target(bandwidth))
=============================================================================
