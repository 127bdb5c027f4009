---------------------------- MODULE Quality_proofs ----------------------------
(***************************************************************************)
(* Proofs about what adapts a stream to its network: that the encoder has  *)
(* the quality it should have, whatever the configured qualities and the   *)
(* measured values, that the window of frames in flight stays in the range *)
(* that VideoStream assumes of it, and that the round trips of the network *)
(* detection are measured from the request that is answered.               *)
(***************************************************************************)
EXTENDS AdaptiveQuality, FlightWindow, NetworkDetection, FiniteSetTheorems, TLAPS

\* Clamp returns a value between its bounds.
LEMMA ClampBetween ==
  ASSUME NEW x \in Int, NEW low \in Int, NEW high \in Int, low <= high
  PROVE  Clamp(x, low, high) \in Int /\ low <= Clamp(x, low, high) /\ Clamp(x, low, high) <= high
  BY DEF Clamp

-----------------------------------------------------------------------------
(* The window of frames in flight *)

LEMMA LimitInRange ==
  ASSUME NEW fps \in Int, NEW rtt \in Int
  PROVE  Limit(EffectiveFps(fps), rtt)
             \in WindowFloor..Greater(WindowFloor, Greater(MinimumRate, RequestedRate))
<1> DEFINE top == Greater(MinimumRate, RequestedRate)
           f   == EffectiveFps(fps)
<1>1. /\ MinimumRate \in Nat /\ RequestedRate \in Nat /\ WindowFloor \in Nat
      /\ UnitsPerSecond \in Nat /\ UnitsPerSecond > 0
  BY WindowFloorAssumption
<1>2. top \in Int /\ MinimumRate <= top
  BY <1>1 DEF Greater
<1>3. f \in Int /\ f <= top
  <2>1. f = Clamp(fps, MinimumRate, top)
    BY DEF EffectiveFps
  <2> HIDE DEF top, f
  <2> QED  BY <1>1, <1>2, <2>1, ClampBetween
<1>4. CeilDiv(f * rtt, UnitsPerSecond) \in Int
  <2>1. f * rtt \in Int
    BY <1>3
  <2> HIDE DEF f
  <2> DEFINE n == f * rtt
  <2>2. n + UnitsPerSecond - 1 \in Int
    BY <1>1, <2>1
  <2> QED  BY <1>1, <2>2 DEF CeilDiv
<1> HIDE DEF f, top
<1>5. Greater(WindowFloor, f) \in Int /\ WindowFloor <= Greater(WindowFloor, f)
      /\ Greater(WindowFloor, f) <= Greater(WindowFloor, top)
  BY <1>1, <1>2, <1>3 DEF Greater
<1>6. /\ Limit(f, rtt) \in Int /\ WindowFloor <= Limit(f, rtt)
      /\ Limit(f, rtt) <= Greater(WindowFloor, f)
  BY <1>1, <1>4, <1>5, ClampBetween DEF Limit
<1>7. Limit(f, rtt) \in WindowFloor..Greater(WindowFloor, top)
  BY <1>1, <1>2, <1>5, <1>6 DEF Greater
<1> QED  BY <1>7 DEF f, top

\* A value between two natural numbers is one.
LEMMA BetweenNat ==
  ASSUME NEW a \in Nat, NEW b \in Nat
  PROVE  /\ Between(a, b) \subseteq Nat
         /\ \A x \in Between(a, b) : Lesser(a, b) <= x
  BY DEF Between, Lesser, Greater

\* The two round trip times are known from the same moment on.
WindowInv == WindowTypeOK /\ WindowInRange /\ (baseRtt = Unknown <=> smoothedRtt = Unknown)

LEMMA WindowStep ==
  ASSUME WindowInv, NEW rate \in Rates, NEW rtt \in RoundTrips, ResizeWindow(rate, rtt)
  PROVE  WindowInv'
<1> USE DEF WindowInv
<1>1. rate \in Nat /\ rtt \in Nat /\ WindowFloor \in Nat
      /\ MinimumRate \in Nat /\ RequestedRate \in Nat
  BY WindowFloorAssumption
<1>2. producerFps' \in Nat
  <2>1. Greater(RequestedRate, MinimumRate) \in Nat
    BY <1>1 DEF Greater
  <2>2. producerFps # Unknown => Between(producerFps, rate) \subseteq Nat
    BY <1>1, BetweenNat DEF WindowTypeOK
  <2> QED  BY <2>1, <2>2 DEF ResizeWindow, Smoothed, WindowTypeOK
<1>3. CASE rtt >= MinimumValidRtt /\ rtt < MaximumValidRtt
  <2>1. baseRtt' \in Nat /\ (baseRtt # Unknown => baseRtt' = Lesser(baseRtt, rtt))
        /\ (baseRtt = Unknown => baseRtt' = rtt)
    BY <1>1, <1>3 DEF ResizeWindow, WindowTypeOK, Lesser
  <2>2. smoothedRtt' \in Nat /\ baseRtt' <= smoothedRtt'
    <3>1. CASE smoothedRtt = Unknown
      BY <1>1, <1>3, <2>1, <3>1 DEF ResizeWindow, WindowTypeOK, Unknown, Lesser
    <3>2. CASE smoothedRtt # Unknown
      <4>1. smoothedRtt' \in Between(smoothedRtt, rtt) /\ smoothedRtt \in Nat
        BY <1>3, <3>2 DEF ResizeWindow, WindowTypeOK
      <4>2. smoothedRtt' \in Nat /\ Lesser(smoothedRtt, rtt) <= smoothedRtt'
        BY <1>1, <4>1, BetweenNat
      <4> QED  BY <1>1, <2>1, <4>1, <4>2 DEF WindowTypeOK, Unknown, Lesser
    <3> QED  BY <3>1, <3>2
  <2>3. Greater(baseRtt', smoothedRtt') \in Int
    BY <2>1, <2>2 DEF Greater
  <2>4. WindowInRange'
    BY <1>2, <1>3, <2>3, LimitInRange DEF ResizeWindow, WindowInRange
  <2> QED  BY <1>1, <1>2, <2>1, <2>2, <2>4 DEF WindowTypeOK, WindowInRange, Unknown
<1>4. CASE ~(rtt >= MinimumValidRtt /\ rtt < MaximumValidRtt)
  <2>1. inFlightLimit' = WindowFloor /\ UNCHANGED <<baseRtt, smoothedRtt>>
    BY <1>4 DEF ResizeWindow
  <2> QED  BY <1>1, <1>2, <2>1 DEF WindowTypeOK, WindowInRange, Greater
<1> QED  BY <1>3, <1>4

\* Whatever rates and round trip times are measured, the window is at least the floor and at
\* most a second of frames at the rate that was asked for, and the smoothed round trip
\* time is not below the least one.
THEOREM WindowStaysInRange == WindowSpec => [](WindowTypeOK /\ WindowInRange)
<1>1. WindowInit => WindowInv
  BY WindowFloorAssumption DEF WindowInit, WindowInv, WindowTypeOK, WindowInRange, Unknown, Greater
<1>2. WindowInv /\ [WindowNext]_windowVars => WindowInv'
  <2>1. ASSUME WindowInv, UNCHANGED windowVars PROVE WindowInv'
    BY <2>1 DEF windowVars, WindowInv, WindowTypeOK, WindowInRange
  <2> QED  BY <2>1, WindowStep DEF WindowNext
<1>3. WindowInv => WindowTypeOK /\ WindowInRange
  BY DEF WindowInv
<1> QED  BY <1>1, <1>2, <1>3, PTL DEF WindowSpec

-----------------------------------------------------------------------------
(* The quality *)

QEvent ==
    [type : {"activated", "bandwidth"}] \union [type : {"seed"}, quality : Seeds]
    \union [type : {"mode"}, mode : {"H264", "Progressive"}]

\* What is configured and measured are numbers, in every queue and register they pass.
MeasuredType ==
    /\ qualityEvents \in Seq(QEvent)
    /\ settings.adaptive \in BOOLEAN /\ settings.quality \in Nat
    /\ bandwidth \in Nat /\ network.share \in Nat
    /\ reading # Nobody => reading.share \in Nat /\ qualityEvents # <<>>

\* The quality itself obeys, with or without an encoder; and an adaptation that is under way
\* was begun for an encoder that is to be adapted, and so it is still.
QualityInv ==
    /\ MeasuredType
    /\ quality \in Nat /\ qualityCap \in Nat /\ adaptiveQuality \in BOOLEAN
    /\ encoder \in {NoEncoder, quality}
    /\ IF adaptiveQuality THEN quality <= Ceiling ELSE quality = qualityCap
    /\ reading # Nobody => adaptiveQuality

\* The facts about the constants.
LEMMA QualityConstants ==
  /\ MinAdaptiveQuality \in Nat /\ ByteSize \in Nat \ {0}
  /\ QualityStepUp \in Nat /\ QualityStepDown \in Nat
  /\ \A s \in Seeds : s \in Nat
  /\ \A s \in Shares : s \in Nat
  BY QualityAssumption

LEMMA CeilingAboveMinimum ==
  ASSUME qualityCap \in Nat
  PROVE  Ceiling \in Nat /\ MinAdaptiveQuality <= Ceiling
  BY QualityConstants DEF Ceiling, Greater

\* An adaptation ends below the ceiling.
LEMMA NextQualityBelowCeiling ==
  ASSUME quality \in Nat, qualityCap \in Nat, quality <= Ceiling,
         NEW share \in Nat, NEW congested \in BOOLEAN
  PROVE  NextQuality(share, congested) \in Nat /\ NextQuality(share, congested) <= Ceiling
<1>1. Ceiling \in Nat /\ MinAdaptiveQuality \in Nat /\ MinAdaptiveQuality <= Ceiling
      /\ QualityStepUp \in Nat /\ QualityStepDown \in Nat
  BY CeilingAboveMinimum, QualityConstants
<1>2. Target(share) \in Int /\ MinAdaptiveQuality <= Target(share) /\ Target(share) <= Ceiling
  BY <1>1, ClampBetween DEF Target
<1> DEFINE target == IF congested
                     THEN Clamp(quality - QualityStepDown, MinAdaptiveQuality, Target(share))
                     ELSE Target(share)
<1>3. target \in Nat /\ target <= Ceiling
  <2> DEFINE x == quality - QualityStepDown
             t == Target(share)
  <2>1. x \in Int /\ t \in Int /\ MinAdaptiveQuality <= t /\ MinAdaptiveQuality \in Int
    BY <1>1, <1>2
  <2> HIDE DEF x, t
  <2>2. /\ Clamp(x, MinAdaptiveQuality, t) \in Int /\ MinAdaptiveQuality <= Clamp(x, MinAdaptiveQuality, t)
        /\ Clamp(x, MinAdaptiveQuality, t) <= t
    BY <2>1, ClampBetween
  <2> USE DEF x, t
  <2> QED  BY <1>1, <1>2, <2>2
<1>4. NextQuality(share, congested) =
          IF target < quality THEN Greater(target, quality - QualityStepDown)
          ELSE IF target > quality /\ ~congested THEN Lesser(target, quality + QualityStepUp)
          ELSE quality
  BY DEF NextQuality
<1> HIDE DEF target
<1> QED  BY <1>1, <1>3, <1>4 DEF Greater, Lesser

\* The event that is handled, and what is left.
LEMMA QTail ==
  ASSUME MeasuredType, qualityEvents # <<>>
  PROVE  Head(qualityEvents) \in QEvent /\ Tail(qualityEvents) \in Seq(QEvent)
  BY DEF MeasuredType

LEMMA ConfigureKeeps == ASSUME QualityInv, ConfigureQuality PROVE QualityInv'
<1> USE DEF QualityInv
<1> DEFINE q == IF adaptiveQuality /\ ~settings.adaptive THEN qualityCap ELSE quality
           new == IF settings.adaptive THEN Lesser(q, qualityCap') ELSE qualityCap'
<1>1. qualityCap' \in Nat
  BY QualityConstants DEF ConfigureQuality, MeasuredType
<1>2. new \in Nat /\ (settings.adaptive => new <= qualityCap') /\ (~settings.adaptive => new = qualityCap')
  BY <1>1 DEF Lesser, MeasuredType
<1>3. adaptiveQuality' = settings.adaptive /\ quality' = new
      /\ encoder' = (IF encoder = NoEncoder THEN NoEncoder ELSE new)
  BY DEF ConfigureQuality, ApplyQuality
<1> HIDE DEF new
<1>4. Ceiling' \in Nat /\ qualityCap' <= Ceiling'
  BY <1>1, QualityConstants DEF Ceiling, Greater
<1>5. MeasuredType'
  BY QTail DEF ConfigureQuality, Event, Handled, MeasuredType, runVars, worldVars
<1>6. reading' = Nobody
  BY DEF ConfigureQuality, Event
<1>7. settings.adaptive \in BOOLEAN
  BY DEF MeasuredType
<1>8. settings.adaptive => quality' <= Ceiling'
  BY <1>1, <1>2, <1>3, <1>4
<1> QED  BY <1>1, <1>2, <1>3, <1>5, <1>6, <1>7, <1>8

LEMMA SeedKeeps == ASSUME QualityInv, SeedQuality PROVE QualityInv'
<1> USE DEF QualityInv
<1>1. MeasuredType'
  BY QTail DEF SeedQuality, Event, Handled, MeasuredType, runVars, worldVars
<1>2. Ceiling' = Ceiling
  BY DEF SeedQuality, Ceiling
<1>3. CASE Adapting
  <2> DEFINE q == Clamp(Head(qualityEvents).quality, MinAdaptiveQuality, Ceiling)
             x == Head(qualityEvents).quality
             top == Ceiling
  <2>1. x \in Nat
    BY QTail, QualityConstants DEF SeedQuality, Event, QEvent
  <2>2. top \in Nat /\ MinAdaptiveQuality <= top /\ MinAdaptiveQuality \in Nat
    BY CeilingAboveMinimum, QualityConstants
  <2> HIDE DEF x, top
  <2>4. /\ Clamp(x, MinAdaptiveQuality, top) \in Int
        /\ MinAdaptiveQuality <= Clamp(x, MinAdaptiveQuality, top)
        /\ Clamp(x, MinAdaptiveQuality, top) <= top
    <3>1. x \in Int /\ top \in Int /\ MinAdaptiveQuality \in Int
      BY <2>1, <2>2
    <3> QED  BY <2>2, <3>1, ClampBetween
  <2>5. q \in Nat /\ q <= Ceiling
    BY <2>2, <2>4 DEF x, top
  <2>3. quality' = q /\ encoder' \in {NoEncoder, q}
    BY <1>3 DEF SeedQuality, ApplyQuality
  <2> HIDE DEF q
  <2> QED  BY <1>1, <1>2, <1>3, <2>3, <2>5 DEF SeedQuality, Adapting
<1>4. CASE ~Adapting
  BY <1>1, <1>2, <1>4 DEF SeedQuality
<1> QED  BY <1>3, <1>4

LEMMA ModeKeeps == ASSUME QualityInv, ChooseMode PROVE QualityInv'
<1> USE DEF QualityInv
<1>1. MeasuredType'
  BY QTail DEF ChooseMode, Event, Handled, MeasuredType, worldVars
<1>2. Ceiling' = Ceiling
  BY DEF ChooseMode, Ceiling
<1> QED  BY <1>1, <1>2 DEF ChooseMode

LEMMA BeginAdaptKeeps == ASSUME QualityInv, BeginAdapt PROVE QualityInv'
<1> USE DEF QualityInv
<1>1. MeasuredType'
  BY QTail DEF BeginAdapt, Event, Handled, MeasuredType, runVars, worldVars
<1>2. Ceiling' = Ceiling
  BY DEF BeginAdapt, Ceiling
<1> QED  BY <1>1, <1>2 DEF BeginAdapt, Adapting, Event

LEMMA EndAdaptKeeps == ASSUME QualityInv, EndAdapt PROVE QualityInv'
<1> USE DEF QualityInv
<1> DEFINE next == NextQuality(reading.share, Congested(reading.average, minimumRtt))
<1>1. MeasuredType'
  BY QTail DEF EndAdapt, Handled, MeasuredType, runVars, worldVars
<1>2. Ceiling' = Ceiling
  BY DEF EndAdapt, Ceiling
<1>3. Congested(reading.average, minimumRtt) \in BOOLEAN
  BY DEF Congested
<1>4. next \in Nat /\ next <= Ceiling
  BY <1>3, NextQualityBelowCeiling DEF EndAdapt, MeasuredType
<1>5. quality' \in {quality, next}
      /\ encoder' \in {NoEncoder, quality'}
  BY DEF EndAdapt, ApplyQuality
<1> HIDE DEF next
<1> QED  BY <1>1, <1>2, <1>4, <1>5 DEF EndAdapt

\* The run thread and the world leave the quality alone, and store and post numbers.
LEMMA OthersKeep ==
  ASSUME QualityInv, ClientActivates \/ Negotiate \/ Report \/ WorldChanges \/ Rest
  PROVE  QualityInv'
<1> USE DEF QualityInv
<1>1. UNCHANGED <<quality, qualityCap, adaptiveQuality, encoder, reading, settings>>
  BY DEF ClientActivates, Negotiate, Report, ReportBandwidth, StoreMinimum, StoreAverage,
         WorldChanges, Rest, qualityVars, worldVars
<1>2. Ceiling' = Ceiling
  BY <1>1 DEF Ceiling
<1>3. CASE ClientActivates
  <2>1. PICK s \in Seeds \union {NoEncoder} :
            qualityEvents' = qualityEvents \o <<[type |-> "activated"]>>
              \o (IF seeded \/ s = NoEncoder THEN <<>> ELSE <<[type |-> "seed", quality |-> s]>>)
    BY <1>3 DEF ClientActivates
  <2>2. <<[type |-> "activated"]>> \in Seq(QEvent)
    BY DEF QEvent
  <2>3. (IF seeded \/ s = NoEncoder THEN <<>> ELSE <<[type |-> "seed", quality |-> s]>>)
            \in Seq(QEvent)
    <3>1. s \in Seeds => <<[type |-> "seed", quality |-> s]>> \in Seq(QEvent)
      BY DEF QEvent
    <3> QED  BY <3>1
  <2>4. qualityEvents \in Seq(QEvent)
    BY DEF MeasuredType
  <2>5. qualityEvents' \in Seq(QEvent) /\ qualityEvents' # <<>>
    BY <2>1, <2>2, <2>3, <2>4
  <2> QED  BY <1>1, <1>2, <1>3, <2>5 DEF ClientActivates, MeasuredType, worldVars
<1>4. CASE Negotiate
  <2>1. PICK m \in {"H264", "Progressive"} : QPost([type |-> "mode", mode |-> m])
    BY <1>4 DEF Negotiate
  <2>2. [type |-> "mode", mode |-> m] \in QEvent
    BY DEF QEvent
  <2>3. qualityEvents' \in Seq(QEvent) /\ qualityEvents' # <<>>
    BY <2>1, <2>2 DEF QPost, MeasuredType
  <2> QED  BY <1>1, <1>2, <1>4, <2>3 DEF Negotiate, MeasuredType
<1>5. CASE ReportBandwidth
  <2>1. [type |-> "bandwidth"] \in QEvent
    BY DEF QEvent
  <2>2. qualityEvents' \in Seq(QEvent) /\ qualityEvents' # <<>>
    BY <1>5, <2>1 DEF ReportBandwidth, QPost, MeasuredType
  <2> QED  BY <1>1, <1>2, <1>5, <2>2 DEF ReportBandwidth, MeasuredType, worldVars
<1>6. CASE StoreMinimum \/ StoreAverage \/ Rest
  BY <1>1, <1>2, <1>6 DEF StoreMinimum, StoreAverage, Rest, MeasuredType, worldVars, runVars
<1>7. CASE WorldChanges
  <2>1. network'.share \in Nat
    BY <1>7, QualityConstants DEF WorldChanges, MeasuredType
  <2> QED  BY <1>1, <1>2, <1>7, <2>1 DEF WorldChanges, MeasuredType, runVars
<1> QED  BY <1>3, <1>4, <1>5, <1>6, <1>7 DEF Report

LEMMA QualityInvInit == QualityInit => QualityInv
<1> SUFFICES ASSUME QualityInit PROVE QualityInv
  OBVIOUS
<1>1. MeasuredType
  <2>1. settings.adaptive \in BOOLEAN /\ settings.quality \in Nat
    BY QualityAssumption DEF QualityInit
  <2> QED  BY <2>1 DEF QualityInit, MeasuredType
<1>2. 100 <= Ceiling
  BY QualityConstants DEF QualityInit, Ceiling, Greater
<1> QED  BY <1>1, <1>2 DEF QualityInit, QualityInv

LEMMA QualityInvStep == QualityInv /\ [QualityNext]_adaptiveVars => QualityInv'
<1>1. ASSUME QualityInv, UNCHANGED adaptiveVars PROVE QualityInv'
  BY <1>1 DEF adaptiveVars, qualityVars, runVars, worldVars, QualityInv, MeasuredType, Ceiling
<1> QED  BY <1>1, ConfigureKeeps, SeedKeeps, ModeKeeps, BeginAdaptKeeps, EndAdaptKeeps, OthersKeep
         DEF QualityNext, Handle

\* The steps of the quality, without what has to happen.
QualitySafety == QualityInit /\ [][QualityNext]_adaptiveVars

LEMMA QualityInvHolds == QualitySafety => []QualityInv
  BY QualityInvInit, QualityInvStep, PTL DEF QualitySafety

LEMMA ObeysHolds == QualitySafety => []EncoderObeys
<1>1. QualityInv => EncoderObeys
  BY DEF QualityInv, EncoderObeys, Ceiling, NoEncoder
<1> QED  BY <1>1, QualityInvHolds, PTL

\* The encoder has the quality the stream believes it has, and while it is fixed that is the
\* configured one, whenever the encoder was made and in whatever order the configuration,
\* the seed and the measurements came.
THEOREM EncoderAlwaysObeys == QualitySpec => []EncoderObeys
<1>1. QualitySpec => QualitySafety
  BY DEF QualitySpec, QualitySafety
<1> QED  BY <1>1, ObeysHolds

\* What the cap can be: that of a new stream, or what is configured.
CapInv ==
    /\ settings.quality \in Qualities
    /\ qualityCap \in {100, settings.quality % ByteSize}

LEMMA CapStep == CapInv /\ [QualityNext]_adaptiveVars => CapInv'
<1> SUFFICES ASSUME CapInv, [QualityNext]_adaptiveVars PROVE CapInv'
  OBVIOUS
<1> USE DEF CapInv
<1>1. CASE ConfigureQuality
  BY <1>1 DEF ConfigureQuality, worldVars
<1>2. CASE ~ConfigureQuality
  BY <1>2 DEF QualityNext, Handle, SeedQuality, ChooseMode, BeginAdapt, EndAdapt, ClientActivates,
              Negotiate, Report, ReportBandwidth, StoreMinimum, StoreAverage, WorldChanges, Rest,
              adaptiveVars, qualityVars, worldVars
<1> QED  BY <1>1, <1>2

\* The configured quality is the upper bound of adaptation, as the option says, wherever it is
\* not below MinAdaptiveQuality: only there can the bound be exceeded, whatever else happens.
THEOREM CapHoldsAboveMinimum ==
  ASSUME MinAdaptiveQuality <= 100, \A q \in Qualities : MinAdaptiveQuality <= q % ByteSize
  PROVE  QualitySpec => []CapIsUpperBound
<1>1. QualityInit => CapInv
  BY DEF QualityInit, CapInv
<1>2. CapInv => MinAdaptiveQuality <= qualityCap
  BY DEF CapInv
<1>3. QualityInv /\ CapInv => CapIsUpperBound
  <2> SUFFICES ASSUME QualityInv, CapInv, encoder # NoEncoder, adaptiveQuality
               PROVE  encoder <= qualityCap
    BY DEF CapIsUpperBound
  <2>1. encoder = quality /\ quality <= Ceiling
    BY DEF QualityInv
  <2>2. Ceiling = qualityCap
    BY <1>2, QualityConstants DEF QualityInv, Ceiling, Greater
  <2> QED  BY <2>1, <2>2
<1>4. QualitySpec => QualitySafety
  BY DEF QualitySpec, QualitySafety
<1> QED  BY <1>1, <1>3, <1>4, CapStep, QualityInvHolds, PTL DEF QualitySafety

\* Where one adaptation goes: with a congested network down, but not below the minimum,
\* and nowhere from there; otherwise towards what the bandwidth allows, and never past it.
Closer(share, congested, next) ==
    LET t == Target(share)
    IN  IF congested
        THEN /\ quality > MinAdaptiveQuality => next \in MinAdaptiveQuality..quality - 1
             /\ quality <= MinAdaptiveQuality => next = quality
        ELSE /\ quality > t => next \in t..quality - 1
             /\ quality < t => next \in quality + 1..t
             /\ quality = t => next = quality

LEMMA NextQualityCloser ==
  ASSUME quality \in Nat, qualityCap \in Nat, NEW share \in Nat, NEW congested \in BOOLEAN
  PROVE  Closer(share, congested, NextQuality(share, congested))
<1> DEFINE t == Target(share)
           x == quality - QualityStepDown
<1>1. /\ MinAdaptiveQuality \in Nat /\ Ceiling \in Nat /\ MinAdaptiveQuality <= Ceiling
      /\ QualityStepUp \in Nat \ {0} /\ QualityStepDown \in Nat \ {0}
  BY CeilingAboveMinimum, QualityConstants, QualityAssumption
<1>2. t \in Int /\ MinAdaptiveQuality <= t
  BY <1>1, ClampBetween DEF Target
<1>3. x \in Int /\ x < quality
  BY <1>1
<1>4. NextQuality(share, congested) =
          LET target == IF congested THEN Clamp(x, MinAdaptiveQuality, t) ELSE t
          IN  IF target < quality THEN Greater(target, x)
              ELSE IF target > quality /\ ~congested THEN Lesser(target, quality + QualityStepUp)
              ELSE quality
  BY DEF NextQuality
<1>5. Closer(share, congested, NextQuality(share, congested)) <=>
          IF congested
          THEN /\ quality > MinAdaptiveQuality =>
                     NextQuality(share, congested) \in MinAdaptiveQuality..quality - 1
               /\ quality <= MinAdaptiveQuality => NextQuality(share, congested) = quality
          ELSE /\ quality > t => NextQuality(share, congested) \in t..quality - 1
               /\ quality < t => NextQuality(share, congested) \in quality + 1..t
               /\ quality = t => NextQuality(share, congested) = quality
  BY DEF Closer
<1> HIDE DEF t, x
<1>6. CASE congested
  <2> DEFINE c == Clamp(x, MinAdaptiveQuality, t)
  <2>1. c = IF x < MinAdaptiveQuality THEN MinAdaptiveQuality ELSE IF x > t THEN t ELSE x
    BY DEF Clamp
  <2>2. NextQuality(share, congested) = IF c < quality THEN Greater(c, x) ELSE quality
    BY <1>4, <1>6
  <2> HIDE DEF c
  <2>3. quality <= MinAdaptiveQuality => c = MinAdaptiveQuality
    BY <1>1, <1>3, <2>1
  <2>4. quality > MinAdaptiveQuality => c < quality /\ Greater(c, x) \in MinAdaptiveQuality..quality - 1
    BY <1>1, <1>2, <1>3, <2>1 DEF Greater
  <2>5. quality <= MinAdaptiveQuality => NextQuality(share, congested) = quality
    BY <1>1, <2>2, <2>3
  <2> QED  BY <1>5, <1>6, <2>2, <2>4, <2>5
<1>7. CASE ~congested
  <2>1. Greater(t, x) = (IF t < x THEN x ELSE t)
        /\ Lesser(t, quality + QualityStepUp) = (IF t < quality + QualityStepUp THEN t ELSE quality + QualityStepUp)
    BY DEF Greater, Lesser
  <2> QED  BY <1>1, <1>2, <1>3, <1>4, <1>5, <1>7, <2>1
<1> QED  BY <1>6, <1>7

\* An adaptation does what its two readings ask for.
Converges == EndAdapt => Closer(reading.share, Congested(reading.average, minimumRtt), quality')

\* On a network that stays as it is, each adaptation brings the quality closer to where it
\* should be, and none that is there moves it away, for all step sizes: the reason why
\* QualitySettles holds when reports go on, and why the quality does not swing to and fro.
THEOREM AdaptationConverges == QualitySpec => [][Converges]_adaptiveVars
<1>1. ASSUME QualityInv, EndAdapt
      PROVE  Closer(reading.share, Congested(reading.average, minimumRtt), quality')
  <2>1. reading.share \in Nat /\ Congested(reading.average, minimumRtt) \in BOOLEAN
    BY <1>1 DEF EndAdapt, QualityInv, MeasuredType, Congested
  <2>2. quality' = NextQuality(reading.share, Congested(reading.average, minimumRtt))
    BY <1>1 DEF EndAdapt, ApplyQuality
  <2> QED  BY <1>1, <2>1, <2>2, NextQualityCloser DEF QualityInv
<1>2. QualityInv => [Converges]_adaptiveVars
  BY <1>1 DEF Converges
<1>3. QualitySpec => QualitySafety
  BY DEF QualitySpec, QualitySafety
<1> QED  BY <1>2, <1>3, QualityInvHolds, PTL

\* What is measured, and what is stored of it, is in the ranges the network has.
MeasurementsType ==
    /\ QualityTypeOK
    /\ network.share \in Shares /\ network.minimum \in Rtts /\ network.average \in Rtts

LEMMA MeasurementsStep ==
  ASSUME QualityInv, QualityInv', MeasurementsType, [QualityNext]_adaptiveVars
  PROVE  MeasurementsType'
<1> USE DEF MeasurementsType, QualityTypeOK
<1>1. quality' \in Nat /\ qualityCap' \in Nat /\ adaptiveQuality' \in BOOLEAN
      /\ encoder' \in Nat \union {NoEncoder}
  BY DEF QualityInv
<1>2. CASE ConfigureQuality \/ SeedQuality \/ BeginAdapt \/ ClientActivates
  BY <1>1, <1>2 DEF ConfigureQuality, SeedQuality, BeginAdapt, ClientActivates, qualityVars, runVars,
                    worldVars
<1>3. CASE EndAdapt
  <2>1. rested' \in {rested, FALSE}
    BY <1>3 DEF EndAdapt
  <2> QED  BY <1>1, <1>3, <2>1 DEF EndAdapt, runVars, worldVars
<1>4. CASE ChooseMode
  <2>1. Head(qualityEvents) \in QEvent /\ Head(qualityEvents).type = "mode"
    BY <1>4, QTail DEF QualityInv, ChooseMode, Event
  <2>2. Head(qualityEvents).mode \in {"H264", "Progressive"}
    BY <2>1 DEF QEvent
  <2> QED  BY <1>1, <1>4, <2>2 DEF ChooseMode, worldVars
<1>5. CASE Negotiate \/ ReportBandwidth \/ StoreMinimum \/ StoreAverage
  BY <1>1, <1>5 DEF Negotiate, ReportBandwidth, StoreMinimum, StoreAverage, qualityVars, worldVars
<1>6. CASE WorldChanges
  <2>1. /\ network'.share \in Shares /\ network'.minimum \in Rtts /\ network'.average \in Rtts
    BY <1>6 DEF WorldChanges
  <2> QED  BY <1>1, <1>6, <2>1 DEF WorldChanges, qualityVars, runVars
<1>7. CASE Rest
  BY <1>1, <1>7 DEF Rest, runVars, worldVars
<1>8. CASE UNCHANGED adaptiveVars
  BY <1>1, <1>8 DEF adaptiveVars, qualityVars, runVars, worldVars
<1> QED  BY <1>2, <1>3, <1>4, <1>5, <1>6, <1>7, <1>8 DEF QualityNext, Handle, Report

LEMMA QualityTypeHolds == QualitySafety => []QualityTypeOK
<1>1. QualityInit => MeasurementsType
  BY QualityAssumption DEF QualityInit, MeasurementsType, QualityTypeOK
<1>2. QualityInv /\ QualityInv' /\ MeasurementsType /\ [QualityNext]_adaptiveVars => MeasurementsType'
  BY MeasurementsStep
<1>3. MeasurementsType => QualityTypeOK
  BY DEF MeasurementsType
<1> QED  BY <1>1, <1>2, <1>3, QualityInvHolds, PTL DEF QualitySafety

\* Every variable of the quality keeps its range.
THEOREM QualityTypeCorrect == QualitySpec => []QualityTypeOK
<1>1. QualitySpec => QualitySafety
  BY DEF QualitySpec, QualitySafety
<1> QED  BY <1>1, QualityTypeHolds

-----------------------------------------------------------------------------
(* Network detection *)

\* What the provers know of % and \div, and multiplication step by step.
LEMMA ModSmall ==
  ASSUME NEW n \in Nat, n > 0, NEW a \in 0..n - 1
  PROVE  a % n = a
  OBVIOUS

LEMMA ModSelf ==
  ASSUME NEW n \in Nat, n > 0
  PROVE  n % n = 0
  OBVIOUS

LEMMA DivBound ==
  ASSUME NEW n \in Nat, n > 0, NEW x \in Nat, NEW p \in Nat, p * n <= x
  PROVE  p <= x \div n
  OBVIOUS

LEMMA DivNat ==
  ASSUME NEW n \in Nat, n > 0, NEW x \in Nat
  PROVE  x \div n \in Nat
  OBVIOUS

LEMMA OneMore ==
  ASSUME NEW n \in Nat, NEW p \in Nat
  PROVE  (p + 1) * n = p * n + n
  OBVIOUS

LEMMA NetworkConstants ==
  /\ RttInterval \in Nat /\ RttInterval > 0 /\ ResultInterval \in Nat /\ ResultInterval > 0
  /\ MeasureInterval \in Nat /\ MeasureDuration \in Nat /\ AverageInterval \in Nat
  /\ RequestMaxAge \in Nat /\ MaxDelay \in Nat /\ RequestMaxAge < MaxDelay
  /\ SequenceNumbers \in Nat /\ SequenceNumbers > 3
<1>1. /\ RttInterval \in Nat /\ RttInterval > 0 /\ ResultInterval \in Nat /\ ResultInterval > 0
      /\ MeasureInterval \in Nat /\ MeasureDuration \in Nat /\ AverageInterval \in Nat
      /\ RequestMaxAge \in Nat /\ MaxDelay \in Nat /\ RequestMaxAge < MaxDelay
      /\ SequenceNumbers \in Nat
  BY IntervalAssumption, NumbersAssumption
<1>2. MaxDelay \div RttInterval \in Nat /\ MaxDelay \div ResultInterval \in Nat
  BY <1>1, DivNat
<1> QED  BY <1>1, <1>2, NumbersAssumption

\* The number that is taken next, when it is not that of an open request.
First == IF sequenceNumber = 0 THEN 1 ELSE sequenceNumber

\* The search for a number ends at once: First is free when it is not open.
LEMMA NextIsFirst ==
  ASSUME sequenceNumber \in Numbers, NEW r, First \notin DOMAIN r
  PROVE  NextNumber(r) = First /\ First \in Numbers \ {0}
<1> DEFINE At(k)   == (sequenceNumber + k) % SequenceNumbers
           Free(k) == At(k) \notin DOMAIN r \union {0}
           skip    == IF sequenceNumber = 0 THEN 1 ELSE 0
<1>1. sequenceNumber \in Nat /\ First \in Numbers \ {0} /\ skip \in Numbers
  BY NetworkConstants DEF First, Numbers
<1>2. At(skip) = First
  <2>1. sequenceNumber + skip = First
    BY <1>1 DEF First
  <2> QED  BY <1>1, <2>1, NetworkConstants, ModSmall DEF Numbers
<1>3. Free(skip)
  BY <1>1, <1>2
<1>4. \A j \in Numbers : Free(j) => skip <= j
  <2>1. CASE sequenceNumber = 0
    <3>1. At(0) = 0
      BY <2>1, NetworkConstants, ModSmall
    <3>2. ~Free(0)
      BY <3>1
    <3> HIDE DEF Free
    <3> QED  BY <2>1, <3>2 DEF Numbers
  <2>2. CASE sequenceNumber # 0
    <3> HIDE DEF Free
    <3> QED  BY <2>2 DEF Numbers
  <2> QED  BY <2>1, <2>2
<1>5. ASSUME NEW i \in Numbers, Free(i), \A j \in Numbers : Free(j) => i <= j
      PROVE  i = skip
  <2>1. i <= skip /\ skip <= i
    BY <1>1, <1>3, <1>4, <1>5
  <2> QED  BY <1>1, <2>1 DEF Numbers
<1> DEFINE k == CHOOSE i \in Numbers : Free(i) /\ \A j \in Numbers : Free(j) => i <= j
<1>6. k = skip
  <2> HIDE DEF Free, skip
  <2> QED  BY <1>1, <1>3, <1>4, <1>5
<1>7. NextNumber(r) = At(k)
  BY DEF NextNumber
<1> HIDE DEF k, skip
<1> QED  BY <1>1, <1>2, <1>6, <1>7

\* k numbers were taken since m was: the numbers but 0 are a circle of SequenceNumbers - 1,
\* on which every one that is taken moves First on by one.
TakenSince(m, k) == First \in {m + 1 + k, m + 1 + k - (SequenceNumbers - 1)}

\* As long as they are not too many, the next is not m itself.
LEMMA FirstIsNew ==
  ASSUME NEW m \in Numbers \ {0}, NEW k \in Nat, k + 2 < SequenceNumbers, TakenSince(m, k)
  PROVE  First # m
  BY NetworkConstants DEF TakenSince, Numbers

LEMMA FirstNumber ==
  ASSUME sequenceNumber \in Numbers
  PROVE  First \in Numbers \ {0}
  BY NetworkConstants DEF First, Numbers

LEMMA TakeFirst ==
  ASSUME sequenceNumber \in Numbers, Advance(First)
  PROVE  /\ sequenceNumber' \in Numbers /\ First' \in Numbers \ {0}
         /\ First' \in {First + 1, First + 1 - (SequenceNumbers - 1)}
<1>1. First \in Numbers \ {0}
  BY FirstNumber
<1>2. CASE First = SequenceNumbers - 1
  <2>1. First + 1 = SequenceNumbers
    BY <1>2, NetworkConstants
  <2>2. sequenceNumber' = 0
    BY <2>1, NetworkConstants, ModSelf DEF Advance
  <2> QED  BY <1>2, <2>2, NetworkConstants DEF First, Numbers
<1>3. CASE First # SequenceNumbers - 1
  <2>1. First + 1 \in 0..SequenceNumbers - 1
    BY <1>1, <1>3, NetworkConstants DEF Numbers
  <2>2. sequenceNumber' = First + 1
    BY <2>1, NetworkConstants, ModSmall DEF Advance
  <2>3. First + 1 # 0
    BY <1>1 DEF Numbers
  <2> QED  BY <2>1, <2>2, <2>3 DEF First, Numbers
<1> QED  BY <1>2, <1>3

LEMMA TakenSinceFirst ==
  ASSUME sequenceNumber \in Numbers, Advance(First), NEW n, n = First
  PROVE  TakenSince(n, 0)'
<1>1. First \in Numbers \ {0}
  BY FirstNumber
<1> QED  BY <1>1, TakeFirst, NetworkConstants DEF TakenSince, Numbers

LEMMA TakenSinceMore ==
  ASSUME sequenceNumber \in Numbers, Advance(First),
         NEW m \in Numbers \ {0}, NEW k \in Nat, k + 2 < SequenceNumbers, TakenSince(m, k)
  PROVE  TakenSince(m, k + 1)'
<1>1. First \in Numbers \ {0}
  BY FirstNumber
<1> QED  BY <1>1, TakeFirst, NetworkConstants DEF TakenSince, Numbers

-----------------------------------------------------------------------------
\* What happened since a request of age a: p later requests and q reports.
FewRequests(p, a) == p * RttInterval + age.rtt <= a
FewReports(q, a)  == q * ResultInterval + age.report <= a + ResultInterval

\* Types, and that results are awaited only of a measurement that has stopped.
NetworkTypes ==
    /\ measure \in {"None", "PendingStop", "PendingResults"}
    /\ hasBandwidth \in BOOLEAN /\ answering \in BOOLEAN /\ awake \in BOOLEAN
    /\ results \in 0..1 /\ (results = 1 => measure = "PendingResults")
    /\ sequenceNumber \in Numbers
    /\ rttRequests \in [Open -> 0..MaxDelay] /\ Open \subseteq Numbers \ {0}
    /\ asked \in Seq([number : Numbers \ {0}, age : 0..MaxDelay])
    /\ age \in [DOMAIN MaxAges -> Nat] /\ \A k \in DOMAIN MaxAges : age[k] <= MaxAges[k]

\* Since a request that is not answered, p requests and q reports took a number, no more
\* than its age admits.
AskedPast(i, p, q) ==
    /\ TakenSince(asked[i].number, p + q)
    /\ FewRequests(p, asked[i].age) /\ FewReports(q, asked[i].age)

AskedInv == \A i \in DOMAIN asked : \E p, q \in Nat : AskedPast(i, p, q)

Longest == IF RttInterval > MaxDelay THEN RttInterval ELSE MaxDelay

\* And since a request that is open. Once it is as old as ages are counted, its own age says
\* no more how many they are. But every request made since found it at most RequestMaxAge
\* old, or had given it up: the age of the last one, or of one that is not answered, bounds
\* the reports. When there is neither, what may still be reported is the results of one
\* measurement, and then comes the request that gives this one up.
OpenPast(s, p, q) ==
    /\ TakenSince(s, p + q)
    /\ p * RttInterval <= RequestMaxAge
    /\ rttRequests[s] < MaxDelay => FewRequests(p, rttRequests[s]) /\ FewReports(q, rttRequests[s])
    /\ age.rtt < RttInterval => FewReports(q, RequestMaxAge + age.rtt)
    /\ \A i \in DOMAIN asked : FewReports(q, RequestMaxAge + asked[i].age)
    /\ rttRequests[s] = MaxDelay /\ age.rtt = RttInterval /\ asked = <<>> =>
          (q + results) * ResultInterval <= RequestMaxAge + Longest + 2 * ResultInterval

\* No two open requests have as many requests behind them.
OpenInv ==
    \E p, q \in [Open -> Nat] :
        /\ \A s, t \in Open : p[s] = p[t] => s = t
        /\ \A s \in Open : OpenPast(s, p[s], q[s])

NetworkInv == NetworkTypes /\ AskedInv /\ OpenInv /\ AnswersFitRequests

LEMMA AgesInRange ==
  ASSUME NetworkTypes
  PROVE  /\ DOMAIN age = {"rtt", "measure", "start", "report", "answer"}
         /\ age.rtt \in 0..RttInterval /\ age.report \in 0..ResultInterval
         /\ age.answer \in Nat /\ age.answer <= AverageInterval + 1
         /\ age.measure \in 0..MeasureInterval /\ age.start \in 0..MeasureDuration
  BY NetworkConstants DEF NetworkTypes, MaxAges

LEMMA LongestNat == Longest \in Nat /\ MaxDelay <= Longest /\ RttInterval <= Longest
  BY NetworkConstants DEF Longest

LEMMA AskedTypes ==
  ASSUME NetworkTypes, NEW i \in DOMAIN asked
  PROVE  asked[i].number \in Numbers \ {0} /\ asked[i].age \in 0..MaxDelay
<1> DEFINE R == [number : Numbers \ {0}, age : 0..MaxDelay]
<1>1. asked \in Seq(R)
  BY DEF NetworkTypes
<1> HIDE DEF R
<1>2. asked[i] \in R
  BY <1>1
<1> QED  BY <1>2 DEF R

LEMMA AskedShort ==
  ASSUME NetworkTypes, NEW i \in DOMAIN asked, NEW p \in Nat, NEW q \in Nat, AskedPast(i, p, q)
  PROVE  p + q + 2 < SequenceNumbers
<1>1. asked[i].age \in 0..MaxDelay
  BY AskedTypes
<1>2. p * RttInterval <= MaxDelay
  <2>1. p * RttInterval \in Nat
    BY NetworkConstants
  <2> HIDE DEF NetworkTypes
  <2> QED  BY <1>1, <2>1, AgesInRange, NetworkConstants DEF AskedPast, FewRequests
<1>3. q * ResultInterval <= MaxDelay + ResultInterval
  <2>1. q * ResultInterval \in Nat
    BY NetworkConstants
  <2> QED  BY <1>1, <2>1, AgesInRange, NetworkConstants DEF AskedPast, FewReports
<1>4. p <= MaxDelay \div RttInterval
  BY <1>2, NetworkConstants, DivBound
<1>5. q <= MaxDelay \div ResultInterval + 1
  <2>1. CASE q = 0
    BY <2>1, NetworkConstants, DivNat
  <2>2. CASE q # 0
    <3>1. q - 1 \in Nat /\ q * ResultInterval = (q - 1) * ResultInterval + ResultInterval
      BY <2>2, NetworkConstants, OneMore
    <3>2. (q - 1) * ResultInterval \in Nat
      BY <3>1, NetworkConstants
    <3>3. (q - 1) * ResultInterval <= MaxDelay
      BY <1>3, <3>1, <3>2, NetworkConstants
    <3>4. q - 1 <= MaxDelay \div ResultInterval
      BY <3>1, <3>3, NetworkConstants, DivBound
    <3> QED  BY <3>4, NetworkConstants, DivNat
  <2> QED  BY <2>1, <2>2
<1> QED  BY <1>4, <1>5, NetworkConstants, NumbersAssumption, DivNat

LEMMA OpenShort ==
  ASSUME NetworkTypes, NEW s \in Open, NEW p \in Nat, NEW q \in Nat, OpenPast(s, p, q)
  PROVE  p + q + 2 < SequenceNumbers /\ p \in 0..RequestMaxAge \div RttInterval
<1>1. rttRequests[s] \in 0..MaxDelay
  BY DEF NetworkTypes
<1>2. p <= RequestMaxAge \div RttInterval
  BY NetworkConstants, DivBound DEF OpenPast
<1>3. q * ResultInterval \in Nat
  BY NetworkConstants
<1>4. q * ResultInterval <= RequestMaxAge + Longest + 2 * ResultInterval
  <2>1. CASE rttRequests[s] < MaxDelay
    BY <1>1, <1>3, <2>1, AgesInRange, LongestNat, NetworkConstants DEF OpenPast, FewReports
  <2>2. CASE age.rtt < RttInterval
    BY <1>3, <2>2, AgesInRange, LongestNat, NetworkConstants DEF OpenPast, FewReports
  <2>3. CASE asked # <<>>
    <3>1. 1 \in DOMAIN asked
      BY <2>3 DEF NetworkTypes
    <3>2. asked[1].age \in 0..MaxDelay
      BY <3>1, AskedTypes
    <3>3. FewReports(q, RequestMaxAge + asked[1].age)
      BY <3>1 DEF OpenPast
    <3> QED  BY <1>3, <3>2, <3>3, AgesInRange, LongestNat, NetworkConstants DEF FewReports
  <2>4. CASE rttRequests[s] = MaxDelay /\ age.rtt = RttInterval /\ asked = <<>>
    <3>1. (q + results) * ResultInterval <= RequestMaxAge + Longest + 2 * ResultInterval
      BY <2>4 DEF OpenPast
    <3>2. CASE results = 0
      BY <3>1, <3>2
    <3>3. CASE results = 1
      BY <1>3, <3>1, <3>3, OneMore, LongestNat, NetworkConstants
    <3> QED  BY <3>2, <3>3 DEF NetworkTypes
  <2> QED  BY <1>1, <2>1, <2>2, <2>3, <2>4, AgesInRange, NetworkConstants
<1>5. RequestMaxAge + Longest \in Nat
  BY LongestNat, NetworkConstants
<1>6. (RequestMaxAge + Longest) \div ResultInterval \in Nat
      /\ RequestMaxAge \div RttInterval \in Nat
  BY <1>5, NetworkConstants, DivNat
<1>7. q <= (RequestMaxAge + Longest) \div ResultInterval + 2
  <2>1. CASE q \in 0..1
    BY <1>6, <2>1
  <2>2. CASE q \notin 0..1
    <3>1. /\ q - 1 \in Nat /\ q * ResultInterval = (q - 1) * ResultInterval + ResultInterval
          /\ q - 2 \in Nat /\ (q - 1) * ResultInterval = (q - 2) * ResultInterval + ResultInterval
      BY <2>2, NetworkConstants, OneMore
    <3>2. (q - 2) * ResultInterval \in Nat /\ (q - 1) * ResultInterval \in Nat
      BY <3>1, NetworkConstants
    <3>3. (q - 2) * ResultInterval <= RequestMaxAge + Longest
      BY <1>4, <1>5, <3>1, <3>2, NetworkConstants
    <3>4. q - 2 <= (RequestMaxAge + Longest) \div ResultInterval
      BY <1>5, <3>1, <3>3, NetworkConstants, DivBound
    <3> QED  BY <1>6, <3>4
  <2> QED  BY <2>1, <2>2
<1>8. RequestMaxAge \div RttInterval + (RequestMaxAge + Longest) \div ResultInterval + 4
          < SequenceNumbers
  BY OpenNumbersAssumption DEF Longest
<1> QED  BY <1>2, <1>6, <1>7, <1>8, NetworkConstants

\* So the next number is neither that of an open request nor of an unanswered one.
LEMMA FirstIsFree ==
  ASSUME NetworkInv
  PROVE  First \notin Open /\ \A i \in DOMAIN asked : asked[i].number # First
<1>1. ASSUME NEW s \in Open PROVE First # s
  <2>1. PICK p \in Nat, q \in Nat : OpenPast(s, p, q)
    BY <1>1 DEF NetworkInv, OpenInv
  <2>2. p + q + 2 < SequenceNumbers /\ TakenSince(s, p + q) /\ p + q \in Nat
    BY <1>1, <2>1, OpenShort DEF NetworkInv, OpenPast
  <2>3. s \in Numbers \ {0}
    BY <1>1 DEF NetworkInv, NetworkTypes
  <2> QED  BY <2>2, <2>3, FirstIsNew
<1>2. ASSUME NEW i \in DOMAIN asked PROVE asked[i].number # First
  <2>1. PICK p \in Nat, q \in Nat : AskedPast(i, p, q)
    BY <1>2 DEF NetworkInv, AskedInv
  <2>2. p + q + 2 < SequenceNumbers /\ TakenSince(asked[i].number, p + q) /\ p + q \in Nat
    BY <1>2, <2>1, AskedShort DEF NetworkInv, AskedPast
  <2>3. asked[i].number \in Numbers \ {0}
    BY <1>2, AskedTypes DEF NetworkInv
  <2> QED  BY <2>2, <2>3, FirstIsNew
<1> QED  BY <1>1, <1>2

-----------------------------------------------------------------------------
(* The first request after one, and every report, moves what is past by one. *)

LEMMA RequestsMore ==
  ASSUME NetworkTypes, age.rtt = RttInterval, age'.rtt = 0,
         NEW p \in Nat, NEW a \in Nat, FewRequests(p, a)
  PROVE  FewRequests(p + 1, a)'
<1>1. p * RttInterval \in Nat /\ (p + 1) * RttInterval = p * RttInterval + RttInterval
  BY NetworkConstants, OneMore
<1> QED  BY <1>1, NetworkConstants DEF FewRequests

LEMMA ReportsMore ==
  ASSUME NetworkTypes, age.report = ResultInterval, age'.report = 0,
         NEW q \in Nat, NEW a \in Nat, FewReports(q, a)
  PROVE  FewReports(q + 1, a)'
<1>1. q * ResultInterval \in Nat
      /\ (q + 1) * ResultInterval = q * ResultInterval + ResultInterval
  BY NetworkConstants, OneMore
<1> QED  BY <1>1, NetworkConstants DEF FewReports

\* A report by now, or not.
Reported == Advance(First) /\ age.report = ResultInterval /\ age'.report = 0
NotReported == UNCHANGED sequenceNumber /\ age'.report = age.report

\* After an answer and perhaps a report of it, of the round trips or of the bandwidth.
Answered ==
    /\ Reported \/ NotReported
    /\ age'.rtt = age.rtt
    /\ Open' \subseteq Open /\ \A s \in Open' : rttRequests'[s] = rttRequests[s]
    /\ \/ (\E i \in DOMAIN asked : asked' = RemoveAt(asked, i)) /\ results' = results
       \/ asked' = asked /\ results = 1 /\ results' = 0

\* What is left of a sequence without one of its elements.
LEMMA WithoutOne ==
  ASSUME NEW R, NEW s \in Seq(R), NEW i \in DOMAIN s
  PROVE  /\ RemoveAt(s, i) \in Seq(R)
         /\ \A j \in DOMAIN RemoveAt(s, i) : \E k \in DOMAIN s : RemoveAt(s, i)[j] = s[k]
<1> DEFINE a == SubSeq(s, 1, i - 1)
           b == SubSeq(s, i + 1, Len(s))
<1>1. i \in 1..Len(s) /\ Len(s) \in Nat
  OBVIOUS
<1>2. a \in Seq(R) /\ Len(a) = i - 1 /\ \A j \in 1..i - 1 : a[j] = s[j]
  BY <1>1
<1>3. b \in Seq(R) /\ Len(b) = Len(s) - i /\ \A j \in 1..Len(s) - i : b[j] = s[i + j]
  BY <1>1
<1>4. RemoveAt(s, i) = a \o b
  BY DEF RemoveAt
<1> HIDE DEF a, b
<1>5. a \o b \in Seq(R) /\ DOMAIN (a \o b) = 1..Len(s) - 1
  BY <1>1, <1>2, <1>3
<1>6. ASSUME NEW j \in 1..Len(s) - 1
      PROVE  \E k \in DOMAIN s : (a \o b)[j] = s[k]
  <2>1. CASE j < i
    BY <1>1, <1>2, <1>3, <2>1
  <2>2. CASE j >= i
    <3>1. (a \o b)[j] = b[j - (i - 1)]
      BY <1>1, <1>2, <1>3, <2>2
    <3>2. j - (i - 1) \in 1..Len(s) - i /\ j + 1 \in DOMAIN s
      BY <1>1, <2>2
    <3>3. b[j - (i - 1)] = s[i + (j - (i - 1))]
      BY <1>3, <3>2
    <3>4. i + (j - (i - 1)) = j + 1
      BY <1>1
    <3> QED  BY <3>1, <3>2, <3>3, <3>4
  <2>3. j < i \/ j >= i
    BY <1>1
  <2> QED  BY <2>1, <2>2, <2>3
<1> QED  BY <1>4, <1>5, <1>6

LEMMA AnsweredIndex ==
  ASSUME NetworkTypes, Answered, NEW i \in DOMAIN asked'
  PROVE  \E j \in DOMAIN asked : asked'[i] = asked[j]
<1> DEFINE R == [number : Numbers \ {0}, age : 0..MaxDelay]
<1>1. asked \in Seq(R)
  BY DEF NetworkTypes
<1> HIDE DEF R
<1>2. CASE \E k \in DOMAIN asked : asked' = RemoveAt(asked, k)
  BY <1>1, <1>2, WithoutOne
<1>3. CASE asked' = asked
  BY <1>3
<1> QED  BY <1>2, <1>3 DEF Answered

LEMMA AnsweredAsked ==
  ASSUME NetworkInv, NetworkTypes', Answered
  PROVE  AskedInv'
<1> SUFFICES ASSUME NEW i \in DOMAIN asked'
             PROVE  \E p, q \in Nat : AskedPast(i, p, q)'
  BY DEF AskedInv
<1>1. PICK j \in DOMAIN asked : asked'[i] = asked[j]
  BY AnsweredIndex DEF NetworkInv
<1>2. PICK p \in Nat, q \in Nat : AskedPast(j, p, q)
  BY DEF NetworkInv, AskedInv
<1>3. /\ p + q \in Nat /\ p + q + 2 < SequenceNumbers /\ sequenceNumber \in Numbers
      /\ asked[j].number \in Numbers \ {0} /\ asked[j].age \in Nat
  <2>1. NetworkTypes
    BY DEF NetworkInv
  <2>2. p + q + 2 < SequenceNumbers /\ asked[j].number \in Numbers \ {0} /\ asked[j].age \in 0..MaxDelay
    BY <1>2, <2>1, AskedShort, AskedTypes
  <2>3. sequenceNumber \in Numbers
    BY <2>1 DEF NetworkTypes
  <2> QED  BY <2>2, <2>3
<1>4. FewRequests(p, asked[j].age) /\ age'.rtt = age.rtt
  BY <1>2 DEF AskedPast, Answered
<1>5. CASE Reported
  <2>1. FewReports(q, asked[j].age)
    BY <1>2 DEF AskedPast
  <2>2. (q + 1) * ResultInterval + age'.report <= asked[j].age + ResultInterval
    BY <1>3, <1>5, <2>1, ReportsMore DEF NetworkInv, Reported, FewReports
  <2>3. FewReports(q + 1, asked[i].age)' /\ FewRequests(p, asked[i].age)'
    BY <1>1, <1>4, <2>2 DEF FewReports, FewRequests
  <2>4. TakenSince(asked[j].number, p + q) /\ Advance(First)
    BY <1>2, <1>5 DEF AskedPast, Reported
  <2>5. First' \in {asked[j].number + 1 + (p + q + 1),
                    asked[j].number + 1 + (p + q + 1) - (SequenceNumbers - 1)}
    BY <1>3, <2>4, TakenSinceMore DEF TakenSince
  <2>6. TakenSince(asked[i].number, p + (q + 1))'
    BY <1>1, <2>5 DEF TakenSince
  <2>7. AskedPast(i, p, q + 1)'
    BY <2>3, <2>6 DEF AskedPast
  <2> QED  BY <2>7
<1>6. CASE NotReported
  <2>1. AskedPast(i, p, q)'
    BY <1>1, <1>2, <1>4, <1>6 DEF AskedPast, NotReported, FewRequests, FewReports, TakenSince, First
  <2> QED  BY <2>1
<1> QED  BY <1>5, <1>6 DEF Answered

LEMMA AnsweredOpenFits ==
  ASSUME NetworkInv, NetworkTypes', Answered, NEW s, s \in Open',
         NEW p \in Nat, NEW q \in Nat, OpenPast(s, p, q)
  PROVE  /\ Reported => OpenPast(s, p, q + 1)'
         /\ NotReported => OpenPast(s, p, q)'
<1>1. /\ s \in Open /\ s \in Numbers \ {0} /\ rttRequests[s] \in 0..MaxDelay
      /\ rttRequests'[s] = rttRequests[s] /\ age'.rtt = age.rtt
  BY DEF Answered, NetworkInv, NetworkTypes
<1>2. p + q \in Nat /\ p + q + 2 < SequenceNumbers /\ sequenceNumber \in Numbers
  BY <1>1, OpenShort DEF NetworkInv, NetworkTypes
<1>3. /\ age.rtt \in 0..RttInterval /\ age.report \in 0..ResultInterval
      /\ results \in 0..1 /\ results' \in 0..1
  BY AgesInRange DEF NetworkInv, NetworkTypes
<1>4. /\ q * ResultInterval \in Nat /\ (q + 1) * ResultInterval = q * ResultInterval + ResultInterval
      /\ ((q + 1) + 1) * ResultInterval = q * ResultInterval + 2 * ResultInterval
  BY NetworkConstants, OneMore
<1>5. ASSUME NEW i \in DOMAIN asked'
      PROVE  RequestMaxAge + asked'[i].age \in Nat /\ FewReports(q, RequestMaxAge + asked'[i].age)
  <2>1. PICK j \in DOMAIN asked : asked'[i] = asked[j]
    BY <1>5, AnsweredIndex DEF NetworkInv
  <2> QED  BY <2>1, AskedTypes, NetworkConstants DEF OpenPast, NetworkInv
<1>6. asked # <<>> => q * ResultInterval + age.report <= RequestMaxAge + MaxDelay + ResultInterval
  <2> SUFFICES ASSUME asked # <<>>
               PROVE  q * ResultInterval + age.report <= RequestMaxAge + MaxDelay + ResultInterval
    OBVIOUS
  <2>1. 1 \in DOMAIN asked
    BY DEF NetworkInv, NetworkTypes
  <2>2. asked[1].age \in 0..MaxDelay /\ FewReports(q, RequestMaxAge + asked[1].age)
    BY <2>1, AskedTypes DEF OpenPast, NetworkInv
  <2> QED  BY <1>3, <1>4, <2>2, NetworkConstants DEF FewReports
<1>7. asked = <<>> => asked' = asked /\ results = 1 /\ results' = 0
  BY DEF Answered
<1>8. (0 + q) * ResultInterval = q * ResultInterval
      /\ (q + 0) * ResultInterval = q * ResultInterval
  BY NetworkConstants
<1>9. ASSUME Reported PROVE OpenPast(s, p, q + 1)'
  <2>1. TakenSince(s, p + (q + 1))'
    BY <1>1, <1>2, <1>9, TakenSinceMore DEF OpenPast, Reported
  <2>2. \A a \in Nat : FewReports(q, a) => FewReports(q + 1, a)'
    BY <1>9, ReportsMore DEF Reported, NetworkInv
  <2>3. rttRequests'[s] < MaxDelay =>
            FewRequests(p, rttRequests[s])' /\ FewReports(q + 1, rttRequests[s])'
    BY <1>1, <2>2 DEF OpenPast, FewRequests, FewReports
  <2>4. age'.rtt < RttInterval => FewReports(q + 1, RequestMaxAge + age.rtt)'
    <3>1. RequestMaxAge + age.rtt \in Nat
      BY <1>3, NetworkConstants
    <3>2. age.rtt < RttInterval =>
              (q + 1) * ResultInterval + age'.report <= RequestMaxAge + age.rtt + ResultInterval
      BY <2>2, <3>1 DEF OpenPast, FewReports
    <3> QED  BY <1>1, <3>2 DEF FewReports
  <2>5. \A i \in DOMAIN asked' : FewReports(q + 1, RequestMaxAge + asked[i].age)'
    BY <1>5, <2>2 DEF FewReports
  <2>6. ASSUME rttRequests'[s] = MaxDelay, age'.rtt = RttInterval, asked' = <<>>
        PROVE  (q + 1 + results') * ResultInterval
                   <= RequestMaxAge + Longest + 2 * ResultInterval
    <3>1. CASE asked # <<>>
      <4>1. q * ResultInterval + 2 * ResultInterval <= RequestMaxAge + Longest + 2 * ResultInterval
        BY <1>3, <1>4, <1>6, <1>9, <3>1, LongestNat, NetworkConstants DEF Reported
      <4>2. q + 1 + results' = q + 1 \/ q + 1 + results' = (q + 1) + 1
        <5>1. results' = 0 \/ results' = 1
          BY <1>3
        <5> QED  BY <5>1
      <4> QED  BY <1>4, <4>1, <4>2, LongestNat, NetworkConstants
    <3>2. CASE asked = <<>>
      BY <1>1, <1>7, <2>6, <3>2 DEF OpenPast
    <3> QED  BY <3>1, <3>2
  <2> QED  BY <1>1, <2>1, <2>3, <2>4, <2>5, <2>6 DEF OpenPast, Longest
<1>10. ASSUME NotReported PROVE OpenPast(s, p, q)'
  <2>1. TakenSince(s, p + q)'
    BY <1>10 DEF OpenPast, NotReported, TakenSince, First
  <2>2. \A a \in Nat : FewReports(q, a) => FewReports(q, a)'
    BY <1>10 DEF NotReported, FewReports
  <2>3. rttRequests'[s] < MaxDelay =>
            FewRequests(p, rttRequests[s])' /\ FewReports(q, rttRequests[s])'
    BY <1>1, <2>2 DEF OpenPast, FewRequests, FewReports
  <2>4. age'.rtt < RttInterval => FewReports(q, RequestMaxAge + age.rtt)'
    BY <1>1, <1>10 DEF OpenPast, NotReported, FewReports
  <2>5. \A i \in DOMAIN asked' : FewReports(q, RequestMaxAge + asked[i].age)'
    BY <1>5, <2>2 DEF FewReports
  <2>6. ASSUME rttRequests'[s] = MaxDelay, age'.rtt = RttInterval, asked' = <<>>
        PROVE  (q + results') * ResultInterval <= RequestMaxAge + Longest + 2 * ResultInterval
    <3>1. CASE asked # <<>>
      <4>1. q * ResultInterval + ResultInterval <= RequestMaxAge + Longest + 2 * ResultInterval
        BY <1>3, <1>4, <1>6, <3>1, LongestNat, NetworkConstants
      <4>2. q + results' = q \/ q + results' = q + 1
        <5>1. results' = 0 \/ results' = 1
          BY <1>3
        <5> QED  BY <5>1
      <4> QED  BY <1>4, <4>1, <4>2, LongestNat, NetworkConstants
    <3>2. CASE asked = <<>>
      <4>1. (q + 1) * ResultInterval <= RequestMaxAge + Longest + 2 * ResultInterval
        BY <1>1, <1>7, <2>6, <3>2 DEF OpenPast
      <4> QED  BY <1>4, <1>7, <1>8, <3>2, <4>1, LongestNat, NetworkConstants
    <3> QED  BY <3>1, <3>2
  <2> QED  BY <1>1, <2>1, <2>3, <2>4, <2>5, <2>6 DEF OpenPast, Longest
<1> QED  BY <1>9, <1>10

LEMMA AnsweredOpen ==
  ASSUME NetworkInv, NetworkTypes', Answered
  PROVE  OpenInv'
<1>1. PICK p \in [Open -> Nat], q \in [Open -> Nat] :
          /\ \A s, t \in Open : p[s] = p[t] => s = t
          /\ \A s \in Open : OpenPast(s, p[s], q[s])
  BY DEF NetworkInv, OpenInv
<1> DEFINE pp == [s \in Open' |-> p[s]]
<1>2. Open' \subseteq Open
  BY DEF Answered
<1>3. pp \in [Open' -> Nat] /\ \A s, t \in Open' : pp[s] = pp[t] => s = t
  BY <1>1, <1>2
<1>4. \A s \in Open' : p[s] \in Nat /\ q[s] \in Nat /\ q[s] + 1 \in Nat
  BY <1>1, <1>2
<1>5. CASE Reported
  <2> DEFINE qq == [s \in Open' |-> q[s] + 1]
  <2>1. qq \in [Open' -> Nat]
    BY <1>4
  <2>2. ASSUME NEW s, s \in Open' PROVE OpenPast(s, p[s], q[s] + 1)'
    BY <1>1, <1>2, <1>4, <1>5, <2>2, AnsweredOpenFits
  <2> QED  BY <1>3, <2>1, <2>2 DEF OpenInv
<1>6. CASE NotReported
  <2> DEFINE qq == [s \in Open' |-> q[s]]
  <2>1. qq \in [Open' -> Nat]
    BY <1>4
  <2>2. ASSUME NEW s, s \in Open' PROVE OpenPast(s, p[s], q[s])'
    BY <1>1, <1>2, <1>4, <1>6, <2>2, AnsweredOpenFits
  <2> QED  BY <1>3, <2>1, <2>2 DEF OpenInv
<1> QED  BY <1>5, <1>6 DEF Answered

LEMMA AnsweredFits ==
  ASSUME NetworkInv, Answered
  PROVE  AnswersFitRequests'
<1> SUFFICES ASSUME NEW i \in DOMAIN asked', asked'[i].number \in Open'
             PROVE  rttRequests'[asked'[i].number] = asked'[i].age
  BY DEF AnswersFitRequests
<1>1. PICK j \in DOMAIN asked : asked'[i] = asked[j]
  BY AnsweredIndex DEF NetworkInv
<1> QED  BY <1>1 DEF NetworkInv, AnswersFitRequests, Answered

AgeTypes == age \in [DOMAIN MaxAges -> Nat] /\ \A k \in DOMAIN MaxAges : age[k] <= MaxAges[k]

LEMMA AverageTold ==
  ASSUME NetworkInv, NEW r, DOMAIN r \subseteq Open, NEW b, NEW a \in 0..AverageInterval + 1,
         UpdateAverageRtt(r, b, a)
  PROVE  /\ Reported \/ NotReported
         /\ age'.rtt = age.rtt /\ sequenceNumber' \in Numbers /\ AgeTypes'
<1>1. /\ sequenceNumber \in Numbers
      /\ DOMAIN MaxAges = {"rtt", "measure", "start", "report", "answer"}
      /\ MaxAges.answer = AverageInterval + 1 /\ MaxAges.report \in Nat
      /\ age \in [DOMAIN MaxAges -> Nat] /\ \A k \in DOMAIN MaxAges : age[k] <= MaxAges[k]
  BY NetworkConstants DEF NetworkInv, NetworkTypes, MaxAges
<1>2. First \notin DOMAIN r
  BY FirstIsFree
<1>3. NextNumber(r) = First
  BY <1>1, <1>2, NextIsFirst
<1>4. CASE a <= AverageInterval /\ b /\ age.report = ResultInterval
  <2>1. Advance(First) /\ age' = [age EXCEPT !.answer = a, !.report = 0]
    BY <1>3, <1>4 DEF UpdateAverageRtt
  <2>2. age'.rtt = age.rtt /\ age'.report = 0
    BY <1>1, <2>1
  <2>3. a \in Nat /\ a <= AverageInterval + 1 /\ 0 \in Nat
    BY NetworkConstants
  <2>4. \A k \in DOMAIN MaxAges : age'[k] \in Nat /\ age'[k] <= MaxAges[k]
    <3> SUFFICES ASSUME NEW k \in DOMAIN MaxAges
                 PROVE  age'[k] \in Nat /\ age'[k] <= MaxAges[k]
      OBVIOUS
    <3>1. CASE k = "answer"
      BY <1>1, <2>1, <2>3, <3>1
    <3>2. CASE k = "report"
      BY <1>1, <2>1, <2>3, <3>2
    <3>3. CASE k \notin {"answer", "report"}
      BY <1>1, <2>1, <3>3
    <3> QED  BY <3>1, <3>2, <3>3
  <2>5. age' \in [DOMAIN MaxAges -> Nat]
    BY <1>1, <2>1, <2>3
  <2>6. AgeTypes'
    BY <2>4, <2>5 DEF AgeTypes, MaxAges
  <2> QED  BY <1>1, <1>4, <2>1, <2>2, <2>6, TakeFirst DEF Reported
<1>5. CASE ~(a <= AverageInterval /\ b /\ age.report = ResultInterval)
  <2>1. sequenceNumber' = sequenceNumber /\ age' = [age EXCEPT !.answer = a]
    BY <1>5 DEF UpdateAverageRtt
  <2>2. AgeTypes' /\ age'.rtt = age.rtt /\ age'.report = age.report
    BY <1>1, <2>1 DEF AgeTypes, MaxAges
  <2> QED  BY <1>1, <2>1, <2>2 DEF NotReported
<1> QED  BY <1>4, <1>5

LEMMA ResponseKeeps ==
  ASSUME NetworkInv, OnRttMeasureResponse
  PROVE  NetworkInv'
<1>1. PICK i \in DOMAIN asked :
        LET n == asked[i].number
        IN  /\ asked' = RemoveAt(asked, i)
            /\ IF n \notin Open THEN UNCHANGED <<rttRequests, sequenceNumber, age>>
               ELSE /\ rttRequests' = Without(n)
                    /\ \/ UpdateAverageRtt(Without(n), hasBandwidth, 0)
                       \/ rttRequests[n] = 0 /\ UNCHANGED <<sequenceNumber, age>>
  BY DEF OnRttMeasureResponse
<1> DEFINE n == asked[i].number
<1>2. awake' = TRUE /\ UNCHANGED <<measure, hasBandwidth, answering, results>> /\ NetworkTypes
  BY DEF OnRttMeasureResponse, NetworkInv
<1>3. asked' \in Seq([number : Numbers \ {0}, age : 0..MaxDelay])
  <2> DEFINE R == [number : Numbers \ {0}, age : 0..MaxDelay]
  <2>1. asked \in Seq(R)
    BY <1>2 DEF NetworkTypes
  <2> HIDE DEF R
  <2>2. asked' \in Seq(R)
    BY <1>1, <2>1, WithoutOne
  <2> QED  BY <2>2 DEF R
<1>4. /\ Reported \/ NotReported
      /\ age'.rtt = age.rtt /\ sequenceNumber' \in Numbers /\ AgeTypes'
      /\ Open' \subseteq Open /\ rttRequests' = [s \in Open' |-> rttRequests[s]]
  <2>1. UNCHANGED <<sequenceNumber, age>> =>
            /\ NotReported /\ age'.rtt = age.rtt
            /\ sequenceNumber' \in Numbers /\ AgeTypes'
    BY <1>2 DEF NetworkTypes, NotReported, AgeTypes, MaxAges
  <2>2. CASE n \in Open
    <3>1. DOMAIN Without(n) \subseteq Open /\ Without(n) = [s \in DOMAIN Without(n) |-> rttRequests[s]]
      BY DEF Without
    <3>2. rttRequests' = Without(n)
      BY <1>1, <2>2
    <3>3. Open' \subseteq Open /\ rttRequests' = [s \in Open' |-> rttRequests[s]]
      BY <3>1, <3>2 DEF Open
    <3>4. CASE UpdateAverageRtt(Without(n), hasBandwidth, 0)
      <4>1. 0 \in 0..AverageInterval + 1
        BY NetworkConstants
      <4> QED  BY <3>1, <3>3, <3>4, <4>1, AverageTold
    <3>5. CASE UNCHANGED <<sequenceNumber, age>>
      BY <2>1, <3>3, <3>5
    <3> QED  BY <1>1, <2>2, <3>4, <3>5
  <2>3. CASE n \notin Open
    <3>1. UNCHANGED <<rttRequests, sequenceNumber, age>>
      BY <1>1, <2>3
    <3>2. rttRequests = [s \in Open |-> rttRequests[s]]
      BY <1>2 DEF NetworkTypes
    <3> QED  BY <2>1, <3>1, <3>2 DEF Open
  <2> QED  BY <2>2, <2>3
<1>5. NetworkTypes'
  BY <1>2, <1>3, <1>4 DEF NetworkTypes, AgeTypes
<1>6. Answered
  BY <1>1, <1>2, <1>4 DEF Answered
<1> QED  BY <1>5, <1>6, AnsweredAsked, AnsweredOpen, AnsweredFits DEF NetworkInv

LEMMA ResultsKeep ==
  ASSUME NetworkInv, NEW empty \in BOOLEAN, OnBandwidthMeasureResults(empty)
  PROVE  NetworkInv'
<1>1. NetworkTypes
  BY DEF NetworkInv
<1>2. /\ results > 0 /\ results' = results - 1 /\ UNCHANGED <<rttRequests, answering, asked>>
      /\ awake' = TRUE /\ measure = "PendingResults"
  BY <1>1 DEF OnBandwidthMeasureResults, NetworkTypes
<1>3. results = 1 /\ results' = 0 /\ Open' = Open
  BY <1>1, <1>2 DEF NetworkTypes, Open
<1>4. /\ Reported \/ NotReported
      /\ age'.rtt = age.rtt /\ sequenceNumber' \in Numbers /\ AgeTypes'
      /\ measure' = "None" /\ hasBandwidth' \in BOOLEAN
  <2>1. CASE empty
    BY <1>1, <1>2, <2>1 DEF OnBandwidthMeasureResults, NetworkTypes, NotReported, AgeTypes
  <2>2. CASE ~empty
    <3>1. measure' = "None" /\ hasBandwidth' = TRUE
          /\ UpdateAverageRtt(rttRequests, TRUE, age.answer)
      BY <1>2, <2>2 DEF OnBandwidthMeasureResults
    <3>2. age.answer \in 0..AverageInterval + 1
      BY <1>1, AgesInRange, NetworkConstants
    <3> QED  BY <3>1, <3>2, AverageTold DEF Open
  <2> QED  BY <2>1, <2>2
<1>5. NetworkTypes'
  BY <1>1, <1>2, <1>3, <1>4 DEF NetworkTypes, AgeTypes
<1>6. Answered
  BY <1>2, <1>3, <1>4 DEF Answered
<1> QED  BY <1>5, <1>6, AnsweredAsked, AnsweredOpen, AnsweredFits DEF NetworkInv

-----------------------------------------------------------------------------
(* update *)

LEMMA UpdateState ==
  ASSUME NetworkInv, NetworkUpdate
  PROVE  /\ measure' \in {"None", "PendingStop", "PendingResults"}
         /\ results' \in 0..1 /\ (results' = 1 => measure' = "PendingResults")
         /\ awake' = FALSE /\ UNCHANGED <<hasBandwidth, answering>>
         /\ AgeTypes' /\ age'.report = age.report
         /\ age'.rtt = IF Requests THEN 0 ELSE age.rtt
<1>1. /\ measure \in {"None", "PendingStop", "PendingResults"}
      /\ results \in 0..1 /\ (results = 1 => measure = "PendingResults")
      /\ DOMAIN MaxAges = {"rtt", "measure", "start", "report", "answer"}
      /\ \A k \in DOMAIN MaxAges : MaxAges[k] \in Nat
      /\ age \in [DOMAIN MaxAges -> Nat] /\ \A k \in DOMAIN MaxAges : age[k] <= MaxAges[k]
  BY NetworkConstants DEF NetworkInv, NetworkTypes, MaxAges
<1>2. /\ measure' = CASE Starts -> "PendingStop" [] Stops -> "PendingResults" [] OTHER -> measure
      /\ results' = IF Stops /\ answering THEN results + 1 ELSE results
      /\ age' = [k \in DOMAIN age |->
                    IF (k = "rtt" /\ Requests) \/ (k \in {"measure", "start"} /\ Starts)
                    THEN 0 ELSE age[k]]
      /\ awake' = FALSE /\ UNCHANGED <<hasBandwidth, answering>>
  BY DEF NetworkUpdate
<1>3. /\ Starts => measure = "None" /\ ~Stops
      /\ Stops => measure = "PendingStop"
  BY DEF Starts, Stops
<1>4. /\ Starts => measure' = "PendingStop"
      /\ Stops => measure' = "PendingResults"
      /\ ~Starts /\ ~Stops => measure' = measure
  BY <1>2, <1>3
<1>5. /\ measure' \in {"None", "PendingStop", "PendingResults"}
      /\ results' \in 0..1 /\ (results' = 1 => measure' = "PendingResults")
  BY <1>1, <1>2, <1>3, <1>4
<1>6. DOMAIN age' = DOMAIN MaxAges
      /\ \A k \in DOMAIN MaxAges : age'[k] \in Nat /\ age'[k] <= MaxAges[k]
  BY <1>1, <1>2
<1>7. age' \in [DOMAIN MaxAges -> Nat]
  BY <1>1, <1>2, <1>6
<1>8. AgeTypes'
  BY <1>6, <1>7 DEF AgeTypes, MaxAges
<1>9. age'.report = age.report /\ age'.rtt = IF Requests THEN 0 ELSE age.rtt
  BY <1>1, <1>2
<1> QED  BY <1>2, <1>5, <1>8, <1>9

LEMMA UpdateAloneKeeps ==
  ASSUME NetworkInv, NetworkUpdate, ~Requests
  PROVE  NetworkInv'
<1>1. UNCHANGED <<rttRequests, sequenceNumber, asked>> /\ age'.rtt = age.rtt
      /\ age'.report = age.report /\ Open' = Open /\ age.rtt # RttInterval
  BY UpdateState DEF NetworkUpdate, Requests, Open
<1>2. NetworkTypes'
  BY <1>1, UpdateState DEF NetworkInv, NetworkTypes, AgeTypes
<1>3. AskedInv'
  BY <1>1 DEF NetworkInv, AskedInv, AskedPast, TakenSince, First, FewRequests, FewReports
<1>4. ASSUME NEW s, NEW p, NEW q, OpenPast(s, p, q) PROVE OpenPast(s, p, q)'
  BY <1>1, <1>4 DEF OpenPast, TakenSince, First, FewRequests, FewReports
<1>5. OpenInv'
  <2>1. PICK p \in [Open -> Nat], q \in [Open -> Nat] :
            /\ \A s, t \in Open : p[s] = p[t] => s = t
            /\ \A s \in Open : OpenPast(s, p[s], q[s])
    BY DEF NetworkInv, OpenInv
  <2>2. \A s \in Open : OpenPast(s, p[s], q[s])'
    BY <1>4, <2>1
  <2> QED  BY <1>1, <2>1, <2>2 DEF OpenInv
<1>6. AnswersFitRequests'
  BY <1>1 DEF NetworkInv, AnswersFitRequests
<1> QED  BY <1>2, <1>3, <1>5, <1>6 DEF NetworkInv

\* A new request has the number First; what is not given up goes on, and so do the
\* requests that are not answered.
LEMMA RequestState ==
  ASSUME NetworkInv, NetworkUpdate, Requests
  PROVE  /\ Advance(First) /\ First \in Open' /\ rttRequests'[First] = 0
         /\ Open' = {s \in Open : rttRequests[s] <= RequestMaxAge} \union {First}
         /\ \A s \in Open' \ {First} : rttRequests'[s] = rttRequests[s]
         /\ rttRequests' \in [Open' -> 0..MaxDelay] /\ Open' \subseteq Numbers \ {0}
         /\ asked' \in {asked, Append(asked, [number |-> First, age |-> 0])}
<1>1. DOMAIN Unexpired = {s \in Open : rttRequests[s] <= RequestMaxAge}
      /\ \A s \in DOMAIN Unexpired : Unexpired[s] = rttRequests[s]
  BY DEF Unexpired
<1>2. NextNumber(Unexpired) = First /\ First \in Numbers \ {0} /\ First \notin Open
  BY <1>1, FirstIsFree, NextIsFirst DEF NetworkInv, NetworkTypes
<1>3. /\ rttRequests' = [m \in DOMAIN Unexpired \union {First} |->
                             IF m = First THEN 0 ELSE Unexpired[m]]
      /\ Advance(First)
      /\ asked' \in {asked, Append(asked, [number |-> First, age |-> 0])}
  BY <1>2 DEF NetworkUpdate, RequestRtt
<1>4. Open' = DOMAIN Unexpired \union {First}
  BY <1>3 DEF Open
<1>5. \A s \in Open' \ {First} : s \in Open /\ rttRequests'[s] = rttRequests[s]
  BY <1>1, <1>3, <1>4
<1>6. rttRequests'[First] = 0
  BY <1>3
<1>7. \A s \in Open' : s \in Numbers \ {0} /\ rttRequests'[s] \in 0..MaxDelay
  BY <1>2, <1>5, <1>6, NetworkConstants DEF NetworkInv, NetworkTypes
<1>8. rttRequests' \in [Open' -> 0..MaxDelay]
  BY <1>3, <1>4, <1>7
<1> QED  BY <1>1, <1>3, <1>4, <1>5, <1>6, <1>7, <1>8

LEMMA RequestIndex ==
  ASSUME NetworkInv, NetworkUpdate, Requests, NEW i \in DOMAIN asked'
  PROVE  \/ i \in DOMAIN asked /\ asked'[i] = asked[i]
         \/ asked'[i] = [number |-> First, age |-> 0]
<1> DEFINE new == [number |-> First, age |-> 0]
<1>1. asked' \in {asked, Append(asked, new)}
  BY RequestState
<1>2. asked \in Seq([number : Numbers \ {0}, age : 0..MaxDelay])
  BY DEF NetworkInv, NetworkTypes
<1> HIDE DEF new
<1>3. (i \in DOMAIN asked /\ asked'[i] = asked[i]) \/ asked'[i] = new
  <2>1. CASE asked' = Append(asked, new)
    <3> DEFINE R == [number : Numbers \ {0}, age : 0..MaxDelay]
    <3>1. asked \in Seq(R)
      BY <1>2
    <3> HIDE DEF R
    <3>2. asked' = Append(asked, new)
      BY <1>1, <2>1
    <3>3. DOMAIN asked' = 1..Len(asked) + 1 /\ DOMAIN asked = 1..Len(asked) /\ Len(asked) \in Nat
      BY <3>1, <3>2
    <3>4. CASE i = Len(asked) + 1
      BY <3>1, <3>2, <3>4
    <3>5. CASE i # Len(asked) + 1
      BY <3>1, <3>2, <3>3, <3>5
    <3> QED  BY <3>4, <3>5
  <2>2. CASE asked' = asked
    BY <2>2
  <2>3. asked' = asked \/ asked' = Append(asked, new)
    BY <1>1
  <2> QED  BY <2>1, <2>2, <2>3
<1> QED  BY <1>3 DEF new

LEMMA RequestTypes ==
  ASSUME NetworkInv, NetworkUpdate, Requests
  PROVE  NetworkTypes'
<1> DEFINE R == [number : Numbers \ {0}, age : 0..MaxDelay]
           new == [number |-> First, age |-> 0]
<1>1. asked \in Seq(R) /\ sequenceNumber \in Numbers
  BY DEF NetworkInv, NetworkTypes
<1>2. new \in R
  BY <1>1, FirstNumber, NetworkConstants
<1>3. asked' \in {asked, Append(asked, new)}
  BY RequestState
<1> HIDE DEF R, new
<1>4. asked' \in Seq(R)
  BY <1>1, <1>2, <1>3
<1>5. sequenceNumber' \in Numbers
  BY <1>1, RequestState, TakeFirst
<1>6. hasBandwidth' \in BOOLEAN /\ answering' \in BOOLEAN
  BY UpdateState DEF NetworkInv, NetworkTypes
<1> QED  BY <1>4, <1>5, <1>6, RequestState, UpdateState DEF R, NetworkTypes, AgeTypes

LEMMA RequestAsked ==
  ASSUME NetworkInv, NetworkUpdate, Requests
  PROVE  AskedInv'
<1> SUFFICES ASSUME NEW i \in DOMAIN asked'
             PROVE  \E p, q \in Nat : AskedPast(i, p, q)'
  BY DEF AskedInv
<1>1. /\ sequenceNumber \in Numbers /\ Advance(First) /\ NetworkTypes
      /\ age.rtt = RttInterval /\ age'.rtt = 0
      /\ age.report \in 0..ResultInterval /\ age'.report = age.report
  BY AgesInRange, RequestState, UpdateState DEF NetworkInv, NetworkTypes, Requests
<1>2. CASE i \in DOMAIN asked /\ asked'[i] = asked[i]
  <2>1. PICK p \in Nat, q \in Nat : AskedPast(i, p, q)
    BY <1>2 DEF NetworkInv, AskedInv
  <2>2. /\ p + q \in Nat /\ p + q + 2 < SequenceNumbers
        /\ asked[i].number \in Numbers \ {0} /\ asked[i].age \in Nat
    BY <1>1, <1>2, <2>1, AskedShort, AskedTypes
  <2>3. FewRequests(p, asked[i].age) /\ FewReports(q, asked[i].age)
        /\ TakenSince(asked[i].number, p + q)
    BY <2>1 DEF AskedPast
  <2>4. (p + 1) * RttInterval + age'.rtt <= asked[i].age
    BY <1>1, <2>2, <2>3, RequestsMore DEF FewRequests
  <2>5. First' \in {asked[i].number + 1 + (p + q + 1),
                    asked[i].number + 1 + (p + q + 1) - (SequenceNumbers - 1)}
    BY <1>1, <2>2, <2>3, TakenSinceMore DEF TakenSince
  <2>6. TakenSince(asked[i].number, (p + 1) + q)'
    BY <1>2, <2>5 DEF TakenSince
  <2>7. AskedPast(i, p + 1, q)'
    BY <1>1, <1>2, <2>3, <2>4, <2>6 DEF AskedPast, FewRequests, FewReports
  <2> QED  BY <2>7
<1>3. CASE asked'[i] = [number |-> First, age |-> 0]
  <2>1. First' \in {First + 1 + (0 + 0), First + 1 + (0 + 0) - (SequenceNumbers - 1)}
    BY <1>1, TakenSinceFirst DEF TakenSince
  <2>2. asked'[i].number = First /\ asked'[i].age = 0
    BY <1>3
  <2>3. TakenSince(asked[i].number, 0 + 0)'
    BY <2>1, <2>2 DEF TakenSince
  <2>4. FewRequests(0, asked[i].age)' /\ FewReports(0, asked[i].age)'
    BY <1>1, <2>2, NetworkConstants DEF FewRequests, FewReports
  <2>5. AskedPast(i, 0, 0)'
    BY <2>3, <2>4 DEF AskedPast
  <2> QED  BY <2>5
<1> QED  BY <1>2, <1>3, RequestIndex

LEMMA RequestOpenFits ==
  ASSUME NetworkInv, NetworkUpdate, Requests
  PROVE  /\ \A s : s = First => OpenPast(s, 0, 0)'
         /\ \A s \in Open' \ {First} : \A p, q \in Nat :
                OpenPast(s, p, q) => OpenPast(s, p + 1, q)'
<1>1. /\ sequenceNumber \in Numbers /\ Advance(First) /\ NetworkTypes
      /\ age.rtt = RttInterval /\ age'.rtt = 0
      /\ age.report \in 0..ResultInterval /\ age'.report = age.report
  BY AgesInRange, RequestState, UpdateState DEF NetworkInv, NetworkTypes, Requests
<1>2. ASSUME NEW i \in DOMAIN asked' PROVE asked'[i].age \in Nat
  <2> DEFINE R == [number : Numbers \ {0}, age : 0..MaxDelay]
  <2>1. asked' \in Seq(R)
    BY RequestTypes DEF NetworkTypes
  <2> HIDE DEF R
  <2>2. asked'[i] \in R
    BY <1>2, <2>1
  <2> QED  BY <2>2 DEF R
<1>3. ASSUME NEW s, s = First PROVE OpenPast(s, 0, 0)'
  <2>1. TakenSince(s, 0)'
    BY <1>1, <1>3, TakenSinceFirst
  <2>2. rttRequests'[s] = 0
    BY <1>3, RequestState
  <2>3. \A a \in Nat : FewReports(0, RequestMaxAge + a)'
    BY <1>1, NetworkConstants DEF FewReports
  <2>4. \A i \in DOMAIN asked' : FewReports(0, RequestMaxAge + asked[i].age)'
    BY <1>2, <2>3 DEF FewReports
  <2>5. FewReports(0, RequestMaxAge + age.rtt)'
    BY <1>1, <2>3 DEF FewReports
  <2>6. FewRequests(0, rttRequests[s])' /\ FewReports(0, rttRequests[s])'
    BY <1>1, <2>2, NetworkConstants DEF FewRequests, FewReports
  <2> QED  BY <1>1, <2>1, <2>4, <2>5, <2>6, NetworkConstants DEF OpenPast
<1>4. ASSUME NEW s, s \in Open' \ {First}, NEW p \in Nat, NEW q \in Nat, OpenPast(s, p, q)
      PROVE  OpenPast(s, p + 1, q)'
  <2>1. /\ s \in Open /\ s \in Numbers \ {0} /\ rttRequests'[s] = rttRequests[s]
        /\ rttRequests[s] \in Nat /\ rttRequests[s] <= RequestMaxAge
    BY <1>1, <1>4, RequestState DEF NetworkTypes
  <2>2. p + q \in Nat /\ p + q + 2 < SequenceNumbers
    BY <1>1, <1>4, <2>1, OpenShort
  <2>3. FewRequests(p, rttRequests[s]) /\ FewReports(q, rttRequests[s])
    BY <1>4, <2>1, NetworkConstants DEF OpenPast
  <2>4. (p + 1) * RttInterval + age'.rtt <= rttRequests[s]
    BY <1>1, <2>1, <2>3, RequestsMore DEF FewRequests
  <2>5. (p + 1) * RttInterval <= RequestMaxAge
    BY <1>1, <2>1, <2>4, NetworkConstants
  <2>6. TakenSince(s, (p + 1) + q)'
    <3>1. TakenSince(s, p + q + 1)'
      BY <1>1, <1>4, <2>1, <2>2, TakenSinceMore DEF OpenPast
    <3>2. p + q + 1 = (p + 1) + q
      OBVIOUS
    <3> QED  BY <3>1, <3>2
  <2>7. q * ResultInterval \in Nat
    BY NetworkConstants
  <2>8. \A a \in Nat : FewReports(q, RequestMaxAge + a)'
    BY <1>1, <2>1, <2>3, <2>7, NetworkConstants DEF FewReports
  <2>9. \A i \in DOMAIN asked' : FewReports(q, RequestMaxAge + asked[i].age)'
    BY <1>2, <2>8 DEF FewReports
  <2>10. FewReports(q, RequestMaxAge + age.rtt)'
    BY <1>1, <2>8 DEF FewReports
  <2>11. FewRequests(p + 1, rttRequests[s])' /\ FewReports(q, rttRequests[s])'
    BY <1>1, <2>1, <2>3, <2>4 DEF FewRequests, FewReports
  <2> QED  BY <1>1, <2>5, <2>6, <2>9, <2>10, <2>11, NetworkConstants DEF OpenPast
<1> QED  BY <1>3, <1>4

LEMMA RequestOpen ==
  ASSUME NetworkInv, NetworkUpdate, Requests
  PROVE  OpenInv'
<1>1. PICK p \in [Open -> Nat], q \in [Open -> Nat] :
          /\ \A s, t \in Open : p[s] = p[t] => s = t
          /\ \A s \in Open : OpenPast(s, p[s], q[s])
  BY DEF NetworkInv, OpenInv
<1>2. Open' \ {First} \subseteq Open
  BY RequestState
<1>3. \A s \in Open' \ {First} : p[s] \in Nat /\ q[s] \in Nat
  BY <1>1, <1>2
<1>4. PICK pp \in [Open' -> Nat], qq \in [Open' -> Nat] : \A s \in Open' :
          IF s = First THEN pp[s] = 0 /\ qq[s] = 0 ELSE pp[s] = p[s] + 1 /\ qq[s] = q[s]
  <2> DEFINE pn == [s \in Open' |-> IF s = First THEN 0 ELSE p[s] + 1]
             qn == [s \in Open' |-> IF s = First THEN 0 ELSE q[s]]
  <2>1. pn \in [Open' -> Nat] /\ qn \in [Open' -> Nat]
    BY <1>3
  <2>2. \A s \in Open' :
            IF s = First THEN pn[s] = 0 /\ qn[s] = 0 ELSE pn[s] = p[s] + 1 /\ qn[s] = q[s]
    OBVIOUS
  <2> HIDE DEF pn, qn
  <2> QED  BY <2>1, <2>2
<1>5. \A s, t \in Open' : pp[s] = pp[t] => s = t
  BY <1>1, <1>2, <1>3, <1>4
<1>6. \A s \in Open' : OpenPast(s, pp[s], qq[s])'
  <2> SUFFICES ASSUME NEW s, s \in Open' PROVE OpenPast(s, pp[s], qq[s])'
    OBVIOUS
  <2>1. CASE s = First
    BY <1>4, <2>1, RequestOpenFits
  <2>2. CASE s # First
    BY <1>1, <1>2, <1>3, <1>4, <2>2, RequestOpenFits
  <2> QED  BY <2>1, <2>2
<1> QED  BY <1>4, <1>5, <1>6 DEF OpenInv

LEMMA RequestKeeps ==
  ASSUME NetworkInv, NetworkUpdate, Requests
  PROVE  NetworkInv'
<1>1. AnswersFitRequests'
  <2> SUFFICES ASSUME NEW i \in DOMAIN asked', asked'[i].number \in Open'
               PROVE  rttRequests'[asked'[i].number] = asked'[i].age
    BY DEF AnswersFitRequests
  <2>1. CASE i \in DOMAIN asked /\ asked'[i] = asked[i]
    BY <2>1, RequestState, FirstIsFree DEF NetworkInv, AnswersFitRequests
  <2>2. CASE asked'[i] = [number |-> First, age |-> 0]
    BY <2>2, RequestState
  <2> QED  BY <2>1, <2>2, RequestIndex
<1> QED  BY <1>1, RequestTypes, RequestAsked, RequestOpen DEF NetworkInv

-----------------------------------------------------------------------------
(* Time *)

LEMMA TickState ==
  ASSUME NetworkInv, Tick
  PROVE  /\ NetworkTypes' /\ Open' = Open /\ First' = First /\ results' = results
         /\ age'.rtt = Older(age.rtt, RttInterval)
         /\ age'.report = Older(age.report, ResultInterval)
         /\ \A s \in Open : rttRequests'[s] = Older(rttRequests[s], MaxDelay)
         /\ DOMAIN asked' = DOMAIN asked
         /\ \A i \in DOMAIN asked : asked[i].age < MaxDelay
                /\ asked'[i].number = asked[i].number /\ asked'[i].age = asked[i].age + 1
<1>1. /\ \A i \in DOMAIN asked : asked[i].age < MaxDelay
      /\ age' = [k \in DOMAIN age |-> Older(age[k], MaxAges[k])]
      /\ rttRequests' = [n \in Open |-> Older(rttRequests[n], MaxDelay)]
      /\ asked' = [i \in DOMAIN asked |-> [asked[i] EXCEPT !.age = @ + 1]]
      /\ UNCHANGED <<measure, sequenceNumber, hasBandwidth, awake, answering, results>>
  BY DEF Tick
<1>2. /\ DOMAIN MaxAges = {"rtt", "measure", "start", "report", "answer"}
      /\ MaxAges.rtt = RttInterval /\ MaxAges.report = ResultInterval
      /\ \A k \in DOMAIN MaxAges : MaxAges[k] \in Nat
      /\ age \in [DOMAIN MaxAges -> Nat] /\ \A k \in DOMAIN MaxAges : age[k] <= MaxAges[k]
  BY NetworkConstants DEF NetworkInv, NetworkTypes, MaxAges
<1>3. \A a, max \in Nat : a <= max => Older(a, max) \in Nat /\ Older(a, max) <= max
  BY DEF Older
<1>4. DOMAIN age' = DOMAIN MaxAges
      /\ \A k \in DOMAIN MaxAges : age'[k] \in Nat /\ age'[k] <= MaxAges[k]
  BY <1>1, <1>2, <1>3
<1>5. age' \in [DOMAIN MaxAges -> Nat]
  BY <1>1, <1>2, <1>4
<1>6. age'.rtt = Older(age.rtt, RttInterval) /\ age'.report = Older(age.report, ResultInterval)
  BY <1>1, <1>2
<1>7. Open' = Open /\ \A s \in Open : rttRequests'[s] = Older(rttRequests[s], MaxDelay)
  BY <1>1 DEF Open
<1>8. rttRequests' \in [Open -> 0..MaxDelay]
  <2>1. \A s \in Open : rttRequests[s] \in 0..MaxDelay
    BY DEF NetworkInv, NetworkTypes
  <2>2. \A s \in Open : Older(rttRequests[s], MaxDelay) \in 0..MaxDelay
    BY <2>1, <1>3, NetworkConstants
  <2> QED  BY <1>1, <2>2
<1> DEFINE R == [number : Numbers \ {0}, age : 0..MaxDelay]
<1>9. asked \in Seq(R) /\ DOMAIN asked' = DOMAIN asked
  BY <1>1 DEF NetworkInv, NetworkTypes
<1>10. ASSUME NEW i \in DOMAIN asked
       PROVE  /\ asked'[i].number = asked[i].number /\ asked'[i].age = asked[i].age + 1
              /\ asked'[i] \in R
  <2>1. asked[i] \in R
    <3> HIDE DEF R
    <3> QED  BY <1>9, <1>10
  <2>2. asked'[i] = [asked[i] EXCEPT !.age = @ + 1]
    BY <1>1, <1>10
  <2>3. asked'[i].number = asked[i].number /\ asked'[i].age = asked[i].age + 1
    BY <2>1, <2>2
  <2>4. asked[i].age + 1 \in 0..MaxDelay
    BY <1>1, <1>10, <2>1, NetworkConstants
  <2> QED  BY <2>1, <2>2, <2>3, <2>4
<1>11. asked' \in Seq(R)
  <2> HIDE DEF R
  <2>1. asked' = [i \in 1..Len(asked) |-> asked'[i]] /\ Len(asked) \in Nat
    BY <1>1, <1>9
  <2>2. \A i \in 1..Len(asked) : asked'[i] \in R
    BY <1>9, <1>10
  <2> QED  BY <2>1, <2>2
<1>12. First' = First
  BY <1>1 DEF First
<1>13. NetworkTypes'
  BY <1>1, <1>4, <1>5, <1>7, <1>8, <1>11 DEF NetworkInv, NetworkTypes, MaxAges
<1> QED  BY <1>1, <1>6, <1>7, <1>9, <1>10, <1>12, <1>13

LEMMA TickFew ==
  ASSUME NetworkInv, Tick, NEW p \in Nat, NEW q \in Nat, NEW a \in Nat
  PROVE  /\ FewRequests(p, a) => p * RttInterval + age'.rtt <= a + 1
         /\ FewReports(q, a) => q * ResultInterval + age'.report <= (a + 1) + ResultInterval
<1>1. age.rtt \in Nat /\ age.report \in Nat
      /\ p * RttInterval \in Nat /\ q * ResultInterval \in Nat
  BY AgesInRange, NetworkConstants DEF NetworkInv
<1>2. age'.rtt \in Nat /\ age'.rtt <= age.rtt + 1
      /\ age'.report \in Nat /\ age'.report <= age.report + 1
  BY <1>1, TickState DEF Older
<1> QED  BY <1>1, <1>2, NetworkConstants DEF FewRequests, FewReports

LEMMA TickAsked ==
  ASSUME NetworkInv, Tick
  PROVE  AskedInv'
<1> SUFFICES ASSUME NEW i \in DOMAIN asked
             PROVE  \E p, q \in Nat : AskedPast(i, p, q)'
  BY TickState DEF AskedInv
<1>1. PICK p \in Nat, q \in Nat : AskedPast(i, p, q)
  BY DEF NetworkInv, AskedInv
<1>2. asked'[i].number = asked[i].number /\ asked'[i].age = asked[i].age + 1
      /\ asked[i].age \in Nat /\ First' = First
  BY TickState, AskedTypes DEF NetworkInv
<1>3. FewRequests(p, asked[i].age)' /\ FewReports(q, asked[i].age)'
  BY <1>1, <1>2, TickFew DEF AskedPast, FewRequests, FewReports
<1>4. TakenSince(asked[i].number, p + q)'
  BY <1>1, <1>2 DEF AskedPast, TakenSince
<1>5. AskedPast(i, p, q)'
  BY <1>3, <1>4 DEF AskedPast
<1> QED  BY <1>5

LEMMA TickOpenFits ==
  ASSUME NetworkInv, Tick, NEW s \in Open, NEW p \in Nat, NEW q \in Nat, OpenPast(s, p, q)
  PROVE  OpenPast(s, p, q)'
<1>1. /\ rttRequests[s] \in 0..MaxDelay /\ rttRequests'[s] = Older(rttRequests[s], MaxDelay)
      /\ age.rtt \in 0..RttInterval /\ age'.rtt = Older(age.rtt, RttInterval)
      /\ age.report \in Nat /\ results \in 0..1 /\ results' = results
      /\ First' = First
  BY TickState, AgesInRange DEF NetworkInv, NetworkTypes
<1>2. /\ q * ResultInterval \in Nat /\ (q + 1) * ResultInterval = q * ResultInterval + ResultInterval
      /\ results = 0 => (q + results) = q
      /\ results = 1 => (q + results) = q + 1
  BY <1>1, NetworkConstants, OneMore
<1>3. TakenSince(s, p + q)'
  BY <1>1 DEF OpenPast, TakenSince
<1>4. rttRequests'[s] < MaxDelay =>
          FewRequests(p, rttRequests[s])' /\ FewReports(q, rttRequests[s])'
  <2> SUFFICES ASSUME rttRequests'[s] < MaxDelay
               PROVE  FewRequests(p, rttRequests[s])' /\ FewReports(q, rttRequests[s])'
    OBVIOUS
  <2>1. rttRequests[s] < MaxDelay /\ rttRequests'[s] = rttRequests[s] + 1
    BY <1>1, NetworkConstants DEF Older
  <2>2. FewRequests(p, rttRequests[s]) /\ FewReports(q, rttRequests[s])
    BY <2>1 DEF OpenPast
  <2> QED  BY <1>1, <2>1, <2>2, TickFew DEF FewRequests, FewReports
<1>5. age'.rtt < RttInterval => FewReports(q, RequestMaxAge + age.rtt)'
  <2> SUFFICES ASSUME age'.rtt < RttInterval
               PROVE  FewReports(q, RequestMaxAge + age.rtt)'
    OBVIOUS
  <2>1. age.rtt < RttInterval /\ age'.rtt = age.rtt + 1 /\ RequestMaxAge + age.rtt \in Nat
    BY <1>1, NetworkConstants DEF Older
  <2>2. q * ResultInterval + age'.report <= (RequestMaxAge + age.rtt + 1) + ResultInterval
    BY <2>1, TickFew DEF OpenPast
  <2> QED  BY <1>1, <2>1, <2>2, NetworkConstants DEF FewReports
<1>6. \A i \in DOMAIN asked' : FewReports(q, RequestMaxAge + asked[i].age)'
  <2> SUFFICES ASSUME NEW i \in DOMAIN asked
               PROVE  FewReports(q, RequestMaxAge + asked[i].age)'
    BY TickState
  <2>1. asked[i].age \in Nat /\ asked'[i].age = asked[i].age + 1
        /\ RequestMaxAge + asked[i].age \in Nat
    BY TickState, AskedTypes, NetworkConstants DEF NetworkInv
  <2>2. q * ResultInterval + age'.report <= (RequestMaxAge + asked[i].age + 1) + ResultInterval
    BY <2>1, TickFew DEF OpenPast
  <2> QED  BY <2>1, <2>2, NetworkConstants DEF FewReports
<1>7. ASSUME rttRequests'[s] = MaxDelay, age'.rtt = RttInterval, asked' = <<>>
      PROVE  (q + results) * ResultInterval <= RequestMaxAge + Longest + 2 * ResultInterval
  <2>1. asked = <<>>
    BY <1>7, TickState DEF NetworkInv, NetworkTypes
  <2>2. CASE rttRequests[s] < MaxDelay
    <3>1. q * ResultInterval <= MaxDelay + ResultInterval
      BY <1>1, <1>2, <2>2, NetworkConstants DEF OpenPast, FewReports
    <3> QED  BY <1>1, <1>2, <3>1, LongestNat, NetworkConstants
  <2>3. CASE age.rtt < RttInterval
    <3>1. q * ResultInterval <= RequestMaxAge + RttInterval + ResultInterval
      BY <1>1, <1>2, <2>3, NetworkConstants DEF OpenPast, FewReports
    <3> QED  BY <1>1, <1>2, <3>1, LongestNat, NetworkConstants
  <2>4. CASE rttRequests[s] = MaxDelay /\ age.rtt = RttInterval
    BY <2>1, <2>4 DEF OpenPast
  <2>5. \/ rttRequests[s] < MaxDelay \/ age.rtt < RttInterval
        \/ rttRequests[s] = MaxDelay /\ age.rtt = RttInterval
    BY <1>1, NetworkConstants
  <2> QED  BY <2>2, <2>3, <2>4, <2>5
<1> QED  BY <1>1, <1>3, <1>4, <1>5, <1>6, <1>7 DEF OpenPast, Longest

LEMMA TickKeeps ==
  ASSUME NetworkInv, Tick
  PROVE  NetworkInv'
<1>1. OpenInv'
  <2>1. PICK p \in [Open -> Nat], q \in [Open -> Nat] :
            /\ \A s, t \in Open : p[s] = p[t] => s = t
            /\ \A s \in Open : OpenPast(s, p[s], q[s])
    BY DEF NetworkInv, OpenInv
  <2>2. \A s \in Open : OpenPast(s, p[s], q[s])'
    BY <2>1, TickOpenFits
  <2> QED  BY <2>1, <2>2, TickState DEF OpenInv
<1>2. AnswersFitRequests'
  <2> SUFFICES ASSUME NEW i \in DOMAIN asked, asked'[i].number \in Open
               PROVE  rttRequests'[asked'[i].number] = asked'[i].age
    BY TickState DEF AnswersFitRequests
  <2>1. rttRequests[asked[i].number] = asked[i].age
    BY TickState DEF NetworkInv, AnswersFitRequests
  <2> QED  BY <2>1, TickState DEF Older
<1> QED  BY <1>1, <1>2, TickState, TickAsked DEF NetworkInv

-----------------------------------------------------------------------------
LEMMA NetworkInvInit == NetworkInit => NetworkInv
<1> SUFFICES ASSUME NetworkInit PROVE NetworkInv
  OBVIOUS
<1>1. Open = {} /\ asked = <<>>
  BY DEF NetworkInit, Open
<1>2. NetworkTypes
  <2>1. rttRequests \in [Open -> 0..MaxDelay] /\ age \in [DOMAIN MaxAges -> Nat]
        /\ \A k \in DOMAIN MaxAges : age[k] <= MaxAges[k]
    BY <1>1, NetworkConstants DEF NetworkInit, MaxAges
  <2>2. asked \in Seq([number : Numbers \ {0}, age : 0..MaxDelay])
    BY <1>1
  <2>3. sequenceNumber \in Numbers /\ Open \subseteq Numbers \ {0}
    BY <1>1, NetworkConstants DEF NetworkInit, Numbers
  <2>4. measure = "None" /\ {hasBandwidth, awake, answering} \subseteq BOOLEAN
    BY DEF NetworkInit
  <2>5. results \in 0..1 /\ results # 1
    BY DEF NetworkInit
  <2> QED  BY <2>1, <2>2, <2>3, <2>4, <2>5 DEF NetworkTypes
<1>3. OpenInv
  <2>1. [s \in Open |-> 0] \in [Open -> Nat]
    BY <1>1
  <2> QED  BY <1>1, <2>1 DEF OpenInv
<1> QED  BY <1>1, <1>2, <1>3 DEF NetworkInv, AskedInv, AnswersFitRequests

LEMMA NetworkInvStep == NetworkInv /\ [NetworkNext]_networkVars => NetworkInv'
<1> SUFFICES ASSUME NetworkInv, [NetworkNext]_networkVars PROVE NetworkInv'
  OBVIOUS
<1>1. CASE NetworkUpdate
  BY <1>1, RequestKeeps, UpdateAloneKeeps
<1>2. CASE Answer
  BY <1>2, ResponseKeeps, ResultsKeep DEF Answer
<1>3. CASE Tick
  BY <1>3, TickKeeps
<1>4. CASE Wake \/ UNCHANGED networkVars
  <2>0. UNCHANGED <<measure, sequenceNumber, rttRequests, hasBandwidth, age, answering, asked, results>>
        /\ awake' \in {TRUE, awake}
    BY <1>4 DEF Wake, networkVars
  <2> USE <2>0
  <2>1. Open' = Open /\ NetworkTypes' /\ AnswersFitRequests'
    BY DEF NetworkInv, NetworkTypes, AnswersFitRequests, Open
  <2>2. AskedInv'
    BY DEF NetworkInv, AskedInv, AskedPast, TakenSince, First, FewRequests, FewReports
  <2>3. \A s, p, q : OpenPast(s, p, q) => OpenPast(s, p, q)'
    BY DEF OpenPast, TakenSince, First, FewRequests, FewReports
  <2>4. OpenInv'
    BY <2>1, <2>3 DEF NetworkInv, OpenInv
  <2> QED  BY <2>1, <2>2, <2>4 DEF NetworkInv
<1> QED  BY <1>1, <1>2, <1>3, <1>4 DEF NetworkNext

\* The steps of the detection, without what has to happen.
NetworkSafety == NetworkInit /\ [][NetworkNext]_networkVars

LEMMA NetworkInvHolds == NetworkSafety => []NetworkInv
  BY NetworkInvInit, NetworkInvStep, PTL DEF NetworkSafety

\* A late answer is never taken for that to a later request, whatever the intervals, the
\* delay and the number of sequence numbers are, as long as these are not used up while an
\* answer may still come or a request is open.
THEOREM AnswersFitCorrect == NetworkSpec => []AnswersFitRequests
<1>1. NetworkSpec => NetworkSafety
  BY DEF NetworkSpec, NetworkSafety
<1>2. NetworkInv => AnswersFitRequests
  BY DEF NetworkInv
<1> QED  BY <1>1, <1>2, NetworkInvHolds, PTL

\* The requests since an open one are told apart by how many there were, and these
\* are few.
LEMMA FewOpen ==
  ASSUME NetworkInv
  PROVE  Cardinality(Open) <= RequestMaxAge \div RttInterval + 2
<1> DEFINE n == RequestMaxAge \div RttInterval
<1>1. n \in Nat
  BY NetworkConstants, DivNat
<1>2. PICK p \in [Open -> Nat] :
          /\ \A s, t \in Open : p[s] = p[t] => s = t
          /\ \A s \in Open : p[s] \in 0..n
  <2>1. PICK p \in [Open -> Nat], q \in [Open -> Nat] :
            /\ \A s, t \in Open : p[s] = p[t] => s = t
            /\ \A s \in Open : OpenPast(s, p[s], q[s])
    BY DEF NetworkInv, OpenInv
  <2>2. \A s \in Open : p[s] \in 0..n
    BY <2>1, OpenShort DEF NetworkInv
  <2> QED  BY <2>1, <2>2
<1> HIDE DEF n
<1>3. p \in Injection(Open, 0..n)
  BY <1>2 DEF Injection, IsInjective
<1>4. IsFiniteSet(0..n) /\ Cardinality(0..n) = n + 1
  BY <1>1, FS_Interval
<1>5. Cardinality(Open) <= n + 1 /\ Cardinality(Open) \in Nat
  BY <1>3, <1>4, FS_Injection, FS_CardinalityType
<1> QED  BY <1>1, <1>5 DEF n

LEMMA NetworkTypeHolds == NetworkSafety => []NetworkTypeOK
<1>1. NetworkInv => NetworkTypeOK
  <2> SUFFICES ASSUME NetworkInv PROVE NetworkTypeOK
    OBVIOUS
  <2>1. \A k \in DOMAIN MaxAges : age[k] \in 0..MaxAges[k]
    BY NetworkConstants DEF NetworkInv, NetworkTypes, MaxAges
  <2> QED  BY <2>1, FewOpen DEF NetworkInv, NetworkTypes, NetworkTypeOK
<1> QED  BY <1>1, NetworkInvHolds, PTL

\* Every variable stays in its range, and the open requests stay few however late the run
\* loop and the client are.
THEOREM NetworkTypeCorrect == NetworkSpec => []NetworkTypeOK
<1>1. NetworkSpec => NetworkSafety
  BY DEF NetworkSpec, NetworkSafety
<1> QED  BY <1>1, NetworkTypeHolds

\* A measurement that has stopped is going to have results, and has one at most.
ResultsAwaited == answering => (measure = "PendingResults" <=> results = 1)

\* For a client that answers no measurement waits for results in vain, which would be the
\* last one then: they are under way from the moment it stops until they have ended it,
\* whatever they say. (That it goes on, while there is traffic, is MeasuringGoesOn.)
THEOREM MeasurementEnds == NetworkSpec => []ResultsAwaited
<1>1. NetworkInit => ResultsAwaited
  BY DEF NetworkInit, ResultsAwaited
<1>2. NetworkInv /\ ResultsAwaited /\ [NetworkNext]_networkVars => ResultsAwaited'
  <2> SUFFICES ASSUME NetworkInv, ResultsAwaited, [NetworkNext]_networkVars PROVE ResultsAwaited'
    OBVIOUS
  <2>0. /\ results \in 0..1 /\ (results = 1 => measure = "PendingResults")
        /\ measure \in {"None", "PendingStop", "PendingResults"}
    BY DEF NetworkInv, NetworkTypes
  <2>1. CASE NetworkUpdate
    <3>1. /\ UNCHANGED answering
          /\ results' = (IF Stops /\ answering THEN results + 1 ELSE results)
          /\ measure' = CASE Starts -> "PendingStop" [] Stops -> "PendingResults" [] OTHER -> measure
      BY <2>1 DEF NetworkUpdate
    <3>2. CASE Starts
      BY <2>0, <3>1, <3>2 DEF Starts, Stops, ResultsAwaited
    <3>3. CASE Stops
      BY <2>0, <3>1, <3>3 DEF Starts, Stops, ResultsAwaited
    <3>4. CASE ~Starts /\ ~Stops
      BY <3>1, <3>4 DEF ResultsAwaited
    <3> QED  BY <3>2, <3>3, <3>4
  <2>2. ASSUME NEW empty \in BOOLEAN, OnBandwidthMeasureResults(empty) PROVE ResultsAwaited'
    <3>1. results = 1 /\ results' = 0 /\ measure = "PendingResults"
      BY <2>0, <2>2 DEF OnBandwidthMeasureResults
    <3>2. measure' = "None"
      BY <2>2, <3>1 DEF OnBandwidthMeasureResults
    <3> QED  BY <3>1, <3>2 DEF ResultsAwaited
  <2>3. CASE Wake \/ OnRttMeasureResponse \/ Tick \/ UNCHANGED networkVars
    BY <2>3 DEF Wake, OnRttMeasureResponse, Tick, networkVars, ResultsAwaited
  <2> QED  BY <2>1, <2>2, <2>3 DEF NetworkNext, Answer
<1>3. NetworkSpec => NetworkSafety
  BY DEF NetworkSpec, NetworkSafety
<1> QED  BY <1>1, <1>2, <1>3, NetworkInvHolds, PTL DEF NetworkSafety
=============================================================================
