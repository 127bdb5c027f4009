-------------------------- MODULE VideoStream_proofs --------------------------
(***************************************************************************)
(* What is proved of VideoStream for every value of its constants.         *)
(***************************************************************************)
EXTENDS VideoStream, TLAPS, FiniteSetTheorems

\* The groups of variables that actions leave unchanged.
USE DEF queueVars, envVars, threadVars, windowVars, surfaceVars,
        runVars, sourceVars, clientVars

\* The last element of a sequence that has one.
LEMMA LastType ==
    ASSUME NEW S, NEW q \in Seq(S), q # <<>>
    PROVE  Last(q) \in S
<1>1. Len(q) \in Nat /\ Len(q) # 0
  OBVIOUS
<1> QED
  BY <1>1 DEF Last

\* Taking over the damage of another frame gives a frame.
LEMMA DamageType ==
    ASSUME NEW f \in Frame, NEW g \in Frame
    PROVE  [f EXCEPT !.damage = @ \union g.damage] \in Frame
  BY DEF Frame

\* queueFrame leaves a queue of frames a queue of frames.
LEMMA EnqueueType ==
    ASSUME NEW q \in Seq(Frame), NEW f \in Frame
    PROVE  Enqueue(q, f) \in Seq(Frame)
<1>1. \A g \in Frame : <<g>> \in Seq(Frame)
  OBVIOUS
<1>2. Append(q, f) \in Seq(Frame)
  OBVIOUS
<1>3. q # <<>> => [f EXCEPT !.damage = @ \union Last(q).damage] \in Frame
  BY LastType, DamageType
<1> QED
  BY <1>1, <1>2, <1>3 DEF Enqueue

\* What the source produces is a frame of the active mode.
LEMMA SourceType ==
    ASSUME TypeOK, mode # NoMode, NEW f \in SourceFrames
    PROVE  f \in Frame /\ f.seq = produced + 1 /\ f.size \in Sizes
<1>1. f \in [seq : {produced + 1}, codec : {mode}, key : BOOLEAN,
             size : Sizes, damage : SUBSET Regions]
  BY DEF SourceFrames
<1>2. mode \in Modes
  BY DEF TypeOK
<1>3. mode \in {"H264", "Progressive"}
  BY <1>2, ModesAssumption
<1>4. produced + 1 \in Nat
  BY DEF TypeOK
<1> QED
  BY <1>1, <1>3, <1>4 DEF Frame

LEMMA QueueFrameType ==
    ASSUME TypeOK, mode # NoMode, NEW f \in SourceFrames, QueueFrame(f)
    PROVE  TypeOK'
<1>1. f \in Frame /\ f.seq \in Nat /\ f.size \in Sizes /\ produced' \in Nat
  BY SourceType DEF TypeOK, Frame, QueueFrame
<1>2. queue' \in Seq(Frame)
  BY <1>1, EnqueueType DEF TypeOK, QueueFrame
<1>3. stale' \in [Regions -> Nat]
  BY <1>1 DEF TypeOK, QueueFrame
<1>4. sourceSize' \in Sizes
  BY <1>1 DEF QueueFrame
<1>5. mainStep' \in MainSteps
  BY DEF TypeOK, QueueFrame, MainSteps
<1> QED
  BY <1>1, <1>2, <1>3, <1>4, <1>5 DEF TypeOK, QueueFrame, CurrentId

\* destroySurface, whichever thread calls it, leaves the surface and what the
\* client shows well typed.
LEMMA DropSurfaceType ==
    ASSUME TypeOK, DropSurface
    PROVE  /\ surface' \in [id : Nat, size : Sizes \union {NoSize}]
           /\ stale' \in [Regions -> Nat]
<1>1. NoSurface \in [id : Nat, size : Sizes \union {NoSize}]
  BY DEF NoSurface
<1>2. stale' \in [Regions -> Nat]
  BY DEF TypeOK, DropSurface
<1> QED
  BY <1>1, <1>2 DEF TypeOK, DropSurface

LEMMA EmptyWindowType ==
    ASSUME EmptyWindow
    PROVE  pendingFrames' \subseteq 0..CurrentId' /\ suspended' \in BOOLEAN
  BY DEF EmptyWindow

LEMMA PauseType ==
    ASSUME NEW n \in Nat
    PROVE  PauseFor(n) \in BOOLEAN
<1>1. (n >= LowQueueCount) \in BOOLEAN /\ (n > HighQueueCount) \in BOOLEAN
  BY QueueAssumption
<1> QED
  BY <1>1, Zenon DEF PauseFor

LEMMA MainType ==
    ASSUME TypeOK, Main
    PROVE  TypeOK'
<1>1. CASE mode # NoMode /\ \E f \in SourceFrames : QueueFrame(f)
  BY <1>1, QueueFrameType
<1>2. CASE DeliverPosted
  BY <1>2 DEF TypeOK, DeliverPosted, MainSteps, CurrentId
<1>3. CASE CountQueue
  BY <1>3 DEF TypeOK, CountQueue, MainSteps, CurrentId
<1>4. CASE DecidePause
  <2>1. encoderPaused' \in BOOLEAN /\ mainStep' \in MainSteps /\ seenCount' \in Nat
    BY <1>4, PauseType DEF TypeOK, DecidePause, MainSteps
  <2> QED
    BY <1>4, <2>1 DEF TypeOK, DecidePause, CurrentId
<1>5. CASE SetActiveEncodingMode
  <2>1. <<>> \in Seq(Frame)
    OBVIOUS
  <2>2. /\ mode' \in Modes \union {NoMode} /\ queue' \in Seq(Frame)
        /\ encoderPaused' \in BOOLEAN /\ sourceSize' \in Sizes \union {NoSize}
    BY <1>5, <2>1 DEF TypeOK, SetActiveEncodingMode
  <2>3. runStep' \in RunSteps
    BY <1>5 DEF SetActiveEncodingMode, RunSteps
  <2> QED
    BY <1>5, <2>2, <2>3 DEF TypeOK, SetActiveEncodingMode, CurrentId
<1>6. CASE UpdateInFlightWindow
  BY <1>6 DEF TypeOK, UpdateInFlightWindow, CurrentId
<1> QED
  BY <1>1, <1>2, <1>3, <1>4, <1>5, <1>6 DEF Main, UpdateBackpressure

LEMMA SubmissionType ==
    ASSUME TypeOK, Submission
    PROVE  TypeOK'
<1>1. CASE CheckCapacity
  BY <1>1 DEF TypeOK, CheckCapacity, SendSteps, CurrentId
<1>2. CASE TakeFrame
  <2>1. queue # <<>> => Head(queue) \in Frame /\ Tail(queue) \in Seq(Frame)
    BY DEF TypeOK
  <2>2. queue' \in Seq(Frame) /\ frame' \in Frame \union {NoFrame}
    BY <1>2, <2>1 DEF TypeOK, TakeFrame
  <2>3. sendStep' \in SendSteps \ {"submit"}
    BY <1>2 DEF TakeFrame, SendSteps
  <2> QED
    BY <1>2, <2>2, <2>3 DEF TypeOK, TakeFrame, CurrentId
<1>3. CASE DropFrame
  BY <1>3 DEF TypeOK, DropFrame, SendSteps, CurrentId
<1>4. CASE PassGuards
  BY <1>4 DEF TypeOK, PassGuards, SendSteps, CurrentId
<1>5. CASE TestPendingReset
  <2>1. sendStep' \in {"clear", "size"}
    BY <1>5 DEF TestPendingReset
  <2> QED
    BY <1>5, <2>1 DEF TypeOK, TestPendingReset, SendSteps, CurrentId
<1>14. CASE ClearPendingReset
  <2>1. sendStep' \in SendSteps /\ sendStep' # "submit" /\ {pendingReset', firstReset'} \subseteq BOOLEAN
    BY <1>14 DEF ClearPendingReset, SendSteps
  <2> QED
    BY <1>14, <2>1 DEF TypeOK, ClearPendingReset, CurrentId
<1>6. CASE TestSize
  <2>1. sendStep' \in {"destroy", "insert"} /\ firstReset' \in BOOLEAN
    BY <1>6 DEF TestSize
  <2> QED
    BY <1>6, <2>1 DEF TypeOK, TestSize, SendSteps, CurrentId
<1>7. CASE ResetDestroy \/ UndoCreate
  <2>1. sendStep' \in {"drop", "undrop"} /\ EmptyWindow
    BY <1>7 DEF ResetDestroy, UndoCreate
  <2>2. sendStep' \in SendSteps /\ sendStep' # "submit"
    BY <2>1 DEF SendSteps
  <2>3. CASE ResetDestroy
    BY <2>1, <2>2, <2>3, EmptyWindowType DEF TypeOK, ResetDestroy, CurrentId
  <2>4. CASE UndoCreate
    BY <2>1, <2>2, <2>4, EmptyWindowType DEF TypeOK, UndoCreate, CurrentId
  <2> QED
    BY <1>7, <2>3, <2>4
<1>8. CASE ResetDrop \/ UndoDrop
  <2>1. sendStep' \in {"create", "size", "insert"} /\ DropSurface
    BY <1>8 DEF ResetDrop, UndoDrop, AfterReset
  <2>2. sendStep' \in SendSteps /\ sendStep' # "submit"
    BY <2>1 DEF SendSteps
  <2>3. CASE ResetDrop
    BY <2>1, <2>2, <2>3, DropSurfaceType DEF TypeOK, ResetDrop, CurrentId
  <2>4. CASE UndoDrop
    BY <2>1, <2>2, <2>4, DropSurfaceType DEF TypeOK, UndoDrop, CurrentId
  <2> QED
    BY <1>8, <2>3, <2>4
<1>13. CASE ResetCreate
  <2>1. frame.size \in Sizes \union {NoSize}
    BY DEF TypeOK, Frame, NoFrame
  <2>2. (nextSurfaceId + 1) % SurfaceIds \in Nat
    BY BoundAssumption DEF TypeOK
  <2>3. surface' \in [id : Nat, size : Sizes \union {NoSize}] /\ nextSurfaceId' \in Nat
    BY <1>13, <2>1, <2>2 DEF TypeOK, ResetCreate
  <2>4. sendStep' \in {"size", "insert", "undo"}
    BY <1>13 DEF ResetCreate, AfterReset
  <2> QED
    BY <1>13, <2>3, <2>4 DEF TypeOK, ResetCreate, SendSteps, CurrentId
<1>9. CASE InsertPending
  BY <1>9 DEF TypeOK, InsertPending, SendSteps, CurrentId
<1>10. CASE Submit
  <2>1. frame.seq \in Nat
    BY DEF TypeOK, Frame, NoFrame
  <2>2. stale' \in [Regions -> Nat] /\ reference' \in Nat
    BY <1>10, <2>1 DEF TypeOK, Submit
  <2>3. unacked' \subseteq 0..CurrentId'
    <3>1. unacked' \subseteq unacked \union {CurrentId} /\ CurrentId' = CurrentId
      BY <1>10 DEF Submit, CurrentId
    <3>2. CurrentId \in 0..CurrentId /\ unacked \subseteq 0..CurrentId
      BY <1>10 DEF TypeOK, Submit, CurrentId
    <3> QED
      BY <3>1, <3>2
  <2>4. sendStep' \in {"post", "remove"}
    BY <1>10 DEF Submit
  <2> QED
    BY <1>10, <2>2, <2>3, <2>4 DEF TypeOK, Submit, SendSteps, CurrentId
<1>11. CASE RemovePending
  BY <1>11 DEF TypeOK, RemovePending, SendSteps, CurrentId
<1>12. CASE PostBackpressure
  BY <1>12 DEF TypeOK, PostBackpressure, SendSteps, CurrentId
<1> QED
  BY <1>1, <1>2, <1>3, <1>4, <1>5, <1>6, <1>7, <1>8, <1>9, <1>10, <1>11, <1>12, <1>13, <1>14
     DEF Submission, SendFrame, PerformReset

LEMMA RunType ==
    ASSUME TypeOK, Run
    PROVE  TypeOK'
<1>1. ASSUME NEW m \in Modes \union {NoMode}, CapsAdvertise(m)
      PROVE  TypeOK'
  <2>1. runStep' \in RunSteps /\ capsConfirmed' \in BOOLEAN /\ pendingReset' \in BOOLEAN
    BY <1>1 DEF TypeOK, CapsAdvertise, RunSteps
  <2> QED
    BY <1>1, <2>1 DEF TypeOK, CapsAdvertise, CurrentId
<1>2. ASSUME NEW id \in unacked, Acknowledge(id)
      PROVE  TypeOK'
  <2>1. /\ unacked' \subseteq unacked /\ pendingFrames' \subseteq pendingFrames
        /\ suspended' \in BOOLEAN
    BY <1>2 DEF Acknowledge
  <2> QED
    BY <1>2, <2>1 DEF TypeOK, Acknowledge, CurrentId
<1>3. CASE AdvertiseDestroy
  <2>1. runStep' \in RunSteps /\ EmptyWindow
    BY <1>3 DEF AdvertiseDestroy, RunSteps
  <2> QED
    BY <1>3, <2>1, EmptyWindowType DEF TypeOK, AdvertiseDestroy, CurrentId
<1>12. CASE AdvertiseDrop
  <2>1. runStep' \in RunSteps /\ DropSurface
    BY <1>12 DEF AdvertiseDrop, RunSteps
  <2> QED
    BY <1>12, <2>1, DropSurfaceType DEF TypeOK, AdvertiseDrop, CurrentId
<1>4. CASE CapsConfirm
  <2>1. runStep' \in RunSteps /\ capsConfirmed' \in BOOLEAN
    BY <1>4 DEF TypeOK, CapsConfirm, RunSteps
  <2> QED
    BY <1>4, <2>1 DEF TypeOK, CapsConfirm, CurrentId
<1>5. CASE SuspendAcks
  BY <1>5 DEF TypeOK, SuspendAcks, CurrentId
<1>6. CASE ResumeAcks
  <2>1. clientSuspended' \in BOOLEAN
    BY <1>6 DEF ResumeAcks
  <2> QED
    BY <1>6, <2>1 DEF TypeOK, ResumeAcks, CurrentId
<1>7. CASE SuppressOutput
  BY <1>7 DEF TypeOK, SuppressOutput, CurrentId
<1>8. CASE CloseRequestStop
  BY <1>8 DEF TypeOK, CloseRequestStop, RunSteps, CurrentId
<1>9. CASE CloseJoin
  BY <1>9 DEF TypeOK, CloseJoin, RunSteps, CurrentId
<1>10. CASE CloseClear
  <2>1. queue' \in Seq(Frame) /\ runStep' \in RunSteps
    BY <1>10 DEF CloseClear, RunSteps
  <2>2. pendingFrames' \subseteq 0..CurrentId' /\ suspended' \in BOOLEAN
    BY <1>10 DEF CloseClear
  <2> QED
    BY <1>10, <2>1, <2>2 DEF TypeOK, CloseClear, CurrentId
<1>11. CASE CloseDestroy
  <2>1. runStep' \in RunSteps /\ EmptyWindow /\ DropSurface
    BY <1>11 DEF CloseDestroy, RunSteps
  <2> QED
    BY <1>11, <2>1, EmptyWindowType, DropSurfaceType DEF TypeOK, CloseDestroy, CurrentId
<1> QED
  BY <1>1, <1>2, <1>3, <1>4, <1>5, <1>6, <1>7, <1>8, <1>9, <1>10, <1>11, <1>12
     DEF Run, Negotiation, Closing

\* Every variable keeps its type (the type invariant of the frame pipeline).
THEOREM TypeCorrect == Spec => []TypeOK
<1>1. Init => TypeOK
  <2> SUFFICES ASSUME Init PROVE TypeOK
    OBVIOUS
  <2>1. queue \in Seq(Frame) /\ stale \in [Regions -> Nat]
    BY DEF Init
  <2>2. mainStep \in MainSteps /\ sendStep \in SendSteps /\ runStep \in RunSteps
    BY DEF Init, MainSteps, SendSteps, RunSteps
  <2>3. surface \in [id : Nat, size : Sizes \union {NoSize}] /\ maxInFlight \in MinWindow..MaxWindow
    BY WindowAssumption DEF Init, NoSurface
  <2> QED
    BY <2>1, <2>2, <2>3 DEF Init, TypeOK, CurrentId
<1>2. TypeOK /\ [Next]_vars => TypeOK'
  <2>1. ASSUME TypeOK, UNCHANGED vars
        PROVE  TypeOK'
    BY <2>1 DEF vars, TypeOK, CurrentId
  <2> QED
    BY <2>1, MainType, SubmissionType, RunType DEF Next
<1> QED
  BY <1>1, <1>2, PTL DEF Spec

-----------------------------------------------------------------------------
\* InFlightBounded is not inductive: what the thread read when it checked the
\* capacity must still hold, up to the widest window, when it inserts.
BeforeInsert == {"take", "guard", "reset", "clear", "size", "destroy", "drop", "create",
                 "undo", "undrop", "insert"}

RoomToInsert == sendStep \in BeforeInsert => Cardinality(pendingFrames) < MaxWindow

WindowInv == TypeOK /\ InFlightBounded /\ RoomToInsert

\* The window is a finite set, so its subsets are no larger.
LEMMA WindowFinite ==
    ASSUME TypeOK
    PROVE  /\ IsFiniteSet(pendingFrames) /\ Cardinality(pendingFrames) \in Nat
           /\ \A S \in SUBSET pendingFrames :
                Cardinality(S) \in Nat /\ Cardinality(S) <= Cardinality(pendingFrames)
<1>1. IsFiniteSet(0..CurrentId)
  BY FS_Interval DEF TypeOK, CurrentId
<1>2. IsFiniteSet(pendingFrames)
  BY <1>1, FS_Subset DEF TypeOK
<1> QED
  BY <1>2, FS_Subset, FS_CardinalityType

\* A step that inserts nothing keeps both bounds, unless it goes on to insert.
LEMMA WindowShrinks ==
    ASSUME WindowInv, pendingFrames' \subseteq pendingFrames,
           sendStep' = sendStep \/ RoomToInsert'
    PROVE  InFlightBounded' /\ RoomToInsert'
  BY WindowFinite, WindowAssumption DEF WindowInv, InFlightBounded, RoomToInsert, BeforeInsert

LEMMA WindowStep ==
    ASSUME WindowInv, TypeOK', [Next]_vars
    PROVE  InFlightBounded' /\ RoomToInsert'
<1> USE DEF WindowInv
<1>1. CASE CheckCapacity
  <2>1. pendingFrames' = pendingFrames
    BY <1>1 DEF CheckCapacity
  <2>2. sendStep' \in {"done", "take"} /\ (sendStep' = "take" => HasInFlightCapacity)
    BY <1>1 DEF CheckCapacity
  <2>3. HasInFlightCapacity => Cardinality(pendingFrames) < MaxWindow
    <3>1. maxInFlight \in Int /\ maxInFlight <= MaxWindow /\ MaxWindow \in Nat
      BY WindowAssumption DEF TypeOK
    <3>2. Cardinality(pendingFrames) \in Nat
      BY WindowFinite
    <3> QED
      BY <3>1, <3>2 DEF HasInFlightCapacity
  <2> QED
    BY <2>1, <2>2, <2>3 DEF InFlightBounded, RoomToInsert, BeforeInsert
<1>2. CASE InsertPending
  <2>1. Cardinality(pendingFrames) < MaxWindow /\ sendStep' = "submit"
    BY <1>2 DEF InsertPending, RoomToInsert, BeforeInsert
  <2>2. Cardinality(pendingFrames \union {frameId}) <= Cardinality(pendingFrames) + 1
    <3>1. Cardinality(pendingFrames \union {frameId}) \in
            {Cardinality(pendingFrames), Cardinality(pendingFrames) + 1}
      BY WindowFinite, FS_AddElement
    <3> QED
      BY <3>1, WindowFinite
  <2>3. Cardinality(pendingFrames') <= Cardinality(pendingFrames) + 1
        /\ Cardinality(pendingFrames') \in Nat
    BY <1>2, <2>2, WindowFinite, FS_AddElement, FS_CardinalityType DEF InsertPending
  <2> QED
    BY <2>1, <2>3, WindowFinite, WindowAssumption DEF InFlightBounded, RoomToInsert, BeforeInsert
<1>3. CASE TakeFrame \/ DropFrame \/ PassGuards \/ TestPendingReset \/ ClearPendingReset \/ TestSize
           \/ PerformReset \/ RemovePending \/ PostBackpressure \/ Submit
  <2>1. pendingFrames' \subseteq pendingFrames
    BY <1>3 DEF TakeFrame, DropFrame, PassGuards, TestPendingReset, ClearPendingReset,
        TestSize, PerformReset, ResetDestroy, ResetDrop, ResetCreate, UndoCreate, UndoDrop,
        AfterReset, RemovePending, PostBackpressure, Submit, EmptyWindow, DropSurface
  <2>2. \/ sendStep' \in {"check", "post", "remove"}
        \/ sendStep \in BeforeInsert
    BY <1>3 DEF TakeFrame, DropFrame, PassGuards, TestPendingReset, ClearPendingReset,
        TestSize, PerformReset, ResetDestroy, ResetDrop, ResetCreate, UndoCreate, UndoDrop,
        AfterReset, RemovePending, PostBackpressure, Submit, BeforeInsert
  <2> QED
    BY <2>1, <2>2, WindowFinite, WindowAssumption DEF InFlightBounded, RoomToInsert, BeforeInsert
<1>4. CASE Main \/ Run \/ UNCHANGED vars
  <2>1. pendingFrames' \subseteq pendingFrames /\ sendStep' = sendStep
    <3>1. CASE Main
      BY <3>1 DEF Main, UpdateBackpressure, QueueFrame, DeliverPosted, CountQueue, DecidePause,
          SetActiveEncodingMode, UpdateInFlightWindow
    <3>2. CASE Run
      BY <3>2 DEF Run, Negotiation, Closing, CapsAdvertise, AdvertiseDestroy, AdvertiseDrop,
          CapsConfirm, Acknowledge, SuspendAcks, ResumeAcks, SuppressOutput, CloseRequestStop,
          CloseJoin, CloseClear, CloseDestroy, EmptyWindow, DropSurface
    <3>3. CASE UNCHANGED vars
      BY <3>3 DEF vars
    <3> QED
      BY <1>4, <3>1, <3>2, <3>3
  <2> QED
    BY <2>1, WindowShrinks
<1> QED
  BY <1>1, <1>2, <1>3, <1>4 DEF Next, Submission, SendFrame, PerformReset

\* The frames in flight never exceed the widest window (hasInFlightCapacity and
\* sendFrame, which check and insert in different critical sections).
THEOREM InFlightCorrect == Spec => []InFlightBounded
<1>1. Init => InFlightBounded /\ RoomToInsert
  BY WindowAssumption, FS_EmptySet DEF Init, InFlightBounded, RoomToInsert, BeforeInsert
<1>2. TypeOK /\ TypeOK' /\ (InFlightBounded /\ RoomToInsert) /\ [Next]_vars
        => (InFlightBounded /\ RoomToInsert)'
  BY WindowStep DEF WindowInv
<1>3. InFlightBounded /\ RoomToInsert => InFlightBounded
  OBVIOUS
<1> QED
  BY <1>1, <1>2, <1>3, TypeCorrect, PTL DEF Spec

-----------------------------------------------------------------------------
\* A client that acknowledges what it is sent leaves no frame in the window for
\* good. One that suspends acknowledgements can: see the README.
DrainInv == WindowDrains /\ ~clientSuspended

LEMMA DrainStep ==
    ASSUME ~CanSuspendAcks, TypeOK, DrainInv, [Next]_vars
    PROVE  DrainInv'
<1> USE DEF DrainInv, WindowDrains
<1>1. CASE InsertPending
  <2>1. InHand' = {frameId} /\ pendingFrames' \subseteq pendingFrames \union {frameId}
    BY <1>1 DEF InsertPending, InHand, CurrentId, TypeOK
  <2>2. InHand = {} /\ unacked' = unacked /\ clientSuspended' = clientSuspended
    BY <1>1 DEF InsertPending, InHand
  <2> QED
    BY <2>1, <2>2
<1>2. CASE Submit
  <2>1. pendingFrames' = pendingFrames /\ clientSuspended' = clientSuspended /\ CurrentId' = CurrentId
    BY <1>2 DEF Submit, CurrentId
  <2>2. CurrentId \in unacked' \/ InHand' = {CurrentId}
    BY <1>2, <2>1 DEF Submit, InHand
  <2>3. unacked \subseteq unacked' /\ InHand = {CurrentId}
    BY <1>2 DEF Submit, InHand
  <2> QED
    BY <2>1, <2>2, <2>3
<1>3. CASE RemovePending
  BY <1>3 DEF RemovePending, InHand
<1>4. CASE CheckCapacity \/ TakeFrame \/ DropFrame \/ PassGuards \/ TestPendingReset \/ ClearPendingReset \/ TestSize
           \/ PerformReset \/ PostBackpressure
  BY <1>4 DEF CheckCapacity, TakeFrame, DropFrame, PassGuards, TestPendingReset,
      ClearPendingReset, TestSize, PerformReset, ResetDestroy, ResetDrop, ResetCreate,
      UndoCreate, UndoDrop, AfterReset, PostBackpressure, EmptyWindow, DropSurface, InHand
<1>5. ASSUME NEW id, Acknowledge(id)
      PROVE  DrainInv'
  BY <1>5 DEF Acknowledge, InHand, CurrentId
<1>6. CASE Main \/ UNCHANGED vars
  BY <1>6 DEF Main, UpdateBackpressure, QueueFrame, DeliverPosted, CountQueue, DecidePause,
      SetActiveEncodingMode, UpdateInFlightWindow, vars, InHand, CurrentId
<1>7. ASSUME Run, \A id \in unacked : ~Acknowledge(id)
      PROVE  DrainInv'
  BY <1>7 DEF Run, Negotiation, Closing, CapsAdvertise, AdvertiseDestroy, AdvertiseDrop, CapsConfirm,
      SuspendAcks, ResumeAcks, SuppressOutput, CloseRequestStop, CloseJoin,
      CloseClear, CloseDestroy, EmptyWindow, DropSurface, InHand, CurrentId
<1> QED
  BY <1>1, <1>2, <1>3, <1>4, <1>5, <1>6, <1>7 DEF Next, Submission, SendFrame, PerformReset

\* As long as the client does not suspend its acknowledgements, every frame
\* that occupies the window will be acknowledged, whatever fails, blocks, is
\* resized, reset or renegotiated (sendFrame, onFrameAcknowledge).
THEOREM WindowDrainsCorrect ==
    ASSUME ~CanSuspendAcks
    PROVE  Spec => []WindowDrains
<1>1. Init => DrainInv
  BY DEF Init, DrainInv, WindowDrains
<1>2. TypeOK /\ DrainInv /\ [Next]_vars => DrainInv'
  BY DrainStep
<1>3. DrainInv => WindowDrains
  BY DEF DrainInv
<1> QED
  BY <1>1, <1>2, <1>3, TypeCorrect, PTL DEF Spec

-----------------------------------------------------------------------------
\* What ties the close, the negotiation and the submission thread together when
\* the client advertises its capabilities once.
CloseInv ==
    /\ runStep \in {"join", "clear", "closeDestroy", "closed"} => stopRequested
    /\ runStep \in {"clear", "closeDestroy", "closed"} => sendStep = "done"
    /\ sendStep = "done" => stopRequested

NegotiationInv ==
    /\ capsConfirmed \/ runStep \in {"destroy", "drop", "negotiate", "confirm"} => adverts >= 1
    /\ runStep = "negotiate" => negotiated # NoMode
    /\ runStep = "confirm" => mode # NoMode
    /\ capsConfirmed => mode # NoMode \/ sendStep = "done"
    /\ sendStep \notin {"check", "done"} => capsConfirmed

\* The submission thread is going to post an updateBackpressure.
Sending == sendStep \notin {"check", "take", "done"}

\* Why the encoder is not forgotten: only an H.264 encoder is paused, and a
\* count that the queue has fallen below since it was read is read again.
PauseInv ==
    /\ encoderPaused \/ mainStep = "decide" => mode = "H264" \/ stopRequested
    /\ mainStep = "decide" /\ Len(queue) < seenCount => posted > 0 \/ Sending \/ stopRequested
    /\ BackpressureCovered

LEMMA CloseStep ==
    ASSUME CloseInv, [Next]_vars
    PROVE  CloseInv'
<1> USE DEF CloseInv
<1>1. CASE Main \/ UNCHANGED vars
  BY <1>1 DEF Main, UpdateBackpressure, QueueFrame, DeliverPosted, CountQueue, DecidePause,
      SetActiveEncodingMode, UpdateInFlightWindow, vars
<1>2. CASE Submission
  BY <1>2 DEF Submission, SendFrame, PerformReset, CheckCapacity, TakeFrame, DropFrame,
      PassGuards, TestPendingReset, ClearPendingReset, TestSize, ResetDestroy, ResetDrop,
      ResetCreate, UndoCreate, UndoDrop, AfterReset, InsertPending, Submit, RemovePending,
      PostBackpressure
<1>3. CASE Run
  BY <1>3 DEF Run, Negotiation, Closing, CapsAdvertise, AdvertiseDestroy, AdvertiseDrop,
      CapsConfirm, Acknowledge, SuspendAcks, ResumeAcks, SuppressOutput, CloseRequestStop,
      CloseJoin, CloseClear, CloseDestroy
<1> QED
  BY <1>1, <1>2, <1>3 DEF Next

LEMMA NegotiationStep ==
    ASSUME ~CanBlock, MaxAdverts <= 1, TypeOK, CloseInv, NegotiationInv, [Next]_vars
    PROVE  NegotiationInv'
<1> USE DEF CloseInv, NegotiationInv
<1>1. CASE Main \/ UNCHANGED vars
  BY <1>1 DEF Main, UpdateBackpressure, QueueFrame, DeliverPosted, CountQueue, DecidePause,
      SetActiveEncodingMode, UpdateInFlightWindow, vars
<1>2. CASE Submission
  BY <1>2 DEF Submission, SendFrame, PerformReset, CheckCapacity, TakeFrame, DropFrame,
      PassGuards, TestPendingReset, ClearPendingReset, TestSize, ResetDestroy, ResetDrop,
      ResetCreate, UndoCreate, UndoDrop, AfterReset, InsertPending, Submit, RemovePending,
      PostBackpressure
<1>3. ASSUME NEW m \in Modes \union {NoMode}, CapsAdvertise(m)
      PROVE  NegotiationInv'
  <2>1. ~capsConfirmed /\ adverts' >= 1
    BY <1>3, BoundAssumption DEF CapsAdvertise, TypeOK
  <2> QED
    BY <1>3, <2>1 DEF CapsAdvertise
<1>4. CASE AdvertiseDestroy \/ AdvertiseDrop \/ CapsConfirm
  BY <1>4 DEF AdvertiseDestroy, AdvertiseDrop, CapsConfirm
<1>5. CASE CloseRequestStop \/ Closing
  BY <1>5 DEF Closing, CloseRequestStop, CloseJoin, CloseClear, CloseDestroy
<1>6. CASE SuspendAcks \/ ResumeAcks \/ SuppressOutput \/ \E id \in unacked : Acknowledge(id)
  BY <1>6 DEF Acknowledge, SuspendAcks, ResumeAcks, SuppressOutput
<1> QED
  BY <1>1, <1>2, <1>3, <1>4, <1>5, <1>6 DEF Next, Run, Negotiation

\* Of the main thread, the two halves of updateBackpressure matter.
LEMMA PauseMainStep ==
    ASSUME TypeOK, PauseInv, Main
    PROVE  PauseInv'
<1> USE DEF PauseInv, BackpressureCovered, Sending
<1>1. CASE CountQueue
  <2>1. Len(queue) \in Nat
    BY DEF TypeOK
  <2> QED
    BY <1>1, <2>1 DEF CountQueue
<1>2. CASE DecidePause
  <2>1. Len(queue) \in Nat /\ seenCount \in Nat
    BY DEF TypeOK
  <2>2. encoderPaused' /\ Len(queue) < LowQueueCount => Len(queue) < seenCount
    <3>1. encoderPaused' = PauseFor(seenCount)
      BY <1>2 DEF DecidePause
    <3>2. PauseFor(seenCount) => seenCount >= LowQueueCount
      BY <2>1, QueueAssumption DEF PauseFor
    <3>3. queue' = queue
      BY <1>2 DEF DecidePause
    <3> QED
      BY <2>1, <3>1, <3>2, <3>3, QueueAssumption
  <2> QED
    BY <1>2, <2>2 DEF DecidePause
<1>3. CASE DeliverPosted \/ UpdateInFlightWindow
  BY <1>3 DEF DeliverPosted, UpdateInFlightWindow
<1>4. CASE SetActiveEncodingMode
  BY <1>4 DEF SetActiveEncodingMode
<1>5. ASSUME NEW f \in SourceFrames, QueueFrame(f)
      PROVE  PauseInv'
  BY <1>5 DEF QueueFrame
<1> QED
  BY <1>1, <1>2, <1>3, <1>4, <1>5 DEF Main, UpdateBackpressure

\* What the submission thread takes and does not drop ends in a post.
LEMMA PauseSubmissionStep ==
    ASSUME TypeOK, PauseInv, Submission, ~DropFrame
    PROVE  PauseInv'
<1> USE DEF PauseInv, BackpressureCovered, Sending
<1>1. CASE CheckCapacity
  BY <1>1 DEF CheckCapacity
<1>2. CASE TakeFrame
  BY <1>2 DEF TakeFrame
<1>3. CASE PostBackpressure
  BY <1>3 DEF PostBackpressure, TypeOK
<1>4. CASE PassGuards \/ TestPendingReset \/ ClearPendingReset \/ TestSize \/ PerformReset
           \/ InsertPending \/ Submit \/ RemovePending
  BY <1>4 DEF PerformReset, PassGuards, TestPendingReset, ClearPendingReset, TestSize,
      ResetDestroy, ResetDrop, ResetCreate, UndoCreate, UndoDrop, AfterReset, InsertPending,
      Submit, RemovePending
<1> QED
  BY <1>1, <1>2, <1>3, <1>4 DEF Submission, SendFrame

LEMMA PauseRunStep ==
    ASSUME CloseInv, PauseInv, Run \/ UNCHANGED vars
    PROVE  PauseInv'
<1> USE DEF PauseInv, BackpressureCovered, Sending
<1>1. CASE CloseClear \/ CloseDestroy
  BY <1>1 DEF CloseInv, CloseClear, CloseDestroy
<1>2. CASE CloseRequestStop \/ CloseJoin
  BY <1>2 DEF CloseRequestStop, CloseJoin
<1>3. ASSUME NEW m, CapsAdvertise(m)
      PROVE  PauseInv'
  BY <1>3 DEF CapsAdvertise
<1>4. CASE Negotiation
  BY <1>4 DEF Negotiation, AdvertiseDestroy, AdvertiseDrop, CapsConfirm
<1>5. CASE SuspendAcks \/ ResumeAcks \/ SuppressOutput \/ \E id \in unacked : Acknowledge(id)
  BY <1>5 DEF Acknowledge, SuspendAcks, ResumeAcks, SuppressOutput
<1>6. CASE UNCHANGED vars
  BY <1>6 DEF vars
<1> QED
  BY <1>1, <1>2, <1>3, <1>4, <1>5, <1>6 DEF Run, Closing

\* Nothing but a frame that sendFrame refuses leaves a paused encoder paused: as long as none
\* is, one whose queue has drained is always going to be looked at again, whatever the
\* client advertises, suspends and suppresses, and whichever PDU fails (updateBackpressure,
\* sendFrame).
THEOREM OnlyRefusalsStall == Spec /\ [][~DropFrame]_vars => []BackpressureCovered
<1>1. Init => CloseInv /\ PauseInv
  BY DEF Init, CloseInv, PauseInv, BackpressureCovered, Sending
<1>2. TypeOK /\ CloseInv /\ PauseInv /\ [Next]_vars /\ [~DropFrame]_vars => CloseInv' /\ PauseInv'
  BY CloseStep, PauseMainStep, PauseSubmissionStep, PauseRunStep DEF Next
<1>3. PauseInv => BackpressureCovered
  BY DEF PauseInv
<1> QED
  BY <1>1, <1>2, <1>3, TypeCorrect, PTL DEF Spec

\* A frame is refused only by a transport that blocks or after a reset by the client.
LEMMA NoneIsRefused ==
    ASSUME ~CanBlock, MaxAdverts <= 1
    PROVE  Spec => [][~DropFrame]_vars
<1>1. Init => CloseInv /\ NegotiationInv
  BY DEF Init, CloseInv, NegotiationInv
<1>2. TypeOK /\ CloseInv /\ NegotiationInv /\ [Next]_vars => CloseInv' /\ NegotiationInv'
  BY CloseStep, NegotiationStep
<1>3. NegotiationInv => [~DropFrame]_vars
  BY DEF NegotiationInv, DropFrame
<1> QED
  BY <1>1, <1>2, <1>3, TypeCorrect, PTL DEF Spec

\* When the transport never blocks and the client advertises its capabilities once, a
\* paused encoder whose queue has drained is always looked at again: what makes
\* EncoderResumes hold.
THEOREM BackpressureCorrect ==
    ASSUME ~CanBlock, MaxAdverts <= 1
    PROVE  Spec => []BackpressureCovered
<1>1. Spec => [][~DropFrame]_vars
  BY NoneIsRefused
<1> QED
  BY <1>1, OnlyRefusalsStall, PTL

-----------------------------------------------------------------------------
\* SurfaceFitsFrame holds because a reset leaves no surface that it does not
\* replace, and because only the end of a reset or the test of the size let a
\* frame go on: what the run thread does in between only takes the surface away.
SurfaceInv ==
    /\ sendStep = "create" => surface.id = 0
    /\ sendStep \in {"insert", "submit"} => surface.id = 0 \/ surface.size = frame.size

\* destroySurface leaves no surface.
LEMMA DropLeavesNone ==
    ASSUME DropSurface
    PROVE  surface'.id = 0
  BY DEF DropSurface, NoSurface

LEMMA SurfaceStep ==
    ASSUME SurfaceInv, [Next]_vars
    PROVE  SurfaceInv'
<1> USE DEF SurfaceInv
<1>1. CASE TestSize
  BY <1>1 DEF TestSize, SizeDiffers
<1>2. CASE ResetDrop \/ UndoDrop
  <2>1. surface'.id = 0
    BY <1>2, DropLeavesNone DEF ResetDrop, UndoDrop
  <2> QED
    BY <2>1
<1>3. CASE ResetCreate
  <2>1. CASE sendStep' # "insert"
    BY <1>3, <2>1 DEF ResetCreate, AfterReset
  <2>2. CASE sendStep' = "insert"
    <3>1. frame' = frame /\ surface.id = 0
      BY <1>3 DEF ResetCreate
    <3>2. surface' = surface \/ surface' = [id |-> nextSurfaceId, size |-> frame.size]
      BY <1>3 DEF ResetCreate
    <3>3. surface'.id = 0 \/ surface'.size = frame.size
      BY <3>1, <3>2
    <3> QED
      BY <2>2, <3>1, <3>3
  <2> QED
    BY <2>1, <2>2
<1>4. CASE CheckCapacity \/ TakeFrame \/ DropFrame \/ PassGuards \/ TestPendingReset \/ ClearPendingReset
           \/ ResetDestroy \/ UndoCreate \/ InsertPending \/ Submit \/ RemovePending \/ PostBackpressure
  BY <1>4 DEF CheckCapacity, TakeFrame, DropFrame, PassGuards, TestPendingReset, ClearPendingReset,
      ResetDestroy, UndoCreate, InsertPending, Submit, RemovePending, PostBackpressure
<1>5. CASE Main \/ UNCHANGED vars
  BY <1>5 DEF Main, UpdateBackpressure, QueueFrame, DeliverPosted, CountQueue, DecidePause,
      SetActiveEncodingMode, UpdateInFlightWindow, vars
<1>6. CASE Run
  <2>1. UNCHANGED <<sendStep, frame>>
    BY <1>6 DEF Run, Negotiation, Closing, CapsAdvertise, AdvertiseDestroy, AdvertiseDrop, CapsConfirm,
        Acknowledge, SuspendAcks, ResumeAcks, SuppressOutput, CloseRequestStop, CloseJoin,
        CloseClear, CloseDestroy
  <2>2. UNCHANGED surface \/ DropSurface
    BY <1>6 DEF Run, Negotiation, Closing, CapsAdvertise, AdvertiseDestroy, AdvertiseDrop, CapsConfirm,
        Acknowledge, SuspendAcks, ResumeAcks, SuppressOutput, CloseRequestStop, CloseJoin,
        CloseClear, CloseDestroy
  <2> QED
    BY <2>1, <2>2, DropLeavesNone
<1> QED
  BY <1>1, <1>2, <1>3, <1>4, <1>5, <1>6 DEF Next, Submission, SendFrame, PerformReset

LEMMA SurfaceInvHolds == Spec => []SurfaceInv
<1>1. Init => SurfaceInv
  BY DEF Init, SurfaceInv
<1>2. SurfaceInv /\ [Next]_vars => SurfaceInv'
  BY SurfaceStep
<1> QED
  BY <1>1, <1>2, PTL DEF Spec

\* A frame is drawn on a surface of its size or on none, whatever fails, and
\* whenever the client advertises its capabilities anew or leaves (performReset
\* and sendFrame on one thread, destroySurface on the other).
THEOREM SurfaceFitsCorrect == Spec => []SurfaceFitsFrame
<1>1. SurfaceInv => SurfaceFitsFrame
  BY DEF SurfaceInv, SurfaceFitsFrame
<1> QED
  BY <1>1, SurfaceInvHolds, PTL

-----------------------------------------------------------------------------
\* The surface ids are 16 bits wide, and 0 stands for no surface: a surface
\* that got the id 0 would not be destroyed. What follows is said of a stream
\* that has not used all ids up; NoIdIsReused says when that is so.
IdsLast == nextSurfaceId # 0

\* What a stream that is being closed has let go of already.
QuietInv ==
    /\ surface.id = 0 => surface = NoSurface
    /\ runStep \in {"closeDestroy", "closed"} => pendingFrames = {}
    /\ runStep = "closed" => surface = NoSurface

LEMMA DropLeavesNothing ==
    ASSUME QuietInv, DropSurface
    PROVE  surface' = NoSurface
  BY DEF DropSurface, QuietInv

LEMMA QuietStep ==
    ASSUME IdsLast, CloseInv, QuietInv, [Next]_vars
    PROVE  QuietInv'
<1>1. CASE Main \/ UNCHANGED vars
  <2>1. UNCHANGED <<surface, pendingFrames>> /\ (UNCHANGED runStep \/ runStep' = "confirm")
    BY <1>1 DEF Main, UpdateBackpressure, QueueFrame, DeliverPosted, CountQueue, DecidePause,
        SetActiveEncodingMode, UpdateInFlightWindow, vars
  <2> QED
    BY <2>1 DEF QuietInv
<1>2. CASE Submission
  <2>1. sendStep # "done" /\ UNCHANGED runStep
    BY <1>2 DEF Submission, SendFrame, PerformReset, CheckCapacity, TakeFrame, DropFrame,
        PassGuards, TestPendingReset, ClearPendingReset, TestSize, ResetDestroy, ResetDrop,
        ResetCreate, UndoCreate, UndoDrop, AfterReset, InsertPending, Submit, RemovePending,
        PostBackpressure
  <2>2. runStep' \notin {"closeDestroy", "closed"}
    BY <2>1 DEF CloseInv
  <2>3. \/ surface' = surface \/ DropSurface
        \/ surface' = [id |-> nextSurfaceId, size |-> frame.size]
    BY <1>2 DEF Submission, SendFrame, PerformReset, CheckCapacity, TakeFrame, DropFrame,
        PassGuards, TestPendingReset, ClearPendingReset, TestSize, ResetDestroy, ResetDrop,
        ResetCreate, UndoCreate, UndoDrop, AfterReset, InsertPending, Submit, RemovePending,
        PostBackpressure
  <2>4. surface'.id = 0 => surface' = NoSurface
    BY <2>3, DropLeavesNothing DEF QuietInv, IdsLast
  <2> QED
    BY <2>2, <2>4 DEF QuietInv
<1>3. CASE AdvertiseDrop \/ CloseDestroy
  <2>1. surface' = NoSurface
    BY <1>3, DropLeavesNothing DEF AdvertiseDrop, CloseDestroy
  <2>2. \/ pendingFrames' = {}
        \/ runStep' \notin {"closeDestroy", "closed"}
    BY <1>3 DEF AdvertiseDrop, CloseDestroy, EmptyWindow
  <2> QED
    BY <2>1, <2>2 DEF QuietInv
<1>7. CASE AdvertiseDestroy
  BY <1>7 DEF AdvertiseDestroy, EmptyWindow, QuietInv
<1>4. ASSUME NEW m, CapsAdvertise(m)
      PROVE  QuietInv'
  BY <1>4 DEF CapsAdvertise, QuietInv
<1>5. ASSUME NEW id, Acknowledge(id)
      PROVE  QuietInv'
  BY <1>5 DEF Acknowledge, QuietInv
<1>6. CASE CapsConfirm \/ SuspendAcks \/ ResumeAcks \/ SuppressOutput
           \/ CloseRequestStop \/ CloseJoin \/ CloseClear
  BY <1>6 DEF CapsConfirm, SuspendAcks, ResumeAcks, SuppressOutput, CloseRequestStop,
      CloseJoin, CloseClear, QuietInv
<1> QED
  BY <1>1, <1>2, <1>3, <1>4, <1>5, <1>6, <1>7 DEF Next, Run, Negotiation, Closing

LEMMA CloseInvHolds == Spec => []CloseInv
<1>1. Init => CloseInv
  BY DEF Init, CloseInv
<1>2. CloseInv /\ [Next]_vars => CloseInv'
  BY CloseStep
<1> QED
  BY <1>1, <1>2, PTL DEF Spec

\* As long as the surface ids last: once the stream is closed the thread is gone,
\* nothing is in flight and the client has no surface, whatever the two threads
\* were doing when the close began (close, destroySurface).
THEOREM ClosedCorrect == Spec /\ []IdsLast => []ClosedIsQuiet
<1>1. Init => QuietInv
  BY DEF Init, QuietInv
<1>2. IdsLast /\ CloseInv /\ QuietInv /\ [Next]_vars => QuietInv'
  BY QuietStep
<1>3. CloseInv /\ QuietInv => ClosedIsQuiet
  BY DEF CloseInv, QuietInv, ClosedIsQuiet
<1> QED
  BY <1>1, <1>2, <1>3, CloseInvHolds, PTL DEF Spec

\* The most surfaces that the frame in hand can still ask for: one for the
\* pending reset and one for its size.
ResetsLeft ==
    CASE sendStep \in {"guard", "reset", "clear"} -> 2
      [] sendStep \in {"destroy", "drop", "create"} -> IF firstReset THEN 2 ELSE 1
      [] sendStep \in {"undo", "undrop"} -> IF firstReset THEN 1 ELSE 0
      [] sendStep = "size" -> 1
      [] OTHER -> 0

IdsInv ==
    /\ produced <= MaxFrames
    /\ nextSurfaceId >= 1
    /\ nextSurfaceId + ResetsLeft + 2 * Len(queue) <= 2 * produced + 1

\* A step that neither takes a frame nor asks for a surface keeps the count.
LEMMA IdsKept ==
    ASSUME TypeOK, TypeOK', IdsInv, UNCHANGED <<produced, nextSurfaceId>>,
           Len(queue') <= Len(queue), ResetsLeft' <= ResetsLeft,
           ResetsLeft \in Nat, ResetsLeft' \in Nat
    PROVE  IdsInv'
<1>1. Len(queue) \in Nat /\ Len(queue') \in Nat /\ produced \in Nat /\ nextSurfaceId \in Nat
  BY DEF TypeOK
<1> HIDE DEF ResetsLeft
<1> QED
  BY <1>1 DEF IdsInv

LEMMA EnqueueLength ==
    ASSUME NEW q \in Seq(Frame), NEW f \in Frame
    PROVE  Len(Enqueue(q, f)) \in Nat /\ Len(Enqueue(q, f)) <= Len(q) + 1
<1>1. Len(Append(q, f)) = Len(q) + 1 /\ Len(q) \in Nat
  OBVIOUS
<1>2. \A g : Len(<<g>>) = 1
  OBVIOUS
<1> QED
  BY <1>1, <1>2 DEF Enqueue

\* The next id, as long as it is within 16 bits.
LEMMA NextId ==
    ASSUME NEW n \in Nat, NEW w \in Nat, n + 1 < w
    PROVE  (n + 1) % w = n + 1
  OBVIOUS

LEMMA IdsStep ==
    ASSUME 2 * MaxFrames + 1 < SurfaceIds, TypeOK, TypeOK', IdsInv, [Next]_vars
    PROVE  IdsInv'
<1>0. /\ Len(queue) \in Nat /\ Len(queue') \in Nat /\ produced \in Nat /\ nextSurfaceId \in Nat
      /\ MaxFrames \in Nat /\ SurfaceIds \in Nat
  BY BoundAssumption DEF TypeOK
<1>7. ResetsLeft \in 0..2 /\ ResetsLeft' \in 0..2
  BY DEF ResetsLeft
<1>1. ASSUME mode # NoMode, NEW f \in SourceFrames, QueueFrame(f)
      PROVE  IdsInv'
  <2>1. produced < MaxFrames /\ produced' = produced + 1 /\ UNCHANGED <<nextSurfaceId, sendStep, firstReset>>
    BY <1>1 DEF QueueFrame
  <2>2. ResetsLeft' = ResetsLeft
    BY <2>1 DEF ResetsLeft
  <2>3. f \in Frame /\ queue \in Seq(Frame)
    BY <1>1, SourceType DEF TypeOK
  <2>4. Len(queue') <= Len(queue) + 1
    BY <1>0, <1>7, <1>1, <2>3, EnqueueLength DEF QueueFrame
  <2> QED
    BY <1>0, <1>7, <2>1, <2>2, <2>4 DEF IdsInv
<1>2. CASE UpdateBackpressure \/ UpdateInFlightWindow \/ UNCHANGED vars
  <2>1. UNCHANGED <<queue, produced, nextSurfaceId, sendStep, firstReset>>
    BY <1>2 DEF UpdateBackpressure, DeliverPosted, CountQueue, DecidePause, UpdateInFlightWindow, vars
  <2> QED
    BY <1>0, <1>7, <2>1, IdsKept DEF ResetsLeft
<1>3. CASE SetActiveEncodingMode \/ Run
  <2>1. UNCHANGED <<produced, nextSurfaceId, sendStep, firstReset>>
    BY <1>3 DEF SetActiveEncodingMode, Run, Negotiation, Closing, CapsAdvertise,
        AdvertiseDestroy, AdvertiseDrop, CapsConfirm, Acknowledge, SuspendAcks, ResumeAcks,
        SuppressOutput, CloseRequestStop, CloseJoin, CloseClear, CloseDestroy
  <2>2. queue' = queue \/ queue' = <<>>
    BY <1>3 DEF SetActiveEncodingMode, Run, Negotiation, Closing, CapsAdvertise,
        AdvertiseDestroy, AdvertiseDrop, CapsConfirm, Acknowledge, SuspendAcks, ResumeAcks,
        SuppressOutput, CloseRequestStop, CloseJoin, CloseClear, CloseDestroy
  <2>3. ResetsLeft' = ResetsLeft
    BY <2>1 DEF ResetsLeft
  <2> QED
    BY <1>0, <1>7, <2>1, <2>2, <2>3, IdsKept
<1>4. CASE TakeFrame
  <2>1. CASE queue = <<>>
    <3>1. UNCHANGED <<queue, produced, nextSurfaceId>> /\ ResetsLeft' = 0
      BY <1>4, <2>1 DEF TakeFrame, ResetsLeft
    <3> QED
      BY <1>0, <1>7, <3>1, IdsKept
  <2>2. CASE queue # <<>>
    <3>1. /\ produced' = produced /\ nextSurfaceId' = nextSurfaceId
          /\ ResetsLeft = 0 /\ ResetsLeft' = 2
      BY <1>4, <2>2 DEF TakeFrame, ResetsLeft
    <3>2. Len(queue') = Len(queue) - 1
      BY <1>4, <2>2 DEF TypeOK, TakeFrame
    <3> QED
      BY <1>0, <1>7, <3>1, <3>2 DEF IdsInv
  <2> QED
    BY <2>1, <2>2
<1>5. CASE ResetCreate
  <2>1. /\ UNCHANGED <<produced, queue>>
        /\ nextSurfaceId' = nextSurfaceId \/ nextSurfaceId' = (nextSurfaceId + 1) % SurfaceIds
    BY <1>5 DEF ResetCreate
  <2>2. ResetsLeft' = ResetsLeft - 1 /\ ResetsLeft >= 1
    BY <1>5 DEF ResetCreate, AfterReset, ResetsLeft
  <2>3. nextSurfaceId + 1 < SurfaceIds
    BY <1>0, <1>7, <2>2 DEF IdsInv
  <2>4. nextSurfaceId' = nextSurfaceId \/ nextSurfaceId' = nextSurfaceId + 1
    BY <1>0, <1>7, <2>1, <2>3, NextId
  <2> QED
    BY <1>0, <1>7, <2>1, <2>2, <2>4 DEF IdsInv
<1>6. CASE CheckCapacity \/ DropFrame \/ PassGuards \/ TestPendingReset \/ ClearPendingReset \/ TestSize
           \/ ResetDestroy \/ ResetDrop \/ UndoCreate \/ UndoDrop
           \/ InsertPending \/ Submit \/ RemovePending \/ PostBackpressure
  <2>1. UNCHANGED <<queue, produced, nextSurfaceId>>
    BY <1>6 DEF CheckCapacity, DropFrame, PassGuards, TestPendingReset, ClearPendingReset,
        TestSize, ResetDestroy, ResetDrop, UndoCreate, UndoDrop, InsertPending, Submit,
        RemovePending, PostBackpressure
  <2>2. ResetsLeft' <= ResetsLeft
    BY <1>6 DEF CheckCapacity, DropFrame, PassGuards, TestPendingReset, ClearPendingReset, TestSize,
        ResetDestroy, ResetDrop, UndoCreate, UndoDrop, AfterReset, InsertPending, Submit, RemovePending,
        PostBackpressure, ResetsLeft
  <2> QED
    BY <1>0, <1>7, <2>1, <2>2, IdsKept
<1> QED
  BY <1>1, <1>2, <1>3, <1>4, <1>5, <1>6 DEF Next, Main, Submission, SendFrame, PerformReset

\* A frame asks for two surfaces at most, so no id is used twice, and none is 0,
\* before half as many frames as there are ids have been sent (nextSurfaceId).
THEOREM NoIdIsReused ==
    ASSUME 2 * MaxFrames + 1 < SurfaceIds
    PROVE  Spec => []IdsLast
<1>1. Init => IdsInv
  BY BoundAssumption DEF Init, IdsInv, ResetsLeft
<1>2. TypeOK /\ TypeOK' /\ IdsInv /\ [Next]_vars => IdsInv'
  BY IdsStep
<1>3. IdsInv => IdsLast
  BY DEF IdsInv, IdsLast
<1> QED
  BY <1>1, <1>2, <1>3, TypeCorrect, PTL DEF Spec

-----------------------------------------------------------------------------
(***************************************************************************)
(* A stream on which no frame is refused or lost: the transport takes every*)
(* frame, no PDU fails, output is not suppressed and the client advertises *)
(* its capabilities once. Every frame that is taken is then drawn.         *)
(***************************************************************************)
Lossless == ~CanBlock /\ ~CanFail /\ ~CanSuppress /\ MaxAdverts <= 1

\* The thread has taken a frame that it has not submitted yet.
Holding == sendStep \in {"guard", "reset", "clear", "size", "destroy", "drop", "create", "undo", "undrop",
                        "insert", "submit"}

\* The mode is chosen once, before anything is produced.
OnceInv ==
    /\ accepting
    /\ adverts = 0 => mode = NoMode
    /\ runStep = "negotiate" => mode = NoMode
    /\ runStep \notin {"destroy", "drop"}
    /\ mode = NoMode /\ sendStep # "done" =>
          /\ queue = <<>> /\ produced = 0 /\ reference = 0
          /\ sourceSize = NoSize /\ surface = NoSurface

\* The frame in hand finds its surface, and is submitted.
DrawnInv ==
    /\ surface.id = 0 => surface = NoSurface
    /\ sendStep \in {"insert", "submit"} => surface.id # 0 /\ surface.size = frame.size
    /\ sendStep = "create" => surface = NoSurface
    /\ sendStep \notin {"remove", "undo", "undrop"}

\* All that waits is of the active mode.
OfMode ==
    sendStep # "done" =>
        /\ Holding => frame \in Frame /\ frame.codec = mode
        /\ \A i \in 1..Len(queue) : queue[i].codec = mode

PassInv == CloseInv /\ NegotiationInv /\ OnceInv /\ DrawnInv /\ OfMode

LEMMA OnceStep ==
    ASSUME Lossless, TypeOK, CloseInv, NegotiationInv, OnceInv, [Next]_vars
    PROVE  OnceInv'
<1>1. ASSUME mode # NoMode, NEW f \in SourceFrames, QueueFrame(f)
      PROVE  OnceInv'
  BY <1>1 DEF QueueFrame, OnceInv
<1>2. CASE UpdateBackpressure \/ UpdateInFlightWindow \/ UNCHANGED vars
  BY <1>2 DEF UpdateBackpressure, DeliverPosted, CountQueue, DecidePause, UpdateInFlightWindow,
      vars, OnceInv
<1>3. CASE SetActiveEncodingMode
  <2>1. negotiated # NoMode /\ mode = NoMode /\ adverts >= 1 /\ runStep' = "confirm"
    BY <1>3 DEF SetActiveEncodingMode, NegotiationInv, OnceInv
  <2>2. mode' # NoMode /\ UNCHANGED <<adverts, accepting>>
    BY <1>3, <2>1 DEF SetActiveEncodingMode
  <2> QED
    BY <2>1, <2>2 DEF OnceInv
<1>4. CASE Submission
  <2>1. mode = NoMode => sendStep \in {"check", "done"}
    BY DEF NegotiationInv
  <2>2. mode = NoMode => UNCHANGED <<queue, produced, reference, sourceSize, surface>>
    BY <1>4, <2>1 DEF Submission, SendFrame, PerformReset, CheckCapacity, TakeFrame, DropFrame,
        PassGuards, TestPendingReset, ClearPendingReset, TestSize, ResetDestroy, ResetDrop,
        ResetCreate, UndoCreate, UndoDrop, AfterReset, InsertPending, Submit, RemovePending,
        PostBackpressure
  <2>3. UNCHANGED <<accepting, adverts, mode, runStep>> /\ sendStep # "done"
    BY <1>4 DEF Submission, SendFrame, PerformReset, CheckCapacity, TakeFrame, DropFrame,
        PassGuards, TestPendingReset, ClearPendingReset, TestSize, ResetDestroy, ResetDrop,
        ResetCreate, UndoCreate, UndoDrop, AfterReset, InsertPending, Submit, RemovePending,
        PostBackpressure
  <2> QED
    BY <2>2, <2>3 DEF OnceInv
<1>5. ASSUME NEW m, CapsAdvertise(m)
      PROVE  OnceInv'
  <2>1. adverts = 0 /\ adverts' = 1
    BY <1>5, BoundAssumption DEF CapsAdvertise, Lossless, TypeOK
  <2>2. ~capsConfirmed /\ mode = NoMode
    BY <2>1 DEF NegotiationInv, OnceInv
  <2> QED
    BY <1>5, <2>1, <2>2 DEF CapsAdvertise, OnceInv
<1>6. CASE CloseDestroy \/ CloseClear
  BY <1>6 DEF CloseDestroy, CloseClear, CloseInv, OnceInv
<1>7. ASSUME NEW id, Acknowledge(id)
      PROVE  OnceInv'
  BY <1>7 DEF Acknowledge, OnceInv
<1>8. CASE AdvertiseDestroy \/ AdvertiseDrop \/ CapsConfirm \/ SuspendAcks \/ ResumeAcks \/ SuppressOutput
           \/ CloseRequestStop \/ CloseJoin
  BY <1>8 DEF AdvertiseDestroy, AdvertiseDrop, CapsConfirm, SuspendAcks, ResumeAcks, SuppressOutput,
      CloseRequestStop, CloseJoin, OnceInv, Lossless
<1> QED
  BY <1>1, <1>2, <1>3, <1>4, <1>5, <1>6, <1>7, <1>8
  DEF Next, Main, Run, Negotiation, Closing

\* Only the submission thread moves on, and nobody else touches its surface
\* before it has ended.
LEMMA OthersDoNotDraw ==
    ASSUME CloseInv, OnceInv, Main \/ Run \/ UNCHANGED vars
    PROVE  /\ UNCHANGED <<sendStep, frame, reference, firstReset>>
           /\ UNCHANGED surface \/ sendStep = "done"
<1>1. CASE Main \/ UNCHANGED vars
  BY <1>1 DEF Main, UpdateBackpressure, QueueFrame, DeliverPosted, CountQueue, DecidePause,
      SetActiveEncodingMode, UpdateInFlightWindow, vars
<1>2. CASE Run
  BY <1>2 DEF Run, Negotiation, Closing, CapsAdvertise, AdvertiseDestroy, AdvertiseDrop,
      CapsConfirm, Acknowledge, SuspendAcks, ResumeAcks, SuppressOutput, CloseRequestStop,
      CloseJoin, CloseClear, CloseDestroy, CloseInv, OnceInv
<1> QED
  BY <1>1, <1>2

LEMMA DrawnStep ==
    ASSUME Lossless, IdsLast, TypeOK, PassInv, [Next]_vars
    PROVE  DrawnInv'
<1> USE DEF PassInv
<1>1. CASE Main \/ Run \/ UNCHANGED vars
  <2>1. CASE UNCHANGED surface
    BY <1>1, <2>1, OthersDoNotDraw DEF DrawnInv
  <2>2. CASE ~UNCHANGED surface
    <3>1. sendStep = "done" /\ sendStep' = "done"
      BY <1>1, <2>2, OthersDoNotDraw
    <3>2. surface' = NoSurface
      BY <1>1, <2>2 DEF Main, UpdateBackpressure, QueueFrame, DeliverPosted, CountQueue,
          DecidePause, SetActiveEncodingMode, UpdateInFlightWindow, vars, Run, Negotiation,
          Closing, CapsAdvertise, AdvertiseDestroy, AdvertiseDrop, CapsConfirm, Acknowledge,
          SuspendAcks, ResumeAcks, SuppressOutput, CloseRequestStop, CloseJoin, CloseClear,
          CloseDestroy, EmptyWindow, DropSurface
    <3> QED
      BY <3>1, <3>2 DEF DrawnInv
  <2> QED
    BY <2>1, <2>2
<1>2. CASE TestSize
  <2>1. frame \in Frame
    BY <1>2 DEF TestSize, OfMode, Holding
  <2>2. frame.size # NoSize
    BY <2>1, SizesAssumption DEF Frame
  <2> QED
    BY <1>2, <2>2 DEF TestSize, SizeDiffers, DrawnInv, NoSurface
<1>3. CASE ResetDrop
  <2>1. surface' = NoSurface /\ sendStep' = "create"
    BY <1>3 DEF ResetDrop, DropSurface, DrawnInv
  <2> QED
    BY <2>1 DEF DrawnInv
<1>4. CASE ResetCreate
  <2>1. surface' = [id |-> nextSurfaceId, size |-> frame.size] /\ frame' = frame
        /\ sendStep' \in {"size", "insert"}
    BY <1>4 DEF ResetCreate, AfterReset, Lossless
  <2>2. surface'.id # 0 /\ surface'.size = frame.size
    BY <2>1 DEF IdsLast
  <2> QED
    BY <2>1, <2>2 DEF DrawnInv
<1>5. CASE Submit
  <2>1. surface.id # 0 /\ frame.codec = mode
    BY <1>5 DEF Submit, DrawnInv, OfMode, Holding
  <2> QED
    BY <1>5, <2>1 DEF Submit, DrawnInv, Lossless
<1>6. CASE CheckCapacity \/ TakeFrame \/ DropFrame \/ PassGuards \/ TestPendingReset \/ ClearPendingReset
           \/ ResetDestroy \/ UndoCreate \/ UndoDrop
           \/ InsertPending \/ RemovePending \/ PostBackpressure
  BY <1>6 DEF CheckCapacity, TakeFrame, DropFrame, PassGuards, TestPendingReset, ClearPendingReset,
      ResetDestroy, UndoCreate, UndoDrop, InsertPending, RemovePending, PostBackpressure, DrawnInv
<1> QED
  BY <1>1, <1>2, <1>3, <1>4, <1>5, <1>6 DEF Next, Submission, SendFrame, PerformReset

\* What queueFrame leaves in the queue: the frames before, or the new one alone,
\* with its codec, its number and its size, and with no less damage.
LEMMA Enqueued ==
    ASSUME NEW q \in Seq(Frame), NEW f \in Frame
    PROVE  /\ Enqueue(q, f) # <<>>
           /\ f.codec = "H264" => Enqueue(q, f) = IF f.key THEN <<f>> ELSE Append(q, f)
           /\ f.codec # "H264" =>
                \E g \in Frame :
                    /\ Enqueue(q, f) = <<g>>
                    /\ g.codec = f.codec /\ g.seq = f.seq /\ g.size = f.size
                    /\ f.damage \subseteq g.damage
                    /\ q # <<>> => Last(q).damage \subseteq g.damage
<1>1. CASE f.codec = "H264"
  BY <1>1 DEF Enqueue
<1>2. CASE f.codec # "H264"
  <2> DEFINE g == IF q = <<>> THEN f ELSE [f EXCEPT !.damage = @ \union Last(q).damage]
  <2>1. Enqueue(q, f) = <<g>>
    BY <1>2 DEF Enqueue
  <2>2. g \in Frame
    BY LastType, DamageType
  <2>3. /\ g.codec = f.codec /\ g.seq = f.seq /\ g.size = f.size
        /\ f.damage \subseteq g.damage
        /\ q # <<>> => Last(q).damage \subseteq g.damage
    BY DEF Frame
  <2> HIDE DEF g
  <2> QED
    BY <1>2, <2>1, <2>2, <2>3
<1> QED
  BY <1>1, <1>2

LEMMA OfModeStep ==
    ASSUME Lossless, TypeOK, TypeOK', PassInv, [Next]_vars
    PROVE  OfMode'
<1> USE DEF PassInv
<1>1. ASSUME mode # NoMode, NEW f \in SourceFrames, QueueFrame(f)
      PROVE  OfMode'
  <2>1. f \in Frame /\ f.codec = mode /\ queue \in Seq(Frame)
    BY <1>1, SourceType DEF SourceFrames, TypeOK
  <2>2. queue' = Enqueue(queue, f) /\ UNCHANGED <<mode, sendStep, frame>>
    BY <1>1 DEF QueueFrame, OnceInv
  <2>3. ASSUME sendStep # "done"
        PROVE  \A i \in 1..Len(queue') : queue'[i].codec = mode
    <3>1. \A i \in 1..Len(queue) : queue[i].codec = mode
      BY <2>3 DEF OfMode
    <3>2. CASE queue' = Append(queue, f)
      BY <2>1, <3>1, <3>2
    <3>3. ASSUME NEW g \in Frame, queue' = <<g>>, g.codec = mode
          PROVE  \A i \in 1..Len(queue') : queue'[i].codec = mode
      BY <3>3
    <3> QED
      BY <2>1, <2>2, <3>2, <3>3, Enqueued
  <2> QED
    BY <2>2, <2>3 DEF OfMode, Holding
<1>2. CASE UpdateBackpressure \/ UpdateInFlightWindow \/ UNCHANGED vars
  BY <1>2 DEF UpdateBackpressure, DeliverPosted, CountQueue, DecidePause, UpdateInFlightWindow,
      vars, OfMode, Holding
<1>3. CASE SetActiveEncodingMode
  <2>1. mode = NoMode /\ UNCHANGED <<sendStep, frame>>
    BY <1>3 DEF SetActiveEncodingMode, OnceInv
  <2>2. ~Holding
    BY <2>1 DEF NegotiationInv, Holding
  <2>3. sendStep # "done" => queue = <<>> /\ queue' = <<>>
    BY <1>3, <2>1 DEF OnceInv, SetActiveEncodingMode
  <2> QED
    BY <2>1, <2>2, <2>3 DEF OfMode, Holding
<1>4. CASE TakeFrame
  <2>1. CASE queue = <<>>
    BY <1>4, <2>1 DEF TakeFrame, OfMode, Holding
  <2>2. CASE queue # <<>>
    <3>1. /\ queue' = Tail(queue) /\ frame' = queue[1] /\ mode' = mode /\ sendStep = "take"
          /\ queue \in Seq(Frame) /\ frame' \in Frame
      BY <1>4, <2>2 DEF TakeFrame, TypeOK
    <3>2. \A i \in 1..Len(queue) : queue[i].codec = mode
      BY <3>1 DEF OfMode
    <3>3. \A i \in 1..Len(queue') : queue'[i] = queue[i + 1] /\ i + 1 \in 1..Len(queue)
      BY <2>2, <3>1
    <3>4. 1 \in 1..Len(queue)
      BY <2>2, <3>1
    <3> QED
      BY <3>1, <3>2, <3>3, <3>4 DEF OfMode
  <2> QED
    BY <2>1, <2>2
<1>5. CASE CheckCapacity \/ DropFrame \/ PassGuards \/ TestPendingReset \/ ClearPendingReset \/ TestSize
           \/ PerformReset \/ InsertPending \/ Submit \/ RemovePending
           \/ PostBackpressure
  BY <1>5 DEF CheckCapacity, DropFrame, PassGuards, TestPendingReset, ClearPendingReset,
      TestSize, PerformReset, ResetDestroy, ResetDrop, ResetCreate, UndoCreate, UndoDrop,
      AfterReset, InsertPending, Submit, RemovePending, PostBackpressure, OfMode, Holding
<1>6. CASE Run
  <2>1. CASE CloseClear \/ CloseDestroy
    BY <2>1 DEF CloseClear, CloseDestroy, CloseInv, OfMode
  <2>2. CASE ~(CloseClear \/ CloseDestroy)
    BY <1>6, <2>2 DEF Run, Negotiation, Closing, CapsAdvertise, AdvertiseDestroy,
        AdvertiseDrop, CapsConfirm, Acknowledge, SuspendAcks, ResumeAcks, SuppressOutput,
        CloseRequestStop, CloseJoin, OfMode, Holding
  <2> QED
    BY <2>1, <2>2
<1> QED
  BY <1>1, <1>2, <1>3, <1>4, <1>5, <1>6 DEF Next, Main, Submission, SendFrame, PerformReset

LEMMA PassStep ==
    ASSUME Lossless, IdsLast, TypeOK, TypeOK', PassInv, [Next]_vars
    PROVE  PassInv'
  BY CloseStep, NegotiationStep, OnceStep, DrawnStep, OfModeStep DEF PassInv, Lossless

LEMMA PassInvHolds ==
    ASSUME Lossless
    PROVE  Spec /\ []IdsLast => []PassInv
<1>1. Init => PassInv
  BY DEF Init, PassInv, CloseInv, NegotiationInv, OnceInv, DrawnInv, OfMode, Holding
<1>2. IdsLast /\ TypeOK /\ TypeOK' /\ PassInv /\ [Next]_vars => PassInv'
  BY PassStep
<1> QED
  BY <1>1, <1>2, TypeCorrect, PTL DEF Spec

\* The encoder's frames that are not drawn yet follow one another: the numbers
\* in the queue run up to the newest one, the first delta in it follows the one
\* that is drawn before it, and so does the frame in hand.
Previous == IF Holding THEN frame.seq ELSE reference

ChainInv ==
    sendStep # "done" /\ mode = "H264" =>
        /\ \A i \in 1..Len(queue) : queue[i].seq = produced - (Len(queue) - i)
        /\ Previous = produced - Len(queue) \/ (queue # <<>> /\ queue[1].key)
        /\ Holding /\ ~frame.key => reference = frame.seq - 1

LEMMA ChainQueueFrame ==
    ASSUME TypeOK, PassInv, ChainInv, mode = "H264", sendStep # "done",
           NEW f \in SourceFrames, QueueFrame(f)
    PROVE  ChainInv'
<1>1. /\ f \in Frame /\ f.codec = "H264" /\ f.seq = produced + 1
      /\ queue \in Seq(Frame) /\ Len(queue) \in Nat /\ produced \in Nat
  BY SourceType DEF SourceFrames, TypeOK, NoMode
<1>2. queue' = IF f.key THEN <<f>> ELSE Append(queue, f)
  BY <1>1, Enqueued DEF QueueFrame, PassInv, OnceInv
<1>3. produced' = produced + 1 /\ UNCHANGED <<sendStep, frame, reference, mode>>
  BY DEF QueueFrame
<1>4. Previous' = Previous /\ Holding' = Holding
  BY <1>3 DEF Previous, Holding
<1>5. CASE f.key
  <2>1. queue' = <<f>> /\ queue' # <<>> /\ queue'[1] = f /\ Len(queue') = 1
    BY <1>2, <1>5
  <2>2. \A i \in 1..Len(queue') : queue'[i].seq = produced' - (Len(queue') - i)
    BY <1>1, <1>3, <2>1
  <2> QED
    BY <1>3, <1>4, <1>5, <2>1, <2>2 DEF ChainInv
<1>6. CASE ~f.key
  <2>1. /\ queue' # <<>> /\ Len(queue') = Len(queue) + 1 /\ queue'[Len(queue) + 1] = f
        /\ \A i \in 1..Len(queue) : queue'[i] = queue[i]
    BY <1>1, <1>2, <1>6
  <2>2. ASSUME NEW i \in 1..Len(queue')
        PROVE  queue'[i].seq = produced' - (Len(queue') - i)
    <3>1. CASE i \in 1..Len(queue)
      <4>1. queue'[i].seq = produced - (Len(queue) - i)
        BY <2>1, <3>1 DEF ChainInv
      <4> QED
        BY <1>1, <1>3, <2>1, <3>1, <4>1
    <3>2. CASE i = Len(queue) + 1
      <4>1. queue'[i].seq = produced + 1
        BY <1>1, <2>1, <3>2
      <4> QED
        BY <1>1, <1>3, <2>1, <3>2, <4>1
    <3> QED
      BY <1>1, <2>1, <3>1, <3>2
  <2>3. produced' - Len(queue') = produced - Len(queue)
    BY <1>1, <1>3, <2>1
  <2>4. queue # <<>> => 1 \in 1..Len(queue)
    BY <1>1
  <2>5. queue # <<>> => queue'[1] = queue[1]
    BY <2>1, <2>4
  <2>6. Previous' = produced' - Len(queue') \/ (queue' # <<>> /\ queue'[1].key)
    BY <1>4, <2>1, <2>3, <2>5 DEF ChainInv
  <2> QED
    BY <1>3, <1>4, <2>2, <2>6 DEF ChainInv
<1> QED
  BY <1>5, <1>6

LEMMA ChainTakeFrame ==
    ASSUME TypeOK, ChainInv, mode = "H264", TakeFrame
    PROVE  ChainInv'
<1>0. queue \in Seq(Frame) /\ Len(queue) \in Nat /\ produced \in Nat
  BY DEF TypeOK
<1>1. CASE queue = <<>>
  BY <1>1 DEF TakeFrame, ChainInv, Previous, Holding
<1>2. CASE queue # <<>>
  <2>1. /\ queue' = Tail(queue) /\ frame' = queue[1] /\ ~Holding /\ Holding' /\ sendStep # "done"
        /\ UNCHANGED <<produced, reference, mode>>
    BY <1>2 DEF TakeFrame, Holding
  <2>2. /\ Len(queue') = Len(queue) - 1 /\ Len(queue) >= 1
        /\ \A i \in 1..Len(queue') : queue'[i] = queue[i + 1] /\ i + 1 \in 1..Len(queue)
    BY <1>0, <1>2, <2>1
  <2>3. \A i \in 1..Len(queue) : queue[i].seq = produced - (Len(queue) - i)
    BY <2>1 DEF ChainInv
  <2>4. frame'.seq = produced - (Len(queue) - 1)
    BY <1>0, <2>1, <2>2, <2>3
  <2>5. frame'.seq = produced - Len(queue')
    BY <1>0, <2>2, <2>4
  <2>6. ASSUME NEW i \in 1..Len(queue')
        PROVE  queue'[i].seq = produced' - (Len(queue') - i)
    <3>1. queue'[i].seq = produced - (Len(queue) - (i + 1))
      BY <2>2, <2>3
    <3> QED
      BY <1>0, <2>1, <2>2, <3>1
  <2>7. ASSUME ~frame'.key
        PROVE  reference = frame'.seq - 1
    <3>1. reference = produced - Len(queue)
      BY <1>2, <2>1, <2>7 DEF ChainInv, Previous
    <3> QED
      BY <1>0, <2>4, <3>1
  <2> QED
    BY <2>1, <2>5, <2>6, <2>7 DEF ChainInv, Previous
<1> QED
  BY <1>1, <1>2

LEMMA ChainStep ==
    ASSUME Lossless, TypeOK, PassInv, PassInv', ChainInv, [Next]_vars
    PROVE  ChainInv'
<1>1. ASSUME NEW f \in SourceFrames, QueueFrame(f)
      PROVE  ChainInv'
  BY <1>1, ChainQueueFrame DEF QueueFrame, ChainInv
<1>2. CASE UpdateBackpressure \/ UpdateInFlightWindow \/ UNCHANGED vars
  BY <1>2 DEF UpdateBackpressure, DeliverPosted, CountQueue, DecidePause, UpdateInFlightWindow,
      vars, ChainInv, Previous, Holding
<1>3. CASE SetActiveEncodingMode
  <2>1. mode = NoMode /\ UNCHANGED <<sendStep, reference, produced, frame>>
    BY <1>3 DEF SetActiveEncodingMode, PassInv, OnceInv
  <2>2. ~Holding /\ ~Holding'
    BY <2>1 DEF PassInv, NegotiationInv, Holding
  <2>3. sendStep # "done" => queue' = <<>> /\ produced' = 0 /\ reference' = 0
    BY <1>3, <2>1 DEF PassInv, OnceInv, SetActiveEncodingMode
  <2>4. sendStep # "done" => Len(queue') = 0 /\ Previous' = 0 /\ 0 = 0 - 0
    BY <2>2, <2>3 DEF Previous
  <2>5. sendStep # "done" => \A i \in 1..Len(queue') : FALSE
    BY <2>4
  <2> QED
    BY <2>1, <2>2, <2>3, <2>4, <2>5 DEF ChainInv
<1>4. CASE TakeFrame
  BY <1>4, ChainTakeFrame DEF TakeFrame, ChainInv
<1>5. CASE Submit
  <2>1. /\ UNCHANGED <<queue, produced, mode, frame>> /\ sendStep' \in {"post", "remove"}
        /\ sendStep' = "post" => reference' = frame.seq
        /\ sendStep = "submit"
    BY <1>5 DEF Submit, Lossless
  <2>2. sendStep' = "post"
    BY <2>1 DEF PassInv, DrawnInv
  <2> QED
    BY <2>1, <2>2 DEF ChainInv, Previous, Holding
<1>6. CASE DropFrame
  BY <1>6 DEF DropFrame, Lossless, PassInv, NegotiationInv
<1>7. CASE CheckCapacity \/ PassGuards \/ TestPendingReset \/ ClearPendingReset \/ TestSize
           \/ PerformReset \/ InsertPending \/ RemovePending
           \/ PostBackpressure
  BY <1>7 DEF CheckCapacity, PassGuards, TestPendingReset, ClearPendingReset, TestSize,
      PerformReset, ResetDestroy, ResetDrop, ResetCreate, UndoCreate, UndoDrop, AfterReset,
      InsertPending, RemovePending, PostBackpressure, ChainInv, Previous, Holding
<1>8. CASE Run
  <2>1. CASE CloseClear \/ CloseDestroy
    BY <2>1 DEF CloseClear, CloseDestroy, PassInv, CloseInv, ChainInv
  <2>2. CASE ~(CloseClear \/ CloseDestroy)
    <3>1. UNCHANGED <<queue, mode, produced, sendStep, frame, reference>>
      BY <1>8, <2>2 DEF Run, Negotiation, Closing, CapsAdvertise, AdvertiseDestroy,
          AdvertiseDrop, CapsConfirm, Acknowledge, SuspendAcks, ResumeAcks, SuppressOutput,
          CloseRequestStop, CloseJoin
    <3> QED
      BY <3>1 DEF ChainInv, Previous, Holding
  <2> QED
    BY <2>1, <2>2
<1> QED
  BY <1>1, <1>2, <1>3, <1>4, <1>5, <1>6, <1>7, <1>8
  DEF Next, Main, Submission, SendFrame, PerformReset

\* The client decodes the encoder's frames without a gap, as long as none is
\* refused or lost: however many wait, whatever size they have, and also while
\* the client suspends its acknowledgements or the stream is being closed
\* (queueFrame, sendFrame).
THEOREM DeltaCorrect ==
    ASSUME Lossless
    PROVE  Spec /\ []IdsLast => []DeltaFollowsReference
<1>1. Init => ChainInv
  BY DEF Init, ChainInv, NoMode
<1>2. TypeOK /\ PassInv /\ PassInv' /\ ChainInv /\ [Next]_vars => ChainInv'
  BY ChainStep
<1>3. PassInv /\ ChainInv => DeltaFollowsReference
  BY DEF PassInv, OfMode, ChainInv, DeltaFollowsReference, Holding
<1> QED
  BY <1>1, <1>2, <1>3, TypeCorrect, PassInvHolds, PTL DEF Spec

-----------------------------------------------------------------------------
\* Nobody closes the stream.
OpenInv ==
    /\ runStep \in {"idle", "destroy", "drop", "negotiate", "confirm"}
    /\ ~stopRequested /\ sendStep # "done"

LEMMA OpenStep ==
    ASSUME ~CanClose, OnceInv, OpenInv, [Next]_vars
    PROVE  OpenInv'
<1>1. CASE Main \/ UNCHANGED vars
  BY <1>1 DEF Main, UpdateBackpressure, QueueFrame, DeliverPosted, CountQueue, DecidePause,
      SetActiveEncodingMode, UpdateInFlightWindow, vars, OpenInv
<1>2. CASE Submission
  BY <1>2 DEF Submission, SendFrame, PerformReset, CheckCapacity, TakeFrame, DropFrame,
      PassGuards, TestPendingReset, ClearPendingReset, TestSize, ResetDestroy, ResetDrop,
      ResetCreate, UndoCreate, UndoDrop, AfterReset, InsertPending, Submit, RemovePending,
      PostBackpressure, OpenInv
<1>3. ASSUME NEW m \in Modes, CapsAdvertise(m)
      PROVE  OpenInv'
  <2>1. m # NoMode
    BY ModesAssumption DEF NoMode
  <2> QED
    BY <1>3, <2>1 DEF CapsAdvertise, OpenInv
<1>4. CASE Negotiation
  <2>1. CASE AdvertiseDestroy \/ AdvertiseDrop
    BY <2>1 DEF AdvertiseDestroy, AdvertiseDrop, OnceInv
  <2>2. CASE CapsConfirm
    <3>1. runStep' = "idle" /\ UNCHANGED <<stopRequested, sendStep>>
      BY <2>2 DEF CapsConfirm
    <3> QED
      BY <3>1 DEF OpenInv
  <2> QED
    BY <1>4, <2>1, <2>2 DEF Negotiation
<1>5. CASE SuspendAcks \/ ResumeAcks \/ SuppressOutput \/ \E id \in unacked : Acknowledge(id)
  BY <1>5 DEF Acknowledge, SuspendAcks, ResumeAcks, SuppressOutput, OpenInv
<1>6. CASE CloseRequestStop \/ Closing
  BY <1>6 DEF Closing, CloseRequestStop, CloseJoin, CloseClear, CloseDestroy, OpenInv
<1> QED
  BY <1>1, <1>2, <1>3, <1>4, <1>5, <1>6 DEF Next, Run

\* The one raster frame that waits, and the one in hand.
NextFrame == queue[1]
PreviousSize == IF Holding THEN frame.size ELSE surface.size

\* At most one frame waits; it is the newest one.
OneWaits ==
    /\ Len(queue) <= 1
    /\ queue # <<>> => NextFrame.seq = produced /\ produced >= 1 /\ NextFrame.size = sourceSize
    /\ Holding => frame.seq \in 1..produced

\* A frame of another size than the one drawn before it is damaged all over.
WholeOnResize ==
    /\ queue = <<>> => PreviousSize = sourceSize
    /\ queue # <<>> => sourceSize = PreviousSize \/ NextFrame.damage = Regions
    /\ Holding => frame.size = surface.size \/ frame.damage = Regions
    /\ sendStep \in {"clear", "destroy", "drop"} => surface.size # frame.size
    /\ pendingReset => surface = NoSurface
                       /\ sendStep \notin {"size", "destroy", "drop", "create", "insert", "submit"}

CoversIn(f, r) == r \in f.damage /\ f.seq >= stale[r]

StaleCovered ==
    \A r \in Regions :
        /\ stale[r] <= produced
        /\ stale[r] > 0 => (Holding /\ CoversIn(frame, r)) \/ (queue # <<>> /\ CoversIn(NextFrame, r))

DamageInv ==
    /\ mode = NoMode => \A r \in Regions : stale[r] = 0
    /\ mode = "Progressive" => OneWaits /\ WholeOnResize /\ StaleCovered

LEMMA DamageQueueFrame ==
    ASSUME TypeOK, PassInv, OpenInv, DamageInv, mode = "Progressive",
           NEW f \in SourceFrames, QueueFrame(f)
    PROVE  DamageInv'
<1> USE DEF NextFrame
<1>1. /\ f \in Frame /\ f.codec = "Progressive" /\ f.seq = produced + 1
      /\ f.size # sourceSize => f.damage = Regions
      /\ queue \in Seq(Frame) /\ Len(queue) \in Nat /\ produced \in Nat
      /\ stale \in [Regions -> Nat]
  BY SourceType DEF SourceFrames, TypeOK, NoMode
<1>2. PICK g \in Frame :
         /\ queue' = <<g>> /\ g.seq = f.seq /\ g.size = f.size /\ f.damage \subseteq g.damage
         /\ queue # <<>> => Last(queue).damage \subseteq g.damage
  BY <1>1, Enqueued DEF QueueFrame, PassInv, OnceInv
<1>3. g.damage \subseteq Regions /\ f.damage \subseteq Regions
  BY <1>1, <1>2 DEF Frame
<1>4. /\ produced' = produced + 1 /\ sourceSize' = f.size
      /\ stale' = [r \in Regions |-> IF r \in f.damage THEN f.seq ELSE stale[r]]
      /\ UNCHANGED <<sendStep, frame, surface, pendingReset, mode>>
  BY DEF QueueFrame
<1>5. queue' # <<>> /\ queue'[1] = g /\ Len(queue') = 1
  BY <1>2
<1>6. queue # <<>> => Last(queue) = queue[1]
  <2>1. Len(queue) <= 1
    BY DEF DamageInv, OneWaits
  <2> QED
    BY <1>1, <2>1 DEF Last
<1>7. PreviousSize' = PreviousSize /\ Holding' = Holding
  BY <1>4 DEF PreviousSize, Holding
<1>8. OneWaits'
  BY <1>1, <1>2, <1>4, <1>5, <1>7 DEF DamageInv, OneWaits
<1>9. WholeOnResize'
  <2>1. sourceSize' = PreviousSize' \/ g.damage = Regions
    <3>1. CASE f.size # sourceSize
      BY <1>1, <1>2, <1>3, <3>1
    <3>2. CASE f.size = sourceSize /\ queue = <<>>
      BY <1>4, <1>7, <3>2 DEF DamageInv, WholeOnResize
    <3>3. CASE f.size = sourceSize /\ queue # <<>>
      <4>1. sourceSize = PreviousSize \/ queue[1].damage = Regions
        BY <3>3 DEF DamageInv, WholeOnResize
      <4> QED
        BY <1>2, <1>3, <1>4, <1>6, <1>7, <3>3, <4>1
    <3> QED
      BY <3>1, <3>2, <3>3
  <2> QED
    BY <1>4, <1>5, <1>7, <2>1 DEF DamageInv, WholeOnResize
<1>10. ASSUME NEW r \in Regions
       PROVE  /\ stale'[r] <= produced'
              /\ stale'[r] > 0 => (Holding' /\ r \in frame'.damage /\ frame'.seq >= stale'[r])
                                  \/ (r \in g.damage /\ g.seq >= stale'[r])
  <2>1. stale[r] <= produced /\ stale[r] \in Nat
    BY <1>1 DEF DamageInv, StaleCovered
  <2>2. CASE r \in f.damage
    BY <1>1, <1>2, <1>4, <2>2
  <2>3. CASE r \notin f.damage
    <3>1. stale'[r] = stale[r]
      BY <1>4, <2>3
    <3>2. stale[r] > 0 => (Holding /\ r \in frame.damage /\ frame.seq >= stale[r])
                          \/ (queue # <<>> /\ r \in queue[1].damage)
      BY DEF DamageInv, StaleCovered, CoversIn
    <3>3. g.seq >= stale[r]
      BY <1>1, <1>2, <2>1
    <3> QED
      BY <1>1, <1>2, <1>4, <1>6, <1>7, <2>1, <3>1, <3>2, <3>3
  <2> QED
    BY <2>2, <2>3
<1>11. StaleCovered'
  BY <1>5, <1>10 DEF StaleCovered, CoversIn
<1> QED
  BY <1>4, <1>8, <1>9, <1>11 DEF DamageInv, NoMode

LEMMA DamageTakeFrame ==
    ASSUME TypeOK, DamageInv, mode = "Progressive", TakeFrame
    PROVE  DamageInv'
<1> USE DEF NextFrame
<1>1. UNCHANGED <<mode, produced, sourceSize, surface, pendingReset, stale>> /\ ~Holding
      /\ sendStep' \in {"check", "guard"}
  BY DEF TakeFrame, Holding
<1>2. CASE queue = <<>>
  <2>1. ~Holding' /\ queue' = <<>>
    BY <1>2 DEF TakeFrame, Holding
  <2> QED
    BY <1>1, <1>2, <2>1 DEF DamageInv, OneWaits, WholeOnResize, StaleCovered, PreviousSize,
        CoversIn, NoMode
<1>3. CASE queue # <<>>
  <2>0. queue \in Seq(Frame) /\ Len(queue) = 1 /\ produced \in Nat /\ produced >= 1
    <3>1. queue \in Seq(Frame) /\ Len(queue) <= 1 /\ produced \in Nat /\ produced >= 1
      BY <1>3 DEF DamageInv, OneWaits, TypeOK
    <3>2. \A q \in Seq(Frame) : q # <<>> => Len(q) \in Nat /\ Len(q) # 0
      OBVIOUS
    <3>3. Len(queue) \in Nat /\ Len(queue) # 0
      BY <1>3, <3>1, <3>2
    <3>4. \A n \in Nat : n # 0 /\ n <= 1 => n = 1
      OBVIOUS
    <3>5. Len(queue) = 1
      BY <3>1, <3>3, <3>4, Zenon
    <3> QED
      BY <3>1, <3>5, Zenon
  <2>1. /\ frame' = queue[1] /\ Holding' /\ queue' = Tail(queue) /\ Len(queue) = 1
        /\ queue \in Seq(Frame)
    BY <1>3, <2>0 DEF TakeFrame, Holding
  <2>2. queue' = <<>> /\ Len(queue') = 0
    BY <2>1
  <2>3. OneWaits'
    <3>1. frame'.seq = produced
      BY <1>3, <2>1 DEF DamageInv, OneWaits
    <3>2. frame'.seq \in 1..produced'
      BY <1>1, <2>0, <3>1
    <3> QED
      BY <2>2, <3>2 DEF OneWaits
  <2>4. WholeOnResize'
    BY <1>1, <1>3, <2>1, <2>2 DEF DamageInv, OneWaits, WholeOnResize, PreviousSize
  <2>5. StaleCovered'
    BY <1>1, <1>3, <2>1, <2>2 DEF DamageInv, StaleCovered, CoversIn
  <2> QED
    BY <1>1, <2>3, <2>4, <2>5 DEF DamageInv, NoMode
<1> QED
  BY <1>2, <1>3

\* A reset makes all of the client's screen stale; the frame in hand, which is
\* the first of its size, repairs all of it.
LEMMA DamageReset ==
    ASSUME TypeOK, PassInv, DamageInv, mode = "Progressive", PerformReset, Lossless
    PROVE  DamageInv'
<1>1. /\ UNCHANGED <<mode, produced, sourceSize, queue, pendingReset, frame>>
      /\ Holding /\ Holding' /\ sendStep' \in {"drop", "create", "size", "insert"}
      /\ sendStep \in {"destroy", "drop", "create"} /\ ~pendingReset
  BY DEF PerformReset, ResetDestroy, ResetDrop, ResetCreate, UndoCreate, UndoDrop, AfterReset, Holding,
      Lossless, PassInv, DrawnInv, DamageInv, WholeOnResize
<1>2. PreviousSize' = PreviousSize
  BY <1>1 DEF PreviousSize
<1>3. OneWaits'
  BY <1>1 DEF DamageInv, OneWaits, NextFrame
<1>4. CASE ResetCreate
  <2>1. surface' = [id |-> nextSurfaceId, size |-> frame.size] /\ stale' = stale
        /\ sendStep' \in {"size", "insert"}
    BY <1>4 DEF ResetCreate, AfterReset, Lossless
  <2>2. surface'.size = frame.size
    BY <2>1
  <2>3. WholeOnResize'
    BY <1>1, <1>2, <2>1, <2>2 DEF DamageInv, WholeOnResize, NextFrame
  <2>4. StaleCovered'
    BY <1>1, <2>1 DEF DamageInv, StaleCovered, CoversIn, NextFrame
  <2> QED
    BY <1>1, <1>3, <2>3, <2>4 DEF DamageInv, NoMode
<1>6. CASE ResetDestroy
  <2>1. UNCHANGED <<surface, stale>> /\ surface.size # frame.size
    BY <1>6 DEF ResetDestroy, DamageInv, WholeOnResize
  <2>2. WholeOnResize'
    BY <1>1, <1>2, <2>1 DEF DamageInv, WholeOnResize, NextFrame
  <2>3. StaleCovered'
    BY <1>1, <2>1 DEF DamageInv, StaleCovered, CoversIn, NextFrame
  <2> QED
    BY <1>1, <1>3, <2>2, <2>3 DEF DamageInv, NoMode
<1>5. CASE ResetDrop
  <2>1. frame.damage = Regions /\ sendStep' = "create"
    BY <1>1, <1>5 DEF ResetDrop, DamageInv, WholeOnResize
  <2>2. WholeOnResize'
    BY <1>1, <1>2, <2>1 DEF DamageInv, WholeOnResize, NextFrame
  <2>3. frame.seq \in 1..produced /\ produced \in Nat /\ stale \in [Regions -> Nat]
    BY <1>1 DEF DamageInv, OneWaits, TypeOK
  <2>4. ASSUME NEW r \in Regions
        PROVE  stale'[r] = stale[r] \/ (stale[r] = 0 /\ stale'[r] = 1)
    BY <1>5, <2>3 DEF ResetDrop, DropSurface
  <2>5. ASSUME NEW r \in Regions
        PROVE  /\ stale'[r] <= produced'
               /\ stale'[r] > 0 => (Holding' /\ CoversIn(frame, r)') \/ (queue' # <<>> /\ CoversIn(NextFrame, r)')
    <3>1. CASE stale'[r] = stale[r]
      BY <1>1, <3>1 DEF DamageInv, StaleCovered, CoversIn, NextFrame
    <3>2. CASE stale'[r] = 1
      BY <1>1, <2>1, <2>3, <3>2 DEF CoversIn
    <3> QED
      BY <2>4, <3>1, <3>2
  <2>6. StaleCovered'
    BY <2>5 DEF StaleCovered
  <2> QED
    BY <1>1, <1>3, <2>2, <2>6 DEF DamageInv, NoMode
<1>7. ~UndoCreate /\ ~UndoDrop
  BY <1>1 DEF UndoCreate, UndoDrop
<1> QED
  BY <1>4, <1>5, <1>6, <1>7 DEF PerformReset

LEMMA DamageSubmit ==
    ASSUME TypeOK, PassInv, PassInv', DamageInv, mode = "Progressive", Submit
    PROVE  DamageInv'
<1>1. sendStep' = "post" /\ sendStep = "submit"
  BY DEF Submit, PassInv, DrawnInv
<1>2. /\ UNCHANGED <<mode, produced, sourceSize, queue, pendingReset, surface, frame>>
      /\ stale' = [r \in Regions |->
                     IF r \in frame.damage /\ stale[r] <= frame.seq THEN 0 ELSE stale[r]]
      /\ Holding /\ ~Holding'
  BY <1>1 DEF Submit, Holding
<1>3. PreviousSize' = PreviousSize
  BY <1>1, <1>2 DEF PreviousSize, PassInv, DrawnInv
<1>4. OneWaits' /\ WholeOnResize'
  BY <1>1, <1>2, <1>3 DEF DamageInv, OneWaits, WholeOnResize, NextFrame
<1>5. frame.seq \in Nat /\ stale \in [Regions -> Nat] /\ produced \in Nat
  BY <1>2 DEF TypeOK, DamageInv, OneWaits
<1>6. ASSUME NEW r \in Regions
      PROVE  /\ stale'[r] <= produced'
             /\ stale'[r] > 0 => queue' # <<>> /\ CoversIn(NextFrame, r)'
  <2>1. CASE r \in frame.damage /\ stale[r] <= frame.seq
    BY <1>2, <1>5, <2>1
  <2>2. CASE ~(r \in frame.damage /\ stale[r] <= frame.seq)
    <3>1. stale'[r] = stale[r]
      BY <1>2, <2>2
    <3>2. ~CoversIn(frame, r)
      BY <1>5, <2>2 DEF CoversIn
    <3> QED
      BY <1>2, <3>1, <3>2 DEF DamageInv, StaleCovered, CoversIn, NextFrame
  <2> QED
    BY <2>1, <2>2
<1>7. StaleCovered'
  BY <1>6 DEF StaleCovered
<1> QED
  BY <1>2, <1>4, <1>7 DEF DamageInv, NoMode

LEMMA DamageStep ==
    ASSUME Lossless, TypeOK, PassInv, PassInv', OpenInv, DamageInv, [Next]_vars
    PROVE  DamageInv'
<1> DEFINE kept == <<mode, produced, sourceSize, queue, frame, surface, stale>>
<1>1. ASSUME mode # NoMode, NEW f \in SourceFrames, QueueFrame(f)
      PROVE  DamageInv'
  <2>1. CASE mode = "Progressive"
    BY <1>1, <2>1, DamageQueueFrame
  <2>2. CASE mode # "Progressive"
    BY <1>1, <2>2 DEF QueueFrame, DamageInv
  <2> QED
    BY <2>1, <2>2
<1>2. CASE SetActiveEncodingMode
  <2>1. /\ mode = NoMode /\ UNCHANGED <<sendStep, surface, produced, stale, pendingReset, frame>>
        /\ mode' # NoMode
    BY <1>2 DEF SetActiveEncodingMode, PassInv, OnceInv, NegotiationInv
  <2>2. ~Holding /\ ~Holding' /\ surface = NoSurface /\ sendStep = "check"
    BY <2>1 DEF PassInv, OnceInv, NegotiationInv, Holding, OpenInv
  <2>3. queue' = <<>> /\ sourceSize' = NoSize /\ Len(queue') = 0
    BY <1>2, <2>1 DEF SetActiveEncodingMode, PassInv, NegotiationInv
  <2>4. OneWaits' /\ WholeOnResize'
    BY <2>1, <2>2, <2>3 DEF OneWaits, WholeOnResize, PreviousSize, NoSurface
  <2>5. StaleCovered'
    BY <2>1 DEF DamageInv, StaleCovered, TypeOK
  <2> QED
    BY <2>1, <2>4, <2>5 DEF DamageInv
<1>3. ASSUME UNCHANGED kept, UNCHANGED pendingReset, UNCHANGED sendStep
      PROVE  DamageInv'
  BY <1>3 DEF DamageInv, OneWaits, WholeOnResize, StaleCovered, PreviousSize, Holding,
      CoversIn, NextFrame
<1>4. CASE UpdateBackpressure \/ UpdateInFlightWindow \/ UNCHANGED vars
  <2>1. UNCHANGED kept /\ UNCHANGED pendingReset /\ UNCHANGED sendStep
    BY <1>4 DEF UpdateBackpressure, DeliverPosted, CountQueue, DecidePause, UpdateInFlightWindow, vars
  <2> QED
    BY <1>3, <2>1
<1>5. CASE Run
  <2>1. ASSUME NEW m, CapsAdvertise(m)
        PROVE  UNCHANGED kept /\ UNCHANGED pendingReset /\ UNCHANGED sendStep
    <3>1. ~capsConfirmed
      BY <2>1, BoundAssumption DEF CapsAdvertise, PassInv, NegotiationInv, Lossless, TypeOK
    <3> QED
      BY <2>1, <3>1 DEF CapsAdvertise
  <2>2. CASE ~\E m : CapsAdvertise(m)
    <3>1. UNCHANGED kept /\ UNCHANGED pendingReset /\ UNCHANGED sendStep
      BY <1>5, <2>2 DEF Run, Negotiation, Closing, AdvertiseDestroy, AdvertiseDrop, CapsConfirm,
          Acknowledge, SuspendAcks, ResumeAcks, SuppressOutput, CloseRequestStop, CloseJoin,
          CloseClear, CloseDestroy, OpenInv, PassInv, OnceInv
    <3> QED
      BY <1>3, <3>1
  <2> QED
    BY <1>3, <2>1, <2>2
<1>6. CASE Submission
  <2>1. mode = NoMode => sendStep = "check"
    BY DEF PassInv, NegotiationInv, OpenInv
  <2>2. CASE mode # "Progressive"
    <3>1. UNCHANGED mode
      BY <1>6 DEF Submission, SendFrame, PerformReset, CheckCapacity, TakeFrame, DropFrame,
          PassGuards, TestPendingReset, ClearPendingReset, TestSize, ResetDestroy, ResetDrop,
          ResetCreate, UndoCreate, UndoDrop, AfterReset, InsertPending, Submit, RemovePending,
          PostBackpressure
    <3>2. sendStep = "check" => UNCHANGED stale
      BY <1>6 DEF Submission, SendFrame, PerformReset, CheckCapacity, TakeFrame, DropFrame,
          PassGuards, TestPendingReset, ClearPendingReset, TestSize, ResetDestroy, ResetDrop,
          ResetCreate, UndoCreate, UndoDrop, AfterReset, InsertPending, Submit, RemovePending,
          PostBackpressure
    <3> QED
      BY <2>1, <2>2, <3>1, <3>2 DEF DamageInv
  <2>3. CASE mode = "Progressive"
    <3>1. CASE TakeFrame
      BY <2>3, <3>1, DamageTakeFrame
    <3>2. CASE PerformReset
      BY <2>3, <3>2, DamageReset DEF PerformReset
    <3>3. CASE Submit
      BY <2>3, <3>3, DamageSubmit
    <3>4. CASE DropFrame \/ RemovePending
      BY <3>4 DEF DropFrame, RemovePending, Lossless, PassInv, NegotiationInv, DrawnInv
    <3>5. CASE TestPendingReset
      <4>1. frame.size # NoSize
        <5>1. frame \in Frame
          BY <3>5 DEF TestPendingReset, PassInv, OfMode, Holding
        <5> QED
          BY <5>1, SizesAssumption DEF Frame
      <4>2. UNCHANGED kept /\ Holding /\ Holding'
            /\ UNCHANGED pendingReset /\ sendStep' = (IF pendingReset THEN "clear" ELSE "size")
        <5>1. sendStep = "reset" /\ sendStep' = (IF pendingReset THEN "clear" ELSE "size")
          BY <3>5 DEF TestPendingReset
        <5>2. Holding /\ Holding'
          BY <5>1 DEF Holding
        <5>3. UNCHANGED kept /\ UNCHANGED pendingReset
          BY <3>5 DEF TestPendingReset
        <5> QED
          BY <5>1, <5>2, <5>3
      <4>3. pendingReset => surface.size # frame.size
        BY <2>3, <4>1 DEF DamageInv, WholeOnResize, NoSurface
      <4>4. OneWaits' /\ StaleCovered'
        BY <2>3, <4>2 DEF DamageInv, OneWaits, StaleCovered, CoversIn, NextFrame
      <4>5. sendStep' = "clear" => surface'.size # frame'.size
        BY <4>2, <4>3
      <4>6. WholeOnResize'
        BY <2>3, <4>2, <4>5 DEF DamageInv, WholeOnResize, PreviousSize, NextFrame
      <4> QED
        BY <2>3, <4>2, <4>4, <4>6 DEF DamageInv, NoMode
    <3>8. CASE ClearPendingReset
      <4>1. /\ UNCHANGED kept /\ Holding /\ Holding' /\ ~pendingReset'
            /\ sendStep = "clear" /\ sendStep' = "destroy"
        BY <3>8 DEF ClearPendingReset, Holding
      <4> QED
        BY <2>3, <4>1 DEF DamageInv, OneWaits, WholeOnResize, StaleCovered, PreviousSize,
            CoversIn, NextFrame, NoMode
    <3>6. CASE TestSize
      <4>1. UNCHANGED kept /\ UNCHANGED pendingReset /\ ~pendingReset
            /\ sendStep' = (IF SizeDiffers THEN "destroy" ELSE "insert")
            /\ Holding /\ Holding'
        BY <2>3, <3>6 DEF TestSize, Holding, DamageInv, WholeOnResize
      <4> QED
        BY <2>3, <4>1 DEF DamageInv, OneWaits, WholeOnResize, StaleCovered, PreviousSize,
            CoversIn, NextFrame, NoMode, SizeDiffers
    <3>7. CASE CheckCapacity \/ PassGuards \/ InsertPending \/ PostBackpressure
      <4>1. UNCHANGED <<mode, produced, sourceSize, queue, surface, stale, pendingReset>>
            /\ Holding' = Holding /\ (Holding => frame' = frame)
            /\ sendStep' \notin {"clear", "destroy", "drop"}
            /\ (pendingReset => sendStep' \notin {"size", "destroy", "drop", "create", "insert", "submit"})
        BY <2>3, <3>7 DEF CheckCapacity, PassGuards, InsertPending, PostBackpressure, Holding,
            DamageInv, WholeOnResize
      <4> QED
        BY <2>3, <4>1 DEF DamageInv, OneWaits, WholeOnResize, StaleCovered, PreviousSize,
            CoversIn, NextFrame, NoMode
    <3> QED
      BY <1>6, <3>1, <3>2, <3>3, <3>4, <3>5, <3>6, <3>7, <3>8 DEF Submission, SendFrame
  <2> QED
    BY <2>2, <2>3
<1> QED
  BY <1>1, <1>2, <1>4, <1>5, <1>6 DEF Next, Main

LEMMA DamageInvCovers ==
    ASSUME TypeOK, OpenInv, PassInv, DamageInv
    PROVE  DamageCovered
<1> SUFFICES ASSUME NEW r \in Regions, mode = "Progressive", stale[r] > 0
             PROVE  \E f \in Waiting : r \in f.damage /\ f.seq >= stale[r]
  BY DEF DamageCovered
<1>1. Holding => frame \in Waiting
  BY DEF Holding, Waiting
<1>2. queue # <<>> => NextFrame \in Waiting
  BY DEF NextFrame, Waiting, Range, TypeOK
<1> QED
  BY <1>1, <1>2 DEF DamageInv, StaleCovered, CoversIn

\* No damage is lost between the source and the client, as long as no frame is
\* refused or lost: what the client shows out of date is in the damage of a frame
\* that is still to be drawn, also when frames replace one another in the queue
\* or the size changes under way (queueFrame, sendFrame, performReset).
THEOREM DamageCorrect ==
    ASSUME Lossless, ~CanClose
    PROVE  Spec /\ []IdsLast => []DamageCovered
<1>1. Init => OpenInv /\ DamageInv
  BY DEF Init, OpenInv, DamageInv, NoMode
<1>2. PassInv /\ OpenInv /\ [Next]_vars => OpenInv'
  BY OpenStep DEF PassInv
<1>3. TypeOK /\ PassInv /\ PassInv' /\ OpenInv /\ DamageInv /\ [Next]_vars => DamageInv'
  BY DamageStep
<1>4. TypeOK /\ PassInv /\ OpenInv /\ DamageInv => DamageCovered
  BY DamageInvCovers
<1> QED
  BY <1>1, <1>2, <1>3, <1>4, TypeCorrect, PassInvHolds, PTL DEF Spec
=============================================================================
