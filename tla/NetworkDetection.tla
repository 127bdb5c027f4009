---------------------------- MODULE NetworkDetection ----------------------------
(***************************************************************************)
(* How a connection measures its network (src/src/NetworkDetection.cpp),   *)
(* on the run thread: round trips, each request with a number the client   *)
(* repeats, and bandwidth, one measurement at a time. update ends every    *)
(* pass of the run loop, which waits for something to happen on the        *)
(* connection, without a limit: nothing wakes it when a request is due.    *)
(* Answers come in any order, late or never. Times are ages in ticks, up   *)
(* to where they matter.                                                   *)
(***************************************************************************)
EXTENDS Integers, Sequences, SequencesExt, FiniteSets

CONSTANTS
    RttInterval,        \* rttUpdateInterval, at least this between requests
    RequestMaxAge,      \* rttRequestMaxAge
    AverageInterval,    \* rttAverageInterval, for which a round trip counts
    ResultInterval,     \* networkResultInterval, between reports to the client
    MeasureDuration,    \* bandwidthMeasureDuration
    MeasureInterval,    \* bandwidthMeasureInterval
    SequenceNumbers,    \* 2^16 of them
    MaxDelay            \* bound: a client that answers does so within this time

ASSUME IntervalAssumption ==
    /\ {RttInterval, ResultInterval, MeasureInterval} \subseteq Nat \ {0}
    /\ {RequestMaxAge, AverageInterval, MeasureDuration, MaxDelay} \subseteq Nat
    /\ RequestMaxAge < MaxDelay
\* The numbers used up in MaxDelay, by requests and by reports, are not all there are.
ASSUME NumbersAssumption ==
    /\ SequenceNumbers \in Nat
    /\ MaxDelay \div RttInterval + MaxDelay \div ResultInterval + 3 < SequenceNumbers
\* Nor are those used up while a request is open, which is until the first update after
\* RequestMaxAge that asks again.
ASSUME OpenNumbersAssumption ==
    LET longest == IF RttInterval > MaxDelay THEN RttInterval ELSE MaxDelay
    IN  RequestMaxAge \div RttInterval + (RequestMaxAge + longest) \div ResultInterval + 4
            < SequenceNumbers

Numbers == 0..SequenceNumbers - 1

VARIABLES
    measure,            \* state: "None", "PendingStop" or "PendingResults"
    sequenceNumber,     \* where the search for the next number begins
    rttRequests,        \* the open requests: their ages, by number
    hasBandwidth,       \* some bandwidth was measured
    age,                \* of the last round trip request, measurement, its start,
                        \* report, and answer
    awake,              \* the run loop has left its wait, and comes to update
    answering,          \* the client answers measurements at all; never changes
    asked,              \* requests it is going to answer: number and age
    results             \* results of measurements that are under way

networkVars == <<measure, sequenceNumber, rttRequests, hasBandwidth, age, awake, answering, asked,
                 results>>

\* Beyond these nothing depends on an age. Before the first of each they are as old
\* as can be.
MaxAges == [rtt |-> RttInterval, measure |-> MeasureInterval, start |-> MeasureDuration,
            report |-> ResultInterval, answer |-> AverageInterval + 1]

NetworkInit ==
    /\ measure = "None" /\ sequenceNumber = 0 /\ rttRequests = [n \in {} |-> 0]
    /\ hasBandwidth = FALSE /\ age = MaxAges /\ awake = FALSE
    /\ answering \in BOOLEAN /\ asked = <<>> /\ results = 0

-----------------------------------------------------------------------------
Open == DOMAIN rttRequests
Without(n) == [m \in Open \ {n} |-> rttRequests[m]]

\* Mutant of Unexpired: requests stay until they are answered.
UnexpiredAll == rttRequests

\* What is left of the requests when the old ones are given up.
Unexpired == [n \in {m \in Open : rttRequests[m] <= RequestMaxAge} |-> rttRequests[n]]

\* nextSequenceNumber, with the requests of r open: the next one that is neither 0
\* nor the number of an open request.
NextNumber(r) ==
    LET Free(k) == (sequenceNumber + k) % SequenceNumbers \notin DOMAIN r \union {0}
        k == CHOOSE i \in Numbers : Free(i) /\ \A j \in Numbers : Free(j) => i <= j
    IN  (sequenceNumber + k) % SequenceNumbers

\* Mutant of Advance: the number is taken again as soon as it is free.
AdvanceNot(n) == sequenceNumber' = n

Advance(n) == sequenceNumber' = (n + 1) % SequenceNumbers

-----------------------------------------------------------------------------
(* The passes of the run loop, while the session is Streaming *)

\* Something else is received or sent, or ready to be.
Wake ==
    /\ ~awake /\ awake' = TRUE
    /\ UNCHANGED <<measure, sequenceNumber, rttRequests, hasBandwidth, age, answering, asked,
                   results>>

\* Bandwidth is measured for a while, with whatever is sent meanwhile, and not too
\* often; results of an earlier measurement come first.
Starts   == measure = "None" /\ age.measure = MeasureInterval
Stops    == measure = "PendingStop" /\ age.start = MeasureDuration
Requests == age.rtt = RttInterval

RequestRtt ==
    LET n == NextNumber(Unexpired)
    IN  /\ rttRequests' = [m \in DOMAIN Unexpired \union {n} |->
                                IF m = n THEN 0 ELSE Unexpired[m]]
        /\ Advance(n)
        /\ asked' \in {asked, Append(asked, [number |-> n, age |-> 0])}

\* update: whatever is due is done. Then the run loop waits again.
NetworkUpdate ==
    /\ awake /\ awake' = FALSE
    /\ measure' = CASE Starts -> "PendingStop" [] Stops -> "PendingResults" [] OTHER -> measure
    /\ results' = IF Stops /\ answering THEN results + 1 ELSE results
    /\ IF Requests THEN RequestRtt ELSE UNCHANGED <<rttRequests, sequenceNumber, asked>>
    /\ age' = [k \in DOMAIN age |->
                  IF (k = "rtt" /\ Requests) \/ (k \in {"measure", "start"} /\ Starts)
                  THEN 0 ELSE age[k]]
    /\ UNCHANGED <<hasBandwidth, answering>>

-----------------------------------------------------------------------------
(* What the client answers, in the callbacks of FreeRDP *)

\* updateAverageRtt, with requests r open and bandwidth b: if there is a round trip
\* to report, and bandwidth, the client is told now and then, which takes a number.
\* a is the age of the last answer.
UpdateAverageRtt(r, b, a) ==
    IF a <= AverageInterval /\ b /\ age.report = ResultInterval
    THEN Advance(NextNumber(r)) /\ age' = [age EXCEPT !.answer = a, !.report = 0]
    ELSE UNCHANGED sequenceNumber /\ age' = [age EXCEPT !.answer = a]

\* A number that is not open changes nothing; a round trip without duration is not used.
OnRttMeasureResponse ==
    /\ \E i \in DOMAIN asked :
         LET n == asked[i].number
         IN  /\ asked' = RemoveAt(asked, i)
             /\ IF n \notin Open THEN UNCHANGED <<rttRequests, sequenceNumber, age>>
                ELSE /\ rttRequests' = Without(n)
                     /\ \/ UpdateAverageRtt(Without(n), hasBandwidth, 0)
                        \/ rttRequests[n] = 0 /\ UNCHANGED <<sequenceNumber, age>>
    /\ awake' = TRUE
    /\ UNCHANGED <<measure, hasBandwidth, answering, results>>

\* Mutant of OnBandwidthMeasureResults: results of nothing leave it pending.
IgnoreEmptyResults(empty) ==
    /\ results > 0
    /\ results' = results - 1 /\ awake' = TRUE
    /\ IF measure = "PendingResults" /\ ~empty
       THEN /\ measure' = "None" /\ hasBandwidth' = TRUE
            /\ UpdateAverageRtt(rttRequests, TRUE, age.answer)
       ELSE UNCHANGED <<measure, hasBandwidth, sequenceNumber, age>>
    /\ UNCHANGED <<rttRequests, answering, asked>>

\* Results of no bytes or no time end the measurement and are not used.
OnBandwidthMeasureResults(empty) ==
    /\ results > 0
    /\ results' = results - 1 /\ awake' = TRUE
    /\ CASE measure # "PendingResults" ->
              UNCHANGED <<measure, hasBandwidth, sequenceNumber, age>>
         [] measure = "PendingResults" /\ empty ->
              measure' = "None" /\ UNCHANGED <<hasBandwidth, sequenceNumber, age>>
         [] OTHER ->
              /\ measure' = "None" /\ hasBandwidth' = TRUE
              /\ UpdateAverageRtt(rttRequests, TRUE, age.answer)
    /\ UNCHANGED <<rttRequests, answering, asked>>

Answer == OnRttMeasureResponse \/ \E empty \in BOOLEAN : OnBandwidthMeasureResults(empty)

-----------------------------------------------------------------------------
Older(a, max) == IF a < max THEN a + 1 ELSE a

\* Time passes, but not so much that an answer would be overdue.
Tick ==
    /\ \A i \in DOMAIN asked : asked[i].age < MaxDelay
    /\ age' = [k \in DOMAIN age |-> Older(age[k], MaxAges[k])]
    /\ rttRequests' = [n \in Open |-> Older(rttRequests[n], MaxDelay)]
    /\ asked' = [i \in DOMAIN asked |-> [asked[i] EXCEPT !.age = @ + 1]]
    /\ UNCHANGED <<measure, sequenceNumber, hasBandwidth, awake, answering, results>>

NetworkNext == Wake \/ NetworkUpdate \/ Answer \/ Tick

\* A pass of the run loop comes to its end, time passes, a client that answers does so.
\* Nothing else has to wake the run loop.
NetworkFairness ==
    /\ WF_networkVars(NetworkUpdate)
    /\ WF_networkVars(OnRttMeasureResponse)
    /\ WF_networkVars(\E empty \in BOOLEAN : OnBandwidthMeasureResults(empty))
    /\ WF_networkVars(Tick)

NetworkSpec == NetworkInit /\ [][NetworkNext]_networkVars /\ NetworkFairness
-----------------------------------------------------------------------------
(* Properties *)

\* Every variable stays in its range, and the open requests are few however a client
\* behaves, so that the search for a number ends and nothing piles up.
NetworkTypeOK ==
    /\ Cardinality(Open) <= RequestMaxAge \div RttInterval + 2
    /\ measure \in {"None", "PendingStop", "PendingResults"} /\ sequenceNumber \in Numbers
    /\ Open \subseteq Numbers \ {0} /\ \A n \in Open : rttRequests[n] \in 0..MaxDelay
    /\ {hasBandwidth, awake, answering} \subseteq BOOLEAN /\ results \in 0..1
    /\ asked \in Seq([number : Numbers \ {0}, age : 0..MaxDelay])
    /\ \A k \in DOMAIN MaxAges : age[k] \in 0..MaxAges[k]

\* A late answer is never taken for that to a later request: whenever the number of an
\* unanswered request is open, it is open for that request, although numbers are used
\* again and requests are given up before they are answered.
AnswersFitRequests ==
    \A i \in DOMAIN asked :
        asked[i].number \in Open => rttRequests[asked[i].number] = asked[i].age

\* Bandwidth is measured again and again for a client that answers, whatever it answers, as
\* long as the connection has traffic: without it nothing ends the wait of the run loop, and
\* what is due is not done.
MeasuringGoesOn == answering /\ []<>awake => []<>(measure = "PendingStop")
=============================================================================
