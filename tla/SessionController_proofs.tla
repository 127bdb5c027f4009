----------------------- MODULE SessionController_proofs -----------------------
(***************************************************************************)
(* Proofs about SessionController: who has control, and whom the desktop   *)
(* session is unlocked for.                                                *)
(***************************************************************************)
EXTENDS SessionController, Induction, TLAPS

\* The signals are read as if they were written in the actions of the controller.
USE DEF Signals!Connect, Signals!Activate, Signals!EndRun, Signals!TakeActivated,
        Signals!TakeClosed, Signals!Take, Signals!Become, Signals!Queue

-----------------------------------------------------------------------------
(***************************************************************************)
(* Whom the session is unlocked for. The invariant says what logind will   *)
(* have been told last, in terms of the calls that are still under way,    *)
(* and which it then refuses or heeds.                                     *)
(***************************************************************************)

\* The last lock call under way is what; without one, state holds already, or logind
\* has refused the last.
Told(what, holds) ==
    IF lockCalls = <<>> THEN holds \/ "lock" \in unheeded ELSE lockCalls[Len(lockCalls)] = what

LockInv ==
    /\ lockCalls \in Seq({"Lock", "Unlock"})
    /\ OperatingMode # "RemoteAccess" => lockCalls = <<>> /\ unlockedBy = "user"
    /\ wrappers = <<>> => Told("Lock", unlockedBy # "client")
    /\ OperatingMode = "RemoteAccess" /\ ~MonitorOverride /\ wrappers # <<>> =>
           Told("Unlock", unlockedBy # "nobody")

lockVars == <<lockCalls, unlockedBy, wrappers, unheeded \intersect {"lock"}>>

LEMMA LockInvInit == Init => LockInv
  BY DEF Init, LockInv, Told

\* Sending a call makes it the last one.
LEMMA LastOfAppend ==
  ASSUME NEW S, NEW s \in Seq(S), NEW e \in S
  PROVE  /\ Append(s, e) \in Seq(S) /\ Append(s, e) # <<>>
         /\ Append(s, e)[Len(Append(s, e))] = e
  OBVIOUS

\* A queue of calls takes another one.
LEMMA CallsAppended ==
  ASSUME NEW s \in Seq({"Lock", "Unlock"}), NEW e \in {"Lock", "Unlock"}
  PROVE  Append(s, e) \in Seq({"Lock", "Unlock"})
  OBVIOUS

\* Serving the oldest call leaves the last one, or nothing.
LEMMA LastOfTail ==
  ASSUME NEW S, NEW s \in Seq(S), s # <<>>
  PROVE  /\ Tail(s) \in Seq(S)
         /\ Tail(s) # <<>> => Tail(s)[Len(Tail(s))] = s[Len(s)]
         /\ Tail(s) = <<>> => Head(s) = s[Len(s)]
<1>1. Tail(s) \in Seq(S) /\ Len(Tail(s)) = Len(s) - 1 /\ Len(s) \in Nat \ {0}
  OBVIOUS
<1>2. ASSUME Tail(s) # <<>> PROVE Tail(s)[Len(Tail(s))] = s[Len(s)]
  <2>1. Len(s) - 1 \in 1..Len(Tail(s))
    BY <1>1, <1>2
  <2> QED  BY <1>1, <2>1
<1>3. ASSUME Tail(s) = <<>> PROVE Head(s) = s[Len(s)]
  <2>1. Len(Tail(s)) = Len(<<>>) /\ Len(<<>>) = 0
    BY <1>3
  <2>2. \A n \in Nat : n - 1 = 0 => n = 1
    OBVIOUS
  <2>3. Len(s) = 1
    BY <1>1, <2>1, <2>2
  <2> QED  BY <2>3
<1> QED  BY <1>1, <1>2, <1>3

LEMMA LockInvStutter == LockInv /\ UNCHANGED lockVars => LockInv'
  BY DEF LockInv, Told, lockVars

LEMMA LockInvActivated ==
  ASSUME LockInv, NEW c \in Conns, OnActivated(c)
  PROVE  LockInv'
<1> DEFINE Calls == {"Lock", "Unlock"}
<1>1. wrappers' = Append(wrappers, c) /\ unlockedBy' = unlockedBy
  BY DEF OnActivated, seatVars
<1>2. wrappers' # <<>>
  BY <1>1
<1>3. CASE OperatingMode = "RemoteAccess" /\ ~MonitorOverride
  <2>1. lockCalls' = Append(lockCalls, "Unlock")
    BY <1>3 DEF OnActivated, TakeOver
  <2>2. /\ lockCalls' \in Seq(Calls) /\ lockCalls' # <<>>
        /\ lockCalls'[Len(lockCalls')] = "Unlock"
    BY <2>1, LastOfAppend DEF LockInv
  <2> QED  BY <1>2, <1>3, <2>2 DEF LockInv, Told
<1>4. CASE ~(OperatingMode = "RemoteAccess" /\ ~MonitorOverride)
  <2>1. lockCalls' = lockCalls
    BY <1>4 DEF OnActivated, busVars
  <2> QED  BY <1>1, <1>2, <1>4, <2>1 DEF LockInv
<1> QED  BY <1>3, <1>4

LEMMA LockInvClosed ==
  ASSUME LockInv, NEW c \in Conns, OnClosed(c)
  PROVE  LockInv'
<1> DEFINE Calls == {"Lock", "Unlock"}
<1>1. unlockedBy' = unlockedBy /\ unheeded' = unheeded
  BY DEF OnClosed, seatVars
<1>2. CASE ~HasWrapper(c)
  <2>1. UNCHANGED lockVars
    BY <1>1, <1>2 DEF OnClosed, lockVars
  <2> QED  BY <2>1, LockInvStutter
<1>3. CASE HasWrapper(c) /\ LockAfter(wrappers')
  <2>1. lockCalls' = Append(lockCalls, "Lock") /\ wrappers' = <<>>
        /\ OperatingMode = "RemoteAccess"
    BY <1>3 DEF OnClosed, LockAfter
  <2>2. /\ lockCalls' \in Seq(Calls) /\ lockCalls' # <<>>
        /\ lockCalls'[Len(lockCalls')] = "Lock"
    BY <2>1, LastOfAppend DEF LockInv
  <2> QED  BY <2>1, <2>2 DEF LockInv, Told
<1>4. CASE HasWrapper(c) /\ ~LockAfter(wrappers')
  <2>1. lockCalls' = lockCalls /\ (wrappers' # <<>> \/ OperatingMode # "RemoteAccess")
    BY <1>4 DEF OnClosed, LockAfter
  <2>2. wrappers # <<>>
    BY <1>4 DEF HasWrapper, Range
  <2> QED  BY <1>1, <2>1, <2>2 DEF LockInv, Told
<1> QED  BY <1>2, <1>3, <1>4

LEMMA LockInvServed ==
  ASSUME LockInv, ServeLock
  PROVE  LockInv'
<1> DEFINE Calls == {"Lock", "Unlock"}
<1>1. /\ lockCalls \in Seq(Calls) /\ lockCalls # <<>> /\ lockCalls' = Tail(lockCalls)
      /\ wrappers' = wrappers
  BY DEF LockInv, ServeLock
<1>2. \/ unlockedBy' = IF Head(lockCalls) = "Lock" THEN "nobody" ELSE "client"
      \/ unlockedBy' = unlockedBy /\ "lock" \in unheeded'
  BY DEF ServeLock
<1>3. /\ lockCalls' \in Seq(Calls)
      /\ lockCalls' # <<>> => lockCalls'[Len(lockCalls')] = lockCalls[Len(lockCalls)]
      /\ lockCalls' = <<>> => Head(lockCalls) = lockCalls[Len(lockCalls)]
  BY <1>1, LastOfTail
<1> QED  BY <1>1, <1>2, <1>3 DEF LockInv, Told

LEMMA LockInvLogIn ==
  ASSUME LockInv, LogIn
  PROVE  LockInv'
  BY DEF LockInv, LogIn, Told, busVars

LEMMA LockInvNext == LockInv /\ [Next]_vars => LockInv'
<1> SUFFICES ASSUME LockInv, [Next]_vars PROVE LockInv'
  OBVIOUS
<1>1. ASSUME NEW c \in Conns, Connect(c) \/ Activate(c) \/ EndRun(c) \/ OnSessionError(c)
      PROVE  UNCHANGED lockVars
  BY <1>1 DEF Connect, Activate, EndRun, OnSessionError, lockVars, busVars, seatVars
<1>2. ASSUME OnSessionPropertiesChanged \/ WatchSessionActive \/ ServeGreeter \/ UNCHANGED vars
      PROVE  UNCHANGED lockVars
  BY <1>2 DEF OnSessionPropertiesChanged, WatchSessionActive, ServeGreeter, lockVars, vars, busVars, seatVars
<1> QED  BY <1>1, <1>2, LockInvStutter, LockInvActivated, LockInvClosed, LockInvServed,
            LockInvLogIn DEF Next, Controller

LEMMA LockInvHolds == Spec => []LockInv
  BY LockInvInit, LockInvNext, PTL DEF Spec

\* Whatever the number of clients, and in every order of take-overs, ends and log-ins:
\* what a client unlocked is locked when the last one has left, unless logind refused.
THEOREM LeftLockedCorrect == Spec => []LeftLocked
<1>1. LockInv => LeftLocked
  BY DEF LockInv, Told, LeftLocked
<1> QED  BY <1>1, LockInvHolds, PTL

\* And no client finds the session locked by one that left before it, with the same
\* reservation.
THEOREM UsableCorrect == Spec => []UsableWhileConnected
<1>1. LockInv => UsableWhileConnected
  BY DEF LockInv, Told, UsableWhileConnected
<1> QED  BY <1>1, LockInvHolds, PTL

-----------------------------------------------------------------------------
(***************************************************************************)
(* What taking the wrappers of a connection out leaves: the sequence is    *)
(* built by recursion, so this is proved by induction on its length.       *)
(***************************************************************************)
\* g holds what is left of the first elements of s.
LeftOf(g, s, c, i) ==
    IF i = 0 THEN <<>> ELSE IF s[i] = c THEN g[i - 1] ELSE Append(g[i - 1], s[i])

IsLeft(g, s, c, n) == g = [i \in 0..n |-> LeftOf(g, s, c, i)]

LEMMA IsLeftAt ==
  ASSUME NEW g, NEW s, NEW c, NEW n \in Nat, IsLeft(g, s, c, n), NEW i \in 0..n
  PROVE  g[i] = LeftOf(g, s, c, i)
<1> DEFINE h == [j \in 0..n |-> LeftOf(g, s, c, j)]
<1>1. g = h
  BY DEF IsLeft
<1>2. h[i] = LeftOf(g, s, c, i)
  OBVIOUS
<1> HIDE DEF h
<1> QED  BY <1>1, <1>2

LEMMA LeftExists ==
  ASSUME NEW S, NEW s \in Seq(S), NEW c
  PROVE  \E g : IsLeft(g, s, c, Len(s))
<1> DEFINE n == Len(s)
           F == [p \in (1..n) \X Seq(S) |-> IF s[p[1]] = c THEN p[2] ELSE Append(p[2], s[p[1]])]
<1>1. n \in Nat /\ <<>> \in Seq(S)
  OBVIOUS
<1>2. F \in [(1..n) \X Seq(S) -> Seq(S)]
  OBVIOUS
<1>3. \A i \in 1..n, q \in Seq(S) : F[<<i, q>>] = IF s[i] = c THEN q ELSE Append(q, s[i])
  OBVIOUS
<1> HIDE DEF F, n
<1>4. PICK g \in [0..n -> Seq(S)] : IsIteration(g, n, <<>>, F)
  BY <1>1, <1>2, IterationExists
<1>5. ASSUME NEW i \in 0..n PROVE g[i] = LeftOf(g, s, c, i)
  <2>1. CASE i = 0
    BY <1>4, <2>1 DEF IsIteration, LeftOf
  <2>2. CASE i # 0
    <3>1. i \in 1..n /\ i - 1 \in 0..n
      BY <1>1, <2>2
    <3>2. g[i] = F[<<i, g[i - 1]>>] /\ g[i - 1] \in Seq(S)
      BY <1>4, <3>1 DEF IsIteration
    <3> QED  BY <1>3, <2>2, <3>1, <3>2 DEF LeftOf
  <2> QED  BY <2>1, <2>2
<1>6. g = [i \in 0..n |-> LeftOf(g, s, c, i)]
  <2>1. g = [i \in 0..n |-> g[i]]
    OBVIOUS
  <2>2. [i \in 0..n |-> g[i]] = [i \in 0..n |-> LeftOf(g, s, c, i)]
    BY <1>5
  <2> QED  BY <2>1, <2>2
<1> QED  BY <1>6 DEF IsLeft, n

LEMMA WithoutIsLeft ==
  ASSUME NEW S, NEW s \in Seq(S), NEW c
  PROVE  \E g : IsLeft(g, s, c, Len(s)) /\ Without(s, c) = g[Len(s)]
<1> DEFINE g == CHOOSE x : IsLeft(x, s, c, Len(s))
<1>1. IsLeft(g, s, c, Len(s))
  <2>1. \E x : IsLeft(x, s, c, Len(s))
    BY LeftExists
  <2> QED  BY <2>1, Zenon
<1>2. Without(s, c) = g[Len(s)]
  BY DEF Without, IsLeft, LeftOf
<1> QED  BY <1>1, <1>2

\* The elements that are left are those before that are not c, in such an order that
\* what is followed by another has been followed by another.
LEMMA WithoutProperties ==
  ASSUME NEW S, NEW s \in Seq(S), NEW c
  PROVE  /\ Without(s, c) \in Seq(S \ {c})
         /\ \A j \in 1..Len(Without(s, c)) : \E i \in 1..Len(s) : Without(s, c)[j] = s[i]
         /\ \A j \in 1..Len(Without(s, c)) - 1 : \E i \in 1..Len(s) - 1 : Without(s, c)[j] = s[i]
<1> DEFINE n == Len(s)
<1>0. n \in Nat
  OBVIOUS
<1>1. PICK g : IsLeft(g, s, c, n) /\ Without(s, c) = g[n]
  BY <1>0, WithoutIsLeft
<1> DEFINE Good(q, i) == /\ q \in Seq(S \ {c})
                         /\ \A j \in 1..Len(q) : \E k \in 1..i : q[j] = s[k]
                         /\ \A j \in 1..Len(q) - 1 : \E k \in 1..i - 1 : q[j] = s[k]
           P == {i \in 0..n : Good(g[i], i)}
<1>2. 0 \in P
  <2>1. g[0] = <<>>
    BY <1>0, <1>1, IsLeftAt DEF LeftOf
  <2>2. Good(<<>>, 0)
    OBVIOUS
  <2>3. 0 \in 0..n
    BY <1>0
  <2> HIDE DEF Good
  <2>4. Good(g[0], 0)
    BY <2>1, <2>2
  <2> QED  BY <2>3, <2>4
<1>3. ASSUME NEW i \in P, i < n PROVE i + 1 \in P
  <2>1. i \in 0..n /\ i + 1 \in 1..n /\ i + 1 \in 0..n
    BY <1>0, <1>3
  <2>2. g[i + 1] = IF s[i + 1] = c THEN g[i] ELSE Append(g[i], s[i + 1])
    <3>1. g[i + 1] = LeftOf(g, s, c, i + 1)
      BY ONLY <1>0, <1>1, <2>1, IsLeftAt
    <3>2. i + 1 # 0 /\ (i + 1) - 1 = i
      BY <2>1
    <3> QED  BY ONLY <3>1, <3>2 DEF LeftOf
  <2> DEFINE q == g[i]
             e == s[i + 1]
  <2>3. /\ q \in Seq(S \ {c}) /\ Len(q) \in Nat
        /\ \A j \in 1..Len(q) : \E k \in 1..i : q[j] = s[k]
    OBVIOUS
  <2>4. e \in S
    BY <2>1
  <2> HIDE DEF q, e
  <2>5. Good(q, i + 1)
    <3>1. \A k \in 1..i : k \in 1..i + 1 /\ k \in 1..(i + 1) - 1
      BY <2>1
    <3>2. \A j \in 1..Len(q) - 1 : j \in 1..Len(q)
      BY <2>3
    <3> QED  BY <2>3, <3>1, <3>2
  <2>6. ASSUME e # c PROVE Good(Append(q, e), i + 1)
    <3>1. /\ Append(q, e) \in Seq(S \ {c}) /\ Len(Append(q, e)) = Len(q) + 1
          /\ Append(q, e)[Len(q) + 1] = e
          /\ \A j \in 1..Len(q) : Append(q, e)[j] = q[j]
      BY <2>3, <2>4, <2>6
    <3>2. \A k \in 1..i : k \in 1..i + 1 /\ k \in 1..(i + 1) - 1
      BY <2>1
    <3>3. \A j \in 1..Len(q) + 1 : j \in 1..Len(q) \/ j = Len(q) + 1
      BY <2>3
    <3>4. (Len(q) + 1) - 1 = Len(q) /\ i + 1 \in 1..i + 1
      BY <2>1, <2>3
    <3>5. \A j \in 1..Len(Append(q, e)) : \E k \in 1..i + 1 : Append(q, e)[j] = s[k]
      BY <2>3, <3>1, <3>2, <3>3, <3>4 DEF e
    <3>6. \A j \in 1..Len(Append(q, e)) - 1 : \E k \in 1..(i + 1) - 1 : Append(q, e)[j] = s[k]
      <4>1. Len(Append(q, e)) - 1 = Len(q)
        BY <3>1, <3>4
      <4>2. \A j \in 1..Len(q) : \E k \in 1..i : Append(q, e)[j] = s[k]
        BY <2>3, <3>1
      <4> QED  BY <3>2, <4>1, <4>2
    <3> QED  BY <3>1, <3>5, <3>6
  <2>7. g[i + 1] = q \/ (e # c /\ g[i + 1] = Append(q, e))
    BY <2>2 DEF q, e
  <2> HIDE DEF Good
  <2> QED  BY <2>1, <2>5, <2>6, <2>7
<1>4. P \in SUBSET (0..n)
  OBVIOUS
<1> HIDE DEF P
<1>5. n \in P
  BY <1>0, <1>2, <1>3, <1>4, Upwards
<1>6. Good(g[n], n)
  BY <1>5 DEF P
<1> QED  BY <1>1, <1>6

-----------------------------------------------------------------------------
(***************************************************************************)
(* Who has control. A wrapper is there only for a connection that is still *)
(* there, because a connection queues nothing after its Closed; every one  *)
(* but the newest was asked to stop when the next one came.                *)
(***************************************************************************)
CtlEvent == [conn : Conns, what : {"Activated", "Closed"}]

Ranges ==
    /\ conn \in [Conns -> {"absent", "accepted", "active", "closed", "gone"}]
    /\ stop \in [Conns -> BOOLEAN] /\ activations \in 0..MaxActivations
    /\ events \in Seq(CtlEvent)
    /\ wrappers \in Seq(Conns)
    /\ greeterCalls \in Nat /\ lockCalls \in Seq({"Lock", "Unlock"})
    /\ watching \in BOOLEAN /\ signals \in Seq(BOOLEAN) /\ seatActive \in BOOLEAN
    /\ unlockedBy \in {"user", "client", "nobody"} /\ logins \in 0..MaxLogins
    /\ unheeded \subseteq {"greeter", "lock", "watch"}

Present(c) == conn[c] \in {"active", "closed"}

\* What is queued is of a connection that is still there, and Closed is the last of it.
EventsInv ==
    /\ \A i \in 1..Len(events) : /\ Present(events[i].conn)
                                 /\ events[i].what = "Closed" => conn[events[i].conn] = "closed"
    /\ \A i, j \in 1..Len(events) :
          i < j /\ events[i].what = "Closed" => events[j].conn # events[i].conn

WrappersInv == \A i \in 1..Len(wrappers) : Present(wrappers[i])

ControlInv == Ranges /\ EventsInv /\ WrappersInv /\ OneController

LEMMA EventConn ==
  ASSUME Ranges, NEW i \in 1..Len(events)
  PROVE  events[i].conn \in Conns
<1>1. events[i] \in CtlEvent
  BY DEF Ranges
<1> QED  BY <1>1 DEF CtlEvent

LEMMA HeadOfEvents ==
  ASSUME Ranges, NEW c \in Conns, NEW what, Signals!Take(c, what)
  PROVE  /\ Len(events) \in Nat /\ 1 \in 1..Len(events)
         /\ events[1].conn = c /\ events[1].what = what
         /\ Tail(events) \in Seq(CtlEvent) /\ Len(Tail(events)) = Len(events) - 1
         /\ \A i \in 1..Len(events) - 1 :
               Tail(events)[i] = events[i + 1] /\ i + 1 \in 1..Len(events) /\ 1 < i + 1
<1>1. events \in Seq(CtlEvent) /\ events # <<>> /\ events[1] = [conn |-> c, what |-> what]
  <2>1. events \in Seq(CtlEvent) /\ events # <<>> /\ Head(events) = [conn |-> c, what |-> what]
    BY DEF Ranges
  <2>2. Head(events) = events[1]
    BY <2>1
  <2> QED  BY <2>1, <2>2
<1>2. Len(events) \in Nat /\ 1 \in 1..Len(events)
  BY <1>1
<1>3. Tail(events) \in Seq(CtlEvent) /\ Len(Tail(events)) = Len(events) - 1
  BY <1>1
<1>4. \A i \in 1..Len(events) - 1 : Tail(events)[i] = events[i + 1]
  BY <1>1, <1>3
<1>5. \A i \in 1..Len(events) - 1 : i + 1 \in 1..Len(events) /\ 1 < i + 1
  BY <1>2
<1> QED  BY <1>1, <1>2, <1>3, <1>4, <1>5

\* What is queued behind the oldest event is as it was.
LEMMA EventsServed ==
  ASSUME Ranges, EventsInv, NEW c \in Conns, NEW what, Signals!Take(c, what),
         \A d \in Conns : conn'[d] = conn[d] \/ (d = c /\ what = "Closed")
  PROVE  EventsInv'
<1>1. /\ Len(events) \in Nat /\ 1 \in 1..Len(events)
      /\ events[1].conn = c /\ events[1].what = what
      /\ events' \in Seq(CtlEvent) /\ Len(events') = Len(events) - 1
      /\ \A i \in 1..Len(events) - 1 :
            events'[i] = events[i + 1] /\ i + 1 \in 1..Len(events) /\ 1 < i + 1
  BY HeadOfEvents
<1>2. ASSUME NEW i \in 1..Len(events')
      PROVE  /\ conn'[events'[i].conn] \in {"active", "closed"}
             /\ events'[i].what = "Closed" => conn'[events'[i].conn] = "closed"
  <2>1. events'[i] = events[i + 1] /\ i + 1 \in 1..Len(events) /\ 1 < i + 1
    BY <1>1
  <2>2. events[i + 1].conn \in Conns
    BY <2>1, EventConn
  <2>3. what = "Closed" => events[i + 1].conn # c
    BY <1>1, <2>1 DEF EventsInv
  <2>4. conn'[events'[i].conn] = conn[events[i + 1].conn]
    BY <2>1, <2>2, <2>3
  <2>5. Present(events[i + 1].conn)
        /\ (events[i + 1].what = "Closed" => conn[events[i + 1].conn] = "closed")
    BY <2>1 DEF EventsInv
  <2> QED  BY <2>1, <2>4, <2>5 DEF Present
<1>3. ASSUME NEW i \in 1..Len(events'), NEW j \in 1..Len(events'),
             i < j, events'[i].what = "Closed"
      PROVE  events'[j].conn # events'[i].conn
  <2>1. /\ events'[i] = events[i + 1] /\ i + 1 \in 1..Len(events)
        /\ events'[j] = events[j + 1] /\ j + 1 \in 1..Len(events) /\ i + 1 < j + 1
    BY <1>1, <1>3
  <2> QED  BY <1>3, <2>1 DEF EventsInv
<1> QED  BY <1>2, <1>3 DEF EventsInv, Present

\* Nor does a connection that goes on queue anything behind its Closed.
LEMMA EventsPosted ==
  ASSUME Ranges, EventsInv, NEW c \in Conns, NEW what \in {"Activated", "Closed"},
         conn[c] \in {"accepted", "active"},
         conn' = [conn EXCEPT ![c] = IF what = "Closed" THEN "closed" ELSE "active"],
         events' = Append(events, [conn |-> c, what |-> what])
  PROVE  EventsInv' /\ events' \in Seq(CtlEvent)
<1> DEFINE e == [conn |-> c, what |-> what]
           n == Len(events)
<1>1. e \in CtlEvent /\ events \in Seq(CtlEvent) /\ n \in Nat
  BY DEF CtlEvent, Ranges
<1>2. /\ events' \in Seq(CtlEvent) /\ Len(events') = n + 1 /\ events'[n + 1] = e
      /\ \A i \in 1..n : events'[i] = events[i]
  BY <1>1
<1>3. /\ conn'[c] = (IF what = "Closed" THEN "closed" ELSE "active")
      /\ \A d \in Conns : d # c => conn'[d] = conn[d]
  BY DEF Ranges
<1>4. \A i \in 1..n : events[i].conn \in Conns
  BY EventConn
<1>5. \A i \in 1..n : events[i].what = "Closed" => events[i].conn # c
  BY DEF EventsInv
<1>6. \A i \in 1..n + 1 : i \in 1..n \/ i = n + 1
  BY <1>1
<1> HIDE DEF e, n
<1>7. ASSUME NEW i \in 1..n + 1
      PROVE  /\ conn'[events'[i].conn] \in {"active", "closed"}
             /\ events'[i].what = "Closed" => conn'[events'[i].conn] = "closed"
  <2>1. CASE i = n + 1
    BY <1>2, <1>3, <2>1 DEF e, Present
  <2>2. CASE i \in 1..n
    <3>1. events'[i] = events[i] /\ events[i].conn \in Conns
      BY <1>2, <1>4, <2>2
    <3>2. Present(events[i].conn) /\ (events[i].what = "Closed" => conn[events[i].conn] = "closed")
      BY <2>2 DEF EventsInv, n
    <3>3. CASE events[i].conn = c
      BY <1>3, <1>5, <2>2, <3>1, <3>3 DEF Present
    <3>4. CASE events[i].conn # c
      BY <1>3, <3>1, <3>2, <3>4 DEF Present
    <3> QED  BY <3>3, <3>4
  <2> QED  BY <1>6, <2>1, <2>2
<1>8. ASSUME NEW i \in 1..n + 1, NEW j \in 1..n + 1, i < j, events'[i].what = "Closed"
      PROVE  events'[j].conn # events'[i].conn
  <2>1. i \in 1..n
    BY <1>1, <1>8
  <2>2. events'[i] = events[i] /\ events[i].what = "Closed"
    BY <1>2, <1>8, <2>1
  <2>3. CASE j = n + 1
    BY <1>2, <1>5, <2>1, <2>2, <2>3 DEF e
  <2>4. CASE j \in 1..n
    BY <1>2, <1>8, <2>1, <2>2, <2>4 DEF EventsInv, n
  <2> QED  BY <1>6, <2>3, <2>4
<1> QED  BY <1>2, <1>7, <1>8 DEF EventsInv, Present

LEMMA RangesStep ==
  ASSUME Ranges, EventsInv, [Next]_vars
  PROVE  Ranges'
<1> USE DEF Ranges
<1>1. ASSUME NEW c \in Conns, Connect(c) \/ OnSessionError(c)
      PROVE  Ranges'
  BY <1>1 DEF Connect, OnSessionError, CloseAll, busVars, seatVars
<1>2. ASSUME NEW c \in Conns, Activate(c)
      PROVE  Ranges'
  <2>1. events' \in Seq(CtlEvent)
    BY <1>2 DEF Activate, CtlEvent
  <2>2. activations' \in 0..MaxActivations
    BY <1>2, LimitAssumption DEF Activate
  <2> QED  BY <1>2, <2>1, <2>2 DEF Activate, busVars, seatVars
<1>3. ASSUME NEW c \in Conns, EndRun(c)
      PROVE  Ranges'
  <2>1. events' \in Seq(CtlEvent)
    BY <1>3 DEF EndRun, CtlEvent
  <2> QED  BY <1>3, <2>1 DEF EndRun, busVars, seatVars
<1>4. ASSUME NEW c \in Conns, OnActivated(c)
      PROVE  Ranges'
  <2>1. events' \in Seq(CtlEvent)
    BY <1>4, HeadOfEvents DEF OnActivated
  <2>2. wrappers' \in Seq(Conns)
    BY <1>4 DEF OnActivated
  <2>3. stop' \in [Conns -> BOOLEAN] /\ greeterCalls' \in Nat
    <3>1. CASE OperatingMode = "RemoteAccess" /\ ~MonitorOverride
      <4>1. /\ greeterCalls' = greeterCalls + 1
            /\ stop' = [d \in Conns |-> stop[d] \/ (d \in Range(wrappers) /\ conn[d] # "closed")]
        BY <1>4, <3>1 DEF OnActivated, TakeOver, CloseAll
      <4>2. stop' \in [Conns -> BOOLEAN]
        BY <4>1, Zenon
      <4> QED  BY <4>1, <4>2
    <3>2. CASE ~(OperatingMode = "RemoteAccess" /\ ~MonitorOverride)
      <4>1. UNCHANGED <<stop, greeterCalls>>
        BY <1>4, <3>2 DEF OnActivated, busVars
      <4> QED  BY <4>1
    <3> QED  BY <3>1, <3>2
  <2>4. lockCalls' = lockCalls \/ lockCalls' = Append(lockCalls, "Unlock")
    BY <1>4 DEF OnActivated, TakeOver, busVars
  <2>5. lockCalls' \in Seq({"Lock", "Unlock"})
    <3>1. lockCalls \in Seq({"Lock", "Unlock"}) /\ "Unlock" \in {"Lock", "Unlock"}
      OBVIOUS
    <3> QED  BY ONLY <2>4, <3>1, CallsAppended
  <2> QED  BY <1>4, <2>1, <2>2, <2>3, <2>5 DEF OnActivated, seatVars
<1>5. ASSUME NEW c \in Conns, OnClosed(c)
      PROVE  Ranges'
  <2>1. events' \in Seq(CtlEvent)
    BY <1>5, HeadOfEvents DEF OnClosed
  <2>2. Without(wrappers, c) \in Seq(Conns \ {c})
    BY WithoutProperties
  <2>3. wrappers' \in Seq(Conns)
    <3>1. \A s \in Seq(Conns \ {c}) : s \in Seq(Conns)
      OBVIOUS
    <3> QED  BY <1>5, <2>2, <3>1 DEF OnClosed
  <2>4. lockCalls' \in Seq({"Lock", "Unlock"})
    <3>1. lockCalls' = lockCalls \/ lockCalls' = Append(lockCalls, "Lock")
      BY <1>5 DEF OnClosed
    <3>2. lockCalls \in Seq({"Lock", "Unlock"}) /\ "Lock" \in {"Lock", "Unlock"}
      OBVIOUS
    <3> QED  BY ONLY <3>1, <3>2, CallsAppended
  <2>5. conn' \in [Conns -> {"absent", "accepted", "active", "closed", "gone"}]
    BY <1>5 DEF OnClosed
  <2> QED  BY <1>5, <2>1, <2>3, <2>4, <2>5 DEF OnClosed, seatVars
<1>6. CASE OnSessionPropertiesChanged
  <2>1. signals' \in Seq(BOOLEAN)
    <3>1. signals' = Tail(signals) /\ signals # <<>> /\ signals \in Seq(BOOLEAN)
      BY <1>6 DEF OnSessionPropertiesChanged
    <3> QED  BY ONLY <3>1, LastOfTail
  <2>2. stop' \in [Conns -> BOOLEAN]
    BY <1>6 DEF OnSessionPropertiesChanged, CloseAll
  <2> QED  BY <1>6, <2>1, <2>2 DEF OnSessionPropertiesChanged, busVars
<1>7. ASSUME NEW b \in BOOLEAN, SetActive(b)
      PROVE  signals' \in Seq(BOOLEAN) /\ seatActive' \in BOOLEAN
  <2>1. (signals' = signals \/ signals' = Append(signals, b)) /\ seatActive' = b
    BY <1>7 DEF SetActive
  <2>2. signals \in Seq(BOOLEAN) /\ b \in BOOLEAN
    OBVIOUS
  <2>3. Append(signals, b) \in Seq(BOOLEAN)
    BY ONLY <2>2, LastOfAppend
  <2> QED  BY <2>1, <2>2, <2>3
<1>8. CASE ServeGreeter
  <2>1. greeterCalls' \in Nat
    BY <1>8 DEF ServeGreeter
  <2> QED  BY <1>7, <1>8, <2>1 DEF ServeGreeter, connVars
<1>9. CASE ServeLock
  <2>1. lockCalls' \in Seq({"Lock", "Unlock"})
    BY <1>9 DEF ServeLock
  <2> QED  BY <1>9, <2>1 DEF ServeLock, connVars
<1>10. CASE LogIn
  <2>1. logins' \in 0..MaxLogins
    BY <1>10, LimitAssumption DEF LogIn
  <2> QED  BY <1>7, <1>10, <2>1 DEF LogIn, connVars, busVars
<1>11. CASE UNCHANGED vars
  BY <1>11 DEF vars, connVars, busVars, seatVars
<1>12. CASE WatchSessionActive
  BY <1>12 DEF WatchSessionActive, connVars, busVars
<1> QED
  BY <1>1, <1>2, <1>3, <1>4, <1>5, <1>6, <1>8, <1>9, <1>10, <1>11, <1>12 DEF Next, Controller

\* A step that is of no connection and takes nothing from the queue.
LEMMA PresentKept ==
  ASSUME UNCHANGED <<conn, events, wrappers>>
  PROVE  (EventsInv => EventsInv') /\ (WrappersInv => WrappersInv')
  BY DEF EventsInv, WrappersInv, Present

LEMMA WrappersStep ==
  ASSUME Ranges, EventsInv, WrappersInv, [Next]_vars
  PROVE  EventsInv' /\ WrappersInv'
<1>0. wrappers \in Seq(Conns) /\ \A i \in 1..Len(wrappers) : wrappers[i] \in Conns
  BY DEF Ranges
<1>1. ASSUME NEW c \in Conns, Connect(c)
      PROVE  EventsInv' /\ WrappersInv'
  <2>1. \A d \in Conns : Present(d) => d # c /\ conn'[d] = conn[d]
    BY <1>1 DEF Connect, Present, Ranges
  <2>2. EventsInv'
    BY <1>1, <2>1, EventConn DEF Connect, EventsInv, Present
  <2> QED  BY <1>0, <1>1, <2>1, <2>2 DEF Connect, WrappersInv, Present
<1>2. ASSUME NEW c \in Conns, Activate(c)
      PROVE  EventsInv' /\ WrappersInv'
  <2>1. conn' = [conn EXCEPT ![c] = IF "Activated" = "Closed" THEN "closed" ELSE "active"]
    BY <1>2 DEF Activate
  <2>2. EventsInv'
    BY <1>2, <2>1, EventsPosted DEF Activate
  <2>3. \A d \in Conns : Present(d) => conn'[d] \in {"active", "closed"}
    BY <1>2 DEF Activate, Present, Ranges
  <2> QED  BY <1>0, <1>2, <2>2, <2>3 DEF Activate, WrappersInv, Present
<1>3. ASSUME NEW c \in Conns, EndRun(c)
      PROVE  EventsInv' /\ WrappersInv'
  <2>1. conn' = [conn EXCEPT ![c] = IF "Closed" = "Closed" THEN "closed" ELSE "active"]
    BY <1>3 DEF EndRun
  <2>2. EventsInv'
    BY <1>3, <2>1, EventsPosted DEF EndRun
  <2>3. \A d \in Conns : Present(d) => conn'[d] \in {"active", "closed"}
    BY <1>3 DEF EndRun, Present, Ranges
  <2> QED  BY <1>0, <1>3, <2>2, <2>3 DEF EndRun, WrappersInv, Present
<1>4. ASSUME NEW c \in Conns, OnActivated(c)
      PROVE  EventsInv' /\ WrappersInv'
  <2>1. EventsInv'
    BY <1>4, EventsServed DEF OnActivated
  <2>2. Present(c)
    BY <1>4, HeadOfEvents DEF OnActivated, EventsInv
  <2>3. wrappers' = Append(wrappers, c) /\ conn' = conn
    BY <1>4 DEF OnActivated
  <2>4. \A i \in 1..Len(wrappers') : wrappers'[i] = c \/ (i \in 1..Len(wrappers) /\ wrappers'[i] = wrappers[i])
    BY <1>0, <2>3
  <2> QED  BY <2>1, <2>2, <2>3, <2>4 DEF WrappersInv, Present
<1>5. ASSUME NEW c \in Conns, OnClosed(c)
      PROVE  EventsInv' /\ WrappersInv'
  <2>1. \A d \in Conns : conn'[d] = conn[d] \/ d = c
    BY <1>5 DEF OnClosed, Ranges
  <2>2. EventsInv'
    BY <1>5, <2>1, EventsServed DEF OnClosed
  <2>3. \A i \in 1..Len(wrappers') : wrappers'[i] # c /\ \E k \in 1..Len(wrappers) : wrappers'[i] = wrappers[k]
    <3>1. CASE HasWrapper(c)
      <4>1. wrappers' = Without(wrappers, c)
        BY <1>5, <3>1 DEF OnClosed
      <4>2. wrappers' \in Seq(Conns \ {c})
        BY <1>0, <4>1, WithoutProperties
      <4>3. \A i \in 1..Len(wrappers') : wrappers'[i] \in Conns \ {c}
        BY <4>2
      <4>4. \A i \in 1..Len(wrappers') : \E k \in 1..Len(wrappers) : wrappers'[i] = wrappers[k]
        <5>1. wrappers \in Seq(Conns)
          BY <1>0
        <5>2. /\ Without(wrappers, c) \in Seq(Conns \ {c})
              /\ \A j \in 1..Len(Without(wrappers, c)) :
                    \E k \in 1..Len(wrappers) : Without(wrappers, c)[j] = wrappers[k]
          BY ONLY <5>1, WithoutProperties
        <5> QED  BY ONLY <4>1, <5>2
      <4> QED  BY <4>3, <4>4
    <3>2. CASE ~HasWrapper(c)
      <4>1. wrappers' = wrappers /\ \A i \in 1..Len(wrappers) : wrappers[i] # c
        BY <1>0, <1>5, <3>2 DEF OnClosed, HasWrapper, Range
      <4> QED  BY <4>1
    <3> QED  BY <3>1, <3>2
  <2>4. ASSUME NEW i \in 1..Len(wrappers')
        PROVE  conn'[wrappers'[i]] \in {"active", "closed"}
    <3>1. PICK k \in 1..Len(wrappers) : wrappers'[i] = wrappers[k]
      BY <2>3
    <3> QED  BY <1>0, <2>1, <2>3, <3>1 DEF WrappersInv, Present
  <2> QED  BY <2>2, <2>4 DEF WrappersInv, Present
<1>6. ASSUME NEW c \in Conns, OnSessionError(c)
      PROVE  EventsInv' /\ WrappersInv'
  BY <1>6, PresentKept DEF OnSessionError
<1>7. CASE OnSessionPropertiesChanged \/ WatchSessionActive \/ ServeGreeter \/ ServeLock \/ LogIn
               \/ UNCHANGED vars
  BY <1>7, PresentKept DEF OnSessionPropertiesChanged, WatchSessionActive, ServeGreeter, ServeLock, LogIn, vars, connVars
<1> QED
  BY <1>1, <1>2, <1>3, <1>4, <1>5, <1>6, <1>7 DEF Next, Controller

\* What was asked to stop stays so, and what has ended is not taken up again.
Finished(c) == stop[c] \/ conn[c] = "closed"

LEMMA ControllerStep ==
  ASSUME Ranges, EventsInv, WrappersInv, OneController, [Next]_vars
  PROVE  OneController'
<1> SUFFICES ASSUME OperatingMode = "RemoteAccess", ~MonitorOverride
             PROVE  \A i \in 1..Len(wrappers') - 1 : stop'[wrappers'[i]] \/ conn'[wrappers'[i]] = "closed"
  BY DEF OneController
<1>0. /\ wrappers \in Seq(Conns) /\ Len(wrappers) \in Nat /\ stop \in [Conns -> BOOLEAN]
      /\ \A i \in 1..Len(wrappers) : wrappers[i] \in Conns
      /\ \A i \in 1..Len(wrappers) - 1 : Finished(wrappers[i]) /\ wrappers[i] \in Conns
  BY DEF Ranges, OneController, Finished
<1>1. ASSUME UNCHANGED wrappers, \A d \in Conns : Finished(d) => Finished(d)'
      PROVE  \A i \in 1..Len(wrappers') - 1 : stop'[wrappers'[i]] \/ conn'[wrappers'[i]] = "closed"
  BY <1>0, <1>1 DEF Finished
<1>2. ASSUME NEW c \in Conns, Connect(c) \/ Activate(c) \/ EndRun(c)
      PROVE  UNCHANGED wrappers /\ \A d \in Conns : Finished(d) => Finished(d)'
  BY <1>2 DEF Connect, Activate, EndRun, Finished, Ranges
<1>3. ASSUME (\E c \in Conns : OnSessionError(c)) \/ OnSessionPropertiesChanged
      PROVE  UNCHANGED wrappers /\ \A d \in Conns : Finished(d) => Finished(d)'
  BY <1>3 DEF OnSessionError, OnSessionPropertiesChanged, CloseAll, Finished
<1>4. ASSUME WatchSessionActive \/ ServeGreeter \/ ServeLock \/ LogIn \/ UNCHANGED vars
      PROVE  UNCHANGED wrappers /\ \A d \in Conns : Finished(d) => Finished(d)'
  BY <1>4 DEF WatchSessionActive, ServeGreeter, ServeLock, LogIn, vars, connVars, Finished
<1>5. ASSUME NEW c \in Conns, OnActivated(c)
      PROVE  \A i \in 1..Len(wrappers') - 1 : stop'[wrappers'[i]] \/ conn'[wrappers'[i]] = "closed"
  <2>1. /\ wrappers' = Append(wrappers, c) /\ conn' = conn
        /\ stop' = [d \in Conns |-> stop[d] \/ (d \in Range(wrappers) /\ conn[d] # "closed")]
    BY <1>5 DEF OnActivated, TakeOver, CloseAll
  <2>2. \A i \in 1..Len(wrappers') - 1 : i \in 1..Len(wrappers) /\ wrappers'[i] = wrappers[i]
    BY <1>0, <2>1
  <2>3. \A i \in 1..Len(wrappers) : wrappers[i] \in Range(wrappers)
    BY <1>0 DEF Range
  <2> QED  BY <1>0, <2>1, <2>2, <2>3
<1>6. ASSUME NEW c \in Conns, OnClosed(c)
      PROVE  \A i \in 1..Len(wrappers') - 1 : stop'[wrappers'[i]] \/ conn'[wrappers'[i]] = "closed"
  <2>1. stop' = stop /\ \A d \in Conns : conn'[d] = conn[d] \/ d = c
    BY <1>6 DEF OnClosed, Ranges
  <2>2. CASE HasWrapper(c)
    <3>1. wrappers' = Without(wrappers, c)
      BY <1>6, <2>2 DEF OnClosed
    <3>2. /\ wrappers' \in Seq(Conns \ {c})
          /\ \A j \in 1..Len(wrappers') - 1 : \E i \in 1..Len(wrappers) - 1 : wrappers'[j] = wrappers[i]
      BY ONLY <1>0, <3>1, WithoutProperties
    <3>3. \A j \in 1..Len(wrappers') - 1 : wrappers'[j] # c
      BY <3>2
    <3> QED  BY <1>0, <2>1, <3>2, <3>3 DEF Finished
  <2>3. CASE ~HasWrapper(c)
    <3>1. wrappers' = wrappers /\ \A i \in 1..Len(wrappers) - 1 : wrappers[i] # c
      BY <1>0, <1>6, <2>3 DEF OnClosed, HasWrapper, Range
    <3> QED  BY <1>0, <2>1, <3>1 DEF Finished
  <2> QED  BY <2>2, <2>3
<1> QED
  BY <1>1, <1>2, <1>3, <1>4, <1>5, <1>6 DEF Next, Controller

LEMMA ControlInvHolds == Spec => []ControlInv
<1>1. Init => ControlInv
  <2> SUFFICES ASSUME Init PROVE ControlInv
    OBVIOUS
  <2>1. Ranges
    <3>1. /\ conn \in [Conns -> {"absent", "accepted", "active", "closed", "gone"}]
          /\ stop \in [Conns -> BOOLEAN] /\ events \in Seq(CtlEvent) /\ wrappers \in Seq(Conns)
      BY DEF Init
    <3>2. /\ activations \in 0..MaxActivations /\ logins \in 0..MaxLogins
          /\ greeterCalls \in Nat /\ lockCalls \in Seq({"Lock", "Unlock"})
      BY LimitAssumption DEF Init
    <3>3. signals \in Seq(BOOLEAN)
      BY DEF Init
    <3>4. /\ watching \in BOOLEAN /\ seatActive \in BOOLEAN
          /\ unlockedBy \in {"user", "client", "nobody"}
          /\ unheeded \subseteq {"greeter", "lock", "watch"}
      BY DEF Init
    <3> QED  BY <3>1, <3>2, <3>3, <3>4 DEF Ranges
  <2>2. Len(events) = 0 /\ Len(wrappers) = 0
    BY DEF Init
  <2> QED  BY <2>1, <2>2 DEF ControlInv, EventsInv, WrappersInv, OneController
<1>2. ControlInv /\ [Next]_vars => ControlInv'
  BY RangesStep, WrappersStep, ControllerStep DEF ControlInv
<1> QED  BY <1>1, <1>2, PTL DEF Spec

\* Every variable stays in its range, and every wrapper is of a connection that is not
\* destroyed: the controller never holds on to a connection that is gone, in whatever
\* order clients activate, activate again and end (onNewConnection).
THEOREM WrappersAreOfConnections == Spec => []TypeOK
<1>1. ControlInv => TypeOK
  <2> SUFFICES ASSUME ControlInv PROVE TypeOK
    OBVIOUS
  <2>1. wrappers \in Seq(Conns) /\ \A i \in 1..Len(wrappers) : wrappers[i] \in {c \in Conns : Present(c)}
    BY DEF ControlInv, Ranges, WrappersInv
  <2>2. wrappers \in Seq({c \in Conns : Present(c)})
    BY <2>1
  <2> QED  BY <2>2 DEF ControlInv, Ranges, TypeOK, Present, CtlEvent
<1> QED  BY <1>1, ControlInvHolds, PTL

\* Whatever the number of clients, one has control: the others that still have a
\* session were asked to stop, or have ended.
THEOREM OneControllerCorrect == Spec => []OneController
<1>1. ControlInv => OneController
  BY DEF ControlInv
<1> QED  BY <1>1, ControlInvHolds, PTL

\* No client is closed by the take-over that gives it its session.
THEOREM NewcomerCorrect == Spec => NewcomerStays
<1> DEFINE Stays == \A c \in Conns : ~HasWrapper(c) /\ HasWrapper(c)' => stop'[c] = stop[c]
<1>1. ControlInv /\ [Next]_vars => [Stays]_vars
  <2> SUFFICES ASSUME ControlInv, Next, NEW c \in Conns, ~HasWrapper(c), HasWrapper(c)'
               PROVE  stop'[c] = stop[c]
    BY Zenon
  <2>0. wrappers \in Seq(Conns) /\ stop \in [Conns -> BOOLEAN] /\ wrappers' # wrappers
    BY DEF ControlInv, Ranges, HasWrapper
  <2>1. ASSUME NEW d \in Conns, OnActivated(d)
        PROVE  stop'[c] = stop[c]
    BY <2>0, <2>1 DEF OnActivated, TakeOver, CloseAll, HasWrapper
  <2>2. ASSUME NEW d \in Conns, OnClosed(d)
        PROVE  stop'[c] = stop[c]
    BY <2>2 DEF OnClosed
  <2>3. \/ \E d \in Conns : OnActivated(d) \/ OnClosed(d)
        \/ wrappers' = wrappers
    BY DEF Next, Controller, Connect, Activate, EndRun, OnSessionError, OnSessionPropertiesChanged,
           WatchSessionActive, ServeGreeter, ServeLock, LogIn
  <2> QED  BY <2>0, <2>1, <2>2, <2>3
<1> QED  BY <1>1, ControlInvHolds, PTL DEF Spec, NewcomerStays

-----------------------------------------------------------------------------
\* The controller sees of the connections nothing but what ConnectionSignals says and
\* RdpConnection implements: no step of its own, of the bus or of the seat is at odds with it.
THEOREM OnlySignalsAreSeen == Spec => Signals!Spec
<1>1. Init => Signals!Init
  BY DEF Init, Signals!Init
<1>2. [Next]_vars => [Signals!Next]_(Signals!signalVars)
  <2>1. ASSUME NEW c \in Conns, Connect(c) \/ Activate(c) \/ EndRun(c) \/ OnActivated(c) \/ OnClosed(c)
        PROVE  Signals!Next
    BY <2>1 DEF Connect, Activate, EndRun, OnActivated, OnClosed, Signals!Next
  <2>2. ASSUME \/ \E c \in Conns : OnSessionError(c)
               \/ OnSessionPropertiesChanged \/ WatchSessionActive \/ ServeGreeter \/ ServeLock \/ LogIn
               \/ UNCHANGED vars
        PROVE  UNCHANGED Signals!signalVars
    BY <2>2 DEF OnSessionError, OnSessionPropertiesChanged, WatchSessionActive, ServeGreeter, ServeLock, LogIn,
                connVars, vars, Signals!signalVars
  <2> QED  BY <2>1, <2>2 DEF Next, Controller
<1> QED  BY <1>1, <1>2, PTL DEF Spec, Signals!Spec

-----------------------------------------------------------------------------
(***************************************************************************)
(* What SeatGivenUp rests on. That the greeter is then shown, or the       *)
(* clients end, needs fairness, and is checked.                            *)
(***************************************************************************)
\* The session is at the seat while clients have wrappers: the display manager has been
\* asked for the greeter, the change is going to be noticed, every one of them was told
\* to close or has ended, or the display manager refused, or no signal told of a log-in.
SeatNoticed ==
    OperatingMode = "RemoteAccess" /\ ~MonitorOverride /\ seatActive =>
        \/ greeterCalls > 0
        \/ \E i \in 1..Len(signals) : signals[i]
        \/ \A i \in 1..Len(wrappers) : Finished(wrappers[i])
        \/ unheeded \intersect {"greeter", "watch"} # {}

\* The wrappers that are left when a connection goes were there before, and are of others.
LEMMA WrappersLeft ==
  ASSUME Ranges, NEW c \in Conns, OnClosed(c)
  PROVE  \A i \in 1..Len(wrappers') :
            \E k \in 1..Len(wrappers) : wrappers[k] \in Conns \ {c} /\ wrappers'[i] = wrappers[k]
<1>0. wrappers \in Seq(Conns) /\ \A i \in 1..Len(wrappers) : wrappers[i] \in Conns
  BY DEF Ranges
<1>1. CASE HasWrapper(c)
  <2>1. wrappers' = Without(wrappers, c)
    BY <1>1 DEF OnClosed
  <2>2. /\ wrappers' \in Seq(Conns \ {c})
        /\ \A j \in 1..Len(wrappers') : \E k \in 1..Len(wrappers) : wrappers'[j] = wrappers[k]
    BY ONLY <1>0, <2>1, WithoutProperties
  <2>3. \A i \in 1..Len(wrappers') : wrappers'[i] \in Conns \ {c}
    BY <2>2
  <2> QED  BY <2>2, <2>3
<1>2. CASE ~HasWrapper(c)
  <2>1. wrappers' = wrappers /\ \A i \in 1..Len(wrappers) : wrappers[i] # c
    BY <1>0, <1>2 DEF OnClosed, HasWrapper, Range
  <2> QED  BY <1>0, <2>1
<1> QED  BY <1>1, <1>2

LEMMA SeatStep ==
  ASSUME ControlInv, SeatNoticed, [Next]_vars
  PROVE  SeatNoticed'
<1> SUFFICES ASSUME OperatingMode = "RemoteAccess", ~MonitorOverride, seatActive'
             PROVE  \/ greeterCalls' > 0
                    \/ \E i \in 1..Len(signals') : signals'[i]
                    \/ \A i \in 1..Len(wrappers') : Finished(wrappers[i])'
                    \/ unheeded' \intersect {"greeter", "watch"} # {}
  BY DEF SeatNoticed
<1>0. /\ wrappers \in Seq(Conns) /\ \A i \in 1..Len(wrappers) : wrappers[i] \in Conns
      /\ signals \in Seq(BOOLEAN) /\ greeterCalls \in Nat /\ Ranges
  BY DEF ControlInv, Ranges
<1>1. ASSUME UNCHANGED <<wrappers, greeterCalls, signals, seatActive>>,
             unheeded' \intersect {"greeter", "watch"} = unheeded \intersect {"greeter", "watch"},
             \A d \in Conns : Finished(d) => Finished(d)'
      PROVE  SeatNoticed'
  BY <1>0, <1>1 DEF SeatNoticed, Finished
<1>2. ASSUME NEW c \in Conns, Connect(c) \/ Activate(c) \/ EndRun(c)
      PROVE  SeatNoticed'
  BY <1>0, <1>1, <1>2 DEF Connect, Activate, EndRun, Finished, Ranges, busVars, seatVars
<1>3. ASSUME NEW c \in Conns, OnSessionError(c)
      PROVE  SeatNoticed'
  BY <1>1, <1>3 DEF OnSessionError, CloseAll, Finished, busVars, seatVars
<1>4. ASSUME WatchSessionActive \/ ServeLock \/ UNCHANGED vars
      PROVE  SeatNoticed'
  BY <1>1, <1>4 DEF WatchSessionActive, ServeLock, vars, connVars, busVars, seatVars, Finished
<1>5. ASSUME NEW c \in Conns, OnActivated(c)
      PROVE  greeterCalls' > 0
  BY <1>0, <1>5 DEF OnActivated, TakeOver
<1>6. ASSUME NEW c \in Conns, OnClosed(c)
      PROVE  SeatNoticed'
  <2>1. /\ stop' = stop /\ UNCHANGED <<greeterCalls, signals, seatActive, unheeded>>
        /\ \A d \in Conns \ {c} : conn'[d] = conn[d]
    BY <1>0, <1>6 DEF OnClosed, Ranges, seatVars
  <2>2. ASSUME NEW i \in 1..Len(wrappers'), \A k \in 1..Len(wrappers) : Finished(wrappers[k])
        PROVE  Finished(wrappers[i])'
    <3>1. PICK k \in 1..Len(wrappers) : wrappers[k] \in Conns \ {c} /\ wrappers'[i] = wrappers[k]
      BY <1>0, <1>6, WrappersLeft
    <3> QED  BY <2>1, <2>2, <3>1 DEF Finished
  <2> QED  BY <2>1, <2>2 DEF SeatNoticed
<1>7. CASE OnSessionPropertiesChanged
  <2>1. /\ signals # <<>> /\ signals' = Tail(signals) /\ UNCHANGED <<conn, wrappers, greeterCalls, seatActive, unheeded>>
    BY <1>7 DEF OnSessionPropertiesChanged, busVars
  <2>2. CASE Head(signals)
    <3>1. stop' = [d \in Conns |-> stop[d] \/ (d \in Range(wrappers) /\ conn[d] # "closed")]
      BY <1>7, <2>2 DEF OnSessionPropertiesChanged, CloseAll
    <3>2. \A i \in 1..Len(wrappers) : wrappers[i] \in Range(wrappers)
      BY <1>0 DEF Range
    <3> QED  BY <1>0, <2>1, <3>1, <3>2 DEF Finished
  <2>3. CASE ~Head(signals)
    <3>1. stop' = stop
      BY <1>7, <2>3 DEF OnSessionPropertiesChanged
    <3>2. ASSUME NEW i \in 1..Len(signals), signals[i]
          PROVE  \E j \in 1..Len(signals') : signals'[j]
      <4>0. Head(signals) = signals[1] /\ Len(signals) \in Nat
        BY <1>0, <2>1
      <4>1. i # 1 /\ Len(signals) \in Nat
        BY <2>3, <3>2, <4>0
      <4>2. i - 1 \in 1..Len(Tail(signals)) /\ Tail(signals)[i - 1] = signals[i]
        BY <1>0, <2>1, <4>1
      <4> QED  BY <2>1, <3>2, <4>2
    <3> QED  BY <2>1, <3>1, <3>2 DEF SeatNoticed, Finished
  <2> QED  BY <2>2, <2>3
<1>8. CASE ServeGreeter
  BY <1>8 DEF ServeGreeter, SetActive
<1>9. CASE LogIn /\ watching
  <2>1. signals' = Append(signals, TRUE)
    BY <1>9 DEF LogIn, SetActive
  <2>2. Len(signals') \in 1..Len(signals') /\ signals'[Len(signals')] = TRUE
    BY <1>0, <2>1
  <2> QED  BY <2>2
<1>10. CASE LogIn /\ ~watching
  BY <1>10 DEF LogIn
<1> QED
  BY <1>2, <1>3, <1>4, <1>5, <1>6, <1>7, <1>8, <1>9, <1>10 DEF Next, Controller, SeatNoticed

\* The desktop is not left at the seat unseen under clients that have control, however
\* take-overs, log-ins and signals that are late come in between: there is always something
\* under way that ends it, the reason why SeatGivenUp holds.
THEOREM SeatAlwaysNoticed == Spec => []SeatNoticed
<1>1. Init => SeatNoticed
  BY DEF Init, SeatNoticed
<1>2. ControlInv /\ SeatNoticed /\ [Next]_vars => SeatNoticed'
  BY SeatStep
<1> QED  BY <1>1, <1>2, ControlInvHolds, PTL DEF Spec
=============================================================================
