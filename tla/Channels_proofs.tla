---------------------------- MODULE Channels_proofs ----------------------------
(***************************************************************************)
(* Proofs about the channels of a connection: the pointer's, the           *)
(* clipboard's, and the devices of the input server.                       *)
(***************************************************************************)
EXTENDS Cursor, Clipboard, InputDevices, SequenceTheorems, FiniteSetTheorems, TLAPS

-----------------------------------------------------------------------------
(***************************************************************************)
(* The pointer, for every set of cursors and every cache size: the caches  *)
(* agree, and the client shows what it was to show. Which entry an         *)
(* eviction chooses plays no part in it.                                   *)
(***************************************************************************)
\* The inductive invariant. lastCursor refers to an entry exactly while an image is
\* shown, which is why an update that changes nothing may be skipped.
CursorInv ==
    /\ used \subseteq Indices
    /\ cache \in [Indices -> Cursors \union {Nothing}]
    /\ clientCache \in [Indices -> Cursors \union {Nothing}]
    /\ cursorType \in {"SystemDefault", "Image"}
    /\ cursorType = "SystemDefault" => lastCursor = -1
    /\ cursorType = "Image" => lastCursor \in used
    /\ CachesAgree
    /\ ShownIsCurrent

LEMMA CursorInvInit == Init => CursorInv
  BY DEF Init, CursorInv, CachesAgree, ShownIsCurrent, Indices

LEMMA IndicesAreNat == Indices \subseteq Nat /\ -1 \notin Indices
  BY CacheAssumption DEF Indices

LEMMA CursorInvDefault ==
  ASSUME CursorInv, NEW c \in Cursors, UseDefault(c)
  PROVE  CursorInv'
<1>1. CASE cursorType = "Image"
  BY <1>1 DEF CursorInv, UseDefault, CachesAgree, ShownIsCurrent
<1>2. CASE cursorType # "Image"
  BY <1>2 DEF CursorInv, UseDefault, CachesAgree, ShownIsCurrent
<1> QED  BY <1>1, <1>2

\* The cursor in use cannot be asked for while the default pointer is shown.
LEMMA KeptIsShown ==
  ASSUME CursorInv, NEW c \in Cursors, KeepCursor(c)
  PROVE  cursorType = "Image" /\ lastCursor \in used /\ shown = c
  BY DEF CursorInv, KeepCursor, ShownIsCurrent

LEMMA CursorInvKeep ==
  ASSUME CursorInv, NEW c \in Cursors, KeepCursor(c)
  PROVE  CursorInv'
  BY KeptIsShown DEF CursorInv, KeepCursor, CachesAgree, ShownIsCurrent

LEMMA CursorInvRecall ==
  ASSUME CursorInv, NEW c \in Cursors, RecallCursor(c)
  PROVE  CursorInv' /\ shown' = c
<1>1. PICK i \in used : /\ cache[i] = c /\ lastCursor' = i /\ shown' = clientCache[i]
                        /\ clientCache' = clientCache
  BY DEF RecallCursor, ClientRecalls
<1>2. /\ used' = used /\ cache' = cache /\ cursorType' = "Image"
  BY DEF RecallCursor
<1>3. i \in Indices /\ clientCache[i] = cache[i]
  BY <1>1 DEF CursorInv, CachesAgree
<1> QED  BY <1>1, <1>2, <1>3 DEF CursorInv, CachesAgree, ShownIsCurrent

LEMMA CursorInvStore ==
  ASSUME CursorInv, NEW c \in Cursors, StoreCursor(c)
  PROVE  CursorInv' /\ shown' = c
<1>1. PICK i \in Indices :
        /\ used' = used \union {i} /\ cache' = [cache EXCEPT ![i] = c] /\ lastCursor' = i
        /\ clientCache' = [clientCache EXCEPT ![i] = c] /\ shown' = c
  BY DEF StoreCursor, ClientStores
<1>2. cursorType' = "Image"
  BY DEF StoreCursor
<1>3. /\ cache' \in [Indices -> Cursors \union {Nothing}]
      /\ clientCache' \in [Indices -> Cursors \union {Nothing}]
  BY <1>1 DEF CursorInv
<1>4. cache'[i] = c
  BY <1>1 DEF CursorInv
<1>5. CachesAgree'
  BY <1>1 DEF CursorInv, CachesAgree
<1> QED  BY <1>1, <1>2, <1>3, <1>4, <1>5 DEF CursorInv, ShownIsCurrent

LEMMA CursorInvNext == CursorInv /\ [Next]_vars => CursorInv'
<1> SUFFICES ASSUME CursorInv, [Next]_vars PROVE CursorInv'
  OBVIOUS
<1>1. ASSUME SetStreaming \/ UNCHANGED vars PROVE CursorInv'
  BY <1>1 DEF SetStreaming, vars, CursorInv, CachesAgree, ShownIsCurrent
<1> QED  BY <1>1, CursorInvDefault, CursorInvKeep, CursorInvRecall, CursorInvStore DEF Next, Update

LEMMA CursorInvHolds == Spec => []CursorInv
  BY CursorInvInit, CursorInvNext, PTL DEF Spec

\* The server and the client agree on what each index stands for.
THEOREM CachesAgreeCorrect == Spec => []CachesAgree
<1>1. CursorInv => CachesAgree
  BY DEF CursorInv
<1> QED  BY <1>1, CursorInvHolds, PTL

\* What the server takes for shown is shown.
THEOREM ShownCorrect == Spec => []ShownIsCurrent
<1>1. CursorInv => ShownIsCurrent
  BY DEF CursorInv
<1> QED  BY <1>1, CursorInvHolds, PTL

LEMMA StepShows ==
  ASSUME CursorInv, [Next]_vars
  PROVE  [P!Next]_<<reported, shown>>
<1>1. ASSUME NEW c \in Cursors, UseDefault(c) PROVE P!Show(c)
  <2>1. reported' = c /\ c \in Large
    BY <1>1 DEF UseDefault, Accepted
  <2>2. shown' = Default
    BY <1>1 DEF UseDefault, CursorInv, ShownIsCurrent
  <2> QED  BY <2>1, <2>2 DEF P!Show, P!Default, Default
<1>2. ASSUME NEW c \in Cursors, KeepCursor(c) PROVE P!Show(c)
  BY <1>2, KeptIsShown DEF KeepCursor, Accepted, P!Show
<1>3. ASSUME NEW c \in Cursors, RecallCursor(c) \/ StoreCursor(c) PROVE P!Show(c)
  <2>1. reported' = c /\ c \notin Large
    BY <1>3 DEF RecallCursor, StoreCursor, Accepted
  <2>2. shown' = c
    BY <1>3, CursorInvRecall, CursorInvStore
  <2> QED  BY <2>1, <2>2 DEF P!Show
<1>4. ASSUME SetStreaming \/ UNCHANGED vars PROVE UNCHANGED <<reported, shown>>
  BY <1>4 DEF SetStreaming, vars
<1> QED  BY <1>1, <1>2, <1>3, <1>4 DEF Next, Update, P!Next

\* Every cursor that is accepted is the one that the client shows next.
THEOREM CursorImplementsPointer == Spec => ImplementsPointer
<1>1. Init => P!Init
  BY DEF Init, P!Init, P!Default, Default
<1> QED  BY <1>1, CursorInvHolds, StepShows, PTL DEF Spec, ImplementsPointer, P!Spec

\* What an eviction rests on: the indices in use are the first ones, so that their number
\* is a free one while there is room, and the cursor that is shown was used after all
\* the others.
OrderInv ==
    /\ CursorInv
    /\ streaming \in BOOLEAN /\ clock \in Nat
    /\ reported \in Cursors \union {Default} /\ shown \in Cursors \union {Default}
    /\ \E n \in 0..PointerCacheSize : used = 0..n - 1
    /\ lastUsed \in [Indices -> Nat]
    /\ \A i \in used : lastUsed[i] <= clock
    /\ lastCursor # -1 => \A i \in used \ {lastCursor} : lastUsed[i] < lastUsed[lastCursor]

LEMMA OrderInvInit == Init => OrderInv
<1> SUFFICES ASSUME Init PROVE OrderInv
  OBVIOUS
<1>1. used = 0..0 - 1 /\ 0 \in 0..PointerCacheSize
  BY CacheAssumption DEF Init
<1> QED  BY <1>1, CursorInvInit DEF Init, OrderInv

\* The index of a new cursor: the first that is free, or one that is in use.
LEMMA VictimIndex ==
  ASSUME OrderInv, NEW i \in Indices, Victim(i)
  PROVE  /\ \E n \in 0..PointerCacheSize : used \union {i} = 0..n - 1
         /\ i \in used => i \in Oldest /\ used = Indices
<1>1. PICK n \in 0..PointerCacheSize : used = 0..n - 1
  BY DEF OrderInv
<1>2. PointerCacheSize \in Nat /\ n \in Nat
  BY CacheAssumption
<1>3. Cardinality(used) = n
  <2>1. Cardinality(0..n - 1) = IF 0 > n - 1 THEN 0 ELSE n - 1 - 0 + 1
    BY <1>2, FS_Interval
  <2> QED  BY <1>1, <1>2, <2>1
<1>4. CASE n = PointerCacheSize
  <2>1. used = Indices /\ i \in Oldest
    BY <1>1, <1>2, <1>3, <1>4 DEF Victim, Indices
  <2> QED  BY <1>1, <1>2, <2>1
<1>5. CASE n < PointerCacheSize
  <2>1. i = n
    BY <1>2, <1>3, <1>5 DEF Victim
  <2>2. used \union {i} = 0..(n + 1) - 1 /\ n + 1 \in 0..PointerCacheSize /\ i \notin used
    BY <1>1, <1>2, <1>5, <2>1
  <2> QED  BY <2>2
<1> QED  BY <1>2, <1>4, <1>5

\* The step of an update that shows index i: nothing was used later than that.
LEMMA UsedLast ==
  ASSUME OrderInv, NEW i \in Indices, clock' = clock + 1,
         lastUsed' = [lastUsed EXCEPT ![i] = clock'], lastCursor' = i, used' = used \union {i}
  PROVE  /\ clock' \in Nat /\ lastUsed' \in [Indices -> Nat]
         /\ \A j \in used' : lastUsed'[j] <= clock'
         /\ \A j \in used' \ {lastCursor'} : lastUsed'[j] < lastUsed'[lastCursor']
<1>1. /\ used \subseteq Indices /\ clock \in Nat /\ lastUsed \in [Indices -> Nat]
      /\ \A j \in used : lastUsed[j] <= clock
  BY DEF OrderInv, CursorInv
<1> QED  BY <1>1

LEMMA OrderInvUpdate ==
  ASSUME OrderInv, NEW c \in Cursors, Update(c)
  PROVE  OrderInv'
<1>1. CursorInv' /\ clock' = clock + 1 /\ streaming' \in BOOLEAN
  <2>1. Accepted(c) /\ Next
    BY DEF Update, UseDefault, KeepCursor, RecallCursor, StoreCursor, Next
  <2> QED  BY <2>1, CursorInvNext DEF Accepted, OrderInv
<1>2. clock' \in Nat
  BY <1>1 DEF OrderInv
<1>3. reported' = c
  BY DEF Update, UseDefault, KeepCursor, RecallCursor, StoreCursor, Accepted
<1>4. CASE UseDefault(c)
  <2>1. shown' \in {Default, shown} /\ lastCursor' \in {-1, lastCursor} /\ used' = used
        /\ lastUsed' = lastUsed
    BY <1>4 DEF UseDefault
  <2>2. \A i \in used : lastUsed[i] <= clock'
    BY <1>1 DEF OrderInv, CursorInv
  <2> QED  BY <1>1, <1>2, <1>3, <2>1, <2>2 DEF OrderInv
<1>5. CASE KeepCursor(c)
  <2>1. lastCursor \in used /\ shown' = shown /\ lastCursor' = lastCursor /\ used' = used
        /\ lastUsed' = [lastUsed EXCEPT ![lastCursor] = clock']
    BY <1>5, KeptIsShown DEF KeepCursor, OrderInv
  <2>2. lastCursor \in Indices /\ used' = used \union {lastCursor}
    BY <2>1 DEF OrderInv, CursorInv
  <2> QED  BY <1>1, <1>3, <2>1, <2>2, UsedLast DEF OrderInv
<1>6. CASE RecallCursor(c)
  <2>1. PICK i \in used : lastCursor' = i /\ lastUsed' = [lastUsed EXCEPT ![i] = clock']
    BY <1>6 DEF RecallCursor
  <2>2. i \in Indices /\ used' = used /\ used' = used \union {i}
    BY <1>6, <2>1 DEF RecallCursor, OrderInv, CursorInv
  <2>3. shown' = c
    BY <1>6, CursorInvRecall DEF OrderInv
  <2> QED  BY <1>1, <1>3, <2>1, <2>2, <2>3, UsedLast DEF OrderInv
<1>7. CASE StoreCursor(c)
  <2>1. PICK i \in Indices : /\ Victim(i) /\ used' = used \union {i} /\ lastCursor' = i
                             /\ lastUsed' = [lastUsed EXCEPT ![i] = clock']
    BY <1>7 DEF StoreCursor
  <2>2. shown' = c
    BY <1>7, CursorInvStore DEF OrderInv
  <2>3. \E n \in 0..PointerCacheSize : used' = 0..n - 1
    BY <2>1, VictimIndex
  <2> QED  BY <1>1, <1>3, <2>1, <2>2, <2>3, UsedLast DEF OrderInv
<1> QED  BY <1>4, <1>5, <1>6, <1>7 DEF Update

LEMMA OrderInvNext == OrderInv /\ [Next]_vars => OrderInv'
<1> SUFFICES ASSUME OrderInv, [Next]_vars PROVE OrderInv'
  OBVIOUS
<1>1. CASE SetStreaming \/ UNCHANGED vars
  <2>1. CursorInv'
    BY CursorInvNext DEF OrderInv
  <2>2. streaming' \in BOOLEAN
    BY <1>1 DEF SetStreaming, vars, OrderInv
  <2>3. UNCHANGED <<used, lastUsed, lastCursor, clock, reported, shown>>
    BY <1>1 DEF SetStreaming, vars
  <2> QED  BY <2>1, <2>2, <2>3 DEF OrderInv
<1> QED  BY <1>1, OrderInvUpdate DEF Next

LEMMA OrderInvHolds == Spec => []OrderInv
  BY OrderInvInit, OrderInvNext, PTL DEF Spec

\* Every variable of the pointer keeps its range, and the indices in use are the first.
THEOREM CursorTypeCorrect == Spec => []TypeOK
<1>1. OrderInv => TypeOK
  <2> SUFFICES ASSUME OrderInv PROVE TypeOK
    OBVIOUS
  <2>1. PICK n \in 0..PointerCacheSize : used = 0..n - 1
    BY DEF OrderInv
  <2>2. PointerCacheSize \in Nat /\ n \in Nat
    BY CacheAssumption
  <2>3. Cardinality(used) = n
    <3>1. Cardinality(0..n - 1) = IF 0 > n - 1 THEN 0 ELSE n - 1 - 0 + 1
      BY <2>2, FS_Interval
    <3> QED  BY <2>1, <2>2, <3>1
  <2>4. used = 0..Cardinality(used) - 1 /\ Cardinality(used) <= PointerCacheSize
    BY <2>1, <2>2, <2>3
  <2> QED  BY <2>4 DEF OrderInv, CursorInv, TypeOK
<1> QED  BY <1>1, OrderInvHolds, PTL

\* The cursor that was used last keeps its place in the cache, unless it is the only
\* one: it is younger than the others, of which a full cache has one.
THEOREM NewestAlwaysSurvives == Spec => NewestSurvives
<1>1. OrderInv /\ [Next]_vars
        => [\A i \in Indices : i = lastCursor /\ PointerCacheSize > 1 => cache'[i] = cache[i]]_vars
  <2> SUFFICES ASSUME OrderInv, Next, lastCursor \in Indices, PointerCacheSize > 1
               PROVE  cache'[lastCursor] = cache[lastCursor]
    OBVIOUS
  <2>1. ASSUME NEW c \in Cursors, StoreCursor(c) PROVE cache'[lastCursor] = cache[lastCursor]
    <3>1. PICK i \in Indices : Victim(i) /\ cache' = [cache EXCEPT ![i] = c]
      BY <2>1 DEF StoreCursor
    <3>2. lastCursor \in used
      BY IndicesAreNat DEF OrderInv, CursorInv
    <3>3. ASSUME i = lastCursor PROVE FALSE
      <4>1. i \in Oldest /\ used = Indices
        BY <3>1, <3>2, <3>3, VictimIndex
      <4>2. PICK j \in used \ {lastCursor} : TRUE
        BY <4>1, CacheAssumption DEF Indices
      <4>3. lastUsed[j] < lastUsed[lastCursor] /\ lastUsed[i] <= lastUsed[j]
        BY <4>1, <4>2, IndicesAreNat DEF OrderInv, Oldest
      <4>4. lastUsed[j] \in Nat /\ lastUsed[i] \in Nat
        BY <4>1, <4>2 DEF OrderInv
      <4> QED  BY <3>3, <4>3, <4>4
    <3> QED  BY <3>1, <3>3 DEF OrderInv, CursorInv
  <2>2. ASSUME SetStreaming \/ \E c \in Cursors : UseDefault(c) \/ KeepCursor(c) \/ RecallCursor(c)
        PROVE  cache' = cache
    BY <2>2 DEF SetStreaming, UseDefault, KeepCursor, RecallCursor
  <2> QED  BY <2>1, <2>2 DEF Next, Update
<1> QED  BY <1>1, OrderInvHolds, PTL DEF Spec, NewestSurvives

-----------------------------------------------------------------------------
(***************************************************************************)
(* The clipboard: a copy of the client, which krdp puts into the clipboard *)
(* of the desktop, does not come back to the client as a copy of the       *)
(* desktop. It rests on who owns the desktop's clipboard at the moment a   *)
(* change of it is looked at, and not when it was made.                    *)
(***************************************************************************)
\* An application's copy is one of the desktop, and so is what is kept for the client.
EchoInv ==
    /\ desktop.owner = "application" => desktop.copy[1] = "desktop"
    /\ desktop.owner \in {"nobody", "krdp", "application"}
    /\ serverData[1] # "client"

LEMMA DesktopKeeps ==
  ASSUME EchoInv, OnClipboardChanged \/ DesktopCopies \/ OnClientFormatDataResponse
  PROVE  EchoInv'
<1>1. CASE OnClipboardChanged
  <2>1. CASE desktop.owner \in {"krdp", "nobody"}
    BY <1>1, <2>1 DEF OnClipboardChanged, EchoInv
  <2>2. CASE desktop.owner \notin {"krdp", "nobody"}
    <3>1. desktop.copy[1] = "desktop"
      BY <2>2 DEF EchoInv
    <3>2. serverData' = desktop.copy /\ UNCHANGED desktop
      BY <1>1, <2>2 DEF OnClipboardChanged, PutServerData
    <3> QED  BY <3>1, <3>2 DEF EchoInv
  <2> QED  BY <2>1, <2>2
<1>2. CASE DesktopCopies
  <2>1. desktop' = [copy |-> <<"desktop", copied'["desktop"]>>, owner |-> "application"]
        /\ UNCHANGED serverVars
    BY <1>2 DEF DesktopCopies
  <2>2. desktop'.owner = "application" /\ desktop'.copy[1] = "desktop"
    BY <2>1
  <2> QED  BY <2>1, <2>2 DEF EchoInv, serverVars
<1>3. CASE OnClientFormatDataResponse
  <2>1. UNCHANGED desktop \/ (desktop'.owner \in {"krdp", "nobody"})
    BY <1>3 DEF OnClientFormatDataResponse, SetClipboardData
  <2>2. UNCHANGED serverVars
    BY <1>3 DEF OnClientFormatDataResponse
  <2> QED  BY <2>1, <2>2 DEF EchoInv, serverVars
<1> QED  BY <1>1, <1>2, <1>3

LEMMA OthersKeepEcho ==
  ASSUME EchoInv,
         \/ StartClipboard \/ EnableClipboard \/ CloseClipboard \/ CallMainThread
         \/ SendServerData \/ OnClientCapabilities \/ OnClientFormatList
         \/ ClientAnswers \/ ClientCopies \/ Client
  PROVE  EchoInv'
<1>1. UNCHANGED <<serverData, desktop>>
  BY DEF StartClipboard, EnableClipboard, CloseClipboard, CallMainThread, SendServerData,
         OnClientCapabilities, OnClientFormatList, ClientAnswers, ClientCopies, Client,
         ClientReceivesList, ClientReceivesRequest, serverVars
<1> QED  BY <1>1 DEF EchoInv

\* The steps of the clipboard, without what has to happen.
ClipboardSafety == ClipboardInit /\ [][ClipboardNext]_clipboardVars

LEMMA NothingEchoesHolds == ClipboardSafety => []NoEcho
<1>1. ClipboardInit => EchoInv
  BY DEF ClipboardInit, EchoInv, NoCopy
<1>2. EchoInv /\ [ClipboardNext]_clipboardVars => EchoInv'
  <2>1. ASSUME EchoInv, UNCHANGED clipboardVars PROVE EchoInv'
    BY <2>1 DEF clipboardVars, serverVars, EchoInv
  <2> QED  BY <2>1, DesktopKeeps, OthersKeepEcho DEF ClipboardNext, MainThread
<1>3. EchoInv => NoEcho
  BY DEF EchoInv, NoEcho
<1> QED  BY <1>1, <1>2, <1>3, PTL DEF ClipboardSafety

\* What a client has copied is never kept for announcing it to that client, in whatever order
\* both sides copy and the calls of the threads are handled.
THEOREM NothingEchoes == ClipboardSpec => []NoEcho
<1>1. ClipboardSpec => ClipboardSafety
  BY DEF ClipboardSpec, ClipboardSafety
<1> QED  BY <1>1, NothingEchoesHolds

-----------------------------------------------------------------------------
(***************************************************************************)
(* That the clipboards agree. Without copies that cross, a copy is made    *)
(* when nothing of the other side is under way.                            *)
(***************************************************************************)
\* What is in a sequence after Append, and before and after Tail.
LEMMA RangeAppend ==
  ASSUME NEW S, NEW s \in Seq(S), NEW x \in S
  PROVE  Append(s, x) \in Seq(S) /\ Range(Append(s, x)) = Range(s) \union {x}
<1>1. /\ Append(s, x) \in Seq(S) /\ DOMAIN Append(s, x) = 1..Len(s) + 1 /\ Len(s) \in Nat
      /\ Append(s, x)[Len(s) + 1] = x /\ \A i \in 1..Len(s) : Append(s, x)[i] = s[i]
      /\ DOMAIN s = 1..Len(s)
  BY AppendProperties, LenProperties
<1>2. ASSUME NEW y \in Range(Append(s, x)) PROVE y \in Range(s) \union {x}
  <2>1. PICK i \in 1..Len(s) + 1 : y = Append(s, x)[i]
    BY <1>1, <1>2 DEF Range
  <2>2. CASE i = Len(s) + 1
    BY <1>1, <2>1, <2>2
  <2>3. CASE i # Len(s) + 1
    <3>1. i \in 1..Len(s)
      BY <1>1, <2>3
    <3> QED  BY <1>1, <2>1, <3>1 DEF Range
  <2> QED  BY <2>2, <2>3
<1>3. ASSUME NEW y \in Range(s) PROVE y \in Range(Append(s, x))
  <2>1. PICK i \in 1..Len(s) : y = s[i]
    BY <1>1, <1>3 DEF Range
  <2>2. i \in 1..Len(s) + 1 /\ y = Append(s, x)[i]
    BY <1>1, <2>1
  <2> QED  BY <1>1, <2>2 DEF Range
<1>4. x \in Range(Append(s, x))
  <2>1. Len(s) + 1 \in 1..Len(s) + 1
    BY <1>1
  <2> QED  BY <1>1, <2>1 DEF Range
<1> QED  BY <1>1, <1>2, <1>3, <1>4

LEMMA RangeTail ==
  ASSUME NEW S, NEW s \in Seq(S), s # <<>>
  PROVE  /\ Head(s) \in S /\ Tail(s) \in Seq(S)
         /\ Range(s) = {Head(s)} \union Range(Tail(s))
<1>1. /\ Head(s) \in S /\ Head(s) = s[1] /\ Tail(s) \in Seq(S) /\ Len(Tail(s)) = Len(s) - 1
      /\ \A i \in 1..Len(Tail(s)) : Tail(s)[i] = s[i + 1]
      /\ DOMAIN s = 1..Len(s) /\ Len(s) \in Nat /\ Len(s) >= 1
      /\ DOMAIN Tail(s) = 1..Len(s) - 1
  BY HeadTailProperties, LenProperties, EmptySeq
<1>2. ASSUME NEW y \in Range(s) PROVE y \in {Head(s)} \union Range(Tail(s))
  <2>1. PICK i \in 1..Len(s) : y = s[i]
    BY <1>1, <1>2 DEF Range
  <2>2. CASE i = 1
    BY <1>1, <2>1, <2>2
  <2>3. CASE i # 1
    <3>1. i - 1 \in 1..Len(s) - 1 /\ Tail(s)[i - 1] = s[i]
      BY <1>1, <2>3
    <3> QED  BY <1>1, <2>1, <3>1 DEF Range
  <2> QED  BY <2>2, <2>3
<1>3. ASSUME NEW y \in Range(Tail(s)) PROVE y \in Range(s)
  <2>1. PICK i \in 1..Len(s) - 1 : y = Tail(s)[i]
    BY <1>1, <1>3 DEF Range
  <2>2. i + 1 \in 1..Len(s) /\ y = s[i + 1]
    BY <1>1, <2>1
  <2> QED  BY <1>1, <2>2 DEF Range
<1>4. Head(s) \in Range(s)
  <2>1. 1 \in 1..Len(s)
    BY <1>1
  <2> QED  BY <1>1, <2>1 DEF Range
<1> QED  BY <1>1, <1>2, <1>3, <1>4

LEMMA RangeEmpty == Range(<<>>) = {}
  BY DEF Range

\* What each type of message holds.
LEMMA MessageShapes ==
  ASSUME NEW m \in Messages
  PROVE  /\ m.type \in {"idle", "capabilities", "request", "list", "data"}
         /\ m.type = "list" => m.copy \in Copies
         /\ m.type = "data" => m.copy \in Copies \union {NoCopy}
         /\ m.type = "idle" => m = Idle
<1>1. CASE m \in [type : {"idle", "capabilities", "request"}]
  BY <1>1 DEF Idle
<1>2. CASE m \in [type : {"list"}, copy : Copies]
  BY <1>2
<1>3. CASE m \in [type : {"data"}, ok : BOOLEAN, copy : Copies \union {NoCopy}]
  BY <1>3
<1> QED  BY <1>1, <1>2, <1>3 DEF Messages

LEMMA MessagesMade ==
  /\ Idle \in Messages /\ [type |-> "capabilities"] \in Messages /\ [type |-> "request"] \in Messages
  /\ \A c \in Copies : [type |-> "list", copy |-> c] \in Messages
  /\ [type : {"data"}, ok : BOOLEAN, copy : Copies \union {NoCopy}] \subseteq Messages
  BY DEF Messages, Idle


-----------------------------------------------------------------------------
ClipEvents == {"changed", "send", "call"}

\* The events of the main thread stay such, whichever is taken and made.
LEMMA EventsMade ==
  ASSUME NEW s \in Seq(ClipEvents), NEW e \in ClipEvents
  PROVE  /\ Append(s, e) \in Seq(ClipEvents)
         /\ s # <<>> => Tail(s) \in Seq(ClipEvents) /\ Append(Tail(s), e) \in Seq(ClipEvents)
  BY DEF ClipEvents

LEMMA RunThreadTypes ==
  ASSUME ClipboardTypeOK, StartClipboard \/ EnableClipboard \/ CloseClipboard
  PROVE  ClipboardTypeOK'
<1>1. clipEvents' \in Seq(ClipEvents)
  <2>1. clipEvents \in Seq(ClipEvents)
    BY DEF ClipboardTypeOK, ClipEvents
  <2>2. clipEvents' = clipEvents \/ clipEvents' = Append(clipEvents, "send")
    BY DEF StartClipboard, EnableClipboard, CloseClipboard
  <2> QED  BY <2>1, <2>2, EventsMade DEF ClipEvents
<1>2. clipStep' \in {"none", "started", "open", "stopping", "closed", "failed"}
  BY DEF StartClipboard, EnableClipboard, CloseClipboard
<1>3. UNCHANGED <<clientReady, serverData, calling, channelVars, desktop, clientVars, copied, mayCross>>
  BY DEF StartClipboard, EnableClipboard, CloseClipboard
<1> QED  BY <1>1, <1>2, <1>3 DEF ClipboardTypeOK, ClipEvents, channelVars, clientVars

LEMMA CallTypes ==
  ASSUME ClipboardTypeOK, CallMainThread
  PROVE  ClipboardTypeOK'
<1>1. toServer # <<>> /\ calling' = Head(toServer) /\ toServer' = Tail(toServer)
      /\ clipEvents' = Append(clipEvents, "call")
      /\ UNCHANGED <<serverVars, toClient, desktop, clientVars, copied, mayCross>>
  BY DEF CallMainThread
<1>2. clipEvents \in Seq(ClipEvents) /\ toServer \in Seq(Messages)
  BY DEF ClipboardTypeOK, ClipEvents
<1>3. clipEvents' \in Seq(ClipEvents)
  BY <1>1, <1>2, EventsMade DEF ClipEvents
<1>4. calling' \in Messages /\ toServer' \in Seq(Messages)
  BY <1>1, <1>2, RangeTail
<1> QED  BY <1>1, <1>3, <1>4 DEF ClipboardTypeOK, ClipEvents, serverVars, clientVars

LEMMA MainThreadTypes ==
  ASSUME ClipboardTypeOK, MainThread
  PROVE  ClipboardTypeOK'
<1>1. clipEvents # <<>> /\ clipEvents \in Seq(ClipEvents) /\ toClient \in Seq(Messages)
      /\ Idle \in Messages
  BY MessagesMade DEF ClipboardTypeOK, ClipEvents, MainThread, OnClipboardChanged, SendServerData,
     OnClientCapabilities, OnClientFormatList, OnClientFormatDataResponse, Called, NextEvent
<1>2. clipEvents' \in Seq(ClipEvents)
  <2>1. \/ clipEvents' = Tail(clipEvents)
        \/ \E e \in ClipEvents : clipEvents' = Append(Tail(clipEvents), e)
    BY DEF ClipEvents, MainThread, OnClipboardChanged, SendServerData, OnClientCapabilities,
       OnClientFormatList, OnClientFormatDataResponse, PutServerData, MarkClientReady
  <2> QED  BY <1>1, <2>1, EventsMade DEF ClipEvents
<1>3. /\ UNCHANGED <<clipStep, toServer, clientVars, copied, mayCross>>
      /\ calling' = calling \/ calling' = Idle
      /\ clientReady' = clientReady \/ clientReady' = TRUE
      /\ serverData' = serverData \/ (serverData' = desktop.copy /\ desktop.owner = "application")
  BY DEF ClipboardTypeOK, MainThread, OnClipboardChanged, SendServerData, OnClientCapabilities,
     OnClientFormatList, OnClientFormatDataResponse, PutServerData, MarkClientReady, Called,
     serverVars, channelVars
<1>4. toClient' \in Seq(Messages)
  <2>1. CASE SendServerData
    <3>1. CASE toClient' = toClient
      BY <1>1, <3>1
    <3>2. CASE toClient' # toClient
      <4>1. toClient' = Append(toClient, [type |-> "list", copy |-> serverData])
            /\ serverData # NoCopy
        BY <2>1, <3>2 DEF SendServerData
      <4>2. [type |-> "list", copy |-> serverData] \in Messages
        BY <4>1, MessagesMade DEF ClipboardTypeOK
      <4> QED  BY <1>1, <4>1, <4>2, AppendProperties
    <3> QED  BY <3>1, <3>2
  <2>2. CASE OnClientFormatList
    <3> DEFINE requests == [i \in 1..TextFormats |-> [type |-> "request"]]
    <3>1. requests \in Seq(Messages)
      BY MessagesMade, ClipboardAssumption
    <3>2. toClient' = toClient \/ toClient' = toClient \o requests
      BY <2>2 DEF OnClientFormatList
    <3> HIDE DEF requests
    <3> QED  BY <1>1, <3>1, <3>2, ConcatProperties
  <2>3. CASE OnClipboardChanged \/ OnClientCapabilities \/ OnClientFormatDataResponse
    BY <1>1, <2>3 DEF OnClipboardChanged, OnClientCapabilities, OnClientFormatDataResponse,
       channelVars
  <2> QED  BY <2>1, <2>2, <2>3 DEF MainThread
<1>5. desktop' \in [copy : Copies \union {NoCopy}, owner : {"nobody", "krdp", "application"}]
  <2>1. CASE UNCHANGED desktop
    BY <2>1 DEF ClipboardTypeOK
  <2>2. CASE calling.type = "data" /\ SetClipboardData(calling.copy)
    <3>1. calling.copy \in Copies \union {NoCopy}
      BY <2>2, MessageShapes DEF ClipboardTypeOK
    <3> QED  BY <2>2, <3>1 DEF SetClipboardData
  <2> QED  BY <2>1, <2>2 DEF MainThread, OnClipboardChanged, SendServerData, OnClientCapabilities,
     OnClientFormatList, OnClientFormatDataResponse, Called
<1>6. serverData' \in Copies \union {NoCopy} /\ calling' \in Messages /\ clientReady' \in BOOLEAN
  BY <1>1, <1>3 DEF ClipboardTypeOK
<1> QED  BY <1>2, <1>3, <1>4, <1>5, <1>6 DEF ClipboardTypeOK, ClipEvents, clientVars

LEMMA CopyTypes ==
  ASSUME ClipboardTypeOK, DesktopCopies
  PROVE  ClipboardTypeOK'
<1>1. copied["desktop"] \in 0..MaxCopies /\ copied["desktop"] < MaxCopies /\ MaxCopies \in Nat
  BY ClipboardAssumption DEF ClipboardTypeOK, DesktopCopies, MayCopy
<1>2. copied' \in [{"desktop", "client"} -> 0..MaxCopies]
      /\ copied'["desktop"] = copied["desktop"] + 1
  BY <1>1 DEF ClipboardTypeOK, DesktopCopies
<1>3. <<"desktop", copied'["desktop"]>> \in Copies
  BY <1>1, <1>2 DEF Copies
<1>4. clipEvents' \in Seq(ClipEvents)
  BY EventsMade DEF ClipboardTypeOK, ClipEvents, DesktopCopies
<1>5. desktop' \in [copy : Copies \union {NoCopy}, owner : {"nobody", "krdp", "application"}]
  BY <1>3 DEF DesktopCopies
<1> QED  BY <1>2, <1>4, <1>5 DEF ClipboardTypeOK, DesktopCopies, ClipEvents, serverVars, channelVars,
     clientVars

LEMMA ClientCopyTypes ==
  ASSUME ClipboardTypeOK, ClientCopies
  PROVE  ClipboardTypeOK' /\ clientClip'.copy \in Copies /\ List' \in Messages
<1>1. copied["client"] \in 0..MaxCopies /\ copied["client"] < MaxCopies /\ MaxCopies \in Nat
  BY ClipboardAssumption DEF ClipboardTypeOK, ClientCopies, MayCopy
<1>2. copied' \in [{"desktop", "client"} -> 0..MaxCopies]
      /\ copied'["client"] = copied["client"] + 1
  BY <1>1 DEF ClipboardTypeOK, ClientCopies
<1>3. <<"client", copied'["client"]>> \in Copies
  BY <1>1, <1>2 DEF Copies
<1>4. clientClip'.copy \in Copies
      /\ clientClip' \in [copy : Copies \union {NoCopy}, owner : {"client", "server"}]
  BY <1>3 DEF ClientCopies
<1>5. List' \in Messages
  BY <1>4, MessagesMade DEF List
<1>6. toServer' \in Seq(Messages)
  BY <1>5, AppendProperties DEF ClipboardTypeOK, ClientCopies
<1> QED  BY <1>2, <1>4, <1>5, <1>6 DEF ClipboardTypeOK, ClientCopies, serverVars

LEMMA ClientAnswersTypes ==
  ASSUME ClipboardTypeOK, ClientAnswers
  PROVE  ClipboardTypeOK'
<1>1. clientClip.copy # NoCopy => List \in Messages
  BY MessagesMade DEF ClipboardTypeOK, List
<1>2. toServer' \in Seq(Messages)
  <2>1. <<[type |-> "capabilities"]>> \in Seq(Messages)
    BY MessagesMade
  <2>2. clientClip.copy # NoCopy => <<List>> \in Seq(Messages)
    BY <1>1
  <2>3. \/ toServer' = <<[type |-> "capabilities"]>> \o <<>>
        \/ clientClip.copy # NoCopy /\ toServer' = <<[type |-> "capabilities"]>> \o <<List>>
        \/ clientClip.copy # NoCopy /\ toServer' = <<List>>
    BY DEF ClientAnswers
  <2> QED  BY <2>1, <2>2, <2>3, ConcatProperties, ConcatEmptySeq
<1> QED  BY <1>2 DEF ClipboardTypeOK, ClientAnswers, serverVars

LEMMA ClientTypes ==
  ASSUME ClipboardTypeOK, Client
  PROVE  ClipboardTypeOK'
<1>1. toClient # <<>> /\ toClient' = Tail(toClient) /\ toClient \in Seq(Messages)
  BY DEF ClipboardTypeOK, Client, ClientReceivesList, ClientReceivesRequest
<1>2. toClient' \in Seq(Messages) /\ Head(toClient) \in Messages
  BY <1>1, RangeTail
<1>3. CASE ClientReceivesList
  <2>1. Head(toClient).copy \in Copies
    BY <1>2, <1>3, MessageShapes DEF ClientReceivesList
  <2>2. Head(toClient).copy[2] \in 0..MaxCopies
    BY <2>1, ClipboardAssumption DEF Copies
  <2>3. announced' \in 0..MaxCopies
        /\ clientClip' \in [copy : Copies \union {NoCopy}, owner : {"client", "server"}]
    BY <1>3, <2>2 DEF ClientReceivesList, ClipboardTypeOK
  <2> QED  BY <1>2, <1>3, <2>3 DEF ClipboardTypeOK, ClientReceivesList, serverVars
<1>4. CASE ClientReceivesRequest
  <2>1. Answers \subseteq Messages
    BY MessagesMade DEF Answers, ClipboardTypeOK
  <2>2. toServer' \in Seq(Messages)
    BY <1>4, <2>1, AppendProperties DEF ClientReceivesRequest, ClipboardTypeOK
  <2> QED  BY <1>2, <1>4, <2>2 DEF ClipboardTypeOK, ClientReceivesRequest, serverVars, clientVars
<1> QED  BY <1>3, <1>4 DEF Client

LEMMA ClipboardTypeInit == ClipboardInit => ClipboardTypeOK
<1> SUFFICES ASSUME ClipboardInit PROVE ClipboardTypeOK
  OBVIOUS
<1>1. /\ copied \in [{"desktop", "client"} -> 0..MaxCopies] /\ announced \in 0..MaxCopies
      /\ clipStep = "none" /\ serverData = NoCopy
  BY ClipboardAssumption DEF ClipboardInit
<1>2. /\ desktop \in [copy : Copies \union {NoCopy}, owner : {"nobody", "krdp", "application"}]
      /\ clientClip \in [copy : Copies \union {NoCopy}, owner : {"client", "server"}]
  BY DEF ClipboardInit
<1>3. /\ calling \in Messages /\ toServer \in Seq(Messages) /\ toClient \in Seq(Messages)
      /\ clipEvents \in Seq({"changed", "send", "call"})
  BY MessagesMade DEF ClipboardInit
<1>4. clientReady \in BOOLEAN /\ handshake \in BOOLEAN /\ mayCross \in BOOLEAN
  BY DEF ClipboardInit
<1> QED  BY <1>1, <1>2, <1>3, <1>4 DEF ClipboardTypeOK

LEMMA ClipboardTypeStep == ClipboardTypeOK /\ [ClipboardNext]_clipboardVars => ClipboardTypeOK'
<1> SUFFICES ASSUME ClipboardTypeOK, [ClipboardNext]_clipboardVars PROVE ClipboardTypeOK'
  OBVIOUS
<1>1. CASE UNCHANGED clipboardVars
  BY <1>1 DEF clipboardVars, serverVars, channelVars, clientVars, ClipboardTypeOK
<1> QED  BY <1>1, RunThreadTypes, CallTypes, MainThreadTypes, CopyTypes, ClientCopyTypes,
            ClientAnswersTypes, ClientTypes DEF ClipboardNext

LEMMA ClipboardTypeHolds == ClipboardSafety => []ClipboardTypeOK
  BY ClipboardTypeInit, ClipboardTypeStep, PTL DEF ClipboardSafety

\* Whatever both sides copy and whichever order their messages and the calls between the
\* threads are handled in, every variable of the clipboard stays in its range.
THEOREM ClipboardTypeCorrect == ClipboardSpec => []ClipboardTypeOK
<1>1. ClipboardSpec => ClipboardSafety
  BY DEF ClipboardSpec, ClipboardSafety
<1> QED  BY <1>1, ClipboardTypeHolds


-----------------------------------------------------------------------------
\* The set-up of the channel: nothing goes through it before the handshake, and the client
\* becomes ready for the first of what it says.
Greeting(m) == m.type \in {"capabilities", "list"}
SetUpInv ==
    /\ ~handshake => toServer = <<>> /\ calling = Idle /\ ~clientReady /\ toClient = <<>>
    /\ handshake /\ ~clientReady => Greeting(calling) \/ \E m \in Range(toServer) : Greeting(m)
    /\ desktop.owner = "application" => copied["desktop"] > 0 /\ desktop.copy # NoCopy
    /\ clientClip.copy # NoCopy => copied["client"] > 0

LEMMA MainThreadSetsUp ==
  ASSUME ClipboardTypeOK, SetUpInv, MainThread
  PROVE  SetUpInv'
<1>1. UNCHANGED <<toServer, clientClip, handshake, copied>>
  BY DEF MainThread, OnClipboardChanged, SendServerData, OnClientCapabilities, OnClientFormatList,
     OnClientFormatDataResponse, channelVars, clientVars
<1>2. CASE OnClipboardChanged \/ SendServerData
  <2>1. UNCHANGED <<clientReady, calling, desktop>>
        /\ (toClient' = toClient \/ clientReady)
    BY <1>2 DEF OnClipboardChanged, SendServerData, channelVars, serverVars
  <2> QED  BY <1>1, <2>1 DEF SetUpInv, Greeting
<1>3. CASE OnClientCapabilities \/ OnClientFormatList
  <2>1. clientReady' = TRUE /\ UNCHANGED desktop /\ calling # Idle
    BY <1>3 DEF OnClientCapabilities, OnClientFormatList, MarkClientReady, Called, Idle
  <2>2. handshake
    BY <2>1 DEF SetUpInv
  <2> QED  BY <1>1, <2>1, <2>2 DEF SetUpInv
<1>4. CASE OnClientFormatDataResponse
  <2>1. /\ calling.type = "data" /\ calling # Idle /\ UNCHANGED <<clientReady, toClient>>
        /\ desktop' = desktop \/ desktop'.owner # "application"
    BY <1>4 DEF OnClientFormatDataResponse, Called, Idle, SetClipboardData, serverVars, channelVars
  <2>2. handshake /\ ~Greeting(calling)
    BY <2>1 DEF SetUpInv, Greeting
  <2> QED  BY <1>1, <2>1, <2>2 DEF SetUpInv
<1> QED  BY <1>2, <1>3, <1>4 DEF MainThread

LEMMA OthersSetUp ==
  ASSUME ClipboardTypeOK, SetUpInv,
         \/ StartClipboard \/ EnableClipboard \/ CloseClipboard \/ CallMainThread
         \/ DesktopCopies \/ ClientAnswers \/ ClientCopies \/ Client
  PROVE  SetUpInv'
<1>1. CASE StartClipboard \/ EnableClipboard \/ CloseClipboard
  <2>1. UNCHANGED <<clientReady, calling, toServer, toClient, desktop, handshake, clientClip, copied>>
    BY <1>1 DEF StartClipboard, EnableClipboard, CloseClipboard, channelVars, clientVars
  <2> QED  BY <2>1 DEF SetUpInv, Greeting
<1>2. CASE CallMainThread
  <2>1. /\ toServer # <<>> /\ calling' = Head(toServer) /\ toServer' = Tail(toServer)
        /\ UNCHANGED <<clientReady, toClient, desktop, handshake, clientClip, copied>>
        /\ calling = Idle
    BY <1>2 DEF CallMainThread, serverVars, clientVars
  <2>2. Range(toServer) = {Head(toServer)} \union Range(Tail(toServer))
    BY <2>1, RangeTail DEF ClipboardTypeOK
  <2>3. ~Greeting(calling)
    BY <2>1 DEF Greeting, Idle
  <2> QED  BY <2>1, <2>2, <2>3 DEF SetUpInv, Greeting
<1>3. CASE DesktopCopies
  <2>1. /\ UNCHANGED <<clientReady, calling, toServer, toClient, handshake, clientClip>>
        /\ desktop'.copy = <<"desktop", copied'["desktop"]>>
        /\ copied' = [copied EXCEPT !["desktop"] = @ + 1]
    BY <1>3 DEF DesktopCopies, serverVars, channelVars, clientVars
  <2>2. copied'["desktop"] > 0 /\ copied'["client"] = copied["client"]
    BY <2>1, ClipboardAssumption DEF ClipboardTypeOK
  <2>3. desktop'.copy # NoCopy
    BY <2>1 DEF NoCopy
  <2> QED  BY <2>1, <2>2, <2>3 DEF SetUpInv, Greeting
<1>4. CASE ClientAnswers
  <2>1. /\ UNCHANGED <<clientReady, toClient, desktop, clientClip, copied>> /\ handshake'
    BY <1>4 DEF ClientAnswers, serverVars
  <2>2. 1 \in DOMAIN toServer' /\ Greeting(toServer'[1])
    BY <1>4 DEF ClientAnswers, Greeting, List
  <2>3. \E m \in Range(toServer') : Greeting(m)
    BY <2>2 DEF Range
  <2> QED  BY <2>1, <2>3 DEF SetUpInv, Greeting
<1>5. CASE ClientCopies
  <2>1. /\ UNCHANGED <<clientReady, calling, toClient, desktop, handshake>>
        /\ toServer' = IF handshake THEN Append(toServer, List') ELSE toServer
        /\ copied' = [copied EXCEPT !["client"] = @ + 1]
    BY <1>5 DEF ClientCopies, serverVars
  <2>2. copied'["client"] > 0 /\ copied'["desktop"] = copied["desktop"]
    BY <2>1, ClipboardAssumption DEF ClipboardTypeOK
  <2>3. handshake => Range(toServer) \subseteq Range(toServer')
    BY <1>5, <2>1, ClientCopyTypes, RangeAppend DEF ClipboardTypeOK
  <2> QED  BY <2>1, <2>2, <2>3 DEF SetUpInv, Greeting
<1>6. CASE Client
  <2>1. /\ UNCHANGED <<clientReady, calling, desktop, handshake, copied>> /\ toClient # <<>>
        /\ clientClip' = clientClip \/ clientClip'.copy = NoCopy
    BY <1>6 DEF Client, ClientReceivesList, ClientReceivesRequest, serverVars, clientVars
  <2>2. Range(toServer) \subseteq Range(toServer')
    <3>1. CASE ClientReceivesList
      BY <3>1 DEF ClientReceivesList
    <3>2. CASE ClientReceivesRequest
      <4>1. PICK answer \in Answers : toServer' = Append(toServer, answer)
        BY <3>2 DEF ClientReceivesRequest
      <4>2. answer \in Messages
        BY MessagesMade DEF Answers, ClipboardTypeOK
      <4> QED  BY <4>1, <4>2, RangeAppend DEF ClipboardTypeOK
    <3> QED  BY <1>6, <3>1, <3>2 DEF Client
  <2>3. handshake
    BY <2>1 DEF SetUpInv
  <2> QED  BY <2>1, <2>2, <2>3 DEF SetUpInv, Greeting
<1> QED  BY <1>1, <1>2, <1>3, <1>4, <1>5, <1>6


-----------------------------------------------------------------------------
\* The last copy was made on the desktop, or there is none. Nothing of the client is under
\* way, and as long as the client still has what it had, an event of the main thread, or
\* something the channel waits for, will bring it the copy.
Blank ==
    /\ desktop = [copy |-> NoCopy, owner |-> "nobody"] /\ serverData = NoCopy
    /\ clientClip = [copy |-> NoCopy, owner |-> "client"] /\ toClient = <<>>
Announcing ==
    /\ desktop.owner = "application"
    /\ \/ "changed" \in Range(clipEvents)
       \/ /\ serverData = desktop.copy
          /\ \/ "send" \in Range(clipEvents) \/ clipStep # "open" \/ ~clientReady
             \/ toClient # <<>> \/ clientClip.owner = "server"
DesktopLast ==
    /\ \A m \in Range(toServer) : m.type = "capabilities"
    /\ calling.type \in {"idle", "capabilities"}
    /\ \A m \in Range(toClient) : m.type = "list"
    /\ ~handshake => clientClip.copy = NoCopy
    /\ Blank \/ Announcing

\* The last copy was made by the client. Nothing of the desktop is under way: a change that
\* is still to be looked at is krdp's own, and what was kept for the client is not sent
\* again. A text is on its way as a list, a request or an answer, or has arrived; then no
\* older one follows it.
IsListOf(m, c)   == m.type = "list" /\ m.copy = c
IsAnswerOf(m, c) == m.type = "data" /\ m.ok /\ m.copy = c
NewestIs(s, c) ==
    \E i \in DOMAIN s : IsAnswerOf(s[i], c) /\ \A j \in DOMAIN s : j > i => s[j].type # "data"
NoDataIn(s) == \A m \in Range(s) : m.type # "data"
Arriving(c) ==
    \/ IsListOf(calling, c) \/ \E m \in Range(toServer) : IsListOf(m, c)
    \/ toClient # <<>>
    \/ NewestIs(toServer, c)
    \/ NoDataIn(toServer) /\ IF calling.type = "data" THEN IsAnswerOf(calling, c) ELSE desktop.copy = c
ClientLast ==
    /\ clientClip.owner = "client" /\ clientClip.copy # NoCopy
    /\ \A m \in Range(toClient) : m.type = "request"
    /\ "changed" \in Range(clipEvents) => desktop.owner # "application"
    /\ serverData # NoCopy => clientReady /\ clipStep = "open" /\ "send" \notin Range(clipEvents)
    /\ IsText(clientClip.copy) /\ handshake => Arriving(clientClip.copy)

\* One user, and a channel that is not closed.
OneUser == ~mayCross /\ clipStep \in {"none", "started", "open"}
AgreeInv == ClipboardTypeOK /\ SetUpInv /\ (OneUser => DesktopLast \/ ClientLast)

\* An answer of the client is the newest; and the newest one stays until it is handled.
LEMMA NewestAppended ==
  ASSUME NEW S, NEW s \in Seq(S), NEW m \in S, NEW c, IsAnswerOf(m, c)
  PROVE  NewestIs(Append(s, m), c)
<1>1. /\ DOMAIN Append(s, m) = 1..Len(s) + 1 /\ Len(s) \in Nat /\ Append(s, m)[Len(s) + 1] = m
  BY AppendProperties, LenProperties
<1>2. Len(s) + 1 \in DOMAIN Append(s, m) /\ \A j \in DOMAIN Append(s, m) : ~(j > Len(s) + 1)
  BY <1>1
<1> QED  BY <1>1, <1>2 DEF NewestIs

LEMMA NewestTaken ==
  ASSUME NEW S, NEW s \in Seq(S), s # <<>>, NEW c, NewestIs(s, c)
  PROVE  NewestIs(Tail(s), c) \/ (IsAnswerOf(Head(s), c) /\ NoDataIn(Tail(s)))
<1>1. /\ Head(s) = s[1] /\ Len(Tail(s)) = Len(s) - 1
      /\ \A i \in 1..Len(Tail(s)) : Tail(s)[i] = s[i + 1]
      /\ DOMAIN s = 1..Len(s) /\ Len(s) \in Nat /\ Len(s) >= 1
      /\ DOMAIN Tail(s) = 1..Len(s) - 1
  BY HeadTailProperties, LenProperties, EmptySeq
<1>2. PICK i \in DOMAIN s : IsAnswerOf(s[i], c) /\ \A j \in DOMAIN s : j > i => s[j].type # "data"
  BY DEF NewestIs
<1>3. CASE i = 1
  <2>1. \A j \in DOMAIN Tail(s) : Tail(s)[j].type # "data"
    BY <1>1, <1>2, <1>3
  <2> QED  BY <1>1, <1>2, <1>3, <2>1 DEF NoDataIn, Range
<1>4. CASE i # 1
  <2>1. i - 1 \in DOMAIN Tail(s) /\ Tail(s)[i - 1] = s[i]
    BY <1>1, <1>4
  <2>2. \A j \in DOMAIN Tail(s) : j > i - 1 => Tail(s)[j].type # "data"
    BY <1>1, <1>2
  <2> QED  BY <1>2, <2>1, <2>2 DEF NewestIs
<1> QED  BY <1>3, <1>4

LEMMA EventTaken ==
  ASSUME ClipboardTypeOK, NEW e, NextEvent(e)
  PROVE  /\ Tail(clipEvents) \in Seq(ClipEvents)
         /\ Range(clipEvents) = {e} \union Range(Tail(clipEvents))
         /\ \A f \in ClipEvents : Range(Append(Tail(clipEvents), f)) = Range(Tail(clipEvents)) \union {f}
<1>1. clipEvents \in Seq(ClipEvents) /\ clipEvents # <<>> /\ Head(clipEvents) = e
  BY DEF ClipboardTypeOK, ClipEvents, NextEvent
<1>2. Tail(clipEvents) \in Seq(ClipEvents) /\ Range(clipEvents) = {e} \union Range(Tail(clipEvents))
  BY <1>1, RangeTail
<1>3. ASSUME NEW f \in ClipEvents
      PROVE  Range(Append(Tail(clipEvents), f)) = Range(Tail(clipEvents)) \union {f}
  <2> DEFINE t == Tail(clipEvents)
  <2>1. t \in Seq(ClipEvents)
    BY <1>2
  <2> HIDE DEF t
  <2>2. Range(Append(t, f)) = Range(t) \union {f}
    BY <1>3, <2>1, RangeAppend
  <2> QED  BY <2>2 DEF t
<1> QED  BY <1>2, <1>3

LEMMA EventMade ==
  ASSUME ClipboardTypeOK, NEW e \in ClipEvents
  PROVE  Range(Append(clipEvents, e)) = Range(clipEvents) \union {e}
  BY RangeAppend DEF ClipboardTypeOK, ClipEvents

LEMMA DesktopLastKept ==
  ASSUME ClipboardTypeOK, SetUpInv, DesktopLast,
         \/ StartClipboard \/ EnableClipboard \/ CallMainThread \/ MainThread
         \/ ClientAnswers \/ Client
  PROVE  DesktopLast'
<1> USE DEF DesktopLast
<1>1. CASE StartClipboard \/ EnableClipboard
  <2>1. UNCHANGED <<clientReady, serverData, calling, channelVars, desktop, clientVars>>
    BY <1>1 DEF StartClipboard, EnableClipboard
  <2>2. \/ clipStep = "none" /\ clipStep' = "started" /\ clipEvents' = clipEvents
        \/ clipEvents' = Append(clipEvents, "send")
    BY <1>1 DEF StartClipboard, EnableClipboard
  <2>3. Range(Append(clipEvents, "send")) = Range(clipEvents) \union {"send"}
    BY EventMade DEF ClipEvents
  <2> QED  BY <2>1, <2>2, <2>3 DEF channelVars, clientVars, Blank, Announcing
<1>2. CASE CallMainThread
  <2>1. /\ toServer # <<>> /\ calling' = Head(toServer) /\ toServer' = Tail(toServer)
        /\ clipEvents' = Append(clipEvents, "call")
        /\ UNCHANGED <<serverVars, toClient, desktop, clientVars>>
    BY <1>2 DEF CallMainThread
  <2>2. Range(toServer) = {Head(toServer)} \union Range(Tail(toServer))
    BY <2>1, RangeTail DEF ClipboardTypeOK
  <2>3. Range(clipEvents') = Range(clipEvents) \union {"call"}
    BY <2>1, EventMade DEF ClipEvents
  <2> QED  BY <2>1, <2>2, <2>3 DEF serverVars, clientVars, Blank, Announcing
<1>3. CASE OnClipboardChanged
  <2>1. UNCHANGED <<clipStep, clientReady, calling, channelVars, desktop, clientVars>>
    BY <1>3 DEF OnClipboardChanged
  <2>2. CASE Blank
    BY <1>3, <2>1, <2>2 DEF OnClipboardChanged, Blank, channelVars, clientVars
  <2>3. CASE Announcing
    <3>1. serverData' = desktop.copy /\ clipEvents' = Append(Tail(clipEvents), "send")
      BY <1>3, <2>3 DEF OnClipboardChanged, PutServerData, Announcing
    <3>2. "send" \in Range(clipEvents')
      BY <1>3, <3>1, EventTaken DEF OnClipboardChanged, ClipEvents
    <3> QED  BY <2>1, <2>3, <3>1, <3>2 DEF channelVars, clientVars, Announcing
  <2> QED  BY <2>2, <2>3
<1>4. CASE SendServerData
  <2>1. /\ UNCHANGED <<serverVars, calling, toServer, desktop, clientVars>>
        /\ clipEvents' = Tail(clipEvents)
        /\ Range(clipEvents) = {"send"} \union Range(clipEvents')
    BY <1>4, EventTaken DEF SendServerData
  <2>2. CASE toClient' = toClient
    <3>1. CASE Blank
      BY <2>1, <2>2, <3>1 DEF Blank, serverVars, clientVars
    <3>2. CASE Announcing
      <4>1. serverData = NoCopy \/ clipStep # "open" \/ ~clientReady
            \/ toClient' = Append(toClient, [type |-> "list", copy |-> serverData])
        BY <1>4 DEF SendServerData
      <4>2. toClient' = Append(toClient, [type |-> "list", copy |-> serverData]) => toClient' # <<>>
        BY DEF ClipboardTypeOK
      <4>3. desktop.copy # NoCopy
        BY <3>2 DEF SetUpInv, Announcing
      <4> QED  BY <2>1, <2>2, <3>2, <4>1, <4>2, <4>3 DEF Announcing, serverVars, clientVars
    <3> QED  BY <3>1, <3>2
  <2>3. CASE toClient' # toClient
    <3> DEFINE list == [type |-> "list", copy |-> serverData]
    <3>1. toClient' = Append(toClient, list) /\ serverData # NoCopy
      BY <1>4, <2>3 DEF SendServerData
    <3>2. toClient \in Seq(Messages) /\ list \in Messages /\ list.type = "list"
      BY <3>1, MessagesMade DEF ClipboardTypeOK
    <3> HIDE DEF list
    <3>3. Range(toClient') = Range(toClient) \union {list} /\ toClient' # <<>>
      BY <3>1, <3>2, RangeAppend, AppendProperties
    <3>4. ~Blank
      BY <3>1 DEF Blank
    <3> QED  BY <2>1, <3>2, <3>3, <3>4 DEF Announcing, serverVars, clientVars
  <2> QED  BY <2>2, <2>3
<1>5. CASE OnClientCapabilities
  <2>1. /\ UNCHANGED <<clipStep, serverData, channelVars, desktop, clientVars>>
        /\ calling' = Idle /\ calling'.type = "idle" /\ clientReady' = TRUE /\ NextEvent("call")
        /\ clipEvents' = IF clientReady THEN Tail(clipEvents) ELSE Append(Tail(clipEvents), "send")
    BY <1>5 DEF OnClientCapabilities, MarkClientReady, Called, Idle
  <2>2. /\ Range(clipEvents) \ {"call"} \subseteq Range(clipEvents')
        /\ ~clientReady => "send" \in Range(clipEvents')
    BY <2>1, EventTaken DEF ClipEvents
  <2> QED  BY <2>1, <2>2 DEF Blank, Announcing, channelVars, clientVars
<1>6. CASE OnClientFormatList \/ OnClientFormatDataResponse
  BY <1>6 DEF OnClientFormatList, OnClientFormatDataResponse, Called
<1>7. CASE ClientAnswers
  <2>1. /\ ~handshake /\ handshake' /\ clientClip.copy = NoCopy
        /\ UNCHANGED <<serverVars, calling, clipEvents, toClient, desktop, clientClip>>
    BY <1>7 DEF ClientAnswers
  <2>2. toServer' = <<[type |-> "capabilities"]>>
    BY <1>7, <2>1 DEF ClientAnswers
  <2>3. \A m \in Range(toServer') : m.type = "capabilities"
    BY <2>2 DEF Range
  <2> QED  BY <2>1, <2>3 DEF Blank, Announcing, serverVars
<1>8. CASE Client
  <2>1. toClient # <<>> /\ toClient' = Tail(toClient) /\ handshake
    BY <1>8 DEF Client, ClientReceivesList, ClientReceivesRequest, SetUpInv
  <2>2. Range(toClient) = {Head(toClient)} \union Range(Tail(toClient))
    BY <2>1, RangeTail DEF ClipboardTypeOK
  <2>3. ClientReceivesList
    BY <1>8, <2>2 DEF Client, ClientReceivesRequest
  <2>4. /\ UNCHANGED <<serverVars, calling, clipEvents, toServer, desktop, handshake>>
        /\ clientClip' = [copy |-> NoCopy, owner |-> "server"]
    BY <2>1, <2>3 DEF ClientReceivesList
  <2>5. ~Blank
    BY <2>1 DEF Blank
  <2> QED  BY <2>1, <2>2, <2>4, <2>5 DEF Announcing, serverVars
<1> QED  BY <1>1, <1>2, <1>3, <1>4, <1>5, <1>6, <1>7, <1>8 DEF MainThread


LEMMA ClientLastKept ==
  ASSUME ClipboardTypeOK, SetUpInv, ClientLast,
         \/ StartClipboard \/ EnableClipboard \/ CallMainThread \/ MainThread
         \/ ClientAnswers \/ Client
  PROVE  ClientLast'
<1> USE DEF ClientLast
<1>1. CASE StartClipboard \/ EnableClipboard
  <2>1. UNCHANGED <<clientReady, serverData, calling, channelVars, desktop, clientVars>>
        /\ serverData = NoCopy
    BY <1>1 DEF StartClipboard, EnableClipboard
  <2>2. clipEvents' = clipEvents \/ clipEvents' = Append(clipEvents, "send")
    BY <1>1 DEF StartClipboard, EnableClipboard
  <2>3. Range(clipEvents') \subseteq Range(clipEvents) \union {"send"}
    BY <2>2, EventMade DEF ClipEvents
  <2>4. "changed" \in Range(clipEvents') => desktop'.owner # "application"
    BY <2>1, <2>3
  <2>5. Arriving(clientClip.copy)' = Arriving(clientClip.copy)
    BY <2>1 DEF channelVars, clientVars, Arriving
  <2> QED  BY <2>1, <2>4, <2>5 DEF channelVars, clientVars
<1>2. CASE CallMainThread
  <2>1. /\ toServer # <<>> /\ calling' = Head(toServer) /\ toServer' = Tail(toServer)
        /\ clipEvents' = Append(clipEvents, "call") /\ calling.type = "idle"
        /\ UNCHANGED <<serverVars, toClient, desktop, clientVars>>
    BY <1>2 DEF CallMainThread, Idle
  <2>2. toServer \in Seq(Messages) /\ Range(toServer) = {Head(toServer)} \union Range(Tail(toServer))
    BY <2>1, RangeTail DEF ClipboardTypeOK
  <2>3. Range(clipEvents') = Range(clipEvents) \union {"call"}
    BY <2>1, EventMade DEF ClipEvents
  <2>4. ASSUME NEW c, Arriving(c), c = clientClip.copy
        PROVE  Arriving(c)'
    <3>1. CASE \E m \in Range(toServer) : IsListOf(m, c)
      BY <2>1, <2>2, <3>1 DEF Arriving
    <3>2. CASE toClient # <<>>
      BY <2>1, <3>2 DEF Arriving
    <3>3. CASE NewestIs(toServer, c)
      <4>1. NewestIs(Tail(toServer), c) \/ (IsAnswerOf(Head(toServer), c) /\ NoDataIn(Tail(toServer)))
        BY <2>1, <2>2, <3>3, NewestTaken
      <4> QED  BY <2>1, <4>1 DEF Arriving, IsAnswerOf
    <3>4. CASE NoDataIn(toServer) /\ desktop.copy = c
      BY <2>1, <2>2, <3>4 DEF Arriving, NoDataIn
    <3> QED  BY <2>1, <2>4, <3>1, <3>2, <3>3, <3>4 DEF Arriving, IsListOf
  <2> DEFINE c == clientClip.copy
  <2>5. IsText(c) /\ handshake => Arriving(clientClip.copy)'
    BY <2>1, <2>4 DEF Arriving, clientVars
  <2> QED  BY <2>1, <2>3, <2>5 DEF serverVars, clientVars
<1>3. CASE OnClipboardChanged
  <2>1. UNCHANGED <<clipStep, clientReady, calling, channelVars, desktop, clientVars>>
        /\ NextEvent("changed")
    BY <1>3 DEF OnClipboardChanged
  <2>2. Range(clipEvents) = {"changed"} \union Range(Tail(clipEvents))
    BY <2>1, EventTaken
  <2>3. desktop.owner \in {"krdp", "nobody"}
    BY <2>2 DEF ClipboardTypeOK
  <2>4. clipEvents' = Tail(clipEvents) /\ serverData' = serverData
    BY <1>3, <2>3 DEF OnClipboardChanged
  <2> QED  BY <2>1, <2>2, <2>4 DEF channelVars, clientVars, Arriving
<1>4. CASE SendServerData
  <2>1. /\ UNCHANGED <<serverVars, calling, toServer, desktop, clientVars>>
        /\ clipEvents' = Tail(clipEvents)
        /\ Range(clipEvents) = {"send"} \union Range(clipEvents')
    BY <1>4, EventTaken DEF SendServerData
  <2>2. serverData = NoCopy /\ toClient' = toClient
    BY <1>4, <2>1 DEF SendServerData
  <2> QED  BY <2>1, <2>2 DEF serverVars, clientVars, Arriving
<1>5. CASE OnClientCapabilities \/ OnClientFormatList
  <2>1. /\ UNCHANGED <<clipStep, serverData, toServer, desktop, clientVars>>
        /\ calling.type \in {"capabilities", "list"} /\ calling'.type = "idle"
        /\ clientReady' = TRUE /\ NextEvent("call")
        /\ clipEvents' = IF clientReady THEN Tail(clipEvents) ELSE Append(Tail(clipEvents), "send")
    BY <1>5 DEF OnClientCapabilities, OnClientFormatList, MarkClientReady, Called, Idle, channelVars
  <2>2. /\ Range(clipEvents') \subseteq Range(clipEvents) \union {"send"}
        /\ clientReady => Range(clipEvents') \subseteq Range(clipEvents)
    BY <2>1, EventTaken DEF ClipEvents
  <2> DEFINE requests == [i \in 1..TextFormats |-> [type |-> "request"]]
  <2>3. /\ requests \in Seq(Messages) /\ requests # <<>>
        /\ \A m \in Range(requests) : m.type = "request"
    BY MessagesMade, ClipboardAssumption DEF Range
  <2>4. \/ toClient' = toClient /\ ~(calling.type = "list" /\ IsText(calling.copy))
        \/ toClient' = toClient \o requests
    BY <1>5 DEF OnClientCapabilities, OnClientFormatList, channelVars, Called
  <2>5. toClient \in Seq(Messages)
    BY DEF ClipboardTypeOK
  <2> HIDE DEF requests
  <2>6. toClient' = toClient \o requests =>
            toClient' # <<>> /\ Range(toClient') = Range(toClient) \union Range(requests)
    BY <2>3, <2>5, RangeConcatenation, ConcatEqualIffEmpty, ConcatProperties, EmptySeq, LenProperties
  <2>7. \A m \in Range(toClient') : m.type = "request"
    BY <2>3, <2>4, <2>6
  <2>8. ASSUME NEW c, Arriving(c), c = clientClip.copy, IsText(c)
        PROVE  Arriving(c)'
    BY <2>1, <2>4, <2>6, <2>8 DEF Arriving, IsListOf
  <2> DEFINE c == clientClip.copy
  <2>9. IsText(c) /\ handshake => Arriving(clientClip.copy)'
    BY <2>1, <2>8 DEF Arriving, clientVars
  <2> QED  BY <2>1, <2>2, <2>7, <2>9 DEF clientVars
<1>6. CASE OnClientFormatDataResponse
  <2>1. /\ UNCHANGED <<serverVars, channelVars, clientVars>>
        /\ calling.type = "data" /\ calling'.type = "idle" /\ NextEvent("call")
        /\ \/ calling.ok /\ SetClipboardData(calling.copy)
              /\ clipEvents' = Append(Tail(clipEvents), "changed")
           \/ ~calling.ok /\ clipEvents' = Tail(clipEvents) /\ UNCHANGED desktop
    BY <1>6 DEF OnClientFormatDataResponse, Called, Idle
  <2>2. /\ Range(clipEvents) = {"call"} \union Range(Tail(clipEvents))
        /\ Range(Append(Tail(clipEvents), "changed")) = Range(Tail(clipEvents)) \union {"changed"}
    BY <2>1, EventTaken DEF ClipEvents
  <2>3. calling.ok => desktop'.copy = calling.copy /\ desktop'.owner # "application"
    BY <2>1 DEF SetClipboardData
  <2>4. "changed" \in Range(clipEvents') => desktop'.owner # "application"
    BY <2>1, <2>2, <2>3
  <2>5. "send" \in Range(clipEvents') => "send" \in Range(clipEvents)
    BY <2>1, <2>2
  <2>6. ASSUME NEW c, Arriving(c), c = clientClip.copy
        PROVE  Arriving(c)'
    BY <2>1, <2>3, <2>6 DEF Arriving, IsListOf, IsAnswerOf, channelVars
  <2> DEFINE c == clientClip.copy
  <2>7. IsText(c) /\ handshake => Arriving(clientClip.copy)'
    BY <2>1, <2>6 DEF Arriving, clientVars
  <2> QED  BY <2>1, <2>4, <2>5, <2>7 DEF serverVars, channelVars, clientVars
<1>7. CASE ClientAnswers
  <2>1. UNCHANGED <<serverVars, calling, clipEvents, toClient, desktop, clientClip>>
    BY <1>7 DEF ClientAnswers
  <2>2. \E i \in DOMAIN toServer' : toServer'[i] = List
    <3>1. \/ toServer' = <<[type |-> "capabilities"]>> \o <<List>>
          \/ toServer' = <<List>>
      BY <1>7 DEF ClientAnswers
    <3>2. toServer' = <<[type |-> "capabilities"]>> \o <<List>> =>
              2 \in DOMAIN toServer' /\ toServer'[2] = List
      OBVIOUS
    <3>3. toServer' = <<List>> => 1 \in DOMAIN toServer' /\ toServer'[1] = List
      OBVIOUS
    <3> QED  BY <3>1, <3>2, <3>3
  <2>3. \E m \in Range(toServer') : m.type = "list" /\ m.copy = clientClip.copy
    BY <2>2 DEF Range, List
  <2>4. Arriving(clientClip.copy)'
    BY <2>1, <2>3 DEF Arriving, IsListOf
  <2> QED  BY <2>1, <2>4 DEF serverVars
<1>8. CASE Client
  <2>1. toClient # <<>> /\ toClient' = Tail(toClient) /\ handshake
    BY <1>8 DEF Client, ClientReceivesList, ClientReceivesRequest, SetUpInv
  <2>2. Range(toClient) = {Head(toClient)} \union Range(Tail(toClient))
    BY <2>1, RangeTail DEF ClipboardTypeOK
  <2>3. ClientReceivesRequest
    BY <1>8, <2>2 DEF Client, ClientReceivesList
  <2>4. PICK answer \in Answers : toServer' = Append(toServer, answer)
    BY <2>3 DEF ClientReceivesRequest
  <2>5. UNCHANGED <<serverVars, calling, clipEvents, desktop, clientVars>>
    BY <2>3 DEF ClientReceivesRequest
  <2>6. ASSUME NEW c, c = clientClip.copy, IsText(c)
        PROVE  NewestIs(toServer', c)
    <3>1. answer \in Messages
      BY MessagesMade DEF Answers, ClipboardTypeOK
    <3>2. IsAnswerOf(answer, c)
      BY <2>6 DEF Answers, IsAnswerOf
    <3> QED  BY <2>4, <3>1, <3>2, NewestAppended DEF ClipboardTypeOK
  <2> DEFINE c == clientClip.copy
  <2>7. IsText(c) => Arriving(clientClip.copy)'
    BY <2>5, <2>6 DEF Arriving, clientVars
  <2> QED  BY <2>1, <2>2, <2>5, <2>7 DEF serverVars, clientVars
<1> QED  BY <1>1, <1>2, <1>3, <1>4, <1>5, <1>6, <1>7, <1>8 DEF MainThread

\* A copy of either side, made when it may be, is then the last.
LEMMA DesktopCopyLast ==
  ASSUME ClipboardTypeOK, SetUpInv, DesktopLast \/ ClientLast, ~mayCross, DesktopCopies
  PROVE  DesktopLast'
<1>1. /\ UNCHANGED <<serverVars, calling, channelVars, clientVars>>
      /\ clipEvents' = Append(clipEvents, "changed") /\ desktop'.owner = "application"
      /\ copied["client"] = 0 \/ (Settled /\ handshake)
  BY DEF DesktopCopies, MayCopy
<1>2. "changed" \in Range(clipEvents')
  BY <1>1, EventMade DEF ClipEvents
<1>3. Announcing'
  BY <1>1, <1>2 DEF Announcing
<1>4. CASE DesktopLast
  BY <1>1, <1>3, <1>4 DEF DesktopLast, channelVars, clientVars
<1>5. CASE ClientLast
  <2>1. Settled /\ handshake
    BY <1>1, <1>5 DEF ClientLast, SetUpInv
  <2>2. Range(toServer') = {} /\ Range(toClient') = {} /\ calling'.type = "idle" /\ handshake'
    BY <1>1, <2>1, RangeEmpty DEF Settled, channelVars, clientVars, Idle
  <2> QED  BY <1>3, <2>2 DEF DesktopLast
<1> QED  BY <1>4, <1>5

LEMMA ClientCopyLast ==
  ASSUME ClipboardTypeOK, SetUpInv, DesktopLast \/ ClientLast, ~mayCross, ClientCopies
  PROVE  ClientLast'
<1>1. /\ UNCHANGED <<serverVars, calling, clipEvents, toClient, desktop, handshake>>
      /\ toServer' = IF handshake THEN Append(toServer, List') ELSE toServer
      /\ clientClip'.owner = "client" /\ List'.type = "list" /\ List'.copy = clientClip'.copy
      /\ copied["desktop"] = 0 \/ (Settled /\ handshake /\ clipStep = "open")
  BY DEF ClientCopies, MayCopy, List
<1>2. clientClip'.copy # NoCopy
  BY DEF ClientCopies, NoCopy
<1>3. handshake => Arriving(clientClip.copy)'
  <2> SUFFICES ASSUME handshake PROVE Arriving(clientClip.copy)'
    OBVIOUS
  <2>1. List' \in Range(toServer')
    BY <1>1, ClientCopyTypes, RangeAppend DEF ClipboardTypeOK
  <2> QED  BY <1>1, <2>1 DEF Arriving, IsListOf
<1>4. /\ \A m \in Range(toClient) : m.type = "request"
      /\ "changed" \in Range(clipEvents) => desktop.owner # "application"
      /\ serverData # NoCopy => clientReady /\ clipStep = "open" /\ "send" \notin Range(clipEvents)
  <2>1. CASE ClientLast
    BY <2>1 DEF ClientLast
  <2>2. CASE DesktopLast /\ Blank
    BY <2>2, RangeEmpty DEF Blank
  <2>3. CASE DesktopLast /\ Announcing
    <3>1. Settled /\ handshake /\ clipStep = "open"
      BY <1>1, <2>3 DEF Announcing, SetUpInv
    <3>2. clientReady
      BY <3>1, RangeEmpty DEF Settled, SetUpInv, Greeting, Idle
    <3> QED  BY <3>1, <3>2, RangeEmpty DEF Settled
  <2> QED  BY <2>1, <2>2, <2>3 DEF DesktopLast
<1> QED  BY <1>1, <1>2, <1>3, <1>4 DEF ClientLast, serverVars

LEMMA AgreeInit == ClipboardInit => AgreeInv
<1> SUFFICES ASSUME ClipboardInit PROVE AgreeInv
  OBVIOUS
<1>1. SetUpInv
  BY DEF ClipboardInit, SetUpInv
<1>2. DesktopLast
  BY RangeEmpty DEF ClipboardInit, DesktopLast, Blank, Idle
<1> QED  BY <1>1, <1>2, ClipboardTypeInit DEF AgreeInv

LEMMA AgreeStep == AgreeInv /\ [ClipboardNext]_clipboardVars => AgreeInv'
<1> SUFFICES ASSUME AgreeInv, [ClipboardNext]_clipboardVars PROVE AgreeInv'
  OBVIOUS
<1>1. ClipboardTypeOK'
  BY ClipboardTypeStep DEF AgreeInv
<1>2. CASE UNCHANGED clipboardVars
  <2>1. SetUpInv'
    BY <1>2 DEF clipboardVars, serverVars, channelVars, clientVars, AgreeInv, SetUpInv, Greeting
  <2>2. OneUser' = OneUser /\ DesktopLast' = DesktopLast
    BY <1>2 DEF clipboardVars, serverVars, channelVars, clientVars, OneUser, DesktopLast, Blank,
       Announcing
  <2>3. ClientLast => ClientLast'
    BY <1>2 DEF clipboardVars, serverVars, channelVars, clientVars, ClientLast, Arriving
  <2> QED  BY <1>1, <2>1, <2>2, <2>3 DEF AgreeInv
<1>3. CASE ClipboardNext
  <2>1. SetUpInv'
    BY <1>3, MainThreadSetsUp, OthersSetUp DEF AgreeInv, ClipboardNext
  <2>2. ASSUME OneUser' PROVE DesktopLast' \/ ClientLast'
    <3>1. OneUser /\ ~CloseClipboard
      BY <1>3, <2>2 DEF OneUser, AgreeInv, ClipboardTypeOK, ClipboardNext, StartClipboard,
         EnableClipboard, CloseClipboard, CallMainThread, MainThread, OnClipboardChanged,
         SendServerData, OnClientCapabilities, OnClientFormatList, OnClientFormatDataResponse,
         DesktopCopies, ClientAnswers, ClientCopies, Client, ClientReceivesList,
         ClientReceivesRequest, serverVars
    <3>2. DesktopLast \/ ClientLast
      BY <3>1 DEF AgreeInv
    <3> QED  BY <1>3, <3>1, <3>2, DesktopLastKept, ClientLastKept, DesktopCopyLast, ClientCopyLast
             DEF AgreeInv, OneUser, ClipboardNext
  <2> QED  BY <1>1, <2>1, <2>2 DEF AgreeInv
<1> QED  BY <1>2, <1>3

LEMMA ClipboardsAgreeHolds == ClipboardSafety => []ClipboardsAgree
<1>1. AgreeInv => ClipboardsAgree
  <2> SUFFICES ASSUME AgreeInv, clipStep = "open", handshake, Settled, ~mayCross
               PROVE  \/ ClientSees = desktop.copy
                      \/ clientClip.owner = "client" /\ clientClip.copy # NoCopy
                         /\ ~IsText(clientClip.copy)
    BY DEF ClipboardsAgree
  <2>1. /\ Range(clipEvents) = {} /\ Range(toServer) = {} /\ toClient = <<>> /\ toServer = <<>>
        /\ calling.type = "idle"
    BY RangeEmpty DEF Settled, Idle
  <2>2. clientReady
    BY <2>1 DEF AgreeInv, SetUpInv, Greeting
  <2>3. CASE DesktopLast
    BY <2>1, <2>2, <2>3 DEF DesktopLast, Blank, Announcing, ClientSees, PasteResult
  <2>4. CASE ClientLast
    <3>1. ~NewestIs(toServer, clientClip.copy)
      BY <2>1 DEF NewestIs
    <3> QED  BY <2>1, <2>4, <3>1 DEF ClientLast, Arriving, IsListOf, ClientSees
  <2> QED  BY <2>3, <2>4 DEF AgreeInv, OneUser
<1> QED  BY <1>1, AgreeInit, AgreeStep, PTL DEF ClipboardSafety

\* With one user, both sides have the same text whenever nothing is under way, for every
\* number of copies, whichever are text, and every number of text formats: in each state the
\* channel is in before it is closed, one side copied last, and what is under way leads to
\* its copy.
THEOREM ClipboardsAgreeCorrect == ClipboardSpec => []ClipboardsAgree
<1>1. ClipboardSpec => ClipboardSafety
  BY DEF ClipboardSpec, ClipboardSafety
<1> QED  BY <1>1, ClipboardsAgreeHolds

-----------------------------------------------------------------------------
(***************************************************************************)
(* Why a copy of the desktop is announced, also while copies of both sides *)
(* cross. That what is under way arrives needs fairness, and is checked    *)
(* (CopyIsAnnounced).                                                      *)
(***************************************************************************)
NewestListIs(s, c) ==
    \E i \in DOMAIN s : IsListOf(s[i], c) /\ \A j \in DOMAIN s : j > i => s[j].type # "list"
NoListIn(s) == \A i \in DOMAIN s : s[i].type # "list"

\* What an application has copied is kept for the client, or is going to be looked at; what
\* is kept is to be sent, or is the newest the client has been sent.
AnnounceInv ==
    /\ desktop.owner = "application" => serverData = desktop.copy \/ "changed" \in Range(clipEvents)
    /\ clipStep = "open" /\ clientReady /\ serverData # NoCopy =>
          \/ "send" \in Range(clipEvents)
          \/ NewestListIs(toClient, serverData)
          \/ NoListIn(toClient) /\ announced = serverData[2]

\* A list that is sent is the newest, ...
LEMMA ListAppended ==
  ASSUME NEW S, NEW s \in Seq(S), NEW m \in S, NEW c, IsListOf(m, c)
  PROVE  NewestListIs(Append(s, m), c)
<1>1. /\ DOMAIN Append(s, m) = 1..Len(s) + 1 /\ Len(s) \in Nat /\ Append(s, m)[Len(s) + 1] = m
  BY AppendProperties, LenProperties
<1>2. Len(s) + 1 \in DOMAIN Append(s, m) /\ \A j \in DOMAIN Append(s, m) : ~(j > Len(s) + 1)
  BY <1>1
<1> QED  BY <1>1, <1>2 DEF NewestListIs

\* ... also with requests behind it, ...
LEMMA ListFollowed ==
  ASSUME NEW S, NEW s \in Seq(S), NEW r \in Seq(S), NoListIn(r)
  PROVE  /\ \A c : NewestListIs(s, c) => NewestListIs(s \o r, c)
         /\ NoListIn(s) => NoListIn(s \o r)
<1>1. /\ Len(s) \in Nat /\ Len(r) \in Nat /\ DOMAIN s = 1..Len(s) /\ DOMAIN r = 1..Len(r)
      /\ DOMAIN (s \o r) = 1..Len(s) + Len(r)
      /\ \A i \in 1..Len(s) + Len(r) :
            (s \o r)[i] = IF i <= Len(s) THEN s[i] ELSE r[i - Len(s)]
  BY ConcatProperties, LenProperties
<1>2. \A i \in DOMAIN s : i \in DOMAIN (s \o r) /\ (s \o r)[i] = s[i]
  BY <1>1
<1>3. \A j \in DOMAIN (s \o r) : j \in DOMAIN s \/ (s \o r)[j].type # "list"
  <2> SUFFICES ASSUME NEW j \in DOMAIN (s \o r), j \notin DOMAIN s PROVE (s \o r)[j].type # "list"
    OBVIOUS
  <2>1. j - Len(s) \in DOMAIN r /\ (s \o r)[j] = r[j - Len(s)]
    BY <1>1
  <2> QED  BY <2>1 DEF NoListIn
<1>4. ASSUME NEW c, NewestListIs(s, c) PROVE NewestListIs(s \o r, c)
  <2>1. PICK i \in DOMAIN s : IsListOf(s[i], c) /\ \A j \in DOMAIN s : j > i => s[j].type # "list"
    BY <1>4 DEF NewestListIs
  <2>2. \A j \in DOMAIN (s \o r) : j > i => (s \o r)[j].type # "list"
    BY <1>2, <1>3, <2>1
  <2> QED  BY <1>2, <2>1, <2>2 DEF NewestListIs
<1>5. NoListIn(s) => NoListIn(s \o r)
  BY <1>2, <1>3 DEF NoListIn
<1> QED  BY <1>4, <1>5

\* ... and until it is taken.
LEMMA ListTaken ==
  ASSUME NEW S, NEW s \in Seq(S), s # <<>>
  PROVE  /\ \A c : NewestListIs(s, c) =>
                NewestListIs(Tail(s), c) \/ (IsListOf(Head(s), c) /\ NoListIn(Tail(s)))
         /\ NoListIn(s) => Head(s).type # "list" /\ NoListIn(Tail(s))
<1>1. /\ Head(s) = s[1] /\ Len(Tail(s)) = Len(s) - 1
      /\ \A i \in 1..Len(Tail(s)) : Tail(s)[i] = s[i + 1]
      /\ DOMAIN s = 1..Len(s) /\ Len(s) \in Nat /\ Len(s) >= 1
      /\ DOMAIN Tail(s) = 1..Len(s) - 1
  BY HeadTailProperties, LenProperties, EmptySeq
<1>2. ASSUME NEW c, NewestListIs(s, c)
      PROVE  NewestListIs(Tail(s), c) \/ (IsListOf(Head(s), c) /\ NoListIn(Tail(s)))
  <2>1. PICK i \in DOMAIN s : IsListOf(s[i], c) /\ \A j \in DOMAIN s : j > i => s[j].type # "list"
    BY <1>2 DEF NewestListIs
  <2>2. CASE i = 1
    <3>1. \A j \in DOMAIN Tail(s) : Tail(s)[j].type # "list"
      BY <1>1, <2>1, <2>2
    <3> QED  BY <1>1, <2>1, <2>2, <3>1 DEF NoListIn
  <2>3. CASE i # 1
    <3>1. i - 1 \in DOMAIN Tail(s) /\ Tail(s)[i - 1] = s[i]
      BY <1>1, <2>3
    <3>2. \A j \in DOMAIN Tail(s) : j > i - 1 => Tail(s)[j].type # "list"
      BY <1>1, <2>1
    <3> QED  BY <2>1, <3>1, <3>2 DEF NewestListIs
  <2> QED  BY <2>2, <2>3
<1>3. NoListIn(s) => Head(s).type # "list" /\ NoListIn(Tail(s))
  BY <1>1 DEF NoListIn
<1> QED  BY <1>2, <1>3

LEMMA MainThreadAnnounces ==
  ASSUME ClipboardTypeOK, AnnounceInv, MainThread
  PROVE  AnnounceInv'
<1> USE DEF AnnounceInv
<1>0. toClient \in Seq(Messages)
  BY DEF ClipboardTypeOK
<1>1. CASE OnClipboardChanged
  <2>1. /\ UNCHANGED <<clipStep, clientReady, desktop, toClient, announced>>
        /\ NextEvent("changed")
    BY <1>1 DEF OnClipboardChanged, channelVars, clientVars
  <2>2. CASE desktop.owner \in {"krdp", "nobody"}
    <3>1. clipEvents' = Tail(clipEvents) /\ UNCHANGED serverData
      BY <1>1, <2>2 DEF OnClipboardChanged
    <3>2. "send" \in Range(clipEvents) => "send" \in Range(clipEvents')
      BY <2>1, <3>1, EventTaken
    <3> QED  BY <2>1, <2>2, <3>1, <3>2
  <2>3. CASE desktop.owner \notin {"krdp", "nobody"}
    <3>1. serverData' = desktop.copy /\ clipEvents' = Append(Tail(clipEvents), "send")
      BY <1>1, <2>3 DEF OnClipboardChanged, PutServerData
    <3>2. "send" \in Range(clipEvents')
      BY <2>1, <3>1, EventTaken DEF ClipEvents
    <3> QED  BY <2>1, <3>1, <3>2
  <2> QED  BY <2>2, <2>3
<1>2. CASE SendServerData
  <2>1. /\ UNCHANGED <<clipStep, clientReady, serverData, desktop, announced>> /\ NextEvent("send")
        /\ clipEvents' = Tail(clipEvents)
        /\ serverData # NoCopy /\ clipStep = "open" /\ clientReady =>
               toClient' = Append(toClient, [type |-> "list", copy |-> serverData])
    BY <1>2 DEF SendServerData, serverVars, clientVars
  <2>2. "changed" \in Range(clipEvents) => "changed" \in Range(clipEvents')
    BY <2>1, EventTaken
  <2>3. serverData # NoCopy /\ clipStep = "open" /\ clientReady => NewestListIs(toClient', serverData)
    <3> SUFFICES ASSUME serverData # NoCopy, clipStep = "open", clientReady
                 PROVE  NewestListIs(toClient', serverData)
      OBVIOUS
    <3> DEFINE m == [type |-> "list", copy |-> serverData]
    <3>1. m \in Messages /\ IsListOf(m, serverData) /\ toClient' = Append(toClient, m)
      BY <2>1, MessagesMade DEF ClipboardTypeOK, IsListOf
    <3> HIDE DEF m
    <3> QED  BY <1>0, <3>1, ListAppended
  <2> QED  BY <2>1, <2>2, <2>3
<1>3. CASE OnClientCapabilities \/ OnClientFormatList
  <2>1. /\ UNCHANGED <<clipStep, serverData, desktop, announced>>
        /\ clientReady' = TRUE /\ NextEvent("call")
        /\ clipEvents' = IF clientReady THEN Tail(clipEvents) ELSE Append(Tail(clipEvents), "send")
    BY <1>3 DEF OnClientCapabilities, OnClientFormatList, MarkClientReady, Called, channelVars, clientVars
  <2>2. /\ \A e \in {"send", "changed"} : e \in Range(clipEvents) => e \in Range(clipEvents')
        /\ ~clientReady => "send" \in Range(clipEvents')
    BY <2>1, EventTaken DEF ClipEvents
  <2> DEFINE requests == [i \in 1..TextFormats |-> [type |-> "request"]]
  <2>3. requests \in Seq(Messages) /\ NoListIn(requests)
    BY MessagesMade, ClipboardAssumption DEF NoListIn
  <2>4. toClient' = toClient \/ toClient' = toClient \o requests
    BY <1>3 DEF OnClientCapabilities, OnClientFormatList, channelVars
  <2> HIDE DEF requests
  <2>5. /\ NewestListIs(toClient, serverData) => NewestListIs(toClient', serverData)
        /\ NoListIn(toClient) => NoListIn(toClient')
    BY <1>0, <2>3, <2>4, ListFollowed
  <2> QED  BY <2>1, <2>2, <2>5
<1>4. CASE OnClientFormatDataResponse
  <2>1. /\ UNCHANGED <<clipStep, clientReady, serverData, toClient, announced>> /\ NextEvent("call")
        /\ clipEvents' = Tail(clipEvents) \/ clipEvents' = Append(Tail(clipEvents), "changed")
        /\ desktop' = desktop \/ desktop'.owner # "application"
    BY <1>4 DEF OnClientFormatDataResponse, Called, SetClipboardData, serverVars, channelVars, clientVars
  <2>2. \A e \in {"send", "changed"} : e \in Range(clipEvents) => e \in Range(clipEvents')
    BY <2>1, EventTaken DEF ClipEvents
  <2> QED  BY <2>1, <2>2
<1> QED  BY <1>1, <1>2, <1>3, <1>4 DEF MainThread

LEMMA OthersAnnounce ==
  ASSUME ClipboardTypeOK, SetUpInv, AnnounceInv,
         \/ StartClipboard \/ EnableClipboard \/ CloseClipboard \/ CallMainThread
         \/ DesktopCopies \/ ClientAnswers \/ ClientCopies \/ Client
  PROVE  AnnounceInv'
<1> USE DEF AnnounceInv
<1>1. CASE StartClipboard \/ CloseClipboard \/ ClientAnswers \/ ClientCopies
  <2>1. /\ UNCHANGED <<clientReady, serverData, desktop, clipEvents, toClient, announced>>
        /\ clipStep' = "open" => clipStep = "open"
    BY <1>1 DEF StartClipboard, CloseClipboard, ClientAnswers, ClientCopies, serverVars, channelVars, clientVars
  <2> QED  BY <2>1
<1>2. CASE EnableClipboard \/ CallMainThread \/ DesktopCopies
  <2>1. /\ UNCHANGED <<clientReady, serverData, toClient, announced>>
        /\ \/ EnableClipboard /\ clipEvents' = Append(clipEvents, "send") /\ UNCHANGED desktop
           \/ clipEvents' = Append(clipEvents, "call") /\ UNCHANGED <<desktop, clipStep>>
           \/ clipEvents' = Append(clipEvents, "changed") /\ UNCHANGED clipStep
    BY <1>2 DEF EnableClipboard, CallMainThread, DesktopCopies, serverVars, channelVars, clientVars
  <2>2. \A e \in ClipEvents : Range(Append(clipEvents, e)) = Range(clipEvents) \union {e}
    BY EventMade
  <2> QED  BY <2>1, <2>2 DEF ClipEvents
<1>3. CASE Client
  <2>1. /\ UNCHANGED <<clipStep, clientReady, serverData, desktop, clipEvents>>
        /\ toClient # <<>> /\ toClient' = Tail(toClient) /\ toClient \in Seq(Messages)
    BY <1>3 DEF Client, ClientReceivesList, ClientReceivesRequest, serverVars, ClipboardTypeOK
  <2>2. Head(toClient).type # "list" => UNCHANGED announced
    BY <1>3 DEF Client, ClientReceivesList, ClientReceivesRequest, clientVars
  <2>3. Head(toClient).type = "list" => announced' = Head(toClient).copy[2]
    <3>1. handshake
      BY <2>1 DEF SetUpInv
    <3> QED  BY <1>3, <3>1 DEF Client, ClientReceivesList, ClientReceivesRequest
  <2> QED  BY <2>1, <2>2, <2>3, ListTaken DEF IsListOf
<1> QED  BY <1>1, <1>2, <1>3

\* A copy that an application has made is going to be looked at, or is kept for the client
\* and on its way to be announced, by an event of the main thread, by the client's first
\* message that is still to be handled, or on the channel; or it was the last announced.
AnnouncementComes ==
    clipStep = "open" /\ handshake /\ desktop.owner = "application" =>
        \/ "changed" \in Range(clipEvents)
        \/ /\ serverData = desktop.copy
           /\ \/ "send" \in Range(clipEvents)
              \/ ~clientReady /\ (Greeting(calling) \/ \E m \in Range(toServer) : Greeting(m))
              \/ \E m \in Range(toClient) : IsListOf(m, desktop.copy)
              \/ announced = desktop.copy[2]

LEMMA AnnounceInvHolds == ClipboardSafety => [](SetUpInv /\ AnnounceInv)
<1>1. ClipboardInit => AnnounceInv
  BY DEF ClipboardInit, AnnounceInv
<1>2. AgreeInv /\ AnnounceInv /\ [ClipboardNext]_clipboardVars => AnnounceInv'
  <2> SUFFICES ASSUME AgreeInv, AnnounceInv, [ClipboardNext]_clipboardVars PROVE AnnounceInv'
    OBVIOUS
  <2>1. CASE UNCHANGED clipboardVars
    BY <2>1 DEF clipboardVars, serverVars, channelVars, clientVars, AnnounceInv
  <2> QED  BY <2>1, MainThreadAnnounces, OthersAnnounce DEF AgreeInv, ClipboardNext
<1>3. AgreeInv => SetUpInv
  BY DEF AgreeInv
<1> QED  BY <1>1, <1>2, <1>3, AgreeInit, AgreeStep, PTL DEF ClipboardSafety

\* No copy of the desktop is forgotten, however the copies of both sides cross and whichever
\* of session, channel and client comes first.
THEOREM NoCopyIsForgotten == ClipboardSpec => []AnnouncementComes
<1>1. SetUpInv /\ AnnounceInv => AnnouncementComes
  <2> SUFFICES ASSUME SetUpInv, AnnounceInv, clipStep = "open", handshake,
                      desktop.owner = "application", "changed" \notin Range(clipEvents)
               PROVE  /\ serverData = desktop.copy
                      /\ \/ "send" \in Range(clipEvents)
                         \/ ~clientReady /\ (Greeting(calling) \/ \E m \in Range(toServer) : Greeting(m))
                         \/ \E m \in Range(toClient) : IsListOf(m, desktop.copy)
                         \/ announced = desktop.copy[2]
    BY DEF AnnouncementComes
  <2>1. serverData = desktop.copy /\ serverData # NoCopy
    BY DEF AnnounceInv, SetUpInv
  <2>2. CASE ~clientReady
    BY <2>1, <2>2 DEF SetUpInv
  <2>3. CASE clientReady
    BY <2>1, <2>3 DEF AnnounceInv, NewestListIs, Range
  <2> QED  BY <2>1, <2>2, <2>3
<1>2. ClipboardSpec => ClipboardSafety
  BY DEF ClipboardSpec, ClipboardSafety
<1> QED  BY <1>1, <1>2, AnnounceInvHolds, PTL

-----------------------------------------------------------------------------
(***************************************************************************)
(* The devices. The device an input is sent to is a function of krdp's     *)
(* lists; while something is down on it, it stays the one: devices that    *)
(* come are put behind it, and one that goes is another, since the server  *)
(* lets go of what is down on a device before it tells of its removal.     *)
(***************************************************************************)

LEMMA FirstIsUnique ==
  ASSUME NEW s \in Seq(InputDevs), NEW i \in DOMAIN s, IsFirstWithButtons(s, i)
  PROVE  FirstWithButtons(s) = s[i]
<1>1. \A j \in DOMAIN s : IsFirstWithButtons(s, j) => j = i
  BY DEF IsFirstWithButtons
<1> QED  BY <1>1 DEF FirstWithButtons

LEMMA FirstExists ==
  ASSUME NEW s \in Seq(InputDevs), FirstWithButtons(s) # NoDev
  PROVE  \E i \in DOMAIN s : IsFirstWithButtons(s, i) /\ s[i] = FirstWithButtons(s)
  BY DEF FirstWithButtons

\* A device that comes last changes nothing.
LEMMA FirstStaysWithPointer ==
  ASSUME NEW s \in Seq(InputDevs), NEW d \in InputDevs, FirstWithButtons(s) # NoDev
  PROVE  FirstWithButtons(WithPointer(s, d)) = FirstWithButtons(s)
<1>1. PICK i \in DOMAIN s : IsFirstWithButtons(s, i) /\ s[i] = FirstWithButtons(s)
  BY FirstExists
<1> DEFINE t == WithPointer(s, d)
<1>2. t \in Seq(InputDevs) /\ Len(t) = Len(s) + 1 /\ \A j \in DOMAIN s : t[j] = s[j]
  BY DEF WithPointer
<1>3. i \in DOMAIN t /\ t[i] = s[i] /\ IsFirstWithButtons(t, i)
  BY <1>1, <1>2 DEF IsFirstWithButtons
<1> QED  BY <1>1, <1>2, <1>3, FirstIsUnique

\* What is left when the device at k is taken out.
LEMMA RemovedAt ==
  ASSUME NEW s \in Seq(InputDevs), NEW k \in DOMAIN s
  PROVE  /\ RemoveAt(s, k) \in Seq(InputDevs)
         /\ Len(RemoveAt(s, k)) = Len(s) - 1
         /\ \A j \in 1..Len(s) - 1 : RemoveAt(s, k)[j] = IF j < k THEN s[j] ELSE s[j + 1]
<1> DEFINE a == SubSeq(s, 1, k - 1)
           b == SubSeq(s, k + 1, Len(s))
<1>1. RemoveAt(s, k) = a \o b
  BY DEF RemoveAt
<1>0. k \in 1..Len(s) /\ Len(s) \in Nat
  OBVIOUS
<1>2. a \in Seq(InputDevs) /\ Len(a) = k - 1 /\ \A j \in 1..k - 1 : a[j] = s[j]
  OBVIOUS
<1>3. b \in Seq(InputDevs) /\ Len(b) = Len(s) - k /\ \A j \in 1..Len(s) - k : b[j] = s[j + k]
  OBVIOUS
<1> HIDE DEF a, b
<1>4. /\ a \o b \in Seq(InputDevs)
      /\ Len(a \o b) = Len(a) + Len(b)
      /\ \A j \in 1..Len(a) + Len(b) :
             (a \o b)[j] = IF j <= Len(a) THEN a[j] ELSE b[j - Len(a)]
  BY <1>2, <1>3, ConcatProperties
<1>5. Len(a) = k - 1 /\ Len(a) + Len(b) = Len(s) - 1
  BY <1>0, <1>2, <1>3
<1>6. ASSUME NEW j \in 1..Len(s) - 1
      PROVE  (a \o b)[j] = IF j < k THEN s[j] ELSE s[j + 1]
  <2>1. (a \o b)[j] = IF j <= k - 1 THEN a[j] ELSE b[j - (k - 1)]
    BY <1>4, <1>5
  <2>2. CASE j < k
    <3>1. j <= k - 1 /\ j \in 1..k - 1
      BY <1>0, <2>2
    <3> QED  BY <1>2, <2>1, <2>2, <3>1
  <2>3. CASE ~(j < k)
    <3>1. ~(j <= k - 1) /\ j - (k - 1) \in 1..Len(s) - k /\ (j - (k - 1)) + k = j + 1
      BY <1>0, <2>3
    <3>2. b[j - (k - 1)] = s[j + 1]
      BY <1>3, <3>1
    <3> QED  BY <2>1, <2>3, <3>1, <3>2
  <2> QED  BY <2>2, <2>3
<1> QED  BY <1>1, <1>4, <1>5, <1>6

\* Nor does another one that goes.
LEMMA FirstStaysErased ==
  ASSUME NEW s \in Seq(InputDevs), NEW d, FirstWithButtons(s) \notin {NoDev, d}
  PROVE  FirstWithButtons(EraseDevice(s, d)) = FirstWithButtons(s)
<1>1. PICK i \in DOMAIN s : IsFirstWithButtons(s, i) /\ s[i] = FirstWithButtons(s)
  BY FirstExists
<1>2. CASE \E k \in DOMAIN s : s[k] = d
  <2> DEFINE k == CHOOSE j \in DOMAIN s : s[j] = d
             t == RemoveAt(s, k)
  <2>1. k \in DOMAIN s /\ s[k] = d
    BY <1>2
  <2>2. EraseDevice(s, d) = t
    BY <1>2 DEF EraseDevice
  <2>3. k # i
    BY <1>1, <2>1
  <2> HIDE DEF k
  <2>4. /\ t \in Seq(InputDevs) /\ Len(t) = Len(s) - 1
        /\ \A j \in 1..Len(s) - 1 : t[j] = IF j < k THEN s[j] ELSE s[j + 1]
    BY <2>1, RemovedAt
  <2> HIDE DEF t
  <2>5. CASE i < k
    <3>1. i \in 1..Len(s) - 1 /\ \A j \in 1..i - 1 : j \in 1..Len(s) - 1 /\ j < k
      BY <1>1, <2>1, <2>5
    <3>2. i \in DOMAIN t /\ t[i] = s[i] /\ \A j \in 1..i - 1 : t[j] = s[j]
      BY <2>4, <2>5, <3>1
    <3>3. IsFirstWithButtons(t, i)
      BY <1>1, <3>2 DEF IsFirstWithButtons
    <3> QED  BY <1>1, <2>2, <2>4, <3>2, <3>3, FirstIsUnique
  <2>6. CASE k < i
    <3>1. i - 1 \in DOMAIN t /\ t[i - 1] = s[i]
      BY <1>1, <2>1, <2>4, <2>6
    <3>2. ASSUME NEW j \in 1..(i - 1) - 1 PROVE ~Has(t[j], "button")
      <4>1. j \in 1..Len(s) - 1 /\ j \in 1..i - 1 /\ j + 1 \in 1..i - 1
        BY <1>1, <2>4
      <4>2. t[j] = s[j] \/ t[j] = s[j + 1]
        BY <2>4, <4>1
      <4> QED  BY <1>1, <4>1, <4>2 DEF IsFirstWithButtons
    <3>3. IsFirstWithButtons(t, i - 1)
      BY <1>1, <3>1, <3>2 DEF IsFirstWithButtons
    <3> QED  BY <1>1, <2>2, <2>4, <3>1, <3>3, FirstIsUnique
  <2> QED  BY <1>1, <2>1, <2>3, <2>5, <2>6
<1>3. CASE ~\E k \in DOMAIN s : s[k] = d
  BY <1>3 DEF EraseDevice
<1> QED  BY <1>2, <1>3

LEMMA EraseType ==
  ASSUME NEW s \in Seq(InputDevs), NEW d
  PROVE  EraseDevice(s, d) \in Seq(InputDevs)
  BY RemovedAt DEF EraseDevice

StuckInv ==
    /\ InputTypeOK
    /\ \A p \in serverDown : p[2] \in clientDown /\ p[1] \in serverDevices /\ p[1] = DeviceOf(p[2])
    /\ serverDown # {} => emulating
    /\ \A i \in DOMAIN deviceEvents :
           deviceEvents[i].what = "Removed" => deviceEvents[i].device \notin serverDevices

LEMMA StuckInit == InputInit => StuckInv
<1> SUFFICES ASSUME InputInit PROVE StuckInv
  OBVIOUS
<1>1. InputTypeOK
  <2>1. <<>> \in Seq(InputDevs) /\ <<>> \in Seq(DeviceEvents)
    OBVIOUS
  <2> QED  BY <2>1 DEF InputInit, InputTypeOK
<1>2. serverDown = {} /\ deviceEvents = <<>>
  BY DEF InputInit
<1> QED  BY <1>1, <1>2 DEF StuckInv

LEMMA DeviceKept ==
  ASSUME InputTypeOK, UNCHANGED <<pointerDevices, textDevice>>
  PROVE  \A x : DeviceOf(x)' = DeviceOf(x)
  BY DEF DeviceOf

LEMMA InputKeeps ==
  ASSUME StuckInv, NEW isPress \in BOOLEAN, NEW x \in Inputs, InputEvent(isPress, x)
  PROVE  StuckInv'
<1>1. \A y : DeviceOf(y)' = DeviceOf(y)
  BY DeviceKept DEF StuckInv, InputEvent, krdpVars
<1>2. UNCHANGED <<pointerDevices, textDevice, emulating, serverDevices, deviceEvents>>
  BY DEF InputEvent, krdpVars
<1>3. CASE ~emulating \/ DeviceOf(x) \notin serverDevices
  BY <1>1, <1>2, <1>3 DEF StuckInv, InputTypeOK, InputEvent
<1>4. CASE emulating /\ DeviceOf(x) \in serverDevices /\ isPress
  BY <1>1, <1>2, <1>4 DEF StuckInv, InputTypeOK, InputEvent
<1>5. CASE emulating /\ DeviceOf(x) \in serverDevices /\ ~isPress
  BY <1>1, <1>2, <1>5 DEF StuckInv, InputTypeOK, InputEvent
<1> QED  BY <1>3, <1>4, <1>5

\* The device something is down on is still the one its release would be sent to.
LEMMA ProcessKeeps ==
  ASSUME StuckInv, ProcessDeviceEvent
  PROVE  StuckInv'
<1> DEFINE e == Head(deviceEvents)
<1>1. /\ e \in DeviceEvents /\ e = deviceEvents[1] /\ 1 \in DOMAIN deviceEvents
      /\ deviceEvents' \in Seq(DeviceEvents)
      /\ \A i \in DOMAIN deviceEvents' : i + 1 \in DOMAIN deviceEvents /\ deviceEvents'[i] = deviceEvents[i + 1]
  BY DEF StuckInv, InputTypeOK, ProcessDeviceEvent
<1>2. e.device \in InputDevs
  BY <1>1 DEF DeviceEvents
<1>3. UNCHANGED <<emulating, clientDown, serverDevices, serverDown>>
  BY DEF ProcessDeviceEvent
<1>4. pointerDevices \in Seq(InputDevs)
  BY DEF StuckInv, InputTypeOK
<1>5. CASE e.what = "Added"
  <2>1. OnDeviceAdded(e.device)
    BY <1>5 DEF ProcessDeviceEvent
  <2>2. pointerDevices' \in Seq(InputDevs) /\ textDevice' \in InputDevs \union {NoDev}
    BY <1>2, <1>4, <2>1 DEF OnDeviceAdded, WithPointer, StuckInv, InputTypeOK
  <2>3. FirstWithButtons(pointerDevices) # NoDev
           => FirstWithButtons(pointerDevices)' = FirstWithButtons(pointerDevices)
    BY <1>2, <1>4, <2>1, FirstStaysWithPointer DEF OnDeviceAdded
  <2>4. textDevice # NoDev => textDevice' = textDevice
    BY <2>1 DEF OnDeviceAdded
  <2>5. \A p \in serverDown : DeviceOf(p[2])' = p[1]
    BY <2>3, <2>4, DevicesAssumption DEF StuckInv, InputTypeOK, DeviceOf
  <2> QED  BY <1>1, <1>3, <2>2, <2>5 DEF StuckInv, InputTypeOK
<1>6. CASE e.what # "Added"
  <2>1. OnDeviceRemoved(e.device) /\ e.device \notin serverDevices
    BY <1>1, <1>6 DEF ProcessDeviceEvent, StuckInv, DeviceEvents
  <2>2. pointerDevices' \in Seq(InputDevs) /\ textDevice' \in InputDevs \union {NoDev}
    BY <1>4, <2>1, EraseType DEF OnDeviceRemoved, StuckInv, InputTypeOK
  <2>3. FirstWithButtons(pointerDevices) \notin {NoDev, e.device}
           => FirstWithButtons(pointerDevices)' = FirstWithButtons(pointerDevices)
    BY <1>4, <2>1, FirstStaysErased DEF OnDeviceRemoved
  <2>4. textDevice # e.device => textDevice' = textDevice
    BY <2>1 DEF OnDeviceRemoved
  <2>5. \A p \in serverDown : DeviceOf(p[2])' = p[1]
    BY <2>1, <2>3, <2>4, DevicesAssumption DEF StuckInv, InputTypeOK, DeviceOf
  <2> QED  BY <1>1, <1>3, <2>2, <2>5 DEF StuckInv, InputTypeOK
<1> QED  BY <1>5, <1>6

LEMMA AddKeeps ==
  ASSUME StuckInv, NEW d \in InputDevs, AddDevice(d)
  PROVE  StuckInv'
<1>1. \A x : DeviceOf(x)' = DeviceOf(x)
  BY DeviceKept DEF StuckInv, AddDevice, krdpVars
<1>2. UNCHANGED <<pointerDevices, textDevice, emulating, clientDown, serverDown>>
  BY DEF AddDevice, krdpVars
<1> QED  BY <1>1, <1>2 DEF StuckInv, InputTypeOK, AddDevice, DeviceEvents

LEMMA RemoveKeeps ==
  ASSUME StuckInv, NEW d \in InputDevs, RemoveDevice(d)
  PROVE  StuckInv'
<1>1. \A x : DeviceOf(x)' = DeviceOf(x)
  BY DeviceKept DEF StuckInv, RemoveDevice, krdpVars
<1>2. UNCHANGED <<pointerDevices, textDevice, emulating, clientDown>>
  BY DEF RemoveDevice, krdpVars
<1> QED  BY <1>1, <1>2 DEF StuckInv, InputTypeOK, RemoveDevice, DeviceEvents

LEMMA StartKeeps ==
  ASSUME StuckInv, SessionStarts \/ UNCHANGED inputVars
  PROVE  StuckInv'
<1>1. UNCHANGED <<pointerDevices, textDevice>> /\ InputTypeOK
  BY DEF SessionStarts, inputVars, krdpVars, StuckInv
<1>2. UNCHANGED <<clientDown, serverDevices, deviceEvents, serverDown>>
      /\ emulating' \in BOOLEAN /\ (emulating => emulating')
  BY DEF SessionStarts, inputVars, krdpVars, eisVars, StuckInv, InputTypeOK
<1>3. \A x : DeviceOf(x)' = DeviceOf(x)
  BY <1>1, DeviceKept
<1>4. InputTypeOK'
  BY <1>1, <1>2 DEF InputTypeOK
<1> QED  BY <1>2, <1>3, <1>4 DEF StuckInv

LEMMA StuckInvHolds == InputSpec => []StuckInv
<1>1. StuckInv /\ [InputNext]_inputVars => StuckInv'
  <2> SUFFICES ASSUME StuckInv, [InputNext]_inputVars PROVE StuckInv'
    OBVIOUS
  <2> QED  BY StartKeeps, InputKeeps, ProcessKeeps, AddKeeps, RemoveKeeps DEF InputNext
<1> QED  BY <1>1, StuckInit, PTL DEF InputSpec

\* NothingStuck: for any devices with any capabilities, in whatever order they come and go
\* (EiConnection::sendEvent, processEisEvents).
THEOREM NothingStaysStuck == InputSpec => []NothingStuck
<1>1. StuckInv => NothingStuck
  BY DEF StuckInv, NothingStuck
<1> QED  BY <1>1, StuckInvHolds, PTL

LEMMA InputTypeHolds == InputSpec => []InputTypeOK
<1>1. StuckInv => InputTypeOK
  BY DEF StuckInv
<1> QED  BY <1>1, StuckInvHolds, PTL

-----------------------------------------------------------------------------
\* What the nine bits of a rotation stand for.
Rotation(bits) ==
    LET n == bits % (WheelMask + 1) IN IF n < WheelNegative THEN n ELSE n - (WheelMask + 1)

\* However far and whichever way a wheel is turned, up and down are turned round for the
\* input server and left and right are not, without losing the odd one of the negative side
\* (InputHandler::mouseEvent).
THEOREM WheelTurnsAsTold ==
  \A bits \in Nat :
      /\ ScrollDown(bits) = -Rotation(bits) /\ ScrollRight(bits) = Rotation(bits)
      /\ Rotation(bits) \in -WheelNegative..WheelNegative - 1
<1> TAKE bits \in Nat
<1> DEFINE n == bits % (WheelMask + 1)
<1>1. n \in 0..511
  BY DEF WheelMask
<1> HIDE DEF n
<1>2. /\ Rotation(bits) = (IF n < 256 THEN n ELSE n - 512)
      /\ WheelAxis(bits) = (IF n >= 256 THEN (511 - n) + 1 ELSE -n)
  BY DEF n, Rotation, WheelAxis, WheelMask, WheelNegative
<1> QED  BY <1>1, <1>2 DEF ScrollDown, ScrollRight, WheelNegative
=============================================================================
