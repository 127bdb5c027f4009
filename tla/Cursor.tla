-------------------------------- MODULE Cursor --------------------------------
(***************************************************************************)
(* The pointer of one connection (src/src/Cursor.cpp), on the main thread, *)
(* and the pointer cache of the client, which it fills and refers to by    *)
(* index. The two caches are never compared: the server has to know what   *)
(* the client has under each index, and evicts and replaces on both sides. *)
(***************************************************************************)
EXTENDS Integers, FiniteSets

CONSTANTS
    Cursors,            \* what PipeWire reports: image and hotspot
    Large,              \* those with an image of more than 384 x 384
    PointerCacheSize,   \* of the client's capabilities
    MaxUpdates          \* bound: cursors that are reported

ASSUME LargeAssumption == Large \subseteq Cursors
\* onCapabilities refuses a client without a cache.
ASSUME CacheAssumption == PointerCacheSize \in Nat \ {0}
ASSUME UpdatesAssumption == MaxUpdates \in Nat

Default == "default"
Nothing == "nothing"
ASSUME NamesAssumption == Default \notin Cursors /\ Nothing \notin Cursors

Indices == 0..PointerCacheSize - 1

VARIABLES
    streaming,      \* the session is Streaming
    cursorType,     \* "SystemDefault" or "Image"
    used,           \* the indices in cursorCache: its keys
    cache,          \* cursorCache: the cursor under each index
    lastUsed,       \* the time of its last use
    lastCursor,     \* the index of lastUsedCursor, or -1
    clock,          \* updates so far, which are the time
    reported,               \* the last cursor that was accepted from PipeWire
    clientCache, shown      \* the client's side

vars == <<streaming, cursorType, used, cache, lastUsed, lastCursor, clock,
          reported, clientCache, shown>>

Init ==
    /\ streaming = FALSE /\ cursorType = "SystemDefault"
    /\ used = {} /\ cache = [i \in Indices |-> Nothing] /\ lastUsed = [i \in Indices |-> 0]
    /\ lastCursor = -1 /\ clock = 0 /\ reported = Default
    /\ clientCache = [i \in Indices |-> Nothing] /\ shown = Default

-----------------------------------------------------------------------------
(* What the client does with what it is sent *)

\* PointerNew or PointerLarge, then PointerCached for the same index.
ClientStores(i, c) == clientCache' = [clientCache EXCEPT ![i] = c] /\ shown' = c
ClientRecalls(i)   == shown' = clientCache[i] /\ UNCHANGED clientCache

-----------------------------------------------------------------------------
\* The indices that have not been used for the longest time.
Oldest == {i \in used : \A j \in used : lastUsed[i] <= lastUsed[j]}

\* The index of a new cursor: the next one, or that of the one it evicts.
Victim(i) ==
    IF Cardinality(used) >= PointerCacheSize THEN i \in Oldest ELSE i = Cardinality(used)

\* update is called with cursor c, and does something: without a stream, or for a
\* cursor without an image, it changes nothing.
Accepted(c) ==
    /\ streaming /\ clock < MaxUpdates
    /\ clock' = clock + 1 /\ reported' = c
    /\ UNCHANGED streaming

\* setCursorType(SystemDefault): the client is told only of a change.
UseDefault(c) ==
    /\ Accepted(c) /\ c \in Large
    /\ cursorType' = "SystemDefault"
    /\ IF cursorType = "Image" THEN lastCursor' = -1 /\ shown' = Default
       ELSE UNCHANGED <<lastCursor, shown>>
    /\ UNCHANGED <<used, cache, lastUsed, clientCache>>

\* The cursor that is shown already: only its time changes.
KeepCursor(c) ==
    /\ Accepted(c) /\ c \notin Large
    /\ cursorType' = "Image"
    /\ lastCursor # -1 /\ cache[lastCursor] = c
    /\ lastUsed' = [lastUsed EXCEPT ![lastCursor] = clock']
    /\ UNCHANGED <<used, cache, lastCursor, clientCache, shown>>

\* Mutant of RecallCursor: the client is not told.
RecallSilently(c) ==
    /\ Accepted(c) /\ c \notin Large
    /\ cursorType' = "Image"
    /\ ~(lastCursor # -1 /\ cache[lastCursor] = c)
    /\ \E i \in used :
         /\ cache[i] = c
         /\ lastCursor' = i
         /\ lastUsed' = [lastUsed EXCEPT ![i] = clock']
    /\ UNCHANGED <<used, cache, clientCache, shown>>

\* A cursor from the cache.
RecallCursor(c) ==
    /\ Accepted(c) /\ c \notin Large
    /\ cursorType' = "Image"
    /\ ~(lastCursor # -1 /\ cache[lastCursor] = c)
    /\ \E i \in used :
         /\ cache[i] = c
         /\ lastCursor' = i
         /\ lastUsed' = [lastUsed EXCEPT ![i] = clock']
         /\ ClientRecalls(i)
    /\ UNCHANGED <<used, cache>>

\* Mutant of StoreCursor: the client is told an index before the eviction chose one.
StoreCursorElsewhere(c) ==
    /\ Accepted(c) /\ c \notin Large
    /\ cursorType' = "Image"
    /\ \A i \in used : cache[i] # c
    /\ \E i \in Indices :
         /\ Victim(i)
         /\ used' = used \union {i}
         /\ cache' = [cache EXCEPT ![i] = c]
         /\ lastUsed' = [lastUsed EXCEPT ![i] = clock']
         /\ lastCursor' = i
         /\ ClientStores(Cardinality(used), c)

\* A cursor that is not in the cache, under a new index or that of the cursor it
\* evicts.
StoreCursor(c) ==
    /\ Accepted(c) /\ c \notin Large
    /\ cursorType' = "Image"
    /\ \A i \in used : cache[i] # c
    /\ \E i \in Indices :
         /\ Victim(i)
         /\ used' = used \union {i}
         /\ cache' = [cache EXCEPT ![i] = c]
         /\ lastUsed' = [lastUsed EXCEPT ![i] = clock']
         /\ lastCursor' = i
         /\ ClientStores(i, c)

\* The session leaves or enters Streaming, on the run thread.
SetStreaming ==
    /\ streaming' = ~streaming
    /\ UNCHANGED <<cursorType, used, cache, lastUsed, lastCursor, clock, reported,
                   clientCache, shown>>

Update(c) == UseDefault(c) \/ KeepCursor(c) \/ RecallCursor(c) \/ StoreCursor(c)

Next == SetStreaming \/ \E c \in Cursors : Update(c)

Spec == Init /\ [][Next]_vars
-----------------------------------------------------------------------------
(* Properties *)

\* Every variable stays in its range; the indices in use are the first ones, so
\* that the size of the cache is a free index as long as it is not full.
TypeOK ==
    /\ streaming \in BOOLEAN /\ cursorType \in {"SystemDefault", "Image"}
    /\ used = 0..Cardinality(used) - 1 /\ Cardinality(used) <= PointerCacheSize
    /\ cache \in [Indices -> Cursors \union {Nothing}]
    /\ lastUsed \in [Indices -> Nat] /\ lastCursor \in used \union {-1} /\ clock \in Nat
    /\ clientCache \in [Indices -> Cursors \union {Nothing}]
    /\ reported \in Cursors \union {Default} /\ shown \in Cursors \union {Default}

\* The server knows what the client has: under each index that either has used,
\* both hold the same cursor, across evictions.
CachesAgree == \A i \in Indices : clientCache[i] = (IF i \in used THEN cache[i] ELSE Nothing)

\* The client shows what the server takes it to show, which is what lets update
\* send nothing for a cursor that is there already.
ShownIsCurrent ==
    shown = IF cursorType = "SystemDefault" THEN Default ELSE cache[lastCursor]

\* An eviction never takes the cursor that was used last, unless it is the only
\* one.
NewestSurvives ==
    [][\A i \in Indices : i = lastCursor /\ PointerCacheSize > 1 => cache'[i] = cache[i]]_vars

\* Each cursor that is accepted is what the client shows next, although most are
\* only referred to and some are not sent at all: Cursor implements Pointer.
P == INSTANCE Pointer
ImplementsPointer == P!Spec
=============================================================================
