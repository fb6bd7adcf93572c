----------------------------- MODULE ExpiringMap -----------------------------
(***************************************************************************)
(* What a cache with a time to live promises to its user: a map from which *)
(* an entry disappears only when it is Ttl old, when it is removed, or     *)
(* when it is the oldest entry of a full map that takes a new key.         *)
(* Nothing is said of when a dead entry's memory is released.              *)
(***************************************************************************)
EXTENDS Naturals

CONSTANTS Keys, Values, MaxSize, Ttl, MaxTime,
          Size(_)   \* the number of elements of a finite set

VARIABLES
  live,    \* the keys that are in the map
  value,   \* their values
  birth,   \* when they were put
  now,     \* the clock
  answer   \* what the last Get returned

vars == <<live, value, birth, now, answer>>

NoAnswer == [found |-> FALSE]
Answer(v) == [found |-> TRUE, value |-> v]

Init ==
  /\ live = {} /\ now = 0 /\ answer = NoAnswer
  /\ value \in [Keys -> Values] /\ birth = [k \in Keys |-> 0]

Tick ==
  /\ now < MaxTime /\ now' = now + 1
  /\ live' = {k \in live : now' < birth[k] + Ttl}
  /\ UNCHANGED <<value, birth, answer>>

Get(k) ==
  /\ answer' = IF k \in live THEN Answer(value[k]) ELSE NoAnswer
  /\ UNCHANGED <<live, value, birth, now>>

\* The entries that may have to make room.
Evictable(j) ==
  /\ j \in live /\ Size(live) = MaxSize
  /\ \A i \in live : birth[j] <= birth[i]

Stored(k, v) ==
  /\ value' = [value EXCEPT ![k] = v]
  /\ birth' = [birth EXCEPT ![k] = now]
  /\ UNCHANGED <<now, answer>>

\* A key that is in the map needs no room.
Put(k, v) ==
  /\ IF k \in live \/ Size(live) # MaxSize
       THEN live' = live \cup {k}
       ELSE \E j \in live : Evictable(j) /\ live' = (live \ {j}) \cup {k}
  /\ Stored(k, v)

Remove(k) ==
  /\ live' = live \ {k}
  /\ UNCHANGED <<value, birth, now, answer>>

Clear ==
  /\ live' = {}
  /\ UNCHANGED <<value, birth, now, answer>>

Next ==
  \/ Tick \/ Clear
  \/ \E k \in Keys : Get(k) \/ Remove(k) \/ \E v \in Values : Put(k, v)

\* What the map promises.
Spec == Init /\ [][Next]_vars

\* A Put that breaks the promise: the full map loses its oldest entry to a key
\* that is in it already.
LossyPut(k, v) ==
  /\ k \in live
  /\ \E j \in live : Evictable(j) /\ live' = (live \ {j}) \cup {k}
  /\ Stored(k, v)

\* What remains of the promise where such a Put is the one exception.
LossySpec == Init /\ [][Next \/ \E k \in Keys, v \in Values : LossyPut(k, v)]_vars
=============================================================================
