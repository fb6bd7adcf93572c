------------------------------ MODULE TTLCache ------------------------------
(***************************************************************************)
(* TTLCache of internal/common/caches.go.  Every method of SafeTTLCache    *)
(* holds the lock for all of its work, so each is one action here and any  *)
(* number of goroutines may be its callers.  Expired entries stay in the   *)
(* map until the clock reaches nextExpiration, a lower bound of all        *)
(* expirations that spares Get a scan of the map.                          *)
(***************************************************************************)
EXTENDS Naturals, FiniteSets

CONSTANTS Keys, Values,
          MaxSize,   \* maxSize
          Ttl,       \* ttl
          MaxTime    \* where the clock of a finite instance stops

\* NewTTLCache refuses other sizes and times to live.
ASSUME TTLCacheAssumption ==
  MaxSize \in Nat \ {0} /\ Ttl \in Nat \ {0} /\ MaxTime \in Nat /\ IsFiniteSet(Keys)

VARIABLES
  cached,          \* the keys of entries
  value,           \* entries[k].value
  ctime,           \* entries[k].ctime
  nextExpiration,  \* 0 stands for the zero Time; expirations are at least Ttl
  now,             \* time.Now()
  answer           \* what the last Get returned

cacheVars == <<cached, value, ctime, nextExpiration, now, answer>>

NoAnswer == [found |-> FALSE]
Answer(v) == [found |-> TRUE, value |-> v]

CacheInit ==
  /\ cached = {} /\ now = 0 /\ answer = NoAnswer /\ nextExpiration = 0
  /\ value \in [Keys -> Values] /\ ctime = [k \in Keys |-> 0]

Tick ==
  /\ now < MaxTime /\ now' = now + 1
  /\ UNCHANGED <<cached, value, ctime, nextExpiration, answer>>

\* recomputeNextExpiration, and the end of removeExpired.
IsNextExpiration(t, keys) ==
  \/ keys = {} /\ t = 0
  \/ \E k \in keys : t = ctime[k] + Ttl /\ \A j \in keys : ctime[k] <= ctime[j]

\* The entries removeExpired keeps.
Unexpired == {k \in cached : now < ctime[k] + Ttl}

shouldRemoveExpired == nextExpiration # 0 /\ nextExpiration <= now

\* Mutant: Get never removes.
GetNoRemoval(k) ==
  /\ UNCHANGED <<cached, nextExpiration>>
  /\ answer' = IF k \in cached THEN Answer(value[k]) ELSE NoAnswer
  /\ UNCHANGED <<value, ctime, now>>

Get(k) ==
  /\ IF shouldRemoveExpired
       THEN cached' = Unexpired /\ IsNextExpiration(nextExpiration', cached')
       ELSE UNCHANGED <<cached, nextExpiration>>
  /\ answer' = IF k \in cached' THEN Answer(value[k]) ELSE NoAnswer
  /\ UNCHANGED <<value, ctime, now>>

\* removeOldest, whichever of the oldest entries the map's iteration meets first.
Oldest(j) == j \in cached /\ \A i \in cached : ctime[j] <= ctime[i]

\* The entry is stored; next is nextExpiration after a possible removal.
Store(k, v, next) ==
  /\ value' = [value EXCEPT ![k] = v]
  /\ ctime' = [ctime EXCEPT ![k] = now]
  /\ nextExpiration' = IF next = 0 \/ now + Ttl < next THEN now + Ttl ELSE next
  /\ UNCHANGED <<now, answer>>

\* Put: at its full size the cache drops its oldest entry, also when k is
\* already cached and needs no room.
Put(k, v) ==
  \/ /\ Cardinality(cached) # MaxSize
     /\ cached' = cached \cup {k} /\ Store(k, v, nextExpiration)
  \/ /\ Cardinality(cached) = MaxSize
     /\ \E j \in cached, next \in 0..(now + Ttl) :
          /\ Oldest(j) /\ IsNextExpiration(next, cached \ {j})
          /\ cached' = (cached \ {j}) \cup {k} /\ Store(k, v, next)

\* Remove of a key that is not cached changes nothing.
RemoveKey(k) ==
  /\ k \in cached
  /\ cached' = cached \ {k} /\ IsNextExpiration(nextExpiration', cached')
  /\ UNCHANGED <<value, ctime, now, answer>>

Clear ==
  /\ cached' = {} /\ nextExpiration' = 0
  /\ UNCHANGED <<value, ctime, now, answer>>

CacheNext ==
  \/ Tick \/ Clear
  \/ \E k \in Keys : Get(k) \/ RemoveKey(k) \/ \E v \in Values : Put(k, v)

CacheSpec == CacheInit /\ [][CacheNext]_cacheVars

-----------------------------------------------------------------------------
(* Properties. *)

\* The variables have their types.
CacheTypeOK ==
  /\ cached \subseteq Keys
  /\ value \in [Keys -> Values] /\ ctime \in [Keys -> Nat]
  /\ nextExpiration \in Nat /\ now \in Nat
  /\ answer \in {NoAnswer} \cup {Answer(v) : v \in Values}

\* Put tests the size with "==": the cache never grows past maxSize, whatever
\* the order of puts, expirations and removals.
CapacityRespected == Cardinality(cached) <= MaxSize

\* nextExpiration is set exactly while there are entries, and none of them
\* expires before it: Get may skip the scan until then.
NextExpirationSound ==
  /\ nextExpiration = 0 <=> cached = {}
  /\ \A k \in cached : nextExpiration <= ctime[k] + Ttl

Map == INSTANCE ExpiringMap WITH live <- Unexpired, birth <- ctime, Size <- Cardinality

\* The oldest entry makes room only for an entry that needs room, as the comments
\* of TTLCache and removeOldest say ("when a Put would exceed maxSize").
EvictsOnlyForRoom == Map!Spec

\* The cache is an expiring map but for that promise: lazy removal and the
\* nextExpiration shortcut cannot be observed, and an unexpired entry is lost only
\* as the oldest of a full map, to a new key or to a Put over a key that is cached.
ImplementsMap == Map!LossySpec
=============================================================================
