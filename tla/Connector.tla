------------------------------ MODULE Connector ------------------------------
(***************************************************************************)
(* connector.Connect (oracle/connector.go) over the ConnectionIterator     *)
(* (internal/driver/network/naming/iterator.go): the attempts a connect    *)
(* descriptor stands for, their order, the retries, and what becomes of    *)
(* the network session.  The cache of down hosts is shared by the process: *)
(* other goroutines mark hosts down, and entries expire, between any two   *)
(* of the look-ups that order the addresses.                               *)
(***************************************************************************)
EXTENDS Naturals, Sequences, FiniteSetsExt

CONSTANTS Configs,    \* the descriptors: records loadBalance, failover, descriptions
          Dns         \* what a host's name resolves to: a sequence of addresses per host

VARIABLES
  config,       \* the descriptor connected to
  step,         \* where Connect is
  toBuild,      \* descriptions still to be built, in order
  resolving,    \* how many hosts of the first of them have been resolved
  work,         \* the addresses being resolved or ordered
  last,         \* stablePartition: the verdicts on work read so far
  attempts,     \* descAttempts: per description its addresses, CurrentCycle, CurrentAddrIndex
  cur,          \* currentDescIndex (from 1)
  exhausted,
  option,       \* the description and address being tried
  session,      \* the network session: "none" or "open"
  done,         \* the caller's context is done
  down,         \* keys in sharedDownHostCache
  kept,         \* history: the addresses each description was built with
  tried,        \* history: how often each address was tried, per description
  steady        \* history: keys that kept their status while work is being ordered

connectorVars == <<config, step, toBuild, resolving, work, last, attempts, cur, exhausted,
                   option, session, done, down, kept, tried, steady>>

iterator == <<attempts, cur, exhausted>>
history == <<kept, tried, steady>>

Hosts == DOMAIN Dns
CacheKeys == Hosts \cup UNION {{Dns[h][i] : i \in DOMAIN Dns[h]} : h \in Hosts}

\* A description of a connect descriptor.
Descriptions ==
  [hosts : Seq(Hosts), retryCount : Nat, retryDelay : BOOLEAN, loadBalance : BOOLEAN, failover : BOOLEAN]

ASSUME DnsTyped == \A h \in Hosts : Dns[h] \in Seq(CacheKeys)
ASSUME ConfigsTyped == \A c \in Configs : c.descriptions \in Seq(Descriptions)

Count(s, x) == Cardinality({i \in DOMAIN s : s[i] = x})

\* The orders a shuffle of s may choose.
Shuffles(s) ==
  LET Perms == {p \in [DOMAIN s -> DOMAIN s] : \A i, j \in DOMAIN s : p[i] = p[j] => i = j}
  IN  {[i \in DOMAIN s |-> s[p[i]]] : p \in Perms}

\* Load balancing shuffles, and failover keeps more than the first.
Ordered(s, loadBalance) == IF loadBalance THEN Shuffles(s) ELSE {s}
Kept(s, failover) == IF failover \/ s = << >> THEN s ELSE SubSeq(s, 1, 1)

Desc(d) == config.descriptions[d]

\* Connect begins: buildFromDescriptionList has chosen the descriptions.
ConnectorInit ==
  /\ config \in Configs
  /\ step = "build"
  /\ \E s \in Ordered([i \in DOMAIN config.descriptions |-> i], config.loadBalance) :
        toBuild = Kept(s, config.failover)
  /\ resolving = 0 /\ work = << >> /\ last = << >>
  /\ attempts = << >> /\ cur = 1 /\ exhausted = FALSE
  /\ option = << >> /\ session = "none" /\ done = FALSE
  /\ down \in SUBSET CacheKeys
  /\ kept = [d \in DOMAIN config.descriptions |-> << >>]
  /\ tried = [d \in DOMAIN config.descriptions |-> [k \in CacheKeys |-> 0]]
  /\ steady = CacheKeys

-----------------------------------------------------------------------------
(* Building the attempts. *)

\* resolveAddress of the next host: its addresses, or the host itself when the
\* lookup fails or finds none.
ResolveHost ==
  /\ step = "build" /\ toBuild # << >>
  /\ resolving < Len(Desc(Head(toBuild)).hosts) /\ ~done
  /\ LET h == Desc(Head(toBuild)).hosts[resolving + 1]
     IN  \E found \in {Dns[h], <<h>>} : found # << >> /\ work' = work \o found
  /\ resolving' = resolving + 1
  /\ UNCHANGED <<config, step, toBuild, last, iterator, option, session, done, down, history>>

\* buildFromDescription once its hosts are resolved, or the context is done and
\* the rest is left unresolved.  A description without addresses is skipped.
FinishResolve ==
  /\ step = "build" /\ toBuild # << >>
  /\ resolving = Len(Desc(Head(toBuild)).hosts) \/ done
  /\ resolving' = 0
  /\ LET d == Head(toBuild)
     IN  \/ /\ work = << >>
            /\ toBuild' = Tail(toBuild)
            /\ UNCHANGED <<step, work, kept>>
         \/ /\ work # << >>
            /\ \E s \in Ordered(work, Desc(d).loadBalance) :
                  /\ work' = Kept(s, Desc(d).failover)
                  /\ kept' = [kept EXCEPT ![d] = work']
            /\ step' = "order" /\ UNCHANGED toBuild
  /\ UNCHANGED <<config, last, iterator, option, session, done, down, tried, steady>>

\* isDownHost of one address, in stablePartition.
ReadStatus ==
  /\ step = "order" /\ Len(work) >= 2 /\ Len(last) < Len(work)
  /\ last' = Append(last, work[Len(last) + 1] \in down)
  /\ UNCHANGED <<config, step, toBuild, resolving, work, iterator, option, session, done, down, history>>

\* Mutant: the second loop of the partition asks the cache again.
PartitionTwoReads(items, flags) ==
  LET n == Len(items)
      Some(Test(_)) == SelectSeq([i \in 1..n |-> i], Test)
      ix == Some(LAMBDA i : ~flags[i]) \o Some(LAMBDA i : items[i] \in down)
  IN  IF n < 2 THEN items ELSE [k \in DOMAIN ix |-> items[ix[k]]]

\* The order stablePartition puts the items in: those whose flag is set go last,
\* each group as it was.
NotAfter(i, j, flags) == IF flags[i] = flags[j] THEN i <= j ELSE flags[j]

\* The place of each item in that order.
Places(n, flags) == [i \in 1 .. n |-> Cardinality({j \in 1 .. n : NotAfter(j, i, flags)})]

\* Mutant: the hosts that are down come first.
PartitionDownFirst(items, flags) ==
  LET n == Len(items)
      place == Places(n, [i \in DOMAIN flags |-> ~flags[i]])
  IN  IF n < 2 THEN items ELSE [k \in 1 .. n |-> items[CHOOSE i \in 1 .. n : place[i] = k]]

\* stablePartition.
Partition(items, flags) ==
  LET n == Len(items)
      place == Places(n, flags)
  IN  IF n < 2 THEN items ELSE [k \in 1 .. n |-> items[CHOOSE i \in 1 .. n : place[i] = k]]

\* All statuses are read, or there is nothing to order.
StatusesRead == step = "order" /\ (Len(work) < 2 \/ Len(last) = Len(work))

\* The ordered addresses become an attempt of the description being built, or
\* the next retry cycle of the current one.
Place ==
  /\ StatusesRead
  /\ last' = << >> /\ work' = << >> /\ steady' = CacheKeys
  /\ \/ /\ toBuild # << >>
        /\ attempts' = Append(attempts,
              [desc |-> Head(toBuild), addresses |-> Partition(work, last), cycle |-> 0, index |-> 1])
        /\ toBuild' = Tail(toBuild) /\ step' = "build"
     \/ /\ toBuild = << >>
        /\ attempts' = [attempts EXCEPT ![cur].addresses = Partition(work, last)]
        /\ step' = "next" /\ UNCHANGED toBuild
  /\ UNCHANGED <<config, resolving, cur, exhausted, option, session, done, down, kept, tried>>

\* reorderDescriptionsByDownHostStatus: the addresses of each description are
\* looked up until one is not down.  work holds those of the description in turn.
DescriptionsBuilt ==
  /\ step = "build" /\ toBuild = << >>
  /\ IF Len(attempts) < 2 THEN step' = "first" /\ UNCHANGED work
     ELSE step' = "descriptions" /\ work' = attempts[1].addresses
  /\ UNCHANGED <<config, toBuild, resolving, last, iterator, option, session, done, down, history>>

ReadDescription ==
  /\ step = "descriptions" /\ Len(last) < Len(attempts)
  /\ LET isDown == Head(work) \in down
         verdict == ~isDown \/ Len(work) = 1
         n == Len(last) + 1
     IN  /\ last' = IF verdict THEN Append(last, isDown) ELSE last
         /\ work' = IF ~verdict THEN Tail(work)
                    ELSE IF n < Len(attempts) THEN attempts[n + 1].addresses ELSE << >>
  /\ UNCHANGED <<config, step, toBuild, resolving, iterator, option, session, done, down, history>>

PlaceDescriptions ==
  /\ step = "descriptions" /\ Len(last) = Len(attempts)
  /\ attempts' = Partition(attempts, last)
  /\ last' = << >> /\ step' = "first"
  /\ UNCHANGED <<config, toBuild, resolving, work, cur, exhausted, option, session, done, down, history>>

-----------------------------------------------------------------------------
(* The loop of Connect. *)

\* ConnectionIterator.HasNext; retries of the current description count, as do
\* the addresses of the later ones.
HasNext ==
  /\ ~exhausted
  /\ \/ /\ cur \in DOMAIN attempts
        /\ \/ attempts[cur].index <= Len(attempts[cur].addresses)
           \/ attempts[cur].cycle < Desc(attempts[cur].desc).retryCount
     \/ \E i \in DOMAIN attempts : i > cur /\ attempts[i].addresses # << >>

\* The test before the loop, and the loop's own.
Loop ==
  /\ step \in {"first", "loop"}
  /\ step' = IF HasNext THEN "next" ELSE "failed"
  /\ exhausted' = ~HasNext
  /\ UNCHANGED <<config, toBuild, resolving, work, last, attempts, cur, option, session, done, down, history>>

\* Next: the next address of the current cycle.
NextAddress ==
  /\ step = "next" /\ cur \in DOMAIN attempts
  /\ attempts[cur].index <= Len(attempts[cur].addresses)
  /\ option' = [desc |-> attempts[cur].desc, address |-> attempts[cur].addresses[attempts[cur].index]]
  /\ attempts' = [attempts EXCEPT ![cur].index = @ + 1]
  /\ step' = "try"
  /\ UNCHANGED <<config, toBuild, resolving, work, last, cur, exhausted, session, done, down, history>>

CycleOver ==
  /\ step = "next" /\ cur \in DOMAIN attempts
  /\ attempts[cur].index > Len(attempts[cur].addresses)

\* roundRobin.
Rotate(s) == IF Len(s) < 2 THEN s ELSE Append(Tail(s), Head(s))

MayRetry(a) == a.cycle < Desc(a.desc).retryCount

\* Next: after the retry delay the addresses are rotated and ordered again.
NextCycle ==
  /\ CycleOver /\ MayRetry(attempts[cur])
  /\ attempts' = [attempts EXCEPT ![cur].cycle = @ + 1, ![cur].index = 1]
  /\ work' = IF Desc(attempts[cur].desc).loadBalance THEN Rotate(attempts[cur].addresses)
                                                     ELSE attempts[cur].addresses
  /\ step' = "order"
  /\ UNCHANGED <<config, toBuild, resolving, last, cur, exhausted, option, session, done, down, history>>

\* Next: the context ends the retry delay; Connect returns on the nil option.
DelayCancelled ==
  /\ CycleOver /\ MayRetry(attempts[cur])
  /\ done /\ Desc(attempts[cur].desc).retryDelay
  /\ exhausted' = TRUE /\ step' = "cancelled"
  /\ UNCHANGED <<config, toBuild, resolving, work, last, attempts, cur, option, session, done, down, history>>

\* Mutant: the index of the description is not advanced.
NextDescriptionStays ==
  /\ CycleOver /\ ~MayRetry(attempts[cur])
  /\ cur' = cur
  /\ UNCHANGED <<config, step, exhausted, toBuild, resolving, work, last, attempts, option, session, done, down, history>>

\* Next: on to the next description; without one there is no option.
NextDescription ==
  /\ CycleOver /\ ~MayRetry(attempts[cur])
  /\ cur' = cur + 1
  /\ IF cur' \in DOMAIN attempts THEN UNCHANGED <<step, exhausted>>
                                 ELSE step' = "noOption" /\ exhausted' = TRUE
  /\ UNCHANGED <<config, toBuild, resolving, work, last, attempts, option, session, done, down, history>>

\* The context is tested before each attempt.
Try ==
  /\ step = "try"
  /\ step' = IF done THEN "cancelled" ELSE "dial"
  /\ UNCHANGED <<config, toBuild, resolving, work, last, iterator, option, session, done, down, history>>

CountTry == tried' = [tried EXCEPT ![option.desc][option.address] = @ + 1]

\* connCreator: the session is connected ...
Connected ==
  /\ step = "dial" /\ ~done
  /\ session' = "open" /\ step' = "instantiate" /\ CountTry
  /\ UNCHANGED <<config, toBuild, resolving, work, last, iterator, option, done, down, kept, steady>>

\* ... or not, and when the host seems unreachable it is marked down.
ConnectFails ==
  /\ step = "dial" /\ step' = "loop" /\ CountTry
  /\ down' \in {down, down \cup {option.address}}
  /\ UNCHANGED <<config, toBuild, resolving, work, last, iterator, option, session, done, kept, steady>>

\* Negotiation and authentication succeed ...
Established ==
  /\ step = "instantiate" /\ step' = "established"
  /\ UNCHANGED <<config, toBuild, resolving, work, last, iterator, option, session, done, down, history>>

\* Mutant: the deferred function only looks at the loop's own error.
NotEstablishedKeepsSession ==
  /\ step = "instantiate" /\ step' = "rejected"
  /\ UNCHANGED <<config, toBuild, resolving, work, last, iterator, option, session, done, down, history>>

\* ... or the deferred function disconnects the session.
NotEstablished ==
  /\ step = "instantiate" /\ step' = "rejected" /\ session' = "none"
  /\ UNCHANGED <<config, toBuild, resolving, work, last, iterator, option, done, down, history>>

Connect ==
  \/ ResolveHost \/ FinishResolve \/ ReadStatus \/ Place
  \/ DescriptionsBuilt \/ ReadDescription \/ PlaceDescriptions
  \/ Loop \/ NextAddress \/ NextCycle \/ DelayCancelled \/ NextDescription
  \/ Try \/ Connected \/ ConnectFails \/ Established \/ NotEstablished

Unsteady(k) == steady' = IF step = "order" THEN steady \ {k} ELSE steady

\* Other connections mark hosts down, entries of the cache expire, and the
\* caller's context ends.
MarkDownHost(k) ==
  /\ k \notin down /\ down' = down \cup {k} /\ Unsteady(k)
  /\ UNCHANGED <<config, step, toBuild, resolving, work, last, iterator, option, session, done, kept, tried>>

Expire(k) ==
  /\ k \in down /\ down' = down \ {k} /\ Unsteady(k)
  /\ UNCHANGED <<config, step, toBuild, resolving, work, last, iterator, option, session, done, kept, tried>>

Cancel ==
  /\ ~done /\ done' = TRUE
  /\ UNCHANGED <<config, step, toBuild, resolving, work, last, iterator, option, session, down, history>>

Returned == {"established", "rejected", "failed", "cancelled", "noOption"}

ConnectorNext ==
  \/ Connect
  \/ /\ step \notin Returned
     /\ \/ \E k \in CacheKeys : MarkDownHost(k) \/ Expire(k)
        \/ Cancel

\* Every call Connect makes returns: lookups, dials and reads have the context.
ConnectorSpec == ConnectorInit /\ [][ConnectorNext]_connectorVars /\ WF_connectorVars(Connect)

-----------------------------------------------------------------------------
(* Properties. *)

\* ConnectionIterator.Total and Remaining.
Total ==
  MapThenSumSet(LAMBDA i : Len(attempts[i].addresses) * (Desc(attempts[i].desc).retryCount + 1),
                DOMAIN attempts)

Remaining ==
  LET Left(i) == LET a == attempts[i]  n == Len(a.addresses)  r == Desc(a.desc).retryCount
                 IN  IF i = cur THEN n - (a.index - 1) + n * (r - a.cycle) ELSE n * (r + 1)
  IN  IF exhausted THEN 0 ELSE MapThenSumSet(Left, {i \in DOMAIN attempts : i >= cur})

Made == MapThenSumSet(LAMBDA d : MapThenSumSet(LAMBDA k : tried[d][k], CacheKeys), DOMAIN tried)

\* When Connect has failed on all of its attempts, every address of every
\* description was tried once per cycle.
AllTried ==
  step = "failed" =>
    \A d \in DOMAIN kept, k \in CacheKeys :
      tried[d][k] = Count(kept[d], k) * (Desc(d).retryCount + 1)

\* Once HasNext has said so Next has an option unless the context is done: the nil
\* that Connect tests for only ever stands for a cancelled retry delay.
NilWhenCancelled == step # "noOption"

\* HasNext holds exactly while attempts remain, and those made and those remaining
\* make up all.
AttemptsCounted == step = "loop" => (HasNext <=> Remaining > 0) /\ Made + Remaining = Total

\* "The cache only influences connection order; it never removes an address from
\* the attempt list" (down_hosts_cache.go): Connect fails only when it has tried
\* everything, however hosts were marked down and expired meanwhile, and neither
\* its iterator nor its counters lose an attempt on the way.
EveryAddressTried == AllTried /\ NilWhenCancelled /\ AttemptsCounted

\* A host known to be down from the beginning to the end of the ordering is never
\* placed before one that was up all that time, whatever else changed.
DownHostsLast ==
  [][Place => LET s == Partition(work, last)
              IN  \A i, j \in DOMAIN s :
                    ~(/\ i < j /\ {s[i], s[j]} \subseteq steady
                      /\ s[i] \in down /\ s[j] \notin down)]_connectorVars

\* A session is open exactly when Connect returns a connection: each path that
\* returns an error has disconnected it.
SessionReleased ==
  step \in Returned => (session = "open" <=> step = "established")

\* Connect returns, however often the status of the hosts changes.
ConnectReturns == <>(step \in Returned)
=============================================================================
