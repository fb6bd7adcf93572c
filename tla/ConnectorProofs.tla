--------------------------- MODULE ConnectorProofs ---------------------------
(***************************************************************************)
(* The iterator of a connect descriptor loses no address, and each session *)
(* that Connect opens and does not return is disconnected, for every value *)
(* of the constants.  stablePartition is a bijection, so that an attempt   *)
(* keeps the addresses its description was built with; the cycle and the   *)
(* index of the iterator say how often each address has been tried.        *)
(***************************************************************************)
EXTENDS Connector, FiniteSetTheorems, TLAPS

-----------------------------------------------------------------------------
(* The loop of Connect. *)

\* A session is open from the dial that connects it on, and only until the
\* deferred function has disconnected it.
SessionFollows == session = (IF step \in {"instantiate", "established"} THEN "open" ELSE "none")

\* Each path that returns an error has disconnected the session, and the one
\* that returns a connection has not, however many descriptions, addresses and
\* retries there are and whatever other connections do to the cache meanwhile.
THEOREM SessionReleasedAlways == ConnectorSpec => []SessionReleased
<1>1. ConnectorInit => SessionFollows
  BY Zenon DEF ConnectorInit, SessionFollows
<1>2. SessionFollows /\ [ConnectorNext]_connectorVars => SessionFollows'
  <2> SUFFICES ASSUME SessionFollows, [ConnectorNext]_connectorVars
               PROVE  SessionFollows'
    BY Zenon
  <2> USE DEF SessionFollows
  <2>1. CASE ResolveHost \/ FinishResolve \/ ReadStatus \/ Place
    BY <2>1, Zenon DEF ResolveHost, FinishResolve, ReadStatus, Place, StatusesRead
  <2>2. CASE DescriptionsBuilt \/ ReadDescription \/ PlaceDescriptions
    BY <2>2, Zenon DEF DescriptionsBuilt, ReadDescription, PlaceDescriptions
  <2>3. CASE Loop \/ NextAddress \/ NextCycle \/ DelayCancelled \/ NextDescription
    BY <2>3, Zenon DEF Loop, NextAddress, CycleOver, NextCycle, DelayCancelled, NextDescription
  <2>4. CASE Try \/ Connected \/ ConnectFails \/ Established \/ NotEstablished
    BY <2>4, Zenon DEF Try, Connected, ConnectFails, Established, NotEstablished
  <2>5. ASSUME NEW k, MarkDownHost(k) \/ Expire(k)
        PROVE  SessionFollows'
    BY <2>5, Zenon DEF MarkDownHost, Expire
  <2>6. CASE Cancel \/ UNCHANGED connectorVars
    BY <2>6, Zenon DEF Cancel, connectorVars
  <2> QED  BY <2>1, <2>2, <2>3, <2>4, <2>5, <2>6, Zenon DEF ConnectorNext, Connect
<1>3. SessionFollows => SessionReleased
  BY Zenon DEF SessionFollows, SessionReleased, Returned
<1> QED  BY <1>1, <1>2, <1>3, PTL DEF ConnectorSpec

-----------------------------------------------------------------------------
(* The order of the addresses. *)

\* The order stablePartition puts items in is total: each item has a place of its
\* own, and an item that comes before another has an earlier one.
LEMMA PlacesOrdered ==
  ASSUME NEW n \in Nat, NEW flags \in [1 .. n -> BOOLEAN]
  PROVE  /\ Places(n, flags) \in Injection(1 .. n, 1 .. n)
         /\ \A i, j \in 1 .. n : NotAfter(i, j, flags) => Places(n, flags)[i] <= Places(n, flags)[j]
<1> DEFINE Upto(i) == {j \in 1 .. n : NotAfter(j, i, flags)}
           place == Places(n, flags)
<1>1. IsFiniteSet(1 .. n) /\ Cardinality(1 .. n) = n
  BY FS_Interval
<1>2. \A i \in 1 .. n : IsFiniteSet(Upto(i)) /\ Cardinality(Upto(i)) \in 0 .. n
  BY <1>1, FS_Subset, FS_CardinalityType
<1>3. \A i \in 1 .. n : i \in Upto(i)
  BY DEF NotAfter
<1>4. ASSUME NEW i \in 1 .. n
      PROVE  Cardinality(Upto(i)) \in 1 .. n
  <2>1. Upto(i) # {} /\ IsFiniteSet(Upto(i)) /\ Cardinality(Upto(i)) \in 0 .. n
    BY <1>2, <1>3, Zenon
  <2> HIDE DEF Upto
  <2>2. Cardinality(Upto(i)) # 0
    BY <2>1, FS_EmptySet, Zenon
  <2> QED  BY <2>1, <2>2
<1>5. place = [i \in 1 .. n |-> Cardinality(Upto(i))]
  BY Zenon DEF Places
<1>6. \A i, j \in 1 .. n : NotAfter(i, j, flags) => Upto(i) \subseteq Upto(j)
  BY DEF NotAfter
<1>7. \A i, j \in 1 .. n : NotAfter(i, j, flags) \/ NotAfter(j, i, flags)
  BY DEF NotAfter
<1>8. \A i, j \in 1 .. n : NotAfter(i, j, flags) /\ NotAfter(j, i, flags) => i = j
  BY DEF NotAfter
<1>9. ASSUME NEW i \in 1 .. n, NEW j \in 1 .. n, NotAfter(i, j, flags)
      PROVE  /\ Cardinality(Upto(i)) <= Cardinality(Upto(j))
             /\ Cardinality(Upto(i)) = Cardinality(Upto(j)) => i = j
  <2>1. Upto(i) \in SUBSET Upto(j) /\ IsFiniteSet(Upto(j))
    BY <1>2, <1>6, <1>9, Zenon
  <2>2. /\ Cardinality(Upto(i)) <= Cardinality(Upto(j))
        /\ Cardinality(Upto(j)) = Cardinality(Upto(i)) => Upto(j) = Upto(i)
    <3> HIDE DEF Upto
    <3> QED  BY <2>1, FS_Subset, Zenon
  <2>3. Upto(j) = Upto(i) => NotAfter(j, i, flags)
    BY <1>3, Zenon
  <2> QED  BY <1>8, <1>9, <2>2, <2>3, Zenon
<1> HIDE DEF Upto, place
<1>10. place \in [1 .. n -> 1 .. n] /\ \A i \in 1 .. n : place[i] = Cardinality(Upto(i))
  BY <1>4, <1>5, Zenon
<1>11. \A i, j \in 1 .. n : place[i] = place[j] => i = j
  BY <1>7, <1>9, <1>10, Zenon
<1>12. \A i, j \in 1 .. n : NotAfter(i, j, flags) => place[i] <= place[j]
  BY <1>9, <1>10
<1> QED  BY <1>10, <1>11, <1>12, Zenon DEF place, Injection, IsInjective

\* stablePartition reorders its items, none of which it loses or repeats, and
\* leaves no item whose flag is set before one whose flag is not.
LEMMA PartitionReorders ==
  ASSUME NEW S, NEW items \in Seq(S), NEW flags \in [1 .. Len(items) -> BOOLEAN]
  PROVE  \E p \in Bijection(1 .. Len(items), 1 .. Len(items)) :
            /\ Partition(items, flags) = [k \in 1 .. Len(items) |-> items[p[k]]]
            /\ \A i, j \in 1 .. Len(items) : i < j => ~(flags[p[i]] /\ ~flags[p[j]])
<1> DEFINE n == Len(items)
           place == Places(n, flags)
           At(k) == CHOOSE i \in 1 .. n : place[i] = k
           p == [k \in 1 .. n |-> At(k)]
<1>1. n \in Nat
  OBVIOUS
<1>2. /\ place \in Injection(1 .. n, 1 .. n)
      /\ \A i, j \in 1 .. n : NotAfter(i, j, flags) => place[i] <= place[j]
  BY <1>1, PlacesOrdered, Zenon
<1>3. place \in Surjection(1 .. n, 1 .. n)
  BY <1>1, <1>2, FS_Interval, FS_Injection
<1> HIDE DEF n, place
<1>4. \A k \in 1 .. n : p[k] \in 1 .. n /\ place[p[k]] = k
  BY <1>3, Zenon DEF Surjection
<1>5. place \in [1 .. n -> 1 .. n] /\ \A i, j \in 1 .. n : place[i] = place[j] => i = j
  BY <1>2, Zenon DEF Injection, IsInjective
<1> HIDE DEF p
<1>6. p \in [1 .. n -> 1 .. n]
  BY <1>4, Zenon DEF p
<1>7. \A i \in 1 .. n : p[place[i]] = i
  BY <1>4, <1>5, Zenon
<1>8. \A i, j \in 1 .. n : p[i] = p[j] => i = j
  BY <1>4, Zenon
<1>9. \A i \in 1 .. n : \E k \in 1 .. n : p[k] = i
  BY <1>5, <1>7, Zenon
<1>10. p \in Bijection(1 .. n, 1 .. n)
  BY <1>6, <1>8, <1>9, Zenon DEF Bijection, Injection, Surjection, IsInjective
<1>11. ASSUME NEW i \in 1 .. n, NEW j \in 1 .. n, i < j, flags[p[i]], ~flags[p[j]]
       PROVE  FALSE
  <2>1. NotAfter(p[j], p[i], flags)
    BY <1>11, Zenon DEF NotAfter
  <2>2. j <= i
    BY <1>2, <1>4, <2>1, Zenon
  <2> QED  BY <1>1, <1>11, <2>2
<1>12. CASE n < 2
  <2>1. \A k \in 1 .. n : p[k] = k
    BY <1>1, <1>6, <1>12
  <2>2. Partition(items, flags) = items
    BY <1>12, Zenon DEF Partition, n
  <2>3. items = [k \in 1 .. n |-> items[k]]
    BY DEF n
  <2>4. Partition(items, flags) = [k \in 1 .. n |-> items[p[k]]]
    BY <2>1, <2>2, <2>3, Zenon
  <2> QED  BY <1>10, <1>11, <2>4, Zenon DEF n
<1>13. CASE ~(n < 2)
  <2>1. Partition(items, flags) = [k \in 1 .. n |-> items[At(k)]]
    BY <1>13, Zenon DEF Partition, n, place
  <2> HIDE DEF At
  <2>2. \A k \in 1 .. n : p[k] = At(k)
    BY Zenon DEF p
  <2>3. Partition(items, flags) = [k \in 1 .. n |-> items[p[k]]]
    BY <2>1, <2>2, Zenon
  <2> QED  BY <1>10, <1>11, <2>3, Zenon DEF n
<1> QED  BY <1>12, <1>13, Zenon


-----------------------------------------------------------------------------
(* No address is lost.  Whatever the cache says, an attempt holds the      *)
(* addresses its description was built with, and what has been tried of    *)
(* them follows from the cycle and the index.                              *)

DescIds == DOMAIN config.descriptions

Attempts == [desc : DescIds, addresses : Seq(CacheKeys), cycle : Nat, index : Nat \ {0}]

ConnectorTypeOK ==
  /\ config \in Configs
  /\ step \in {"build", "order", "descriptions", "first", "loop", "next", "try", "dial", "instantiate"} \cup Returned
  /\ toBuild \in Seq(DescIds) /\ resolving \in Nat
  /\ work \in Seq(CacheKeys) /\ last \in Seq(BOOLEAN)
  /\ attempts \in Seq(Attempts) /\ cur \in Nat \ {0} /\ exhausted \in BOOLEAN
  /\ kept \in [DescIds -> Seq(CacheKeys)] /\ tried \in [DescIds -> [CacheKeys -> Nat]]

\* The verdicts read so far still hold of the keys whose status has not changed.
Verdicts ==
  /\ step = "order" =>
       /\ Len(last) <= Len(work)
       /\ \A i \in DOMAIN last : work[i] \in steady => last[i] = (work[i] \in down)
  /\ step = "descriptions" =>
       Len(last) <= Len(attempts) /\ (Len(last) < Len(attempts) => work # << >>)
  /\ step \notin {"order", "descriptions"} => last = << >>

\* Until the loop begins no attempt has been begun.
Untouched == step \in {"build", "descriptions", "first"} \/ (step = "order" /\ toBuild # << >>)

\* Each description is built once.
Building ==
  /\ toBuild # << >> => step \in {"build", "order"}
  /\ \A i, j \in DOMAIN toBuild : toBuild[i] = toBuild[j] => i = j
  /\ \A i, j \in DOMAIN attempts : attempts[i].desc = attempts[j].desc => i = j
  /\ \A i \in DOMAIN attempts, j \in DOMAIN toBuild : attempts[i].desc # toBuild[j]
  /\ Untouched => cur = 1 /\ \A i \in DOMAIN attempts : attempts[i].cycle = 0 /\ attempts[i].index = 1

\* The same addresses, as often.
Same(s, t) == \A k \in CacheKeys : Count(s, k) = Count(t, k)

Addresses ==
  /\ \A i \in DOMAIN attempts :
       attempts[i].addresses # << >> /\ Same(attempts[i].addresses, kept[attempts[i].desc])
  /\ step = "order" /\ toBuild # << >> => work # << >> /\ Same(work, kept[Head(toBuild)])
  /\ step = "order" /\ toBuild = << >> =>
       /\ cur \in DOMAIN attempts /\ attempts[cur].index = 1
       /\ work # << >> /\ Same(work, attempts[cur].addresses)
  /\ \A d \in DescIds : kept[d] # << >> =>
       \/ \E i \in DOMAIN attempts : attempts[i].desc = d
       \/ step = "order" /\ toBuild # << >> /\ d = Head(toBuild)

\* Where the iterator is.
Position ==
  /\ cur \in DOMAIN attempts =>
       attempts[cur].index <= Len(attempts[cur].addresses) + 1
       /\ attempts[cur].cycle <= Desc(attempts[cur].desc).retryCount
  /\ \A i \in DOMAIN attempts : i > cur => attempts[i].index = 1 /\ attempts[i].cycle = 0
  /\ step \in {"try", "dial"} =>
       /\ cur \in DOMAIN attempts /\ attempts[cur].index > 1
       /\ option = [desc |-> attempts[cur].desc,
                    address |-> attempts[cur].addresses[attempts[cur].index - 1]]
  /\ step \notin Returned => ~exhausted

\* How often k is among the first m of s.
CountUpto(s, m, k) == Cardinality({i \in 1 .. m : s[i] = k})

\* The addresses of the current cycle that have been tried: not yet the one that
\* is about to be.
Taken == attempts[cur].index - (IF step \in {"try", "dial"} THEN 2 ELSE 1)

TriedOf(i, k) ==
  LET perCycle == Count(kept[attempts[i].desc], k)
  IN  IF i < cur THEN perCycle * (Desc(attempts[i].desc).retryCount + 1)
      ELSE IF i > cur THEN 0
      ELSE attempts[i].cycle * perCycle + CountUpto(attempts[i].addresses, Taken, k)

Tally ==
  /\ step \notin {"cancelled", "noOption"} =>
       \A i \in DOMAIN attempts, k \in CacheKeys : tried[attempts[i].desc][k] = TriedOf(i, k)
  /\ \A d \in DescIds : (\A i \in DOMAIN attempts : attempts[i].desc # d) =>
       \A k \in CacheKeys : tried[d][k] = 0

\* What HasNext promised to Next.
Promised ==
  step = "next" =>
    /\ cur \in DOMAIN attempts
    /\ \/ attempts[cur].index <= Len(attempts[cur].addresses)
       \/ MayRetry(attempts[cur])
       \/ \E i \in DOMAIN attempts : i > cur

ConnectorInv ==
  /\ ConnectorTypeOK /\ Verdicts /\ Building /\ Addresses /\ Position /\ Tally /\ Promised
  /\ AllTried /\ NilWhenCancelled

\* Reordering a sequence neither loses nor repeats an element.
LEMMA CountPermuted ==
  ASSUME NEW S, NEW s \in Seq(S), NEW p \in Bijection(1 .. Len(s), 1 .. Len(s)),
         NEW t, t = [k \in 1 .. Len(s) |-> s[p[k]]]
  PROVE  t \in Seq(S) /\ Len(t) = Len(s) /\ \A x : Count(t, x) = Count(s, x)
<1> DEFINE n == Len(s)
<1>1. /\ n \in Nat /\ DOMAIN s = 1 .. n /\ p \in [1 .. n -> 1 .. n]
      /\ \A i, j \in 1 .. n : p[i] = p[j] => i = j
      /\ \A i \in 1 .. n : \E k \in 1 .. n : p[k] = i
  BY DEF Bijection, Injection, Surjection, IsInjective
<1>2. t \in Seq(S) /\ Len(t) = n /\ DOMAIN t = 1 .. n
  <2>1. \A i \in 1 .. n : s[i] \in S
    BY <1>1
  <2> HIDE DEF n
  <2>2. t \in [1 .. n -> S]
    BY <1>1, <2>1, Zenon DEF n
  <2> QED  BY <1>1, <2>2
<1>3. ASSUME NEW x
      PROVE  Count(t, x) = Count(s, x)
  <2> DEFINE A == {k \in 1 .. n : t[k] = x}
             B == {i \in 1 .. n : s[i] = x}
             q == [k \in A |-> p[k]]
  <2>1. q \in [A -> B]
    BY <1>1, Zenon
  <2>2. \A i, j \in A : q[i] = q[j] => i = j
    BY <1>1, Zenon
  <2>3. \A i \in B : \E k \in A : q[k] = i
    BY <1>1, Zenon
  <2>4. IsFiniteSet(A)
    <3>1. IsFiniteSet(1 .. n) /\ A \in SUBSET (1 .. n)
      BY <1>1, FS_Interval
    <3> HIDE DEF A
    <3> QED  BY <3>1, FS_Subset, Zenon
  <2>5. Count(t, x) = Cardinality(A) /\ Count(s, x) = Cardinality(B)
    BY <1>1, <1>2, Zenon DEF Count
  <2> HIDE DEF A, B, q
  <2>6. q \in Bijection(A, B)
    BY <2>1, <2>2, <2>3, Zenon DEF Bijection, Injection, Surjection, IsInjective
  <2>7. ExistsBijection(A, B)
    BY <2>6, Zenon DEF ExistsBijection
  <2> QED  BY <2>4, <2>5, <2>7, FS_Bijection, Zenon
<1> QED  BY <1>2, <1>3, Zenon

\* Counting an address along a cycle.
LEMMA Counting ==
  ASSUME NEW S, NEW s \in Seq(S), NEW x
  PROVE  /\ Count(s, x) \in Nat
         /\ s = << >> => Count(s, x) = 0
         /\ CountUpto(s, 0, x) = 0
         /\ CountUpto(s, Len(s), x) = Count(s, x)
         /\ \A m \in 0 .. Len(s) : CountUpto(s, m, x) \in Nat
         /\ \A m \in 0 .. Len(s) - 1 :
              CountUpto(s, m + 1, x) = CountUpto(s, m, x) + (IF s[m + 1] = x THEN 1 ELSE 0)
<1>1. Len(s) \in Nat /\ DOMAIN s = 1 .. Len(s)
  OBVIOUS
<1> DEFINE U(m) == {i \in 1 .. m : s[i] = x}
<1>2. ASSUME NEW m \in 0 .. Len(s)
      PROVE  IsFiniteSet(U(m)) /\ Cardinality(U(m)) \in Nat
  <2>1. IsFiniteSet(1 .. m) /\ U(m) \in SUBSET (1 .. m)
    BY <1>1, FS_Interval
  <2> HIDE DEF U
  <2> QED  BY <2>1, FS_Subset, FS_CardinalityType, Zenon
<1>3. U(0) = {} /\ Cardinality(U(0)) = 0
  BY FS_EmptySet
<1>4. ASSUME NEW m \in 0 .. Len(s) - 1
      PROVE  Cardinality(U(m + 1)) = Cardinality(U(m)) + (IF s[m + 1] = x THEN 1 ELSE 0)
  <2>1. m \in 0 .. Len(s) /\ m + 1 \notin U(m)
    BY <1>1
  <2>2. U(m + 1) = IF s[m + 1] = x THEN U(m) \cup {m + 1} ELSE U(m)
    BY <1>1
  <2>3. IsFiniteSet(U(m)) /\ Cardinality(U(m)) \in Nat
    BY <1>2, <2>1, Zenon
  <2> HIDE DEF U
  <2>4. Cardinality(U(m) \cup {m + 1}) = Cardinality(U(m)) + 1
    BY <2>1, <2>3, FS_AddElement, Zenon
  <2> QED  BY <2>2, <2>3, <2>4
<1>5. Count(s, x) = Cardinality(U(Len(s)))
  BY <1>1, Zenon DEF Count
<1>6. s = << >> => Len(s) = 0
  OBVIOUS
<1>7. \A m : CountUpto(s, m, x) = Cardinality(U(m))
  BY Zenon DEF CountUpto
<1> HIDE DEF U
<1> QED  BY <1>1, <1>2, <1>3, <1>4, <1>5, <1>6, <1>7

\* The next round robin.
LEMMA RotateReorders ==
  ASSUME NEW S, NEW s \in Seq(S)
  PROVE  Rotate(s) \in Seq(S) /\ Len(Rotate(s)) = Len(s) /\ \A x : Count(Rotate(s), x) = Count(s, x)
<1>1. CASE Len(s) < 2
  BY <1>1, Zenon DEF Rotate
<1>2. CASE ~(Len(s) < 2)
  <2> DEFINE n == Len(s)
             p == [k \in 1 .. n |-> IF k = n THEN 1 ELSE k + 1]
             t == Append(Tail(s), Head(s))
  <2>1. n \in Nat /\ n >= 2 /\ s # << >>
    BY <1>2
  <2>2. p \in [1 .. n -> 1 .. n] /\ \A i, j \in 1 .. n : p[i] = p[j] => i = j
    BY <2>1
  <2>3. ASSUME NEW i \in 1 .. n
        PROVE  \E k \in 1 .. n : p[k] = i
    <3>1. CASE i = 1
      BY <2>1, <3>1
    <3>2. CASE i # 1
      <4>1. i - 1 \in 1 .. n /\ p[i - 1] = i
        BY <2>1, <3>2
      <4> QED  BY <4>1, Zenon
    <3> QED  BY <3>1, <3>2, Zenon
  <2>4. p \in Bijection(1 .. n, 1 .. n)
    <3> HIDE DEF p, n
    <3> QED  BY <2>2, <2>3, Zenon DEF Bijection, Injection, Surjection, IsInjective
  <2>5. t \in Seq(S) /\ Len(t) = n /\ \A k \in 1 .. n : t[k] = s[p[k]]
    BY <2>1
  <2>6. t = [k \in 1 .. n |-> s[p[k]]]
    <3> HIDE DEF p, t, n
    <3>1. t = [k \in 1 .. n |-> t[k]]
      BY <2>5
    <3> QED  BY <2>5, <3>1, Zenon
  <2>7. Rotate(s) = t
    BY <1>2, Zenon DEF Rotate
  <2> HIDE DEF p, t
  <2> QED  BY <2>4, <2>6, <2>7, CountPermuted
<1> QED  BY <1>1, <1>2, Zenon

\* The addresses as Place puts them.
LEMMA PlacedAddresses ==
  ASSUME ConnectorTypeOK, Verdicts, StatusesRead
  PROVE  /\ Partition(work, last) \in Seq(CacheKeys) /\ Len(Partition(work, last)) = Len(work)
         /\ Same(Partition(work, last), work)
<1>1. work \in Seq(CacheKeys) /\ last \in Seq(BOOLEAN)
  BY Zenon DEF ConnectorTypeOK
<1>2. CASE Len(work) < 2
  BY <1>1, <1>2, Zenon DEF Partition, Same
<1>3. CASE Len(last) = Len(work)
  <2>1. last \in [1 .. Len(work) -> BOOLEAN]
    BY <1>1, <1>3
  <2>2. PICK p \in Bijection(1 .. Len(work), 1 .. Len(work)) :
          Partition(work, last) = [k \in 1 .. Len(work) |-> work[p[k]]]
    BY <1>1, <2>1, PartitionReorders
  <2> QED  BY <1>1, <2>2, CountPermuted DEF Same
<1> QED  BY <1>2, <1>3, Zenon DEF StatusesRead


\* What the state of the iterator is made of, apart from the order being read.
built == <<config, toBuild, attempts, cur, kept, tried>>

LEMMA ConnectorInitInv == ConnectorInit => ConnectorInv
<1> SUFFICES ASSUME ConnectorInit
             PROVE  ConnectorInv
  BY Zenon
<1> DEFINE n == Len(config.descriptions)
           ids == [i \in DOMAIN config.descriptions |-> i]
<1>1. config.descriptions \in Seq(Descriptions) /\ n \in Nat /\ DescIds = 1 .. n
  BY ConfigsTyped DEF ConnectorInit, DescIds
<1>2. ids \in [1 .. n -> 1 .. n] /\ \A i \in 1 .. n : ids[i] = i
  BY <1>1
<1>3. PICK s \in Ordered(ids, config.loadBalance) : toBuild = Kept(s, config.failover)
  BY Zenon DEF ConnectorInit
<1> HIDE DEF n, ids
<1>4. s \in [1 .. n -> 1 .. n] /\ \A i, j \in 1 .. n : s[i] = s[j] => i = j
  <2>1. CASE s = ids
    BY <1>2, <2>1, Zenon
  <2>2. CASE s \in Shuffles(ids)
    <3>1. PICK p \in [DOMAIN ids -> DOMAIN ids] :
            /\ \A i, j \in DOMAIN ids : p[i] = p[j] => i = j
            /\ s = [i \in DOMAIN ids |-> ids[p[i]]]
      BY <2>2, Zenon DEF Shuffles
    <3> QED  BY <1>2, <3>1
  <2> QED  BY <1>3, <2>1, <2>2, Zenon DEF Ordered
<1>5. s \in Seq(1 .. n) /\ Len(s) = n
  BY <1>1, <1>4
<1>6. toBuild \in Seq(1 .. n) /\ \A i, j \in DOMAIN toBuild : toBuild[i] = toBuild[j] => i = j
  <2>1. CASE toBuild = s
    BY <1>4, <1>5, <2>1, Zenon
  <2>2. CASE s # << >> /\ toBuild = SubSeq(s, 1, 1)
    <3>1. toBuild \in Seq(1 .. n) /\ Len(toBuild) = 1
      BY <1>5, <2>2
    <3> QED  BY <3>1
  <2> QED  BY <1>3, <2>1, <2>2, Zenon DEF Kept
<1>7. /\ config \in Configs /\ step = "build" /\ resolving = 0 /\ work = << >> /\ last = << >>
      /\ attempts = << >> /\ cur = 1 /\ exhausted = FALSE
  BY Zenon DEF ConnectorInit
<1>7a. kept = [d \in 1 .. n |-> << >>] /\ tried = [d \in 1 .. n |-> [k \in CacheKeys |-> 0]]
  BY <1>1, Zenon DEF ConnectorInit, DescIds
<1>8. ConnectorTypeOK
  <2>1. << >> \in Seq(CacheKeys) /\ << >> \in Seq(BOOLEAN) /\ attempts \in Seq(Attempts)
    BY <1>7
  <2>2. kept \in [DescIds -> Seq(CacheKeys)]
    BY <1>1, <1>7a, <2>1, Zenon
  <2>3. tried \in [DescIds -> [CacheKeys -> Nat]]
    BY <1>1, <1>7a, Zenon
  <2>4. toBuild \in Seq(DescIds)
    BY <1>1, <1>6, Zenon
  <2>5. work \in Seq(CacheKeys) /\ last \in Seq(BOOLEAN) /\ exhausted \in BOOLEAN
    BY <1>7, <2>1, Zenon
  <2>6. config \in Configs /\ step = "build" /\ resolving \in Nat /\ cur \in Nat \ {0}
    BY <1>7
  <2> QED  BY <2>1, <2>2, <2>3, <2>4, <2>5, <2>6, Zenon DEF ConnectorTypeOK
<1>9. Verdicts /\ Building
  BY <1>6, <1>7 DEF Verdicts, Building, Untouched
<1>10. Addresses /\ Position /\ Tally /\ Promised
  BY <1>1, <1>7, <1>7a DEF Addresses, Position, Tally, Promised
<1>11. AllTried /\ NilWhenCancelled
  BY <1>7, Zenon DEF AllTried, NilWhenCancelled
<1> QED  BY <1>8, <1>9, <1>10, <1>11, Zenon DEF ConnectorInv

\* The hosts that others mark down, and those that expire, change no verdict on a
\* key that is still steady.
LEMMA EnvironmentKeeps ==
  ASSUME ConnectorInv, (\E k \in CacheKeys : MarkDownHost(k) \/ Expire(k)) \/ Cancel \/ UNCHANGED connectorVars
  PROVE  ConnectorInv'
<1>1. /\ UNCHANGED built /\ UNCHANGED <<step, resolving, work, last, exhausted, option>>
  BY Zenon DEF built, MarkDownHost, Expire, Cancel, connectorVars, iterator, history
<1>2. ConnectorTypeOK' /\ Building' /\ Addresses'
  BY <1>1, ZenonT(30) DEF built, ConnectorInv, ConnectorTypeOK, DescIds, Attempts, Building, Untouched, Addresses, Same
<1>3. Position' /\ Tally' /\ Promised'
  BY <1>1 DEF built, ConnectorInv, Position, Desc, Tally, TriedOf, Taken, DescIds, Promised, MayRetry
<1>4. AllTried' /\ NilWhenCancelled'
  BY <1>1, Zenon DEF built, ConnectorInv, AllTried, NilWhenCancelled, Desc
<1>5. Verdicts'
  <2>1. CASE \E k \in CacheKeys : MarkDownHost(k) \/ Expire(k)
    BY <1>1, <2>1 DEF built, MarkDownHost, Expire, Unsteady, ConnectorInv, Verdicts
  <2>2. CASE UNCHANGED <<steady, down>>
    BY <1>1, <2>2, Zenon DEF built, ConnectorInv, Verdicts
  <2> QED  BY <2>1, <2>2, Zenon DEF Cancel, connectorVars, history
<1> QED  BY <1>2, <1>3, <1>4, <1>5, Zenon DEF ConnectorInv

\* A host is resolved.
LEMMA ResolveHostKeeps ==
  ASSUME ConnectorInv, ResolveHost
  PROVE  ConnectorInv'
<1>1. /\ step = "build" /\ UNCHANGED built /\ UNCHANGED <<step, last, exhausted, option, steady, down>>
      /\ toBuild # << >> /\ resolving < Len(Desc(Head(toBuild)).hosts) /\ resolving' = resolving + 1
  BY Zenon DEF ResolveHost, built, iterator, history
<1>2. config.descriptions \in Seq(Descriptions) /\ toBuild \in Seq(DescIds) /\ work \in Seq(CacheKeys)
      /\ resolving \in Nat
  BY ConfigsTyped, Zenon DEF ConnectorInv, ConnectorTypeOK
<1>3. Head(toBuild) \in DescIds
  BY <1>1, <1>2
<1>4. Desc(Head(toBuild)) \in Descriptions
  BY <1>2, <1>3 DEF Desc, DescIds
<1> DEFINE h == Desc(Head(toBuild)).hosts[resolving + 1]
<1>5. h \in Hosts
  <2>1. Desc(Head(toBuild)).hosts \in Seq(Hosts)
    BY <1>4, Zenon DEF Descriptions
  <2> QED  BY <1>1, <1>2, <2>1
<1>6. PICK found \in {Dns[h], <<h>>} : work' = work \o found
  BY Zenon DEF ResolveHost
<1> HIDE DEF h
<1>7. found \in Seq(CacheKeys)
  <2>1. h \in CacheKeys
    BY <1>5, Zenon DEF CacheKeys
  <2>2. <<h>> \in Seq(CacheKeys)
    BY <2>1
  <2> QED  BY <1>5, <1>6, <2>2, DnsTyped, Zenon
<1>8. work' \in Seq(CacheKeys)
  BY <1>2, <1>6, <1>7
<1>9. ConnectorTypeOK'
  BY <1>1, <1>2, <1>8, SMTT(30) DEF built, ConnectorInv, ConnectorTypeOK, DescIds, Attempts
<1>10. Verdicts' /\ Building' /\ Addresses'
  BY <1>1 DEF built, ConnectorInv, Verdicts, DescIds, Building, Untouched, Addresses, Same
<1>11. Position' /\ Tally' /\ Promised'
  BY <1>1 DEF built, ConnectorInv, Position, Desc, Tally, TriedOf, Taken, DescIds, Promised, MayRetry
<1>12. AllTried' /\ NilWhenCancelled'
  BY <1>1, Zenon DEF AllTried, NilWhenCancelled
<1> QED  BY <1>9, <1>10, <1>11, <1>12, Zenon DEF ConnectorInv

\* One more status is read.
LEMMA ReadStatusKeeps ==
  ASSUME ConnectorInv, ReadStatus
  PROVE  ConnectorInv'
<1>1. /\ step = "order" /\ UNCHANGED built /\ UNCHANGED <<step, resolving, work, exhausted, option, steady, down>>
      /\ Len(last) < Len(work)
  BY Zenon DEF ReadStatus, built, iterator, history
<1>2. work \in Seq(CacheKeys) /\ last \in Seq(BOOLEAN)
  BY Zenon DEF ConnectorInv, ConnectorTypeOK
<1> DEFINE isDown == work[Len(last) + 1] \in down
<1>3. last' = Append(last, isDown) /\ isDown \in BOOLEAN
  BY DEF ReadStatus
<1>4. ConnectorTypeOK'
  <2> HIDE DEF isDown
  <2>1. last' \in Seq(BOOLEAN)
    BY <1>2, <1>3
  <2> QED  BY <1>1, <2>1, Zenon DEF built, ConnectorInv, ConnectorTypeOK, DescIds, Attempts
<1>5. Verdicts'
  <2>1. /\ Len(last') = Len(last) + 1 /\ DOMAIN last' = 1 .. Len(last) + 1
        /\ \A i \in DOMAIN last : last'[i] = last[i]
        /\ last'[Len(last) + 1] = isDown
    <3> HIDE DEF isDown
    <3> QED  BY <1>2, <1>3
  <2>2. ASSUME NEW i \in DOMAIN last', work[i] \in steady
        PROVE  last'[i] = (work[i] \in down)
    <3>1. CASE i = Len(last) + 1
      BY <2>1, <3>1, Zenon
    <3>2. CASE i # Len(last) + 1
      <4>1. i \in DOMAIN last
        BY <1>2, <2>1, <3>2
      <4>2. last[i] = (work[i] \in down)
        BY <1>1, <2>2, <4>1, Zenon DEF ConnectorInv, Verdicts
      <4> QED  BY <2>1, <4>1, <4>2, Zenon
    <3> QED  BY <3>1, <3>2, Zenon
  <2>3. Len(last') <= Len(work)
    BY <1>1, <1>2, <2>1
  <2> QED  BY <1>1, <2>2, <2>3, Zenon DEF Verdicts
<1>6. Building' /\ Addresses'
  BY <1>1, Zenon DEF built, ConnectorInv, DescIds, Building, Untouched, Addresses, Same
<1>7. Position' /\ Tally' /\ Promised'
  BY <1>1 DEF built, ConnectorInv, Position, Desc, Tally, TriedOf, Taken, DescIds, Promised, MayRetry
<1>8. AllTried' /\ NilWhenCancelled'
  BY <1>1, Zenon DEF AllTried, NilWhenCancelled
<1> QED  BY <1>4, <1>5, <1>6, <1>7, <1>8, Zenon DEF ConnectorInv

\* All descriptions are built, and their order is about to be settled.
LEMMA DescriptionsBuiltKeeps ==
  ASSUME ConnectorInv, DescriptionsBuilt
  PROVE  ConnectorInv'
<1>1. /\ step = "build" /\ step' \in {"first", "descriptions"} /\ toBuild = << >>
      /\ UNCHANGED built /\ UNCHANGED <<resolving, last, exhausted, option, steady, down>>
  BY Zenon DEF DescriptionsBuilt, built, iterator, history
<1>2. attempts \in Seq(Attempts) /\ work \in Seq(CacheKeys) /\ last = << >>
  BY <1>1, Zenon DEF ConnectorInv, ConnectorTypeOK, Verdicts
<1>3. /\ work' \in Seq(CacheKeys)
      /\ step' = "descriptions" => Len(attempts) >= 2 /\ work' # << >>
  <2>1. CASE Len(attempts) < 2
    BY <1>2, <2>1, Zenon DEF DescriptionsBuilt
  <2>2. CASE ~(Len(attempts) < 2)
    <3>1. 1 \in DOMAIN attempts
      BY <1>2, <2>2
    <3>2. attempts[1] \in Attempts /\ attempts[1].addresses # << >>
      BY <1>2, <3>1 DEF ConnectorInv, Addresses
    <3>3. work' = attempts[1].addresses
      BY <2>2, Zenon DEF DescriptionsBuilt
    <3> QED  BY <1>2, <2>2, <3>2, <3>3, SMTT(30) DEF Attempts
  <2> QED  BY <2>1, <2>2, Zenon
<1>4. ConnectorTypeOK'
  BY <1>1, <1>3, Zenon DEF built, ConnectorInv, ConnectorTypeOK, DescIds, Attempts
<1>5. Verdicts'
  BY <1>1, <1>2, <1>3 DEF built, Verdicts
<1>6. Building' /\ Addresses'
  BY <1>1, SMTT(30) DEF built, ConnectorInv, DescIds, Building, Untouched, Addresses, Same
<1>7. Position' /\ Tally' /\ Promised'
  BY <1>1 DEF built, ConnectorInv, Position, Desc, Tally, TriedOf, Taken, DescIds, Promised, MayRetry, Returned
<1>8. AllTried' /\ NilWhenCancelled'
  BY <1>1, Zenon DEF AllTried, NilWhenCancelled
<1> QED  BY <1>4, <1>5, <1>6, <1>7, <1>8, Zenon DEF ConnectorInv

\* One more address of the descriptions is looked up.
LEMMA ReadDescriptionKeeps ==
  ASSUME ConnectorInv, ReadDescription
  PROVE  ConnectorInv'
<1> DEFINE isDown == Head(work) \in down
           verdict == ~isDown \/ Len(work) = 1
           n == Len(last) + 1
<1>1. /\ step = "descriptions" /\ UNCHANGED built /\ UNCHANGED <<step, resolving, exhausted, option, steady, down>>
      /\ Len(last) < Len(attempts)
  BY Zenon DEF ReadDescription, built, iterator, history
<1>2. /\ attempts \in Seq(Attempts) /\ work \in Seq(CacheKeys) /\ last \in Seq(BOOLEAN) /\ work # << >>
  BY <1>1, Zenon DEF ConnectorInv, ConnectorTypeOK, Verdicts
<1>3. /\ last' = (IF verdict THEN Append(last, isDown) ELSE last) /\ isDown \in BOOLEAN
      /\ work' = IF ~verdict THEN Tail(work)
                 ELSE IF n < Len(attempts) THEN attempts[n + 1].addresses ELSE << >>
  BY DEF ReadDescription
<1>4. ~verdict => Len(work) # 1
  BY Zenon
<1> HIDE DEF isDown, verdict
<1>5. /\ last' \in Seq(BOOLEAN) /\ Len(last') <= Len(attempts)
      /\ Len(last') = IF verdict THEN n ELSE Len(last)
  <2>1. CASE verdict
    <3>1. last' = Append(last, isDown) /\ isDown \in BOOLEAN
      BY <1>3, <2>1, Zenon
    <3> QED  BY <1>1, <1>2, <2>1, <3>1
  <2>2. CASE ~verdict
    <3>1. last' = last
      BY <1>3, <2>2, Zenon
    <3> QED  BY <1>1, <1>2, <2>2, <3>1
  <2> QED  BY <2>1, <2>2, Zenon
<1>6. work' \in Seq(CacheKeys) /\ (Len(last') < Len(attempts) => work' # << >>)
  <2>1. CASE ~verdict
    <3>1. work' = Tail(work)
      BY <1>3, <2>1, Zenon
    <3>2. Len(work) >= 2
      <4>1. Len(work) # 1
        BY <1>4, <2>1, Zenon
      <4>2. Len(work) \in Nat /\ Len(work) # 0
        BY <1>2
      <4>3. \A m \in Nat : m # 0 /\ m # 1 => m >= 2
        OBVIOUS
      <4> QED  BY <4>1, <4>2, <4>3, Zenon
    <3>3. work' \in Seq(CacheKeys) /\ Len(work') = Len(work) - 1
      BY <1>2, <3>1
    <3> QED  BY <1>2, <3>2, <3>3
  <2>2. CASE verdict /\ n < Len(attempts)
    <3>1. n + 1 \in DOMAIN attempts
      BY <1>2, <2>2
    <3>2. attempts[n + 1] \in Attempts /\ attempts[n + 1].addresses # << >>
      BY <1>2, <3>1 DEF ConnectorInv, Addresses
    <3> QED  BY <1>3, <2>2, <3>2, Zenon DEF Attempts
  <2>3. CASE verdict /\ ~(n < Len(attempts))
    BY <1>3, <1>5, <2>3
  <2> QED  BY <2>1, <2>2, <2>3, Zenon
<1>7. ConnectorTypeOK' /\ Verdicts'
  BY <1>1, <1>5, <1>6, Zenon DEF built, ConnectorInv, ConnectorTypeOK, DescIds, Attempts, Verdicts
<1>8. Building' /\ Addresses'
  BY <1>1, SMTT(30) DEF built, ConnectorInv, DescIds, Building, Untouched, Addresses, Same
<1>9. Position' /\ Tally' /\ Promised'
  BY <1>1 DEF built, ConnectorInv, Position, Desc, Tally, TriedOf, Taken, DescIds, Promised, MayRetry, Returned
<1>10. AllTried' /\ NilWhenCancelled'
  BY <1>1, Zenon DEF AllTried, NilWhenCancelled
<1> QED  BY <1>7, <1>8, <1>9, <1>10, Zenon DEF ConnectorInv

\* A description is left out, or its addresses are shuffled and cut.
LEMMA FinishResolveKeeps ==
  ASSUME ConnectorInv, FinishResolve
  PROVE  ConnectorInv'
<1> DEFINE d == Head(toBuild)
<1>1. /\ step = "build" /\ toBuild # << >> /\ resolving' = 0
      /\ UNCHANGED <<config, last, attempts, cur, exhausted, option, down, tried, steady>>
  BY Zenon DEF FinishResolve, iterator
<1>2. /\ toBuild \in Seq(DescIds) /\ work \in Seq(CacheKeys) /\ kept \in [DescIds -> Seq(CacheKeys)]
      /\ attempts \in Seq(Attempts) /\ last = << >>
  BY <1>1, Zenon DEF ConnectorInv, ConnectorTypeOK, Verdicts
<1>3. /\ d \in DescIds /\ d = toBuild[1] /\ 1 \in DOMAIN toBuild
      /\ \A i \in DOMAIN attempts : attempts[i].desc \in DescIds /\ attempts[i].desc # d
  <2>1. d \in DescIds /\ d = toBuild[1] /\ 1 \in DOMAIN toBuild
    BY <1>1, <1>2
  <2>2. \A i \in DOMAIN attempts : attempts[i].desc # toBuild[1]
    BY <2>1, Zenon DEF ConnectorInv, Building
  <2>3. \A i \in DOMAIN attempts : attempts[i] \in Attempts
    BY <1>2
  <2>4. \A i \in DOMAIN attempts : attempts[i].desc \in DescIds
    BY <2>3, Zenon DEF Attempts
  <2> QED  BY <2>1, <2>2, <2>4, Zenon
<1> HIDE DEF d
<1>4. CASE work = << >>
  <2>1. toBuild' = Tail(toBuild) /\ UNCHANGED <<step, work, kept>>
    BY <1>4, Zenon DEF FinishResolve
  <2>2. toBuild' \in Seq(DescIds) /\ DOMAIN toBuild' = 1 .. Len(toBuild) - 1
        /\ \A i \in DOMAIN toBuild' : i + 1 \in DOMAIN toBuild /\ toBuild'[i] = toBuild[i + 1]
    BY <1>1, <1>2, <2>1
  <2>3. ConnectorTypeOK' /\ Verdicts'
    BY <1>1, <1>2, <2>1, <2>2, Zenon DEF ConnectorInv, ConnectorTypeOK, DescIds, Attempts, Verdicts
  <2>4. Building'
    <3>1. \A i, j \in DOMAIN toBuild' : toBuild'[i] = toBuild'[j] => i = j
      BY <1>2, <2>2 DEF ConnectorInv, Building
    <3>2. \A i \in DOMAIN attempts, j \in DOMAIN toBuild' : attempts[i].desc # toBuild'[j]
      BY <2>2 DEF ConnectorInv, Building
    <3> QED  BY <1>1, <2>1, <3>1, <3>2, Zenon DEF ConnectorInv, Building, Untouched
  <2>5. Addresses'
    BY <1>1, <2>1, ZenonT(30) DEF ConnectorInv, Addresses, DescIds, Same
  <2>6. Position' /\ Tally' /\ Promised'
    BY <1>1, <2>1 DEF ConnectorInv, Position, Desc, Tally, TriedOf, Taken, DescIds, Promised, MayRetry, Returned
  <2>7. AllTried' /\ NilWhenCancelled'
    BY <1>1, <2>1, Zenon DEF AllTried, NilWhenCancelled
  <2> QED  BY <2>3, <2>4, <2>5, <2>6, <2>7, Zenon DEF ConnectorInv
<1>5. CASE work # << >>
  <2>1. PICK s \in Ordered(work, Desc(d).loadBalance) :
          work' = Kept(s, Desc(d).failover) /\ kept' = [kept EXCEPT ![d] = work']
    BY <1>5, Zenon DEF FinishResolve, d
  <2>2. step' = "order" /\ UNCHANGED toBuild
    BY <1>5, Zenon DEF FinishResolve
  <2>3. s \in Seq(CacheKeys) /\ s # << >>
    <3>1. CASE s = work
      BY <1>2, <1>5, <3>1, Zenon
    <3>2. CASE s \in Shuffles(work)
      <4>1. PICK p \in [DOMAIN work -> DOMAIN work] : s = [i \in DOMAIN work |-> work[p[i]]]
        BY <3>2, Zenon DEF Shuffles
      <4>2. s \in [1 .. Len(work) -> CacheKeys] /\ Len(work) \in Nat /\ Len(work) # 0
        BY <1>2, <1>5, <4>1
      <4>3. s \in Seq(CacheKeys) /\ Len(s) = Len(work)
        BY <4>2
      <4> QED  BY <4>2, <4>3, Zenon
    <3> QED  BY <2>1, <3>1, <3>2, Zenon DEF Ordered
  <2>4. work' \in Seq(CacheKeys) /\ work' # << >>
    <3>1. CASE work' = s
      BY <2>3, <3>1, Zenon
    <3>2. CASE work' = SubSeq(s, 1, 1)
      <4>1. work' \in Seq(CacheKeys) /\ Len(work') = 1
        BY <2>3, <3>2
      <4> QED  BY <4>1
    <3> QED  BY <2>1, <3>1, <3>2, Zenon DEF Kept
  <2>5. /\ kept' \in [DescIds -> Seq(CacheKeys)] /\ kept'[d] = work'
        /\ \A c \in DescIds : c # d => kept'[c] = kept[c]
    BY <1>2, <1>3, <2>1, <2>4, Zenon
  <2>6. ConnectorTypeOK' /\ Verdicts'
    BY <1>1, <1>2, <2>2, <2>4, <2>5, SMTT(30) DEF ConnectorInv, ConnectorTypeOK, DescIds, Attempts, Verdicts
  <2>7. Building'
    BY <1>1, <2>2, Zenon DEF ConnectorInv, Building, Untouched
  <2>8. Addresses'
    <3>1. \A i \in DOMAIN attempts :
            attempts[i].addresses # << >> /\ Same(attempts[i].addresses, kept'[attempts[i].desc])
      BY <1>3, <2>5, Zenon DEF ConnectorInv, Addresses
    <3>2. \A c \in DescIds : kept'[c] # << >> => (\E i \in DOMAIN attempts : attempts[i].desc = c) \/ c = d
      BY <1>1, <2>5, Zenon DEF ConnectorInv, Addresses
    <3>3. Same(work', kept'[d])
      BY <2>5, Zenon DEF Same
    <3> QED  BY <1>1, <2>2, <2>4, <3>1, <3>2, <3>3, Zenon DEF Addresses, DescIds, Same, d
  <2>9. Position' /\ Promised'
    BY <1>1, <2>2, Zenon DEF ConnectorInv, Position, Desc, Promised, Returned
  <2>10. Tally'
    <3>1. \A i \in DOMAIN attempts, k \in CacheKeys : TriedOf(i, k)' = TriedOf(i, k)
      BY <1>1, <1>3, <2>2, <2>5, Zenon DEF TriedOf, Taken, Desc
    <3> QED  BY <1>1, <2>2, <3>1, Zenon DEF ConnectorInv, Tally, DescIds
  <2>11. AllTried' /\ NilWhenCancelled'
    BY <2>2, Zenon DEF AllTried, NilWhenCancelled
  <2> QED  BY <2>6, <2>7, <2>8, <2>9, <2>10, <2>11, Zenon DEF ConnectorInv
<1> QED  BY <1>4, <1>5, Zenon

\* The context ends the retry delay, the context is tested, and the session is
\* established or not: the iterator stays as it is.
LEMMA LoopStepsKeep ==
  ASSUME ConnectorInv, DelayCancelled \/ Try \/ Established \/ NotEstablished
  PROVE  ConnectorInv'
<1>1. /\ UNCHANGED built /\ UNCHANGED <<resolving, work, last, option, steady, down>>
      /\ \/ step = "next" /\ step' = "cancelled" /\ exhausted' = TRUE
         \/ step = "try" /\ step' \in {"cancelled", "dial"} /\ UNCHANGED exhausted
         \/ step = "instantiate" /\ step' \in {"established", "rejected"} /\ UNCHANGED exhausted
  BY Zenon DEF DelayCancelled, CycleOver, Try, Established, NotEstablished, built, iterator, history
<1>2. exhausted' \in BOOLEAN
  BY <1>1, Zenon DEF ConnectorInv, ConnectorTypeOK
<1>3. ConnectorTypeOK' /\ Verdicts'
  BY <1>1, <1>2, Zenon DEF built, ConnectorInv, ConnectorTypeOK, DescIds, Attempts, Verdicts, Returned
<1>4. Building' /\ Addresses'
  BY <1>1, SMTT(30) DEF built, ConnectorInv, DescIds, Building, Untouched, Addresses, Same
<1>5. Position'
  BY <1>1, SMTT(30) DEF built, ConnectorInv, Position, Desc, Returned
<1>6. Tally' /\ Promised'
  BY <1>1 DEF built, ConnectorInv, Desc, Tally, TriedOf, Taken, DescIds, Promised, MayRetry
<1>7. AllTried' /\ NilWhenCancelled'
  BY <1>1, Zenon DEF AllTried, NilWhenCancelled
<1> QED  BY <1>3, <1>4, <1>5, <1>6, <1>7, Zenon DEF ConnectorInv

\* One more cycle.
LEMMA CycleCounts ==
  ASSUME NEW c \in Nat, NEW n \in Nat
  PROVE  (c + 1) * n = c * n + n /\ n * (c + 1) = c * n + n /\ c * n \in Nat /\ c * n + 0 = c * n /\ 0 * n = 0
OBVIOUS

\* What the invariant says of the current attempt.
LEMMA CurrentAttempt ==
  ASSUME ConnectorInv, cur \in DOMAIN attempts
  PROVE  /\ attempts \in Seq(Attempts) /\ cur \in Nat /\ attempts[cur] \in Attempts
         /\ attempts[cur].desc \in DescIds /\ attempts[cur].addresses \in Seq(CacheKeys)
         /\ attempts[cur].addresses # << >> /\ Same(attempts[cur].addresses, kept[attempts[cur].desc])
         /\ attempts[cur].cycle \in Nat /\ attempts[cur].index \in Nat \ {0}
         /\ attempts[cur].index <= Len(attempts[cur].addresses) + 1
         /\ Len(attempts[cur].addresses) \in Nat /\ Desc(attempts[cur].desc).retryCount \in Nat
         /\ attempts[cur].cycle <= Desc(attempts[cur].desc).retryCount
<1>1. attempts \in Seq(Attempts) /\ cur \in Nat /\ config \in Configs
  BY Zenon DEF ConnectorInv, ConnectorTypeOK
<1>2. attempts[cur] \in Attempts
  BY <1>1
<1>3. /\ attempts[cur].desc \in DescIds /\ attempts[cur].addresses \in Seq(CacheKeys)
      /\ attempts[cur].cycle \in Nat /\ attempts[cur].index \in Nat \ {0}
  BY <1>2, Zenon DEF Attempts
<1>4. config.descriptions \in Seq(Descriptions)
  BY <1>1, ConfigsTyped, Zenon
<1>5. Desc(attempts[cur].desc) \in Descriptions
  BY <1>3, <1>4 DEF Desc, DescIds
<1>6. Desc(attempts[cur].desc).retryCount \in Nat
  BY <1>5, Zenon DEF Descriptions
<1>7. /\ attempts[cur].addresses # << >> /\ Same(attempts[cur].addresses, kept[attempts[cur].desc])
      /\ attempts[cur].index <= Len(attempts[cur].addresses) + 1
      /\ attempts[cur].cycle <= Desc(attempts[cur].desc).retryCount
  BY Zenon DEF ConnectorInv, Addresses, Position
<1>8. Len(attempts[cur].addresses) \in Nat
  BY <1>3
<1> QED  BY <1>1, <1>2, <1>3, <1>6, <1>7, <1>8, Zenon

\* At the end of a cycle its addresses have all been tried once more.
LEMMA WholeCycle ==
  ASSUME ConnectorInv, cur \in DOMAIN attempts, step \in {"next", "first", "loop"},
         attempts[cur].index > Len(attempts[cur].addresses), NEW k \in CacheKeys
  PROVE  tried[attempts[cur].desc][k] =
           (attempts[cur].cycle + 1) * Count(kept[attempts[cur].desc], k)
<1> DEFINE a == attempts[cur].addresses
           n == Count(kept[attempts[cur].desc], k)
<1>1. /\ a \in Seq(CacheKeys) /\ Same(a, kept[attempts[cur].desc]) /\ Len(a) \in Nat
      /\ attempts[cur].cycle \in Nat /\ attempts[cur].index = Len(a) + 1 /\ cur \in Nat
  BY CurrentAttempt
<1>2. CountUpto(a, Len(a), k) = Count(a, k) /\ Count(a, k) \in Nat
  BY <1>1, Counting, Zenon
<1>3. Count(a, k) = n
  BY <1>1, Zenon DEF Same
<1>4. Taken = Len(a)
  <2>1. Taken = attempts[cur].index - 1
    BY Zenon DEF Taken
  <2> HIDE DEF a
  <2> QED  BY <1>1, <2>1
<1>5. tried[attempts[cur].desc][k] = TriedOf(cur, k)
  BY Zenon DEF ConnectorInv, Tally
<1>6. TriedOf(cur, k) = attempts[cur].cycle * n + CountUpto(a, Len(a), k)
  BY <1>1, <1>4 DEF TriedOf
<1> HIDE DEF a, n
<1>7. (attempts[cur].cycle + 1) * n = attempts[cur].cycle * n + n
  BY <1>1, <1>2, <1>3, CycleCounts, Zenon
<1> QED  BY <1>2, <1>3, <1>5, <1>6, <1>7, ZenonT(30) DEF n

\* HasNext is asked: when it says no everything has been tried.
LEMMA LoopKeeps ==
  ASSUME ConnectorInv, Loop
  PROVE  ConnectorInv'
<1>1. /\ UNCHANGED built /\ UNCHANGED <<resolving, work, last, option, steady, down>>
      /\ step \in {"first", "loop"} /\ step' = (IF HasNext THEN "next" ELSE "failed")
      /\ exhausted' = ~HasNext
  BY Zenon DEF Loop, built, history
<1>2. /\ attempts \in Seq(Attempts) /\ cur \in Nat \ {0} /\ ~exhausted /\ kept \in [DescIds -> Seq(CacheKeys)]
  BY <1>1, Zenon DEF ConnectorInv, ConnectorTypeOK, Position, Returned
<1>3. CASE HasNext
  <2>1. step' = "next" /\ exhausted' = FALSE
    BY <1>1, <1>3, Zenon
  <2>2. ConnectorTypeOK' /\ Verdicts'
    BY <1>1, <2>1, ZenonT(30) DEF built, ConnectorInv, ConnectorTypeOK, DescIds, Attempts, Verdicts
  <2>3. Building' /\ Addresses'
    BY <1>1, <2>1, SMTT(30) DEF built, ConnectorInv, DescIds, Building, Untouched, Addresses, Same
  <2>4. Position' /\ Tally'
    BY <1>1, <2>1 DEF built, ConnectorInv, Position, Desc, Tally, TriedOf, Taken, DescIds
  <2>5. Promised'
    <3>1. cur \in DOMAIN attempts
      BY <1>2, <1>3 DEF HasNext
    <3>2. \/ attempts[cur].index <= Len(attempts[cur].addresses) \/ MayRetry(attempts[cur])
          \/ \E i \in DOMAIN attempts : i > cur
      BY <1>3, Zenon DEF HasNext, MayRetry
    <3> QED  BY <1>1, <3>1, <3>2, Zenon DEF built, Promised, MayRetry, Desc
  <2>6. AllTried' /\ NilWhenCancelled'
    BY <2>1, Zenon DEF AllTried, NilWhenCancelled
  <2> QED  BY <2>2, <2>3, <2>4, <2>5, <2>6, Zenon DEF ConnectorInv
<1>4. CASE ~HasNext
  <2>1. step' = "failed" /\ exhausted' = TRUE
    BY <1>1, <1>4, Zenon
  <2>2. ConnectorTypeOK' /\ Verdicts'
    BY <1>1, <2>1, Zenon DEF built, ConnectorInv, ConnectorTypeOK, DescIds, Attempts, Verdicts, Returned
  <2>3. Building' /\ Addresses'
    BY <1>1, <2>1, SMTT(30) DEF built, ConnectorInv, DescIds, Building, Untouched, Addresses, Same
  <2>4. Position' /\ Tally'
    BY <1>1, <2>1 DEF built, ConnectorInv, Position, Desc, Tally, TriedOf, Taken, DescIds, Returned
  <2>5. Promised' /\ NilWhenCancelled'
    BY <2>1, Zenon DEF Promised, NilWhenCancelled
  <2>6. ASSUME NEW d \in DescIds, NEW k \in CacheKeys
        PROVE  tried[d][k] = Count(kept[d], k) * (Desc(d).retryCount + 1)
    <3>1. CASE \A i \in DOMAIN attempts : attempts[i].desc # d
      <4>1. tried[d][k] = 0 /\ kept[d] = << >>
        BY <1>1, <2>6, <3>1, Zenon DEF ConnectorInv, Tally, Addresses
      <4>2. Count(kept[d], k) = 0
        BY <1>2, <4>1, Counting
      <4>3. Desc(d).retryCount \in Nat
        <5>1. config.descriptions \in Seq(Descriptions)
          BY ConfigsTyped, Zenon DEF ConnectorInv, ConnectorTypeOK
        <5>2. Desc(d) \in Descriptions
          BY <5>1 DEF Desc, DescIds
        <5> QED  BY <5>2, Zenon DEF Descriptions
      <4> QED  BY <4>1, <4>2, <4>3
    <3>2. ASSUME NEW i \in DOMAIN attempts, attempts[i].desc = d
          PROVE  tried[d][k] = Count(kept[d], k) * (Desc(d).retryCount + 1)
      <4>1. i <= cur
        <5>1. attempts[i].addresses # << >>
          BY Zenon DEF ConnectorInv, Addresses
        <5> QED  BY <1>2, <1>4, <5>1 DEF HasNext
      <4>2. CASE i < cur
        <5>1. tried[d][k] = TriedOf(i, k)
          BY <1>1, <3>2, Zenon DEF ConnectorInv, Tally
        <5> QED  BY <3>2, <4>2, <5>1, Zenon DEF TriedOf
      <4>3. CASE i = cur
        <5>1. cur \in DOMAIN attempts
          BY <4>3, Zenon
        <5>2. attempts[cur].index > Len(attempts[cur].addresses)
              /\ attempts[cur].cycle = Desc(d).retryCount
          BY <1>2, <1>4, <3>2, <4>3, CurrentAttempt DEF HasNext
        <5>3. tried[d][k] = (Desc(d).retryCount + 1) * Count(kept[d], k)
          BY <1>1, <3>2, <4>3, <5>2, WholeCycle, Zenon
        <5>4. Desc(d).retryCount \in Nat
          BY <3>2, <4>3, CurrentAttempt, Zenon
        <5>5. Count(kept[d], k) \in Nat
          BY <1>2, Counting, Zenon
        <5> QED  BY <5>3, <5>4, <5>5, CycleCounts
      <4> QED  BY <1>2, <4>1, <4>2, <4>3, SMTT(30)
    <3> QED  BY <3>1, <3>2, Zenon
  <2>7. AllTried'
    BY <1>1, <1>2, <2>6, Zenon DEF built, AllTried, Desc
  <2> QED  BY <2>2, <2>3, <2>4, <2>5, <2>7, Zenon DEF ConnectorInv
<1> QED  BY <1>3, <1>4, Zenon

\* A step that changes the current attempt alone.
LEMMA CurrentChanged ==
  ASSUME attempts \in Seq(Attempts), cur \in DOMAIN attempts, UNCHANGED config,
         NEW b \in Attempts, attempts' = [attempts EXCEPT ![cur] = b]
  PROVE  /\ attempts' \in Seq(Attempts)' /\ DOMAIN attempts' = DOMAIN attempts /\ Len(attempts') = Len(attempts)
         /\ attempts'[cur] = b /\ \A i \in DOMAIN attempts : i # cur => attempts'[i] = attempts[i]
<1>1. attempts' \in Seq(Attempts) /\ DOMAIN attempts' = DOMAIN attempts /\ Len(attempts') = Len(attempts)
  OBVIOUS
<1>2. Attempts' = Attempts
  BY Zenon DEF Attempts, DescIds
<1>3. attempts'[cur] = b /\ \A i \in DOMAIN attempts : i # cur => attempts'[i] = attempts[i]
  BY Zenon
<1> QED  BY <1>1, <1>2, <1>3, Zenon

-----------------------------------------------------------------------------
(* The steps that walk the iterator. *)

\* The next address of the cycle is taken.
LEMMA NextAddressKeeps ==
  ASSUME ConnectorInv, NextAddress
  PROVE  ConnectorInv'
<1> DEFINE a == attempts[cur]
           b == [a EXCEPT !.index = a.index + 1]
<1>1. /\ step = "next" /\ step' = "try" /\ cur \in DOMAIN attempts /\ a.index <= Len(a.addresses)
      /\ option' = [desc |-> a.desc, address |-> a.addresses[a.index]]
      /\ UNCHANGED <<config, toBuild, resolving, work, last, cur, exhausted, down, kept, tried, steady>>
  BY Zenon DEF NextAddress, history
<1>2. attempts' = [attempts EXCEPT ![cur] = b]
  BY Zenon DEF NextAddress
<1>3. /\ attempts \in Seq(Attempts) /\ a \in Attempts /\ a.index \in Nat \ {0} /\ cur \in Nat
      /\ toBuild = << >>
  BY <1>1, CurrentAttempt, Zenon DEF ConnectorInv, Building
<1>4. /\ b \in Attempts /\ b.desc = a.desc /\ b.addresses = a.addresses /\ b.cycle = a.cycle
      /\ b.index = a.index + 1
  <2> HIDE DEF a
  <2>1. a.index + 1 \in Nat \ {0}
    BY <1>3
  <2> QED  BY <1>3, <2>1, Zenon DEF Attempts
<1> HIDE DEF a, b
<1>5. /\ attempts' \in Seq(Attempts)' /\ DOMAIN attempts' = DOMAIN attempts /\ attempts'[cur] = b
      /\ \A i \in DOMAIN attempts : i # cur => attempts'[i] = attempts[i]
  BY <1>1, <1>2, <1>3, <1>4, CurrentChanged, Zenon
<1>6. \A i \in DOMAIN attempts : attempts'[i].desc = attempts[i].desc
                              /\ attempts'[i].addresses = attempts[i].addresses
                              /\ attempts'[i].cycle = attempts[i].cycle
  BY <1>4, <1>5, Zenon DEF a
<1>7. ConnectorTypeOK' /\ Verdicts'
  BY <1>1, <1>5, ZenonT(30) DEF ConnectorInv, ConnectorTypeOK, DescIds, Verdicts
<1>8. Building' /\ Addresses'
  BY <1>1, <1>3, <1>5, <1>6, SMTT(30) DEF ConnectorInv, DescIds, Building, Untouched, Addresses, Same
<1>9. Position'
  <2>1. b.index - 1 = a.index /\ b.index > 1 /\ b.index <= Len(a.addresses) + 1
    BY <1>1, <1>3, <1>4, CurrentAttempt, SMTT(30) DEF a
  <2>2. option' = [desc |-> attempts'[cur].desc, address |-> attempts'[cur].addresses[attempts'[cur].index - 1]]
    BY <1>1, <1>4, <1>5, <2>1, Zenon
  <2>3. /\ attempts'[cur].index <= Len(attempts'[cur].addresses) + 1 /\ attempts'[cur].index > 1
        /\ attempts'[cur].cycle <= Desc(attempts'[cur].desc).retryCount
    <3>1. a.cycle <= Desc(a.desc).retryCount
      BY <1>1, CurrentAttempt, Zenon DEF a
    <3> QED  BY <1>4, <1>5, <2>1, <3>1, Zenon
  <2>4. \A i \in DOMAIN attempts : i > cur => attempts'[i].index = 1 /\ attempts'[i].cycle = 0
    BY <1>3, <1>5 DEF ConnectorInv, Position
  <2>5. ~exhausted
    BY <1>1, Zenon DEF ConnectorInv, Position, Returned
  <2> QED  BY <1>1, <1>5, <2>2, <2>3, <2>4, <2>5, Zenon DEF Position, Desc
<1>10. Tally'
  <2>1. Taken' = Taken
    <3>1. Taken' = b.index - 2 /\ Taken = a.index - 1
      BY <1>1, <1>5, Zenon DEF Taken, a
    <3> QED  BY <1>3, <1>4, <3>1
  <2>2. \A i \in DOMAIN attempts, k \in CacheKeys : TriedOf(i, k)' = TriedOf(i, k)
    BY <1>1, <1>6, <2>1, ZenonT(30) DEF TriedOf, Desc
  <2>3. \A i \in DOMAIN attempts', k \in CacheKeys : tried'[attempts'[i].desc][k] = TriedOf(i, k)'
    BY <1>1, <1>5, <1>6, <2>2, SMTT(30) DEF ConnectorInv, Tally
  <2>4. \A d \in DescIds : (\A i \in DOMAIN attempts' : attempts'[i].desc # d) =>
          \A k \in CacheKeys : tried'[d][k] = 0
    BY <1>1, <1>5, <1>6 DEF ConnectorInv, Tally
  <2> QED  BY <1>1, <2>3, <2>4, Zenon DEF Tally, DescIds
<1>11. Promised' /\ AllTried' /\ NilWhenCancelled'
  BY <1>1, Zenon DEF Promised, AllTried, NilWhenCancelled
<1> QED  BY <1>7, <1>8, <1>9, <1>10, <1>11, Zenon DEF ConnectorInv

\* The next cycle begins.
LEMMA NextCycleKeeps ==
  ASSUME ConnectorInv, NextCycle
  PROVE  ConnectorInv'
<1> DEFINE a == attempts[cur]
           b == [a EXCEPT !.cycle = a.cycle + 1, !.index = 1]
<1>1. /\ step = "next" /\ step' = "order" /\ cur \in DOMAIN attempts /\ a.index > Len(a.addresses)
      /\ MayRetry(a) /\ work' \in {Rotate(a.addresses), a.addresses}
      /\ UNCHANGED <<config, toBuild, resolving, last, cur, exhausted, option, down, kept, tried, steady>>
  BY Zenon DEF NextCycle, CycleOver, history
<1>2. attempts' = [attempts EXCEPT ![cur] = b]
  BY Zenon DEF NextCycle
<1>3. /\ attempts \in Seq(Attempts) /\ a \in Attempts /\ cur \in Nat /\ a.cycle \in Nat
      /\ a.addresses \in Seq(CacheKeys) /\ a.addresses # << >>
      /\ toBuild = << >> /\ last = << >>
  BY <1>1, CurrentAttempt, Zenon DEF ConnectorInv, Building, Verdicts
<1>4. /\ b \in Attempts /\ b.desc = a.desc /\ b.addresses = a.addresses /\ b.cycle = a.cycle + 1
      /\ b.index = 1
  <2> HIDE DEF a
  <2> DEFINE c == [a EXCEPT !.cycle = a.cycle + 1]
  <2>1. a.cycle + 1 \in Nat
    BY <1>3
  <2>2. c \in Attempts /\ c.desc = a.desc /\ c.addresses = a.addresses /\ c.cycle = a.cycle + 1
    BY <1>3, <2>1, Zenon DEF Attempts
  <2>3. b = [c EXCEPT !.index = 1]
    BY Zenon
  <2> HIDE DEF b, c
  <2> QED  BY <2>2, <2>3 DEF Attempts
<1>5. work' \in Seq(CacheKeys) /\ work' # << >> /\ Same(work', a.addresses)
  <2>1. CASE work' = a.addresses
    BY <1>3, <2>1, Zenon DEF Same
  <2>2. CASE work' = Rotate(a.addresses)
    <3>1. work' \in Seq(CacheKeys) /\ Len(work') = Len(a.addresses) /\ \A x : Count(work', x) = Count(a.addresses, x)
      BY <1>3, <2>2, RotateReorders, Zenon
    <3>2. work' # << >>
      BY <1>3, <3>1
    <3> QED  BY <3>1, <3>2, Zenon DEF Same
  <2> QED  BY <1>1, <2>1, <2>2, Zenon
<1>6. \A k \in CacheKeys : tried[a.desc][k] = (a.cycle + 1) * Count(kept[a.desc], k)
  BY <1>1, WholeCycle, Zenon
<1>7. a.cycle + 1 <= Desc(a.desc).retryCount
  BY <1>1, CurrentAttempt DEF MayRetry
<1> HIDE DEF a, b
<1>8. /\ attempts' \in Seq(Attempts)' /\ DOMAIN attempts' = DOMAIN attempts /\ attempts'[cur] = b
      /\ \A i \in DOMAIN attempts : i # cur => attempts'[i] = attempts[i]
  BY <1>1, <1>2, <1>3, <1>4, CurrentChanged, Zenon
<1>9. \A i \in DOMAIN attempts : attempts'[i].desc = attempts[i].desc
                              /\ attempts'[i].addresses = attempts[i].addresses
  BY <1>4, <1>8, ZenonT(30) DEF a
<1>10. ConnectorTypeOK' /\ Verdicts'
  BY <1>1, <1>3, <1>5, <1>8, SMTT(30) DEF ConnectorInv, ConnectorTypeOK, DescIds, Verdicts
<1>11. Building'
  BY <1>1, <1>3, <1>8, <1>9 DEF ConnectorInv, Building, Untouched
<1>12. Addresses'
  <2>1. \A i \in DOMAIN attempts' :
          attempts'[i].addresses # << >> /\ Same(attempts'[i].addresses, kept'[attempts'[i].desc])
    BY <1>1, <1>8, <1>9, Zenon DEF ConnectorInv, Addresses
  <2>2. attempts'[cur].index = 1 /\ Same(work', attempts'[cur].addresses)
    BY <1>4, <1>5, <1>8, ZenonT(30)
  <2>3. \A d \in DescIds : kept'[d] # << >> => \E i \in DOMAIN attempts' : attempts'[i].desc = d
    BY <1>1, <1>8, <1>9, SMTT(30) DEF ConnectorInv, Addresses
  <2> QED  BY <1>1, <1>3, <1>5, <1>8, <2>1, <2>2, <2>3, Zenon DEF Addresses, DescIds, Same
<1>13. Position'
  BY <1>1, <1>3, <1>4, <1>7, <1>8, <1>9, SMTT(30) DEF ConnectorInv, Position, Desc, Returned
<1>14. Tally'
  <2>1. ASSUME NEW i \in DOMAIN attempts, NEW k \in CacheKeys
        PROVE  tried[attempts[i].desc][k] = TriedOf(i, k)'
    <3>1. CASE i # cur
      <4>1. TriedOf(i, k)' = TriedOf(i, k)
        BY <1>1, <1>3, <1>8, <3>1 DEF TriedOf, Desc
      <4> QED  BY <1>1, <4>1, Zenon DEF ConnectorInv, Tally
    <3>2. CASE i = cur
      <4>1. Taken' = 0
        BY <1>1, <1>4, <1>8 DEF Taken
      <4>2. CountUpto(a.addresses, 0, k) = 0
        BY <1>3, Counting, ZenonT(30)
      <4>3. TriedOf(i, k)' = (a.cycle + 1) * Count(kept[a.desc], k) + 0
        BY <1>1, <1>3, <1>4, <1>8, <3>2, <4>1, <4>2 DEF TriedOf
      <4>4. Count(kept[a.desc], k) \in Nat
        <5>1. a.desc \in DescIds /\ kept \in [DescIds -> Seq(CacheKeys)]
          BY <1>3, Zenon DEF Attempts, ConnectorInv, ConnectorTypeOK
        <5>2. kept[a.desc] \in Seq(CacheKeys)
          BY <5>1, Zenon
        <5> QED  BY <5>2, Counting, Zenon
      <4>5. (a.cycle + 1) * Count(kept[a.desc], k) + 0 = (a.cycle + 1) * Count(kept[a.desc], k)
        BY <1>3, <4>4, CycleCounts
      <4> QED  BY <1>6, <3>2, <4>3, <4>5, Zenon DEF a
    <3> QED  BY <3>1, <3>2, Zenon
  <2> QED  BY <1>1, <1>8, <1>9, <2>1, SMTT(30) DEF ConnectorInv, Tally, DescIds
<1>15. Promised' /\ AllTried' /\ NilWhenCancelled'
  BY <1>1, Zenon DEF Promised, AllTried, NilWhenCancelled
<1> QED  BY <1>10, <1>11, <1>12, <1>13, <1>14, <1>15, Zenon DEF ConnectorInv

\* The iterator moves on: HasNext has seen that there is a next description.
LEMMA NextDescriptionKeeps ==
  ASSUME ConnectorInv, NextDescription
  PROVE  ConnectorInv'
<1> DEFINE a == attempts[cur]
<1>1. /\ step = "next" /\ cur \in DOMAIN attempts /\ a.index > Len(a.addresses)
      /\ ~MayRetry(a) /\ cur' = cur + 1
      /\ UNCHANGED <<config, toBuild, resolving, work, last, attempts, option, down, kept, tried, steady>>
  BY Zenon DEF NextDescription, CycleOver, history
<1>2. /\ attempts \in Seq(Attempts) /\ cur \in Nat \ {0} /\ a.cycle = Desc(a.desc).retryCount
      /\ toBuild = << >> /\ last = << >> /\ a.desc \in DescIds
  <2>1. a.cycle = Desc(a.desc).retryCount
    BY <1>1, CurrentAttempt DEF MayRetry
  <2> QED  BY <1>1, <2>1, CurrentAttempt, Zenon DEF ConnectorInv, ConnectorTypeOK, Building, Verdicts
<1>3. cur + 1 \in DOMAIN attempts
  <2>1. PICK i \in DOMAIN attempts : i > cur
    BY <1>1, CurrentAttempt DEF ConnectorInv, Promised
  <2> QED  BY <1>2, <2>1, SMTT(30)
<1>4. step' = step /\ exhausted' = exhausted
  BY <1>1, <1>3, Zenon DEF NextDescription
<1> DEFINE b == attempts[cur + 1]
<1>5. /\ b.index = 1 /\ b.cycle = 0 /\ b.addresses \in Seq(CacheKeys) /\ b.addresses # << >>
      /\ b.desc \in DescIds
  <2>1. b \in Attempts
    BY <1>2, <1>3, SMTT(30)
  <2>2. b.index = 1 /\ b.cycle = 0 /\ b.addresses # << >>
    BY <1>2, <1>3 DEF ConnectorInv, Position, Addresses
  <2> QED  BY <2>1, <2>2, Zenon DEF Attempts
<1>6. 1 <= Len(b.addresses) /\ Desc(b.desc).retryCount \in Nat
  <2>1. config.descriptions \in Seq(Descriptions)
    BY ConfigsTyped, Zenon DEF ConnectorInv, ConnectorTypeOK
  <2>2. Desc(b.desc) \in Descriptions
    BY <1>5, <2>1 DEF Desc, DescIds
  <2>3. 1 <= Len(b.addresses)
    <3> HIDE DEF b
    <3> QED  BY <1>5
  <2> QED  BY <2>2, <2>3, Zenon DEF Descriptions
<1>7. \A k \in CacheKeys : tried[a.desc][k] = (a.cycle + 1) * Count(kept[a.desc], k)
  BY <1>1, WholeCycle, Zenon
<1> HIDE DEF a, b
<1>8. ConnectorTypeOK' /\ Verdicts'
  BY <1>1, <1>2, <1>4, SMTT(30) DEF ConnectorInv, ConnectorTypeOK, DescIds, Attempts, Verdicts
<1>9. Building' /\ Addresses'
  BY <1>1, <1>2, <1>4 DEF ConnectorInv, DescIds, Building, Untouched, Addresses, Same
<1>10. Position'
  <2>1. \A i \in DOMAIN attempts : i > cur + 1 => attempts[i].index = 1 /\ attempts[i].cycle = 0
    BY <1>2 DEF ConnectorInv, Position
  <2>2. b.index <= Len(b.addresses) + 1 /\ b.cycle <= Desc(b.desc).retryCount
    BY <1>5, <1>6
  <2>3. ~exhausted
    BY <1>1, Zenon DEF ConnectorInv, Position, Returned
  <2> QED  BY <1>1, <1>4, <2>1, <2>2, <2>3, ZenonT(30) DEF Position, Desc, b
<1>11. Tally'
  <2>1. ASSUME NEW i \in DOMAIN attempts, NEW k \in CacheKeys
        PROVE  tried[attempts[i].desc][k] = TriedOf(i, k)'
    <3> DEFINE n == Count(kept[attempts[i].desc], k)
    <3>1. tried[attempts[i].desc][k] = TriedOf(i, k) /\ i \in Nat
      BY <1>1, <1>2 DEF ConnectorInv, Tally
    <3>2. n \in Nat
      <4>1. attempts[i] \in Attempts /\ kept \in [DescIds -> Seq(CacheKeys)]
        BY <1>2 DEF ConnectorInv, ConnectorTypeOK
      <4>2. kept[attempts[i].desc] \in Seq(CacheKeys)
        BY <4>1, Zenon DEF Attempts
      <4> QED  BY <4>2, Counting, ZenonT(30)
    <3>3. CASE i < cur \/ i > cur + 1
      <4>1. TriedOf(i, k)' = TriedOf(i, k)
        BY <1>1, <1>2, <3>1, <3>3 DEF TriedOf, Desc
      <4> QED  BY <3>1, <4>1, ZenonT(30)
    <3>4. CASE i = cur
      <4>1. TriedOf(i, k)' = n * (Desc(a.desc).retryCount + 1)
        BY <1>1, <1>2, <3>4 DEF TriedOf, Desc, a
      <4>2. tried[attempts[i].desc][k] = (a.cycle + 1) * n
        BY <1>7, <3>4, Zenon DEF a
      <4>3. a.cycle \in Nat
        BY <1>1, CurrentAttempt, Zenon DEF a
      <4> HIDE DEF n
      <4>4. (a.cycle + 1) * n = n * (a.cycle + 1)
        BY <3>2, <4>3, CycleCounts
      <4> QED  BY <1>2, <4>1, <4>2, <4>4, ZenonT(30)
    <3>5. CASE i = cur + 1
      <4>1. Taken' = 0
        BY <1>1, <1>4, <1>5 DEF Taken, b
      <4>2. CountUpto(b.addresses, 0, k) = 0
        BY <1>5, Counting, SMTT(30)
      <4>3. TriedOf(i, k)' = 0 * n + 0
        BY <1>1, <1>2, <1>5, <3>5, <4>1, <4>2, SMTT(30) DEF TriedOf, b
      <4>4. TriedOf(i, k) = 0
        BY <1>2, <3>5 DEF TriedOf
      <4> HIDE DEF n
      <4>5. 0 * n + 0 = 0
        BY <3>2
      <4> QED  BY <3>1, <4>3, <4>4, <4>5, Zenon
    <3> QED  BY <1>2, <3>1, <3>3, <3>4, <3>5, SMTT(30)
  <2> QED  BY <1>1, <2>1, Zenon DEF ConnectorInv, Tally, DescIds
<1>12. Promised'
  BY <1>1, <1>3, <1>5, <1>6, Zenon DEF Promised, b
<1>13. AllTried' /\ NilWhenCancelled'
  BY <1>1, <1>4, Zenon DEF AllTried, NilWhenCancelled
<1> QED  BY <1>8, <1>9, <1>10, <1>11, <1>12, <1>13, Zenon DEF ConnectorInv

\* An address is tried: it is the one before the index.
LEMMA DialKeeps ==
  ASSUME ConnectorInv, Connected \/ ConnectFails
  PROVE  ConnectorInv'
<1> DEFINE a == attempts[cur]
           x == a.addresses[a.index - 1]
<1>1. /\ step = "dial" /\ step' \in {"instantiate", "loop"} /\ CountTry
      /\ UNCHANGED <<config, toBuild, resolving, work, last, attempts, cur, exhausted, option, kept, steady>>
  BY Zenon DEF Connected, ConnectFails, iterator
<1>2. /\ cur \in DOMAIN attempts /\ a.index > 1 /\ option.desc = a.desc /\ option.address = x
  BY <1>1 DEF ConnectorInv, Position
<1>3. /\ attempts \in Seq(Attempts) /\ a.desc \in DescIds /\ a.addresses \in Seq(CacheKeys)
      /\ a.index \in Nat /\ a.index <= Len(a.addresses) + 1 /\ Len(a.addresses) \in Nat
      /\ a.cycle \in Nat /\ cur \in Nat
      /\ toBuild = << >> /\ last = << >> /\ tried \in [DescIds -> [CacheKeys -> Nat]]
  BY <1>1, <1>2, CurrentAttempt, Zenon DEF ConnectorInv, ConnectorTypeOK, Building, Verdicts
<1> HIDE DEF a
<1>4. a.index - 1 \in 1 .. Len(a.addresses) /\ a.index - 2 \in 0 .. Len(a.addresses) - 1 /\ x \in CacheKeys
  BY <1>2, <1>3, SMTT(30)
<1> HIDE DEF x
<1>5. tried' = [tried EXCEPT ![a.desc] = [tried[a.desc] EXCEPT ![x] = tried[a.desc][x] + 1]]
  BY <1>1, <1>2, Zenon DEF CountTry
<1>6. /\ tried' \in [DescIds -> [CacheKeys -> Nat]]
      /\ \A d \in DescIds, k \in CacheKeys :
           tried'[d][k] = tried[d][k] + (IF d = a.desc /\ k = x THEN 1 ELSE 0)
  <2>1. tried[a.desc] \in [CacheKeys -> Nat]
    BY <1>3, Zenon
  <2>2. [tried[a.desc] EXCEPT ![x] = tried[a.desc][x] + 1] \in [CacheKeys -> Nat]
    BY <1>4, <2>1
  <2>3. tried' \in [DescIds -> [CacheKeys -> Nat]]
    BY <1>3, <1>5, <2>2, Zenon
  <2>4. ASSUME NEW d \in DescIds, NEW k \in CacheKeys
        PROVE  tried'[d][k] = tried[d][k] + (IF d = a.desc /\ k = x THEN 1 ELSE 0)
    <3>1. tried[d][k] \in Nat
      BY <1>3, Zenon
    <3>2. CASE d # a.desc
      <4>1. tried'[d] = tried[d]
        BY <1>3, <1>5, <3>2, Zenon
      <4> QED  BY <3>1, <3>2, <4>1
    <3>3. CASE d = a.desc
      <4>1. tried'[d] = [tried[d] EXCEPT ![x] = tried[d][x] + 1]
        BY <1>3, <1>5, <3>3, Zenon
      <4>2. tried'[d][k] = IF k = x THEN tried[d][x] + 1 ELSE tried[d][k]
        BY <2>1, <3>3, <4>1, Zenon
      <4> QED  BY <3>1, <3>3, <4>2
    <3> QED  BY <3>2, <3>3, Zenon
  <2> QED  BY <2>3, <2>4, Zenon
<1>7. ConnectorTypeOK' /\ Verdicts'
  BY <1>1, <1>3, <1>6, Zenon DEF ConnectorInv, ConnectorTypeOK, DescIds, Attempts, Verdicts
<1>8. Building' /\ Addresses'
  BY <1>1, <1>3 DEF ConnectorInv, DescIds, Building, Untouched, Addresses, Same
<1>9. Position' /\ Promised'
  BY <1>1, Zenon DEF ConnectorInv, Position, Desc, Returned, Promised
<1>10. Tally'
  <2>1. Taken = a.index - 2 /\ Taken' = a.index - 1
    BY <1>1, Zenon DEF Taken, a
  <2>2. ASSUME NEW i \in DOMAIN attempts, NEW k \in CacheKeys
        PROVE  tried'[attempts[i].desc][k] = TriedOf(i, k)'
    <3>1. attempts[i] \in Attempts /\ attempts[i].desc \in DescIds
      <4>1. attempts[i] \in Attempts
        BY <1>3
      <4> QED  BY <4>1, Zenon DEF Attempts
    <3>2. tried[attempts[i].desc][k] = TriedOf(i, k) /\ tried[attempts[i].desc][k] \in Nat
      BY <1>1, <1>3, <3>1, Zenon DEF ConnectorInv, Tally
    <3>3. CASE i # cur
      <4>1. attempts[i].desc # a.desc
        BY <1>2, <3>3, ZenonT(30) DEF ConnectorInv, Building, a
      <4>2. TriedOf(i, k)' = TriedOf(i, k)
        BY <1>1, <1>3, <3>3, SMTT(30) DEF TriedOf, Desc
      <4> QED  BY <1>6, <3>1, <3>2, <4>1, <4>2
    <3>4. CASE i = cur
      <4> DEFINE n == a.cycle * Count(kept[a.desc], k)
      <4>1. /\ TriedOf(i, k) = n + CountUpto(a.addresses, a.index - 2, k)
            /\ TriedOf(i, k)' = n + CountUpto(a.addresses, a.index - 1, k)
        BY <1>1, <1>3, <2>1, <3>4 DEF TriedOf, a
      <4>2. n \in Nat
        <5>1. kept[a.desc] \in Seq(CacheKeys)
          BY <1>3, Zenon DEF ConnectorInv, ConnectorTypeOK
        <5>2. Count(kept[a.desc], k) \in Nat
          BY <5>1, Counting, Zenon
        <5> QED  BY <1>3, <5>2, CycleCounts, Zenon
      <4> HIDE DEF n
      <4>3. CountUpto(a.addresses, a.index - 1, k) =
              CountUpto(a.addresses, a.index - 2, k) + (IF x = k THEN 1 ELSE 0)
        <5>1. \A m \in 0 .. Len(a.addresses) - 1 :
                CountUpto(a.addresses, m + 1, k) =
                  CountUpto(a.addresses, m, k) + (IF a.addresses[m + 1] = k THEN 1 ELSE 0)
          BY <1>3, Counting, Zenon
        <5>2. a.index - 2 + 1 = a.index - 1
          BY <1>3
        <5> QED  BY <1>4, <5>1, <5>2, Zenon DEF x
      <4>4. CountUpto(a.addresses, a.index - 2, k) \in Nat
        <5>1. \A m \in 0 .. Len(a.addresses) : CountUpto(a.addresses, m, k) \in Nat
          BY <1>3, Counting, Zenon
        <5>2. a.index - 2 \in 0 .. Len(a.addresses)
          BY <1>3, <1>4, SMTT(30)
        <5> QED  BY <5>1, <5>2, Zenon
      <4>5. tried'[a.desc][k] = tried[a.desc][k] + (IF k = x THEN 1 ELSE 0)
        BY <1>3, <1>6, Zenon
      <4> QED  BY <3>2, <3>4, <4>1, <4>2, <4>3, <4>4, <4>5, SMTT(30) DEF a
    <3> QED  BY <3>3, <3>4, Zenon
  <2>3. \A d \in DescIds : (\A i \in DOMAIN attempts : attempts[i].desc # d) =>
          \A k \in CacheKeys : tried'[d][k] = 0
    <3> SUFFICES ASSUME NEW d \in DescIds, \A i \in DOMAIN attempts : attempts[i].desc # d, NEW k \in CacheKeys
                 PROVE  tried'[d][k] = 0
      BY Zenon
    <3>1. d # a.desc
      BY <1>2, Zenon DEF a
    <3>2. tried[d][k] = 0
      BY Zenon DEF ConnectorInv, Tally
    <3> QED  BY <1>6, <3>1, <3>2
  <2> QED  BY <1>1, <2>2, <2>3, Zenon DEF Tally, DescIds
<1>11. AllTried' /\ NilWhenCancelled'
  BY <1>1, Zenon DEF AllTried, NilWhenCancelled
<1> QED  BY <1>7, <1>8, <1>9, <1>10, <1>11, Zenon DEF ConnectorInv

\* An iterator that has not been asked yet has tried nothing.
LEMMA FirstCycle ==
  ASSUME NEW s \in Seq(CacheKeys), NEW n \in Nat, NEW k
  PROVE  0 * n + CountUpto(s, 0, k) = 0
<1>1. CountUpto(s, 0, k) = 0
  BY Counting, Zenon
<1> QED  BY <1>1

LEMMA UntouchedUntried ==
  ASSUME ConnectorInv, Untouched, NEW d \in DescIds, NEW k \in CacheKeys
  PROVE  tried[d][k] = 0
<1>1. CASE \A i \in DOMAIN attempts : attempts[i].desc # d
  BY <1>1, Zenon DEF ConnectorInv, Tally
<1>2. ASSUME NEW i \in DOMAIN attempts, attempts[i].desc = d
      PROVE  tried[d][k] = 0
  <2>1. /\ attempts \in Seq(Attempts) /\ kept[d] \in Seq(CacheKeys) /\ cur = 1
        /\ attempts[i].cycle = 0 /\ attempts[i].index = 1
        /\ step \notin {"try", "dial", "cancelled", "noOption"}
    BY Zenon DEF ConnectorInv, ConnectorTypeOK, Building, Untouched
  <2>2. attempts[i] \in Attempts /\ i \in Nat \ {0}
    BY <2>1
  <2>3. tried[d][k] = TriedOf(i, k)
    BY <1>2, <2>1, Zenon DEF ConnectorInv, Tally
  <2>4. CASE i > 1
    BY <2>1, <2>2, <2>3, <2>4 DEF TriedOf
  <2>5. CASE i = 1
    <3>1. Taken = 0
      BY <2>1, <2>5, SMTT(30) DEF Taken
    <3>2. TriedOf(i, k) = 0 * Count(kept[d], k) + CountUpto(attempts[i].addresses, 0, k)
      BY <1>2, <2>1, <2>5, <3>1 DEF TriedOf
    <3>3. Count(kept[d], k) \in Nat
      BY <2>1, Counting, Zenon
    <3>4. attempts[i].addresses \in Seq(CacheKeys)
      BY <2>2, Zenon DEF Attempts
    <3> QED  BY <2>3, <3>2, <3>3, <3>4, FirstCycle, Zenon
  <2> QED  BY <2>2, <2>4, <2>5
<1> QED  BY <1>1, <1>2, Zenon

\* The iterator while it is being built.
LEMMA FreshIterator ==
  ASSUME ConnectorInv, UNCHANGED <<config, kept, tried>>, attempts' \in Seq(Attempts),
         cur' = 1, step' \in {"build", "first"}, ~exhausted', Untouched,
         \A i \in DOMAIN attempts' : attempts'[i].index = 1 /\ attempts'[i].cycle = 0
  PROVE  Position' /\ Tally'
<1>1. \A i \in DOMAIN attempts' : attempts'[i] \in Attempts
  OBVIOUS
<1>2. \A i \in DOMAIN attempts' :
        /\ attempts'[i].desc \in DescIds /\ attempts'[i].addresses \in Seq(CacheKeys)
        /\ Len(attempts'[i].addresses) \in Nat
  BY <1>1 DEF Attempts
<1>3. \A d \in DescIds : Desc(d).retryCount \in Nat
  <2>1. config.descriptions \in Seq(Descriptions)
    BY ConfigsTyped, Zenon DEF ConnectorInv, ConnectorTypeOK
  <2>2. \A d \in DescIds : Desc(d) \in Descriptions
    BY <2>1 DEF Desc, DescIds
  <2> QED  BY <2>2, Zenon DEF Descriptions
<1>4. Position'
  <2>1. ASSUME 1 \in DOMAIN attempts'
        PROVE  /\ attempts'[1].index <= Len(attempts'[1].addresses) + 1
               /\ attempts'[1].cycle <= Desc(attempts'[1].desc).retryCount
    <3>1. Len(attempts'[1].addresses) \in Nat /\ Desc(attempts'[1].desc).retryCount \in Nat
      BY <1>2, <1>3, <2>1, Zenon
    <3>2. attempts'[1].index = 1 /\ attempts'[1].cycle = 0
      BY <2>1, Zenon
    <3> QED  BY <3>1, <3>2
  <2> QED  BY <2>1, Zenon DEF Position, Desc
<1>5. Tally'
  <2>1. ASSUME NEW i \in DOMAIN attempts', NEW k \in CacheKeys
        PROVE  TriedOf(i, k)' = 0
    <3>1. i \in Nat \ {0}
      BY SMTT(30)
    <3>2. CASE i > 1
      BY <3>1, <3>2, SMTT(30) DEF TriedOf
    <3>3. CASE i = 1
      <4> DEFINE n == Count(kept[attempts'[i].desc], k)
      <4>1. Taken' = 0
        BY <3>3, SMTT(30) DEF Taken
      <4>2. TriedOf(i, k)' = 0 * n + CountUpto(attempts'[i].addresses, 0, k)
        BY <3>3, <4>1 DEF TriedOf
      <4>3. n \in Nat
        <5>1. kept[attempts'[i].desc] \in Seq(CacheKeys)
          BY <1>2, Zenon DEF ConnectorInv, ConnectorTypeOK
        <5> QED  BY <5>1, Counting, Zenon
      <4> HIDE DEF n
      <4> QED  BY <1>2, <4>2, <4>3, FirstCycle, ZenonT(30)
    <3> QED  BY <3>1, <3>2, <3>3
  <2>2. \A d \in DescIds, k \in CacheKeys : tried'[d][k] = 0
    BY UntouchedUntried, Zenon
  <2>3. DescIds' = DescIds
    BY Zenon DEF DescIds
  <2> QED  BY <1>2, <2>1, <2>2, <2>3, Zenon DEF Tally
<1> QED  BY <1>4, <1>5, Zenon

\* The descriptions are put in order.
LEMMA PlaceDescriptionsKeeps ==
  ASSUME ConnectorInv, PlaceDescriptions
  PROVE  ConnectorInv'
<1>1. /\ step = "descriptions" /\ step' = "first" /\ last' = << >> /\ Len(last) = Len(attempts)
      /\ attempts' = Partition(attempts, last)
      /\ UNCHANGED <<config, toBuild, resolving, work, cur, exhausted, option, down, kept, tried, steady>>
  BY Zenon DEF PlaceDescriptions, history
<1>2. /\ attempts \in Seq(Attempts) /\ last \in Seq(BOOLEAN) /\ cur = 1 /\ ~exhausted /\ toBuild = << >>
      /\ \A i \in DOMAIN attempts : attempts[i].index = 1 /\ attempts[i].cycle = 0
  BY <1>1, Zenon DEF ConnectorInv, ConnectorTypeOK, Building, Untouched, Position, Returned
<1>3. last \in [1 .. Len(attempts) -> BOOLEAN]
  BY <1>1, <1>2, SMTT(30)
<1> DEFINE n == Len(attempts)
<1>4. PICK p \in Bijection(1 .. n, 1 .. n) : attempts' = [k \in 1 .. n |-> attempts[p[k]]]
  BY <1>1, <1>2, <1>3, PartitionReorders
<1>5. n \in Nat /\ DOMAIN attempts = 1 .. n
  BY <1>2
<1>5a. /\ p \in [1 .. n -> 1 .. n]
       /\ \A i, j \in 1 .. n : p[i] = p[j] => i = j
       /\ \A i \in 1 .. n : \E k \in 1 .. n : p[k] = i
  <2> HIDE DEF n
  <2> QED  BY Zenon DEF Bijection, Injection, Surjection, IsInjective
<1>6. /\ DOMAIN attempts' = 1 .. n
      /\ \A i \in DOMAIN attempts' : p[i] \in DOMAIN attempts /\ attempts'[i] = attempts[p[i]]
  <2> HIDE DEF n
  <2> QED  BY <1>4, <1>5, <1>5a, Zenon
<1>7. attempts' \in Seq(Attempts)
  <2>1. \A i \in 1 .. n : attempts[i] \in Attempts
    BY <1>2, <1>5
  <2> HIDE DEF n
  <2>2. attempts' \in [1 .. n -> Attempts]
    BY <1>4, <1>5, <1>5a, <2>1, ZenonT(30)
  <2> QED  BY <1>5, <2>2
<1> HIDE DEF n
<1>8. ConnectorTypeOK' /\ Verdicts'
  <2>1. Attempts' = Attempts
    BY <1>1, Zenon DEF Attempts, DescIds
  <2> QED  BY <1>1, <1>7, <2>1 DEF ConnectorInv, ConnectorTypeOK, DescIds, Verdicts
<1>9. \A i \in DOMAIN attempts' : attempts'[i].index = 1 /\ attempts'[i].cycle = 0
  BY <1>2, <1>6, SMTT(30)
<1>10. Building'
  <2>1. \A i, j \in DOMAIN attempts' : attempts'[i].desc = attempts'[j].desc => i = j
    <3>1. \A i, j \in DOMAIN attempts : attempts[i].desc = attempts[j].desc => i = j
      BY Zenon DEF ConnectorInv, Building
    <3>2. ASSUME NEW i \in DOMAIN attempts', NEW j \in DOMAIN attempts', attempts'[i].desc = attempts'[j].desc
          PROVE  i = j
      <4>1. p[i] = p[j]
        BY <1>6, <3>1, <3>2
      <4> QED  BY <1>5a, <1>6, <4>1, ZenonT(30)
    <3> QED  BY <3>2, Zenon
  <2> QED  BY <1>1, <1>2, <1>9, <2>1 DEF Building, Untouched
<1>11. Addresses'
  <2>1. \A i \in DOMAIN attempts' :
          attempts'[i].addresses # << >> /\ Same(attempts'[i].addresses, kept[attempts'[i].desc])
    BY <1>6, Zenon DEF ConnectorInv, Addresses
  <2>2. ASSUME NEW d \in DescIds, kept[d] # << >>
        PROVE  \E i \in DOMAIN attempts' : attempts'[i].desc = d
    <3>1. PICK i \in 1 .. n : attempts[i].desc = d
      BY <1>1, <1>5, <2>2, Zenon DEF ConnectorInv, Addresses
    <3>2. PICK j \in 1 .. n : p[j] = i
      BY <1>5a, Zenon
    <3> QED  BY <1>6, <3>1, <3>2, Zenon
  <2> QED  BY <1>1, <2>1, <2>2, Zenon DEF Addresses, DescIds, Same
<1>12. Position' /\ Tally'
  BY <1>1, <1>2, <1>7, <1>9, FreshIterator, Zenon DEF Untouched
<1>13. Promised' /\ AllTried' /\ NilWhenCancelled'
  BY <1>1, Zenon DEF Promised, AllTried, NilWhenCancelled
<1> QED  BY <1>8, <1>10, <1>11, <1>12, <1>13, ZenonT(30) DEF ConnectorInv

\* The addresses of a description become an attempt.
LEMMA PlaceBuilt ==
  ASSUME ConnectorInv, Place, toBuild # << >>
  PROVE  ConnectorInv'
<1> DEFINE d == Head(toBuild)
           s == Partition(work, last)
           b == [desc |-> d, addresses |-> s, cycle |-> 0, index |-> 1]
           n == Len(attempts)
<1>1. /\ step = "order" /\ step' = "build" /\ StatusesRead /\ last' = << >> /\ work' = << >>
      /\ toBuild' = Tail(toBuild) /\ attempts' = Append(attempts, b)
      /\ UNCHANGED <<config, resolving, cur, exhausted, option, down, kept, tried>>
  BY Zenon DEF Place, StatusesRead
<1>2. /\ attempts \in Seq(Attempts) /\ toBuild \in Seq(DescIds) /\ cur = 1 /\ ~exhausted /\ Untouched
      /\ work # << >> /\ Same(work, kept[d]) /\ work \in Seq(CacheKeys)
      /\ \A i \in DOMAIN attempts : attempts[i].index = 1 /\ attempts[i].cycle = 0
  BY <1>1, Zenon DEF ConnectorInv, ConnectorTypeOK, Building, Untouched, Addresses, Position, Returned
<1>3. s \in Seq(CacheKeys) /\ s # << >> /\ Same(s, kept[d])
  <2>1. s \in Seq(CacheKeys) /\ Len(s) = Len(work) /\ Same(s, work)
    BY <1>1, PlacedAddresses, Zenon DEF ConnectorInv
  <2> HIDE DEF s
  <2>2. s # << >>
    BY <1>2, <2>1
  <2> QED  BY <1>2, <2>1, <2>2, Zenon DEF Same
<1>4. /\ d \in DescIds /\ d = toBuild[1] /\ 1 \in DOMAIN toBuild
  BY <1>2, SMTT(30)
<1> HIDE DEF d, s
<1>5. /\ b \in Attempts /\ b.desc = d /\ b.addresses = s /\ b.cycle = 0 /\ b.index = 1
  BY <1>3, <1>4, SMTT(30) DEF Attempts
<1> HIDE DEF b
<1>6. /\ attempts' \in Seq(Attempts) /\ n \in Nat /\ DOMAIN attempts = 1 .. n /\ DOMAIN attempts' = 1 .. n + 1
      /\ attempts'[n + 1] = b /\ \A i \in DOMAIN attempts : attempts'[i] = attempts[i]
  BY <1>1, <1>2, <1>5
<1> HIDE DEF n
<1>7. \A i \in DOMAIN attempts' : i \in DOMAIN attempts \/ i = n + 1
  BY <1>6, SMTT(30)
<1>8. /\ toBuild' \in Seq(DescIds) /\ DOMAIN toBuild' = 1 .. Len(toBuild) - 1
      /\ \A i \in DOMAIN toBuild' : i + 1 \in DOMAIN toBuild /\ toBuild'[i] = toBuild[i + 1] /\ i + 1 # 1
  BY <1>1, <1>2
<1>9. ConnectorTypeOK' /\ Verdicts'
  <2>1. Attempts' = Attempts /\ DescIds' = DescIds
    BY <1>1, Zenon DEF Attempts, DescIds
  <2>2. << >> \in Seq(CacheKeys) /\ << >> \in Seq(BOOLEAN)
    OBVIOUS
  <2> QED  BY <1>1, <1>6, <1>8, <2>1, <2>2, Zenon DEF ConnectorInv, ConnectorTypeOK, Verdicts
<1>10. \A i \in DOMAIN attempts' : attempts'[i].index = 1 /\ attempts'[i].cycle = 0
  BY <1>2, <1>5, <1>6, <1>7, Zenon
<1>11. Building'
  <2>1. /\ \A i, j \in DOMAIN toBuild : toBuild[i] = toBuild[j] => i = j
        /\ \A i, j \in DOMAIN attempts : attempts[i].desc = attempts[j].desc => i = j
        /\ \A i \in DOMAIN attempts, j \in DOMAIN toBuild : attempts[i].desc # toBuild[j]
    BY ZenonT(30) DEF ConnectorInv, Building
  <2>2. \A i, j \in DOMAIN toBuild' : toBuild'[i] = toBuild'[j] => i = j
    BY <1>2, <1>8, <2>1
  <2>3. \A i \in DOMAIN attempts : attempts[i].desc # d
    BY <1>4, <2>1, Zenon
  <2>4. \A i, j \in DOMAIN attempts' : attempts'[i].desc = attempts'[j].desc => i = j
    BY <1>5, <1>6, <1>7, <2>1, <2>3, ZenonT(30)
  <2>5. \A j \in DOMAIN toBuild' : toBuild'[j] # d
    BY <1>4, <1>8, <2>1, ZenonT(30)
  <2>6. \A i \in DOMAIN attempts', j \in DOMAIN toBuild' : attempts'[i].desc # toBuild'[j]
    BY <1>5, <1>6, <1>7, <1>8, <2>1, <2>5, SMTT(30)
  <2> QED  BY <1>1, <1>2, <1>10, <2>2, <2>4, <2>6, Zenon DEF Building
<1>12. Addresses'
  <2>1. \A i \in DOMAIN attempts :
          attempts[i].addresses # << >> /\ Same(attempts[i].addresses, kept[attempts[i].desc])
    BY Zenon DEF ConnectorInv, Addresses
  <2>2. \A i \in DOMAIN attempts' :
          attempts'[i].addresses # << >> /\ Same(attempts'[i].addresses, kept[attempts'[i].desc])
    BY <1>3, <1>5, <1>6, <1>7, <2>1, ZenonT(30)
  <2>3. ASSUME NEW c \in DescIds, kept[c] # << >>
        PROVE  \E i \in DOMAIN attempts' : attempts'[i].desc = c
    <3>1. (\E i \in DOMAIN attempts : attempts[i].desc = c) \/ c = d
      BY <1>1, <2>3, Zenon DEF ConnectorInv, Addresses, d
    <3> QED  BY <1>5, <1>6, <3>1
  <2> QED  BY <1>1, <2>2, <2>3, Zenon DEF Addresses, DescIds, Same
<1>13. Position' /\ Tally'
  BY <1>1, <1>2, <1>6, <1>10, FreshIterator, Zenon
<1>14. Promised' /\ AllTried' /\ NilWhenCancelled'
  BY <1>1, Zenon DEF Promised, AllTried, NilWhenCancelled
<1> QED  BY <1>9, <1>11, <1>12, <1>13, <1>14, Zenon DEF ConnectorInv

\* The addresses of the next cycle are put in order.
LEMMA PlaceCycle ==
  ASSUME ConnectorInv, Place, toBuild = << >>
  PROVE  ConnectorInv'
<1> DEFINE a == attempts[cur]
           s == Partition(work, last)
           b == [a EXCEPT !.addresses = s]
<1>1. /\ step = "order" /\ step' = "next" /\ StatusesRead /\ last' = << >> /\ work' = << >>
      /\ attempts' = [attempts EXCEPT ![cur] = b]
      /\ UNCHANGED <<config, toBuild, resolving, cur, exhausted, option, down, kept, tried>>
  BY Zenon DEF Place, StatusesRead
<1>2. /\ cur \in DOMAIN attempts /\ a.index = 1 /\ work # << >> /\ Same(work, a.addresses)
      /\ work \in Seq(CacheKeys) /\ ~exhausted
  BY <1>1, Zenon DEF ConnectorInv, ConnectorTypeOK, Addresses, Position, Returned
<1>3. /\ attempts \in Seq(Attempts) /\ a \in Attempts /\ cur \in Nat /\ a.cycle \in Nat
      /\ a.addresses \in Seq(CacheKeys) /\ Same(a.addresses, kept[a.desc])
      /\ a.cycle <= Desc(a.desc).retryCount
  BY <1>2, CurrentAttempt, Zenon
<1>4. s \in Seq(CacheKeys) /\ s # << >> /\ Same(s, kept[a.desc]) /\ Len(s) \in Nat \ {0}
  <2>1. s \in Seq(CacheKeys) /\ Len(s) = Len(work) /\ Same(s, work)
    BY <1>1, PlacedAddresses, ZenonT(30) DEF ConnectorInv
  <2> HIDE DEF s
  <2>2. s # << >> /\ Len(s) \in Nat \ {0}
    BY <1>2, <2>1
  <2> QED  BY <1>2, <1>3, <2>1, <2>2, Zenon DEF Same
<1> HIDE DEF a, s
<1>5. /\ b \in Attempts /\ b.desc = a.desc /\ b.addresses = s /\ b.cycle = a.cycle /\ b.index = a.index
  BY <1>3, <1>4, Zenon DEF Attempts
<1> HIDE DEF b
<1>6. /\ attempts' \in Seq(Attempts)' /\ DOMAIN attempts' = DOMAIN attempts /\ attempts'[cur] = b
      /\ \A i \in DOMAIN attempts : i # cur => attempts'[i] = attempts[i]
  BY <1>1, <1>2, <1>3, <1>5, CurrentChanged, Zenon
<1>7. \A i \in DOMAIN attempts : /\ attempts'[i].desc = attempts[i].desc
                                 /\ attempts'[i].cycle = attempts[i].cycle
                                 /\ attempts'[i].index = attempts[i].index
  BY <1>5, <1>6, Zenon DEF a
<1>8. ConnectorTypeOK' /\ Verdicts'
  <2>1. << >> \in Seq(CacheKeys) /\ << >> \in Seq(BOOLEAN)
    BY SMTT(30)
  <2> QED  BY <1>1, <1>6, <2>1, Zenon DEF ConnectorInv, ConnectorTypeOK, DescIds, Verdicts
<1>9. Building'
  BY <1>1, <1>6, <1>7, SMTT(30) DEF ConnectorInv, Building, Untouched
<1>10. Addresses'
  <2>1. \A i \in DOMAIN attempts' :
          attempts'[i].addresses # << >> /\ Same(attempts'[i].addresses, kept[attempts'[i].desc])
    <3>1. \A i \in DOMAIN attempts :
            attempts[i].addresses # << >> /\ Same(attempts[i].addresses, kept[attempts[i].desc])
      BY ZenonT(30) DEF ConnectorInv, Addresses
    <3> QED  BY <1>4, <1>5, <1>6, <3>1, Zenon
  <2>2. \A c \in DescIds : kept[c] # << >> => \E i \in DOMAIN attempts' : attempts'[i].desc = c
    BY <1>6, <1>7 DEF ConnectorInv, Addresses
  <2> QED  BY <1>1, <2>1, <2>2 DEF Addresses, DescIds, Same
<1>11. Position'
  <2>1. /\ attempts'[cur].index <= Len(attempts'[cur].addresses) + 1
        /\ attempts'[cur].cycle <= Desc(attempts'[cur].desc).retryCount
    BY <1>2, <1>3, <1>4, <1>5, <1>6
  <2>2. \A i \in DOMAIN attempts : i > cur => attempts'[i].index = 1 /\ attempts'[i].cycle = 0
    BY <1>7, Zenon DEF ConnectorInv, Position
  <2> QED  BY <1>1, <1>2, <1>6, <2>1, <2>2, ZenonT(30) DEF Position, Desc
<1>12. Tally'
  <2>1. ASSUME NEW i \in DOMAIN attempts, NEW k \in CacheKeys
        PROVE  TriedOf(i, k)' = TriedOf(i, k)
    <3>1. CASE i # cur
      BY <1>1, <1>6, <3>1 DEF TriedOf, Desc
    <3>2. CASE i = cur
      <4>1. Taken = 0 /\ Taken' = 0
        BY <1>1, <1>2, <1>5, <1>6 DEF Taken, a
      <4>2. CountUpto(a.addresses, 0, k) = 0 /\ CountUpto(s, 0, k) = 0
        BY <1>3, <1>4, Counting, ZenonT(30)
      <4> QED  BY <1>1, <1>3, <1>5, <1>6, <3>2, <4>1, <4>2, ZenonT(30) DEF TriedOf, Desc, a
    <3> QED  BY <3>1, <3>2, ZenonT(30)
  <2>2. \A i \in DOMAIN attempts', k \in CacheKeys : tried'[attempts'[i].desc][k] = TriedOf(i, k)'
    BY <1>1, <1>6, <1>7, <2>1, SMTT(30) DEF ConnectorInv, Tally
  <2>3. \A c \in DescIds : (\A i \in DOMAIN attempts' : attempts'[i].desc # c) =>
          \A k \in CacheKeys : tried'[c][k] = 0
    BY <1>1, <1>6, <1>7 DEF ConnectorInv, Tally
  <2> QED  BY <1>1, <2>2, <2>3, Zenon DEF Tally, DescIds
<1>13. Promised'
  <2>1. attempts'[cur].index <= Len(attempts'[cur].addresses)
    BY <1>2, <1>4, <1>5, <1>6
  <2> QED  BY <1>1, <1>2, <1>6, <2>1, ZenonT(30) DEF Promised
<1>14. AllTried' /\ NilWhenCancelled'
  BY <1>1, Zenon DEF AllTried, NilWhenCancelled
<1> QED  BY <1>8, <1>9, <1>10, <1>11, <1>12, <1>13, <1>14, ZenonT(30) DEF ConnectorInv

\* The invariant of the iterator: an attempt holds the addresses of its description,
\* and its cycle and index say what has been tried.
THEOREM ConnectorInvariant == ConnectorSpec => []ConnectorInv
<1>1. ConnectorInv /\ [ConnectorNext]_connectorVars => ConnectorInv'
  BY EnvironmentKeeps, ResolveHostKeeps, FinishResolveKeeps, ReadStatusKeeps, PlaceBuilt, PlaceCycle,
     DescriptionsBuiltKeeps, ReadDescriptionKeeps, PlaceDescriptionsKeeps, LoopKeeps, NextAddressKeeps,
     NextCycleKeeps, NextDescriptionKeeps, LoopStepsKeep, DialKeeps, SMTT(30)
  DEF ConnectorNext, Connect
<1> QED  BY <1>1, ConnectorInitInv, PTL DEF ConnectorSpec

\* Connect fails only when every address of every description was tried once per
\* cycle, however the hosts' statuses changed meanwhile.
THEOREM AllTriedAlways == ConnectorSpec => []AllTried
<1>1. ConnectorInv => AllTried
  BY Zenon DEF ConnectorInv
<1> QED  BY <1>1, ConnectorInvariant, PTL

\* Next has an option whenever HasNext has said so and the context is not done.
THEOREM NilWhenCancelledAlways == ConnectorSpec => []NilWhenCancelled
<1>1. ConnectorInv => NilWhenCancelled
  BY Zenon DEF ConnectorInv
<1> QED  BY <1>1, ConnectorInvariant, PTL

\* A host down from the beginning to the end of the ordering is placed after those
\* that were up all that time.
THEOREM DownHostsLastAlways == ConnectorSpec => DownHostsLast
<1> DEFINE s == Partition(work, last)
           InOrder == \A i, j \in DOMAIN s :
                        ~(/\ i < j /\ {s[i], s[j]} \subseteq steady
                          /\ s[i] \in down /\ s[j] \notin down)
<1>1. ASSUME ConnectorInv, Place
      PROVE  InOrder
  <2> SUFFICES ASSUME NEW i \in DOMAIN s, NEW j \in DOMAIN s, i < j, s[i] \in steady, s[j] \in steady,
                      s[i] \in down, s[j] \notin down
               PROVE  FALSE
    BY Zenon
  <2> DEFINE n == Len(work)
  <2>1. /\ work \in Seq(CacheKeys) /\ last \in Seq(BOOLEAN) /\ n \in Nat /\ StatusesRead
        /\ \A m \in DOMAIN last : work[m] \in steady => last[m] = (work[m] \in down)
    BY <1>1 DEF ConnectorInv, ConnectorTypeOK, Verdicts, Place, StatusesRead
  <2>2. CASE n < 2
    <3>1. s = work
      BY <2>2, Zenon DEF Partition
    <3> HIDE DEF s
    <3> QED  BY <2>1, <2>2, <3>1
  <2>3. CASE Len(last) = n
    <3>1. last \in [1 .. n -> BOOLEAN] /\ DOMAIN last = 1 .. n
      BY <2>1, <2>3
    <3>2. PICK p \in Bijection(1 .. n, 1 .. n) :
            /\ s = [k \in 1 .. n |-> work[p[k]]]
            /\ \A k, m \in 1 .. n : k < m => ~(last[p[k]] /\ ~last[p[m]])
      BY <2>1, <3>1, PartitionReorders, Zenon
    <3> HIDE DEF s, n
    <3>3. i \in 1 .. n /\ j \in 1 .. n /\ s[i] = work[p[i]] /\ s[j] = work[p[j]]
      BY <3>2, Zenon
    <3>4. p[i] \in 1 .. n /\ p[j] \in 1 .. n
      BY <3>3, Zenon DEF Bijection, Injection
    <3>5. last[p[i]] = (work[p[i]] \in down) /\ last[p[j]] = (work[p[j]] \in down)
      BY <2>1, <3>1, <3>3, <3>4, Zenon
    <3>6. last[p[i]] /\ ~last[p[j]]
      BY <3>3, <3>5, Zenon
    <3> QED  BY <3>2, <3>3, <3>6, ZenonT(30)
  <2> QED  BY <2>1, <2>2, <2>3, Zenon DEF StatusesRead
<1>2. ConnectorInv => [Place => InOrder]_connectorVars
  BY <1>1, Zenon
<1>3. []ConnectorInv => [][Place => InOrder]_connectorVars
  BY <1>2, PTL
<1> QED  BY <1>3, ConnectorInvariant, PTL DEF DownHostsLast
==============================================================================
