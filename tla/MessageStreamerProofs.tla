------------------------ MODULE MessageStreamerProofs ------------------------
(***************************************************************************)
(* What the message streamer guarantees for any number of calls, messages  *)
(* and failed flushes and for any limits of its two lists, and what        *)
(* OracleScalars promises for every width of the fields the messages hold. *)
(***************************************************************************)
EXTENDS MessageStreamer, OracleScalars, TTLCache, SequenceTheorems, FiniteSetTheorems, TLAPS

Messages == [n : Nat, type : MessageTypes, call : Nat, err : BOOLEAN, fault : BOOLEAN]
Sent == [n : Nat, whole : BOOLEAN]

\* The two halves of the type invariant.
InTypeOK ==
  /\ incoming \in Seq(Messages) /\ result \in Messages \cup {NoMessage}
  /\ pc \in {"idle", "call", "pull", "end"} /\ expected \in SUBSET MessageTypes
  /\ call \in Nat /\ arrived \in Nat /\ lastChecked \in Nat

OutTypeOK ==
  /\ outQueue \in Seq(Nat) /\ stream \in Seq(Sent)
  /\ pushed \in Nat /\ failed \in Nat

\* The parked messages are in the order of their arrival, and are all of calls
\* that have not passed checkCurrentState; while Pull reads, none is expected.
Parked ==
  /\ \A i \in DOMAIN incoming : incoming[i].n <= arrived /\ incoming[i].call > lastChecked
  /\ \A i, j \in DOMAIN incoming : i < j => incoming[i].n < incoming[j].n
  /\ pc = "pull" => \A i \in DOMAIN incoming : incoming[i].type \notin expected

\* A call that is under way has not been checked.
Calls ==
  /\ lastChecked <= call /\ (pc # "idle" => lastChecked < call)
  /\ DeliveredInCall

InInv == InTypeOK /\ Parked /\ Calls

\* The list of outgoing messages continues the stream; until a flush fails, the
\* two together are all that was pushed.
Queued ==
  /\ \A i, j \in DOMAIN outQueue : i < j => outQueue[i] < outQueue[j]
  /\ \A j \in DOMAIN outQueue : outQueue[j] <= pushed
  /\ \A i \in DOMAIN stream : stream[i].whole => stream[i].n <= pushed
  /\ \A i \in DOMAIN stream, j \in DOMAIN outQueue : stream[i].whole => stream[i].n < outQueue[j]
  /\ \A i, j \in DOMAIN stream :
       i < j /\ stream[i].whole /\ stream[j].whole => stream[i].n < stream[j].n

Complete ==
  failed = 0 =>
    /\ Len(stream) + Len(outQueue) = pushed
    /\ \A i \in DOMAIN stream : stream[i] = [n |-> i, whole |-> TRUE]
    /\ \A j \in DOMAIN outQueue : outQueue[j] = Len(stream) + j

OutInv == OutTypeOK /\ Queued /\ Complete

-----------------------------------------------------------------------------
(* Sequences. *)

(* What is left of a list when its i-th element is taken out: the elements *)
(* before it in their places, those after it one place earlier.            *)
LEMMA RemovedAt ==
  ASSUME NEW S, NEW s \in Seq(S), NEW i \in DOMAIN s
  PROVE  LET r == SubSeq(s, 1, i - 1) \o SubSeq(s, i + 1, Len(s))
         IN  /\ r \in Seq(S) /\ Len(r) = Len(s) - 1
             /\ \A k \in DOMAIN r : r[k] = IF k < i THEN s[k] ELSE s[k + 1]
<1> DEFINE a == SubSeq(s, 1, i - 1)
           b == SubSeq(s, i + 1, Len(s))
<1>0. Len(s) \in Nat /\ i \in 1 .. Len(s) /\ \A k \in 1 .. Len(s) : s[k] \in S
  BY LenProperties, ElementOfSeq, Zenon
<1>1. /\ a \in Seq(S) /\ Len(a) = i - 1 /\ \A k \in 1 .. i - 1 : a[k] = s[k]
  BY <1>0, SubSeqProperties
<1>2. /\ b \in Seq(S) /\ Len(b) = Len(s) - i /\ \A k \in 1 .. Len(s) - i : b[k] = s[i + k]
  BY <1>0, SubSeqProperties
<1> HIDE DEF a, b
<1>3. /\ a \o b \in Seq(S) /\ Len(a \o b) = Len(a) + Len(b)
      /\ \A k \in 1 .. Len(a) + Len(b) : (a \o b)[k] = IF k <= Len(a) THEN a[k] ELSE b[k - Len(a)]
  BY <1>1, <1>2, ConcatProperties, Zenon
<1>4. ASSUME NEW k \in 1 .. Len(s) - 1
      PROVE  (a \o b)[k] = IF k < i THEN s[k] ELSE s[k + 1]
  <2>1. k \in 1 .. Len(a) + Len(b) /\ (k <= Len(a) <=> k < i)
    BY <1>0, <1>1, <1>2, SMTT(30)
  <2>2. (a \o b)[k] = IF k < i THEN a[k] ELSE b[k - Len(a)]
    BY <1>3, <2>1, Zenon
  <2>3. CASE k < i
    <3>1. k \in 1 .. i - 1
      BY <1>0, <2>3
    <3> QED  BY <1>1, <2>2, <2>3, <3>1, Zenon
  <2>4. CASE ~(k < i)
    <3>1. k - Len(a) \in 1 .. Len(s) - i /\ i + (k - Len(a)) = k + 1
      BY <1>0, <1>1, <2>4, SMTT(30)
    <3>2. b[k - Len(a)] = s[i + (k - Len(a))]
      BY <1>2, <3>1, Zenon
    <3> QED  BY <2>2, <2>4, <3>1, <3>2, Zenon
  <2> QED  BY <2>3, <2>4, Zenon
<1>5. Len(a \o b) = Len(s) - 1 /\ DOMAIN (a \o b) = 1 .. Len(s) - 1
  BY <1>0, <1>1, <1>2, <1>3, LenProperties, SMTT(30)
<1> QED  BY <1>3, <1>4, <1>5, Zenon DEF a, b
-----------------------------------------------------------------------------
(* The incoming side. *)

LEMMA ParkedNumbers ==
  ASSUME InInv
  PROVE  \A k \in DOMAIN incoming : incoming[k].n \in Nat
<1>1. incoming \in Seq(Messages) /\ DOMAIN incoming = 1 .. Len(incoming)
  BY LenProperties, Zenon DEF InInv, InTypeOK
<1>2. ASSUME NEW k \in DOMAIN incoming
      PROVE  incoming[k].n \in Nat
  <2>1. incoming[k] \in Messages
    BY <1>1, ElementOfSeq, Zenon
  <2> QED  BY <2>1, Zenon DEF Messages
<1> QED  BY <1>2, Zenon

(* A message that arrives is newer than all that are parked, and of the    *)
(* call under way.                                                         *)
LEMMA ArrivedIsNewest ==
  ASSUME InInv, Arrival, NEW t \in MessageTypes, NEW err \in BOOLEAN, NEW fault \in BOOLEAN
  PROVE  /\ Message(t, err, fault) \in Messages /\ Message(t, err, fault) # NoMessage
         /\ Message(t, err, fault).n = arrived + 1 /\ Message(t, err, fault).type = t
         /\ Message(t, err, fault).call > lastChecked
         /\ arrived' = arrived + 1 /\ arrived' \in Nat
<1>1. call \in Nat /\ arrived \in Nat /\ lastChecked < call /\ pc = "pull" /\ arrived' = arrived + 1
  BY Zenon DEF InInv, InTypeOK, Calls, Arrival
<1> DEFINE m == [n |-> arrived + 1, type |-> t, call |-> call, err |-> err, fault |-> fault]
<1>2. m \in Messages /\ m.n = arrived + 1 /\ m.type = t /\ m.call = call
  BY <1>1 DEF Messages
<1>3. m # NoMessage
  BY <1>1 DEF NoMessage
<1>4. m = Message(t, err, fault)
  BY Zenon DEF Message
<1> QED  BY <1>1, <1>2, <1>3, <1>4

LEMMA PullParkedKeeps ==
  ASSUME InInv, NEW ts \in SUBSET MessageTypes, PullParked(ts)
  PROVE  /\ InInv'
         /\ \A i \in DOMAIN incoming' : incoming'[i].type \in expected' => result'.n < incoming'[i].n
<1>1. PICK i \in Positions(ts) :
        /\ result' = incoming[i]
        /\ incoming' = SubSeq(incoming, 1, i - 1) \o SubSeq(incoming, i + 1, Len(incoming))
  BY Zenon DEF PullParked
<1>2. /\ pc = "call" /\ expected' = ts
      /\ UNCHANGED <<pc, arrived, call, lastChecked>>
  BY Zenon DEF PullParked, callVars
<1>3. /\ i \in DOMAIN incoming /\ \A j \in 1 .. i - 1 : incoming[j].type \notin ts
  BY Zenon DEF Positions
<1>4. incoming \in Seq(Messages)
  BY Zenon DEF InInv, InTypeOK
<1>5. /\ incoming' \in Seq(Messages) /\ Len(incoming') = Len(incoming) - 1
      /\ \A k \in DOMAIN incoming' : incoming'[k] = IF k < i THEN incoming[k] ELSE incoming[k + 1]
  BY <1>1, <1>3, <1>4, RemovedAt, Zenon
<1>6. /\ DOMAIN incoming = 1 .. Len(incoming) /\ Len(incoming) \in Nat
      /\ DOMAIN incoming' = 1 .. Len(incoming) - 1 /\ i \in 1 .. Len(incoming)
  BY <1>3, <1>4, <1>5, LenProperties, Zenon
<1> DEFINE at(k) == IF k < i THEN k ELSE k + 1
<1>7. \A k \in DOMAIN incoming' :
        at(k) \in DOMAIN incoming /\ at(k) # i /\ incoming'[k] = incoming[at(k)]
  BY <1>5, <1>6
<1>8. \A j, k \in DOMAIN incoming' : j < k => at(j) < at(k)
  BY <1>6
<1>9. result' \in Messages /\ result'.call > lastChecked
  <2>1. incoming[i] \in Messages
    BY <1>3, <1>4, ElementOfSeq
  <2> QED  BY <1>1, <1>3, <2>1, Zenon DEF InInv, Parked
<1>10. InTypeOK'
  BY <1>2, <1>5, <1>9, Zenon DEF InInv, InTypeOK
<1>11. Parked'
  <2> HIDE DEF at
  <2> QED  BY <1>2, <1>7, <1>8, Zenon DEF InInv, Parked
<1>12. Calls'
  BY <1>2, <1>9, Zenon DEF InInv, Calls, DeliveredInCall
<1>13. ASSUME NEW k \in DOMAIN incoming', incoming'[k].type \in expected'
       PROVE  result'.n < incoming'[k].n
  <2>1. i < at(k)
    BY <1>2, <1>3, <1>6, <1>7, <1>13, SMTT(30)
  <2>2. incoming[i].n < incoming[at(k)].n
    BY <1>3, <1>7, <2>1, Zenon DEF InInv, Parked
  <2> QED  BY <1>1, <1>7, <2>2, Zenon
<1> QED  BY <1>10, <1>11, <1>12, <1>13, Zenon DEF InInv

LEMMA ReadParkedKeeps ==
  ASSUME InInv, NEW t \in MessageTypes, NEW fault \in BOOLEAN, NEW drained \in BOOLEAN,
         ReadParked(t, fault, drained)
  PROVE  InInv'
<1> DEFINE err == ErrorAfterCallbacks(t, fault)
           m == Message(t, err, fault)
<1>1. err \in BOOLEAN
  BY Zenon DEF ErrorAfterCallbacks
<1>2. /\ Arrival /\ t \notin expected /\ incoming' = Append(incoming, m) /\ pc = "pull"
      /\ UNCHANGED <<pc, expected, result, call, lastChecked>>
  BY Zenon DEF ReadParked, callVars, Arrival
<1> HIDE DEF err
<1>3. /\ m \in Messages /\ m.n = arrived + 1 /\ m.type = t /\ m.call > lastChecked
      /\ arrived' = arrived + 1 /\ arrived' \in Nat
  BY <1>1, <1>2, ArrivedIsNewest, Zenon
<1> HIDE DEF m
<1>4. incoming \in Seq(Messages) /\ arrived \in Nat
  BY Zenon DEF InInv, InTypeOK
<1>5. /\ incoming' \in Seq(Messages) /\ Len(incoming') = Len(incoming) + 1
      /\ \A k \in 1 .. Len(incoming) : incoming'[k] = incoming[k]
      /\ incoming'[Len(incoming) + 1] = m
  BY <1>2, <1>3, <1>4, AppendProperties, SMTT(30)
<1>6. /\ DOMAIN incoming = 1 .. Len(incoming) /\ Len(incoming) \in Nat
      /\ DOMAIN incoming' = 1 .. Len(incoming) + 1
  BY <1>4, <1>5, LenProperties, Zenon
<1>7. \A k \in DOMAIN incoming : incoming[k].n \in Nat
  BY ParkedNumbers, Zenon
<1>8. \A k \in DOMAIN incoming' :
        \/ k \in DOMAIN incoming /\ incoming'[k] = incoming[k]
        \/ k = Len(incoming) + 1 /\ incoming'[k] = m
  BY <1>5, <1>6
<1>9. InTypeOK'
  BY <1>2, <1>3, <1>5, Zenon DEF InInv, InTypeOK
<1>10. Parked'
  <2>1. ASSUME NEW k \in DOMAIN incoming'
        PROVE  /\ incoming'[k].n <= arrived' /\ incoming'[k].call > lastChecked'
               /\ incoming'[k].type \notin expected'
    BY <1>2, <1>3, <1>4, <1>7, <1>8 DEF InInv, Parked
  <2>2. ASSUME NEW j \in DOMAIN incoming', NEW k \in DOMAIN incoming', j < k
        PROVE  incoming'[j].n < incoming'[k].n
    <3>1. j \in DOMAIN incoming /\ incoming'[j] = incoming[j]
      BY <1>5, <1>6, <2>2
    <3>2. CASE k \in DOMAIN incoming /\ incoming'[k] = incoming[k]
      BY <2>2, <3>1, <3>2, Zenon DEF InInv, Parked
    <3>3. CASE incoming'[k] = m
      BY <1>3, <1>4, <1>7, <3>1, <3>3 DEF InInv, Parked
    <3> QED  BY <1>8, <3>2, <3>3, Zenon
  <2> QED  BY <2>1, <2>2, Zenon DEF Parked
<1>11. Calls'
  BY <1>2, Zenon DEF InInv, Calls, DeliveredInCall
<1> QED  BY <1>9, <1>10, <1>11, Zenon DEF InInv

LEMMA ReadExpectedKeeps ==
  ASSUME InInv, NEW t \in MessageTypes, NEW fault \in BOOLEAN, NEW drained \in BOOLEAN,
         ReadExpected(t, fault, drained)
  PROVE  /\ InInv'
         /\ \A i \in DOMAIN incoming' : incoming'[i].type \notin expected'
<1> DEFINE err == ErrorAfterCallbacks(t, fault)
           m == Message(t, err, fault)
<1>1. err \in BOOLEAN
  BY Zenon DEF ErrorAfterCallbacks
<1>2. /\ Arrival /\ result' = m /\ pc = "pull" /\ pc' = "call"
      /\ UNCHANGED <<incoming, expected, call, lastChecked>>
  BY Zenon DEF ReadExpected, callVars, Arrival
<1> HIDE DEF err
<1>3. m \in Messages /\ m.call > lastChecked /\ arrived' = arrived + 1 /\ arrived' \in Nat
  BY <1>1, <1>2, ArrivedIsNewest, Zenon
<1> HIDE DEF m
<1>4. InTypeOK'
  BY <1>2, <1>3, Zenon DEF InInv, InTypeOK
<1>5. Parked'
  BY <1>2, <1>3, ParkedNumbers DEF InInv, Parked, InTypeOK
<1>6. Calls'
  BY <1>2, <1>3, Zenon DEF InInv, Calls, DeliveredInCall
<1>7. \A i \in DOMAIN incoming' : incoming'[i].type \notin expected'
  BY <1>2, ZenonT(30) DEF InInv, Parked
<1> QED  BY <1>4, <1>5, <1>6, <1>7, Zenon DEF InInv

(* The steps that neither park nor return a message. *)
LEMMA OthersKeepIn ==
  ASSUME InInv,
         \/ \E b \in BOOLEAN : Begin(b)
         \/ Push \/ Flush \/ PullFails \/ EndChecked \/ EndUnchecked
         \/ \E ts \in PullSets : PullReads(ts)
         \/ \E t \in MessageTypes : ReadDropped(t) \/ ReadOverflow(t)
         \/ UNCHANGED streamerVars
  PROVE  InInv' /\ (result' = result \/ result' = NoMessage)
<1> USE DEF InInv, InTypeOK, Parked, Calls, DeliveredInCall
<1>1. ASSUME NEW b \in BOOLEAN, Begin(b)
      PROVE  InInv' /\ result' = NoMessage
  BY <1>1 DEF Begin
<1>2. CASE Push \/ Flush
  BY <1>2, Zenon DEF Push, Flush, callVars
<1>3. CASE PullFails
  BY <1>3, ZenonT(30) DEF PullFails, callVars
<1>4. CASE EndChecked
  <2>1. incoming' = <<>> /\ result' = NoMessage /\ pc' = "idle" /\ lastChecked' = call
        /\ UNCHANGED <<call, expected, arrived>>
    BY <1>4, ZenonT(30) DEF EndChecked
  <2>2. <<>> \in Seq(Messages) /\ DOMAIN <<>> = {}
    BY EmptySeq
  <2> QED  BY <2>1, <2>2
<1>5. CASE EndUnchecked
  BY <1>5, Zenon DEF EndUnchecked, callVars
<1>6. ASSUME NEW ts \in PullSets, PullReads(ts)
      PROVE  InInv' /\ result' = NoMessage
  <2>1. ts \in SUBSET MessageTypes
    BY Zenon DEF PullSets, MessageTypes
  <2>2. \A i \in DOMAIN incoming : incoming[i].type \notin ts
    BY <1>6, ZenonT(30) DEF PullReads
  <2> QED  BY <1>6, <2>1, <2>2, Zenon DEF PullReads, callVars
<1>7. ASSUME NEW t \in MessageTypes, ReadDropped(t)
      PROVE  InInv' /\ result' = result
  BY <1>7, ParkedNumbers, SMTT(30) DEF ReadDropped, Arrival, callVars
<1>8. ASSUME NEW t \in MessageTypes, ReadOverflow(t)
      PROVE  InInv' /\ result' = result
  BY <1>8, ParkedNumbers DEF ReadOverflow, Arrival, callVars
<1>9. CASE UNCHANGED streamerVars
  BY <1>9, Zenon DEF streamerVars
<1> QED  BY <1>1, <1>2, <1>3, <1>4, <1>5, <1>6, <1>7, <1>8, <1>9, ZenonT(30)

LEMMA NextKeepsIn ==
  ASSUME InInv, [StreamerNext]_streamerVars
  PROVE  /\ InInv'
         /\ result' # result /\ result' # NoMessage =>
              \A i \in DOMAIN incoming' :
                incoming'[i].type \in expected' => result'.n < incoming'[i].n
<1>1. ASSUME NEW ts \in PullSets, PullParked(ts)
      PROVE  /\ InInv'
             /\ \A i \in DOMAIN incoming' : incoming'[i].type \in expected' => result'.n < incoming'[i].n
  <2>1. ts \in SUBSET MessageTypes
    BY Zenon DEF PullSets, MessageTypes
  <2> QED  BY <1>1, <2>1, PullParkedKeeps, Zenon
<1>2. ASSUME NEW t \in MessageTypes, NEW fault \in BOOLEAN, NEW drained \in BOOLEAN,
             ReadParked(t, fault, drained)
      PROVE  InInv' /\ result' = result
  BY <1>2, ReadParkedKeeps, Zenon DEF ReadParked
<1> QED  BY <1>1, <1>2, ReadExpectedKeeps, OthersKeepIn, Zenon DEF StreamerNext

LEMMA IncomingInvariant == StreamerSpec => []InInv
<1>1. StreamerInit => InInv
  <2>1. <<>> \in Seq(Messages) /\ DOMAIN <<>> = {}
    BY EmptySeq
  <2> QED  BY <2>1 DEF StreamerInit, InInv, InTypeOK, Parked, Calls, DeliveredInCall, MessageTypes
<1>2. InInv /\ [StreamerNext]_streamerVars => InInv'
  BY NextKeepsIn, Zenon
<1> QED  BY <1>1, <1>2, PTL DEF StreamerSpec

(* The messages a call is given are its own: for any number of calls, no   *)
(* message survives the checkCurrentState of an execution.                 *)
THEOREM DeliveredInCallAlways == StreamerSpec => []DeliveredInCall
<1>1. InInv => DeliveredInCall
  BY Zenon DEF InInv, Calls
<1> QED  BY <1>1, IncomingInvariant, PTL

(* Pull returns the oldest of the messages it may return, although it      *)
(* looks at the parked ones and at the stream at different times: while it *)
(* reads, no parked message is of an expected type.                        *)
THEOREM OldestFirstAlways == StreamerSpec => OldestFirst
<1>1. InInv /\ [StreamerNext]_streamerVars =>
        [result' # result /\ result' # NoMessage =>
           \A i \in DOMAIN incoming' :
             incoming'[i].type \in expected' => result'.n < incoming'[i].n]_streamerVars
  BY NextKeepsIn, Zenon
<1> QED  BY <1>1, IncomingInvariant, PTL DEF StreamerSpec, OldestFirst
-----------------------------------------------------------------------------
(* The outgoing side. *)

LEMMA Joined ==
  ASSUME NEW S, NEW a \in Seq(S), NEW b \in Seq(S)
  PROVE  /\ a \o b \in Seq(S) /\ Len(a \o b) = Len(a) + Len(b)
         /\ \A i \in 1 .. Len(a) : (a \o b)[i] = a[i]
         /\ \A i \in 1 .. Len(b) : (a \o b)[Len(a) + i] = b[i]
<1>1. /\ a \o b \in Seq(S) /\ Len(a \o b) = Len(a) + Len(b)
      /\ \A k \in 1 .. Len(a) + Len(b) : (a \o b)[k] = IF k <= Len(a) THEN a[k] ELSE b[k - Len(a)]
  BY ConcatProperties, Zenon
<1>2. Len(a) \in Nat /\ Len(b) \in Nat
  BY LenProperties, Zenon
<1>3. ASSUME NEW i \in 1 .. Len(a)
      PROVE  (a \o b)[i] = a[i]
  <2>1. i \in 1 .. Len(a) + Len(b) /\ i <= Len(a)
    BY <1>2
  <2> QED  BY <1>1, <2>1, Zenon
<1>4. ASSUME NEW i \in 1 .. Len(b)
      PROVE  (a \o b)[Len(a) + i] = b[i]
  <2>1. Len(a) + i \in 1 .. Len(a) + Len(b) /\ ~(Len(a) + i <= Len(a)) /\ (Len(a) + i) - Len(a) = i
    BY <1>2
  <2> QED  BY <1>1, <2>1, Zenon
<1> QED  BY <1>1, <1>3, <1>4, Zenon

LEMMA WholeMessages ==
  ASSUME NEW s \in Seq(Nat)
  PROVE  /\ Whole(s) \in Seq(Sent) /\ Len(Whole(s)) = Len(s)
         /\ \A i \in 1 .. Len(s) : Whole(s)[i] = [n |-> s[i], whole |-> TRUE]
<1>1. Len(s) \in Nat /\ DOMAIN s = 1 .. Len(s) /\ \A i \in 1 .. Len(s) : s[i] \in Nat
  BY LenProperties, ElementOfSeq, Zenon
<1>2. \A i \in 1 .. Len(s) : [n |-> s[i], whole |-> TRUE] \in Sent
  BY <1>1, Zenon DEF Sent
<1>3. Whole(s) = [i \in 1 .. Len(s) |-> [n |-> s[i], whole |-> TRUE]]
  BY <1>1, Zenon DEF Whole
<1> QED  BY <1>1, <1>2, <1>3, IsASeq

\* However Flush ends, it has marshalled the first k messages of the list, with
\* at most a part of the next behind them, and these k have left the list.
Marshalled(f, k) ==
  /\ f.out \in Seq(Nat) /\ Len(f.out) = Len(outQueue) - k
  /\ \A j \in 1 .. Len(outQueue) - k : f.out[j] = outQueue[k + j]
  /\ f.str \in Seq(Sent) /\ Len(f.str) \in {Len(stream) + k, Len(stream) + k + 1}
  /\ \A i \in 1 .. Len(stream) : f.str[i] = stream[i]
  /\ \A i \in 1 .. k : f.str[Len(stream) + i] = [n |-> outQueue[i], whole |-> TRUE]
  /\ Len(f.str) = Len(stream) + k + 1 => ~f.str[Len(f.str)].whole
  /\ f.ok => k = Len(outQueue) /\ Len(f.str) = Len(stream) + k

LEMMA FlushMarshals ==
  ASSUME OutTypeOK, NEW f \in FlushOutcomes
  PROVE  \E k \in 0 .. Len(outQueue) : Marshalled(f, k)
<1>1. /\ outQueue \in Seq(Nat) /\ stream \in Seq(Sent) /\ Len(outQueue) \in Nat /\ Len(stream) \in Nat
      /\ DOMAIN outQueue = 1 .. Len(outQueue) /\ \A i \in 1 .. Len(outQueue) : outQueue[i] \in Nat
  BY LenProperties, ElementOfSeq, Zenon DEF OutTypeOK
<1>2. CASE f.out = <<>> /\ f.str = stream \o Whole(outQueue)
  <2> DEFINE w == Whole(outQueue)
  <2>1. /\ w \in Seq(Sent) /\ Len(w) = Len(outQueue)
        /\ \A i \in 1 .. Len(outQueue) : w[i] = [n |-> outQueue[i], whole |-> TRUE]
    BY <1>1, WholeMessages, Zenon
  <2>2. f.str = stream \o w
    BY <1>2, Zenon
  <2> HIDE DEF w
  <2>3. /\ f.str \in Seq(Sent) /\ Len(f.str) = Len(stream) + Len(outQueue)
        /\ \A i \in 1 .. Len(stream) : f.str[i] = stream[i]
        /\ \A i \in 1 .. Len(outQueue) : f.str[Len(stream) + i] = [n |-> outQueue[i], whole |-> TRUE]
    <3>1. /\ stream \o w \in Seq(Sent) /\ Len(stream \o w) = Len(stream) + Len(w)
          /\ \A i \in 1 .. Len(stream) : (stream \o w)[i] = stream[i]
          /\ \A i \in 1 .. Len(w) : (stream \o w)[Len(stream) + i] = w[i]
      <4>1. w \in Seq(Sent) /\ stream \in Seq(Sent)
        BY <1>1, <2>1, Zenon
      <4> QED  BY <4>1, Joined
    <3> QED  BY <2>1, <2>2, <3>1, Zenon
  <2>4. f.out \in Seq(Nat) /\ Len(f.out) = 0
    BY <1>2, EmptySeq, Zenon
  <2>5. Marshalled(f, Len(outQueue))
    <3>1. /\ Len(f.out) = Len(outQueue) - Len(outQueue)
          /\ \A j \in 1 .. Len(outQueue) - Len(outQueue) : f.out[j] = outQueue[Len(outQueue) + j]
      BY <1>1, <2>4
    <3>2. Len(f.str) # Len(stream) + Len(outQueue) + 1
      BY <1>1, <2>3
    <3> QED  BY <2>3, <2>4, <3>1, <3>2, Zenon DEF Marshalled
  <2> QED  BY <1>1, <2>5
<1>3. ASSUME NEW k \in DOMAIN outQueue, NEW begun \in BOOLEAN,
             f = [ok |-> FALSE, out |-> SubSeq(outQueue, k, Len(outQueue)),
                  str |-> stream \o Whole(SubSeq(outQueue, 1, k - 1)) \o Torn(k, begun)]
      PROVE  Marshalled(f, k - 1)
  <2> DEFINE first == SubSeq(outQueue, 1, k - 1)
             w == Whole(first)
             t == Torn(k, begun)
             u == stream \o w
  <2>1. k \in 1 .. Len(outQueue) /\ f.str = u \o t /\ ~f.ok
    BY <1>1, <1>3, Zenon
  <2>2. /\ first \in Seq(Nat) /\ Len(first) = k - 1 /\ \A i \in 1 .. k - 1 : first[i] = outQueue[i]
    BY <1>1, <2>1, SubSeqProperties, SMTT(30)
  <2>3. /\ f.out \in Seq(Nat) /\ Len(f.out) = Len(outQueue) - (k - 1)
        /\ \A j \in 1 .. Len(outQueue) - (k - 1) : f.out[j] = outQueue[k - 1 + j]
    <3> DEFINE rest == SubSeq(outQueue, k, Len(outQueue))
    <3>1. f.out = rest
      BY <1>3, Zenon
    <3>2. /\ rest \in Seq(Nat) /\ Len(rest) = Len(outQueue) - k + 1
          /\ \A j \in 1 .. Len(outQueue) - k + 1 : rest[j] = outQueue[k + j - 1]
      <4>1. /\ \A i \in k .. Len(outQueue) : outQueue[i] \in Nat
            /\ k \in Int /\ Len(outQueue) \in Int /\ k <= Len(outQueue)
        BY <1>1, <2>1
      <4> QED  BY <4>1, SubSeqProperties
    <3> HIDE DEF rest
    <3>3. Len(outQueue) - (k - 1) = Len(outQueue) - k + 1
      BY <1>1, <2>1
    <3>4. ASSUME NEW j \in 1 .. Len(outQueue) - (k - 1)
          PROVE  f.out[j] = outQueue[k - 1 + j]
      <4>1. k - 1 + j = k + j - 1 /\ j \in 1 .. Len(outQueue) - k + 1
        BY <1>1, <2>1
      <4> QED  BY <3>1, <3>2, <4>1, Zenon
    <3> QED  BY <3>1, <3>2, <3>3, <3>4, Zenon
  <2> HIDE DEF first
  <2>4. /\ w \in Seq(Sent) /\ Len(w) = k - 1
        /\ \A i \in 1 .. k - 1 : w[i] = [n |-> outQueue[i], whole |-> TRUE]
    BY <2>2, WholeMessages, Zenon
  <2> HIDE DEF w
  <2>5. t \in Seq(Sent) /\ Len(t) \in {0, 1} /\ (Len(t) = 1 => ~t[1].whole)
    <3>1. [n |-> outQueue[k], whole |-> FALSE] \in Sent
      BY <1>1, <2>1, Zenon DEF Sent
    <3> QED  BY <3>1 DEF Torn
  <2> HIDE DEF t
  <2>6. /\ u \in Seq(Sent) /\ Len(u) = Len(stream) + (k - 1)
        /\ \A i \in 1 .. Len(stream) : u[i] = stream[i]
        /\ \A i \in 1 .. k - 1 : u[Len(stream) + i] = [n |-> outQueue[i], whole |-> TRUE]
    <3>1. /\ stream \o w \in Seq(Sent) /\ Len(stream \o w) = Len(stream) + Len(w)
          /\ \A i \in 1 .. Len(stream) : (stream \o w)[i] = stream[i]
          /\ \A i \in 1 .. Len(w) : (stream \o w)[Len(stream) + i] = w[i]
      BY <1>1, <2>4, Joined, SMTT(30)
    <3> HIDE DEF u
    <3> QED  BY <2>4, <3>1, Zenon DEF u
  <2> HIDE DEF u
  <2>7. /\ f.str \in Seq(Sent) /\ Len(f.str) = Len(u) + Len(t)
        /\ \A i \in 1 .. Len(u) : f.str[i] = u[i]
        /\ \A i \in 1 .. Len(t) : f.str[Len(u) + i] = t[i]
    <3>1. u \in Seq(Sent) /\ t \in Seq(Sent)
      BY <2>5, <2>6, Zenon
    <3>2. /\ u \o t \in Seq(Sent) /\ Len(u \o t) = Len(u) + Len(t)
          /\ \A i \in 1 .. Len(u) : (u \o t)[i] = u[i]
          /\ \A i \in 1 .. Len(t) : (u \o t)[Len(u) + i] = t[i]
      BY <3>1, Joined
    <3>3. f.str = u \o t
      BY <2>1, Zenon
    <3> QED  BY <3>2, <3>3, Zenon
  <2>8. \A i \in 1 .. Len(stream) : i \in 1 .. Len(u)
    BY <1>1, <2>1, <2>6
  <2>9. \A i \in 1 .. k - 1 : Len(stream) + i \in 1 .. Len(u)
    BY <1>1, <2>1, <2>6, SMTT(30)
  <2>10. Len(t) = 1 => ~f.str[Len(f.str)].whole
    BY <2>5, <2>7
  <2>11. Len(f.str) = Len(stream) + (k - 1) + Len(t)
    BY <2>6, <2>7, Zenon
  <2>12. /\ \A i \in 1 .. Len(stream) : f.str[i] = stream[i]
         /\ \A i \in 1 .. k - 1 : f.str[Len(stream) + i] = [n |-> outQueue[i], whole |-> TRUE]
    BY <2>6, <2>7, <2>8, <2>9, Zenon
  <2>13. /\ Len(f.str) \in {Len(stream) + (k - 1), Len(stream) + (k - 1) + 1}
         /\ Len(f.str) = Len(stream) + (k - 1) + 1 => ~f.str[Len(f.str)].whole
    <3> DEFINE marshalled == Len(stream) + (k - 1)
    <3>1. marshalled \in Nat /\ Len(f.str) = marshalled + Len(t)
      BY <1>1, <2>1, <2>11, SMTT(30)
    <3> HIDE DEF marshalled
    <3>2. Len(f.str) \in {marshalled, marshalled + 1} /\ (Len(f.str) = marshalled + 1 => Len(t) = 1)
      <4>1. CASE Len(t) = 0
        BY <3>1, <4>1
      <4>2. CASE Len(t) = 1
        BY <3>1, <4>2, ZenonT(30)
      <4> QED  BY <2>5, <4>1, <4>2, Zenon
    <3> QED  BY <2>10, <3>2, Zenon DEF marshalled
  <2> QED  BY <2>1, <2>3, <2>7, <2>12, <2>13, Zenon DEF Marshalled
<1>4. \/ f.out = <<>> /\ f.str = stream \o Whole(outQueue)
      \/ \E k \in DOMAIN outQueue, begun \in BOOLEAN :
           f = [ok |-> FALSE, out |-> SubSeq(outQueue, k, Len(outQueue)),
                str |-> stream \o Whole(SubSeq(outQueue, 1, k - 1)) \o Torn(k, begun)]
  <2> DEFINE done(ok) == [ok |-> ok, out |-> <<>>, str |-> stream \o Whole(outQueue)]
             torn(k, begun) == [ok |-> FALSE, out |-> SubSeq(outQueue, k, Len(outQueue)),
                                str |-> stream \o Whole(SubSeq(outQueue, 1, k - 1)) \o Torn(k, begun)]
  <2>1. \A ok : done(ok).out = <<>> /\ done(ok).str = stream \o Whole(outQueue)
    BY Zenon
  <2> DEFINE allTorn == {torn(k, begun) : k \in DOMAIN outQueue, begun \in BOOLEAN}
  <2>2. FlushOutcomes = {done(TRUE), done(FALSE)} \cup allTorn
    BY DEF FlushOutcomes
  <2> HIDE DEF done, torn
  <2>3. ASSUME f \in allTorn
        PROVE  \E k \in DOMAIN outQueue, begun \in BOOLEAN : f = torn(k, begun)
    BY <2>3, SMT
  <2> HIDE DEF allTorn
  <2>4. f = done(TRUE) \/ f = done(FALSE) \/ f \in allTorn
    BY <2>2, Zenon
  <2>5. f \notin allTorn => f.out = <<>> /\ f.str = stream \o Whole(outQueue)
    BY <2>1, <2>4, Zenon
  <2>6. f \in allTorn =>
          \E k \in DOMAIN outQueue, begun \in BOOLEAN :
            f = [ok |-> FALSE, out |-> SubSeq(outQueue, k, Len(outQueue)),
                 str |-> stream \o Whole(SubSeq(outQueue, 1, k - 1)) \o Torn(k, begun)]
    BY <2>3, Zenon DEF torn
  <2> QED  BY <2>5, <2>6, SMTT(30)
<1>5. \A k \in DOMAIN outQueue : k - 1 \in 0 .. Len(outQueue)
  BY <1>1
<1> QED  BY <1>2, <1>3, <1>4, <1>5, Zenon
(* A whole message of the stream after a Flush was in it before, or was    *)
(* one of the k first of the list.                                         *)
LEMMA WholePlaces ==
  ASSUME OutTypeOK, NEW f, NEW k \in 0 .. Len(outQueue), Marshalled(f, k),
         NEW i \in DOMAIN f.str, f.str[i].whole
  PROVE  \/ i \in DOMAIN stream /\ f.str[i] = stream[i]
         \/ /\ i - Len(stream) \in 1 .. k /\ i > Len(stream)
            /\ f.str[i].n = outQueue[i - Len(stream)]
<1>1. /\ Len(outQueue) \in Nat /\ Len(stream) \in Nat /\ DOMAIN stream = 1 .. Len(stream)
  BY LenProperties, Zenon DEF OutTypeOK
<1>2. /\ Len(f.str) \in {Len(stream) + k, Len(stream) + k + 1} /\ DOMAIN f.str = 1 .. Len(f.str)
      /\ Len(f.str) = Len(stream) + k + 1 => ~f.str[Len(f.str)].whole
  BY LenProperties, Zenon DEF Marshalled
<1>3. i \in 1 .. Len(stream) + k
  BY <1>1, <1>2
<1>4. CASE i <= Len(stream)
  <2>1. i \in 1 .. Len(stream)
    BY <1>1, <1>3, <1>4
  <2> QED  BY <1>1, <2>1, Zenon DEF Marshalled
<1>5. CASE ~(i <= Len(stream))
  <2>1. i - Len(stream) \in 1 .. k /\ Len(stream) + (i - Len(stream)) = i /\ i > Len(stream)
    BY <1>1, <1>3, <1>5, SMTT(30)
  <2>2. f.str[i] = [n |-> outQueue[i - Len(stream)], whole |-> TRUE]
    BY <2>1, SMTT(30) DEF Marshalled
  <2> QED  BY <2>1, <2>2
<1> QED  BY <1>4, <1>5, Zenon

(* After a Flush the stream is in order, before all that is left.          *)
LEMMA FlushKeepsOrder ==
  ASSUME OutInv, NEW f, NEW k \in 0 .. Len(outQueue), Marshalled(f, k)
  PROVE  /\ \A i \in DOMAIN f.str : f.str[i].whole => f.str[i].n <= pushed
         /\ \A i \in DOMAIN f.str, j \in DOMAIN f.out : f.str[i].whole => f.str[i].n < f.out[j]
         /\ \A i, j \in DOMAIN f.str :
              i < j /\ f.str[i].whole /\ f.str[j].whole => f.str[i].n < f.str[j].n
         /\ \A i, j \in DOMAIN f.out : i < j => f.out[i] < f.out[j]
         /\ \A j \in DOMAIN f.out : f.out[j] <= pushed
<1>1. /\ OutTypeOK /\ Queued /\ Len(outQueue) \in Nat /\ DOMAIN outQueue = 1 .. Len(outQueue)
      /\ Len(stream) \in Nat /\ DOMAIN stream = 1 .. Len(stream)
  BY LenProperties, Zenon DEF OutInv, OutTypeOK
<1>2. \A j \in DOMAIN f.out : k + j \in DOMAIN outQueue /\ f.out[j] = outQueue[k + j]
  <2>1. DOMAIN f.out = 1 .. Len(outQueue) - k
    BY LenProperties, Zenon DEF Marshalled
  <2>2. \A j \in 1 .. Len(outQueue) - k : k + j \in 1 .. Len(outQueue)
    BY <1>1
  <2> QED  BY <1>1, <2>1, <2>2, ZenonT(30) DEF Marshalled
<1>3. \A j \in DOMAIN f.out : j \in Nat \ {0}
  BY LenProperties, SMTT(30) DEF Marshalled
<1>4. \A i \in 1 .. k : i \in DOMAIN outQueue
  BY <1>1
<1>5. ASSUME NEW i \in DOMAIN f.str, f.str[i].whole
      PROVE  /\ f.str[i].n <= pushed
             /\ \A j \in DOMAIN f.out : f.str[i].n < f.out[j]
  <2>1. CASE i \in DOMAIN stream /\ f.str[i] = stream[i]
    BY <1>1, <1>2, <1>5, <2>1, Zenon DEF Queued
  <2>2. CASE i - Len(stream) \in 1 .. k /\ f.str[i].n = outQueue[i - Len(stream)]
    <3>1. \A j \in DOMAIN f.out : i - Len(stream) < k + j
      BY <1>3, <2>2
    <3> QED  BY <1>1, <1>2, <1>4, <2>2, <3>1, Zenon DEF Queued
  <2> QED  BY <1>1, <1>5, <2>1, <2>2, WholePlaces, Zenon
<1>6. ASSUME NEW i \in DOMAIN f.str, NEW j \in DOMAIN f.str, i < j, f.str[i].whole, f.str[j].whole
      PROVE  f.str[i].n < f.str[j].n
  <2> DEFINE old(x) == x \in DOMAIN stream /\ f.str[x] = stream[x]
             new(x) == /\ x - Len(stream) \in 1 .. k /\ x > Len(stream)
                       /\ f.str[x].n = outQueue[x - Len(stream)]
  <2>1. (old(i) \/ new(i)) /\ (old(j) \/ new(j))
    BY <1>1, <1>6, WholePlaces, Zenon
  <2>2. i \in Int /\ j \in Int
    <3>1. f.str \in Seq(Sent)
      BY Zenon DEF Marshalled
    <3>2. DOMAIN f.str = 1 .. Len(f.str)
      BY <3>1, LenProperties, Zenon
    <3> QED  BY <3>2
  <2>3. CASE old(i) /\ old(j)
    BY <1>1, <1>6, <2>3, Zenon DEF Queued
  <2>4. CASE old(i) /\ new(j)
    BY <1>1, <1>4, <1>6, <2>4, Zenon DEF Queued
  <2>5. CASE new(i) /\ new(j)
    <3>1. i - Len(stream) < j - Len(stream)
      BY <1>1, <1>6, <2>2
    <3> QED  BY <1>1, <1>4, <2>5, <3>1, Zenon DEF Queued
  <2>6. CASE new(i) /\ old(j)
    <3>1. j <= Len(stream) /\ i > Len(stream)
      BY <1>1, <2>6
    <3> QED  BY <1>1, <1>6, <2>2, <3>1
  <2> QED  BY <2>1, <2>3, <2>4, <2>5, <2>6, Zenon
<1>7. \A i, j \in DOMAIN f.out : i < j => f.out[i] < f.out[j]
  <2>1. \A i, j \in DOMAIN f.out : i < j => k + i < k + j
    BY <1>3
  <2> QED  BY <1>1, <1>2, <2>1, Zenon DEF Queued
<1>8. \A j \in DOMAIN f.out : f.out[j] <= pushed
  BY <1>1, <1>2, Zenon DEF Queued
<1> QED  BY <1>5, <1>6, <1>7, <1>8, Zenon

(* A Flush that succeeds leaves all that was pushed in the stream.        *)
LEMMA FlushCompletes ==
  ASSUME OutInv, NEW f, NEW k \in 0 .. Len(outQueue), Marshalled(f, k), failed = 0, f.ok
  PROVE  /\ Len(f.str) = pushed /\ Len(f.out) = 0 /\ DOMAIN f.out = {}
         /\ \A i \in DOMAIN f.str : f.str[i] = [n |-> i, whole |-> TRUE]
<1>1. /\ Len(outQueue) \in Nat /\ Len(stream) \in Nat /\ Len(stream) + Len(outQueue) = pushed
      /\ DOMAIN stream = 1 .. Len(stream) /\ DOMAIN outQueue = 1 .. Len(outQueue)
  BY LenProperties, Zenon DEF OutInv, OutTypeOK, Complete
<1>2. /\ k = Len(outQueue) /\ Len(f.str) = Len(stream) + Len(outQueue) /\ Len(f.out) = 0
      /\ DOMAIN f.str = 1 .. Len(stream) + Len(outQueue) /\ DOMAIN f.out = {}
  <2>1. /\ k = Len(outQueue) /\ Len(f.str) = Len(stream) + k /\ Len(f.out) = Len(outQueue) - k
        /\ f.str \in Seq(Sent) /\ f.out \in Seq(Nat)
    BY Zenon DEF Marshalled
  <2>2. Len(f.str) = Len(stream) + Len(outQueue) /\ Len(f.out) = 0
    BY <1>1, <2>1
  <2>3. DOMAIN f.str = 1 .. Len(f.str) /\ DOMAIN f.out = 1 .. Len(f.out)
    BY <2>1, LenProperties, Zenon
  <2> QED  BY <2>1, <2>2, <2>3
<1>3. ASSUME NEW i \in DOMAIN f.str
      PROVE  f.str[i] = [n |-> i, whole |-> TRUE]
  <2>1. CASE i <= Len(stream)
    <3>1. i \in 1 .. Len(stream)
      BY <1>1, <1>2, <2>1
    <3> QED  BY <1>1, <3>1, Zenon DEF Marshalled, OutInv, Complete
  <2>2. CASE ~(i <= Len(stream))
    <3>1. i - Len(stream) \in 1 .. Len(outQueue) /\ Len(stream) + (i - Len(stream)) = i
      BY <1>1, <1>2, <2>2
    <3>2. f.str[i] = [n |-> outQueue[i - Len(stream)], whole |-> TRUE]
      BY <1>2, <3>1, Zenon DEF Marshalled
    <3>3. outQueue[i - Len(stream)] = i
      BY <1>1, <3>1, Zenon DEF OutInv, Complete
    <3> QED  BY <3>2, <3>3, Zenon
  <2> QED  BY <2>1, <2>2, Zenon
<1> QED  BY <1>1, <1>2, <1>3, Zenon

LEMMA FlushKeeps ==
  ASSUME OutInv, Flush
  PROVE  OutInv'
<1>1. PICK f \in FlushOutcomes : FlushDone(f) /\ outQueue' = f.out
  BY Zenon DEF Flush
<1>2. PICK k \in 0 .. Len(outQueue) : Marshalled(f, k)
  BY FlushMarshals, Zenon DEF OutInv
<1>3. /\ stream' = f.str /\ outQueue' = f.out /\ pushed' = pushed /\ pushed \in Nat /\ failed' \in Nat
      /\ failed' = 0 => failed = 0 /\ f.ok
  BY <1>1 DEF Flush, FlushDone, OutInv, OutTypeOK
<1>4. OutTypeOK'
  BY <1>2, <1>3, Zenon DEF Marshalled, OutTypeOK
<1>5. Queued'
  BY <1>2, <1>3, FlushKeepsOrder, Zenon DEF Queued
<1>6. Complete'
  <2> SUFFICES ASSUME failed = 0, f.ok
               PROVE  /\ Len(f.str) + Len(f.out) = pushed
                      /\ \A i \in DOMAIN f.str : f.str[i] = [n |-> i, whole |-> TRUE]
                      /\ DOMAIN f.out = {}
    BY <1>3, Zenon DEF Complete
  <2>1. /\ Len(f.str) = pushed /\ Len(f.out) = 0 /\ DOMAIN f.out = {}
        /\ \A i \in DOMAIN f.str : f.str[i] = [n |-> i, whole |-> TRUE]
    BY <1>2, FlushCompletes, Zenon
  <2> QED  BY <1>3, <2>1
<1> QED  BY <1>4, <1>5, <1>6, Zenon DEF OutInv
LEMMA PushKeeps ==
  ASSUME OutInv, Push
  PROVE  OutInv'
<1>1. /\ OutTypeOK /\ Queued /\ Complete /\ outQueue \in Seq(Nat) /\ stream \in Seq(Sent)
      /\ pushed \in Nat /\ pushed' = pushed + 1
      /\ Len(outQueue) \in Nat /\ DOMAIN outQueue = 1 .. Len(outQueue)
      /\ Len(stream) \in Nat /\ DOMAIN stream = 1 .. Len(stream)
  BY LenProperties, Zenon DEF OutInv, OutTypeOK, Push
<1>2. \A j \in DOMAIN outQueue : outQueue[j] \in Nat
  BY <1>1, ElementOfSeq, Zenon
<1>3. \A i \in DOMAIN stream : stream[i].n \in Nat
  <2>1. \A i \in DOMAIN stream : stream[i] \in Sent
    BY <1>1, ElementOfSeq, Zenon
  <2> QED  BY <2>1, Zenon DEF Sent
<1>4. CASE outQueue' = Append(outQueue, pushed') /\ UNCHANGED <<stream, failed>>
  <2>1. /\ outQueue' \in Seq(Nat) /\ Len(outQueue') = Len(outQueue) + 1
        /\ \A i \in 1 .. Len(outQueue) : outQueue'[i] = outQueue[i]
        /\ outQueue'[Len(outQueue) + 1] = pushed + 1
    BY <1>1, <1>4, AppendProperties
  <2>2. DOMAIN outQueue' = 1 .. Len(outQueue) + 1
    BY <2>1, LenProperties, Zenon
  <2>3. \A j \in DOMAIN outQueue' :
          \/ j \in DOMAIN outQueue /\ outQueue'[j] = outQueue[j]
          \/ j = Len(outQueue) + 1 /\ outQueue'[j] = pushed + 1
    BY <1>1, <2>1, <2>2, SMTT(30)
  <2>4. OutTypeOK'
    BY <1>1, <1>4, <2>1 DEF OutTypeOK
  <2>5. Queued'
    <3>1. ASSUME NEW i \in DOMAIN outQueue', NEW j \in DOMAIN outQueue', i < j
          PROVE  outQueue'[i] < outQueue'[j]
      <4>1. i \in DOMAIN outQueue /\ outQueue'[i] = outQueue[i]
        BY <1>1, <2>1, <2>2, <3>1, SMTT(30)
      <4>2. CASE j \in DOMAIN outQueue /\ outQueue'[j] = outQueue[j]
        BY <1>1, <3>1, <4>1, <4>2, ZenonT(30) DEF Queued
      <4>3. CASE outQueue'[j] = pushed + 1
        BY <1>1, <1>2, <4>1, <4>3, SMTT(30) DEF Queued
      <4> QED  BY <2>3, <4>2, <4>3, Zenon
    <3>2. \A j \in DOMAIN outQueue' : outQueue'[j] <= pushed'
      BY <1>1, <1>2, <2>3, SMTT(30) DEF Queued
    <3>3. /\ stream' = stream
          /\ \A i \in DOMAIN stream : stream[i].whole => stream[i].n <= pushed + 1 /\ stream[i].n < pushed + 1
      BY <1>1, <1>3, <1>4 DEF Queued
    <3>4. \A i \in DOMAIN stream, j \in DOMAIN outQueue' : stream[i].whole => stream[i].n < outQueue'[j]
      BY <1>1, <2>3, <3>3, ZenonT(30) DEF Queued
    <3> QED  BY <1>1, <3>1, <3>2, <3>3, <3>4, Zenon DEF Queued
  <2>6. Complete'
    BY <1>1, <1>4, <2>1, <2>3, SMTT(30) DEF Complete
  <2> QED  BY <2>4, <2>5, <2>6, ZenonT(30) DEF OutInv
<1>5. CASE \E f \in FlushOutcomes : FlushDone(f) /\ outQueue' = <<pushed'>>
  <2>1. PICK f \in FlushOutcomes : FlushDone(f) /\ outQueue' = <<pushed'>>
    BY <1>5, Zenon
  <2>2. PICK k \in 0 .. Len(outQueue) : Marshalled(f, k)
    BY <1>1, FlushMarshals, ZenonT(30)
  <2>3. /\ stream' = f.str /\ failed' \in Nat /\ (failed' = 0 => failed = 0 /\ f.ok)
    BY <1>1, <2>1, SMTT(30) DEF FlushDone, OutTypeOK
  <2>4. /\ outQueue' \in Seq(Nat) /\ Len(outQueue') = 1 /\ DOMAIN outQueue' = {1} /\ outQueue'[1] = pushed + 1
    BY <1>1, <2>1
  <2>5. f.str \in Seq(Sent) /\ DOMAIN f.str = 1 .. Len(f.str) /\ Len(f.str) \in Nat
    BY <2>2, LenProperties, Zenon DEF Marshalled
  <2>6. OutTypeOK'
    BY <1>1, <2>3, <2>4, <2>5 DEF OutTypeOK
  <2>7. /\ \A i \in DOMAIN f.str : f.str[i].whole => f.str[i].n <= pushed
        /\ \A i, j \in DOMAIN f.str : i < j /\ f.str[i].whole /\ f.str[j].whole => f.str[i].n < f.str[j].n
    BY <2>2, FlushKeepsOrder, Zenon
  <2>8. \A i \in DOMAIN f.str : f.str[i].n \in Nat
    <3>1. \A i \in DOMAIN f.str : f.str[i] \in Sent
      BY <2>5, ElementOfSeq, Zenon
    <3> QED  BY <3>1, Zenon DEF Sent
  <2>9. \A i \in DOMAIN f.str : f.str[i].whole => f.str[i].n <= pushed + 1 /\ f.str[i].n < pushed + 1
    BY <1>1, <2>7, <2>8, SMTT(30)
  <2>10. Queued'
    BY <1>1, <2>3, <2>4, <2>7, <2>9, SMTT(30) DEF Queued
  <2>11. Complete'
    <3> SUFFICES ASSUME failed = 0, f.ok
                 PROVE  /\ Len(f.str) = pushed
                        /\ \A i \in DOMAIN f.str : f.str[i] = [n |-> i, whole |-> TRUE]
      BY <1>1, <2>3, <2>4, SMTT(30) DEF Complete
    <3> QED  BY <2>2, FlushCompletes, ZenonT(30)
  <2> QED  BY <2>6, <2>10, <2>11, Zenon DEF OutInv
<1> QED  BY <1>4, <1>5, Zenon DEF Push

(* Of every message that is pushed the marshaller is given one whole copy  *)
(* at most, in the order of the pushes; without a failed Flush exactly one *)
(* of each, for any limit of the list.                                     *)
THEOREM SentOnceInOrderAlways == StreamerSpec => []SentOnceInOrder
<1>1. StreamerInit => OutInv
  <2>1. <<>> \in Seq(Nat) /\ <<>> \in Seq(Sent) /\ DOMAIN <<>> = {} /\ Len(<<>>) = 0
    BY EmptySeq
  <2> QED  BY <2>1 DEF StreamerInit, OutInv, OutTypeOK, Queued, Complete
<1>2. OutInv /\ [StreamerNext]_streamerVars => OutInv'
  <2> SUFFICES ASSUME OutInv, [StreamerNext]_streamerVars
               PROVE  OutInv'
    BY Zenon
  <2>1. CASE UNCHANGED outVars
    BY <2>1, Zenon DEF outVars, OutInv, OutTypeOK, Queued, Complete
  <2>2. Push \/ Flush \/ UNCHANGED outVars
    BY Zenon DEF StreamerNext, streamerVars, outVars, Begin, PullFails, EndChecked, EndUnchecked, PullParked, PullReads,
           ReadExpected, ReadParked, ReadDropped, ReadOverflow
  <2> QED  BY <2>1, <2>2, PushKeeps, FlushKeeps, Zenon
<1>3. OutInv => SentOnceInOrder
  <2> SUFFICES ASSUME OutInv
               PROVE  failed = 0 => stream \o Whole(outQueue) = Whole([i \in 1..pushed |-> i])
    BY Zenon DEF OutInv, Queued, SentOnceInOrder
  <2> SUFFICES ASSUME failed = 0
               PROVE  stream \o Whole(outQueue) = Whole([i \in 1..pushed |-> i])
    BY Zenon
  <2> DEFINE w == Whole(outQueue)
             all == [i \in 1..pushed |-> i]
  <2>1. /\ outQueue \in Seq(Nat) /\ stream \in Seq(Sent) /\ pushed \in Nat /\ Complete
        /\ Len(outQueue) \in Nat /\ Len(stream) \in Nat
        /\ DOMAIN stream = 1 .. Len(stream) /\ DOMAIN outQueue = 1 .. Len(outQueue)
    BY LenProperties, Zenon DEF OutInv, OutTypeOK
  <2>2. /\ w \in Seq(Sent) /\ Len(w) = Len(outQueue)
        /\ \A i \in 1 .. Len(outQueue) : w[i] = [n |-> Len(stream) + i, whole |-> TRUE]
    BY <2>1, WholeMessages, Zenon DEF Complete
  <2>3. all \in Seq(Nat) /\ Len(all) = pushed /\ \A i \in 1 .. pushed : all[i] = i
    BY <2>1, IsASeq, SMTT(30)
  <2> HIDE DEF w, all
  <2>4. /\ Whole(all) \in Seq(Sent) /\ Len(Whole(all)) = pushed
        /\ \A i \in 1 .. pushed : Whole(all)[i] = [n |-> i, whole |-> TRUE]
    BY <2>3, WholeMessages, SMTT(30)
  <2>5. /\ stream \o w \in Seq(Sent) /\ Len(stream \o w) = Len(stream) + Len(w)
        /\ \A i \in 1 .. Len(stream) : (stream \o w)[i] = stream[i]
        /\ \A i \in 1 .. Len(w) : (stream \o w)[Len(stream) + i] = w[i]
    <3>1. w \in Seq(Sent) /\ stream \in Seq(Sent)
      BY <2>1, <2>2, Zenon
    <3> QED  BY <3>1, Joined
  <2>6. Len(stream \o w) = pushed
    BY <2>1, <2>2, <2>5, Zenon DEF Complete
  <2>7. ASSUME NEW i \in 1 .. pushed
        PROVE  (stream \o w)[i] = Whole(all)[i]
    <3>1. Len(stream) + Len(outQueue) = pushed
      BY <2>1, Zenon DEF Complete
    <3>2. CASE i <= Len(stream)
      <4>1. i \in 1 .. Len(stream)
        BY <2>1, <3>2
      <4>2. (stream \o w)[i] = [n |-> i, whole |-> TRUE]
        BY <2>1, <2>5, <4>1, Zenon DEF Complete
      <4> QED  BY <2>4, <4>2, Zenon
    <3>3. CASE ~(i <= Len(stream))
      <4>1. i - Len(stream) \in 1 .. Len(outQueue) /\ Len(stream) + (i - Len(stream)) = i
        BY <2>1, <3>1, <3>3, SMTT(30)
      <4>2. (stream \o w)[i] = w[i - Len(stream)]
        BY <2>2, <2>5, <4>1, Zenon
      <4>3. w[i - Len(stream)] = [n |-> i, whole |-> TRUE]
        BY <2>2, <4>1, Zenon
      <4> QED  BY <2>4, <4>2, <4>3, ZenonT(30)
    <3> QED  BY <3>2, <3>3, Zenon
  <2>8. stream \o w = Whole(all)
    BY <2>4, <2>5, <2>6, <2>7, SeqEqual, Zenon
  <2> QED  BY <2>8, Zenon DEF w, all
<1> QED  BY <1>1, <1>2, <1>3, PTL DEF StreamerSpec

(* Until an event has told the connection that it is invalid, every        *)
(* message that was read has been returned or consumed once or is parked:  *)
(* Pull takes one message at a time out of the list, and what it cannot    *)
(* keep, or what is left when a call is checked, is reported.              *)
THEOREM LossIsReportedAlways == StreamerSpec => []LossIsReported
<1> DEFINE LossInv == taken \in Nat /\ LossIsReported
<1>1. StreamerInit => LossInv
  BY EmptySeq DEF StreamerInit, LossIsReported
<1>2. InInv /\ LossInv /\ [StreamerNext]_streamerVars => LossInv'
  <2> SUFFICES ASSUME InInv, LossInv, [StreamerNext]_streamerVars
               PROVE  LossInv'
    BY Zenon
  <2>1. incoming \in Seq(Messages) /\ Len(incoming) \in Nat /\ arrived \in Nat /\ taken \in Nat
    BY LenProperties, Zenon DEF InInv, InTypeOK
  <2>2. CASE UNCHANGED <<incoming, taken, arrived, invalidated>>
    BY <2>2, Zenon DEF LossIsReported
  <2>3. ASSUME NEW ts \in PullSets, PullParked(ts)
        PROVE  LossInv'
    <3>1. PICK i \in DOMAIN incoming :
            incoming' = SubSeq(incoming, 1, i - 1) \o SubSeq(incoming, i + 1, Len(incoming))
      BY <2>3, Zenon DEF PullParked, Positions
    <3>2. Len(incoming') = Len(incoming) - 1
      BY <2>1, <3>1, RemovedAt, ZenonT(30)
    <3>3. taken' = taken + 1 /\ UNCHANGED <<arrived, invalidated>>
      BY <2>3, Zenon DEF PullParked, evtVars
    <3> QED  BY <2>1, <3>2, <3>3 DEF LossIsReported
  <2>4. CASE /\ UNCHANGED <<incoming, invalidated>>
             /\ taken' = taken + 1 /\ arrived' = arrived + 1
    BY <2>1, <2>4 DEF LossIsReported
  <2>5. ASSUME NEW t \in MessageTypes, NEW fault \in BOOLEAN, NEW drained \in BOOLEAN,
               ReadParked(t, fault, drained)
        PROVE  LossInv'
    <3>1. Len(incoming') = Len(incoming) + 1
      BY <2>1, <2>5 DEF ReadParked
    <3>2. UNCHANGED <<taken, invalidated>> /\ arrived' = arrived + 1
      BY <2>5, Zenon DEF ReadParked, Arrival
    <3> QED  BY <2>1, <3>1, <3>2 DEF LossIsReported
  <2>6. CASE invalidated' /\ taken' = taken
    BY <2>1, <2>6, Zenon DEF LossIsReported
  <2>7. CASE EndChecked
    BY <2>2, <2>6, <2>7, Zenon DEF EndChecked, evtVars
  <2>8. CASE Push \/ Flush \/ PullFails \/ EndUnchecked \/ \E b \in BOOLEAN : Begin(b)
    BY <2>2, <2>8, Zenon DEF Push, Flush, PullFails, EndUnchecked, Begin, evtVars
  <2>9. ASSUME NEW ts \in PullSets, PullReads(ts)
        PROVE  LossInv'
    BY <2>2, <2>9, Zenon DEF PullReads, evtVars
  <2>10. ASSUME NEW t \in MessageTypes, NEW fault \in BOOLEAN, NEW drained \in BOOLEAN,
                ReadExpected(t, fault, drained)
         PROVE  LossInv'
    BY <2>4, <2>10, Zenon DEF ReadExpected, Arrival
  <2>11. ASSUME NEW t \in MessageTypes, ReadDropped(t)
         PROVE  LossInv'
    BY <2>4, <2>11, Zenon DEF ReadDropped, Arrival, evtVars
  <2>12. ASSUME NEW t \in MessageTypes, ReadOverflow(t)
         PROVE  LossInv'
    BY <2>6, <2>12, Zenon DEF ReadOverflow
  <2>13. CASE UNCHANGED streamerVars
    BY <2>2, <2>13, Zenon DEF streamerVars
  <2> QED  BY <2>3, <2>5, <2>7, <2>8, <2>9, <2>10, <2>11, <2>12, <2>13, SMTT(30) DEF StreamerNext
<1> HIDE DEF LossInv
<1>3. LossInv => LossIsReported
  BY Zenon DEF LossInv
<1> QED  BY <1>1, <1>2, <1>3, IncomingInvariant, PTL DEF StreamerSpec

-----------------------------------------------------------------------------
(* The scalars of the messages: what TLC checks at the edges of a small    *)
(* width is proved for the 32 and 64 bits of the code.                     *)

LEMMA SignMaskType == SignMask \in Nat /\ SignMask > 0
  BY OracleScalarsAssumption

\* DecodeBinaryFloat and DecodeBinaryDouble undo their encoders for every bit
\* pattern, signed zeros, infinities and NaNs included.
THEOREM BinaryRoundTrip ==
  \A bits \in BitPatterns : DecodeBinary(EncodeBinary(bits)) = bits
<1> SUFFICES ASSUME NEW bits \in BitPatterns
             PROVE  DecodeBinary(EncodeBinary(bits)) = bits
    BY Zenon
<1> USE SignMaskType
<1>1. CASE Signbit(bits)
      BY <1>1 DEF BitPatterns, Signbit, EncodeBinary, DecodeBinary
<1>2. CASE ~Signbit(bits)
      BY <1>2 DEF BitPatterns, Signbit, EncodeBinary, DecodeBinary
<1> QED BY <1>1, <1>2, Zenon

\* EncodeBinaryFloat: the encoded numbers are ordered as the values are, which
\* is what the comment on the sortable transform claims.
THEOREM BinaryOrder ==
  \A a, b \in BitPatterns : BinaryLess(a, b) <=> EncodeBinary(a) < EncodeBinary(b)
<1> SUFFICES ASSUME NEW a \in BitPatterns, NEW b \in BitPatterns
             PROVE  BinaryLess(a, b) <=> EncodeBinary(a) < EncodeBinary(b)
    BY Zenon
<1> USE SignMaskType
<1>1. CASE Signbit(a) /\ Signbit(b)
      BY <1>1 DEF BitPatterns, Signbit, EncodeBinary, BinaryLess
<1>2. CASE Signbit(a) /\ ~Signbit(b)
      BY <1>2 DEF BitPatterns, Signbit, EncodeBinary, BinaryLess
<1>3. CASE ~Signbit(a) /\ Signbit(b)
      BY <1>3 DEF BitPatterns, Signbit, EncodeBinary, BinaryLess
<1>4. CASE ~Signbit(a) /\ ~Signbit(b)
      BY <1>4 DEF BitPatterns, Signbit, EncodeBinary, BinaryLess
<1> QED BY <1>1, <1>2, <1>3, <1>4, Zenon

----------------------------------------------------------------------------

\* The intervals EncodeIntervalYearToMonth accepts, in canonical form.
YearToMonths ==
  {v \in [neg : BOOLEAN, years : 0..(YearLimit - 1), months : 0..11] :
     v.neg => v.years # 0 \/ v.months # 0}

\* An interval that is encoded with its sign on both components is decoded as
\* itself, also when only the months carry the sign ("-00-05").
THEOREM YearToMonthRoundTrip ==
  \A v \in YearToMonths :
    /\ EncodeYearToMonth(v).ok
    /\ DecodeYearToMonth(EncodeYearToMonth(v).val) = Valid(v)
<1> SUFFICES ASSUME NEW v \in YearToMonths
             PROVE  /\ EncodeYearToMonth(v).ok
                    /\ DecodeYearToMonth(EncodeYearToMonth(v).val) = Valid(v)
    BY Zenon
<1> DEFINE y == v.years
           m == v.months
<1>1. /\ v = [neg |-> v.neg, years |-> y, months |-> m]
      /\ v.neg \in BOOLEAN /\ y \in Nat /\ y < YearLimit /\ m \in 0..11
      /\ v.neg => y # 0 \/ m # 0
      BY OracleScalarsAssumption DEF YearToMonths
<1>2. YearLimit \in Nat /\ SignMask \in Nat
      BY OracleScalarsAssumption
<1>3. EncodeYearToMonth(v) = Valid(<<Biased(Signed(v.neg, y)), 60 + Signed(v.neg, m)>>)
      BY <1>1, <1>2, SMTT(30) DEF EncodeYearToMonth
<1> DEFINE bytes == <<Biased(Signed(v.neg, y)), 60 + Signed(v.neg, m)>>
<1>4. EncodeYearToMonth(v).ok /\ EncodeYearToMonth(v).val = bytes
      BY <1>3 DEF Valid
<1> DEFINE months == bytes[2] - 60
           total == 12 * Unbiased(bytes[1]) + months
<1>5. months = Signed(v.neg, m) /\ total = Signed(v.neg, 12 * y + m)
      <2>1. CASE v.neg BY <2>1, <1>1, <1>2, SMTT(30) DEF Biased, Unbiased, Signed
      <2>2. CASE ~v.neg BY <2>2, <1>1, <1>2 DEF Biased, Unbiased, Signed
      <2> QED BY <2>1, <2>2, <1>1, ZenonT(30)
<1>6. months \in -11..11 /\ Abs(total) = 12 * y + m /\ (total < 0 <=> v.neg)
      <2> HIDE DEF months, total, y, m
      <2>1. y \in Nat /\ m \in 0..11 /\ (v.neg => y # 0 \/ m # 0)
            BY <1>1, Zenon
      <2>2. CASE v.neg
            <3>1. months = -m /\ total = -(12 * y + m)
                  BY <2>2, <1>5, Zenon DEF Signed
            <3>2. 12 * y + m > 0
                  BY <2>1, <2>2
            <3> QED BY <2>1, <2>2, <3>1, <3>2 DEF Abs
      <2>3. CASE ~v.neg
            <3>1. months = m /\ total = 12 * y + m
                  BY <2>3, <1>5, Zenon DEF Signed
            <3> QED BY <2>1, <2>3, <3>1 DEF Abs
      <2> QED BY <2>2, <2>3, Zenon
<1>7. (12 * y + m) \div 12 = y /\ (12 * y + m) % 12 = m
      BY <1>1
<1>8. DecodeYearToMonth(bytes) =
        Valid([neg |-> total < 0, years |-> Abs(total) \div 12, months |-> Abs(total) % 12])
      BY <1>6, ZenonT(30) DEF DecodeYearToMonth
<1>9. [neg |-> total < 0, years |-> Abs(total) \div 12, months |-> Abs(total) % 12] = v
      BY <1>1, <1>6, <1>7
<1> QED BY <1>4, <1>8, <1>9, Zenon

\* The intervals EncodeIntervalDayToSecond accepts, in canonical form, but for
\* those with the most negative number of days: dd = -dd leaves it negative.
DayToSeconds ==
  {v \in [neg : BOOLEAN, days : 0..(SignMask - 1), hours : 0..23, minutes : 0..59,
           seconds : 0..59, ns : 0..(NsLimit - 1)] :
     v.neg => \/ v.days # 0 \/ v.hours # 0 \/ v.minutes # 0
              \/ v.seconds # 0 \/ v.ns # 0}

LEMMA SignedAbs ==
  ASSUME NEW neg \in BOOLEAN, NEW x \in Nat
  PROVE  /\ Signed(neg, x) \in -x..x /\ Abs(Signed(neg, x)) = x
         /\ Signed(neg, x) < 0 <=> neg /\ x # 0
<1>1. CASE neg BY <1>1 DEF Signed, Abs
<1>2. CASE ~neg BY <1>2 DEF Signed, Abs
<1> QED BY <1>1, <1>2, Zenon

LEMMA BiasedUnbiased ==
  ASSUME NEW x \in Int
  PROVE  Unbiased(Biased(x)) = x
BY SignMaskType DEF Biased, Unbiased

\* The five fields of an INTERVAL DAY TO SECOND carry the sign each; decoding
\* takes it from whichever is not zero.
THEOREM DayToSecondRoundTrip ==
  \A v \in DayToSeconds :
    /\ EncodeDayToSecond(v).ok
    /\ DecodeDayToSecond(EncodeDayToSecond(v).val) = Valid(v)
<1> SUFFICES ASSUME NEW v \in DayToSeconds
             PROVE  /\ EncodeDayToSecond(v).ok
                    /\ DecodeDayToSecond(EncodeDayToSecond(v).val) = Valid(v)
    BY Zenon
<1> DEFINE S(x) == Signed(v.neg, x)
<1>1. /\ v = [neg |-> v.neg, days |-> v.days, hours |-> v.hours,
              minutes |-> v.minutes, seconds |-> v.seconds, ns |-> v.ns]
      /\ v.neg \in BOOLEAN /\ v.days \in 0..(SignMask - 1) /\ v.hours \in 0..23
      /\ v.minutes \in 0..59 /\ v.seconds \in 0..59 /\ v.ns \in 0..(NsLimit - 1)
      /\ v.neg => \/ v.days # 0 \/ v.hours # 0 \/ v.minutes # 0
                  \/ v.seconds # 0 \/ v.ns # 0
      BY Zenon DEF DayToSeconds
<1>2. SignMask \in Nat /\ NsLimit \in Nat
      BY OracleScalarsAssumption
<1>3. /\ v.days \in Nat /\ v.hours \in Nat /\ v.minutes \in Nat
      /\ v.seconds \in Nat /\ v.ns \in Nat
      BY <1>1, <1>2, SMTT(30)
<1>4. \A x \in Nat : /\ S(x) \in Int /\ S(x) \in -x..x /\ Abs(S(x)) = x
                     /\ S(x) < 0 <=> v.neg /\ x # 0
      BY <1>1, SignedAbs, SMTT(30)
<1> HIDE DEF S
<1>5. S(v.days) \in -SignMask..(SignMask - 1)
      BY <1>1, <1>2, <1>3, <1>4
<1> DEFINE bytes == <<Biased(S(v.days)), 60 + S(v.hours), 60 + S(v.minutes),
                      60 + S(v.seconds), Biased(S(v.ns))>>
<1>6. EncodeDayToSecond(v) = Valid(bytes)
      BY <1>1, <1>5, ZenonT(30) DEF EncodeDayToSecond, S
<1>7. EncodeDayToSecond(v).ok /\ EncodeDayToSecond(v).val = bytes
      BY <1>6, SMTT(30) DEF Valid
<1>8. /\ Unbiased(bytes[1]) = S(v.days) /\ bytes[2] - 60 = S(v.hours)
      /\ bytes[3] - 60 = S(v.minutes) /\ bytes[4] - 60 = S(v.seconds)
      /\ Unbiased(bytes[5]) = S(v.ns)
      BY <1>3, <1>4, BiasedUnbiased, SMTT(30)
<1>9. /\ S(v.hours) \in -23..23 /\ S(v.minutes) \in -59..59
      /\ S(v.seconds) \in -59..59 /\ ~(Abs(S(v.ns)) >= NsLimit)
      BY <1>1, <1>2, <1>3, <1>4, SMTT(30)
<1> DEFINE neg == \/ S(v.days) < 0 \/ S(v.hours) < 0 \/ S(v.minutes) < 0
                  \/ S(v.seconds) < 0 \/ S(v.ns) < 0
<1>10. AbsInt32(S(v.days)) = Abs(S(v.days))
      BY <1>1, <1>2, <1>3, <1>4 DEF AbsInt32
<1>11. neg <=> v.neg
      BY <1>1, <1>3, <1>4, ZenonT(30)
<1> HIDE DEF bytes
<1>12. DecodeDayToSecond(bytes) =
         Valid([neg |-> neg, days |-> Abs(S(v.days)), hours |-> Abs(S(v.hours)),
             minutes |-> Abs(S(v.minutes)), seconds |-> Abs(S(v.seconds)),
             ns |-> Abs(S(v.ns))])
      BY <1>8, <1>9, <1>10, ZenonT(30) DEF DecodeDayToSecond
<1>13. neg = v.neg
      BY <1>1, <1>11, Zenon
<1> HIDE DEF neg
<1>14. DecodeDayToSecond(bytes) = Valid(v)
      BY <1>1, <1>3, <1>4, <1>12, <1>13, Zenon
<1> QED BY <1>7, <1>14, Zenon

-----------------------------------------------------------------------------
(* The expiring cache. *)

\* The inductive invariant is the conjunction of the three invariants of the
\* run: the size and the expiration are preserved independently.
CacheInv == CacheTypeOK /\ CapacityRespected /\ NextExpirationSound

\* The cached keys are a finite set, so that their number is a natural number.
LEMMA CachedFinite ==
  ASSUME CacheTypeOK
  PROVE  IsFiniteSet(cached) /\ Cardinality(cached) \in Nat
  BY TTLCacheAssumption, FS_Subset, FS_CardinalityType, Zenon DEF CacheTypeOK

\* removeOldest makes room for exactly one entry: a set of MaxSize keys that
\* loses one and takes one has at most MaxSize keys.
LEMMA Replaced ==
  ASSUME NEW S, NEW j \in S, NEW k, IsFiniteSet(S)
  PROVE  Cardinality((S \ {j}) \cup {k}) <= Cardinality(S)
<1>1. IsFiniteSet(S \ {j}) /\ Cardinality(S \ {j}) = Cardinality(S) - 1
  BY FS_RemoveElement, Zenon
<1>2. Cardinality(S) \in Nat /\ Cardinality(S \ {j}) \in Nat
  BY <1>1, FS_CardinalityType, Zenon
<1>3. Cardinality((S \ {j}) \cup {k}) \in {Cardinality(S \ {j}), Cardinality(S \ {j}) + 1}
  BY <1>1, FS_AddElement, Zenon
<1> QED  BY <1>1, <1>2, <1>3

\* An expiration recomputed from the entries is sound for them.
LEMMA RecomputedSound ==
  ASSUME CacheTypeOK, NEW S \in SUBSET Keys, NEW t, IsNextExpiration(t, S)
  PROVE  /\ t \in Nat
         /\ t = 0 <=> S = {}
         /\ \A k \in S : t <= ctime[k] + Ttl
  BY TTLCacheAssumption, SMTT(30) DEF CacheTypeOK, IsNextExpiration

LEMMA CacheInitInv == CacheInit => CacheInv
  BY FS_EmptySet, TTLCacheAssumption, SMTT(30)
  DEF CacheInit, CacheInv, CacheTypeOK, CapacityRespected, NextExpirationSound, NoAnswer, Answer

\* Every step preserves the types.
LEMMA NextType == CacheTypeOK /\ [CacheNext]_cacheVars => CacheTypeOK'
<1> SUFFICES ASSUME CacheTypeOK, [CacheNext]_cacheVars PROVE CacheTypeOK'
  BY Zenon
<1> USE TTLCacheAssumption DEF CacheTypeOK
<1>1. CASE Tick  BY <1>1 DEF Tick
<1>2. CASE Clear  BY <1>2, Zenon DEF Clear
<1>3. ASSUME NEW k \in Keys, Get(k) PROVE CacheTypeOK'
  <2>1. cached' \subseteq Keys /\ nextExpiration' \in Nat
    <3>1. CASE shouldRemoveExpired
      <4>1. cached' \in SUBSET Keys /\ IsNextExpiration(nextExpiration', cached')
        BY <1>3, <3>1, Zenon DEF Get, Unexpired
      <4> QED  BY <4>1, RecomputedSound, Zenon
    <3>2. CASE ~shouldRemoveExpired  BY <1>3, <3>2, Zenon DEF Get
    <3> QED  BY <3>1, <3>2, Zenon
  <2>2. answer' \in {NoAnswer} \cup {Answer(v) : v \in Values}
    BY <1>3, Zenon DEF Get
  <2> QED  BY <1>3, <2>1, <2>2, Zenon DEF Get
<1>4. ASSUME NEW k \in Keys, RemoveKey(k) PROVE CacheTypeOK'
  <2>1. cached' \in SUBSET Keys /\ IsNextExpiration(nextExpiration', cached')
    BY <1>4, Zenon DEF RemoveKey
  <2>2. nextExpiration' \in Nat  BY <2>1, RecomputedSound, Zenon
  <2> QED  BY <1>4, <2>1, <2>2, ZenonT(30) DEF RemoveKey
<1>5. ASSUME NEW k \in Keys, NEW v \in Values, Put(k, v) PROVE CacheTypeOK'
  <2>1. cached' \subseteq Keys  BY <1>5, Zenon DEF Put
  <2>2. \E next \in Nat : Store(k, v, next)
    <3>1. CASE Cardinality(cached) # MaxSize  BY <1>5, <3>1, Zenon DEF Put
    <3>2. CASE Cardinality(cached) = MaxSize
      <4>1. PICK next \in 0..(now + Ttl) : Store(k, v, next)  BY <1>5, <3>2, Zenon DEF Put
      <4>2. next \in Nat  OBVIOUS
      <4>3. \A m \in Nat : m # 0 /\ m # 1 => m >= 2
        OBVIOUS
      <4> QED  BY <4>1, <4>2, <4>3, Zenon
    <3> QED  BY <3>1, <3>2, Zenon
  <2> QED  BY <2>1, <2>2 DEF Store
<1>6. CASE UNCHANGED cacheVars  BY <1>6, Zenon DEF cacheVars
<1> QED  BY <1>1, <1>2, <1>3, <1>4, <1>5, <1>6, SMTT(30) DEF CacheNext

\* Put is the only step that adds a key, and it makes room first.
LEMMA NextCapacity == CacheInv /\ [CacheNext]_cacheVars => CapacityRespected'
<1> SUFFICES ASSUME CacheInv, [CacheNext]_cacheVars PROVE CapacityRespected'
  BY Zenon
<1>1. IsFiniteSet(cached) /\ Cardinality(cached) \in Nat
  BY CachedFinite, Zenon DEF CacheInv
<1>2. ASSUME cached' \subseteq cached PROVE CapacityRespected'
  <2>1. Cardinality(cached') <= Cardinality(cached) /\ Cardinality(cached') \in Nat
    BY <1>1, <1>2, FS_Subset, FS_CardinalityType, Zenon
  <2> QED  BY <2>1, <1>1, TTLCacheAssumption DEF CacheInv, CapacityRespected
<1>3. ASSUME NEW k \in Keys, NEW v \in Values, Put(k, v) PROVE CapacityRespected'
  <2>1. CASE Cardinality(cached) # MaxSize
    <3>1. cached' = cached \cup {k}  BY <1>3, <2>1, Zenon DEF Put
    <3>2. Cardinality(cached') \in {Cardinality(cached), Cardinality(cached) + 1}
      BY <1>1, <3>1, FS_AddElement, Zenon
    <3> QED  BY <1>1, <2>1, <3>2, TTLCacheAssumption DEF CacheInv, CapacityRespected
  <2>2. CASE Cardinality(cached) = MaxSize
    <3>1. PICK j \in cached : cached' = (cached \ {j}) \cup {k}
      BY <1>3, <2>2, Zenon DEF Put
    <3> QED  BY <1>1, <2>2, <3>1, Replaced, Zenon DEF CapacityRespected
  <2> QED  BY <2>1, <2>2, Zenon
<1>4. CASE Tick  BY <1>2, <1>4, Zenon DEF Tick
<1>5. CASE Clear  BY <1>2, <1>5, Zenon DEF Clear
<1>6. ASSUME NEW k \in Keys, Get(k) PROVE CapacityRespected'
  BY <1>2, <1>6, Zenon DEF Get, Unexpired
<1>7. ASSUME NEW k \in Keys, RemoveKey(k) PROVE CapacityRespected'
  BY <1>2, <1>7, Zenon DEF RemoveKey
<1>8. CASE UNCHANGED cacheVars  BY <1>2, <1>8, Zenon DEF cacheVars
<1> QED  BY <1>3, <1>4, <1>5, <1>6, <1>7, <1>8, SMTT(30) DEF CacheNext

\* nextExpiration stays a lower bound: Put lowers it where needed, and every
\* removal recomputes it.
LEMMA NextExpiration == CacheInv /\ [CacheNext]_cacheVars => NextExpirationSound'
<1> SUFFICES ASSUME CacheInv, [CacheNext]_cacheVars PROVE NextExpirationSound'
  BY Zenon
<1> USE TTLCacheAssumption DEF CacheInv
<1>1. ASSUME NEW S \in SUBSET Keys, cached' = S, ctime' = ctime, IsNextExpiration(nextExpiration', S)
      PROVE  NextExpirationSound'
  BY <1>1, RecomputedSound, Zenon DEF NextExpirationSound
<1>2. CASE Tick  BY <1>2, Zenon DEF Tick, NextExpirationSound
<1>3. CASE Clear  BY <1>3, Zenon DEF Clear, NextExpirationSound
<1>4. ASSUME NEW k \in Keys, Get(k) PROVE NextExpirationSound'
  <2>1. CASE shouldRemoveExpired
    <3>1. cached' \in SUBSET Keys /\ ctime' = ctime /\ IsNextExpiration(nextExpiration', cached')
      BY <1>4, <2>1, ZenonT(30) DEF Get, Unexpired, CacheTypeOK
    <3> QED  BY <3>1, <1>1, Zenon
  <2>2. CASE ~shouldRemoveExpired
    BY <1>4, <2>2, SMTT(30) DEF Get, NextExpirationSound
  <2> QED  BY <2>1, <2>2, Zenon
<1>5. ASSUME NEW k \in Keys, RemoveKey(k) PROVE NextExpirationSound'
  <2>1. cached' \in SUBSET Keys /\ ctime' = ctime /\ IsNextExpiration(nextExpiration', cached')
    BY <1>5, Zenon DEF RemoveKey, CacheTypeOK
  <2> QED  BY <2>1, <1>1, Zenon
<1>6. ASSUME NEW k \in Keys, NEW v \in Values, Put(k, v) PROVE NextExpirationSound'
  <2>1. ASSUME NEW S \in SUBSET Keys, NEW next \in Nat, cached' = S \cup {k}, Store(k, v, next),
               next = 0 <=> S = {}, \A j \in S : next <= ctime[j] + Ttl
        PROVE  NextExpirationSound'
    <3>1. nextExpiration' \in Nat /\ nextExpiration' # 0 /\ nextExpiration' <= now + Ttl
      BY <2>1 DEF Store, CacheTypeOK
    <3>2. ASSUME NEW j \in cached' PROVE nextExpiration' <= ctime'[j] + Ttl
      <4>1. CASE j = k  BY <3>1, <4>1, <2>1, ZenonT(30) DEF Store, CacheTypeOK
      <4>2. CASE j # k
        <5>1. j \in S /\ ctime'[j] = ctime[j] /\ next # 0
          BY <2>1, <3>2, <4>2, ZenonT(30) DEF Store, CacheTypeOK
        <5>2. nextExpiration' <= next  BY <2>1, <5>1 DEF Store, CacheTypeOK
        <5>3. ctime[j] \in Nat  BY <5>1, Zenon DEF CacheTypeOK
        <5> QED  BY <2>1, <3>1, <5>1, <5>2, <5>3, SMTT(30)
      <4>3. \A m \in Nat : m # 0 /\ m # 1 => m >= 2
        OBVIOUS
      <4> QED  BY <4>1, <4>2, <4>3, Zenon
    <3> QED  BY <2>1, <3>1, <3>2, ZenonT(30) DEF NextExpirationSound
  <2>2. CASE Cardinality(cached) # MaxSize
    <3>1. cached' = cached \cup {k} /\ Store(k, v, nextExpiration)
      BY <1>6, <2>2, Zenon DEF Put
    <3> QED  BY <2>1, <3>1, Zenon DEF NextExpirationSound, CacheTypeOK
  <2>3. CASE Cardinality(cached) = MaxSize
    <3>1. PICK j \in cached, next \in 0..(now + Ttl) :
            /\ IsNextExpiration(next, cached \ {j})
            /\ cached' = (cached \ {j}) \cup {k} /\ Store(k, v, next)
      BY <1>6, <2>3, Zenon DEF Put
    <3>2. cached \ {j} \in SUBSET Keys  BY Zenon DEF CacheTypeOK
    <3>3. /\ next \in Nat /\ next = 0 <=> cached \ {j} = {}
          /\ \A i \in cached \ {j} : next <= ctime[i] + Ttl
      BY <3>1, <3>2, RecomputedSound, Zenon
    <3> QED  BY <2>1, <3>1, <3>2, <3>3
  <2> QED  BY <2>2, <2>3, Zenon
<1>7. CASE UNCHANGED cacheVars  BY <1>7, Zenon DEF cacheVars, NextExpirationSound
<1> QED  BY <1>2, <1>3, <1>4, <1>5, <1>6, <1>7, SMTT(30) DEF CacheNext

\* The three invariants together are inductive.
THEOREM CacheInvHolds == CacheSpec => []CacheInv
<1>1. CacheInv /\ [CacheNext]_cacheVars => CacheInv'
  BY NextType, NextCapacity, NextExpiration, Zenon DEF CacheInv
<1> QED  BY CacheInitInv, <1>1, PTL DEF CacheSpec

\* Every reachable state is well typed.
THEOREM TypeCorrect == CacheSpec => []CacheTypeOK
<1>1. CacheInv => CacheTypeOK  BY Zenon DEF CacheInv
<1> QED  BY CacheInvHolds, <1>1, PTL

\* The cache never holds more than maxSize entries.
THEOREM CapacityHolds == CacheSpec => []CapacityRespected
<1>1. CacheInv => CapacityRespected  BY Zenon DEF CacheInv
<1> QED  BY CacheInvHolds, <1>1, PTL

\* No entry expires before nextExpiration, so the shortcut of Get is sound.
THEOREM ExpirationHolds == CacheSpec => []NextExpirationSound
<1>1. CacheInv => NextExpirationSound  BY Zenon DEF CacheInv
<1> QED  BY CacheInvHolds, <1>1, PTL

-----------------------------------------------------------------------------
(* The refinement. *)

\* Before nextExpiration nothing has expired, so Get skips no removal it needs.
LEMMA NothingExpired ==
  ASSUME CacheInv, ~shouldRemoveExpired
  PROVE  Unexpired = cached
<1>1. CASE cached = {}  BY <1>1, Zenon DEF Unexpired
<1>2. CASE cached # {}
  <2>1. nextExpiration \in Nat /\ now \in Nat /\ now < nextExpiration
    BY <1>2 DEF CacheInv, CacheTypeOK, NextExpirationSound, shouldRemoveExpired
  <2>2. ASSUME NEW k \in cached PROVE now < ctime[k] + Ttl
    <3>1. ctime[k] \in Nat /\ nextExpiration <= ctime[k] + Ttl
      BY <2>2, Zenon DEF CacheInv, CacheTypeOK, NextExpirationSound
    <3> QED  BY <2>1, <3>1, TTLCacheAssumption
  <2> QED  BY <2>2, Zenon DEF Unexpired
<1> QED  BY <1>1, <1>2, Zenon

\* While the cache is not full, or holds an entry that has expired, the map is
\* not full.
LEMMA MapNotFull ==
  ASSUME CacheInv, Cardinality(cached) # MaxSize \/ cached # Unexpired
  PROVE  Cardinality(Unexpired) # MaxSize
<1>1. IsFiniteSet(cached) /\ Unexpired \in SUBSET cached
  BY FS_Subset, TTLCacheAssumption, Zenon DEF CacheInv, CacheTypeOK, Unexpired
<1>2. /\ Cardinality(cached) \in Nat /\ Cardinality(Unexpired) \in Nat
      /\ Cardinality(Unexpired) <= Cardinality(cached)
      /\ Cardinality(cached) = Cardinality(Unexpired) => cached = Unexpired
  BY <1>1, FS_Subset, FS_CardinalityType, Zenon
<1>3. Cardinality(cached) <= MaxSize  BY Zenon DEF CacheInv, CapacityRespected
<1> QED  BY <1>2, <1>3, TTLCacheAssumption

\* The steps of the map, and the Put that drops an entry for a key that is there.
MapStep == Map!Next \/ \E k \in Keys, v \in Values : Map!LossyPut(k, v)

\* Every step of the cache is such a step or leaves the map unchanged.
LEMMA StepRefines == CacheInv /\ [CacheNext]_cacheVars => [MapStep]_(Map!vars)
<1> SUFFICES ASSUME CacheInv, [CacheNext]_cacheVars PROVE [MapStep]_(Map!vars)
  BY Zenon
<1> USE TTLCacheAssumption
<1>1. CASE Tick
  <2>1. Unexpired' = {k \in Unexpired : now' < ctime[k] + Ttl}
    BY <1>1 DEF Tick, Unexpired, CacheInv, CacheTypeOK
  <2>2. Map!Tick  BY <1>1, <2>1, Zenon DEF Tick, Map!Tick
  <2> QED  BY <2>2, Zenon DEF MapStep, Map!Next
<1>2. CASE Clear
  <2>1. Map!Clear  BY <1>2, Zenon DEF Clear, Map!Clear, Unexpired
  <2> QED  BY <2>1, Zenon DEF MapStep, Map!Next
<1>3. ASSUME NEW k \in Keys, Get(k) PROVE MapStep
  <2>1. Unexpired' = Unexpired /\ cached' = Unexpired
    <3>1. CASE shouldRemoveExpired  BY <1>3, <3>1, Zenon DEF Get, Unexpired
    <3>2. CASE ~shouldRemoveExpired
      BY <1>3, <3>2, NothingExpired, Zenon DEF Get, Unexpired
    <3> QED  BY <3>1, <3>2, Zenon
  <2>2. Map!Get(k)
    BY <1>3, <2>1, Zenon DEF Get, Map!Get, Answer, NoAnswer, Map!Answer, Map!NoAnswer
  <2> QED  BY <2>2, Zenon DEF MapStep, Map!Next
<1>4. ASSUME NEW k \in Keys, RemoveKey(k) PROVE MapStep
  <2>1. Map!Remove(k)  BY <1>4, Zenon DEF RemoveKey, Map!Remove, Unexpired
  <2> QED  BY <2>1, Zenon DEF MapStep, Map!Next
<1>5. ASSUME NEW k \in Keys, NEW v \in Values, Put(k, v) PROVE MapStep
  <2>1. ASSUME NEW S \in SUBSET Keys, cached' = S \cup {k}, ctime' = [ctime EXCEPT ![k] = now], now' = now
        PROVE  Unexpired' = {i \in S : now < ctime[i] + Ttl} \cup {k}
    BY <2>1 DEF Unexpired, CacheInv, CacheTypeOK
  <2>2. Map!Stored(k, v)  BY <1>5, Zenon DEF Put, Store, Map!Stored
  <2>3. ctime' = [ctime EXCEPT ![k] = now] /\ now' = now  BY <1>5, Zenon DEF Put, Store
  <2>4. ASSUME Unexpired' = Unexpired \cup {k},
               Cardinality(Unexpired) # MaxSize \/ k \in Unexpired
        PROVE  MapStep
    <3>1. Map!Put(k, v)  BY <2>2, <2>4, Zenon DEF Map!Put
    <3> QED  BY <3>1, Zenon DEF MapStep, Map!Next
  <2>5. CASE Cardinality(cached) # MaxSize
    <3>1. cached' = cached \cup {k}  BY <1>5, <2>5, Zenon DEF Put
    <3>2. cached \in SUBSET Keys  BY Zenon DEF CacheInv, CacheTypeOK
    <3>3. Unexpired' = Unexpired \cup {k}  BY <2>1, <2>3, <3>1, <3>2, Zenon DEF Unexpired
    <3> QED  BY <2>4, <2>5, <3>3, MapNotFull, Zenon
  <2>6. CASE Cardinality(cached) = MaxSize
    <3>1. PICK j \in cached : Oldest(j) /\ cached' = (cached \ {j}) \cup {k}
      BY <1>5, <2>6, Zenon DEF Put
    <3>2. cached \ {j} \in SUBSET Keys  BY Zenon DEF CacheInv, CacheTypeOK
    <3>3. Unexpired' = {i \in cached \ {j} : now < ctime[i] + Ttl} \cup {k}
      BY <2>1, <2>3, <3>1, <3>2, Zenon
    <3>4. CASE j \notin Unexpired
      <4>1. Unexpired' = Unexpired \cup {k}  BY <3>3, <3>4, Zenon DEF Unexpired
      <4>2. Cardinality(Unexpired) # MaxSize  BY <3>4, MapNotFull, Zenon
      <4> QED  BY <2>4, <4>1, <4>2, Zenon
    <3>5. CASE j \in Unexpired
      <4>1. \A i \in cached : ctime[j] <= ctime[i] /\ ctime[i] \in Nat
        BY <3>1, Zenon DEF Oldest, CacheInv, CacheTypeOK
      <4>2. Unexpired = cached
        BY <3>5, <4>1 DEF Unexpired, CacheInv, CacheTypeOK
      <4>3. Map!Evictable(j)
        BY <2>6, <3>1, <4>1, <4>2, Zenon DEF Map!Evictable
      <4>4. Unexpired' = (Unexpired \ {j}) \cup {k}
        BY <3>3, <4>2, Zenon DEF Unexpired
      <4>5. CASE k \in Unexpired
        <5>1. Map!LossyPut(k, v)  BY <2>2, <3>5, <4>3, <4>4, <4>5, Zenon DEF Map!LossyPut
        <5> QED  BY <5>1, Zenon DEF MapStep
      <4>6. CASE k \notin Unexpired
        <5>1. Map!Put(k, v)
          BY <2>2, <2>6, <3>5, <4>2, <4>3, <4>4, <4>6, Zenon DEF Map!Put
        <5> QED  BY <5>1, Zenon DEF MapStep, Map!Next
      <4> QED  BY <4>5, <4>6, Zenon
    <3> QED  BY <3>4, <3>5, Zenon
  <2> QED  BY <2>5, <2>6, Zenon
<1>6. CASE UNCHANGED cacheVars
  BY <1>6, Zenon DEF cacheVars, Map!vars, Unexpired
<1> QED  BY <1>1, <1>2, <1>3, <1>4, <1>5, <1>6, ZenonT(30) DEF CacheNext

\* TTLCache implements the expiring map with that exception: an entry is found
\* exactly until it is Ttl old, removed, or dropped as the oldest of a full map.
THEOREM CacheImplementsMap == CacheSpec => ImplementsMap
<1>1. CacheInit => Map!Init
  BY Zenon DEF CacheInit, Map!Init, Unexpired, NoAnswer, Map!NoAnswer
<1> QED  BY <1>1, StepRefines, CacheInvHolds, PTL DEF CacheSpec, ImplementsMap, Map!LossySpec, MapStep
=============================================================================
