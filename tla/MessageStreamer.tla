--------------------------- MODULE MessageStreamer ---------------------------
(***************************************************************************)
(* The TTC message streamer (internal/driver/ttc/message_streamer.go) with *)
(* the parts that act through it: the connection's permanent callbacks and *)
(* event listener (connection.go), the callbacks an execution registers    *)
(* (statement_executors.go) and the state check at the end of a call       *)
(* (statement.go, transaction.go, ttishelf.go).                            *)
(*                                                                         *)
(* Messages are numbered in the order they arrive or are pushed.  Four     *)
(* message types stand for the ways a type is treated:                     *)
(*   OER - pulled by every call; the connection looks at it first;         *)
(*   RXD - pulled by executions, parked by the calls that want only OER;   *)
(*   IOV - dropped by a callback of the execution, else parked;            *)
(*   SPF - a piggyback, always consumed by the session's callback.         *)
(***************************************************************************)
EXTENDS Naturals, Sequences

CONSTANTS MaxIn,      \* incomingMessagesListMaxLength
          MaxOut,     \* outgoingMessagesListMaxLength
          MaxCalls,   \* calls made on the connection
          MaxPushed,  \* messages pushed by all calls
          MaxFailed,  \* flushes that fail
          MaxArrived  \* messages the server sends

ASSUME StreamerBounds ==
  {MaxIn, MaxOut, MaxCalls, MaxPushed, MaxFailed, MaxArrived} \subseteq Nat

MessageTypes == {"OER", "RXD", "IOV", "SPF"}

VARIABLES
  incoming,    \* incomingMessages, the parked messages
  outQueue,    \* outgoingMessages, numbers of the messages pushed and not marshalled
  stream,      \* what the marshaller was given: [n, whole]
  postCB,      \* types with a post-unmarshal callback
  pc,          \* "idle", "call", "pull" (the read loop of Pull) or "end" (the call gives up)
  expected,    \* expectedMessageTypes of the latest Pull
  result,      \* what the latest Pull returned
  checked,     \* the current call ends with checkCurrentState
  isValid,     \* connection._isValid
  call, pushed, arrived,
  lastChecked, \* the last call that passed checkCurrentState or was stopped by it
  invalidated, \* an event has told the connection that it is invalid
  taken,       \* messages Pull has returned or a callback has consumed
  failed       \* flushes that have failed

streamerVars == <<incoming, outQueue, stream, postCB, pc, expected, result, checked,
          isValid, call, pushed, arrived, lastChecked, invalidated, taken, failed>>

outVars  == <<outQueue, stream, pushed, failed>>
callVars == <<postCB, checked, call, lastChecked>>
evtVars  == <<isValid, invalidated>>

Permanent == {"OER", "SPF"}
NoMessage == [n |-> 0, type |-> "none", call |-> 0, err |-> FALSE, fault |-> FALSE]

StreamerInit ==
  /\ incoming = <<>> /\ outQueue = <<>> /\ stream = <<>>
  /\ postCB = Permanent
  /\ pc = "idle" /\ expected = {} /\ result = NoMessage /\ checked = FALSE
  /\ isValid = TRUE /\ call = 0 /\ pushed = 0 /\ arrived = 0 /\ lastChecked = 0
  /\ invalidated = FALSE /\ taken = 0 /\ failed = 0

-----------------------------------------------------------------------------
(* Outgoing messages. *)

Whole(s) == [i \in DOMAIN s |-> [n |-> s[i], whole |-> TRUE]]

Torn(k, begun) == IF begun THEN <<[n |-> outQueue[k], whole |-> FALSE]>> ELSE <<>>

\* Mutant: a message that cannot be marshalled is skipped.
FlushOutcomesSkip ==
  {[ok |-> TRUE, out |-> <<>>, str |-> stream \o Whole(outQueue)],
   [ok |-> FALSE, out |-> <<>>, str |-> stream \o Whole(outQueue)]} \cup
  {[ok |-> TRUE, out |-> SubSeq(outQueue, k + 1, Len(outQueue)),
    str |-> stream \o Whole(SubSeq(outQueue, 1, k - 1))] : k \in DOMAIN outQueue}

\* The ways Flush can end.  Each message leaves the list once it is marshalled.
\* A write that fails leaves its message in the list, with nothing or a part of
\* it already in the stream; the last failure is that of the session's Flush.
FlushOutcomes ==
  {[ok |-> TRUE, out |-> <<>>, str |-> stream \o Whole(outQueue)],
   [ok |-> FALSE, out |-> <<>>, str |-> stream \o Whole(outQueue)]} \cup
  {[ok |-> FALSE, out |-> SubSeq(outQueue, k, Len(outQueue)),
    str |-> stream \o Whole(SubSeq(outQueue, 1, k - 1)) \o Torn(k, begun)] :
      k \in DOMAIN outQueue, begun \in BOOLEAN}

FlushDone(f) ==
  /\ stream' = f.str
  /\ \/ f.ok /\ failed' = failed
     \/ ~f.ok /\ failed < MaxFailed /\ failed' = failed + 1

\* Push: a list over its limit is flushed first, and emptied if that fails.
Push ==
  /\ pc = "call" /\ pushed < MaxPushed
  /\ pushed' = pushed + 1
  /\ IF Len(outQueue) > MaxOut
       THEN \E f \in FlushOutcomes :
              FlushDone(f) /\ outQueue' = <<pushed'>>
       ELSE outQueue' = Append(outQueue, pushed') /\ UNCHANGED <<stream, failed>>
  /\ UNCHANGED <<incoming, pc, expected, result, arrived, taken, callVars, evtVars>>

Flush ==
  /\ pc = "call"
  /\ \E f \in FlushOutcomes : FlushDone(f) /\ outQueue' = f.out
  /\ UNCHANGED <<incoming, pushed, pc, expected, result, arrived, taken, callVars, evtVars>>

-----------------------------------------------------------------------------
(* Incoming messages. *)

\* Mutant: the list is searched from its back.
PositionsFromBack(ts) ==
  {i \in DOMAIN incoming : incoming[i].type \in ts
                           /\ \A j \in DOMAIN incoming : j > i => incoming[j].type \notin ts}

\* Where the search of the parked messages stops: the first of an expected type.
Positions(ts) ==
  {i \in DOMAIN incoming : incoming[i].type \in ts
                           /\ \A j \in 1..(i - 1) : incoming[j].type \notin ts}

\* Pull returns a parked message, with the error it was parked with ...
PullParked(ts) ==
  /\ pc = "call"
  /\ \E i \in Positions(ts) :
       /\ result' = incoming[i]
       /\ incoming' = SubSeq(incoming, 1, i - 1) \o SubSeq(incoming, i + 1, Len(incoming))
  /\ expected' = ts /\ taken' = taken + 1
  /\ UNCHANGED <<pc, arrived, outVars, callVars, evtVars>>

\* ... or, when the search finds none, starts to read.
PullReads(ts) ==
  /\ pc = "call" /\ \A i \in DOMAIN incoming : incoming[i].type \notin ts
  /\ pc' = "pull" /\ expected' = ts /\ result' = NoMessage
  /\ UNCHANGED <<incoming, arrived, taken, outVars, callVars, evtVars>>

\* Pull gives up: the header cannot be read, the factory has no message for it,
\* or the message cannot be unmarshalled at all.
PullFails ==
  /\ pc = "pull"
  /\ pc' = "call" /\ UNCHANGED <<incoming, expected, result, arrived, taken, outVars, callVars, evtVars>>

\* The next message.  Its pre-unmarshal callback, where an execution registered
\* one, may fail, and so may UnmarshalFrom (fault); it is consumed all the same.
Arrival ==
  /\ pc = "pull" /\ arrived < MaxArrived /\ arrived' = arrived + 1

Message(t, err, fault) ==
  [n |-> arrived + 1, type |-> t, call |-> call, err |-> err, fault |-> fault]

\* Post-unmarshal callbacks that answer "do not keep": updateSessionProperties
\* for SPF, dropUnhandled for the types an execution ignores.  The error they
\* are given or raise is not looked at again.
Dropped(t) == t \in postCB \ {"OER"}

ReadDropped(t) ==
  /\ Arrival /\ Dropped(t) /\ taken' = taken + 1
  /\ UNCHANGED <<incoming, pc, expected, result, outVars, callVars, evtVars>>

\* _handleConnectionShouldBeDropped sets _isValid from every end of call.
HandleEndOfCall(t, drained) ==
  isValid' = IF t = "OER" THEN ~drained ELSE isValid

\* ... and replaces the error of UnmarshalFrom by nil.
ErrorAfterCallbacks(t, fault) == fault /\ t # "OER"

\* A message of an expected type ends Pull.
ReadExpected(t, fault, drained) ==
  /\ Arrival /\ ~Dropped(t) /\ t \in expected
  /\ HandleEndOfCall(t, drained)
  /\ result' = Message(t, ErrorAfterCallbacks(t, fault), fault)
  /\ pc' = "call" /\ taken' = taken + 1
  /\ UNCHANGED <<incoming, expected, outVars, callVars, invalidated>>

ParkingFull == Len(incoming) >= MaxIn

\* Any other is parked, its error with it.
ReadParked(t, fault, drained) ==
  /\ Arrival /\ ~Dropped(t) /\ t \notin expected /\ ~ParkingFull
  /\ HandleEndOfCall(t, drained)
  /\ incoming' = Append(incoming, Message(t, ErrorAfterCallbacks(t, fault), fault))
  /\ UNCHANGED <<pc, expected, result, outVars, callVars, invalidated, taken>>

\* Mutant: the overflow is not reported to the connection.
ReadOverflowSilent(t) ==
  /\ Arrival /\ ~Dropped(t) /\ t \notin expected /\ ParkingFull
  /\ pc' = "end"
  /\ UNCHANGED <<incoming, expected, result, taken, outVars, callVars, evtVars>>

\* At the limit it is lost: streamerOverFlowEvent, and the call fails.
ReadOverflow(t) ==
  /\ Arrival /\ ~Dropped(t) /\ t \notin expected /\ ParkingFull
  /\ isValid' = FALSE /\ invalidated' = TRUE
  /\ pc' = "end"
  /\ UNCHANGED <<incoming, expected, result, taken, outVars, callVars>>

-----------------------------------------------------------------------------
(* Calls. *)

\* An execution registers its callbacks and ends with checkCurrentState; Ping,
\* Close and the LOB functions do neither.
Begin(execution) ==
  /\ pc = "idle" /\ call < MaxCalls
  /\ pc' = "call" /\ call' = call + 1 /\ checked' = execution
  /\ postCB' = Permanent \cup (IF execution THEN {"IOV"} ELSE {})
  /\ result' = NoMessage
  /\ UNCHANGED <<incoming, expected, arrived, taken, lastChecked, outVars, evtVars>>

\* Mutant: the parked messages are counted and left in the list.
EndCheckedKeeps ==
  /\ pc \in {"call", "end"} /\ checked
  /\ incoming' = incoming
  /\ IF incoming = <<>> THEN UNCHANGED evtVars
     ELSE isValid' = FALSE /\ invalidated' = TRUE
  /\ pc' = "idle" /\ lastChecked' = call /\ postCB' = Permanent
  /\ result' = NoMessage
  /\ UNCHANGED <<checked, call, expected, arrived, taken, outVars>>

\* The callbacks are unregistered; then isValid of the streamer drains the
\* parked messages, and posts streamerStaleEvent if there were any.
EndChecked ==
  /\ pc \in {"call", "end"} /\ checked
  /\ incoming' = <<>>
  /\ IF incoming = <<>> THEN UNCHANGED evtVars
     ELSE isValid' = FALSE /\ invalidated' = TRUE
  /\ pc' = "idle" /\ lastChecked' = call /\ postCB' = Permanent
  /\ result' = NoMessage
  /\ UNCHANGED <<checked, call, expected, arrived, taken, outVars>>

EndUnchecked ==
  /\ pc \in {"call", "end"} /\ ~checked
  /\ pc' = "idle" /\ result' = NoMessage
  /\ UNCHANGED <<incoming, expected, arrived, taken, outVars, callVars, evtVars>>

\* What calls pull: Ping and a cancelled execution only the end of call.
PullSets == IF checked THEN {{"OER"}, {"OER", "RXD"}} ELSE {{"OER"}}

StreamerNext ==
  \/ \E b \in BOOLEAN : Begin(b)
  \/ Push \/ Flush \/ PullFails \/ EndChecked \/ EndUnchecked
  \/ \E ts \in PullSets : PullParked(ts) \/ PullReads(ts)
  \/ \E t \in MessageTypes, fault, drained \in BOOLEAN :
       ReadExpected(t, fault, drained) \/ ReadParked(t, fault, drained)
  \/ \E t \in MessageTypes : ReadDropped(t) \/ ReadOverflow(t)

StreamerSpec == StreamerInit /\ [][StreamerNext]_streamerVars

-----------------------------------------------------------------------------
(* Properties. *)

\* Push and Flush: the marshaller is given every message whole, at most once and
\* in the order of the pushes, however flushes fail and whatever is pushed in
\* between; and until a flush has failed, none is missing or torn.
SentOnceInOrder ==
  /\ \A i, j \in DOMAIN stream :
       i < j /\ stream[i].whole /\ stream[j].whole => stream[i].n < stream[j].n
  /\ \A i \in DOMAIN stream, j \in DOMAIN outQueue :
       stream[i].whole => stream[i].n < outQueue[j]
  /\ failed = 0 => stream \o Whole(outQueue) = Whole([i \in 1..pushed |-> i])

\* Pull returns the oldest message of the expected types that was not yet
\* returned: no parked message is overtaken by a later one of its type.
OldestFirst ==
  [][result' # result /\ result' # NoMessage =>
       \A i \in DOMAIN incoming' :
         incoming'[i].type \in expected' => result'.n < incoming'[i].n]_streamerVars

\* checkCurrentState at the end of an execution: no later call is given a
\* message that this execution, or one before it, received.
DeliveredInCall == result # NoMessage => result.call > lastChecked

\* No message vanishes: each one that was read has been returned by a Pull or
\* consumed by a callback, once, or is still parked, unless an event (list full,
\* or messages left at the end of the call) has invalidated the connection.
LossIsReported == ~invalidated => taken + Len(incoming) = arrived

\* Streamer.Pull (driver/common/streamer.go): the error that happened while the
\* message was processed is returned with it.
PullReportsFaults == result.fault => result.err
=============================================================================
