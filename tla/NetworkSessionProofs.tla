------------------------ MODULE NetworkSessionProofs ------------------------
(***************************************************************************)
(* Proofs about NetworkSession for every number of calls, control packets  *)
(* and data packets.  Two inductive invariants on top of the types and of  *)
(* the markers:                                                            *)
(*   Clean:   what is under way when no call gave up: exactly the rest of  *)
(*            one answer;                                                  *)
(*   Begun:   every request is in one place unless its Flush failed.       *)
(***************************************************************************)
EXTENDS NetworkMarkerProofs

-----------------------------------------------------------------------------
(* What is under way when no call gave up. *)

Unread == rcv.st = "data" => rcv.call = call /\ ~rcv.last
OutDone == snd = <<>> /\ c2s = <<>>

Resting ==
  /\ pc \in {"idle", "flush"} /\ ~isBreak /\ rcv.st # "data"
  /\ c2s = <<>> /\ srv = "idle" /\ Only(s2c, Noise)
  /\ snd = IF pc = "idle" THEN <<>> ELSE <<call>>

Asked ==
  /\ rcv.st # "data" /\ snd = <<>> /\ c2s = <<Req(<<call>>)>> /\ srv = "idle" /\ Only(s2c, Noise)

Running ==
  /\ Unread /\ OutDone /\ srv = "exec" /\ work = <<call>> /\ last = call /\ Flowing(s2c, call)

Raised ==
  /\ Unread /\ OutDone /\ srv = "break" /\ last = call /\ EndsWith(s2c, call, Pkt("break"))

Answered ==
  /\ OutDone /\ srv = "idle"
  /\ \/ rcv.st = "data" /\ rcv.last /\ (rcv.call = call \/ cancelling) /\ Only(s2c, Noise)
     \/ \E k \in 0 .. MaxCalls : /\ k = call \/ cancelling
                                 /\ rcv.st = "data" => rcv.call = k /\ ~rcv.last
                                 /\ EndsWith(s2c, k, Data(k, TRUE))

Resetting ==
  /\ isBreak /\ rcv.st # "data" /\ snd = <<>> /\ last = call
  /\ \/ pc = "sendReset" /\ c2s = <<>> /\ srv = "break" /\ Only(s2c, Noise)
     \/ pc = "reset" /\ c2s = <<Ctl("reset")>> /\ srv = "break" /\ Only(s2c, Noise)
     \/ pc = "reset" /\ c2s = <<>> /\ srv = "idle" /\ ResetAnswer(s2c, call, Noise)

Reading == pc \in {"read", "fill", "nodata"} /\ ~isBreak /\ (Asked \/ Running \/ Raised \/ Answered)

Settled == pending = <<>> /\ (Resting \/ Reading \/ Resetting)

Clean ==
  /\ pc = "fill" => rcv.st # "data"
  /\ ~dirty /\ ~CancelPhase /\ pc # "cancel" => Settled

-----------------------------------------------------------------------------
(* Requests. *)

Increasing(s) == \A a, b \in DOMAIN s : a < b => s[a] < s[b]

\* Call k's request is in sndDatapkt, in the i-th packet under way, at the server.
Buffered(k) == \E a \in DOMAIN snd : snd[a] = k
Asks(i, k) == c2s[i].t = "data" /\ \E a \in DOMAIN c2s[i].calls : c2s[i].calls[a] = k
InWork(k) == \E b \in DOMAIN work : work[b] = k

Unasked(k) == \A i \in DOMAIN c2s : ~Asks(i, k)
AskedOnce(k) == \A i, j \in DOMAIN c2s : Asks(i, k) /\ Asks(j, k) => i = j

Fresh(k) == execs[k] = 0 /\ ~InWork(k) /\ Unasked(k)

OutOrdered == \A i \in DOMAIN c2s : c2s[i].t = "data" => Increasing(c2s[i].calls)
Ordered == Increasing(snd) /\ Increasing(work) /\ OutOrdered

\* A request whose Flush did not fail is in one place only, and the server has
\* begun none that is still waiting.
Placed(k) ==
  /\ k > call => Fresh(k) /\ ~Buffered(k)
  /\ k \notin unsure =>
       /\ Buffered(k) => pc = "flush" /\ Fresh(k)
       /\ Unasked(k) \/ (execs[k] = 0 /\ ~InWork(k))
       /\ AskedOnce(k)
       /\ \A b \in DOMAIN work : b > 1 /\ work[b] = k => execs[k] = 0
       /\ execs[k] <= 1

Begun == Ordered /\ \A k \in Calls : Placed(k)

-----------------------------------------------------------------------------
(* Clean is preserved. *)

LEMMA OneElement ==
  ASSUME NEW x
  PROVE  /\ Append(<<>>, x) = <<x>> /\ Head(<<x>>) = x /\ Tail(<<x>>) = <<>> /\ <<x>> # <<>>
         /\ Len(<<x>>) = 1
OBVIOUS

\* Noise is on the way to the end of every answer.
LEMMA NoiseFlows ==
  ASSUME NEW s, NEW k, Only(s, Noise)
  PROVE  Flowing(s, k)
BY Zenon DEF Only, Flowing, Passing

\* A request is written and sent.
LEMMA CleanSend ==
  ASSUME TypeOK, Settled, Call \/ FlushOk
  PROVE  Settled'
<1>1. CASE Call
  <2>1. pc = "idle" /\ Resting /\ pending = <<>>
    BY <1>1, Zenon DEF Call, Settled, Reading, Resetting
  <2>2. /\ pc' = "flush" /\ snd' = Append(snd, call + 1) /\ call' = call + 1
        /\ UNCHANGED <<isBreak, rcv, c2s, srv, s2c, pending>>
    BY <1>1, <2>1, Zenon DEF Call, Resting, flags, server
  <2>3. snd' = <<call'>>
    BY <2>1, <2>2, OneElement, Zenon DEF Resting
  <2> QED  BY <2>1, <2>2, <2>3, Zenon DEF Settled, Resting
<1>2. CASE FlushOk
  <2>1. pc = "flush" /\ Resting /\ pending = <<>>
    BY <1>2, Zenon DEF FlushOk, Settled, Reading, Resetting
  <2>2. /\ pc' = "read" /\ snd' = <<>> /\ c2s' = Append(c2s, Req(snd))
        /\ UNCHANGED <<isBreak, rcv, srv, s2c, pending, call>>
    BY <1>2, Zenon DEF FlushOk, flags, server
  <2>3. c2s' = <<Req(<<call>>)>>
    BY <2>1, <2>2, OneElement, Zenon DEF Resting
  <2>4. Asked' /\ ~isBreak'
    BY <2>1, <2>2, <2>3, Zenon DEF Asked, Resting
  <2> QED  BY <2>1, <2>2, <2>4, Zenon DEF Settled, Reading
<1> QED  BY <1>1, <1>2, Zenon

\* The buffer is consumed or prepared.
LEMMA CleanRead ==
  ASSUME TypeOK, Settled, Consume \/ PrepareReadBuffer
  PROVE  Settled'
<1>1. pc = "read" /\ Reading /\ pending = <<>> /\ ~isBreak
  BY Zenon DEF Consume, PrepareReadBuffer, Settled, Resting, Resetting, Reading
<1>2. UNCHANGED <<isBreak, srv, s2c, pending, call, c2s, snd, work, last, cancelling>>
  BY Zenon DEF Consume, PrepareReadBuffer, flags, server
<1>3. CASE Consume
  <2>1. rcv.st = "data" /\ rcv'.st # "data" /\ pc' = IF rcv.last THEN "idle" ELSE "read"
    BY <1>3, Zenon DEF Consume, Rcv
  <2>2. CASE Running
    <3>1. Running' /\ pc' = "read"
      BY <1>2, <2>1, <2>2, Zenon DEF Running, Unread, OutDone
    <3> QED  BY <1>1, <1>2, <3>1, Zenon DEF Settled, Reading
  <2>3. CASE Raised
    <3>1. Raised' /\ pc' = "read"
      BY <1>2, <2>1, <2>3, Zenon DEF Raised, Unread, OutDone
    <3> QED  BY <1>1, <1>2, <3>1, Zenon DEF Settled, Reading
  <2>4. CASE Answered /\ rcv.last
    <3>1. OutDone /\ srv = "idle" /\ Only(s2c, Noise)
      BY <2>1, <2>4, Zenon DEF Answered
    <3> QED  BY <1>1, <1>2, <2>1, <2>4, <3>1, Zenon DEF Settled, Resting, OutDone
  <2>5. CASE Answered /\ ~rcv.last
    <3>1. OutDone /\ srv = "idle"
      BY <2>5, Zenon DEF Answered
    <3>2. PICK k \in 0 .. MaxCalls : (k = call \/ cancelling) /\ EndsWith(s2c, k, Data(k, TRUE))
      BY <2>5, Zenon DEF Answered
    <3>3. Answered'
      BY <1>2, <2>1, <3>1, <3>2, ZenonT(30) DEF Answered, OutDone
    <3> QED  BY <1>1, <1>2, <2>1, <2>5, <3>3, Zenon DEF Settled, Reading
  <2> QED  BY <1>1, <2>1, <2>2, <2>3, <2>4, <2>5, Zenon DEF Reading, Asked
<1>4. CASE PrepareReadBuffer
  <2>1. rcv.st # "data" /\ rcv'.st # "data" /\ pc' \in {"fill", "nodata"}
    BY <1>4 DEF PrepareReadBuffer, Rcv
  <2>2. Asked => Asked'
    BY <1>2, <2>1, Zenon DEF Asked
  <2>3. Running => Running'
    BY <1>2, <2>1, Zenon DEF Running, OutDone, Unread
  <2>4. Raised => Raised'
    BY <1>2, <2>1, Zenon DEF Raised, OutDone, Unread
  <2>5. Answered => Answered'
    BY <1>2, <2>1, Zenon DEF Answered, OutDone
  <2> QED  BY <1>1, <1>2, <2>1, <2>2, <2>3, <2>4, <2>5, Zenon DEF Settled, Reading
<1> QED  BY <1>3, <1>4, Zenon

\* A packet is taken in a session nobody gave up on.
LEMMA CleanTaken ==
  ASSUME TypeOK, Settled, NEW t, TakePacket(t)
  PROVE  /\ s2c # <<>> /\ Head(s2c) \in Packet /\ Head(s2c).t = t /\ s2c' = Tail(s2c) /\ Tail(s2c) \in Seq(Packet)
         /\ s2c \in Seq(Packet) /\ NextPacket = Head(s2c) /\ pending' = <<>>
         /\ (pc = "fill" /\ Reading) \/ (pc = "reset" /\ Resetting)
<1>1. pending = <<>> /\ <<NextPacket>> # <<>>
  BY Zenon DEF Settled
<1>2. /\ s2c # <<>> /\ Head(s2c) \in Packet /\ Head(s2c).t = t /\ s2c' = Tail(s2c) /\ NextPacket = Head(s2c)
      /\ pending' = <<>> /\ s2c' \in Seq(Packet) /\ pc \in {"fill", "reset"}
  BY <1>1, Taken, Zenon
<1>3. s2c \in Seq(Packet)
  BY Zenon DEF TypeOK, StreamOK
<1>4. (pc = "fill" /\ Reading) \/ (pc = "reset" /\ Resetting)
  BY <1>2, Zenon DEF Settled, Reading, Resting, Resetting
<1> QED  BY <1>2, <1>3, <1>4, Zenon


\* What the first packet can be, by where the answer is.
LEMMA CleanHead ==
  ASSUME TypeOK, s2c # <<>>
  PROVE  /\ Only(s2c, Noise) => Head(s2c).t \in Noise /\ Only(Tail(s2c), Noise)
         /\ Flowing(s2c, call) => Passing(Head(s2c), call) /\ Flowing(Tail(s2c), call)
         /\ \A k \in 0 .. MaxCalls : \A x \in Packet : EndsWith(s2c, k, x) =>
              \/ Head(s2c) = x /\ Only(Tail(s2c), Noise)
              \/ Passing(Head(s2c), k) /\ EndsWith(Tail(s2c), k, x)
         /\ \A k \in 0 .. MaxCalls : ResetAnswer(s2c, k, Noise) =>
              IF Head(s2c).t = "reset" THEN EndsWith(Tail(s2c), k, Data(k, TRUE))
                                       ELSE Head(s2c).t \in Noise /\ ResetAnswer(Tail(s2c), k, Noise)
<1>1. s2c \in Seq(Packet) /\ call \in 0 .. MaxCalls /\ "reset" \notin Noise
  BY Zenon DEF TypeOK, StreamOK, Noise
<1>2. Only(s2c, Noise) => Head(s2c).t \in Noise /\ Only(Tail(s2c), Noise)
  BY <1>1, StreamTail, Zenon
<1>3. Flowing(s2c, call) => Passing(Head(s2c), call) /\ Flowing(Tail(s2c), call)
  BY <1>1, FlowingStream, Zenon
<1>4. ASSUME NEW k \in 0 .. MaxCalls, NEW x \in Packet, EndsWith(s2c, k, x)
      PROVE  \/ Head(s2c) = x /\ Only(Tail(s2c), Noise)
             \/ Passing(Head(s2c), k) /\ EndsWith(Tail(s2c), k, x)
  BY <1>1, <1>4, EndingStream, Zenon
<1>5. ASSUME NEW k \in 0 .. MaxCalls, ResetAnswer(s2c, k, Noise)
      PROVE  IF Head(s2c).t = "reset" THEN EndsWith(Tail(s2c), k, Data(k, TRUE))
                                      ELSE Head(s2c).t \in Noise /\ ResetAnswer(Tail(s2c), k, Noise)
  BY <1>1, <1>5, ResetStream, ZenonT(30)
<1> QED  BY <1>2, <1>3, <1>4, <1>5, ZenonT(30)

\* A data packet or a notification is taken by a read.
LEMMA CleanFill ==
  ASSUME TypeOK, Settled, pc = "fill", rcv.st # "data",
         RecvData \/ RecvNotification
  PROVE  Settled'
<1>0. PICK t \in {"data", "notification"} : /\ TakePacket(t)
                                            /\ t = "data" => RecvData
                                            /\ t # "data" => RecvNotification
  BY Zenon DEF RecvData, RecvNotification
<1>1. /\ s2c # <<>> /\ Head(s2c) \in Packet /\ Head(s2c).t = t /\ s2c' = Tail(s2c) /\ NextPacket = Head(s2c)
      /\ pending' = <<>> /\ Reading /\ ~isBreak /\ call \in 0 .. MaxCalls
  BY <1>0, CleanTaken, Zenon DEF Reading, TypeOK
<1>2. UNCHANGED <<isBreak, srv, call, c2s, snd, work, last, cancelling>> /\ pc' = "read"
  BY <1>1, Zenon DEF RecvData, RecvNotification, flags, server, PacketReturned
<1>3. \/ t = "data" /\ rcv'.st = "data" /\ rcv'.call = Head(s2c).call /\ rcv'.last = Head(s2c).last
      \/ t = "notification" /\ rcv' = rcv
  BY <1>0, <1>1, SMTT(30) DEF RecvData, RecvNotification
<1>4. ASSUME NEW k, Passing(Head(s2c), k)
      PROVE  rcv'.st = "data" => rcv'.call = k /\ ~rcv'.last
  BY <1>1, <1>3, <1>4, Zenon DEF Passing, Noise
<1>5. CASE Asked
  <2>1. Head(s2c).t \in Noise /\ Only(s2c', Noise)
    BY <1>1, <1>5, CleanHead, Zenon DEF Asked
  <2>2. rcv'.st # "data"
    BY <1>1, <1>3, <2>1, Zenon DEF Noise
  <2>3. Asked'
    BY <1>2, <1>5, <2>1, <2>2, Zenon DEF Asked
  <2> QED  BY <1>1, <1>2, <2>3, Zenon DEF Settled, Reading
<1>6. CASE Running
  <2>1. Passing(Head(s2c), call) /\ Flowing(s2c', call)
    BY <1>1, <1>6, CleanHead, Zenon DEF Running
  <2>2. Running'
    BY <1>2, <1>4, <1>6, <2>1, Zenon DEF Running, Unread, OutDone
  <2> QED  BY <1>1, <1>2, <2>2, Zenon DEF Settled, Reading
<1>7. CASE Raised
  <2>1. Pkt("break") \in Packet /\ Head(s2c) # Pkt("break")
    BY <1>1, PacketTypesOK, Zenon DEF PacketTypes
  <2>2. Passing(Head(s2c), call) /\ EndsWith(s2c', call, Pkt("break"))
    BY <1>1, <1>7, <2>1, CleanHead, Zenon DEF Raised
  <2>3. Raised'
    BY <1>2, <1>4, <1>7, <2>2, Zenon DEF Raised, Unread, OutDone
  <2> QED  BY <1>1, <1>2, <2>3, Zenon DEF Settled, Reading
<1>8. CASE Answered
  <2>0. OutDone /\ srv = "idle"
    BY <1>8, Zenon DEF Answered
  <2>1. PICK k \in 0 .. MaxCalls : (k = call \/ cancelling) /\ EndsWith(s2c, k, Data(k, TRUE))
    BY <1>8, Zenon DEF Answered
  <2>2. Data(k, TRUE) \in Packet
    BY PacketTypesOK, ZenonT(30)
  <2>3. CASE Head(s2c) = Data(k, TRUE) /\ Only(Tail(s2c), Noise)
    <3>1. rcv'.st = "data" /\ rcv'.last /\ rcv'.call = k
      BY <1>0, <1>1, <1>3, <2>3, SMTT(30) DEF Data
    <3>2. Answered'
      BY <1>1, <1>2, <2>0, <2>1, <2>3, <3>1, Zenon DEF Answered, OutDone
    <3> QED  BY <1>1, <1>2, <3>2, Zenon DEF Settled, Reading
  <2>4. CASE Passing(Head(s2c), k) /\ EndsWith(Tail(s2c), k, Data(k, TRUE))
    <3>1. Answered'
      BY <1>1, <1>2, <1>4, <2>0, <2>1, <2>4, ZenonT(30) DEF Answered, OutDone
    <3> QED  BY <1>1, <1>2, <3>1, Zenon DEF Settled, Reading
  <2> QED  BY <1>1, <2>1, <2>2, <2>3, <2>4, CleanHead, Zenon
<1> QED  BY <1>1, <1>5, <1>6, <1>7, <1>8, Zenon DEF Reading


\* The markers: a break marker ends the answer and starts Reset, which takes
\* nothing but noise up to the reset marker.
LEMMA CleanReset ==
  ASSUME TypeOK, Settled, ~CancelPhase, rcv.st # "data" \/ pc = "reset",
         \/ pc = "reset" /\ (RecvData \/ RecvNotification)
         \/ RecvBreak
         \/ pc = "reset" /\ RecvReset
  PROVE  Settled' \/ dirty'
<1>0. PICK t \in {"data", "notification", "break", "reset"} :
        /\ TakePacket(t)
        /\ t = "data" => RecvData
        /\ t = "notification" => RecvNotification
        /\ t = "break" => RecvBreak
        /\ t = "reset" => RecvReset
  BY Zenon DEF RecvData, RecvNotification, RecvBreak, RecvReset
<1>1. /\ s2c # <<>> /\ Head(s2c) \in Packet /\ Head(s2c).t = t /\ s2c' = Tail(s2c)
      /\ pending' = <<>> /\ pending = <<>> /\ call \in 0 .. MaxCalls
      /\ (pc = "fill" /\ Reading) \/ (pc = "reset" /\ Resetting)
  BY <1>0, CleanTaken, Zenon DEF Settled, TypeOK
<1>2. UNCHANGED <<srv, call, c2s, work, last>>
  BY Zenon DEF RecvData, RecvNotification, RecvBreak, RecvReset, server
<1>3. CASE pc = "reset" /\ Resetting
  <2>1. /\ isBreak /\ rcv.st # "data" /\ snd = <<>> /\ last = call
        /\ \/ c2s = <<Ctl("reset")>> /\ srv = "break" /\ Only(s2c, Noise)
           \/ c2s = <<>> /\ srv = "idle" /\ ResetAnswer(s2c, call, Noise)
    BY <1>3, Zenon DEF Resetting
  <2>2. CASE t = "notification"
    <3>1. rcv' = rcv /\ snd' = snd /\ isBreak' = isBreak /\ pc' = "reset"
      BY <1>0, <1>3, <2>2, Zenon DEF RecvNotification, flags, PacketReturned
    <3>2. /\ Only(s2c, Noise) => Only(s2c', Noise)
          /\ ResetAnswer(s2c, call, Noise) => ResetAnswer(s2c', call, Noise)
      BY <1>1, <2>2, CleanHead, ZenonT(30)
    <3>3. Resetting'
      BY <1>2, <2>1, <3>1, <3>2, Zenon DEF Resetting
    <3> QED  BY <1>1, <3>3, Zenon DEF Settled
  <2>3. CASE t = "reset"
    <3>1. ~Only(s2c, Noise)
      BY <1>1, <2>3, CleanHead, Zenon DEF Noise
    <3>2. c2s = <<>> /\ srv = "idle" /\ EndsWith(s2c', call, Data(call, TRUE))
      BY <1>1, <2>1, <2>3, <3>1, CleanHead, Zenon
    <3>3. rcv' = Rcv("empty") /\ snd' = <<>> /\ isBreak' = FALSE /\ pc' = "fill"
      BY <1>0, <1>3, <2>3, Zenon DEF RecvReset, CancelPhase
    <3>4. rcv'.st # "data" /\ ~isBreak'
      BY <3>3, Zenon DEF Rcv
    <3>5. Answered'
      BY <1>1, <1>2, <3>2, <3>3, <3>4, Zenon DEF Answered, OutDone
    <3> QED  BY <1>1, <3>3, <3>4, <3>5, Zenon DEF Settled, Reading
  <2>4. CASE t \in {"data", "break"}
    BY <1>1, <2>1, <2>4, CleanHead, ZenonT(30) DEF Noise
  <2> QED  BY <2>2, <2>3, <2>4, Zenon
<1>4. CASE pc = "fill" /\ Reading
  <2>1. RecvBreak /\ t = "break" /\ rcv.st # "data" /\ Head(s2c).t = "break"
    BY <1>0, <1>1, <1>4, Zenon DEF RecvBreak, TakePacket
  <2>2. ~Asked /\ ~Running
    <3>1. ~Only(s2c, Noise)
      BY <1>1, <2>1, CleanHead, Zenon DEF Noise
    <3>2. ~Flowing(s2c, call)
      BY <1>1, <2>1, CleanHead, Zenon DEF Passing, Noise
    <3> QED  BY <3>1, <3>2, Zenon DEF Asked, Running
  <2>3. ~Answered
    <3>1. ASSUME NEW k \in 0 .. MaxCalls, EndsWith(s2c, k, Data(k, TRUE))
          PROVE  FALSE
      <4>1. Data(k, TRUE) \in Packet /\ Data(k, TRUE).t = "data"
        BY PacketTypesOK, ZenonT(30)
      <4>2. ~Passing(Head(s2c), k)
        BY <2>1, Zenon DEF Passing, Noise
      <4> QED  BY <1>1, <2>1, <3>1, <4>1, <4>2, CleanHead, Zenon
    <3> QED  BY <2>1, <3>1, ZenonT(30) DEF Answered
  <2>4. Raised /\ Only(s2c', Noise)
    <3>1. Raised
      BY <1>4, <2>2, <2>3, Zenon DEF Reading
    <3>2. Pkt("break") \in Packet
      BY PacketTypesOK, Zenon DEF PacketTypes
    <3>3. ~Passing(Head(s2c), call)
      BY <2>1, Zenon DEF Passing, Noise
    <3> QED  BY <1>1, <3>1, <3>2, <3>3, CleanHead, Zenon DEF Raised
  <2>5. dirty' \/ (isBreak' /\ pc' = "sendReset" /\ rcv' = rcv /\ snd' = snd)
    BY <1>4, <2>1, Zenon DEF RecvBreak
  <2>6. dirty' \/ Resetting'
    BY <1>2, <2>1, <2>4, <2>5, Zenon DEF Resetting, Raised, OutDone
  <2> QED  BY <1>1, <2>6, Zenon DEF Settled
<1> QED  BY <1>1, <1>3, <1>4, Zenon

\* CancelOperation's Reset ends: whatever was under way is gone.
LEMMA CleanCancel ==
  ASSUME TypeOK, Markers, CancelPhase, pc = "reset", RecvReset
  PROVE  Settled'
<1>1. isValid /\ ClientBreak /\ pending = <<>>
  BY Zenon DEF Markers, CancelPhase
<1>2. /\ s2c \in Seq(Packet) /\ s2c # <<>> /\ Head(s2c).t = "reset" /\ s2c' = Tail(s2c) /\ pending' = <<>>
      /\ last \in 0 .. MaxCalls /\ UNCHANGED <<srv, c2s>>
  <2>1. TakePacket("reset") /\ UNCHANGED <<srv, c2s>>
    BY Zenon DEF RecvReset, server
  <2>2. <<NextPacket>> # <<>> /\ s2c \in Seq(Packet) /\ last \in 0 .. MaxCalls
    BY Zenon DEF TypeOK, StreamOK, ServerOK
  <2> QED  BY <1>1, <2>1, <2>2, Taken, Zenon
<1>3. ~Without(s2c, "reset")
  BY <1>2, StreamTail, Zenon
<1>4. c2s = <<>> /\ srv = "idle" /\ ResetAnswer(s2c, last, NotReset)
  BY <1>1, <1>3, Zenon DEF ClientBreak
<1>5. EndsWith(s2c', last, Data(last, TRUE))
  <2>1. "reset" \notin NotReset
    BY Zenon DEF NotReset
  <2> QED  BY <1>2, <1>4, <2>1, ResetStream, Zenon
<1>6. rcv' = Rcv("empty") /\ snd' = <<>> /\ isBreak' = FALSE /\ pc' = "read" /\ cancelling' = TRUE
  BY Zenon DEF RecvReset, CancelPhase
<1>7. rcv'.st # "data" /\ ~isBreak' /\ cancelling'
  BY <1>6, Zenon DEF Rcv
<1>8. Answered'
  BY <1>2, <1>4, <1>5, <1>6, <1>7, Zenon DEF Answered, OutDone
<1> QED  BY <1>2, <1>6, <1>7, <1>8, Zenon DEF Settled, Reading


\* Between calls CheckInbandNotification finds nothing but noise.
LEMMA CleanCheck ==
  ASSUME TypeOK, Settled, CheckRead \/ CheckTimeout
  PROVE  Settled'
<1>1. Resting /\ pc = "idle" /\ s2c # <<>> /\ s2c \in Seq(Packet) /\ pending = <<>>
  BY Zenon DEF Settled, Reading, Resetting, CheckRead, CheckTimeout, TypeOK, StreamOK
<1>2. UNCHANGED <<pc, isBreak, rcv, c2s, srv, snd>>
  BY Zenon DEF CheckRead, CheckTimeout, client, flags, server
<1>3. Only(s2c', Noise) /\ pending' = <<>>
  <2>1. CASE CheckTimeout
    BY <1>1, <2>1, Interruption, Zenon DEF CheckTimeout, Resting
  <2>2. CASE CheckRead
    <3>1. Head(s2c).t \in Noise /\ Only(Tail(s2c), Noise)
      BY <1>1, CleanHead, Zenon DEF Resting
    <3>2. Head(s2c).t # "torn" /\ s2c' = Tail(s2c)
          /\ pending' = IF Head(s2c).t \in {"notification", "error"} THEN pending ELSE <<Head(s2c)>>
      BY <2>2, Zenon DEF CheckRead
    <3>3. Head(s2c).t \in {"notification", "error"}
      BY <3>1, <3>2, Zenon DEF Noise
    <3> QED  BY <1>1, <3>1, <3>2, <3>3, Zenon
  <2> QED  BY <2>1, <2>2, Zenon
<1>4. Resting'
  BY <1>1, <1>2, <1>3, Zenon DEF Resting
<1> QED  BY <1>3, <1>4, Zenon DEF Settled

\* What a packet of the server adds to the stream.
LEMMA CleanArriving ==
  ASSUME TypeOK, NEW x \in Packet
  PROVE  /\ x.t \in Noise /\ Only(s2c, Noise) => Only(Append(s2c, x), Noise)
         /\ Flowing(s2c, call) => EndsWith(Append(s2c, x), call, x)
         /\ Flowing(s2c, call) /\ Passing(x, call) => Flowing(Append(s2c, x), call)
         /\ x.t \in Noise => \A k \in 0 .. MaxCalls : \A y \in Packet : EndsWith(s2c, k, y) => EndsWith(Append(s2c, x), k, y)
         /\ x.t \in Noise /\ ResetAnswer(s2c, call, Noise) => ResetAnswer(Append(s2c, x), call, Noise)
<1>1. s2c \in Seq(Packet) /\ call \in 0 .. MaxCalls /\ "reset" \notin Noise
  BY Zenon DEF TypeOK, StreamOK, Noise
<1>2. x.t \in Noise /\ Only(s2c, Noise) => Only(Append(s2c, x), Noise)
  BY <1>1, StreamAppend, Zenon
<1>3. /\ Flowing(s2c, call) => EndsWith(Append(s2c, x), call, x)
      /\ Flowing(s2c, call) /\ Passing(x, call) => Flowing(Append(s2c, x), call)
  BY <1>1, FlowingStream, Zenon
<1>4. ASSUME NEW k \in 0 .. MaxCalls, NEW y \in Packet, EndsWith(s2c, k, y), x.t \in Noise
      PROVE  EndsWith(Append(s2c, x), k, y)
  BY <1>1, <1>4, EndingStream, Zenon
<1>5. x.t \in Noise /\ ResetAnswer(s2c, call, Noise) => ResetAnswer(Append(s2c, x), call, Noise)
  BY <1>1, ResetStream, Zenon
<1> QED  BY <1>2, <1>3, <1>4, <1>5, Zenon

LEMMA CleanServer ==
  ASSUME TypeOK, Settled, ServerSide
  PROVE  Settled'
<1>0. UNCHANGED <<pc, call, cancelling, isBreak, rcv, snd, pending>>
  BY ServerLeavesClient, Zenon DEF Quiet, client, flags
<1>1. pending = <<>> /\ call \in 0 .. MaxCalls
  BY Zenon DEF Settled, TypeOK
<1>2. ASSUME c2s # <<>>, srv = "idle" \/ Head(c2s).t # "reset"
      PROVE  Reading /\ Asked /\ c2s = <<Req(<<call>>)>> /\ Head(c2s) = Req(<<call>>)
  <2>1. <<Ctl("reset")>> = c2s => Head(c2s).t = "reset"
    BY DEF Ctl
  <2>2. Reading /\ Asked
    BY <1>2, <2>1, ZenonT(30) DEF Settled, Resting, Reading, Running, Raised, Answered, Resetting, OutDone
  <2> QED  BY <2>2, OneElement, Zenon DEF Asked
<1>3. ASSUME srv = "exec"
      PROVE  Reading /\ Running /\ ~isBreak /\ Head(work) = call /\ Len(work) = 1
  <2>1. Reading /\ Running
    BY <1>3, Zenon DEF Settled, Resting, Reading, Asked, Raised, Answered, Resetting
  <2> QED  BY <2>1, OneElement, Zenon DEF Running, Reading
<1>4. Data(call, TRUE) \in Packet /\ Data(call, FALSE) \in Packet /\ Pkt("break") \in Packet
  BY <1>1, PacketTypesOK, ZenonT(30) DEF PacketTypes
<1>5. CASE ServerTakes
  <2>1. Reading /\ Asked /\ c2s = <<Req(<<call>>)>> /\ Head(c2s) = Req(<<call>>)
    BY <1>2, <1>5, Zenon DEF ServerTakes
  <2>2. c2s' = <<>> /\ s2c' = s2c /\ srv' = "exec" /\ work' = <<call>> /\ last' = call
    BY <1>5, <2>1, OneElement DEF ServerTakes, Start, Req
  <2>3. Flowing(s2c, call)
    BY <2>1, NoiseFlows, Zenon DEF Asked
  <2>4. Running'
    BY <1>0, <2>1, <2>2, <2>3, Zenon DEF Running, Asked, Unread, OutDone
  <2> QED  BY <1>0, <1>1, <2>1, <2>4, Zenon DEF Settled, Reading
<1>6. CASE ServerSends
  <2>1. Reading /\ Running /\ Head(work) = call
    BY <1>3, <1>6, Zenon DEF ServerSends
  <2>2. s2c' = Append(s2c, Data(call, FALSE)) /\ UNCHANGED <<c2s, srv, work, last>>
    BY <1>6, <2>1, ZenonT(30) DEF ServerSends
  <2>3. Passing(Data(call, FALSE), call)
    BY Zenon DEF Passing, Data
  <2>4. Running'
    BY <1>0, <1>4, <2>1, <2>2, <2>3, CleanArriving, Zenon DEF Running, Unread, OutDone
  <2> QED  BY <1>0, <1>1, <2>1, <2>4, Zenon DEF Settled, Reading
<1>7. CASE ServerEnds
  <2>1. Reading /\ Running /\ Head(work) = call /\ Len(work) = 1
    BY <1>3, <1>7, Zenon DEF ServerEnds
  <2>2. s2c' = Append(s2c, Data(call, TRUE)) /\ srv' = "idle" /\ c2s' = c2s
    <3>1. ~(Len(work) > 1)
      BY <2>1
    <3> QED  BY <1>7, <2>1, <3>1, ZenonT(30) DEF ServerEnds
  <2>3. EndsWith(s2c', call, Data(call, TRUE))
    BY <1>4, <2>1, <2>2, CleanArriving, Zenon DEF Running
  <2>4. Answered'
    BY <1>0, <1>1, <2>1, <2>2, <2>3, ZenonT(30) DEF Answered, Running, Unread, OutDone
  <2> QED  BY <1>0, <1>1, <2>1, <2>4, Zenon DEF Settled, Reading
<1>8. CASE ServerRaises
  <2>1. Reading /\ Running
    BY <1>3, <1>8, Zenon DEF ServerRaises
  <2>2. s2c' = Append(s2c, Pkt("break")) /\ srv' = "break" /\ UNCHANGED <<c2s, last>>
    BY <1>8, Zenon DEF ServerRaises
  <2>3. EndsWith(s2c', call, Pkt("break"))
    BY <1>4, <2>1, <2>2, CleanArriving, Zenon DEF Running
  <2>4. Raised'
    BY <1>0, <2>1, <2>2, <2>3, Zenon DEF Raised, Running, Unread, OutDone
  <2> QED  BY <1>0, <1>1, <2>1, <2>4, Zenon DEF Settled, Reading
<1>9. CASE ServerInterrupted \/ ServerCloses
  <2>1. c2s # <<>> /\ Head(c2s).t \in {"interrupt", "torn"}
    BY <1>9, Zenon DEF ServerInterrupted, ServerCloses
  <2>2. Head(c2s).t = "data"
    BY <1>2, <2>1 DEF Req
  <2> QED  BY <2>1, <2>2, Zenon
<1>10. CASE ServerDiscards
  <2>1. c2s # <<>> /\ Head(c2s).t # "reset" /\ srv = "break"
    BY <1>10, Zenon DEF ServerDiscards
  <2> QED  BY <1>2, <2>1, Zenon DEF Asked
<1>11. CASE ServerResets
  <2>1. c2s # <<>> /\ Head(c2s).t = "reset"
    BY <1>11, Zenon DEF ServerResets
  <2>2. c2s # <<Req(<<call>>)>>
    BY <2>1, OneElement DEF Req
  <2>3. Resetting /\ pc = "reset" /\ c2s = <<Ctl("reset")>> /\ srv = "break" /\ Only(s2c, Noise)
    BY <2>1, <2>2, Zenon DEF Settled, Resting, Reading, Asked, Running, Raised, Answered, Resetting, OutDone
  <2>4. /\ c2s' = <<>> /\ srv' = "idle" /\ last' = last /\ last = call
        /\ s2c' = s2c \o <<Pkt("reset"), Data(call, TRUE)>>
    BY <1>11, <2>3, OneElement, Zenon DEF ServerResets, Resetting
  <2>5. ResetAnswer(s2c', call, Noise)
    BY <1>1, <2>3, <2>4, ServerAnswersReset, ZenonT(30) DEF TypeOK, StreamOK
  <2>6. Resetting'
    BY <1>0, <2>3, <2>4, <2>5, Zenon DEF Resetting
  <2> QED  BY <1>0, <1>1, <2>6, Zenon DEF Settled
<1>12. CASE ServerNotifies
  <2>1. PICK t \in {"notification", "error"} : s2c' = Append(s2c, Pkt(t))
    BY <1>12, Zenon DEF ServerNotifies
  <2>2. Pkt(t) \in Packet /\ Pkt(t).t \in Noise
    BY PacketTypesOK, ZenonT(30) DEF PacketTypes, Noise
  <2>3. UNCHANGED <<c2s, srv, work, last>>
    BY <1>12, Zenon DEF ServerNotifies
  <2>4. Passing(Pkt(t), call)
    BY <2>2, Zenon DEF Passing
  <2>5. /\ Only(s2c, Noise) => Only(s2c', Noise)
        /\ Flowing(s2c, call) => Flowing(s2c', call)
        /\ \A k \in 0 .. MaxCalls : \A y \in Packet : EndsWith(s2c, k, y) => EndsWith(s2c', k, y)
        /\ ResetAnswer(s2c, call, Noise) => ResetAnswer(s2c', call, Noise)
    BY <2>1, <2>2, <2>4, CleanArriving, ZenonT(30)
  <2>6. Resting => Resting'
    BY <1>0, <2>3, <2>5, Zenon DEF Resting
  <2>7. Asked => Asked'
    BY <1>0, <2>3, <2>5, Zenon DEF Asked
  <2>8. Running => Running'
    BY <1>0, <2>3, <2>5, Zenon DEF Running, Unread, OutDone
  <2>9. Raised => Raised'
    BY <1>0, <1>1, <1>4, <2>3, <2>5, Zenon DEF Raised, Unread, OutDone
  <2>10. ASSUME Answered  PROVE Answered'
    <3>1. \A k \in 0 .. MaxCalls : EndsWith(s2c, k, Data(k, TRUE)) => EndsWith(s2c', k, Data(k, TRUE))
      BY <2>5, PacketTypesOK, ZenonT(30)
    <3> QED  BY <1>0, <2>3, <2>5, <2>10, <3>1, Zenon DEF Answered, OutDone
  <2>11. Resetting => Resetting'
    BY <1>0, <2>3, <2>5, Zenon DEF Resetting
  <2> QED  BY <1>0, <1>1, <2>6, <2>7, <2>8, <2>9, <2>10, <2>11, Zenon DEF Settled, Reading
<1> QED  BY <1>5, <1>6, <1>7, <1>8, <1>9, <1>10, <1>11, <1>12, Zenon DEF ServerSide, ServerSteps


\* A read that fails leaves the session dirty.
LEMMA ReadFails == ReceiveFails => dirty' /\ pc' # "fill"
BY Zenon DEF ReceiveFails, ResetFails

LEMMA CleanKept ==
  ASSUME TypeOK, Markers, Clean, [Next]_vars
  PROVE  Clean'
<1>1. ClientSide \/ ServerSide
  BY NextSides, Zenon
<1>2. (pc = "fill" => rcv.st # "data")'
  <2>1. CASE ServerSide \/ UNCHANGED vars
    BY <2>1, ServerLeavesClient, Zenon DEF Clean, Quiet, client, vars
  <2>2. CASE ClientSide /\ ~UNCHANGED vars
    <3>1. CASE PrepareReadBuffer \/ RecvReset
      BY <3>1 DEF PrepareReadBuffer, RecvReset, Rcv
    <3>2. CASE Call \/ FlushOk \/ FlushFails \/ Consume \/ GiveUp \/ ReadEOF
      BY <3>2, ZenonT(30) DEF Call, FlushOk, FlushFails, Consume, GiveUp, ReadEOF
    <3>3. CASE RecvData \/ RecvNotification
      BY <3>3, ZenonT(30) DEF RecvData, RecvNotification, PacketReturned
    <3>4. CASE RecvError \/ RecvClosed
      BY <3>4, ReadFails, Zenon DEF RecvError, RecvClosed
    <3>5. CASE RecvBreak
      BY <3>5, ZenonT(30) DEF RecvBreak
    <3>6. CASE RecvInterrupted
      BY <3>6, ReadFails, Zenon DEF RecvInterrupted
    <3>7. CASE CancelOperation \/ Reset
      BY <3>7, ZenonT(30) DEF CancelOperation, Reset, ResetFails
    <3>8. CASE CheckStored \/ CheckRead \/ CheckTimeout
      BY <3>8, ZenonT(30) DEF CheckStored, CheckRead, CheckTimeout, client
    <3> QED  BY <2>2, <3>1, <3>2, <3>3, <3>4, <3>5, <3>6, <3>7, <3>8, Zenon DEF ClientSide, ClientSteps, Receive
  <2> QED  BY <1>1, <2>1, <2>2, Zenon
<1>3. ASSUME ~dirty', ~CancelPhase', pc' # "cancel"
      PROVE  Settled'
  <2>1. CASE Call \/ FlushOk \/ Consume \/ PrepareReadBuffer
    <3>1. Settled
      BY <1>3, <2>1, Zenon DEF Clean, Call, FlushOk, Consume, PrepareReadBuffer, CancelPhase, pool
    <3> QED  BY <2>1, <3>1, CleanSend, CleanRead, Zenon
  <2>2. CASE FlushFails \/ GiveUp \/ ReadEOF \/ RecvError \/ RecvClosed \/ RecvInterrupted \/ CancelOperation
    BY <1>3, <2>2, ReadFails, ZenonT(30) DEF FlushFails, GiveUp, ReadEOF, RecvError, RecvClosed, RecvInterrupted, CancelOperation,
       CancelPhase
  <2>3. CASE Reset
    <3>1. /\ pc = "sendReset" /\ pc' = "reset" /\ c2s' = Append(c2s, Ctl("reset")) /\ ~dirty /\ resume # "cancel"
          /\ UNCHANGED <<isBreak, rcv, snd, last, call, srv, s2c, pending>>
      BY <1>3, <2>3 DEF Reset, ResetFails, CancelPhase, pool, flags, server
    <3>2. pending = <<>> /\ Resetting
      BY <3>1, Zenon DEF Clean, CancelPhase, Settled, Resting, Reading
    <3>3. c2s' = <<Ctl("reset")>>
      BY <3>1, <3>2, OneElement, Zenon DEF Resetting
    <3>4. Resetting'
      BY <3>1, <3>2, <3>3, Zenon DEF Resetting
    <3> QED  BY <3>1, <3>2, <3>4, Zenon DEF Settled
  <2>4. CASE RecvData \/ RecvNotification
    <3>1. /\ pc \in {"fill", "reset"} /\ ~dirty /\ (pc' = pc \/ pc = "fill") /\ resume' = resume
      BY <1>3, <2>4, SMTT(30) DEF RecvData, RecvNotification, PacketReturned, TakePacket, pool
    <3>2. Settled /\ ~CancelPhase
      BY <1>3, <3>1, Zenon DEF Clean, CancelPhase
    <3>3. CASE pc = "fill"
      BY <2>4, <3>2, <3>3, CleanFill, Zenon DEF Clean
    <3>4. CASE pc = "reset"
      BY <1>3, <2>4, <3>2, <3>4, CleanReset, Zenon
    <3> QED  BY <3>1, <3>3, <3>4, Zenon
  <2>5. CASE RecvBreak
    <3>1. /\ pc \in {"fill", "reset"} /\ ~dirty /\ (pc = "reset" => UNCHANGED <<pc, resume>>)
      BY <1>3, <2>5 DEF RecvBreak, TakePacket, pool
    <3>2. Settled /\ ~CancelPhase
      BY <1>3, <3>1, Zenon DEF Clean, CancelPhase
    <3>3. rcv.st # "data" \/ pc = "reset"
      BY <3>1, Zenon DEF Clean
    <3> QED  BY <1>3, <2>5, <3>2, <3>3, CleanReset, Zenon
  <2>6. CASE RecvReset
    <3>1. pc = "reset"
      BY <1>3, <2>6, Zenon DEF RecvReset
    <3>2. CASE CancelPhase
      BY <2>6, <3>1, <3>2, CleanCancel, Zenon
    <3>3. CASE ~CancelPhase
      <4>1. resume # "cancel" /\ dirty' = (dirty /\ resume # "cancel")
        BY <2>6, <3>1, <3>3, Zenon DEF RecvReset, CancelPhase
      <4>2. ~dirty
        BY <1>3, <4>1, ZenonT(30)
      <4>3. Settled
        BY <3>1, <3>3, <4>2, Zenon DEF Clean
      <4> QED  BY <1>3, <2>6, <3>1, <3>3, <4>3, CleanReset, Zenon
    <3> QED  BY <3>2, <3>3, Zenon
  <2>7. CASE CheckStored \/ UNCHANGED vars
    <3>1. UNCHANGED <<pc, call, cancelling, resume, isBreak, rcv, pending, snd, c2s, s2c, srv, work, last, dirty>>
      BY <2>7, Zenon DEF CheckStored, vars, client, flags, server, pool
    <3>2. Settled
      BY <1>3, <3>1, Zenon DEF Clean, CancelPhase
    <3> QED  BY <3>1, <3>2, ZenonT(30) DEF Settled, Resting, Reading, Asked, Running, Raised, Answered, Resetting, Unread, OutDone
  <2>8. CASE CheckRead \/ CheckTimeout \/ ServerSide
    <3>1. UNCHANGED <<pc, resume, dirty>>
      BY <2>8, ServerLeavesClient, Zenon DEF CheckRead, CheckTimeout, Quiet, client, pool
    <3>2. Settled
      BY <1>3, <3>1, Zenon DEF Clean, CancelPhase
    <3> QED  BY <2>8, <3>2, CleanCheck, CleanServer, Zenon
  <2> QED  BY <1>1, <2>1, <2>2, <2>3, <2>4, <2>5, <2>6, <2>7, <2>8, Zenon DEF ClientSide, ClientSteps, Receive
<1> QED  BY <1>2, <1>3, Zenon DEF Clean

-----------------------------------------------------------------------------
(* Begun is preserved. *)

\* The requests under way are those of before, or fewer.
Fewer == \E d \in {0, 1} : \A i \in DOMAIN c2s' :
           c2s'[i].t = "data" => i \in Nat /\ i + d \in DOMAIN c2s /\ c2s'[i] = c2s[i + d]

LEMMA FewerRequests ==
  ASSUME Fewer
  PROVE  /\ OutOrdered => OutOrdered'
         /\ \A k \in Calls : (Unasked(k) => Unasked(k)') /\ (AskedOnce(k) => AskedOnce(k)')
<1>1. PICK d \in {0, 1} : \A i \in DOMAIN c2s' :
           c2s'[i].t = "data" => i \in Nat /\ i + d \in DOMAIN c2s /\ c2s'[i] = c2s[i + d]
  BY Zenon DEF Fewer
<1>2. OutOrdered => OutOrdered'
  BY <1>1, Zenon DEF OutOrdered, Increasing
<1>3. ASSUME NEW k \in Calls, NEW i \in DOMAIN c2s', Asks(i, k)'
      PROVE  i \in Nat /\ i + d \in DOMAIN c2s /\ Asks(i + d, k)
  BY <1>1, <1>3, Zenon DEF Asks
<1>4. ASSUME NEW k \in Calls, Unasked(k)  PROVE Unasked(k)'
  BY <1>3, <1>4, Zenon DEF Unasked
<1>5. ASSUME NEW k \in Calls, AskedOnce(k)  PROVE AskedOnce(k)'
  <2>1. ASSUME NEW i \in DOMAIN c2s', NEW j \in DOMAIN c2s', Asks(i, k)', Asks(j, k)'
        PROVE  i = j
    <3>1. i \in Nat /\ j \in Nat /\ i + d = j + d
      BY <1>3, <1>5, <2>1, Zenon DEF AskedOnce
    <3> QED  BY <3>1
  <2> QED  BY <2>1, Zenon DEF AskedOnce
<1> QED  BY <1>2, <1>4, <1>5, Zenon

LEMMA FewerSteps ==
  ASSUME TypeOK
  PROVE  /\ c2s' = c2s \/ c2s' = <<>> => Fewer
         /\ \A t \in {"interrupt", "reset", "torn"} : c2s' = Append(c2s, Ctl(t)) => Fewer
         /\ c2s # <<>> /\ c2s' = Tail(c2s) => Fewer
<1>1. c2s \in Seq(Sent) /\ Len(c2s) \in Nat /\ DOMAIN c2s = 1 .. Len(c2s)
  BY Elements, Zenon DEF TypeOK, OutOK
<1>2. ASSUME c2s' = c2s \/ c2s' = <<>>  PROVE Fewer
  <2>1. \A i \in DOMAIN c2s' : i \in Nat /\ i + 0 \in DOMAIN c2s /\ c2s'[i] = c2s[i + 0]
    BY <1>1, <1>2
  <2> QED  BY <2>1, Zenon DEF Fewer
<1>3. ASSUME NEW t \in {"interrupt", "reset", "torn"}, c2s' = Append(c2s, Ctl(t))  PROVE Fewer
  <2>1. Ctl(t) \in Sent /\ Ctl(t).t # "data"
    BY SentTypesOK, Zenon
  <2>2. /\ c2s' \in Seq(Sent) /\ Len(c2s') = Len(c2s) + 1 /\ \A i \in 1 .. Len(c2s) : c2s'[i] = c2s[i]
        /\ c2s'[Len(c2s) + 1] = Ctl(t)
    BY <1>1, <1>3, <2>1, Appended
  <2>3. DOMAIN c2s' = 1 .. (Len(c2s) + 1)
    BY <2>2, Elements, Zenon
  <2>4. \A i \in DOMAIN c2s' : c2s'[i].t = "data" => i \in Nat /\ i + 0 \in DOMAIN c2s /\ c2s'[i] = c2s[i + 0]
    BY <1>1, <2>1, <2>2, <2>3
  <2> QED  BY <2>4, Zenon DEF Fewer
<1>4. ASSUME c2s # <<>>, c2s' = Tail(c2s)  PROVE Fewer
  <2>1. c2s' \in Seq(Sent) /\ Len(c2s') = Len(c2s) - 1 /\ \A i \in 1 .. (Len(c2s) - 1) : c2s'[i] = c2s[i + 1]
    BY <1>1, <1>4, Tailed, Zenon
  <2>2. DOMAIN c2s' = 1 .. (Len(c2s) - 1)
    BY <2>1, Elements, Zenon
  <2>3. \A i \in DOMAIN c2s' : i \in Nat /\ i + 1 \in DOMAIN c2s /\ c2s'[i] = c2s[i + 1]
    BY <1>1, <2>1, <2>2
  <2> QED  BY <2>3, Zenon DEF Fewer
<1> QED  BY <1>2, <1>3, <1>4, Zenon


\* Steps that begin, buffer and send no request.
LEMMA RequestsDropped ==
  ASSUME TypeOK, Begun, Fewer, UNCHANGED <<execs, unsure, call>>, pc' = pc \/ pc # "flush",
         snd' = snd \/ snd' = <<>>, work' = work \/ work' = <<>>
  PROVE  Begun'
<1>1. Ordered'
  <2>1. Increasing(snd)' /\ Increasing(work)'
    BY DEF Begun, Ordered, Increasing
  <2> QED  BY <2>1, FewerRequests, Zenon DEF Begun, Ordered
<1>2. ASSUME NEW k \in Calls  PROVE Placed(k)'
  <2>1. Placed(k)
    BY Zenon DEF Begun
  <2>2. /\ Buffered(k)' => Buffered(k)
        /\ InWork(k)' => InWork(k)
        /\ \A b \in DOMAIN work' : b \in DOMAIN work /\ work'[b] = work[b]
    BY DEF Buffered, InWork
  <2>3. (Unasked(k) => Unasked(k)') /\ (AskedOnce(k) => AskedOnce(k)')
    BY FewerRequests, Zenon
  <2> QED  BY <2>1, <2>2, <2>3, Zenon DEF Placed, Fresh
<1>3. Calls' = Calls
  BY Zenon DEF Calls
<1> QED  BY <1>1, <1>2, <1>3, Zenon DEF Begun

\* A call begins.
LEMMA BegunCall ==
  ASSUME TypeOK, Begun, Call
  PROVE  Begun'
<1>0. /\ UNCHANGED <<c2s, work, execs, unsure>> /\ pc = "idle" /\ call < MaxCalls /\ call' = call + 1
      /\ snd \in Seq(Calls) /\ call \in Nat /\ MaxCalls \in Nat
  <2>1. pc = "idle" /\ call < MaxCalls /\ call' = call + 1 /\ UNCHANGED <<c2s, server, unsure>>
    BY Zenon DEF Call
  <2>2. snd \in Seq(Calls) /\ call \in Nat
    BY DEF TypeOK, OutOK
  <2> QED  BY <2>1, <2>2, BoundsAssumption, Zenon DEF server
<1>1. CASE isBreak
  <2>1. snd' = snd
    BY <1>1, Zenon DEF Call
  <2>2. Ordered'
    BY <1>0, <2>1, Zenon DEF Begun, Ordered, OutOrdered, Increasing
  <2>3. ASSUME NEW k \in Calls  PROVE Placed(k)'
    <3>1. Placed(k) /\ (k > call' => k > call)
      BY <1>0 DEF Begun, Calls
    <3>2. /\ Buffered(k)' <=> Buffered(k)
          /\ Unasked(k)' <=> Unasked(k)
          /\ AskedOnce(k)' <=> AskedOnce(k)
          /\ InWork(k)' <=> InWork(k)
      BY <1>0, <2>1 DEF Buffered, Unasked, AskedOnce, Asks, InWork
    <3> QED  BY <1>0, <3>1, <3>2, Zenon DEF Placed, Fresh
  <2> QED  BY <2>2, <2>3, Zenon DEF Begun, Calls
<1>2. CASE ~isBreak
  <2>1. pc' = "flush" /\ snd' = Append(snd, call + 1) /\ call + 1 \in Calls
    BY <1>0, <1>2, SMTT(30) DEF Call, Calls
  <2>2. /\ Len(snd) \in Nat /\ DOMAIN snd = 1 .. Len(snd) /\ DOMAIN snd' = 1 .. (Len(snd) + 1)
        /\ \A a \in 1 .. Len(snd) : snd'[a] = snd[a] /\ snd[a] \in Calls
        /\ snd'[Len(snd) + 1] = call + 1
    BY <1>0, <2>1, Appended, Elements, SMTT(30)
  <2>3. \A a \in DOMAIN snd : snd[a] < call + 1
    <3>1. ASSUME NEW a \in DOMAIN snd  PROVE snd[a] \in Nat /\ ~(snd[a] > call)
      <4>1. snd[a] \in Calls /\ Placed(snd[a]) /\ Buffered(snd[a])
        BY <2>2, Zenon DEF Begun, Buffered
      <4> QED  BY <1>0, <4>1, SMTT(30) DEF Placed, Calls
    <3> QED  BY <1>0, <3>1
  <2>4. Ordered'
    <3>1. Increasing(snd)'
      <4>1. ASSUME NEW a \in DOMAIN snd', NEW b \in DOMAIN snd', a < b  PROVE snd'[a] < snd'[b]
        <5>1. a \in DOMAIN snd /\ snd'[a] = snd[a]
          BY <2>2, <4>1
        <5>2. CASE b \in DOMAIN snd
          BY <2>2, <4>1, <5>1, <5>2, Zenon DEF Begun, Ordered, Increasing
        <5>3. CASE b \notin DOMAIN snd
          <6>1. snd'[b] = call + 1
            BY <2>2, <5>3
          <6> QED  BY <2>3, <5>1, <6>1, Zenon
        <5> QED  BY <5>2, <5>3, Zenon
      <4> QED  BY <4>1, Zenon DEF Increasing
    <3>2. Increasing(work)' /\ OutOrdered'
      BY <1>0, Zenon DEF Begun, Ordered, OutOrdered, Increasing
    <3> QED  BY <3>1, <3>2, Zenon DEF Ordered
  <2>5. ASSUME NEW k \in Calls  PROVE Placed(k)'
    <3>1. Placed(k) /\ k \in Nat
      BY DEF Begun, Calls
    <3>2. k > call' => k > call /\ k # call + 1
      BY <1>0, <3>1
    <3>3. k = call + 1 => k > call
      BY <1>0, <3>1
    <3>4. Buffered(k)' => Buffered(k) \/ k = call + 1
      BY <2>2 DEF Buffered
    <3>5. /\ Unasked(k)' <=> Unasked(k)
          /\ AskedOnce(k)' <=> AskedOnce(k)
          /\ InWork(k)' <=> InWork(k)
      BY <1>0, ZenonT(30) DEF Unasked, AskedOnce, Asks, InWork
    <3> QED  BY <1>0, <2>1, <3>1, <3>2, <3>3, <3>4, <3>5, Zenon DEF Placed, Fresh
  <2> QED  BY <2>4, <2>5, Zenon DEF Begun, Calls
<1> QED  BY <1>1, <1>2, Zenon

\* A request is sent: what a failed Flush may have sent is in unsure.
LEMMA BegunFlush ==
  ASSUME TypeOK, Begun, FlushOk \/ FlushFails, c2s' = Append(c2s, Req(snd))
  PROVE  Begun'
<1>0. /\ UNCHANGED <<work, execs, call>> /\ pc = "flush" /\ snd \in Seq(Calls) /\ c2s \in Seq(Sent)
      /\ \/ snd' = <<>> /\ unsure' = unsure
         \/ snd' = snd /\ unsure' = unsure \cup {snd[i] : i \in DOMAIN snd}
  BY ZenonT(30) DEF FlushOk, FlushFails, server, TypeOK, OutOK
<1> DEFINE n == Len(c2s)
<1>1. Req(snd) \in Sent /\ Req(snd).t = "data" /\ Req(snd).calls = snd
  BY <1>0, SentTypesOK, Zenon
<1>2. /\ n \in Nat /\ DOMAIN c2s = 1 .. n /\ DOMAIN c2s' = 1 .. (n + 1)
      /\ \A i \in 1 .. n : c2s'[i] = c2s[i]
      /\ c2s'[n + 1] = Req(snd)
  BY <1>0, <1>1, Appended, Elements, SMTT(30)
<1> HIDE DEF n
<1>3. ASSUME NEW i \in DOMAIN c2s'
      PROVE  (i \in DOMAIN c2s /\ c2s'[i] = c2s[i]) \/ (i = n + 1 /\ c2s'[i].calls = snd /\ c2s'[i].t = "data")
  BY <1>1, <1>2, SMTT(30)
<1>4. Ordered'
  <2>1. Increasing(snd)' /\ Increasing(work)'
    BY <1>0 DEF Begun, Ordered, Increasing
  <2>2. OutOrdered'
    BY <1>0, <1>3, SMTT(30) DEF Begun, Ordered, OutOrdered, Increasing
  <2> QED  BY <2>1, <2>2, Zenon DEF Ordered
<1>5. ASSUME NEW k \in Calls  PROVE Placed(k)'
  <2>1. Placed(k)
    BY Zenon DEF Begun
  <2>2. ASSUME NEW i \in DOMAIN c2s', Asks(i, k)'
        PROVE  (i \in DOMAIN c2s /\ Asks(i, k)) \/ (i = n + 1 /\ Buffered(k))
    BY <1>3, <2>2, Zenon DEF Asks, Buffered
  <2>3. Unasked(k) /\ ~Buffered(k) => Unasked(k)'
    BY <2>2, Zenon DEF Unasked
  <2>4. Unasked(k) \/ (AskedOnce(k) /\ ~Buffered(k)) => AskedOnce(k)'
    BY <2>2, Zenon DEF Unasked, AskedOnce
  <2>5. /\ InWork(k)' <=> InWork(k)
        /\ Buffered(k)' => Buffered(k)
        /\ Buffered(k)' => k \in unsure'
        /\ unsure \subseteq unsure'
    BY <1>0 DEF InWork, Buffered
  <2> QED  BY <1>0, <2>1, <2>3, <2>4, <2>5, Zenon DEF Placed, Fresh
<1> QED  BY <1>4, <1>5, Zenon DEF Begun, Calls


\* A Flush fails before the whole packet is on the wire.
LEMMA BegunTorn ==
  ASSUME TypeOK, Begun, FlushFails, c2s' = c2s \/ c2s' = Append(c2s, Ctl("torn"))
  PROVE  Begun'
<1>0. /\ UNCHANGED <<work, execs, call, snd>> /\ unsure' = unsure \cup {snd[i] : i \in DOMAIN snd}
  BY Zenon DEF FlushFails, server
<1>1. Fewer
  BY FewerSteps, Zenon
<1>2. Ordered'
  <2>1. Increasing(snd)' /\ Increasing(work)'
    BY <1>0, Zenon DEF Begun, Ordered, Increasing
  <2> QED  BY <1>1, <2>1, FewerRequests, Zenon DEF Begun, Ordered
<1>3. ASSUME NEW k \in Calls  PROVE Placed(k)'
  <2>1. Placed(k)
    BY Zenon DEF Begun
  <2>2. /\ InWork(k)' <=> InWork(k)
        /\ Buffered(k)' <=> Buffered(k)
        /\ Buffered(k)' => k \in unsure'
        /\ unsure \subseteq unsure'
    BY <1>0, Zenon DEF InWork, Buffered
  <2>3. (Unasked(k) => Unasked(k)') /\ (AskedOnce(k) => AskedOnce(k)')
    BY <1>1, FewerRequests, Zenon
  <2> QED  BY <1>0, <2>1, <2>2, <2>3, Zenon DEF Placed, Fresh
<1> QED  BY <1>2, <1>3, Zenon DEF Begun, Calls

\* The server begins the first of the requests ks.
LEMMA Starting ==
  ASSUME TypeOK, NEW ks \in Seq(Calls), ks # <<>>, Increasing(ks), Start(ks)
  PROVE  /\ Increasing(work)' /\ Head(ks) \in Calls
         /\ \A k \in Calls : /\ InWork(k)' => \E b \in DOMAIN ks : ks[b] = k
                             /\ execs'[k] = IF k = Head(ks) THEN execs[k] + 1 ELSE execs[k]
                             /\ execs[k] \in Nat
                             /\ \A b \in DOMAIN work' : b > 1 /\ work'[b] = k => k # Head(ks)
<1>1. work' = ks /\ execs' = [execs EXCEPT ![Head(ks)] = @ + 1] /\ execs \in [Calls -> Nat]
  BY Zenon DEF Start, TypeOK, ServerOK
<1>2. Head(ks) \in Calls /\ Head(ks) = ks[1] /\ 1 \in DOMAIN ks /\ \A b \in DOMAIN ks : b \in Nat /\ ks[b] \in Nat
  <2>1. Len(ks) \in Nat /\ Len(ks) # 0 /\ DOMAIN ks = 1 .. Len(ks) /\ \A b \in 1 .. Len(ks) : ks[b] \in Calls
    BY Elements
  <2>2. Head(ks) \in Calls /\ Head(ks) = ks[1]
    BY Tailed, Zenon
  <2>3. 1 \in 1 .. Len(ks) /\ \A b \in 1 .. Len(ks) : b \in Nat
    BY <2>1
  <2> QED  BY <2>1, <2>2, <2>3 DEF Calls
<1>3. ASSUME NEW k \in Calls
      PROVE  execs'[k] = (IF k = Head(ks) THEN execs[k] + 1 ELSE execs[k]) /\ execs[k] \in Nat
  BY <1>1, <1>2, CountedUp, Zenon
<1>4. ASSUME NEW b \in DOMAIN ks, b > 1  PROVE ks[b] # Head(ks)
  <2>1. ks[1] < ks[b]
    BY <1>2, <1>4, Zenon DEF Increasing
  <2> QED  BY <1>2, <2>1
<1>5. Increasing(work)'
  BY <1>1, Zenon DEF Increasing
<1> QED  BY <1>1, <1>2, <1>3, <1>4, <1>5, Zenon DEF InWork

LEMMA BegunTakes ==
  ASSUME TypeOK, Begun, ServerTakes
  PROVE  Begun'
<1>0. /\ c2s # <<>> /\ c2s' = Tail(c2s) /\ Head(c2s).t = "data" /\ Start(Head(c2s).calls)
      /\ UNCHANGED <<pc, call, snd, unsure>>
  BY Zenon DEF ServerTakes, Quiet, client
<1> DEFINE ks == Head(c2s).calls
<1>1. ks \in Seq(Calls) /\ ks # <<>>
  BY <1>0, Serving, Zenon
<1>2. /\ 1 \in DOMAIN c2s /\ Head(c2s) = c2s[1]
      /\ \A i \in DOMAIN c2s' : i \in Nat /\ i + 1 \in DOMAIN c2s /\ i + 1 # 1 /\ c2s'[i] = c2s[i + 1]
  <2>1. c2s \in Seq(Sent) /\ Len(c2s) \in Nat /\ Len(c2s) # 0 /\ DOMAIN c2s = 1 .. Len(c2s)
    BY <1>0, Elements, Zenon DEF TypeOK, OutOK
  <2>2. /\ c2s' \in Seq(Sent) /\ Len(c2s') = Len(c2s) - 1 /\ Head(c2s) = c2s[1]
        /\ \A i \in 1 .. (Len(c2s) - 1) : c2s'[i] = c2s[i + 1]
    BY <1>0, <2>1, Tailed, Zenon
  <2>3. DOMAIN c2s' = 1 .. (Len(c2s) - 1)
    BY <2>2, Elements, Zenon
  <2> QED  BY <2>1, <2>2, <2>3
<1>3. Increasing(ks)
  BY <1>0, <1>2, Zenon DEF Begun, Ordered, OutOrdered
<1>4. \A k \in Calls : Asks(1, k) <=> \E b \in DOMAIN ks : ks[b] = k
  BY <1>0, <1>2, Zenon DEF Asks
<1> HIDE DEF ks
<1>5. /\ Increasing(work)' /\ Head(ks) \in Calls
      /\ \A k \in Calls : /\ InWork(k)' => Asks(1, k)
                          /\ execs'[k] = IF k = Head(ks) THEN execs[k] + 1 ELSE execs[k]
                          /\ execs[k] \in Nat
                          /\ \A b \in DOMAIN work' : b > 1 /\ work'[b] = k => k # Head(ks)
  <2>1. Start(ks)
    BY <1>0, Zenon DEF ks
  <2> QED  BY <1>1, <1>3, <1>4, <2>1, Starting, ZenonT(30)
<1>6. Fewer
  BY <1>0, FewerSteps, Zenon
<1>7. Ordered'
  <2>1. Increasing(snd)'
    BY <1>0, Zenon DEF Begun, Ordered, Increasing
  <2> QED  BY <1>5, <1>6, <2>1, FewerRequests, ZenonT(30) DEF Begun, Ordered
<1>8. Asks(1, Head(ks))
  <2>1. 1 \in DOMAIN ks /\ Head(ks) = ks[1]
    <3>1. Len(ks) \in Nat /\ Len(ks) # 0 /\ DOMAIN ks = 1 .. Len(ks)
      BY <1>1, Elements, Zenon
    <3>2. 1 \in 1 .. Len(ks)
      BY <3>1
    <3> QED  BY <1>1, <3>1, <3>2, Tailed, Zenon
  <2> QED  BY <1>4, <1>5, <2>1, Zenon
<1>9. ASSUME NEW k \in Calls  PROVE Placed(k)'
  <2>1. Placed(k) /\ (Unasked(k) => ~Asks(1, k))
    BY <1>2, Zenon DEF Begun, Unasked
  <2>2. (Unasked(k) => Unasked(k)') /\ (AskedOnce(k) => AskedOnce(k)')
    BY <1>6, FewerRequests, Zenon
  <2>3. AskedOnce(k) /\ Asks(1, k) => Unasked(k)'
    <3>1. ASSUME NEW i \in DOMAIN c2s', Asks(i, k)'  PROVE i + 1 \in DOMAIN c2s /\ i + 1 # 1 /\ Asks(i + 1, k)
      BY <1>2, <3>1, Zenon DEF Asks
    <3> QED  BY <1>2, <3>1, Zenon DEF AskedOnce, Unasked
  <2>4. Buffered(k)' <=> Buffered(k)
    BY <1>0, Zenon DEF Buffered
  <2>5. /\ InWork(k)' => Asks(1, k)
        /\ execs'[k] = IF k = Head(ks) THEN execs[k] + 1 ELSE execs[k]
        /\ execs[k] \in Nat
        /\ \A b \in DOMAIN work' : b > 1 /\ work'[b] = k => k # Head(ks)
        /\ \A b \in DOMAIN work' : work'[b] = k => InWork(k)'
        /\ k = Head(ks) => Asks(1, k)
    BY <1>5, <1>8, Zenon DEF InWork
  <2>6. Fresh(k) => Fresh(k)'
    BY <2>1, <2>2, <2>5, Zenon DEF Fresh
  <2>7. CASE Asks(1, k)
    <3>1. ~(k > call)
      BY <2>1, <2>7, Zenon DEF Placed, Fresh
    <3>2. k \notin unsure => execs[k] = 0 /\ Unasked(k)' /\ AskedOnce(k)' /\ ~Buffered(k)
      BY <2>1, <2>2, <2>3, <2>7, Zenon DEF Placed, Fresh
    <3>3. k \notin unsure => execs'[k] <= 1 /\ \A b \in DOMAIN work' : b > 1 /\ work'[b] = k => execs'[k] = 0
      BY <2>5, <3>2, SMTT(30)
    <3> QED  BY <1>0, <2>4, <3>1, <3>2, <3>3, Zenon DEF Placed
  <2>8. CASE ~Asks(1, k)
    <3>1. ~InWork(k)' /\ execs'[k] = execs[k] /\ \A b \in DOMAIN work' : work'[b] # k
      BY <2>5, <2>8, Zenon
    <3> QED  BY <1>0, <2>1, <2>2, <2>4, <2>6, <3>1, Zenon DEF Placed
  <2> QED  BY <2>7, <2>8, Zenon
<1> QED  BY <1>7, <1>9, Zenon DEF Begun, Calls


\* The server goes on with the next request of the same packet.
LEMMA BegunEnds ==
  ASSUME TypeOK, Begun, ServerEnds, Len(work) > 1
  PROVE  Begun'
<1>0. Start(Tail(work)) /\ UNCHANGED <<pc, call, snd, unsure, c2s>> /\ work \in Seq(Calls) /\ work # <<>>
  BY Zenon DEF ServerEnds, Quiet, client, TypeOK, ServerOK
<1> DEFINE ks == Tail(work)
<1>1. ks \in Seq(Calls) /\ ks # <<>>
  BY <1>0, TailLeft, Zenon
<1>2. /\ \A b \in DOMAIN ks : b \in Nat /\ b + 1 \in DOMAIN work /\ b + 1 > 1 /\ ks[b] = work[b + 1]
      /\ 1 \in DOMAIN ks /\ Head(ks) = ks[1]
  <2>1. /\ Len(work) \in Nat /\ DOMAIN work = 1 .. Len(work) /\ DOMAIN ks = 1 .. Len(ks) /\ Len(ks) = Len(work) - 1
        /\ \A b \in 1 .. (Len(work) - 1) : ks[b] = work[b + 1]
        /\ Head(ks) = ks[1]
    BY <1>0, <1>1, Tailed, Elements, Zenon
  <2> HIDE DEF ks
  <2> QED  BY <2>1
<1> HIDE DEF ks
<1>3. Increasing(ks)
  <2>1. ASSUME NEW a \in DOMAIN ks, NEW b \in DOMAIN ks, a < b  PROVE ks[a] < ks[b]
    <3>1. a + 1 < b + 1
      BY <1>2, <2>1
    <3>2. work[a + 1] < work[b + 1]
      BY <1>2, <3>1, Zenon DEF Begun, Ordered, Increasing
    <3> QED  BY <1>2, <3>2, Zenon
  <2> QED  BY <2>1, Zenon DEF Increasing
<1>4. \A k \in Calls : (\E b \in DOMAIN ks : ks[b] = k) => \E b \in DOMAIN work : b > 1 /\ work[b] = k
  BY <1>2, Zenon
<1>5. /\ Increasing(work)' /\ Head(ks) \in Calls
      /\ \A k \in Calls : /\ InWork(k)' => \E b \in DOMAIN ks : ks[b] = k
                          /\ execs'[k] = IF k = Head(ks) THEN execs[k] + 1 ELSE execs[k]
                          /\ execs[k] \in Nat
                          /\ \A b \in DOMAIN work' : b > 1 /\ work'[b] = k => k # Head(ks)
  <2>1. Start(ks)
    BY <1>0, Zenon DEF ks
  <2> QED  BY <1>1, <1>3, <2>1, Starting, Zenon
<1>6. Ordered'
  <2>1. Increasing(snd)' /\ OutOrdered'
    BY <1>0, Zenon DEF Begun, Ordered, OutOrdered, Increasing
  <2> QED  BY <1>5, <2>1, Zenon DEF Ordered
<1>7. ASSUME NEW k \in Calls  PROVE Placed(k)'
  <2>1. Placed(k)
    BY Zenon DEF Begun
  <2>2. /\ Buffered(k)' <=> Buffered(k)
        /\ Unasked(k)' <=> Unasked(k)
        /\ AskedOnce(k)' <=> AskedOnce(k)
    BY <1>0, SMTT(30) DEF Buffered, Unasked, AskedOnce, Asks
  <2>3. /\ InWork(k)' => \E b \in DOMAIN work : b > 1 /\ work[b] = k
        /\ k = Head(ks) => \E b \in DOMAIN work : b > 1 /\ work[b] = k
    BY <1>2, <1>4, <1>5, ZenonT(30)
  <2>4. (\E b \in DOMAIN work : b > 1 /\ work[b] = k) => InWork(k)
    BY Zenon DEF InWork
  <2>5. /\ execs'[k] = IF k = Head(ks) THEN execs[k] + 1 ELSE execs[k]
        /\ execs[k] \in Nat
        /\ \A b \in DOMAIN work' : b > 1 /\ work'[b] = k => k # Head(ks)
        /\ \A b \in DOMAIN work' : work'[b] = k => InWork(k)'
    BY <1>5, ZenonT(30) DEF InWork
  <2>6. Fresh(k) => Fresh(k)'
    BY <2>2, <2>3, <2>4, <2>5, ZenonT(30) DEF Fresh
  <2>7. k \notin unsure => execs'[k] <= 1 /\ \A b \in DOMAIN work' : b > 1 /\ work'[b] = k => execs'[k] = 0
    <3>1. k \notin unsure /\ (InWork(k)' \/ k = Head(ks)) => execs[k] = 0
      BY <2>1, <2>3, Zenon DEF Placed
    <3>2. k \notin unsure => execs[k] <= 1
      BY <2>1, Zenon DEF Placed
    <3> QED  BY <2>5, <3>1, <3>2, SMTT(30)
  <2>8. k \notin unsure => Unasked(k)' \/ (execs'[k] = 0 /\ ~InWork(k)')
    BY <2>1, <2>2, <2>3, <2>4, <2>5, Zenon DEF Placed
  <2> QED  BY <1>0, <2>1, <2>2, <2>6, <2>7, <2>8, Zenon DEF Placed
<1> QED  BY <1>6, <1>7, Zenon DEF Begun, Calls

LEMMA BegunKept ==
  ASSUME TypeOK, Begun, [Next]_vars
  PROVE  Begun'
<1>1. ClientSide \/ ServerSide
  BY NextSides, Zenon
<1>2. CASE Call
  BY <1>2, BegunCall, Zenon
<1>3. CASE FlushOk \/ FlushFails
  BY <1>3, BegunFlush, BegunTorn, ZenonT(30) DEF FlushOk, FlushFails
<1>4. CASE \/ Consume \/ GiveUp \/ PrepareReadBuffer \/ ReadEOF \/ Receive \/ RecvInterrupted \/ CancelOperation
           \/ Reset \/ CheckStored \/ CheckRead \/ CheckTimeout \/ UNCHANGED vars
  <2>1. UNCHANGED <<work, execs>>
    BY <1>4, ClientLeavesServer, Zenon DEF ClientSide, ClientSteps, server
  <2>2. UNCHANGED <<unsure, call>> /\ (snd' = snd \/ snd' = <<>>) /\ (pc' = pc \/ pc # "flush")
    BY <1>4, Zenon DEF Consume, GiveUp, PrepareReadBuffer, ReadEOF, Receive, RecvData, RecvNotification, RecvError, RecvBreak,
       RecvReset, RecvClosed, RecvInterrupted, CancelOperation, Reset, CheckStored, CheckRead, CheckTimeout, vars,
       client, TakePacket
  <2>3. c2s' = c2s \/ \E t \in {"interrupt", "reset", "torn"} : c2s' = Append(c2s, Ctl(t))
    BY <1>4, ZenonT(30) DEF Consume, GiveUp, PrepareReadBuffer, ReadEOF, Receive, RecvData, RecvNotification, RecvError, RecvBreak,
       RecvReset, RecvClosed, RecvInterrupted, CancelOperation, Reset, CheckStored, CheckRead, CheckTimeout, vars
  <2>4. Fewer
    BY <2>3, FewerSteps, Zenon
  <2> QED  BY <2>1, <2>2, <2>4, RequestsDropped, Zenon
<1>5. CASE ServerTakes
  BY <1>5, BegunTakes, Zenon
<1>6. CASE ServerEnds /\ Len(work) > 1
  BY <1>6, BegunEnds, Zenon
<1>7. CASE ServerSide /\ ~ServerTakes /\ ~(ServerEnds /\ Len(work) > 1)
  <2>1. UNCHANGED <<pc, call, snd, unsure>>
    BY <1>7, ServerLeavesClient, Zenon DEF Quiet, client
  <2>2. UNCHANGED execs /\ (work' = work \/ work' = <<>>)
    BY <1>7, Zenon DEF ServerSide, ServerSteps, ServerEnds, ServerInterrupted, ServerDiscards, ServerResets, ServerCloses,
       ServerSends, ServerRaises, ServerNotifies, server
  <2>3. c2s' = c2s \/ c2s' = <<>> \/ (c2s # <<>> /\ c2s' = Tail(c2s))
    BY <1>7, Zenon DEF ServerSide, ServerSteps, ServerEnds, ServerInterrupted, ServerDiscards, ServerResets, ServerCloses,
       ServerSends, ServerRaises, ServerNotifies
  <2>4. Fewer
    BY <2>3, FewerSteps, Zenon
  <2> QED  BY <2>1, <2>2, <2>4, RequestsDropped, Zenon
<1> QED  BY <1>1, <1>2, <1>3, <1>4, <1>5, <1>6, <1>7, Zenon DEF ClientSide, ClientSteps
-----------------------------------------------------------------------------
(* The results. *)

Inv == TypeOK /\ Markers /\ Clean /\ Begun

LEMMA InvInit == Init => Inv
<1> SUFFICES ASSUME Init  PROVE Inv
  BY Zenon
<1>1. TypeOK
  BY TypesInit, Zenon
<1>2. Markers
  BY EmptyStream, SMTT(30) DEF Init, Markers, NoBreak, CancelPhase
<1>3. Clean
  BY EmptyStream, Zenon DEF Init, Clean, Settled, Resting, Rcv
<1>4. Begun
  <2>1. Ordered
    BY SMTT(30) DEF Init, Ordered, OutOrdered, Increasing
  <2>2. ASSUME NEW k \in Calls  PROVE Placed(k)
    <3>1. execs[k] = 0 /\ ~Buffered(k) /\ ~InWork(k) /\ Unasked(k) /\ AskedOnce(k) /\ DOMAIN work = {}
      BY DEF Init, Buffered, InWork, Unasked, AskedOnce
    <3> QED  BY <3>1, SMTT(30) DEF Placed, Fresh
  <2> QED  BY <2>1, <2>2, Zenon DEF Begun
<1> QED  BY <1>1, <1>2, <1>3, <1>4, Zenon DEF Inv

LEMMA InvAlways == Spec => []Inv
<1>1. Inv /\ [Next]_vars => Inv'
  BY TypesKept, MarkersKept, CleanKept, BegunKept, Zenon DEF Inv
<1> QED  BY <1>1, InvInit, PTL DEF Spec

\* A read hands data of another call to the caller only if some call gave up
\* without break/reset, or it is the OER that answers the break/reset itself:
\* recvPacket delivers the packets of one answer, and Reset drops the rest.
THEOREM NoStaleDeliveryAlways == Spec => []NoStaleDelivery
<1>1. Inv => NoStaleDelivery
  <2> SUFFICES ASSUME Inv, pc = "read", rcv.st = "data", rcv.call # call, ~dirty, ~cancelling  PROVE FALSE
    BY Zenon DEF NoStaleDelivery
  <2>1. Reading
    BY Zenon DEF Inv, Clean, Settled, CancelPhase, Resting, Resetting
  <2> QED  BY <2>1, ZenonT(30) DEF Reading, Asked, Running, Raised, Answered, Unread
<1> QED  BY <1>1, InvAlways, PTL

\* Unless a call gave up, nothing is buffered, under way, owed or arriving between
\* calls, and outside the break state no marker of a break/reset exchange is
\* under way, so that Reset never takes a late reset marker for its own.
THEOREM QuietBetweenCallsAlways == Spec => []QuietBetweenCalls
<1>1. ASSUME Inv  PROVE QuietBetweenCalls
  <2>1. ASSUME pc = "idle", ~dirty
        PROVE  /\ snd = <<>> /\ c2s = <<>> /\ srv = "idle" /\ rcv.st # "data"
               /\ Arriving \cap {"data", "break", "reset"} = {}
    <3>1. Resting /\ pending = <<>>
      BY <1>1, <2>1, Zenon DEF Inv, Clean, Settled, CancelPhase, Reading, Resetting
    <3>2. Arriving \cap {"data", "break", "reset"} = {}
      BY <3>1, SMTT(30) DEF Arriving, Resting, Only, Noise
    <3> QED  BY <2>1, <3>1, <3>2, Zenon DEF Resting
  <2>2. ASSUME isValid, ~isBreak
        PROVE  InFlight = {} /\ "reset" \notin Arriving /\ ~isReset
    <3>1. NoBreak
      BY <1>1, <2>2, Zenon DEF Inv, Markers
    <3> QED  BY <3>1, Zenon DEF NoBreak, Without, InFlight, Arriving
  <2> QED  BY <2>1, <2>2, Zenon DEF QuietBetweenCalls
<1> QED  BY <1>1, InvAlways, PTL

\* The server begins a request at most once unless its Flush failed, whatever is
\* cancelled, reset or pushed back meanwhile.
THEOREM RepeatedOnlyAfterFailedFlushAlways == Spec => []RepeatedOnlyAfterFailedFlush
<1>1. ASSUME Inv  PROVE RepeatedOnlyAfterFailedFlush
  <2>1. ASSUME NEW k \in Calls, execs[k] > 1  PROVE k \in unsure
    <3>1. execs[k] \in Nat
      BY <1>1, Zenon DEF Inv, TypeOK, ServerOK
    <3>2. k \notin unsure => execs[k] <= 1
      BY <1>1, Zenon DEF Inv, Begun, Placed
    <3> QED  BY <2>1, <3>1, <3>2
  <2> QED  BY <2>1, Zenon DEF RepeatedOnlyAfterFailedFlush
<1> QED  BY <1>1, InvAlways, PTL

=============================================================================
