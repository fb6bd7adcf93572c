---------------------------- MODULE NetworkSession ----------------------------
(***************************************************************************)
(* An established Oracle Net session: nsprotocol.go and nschannel.go       *)
(* (recvPacket, processPacket, Reset, CancelOperation, Flush,              *)
(* PrepareReadBuffer, CheckInbandNotification) over the transport of       *)
(* tcpadapter.go, against an external server.                              *)
(*                                                                         *)
(* The driver uses a session from one goroutine at a time (StatementCancel *)
(* shows why), so the client is one sequential process.  It makes numbered *)
(* calls: write and flush a request, read packets until the last one of    *)
(* the answer (the OER), and, when the read is cancelled, break/reset and  *)
(* read the OER that follows.                                              *)
(***************************************************************************)
EXTENDS Naturals, Sequences

CONSTANTS MaxCalls,    \* calls the client makes
          MaxNotes,    \* control packets the server may send
          MaxExtra     \* non-final data packets the server may send

ASSUME BoundsAssumption == MaxCalls \in Nat /\ MaxNotes \in Nat /\ MaxExtra \in Nat

VARIABLES
  pc,          \* where the client is
  call,        \* current (or last) call
  cancelling,  \* the client reads the OER after break/reset, under its own timeout
  resume,      \* who called Reset: "fill" (recvPacket) or "cancel" (CancelOperation)
  isBreak, isReset,
  rcv,         \* rcvDatapkt: "empty" (len = offset), "data", "short" (len < offset)
  pending,     \* pendingPacket, a sequence of at most one packet
  errno,       \* controlPkt: "none", "notification" or "error"
  snd,         \* sndDatapkt: calls whose request bytes are buffered
  c2s, s2c,    \* packets under way in either direction
  srv,         \* server: "idle", "exec", "break", "closed"
  work,        \* requests the server has taken and not yet answered
  last,        \* the last request the server took
  notes, extra,
  execs,       \* how often the server began each call's request
  isValid,     \* connection._isValid
  dirty,       \* since the last CancelOperation a call gave up before its OER
  unsure       \* calls whose Flush failed

client  == <<pc, call, cancelling, resume>>
flags   == <<isBreak, isReset>>
server  == <<srv, work, last, notes, extra, execs>>
pool    == <<isValid, dirty>>
vars    == <<client, flags, rcv, pending, errno, snd, c2s, s2c, server, pool, unsure>>

Calls  == 1..MaxCalls
Pkt(t) == [t |-> t, call |-> 0, last |-> FALSE]
Data(k, final) == [t |-> "data", call |-> k, last |-> final]
Req(ks) == [t |-> "data", calls |-> ks]
Ctl(t) == [t |-> t, calls |-> <<>>]
Rcv(st) == [st |-> st, call |-> 0, last |-> FALSE]

Init ==
  /\ pc = "idle" /\ call = 0 /\ cancelling = FALSE /\ resume = "fill"
  /\ isBreak = FALSE /\ isReset = FALSE
  /\ rcv = Rcv("empty") /\ pending = <<>> /\ errno = "none" /\ snd = <<>>
  /\ c2s = <<>> /\ s2c = <<>>
  /\ srv = "idle" /\ work = <<>> /\ last = 0 /\ notes = 0 /\ extra = 0
  /\ execs = [k \in Calls |-> 0]
  /\ isValid = TRUE /\ dirty = FALSE /\ unsure = {}

-----------------------------------------------------------------------------
(* Sending. *)

\* Mutant: Flush forgets to reset sndDatapkt.
FlushKeepsBuffer ==
  /\ pc = "flush" /\ srv # "closed"
  /\ c2s' = Append(c2s, Req(snd)) /\ pc' = "read"
  /\ UNCHANGED <<call, cancelling, resume, flags, rcv, pending, errno, snd, s2c, server, pool, unsure>>

\* A call begins: its request is written to sndDatapkt, behind whatever a
\* failed Flush left there.  In the break state Send and Flush do nothing.
Call ==
  /\ pc = "idle" /\ isValid /\ call < MaxCalls
  /\ call' = call + 1 /\ cancelling' = FALSE
  /\ IF isBreak THEN pc' = "read" /\ UNCHANGED snd
                ELSE pc' = "flush" /\ snd' = Append(snd, call + 1)
  /\ UNCHANGED <<resume, flags, rcv, pending, errno, c2s, s2c, server, pool, unsure>>

FlushOk ==
  /\ pc = "flush" /\ srv # "closed"
  /\ c2s' = Append(c2s, Req(snd)) /\ snd' = <<>> /\ pc' = "read"
  /\ UNCHANGED <<call, cancelling, resume, flags, rcv, pending, errno, s2c, server, pool, unsure>>

\* SendPacket fails (context done, send timeout, closed socket).  sndDatapkt is
\* kept although all of it, or a part of it, may be on the wire.
FlushFails ==
  /\ pc = "flush"
  /\ c2s' \in {c2s, Append(c2s, Req(snd)), Append(c2s, Ctl("torn"))}
  /\ pc' = "idle" /\ dirty' = TRUE
  /\ unsure' = unsure \cup {snd[i] : i \in DOMAIN snd}
  /\ UNCHANGED <<call, cancelling, resume, flags, rcv, pending, errno, snd, s2c, server, isValid>>

-----------------------------------------------------------------------------
(* Reading. *)

\* Mutant: the read does not advance the offset past the last packet.
ConsumeNoAdvance ==
  /\ pc = "read" /\ rcv.st = "data"
  /\ rcv' = IF rcv.last THEN rcv ELSE Rcv("empty")
  /\ pc' = IF rcv.last THEN "idle" ELSE "read"
  /\ UNCHANGED <<call, cancelling, resume, flags, pending, errno, snd, c2s, s2c, server, pool, unsure>>

\* PrepareReadBuffer and the read that follows it, by what rcvDatapkt holds:
\* data is consumed (the OER ends the call, unless the caller gives up on a
\* packet it cannot use), an empty buffer is filled after len is set to bufLen,
\* which is 0, and a short one makes PrepareReadBuffer return with nothing.
Consume ==
  /\ pc = "read" /\ rcv.st = "data"
  /\ rcv' = Rcv("empty")
  /\ pc' = IF rcv.last THEN "idle" ELSE "read"
  /\ UNCHANGED <<call, cancelling, resume, flags, pending, errno, snd, c2s, s2c, server, pool, unsure>>

GiveUp ==
  /\ pc = "read" /\ rcv.st = "data"
  /\ pc' = "idle" /\ dirty' = TRUE
  /\ rcv' \in {rcv, Rcv("empty")}
  /\ UNCHANGED <<call, cancelling, resume, flags, pending, errno, snd, c2s, s2c, server, isValid, unsure>>

PrepareReadBuffer ==
  /\ pc = "read" /\ rcv.st # "data"
  /\ IF rcv.st = "empty" THEN rcv' = Rcv("short") /\ pc' = "fill"
                         ELSE rcv' = rcv /\ pc' = "nodata"
  /\ UNCHANGED <<call, cancelling, resume, flags, pending, errno, snd, c2s, s2c, server, pool, unsure>>

\* ReadByte on a short buffer: io.EOF, which is no context error.
ReadEOF ==
  /\ pc = "nodata"
  /\ pc' = "idle" /\ dirty' = TRUE
  /\ UNCHANGED <<call, cancelling, resume, flags, rcv, pending, errno, snd, c2s, s2c, server, isValid, unsure>>

-----------------------------------------------------------------------------
(* recvPacket and processPacket.  It is called from fillReadBuffer ("fill")  *)
(* and from the loop of Reset ("reset", resetInProgress).                    *)

\* Reset returns an error: CancelOperation's caller marks the connection
\* invalid and still tries to read the OER; in fillReadBuffer isBreak masks the
\* error by BreakPacketReceived, which is no context error.
ResetFails ==
  IF resume = "cancel"
    THEN /\ isValid' = FALSE /\ dirty' = TRUE
         /\ pc' = "read" /\ cancelling' = TRUE
    ELSE /\ pc' = "idle" /\ dirty' = TRUE /\ UNCHANGED <<isValid, cancelling>>

\* recvPacket fails: Reset passes it on, a read gives up.
ReceiveFails ==
  \/ pc = "reset" /\ ResetFails
  \/ pc = "fill" /\ pc' = "idle" /\ dirty' = TRUE /\ UNCHANGED <<isValid, cancelling>>

\* Where a packet that is neither an error nor a marker leaves the client: the
\* loop of Reset goes on, a read goes on unless the session is in break state.
PacketReturned ==
  \/ pc = "reset" /\ UNCHANGED <<pc, pool>>
  \/ pc = "fill" /\ ~isBreak /\ pc' = "read" /\ UNCHANGED pool
  \/ pc = "fill" /\ isBreak /\ pc' = "idle" /\ dirty' = TRUE /\ UNCHANGED isValid

\* The next packet of type t is taken: the pushed-back one, or one off the wire.
NextPacket == IF pending # <<>> THEN pending[1] ELSE Head(s2c)

TakePacket(t) ==
  /\ pc \in {"fill", "reset"} /\ (pending # <<>> \/ s2c # <<>>)
  /\ NextPacket.t = t
  /\ pending' = <<>>
  /\ s2c' = IF pending # <<>> THEN s2c ELSE Tail(s2c)

RecvData ==
  /\ TakePacket("data")
  /\ rcv' = [st |-> "data", call |-> NextPacket.call, last |-> NextPacket.last]
  /\ PacketReturned
  /\ UNCHANGED <<call, cancelling, resume, flags, errno, snd, c2s, server, unsure>>

\* A notification is stored in controlPkt; nothing is put into rcvDatapkt.
RecvNotification ==
  /\ TakePacket("notification")
  /\ errno' = "notification"
  /\ PacketReturned
  /\ UNCHANGED <<call, cancelling, resume, flags, rcv, snd, c2s, server, unsure>>

\* Any other control error, and bytes that are no packet, are errors.
RecvError ==
  /\ \E t \in {"error", "torn"} :
       TakePacket(t) /\ errno' = IF t = "error" THEN "error" ELSE errno
  /\ ReceiveFails
  /\ UNCHANGED <<call, resume, flags, rcv, snd, c2s, server, unsure>>

\* Mutant: a break marker read outside Reset is skipped.
RecvBreakSkipped ==
  /\ TakePacket("break")
  /\ UNCHANGED <<client, flags, rcv, errno, snd, c2s, server, pool, unsure>>

\* A break marker starts Reset, unless it was pushed back (no handling at all)
\* or Reset is already in progress.
RecvBreak ==
  /\ TakePacket("break")
  /\ isBreak' = TRUE /\ UNCHANGED isReset
  /\ \/ pc = "reset" /\ UNCHANGED <<pc, resume, pool>>
     \/ /\ pc = "fill" /\ (pending # <<>> \/ isReset)
        /\ pc' = "idle" /\ dirty' = TRUE /\ UNCHANGED <<resume, isValid>>
     \/ /\ pc = "fill" /\ pending = <<>> /\ ~isReset
        /\ pc' = "sendReset" /\ resume' = "fill" /\ UNCHANGED pool
  /\ UNCHANGED <<call, cancelling, rcv, errno, snd, c2s, server, unsure>>

\* Mutant: Reset leaves rcvDatapkt as it is.
RecvResetKeepsData ==
  /\ TakePacket("reset") /\ pc = "reset"
  /\ isBreak' = FALSE /\ isReset' = FALSE
  /\ snd' = <<>> /\ dirty' = (dirty /\ resume # "cancel")
  /\ pc' = IF resume = "cancel" THEN "read" ELSE "fill"
  /\ cancelling' = (cancelling \/ resume = "cancel")
  /\ UNCHANGED <<rcv, call, resume, errno, c2s, server, isValid, unsure>>

\* The reset marker ends Reset: both data packets are emptied and the flags
\* cleared.  In a read it is unexpected and leaves the session in break state.
RecvReset ==
  /\ TakePacket("reset")
  /\ IF pc = "reset"
       THEN /\ isBreak' = FALSE /\ isReset' = FALSE
            /\ rcv' = Rcv("empty") /\ snd' = <<>>
            /\ dirty' = (dirty /\ resume # "cancel")
            /\ pc' = IF resume = "cancel" THEN "read" ELSE "fill"
            /\ cancelling' = (cancelling \/ resume = "cancel")
       ELSE /\ isBreak' = TRUE /\ isReset' = TRUE
            /\ pc' = "idle" /\ dirty' = TRUE /\ UNCHANGED <<rcv, snd, cancelling>>
  /\ UNCHANGED <<call, resume, errno, c2s, server, isValid, unsure>>

\* The server closed the stream and everything it sent has been read.
RecvClosed ==
  /\ pc \in {"fill", "reset"} /\ pending = <<>> /\ s2c = <<>> /\ srv = "closed"
  /\ ReceiveFails
  /\ UNCHANGED <<call, resume, flags, rcv, pending, errno, snd, c2s, s2c, server, unsure>>

\* What an interrupted nttcp.Receive does to the stream: nothing, or it takes a
\* part of the next packet, or (header and body) the whole of it.
Interrupted ==
  s2c' \in {s2c} \cup (IF s2c = <<>> THEN {} ELSE {Tail(s2c), <<Pkt("torn")>> \o Tail(s2c)})

\* The read is cancelled.  A recognised context error leads to CancelOperation,
\* the receive timeout and a custom cause are returned to the caller.
RecvInterrupted ==
  /\ pc \in {"fill", "reset"} /\ pending = <<>>
  /\ Interrupted
  /\ \/ ReceiveFails
     \/ pc = "fill" /\ ~cancelling /\ ~isBreak /\ pc' = "cancel" /\ UNCHANGED <<pool, cancelling>>
  /\ UNCHANGED <<call, resume, flags, rcv, pending, errno, snd, c2s, server, unsure>>

-----------------------------------------------------------------------------
(* CancelOperation and Reset. *)

CancelOperation ==
  /\ pc = "cancel"
  /\ isBreak' = TRUE /\ UNCHANGED isReset
  /\ resume' = "cancel"
  /\ \/ srv # "closed" /\ c2s' = Append(c2s, Ctl("interrupt")) /\ pc' = "sendReset"
        /\ UNCHANGED <<pool, cancelling>>
     \/ /\ c2s' \in {c2s, Append(c2s, Ctl("interrupt")), Append(c2s, Ctl("torn"))}
        /\ pc' = "read" /\ cancelling' = TRUE /\ isValid' = FALSE /\ dirty' = TRUE
  /\ UNCHANGED <<call, rcv, pending, errno, snd, s2c, server, unsure>>

\* Mutant: Reset waits for the reset marker without sending one.
ResetSilent ==
  /\ pc = "sendReset" /\ pc' = "reset"
  /\ UNCHANGED <<call, cancelling, resume, flags, rcv, pending, errno, snd, c2s, s2c, server, pool, unsure>>

Reset ==
  /\ pc = "sendReset"
  /\ \/ srv # "closed" /\ c2s' = Append(c2s, Ctl("reset")) /\ pc' = "reset"
        /\ UNCHANGED <<pool, cancelling>>
     \/ c2s' \in {c2s, Append(c2s, Ctl("reset")), Append(c2s, Ctl("torn"))} /\ ResetFails
  /\ UNCHANGED <<call, resume, flags, rcv, pending, errno, snd, s2c, server, unsure>>

-----------------------------------------------------------------------------
(* CheckInbandNotification, called by IsValid between calls.                 *)

CheckStored ==
  /\ pc = "idle" /\ isValid /\ errno # "none"
  /\ isValid' = (errno # "notification") /\ errno' = "none"
  /\ UNCHANGED <<client, flags, rcv, pending, snd, c2s, s2c, server, dirty, unsure>>

\* A control packet is consumed, any other is pushed back into pendingPacket.
CheckRead ==
  /\ pc = "idle" /\ isValid /\ errno = "none" /\ s2c # <<>> /\ Head(s2c).t # "torn"
  /\ isValid' = (Head(s2c).t # "notification")
  /\ s2c' = Tail(s2c)
  /\ pending' = IF Head(s2c).t \in {"notification", "error"} THEN pending ELSE <<Head(s2c)>>
  /\ UNCHANGED <<client, flags, rcv, errno, snd, c2s, server, dirty, unsure>>

\* The 50 us header timeout (or the 10 s body timeout) strikes.
CheckTimeout ==
  /\ pc = "idle" /\ isValid /\ errno = "none" /\ s2c # <<>>
  /\ Interrupted
  /\ UNCHANGED <<client, flags, rcv, pending, errno, snd, c2s, server, pool, unsure>>

-----------------------------------------------------------------------------
(* The server (external): it executes requests in order, answers each with   *)
(* data packets of which the last holds the OER, reports an error of its own *)
(* with a break marker, and after a break discards everything up to the      *)
(* reset marker, which it answers with a reset marker and an OER.            *)

Quiet == UNCHANGED <<client, flags, rcv, pending, errno, snd, pool, unsure>>

Start(ks) ==
  /\ work' = ks /\ last' = Head(ks) /\ srv' = "exec"
  /\ execs' = [execs EXCEPT ![Head(ks)] = @ + 1]

ServerTakes ==
  /\ srv = "idle" /\ c2s # <<>> /\ Head(c2s).t = "data"
  /\ c2s' = Tail(c2s) /\ Start(Head(c2s).calls)
  /\ UNCHANGED <<s2c, notes, extra>> /\ Quiet

ServerSends ==
  /\ srv = "exec" /\ extra < MaxExtra
  /\ s2c' = Append(s2c, Data(Head(work), FALSE)) /\ extra' = extra + 1
  /\ UNCHANGED <<c2s, srv, work, last, notes, execs>> /\ Quiet

ServerEnds ==
  /\ srv = "exec"
  /\ s2c' = Append(s2c, Data(Head(work), TRUE))
  /\ IF Len(work) > 1 THEN Start(Tail(work))
                      ELSE srv' = "idle" /\ work' = <<>> /\ UNCHANGED <<last, execs>>
  /\ UNCHANGED <<c2s, notes, extra>> /\ Quiet

ServerRaises ==
  /\ srv = "exec"
  /\ s2c' = Append(s2c, Pkt("break")) /\ srv' = "break" /\ work' = <<>>
  /\ UNCHANGED <<c2s, last, notes, extra, execs>> /\ Quiet

ServerInterrupted ==
  /\ srv \in {"idle", "exec"} /\ c2s # <<>> /\ Head(c2s).t = "interrupt"
  /\ c2s' = Tail(c2s) /\ srv' = "break" /\ work' = <<>>
  /\ s2c' \in {s2c, Append(s2c, Pkt("break"))}
  /\ UNCHANGED <<last, notes, extra, execs>> /\ Quiet

ServerDiscards ==
  /\ srv = "break" /\ c2s # <<>> /\ Head(c2s).t \in {"data", "interrupt"}
  /\ c2s' = Tail(c2s)
  /\ UNCHANGED <<s2c, server>> /\ Quiet

ServerResets ==
  /\ srv # "closed" /\ c2s # <<>> /\ Head(c2s).t = "reset"
  /\ c2s' = Tail(c2s) /\ srv' = "idle" /\ work' = <<>>
  /\ s2c' = s2c \o <<Pkt("reset"), Data(last, TRUE)>>
  /\ UNCHANGED <<last, notes, extra, execs>> /\ Quiet

ServerCloses ==
  /\ srv # "closed" /\ c2s # <<>> /\ Head(c2s).t = "torn"
  /\ c2s' = <<>> /\ srv' = "closed" /\ work' = <<>>
  /\ UNCHANGED <<s2c, last, notes, extra, execs>> /\ Quiet

ServerNotifies ==
  /\ srv # "closed" /\ notes < MaxNotes /\ notes' = notes + 1
  /\ \E t \in {"notification", "error"} : s2c' = Append(s2c, Pkt(t))
  /\ UNCHANGED <<c2s, srv, work, last, extra, execs>> /\ Quiet

-----------------------------------------------------------------------------
Receive ==
  RecvData \/ RecvNotification \/ RecvError \/ RecvBreak \/ RecvReset \/ RecvClosed

ClientSteps ==
  \/ FlushOk \/ FlushFails
  \/ Consume \/ PrepareReadBuffer \/ ReadEOF
  \/ Receive
  \/ CancelOperation \/ Reset

ServerSteps ==
  \/ ServerTakes \/ ServerEnds \/ ServerInterrupted
  \/ ServerDiscards \/ ServerResets \/ ServerCloses

Next ==
  \/ Call \/ ClientSteps \/ GiveUp \/ RecvInterrupted
  \/ CheckStored \/ CheckRead \/ CheckTimeout
  \/ ServerSteps \/ ServerSends \/ ServerRaises \/ ServerNotifies

Spec == Init /\ [][Next]_vars

\* The client's goroutine runs, and the server keeps serving its input.  No
\* context need ever be cancelled.
FairSpec == Spec /\ WF_vars(ClientSteps) /\ WF_vars(ServerSteps)

-----------------------------------------------------------------------------
InFlight == {c2s[i].t : i \in DOMAIN c2s} \cap {"interrupt", "reset"}
Arriving == {s2c[i].t : i \in DOMAIN s2c} \cup {pending[i].t : i \in DOMAIN pending}

\* A read hands data of another call to the caller only if some call gave up
\* without break/reset, or it is the OER that answers the break/reset itself.
NoStaleDelivery ==
  pc = "read" /\ rcv.st = "data" /\ rcv.call # call => dirty \/ cancelling

\* Unless a call gave up, the session is quiet between calls: no request is
\* buffered or under way, no answer is owed, arriving or left in a buffer.  In
\* particular break/reset cleans up after calls that gave up earlier.  Outside
\* the break state no marker of a break/reset exchange is under way at all, so a
\* late reset marker can never be taken for the answer to a later Reset.
QuietBetweenCalls ==
  /\ pc = "idle" /\ ~dirty =>
       /\ snd = <<>> /\ c2s = <<>> /\ srv = "idle"
       /\ rcv.st # "data" /\ Arriving \cap {"data", "break", "reset"} = {}
  /\ isValid /\ ~isBreak => InFlight = {} /\ "reset" \notin Arriving /\ ~isReset

\* The server begins a request at most once, unless its Flush failed: Reset
\* drops what is buffered and a pushed-back answer does not repeat a request.
RepeatedOnlyAfterFailedFlush == \A k \in Calls : execs[k] > 1 => k \in unsure

\* Reset ends: the server answers the reset marker, and resetInProgress keeps
\* the markers read meanwhile from starting another Reset.
ResetEnds == pc = "reset" ~> pc # "reset"

\* A call on a session nobody gave up on returns without its context's help.
CleanCallReturns == pc # "idle" ~> (pc = "idle" \/ dirty)
=============================================================================
