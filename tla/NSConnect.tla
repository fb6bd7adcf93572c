------------------------------ MODULE NSConnect ------------------------------
(***************************************************************************)
(* One connection attempt of the network session: connect, the handlers of *)
(* the listener's answers, transportConnect and Disconnect                 *)
(* (internal/driver/network/session/nsprotocol.go).  The listener accepts, *)
(* refuses, redirects to another listener, asks for the connect packet     *)
(* again or answers with anything else, and every dial, send and receive   *)
(* may fail.  The session is used by one goroutine, so that each answer is *)
(* handled in one step.                                                    *)
(***************************************************************************)
EXTENDS Naturals

CONSTANTS MaxRedirect,   \* maxRedirectCount
          MaxResend      \* maxResendCount

ASSUME NSConnectBounds == MaxRedirect \in Nat /\ MaxResend \in Nat

VARIABLES
  pc,             \* "start", "recv", "connected" or "failed"
  net,            \* ntAdapter, connected, and the sockets it stands for
  redirectCount,
  resendCount,
  sent,           \* the last connect packet sent: whose connect data, which header flags
  pkt             \* the listener's answer on its way, or "none"

vars == <<pc, net, redirectCount, resendCount, sent, pkt>>

\* The packet types processPacket tells apart here; "other" is any other.
PacketTypes == {"accept", "refuse", "redirect", "resend", "other"}

Protocols == {"TCP", "TCPS"}

\* adapter: "nil", or the protocol it was created for; stream: whether it has an
\* open stream; sockets: the sockets of this attempt open in the process.
Transport ==
  [adapter : Protocols \cup {"nil"}, stream : BOOLEAN, connected : BOOLEAN, sockets : Nat]

\* Connect data are numbered: 0 are those of the option, n > 0 those the n-th
\* redirect brought with it.
Original == 0

\* Header flag of a connect packet that follows a redirect.
NSPFRDR == 4

Init ==
  /\ pc = "start"
  /\ net = [adapter |-> "nil", stream |-> FALSE, connected |-> FALSE, sockets |-> 0]
  /\ redirectCount = 0 /\ resendCount = 0
  /\ sent = [data |-> Original, flags |-> 0] /\ pkt = "none"

-----------------------------------------------------------------------------
(* The transport. *)

\* Disconnect of nttcp and nttcps: the stream, if any, is closed.
AdapterDisconnect(t) ==
  [t EXCEPT !.stream = FALSE, !.sockets = IF t.stream THEN @ - 1 ELSE @]

\* Connect of the adapter puts a new stream in place of whatever was there.
AdapterConnect(t) == [t EXCEPT !.stream = TRUE, !.sockets = @ + 1]

\* The adapter is created for the first address only.
NewAdapter(t, protocol) == IF t.adapter = "nil" THEN [t EXCEPT !.adapter = protocol] ELSE t

\* What transportConnect leaves behind when it fails: an HTTPS proxy on TCP is
\* refused before there is an adapter; a failed dial opens nothing; after the
\* dial (socket options, wallet) Connect of the adapter closes its stream.
\* Once Connect has succeeded nothing of transportConnect fails: marshal of the
\* data packet only fails on a buffer that is too short.
TransportFailures(t, protocol) ==
  {NewAdapter(t, protocol)}
    \cup (IF protocol = "TCP" THEN {t} ELSE {})
    \cup {AdapterDisconnect(AdapterConnect(NewAdapter(t, protocol)))}

TransportConnect(t, protocol) == AdapterConnect(NewAdapter(t, protocol))

\* networkSession.Disconnect: a connected session first tries to send the
\* end-of-file packet; then, as for one that is not connected, the adapter is
\* disconnected and forgotten.
Disconnect(t) == [AdapterDisconnect(t) EXCEPT !.connected = FALSE, !.adapter = "nil"]

-----------------------------------------------------------------------------
(* connect. *)

\* The header marshal of a connect packet writes flags 0 whatever it is given.
ConnectPacket(data, flags) == [data |-> data, flags |-> 0]

\* connect returns an error after Disconnect.
Fail(t) == pc' = "failed" /\ net' = Disconnect(t) /\ UNCHANGED sent

Start(protocol) ==
  /\ pc = "start"
  /\ UNCHANGED <<redirectCount, resendCount, pkt>>
  /\ \/ /\ pc' = "failed" /\ UNCHANGED sent        \* no Disconnect on this path
        /\ net' \in TransportFailures(net, protocol)
     \/ Fail(TransportConnect(net, protocol))      \* sendConnect fails
     \/ /\ pc' = "recv" /\ net' = TransportConnect(net, protocol)
        /\ sent' = ConnectPacket(Original, 0)

\* The listener the packet was sent to answers.
Listener ==
  /\ pc = "recv" /\ pkt = "none"
  /\ pkt' \in PacketTypes
  /\ UNCHANGED <<pc, net, redirectCount, resendCount, sent>>

\* recvPacket fails, with or without an answer on its way.
RecvFails ==
  pc = "recv" /\ Fail(net) /\ UNCHANGED <<redirectCount, resendCount, pkt>>

\* recvPacket returns the answer.
Recv(type) == pc = "recv" /\ pkt = type /\ pkt' = "none"

\* handleRefuse, whose result is always an error, and the default case.
NoConnection ==
  /\ \E type \in {"refuse", "other"} : Recv(type)
  /\ Fail(net) /\ UNCHANGED <<redirectCount, resendCount>>

\* handleAccept.  An old protocol version disconnects, and connect disconnects
\* again; a short packet or a certificate that does not match leaves that to
\* connect; a server that requires native encryption is found out last, when
\* connected is set already.
Accept ==
  /\ Recv("accept") /\ UNCHANGED <<redirectCount, resendCount>>
  /\ \/ Fail(Disconnect(net))
     \/ Fail(net)
     \/ Fail([net EXCEPT !.connected = TRUE])
     \/ pc' = "connected" /\ net' = [net EXCEPT !.connected = TRUE] /\ UNCHANGED sent

\* Mutant: the redirecting listener's transport is not closed first.
RedirectedKeepsOld(t) == [t EXCEPT !.connected = FALSE]

\* The redirecting listener's transport is closed before the next is opened.
Redirected(t) == [AdapterDisconnect(t) EXCEPT !.connected = FALSE]

RedirectsCounted == redirectCount + 1

MayRedirect(n) == n <= MaxRedirect

\* handleRedirect.  It gives up at the limit, on an address it cannot read and
\* on a packet it cannot complete; otherwise it connects the adapter it has, of
\* whatever protocol, to the new address and sends a connect packet of its own:
\* with the redirect's data when it separates them (NSPFRDS), with the original
\* ones when it does not.
Redirect(protocol, separate) ==
  /\ Recv("redirect")
  /\ redirectCount' = RedirectsCounted /\ UNCHANGED resendCount
  /\ \/ Fail(net)
     \/ /\ MayRedirect(redirectCount')
        /\ \/ \E t \in TransportFailures(Redirected(net), protocol) : Fail(t)
           \/ LET t == [TransportConnect(Redirected(net), protocol) EXCEPT !.connected = TRUE]
              IN  \/ Fail(t)                        \* sendConnect fails
                  \/ /\ pc' = "recv" /\ net' = t
                     /\ sent' = ConnectPacket(IF separate THEN redirectCount' ELSE Original, NSPFRDR)

\* Mutant: resends are not counted.
ResendsCountedNever == resendCount

ResendsCounted == resendCount + 1

\* The resend case of connect, and handleResend: a request to renegotiate TLS
\* needs a TLS adapter; the packet sent is connect's own, never a redirect's.
Resend(renegotiate) ==
  /\ Recv("resend")
  /\ resendCount' = ResendsCounted /\ UNCHANGED redirectCount
  /\ \/ Fail(net)
     \/ resendCount' <= MaxResend /\ Fail(Disconnect(net))      \* sendConnect fails
     \/ /\ resendCount' <= MaxResend
        /\ renegotiate => net.adapter = "TCPS"
        /\ sent' = ConnectPacket(Original, 0) /\ UNCHANGED <<pc, net>>

Next ==
  \/ \E p \in Protocols : Start(p)
  \/ Listener
  \/ RecvFails
  \/ NoConnection
  \/ Accept
  \/ \E p \in Protocols, separate \in BOOLEAN : Redirect(p, separate)
  \/ \E renegotiate \in BOOLEAN : Resend(renegotiate)

\* The listener answers, or the receive fails when its context ends.
Spec == Init /\ [][Next]_vars /\ WF_vars(Next)

-----------------------------------------------------------------------------
(* Properties. *)

\* The variables have their types; the counters stop one past their limits.
TypeOK ==
  /\ pc \in {"start", "recv", "connected", "failed"}
  /\ net \in Transport
  /\ redirectCount \in 0..(MaxRedirect + 1) /\ resendCount \in 0..(MaxResend + 1)
  /\ sent \in [data : 0..MaxRedirect, flags : Nat] /\ pkt \in PacketTypes \cup {"none"}

\* Whatever the listeners answer, an attempt never has two sockets open, even
\* while it follows redirects; it leaves none open when connect returns an error,
\* and the one the session uses when it returns none.
SocketsReleased ==
  /\ net.sockets <= 1
  /\ pc = "failed" => net.sockets = 0
  /\ pc = "connected" => net.sockets = 1

\* A connected session has an adapter with a stream: Disconnect calls the
\* adapter of a connected session without looking whether there is one.
ConnectedHasStream ==
  net.connected => net.adapter # "nil" /\ net.stream

\* The limits on redirects and resends end the loop of connect, whatever the
\* listeners answer.
ConnectEnds == <>(pc \in {"connected", "failed"})
=============================================================================
