----------------------------- MODULE LogonProofs -----------------------------
(***************************************************************************)
(* What every logon guarantees, for any number of connections, any servers *)
(* and any logins: a connection is handed out only when both sides have    *)
(* proved themselves, functions have the header of the version that both   *)
(* sides reach, and processes that talk to servers of one kind frame their *)
(* characters as announced.                                                *)
(***************************************************************************)
EXTENDS Logon, NSConnect, TokenProvider, TLAPS

Pcs == {"new", "protocol", "flags", "datatype", "authenticate", "sesskey", "respond", "oauth",
        "open", "failed", "panicked"}
Requests == {"PRO", "DTY", "SESSKEY", "OAUTH"}
Kinds == {"PRO", "DTY", "RPA", "OER", "WRN", "OTHER", "ERR"}
Faults == {"none", "refused", "transport"} \cup SesskeyFaults \cup OAuthFaults
Messages == [kind : Kinds, form : Requests \cup {"any"}, fault : Faults]

\* What the capabilities of either side can be.
ServerSide == {newCapability} \cup {s.caps : s \in Servers}
ClientSide == {newDefaultCapability} \cup {adjustCapabilityFrom(newDefaultCapability, s.caps) : s \in Servers}
Secrets == {l.secret : l \in Logins} \cup {s.secret : s \in Servers}
LogonKeys == {NoKey} \cup {buildO5LogonKey(x, c) : x \in Secrets, c \in Conns}

\* Why a logon failed, and the keys of an OAUTH.
Reasons ==
  Faults \cup {l.token : l \in Logins} \cup
  {"no authenticator", "protocol", "datatype", "password length", "no function", "verifier", "key size",
   "key buffer", "speedy key buffer", "password buffer", "padding", "unread", "no RPA", "identity"}
AuthKeys ==
  {"AUTH_TOKEN", "AUTH_HEADER", "AUTH_SIGNATURE", "AUTH_PASSWORD", "AUTH_SESSKEY", "AUTH_PBKDF2_SPEEDY_KEY"}

ConnState ==
  [pc : Pcs, request : Requests \cup {"none"}, replies : Seq(Messages),
   callback : Requests \cup {"none"}, serverCaps : ServerSide, clientCaps : ClientSide,
   version : Int, rpa : BOOLEAN, queued : Nat, challenge : {[verifier |-> "none"]} \cup Challenges,
   proof : LogonKeys, key : LogonKeys, inStep : BOOLEAN, why : Reasons]

ToldState ==
  [flags : {0, TTCLXMULTI, TTCLXMCONV}, caps : ClientSide, framed : SUBSET {TTCLXMULTI, TTCLXMCONV},
   tokens : SUBSET BOOLEAN, keys : SUBSET AuthKeys]

LogonTypeOK ==
  /\ conversionFlags \in {TTCLXMULTI, TTCLXMCONV}
  /\ server \in [Conns -> Servers] /\ login \in [Conns -> Logins]
  /\ conn \in [Conns -> ConnState] /\ told \in [Conns -> ToldState]

\* A request is answered once: nothing is left of the answer to the one before
\* when it is sent, and nothing is under way outside the rounds.
Rounds(c) ==
  /\ conn[c].request # "none" => conn[c].replies = <<>>
  /\ conn[c].pc \in {"new", "flags", "authenticate", "respond", "open", "failed", "panicked"} =>
       conn[c].request = "none" /\ conn[c].replies = <<>>
  /\ conn[c].pc = "oauth" => conn[c].request \in {"none", "OAUTH"}
  /\ conn[c].pc \in {"new", "protocol"} => conn[c].clientCaps = newDefaultCapability

\* The keys each side can have derived, and what an acceptance under way means.
Proved(c) ==
  /\ conn[c].key \in {NoKey, buildO5LogonKey(login[c].secret, c)}
  /\ conn[c].proof \in {NoKey, buildO5LogonKey(server[c].secret, c)}
  /\ conn[c].pc = "oauth" =>
       \A i \in DOMAIN conn[c].replies :
         conn[c].replies[i].kind = "OER" /\ conn[c].replies[i].fault = "none" => Accepts(c)
  /\ conn[c].pc = "open" =>
       /\ Accepts(c)
       /\ GetAuthenticator(login[c]) = "password" => login[c].secret = server[c].secret

\* The version of a connection is that of its server or the client's.
Versions(c) ==
  /\ server[c].proSvrVer = 6 /\ conn[c].pc \notin {"new", "protocol", "failed"} =>
       conn[c].serverCaps = server[c].caps
  /\ conn[c].pc \in {"authenticate", "sesskey", "respond", "oauth", "open"} =>
       conn[c].version = negotiatedTTCVersion(24, ttcFldVsn(conn[c].serverCaps))
  /\ server[c].proSvrVer = 6 => told[c].tokens \subseteq {ttcFldVsn(server[c].caps) >= 18}

Expected(c) == IF server[c].multibyte THEN TTCLXMULTI ELSE TTCLXMCONV
Alike == \A c, d \in Conns : server[c].multibyte = server[d].multibyte

\* The flag is set by the first server that is not multibyte, and stays.
Flags ==
  /\ (\A c \in Conns : server[c].multibyte) => conversionFlags = TTCLXMULTI
  /\ \A c \in Conns : ~server[c].multibyte /\ conn[c].pc \notin {"new", "protocol", "failed"} =>
       conversionFlags = TTCLXMCONV

Framing(c) ==
  /\ conn[c].pc \in {"new", "protocol", "flags"} => told[c].framed = {}
  /\ conn[c].pc \in {"datatype", "authenticate", "sesskey", "respond", "oauth", "open"} =>
       told[c].flags = Expected(c)
  /\ told[c].framed \subseteq {Expected(c)} /\ told[c].framed \subseteq {told[c].flags}

LogonInv ==
  /\ LogonTypeOK /\ Flags
  /\ \A c \in Conns : Rounds(c) /\ Proved(c) /\ Versions(c)
  /\ Alike => \A c \in Conns : Framing(c)

-----------------------------------------------------------------------------
(* The client never gives up the version it announces: the byte of         *)
(* TTC_FLD_VSN is not one that adjustCapabilityFrom touches.               *)
LEMMA ClientVersion ==
  ASSUME NEW caps \in ClientSide
  PROVE  ttcFldVsn(caps) = 24
<1> DEFINE D == newDefaultCapability
<1>1. /\ TtcFldVsn = 7 /\ Ub2dty = 27 /\ Ttc3 = 37
  BY Zenon DEF TtcFldVsn, Ub2dty, Ttc3, knownUsedCapabilities
<1>2. ttcFldVsn(D) = 24
  BY <1>1, Zenon DEF ttcFldVsn, valueOf, newDefaultCapability
<1>3. ASSUME NEW s \in Servers
      PROVE  ttcFldVsn(adjustCapabilityFrom(D, s.caps)) = 24
  <2> DEFINE A == adjustCapabilityFrom(D, s.caps)
  <2>1. DOMAIN D.compile = {7, 27, 37} /\ D.compile[7] = 24
    BY <1>1, Zenon DEF newDefaultCapability
  <2> HIDE DEF D
  <2>2. DOMAIN A.compile = DOMAIN D.compile /\ A.compile[7] = D.compile[7]
    BY <1>1, <2>1 DEF adjustCapabilityFrom
  <2> HIDE DEF A
  <2>3. ttcFldVsn(A) = 24
    BY <1>1, <2>1, <2>2, Zenon DEF ttcFldVsn, valueOf
  <2> QED  BY <2>3, Zenon DEF A
<1> QED  BY <1>2, <1>3, Zenon DEF ClientSide

(* What a server announces, or is taken to have, is a version.             *)
LEMMA ServerVersion ==
  ASSUME NEW caps \in ServerSide
  PROVE  ttcFldVsn(caps) \in Nat
<1>1. ttcFldVsn(newCapability) = 17
  BY Zenon DEF ttcFldVsn, valueOf, newCapability, TtcFldVsn, Ub2dty, Ttc3, knownUsedCapabilities
<1> QED  BY <1>1, ServersAnnounceVersions DEF ServerSide

(* getBestImplementor takes the header with a token from version 18 on.    *)
LEMMA TokenFromVersion18 ==
  ASSUME NEW v \in Nat
  PROVE  HeaderHasToken(v) <=> v >= 18
<1> DEFINE fit == {w \in FunctionRegistry : v = -1 \/ w <= v}
<1>1. FunctionRegistry = {12, 18}
  BY Zenon DEF FunctionRegistry, MinTTCProtocolVersion
<1>2. CASE v >= 18
  <2>1. fit = {12, 18}
    BY <1>1, <1>2
  <2>2. (CHOOSE w \in fit : \A x \in fit : x <= w) = 18
    BY <2>1
  <2> QED  BY <1>2, <2>1, <2>2, Zenon DEF HeaderHasToken, getBestImplementor
<1>3. CASE v < 18
  <2>1. 18 \notin fit
    BY <1>1, <1>3
  <2>2. CASE fit = {}
    BY <2>2, <1>3 DEF HeaderHasToken, getBestImplementor
  <2>3. CASE fit # {}
    <3>1. fit = {12}
      BY <2>1, <2>3, <1>1, Zenon
    <3>2. (CHOOSE w \in fit : \A x \in fit : x <= w) = 12
      BY <3>1
    <3>3. getBestImplementor(v, FunctionRegistry) = 12
      BY <2>3, <3>2, Zenon DEF getBestImplementor
    <3> QED  BY <1>3, <3>3 DEF HeaderHasToken
  <2> QED  BY <2>2, <2>3, Zenon
<1> QED  BY <1>2, <1>3

(* What a server answers: a sequence of messages, and to an OAUTH it does  *)
(* not accept none that ends the round well.                               *)
LEMMA AnswersTyped ==
  ASSUME NEW c \in Conns, NEW request \in Requests,
         NEW r \in Answers(c, request) \cup {<<Broken>>}
  PROVE  /\ r \in Seq(Messages)
         /\ request = "OAUTH" /\ ~Accepts(c) =>
              \A i \in DOMAIN r : ~(r[i].kind = "OER" /\ r[i].fault = "none")
<1>a. ASSUME NEW k \in Kinds, NEW q \in Requests \cup {"any"}, NEW f \in Faults
      PROVE  Msg(k, q, f) \in Messages
  BY Zenon DEF Msg, Messages
<1>b. /\ {"PRO", "DTY", "RPA", "OER", "WRN", "OTHER", "ERR"} \subseteq Kinds
      /\ {"none", "refused", "transport"} \subseteq Faults
      /\ SesskeyFaults \subseteq Faults /\ OAuthFaults \subseteq Faults
      /\ {"PRO", "DTY", "SESSKEY", "OAUTH"} \subseteq Requests
  BY Zenon DEF Kinds, Faults, Requests
<1>c. /\ \A m \in Messages : <<m>> \in Seq(Messages)
      /\ \A m, n \in Messages : <<m, n>> \in Seq(Messages)
      /\ \A m, n, o \in Messages : <<m, n, o>> \in Seq(Messages)
  OBVIOUS
<1>1. /\ Broken \in Messages /\ WRN \in Messages
      /\ OER("none") \in Messages /\ OER("refused") \in Messages
      /\ \A q \in Requests, f \in Faults : RPA(q, f) \in Messages
      /\ Msg("PRO", "PRO", "none") \in Messages /\ Msg("DTY", "DTY", "none") \in Messages
      /\ Msg("OTHER", "any", "none") \in Messages
  BY <1>a, <1>b, SMTT(30) DEF Broken, WRN, OER, RPA
<1>2. CASE r = <<Broken>>
  BY <1>c, <1>1, <1>2 DEF Broken, Msg
<1>3. CASE request = "PRO" /\ r \in Answers(c, request)
  BY <1>b, <1>c, <1>1, <1>3, Zenon DEF Answers
<1>4. CASE request = "DTY" /\ r \in Answers(c, request)
  BY <1>b, <1>c, <1>1, <1>4, Zenon DEF Answers
<1>5. CASE request = "SESSKEY" /\ r \in Answers(c, request)
  <2>1. \/ r = <<RPA(request, "none"), OER("none")>>
        \/ r = <<WRN, RPA(request, "none"), OER("none")>>
        \/ r = <<OER("none")>> \/ r = <<OER("refused")>>
        \/ r = <<Msg("OTHER", "any", "none"), RPA(request, "none"), OER("none")>>
        \/ \E fault \in SesskeyFaults : r = <<RPA(request, fault)>>
    BY <1>5, Z3 DEF Answers
  <2>2. \A f \in SesskeyFaults : RPA(request, f) \in Messages
    BY <1>b, <1>1, Zenon
  <2>3. RPA(request, "none") \in Messages
    BY <1>b, <1>1, Zenon
  <2>4. r \in Seq(Messages)
    BY <1>c, <1>1, <2>1, <2>2, <2>3, Zenon
  <2> QED  BY <1>5, <2>4, Zenon
<1>6. CASE request = "OAUTH" /\ r \in Answers(c, request)
  <2>1. \A f \in Faults : RPA(request, f) \in Messages
    BY <1>1, Zenon
  <2>2. RPA(request, "none") \in Messages
    BY <1>b, <2>1, Zenon
  <2>3. CASE Accepts(c)
    <3>1. \/ r = <<RPA(request, "none"), OER("none")>>
          \/ r = <<RPA(request, "none"), WRN, OER("none")>>
          \/ r = <<OER("none")>>
          \/ \E fault \in OAuthFaults : r = <<RPA(request, fault)>>
      BY <1>6, <2>3, Z3 DEF Answers
    <3>2. \A f \in OAuthFaults : RPA(request, f) \in Messages
      BY <1>b, <2>1, Zenon
    <3>3. r \in Seq(Messages)
      BY <1>c, <1>1, <2>2, <3>1, <3>2, Zenon
    <3> QED  BY <2>3, <3>3, Zenon
  <2>4. CASE ~Accepts(c)
    <3>1. r = <<OER("refused")>> \/ r = <<RPA(request, "none"), OER("refused")>>
      BY <1>6, <2>4, Z3 DEF Answers
    <3>2. r \in Seq(Messages)
      BY <1>c, <1>1, <2>2, <3>1, Zenon
    <3>3. OER("refused").fault = "refused" /\ RPA(request, "none").kind = "RPA"
      BY Zenon DEF OER, RPA, Msg
    <3>4. \A i \in DOMAIN r : ~(r[i].kind = "OER" /\ r[i].fault = "none")
      BY <3>1, <3>3
    <3> QED  BY <3>2, <3>4, Zenon
  <2> QED  BY <2>3, <2>4, Zenon
<1> QED  BY <1>2, <1>3, <1>4, <1>5, <1>6, Zenon DEF Requests

-----------------------------------------------------------------------------
(* The invariant holds before any connection has taken a step.             *)
LEMMA FreshTyped == Fresh \in ConnState /\ Untold \in ToldState
<1>1. /\ newCapability \in ServerSide /\ newDefaultCapability \in ClientSide
      /\ NoKey \in LogonKeys
  BY DEF ServerSide, ClientSide, LogonKeys
<1>2. /\ "new" \in Pcs /\ "none" \in Reasons /\ <<>> \in Seq(Messages)
  BY DEF Pcs, Reasons, Faults
<1>3. Fresh \in ConnState
  BY <1>1, <1>2 DEF Fresh, ConnState
<1>4. Untold \in ToldState
  BY <1>1, Zenon DEF Untold, ToldState
<1> QED  BY <1>3, <1>4, Zenon

LEMMA LogonInitInv == LogonInit => LogonInv
<1> SUFFICES ASSUME LogonInit PROVE LogonInv
  BY Zenon
<1>1. LogonTypeOK
  BY FreshTyped, Zenon DEF LogonInit, LogonTypeOK
<1>2. \A c \in Conns : conn[c] = Fresh /\ told[c] = Untold
  BY Zenon DEF LogonInit
<1>3. Flags
  BY <1>2, Zenon DEF Flags, LogonInit, Fresh
<1>4. ASSUME NEW c \in Conns
      PROVE  Rounds(c) /\ Proved(c) /\ Versions(c) /\ Framing(c)
  <2>1. Rounds(c)
    BY <1>2 DEF Rounds, Fresh
  <2>2. Proved(c)
    BY <1>2 DEF Proved, Fresh
  <2>3. Versions(c) /\ Framing(c)
    BY <1>2 DEF Versions, Framing, Fresh, Untold
  <2> QED  BY <2>1, <2>2, <2>3, Zenon
<1> QED  BY <1>1, <1>3, <1>4, Zenon DEF LogonInv

(* A step changes one connection: the invariant of the others is kept      *)
(* unless the flags they share change.                                     *)
LEMMA OneConnection ==
  ASSUME LogonInv, NEW c \in Conns, NEW s \in ConnState, NEW t \in ToldState,
         conn' = [conn EXCEPT ![c] = s], told' = [told EXCEPT ![c] = t],
         UNCHANGED <<server, login>>, conversionFlags' \in {TTCLXMULTI, TTCLXMCONV}, Flags',
         Rounds(c)', Proved(c)', Versions(c)', Alike => Framing(c)'
  PROVE  LogonInv'
<1>1. LogonTypeOK'
  BY Zenon DEF LogonInv, LogonTypeOK
<1>2. ASSUME NEW d \in Conns, d # c
      PROVE  conn'[d] = conn[d] /\ told'[d] = told[d]
  BY <1>2, Zenon DEF LogonInv, LogonTypeOK
<1>3. ASSUME NEW d \in Conns, d # c
      PROVE  Rounds(d)' /\ Proved(d)' /\ Versions(d)' /\ (Alike => Framing(d)')
  <2>1. Rounds(d) /\ Proved(d) /\ Versions(d) /\ (Alike => Framing(d))
    BY Zenon DEF LogonInv
  <2>2. Rounds(d)'
    BY <1>2, <1>3, <2>1, Zenon DEF Rounds
  <2>3. Accepts(d)' = Accepts(d)
    BY <1>2, <1>3, Zenon DEF Accepts
  <2>4. Proved(d)'
    BY <1>2, <1>3, <2>1, <2>3 DEF Proved
  <2>5. Versions(d)'
    BY <1>2, <1>3, <2>1, Zenon DEF Versions
  <2>6. Alike => Framing(d)'
    BY <1>2, <1>3, <2>1, Zenon DEF Framing, Expected
  <2> QED  BY <2>2, <2>4, <2>5, <2>6, Zenon
<1>4. Alike' = Alike
  BY Zenon DEF Alike
<1>5. \A d \in Conns : Rounds(d)' /\ Proved(d)' /\ Versions(d)' /\ (Alike => Framing(d)')
  BY <1>3, Zenon
<1> QED  BY <1>1, <1>4, <1>5, Zenon DEF LogonInv

(* Unless it changes the flags, a step cannot break what they stand for    *)
(* when it ends before the flag is set or begins after it.                 *)
LEMMA FlagsKept ==
  ASSUME LogonInv, NEW c \in Conns, NEW s \in ConnState, conn' = [conn EXCEPT ![c] = s],
         UNCHANGED <<conversionFlags, server>>,
         s.pc \in {"new", "protocol", "failed"} \/ conn[c].pc \notin {"new", "protocol", "failed"}
  PROVE  Flags' /\ conversionFlags' \in {TTCLXMULTI, TTCLXMCONV}
<1>1. \A d \in Conns : conn'[d] = IF d = c THEN s ELSE conn[d]
  BY Zenon DEF LogonInv, LogonTypeOK
<1>2. Flags'
  BY <1>1, Zenon DEF Flags, LogonInv
<1> QED  BY <1>2, Zenon DEF LogonInv, LogonTypeOK

(* A logon that fails has nothing under way, whatever it failed of.        *)
LEMMA FailedKeeps ==
  ASSUME LogonInv, NEW c \in Conns, NEW s \in ConnState, NEW why \in Reasons,
         s.key = conn[c].key, s.proof = conn[c].proof,
         Set(c, Failed(s, why)), UNCHANGED <<conversionFlags, server, login, told>>
  PROVE  LogonInv'
<1> DEFINE f == Failed(s, why)
<1>1. f \in ConnState
  <2>1. "failed" \in Pcs /\ "none" \in Requests \cup {"none"} /\ <<>> \in Seq(Messages)
    BY DEF Pcs
  <2> QED  BY <2>1, Zenon DEF Failed, ConnState
<1>2. /\ f.pc = "failed" /\ f.request = "none" /\ f.replies = <<>>
      /\ f.key = s.key /\ f.proof = s.proof
  BY Zenon DEF Failed, ConnState
<1> HIDE DEF f
<1>3. conn' = [conn EXCEPT ![c] = f] /\ conn'[c] = f
  BY Zenon DEF Set, f, LogonInv, LogonTypeOK
<1>4. told[c] \in ToldState /\ told' = [told EXCEPT ![c] = told[c]] /\ told'[c] = told[c]
  BY Zenon DEF LogonInv, LogonTypeOK
<1>5. Rounds(c)'
  BY <1>2, <1>3, Zenon DEF Rounds
<1>6. Proved(c)'
  BY <1>2, <1>3, Zenon DEF Proved, LogonInv
<1>7. Versions(c)'
  BY <1>2, <1>3, <1>4, Zenon DEF Versions, LogonInv
<1>8. Alike => Framing(c)'
  BY <1>2, <1>3, <1>4, Zenon DEF Framing, Expected, LogonInv
<1>9. Flags' /\ conversionFlags' \in {TTCLXMULTI, TTCLXMCONV}
  BY <1>1, <1>2, <1>3, FlagsKept, Zenon
<1> QED  BY <1>1, <1>3, <1>4, <1>5, <1>6, <1>7, <1>8, <1>9, OneConnection, Zenon

LEMMA ConnTyped ==
  ASSUME LogonInv, NEW c \in Conns
  PROVE  conn[c] \in ConnState /\ told[c] \in ToldState
BY Zenon DEF LogonInv, LogonTypeOK

-----------------------------------------------------------------------------
(* The negotiation. *)

LEMMA PushProtocolKeeps ==
  ASSUME LogonInv, NEW c \in Conns, PushProtocol(c)
  PROVE  LogonInv'
<1>1. conn[c] \in ConnState
  BY ConnTyped, Zenon
<1>2. CASE \/ Set(c, Failed(conn[c], "no authenticator")) \/ Set(c, Failed(conn[c], "transport"))
  <2>1. "no authenticator" \in Reasons /\ "transport" \in Reasons
    BY Zenon DEF Reasons, Faults
  <2> QED  BY <1>1, <1>2, <2>1, FailedKeeps, Zenon DEF PushProtocol
<1>3. CASE Set(c, [conn[c] EXCEPT !.pc = "protocol", !.request = "PRO"])
  <2> DEFINE s == [conn[c] EXCEPT !.pc = "protocol", !.request = "PRO"]
  <2>1. s \in ConnState
    BY <1>1, ZenonT(30) DEF ConnState, Pcs, Requests
  <2>2. /\ s.pc = "protocol" /\ s.request = "PRO" /\ s.replies = conn[c].replies
        /\ s.key = conn[c].key /\ s.proof = conn[c].proof /\ s.clientCaps = conn[c].clientCaps
    BY <1>1, Zenon DEF ConnState
  <2> HIDE DEF s
  <2>3. conn' = [conn EXCEPT ![c] = s] /\ conn'[c] = s
    BY <1>3, Zenon DEF Set, s, LogonInv, LogonTypeOK
  <2>4. told[c] \in ToldState /\ told' = [told EXCEPT ![c] = told[c]] /\ told'[c] = told[c]
    BY Zenon DEF LogonInv, LogonTypeOK, PushProtocol
  <2>5. /\ conn[c].pc = "new" /\ UNCHANGED <<conversionFlags, server, login, told>>
        /\ Rounds(c) /\ Proved(c) /\ Versions(c) /\ (Alike => Framing(c))
    BY Zenon DEF PushProtocol, LogonInv
  <2>6. Rounds(c)'
    BY <2>2, <2>3, <2>5, Zenon DEF Rounds
  <2>7. Proved(c)'
    BY <2>2, <2>3, <2>5, Zenon DEF Proved
  <2>8. Versions(c)'
    BY <2>2, <2>3, <2>4, <2>5, Zenon DEF Versions
  <2>9. Alike => Framing(c)'
    BY <2>2, <2>3, <2>4, <2>5, Zenon DEF Framing, Expected
  <2>10. Flags' /\ conversionFlags' \in {TTCLXMULTI, TTCLXMCONV}
    BY <2>1, <2>2, <2>3, <2>5, FlagsKept, Zenon
  <2> QED  BY <2>1, <2>3, <2>4, <2>5, <2>6, <2>7, <2>8, <2>9, <2>10, OneConnection, Zenon
<1> QED  BY <1>2, <1>3, Zenon DEF PushProtocol

LEMMA PullProtocolKeeps ==
  ASSUME LogonInv, NEW c \in Conns, PullProtocol(c)
  PROVE  LogonInv'
<1>1. conn[c] \in ConnState /\ server[c] \in Servers
  BY Zenon DEF LogonInv, LogonTypeOK
<1>2. CASE Set(c, Failed(conn[c], "protocol")) /\ UNCHANGED conversionFlags
  <2>1. "protocol" \in Reasons
    BY Zenon DEF Reasons
  <2> QED  BY <1>1, <1>2, <2>1, FailedKeeps, Zenon DEF PullProtocol
<1> DEFINE w == WithCapabilities(conn[c], server[c])
           s == [w EXCEPT !.pc = "flags", !.replies = <<>>]
<1>3. CASE /\ server[c].proSvrVer \in 4 .. 6 /\ Set(c, s)
           /\ conversionFlags' = IF server[c].multibyte THEN conversionFlags ELSE TTCLXMCONV
  <2>1. /\ conn[c].pc = "protocol" /\ conn[c].replies # <<>>
        /\ UNCHANGED <<server, login, told>>
        /\ Rounds(c) /\ Proved(c) /\ Versions(c) /\ (Alike => Framing(c))
    BY Zenon DEF PullProtocol, Answered, LogonInv
  <2>2. /\ server[c].caps \in ServerSide
        /\ adjustCapabilityFrom(conn[c].clientCaps, server[c].caps) \in ClientSide
    BY <1>1, <2>1, Zenon DEF Rounds, ServerSide, ClientSide
  <2>3. /\ w \in ConnState /\ w.request = conn[c].request
        /\ w.key = conn[c].key /\ w.proof = conn[c].proof
        /\ server[c].proSvrVer = 6 => w.serverCaps = server[c].caps
    <3>1. CASE server[c].proSvrVer < 6
      BY <1>1, <1>3, <3>1 DEF WithCapabilities
    <3>2. CASE ~(server[c].proSvrVer < 6)
      <4> DEFINE a == adjustCapabilityFrom(conn[c].clientCaps, server[c].caps)
      <4>1. w = [conn[c] EXCEPT !.serverCaps = server[c].caps, !.clientCaps = a]
        BY <3>2, Zenon DEF WithCapabilities
      <4> HIDE DEF a, w
      <4> QED  BY <1>1, <2>2, <4>1, Zenon DEF a, ConnState
    <3> QED  BY <3>1, <3>2, Zenon
  <2> HIDE DEF w
  <2>4. s \in ConnState
    <3>1. "flags" \in Pcs /\ <<>> \in Seq(Messages)
      BY DEF Pcs
    <3> QED  BY <2>3, <3>1, Zenon DEF ConnState
  <2>5. /\ s.pc = "flags" /\ s.request = "none" /\ s.replies = <<>>
        /\ s.key = conn[c].key /\ s.proof = conn[c].proof
        /\ server[c].proSvrVer = 6 => s.serverCaps = server[c].caps
    BY <2>1, <2>3, Zenon DEF ConnState, Rounds
  <2> HIDE DEF s
  <2>6. conn' = [conn EXCEPT ![c] = s] /\ \A d \in Conns : conn'[d] = IF d = c THEN s ELSE conn[d]
    BY <1>3, Zenon DEF Set, LogonInv, LogonTypeOK
  <2>7. told[c] \in ToldState /\ told' = [told EXCEPT ![c] = told[c]] /\ told'[c] = told[c]
    BY <2>1, Zenon DEF LogonInv, LogonTypeOK
  <2>8. Rounds(c)'
    BY <2>5, <2>6, Zenon DEF Rounds
  <2>9. Proved(c)'
    BY <2>1, <2>5, <2>6, Zenon DEF Proved
  <2>10. Versions(c)'
    BY <2>1, <2>5, <2>6, <2>7, Zenon DEF Versions
  <2>11. Alike => Framing(c)'
    BY <2>1, <2>5, <2>6, <2>7, Zenon DEF Framing, Expected
  <2>12. Flags'
    <3>1. CASE server[c].multibyte
      BY <1>3, <2>1, <2>6, <3>1, Zenon DEF Flags, LogonInv
    <3>2. CASE ~server[c].multibyte
      BY <1>3, <2>1, <3>2, Zenon DEF Flags
    <3> QED  BY <3>1, <3>2, Zenon
  <2>13. conversionFlags' \in {TTCLXMULTI, TTCLXMCONV}
    BY <1>3, Zenon DEF LogonInv, LogonTypeOK
  <2> QED  BY <2>1, <2>4, <2>6, <2>7, <2>8, <2>9, <2>10, <2>11, <2>12, <2>13, OneConnection, ZenonT(30)
<1> QED  BY <1>2, <1>3, Zenon DEF PullProtocol

(* With servers of one kind a connection that has set the flags finds them *)
(* as its server wants them, whatever the others do.                       *)
LEMMA FlagsExpected ==
  ASSUME LogonInv, Alike, NEW c \in Conns, conn[c].pc \notin {"new", "protocol", "failed"}
  PROVE  conversionFlags = Expected(c)
<1>1. CASE server[c].multibyte
  <2>1. \A d \in Conns : server[d].multibyte
    BY <1>1, Zenon DEF Alike
  <2> QED  BY <1>1, <2>1, Zenon DEF LogonInv, Flags, Expected
<1>2. CASE ~server[c].multibyte
  BY <1>2, Zenon DEF LogonInv, Flags, Expected
<1> QED  BY <1>1, <1>2, Zenon

LEMMA PushDatatypeKeeps ==
  ASSUME LogonInv, NEW c \in Conns, PushDatatype(c)
  PROVE  LogonInv'
<1>1. conn[c] \in ConnState /\ told[c] \in ToldState
  BY ConnTyped, Zenon
<1>2. CASE SendFails(c)
  <2>1. "transport" \in Reasons
    BY Zenon DEF Reasons, Faults
  <2> QED  BY <1>1, <1>2, <2>1, FailedKeeps, Zenon DEF PushDatatype, SendFails
<1> DEFINE s == Asked(conn[c], "datatype", "DTY")
           t == [told[c] EXCEPT !.flags = conversionFlags, !.caps = conn[c].clientCaps]
<1>3. CASE Set(c, s) /\ told' = [told EXCEPT ![c].flags = conversionFlags, ![c].caps = conn[c].clientCaps]
  <2>1. /\ conn[c].pc = "flags" /\ UNCHANGED <<conversionFlags, server, login>>
        /\ Rounds(c) /\ Proved(c) /\ Versions(c) /\ (Alike => Framing(c))
    BY Zenon DEF PushDatatype, LogonInv
  <2>2. s \in ConnState
    BY <1>1, ZenonT(30) DEF Asked, ConnState, Pcs, Requests
  <2>3. /\ s.pc = "datatype" /\ s.request = "DTY" /\ s.replies = conn[c].replies
        /\ s.key = conn[c].key /\ s.proof = conn[c].proof /\ s.serverCaps = conn[c].serverCaps
    BY <1>1, Zenon DEF Asked, ConnState
  <2> HIDE DEF s
  <2>4. conn' = [conn EXCEPT ![c] = s] /\ conn'[c] = s
    BY <1>3, Zenon DEF Set, LogonInv, LogonTypeOK
  <2>5. t \in ToldState
    BY <1>1, Zenon DEF LogonInv, LogonTypeOK, ConnState, ToldState
  <2>6. t.flags = conversionFlags /\ t.framed = told[c].framed /\ t.tokens = told[c].tokens
    BY <1>1, Zenon DEF ToldState
  <2>7. told' = [told EXCEPT ![c] = t]
    BY <1>3, ZenonT(30)
  <2> HIDE DEF t
  <2>8. told'[c] = t
    BY <2>7, Zenon DEF LogonInv, LogonTypeOK
  <2>9. Rounds(c)'
    BY <2>1, <2>3, <2>4, Zenon DEF Rounds
  <2>10. Proved(c)'
    BY <2>1, <2>3, <2>4, Zenon DEF Proved
  <2>11. Versions(c)'
    BY <2>1, <2>3, <2>4, <2>6, <2>8, Zenon DEF Versions
  <2>12. Alike => Framing(c)'
    BY <2>1, <2>3, <2>4, <2>6, <2>8, FlagsExpected, Zenon DEF Framing, Expected
  <2>13. Flags' /\ conversionFlags' \in {TTCLXMULTI, TTCLXMCONV}
    BY <2>1, <2>2, <2>4, FlagsKept, Zenon
  <2> QED  BY <2>1, <2>2, <2>4, <2>5, <2>7, <2>9, <2>10, <2>11, <2>12, <2>13, OneConnection, Zenon
<1> QED  BY <1>2, <1>3, Zenon DEF PushDatatype

LEMMA ServerAnswersKeeps ==
  ASSUME LogonInv, NEW c \in Conns, ServerAnswers(c)
  PROVE  LogonInv'
<1>1. conn[c] \in ConnState
  BY ConnTyped, Zenon
<1>2. conn[c].request \in Requests
  BY <1>1, Zenon DEF ServerAnswers, ConnState
<1>3. PICK r \in Answers(c, conn[c].request) \cup {<<Broken>>} :
        Set(c, [conn[c] EXCEPT !.request = "none", !.replies = r])
  BY Zenon DEF ServerAnswers
<1>4. /\ r \in Seq(Messages)
      /\ conn[c].request = "OAUTH" /\ ~Accepts(c) =>
           \A i \in DOMAIN r : ~(r[i].kind = "OER" /\ r[i].fault = "none")
  BY <1>2, AnswersTyped, Zenon
<1>5. /\ conn[c].request # "none" /\ UNCHANGED <<conversionFlags, server, login, told>>
      /\ Rounds(c) /\ Proved(c) /\ Versions(c) /\ (Alike => Framing(c))
  BY Zenon DEF ServerAnswers, LogonInv
<1> DEFINE s == [conn[c] EXCEPT !.request = "none", !.replies = r]
<1>6. s \in ConnState
  BY <1>1, <1>4, Zenon DEF ConnState
<1>7. /\ s.pc = conn[c].pc /\ s.request = "none" /\ s.replies = r
      /\ s.key = conn[c].key /\ s.proof = conn[c].proof /\ s.version = conn[c].version
      /\ s.serverCaps = conn[c].serverCaps /\ s.clientCaps = conn[c].clientCaps
  BY <1>1, Zenon DEF ConnState
<1> HIDE DEF s
<1>8. conn' = [conn EXCEPT ![c] = s] /\ conn'[c] = s
  BY <1>3, Zenon DEF Set, s, LogonInv, LogonTypeOK
<1>9. told[c] \in ToldState /\ told' = [told EXCEPT ![c] = told[c]] /\ told'[c] = told[c]
  BY <1>5, Zenon DEF LogonInv, LogonTypeOK
<1>10. Rounds(c)'
  BY <1>5, <1>7, <1>8, Zenon DEF Rounds
<1>11. Proved(c)'
  <2>1. Accepts(c)' = Accepts(c)
    BY <1>5, Zenon DEF Accepts
  <2>2. conn[c].pc # "open"
    BY <1>5, Zenon DEF Rounds
  <2>3. conn[c].pc = "oauth" => conn[c].request = "OAUTH"
    BY <1>5, Zenon DEF Rounds
  <2> QED  BY <1>4, <1>5, <1>7, <1>8, <2>1, <2>2, <2>3, ZenonT(30) DEF Proved
<1>12. Versions(c)'
  BY <1>5, <1>7, <1>8, <1>9, Zenon DEF Versions
<1>13. Alike => Framing(c)'
  BY <1>5, <1>7, <1>8, <1>9, Zenon DEF Framing, Expected
<1>14. Flags' /\ conversionFlags' \in {TTCLXMULTI, TTCLXMCONV}
  BY <1>5, <1>6, <1>7, <1>8, FlagsKept, ZenonT(30)
<1> QED  BY <1>5, <1>6, <1>8, <1>9, <1>10, <1>11, <1>12, <1>13, <1>14, OneConnection, ZenonT(30)

LEMMA PullDatatypeKeeps ==
  ASSUME LogonInv, NEW c \in Conns, PullDatatype(c)
  PROVE  LogonInv'
<1>1. conn[c] \in ConnState
  BY ConnTyped, Zenon
<1> DEFINE v == negotiatedTTCVersion(ttcFldVsn(conn[c].clientCaps), ttcFldVsn(conn[c].serverCaps))
           s(b) == [conn[c] EXCEPT !.pc = "authenticate", !.replies = <<>>, !.callback = "none",
                                   !.inStep = b, !.version = v]
<1>2. \/ Set(c, Failed(conn[c], "datatype"))
      \/ \E b \in BOOLEAN : Set(c, s(b))
  <2>1. \A table : ReadDatatype(c, table) \in BOOLEAN
    BY Zenon DEF ReadDatatype
  <2> QED  BY <2>1, Zenon DEF PullDatatype
<1>3. /\ conn[c].pc = "datatype" /\ conn[c].replies # <<>>
      /\ UNCHANGED <<conversionFlags, server, login, told>>
      /\ Rounds(c) /\ Proved(c) /\ Versions(c) /\ (Alike => Framing(c))
  BY Zenon DEF PullDatatype, Answered, LogonInv
<1>4. CASE Set(c, Failed(conn[c], "datatype"))
  <2>1. "datatype" \in Reasons
    BY Zenon DEF Reasons
  <2> QED  BY <1>1, <1>3, <1>4, <2>1, FailedKeeps, Zenon
<1>5. ASSUME NEW b \in BOOLEAN, Set(c, s(b))
      PROVE  LogonInv'
  <2>1. /\ v \in Int /\ v = negotiatedTTCVersion(24, ttcFldVsn(conn[c].serverCaps))
    BY <1>1, ClientVersion, ServerVersion, SMTT(30) DEF ConnState, negotiatedTTCVersion
  <2> HIDE DEF v
  <2> DEFINE z == s(b)
  <2>2. z \in ConnState
    <3>1. "authenticate" \in Pcs /\ <<>> \in Seq(Messages)
      BY DEF Pcs
    <3> QED  BY <1>1, <2>1, <3>1, ZenonT(30) DEF ConnState
  <2>3. /\ z.pc = "authenticate" /\ z.request = "none" /\ z.replies = <<>> /\ z.version = v
        /\ z.key = conn[c].key /\ z.proof = conn[c].proof /\ z.serverCaps = conn[c].serverCaps
    BY <1>1, <1>3, Zenon DEF ConnState, Rounds
  <2>4. conn' = [conn EXCEPT ![c] = z]
    BY <1>5, Zenon DEF Set
  <2> HIDE DEF z
  <2>5. conn'[c] = z
    BY <2>4, Zenon DEF LogonInv, LogonTypeOK
  <2>6. told[c] \in ToldState /\ told' = [told EXCEPT ![c] = told[c]] /\ told'[c] = told[c]
    BY <1>3, Zenon DEF LogonInv, LogonTypeOK
  <2>7. Rounds(c)'
    BY <2>3, <2>5, Zenon DEF Rounds
  <2>8. Proved(c)'
    BY <1>3, <2>3, <2>5, Zenon DEF Proved
  <2>9. Versions(c)'
    BY <1>3, <2>1, <2>3, <2>5, <2>6, Zenon DEF Versions
  <2>10. Alike => Framing(c)'
    BY <1>3, <2>3, <2>5, <2>6, Zenon DEF Framing, Expected
  <2>11. Flags' /\ conversionFlags' \in {TTCLXMULTI, TTCLXMCONV}
    BY <1>3, <2>2, <2>4, FlagsKept, Zenon
  <2> QED  BY <1>3, <2>2, <2>4, <2>6, <2>7, <2>8, <2>9, <2>10, <2>11, OneConnection, Zenon
<1> QED  BY <1>2, <1>4, <1>5, Zenon

-----------------------------------------------------------------------------
(* The logon. *)

(* The header of a connection's functions is the one of the version that   *)
(* its server reaches too.                                                 *)
LEMMA HeaderFollowsServer ==
  ASSUME LogonInv, NEW c \in Conns, server[c].proSvrVer = 6,
         conn[c].pc \in {"authenticate", "sesskey", "respond", "oauth", "open"}
  PROVE  HeaderHasToken(conn[c].version) <=> ttcFldVsn(server[c].caps) >= 18
<1> DEFINE v == ttcFldVsn(server[c].caps)
<1>1. conn[c].serverCaps = server[c].caps /\ conn[c].version = negotiatedTTCVersion(24, v)
  BY Zenon DEF LogonInv, Versions
<1>2. v \in Nat
  BY ServersAnnounceVersions, Zenon DEF LogonInv, LogonTypeOK
<1> HIDE DEF v
<1>3. conn[c].version \in Nat /\ (conn[c].version >= 18 <=> v >= 18)
  BY <1>1, <1>2 DEF negotiatedTTCVersion
<1> QED  BY <1>3, TokenFromVersion18, Zenon DEF v

(* What is written with a function.                                        *)
LEMMA WroteTyped ==
  ASSUME NEW t \in ToldState, NEW version, NEW user \in BOOLEAN,
         conversionFlags \in {TTCLXMULTI, TTCLXMCONV}
  PROVE  /\ Wrote(t, version, user) \in ToldState
         /\ Wrote(t, version, user).flags = t.flags
         /\ Wrote(t, version, user).keys = t.keys
         /\ Wrote(t, version, user).framed \subseteq t.framed \cup {conversionFlags}
         /\ Wrote(t, version, user).tokens = t.tokens \cup {HeaderHasToken(version)}
<1>1. HeaderHasToken(version) \in BOOLEAN
  BY Zenon DEF HeaderHasToken
<1> DEFINE m == IF user THEN MarshalChar(t) ELSE t
<1>2. /\ m \in ToldState /\ m.flags = t.flags /\ m.keys = t.keys /\ m.tokens = t.tokens
      /\ m.framed \subseteq t.framed \cup {conversionFlags}
  BY Zenon DEF MarshalChar, ToldState
<1>3. Wrote(t, version, user) = [m EXCEPT !.tokens = @ \cup {HeaderHasToken(version)}]
  BY Zenon DEF Wrote
<1> HIDE DEF m
<1> QED  BY <1>1, <1>2, <1>3 DEF ToldState

(* A function is sent with nothing under way, the key the logon can have   *)
(* derived and the header and framing of its server.                       *)
LEMMA AsksKeeps ==
  ASSUME LogonInv, NEW c \in Conns, conn[c].pc \in {"authenticate", "respond"},
         NEW at \in {"sesskey", "oauth"}, NEW request \in {"SESSKEY", "OAUTH"},
         at = "oauth" => request = "OAUTH",
         NEW key \in {NoKey, buildO5LogonKey(login[c].secret, c)},
         NEW keys \in SUBSET AuthKeys, NEW user \in BOOLEAN,
         Set(c, [Asked(conn[c], at, request) EXCEPT !.key = key]),
         told' = [told EXCEPT ![c] = [Wrote(told[c], conn[c].version, user) EXCEPT !.keys = keys]],
         UNCHANGED <<conversionFlags, server, login>>
  PROVE  LogonInv'
<1>1. /\ conn[c] \in ConnState /\ told[c] \in ToldState
      /\ conversionFlags \in {TTCLXMULTI, TTCLXMCONV} /\ login[c] \in Logins
      /\ Rounds(c) /\ Proved(c) /\ Versions(c) /\ (Alike => Framing(c))
  BY Zenon DEF LogonInv, LogonTypeOK
<1> DEFINE s == [Asked(conn[c], at, request) EXCEPT !.key = key]
           w == Wrote(told[c], conn[c].version, user)
           t == [w EXCEPT !.keys = keys]
<1>2. s \in ConnState
  <2>1. /\ at \in Pcs /\ request \in Requests
    BY Zenon DEF Pcs, Requests
  <2>2. key \in LogonKeys
    BY <1>1 DEF LogonKeys, Secrets
  <2> QED  BY <1>1, <2>1, <2>2, Zenon DEF Asked, ConnState
<1>3. /\ s.pc = at /\ s.request = request /\ s.replies = <<>> /\ s.key = key
      /\ s.proof = conn[c].proof /\ s.serverCaps = conn[c].serverCaps /\ s.version = conn[c].version
  BY <1>1, Zenon DEF Asked, ConnState, Rounds
<1>4. conn' = [conn EXCEPT ![c] = s]
  BY Zenon DEF Set
<1> HIDE DEF s
<1>5. conn'[c] = s
  BY <1>4, Zenon DEF LogonInv, LogonTypeOK
<1>6. /\ w \in ToldState /\ w.flags = told[c].flags
      /\ w.framed \subseteq told[c].framed \cup {conversionFlags}
      /\ w.tokens = told[c].tokens \cup {HeaderHasToken(conn[c].version)}
  BY <1>1, WroteTyped
<1>7. told' = [told EXCEPT ![c] = t]
  BY Zenon
<1> HIDE DEF w
<1>8. /\ t \in ToldState /\ t.flags = w.flags /\ t.framed = w.framed /\ t.tokens = w.tokens
  BY <1>6, Zenon DEF ToldState
<1> HIDE DEF t
<1>9. told'[c] = t
  BY <1>7, Zenon DEF LogonInv, LogonTypeOK
<1>10. Rounds(c)'
  BY <1>3, <1>5, Zenon DEF Rounds
<1>11. Proved(c)'
  BY <1>1, <1>3, <1>5 DEF Proved
<1>12. Versions(c)'
  <2>1. server[c].proSvrVer = 6 =>
          (HeaderHasToken(conn[c].version) <=> ttcFldVsn(server[c].caps) >= 18)
    BY HeaderFollowsServer, Zenon
  <2>2. server[c].proSvrVer = 6 => t.tokens \subseteq {ttcFldVsn(server[c].caps) >= 18}
    <3>1. HeaderHasToken(conn[c].version) \in BOOLEAN
      BY Zenon DEF HeaderHasToken
    <3>2. (ttcFldVsn(server[c].caps) >= 18) \in BOOLEAN
      OBVIOUS
    <3> QED  BY <1>1, <1>6, <1>8, <2>1, <3>1, <3>2, Zenon DEF Versions
  <2> QED  BY <1>1, <1>3, <1>5, <1>9, <2>2, Zenon DEF Versions
<1>13. Alike => Framing(c)'
  <2> SUFFICES ASSUME Alike PROVE Framing(c)'
    BY Zenon
  <2>1. conversionFlags = Expected(c) /\ told[c].flags = Expected(c)
    BY <1>1, FlagsExpected, Zenon DEF Framing
  <2>2. t.framed \subseteq {Expected(c)} /\ t.flags = Expected(c)
    BY <1>1, <1>6, <1>8, <2>1, Zenon DEF Framing
  <2>3. Expected(c)' = Expected(c)
    BY Zenon DEF Expected
  <2> QED  BY <1>3, <1>5, <1>9, <2>2, <2>3, Zenon DEF Framing
<1>14. Flags' /\ conversionFlags' \in {TTCLXMULTI, TTCLXMCONV}
  BY <1>2, <1>4, FlagsKept, Zenon
<1> QED  BY <1>2, <1>4, <1>7, <1>8, <1>10, <1>11, <1>12, <1>13, <1>14, OneConnection, Zenon

LEMMA PushSessionKeyKeeps ==
  ASSUME LogonInv, NEW c \in Conns, PushSessionKey(c)
  PROVE  LogonInv'
<1>1. /\ conn[c] \in ConnState /\ told[c] \in ToldState /\ Proved(c)
      /\ conversionFlags \in {TTCLXMULTI, TTCLXMCONV}
  BY Zenon DEF LogonInv, LogonTypeOK
<1>2. /\ conn[c].pc = "authenticate" /\ UNCHANGED <<conversionFlags, server, login>>
  BY Zenon DEF PushSessionKey
<1> DEFINE e == validatePasswordLength(c)
<1>3. e \in Reasons /\ "transport" \in Reasons
  BY Zenon DEF validatePasswordLength, Reasons, Faults
<1> HIDE DEF e
<1>4. CASE Set(c, Failed(conn[c], e)) /\ UNCHANGED told
  BY <1>1, <1>2, <1>3, <1>4, FailedKeeps, Zenon
<1>5. CASE SendFails(c)
  BY <1>1, <1>2, <1>3, <1>5, FailedKeeps, Zenon DEF SendFails
<1> DEFINE a == Asked(conn[c], "sesskey", "SESSKEY")
           w == Wrote(told[c], conn[c].version, TRUE)
<1>6. CASE Set(c, a) /\ told' = [told EXCEPT ![c] = w]
  <2>1. a = [a EXCEPT !.key = conn[c].key]
    BY <1>1, Zenon DEF Asked, ConnState
  <2>2. w \in ToldState /\ w.keys = told[c].keys
    BY <1>1, WroteTyped, Zenon
  <2>3. w = [w EXCEPT !.keys = told[c].keys] /\ told[c].keys \in SUBSET AuthKeys
    <3> HIDE DEF w
    <3> QED  BY <1>1, <2>2, Zenon DEF ToldState
  <2>4. /\ Set(c, [a EXCEPT !.key = conn[c].key])
        /\ told' = [told EXCEPT ![c] = [w EXCEPT !.keys = told[c].keys]]
    <3> HIDE DEF a, w
    <3> QED  BY <1>6, <2>1, <2>3, Zenon
  <2>5. conn[c].key \in {NoKey, buildO5LogonKey(login[c].secret, c)}
    BY <1>1, Zenon DEF Proved
  <2> QED  BY <1>2, <2>3, <2>4, <2>5, AsksKeeps, Zenon
<1> QED  BY <1>4, <1>5, <1>6, Zenon DEF PushSessionKey, e

LEMMA PushTokenKeeps ==
  ASSUME LogonInv, NEW c \in Conns, PushToken(c)
  PROVE  LogonInv'
<1>1. /\ conn[c] \in ConnState /\ told[c] \in ToldState /\ Proved(c) /\ login[c] \in Logins
  BY Zenon DEF LogonInv, LogonTypeOK
<1>2. /\ conn[c].pc = "authenticate" /\ UNCHANGED <<conversionFlags, server, login>>
  BY Zenon DEF PushToken
<1> DEFINE e == validateToken(c)
<1>3. e \in Reasons /\ "transport" \in Reasons
  <2>1. login[c].token \in Reasons /\ "none" \in Reasons /\ "no function" \in Reasons /\ "transport" \in Reasons
    BY <1>1, Zenon DEF Reasons, Faults
  <2> QED  BY <2>1, Zenon DEF validateToken
<1> HIDE DEF e
<1>4. CASE Set(c, Failed(conn[c], e)) /\ UNCHANGED told
  BY <1>1, <1>2, <1>3, <1>4, FailedKeeps, Zenon
<1>5. CASE SendFails(c)
  BY <1>1, <1>2, <1>3, <1>5, FailedKeeps, Zenon DEF SendFails
<1> DEFINE a == Asked(conn[c], "oauth", "OAUTH")
           w == Wrote(told[c], conn[c].version, FALSE)
<1>6. CASE Set(c, a) /\ told' = [told EXCEPT ![c] = [w EXCEPT !.keys = setTokenKeyVals(c)]]
  <2>1. a = [a EXCEPT !.key = conn[c].key]
    BY <1>1, Zenon DEF Asked, ConnState
  <2>2. Set(c, [a EXCEPT !.key = conn[c].key])
    <3> HIDE DEF a
    <3> QED  BY <1>6, <2>1, Zenon
  <2>3. conn[c].key \in {NoKey, buildO5LogonKey(login[c].secret, c)}
    BY <1>1, Zenon DEF Proved
  <2>4. setTokenKeyVals(c) \in SUBSET AuthKeys
    BY Zenon DEF setTokenKeyVals, AuthKeys
  <2> QED  BY <1>2, <1>6, <2>2, <2>3, <2>4, AsksKeeps, Zenon
<1> QED  BY <1>4, <1>5, <1>6, ZenonT(30) DEF PushToken, e

LEMMA PushOAuthKeeps ==
  ASSUME LogonInv, NEW c \in Conns, PushOAuth(c)
  PROVE  LogonInv'
<1>1. /\ conn[c] \in ConnState /\ told[c] \in ToldState
  BY ConnTyped, Zenon
<1>2. /\ conn[c].pc = "respond" /\ UNCHANGED <<conversionFlags, server, login>>
  BY Zenon DEF PushOAuth
<1>3. ResponseErrors(c) \subseteq Reasons \cup {"ok"} /\ "transport" \in Reasons
  <2>1. {"verifier", "key size", "key buffer", "speedy key buffer", "password buffer", "padding", "transport"}
          \subseteq Reasons
    BY Zenon DEF Reasons, Faults
  <2>2. \A v, o, k, p, l :
          generateOAuthResponse(v, o, k, p, l)
            \in {"verifier", "key buffer", "speedy key buffer", "password buffer", "ok"}
    BY Zenon DEF generateOAuthResponse
  <2> DEFINE g == generateOAuthResponse(conn[c].challenge.verifier, server[c].o5lnp, conn[c].challenge.sk,
                                        conn[c].challenge.padding, login[c].length)
  <2>3. g \in {"verifier", "key buffer", "speedy key buffer", "password buffer", "ok"}
    BY <2>2, ZenonT(30)
  <2> HIDE DEF g
  <2>4. ResponseErrors(c) \subseteq {"verifier", "ok", "key size", g, "padding"}
    BY Zenon DEF ResponseErrors, g
  <2> QED  BY <2>1, <2>3, <2>4, Zenon
<1> DEFINE key == IF WithoutResponse(c) THEN NoKey ELSE buildO5LogonKey(login[c].secret, c)
           a == [Asked(conn[c], "oauth", "OAUTH") EXCEPT !.key = key]
           t == [Wrote(told[c], conn[c].version, TRUE) EXCEPT !.keys = setPasswordKeyVals(c)]
<1>4. PICK e \in ResponseErrors(c) :
        \/ e # "ok" /\ Set(c, Failed(conn[c], e)) /\ UNCHANGED told
        \/ e = "ok" /\ SendFails(c)
        \/ Set(c, a) /\ told' = [told EXCEPT ![c] = t]
  BY Zenon DEF PushOAuth
<1>5. CASE e # "ok" /\ Set(c, Failed(conn[c], e)) /\ UNCHANGED told
  BY <1>1, <1>2, <1>3, <1>5, FailedKeeps, Zenon
<1>6. CASE SendFails(c)
  BY <1>1, <1>2, <1>3, <1>6, FailedKeeps, Zenon DEF SendFails
<1>7. CASE Set(c, a) /\ told' = [told EXCEPT ![c] = t]
  <2>1. key \in {NoKey, buildO5LogonKey(login[c].secret, c)}
    BY Zenon
  <2>2. setPasswordKeyVals(c) \in SUBSET AuthKeys
    BY Zenon DEF setPasswordKeyVals, AuthKeys
  <2> HIDE DEF key
  <2> QED  BY <1>2, <1>7, <2>1, <2>2, AsksKeeps, Zenon
<1> QED  BY <1>4, <1>5, <1>6, <1>7, Zenon

(* A message of a round other than its last is read: the round goes on, or *)
(* ends with all that a connection that is handed out must have.           *)
LEMMA ReadKeeps ==
  ASSUME LogonInv, NEW c \in Conns, conn[c].pc \in {"sesskey", "oauth"}, conn[c].replies # <<>>,
         NEW s \in ConnState, Set(c, s), UNCHANGED <<conversionFlags, server, login, told>>,
         s.request = "none", s.key = conn[c].key, s.serverCaps = conn[c].serverCaps,
         s.version = conn[c].version, s.proof \in {NoKey, buildO5LogonKey(server[c].secret, c)},
         \/ s.pc = conn[c].pc /\ s.replies = Tail(conn[c].replies)
         \/ s.pc \in {"respond", "open", "panicked"} /\ s.replies = <<>>,
         s.pc = "open" =>
           /\ Accepts(c)
           /\ GetAuthenticator(login[c]) = "password" => login[c].secret = server[c].secret
  PROVE  LogonInv'
<1>1. /\ conn[c] \in ConnState /\ told[c] \in ToldState
      /\ Rounds(c) /\ Proved(c) /\ Versions(c) /\ (Alike => Framing(c))
  BY Zenon DEF LogonInv, LogonTypeOK
<1>2. conn' = [conn EXCEPT ![c] = s] /\ conn'[c] = s
  BY Zenon DEF Set, LogonInv, LogonTypeOK
<1>3. told' = [told EXCEPT ![c] = told[c]] /\ told'[c] = told[c]
  BY Zenon DEF LogonInv, LogonTypeOK
<1>4. Rounds(c)'
  BY <1>2, Zenon DEF Rounds
<1>5. Proved(c)'
  <2>1. Accepts(c)' = Accepts(c)
    BY Zenon DEF Accepts
  <2>2. s.pc = "oauth" =>
          \A i \in DOMAIN s.replies : i + 1 \in DOMAIN conn[c].replies /\ s.replies[i] = conn[c].replies[i + 1]
    <3>1. conn[c].replies \in Seq(Messages)
      BY <1>1, Zenon DEF ConnState
    <3>2. ASSUME NEW q \in Seq(Messages), q # <<>>, NEW i \in DOMAIN Tail(q)
          PROVE  i + 1 \in DOMAIN q /\ Tail(q)[i] = q[i + 1]
      BY <3>2
    <3>3. s.pc = "oauth" => s.replies = Tail(conn[c].replies)
      BY Zenon
    <3> QED  BY <3>1, <3>2, <3>3, ZenonT(30)
  <2>3. s.pc = "oauth" => conn[c].pc = "oauth"
    BY Zenon
  <2> QED  BY <1>1, <1>2, <2>1, <2>2, <2>3, SMTT(30) DEF Proved
<1>6. Versions(c)'
  BY <1>1, <1>2, <1>3, Zenon DEF Versions
<1>7. Alike => Framing(c)'
  BY <1>1, <1>2, <1>3, Zenon DEF Framing, Expected
<1>8. Flags' /\ conversionFlags' \in {TTCLXMULTI, TTCLXMCONV}
  BY <1>2, FlagsKept, Zenon
<1> QED  BY <1>1, <1>2, <1>3, <1>4, <1>5, <1>6, <1>7, <1>8, OneConnection, ZenonT(30)

(* The end of a round.  The acceptance that ends an OAUTH is one of the    *)
(* server, and the two keys are equal only if the two secrets are.         *)
LEMMA EndOfRoundKeeps ==
  ASSUME LogonInv, NEW c \in Conns, conn[c].pc \in {"sesskey", "oauth"}, conn[c].replies # <<>>,
         NEW s \in ConnState, s = [conn[c] EXCEPT !.replies = Tail(@)],
         Head(conn[c].replies).kind = "OER", Head(conn[c].replies).fault = "none",
         Set(c, EndOfRound(c, s)), UNCHANGED <<conversionFlags, server, login, told>>
  PROVE  LogonInv'
<1>1. /\ conn[c] \in ConnState /\ Rounds(c) /\ Proved(c)
  BY Zenon DEF LogonInv, LogonTypeOK
<1>2. /\ s.pc = conn[c].pc /\ s.request = "none" /\ s.key = conn[c].key /\ s.proof = conn[c].proof
      /\ s.serverCaps = conn[c].serverCaps /\ s.version = conn[c].version
  BY <1>1, Zenon DEF ConnState, Rounds
<1>3. conn[c].pc = "oauth" => Accepts(c)
  <2>1. conn[c].replies \in Seq(Messages)
    BY <1>1, Zenon DEF ConnState
  <2>2. 1 \in DOMAIN conn[c].replies /\ conn[c].replies[1] = Head(conn[c].replies)
    BY <2>1
  <2> QED  BY <1>1, <2>2, Zenon DEF Proved
<1> DEFINE r == [s EXCEPT !.callback = "none", !.rpa = FALSE]
           identity == IF GetAuthenticator(login[c]) = "token" THEN "ok"
                       ELSE ValidateServerIdentity(s.key, s.proof)
           z(p) == [r EXCEPT !.pc = p]
<1>4. \/ \E why \in {"unread", "no RPA", "identity"} : EndOfRound(c, s) = Failed(s, why)
      \/ /\ s.replies = <<>>
         /\ \/ s.pc = "sesskey" /\ EndOfRound(c, s) = z("respond")
            \/ s.pc # "sesskey" /\ identity = "ok" /\ EndOfRound(c, s) = z("open")
            \/ EndOfRound(c, s) = z("panicked")
  <2> HIDE DEF identity
  <2>1. CASE s.queued > 0 \/ s.replies # <<>>
    <3>1. EndOfRound(c, s) = Failed(s, "unread")
      BY <2>1, Zenon DEF EndOfRound
    <3> QED  BY <3>1, Zenon
  <2>2. CASE ~(s.queued > 0 \/ s.replies # <<>>)
    <3>1. s.replies = <<>>
      BY <2>2, Zenon
    <3>2. \/ EndOfRound(c, s) = Failed(s, "no RPA")
          \/ s.pc = "sesskey" /\ EndOfRound(c, s) = z("respond")
          \/ s.pc # "sesskey" /\ identity = "ok" /\ EndOfRound(c, s) = z("open")
          \/ EndOfRound(c, s) = z("panicked")
          \/ EndOfRound(c, s) = Failed(s, "identity")
      BY <2>2, Zenon DEF EndOfRound, identity
    <3> HIDE DEF z
    <3> QED  BY <3>1, <3>2, Zenon
  <2> QED  BY <2>1, <2>2, Zenon
<1>5. ASSUME NEW why \in {"unread", "no RPA", "identity"}, EndOfRound(c, s) = Failed(s, why)
      PROVE  LogonInv'
  <2>1. why \in Reasons
    BY Zenon DEF Reasons
  <2>2. Set(c, Failed(s, why))
    BY <1>5, Zenon
  <2> QED  BY <1>2, <2>1, <2>2, FailedKeeps, Zenon
<1>6. ASSUME NEW p \in {"respond", "open", "panicked"}
      PROVE  /\ z(p) \in ConnState /\ z(p).pc = p /\ z(p).request = "none"
             /\ z(p).replies = s.replies /\ z(p).key = conn[c].key /\ z(p).proof = conn[c].proof
             /\ z(p).serverCaps = conn[c].serverCaps /\ z(p).version = conn[c].version
  <2>1. p \in Pcs
    BY Zenon DEF Pcs
  <2> QED  BY <1>2, <2>1, ZenonT(30) DEF ConnState
<1>7. identity = "ok" /\ GetAuthenticator(login[c]) = "password" => login[c].secret = server[c].secret
  <2> SUFFICES ASSUME identity = "ok", GetAuthenticator(login[c]) = "password"
               PROVE  login[c].secret = server[c].secret
    BY Zenon
  <2>1. s.key # NoKey /\ s.key = s.proof
    BY Zenon DEF ValidateServerIdentity
  <2>2. <<login[c].secret, c>> = <<server[c].secret, c>>
    BY <1>1, <1>2, <2>1, Zenon DEF Proved, buildO5LogonKey
  <2> QED  BY <2>2, Zenon
<1> HIDE DEF z, identity
<1>8. ASSUME NEW p \in {"respond", "open", "panicked"}, s.replies = <<>>, EndOfRound(c, s) = z(p),
             p = "open" => s.pc # "sesskey" /\ identity = "ok"
      PROVE  LogonInv'
  <2>1. Set(c, z(p))
    BY <1>8, Zenon
  <2>2. p = "open" =>
          /\ Accepts(c)
          /\ GetAuthenticator(login[c]) = "password" => login[c].secret = server[c].secret
    BY <1>2, <1>3, <1>7, <1>8, Zenon
  <2>3. z(p).proof \in {NoKey, buildO5LogonKey(server[c].secret, c)}
    BY <1>1, <1>6, Zenon DEF Proved
  <2> QED  BY <1>6, <1>8, <2>1, <2>2, <2>3, ReadKeeps, ZenonT(30)
<1> QED  BY <1>4, <1>5, <1>8, Zenon
LEMMA PullAnswerKeeps ==
  ASSUME LogonInv, NEW c \in Conns, PullAnswer(c)
  PROVE  LogonInv'
<1>1. /\ conn[c] \in ConnState /\ server[c] \in Servers
      /\ Rounds(c) /\ Proved(c)
  BY Zenon DEF LogonInv, LogonTypeOK
<1>2. /\ conn[c].pc \in {"sesskey", "oauth"} /\ conn[c].replies # <<>>
      /\ UNCHANGED <<conversionFlags, server, login, told>>
  BY Zenon DEF PullAnswer
<1>3. conn[c].replies \in Seq(Messages)
  BY <1>1, Zenon DEF ConnState
<1>4. Head(conn[c].replies) \in Messages /\ Tail(conn[c].replies) \in Seq(Messages)
  BY <1>2, <1>3
<1> DEFINE m == Head(conn[c].replies)
           s == [conn[c] EXCEPT !.replies = Tail(@)]
<1>5. /\ s \in ConnState /\ s.pc = conn[c].pc /\ s.request = "none" /\ s.replies = Tail(conn[c].replies)
      /\ s.key = conn[c].key /\ s.proof = conn[c].proof
      /\ s.serverCaps = conn[c].serverCaps /\ s.version = conn[c].version
  BY <1>1, <1>2, <1>4, Zenon DEF ConnState, Rounds
<1>6. s.proof \in {NoKey, buildO5LogonKey(server[c].secret, c)}
  BY <1>1, <1>5, Zenon DEF Proved
<1>7. m \in Messages
  BY <1>4, Zenon
<1>8. \/ m.kind = "OTHER" /\ Set(c, [s EXCEPT !.queued = @ + 1])
      \/ m.kind = "WRN" /\ Set(c, s)
      \/ m.kind = "RPA" /\ m.fault = "none" /\ \E r \in ReadRPA(c, s, m) : Set(c, r)
      \/ m.kind = "OER" /\ m.fault = "none" /\ Set(c, EndOfRound(c, s))
      \/ m.fault # "none" /\ Set(c, Failed(s, m.fault))
  BY ZenonT(30) DEF PullAnswer
<1>9. ASSUME NEW r \in ConnState, Set(c, r), r.pc = s.pc, r.request = "none", r.replies = s.replies,
             r.key = s.key, r.serverCaps = s.serverCaps, r.version = s.version,
             r.proof \in {NoKey, buildO5LogonKey(server[c].secret, c)}
      PROVE  LogonInv'
  <2> HIDE DEF s
  <2>1. r.pc # "open"
    BY <1>2, <1>5, <1>9, Zenon
  <2> QED  BY <1>2, <1>5, <1>9, <2>1, ReadKeeps, Zenon
<1>10. CASE Set(c, [s EXCEPT !.queued = @ + 1])
  <2> DEFINE r == [s EXCEPT !.queued = @ + 1]
  <2> HIDE DEF s
  <2>1. /\ r \in ConnState /\ r.pc = s.pc /\ r.request = s.request /\ r.replies = s.replies
        /\ r.key = s.key /\ r.proof = s.proof /\ r.serverCaps = s.serverCaps /\ r.version = s.version
    BY <1>5 DEF ConnState
  <2> HIDE DEF r
  <2> QED  BY <1>5, <1>6, <1>9, <1>10, <2>1, Zenon DEF r
<1>11. CASE Set(c, s)
  <2> HIDE DEF s
  <2> QED  BY <1>5, <1>6, <1>9, <1>11, Zenon
<1>12. CASE \E r \in ReadRPA(c, s, m) : Set(c, r)
  <2> HIDE DEF s, m
  <2>1. PICK r \in ReadRPA(c, s, m) : Set(c, r)
    BY <1>12, Zenon
  <2>2. PICK ch \in (IF m.form = "SESSKEY" THEN Challenges ELSE {s.challenge}) :
          r = [s EXCEPT !.rpa = TRUE, !.inStep = @ /\ m.form = s.callback,
                        !.challenge = IF m.form = "SESSKEY" THEN ch ELSE @,
                        !.proof = IF m.form = "OAUTH" THEN buildO5LogonKey(server[c].secret, c) ELSE @]
    BY <2>1, Zenon DEF ReadRPA
  <2> DEFINE step == s.inStep /\ m.form = s.callback
             challenge == IF m.form = "SESSKEY" THEN ch ELSE s.challenge
             proof == IF m.form = "OAUTH" THEN buildO5LogonKey(server[c].secret, c) ELSE s.proof
  <2>3. step \in BOOLEAN /\ challenge \in {[verifier |-> "none"]} \cup Challenges
    BY <1>5, <2>2, Zenon DEF ConnState
  <2>4. proof \in LogonKeys /\ proof \in {NoKey, buildO5LogonKey(server[c].secret, c)}
    BY <1>1, <1>5, <1>6, SMTT(30) DEF ConnState, LogonKeys, Secrets
  <2>5. r = [s EXCEPT !.rpa = TRUE, !.inStep = step, !.challenge = challenge, !.proof = proof]
    BY <2>2, Zenon
  <2> HIDE DEF step, challenge, proof
  <2>6. /\ r \in ConnState /\ r.pc = s.pc /\ r.request = s.request /\ r.replies = s.replies
        /\ r.key = s.key /\ r.proof = proof /\ r.serverCaps = s.serverCaps /\ r.version = s.version
    BY <1>5, <2>3, <2>4, <2>5, ZenonT(30) DEF ConnState
  <2> QED  BY <1>5, <1>9, <2>1, <2>4, <2>6, Zenon
<1>13. CASE m.kind = "OER" /\ m.fault = "none" /\ Set(c, EndOfRound(c, s))
  <2>1. s = [conn[c] EXCEPT !.replies = Tail(@)]
    BY Zenon
  <2> HIDE DEF s
  <2> QED  BY <1>2, <1>5, <1>13, <2>1, EndOfRoundKeeps, Zenon
<1>14. CASE Set(c, Failed(s, m.fault))
  <2>1. m.fault \in Reasons
    BY <1>7, ZenonT(30) DEF Messages, Reasons
  <2> HIDE DEF s, m
  <2> QED  BY <1>2, <1>5, <1>14, <2>1, FailedKeeps, Zenon
<1> HIDE DEF s, m
<1> QED  BY <1>8, <1>10, <1>11, <1>12, <1>13, <1>14, Zenon

(* What an open connection writes is framed like what it wrote before.     *)
LEMMA ExecuteKeeps ==
  ASSUME LogonInv, NEW c \in Conns, Execute(c)
  PROVE  LogonInv'
<1>1. /\ conn[c] \in ConnState /\ told[c] \in ToldState /\ conversionFlags \in {TTCLXMULTI, TTCLXMCONV}
      /\ Rounds(c) /\ Proved(c) /\ Versions(c) /\ (Alike => Framing(c))
  BY Zenon DEF LogonInv, LogonTypeOK
<1>2. conn[c].pc = "open" /\ UNCHANGED <<conversionFlags, server, login, conn>>
  BY Zenon DEF Execute
<1> DEFINE t == MarshalChar(told[c])
<1>3. /\ t \in ToldState /\ t.flags = told[c].flags /\ t.tokens = told[c].tokens /\ t.keys = told[c].keys
      /\ t.framed = told[c].framed \cup {conversionFlags}
  BY <1>1, Zenon DEF MarshalChar, ToldState
<1>4. told' = [told EXCEPT ![c] = t]
  BY Zenon DEF Execute
<1> HIDE DEF t
<1>5. told'[c] = t
  BY <1>4, Zenon DEF LogonInv, LogonTypeOK
<1>6. conn' = [conn EXCEPT ![c] = conn[c]]
  BY <1>2, Zenon DEF LogonInv, LogonTypeOK
<1>7. Rounds(c)'
  BY <1>1, <1>2, Zenon DEF Rounds
<1>8. Proved(c)'
  <2>1. Accepts(c)' = Accepts(c)
    BY <1>2, <1>3, <1>5, Zenon DEF Accepts
  <2> QED  BY <1>1, <1>2, <2>1, ZenonT(30) DEF Proved
<1>9. Versions(c)'
  BY <1>1, <1>2, <1>3, <1>5, Zenon DEF Versions
<1>10. Alike => Framing(c)'
  <2>1. Alike => conversionFlags = Expected(c)
    BY <1>2, FlagsExpected, Zenon
  <2>2. Expected(c)' = Expected(c)
    BY <1>2, Zenon DEF Expected
  <2> QED  BY <1>1, <1>2, <1>3, <1>5, <2>1, <2>2, ZenonT(30) DEF Framing
<1>11. Flags' /\ conversionFlags' \in {TTCLXMULTI, TTCLXMCONV}
  BY <1>1, <1>2, <1>6, FlagsKept, Zenon
<1> QED  BY <1>1, <1>2, <1>3, <1>4, <1>6, <1>7, <1>8, <1>9, <1>10, <1>11, OneConnection, Zenon

-----------------------------------------------------------------------------
(* The invariant of every logon: its rounds, its keys, its version and,    *)
(* with servers of one kind, its framing.                                  *)
THEOREM LogonInvariant == LogonSpec => []LogonInv
<1>1. LogonInv /\ [LogonNext]_logonVars => LogonInv'
  <2> SUFFICES ASSUME LogonInv, [LogonNext]_logonVars
               PROVE  LogonInv'
    BY Zenon
  <2>1. ASSUME NEW c \in Conns, ClientStep(c)
        PROVE  LogonInv'
    BY <2>1, PushProtocolKeeps, PullProtocolKeeps, PushDatatypeKeeps, PullDatatypeKeeps,
       PushSessionKeyKeeps, PushTokenKeeps, PushOAuthKeeps, PullAnswerKeeps, Zenon DEF ClientStep
  <2>2. CASE UNCHANGED logonVars
    BY <2>2, ZenonT(60) DEF logonVars, LogonInv, LogonTypeOK, Flags, Alike, Rounds, Proved, Accepts, Versions,
                Framing, Expected
  <2> QED  BY <2>1, <2>2, ServerAnswersKeeps, ExecuteKeeps, Zenon DEF LogonNext
<1> QED  BY <1>1, LogonInitInv, PTL DEF LogonSpec

(* A connection is handed out only after the server has accepted the logon *)
(* and, when it was one with a password, has proved that it knows that     *)
(* password: whatever the server answers, and whichever of the errors of   *)
(* the rounds it met before.                                               *)
THEOREM OpenIsMutualAlways == LogonSpec => []OpenIsMutual
<1>1. LogonInv => OpenIsMutual
  BY Zenon DEF LogonInv, Proved, OpenIsMutual
<1> QED  BY <1>1, LogonInvariant, PTL

(* Functions have a token in their header exactly when the versions both   *)
(* sides announced reach 18, the version that has it.                      *)
THEOREM VersionsAgreeAlways == LogonSpec => []VersionsAgree
<1>1. LogonInv => VersionsAgree
  <2> SUFFICES ASSUME LogonInv, NEW c \in Conns, server[c].proSvrVer = 6
               PROVE  told[c].tokens \subseteq
                        {ttcFldVsn(told[c].caps) >= 18 /\ ttcFldVsn(server[c].caps) >= 18}
    BY Zenon DEF VersionsAgree
  <2>1. told[c].caps \in ClientSide /\ told[c].tokens \subseteq {ttcFldVsn(server[c].caps) >= 18}
    BY Zenon DEF LogonInv, LogonTypeOK, ToldState, Versions
  <2>2. ttcFldVsn(told[c].caps) = 24
    BY <2>1, ClientVersion, Zenon
  <2> QED  BY <2>1, <2>2
<1> QED  BY <1>1, LogonInvariant, PTL

(* A process whose servers are all multibyte, or all not, frames the       *)
(* characters of every connection as announced and as expected, although   *)
(* no lock guards the flags that its logons share.                         *)
THEOREM FramingWhenAlikeAlways == LogonSpec => []FramingWhenAlike
<1>1. LogonInv => FramingWhenAlike
  BY Zenon DEF LogonInv, Alike, Framing, Expected, FramingWhenAlike, FramedForServer
<1> QED  BY <1>1, LogonInvariant, PTL

(* A password that validatePasswordLength admits always fits the buffer    *)
(* for its encryption: generateOAuthResponse cannot fail of it.            *)
THEOREM PasswordFits ==
  \A n \in 0 .. maxPasswordBytes :
    validateNibbleBufferLength(encryptedPasswordLength(n), passwordBufferLength)
BY DEF maxPasswordBytes, validateNibbleBufferLength, encryptedPasswordLength, applyPKCS5Padding,
       confounderLen, BlockSize, passwordBufferLength

-----------------------------------------------------------------------------
(* In step with the server.  Given LogonInv, what is left to show is local *)
(* to a connection: the reader of TTIDTY agrees with the server on what    *)
(* its answer holds, because the client gave up every time zone capability *)
(* the server said it does not have before it announced its own; and an    *)
(* RPA under way is one of the function whose callback is registered.      *)

Callback(at) ==
  IF at = "datatype" THEN "DTY" ELSE IF at = "sesskey" THEN "SESSKEY" ELSE IF at = "oauth" THEN "OAUTH" ELSE "none"

\* A client that still asks for time zones after the negotiation asks a server
\* that has them and, if it says so, their version.
TimeZonesAgree(c) ==
  SaysTzVersion(c) /\ tzExSet(conn[c].clientCaps) => tzExSet(ServerCaps(c)) /\ tzverSet(ServerCaps(c))

AnswersCallback(s) ==
  /\ s.request \in {"none", s.callback}
  /\ \A i \in DOMAIN s.replies : s.replies[i].kind = "RPA" => s.replies[i].form = s.callback

Step(c) ==
  /\ SaysTzVersion(c) => conn[c].inStep = TRUE
  /\ conn[c].callback = Callback(conn[c].pc)
  /\ conn[c].pc \notin {"sesskey", "oauth", "failed", "panicked"} => conn[c].queued = 0
  /\ conn[c].pc \in {"flags", "datatype"} => TimeZonesAgree(c)
  /\ conn[c].pc = "datatype" => told[c].caps = conn[c].clientCaps
  /\ conn[c].pc \in {"sesskey", "oauth"} => AnswersCallback(conn[c])

StepInv == \A c \in Conns : Step(c)

(* What adjustCapabilityFrom leaves of the time zone: nothing, unless the  *)
(* server has both the exchange and its version, or does not say.          *)
LEMMA TimeZonesGivenUp ==
  ASSUME NEW s \in Servers, tzExSet(adjustCapabilityFrom(newDefaultCapability, s.caps)),
         tzExSet(s.caps) => Ttc3 \in DOMAIN s.caps.compile
  PROVE  tzExSet(s.caps) /\ tzverSet(s.caps)
<1> DEFINE srv == s.caps
           noTzEx == TzEx \notin DOMAIN srv.run \/ ~HasFlag(srv.run[TzEx], 1)
           noTzVer == Ttc3 \in DOMAIN srv.compile /\ srv.compile[Ttc3] # 2
           left == adjustCapabilityFrom(newDefaultCapability, srv).run
<1>1. TzEx = 1 /\ Ttc3 = 37
  BY Zenon DEF TzEx, Ttc3, knownUsedCapabilities
<1>2. newDefaultCapability.run = [i \in {1} |-> 1]
  BY <1>1, Zenon DEF newDefaultCapability
<1>3. left = [newDefaultCapability.run EXCEPT ![TzEx] = IF noTzEx \/ noTzVer THEN Without(@, 1) ELSE @]
  BY ZenonT(30) DEF adjustCapabilityFrom
<1>4. DOMAIN left = {1} /\ left[1] = IF noTzEx \/ noTzVer THEN Without(1, 1) ELSE 1
  BY <1>1, <1>2, <1>3, Zenon
<1>5. Without(1, 1) = 0 /\ ~HasFlag(0, 1) /\ HasFlag(2, 2)
  BY DEF Without, HasFlag
<1>6. tzExSet(adjustCapabilityFrom(newDefaultCapability, srv)) = HasFlag(left[1], 1)
  BY <1>1, <1>4, Zenon DEF tzExSet, valueOf
<1>7. ~noTzEx /\ ~noTzVer
  <2> HIDE DEF left, noTzEx, noTzVer
  <2> QED  BY <1>4, <1>5, <1>6, Zenon
<1>8. tzExSet(srv)
  BY <1>7, Zenon DEF tzExSet, valueOf
<1>9. Ttc3 \in DOMAIN srv.compile
  BY <1>8, Zenon
<1>10. srv.compile[Ttc3] = 2
  BY <1>7, <1>9, Zenon
<1> QED  BY <1>5, <1>8, <1>9, <1>10, Zenon DEF tzverSet, valueOf

(* A server that sends no capabilities is taken to have both.              *)
LEMMA TimeZonesUnsaid == tzExSet(newCapability) /\ tzverSet(newCapability)
<1>1. TzEx = 1 /\ Ttc3 = 37 /\ TtcFldVsn = 7 /\ Ub2dty = 27
  BY Zenon DEF TzEx, Ttc3, TtcFldVsn, Ub2dty, knownUsedCapabilities
<1>2. newCapability.run[1] = 1 /\ 1 \in DOMAIN newCapability.run
  BY <1>1, Zenon DEF newCapability
<1>3. newCapability.compile[37] = 127 /\ 37 \in DOMAIN newCapability.compile
  BY <1>1 DEF newCapability
<1>4. HasFlag(1, 1) /\ HasFlag(127, 2)
  BY DEF HasFlag
<1> QED  BY <1>1, <1>2, <1>3, <1>4, Zenon DEF tzExSet, tzverSet, valueOf

(* An answer holds RPAs of the function it answers, and of no other.       *)
LEMMA AnswerForms ==
  ASSUME NEW c \in Conns, NEW request \in Requests,
         NEW r \in Answers(c, request) \cup {<<Broken>>}
  PROVE  \A i \in DOMAIN r : r[i].kind = "RPA" => r[i].form = request
<1>1. /\ Broken.kind = "ERR" /\ WRN.kind = "WRN" /\ \A f : OER(f).kind = "OER"
      /\ \A f : RPA(request, f).form = request
      /\ Msg("PRO", "PRO", "none").kind = "PRO" /\ Msg("DTY", "DTY", "none").kind = "DTY"
      /\ Msg("OTHER", "any", "none").kind = "OTHER"
  BY Zenon DEF Broken, WRN, OER, RPA, Msg
<1>2. CASE r = <<Broken>>
  BY <1>1, <1>2
<1>3. CASE request = "PRO" /\ r \in Answers(c, request)
  BY <1>1, <1>3 DEF Answers
<1>4. CASE request = "DTY" /\ r \in Answers(c, request)
  BY <1>1, <1>4 DEF Answers
<1>5. CASE request = "SESSKEY" /\ r \in Answers(c, request)
  <2>1. \/ r = <<RPA(request, "none"), OER("none")>>
        \/ r = <<WRN, RPA(request, "none"), OER("none")>>
        \/ r = <<OER("none")>> \/ r = <<OER("refused")>>
        \/ r = <<Msg("OTHER", "any", "none"), RPA(request, "none"), OER("none")>>
        \/ \E fault \in SesskeyFaults : r = <<RPA(request, fault)>>
    BY <1>5, Z3 DEF Answers
  <2> QED  BY <1>1, <2>1
<1>6. CASE request = "OAUTH" /\ r \in Answers(c, request)
  <2>1. CASE Accepts(c)
    <3>1. \/ r = <<RPA(request, "none"), OER("none")>>
          \/ r = <<RPA(request, "none"), WRN, OER("none")>>
          \/ r = <<OER("none")>>
          \/ \E fault \in OAuthFaults : r = <<RPA(request, fault)>>
      BY <1>6, <2>1, Z3 DEF Answers
    <3> QED  BY <1>1, <3>1
  <2>2. CASE ~Accepts(c)
    <3>1. r = <<OER("refused")>> \/ r = <<RPA(request, "none"), OER("refused")>>
      BY <1>6, <2>2, Z3 DEF Answers
    <3> QED  BY <1>1, <3>1
  <2> QED  BY <2>1, <2>2, Zenon
<1> QED  BY <1>2, <1>3, <1>4, <1>5, <1>6, Zenon DEF Requests

(* A step of one connection disturbs no other.                             *)
LEMMA OthersStay ==
  ASSUME LogonInv, StepInv, NEW c \in Conns, UNCHANGED server,
         \A d \in Conns \ {c} : conn'[d] = conn[d] /\ told'[d] = told[d],
         Step(c)'
  PROVE  StepInv'
<1>1. ASSUME NEW d \in Conns \ {c}
      PROVE  Step(d)'
  BY <1>1, SMTT(30) DEF StepInv, Step, TimeZonesAgree, SaysTzVersion, ServerCaps, AnswersCallback
<1> QED  BY <1>1, ZenonT(30) DEF StepInv

(* The new state of the connection that takes the step.                    *)
LEMMA Becomes ==
  ASSUME LogonInv, NEW c \in Conns, NEW s, Set(c, s)
  PROVE  conn'[c] = s /\ \A d \in Conns \ {c} : conn'[d] = conn[d]
BY Zenon DEF LogonInv, LogonTypeOK, Set

(* A round that fails leaves its callback.                                 *)
LEMMA FailedInStep ==
  ASSUME LogonInv, StepInv, NEW c \in Conns, NEW s \in ConnState,
         SaysTzVersion(c) => s.inStep = TRUE, NEW why,
         Set(c, Failed(s, why)), UNCHANGED <<server, told>>
  PROVE  StepInv'
<1> DEFINE z == Failed(s, why)
<1>1. z.inStep = s.inStep /\ z.callback = "none" /\ z.pc = "failed"
  BY Zenon DEF Failed, ConnState
<1>2. conn'[c] = z /\ \A d \in Conns \ {c} : conn'[d] = conn[d]
  BY Becomes, Zenon
<1> HIDE DEF z
<1>3. Step(c)'
  BY <1>1, <1>2, Zenon DEF Step, Callback, SaysTzVersion
<1> QED  BY <1>2, <1>3, OthersStay, Zenon

LEMMA SendFailsInStep ==
  ASSUME LogonInv, StepInv, NEW c \in Conns, SendFails(c), UNCHANGED server
  PROVE  StepInv'
<1>1. conn[c] \in ConnState /\ (SaysTzVersion(c) => conn[c].inStep = TRUE)
  BY Zenon DEF LogonInv, LogonTypeOK, StepInv, Step
<1> QED  BY <1>1, FailedInStep, Zenon DEF SendFails

LEMMA PushProtocolInStep ==
  ASSUME LogonInv, StepInv, NEW c \in Conns, PushProtocol(c)
  PROVE  StepInv'
<1>1. conn[c] \in ConnState /\ Step(c)
  BY Zenon DEF LogonInv, LogonTypeOK, StepInv
<1>2. conn[c].pc = "new" /\ UNCHANGED <<server, told>>
  BY ZenonT(30) DEF PushProtocol
<1>3. CASE \E why : Set(c, Failed(conn[c], why))
  BY <1>1, <1>2, <1>3, FailedInStep, Zenon DEF Step
<1> DEFINE z == [conn[c] EXCEPT !.pc = "protocol", !.request = "PRO"]
<1>4. CASE Set(c, z)
  <2>1. z.inStep = conn[c].inStep /\ z.callback = conn[c].callback /\ z.queued = conn[c].queued /\ z.pc = "protocol"
    BY <1>1, Zenon DEF ConnState
  <2>2. conn'[c] = z /\ \A d \in Conns \ {c} : conn'[d] = conn[d]
    BY <1>4, Becomes, Zenon
  <2> HIDE DEF z
  <2>3. Step(c)'
    BY <1>1, <1>2, <2>1, <2>2, Zenon DEF Step, Callback, SaysTzVersion
  <2> QED  BY <1>2, <2>2, <2>3, OthersStay, Zenon
<1> QED  BY <1>3, <1>4, Zenon DEF PushProtocol

LEMMA PullProtocolInStep ==
  ASSUME LogonInv, StepInv, NEW c \in Conns, PullProtocol(c)
  PROVE  StepInv'
<1>1. conn[c] \in ConnState /\ Step(c) /\ Rounds(c) /\ server[c] \in Servers
  BY Zenon DEF LogonInv, LogonTypeOK, StepInv
<1>2. conn[c].pc = "protocol" /\ UNCHANGED <<server, told>>
  BY Zenon DEF PullProtocol, Answered
<1> DEFINE w == WithCapabilities(conn[c], server[c])
           z == [w EXCEPT !.pc = "flags", !.replies = <<>>]
<1>3. \/ Set(c, Failed(conn[c], "protocol"))
      \/ server[c].proSvrVer \in 4 .. 6 /\ Set(c, z)
  BY Zenon DEF PullProtocol
<1>4. CASE Set(c, Failed(conn[c], "protocol"))
  BY <1>1, <1>2, <1>4, FailedInStep, ZenonT(30) DEF Step
<1>5. CASE server[c].proSvrVer \in 4 .. 6 /\ Set(c, z)
  <2>1. /\ z.inStep = conn[c].inStep /\ z.callback = conn[c].callback /\ z.queued = conn[c].queued
        /\ z.pc = "flags" /\ z.clientCaps = w.clientCaps
    BY <1>1, Zenon DEF ConnState, WithCapabilities
  <2>2. conn'[c] = z /\ \A d \in Conns \ {c} : conn'[d] = conn[d]
    BY <1>5, Becomes, Zenon
  <2>3. SaysTzVersion(c) /\ tzExSet(w.clientCaps) => tzExSet(ServerCaps(c)) /\ tzverSet(ServerCaps(c))
    <3>1. CASE server[c].proSvrVer = 6
      <4>1. w.clientCaps = adjustCapabilityFrom(newDefaultCapability, server[c].caps)
        BY <1>1, <1>2, <3>1 DEF WithCapabilities, ConnState, Rounds
      <4> QED  BY <1>1, <3>1, <4>1, TimeZonesGivenUp, Zenon DEF ServerCaps, SaysTzVersion
    <3>2. CASE server[c].proSvrVer # 6
      BY <3>2, TimeZonesUnsaid, Zenon DEF ServerCaps
    <3> QED  BY <3>1, <3>2, Zenon
  <2> HIDE DEF z, w
  <2>4. TimeZonesAgree(c)'
    BY <1>2, <2>1, <2>2, <2>3, Zenon DEF TimeZonesAgree, ServerCaps, SaysTzVersion
  <2>5. Step(c)'
    BY <1>1, <1>2, <2>1, <2>2, <2>4, Zenon DEF Step, Callback, SaysTzVersion
  <2> QED  BY <1>2, <2>2, <2>5, OthersStay, Zenon
<1> QED  BY <1>3, <1>4, <1>5, Zenon

LEMMA PushDatatypeInStep ==
  ASSUME LogonInv, StepInv, NEW c \in Conns, PushDatatype(c)
  PROVE  StepInv'
<1>1. conn[c] \in ConnState /\ told[c] \in ToldState /\ told \in [Conns -> ToldState] /\ Step(c)
  BY Zenon DEF LogonInv, LogonTypeOK, StepInv
<1>2. conn[c].pc = "flags" /\ UNCHANGED server
  BY Zenon DEF PushDatatype
<1>3. CASE SendFails(c)
  BY <1>2, <1>3, SendFailsInStep, Zenon
<1> DEFINE z == Asked(conn[c], "datatype", "DTY")
<1>4. CASE /\ Set(c, z)
           /\ told' = [told EXCEPT ![c].flags = conversionFlags, ![c].caps = conn[c].clientCaps]
  <2>1. /\ z.inStep = conn[c].inStep /\ z.callback = "DTY" /\ z.queued = conn[c].queued
        /\ z.pc = "datatype" /\ z.clientCaps = conn[c].clientCaps
    BY <1>1, Zenon DEF ConnState, Asked
  <2>2. conn'[c] = z /\ \A d \in Conns \ {c} : conn'[d] = conn[d]
    BY <1>4, Becomes, Zenon
  <2>3. told'[c].caps = conn[c].clientCaps /\ \A d \in Conns \ {c} : told'[d] = told[d]
    BY <1>1, <1>4, Zenon DEF ToldState
  <2> HIDE DEF z
  <2>4. TimeZonesAgree(c)'
    BY <1>1, <1>2, <2>1, <2>2, Zenon DEF Step, TimeZonesAgree, ServerCaps, SaysTzVersion
  <2>5. Step(c)'
    BY <1>1, <1>2, <2>1, <2>2, <2>3, <2>4, ZenonT(30) DEF Step, Callback, SaysTzVersion
  <2> QED  BY <1>2, <2>2, <2>3, <2>5, OthersStay, Zenon
<1> QED  BY <1>3, <1>4, Zenon DEF PushDatatype

LEMMA ServerAnswersInStep ==
  ASSUME LogonInv, StepInv, NEW c \in Conns, ServerAnswers(c)
  PROVE  StepInv'
<1>1. conn[c] \in ConnState /\ Step(c)
  BY Zenon DEF LogonInv, LogonTypeOK, StepInv
<1>2. conn[c].request # "none" /\ UNCHANGED <<server, told>>
  BY Zenon DEF ServerAnswers
<1>3. PICK r \in Answers(c, conn[c].request) \cup {<<Broken>>} :
        Set(c, [conn[c] EXCEPT !.request = "none", !.replies = r])
  BY Zenon DEF ServerAnswers
<1> DEFINE z == [conn[c] EXCEPT !.request = "none", !.replies = r]
<1>4. /\ z.inStep = conn[c].inStep /\ z.callback = conn[c].callback /\ z.queued = conn[c].queued
      /\ z.pc = conn[c].pc /\ z.clientCaps = conn[c].clientCaps /\ z.request = "none" /\ z.replies = r
  BY <1>1, Zenon DEF ConnState
<1>5. conn'[c] = z /\ \A d \in Conns \ {c} : conn'[d] = conn[d]
  BY <1>3, Becomes, Zenon
<1>6. conn[c].request \in Requests
  BY <1>1, <1>2, Zenon DEF ConnState
<1>7. \A i \in DOMAIN r : r[i].kind = "RPA" => r[i].form = conn[c].request
  BY <1>3, <1>6, AnswerForms, Zenon
<1> HIDE DEF z
<1>8. conn[c].pc \in {"sesskey", "oauth"} => AnswersCallback(z)
  BY <1>1, <1>2, <1>4, <1>7, Zenon DEF Step, AnswersCallback
<1>9. TimeZonesAgree(c) => TimeZonesAgree(c)'
  BY <1>2, <1>4, <1>5, Zenon DEF TimeZonesAgree, ServerCaps, SaysTzVersion
<1>10. Step(c)'
  BY <1>1, <1>2, <1>4, <1>5, <1>8, <1>9, Zenon DEF Step, SaysTzVersion
<1> QED  BY <1>2, <1>5, <1>10, OthersStay, Zenon

(* The answer to TTIDTY is read as it was written.                         *)
LEMMA DatatypeRead ==
  ASSUME NEW c \in Conns, Step(c), SaysTzVersion(c), conn[c].pc = "datatype",
         NEW table \in TablesRead, table.end = "done"
  PROVE  ReadDatatype(c, table)
<1>1. told[c].caps = conn[c].clientCaps /\ TimeZonesAgree(c)
  BY Zenon DEF Step
<1>2. AnswersTimeZone(c) = tzExSet(conn[c].clientCaps)
  BY <1>1, Zenon DEF TimeZonesAgree, AnswersTimeZone, tzExSet, HasFlag
<1>3. AnswersTzVersion(c) = (tzExSet(conn[c].clientCaps) /\ tzverSet(conn[c].clientCaps))
  BY <1>1, Zenon DEF TimeZonesAgree, AnswersTimeZone, AnswersTzVersion, tzExSet, tzverSet, HasFlag
<1>4. table.left = 0
  BY TablesEndTheMessage, Zenon
<1> QED  BY <1>2, <1>3, <1>4, Zenon DEF ReadDatatype

LEMMA PullDatatypeInStep ==
  ASSUME LogonInv, StepInv, NEW c \in Conns, PullDatatype(c)
  PROVE  StepInv'
<1>1. conn[c] \in ConnState /\ Step(c)
  BY Zenon DEF LogonInv, LogonTypeOK, StepInv
<1>2. conn[c].pc = "datatype" /\ UNCHANGED <<server, told>>
  BY Zenon DEF PullDatatype, Answered
<1> DEFINE v == negotiatedTTCVersion(ttcFldVsn(conn[c].clientCaps), ttcFldVsn(conn[c].serverCaps))
           z(step) == [conn[c] EXCEPT !.pc = "authenticate", !.replies = <<>>, !.callback = "none",
                                      !.inStep = step, !.version = v]
<1>3. PICK table \in TablesRead :
        \/ Set(c, Failed(conn[c], "datatype"))
        \/ table.end = "done" /\ Set(c, z(ReadDatatype(c, table)))
  BY ZenonT(30) DEF PullDatatype
<1>4. CASE Set(c, Failed(conn[c], "datatype"))
  BY <1>1, <1>2, <1>4, FailedInStep, ZenonT(30) DEF Step
<1>5. CASE table.end = "done" /\ Set(c, z(ReadDatatype(c, table)))
  <2>1. SaysTzVersion(c) => ReadDatatype(c, table) = TRUE
    BY <1>1, <1>2, <1>5, DatatypeRead, Zenon DEF ReadDatatype
  <2> DEFINE s == z(ReadDatatype(c, table))
  <2>2. Set(c, s)
    BY <1>5, Zenon
  <2>3. /\ s.inStep = ReadDatatype(c, table) /\ s.callback = "none" /\ s.queued = conn[c].queued
        /\ s.pc = "authenticate"
    BY <1>1, Zenon DEF ConnState
  <2>4. conn'[c] = s /\ \A d \in Conns \ {c} : conn'[d] = conn[d]
    BY <2>2, Becomes, Zenon
  <2>5. SaysTzVersion(c) => s.inStep = TRUE
    BY <2>1, <2>3, Zenon
  <2> HIDE DEF s
  <2>6. Step(c)'
    BY <1>1, <1>2, <2>3, <2>4, <2>5, Zenon DEF Step, Callback, SaysTzVersion
  <2> QED  BY <1>2, <2>4, <2>6, OthersStay, Zenon
<1> QED  BY <1>3, <1>4, <1>5, Zenon

(* A request for the session key or with the answer to it is sent, and     *)
(* nothing of an earlier answer is there when its callback is registered.  *)
LEMMA AsksInStep ==
  ASSUME LogonInv, StepInv, NEW c \in Conns, conn[c].pc \in {"authenticate", "respond"},
         NEW s, s.inStep = conn[c].inStep, s.pc \in {"sesskey", "oauth"}, s.request = Callback(s.pc),
         s.callback = Callback(s.pc), s.replies = conn[c].replies, Set(c, s), UNCHANGED server,
         NEW t, told' = [told EXCEPT ![c] = t]
  PROVE  StepInv'
<1>1. Rounds(c) /\ Step(c) /\ told \in [Conns -> ToldState]
  BY ZenonT(30) DEF LogonInv, LogonTypeOK, StepInv
<1>2. conn'[c] = s /\ \A d \in Conns \ {c} : conn'[d] = conn[d]
  BY Becomes, Zenon
<1>3. \A d \in Conns \ {c} : told'[d] = told[d]
  BY <1>1, Zenon
<1>4. s.replies = <<>>
  BY <1>1, Zenon DEF Rounds
<1>5. AnswersCallback(s)
  BY <1>4 DEF AnswersCallback
<1>6. Step(c)'
  BY <1>1, <1>2, <1>5, ZenonT(30) DEF Step, Callback, SaysTzVersion
<1> QED  BY <1>2, <1>3, <1>6, OthersStay, Zenon

LEMMA PushSessionKeyInStep ==
  ASSUME LogonInv, StepInv, NEW c \in Conns, PushSessionKey(c)
  PROVE  StepInv'
<1>1. conn[c] \in ConnState /\ Step(c)
  BY Zenon DEF LogonInv, LogonTypeOK, StepInv
<1>2. conn[c].pc = "authenticate" /\ UNCHANGED server
  BY ZenonT(30) DEF PushSessionKey
<1>3. ASSUME NEW why, Set(c, Failed(conn[c], why)), UNCHANGED told
      PROVE  StepInv'
  BY <1>1, <1>2, <1>3, FailedInStep, Zenon DEF Step
<1> DEFINE z == Asked(conn[c], "sesskey", "SESSKEY")
           t == Wrote(told[c], conn[c].version, TRUE)
<1>4. CASE Set(c, z) /\ told' = [told EXCEPT ![c] = t]
  <2>1. /\ z.inStep = conn[c].inStep /\ z.pc = "sesskey" /\ z.request = "SESSKEY" /\ z.callback = "SESSKEY"
        /\ z.replies = conn[c].replies
    BY <1>1, Zenon DEF ConnState, Asked
  <2> HIDE DEF z, t
  <2> QED  BY <1>2, <1>4, <2>1, AsksInStep, Zenon DEF Callback
<1>5. \/ Set(c, Failed(conn[c], validatePasswordLength(c))) /\ UNCHANGED told
      \/ SendFails(c)
      \/ Set(c, z) /\ told' = [told EXCEPT ![c] = t]
  BY Zenon DEF PushSessionKey
<1> HIDE DEF z, t
<1> QED  BY <1>2, <1>3, <1>4, <1>5, SendFailsInStep, Zenon

LEMMA PushTokenInStep ==
  ASSUME LogonInv, StepInv, NEW c \in Conns, PushToken(c)
  PROVE  StepInv'
<1>1. conn[c] \in ConnState /\ Step(c)
  BY Zenon DEF LogonInv, LogonTypeOK, StepInv
<1>2. conn[c].pc = "authenticate" /\ UNCHANGED server
  BY Zenon DEF PushToken
<1>3. ASSUME NEW why, Set(c, Failed(conn[c], why)), UNCHANGED told
      PROVE  StepInv'
  BY <1>1, <1>2, <1>3, FailedInStep, Zenon DEF Step
<1> DEFINE z == Asked(conn[c], "oauth", "OAUTH")
           t == [Wrote(told[c], conn[c].version, FALSE) EXCEPT !.keys = setTokenKeyVals(c)]
<1>4. CASE Set(c, z) /\ told' = [told EXCEPT ![c] = t]
  <2>1. /\ z.inStep = conn[c].inStep /\ z.pc = "oauth" /\ z.request = "OAUTH" /\ z.callback = "OAUTH"
        /\ z.replies = conn[c].replies
    BY <1>1, Zenon DEF ConnState, Asked
  <2> HIDE DEF z, t
  <2> QED  BY <1>2, <1>4, <2>1, AsksInStep, Zenon DEF Callback
<1>5. \/ Set(c, Failed(conn[c], validateToken(c))) /\ UNCHANGED told
      \/ SendFails(c)
      \/ Set(c, z) /\ told' = [told EXCEPT ![c] = t]
  BY Zenon DEF PushToken
<1> HIDE DEF z, t
<1> QED  BY <1>2, <1>3, <1>4, <1>5, SendFailsInStep, Zenon

LEMMA PushOAuthInStep ==
  ASSUME LogonInv, StepInv, NEW c \in Conns, PushOAuth(c)
  PROVE  StepInv'
<1>1. conn[c] \in ConnState /\ Step(c)
  BY Zenon DEF LogonInv, LogonTypeOK, StepInv
<1>2. conn[c].pc = "respond" /\ UNCHANGED server
  BY Zenon DEF PushOAuth
<1>3. ASSUME NEW why, Set(c, Failed(conn[c], why)), UNCHANGED told
      PROVE  StepInv'
  BY <1>1, <1>2, <1>3, FailedInStep, Zenon DEF Step
<1> DEFINE key == IF WithoutResponse(c) THEN NoKey ELSE buildO5LogonKey(login[c].secret, c)
           z == [Asked(conn[c], "oauth", "OAUTH") EXCEPT !.key = key]
           t == [Wrote(told[c], conn[c].version, TRUE) EXCEPT !.keys = setPasswordKeyVals(c)]
<1>4. CASE Set(c, z) /\ told' = [told EXCEPT ![c] = t]
  <2>1. /\ z.inStep = conn[c].inStep /\ z.pc = "oauth" /\ z.request = "OAUTH" /\ z.callback = "OAUTH"
        /\ z.replies = conn[c].replies
    BY <1>1, Zenon DEF ConnState, Asked
  <2> HIDE DEF z, t
  <2> QED  BY <1>2, <1>4, <2>1, AsksInStep, Zenon DEF Callback
<1>5. \/ (\E why : Set(c, Failed(conn[c], why))) /\ UNCHANGED told
      \/ SendFails(c)
      \/ Set(c, z) /\ told' = [told EXCEPT ![c] = t]
  BY ZenonT(30) DEF PushOAuth
<1> HIDE DEF z, t
<1> QED  BY <1>2, <1>3, <1>4, <1>5, SendFailsInStep, Zenon

(* The answer shrinks from its head.                                       *)
LEMMA RestOfAnswer ==
  ASSUME NEW q \in Seq(Messages), q # <<>>, NEW form,
         \A i \in DOMAIN q : q[i].kind = "RPA" => q[i].form = form
  PROVE  /\ Head(q).kind = "RPA" => Head(q).form = form
         /\ \A i \in DOMAIN Tail(q) : Tail(q)[i].kind = "RPA" => Tail(q)[i].form = form
<1>1. 1 \in DOMAIN q /\ Head(q) = q[1]
  OBVIOUS
<1>2. \A i \in DOMAIN Tail(q) : i + 1 \in DOMAIN q /\ Tail(q)[i] = q[i + 1]
  OBVIOUS
<1> QED  BY <1>1, <1>2, Zenon

(* A turn of the loop that goes on with the round.                         *)
LEMMA ReadInStep ==
  ASSUME LogonInv, StepInv, NEW c \in Conns, conn[c].pc \in {"sesskey", "oauth"},
         NEW s, AnswersCallback(s), SaysTzVersion(c) => s.inStep = TRUE,
         s.pc = conn[c].pc, s.callback = conn[c].callback,
         Set(c, s), UNCHANGED <<server, told>>
  PROVE  StepInv'
<1>1. Step(c)
  BY Zenon DEF StepInv
<1>2. conn'[c] = s /\ \A d \in Conns \ {c} : conn'[d] = conn[d]
  BY Becomes, Zenon
<1>3. Step(c)'
  BY <1>1, <1>2, Zenon DEF Step, SaysTzVersion
<1> QED  BY <1>2, <1>3, OthersStay, Zenon

(* The end of a round leaves neither a callback nor a message.             *)
LEMMA EndOfRoundInStep ==
  ASSUME LogonInv, StepInv, NEW c \in Conns, NEW s \in ConnState,
         SaysTzVersion(c) => s.inStep = TRUE,
         Set(c, EndOfRound(c, s)), UNCHANGED <<server, told>>
  PROVE  StepInv'
<1> DEFINE r == [s EXCEPT !.callback = "none", !.rpa = FALSE]
           z(at) == [r EXCEPT !.pc = at]
<1>1. \/ \E why : Set(c, Failed(s, why))
      \/ s.queued = 0 /\ \E at \in {"respond", "open", "panicked"} : Set(c, z(at))
  <2>1. s.queued > 0 \/ s.queued = 0
    BY SMTT(30) DEF ConnState
  <2> HIDE DEF r
  <2> QED  BY <2>1, ZenonT(30) DEF EndOfRound, r
<1>2. CASE \E why : Set(c, Failed(s, why))
  BY <1>2, FailedInStep, Zenon
<1>3. ASSUME s.queued = 0, NEW at \in {"respond", "open", "panicked"}, Set(c, z(at))
      PROVE  StepInv'
  <2>1. z(at).inStep = s.inStep /\ z(at).callback = "none" /\ z(at).queued = 0 /\ z(at).pc = at
    BY <1>3, Zenon DEF ConnState
  <2>2. conn'[c] = z(at) /\ \A d \in Conns \ {c} : conn'[d] = conn[d]
    BY <1>3, Becomes, Zenon
  <2> HIDE DEF z
  <2>3. Step(c)'
    BY <1>3, <2>1, <2>2, Zenon DEF Step, Callback, SaysTzVersion
  <2> QED  BY <2>2, <2>3, OthersStay, Zenon
<1> HIDE DEF z
<1> QED  BY <1>1, <1>2, <1>3, Zenon

LEMMA PullAnswerInStep ==
  ASSUME LogonInv, StepInv, NEW c \in Conns, PullAnswer(c)
  PROVE  StepInv'
<1>1. conn[c] \in ConnState /\ Step(c) /\ Rounds(c)
  BY Zenon DEF LogonInv, LogonTypeOK, StepInv
<1>2. /\ conn[c].pc \in {"sesskey", "oauth"} /\ conn[c].replies # <<>>
      /\ UNCHANGED <<server, told>>
  BY Zenon DEF PullAnswer
<1>3. conn[c].replies \in Seq(Messages)
  BY <1>1, Zenon DEF ConnState
<1> DEFINE m == Head(conn[c].replies)
           s == [conn[c] EXCEPT !.replies = Tail(@)]
<1>4. /\ m.kind = "RPA" => m.form = conn[c].callback
      /\ \A i \in DOMAIN Tail(conn[c].replies) :
           Tail(conn[c].replies)[i].kind = "RPA" => Tail(conn[c].replies)[i].form = conn[c].callback
  BY <1>1, <1>2, <1>3, RestOfAnswer, Zenon DEF Step, AnswersCallback
<1>5. Tail(conn[c].replies) \in Seq(Messages)
  BY <1>2, <1>3
<1>6. /\ s \in ConnState /\ s.pc = conn[c].pc /\ s.callback = conn[c].callback
      /\ SaysTzVersion(c) => s.inStep = TRUE
      /\ s.request = conn[c].request /\ s.replies = Tail(conn[c].replies)
  BY <1>1, <1>5, ZenonT(30) DEF ConnState, Step
<1>7. AnswersCallback(s)
  <2> HIDE DEF s
  <2> QED  BY <1>1, <1>2, <1>4, <1>6 DEF Step, AnswersCallback
<1>8. \/ Set(c, [s EXCEPT !.queued = @ + 1])
      \/ Set(c, s)
      \/ m.kind = "RPA" /\ \E r \in ReadRPA(c, s, m) : Set(c, r)
      \/ Set(c, EndOfRound(c, s))
      \/ Set(c, Failed(s, m.fault))
  BY Zenon DEF PullAnswer
<1> HIDE DEF s, m
<1>9. CASE Set(c, [s EXCEPT !.queued = @ + 1])
  <2> DEFINE r == [s EXCEPT !.queued = @ + 1]
  <2>1. /\ r.pc = s.pc /\ r.inStep = s.inStep /\ r.callback = s.callback
        /\ r.request = s.request /\ r.replies = s.replies
    BY <1>6, Zenon DEF ConnState
  <2>2. Set(c, r)
    BY <1>9, Zenon
  <2> HIDE DEF r
  <2>3. AnswersCallback(r)
    BY <1>7, <2>1, Zenon DEF AnswersCallback
  <2> QED  BY <1>2, <1>6, <2>1, <2>2, <2>3, ReadInStep, Zenon
<1>10. CASE Set(c, s)
  BY <1>2, <1>6, <1>7, <1>10, ReadInStep, Zenon
<1>11. CASE m.kind = "RPA" /\ \E r \in ReadRPA(c, s, m) : Set(c, r)
  <2>1. PICK r \in ReadRPA(c, s, m) : Set(c, r)
    BY <1>11, Zenon
  <2>2. PICK ch :
          r = [s EXCEPT !.rpa = TRUE, !.inStep = @ /\ m.form = s.callback,
                        !.challenge = IF m.form = "SESSKEY" THEN ch ELSE @,
                        !.proof = IF m.form = "OAUTH" THEN buildO5LogonKey(server[c].secret, c) ELSE @]
    BY <2>1, Zenon DEF ReadRPA
  <2>3. r.inStep = (s.inStep /\ m.form = s.callback)
    BY <1>6, <2>2, Zenon DEF ConnState
  <2>4. SaysTzVersion(c) => r.inStep = TRUE
    BY <1>4, <1>6, <1>11, <2>3, Zenon
  <2>5. /\ r.pc = s.pc /\ r.callback = s.callback
        /\ r.request = s.request /\ r.replies = s.replies
    BY <1>6, <2>2, Zenon DEF ConnState
  <2>6. AnswersCallback(r)
    BY <1>7, <2>5, Zenon DEF AnswersCallback
  <2> QED  BY <1>2, <1>6, <2>1, <2>4, <2>5, <2>6, ReadInStep, Zenon
<1>12. CASE Set(c, EndOfRound(c, s))
  BY <1>2, <1>6, <1>12, EndOfRoundInStep, Zenon
<1>13. CASE Set(c, Failed(s, m.fault))
  BY <1>2, <1>6, <1>13, FailedInStep, ZenonT(30)
<1> QED  BY <1>8, <1>9, <1>10, <1>11, <1>12, <1>13, Zenon

LEMMA ExecuteInStep ==
  ASSUME LogonInv, StepInv, NEW c \in Conns, Execute(c)
  PROVE  StepInv'
<1>1. conn[c].pc = "open" /\ UNCHANGED <<server, conn>> /\ told \in [Conns -> ToldState] /\ Step(c)
  BY Zenon DEF Execute, LogonInv, LogonTypeOK, StepInv
<1>2. \A d \in Conns \ {c} : told'[d] = told[d]
  BY <1>1, Zenon DEF Execute
<1>3. Step(c)'
  BY <1>1, Zenon DEF Step, SaysTzVersion
<1> QED  BY <1>1, <1>2, <1>3, OthersStay, Zenon

(* Every connection is in step with a server that says whether it has the  *)
(* version of its time zones, whatever the others do and wherever its      *)
(* rounds fail, and with any server no callback or reply outlives a round: *)
(* LogonInv gives the types and that nothing is left outside the rounds,   *)
(* StepInv the rest.                                                       *)
THEOREM LogonInStepAlways == LogonSpec => []LogonInStep
<1>1. LogonInit => StepInv
  <2> SUFFICES ASSUME LogonInit, NEW c \in Conns
               PROVE  Step(c)
    BY Zenon DEF StepInv
  <2>1. conn[c] = Fresh
    BY Zenon DEF LogonInit
  <2>2. conn[c].pc = "new" /\ conn[c].inStep = TRUE /\ conn[c].callback = "none" /\ conn[c].queued = 0
    BY <2>1 DEF Fresh
  <2> QED  BY <2>2, Zenon DEF Step, Callback
<1>2. LogonInv /\ StepInv /\ [LogonNext]_logonVars => StepInv'
  <2> SUFFICES ASSUME LogonInv, StepInv, [LogonNext]_logonVars
               PROVE  StepInv'
    BY Zenon
  <2>1. ASSUME NEW c \in Conns, ClientStep(c)
        PROVE  StepInv'
    BY <2>1, PushProtocolInStep, PullProtocolInStep, PushDatatypeInStep, PullDatatypeInStep,
       PushSessionKeyInStep, PushTokenInStep, PushOAuthInStep, PullAnswerInStep, Zenon DEF ClientStep
  <2>2. CASE UNCHANGED logonVars
    BY <2>2, ZenonT(30) DEF logonVars, StepInv, Step, TimeZonesAgree, SaysTzVersion, ServerCaps, AnswersCallback
  <2> QED  BY <2>1, <2>2, ServerAnswersInStep, ExecuteInStep, Zenon DEF LogonNext
<1>3. LogonInv /\ StepInv => LogonInStep
  <2> SUFFICES ASSUME LogonInv, StepInv, NEW c \in Conns
               PROVE  /\ SaysTzVersion(c) => conn[c].inStep
                      /\ conn[c].callback = (CASE conn[c].pc = "datatype" -> "DTY"
                                               [] conn[c].pc = "sesskey" -> "SESSKEY"
                                               [] conn[c].pc = "oauth" -> "OAUTH" [] OTHER -> "none")
                      /\ conn[c].pc \in {"flags", "authenticate", "respond", "open"} =>
                           conn[c].replies = <<>> /\ conn[c].queued = 0
    BY Zenon DEF LogonInStep
  <2>1. Step(c) /\ Rounds(c)
    BY Zenon DEF LogonInv, StepInv
  <2> QED  BY <2>1, Zenon DEF Step, Rounds, Callback
<1> QED  BY <1>1, <1>2, <1>3, LogonInvariant, PTL DEF LogonSpec

-----------------------------------------------------------------------------
(* One connection attempt. *)

\* What every transport operator keeps: one socket per stream, no stream
\* without an adapter.
Accounted(t) ==
  /\ t \in Transport
  /\ t.sockets = (IF t.stream THEN 1 ELSE 0)
  /\ t.adapter = "nil" => ~t.stream

\* Where connect is and what it holds there.
Progress ==
  /\ pc = "start" => ~net.stream /\ ~net.connected /\ redirectCount = 0 /\ resendCount = 0
  /\ pc = "recv" => net.stream /\ redirectCount <= MaxRedirect /\ resendCount <= MaxResend
  /\ pc = "connected" => net.stream /\ net.connected
  /\ pc = "failed" => ~net.stream /\ ~net.connected

AttemptInv ==
  TypeOK /\ Accounted(net) /\ Progress

-----------------------------------------------------------------------------
(* The transport operators. *)

\* Closing the adapter's stream closes its socket.
LEMMA AdapterDisconnectAccounted ==
  ASSUME NEW t, Accounted(t)
  PROVE  /\ Accounted(AdapterDisconnect(t)) /\ ~AdapterDisconnect(t).stream
         /\ AdapterDisconnect(t).adapter = t.adapter
         /\ AdapterDisconnect(t).connected = t.connected
<1> DEFINE u == AdapterDisconnect(t)
           n == IF t.stream THEN t.sockets - 1 ELSE t.sockets
<1>1. t \in Transport /\ n = 0 /\ t.stream \in BOOLEAN
  BY DEF Accounted, Transport
<1>2. u = [t EXCEPT !.stream = FALSE, !.sockets = n]
  BY Zenon DEF AdapterDisconnect
<1> HIDE DEF u, n
<1>3. u \in Transport
  BY <1>1, <1>2, Zenon DEF Transport
<1>4. u.stream = FALSE /\ u.sockets = 0 /\ u.adapter = t.adapter /\ u.connected = t.connected
  BY <1>1, <1>2, Zenon DEF Transport
<1>5. QED
  BY <1>3, <1>4, Zenon DEF Accounted, u

\* Disconnect leaves nothing behind, whatever it is given.
LEMMA DisconnectReleases ==
  ASSUME NEW t, Accounted(t)
  PROVE  Accounted(Disconnect(t)) /\ ~Disconnect(t).stream /\ ~Disconnect(t).connected
BY AdapterDisconnectAccounted, Zenon DEF Accounted, Disconnect, Transport

\* A transport without stream is connected with one socket.
LEMMA TransportConnectOpens ==
  ASSUME NEW t, Accounted(t), ~t.stream, NEW protocol \in Protocols
  PROVE  /\ Accounted(TransportConnect(t, protocol))
         /\ TransportConnect(t, protocol).stream
         /\ TransportConnect(t, protocol).connected = t.connected
<1> DEFINE u == NewAdapter(t, protocol)
           v == AdapterConnect(u)
<1>1. u \in Transport /\ u.adapter # "nil" /\ u.sockets = 0 /\ u.connected = t.connected
  <2>1. t \in Transport /\ t.sockets = 0
    BY Zenon DEF Accounted
  <2>2. CASE t.adapter = "nil"
    BY <2>1, <2>2, Zenon DEF NewAdapter, Transport, Protocols
  <2>3. CASE t.adapter # "nil"
    BY <2>1, <2>3, Zenon DEF NewAdapter
  <2>4. QED
    BY <2>2, <2>3, Zenon
<1> HIDE DEF u
<1>2. v = [u EXCEPT !.stream = TRUE, !.sockets = 1]
  BY <1>1 DEF AdapterConnect
<1> HIDE DEF v
<1>3. v \in Transport
  BY <1>1, <1>2, Zenon DEF Transport
<1>4. v.stream = TRUE /\ v.sockets = 1 /\ v.adapter = u.adapter /\ v.connected = u.connected
  BY <1>1, <1>2, Zenon DEF Transport
<1>5. QED
  BY <1>1, <1>3, <1>4, Zenon DEF Accounted, TransportConnect, u, v

\* A transport that cannot be connected has no stream.
LEMMA TransportFailureCloses ==
  ASSUME NEW t, Accounted(t), ~t.stream, NEW protocol \in Protocols,
         NEW u \in TransportFailures(t, protocol)
  PROVE  Accounted(u) /\ ~u.stream /\ u.connected = t.connected
<1>1. Accounted(NewAdapter(t, protocol)) /\ ~NewAdapter(t, protocol).stream
        /\ NewAdapter(t, protocol).connected = t.connected
  BY Zenon DEF Accounted, NewAdapter, Transport, Protocols
<1>2. /\ Accounted(AdapterConnect(NewAdapter(t, protocol)))
      /\ AdapterConnect(NewAdapter(t, protocol)).connected = t.connected
  BY TransportConnectOpens, Zenon DEF TransportConnect
<1>3. QED
  BY <1>1, <1>2, AdapterDisconnectAccounted, Zenon DEF TransportFailures

\* A redirect closes the stream it had.
LEMMA RedirectedCloses ==
  ASSUME NEW t, Accounted(t)
  PROVE  Accounted(Redirected(t)) /\ ~Redirected(t).stream /\ ~Redirected(t).connected
BY AdapterDisconnectAccounted, Zenon DEF Accounted, Redirected, Transport

-----------------------------------------------------------------------------
(* The invariant. *)

\* A session that fails in connect's own error path has released everything.
LEMMA FailReleases ==
  ASSUME AttemptInv, NEW t, Accounted(t), Fail(t)
  PROVE  /\ pc' = "failed" /\ sent' = sent
         /\ Accounted(net') /\ net' \in Transport /\ ~net'.stream /\ ~net'.connected
BY DisconnectReleases, Zenon DEF Fail, Accounted

\* Every step of the attempt preserves the invariant.
LEMMA StepPreserves == AttemptInv /\ [Next]_vars => AttemptInv'
<1> SUFFICES ASSUME AttemptInv, [Next]_vars PROVE AttemptInv'
  BY Zenon
<1> USE NSConnectBounds
<1> DEFINE Counters ==
      redirectCount' \in 0..(MaxRedirect + 1) /\ resendCount' \in 0..(MaxResend + 1)
           /\ pkt' \in PacketTypes \cup {"none"}
<1>a. ASSUME NEW t, Accounted(t), Fail(t), Counters PROVE AttemptInv'
  <2>1. /\ pc' = "failed" /\ sent' = sent
        /\ Accounted(net') /\ net' \in Transport /\ ~net'.stream /\ ~net'.connected
    BY <1>a, FailReleases, Zenon
  <2>2. TypeOK'
    BY <1>a, <2>1, Zenon DEF AttemptInv, TypeOK
  <2>3. Accounted(net)' /\ Progress'
    BY <2>1, Zenon DEF Accounted, Progress
  <2>4. QED
    BY <2>2, <2>3, Zenon DEF AttemptInv
<1>1. ASSUME NEW p \in Protocols, Start(p) PROVE AttemptInv'
  <2>0. /\ Accounted(net) /\ ~net.stream /\ ~net.connected /\ Counters
        /\ redirectCount' = 0 /\ resendCount' = 0
    BY <1>1, Zenon DEF AttemptInv, Start, Progress, TypeOK
  <2>1. CASE pc' = "failed" /\ UNCHANGED sent /\ net' \in TransportFailures(net, p)
    <3>1. Accounted(net') /\ ~net'.stream /\ ~net'.connected
      BY <2>0, <2>1, TransportFailureCloses, Zenon
    <3>2. QED
      BY <2>0, <2>1, <3>1, Zenon DEF AttemptInv, TypeOK, Accounted, Progress
  <2>2. CASE Fail(TransportConnect(net, p))
    BY <2>0, <2>2, <1>a, TransportConnectOpens, Zenon
  <2>3. CASE pc' = "recv" /\ net' = TransportConnect(net, p) /\ sent' = ConnectPacket(Original, 0)
    <3>1. Accounted(net') /\ net'.stream
      BY <2>0, <2>3, TransportConnectOpens, Zenon
    <3>2. sent' \in [data : 0..MaxRedirect, flags : Nat]
      BY <2>3 DEF ConnectPacket, Original
    <3>3. QED
      BY <2>0, <2>3, <3>1, <3>2 DEF AttemptInv, TypeOK, Accounted, Progress
  <2>4. QED
    BY <1>1, <2>1, <2>2, <2>3, Zenon DEF Start
<1>2. CASE Listener
  BY <1>2, Zenon DEF Listener, AttemptInv, TypeOK, Accounted, Progress
<1>3. CASE RecvFails
  BY <1>3, <1>a, Zenon DEF RecvFails, AttemptInv, TypeOK
<1>4. CASE NoConnection
  BY <1>4, <1>a, Zenon DEF NoConnection, Recv, AttemptInv, TypeOK
<1>5. CASE Accept
  <2>0. Accounted(net) /\ net.stream /\ Counters
    BY <1>5, Zenon DEF Accept, Recv, AttemptInv, Progress, TypeOK
  <2>1. Accounted(Disconnect(net)) /\ Accounted([net EXCEPT !.connected = TRUE])
    BY <2>0, DisconnectReleases, Zenon DEF Accounted, Transport
  <2>2. CASE pc' = "connected" /\ net' = [net EXCEPT !.connected = TRUE] /\ UNCHANGED sent
    <3>1. Accounted(net') /\ net'.stream /\ net'.connected
      BY <2>0, <2>1, <2>2, Zenon DEF Accounted, Transport
    <3>2. QED
      BY <2>0, <2>2, <3>1, Zenon DEF AttemptInv, TypeOK, Accounted, Progress
  <2>3. QED
    BY <1>5, <1>a, <2>0, <2>1, <2>2, Zenon DEF Accept
<1>6. ASSUME NEW p \in Protocols, NEW separate \in BOOLEAN, Redirect(p, separate) PROVE AttemptInv'
  <2>0. /\ Accounted(net) /\ Counters /\ resendCount' = resendCount
        /\ redirectCount' \in Nat /\ resendCount <= MaxResend
    BY <1>6 DEF Redirect, RedirectsCounted, Recv, AttemptInv, Progress, TypeOK
  <2>1. Accounted(Redirected(net)) /\ ~Redirected(net).stream
    BY <2>0, RedirectedCloses, Zenon
  <2>2. ASSUME NEW t \in TransportFailures(Redirected(net), p), Fail(t) PROVE AttemptInv'
    BY <1>a, <2>0, <2>1, <2>2, TransportFailureCloses, Zenon
  <2> DEFINE t == [TransportConnect(Redirected(net), p) EXCEPT !.connected = TRUE]
  <2>3. Accounted(t) /\ t.stream
    BY <2>1, TransportConnectOpens, ZenonT(30) DEF Accounted, Transport
  <2>4. CASE Fail(t)
    BY <1>a, <2>0, <2>3, <2>4, Zenon
  <2>5. CASE /\ redirectCount' <= MaxRedirect /\ pc' = "recv" /\ net' = t
             /\ sent' = ConnectPacket(IF separate THEN redirectCount' ELSE Original, NSPFRDR)
    <3> HIDE DEF t
    <3>1. sent' \in [data : 0..MaxRedirect, flags : Nat]
      BY <2>0, <2>5 DEF ConnectPacket, Original
    <3>2. QED
      BY <2>0, <2>3, <2>5, <3>1, Zenon DEF AttemptInv, TypeOK, Accounted, Progress
  <2>6. CASE Fail(net)
    BY <1>a, <2>0, <2>6, Zenon
  <2> HIDE DEF Counters
  <2>7. QED
    BY <1>6, <2>2, <2>4, <2>5, <2>6, Zenon DEF Redirect, MayRedirect
<1>7. ASSUME NEW renegotiate \in BOOLEAN, Resend(renegotiate) PROVE AttemptInv'
  <2>0. /\ Accounted(net) /\ net.stream /\ Counters /\ redirectCount' = redirectCount
        /\ redirectCount <= MaxRedirect
    BY <1>7 DEF Resend, ResendsCounted, Recv, AttemptInv, Progress, TypeOK
  <2>1. Accounted(Disconnect(net))
    BY <2>0, DisconnectReleases, Zenon
  <2>2. CASE resendCount' <= MaxResend /\ sent' = ConnectPacket(Original, 0) /\ UNCHANGED <<pc, net>>
    <3>1. sent' \in [data : 0..MaxRedirect, flags : Nat]
      BY <2>2 DEF ConnectPacket, Original
    <3>2. pc = "recv"
      BY <1>7, Zenon DEF Resend, Recv
    <3>3. QED
      BY <2>0, <2>2, <3>1, <3>2, Zenon DEF AttemptInv, TypeOK, Accounted, Progress
  <2>3. QED
    BY <1>7, <1>a, <2>0, <2>1, <2>2, Zenon DEF Resend
<1>8. CASE UNCHANGED vars
  BY <1>8, Zenon DEF vars, AttemptInv, TypeOK, Accounted, Progress
<1>9. QED
  BY <1>1, <1>2, <1>3, <1>4, <1>5, <1>6, <1>7, <1>8, Zenon DEF Next

\* Init establishes the invariant: newNetworkSession has no adapter.
LEMMA InitEstablishes == Init => AttemptInv
BY NSConnectBounds DEF Init, AttemptInv, TypeOK, Accounted, Progress, Transport, Original, PacketTypes

\* The accounting of sockets holds in every state of every attempt.
THEOREM AttemptInvariant == Spec => []AttemptInv
BY InitEstablishes, StepPreserves, PTL DEF Spec

\* The session's fields keep their types and the counters of redirects and
\* resends stop one past their limits.
THEOREM AttemptTypeOK == Spec => []TypeOK
<1>1. AttemptInv => TypeOK
  BY Zenon DEF AttemptInv
<1>2. QED
  BY <1>1, AttemptInvariant, PTL

\* connect never holds two sockets; it leaves none behind when it fails and one
\* when it succeeds, for every limit on redirects and resends.
THEOREM AttemptReleasesSockets == Spec => []SocketsReleased
<1>1. AttemptInv => SocketsReleased
  BY DEF AttemptInv, Accounted, Progress, SocketsReleased
<1>2. QED
  BY <1>1, AttemptInvariant, PTL

\* Disconnect finds the adapter of a connected session.
THEOREM AttemptKeepsAdapter == Spec => []ConnectedHasStream
<1>1. AttemptInv => ConnectedHasStream
  BY Zenon DEF AttemptInv, TypeOK, Accounted, Progress, ConnectedHasStream
<1>2. QED
  BY <1>1, AttemptInvariant, PTL

-----------------------------------------------------------------------------
(* The token provider. *)

Tokens == [key : Int, exp : Int]
CallerPcs == Ended \cup {"token", "wait", "request", "publish", "returned", "valid"}
CallerState == [pc : CallerPcs, now : Int, done : Int, token : Tokens, key : Int]

TokenTypeOK ==
  /\ clock \in Int /\ refreshDone \in Int /\ refreshing \in BOOLEAN
  /\ token \in Tokens /\ DOMAIN generations \subseteq Tokens
  /\ caller \in [Callers -> CallerState]

\* The key retained for a token is its own, for as long as the token is valid.
KeysMatch == \A t \in DOMAIN generations : generations[t] = [key |-> t.key, exp |-> t.exp]

\* A token that is cached, or that a caller is going to sign with, is retained
\* until it expires.
KeysKept ==
  /\ token # None /\ token.exp > clock => token \in DOMAIN generations
  /\ \A c \in Callers : caller[c].pc \in {"returned", "valid"} /\ caller[c].token.exp > clock =>
       caller[c].token \in DOMAIN generations

\* The token of a refresh is the one issued for its key.
IssuedForKey ==
  \A c \in Callers : caller[c].pc = "publish" /\ caller[c].token # None => caller[c].token.key = caller[c].done

Leads(c) == caller[c].pc \in {"request", "publish"}

\* One caller performs the refresh that is under way, if one is: two never ask the
\* service at once, and nobody waits for a channel that nobody will close.
OneRefresh ==
  /\ \A c, d \in Callers : Leads(c) /\ Leads(d) => c = d
  /\ refreshing <=> \E c \in Callers : Leads(c)

TokenInv == TokenTypeOK /\ KeysMatch /\ KeysKept /\ IssuedForKey /\ OneRefresh /\ SignedWithItsKey

\* A caller that is not logging on.
LEMMA IdleState == Idle \in CallerState /\ Idle.pc = "idle"
  BY DEF Idle, None, Tokens, CallerState, CallerPcs, Ended

\* Initially nothing is cached, retained or under way.
LEMMA TokenInitInv == TokenInit => TokenInv
<1> SUFFICES ASSUME TokenInit PROVE TokenInv
  BY Zenon
<1> USE DEF TokenInit
<1>1. Idle \in CallerState /\ Idle.pc = "idle"
  BY IdleState, Zenon
<1>2. None \in Tokens /\ DOMAIN generations = {}
  BY DEF Tokens, None
<1>5. caller \in [Callers -> CallerState]
  BY <1>1, Zenon
<1>6. refreshing \in BOOLEAN
  BY Zenon
<1>7. TokenTypeOK
  BY <1>2, <1>5, <1>6 DEF TokenTypeOK
<1>3. KeysMatch /\ KeysKept
  BY <1>1, Zenon DEF KeysMatch, KeysKept
<1>4. IssuedForKey /\ OneRefresh /\ SignedWithItsKey
  BY <1>1, ZenonT(30) DEF IssuedForKey, OneRefresh, Leads, SignedWithItsKey
<1> QED  BY <1>3, <1>4, <1>7, Zenon DEF TokenInv

\* The keys after a step: none is new or changed, and none of a valid token is gone.
KeysKeep ==
  /\ DOMAIN generations' \subseteq DOMAIN generations
  /\ \A t \in DOMAIN generations' : generations'[t] = [key |-> t.key, exp |-> t.exp]
  /\ \A t \in DOMAIN generations : t.exp > clock => t \in DOMAIN generations'

\* Pruning at the time of the clock is such a step, and so is leaving them alone.
LEMMA PruneKeeps ==
  ASSUME TokenInv, pruneExpiredGenerations(clock) \/ UNCHANGED generations
  PROVE  KeysKeep
  BY DEF TokenInv, TokenTypeOK, KeysMatch, KeysKeep, pruneExpiredGenerations, Retained, Tokens

\* What a caller may become while the cached token stays as it is.
MayBecome(c, r) ==
  /\ r \in CallerState
  /\ r.pc \in {"request", "publish"} <=> Leads(c)
  /\ r.pc \in {"returned", "valid"} =>
       \/ r.token = token /\ token # None
       \/ caller[c].pc \in {"returned", "valid"} /\ r.token = caller[c].token
  /\ r.pc = "publish" /\ r.token # None => r.token.key = r.done
  /\ r.pc = "signed" => r.key = r.token.key
  /\ r.pc = "no key" => r.token.exp <= r.now

\* The steps that leave the cached token and the refresh as they are.
LEMMA CallerMoves ==
  ASSUME TokenInv, NEW c \in Callers, NEW r, MayBecome(c, r), Go(c, r), KeysKeep,
         UNCHANGED <<clock, token, refreshing, refreshDone>>
  PROVE  TokenInv'
<1> USE DEF TokenInv, TokenTypeOK
<1>1. caller' = [caller EXCEPT ![c] = r] /\ r \in CallerState
  BY ZenonT(30) DEF Go, MayBecome
<1>2. TokenTypeOK' /\ KeysMatch'
  BY <1>1, Zenon DEF KeysMatch, KeysKeep
<1>3. KeysKept'
  BY <1>1, ZenonT(30) DEF KeysKept, KeysKeep, MayBecome
<1>4. IssuedForKey' /\ OneRefresh' /\ SignedWithItsKey'
  BY <1>1, ZenonT(30) DEF IssuedForKey, OneRefresh, SignedWithItsKey, Leads, MayBecome
<1> QED  BY <1>2, <1>3, <1>4, Zenon

\* A call that begins, fails, or looks again has no token yet.
LEMMA WithoutToken ==
  ASSUME TokenInv, NEW c \in Callers, ~Leads(c),
         NEW p \in {"token", "failed", "expired"}
  PROVE  MayBecome(c, [Idle EXCEPT !.pc = p])
<1>1. [Idle EXCEPT !.pc = p] = [pc |-> p, now |-> 0, done |-> 0, token |-> None, key |-> 0]
  BY DEF Idle
<1>2. None \in Tokens
  BY DEF None, Tokens
<1>4. p \in CallerPcs
  BY Zenon DEF CallerPcs, Ended
<1>3. [Idle EXCEPT !.pc = p] \in CallerState
  BY <1>1, <1>2, <1>4 DEF CallerState
<1> QED  BY <1>1, <1>3, Zenon DEF MayBecome

\* A call that returns a token.
LEMMA WithToken ==
  ASSUME NEW t \in Tokens, NEW r, r = [Idle EXCEPT !.pc = "returned", !.token = t]
  PROVE  r \in CallerState /\ r.pc = "returned" /\ r.token = t
  BY IdleState, Zenon DEF CallerState, CallerPcs

\* Token up to its return or its request, and the rest of the logon.
LEMMA QuietSteps ==
  ASSUME TokenInv, NEW c \in Callers,
         Authenticate(c) \/ Cancelled(c) \/ Cached(c) \/ Wait(c) \/ Woken(c)
  PROVE  TokenInv'
<1> caller[c] \in CallerState /\ token \in Tokens /\ refreshDone \in Int
  BY Zenon DEF TokenInv, TokenTypeOK
<1>1. CASE Authenticate(c) \/ Woken(c)
  <2>1. ~Leads(c) /\ Go(c, [Idle EXCEPT !.pc = "token"])
    BY <1>1, Zenon DEF Authenticate, Woken, Leads, Ended
  <2> QED  BY <1>1, <2>1, WithoutToken, PruneKeeps, CallerMoves, Zenon DEF Authenticate, Woken
<1>2. CASE Cancelled(c)
  <2>1. ~Leads(c) /\ Go(c, [Idle EXCEPT !.pc = "failed"])
    BY <1>2, Zenon DEF Cancelled, Fails, Leads
  <2> QED  BY <1>2, <2>1, WithoutToken, PruneKeeps, CallerMoves, Zenon DEF Cancelled
<1>3. CASE Cached(c)
  <2> DEFINE r == [Idle EXCEPT !.pc = "returned", !.token = token]
  <2>1. r \in CallerState /\ r.pc = "returned" /\ r.token = token
    BY WithToken, Zenon
  <2>3. MayBecome(c, r)
    BY <1>3, <2>1, Zenon DEF Cached, TokenIsFresh, MayBecome, Leads
  <2> QED  BY <1>3, <2>3, PruneKeeps, CallerMoves, Zenon DEF Cached
<1>4. CASE Wait(c)
  <2> DEFINE r == [caller[c] EXCEPT !.pc = "wait", !.done = refreshDone]
  <2>1. MayBecome(c, r)
    BY <1>4, Zenon DEF Wait, MayBecome, Leads, CallerState, CallerPcs
  <2> QED  BY <1>4, <2>1, PruneKeeps, CallerMoves, Zenon DEF Wait
<1> QED  BY <1>1, <1>2, <1>3, <1>4, Zenon

\* What requestToken returns: a token for the caller's own key, or none.
LEMMA ServiceAnswersKeeps ==
  ASSUME TokenInv, NEW c \in Callers, ServiceAnswers(c)
  PROVE  TokenInv'
<1>1. caller[c] \in CallerState /\ clock \in Int
  BY Zenon DEF TokenInv, TokenTypeOK
<1>2. PICK t \in Tokens : /\ Go(c, [caller[c] EXCEPT !.pc = "publish", !.token = t])
                          /\ t # None => t.key = caller[c].done
  <2>1. None \in Tokens
    BY DEF None, Tokens
  <2>2. \A l \in Lifetimes : [key |-> caller[c].done, exp |-> clock + l] \in Tokens
    <3>1. caller[c].done \in Int
      BY <1>1, Zenon DEF CallerState
    <3>2. \A l \in Lifetimes : clock + l \in Int
      BY <1>1, TimesAreIntegers
    <3> QED  BY <3>1, <3>2, Zenon DEF Tokens
  <2> QED  BY <2>1, <2>2, Zenon DEF ServiceAnswers
<1> DEFINE r == [caller[c] EXCEPT !.pc = "publish", !.token = t]
<1>3. r \in CallerState /\ r.pc = "publish" /\ r.token = t /\ r.done = caller[c].done
  BY <1>1, Zenon DEF CallerState, CallerPcs
<1>4. MayBecome(c, r)
  BY <1>2, <1>3, Zenon DEF MayBecome, ServiceAnswers, Leads
<1> QED  BY <1>2, <1>4, PruneKeeps, CallerMoves, Zenon DEF ServiceAnswers

\* The rest of the logon: the expiration is checked and the key looked up.
LEMMA SigningKeeps ==
  ASSUME TokenInv, NEW c \in Callers, Validate(c) \/ PrivateKeyForToken(c)
  PROVE  TokenInv'
<1> DEFINE t == caller[c].token
<1>1. caller[c] \in CallerState /\ t \in Tokens /\ clock \in Int /\ ~Leads(c)
  BY Zenon DEF TokenInv, TokenTypeOK, CallerState, Validate, PrivateKeyForToken, Leads
<1>2. CASE Validate(c)
  <2>1. CASE Fails(c, "expired")
    BY <1>1, <1>2, <2>1, WithoutToken, PruneKeeps, CallerMoves, Zenon DEF Validate, Fails
  <2>2. CASE Go(c, [caller[c] EXCEPT !.pc = "valid"])
    <3>1. MayBecome(c, [caller[c] EXCEPT !.pc = "valid"])
      BY <1>1, <1>2, Zenon DEF Validate, MayBecome, CallerState, CallerPcs, Leads
    <3> QED  BY <1>2, <2>2, <3>1, PruneKeeps, CallerMoves, Zenon DEF Validate
  <2> QED  BY <1>2, <2>1, <2>2, Zenon DEF Validate
<1>3. CASE PrivateKeyForToken(c)
  <2>1. CASE Fails(c, "failed") /\ UNCHANGED generations
    BY <1>1, <1>3, <2>1, WithoutToken, PruneKeeps, CallerMoves, Zenon DEF PrivateKeyForToken, Fails
  <2>2. CASE /\ t \in Retained(clock) /\ pruneExpiredGenerations(clock)
             /\ Go(c, [caller[c] EXCEPT !.pc = "signed", !.key = generations[t].key])
    <3>1. generations[t].key = t.key
      BY <1>1, <2>2 DEF TokenInv, KeysMatch, Retained
    <3>2. MayBecome(c, [caller[c] EXCEPT !.pc = "signed", !.key = generations[t].key])
      BY <1>1, <3>1, Zenon DEF MayBecome, CallerState, CallerPcs, Ended, Leads, Tokens
    <3> QED  BY <1>3, <2>2, <3>2, PruneKeeps, CallerMoves, Zenon DEF PrivateKeyForToken
  <2>3. CASE /\ t \notin Retained(clock) /\ pruneExpiredGenerations(clock)
             /\ Go(c, [caller[c] EXCEPT !.pc = "no key", !.now = clock])
    <3>1. t.exp <= clock
      BY <1>1, <1>3, <2>3 DEF TokenInv, KeysMatch, KeysKept, Retained, PrivateKeyForToken, Tokens
    <3>2. MayBecome(c, [caller[c] EXCEPT !.pc = "no key", !.now = clock])
      BY <1>1, <3>1, ZenonT(30) DEF MayBecome, CallerState, CallerPcs, Ended, Leads
    <3> QED  BY <1>3, <2>3, <3>2, PruneKeeps, CallerMoves, Zenon DEF PrivateKeyForToken
  <2> QED  BY <1>3, <2>1, <2>2, <2>3, Zenon DEF PrivateKeyForToken
<1> QED  BY <1>2, <1>3, Zenon

\* One caller begins a refresh when none is under way.
LEMMA LeadKeeps ==
  ASSUME TokenInv, NEW c \in Callers, Lead(c)
  PROVE  TokenInv'
<1> DEFINE r == [caller[c] EXCEPT !.pc = "request", !.now = clock, !.done = refreshDone + 1]
<1>1. r \in CallerState /\ r.pc = "request"
  <2>1. caller[c] \in CallerState /\ clock \in Int /\ refreshDone + 1 \in Int
    BY DEF TokenInv, TokenTypeOK
  <2> QED  BY <2>1, ZenonT(30) DEF CallerState, CallerPcs
<1>2. caller' = [caller EXCEPT ![c] = r] /\ UNCHANGED <<clock, token>> /\ ~refreshing /\ refreshing' = TRUE
  BY Zenon DEF Lead, Go
<1>3. KeysKeep
  BY PruneKeeps, Zenon DEF Lead
<1> HIDE DEF r
<1>4. TokenTypeOK' /\ KeysMatch'
  BY <1>1, <1>2, <1>3 DEF Lead, TokenInv, TokenTypeOK, KeysMatch, KeysKeep
<1>5. KeysKept'
  BY <1>1, <1>2, <1>3, Zenon DEF TokenInv, TokenTypeOK, KeysKept, KeysKeep
<1>6. IssuedForKey' /\ SignedWithItsKey'
  BY <1>1, <1>2, ZenonT(30) DEF TokenInv, TokenTypeOK, IssuedForKey, SignedWithItsKey
<1>7. \A d \in Callers : Leads(d)' <=> d = c
  BY <1>1, <1>2, Zenon DEF TokenInv, TokenTypeOK, OneRefresh, Leads
<1>8. OneRefresh'
  BY <1>2, <1>7, Zenon DEF OneRefresh
<1> QED  BY <1>4, <1>5, <1>6, <1>8, Zenon DEF TokenInv

\* The refresh ends: its token joins the ones that are retained.
LEMMA PublishKeeps ==
  ASSUME TokenInv, NEW c \in Callers, Publish(c)
  PROVE  TokenInv'
<1> DEFINE t == caller[c].token
<1>1. t \in Tokens /\ Leads(c) /\ (t # None => t.key = caller[c].done)
  BY Zenon DEF TokenInv, TokenTypeOK, IssuedForKey, CallerState, Publish, Leads
<1>2. PICK r \in CallerState :
        /\ caller' = [caller EXCEPT ![c] = r]
        /\ \/ r.pc = "failed" /\ UNCHANGED <<token, generations>>
           \/ /\ r.pc = "returned" /\ r.token = t /\ token' = t /\ t # None
              /\ generations' = [g \in DOMAIN generations \cup {t} |->
                                   IF g = t THEN [key |-> caller[c].done, exp |-> t.exp] ELSE generations[g]]
  <2>1. CASE t = None
    <3>1. [Idle EXCEPT !.pc = "failed"] \in CallerState /\ [Idle EXCEPT !.pc = "failed"].pc = "failed"
      BY IdleState, Zenon DEF CallerState, CallerPcs, Ended
    <3> QED  BY <2>1, <3>1, Zenon DEF Publish, Fails, Go
  <2>2. CASE t # None
    <3>1. Go(c, [Idle EXCEPT !.pc = "returned", !.token = t])
      BY <2>2, Zenon DEF Publish
    <3>2. PICK r : r = [Idle EXCEPT !.pc = "returned", !.token = t]
      BY Zenon
    <3>3. r \in CallerState /\ r.pc = "returned" /\ r.token = t
      BY <1>1, <3>2, WithToken, Zenon
    <3>4. caller' = [caller EXCEPT ![c] = r]
      BY <3>1, <3>2, Zenon DEF Go
    <3> QED  BY <2>2, <3>3, <3>4, Zenon DEF Publish
  <2> QED  BY <2>1, <2>2, Zenon
<1>3. UNCHANGED clock /\ UNCHANGED refreshDone /\ refreshing' = FALSE
  BY Zenon DEF Publish
<1>4. /\ DOMAIN generations' \subseteq Tokens /\ DOMAIN generations \subseteq DOMAIN generations'
      /\ \A g \in DOMAIN generations' : generations'[g] = [key |-> g.key, exp |-> g.exp]
      /\ token' \in Tokens /\ (token' = token \/ token' \in DOMAIN generations')
      /\ r.pc = "returned" => r.token \in DOMAIN generations'
  BY <1>1, <1>2 DEF TokenInv, TokenTypeOK, KeysMatch
<1>5. TokenTypeOK' /\ KeysMatch'
  BY <1>2, <1>3, <1>4, Zenon DEF TokenInv, TokenTypeOK, KeysMatch
<1>6. KeysKept'
  BY <1>2, <1>3, <1>4, Zenon DEF TokenInv, TokenTypeOK, KeysKept
<1>7. IssuedForKey' /\ SignedWithItsKey'
  BY <1>2, ZenonT(30) DEF TokenInv, TokenTypeOK, IssuedForKey, SignedWithItsKey
<1>8. \A d \in Callers : ~Leads(d)'
  BY <1>1, <1>2, Zenon DEF TokenInv, TokenTypeOK, OneRefresh, Leads
<1>9. OneRefresh'
  BY <1>3, <1>8, Zenon DEF OneRefresh
<1> QED  BY <1>5, <1>6, <1>7, <1>9, Zenon DEF TokenInv

(* The invariant of the provider and of the logons that share it.          *)
THEOREM TokenInvariant == TokenSpec => []TokenInv
<1>1. TokenInv /\ [TokenNext]_tokenVars => TokenInv'
  <2> SUFFICES ASSUME TokenInv, [TokenNext]_tokenVars
               PROVE  TokenInv'
    BY Zenon
  <2>1. CASE TimePasses
    <3>1. clock' \in Int /\ clock' > clock /\ UNCHANGED <<token, generations, refreshing, refreshDone, caller>>
      BY <2>1 DEF TimePasses, TokenInv, TokenTypeOK
    <3>2. TokenTypeOK' /\ KeysMatch' /\ IssuedForKey' /\ OneRefresh' /\ SignedWithItsKey'
      BY <3>1, ZenonT(30) DEF TokenInv, TokenTypeOK, KeysMatch, IssuedForKey, OneRefresh, Leads, SignedWithItsKey
    <3>3. KeysKept'
      BY <3>1, SMTT(30) DEF TokenInv, TokenTypeOK, KeysKept, CallerState, Tokens
    <3> QED  BY <3>2, <3>3, Zenon DEF TokenInv
  <2>2. CASE UNCHANGED tokenVars
    BY <2>2, ZenonT(30) DEF tokenVars, TokenInv, TokenTypeOK, KeysMatch, KeysKept, IssuedForKey, OneRefresh, Leads,
                SignedWithItsKey
  <2> QED  BY <2>1, <2>2, QuietSteps, ServiceAnswersKeeps, SigningKeeps, LeadKeeps, PublishKeeps, Zenon
           DEF TokenNext, CallerStep
<1> QED  BY <1>1, TokenInitInv, PTL DEF TokenSpec

(* "Implementations must keep the association valid for every token they   *)
(* return until that token expires": for any number of callers, refreshes  *)
(* and lifetimes, a logon signs with the key of its token, and is left     *)
(* without one only when that token has expired.                           *)
THEOREM SignedWithItsKeyAlways == TokenSpec => []SignedWithItsKey
<1>1. TokenInv => SignedWithItsKey
  BY Zenon DEF TokenInv
<1> QED  BY <1>1, TokenInvariant, PTL

(* Two callers never ask the service at once, and a refresh under way has  *)
(* a caller that performs it: nobody waits for a channel that no one will  *)
(* close.                                                                  *)
THEOREM RefreshIsPerformed == TokenSpec => []OneRefresh
<1>1. TokenInv => OneRefresh
  BY Zenon DEF TokenInv
<1> QED  BY <1>1, TokenInvariant, PTL
=============================================================================
