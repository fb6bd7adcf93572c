-------------------------------- MODULE Logon --------------------------------
(***************************************************************************)
(* From the connected session to the open connection: GetConnection, which *)
(* negotiates protocol and data types (ttc_negotiator.go) and then         *)
(* authenticates with a password (ttc_authenticator.go) or with a token    *)
(* (token_authenticator.go), and the server that answers.  Connections log *)
(* on concurrently, each in its own goroutine; what they share is the      *)
(* package variable typeRepresentationTable with its conversion flags,     *)
(* which no lock guards.                                                   *)
(***************************************************************************)
EXTENDS TypeRep, O5Logon, FiniteSets

CONSTANTS Conns,      \* connections of the process
          Servers,    \* what a server may be: proSvrVer, caps, multibyte, secret, trusting, o5lnp, o7lmr
          Logins,     \* what a logon may be: user, password, secret, length, sysdba, provider, token
          Challenges, \* the verifiers and key sizes servers challenge with
          Tables      \* the tables of representations servers answer with

\* A capability is a byte.
ASSUME ServersAnnounceVersions == \A s \in Servers : ttcFldVsn(s.caps) \in Nat

VARIABLES
  conversionFlags,  \* typeRepresentationTable.conversionFlags
  server,           \* per connection the server it talks to
  login,            \* per connection how it logs on
  conn,             \* per connection the state of its logon
  told              \* per connection what it has written so far

logonVars == <<conversionFlags, server, login, conn, told>>

TTCLXMULTI == 1
TTCLXMCONV == 2

\* A message of the server.  form: the function the message answers; fault: why
\* it is an error, or why it cannot be unmarshalled.
Msg(kind, form, fault) == [kind |-> kind, form |-> form, fault |-> fault]
WRN == Msg("WRN", "any", "none")
OER(fault) == Msg("OER", "any", fault)
RPA(form, fault) == Msg("RPA", form, fault)
Broken == Msg("ERR", "any", "transport")

Fresh ==
  [pc |-> "new", request |-> "none", replies |-> <<>>, callback |-> "none",
   serverCaps |-> newCapability, clientCaps |-> newDefaultCapability, version |-> -1,
   rpa |-> FALSE, queued |-> 0, challenge |-> [verifier |-> "none"], proof |-> NoKey,
   key |-> NoKey, inStep |-> TRUE, why |-> "none"]

Untold == [flags |-> 0, caps |-> newDefaultCapability, framed |-> {}, tokens |-> {}, keys |-> {}]

LogonInit ==
  /\ conversionFlags = TTCLXMULTI                 \* init of the package
  /\ server \in [Conns -> Servers] /\ login \in [Conns -> Logins]
  /\ conn = [c \in Conns |-> Fresh]
  /\ told = [c \in Conns |-> Untold]

-----------------------------------------------------------------------------
(* How to log on. *)

\* A user with a password, or no user and a provider of tokens; anything else is
\* refused before the session is connected.
GetAuthenticator(l) ==
  IF l.user THEN (IF l.password THEN "password" ELSE "none")
  ELSE IF ~l.password /\ l.provider # "none" THEN "token" ELSE "none"

-----------------------------------------------------------------------------
(* Versions: the implementation of a message that fits the one negotiated. *)

\* Register of OSESSKEY and OAUTH: from 18 on their header has a token.
MinTTCProtocolVersion == 12
FunctionRegistry == {MinTTCProtocolVersion, 18}

\* getBestImplementor: the latest that is not newer than the version; -1 is the
\* factory that does not know the version yet, 0 that there is none.
getBestImplementor(version, candidates) ==
  LET fit == {v \in candidates : version = -1 \/ v <= version}
  IN  IF fit = {} THEN 0 ELSE CHOOSE v \in fit : \A w \in fit : w <= v

HasFunction(version) == getBestImplementor(version, FunctionRegistry) # 0
HeaderHasToken(version) == getBestImplementor(version, FunctionRegistry) = 18

\* Mutant: the version of the client whatever the server has.
negotiatedTTCVersionClient(client, srv) == client

negotiatedTTCVersion(client, srv) == IF client < srv THEN client ELSE srv

-----------------------------------------------------------------------------
(* Steps shared by the rounds. *)

\* A round returns an error: the deferred function unregisters its callback, and
\* the connector drops the session with what is still to be read from it.
Failed(s, why) ==
  [s EXCEPT !.pc = "failed", !.why = why, !.callback = "none", !.replies = <<>>, !.request = "none"]

\* Push and Flush of a request, and the callback under which its answer is read.
Asked(s, pc, request) == [s EXCEPT !.pc = pc, !.request = request, !.callback = request]

Set(c, s) == conn' = [conn EXCEPT ![c] = s]

\* MarshalChar writes the bytes as they are under TTCLXMULTI, with their length
\* under any other flags.
MarshalChar(t) == [t EXCEPT !.framed = @ \cup {conversionFlags}]

\* A function with the header of the version; user: with a user name.
Wrote(t, version, user) ==
  [IF user THEN MarshalChar(t) ELSE t EXCEPT !.tokens = @ \cup {HeaderHasToken(version)}]

\* Push or Flush fails.
SendFails(c) == Set(c, Failed(conn[c], "transport")) /\ UNCHANGED told

-----------------------------------------------------------------------------
(* The server. *)

\* The keys of the OAUTH without which a server that checks the logon refuses it.
Needed(l) ==
  IF GetAuthenticator(l) = "password" THEN {"AUTH_PASSWORD", "AUTH_SESSKEY"}
  ELSE {"AUTH_TOKEN"} \cup (IF l.provider = "signed" THEN {"AUTH_HEADER", "AUTH_SIGNATURE"} ELSE {})

\* A server that checks the logon refuses a wrong secret; a trusting one accepts
\* any, and can still prove only what it knows.
Accepts(c) ==
  server[c].trusting \/ (login[c].secret = server[c].secret /\ Needed(login[c]) \subseteq told[c].keys)

\* What UnmarshalFrom of the two RPAs refuses.
SesskeyFaults == {"missing key", "PBKDF2 count"}
OAuthFaults == {"no mount id", "not mounted"}

Answers(c, request) ==
  CASE request = "PRO" -> {<<Msg("PRO", "PRO", "none")>>}
    [] request = "DTY" -> {<<Msg("DTY", "DTY", "none")>>}
    [] request = "SESSKEY" ->
         {<<RPA(request, "none"), OER("none")>>, <<WRN, RPA(request, "none"), OER("none")>>,
          <<OER("none")>>, <<OER("refused")>>,
          <<Msg("OTHER", "any", "none"), RPA(request, "none"), OER("none")>>}
         \cup {<<RPA(request, fault)>> : fault \in SesskeyFaults}
    [] OTHER ->                                   \* OAUTH
         IF Accepts(c)
           THEN {<<RPA(request, "none"), OER("none")>>, <<RPA(request, "none"), WRN, OER("none")>>,
                 <<OER("none")>>} \cup {<<RPA(request, fault)>> : fault \in OAuthFaults}
           ELSE {<<OER("refused")>>, <<RPA(request, "none"), OER("refused")>>}

\* The server answers, or the connection breaks.
ServerAnswers(c) ==
  /\ conn[c].request # "none"
  /\ \E r \in Answers(c, conn[c].request) \cup {<<Broken>>} :
       Set(c, [conn[c] EXCEPT !.request = "none", !.replies = r])
  /\ UNCHANGED <<conversionFlags, server, login, told>>

-----------------------------------------------------------------------------
(* Negotiate. *)

Answered(c, pc) == conn[c].pc = pc /\ conn[c].replies # <<>>

\* The first half of _negotiateProtocol, once there is an authenticator.
PushProtocol(c) ==
  /\ conn[c].pc = "new"
  /\ \/ GetAuthenticator(login[c]) = "none" /\ Set(c, Failed(conn[c], "no authenticator"))
     \/ GetAuthenticator(login[c]) # "none" /\ Set(c, Failed(conn[c], "transport"))
     \/ /\ GetAuthenticator(login[c]) # "none"
        /\ Set(c, [conn[c] EXCEPT !.pc = "protocol", !.request = "PRO"])
  /\ UNCHANGED <<conversionFlags, server, login, told>>

\* The capabilities after UnmarshalFrom: before protocol 6 the server sends none.
WithCapabilities(s, srv) ==
  IF srv.proSvrVer < 6 THEN s
  ELSE [s EXCEPT !.serverCaps = srv.caps, !.clientCaps = adjustCapabilityFrom(@, srv.caps)]

\* Mutant: the flag is set when the data types have been announced.
PullProtocolLeavesFlags(c) ==
  /\ Answered(c, "protocol")
  /\ Set(c, IF Head(conn[c].replies).kind = "ERR" \/ server[c].proSvrVer \notin 4 .. 6
              THEN Failed(conn[c], "protocol")
              ELSE [WithCapabilities(conn[c], server[c]) EXCEPT !.pc = "flags", !.replies = <<>>])
  /\ UNCHANGED <<conversionFlags, server, login, told>>

\* The rest of it, and _negotiateDatatype up to SetFlags.
PullProtocol(c) ==
  /\ Answered(c, "protocol")
  /\ IF Head(conn[c].replies).kind = "ERR" \/ server[c].proSvrVer \notin 4 .. 6
       THEN Set(c, Failed(conn[c], "protocol")) /\ UNCHANGED conversionFlags
       ELSE /\ Set(c, [WithCapabilities(conn[c], server[c]) EXCEPT !.pc = "flags", !.replies = <<>>])
            /\ conversionFlags' = IF server[c].multibyte THEN conversionFlags ELSE TTCLXMCONV
  /\ UNCHANGED <<server, login, told>>

\* MarshalTo of TTIDTY announces the flags and the capabilities, with the time
\* zone when they include it.
PushDatatype(c) ==
  /\ conn[c].pc = "flags"
  /\ \/ SendFails(c)
     \/ /\ Set(c, Asked(conn[c], "datatype", "DTY"))
        /\ told' = [told EXCEPT ![c].flags = conversionFlags, ![c].caps = conn[c].clientCaps]
  /\ UNCHANGED <<conversionFlags, server, login>>

\* What the server really has; nothing is known of one that does not say.
ServerCaps(c) == IF server[c].proSvrVer = 6 THEN server[c].caps ELSE newCapability

\* The time zone and its version in the server's answer: what both sides have.
AnswersTimeZone(c) == tzExSet(told[c].caps) /\ tzExSet(ServerCaps(c))
AnswersTzVersion(c) == AnswersTimeZone(c) /\ tzverSet(told[c].caps) /\ tzverSet(ServerCaps(c))

\* How the reader fares with each of the tables.
TablesRead == {[end |-> unmarshalTable(w).end, left |-> Len(w) - unmarshalTable(w).words] : w \in Tables}

\* The zero that ends a table is the last word of the server's message.
ASSUME TablesEndTheMessage == \A t \in TablesRead : t.end = "done" => t.left = 0

\* UnmarshalFrom of TTIDTY read exactly what the server wrote.  Out of step, the
\* words it takes for the table may come out as any of the tables.
ReadDatatype(c, table) ==
  /\ AnswersTimeZone(c) = tzExSet(conn[c].clientCaps)
  /\ AnswersTzVersion(c) = (tzExSet(conn[c].clientCaps) /\ tzverSet(conn[c].clientCaps))
  /\ table.left = 0

\* The rest of _negotiateDatatype and of Negotiate: the marshaller and the
\* factories of the negotiated version replace those of the negotiation.
PullDatatype(c) ==
  /\ Answered(c, "datatype")
  /\ \E table \in TablesRead :
       Set(c, IF Head(conn[c].replies).kind = "ERR" \/ table.end # "done"
                THEN Failed(conn[c], "datatype")
                ELSE [conn[c] EXCEPT !.pc = "authenticate", !.replies = <<>>, !.callback = "none",
                                     !.inStep = ReadDatatype(c, table),
                                     !.version = negotiatedTTCVersion(ttcFldVsn(conn[c].clientCaps),
                                                                      ttcFldVsn(conn[c].serverCaps))])
  /\ UNCHANGED <<conversionFlags, server, login, told>>

-----------------------------------------------------------------------------
(* Authenticate. *)

\* What the two Authenticate find wrong before they send anything: the length of
\* the password; the provider's token or, if it is a signed one, its key.
validatePasswordLength(c) ==
  IF login[c].length > maxPasswordBytes THEN "password length"
  ELSE IF HasFunction(conn[c].version) THEN "none" ELSE "no function"

validateToken(c) ==
  IF login[c].token # "valid" /\ (login[c].token = "no key" => login[c].provider = "signed")
  THEN login[c].token ELSE IF HasFunction(conn[c].version) THEN "none" ELSE "no function"

\* Authenticate with a password, and _doOSESSKEY up to Flush.
PushSessionKey(c) ==
  /\ conn[c].pc = "authenticate" /\ GetAuthenticator(login[c]) = "password"
  /\ LET e == validatePasswordLength(c)
     IN  \/ e # "none" /\ Set(c, Failed(conn[c], e)) /\ UNCHANGED told
         \/ e = "none" /\ SendFails(c)
         \/ /\ e = "none" /\ Set(c, Asked(conn[c], "sesskey", "SESSKEY"))
            /\ told' = [told EXCEPT ![c] = Wrote(@, conn[c].version, TRUE)]
  /\ UNCHANGED <<conversionFlags, server, login>>

\* setTokenKeyValsForOAUTH: a signed token goes with the header and its signature.
setTokenKeyVals(c) ==
  {"AUTH_TOKEN"} \cup (IF login[c].provider = "signed" THEN {"AUTH_HEADER", "AUTH_SIGNATURE"} ELSE {})

\* Authenticate with a token, up to Flush.
PushToken(c) ==
  /\ conn[c].pc = "authenticate" /\ GetAuthenticator(login[c]) = "token"
  /\ LET e == validateToken(c)
     IN  \/ e # "none" /\ Set(c, Failed(conn[c], e)) /\ UNCHANGED told
         \/ e = "none" /\ SendFails(c)
         \/ /\ e = "none" /\ Set(c, Asked(conn[c], "oauth", "OAUTH"))
            /\ told' = [told EXCEPT ![c] = [Wrote(@, conn[c].version, FALSE) EXCEPT !.keys = setTokenKeyVals(c)]]
  /\ UNCHANGED <<conversionFlags, server, login>>

\* What setVerifierType, _initializeOAuthResponse and generateOAuthResponse find
\* wrong with the challenge.  The key a wrong password decrypts may have no valid
\* padding.  SYSDBA without a password computes no response and derives no key.
WithoutResponse(c) == login[c].sysdba /\ login[c].length = 0

ResponseErrors(c) ==
  LET ch == conn[c].challenge
  IN  IF ch.verifier \notin VerifierTypes THEN {"verifier"}
      ELSE IF WithoutResponse(c) THEN {"ok"}
      ELSE IF ~validateKeySizeForOAUTH(ch.sk) THEN {"key size"}
      ELSE {generateOAuthResponse(ch.verifier, server[c].o5lnp, ch.sk, ch.padding, login[c].length)}
           \cup (IF padsSessionKey(ch.verifier, server[c].o5lnp) /\ login[c].secret # server[c].secret
                   THEN {"padding"} ELSE {})

\* setPasswordKeyValsForOAUTH; a logon without response adds no keys at all.
setPasswordKeyVals(c) ==
  IF WithoutResponse(c) THEN {}
  ELSE {"AUTH_PASSWORD", "AUTH_SESSKEY"}
       \cup (IF conn[c].challenge.verifier = "ZtvtSha512" /\ server[c].o7lmr THEN {"AUTH_PBKDF2_SPEEDY_KEY"} ELSE {})

\* _doOAuth up to Flush.
PushOAuth(c) ==
  /\ conn[c].pc = "respond"
  /\ \E e \in ResponseErrors(c) :
       \/ e # "ok" /\ Set(c, Failed(conn[c], e)) /\ UNCHANGED told
       \/ e = "ok" /\ SendFails(c)
       \/ /\ e = "ok"
          /\ Set(c, [Asked(conn[c], "oauth", "OAUTH") EXCEPT
                       !.key = IF WithoutResponse(c) THEN NoKey ELSE buildO5LogonKey(login[c].secret, c)])
          /\ told' = [told EXCEPT ![c] = [Wrote(@, conn[c].version, TRUE) EXCEPT !.keys = setPasswordKeyVals(c)]]
  /\ UNCHANGED <<conversionFlags, server, login>>

\* Mutant: an answer without an RPA is asked for once more.
EndOfRoundAsksAgain(c, s) ==
  LET r == [s EXCEPT !.callback = "none", !.rpa = FALSE]
      identity == IF GetAuthenticator(login[c]) = "token" THEN "ok" ELSE ValidateServerIdentity(s.key, s.proof)
  IN  IF s.queued > 0 \/ s.replies # <<>> THEN Failed(s, "unread")
      ELSE IF ~s.rpa THEN [s EXCEPT !.request = s.callback]
      ELSE IF s.pc = "sesskey" THEN [r EXCEPT !.pc = "respond"]
      ELSE IF identity = "ok" THEN [r EXCEPT !.pc = "open"]
      ELSE IF identity = "panic" THEN [r EXCEPT !.pc = "panicked"]
      ELSE Failed(s, "identity")

\* The end of the loop of _doOSESSKEY and of handleOAuthResponse: nothing may be
\* left of the answer (checkCurrentState) and the RPA must have been in it.  The
\* password logon then checks that the server knows the password too.
EndOfRound(c, s) ==
  LET r == [s EXCEPT !.callback = "none", !.rpa = FALSE]
      identity == IF GetAuthenticator(login[c]) = "token" THEN "ok" ELSE ValidateServerIdentity(s.key, s.proof)
  IN  IF s.queued > 0 \/ s.replies # <<>> THEN Failed(s, "unread")
      ELSE IF ~s.rpa THEN Failed(s, "no RPA")
      ELSE IF s.pc = "sesskey" THEN [r EXCEPT !.pc = "respond"]
      ELSE IF identity = "ok" THEN [r EXCEPT !.pc = "open"]
      ELSE IF identity = "panic" THEN [r EXCEPT !.pc = "panicked"]
      ELSE Failed(s, "identity")

\* UnmarshalFrom of the RPA in the form the callback registered for it.
ReadRPA(c, s, m) ==
  {[s EXCEPT !.rpa = TRUE, !.inStep = @ /\ m.form = s.callback,
             !.challenge = IF m.form = "SESSKEY" THEN ch ELSE @,
             !.proof = IF m.form = "OAUTH" THEN buildO5LogonKey(server[c].secret, c) ELSE @] :
     ch \in IF m.form = "SESSKEY" THEN Challenges ELSE {s.challenge}}

\* One turn of the loop: Pull of an RPA, OER or WRN keeps any other message for
\* whoever asks for it, and returns the first of these three.
PullAnswer(c) ==
  /\ conn[c].pc \in {"sesskey", "oauth"} /\ conn[c].replies # <<>>
  /\ LET m == Head(conn[c].replies)
         s == [conn[c] EXCEPT !.replies = Tail(@)]
     IN  \/ m.kind = "OTHER" /\ Set(c, [s EXCEPT !.queued = @ + 1])
         \/ m.kind = "WRN" /\ Set(c, s)
         \/ m.kind = "RPA" /\ m.fault = "none" /\ \E r \in ReadRPA(c, s, m) : Set(c, r)
         \/ m.kind = "OER" /\ m.fault = "none" /\ Set(c, EndOfRound(c, s))
         \/ m.fault # "none" /\ Set(c, Failed(s, m.fault))
  /\ UNCHANGED <<conversionFlags, server, login, told>>

\* An open connection executes statements, whose text and binds are characters.
Execute(c) ==
  /\ conn[c].pc = "open"
  /\ told' = [told EXCEPT ![c] = MarshalChar(@)]
  /\ UNCHANGED <<conversionFlags, server, login, conn>>

-----------------------------------------------------------------------------
ClientStep(c) ==
  \/ PushProtocol(c) \/ PullProtocol(c) \/ PushDatatype(c) \/ PullDatatype(c)
  \/ PushSessionKey(c) \/ PushToken(c) \/ PushOAuth(c) \/ PullAnswer(c)

LogonNext == \E c \in Conns : ClientStep(c) \/ ServerAnswers(c) \/ Execute(c)

\* The goroutine of a logon runs on; the server answers, or the read fails (the
\* peer closes, or the deadline of the context passes).
LogonFairness == \A c \in Conns : WF_logonVars(ClientStep(c)) /\ WF_logonVars(ServerAnswers(c))

LogonSpec == LogonInit /\ [][LogonNext]_logonVars /\ LogonFairness

-----------------------------------------------------------------------------
(* Properties. *)

\* The two sides agree on the form of the functions: a connection puts a token
\* number into the header of its functions exactly when the version that both the
\* announced and the server's own capabilities reach is one that has it.
VersionsAgree ==
  \A c \in Conns : server[c].proSvrVer = 6 =>
    LET client == ttcFldVsn(told[c].caps)
        srv == ttcFldVsn(server[c].caps)
    IN  told[c].tokens \subseteq {client >= 18 /\ srv >= 18}

\* The capabilities of the server reach as far as TZVER, unless it exchanges no time
\* zones or sends no capabilities.  adjustCapabilityFrom takes nothing back for a
\* list that ends before TZVER: TTIDTY then reads a version that is not sent.
SaysTzVersion(c) ==
  server[c].proSvrVer = 6 /\ tzExSet(server[c].caps) => Ttc3 \in DOMAIN server[c].caps.compile

\* The logon stays in step with a server whose capabilities reach as far as TZVER:
\* what a reply holds is what its reader reads (the time zone and the table of
\* TTIDTY, the RPA in the form of the function it answers).  With any server a
\* callback is registered only while the answer it is for is awaited, and no round
\* leaves a reply for the next.
LogonInStep ==
  \A c \in Conns :
    /\ SaysTzVersion(c) => conn[c].inStep
    /\ conn[c].callback = (CASE conn[c].pc = "datatype" -> "DTY" [] conn[c].pc = "sesskey" -> "SESSKEY"
                             [] conn[c].pc = "oauth" -> "OAUTH" [] OTHER -> "none")
    /\ conn[c].pc \in {"flags", "authenticate", "respond", "open"} => conn[c].replies = <<>> /\ conn[c].queued = 0

\* Both sides have proved themselves before a connection is handed out: the server
\* accepted the logon and, when it was one with a password, knows that password.
OpenIsMutual ==
  \A c \in Conns : conn[c].pc = "open" =>
    /\ Accepts(c)
    /\ GetAuthenticator(login[c]) = "password" => login[c].secret = server[c].secret

\* Characters are framed as the server of the connection expects them.
FramedForServer(c) ==
  told[c].framed \subseteq {IF server[c].multibyte THEN TTCLXMULTI ELSE TTCLXMCONV}

\* With servers that are all multibyte, or all not, every connection frames its
\* characters as it announced and as its server expects, from its first function.
FramingWhenAlike ==
  (\A c, d \in Conns : server[c].multibyte = server[d].multibyte) =>
    \A c \in Conns : FramedForServer(c) /\ told[c].framed \subseteq {told[c].flags}

\* "If the server character set is not multibyte, set the TTCLXMCONV flag to
\* indicate that character data should be treated as length-prefixed."
\* (ttc_negotiator.go): whichever other servers the process talks to.
CharFramingFollowsServer == \A c \in Conns : FramedForServer(c)

\* Every logon ends: GetConnection returns a connection or an error, or panics.
LogonEnds == <>(\A c \in Conns : conn[c].pc \in {"open", "failed", "panicked"})
=============================================================================
