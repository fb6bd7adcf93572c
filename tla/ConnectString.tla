---------------------------- MODULE ConnectString ----------------------------
(***************************************************************************)
(* The way of a connect string: the driver adds its configuration          *)
(* (OracleDriver.go, configuration.go), ParseDSNString turns an easy       *)
(* connect string into a descriptor (parse_ezconnect.go) and parses it,    *)
(* the iterator writes a descriptor for one of the addresses (iterator.go) *)
(* and the session adds who connects and sends it (nsprotocol.go).         *)
(***************************************************************************)
EXTENDS NamingSyntax

CONSTANTS
  ProgramName,    \* the text common.ProgramName has
  ResolvedIP      \* the address the host names resolve to

VARIABLES
  dsn,      \* what was given and the ParsedConfig made of it
  cData     \* the descriptor a session sends to the listener

dsnVars == <<dsn, cData>>

NoDsn == [st |-> "none"]
DsnInit == dsn = NoDsn /\ cData = <<>>

-----------------------------------------------------------------------------
(* The driver. *)

\* The fields of the configuration with an ns_name, in their order; a string
\* that is empty is left out, one with spaces or equals signs quoted.
ToNSConnectionParameters(config) ==
  LET shown == SelectSeq(config, LAMBDA f : f.val # <<>>)
      text(f) ==
        <<f.name, "=">>
        \o (IF {" ", "="} \cap ToSet(f.val) # {} /\ unquoted(f.val) = f.val
            THEN <<"\"">> \o f.val \o <<"\"">> ELSE f.val)
  IN  FlattenSeq([i \in DOMAIN shown |-> (IF i = 1 THEN <<>> ELSE <<"&">>) \o text(shown[i])])

-----------------------------------------------------------------------------
(* Easy connect strings. *)

parameterDestinations ==
  [p \in {"ENABLE", "FAILOVER", "LOAD_BALANCE", "RECV_BUF_SIZE", "SEND_BUF_SIZE", "SDU",
          "SOURCE_ROUTE", "RETRY_COUNT", "RETRY_DELAY", "CONNECT_TIMEOUT",
          "TRANSPORT_CONNECT_TIMEOUT", "RECV_TIMEOUT", "USE_SNI", "COMPRESSION", "EXPIRE_TIME"}
     |-> "DESCRIPTION"]
  @@ [p \in {"HTTPS_PROXY", "HTTPS_PROXY_PORT"} |-> "ADDRESS"]
  @@ [p \in {"POOL_CONNECTION_CLASS", "POOL_PURITY", "SERVICE_TAG", "CONNECTION_ID_PREFIX",
             "POOL_BOUNDARY"} |-> "CONNECT_DATA"]
  @@ [p \in {"SSL_SERVER_CERT_DN", "SSL_SERVER_DN_MATCH", "WALLET_LOCATION", "TOKEN_AUTH",
             "TOKEN_LOCATION"} |-> "SECURITY"]

_parameterAliases == [MY_WALLET_DIRECTORY |-> "WALLET_LOCATION"]

StripSpacesOutsideQuotes(t) ==
  LET kept == Where(t, LAMBDA i : t[i] # " " \/ inQuotes(t, i))
  IN  [k \in DOMAIN kept |-> t[kept[k]]]

\* parseExtendedParams: the parameters that are recognized; the others are
\* returned, and used for nothing.
addParam(s, parts) ==
  LET name == WordOf(ToUpper(TrimSpace(parts[1])))
      key == IF name \in DOMAIN _parameterAliases THEN _parameterAliases[name] ELSE name
  IN  IF Len(parts) # 2 THEN Refuse
      ELSE IF key \notin DOMAIN parameterDestinations THEN s
      ELSE Taken((key :> unquoted(TrimSpace(parts[2]))) @@ s.is)
parseExtendedParams(t) ==
  LET pieces == Split(t, "&")
      params == SelectSeq([i \in DOMAIN pieces |-> TrimSpace(pieces[i])], LAMBDA p : p # <<>>)
      add(s, p) == IF s.ok THEN addParam(s, SplitN(p, "=")) ELSE Refuse
  IN  FoldLeft(add, Taken(<<>>), params)

\* splitAndParseExtendedParams: they follow the first question mark outside
\* parentheses.
splitAndParseExtendedParams(t) ==
  LET depth(i) == Cardinality({j \in 1 .. i : t[j] = "("}) - Cardinality({j \in 1 .. i : t[j] = ")"})
      marks == {i \in DOMAIN t : t[i] = "?" /\ depth(i) = 0}
  IN  IF marks = {} THEN [url |-> t, params |-> Taken(<<>>)]
      ELSE [url |-> SubSeq(t, 1, Min(marks) - 1),
            params |-> parseExtendedParams(SubSeq(t, Min(marks) + 1, Len(t)))]

defaultOraclePort == <<"1521">>

\* A host and its port are complete.
hostEnded(s, host, port, number) ==
  IF ~number.ok \/ number.is \notin 1 .. 65535 THEN [s EXCEPT !.ok = FALSE]
  ELSE [s EXCEPT !.hosts = Append(@, [host |-> host, port |-> port]),
                 !.host = <<>>, !.port = <<>>, !.toPort = FALSE]
endHostAt(s, port) == hostEnded(s, TrimSpace(s.host), port, parseUIntField(port))
endHost(s) ==
  endHostAt(s, IF TrimSpace(s.port) = <<>> THEN defaultOraclePort ELSE TrimSpace(s.port))

\* parseHostList: an empty host is refused in the last place only.
hostsOf(s) == IF s.ok THEN Taken(s.hosts) ELSE Refuse
lastHost(s) == IF s.ok /\ TrimSpace(s.host) # <<>> THEN hostsOf(endHost(s)) ELSE Refuse
parseHostList(t) ==
  LET one(s, c) ==
        IF ~s.ok THEN s
        ELSE CASE c \in {"[", "]"} -> [s EXCEPT !.inBrackets = c = "[", !.host = Append(@, c)]
               [] c = ":" /\ ~s.inBrackets -> [s EXCEPT !.toPort = TRUE]
               [] c = ":" /\ s.inBrackets -> [s EXCEPT !.host = Append(@, c)]
               [] c = "," -> endHost(s)
               [] OTHER -> IF s.toPort THEN [s EXCEPT !.port = Append(@, c)]
                           ELSE [s EXCEPT !.host = Append(@, c)]
  IN  lastHost(FoldLeft(one, [ok |-> TRUE, hosts |-> <<>>, host |-> <<>>, port |-> <<>>,
                              toPort |-> FALSE, inBrackets |-> FALSE], t))

parseAddressGroups(t) ==
  LET pieces == Split(t, ";")
      groups == SelectSeq([i \in DOMAIN pieces |-> TrimSpace(pieces[i])], LAMBDA g : g # <<>>)
  IN  IF groups = <<>> THEN Refuse
      ELSE Every([i \in DOMAIN groups |-> parseHostList(groups[i])])

\* parseMainURL: [protocol://]groups[/service[:server][/instance]].
mainURL(protocol, groups, parts, service) ==
  IF ~protocol.ok \/ ~groups.ok THEN Refuse
  ELSE Taken([protocol |-> protocol.is, groups |-> groups.is,
             serviceName |-> service[1],
             serverMode |-> IF Len(service) = 2 THEN ToUpper(service[2]) ELSE <<>>,
             instanceName |-> IF Len(parts) > 2 THEN parts[3] ELSE <<>>])
mainURLOf(protocol, parts) ==
  mainURL(protocol, parseAddressGroups(parts[1]), parts,
          IF Len(parts) > 1 THEN SplitN(parts[2], ":") ELSE << <<>> >>)
parseMainURL(t) ==
  LET matched == Len(t) >= 4 /\ SubSeq(t, 2, 4) = <<":", "/", "/">> /\ t[1] \notin {"/", ":", "]", ",", ";"}
  IN  mainURLOf(IF matched THEN NormalizeProtocol(<<t[1]>>) ELSE Taken("TCP"),
                Split(IF matched THEN SubSeq(t, 5, Len(t)) ELSE t, "/"))

\* (name=text)
NameValue(name, text) == <<"(", name, "=">> \o text \o <<")">>

\* The parameters of a section, in the order in which the map is ranged over.
paramsFor(section, params, order) ==
  LET of == SelectSeq(order, LAMBDA p : parameterDestinations[p] = section)
  IN  FlattenSeq([i \in DOMAIN of |-> NameValue(of[i], params[of[i]])])

buildDescriptionParams(parsed, params, order) ==
  (IF "LOAD_BALANCE" \notin DOMAIN params /\ Len(parsed.groups) = 1 /\ Len(parsed.groups[1]) > 1
   THEN NameValue("LOAD_BALANCE", <<"ON">>) ELSE <<>>)
  \o paramsFor("DESCRIPTION", params, order)

buildAddress(hp, protocol, proxyInfo) ==
  LET bracketed == Len(hp.host) >= 2 /\ hp.host[1] = "[" /\ Last(hp.host) = "]"
      host == IF bracketed THEN SubSeq(hp.host, 2, Len(hp.host) - 1) ELSE hp.host
  IN  NameValue("ADDRESS", NameValue("PROTOCOL", <<protocol>>) \o NameValue("HOST", host)
                           \o NameValue("PORT", hp.port) \o proxyInfo)

buildAddressList(parsed, params) ==
  LET param(p) == IF p \in DOMAIN params THEN params[p] ELSE <<>>
      proxyInfo ==
        IF param("HTTPS_PROXY") = <<>> THEN <<>>
        ELSE NameValue("HTTPS_PROXY", param("HTTPS_PROXY"))
             \o (IF param("HTTPS_PROXY_PORT") = <<>> THEN <<>>
                 ELSE NameValue("HTTPS_PROXY_PORT", param("HTTPS_PROXY_PORT")))
      addresses(group) ==
        FlattenSeq([i \in DOMAIN group |-> buildAddress(group[i], parsed.protocol, proxyInfo)])
      list(group) ==
        NameValue("ADDRESS_LIST",
                  (IF Len(group) > 1 THEN NameValue("LOAD_BALANCE", <<"ON">>) ELSE <<>>) \o addresses(group))
  IN  IF Len(parsed.groups) = 1 THEN addresses(parsed.groups[1])
      ELSE FlattenSeq([i \in DOMAIN parsed.groups |-> list(parsed.groups[i])])

buildConnectData(parsed, params, order) ==
  NameValue("CONNECT_DATA",
            NameValue("SERVICE_NAME", parsed.serviceName)
            \o (IF parsed.serverMode = <<>> THEN <<>> ELSE NameValue("SERVER", parsed.serverMode))
            \o (IF parsed.instanceName = <<>> THEN <<>> ELSE NameValue("INSTANCE_NAME", parsed.instanceName))
            \o paramsFor("CONNECT_DATA", params, order))

buildSecurity(params, order) ==
  LET security == paramsFor("SECURITY", params, order)
  IN  IF security = <<>> THEN <<>> ELSE NameValue("SECURITY", security)

buildTNS(parsed, params, order) ==
  NameValue("DESCRIPTION",
            buildDescriptionParams(parsed, params, order) \o buildAddressList(parsed, params)
            \o buildConnectData(parsed, params, order) \o buildSecurity(params, order))

\* Every text parseEzConnect may return, one for each order of the parameters;
\* none if it fails.
easyTexts(params, parsed) ==
  IF ~params.ok \/ ~parsed.ok THEN {}
  ELSE {buildTNS(parsed.is, params.is, order) : order \in SetToSeqs(DOMAIN params.is)}
easyTextsOf(split) == easyTexts(split.params, parseMainURL(split.url))
parseEzConnect(t) == easyTextsOf(splitAndParseExtendedParams(StripSpacesOutsideQuotes(t)))

resolveTrimmed(trimmed) ==
  IF trimmed # <<>> /\ trimmed[1] = "(" THEN {trimmed} ELSE parseEzConnect(trimmed)
resolveConnectStringURL(t) == resolveTrimmed(TrimSpace(t))

\* ParseDSNString for the text the driver puts together.  A text with an at sign
\* has credentials before it, whatever the driver did with them.
ParsedConfig(root, context) ==
  IF context.ok THEN Taken([rootNode |-> root, context |-> context.is]) ELSE Refuse
configOf(root) == IF root = NoNode THEN Refuse ELSE ParsedConfig(root, ExtractConnectionContext(root))
configsOf(texts) ==
  IF texts = {} THEN {Refuse} ELSE {configOf(ParseDescriptor(SplitN(tns, "?")[1])) : tns \in texts}
parseParts(parts) ==
  IF Len(parts) = 2 /\ Len(SplitN(parts[1], "/")) # 2 THEN {Refuse}
  ELSE configsOf(resolveConnectStringURL(Last(parts)))
ParseDSNString(t) == parseParts(SplitN(t, "@"))

\* OpenConnector: the descriptor and the configuration, which holds what the
\* query of the data source name set.
OpenConnector(given, descriptor, config) ==
  /\ dsn = NoDsn
  /\ \E result \in ParseDSNString(descriptor \o <<"?">> \o ToNSConnectionParameters(config)) :
       dsn' = [st |-> IF result.ok THEN "parsed" ELSE "error", given |-> given, config |-> config,
               is |-> IF result.ok THEN result.is ELSE <<>>]
  /\ UNCHANGED cData

-----------------------------------------------------------------------------
(* One attempt to connect. *)

\* The descriptions of a descriptor with their nodes, in the same order.
Described ==
  LET root == dsn.is.rootNode
      context == dsn.is.context
      nodes == Parts(root, "DESCRIPTION")
  IN  IF root.name = "DESCRIPTION" THEN {[meaning |-> context, node |-> root]}
      ELSE IF root.name = "DESCRIPTION_LIST"
      THEN {[meaning |-> context.descriptions[i], node |-> nodes[i]] : i \in DOMAIN nodes}
      ELSE {}

\* GetAllAddresses
AllAddresses(description) ==
  UNION {ToSet(list.addresses) : list \in ToSet(description.lists)} \cup ToSet(description.addresses)

extractConnectDataNode(node) ==
  LET found == Parts(node, "CONNECT_DATA")
  IN  IF found = <<>> THEN Node("CONNECT_DATA", <<>>, <<>>) ELSE found[1]

Itoa(n) == <<ToString(n)>>

\* The ADDRESS of buildConnectString and buildDescriptionWithAddress: the address
\* the name was resolved to, if it was, in the place of the host.
addressNode(address, resolvedIP) ==
  LET field(f, default) == IF f \in DOMAIN address THEN address[f] ELSE default
      host == IF resolvedIP # <<>> THEN resolvedIP ELSE field("HOST", <<>>)
      proxy == field("HTTPS_PROXY", <<>>)
      proxyPort == field("HTTPS_PROXY_PORT", 0)
  IN  Node("ADDRESS", <<>>,
           <<Node("PROTOCOL", <<field("PROTOCOL", "TCP")>>, <<>>), Node("HOST", host, <<>>),
             Node("PORT", Itoa(field("PORT", 0)), <<>>)>>
           \o (IF proxy = <<>> THEN <<>> ELSE <<Node("HTTPS_PROXY", proxy, <<>>)>>)
           \o (IF proxy = <<>> \/ proxyPort = 0 THEN <<>>
               ELSE <<Node("HTTPS_PROXY_PORT", Itoa(proxyPort), <<>>)>>))

\* buildConnectString, and buildDescriptionWithAddress for an address without a
\* description.
buildConnectString(address, resolvedIP, connectDataNodes) ==
  NodeToString(Node("DESCRIPTION", <<>>, <<addressNode(address, resolvedIP)>> \o connectDataNodes))

sanitizeCIDValue(v) ==
  LET trimmed == TrimSpace(v)
  IN  IF trimmed = <<>> THEN <<"unknown">>
      ELSE [i \in DOMAIN trimmed |-> IF trimmed[i] \in {"(", ")", "="} THEN "_" ELSE trimmed[i]]

\* buildCIDNode; the host and the user are treated as the program is.
cachedCIDNode == Node("CID", <<>>, <<Node("PROGRAM", sanitizeCIDValue(ProgramName), <<>>)>>)
connIDNode == Node("CONNECTION_ID", <<"id">>, <<>>)

\* ConnectToOptionWithConnectionID: the descriptor is parsed again, and what is
\* sent names the client in its first CONNECT_DATA.
ConnectToOption(connectString) ==
  /\ \E root \in {ParseDescriptor(connectString)} :
       LET data == SelectInSeq(root.children, LAMBDA c : c.name = "CONNECT_DATA")
           full == IF data # 0 THEN root
                   ELSE [root EXCEPT !.children = Append(@, Node("CONNECT_DATA", <<>>, <<>>))]
           at == IF data # 0 THEN data ELSE Len(full.children)
       IN  /\ root # NoNode
           /\ cData' = NodeToString([full EXCEPT !.children[at].children =
                                               @ \o <<cachedCIDNode, connIDNode>>])
  /\ UNCHANGED dsn

\* An attempt at any of the addresses, its name resolved or not.
Attempt(resolvedIP) ==
  /\ dsn.st = "parsed" /\ cData = <<>>
  /\ \/ \E d \in Described : \E a \in AllAddresses(d.meaning) :
          ConnectToOption(buildConnectString(a, resolvedIP, <<extractConnectDataNode(d.node)>>))
     \/ /\ dsn.is.rootNode.name \in {"ADDRESS", "ADDRESS_LIST"}
        /\ \E a \in ToSet(dsn.is.context) : ConnectToOption(buildConnectString(a, resolvedIP, <<>>))
-----------------------------------------------------------------------------
(* Properties.  What is given is either the tree of a descriptor or the parts *)
(* of an easy connect string, and every field of the configuration comes with *)
(* the Go value it has.                                                       *)

Easy == "groups" \in DOMAIN dsn.given

Unacceptable ==
  IF Easy
  THEN \/ dsn.given.protocol \notin {"TCP", "TCPS"} \/ dsn.given.groups = <<>>
       \/ \E group \in ToSet(dsn.given.groups) : \E a \in ToSet(group) : a.port \notin 1 .. 65535
  ELSE ~ExtractConnectionContext(dsn.given.root).ok

\* The fields of the configuration that nvctx.go knows in a section; the one for
\* weak matches has no place in an easy connect string.
Configured(section) ==
  LET name(f) == WordOf(ToUpper(<<f.name>>))
      here == {f \in ToSet(dsn.config) :
                 /\ f.val # <<>>
                 /\ name(f) \in DOMAIN Fields[section] \ {"SSL_ALLOW_WEAK_DN_MATCH"}}
  IN  [n \in {name(f) : f \in here} |-> (CHOOSE f \in here : name(f) = n).is]

IntendedAddress(a) ==
  LET proxy == Configured("ADDRESS")
  IN  [PROTOCOL |-> dsn.given.protocol, HOST |-> a.host, PORT |-> a.port]
      @@ (IF "HTTPS_PROXY" \in DOMAIN proxy THEN proxy ELSE <<>>)

IntendedConnectData ==
  [SERVICE_NAME |-> dsn.given.service]
  @@ (IF dsn.given.mode = <<>> THEN <<>> ELSE [SERVER |-> dsn.given.mode])
  @@ (IF dsn.given.instance = <<>> THEN <<>> ELSE [INSTANCE_NAME |-> dsn.given.instance])

\* Several groups are tried one after the other, the hosts of each in any order.
Intended ==
  LET groups == dsn.given.groups
      addresses(g) == [i \in DOMAIN g |-> IntendedAddress(g[i])]
      list(g) == [fields |-> IF Len(g) > 1 THEN [LOAD_BALANCE |-> TRUE] ELSE <<>>, addresses |-> addresses(g)]
  IN  [fields |-> Configured("DESCRIPTION"),
       lists |-> IF Len(groups) = 1 THEN <<>> ELSE [i \in DOMAIN groups |-> list(groups[i])],
       addresses |-> IF Len(groups) = 1 THEN addresses(groups[1]) ELSE <<>>,
       security |-> Configured("SECURITY"), connectData |-> IntendedConnectData, levels |-> <<>>]

\* What a listener may be asked for: an address and the connect data that goes
\* with it.
Wanted ==
  LET root == dsn.given.root
      descriptions == IF root.name = "DESCRIPTION" THEN {root} ELSE ToSet(Parts(root, "DESCRIPTION"))
      holders(d) == {d} \cup ToSet(Parts(d, "ADDRESS_LIST"))
      of(holder) == {extractAddress(a).is : a \in ToSet(Parts(holder, "ADDRESS"))}
      fieldsOf(d) == LET data == Parts(d, "CONNECT_DATA")
                     IN  IF data = <<>> THEN <<>> ELSE extractConnectData(data[1]).is
  IN  IF Easy THEN {[address |-> IntendedAddress(a), data |-> IntendedConnectData] :
                      a \in UNION {ToSet(g) : g \in ToSet(dsn.given.groups)}}
      ELSE IF root.name = "ADDRESS" THEN {[address |-> extractAddress(root).is, data |-> <<>>]}
      ELSE IF root.name = "ADDRESS_LIST" THEN {[address |-> a, data |-> <<>>] : a \in of(root)}
      ELSE UNION {{[address |-> a, data |-> fieldsOf(d)] : a \in UNION {of(h) : h \in holders(d)}} :
                  d \in descriptions}

Asks(seen, address, want) ==
  LET data == seen.children[2].children
      n == Len(data)
  IN  /\ seen.name = "DESCRIPTION" /\ Len(seen.children) = 2
      /\ address.ok
      /\ \A f \in DOMAIN want.address \ {"HOST"} : address.is[f] = want.address[f]
      /\ address.is["HOST"] \in {want.address["HOST"], ResolvedIP}
      /\ extractConnectData([seen.children[2] EXCEPT !.children = SubSeq(data, 1, n - 2)]) = Taken(want.data)
      /\ data[n - 1].name = "CID" /\ Len(data[n - 1].children) = 1 /\ data[n - 1].children[1].name = "PROGRAM"
      /\ data[n] = connIDNode
AsksForOneOf(seen, wanted) ==
  seen # NoNode /\ \E want \in wanted : Asks(seen, extractAddress(seen.children[1]), want)

\* The driver's documentation begins an easy connect string with two slashes.
Slashed == Easy /\ dsn.given.slashes

\* A comment has the hosts of a single group balanced unless the setting says
\* otherwise; the configuration always has one, so that it never says nothing.
Unsettled ==
  IF Len(dsn.given.groups) = 1 /\ Len(dsn.given.groups[1]) > 1 /\ ~Configured("DESCRIPTION")["LOAD_BALANCE"]
  THEN {"LOAD_BALANCE"} ELSE {}
Settled(description) == [description EXCEPT !.fields = [f \in DOMAIN @ \ Unsettled |-> @[f]]]

\* Whatever the spaces of a connect string and the order in which its parameters
\* are taken from their map, the connector works with the addresses, the service
\* and the settings that were given, each where its reader looks for it, or
\* refuses them; and what a session sends asks the listener for one of the
\* addresses with the connect data of the same description, and names the client
\* (ParseDSNString, parseEzConnect, buildConnectString, ConnectToOption).
\* Nothing is said of a string that begins with slashes, and of the balancing of
\* a single group for which it was not turned on.
ConnectStringHonoured ==
  /\ dsn # NoDsn /\ ~Slashed => (dsn.st = "error" <=> Unacceptable)
  /\ dsn.st = "parsed" =>
       IF Easy THEN Settled(dsn.is.context) = Settled(Intended) ELSE dsn.is.rootNode = dsn.given.root
  /\ cData # <<>> => AsksForOneOf(ParseDescriptor(cData), Wanted)

\* An easy connect string in the form of the driver's documentation,
\* "myuser/mypassword@//my_host:1521/my_service_name?failover=true", is accepted
\* when its hosts and ports are (parseMainURL).
DocumentedFormAccepted == dsn # NoDsn /\ Slashed /\ ~Unacceptable => dsn.st = "parsed"
=============================================================================
