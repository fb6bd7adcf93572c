---------------------------- MODULE NamingSyntax ----------------------------
(***************************************************************************)
(* Connect descriptors: their text (nv.go) and what it means (nvctx.go).   *)
(* A text is a sequence of atoms: a character that means something to one  *)
(* of the parsers, or a word of others.  A node's name is one word.        *)
(***************************************************************************)
EXTENDS Integers, Sequences, SequencesExt, TLC

CONSTANTS
  UpperCase,    \* the words that have lower-case letters |-> in upper case
  Numerals,     \* the words strconv.Atoi takes |-> their numbers
  Durations     \* the words time.ParseDuration takes |-> their milliseconds

----------------------------------------------------------------------------
(* Texts. *)

ToUpper(t) == [i \in DOMAIN t |-> IF t[i] \in DOMAIN UpperCase THEN UpperCase[t[i]] ELSE t[i]]

WordOf(t) == IF Len(t) = 1 THEN t[1] ELSE ""

TrimSpace(t) ==
  LET words == {i \in DOMAIN t : t[i] # " "}
  IN  IF words = {} THEN <<>> ELSE SubSeq(t, Min(words), Max(words))

\* strings.SplitN(t, c, 2)
SplitN(t, c) ==
  LET k == SelectInSeq(t, LAMBDA x : x = c)
  IN  IF k = 0 THEN <<t>> ELSE <<SubSeq(t, 1, k - 1), SubSeq(t, k + 1, Len(t))>>

\* The positions of a text at which test holds, in order.
Where(t, test(_)) == SelectSeq([i \in DOMAIN t |-> i], test)

\* What stands before, between and after these positions.
Pieces(t, cuts) ==
  LET ends == <<0>> \o cuts \o <<Len(t) + 1>>
  IN  [k \in 1 .. Len(cuts) + 1 |-> SubSeq(t, ends[k] + 1, ends[k + 1] - 1)]

\* strings.Split(t, c)
Split(t, c) == Pieces(t, Where(t, LAMBDA i : t[i] = c))

inQuotes(t, i) == Cardinality({j \in 1 .. i - 1 : t[j] = "\""}) % 2 = 1

\* The quotes around a value are taken off.
unquoted(t) ==
  IF Len(t) >= 2 /\ t[1] = "\"" /\ Last(t) = "\"" THEN SubSeq(t, 2, Len(t) - 1) ELSE t

----------------------------------------------------------------------------
(* Nodes. *)

isParen(t, i) == t[i] \in {"(", ")"} /\ ~inQuotes(t, i)

\* Mutant: a space ends a token wherever it stands outside quotes.
endsTokenAlways(t, i) == isParen(t, i) \/ (t[i] = " " /\ ~inQuotes(t, i))

\* A parenthesis ends a token, and so does a space before the equals sign, unless
\* they are quoted.
endsToken(t, i) ==
  LET currentHasEquals ==
        \E j \in 1 .. i - 1 : t[j] = "=" /\ \A k \in j + 1 .. i - 1 : ~isParen(t, k)
  IN  isParen(t, i) \/ (t[i] = " " /\ ~inQuotes(t, i) /\ ~currentHasEquals)

\* The tokens and the parentheses between them.
tokenize(t) ==
  LET ends == Where(t, LAMBDA i : endsToken(t, i))
      texts == Pieces(t, ends)
      paren(k) == IF k \in DOMAIN ends /\ t[ends[k]] # " " THEN <<t[ends[k]]>> ELSE <<>>
      all == [m \in 1 .. 2 * Len(texts) |->
                IF m % 2 = 1 THEN TrimSpace(texts[(m + 1) \div 2]) ELSE paren(m \div 2)]
  IN  SelectSeq(all, LAMBDA token : token # <<>>)

Node(name, val, children) == [name |-> name, val |-> val, children |-> children]
NoNode == [none |-> TRUE]

parseNameValue(token) ==
  LET parts == SplitN(token, "=")
  IN  Node(WordOf(ToUpper(parts[1])), IF Len(parts) = 2 THEN unquoted(parts[2]) ELSE <<>>, <<>>)

Opens(tokens, i) == tokens[i] = <<"(">>
Closes(tokens, i) == tokens[i] = <<")">>

\* The length of the stack after token i.
stackAt(tokens, i) ==
  Cardinality({j \in 1 .. i : Opens(tokens, j)}) - Cardinality({j \in 1 .. i : Closes(tokens, j)})

\* The node that is pushed at i has the nodes pushed on top of it for children.
RECURSIVE nodeAt(_, _)
nodeAt(tokens, i) ==
  LET depth == stackAt(tokens, i)
      popped == Min({j \in i .. Len(tokens) : stackAt(tokens, j) < depth})
      starts == Where(tokens, LAMBDA j : i < j /\ j < popped /\ Opens(tokens, j)
                                         /\ stackAt(tokens, j) = depth + 1)
  IN  [parseNameValue(tokens[i + 1]) EXCEPT !.children = [k \in DOMAIN starts |-> nodeAt(tokens, starts[k])]]

\* parseIterative: an opening parenthesis is followed by a name, and nothing else
\* stands between parentheses.  The root is the first node; those after it are
\* parsed and dropped.
parseIterative(tokens) ==
  LET isName(i) == ~Opens(tokens, i) /\ ~Closes(tokens, i)
  IN  IF /\ tokens # <<>> /\ stackAt(tokens, Len(tokens)) = 0
         /\ \A i \in DOMAIN tokens :
              /\ stackAt(tokens, i) >= 0
              /\ isName(i) <=> i > 1 /\ Opens(tokens, i - 1)
      THEN nodeAt(tokens, 1) ELSE NoNode

\* Parse of nv.go: NoNode stands for its errors.
ParseDescriptor(t) == parseIterative(tokenize(TrimSpace(t)))

RECURSIVE NodeToString(_)
NodeToString(node) ==
  <<"(", node.name>>
  \o (IF node.val # <<>> \/ node.children # <<>> THEN <<"=">> ELSE <<>>)
  \o node.val
  \o FlattenSeq([i \in DOMAIN node.children |-> NodeToString(node.children[i])])
  \o <<")">>

----------------------------------------------------------------------------
(* The meaning of a descriptor. *)

Refuse == [ok |-> FALSE]
Taken(x) == [ok |-> TRUE, is |-> x]

normalizeBoolean(v) ==
  LET w == WordOf(ToUpper(TrimSpace(v)))
  IN  IF w \in {"ON", "YES", "TRUE"} THEN Taken(TRUE)
      ELSE IF w \in {"OFF", "NO", "FALSE"} THEN Taken(FALSE) ELSE Refuse

\* A bare number is in seconds.
parseDurationMS(v) ==
  LET w == WordOf(v)
  IN  IF w \in DOMAIN Durations THEN Taken(Durations[w])
      ELSE IF w \in DOMAIN Numerals /\ Numerals[w] >= 0 THEN Taken(1000 * Numerals[w]) ELSE Refuse

parseIntField(v) ==
  LET w == WordOf(v)
  IN  IF w \in DOMAIN Numerals THEN Taken(Max({Numerals[w], 0})) ELSE Refuse

parseUIntField(v) ==
  LET w == WordOf(v)
  IN  IF w \in DOMAIN Numerals /\ Numerals[w] >= 0 THEN Taken(Numerals[w]) ELSE Refuse

NormalizeProtocol(v) ==
  LET w == WordOf(ToUpper(TrimSpace(v)))
  IN  IF w \in {"TCP", "TCPS"} THEN Taken(w) ELSE Refuse

\* A port is converted to 16 bits after it is parsed; that of a proxy is tested.
convert(kind, v) ==
  CASE kind = "bool" -> normalizeBoolean(v)
    [] kind = "duration" -> parseDurationMS(v)
    [] kind = "int" -> parseIntField(v)
    [] kind = "port" -> LET p == parseUIntField(v) IN IF p.ok THEN Taken(p.is % 65536) ELSE p
    [] kind = "proxyPort" -> LET p == parseUIntField(v)
                             IN  IF p.ok /\ p.is <= 65535 THEN p ELSE Refuse
    [] kind = "protocol" -> NormalizeProtocol(v)
    [] kind = "string" -> Taken(v)

\* The fields each of the extract functions has a case for, and how it reads them.
Routing == [f \in {"SOURCE_ROUTE", "LOAD_BALANCE", "FAILOVER"} |-> "bool"]
Fields ==
  [DESCRIPTION_LIST |-> Routing,
   DESCRIPTION |->
     Routing @@ [f \in {"USE_SNI", "COMPRESSION"} |-> "bool"]
     @@ [f \in {"CONNECT_TIMEOUT", "TRANSPORT_CONNECT_TIMEOUT", "RECV_TIMEOUT", "SEND_TIMEOUT"} |-> "duration"]
     @@ [f \in {"RETRY_COUNT", "RETRY_DELAY", "EXPIRE_TIME", "SDU", "RECV_BUF_SIZE", "SEND_BUF_SIZE"} |-> "int"]
     @@ [f \in {"ENABLE", "CONNECTION_ID_PREFIX"} |-> "string"],
   ADDRESS_LIST |-> Routing,
   ADDRESS |-> [PROTOCOL |-> "protocol", HOST |-> "string", PORT |-> "port",
                HTTPS_PROXY |-> "string", HTTPS_PROXY_PORT |-> "proxyPort"],
   CONNECT_DATA |-> [f \in {"SERVICE_NAME", "SID", "SERVER", "INSTANCE_NAME", "FAILOVER_MODE", "HS",
                            "RDB_DATABASE", "GLOBAL_NAME", "CONNECTION_ID_PREFIX"} |-> "string"],
   SECURITY |->
     [f \in {"SSL_SERVER_DN_MATCH", "SSL_ALLOW_WEAK_DN_MATCH"} |-> "bool"]
     @@ [f \in {"SSL_SERVER_CERT_DN", "WALLET_LOCATION", "MY_WALLET_DIRECTORY", "TOKEN_AUTH",
                "TOKEN_LOCATION"} |-> "string"]]

Parts(node, name) == SelectSeq(node.children, LAMBDA c : c.name = name)

\* The fields a node has, the last one of a name standing, and refused if one
\* cannot be read or a child is neither a field nor one of the sections below.
readFields(children, kinds) ==
  [i \in DOMAIN children |-> IF children[i].name \in DOMAIN kinds
                             THEN convert(kinds[children[i].name], children[i].val) ELSE Taken(<<>>)]
lastFields(names, kinds, sections, read) ==
  IF ~(ToSet(names) \subseteq DOMAIN kinds \cup sections) \/ \E i \in DOMAIN read : ~read[i].ok THEN Refuse
  ELSE Taken([f \in ToSet(names) \cap DOMAIN kinds |-> read[Max({i \in DOMAIN names : names[i] = f})].is])
extractFields(node, sections) ==
  lastFields([i \in DOMAIN node.children |-> node.children[i].name], Fields[node.name], sections,
             readFields(node.children, Fields[node.name]))

\* All of a sequence of results, or none.
Every(results) ==
  IF \A i \in DOMAIN results : results[i].ok
  THEN Taken([i \in DOMAIN results |-> results[i].is]) ELSE Refuse

extractAddress(node) == extractFields(node, {})
extractConnectData(node) == extractFields(node, {})
extractSecurity(node) == extractFields(node, {})

\* They are called for every child of a name.
extractAddresses(of) == Every([i \in DOMAIN of |-> extractAddress(of[i])])
extractConnectDatas(of) == Every([i \in DOMAIN of |-> extractConnectData(of[i])])
extractSecurities(of) == Every([i \in DOMAIN of |-> extractSecurity(of[i])])

AddressList(fields, addresses) ==
  IF fields.ok /\ addresses.ok
  THEN Taken([fields |-> fields.is, addresses |-> addresses.is]) ELSE Refuse
extractAddressList(node) ==
  AddressList(extractFields(node, {"ADDRESS"}), extractAddresses(Parts(node, "ADDRESS")))
extractAddressLists(of) == Every([i \in DOMAIN of |-> extractAddressList(of[i])])

\* A second SECURITY or CONNECT_DATA replaces the first.
lastOf(s) == IF s = <<>> THEN <<>> ELSE Last(s)
compressionLevels(of) == FlattenSeq([i \in DOMAIN of |-> Parts(of[i], "LEVEL")])
Description(fields, lists, addresses, security, data, levels) ==
  IF fields.ok /\ lists.ok /\ addresses.ok /\ security.ok /\ data.ok
  THEN Taken([fields |-> fields.is, lists |-> lists.is, addresses |-> addresses.is,
             security |-> lastOf(security.is), connectData |-> lastOf(data.is),
             levels |-> [i \in DOMAIN levels |-> levels[i].val]])
  ELSE Refuse
extractDescription(node) ==
  Description(
    extractFields(node, {"COMPRESSION_LEVELS", "SECURITY", "ADDRESS_LIST", "ADDRESS", "CONNECT_DATA"}),
    extractAddressLists(Parts(node, "ADDRESS_LIST")), extractAddresses(Parts(node, "ADDRESS")),
    extractSecurities(Parts(node, "SECURITY")), extractConnectDatas(Parts(node, "CONNECT_DATA")),
    compressionLevels(Parts(node, "COMPRESSION_LEVELS")))
extractDescriptions(of) == Every([i \in DOMAIN of |-> extractDescription(of[i])])

DescriptionList(fields, descriptions) ==
  IF fields.ok /\ descriptions.ok
  THEN Taken([fields |-> fields.is, descriptions |-> descriptions.is]) ELSE Refuse
extractDescriptionList(node) ==
  DescriptionList(extractFields(node, {"DESCRIPTION"}), extractDescriptions(Parts(node, "DESCRIPTION")))

addressesOf(list) == IF list.ok THEN Taken(list.is.addresses) ELSE Refuse
onlyAddress(address) == IF address.ok THEN Taken(<<address.is>>) ELSE Refuse
ExtractConnectionContext(root) ==
  CASE root.name = "DESCRIPTION_LIST" -> extractDescriptionList(root)
    [] root.name = "DESCRIPTION" -> extractDescription(root)
    [] root.name = "ADDRESS_LIST" -> addressesOf(extractAddressList(root))
    [] root.name = "ADDRESS" -> onlyAddress(extractAddress(root))
    [] OTHER -> Refuse
=============================================================================
