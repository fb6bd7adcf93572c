------------------------------ MODULE MCNaming ------------------------------
(***************************************************************************)
(* An instance of the connect strings: easy connect strings of up to three *)
(* hosts and descriptors of every form, with and without spaces.  Of the   *)
(* configuration only a few fields are shown at a time, so that their      *)
(* orders can be enumerated, and with a part of the connect strings.       *)
(***************************************************************************)
EXTENDS ConnectString

MCUpperCase ==
  [tcp |-> "TCP", tcps |-> "TCPS", ipc |-> "IPC", true |-> "TRUE", false |-> "FALSE", sdu |-> "SDU",
   no |-> "NO", dedicated |-> "DEDICATED", connect_timeout |-> "CONNECT_TIMEOUT", load_balance |-> "LOAD_BALANCE",
   ssl_server_cert_dn |-> "SSL_SERVER_CERT_DN", wallet_location |-> "WALLET_LOCATION",
   ssl_allow_weak_dn_match |-> "SSL_ALLOW_WEAK_DN_MATCH", https_proxy |-> "HTTPS_PROXY",
   https_proxy_port |-> "HTTPS_PROXY_PORT"]
NumeralTexts == {"0", "1", "80", "1521", "1522", "8192", "65535", "65536"}
MCNumerals ==
  [n \in NumeralTexts |->
     CASE n = "0" -> 0 [] n = "1" -> 1 [] n = "80" -> 80 [] n = "1521" -> 1521 [] n = "1522" -> 1522
       [] n = "8192" -> 8192 [] n = "65535" -> 65535 [] n = "65536" -> 65536]
MCDurations == ("90s" :> 90000) @@ ("5ms" :> 5)
MCProgram == <<" ", "app", "(", "1", ")", "=">>
MCResolvedIP == <<"fe80", ":", ":", "1">>

-----------------------------------------------------------------------------
(* Configurations. *)

Setting(name, val, is) == [name |-> name, val |-> val, is |-> is]
Distinguished == <<"CN", "=", "db", " ", "server">>
Balance(on) == Setting("load_balance", IF on THEN <<"true">> ELSE <<"false">>, on)
PlainConfig == <<Balance(FALSE)>>
MCSettings ==
  {PlainConfig,
   <<Setting("connect_timeout", <<"1">>, 1000), Balance(TRUE), Setting("sdu", <<"8192">>, 8192)>>,
   <<Setting("ssl_server_cert_dn", Distinguished, Distinguished),
     Setting("ssl_allow_weak_dn_match", <<"true">>, TRUE),
     Setting("wallet_location", <<"dir">>, <<"dir">>), Balance(FALSE)>>,
   <<Setting("https_proxy", <<"proxy">>, <<"proxy">>), Setting("https_proxy_port", <<"80">>, 80), Balance(TRUE)>>,
   <<Setting("https_proxy", <<>>, <<>>), Setting("https_proxy_port", <<"80">>, 80), Balance(FALSE)>>}

-----------------------------------------------------------------------------
(* Easy connect strings, with the text of every part. *)

Joined(pieces, by) ==
  FlattenSeq([i \in DOMAIN pieces |-> (IF i = 1 THEN <<>> ELSE by) \o pieces[i]])

MCHosts ==
  {[host |-> <<"h1">>, port |-> 1521, text |-> <<"h1">>],
   [host |-> <<"h2">>, port |-> 1522, text |-> <<"h2", ":", "1522">>],
   [host |-> <<":", ":", "1">>, port |-> 65535, text |-> <<"[", ":", ":", "1", "]", ":", "65535">>],
   [host |-> <<"h3">>, port |-> 65536, text |-> <<"h3", ":", "65536">>],
   [host |-> <<"h4">>, port |-> 0, text |-> <<"h4", ":", "0">>]}
GoodHosts == {h \in MCHosts : h.port \in 1 .. 65535}
MCGroups ==
  {<< <<h>> >> : h \in MCHosts}
  \cup {<< <<h, g>> >> : h \in GoodHosts, g \in MCHosts}
  \cup {<< <<p[1]>>, <<p[2], p[1]>> >> : p \in {q \in GoodHosts \X GoodHosts : q[1] # q[2]}}
MCProtocols ==
  {[is |-> "TCP", text |-> <<>>]}
  \cup {[is |-> MCUpperCase[p], text |-> <<p, ":", "/", "/">>] : p \in {"tcp", "tcps", "ipc"}}
MCServices ==
  {[service |-> <<>>, mode |-> <<>>, instance |-> <<>>, text |-> <<>>],
   [service |-> <<"svc">>, mode |-> <<>>, instance |-> <<>>, text |-> <<"/", "svc">>],
   [service |-> <<"svc">>, mode |-> <<"DEDICATED">>, instance |-> <<"i1">>,
    text |-> <<"/", "svc", ":", "dedicated", "/", "i1">>],
   [service |-> <<"svc">>, mode |-> <<>>, instance |-> <<"i1">>, text |-> <<"/", "svc", "/", "i1">>]}

EasyGiven(protocol, groups, service, slashes) ==
  [protocol |-> protocol.is, service |-> service.service, mode |-> service.mode, instance |-> service.instance,
   slashes |-> slashes,
   groups |-> [i \in DOMAIN groups |-> [j \in DOMAIN groups[i] |->
                [host |-> groups[i][j].host, port |-> groups[i][j].port]]]]

EasyText(protocol, groups, service, slashes, spaces) ==
  (IF slashes THEN <<"/", "/">> ELSE protocol.text)
  \o Joined([i \in DOMAIN groups |-> Joined([j \in DOMAIN groups[i] |-> groups[i][j].text],
                                            <<",">> \o spaces)], spaces \o <<";">>)
  \o service.text \o spaces

-----------------------------------------------------------------------------
(* Descriptors. *)

Leaf(name, val) == Node(name, val, <<>>)
Branch(name, children) == Node(name, <<>>, children)
Address(host, port) ==
  Branch("ADDRESS", <<Leaf("PROTOCOL", <<"tcps">>), Leaf("HOST", <<host>>), Leaf("PORT", <<port>>)>>)
ConnectData(service) == Branch("CONNECT_DATA", <<Leaf("SERVICE_NAME", service), Leaf("SERVER", <<"POOLED">>)>>)
Secured == Branch("SECURITY", <<Leaf("WALLET_LOCATION", <<"my", " ", "dir">>), Leaf("SSL_SERVER_CERT_DN", Distinguished)>>)
Listed == Branch("ADDRESS_LIST", <<Leaf("LOAD_BALANCE", <<"ON">>), Address("h1", "1521"), Address("h2", "80")>>)
Direct == Branch("DESCRIPTION", <<Leaf("CONNECT_TIMEOUT", <<"90s">>), Address("h1", "1522"), ConnectData(<<"svc">>)>>)
MCTrees ==
  {Address("h1", "1521"), Listed, Direct,
   Branch("DESCRIPTION", <<Leaf("FAILOVER", <<"no">>), Listed, Address("h3", "1522"), ConnectData(<<"s", " ", "2">>), Secured>>),
   Branch("DESCRIPTION", <<Listed, Branch("COMPRESSION_LEVELS", <<Leaf("LEVEL", <<"1">>)>>)>>),
   Branch("DESCRIPTION_LIST", <<Direct, Branch("DESCRIPTION", <<Listed, ConnectData(<<"other">>)>>)>>),
   Branch("DESCRIPTION_LIST", <<Direct, Branch("DESCRIPTION", <<Listed, Leaf("SDU", <<"large">>)>>)>>),
   Branch("DESCRIPTION", <<Address("h1", "none")>>),
   Branch("DESCRIPTION", <<Branch("CONNECT_DATA", <<Leaf("POOL_PURITY", <<"NEW">>)>>)>>),
   Branch("SERVICES", <<Direct>>)}

RECURSIVE TreeText(_, _, _)
TreeText(node, spaces, quoted) ==
  <<"(", node.name, "=">>
  \o (IF quoted /\ node.val # <<>> THEN <<"\"">> \o node.val \o <<"\"">> ELSE node.val)
  \o FlattenSeq([i \in DOMAIN node.children |-> spaces \o TreeText(node.children[i], spaces, quoted) \o spaces])
  \o <<")">>

-----------------------------------------------------------------------------

NamingNext ==
  \/ \E config \in MCSettings, protocol \in MCProtocols, groups \in MCGroups, service \in MCServices,
        spaces \in {<<>>, <<" ">>}, slashes \in BOOLEAN :
       /\ slashes => protocol.text = <<>> /\ Len(groups[1]) = 1
       /\ config = PlainConfig \/ (protocol.is = "TCPS" /\ spaces # <<>> /\ service.mode = <<>>)
       /\ config # PlainConfig => Len(groups) = 1 /\ Head(groups)[1].port = 1521
       /\ protocol.text # <<>> => protocol.is = "TCPS" \/ Len(groups[1]) = 1
       /\ spaces = <<>> => service.instance # <<>>
       /\ OpenConnector(EasyGiven(protocol, groups, service, slashes),
                        EasyText(protocol, groups, service, slashes, spaces), config)
  \/ \E config \in MCSettings, tree \in MCTrees, spaces \in {<<>>, <<" ">>}, quoted \in BOOLEAN :
       /\ config = PlainConfig \/ (~quoted /\ spaces = <<>> /\ tree = Direct)
       /\ OpenConnector([root |-> tree], TreeText(tree, spaces, quoted), config)
  \/ \E ip \in {<<>>, ResolvedIP} : Attempt(ip)
=============================================================================
