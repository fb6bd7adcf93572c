------------------------------ MODULE MCConnect ------------------------------
(***************************************************************************)
(* Opening a connection, one part at a time: the connect string and the    *)
(* descriptors made of it, the attempts of Connect, the expiring caches of *)
(* addresses and down hosts it asks, one attempt of the network session,   *)
(* the logon over a connected session, and the provider that logons with a *)
(* signed token share.  A behaviour exercises one of the parts; the others *)
(* have returned, and no connect string is read in them.                   *)
(***************************************************************************)
EXTENDS MCLogon, MCNaming, Connector, NSConnect, TTLCache, TokenProvider, TLC

CONSTANTS h1, ip1, ip2,
          RunParts   \* the parts of the instance that a run has

\* A host with two addresses, and the second of them given as such.
MCDns == (h1 :> <<ip1, ip2>>) @@ (ip2 :> <<ip2>>)

OneDescription(hosts, retryCount, loadBalance, failover) ==
  [hosts |-> hosts, retryCount |-> retryCount, retryDelay |-> retryCount > 0,
   loadBalance |-> loadBalance, failover |-> failover]

\* A descriptor with both hosts, retried; one without failover, balanced; a
\* list of two descriptions that share an address.
MCConfigs ==
  { [loadBalance |-> FALSE, failover |-> TRUE,
     descriptions |-> <<OneDescription(<<h1, ip2>>, 1, FALSE, TRUE)>>],
    [loadBalance |-> FALSE, failover |-> FALSE,
     descriptions |-> <<OneDescription(<<h1>>, 1, TRUE, FALSE), OneDescription(<<ip2>>, 0, FALSE, TRUE)>>],
    [loadBalance |-> TRUE, failover |-> TRUE,
     descriptions |-> <<OneDescription(<<h1>>, 0, FALSE, TRUE), OneDescription(<<ip2>>, 0, FALSE, TRUE)>>] }

VARIABLE part   \* the part this behaviour exercises

connectVars == <<part, dsnVars, connectorVars, vars, cacheVars, logonVars, tokenVars>>

-----------------------------------------------------------------------------
\* A part that is not exercised has returned without a result.
NoConnector ==
  /\ config = CHOOSE x \in MCConfigs : TRUE
  /\ step = "cancelled" /\ toBuild = <<>> /\ resolving = 0 /\ work = <<>> /\ last = <<>>
  /\ attempts = <<>> /\ cur = 1 /\ exhausted = FALSE /\ option = <<>> /\ session = "none"
  /\ done = TRUE /\ down = {} /\ kept = <<>> /\ tried = <<>> /\ steady = {}

NoSession ==
  /\ pc = "failed"
  /\ net = [adapter |-> "nil", stream |-> FALSE, connected |-> FALSE, sockets |-> 0]
  /\ redirectCount = 0 /\ resendCount = 0
  /\ sent = [data |-> Original, flags |-> 0] /\ pkt = "none"

NoCache ==
  /\ cached = {} /\ now = 0 /\ answer = NoAnswer /\ nextExpiration = 0
  /\ value = [k \in Keys |-> CHOOSE v \in Values : TRUE] /\ ctime = [k \in Keys |-> 0]

NoLogon ==
  /\ conversionFlags = TTCLXMULTI
  /\ server = [c \in Conns |-> CHOOSE s \in Servers : TRUE]
  /\ login = [c \in Conns |-> CHOOSE l \in Logins : TRUE]
  /\ conn = [c \in Conns |-> Failed(Fresh, "not opened")]
  /\ told = [c \in Conns |-> Untold]

ConnectInit == part \in RunParts /\ DsnInit /\
  \/ part = "naming" /\ NoConnector /\ NoSession /\ NoCache /\ NoLogon /\ TokenInit
  \/ part = "connector" /\ ConnectorInit /\ NoSession /\ NoCache /\ NoLogon /\ TokenInit
  \/ part = "session" /\ Init /\ NoConnector /\ NoCache /\ NoLogon /\ TokenInit
  \/ part = "cache" /\ CacheInit /\ NoConnector /\ NoSession /\ NoLogon /\ TokenInit
  \/ part = "logon" /\ MCLogonInit /\ NoConnector /\ NoSession /\ NoCache /\ TokenInit
  \/ part = "tokens" /\ TokenInit /\ NoConnector /\ NoSession /\ NoCache /\ NoLogon

\* The part has returned: nothing follows.
Over ==
  /\ \/ part = "naming" /\ dsn # NoDsn
     \/ part = "connector" /\ step \in Returned
     \/ part = "session" /\ pc \in {"connected", "failed"}
     \/ part = "logon" /\ \A c \in Conns : conn[c].pc \in {"open", "failed", "panicked"}
     \/ /\ part = "tokens" /\ clock = MaxClock /\ logons = MaxLogons
        /\ \A c \in Callers : caller[c].pc \in Ended
  /\ UNCHANGED connectVars

ConnectNext ==
  \/ /\ part = "naming" /\ NamingNext
     /\ UNCHANGED <<part, connectorVars, vars, cacheVars, logonVars, tokenVars>>
  \/ part = "connector" /\ ConnectorNext /\ UNCHANGED <<part, dsnVars, vars, cacheVars, logonVars, tokenVars>>
  \/ part = "session" /\ Next /\ UNCHANGED <<part, dsnVars, connectorVars, cacheVars, logonVars, tokenVars>>
  \/ part = "cache" /\ CacheNext /\ UNCHANGED <<part, dsnVars, connectorVars, vars, logonVars, tokenVars>>
  \/ part = "logon" /\ LogonNext /\ UNCHANGED <<part, dsnVars, connectorVars, vars, cacheVars, tokenVars>>
  \/ part = "tokens" /\ TokenNext /\ UNCHANGED <<part, dsnVars, connectorVars, vars, cacheVars, logonVars>>
  \/ Over

\* What the driver and its peers go on doing: the steps of Connect, of the attempt
\* and its listener, of the logons and their servers, and of the callers of the
\* token provider, as in the fairness of the modules.  Whichever of them can step, one does.
Progress ==
  \/ part = "connector" /\ Connect /\ UNCHANGED <<part, dsnVars, vars, cacheVars, logonVars, tokenVars>>
  \/ part = "session" /\ Next /\ UNCHANGED <<part, dsnVars, connectorVars, cacheVars, logonVars, tokenVars>>
  \/ /\ part = "logon" /\ \E c \in Conns : ClientStep(c) \/ ServerAnswers(c)
     /\ UNCHANGED <<part, dsnVars, connectorVars, vars, cacheVars, tokenVars>>
  \/ /\ part = "tokens" /\ \E c \in Callers : CallerStep(c)
     /\ UNCHANGED <<part, dsnVars, connectorVars, vars, cacheVars, logonVars>>

ConnectSpec == ConnectInit /\ [][ConnectNext]_connectVars /\ WF_connectVars(Progress)

-----------------------------------------------------------------------------
(* What has to happen, for the parts that belong together. *)

\* Connect returns, however often the status of the hosts changes, and so does
\* every attempt it makes, whatever the listeners answer.
AttemptsEnd == ConnectReturns /\ ConnectEnds

\* Every logon ends, and a logon with a signed token is not kept waiting by the
\* provider: GetConnection and Token return.
LogonsEnd == LogonEnds /\ TokenReturns
=============================================================================
