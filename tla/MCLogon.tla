------------------------------- MODULE MCLogon -------------------------------
(***************************************************************************)
(* Logon with two connections of one process.                              *)
(***************************************************************************)
EXTENDS Logon

Caps(version, ttc3, run) ==
  [compile |-> [i \in {TtcFldVsn, Ub2dty, Ttc3} |->
                  IF i = TtcFldVsn THEN version ELSE IF i = Ub2dty THEN 1 ELSE ttc3],
   run |-> run]
ShortList(version) == [compile |-> [i \in {TtcFldVsn, Ub2dty} |-> IF i = TtcFldVsn THEN version ELSE 1],
                       run |-> [i \in {TzEx} |-> 1]]
ZoneOn == [i \in {TzEx} |-> 1]
ZoneMissing == [i \in {} |-> 0]

Srv(proSvrVer, caps, multibyte, trusting, o5lnp) ==
  [proSvrVer |-> proSvrVer, caps |-> caps, multibyte |-> multibyte, secret |-> "tiger",
   trusting |-> trusting, o5lnp |-> o5lnp, o7lmr |-> o5lnp]

\* A current server, one that exchanges time zones, one that has no such byte, one
\* before the token, one too old for any function, one before protocol 6, one of a
\* protocol not supported, one that accepts whoever logs on, and one whose
\* capabilities end before TZVER.
MCServers ==
  {Srv(6, Caps(24, 255, ZoneOn), TRUE, FALSE, TRUE), Srv(6, Caps(23, 2, ZoneOn), FALSE, FALSE, FALSE),
   Srv(6, Caps(24, 2, ZoneMissing), TRUE, FALSE, TRUE), Srv(6, Caps(12, 2, ZoneOn), TRUE, FALSE, FALSE),
   Srv(6, Caps(11, 2, ZoneOn), TRUE, FALSE, TRUE), Srv(5, newCapability, FALSE, FALSE, FALSE),
   Srv(7, newCapability, TRUE, FALSE, TRUE), Srv(6, Caps(24, 255, ZoneOn), TRUE, TRUE, TRUE),
   Srv(6, ShortList(18), TRUE, FALSE, FALSE)}

Password(secret, length, sysdba) ==
  [user |-> TRUE, password |-> TRUE, secret |-> secret, length |-> length, sysdba |-> sysdba,
   provider |-> "none", token |-> "none"]
Token(provider, secret, token) ==
  [user |-> FALSE, password |-> FALSE, secret |-> secret, length |-> 0, sysdba |-> FALSE,
   provider |-> provider, token |-> token]

MCLogins ==
  {Password("tiger", 8, FALSE), Password("lion", 1024, FALSE), Password("tiger", 1025, FALSE),
   Password("lion", 0, TRUE), Token("signed", "tiger", "valid"), Token("plain", "lion", "valid"),
   Token("plain", "tiger", "expired"), Token("signed", "tiger", "no key"), Token("none", "tiger", "valid")}

MCChallenges ==
  {[verifier |-> "ZtvtSha512", sk |-> 64, padding |-> 0], [verifier |-> "ZtvtSSH1", sk |-> 96, padding |-> 8],
   [verifier |-> "ZtvtOrcl7", sk |-> 96, padding |-> 0], [verifier |-> "unknown", sk |-> 64, padding |-> 0],
   [verifier |-> "ZtvtSha512", sk |-> 80, padding |-> 0]}

\* A type with a representation of zero and one the server does not know; and
\* more types than the reader takes.
MCTables ==
  {marshalTable(addTypeRepToTable(addTypeRepToTable(<<>>, 1, 1, 0), 2, 0, 0)),
   marshalTable(addTypeRepToTable(addTypeRepToTable(addTypeRepToTable(<<>>, 1, 1, 1), 2, 0, 0), 3, 0, 0))}

\* Either the first connection logs on alone, in any way to any server, or two
\* log on with a password, to a current server and one of either kind.
Plain == {Srv(6, Caps(24, 255, ZoneOn), TRUE, FALSE, TRUE), Srv(6, Caps(23, 2, ZoneOn), FALSE, FALSE, FALSE)}

MCLogonInit ==
  /\ conversionFlags = TTCLXMULTI
  /\ server \in [Conns -> Servers] /\ login \in [Conns -> Logins]
  /\ \E together \in BOOLEAN :
       /\ together => server[1].caps = Caps(24, 255, ZoneOn)
       /\ \A c \in Conns : together \/ c > 1 => server[c] \in Plain /\ login[c] = Password("tiger", 8, FALSE)
       /\ conn = [c \in Conns |-> IF together \/ c = 1 THEN Fresh ELSE Failed(Fresh, "not opened")]
  /\ told = [c \in Conns |-> Untold]

MCLogonSpec == MCLogonInit /\ [][LogonNext]_logonVars /\ LogonFairness
=============================================================================
