SPECIFICATION ConnectSpec
CONSTANTS
  h1 = h1
  ip1 = ip1
  ip2 = ip2
  RunParts = {"naming"}
  Configs <- MCConfigs
  Dns <- MCDns
  MaxRedirect = 4
  MaxResend = 4
  Keys = {k1, k2, k3}
  Values = {v1, v2}
  MaxSize = 2
  Ttl = 2
  MaxTime = 3
  Conns = {1, 2}
  Servers <- MCServers
  Logins <- MCLogins
  Challenges <- MCChallenges
  Tables <- MCTables
  MaxReceivedReps = 2
  Callers = {1, 2, 3}
  Lifetimes = {0, 2}
  RefreshBefore = 1
  MaxClock = 1
  MaxLogons = 3
  UpperCase <- MCUpperCase
  Numerals <- MCNumerals
  Durations <- MCDurations
  ProgramName <- MCProgram
  ResolvedIP <- MCResolvedIP
INVARIANT
  DocumentedFormAccepted
