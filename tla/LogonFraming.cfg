SPECIFICATION MCLogonSpec
CONSTANTS
  Conns = {1, 2}
  Servers <- MCServers
  Logins <- MCLogins
  Challenges <- MCChallenges
  Tables <- MCTables
  MaxReceivedReps = 2
CHECK_DEADLOCK FALSE
INVARIANT CharFramingFollowsServer
