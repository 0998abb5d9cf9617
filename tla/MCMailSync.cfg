SPECIFICATION Spec
CONSTANTS
  h1 = h1
  h2 = h2
  a1 = a1
  w1 = w1
  w2 = w2
  Handlers <- MCHandlers
  Accounts <- MCAccounts
  Passwords <- MCPasswords
  Hosts <- MCHosts
  Inputs <- MCInputs
  Configs <- MCConfigs
  Sources <- MCSources
  Rank <- MCRank
  Uid <- MCUid
  Ids = {1}
  Ttls = {1}
  Limits = {1, 3}
  MaxTtl = 1
  Skew = 1
  Life = 1
  MaxLimit = 2
  MaxSeen = 3
  MaxTime = 1
  MaxUnlocks = 1
  MaxSecrets = 3
  MaxFaults = 1
  MaxMail = 2
  MaxRequests = 2
SYMMETRY MCSymmetry
INVARIANTS EntriesOpen ImportedOnce RefreshTokenKept
CHECK_DEADLOCK FALSE
