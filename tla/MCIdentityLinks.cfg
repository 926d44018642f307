SPECIFICATION StandingsSpec
CONSTANTS
  RajK = RajK
  rajk = rajk
  RajKK = RajKK
  Rajk = Rajk
  raj_k = raj_k
  raj__k = raj__k
  raj = raj
  u1 = u1
  Name <- MCName
  Member <- MCMember
  LowName <- MCLowName
  Low <- MCLow
  Squash <- MCSquash
  Rank <- MCRank
  LowRank <- MCLowRank
  Called <- MCCalled
  Alike <- MCAlike
  Opening <- MCOpening
  Known <- MCKnown
  Unlinked = Unlinked
  Script <- MCScript
  Opened = 1
  GamesMilestones <- MCMilestones
  MaxChanges = 3
  MaxCrashes = 1
INVARIANTS StandingsOK OneHop
PROPERTIES MergeCarriesAll PaidInFull PaidToThePerson MilestonesAreReal
CHECK_DEADLOCK FALSE
