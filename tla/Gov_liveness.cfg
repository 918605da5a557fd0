SPECIFICATION FairSpec
CONSTANTS
    Proposal = {1}
    Content <- UpgradeAndParams
    UpgradeHeight = 3
    Voter = {v1}
    VoteOption = {yes}
    Worker = {w1}
    Periodic = {"tally"}
    MaxHeight = 3
    MaxSkips = 0
    MaxFailures = 1
    MaxParses = 0
    NoRow = NoRow
PROPERTIES
    SnapshotsCatchUpUnlessDeleted
CHECK_DEADLOCK FALSE
