SPECIFICATION FairSpec
CONSTANTS
    Proposal = {1, 2}
    Content <- UpgradeAndParams
    UpgradeHeight = 3
    Voter = {v1}
    VoteOption = {yes}
    Worker = {w1}
    Periodic = {"tally"}
    MaxHeight = 3
    MaxSkips = 0
    MaxFailures = 0
    MaxParses = 0
    NoRow = NoRow
PROPERTIES
    SnapshotsCatchUp
CHECK_DEADLOCK FALSE
