SPECIFICATION Spec
CONSTANTS
    Proposal = {1, 2}
    Content <- UpgradeAndParams
    UpgradeHeight = 4
    Voter = {v1}
    VoteOption = {yes, no}
    Worker = {w1}
    Periodic = {}
    MaxHeight = 4
    MaxSkips = 0
    MaxFailures = 1
    MaxParses = 0
    NoRow = NoRow
CONSTRAINT Bounds
INVARIANTS
    TypeOK
    StatusFollowsBlocks
    PassedProposalsApplied
CHECK_DEADLOCK FALSE
