SPECIFICATION Spec
CONSTANTS
    Proposal = {1}
    Content <- Cancel
    UpgradeHeight = 3
    Voter = {v1}
    VoteOption = {yes}
    Worker = {w1, w2}
    Periodic = {}
    MaxHeight = 3
    MaxSkips = 1
    MaxFailures = 1
    MaxParses = 1
    NoRow = NoRow
SYMMETRY WorkerSymmetry
CONSTRAINT Bounds
INVARIANTS
    VotesStored
PROPERTIES
    SnapshotsAreRegisters
CHECK_DEADLOCK FALSE
