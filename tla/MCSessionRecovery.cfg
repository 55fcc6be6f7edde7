SPECIFICATION FairSpec
CONSTANTS
    Name = {"a", "b"}
    MaxInc = 3
    Budgets <- MCBudgets
INVARIANTS CheckpointsIntact SessionsMatchCatalogue
PROPERTIES CommitsAdvance RecoveryProgress
CHECK_DEADLOCK FALSE
