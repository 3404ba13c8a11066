SPECIFICATION Spec
CONSTANTS
    Views <- MCNodesView
    Counts <- MCNonZeroCounts
    MaxChanges = 2
    MaxInFlight = 2
    MaxFailures = 1
    MaxDestroys = 0
    Destroyable = {}
    InitListed <- MCAllKeys
    MarkerIsCount = TRUE
    MarkerReuse = TRUE
    Absent = Absent
    Never = Never
INVARIANT BelievedFreshIsFresh
