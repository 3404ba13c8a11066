SPECIFICATION Spec
CONSTANTS
    Views <- MCNodesView
    Counts <- MCCounts
    MaxChanges = 2
    MaxInFlight = 2
    MaxFailures = 1
    MaxDestroys = 0
    Destroyable = {}
    InitListed <- MCNoKeys
    MarkerIsCount = TRUE
    MarkerReuse = FALSE
    Absent = Absent
    Never = Never
INVARIANT NoFetchOnAbsentKey
