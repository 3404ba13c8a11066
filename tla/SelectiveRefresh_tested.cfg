\* The view with the truthiness test (ActiveFrontends, its key unlisted at
\* start) next to the menu ClusterAvailable (its key listed).  Either may be
\* destroyed once and created again: ActiveFrontends leaves its subscriber
\* behind, the menu view unsubscribes.  One change of one key, to a fresh
\* item count.
SPECIFICATION Spec
CONSTANTS
    Views <- MCTestedViews
    Counts <- MCTwoCounts
    MaxChanges = 1
    MaxInFlight = 2
    MaxFailures = 1
    MaxDestroys = 1
    Destroyable <- MCTestedViews
    InitListed <- MCClusterKeyOnly
    MarkerIsCount = TRUE
    MarkerReuse = FALSE
    Absent = Absent
    Never = Never
INVARIANT TypeOK
INVARIANT BelievedFreshIsFresh
PROPERTY Quiescence
PROPERTY EventuallyFresh
