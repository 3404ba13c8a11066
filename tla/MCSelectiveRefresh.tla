------------------------ MODULE MCSelectiveRefresh -------------------------
(***************************************************************************)
(* Model-checking instances of SelectiveRefresh.                           *)
(***************************************************************************)
EXTENDS SelectiveRefresh

\* The view with the truthiness test, which never unsubscribes, next to a
\* plain one whose ngOnDestroy unsubscribes (the menu ClusterAvailable).
MCTestedViews == {"ActiveFrontends", "MenuClusterAvailable"}

\* The view that leaks its subscriber when destroyed.
MCFrontendsView == {"ActiveFrontends"}

\* The view whose ngOnDestroy unsubscribes.
MCMenuView == {"MenuClusterAvailable"}

\* ActiveNodesComponent alone.
MCNodesView == {"ActiveNodes"}

\* Only the "clusterAvailable" key listed: "activeFrontends" is absent
\* until the backend's first change to it.
MCClusterKeyOnly == {"clusterAvailable"}

\* No key listed yet.
MCNoKeys == {}

\* Three item counts, so that a key can change twice to fresh values.
MCCounts == 0..2

\* Three non-zero item counts: a count returning to an earlier value is a
\* different non-empty list of the same length (count 0 is the empty list,
\* whose data cannot be stale).
MCNonZeroCounts == 1..3

\* Two item counts: a key's one change is to a fresh value.
MCTwoCounts == 0..1

\* Every feature key of the mounted views already listed in Updates.
MCAllKeys == Keys

=============================================================================
