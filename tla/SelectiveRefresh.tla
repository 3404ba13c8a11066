-------------------------- MODULE SelectiveRefresh --------------------------
(***************************************************************************)
(* The selective-refresh protocol between the host-info poller, the        *)
(* hostInfo topic of EventEmitterService and the views that cache one      *)
(* feature key each: ActiveNodesComponent, ActiveFrontendsComponent and    *)
(* the two ClusterAvailableComponents.                                     *)
(*                                                                         *)
(* Every view keeps `haveUpdate`, the last-seen marker.  On each hostInfo  *)
(* delivery it reads hostInfo.Updates[key] and, if that differs from       *)
(* haveUpdate, calls host.request(..., 'simpleRequest').  When the reply   *)
(* arrives it stores the data and sets haveUpdate to the NUMBER OF ITEMS   *)
(* in the reply (n.toString() / length.toString(), or "0" for no data),    *)
(* not to the marker that triggered the fetch.                             *)
(*                                                                         *)
(* The backend and the poller are outside src/: they are modelled from the *)
(* spec.  The backend's data for a key is abstracted to its version `ver`  *)
(* and to `items`, the item count the view derives from it.  The marker    *)
(* the backend publishes is either that count (MarkerIsCount) or an opaque *)
(* revision (the data version).  Requests are served and answered in any   *)
(* order (separate HTTP calls), and a call may fail, in which case the     *)
(* view's subscribe callback never runs (no error handler is registered).  *)
(*                                                                         *)
(* A view component may be destroyed (the router leaves it) and created    *)
(* again.  Only the menu ClusterAvailableComponent unsubscribes in         *)
(* ngOnDestroy; the others keep their hostInfo subscription, so the        *)
(* destroyed instance's subscriber goes on comparing its own haveUpdate    *)
(* and fetching.  The state of a view is therefore kept per instance.      *)
(***************************************************************************)
EXTENDS Naturals, FiniteSets, Bags, BagsExt, FiniteSetsExt

CONSTANTS
    Views,          \* the mounted view components (strings, see KeyOf)
    Counts,         \* item counts a reply can carry
    MaxChanges,     \* bound on backend data changes
    MaxInFlight,    \* bound on outstanding calls of one view (poller side)
    MaxFailures,    \* bound on failed calls
    MaxDestroys,    \* bound on component destructions
    Destroyable,    \* the views the router may destroy and create again
    InitListed,     \* feature keys present in hostInfo.Updates at start
    MarkerIsCount,  \* TRUE: the backend's marker is the item count
    MarkerReuse,    \* TRUE: a key's count may return to an earlier value
    Absent,         \* hostInfo.Updates[key] is undefined
    Never           \* haveUpdate = "" and no data shown yet

AllViews == {"ActiveNodes", "ActiveFrontends", "ClusterAvailable",
             "MenuClusterAvailable"}

\* The feature key each component reads from hostInfo.Updates.
KeyOf == [v \in AllViews |->
            CASE v = "ActiveNodes"     -> "activeNodes"
              [] v = "ActiveFrontends" -> "activeFrontends"
              [] OTHER                 -> "clusterAvailable"]

ASSUME Views \subseteq AllViews

\* The feature keys of the mounted views.
Keys == {KeyOf[v] : v \in Views}

ASSUME /\ Counts \subseteq Nat /\ Counts # {}
       /\ MaxChanges \in Nat /\ MaxInFlight \in Nat \ {0}
       /\ MaxFailures \in Nat /\ MaxDestroys \in Nat
       /\ Destroyable \subseteq Views /\ InitListed \subseteq Keys
       /\ MarkerIsCount \in BOOLEAN /\ MarkerReuse \in BOOLEAN

\* Component instances: the i-th creation of view v; only a destroyable
\* view is created more than once.
Inst == (Views \X {1}) \cup (Destroyable \X (2..MaxDestroys + 1))

ViewOf(x) == x[1]

\* The views whose ngOnDestroy() unsubscribes from hostInfo.
Unsubscribes == {"MenuClusterAvailable"}

VARIABLES
    items,      \* backend: items[k], the count a reply for k would carry
    ver,        \* backend: ver[k], version of the data behind key k
    used,       \* backend: used[k], counts key k has had so far
    listed,     \* backend: keys present in the Updates map (append-only)
    changes,    \* number of backend changes so far
    mounted,    \* instances whose ngOnInit has run
    destroyed,  \* instances the router has destroyed
    haveUpdate, \* haveUpdate[x]: instance x's last-seen marker
    shown,      \* shown[x]: version of the data instance x holds
    requests,   \* bag of calls sent and not yet served
    replies,    \* bag of served calls not yet delivered
    failures    \* number of failed calls

backend == <<items, ver, used, listed, changes>>
views == <<mounted, destroyed>>
vars == <<backend, views, haveUpdate, shown, requests, replies, failures>>

Versions == 0..MaxChanges
Markers  == Counts \cup Versions \cup {Absent}
Trigger  == Markers \cup {Never}    \* Never: the fetch of ngOnInit
Request  == [inst : Inst, trigger : Trigger]
Reply    == [inst : Inst, trigger : Trigger, count : Counts, ver : Versions]

\* hostInfo.Updates[k] as the poller publishes it.
Marker(k) ==
    IF k \notin listed THEN Absent
    ELSE IF MarkerIsCount THEN items[k] ELSE ver[k]

\* The instance on screen, and the instances whose subscriber is alive.
Live == mounted \ destroyed
Subscribed == {x \in mounted : x \notin destroyed \/ ViewOf(x) \notin Unsubscribes}

\* Outstanding calls of instance x, sent or served.
InFlightOf(x) ==
    MapThenSumSet(LAMBDA r : requests[r], {r \in DOMAIN requests : r.inst = x})
  + MapThenSumSet(LAMBDA r : replies[r], {r \in DOMAIN replies : r.inst = x})

-----------------------------------------------------------------------------
(* The decision each component's hostInfo subscriber takes, given          *)
(* hu = hostInfo.Updates[key] and its haveUpdate.                          *)

\* active-nodes: `if (hu != this.haveUpdate) this.getActiveNodes()`.
ActiveNodesOnHostInfo(hu, have) == hu # have

\* active-frontends tests `if (this.hostInfo.Updates["activeFrontends"])`
\* first: an absent key (undefined) never triggers a fetch.
ActiveFrontendsOnHostInfo(hu, have) == hu # Absent /\ hu # have

\* cluster-available: `if (hu != this.haveUpdate) this.clusterInfo()`.
ClusterAvailableOnHostInfo(hu, have) == hu # have

\* menu-management/cluster-available: same test, subscription kept.
MenuClusterAvailableOnHostInfo(hu, have) == hu # have

\* The subscriber of instance x, dispatched by the hostInfo topic.
Refetches(x, hu) ==
    LET v == ViewOf(x)
        h == haveUpdate[x]
    IN  CASE v = "ActiveNodes"      -> ActiveNodesOnHostInfo(hu, h)
          [] v = "ActiveFrontends"  -> ActiveFrontendsOnHostInfo(hu, h)
          [] v = "ClusterAvailable" -> ClusterAvailableOnHostInfo(hu, h)
          [] OTHER -> MenuClusterAvailableOnHostInfo(hu, h)

-----------------------------------------------------------------------------
Init ==
    /\ items \in [Keys -> Counts]
    /\ ver = [k \in Keys |-> 0]
    /\ used = [k \in Keys |-> {items[k]}]
    /\ listed = InitListed
    /\ changes = 0
    /\ mounted = {}
    /\ destroyed = {}
    /\ haveUpdate = [x \in Inst |-> Never]
    /\ shown = [x \in Inst |-> Never]
    /\ requests = EmptyBag
    /\ replies = EmptyBag
    /\ failures = 0

\* The backend's data for key k changes; the key enters the Updates map.
\* A change always changes the marker the backend will publish.
BackendChange(k) ==
    /\ changes < MaxChanges
    /\ \E c \in Counts :
        /\ MarkerIsCount => c # items[k]
        /\ ~MarkerReuse => c \notin used[k]
        /\ items' = [items EXCEPT ![k] = c]
        /\ used' = [used EXCEPT ![k] = @ \cup {c}]
    /\ ver' = [ver EXCEPT ![k] = @ + 1]
    /\ listed' = listed \cup {k}
    /\ changes' = changes + 1
    /\ UNCHANGED <<views, haveUpdate, shown, requests, replies, failures>>

\* A variant of NgOnInit that runs again on a mounted instance.
NgOnInitAgain(x) ==
    /\ mounted' = mounted \cup {x}
    /\ requests' = BagAdd(requests, [inst |-> x, trigger |-> Never])
    /\ UNCHANGED <<backend, destroyed, haveUpdate, shown, replies, failures>>

\* ngOnInit of a new instance (the first one, or the one the router creates
\* after the previous was destroyed): fetch once (getActiveNodes() /
\* getFrontendInfo() / clusterInfo()), then subscribe to hostInfo.
NgOnInit(x) ==
    /\ x \notin mounted
    /\ x[2] = 1 \/ <<ViewOf(x), x[2] - 1>> \in destroyed
    /\ mounted' = mounted \cup {x}
    /\ requests' = BagAdd(requests, [inst |-> x, trigger |-> Never])
    /\ UNCHANGED <<backend, destroyed, haveUpdate, shown, replies, failures>>

\* The router destroys the live instance x.  The menu ClusterAvailable's
\* ngOnDestroy unsubscribes from hostInfo; the other views have none, so
\* their subscriber stays (see Subscribed).  Outstanding HTTP calls are not
\* cancelled: their callbacks still write the destroyed instance's fields.
NgOnDestroy(x) ==
    /\ x \in Live
    /\ ViewOf(x) \in Destroyable
    /\ Cardinality(destroyed) < MaxDestroys
    /\ destroyed' = destroyed \cup {x}
    /\ UNCHANGED <<backend, mounted, haveUpdate, shown, requests, replies,
                   failures>>

\* The poller emits a hostInfo snapshot; the topic runs every subscriber
\* synchronously, and each one that decides to refetch sends one call.
PublishHostInfo ==
    /\ \A x \in Subscribed : InFlightOf(x) < MaxInFlight
    /\ LET fetching == {x \in Subscribed : Refetches(x, Marker(KeyOf[ViewOf(x)]))}
       IN  requests' = requests (+)
             SetToBag({[inst |-> x, trigger |-> Marker(KeyOf[ViewOf(x)])] :
                         x \in fetching})
    /\ UNCHANGED <<backend, views, haveUpdate, shown, replies, failures>>

\* The backend serves call r with the data it holds now.
Serve(r) ==
    /\ BagIn(r, requests)
    /\ requests' = BagRemove(requests, r)
    /\ replies' = BagAdd(replies, [inst |-> r.inst, trigger |-> r.trigger,
                                   count |-> items[KeyOf[ViewOf(r.inst)]],
                                   ver |-> ver[KeyOf[ViewOf(r.inst)]]])
    /\ UNCHANGED <<backend, views, haveUpdate, shown, failures>>

\* Variants of Deliver: haveUpdate taken from the backend's live count;
\* haveUpdate not stored; the data not stored.
DeliverLiveCount(r) ==
    /\ BagIn(r, replies)
    /\ replies' = BagRemove(replies, r)
    /\ haveUpdate' = [haveUpdate EXCEPT ![r.inst] = items[KeyOf[ViewOf(r.inst)]]]
    /\ shown' = [shown EXCEPT ![r.inst] = r.ver]
    /\ UNCHANGED <<backend, views, requests, failures>>
DeliverNoMarker(r) ==
    /\ BagIn(r, replies)
    /\ replies' = BagRemove(replies, r)
    /\ shown' = [shown EXCEPT ![r.inst] = r.ver]
    /\ UNCHANGED <<backend, views, haveUpdate, requests, failures>>
DeliverNoData(r) ==
    /\ BagIn(r, replies)
    /\ replies' = BagRemove(replies, r)
    /\ haveUpdate' = [haveUpdate EXCEPT ![r.inst] = r.count]
    /\ UNCHANGED <<backend, views, shown, requests, failures>>

\* The subscribe callback of getActiveNodes() (and its twins): store the
\* data and set haveUpdate to the item count of the reply ("0" if none).
Deliver(r) ==
    /\ BagIn(r, replies)
    /\ replies' = BagRemove(replies, r)
    /\ haveUpdate' = [haveUpdate EXCEPT ![r.inst] = r.count]
    /\ shown' = [shown EXCEPT ![r.inst] = r.ver]
    /\ UNCHANGED <<backend, views, requests, failures>>

\* A call fails in transport: the observable errors, no callback runs.
Fail(r) ==
    /\ failures < MaxFailures
    /\ BagIn(r, requests)
    /\ requests' = BagRemove(requests, r)
    /\ failures' = failures + 1
    /\ UNCHANGED <<backend, views, haveUpdate, shown, replies>>

Next ==
    \/ \E k \in Keys : BackendChange(k)
    \/ \E x \in Inst : NgOnInit(x) \/ NgOnDestroy(x)
    \/ PublishHostInfo
    \/ \E r \in BagToSet(requests) : Serve(r) \/ Fail(r)
    \/ \E r \in BagToSet(replies) : Deliver(r)

\* The poller runs on a timer, the backend answers every call it gets and
\* the browser runs every callback, also for a destroyed instance; each
\* view is created once when the page loads.  The backend's changes, the
\* failures, and the user's navigation away and back are not forced.
Fairness ==
    /\ \A v \in Views : WF_vars(NgOnInit(<<v, 1>>))
    /\ WF_vars(PublishHostInfo)
    /\ \A x \in Inst :
         WF_vars(\E r \in BagToSet(requests) : r.inst = x /\ Serve(r))
    /\ \A x \in Inst :
         WF_vars(\E r \in BagToSet(replies) : r.inst = x /\ Deliver(r))

Spec == Init /\ [][Next]_vars /\ Fairness

-----------------------------------------------------------------------------
(* Properties                                                              *)

\* Types; and no instance ever has more than MaxInFlight calls outstanding,
\* i.e. ngOnInit's fetch plus the refetches of the hostInfo subscriber
\* stay within what the poller's pace allows.
TypeOK ==
    /\ items \in [Keys -> Counts]
    /\ ver \in [Keys -> Versions]
    /\ listed \subseteq Keys
    /\ changes \in 0..MaxChanges
    /\ mounted \subseteq Inst /\ destroyed \subseteq mounted
    /\ haveUpdate \in [Inst -> Counts \cup {Never}]
    /\ shown \in [Inst -> Versions \cup {Never}]
    /\ IsABag(requests) /\ BagToSet(requests) \subseteq Request
    /\ IsABag(replies) /\ BagToSet(replies) \subseteq Reply
    /\ failures \in 0..MaxFailures
    /\ \A x \in Inst : InFlightOf(x) \in 0..MaxInFlight

\* An instance (live or leaked) whose last-seen value equals the marker the poller now publishes
\* for its key (so it will not refetch) holds the backend's current data.
\* It is about haveUpdate being set from the reply's item count, replies
\* arriving in any order, and the backend's marker being that count.
BelievedFreshIsFresh ==
    \A x \in Inst :
        haveUpdate[x] = Marker(KeyOf[ViewOf(x)]) => shown[x] = ver[KeyOf[ViewOf(x)]]

\* The hostInfo subscriber never sends a call for a key that is absent
\* from hostInfo.Updates (spec: absence is not a change).
NoFetchOnAbsentKey ==
    \A r \in BagToSet(requests) \cup BagToSet(replies) : r.trigger # Absent

\* At most one call of an instance is outstanding per published marker value:
\* a snapshot repeated while the refetch it caused is in flight does not
\* cause another one (spec: at most one fetch per distinct marker).
AtMostOneFetchPerMarker ==
    \A x \in Inst, m \in Markers :
        MapThenSumSet(LAMBDA r : requests[r],
                      {r \in DOMAIN requests : r.inst = x /\ r.trigger = m})
      + MapThenSumSet(LAMBDA r : replies[r],
                      {r \in DOMAIN replies : r.inst = x /\ r.trigger = m})
        <= 1

\* Once the backend stops changing, the views stop calling it: the
\* subscribers' comparison of marker and haveUpdate settles, also for the
\* subscribers that destroyed instances leave behind (ActiveNodes,
\* ActiveFrontends and the app ClusterAvailable never unsubscribe).
Quiescence == <>[](\A x \in Inst : InFlightOf(x) = 0)

\* Once the backend stops changing, the live instance of every view whose
\* key is listed in hostInfo.Updates ends up holding, and keeps, the backend's current data
\* for it.  (A key that is absent publishes nothing to react to: the spec
\* has no refetch for it, so its view may keep a failed first fetch.)
EventuallyFresh ==
    <>[](\A x \in Live :
           KeyOf[ViewOf(x)] \in listed => shown[x] = ver[KeyOf[ViewOf(x)]])

=============================================================================
