# TLA+ models of the ICS web front end

This directory holds TLA+ models of the session and selective-update layer of
the ICS front end (`src/frontend`), and the TLC runs that check them.
`PROJECT.json` lists the components, the runs, the mutants that show each
checked property depends on the code, the source lines each definition models
(`map`), the findings, and the hazards the properties cover.

## 1. Inventory

Only the view components are under `src/`. `HostService`,
`EventEmitterService`, the root component (it runs the host-info poller) and
the login page are not. They are modelled from `spec.md` and marked
`spec_modelled` in the map.

| Component | State | Operations | Interacts through |
|---|---|---|---|
| Session store (`HostService`, spec) | the credential bundle in localStorage: empty, self-registration (`addUser`) or logged in | `setSessionID`, `getSessionID`, `killSessionID` | called synchronously by every component |
| Request dispatcher (`HostService.request`, spec) | in-flight HTTP calls | `request(body, op)` returns an observable | replies run subscribe callbacks later, in any order; a failed call runs no callback because none of the components registers an error handler |
| Update notifier (`EventEmitterService`, spec) | subscriber lists of the `hostInfo`, `loginChange` and op-mode topics | `emit`, `subscribe`, `unsubscribe` | synchronous delivery in registration order; a subscriber that throws is unsubscribed |
| Host-info poller and backend (spec) | per feature key: the data, its item count and the `Updates` marker | periodic poll and publish | publishes `hostInfo` |
| Selective-refresh views: `ActiveNodes`, `ActiveFrontends`, `ClusterAvailable` (app), `ClusterAvailable` (menu) | `haveUpdate` (last-seen marker) and the fetched data | `ngOnInit` (fetch, then subscribe), the `hostInfo` subscriber (compare and refetch), the reply callback (store the data, set `haveUpdate` to the item count), `ngOnDestroy` (menu view only) | notifier, dispatcher |
| `HostCredentialsComponent` | the ng-idle watcher (watching / idle countdown / timed out / stopped), cached `userSession` | idle callbacks (`onIdleStart`, `onIdleEnd`, `onTimeoutWarning`, `onTimeout` → `logout()`), `logout()` and its reply, the `loginChange` subscriber, `addUser()`, `getValidateSession()` | store, dispatcher, `loginChange` topic |
| `UsersEditComponent` | form, `ForceChangePass` copy, `userId` | `ngOnInit` (choose whose record to load), `onSubmit` and its reply (forced change: kill the session, emit `loginChange` "ok") | store, dispatcher, localStorage, `loginChange` |
| Op-mode change (`connectToCluster`, `setOpMode`) | `response`, dialog input | dialog → password check → `setOpMode` call → on "ok": `setNewOpMode` (menu view: `killSessionID` first) | dispatcher, op-mode topic, store |
| `GroupsMembersComponent` | `members`, `membersDrop`, `users` | `add`, `remove`, `onSubmit` (drop calls and update calls sent together), `getMembers` after each update reply | dispatcher |
| `proxy.config.js` | static dev-proxy configuration | none | not modelled |

What is hard to get right here:
- Everything runs on one event loop, but every call is asynchronous. Replies
  come back in any order and at any time relative to polls, idle timers and
  user actions.
- A view's marker is only written in a reply callback, so it is stale while a
  refetch is in flight.
- The views use the item count of a reply as the marker. The spec says
  markers are opaque revisions.
- The session ends in several places: the logout reply, an error event, a
  forced password change, and a successful op-mode change. Only some of these
  emit `loginChange`. The idle watcher only follows `loginChange`.
- An exception in a subscriber silently removes that subscriber.

What makes each component correct (the properties):
- **Views:**
  - A view that will not refetch holds current data.
  - An absent key triggers no fetch (violated by `ActiveNodes`).
  - A view sends at most one fetch per marker (stated, not run).
  - A view stops fetching once the data stops changing.
  - A view ends up with the current data.
- **Session and idle monitor:**
  - A logged-in session is always watched.
  - A timeout ends the session.
  - The user cached by `HostCredentials` is one whose session is stored.
  - A late logout or forced-change reply does not end a newer session
    (not yet stated).
- **Op-mode change:**
  - Once quiet, the last op-mode event names the host's mode.
  - A cleared store reaches every subscriber's copy of the session.
- **Group members:**
  - The members stored after a submit are the ones on the screen, whatever
    order the calls run in.
  - Every call is answered and the reloads after a submit end.

## 2. Modules

### `SelectiveRefresh` (checked with `MCSelectiveRefresh`)

| Code | Model |
|---|---|
| the backend's data for each key | `items` (item count), `ver` (version), `used` (counts seen), `listed` (keys present in `Updates`) |
| a component instance | a member of `Inst`: the view and which creation of it it is |
| instances created / destroyed by the router | `mounted`, `destroyed` |
| `haveUpdate` of an instance | `haveUpdate[x]` |
| the fetched data of an instance | `shown[x]`, the version of the data it holds |
| calls sent, not yet served | bag `requests`; each call records the marker that triggered it |
| served calls, not yet delivered | bag `replies` |

Each call names the instance that sent it. The views' fields live in the
component object, so a re-created view starts again with `haveUpdate = ""`
(`Never`).

Actions:
- `NgOnInit`: the first fetch, then subscribing. An instance after the first
  is created only once the previous one is destroyed.
- `NgOnDestroy`: the router destroys the live instance. Only the menu
  `ClusterAvailable` has an `ngOnDestroy`, which unsubscribes
  (`Unsubscribes`). The other views' subscribers stay registered and keep
  comparing and fetching for the dead instance (`Subscribed`). Calls in
  flight are not cancelled; their callbacks still write the dead instance.
- `PublishHostInfo`: one poll. The topic runs every registered subscriber in the same
  step. Each view's decision is its own operator (`ActiveNodesOnHostInfo`,
  `ActiveFrontendsOnHostInfo`, and so on), because `ActiveFrontends` alone
  tests that its key exists.
- `Serve`: the backend reads its data at a moment of its choosing.
- `Deliver`: the reply callback. It stores the data and sets `haveUpdate` to
  the reply's count.
- `Fail`: a failed call. No callback runs.
- `BackendChange`: the backend's data changes.

Constants select the backend's marker contract:
- `MarkerIsCount`: the marker is the item count (the contract the code
  assumes) or an opaque version (the spec's contract).
- `MarkerReuse`: whether a count may come back to an earlier value.

### `IdleSession` (checked with `MCIdleSession`)

State:
- `session`: the store.
- `userSession`: the component's cached copy.
- `idle`, `countdown`: the ng-idle watcher.
- `loginSub`: whether the `loginChange` subscription is alive.
- `logoutCalls`: bag of logout calls in flight, each with the owner it
  carries. Two calls with the same owner are two calls.
- `forceFlag`: localStorage `ForceChangePass`.
- `editCopy`: the UsersEdit page, closed or open with the copy of
  `ForceChangePass` its `ngOnInit` read.
- `submits`: bag of UsersEdit submits in flight, each with the page's copy.
- Every logout call and submit also carries `sinceLogin`, a history field:
  whether it was sent since the latest login. `Login` clears it on every
  call in flight (`SentBefore`). No action's guard reads it; only the
  properties `ReplyEndsOnlyItsSession` and `AuthenticatedIsWatched` do.
  A flag rather than a login counter keeps the composed run within its
  time (a counter of two logins took it past five minutes).

Actions:
- Idle callbacks: `IdleStart`, `IdleEnd`, `TimeoutWarning`, `IdleTimeout`
  (which calls `logout()`).
- `LogoutClick` and `LogoutReply`.
- `AuthError`: the root component emits `loginChange` "error".
- `AddUser`.
- `Login` (spec): stores the bundle and emits "startSession".
- `OpenEdit`: UsersEdit `ngOnInit`, which keeps its own copy of
  `ForceChangePass`.
- `Submit` and `SubmitReply`: UsersEdit `onSubmit` and its reply. The reply
  tests the page's copy, not the current flag. On a forced change it kills
  the session, emits "ok" and leaves the page.

User steps (`Login`, `LogoutClick`, `AddUser`, `OpenEdit`, `Submit`) are
guarded by `UserActs`. A click or keystroke is an ng-idle interrupt, so
during the countdown it first ends the idle state (`IdleEnd`).

All `loginChange` handling is in one operator, `OnLoginChange`. This includes
the `registerForm.reset()` throw on "error", which ends the subscription.

### No refinement of the spec's idle monitor

The spec's Idle/Keepalive Monitor (section 4.4) is a four-state machine
(Active, IdleWarning, TimedOut, Stopped). Mapping ng-idle's states onto it
state for state makes the refinement hold by construction: each ng-idle
callback is one of the spec's transitions. The project therefore checks what
the watcher does to the session instead (`CachedOwnerIsStored`,
`AuthenticatedIsWatched`, `TimedOutEndsSession`).

### `OpModeChange`

| Code | Model |
|---|---|
| the host's mode on the backend | `backendMode` |
| `hostInfo.OpMode` of the last snapshot | `snapshot` |
| `setOpMode` calls in flight | bag `opCalls` of `[mode, kills, answer]`; `kills` marks the menu `setOpMode` callback |
| the op-mode topic | `announced`, the last mode published with `setNewOpMode` |
| the session store | `session` |

Actions:
- `ConnectToCluster` (app view) and `MenuConnectToCluster` (menu view): a
  confirmed dialog asks for NODE.
- `SetOpMode(m)`: the early return when `m` is the snapshot's mode, then the
  call.
  - A cancelled dialog, a missing password and a missing cluster name only
    change the message on screen. They are stuttering steps.
- `ServeOpMode`: the backend applies the call and answers "ok" or "error".
- `DeliverOpMode`: the callback. On "ok" it kills the session (menu
  `setOpMode` only) and publishes the mode.
- `FailOpMode`: a transport failure. No callback runs.
- `PublishSnapshot`: the poller.

### `ClientSession` (checked with `MCClientSession`)

`ClientSession` composes `IdleSession` and `OpModeChange`. The two share the
variable `session`. Each step of the composition is one component's step,
and the other component's own variables stay unchanged. Its properties
are about the interplay: a logged-in session stays watched and a timeout
ends it, also when `setOpMode` clears the store, and a cleared store reaches
the cached user.

### `GroupMembers`

| Code | Model |
|---|---|
| the group's rows in the backend's Members table | `table` |
| `this.members` (the chip list; `add` does not check duplicates) | bag `members` |
| `this.membersDrop` (never cleared) | set `membersDrop` |
| `this.users` loaded | `usersLoaded` |
| `FDBRequest` calls in flight | bag `calls` of `[op, user, rows, served]` |
| submits so far, and the list at the last submit (a ghost variable) | `submits`, `lastSubmitted` |

Actions:
- `Init`: `ngOnInit` of an admin, with `getUsers` and `getMembers` in flight.
- `Add`, `Selected`, `Remove`.
- `Submit`: `onSubmit`. It sends `DropCalls` (`deleteMembers`) and
  `UpdateCalls` (one per chip) together.
- `Serve`: the backend drops, stores or reads.
  - A served drop is finished, because its callback only shows a message.
- `DeliverUpdate`: the update callback calls `getMembers()`.
- `DeliverView`: `if (data) this.members = data`.
  - An empty table may be answered with null, which leaves the list as it is.
- `DeliverUsers`.
- `Fail`: a call whose transport fails. No callback runs.

## 3. Runs

| Run | Expect | What it shows |
|---|---|---|
| `refresh_tested` | pass | Markers are item counts that never repeat; replies are reordered and one call fails. `ActiveFrontends` starts with its key absent, next to the menu `ClusterAvailable` with its key listed, and one of them may be destroyed and created again: a destroyed `ActiveFrontends` leaves its subscriber behind, the menu view unsubscribes. No instance, live or leaked, believes stale data fresh (`BelievedFreshIsFresh`); all of them, the leaked subscribers included, stop fetching (`Quiescence`); and every live view whose key is listed ends up with current data (`EventuallyFresh`). `ActiveNodes` and the app `ClusterAvailable` take the same plain decision as the menu view and, like `ActiveFrontends`, never unsubscribe; `ActiveNodes` is the view of the two violation runs. |
| `refresh_absent_key` | violation | `ActiveNodes` fetches on a snapshot without its key, and then on every poll. |
| `refresh_count_aba` | violation | With count markers (counts 1..3, so no list is empty), the backend replaces the list by another of the same length after a change of length: counts 1, 2, 1. The view sees the count it already holds and keeps old data it believes current. |
| `session_any` | pass | With failed logouts and auth errors enabled, the user cached by `HostCredentials` always names a stored session (`CachedOwnerIsStored`): every path that clears the store emits the `loginChange` event that clears the cache, the throwing subscriber clears it before it throws, and once that subscriber is gone the cache stays empty. |
| `session_logout_error` | violation | A timeout whose logout is answered with "error" leaves the session logged in for good. |
| `session_auth_error` | violation | After one "error" event the subscriber is gone. The next login is not watched, and its timeout logs out an empty owner. |
| `session_late_reply` | violation | Logout is clicked, `addUser` replaces the bundle and the user logs in again. Then the first logout's "ok" arrives and clears the new session (`ReplyEndsOnlyItsSession`). A forced-change submit left in flight does the same. |
| `opmode_reorder` | violation | Two mode changes sent before either is answered. The backend applies them in one order and the callbacks publish in the other, so the last op-mode event names a mode the host has left. |
| `client_opmode` | pass | Both components, with every logout accepted and no auth error. A logged-in session stays watched, or has timed out with a logout sent since its login still in flight (`AuthenticatedIsWatched`), and a timeout ends it (`TimedOutEndsSession`), also when `setOpMode` clears the store. |
| `client_cleared_session` | violation | After `setOpMode`'s `killSessionID()`, a user who stays active keeps `userSession` naming the cleared session forever (`ClearedSessionReachesCache`). |
| `group_sync` | pass | Any picks, adds, removes and one submit, with calls served and answered in any order and failing. Only the type invariant is checked: it shows every action fires and the state space stays bounded. The question this run is for, that the list shows the table once quiet, is violated by answer-order reloads and waits for a free run (section 5). |
| `group_readded` | violation | A user removed and shown again (picked again, or a second chip of the same user) gets a drop and an update from one submit. When the drop is served last, the saved group lacks a member the list showed (`SubmittedMembersAreStored`). |

The project keeps at most twelve runs. Two properties of `SelectiveRefresh`
are stated but have no run:
- `AtMostOneFetchPerMarker`: TLC finds it violated with `ActiveNodes` alone.
  A snapshot repeated while a refetch is in flight sends a second call for
  the same marker, because `haveUpdate` is only written in the reply
  callback.
- `Quiescence` with `MarkerIsCount = FALSE`: violated. With opaque markers
  the views refetch on every poll.

Both are efficiency defects: the data shown stays correct.

Every property of a passing run has a mutant in `PROJECT.json`: a plausible
bug in the mapped definition, under which TLC finds the property violated.

**Bounds.**
- `SelectiveRefresh`:
  - Two views per run, on distinct keys. Three views did not finish
    within ten minutes.
  - `refresh_tested`: one destruction (of either view) and so at most one
    extra instance, counts 0..1 and one backend change. A change still
    crosses a reply in flight (the first fetch served before it, delivered
    after the refetch's reply), which is what `BelievedFreshIsFresh` is
    about. Two changes with a destruction took the run past ten minutes
    (over 6M states).
  - The violation runs: two backend changes, no destruction; counts 0..2
    for `refresh_absent_key`, and 1..3 for `refresh_count_aba`, so that the
    count that returns is that of a non-empty list.
  - Two calls in flight per view, so replies can cross.
  - One failed call.
  - The poller does not publish while a view has two calls in flight. This
    bounds the poller, not the views.
- `IdleSession`:
  - Two countdown ticks.
  - At most two logout calls and two submits in flight. The timeout's
    logout also waits for the bound.
- `GroupMembers`:
  - Two users and at most two chips, so a user can have two chips or be
    removed and picked again.
  - One submit. It already sends all its drops and updates at once, and a
    second submit takes the pass run past ten minutes.
- `OpModeChange`:
  - Two modes.
  - Two calls in flight for the reorder run, one in the composition.
  - One call in the composition is enough for the session interplay, and
    it keeps the composed run near a minute.

Every action fires in some passing run. The largest run (`client_opmode`)
has about 833k states and checks in about a minute. `refresh_tested` has
about 199k states, and `group_sync` about 115k.

**Fairness.**
- Weak fairness on the steps the code and its environment guarantee: the
  poller's timer, the backend answering each view's calls and each
  `setOpMode` call, the browser running callbacks, and ng-idle's timers.
- `GroupMembers`: weak fairness on serving calls and running their
  callbacks. The admin is not forced to act. The page may stop, idle, so
  `group_sync` does not check deadlock.
- `SelectiveRefresh`: weak fairness on the first creation of each view (the
  page loads it) and on serving and delivering the calls of every instance,
  a destroyed one included (the browser runs the callback anyway). None on
  destroying a view or creating it again: that is the user navigating.
- None on user actions, logins, backend data changes, failures or
  authentication errors.
- Liveness properties are therefore about what happens once the world stops
  changing.

## 4. Findings

Each finding is in `PROJECT.json` with its run and source line.
1. Absent keys trigger refetches in three of the four views.
2. (No run; see section 3.) There are duplicate fetches while a refetch is in
   flight.
3. `haveUpdate` stores the item count, not the marker. Under the spec's opaque
   markers the views refetch forever. Under count markers an ABA change goes
   unnoticed.
4. An idle timeout only ends the session if the backend answers "ok".
5. `registerForm.reset()` throws in the `loginChange` subscriber. This ends
   the subscription, and the idle monitor no longer follows later logins.
6. Concurrent mode changes are published in answer order, not in the order the
   backend applied them. The spec does not say which should win.
7. Menu `setOpMode` clears the session without a `loginChange` event.
   `HostCredentials` keeps the old user in `userSession` until a timeout or a
   new login.
8. `deleteMembers()` drops every user ever removed on the page.
   `membersDrop` is never cleared, nor checked against the chips. A submit
   after removing and picking a user again can lose that member.
9. The callbacks of `logout()` and of UsersEdit `onSubmit()` clear whatever
   session is stored when their reply arrives. A reply to a call sent before
   the latest login ends the new session.

## 5. Plan (next sittings)

1. **`SelectiveRefresh`, growth of the leak:** a violation run of "a
   destroyed instance sends no call after its destruction" (the spec's
   advice to tie a subscription to the view's lifetime), which the views
   without `ngOnDestroy` break. It waits for a free run.
2. **`IdleSession`, `addUser`:** a property relating the stored bundle to
   `userSession`.
3. **`GroupMembers`, displayed list:** a ghost of unsaved edits. Then check
   that, once quiet after a submit with no later edit, the list shows the
   table. The reloads run in answer order, so it is expected to fail.
4. **Abstract "eventually consistent view" specification:** a view holds some
   version ≤ current and eventually the current one. `SelectiveRefresh` is
   shown to refine it under the ABA-free backend.
5. **`OpModeChange` with the cluster views:** compose it with the selective
   refresh of the cluster views, which receive the same snapshots.

## 6. Not modelled

- `proxy.config.js`: configuration only.
- Rendering, dialogs, snack bars, routing and form validation: the spec puts
  them out of scope. Dialog results appear as nondeterministic inputs.
- UsersEdit's form: the fields, validators, and the `getUsers` record load
  only fill the form. `ngOnInit`'s choice of record (the own record on a
  forced change) decides only which row the form shows.
- `GroupsMembersComponent`: the non-admin redirect, the autocomplete filter
  and the messages.
- `getValidateSession`/`managerStatus`:
  - They only rewrite the stored bundle with itself, and nothing in `src/`
    starts `managerStatus`.
  - The spec's keepalive re-validation with the server does not exist in
    this code.
  - ng-idle's `Keepalive` only records `lastPing`.
