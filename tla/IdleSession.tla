----------------------------- MODULE IdleSession ----------------------------
(***************************************************************************)
(* Session lifetime on the client: the session store of HostService, the   *)
(* ng-idle watcher configured by HostCredentialsComponent, its loginChange *)
(* subscriber and logout(), addUser(), and the forced password change of   *)
(* UsersEditComponent.onSubmit().                                          *)
(*                                                                         *)
(* HostService, the idle library, the login page and the root component    *)
(* that reports authentication errors are outside src/ and are modelled    *)
(* from the spec: the store holds an empty, a self-registration or an      *)
(* authenticated bundle; the watcher is watching, idle (counting down),    *)
(* timed out (interrupts off) or stopped.                                  *)
(*                                                                         *)
(* The loginChange subscriber of HostCredentialsComponent calls            *)
(* this.registerForm.reset() on an "error" event, but registerForm is      *)
(* never assigned in that component: the call throws, the rest of the      *)
(* handler does not run, and the subscriber is unsubscribed by the         *)
(* Subject (an exception in a next handler ends that subscription).        *)
(***************************************************************************)
EXTENDS Naturals, Bags, BagsExt

CONSTANTS
    LogoutMayFail,  \* the backend may answer "error" to a logout call
    AuthErrors,     \* the root component may emit loginChange "error"
    MaxCalls,       \* bound on calls in flight
    WarnTicks       \* ticks of the setTimeout(60) countdown

ASSUME LogoutMayFail \in BOOLEAN /\ AuthErrors \in BOOLEAN
ASSUME MaxCalls \in Nat \ {0} /\ WarnTicks \in Nat \ {0}

\* Bundles in the store: none, the self-registration bundle of addUser(),
\* or a logged-in user's.
Bundles == {"empty", "selfReg", "auth"}

IdleStates == {"watching", "idle", "timedOut", "stopped"}

VARIABLES
    session,      \* the bundle in the store (getSessionID())
    userSession,  \* HostCredentialsComponent.userSession, a cached copy
    idle,         \* state of the ng-idle watcher
    countdown,    \* ticks left in the countdown (onTimeoutWarning)
    loginSub,     \* HostCredentialsComponent's loginChange subscription
    logoutCalls,  \* bag of logout calls in flight: the owner each carries,
                  \* and whether it was sent since the latest login
    forceFlag,    \* localStorage "ForceChangePass"
    submits,      \* bag of UsersEdit submits in flight: the page's copy,
                  \* and whether it was sent since the latest login
    editCopy      \* UsersEdit page: "closed", or the ForceChangePass copy
                  \* its ngOnInit read

vars == <<session, userSession, idle, countdown, loginSub, logoutCalls,
          forceFlag, submits, editCopy>>

-----------------------------------------------------------------------------
\* The store and ForceChangePass persist across page loads; ngOnInit
\* copies the store into userSession.
Init ==
    /\ session \in Bundles
    /\ userSession = session
    /\ idle = "watching"        \* the constructor ends with this.reset()
    /\ countdown = WarnTicks
    /\ loginSub = TRUE          \* ngOnInit subscribes to loginChange
    /\ logoutCalls = EmptyBag
    /\ forceFlag \in {"0", "1"}
    /\ submits = EmptyBag
    /\ editCopy = "closed"

\* A variant of OnLoginChange whose "startSession" branch does not reset.
OnLoginChangeNoReset(e, s) ==
    IF ~loginSub THEN UNCHANGED <<idle, loginSub, userSession>>
    ELSE /\ userSession' = IF e = "error" THEN "empty" ELSE s
         /\ idle' = IF e = "stopSession" THEN "stopped" ELSE idle
         /\ loginSub' = (e # "error")

\* The loginChange subscriber of HostCredentialsComponent, for event e,
\* with the store holding s after the emitter's own writes.
OnLoginChange(e, s) ==
    IF ~loginSub THEN UNCHANGED <<idle, loginSub, userSession>>
    ELSE CASE e = "error" ->
                \* killSessionID(); userSession = {}; registerForm.reset()
                \* throws: no navigation, no re-read, subscription ends.
                /\ userSession' = "empty"
                /\ loginSub' = FALSE
                /\ UNCHANGED idle
           [] e = "stopSession" ->
                /\ idle' = "stopped"
                /\ userSession' = s
                /\ UNCHANGED loginSub
           [] e = "startSession" ->
                /\ idle' = "watching"   \* reset(): idle.watch()
                /\ userSession' = s
                /\ UNCHANGED loginSub
           [] OTHER ->                  \* "ok": only the re-read
                /\ userSession' = s
                /\ UNCHANGED <<idle, loginSub>>

\* A click or keystroke of the user is one of the watcher's interrupt
\* sources (setInterrupts(DEFAULT_INTERRUPTSOURCES)): during the countdown
\* it first ends the idle state (IdleEnd), so the user acts only outside it.
UserActs == idle # "idle"

\* A call in flight as seen after a new login: sent before it.
SentBefore(c) == [c EXCEPT !.sinceLogin = FALSE]

\* Login page (outside src/): store the bundle, set ForceChangePass as the
\* backend says, and emit loginChange "startSession".  The calls in flight
\* are not touched; the model only notes they were sent before this login.
Login ==
    /\ UserActs
    /\ session # "auth"
    /\ session' = "auth"
    /\ forceFlag' \in {"0", "1"}
    /\ OnLoginChange("startSession", "auth")
    /\ editCopy' = "closed"
    /\ logoutCalls' = BagOfAll(SentBefore, logoutCalls)
    /\ submits' = BagOfAll(SentBefore, submits)
    /\ UNCHANGED countdown

\* No interaction for setIdle(1800) seconds: onIdleStart.
IdleStart ==
    /\ idle = "watching"
    /\ idle' = "idle"
    /\ countdown' = WarnTicks
    /\ UNCHANGED <<session, userSession, loginSub, logoutCalls, forceFlag,
                   submits, editCopy>>

\* An interrupt during the countdown: onIdleEnd runs reset().
IdleEnd ==
    /\ idle = "idle"
    /\ idle' = "watching"
    /\ UNCHANGED <<session, userSession, countdown, loginSub, logoutCalls,
                   forceFlag, submits, editCopy>>

\* A variant of the countdown tick that does not stop at zero.
TimeoutWarningPastZero ==
    /\ idle = "idle"
    /\ countdown' = countdown - 1
    /\ UNCHANGED <<session, userSession, idle, loginSub, logoutCalls,
                   forceFlag, submits, editCopy>>

\* One second of the countdown: onTimeoutWarning(countdown).
TimeoutWarning ==
    /\ idle = "idle"
    /\ countdown > 0
    /\ countdown' = countdown - 1
    /\ UNCHANGED <<session, userSession, idle, loginSub, logoutCalls,
                   forceFlag, submits, editCopy>>

\* logout(): a "logout" simpleRequest carrying userSession.Owner.
SendLogout ==
    logoutCalls' = BagAdd(logoutCalls, [owner |-> userSession, sinceLogin |-> TRUE])

\* A variant of IdleTimeout whose onTimeout handler does not log out.
IdleTimeoutNoLogout ==
    /\ idle = "idle"
    /\ countdown = 0
    /\ idle' = "timedOut"
    /\ UNCHANGED <<session, userSession, countdown, loginSub, logoutCalls,
                   forceFlag, submits, editCopy>>

\* setTimeout(60) elapses in the countdown: onTimeout calls logout().  The
\* model bounds the logout calls in flight by MaxCalls.
IdleTimeout ==
    /\ idle = "idle"
    /\ countdown = 0
    /\ BagCardinality(logoutCalls) < MaxCalls
    /\ idle' = "timedOut"
    /\ SendLogout
    /\ UNCHANGED <<session, userSession, countdown, loginSub, forceFlag,
                   submits, editCopy>>

\* The user presses logout.
LogoutClick ==
    /\ UserActs
    /\ BagCardinality(logoutCalls) < MaxCalls
    /\ SendLogout
    /\ UNCHANGED <<session, userSession, idle, countdown, loginSub, forceFlag,
                   submits, editCopy>>

\* The backend's answer to a logout for the cached owner o.
LogoutAnswers(o) ==
    IF o = "auth" THEN (IF LogoutMayFail THEN {"ok", "error"} ELSE {"ok"})
    ELSE {"error"}

\* The subscribe callback of logout(): only "ok" clears the session, emits
\* stopSession and navigates to welcome, which closes a UsersEdit page.
LogoutReply(o) ==
    /\ BagIn(o, logoutCalls)
    /\ logoutCalls' = BagRemove(logoutCalls, o)
    /\ \E name \in LogoutAnswers(o.owner) :
         IF name = "ok"
         THEN /\ session' = "empty"
              /\ OnLoginChange("stopSession", "empty")
              /\ editCopy' = "closed"
         ELSE UNCHANGED <<session, userSession, idle, loginSub, editCopy>>
    /\ UNCHANGED <<countdown, forceFlag, submits>>

\* The root component reports an authentication error.
AuthError ==
    /\ AuthErrors
    /\ session = "auth"
    /\ session' = IF loginSub THEN "empty" ELSE session
    /\ OnLoginChange("error", "empty")
    /\ UNCHANGED <<countdown, logoutCalls, forceFlag, submits, editCopy>>

\* addUser(): store the self-registration bundle and navigate to
\* add-user, away from a UsersEdit page.
AddUser ==
    /\ UserActs
    /\ session' = "selfReg"
    /\ editCopy' = "closed"
    /\ UNCHANGED <<userSession, idle, countdown, loginSub, logoutCalls,
                   forceFlag, submits>>

\* UsersEdit ngOnInit() of a logged-in user: it keeps its own copy of
\* ForceChangePass and (admin or own Id set) loads the record to edit.
OpenEdit ==
    /\ UserActs
    /\ session = "auth"
    /\ editCopy' = forceFlag
    /\ UNCHANGED <<session, userSession, idle, countdown, loginSub,
                   logoutCalls, forceFlag, submits>>

\* UsersEdit onSubmit() of a valid form on an open page, with the page's
\* ForceChangePass copy.  Nothing checks the session first.
Submit ==
    /\ UserActs
    /\ editCopy # "closed"
    /\ BagCardinality(submits) < MaxCalls
    /\ submits' = BagAdd(submits, [copy |-> editCopy, sinceLogin |-> TRUE])
    /\ UNCHANGED <<session, userSession, idle, countdown, loginSub,
                   logoutCalls, forceFlag, editCopy>>

\* A variant of SubmitReply that kills the session without emitting
\* loginChange "ok".
SubmitReplyNoEvent(f) ==
    /\ BagIn(f, submits)
    /\ submits' = BagRemove(submits, f)
    /\ forceFlag' = "0"
    /\ IF f.copy = "1"
       THEN /\ session' = "empty"
            /\ editCopy' = "closed"
            /\ UNCHANGED <<userSession, idle, loginSub>>
       ELSE UNCHANGED <<session, userSession, idle, loginSub, editCopy>>
    /\ UNCHANGED <<countdown, logoutCalls>>

\* Its subscribe callback, for any answer: ForceChangePass := "0"; after a
\* forced change, killSessionID(), loginChange "ok" and navigation to
\* welcome.  The copy is the page's, whatever has happened since.
SubmitReply(f) ==
    /\ BagIn(f, submits)
    /\ submits' = BagRemove(submits, f)
    /\ forceFlag' = "0"
    /\ IF f.copy = "1"
       THEN /\ session' = "empty"
            /\ OnLoginChange("ok", "empty")
            /\ editCopy' = "closed"
       ELSE UNCHANGED <<session, userSession, idle, loginSub, editCopy>>
    /\ UNCHANGED <<countdown, logoutCalls>>

Next ==
    \/ Login \/ IdleStart \/ IdleEnd \/ TimeoutWarning \/ IdleTimeout
    \/ LogoutClick
    \/ \E o \in BagToSet(logoutCalls) : LogoutReply(o)
    \/ AuthError \/ AddUser \/ OpenEdit \/ Submit
    \/ \E f \in BagToSet(submits) : SubmitReply(f)

\* The idle timers fire and the backend answers; the user's steps and the
\* root component's reports are not forced.
Fairness ==
    /\ WF_vars(IdleStart) /\ WF_vars(TimeoutWarning) /\ WF_vars(IdleTimeout)
    /\ WF_vars(\E o \in BagToSet(logoutCalls) : LogoutReply(o))
    /\ WF_vars(\E f \in BagToSet(submits) : SubmitReply(f))

Spec == Init /\ [][Next]_vars /\ Fairness

-----------------------------------------------------------------------------
(* Properties                                                              *)

TypeOK ==
    /\ session \in Bundles
    /\ userSession \in Bundles
    /\ idle \in IdleStates
    /\ countdown \in 0..WarnTicks
    /\ loginSub \in BOOLEAN
    /\ IsABag(logoutCalls)
    /\ BagToSet(logoutCalls) \subseteq [owner : Bundles, sinceLogin : BOOLEAN]
    /\ forceFlag \in {"0", "1"}
    /\ IsABag(submits)
    /\ BagToSet(submits) \subseteq [copy : {"0", "1"}, sinceLogin : BOOLEAN]
    /\ editCopy \in {"closed", "0", "1"}

\* A logged-in session is always under the idle watcher: it is watching or
\* counting down, or it has timed out and the logout() call it sent for
\* this session is still in flight.  It is about the loginChange
\* subscriber resetting the watcher on "startSession", and about every
\* path that ends a session (logout reply, auth error, forced password
\* change) leaving the watcher in a state the next login restarts.
AuthenticatedIsWatched ==
    session = "auth" =>
        \/ idle \in {"watching", "idle"}
        \/ /\ idle = "timedOut"
           /\ \E c \in BagToSet(logoutCalls) : c.owner = "auth" /\ c.sinceLogin

\* HostCredentials' cached userSession, the owner logout() sends, names a
\* logged-in user only while the store holds a session: every path that
\* clears the store (logout reply, auth error, forced password change)
\* reaches the cache through loginChange, and only addUser() replaces the
\* store behind it, with the self-registration bundle.  It is about the
\* loginChange events of the logout() and UsersEdit onSubmit() callbacks
\* and of the root component's auth error, and the subscriber re-reading
\* the store (spec: session lifecycle transitions are published on the
\* login-changed topic).
CachedOwnerIsStored == userSession = "auth" => session \in {"auth", "selfReg"}

\* A logged-in session whose watcher has timed out is eventually ended
\* (spec: entering TimedOut clears the Session Store).
TimedOutEndsSession ==
    (idle = "timedOut" /\ session = "auth") ~> (session # "auth")

\* The logout calls or submits a step answers: those it removes.
Answered(inFlight) ==
    {c \in BagToSet(inFlight) : CopiesIn(c, inFlight') < CopiesIn(c, inFlight)}

\* A reply ends a logged-in session only if its call was sent during that
\* session: an answer to a call sent before the latest login leaves the
\* session alone (spec: the bundle is destroyed on explicit logout, on
\* idle timeout or on an authentication error).  It is about the
\* callbacks of logout() and of UsersEdit onSubmit() running
\* killSessionID() on a reply that may arrive after the user has left the
\* session and logged in again.
ReplyEndsOnlyItsSession ==
    [][session = "auth" /\ session' # "auth" =>
         \A c \in Answered(logoutCalls) \cup Answered(submits) : c.sinceLogin]_vars

=============================================================================
