---------------------------- MODULE ClientSession ---------------------------
(***************************************************************************)
(* The session lifetime of IdleSession composed with the operation-mode    *)
(* changes of OpModeChange.  They share the session store: a successful    *)
(* menu setOpMode runs killSessionID() without emitting loginChange, so    *)
(* the idle watcher of HostCredentialsComponent and its cached             *)
(* userSession are not told that the store was cleared.                    *)
(***************************************************************************)
CONSTANTS LogoutMayFail, AuthErrors, MaxCalls, WarnTicks,
          Modes, MaxOpCalls, OpCallsMayFail, NoEvent

VARIABLES session, userSession, idle, countdown, loginSub, logoutCalls,
          forceFlag, submits, editCopy,
          backendMode, snapshot, opCalls, announced

IS == INSTANCE IdleSession
        WITH session <- session, userSession <- userSession, idle <- idle,
             countdown <- countdown, loginSub <- loginSub,
             logoutCalls <- logoutCalls, forceFlag <- forceFlag,
             submits <- submits, editCopy <- editCopy
OM == INSTANCE OpModeChange
        WITH backendMode <- backendMode, snapshot <- snapshot,
             opCalls <- opCalls, announced <- announced, session <- session

\* The variables only the session component changes.
idleVars == <<userSession, idle, countdown, loginSub, logoutCalls, forceFlag,
              submits, editCopy>>

\* The variables only the operation-mode component changes.
opModeVars == <<backendMode, snapshot, opCalls, announced>>

vars == <<session, idleVars, opModeVars>>

Init == IS!Init /\ OM!Init

\* One step of either component; the other's own variables stay as they are.
Next ==
    \/ IS!Next /\ UNCHANGED opModeVars
    \/ OM!OpNext /\ UNCHANGED idleVars

Spec == Init /\ [][Next]_vars /\ IS!Fairness /\ OM!OpFairness

-----------------------------------------------------------------------------
(* Properties                                                              *)

\* A logged-in session stays under the idle watcher (IdleSession), also
\* when setOpMode clears the store behind the watcher's back.
AuthenticatedIsWatched == IS!AuthenticatedIsWatched

\* A logged-in session whose watcher has timed out is eventually ended
\* (IdleSession), also when setOpMode clears the store in between.
TimedOutEndsSession == IS!TimedOutEndsSession

\* When the store has been cleared while HostCredentials' cached
\* userSession still names the logged-in user, the cache eventually agrees
\* with the store again (spec: session lifecycle transitions are published
\* on the login-changed topic so every subscriber reacts).  It is about
\* menu setOpMode calling killSessionID() without setLoginChange(), which
\* leaves userSession, the owner logout() sends, stale.
ClearedSessionReachesCache ==
    (userSession = "auth" /\ session = "empty") ~> (userSession = session)

=============================================================================
