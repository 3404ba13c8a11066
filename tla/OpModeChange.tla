---------------------------- MODULE OpModeChange ----------------------------
(***************************************************************************)
(* Operation-mode changes requested from the two cluster views:            *)
(* ClusterAvailableComponent.connectToCluster (app), and                   *)
(* connectToCluster and setOpMode of the menu ClusterAvailableComponent.   *)
(*                                                                         *)
(* A confirmed dialog sends a setOpMode call; its subscribe callback       *)
(* publishes the new mode on the op-mode topic when the answer is "ok",    *)
(* and the menu setOpMode callback also runs killSessionID() first.  No    *)
(* callback is registered for a failed call.  Calls are not serialised:    *)
(* the user may confirm a second change while the first is in flight, and  *)
(* the answers run in any order.  setOpMode compares the requested mode    *)
(* with the mode of the last host-info snapshot the view received.         *)
(*                                                                         *)
(* The backend, the poller and the op-mode topic are outside src/ and are  *)
(* modelled from the spec: the backend applies a call when it serves it,   *)
(* answering "ok" or "error"; the poller publishes the backend's mode.     *)
(***************************************************************************)
EXTENDS Naturals, Bags, BagsExt

CONSTANTS
    Modes,          \* operation modes: "MASTER" and "NODE"
    MaxOpCalls,     \* bound on setOpMode calls in flight
    OpCallsMayFail, \* transport failures of setOpMode calls
    NoEvent         \* model value: nothing published on the op-mode topic

ASSUME "NODE" \in Modes /\ MaxOpCalls \in Nat \ {0}
ASSUME OpCallsMayFail \in BOOLEAN /\ NoEvent \notin Modes

\* A setOpMode call: the mode asked for, whether its callback kills the
\* session (menu setOpMode), and the backend's answer once served.
OpCall == [mode : Modes, kills : BOOLEAN, answer : {"none", "ok", "error"}]

VARIABLES
    backendMode,  \* the host's operation mode on the backend
    snapshot,     \* hostInfo.OpMode of the last snapshot the views received
    opCalls,      \* bag of setOpMode calls in flight
    announced,    \* last mode published with setNewOpMode, or NoEvent
    session       \* the session store (getSessionID())

opVars == <<backendMode, snapshot, opCalls, announced>>
vars == <<backendMode, snapshot, opCalls, announced, session>>

-----------------------------------------------------------------------------
Init ==
    /\ backendMode \in Modes
    /\ snapshot = backendMode
    /\ opCalls = EmptyBag
    /\ announced = NoEvent
    /\ session \in {"empty", "auth"}

\* host.request(serviceOpMode, 'setOpMode') for mode m.
SendOpMode(m, kills) ==
    /\ BagCardinality(opCalls) < MaxOpCalls
    /\ opCalls' = BagAdd(opCalls, [mode |-> m, kills |-> kills, answer |-> "none"])
    /\ UNCHANGED <<backendMode, snapshot, announced, session>>

\* App connectToCluster(val): a confirmed dialog with the password it needs
\* asks for NODE.  A cancelled dialog or a missing password sends nothing
\* and changes only the message on screen.
ConnectToCluster == SendOpMode("NODE", FALSE)

\* Menu connectToCluster(val): the same handler in the menu view.
MenuConnectToCluster == SendOpMode("NODE", FALSE)

\* Menu setOpMode(mode): return when mode is the snapshot's mode; a
\* confirmed dialog (with a cluster name for MASTER) sends the call.
SetOpMode(m) ==
    /\ m # snapshot
    /\ SendOpMode(m, TRUE)

\* The backend serves a call: it applies the mode on "ok".
ServeOpMode(c) ==
    /\ c.answer = "none"
    /\ \E a \in {"ok", "error"} :
         /\ opCalls' = BagAdd(BagRemove(opCalls, c), [c EXCEPT !.answer = a])
         /\ backendMode' = IF a = "ok" THEN c.mode ELSE backendMode
    /\ UNCHANGED <<snapshot, announced, session>>

\* The subscribe callback: on "ok", killSessionID() (menu setOpMode only)
\* and setNewOpMode(mode); otherwise only this.response changes.
DeliverOpMode(c) ==
    /\ c.answer # "none"
    /\ opCalls' = BagRemove(opCalls, c)
    /\ IF c.answer = "ok"
       THEN /\ announced' = c.mode
            /\ session' = IF c.kills THEN "empty" ELSE session
       ELSE UNCHANGED <<announced, session>>
    /\ UNCHANGED <<backendMode, snapshot>>

\* A call whose transport fails, before or after the backend served it:
\* no callback runs.
FailOpMode(c) ==
    /\ OpCallsMayFail
    /\ opCalls' = BagRemove(opCalls, c)
    /\ UNCHANGED <<backendMode, snapshot, announced, session>>

\* The poller publishes a snapshot with the backend's mode.
PublishSnapshot ==
    /\ snapshot # backendMode
    /\ snapshot' = backendMode
    /\ UNCHANGED <<backendMode, opCalls, announced, session>>

OpNext ==
    \/ ConnectToCluster \/ MenuConnectToCluster
    \/ \E m \in Modes : SetOpMode(m)
    \/ \E c \in BagToSet(opCalls) : ServeOpMode(c) \/ DeliverOpMode(c)
                                    \/ FailOpMode(c)
    \/ PublishSnapshot

\* The backend answers every call, the browser runs the callbacks of the
\* answers that arrive, and the poller keeps running; the user's dialogs
\* and transport failures are not forced.
OpFairness ==
    /\ WF_vars(\E c \in BagToSet(opCalls) : ServeOpMode(c))
    /\ WF_vars(\E c \in BagToSet(opCalls) : DeliverOpMode(c))
    /\ WF_vars(PublishSnapshot)

Spec == Init /\ [][OpNext]_vars /\ OpFairness

-----------------------------------------------------------------------------
(* Properties                                                              *)

\* Once no setOpMode call is in flight, the last mode published on the
\* op-mode topic is the backend's mode: the root component, which acts on
\* these events, is not left believing a mode the host has since left.
\* It is about the callbacks publishing in the order answers arrive.
LastEventIsCurrent ==
    (BagCardinality(opCalls) = 0 /\ announced # NoEvent)
        => announced = backendMode

=============================================================================
