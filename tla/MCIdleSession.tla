--------------------------- MODULE MCIdleSession ----------------------------
(***************************************************************************)
(* Model-checking instances of IdleSession.                                *)
(***************************************************************************)
EXTENDS IdleSession

\* Two countdown ticks: a warning is emitted before the timeout.
MCWarnTicks == 2

=============================================================================
