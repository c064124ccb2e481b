------------------------------- MODULE MCPs2 -------------------------------
(***************************************************************************)
(* Movements for Ps2: both signs on both axes, the ends of their range,    *)
(* and bytes that have and have not bit 3 set.                             *)
(***************************************************************************)
EXTENDS Ps2

MCMoves == {[dx |-> 1, dy |-> -1], [dx |-> -256, dy |-> 8]}

\* Undisturbed, and with get_key polling and bytes lost.
MCModes == {[lossy |-> FALSE, polls |-> FALSE], [lossy |-> TRUE, polls |-> TRUE]}
MCLossy == {[lossy |-> TRUE, polls |-> FALSE]}
============================================================================
