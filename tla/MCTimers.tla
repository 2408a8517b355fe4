------------------------------ MODULE MCTimers ------------------------------
(* A small instance of Timers for TLC. *)
EXTENDS Timers

CONSTANTS n, five   \* names, the second one numeric

\* Programs that name and cancel their intervals with care, that only use a
\* name twice or only cancel in the callback, and that do anything.
MCPrograms == {{}, {"duplicate"}, {"own"}, LibertyNames}
=============================================================================
