------------------------------ MODULE MCPool ------------------------------
(* Pool on small instances, one value of the constants per cfg. *)
EXTENDS Pool, TLC

\* the calls are interchangeable where no liveness is checked
Symmetry == Permutations(Calls)

Use(t, c) == [timed |-> t, closing |-> c]

\* a pool with a deadline that somebody closes
ClockAndClose == {Use(TRUE, TRUE)}
\* a pool with no deadline that somebody closes
CloseOnly     == {Use(FALSE, TRUE)}
\* either a deadline or a thread that closes the pool has to end the calls
ClockOrClose  == {Use(TRUE, FALSE), Use(FALSE, TRUE)}
=============================================================================
