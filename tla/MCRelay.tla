------------------------------- MODULE MCRelay -------------------------------
(* Relay for TLC: two tools, one whose results are secret, a ceiling that    *)
(* two calls of the dear one pass, and a host that answers the first call    *)
(* or the second, once, twice, early, with a cost or none, or with no        *)
(* answer.                                                                   *)
EXTENDS Relay

Offer(c, s) == [cost |-> c, secret |-> s]
MCOffers == [cheap |-> Offer(1, FALSE), vault |-> Offer(2, TRUE)]

Line(i, what, c, s) == [id |-> i, is |-> what, cost |-> c, secret |-> s]
MCLines == {Line(1, "result", Default, FALSE), Line(2, "result", 0, FALSE),
            Line(1, "error", 2, FALSE), Line(2, "result", Default, TRUE),
            Line(1, "other", Default, FALSE)}
=============================================================================
