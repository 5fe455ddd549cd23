------------------------------ MODULE MCEval ------------------------------
(* Eval on its one pool: one call, one slot, a deadline and a memory cap.  *)
EXTENDS Eval

EvalPool == {[timed |-> TRUE, closing |-> TRUE]}
=============================================================================
