----------------------------- MODULE PoolPromise -----------------------------
(***************************************************************************)
(* What sabline.Pool promises (the isolation rules of its docstring),      *)
(* without threads, deadlines or processes: a call waits for one of Size   *)
(* places, is served by one worker that serves nobody else meanwhile, and  *)
(* leaves once; a worker serves again only if it was never spoiled; a      *)
(* worker is started at most once.                                         *)
(***************************************************************************)
EXTENDS Naturals, FiniteSets

CONSTANTS Calls, Workers, Size, NoCall

VARIABLES
  stage,        \* each call is "waiting", "serving" or has "left"
  worker,       \* the worker that serves a call, or NoCall
  fit,          \* the workers ready to serve
  started,      \* the workers that were ever started
  spoiled       \* the workers in which something was not clean

vars == <<stage, worker, fit, started, spoiled>>

Init ==
  /\ stage = [c \in Calls |-> "waiting"]
  /\ worker = [c \in Calls |-> NoCall]
  /\ fit = {} /\ started = {} /\ spoiled = {}

Serving == {c \in Calls : stage[c] = "serving"}

Take(c) ==
  /\ stage[c] = "waiting" /\ Cardinality(Serving) < Size
  /\ stage' = [stage EXCEPT ![c] = "serving"]
  /\ \E w \in fit \union {NoCall} : /\ worker' = [worker EXCEPT ![c] = w]
                                    /\ fit' = fit \ {w}
  /\ UNCHANGED <<started, spoiled>>

Refuse(c) ==
  /\ stage[c] = "waiting"
  /\ stage' = [stage EXCEPT ![c] = "left"]
  /\ UNCHANGED <<worker, fit, started, spoiled>>

Start(c) ==
  /\ stage[c] = "serving" /\ worker[c] = NoCall
  /\ \E w \in Workers \ started : /\ worker' = [worker EXCEPT ![c] = w]
                                  /\ started' = started \union {w}
  /\ UNCHANGED <<stage, fit, spoiled>>

Retire(c) ==
  /\ stage[c] = "serving" /\ worker[c] # NoCall
  /\ worker' = [worker EXCEPT ![c] = NoCall]
  /\ UNCHANGED <<stage, fit, started, spoiled>>

Spoil(w) ==
  /\ w \in started \ fit
  /\ spoiled' = spoiled \union {w}
  /\ UNCHANGED <<stage, worker, fit, started>>

Leave(c) ==
  /\ stage[c] = "serving" /\ worker[c] \notin spoiled
  /\ stage' = [stage EXCEPT ![c] = "left"]
  /\ fit' = fit \union ({worker[c]} \ {NoCall})
  /\ worker' = [worker EXCEPT ![c] = NoCall]
  /\ UNCHANGED <<started, spoiled>>

Next ==
  \/ \E c \in Calls : Take(c) \/ Refuse(c) \/ Start(c) \/ Retire(c) \/ Leave(c)
  \/ \E w \in Workers : Spoil(w)

Spec == Init /\ [][Next]_vars

\* What a service may rely on: at most Size calls are in service, no two by one
\* worker, none by a worker that waits; and what waits was never spoiled, nor
\* does it come back when it is.
Isolated ==
  /\ Cardinality(Serving) <= Size
  /\ \A c, d \in Calls : worker[c] # NoCall /\ worker[c] = worker[d] => c = d
  /\ \A c \in Calls : worker[c] \notin fit
  /\ fit \cap spoiled = {}
=============================================================================
