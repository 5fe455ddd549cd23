-------------------------------- MODULE Door --------------------------------
(***************************************************************************)
(* sabline serve (sabline/doors.py): an HTTP door that runs programs under *)
(* one operator's ceiling, with a bucket of requests for each caller       *)
(* (_RateLimit), a pool for each budget that is asked for (PoolRegistry,   *)
(* sabline/pool.py), a pool of its own for checks, and a thread for each   *)
(* request.  The threads are daemons: stopping the door waits for none.    *)
(*                                                                         *)
(* A pool is named by the request that made it, and a worker by the        *)
(* request that started it.  What goes on inside a pool is Pool's; here a  *)
(* pool has Size places, workers, and a close() of two steps.  What is     *)
(* done under _RateLimit._lock, PoolRegistry._lock or Pool._lock is one    *)
(* action; the clock is read before _RateLimit._lock is taken.  Time is    *)
(* counted in ticks, Refill of which earn one request.                     *)
(***************************************************************************)
EXTENDS Integers, Sequences, FiniteSets

CONSTANTS
  Requests,     \* the requests, and the pools and workers they make
  Budgets,      \* the budgets asked for, each with its limits: a pool's key
  Ceiling,      \* those --max-allow, --max-timeout, --max-memory-mb cover
  Addresses,    \* where requests come from
  Scenes,       \* what happens: [asks : what each asks, if it comes, rate :
                \*   --rate-limit,
                \*   until : how long requests come, stops : is it stopped?]
  Size,         \* places in a pool
  Keep,         \* PoolRegistry.keep
  Remember,     \* _RateLimit.KEEP
  Refill,       \* ticks that earn one request
  Token,        \* the bucket of requests that carry the door's token
  Checker,      \* the door's pool for checks and audits
  None          \* no pool, no worker

Asks == [bearer : BOOLEAN, from : Addresses,
         what : {"health", "check", "run"}, budget : Budgets]

ASSUME SizesAssumption ==
  /\ Size \in Nat \ {0} /\ Keep \in Nat \ {0} /\ Remember \in Nat \ {0}
  /\ Refill \in Nat \ {0}
ASSUME AsksAssumption ==
  /\ Ceiling \subseteq Budgets
  /\ Scenes \subseteq [asks : [Requests -> Asks \union {None}], rate : Nat \ {0},
                       until : Nat, stops : BOOLEAN]
ASSUME NamesAssumption ==
  Token \notin Addresses /\ Checker \notin Requests /\ None \notin Requests
  /\ Checker # None

VARIABLES
  scene,        \* which of the Scenes this is
  pc,           \* where the thread of a request is
  outcome,      \* how a request was answered
  pool,         \* the pool a request was given
  worker,       \* the worker that serves a request
  stale,        \* the pool a request has to close
  doomed,       \* the workers of it that the request is killing
  registry,     \* PoolRegistry._pools: [budget, pool], least used first
  shut,         \* Pool._closed
  live,         \* Pool._live, the workers close() kills
  idle,         \* the workers that wait in a pool's queue
  proc,         \* a worker is "unborn", "waits", "runs" or is "gone"
  buckets,      \* _RateLimit._buckets: [key, level, last], least seen first
  now,          \* the clock
  clock,        \* what it said when a request read it
  main,         \* where serve_main is
  toClose,      \* the pools PoolRegistry.close has still to close
  closing,      \* the pool the main thread is closing
  detached,     \* the pools whose finalizer will not run any more
  \* what the properties look back on
  granted,      \* requests let through, for each key
  first,        \* when a key was first seen, later by as long as it was not
                \*   remembered
  forgotten,    \* how often a key was forgotten
  since,        \* the other budgets asked for since a request got its pool
  late          \* workers registered when nobody would stop them any more

reqVars  == <<pc, outcome, pool, worker, stale, doomed>>
poolVars == <<registry, shut, live, idle, proc>>
rateVars == <<buckets, clock, granted, first, forgotten>>
mainVars == <<main, toClose, closing, detached>>
vars == <<scene, reqVars, poolVars, rateVars, mainVars, now, since, late>>

Pools == Requests \union {Checker}
Keys  == Addresses \union {Token}
Places == {"new", "asks", "pool", "evict", "drain", "kill", "use",
           "start", "register", "serving", "done"}
Outcomes == {"none", "limited", "unauthorized", "ceiling", "ok", "not_ok",
             "closed", "cut"}

Entry(b, p) == [budget |-> b, pool |-> p]
ask       == scene.asks
PerMinute == scene.rate
Full      == PerMinute * Refill
Threads   == main # "exited"        \* do the door's threads still run?

Init ==
  /\ scene \in Scenes
  /\ pc = [r \in Requests |-> "new"]
  /\ outcome = [r \in Requests |-> "none"]
  /\ pool = [r \in Requests |-> None]
  /\ worker = [r \in Requests |-> None]
  /\ stale = [r \in Requests |-> None]
  /\ doomed = [r \in Requests |-> {}]
  /\ registry = <<>>
  /\ shut = [p \in Pools |-> FALSE]
  /\ live = [p \in Pools |-> {}] /\ idle = [p \in Pools |-> {}]
  /\ proc = [w \in Requests |-> "unborn"]
  /\ buckets = <<>> /\ now = 0 /\ clock = [r \in Requests |-> 0]
  /\ main = "open" /\ toClose = {} /\ closing = None /\ detached = {}
  /\ granted = [k \in Keys |-> 0] /\ first = [k \in Keys |-> 0]
  /\ forgotten = [k \in Keys |-> 0]
  /\ since = [r \in Requests |-> {}] /\ late = {}

-----------------------------------------------------------------------------
(* A request arrives and reads the clock, spends its caller's allowance by   *)
(* that clock, and is routed.                                                *)

\* for mutation: the address's, whoever asks
KeyOfAddress(a) == a.from

\* Whose allowance a request spends
Key(a) == IF a.bearer THEN Token ELSE a.from

Bucket(k) == {i \in DOMAIN buckets : buckets[i].key = k}

\* OrderedDict: e goes last, and the entry it had before, if any, is dropped
Dropped(s, i) == [n \in 1..(Len(s) - 1) |-> s[IF n < i THEN n ELSE n + 1]]
Moved(s, at, e) ==
  Append(IF at = {} THEN s ELSE Dropped(s, CHOOSE i \in at : TRUE), e)

\* What is in a key's bucket for one who read the clock at t: full for a key
\* that is not remembered, and less than nothing if others came far later
Level(k, t) ==
  IF Bucket(k) = {} THEN Full
  ELSE LET b == buckets[CHOOSE i \in Bucket(k) : TRUE]
           earned == b.level + (t - b.last)
       IN  IF earned > Full THEN Full ELSE earned

\* for mutation: the time of the last request is not kept
SeenLong(k, level, t) ==
  LET next == Moved(buckets, Bucket(k),
                    [key |-> k, level |-> level, last |-> 0])
  IN  IF Len(next) > Remember THEN Tail(next) ELSE next

\* The key goes last; beyond Remember, the first goes
Seen(k, level, t) ==
  LET next == Moved(buckets, Bucket(k),
                    [key |-> k, level |-> level, last |-> t])
  IN  IF Len(next) > Remember THEN Tail(next) ELSE next

Forgets(k) == Bucket(k) # {} /\ Bucket(k)' = {}

\* _RateLimit.take
Take(k, t, goes) ==
  /\ goes = (Level(k, t) >= Refill)
  /\ buckets' = Seen(k, IF goes THEN Level(k, t) - Refill ELSE Level(k, t), t)
  /\ granted' = [granted EXCEPT ![k] = IF goes THEN @ + 1 ELSE @]
  /\ first' = [j \in Keys |-> IF j = k /\ Bucket(k) = {} THEN first[j] + t
                              ELSE IF Forgets(j) THEN first[j] - now
                              ELSE first[j]]
  /\ forgotten' = [j \in Keys |-> IF Forgets(j) THEN forgotten[j] + 1
                                  ELSE forgotten[j]]

\* Where route() leads, and what it answers if it ends there
Route(a) ==
  CASE a.what = "health"       -> <<"done", "ok">>
    [] a.what # "health" /\ ~a.bearer -> <<"done", "unauthorized">>
    [] a.bearer /\ a.what = "check"   -> <<"use", "none">>
    [] a.bearer /\ a.what = "run" /\ a.budget \notin Ceiling
                               -> <<"done", "ceiling">>
    [] a.bearer /\ a.what = "run" /\ a.budget \in Ceiling
                               -> <<"pool", "none">>

Arrive(r) ==
  /\ pc[r] = "new" /\ ask[r] # None /\ main = "open"
  /\ clock' = [clock EXCEPT ![r] = now]
  /\ pc' = [pc EXCEPT ![r] = "asks"]
  /\ UNCHANGED <<scene, outcome, pool, worker, stale, doomed, poolVars, buckets,
                 granted, first, forgotten, mainVars, now, since, late>>

\* others that read the clock later may have had the lock before
Admit(r) ==
  /\ pc[r] = "asks" /\ Threads
  /\ \E goes \in BOOLEAN :
       LET to == IF goes THEN Route(ask[r]) ELSE <<"done", "limited">> IN
       /\ Take(Key(ask[r]), clock[r], goes)
       /\ pc' = [pc EXCEPT ![r] = to[1]]
       /\ outcome' = [outcome EXCEPT ![r] = to[2]]
       /\ pool' = [pool EXCEPT ![r] = IF to[1] = "use" THEN Checker ELSE None]
  /\ UNCHANGED <<scene, clock, worker, stale, doomed, poolVars, mainVars, now,
                 since, late>>

\* the clock matters to requests that are still to come
Tick ==
  /\ now < scene.until /\ main = "open" /\ \E r \in Requests : pc[r] = "new"
  /\ now' = now + 1
  /\ UNCHANGED <<scene, reqVars, poolVars, rateVars, mainVars, since, late>>

-----------------------------------------------------------------------------
(* PoolRegistry.pool: the budget's pool, and which pool has to go for it. *)

\* for mutation: a pool that is found keeps its place
UsedInPlace(b, p) ==
  IF \E i \in DOMAIN registry : registry[i].budget = b
  THEN [i \in DOMAIN registry |->
          IF registry[i].budget = b THEN Entry(b, p) ELSE registry[i]]
  ELSE Append(registry, Entry(b, p))

\* a pool that is used goes last
Used(b, p) ==
  Moved(registry, {i \in DOMAIN registry : registry[i].budget = b}, Entry(b, p))

Made(p) == p = Checker \/ \E r \in Requests : pool[r] = p

GivePool(r) ==
  LET b == ask[r].budget
      open == {registry[i].pool : i \in {j \in DOMAIN registry :
                 registry[j].budget = b /\ ~shut[registry[j].pool]}}
      p == IF open = {} THEN r ELSE CHOOSE q \in open : TRUE
      order == Used(b, p)
      goes == IF Len(order) > Keep THEN Head(order).pool ELSE None
  IN
  /\ pc[r] = "pool" /\ Threads
  /\ pool' = [pool EXCEPT ![r] = p]
  /\ registry' = IF goes = None THEN order ELSE Tail(order)
  /\ stale' = [stale EXCEPT ![r] = goes]
  /\ pc' = [pc EXCEPT ![r] = IF goes = None THEN "use" ELSE "evict"]
  /\ since' = [q \in Requests |->
                 IF pool[q] \notin {None, Checker} /\ ask[q].budget # b
                 THEN since[q] \union {b} ELSE since[q]]
  /\ UNCHANGED <<scene, outcome, worker, doomed, shut, live, idle, proc,
                 rateVars, mainVars, now, late>>

\* Pool.close(): the flag first, and nothing more if it was set
Shut(p) == shut' = [shut EXCEPT ![p] = TRUE]

\* _kill_workers: every worker in _live
KillWorkers(p) ==
  /\ proc' = [w \in Requests |-> IF w \in live[p] THEN "gone" ELSE proc[w]]
  /\ live' = [live EXCEPT ![p] = {}]

\* for mutation: the pool is dropped and not closed
EvictForgets(r) ==
  /\ pc[r] = "evict" /\ Threads
  /\ pc' = [pc EXCEPT ![r] = "use"]
  /\ UNCHANGED <<scene, outcome, pool, worker, stale, doomed, poolVars,
                 rateVars, mainVars, now, since, late>>

Evict(r) ==
  /\ pc[r] = "evict" /\ Threads
  /\ Shut(stale[r])
  /\ pc' = [pc EXCEPT ![r] = IF shut[stale[r]] THEN "use" ELSE "drain"]
  /\ UNCHANGED <<scene, outcome, pool, worker, stale, doomed, registry, live,
                 idle, proc, rateVars, mainVars, now, since, late>>

EvictDrains(r) ==
  /\ pc[r] = "drain" /\ Threads
  /\ doomed' = [doomed EXCEPT ![r] = live[stale[r]]]
  /\ live' = [live EXCEPT ![stale[r]] = {}]
  /\ pc' = [pc EXCEPT ![r] = "kill"]
  /\ UNCHANGED <<scene, outcome, pool, worker, stale, registry, shut, idle,
                 proc, rateVars, mainVars, now, since, late>>

\* the finalizer is detached last
EvictKills(r) ==
  /\ pc[r] = "kill" /\ Threads
  /\ proc' = [w \in Requests |-> IF w \in doomed[r] THEN "gone" ELSE proc[w]]
  /\ detached' = detached \union {stale[r]}
  /\ pc' = [pc EXCEPT ![r] = "use"]
  /\ UNCHANGED <<scene, outcome, pool, worker, stale, doomed, registry, shut,
                 live, idle, rateVars, main, toClose, closing, now, since,
                 late>>

-----------------------------------------------------------------------------
(* The run on the pool (Pool._use; its threads are Pool's). *)

\* for mutation: a place is lost when its run was not clean
TakenForGood(p) == {r \in Requests : /\ pool[r] = p
                     /\ \/ pc[r] \in {"start", "register", "serving"}
                        \/ outcome[r] = "not_ok"}

Taken(p) == {r \in Requests : pool[r] = p
                              /\ pc[r] \in {"start", "register", "serving"}}

Ends(r, how) ==
  /\ pc' = [pc EXCEPT ![r] = "done"]
  /\ outcome' = [outcome EXCEPT ![r] = how]

\* closed before it waits for a place, while it waits (close() leaves a token
\* in the queue), or when it has one: RuntimeError, which is answered with 500
TurnedAway(r) ==
  /\ pc[r] = "use" /\ shut[pool[r]] /\ Threads
  /\ Ends(r, "closed")
  /\ UNCHANGED <<scene, pool, worker, stale, doomed, poolVars, rateVars,
                 mainVars, now, since, late>>

\* a place with an idle worker in it, dead or alive, or with none yet
GetPlace(r) ==
  LET p == pool[r] IN
  /\ pc[r] = "use" /\ ~shut[p] /\ Threads
  /\ \/ \E w \in idle[p] :
          /\ idle' = [idle EXCEPT ![p] = @ \ {w}]
          /\ IF proc[w] = "waits"
             THEN /\ proc' = [proc EXCEPT ![w] = "runs"]
                  /\ worker' = [worker EXCEPT ![r] = w]
                  /\ pc' = [pc EXCEPT ![r] = "serving"]
             ELSE /\ pc' = [pc EXCEPT ![r] = "start"]
                  /\ UNCHANGED <<proc, worker>>
     \/ /\ Cardinality(Taken(p)) + Cardinality(idle[p]) < Size
        /\ pc' = [pc EXCEPT ![r] = "start"]
        /\ UNCHANGED <<idle, proc, worker>>
  /\ UNCHANGED <<scene, outcome, pool, stale, doomed, registry, shut, live,
                 rateVars, mainVars, now, since, late>>

\* Pool._start: the child is there; or it never said it was ready
Start(r) ==
  /\ pc[r] = "start" /\ Threads
  /\ \/ /\ proc' = [proc EXCEPT ![r] = "waits"]
        /\ pc' = [pc EXCEPT ![r] = "register"]
        /\ UNCHANGED outcome
     \/ /\ proc' = [proc EXCEPT ![r] = "gone"]
        /\ Ends(r, "not_ok")
  /\ UNCHANGED <<scene, pool, worker, stale, doomed, registry, shut, live, idle,
                 rateVars, mainVars, now, since, late>>

\* for mutation: it does not look whether the pool was closed meanwhile
RegisterAnyway(r) ==
  LET p == pool[r] IN
  /\ pc[r] = "register" /\ Threads
  /\ live' = [live EXCEPT ![p] = @ \union {r}]
  /\ proc' = [proc EXCEPT ![r] = "runs"]
  /\ worker' = [worker EXCEPT ![r] = r]
  /\ pc' = [pc EXCEPT ![r] = "serving"]
  /\ UNCHANGED <<scene, outcome, pool, stale, doomed, registry, shut, idle,
                 rateVars, mainVars, now, since, late>>

\* a pool the exit handlers will not come to any more
Unseen(p) == main = "leaving" \/ (main = "atexit" /\ p \notin toClose)

\* "close() may have run between the check in run() and here"
Register(r) ==
  LET p == pool[r] IN
  /\ pc[r] = "register" /\ Threads
  /\ IF shut[p]
     THEN /\ proc' = [proc EXCEPT ![r] = "gone"]
          /\ Ends(r, "closed")
          /\ UNCHANGED <<live, worker, late>>
     ELSE /\ live' = [live EXCEPT ![p] = @ \union {r}]
          /\ proc' = [proc EXCEPT ![r] = "runs"]
          /\ worker' = [worker EXCEPT ![r] = r]
          /\ pc' = [pc EXCEPT ![r] = "serving"]
          /\ late' = IF Unseen(p) THEN late \union {r} ELSE late
          /\ UNCHANGED outcome
  /\ UNCHANGED <<scene, pool, stale, doomed, registry, shut, idle, rateVars,
                 mainVars, now, since>>

\* the worker is kept after a run that was clean, and killed after any other
RunEnds(r) ==
  LET p == pool[r]  w == worker[r] IN
  /\ pc[r] = "serving" /\ proc[w] = "runs" /\ Threads
  /\ \/ /\ Ends(r, "ok")
        /\ proc' = [proc EXCEPT ![w] = "waits"]
        /\ idle' = [idle EXCEPT ![p] = @ \union {w}]
        /\ UNCHANGED live
     \/ /\ Ends(r, "not_ok")
        /\ proc' = [proc EXCEPT ![w] = "gone"]
        /\ live' = [live EXCEPT ![p] = @ \ {w}]
        /\ UNCHANGED idle
  /\ UNCHANGED <<scene, pool, worker, stale, doomed, registry, shut, rateVars,
                 mainVars, now, since, late>>

\* its worker was killed by somebody else: E611 or E000, whose fault or not
Cut(r) ==
  /\ pc[r] = "serving" /\ proc[worker[r]] = "gone" /\ Threads
  /\ Ends(r, "cut")
  /\ live' = [live EXCEPT ![pool[r]] = @ \ {worker[r]}]
  /\ UNCHANGED <<scene, pool, worker, stale, doomed, registry, shut, idle, proc,
                 rateVars, mainVars, now, since, late>>

-----------------------------------------------------------------------------
(* serve_main stops: its finally block, and the interpreter's exit. *)

\* KeyboardInterrupt; server_close() waits for no daemon thread
Stop ==
  /\ scene.stops /\ main = "open" /\ main' = "stopping"
  /\ UNCHANGED <<scene, reqVars, poolVars, rateVars, toClose, closing, detached, now,
                 since, late>>

\* PoolRegistry.close: the pools there are now
CloseRegistry ==
  /\ main = "stopping" /\ main' = "pools"
  /\ toClose' = {registry[i].pool : i \in DOMAIN registry}
  /\ registry' = <<>>
  /\ UNCHANGED <<scene, reqVars, shut, live, idle, proc, rateVars, closing, detached,
                 now, since, late>>

CloseNext(p) ==
  /\ p \in toClose /\ closing = None /\ Threads
  /\ Shut(p)
  /\ toClose' = toClose \ {p}
  /\ closing' = IF shut[p] THEN None ELSE p
  /\ UNCHANGED <<scene, reqVars, registry, live, idle, proc, rateVars, main,
                 detached, now, since, late>>

CloseKills ==
  /\ closing # None /\ Threads
  /\ KillWorkers(closing)
  /\ closing' = None
  /\ detached' = detached \union {closing}
  /\ UNCHANGED <<scene, reqVars, registry, shut, idle, rateVars, main, toClose,
                 now, since, late>>

CloseChecker ==
  /\ main = "pools" /\ toClose = {} /\ closing = None
  /\ main' = "checker" /\ toClose' = {Checker}
  /\ UNCHANGED <<scene, reqVars, poolVars, rateVars, closing, detached, now, since,
                 late>>

Return ==
  /\ main = "checker" /\ toClose = {} /\ closing = None
  /\ main' = "exit"
  /\ UNCHANGED <<scene, reqVars, poolVars, rateVars, toClose, closing, detached, now,
                 since, late>>

\* weakref.finalize at exit, of each pool that nobody has finished closing
Pending == {p \in Pools : Made(p) /\ p \notin detached}

Finalize(p) ==
  /\ main = "exit" /\ p \in Pending
  /\ KillWorkers(p)
  /\ detached' = detached \union {p}
  /\ UNCHANGED <<scene, reqVars, registry, shut, idle, rateVars, main, toClose,
                 closing, now, since, late>>

\* _close_pools_at_exit, registered before the first finalizer and so run
\* after them: the pools there are by now (close() passes over a closed one)
CloseAtExit ==
  /\ main = "exit" /\ Pending = {} /\ main' = "atexit"
  /\ toClose' = {p \in Pools : Made(p) /\ ~shut[p]}
  /\ UNCHANGED <<scene, reqVars, poolVars, rateVars, closing, detached, now,
                 since, late>>

Leave ==
  /\ main = "atexit" /\ toClose = {} /\ closing = None
  /\ main' = "leaving"
  /\ UNCHANGED <<scene, reqVars, poolVars, rateVars, toClose, closing, detached,
                 now, since, late>>

\* the process is gone, and every thread of it
Exit ==
  /\ main = "leaving" /\ main' = "exited"
  /\ UNCHANGED <<scene, reqVars, poolVars, rateVars, toClose, closing, detached, now,
                 since, late>>

\* a worker whose parent is gone ends at its next read (PoolWorker)
Orphan(w) ==
  /\ main = "exited" /\ proc[w] = "waits"
  /\ proc' = [proc EXCEPT ![w] = "gone"]
  /\ UNCHANGED <<scene, reqVars, registry, shut, live, idle, rateVars, mainVars, now,
                 since, late>>

Rest ==
  /\ \/ main = "exited" /\ \A w \in Requests : proc[w] # "waits"
     \/ main = "open" /\ \A r \in Requests : pc[r] = "done" \/ ask[r] = None
  /\ UNCHANGED vars

\* what is done for a request that was let through
Serve(r) ==
  \/ GivePool(r) \/ Evict(r) \/ EvictDrains(r) \/ EvictKills(r)
  \/ TurnedAway(r) \/ GetPlace(r) \/ Start(r) \/ Register(r) \/ RunEnds(r) \/ Cut(r)

RequestStep(r) == Admit(r) \/ Serve(r)

MainStep ==
  \/ CloseRegistry \/ CloseKills \/ CloseChecker \/ Return \/ CloseAtExit
  \/ Leave \/ Exit
  \/ \E p \in Pools : CloseNext(p) \/ Finalize(p)

Next ==
  \/ Tick \/ Stop \/ MainStep \/ Rest
  \/ \E r \in Requests : Arrive(r) \/ RequestStep(r) \/ Orphan(r)

Spec == Init /\ [][Next]_vars

\* The threads are scheduled, and a run ends: the door gives each a deadline.
FairSpec ==
  /\ Spec
  /\ WF_vars(MainStep)
  /\ \A r \in Requests : WF_vars(RequestStep(r)) /\ WF_vars(Orphan(r))

-----------------------------------------------------------------------------
(* What makes the door correct. *)

RequestTypes ==
  /\ pc \in [Requests -> Places]
  /\ outcome \in [Requests -> Outcomes]
  /\ pool \in [Requests -> Pools \union {None}]
  /\ worker \in [Requests -> Requests \union {None}]
  /\ stale \in [Requests -> Pools \union {None}]
  /\ doomed \in [Requests -> SUBSET Requests]
  /\ since \in [Requests -> SUBSET Budgets]

PoolTypes ==
  /\ registry \in Seq([budget : Budgets, pool : Pools])
  /\ shut \in [Pools -> BOOLEAN]
  /\ live \in [Pools -> SUBSET Requests] /\ idle \in [Pools -> SUBSET Requests]
  /\ proc \in [Requests -> {"unborn", "waits", "runs", "gone"}]
  /\ late \subseteq Requests

RateTypes ==
  /\ scene \in Scenes /\ now \in Nat
  /\ buckets \in Seq([key : Keys, level : Int, last : Nat])
  /\ clock \in [Requests -> Nat]
  /\ granted \in [Keys -> Nat] /\ first \in [Keys -> Int]
  /\ forgotten \in [Keys -> Nat]

MainTypes ==
  /\ main \in {"open", "stopping", "pools", "checker", "exit", "atexit",
               "leaving", "exited"}
  /\ toClose \subseteq Pools /\ closing \in Pools \union {None}
  /\ detached \subseteq Pools

\* Every variable stays in its type.
TypeOK == RequestTypes /\ PoolTypes /\ RateTypes /\ MainTypes

\* "a burst up to the limit is answered and a steady stream past it is not":
\* in whatever order its requests get the lock, a key has no more let through
\* than a full bucket and what was earned since, for as long as it is
\* remembered; one that was forgotten has had as much for each time.
RateHeld ==
  \A k \in Keys :
    Refill * granted[k] <= Full * (1 + forgotten[k]) + (now - first[k])

\* the requests let through that spent the allowance r spends
LetThrough(r) ==
  {q \in Requests : /\ pc[q] \notin {"new", "asks"} /\ outcome[q] # "limited"
                    /\ ask[q].bearer = ask[r].bearer
                    /\ ask[r].bearer \/ ask[q].from = ask[r].from}

\* "a caller guessing tokens is limited too and cannot spend the holder's
\* allowance": whoever is told to wait had the whole of a bucket let through
\* under its own key, and for the holder those all carried the token - but for
\* what is earned in the time by which one of them read the clock after it.
OwnAllowance ==
  \A r \in Requests : outcome[r] = "limited" =>
    \E q \in LetThrough(r) :
      Refill * (Cardinality(LetThrough(r)) + 1) > Full + (clock[r] - clock[q])

\* A request is turned away by a closed pool, or has its run cut, only when
\* the door is stopping or as many other budgets as the registry keeps were
\* asked for since it was given its pool.
CutByOthersOnly ==
  \A r \in Requests : outcome[r] \in {"closed", "cut"} =>
    main # "open" \/ Cardinality(since[r]) >= Keep

\* "a caller who varies the budget on every request cannot make a server
\* hold processes without end": a pool that is open is one of the Keep in
\* the registry, or somebody is about to close it.
PoolsBounded ==
  /\ Len(registry) <= Keep
  /\ \A p \in Requests : Made(p) /\ ~shut[p] =>
       \/ \E i \in DOMAIN registry : registry[i].pool = p
       \/ \E r \in Requests : pc[r] = "evict" /\ stale[r] = p
       \/ p \in toClose

\* "no worker outlives the door": when the process is gone no worker runs a
\* program, save one of a pool made when the exit handlers had listed theirs,
\* and those of a pool that a request's thread was closing just then.
NothingOutlives ==
  main = "exited" => \A w \in Requests : proc[w] = "runs" =>
    \/ w \in late
    \/ \E r \in Requests : \/ pc[r] = "drain" /\ w \in live[stale[r]]
                           \/ pc[r] = "kill" /\ w \in doomed[r]

\* Whatever is evicted, cut or refused, every request that arrived is
\* answered while the door stands, and a door that is told to stop does.
Settles ==
  []<>(\/ main = "exited"
       \/ main = "open" /\ \A r \in Requests : pc[r] \in {"new", "done"})

=============================================================================
