-------------------------------- MODULE Pool --------------------------------
(***************************************************************************)
(* sabline.Pool (sabline/pool.py): long-lived worker processes that serve  *)
(* one request at a time under one budget, shared by the threads of one    *)
(* parent process.                                                         *)
(*                                                                         *)
(* Every thread step that another thread can come between is an action:    *)
(* the caller of run() or check() (_use), the timer thread of its deadline *)
(* (threading.Timer, _deadline), the thread in close() (_kill_workers),    *)
(* whichever of them is inside _Worker.kill(), and the worker process.     *)
(* What is done while holding Pool._lock or _Worker._kill_lock is one      *)
(* action.                                                                 *)
(*                                                                         *)
(* A call is one run() or check().  _use starts at most one worker, so the *)
(* worker a call starts is named by that call.                             *)
(***************************************************************************)
EXTENDS Naturals, Sequences, FiniteSets

CONSTANTS
  Calls,        \* the calls made on the pool, and the workers they start
  Size,         \* Pool(size=...)
  Capped,       \* is max_memory_mb given?
  Kinds,        \* what is asked of the pool: runs, checks or both
  Uses,         \* the pools to check: [timed : is timeout given?,
                \*   closing : may some thread call close()?]
  None,         \* a slot whose worker starts on first demand
  CLOSED,       \* Pool._CLOSED, what wakes the threads that wait for a slot
  NoSlot,       \* a call that holds no slot
  NoCall        \* no call

ASSUME SizeAssumption == Size \in Nat \ {0}
ASSUME FlagAssumption ==
  Capped \in BOOLEAN /\ Uses \subseteq [timed : BOOLEAN, closing : BOOLEAN]
ASSUME KindsAssumption == Kinds \subseteq {"run", "check"}
ASSUME TokenAssumption ==
  /\ None \notin Calls /\ CLOSED \notin Calls
  /\ NoSlot \notin Calls /\ NoCall \notin Calls
  /\ None # CLOSED /\ None # NoSlot /\ CLOSED # NoSlot
\* closer holds the name of a place or the worker it waits for
ASSUME PlaceAssumption ==
  Calls \cap {"never", "off", "token", "drain", "kill", "done"} = {}

VARIABLES
  free,         \* Pool._free, the queue of slots
  live,         \* Pool._live, the workers close() kills
  closed,       \* Pool._closed
  closer,       \* where the thread in close() is
  toKill,       \* the workers _kill_workers has still to dispose of
  pc,           \* where each call is in _use
  slot,         \* the slot a call holds: None, CLOSED or a worker
  kind,         \* what a call asks of its worker: "run" or "check"
  used,         \* the worker a call asked, kept for its report
  answer,       \* what the call read from the pipe ("none": nothing)
  result,       \* what the call returned or raised
  alarm,        \* the deadline's timer thread of each call
  byTimeout,    \* _Worker.killed_by_timeout
  kill,         \* how far the one kill() of a worker has come
  read,         \* has the parent read this child's return code?
  end,          \* how the child ended ("no": it runs; "unborn": not started)
  job,          \* the call a worker is serving
  pipe,         \* the answers written and not yet read
  dirty         \* workers a run that was not clean happened in (history)

procVars == <<kill, read, end, job, pipe, dirty>>
callVars == <<pc, slot, kind, used, answer, result>>
poolVars == <<free, live, closed, closer, toKill>>
timeVars == <<alarm, byTimeout>>
vars     == <<poolVars, callVars, timeVars, procVars>>

-----------------------------------------------------------------------------
Says    == {"ok", "bad", "crashed"} \union (IF Capped THEN {"oom"} ELSE {})
Results == {"none", "ok", "bad", "E610", "E611", "E000", "closed", "nostart"}
Places  == {"new", "get", "got", "poll", "drop", "dropKill", "dropWait",
            "start", "hello", "register", "late", "lateWait", "ask", "send",
            "read", "cancel", "forget", "forgetKill", "forgetWait",
            "release", "report", "done"}

Running(w) == end[w] = "no"
Gone(w)    == end[w] \notin {"unborn", "no"}

\* Queue.put and Queue.get on Pool._free
Put(s) == free' = Append(free, s)

Goto(c, to) == pc' = [pc EXCEPT ![c] = to]
Step(c, from, to) == pc[c] = from /\ Goto(c, to)

Init ==
  /\ free = [i \in 1..Size |-> None]
  /\ live = {} /\ closed = FALSE /\ toKill = {}
  /\ \E use \in Uses :
       /\ closer = IF use.closing THEN "off" ELSE "never"
       /\ alarm = [c \in Calls |-> IF use.timed THEN "off" ELSE "none"]
  /\ pc = [c \in Calls |-> "new"]
  /\ slot = [c \in Calls |-> NoSlot]
  /\ kind \in [Calls -> Kinds]
  /\ used = [c \in Calls |-> NoCall]
  /\ answer = [c \in Calls |-> "none"]
  /\ result = [c \in Calls |-> "none"]
  /\ byTimeout = [c \in Calls |-> FALSE]
  /\ kill = [c \in Calls |-> "no"]
  /\ read = [c \in Calls |-> FALSE]
  /\ end = [c \in Calls |-> "unborn"]
  /\ job = [c \in Calls |-> NoCall]
  /\ pipe = [c \in Calls |-> <<>>]
  /\ dirty = {}

-----------------------------------------------------------------------------
(* A call takes a slot. *)

\* _use reads _closed before it waits for a slot, and raises
Begin(c) ==
  /\ pc[c] = "new"
  /\ \/ /\ closed
        /\ result' = [result EXCEPT ![c] = "closed"]
        /\ Goto(c, "done")
     \/ ~closed /\ Goto(c, "get") /\ UNCHANGED result
  /\ UNCHANGED <<poolVars, slot, kind, used, answer, timeVars, procVars>>

Get(c) ==
  /\ Step(c, "get", "got")
  /\ free # <<>>
  /\ slot' = [slot EXCEPT ![c] = Head(free)]
  /\ free' = Tail(free)
  /\ UNCHANGED <<live, closed, closer, toKill, kind, used, answer, result,
                 timeVars, procVars>>

\* for mutation: the waiter that takes the token keeps it
PassOnKeeps(c) ==
  /\ Step(c, "got", "done")
  /\ slot[c] = CLOSED
  /\ slot' = [slot EXCEPT ![c] = NoSlot]
  /\ result' = [result EXCEPT ![c] = "closed"]
  /\ UNCHANGED <<poolVars, kind, used, answer, timeVars, procVars>>

\* the token of close() is left for the next waiter
PassOn(c) ==
  /\ Step(c, "got", "done")
  /\ slot[c] = CLOSED
  /\ Put(CLOSED)
  /\ slot' = [slot EXCEPT ![c] = NoSlot]
  /\ result' = [result EXCEPT ![c] = "closed"]
  /\ UNCHANGED <<live, closed, closer, toKill, kind, used, answer, timeVars,
                 procVars>>

\* _closed is read again once the slot is held; a worker in it is forgotten
Recheck(c) ==
  /\ pc[c] = "got" /\ slot[c] # CLOSED
  /\ \/ /\ closed
        /\ result' = [result EXCEPT ![c] = "closed"]
        /\ Goto(c, IF slot[c] = None THEN "release" ELSE "forget")
     \/ /\ ~closed
        /\ Goto(c, IF slot[c] = None THEN "start" ELSE "poll")
        /\ UNCHANGED result
  /\ UNCHANGED <<poolVars, slot, kind, used, answer, timeVars, procVars>>

\* proc.poll(): a worker that died while it was idle is replaced
Poll(c) ==
  /\ pc[c] = "poll"
  /\ \/ /\ Gone(slot[c])
        /\ read' = [read EXCEPT ![slot[c]] = TRUE]
        /\ Goto(c, "drop")
     \/ ~Gone(slot[c]) /\ Goto(c, "ask") /\ UNCHANGED read
  /\ UNCHANGED <<poolVars, slot, kind, used, answer, result, timeVars, kill,
                 end, job, pipe, dirty>>

-----------------------------------------------------------------------------
(* _forget and _Worker.dispose, by a call. *)

\* _forget takes the worker out of _live under the pool's lock
Discard(c, from, to) ==
  /\ Step(c, from, to)
  /\ live' = live \ {slot[c]}
  /\ UNCHANGED <<free, closed, closer, toKill, slot, kind, used, answer,
                 result, timeVars, procVars>>

\* kill(): the first thread to set `dead` does the killing; any other
\* returns at once, whether or not the child has been killed yet
Claim(w) == kill[w] = "no" /\ kill' = [kill EXCEPT ![w] = "claimed"]

Dispose(c, from, wait, to) ==
  /\ pc[c] = from
  /\ \/ /\ Claim(slot[c]) /\ Goto(c, wait) /\ UNCHANGED slot
     \/ /\ kill[slot[c]] # "no" /\ Goto(c, to)
        /\ slot' = [slot EXCEPT ![c] = None] /\ UNCHANGED kill
  /\ UNCHANGED <<poolVars, kind, used, answer, result, timeVars, read, end,
                 job, pipe, dirty>>

\* the thread that claimed the kill goes on once the child is reaped
Disposed(c, wait, to) ==
  /\ Step(c, wait, to)
  /\ kill[slot[c]] = "reaped"
  /\ slot' = [slot EXCEPT ![c] = None]
  /\ UNCHANGED <<poolVars, kind, used, answer, result, timeVars, procVars>>

Drop(c) == \/ Discard(c, "drop", "dropKill")
           \/ Dispose(c, "dropKill", "dropWait", "start")
           \/ Disposed(c, "dropWait", "start")

Forget(c) == \/ Discard(c, "forget", "forgetKill")
             \/ Dispose(c, "forgetKill", "forgetWait", "release")
             \/ Disposed(c, "forgetWait", "release")

-----------------------------------------------------------------------------
(* _start and the hello of a new worker. *)

Spawn(c) ==
  /\ Step(c, "start", "hello")
  /\ slot' = [slot EXCEPT ![c] = c]
  /\ end' = [end EXCEPT ![c] = "no"]
  /\ UNCHANGED <<poolVars, kind, used, answer, result, timeVars, kill, read,
                 job, pipe, dirty>>

HelloOk(c) ==
  /\ Step(c, "hello", "register")
  /\ UNCHANGED <<poolVars, slot, kind, used, answer, result, timeVars,
                 procVars>>

\* for mutation: _start raises past the `finally` that gives the slot back
HelloFailLosesSlot(c) ==
  /\ Step(c, "hello", "done")
  /\ end' = [end EXCEPT ![c] = "crash"]
  /\ kill' = [kill EXCEPT ![c] = "reaped"]
  /\ read' = [read EXCEPT ![c] = TRUE]
  /\ slot' = [slot EXCEPT ![c] = NoSlot]
  /\ result' = [result EXCEPT ![c] = "nostart"]
  /\ UNCHANGED <<poolVars, kind, used, answer, timeVars, job, pipe, dirty>>

\* a worker that does not say it is ready is disposed of by _Worker's
\* constructor, before any other thread knows it, and _start raises
HelloFail(c) ==
  /\ Step(c, "hello", "release")
  /\ end' = [end EXCEPT ![c] = "crash"]
  /\ kill' = [kill EXCEPT ![c] = "reaped"]
  /\ read' = [read EXCEPT ![c] = TRUE]
  /\ slot' = [slot EXCEPT ![c] = None]
  /\ result' = [result EXCEPT ![c] = "nostart"]
  /\ UNCHANGED <<poolVars, kind, used, answer, timeVars, job, pipe, dirty>>

\* for mutation: _closed is not read again under the lock
RegisterAnyway(c) ==
  /\ Step(c, "register", "ask")
  /\ live' = live \union {slot[c]}
  /\ UNCHANGED <<free, closed, closer, toKill, slot, kind, used, answer,
                 result, timeVars, procVars>>

\* under the pool's lock: a worker added after close() drained _live would
\* outlive the pool
Register(c) ==
  /\ pc[c] = "register"
  /\ \/ /\ closed
        /\ result' = [result EXCEPT ![c] = "closed"]
        /\ Goto(c, "late") /\ UNCHANGED live
     \/ /\ ~closed
        /\ live' = live \union {slot[c]}
        /\ Goto(c, "ask") /\ UNCHANGED result
  /\ UNCHANGED <<free, closed, closer, toKill, slot, kind, used, answer,
                 timeVars, procVars>>

Late(c) == \/ Dispose(c, "late", "lateWait", "release")
           \/ Disposed(c, "lateWait", "release")

-----------------------------------------------------------------------------
(* _Worker.ask, then the end of _use and of run() or check(). *)

Ask(c) ==
  /\ Step(c, "ask", "send")
  /\ byTimeout' = [byTimeout EXCEPT ![slot[c]] = FALSE]
  /\ alarm' = [alarm EXCEPT ![c] = IF @ = "off" THEN "armed" ELSE @]
  /\ used' = [used EXCEPT ![c] = slot[c]]
  /\ UNCHANGED <<poolVars, slot, kind, answer, result, procVars>>

\* close() has disposed of this worker, so its pipes are closed
Shut(w) == w \notin live /\ w \notin toKill

Send(c) ==
  /\ pc[c] = "send"
  /\ IF Gone(slot[c]) \/ Shut(slot[c])
       THEN Goto(c, "cancel") /\ UNCHANGED job
       ELSE Goto(c, "read") /\ job' = [job EXCEPT ![slot[c]] = c]
  /\ UNCHANGED <<poolVars, slot, kind, used, answer, result, timeVars, kill,
                 read, end, pipe, dirty>>

\* an answer, or None when the pipe is at its end or closed
Read(c) ==
  LET w == slot[c] IN
  /\ Step(c, "read", "cancel")
  /\ \/ /\ ~Shut(w) /\ pipe[w] # <<>>
        /\ answer' = [answer EXCEPT ![c] = Head(pipe[w])]
        /\ pipe' = [pipe EXCEPT ![w] = Tail(pipe[w])]
     \/ /\ Shut(w) \/ (Gone(w) /\ pipe[w] = <<>>)
        /\ UNCHANGED <<answer, pipe>>
  /\ UNCHANGED <<poolVars, slot, kind, used, result, timeVars, kill, read,
                 end, job, dirty>>

\* for mutation: any answer keeps the worker
KeepIfAnswered(c) == answer[c] # "none"

\* keep_if: run() keeps a worker that answered ok, check() any that answered
KeepIf(c) == answer[c] = "ok" \/ (kind[c] = "check" /\ answer[c] = "bad")

\* for mutation: a worker goes back as soon as it answered, and once more
CancelPuts(c) ==
  /\ Step(c, "cancel", IF KeepIf(c) THEN "release" ELSE "forget")
  /\ alarm' = [alarm EXCEPT ![c] = IF @ = "armed" THEN "cancelled" ELSE @]
  /\ IF KeepIf(c) THEN Put(slot[c]) ELSE UNCHANGED free
  /\ UNCHANGED <<live, closed, closer, toKill, slot, kind, used, answer,
                 result, byTimeout, procVars>>

\* alarm.cancel() stops a timer that has not fired, and waits for no other
Cancel(c) ==
  /\ Step(c, "cancel", IF KeepIf(c) THEN "release" ELSE "forget")
  /\ alarm' = [alarm EXCEPT ![c] = IF @ = "armed" THEN "cancelled" ELSE @]
  /\ UNCHANGED <<poolVars, slot, kind, used, answer, result, byTimeout,
                 procVars>>

\* the slot comes back either way, or the pool shrinks
Release(c) ==
  /\ Step(c, "release", IF result[c] = "none" THEN "report" ELSE "done")
  /\ Put(slot[c])
  /\ slot' = [slot EXCEPT ![c] = NoSlot]
  /\ UNCHANGED <<live, closed, closer, toKill, kind, used, answer, result,
                 timeVars, procVars>>

\* _starved: it answered so, its stderr says so, or its return code is -9
\* and the deadline was not what killed it
Starved(c) ==
  LET w == used[c] IN
  /\ Capped
  /\ \/ answer[c] = "oom"
     \/ end[w] = "oomSaid"
     \/ ~byTimeout[w] /\ read[w] /\ end[w] \in {"sigkill", "oomSilent"}

\* for mutation: the memory cap is looked at before the clock
LimitMemoryFirst(c) == CASE Starved(c) -> "E611"
                         [] ~Starved(c) /\ byTimeout[used[c]] -> "E610"
                         [] OTHER -> "E000"

\* _no_answer and _stopped: which limit stopped it (E613, E614 of a check
\* are E610, E611 here)
Limit(c) == CASE byTimeout[used[c]] -> "E610"
              [] ~byTimeout[used[c]] /\ Starved(c) -> "E611"
              [] OTHER -> "E000"

Report(c) ==
  /\ Step(c, "report", "done")
  /\ result' = [result EXCEPT ![c] =
                  IF answer[c] \in {"ok", "bad"} THEN answer[c] ELSE Limit(c)]
  /\ UNCHANGED <<poolVars, slot, kind, used, answer, timeVars, procVars>>

-----------------------------------------------------------------------------
(* The deadline: threading.Timer waits, sees it was not cancelled, and runs  *)
(* _deadline, which knows the worker and not the call.                       *)

AlarmFire(c) ==
  /\ alarm[c] = "armed"
  /\ alarm' = [alarm EXCEPT ![c] = "fired"]
  /\ UNCHANGED <<poolVars, callVars, byTimeout, procVars>>

AlarmFlag(c) ==
  /\ alarm[c] = "fired"
  /\ byTimeout' = [byTimeout EXCEPT ![used[c]] = TRUE]
  /\ alarm' = [alarm EXCEPT ![c] = "flagged"]
  /\ UNCHANGED <<poolVars, callVars, procVars>>

\* for mutation: the deadline asks, and does not kill
AlarmSpares(c) ==
  /\ alarm[c] = "flagged"
  /\ alarm' = [alarm EXCEPT ![c] = "spent"]
  /\ UNCHANGED <<poolVars, callVars, byTimeout, procVars>>

AlarmKill(c) ==
  /\ alarm[c] = "flagged"
  /\ alarm' = [alarm EXCEPT ![c] = "spent"]
  /\ IF kill[used[c]] = "no" THEN Claim(used[c]) ELSE UNCHANGED kill
  /\ UNCHANGED <<poolVars, callVars, byTimeout, read, end, job, pipe, dirty>>

(* Inside kill(), whichever thread claimed it. *)

\* job.close() or proc.kill(): SIGKILL, when there is a process to receive it
KillSignal(w) ==
  /\ kill[w] = "claimed"
  /\ kill' = [kill EXCEPT ![w] = "signalled"]
  /\ end' = [end EXCEPT ![w] = IF @ = "no" THEN "sigkill" ELSE @]
  /\ UNCHANGED <<poolVars, callVars, timeVars, read, job, pipe, dirty>>

\* proc.wait() learns the return code
KillReap(w) ==
  /\ kill[w] = "signalled"
  /\ kill' = [kill EXCEPT ![w] = "reaped"]
  /\ read' = [read EXCEPT ![w] = TRUE]
  /\ UNCHANGED <<poolVars, callVars, timeVars, end, job, pipe, dirty>>

-----------------------------------------------------------------------------
(* The worker process: it serves the request it read, or dies. *)

Serving(w) == Running(w) /\ job[w] # NoCall

\* pool_worker answers, and what it ran was not clean unless it says so
Answer(w, a) ==
  /\ Serving(w)
  /\ pipe' = [pipe EXCEPT ![w] = Append(@, a)]
  /\ job' = [job EXCEPT ![w] = NoCall]
  /\ dirty' = IF a = "ok" \/ (a = "bad" /\ kind[job[w]] = "check")
                THEN dirty ELSE dirty \union {w}
  /\ UNCHANGED <<poolVars, callVars, timeVars, kill, read, end>>

Die(w, how) ==
  /\ end' = [end EXCEPT ![w] = how]
  /\ UNCHANGED <<poolVars, callVars, timeVars, kill, read, job, pipe, dirty>>

\* a program at the cap stops without an answer, its stderr saying why or not
OutOfMemory(w) == /\ Capped /\ Serving(w)
                  /\ \E how \in {"oomSaid", "oomSilent"} : Die(w, how)

\* a fault of the process, at work or idle in the queue
Crash(w) == Running(w) /\ w \in live /\ Die(w, "crash")

-----------------------------------------------------------------------------
(* close(), by the one thread that finds _closed false. *)

CloseSet ==
  /\ closer = "off"
  /\ closer' = "token" /\ closed' = TRUE
  /\ UNCHANGED <<free, live, toKill, callVars, timeVars, procVars>>

ClosePut ==
  /\ closer = "token"
  /\ Put(CLOSED) /\ closer' = "drain"
  /\ UNCHANGED <<live, closed, toKill, callVars, timeVars, procVars>>

\* for mutation: only the workers in the queue are killed
CloseDrainIdle ==
  /\ closer = "drain"
  /\ toKill' = live \ {slot[c] : c \in Calls} /\ live' = live \ toKill'
  /\ closer' = "kill"
  /\ UNCHANGED <<free, closed, callVars, timeVars, procVars>>

\* _kill_workers, under the pool's lock
CloseDrain ==
  /\ closer = "drain"
  /\ toKill' = live /\ live' = {} /\ closer' = "kill"
  /\ UNCHANGED <<free, closed, callVars, timeVars, procVars>>

\* dispose() of each: wait for the kill this thread claimed, or pass on
CloseKill(w) ==
  /\ closer = "kill" /\ w \in toKill
  /\ IF kill[w] = "no" THEN Claim(w) /\ closer' = w /\ UNCHANGED toKill
       ELSE toKill' = toKill \ {w} /\ UNCHANGED <<kill, closer>>
  /\ UNCHANGED <<free, live, closed, callVars, timeVars, read, end, job, pipe,
                 dirty>>

CloseKilled(w) ==
  /\ closer = w /\ kill[w] = "reaped"
  /\ toKill' = toKill \ {w} /\ closer' = "kill"
  /\ UNCHANGED <<free, live, closed, callVars, timeVars, procVars>>

CloseDone ==
  /\ closer = "kill" /\ toKill = {} /\ closer' = "done"
  /\ UNCHANGED <<free, live, closed, toKill, callVars, timeVars, procVars>>

-----------------------------------------------------------------------------
CallStep(c) ==
  \/ Get(c) \/ PassOn(c) \/ Recheck(c) \/ Poll(c) \/ Drop(c) \/ Spawn(c)
  \/ HelloOk(c) \/ HelloFail(c) \/ Register(c) \/ Late(c) \/ Ask(c) \/ Send(c)
  \/ Read(c) \/ Cancel(c) \/ Forget(c) \/ Release(c) \/ Report(c)

DeadlineStep(c) == AlarmFlag(c) \/ AlarmKill(c)

KillStep(w) == KillSignal(w) \/ KillReap(w)

CloserStep == \/ ClosePut \/ CloseDrain \/ CloseDone
              \/ \E w \in Calls : CloseKill(w) \/ CloseKilled(w)

WorkerStep(w) == (\E a \in Says : Answer(w, a)) \/ OutOfMemory(w) \/ Crash(w)

\* every call has returned, and the pool is closed if anyone closes it
Finished == /\ closer \in {"never", "done"} /\ \A c \in Calls : pc[c] = "done"
            /\ UNCHANGED vars

Next ==
  \/ \E c \in Calls : \/ Begin(c) \/ CallStep(c)
                      \/ AlarmFire(c) \/ DeadlineStep(c)
                      \/ KillStep(c) \/ WorkerStep(c)
  \/ CloseSet \/ CloserStep \/ Finished

\* The threads of the parent run, a child it starts says it is ready or that
\* it cannot start, and a deadline passes.  No program need answer, nobody
\* need close the pool, and nothing need fail.
Fairness ==
  /\ \A c \in Calls : /\ WF_vars(CallStep(c))
                      /\ WF_vars(AlarmFire(c)) /\ WF_vars(DeadlineStep(c))
                      /\ WF_vars(KillStep(c))
  /\ WF_vars(CloserStep)

Spec     == Init /\ [][Next]_vars
FairSpec == Spec /\ Fairness

-----------------------------------------------------------------------------
(* What makes the pool correct. *)

Slots  == Calls \union {None, CLOSED}

Alarms == {"none", "off", "armed", "fired", "flagged", "spent", "cancelled"}
Ends   == {"unborn", "no", "sigkill", "crash", "oomSaid", "oomSilent"}

PoolTypes ==
  /\ free \in Seq(Slots) /\ live \subseteq Calls /\ toKill \subseteq Calls
  /\ closed \in BOOLEAN
  /\ closer \in {"never", "off", "token", "drain", "kill", "done"} \union Calls

CallTypes ==
  /\ pc \in [Calls -> Places]
  /\ slot \in [Calls -> Slots \union {NoSlot}]
  /\ kind \in [Calls -> Kinds]
  /\ used \in [Calls -> Calls \union {NoCall}]
  /\ answer \in [Calls -> Says \union {"none"}]
  /\ result \in [Calls -> Results]

TimeTypes == alarm \in [Calls -> Alarms] /\ byTimeout \in [Calls -> BOOLEAN]

ProcTypes ==
  /\ kill \in [Calls -> {"no", "claimed", "signalled", "reaped"}]
  /\ read \in [Calls -> BOOLEAN]
  /\ end \in [Calls -> Ends]
  /\ job \in [Calls -> Calls \union {NoCall}]
  /\ pipe \in [Calls -> Seq(Says)]
  /\ dirty \subseteq Calls

\* Every variable stays in its type: the slots of the queue, the places of
\* the threads and the states of the child processes are the code's.
TypeOK == PoolTypes /\ CallTypes /\ TimeTypes /\ ProcTypes

Holders  == {c \in Calls : slot[c] \notin {NoSlot, CLOSED}}
Queued(s) == {i \in DOMAIN free : free[i] = s}

\* "the slot comes back either way, or the pool shrinks": whatever fails,
\* the slots in the queue and the slots calls hold are Size together, and
\* close() leaves exactly one token for whoever waits.
SlotsConserved ==
  /\ Cardinality({i \in DOMAIN free : free[i] # CLOSED})
       + Cardinality(Holders) = Size
  /\ Cardinality(Queued(CLOSED))
       + Cardinality({c \in Calls : slot[c] = CLOSED})
       = IF closer \in {"never", "off", "token"} THEN 0 ELSE 1

\* "each call takes an idle worker": no worker is held by two calls, held
\* and queued, or queued twice, so one process serves one program at a time.
HeldOnce ==
  /\ \A c, d \in Calls : slot[c] = slot[d] /\ slot[c] \in Calls => c = d
  /\ \A i, j \in DOMAIN free : free[i] = free[j] /\ free[i] \in Calls => i = j
  /\ \A i \in DOMAIN free, c \in Calls : slot[c] = free[i] => free[i] = None
                                                          \/ free[i] = CLOSED

\* "a worker is used once unless the run was clean": a worker in which
\* anything else happened is never handed to another call.
UsedOnceUnlessClean ==
  \A w \in dirty : /\ Queued(w) = {}
                   /\ \A c \in Calls : slot[c] = w =>
                        pc[c] \in {"read", "cancel", "forget", "forgetKill",
                                   "forgetWait"}

\* No failed start, cut run or lost race leaves a process nobody will stop.
\* Every child that runs, and that nobody is killing, is one the queue or a
\* call still holds, so there are Size of them at most; and once close() has
\* returned ("the one thing close() promises it will not leave behind") it is
\* one of a call that was starting it, and will see that it is too late, or
\* had just taken it out of _live to dispose of it.
NoProcessLeft ==
  LET kept == {w \in Calls : Running(w) /\ kill[w] = "no"} IN
  /\ \A w \in kept : Queued(w) # {} \/ \E c \in Calls : slot[c] = w
  /\ Cardinality(kept) <= Size
  /\ closer = "done" =>
       \A w \in kept : \E c \in Calls :
         /\ slot[c] = w
         /\ pc[c] \in {"hello", "register", "late", "dropKill", "forgetKill"}

\* A call whose own deadline had it killed is reported as out of time, or
\* as what it answered before that, whatever else killed or starved it.
OwnDeadlineIsE610 ==
  [][\A c \in Calls :
       pc[c] = "report" /\ pc'[c] = "done" /\ alarm[c] \in {"flagged", "spent"}
         => result'[c] \in {"ok", "bad", "E610"}]_vars

\* No caller waits forever, and no child is left for good.  Under a timeout
\* every call that got into the queue returns: it blocks while no worker is
\* free, and whoever holds one is cut at its deadline.  close() wakes every
\* call that waits and cuts every call that runs, with no timeout needed, and
\* in the end no child process runs.
CallsEnd ==
  /\ \A c \in Calls : pc[c] = "get" /\ alarm[c] # "none" ~> pc[c] = "done"
  /\ closed ~> \A c \in Calls : pc[c] \in {"new", "done"}
  /\ closed ~> [](\A w \in Calls : ~Running(w))

-----------------------------------------------------------------------------
(* What the pool promises its callers. *)

\* where a call is, and the worker it is served by, as the promise knows it
Stage == [c \in Calls |-> IF c \in Holders THEN "serving"
                          ELSE IF pc[c] \in {"new", "get", "got"} THEN "waiting"
                          ELSE "left"]
Server == [c \in Calls |-> IF slot[c] \in Calls THEN slot[c] ELSE NoCall]
Fit    == {w \in Calls : Queued(w) # {}}
Begun  == {w \in Calls : end[w] # "unborn"}

Promise == INSTANCE PoolPromise WITH
  Workers <- Calls, stage <- Stage, worker <- Server, fit <- Fit,
  started <- Begun, spoiled <- dirty

\* The pool implements that promise: at most Size calls are served, each by
\* a worker of its own, which serves another only while nothing spoiled it.
KeepsPromise == Promise!Spec

=============================================================================
