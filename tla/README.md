# Verification of Sabline

Sabline is a small language whose programs declare what they may do, and a
Python implementation (`src/sabline/`) that checks the declaration and runs the
program under a budget an operator grants. This directory holds TLA+ modules
translated from that implementation, the TLC configurations that check them,
and proofs that TLAPS checks. Line numbers and quotations refer to the
repository. The rules of translation were: control is kept whole (every state
change, guard, early return and error path, in order), data is kept as far as
the properties tell it apart, and a property is there because a test would
hardly reach what it speaks of.

Contents:
[1. Inventory](#1-inventory) - [2. Plan](#2-plan) - [3. Modules](#3-modules) -
[4. Runs](#4-runs) - [5. Fairness](#5-fairness) - [6. Proofs](#6-proofs) -
[7. Disagreements](#7-disagreements) - [8. Not modelled](#8-not-modelled)

## 1. Inventory

How a program comes to run: `loader` gathers the file and its imports, `lexer`
and `parser` make the tree, `effects`, `checker`, `termination` and `prover`
check it, `runtime` interprets it (with `native` for numeric functions) and
calls `budget` before everything the outside can see. That is a *run*. Around
it: `pool` keeps processes that make runs, `evaluation` is one run under the
strictest profile, `doors` and `sabline_mcp` offer runs over HTTP and MCP,
`through_rt` hands a run to a second runtime, `tools` lets a run call its
host, and `recorder`/`receipts` write down what it did.

| Component (source) | State it keeps | Operations | Interacts with | Hard behaviours | What makes it correct |
|---|---|---|---|---|---|
| **Pool** (`pool.py`: `Pool`, `_Worker`) | slot queue `_free`, `_live`, `_closed`; of a worker its process, pipe, `killed_by_timeout`, `_kill_lock` | `run`, `check`, `audit` (all `_use`), `_deadline`, `kill`, `dispose`, `close`, the finalizer | threads of the caller, timer threads, child processes | callers, deadlines, killers and the closer at the same worker; a worker that dies at any step; slots lost on an error path | each slot comes back once; one holder per worker; only clean workers are reused; every call returns; close leaves no process; the limit reported is the limit hit |
| **Pool worker** (`pool_worker`, `reset_program_state`, `_host_relays`) | module-level state of the process, where its loop is, two pipes | read a request, check, run, relay a call, reset, confine, end | parent process | pipes that fall out of step; state of one program seen by the next; an orphan | an answer is of its request; what is said of the confinement is so; a reused worker starts empty; an orphan ends and leaves nothing |
| **Pool registry** (`PoolRegistry`) | one pool per budget, in order of use | `pool`, `close` | doors | eviction of a pool in use; use after close | a run is cut only when other budgets have taken its pool's place |
| **Budget** (`budget.py`) | grants per level, counts, uses, the installed budget | `parse`, `spec`, `gap`, `deny`, `install`, `allow_path`, `host_refusal`, `count_op`, `spend` | runtime, ceiling, every child process | order and repetition of grants; comparing two budgets; counts at their limit | the same budget from the same grants; nothing past budget or ceiling; text survives the trip |
| **Organisation ceiling** (`ceiling.py`) | the ceiling file | read, `hold` | budget, command line | a file that cannot be read | held before anything runs; unreadable means refused |
| **Eval profile** (`evaluation.py`) | `_Stopper` (asked, killed, lock), the stop file, the receipt | `_eval`, signals, `_watch`, `kill_running`, `_write_atomically`, delivery | pool, signals, the file system | stop, grace, deadline and end of the run race; signals inside handlers; a kill of eval, a stop of the machine | a receipt always, whole, that says what ended the run |
| **Tool session** (`tools.py`) | manifest, counts, cost, call ids | `call`, read replies, ceilings | host process over pipes, budget | late, early and missing answers; cost added after the check | an answer is of its call; counts and cost within the ceiling |
| **sabline-rt host** (`through_rt.py`) | the process, its stop reason, its clock | start, relay, deadline, caps, read the end | pool worker, Rust runtime | the deadline after the end; a full stderr pipe | the end reported is the end that came |
| **Doors** (`doors.py`, `sabline_mcp.py`) | token, buckets of `_RateLimit`, ceilings, registry, log | authorise, limit, run, shut down | registry, budget | concurrent requests; eviction; shutdown under load | no caller past its rate, nor at another's cost; no pools without end; nothing outlives the door |
| **Effect check** (`effects.py`) | names of a function | `walk`, `walk_pure`, `calls_a_value` | type check, interpreter | a name that is a built-in here and a local there | an accepted function does only what it declares |
| **Types and secrets** (`checker.py`) | one environment per function | `infer`, `check_stmt`, captures | effect check, interpreter | branches, loops, rebinding; function values | what can fail is handled; no Secret reaches an effect |
| **Interpreter** (`runtime.py`) | names of each call, depth, signals | `call_function`, `run`, `eval_`, `call` | budget, tools, native code | failures through function values; deep recursion | the two above, at run time |
| **Termination, prover, native** (`termination.py`, `prover.py`, `native.py`) | none across programs | analyse, prove, compile | checker, runtime | two semantics of one language | what is proved of a program is true of its run |
| **Capability ratchet** (`ratchet.py`, `migrate.py`, `permissions.py`) | baseline files | compare, accept | audit | missing, unknown and bounded counts | anything wider is told |
| **Records** (`recorder.py`, `receipts.py`, `replay.py`, ...) | streamed entries, receipts | stream, merge, diff, replay | eval, pool | a run killed in the middle of an entry, a pipe closed with entries on it | a receipt never claims what did not happen |
| **Loader and projects** (`loader.py`, `project.py`) | vendored libraries, manifest, lock | resolve, add, verify | file system | a stop between three files | the lock matches what is there |
| **Contract witnesses** (`witnesses.py`) | a stop file and its timer | try arguments | interpreter | a late timer | a call is stopped for its own time |
| **Parser and formats**, **command line**, **Rust runtime**, **benchmarks and site** | none | - | - | - | see [section 8](#8-not-modelled) |

The hazards of this code, each at its line, are in `PROJECT.json`; the
properties below were written for them.

## 2. Plan

The order is by how much depends on a part and how little a test can say of it.

1. **Pool**, with the abstract `PoolPromise`. Every run a service makes goes
   through it, and it is threads, timers and processes.
2. **PoolWorker**: the other end of its pipe.
3. **Eval**, which EXTENDS `Pool` with the main thread, signals and the receipt.
4. **Budget**: what a run may do, sequential, and hard at its comparisons.
5. **Checker** and **Interp**: the effect and secret checks against a run, for
   calls, function values, failures and secrets, proved sound.
6. **Door**: `serve` with `PoolRegistry`, `_RateLimit`, shutdown and the exit
   handlers. A pool is its places and workers there, and the steps inside one
   are `Pool`'s.
7. **Tools**, **RtRun** and **Recorder**, composed by **Relay**: the tool
   protocol, the run through sabline-rt, what a run streams for its receipt.
8. **Loops**: what is said of loops and of operation counts before a run, and
   the run; **Parse**, which makes its programs from how they are written.

All of these are done. What is left to model is in [section 8](#8-not-modelled).

Theorems: every safety invariant that a passing run checks is proved for every
value of the constants ([section 6](#6-proofs)), `Loops`' `BoundHeld` under a
condition on the program that `loops_hidden` shows it needs; and so is the
refinement of `PoolPromise`, with what follows from it. *Next*: the action
properties that follow from the invariants already there (a budget is not changed
once its run has begun, a receipt once replaced is not written again, a slot
leaves the queue only into a call's hands), each with the run that checks it.

## 3. Modules

`PROJECT.json` maps each definition to its lines. Each module keeps the source's
names where TLA+ allows it, and says in its header what one action is.

**`Pool`** (`pool.py`: `_use`, `_Worker.ask/_deadline/kill/dispose`, `_start`,
`close`, `_no_answer`, `_starved`). One action is what a thread does between two
points where another can come between: a caller's `pc` names the places of
`_use`; `alarm` is the timer thread of its deadline; `kill` is how far the one
`kill()` of a worker has come; `closer` is the thread in `close()`. What is done
under `Pool._lock` or `_kill_lock` is one action. A worker answers, runs out
of memory or crashes at any moment; a program may also never answer. `Uses` is the set of
pools a run considers (with a timeout or not, closed by somebody or not), so
that one run covers several.

**`PoolPromise`** is what `Pool`'s docstring promises with no threads in it:
`Size` places, a worker of one's own, reused only if never spoiled, started
once. `Pool` implements it (`KeepsPromise`) through the mapping at its end:
a call serves while it holds a slot, a worker is fit while it is queued.

**`PoolWorker`** (`pool_worker`, `_host_relays`, `_Worker.ask/relay/dispose`). The
two pipes are sequences; the loop's places are `at`. A worker of one run is
confined before its program's first act there, a statement or a relayed call:
asking the system, saying so and acting are three steps, and the word of it is a
message of its own, which `ask` or `relay` may read. The parent may die at any
step. What a program leaves in the process's names, and the reset, are not
modelled.

**`Eval`** (`evaluation.py`) EXTENDS `Pool` with one call and one slot, and adds
the main thread, the signal handler (which runs on the main thread between any
two of its steps), `_Stopper`'s thread, the stop file, the classification of
the end and the write of the receipt, at any step of which eval may be killed or
the machine may stop.

**`Budget`** (`budget.py`, `ceiling.py`, the grants of `tools.py`). A budget is
written grant by grant, parsed, narrowed by `--deny`, held to a ceiling,
installed, and then spent operation by operation; what was written, and not
denied, is kept beside it for the properties. A value that may be `None`
is a set of at most one member. Paths are a partial order with credential
roots; hosts are a label and a domain; a tool call is the tool and the
constraints its arguments meet.

**`Checker`** (`effects.py`, the calls and names of `checker.py`, capture in
`parser.py`) and **`Interp`** (`runtime.py`). A program is functions, each a
signature and a list of statements with jumps for branches and loops. `Checker`
is the checks as predicates on a program; `ValueLocals` is a recursive
*function*, so that the module can be proved about. `Interp` runs an accepted
program: a stack of calls, each with the one dictionary `call_function` gives
it. A branch goes either way, the budget may refuse any built-in, any fallible
built-in may fail. A value is "secret" as a matter of record: the run does not
know, the properties do. `requires` and loop invariants are `promise`
statements (the first before the call counts towards the depth, as in the
code).

**`Door`** (`doors.py` serve, `_RateLimit`; `pool.py` `PoolRegistry`,
`_close_pools_at_exit`). A request's thread goes from the bucket of its caller
to a pool of its budget, to a place and a worker in it, while other requests
evict that pool; the main thread stops, closes the registry, then the checker,
returns, and runs the exit handlers over the pools there were when they began.
What is done under one lock is one action; closing a pool is two (emptying it,
then killing what was taken), as in `_kill_workers`. The limiter reads its clock
before it takes its lock (doors.py:133-134), which are two steps, `Arrive` and
`Admit`: requests may spend in another order than they read it. A bucket's level
is counted in ticks, `Refill` of which earn one request, and may fall below zero.

**`Tools`** (`tools.py` `ToolSession`): the checks of a call in order, its count
and note before it is written, the reader's queue, the id a reply must have, the
cost a reply adds, and a host that may write any line at any time, or go away.
The run's output travels the same pipe through `_EventStream`.

**`RtRun`** (`through_rt.py` `run`, `pool.py` `_run_through_rt` and `relay`, the
two threads of `sabline-rt.rs` `exec`): the program's frames on a channel, the
thread that writes them, the caller that reads them, and the deadline's thread,
which looks whether the process is alive, sets its flag, which the caller reads
without the thread's lock, kills it, and calls `on_kill`: each a step. A worker serves one run after another, so what one run's clock does late reaches
the next.

**`Recorder`** (`recorder.py`, `pool.py` `_receipt`, `dispose`): counts by place,
streamed the first time and every `STREAM_EVERY` times after, counting and
writing being two steps; a worker that gives up streaming after a failed write; a
pool that is closed, or evicted, under the call that reads the pipe, with what is
on it; and a receipt made from the answer or from what was read.

**`Relay`** composes the three in the four ways a call leaves a run: from this
process, from sabline-rt for the command line, from sabline-rt through a pool's
worker, and the worker's stream. `way` says which one a behaviour is.

**`Loops`** (`termination.py`, `ratchet.py` `_turns`, `_operation_bounds`,
`_as_count`, `_count_exceeds`, `runtime.py` `run` and `call_function`). A program's
statements are numbered, each with the numbers of the first statement of its two
arms (or its body) and of the statement after it, all less than its own; so the
analyses, which walk a tree in the code, are recursive functions on numbers.
`Moves` and `Along` are `_steps_along_paths`, `Terminates` and `BoundedByInput` the
two verdicts of `loop_termination`, `Turns` is `_turns`, `Inner`, `After` and
`Performed` are `st`, `Block` is `block` and `Bounds` is `of`. An expression is a
number, a name, a length, a list, one item more, a line that is read, or one sum or
difference of two such. `Init` picks a program and says what is said of it; the
steps run it, and an operation or a condition may answer either way. A call on the
stack has the blocks it has still to run, the innermost last, and its environment:
a statement's action moves its own block on and may push an arm, `EndBlock` is the
end of an arm or of a turn, `Leave` a return or the end of a body. Bounds are
Python's numbers with its infinity and its nan.

**`Parse`** has the statements as they are written, with the `for` of `parser.py`
as the `let` and `while` that the parser makes of it, and numbers them (`Parsed`).

**`MCPool`, `MCEval`, `MCBudget`, `MCInterp`, `MCDoor`, `MCRelay`, `MCLoops`** give
the constants values. **`PoolProofs`** (with the refinement of `PoolPromise`),
**`PoolWorkerProofs`**, **`EvalProofs`** (which extends `PoolProofs`),
**`BudgetProofs`**, **`InterpProofs`**, **`DoorProofs`**, **`RelayProofs`** (for
`Tools`, `RtRun` and `Recorder` as `Relay` composes them) and **`LoopsProofs`** hold
the theorems.

## 4. Runs

| Run | Shows | Bounds, and why they are enough |
|---|---|---|
| `pool_safety` | a spoiled worker is never reused; at most `Size` processes nobody is killing, none left after `close()`; a call whose deadline fired is told E610 | two calls, one slot, timeout, cap and closer. Each race in the hazard list is between one call and a timer, a closer, or the next call on the same worker; the second call is that next one. Runs and checks both, for they differ in what is kept |
| `pool_two` | slots and the closing token are conserved, one holder per worker, `Pool` implements `PoolPromise` | three calls, two slots: a queue with two workers in it and a caller behind both |
| `pool_live` | calls return under a timeout; `close()` alone ends calls and processes | two calls, one slot, without symmetry |
| `worker_serves` | pipes in step, what the parent is told of the confinement, answers, orphans, and the directory they leave | three requests of one worker, two relayed calls in a run, and a confinement at its start, at the program's first act or not at all: a message left over by one request, or one call, is met by the next |
| `eval_runs` | what the receipt says, that it is whole wherever eval is killed, that nothing is left, that eval exits | one call and slot (the profile's), one signal and the stop file |
| `budget_holds` | meaning independent of order, text round trip, ceiling, counts, nothing but what was written | any four of the grants for meaning and text; two grants on each side, which is one to be inside and one to widen; operations one past the largest count |
| `interp_sound` | under `Settled`: effects declared, promises pure, failures caught, secrets kept, and no run stuck | every `f` of two of about forty statements, plain, under an `if`, or in a loop, with eight signatures; functions that print, fail, hand back a function value or nothing; depth 4. Each clause of the checks is decided by one earlier statement and one later |
| `interp_hidden` (violation) | a pure function prints | the same programs, names not settled |
| `door_serves` | the limiter's promise and whose allowance is spent, when a run may be cut, how many pools are open, what is left when the process ends, that it all settles | four requests, two pools kept, one place each, two callers remembered. Four scenes: a budget asked for again before a third; one budget more than are kept, and a door that stops; two addresses and the token with room for two of the three, ticks, and a budget past the ceiling; three requests of one address with a rate of two, one of which may read the clock early and spend late |
| `relay` | an answer is of its call; calls and cost keep to the ceiling; output and calls arrive in order; a run its clock killed is told so; what records hold; a run under a deadline ends | two calls, of a cheap and a dear tool, three of cost; two lines of a host chosen from answers in time, early, with and without a cost, secret, an error and no answer at all; two runs on one worker, so that a late clock meets a next run; four frames; eight notes, streamed every third |
| `loops_hold` | loops shown to end do, within the operations the ratchet reckons | 3088 programs: a counter up or down to a number, a name or a length, with any two of nine statements in the body; lines that are read with flags, three statements; calls, recursion and lists. Each rule of the two analyses is decided by one statement before a loop and two in it |
| `loops_hidden` (violation) | a bound below what the function does | two programs of one shape |

`Settled` is the condition under which the checks are right, and it is part of
what `interp_sound` says: a name has one type in a function, no local that holds
a function has the name of anything callable, and no local that is read has the
name of a function. `interp_hidden` shows that the half about names is needed
(for the other see [section 7](#7-disagreements)); a program can be held to
`Settled` by eye.

Passing runs check deadlock, and a system that comes to rest does so in an
explicit step (`Finished`, `Rest`, `Exited`); `relay` and `loops_hold` do not, for
a run whose host is silent, or that is over, really stops. Type invariants are in
each module for its reader and its proofs; no run checks them alone.

Bounds, by name: `Calls`, `Size`, `Uses`, `Kinds` (Pool); `MaxRequests`,
`MaxCalls` (PoolWorker); `MaxSignals` (Eval); `Requests`, `Keep`, `Remember`,
`Refill` (Door, where the code has 8, 4096 and 60 seconds over the limit); `MaxLines`,
`MaxPrints` (Tools; `MaxCalls` and `MaxCost` are the manifest's); `Turns`, `MaxFrames`
(RtRun); `MaxNotes` (Recorder; `Every` is 1000 in the code); `MaxLines`, `MaxInt`,
`MaxOps` (Loops, where a run past one of the last two goes no further, and so
counts as one that does not end); `MaxItems`, `MaxOps`, `Items`
(Budget) with `Small` in `MCBudget`; `Programs` and `Depth` (Interp; the code's
`DEPTH_LIMIT` is 2000, and only its being reached matters). Symmetry over
`Calls` is used only where no liveness is checked.

## 5. Fairness

Weak fairness on the threads of the parent process and on what a kill
leads to: the operating system schedules threads, and a killed child is
reaped. In `Pool` a child that is started says that it is ready or ends, and a
deadline passes. No program need ever answer, nobody need close a pool, and
nothing need fail: so in `CallsEnd` the first clause rests on the deadline alone
and the others on the closer alone. In `Eval` the grace period passes as well.
In `PoolWorker` programs end and the parent reads what it is told, because its
liveness properties are about the protocol; an orphan whose program never ends
is a hazard with no property, and is listed as one. Fairness on a signal, a crash
or the stop of a machine is never assumed. `Door`'s `FairSpec` schedules the
main thread and the request threads, and its runs end, for the door gives each a
deadline; that requests come, or that it is stopped, is never assumed. `Relay`'s
`Fairness` is on the caller's thread, the deadline's, sabline-rt's writer and the
wait for an answer, which has a timeout; not on the program, the host or the
worker. `Loops`' is on the run's one thread.

## 6. Proofs

Each theorem holds for every value of the constants that satisfies the named
assumptions of its module, which TLC evaluates on every run. They are what the
code gives: `SizeAssumption`, `TokenAssumption` and `PlaceAssumption` (`Pool`: a
size, and names that are not each other's), `OneCallAssumption` (`Eval`: it makes
one call), `WithinAssumption` (`Budget`: paths are a partial order, as to lie under
is), `ItemsAssumption` (what is written is grants, as `parse` takes them),
`ToolAssumption`, `ProgramsAssumption` (`Interp` and `Loops`: programs are as the parser makes
them), `SecretAssumption` (what takes a secret does not fail), `SizesAssumption`,
`AsksAssumption` and `NamesAssumption` (`Door`), `OffersAssumption` and
`LinesAssumption` (`Tools`), `RtAssumption`, `RecorderAssumption`,
`WaysAssumption`, `LoopsAssumption`. The theorems are of `Spec` (`EvalSpec` in `Eval`), and so of
the specification with fairness that the run of the module checks.

| Theorem | Statement | Argument |
|---|---|---|
| `PoolProofs!TypeCorrect` | `Spec => []TypeOK` | `Typed` = `TypeOK` and `SlotPlace`: what a call holds at each place of `_use`. Without it a `Head` of the queue or a worker's field has no type |
| `PoolProofs!WorkerHeldOnce` | `Spec => []HeldOnce` | `Held` adds `Born`: a worker in the queue or in a call's hands was started, and a call that has yet to start one finds its own unborn, so the worker it adds to the queue is new |
| `PoolProofs!UsedOnce` | `Spec => []UsedOnceUnlessClean` | `Quiet` follows a request through the pipe: between two calls a worker serves nothing and its pipe is empty, so the answer a call reads is of its own request, and `KeepIf` judges the run that happened |
| `PoolProofs!SlotsComeBack` | `Spec => []SlotsConserved` | `Conserved`: open slots in the queue and slots in calls' hands are `Size` together, the token in the queue and in hands one from the time it is put; a step does to them one of five things (`SlotMoves`), each a fact of cardinality |
| `PoolProofs!NobodyIsLeft` | `Spec => []NoProcessLeft` | `Tracked`: a process that runs is in `_live`, taken by `close()`, or its own call is about to notice; after the drain nothing enters `_live` |
| `PoolProofs!DeadlineIsE610` | `Spec => OwnDeadlineIsE610` | `Clocked`: a deadline that has passed is marked on its worker until the call reports, unless it was answered |
| `PoolProofs!PoolKeepsPromise` | `Spec => KeepsPromise` | step by step: each action of `Pool`, under the five invariants above and `Quiet`, is one of `PoolPromise` or a stutter under the mapping |
| `PoolProofs!PoolIsIsolated` | `Spec => []Promise!Isolated` | `Kindly`, inductive for the promise's own six steps: who is in hands or waits was started, so one started now is neither. The pool has it by the refinement |
| `PoolWorkerProofs!WorkerTypes` | `Spec => []TypeOK` | `Numbered` and `Piped` below |
| `PoolWorkerProofs!WorkerAnswers` | `Spec => []AnswersItsRequest` | `InTurn`: the six phases the two ends can be in together, each with what both pipes then hold exactly; a step moves from a phase to a phase |
| `PoolWorkerProofs!WorkerConfinedAsTold` | `Spec => []ConfinedAsTold` | `Spoken`: the word that the worker confined itself goes into an empty pipe before anything of the program happens, so whichever of `ask` and `relay` reads first finds it before the answer |
| `PoolWorkerProofs!WorkerLeavesNothing` | `Spec => []LeavesNothing` | `Tidy`: a worker that is gone with its directory there had a parent that died with something under way |
| `EvalProofs!EvalTypes` | `EvalSpec => []EvalTypeOK` | `Typed` of the pool, which every step of eval keeps, being one of the pool's, or leaving it alone, or its own kill |
| `EvalProofs!ReceiptToldRight` | `EvalSpec => []StopTold` | `Stops`: a stop is asked for once, and its file is made by whoever asked; `StoppedLast`: a worker that answered that it stopped serves nothing else |
| `EvalProofs!ReceiptIsOwn` | `EvalSpec => []CompleteIsOwn` | `Ended` and `NotTurned`: a call that is over has the result it was answered, and until eval closes its pool nobody turns it away |
| `EvalProofs!ReceiptIsWhole` | `EvalSpec => []ReceiptWhole` | `Written`: the temporary file is whole before it takes the old one's place, wherever eval is killed; a machine that stops loses what was not synced, and is apart |
| `EvalProofs!EvalLeavesNothing` | `EvalSpec => []NothingLeft` | `Course`: past `close()` the closer is done and the handler over; then `Tracked` of the pool |
| `BudgetProofs!TypeCorrect` | `Spec => []TypeOK` | `Good`, that every level of a parsed budget has at most one count, is kept by each kind of grant |
| `BudgetProofs!HeldToCeiling` | `Spec => []WithinCeiling` | lemma `Inside`: when `Gap(c, a)` is empty, what `a` allows `c` allows - for paths by transitivity of `Within`, for hosts by the pattern, for counts by order - and `Inv`, that a run is installed only with an empty gap |
| `BudgetProofs!CountsHold` | `Spec => []WithinCounts` | `Together`: each call of a tool is counted for the tool and for all tools |
| `BudgetProofs!OnlyWritten` | `Spec => []OnlyAsWritten` | `Meant`, as in the next row, says what the budget means in terms of the grants that were written and not denied; `GrantCovers` finds the one grant that covers an operation by itself, `PatternsMet` the pattern that was met for each argument |
| `BudgetProofs!OrderIsFree` | `Spec => []OrderFree` | `Writes(b, I)`: at every grant each part of the budget is what the set of grants so far says, a count being the smallest so far; then `ParsedMeans` for the end of `parse` |
| `BudgetProofs!TextSurvives` | `Spec => []RoundTrips` | `Cleaned`: a budget that was parsed or narrowed is finite and has nothing of an effect it does not grant. For such a budget (`TextRoundTrips`) what its text's grants mean is the budget (`MeaningOfText`), and the fold of `Add` over them writes them (`FoldWrites`), by induction on how far it has got |
| `InterpProofs!TypeCorrect` | `ApartSpec => []TypeOK` | `Sound` below; its depth part counts what is under each call, since a call begins to count only past what it requires |
| `InterpProofs!EffectsAreDeclared` | `ApartSpec => []EffectsDeclared` | `Stacked`: the effects of a call are among those the statement below it may have, so those of the one that acts are among everybody's |
| `InterpProofs!PromisesArePure` | `ApartSpec => []PromisesPure` | the same: a promise may have none |
| `InterpProofs!FailuresAreCaught` | `ApartSpec => []FailuresCaught` | `Stacked`: a call that can fail has a `try` or `check` below it, and a function with a `try` can fail, which main cannot |
| `InterpProofs!SecretsAreKept` | `SettledSpec => []SecretsKept` | `Conforms`: a value is secret only under the type Secret, and a function value has its function's type, wherever it is bound, carried in, handed over or handed back |
| `DoorProofs!DoorTypes` | `Spec => []TypeOK` | `Typed` adds that a bucket and an entry of the registry have their own names, and where a request has a pool |
| `DoorProofs!RateIsHeld` | `Spec => []RateHeld` | `Metered`, a potential: what was let through under a key and what its bucket holds is at most a full bucket for each time it was new and what was earned until the bucket was last charged, or, for what was let through alone, until now: a charge may be of an earlier time than the one before it |
| `DoorProofs!AllowanceIsOwn` | `Spec => []OwnAllowance` | `Counted`: what is counted under a key is the requests of that key; and `Spent`, kept through every later step: if a bucket lacks something, a request it let through accounts for it, but for the time between that one's reading of the clock and this one's |
| `DoorProofs!PoolsAreBounded` | `Spec => []PoolsBounded` | `Lined`: a pool is in the registry once, being closed is not in it, and while the door stands those in it are open |
| `DoorProofs!NothingIsLeft` | `Spec => []NothingOutlives` | `Served` and `Ending`: a worker that runs is its pool's, an evictor's to kill, or one of the two exceptions named; the exit handlers come to every pool there was |
| `DoorProofs!OnlyOthersCut` | `Spec => []CutByOthersOnly` | `Followed`: every entry behind a request's pool is of a budget that came since, so once it is gone there were `Keep` of them |
| `RelayProofs!ReceiptAtLeast` | `Spec => []AtLeast` | `Listed`: the last entry that was to be streamed of a place, but one that is being written, is kept or on the pipe, by the arithmetic of remainders, unless the worker gave up or the pipe was dropped |
| `RelayProofs!ToldItsCause` | `Spec => []StoppedForCause` | `Framed`, where the caller, the program and its frames are in step, and `Caused`: a run that was killed was flagged before, a worker that is gone was killed by its own run's clock, late by another's, or by itself |
| `RelayProofs!AnswersItsCall` | `Spec => []OwnAnswer` | `Counted`: calls and answers keep pace; `Quiet`: a run refused a call makes no other, which for a command's run takes `Framed` |
| `RelayProofs!TypesHold` | `Spec => []TypeOK` | `Rest`: the types that the invariants of this table's other rows for `Relay` leave out |
| `RelayProofs!CeilingIsHeld` | `Spec => []CeilingHeld` | `Paid`: what is counted as cost is the sum of what the answers cost. One number more adds it to the fold (`SumOfNext`), by induction as in `Budget` |
| `RelayProofs!DoorIsInOrder` | `Spec => []DoorInOrder` | `Doored`: what was printed is written or pending, and what is written stays in order when an event is appended |
| `RelayProofs!ReceiptIsWhole` | `Spec => []RecordsWhole` | `Recorded`: this process notes each call before it writes it, and sabline-rt's records have caught up except between a call and its answer |
| `LoopsProofs!BoundIsHeld` | `Spec => [](Kept => BoundHeld)` | `LoopsInv`: the places of the blocks on the stack, and what is left of each, fit between what was performed and the bound (below) |

The language is proved sound for programs of any size, in three layers. What the
checks say of one statement (`CallChecked`, `ReadPassable`, `TakenTyped`) needs
`NamesApart`: this is where a name that is a value here and a built-in there
would break the argument, as `interp_hidden` shows that it does. The values of a
run are in a set `S` closed under what function values carry in (`Closed`), which
grows by one value a step; so nothing need be defined by recursion over a value.
`Sound` puts them together with the stack, which steps push on, pop from, or move
the top of (`Pushed`, `Popped`, `Moved`). The clauses about types are
conditional on `OneTyped`, so that effects and failures are proved without it,
and section 7 shows that secrets are not.

That a run keeps to its bound is proved for programs of any size and inputs of any
kind, under `Kept`: that the bound is what it would be if the comparison of two
arms dropped no nan. Nothing less will do, for it is what the programs of
`loops_hidden` fail, and every program of `loops_hold` is `Kept`. The argument
follows the run. A block that is begun has a place (`Place`): what is known there,
which is so of the environment and which nothing above it rebinds; what the rest
of the block performs at most; and, if it is a loop in a turn, how many turns may
follow. The turns are counted by one of the loop's counters: on every path to the
end of a turn it makes exactly the one move that it must (`Reach`, which says of
`Along` what each of its paths does), and its limit holds, so it is as near to its
limit as there are turns left (`Counted`). A statement pays for what it performs
out of what is left of its block (`Pays`), an arm is worth no more than the dearer
of the two, and a call no more than `Bounds` gives the function with those below it
active; `Frame` adds the places of a call up, and `Stacked` the calls of the stack.
`shown` is not in the argument: a loop that need not end has no bound.

Three arguments are about data of any size. The prover cannot use the library's
induction theorems, which take a predicate; but a set of numbers that has 0 and,
with a number, the next, is all of them (`NatSet`, from the least number it lacks),
and a fold is the value of one function on 1..n, which is built a place at a time
(`FoldGrows`, `SumGrows`). This is enough for the two folds in the properties. The
recursive functions of `Loops` are what their definitions say by `Recursion`, from
the same: a function whose value at a place is given by those at smaller places
exists, so `CHOOSE` finds one (`BindingsAre`, `AlongAre`, `BlockAre`,
`BoundsAre`).

Only model-checked: liveness and all that rests on fairness (`CallsEnd`,
`NeitherWaits`, `EvalEnds`, `Settles`, `RunsEnd`, `LoopsEnd`), which the prover
does not do. That `BoundHeld` speaks only of a bound that is a number or infinity
is the code's: of a nan `int(n)` raises, and there is no baseline (section 7).

## 7. Disagreements

Found while translating, and shown by a run:

- `interp_hidden`: `calls_a_value` decides for a whole function what a name in a
  call is. With `print("x")` before, or beside, `let print = id`, a pure
  function prints. Run by hand, this program is accepted and prints.
- `loops_hidden`: a loop of no turns round one without a bound costs
  `0 * math.inf`, which is nan in Python, and `max(0, nan)` is 0. In the second arm
  of an `if` this takes away everything else that arm performs, and the baseline
  records `"fs": 0` for a program that reads files; elsewhere `int(nan)` ends
  `sabline capabilities` with a ValueError. Run by hand, `capability_scan` does
  both.

Shown by TLC on these modules, and not kept as runs (each needs only what is
said here):

- `Pool` with two timed calls on one slot, uncapped, refutes "a call reported
  E610 is one whose `alarm` is `flagged` or `spent`": `Timer.cancel()` cannot stop
  a timer that has fired; its flag and kill belong to the worker, not to the
  request (pool.py:581), and reach the next call. EMBEDDING.md:48-50 says "the
  result says which limit it hit".
- `Eval` with `MaxSignals = 2` refutes `EvalEnds`: `_Stopper.ask` takes a lock that
  is not reentrant (evaluation.py:273) inside a signal handler; a second signal
  inside the first one's handler leaves the main thread waiting for itself.
- `Budget` refutes `WithinCeiling` once it takes in tool calls: `gap` asks whether
  each tool grant is *written* in the ceiling (budget.py:600), so fewer patterns,
  or a missing count, is wider and passes.
- `Interp` with only the names settled refutes `SecretsKept`: types are read once
  in source order (checker.py:1235), so a loop that prints a name and then binds
  it to a secret prints the secret on its second turn. The same shape lets a
  failure escape `main` as a Python traceback.

Seen in the source:

- A crash of the compiler, a `close()` and a kill after the grace period all leave
  return code -9; on a pool with `max_memory_mb` the call is told E611, memory
  (`_starved`, pool.py 1066). A killed eval then reads "the run had already
  ended".
- `_Stopper` sets `killed` as the run ends: a run that finished may be told
  killed. `kill_running` misses a worker still starting and does not try again.
- A child that never says hello has no deadline: the caller waits.
- `reset_program_state` asks `os.getcwd()` first, inside one `try`: a program
  that removed its directory leaves the next one in none. `STOP_FILE` is not among the names put back, though
  state.py says it lists them all.
- A worker whose parent died and whose program does not end stays
  (EMBEDDING.md 164-166 speaks of workers that wait).
- `tool, tool@5, tool:a@3` is written out as a text that parses to another
  budget (`RoundTrips` excludes exactly this); a credential file under a
  ceiling's directory is refused by the ceiling's own rule and allowed by a
  budget that names it (`WithinCeiling` leaves it apart); grants of tools are
  not additive, SPEC.md 455 notwithstanding; an operation refused by its count
  is still counted as a use (budget.py 905).
- A tool manifest's `@N` counts are not enforced by the session; the cost a reply
  names is added without a look at the ceiling, so the last one may end past it
  (docs/runner.md says so; `CeilingHeld` allows exactly one reply's cost).
- `_write_atomically` syncs neither the file nor its directory
  (evaluation.py:319-326): when the machine stops, the receipt's name may be over
  part of its data or none, though it was told to have arrived. `ReceiptWhole` is
  of a killed eval, and leaves the stop of the machine apart by name.
- A receipt made for a worker without an answer leaves out what was on a pipe that
  `close()` or an eviction closed under its reader (pool.py:603-610), every entry
  after a write that failed (recorder.py:148-149), and a note that was counted and
  not yet written (181-183). The code promises "at least", which always holds;
  the rest of `AtLeast` is for runs with none of these.
- `_RateLimit` reads its clock outside its lock (doors.py:133). Of two requests
  the later in time may spend first, and the earlier is then charged for time that
  ran backwards: the level can fall below zero, and a request be told to wait
  before a whole bucket was let through. `OwnAllowance` says by how much: the time
  between the two readings. `RateHeld` does not suffer.
- `_RateLimit` forgets the least recent key and gives it a full bucket when it
  returns (`RateHeld` counts it); `PoolRegistry` closes the least recently used
  pool though a request is on it (`CutByOthersOnly`).
- doors.py:731 says that no worker outlives the door. A pool made by a request's
  thread after `_close_pools_at_exit` listed its pools, and workers an evicting
  thread had taken out of `_live` but not yet killed, are stopped by nobody:
  request threads are daemons. `NothingOutlives` names these two. `serve` handles
  KeyboardInterrupt alone: SIGTERM stops nothing in order.
- `RtRun`: if sabline-rt dies by itself while a worker makes its call, the
  deadline's thread finds it gone and returns before `on_kill`
  (through_rt.py:515-521), and the caller waits for the worker without a clock,
  though `_run_through_rt` says the worker "is killed with sabline-rt at the
  deadline" (`Stranded` in `RunsEnd`). The other way round, a clock that fires
  as the run ends kills a worker that was kept, and the next run on it is told
  E000 or, on a capped pool, E611 (`late` in `StoppedForCause`).
- What sabline-rt had on its channel is lost when it is killed, and with it the
  events of the last moments; a run the command line could not make (`Unavailable`)
  or that ran out of memory leaves no receipt.
- `through_rt` reads standard error only at the end.
- The timer of `witnesses.py` may write its stop file for the next call.
- `project add` writes library, manifest and lock in place, one after another.

## 8. Not modelled

- *In modelled parts.* Pool: a `wait(10)` that runs out, a `Timer` that cannot
  start, the Windows job object, noise on stderr. Budget: escaping of text,
  proxies and redirects, attribute chains of `ffi`, the matching of a pattern (a
  constraint is met or not). Eval: argument checks, the probe, streamed events.
  Language: computed values, records, lists, maps, generics, money, branches on
  secrets (E563, as no test is modelled), more than one argument, `ensures`,
  `all_of` and `any_of`, nested calls (a call's argument is a name, a constant or
  a function), native code. Door: `--no-auth` (no
  token, and requests judged by `not_local`), parsing of a request, the invocation
  log, a caller that went away, the MCP server. PoolWorker: the reset of names. Tools: the manifest's text, schemas,
  prompts. RtRun: a sabline-rt that cannot be started, the confinement handshake,
  its standard error. Loops: products, fields and other pure calls in a limit;
  counts of two effects (each is reckoned apart, and one is modelled); the memo of
  `_operation_bounds`, which saves work and, where a bound involves a nan, can
  change a value (programs outside `Kept`).
- *Ratchet's grants, baselines and reports, receipts' replay, diff and attestation*:
  functions of finished files and of literals in the text.
- *Loader and projects*: a walk over files; `project add` is three writes with
  nothing that recovers, so a model would say what section 7 does.
- *Contract witnesses*: Z3's search, and one timer.
- *Parser, formats, command line, editor, viewer*: sequential and without state
  across steps; a faithful model would be the code again.
- *Prover and native code*: their correctness is agreement of two semantics of
  the whole language.
- *Confinement policies*: the operating system's; when they are asked for and what
  follows when they are not given is in `PoolWorker` and `Eval`.
- *The Rust interpreter*: held to the Python one by the repository's agreement
  checks; the threads around it are in `RtRun`.
