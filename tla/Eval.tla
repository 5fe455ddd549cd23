-------------------------------- MODULE Eval --------------------------------
(***************************************************************************)
(* sabline eval (sabline/evaluation.py): one program run on a pool of one  *)
(* worker, and the threads around it: the main thread, which waits, takes  *)
(* signals, and makes and delivers the receipt; the runner thread, which   *)
(* is the pool's one call; and _Stopper's thread, which passes a stop on   *)
(* and kills the worker once the grace period is over.                     *)
(*                                                                         *)
(* The pool is module Pool with one call and one slot, under a timeout and *)
(* a memory cap, as the profile always has; main is the thread that closes *)
(* it.  A signal's handler runs on the main thread between any two of its  *)
(* steps, which wait until it returns.                                     *)
(***************************************************************************)
EXTENDS Pool

CONSTANTS
  MaxSignals,   \* bound: signals eval is sent
  Watched       \* is --stop-file given?

ASSUME EvalAssumption == MaxSignals \in Nat /\ Watched \in BOOLEAN
\* eval runs one program, once
ASSUME OneCallAssumption == \A c, d \in Calls : c = d

VARIABLES
  main,         \* where _eval is
  handler,      \* where the handler of a signal is, in _Stopper.ask
  signals,      \* how many signals came
  lock,         \* who holds _Stopper._lock
  asked,        \* _Stopper.asked: what asked for a stop
  stopFile,     \* is the worker's stop file there?
  graceOver,    \* has the grace period passed since?
  watch,        \* where _Stopper._watch is
  killed,       \* _Stopper.killed
  victims,      \* the workers kill_running has still to kill
  stopped,      \* did the worker answer that it stopped (E615)?
  sinks,        \* where the receipt goes: "file", "url" or both
  predicate,    \* what the receipt says
  temp, file,   \* _write_atomically's file, and the one named by --receipt
  sent,         \* did the URL accept the receipt?
  status        \* eval's exit status, as far as delivery goes

stopVars  == <<handler, signals, lock, asked, stopFile, graceOver, watch,
               killed, victims>>
tellVars  == <<sinks, predicate, temp, file, sent, status>>
evalVars  == <<vars, main, stopVars, stopped, tellVars>>

NoPredicate == [code |-> "none", complete |-> FALSE, stop |-> "none"]

EvalInit ==
  /\ Init
  /\ main = "wait"
  /\ handler = "no" /\ signals = 0 /\ lock = "free" /\ asked = "no"
  /\ stopFile = FALSE /\ graceOver = FALSE
  /\ watch = "wait" /\ killed = FALSE /\ victims = {}
  /\ stopped = FALSE
  /\ sinks \in SUBSET {"file", "url"} \ {{}}
  /\ predicate = NoPredicate
  /\ temp = "none" /\ file = "old" /\ sent = FALSE /\ status = "none"

-----------------------------------------------------------------------------
(* The runner thread and its worker, which are the pool's. *)

Framed(A) == A /\ UNCHANGED <<main, stopVars, stopped, tellVars>>

RunnerStep(c)   == Framed(Begin(c) \/ CallStep(c))
DeadlineGoes(c) == Framed(AlarmFire(c) \/ DeadlineStep(c))
KillGoes(c)     == Framed(KillStep(c))
WorkerFails(c)  == Framed(OutOfMemory(c) \/ Crash(c))

\* for mutation: a worker the system does not hold is left to itself
UnconfinedLeft(c) ==
  /\ Step(c, "register", "release")
  /\ result' = [result EXCEPT ![c] = "nostart"]
  /\ slot' = [slot EXCEPT ![c] = None]
  /\ UNCHANGED <<poolVars, kind, used, answer, timeVars, procVars, main,
                 stopVars, stopped, tellVars>>

\* _started: a worker that got no confinement is disposed of, and refused
Unconfined(c) ==
  /\ Step(c, "register", "late")
  /\ result' = [result EXCEPT ![c] = "nostart"]
  /\ UNCHANGED <<poolVars, slot, kind, used, answer, timeVars, procVars, main,
                 stopVars, stopped, tellVars>>

\* a program that sees its stop file at a call or loop turn answers E615
WorkerAnswers(w, a) ==
  /\ Answer(w, a)
  /\ stopped' \in {FALSE} \union (IF a = "bad" /\ stopFile THEN {TRUE} ELSE {})
  /\ UNCHANGED <<main, stopVars, tellVars>>

-----------------------------------------------------------------------------
(* A stop asked for: _Stopper.ask, by a signal's handler on the main thread  *)
(* or by the stopper's own thread.                                           *)

Handled == main \in {"wait", "finish", "close"}

\* the lock is not reentrant: a second signal that comes while a handler
\* holds it waits for a handler that waits for it
Signal ==
  /\ Handled /\ signals < MaxSignals
  /\ \/ handler = "no" /\ lock = "free" /\ handler' = "locked" /\ lock' = "main"
     \/ handler = "locked" /\ handler' = "stuck" /\ UNCHANGED lock
  /\ signals' = signals + 1
  /\ UNCHANGED <<vars, main, asked, stopFile, graceOver, watch, killed, victims,
                 stopped, tellVars>>

SignalAsks ==
  /\ handler = "locked" /\ lock' = "free"
  /\ IF asked = "no" THEN asked' = "signal" /\ handler' = "write"
                     ELSE handler' = "no" /\ UNCHANGED asked
  /\ UNCHANGED <<vars, main, signals, stopFile, graceOver, watch, killed,
                 victims, stopped, tellVars>>

\* the stop file is made, unless it cannot be
SignalWrites ==
  /\ handler = "write" /\ handler' = "no"
  /\ stopFile' \in BOOLEAN
  /\ UNCHANGED <<vars, main, signals, lock, asked, graceOver, watch, killed,
                 victims, stopped, tellVars>>

GracePasses ==
  /\ asked # "no" /\ ~graceOver /\ graceOver' = TRUE
  /\ UNCHANGED <<vars, main, handler, signals, lock, asked, stopFile, watch,
                 killed, victims, stopped, tellVars>>

Done == main # "wait"           \* _Stopper._done

\* one turn of _watch: it sees the stop file, and then whether time is up
Turn ==
  /\ watch = "wait"
  /\ watch' = IF Done THEN "gone" ELSE "turn"
  /\ UNCHANGED <<vars, main, handler, signals, lock, asked, stopFile, graceOver,
                 killed, victims, stopped, tellVars>>

TurnLocks ==
  /\ watch = "turn" /\ Watched /\ asked = "no" /\ lock = "free"
  /\ watch' = "locked" /\ lock' = "watch"
  /\ UNCHANGED <<vars, main, handler, signals, asked, stopFile, graceOver,
                 killed, victims, stopped, tellVars>>

TurnAsks ==
  /\ watch = "locked" /\ lock' = "free"
  /\ IF asked = "no" THEN asked' = "file" /\ watch' = "write"
                     ELSE watch' = "turn" /\ UNCHANGED asked
  /\ UNCHANGED <<vars, main, handler, signals, stopFile, graceOver, killed,
                 victims, stopped, tellVars>>

TurnWrites ==
  /\ watch = "write" /\ watch' = "turn"
  /\ stopFile' \in BOOLEAN
  /\ UNCHANGED <<vars, main, handler, signals, lock, asked, graceOver, killed,
                 victims, stopped, tellVars>>

TimeIsUp == asked # "no" /\ graceOver /\ ~killed

TurnKills ==
  /\ watch = "turn" /\ TimeIsUp
  /\ killed' = TRUE /\ watch' = "sweep"
  /\ UNCHANGED <<vars, main, handler, signals, lock, asked, stopFile, graceOver,
                 victims, stopped, tellVars>>

TurnEnds ==
  /\ watch = "turn" /\ ~TimeIsUp
  /\ watch' = "wait"
  /\ UNCHANGED <<vars, main, handler, signals, lock, asked, stopFile, graceOver,
                 killed, victims, stopped, tellVars>>

\* kill_running: the workers there are now, each killed
Sweep ==
  /\ watch = "sweep" /\ watch' = "kill" /\ victims' = live
  /\ UNCHANGED <<vars, main, handler, signals, lock, asked, stopFile, graceOver,
                 killed, stopped, tellVars>>

KillVictim(w) ==
  /\ watch = "kill" /\ w \in victims
  /\ victims' = victims \ {w}
  /\ IF kill[w] = "no" THEN Claim(w) /\ watch' = "reap"
                       ELSE UNCHANGED <<kill, watch>>
  /\ UNCHANGED <<poolVars, callVars, timeVars, read, end, job, pipe, dirty, main,
                 handler, signals, lock, asked, stopFile, graceOver, killed,
                 stopped, tellVars>>

KilledVictims ==
  /\ \/ watch = "reap" /\ \A w \in Calls : kill[w] \in {"no", "reaped"}
     \/ watch = "kill" /\ victims = {}
  /\ watch' = IF victims = {} THEN "wait" ELSE "kill"
  /\ UNCHANGED <<vars, main, handler, signals, lock, asked, stopFile, graceOver,
                 killed, victims, stopped, tellVars>>

WatchStep == \/ Turn \/ TurnLocks \/ TurnAsks \/ TurnWrites \/ TurnKills
             \/ TurnEnds \/ Sweep \/ KilledVictims
             \/ \E w \in Calls : KillVictim(w)
-----------------------------------------------------------------------------
(* The main thread, where no handler runs. *)

MainStep(from, to) == main = from /\ handler = "no" /\ main' = to

\* the runner is over
Joined == /\ MainStep("wait", "finish")
          /\ \A c \in Calls : pc[c] = "done"
          /\ UNCHANGED <<vars, stopVars, stopped, tellVars>>

\* finish waits five seconds, which only a kill outlasts
Finish == /\ MainStep("finish", "close")
          /\ watch \in {"gone", "reap"}
          /\ UNCHANGED <<vars, stopVars, stopped, tellVars>>

Close == /\ main = "close" /\ handler = "no"
         /\ CloseSet \/ CloserStep
         /\ UNCHANGED <<main, stopVars, stopped, tellVars>>

Answered(c) == result[c] \in {"ok", "bad"}
Code(c) == IF Answered(c) /\ stopped THEN "E615" ELSE result[c]

\* for mutation: a receipt that says the worker was killed is left complete
TellKilled(c) == [code |-> "E615", complete |-> Answered(c), stop |-> "killed"]

\* what the receipt of a run says of its end, and of a stop
Told(c) == [code |-> "E615", complete |-> FALSE, stop |-> "killed"]

\* for mutation: a run that outlived the grace period is told killed
TellLate(c) ==
  IF graceOver /\ Code(c) \notin {"E610", "E611", "E615"}
    THEN Told(c)
    ELSE [code |-> Code(c), complete |-> Answered(c), stop |-> "none"]

Tell(c) ==
  IF asked # "no" /\ killed /\ Code(c) \notin {"E610", "E611", "E615"}
    THEN Told(c)
    ELSE [code |-> Code(c), complete |-> Answered(c),
          stop |-> CASE asked = "no" -> "none"
                     [] asked # "no" /\ Code(c) = "E615" -> "at a turn"
                     [] OTHER -> "had ended"]

\* the receipt of a run; what failed to start is refused or raised, with none
Classify(c) ==
  /\ handler = "no" /\ main = "close" /\ closer = "done"
  /\ IF result[c] = "nostart"
       THEN main' = "exited" /\ status' = "refused" /\ UNCHANGED predicate
       ELSE main' = "file" /\ predicate' = Tell(c) /\ UNCHANGED status
  /\ UNCHANGED <<vars, stopVars, stopped, sinks, temp, file, sent>>

\* for mutation: the receipt is written where it belongs
WriteInPlace ==
  /\ MainStep("file", "url") /\ "file" \in sinks
  /\ file' \in {"whole", "part"}
  /\ UNCHANGED <<vars, stopVars, stopped, sinks, predicate, sent, status, temp>>

\* _write_atomically: a new file beside it, then replace; an error in either
\* removes it, and the receipt is not delivered
Write ==
  /\ "file" \in sinks
  /\ \/ MainStep("file", "write") /\ temp' = "part"
     \/ MainStep("write", "replace") /\ temp' = "whole"
     \/ main \in {"file", "write", "replace"} /\ MainStep(main, "url")
          /\ temp' = "none"
  /\ UNCHANGED <<vars, stopVars, stopped, sinks, predicate, file, sent, status>>

Replace ==
  /\ MainStep("replace", "url")
  /\ file' = temp /\ temp' = "none"
  /\ UNCHANGED <<vars, stopVars, stopped, sinks, predicate, sent, status>>

NoFile == /\ MainStep("file", "url") /\ "file" \notin sinks
          /\ UNCHANGED <<vars, stopVars, stopped, tellVars>>

\* the receipt is accepted at the URL or not, and eval exits
Deliver ==
  /\ MainStep("url", "exited")
  /\ sent' \in (IF "url" \in sinks THEN BOOLEAN ELSE {FALSE})
  /\ status' = IF ("file" \in sinks => file = "whole")
                    /\ ("url" \in sinks => sent')
                 THEN "result" ELSE "undelivered"
  /\ UNCHANGED <<vars, stopVars, stopped, sinks, predicate, temp, file>>

Delivering == {"file", "write", "replace", "url"}

\* eval is killed while the receipt is written, and its files stay as they are
EvalKilled ==
  /\ main \in Delivering /\ main' = "killed"
  /\ UNCHANGED <<vars, stopVars, stopped, tellVars>>

\* the machine stops: neither file was synced, so of what was written there
\* may be all, a part or nothing, whatever its name
MachineStops ==
  /\ main \in Delivering \union {"exited"} /\ main' = "crashed"
  /\ temp' \in {"none", "part", "whole"}
  /\ file' \in IF file = "old" THEN {"old"} ELSE {"old", "part", "whole"}
  /\ UNCHANGED <<vars, stopVars, stopped, sinks, predicate, sent, status>>

Exited == main \in {"exited", "killed", "crashed"} /\ UNCHANGED evalVars

HandlerStep == SignalAsks \/ SignalWrites
MainGoes    == \/ Joined \/ Finish \/ Close \/ Write \/ Replace \/ NoFile
               \/ Deliver \/ \E c \in Calls : Classify(c)

EvalNext ==
  \/ \E c \in Calls : \/ RunnerStep(c) \/ DeadlineGoes(c) \/ KillGoes(c)
                      \/ WorkerFails(c) \/ Unconfined(c)
                      \/ \E a \in Says : WorkerAnswers(c, a)
  \/ Signal \/ HandlerStep \/ GracePasses \/ WatchStep \/ MainGoes
  \/ EvalKilled \/ MachineStops \/ Exited

EvalSpec == EvalInit /\ [][EvalNext]_evalVars

\* The threads of eval run, time passes, and a worker that is started says
\* it is ready or ends.  No program need answer, and nobody need ask for a
\* stop.
EvalFairSpec ==
  /\ EvalSpec
  /\ \A c \in Calls : /\ WF_evalVars(RunnerStep(c))
                      /\ WF_evalVars(Framed(AlarmFire(c)))
                      /\ WF_evalVars(Framed(DeadlineStep(c)))
                      /\ WF_evalVars(KillGoes(c))
  /\ WF_evalVars(HandlerStep) /\ WF_evalVars(GracePasses)
  /\ WF_evalVars(WatchStep) /\ WF_evalVars(MainGoes)

-----------------------------------------------------------------------------
EvalTypeOK ==
  /\ TypeOK
  /\ main \in {"wait", "finish", "close", "file", "write", "replace", "url",
               "exited", "killed", "crashed"}
  /\ handler \in {"no", "locked", "stuck", "write"}
  /\ signals \in 0..MaxSignals /\ lock \in {"free", "main", "watch"}
  /\ asked \in {"no", "signal", "file"}
  /\ stopFile \in BOOLEAN /\ graceOver \in BOOLEAN
  /\ watch \in {"wait", "turn", "locked", "write", "sweep", "kill", "reap",
                "gone"}
  /\ killed \in BOOLEAN /\ victims \subseteq Calls /\ stopped \in BOOLEAN
  /\ predicate.code \in {"none", "ok", "bad", "E000", "E610", "E611", "E615"}
  /\ predicate.complete \in BOOLEAN
  /\ predicate.stop \in {"none", "killed", "at a turn", "had ended"}
  /\ temp \in {"none", "part", "whole"} /\ file \in {"old", "part", "whole"}
  /\ sent \in BOOLEAN
  /\ status \in {"none", "refused", "result", "undelivered"}

\* docs/eval.md: "the receipt's `stop` records what asked ... and how the stop
\* was honoured": a run is told stopped only when somebody asked, whichever
\* of the program, the grace period and the limits ended it.
StopTold ==
  predicate # NoPredicate =>
    /\ predicate.code = "E615" => asked # "no"
    /\ predicate.stop # "none" => asked # "no"
    /\ predicate.stop = "at a turn" => stopped /\ stopFile
    /\ predicate.stop = "killed" => killed /\ graceOver

\* docs/receipts.md: a receipt that is complete is the run's own, which ended
\* by itself; of a worker that answered nothing, and of one told killed, it
\* is not.
CompleteIsOwn ==
  \A c \in Calls :
    predicate.complete => /\ result[c] \in {"ok", "bad"}
                          /\ answer[c] = result[c]
                          /\ predicate.stop # "killed"

\* Whenever eval is killed, the receipt's file is the one that was there or the
\* whole new one; and an exit that does not say 3 means it arrived, with
\* nothing left beside it.  (When the machine stops, neither: nothing is synced.)
ReceiptWhole ==
  main # "crashed" =>
    /\ file \in {"old", "whole"}
    /\ main = "exited" => temp = "none"
    /\ status = "result" => ("file" \in sinks => file = "whole")
                              /\ ("url" \in sinks => sent)

\* When eval exits no process of the run is left: a worker it refused, one it
\* killed and one that answered are all gone, or in a thread's kill().
NothingLeft ==
  main = "exited" => \A w \in Calls : Running(w) => kill[w] # "no"

\* "A receipt, always": every eval exits, whatever the program does and
\* whenever a stop is asked for.
EvalEnds == <>(main \in {"exited", "killed", "crashed"})
=============================================================================
