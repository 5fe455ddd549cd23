----------------------------- MODULE EvalProofs -----------------------------
(***************************************************************************)
(* What holds of one run of sabline eval (Eval), whatever its program does *)
(* and whenever it is stopped: what its receipt says of its end, how the   *)
(* receipt is written, and that no process of it is left.  What the pool   *)
(* beneath it keeps is PoolProofs'.                                        *)
(***************************************************************************)
EXTENDS Eval, PoolProofs

\* the steps that leave the pool, its calls and its processes alone
Aside ==
  \/ Signal \/ HandlerStep \/ GracePasses \/ Turn \/ TurnLocks \/ TurnAsks
  \/ TurnWrites \/ TurnKills \/ TurnEnds \/ Sweep \/ KilledVictims
  \/ Joined \/ Finish \/ Write \/ Replace \/ NoFile \/ Deliver
  \/ (\E c \in Calls : Classify(c)) \/ EvalKilled \/ MachineStops \/ UNCHANGED evalVars

\* the steps that are the pool's own
PoolGoes ==
  \E c \in Calls : RunnerStep(c) \/ DeadlineGoes(c) \/ KillGoes(c) \/ WorkerFails(c)

LEMMA AsideLeaves == ASSUME Aside PROVE UNCHANGED vars
BY DEF Aside, Signal, HandlerStep, SignalAsks, SignalWrites, GracePasses, Turn,
       TurnLocks, TurnAsks, TurnWrites, TurnKills, TurnEnds, Sweep,
       KilledVictims, Joined, Finish, Write, Replace, NoFile, Deliver, Classify,
       EvalKilled, MachineStops, evalVars

LEMMA EvalSteps ==
  ASSUME [EvalNext]_evalVars
  PROVE  \/ Aside \/ PoolGoes \/ Close
         \/ \E c \in Calls : Unconfined(c) \/ KillVictim(c)
         \/ \E c \in Calls : \E a \in Says : WorkerAnswers(c, a)
BY DEF EvalNext, Aside, PoolGoes, WatchStep, MainGoes, Exited

\* what the pool's own steps leave alone
LEMMA PoolGoesFrame ==
  ASSUME PoolGoes
  PROVE  Next /\ UNCHANGED <<main, stopVars, stopped, tellVars>>
BY DEF PoolGoes, RunnerStep, DeadlineGoes, KillGoes, WorkerFails, Framed, Next,
       WorkerStep

LEMMA OtherFrames ==
  /\ Close => Next /\ UNCHANGED <<main, stopVars, stopped, tellVars>> /\ main = "close"
  /\ \A c \in Calls : \A a \in Says :
       WorkerAnswers(c, a) => Next /\ UNCHANGED <<main, stopVars, tellVars>>
BY DEF Close, WorkerAnswers, Next, WorkerStep

-----------------------------------------------------------------------------
(* The pool keeps its types and its processes under what eval adds to it. *)

LEMMA EvalTypedStep == ASSUME Typed, [EvalNext]_evalVars PROVE Typed'
<1>1. CASE Aside \/ PoolGoes \/ Close \/ \E c \in Calls : \E a \in Says : WorkerAnswers(c, a)
  <2>1. [Next]_vars
    BY <1>1, AsideLeaves, PoolGoesFrame, OtherFrames
  <2> QED
    BY <2>1, TypedStep
<1>2. ASSUME NEW c \in Calls, Unconfined(c) PROVE Typed'
  <2> USE DEF Unconfined, Step, Goto, Typed, TypeOK, poolVars, timeVars, procVars
  <2>1. PoolTypes'
    BY <1>2 DEF PoolTypes
  <2>2. CallTypes'
    BY <1>2 DEF CallTypes, Places, Results
  <2>3. TimeTypes' /\ ProcTypes'
    BY <1>2 DEF TimeTypes, ProcTypes
  <2>4. SlotPlace'
    BY <1>2 DEF SlotPlace, CallTypes
  <2> QED
    BY <2>1, <2>2, <2>3, <2>4
<1>3. ASSUME NEW w \in Calls, KillVictim(w) PROVE Typed'
  <2> USE DEF KillVictim, Claim, Typed, TypeOK, poolVars, timeVars, callVars
  <2>1. PoolTypes'
    BY <1>3 DEF PoolTypes
  <2>2. CallTypes'
    BY <1>3 DEF CallTypes
  <2>3. TimeTypes' /\ ProcTypes'
    BY <1>3 DEF TimeTypes, ProcTypes
  <2>4. SlotPlace'
    BY <1>3 DEF SlotPlace
  <2> QED
    BY <2>1, <2>2, <2>3, <2>4
<1> QED
  BY <1>1, <1>2, <1>3, EvalSteps

LEMMA EvalTrackedStep == ASSUME Typed, Tracked, [EvalNext]_evalVars PROVE Tracked'
<1>1. CASE Aside \/ PoolGoes \/ Close \/ \E c \in Calls : \E a \in Says : WorkerAnswers(c, a)
  <2>1. [Next]_vars
    BY <1>1, AsideLeaves, PoolGoesFrame, OtherFrames
  <2> QED
    BY <2>1, TrackedStep
<1>2. ASSUME NEW c \in Calls, Unconfined(c) PROVE Tracked'
  <2>1. /\ pc' = [pc EXCEPT ![c] = "late"] /\ pc[c] = "register"
        /\ UNCHANGED <<free, live, closed, closer, toKill, slot, end, kill>>
    BY <1>2 DEF Unconfined, Step, Goto, poolVars, procVars
  <2>2. \A d \in Calls : pc[d] \in Leaving => pc'[d] \in Leaving
    BY <2>1 DEF Leaving, Typed, TypeOK, CallTypes
  <2>3. KeptTracked'
    BY <2>1, <2>2 DEF Tracked, KeptTracked, Kept, Running, Known, Queued, Listed, Leaver
  <2>4. CloserPhase' /\ Fresh'
    BY <2>1 DEF Tracked, CloserPhase, Fresh, Typed, TypeOK, CallTypes
  <2> QED
    BY <2>3, <2>4 DEF Tracked
<1>3. ASSUME NEW w \in Calls, KillVictim(w) PROVE Tracked'
  <2>1. /\ UNCHANGED <<free, live, closed, closer, toKill, slot, pc, end>>
        /\ \A v \in Calls : kill'[v] = "no" => kill[v] = "no"
    BY <1>3 DEF KillVictim, Claim, poolVars, callVars, Typed, TypeOK, ProcTypes
  <2>2. KeptTracked'
    BY <2>1 DEF Tracked, KeptTracked, Kept, Running, Known, Queued, Listed, Leaver
  <2>3. CloserPhase' /\ Fresh'
    BY <2>1 DEF Tracked, CloserPhase, Fresh
  <2> QED
    BY <2>2, <2>3 DEF Tracked
<1> QED
  BY <1>1, <1>2, <1>3, EvalSteps

-----------------------------------------------------------------------------
(* How a call ends. *)

\* A call that is over has a result, and what it was answered is that.
Ended ==
  \A c \in Calls :
    /\ pc[c] = "done" => result[c] # "none"
    /\ result[c] \in {"ok", "bad"} => answer[c] = result[c] /\ pc[c] = "done"

\* Until the pool is closed no call is turned away for it.
NotTurned ==
  ~closed => /\ \A i \in DOMAIN free : free[i] # CLOSED
             /\ \A c \in Calls : slot[c] # CLOSED /\ result[c] # "closed"

\* the calls' steps whose effect on these is nothing but a place
LEMMA PoolDoneStays ==
  ASSUME Typed, [Next]_vars, NEW c \in Calls, pc[c] = "done"
  PROVE  pc'[c] = "done" /\ result'[c] = result[c] /\ answer'[c] = answer[c]
<1> USE DEF Typed, TypeOK, CallTypes, Step, Goto
<1>1. ASSUME NEW d \in Calls, Begin(d) \/ CallStep(d)
      PROVE  pc'[c] = "done" /\ result'[c] = result[c] /\ answer'[c] = answer[c]
  <2>1. d # c
    BY <1>1 DEF Begin, CallStep, Get, PassOn, Recheck, Poll, Drop, Discard,
       Dispose, Disposed, Spawn, HelloOk, HelloFail, Register, Late, Ask, Send,
       Read, Cancel, Forget, Release, Report
  <2> QED
    BY <1>1, <2>1 DEF Begin, CallStep, Get, PassOn, Recheck, Poll, Drop, Discard,
       Dispose, Disposed, Spawn, HelloOk, HelloFail, Register, Late, Ask, Send,
       Read, Cancel, Forget, Release, Report
<1>2. ASSUME NEW d \in Calls, AlarmFire(d) \/ DeadlineStep(d) \/ KillStep(d)
                                \/ WorkerStep(d)
      PROVE  UNCHANGED callVars
  BY <1>2 DEF AlarmFire, DeadlineStep, AlarmFlag, AlarmKill, KillStep,
     KillSignal, KillReap, WorkerStep, Answer, OutOfMemory, Crash, Die
<1>3. CASE CloseSet \/ CloserStep \/ UNCHANGED vars
  BY <1>3 DEF CloseSet, CloserStep, ClosePut, CloseDrain, CloseKill,
              CloseKilled, CloseDone, vars, callVars
<1> QED
  BY <1>1, <1>2, <1>3 DEF Next, Finished, callVars

LEMMA PoolEndedStep == ASSUME Typed, Ended, [Next]_vars PROVE Ended'
<1> USE DEF Typed, TypeOK, CallTypes, Step, Goto, Ended
<1>1. ASSUME NEW c \in Calls, Report(c) PROVE Ended'
  <2>1. /\ pc' = [pc EXCEPT ![c] = "done"] /\ answer' = answer
        /\ result' = [result EXCEPT ![c] =
                        IF answer[c] \in {"ok", "bad"} THEN answer[c] ELSE Limit(c)]
    BY <1>1 DEF Report
  <2>2. Limit(c) \in {"E610", "E611", "E000"}
    BY DEF Limit
  <2> QED
    BY <2>1, <2>2
<1>2. ASSUME NEW c \in Calls, Begin(c) \/ PassOn(c) \/ Recheck(c) \/ HelloFail(c)
                                \/ Register(c)
      PROVE  Ended'
  <2>1. /\ answer' = answer /\ pc[c] # "done"
        /\ \A d \in Calls \ {c} : pc'[d] = pc[d] /\ result'[d] = result[d]
        /\ \/ result'[c] \in {"closed", "nostart"}
           \/ result'[c] = result[c] /\ pc'[c] # "done"
    BY <1>2 DEF Begin, PassOn, Recheck, HelloFail, Register
  <2> QED
    BY <2>1
<1>3. ASSUME NEW c \in Calls,
             Get(c) \/ Poll(c) \/ Drop(c) \/ Spawn(c) \/ HelloOk(c) \/ Late(c)
               \/ Ask(c) \/ Send(c) \/ Cancel(c) \/ Forget(c) \/ Release(c)
      PROVE  Ended'
  <2>1. /\ answer' = answer /\ result' = result /\ pc[c] # "done"
        /\ \A d \in Calls \ {c} : pc'[d] = pc[d]
        /\ pc'[c] = "done" => result[c] # "none"
    BY <1>3 DEF Get, Poll, Drop, Discard, Dispose, Disposed, Spawn, HelloOk,
       Late, Ask, Send, Cancel, Forget, Release
  <2> QED
    BY <2>1
<1>4. ASSUME NEW c \in Calls, Read(c) PROVE Ended'
  <2>1. /\ result' = result /\ pc' = [pc EXCEPT ![c] = "cancel"] /\ pc[c] = "read"
        /\ \A d \in Calls \ {c} : answer'[d] = answer[d]
    BY <1>4 DEF Read
  <2> QED
    BY <2>1
<1>5. ASSUME NEW c \in Calls, AlarmFire(c) \/ DeadlineStep(c) \/ KillStep(c)
                                \/ WorkerStep(c)
      PROVE  UNCHANGED callVars
  BY <1>5 DEF AlarmFire, DeadlineStep, AlarmFlag, AlarmKill, KillStep,
     KillSignal, KillReap, WorkerStep, Answer, OutOfMemory, Crash, Die
<1>6. CASE CloseSet \/ CloserStep \/ UNCHANGED vars
  BY <1>6 DEF CloseSet, CloserStep, ClosePut, CloseDrain, CloseKill,
              CloseKilled, CloseDone, vars, callVars
<1> QED
  BY <1>1, <1>2, <1>3, <1>4, <1>5, <1>6 DEF Next, CallStep, Finished, callVars

LEMMA PoolNotTurnedStep == ASSUME Typed, CloserPhase, NotTurned, [Next]_vars PROVE NotTurned'
<1> SUFFICES ASSUME ~closed'
             PROVE  /\ \A i \in DOMAIN free' : free'[i] # CLOSED
                    /\ \A c \in Calls : slot'[c] # CLOSED /\ result'[c] # "closed"
  BY DEF NotTurned
<1> USE TokenAssumption DEF Typed, TypeOK, CallTypes, PoolTypes, SlotPlace, Step,
        Goto, Put, Slots, poolVars, callVars
<1>0. ~closed
  <2>1. closed' = closed \/ closed'
    BY DEF Next, CallStep, Begin, Get, PassOn, Recheck, Poll, Drop, Discard,
         Dispose, Disposed, Spawn, HelloOk, HelloFail, Register, Late, Ask, Send,
         Read, Cancel, Forget, Release, Report, AlarmFire, DeadlineStep,
         AlarmFlag, AlarmKill, KillStep, KillSignal, KillReap, WorkerStep,
         Answer, OutOfMemory, Crash, Die, CloseSet, CloserStep, ClosePut,
         CloseDrain, CloseKill, CloseKilled, CloseDone, Finished, vars
  <2> QED
    BY <2>1
<1>a. /\ \A i \in DOMAIN free : free[i] # CLOSED
      /\ \A c \in Calls : slot[c] # CLOSED /\ result[c] # "closed"
  BY <1>0 DEF NotTurned
<1>1. ASSUME NEW c \in Calls, Get(c)
      PROVE  /\ \A i \in DOMAIN free' : free'[i] # CLOSED
             /\ \A d \in Calls : slot'[d] # CLOSED /\ result'[d] # "closed"
  <2>1. /\ free # <<>> /\ free' = Tail(free) /\ result' = result
        /\ slot' = [slot EXCEPT ![c] = Head(free)]
    BY <1>1 DEF Get
  <2>2. Head(free) # CLOSED
    BY <1>a, <2>1
  <2>3. \A i \in DOMAIN free' : free'[i] = free[i + 1] /\ i + 1 \in DOMAIN free
    BY <2>1
  <2> QED
    BY <1>a, <2>1, <2>2, <2>3
<1>2. ASSUME NEW c \in Calls, Release(c)
      PROVE  /\ \A i \in DOMAIN free' : free'[i] # CLOSED
             /\ \A d \in Calls : slot'[d] # CLOSED /\ result'[d] # "closed"
  <2>1. /\ free' = Append(free, slot[c]) /\ slot[c] \in Slots /\ result' = result
        /\ slot' = [slot EXCEPT ![c] = NoSlot]
    BY <1>2 DEF Release
  <2>2. \A i \in DOMAIN free' : (i \in DOMAIN free /\ free'[i] = free[i])
                                \/ free'[i] = slot[c]
    BY <2>1
  <2> QED
    BY <1>a, <2>1, <2>2
<1>3. ASSUME NEW c \in Calls,
             Begin(c) \/ PassOn(c) \/ Recheck(c) \/ Poll(c) \/ Drop(c)
               \/ Spawn(c) \/ HelloOk(c) \/ HelloFail(c) \/ Register(c) \/ Late(c)
               \/ Ask(c) \/ Send(c) \/ Read(c) \/ Cancel(c) \/ Forget(c)
      PROVE  /\ free' = free
             /\ \A d \in Calls : slot'[d] # CLOSED /\ result'[d] # "closed"
  BY <1>0, <1>a, <1>3 DEF Begin, PassOn, Recheck, Poll, Drop, Discard, Dispose,
     Disposed, Spawn, HelloOk, HelloFail, Register, Late, Ask, Send, Read,
     Cancel, Forget
<1>4. ASSUME NEW c \in Calls, Report(c)
      PROVE  /\ free' = free
             /\ \A d \in Calls : slot'[d] # CLOSED /\ result'[d] # "closed"
  <2>1. /\ free' = free /\ slot' = slot
        /\ result' = [result EXCEPT ![c] =
                        IF answer[c] \in {"ok", "bad"} THEN answer[c] ELSE Limit(c)]
    BY <1>4 DEF Report
  <2>2. Limit(c) # "closed"
    BY DEF Limit
  <2> QED
    BY <1>a, <2>1, <2>2
<1>5. ASSUME NEW c \in Calls, AlarmFire(c) \/ DeadlineStep(c) \/ KillStep(c)
                                \/ WorkerStep(c)
      PROVE  UNCHANGED callVars /\ free' = free
  BY <1>5 DEF AlarmFire, DeadlineStep, AlarmFlag, AlarmKill, KillStep,
     KillSignal, KillReap, WorkerStep, Answer, OutOfMemory, Crash, Die
<1>6. CASE CloseSet \/ CloserStep \/ UNCHANGED vars
  <2>1. ~ClosePut
    BY <1>0 DEF ClosePut, CloserPhase
  <2> QED
    BY <1>a, <1>6, <2>1 DEF CloseSet, CloserStep, CloseDrain, CloseKill,
              CloseKilled, CloseDone, vars
<1> QED
  BY <1>a, <1>1, <1>2, <1>3, <1>4, <1>5, <1>6 DEF Next, CallStep, Finished

-----------------------------------------------------------------------------
(* Where the main thread is, and what is over by then. *)

Underway == {"wait", "finish", "close"}

Course ==
  /\ main # "wait" => \A c \in Calls : pc[c] = "done"
  /\ main \notin Underway => closer = "done" /\ handler = "no"
  /\ closed => main \notin {"wait", "finish"}
  /\ \A c \in Calls : result[c] # "closed"
  /\ predicate # NoPredicate => main \notin Underway

\* The pool's side of the invariant.
PoolSide == Typed /\ Tracked /\ Ended /\ NotTurned

LEMMA PoolSideStep == ASSUME PoolSide, [EvalNext]_evalVars PROVE PoolSide'
<1>1. Typed' /\ Tracked'
  BY EvalTypedStep, EvalTrackedStep DEF PoolSide
<1>2. CASE Aside \/ PoolGoes \/ Close \/ \E c \in Calls : \E a \in Says : WorkerAnswers(c, a)
  <2>1. [Next]_vars
    BY <1>2, AsideLeaves, PoolGoesFrame, OtherFrames
  <2> QED
    BY <1>1, <2>1, PoolEndedStep, PoolNotTurnedStep DEF PoolSide, Tracked
<1>3. ASSUME NEW c \in Calls, Unconfined(c) PROVE PoolSide'
  <2>1. /\ pc' = [pc EXCEPT ![c] = "late"] /\ pc[c] = "register"
        /\ result' = [result EXCEPT ![c] = "nostart"]
        /\ UNCHANGED <<free, closed, slot, answer>>
    BY <1>3 DEF Unconfined, Step, Goto, poolVars
  <2>2. Ended' /\ NotTurned'
    BY <2>1 DEF PoolSide, Ended, NotTurned, Typed, TypeOK, CallTypes
  <2> QED
    BY <1>1, <2>2 DEF PoolSide
<1>4. ASSUME NEW w \in Calls, KillVictim(w) PROVE PoolSide'
  <2>1. Ended' /\ NotTurned'
    BY <1>4 DEF KillVictim, poolVars, callVars, PoolSide, Ended, NotTurned
  <2> QED
    BY <1>1, <2>1 DEF PoolSide
<1> QED
  BY <1>2, <1>3, <1>4, EvalSteps

\* A call that is over is over for good.
LEMMA DoneStays ==
  ASSUME PoolSide, [EvalNext]_evalVars, NEW c \in Calls, pc[c] = "done"
  PROVE  pc'[c] = "done" /\ result'[c] = result[c] /\ answer'[c] = answer[c]
<1>1. CASE Aside \/ PoolGoes \/ Close \/ \E d \in Calls : \E a \in Says : WorkerAnswers(d, a)
  <2>1. [Next]_vars
    BY <1>1, AsideLeaves, PoolGoesFrame, OtherFrames
  <2> QED
    BY <2>1, PoolDoneStays DEF PoolSide
<1>2. ASSUME NEW d \in Calls, Unconfined(d) \/ KillVictim(d)
      PROVE  pc'[c] = "done" /\ result'[c] = result[c] /\ answer'[c] = answer[c]
  BY <1>2 DEF Unconfined, KillVictim, Step, Goto, callVars, PoolSide, Typed,
     TypeOK, CallTypes
<1> QED
  BY <1>1, <1>2, EvalSteps

\* The pool is closed from the main thread, and never opened.
LEMMA CloseMoves ==
  ASSUME PoolSide, [EvalNext]_evalVars
  PROVE  /\ UNCHANGED <<closed, closer>> \/ (Close /\ main = "close")
         /\ closer = "done" => closer' = "done"
<1>1. CASE Aside
  BY <1>1, AsideLeaves DEF vars, poolVars
<1>2. CASE Close
  <2>1. closer = "done" => FALSE
    BY <1>2, PlaceAssumption DEF Close, CloseSet, CloserStep, ClosePut, CloseDrain,
                CloseDone, CloseKill, CloseKilled
  <2> QED
    BY <1>2, <2>1 DEF Close
<1>3. ASSUME NEW c \in Calls, Unconfined(c) \/ KillVictim(c)
      PROVE  UNCHANGED <<closed, closer>>
  BY <1>3 DEF Unconfined, KillVictim, poolVars
<1>4. CASE PoolGoes \/ \E c \in Calls : \E a \in Says : WorkerAnswers(c, a)
  BY <1>4, ZenonT(40) DEF PoolGoes, RunnerStep, DeadlineGoes, KillGoes, WorkerFails, Framed,
     WorkerAnswers, CallStep, Begin, Get, PassOn, Recheck, Poll, Drop, Discard,
     Dispose, Disposed, Spawn, HelloOk, HelloFail, Register, Late, Ask, Send,
     Read, Cancel, Forget, Release, Report, AlarmFire, DeadlineStep, AlarmFlag,
     AlarmKill, KillStep, KillSignal, KillReap, Answer, OutOfMemory, Crash, Die,
     poolVars
<1> QED
  BY <1>1, <1>2, <1>3, <1>4, EvalSteps

LEMMA CourseStep == ASSUME PoolSide, Course, [EvalNext]_evalVars PROVE Course'
<1>0. PoolSide'
  BY PoolSideStep
<1>1. main' # "wait" => \A c \in Calls : pc'[c] = "done"
  <2>1. CASE main = "wait" /\ main' # "wait"
    <3>1. Joined
      BY <2>1 DEF EvalNext, RunnerStep, DeadlineGoes, KillGoes, WorkerFails,
         Unconfined, WorkerAnswers, Framed, Signal, HandlerStep, SignalAsks,
         SignalWrites, GracePasses, WatchStep, Turn, TurnLocks, TurnAsks,
         TurnWrites, TurnKills, TurnEnds, Sweep, KilledVictims, KillVictim,
         MainGoes, Finish, Close, Write, Replace, NoFile, Deliver, Classify,
         EvalKilled, MachineStops, Exited, Delivering,
         MainStep, evalVars
    <3> QED
      BY <3>1 DEF Joined, vars, callVars
  <2>2. CASE main # "wait"
    BY <2>2, DoneStays DEF Course
  <2> QED
    BY <2>1, <2>2
<1>2. main' \notin Underway => closer' = "done" /\ handler' = "no"
  <2>1. CASE main \in Underway /\ main' \notin Underway
    <3>1. \E c \in Calls : Classify(c)
      BY <2>1 DEF EvalNext, RunnerStep, DeadlineGoes, KillGoes, WorkerFails,
         Unconfined, WorkerAnswers, Framed, Signal, HandlerStep, SignalAsks,
         SignalWrites, GracePasses, WatchStep, Turn, TurnLocks, TurnAsks,
         TurnWrites, TurnKills, TurnEnds, Sweep, KilledVictims, KillVictim,
         MainGoes, Joined, Finish, Close, Write, Replace, NoFile, Deliver,
         EvalKilled, MachineStops, Exited, Delivering,
         MainStep, evalVars, Underway
    <3> QED
      BY <3>1 DEF Classify, vars, poolVars, stopVars
  <2>2. CASE main \notin Underway
    <3>1. handler' = "no"
      BY <2>2 DEF Course, EvalNext, RunnerStep, DeadlineGoes, KillGoes, WorkerFails,
         Unconfined, WorkerAnswers, Framed, Signal, HandlerStep, SignalAsks,
         SignalWrites, GracePasses, WatchStep, Turn, TurnLocks, TurnAsks,
         TurnWrites, TurnKills, TurnEnds, Sweep, KilledVictims, KillVictim,
         MainGoes, Joined, Finish, Close, Write, Replace, NoFile, Deliver,
         Classify, EvalKilled, MachineStops, Exited, Delivering,
         MainStep, evalVars, stopVars, Underway,
         Handled
    <3> QED
      BY <2>2, <3>1, CloseMoves DEF Course
  <2> QED
    BY <2>1, <2>2
<1>3. closed' => main' \notin {"wait", "finish"}
  <2>1. main \notin {"wait", "finish"} => main' \notin {"wait", "finish"}
    BY DEF EvalNext, RunnerStep, DeadlineGoes, KillGoes, WorkerFails,
         Unconfined, WorkerAnswers, Framed, Signal, HandlerStep, SignalAsks,
         SignalWrites, GracePasses, WatchStep, Turn, TurnLocks, TurnAsks,
         TurnWrites, TurnKills, TurnEnds, Sweep, KilledVictims, KillVictim,
         MainGoes, Joined, Finish, Close, Write, Replace, NoFile, Deliver,
         Classify, EvalKilled, MachineStops, Exited, Delivering,
         MainStep, evalVars
  <2> QED
    BY <2>1, CloseMoves DEF Course
<1>4. \A c \in Calls : result'[c] # "closed"
  <2>1. CASE ~closed'
    BY <1>0, <2>1 DEF PoolSide, NotTurned
  <2>2. CASE closed'
    <3>1. main \notin {"wait", "finish"}
      BY <2>2, CloseMoves DEF Course
    <3> QED
      BY <3>1, DoneStays DEF Course
  <2> QED
    BY <2>1, <2>2
<1>5. predicate' # NoPredicate => main' \notin Underway
  BY DEF Course, EvalNext, RunnerStep, DeadlineGoes, KillGoes, WorkerFails,
         Unconfined, WorkerAnswers, Framed, Signal, HandlerStep, SignalAsks,
         SignalWrites, GracePasses, WatchStep, Turn, TurnLocks, TurnAsks,
         TurnWrites, TurnKills, TurnEnds, Sweep, KilledVictims, KillVictim,
         MainGoes, Joined, Finish, Close, Write, Replace, NoFile, Deliver,
         Classify, EvalKilled, MachineStops, Exited, Delivering,
         MainStep, evalVars, tellVars, Underway
<1>6. NoPredicate' = NoPredicate /\ Underway' = Underway
  BY DEF NoPredicate, Underway
<1> QED
  BY <1>1, <1>2, <1>3, <1>4, <1>5, <1>6 DEF Course

-----------------------------------------------------------------------------
(* A stop is asked for once, and its file is made by who asked. *)

StopTypes ==
  /\ asked \in {"no", "signal", "file"}
  /\ stopFile \in BOOLEAN /\ graceOver \in BOOLEAN
  /\ killed \in BOOLEAN /\ stopped \in BOOLEAN

Stops ==
  /\ StopTypes
  /\ asked = "no" => /\ handler # "write" /\ watch # "write"
                     /\ ~stopFile /\ ~killed /\ ~graceOver
  /\ handler = "write" => watch # "write"
  /\ handler = "write" \/ watch = "write" => ~stopFile
  /\ killed => graceOver
  /\ stopped => stopFile

LEMMA StopsStill ==
  ASSUME Stops, UNCHANGED <<asked, stopFile, graceOver, killed, stopped>>,
         handler' = handler \/ handler' # "write",
         watch' = watch \/ watch' # "write"
  PROVE  Stops'
BY DEF Stops, StopTypes

LEMMA StopsStep == ASSUME Stops, [EvalNext]_evalVars PROVE Stops'
<1>1. CASE PoolGoes \/ Close \/ \E c \in Calls : Unconfined(c) \/ KillVictim(c)
  <2>1. /\ UNCHANGED <<asked, stopFile, graceOver, killed, stopped, handler>>
        /\ watch' = watch \/ watch' # "write"
    BY <1>1, PoolGoesFrame, OtherFrames DEF Unconfined, KillVictim, stopVars
  <2> QED
    BY <2>1, StopsStill
<1>2. ASSUME NEW c \in Calls, NEW a \in Says, WorkerAnswers(c, a) PROVE Stops'
  <2>1. UNCHANGED stopVars /\ stopped' \in {FALSE} \union (IF stopFile THEN {TRUE} ELSE {})
    BY <1>2 DEF WorkerAnswers
  <2> QED
    BY <2>1 DEF Stops, StopTypes, stopVars
<1>3. CASE SignalAsks
  BY <1>3 DEF SignalAsks, Stops, StopTypes
<1>4. CASE SignalWrites
  BY <1>4 DEF SignalWrites, Stops, StopTypes
<1>5. CASE GracePasses
  BY <1>5 DEF GracePasses, Stops, StopTypes
<1>6. CASE TurnAsks
  BY <1>6 DEF TurnAsks, Stops, StopTypes
<1>7. CASE TurnWrites
  BY <1>7 DEF TurnWrites, Stops, StopTypes
<1>8. CASE TurnKills
  BY <1>8 DEF TurnKills, TimeIsUp, Stops, StopTypes
<1>9. CASE \/ Signal \/ Turn \/ TurnLocks \/ TurnEnds \/ Sweep \/ KilledVictims
           \/ Joined \/ Finish \/ Write \/ Replace \/ NoFile \/ Deliver
           \/ (\E c \in Calls : Classify(c)) \/ EvalKilled \/ MachineStops \/ UNCHANGED evalVars
  <2>1. /\ UNCHANGED <<asked, stopFile, graceOver, killed, stopped>>
        /\ handler' = handler \/ handler' # "write"
        /\ watch' = watch \/ watch' # "write"
    BY <1>9 DEF Signal, Turn, TurnLocks, TurnEnds, Sweep, KilledVictims, Joined,
       Finish, Write, Replace, NoFile, Deliver, Classify, EvalKilled, MachineStops, evalVars,
       stopVars
  <2> QED
    BY <2>1, StopsStill
<1> QED
  BY <1>1, <1>2, <1>3, <1>4, <1>5, <1>6, <1>7, <1>8, <1>9, EvalSteps
  DEF Aside, HandlerStep

-----------------------------------------------------------------------------
(* A worker that answered that it stopped serves nothing else. *)

Before == {"new", "get", "got", "poll", "drop", "dropKill", "dropWait", "start",
           "hello", "register", "late", "lateWait", "ask", "send"}

StoppedLast ==
  /\ \A c \in Calls : pc[c] \in Before => job[c] = NoCall /\ ~stopped
  /\ stopped => \A c \in Calls : job[c] = NoCall

LEMMA StoppedLastStep ==
  ASSUME PoolSide, StoppedLast, [EvalNext]_evalVars PROVE StoppedLast'
<1> USE DEF PoolSide, Typed, TypeOK, CallTypes, ProcTypes, Step, Goto
\* a step by which no call gets to one of these places, and no worker a job
<1>0. ASSUME job' = job, stopped' = stopped,
             \A c \in Calls : pc'[c] \in Before => pc[c] \in Before
      PROVE  StoppedLast'
  BY <1>0 DEF StoppedLast
<1>1. CASE Aside \/ Close
  BY <1>0, <1>1, AsideLeaves
     DEF Aside, Signal, HandlerStep, SignalAsks, SignalWrites, GracePasses, Turn,
         TurnLocks, TurnAsks, TurnWrites, TurnKills, TurnEnds, Sweep,
         KilledVictims, Joined, Finish, Write, Replace, NoFile, Deliver,
         Classify, EvalKilled, MachineStops, evalVars, Close, CloseSet, CloserStep, ClosePut,
         CloseDrain, CloseKill, CloseKilled, CloseDone, vars, callVars, procVars
<1>2. ASSUME NEW c \in Calls, Unconfined(c) \/ KillVictim(c) PROVE StoppedLast'
  BY <1>0, <1>2 DEF Unconfined, KillVictim, callVars, procVars, Before
<1>3. ASSUME NEW c \in Calls, DeadlineGoes(c) \/ KillGoes(c) \/ WorkerFails(c)
      PROVE  StoppedLast'
  BY <1>0, <1>3 DEF DeadlineGoes, KillGoes, WorkerFails, Framed, AlarmFire,
     DeadlineStep, AlarmFlag, AlarmKill, KillStep, KillSignal, KillReap,
     OutOfMemory, Crash, Die, callVars, procVars
<1>4. ASSUME NEW c \in Calls, NEW a \in Says, WorkerAnswers(c, a)
      PROVE  StoppedLast'
  <2>1. /\ job[c] # NoCall /\ job' = [job EXCEPT ![c] = NoCall] /\ pc' = pc
    BY <1>4 DEF WorkerAnswers, Answer, Serving, callVars
  <2>2. \A d \in Calls : d = c
    BY OneCallAssumption
  <2>3. pc[c] \notin Before
    BY <2>1 DEF StoppedLast
  <2> QED
    BY <2>1, <2>2, <2>3 DEF StoppedLast
<1>5. ASSUME NEW c \in Calls, RunnerStep(c) PROVE StoppedLast'
  <2>0. stopped' = stopped /\ (Begin(c) \/ CallStep(c))
    BY <1>5 DEF RunnerStep, Framed
  <2>1. CASE Send(c)
    <3>1. /\ pc[c] = "send" /\ pc' \in {[pc EXCEPT ![c] = "cancel"], [pc EXCEPT ![c] = "read"]}
      BY <2>1 DEF Send
    <3>2. ~stopped /\ \A d \in Calls : d = c
      BY <3>1, OneCallAssumption DEF StoppedLast, Before
    <3> QED
      BY <2>0, <3>1, <3>2 DEF StoppedLast, Before
  <2>2. CASE ~Send(c)
    <3>1. job' = job
      BY <2>0, <2>2 DEF Begin, CallStep, Get, PassOn, Recheck, Poll, Drop, Discard,
         Dispose, Disposed, Spawn, HelloOk, HelloFail, Register, Late, Ask, Read,
         Cancel, Forget, Release, Report, procVars
    <3>2. pc'[c] \in Before => pc[c] \in Before
      BY <2>0, <2>2 DEF Begin, CallStep, Get, PassOn, Recheck, Poll, Drop, Discard,
         Dispose, Disposed, Spawn, HelloOk, HelloFail, Register, Late, Ask, Read,
         Cancel, Forget, Release, Report, Before
    <3>3. \A d \in Calls : d = c
      BY OneCallAssumption
    <3> QED
      BY <1>0, <2>0, <3>1, <3>2, <3>3
  <2> QED
    BY <2>1, <2>2
<1> QED
  BY <1>1, <1>2, <1>3, <1>4, <1>5, EvalSteps DEF PoolGoes

-----------------------------------------------------------------------------
(* What the receipt says. *)

\* Nothing that a receipt may say happened is taken back.
LEMMA StopsStay ==
  ASSUME Stops, StoppedLast, [EvalNext]_evalVars
  PROVE  /\ asked # "no" => asked' # "no"
         /\ killed => killed'
         /\ graceOver => graceOver'
         /\ stopFile => stopFile'
         /\ stopped => stopped'
<1>1. CASE PoolGoes \/ Close \/ \E c \in Calls : Unconfined(c) \/ KillVictim(c)
  BY <1>1, PoolGoesFrame, OtherFrames DEF Unconfined, KillVictim, stopVars
<1>2. ASSUME NEW c \in Calls, NEW a \in Says, WorkerAnswers(c, a)
      PROVE  ~stopped /\ UNCHANGED stopVars
  BY <1>2 DEF WorkerAnswers, Answer, Serving, StoppedLast
<1>3. CASE SignalAsks \/ SignalWrites \/ GracePasses \/ TurnAsks \/ TurnWrites \/ TurnKills
  BY <1>3 DEF SignalAsks, SignalWrites, GracePasses, TurnAsks, TurnWrites,
              TurnKills, Stops, StopTypes
<1>4. CASE \/ Signal \/ Turn \/ TurnLocks \/ TurnEnds \/ Sweep \/ KilledVictims
           \/ Joined \/ Finish \/ Write \/ Replace \/ NoFile \/ Deliver
           \/ (\E c \in Calls : Classify(c)) \/ EvalKilled \/ MachineStops \/ UNCHANGED evalVars
  <2>1. UNCHANGED <<asked, stopFile, graceOver, killed, stopped>>
    BY <1>4 DEF Signal, Turn, TurnLocks, TurnEnds, Sweep, KilledVictims, Joined,
       Finish, Write, Replace, NoFile, Deliver, Classify, EvalKilled, MachineStops, evalVars,
       stopVars
  <2> QED
    BY <2>1
<1> QED
  BY <1>1, <1>2, <1>3, <1>4, EvalSteps DEF Aside, HandlerStep, stopVars

LEMMA PredicateMoves ==
  ASSUME [EvalNext]_evalVars
  PROVE  \/ predicate' = predicate
         \/ \E c \in Calls : /\ main = "close" /\ result[c] # "nostart"
                             /\ predicate' = Tell(c)
                             /\ UNCHANGED <<vars, stopVars, stopped>>
<1>1. CASE ~\E c \in Calls : Classify(c)
  BY <1>1, PoolGoesFrame, OtherFrames, EvalSteps
     DEF Aside, Signal, HandlerStep, SignalAsks, SignalWrites, GracePasses, Turn,
         TurnLocks, TurnAsks, TurnWrites, TurnKills, TurnEnds, Sweep,
         KilledVictims, Joined, Finish, Write, Replace, NoFile, Deliver,
         EvalKilled, MachineStops, evalVars, tellVars, Unconfined, KillVictim
<1>2. ASSUME NEW c \in Calls, Classify(c)
      PROVE  predicate' = predicate
               \/ /\ main = "close" /\ result[c] # "nostart"
                  /\ predicate' = Tell(c)
                  /\ UNCHANGED <<vars, stopVars, stopped>>
  BY <1>2 DEF Classify
<1> QED
  BY <1>1, <1>2

\* What is told of a call that has ended.
LEMMA TellFacts ==
  ASSUME PoolSide, Stops, Course, NEW c \in Calls, pc[c] = "done"
  PROVE  /\ result[c] \in {"ok", "bad", "E610", "E611", "E000", "nostart"}
         /\ Tell(c).code = "E615" => asked # "no"
         /\ Tell(c).stop # "none" => asked # "no"
         /\ Tell(c).stop = "at a turn" => stopped /\ stopFile
         /\ Tell(c).stop = "killed" => killed /\ graceOver
         /\ Tell(c).complete => /\ result[c] \in {"ok", "bad"}
                                /\ answer[c] = result[c]
                                /\ Tell(c).stop # "killed"
<1>1. result[c] \in {"ok", "bad", "E610", "E611", "E000", "nostart"}
  BY DEF PoolSide, Ended, Course, Typed, TypeOK, CallTypes, Results
<1>2. result[c] \in {"ok", "bad"} => answer[c] = result[c]
  BY DEF PoolSide, Ended
<1>3. Code(c) = "E615" => stopped
  BY <1>1 DEF Code
<1>4. stopped => stopFile /\ asked # "no"
  BY DEF Stops, StopTypes
<1>5. CASE asked # "no" /\ killed /\ Code(c) \notin {"E610", "E611", "E615"}
  <2>1. Tell(c) = [code |-> "E615", complete |-> FALSE, stop |-> "killed"]
    BY <1>5 DEF Tell, Told
  <2> QED
    BY <1>1, <1>5, <2>1 DEF Stops
<1>6. CASE ~(asked # "no" /\ killed /\ Code(c) \notin {"E610", "E611", "E615"})
  <2>1. /\ Tell(c).code = Code(c)
        /\ Tell(c).complete <=> Answered(c)
        /\ Tell(c).stop = CASE asked = "no" -> "none"
                            [] asked # "no" /\ Code(c) = "E615" -> "at a turn"
                            [] OTHER -> "had ended"
    BY <1>6 DEF Tell
  <2>2. /\ Tell(c).stop # "killed"
        /\ Tell(c).stop # "none" => asked # "no"
        /\ Tell(c).stop = "at a turn" => Code(c) = "E615"
    BY <2>1
  <2> QED
    BY <1>1, <1>2, <1>3, <1>4, <2>1, <2>2 DEF Answered
<1> QED
  BY <1>5, <1>6

LEMMA StopToldStep ==
  ASSUME PoolSide, Course, Stops, StoppedLast, StopTold, [EvalNext]_evalVars
  PROVE  StopTold'
<1>1. CASE predicate' = predicate
  BY <1>1, StopsStay DEF StopTold, NoPredicate
<1>2. ASSUME NEW c \in Calls, main = "close", predicate' = Tell(c),
             UNCHANGED <<vars, stopVars, stopped>>
      PROVE  StopTold'
  <2>1. pc[c] = "done"
    BY <1>2 DEF Course
  <2> QED
    BY <1>2, <2>1, StopsStay, TellFacts DEF StopTold
<1> QED
  BY <1>1, <1>2, PredicateMoves

LEMMA CompleteStep ==
  ASSUME PoolSide, Course, Stops, CompleteIsOwn, [EvalNext]_evalVars
  PROVE  CompleteIsOwn'
<1>1. CASE predicate' = predicate
  <2> SUFFICES ASSUME NEW c \in Calls, predicate.complete
               PROVE  /\ result'[c] \in {"ok", "bad"} /\ answer'[c] = result'[c]
                      /\ predicate.stop # "killed"
    BY <1>1 DEF CompleteIsOwn
  <2>1. predicate # NoPredicate
    BY DEF NoPredicate
  <2>2. pc[c] = "done"
    BY <2>1 DEF Course, Underway
  <2> QED
    BY <2>2, DoneStays DEF CompleteIsOwn
<1>2. ASSUME NEW c \in Calls, main = "close", predicate' = Tell(c),
             UNCHANGED <<vars, stopVars, stopped>>
      PROVE  CompleteIsOwn'
  <2>1. pc[c] = "done" /\ \A d \in Calls : d = c
    BY <1>2, OneCallAssumption DEF Course
  <2>2. result' = result /\ answer' = answer
    BY <1>2 DEF vars, callVars
  <2> QED
    BY <1>2, <2>1, <2>2, TellFacts DEF CompleteIsOwn
<1> QED
  BY <1>1, <1>2, PredicateMoves

-----------------------------------------------------------------------------
(* How it is written. *)

Written ==
  /\ main # "crashed" => file \in {"old", "whole"}
  /\ main = "replace" => temp = "whole"
  /\ main \notin {"write", "replace", "killed", "crashed"} => temp = "none"
  /\ status # "none" => main \in {"exited", "crashed"}
  /\ status = "result" /\ main # "crashed" => /\ "file" \in sinks => file = "whole"
                                              /\ "url" \in sinks => sent

LEMMA WrittenStill ==
  ASSUME Written, UNCHANGED <<main, tellVars>> PROVE Written'
BY DEF Written, tellVars

LEMMA WrittenStep == ASSUME Written, [EvalNext]_evalVars PROVE Written'
<1>1. CASE \/ PoolGoes \/ Close \/ \E c \in Calls : Unconfined(c) \/ KillVictim(c)
           \/ \E c \in Calls : \E a \in Says : WorkerAnswers(c, a)
  BY <1>1, PoolGoesFrame, OtherFrames, WrittenStill DEF Unconfined, KillVictim
<1>2. CASE \/ Signal \/ HandlerStep \/ GracePasses \/ Turn \/ TurnLocks \/ TurnAsks
           \/ TurnWrites \/ TurnKills \/ TurnEnds \/ Sweep \/ KilledVictims
           \/ UNCHANGED evalVars
  BY <1>2, WrittenStill
     DEF Signal, HandlerStep, SignalAsks, SignalWrites, GracePasses, Turn,
         TurnLocks, TurnAsks, TurnWrites, TurnKills, TurnEnds, Sweep,
         KilledVictims, evalVars
<1>3. CASE Joined \/ Finish \/ NoFile \/ EvalKilled \/ MachineStops
  BY <1>3 DEF Joined, Finish, NoFile, EvalKilled, MachineStops, MainStep, Written,
              Delivering, tellVars
<1>4. CASE Write
  BY <1>4 DEF Write, MainStep, Written
<1>5. CASE Replace
  BY <1>5 DEF Replace, MainStep, Written
<1>6. CASE Deliver
  BY <1>6 DEF Deliver, MainStep, Written
<1>7. ASSUME NEW c \in Calls, Classify(c) PROVE Written'
  BY <1>7 DEF Classify, Written
<1> QED
  BY <1>1, <1>2, <1>3, <1>4, <1>5, <1>6, <1>7, EvalSteps DEF Aside

-----------------------------------------------------------------------------
(* The types of what eval adds to its pool. *)

ThreadTypes ==
  /\ main \in {"wait", "finish", "close", "file", "write", "replace", "url",
               "exited", "killed", "crashed"}
  /\ handler \in {"no", "locked", "stuck", "write"}
  /\ signals \in 0..MaxSignals /\ lock \in {"free", "main", "watch"}
  /\ watch \in {"wait", "turn", "locked", "write", "sweep", "kill", "reap",
                "gone"}
  /\ victims \subseteq Calls

TellTypes ==
  /\ predicate.code \in {"none", "ok", "bad", "E000", "E610", "E611", "E615"}
  /\ predicate.complete \in BOOLEAN
  /\ predicate.stop \in {"none", "killed", "at a turn", "had ended"}
  /\ temp \in {"none", "part", "whole"} /\ file \in {"old", "part", "whole"}
  /\ sent \in BOOLEAN
  /\ status \in {"none", "refused", "result", "undelivered"}

LEMMA ThreadTypesStep ==
  ASSUME PoolSide, ThreadTypes, [EvalNext]_evalVars PROVE ThreadTypes'
<1> USE EvalAssumption DEF ThreadTypes
<1>1. CASE \/ PoolGoes \/ Close \/ \E c \in Calls : Unconfined(c)
           \/ \E c \in Calls : \E a \in Says : WorkerAnswers(c, a)
  BY <1>1, PoolGoesFrame, OtherFrames DEF Unconfined, stopVars
<1>2. ASSUME NEW w \in Calls, KillVictim(w) PROVE ThreadTypes'
  BY <1>2 DEF KillVictim
<1>3. CASE Signal
  <2>1. signals' \in 0..MaxSignals
    BY <1>3 DEF Signal
  <2> QED
    BY <1>3, <2>1 DEF Signal
<1>4. CASE HandlerStep \/ GracePasses
  BY <1>4 DEF HandlerStep, SignalAsks, SignalWrites, GracePasses
<1>5. CASE Turn \/ TurnLocks \/ TurnAsks \/ TurnWrites \/ TurnKills \/ TurnEnds
             \/ KilledVictims
  BY <1>5 DEF Turn, TurnLocks, TurnAsks, TurnWrites, TurnKills, TurnEnds,
              KilledVictims
<1>6. CASE Sweep
  BY <1>6 DEF Sweep, PoolSide, Typed, TypeOK, PoolTypes
<1>7. CASE Joined \/ Finish \/ Write \/ Replace \/ NoFile \/ Deliver
             \/ EvalKilled \/ MachineStops
             \/ UNCHANGED evalVars
  BY <1>7 DEF Joined, Finish, Write, Replace, NoFile, Deliver, EvalKilled,
              MachineStops,
              MainStep, evalVars, stopVars
<1>8. ASSUME NEW c \in Calls, Classify(c) PROVE ThreadTypes'
  BY <1>8 DEF Classify, stopVars
<1> QED
  BY <1>1, <1>2, <1>3, <1>4, <1>5, <1>6, <1>7, <1>8, EvalSteps DEF Aside

LEMMA TellTyped ==
  ASSUME NEW c \in Calls, Code(c) \in {"ok", "bad", "E000", "E610", "E611", "E615"}
  PROVE  /\ Tell(c).code \in {"ok", "bad", "E000", "E610", "E611", "E615"}
         /\ Tell(c).complete \in BOOLEAN
         /\ Tell(c).stop \in {"none", "killed", "at a turn", "had ended"}
<1>1. CASE asked # "no" /\ killed /\ Code(c) \notin {"E610", "E611", "E615"}
  <2>1. Tell(c) = [code |-> "E615", complete |-> FALSE, stop |-> "killed"]
    BY <1>1 DEF Tell, Told
  <2> QED
    BY <2>1
<1>2. CASE ~(asked # "no" /\ killed /\ Code(c) \notin {"E610", "E611", "E615"})
  <2> DEFINE s == CASE asked = "no" -> "none"
                    [] asked # "no" /\ Code(c) = "E615" -> "at a turn"
                    [] OTHER -> "had ended"
  <2>1. Tell(c) = [code |-> Code(c), complete |-> Answered(c), stop |-> s]
    BY <1>2 DEF Tell
  <2>2. s \in {"none", "at a turn", "had ended"}
    OBVIOUS
  <2>3. Answered(c) = TRUE \/ Answered(c) = FALSE
    BY DEF Answered
  <2> HIDE DEF s
  <2>4. Tell(c).complete = Answered(c) /\ Tell(c).code = Code(c) /\ Tell(c).stop = s
    BY <2>1
  <2> QED
    BY <2>2, <2>3, <2>4
<1> QED
  BY <1>1, <1>2

LEMMA TellTypesStep ==
  ASSUME PoolSide, Course, Stops, Written, TellTypes, [EvalNext]_evalVars PROVE TellTypes'
<1> USE DEF TellTypes
<1>1. /\ predicate'.code \in {"none", "ok", "bad", "E000", "E610", "E611", "E615"}
      /\ predicate'.complete \in BOOLEAN
      /\ predicate'.stop \in {"none", "killed", "at a turn", "had ended"}
  <2>1. CASE predicate' = predicate
    BY <2>1
  <2>2. ASSUME NEW c \in Calls, main = "close", result[c] # "nostart"
        PROVE  /\ Tell(c).code \in {"ok", "bad", "E000", "E610", "E611", "E615"}
               /\ Tell(c).complete \in BOOLEAN
               /\ Tell(c).stop \in {"none", "killed", "at a turn", "had ended"}
    <3>1. result[c] \in {"ok", "bad", "E610", "E611", "E000"}
      BY <2>2, TellFacts DEF Course
    <3>2. Code(c) \in {"ok", "bad", "E000", "E610", "E611", "E615"}
      BY <3>1 DEF Code
    <3> QED
      BY <3>2, TellTyped
  <2> QED
    BY <2>1, <2>2, PredicateMoves
<1>2. /\ temp' \in {"none", "part", "whole"} /\ file' \in {"old", "part", "whole"}
      /\ sent' \in BOOLEAN
      /\ status' \in {"none", "refused", "result", "undelivered"}
  <2>1. CASE ~(Write \/ Replace \/ Deliver \/ MachineStops \/ \E c \in Calls : Classify(c))
    <3>1. UNCHANGED <<temp, file, sent, status>>
      BY <2>1, PoolGoesFrame, OtherFrames, EvalSteps
         DEF Aside, Signal, HandlerStep, SignalAsks, SignalWrites, GracePasses,
             Turn, TurnLocks, TurnAsks, TurnWrites, TurnKills, TurnEnds, Sweep,
             KilledVictims, Joined, Finish, NoFile, EvalKilled, MachineStops, evalVars,
             tellVars, Unconfined, KillVictim
    <3> QED
      BY <3>1
  <2>2. CASE Write
    BY <2>2 DEF Write
  <2>3. CASE Replace
    BY <2>3 DEF Replace, MainStep, Written
  <2>4. CASE Deliver
    BY <2>4 DEF Deliver
  <2>6. CASE MachineStops
    BY <2>6 DEF MachineStops
  <2>5. ASSUME NEW c \in Calls, Classify(c)
        PROVE  /\ temp' = temp /\ file' = file /\ sent' = sent
               /\ status' = status \/ status' = "refused"
    BY <2>5 DEF Classify
  <2> QED
    BY <2>1, <2>2, <2>3, <2>4, <2>5, <2>6
<1> QED
  BY <1>1, <1>2

-----------------------------------------------------------------------------
(* The theorems. *)

IInv == PoolSide /\ Course /\ Stops /\ StoppedLast /\ Written
          /\ StopTold /\ CompleteIsOwn /\ ThreadTypes /\ TellTypes

LEMMA EvalInvariant == EvalSpec => []IInv
<1>1. EvalInit => IInv
  <2> SUFFICES ASSUME EvalInit PROVE IInv
    OBVIOUS
  <2>1. Init
    BY DEF EvalInit
  <2>2. Ended
    BY <2>1 DEF Init, Ended
  <2>3. NotTurned
    BY <2>1, TokenAssumption DEF Init, NotTurned
  <2>4. Course
    BY <2>1 DEF EvalInit, Init, Course, Underway
  <2>5. Stops
    BY DEF EvalInit, Stops, StopTypes
  <2>6. StoppedLast
    BY <2>1 DEF EvalInit, Init, StoppedLast
  <2>7. Written
    BY DEF EvalInit, Written
  <2>8. StopTold /\ CompleteIsOwn
    BY DEF EvalInit, StopTold, CompleteIsOwn, NoPredicate
  <2>9. ThreadTypes /\ TellTypes
    <3>1. ThreadTypes
      BY EvalAssumption DEF EvalInit, ThreadTypes
    <3>2. /\ predicate.code = "none" /\ predicate.complete = FALSE
          /\ predicate.stop = "none"
      BY DEF EvalInit, NoPredicate
    <3>3. TellTypes
      BY <3>2 DEF EvalInit, TellTypes
    <3> QED
      BY <3>1, <3>3
  <2> QED
    BY <2>1, <2>2, <2>3, <2>4, <2>5, <2>6, <2>7, <2>8, <2>9, TypedInit, TrackedInit
    DEF IInv, PoolSide
<1>2. IInv /\ [EvalNext]_evalVars => IInv'
  BY PoolSideStep, CourseStep, StopsStep, StoppedLastStep, WrittenStep,
     StopToldStep, CompleteStep, ThreadTypesStep, TellTypesStep DEF IInv
<1> QED
  BY <1>1, <1>2, PTL DEF EvalSpec

\* The types of eval and of its pool: no call of it is left without a result,
\* nor told that its pool was closed.
THEOREM EvalTypes == EvalSpec => []EvalTypeOK
<1>1. IInv => EvalTypeOK
  BY DEF IInv, PoolSide, Typed, ThreadTypes, TellTypes, Stops, StopTypes, EvalTypeOK
<1> QED
  BY <1>1, EvalInvariant, PTL

\* A receipt says that a run was stopped, and how, only when somebody asked and
\* that is how it ended, whichever of the threads came first.
THEOREM ReceiptToldRight == EvalSpec => []StopTold
<1>1. IInv => StopTold
  BY DEF IInv
<1> QED
  BY <1>1, EvalInvariant, PTL

\* A complete receipt is that of a run that answered by itself.
THEOREM ReceiptIsOwn == EvalSpec => []CompleteIsOwn
<1>1. IInv => CompleteIsOwn
  BY DEF IInv
<1> QED
  BY <1>1, EvalInvariant, PTL

\* Whenever eval is killed the receipt's file is the old one or the whole new
\* one, and an exit that says so delivered it: all but a machine that stops.
THEOREM ReceiptIsWhole == EvalSpec => []ReceiptWhole
<1>1. IInv => ReceiptWhole
  BY DEF IInv, Written, ReceiptWhole
<1> QED
  BY <1>1, EvalInvariant, PTL

\* When eval exits every process of the run was ended, or is being.
THEOREM EvalLeavesNothing == EvalSpec => []NothingLeft
<1>1. IInv => NothingLeft
  <2> SUFFICES ASSUME IInv, main = "exited", NEW w \in Calls, Running(w), kill[w] = "no"
               PROVE  FALSE
    BY DEF NothingLeft
  <2>1. closer = "done" /\ \A c \in Calls : pc[c] = "done"
    BY DEF IInv, Course, Underway
  <2>2. w \notin Listed
    BY <2>1 DEF IInv, PoolSide, Tracked, CloserPhase, Listed
  <2>3. Leaver(w)
    BY <2>2 DEF IInv, PoolSide, Tracked, KeptTracked, Kept
  <2> QED
    BY <2>1, <2>3 DEF Leaver, Leaving
<1> QED
  BY <1>1, EvalInvariant, PTL

=============================================================================
