----------------------------- MODULE PoolProofs -----------------------------
(***************************************************************************)
(* Theorems about Pool for any number of calls and slots, with or without  *)
(* a deadline, a memory cap and a thread that closes the pool: what is     *)
(* typed, held and quiet; and, resting on that, what a pool conserves and  *)
(* promises: its slots, the processes it leaves, the report of a deadline, *)
(* and that Pool implements PoolPromise.                                   *)
(***************************************************************************)
EXTENDS Pool, FiniteSetTheorems, TLAPS

\* what a call holds at each place of _use
SlotPlace ==
  \A c \in Calls :
    /\ pc[c] \in {"poll", "drop", "dropKill", "dropWait", "hello", "register",
                  "late", "lateWait", "ask", "send", "read", "cancel",
                  "forget", "forgetKill", "forgetWait"} => slot[c] \in Calls
    /\ pc[c] = "got" => slot[c] \in Slots
    /\ pc[c] = "start" => slot[c] = None
    /\ pc[c] = "release" => slot[c] \in Calls \union {None}
    /\ pc[c] \in {"new", "get", "report", "done"} => slot[c] = NoSlot

Typed == TypeOK /\ SlotPlace

LEMMA TypedInit == Init => Typed
<1> SUFFICES ASSUME Init PROVE Typed
  OBVIOUS
<1> USE DEF Init, Slots
<1>1. PoolTypes
  <2>1. free \in [1..Size -> Slots] /\ Size \in Nat
    BY SizeAssumption
  <2>2. free \in Seq(Slots)
    BY <2>1
  <2> QED
    BY <2>2 DEF PoolTypes
<1>2. CallTypes
  BY DEF CallTypes, Places, Results
<1>3. TimeTypes
  BY DEF TimeTypes, Alarms
<1>4. ProcTypes
  BY DEF ProcTypes, Ends
<1>5. SlotPlace
  BY DEF SlotPlace
<1> QED
  BY <1>1, <1>2, <1>3, <1>4, <1>5 DEF Typed, TypeOK

LEMMA TypedStep == Typed /\ [Next]_vars => Typed'
<1> SUFFICES ASSUME Typed, [Next]_vars PROVE Typed'
  OBVIOUS
<1> USE TokenAssumption DEF Typed, TypeOK, SlotPlace, Slots, Step, Goto, Put,
        poolVars, callVars, timeVars, procVars, Places, Results, Alarms, Ends
<1>1. ASSUME NEW c \in Calls, Begin(c) PROVE Typed'
  <2>1. PoolTypes'
    BY <1>1 DEF Begin, PoolTypes
  <2>2. CallTypes'
    BY <1>1 DEF Begin, CallTypes
  <2>3. TimeTypes'
    BY <1>1 DEF Begin, TimeTypes
  <2>4. ProcTypes'
    BY <1>1 DEF Begin, ProcTypes
  <2>5. SlotPlace'
    BY <1>1 DEF Begin, CallTypes, PoolTypes
  <2> QED
    BY <2>1, <2>2, <2>3, <2>4, <2>5 DEF Typed, TypeOK
<1>2. ASSUME NEW c \in Calls, Get(c) PROVE Typed'
  <2>1. PoolTypes'
    BY <1>2 DEF Get, PoolTypes
  <2>2. CallTypes'
    <3>1. Head(free) \in Slots
      BY <1>2 DEF Get, PoolTypes
    <3> QED
      BY <1>2, <3>1 DEF Get, CallTypes
  <2>3. TimeTypes'
    BY <1>2 DEF Get, TimeTypes
  <2>4. ProcTypes'
    BY <1>2 DEF Get, ProcTypes
  <2>5. SlotPlace'
    BY <1>2 DEF Get, CallTypes, PoolTypes
  <2> QED
    BY <2>1, <2>2, <2>3, <2>4, <2>5 DEF Typed, TypeOK
<1>3. ASSUME NEW c \in Calls, PassOn(c) PROVE Typed'
  <2>1. PoolTypes'
    BY <1>3 DEF PassOn, PoolTypes
  <2>2. CallTypes'
    BY <1>3 DEF PassOn, CallTypes
  <2>3. TimeTypes'
    BY <1>3 DEF PassOn, TimeTypes
  <2>4. ProcTypes'
    BY <1>3 DEF PassOn, ProcTypes
  <2>5. SlotPlace'
    BY <1>3 DEF PassOn, CallTypes, PoolTypes
  <2> QED
    BY <2>1, <2>2, <2>3, <2>4, <2>5 DEF Typed, TypeOK
<1>4. ASSUME NEW c \in Calls, Recheck(c) PROVE Typed'
  <2>1. PoolTypes'
    BY <1>4 DEF Recheck, PoolTypes
  <2>2. CallTypes'
    BY <1>4 DEF Recheck, CallTypes
  <2>3. TimeTypes'
    BY <1>4 DEF Recheck, TimeTypes
  <2>4. ProcTypes'
    BY <1>4 DEF Recheck, ProcTypes
  <2>5. SlotPlace'
    BY <1>4 DEF Recheck, CallTypes, PoolTypes
  <2> QED
    BY <2>1, <2>2, <2>3, <2>4, <2>5 DEF Typed, TypeOK
<1>5. ASSUME NEW c \in Calls, Poll(c) PROVE Typed'
  <2>1. PoolTypes'
    BY <1>5 DEF Poll, PoolTypes
  <2>2. CallTypes'
    BY <1>5 DEF Poll, CallTypes
  <2>3. TimeTypes'
    BY <1>5 DEF Poll, TimeTypes
  <2>4. ProcTypes'
    BY <1>5 DEF Poll, ProcTypes
  <2>5. SlotPlace'
    BY <1>5 DEF Poll, CallTypes, PoolTypes
  <2> QED
    BY <2>1, <2>2, <2>3, <2>4, <2>5 DEF Typed, TypeOK
<1>6. ASSUME NEW c \in Calls, Drop(c) PROVE Typed'
  <2>1. PoolTypes'
    BY <1>6 DEF Drop, Discard, Dispose, Disposed, Claim, PoolTypes
  <2>2. CallTypes'
    BY <1>6 DEF Drop, Discard, Dispose, Disposed, Claim, CallTypes
  <2>3. TimeTypes'
    BY <1>6 DEF Drop, Discard, Dispose, Disposed, Claim, TimeTypes
  <2>4. ProcTypes'
    BY <1>6 DEF Drop, Discard, Dispose, Disposed, Claim, ProcTypes
  <2>5. SlotPlace'
    BY <1>6 DEF Drop, Discard, Dispose, Disposed, Claim, CallTypes, PoolTypes
  <2> QED
    BY <2>1, <2>2, <2>3, <2>4, <2>5 DEF Typed, TypeOK
<1>7. ASSUME NEW c \in Calls, Spawn(c) PROVE Typed'
  <2>1. PoolTypes'
    BY <1>7 DEF Spawn, PoolTypes
  <2>2. CallTypes'
    BY <1>7 DEF Spawn, CallTypes
  <2>3. TimeTypes'
    BY <1>7 DEF Spawn, TimeTypes
  <2>4. ProcTypes'
    BY <1>7 DEF Spawn, ProcTypes
  <2>5. SlotPlace'
    BY <1>7 DEF Spawn, CallTypes, PoolTypes
  <2> QED
    BY <2>1, <2>2, <2>3, <2>4, <2>5 DEF Typed, TypeOK
<1>8. ASSUME NEW c \in Calls, HelloOk(c) PROVE Typed'
  <2>1. PoolTypes'
    BY <1>8 DEF HelloOk, PoolTypes
  <2>2. CallTypes'
    BY <1>8 DEF HelloOk, CallTypes
  <2>3. TimeTypes'
    BY <1>8 DEF HelloOk, TimeTypes
  <2>4. ProcTypes'
    BY <1>8 DEF HelloOk, ProcTypes
  <2>5. SlotPlace'
    BY <1>8 DEF HelloOk, CallTypes, PoolTypes
  <2> QED
    BY <2>1, <2>2, <2>3, <2>4, <2>5 DEF Typed, TypeOK
<1>9. ASSUME NEW c \in Calls, HelloFail(c) PROVE Typed'
  <2>1. PoolTypes'
    BY <1>9 DEF HelloFail, PoolTypes
  <2>2. CallTypes'
    BY <1>9 DEF HelloFail, CallTypes
  <2>3. TimeTypes'
    BY <1>9 DEF HelloFail, TimeTypes
  <2>4. ProcTypes'
    BY <1>9 DEF HelloFail, ProcTypes
  <2>5. SlotPlace'
    BY <1>9 DEF HelloFail, CallTypes, PoolTypes
  <2> QED
    BY <2>1, <2>2, <2>3, <2>4, <2>5 DEF Typed, TypeOK
<1>10. ASSUME NEW c \in Calls, Register(c) PROVE Typed'
  <2>1. PoolTypes'
    BY <1>10 DEF Register, PoolTypes
  <2>2. CallTypes'
    BY <1>10 DEF Register, CallTypes
  <2>3. TimeTypes'
    BY <1>10 DEF Register, TimeTypes
  <2>4. ProcTypes'
    BY <1>10 DEF Register, ProcTypes
  <2>5. SlotPlace'
    BY <1>10 DEF Register, CallTypes, PoolTypes
  <2> QED
    BY <2>1, <2>2, <2>3, <2>4, <2>5 DEF Typed, TypeOK
<1>11. ASSUME NEW c \in Calls, Late(c) PROVE Typed'
  <2>1. PoolTypes'
    BY <1>11 DEF Late, Dispose, Disposed, Claim, PoolTypes
  <2>2. CallTypes'
    BY <1>11 DEF Late, Dispose, Disposed, Claim, CallTypes
  <2>3. TimeTypes'
    BY <1>11 DEF Late, Dispose, Disposed, Claim, TimeTypes
  <2>4. ProcTypes'
    BY <1>11 DEF Late, Dispose, Disposed, Claim, ProcTypes
  <2>5. SlotPlace'
    BY <1>11 DEF Late, Dispose, Disposed, Claim, CallTypes, PoolTypes
  <2> QED
    BY <2>1, <2>2, <2>3, <2>4, <2>5 DEF Typed, TypeOK
<1>12. ASSUME NEW c \in Calls, Ask(c) PROVE Typed'
  <2>1. PoolTypes'
    BY <1>12 DEF Ask, PoolTypes
  <2>2. CallTypes'
    BY <1>12 DEF Ask, CallTypes
  <2>3. TimeTypes'
    BY <1>12 DEF Ask, TimeTypes
  <2>4. ProcTypes'
    BY <1>12 DEF Ask, ProcTypes
  <2>5. SlotPlace'
    BY <1>12 DEF Ask, CallTypes, PoolTypes
  <2> QED
    BY <2>1, <2>2, <2>3, <2>4, <2>5 DEF Typed, TypeOK
<1>13. ASSUME NEW c \in Calls, Send(c) PROVE Typed'
  <2>1. PoolTypes'
    BY <1>13 DEF Send, PoolTypes
  <2>2. CallTypes'
    BY <1>13 DEF Send, CallTypes
  <2>3. TimeTypes'
    BY <1>13 DEF Send, TimeTypes
  <2>4. ProcTypes'
    <3>1. job' = job \/ job' = [job EXCEPT ![slot[c]] = c]
      BY <1>13 DEF Send
    <3>2. job' \in [Calls -> Calls \union {NoCall}]
      <4>1. job \in [Calls -> Calls \union {NoCall}]
        BY DEF ProcTypes
      <4>2. CASE job' = [job EXCEPT ![slot[c]] = c]
        BY <4>1, <4>2, Zenon
      <4> QED
        BY <3>1, <4>1, <4>2
    <3> QED
      BY <1>13, <3>2 DEF Send, ProcTypes
  <2>5. SlotPlace'
    BY <1>13 DEF Send, CallTypes, PoolTypes
  <2> QED
    BY <2>1, <2>2, <2>3, <2>4, <2>5 DEF Typed, TypeOK
<1>14. ASSUME NEW c \in Calls, Read(c) PROVE Typed'
  <2>1. PoolTypes'
    BY <1>14 DEF Read, PoolTypes
  <2>2. CallTypes'
    <3>1. slot[c] \in Calls
      BY <1>14 DEF Read
    <3>2. pipe[slot[c]] # <<>> => Head(pipe[slot[c]]) \in Says
      BY <3>1 DEF ProcTypes
    <3>3. answer' \in [Calls -> Says \union {"none"}]
      BY <1>14, <3>2 DEF Read, CallTypes
    <3> QED
      BY <1>14, <3>3 DEF Read, CallTypes
  <2>3. TimeTypes'
    BY <1>14 DEF Read, TimeTypes
  <2>4. ProcTypes'
    <3>1. slot[c] \in Calls
      BY <1>14 DEF Read
    <3>2. pipe[slot[c]] # <<>> => Tail(pipe[slot[c]]) \in Seq(Says)
      BY <3>1 DEF ProcTypes
    <3>3. pipe' \in [Calls -> Seq(Says)]
      BY <1>14, <3>2 DEF Read, ProcTypes
    <3> QED
      BY <1>14, <3>3 DEF Read, ProcTypes
  <2>5. SlotPlace'
    BY <1>14 DEF Read, CallTypes, PoolTypes
  <2> QED
    BY <2>1, <2>2, <2>3, <2>4, <2>5 DEF Typed, TypeOK
<1>15. ASSUME NEW c \in Calls, Cancel(c) PROVE Typed'
  <2>1. PoolTypes'
    BY <1>15 DEF Cancel, PoolTypes
  <2>2. CallTypes'
    BY <1>15 DEF Cancel, CallTypes
  <2>3. TimeTypes'
    BY <1>15 DEF Cancel, TimeTypes
  <2>4. ProcTypes'
    BY <1>15 DEF Cancel, ProcTypes
  <2>5. SlotPlace'
    BY <1>15 DEF Cancel, CallTypes, PoolTypes
  <2> QED
    BY <2>1, <2>2, <2>3, <2>4, <2>5 DEF Typed, TypeOK
<1>16. ASSUME NEW c \in Calls, Forget(c) PROVE Typed'
  <2>1. PoolTypes'
    BY <1>16 DEF Forget, Discard, Dispose, Disposed, Claim, PoolTypes
  <2>2. CallTypes'
    BY <1>16 DEF Forget, Discard, Dispose, Disposed, Claim, CallTypes
  <2>3. TimeTypes'
    BY <1>16 DEF Forget, Discard, Dispose, Disposed, Claim, TimeTypes
  <2>4. ProcTypes'
    BY <1>16 DEF Forget, Discard, Dispose, Disposed, Claim, ProcTypes
  <2>5. SlotPlace'
    BY <1>16 DEF Forget, Discard, Dispose, Disposed, Claim, CallTypes, PoolTypes
  <2> QED
    BY <2>1, <2>2, <2>3, <2>4, <2>5 DEF Typed, TypeOK
<1>17. ASSUME NEW c \in Calls, Release(c) PROVE Typed'
  <2>1. PoolTypes'
    BY <1>17 DEF Release, PoolTypes
  <2>2. CallTypes'
    BY <1>17 DEF Release, CallTypes
  <2>3. TimeTypes'
    BY <1>17 DEF Release, TimeTypes
  <2>4. ProcTypes'
    BY <1>17 DEF Release, ProcTypes
  <2>5. SlotPlace'
    BY <1>17 DEF Release, CallTypes, PoolTypes
  <2> QED
    BY <2>1, <2>2, <2>3, <2>4, <2>5 DEF Typed, TypeOK
<1>18. ASSUME NEW c \in Calls, Report(c) PROVE Typed'
  <2>1. PoolTypes'
    BY <1>18 DEF Report, Limit, PoolTypes
  <2>2. CallTypes'
    BY <1>18 DEF Report, Limit, CallTypes
  <2>3. TimeTypes'
    BY <1>18 DEF Report, Limit, TimeTypes
  <2>4. ProcTypes'
    BY <1>18 DEF Report, Limit, ProcTypes
  <2>5. SlotPlace'
    BY <1>18 DEF Report, Limit, CallTypes, PoolTypes
  <2> QED
    BY <2>1, <2>2, <2>3, <2>4, <2>5 DEF Typed, TypeOK
<1>19. ASSUME NEW c \in Calls, AlarmFire(c) PROVE Typed'
  <2>1. PoolTypes'
    BY <1>19 DEF AlarmFire, PoolTypes
  <2>2. CallTypes'
    BY <1>19 DEF AlarmFire, CallTypes
  <2>3. TimeTypes'
    BY <1>19 DEF AlarmFire, TimeTypes
  <2>4. ProcTypes'
    BY <1>19 DEF AlarmFire, ProcTypes
  <2>5. SlotPlace'
    BY <1>19 DEF AlarmFire, CallTypes, PoolTypes
  <2> QED
    BY <2>1, <2>2, <2>3, <2>4, <2>5 DEF Typed, TypeOK
<1>20. ASSUME NEW c \in Calls, DeadlineStep(c) PROVE Typed'
  <2>1. PoolTypes'
    BY <1>20 DEF DeadlineStep, AlarmFlag, AlarmKill, Claim, PoolTypes
  <2>2. CallTypes'
    BY <1>20 DEF DeadlineStep, AlarmFlag, AlarmKill, Claim, CallTypes
  <2>3. TimeTypes'
    BY <1>20 DEF DeadlineStep, AlarmFlag, AlarmKill, Claim, TimeTypes
  <2>4. ProcTypes'
    BY <1>20 DEF DeadlineStep, AlarmFlag, AlarmKill, Claim, ProcTypes
  <2>5. SlotPlace'
    BY <1>20 DEF DeadlineStep, AlarmFlag, AlarmKill, Claim, CallTypes, PoolTypes
  <2> QED
    BY <2>1, <2>2, <2>3, <2>4, <2>5 DEF Typed, TypeOK
<1>21. ASSUME NEW c \in Calls, KillStep(c) PROVE Typed'
  <2>1. PoolTypes'
    BY <1>21 DEF KillStep, KillSignal, KillReap, PoolTypes
  <2>2. CallTypes'
    BY <1>21 DEF KillStep, KillSignal, KillReap, CallTypes
  <2>3. TimeTypes'
    BY <1>21 DEF KillStep, KillSignal, KillReap, TimeTypes
  <2>4. ProcTypes'
    BY <1>21 DEF KillStep, KillSignal, KillReap, ProcTypes
  <2>5. SlotPlace'
    BY <1>21 DEF KillStep, KillSignal, KillReap, CallTypes, PoolTypes
  <2> QED
    BY <2>1, <2>2, <2>3, <2>4, <2>5 DEF Typed, TypeOK
<1>22. ASSUME NEW c \in Calls, WorkerStep(c) PROVE Typed'
  <2>1. PoolTypes'
    BY <1>22 DEF WorkerStep, Answer, OutOfMemory, Crash, Die, PoolTypes
  <2>2. CallTypes'
    BY <1>22 DEF WorkerStep, Answer, OutOfMemory, Crash, Die, CallTypes
  <2>3. TimeTypes'
    BY <1>22 DEF WorkerStep, Answer, OutOfMemory, Crash, Die, TimeTypes
  <2>4. ProcTypes'
    <3>1. ASSUME NEW a \in Says, Answer(c, a) PROVE ProcTypes'
      <4>1. pipe' \in [Calls -> Seq(Says)]
        BY <3>1 DEF Answer, ProcTypes
      <4>2. dirty' \subseteq Calls /\ job' \in [Calls -> Calls \union {NoCall}]
        BY <3>1 DEF Answer, ProcTypes
      <4> QED
        BY <3>1, <4>1, <4>2 DEF Answer, ProcTypes
    <3>2. CASE OutOfMemory(c) \/ Crash(c)
      <4>1. PICK how \in Ends : Die(c, how)
        BY <3>2, Zenon DEF OutOfMemory, Crash
      <4>2. end' \in [Calls -> Ends]
        BY <4>1 DEF Die, ProcTypes
      <4> QED
        BY <4>1, <4>2 DEF Die, ProcTypes
    <3> QED
      BY <1>22, <3>1, <3>2 DEF WorkerStep
  <2>5. SlotPlace'
    BY <1>22 DEF WorkerStep, Answer, OutOfMemory, Crash, Die, CallTypes, PoolTypes
  <2> QED
    BY <2>1, <2>2, <2>3, <2>4, <2>5 DEF Typed, TypeOK
<1>23. CASE CloseSet \/ CloserStep
  <2>1. PoolTypes'
    <3>1. CASE CloseSet \/ ClosePut
      <4>1. free' \in Seq(Slots)
        BY <3>1 DEF CloseSet, ClosePut, PoolTypes
      <4> QED
        BY <3>1, <4>1 DEF CloseSet, ClosePut, PoolTypes
    <3>2. CASE CloseDrain \/ CloseDone
      BY <3>2 DEF CloseDrain, CloseDone, PoolTypes
    <3>3. ASSUME NEW w \in Calls, CloseKill(w) \/ CloseKilled(w)
          PROVE PoolTypes'
      BY <3>3 DEF CloseKill, CloseKilled, PoolTypes
    <3> QED
      BY <1>23, <3>1, <3>2, <3>3 DEF CloserStep
  <2>2. CallTypes' /\ TimeTypes' /\ SlotPlace'
    BY <1>23 DEF CloseSet, CloserStep, ClosePut, CloseDrain, CloseKill,
                 CloseKilled, CloseDone, CallTypes, TimeTypes
  <2>3. ProcTypes'
    BY <1>23 DEF CloseSet, CloserStep, ClosePut, CloseDrain, CloseKill,
                 CloseKilled, CloseDone, Claim, ProcTypes
  <2> QED
    BY <2>1, <2>2, <2>3
<1>24. CASE UNCHANGED vars
  BY <1>24 DEF vars, PoolTypes, CallTypes, TimeTypes, ProcTypes
<1> QED
  BY <1>1, <1>2, <1>3, <1>4, <1>5, <1>6, <1>7, <1>8, <1>9, <1>10, <1>11, <1>12, <1>13, <1>14, <1>15, <1>16, <1>17, <1>18, <1>19, <1>20, <1>21, <1>22, <1>23, <1>24
  DEF Next, CallStep, Finished

\* The types of TypeOK hold in every reachable state of the pool, whatever
\* the number of calls and slots.
THEOREM TypeCorrect == Spec => []TypeOK
<1>1. Typed => TypeOK
  BY DEF Typed
<1> QED
  BY <1>1, TypedInit, TypedStep, PTL DEF Spec

-----------------------------------------------------------------------------
(* Exclusive use. *)

\* the places before a call has started a worker
Early == {"new", "get", "got", "poll", "drop", "dropKill", "dropWait", "start"}

\* a call names the worker it starts only when it starts it
Born ==
  /\ \A c \in Calls : pc[c] \in Early => end[c] = "unborn"
  /\ \A c \in Calls : slot[c] \in Calls => end[slot[c]] # "unborn"
  /\ \A i \in DOMAIN free : free[i] \in Calls => end[free[i]] # "unborn"

Held == HeldOnce /\ Born

LEMMA HeldInit == Init => Held
  BY SizeAssumption, TokenAssumption DEF Init, Held, HeldOnce, Born

LEMMA HeldStep == Typed /\ Held /\ [Next]_vars => Held'
<1> SUFFICES ASSUME Typed, Held, [Next]_vars PROVE Held'
  OBVIOUS
<1> USE TokenAssumption DEF Typed, TypeOK, PoolTypes, CallTypes, ProcTypes,
        SlotPlace, Held, Slots, Step, Goto, Put, poolVars, callVars, timeVars,
        procVars, Early
<1>0. ASSUME NEW c \in Calls, NEW to,
             UNCHANGED <<free, end>>,
             slot' = slot \/ slot' = [slot EXCEPT ![c] = None],
             pc' = [pc EXCEPT ![c] = to], to \in Early => pc[c] \in Early
      PROVE  Held'
  <2>1. \A d \in Calls : slot'[d] = slot[d] \/ slot'[d] = None
    BY <1>0
  <2>2. HeldOnce'
    <3>1. ASSUME NEW d \in Calls, NEW e \in Calls,
                 slot'[d] = slot'[e], slot'[d] \in Calls
          PROVE  d = e
      <4>1. slot'[d] = slot[d] /\ slot'[e] = slot[e]
        BY <2>1, <3>1
      <4> QED
        BY <3>1, <4>1 DEF HeldOnce
    <3>2. \A i \in DOMAIN free, d \in Calls :
            slot'[d] = free[i] => free[i] = None \/ free[i] = CLOSED
      BY <2>1 DEF HeldOnce
    <3> QED
      BY <1>0, <3>1, <3>2 DEF HeldOnce
  <2>3. Born'
    BY <1>0, <2>1 DEF Born
  <2> QED
    BY <2>2, <2>3
<1>1. ASSUME NEW c \in Calls, Begin(c) PROVE Held'
  <2>1. HeldOnce'
    BY <1>1 DEF Begin, HeldOnce
  <2>2. Born'
    BY <1>1 DEF Begin, Born
  <2> QED
    BY <2>1, <2>2
<1>2. ASSUME NEW c \in Calls, Get(c) PROVE Held'
  <2>1. HeldOnce'
    BY <1>2 DEF Get, HeldOnce
  <2>2. Born'
    BY <1>2 DEF Get, Born
  <2> QED
    BY <2>1, <2>2
<1>3. ASSUME NEW c \in Calls, PassOn(c) PROVE Held'
  <2>1. HeldOnce'
    BY <1>3 DEF PassOn, HeldOnce
  <2>2. Born'
    BY <1>3 DEF PassOn, Born
  <2> QED
    BY <2>1, <2>2
<1>4. ASSUME NEW c \in Calls, Recheck(c) PROVE Held'
  <2>1. HeldOnce'
    BY <1>4 DEF Recheck, HeldOnce
  <2>2. Born'
    BY <1>4 DEF Recheck, Born
  <2> QED
    BY <2>1, <2>2
<1>5. ASSUME NEW c \in Calls, Poll(c) PROVE Held'
  <2>1. HeldOnce'
    BY <1>5 DEF Poll, HeldOnce
  <2>2. Born'
    BY <1>5 DEF Poll, Born
  <2> QED
    BY <2>1, <2>2
<1>6. ASSUME NEW c \in Calls, Drop(c) PROVE Held'
  <2>1. /\ UNCHANGED <<free, end>>
        /\ slot' = slot \/ slot' = [slot EXCEPT ![c] = None]
        /\ \E to \in Places : /\ pc' = [pc EXCEPT ![c] = to]
                              /\ to \in Early => pc[c] \in Early
    BY <1>6 DEF Drop, Discard, Dispose, Disposed, Places
  <2> QED
    BY <2>1, <1>0
<1>7. ASSUME NEW c \in Calls, Spawn(c) PROVE Held'
  <2>1. HeldOnce'
    <3>1. /\ \A d \in Calls : slot[d] # c
          /\ \A i \in DOMAIN free : free[i] # c
      BY <1>7 DEF Spawn, Born
    <3>2. free' = free /\ \A d \in Calls : slot'[d] = IF d = c THEN c ELSE slot[d]
      BY <1>7 DEF Spawn
    <3> QED
      BY <3>1, <3>2, ZenonT(40) DEF HeldOnce
  <2>2. Born'
    BY <1>7 DEF Spawn, Born
  <2> QED
    BY <2>1, <2>2
<1>8. ASSUME NEW c \in Calls, HelloOk(c) PROVE Held'
  <2>1. HeldOnce'
    BY <1>8 DEF HelloOk, HeldOnce
  <2>2. Born'
    BY <1>8 DEF HelloOk, Born
  <2> QED
    BY <2>1, <2>2
<1>9. ASSUME NEW c \in Calls, HelloFail(c) PROVE Held'
  <2>1. HeldOnce'
    BY <1>9 DEF HelloFail, HeldOnce
  <2>2. Born'
    BY <1>9 DEF HelloFail, Born
  <2> QED
    BY <2>1, <2>2
<1>10. ASSUME NEW c \in Calls, Register(c) PROVE Held'
  <2>1. HeldOnce'
    BY <1>10 DEF Register, HeldOnce
  <2>2. Born'
    BY <1>10 DEF Register, Born
  <2> QED
    BY <2>1, <2>2
<1>11. ASSUME NEW c \in Calls, Late(c) PROVE Held'
  <2>1. /\ UNCHANGED <<free, end>>
        /\ slot' = slot \/ slot' = [slot EXCEPT ![c] = None]
        /\ \E to \in Places : /\ pc' = [pc EXCEPT ![c] = to]
                              /\ to \in Early => pc[c] \in Early
    BY <1>11 DEF Late, Dispose, Disposed, Places
  <2> QED
    BY <2>1, <1>0
<1>12. ASSUME NEW c \in Calls, Ask(c) PROVE Held'
  <2>1. HeldOnce'
    BY <1>12 DEF Ask, HeldOnce
  <2>2. Born'
    BY <1>12 DEF Ask, Born
  <2> QED
    BY <2>1, <2>2
<1>13. ASSUME NEW c \in Calls, Send(c) PROVE Held'
  <2>1. HeldOnce'
    BY <1>13 DEF Send, HeldOnce
  <2>2. Born'
    BY <1>13 DEF Send, Born
  <2> QED
    BY <2>1, <2>2
<1>14. ASSUME NEW c \in Calls, Read(c) PROVE Held'
  <2>1. HeldOnce'
    BY <1>14 DEF Read, HeldOnce
  <2>2. Born'
    BY <1>14 DEF Read, Born
  <2> QED
    BY <2>1, <2>2
<1>15. ASSUME NEW c \in Calls, Cancel(c) PROVE Held'
  <2>1. HeldOnce'
    BY <1>15 DEF Cancel, HeldOnce
  <2>2. Born'
    BY <1>15 DEF Cancel, Born
  <2> QED
    BY <2>1, <2>2
<1>16. ASSUME NEW c \in Calls, Forget(c) PROVE Held'
  <2>1. /\ UNCHANGED <<free, end>>
        /\ slot' = slot \/ slot' = [slot EXCEPT ![c] = None]
        /\ \E to \in Places : /\ pc' = [pc EXCEPT ![c] = to]
                              /\ to \in Early => pc[c] \in Early
    BY <1>16 DEF Forget, Discard, Dispose, Disposed, Places
  <2> QED
    BY <2>1, <1>0
<1>17. ASSUME NEW c \in Calls, Release(c) PROVE Held'
  <2>1. HeldOnce'
    BY <1>17 DEF Release, HeldOnce
  <2>2. Born'
    BY <1>17 DEF Release, Born
  <2> QED
    BY <2>1, <2>2
<1>18. ASSUME NEW c \in Calls, Report(c) PROVE Held'
  <2>1. HeldOnce'
    BY <1>18 DEF Report, HeldOnce
  <2>2. Born'
    BY <1>18 DEF Report, Born
  <2> QED
    BY <2>1, <2>2
<1>19. ASSUME NEW c \in Calls, AlarmFire(c) PROVE Held'
  <2>1. HeldOnce'
    BY <1>19 DEF AlarmFire, HeldOnce
  <2>2. Born'
    BY <1>19 DEF AlarmFire, Born
  <2> QED
    BY <2>1, <2>2
<1>20. ASSUME NEW c \in Calls, DeadlineStep(c) PROVE Held'
  <2>1. HeldOnce'
    BY <1>20 DEF DeadlineStep, AlarmFlag, AlarmKill, HeldOnce
  <2>2. Born'
    BY <1>20 DEF DeadlineStep, AlarmFlag, AlarmKill, Born
  <2> QED
    BY <2>1, <2>2
<1>21. ASSUME NEW c \in Calls, KillStep(c) PROVE Held'
  <2>1. HeldOnce'
    BY <1>21 DEF KillStep, KillSignal, KillReap, HeldOnce
  <2>2. Born'
    BY <1>21 DEF KillStep, KillSignal, KillReap, Born
  <2> QED
    BY <2>1, <2>2
<1>22. ASSUME NEW c \in Calls, WorkerStep(c) PROVE Held'
  <2>1. HeldOnce'
    BY <1>22 DEF WorkerStep, Answer, OutOfMemory, Crash, Die, Serving, Running, HeldOnce
  <2>2. Born'
    BY <1>22 DEF WorkerStep, Answer, OutOfMemory, Crash, Die, Serving, Running, Born
  <2> QED
    BY <2>1, <2>2
<1>23. CASE CloseSet \/ CloserStep
  <2>1. CASE ClosePut
    BY <2>1 DEF ClosePut, HeldOnce, Born
  <2>2. CASE ~ClosePut
    <3>1. UNCHANGED <<free, slot, pc, end>>
      BY <1>23, <2>2 DEF CloseSet, CloserStep, CloseDrain, CloseKill,
                         CloseKilled, CloseDone
    <3> QED
      BY <3>1 DEF HeldOnce, Born
  <2> QED
    BY <2>1, <2>2
<1>24. CASE UNCHANGED vars
  BY <1>24 DEF vars, HeldOnce, Born
<1> QED
  BY <1>1, <1>2, <1>3, <1>4, <1>5, <1>6, <1>7, <1>8, <1>9, <1>10, <1>11, <1>12, <1>13, <1>14, <1>15, <1>16, <1>17, <1>18, <1>19, <1>20, <1>21, <1>22, <1>23, <1>24
  DEF Next, CallStep, Finished

\* No worker is held by two calls, or held and queued, or queued twice, for
\* any number of calls and slots: one process serves one program at a time.
THEOREM WorkerHeldOnce == Spec => []HeldOnce
<1>1. Held => HeldOnce
  BY DEF Held
<1> QED
  BY <1>1, TypedInit, TypedStep, HeldInit, HeldStep, PTL DEF Spec

-----------------------------------------------------------------------------
(* Only a clean run hands its worker back. *)

\* a worker that has been asked nothing it has not answered cleanly
Idle(w) == job[w] = NoCall /\ pipe[w] = <<>> /\ w \notin dirty

\* the places at which the worker a call holds is one to be reused
Reusing == {"got", "poll", "drop", "dropKill", "dropWait", "hello", "register",
            "late", "lateWait", "ask", "send", "release"}

\* the answers that keep a worker
Clean(a, k) == a = "ok" \/ (a = "bad" /\ k = "check")

QueuedIdle == \A i \in DOMAIN free : free[i] \in Calls => Idle(free[i])
UnbornIdle == \A w \in Calls : end[w] = "unborn" => Idle(w)
ReusedIdle ==
  \A c \in Calls : slot[c] \in Calls /\ pc[c] \in Reusing => Idle(slot[c])
NotAnswered ==
  \A c \in Calls : pc[c] \in Early \union {"hello", "register", "late",
                     "lateWait", "ask", "send", "read"} => answer[c] = "none"

\* the worker a call waits for serves that call, or has answered it once
Awaited(c) ==
  \/ job[slot[c]] = c /\ pipe[slot[c]] = <<>> /\ slot[c] \notin dirty
  \/ /\ job[slot[c]] = NoCall
     /\ \E a \in Says : /\ pipe[slot[c]] = <<a>>
                        /\ Clean(a, kind[c]) => slot[c] \notin dirty

ReadAwaited == \A c \in Calls : pc[c] = "read" => Awaited(c)
KeptIdle == \A c \in Calls : pc[c] = "cancel" /\ KeepIf(c) => Idle(slot[c])

Quiet == /\ QueuedIdle /\ UnbornIdle /\ ReusedIdle /\ NotAnswered
         /\ ReadAwaited /\ KeptIdle

LEMMA QuietInit == Init => Quiet
  BY SizeAssumption, TokenAssumption
  DEF Init, Quiet, QueuedIdle, UnbornIdle, ReusedIdle, NotAnswered,
      ReadAwaited, KeptIdle, Idle, Reusing, Early

\* The worker a call holds is nobody else's, is not queued, and was born.
LEMMA HeldAlone ==
  ASSUME Held, NEW c \in Calls, slot[c] \in Calls
  PROVE  /\ end[slot[c]] # "unborn"
         /\ \A d \in Calls \ {c} : slot[d] # slot[c]
         /\ \A i \in DOMAIN free : free[i] # slot[c]
  BY TokenAssumption DEF Held, HeldOnce, Born

LEMMA QuietStep == Typed /\ Held /\ Quiet /\ [Next]_vars => Quiet'
<1> SUFFICES ASSUME Typed, Held, Quiet, [Next]_vars PROVE Quiet'
  OBVIOUS
<1> USE TokenAssumption DEF Typed, TypeOK, PoolTypes, CallTypes, ProcTypes,
        SlotPlace, Held, Quiet, Slots, Step, Goto, Put, poolVars, callVars,
        timeVars, procVars, Early, Reusing
<1>1. ASSUME NEW c \in Calls, Begin(c) PROVE Quiet'
  <2>1. QueuedIdle'
    BY <1>1 DEF Begin, QueuedIdle, Idle
  <2>2. UnbornIdle'
    BY <1>1 DEF Begin, UnbornIdle, Idle
  <2>3. ReusedIdle'
    BY <1>1 DEF Begin, ReusedIdle, Idle
  <2>4. NotAnswered'
    BY <1>1 DEF Begin, NotAnswered, Idle
  <2>5. ReadAwaited'
    BY <1>1 DEF Begin, ReadAwaited, Idle, Awaited
  <2>6. KeptIdle'
    BY <1>1 DEF Begin, KeptIdle, Idle, KeepIf
  <2> QED
    BY <2>1, <2>2, <2>3, <2>4, <2>5, <2>6
<1>2. ASSUME NEW c \in Calls, Get(c) PROVE Quiet'
  <2>1. QueuedIdle'
    BY <1>2 DEF Get, QueuedIdle, Idle
  <2>2. UnbornIdle'
    BY <1>2 DEF Get, UnbornIdle, Idle
  <2>3. ReusedIdle'
    <3>1. slot'[c] = free[1] /\ 1 \in DOMAIN free
      BY <1>2 DEF Get
    <3>2. slot'[c] \in Calls => Idle(slot'[c])
      BY <3>1 DEF QueuedIdle
    <3>3. \A d \in Calls \ {c} : slot'[d] = slot[d] /\ pc'[d] = pc[d]
      BY <1>2 DEF Get
    <3>4. UNCHANGED <<job, pipe, dirty>>
      BY <1>2 DEF Get
    <3> QED
      BY <3>2, <3>3, <3>4 DEF ReusedIdle, Idle
  <2>4. NotAnswered'
    BY <1>2 DEF Get, NotAnswered, Idle
  <2>5. ReadAwaited'
    BY <1>2 DEF Get, ReadAwaited, Idle, Awaited
  <2>6. KeptIdle'
    BY <1>2 DEF Get, KeptIdle, Idle, KeepIf
  <2> QED
    BY <2>1, <2>2, <2>3, <2>4, <2>5, <2>6
<1>3. ASSUME NEW c \in Calls, PassOn(c) PROVE Quiet'
  <2>1. QueuedIdle'
    BY <1>3 DEF PassOn, QueuedIdle, Idle
  <2>2. UnbornIdle'
    BY <1>3 DEF PassOn, UnbornIdle, Idle
  <2>3. ReusedIdle'
    BY <1>3 DEF PassOn, ReusedIdle, Idle
  <2>4. NotAnswered'
    BY <1>3 DEF PassOn, NotAnswered, Idle
  <2>5. ReadAwaited'
    BY <1>3 DEF PassOn, ReadAwaited, Idle, Awaited
  <2>6. KeptIdle'
    BY <1>3 DEF PassOn, KeptIdle, Idle, KeepIf
  <2> QED
    BY <2>1, <2>2, <2>3, <2>4, <2>5, <2>6
<1>4. ASSUME NEW c \in Calls, Recheck(c) PROVE Quiet'
  <2>1. QueuedIdle'
    BY <1>4 DEF Recheck, QueuedIdle, Idle
  <2>2. UnbornIdle'
    BY <1>4 DEF Recheck, UnbornIdle, Idle
  <2>3. ReusedIdle'
    BY <1>4 DEF Recheck, ReusedIdle, Idle
  <2>4. NotAnswered'
    BY <1>4 DEF Recheck, NotAnswered, Idle
  <2>5. ReadAwaited'
    BY <1>4 DEF Recheck, ReadAwaited, Idle, Awaited
  <2>6. KeptIdle'
    BY <1>4 DEF Recheck, KeptIdle, Idle, KeepIf
  <2> QED
    BY <2>1, <2>2, <2>3, <2>4, <2>5, <2>6
<1>5. ASSUME NEW c \in Calls, Poll(c) PROVE Quiet'
  <2>1. QueuedIdle'
    BY <1>5 DEF Poll, QueuedIdle, Idle
  <2>2. UnbornIdle'
    BY <1>5 DEF Poll, UnbornIdle, Idle
  <2>3. ReusedIdle'
    BY <1>5 DEF Poll, ReusedIdle, Idle
  <2>4. NotAnswered'
    BY <1>5 DEF Poll, NotAnswered, Idle
  <2>5. ReadAwaited'
    BY <1>5 DEF Poll, ReadAwaited, Idle, Awaited
  <2>6. KeptIdle'
    BY <1>5 DEF Poll, KeptIdle, Idle, KeepIf
  <2> QED
    BY <2>1, <2>2, <2>3, <2>4, <2>5, <2>6
<1>6. ASSUME NEW c \in Calls, Drop(c) PROVE Quiet'
  <2>1. QueuedIdle'
    BY <1>6 DEF Drop, Discard, Dispose, Disposed, QueuedIdle, Idle
  <2>2. UnbornIdle'
    BY <1>6 DEF Drop, Discard, Dispose, Disposed, UnbornIdle, Idle
  <2>3. ReusedIdle'
    BY <1>6 DEF Drop, Discard, Dispose, Disposed, ReusedIdle, Idle
  <2>4. NotAnswered'
    BY <1>6 DEF Drop, Discard, Dispose, Disposed, NotAnswered, Idle
  <2>5. ReadAwaited'
    BY <1>6 DEF Drop, Discard, Dispose, Disposed, ReadAwaited, Idle, Awaited
  <2>6. KeptIdle'
    BY <1>6 DEF Drop, Discard, Dispose, Disposed, KeptIdle, Idle, KeepIf
  <2> QED
    BY <2>1, <2>2, <2>3, <2>4, <2>5, <2>6
<1>7. ASSUME NEW c \in Calls, Spawn(c) PROVE Quiet'
  <2>1. QueuedIdle'
    BY <1>7 DEF Spawn, QueuedIdle, Idle
  <2>2. UnbornIdle'
    BY <1>7 DEF Spawn, UnbornIdle, Idle
  <2>3. ReusedIdle'
    <3>1. Idle(c) /\ slot'[c] = c
      BY <1>7 DEF Spawn, Born, UnbornIdle
    <3>2. \A d \in Calls \ {c} : slot'[d] = slot[d] /\ pc'[d] = pc[d]
      BY <1>7 DEF Spawn
    <3>3. UNCHANGED <<job, pipe, dirty>>
      BY <1>7 DEF Spawn
    <3>4. \A v : Idle(v)' <=> Idle(v)
      BY <3>3 DEF Idle
    <3> QED
      BY <3>1, <3>2, <3>4 DEF ReusedIdle
  <2>4. NotAnswered'
    BY <1>7 DEF Spawn, NotAnswered, Idle
  <2>5. ReadAwaited'
    BY <1>7 DEF Spawn, ReadAwaited, Idle, Awaited
  <2>6. KeptIdle'
    BY <1>7 DEF Spawn, KeptIdle, Idle, KeepIf
  <2> QED
    BY <2>1, <2>2, <2>3, <2>4, <2>5, <2>6
<1>8. ASSUME NEW c \in Calls, HelloOk(c) PROVE Quiet'
  <2>1. QueuedIdle'
    BY <1>8 DEF HelloOk, QueuedIdle, Idle
  <2>2. UnbornIdle'
    BY <1>8 DEF HelloOk, UnbornIdle, Idle
  <2>3. ReusedIdle'
    BY <1>8 DEF HelloOk, ReusedIdle, Idle
  <2>4. NotAnswered'
    BY <1>8 DEF HelloOk, NotAnswered, Idle
  <2>5. ReadAwaited'
    BY <1>8 DEF HelloOk, ReadAwaited, Idle, Awaited
  <2>6. KeptIdle'
    BY <1>8 DEF HelloOk, KeptIdle, Idle, KeepIf
  <2> QED
    BY <2>1, <2>2, <2>3, <2>4, <2>5, <2>6
<1>9. ASSUME NEW c \in Calls, HelloFail(c) PROVE Quiet'
  <2>1. QueuedIdle'
    BY <1>9 DEF HelloFail, QueuedIdle, Idle
  <2>2. UnbornIdle'
    BY <1>9 DEF HelloFail, UnbornIdle, Idle
  <2>3. ReusedIdle'
    BY <1>9 DEF HelloFail, ReusedIdle, Idle
  <2>4. NotAnswered'
    BY <1>9 DEF HelloFail, NotAnswered, Idle
  <2>5. ReadAwaited'
    BY <1>9 DEF HelloFail, ReadAwaited, Idle, Awaited
  <2>6. KeptIdle'
    BY <1>9 DEF HelloFail, KeptIdle, Idle, KeepIf
  <2> QED
    BY <2>1, <2>2, <2>3, <2>4, <2>5, <2>6
<1>10. ASSUME NEW c \in Calls, Register(c) PROVE Quiet'
  <2>1. QueuedIdle'
    BY <1>10 DEF Register, QueuedIdle, Idle
  <2>2. UnbornIdle'
    BY <1>10 DEF Register, UnbornIdle, Idle
  <2>3. ReusedIdle'
    BY <1>10 DEF Register, ReusedIdle, Idle
  <2>4. NotAnswered'
    BY <1>10 DEF Register, NotAnswered, Idle
  <2>5. ReadAwaited'
    BY <1>10 DEF Register, ReadAwaited, Idle, Awaited
  <2>6. KeptIdle'
    BY <1>10 DEF Register, KeptIdle, Idle, KeepIf
  <2> QED
    BY <2>1, <2>2, <2>3, <2>4, <2>5, <2>6
<1>11. ASSUME NEW c \in Calls, Late(c) PROVE Quiet'
  <2>1. QueuedIdle'
    BY <1>11 DEF Late, Dispose, Disposed, QueuedIdle, Idle
  <2>2. UnbornIdle'
    BY <1>11 DEF Late, Dispose, Disposed, UnbornIdle, Idle
  <2>3. ReusedIdle'
    BY <1>11 DEF Late, Dispose, Disposed, ReusedIdle, Idle
  <2>4. NotAnswered'
    BY <1>11 DEF Late, Dispose, Disposed, NotAnswered, Idle
  <2>5. ReadAwaited'
    BY <1>11 DEF Late, Dispose, Disposed, ReadAwaited, Idle, Awaited
  <2>6. KeptIdle'
    BY <1>11 DEF Late, Dispose, Disposed, KeptIdle, Idle, KeepIf
  <2> QED
    BY <2>1, <2>2, <2>3, <2>4, <2>5, <2>6
<1>12. ASSUME NEW c \in Calls, Ask(c) PROVE Quiet'
  <2>1. QueuedIdle'
    BY <1>12 DEF Ask, QueuedIdle, Idle
  <2>2. UnbornIdle'
    BY <1>12 DEF Ask, UnbornIdle, Idle
  <2>3. ReusedIdle'
    BY <1>12 DEF Ask, ReusedIdle, Idle
  <2>4. NotAnswered'
    BY <1>12 DEF Ask, NotAnswered, Idle
  <2>5. ReadAwaited'
    BY <1>12 DEF Ask, ReadAwaited, Idle, Awaited
  <2>6. KeptIdle'
    BY <1>12 DEF Ask, KeptIdle, Idle, KeepIf
  <2> QED
    BY <2>1, <2>2, <2>3, <2>4, <2>5, <2>6
<1>13. ASSUME NEW c \in Calls, Send(c) PROVE Quiet'
  <2> DEFINE w == slot[c]
  <2>a. w \in Calls /\ pc[c] = "send"
    BY <1>13 DEF Send
  <2>b. /\ \A d \in Calls \ {c} : pc'[d] = pc[d]
        /\ UNCHANGED <<free, slot, end, pipe, dirty, answer, kind>>
    BY <1>13 DEF Send
  <2>c. Idle(w) /\ end[w] # "unborn"
    BY <2>a DEF ReusedIdle, Born
  <2>d. /\ \A d \in Calls \ {c} : slot[d] # w
        /\ \A i \in DOMAIN free : free[i] # w
    BY <2>a DEF HeldOnce
  <2>1. /\ w \in Calls /\ Idle(w) /\ end[w] # "unborn"
        /\ \A d \in Calls \ {c} : slot[d] # w /\ pc'[d] = pc[d]
        /\ \A i \in DOMAIN free : free[i] # w
        /\ UNCHANGED <<free, slot, end, pipe, dirty, answer, kind>>
    BY <2>a, <2>b, <2>c, <2>d
  <2>2. answer[c] = "none" /\ pc[c] = "send"
    BY <1>13 DEF Send, NotAnswered
  <2>3. CASE pc' = [pc EXCEPT ![c] = "cancel"] /\ job' = job
    BY <2>1, <2>2, <2>3 DEF QueuedIdle, UnbornIdle, ReusedIdle, NotAnswered,
                            ReadAwaited, KeptIdle, Idle, Awaited, KeepIf
  <2>4. CASE pc' = [pc EXCEPT ![c] = "read"] /\ job' = [job EXCEPT ![w] = c]
    <3>1. \A v \in Calls \ {w} : job'[v] = job[v]
      BY <2>4
    <3>2. QueuedIdle' /\ UnbornIdle'
      BY <2>1, <3>1 DEF QueuedIdle, UnbornIdle, Idle
    <3>3. ReusedIdle' /\ NotAnswered' /\ KeptIdle'
      BY <2>1, <2>2, <2>4, <3>1
      DEF ReusedIdle, NotAnswered, KeptIdle, KeepIf, Idle
    <3>4. job'[w] = c
      BY <2>1, <2>4
    <3>5. ReadAwaited'
      <4>1. Awaited(c)'
        BY <2>1, <3>4 DEF Idle, Awaited
      <4>2. ASSUME NEW d \in Calls \ {c}, pc'[d] = "read" PROVE Awaited(d)'
        <5>1. pc[d] = "read" /\ slot[d] \in Calls \ {w}
          BY <2>1, <4>2
        <5> QED
          BY <2>1, <3>1, <5>1 DEF ReadAwaited, Awaited
      <4> QED
        BY <4>1, <4>2 DEF ReadAwaited
    <3> QED
      BY <3>2, <3>3, <3>5
  <2> QED
    BY <1>13, <2>3, <2>4 DEF Send
<1>14. ASSUME NEW c \in Calls, Read(c) PROVE Quiet'
  <2> DEFINE w == slot[c]
  <2>d. w \in Calls /\ pc[c] = "read"
    BY <1>14 DEF Read
  <2>a. /\ w \in Calls /\ end[w] # "unborn" /\ pc[c] = "read"
        /\ \A d \in Calls \ {c} : slot[d] # w
        /\ \A i \in DOMAIN free : free[i] # w
    BY <2>d, HeldAlone
  <2>b. /\ \A d \in Calls \ {c} : pc'[d] = pc[d] /\ answer'[d] = answer[d]
        /\ pc'[c] = "cancel"
        /\ UNCHANGED <<free, slot, end, job, dirty, kind>>
    BY <1>14 DEF Read
  <2>c. \A v \in Calls \ {w} : pipe'[v] = pipe[v]
    BY <1>14 DEF Read
  <2>1. /\ w \in Calls /\ end[w] # "unborn" /\ pc[c] = "read"
        /\ \A d \in Calls \ {c} : slot[d] # w
        /\ \A d \in Calls \ {c} : pc'[d] = pc[d] /\ answer'[d] = answer[d]
        /\ \A i \in DOMAIN free : free[i] # w
        /\ \A v \in Calls \ {w} : pipe'[v] = pipe[v]
        /\ pc'[c] = "cancel"
        /\ UNCHANGED <<free, slot, end, job, dirty, kind>>
    BY <2>a, <2>b, <2>c
  <2>2. QueuedIdle' /\ UnbornIdle' /\ ReusedIdle' /\ NotAnswered'
    BY <2>1, ZenonT(40) DEF QueuedIdle, UnbornIdle, ReusedIdle, NotAnswered, Idle
  <2>3. ReadAwaited'
    <3>1. ASSUME NEW d \in Calls, pc'[d] = "read" PROVE Awaited(d)'
      <4>1. d # c /\ pc[d] = "read" /\ slot[d] \in Calls \ {w}
        BY <2>1, <3>1
      <4> QED
        BY <2>1, <4>1 DEF ReadAwaited, Awaited
    <3> QED
      BY <3>1 DEF ReadAwaited
  <2>4. KeepIf(c)' => Idle(w)'
    <3>1. answer[c] = "none" /\ Awaited(c)
      BY <2>1 DEF NotAnswered, ReadAwaited
    <3>2. CASE UNCHANGED <<answer, pipe>>
      BY <3>1, <3>2 DEF KeepIf
    <3>3. CASE /\ pipe[w] # <<>>
               /\ answer' = [answer EXCEPT ![c] = Head(pipe[w])]
               /\ pipe' = [pipe EXCEPT ![w] = Tail(pipe[w])]
      <4>1. PICK a \in Says : /\ job[w] = NoCall /\ pipe[w] = <<a>>
                              /\ Clean(a, kind[c]) => w \notin dirty
        BY <3>1, <3>3 DEF Awaited
      <4>2. answer'[c] = a /\ pipe'[w] = <<>>
        BY <2>1, <3>3, <4>1
      <4> QED
        BY <2>1, <4>1, <4>2 DEF KeepIf, Clean, Idle
    <3> QED
      BY <1>14, <3>2, <3>3 DEF Read
  <2>5. KeptIdle'
    BY <2>1, <2>4 DEF KeptIdle, KeepIf, Idle
  <2> QED
    BY <2>2, <2>3, <2>5
<1>15. ASSUME NEW c \in Calls, Cancel(c) PROVE Quiet'
  <2>1. QueuedIdle'
    BY <1>15 DEF Cancel, QueuedIdle, Idle
  <2>2. UnbornIdle'
    BY <1>15 DEF Cancel, UnbornIdle, Idle
  <2>3. ReusedIdle'
    BY <1>15 DEF Cancel, ReusedIdle, KeptIdle, Idle
  <2>4. NotAnswered'
    BY <1>15 DEF Cancel, NotAnswered, Idle
  <2>5. ReadAwaited'
    BY <1>15 DEF Cancel, ReadAwaited, Idle, Awaited
  <2>6. KeptIdle'
    BY <1>15 DEF Cancel, KeptIdle, Idle, KeepIf
  <2> QED
    BY <2>1, <2>2, <2>3, <2>4, <2>5, <2>6
<1>16. ASSUME NEW c \in Calls, Forget(c) PROVE Quiet'
  <2>1. QueuedIdle'
    BY <1>16 DEF Forget, Discard, Dispose, Disposed, QueuedIdle, Idle
  <2>2. UnbornIdle'
    BY <1>16 DEF Forget, Discard, Dispose, Disposed, UnbornIdle, Idle
  <2>3. ReusedIdle'
    BY <1>16 DEF Forget, Discard, Dispose, Disposed, ReusedIdle, Idle
  <2>4. NotAnswered'
    BY <1>16 DEF Forget, Discard, Dispose, Disposed, NotAnswered, Idle
  <2>5. ReadAwaited'
    BY <1>16 DEF Forget, Discard, Dispose, Disposed, ReadAwaited, Idle, Awaited
  <2>6. KeptIdle'
    BY <1>16 DEF Forget, Discard, Dispose, Disposed, KeptIdle, Idle, KeepIf
  <2> QED
    BY <2>1, <2>2, <2>3, <2>4, <2>5, <2>6
<1>17. ASSUME NEW c \in Calls, Release(c) PROVE Quiet'
  <2>1. QueuedIdle'
    <3>1. free' = Append(free, slot[c]) /\ UNCHANGED <<job, pipe, dirty>>
      BY <1>17 DEF Release
    <3>2. slot[c] \in Calls => Idle(slot[c])
      BY <1>17 DEF Release, ReusedIdle
    <3>3. \A i \in DOMAIN free' : free'[i] = slot[c]
                                 \/ (i \in DOMAIN free /\ free'[i] = free[i])
      BY <3>1
    <3> QED
      BY <3>1, <3>2, <3>3 DEF QueuedIdle, Idle
  <2>2. UnbornIdle'
    BY <1>17 DEF Release, UnbornIdle, Idle
  <2>3. ReusedIdle'
    BY <1>17 DEF Release, ReusedIdle, Idle
  <2>4. NotAnswered'
    BY <1>17 DEF Release, NotAnswered, Idle
  <2>5. ReadAwaited'
    BY <1>17 DEF Release, ReadAwaited, Idle, Awaited
  <2>6. KeptIdle'
    BY <1>17 DEF Release, KeptIdle, Idle, KeepIf
  <2> QED
    BY <2>1, <2>2, <2>3, <2>4, <2>5, <2>6
<1>18. ASSUME NEW c \in Calls, Report(c) PROVE Quiet'
  <2>1. QueuedIdle'
    BY <1>18 DEF Report, QueuedIdle, Idle
  <2>2. UnbornIdle'
    BY <1>18 DEF Report, UnbornIdle, Idle
  <2>3. ReusedIdle'
    BY <1>18 DEF Report, ReusedIdle, Idle
  <2>4. NotAnswered'
    BY <1>18 DEF Report, NotAnswered, Idle
  <2>5. ReadAwaited'
    BY <1>18 DEF Report, ReadAwaited, Idle, Awaited
  <2>6. KeptIdle'
    BY <1>18 DEF Report, KeptIdle, Idle, KeepIf
  <2> QED
    BY <2>1, <2>2, <2>3, <2>4, <2>5, <2>6
<1>19. ASSUME NEW c \in Calls, AlarmFire(c) PROVE Quiet'
  <2>1. QueuedIdle'
    BY <1>19 DEF AlarmFire, QueuedIdle, Idle
  <2>2. UnbornIdle'
    BY <1>19 DEF AlarmFire, UnbornIdle, Idle
  <2>3. ReusedIdle'
    BY <1>19 DEF AlarmFire, ReusedIdle, Idle
  <2>4. NotAnswered'
    BY <1>19 DEF AlarmFire, NotAnswered, Idle
  <2>5. ReadAwaited'
    BY <1>19 DEF AlarmFire, ReadAwaited, Idle, Awaited
  <2>6. KeptIdle'
    BY <1>19 DEF AlarmFire, KeptIdle, Idle, KeepIf
  <2> QED
    BY <2>1, <2>2, <2>3, <2>4, <2>5, <2>6
<1>20. ASSUME NEW c \in Calls, DeadlineStep(c) PROVE Quiet'
  <2>1. QueuedIdle'
    BY <1>20 DEF DeadlineStep, AlarmFlag, AlarmKill, QueuedIdle, Idle
  <2>2. UnbornIdle'
    BY <1>20 DEF DeadlineStep, AlarmFlag, AlarmKill, UnbornIdle, Idle
  <2>3. ReusedIdle'
    BY <1>20 DEF DeadlineStep, AlarmFlag, AlarmKill, ReusedIdle, Idle
  <2>4. NotAnswered'
    BY <1>20 DEF DeadlineStep, AlarmFlag, AlarmKill, NotAnswered, Idle
  <2>5. ReadAwaited'
    BY <1>20 DEF DeadlineStep, AlarmFlag, AlarmKill, ReadAwaited, Idle, Awaited
  <2>6. KeptIdle'
    BY <1>20 DEF DeadlineStep, AlarmFlag, AlarmKill, KeptIdle, Idle, KeepIf
  <2> QED
    BY <2>1, <2>2, <2>3, <2>4, <2>5, <2>6
<1>21. ASSUME NEW c \in Calls, KillStep(c) PROVE Quiet'
  <2>1. QueuedIdle'
    BY <1>21 DEF KillStep, KillSignal, KillReap, QueuedIdle, Idle
  <2>2. UnbornIdle'
    BY <1>21 DEF KillStep, KillSignal, KillReap, UnbornIdle, Idle
  <2>3. ReusedIdle'
    BY <1>21 DEF KillStep, KillSignal, KillReap, ReusedIdle, Idle
  <2>4. NotAnswered'
    BY <1>21 DEF KillStep, KillSignal, KillReap, NotAnswered, Idle
  <2>5. ReadAwaited'
    BY <1>21 DEF KillStep, KillSignal, KillReap, ReadAwaited, Idle, Awaited
  <2>6. KeptIdle'
    BY <1>21 DEF KillStep, KillSignal, KillReap, KeptIdle, Idle, KeepIf
  <2> QED
    BY <2>1, <2>2, <2>3, <2>4, <2>5, <2>6
<1>22. ASSUME NEW w \in Calls, WorkerStep(w) PROVE Quiet'
  <2>1. ASSUME NEW a \in Says, Answer(w, a) PROVE Quiet'
    <3>1. /\ job[w] # NoCall /\ ~Idle(w) /\ end[w] # "unborn"
          /\ UNCHANGED <<free, slot, pc, end, answer, kind>>
          /\ \A v \in Calls \ {w} : /\ pipe'[v] = pipe[v] /\ job'[v] = job[v]
                                    /\ (v \in dirty' <=> v \in dirty)
      BY <2>1 DEF Answer, Serving, Running, Idle
    <3>2. /\ job'[w] = NoCall /\ pipe'[w] = Append(pipe[w], a)
          /\ Clean(a, kind[job[w]]) => dirty' = dirty
      BY <2>1 DEF Answer, Clean
    <3>a. \A v \in Calls : Idle(v) => Idle(v)'
      BY <3>1 DEF Idle
    <3>3. QueuedIdle' /\ UnbornIdle' /\ ReusedIdle' /\ NotAnswered'
      BY <3>1, <3>a DEF QueuedIdle, UnbornIdle, ReusedIdle, NotAnswered
    <3>4. KeptIdle'
      BY <3>1, <3>a DEF KeptIdle, KeepIf
    <3>5. ASSUME NEW c \in Calls, pc[c] = "read" PROVE Awaited(c)'
      <4>1. Awaited(c) /\ slot[c] \in Calls
        BY <3>5 DEF ReadAwaited
      <4>2. CASE slot[c] # w
        <5> DEFINE v == slot[c]
        <5>1. /\ pipe'[v] = pipe[v] /\ job'[v] = job[v] /\ slot'[c] = v
              /\ (v \in dirty' <=> v \in dirty)
              /\ kind' = kind
          BY <3>1, <4>1, <4>2
        <5> QED
          BY <4>1, <5>1 DEF Awaited
      <4>3. CASE slot[c] = w
        <5>1. job[w] = c /\ pipe[w] = <<>> /\ w \notin dirty
          BY <3>1, <4>1, <4>3 DEF Awaited
        <5>2. pipe'[w] = <<a>> /\ (Clean(a, kind[c]) => w \notin dirty')
          BY <3>2, <5>1
        <5> QED
          BY <3>1, <3>2, <4>3, <5>2 DEF Awaited
      <4> QED
        BY <4>2, <4>3
    <3> QED
      BY <3>1, <3>3, <3>4, <3>5 DEF ReadAwaited
  <2>2. CASE OutOfMemory(w) \/ Crash(w)
    <3>1. /\ UNCHANGED <<free, slot, pc, job, pipe, dirty, answer, kind>>
          /\ \A v \in Calls : end'[v] = "unborn" => end[v] = "unborn"
      BY <2>2 DEF OutOfMemory, Crash, Die
    <3> QED
      BY <3>1 DEF QueuedIdle, UnbornIdle, ReusedIdle, NotAnswered, ReadAwaited,
                  KeptIdle, Idle, Awaited, KeepIf
  <2> QED
    BY <1>22, <2>1, <2>2 DEF WorkerStep
<1>23. CASE CloseSet \/ CloserStep
  <2>1. UNCHANGED <<slot, pc, end, job, pipe, dirty, answer, kind>>
    BY <1>23 DEF CloseSet, CloserStep, ClosePut, CloseDrain, CloseKill,
                 CloseKilled, CloseDone, Claim
  <2>2. free' = free \/ free' = Append(free, CLOSED)
    BY <1>23 DEF CloseSet, CloserStep, ClosePut, CloseDrain, CloseKill,
                 CloseKilled, CloseDone
  <2>3. \A i \in DOMAIN free' : free'[i] = CLOSED
                               \/ (i \in DOMAIN free /\ free'[i] = free[i])
    <3>1. CASE free' = Append(free, CLOSED)
      <4>1. free \in Seq(Slots) /\ CLOSED \in Slots
        OBVIOUS
      <4>2. /\ DOMAIN free = 1..Len(free) /\ DOMAIN free' = 1..(Len(free) + 1)
            /\ \A i \in DOMAIN free : free'[i] = free[i]
            /\ free'[Len(free) + 1] = CLOSED /\ Len(free) \in Nat
        BY <3>1, <4>1
      <4> QED
        BY <4>2
    <3> QED
      BY <2>2, <3>1
  <2>4. QueuedIdle'
    BY <2>1, <2>3 DEF QueuedIdle, Idle
  <2> QED
    BY <2>1, <2>4 DEF UnbornIdle, ReusedIdle, NotAnswered, ReadAwaited,
                      KeptIdle, Idle, Awaited, KeepIf
<1>24. CASE UNCHANGED vars
  BY <1>24 DEF vars, QueuedIdle, UnbornIdle, ReusedIdle, NotAnswered,
               ReadAwaited, KeptIdle, Idle, Awaited, KeepIf
<1> QED
  BY <1>1, <1>2, <1>3, <1>4, <1>5, <1>6, <1>7, <1>8, <1>9, <1>10, <1>11, <1>12, <1>13, <1>14, <1>15, <1>16, <1>17, <1>18, <1>19, <1>20, <1>21, <1>22, <1>23, <1>24
  DEF Next, CallStep, Finished

\* A worker in which anything but a clean run happened is never handed to
\* another call, for any number of calls and slots and however the threads
\* and the processes interleave.
THEOREM UsedOnce == Spec => []UsedOnceUnlessClean
<1>1. Typed /\ Held /\ Quiet => UsedOnceUnlessClean
  <2> SUFFICES ASSUME Typed, Quiet, NEW w \in dirty
               PROVE  /\ Queued(w) = {}
                      /\ \A c \in Calls : slot[c] = w =>
                           pc[c] \in {"read", "cancel", "forget", "forgetKill",
                                     "forgetWait"}
    BY DEF UsedOnceUnlessClean
  <2>1. w \in Calls /\ ~Idle(w)
    BY DEF Typed, TypeOK, ProcTypes, Idle
  <2>2. Queued(w) = {}
    BY <2>1 DEF Quiet, QueuedIdle, Queued
  <2>3. ASSUME NEW c \in Calls, slot[c] = w
        PROVE  pc[c] \notin Reusing /\ pc[c] \in Places
               /\ pc[c] \notin {"new", "get", "start", "report", "done"}
    BY <2>1, <2>3, TokenAssumption
    DEF Quiet, ReusedIdle, Typed, TypeOK, CallTypes, SlotPlace
  <2> QED
    BY <2>2, <2>3 DEF Reusing, Places
<1> QED
  BY <1>1, TypedInit, TypedStep, HeldInit, HeldStep, QuietInit, QuietStep,
     PTL DEF Spec

-----------------------------------------------------------------------------
(* Counting in the queue of slots. *)

\* the positions of s that hold a member of T
At(s, T) == {i \in DOMAIN s : s[i] \in T}

\* Positions of a sequence are finitely many.
LEMMA AtFinite ==
  ASSUME NEW S, NEW s \in Seq(S), NEW T
  PROVE  IsFiniteSet(At(s, T)) /\ Cardinality(At(s, T)) \in Nat
<1>1. At(s, T) \in SUBSET (1..Len(s)) /\ Len(s) \in Nat
  BY DEF At
<1>2. IsFiniteSet(1..Len(s))
  BY <1>1, FS_Interval
<1>3. IsFiniteSet(At(s, T))
  BY <1>1, <1>2, FS_Subset
<1> QED
  BY <1>3, FS_CardinalityType

\* Queue.put adds a position for what it puts.
LEMMA AppendAt ==
  ASSUME NEW S, NEW s \in Seq(S), NEW x \in S, NEW T
  PROVE  Cardinality(At(Append(s, x), T))
           = Cardinality(At(s, T)) + (IF x \in T THEN 1 ELSE 0)
<1>1. /\ DOMAIN s = 1..Len(s) /\ DOMAIN Append(s, x) = 1..(Len(s) + 1)
      /\ \A i \in DOMAIN s : Append(s, x)[i] = s[i]
      /\ Append(s, x)[Len(s) + 1] = x /\ Len(s) \in Nat
  OBVIOUS
<1>2. IsFiniteSet(At(s, T)) /\ Cardinality(At(s, T)) \in Nat
  BY AtFinite
<1>3. CASE x \in T
  <2>1. At(Append(s, x), T) = At(s, T) \union {Len(s) + 1}
    BY <1>1, <1>3 DEF At
  <2>2. Len(s) + 1 \notin At(s, T)
    BY <1>1 DEF At
  <2> QED
    BY <1>2, <1>3, <2>1, <2>2, FS_AddElement
<1>4. CASE x \notin T
  <2>1. At(Append(s, x), T) = At(s, T)
    BY <1>1, <1>4 DEF At
  <2> QED
    BY <1>2, <1>4, <2>1
<1> QED
  BY <1>3, <1>4

\* Queue.get removes the position of what it takes; the rest move up.
LEMMA TailAt ==
  ASSUME NEW S, NEW s \in Seq(S), s # <<>>, NEW T
  PROVE  Cardinality(At(Tail(s), T))
           = Cardinality(At(s, T)) - (IF Head(s) \in T THEN 1 ELSE 0)
<1>1. /\ DOMAIN s = 1..Len(s) /\ Len(s) \in Nat \ {0}
      /\ DOMAIN Tail(s) = 1..(Len(s) - 1) /\ Head(s) = s[1]
      /\ \A i \in DOMAIN Tail(s) : Tail(s)[i] = s[i + 1]
  OBVIOUS
<1> DEFINE A == At(s, T) \ {1}  B == At(Tail(s), T)  f == [i \in A |-> i - 1]
<1>2. IsFiniteSet(At(s, T)) /\ Cardinality(At(s, T)) \in Nat
  BY AtFinite
<1>3. /\ IsFiniteSet(A)
      /\ Cardinality(A) = Cardinality(At(s, T)) - (IF 1 \in At(s, T) THEN 1 ELSE 0)
  BY <1>2, FS_RemoveElement
<1>4. ExistsBijection(A, B)
  <2>1. f \in [A -> B]
    BY <1>1 DEF At
  <2>2. \A i, j \in A : f[i] = f[j] => i = j
    BY <1>1 DEF At
  <2>3. \A k \in B : \E i \in A : f[i] = k
    <3> TAKE k \in B
    <3>1. k + 1 \in A /\ f[k + 1] = k
      BY <1>1 DEF At
    <3> QED
      BY <3>1
  <2> QED
    BY <2>1, <2>2, <2>3
    DEF ExistsBijection, Bijection, Injection, IsInjective, Surjection
<1>5. Cardinality(B) = Cardinality(A)
  BY <1>3, <1>4, FS_Bijection
<1>6. 1 \in At(s, T) <=> Head(s) \in T
  BY <1>1 DEF At
<1> QED
  BY <1>2, <1>3, <1>5, <1>6

-----------------------------------------------------------------------------
(* The slots. *)

OpenAt    == At(free, Slots \ {CLOSED})
TokenAt   == At(free, {CLOSED})
TokenHeld == {c \in Calls : slot[c] = CLOSED}
Untokened == closer \in {"never", "off", "token"}

\* the slots and the token, counted where they are
Conserved ==
  /\ IsFiniteSet(Holders) /\ IsFiniteSet(TokenHeld)
  /\ Cardinality(OpenAt) + Cardinality(Holders) = Size
  /\ Cardinality(TokenAt) + Cardinality(TokenHeld)
       = IF Untokened THEN 0 ELSE 1

\* What a step can do to the slots and the token: nothing, or one is taken
\* from the queue, put back, passed on, or the token is put.
LEMMA SlotMoves ==
  ASSUME Typed, [Next]_vars
  PROVE  \/ /\ free' = free /\ Holders' = Holders /\ TokenHeld' = TokenHeld
            /\ Untokened' = Untokened
         \/ \E c \in Calls : Get(c) \/ PassOn(c) \/ Release(c)
         \/ ClosePut
<1> USE TokenAssumption DEF Typed, TypeOK, PoolTypes, CallTypes, SlotPlace,
        Slots, Step, poolVars, Goto
<1> DEFINE Same == /\ free' = free /\ Holders' = Holders
                   /\ TokenHeld' = TokenHeld /\ Untokened' = Untokened
<1>1. ASSUME NEW c \in Calls, slot[c] \in Calls \union {None},
             slot' = slot \/ (\E s \in Calls \union {None} :
                                slot' = [slot EXCEPT ![c] = s]),
             UNCHANGED <<free, closer>>
      PROVE  Same
  <2>1. \A d \in Calls : (slot'[d] = CLOSED <=> slot[d] = CLOSED)
                         /\ (slot'[d] = NoSlot <=> slot[d] = NoSlot)
    BY <1>1
  <2> QED
    BY <1>1, <2>1 DEF Holders, TokenHeld, Untokened
<1>2. ASSUME UNCHANGED <<free, slot, closer>> PROVE Same
  BY <1>2 DEF Holders, TokenHeld, Untokened
<1>3. ASSUME NEW c \in Calls,
             Begin(c) \/ Recheck(c) \/ Poll(c) \/ HelloOk(c) \/ Register(c)
               \/ Ask(c) \/ Send(c) \/ Read(c) \/ Cancel(c) \/ Report(c)
               \/ AlarmFire(c) \/ DeadlineStep(c) \/ KillStep(c)
               \/ WorkerStep(c) \/ UNCHANGED vars
      PROVE  Same
  <2>1. UNCHANGED <<free, slot, closer>>
    BY <1>3 DEF Begin, Recheck, Poll, HelloOk, Register, Ask, Send, Read,
         Cancel, Report, AlarmFire, DeadlineStep, AlarmFlag, AlarmKill,
         KillStep, KillSignal, KillReap, WorkerStep, Answer, OutOfMemory,
         Crash, Die, vars, callVars
  <2> QED
    BY <1>2, <2>1
<1>4. ASSUME NEW c \in Calls,
             Drop(c) \/ Forget(c) \/ Late(c) \/ Spawn(c) \/ HelloFail(c)
      PROVE  Same
  <2>1. /\ UNCHANGED <<free, closer>>
        /\ slot[c] \in Calls \union {None}
        /\ slot' = slot \/ (\E s \in Calls \union {None} :
                              slot' = [slot EXCEPT ![c] = s])
    BY <1>4 DEF Drop, Forget, Late, Discard, Dispose, Disposed, Spawn, HelloFail
  <2> QED
    BY <1>1, <2>1
<1>5. CASE CloseSet \/ CloseDrain \/ CloseDone
           \/ \E w \in Calls : CloseKill(w) \/ CloseKilled(w)
  <2>1. UNCHANGED <<free, slot>> /\ Untokened' = Untokened
    BY <1>5, PlaceAssumption
    DEF CloseSet, CloseDrain, CloseDone, CloseKill, CloseKilled, callVars,
        Untokened
  <2> QED
    BY <2>1 DEF Holders, TokenHeld
<1>6. CASE UNCHANGED vars
  BY <1>2, <1>6 DEF vars, callVars
<1> QED
  BY <1>3, <1>4, <1>5, <1>6 DEF Next, CallStep, CloserStep, Finished

LEMMA ConservedInit == Init => Conserved
<1> SUFFICES ASSUME Init PROVE Conserved
  OBVIOUS
<1> USE TokenAssumption, SizeAssumption DEF Init, Slots
<1>1. Holders = {} /\ TokenHeld = {} /\ Untokened
  BY DEF Holders, TokenHeld, Untokened
<1>2. OpenAt = 1..Size /\ TokenAt = {}
  BY DEF OpenAt, TokenAt, At
<1>3. Cardinality(1..Size) = Size
  BY FS_Interval
<1> QED
  BY <1>1, <1>2, <1>3, FS_EmptySet DEF Conserved

LEMMA ConservedStep == Typed /\ Conserved /\ [Next]_vars => Conserved'
<1> SUFFICES ASSUME Typed, Conserved, [Next]_vars PROVE Conserved'
  OBVIOUS
<1> USE TokenAssumption DEF Typed, TypeOK, PoolTypes, CallTypes, SlotPlace,
        Slots, Step, Goto
<1>0. /\ Cardinality(OpenAt) \in Nat /\ Cardinality(TokenAt) \in Nat
      /\ Cardinality(Holders) \in Nat /\ Cardinality(TokenHeld) \in Nat
      /\ Size \in Nat /\ free \in Seq(Slots)
  BY AtFinite, FS_CardinalityType, SizeAssumption
  DEF OpenAt, TokenAt, Conserved
<1>1. CASE /\ free' = free /\ Holders' = Holders /\ TokenHeld' = TokenHeld
           /\ Untokened' = Untokened
  BY <1>1 DEF Conserved, OpenAt, TokenAt
<1>2. ASSUME NEW c \in Calls, Get(c) PROVE Conserved'
  <2>1. /\ free # <<>> /\ free' = Tail(free) /\ Head(free) \in Slots
        /\ slot[c] = NoSlot /\ slot'[c] = Head(free)
        /\ \A d \in Calls \ {c} : slot'[d] = slot[d]
        /\ Untokened' = Untokened
    BY <1>2 DEF Get, Untokened
  <2>2. CASE Head(free) = CLOSED
    <3>1. Holders' = Holders /\ TokenHeld' = TokenHeld \union {c} /\ c \notin TokenHeld
      BY <2>1, <2>2 DEF Holders, TokenHeld
    <3>2. /\ Cardinality(OpenAt') = Cardinality(OpenAt)
          /\ Cardinality(TokenAt') = Cardinality(TokenAt) - 1
      BY <1>0, <2>1, <2>2, TailAt DEF OpenAt, TokenAt
    <3>3. /\ IsFiniteSet(TokenHeld')
          /\ Cardinality(TokenHeld') = Cardinality(TokenHeld) + 1
      BY <3>1, FS_AddElement DEF Conserved
    <3> QED
      BY <1>0, <2>1, <3>1, <3>2, <3>3 DEF Conserved
  <2>3. CASE Head(free) # CLOSED
    <3>1. TokenHeld' = TokenHeld /\ Holders' = Holders \union {c} /\ c \notin Holders
      BY <2>1, <2>3 DEF Holders, TokenHeld
    <3>2. /\ Cardinality(OpenAt') = Cardinality(OpenAt) - 1
          /\ Cardinality(TokenAt') = Cardinality(TokenAt)
      BY <1>0, <2>1, <2>3, TailAt DEF OpenAt, TokenAt
    <3>3. /\ IsFiniteSet(Holders')
          /\ Cardinality(Holders') = Cardinality(Holders) + 1
      BY <3>1, FS_AddElement DEF Conserved
    <3> QED
      BY <1>0, <2>1, <3>1, <3>2, <3>3 DEF Conserved
  <2> QED
    BY <2>2, <2>3
<1>3. ASSUME NEW c \in Calls, PassOn(c) PROVE Conserved'
  <2>1. /\ free' = Append(free, CLOSED) /\ CLOSED \in Slots
        /\ slot[c] = CLOSED /\ slot'[c] = NoSlot
        /\ \A d \in Calls \ {c} : slot'[d] = slot[d]
        /\ Untokened' = Untokened
    BY <1>3 DEF PassOn, Put, Untokened
  <2>2. Holders' = Holders /\ TokenHeld' = TokenHeld \ {c} /\ c \in TokenHeld
    BY <2>1 DEF Holders, TokenHeld
  <2>3. /\ Cardinality(OpenAt') = Cardinality(OpenAt)
        /\ Cardinality(TokenAt') = Cardinality(TokenAt) + 1
    BY <1>0, <2>1, AppendAt DEF OpenAt, TokenAt
  <2>4. /\ IsFiniteSet(TokenHeld')
        /\ Cardinality(TokenHeld') = Cardinality(TokenHeld) - 1
    BY <2>2, FS_RemoveElement DEF Conserved
  <2> QED
    BY <1>0, <2>1, <2>2, <2>3, <2>4 DEF Conserved
<1>4. ASSUME NEW c \in Calls, Release(c) PROVE Conserved'
  <2>1. /\ free' = Append(free, slot[c]) /\ slot[c] \in Slots \ {CLOSED}
        /\ slot'[c] = NoSlot /\ slot[c] # NoSlot
        /\ \A d \in Calls \ {c} : slot'[d] = slot[d]
        /\ Untokened' = Untokened
    BY <1>4 DEF Release, Put, Untokened
  <2>2. TokenHeld' = TokenHeld /\ Holders' = Holders \ {c} /\ c \in Holders
    BY <2>1 DEF Holders, TokenHeld
  <2>a. Cardinality(OpenAt') = Cardinality(OpenAt) + 1
    BY <1>0, <2>1, AppendAt DEF OpenAt
  <2>b. Cardinality(TokenAt') = Cardinality(TokenAt)
    BY <1>0, <2>1, AppendAt DEF TokenAt
  <2>3. /\ Cardinality(OpenAt') = Cardinality(OpenAt) + 1
        /\ Cardinality(TokenAt') = Cardinality(TokenAt)
    BY <2>a, <2>b
  <2>4. /\ IsFiniteSet(Holders')
        /\ Cardinality(Holders') = Cardinality(Holders) - 1
    BY <2>2, FS_RemoveElement DEF Conserved
  <2> QED
    BY <1>0, <2>1, <2>2, <2>3, <2>4 DEF Conserved
<1>5. ASSUME ClosePut PROVE Conserved'
  <2>1. /\ free' = Append(free, CLOSED) /\ CLOSED \in Slots
        /\ slot' = slot /\ Untokened /\ ~Untokened'
    BY <1>5 DEF ClosePut, Put, Untokened, callVars
  <2>a. Cardinality(OpenAt') = Cardinality(OpenAt)
    BY <1>0, <2>1, AppendAt DEF OpenAt
  <2>b. Cardinality(TokenAt') = Cardinality(TokenAt) + 1
    BY <1>0, <2>1, AppendAt DEF TokenAt
  <2>2. /\ Cardinality(OpenAt') = Cardinality(OpenAt)
        /\ Cardinality(TokenAt') = Cardinality(TokenAt) + 1
    BY <2>a, <2>b
  <2>3. Holders' = Holders /\ TokenHeld' = TokenHeld
    BY <2>1 DEF Holders, TokenHeld
  <2> QED
    BY <1>0, <2>1, <2>2, <2>3 DEF Conserved
<1> QED
  BY <1>1, <1>2, <1>3, <1>4, <1>5, SlotMoves

\* "the slot comes back either way, or the pool shrinks", for any number of
\* calls and slots: those in the queue and those calls hold are Size together,
\* and there is one token for the waiters from the moment close() put it.
THEOREM SlotsComeBack == Spec => []SlotsConserved
<1>1. Typed /\ Conserved => SlotsConserved
  <2> SUFFICES ASSUME Typed, Conserved PROVE SlotsConserved
    OBVIOUS
  <2>1. free \in Seq(Slots)
    BY DEF Typed, TypeOK, PoolTypes
  <2>2. {i \in DOMAIN free : free[i] # CLOSED} = OpenAt
    BY <2>1 DEF OpenAt, At
  <2>3. Queued(CLOSED) = TokenAt
    BY DEF Queued, TokenAt, At
  <2> QED
    BY <2>2, <2>3 DEF SlotsConserved, Conserved, TokenHeld, Untokened
<1> QED
  BY <1>1, TypedInit, TypedStep, ConservedInit, ConservedStep, PTL DEF Spec

-----------------------------------------------------------------------------
(* The processes. *)

Kept(w)   == Running(w) /\ kill[w] = "no"
Known(w)  == Queued(w) # {} \/ \E c \in Calls : slot[c] = w

\* the places at which a call holds a worker that is not in _live, and knows it
Leaving   == {"hello", "register", "late", "dropKill", "forgetKill"}
Leaver(w) == \E c \in Calls : slot[c] = w /\ pc[c] \in Leaving

Listed == live \union toKill

\* how far close() is, and what it has left
CloserPhase ==
  /\ closed <=> closer \notin {"never", "off"}
  /\ closer \notin {"never", "off", "token", "drain"} => live = {}
  /\ closer \in {"never", "off", "token", "drain", "done"} => toKill = {}

KeptTracked ==
  \A w \in Calls : Kept(w) => (w \in Listed /\ Known(w)) \/ Leaver(w)

\* a worker that has not said hello is its call's
Fresh == \A c \in Calls : pc[c] = "hello" => slot[c] = c

Tracked == CloserPhase /\ KeptTracked /\ Fresh

LEMMA TrackedInit == Init => Tracked
  BY DEF Init, Tracked, CloserPhase, KeptTracked, Fresh, Kept, Running

\* close() goes on by itself, and nothing enters _live once it has drained it.
LEMMA CloserPhaseStep == Typed /\ CloserPhase /\ [Next]_vars => CloserPhase'
<1> SUFFICES ASSUME Typed, CloserPhase, [Next]_vars PROVE CloserPhase'
  OBVIOUS
<1> USE PlaceAssumption DEF Typed, TypeOK, PoolTypes, CloserPhase
<1>1. ASSUME live' \subseteq live, UNCHANGED <<closed, closer, toKill>>
      PROVE  CloserPhase'
  BY <1>1
<1>2. ASSUME NEW c \in Calls,
             Begin(c) \/ Get(c) \/ PassOn(c) \/ Recheck(c) \/ Poll(c) \/ Drop(c)
               \/ Spawn(c) \/ HelloOk(c) \/ HelloFail(c) \/ Late(c) \/ Ask(c)
               \/ Send(c) \/ Read(c) \/ Cancel(c) \/ Forget(c) \/ Release(c)
               \/ Report(c)
      PROVE  CloserPhase'
  <2>1. live' \subseteq live /\ UNCHANGED <<closed, closer, toKill>>
    BY <1>2 DEF Begin, Get, PassOn, Recheck, Poll, Drop, Discard, Dispose,
         Disposed, Spawn, HelloOk, HelloFail, Late, Ask, Send, Read, Cancel,
         Forget, Release, Report, poolVars
  <2> QED
    BY <1>1, <2>1
<1>3. ASSUME NEW c \in Calls, Register(c) PROVE CloserPhase'
  BY <1>3 DEF Register
<1>4. ASSUME NEW c \in Calls, AlarmFire(c) \/ DeadlineStep(c) \/ KillStep(c)
                                \/ WorkerStep(c)
      PROVE  CloserPhase'
  <2>1. UNCHANGED poolVars
    BY <1>4 DEF AlarmFire, DeadlineStep, AlarmFlag, AlarmKill, KillStep,
         KillSignal, KillReap, WorkerStep, Answer, OutOfMemory, Crash, Die
  <2> QED
    BY <2>1 DEF poolVars
<1>5. CASE CloseSet \/ CloserStep
  BY <1>5 DEF CloseSet, CloserStep, ClosePut, CloseDrain, CloseKill,
              CloseKilled, CloseDone
<1>6. CASE UNCHANGED vars
  BY <1>6 DEF vars, poolVars
<1> QED
  BY <1>2, <1>3, <1>4, <1>5, <1>6 DEF Next, CallStep, Finished

LEMMA KeptTrackedStep ==
  ASSUME Typed, Tracked, [Next]_vars
  PROVE  KeptTracked'
<1> USE TokenAssumption, PlaceAssumption
    DEF Typed, TypeOK, PoolTypes, CallTypes, ProcTypes, SlotPlace, Tracked,
        Slots, Step, Goto, Put, poolVars, callVars, procVars
\* a step that loses no worker it does not leave to somebody
<1>0. ASSUME \A w \in Calls : Kept(w)' => Kept(w),
             \A w \in Calls : Queued(w) # {} => Queued(w)' # {},
             \A c, w \in Calls : slot[c] = w /\ Kept(w)' => slot'[c] = w,
             \A w \in Listed : w \in Listed' \/ ~Kept(w)' \/ Leaver(w)',
             \A c, w \in Calls : slot[c] = w /\ Kept(w)' /\ pc[c] \in Leaving =>
               pc'[c] \in Leaving \/ w \in Listed'
      PROVE  KeptTracked'
  <2> SUFFICES ASSUME NEW w \in Calls, Kept(w)', ~Leaver(w)'
               PROVE  w \in Listed' /\ Known(w)'
    BY DEF KeptTracked
  <2>1. CASE w \in Listed /\ Known(w)
    BY <1>0, <2>1 DEF Known
  <2>2. CASE Leaver(w)
    <3>1. PICK c \in Calls : slot[c] = w /\ pc[c] \in Leaving
      BY <2>2 DEF Leaver
    <3>2. slot'[c] = w
      BY <1>0, <3>1
    <3>3. pc'[c] \notin Leaving
      BY <3>2 DEF Leaver
    <3> QED
      BY <1>0, <3>1, <3>2, <3>3 DEF Known
  <2> QED
    BY <1>0, <2>1, <2>2 DEF KeptTracked
<1>1. ASSUME NEW c \in Calls,
             Begin(c) \/ Recheck(c) \/ Poll(c) \/ HelloOk(c) \/ Ask(c)
               \/ Send(c) \/ Read(c) \/ Cancel(c) \/ Report(c)
      PROVE  KeptTracked'
  <2>1. /\ UNCHANGED <<free, live, toKill, slot, end, kill>>
        /\ \A d \in Calls : pc[d] \in Leaving => pc'[d] \in Leaving
    BY <1>1 DEF Begin, Recheck, Poll, HelloOk, Ask, Send, Read, Cancel,
                Report, Leaving
  <2> QED
    BY <1>0, <2>1 DEF Kept, Running, Queued, Listed
<1>2. ASSUME NEW c \in Calls, Get(c) PROVE KeptTracked'
  <2>1. /\ free # <<>> /\ free' = Tail(free) /\ slot'[c] = Head(free)
        /\ slot[c] = NoSlot /\ pc[c] = "get"
        /\ \A d \in Calls \ {c} : slot'[d] = slot[d] /\ pc'[d] = pc[d]
        /\ UNCHANGED <<live, toKill, end, kill>>
    BY <1>2 DEF Get
  <2>2. ASSUME NEW w \in Calls, Known(w) PROVE Known(w)'
    <3>1. CASE \E d \in Calls : slot[d] = w
      BY <2>1, <3>1 DEF Known
    <3>2. ASSUME NEW i \in DOMAIN free, free[i] = w PROVE Known(w)'
      <4>1. CASE i = 1
        BY <2>1, <3>2, <4>1 DEF Known
      <4>2. CASE i # 1
        <5>1. i - 1 \in DOMAIN Tail(free) /\ Tail(free)[i - 1] = w
          BY <2>1, <3>2, <4>2
        <5> QED
          BY <2>1, <5>1 DEF Known, Queued
      <4> QED
        BY <4>1, <4>2
    <3> QED
      BY <2>2, <3>1, <3>2 DEF Known, Queued
  <2>3. ASSUME NEW w \in Calls, Leaver(w) PROVE Leaver(w)'
    BY <2>1, <2>3 DEF Leaver, Leaving
  <2> QED
    BY <2>1, <2>2, <2>3 DEF KeptTracked, Kept, Running, Listed
<1>3. ASSUME NEW c \in Calls, PassOn(c) PROVE KeptTracked'
  <2>1. /\ free' = Append(free, CLOSED) /\ slot[c] = CLOSED /\ pc[c] = "got"
        /\ \A d \in Calls \ {c} : slot'[d] = slot[d] /\ pc'[d] = pc[d]
        /\ UNCHANGED <<live, toKill, end, kill>>
    BY <1>3 DEF PassOn
  <2>2. \A i \in DOMAIN free : i \in DOMAIN free' /\ free'[i] = free[i]
    BY <2>1
  <2> QED
    BY <1>0, <2>1, <2>2 DEF Kept, Running, Queued, Listed, Leaving
<1>4. ASSUME NEW c \in Calls, Drop(c) \/ Forget(c) \/ Late(c)
      PROVE  KeptTracked'
  <2>1. CASE Discard(c, "drop", "dropKill") \/ Discard(c, "forget", "forgetKill")
    <3>1. /\ UNCHANGED <<free, toKill, slot, end, kill>>
          /\ live' = live \ {slot[c]} /\ pc'[c] \in Leaving
          /\ \A d \in Calls \ {c} : pc'[d] = pc[d]
      BY <2>1 DEF Discard, Leaving
    <3> QED
      BY <1>0, <3>1 DEF Kept, Running, Queued, Listed, Leaver
  <2>2. CASE ~(Discard(c, "drop", "dropKill") \/ Discard(c, "forget", "forgetKill"))
    <3>1. /\ UNCHANGED <<free, live, toKill, end>> /\ slot[c] \in Calls
          /\ kill'[slot[c]] # "no"
          /\ \A d \in Calls \ {c} : slot'[d] = slot[d] /\ pc'[d] = pc[d]
          /\ \A w \in Calls : kill'[w] = "no" => kill[w] = "no"
      BY <1>4, <2>2 DEF Drop, Forget, Late, Dispose, Disposed, Claim
    <3> QED
      BY <1>0, <3>1, ZenonT(40) DEF Kept, Running, Queued, Listed
  <2> QED
    BY <2>1, <2>2
<1>5. ASSUME NEW c \in Calls, Spawn(c) PROVE KeptTracked'
  <2>1. /\ UNCHANGED <<free, live, toKill, kill>>
        /\ slot[c] = None /\ slot'[c] = c /\ pc'[c] = "hello" /\ pc[c] = "start"
        /\ \A d \in Calls \ {c} : slot'[d] = slot[d] /\ pc'[d] = pc[d]
        /\ \A w \in Calls \ {c} : end'[w] = end[w]
    BY <1>5 DEF Spawn
  <2>2. Leaver(c)'
    BY <2>1 DEF Leaver, Leaving
  <2>3. ASSUME NEW w \in Calls \ {c}, Kept(w)'
        PROVE  (w \in Listed' /\ Known(w)') \/ Leaver(w)'
    <3>1. Kept(w)
      BY <2>1, <2>3 DEF Kept, Running
    <3>2. Known(w) => Known(w)'
      BY <2>1 DEF Known, Queued
    <3>3. Leaver(w) => Leaver(w)'
      BY <2>1 DEF Leaver, Leaving
    <3> QED
      BY <2>1, <3>1, <3>2, <3>3 DEF KeptTracked, Listed
  <2> QED
    BY <2>2, <2>3 DEF KeptTracked
<1>6. ASSUME NEW c \in Calls, HelloFail(c) PROVE KeptTracked'
  <2>1. /\ UNCHANGED <<free, live, toKill>> /\ slot[c] \in Calls
        /\ end' = [end EXCEPT ![c] = "crash"]
        /\ kill' = [kill EXCEPT ![c] = "reaped"]
        /\ slot' = [slot EXCEPT ![c] = None] /\ pc' = [pc EXCEPT ![c] = "release"]
        /\ pc[c] = "hello" /\ slot[c] = c
    BY <1>6 DEF HelloFail, Fresh
  <2> QED
    BY <1>0, <2>1 DEF Kept, Running, Queued, Listed
<1>7. ASSUME NEW c \in Calls, Register(c) PROVE KeptTracked'
  <2>1. /\ UNCHANGED <<free, toKill, slot, end, kill>>
        /\ live \subseteq live'
        /\ pc'[c] \in Leaving \/ slot[c] \in live'
        /\ \A d \in Calls \ {c} : pc'[d] = pc[d]
    BY <1>7 DEF Register, Leaving
  <2> QED
    BY <1>0, <2>1 DEF Kept, Running, Queued, Listed
<1>8. ASSUME NEW c \in Calls, Release(c) PROVE KeptTracked'
  <2>1. /\ free' = Append(free, slot[c]) /\ pc[c] = "release"
        /\ \A d \in Calls \ {c} : slot'[d] = slot[d] /\ pc'[d] = pc[d]
        /\ UNCHANGED <<live, toKill, end, kill>>
    BY <1>8 DEF Release
  <2>2. /\ \A i \in DOMAIN free : i \in DOMAIN free' /\ free'[i] = free[i]
        /\ Len(free) + 1 \in DOMAIN free' /\ free'[Len(free) + 1] = slot[c]
    BY <2>1
  <2>3. ASSUME NEW w \in Calls, Known(w) PROVE Known(w)'
    <3>1. CASE slot[c] = w \/ Queued(w) # {}
      BY <2>2, <3>1 DEF Known, Queued
    <3>2. CASE \E d \in Calls \ {c} : slot[d] = w
      BY <2>1, <3>2 DEF Known
    <3> QED
      BY <2>3, <3>1, <3>2 DEF Known
  <2>4. ASSUME NEW w \in Calls, Leaver(w) PROVE Leaver(w)'
    BY <2>1, <2>4 DEF Leaver, Leaving
  <2> QED
    BY <2>1, <2>3, <2>4 DEF KeptTracked, Kept, Running, Listed
<1>9. ASSUME NEW c \in Calls, AlarmFire(c) \/ DeadlineStep(c) \/ KillStep(c)
                                \/ WorkerStep(c)
      PROVE  KeptTracked'
  <2>1. /\ UNCHANGED <<free, live, toKill, slot, pc>>
        /\ \A w \in Calls : /\ end'[w] = "no" => end[w] = "no"
                            /\ kill'[w] = "no" => kill[w] = "no"
    BY <1>9 DEF AlarmFire, DeadlineStep, AlarmFlag, AlarmKill, Claim, KillStep,
         KillSignal, KillReap, WorkerStep, Answer, OutOfMemory, Crash, Die
  <2> QED
    BY <1>0, <2>1 DEF Kept, Running, Queued, Listed
<1>10. CASE CloseSet \/ ClosePut \/ CloseDrain \/ CloseDone \/ UNCHANGED vars
  <2>1. /\ UNCHANGED <<slot, pc, end, kill>> /\ Listed' = Listed
        /\ free' = free \/ free' = Append(free, CLOSED)
    BY <1>10 DEF CloseSet, ClosePut, CloseDrain, CloseDone, vars, CloserPhase,
                 Listed
  <2>2. \A i \in DOMAIN free : i \in DOMAIN free' /\ free'[i] = free[i]
    <3>1. CASE free' = Append(free, CLOSED)
      <4>1. free \in Seq(Slots) /\ CLOSED \in Slots
        OBVIOUS
      <4>2. /\ DOMAIN free = 1..Len(free) /\ DOMAIN free' = 1..(Len(free) + 1)
            /\ \A i \in DOMAIN free : free'[i] = free[i] /\ Len(free) \in Nat
        BY <3>1, <4>1
      <4> QED
        BY <4>2
    <3> QED
      BY <2>1, <3>1
  <2> QED
    BY <1>0, <2>1, <2>2 DEF Kept, Running, Queued
<1>11. ASSUME NEW w \in Calls, CloseKill(w) \/ CloseKilled(w)
       PROVE  KeptTracked'
  <2>1. /\ UNCHANGED <<free, live, slot, pc, end>>
        /\ kill'[w] # "no" /\ toKill \ {w} \subseteq toKill'
        /\ \A v \in Calls : kill'[v] = "no" => kill[v] = "no"
    BY <1>11 DEF CloseKill, CloseKilled, Claim
  <2> QED
    BY <1>0, <2>1 DEF Kept, Running, Queued, Listed
<1> QED
  BY <1>1, <1>2, <1>3, <1>4, <1>5, <1>6, <1>7, <1>8, <1>9, <1>10, <1>11
  DEF Next, CallStep, CloserStep, Finished

LEMMA FreshStep == Typed /\ Fresh /\ [Next]_vars => Fresh'
<1> SUFFICES ASSUME Typed, Fresh, [Next]_vars,
                    NEW c \in Calls, pc'[c] = "hello"
             PROVE  slot'[c] = c
  BY DEF Fresh
<1> USE DEF Typed, TypeOK, CallTypes, Step, Goto, callVars, Fresh
<1>1. CASE Spawn(c)
  BY <1>1 DEF Spawn
<1>2. ASSUME NEW d \in Calls, Begin(d) \/ CallStep(d), ~Spawn(c)
      PROVE  slot'[c] = slot[c] /\ pc[c] = "hello"
  <2>1. CASE d = c
    BY <1>2, <2>1 DEF Begin, CallStep, Get, PassOn, Recheck, Poll, Drop, Discard,
       Dispose, Disposed, HelloOk, HelloFail, Register, Late, Ask, Send, Read,
       Cancel, Forget, Release, Report
  <2>2. CASE d # c
    BY <1>2, <2>2 DEF Begin, CallStep, Get, PassOn, Recheck, Poll, Drop, Discard,
       Dispose, Disposed, Spawn, HelloOk, HelloFail, Register, Late, Ask, Send,
       Read, Cancel, Forget, Release, Report
  <2> QED
    BY <2>1, <2>2
<1>3. ASSUME NEW d \in Calls, AlarmFire(d) \/ DeadlineStep(d) \/ KillStep(d)
                                \/ WorkerStep(d)
      PROVE  UNCHANGED callVars
  BY <1>3 DEF AlarmFire, DeadlineStep, AlarmFlag, AlarmKill, KillStep,
     KillSignal, KillReap, WorkerStep, Answer, OutOfMemory, Crash, Die
<1>4. CASE CloseSet \/ CloserStep \/ UNCHANGED vars
  BY <1>4 DEF CloseSet, CloserStep, ClosePut, CloseDrain, CloseKill,
              CloseKilled, CloseDone, vars
<1> QED
  BY <1>1, <1>2, <1>3, <1>4 DEF Next, Finished

LEMMA TrackedStep == Typed /\ Tracked /\ [Next]_vars => Tracked'
  BY CloserPhaseStep, KeptTrackedStep, FreshStep DEF Tracked

\* The workers kept are no more than the slots: each has a place in the queue
\* or a call of its own.
LEMMA KeptFewer ==
  ASSUME Typed, Tracked, Conserved
  PROVE  Cardinality({w \in Calls : Kept(w)}) <= Size
<1> DEFINE A == {w \in Calls : Kept(w) /\ Queued(w) # {}}
           B == {w \in Calls : Kept(w) /\ \E c \in Calls : slot[c] = w}
           f == [w \in A |-> CHOOSE i \in Queued(w) : TRUE]
           g == [w \in B |-> CHOOSE c \in Calls : slot[c] = w]
<1>0. free \in Seq(Slots)
  BY DEF Typed, TypeOK, PoolTypes
<1>1. IsFiniteSet(OpenAt) /\ IsFiniteSet(Holders) /\ Size \in Nat
      /\ Cardinality(OpenAt) + Cardinality(Holders) = Size
  BY <1>0, AtFinite, SizeAssumption DEF OpenAt, Conserved
<1>2. IsFiniteSet(A) /\ Cardinality(A) <= Cardinality(OpenAt)
  <2>1. \A w \in A : f[w] \in DOMAIN free /\ free[f[w]] = w
    BY DEF Queued
  <2>a. \A w \in A : f[w] \in OpenAt
    BY <2>1, TokenAssumption DEF OpenAt, At, Slots
  <2>2. f \in [A -> OpenAt]
    BY <2>a
  <2>3. f \in Injection(A, OpenAt)
    BY <2>1, <2>2 DEF Injection, IsInjective
  <2> HIDE DEF f
  <2> QED
    BY <1>1, <2>3, FS_Injection
<1>3. IsFiniteSet(B) /\ Cardinality(B) <= Cardinality(Holders)
  <2>1. \A w \in B : g[w] \in Calls /\ slot[g[w]] = w
    OBVIOUS
  <2>2. g \in [B -> Holders]
    BY <2>1, TokenAssumption DEF Holders
  <2>3. g \in Injection(B, Holders)
    BY <2>1, <2>2 DEF Injection, IsInjective
  <2> HIDE DEF g
  <2> QED
    BY <1>1, <2>3, FS_Injection
<1>4. {w \in Calls : Kept(w)} = A \union B
  BY DEF Tracked, KeptTracked, Known, Leaver
<1>5. /\ Cardinality(A \union B)
           = Cardinality(A) + Cardinality(B) - Cardinality(A \cap B)
      /\ Cardinality(A \cap B) \in Nat /\ Cardinality(A) \in Nat
      /\ Cardinality(B) \in Nat
  BY <1>2, <1>3, FS_Union, FS_Intersection, FS_CardinalityType
<1>6. Cardinality(OpenAt) \in Nat /\ Cardinality(Holders) \in Nat
  BY <1>1, FS_CardinalityType
<1> HIDE DEF A, B
<1>7. Cardinality(A \union B) <= Size
  BY <1>1, <1>2, <1>3, <1>5, <1>6
<1> QED
  BY <1>4, <1>7

\* No failed start, cut run or lost race leaves a process nobody will stop,
\* for any number of calls and slots: there are Size of them at most, and none
\* is left once close() has returned but one its call is about to dispose of.
THEOREM NobodyIsLeft == Spec => []NoProcessLeft
<1>1. Typed /\ Tracked /\ Conserved => NoProcessLeft
  <2> SUFFICES ASSUME Typed, Tracked, Conserved PROVE NoProcessLeft
    OBVIOUS
  <2>1. ASSUME NEW w \in Calls, Kept(w)
        PROVE  Queued(w) # {} \/ \E c \in Calls : slot[c] = w
    BY <2>1 DEF Tracked, KeptTracked, Known, Leaver
  <2>2. ASSUME NEW w \in Calls, Kept(w), closer = "done" PROVE Leaver(w)
    BY <2>2 DEF Tracked, KeptTracked, CloserPhase, Listed
  <2> QED
    BY <2>1, <2>2, KeptFewer DEF NoProcessLeft, Kept, Leaver, Leaving
<1> QED
  BY <1>1, TypedInit, TypedStep, ConservedInit, ConservedStep, TrackedInit,
     TrackedStep, PTL DEF Spec

-----------------------------------------------------------------------------
(* The deadline's report. *)

\* a worker that was used and that nobody can be given again
Retired(w) ==
  /\ end[w] # "unborn" /\ \A d \in Calls : slot[d] # w
  /\ \A i \in DOMAIN free : free[i] # w

\* the places from the request to the end of _use's `finally`, and after
Using == {"send", "read", "cancel", "forget", "forgetKill", "forgetWait"}
After == {"release", "report"}

\* the worker a call asked is its own until it is put back or never used again
Owns(c) ==
  IF used[c] = NoCall THEN alarm[c] \in {"none", "off"}
  ELSE /\ pc[c] \in Using \union After \union {"done"}
       /\ pc[c] \in Using => slot[c] = used[c]
       /\ pc[c] \in After => KeepIf(c) \/ Retired(used[c])

UsedWell == \A c \in Calls : Owns(c)

\* a deadline that has passed is marked on its worker until the call has
\* reported, unless the call was answered
ClockTold ==
  \A c \in Calls : alarm[c] \in {"flagged", "spent"} /\ pc[c] # "done" =>
    byTimeout[used[c]] \/ answer[c] \in {"ok", "bad"}

Clocked == UsedWell /\ ClockTold

LEMMA ClockedInit == Init => Clocked
  BY DEF Init, Clocked, UsedWell, Owns, ClockTold

\* What nobody can be given stays so.
LEMMA RetiredStep ==
  ASSUME Typed, Held, [Next]_vars, NEW w \in Calls, Retired(w)
  PROVE  Retired(w)'
<1> USE TokenAssumption DEF Typed, TypeOK, PoolTypes, CallTypes, ProcTypes,
        SlotPlace, Slots, Step, Goto, Put, poolVars, callVars, procVars, Retired
<1>1. ASSUME UNCHANGED free,
             \A d \in Calls : slot'[d] = slot[d] \/ slot'[d] \in {None, NoSlot},
             \A v \in Calls : end[v] # "unborn" => end'[v] # "unborn"
      PROVE  Retired(w)'
  <2>1. end'[w] # "unborn" /\ \A i \in DOMAIN free' : free'[i] # w
    BY <1>1
  <2>2. ASSUME NEW d \in Calls PROVE slot'[d] # w
    <3>1. slot[d] # w /\ w # None /\ w # NoSlot
      OBVIOUS
    <3>2. slot'[d] = slot[d] \/ slot'[d] = None \/ slot'[d] = NoSlot
      BY <1>1
    <3> QED
      BY <3>1, <3>2
  <2> QED
    BY <2>1, <2>2
<1>2. ASSUME NEW c \in Calls,
             Begin(c) \/ Recheck(c) \/ Poll(c) \/ Drop(c) \/ HelloOk(c)
               \/ HelloFail(c) \/ Register(c) \/ Late(c) \/ Ask(c) \/ Send(c)
               \/ Read(c) \/ Cancel(c) \/ Forget(c) \/ Report(c)
      PROVE  Retired(w)'
  <2>1. /\ UNCHANGED free
        /\ \A d \in Calls : slot'[d] = slot[d] \/ slot'[d] \in {None, NoSlot}
        /\ \A v \in Calls : end[v] # "unborn" => end'[v] # "unborn"
    BY <1>2 DEF Begin, Recheck, Poll, Drop, HelloOk, HelloFail, Register, Late,
       Ask, Send, Read, Cancel, Forget, Report, Discard, Dispose, Disposed
  <2> QED
    BY <1>1, <2>1
<1>3. ASSUME NEW c \in Calls, Get(c) PROVE Retired(w)'
  BY <1>3 DEF Get
<1>4. ASSUME NEW c \in Calls, Spawn(c) PROVE Retired(w)'
  <2>1. c # w
    BY <1>4 DEF Spawn, Held, Born, Early
  <2> QED
    BY <1>4, <2>1 DEF Spawn
<1>5. ASSUME NEW c \in Calls, PassOn(c) \/ Release(c) PROVE Retired(w)'
  <2>1. /\ UNCHANGED end /\ \A d \in Calls : slot'[d] \in {slot[d], NoSlot}
        /\ free' = Append(free, slot[c]) /\ slot[c] \in Slots
    BY <1>5 DEF PassOn, Release
  <2> QED
    BY <2>1
<1>6. ASSUME NEW c \in Calls, AlarmFire(c) \/ DeadlineStep(c) \/ KillStep(c)
                                \/ WorkerStep(c)
      PROVE  Retired(w)'
  <2>1. /\ UNCHANGED <<free, slot>>
        /\ \A v \in Calls : end[v] # "unborn" => end'[v] # "unborn"
    BY <1>6 DEF AlarmFire, DeadlineStep, AlarmFlag, AlarmKill, KillStep,
       KillSignal, KillReap, WorkerStep, Answer, OutOfMemory, Crash, Die
  <2> QED
    BY <1>1, <2>1
<1>7. CASE CloseSet \/ CloserStep \/ UNCHANGED vars
  <2>1. UNCHANGED <<slot, end>> /\ (free' = free \/ free' = Append(free, CLOSED))
    BY <1>7 DEF CloseSet, CloserStep, ClosePut, CloseDrain, CloseKill,
                CloseKilled, CloseDone, vars
  <2>2. CASE free' = Append(free, CLOSED)
    <3>1. free \in Seq(Slots) /\ CLOSED \in Slots
      OBVIOUS
    <3>2. /\ DOMAIN free = 1..Len(free) /\ DOMAIN free' = 1..(Len(free) + 1)
          /\ \A i \in DOMAIN free : free'[i] = free[i]
          /\ free'[Len(free) + 1] = CLOSED /\ Len(free) \in Nat
      BY <2>2, <3>1
    <3>3. \A i \in DOMAIN free' : free'[i] # w
      <4>1. ASSUME NEW i \in DOMAIN free' PROVE free'[i] # w
        <5>1. i \in DOMAIN free \/ i = Len(free) + 1
          BY <3>2
        <5> QED
          BY <3>2, <5>1
      <4> QED
        BY <4>1
    <3> QED
      BY <2>1, <3>3
  <2> QED
    BY <1>1, <2>1, <2>2
<1> QED
  BY <1>2, <1>3, <1>4, <1>5, <1>6, <1>7 DEF Next, CallStep, Finished

\* the steps that leave where a call is
MyStep(c) == Begin(c) \/ CallStep(c) \/ AlarmFire(c) \/ DeadlineStep(c)

\* What is a call's own changes by a step of its own.
LEMMA OthersStep ==
  ASSUME Typed, [Next]_vars, NEW c \in Calls, ~MyStep(c)
  PROVE  /\ pc'[c] = pc[c] /\ slot'[c] = slot[c] /\ kind'[c] = kind[c]
         /\ used'[c] = used[c] /\ answer'[c] = answer[c]
         /\ result'[c] = result[c] /\ alarm'[c] = alarm[c]
<1> USE DEF Typed, TypeOK, CallTypes, TimeTypes, Step, Goto, callVars, timeVars
<1> DEFINE Own == <<pc[c], slot[c], kind[c], used[c], answer[c], result[c], alarm[c]>>
<1>1. ASSUME NEW d \in Calls \ {c},
             Begin(d) \/ Get(d) \/ PassOn(d) \/ Recheck(d) \/ Poll(d) \/ Drop(d)
               \/ Spawn(d) \/ HelloOk(d) \/ HelloFail(d) \/ Register(d) \/ Late(d)
      PROVE  UNCHANGED Own
  BY <1>1 DEF Begin, Get, PassOn, Recheck, Poll, Drop, Discard, Dispose,
     Disposed, Spawn, HelloOk, HelloFail, Register, Late
<1>2. ASSUME NEW d \in Calls \ {c},
             Ask(d) \/ Send(d) \/ Read(d) \/ Cancel(d) \/ Forget(d) \/ Release(d)
               \/ Report(d)
      PROVE  UNCHANGED Own
  BY <1>2 DEF Ask, Send, Read, Cancel, Forget, Discard, Dispose, Disposed,
     Release, Report
<1>3. ASSUME NEW d \in Calls \ {c}, AlarmFire(d) \/ DeadlineStep(d)
      PROVE  UNCHANGED Own
  BY <1>3 DEF AlarmFire, DeadlineStep, AlarmFlag, AlarmKill
<1>4. ASSUME NEW d \in Calls, KillStep(d) \/ WorkerStep(d) PROVE UNCHANGED Own
  BY <1>4 DEF KillStep, KillSignal, KillReap, WorkerStep, Answer, OutOfMemory,
     Crash, Die
<1>5. CASE CloseSet \/ CloserStep \/ UNCHANGED vars
  BY <1>5 DEF CloseSet, CloserStep, ClosePut, CloseDrain, CloseKill,
     CloseKilled, CloseDone, vars
<1>6. UNCHANGED Own
  BY <1>1, <1>2, <1>3, <1>4, <1>5 DEF Next, CallStep, Finished, MyStep
<1> QED
  BY <1>6

LEMMA UsedWellStep ==
  ASSUME Typed, Held, Quiet, Clocked, [Next]_vars
  PROVE  UsedWell'
<1> SUFFICES ASSUME NEW c \in Calls PROVE Owns(c)'
  BY DEF UsedWell
<1> USE TokenAssumption DEF Typed, TypeOK, PoolTypes, CallTypes, ProcTypes,
        TimeTypes, SlotPlace, Step, Goto, callVars, timeVars, Using, After, Early
<1>0. Owns(c)
  BY DEF Clocked, UsedWell
<1>1. ASSUME NEW w \in Calls, Retired(w) PROVE Retired(w)'
  BY <1>1, RetiredStep
<1>2. CASE ~MyStep(c)
  <2>1. /\ pc'[c] = pc[c] /\ slot'[c] = slot[c] /\ kind'[c] = kind[c]
        /\ used'[c] = used[c] /\ answer'[c] = answer[c] /\ alarm'[c] = alarm[c]
    BY <1>2, OthersStep
  <2> QED
    BY <1>0, <1>1, <2>1 DEF Owns, KeepIf
<1>3. CASE Begin(c) \/ Get(c) \/ PassOn(c) \/ Recheck(c) \/ Poll(c) \/ Drop(c)
           \/ Spawn(c) \/ HelloOk(c) \/ HelloFail(c) \/ Register(c) \/ Late(c)
  <2>1. /\ UNCHANGED <<used, alarm>>
        /\ pc[c] \notin Using \union After \union {"done"}
    BY <1>3 DEF Begin, Get, PassOn, Recheck, Poll, Drop, Discard, Dispose,
       Disposed, Spawn, HelloOk, HelloFail, Register, Late
  <2> QED
    BY <1>0, <2>1 DEF Owns
<1>4. CASE Ask(c)
  BY <1>0, <1>4 DEF Owns, Ask
<1>5. CASE Send(c) \/ Read(c) \/ Cancel(c)
  BY <1>0, <1>5 DEF Owns, KeepIf, Send, Read, Cancel
<1>6. CASE Forget(c)
  <2>1. CASE used[c] = NoCall
    BY <1>0, <1>6, <2>1 DEF Owns, Forget, Discard, Dispose, Disposed
  <2>2. CASE used[c] # NoCall /\ pc'[c] \in Using
    BY <1>0, <1>6, <2>2 DEF Owns, Forget, Discard, Dispose, Disposed
  <2>3. CASE used[c] # NoCall /\ pc'[c] \notin Using
    <3>1. /\ slot[c] = used[c] /\ slot' = [slot EXCEPT ![c] = None]
          /\ UNCHANGED <<free, end, used>>
          /\ pc'[c] = "release"
      <4>1. pc'[c] = "release" /\ pc[c] \in Using
        BY <1>6, <2>3 DEF Forget, Discard, Dispose, Disposed
      <4>2. slot[c] = used[c]
        BY <1>0, <2>3, <4>1 DEF Owns
      <4> QED
        BY <1>6, <4>1, <4>2
        DEF Forget, Discard, Dispose, Disposed, poolVars, procVars
    <3>2. /\ end[used[c]] # "unborn"
          /\ \A d \in Calls \ {c} : slot[d] # used[c]
          /\ \A i \in DOMAIN free : free[i] # used[c]
      BY <2>3, <3>1, HeldAlone
    <3>3. Retired(used[c])'
      BY <2>3, <3>1, <3>2 DEF Retired
    <3> QED
      BY <2>3, <3>1, <3>3 DEF Owns
  <2> QED
    BY <2>1, <2>2, <2>3
<1>7. CASE Release(c) \/ Report(c)
  BY <1>0, <1>1, <1>7 DEF Owns, KeepIf, Release, Report
<1>8. CASE AlarmFire(c) \/ DeadlineStep(c)
  <2>1. /\ UNCHANGED <<used, answer, kind, pc, slot>>
        /\ alarm[c] \in {"armed", "fired", "flagged"}
    BY <1>8 DEF AlarmFire, DeadlineStep, AlarmFlag, AlarmKill
  <2> QED
    BY <1>0, <1>1, <2>1 DEF Owns, KeepIf
<1> QED
  BY <1>2, <1>3, <1>4, <1>5, <1>6, <1>7, <1>8 DEF MyStep, CallStep

LEMMA ClockToldStep ==
  ASSUME Typed, Held, Quiet, Clocked, [Next]_vars
  PROVE  ClockTold'
<1> SUFFICES ASSUME NEW c \in Calls, alarm'[c] \in {"flagged", "spent"},
                    pc'[c] # "done"
             PROVE  byTimeout'[used'[c]] \/ answer'[c] \in {"ok", "bad"}
  BY DEF ClockTold
<1> USE TokenAssumption DEF Typed, TypeOK, PoolTypes, CallTypes, ProcTypes,
        TimeTypes, SlotPlace, Step, Goto, callVars, timeVars, Using, After, Early
<1>0. Owns(c)
  BY DEF Clocked, UsedWell
\* no other call resets the mark of a worker a call is still to report on
<1>1. ASSUME NEW d \in Calls, Ask(d), d # c, used[c] # NoCall, pc[c] # "done"
      PROVE  slot[d] # used[c] \/ answer[c] \in {"ok", "bad"}
  <2>1. slot[d] \in Calls
    BY <1>1 DEF Ask
  <2>2. CASE pc[c] \in Using
    BY <1>0, <1>1, <2>1, <2>2, HeldAlone DEF Owns
  <2>3. CASE pc[c] \in After
    BY <1>0, <1>1, <2>1, <2>3 DEF Owns, KeepIf, Retired
  <2> QED
    BY <1>0, <1>1, <2>2, <2>3 DEF Owns
\* the mark of the worker a call asked stays, or somebody else asks it
<1>2. \A w \in Calls : byTimeout[w] =>
        byTimeout'[w] \/ \E d \in Calls : Ask(d) /\ slot[d] = w
  <2>1. ASSUME NEW d \in Calls,
               Begin(d) \/ Get(d) \/ PassOn(d) \/ Recheck(d) \/ Poll(d) \/ Drop(d)
                 \/ Spawn(d) \/ HelloOk(d) \/ HelloFail(d) \/ Register(d) \/ Late(d)
        PROVE  UNCHANGED byTimeout
    BY <2>1 DEF Begin, Get, PassOn, Recheck, Poll, Drop, Discard, Dispose,
       Disposed, Spawn, HelloOk, HelloFail, Register, Late
  <2>2. ASSUME NEW d \in Calls,
               Send(d) \/ Read(d) \/ Cancel(d) \/ Forget(d) \/ Release(d)
                 \/ Report(d) \/ AlarmFire(d) \/ AlarmKill(d) \/ KillStep(d)
                 \/ WorkerStep(d)
        PROVE  UNCHANGED byTimeout
    BY <2>2 DEF Send, Read, Cancel, Forget, Discard, Dispose, Disposed,
       Release, Report, AlarmFire, AlarmKill, KillStep, KillSignal, KillReap,
       WorkerStep, Answer, OutOfMemory, Crash, Die
  <2>3. CASE CloseSet \/ CloserStep \/ UNCHANGED vars
    BY <2>3 DEF CloseSet, CloserStep, ClosePut, CloseDrain, CloseKill,
       CloseKilled, CloseDone, vars
  <2>4. ASSUME NEW d \in Calls, Ask(d) \/ AlarmFlag(d), NEW w \in Calls,
               byTimeout[w]
        PROVE  byTimeout'[w] \/ (Ask(d) /\ slot[d] = w)
    BY <2>4 DEF Ask, AlarmFlag
  <2> QED
    BY <2>1, <2>2, <2>3, <2>4 DEF Next, CallStep, DeadlineStep, Finished
<1>3. CASE ~MyStep(c)
  <2>1. /\ pc'[c] = pc[c] /\ used'[c] = used[c] /\ answer'[c] = answer[c]
        /\ alarm'[c] = alarm[c]
    BY <1>3, OthersStep
  <2>2. /\ used[c] \in Calls
        /\ byTimeout[used[c]] \/ answer[c] \in {"ok", "bad"}
    BY <1>0, <2>1 DEF Owns, Clocked, ClockTold
  <2>3. \A d \in Calls : Ask(d) => d # c
    BY <1>3 DEF MyStep, CallStep
  <2>4. CASE answer[c] \in {"ok", "bad"}
    BY <2>1, <2>4
  <2>5. CASE byTimeout[used[c]] /\ answer[c] \notin {"ok", "bad"}
    <3>1. \A d \in Calls : Ask(d) => slot[d] # used[c]
      BY <1>1, <2>1, <2>2, <2>3, <2>5
    <3> QED
      BY <1>2, <2>1, <2>2, <2>5, <3>1
  <2> QED
    BY <2>2, <2>4, <2>5
<1>4. CASE Begin(c) \/ Get(c) \/ PassOn(c) \/ Recheck(c) \/ Poll(c) \/ Drop(c)
           \/ Spawn(c) \/ HelloOk(c) \/ HelloFail(c) \/ Register(c) \/ Late(c)
           \/ Ask(c)
  <2>1. /\ pc[c] \notin Using \union After \union {"done"}
        /\ alarm'[c] = alarm[c] \/ alarm'[c] \in {"armed", alarm[c]}
    BY <1>4 DEF Begin, Get, PassOn, Recheck, Poll, Drop, Discard, Dispose,
       Disposed, Spawn, HelloOk, HelloFail, Register, Late, Ask
  <2> QED
    BY <1>0, <2>1 DEF Owns
<1>5. CASE Send(c) \/ Read(c) \/ Cancel(c) \/ Forget(c) \/ Release(c) \/ Report(c)
           \/ AlarmFire(c) \/ AlarmKill(c)
  <2>1. /\ used' = used /\ byTimeout' = byTimeout /\ pc[c] # "done"
        /\ answer'[c] = answer[c] \/ answer[c] = "none"
        /\ alarm[c] \in {"flagged", "spent"}
    BY <1>5 DEF Send, Read, Cancel, Forget, Discard, Dispose, Disposed,
       Release, Report, AlarmFire, AlarmKill, Quiet, NotAnswered
  <2> QED
    BY <2>1 DEF Clocked, ClockTold
<1>6. CASE AlarmFlag(c)
  BY <1>0, <1>6 DEF AlarmFlag, Owns
<1> QED
  BY <1>3, <1>4, <1>5, <1>6 DEF MyStep, CallStep, DeadlineStep

LEMMA ClockedStep == Typed /\ Held /\ Quiet /\ Clocked /\ [Next]_vars => Clocked'
  BY UsedWellStep, ClockToldStep DEF Clocked

\* A call whose own deadline had it killed is reported as out of time, or as
\* what it answered before that, whatever else killed or starved its worker
\* and whoever else uses the pool: only its own report may read the mark.
THEOREM DeadlineIsE610 == Spec => OwnDeadlineIsE610
<1>1. Typed /\ Held /\ Clocked /\ [Next]_vars =>
        [\A c \in Calls :
           pc[c] = "report" /\ pc'[c] = "done" /\ alarm[c] \in {"flagged", "spent"}
             => result'[c] \in {"ok", "bad", "E610"}]_vars
  <2> SUFFICES ASSUME Typed, Clocked, [Next]_vars, NEW c \in Calls,
                      pc[c] = "report", pc'[c] = "done",
                      alarm[c] \in {"flagged", "spent"}
               PROVE  result'[c] \in {"ok", "bad", "E610"}
    OBVIOUS
  <2> USE DEF Typed, TypeOK, CallTypes, TimeTypes
  <2>1. byTimeout[used[c]] \/ answer[c] \in {"ok", "bad"}
    BY DEF Clocked, ClockTold
  <2>2. MyStep(c)
    BY OthersStep
  <2>3. Report(c)
    BY <2>2 DEF MyStep, CallStep, Begin, Get, PassOn, Recheck, Poll, Drop,
       Discard, Dispose, Disposed, Spawn, HelloOk, HelloFail, Register, Late,
       Ask, Send, Read, Cancel, Forget, Release, AlarmFire, DeadlineStep,
       AlarmFlag, AlarmKill, Step, Goto, callVars
  <2> QED
    BY <2>1, <2>3 DEF Report, Limit
<1> QED
  BY <1>1, TypedInit, TypedStep, HeldInit, HeldStep, QuietInit, QuietStep,
     ClockedInit, ClockedStep, PTL DEF Spec, OwnDeadlineIsE610

-----------------------------------------------------------------------------
(* The refinement of PoolPromise: its variables, as Pool maps them. *)

Waiting  == {"new", "get", "got"}
Abstract == <<Stage, Server, Fit, Begun, dirty>>

\* What is queued is what was put and not yet taken.
Has(s, w) == \E i \in DOMAIN s : s[i] = w

LEMMA QueuedHas == ASSUME NEW w PROVE (Queued(w) # {}) <=> Has(free, w)
  BY DEF Queued, Has

LEMMA AppendHas ==
  ASSUME NEW S, NEW s \in Seq(S), NEW x \in S, NEW w
  PROVE  Has(Append(s, x), w) <=> Has(s, w) \/ w = x
<1>1. /\ DOMAIN s = 1..Len(s) /\ DOMAIN Append(s, x) = 1..(Len(s) + 1)
      /\ \A i \in DOMAIN s : Append(s, x)[i] = s[i]
      /\ Append(s, x)[Len(s) + 1] = x /\ Len(s) \in Nat
  OBVIOUS
<1>2. ASSUME NEW i \in DOMAIN Append(s, x) PROVE i \in DOMAIN s \/ i = Len(s) + 1
  BY <1>1
<1>3. DOMAIN s \subseteq DOMAIN Append(s, x) /\ Len(s) + 1 \in DOMAIN Append(s, x)
  BY <1>1
<1> QED
  BY <1>1, <1>2, <1>3 DEF Has

LEMMA TailHas ==
  ASSUME NEW S, NEW s \in Seq(S), s # <<>>, NEW w
  PROVE  Has(s, w) <=> w = Head(s) \/ Has(Tail(s), w)
<1>1. /\ DOMAIN s = 1..Len(s) /\ Len(s) \in Nat \ {0}
      /\ DOMAIN Tail(s) = 1..(Len(s) - 1) /\ Head(s) = s[1]
      /\ \A i \in DOMAIN Tail(s) : Tail(s)[i] = s[i + 1]
  OBVIOUS
<1>2. ASSUME Has(s, w), w # Head(s) PROVE Has(Tail(s), w)
  <2>1. PICK i \in DOMAIN s : s[i] = w
    BY <1>2 DEF Has
  <2>2. i - 1 \in DOMAIN Tail(s) /\ Tail(s)[i - 1] = w
    BY <1>1, <1>2, <2>1
  <2> QED
    BY <2>2 DEF Has
<1>3. ASSUME Has(Tail(s), w) PROVE Has(s, w)
  <2>1. PICK i \in DOMAIN Tail(s) : Tail(s)[i] = w
    BY <1>3 DEF Has
  <2>2. i + 1 \in DOMAIN s /\ s[i + 1] = w
    BY <1>1, <2>1
  <2> QED
    BY <2>2 DEF Has
<1>4. Has(s, Head(s))
  BY <1>1 DEF Has
<1> QED
  BY <1>2, <1>3, <1>4

\* Queue.put makes what it puts fit, and Queue.get what it takes no more so.
LEMMA FitPut ==
  ASSUME free \in Seq(Slots), NEW x \in Slots, free' = Append(free, x)
  PROVE  Fit' = Fit \union ({x} \cap Calls)
<1>1. \A w \in Calls : (Queued(w)' # {}) <=> (Queued(w) # {} \/ w = x)
  BY AppendHas, QueuedHas DEF Queued, Has
<1> QED
  BY <1>1 DEF Fit

LEMMA FitGet ==
  ASSUME free \in Seq(Slots), free # <<>>, free' = Tail(free)
  PROVE  Fit = Fit' \union ({Head(free)} \cap Calls)
<1>1. \A w \in Calls : (Queued(w) # {}) <=> (Queued(w)' # {} \/ w = Head(free))
  BY TailHas, QueuedHas DEF Queued, Has
<1> QED
  BY <1>1 DEF Fit

LEMMA SameCount == ASSUME NEW S PROVE Promise!Cardinality(S) = Cardinality(S)
  BY DEF Promise!Cardinality, Cardinality

\* The places the promise counts are the slots that calls hold.
LEMMA ServingIsHolders == Promise!Serving = Holders
  BY DEF Promise!Serving, Stage, Holders

\* The pool begins where the promise does.
LEMMA PromiseInit == Init => Promise!Init
<1> SUFFICES ASSUME Init PROVE Promise!Init
  OBVIOUS
<1> USE TokenAssumption DEF Init
<1>1. Stage = [c \in Calls |-> "waiting"] /\ Server = [c \in Calls |-> NoCall]
  BY DEF Stage, Server, Holders
<1>2. Fit = {} /\ Begun = {}
  BY SizeAssumption DEF Fit, Begun, Queued
<1> QED
  BY <1>1, <1>2 DEF Promise!Init

\* What a call is to the promise changes by its own step only, and then with
\* the slot and the place it has.
LEMMA SameToPromise ==
  ASSUME Typed,
         \A c \in Calls :
           \/ pc'[c] = pc[c] /\ slot'[c] = slot[c]
           \/ /\ slot[c] \in Calls \union {None} /\ slot'[c] = slot[c]
           \/ /\ pc[c] \in Waiting /\ pc'[c] \in Waiting
              /\ slot[c] \in {NoSlot, CLOSED} /\ slot'[c] \in {NoSlot, CLOSED}
           \/ /\ pc[c] \notin Waiting /\ pc'[c] \notin Waiting
              /\ slot'[c] = slot[c]
  PROVE  Stage' = Stage /\ Server' = Server
<1>1. \A c \in Calls : (c \in Holders)' <=> c \in Holders
  BY TokenAssumption DEF Holders
<1>2. \A c \in Calls : c \notin Holders => (pc'[c] \in Waiting <=> pc[c] \in Waiting)
  BY TokenAssumption DEF Holders
<1>3. Stage' = Stage
  BY <1>1, <1>2 DEF Stage, Waiting
<1>4. Server' = Server
  BY TokenAssumption DEF Server
<1> QED
  BY <1>3, <1>4

LEMMA PromiseStep ==
  ASSUME Typed, Held, Quiet, Conserved, Tracked, [Next]_vars
  PROVE  [Promise!Next]_(Promise!vars)
<1> USE TokenAssumption DEF Typed, TypeOK, PoolTypes, CallTypes, ProcTypes,
        SlotPlace, Step, Goto, Put, poolVars, callVars, procVars
<1>0. ASSUME UNCHANGED Abstract PROVE UNCHANGED Promise!vars
  BY <1>0 DEF Promise!vars, Abstract
<1>1. ASSUME NEW c \in Calls,
             Begin(c) \/ Recheck(c) \/ Poll(c) \/ HelloOk(c) \/ Register(c)
               \/ Ask(c) \/ Send(c) \/ Read(c) \/ Cancel(c) \/ Report(c),
             pc'[c] # "done" \/ pc[c] = "report"
      PROVE  UNCHANGED Abstract
  <2>1. /\ UNCHANGED <<free, slot, end, dirty>>
        /\ \A d \in Calls \ {c} : pc'[d] = pc[d]
    BY <1>1 DEF Begin, Recheck, Poll, HelloOk, Register, Ask, Send, Read,
                Cancel, Report
  <2>2. \/ slot[c] \in Calls \union {None}
        \/ pc[c] \in Waiting /\ pc'[c] \in Waiting /\ slot[c] = NoSlot
        \/ pc[c] \notin Waiting /\ pc'[c] \notin Waiting
    BY <1>1 DEF Begin, Recheck, Poll, HelloOk, Register, Ask, Send, Read,
                Cancel, Report, Waiting, Slots
  <2>3. Stage' = Stage /\ Server' = Server
    BY <2>1, <2>2, SameToPromise
  <2> QED
    BY <2>1, <2>3 DEF Abstract, Fit, Begun, Queued
\* a call that is told the pool is closed before it has a slot leaves
<1>2. ASSUME NEW c \in Calls, Begin(c) \/ PassOn(c), pc'[c] = "done"
      PROVE  Promise!Refuse(c)
  <2>1. /\ pc[c] \in Waiting /\ slot[c] \in {NoSlot, CLOSED} /\ slot'[c] = NoSlot
        /\ \A d \in Calls \ {c} : slot'[d] = slot[d] /\ pc'[d] = pc[d]
        /\ UNCHANGED <<end, dirty>>
        /\ free' = free \/ free' = Append(free, CLOSED)
    BY <1>2 DEF Begin, PassOn, Waiting
  <2>2. c \notin Holders /\ Holders' = Holders
    BY <2>1 DEF Holders
  <2>4. Stage[c] = "waiting" /\ Stage' = [Stage EXCEPT ![c] = "left"]
    <3>1. pc'[c] = "done" /\ pc[c] \in {"new", "get", "got"}
      BY <1>2, <2>1 DEF Waiting
    <3>2. \A d \in Calls \ {c} : pc'[d] = pc[d]
      BY <2>1
    <3> QED
      <4>1. Stage[c] = "waiting"
        BY <2>2, <3>1 DEF Stage
      <4>2. Stage' = [d \in Calls |-> IF d = c THEN "left" ELSE Stage[d]]
        <5>1. \A d \in Calls : d \in Holders' <=> d \in Holders
          BY <2>2
        <5> QED
          BY <2>2, <3>1, <3>2, <5>1 DEF Stage
      <4>3. DOMAIN Stage = Calls
        BY DEF Stage
      <4>4. [Stage EXCEPT ![c] = "left"]
              = [d \in Calls |-> IF d = c THEN "left" ELSE Stage[d]]
        BY ONLY <4>3, Zenon
      <4> QED
        BY <4>1, <4>2, <4>4
  <2>5. Server' = Server
    BY <2>1 DEF Server
  <2>6. Fit' = Fit
    <3>1. CASE free' = Append(free, CLOSED)
      <4>1. free \in Seq(Slots) /\ CLOSED \in Slots
        BY DEF Slots
      <4>2. Fit' = Fit \union ({CLOSED} \cap Calls)
        BY <3>1, <4>1, FitPut
      <4> QED
        BY <4>2
    <3>2. CASE free' = free
      BY <3>2 DEF Fit, Queued
    <3> QED
      BY <2>1, <3>1, <3>2
  <2>7. Begun' = Begun
    BY <2>1 DEF Begun
  <2> QED
    BY <2>1, <2>4, <2>5, <2>6, <2>7 DEF Promise!Refuse
\* a slot is a place, and the worker in it is nobody else's
<1>3. ASSUME NEW c \in Calls, Get(c), Head(free) # CLOSED
      PROVE  Promise!Take(c)
  <2>1. /\ free # <<>> /\ free' = Tail(free) /\ Head(free) \in Slots
        /\ slot[c] = NoSlot /\ slot'[c] = Head(free) /\ pc[c] = "get"
        /\ \A d \in Calls \ {c} : slot'[d] = slot[d] /\ pc'[d] = pc[d]
        /\ UNCHANGED <<end, dirty>>
    BY <1>3 DEF Get
  <2>2. c \notin Holders /\ Holders' = Holders \union {c}
    BY <1>3, <2>1 DEF Holders, Slots
  <2>3. Stage[c] = "waiting" /\ Stage' = [Stage EXCEPT ![c] = "serving"]
    BY <2>1, <2>2 DEF Stage
  <2>4. Cardinality(Promise!Serving) < Size
    <3>1. free \in Seq(Slots)
      OBVIOUS
    <3>2. Cardinality(OpenAt) > 0
      <4>1. 1 \in OpenAt
        BY <1>3, <2>1, <3>1 DEF OpenAt, At
      <4> QED
        BY <3>1, <4>1, AtFinite, FS_EmptySet DEF OpenAt
    <3>3. /\ Cardinality(OpenAt) + Cardinality(Holders) = Size
          /\ Cardinality(OpenAt) \in Nat /\ Cardinality(Holders) \in Nat
      BY <3>1, AtFinite, FS_CardinalityType DEF Conserved, OpenAt
    <3> QED
      BY <3>2, <3>3, ServingIsHolders
  <2>5. \E w \in Fit \union {NoCall} :
          Server' = [Server EXCEPT ![c] = w] /\ Fit' = Fit \ {w}
    <3>1. CASE Head(free) = None
      <4>1. Server' = [Server EXCEPT ![c] = NoCall]
        BY <2>1, <3>1 DEF Server
      <4>2. Fit' = Fit \ {NoCall}
        BY <2>1, <3>1, FitGet DEF Fit
      <4> QED
        BY <4>1, <4>2
    <3>2. CASE Head(free) \in Calls
      <4> DEFINE w == Head(free)
      <4>1. Server' = [Server EXCEPT ![c] = w]
        BY <2>1, <3>2 DEF Server
      <4>2. w \in Fit
        BY <2>1, <3>2 DEF Fit, Queued
      <4>3. Fit' = Fit \ {w}
        <5>1. w \notin Fit'
          BY <2>1, <3>2 DEF Fit, Queued, Held, HeldOnce
        <5> QED
          BY <2>1, <3>2, <5>1, FitGet
      <4> QED
        BY <4>1, <4>2, <4>3
    <3> QED
      BY <1>3, <2>1, <3>1, <3>2 DEF Slots
  <2>7. Begun' = Begun
    BY <2>1 DEF Begun
  <2> QED
    BY <2>1, <2>3, <2>4, <2>5, <2>7, SameCount DEF Promise!Take
<1>4. ASSUME NEW c \in Calls, Get(c), Head(free) = CLOSED
      PROVE  UNCHANGED Abstract
  <2>1. /\ free # <<>> /\ free' = Tail(free)
        /\ slot[c] = NoSlot /\ slot'[c] = CLOSED /\ pc[c] = "get" /\ pc'[c] = "got"
        /\ \A d \in Calls \ {c} : slot'[d] = slot[d] /\ pc'[d] = pc[d]
        /\ UNCHANGED <<end, dirty>>
    BY <1>4 DEF Get
  <2>2. Stage' = Stage /\ Server' = Server
    BY <2>1, SameToPromise DEF Waiting
  <2>3. Fit' = Fit
    <3>1. Head(free) \notin Calls
      BY <1>4
    <3> QED
      <4>1. free \in Seq(Slots)
        OBVIOUS
      <4>2. Fit = Fit' \union ({Head(free)} \cap Calls)
        BY <2>1, <4>1, FitGet
      <4> QED
        BY <3>1, <4>2
  <2> QED
    BY <2>1, <2>2, <2>3 DEF Abstract, Begun
\* a worker is started once, by the call it is named by
<1>5. ASSUME NEW c \in Calls, Spawn(c) PROVE Promise!Start(c)
  <2>1. /\ UNCHANGED <<free, dirty>> /\ end[c] = "unborn"
        /\ slot[c] = None /\ slot'[c] = c /\ pc[c] = "start" /\ pc'[c] = "hello"
        /\ \A d \in Calls \ {c} : slot'[d] = slot[d] /\ pc'[d] = pc[d]
        /\ end' = [end EXCEPT ![c] = "no"]
    BY <1>5 DEF Spawn, Held, Born, Early
  <2>2. Stage[c] = "serving" /\ Stage' = Stage
    BY <2>1 DEF Stage, Holders
  <2>3. Server[c] = NoCall /\ Server' = [Server EXCEPT ![c] = c]
    <3>1. slot[c] \notin Calls /\ slot'[c] = c
      BY <2>1
    <3> QED
      BY <2>1, <3>1, ZenonT(40) DEF Server
  <2>4. c \in Calls \ Begun /\ Begun' = Begun \union {c}
    BY <2>1 DEF Begun
  <2>5. Fit' = Fit
    BY <2>1 DEF Fit, Queued
  <2> QED
    BY <2>1, <2>2, <2>3, <2>4, <2>5 DEF Promise!Start
<1>6. ASSUME NEW c \in Calls, Drop(c) \/ Forget(c) \/ Late(c) \/ HelloFail(c)
      PROVE  Promise!Retire(c) \/ UNCHANGED Abstract
  <2>1. /\ UNCHANGED <<free, dirty>> /\ Begun' = Begun
        /\ slot[c] \in Calls
        /\ slot' = slot \/ slot' = [slot EXCEPT ![c] = None]
        /\ \A d \in Calls \ {c} : pc'[d] = pc[d]
    <3>1. CASE HelloFail(c)
      BY <3>1 DEF HelloFail, Begun, Tracked, Fresh, Held, Born
    <3>2. CASE ~HelloFail(c)
      BY <1>6, <3>2 DEF Drop, Forget, Late, Discard, Dispose, Disposed, Begun
    <3> QED
      BY <3>1, <3>2
  <2>2. Fit' = Fit
    BY <2>1 DEF Fit, Queued
  <2>3. CASE slot' = slot
    BY <2>1, <2>2, <2>3, SameToPromise DEF Abstract
  <2>4. CASE slot' = [slot EXCEPT ![c] = None]
    <3>1. Stage[c] = "serving" /\ Stage' = Stage
      BY <2>1, <2>4 DEF Stage, Holders
    <3>2. Server[c] # NoCall /\ Server' = [Server EXCEPT ![c] = NoCall]
      BY <2>1, <2>4 DEF Server
    <3> QED
      BY <2>1, <2>2, <3>1, <3>2 DEF Promise!Retire
  <2> QED
    BY <2>1, <2>3, <2>4
\* a call leaves with a worker that nothing spoiled, or with none
<1>7. ASSUME NEW c \in Calls, Release(c) PROVE Promise!Leave(c)
  <2>1. /\ free' = Append(free, slot[c]) /\ slot[c] \in Calls \union {None}
        /\ slot'[c] = NoSlot /\ pc[c] = "release" /\ pc'[c] \in {"report", "done"}
        /\ \A d \in Calls \ {c} : slot'[d] = slot[d] /\ pc'[d] = pc[d]
        /\ UNCHANGED <<end, dirty>>
    BY <1>7 DEF Release
  <2>2. c \in Holders /\ Holders' = Holders \ {c}
    BY <2>1 DEF Holders
  <2>3. Stage[c] = "serving" /\ Stage' = [Stage EXCEPT ![c] = "left"]
    BY <2>1, <2>2 DEF Stage
  <2>4. Server[c] \notin dirty
    BY <2>1 DEF Server, Quiet, ReusedIdle, Reusing, Idle
  <2>5. Server' = [Server EXCEPT ![c] = NoCall]
    BY <2>1 DEF Server
  <2>6. Fit' = Fit \union ({Server[c]} \ {NoCall})
    <3>1. free \in Seq(Slots) /\ slot[c] \in Slots
      BY <2>1 DEF Slots
    <3> QED
      BY <2>1, <3>1, FitPut DEF Server
  <2>7. Begun' = Begun
    BY <2>1 DEF Begun
  <2> QED
    BY <2>1, <2>3, <2>4, <2>5, <2>6, <2>7 DEF Promise!Leave
<1>8. ASSUME NEW c \in Calls, AlarmFire(c) \/ DeadlineStep(c) \/ KillStep(c)
      PROVE  UNCHANGED Abstract
  <2>1. UNCHANGED <<free, slot, pc, dirty>> /\ Begun' = Begun
    BY <1>8 DEF AlarmFire, DeadlineStep, AlarmFlag, AlarmKill, KillStep,
                KillSignal, KillReap, Begun
  <2> QED
    BY <2>1, SameToPromise DEF Abstract, Fit, Queued
\* only a worker that serves can be spoiled, and that is none in the queue
<1>9. ASSUME NEW w \in Calls, WorkerStep(w)
      PROVE  Promise!Spoil(w) \/ UNCHANGED Abstract
  <2>1. UNCHANGED <<free, slot, pc>> /\ Begun' = Begun
    BY <1>9 DEF WorkerStep, Answer, OutOfMemory, Crash, Die, Begun, Running,
                Serving
  <2>2. UNCHANGED <<Stage, Server, Fit>>
    BY <2>1, SameToPromise DEF Fit, Queued
  <2>3. CASE dirty' = dirty
    BY <2>1, <2>2, <2>3 DEF Abstract
  <2>4. CASE dirty' # dirty
    <3>1. dirty' = dirty \union {w} /\ Serving(w)
      BY <1>9, <2>4 DEF WorkerStep, Answer, OutOfMemory, Crash, Die
    <3>2. w \in Begun \ Fit
      BY <3>1 DEF Serving, Running, Begun, Fit, Queued, Quiet, QueuedIdle, Idle
    <3> QED
      BY <2>1, <2>2, <3>1, <3>2 DEF Promise!Spoil
  <2> QED
    BY <2>3, <2>4
<1>10. CASE CloseSet \/ CloserStep \/ UNCHANGED vars
  <2>1. /\ UNCHANGED <<slot, pc, end, dirty>>
        /\ free' = free \/ free' = Append(free, CLOSED)
    BY <1>10 DEF CloseSet, CloserStep, ClosePut, CloseDrain, CloseKill,
                 CloseKilled, CloseDone, vars
  <2>2. Fit' = Fit
    <3>1. CASE free' = Append(free, CLOSED)
      <4>1. free \in Seq(Slots) /\ CLOSED \in Slots
        BY DEF Slots
      <4>2. Fit' = Fit \union ({CLOSED} \cap Calls)
        BY <3>1, <4>1, FitPut
      <4> QED
        BY <4>2
    <3>2. CASE free' = free
      BY <3>2 DEF Fit, Queued
    <3> QED
      BY <2>1, <3>1, <3>2
  <2>3. Stage' = Stage /\ Server' = Server
    BY <2>1, SameToPromise
  <2> QED
    BY <1>0, <2>1, <2>2, <2>3 DEF Abstract, Begun
\* which of the promise's steps each step of the pool is
<1>11. CASE \E c \in Calls : Begin(c) \/ CallStep(c)
  <2>1. PICK c \in Calls : Begin(c) \/ CallStep(c)
    BY <1>11
  <2>2. CASE Begin(c) \/ PassOn(c)
    BY <1>0, <1>1, <1>2, <2>2 DEF Promise!Next, Begin, PassOn
  <2>3. CASE ~(Begin(c) \/ PassOn(c))
    <3>1. CASE Get(c)
      BY <1>0, <1>3, <1>4, <3>1 DEF Promise!Next
    <3>2. CASE Spawn(c) \/ Release(c)
      BY <1>5, <1>7, <3>2 DEF Promise!Next
    <3>3. CASE Drop(c) \/ Forget(c) \/ Late(c) \/ HelloFail(c)
      BY <1>0, <1>6, <3>3 DEF Promise!Next
    <3>4. CASE \/ Recheck(c) \/ Poll(c) \/ HelloOk(c) \/ Register(c) \/ Ask(c)
              \/ Send(c) \/ Read(c) \/ Cancel(c) \/ Report(c)
      <4>1. pc'[c] # "done" \/ pc[c] = "report"
        BY <3>4 DEF Recheck, Poll, HelloOk, Register, Ask, Send, Read, Cancel,
                    Report
      <4> QED
        BY <1>0, <1>1, <3>4, <4>1
    <3> QED
      BY <2>1, <2>3, <3>1, <3>2, <3>3, <3>4 DEF CallStep
  <2> QED
    BY <2>2, <2>3
<1> QED
  BY <1>0, <1>8, <1>9, <1>10, <1>11 DEF Next, Promise!Next, Finished

\* The pool implements its promise, for any number of calls and slots: a call
\* takes one of Size places, is served by a worker of its own that nothing
\* spoiled before, and leaves once.
THEOREM PoolKeepsPromise == Spec => KeepsPromise
<1>1. Typed /\ Held /\ Quiet /\ Conserved /\ Tracked /\ [Next]_vars
        => [Promise!Next]_(Promise!vars)
  BY PromiseStep
<1> QED
  BY <1>1, TypedInit, TypedStep, HeldInit, HeldStep, QuietInit, QuietStep,
     ConservedInit, ConservedStep, TrackedInit, TrackedStep, PromiseInit, PTL
  DEF Spec, KeepsPromise, Promise!Spec

-----------------------------------------------------------------------------
(* What the promise comes to, and so what the pool does: its steps are read *)
(* off PoolPromise alone.                                                   *)

\* Isolated, and why: whoever is in hands or waits was started, so one started
\* now is neither, and a call that is not in service holds nobody.
Kindly ==
  /\ Stage \in [Calls -> {"waiting", "serving", "left"}]
  /\ Server \in [Calls -> Calls \union {NoCall}]
  /\ Begun \subseteq Calls /\ Fit \subseteq Begun /\ Fit \cap dirty = {}
  /\ \A c \in Calls : Server[c] # NoCall => /\ Stage[c] = "serving"
                                            /\ Server[c] \in Begun \ Fit
  /\ \A c, d \in Calls : Server[c] # NoCall /\ Server[c] = Server[d] => c = d
  /\ IsFiniteSet(Promise!Serving) /\ Cardinality(Promise!Serving) <= Size

LEMMA KindlyInit == Promise!Init => Kindly
<1> SUFFICES ASSUME Promise!Init PROVE Kindly
  OBVIOUS
<1>1. /\ Stage = [c \in Calls |-> "waiting"] /\ Server = [c \in Calls |-> NoCall]
      /\ Fit = {} /\ Begun = {} /\ dirty = {}
  BY DEF Promise!Init
<1>2. Promise!Serving = {}
  BY <1>1 DEF Promise!Serving
<1>3. IsFiniteSet(Promise!Serving) /\ Cardinality(Promise!Serving) = 0
  BY <1>2, FS_EmptySet
<1> QED
  BY <1>1, <1>3, SizeAssumption DEF Kindly

LEMMA KindlyStep == Kindly /\ [Promise!Next]_(Promise!vars) => Kindly'
<1> SUFFICES ASSUME Kindly, [Promise!Next]_(Promise!vars) PROVE Kindly'
  OBVIOUS
<1> USE TokenAssumption
<1>1. CASE UNCHANGED Promise!vars
  BY <1>1 DEF Kindly, Promise!vars, Promise!Serving
<1>2. ASSUME NEW c \in Calls, Promise!Take(c) PROVE Kindly'
  <2>1. PICK w \in Fit \union {NoCall} :
          /\ Stage[c] = "waiting" /\ Stage' = [Stage EXCEPT ![c] = "serving"]
          /\ Server' = [Server EXCEPT ![c] = w] /\ Fit' = Fit \ {w}
          /\ UNCHANGED <<Begun, dirty>>
    BY <1>2 DEF Promise!Take
  <2>2. /\ Promise!Serving' = Promise!Serving \union {c} /\ c \notin Promise!Serving
        /\ Cardinality(Promise!Serving) < Size
    <3>1. Cardinality(Promise!Serving) < Size
      BY <1>2, SameCount DEF Promise!Take
    <3> QED
      BY <2>1, <3>1 DEF Kindly, Promise!Serving
  <2>3. /\ IsFiniteSet(Promise!Serving')
        /\ Cardinality(Promise!Serving') = Cardinality(Promise!Serving) + 1
        /\ Cardinality(Promise!Serving) \in Nat
    BY <2>2, FS_AddElement, FS_CardinalityType DEF Kindly
  <2>4. IsFiniteSet(Promise!Serving)' /\ (Cardinality(Promise!Serving) <= Size)'
    BY <2>2, <2>3, SizeAssumption
  <2> QED
    BY <2>1, <2>4 DEF Kindly
<1>3. ASSUME NEW c \in Calls, Promise!Refuse(c) PROVE Kindly'
  <2>1. /\ Stage[c] = "waiting" /\ Stage' = [Stage EXCEPT ![c] = "left"]
        /\ UNCHANGED <<Server, Fit, Begun, dirty>>
    BY <1>3 DEF Promise!Refuse
  <2>2. Promise!Serving' = Promise!Serving
    BY <2>1 DEF Kindly, Promise!Serving
  <2> QED
    BY <2>1, <2>2 DEF Kindly
<1>4. ASSUME NEW c \in Calls, Promise!Start(c) PROVE Kindly'
  <2>1. PICK w \in Calls \ Begun :
          /\ Stage[c] = "serving" /\ Server[c] = NoCall
          /\ Server' = [Server EXCEPT ![c] = w] /\ Begun' = Begun \union {w}
          /\ UNCHANGED <<Stage, Fit, dirty>>
    BY <1>4 DEF Promise!Start
  <2>2. Promise!Serving' = Promise!Serving
    BY <2>1 DEF Promise!Serving
  <2> QED
    BY <2>1, <2>2 DEF Kindly
<1>5. ASSUME NEW c \in Calls, Promise!Retire(c) PROVE Kindly'
  <2>1. /\ Server' = [Server EXCEPT ![c] = NoCall]
        /\ UNCHANGED <<Stage, Fit, Begun, dirty>>
    BY <1>5 DEF Promise!Retire
  <2>2. Promise!Serving' = Promise!Serving
    BY <2>1 DEF Promise!Serving
  <2> QED
    BY <2>1, <2>2 DEF Kindly
<1>6. ASSUME NEW c \in Calls, Promise!Leave(c) PROVE Kindly'
  <2>1. /\ Stage[c] = "serving" /\ Server[c] \notin dirty
        /\ Stage' = [Stage EXCEPT ![c] = "left"]
        /\ Fit' = Fit \union ({Server[c]} \ {NoCall})
        /\ Server' = [Server EXCEPT ![c] = NoCall]
        /\ UNCHANGED <<Begun, dirty>>
    BY <1>6 DEF Promise!Leave
  <2>2. Promise!Serving' \subseteq Promise!Serving
    BY <2>1 DEF Kindly, Promise!Serving
  <2>3. /\ IsFiniteSet(Promise!Serving') /\ Cardinality(Promise!Serving) \in Nat
        /\ Cardinality(Promise!Serving') \in Nat
        /\ Cardinality(Promise!Serving') <= Cardinality(Promise!Serving)
    BY <2>2, FS_Subset, FS_CardinalityType DEF Kindly
  <2>4. IsFiniteSet(Promise!Serving)' /\ (Cardinality(Promise!Serving) <= Size)'
    BY <2>3, SizeAssumption DEF Kindly
  <2> QED
    BY <2>1, <2>4 DEF Kindly
<1>7. ASSUME NEW w \in Calls, Promise!Spoil(w) PROVE Kindly'
  <2>1. w \notin Fit /\ dirty' = dirty \union {w}
        /\ UNCHANGED <<Stage, Server, Fit, Begun>>
    BY <1>7 DEF Promise!Spoil
  <2>2. Promise!Serving' = Promise!Serving
    BY <2>1 DEF Promise!Serving
  <2> QED
    BY <2>1, <2>2 DEF Kindly
<1> QED
  BY <1>1, <1>2, <1>3, <1>4, <1>5, <1>6, <1>7 DEF Promise!Next

\* So in the pool, for any number of calls and slots, whatever threads, timers
\* and processes do: at most Size calls are in service, no two by one worker,
\* none by one that is in the queue, and no spoiled worker is in the queue.
THEOREM PoolIsIsolated == Spec => []Promise!Isolated
<1>1. Kindly => Promise!Isolated
  <2> SUFFICES ASSUME Kindly PROVE Promise!Isolated
    OBVIOUS
  <2>1. \A c \in Calls : Server[c] \notin Fit
    BY TokenAssumption DEF Kindly
  <2>2. Promise!Cardinality(Promise!Serving) <= Size
    BY SameCount DEF Kindly
  <2> QED
    BY <2>1, <2>2 DEF Kindly, Promise!Isolated
<1>2. Promise!Spec => []Kindly
  BY KindlyInit, KindlyStep, PTL DEF Promise!Spec
<1> QED
  BY <1>1, <1>2, PoolKeepsPromise, PTL DEF KeepsPromise
=============================================================================
