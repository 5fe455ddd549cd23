------------------------- MODULE PoolWorkerProofs --------------------------
(***************************************************************************)
(* What holds of a pool's worker and its parent (PoolWorker) however many  *)
(* requests are made and calls relayed: an answer is the answer of what    *)
(* was asked, a receipt's word on the confinement is so, and a worker      *)
(* nobody waits for leaves nothing behind.                                 *)
(***************************************************************************)
EXTENDS PoolWorker, SequenceTheorems, TLAPS

Numbers == 1..MaxRequests

USE DEF childVars, parentVars

Numbered ==
  /\ confineAt \in {"start", "run", "off"}
  /\ at \in {"start", "wait", "begin", "entering", "entered", "running", "host",
             "calledFirst", "calledHeld", "called", "gone"} \union Answers
  /\ now \in 0..MaxRequests /\ asked \in 0..MaxRequests
  /\ calls \in 0..MaxCalls
  /\ held \in BOOLEAN /\ acted \in BOOLEAN /\ temp \in BOOLEAN
  /\ parent \in {"starting", "idle", "asked", "relaying", "calling",
                 "hostGone", "kill", "done", "dead", "left"}
  /\ confinement \in {"unsaid", "pending", "held", "off"}

-----------------------------------------------------------------------------
(* What lies in the two pipes, by where the parent and the worker are. *)

Silent  == replies \in {<<>>, << <<"confinement", asked>> >>}
Told(m) == replies \in {<<m>>, << <<"confinement", asked>>, m >>}

Over(n) == <<"relayed", n>>

Starting ==
  /\ parent = "starting" /\ asked = 0 /\ heard[1] = 0 /\ requests = <<>>
  /\ \/ at = "start" /\ replies = <<>>
     \/ at = "wait" /\ replies = << <<"hello", 0>> >>

\* Between two requests, or given up: only the word that a run is over is
\* on its way.
Resting ==
  /\ parent \in {"idle", "kill"} /\ replies = <<>> /\ heard[1] = asked
  /\ \/ at = "wait" /\ requests = <<>>
     \/ /\ at = "host" \/ (at = "wait" /\ parent = "kill")
        /\ \E n \in Numbers : requests = <<Over(n)>>

Asked ==
  /\ parent = "asked" /\ asked \in Numbers
  /\ \/ /\ replies = <<>>
        /\ \/ at = "wait" /\ requests = << <<"op", asked>> >>
           \/ at = "host" /\ \E n \in Numbers : requests = << Over(n), <<"op", asked>> >>
     \/ /\ requests = <<>> /\ now = asked
        /\ \/ at = "begin" /\ replies = <<>>
           \/ at \in {"running"} \union Answers /\ Silent
           \/ at \in {"entering", "entered"} /\ replies = <<>>
           \/ at = "wait" /\ \E a \in Answers : Told(<<a, asked>>)
           \/ at = "host" /\ replies = << <<"route", asked>> >>

Relaying ==
  /\ parent = "relaying" /\ asked \in Numbers /\ heard[1] = asked /\ now = asked
  /\ at = "host" /\ requests = <<>> /\ replies = <<>>

Calling ==
  /\ parent = "calling" /\ asked \in Numbers /\ heard[1] = asked /\ now = asked
  /\ \/ at = "host" /\ requests = << <<"call", asked>> >> /\ replies = <<>>
     \/ /\ requests = <<>>
        /\ \/ at \in {"calledFirst", "calledHeld"} /\ replies = <<>>
           \/ at \in {"called", "crashed", "oom"} /\ Silent
           \/ at = "host" /\ Told(<<"answer", asked>>)
           \/ at = "wait" /\ \E a \in {"crashed", "oom"} : Told(<<a, asked>>)

HostLost ==
  /\ parent = "hostGone" /\ asked \in Numbers /\ heard[1] = asked
  /\ at = "wait" /\ requests = <<>> /\ replies = <<>>

Phase == Starting \/ Resting \/ Asked \/ Relaying \/ Calling \/ HostLost

\* What a worker can find in its pipe, its parent alive or not.
Turns ==
  \/ requests = <<>>
  \/ at = "wait" /\ \E n \in Numbers : requests \in {<< <<"op", n>> >>, <<Over(n)>>}
  \/ at = "host" /\ \E n, k \in Numbers :
       requests \in {<< <<"call", n>> >>, <<Over(n)>>, << Over(n), <<"op", k>> >>}

\* What is left when the parent died between two requests.
Rested == \/ at = "wait" /\ requests = <<>>
          \/ at = "host" /\ \E n \in Numbers : requests = <<Over(n)>>

InTurn == \/ Phase
          \/ parent = "left" /\ (Rested \/ at = "gone")
          \/ parent = "dead" /\ (Turns \/ at = "gone")
          \/ parent = "done" /\ at = "gone"

LEMMA One ==
  ASSUME NEW m
  PROVE  /\ Append(<<>>, m) = <<m>> /\ Head(<<m>>) = m /\ Tail(<<m>>) = <<>>
         /\ <<m>> # <<>>
OBVIOUS

LEMMA Two ==
  ASSUME NEW m, NEW k
  PROVE  /\ Append(<<m>>, k) = <<m, k>> /\ Head(<<m, k>>) = m
         /\ Tail(<<m, k>>) = <<k>> /\ <<m, k>> # <<>>
<1>1. Append(<<m>>, k) = <<m, k>>
  <2>1. <<m>> \in Seq({m, k}) /\ <<m, k>> \in Seq({m, k})
    OBVIOUS
  <2>2. /\ Append(<<m>>, k) \in Seq({m, k}) /\ Len(Append(<<m>>, k)) = 2
        /\ Append(<<m>>, k)[1] = m /\ Append(<<m>>, k)[2] = k
    BY <2>1, AppendProperties
  <2>3. \A i \in 1..2 : Append(<<m>>, k)[i] = <<m, k>>[i]
    BY <2>2
  <2>4. Len(<<m, k>>) = 2
    OBVIOUS
  <2> QED
    BY <2>1, <2>2, <2>3, <2>4, SeqEqual
<1>2. Head(<<m, k>>) = m
  OBVIOUS
<1>3. Tail(<<m, k>>) = <<k>>
  OBVIOUS
<1>4. <<m, k>> # <<>>
  OBVIOUS
<1> QED
  BY <1>1, <1>2, <1>3, <1>4

LEMMA PhaseTurns == ASSUME Phase \/ Rested PROVE Turns
BY DEF Rested, Phase, Starting, Resting, Asked, Relaying, Calling, HostLost, Turns

\* Which actions a worker has, by where it is ...
LEMMA WorkerMoves ==
  ASSUME LoopStep \/ ProgramStep
  PROVE  \/ at = "start" /\ Hello
         \/ at = "wait" /\ requests # <<>> /\ TakeRequest
         \/ at = "wait" /\ ~Alive /\ EndOfRequests
         \/ at = "begin" /\ (Check \/ Run \/ Route)
         \/ at = "running" /\ Finish
         \/ at = "host" /\ requests # <<>> /\ (HostCall \/ HostOver)
         \/ at = "host" /\ ~Alive /\ HostOrphaned
         \/ at \in {"entering", "calledFirst"} /\ ConfineNow
         \/ at \in {"entered", "calledHeld"} /\ SayConfined
         \/ at = "called" /\ (HostAnswer \/ HostFault)
         \/ at \in Answers /\ Answer
BY DEF LoopStep, ProgramStep, Hello, TakeRequest, EndOfRequests, Check, Run,
       Route, Finish, HostCall, HostOver, HostOrphaned, ConfineNow, SayConfined,
       HostAnswer, HostFault, Answer

\* ... and its parent.
LEMMA ParentMoves ==
  ASSUME ParentStep \/ Ask \/ Relay \/ Close
  PROVE  \/ parent = "starting" /\ Ready
         \/ parent = "idle" /\ (Ask \/ Close)
         \/ parent = "asked" /\ (PassOver \/ Take \/ TakeRoute)
         \/ parent = "relaying" /\ (Relay \/ Relayed)
         \/ parent = "calling" /\ (PassOver \/ TakeCall \/ TakeFault)
         \/ parent = "hostGone" /\ Relayed
         \/ parent = "kill" /\ Kill
<1>1. /\ Ready => parent = "starting"
      /\ Ask \/ Close => parent = "idle"
      /\ Take \/ TakeRoute => parent = "asked"
      /\ PassOver => parent \in {"asked", "calling"}
      /\ Relay => parent = "relaying"
  BY DEF Ready, Ask, Close, Take, TakeRoute, PassOver, Relay
<1>2. /\ TakeCall \/ TakeFault => parent = "calling"
      /\ Relayed => parent \in {"relaying", "hostGone"}
      /\ Kill => parent = "kill"
  BY DEF TakeCall, TakeFault, Relayed, Kill
<1> QED
  BY <1>1, <1>2 DEF ParentStep

\* What an alive parent leaves alone.
LEMMA WorkerLeaves ==
  ASSUME LoopStep \/ ProgramStep PROVE UNCHANGED parentVars
BY DEF LoopStep, ProgramStep, Hello, TakeRequest, EndOfRequests, Check, Run,
       Route, Finish, HostCall, HostOver, HostOrphaned, ConfineNow, SayConfined,
       HostAnswer, HostFault, Answer

Work   == LoopStep \/ ProgramStep
Parent == ParentStep \/ Ask \/ Relay \/ Close

LEMMA StartingStep == ASSUME Starting, Work \/ Parent PROVE Phase'
<1> USE One DEF Starting
<1>1. CASE Work
  <2>1. UNCHANGED parentVars /\ Hello
    BY <1>1, WorkerMoves, WorkerLeaves DEF Work, Alive, Answers
  <2> QED
    BY <2>1 DEF Hello, Reply, Alive, Phase
<1>2. CASE Parent
  <2>1. Ready
    BY <1>2, ParentMoves DEF Parent
  <2> QED
    BY <2>1 DEF Ready, Heard, Phase, Resting
<1> QED
  BY <1>1, <1>2

LEMMA RestingStep ==
  ASSUME Numbered, Resting, Work \/ (Parent /\ ~Kill) PROVE Phase'
<1> USE One, Two DEF Resting
<1>1. CASE Work
  <2>1. UNCHANGED parentVars /\ \E n \in Numbers : requests = <<Over(n)>>
    BY <1>1, WorkerMoves, WorkerLeaves DEF Work, Alive, Answers
  <2>2. PICK n \in Numbers : requests = <<Over(n)>>
    BY <2>1
  <2>3. Head(requests)[1] = "relayed" /\ Tail(requests) = <<>>
    BY <2>2 DEF Over
  <2>4. TakeRequest \/ HostOver
    BY <1>1, <2>1, <2>3, WorkerMoves DEF Work, Alive, Answers, HostCall
  <2>5. at' = "wait" /\ requests' = <<>> /\ replies' = replies
    BY <2>3, <2>4 DEF TakeRequest, HostOver
  <2> QED
    BY <2>1, <2>5 DEF Phase
<1>3. CASE Close
  BY <1>3 DEF Close, Phase
<1>2. CASE Parent /\ ~Kill /\ ~Close
  <2>1. Ask /\ parent = "idle"
    BY <1>2, ParentMoves DEF Parent
  <2>2. /\ asked' = asked + 1 /\ asked' \in Numbers
        /\ requests' = Append(requests, <<"op", asked'>>)
        /\ parent' = "asked" /\ at' = at /\ replies' = replies
    BY <2>1, BoundAssumption DEF Ask, Say, Numbered, Numbers
  <2>3. CASE at = "wait" /\ requests = <<>>
    <3>1. requests' = << <<"op", asked'>> >>
      BY <2>2, <2>3
    <3>2. Asked'
      BY <2>2, <2>3, <3>1 DEF Asked
    <3> QED
      BY <3>2 DEF Phase
  <2>4. CASE at = "host" /\ \E n \in Numbers : requests = <<Over(n)>>
    <3>1. PICK n \in Numbers : requests = <<Over(n)>>
      BY <2>4
    <3>2. requests' = << Over(n), <<"op", asked'>> >>
      BY <2>2, <3>1
    <3>3. Asked'
      BY <2>2, <2>4, <3>2 DEF Asked
    <3> QED
      BY <3>3 DEF Phase
  <2> QED
    BY <2>1, <2>3, <2>4
<1> QED
  BY <1>1, <1>2, <1>3

LEMMA Replied ==
  ASSUME Silent, NEW m
  PROVE  Append(replies, m) \in {<<m>>, << <<"confinement", asked>>, m >>}
<1>1. CASE replies = <<>>
  BY <1>1, One
<1>2. CASE replies = << <<"confinement", asked>> >>
  BY <1>2, Two
<1> QED
  BY <1>1, <1>2 DEF Silent

\* A request runs here: from its message to its answer, or to a route.
LEMMA AskedStep == ASSUME Numbered, Asked, Work \/ Parent PROVE Phase'
<1> USE One, Two
<1>0. parent = "asked" /\ asked \in Numbers
  BY DEF Asked
<1>1. CASE Work
  <2>0. UNCHANGED parentVars
    BY <1>1, WorkerLeaves DEF Work
  <2> SUFFICES Asked'
    BY DEF Phase
  <2>1. CASE at = "wait" /\ replies = <<>> /\ requests = << <<"op", asked>> >>
    <3>1. TakeRequest
      BY <1>0, <1>1, <2>1, WorkerMoves DEF Work, Alive, Answers
    <3> QED
      BY <1>0, <2>0, <2>1, <3>1 DEF TakeRequest, Asked
  <2>2. CASE at = "host" /\ replies = <<>>
             /\ \E n \in Numbers : requests = << Over(n), <<"op", asked>> >>
    <3>1. PICK n \in Numbers : requests = << Over(n), <<"op", asked>> >>
      BY <2>2
    <3>2. Head(requests)[1] = "relayed" /\ Tail(requests) = << <<"op", asked>> >>
      BY <3>1 DEF Over
    <3>3. HostOver
      BY <1>0, <1>1, <2>2, <3>2, WorkerMoves DEF Work, Alive, Answers, HostCall
    <3> QED
      BY <1>0, <2>0, <2>2, <3>2, <3>3 DEF HostOver, Asked
  <2>3. CASE requests = <<>> /\ now = asked
    <3>1. CASE at = "begin" /\ replies = <<>>
      <4>1. Check \/ Run \/ Route
        BY <1>0, <1>1, <3>1, WorkerMoves DEF Work, Alive, Answers
      <4> QED
        BY <1>0, <2>0, <2>3, <3>1, <4>1
           DEF Check, Run, Route, Reply, Alive, Asked, Silent, Answers
    <3>5. CASE at \in {"entering", "entered"} /\ replies = <<>>
      <4>1. ConfineNow \/ SayConfined
        BY <1>0, <1>1, <3>5, WorkerMoves DEF Work, Alive, Answers
      <4> QED
        BY <1>0, <2>0, <2>3, <3>5, <4>1
           DEF ConfineNow, SayConfined, Reply, Alive, Asked, Silent
    <3>2. CASE at = "running" /\ Silent
      <4>1. Finish
        BY <1>0, <1>1, <3>2, WorkerMoves DEF Work, Alive, Answers
      <4> QED
        BY <1>0, <2>0, <2>3, <3>2, <4>1 DEF Finish, Asked, Silent
    <3>3. CASE at \in Answers /\ Silent
      <4>1. Answer
        BY <1>0, <1>1, <3>3, WorkerMoves DEF Work, Alive, Answers
      <4>2. replies' = Append(replies, <<at, asked>>) /\ at' = "wait"
        BY <1>0, <2>3, <4>1 DEF Answer, Reply, Alive
      <4>3. replies' \in {<< <<at, asked>> >>, << <<"confinement", asked>>, <<at, asked>> >>}
        BY <3>3, <4>2, Replied
      <4>4. requests' = requests /\ now' = now
        BY <4>1 DEF Answer
      <4> QED
        BY <1>0, <2>0, <2>3, <3>3, <4>2, <4>3, <4>4 DEF Asked, Told
    <3>4. CASE at = "wait" \/ at = "host"
      BY <1>0, <1>1, <2>3, <3>4, WorkerMoves DEF Work, Alive, Answers
    <3> QED
      BY <2>3, <3>1, <3>2, <3>3, <3>4, <3>5 DEF Asked
  <2> QED
    BY <2>1, <2>2, <2>3 DEF Asked
<1>2. CASE Parent
  <2>1. (PassOver \/ Take \/ TakeRoute) /\ replies # <<>>
    BY <1>0, <1>2, ParentMoves DEF Parent, PassOver, Take, TakeRoute, Heard
  <2>2. requests = <<>> /\ now = asked
    BY <2>1 DEF Asked
  <2>3. UNCHANGED <<at, now, requests, asked, calls>> /\ replies' = Tail(replies)
    BY <2>1 DEF PassOver, Take, TakeRoute, Heard
  <2>4. CASE replies = << <<"confinement", asked>> >>
    <3>1. PassOver /\ at \in {"running"} \union Answers
      BY <2>1, <2>4 DEF PassOver, Take, TakeRoute, Heard, Asked, Told, Answers
    <3> QED
      BY <1>0, <2>2, <2>3, <2>4, <3>1 DEF PassOver, Heard, Phase, Asked, Silent
  <2>5. CASE at = "host" /\ replies = << <<"route", asked>> >>
    <3>1. TakeRoute
      BY <2>1, <2>5 DEF PassOver, Take, TakeRoute, Heard, Answers
    <3> QED
      BY <1>0, <2>2, <2>3, <2>5, <3>1 DEF TakeRoute, Heard, Phase, Relaying
  <2>6. ASSUME NEW a \in Answers, at = "wait", replies = << <<a, asked>> >>
        PROVE  Phase'
    <3>1. Take
      BY <2>1, <2>6 DEF PassOver, Take, TakeRoute, Heard, Answers
    <3>2. parent' \in {"idle", "kill"} /\ heard'[1] = asked /\ replies' = <<>>
      BY <2>3, <2>6, <3>1 DEF Take, Heard
    <3> QED
      BY <2>2, <2>3, <2>6, <3>2 DEF Phase, Resting
  <2>7. ASSUME NEW a \in Answers, at = "wait",
               replies = << <<"confinement", asked>>, <<a, asked>> >>
        PROVE  Phase'
    <3>1. PassOver
      BY <2>1, <2>7 DEF PassOver, Take, TakeRoute, Heard, Answers
    <3>2. replies' = << <<a, asked>> >> /\ parent' = "asked" /\ at' = "wait"
      BY <1>0, <2>3, <2>7, <3>1 DEF PassOver, Heard
    <3>3. Asked'
      BY <1>0, <2>2, <2>3, <3>2 DEF Asked, Told
    <3> QED
      BY <3>3 DEF Phase
  <2> QED
    BY <2>1, <2>2, <2>4, <2>5, <2>6, <2>7 DEF Asked, Silent, Told
<1> QED
  BY <1>1, <1>2

\* A run is relayed: sabline-rt makes it, in the parent, and this process its
\* calls.
LEMMA RelayingStep == ASSUME Numbered, Relaying, Work \/ Parent PROVE Phase'
<1> USE One, Two
<1>1. CASE Work
  BY <1>1, WorkerMoves DEF Work, Relaying, Alive, Answers
<1>2. CASE Parent
  <2>1. Relay \/ Relayed
    BY <1>2, ParentMoves DEF Parent, Relaying
  <2>2. CASE Relay
    BY <2>2 DEF Relay, Relaying, Say, Phase, Calling
  <2>3. CASE Relayed
    <3>1. requests' = <<Over(asked)>> /\ parent' \in {"idle", "kill"} /\ asked' = asked
      BY <2>3 DEF Relayed, Relaying, Say, Over
    <3>2. replies' = <<>> /\ heard'[1] = asked /\ at' = "host" /\ asked \in Numbers
      BY <2>3 DEF Relayed, Relaying
    <3> QED
      BY <3>1, <3>2 DEF Phase, Resting
  <2> QED
    BY <2>1, <2>2, <2>3
<1> QED
  BY <1>1, <1>2

LEMMA CallingStep == ASSUME Numbered, Calling, Work \/ Parent PROVE Phase'
<1> USE One, Two
<1>0. parent = "calling" /\ asked \in Numbers /\ heard[1] = asked /\ now = asked
  BY DEF Calling
<1>1. CASE Work
  <2>0. UNCHANGED parentVars
    BY <1>1, WorkerLeaves DEF Work
  <2> SUFFICES Calling'
    BY DEF Phase
  <2>1. CASE at = "host" /\ requests = << <<"call", asked>> >> /\ replies = <<>>
    <3>1. HostCall
      BY <1>0, <1>1, <2>1, WorkerMoves DEF Work, Alive, Answers, HostOver
    <3>2. at' \in {"calledFirst", "called"} /\ requests' = <<>>
          /\ replies' = <<>> /\ now' = now
      BY <2>1, <3>1 DEF HostCall
    <3> QED
      BY <1>0, <2>0, <3>2 DEF Calling, Silent
  <2>2. CASE /\ requests = <<>> /\ replies = <<>>
             /\ at \in {"calledFirst", "calledHeld"}
    <3>1. ConfineNow \/ SayConfined
      BY <1>0, <1>1, <2>2, WorkerMoves DEF Work, Alive, Answers
    <3> QED
      BY <1>0, <2>0, <2>2, <3>1 DEF ConfineNow, SayConfined, Reply, Alive, Calling, Silent
  <2>3. CASE requests = <<>> /\ at = "called" /\ Silent
    <3>1. HostAnswer \/ HostFault
      BY <1>0, <1>1, <2>3, WorkerMoves DEF Work, Alive, Answers
    <3>2. CASE HostAnswer
      <4>1. replies' = Append(replies, <<"answer", asked>>) /\ at' = "host"
        BY <1>0, <3>2 DEF HostAnswer, Reply, Alive
      <4>2. replies' \in {<< <<"answer", asked>> >>,
                          << <<"confinement", asked>>, <<"answer", asked>> >>}
        BY <2>3, <4>1, Replied
      <4>3. requests' = requests /\ now' = now
        BY <3>2 DEF HostAnswer
      <4> QED
        BY <1>0, <2>0, <2>3, <4>1, <4>2, <4>3 DEF Calling, Told
    <3>3. CASE HostFault
      BY <1>0, <2>0, <2>3, <3>3 DEF HostFault, Calling, Silent
    <3> QED
      BY <3>1, <3>2, <3>3
  <2>4. CASE requests = <<>> /\ at \in {"crashed", "oom"} /\ Silent
    <3>1. Answer
      BY <1>0, <1>1, <2>4, WorkerMoves DEF Work, Alive, Answers
    <3>2. replies' = Append(replies, <<at, asked>>) /\ at' = "wait"
      BY <1>0, <3>1 DEF Answer, Reply, Alive
    <3>3. replies' \in {<< <<at, asked>> >>, << <<"confinement", asked>>, <<at, asked>> >>}
      BY <2>4, <3>2, Replied
    <3>4. requests' = requests /\ now' = now
      BY <3>1 DEF Answer
    <3> QED
      BY <1>0, <2>0, <2>4, <3>2, <3>3, <3>4 DEF Calling, Told
  <2>5. CASE requests = <<>> /\ at \in {"wait", "host"}
    BY <1>0, <1>1, <2>5, WorkerMoves DEF Work, Alive, Answers
  <2> QED
    BY <2>1, <2>2, <2>3, <2>4, <2>5 DEF Calling
<1>2. CASE Parent
  <2>1. (PassOver \/ TakeCall \/ TakeFault) /\ replies # <<>>
    BY <1>0, <1>2, ParentMoves DEF Parent, PassOver, TakeCall, TakeFault, Heard
  <2>2. requests = <<>>
    BY <2>1 DEF Calling
  <2>3. UNCHANGED <<at, now, requests, asked, heard>> /\ replies' = Tail(replies)
    BY <2>1 DEF PassOver, TakeCall, TakeFault, Heard
  <2>4. CASE replies = << <<"confinement", asked>> >>
    <3>1. PassOver /\ at \in {"called", "crashed", "oom"}
      BY <2>1, <2>4 DEF PassOver, TakeCall, TakeFault, Heard, Calling, Told
    <3> QED
      BY <1>0, <2>2, <2>3, <2>4, <3>1 DEF PassOver, Heard, Phase, Calling, Silent
  <2>5. CASE at = "host" /\ replies = << <<"answer", asked>> >>
    <3>1. TakeCall
      BY <2>1, <2>5 DEF PassOver, TakeCall, TakeFault, Heard
    <3> QED
      BY <1>0, <2>2, <2>3, <2>5, <3>1 DEF TakeCall, Heard, Phase, Relaying
  <2>6. ASSUME NEW a \in {"crashed", "oom"}, at = "wait", replies = << <<a, asked>> >>
        PROVE  Phase'
    <3>1. TakeFault
      BY <2>1, <2>6 DEF PassOver, TakeCall, TakeFault, Heard
    <3> QED
      BY <1>0, <2>2, <2>3, <2>6, <3>1 DEF TakeFault, Heard, Phase, HostLost
  <2>7. CASE at = "host" /\ replies = << <<"confinement", asked>>, <<"answer", asked>> >>
    <3>1. PassOver
      BY <2>1, <2>7 DEF PassOver, TakeCall, TakeFault, Heard
    <3>2. replies' = << <<"answer", asked>> >> /\ parent' = "calling"
      BY <1>0, <2>3, <2>7, <3>1 DEF PassOver, Heard
    <3> QED
      BY <1>0, <2>2, <2>3, <2>7, <3>2 DEF Phase, Calling, Told
  <2>8. ASSUME NEW a \in {"crashed", "oom"}, at = "wait",
               replies = << <<"confinement", asked>>, <<a, asked>> >>
        PROVE  Phase'
    <3>1. PassOver
      BY <2>1, <2>8 DEF PassOver, TakeCall, TakeFault, Heard
    <3>2. replies' = << <<a, asked>> >> /\ parent' = "calling" /\ at' = "wait"
      BY <1>0, <2>3, <2>8, <3>1 DEF PassOver, Heard
    <3>3. Calling'
      BY <1>0, <2>2, <2>3, <3>2 DEF Calling, Told
    <3> QED
      BY <3>3 DEF Phase
  <2> QED
    BY <2>1, <2>2, <2>4, <2>5, <2>6, <2>7, <2>8 DEF Calling, Silent, Told
<1> QED
  BY <1>1, <1>2

LEMMA HostLostStep == ASSUME Numbered, HostLost, Work \/ Parent PROVE Phase'
<1> USE One, Two
<1>1. CASE Work
  BY <1>1, WorkerMoves DEF Work, HostLost, Alive, Answers
<1>2. CASE Parent
  <2>1. Relayed
    BY <1>2, ParentMoves DEF Parent, HostLost
  <2>2. requests' = <<Over(asked)>> /\ parent' = "kill" /\ asked' = asked
    BY <2>1 DEF Relayed, HostLost, Say, Over
  <2>3. replies' = <<>> /\ heard'[1] = asked /\ at' = "wait" /\ asked \in Numbers
    BY <2>1 DEF Relayed, HostLost
  <2> QED
    BY <2>2, <2>3 DEF Phase, Resting
<1> QED
  BY <1>1, <1>2

\* A worker whose parent died reads what is left, and nothing is put to it.
LEMMA OrphanStep ==
  ASSUME parent \in {"dead", "left"}, Turns \/ at = "gone", Work \/ Parent
  PROVE  parent' = parent /\ (Turns' \/ at' = "gone")
<1> USE One, Two
<1>1. Work /\ at # "gone"
  BY ParentMoves, WorkerMoves DEF Work, Parent, Answers
<1>2. parent' = parent /\ ~Alive
  BY <1>1, WorkerLeaves DEF Work, Alive
<1>3. CASE requests = <<>>
  <2>1. requests' = requests
    BY <1>1, <1>3, WorkerMoves
       DEF Work, Hello, EndOfRequests, Check, Run, Route, Finish, HostOrphaned,
           ConfineNow, SayConfined, HostAnswer, HostFault, Answer
  <2> QED
    BY <1>2, <1>3, <2>1 DEF Turns
<1>4. ASSUME at = "wait", NEW n \in Numbers,
             requests \in {<< <<"op", n>> >>, <<Over(n)>>}
      PROVE  Turns'
  <2>1. requests # <<>> /\ Tail(requests) = <<>>
    BY <1>4
  <2>2. requests' = <<>> \/ at' = "gone"
    BY <1>1, <1>4, <2>1, WorkerMoves DEF Work, Answers, TakeRequest, EndOfRequests
  <2>3. ~EndOfRequests
    BY <2>1 DEF EndOfRequests
  <2>4. requests' = <<>>
    BY <1>1, <1>4, <2>1, <2>3, WorkerMoves DEF Work, Answers, TakeRequest
  <2> QED
    BY <2>4 DEF Turns
<1>5. ASSUME at = "host", NEW n \in Numbers, NEW k \in Numbers,
             requests \in {<< <<"call", n>> >>, <<Over(n)>>, << Over(n), <<"op", k>> >>}
      PROVE  Turns'
  <2>1. requests # <<>> /\ Tail(requests) \in {<<>>, << <<"op", k>> >>}
    BY <1>5
  <2>2. HostCall \/ HostOver
    BY <1>1, <1>5, <2>1, WorkerMoves DEF Work, Answers, HostOrphaned
  <2>3. CASE Head(requests)[1] = "call"
    <3>1. HostCall /\ requests = << <<"call", n>> >>
      BY <1>5, <2>2, <2>3 DEF HostOver, Over
    <3>2. requests' = <<>>
      BY <3>1 DEF HostCall
    <3> QED
      BY <3>2 DEF Turns
  <2>4. CASE Head(requests)[1] # "call"
    <3>1. HostOver
      BY <2>2, <2>4 DEF HostCall
    <3>2. requests' \in {<<>>, << <<"op", k>> >>} /\ at' = "wait"
      BY <2>1, <3>1 DEF HostOver
    <3> QED
      BY <3>2 DEF Turns
  <2> QED
    BY <2>3, <2>4
<1> QED
  BY <1>1, <1>2, <1>3, <1>4, <1>5 DEF Turns

\* Between two requests, nothing but that the last run is over is on its way:
\* it is read, and then the end of the pipe.
LEMMA RestedStep ==
  ASSUME parent = "left", Rested, Work
  PROVE  Rested' \/ (at' = "gone" /\ temp' = FALSE)
<1> USE One
<1>1. CASE at = "wait" /\ requests = <<>>
  BY <1>1, WorkerMoves DEF Work, Answers, EndOfRequests
<1>2. ASSUME at = "host", NEW n \in Numbers, requests = <<Over(n)>>
      PROVE  Rested'
  <2>1. requests # <<>> /\ Head(requests)[1] = "relayed" /\ Tail(requests) = <<>>
    BY <1>2 DEF Over
  <2>2. HostOver
    BY <1>2, <2>1, WorkerMoves DEF Work, Answers, HostCall, HostOrphaned
  <2> QED
    BY <2>1, <2>2 DEF HostOver, Rested
<1> QED
  BY <1>1, <1>2 DEF Rested

LEMMA InTurnStep == ASSUME Numbered, InTurn, [Next]_vars PROVE InTurn'
<1>1. CASE Work \/ Parent
  <2>1. CASE Phase /\ ~Kill
    <3>1. Phase'
      BY <1>1, <2>1, StartingStep, RestingStep, AskedStep, RelayingStep,
         CallingStep, HostLostStep DEF Phase
    <3> QED
      BY <3>1 DEF InTurn
  <2>2. CASE Kill
    BY <2>2 DEF Kill, InTurn
  <2>3. CASE parent = "dead" /\ (Turns \/ at = "gone")
    BY <1>1, <2>3, OrphanStep DEF InTurn
  <2>5. CASE parent = "left" /\ (Rested \/ at = "gone")
    <3>1. parent' = "left" /\ Work
      BY <1>1, <2>5, OrphanStep, PhaseTurns, ParentMoves DEF Parent
    <3>2. at # "gone"
      BY <3>1, WorkerMoves DEF Work, Answers
    <3> QED
      BY <2>5, <3>1, <3>2, RestedStep DEF InTurn
  <2>4. CASE parent = "done" /\ at = "gone"
    BY <1>1, <2>4, WorkerMoves, ParentMoves DEF Work, Parent, Answers
  <2> QED
    BY <2>1, <2>2, <2>3, <2>4, <2>5 DEF InTurn
<1>2. CASE Die
  <2>1. Phase /\ Turns /\ UNCHANGED <<at, requests>>
    BY <1>2, PhaseTurns DEF Die, InTurn
  <2>2. CASE parent = "idle"
    <3>1. parent' = "left" /\ Rested
      BY <1>2, <2>1, <2>2 DEF Die, Rested, Phase, Starting, Resting, Asked,
         Relaying, Calling, HostLost
    <3> QED
      BY <2>1, <3>1 DEF InTurn, Rested
  <2>3. CASE parent # "idle"
    BY <1>2, <2>1, <2>3 DEF Die, InTurn, Turns
  <2> QED
    BY <2>2, <2>3
<1>3. CASE Rest \/ UNCHANGED vars
  BY <1>3 DEF Rest, vars, InTurn, Phase, Starting, Resting, Asked, Relaying,
              Calling, HostLost, Turns, Rested, Silent, Told
<1> QED
  BY <1>1, <1>2, <1>3 DEF Next, Work, Parent

LEMMA NumberedStep == ASSUME Numbered, InTurn, [Next]_vars PROVE Numbered'
<1> USE BoundAssumption DEF Numbered
<1>1. CASE LoopStep /\ ~TakeRequest
  BY <1>1 DEF LoopStep, Hello, EndOfRequests, Route, ConfineNow, SayConfined, HostAnswer,
              HostOver, HostOrphaned, Answer, Reply
<1>2. CASE TakeRequest
  <2>1. parent # "done"
    BY <1>2 DEF TakeRequest, InTurn, Phase, Starting, Resting, Asked, Relaying,
                Calling, HostLost
  <2>2. Turns /\ requests # <<>> /\ at = "wait"
    BY <1>2, PhaseTurns DEF TakeRequest, InTurn
  <2>3. Head(requests)[2] \in Numbers
    BY <2>2, One DEF Turns, Over
  <2> QED
    BY <1>2, <2>3 DEF TakeRequest, Numbers
<1>3. CASE Check \/ Finish \/ HostFault
  BY <1>3 DEF Check, Finish, HostFault, Answers
<1>6. CASE Run
  BY <1>6 DEF Run
<1>7. CASE HostCall
  BY <1>7 DEF HostCall
<1>4. CASE Close \/ Die \/ Rest \/ UNCHANGED vars
  BY <1>4 DEF Close, Die, Rest, vars
<1>8. CASE Relayed \/ Kill \/ TakeCall \/ TakeFault
  BY <1>8 DEF Relayed, Kill, TakeCall, TakeFault, Heard
<1>9. CASE Ready \/ PassOver \/ Take \/ TakeRoute
  BY <1>9 DEF Ready, PassOver, Take, TakeRoute, Heard, Announced
<1>5. CASE Ask \/ Relay
  BY <1>5 DEF Ask, Relay
<1> QED
  BY <1>1, <1>2, <1>3, <1>4, <1>5, <1>6, <1>7, <1>8, <1>9
     DEF Next, ProgramStep, ParentStep



\* What the pipes hold, as the type invariant says it.
Piped ==
  /\ \A i \in DOMAIN requests : /\ requests[i][1] \in {"op", "call", "relayed"}
                                /\ requests[i][2] \in 1..MaxRequests
  /\ \A i \in DOMAIN replies :
       replies[i][1] \in {"hello", "confinement", "route", "answer"}
                           \union Answers
  /\ Len(requests) <= 2 /\ Len(replies) <= 2

LEMMA Sent ==
  ASSUME NEW k \in {"route", "answer"} \union Answers, NEW n, NEW q,
         q \in {<<>>, << <<"confinement", n>> >>, << <<k, n>> >>,
               << <<"confinement", n>>, <<k, n>> >>}
  PROVE  /\ Len(q) <= 2
         /\ \A i \in DOMAIN q :
              q[i][1] \in {"hello", "confinement", "route", "answer"} \union Answers
<1>1. CASE q = <<>>
  BY <1>1
<1>2. CASE q = << <<"confinement", n>> >>
  BY <1>2
<1>3. CASE q = << <<k, n>> >>
  BY <1>3
<1>4. CASE q = << <<"confinement", n>>, <<k, n>> >>
  BY <1>4
<1> QED
  BY <1>1, <1>2, <1>3, <1>4

LEMMA PhasePiped == Phase => Piped
<1> SUFFICES ASSUME Phase PROVE Piped
  OBVIOUS
<1> USE DEF Numbers, Over
<1>1. CASE Starting
  BY <1>1 DEF Starting, Piped
<1>2. CASE Resting
  BY <1>2 DEF Resting, Piped
<1>3. CASE Asked
  <2>1. /\ Len(requests) <= 2
        /\ \A i \in DOMAIN requests : /\ requests[i][1] \in {"op", "call", "relayed"}
                                      /\ requests[i][2] \in 1..MaxRequests
    <3>1. CASE requests = <<>>
      BY <3>1
    <3>2. CASE requests = << <<"op", asked>> >> /\ asked \in Numbers
      BY <3>2
    <3>3. CASE /\ asked \in Numbers
               /\ \E n \in Numbers : requests = << Over(n), <<"op", asked>> >>
      BY <3>3
    <3> QED
      BY <1>3, <3>1, <3>2, <3>3 DEF Asked
  <2>2. \E k \in {"route"} \union Answers :
          replies \in {<<>>, << <<"confinement", asked>> >>, << <<k, asked>> >>,
                      << <<"confinement", asked>>, <<k, asked>> >>}
    BY <1>3 DEF Asked, Silent, Told
  <2> QED
    BY <2>1, <2>2, Sent DEF Piped
<1>4. CASE Relaying \/ HostLost
  BY <1>4 DEF Relaying, HostLost, Piped
<1>5. CASE Calling
  <2>1. /\ Len(requests) <= 2
        /\ \A i \in DOMAIN requests : /\ requests[i][1] \in {"op", "call", "relayed"}
                                      /\ requests[i][2] \in 1..MaxRequests
    BY <1>5, SMTT(30) DEF Calling
  <2>2. \E k \in {"answer"} \union Answers :
          replies \in {<<>>, << <<"confinement", asked>> >>, << <<k, asked>> >>,
                      << <<"confinement", asked>>, <<k, asked>> >>}
    BY <1>5 DEF Calling, Silent, Told, Answers
  <2> QED
    BY <2>1, <2>2, Sent DEF Piped
<1> QED
  BY <1>1, <1>2, <1>3, <1>4, <1>5 DEF Phase

LEMMA PipedStep == ASSUME Numbered, InTurn, Piped, [Next]_vars PROVE Piped'
<1>0. InTurn'
  BY InTurnStep
<1>1. CASE Phase'
  <2>1. (Phase => Piped)'
    BY PhasePiped, PTL
  <2> QED
    BY <1>1, <2>1
<1>2. CASE parent' \in {"dead", "left", "done"}
  <2>1. replies' = replies
    <3>1. parent \in {"dead", "left", "done"} \/ Die \/ Kill
      BY <1>2, WorkerLeaves, ParentMoves
         DEF Next, ParentStep, Ready, PassOver, Take, TakeRoute, TakeCall,
             TakeFault, Relayed, Ask, Relay, Close, Rest, vars, Heard
    <3>2. CASE parent \in {"dead", "left", "done"} /\ Work
      <4>1. parent # "done"
        BY <3>2, WorkerMoves
           DEF Work, InTurn, Phase, Starting, Resting, Asked, Relaying, Calling,
               HostLost, Answers
      <4> QED
        BY <3>2, <4>1, WorkerMoves
           DEF Work, Alive, Hello, TakeRequest, EndOfRequests, Check, Run, Route,
               Finish, HostCall, HostOver, HostOrphaned, ConfineNow, SayConfined,
               HostAnswer, HostFault, Answer, Reply
    <3>3. CASE Die \/ Kill \/ Rest \/ UNCHANGED vars
      BY <3>3 DEF Die, Kill, Rest, vars
    <3> QED
      BY <3>1, <3>2, <3>3, ParentMoves DEF Next, Work
  <2>2. CASE at' = "gone"
    <3>1. requests' = requests
      BY <1>2, <2>2 DEF Next, LoopStep, ProgramStep, ParentStep, Hello, TakeRequest,
         EndOfRequests, Route, ConfineNow, SayConfined, HostAnswer, HostOver,
         HostOrphaned, Answer, Check, Run, Finish, HostCall, HostFault, Ready,
         PassOver, Take, TakeRoute, TakeCall, TakeFault, Relayed, Kill, Ask,
         Relay, Close, Die, Rest, vars
    <3> QED
      BY <2>1, <3>1 DEF Piped
  <2>3. CASE (Turns \/ Rested)'
    <3>1. (Turns \/ Rested => \A i \in DOMAIN requests :
                      /\ requests[i][1] \in {"op", "call", "relayed"}
                      /\ requests[i][2] \in 1..MaxRequests)'
      BY DEF Turns, Rested, Numbers, Over
    <3>2. (Turns \/ Rested => Len(requests) <= 2)'
      <4>1. (Turns => Len(requests) <= 2)'
        BY DEF Turns
      <4>2. (Rested => Len(requests) <= 2)'
        BY DEF Rested
      <4> QED
        BY <4>1, <4>2
    <3> QED
      BY <2>1, <2>3, <3>1, <3>2 DEF Piped
  <2> QED
    BY <1>0, <1>1, <2>2, <2>3 DEF InTurn
<1> QED
  BY <1>0, <1>1, <1>2 DEF InTurn

-----------------------------------------------------------------------------
(* What the parent was told of the confinement, and the temporary directory. *)

\* the word that the worker confined itself is the next thing to be read
Word == replies # <<>> /\ Head(replies)[1] = "confinement"

\* The word goes before anything of the program happens here, into an empty
\* pipe, so that ask or relay must read it before the answer of what follows.
Spoken ==
  /\ confinement = "held" => held
  /\ Word => held /\ confineAt = "run"
  /\ confineAt = "start" => at \in {"start", "gone"} \/ held
  /\ confineAt = "run" /\ held => acted \/ at \in {"entered", "calledHeld", "gone"}
  /\ confineAt = "run" /\ acted => confinement = "held" \/ Word
  /\ at \in {"entering", "entered", "calledFirst", "calledHeld"} =>
       confineAt = "run"
  /\ at \in {"entered", "calledHeld"} => held
  /\ at = "start" => confinement = "unsaid" /\ ~Word /\ ~held
  /\ parent = "starting" \/ at = "start" => ~acted
  /\ parent \notin {"starting", "dead", "left"} =>
       confinement \in IF confineAt = "run" THEN {"pending", "held"}
                                           ELSE {Announced}

\* What the worker says goes behind the word, if that has not been read.
LEMMA Spoke ==
  ASSUME InTurn, NEW m, NEW next, Reply(m, next),
         at \in {"start", "begin", "entered", "calledHeld", "called"} \union Answers
  PROVE  Word' <=> \/ Word
                   \/ Alive /\ m[1] = "confinement" /\ replies = <<>>
<1>1. CASE Alive
  <2>1. Phase /\ at # "gone"
    BY <1>1 DEF InTurn, Alive, Answers
  <2>2. replies = <<>> \/ replies = << <<"confinement", asked>> >>
    BY <1>1, <2>1 DEF Phase, Starting, Resting, Asked, Relaying, Calling, HostLost,
       Silent, Answers
  <2>3. replies' = Append(replies, m)
    BY <1>1 DEF Reply
  <2>4. CASE replies = <<>>
    <3>1. replies' = <<m>>
      BY <2>3, <2>4, One
    <3> QED
      BY <1>1, <2>4, <3>1, One DEF Word
  <2>5. CASE replies = << <<"confinement", asked>> >>
    <3>1. replies' = << <<"confinement", asked>>, m >>
      BY <2>3, <2>5, Two
    <3> QED
      BY <2>5, <3>1, One, Two DEF Word
  <2> QED
    BY <2>2, <2>4, <2>5
<1>2. CASE ~Alive
  BY <1>2 DEF Reply, Word
<1> QED
  BY <1>1, <1>2

\* The word is said into an empty pipe.
LEMMA SaidFirst ==
  ASSUME InTurn, Alive, at \in {"entered", "calledHeld"} PROVE replies = <<>>
BY DEF InTurn, Alive, Phase, Starting, Resting, Asked, Relaying, Calling,
   HostLost, Answers

LEMMA SpokenStep ==
  ASSUME Numbered, InTurn, Spoken, [Next]_vars PROVE Spoken'
<1> USE DEF Spoken
<1>1. CASE Hello
  <2>1. Word' <=> Word
    <3>1. Reply(<<"hello", 0>>, "wait") /\ at = "start"
      BY <1>1 DEF Hello
    <3> QED
      BY <3>1, Spoke
  <2> QED
    BY <1>1, <2>1 DEF Hello, Reply, Announced, Alive
<1>2. CASE SayConfined
  <2>1. Word' <=> (Word \/ Alive)
    <3>1. \E next : Reply(<<"confinement", now>>, next)
      BY <1>2 DEF SayConfined
    <3>2. at \in {"entered", "calledHeld"}
      BY <1>2 DEF SayConfined
    <3> QED
      BY <3>1, <3>2, Spoke, SaidFirst
  <2>2. UNCHANGED <<confineAt, held, parent, confinement>>
    BY <1>2 DEF SayConfined
  <2>3. held /\ confineAt = "run" /\ acted' = (acted \/ Alive)
    BY <1>2 DEF SayConfined
  <2>4. at' \in {"running", "called", "gone"} /\ (~Alive => at' = "gone")
    BY <1>2 DEF SayConfined, Reply
  <2>5. parent # "starting"
    BY <1>2 DEF SayConfined, InTurn, Phase, Starting, Resting, Asked, Relaying,
       Calling, HostLost
  <2> QED
    BY <2>1, <2>2, <2>3, <2>4, <2>5 DEF Announced
<1>3. CASE Route \/ HostAnswer \/ Answer
  <2>1. \E m, next : /\ Reply(m, next) /\ m[1] # "confinement"
                     /\ next \in {"host", "wait"}
    BY <1>3 DEF Route, HostAnswer, Answer, Answers
  <2>2. at \in {"begin", "called"} \union Answers
    BY <1>3 DEF Route, HostAnswer, Answer
  <2>3. Word' <=> Word
    BY <2>1, <2>2, Spoke
  <2>4. UNCHANGED <<confineAt, held, acted, parent, confinement>>
    BY <1>3 DEF Route, HostAnswer, Answer
  <2>5. at' \in {"host", "wait", "gone"}
    BY <2>1 DEF Reply
  <2> QED
    BY <2>2, <2>3, <2>4, <2>5 DEF Announced, Answers
<1>4. CASE \/ TakeRequest \/ EndOfRequests \/ HostOver \/ HostOrphaned \/ Check
           \/ Finish \/ HostFault \/ ConfineNow
  <2>1. UNCHANGED <<confineAt, acted, parent, confinement, replies>> /\ (Word' <=> Word)
    BY <1>4 DEF TakeRequest, EndOfRequests, HostOver, HostOrphaned, Check, Finish,
       HostFault, ConfineNow, Word
  <2>2. CASE ConfineNow
    BY <2>1, <2>2 DEF ConfineNow, Announced
  <2>3. CASE ~ConfineNow
    <3>1. held' = held /\ at # "start"
      BY <1>4, <2>3 DEF TakeRequest, EndOfRequests, HostOver, HostOrphaned,
         Check, Finish, HostFault, Answers
    <3>2. /\ at' \notin {"start", "entering", "entered", "calledFirst", "calledHeld"}
          /\ at \in {"entered", "calledHeld", "gone"} => at' = "gone"
      BY <1>4, <2>3 DEF TakeRequest, EndOfRequests, HostOver, HostOrphaned,
         Check, Finish, HostFault, Answers
    <3> QED
      BY <2>1, <3>1, <3>2 DEF Announced
  <2> QED
    BY <2>2, <2>3
<1>5. CASE Run \/ HostCall
  <2>1. UNCHANGED <<confineAt, held, parent, confinement, replies>> /\ (Word' <=> Word)
    BY <1>5 DEF Run, HostCall, Word
  <2>2. parent # "starting"
    BY <1>5 DEF Run, HostCall, InTurn, Phase, Starting, Resting, Asked, Relaying,
       Calling, HostLost
  <2>3. at \in {"begin", "host"} /\ at' \in {"entering", "running", "calledFirst", "called"}
    BY <1>5 DEF Run, HostCall
  <2>4. confineAt = "run" => acted' = acted
    BY <1>5, <2>3 DEF Run, HostCall, Numbered
  <2>5. at' \in {"entering", "calledFirst"} => confineAt = "run"
    BY <1>5 DEF Run, HostCall
  <2>6. at' \notin {"start", "entered", "calledHeld"} /\ Announced' = Announced
    BY <2>1, <2>3 DEF Announced
  <2> HIDE DEF Announced
  <2>7. confineAt = "run" /\ held => acted'
    BY <2>3, <2>4
  <2> QED
    BY <2>1, <2>2, <2>3, <2>4, <2>5, <2>6, <2>7
<1>6. CASE PassOver
  <2>1. Word /\ confinement' = "held" /\ UNCHANGED <<confineAt, at, held, acted>>
    BY <1>6 DEF PassOver, Heard, Word
  <2>2. replies' = Tail(replies) /\ parent' = parent /\ parent \in {"asked", "calling"}
    BY <1>6 DEF PassOver, Heard
  <2>3. ~Word'
    <3>1. Phase /\ replies # <<>> /\ Head(replies)[1] = "confinement"
      BY <2>1, <2>2 DEF Word, InTurn
    <3>2. CASE replies = << <<"confinement", asked>> >>
      BY <2>2, <3>2, One DEF Word
    <3>3. ASSUME NEW a, a # "confinement",
                 replies = << <<"confinement", asked>>, <<a, asked>> >>
          PROVE  ~Word'
      BY <2>2, <3>3, One, Two DEF Word
    <3>4. ASSUME NEW a, a # "confinement", Told(<<a, asked>>)
          PROVE  ~Word'
      BY <3>1, <3>3, <3>4, One DEF Told
    <3>5. CASE Asked
      <4>1. replies # << <<"route", asked>> >>
        BY <3>1, One
      <4> QED
        BY <3>1, <3>2, <3>4, <3>5, <4>1 DEF Asked, Silent, Answers
    <3>6. CASE Calling
      BY <3>1, <3>2, <3>4, <3>6 DEF Calling, Silent
    <3> QED
      BY <2>2, <3>1, <3>5, <3>6 DEF Phase, Starting, Resting, Relaying, HostLost
  <2> QED
    BY <2>1, <2>2, <2>3, <1>6 DEF Announced, PassOver
<1>7. CASE Ready
  <2>1. Starting /\ replies # <<>>
    BY <1>7 DEF Ready, Heard, InTurn, Phase, Resting, Asked, Relaying, Calling, HostLost
  <2>2. at = "wait" /\ replies' = <<>>
    BY <1>7, <2>1, One DEF Ready, Heard, Starting
  <2>3. ~Word' /\ ~acted
    BY <1>7, <2>2 DEF Word, Ready
  <2> QED
    BY <1>7, <2>2, <2>3 DEF Ready, Heard, Announced, Numbered
<1>8. CASE Take \/ TakeRoute \/ TakeCall \/ TakeFault
  <2>1. UNCHANGED <<confineAt, at, held, acted, confinement>> /\ ~Word
    BY <1>8 DEF Take, TakeRoute, TakeCall, TakeFault, Heard, Word, Answers
  <2>2. parent \in {"asked", "calling"} /\ parent' \notin {"starting"}
    BY <1>8 DEF Take, TakeRoute, TakeCall, TakeFault, Heard
  <2>3. replies' = <<>>
    <3>1. InTurn'
      BY InTurnStep
    <3>2. parent' \in {"idle", "kill", "relaying", "hostGone"}
      BY <1>8 DEF Take, TakeRoute, TakeCall, TakeFault, Heard
    <3> QED
      BY <3>1, <3>2 DEF InTurn, Phase, Starting, Resting, Asked, Relaying, Calling,
         HostLost
  <2>4. ~Word'
    BY <2>3 DEF Word
  <2> QED
    BY <2>1, <2>2, <2>4 DEF Announced
<1>9. CASE Relayed \/ Kill \/ Ask \/ Relay \/ Close \/ Die \/ Rest \/ UNCHANGED vars
  <2>1. UNCHANGED <<confineAt, held, acted, confinement, replies>> /\ (Word' <=> Word)
    BY <1>9 DEF Relayed, Kill, Ask, Relay, Close, Die, Rest, vars, Word
  <2>2. at' = at \/ at' = "gone"
    BY <1>9 DEF Relayed, Kill, Ask, Relay, Close, Die, Rest, vars
  <2>3. \/ parent' = parent
        \/ parent' \in {"dead", "left"}
        \/ parent \notin {"starting", "dead", "left"} /\ parent' # "starting"
    BY <1>9 DEF Relayed, Kill, Ask, Relay, Close, Die, Rest, vars
  <2>4. Announced' = Announced
    BY <2>1 DEF Announced
  <2> QED
    BY <2>1, <2>2, <2>3, <2>4
<1> QED
  BY <1>1, <1>2, <1>3, <1>4, <1>5, <1>6, <1>7, <1>8, <1>9
     DEF Next, LoopStep, ProgramStep, ParentStep

LEMMA TidyStep ==
  ASSUME Numbered, InTurn, LeavesNothing, [Next]_vars PROVE LeavesNothing'
<1> USE DEF LeavesNothing
<1>1. CASE Work /\ parent = "left"
  <2>1. Rested /\ parent' = parent
    BY <1>1, WorkerMoves, WorkerLeaves DEF Work, Answers, InTurn, Phase, Starting,
       Resting, Asked, Relaying, Calling, HostLost
  <2>2. CASE Rested'
    BY <2>2 DEF Rested
  <2> QED
    BY <1>1, <2>1, <2>2, RestedStep
<1>2. CASE Work /\ Alive
  <2>1. at' # "gone"
    BY <1>2, WorkerMoves DEF Work, Answers, Hello, TakeRequest, EndOfRequests,
       Check, Run, Route, Finish, HostCall, HostOver, HostOrphaned, ConfineNow,
       SayConfined, HostAnswer, HostFault, Answer, Reply
  <2> QED
    BY <2>1
<1>3. CASE Work /\ parent = "dead"
  BY <1>3, WorkerLeaves DEF Work
<1>4. CASE Kill
  BY <1>4 DEF Kill
<1>5. CASE (Parent /\ ~Kill) \/ Die \/ Rest \/ UNCHANGED vars
  <2>1. UNCHANGED <<at, temp>> /\ (parent = "dead" => parent' = "dead")
    BY <1>5, ParentMoves DEF Parent, Ready, Ask, Close, PassOver, Take, TakeRoute,
       Relay, Relayed, TakeCall, TakeFault, Die, Rest, vars
  <2> QED
    BY <2>1
<1> QED
  BY <1>1, <1>2, <1>3, <1>4, <1>5 DEF Next, Work, Parent, Alive

-----------------------------------------------------------------------------
(* The theorems. *)

IInv == Numbered /\ InTurn /\ Piped /\ Spoken /\ LeavesNothing

LEMMA Invariant == Spec => []IInv
<1>1. Init => IInv
  <2>1. Init => Numbered
    <3>1. 0 \in 0..MaxRequests /\ 0 \in 0..MaxCalls
      BY BoundAssumption
    <3> QED
      BY <3>1 DEF Init, Numbered
  <2>2. Init => Spoken /\ LeavesNothing
    BY DEF Init, Spoken, Word, LeavesNothing
  <2>3. Init => InTurn
    BY DEF Init, InTurn, Phase, Starting
  <2>4. Init => Piped
    BY DEF Init, Piped
  <2> QED
    BY <2>1, <2>2, <2>3, <2>4 DEF IInv
<1>2. IInv /\ [Next]_vars => IInv'
  BY NumberedStep, InTurnStep, PipedStep, SpokenStep, TidyStep DEF IInv
<1> QED
  BY <1>1, <1>2, PTL DEF Spec

\* The state's types, and that neither pipe ever holds more than two messages.
THEOREM WorkerTypes == Spec => []TypeOK
<1>1. IInv => TypeOK
  BY DEF IInv, Numbered, Piped, TypeOK
<1> QED
  BY <1>1, Invariant, PTL

\* However the two take turns, what a parent takes as an answer was made
\* serving its request, and neither reads a message of one kind as another.
THEOREM WorkerAnswers == Spec => []AnswersItsRequest
<1>1. IInv => AnswersItsRequest
  <2> SUFFICES ASSUME InTurn PROVE AnswersItsRequest
    BY DEF IInv
  <2>1. parent \in {"idle", "kill", "relaying", "calling"} => heard[1] = asked
    BY DEF InTurn, Phase, Starting, Resting, Asked, Relaying, Calling, HostLost
  <2>2. ASSUME at \in {"wait", "host"}, requests # <<>> PROVE Turns
    BY <2>2, PhaseTurns DEF InTurn
  <2>3. at = "wait" /\ requests # <<>> => Head(requests)[1] # "call"
    BY <2>2, One DEF Turns, Over
  <2>4. at = "host" /\ requests # <<>> => Head(requests)[1] # "op"
    BY <2>2, One, Two DEF Turns, Over
  <2> QED
    BY <2>1, <2>3, <2>4 DEF AnswersItsRequest
<1> QED
  BY <1>1, Invariant, PTL

\* However a program comes to act in a worker, as a run or as calls relayed for
\* one, and whichever of ask and relay reads the word: its parent never has it
\* as held before it is, nor as pending once it has an answer of that program.
THEOREM WorkerConfinedAsTold == Spec => []ConfinedAsTold
<1>1. IInv => ConfinedAsTold
  <2> SUFFICES ASSUME IInv PROVE ConfinedAsTold
    OBVIOUS
  <2>1. confinement = "held" => held
    BY DEF IInv, Spoken
  <2>2. ASSUME parent \in {"idle", "kill", "relaying", "hostGone"}, acted
        PROVE  confinement \in {"held", "off"}
    <3>1. ~Word
      BY <2>2 DEF IInv, InTurn, Phase, Starting, Resting, Asked, Relaying, Calling,
         HostLost, Word
    <3> QED
      BY <2>2, <3>1 DEF IInv, Spoken, Announced, Numbered
  <2> QED
    BY <2>1, <2>2 DEF ConfinedAsTold
<1> QED
  BY <1>1, Invariant, PTL

\* Whoever goes first, and whatever still lies in the pipe: a worker that was
\* disposed of, or orphaned between two requests, leaves no directory behind.
THEOREM WorkerLeavesNothing == Spec => []LeavesNothing
<1>1. IInv => LeavesNothing
  BY DEF IInv
<1> QED
  BY <1>1, Invariant, PTL

=============================================================================
