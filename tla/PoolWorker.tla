----------------------------- MODULE PoolWorker -----------------------------
(***************************************************************************)
(* pool_worker (sabline/pool.py): the child process behind a pool, and the *)
(* protocol its parent speaks to it, run after run: requests and answers,  *)
(* a run sabline-rt makes in the parent with this process as the host of   *)
(* its calls, the reset between programs, the confinement, and the end of  *)
(* either process.                                                         *)
(*                                                                         *)
(* What happens between two messages is one action, but for the confinement *)
(* a worker of one run applies before its program's first act here: asking *)
(* for it, saying so and acting are three.  What a program leaves in the   *)
(* process's names, and the reset that puts them back, are not modelled.   *)
(***************************************************************************)
EXTENDS Naturals, Sequences

CONSTANTS
  MaxRequests,  \* bound: requests one worker is sent
  MaxCalls      \* bound: calls one routed run relays

ASSUME BoundAssumption == MaxRequests \in Nat /\ MaxCalls \in Nat

VARIABLES
  confineAt,    \* "start", "run" (the first statement) or "off": fixed
  at,           \* where the worker's loop is
  now,          \* the request it serves: its number, 0 before the first
  held,         \* has the operating system been asked to hold the budget?
  acted,        \* has a statement of a program, or a call for one, run here?
  temp,         \* is the worker's temporary directory there?
  requests,     \* what the parent wrote and the worker has not read
  replies,      \* what the worker wrote and the parent has not read
  parent,       \* where the parent is
  confinement,  \* what it was told of the confinement, for its receipts
  asked,        \* how many requests it made
  calls,        \* how many calls it relayed in this run
  heard         \* what the parent took as the answer of its last request

childVars  == <<at, now, held, acted, temp>>
parentVars == <<confineAt, parent, confinement, asked, calls, heard>>
vars == <<childVars, requests, replies, parentVars>>

-----------------------------------------------------------------------------
Answers == {"ok", "bad", "crashed", "oom"}
Alive   == parent \notin {"dead", "left"}

\* what the worker's first message says of its confinement
Announced == CASE confineAt = "start" -> "held"
               [] confineAt = "run"   -> "pending"
               [] confineAt = "off"   -> "off"

\* the parent has made its temporary directory, if it is to be confined
Init ==
  /\ confineAt \in {"start", "run", "off"}
  /\ at = "start" /\ now = 0 /\ held = FALSE /\ acted = FALSE
  /\ temp = (confineAt # "off")
  /\ requests = <<>> /\ replies = <<>>
  /\ parent = "starting" /\ confinement = "unsaid"
  /\ asked = 0 /\ calls = 0 /\ heard = <<0, "none">>

-----------------------------------------------------------------------------
(* The worker. *)

\* a reply, which nobody reads once the parent is gone: the write fails
Reply(m, next) ==
  IF Alive THEN replies' = Append(replies, m) /\ at' = next
           ELSE at' = "gone" /\ UNCHANGED replies

Hello ==
  /\ at = "start"
  /\ held' = (confineAt = "start")
  /\ Reply(<<"hello", 0>>, "wait")
  /\ UNCHANGED <<now, acted, temp, requests, parentVars>>

\* the next message of the loop: a run's end, after it ended here, is
\* passed over; anything else is a program
TakeRequest ==
  /\ at = "wait" /\ requests # <<>>
  /\ requests' = Tail(requests)
  /\ IF Head(requests)[1] = "relayed"
       THEN UNCHANGED <<at, now>>
       ELSE at' = "begin" /\ now' = Head(requests)[2]
  /\ UNCHANGED <<held, acted, temp, replies, parentVars>>

\* for mutation: a pipe that has ended is read again
EndOfRequestsReread ==
  /\ at = "wait" /\ requests = <<>> /\ ~Alive
  /\ UNCHANGED vars

\* for mutation: removing the directory is the parent's affair alone
EndOfRequestsUntidy ==
  /\ at = "wait" /\ requests = <<>> /\ ~Alive
  /\ at' = "gone"
  /\ UNCHANGED <<now, held, acted, temp, requests, replies, parentVars>>

\* the parent closed the pipe: on its way out the worker removes the
\* directory a parent that was killed could not
EndOfRequests ==
  /\ at = "wait" /\ requests = <<>> /\ ~Alive
  /\ at' = "gone" /\ temp' = FALSE
  /\ UNCHANGED <<now, held, acted, requests, replies, parentVars>>

\* a check or an audit runs nothing of the program, and whatever it found
\* is an answer its worker is kept after
Check ==
  /\ at = "begin"
  /\ \E a \in Answers \ {"bad"} : at' = a
  /\ UNCHANGED <<now, held, acted, temp, requests, replies, parentVars>>

\* the program, read and compiled, in this process: its first statement is
\* next, and what goes before it in a pool of one run
Run ==
  /\ at = "begin"
  /\ at' = IF confineAt = "run" THEN "entering" ELSE "running"
  /\ acted' = (acted \/ confineAt # "run")
  /\ UNCHANGED <<now, held, temp, requests, replies, parentVars>>

\* BEFORE_FIRST_STATEMENT of a pool of one run: the system is asked ...
ConfineNow ==
  /\ at \in {"entering", "calledFirst"}
  /\ held' = TRUE
  /\ at' = IF at = "entering" THEN "entered" ELSE "calledHeld"
  /\ UNCHANGED <<now, acted, temp, requests, replies, parentVars>>

\* ... and the parent told, before the statement or the call
SayConfined ==
  /\ at \in {"entered", "calledHeld"}
  /\ Reply(<<"confinement", now>>,
           IF at = "entered" THEN "running" ELSE "called")
  /\ acted' = (acted \/ Alive)
  /\ UNCHANGED <<now, held, temp, requests, parentVars>>

Finish ==
  /\ at = "running"
  /\ \E a \in Answers : at' = a
  /\ UNCHANGED <<now, held, acted, temp, requests, replies, parentVars>>

\* sabline-rt may run it: the parent is told, and this process is its host
Route ==
  /\ at = "begin"
  /\ Reply(<<"route", now>>, "host")
  /\ UNCHANGED <<now, held, acted, temp, requests, parentVars>>

\* _host_relays: the first call is the program's first act here
HostCall ==
  /\ at = "host" /\ requests # <<>> /\ Head(requests)[1] = "call"
  /\ requests' = Tail(requests)
  /\ at' = IF confineAt = "run" /\ ~held THEN "calledFirst" ELSE "called"
  /\ acted' = (acted \/ at' = "called")
  /\ UNCHANGED <<now, held, temp, replies, parentVars>>

HostAnswer ==
  /\ at = "called"
  /\ Reply(<<"answer", now>>, "host")
  /\ UNCHANGED <<now, held, acted, temp, requests, parentVars>>

\* what the call did escaped: it is the answer of the request instead
HostFault ==
  /\ at = "called"
  /\ \E a \in {"crashed", "oom"} : at' = a
  /\ UNCHANGED <<now, held, acted, temp, requests, replies, parentVars>>

\* the parent says the run is over, and nothing is answered
HostOver ==
  /\ at = "host" /\ requests # <<>> /\ Head(requests)[1] # "call"
  /\ requests' = Tail(requests)
  /\ at' = "wait"
  /\ UNCHANGED <<now, held, acted, temp, replies, parentVars>>

\* the parent went away: SystemExit, past what the loop does at its end
HostOrphaned ==
  /\ at = "host" /\ requests = <<>> /\ ~Alive
  /\ at' = "gone"
  /\ UNCHANGED <<now, held, acted, temp, requests, replies, parentVars>>

Answer ==
  /\ at \in Answers
  /\ Reply(<<at, now>>, "wait")
  /\ UNCHANGED <<now, held, acted, temp, requests, parentVars>>

-----------------------------------------------------------------------------
(* The parent: _Worker.ask, relay and relayed, and what _use does with it. *)

Heard(m, next) ==
  /\ replies # <<>> /\ Head(replies)[1] \in m
  /\ replies' = Tail(replies) /\ parent' = next

Say(m) == requests' = Append(requests, m)

Ready ==
  /\ parent = "starting" /\ Heard({"hello"}, "idle")
  /\ confinement' = Announced
  /\ UNCHANGED <<childVars, requests, confineAt, asked, calls, heard>>

\* a pool whose workers are confined at the first statement makes one run
Ask ==
  /\ parent = "idle" /\ asked < MaxRequests /\ (confineAt = "run" => asked = 0)
  /\ asked' = asked + 1 /\ calls' = 0
  /\ Say(<<"op", asked'>>)
  /\ parent' = "asked"
  /\ UNCHANGED <<childVars, replies, confineAt, confinement, heard>>

\* for mutation: only ask listens for it, and relay passes over it
PassOverUnheard ==
  /\ parent \in {"asked", "calling"} /\ Heard({"confinement"}, parent)
  /\ confinement' = IF parent = "asked" THEN "held" ELSE confinement
  /\ UNCHANGED <<childVars, requests, confineAt, asked, calls, heard>>

\* ask and relay pass over what is not an answer, and keep what it said
PassOver ==
  /\ parent \in {"asked", "calling"} /\ Heard({"confinement"}, parent)
  /\ confinement' = "held"
  /\ UNCHANGED <<childVars, requests, confineAt, asked, calls, heard>>

\* only a worker that answered ok is kept; any other is killed
Take ==
  /\ parent = "asked"
  /\ \E a \in Answers : /\ Heard({a}, IF a = "ok" THEN "idle" ELSE "kill")
                        /\ heard' = <<Head(replies)[2], a>>
  /\ UNCHANGED <<childVars, requests, confineAt, confinement, asked, calls>>

TakeRoute ==
  /\ parent = "asked" /\ Heard({"route"}, "relaying")
  /\ heard' = <<Head(replies)[2], "route">>
  /\ UNCHANGED <<childVars, requests, confineAt, confinement, asked, calls>>

Relay ==
  /\ parent = "relaying" /\ calls < MaxCalls
  /\ calls' = calls + 1
  /\ Say(<<"call", asked>>)
  /\ parent' = "calling"
  /\ UNCHANGED <<childVars, replies, confineAt, confinement, asked, heard>>

\* for mutation: the word that it confined itself passes for the answer
TakeCallAny ==
  /\ parent = "calling" /\ Heard({"answer", "confinement"}, "relaying")
  /\ UNCHANGED <<childVars, requests, confineAt, confinement, asked, calls, heard>>

TakeCall ==
  /\ parent = "calling" /\ Heard({"answer"}, "relaying")
  /\ UNCHANGED <<childVars, requests, confineAt, confinement, asked, calls, heard>>

\* HostGone: what the worker said instead of an answer
TakeFault ==
  /\ parent = "calling" /\ Heard({"crashed", "oom"}, "hostGone")
  /\ UNCHANGED <<childVars, requests, confineAt, confinement, asked, calls, heard>>

\* for mutation: a run whose host failed does not say it is over
RelayedUnlessGone ==
  /\ parent \in {"relaying", "hostGone"}
  /\ \/ parent = "relaying" /\ Say(<<"relayed", asked>>) /\ parent' = "idle"
     \/ parent = "hostGone" /\ parent' = "idle" /\ UNCHANGED requests
  /\ UNCHANGED <<childVars, replies, confineAt, confinement, asked, calls,
                 heard>>

\* _run_through_rt's finally; a run that did not end ok loses its worker
Relayed ==
  /\ parent \in {"relaying", "hostGone"}
  /\ Say(<<"relayed", asked>>)
  /\ \/ parent = "relaying" /\ parent' = "idle"
     \/ parent' = "kill"
  /\ UNCHANGED <<childVars, replies, confineAt, confinement, asked, calls,
                 heard>>

\* the pool is closed, or its one run is over
Close ==
  /\ parent = "idle"
  /\ parent' = "kill"
  /\ UNCHANGED <<childVars, requests, replies, confineAt, confinement, asked,
                 calls, heard>>

\* _forget, or close: dispose, whatever the worker is doing
Kill ==
  /\ parent = "kill"
  /\ parent' = "done" /\ at' = "gone" /\ temp' = FALSE
  /\ UNCHANGED <<now, held, acted, requests, replies, confineAt, confinement,
                 asked, calls, heard>>

\* the parent process dies, having disposed of nothing: with no request
\* under way, or with one
Die ==
  /\ parent \notin {"done", "dead", "left"}
  /\ parent' = IF parent = "idle" THEN "left" ELSE "dead"
  /\ UNCHANGED <<childVars, requests, replies, confineAt, confinement, asked,
                 calls, heard>>

Rest == at = "gone" /\ UNCHANGED vars

-----------------------------------------------------------------------------
LoopStep == \/ Hello \/ TakeRequest \/ EndOfRequests \/ Route \/ ConfineNow
            \/ SayConfined \/ HostAnswer \/ HostOver \/ HostOrphaned \/ Answer
ProgramStep == Check \/ Run \/ Finish \/ HostCall \/ HostFault
ParentStep == \/ Ready \/ PassOver \/ Take \/ TakeRoute \/ TakeCall
              \/ TakeFault \/ Relayed \/ Kill

Next == LoopStep \/ ProgramStep \/ ParentStep \/ Ask \/ Relay \/ Close \/ Die
        \/ Rest

Spec == Init /\ [][Next]_vars

\* programs end, and the parent reads what it is told
FairSpec == Spec /\ WF_vars(LoopStep \/ ProgramStep) /\ WF_vars(ParentStep)

-----------------------------------------------------------------------------
\* The state's types, and what the two pipes hold at once: at most the word
\* that a run is over and the next request one way, and a word that the worker
\* confined itself and what follows it the other.
TypeOK ==
  /\ confineAt \in {"start", "run", "off"}
  /\ at \in {"start", "wait", "begin", "entering", "entered", "running", "host",
             "calledFirst", "calledHeld", "called", "gone"} \union Answers
  /\ now \in 0..MaxRequests /\ asked \in 0..MaxRequests
  /\ calls \in 0..MaxCalls
  /\ held \in BOOLEAN /\ acted \in BOOLEAN /\ temp \in BOOLEAN
  /\ parent \in {"starting", "idle", "asked", "relaying", "calling",
                 "hostGone", "kill", "done", "dead", "left"}
  /\ confinement \in {"unsaid", "pending", "held", "off"}
  /\ \A i \in DOMAIN requests : /\ requests[i][1] \in {"op", "call", "relayed"}
                                /\ requests[i][2] \in 1..MaxRequests
  /\ \A i \in DOMAIN replies :
       replies[i][1] \in {"hello", "confinement", "route", "answer"}
                           \union Answers
  /\ Len(requests) <= 2 /\ Len(replies) <= 2

\* What the parent takes as the answer of a request was made serving that
\* request, runs through sabline-rt and their calls between them or not; and
\* no message of such a run is read as a program, nor a program as one.
AnswersItsRequest ==
  /\ parent \in {"idle", "kill", "relaying", "calling"} => heard[1] = asked
  /\ at = "wait" /\ requests # <<>> => Head(requests)[1] # "call"
  /\ at = "host" /\ requests # <<>> => Head(requests)[1] # "op"

\* What a receipt says of its worker's confinement is so: the parent never has
\* it as held before the system was asked, and once it has taken the answer of
\* a run, or of a call relayed for one, it no longer has it as pending if
\* anything of the program ran here - the word of a pool of one run travels
\* apart from the answers, is read by ask or by relay, and may find its parent
\* waiting in either.
ConfinedAsTold ==
  /\ confinement = "held" => held
  /\ parent \in {"idle", "kill", "relaying", "hostGone"} /\ acted =>
       confinement \in {"held", "off"}

\* A worker that has ended left no temporary directory behind, unless its
\* parent died before it had its answer: disposed of, or orphaned between two
\* requests - the word that the last run is over still in its pipe or not -
\* there is none.
LeavesNothing == at = "gone" /\ temp => parent = "dead"

\* Neither end waits for the other for good, when programs end: the parent
\* hears of what it asked, and a worker whose parent died ends by itself.
NeitherWaits ==
  /\ parent = "asked" ~> parent \in {"idle", "relaying", "done", "dead", "left"}
  /\ ~Alive ~> at = "gone"
=============================================================================
