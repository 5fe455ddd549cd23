-------------------------------- MODULE RtRun --------------------------------
(***************************************************************************)
(* Runs through sabline-rt (sabline/through_rt.py run, pool.py             *)
(* _run_through_rt and relay, rt's bin/sabline-rt.rs exec): the process    *)
(* that runs the program, the caller that reads its frames, the thread of  *)
(* the deadline, and the host, which makes the calls it relays.            *)
(*                                                                         *)
(* In sabline-rt the program's thread puts frames on a channel and another *)
(* writes them to standard output: what is on the channel when the process *)
(* is killed is lost.  The host is the caller's own process or a pool's    *)
(* worker, which serves one run after another; runs and workers are named  *)
(* by number, a worker by the first run it served.                         *)
(***************************************************************************)
EXTENDS Naturals, Sequences, FiniteSets

CONSTANTS
  Turns,        \* bound: how many runs there are, one after another
  MaxFrames,    \* bound: the frames a run makes before it ends
  Capped        \* is there a memory cap?

Runs == 1..Turns

ASSUME RtAssumption ==
  Turns \in Nat \ {0} /\ MaxFrames \in Nat /\ Capped \in BOOLEAN

VARIABLES
  turn,         \* the run there is now, 0 before the first
  rt,           \* where the program is: "off", "runs", "asks", "stops",
                \* "ends", or the process is "gone"
  channel,      \* frames the program made and nobody has written
  pipe,         \* frames on sabline-rt's standard output
  sign,         \* does standard error say an allocation failed?
  caller,       \* where through_rt.run is
  got,          \* what it has read last: "none", "end" or "host_gone"
  clock,        \* where the deadline's thread is
  stopped,      \* stopped["clock"]
  worker,       \* the worker a run is given
  host,         \* what a worker does
  told,         \* how a run is said to have ended
  \* what the properties look back on
  made,         \* frames the program has made in this run
  written,      \* those of them that tell something and were written
  heard,        \* those the caller has kept
  fault,        \* the workers that ended of themselves
  late,         \* the workers a clock killed after its run was answered
  cut           \* the runs whose clock killed sabline-rt

rtVars    == <<rt, channel, pipe, sign, made, written>>
clockVars == <<clock, stopped>>
hostVars  == <<worker, host, fault, late, cut>>
callVars  == <<turn, caller, got, told, heard>>
runVars   == <<rtVars, clockVars, hostVars, callVars>>

Kinds == {"tells", "prints", "calls", "ends"}

RtInit ==
  /\ turn = 0 /\ caller = "idle" /\ got = "none"
  /\ rt = [t \in Runs |-> "off"]
  /\ channel = <<>> /\ pipe = <<>> /\ made = 0 /\ written = 0 /\ heard = 0
  /\ sign = FALSE
  /\ clock = [t \in Runs |-> "off"] /\ stopped = [t \in Runs |-> FALSE]
  /\ worker = [t \in Runs |-> 0]
  /\ host = [w \in Runs |-> "unborn"] /\ fault = {} /\ late = {} /\ cut = {}
  /\ told = [t \in Runs |-> "none"]

-----------------------------------------------------------------------------
(* sabline-rt: the program's thread, the writer's, and how it ends. *)

Alive(t) == rt[t] \in {"runs", "asks", "stops", "ends"}

\* an event of the audit stream, or output
Makes(kind) ==
  /\ turn > 0 /\ rt[turn] = "runs" /\ made < MaxFrames
  /\ channel' = Append(channel, kind) /\ made' = made + 1
  /\ UNCHANGED <<rt, pipe, sign, written, clockVars, hostVars, callVars>>

\* a builtin that is relayed: its effect was told, and the program waits
Asks ==
  /\ turn > 0 /\ rt[turn] = "runs" /\ made + 1 < MaxFrames
  /\ channel' = channel \o <<"tells", "calls">> /\ made' = made + 2
  /\ rt' = [rt EXCEPT ![turn] = "asks"]
  /\ UNCHANGED <<pipe, sign, written, clockVars, hostVars, callVars>>

\* the program has ended, by itself or for an error it was answered
Ends ==
  /\ turn > 0 /\ rt[turn] \in {"runs", "stops"}
  /\ rt' = [rt EXCEPT ![turn] = "ends"]
  /\ channel' = Append(channel, "ends")
  /\ UNCHANGED <<pipe, sign, made, written, clockVars, hostVars, callVars>>

\* how many frames of a kind there are
Many(kind, frames) == Cardinality({i \in DOMAIN frames : frames[i] = kind})

Writes ==
  /\ turn > 0 /\ Alive(turn) /\ channel # <<>>
  /\ pipe' = Append(pipe, Head(channel)) /\ channel' = Tail(channel)
  /\ written' = written + Many("tells", <<Head(channel)>>)
  /\ UNCHANGED <<rt, sign, made, clockVars, hostVars, callVars>>

\* the end is its last frame
Exits ==
  /\ turn > 0 /\ rt[turn] = "ends" /\ channel = <<>>
  /\ rt' = [rt EXCEPT ![turn] = "gone"]
  /\ UNCHANGED <<channel, pipe, sign, made, written, clockVars, hostVars, callVars>>

Killed(t) == rt' = [rt EXCEPT ![t] = IF Alive(t) THEN "gone" ELSE rt[t]]

\* it crashes, or an allocation fails
Dies ==
  /\ turn > 0 /\ rt[turn] \in {"runs", "asks", "stops"}
  /\ Killed(turn) /\ channel' = <<>>
  /\ sign' \in IF Capped THEN BOOLEAN ELSE {FALSE}
  /\ UNCHANGED <<pipe, made, written, clockVars, hostVars, callVars>>

-----------------------------------------------------------------------------
(* The deadline's thread. *)

\* for mutation: only sabline-rt is killed at the deadline
ClockTellsNobody(t) ==
  /\ clock[t] = "killed" /\ clock' = [clock EXCEPT ![t] = "done"]
  /\ UNCHANGED <<rtVars, stopped, hostVars, callVars>>

\* time is up: too late for cancel()
ClockFires(t) ==
  /\ clock[t] = "set" /\ clock' = [clock EXCEPT ![t] = "fired"]
  /\ UNCHANGED <<rtVars, stopped, hostVars, callVars>>

\* nothing to do if the process has ended
ClockLooks(t) ==
  /\ clock[t] = "fired"
  /\ clock' = [clock EXCEPT ![t] = IF Alive(t) THEN "found" ELSE "done"]
  /\ UNCHANGED <<rtVars, stopped, hostVars, callVars>>

\* the caller reads this without the lock that the clock holds
ClockFlags(t) ==
  /\ clock[t] = "found" /\ clock' = [clock EXCEPT ![t] = "flagged"]
  /\ stopped' = [stopped EXCEPT ![t] = TRUE]
  /\ UNCHANGED <<rtVars, hostVars, callVars>>

ClockKills(t) ==
  /\ clock[t] = "flagged" /\ clock' = [clock EXCEPT ![t] = "killed"]
  /\ Killed(t)
  /\ channel' = IF Alive(t) THEN <<>> ELSE channel
  /\ cut' = IF Alive(t) THEN cut \union {t} ELSE cut
  /\ UNCHANGED <<pipe, sign, made, written, stopped, worker, host, fault, late,
                 callVars>>

\* on_kill is the worker's kill(), whatever the worker does by now
ClockTells(t) ==
  /\ clock[t] = "killed" /\ clock' = [clock EXCEPT ![t] = "done"]
  /\ host' = [host EXCEPT ![worker[t]] = "gone"]
  /\ late' = IF told[t] = "finished" THEN late \union {worker[t]} ELSE late
  /\ UNCHANGED <<rtVars, stopped, worker, fault, cut, callVars>>

-----------------------------------------------------------------------------
(* The host, when it is a worker (relay, _host_relays). *)

Answers(w) ==
  /\ host[w] = "asked" /\ host' = [host EXCEPT ![w] = "answered"]
  /\ UNCHANGED <<rtVars, clockVars, worker, fault, late, cut, callVars>>

\* a fault, or its memory cap
Faults(w) ==
  /\ host[w] = "asked" /\ host' = [host EXCEPT ![w] = "gone"]
  /\ fault' = fault \union {w}
  /\ UNCHANGED <<rtVars, clockVars, worker, late, cut, callVars>>

-----------------------------------------------------------------------------
(* The caller: a run on a worker, until it is told how it ended. *)

Kept == IF turn > 0 /\ worker[turn] > 0 /\ host[worker[turn]] # "gone"
        THEN worker[turn] ELSE turn + 1

\* a worker that is found dead is replaced
Begins ==
  /\ caller = "idle" /\ turn < Turns
  /\ turn' = turn + 1 /\ caller' = "routes"
  /\ worker' = [worker EXCEPT ![turn + 1] = Kept]
  /\ host' = [host EXCEPT ![Kept] = "idle"]
  /\ got' = "none" /\ heard' = 0 /\ made' = 0 /\ written' = 0
  /\ channel' = <<>> /\ pipe' = <<>> /\ sign' = FALSE
  /\ UNCHANGED <<rt, clockVars, fault, late, cut, told>>

\* the worker has checked the program and says that sabline-rt may run it,
\* which is started; or it is gone
Routed(timed) ==
  /\ caller = "routes" /\ host[worker[turn]] # "gone"
  /\ caller' = "reads"
  /\ rt' = [rt EXCEPT ![turn] = "runs"]
  /\ clock' = [clock EXCEPT ![turn] = IF timed THEN "set" ELSE "off"]
  /\ UNCHANGED <<turn, got, told, heard, channel, pipe, sign, made, written,
                 stopped, hostVars>>

NotRouted ==
  /\ caller = "routes" /\ host[worker[turn]] = "gone"
  /\ caller' = "idle" /\ told' = [told EXCEPT ![turn] = "host_gone"]
  /\ UNCHANGED <<turn, got, heard, rtVars, clockVars, hostVars>>

Moves(place) == caller' = place /\ UNCHANGED <<turn, told>>

\* one frame
Reads ==
  /\ caller = "reads" /\ pipe # <<>>
  /\ pipe' = Tail(pipe)
  /\ heard' = heard + Many("tells", <<Head(pipe)>>)
  /\ got' = IF Head(pipe) = "ends" THEN "end" ELSE got
  /\ Moves(CASE Head(pipe) \in {"tells", "prints"} -> "reads"
             [] Head(pipe) = "calls" -> "hosts"
             [] Head(pipe) = "ends" -> "leaves")
  /\ UNCHANGED <<rt, channel, sign, made, written, clockVars, hostVars>>

\* no more will come
ReadsNothing ==
  /\ caller = "reads" /\ pipe = <<>> /\ rt[turn] = "gone" /\ Moves("leaves")
  /\ UNCHANGED <<got, heard, rtVars, clockVars, hostVars>>

HostGone ==
  /\ got' = "host_gone" /\ Moves("leaves")
  /\ UNCHANGED <<heard, rtVars, clockVars, hostVars>>

\* _Worker.relay: the call is written, and its answer waited for
Relays ==
  /\ caller = "hosts"
  /\ \/ /\ host[worker[turn]] # "gone"
        /\ host' = [host EXCEPT ![worker[turn]] = "asked"] /\ Moves("relays")
        /\ UNCHANGED <<got, heard, rtVars, clockVars, worker, fault, late, cut>>
     \/ /\ host[worker[turn]] = "gone"
        /\ HostGone

Relayed ==
  /\ caller = "relays"
  /\ \/ /\ host[worker[turn]] = "answered"
        /\ host' = [host EXCEPT ![worker[turn]] = "idle"] /\ Moves("says")
        /\ UNCHANGED <<got, heard, rtVars, clockVars, worker, fault, late, cut>>
     \/ /\ host[worker[turn]] = "gone"
        /\ HostGone

\* the answer is written for the program that waits; its pipe may be closed
Says(next) ==
  /\ caller = "says"
  /\ IF rt[turn] = "asks"
     THEN rt' = [rt EXCEPT ![turn] = next] /\ Moves("reads")
     ELSE rt' = rt /\ Moves("leaves")
  /\ UNCHANGED <<got, heard, channel, pipe, sign, made, written, clockVars,
                 hostVars>>

\* cancel() stops a clock that has not fired; a run left early is killed
Leaves ==
  /\ caller = "leaves" /\ Moves("waits")
  /\ clock' = [clock EXCEPT ![turn] = IF @ = "set" THEN "off" ELSE @]
  /\ IF got = "end" THEN UNCHANGED <<rt, channel>>
     ELSE /\ Killed(turn)
          /\ channel' = <<>>
  /\ UNCHANGED <<got, heard, pipe, sign, made, written, stopped, hostVars>>

\* for mutation: the host's end is looked at before the clock
ClassifyHostFirst ==
  CASE got = "end" -> "finished"
    [] got = "host_gone" -> "host_gone"
    [] got = "none" /\ stopped[turn] -> "timed_out"
    [] got = "none" /\ ~stopped[turn] /\ Capped /\ sign -> "out_of_memory"
    [] got = "none" /\ ~stopped[turn] /\ ~(Capped /\ sign) -> "unavailable"

\* its end first, then the clock, the host and the cap
Classify ==
  CASE got = "end" -> "finished"
    [] got # "end" /\ stopped[turn] -> "timed_out"
    [] got = "host_gone" /\ ~stopped[turn] -> "host_gone"
    [] got = "none" /\ ~stopped[turn] /\ Capped /\ sign -> "out_of_memory"
    [] got = "none" /\ ~stopped[turn] /\ ~(Capped /\ sign) -> "unavailable"

\* the process is reaped; the worker is kept after a run that finished well
Reaps ==
  /\ caller = "waits" /\ rt[turn] = "gone" /\ caller' = "idle"
  /\ told' = [told EXCEPT ![turn] = Classify]
  /\ host' \in IF got = "end" THEN {host, [host EXCEPT ![worker[turn]] = "gone"]}
               ELSE {[host EXCEPT ![worker[turn]] = "gone"]}
  /\ UNCHANGED <<turn, got, heard, rtVars, clockVars, worker, fault, late, cut>>

-----------------------------------------------------------------------------
ProgramTypes ==
  /\ rt \in [Runs -> {"off", "runs", "asks", "stops", "ends", "gone"}]
  /\ channel \in Seq(Kinds) /\ pipe \in Seq(Kinds) /\ sign \in BOOLEAN
  /\ made \in Nat /\ written \in Nat

ClockTypes ==
  /\ clock \in [Runs -> {"off", "set", "fired", "found", "flagged", "killed",
                      "done"}]
  /\ stopped \in [Runs -> BOOLEAN]

HostTypes ==
  /\ worker \in [Runs -> 0..Turns]
  /\ host \in [Runs -> {"unborn", "idle", "asked", "answered", "gone"}]
  /\ fault \subseteq Runs /\ late \subseteq Runs /\ cut \subseteq Runs

CallerTypes ==
  /\ turn \in 0..Turns /\ heard \in Nat
  /\ caller \in {"idle", "routes", "reads", "hosts", "relays", "says", "leaves",
                 "waits"}
  /\ got \in {"none", "end", "host_gone"}
  /\ told \in [Runs -> {"none", "finished", "timed_out", "host_gone",
                        "out_of_memory", "unavailable"}]

RtTypeOK == ProgramTypes /\ ClockTypes /\ HostTypes /\ CallerTypes

\* However the deadline, the cap, the host and the end race: a run whose clock
\* killed it is told so, unless its end was read, and one is told so only for
\* its own clock; and one whose host went away was not killed by its clock -
\* its worker failed, or a run before it, already answered, had its clock kill
\* the worker then.
StoppedForCause ==
  \A t \in Runs : told[t] # "none" =>
    /\ t \in cut => told[t] \in {"finished", "timed_out"}
    /\ told[t] = "timed_out" => stopped[t]
    /\ told[t] = "host_gone" => worker[t] \in fault \union late

\* "holding what its worker reported before it was killed": a run that was
\* stopped is told with everything that was written before, and one that
\* finished with everything it did.
ToldWhole ==
  turn > 0 /\ told[turn] # "none" =>
    /\ heard = written
    /\ told[turn] = "finished" => rt[turn] = "gone" /\ channel = <<>>
=============================================================================
