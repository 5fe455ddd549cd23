-------------------------------- MODULE Relay --------------------------------
(***************************************************************************)
(* A run whose calls are made outside it, in the four ways there are:      *)
(*   "package"  the program runs in this process, which holds the session  *)
(*              of its tools (cli.py _cli_run_with_tools);                 *)
(*   "command"  sabline-rt runs it for the command line, without a clock,  *)
(*              and this process makes its tool calls (cli.py              *)
(*              _cli_run_through_rt, through_rt.py answer);                *)
(*   "pool"     sabline-rt runs it for a pool, under a deadline, and the   *)
(*              pool's worker makes its calls (pool.py _run_through_rt);   *)
(*   "worker"   a pool's worker runs it and streams what its receipt needs *)
(*              (PoolWorker has its protocol).                             *)
(* Tools has the session and its host, RtRun the run and its deadline, and *)
(* Recorder what a worker streams.                                         *)
(***************************************************************************)
EXTENDS Tools, RtRun, Recorder

CONSTANTS Ways

ASSUME WaysAssumption ==
  Ways \subseteq {"package", "command", "pool", "worker"} /\ Ways # {}

VARIABLES
  way,          \* the way of this run
  merged,       \* "command": the calls sabline-rt's recorder has noted
  over          \* has the exit been written?

relayVars == <<way, merged, over>>
sessionVars == <<lineVars, toolVars>>
vars == <<relayVars, sessionVars, runVars, recorderVars>>

Init ==
  /\ way \in Ways /\ merged = {} /\ over = FALSE
  /\ ToolsInit /\ RtInit /\ RecorderInit

-----------------------------------------------------------------------------
(* The host's lines. *)

HostActs ==
  /\ way \in {"package", "command"} /\ ~over
  /\ HostWrites \/ HostLeaves
  /\ UNCHANGED <<relayVars, runVars, recorderVars>>

-----------------------------------------------------------------------------
(* In this process: a refusal stops the program, and a call is waited on.    *)

PackageRuns == way = "package" /\ ~over /\ came # "refused" /\ open = None

PackageActs ==
  /\ \/ /\ PackageRuns
        /\ \/ \E whole \in BOOLEAN : StreamWrite(whole)
           \/ Refuse
           \/ \E t \in Tools, f \in Forms : Send(t, f)
     \/ way = "package" /\ (Reply \/ NoReply)
  /\ UNCHANGED <<relayVars, runVars, recorderVars>>

-----------------------------------------------------------------------------
(* sabline-rt, for both ways. *)

Turned == CASE way = "pool" -> Turns [] way = "command" -> 1 [] OTHER -> 0

\* bound: what sabline-rt's program prints is within MaxPrints too
Prints == printed + Many("prints", channel) + Many("prints", pipe)

RtActs ==
  /\ \/ \E kind \in {"tells", "prints"} :
          Makes(kind) /\ (kind = "prints" => Prints < MaxPrints)
     \/ Asks \/ Ends \/ Writes \/ Exits \/ Dies
  /\ UNCHANGED <<relayVars, sessionVars, recorderVars>>

\* what the caller does but make a call
CallerActs ==
  /\ \/ turn < Turned /\ Begins
     \/ Routed(way = "pool")
     \/ NotRouted \/ ReadsNothing \/ Leaves \/ Reaps
  /\ UNCHANGED <<relayVars, sessionVars, recorderVars>>

\* what the program prints goes where this process's does
ReadsFrame ==
  /\ Reads
  /\ IF way = "command" /\ Head(pipe) = "prints"
     THEN \E whole \in BOOLEAN : StreamWrite(whole)
     ELSE UNCHANGED sessionVars
  /\ UNCHANGED <<relayVars, recorderVars>>

-----------------------------------------------------------------------------
(* The calls of a pool's run: its worker makes them, until its clock stops   *)
(* both.                                                                     *)

PoolActs ==
  /\ way = "pool"
  /\ \/ Relays \/ Relayed
     \/ \E next \in {"runs", "stops"} : Says(next)
     \/ \E t \in Runs : \/ ClockFires(t) \/ ClockLooks(t) \/ ClockFlags(t)
                       \/ ClockKills(t) \/ ClockTells(t)
     \/ \E w \in Runs : Answers(w) \/ Faults(w)
  /\ UNCHANGED <<relayVars, sessionVars, recorderVars>>

-----------------------------------------------------------------------------
(* The calls of the command line's run: this process makes them itself.      *)

\* answer: the tool session is asked, and refuses it or waits for the host
CommandAsks ==
  /\ way = "command" /\ caller = "hosts" /\ open = None
  /\ \/ Refuse /\ Moves("says")
     \/ \E t \in Tools, f \in Forms : Send(t, f) /\ Moves("hosts")
  /\ UNCHANGED <<got, heard, rtVars, clockVars, hostVars, relayVars,
                 recorderVars>>

CommandAnswered ==
  /\ way = "command" /\ caller = "hosts"
  /\ Reply \/ NoReply
  /\ Moves("says")
  /\ UNCHANGED <<got, heard, rtVars, clockVars, hostVars, relayVars,
                 recorderVars>>

\* for mutation: sabline-rt records nothing of a call that stops its run
SaidUnnoted ==
  /\ way = "command" /\ Says(IF came = "refused" THEN "stops" ELSE "runs")
  /\ merged' = IF rt[turn] = "asks" /\ came # "refused" THEN merged \union noted
                                                       ELSE merged
  /\ UNCHANGED <<way, over, sessionVars, recorderVars>>

\* relayed, in sabline-rt: what the host recorded first, then what it came to
CommandSays ==
  /\ way = "command" /\ Says(IF came = "refused" THEN "stops" ELSE "runs")
  /\ merged' = IF rt[turn] = "asks" THEN merged \union noted ELSE merged
  /\ UNCHANGED <<way, over, sessionVars, recorderVars>>

-----------------------------------------------------------------------------
\* the run has ended, whatever ended it
Over ==
  /\ ~over /\ over' = TRUE
  /\ \/ way = "package" /\ open = None
     \/ way = "command" /\ told[1] # "none"
  /\ Exit
  /\ UNCHANGED <<way, merged, runVars, recorderVars>>

-----------------------------------------------------------------------------
(* A run of a pool's worker. *)

WorkerActs ==
  /\ way = "worker"
  /\ \/ (\E s \in Sites : Note(s)) \/ Sends \/ Takes \/ Answer \/ Kill
     \/ Disposes \/ Receipt
  /\ UNCHANGED <<relayVars, sessionVars, runVars>>

-----------------------------------------------------------------------------
CallsActs ==
  \/ PackageActs \/ PoolActs \/ CommandAsks \/ CommandAnswered \/ CommandSays

Next == HostActs \/ RtActs \/ CallerActs \/ ReadsFrame \/ CallsActs \/ Over
          \/ WorkerActs

\* The operating system runs every thread and writes what is written; the
\* queue's get and the deadline's timer end.  Nothing says that a program ends,
\* that a host or a worker answers, or that a run without a deadline is over.
PoolCallerSteps ==
  /\ way = "pool"
  /\ \/ Relays \/ Relayed
     \/ \E next \in {"runs", "stops"} : Says(next)
  /\ UNCHANGED <<relayVars, sessionVars, recorderVars>>
ClockSteps(t) ==
  /\ \/ ClockFires(t) \/ ClockLooks(t) \/ ClockFlags(t)
     \/ ClockKills(t) \/ ClockTells(t)
  /\ UNCHANGED <<relayVars, sessionVars, recorderVars>>
RtSteps ==
  /\ Writes \/ Exits
  /\ UNCHANGED <<relayVars, sessionVars, recorderVars>>
AnswerSteps == (PackageActs /\ open # None) \/ CommandAnswered

Fairness ==
  /\ WF_vars(CallerActs /\ caller # "idle") /\ WF_vars(ReadsFrame)
  /\ WF_vars(PoolCallerSteps) /\ WF_vars(CommandSays)
  /\ \A t \in Runs : WF_vars(ClockSteps(t))
  /\ WF_vars(RtSteps) /\ WF_vars(AnswerSteps)

Spec == Init /\ [][Next]_vars /\ Fairness

-----------------------------------------------------------------------------
\* The session, the run and the recorder stay in their types, and what
\* sabline-rt's recorder has noted is calls of the session.
TypeOK ==
  /\ way \in Ways /\ merged \subseteq Nat /\ over \in BOOLEAN
  /\ ToolsTypeOK /\ RtTypeOK /\ RecorderTypeOK

\* "in the receipt": a call the host was sent is in the receipt of its run,
\* whether it was answered, refused or left without an answer, and whichever
\* process recorded it.
ReceiptLists ==
  over => CASE way = "package" -> noted = 1..calls
            [] way = "command" /\ told[1] = "finished" -> merged = 1..calls
            [] OTHER -> TRUE

\* What a run's records hold is everything they had to: the calls, and what
\* sabline-rt wrote before it ended or was stopped.
RecordsWhole == ToldWhole /\ ReceiptLists

\* The deadline's thread has nothing to do once sabline-rt is gone: if that
\* died by itself while a worker was making its call, nobody stops the worker.
Stranded == caller = "relays" /\ clock[turn] = "done" /\ ~stopped[turn]

\* A run under a deadline is told how it ended, whatever its program, its
\* worker and sabline-rt do, unless it is stranded; and a call the host does
\* not answer is given up.
RunsEnd ==
  /\ (way = "pool" /\ caller # "idle") ~> (caller = "idle" \/ Stranded)
  /\ (open # None) ~> (open = None)
=============================================================================
