-------------------------------- MODULE Tools --------------------------------
(***************************************************************************)
(* The tools a host offers a run (sabline/tools.py): ToolSession, the two  *)
(* pipes to the host, and the host, who may write any line at any time.    *)
(* A call is checked, counted, noted and written, and the run waits; the   *)
(* reader's thread puts the host's lines on a queue, from which the call   *)
(* takes one.  What the run prints travels the same pipe.                  *)
(*                                                                         *)
(* Who makes the calls is Relay's: a program in this process, or one in    *)
(* sabline-rt's.  Whether arguments are what a schema and the grants take  *)
(* is data (Budget has the grants); a call may always be refused for it.   *)
(***************************************************************************)
EXTENDS Naturals, FiniteSets, SequencesExt

CONSTANTS
  Offers,       \* the manifest's tools: [DOMAIN -> [cost, secret]]
  MaxCalls,     \* its ceiling.calls
  MaxCost,      \* its ceiling.cost
  Lines,        \* what a host may write: [id, is, cost, secret]
  MaxLines,     \* bound: lines a host writes
  MaxPrints,    \* bound: times the run prints
  Default,      \* the cost of a reply that names none
  Nothing       \* the line of a host that went away

Tools == DOMAIN Offers
Forms == {"tool", "tool_secret"}

ASSUME OffersAssumption ==
  /\ Tools # {} /\ Offers \in [Tools -> [cost : Nat, secret : BOOLEAN]]
  /\ MaxCalls \in Nat /\ MaxCost \in Nat
  /\ MaxLines \in Nat /\ MaxPrints \in Nat
ASSUME LinesAssumption ==
  /\ Lines \subseteq [id : Nat, is : {"result", "error", "other"},
                      cost : Nat \union {Default}, secret : BOOLEAN]
  /\ Default \notin Nat /\ Nothing \notin Lines

VARIABLES
  open,         \* the tool and form of the call the run waits on, if any
  came,         \* what the last call came to
  calls,        \* ToolSession.calls_used, and next_id - 1
  cost,         \* ToolSession.cost_used
  door,         \* the events written to the host
  queue,        \* ToolSession._replies
  wrote,        \* how many lines the host wrote
  left,         \* has the host gone away?
  printed,      \* how often the run printed
  pending,      \* is some of it in _EventStream._pending?
  noted,        \* the calls a recorder has noted
  \* what the properties look back on
  sent,         \* the tool of each call
  taken         \* the line each call took

lineVars == <<queue, wrote, left>>
toolVars == <<open, came, calls, cost, door, printed, pending, noted, sent,
              taken>>

None == {}
Call(t, f) == {[tool |-> t, form |-> f]}
Opened == CHOOSE c \in open : TRUE

Event(kind, n, after) == [event |-> kind, n |-> n, after |-> after]

ToolsInit ==
  /\ open = None /\ came = "none" /\ calls = 0 /\ cost = 0
  /\ door = <<Event("ready", 0, 0)>>
  /\ queue = <<>> /\ wrote = 0 /\ left = FALSE
  /\ printed = 0 /\ pending = FALSE /\ noted = {}
  /\ sent = <<>> /\ taken = <<>>

-----------------------------------------------------------------------------
(* The host and the reader's thread (_read_loop): a line, a line too long    *)
(* to be one, which comes in two pieces, or the end.                         *)

TooLong == [id |-> 0, is |-> "other", cost |-> Default, secret |-> FALSE]

HostWrites ==
  /\ ~left /\ wrote < MaxLines
  /\ \E l \in Lines : \/ queue' = Append(queue, l)
                      \/ queue' = queue \o <<TooLong, l>>
  /\ wrote' = wrote + 1
  /\ UNCHANGED <<left, toolVars>>

HostLeaves ==
  /\ ~left /\ left' = TRUE /\ queue' = Append(queue, Nothing)
  /\ UNCHANGED <<wrote, toolVars>>

-----------------------------------------------------------------------------
(* What a run prints (_EventStream). *)

\* for mutation: what is pending stays there
FlushedNot == door

\* flush: what is pending goes as a partial line
Flushed == IF pending THEN Append(door, Event("output", printed, 0)) ELSE door

\* a whole line goes with what was pending; a part of one waits
StreamWrite(whole) ==
  /\ printed < MaxPrints /\ printed' = printed + 1
  /\ pending' = ~whole
  /\ door' = IF whole THEN Append(door, Event("output", printed + 1, 0)) ELSE door
  /\ UNCHANGED <<open, came, calls, cost, noted, sent, taken, lineVars>>

-----------------------------------------------------------------------------
(* ToolSession.call, up to the host.  Every refusal stops the run. *)

\* for mutation: what the calls before have cost is not looked at
AllowedAfresh(t, f) ==
  /\ Offers[t].secret => f = "tool_secret"
  /\ calls < MaxCalls
  /\ Offers[t].cost <= MaxCost

Allowed(t, f) ==
  /\ Offers[t].secret => f = "tool_secret"
  /\ calls < MaxCalls
  /\ cost + Offers[t].cost <= MaxCost

\* E320-E323: not offered, or its arguments, grants, counts or ceilings
Refuse ==
  /\ open = None /\ came' = "refused"
  /\ UNCHANGED <<open, calls, cost, door, printed, pending, noted, sent, taken,
                 lineVars>>

\* it is noted, what was printed goes first, and the call is written
Send(t, f) ==
  /\ open = None /\ Allowed(t, f)
  /\ open' = Call(t, f) /\ came' = "none"
  /\ calls' = calls + 1
  /\ noted' = noted \union {calls + 1}
  /\ door' = Append(Flushed, Event("call", calls + 1, printed))
  /\ pending' = FALSE
  /\ sent' = Append(sent, t)
  /\ UNCHANGED <<cost, printed, taken, lineVars>>

-----------------------------------------------------------------------------
(* _reply, and what the answer comes to. *)

\* for mutation: whatever answers is taken for the answer
MatchesAny(l) == l \in Lines /\ l.is # "other"

\* an answer of this call: one line of JSON with its id, and one of a result
\* and an error; anything else is E324
Matches(l) == l \in Lines /\ l.is # "other" /\ l.id = calls

\* a cost in the answer replaces the manifest's
CostOf(l, t) == IF l.cost = Default THEN Offers[t].cost ELSE l.cost

Reply ==
  /\ open # None /\ queue # <<>>
  /\ LET l == Head(queue) IN
     /\ IF Matches(l)
        THEN /\ cost' = cost + CostOf(l, Opened.tool)
             /\ came' = IF l.secret /\ Opened.form = "tool" THEN "refused"
                        ELSE IF l.is = "error" THEN "failed" ELSE "value"
             /\ taken' = Append(taken, l)
        ELSE /\ came' = "refused"
             /\ UNCHANGED <<cost, taken>>
     /\ queue' = Tail(queue)
  /\ open' = None
  /\ UNCHANGED <<calls, door, printed, pending, noted, sent, wrote, left>>

\* --tool-timeout passes with nothing on the queue
NoReply ==
  /\ open # None /\ queue = <<>>
  /\ came' = "refused" /\ open' = None
  /\ UNCHANGED <<calls, cost, door, printed, pending, noted, sent, taken,
                 lineVars>>

\* _cli_run_with_tools, last: what is pending, and the end
Exit ==
  /\ door' = Append(Flushed, Event("exit", 0, printed))
  /\ pending' = FALSE
  /\ UNCHANGED <<open, came, calls, cost, printed, noted, sent, taken, lineVars>>

-----------------------------------------------------------------------------
ToolsTypeOK ==
  /\ open \subseteq [tool : Tools, form : Forms] /\ Cardinality(open) <= 1
  /\ came \in {"none", "refused", "failed", "value"}
  /\ calls \in Nat /\ cost \in Nat
  /\ door \in Seq([event : {"ready", "output", "call", "exit"}, n : Nat,
                   after : Nat])
  /\ queue \in Seq(Lines \union {TooLong, Nothing})
  /\ wrote \in 0..MaxLines /\ left \in BOOLEAN
  /\ printed \in 0..MaxPrints /\ pending \in BOOLEAN
  /\ noted \subseteq Nat /\ sent \in Seq(Tools) /\ taken \in Seq(Lines)

\* "its answer carries its id": whatever the host writes, early, late, twice
\* or too long, the nth answer a run is given is one that carries n, and it is
\* given no answer after a call that came to none.
OwnAnswer ==
  /\ \A i \in DOMAIN taken : taken[i].id = i
  /\ Len(taken) >= calls - 1

\* what the first n answers cost
Costs(n) == [i \in 1..n |-> CostOf(taken[i], sent[i])]
Plus(a, b) == a + b
Spent(n) == FoldLeft(Plus, 0, Costs(n))

\* "the most calls and the most cost one run may spend": what the calls before
\* the last have cost by their answers, and the last by the manifest, is
\* within the ceiling; only its own answer may say more.
CeilingHeld ==
  /\ calls <= MaxCalls
  /\ calls > 0 => Spent(calls - 1) + Offers[sent[calls]].cost <= MaxCost

\* The host reads what the run did in the order it did it: what was printed
\* before a call before the call, calls by number, and exit last.
DoorInOrder ==
  \A i \in DOMAIN door :
    /\ door[i].event \in {"call", "exit"} =>
         door[i].after = 0 \/ \E j \in 1..(i - 1) :
           door[j].event = "output" /\ door[j].n = door[i].after
    /\ door[i].event = "call" =>
         door[i].n = Cardinality({j \in 1..i : door[j].event = "call"})
    /\ door[i].event = "exit" => i = Len(door)
=============================================================================
