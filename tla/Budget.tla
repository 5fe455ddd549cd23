------------------------------- MODULE Budget -------------------------------
(***************************************************************************)
(* The effect budget (sabline/budget.py): a budget written grant by grant, *)
(* one budget held to another (a door's --max-allow, an organisation's     *)
(* ceiling), and the run it is installed for, whose every operation is     *)
(* held to it and counted.                                                 *)
(*                                                                         *)
(* A value that may be None is the set of it: {} or {v}.  Paths, hosts,    *)
(* modules and tools are model values; a host is its first label and the   *)
(* domain the rest names.                                                  *)
(***************************************************************************)
EXTENDS Naturals, FiniteSets, SequencesExt

CONSTANTS
  Path,       \* resolved paths
  Within,     \* the pairs <<p, q>> where q is p or lies under it
  Credential, \* Path -> the credential root it is at or under, or None
  Label, Domain, Port,
  Module,
  Tool, Constraint,   \* a constraint is <<argument, pattern>>
  Items,      \* bound: the grants the ceiling and the budget are written with
  MaxItems,   \* bound: different grants written in one budget
  MaxOps      \* bound: operations of a run

ASSUME WithinAssumption ==
  /\ Within \subseteq Path \X Path
  /\ \A p \in Path : <<p, p>> \in Within
  /\ \A p, q, r \in Path :
       <<p, q>> \in Within /\ <<q, r>> \in Within => <<p, r>> \in Within
ASSUME LabelAssumption == "*" \notin Label
\* a grant: a plain effect, <<"fs", any/read/write, path, count>>,
\* <<"net", pattern, port, count>>, <<"ffi", modules>> or
\* <<"tool", tool, constraint, count>>
Plain   == {"io", "env", "clock", "rand", "declassify"}
Effects == Plain \union {"fs", "net", "ffi", "tool"}
Host    == Label \X Domain
Pattern == (Label \union {"*"}) \X Domain
AtMostOne(S) == \A x, y \in S : x = y
Optional(S)  == {T \in SUBSET S : AtMostOne(T)}
IsFs(i)   == /\ i \in {"fs"} \X {"any", "read", "write"} \X Optional(Path)
                          \X SUBSET Nat
             /\ AtMostOne(i[4])
IsNet(i)  == /\ i \in {"net"} \X Optional(Pattern) \X Optional(Port)
                           \X SUBSET Nat
             /\ AtMostOne(i[4])
IsFfi(i)  == i \in {"ffi"} \X SUBSET Module
IsTool(i) == /\ i \in {"tool"} \X Optional(Tool) \X Optional(Constraint)
                            \X SUBSET Nat
             /\ AtMostOne(i[4])
             /\ i[3] # {} => i[2] # {} /\ i[4] = {}

ASSUME ItemsAssumption ==
  \A r \in {"ceiling", "asked"} : \A i \in Items[r] :
    IsFs(i) \/ IsNet(i) \/ IsFfi(i) \/ IsTool(i) \/ \E e \in Plain : i = <<e>>
ASSUME ToolAssumption == {"fs", "net", "all tools"} \intersect Tool = {}
ASSUME BoundAssumption == MaxItems \in Nat /\ MaxOps \in Nat

VARIABLES
  budgets,    \* the operator's ceiling and the budget asked for, as parsed
  written,    \* the grants each was written with, and not denied since
  broken,     \* can the ceiling not be read?
  stage,      \* "writing", "running", or how the run ended
  counts,     \* OP_COUNTS and TOOL_COUNTS: operations counted, by kind
  uses,       \* GRANT_USES, by kind
  done        \* the operation just done, or None

vars == <<budgets, written, broken, stage, counts, uses, done>>

-----------------------------------------------------------------------------
(* A budget, and how one is written.                                       *)

Total   == "all tools"
Kinds   == {"fs", "net", Total} \union Tool

NoBudget ==
  [effects |-> {}, modules |-> {}, ffiAny |-> FALSE,
   fs |-> {}, fsAny |-> FALSE, net |-> {}, netAny |-> FALSE,
   limits |-> [k \in Kinds |-> {}],
   names |-> {}, held |-> [t \in Tool |-> {}],
   toolAny |-> FALSE, toolPlain |-> {}, allTools |-> FALSE]

\* _limit: a count is the smallest given
Least(cur, n) == IF n = {} \/ cur = {} THEN cur \union n
                 ELSE {CHOOSE x \in cur \union n :
                         \A y \in cur \union n : x <= y}

\* for mutation: the last count written is the one that holds
LimitLast(b, k, n) == IF n = {} THEN b ELSE [b EXCEPT !.limits[k] = n]

Limit(b, k, n) == [b EXCEPT !.limits[k] = Least(@, n)]

AddFs(b, item) ==
  LET c == Limit([b EXCEPT !.effects = @ \union {"fs"}], "fs", item[4])
  IN  IF item[2] = "any" THEN [c EXCEPT !.fs = {}, !.fsAny = TRUE]
      ELSE IF c.fsAny THEN c
      ELSE [c EXCEPT !.fs = @ \union {<<item[2], item[3]>>}]

AddNet(b, item) ==
  LET c == Limit([b EXCEPT !.effects = @ \union {"net"}], "net", item[4])
  IN  IF item[2] = {} THEN [c EXCEPT !.net = {}, !.netAny = TRUE]
      ELSE IF c.netAny THEN c
      ELSE [c EXCEPT !.net = @ \union {<<h, item[3]>> : h \in item[2]}]

\* ffi, or ffi:a,b: the wider grant wins, whichever was written first
AddFfi(b, item) ==
  LET c == [b EXCEPT !.effects = @ \union {"ffi"}]
  IN  IF item[2] = {} THEN [c EXCEPT !.modules = {}, !.ffiAny = TRUE]
      ELSE IF c.ffiAny THEN c
      ELSE [c EXCEPT !.modules = @ \union item[2]]

AddTool(b, item) ==
  LET c == [b EXCEPT !.effects = @ \union {"tool"}]
      t == CHOOSE x \in item[2] : TRUE
  IN  IF item[2] = {}
        THEN IF item[4] = {} THEN [c EXCEPT !.toolAny = TRUE]
             ELSE Limit(c, Total, item[4])
      ELSE IF item[4] # {}
        THEN [Limit(c, t, item[4]) EXCEPT !.names = @ \union {t}]
      ELSE IF item[3] = {}
        THEN [c EXCEPT !.names = @ \union {t}, !.held[t] = {},
                       !.toolPlain = @ \union {t}]
      ELSE [c EXCEPT !.names = @ \union {t}, !.held[t] = @ \union item[3]]

Add(b, item) ==
  CASE item[1] = "fs"   -> AddFs(b, item)
    [] item[1] = "net"  -> AddNet(b, item)
    [] item[1] = "ffi"  -> AddFfi(b, item)
    [] item[1] = "tool" -> AddTool(b, item)
    [] OTHER            -> [b EXCEPT !.effects = @ \union {item[1]}]

\* the end of parse: a plain tool:NAME wins over its patterns, and a plain
\* tool, or a count with no tool named, grants every tool
Parsed(b) ==
  LET all == b.toolAny \/ ("tool" \in b.effects /\ b.names = {})
  IN  [b EXCEPT !.held = [t \in Tool |-> IF all \/ t \in b.toolPlain THEN {}
                                         ELSE b.held[t]],
                !.names = IF all THEN {} ELSE @,
                !.allTools = all, !.fsAny = FALSE, !.netAny = FALSE,
                !.ffiAny = FALSE, !.toolAny = FALSE, !.toolPlain = {}]

Deny(b, e) ==
  LET c == [b EXCEPT !.effects = @ \ {e}]
  IN  CASE e = "fs"   -> [c EXCEPT !.fs = {}, !.limits["fs"] = {}]
        [] e = "net"  -> [c EXCEPT !.net = {}, !.limits["net"] = {}]
        [] e = "ffi"  -> [c EXCEPT !.modules = {}]
        [] e = "tool" -> [c EXCEPT !.names = {}, !.allTools = FALSE,
                                   !.held = [t \in Tool |-> {}],
                                   !.limits = [k \in Kinds |->
                                      IF k \in {"fs", "net"} THEN @[k] ELSE {}]]
        [] OTHER      -> c

\* _tool_items, as spec writes them
ToolItems(b) ==
  (IF b.allTools \/ b.limits[Total] # {}
     THEN {<<"tool", {}, {}, b.limits[Total]>>} ELSE {})
  \union {<<"tool", {t}, {}, {}>> :
            t \in {u \in b.names : b.held[u] = {} /\ b.limits[u] = {}}}
  \union (UNION {{<<"tool", {t}, {c}, {}>> : c \in b.held[t]} : t \in b.names})
  \union {<<"tool", {t}, {}, b.limits[t]>> :
            t \in {u \in Tool : b.limits[u] # {}}}

\* for mutation: the count of the network is not written
Spec1NoCount(b, e) ==
  CASE e = "fs"  -> IF b.fs = {} THEN {<<"fs", "any", {}, b.limits["fs"]>>}
                    ELSE {<<"fs", g[1], g[2], b.limits["fs"]>> : g \in b.fs}
    [] e = "net" -> IF b.net = {} THEN {<<"net", {}, {}, {}>>}
                    ELSE {<<"net", {g[1]}, g[2], {}>> : g \in b.net}
    [] e = "ffi" -> {<<"ffi", b.modules>>}
    [] e = "tool" -> ToolItems(b)
    [] OTHER -> {<<e>>}

Spec1(b, e) ==
  CASE e = "fs"  -> IF b.fs = {} THEN {<<"fs", "any", {}, b.limits["fs"]>>}
                    ELSE {<<"fs", g[1], g[2], b.limits["fs"]>> : g \in b.fs}
    [] e = "net" -> IF b.net = {} THEN {<<"net", {}, {}, b.limits["net"]>>}
                    ELSE {<<"net", {g[1]}, g[2], b.limits["net"]>> : g \in b.net}
    [] e = "ffi" -> {<<"ffi", b.modules>>}
    [] e = "tool" -> ToolItems(b)
    [] OTHER -> {<<e>>}

\* the budget as text, one grant after another
SpecText(b) == SetToSeq(UNION {Spec1(b, e) : e \in b.effects})

Parse(items) == Parsed(FoldLeft(Add, NoBudget, items))

-----------------------------------------------------------------------------
(* One budget inside another.                                              *)

FsGrantCovers(g, w) ==
  /\ g[1] = w[1]
  /\ g[2] = {} \/ \E p \in g[2], q \in w[2] : <<p, q>> \in Within

HostMatches(pattern, host) ==
  IF pattern[1] = "*" THEN pattern[2] = host[2] ELSE pattern = host

\* for mutation: a grant of a port covers a grant of any port
NetGrantCoversAnyPort(g, w) ==
  /\ g[2] = {} \/ w[2] = {} \/ g[2] = w[2]
  /\ IF w[1][1] = "*" THEN g[1] = w[1] ELSE HostMatches(g[1], w[1])

NetGrantCovers(g, w) ==
  /\ g[2] = {} \/ g[2] = w[2]
  /\ IF w[1][1] = "*" THEN g[1] = w[1] ELSE HostMatches(g[1], w[1])

CountCovers(n, wanted) ==
  n # {} => \E a \in n, w \in wanted : w <= a

\* the effects for which `asked' goes past b; gap names the first of them
Gap(b, asked) ==
  (asked.effects \ b.effects)
  \union {e \in {"ffi"} \intersect asked.effects :
            b.modules # {} /\ (asked.modules = {} \/
                               ~ asked.modules \subseteq b.modules)}
  \union {e \in {"fs"} \intersect asked.effects :
            \/ ~ CountCovers(b.limits["fs"], asked.limits["fs"])
            \/ b.fs # {} /\ (asked.fs = {} \/
                 \E w \in asked.fs : \A g \in b.fs : ~ FsGrantCovers(g, w))}
  \union {e \in {"net"} \intersect asked.effects :
            \/ ~ CountCovers(b.limits["net"], asked.limits["net"])
            \/ b.net # {} /\ (asked.net = {} \/
                 \E w \in asked.net : \A g \in b.net : ~ NetGrantCovers(g, w))}
  \union {e \in {"tool"} \intersect asked.effects :
            /\ ~ b.allTools \/ \E k \in {Total} \union Tool : b.limits[k] # {}
            /\ ~ ToolItems(asked) \subseteq ToolItems(b)}

-----------------------------------------------------------------------------
(* What one operation of a run needs.                                      *)

Wants(kind) == IF kind = "exists" THEN {"read", "write"}
               ELSE IF kind = "readSecret" THEN {"read"} ELSE {kind}

\* for mutation: the direction of one grant and the path of another
AllowPathMixed(b, kind, p) ==
  \/ b.fs = {}
  \/ /\ \E g \in b.fs : g[1] \in Wants(kind)
     /\ \E g \in b.fs : \A q \in g[2] : <<q, p>> \in Within

AllowPath(b, kind, p) ==
  LET under == {g \in b.fs : /\ g[1] \in Wants(kind)
                             /\ \A q \in g[2] : <<q, p>> \in Within}
  IN  IF kind # "write" /\ Credential[p] # {}
        THEN /\ kind # "read"
             /\ \E g \in under : \E q \in g[2], root \in Credential[p] :
                  <<root, q>> \in Within
      ELSE b.fs = {} \/ under # {}

AllowHost(b, h, port) ==
  b.net = {} \/ \E g \in b.net : HostMatches(g[1], h) /\ g[2] \subseteq {port}

AllowModule(b, m) == b.modules = {} \/ m \in b.modules

\* held_by: `fits' is the set of constraints the call's arguments meet
HeldBy(b, t, fits) ==
  \/ b.allTools
  \/ /\ t \in b.names
     /\ \A c \in b.held[t] : \E d \in b.held[t] \intersect fits : d[1] = c[1]

Op == {<<"fs", k, p>> : k \in {"read", "readSecret", "exists", "write"},
                        p \in Path}
      \union {<<"net", h, port>> : h \in Host, port \in Port}
      \union {<<"ffi", m>> : m \in Module}
      \union {<<"tool", t, fits>> : t \in Tool, fits \in SUBSET Constraint}
      \union {<<e>> : e \in Plain}

Allows(b, op) ==
  /\ op[1] \in b.effects
  /\ CASE op[1] = "fs"   -> AllowPath(b, op[2], op[3])
       [] op[1] = "net"  -> AllowHost(b, op[2], op[3])
       [] op[1] = "ffi"  -> AllowModule(b, op[2])
       [] op[1] = "tool" -> HeldBy(b, op[2], op[3])
       [] OTHER          -> TRUE

\* the counts an operation spends
Spends(op) == CASE op[1] \in {"fs", "net"} -> {op[1]}
                [] op[1] = "tool" -> {op[2], Total}
                [] OTHER -> {}

-----------------------------------------------------------------------------
Ceiling == budgets["ceiling"]
Asked   == budgets["asked"]
Spent(op)  == [k \in Kinds |-> counts[k] + IF k \in Spends(op) THEN 1 ELSE 0]
Used(op)   == [k \in Kinds |-> uses[k] + IF k \in Spends(op) THEN 1 ELSE 0]
Past(b, n) == \E k \in Kinds : \E most \in b.limits[k] : n[k] > most

Init ==
  /\ budgets = [r \in {"ceiling", "asked"} |-> NoBudget]
  /\ written = [r \in {"ceiling", "asked"} |-> {}]
  /\ broken = FALSE /\ stage = "writing"
  /\ counts = [k \in Kinds |-> 0] /\ uses = [k \in Kinds |-> 0]
  /\ done = {}

Write(r, item) ==
  /\ stage = "writing" /\ Cardinality(written[r]) < MaxItems
  /\ budgets' = [budgets EXCEPT ![r] = Add(@, item)]
  /\ written' = [written EXCEPT ![r] = @ \union {item}]
  /\ UNCHANGED <<broken, stage, counts, uses, done>>

\* both are parsed
ParseBoth ==
  /\ stage = "writing"
  /\ budgets' = [r \in DOMAIN budgets |-> Parsed(budgets[r])]
  /\ stage' = "parsed"
  /\ UNCHANGED <<written, broken, counts, uses, done>>

\* --deny narrows what --allow gave, one effect after another
DenyEffect(e) ==
  /\ stage \in {"parsed", "denied"}
  /\ budgets' = [budgets EXCEPT !["asked"] = Deny(@, e)]
  /\ written' = [written EXCEPT !["asked"] = {i \in @ : i[1] # e}]
  /\ stage' = "denied"
  /\ UNCHANGED <<broken, counts, uses, done>>

\* a ceiling whose file cannot be read, or does not parse
Break ==
  /\ stage = "parsed" /\ ~broken
  /\ broken' = TRUE
  /\ UNCHANGED <<budgets, written, stage, counts, uses, done>>

\* hold, and install
Hold ==
  /\ stage \in {"parsed", "denied"}
  /\ IF ~broken /\ Gap(Ceiling, Asked) = {}
       THEN stage' = "running" ELSE stage' = "refused"
  /\ UNCHANGED <<budgets, written, broken, counts, uses, done>>

\* for mutation: the count is read before it is raised
DoOneMore(op) ==
  /\ stage = "running"
  /\ \A k \in Kinds : counts[k] < MaxOps
  /\ Allows(Asked, op)
  /\ IF Past(Asked, counts)
       THEN /\ stage' = "ended" /\ done' = {} /\ UNCHANGED <<counts, uses>>
       ELSE /\ done' = {op} /\ counts' = Spent(op) /\ uses' = Used(op)
            /\ UNCHANGED stage
  /\ UNCHANGED <<budgets, written, broken>>

\* allow_path, host_refusal: the grant is counted as used before count_op
\* refuses past the count; a tool's counts are spent first
Do(op) ==
  /\ stage = "running"
  /\ \A k \in Kinds : counts[k] < MaxOps
  /\ Allows(Asked, op)
  /\ IF Past(Asked, Spent(op))
       THEN /\ stage' = "ended" /\ done' = {}
            /\ IF op[1] = "tool" THEN UNCHANGED <<counts, uses>>
                                 ELSE counts' = Spent(op) /\ uses' = Used(op)
       ELSE /\ done' = {op} /\ counts' = Spent(op) /\ uses' = Used(op)
            /\ UNCHANGED stage
  /\ UNCHANGED <<budgets, written, broken>>

\* E310, E311, E313, E314, E318, E321: the run ends
Refuse(op) ==
  /\ stage = "running" /\ ~ Allows(Asked, op)
  /\ stage' = "ended" /\ done' = {}
  /\ UNCHANGED <<budgets, written, broken, counts, uses>>

Rest == stage \in {"refused", "ended", "running"} /\ UNCHANGED vars

Next == \/ \E r \in {"ceiling", "asked"} :
             \E item \in Items[r] : Write(r, item)
        \/ ParseBoth \/ Break \/ Hold \/ Rest
        \/ \E e \in Effects : DenyEffect(e)
        \/ \E op \in Op : Do(op) \/ Refuse(op)

Spec == Init /\ [][Next]_vars

-----------------------------------------------------------------------------
(* What a budget means, from the set of grants it was written with.        *)

Of(I, e)    == {i \in I : i[1] = e}
Smallest(S) == {n \in S : \A m \in S : n <= m}

\* the counts written for a kind
CountsFor(I, k) ==
  UNION {i[4] : i \in
    IF k \in {"fs", "net"} THEN Of(I, k)
    ELSE {j \in Of(I, "tool") : j[2] = IF k = Total THEN {} ELSE {k}}}

\* every tool is granted: plainly, or by a count with no tool named
EveryTool(T) == T # {} /\ (<<"tool", {}, {}, {}>> \in T \/ \A i \in T : i[2] = {})

ModulesMeant(M) == IF <<"ffi", {}>> \in M THEN {} ELSE UNION {i[2] : i \in M}
FilesMeant(F)   == IF \E i \in F : i[2] = "any" THEN {}
                   ELSE {<<i[2], i[3]>> : i \in F}
HostsMeant(N)   == IF \E i \in N : i[2] = {} THEN {}
                   ELSE UNION {i[2] \X {i[3]} : i \in N}
HeldMeant(T, t) == UNION {i[3] : i \in {j \in T : j[2] = {t}}}

\* does this grant, as it is written, cover the operation by itself?
Grants(i, op) ==
  CASE i[1] = "fs"  -> \/ i[2] = "any"
                       \/ i[2] \in Wants(op[2]) /\ i[3] \X {op[3]} \subseteq Within
    [] i[1] = "net" -> \/ i[2] = {}
                       \/ /\ \A h \in i[2] : HostMatches(h, op[2])
                          /\ i[3] \subseteq {op[3]}
    [] i[1] = "ffi" -> i[2] = {} \/ op[2] \in i[2]
    [] i[1] = "tool" -> i[2] = {} \/ op[2] \in i[2]
    [] OTHER -> TRUE

\* is the tool called, and each argument its grants name held to what they say?
MeetsPatterns(T, op) ==
  \/ EveryTool(T)
  \/ <<"tool", {op[2]}, {}, {}>> \in T
  \/ /\ \E i \in T : i[2] = {op[2]}
     /\ \A c \in HeldMeant(T, op[2]) :
          \E d \in HeldMeant(T, op[2]) \intersect op[3] : d[1] = c[1]

Meaning(I) ==
  LET tools == Of(I, "tool")
      all   == EveryTool(tools)
  IN  [NoBudget EXCEPT
        !.effects  = {i[1] : i \in I},
        !.modules  = ModulesMeant(Of(I, "ffi")),
        !.fs       = FilesMeant(Of(I, "fs")),
        !.net      = HostsMeant(Of(I, "net")),
        !.limits   = [k \in Kinds |-> Smallest(CountsFor(I, k))],
        !.names    = IF all THEN {} ELSE UNION {i[2] : i \in tools},
        !.held     = [t \in Tool |->
                        IF all \/ <<"tool", {t}, {}, {}>> \in tools THEN {}
                        ELSE HeldMeant(tools, t)],
        !.allTools = all]

-----------------------------------------------------------------------------
BudgetType ==
  [effects : SUBSET Effects, modules : SUBSET Module, ffiAny : BOOLEAN,
   fs : SUBSET ({"read", "write"} \X Optional(Path)), fsAny : BOOLEAN,
   net : SUBSET (Pattern \X Optional(Port)), netAny : BOOLEAN,
   limits : [Kinds -> SUBSET Nat],
   names : SUBSET Tool, held : [Tool -> SUBSET Constraint],
   toolAny : BOOLEAN, toolPlain : SUBSET Tool, allTools : BOOLEAN]

TypeOK ==
  /\ budgets \in [{"ceiling", "asked"} -> BudgetType]
  /\ \A r \in DOMAIN budgets : \A k \in Kinds : AtMostOne(budgets[r].limits[k])
  /\ stage \in {"writing", "parsed", "denied", "running", "refused", "ended"}
  /\ broken \in BOOLEAN
  /\ counts \in [Kinds -> Nat] /\ uses \in [Kinds -> Nat]
  /\ done \subseteq Op

\* A budget means what its grants say whatever order they are written in: the
\* wider grant wins, and a count is the smallest given.  And denying an effect
\* is as if nothing of it had been granted.
OrderFree == stage \in {"parsed", "denied"} =>
               \A r \in DOMAIN budgets : budgets[r] = Meaning(written[r])

\* What spec writes, a child process parses to the same budget - unless every
\* tool is granted together with a count of all tools.
RoundTrips ==
  stage \in {"parsed", "denied"} =>
    \A r \in DOMAIN budgets :
      ~ (budgets[r].allTools /\ budgets[r].limits[Total] # {}) =>
        Parse(SpecText(budgets[r])) = budgets[r]

\* a file of credentials, which only a grant of its own lets be read
OnCredential(op) == op[1] = "fs" /\ op[2] # "write" /\ Credential[op[3]] # {}

\* What a run does, the ceiling its budget was held to grants, at every
\* level: the path and its direction, the host and its port, the module - and
\* as often.  (A credential file is apart, which a ceiling above it covers and
\* refuses; and a tool call, which gap compares as text: see the README.)
WithinCeiling ==
  stage \in {"running", "ended"} =>
    /\ ~broken
    /\ \A op \in done : op[1] # "tool" /\ ~OnCredential(op) =>
                          Allows(Ceiling, op)
    /\ stage = "running" =>
         \A k \in {"fs", "net"} : k \in Asked.effects =>
           \A most \in Ceiling.limits[k] : counts[k] <= most

\* No run does one operation more than the count of its budget, and the
\* counts of a tool and of all tools hold together.
WithinCounts ==
  /\ stage = "running" => ~ Past(Asked, counts)
  /\ \A t \in Tool : counts[t] <= counts[Total]

\* Whatever a run does, the operator wrote for it: one grant, left standing by
\* --deny, covers all of the operation by itself - its direction and path, or
\* its host and port, never a half of two grants - and a tool call held to
\* patterns has met one of them for every argument any grant of the tool names.
OnlyAsWritten ==
  \A op \in done :
    /\ \E i \in Of(written["asked"], op[1]) : Grants(i, op)
    /\ op[1] = "tool" => MeetsPatterns(Of(written["asked"], "tool"), op)
=============================================================================
