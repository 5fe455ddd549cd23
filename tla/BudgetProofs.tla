---------------------------- MODULE BudgetProofs ----------------------------
(***************************************************************************)
(* Theorems about Budget, for any paths, hosts, modules, tools and grants. *)
(***************************************************************************)
EXTENDS Budget, FiniteSetTheorems, TLAPS

Single(b) == \A k \in Kinds : AtMostOne(b.limits[k])
Good(b)   == b \in BudgetType /\ Single(b)

LEMMA LeastType ==
  ASSUME NEW cur \in SUBSET Nat, NEW n \in SUBSET Nat,
         AtMostOne(cur), AtMostOne(n)
  PROVE  Least(cur, n) \in SUBSET Nat /\ AtMostOne(Least(cur, n))
<1>1. CASE n = {} \/ cur = {}
  BY <1>1 DEF Least, AtMostOne
<1>2. CASE n # {} /\ cur # {}
  <2>1. PICK x \in cur, y \in n : TRUE
    BY <1>2
  <2>2. cur \union n = {x, y}
    BY <2>1 DEF AtMostOne
  <2>3. \E z \in cur \union n : \A w \in cur \union n : z <= w
    BY <2>2, x \in Nat, y \in Nat
  <2>4. (CHOOSE z \in cur \union n : \A w \in cur \union n : z <= w) \in Nat
    BY <2>3
  <2> QED
    BY <1>2, <2>4 DEF Least, AtMostOne
<1> QED
  BY <1>1, <1>2

LEMMA SameLimits ==
  ASSUME NEW b, Good(b), NEW c \in BudgetType, c.limits = b.limits
  PROVE  Good(c)
BY DEF Good, Single

LEMMA NoBudgetGood == Good(NoBudget)
BY DEF Good, Single, AtMostOne, NoBudget, BudgetType

LEMMA LimitGood ==
  ASSUME NEW b, Good(b), NEW k \in Kinds, NEW n \in SUBSET Nat, AtMostOne(n)
  PROVE  /\ Good(Limit(b, k, n))
         /\ Limit(b, k, n) = [b EXCEPT !.limits = Limit(b, k, n).limits]
<1> DEFINE L == Least(b.limits[k], n)
<1>1. L \in SUBSET Nat /\ AtMostOne(L)
  BY LeastType DEF Good, BudgetType, Single
<1> HIDE DEF L
<1>2. Limit(b, k, n) = [b EXCEPT !.limits = [b.limits EXCEPT ![k] = L]]
  BY DEF Limit, L, Good, BudgetType
<1> QED
  BY <1>1, <1>2 DEF Good, BudgetType, Single

LEMMA AddFsGood ==
  ASSUME NEW b, Good(b), NEW i, IsFs(i)
  PROVE  Good(AddFs(b, i))
<1> DEFINE d == [b EXCEPT !.effects = @ \union {"fs"}]
           c == Limit(d, "fs", i[4])
<1>1. Good(d)
  BY DEF Good, Single, BudgetType, Effects
<1>2. i[4] \in SUBSET Nat /\ AtMostOne(i[4])
  BY DEF IsFs
<1>3. Good(c)
  BY <1>1, <1>2, LimitGood DEF Kinds
<1>4. AddFs(b, i) = IF i[2] = "any" THEN [c EXCEPT !.fs = {}, !.fsAny = TRUE]
                    ELSE IF c.fsAny THEN c
                    ELSE [c EXCEPT !.fs = @ \union {<<i[2], i[3]>>}]
  BY DEF AddFs, d
<1> HIDE DEF c, d
<1>5. CASE i[2] = "any"
  <2>1. AddFs(b, i) = [c EXCEPT !.fs = {}, !.fsAny = TRUE]
    BY <1>4, <1>5
  <2>2. AddFs(b, i) \in BudgetType /\ AddFs(b, i).limits = c.limits
    BY <1>3, <2>1 DEF Good, BudgetType
  <2> QED
    BY <1>3, <2>2, SameLimits
<1>6. CASE i[2] # "any"
  <2>1. <<i[2], i[3]>> \in {"read", "write"} \X Optional(Path)
    BY <1>6 DEF IsFs
  <2> QED
    BY <1>3, <1>4, <1>6, <2>1 DEF Good, Single, BudgetType
<1> QED
  BY <1>5, <1>6

LEMMA AddNetGood ==
  ASSUME NEW b, Good(b), NEW i, IsNet(i)
  PROVE  Good(AddNet(b, i))
<1> DEFINE d == [b EXCEPT !.effects = @ \union {"net"}]
           c == Limit(d, "net", i[4])
           new == {<<h, i[3]>> : h \in i[2]}
<1>1. Good(d)
  BY DEF Good, Single, BudgetType, Effects
<1>2. i[4] \in SUBSET Nat /\ AtMostOne(i[4])
  BY DEF IsNet
<1>3. Good(c)
  BY <1>1, <1>2, LimitGood DEF Kinds
<1>4. AddNet(b, i) = IF i[2] = {} THEN [c EXCEPT !.net = {}, !.netAny = TRUE]
                     ELSE IF c.netAny THEN c
                     ELSE [c EXCEPT !.net = @ \union new]
  BY DEF AddNet, d
<1>5. new \in SUBSET (Pattern \X Optional(Port))
  BY DEF IsNet, Optional
<1> HIDE DEF c, d, new
<1>6. [c EXCEPT !.net = {}, !.netAny = TRUE] \in BudgetType
  BY <1>3 DEF Good, BudgetType
<1>7. [c EXCEPT !.net = @ \union new] \in BudgetType
  BY <1>3, <1>5 DEF Good, BudgetType
<1>8. AddNet(b, i) \in BudgetType /\ AddNet(b, i).limits = c.limits
  BY <1>3, <1>4, <1>6, <1>7 DEF Good, BudgetType
<1> QED
  BY <1>3, <1>8, SameLimits

LEMMA AddFfiGood ==
  ASSUME NEW b, Good(b), NEW i, IsFfi(i)
  PROVE  Good(AddFfi(b, i))
BY DEF IsFfi, AddFfi, Good, Single, BudgetType, Effects

LEMMA AddToolGood ==
  ASSUME NEW b, Good(b), NEW i, IsTool(i)
  PROVE  Good(AddTool(b, i))
<1> DEFINE c == [b EXCEPT !.effects = @ \union {"tool"}]
           t == CHOOSE x \in i[2] : TRUE
<1>1. Good(c)
  BY DEF Good, Single, BudgetType, Effects
<1>2. /\ i[2] \in SUBSET Tool /\ i[3] \in SUBSET Constraint
      /\ i[4] \in SUBSET Nat /\ AtMostOne(i[4])
  BY DEF IsTool, Optional
<1>3. ASSUME i[2] # {} PROVE t \in Tool
  BY <1>2, <1>3
<1>4. AddTool(b, i) =
        IF i[2] = {} THEN IF i[4] = {} THEN [c EXCEPT !.toolAny = TRUE]
                          ELSE Limit(c, Total, i[4])
        ELSE IF i[4] # {}
          THEN [Limit(c, t, i[4]) EXCEPT !.names = @ \union {t}]
        ELSE IF i[3] = {}
          THEN [c EXCEPT !.names = @ \union {t}, !.held[t] = {},
                         !.toolPlain = @ \union {t}]
        ELSE [c EXCEPT !.names = @ \union {t}, !.held[t] = @ \union i[3]]
  BY DEF AddTool
<1> HIDE DEF c, t
<1>5. CASE i[2] = {}
  <2>1. Good(Limit(c, Total, i[4]))
    BY <1>1, <1>2, LimitGood DEF Kinds
  <2>2. /\ [c EXCEPT !.toolAny = TRUE] \in BudgetType
        /\ [c EXCEPT !.toolAny = TRUE].limits = c.limits
    BY <1>1 DEF Good, BudgetType
  <2> QED
    BY <1>1, <1>4, <1>5, <2>1, <2>2, SameLimits
<1>6. CASE i[2] # {} /\ i[4] # {}
  <2>1. Good(Limit(c, t, i[4]))
    BY <1>1, <1>2, <1>3, <1>6, LimitGood DEF Kinds
  <2> QED
    BY <1>3, <1>4, <1>6, <2>1 DEF Good, Single, BudgetType
<1>7. CASE i[2] # {} /\ i[4] = {} /\ i[3] = {}
  <2>1. AddTool(b, i) = [c EXCEPT !.names = @ \union {t}, !.held[t] = {},
                                  !.toolPlain = @ \union {t}]
    BY <1>4, <1>7
  <2> DEFINE held == [c.held EXCEPT ![t] = {}]
             names == c.names \union {t}
             plain == c.toolPlain \union {t}
  <2>3. held \in [Tool -> SUBSET Constraint]
    BY <1>1, <1>3, <1>7 DEF Good, BudgetType
  <2>4. names \in SUBSET Tool /\ plain \in SUBSET Tool
    BY <1>1, <1>3, <1>7 DEF Good, BudgetType
  <2>5. AddTool(b, i) = [c EXCEPT !.names = names, !.held = held,
                                  !.toolPlain = plain]
    BY <2>1
  <2> HIDE DEF held, names, plain
  <2>2. AddTool(b, i) \in BudgetType /\ AddTool(b, i).limits = c.limits
    BY <1>1, <2>3, <2>4, <2>5 DEF Good, BudgetType
  <2> QED
    BY <1>1, <2>2, SameLimits
<1>8. CASE i[2] # {} /\ i[4] = {} /\ i[3] # {}
  <2>1. AddTool(b, i) = [c EXCEPT !.names = @ \union {t},
                                  !.held[t] = @ \union i[3]]
    BY <1>4, <1>8
  <2> DEFINE held == [c.held EXCEPT ![t] = @ \union i[3]]
             names == c.names \union {t}
  <2>3. held \in [Tool -> SUBSET Constraint]
    BY <1>1, <1>2, <1>3, <1>8 DEF Good, BudgetType
  <2>4. names \in SUBSET Tool
    BY <1>1, <1>3, <1>8 DEF Good, BudgetType
  <2>5. AddTool(b, i) = [c EXCEPT !.names = names, !.held = held]
    BY <2>1
  <2> HIDE DEF held, names
  <2>2. AddTool(b, i) \in BudgetType /\ AddTool(b, i).limits = c.limits
    BY <1>1, <2>3, <2>4, <2>5 DEF Good, BudgetType
  <2> QED
    BY <1>1, <2>2, SameLimits
<1> QED
  BY <1>5, <1>6, <1>7, <1>8

IsGrant(i) == IsFs(i) \/ IsNet(i) \/ IsFfi(i) \/ IsTool(i) \/ \E e \in Plain : i = <<e>>

LEMMA GrantGood ==
  ASSUME NEW b, Good(b), NEW i, IsGrant(i)
  PROVE  Good(Add(b, i))
<1>1. CASE IsFs(i)
  BY <1>1, AddFsGood DEF Add, IsFs
<1>2. CASE IsNet(i)
  BY <1>2, AddNetGood DEF Add, IsNet
<1>3. CASE IsFfi(i)
  BY <1>3, AddFfiGood DEF Add, IsFfi
<1>4. CASE IsTool(i)
  BY <1>4, AddToolGood DEF Add, IsTool
<1>5. ASSUME NEW e \in Plain, i = <<e>> PROVE Good(Add(b, i))
  <2>1. Add(b, i) = [b EXCEPT !.effects = @ \union {e}]
    BY <1>5 DEF Add, Plain
  <2> QED
    BY <2>1 DEF Good, Single, BudgetType, Effects
<1> QED
  BY <1>1, <1>2, <1>3, <1>4, <1>5 DEF IsGrant

LEMMA AddGood ==
  ASSUME NEW b, Good(b), NEW r \in {"ceiling", "asked"}, NEW i \in Items[r]
  PROVE  Good(Add(b, i))
BY GrantGood, ItemsAssumption DEF IsGrant

LEMMA ParsedGood ==
  ASSUME NEW b, Good(b)
  PROVE  Good(Parsed(b))
BY DEF Parsed, Good, Single, BudgetType

LEMMA DenyGood ==
  ASSUME NEW b, Good(b), NEW e \in Effects
  PROVE  Good(Deny(b, e))
BY DEF Deny, Good, Single, AtMostOne, BudgetType, Kinds

-----------------------------------------------------------------------------
(* One budget inside another.                                              *)

LEMMA FsInside ==
  ASSUME NEW c, NEW a, Good(c), Good(a), Gap(c, a) = {},
         NEW k \in {"read", "readSecret", "exists", "write"}, NEW p \in Path,
         "fs" \in a.effects, AllowPath(a, k, p),
         k = "write" \/ Credential[p] = {}
  PROVE  "fs" \in c.effects /\ AllowPath(c, k, p)
<1>1. "fs" \in c.effects
  BY DEF Gap
<1>2. c.fs # {} => /\ a.fs # {}
                   /\ \A w \in a.fs : \E g \in c.fs : FsGrantCovers(g, w)
  BY DEF Gap
<1>3. CASE c.fs = {}
  BY <1>1, <1>3 DEF AllowPath
<1>4. CASE c.fs # {}
  <2>1. PICK w \in a.fs : /\ w[1] \in Wants(k)
                          /\ \A q \in w[2] : <<q, p>> \in Within
    BY <1>2, <1>4 DEF AllowPath
  <2>2. PICK g \in c.fs : FsGrantCovers(g, w)
    BY <1>2, <1>4, <2>1
  <2>3. g[1] = w[1]
    BY <2>2 DEF FsGrantCovers
  <2>4. ASSUME NEW q \in g[2] PROVE <<q, p>> \in Within
    <3>1. PICK r \in g[2], s \in w[2] : <<r, s>> \in Within
      BY <2>2, <2>4 DEF FsGrantCovers
    <3>2. g[2] \in Optional(Path) /\ w[2] \in Optional(Path)
      BY <2>1, <2>2 DEF Good, BudgetType
    <3>3. q = r /\ r \in Path /\ s \in Path
      BY <3>1, <3>2, <2>4 DEF Optional, AtMostOne
    <3>4. <<s, p>> \in Within
      BY <2>1, <3>1
    <3> QED
      BY <3>1, <3>3, <3>4, WithinAssumption
  <2> QED
    BY <1>1, <1>4, <2>1, <2>2, <2>3, <2>4 DEF AllowPath
<1> QED
  BY <1>3, <1>4

LEMMA NetInside ==
  ASSUME NEW c, NEW a, Good(c), Good(a), Gap(c, a) = {},
         NEW h \in Host, NEW port \in Port,
         "net" \in a.effects, AllowHost(a, h, port)
  PROVE  "net" \in c.effects /\ AllowHost(c, h, port)
<1>1. "net" \in c.effects
  BY DEF Gap
<1>2. c.net # {} => /\ a.net # {}
                    /\ \A w \in a.net : \E g \in c.net : NetGrantCovers(g, w)
  BY DEF Gap
<1>3. CASE c.net = {}
  BY <1>1, <1>3 DEF AllowHost
<1>4. CASE c.net # {}
  <2>1. PICK w \in a.net : HostMatches(w[1], h) /\ w[2] \subseteq {port}
    BY <1>2, <1>4 DEF AllowHost
  <2>2. PICK g \in c.net : NetGrantCovers(g, w)
    BY <1>2, <1>4, <2>1
  <2>3. g[2] \subseteq {port}
    BY <2>1, <2>2 DEF NetGrantCovers
  <2>4. HostMatches(g[1], h)
    BY <2>1, <2>2 DEF NetGrantCovers, HostMatches
  <2> QED
    BY <1>1, <2>3, <2>4 DEF AllowHost
<1> QED
  BY <1>3, <1>4

LEMMA ModuleInside ==
  ASSUME NEW c, NEW a, Gap(c, a) = {}, NEW m,
         "ffi" \in a.effects, AllowModule(a, m)
  PROVE  "ffi" \in c.effects /\ AllowModule(c, m)
BY DEF Gap, AllowModule

LEMMA CountInside ==
  ASSUME NEW c, NEW a, Good(c), Good(a), Gap(c, a) = {},
         NEW k \in {"fs", "net"}, k \in a.effects,
         NEW n \in Nat, \A most \in a.limits[k] : ~ (n > most)
  PROVE  \A most \in c.limits[k] : n <= most
<1>1. CountCovers(c.limits[k], a.limits[k])
  BY DEF Gap
<1>2. TAKE most \in c.limits[k]
<1>3. PICK x \in c.limits[k], w \in a.limits[k] : w <= x
  BY <1>1, <1>2 DEF CountCovers
<1>4. c.limits[k] \in SUBSET Nat /\ a.limits[k] \in SUBSET Nat
  BY DEF Good, BudgetType, Kinds
<1>5. x = most
  BY <1>2, <1>3 DEF Good, Single, AtMostOne, Kinds
<1> QED
  BY <1>2, <1>3, <1>4, <1>5

\* What a budget inside another allows, the other allows: an operation on a
\* path that is no credential, on a host, on a module, or of a plain effect.
LEMMA Inside ==
  ASSUME NEW c, NEW a, Good(c), Good(a), Gap(c, a) = {},
         NEW op \in Op, op[1] # "tool", ~ OnCredential(op), Allows(a, op)
  PROVE  Allows(c, op)
<1>1. op[1] \in c.effects
  BY DEF Gap, Allows
<1>2. ASSUME NEW k \in {"read", "readSecret", "exists", "write"},
             NEW p \in Path, op = <<"fs", k, p>>
      PROVE  Allows(c, op)
  <2>1. "fs" \in a.effects /\ AllowPath(a, k, p)
    BY <1>2 DEF Allows
  <2>2. k = "write" \/ Credential[p] = {}
    BY <1>2 DEF OnCredential
  <2> QED
    BY <1>2, <2>1, <2>2, FsInside DEF Allows
<1>3. ASSUME NEW h \in Host, NEW port \in Port, op = <<"net", h, port>>
      PROVE  Allows(c, op)
  BY <1>3, NetInside DEF Allows
<1>4. ASSUME NEW m \in Module, op = <<"ffi", m>>
      PROVE  Allows(c, op)
  BY <1>4, ModuleInside DEF Allows
<1>5. ASSUME NEW e \in Plain, op = <<e>>
      PROVE  Allows(c, op)
  BY <1>1, <1>5 DEF Allows, Plain
<1> QED
  BY <1>2, <1>3, <1>4, <1>5 DEF Op

-----------------------------------------------------------------------------
Before == {"writing", "parsed", "denied"}

\* what Hold decided holds for the whole run
Held ==
  /\ stage \in Before => done = {} /\ counts = [k \in Kinds |-> 0]
  /\ stage \in {"running", "ended"} => ~broken /\ Gap(Ceiling, Asked) = {}
  /\ stage = "running" => ~ Past(Asked, counts)
  /\ \A op \in done : Allows(Asked, op)

Inv == TypeOK /\ Held

LEMMA GoodBudgets ==
  TypeOK <=> /\ budgets = [r \in {"ceiling", "asked"} |-> budgets[r]]
             /\ \A r \in {"ceiling", "asked"} : Good(budgets[r])
             /\ stage \in {"writing", "parsed", "denied", "running", "refused",
                           "ended"}
             /\ broken \in BOOLEAN
             /\ counts \in [Kinds -> Nat] /\ uses \in [Kinds -> Nat]
             /\ done \subseteq Op
BY DEF TypeOK, Good, Single

LEMMA InvInit == Init => Inv
<1> SUFFICES ASSUME Init PROVE Inv
  OBVIOUS
<1>1. TypeOK
  BY NoBudgetGood, GoodBudgets DEF Init
<1>2. ~ Past(Asked, counts) /\ Held
  BY DEF Held, Init, Before, Past, NoBudget, Asked
<1> QED
  BY <1>1, <1>2 DEF Inv

LEMMA InvStep == Inv /\ [Next]_vars => Inv'
<1> SUFFICES ASSUME Inv, [Next]_vars PROVE Inv'
  OBVIOUS
<1> USE GoodBudgets DEF Inv
<1>1. ASSUME NEW r \in {"ceiling", "asked"}, NEW i \in Items[r], Write(r, i)
      PROVE  Inv'
  <2>1. \A q \in {"ceiling", "asked"} : Good(budgets'[q])
    BY <1>1, AddGood DEF Write
  <2>2. budgets' = [q \in {"ceiling", "asked"} |-> budgets'[q]]
    BY <1>1 DEF Write
  <2>3. TypeOK'
    BY <1>1, <2>1, <2>2 DEF Write, TypeOK, Good, Single
  <2>4. Held'
    BY <1>1 DEF Write, Held, Before
  <2> QED
    BY <2>3, <2>4
<1>2. CASE ParseBoth
  <2>1. \A q \in {"ceiling", "asked"} : Good(budgets'[q])
    BY <1>2, ParsedGood DEF ParseBoth
  <2>3. TypeOK'
    BY <1>2, <2>1 DEF ParseBoth, TypeOK, Good, Single
  <2>4. Held'
    BY <1>2 DEF ParseBoth, Held, Before
  <2> QED
    BY <2>3, <2>4
<1>3. ASSUME NEW e \in Effects, DenyEffect(e) PROVE Inv'
  <2>1. \A q \in {"ceiling", "asked"} : Good(budgets'[q])
    BY <1>3, DenyGood DEF DenyEffect
  <2>3. TypeOK'
    BY <1>3, <2>1 DEF DenyEffect, TypeOK, Good, Single
  <2>4. Held'
    BY <1>3 DEF DenyEffect, Held, Before
  <2> QED
    BY <2>3, <2>4
<1>4. CASE Break
  BY <1>4 DEF Break, TypeOK, Held, Before, Past, Asked, Ceiling
<1>5. CASE Hold
  <2>1. TypeOK'
    BY <1>5 DEF Hold, TypeOK
  <2>2. \A k \in Kinds : \A most \in budgets["asked"].limits[k] :
          ~ (counts[k] > most)
    BY <1>5 DEF Hold, Held, Before, Good, BudgetType
  <2>3. Held'
    BY <1>5, <2>2 DEF Hold, Held, Before, Past, Asked, Ceiling
  <2> QED
    BY <2>1, <2>3
<1>6. ASSUME NEW op \in Op, Do(op) PROVE Inv'
  <2>1. Spent(op) \in [Kinds -> Nat] /\ Used(op) \in [Kinds -> Nat]
    BY DEF Spent, Used
  <2>2. TypeOK'
    BY <1>6, <2>1 DEF Do, TypeOK
  <2>3. Held'
    BY <1>6 DEF Do, Held, Before, Past, Asked, Ceiling
  <2> QED
    BY <2>2, <2>3
<1>7. ASSUME NEW op \in Op, Refuse(op) PROVE Inv'
  BY <1>7 DEF Refuse, TypeOK, Held, Before, Past, Asked, Ceiling
<1>8. CASE Rest \/ UNCHANGED vars
  BY <1>8 DEF Rest, vars, TypeOK, Held, Before, Past, Asked, Ceiling
<1> QED
  BY <1>1, <1>2, <1>3, <1>4, <1>5, <1>6, <1>7, <1>8 DEF Next

\* The type invariant of Budget: what parse and deny make of grants is a
\* budget, with at most one count for a kind.
THEOREM TypeCorrect == Spec => []TypeOK
<1>1. Inv => TypeOK
  BY DEF Inv
<1> QED
  BY InvInit, InvStep, <1>1, PTL DEF Spec

LEMMA InvWithin == Inv => WithinCeiling
<1> SUFFICES ASSUME Inv, stage \in {"running", "ended"}
             PROVE  WithinCeiling
  BY DEF WithinCeiling
<1> USE GoodBudgets DEF Inv
<1>1. Good(Ceiling) /\ Good(Asked) /\ Gap(Ceiling, Asked) = {} /\ ~broken
  BY DEF Held, Ceiling, Asked
<1>2. ASSUME NEW op \in done, op[1] # "tool", ~ OnCredential(op)
      PROVE  Allows(Ceiling, op)
  BY <1>1, <1>2, Inside DEF Held
<1>3. ASSUME stage = "running", NEW k \in {"fs", "net"}, k \in Asked.effects
      PROVE  \A most \in Ceiling.limits[k] : counts[k] <= most
  <2>1. \A most \in Asked.limits[k] : ~ (counts[k] > most)
    BY <1>3 DEF Held, Past, Kinds
  <2>2. counts[k] \in Nat
    BY DEF Kinds
  <2> QED
    BY <1>1, <1>3, <2>1, <2>2, CountInside
<1> QED
  BY <1>1, <1>2, <1>3 DEF WithinCeiling

\* A run held to a ceiling - an organisation's, or a door's - does nothing the
\* ceiling does not grant, nor more often, whatever paths, hosts, ports,
\* modules and grants there are: tool calls and credential files apart.
THEOREM HeldToCeiling == Spec => []WithinCeiling
BY InvInit, InvStep, InvWithin, PTL DEF Spec

\* every call of a tool is a call of a tool
Together == \A t \in Tool : counts[t] <= counts[Total]

LEMMA TogetherStep == Inv /\ Together /\ [Next]_vars => Together'
<1> SUFFICES ASSUME Inv, Together, [Next]_vars PROVE Together'
  OBVIOUS
<1>1. counts \in [Kinds -> Nat]
  BY DEF Inv, TypeOK
<1>2. ASSUME NEW op \in Op, counts' = Spent(op) PROVE Together'
  <2> SUFFICES ASSUME NEW t \in Tool PROVE counts'[t] <= counts'[Total]
    BY DEF Together
  <2>1. t \in Kinds /\ Total \in Kinds /\ counts[t] <= counts[Total]
    BY DEF Kinds, Together
  <2>2. t \in Spends(op) => Total \in Spends(op)
    BY ToolAssumption DEF Spends, Total
  <2>3. counts[t] \in Nat /\ counts[Total] \in Nat
    BY <1>1, <2>1
  <2> QED
    BY <1>2, <2>1, <2>2, <2>3 DEF Spent
<1>3. ASSUME UNCHANGED counts PROVE Together'
  BY <1>3 DEF Together
<1>4. ASSUME NEW op \in Op, Do(op)
      PROVE  counts' = Spent(op) \/ UNCHANGED counts
  BY <1>4 DEF Do
<1> QED
  BY <1>2, <1>3, <1>4 DEF Next, Write, ParseBoth, DenyEffect, Break, Hold,
                          Refuse, Rest, vars

\* A run does not do one operation more than its budget's counts, and each
\* tool's calls are counted among those of all tools.
THEOREM CountsHold == Spec => []WithinCounts
<1>1. Init => Together
  <2>1. \A t \in Tool : t \in Kinds /\ Total \in Kinds
    BY DEF Kinds
  <2>2. Init => \A t \in Tool : counts[t] = 0 /\ counts[Total] = 0
    BY <2>1 DEF Init
  <2> QED
    BY <2>2 DEF Together
<1>2. Inv /\ Together => WithinCounts
  BY DEF Inv, Held, Together, WithinCounts
<1> QED
  BY InvInit, InvStep, TogetherStep, <1>1, <1>2, PTL DEF Spec

-----------------------------------------------------------------------------
(* What a budget means.  While it is written each part of it is what the     *)
(* grants so far say, whatever order they came in: Writes.                   *)

LeastOf(L, S) == L = Smallest(S) /\ (S # {} => L # {})

FilesOf(b, F) == /\ b.fsAny <=> \E i \in F : i[2] = "any"
                 /\ b.fs = FilesMeant(F)
HostsOf(b, N) == /\ b.netAny <=> \E i \in N : i[2] = {}
                 /\ b.net = HostsMeant(N)
ModulesOf(b, M) == /\ b.ffiAny <=> <<"ffi", {}>> \in M
                   /\ b.modules = ModulesMeant(M)
ToolsOf(b, T) == /\ b.toolAny <=> <<"tool", {}, {}, {}>> \in T
                 /\ b.names = UNION {i[2] : i \in T}
                 /\ \A t \in Tool :
                      /\ t \in b.toolPlain <=> <<"tool", {t}, {}, {}>> \in T
                      /\ t \notin b.toolPlain => b.held[t] = HeldMeant(T, t)
CountsOf(b, I) == \A k \in Kinds : LeastOf(b.limits[k], CountsFor(I, k))

Writes(b, I) ==
  /\ b.effects = {i[1] : i \in I} /\ ~b.allTools
  /\ FilesOf(b, Of(I, "fs")) /\ HostsOf(b, Of(I, "net"))
  /\ ModulesOf(b, Of(I, "ffi")) /\ ToolsOf(b, Of(I, "tool"))
  /\ CountsOf(b, I)

LEMMA LeastGrows ==
  ASSUME NEW S \in SUBSET Nat, NEW L, LeastOf(L, S),
         NEW n \in SUBSET Nat, AtMostOne(n)
  PROVE  LeastOf(Least(L, n), S \union n)
<1>1. L \in SUBSET Nat /\ L \subseteq S /\ \A x \in L : \A y \in S : x <= y
  BY DEF LeastOf, Smallest
<1>2. CASE n = {}
  BY <1>2 DEF Least, LeastOf
<1>3. CASE L = {}
  <2>1. S = {} /\ S \union n = n /\ Least(L, n) = n
    BY <1>3 DEF LeastOf, Least
  <2>2. ASSUME NEW x \in n PROVE \A y \in n : x <= y
    <3>1. ASSUME NEW y \in n PROVE x <= y
      <4>1. x = y /\ x \in Nat
        BY DEF AtMostOne
      <4> QED
        BY <4>1
    <3> QED
      BY <3>1
  <2>3. Smallest(n) = n
    BY <2>2 DEF Smallest
  <2> QED
    BY <2>1, <2>3 DEF LeastOf
<1>4. CASE n # {} /\ L # {}
  <2>1. PICK x \in L, y \in n : TRUE
    BY <1>4
  <2>0. \A z \in L : z = x
    BY <1>1, <2>1, x <= x
  <2>2. L = {x} /\ n = {y} /\ x \in Nat /\ y \in Nat
    BY <1>1, <2>1, <2>0 DEF AtMostOne
  <2>3. PICK z \in L \union n : z = (CHOOSE v \in L \union n :
                                       \A w \in L \union n : v <= w)
                               /\ \A w \in L \union n : z <= w
    BY <2>2, \E v \in {x, y} : \A w \in {x, y} : v <= w
  <2>4. Least(L, n) = {z}
    BY <1>4, <2>3 DEF Least
  <2>5. z \in S \union n /\ \A w \in S \union n : z <= w
    BY <1>1, <2>2, <2>3
  <2>6. Smallest(S \union n) = {z}
    <3>1. z \in Smallest(S \union n)
      BY <2>5 DEF Smallest
    <3>2. ASSUME NEW w \in Smallest(S \union n) PROVE w = z
      <4>1. w <= z /\ z <= w /\ w \in Nat /\ z \in Nat
        BY <2>5, <3>2 DEF Smallest
      <4> QED
        BY <4>1
    <3> QED
      BY <3>1, <3>2
  <2> QED
    BY <2>4, <2>6 DEF LeastOf
<1> QED
  BY <1>2, <1>3, <1>4

\* the counts of a budget to which a grant is added
Counted(i, k) == IF k \in {"fs", "net"} THEN i[1] = k
                 ELSE i[1] = "tool" /\ i[2] = (IF k = Total THEN {} ELSE {k})

LEMMA CountsGrow ==
  ASSUME NEW I, NEW i, NEW k
  PROVE  /\ Counted(i, k) =>
              CountsFor(I \union {i}, k) = CountsFor(I, k) \union i[4]
         /\ ~ Counted(i, k) => CountsFor(I \union {i}, k) = CountsFor(I, k)
BY DEF CountsFor, Of, Counted

\* the parts of a record: a limit changes the limits only
LEMMA LimitParts ==
  ASSUME NEW d, Good(d), NEW k \in Kinds, NEW n \in SUBSET Nat, AtMostOne(n),
         NEW c, c = Limit(d, k, n)
  PROVE  /\ Good(c)
         /\ c.effects = d.effects
         /\ c.fs = d.fs /\ (c.fsAny <=> d.fsAny)
         /\ c.net = d.net /\ (c.netAny <=> d.netAny)
         /\ c.modules = d.modules /\ (c.ffiAny <=> d.ffiAny)
         /\ c.names = d.names /\ c.held = d.held /\ c.toolPlain = d.toolPlain
         /\ (c.toolAny <=> d.toolAny) /\ (c.allTools <=> d.allTools)
<1>1. Good(c) /\ c = [d EXCEPT !.limits = c.limits]
  BY LimitGood
<1> QED
  BY <1>1 DEF Good, BudgetType

LEMMA WritesNothing == Writes(NoBudget, {})
<1>1. \A e : Of({}, e) = {}
  BY DEF Of
<1>2. \A k : CountsFor({}, k) = {}
  BY <1>1 DEF CountsFor
<1>3. CountsOf(NoBudget, {})
  BY <1>2 DEF CountsOf, LeastOf, Smallest, NoBudget
<1>4. FilesOf(NoBudget, {}) /\ HostsOf(NoBudget, {}) /\ ModulesOf(NoBudget, {})
  BY DEF FilesOf, HostsOf, ModulesOf, NoBudget, FilesMeant, HostsMeant, ModulesMeant
<1>5. ToolsOf(NoBudget, {})
  BY DEF ToolsOf, NoBudget, HeldMeant
<1>6. NoBudget.effects = {i[1] : i \in {}} /\ ~NoBudget.allTools
  BY DEF NoBudget
<1> QED
  BY <1>1, <1>3, <1>4, <1>5, <1>6 DEF Writes

\* one count more, and nothing else
LEMMA LimitWrites ==
  ASSUME NEW b, Good(b), NEW I, CountsOf(b, I),
         NEW i, NEW k \in Kinds, i[4] \in SUBSET Nat, AtMostOne(i[4]),
         \A q \in Kinds : CountsFor(I, q) \in SUBSET Nat,
         \A q \in Kinds : CountsFor(I \union {i}, q) =
            CountsFor(I, q) \union IF q = k THEN i[4] ELSE {}
  PROVE  CountsOf(Limit(b, k, i[4]), I \union {i})
<1> DEFINE n == i[4]
           L == Least(b.limits[k], n)
<1>1. Limit(b, k, n) = [b EXCEPT !.limits = [b.limits EXCEPT ![k] = L]]
  BY DEF Limit, Good, BudgetType
<1>2. LeastOf(L, CountsFor(I \union {i}, k))
  <2>1. LeastOf(b.limits[k], CountsFor(I, k)) /\ CountsFor(I, k) \in SUBSET Nat
    BY DEF CountsOf
  <2>2. LeastOf(L, CountsFor(I, k) \union n)
    BY <2>1, LeastGrows
  <2>3. CountsFor(I \union {i}, k) = CountsFor(I, k) \union n
    OBVIOUS
  <2> QED
    BY <2>2, <2>3
<1> HIDE DEF L
<1>3. ASSUME NEW q \in Kinds, q # k
      PROVE  LeastOf(Limit(b, k, n).limits[q], CountsFor(I \union {i}, q))
  BY <1>1, <1>3 DEF CountsOf, Good, BudgetType
<1>4. Limit(b, k, n).limits[k] = L
  BY <1>1 DEF Good, BudgetType
<1> QED
  BY <1>2, <1>3, <1>4 DEF CountsOf

\* no count more
LEMMA SameCounts ==
  ASSUME NEW b, NEW c, c.limits = b.limits, NEW I, CountsOf(b, I), NEW i,
         \A q \in Kinds : CountsFor(I \union {i}, q) = CountsFor(I, q)
  PROVE  CountsOf(c, I \union {i})
BY DEF CountsOf

LEMMA GrantKinds ==
  ASSUME NEW i, IsGrant(i)
  PROVE  /\ i[1] \in Effects
         /\ i[1] = "fs" <=> IsFs(i)
         /\ i[1] = "net" <=> IsNet(i)
         /\ i[1] = "ffi" <=> IsFfi(i)
         /\ i[1] = "tool" <=> IsTool(i)
BY DEF IsGrant, IsFs, IsNet, IsFfi, IsTool, Plain, Effects

LEMMA CountsAreNat ==
  ASSUME NEW I, \A i \in I : IsGrant(i), NEW k \in Kinds
  PROVE  CountsFor(I, k) \in SUBSET Nat
<1>1. \A i \in I : i[1] \in {"fs", "net", "tool"} => i[4] \in SUBSET Nat
  BY GrantKinds DEF IsFs, IsNet, IsTool
<1> QED
  BY <1>1 DEF CountsFor, Of

LEMMA AddFsWrites ==
  ASSUME NEW b, Good(b), NEW I, \A j \in I : IsGrant(j), Writes(b, I),
         NEW i, IsFs(i)
  PROVE  Writes(AddFs(b, i), I \union {i})
<1> DEFINE d == [b EXCEPT !.effects = @ \union {"fs"}]
           c == Limit(d, "fs", i[4])
           J == I \union {i}
           F == Of(I, "fs")
<1>1. Good(d) /\ CountsOf(d, I)
  BY DEF Good, Single, BudgetType, Effects, CountsOf, Writes
<1>2. i[1] = "fs" /\ i[4] \in SUBSET Nat /\ AtMostOne(i[4])
  BY DEF IsFs
<1> HIDE DEF d
<1>3. \A k \in Kinds : CountsFor(J, k)
                        = CountsFor(I, k) \union IF k = "fs" THEN i[4] ELSE {}
  <2> TAKE k \in Kinds
  <2>1. "fs" # "net" /\ "fs" # "tool" /\ "net" # "tool"
    OBVIOUS
  <2>2. CASE k = "fs"
    BY <1>2, <2>1, <2>2, CountsGrow, ZenonT(40) DEF Counted
  <2>3. CASE k # "fs"
    <3>1. ~ Counted(i, k)
      BY <1>2, <2>1, <2>3 DEF Counted
    <3>2. CountsFor(J, k) = CountsFor(I, k)
      BY <3>1, CountsGrow
    <3> QED
      BY <2>3, <3>2
  <2> QED
    BY <2>2, <2>3
<1>4. CountsOf(c, J)
  BY <1>1, <1>2, <1>3, CountsAreNat, LimitWrites DEF Kinds
<1>5. /\ Good(c) /\ c.effects = d.effects
      /\ c.fs = d.fs /\ (c.fsAny <=> d.fsAny)
      /\ c.net = d.net /\ (c.netAny <=> d.netAny)
      /\ c.modules = d.modules /\ (c.ffiAny <=> d.ffiAny)
      /\ c.names = d.names /\ c.held = d.held /\ c.toolPlain = d.toolPlain
      /\ (c.toolAny <=> d.toolAny) /\ (c.allTools <=> d.allTools)
  BY <1>1, <1>2, LimitParts DEF Kinds
<1>6. AddFs(b, i) = IF i[2] = "any" THEN [c EXCEPT !.fs = {}, !.fsAny = TRUE]
                    ELSE IF c.fsAny THEN c
                    ELSE [c EXCEPT !.fs = @ \union {<<i[2], i[3]>>}]
  BY DEF AddFs, d
<1> DEFINE a == AddFs(b, i)
<1> HIDE DEF c
<1>16. /\ d.effects = b.effects \union {"fs"}
       /\ d.fs = b.fs /\ (d.fsAny <=> b.fsAny)
       /\ d.net = b.net /\ (d.netAny <=> b.netAny)
       /\ d.modules = b.modules /\ (d.ffiAny <=> b.ffiAny)
       /\ d.names = b.names /\ d.held = b.held /\ d.toolPlain = b.toolPlain
       /\ (d.toolAny <=> b.toolAny) /\ (d.allTools <=> b.allTools)
  BY DEF d, Good, BudgetType
<1>7. /\ Of(J, "fs") = F \union {i} /\ Of(J, "net") = Of(I, "net")
      /\ Of(J, "ffi") = Of(I, "ffi") /\ Of(J, "tool") = Of(I, "tool")
  BY <1>2 DEF Of
<1>8. /\ a.limits = c.limits /\ a.effects = b.effects \union {"fs"}
      /\ a.net = b.net /\ (a.netAny <=> b.netAny)
      /\ a.modules = b.modules /\ (a.ffiAny <=> b.ffiAny)
      /\ a.names = b.names /\ a.held = b.held /\ a.toolPlain = b.toolPlain
      /\ (a.toolAny <=> b.toolAny) /\ (a.allTools <=> b.allTools)
  BY <1>5, <1>6, <1>16 DEF Good, BudgetType
<1>9. /\ a.fsAny <=> i[2] = "any" \/ b.fsAny
      /\ a.fs = IF i[2] = "any" THEN {} ELSE IF b.fsAny THEN b.fs
                ELSE b.fs \union {<<i[2], i[3]>>}
  BY <1>5, <1>6, <1>16 DEF Good, BudgetType
<1> HIDE DEF a
<1>10. FilesOf(a, F \union {i})
  BY <1>9 DEF FilesOf, FilesMeant, Writes
<1>11. HostsOf(a, Of(I, "net")) /\ ModulesOf(a, Of(I, "ffi"))
  BY <1>8 DEF HostsOf, ModulesOf, Writes
<1>12. ToolsOf(a, Of(I, "tool"))
  BY <1>8 DEF ToolsOf, Writes
<1>13. CountsOf(a, J)
  BY <1>4, <1>8 DEF CountsOf
<1>14. a.effects = {j[1] : j \in J} /\ ~a.allTools
  BY <1>2, <1>8 DEF Writes
<1>15. Writes(a, J)
  BY <1>7, <1>10, <1>11, <1>12, <1>13, <1>14 DEF Writes
<1> QED
  BY <1>15 DEF a

LEMMA AddNetWrites ==
  ASSUME NEW b, Good(b), NEW I, \A j \in I : IsGrant(j), Writes(b, I),
         NEW i, IsNet(i)
  PROVE  Writes(AddNet(b, i), I \union {i})
<1> DEFINE d == [b EXCEPT !.effects = @ \union {"net"}]
           c == Limit(d, "net", i[4])
           J == I \union {i}
           N == Of(I, "net")
           new == {<<h, i[3]>> : h \in i[2]}
<1>1. Good(d) /\ CountsOf(d, I)
  BY DEF Good, Single, BudgetType, Effects, CountsOf, Writes
<1>2. i[1] = "net" /\ i[4] \in SUBSET Nat /\ AtMostOne(i[4])
  BY DEF IsNet
<1> HIDE DEF d
<1>3. \A k \in Kinds : CountsFor(J, k)
                        = CountsFor(I, k) \union IF k = "net" THEN i[4] ELSE {}
  <2> TAKE k \in Kinds
  <2>1. "fs" # "net" /\ "fs" # "tool" /\ "net" # "tool"
    OBVIOUS
  <2>2. CASE k = "net"
    BY <1>2, <2>1, <2>2, CountsGrow, ZenonT(40) DEF Counted
  <2>3. CASE k # "net"
    <3>1. ~ Counted(i, k)
      BY <1>2, <2>1, <2>3 DEF Counted
    <3>2. CountsFor(J, k) = CountsFor(I, k)
      BY <3>1, CountsGrow
    <3> QED
      BY <2>3, <3>2
  <2> QED
    BY <2>2, <2>3
<1>4. CountsOf(c, J)
  BY <1>1, <1>2, <1>3, CountsAreNat, LimitWrites DEF Kinds
<1>5. /\ Good(c) /\ c.effects = d.effects
      /\ c.fs = d.fs /\ (c.fsAny <=> d.fsAny)
      /\ c.net = d.net /\ (c.netAny <=> d.netAny)
      /\ c.modules = d.modules /\ (c.ffiAny <=> d.ffiAny)
      /\ c.names = d.names /\ c.held = d.held /\ c.toolPlain = d.toolPlain
      /\ (c.toolAny <=> d.toolAny) /\ (c.allTools <=> d.allTools)
  BY <1>1, <1>2, LimitParts DEF Kinds
<1>6. AddNet(b, i) = IF i[2] = {} THEN [c EXCEPT !.net = {}, !.netAny = TRUE]
                     ELSE IF c.netAny THEN c
                     ELSE [c EXCEPT !.net = @ \union new]
  BY DEF AddNet, d
<1>0. new = i[2] \X {i[3]}
  OBVIOUS
<1> DEFINE a == AddNet(b, i)
<1> HIDE DEF c, new
<1>16. /\ d.effects = b.effects \union {"net"}
       /\ d.fs = b.fs /\ (d.fsAny <=> b.fsAny)
       /\ d.net = b.net /\ (d.netAny <=> b.netAny)
       /\ d.modules = b.modules /\ (d.ffiAny <=> b.ffiAny)
       /\ d.names = b.names /\ d.held = b.held /\ d.toolPlain = b.toolPlain
       /\ (d.toolAny <=> b.toolAny) /\ (d.allTools <=> b.allTools)
  BY DEF d, Good, BudgetType
<1>7. /\ Of(J, "net") = N \union {i} /\ Of(J, "fs") = Of(I, "fs")
      /\ Of(J, "ffi") = Of(I, "ffi") /\ Of(J, "tool") = Of(I, "tool")
  BY <1>2 DEF Of
<1>8. /\ a.limits = c.limits /\ a.effects = b.effects \union {"net"}
      /\ a.fs = b.fs /\ (a.fsAny <=> b.fsAny)
      /\ a.modules = b.modules /\ (a.ffiAny <=> b.ffiAny)
      /\ a.names = b.names /\ a.held = b.held /\ a.toolPlain = b.toolPlain
      /\ (a.toolAny <=> b.toolAny) /\ (a.allTools <=> b.allTools)
  BY <1>5, <1>6, <1>16 DEF Good, BudgetType
<1>9. /\ a.netAny <=> i[2] = {} \/ b.netAny
      /\ a.net = IF i[2] = {} THEN {} ELSE IF b.netAny THEN b.net
                 ELSE b.net \union new
  BY <1>5, <1>6, <1>16 DEF Good, BudgetType
<1> HIDE DEF a
<1>10. HostsOf(a, N \union {i})
  <2> DEFINE R(j) == j[2] \X {j[3]}
  <2>1. new = R(i)
    BY <1>0
  <2>2. \A M : HostsMeant(M) = IF \E j \in M : j[2] = {} THEN {}
                                ELSE UNION {R(j) : j \in M}
    BY DEF HostsMeant
  <2>3. (b.netAny <=> \E j \in N : j[2] = {}) /\ b.net = HostsMeant(N)
    BY DEF Writes, HostsOf
  <2> HIDE DEF R
  <2> DEFINE A == {R(j) : j \in N}
             U == UNION A
             V == UNION {R(j) : j \in N \union {i}}
  <2>4. V = U \union R(i)
    <3>1. {R(j) : j \in N \union {i}} = A \union {R(i)}
      OBVIOUS
    <3>2. V = UNION (A \union {R(i)})
      BY <3>1
    <3> HIDE DEF A, V
    <3>3. UNION (A \union {R(i)}) = (UNION A) \union R(i)
      OBVIOUS
    <3> QED
      BY <3>2, <3>3
  <2>5. HostsMeant(N) = IF \E j \in N : j[2] = {} THEN {} ELSE U
    BY <2>2
  <2>6. HostsMeant(N \union {i})
          = IF (\E j \in N : j[2] = {}) \/ i[2] = {} THEN {} ELSE V
    BY <2>2
  <2> HIDE DEF U, V
  <2>7. a.net = HostsMeant(N \union {i})
    BY <1>9, <2>1, <2>3, <2>4, <2>5, <2>6
  <2>8. a.netAny <=> \E j \in N \union {i} : j[2] = {}
    BY <1>9, <2>3
  <2> QED
    BY <2>7, <2>8 DEF HostsOf
<1>11. FilesOf(a, Of(I, "fs")) /\ ModulesOf(a, Of(I, "ffi"))
  BY <1>8 DEF FilesOf, ModulesOf, Writes
<1>12. ToolsOf(a, Of(I, "tool"))
  BY <1>8 DEF ToolsOf, Writes
<1>13. CountsOf(a, J)
  BY <1>4, <1>8 DEF CountsOf
<1>14. a.effects = {j[1] : j \in J} /\ ~a.allTools
  BY <1>2, <1>8 DEF Writes
<1>15. Writes(a, J)
  BY <1>7, <1>10, <1>11, <1>12, <1>13, <1>14 DEF Writes
<1> QED
  BY <1>15 DEF a

\* what the grants name, when there is one more
LEMMA SecondsGrow ==
  ASSUME NEW T, NEW i
  PROVE  UNION {j[2] : j \in T \union {i}} = (UNION {j[2] : j \in T}) \union i[2]
<1> DEFINE A == {j[2] : j \in T}
           B == i[2]
           V == {j[2] : j \in T \union {i}}
<1> SUFFICES UNION V = (UNION A) \union B
  OBVIOUS
<1>1. V = A \union {B}
  OBVIOUS
<1> HIDE DEF A, B, V
<1>2. UNION V = UNION (A \union {B})
  BY <1>1
<1>3. UNION (A \union {B}) = (UNION A) \union B
  OBVIOUS
<1> QED
  BY <1>2, <1>3

LEMMA AddFfiWrites ==
  ASSUME NEW b, Good(b), NEW I, \A j \in I : IsGrant(j), Writes(b, I),
         NEW i, IsFfi(i)
  PROVE  Writes(AddFfi(b, i), I \union {i})
<1> DEFINE J == I \union {i}
           M == Of(I, "ffi")
           a == AddFfi(b, i)
<1>1. i[1] = "ffi" /\ i = <<"ffi", i[2]>>
  BY DEF IsFfi
<1>2. /\ Of(J, "ffi") = M \union {i} /\ Of(J, "fs") = Of(I, "fs")
      /\ Of(J, "net") = Of(I, "net") /\ Of(J, "tool") = Of(I, "tool")
  BY <1>1 DEF Of
<1>3. /\ a.limits = b.limits /\ a.effects = b.effects \union {"ffi"}
      /\ a.fs = b.fs /\ (a.fsAny <=> b.fsAny)
      /\ a.net = b.net /\ (a.netAny <=> b.netAny)
      /\ a.names = b.names /\ a.held = b.held /\ a.toolPlain = b.toolPlain
      /\ (a.toolAny <=> b.toolAny) /\ (a.allTools <=> b.allTools)
  BY DEF AddFfi, Good, BudgetType
<1>4. /\ a.ffiAny <=> i[2] = {} \/ b.ffiAny
      /\ a.modules = IF i[2] = {} THEN {} ELSE IF b.ffiAny THEN b.modules
                     ELSE b.modules \union i[2]
  BY DEF AddFfi, Good, BudgetType
<1> HIDE DEF a
<1>5. ModulesOf(a, M \union {i})
  <2>1. <<"ffi", {}>> \in M \union {i} <=> <<"ffi", {}>> \in M \/ i[2] = {}
    BY <1>1
  <2>2. UNION {j[2] : j \in M \union {i}} = (UNION {j[2] : j \in M}) \union i[2]
    BY SecondsGrow
  <2> QED
    BY <1>4, <2>1, <2>2 DEF ModulesOf, ModulesMeant, Writes
<1>6. FilesOf(a, Of(I, "fs")) /\ HostsOf(a, Of(I, "net"))
  BY <1>3 DEF FilesOf, HostsOf, Writes
<1>7. ToolsOf(a, Of(I, "tool"))
  BY <1>3 DEF ToolsOf, Writes
<1>8. \A k \in Kinds : CountsFor(J, k) = CountsFor(I, k)
  <2> TAKE k \in Kinds
  <2>1. k \in {"fs", "net"} => Of(J, k) = Of(I, k)
    BY <1>2
  <2> QED
    BY <1>2, <2>1 DEF CountsFor
<1>9. CountsOf(a, J)
  BY <1>3, <1>8, SameCounts DEF Writes
<1>10. a.effects = {j[1] : j \in J} /\ ~a.allTools
  BY <1>1, <1>3 DEF Writes
<1>11. Writes(a, J)
  BY <1>2, <1>5, <1>6, <1>7, <1>9, <1>10 DEF Writes
<1> QED
  BY <1>11 DEF a

LEMMA AddPlainWrites ==
  ASSUME NEW b, Good(b), NEW I, \A j \in I : IsGrant(j), Writes(b, I),
         NEW e \in Plain
  PROVE  Writes([b EXCEPT !.effects = @ \union {e}], I \union {<<e>>})
<1> DEFINE i == <<e>>
           J == I \union {i}
           a == [b EXCEPT !.effects = @ \union {e}]
<1>1. i[1] = e /\ e \notin {"fs", "net", "ffi", "tool"}
  BY DEF Plain
<1>2. a = [b EXCEPT !.effects = b.effects \union {i[1]}]
  OBVIOUS
<1> HIDE DEF i
<1>3. /\ a.effects = b.effects \union {i[1]} /\ a.limits = b.limits
      /\ a.fs = b.fs /\ (a.fsAny <=> b.fsAny)
      /\ a.net = b.net /\ (a.netAny <=> b.netAny)
      /\ a.modules = b.modules /\ (a.ffiAny <=> b.ffiAny)
      /\ a.names = b.names /\ a.held = b.held /\ a.toolPlain = b.toolPlain
      /\ (a.toolAny <=> b.toolAny) /\ (a.allTools <=> b.allTools)
  BY <1>2 DEF Good, BudgetType
<1> HIDE DEF a
<1>4. \A f \in {"fs", "net", "ffi", "tool"} : Of(J, f) = Of(I, f)
  BY <1>1 DEF Of
<1>5. \A k \in Kinds : CountsFor(J, k) = CountsFor(I, k)
  <2> TAKE k \in Kinds
  <2>1. k \in {"fs", "net"} => Of(J, k) = Of(I, k)
    BY <1>4
  <2> QED
    BY <1>4, <2>1 DEF CountsFor
<1>6. CountsOf(a, J)
  BY <1>3, <1>5, SameCounts DEF Writes
<1>7. /\ FilesOf(a, Of(I, "fs")) /\ HostsOf(a, Of(I, "net"))
      /\ ModulesOf(a, Of(I, "ffi")) /\ ToolsOf(a, Of(I, "tool"))
  BY <1>3 DEF FilesOf, HostsOf, ModulesOf, ToolsOf, Writes
<1>8. a.effects = {j[1] : j \in J} /\ ~a.allTools
  BY <1>3 DEF Writes
<1>9. Writes(a, J)
  BY <1>4, <1>6, <1>7, <1>8 DEF Writes
<1> QED
  BY <1>9 DEF a, i

LEMMA HeldGrows ==
  ASSUME NEW T, NEW i, NEW t
  PROVE  HeldMeant(T \union {i}, t)
           = HeldMeant(T, t) \union IF i[2] = {t} THEN i[3] ELSE {}
BY DEF HeldMeant

\* the four things a grant of tools says
LEMMA ToolsGrow ==
  ASSUME NEW T, NEW i, NEW b, NEW a, ToolsOf(b, T),
         a.toolAny <=> b.toolAny \/ i = <<"tool", {}, {}, {}>>,
         a.names = b.names \union i[2],
         \A t \in Tool : t \in a.toolPlain
                           <=> t \in b.toolPlain \/ i = <<"tool", {t}, {}, {}>>,
         \A t \in Tool : t \notin a.toolPlain =>
           a.held[t] = b.held[t] \union IF i[2] = {t} THEN i[3] ELSE {}
  PROVE  ToolsOf(a, T \union {i})
<1>1. a.toolAny <=> <<"tool", {}, {}, {}>> \in T \union {i}
  BY DEF ToolsOf
<1>2. a.names = UNION {j[2] : j \in T \union {i}}
  <2>1. UNION {j[2] : j \in T \union {i}} = (UNION {j[2] : j \in T}) \union i[2]
    BY SecondsGrow
  <2> QED
    BY <2>1 DEF ToolsOf
<1>3. ASSUME NEW t \in Tool
      PROVE  t \in a.toolPlain <=> <<"tool", {t}, {}, {}>> \in T \union {i}
  BY DEF ToolsOf
<1>4. ASSUME NEW t \in Tool, t \notin a.toolPlain
      PROVE  a.held[t] = HeldMeant(T \union {i}, t)
  <2>1. t \notin b.toolPlain
    BY <1>4
  <2>2. b.held[t] = HeldMeant(T, t)
    BY <2>1 DEF ToolsOf
  <2>3. a.held[t] = HeldMeant(T, t) \union IF i[2] = {t} THEN i[3] ELSE {}
    BY <1>4, <2>2
  <2> DEFINE h == HeldMeant(T \union {i}, t)
             g == HeldMeant(T, t)
  <2>4. h = g \union IF i[2] = {t} THEN i[3] ELSE {}
    BY HeldGrows
  <2> HIDE DEF h, g
  <2> QED
    BY <2>3, <2>4 DEF g, h
<1> QED
  BY <1>1, <1>2, <1>3, <1>4 DEF ToolsOf

LEMMA AddToolWrites ==
  ASSUME NEW b, Good(b), NEW I, \A j \in I : IsGrant(j), Writes(b, I),
         NEW i, IsTool(i)
  PROVE  Writes(AddTool(b, i), I \union {i})
<1> DEFINE c == [b EXCEPT !.effects = @ \union {"tool"}]
           t == CHOOSE x \in i[2] : TRUE
           J == I \union {i}
           T == Of(I, "tool")
           a == AddTool(b, i)
<1> SUFFICES Writes(a, J)
  OBVIOUS
<1>1. /\ i = <<"tool", i[2], i[3], i[4]>> /\ i[1] = "tool"
      /\ i[2] \in SUBSET Tool /\ AtMostOne(i[2]) /\ i[3] \in SUBSET Constraint
      /\ i[4] \in SUBSET Nat /\ AtMostOne(i[4])
      /\ i[3] # {} => i[2] # {} /\ i[4] = {}
  BY DEF IsTool, Optional
<1>2. i[2] # {} => t \in Tool /\ i[2] = {t}
  BY <1>1 DEF AtMostOne
<1>3. a =
        IF i[2] = {} THEN IF i[4] = {} THEN [c EXCEPT !.toolAny = TRUE]
                          ELSE Limit(c, Total, i[4])
        ELSE IF i[4] # {}
          THEN [Limit(c, t, i[4]) EXCEPT !.names = @ \union {t}]
        ELSE IF i[3] = {}
          THEN [c EXCEPT !.names = @ \union {t}, !.held[t] = {},
                         !.toolPlain = @ \union {t}]
        ELSE [c EXCEPT !.names = @ \union {t}, !.held[t] = @ \union i[3]]
  BY DEF AddTool
<1>4. Good(c) /\ CountsOf(c, I)
  BY DEF Good, Single, BudgetType, Effects, CountsOf, Writes
<1>5. /\ c.effects = b.effects \union {"tool"}
      /\ c.fs = b.fs /\ (c.fsAny <=> b.fsAny)
      /\ c.net = b.net /\ (c.netAny <=> b.netAny)
      /\ c.modules = b.modules /\ (c.ffiAny <=> b.ffiAny)
      /\ c.names = b.names /\ c.held = b.held /\ c.toolPlain = b.toolPlain
      /\ (c.toolAny <=> b.toolAny) /\ (c.allTools <=> b.allTools)
  BY DEF Good, BudgetType
<1> HIDE DEF a, c, t
<1>6. /\ Of(J, "tool") = T \union {i} /\ Of(J, "fs") = Of(I, "fs")
      /\ Of(J, "net") = Of(I, "net") /\ Of(J, "ffi") = Of(I, "ffi")
  BY <1>1 DEF Of
\* whatever the grant, what is not of tools is as it was
<1>7. ASSUME a.effects = c.effects, a.fs = c.fs, a.fsAny <=> c.fsAny,
             a.net = c.net, a.netAny <=> c.netAny, a.modules = c.modules,
             a.ffiAny <=> c.ffiAny, a.allTools <=> c.allTools,
             CountsOf(a, J), ToolsOf(a, T \union {i})
      PROVE  Writes(a, J)
  <2>1. FilesOf(a, Of(J, "fs"))
    BY <1>5, <1>6, <1>7 DEF Writes, FilesOf
  <2>2. HostsOf(a, Of(J, "net")) /\ ModulesOf(a, Of(J, "ffi"))
    BY <1>5, <1>6, <1>7 DEF Writes, HostsOf, ModulesOf
  <2>3. ToolsOf(a, Of(J, "tool"))
    BY <1>6, <1>7
  <2>4. a.effects = {j[1] : j \in J} /\ ~a.allTools
    BY <1>1, <1>5, <1>7 DEF Writes
  <2> QED
    BY <1>7, <2>1, <2>2, <2>3, <2>4 DEF Writes
<1>8. ToolsOf(b, T) /\ Total \notin Tool /\ Total \notin {"fs", "net"}
      /\ \A k \in Tool : k \in Kinds /\ k \notin {"fs", "net"}
  BY ToolAssumption DEF Writes, Total, Kinds
\* a count is of all tools, or of the tool named
<1>9. ASSUME NEW k \in Kinds, k = IF i[2] = {} THEN Total ELSE t
      PROVE  CountsOf(Limit(c, k, i[4]), J)
  <2>1. \A q \in Kinds : CountsFor(J, q)
                         = CountsFor(I, q) \union IF q = k THEN i[4] ELSE {}
    <3> TAKE q \in Kinds
    <3>1. "tool" \notin {"fs", "net"}
      OBVIOUS
    <3>2. q \notin {"fs", "net"} => (i[2] = (IF q = Total THEN {} ELSE {q}) <=> q = k)
      BY <1>2, <1>8, <1>9
    <3>3. k \notin {"fs", "net"}
      BY <1>2, <1>8, <1>9
    <3>4. CASE q = k
      <4>1. Counted(i, q)
        BY <1>1, <3>2, <3>3, <3>4 DEF Counted
      <4>2. CountsFor(J, q) = CountsFor(I, q) \union i[4]
        BY <4>1, CountsGrow
      <4> QED
        BY <3>4, <4>2
    <3>5. CASE q # k /\ q \in {"fs", "net"}
      BY <1>1, <3>1, <3>5, CountsGrow, ZenonT(40) DEF Counted
    <3>6. CASE q # k /\ q \notin {"fs", "net"}
      BY <1>1, <3>2, <3>6, CountsGrow DEF Counted
    <3> QED
      BY <3>4, <3>5, <3>6
  <2> QED
    BY <1>1, <1>4, <2>1, CountsAreNat, LimitWrites
<1>10. ASSUME i[4] = {} PROVE \A q \in Kinds : CountsFor(J, q) = CountsFor(I, q)
  <2> TAKE q \in Kinds
  <2>1. CountsFor(J, q) = CountsFor(I, q) \union i[4] \/ CountsFor(J, q) = CountsFor(I, q)
    BY CountsGrow
  <2> QED
    BY <1>10, <2>1
<1>11. CASE i[2] = {} /\ i[4] = {}
  <2>1. a = [c EXCEPT !.toolAny = TRUE]
    BY <1>3, <1>11
  <2>2. /\ a.effects = c.effects /\ a.fs = c.fs /\ (a.fsAny <=> c.fsAny)
        /\ a.net = c.net /\ (a.netAny <=> c.netAny) /\ a.modules = c.modules
        /\ (a.ffiAny <=> c.ffiAny) /\ (a.allTools <=> c.allTools)
        /\ a.limits = c.limits /\ a.names = c.names /\ a.held = c.held
        /\ a.toolPlain = c.toolPlain /\ a.toolAny
    BY <1>4, <2>1 DEF Good, BudgetType
  <2>3. CountsOf(a, J)
    BY <1>4, <1>10, <1>11, <2>2, SameCounts
  <2>4. i = <<"tool", {}, {}, {}>>
    BY <1>1, <1>11
  <2>5. \A u \in Tool : i # <<"tool", {u}, {}, {}>> /\ i[2] # {u}
    BY <1>11, <2>4
  <2>6. \A u \in Tool : u \notin a.toolPlain =>
           a.held[u] = b.held[u] \union IF i[2] = {u} THEN i[3] ELSE {}
    BY <1>5, <2>2, <2>5
  <2>7. ToolsOf(a, T \union {i})
    <3>1. a.toolAny <=> b.toolAny \/ i = <<"tool", {}, {}, {}>>
      BY <1>5, <2>2, <2>4
    <3>2. a.names = b.names \union i[2]
      BY <1>5, <1>11, <2>2
    <3>3. \A u \in Tool : u \in a.toolPlain
                          <=> u \in b.toolPlain \/ i = <<"tool", {u}, {}, {}>>
      BY <1>5, <2>2, <2>5
    <3> QED
      BY <1>8, <2>6, <3>1, <3>2, <3>3, ToolsGrow
  <2> QED
    BY <1>7, <2>2, <2>3, <2>7
<1>12. CASE i[2] = {} /\ i[4] # {}
  <2>1. a = Limit(c, Total, i[4])
    BY <1>3, <1>12
  <2>2. /\ a.effects = c.effects /\ a.fs = c.fs /\ (a.fsAny <=> c.fsAny)
        /\ a.net = c.net /\ (a.netAny <=> c.netAny) /\ a.modules = c.modules
        /\ (a.ffiAny <=> c.ffiAny) /\ (a.allTools <=> c.allTools)
        /\ a.names = c.names /\ a.held = c.held
        /\ a.toolPlain = c.toolPlain /\ (a.toolAny <=> c.toolAny)
    <3>1. Total \in Kinds
      BY DEF Kinds
    <3> QED
      BY <1>1, <1>4, <2>1, <3>1, LimitParts
  <2>3. CountsOf(a, J)
    BY <1>9, <1>12, <2>1 DEF Kinds
  <2>4. i # <<"tool", {}, {}, {}>>
    BY <1>12
  <2>5. \A u \in Tool : i # <<"tool", {u}, {}, {}>> /\ i[2] # {u}
    BY <1>12
  <2>6. \A u \in Tool : u \notin a.toolPlain =>
           a.held[u] = b.held[u] \union IF i[2] = {u} THEN i[3] ELSE {}
    BY <1>5, <2>2, <2>5
  <2>7. ToolsOf(a, T \union {i})
    <3>1. a.toolAny <=> b.toolAny \/ i = <<"tool", {}, {}, {}>>
      BY <1>5, <2>2, <2>4
    <3>2. a.names = b.names \union i[2]
      BY <1>5, <1>12, <2>2
    <3>3. \A u \in Tool : u \in a.toolPlain
                          <=> u \in b.toolPlain \/ i = <<"tool", {u}, {}, {}>>
      BY <1>5, <2>2, <2>5
    <3> QED
      BY <1>8, <2>6, <3>1, <3>2, <3>3, ToolsGrow
  <2> QED
    BY <1>7, <2>2, <2>3, <2>7
<1>13. CASE i[2] # {} /\ i[4] # {}
  <2> DEFINE l == Limit(c, t, i[4])
  <2>0. t \in Kinds
    BY <1>2, <1>8, <1>13
  <2>1. a = [l EXCEPT !.names = @ \union {t}]
    BY <1>3, <1>13
  <2>2. /\ Good(l)
        /\ l.effects = c.effects /\ l.fs = c.fs /\ (l.fsAny <=> c.fsAny)
        /\ l.net = c.net /\ (l.netAny <=> c.netAny) /\ l.modules = c.modules
        /\ (l.ffiAny <=> c.ffiAny) /\ (l.allTools <=> c.allTools)
        /\ l.names = c.names /\ l.held = c.held
        /\ l.toolPlain = c.toolPlain /\ (l.toolAny <=> c.toolAny)
    BY <1>1, <1>4, <2>0, LimitParts
  <2>3. CountsOf(l, J)
    BY <1>9, <1>13, <2>0
  <2> HIDE DEF l
  <2>4. /\ a.effects = l.effects /\ a.fs = l.fs /\ (a.fsAny <=> l.fsAny)
        /\ a.net = l.net /\ (a.netAny <=> l.netAny) /\ a.modules = l.modules
        /\ (a.ffiAny <=> l.ffiAny) /\ (a.allTools <=> l.allTools)
        /\ a.names = l.names \union {t} /\ a.held = l.held
        /\ a.toolPlain = l.toolPlain /\ (a.toolAny <=> l.toolAny)
        /\ a.limits = l.limits
    BY <2>1, <2>2 DEF Good, BudgetType
  <2>5. CountsOf(a, J)
    BY <2>3, <2>4 DEF CountsOf
  <2>6. i # <<"tool", {}, {}, {}>> /\ \A u \in Tool : i # <<"tool", {u}, {}, {}>>
    BY <1>13
  <2>7. i[3] = {} /\ i[2] = {t}
    BY <1>1, <1>2, <1>13
  <2>8. \A u \in Tool : u \notin a.toolPlain =>
           a.held[u] = b.held[u] \union IF i[2] = {u} THEN i[3] ELSE {}
    BY <1>5, <2>2, <2>4, <2>7
  <2>9. ToolsOf(a, T \union {i})
    <3>1. a.toolAny <=> b.toolAny \/ i = <<"tool", {}, {}, {}>>
      BY <1>5, <2>2, <2>4, <2>6
    <3>2. a.names = b.names \union i[2]
      BY <1>5, <2>2, <2>4, <2>7
    <3>3. \A u \in Tool : u \in a.toolPlain
                          <=> u \in b.toolPlain \/ i = <<"tool", {u}, {}, {}>>
      BY <1>5, <2>2, <2>4, <2>6
    <3> QED
      BY <1>8, <2>8, <3>1, <3>2, <3>3, ToolsGrow
  <2> QED
    BY <1>7, <2>2, <2>4, <2>5, <2>9
<1>14. CASE i[2] # {} /\ i[4] = {} /\ i[3] = {}
  <2>1. a = [c EXCEPT !.names = @ \union {t}, !.held[t] = {},
                      !.toolPlain = @ \union {t}]
    BY <1>3, <1>14
  <2>2. /\ a.effects = c.effects /\ a.fs = c.fs /\ (a.fsAny <=> c.fsAny)
        /\ a.net = c.net /\ (a.netAny <=> c.netAny) /\ a.modules = c.modules
        /\ (a.ffiAny <=> c.ffiAny) /\ (a.allTools <=> c.allTools)
        /\ a.limits = c.limits /\ a.names = c.names \union {t}
        /\ a.held = [c.held EXCEPT ![t] = {}]
        /\ a.toolPlain = c.toolPlain \union {t} /\ (a.toolAny <=> c.toolAny)
    BY <1>4, <2>1 DEF Good, BudgetType
  <2>3. CountsOf(a, J)
    BY <1>4, <1>10, <1>14, <2>2, SameCounts
  <2>4. i = <<"tool", {t}, {}, {}>>
    BY <1>1, <1>2, <1>14
  <2>5. i # <<"tool", {}, {}, {}>>
        /\ \A u \in Tool : i = <<"tool", {u}, {}, {}>> <=> u = t
    BY <2>4
  <2>6. \A u \in Tool : u \notin a.toolPlain =>
           a.held[u] = b.held[u] \union IF i[2] = {u} THEN i[3] ELSE {}
    <3>1. c.held \in [Tool -> SUBSET Constraint]
      BY <1>4 DEF Good, BudgetType
    <3> QED
      BY <1>5, <1>14, <2>2, <3>1
  <2>7. ToolsOf(a, T \union {i})
    <3>1. a.toolAny <=> b.toolAny \/ i = <<"tool", {}, {}, {}>>
      BY <1>5, <2>2, <2>5
    <3>2. a.names = b.names \union i[2]
      BY <1>2, <1>5, <1>14, <2>2
    <3>3. \A u \in Tool : u \in a.toolPlain
                          <=> u \in b.toolPlain \/ i = <<"tool", {u}, {}, {}>>
      BY <1>5, <2>2, <2>5
    <3> QED
      BY <1>8, <2>6, <3>1, <3>2, <3>3, ToolsGrow
  <2> QED
    BY <1>7, <2>2, <2>3, <2>7
<1>15. CASE i[2] # {} /\ i[4] = {} /\ i[3] # {}
  <2>1. a = [c EXCEPT !.names = @ \union {t}, !.held[t] = @ \union i[3]]
    BY <1>3, <1>15
  <2>2. /\ a.effects = c.effects /\ a.fs = c.fs /\ (a.fsAny <=> c.fsAny)
        /\ a.net = c.net /\ (a.netAny <=> c.netAny) /\ a.modules = c.modules
        /\ (a.ffiAny <=> c.ffiAny) /\ (a.allTools <=> c.allTools)
        /\ a.limits = c.limits /\ a.names = c.names \union {t}
        /\ a.held = [c.held EXCEPT ![t] = c.held[t] \union i[3]]
        /\ a.toolPlain = c.toolPlain /\ (a.toolAny <=> c.toolAny)
    BY <1>4, <2>1 DEF Good, BudgetType
  <2>3. CountsOf(a, J)
    BY <1>4, <1>10, <1>15, <2>2, SameCounts
  <2>4. i[2] = {t} /\ t \in Tool
    BY <1>2, <1>15
  <2>5. i # <<"tool", {}, {}, {}>> /\ \A u \in Tool : i # <<"tool", {u}, {}, {}>>
    BY <1>15
  <2>6. \A u \in Tool : u \notin a.toolPlain =>
           a.held[u] = b.held[u] \union IF i[2] = {u} THEN i[3] ELSE {}
    <3>1. c.held \in [Tool -> SUBSET Constraint]
      BY <1>4 DEF Good, BudgetType
    <3> QED
      BY <1>5, <2>2, <2>4, <3>1
  <2>7. ToolsOf(a, T \union {i})
    <3>1. a.toolAny <=> b.toolAny \/ i = <<"tool", {}, {}, {}>>
      BY <1>5, <2>2, <2>5
    <3>2. a.names = b.names \union i[2]
      BY <1>5, <2>2, <2>4
    <3>3. \A u \in Tool : u \in a.toolPlain
                          <=> u \in b.toolPlain \/ i = <<"tool", {u}, {}, {}>>
      BY <1>5, <2>2, <2>5
    <3> QED
      BY <1>8, <2>6, <3>1, <3>2, <3>3, ToolsGrow
  <2> QED
    BY <1>7, <2>2, <2>3, <2>7
<1> QED
  BY <1>11, <1>12, <1>13, <1>14, <1>15

LEMMA AddWrites ==
  ASSUME NEW b, Good(b), NEW I, \A j \in I : IsGrant(j), Writes(b, I),
         NEW i, IsGrant(i)
  PROVE  Writes(Add(b, i), I \union {i})
<1>1. CASE IsFs(i)
  BY <1>1, AddFsWrites DEF Add, IsFs
<1>2. CASE IsNet(i)
  BY <1>2, AddNetWrites DEF Add, IsNet
<1>3. CASE IsFfi(i)
  BY <1>3, AddFfiWrites DEF Add, IsFfi
<1>4. CASE IsTool(i)
  BY <1>4, AddToolWrites DEF Add, IsTool
<1>5. ASSUME NEW e \in Plain, i = <<e>>
      PROVE  Writes(Add(b, i), I \union {i})
  <2>1. Add(b, i) = [b EXCEPT !.effects = @ \union {e}]
    BY <1>5 DEF Add, Plain
  <2> QED
    BY <1>5, <2>1, AddPlainWrites
<1> QED
  BY <1>1, <1>2, <1>3, <1>4, <1>5 DEF IsGrant

\* what the end of parse makes of it is its meaning
LEMMA ParsedMeans ==
  ASSUME NEW b, Good(b), NEW I, \A j \in I : IsGrant(j), Writes(b, I)
  PROVE  Parsed(b) = Meaning(I)
<1> DEFINE T == Of(I, "tool")
           all == b.toolAny \/ ("tool" \in b.effects /\ b.names = {})
           held == [t \in Tool |-> IF all \/ t \in b.toolPlain THEN {}
                                  ELSE b.held[t]]
           names == IF all THEN {} ELSE b.names
           limits == [k \in Kinds |-> Smallest(CountsFor(I, k))]
           every == EveryTool(T)
           meant == [t \in Tool |->
                       IF every \/ <<"tool", {t}, {}, {}>> \in T THEN {}
                       ELSE HeldMeant(T, t)]
           named == IF every THEN {} ELSE UNION {i[2] : i \in T}
<1>1. all <=> every
  <2>1. "tool" \in b.effects <=> T # {}
    BY DEF Writes, Of
  <2>2. b.names = {} <=> \A i \in T : i[2] = {}
    BY DEF Writes, ToolsOf
  <2>3. b.toolAny <=> <<"tool", {}, {}, {}>> \in T
    BY DEF Writes, ToolsOf
  <2> QED
    BY <2>1, <2>2, <2>3 DEF EveryTool
<1>2. held = meant
  <2>1. \A t \in Tool : /\ t \in b.toolPlain <=> <<"tool", {t}, {}, {}>> \in T
                        /\ t \notin b.toolPlain => b.held[t] = HeldMeant(T, t)
    BY DEF Writes, ToolsOf
  <2> HIDE DEF all, every, T
  <2> QED
    BY <1>1, <2>1
<1>3. names = named
  BY <1>1 DEF Writes, ToolsOf
<1>4. limits = b.limits
  <2>1. \A k \in Kinds : b.limits[k] = Smallest(CountsFor(I, k))
    BY DEF Writes, CountsOf, LeastOf
  <2> QED
    BY <2>1 DEF Good, BudgetType
<1>5. /\ b.fs = FilesMeant(Of(I, "fs")) /\ b.net = HostsMeant(Of(I, "net"))
      /\ b.modules = ModulesMeant(Of(I, "ffi")) /\ b.effects = {i[1] : i \in I}
  BY DEF Writes, FilesOf, HostsOf, ModulesOf
<1>6. all \in BOOLEAN /\ every \in BOOLEAN
  BY DEF EveryTool, Good, BudgetType
<1>7. all = every
  BY <1>1, <1>6
<1>8. Parsed(b) = [b EXCEPT !.held = held, !.names = IF all THEN {} ELSE @,
                           !.allTools = all, !.fsAny = FALSE, !.netAny = FALSE,
                           !.ffiAny = FALSE, !.toolAny = FALSE, !.toolPlain = {}]
  BY DEF Parsed
<1>9. Meaning(I) =
        [NoBudget EXCEPT
          !.effects = {i[1] : i \in I}, !.modules = ModulesMeant(Of(I, "ffi")),
          !.fs = FilesMeant(Of(I, "fs")), !.net = HostsMeant(Of(I, "net")),
          !.limits = limits, !.names = named, !.held = meant, !.allTools = every]
  BY DEF Meaning
<1>10. names = IF all THEN {} ELSE b.names
  OBVIOUS
<1> DEFINE said == [effects |-> b.effects, modules |-> b.modules, ffiAny |-> FALSE,
                    fs |-> b.fs, fsAny |-> FALSE, net |-> b.net, netAny |-> FALSE,
                    limits |-> b.limits, names |-> names, held |-> held,
                    toolAny |-> FALSE, toolPlain |-> {}, allTools |-> all]
<1> HIDE DEF all, every, held, meant, names, named, limits
<1>11. Parsed(b) = said
  <2>1. b \in BudgetType
    BY DEF Good
  <2>2. Parsed(b) = [b EXCEPT !.held = held, !.names = names,
                           !.allTools = all, !.fsAny = FALSE, !.netAny = FALSE,
                           !.ffiAny = FALSE, !.toolAny = FALSE, !.toolPlain = {}]
    BY <1>8, <1>10, <2>1 DEF BudgetType
  <2> QED
    BY <2>1, <2>2 DEF BudgetType
<1>12. Meaning(I) = said
  <2>1. Meaning(I) =
        [effects |-> {i[1] : i \in I}, modules |-> ModulesMeant(Of(I, "ffi")),
         ffiAny |-> FALSE, fs |-> FilesMeant(Of(I, "fs")), fsAny |-> FALSE,
         net |-> HostsMeant(Of(I, "net")), netAny |-> FALSE,
         limits |-> limits, names |-> named, held |-> meant,
         toolAny |-> FALSE, toolPlain |-> {}, allTools |-> every]
    BY <1>9 DEF NoBudget
  <2> QED
    BY <1>2, <1>3, <1>4, <1>5, <1>7, <2>1
<1> QED
  BY <1>11, <1>12

\* what the meaning of a set of grants holds, field by field
Means(I, M) ==
  /\ M.effects = {i[1] : i \in I} /\ M.modules = ModulesMeant(Of(I, "ffi"))
  /\ M.fs = FilesMeant(Of(I, "fs")) /\ M.net = HostsMeant(Of(I, "net"))
  /\ ~M.fsAny /\ ~M.netAny /\ ~M.ffiAny /\ ~M.toolAny /\ M.toolPlain = {}
  /\ M.names = IF EveryTool(Of(I, "tool")) THEN {}
               ELSE UNION {i[2] : i \in Of(I, "tool")}
  /\ M.allTools <=> EveryTool(Of(I, "tool"))
  /\ \A k \in Kinds : M.limits[k] = Smallest(CountsFor(I, k))
  /\ \A t \in Tool : M.held[t] =
       IF EveryTool(Of(I, "tool")) \/ <<"tool", {t}, {}, {}>> \in Of(I, "tool")
         THEN {} ELSE HeldMeant(Of(I, "tool"), t)


LEMMA MeaningParts ==
  ASSUME NEW I, NEW m, m = Meaning(I)
  PROVE  Means(I, m)
<1> DEFINE T == Of(I, "tool")
           every == EveryTool(T)
           meant == [t \in Tool |->
                       IF every \/ <<"tool", {t}, {}, {}>> \in T THEN {}
                       ELSE HeldMeant(T, t)]
           named == IF every THEN {} ELSE UNION {i[2] : i \in T}
           limits == [k \in Kinds |-> Smallest(CountsFor(I, k))]
<1>1. m =
        [NoBudget EXCEPT
          !.effects = {i[1] : i \in I}, !.modules = ModulesMeant(Of(I, "ffi")),
          !.fs = FilesMeant(Of(I, "fs")), !.net = HostsMeant(Of(I, "net")),
          !.limits = limits, !.names = named, !.held = meant, !.allTools = every]
  BY DEF Meaning
<1>2. /\ \A k \in Kinds : limits[k] = Smallest(CountsFor(I, k))
      /\ \A t \in Tool : meant[t] =
           IF every \/ <<"tool", {t}, {}, {}>> \in T THEN {} ELSE HeldMeant(T, t)
      /\ named = IF every THEN {} ELSE UNION {i[2] : i \in T}
  OBVIOUS
<1>3. every \in BOOLEAN
  BY DEF EveryTool
<1> HIDE DEF every, meant, named, limits, T
<1>4. m =
        [effects |-> {i[1] : i \in I}, modules |-> ModulesMeant(Of(I, "ffi")),
         ffiAny |-> FALSE, fs |-> FilesMeant(Of(I, "fs")), fsAny |-> FALSE,
         net |-> HostsMeant(Of(I, "net")), netAny |-> FALSE,
         limits |-> limits, names |-> named, held |-> meant,
         toolAny |-> FALSE, toolPlain |-> {}, allTools |-> every]
  BY <1>1 DEF NoBudget
<1>5. /\ m.effects = {i[1] : i \in I} /\ m.modules = ModulesMeant(Of(I, "ffi"))
      /\ m.fs = FilesMeant(Of(I, "fs")) /\ m.net = HostsMeant(Of(I, "net"))
      /\ ~m.fsAny /\ ~m.netAny /\ ~m.ffiAny /\ ~m.toolAny /\ m.toolPlain = {}
      /\ m.names = named /\ m.limits = limits /\ m.held = meant
  BY <1>4
<1>6. m.allTools <=> every
  BY <1>3, <1>4
<1> QED
  BY <1>2, <1>5, <1>6 DEF every, T, Means

\* what deny leaves of each part of a budget
Denied(b, e, d) ==
  /\ d.toolPlain = b.toolPlain /\ d.effects = b.effects \ {e}
  /\ d.fsAny <=> b.fsAny
  /\ d.netAny <=> b.netAny
  /\ d.ffiAny <=> b.ffiAny
  /\ d.toolAny <=> b.toolAny
  /\ d.fs = IF e = "fs" THEN {} ELSE b.fs
  /\ d.net = IF e = "net" THEN {} ELSE b.net
  /\ d.modules = IF e = "ffi" THEN {} ELSE b.modules
  /\ d.names = IF e = "tool" THEN {} ELSE b.names
  /\ d.allTools <=> e # "tool" /\ b.allTools
  /\ \A t \in Tool : d.held[t] = IF e = "tool" THEN {} ELSE b.held[t]
  /\ \A k \in {"fs", "net"} : d.limits[k] = IF e = k THEN {} ELSE b.limits[k]
  /\ \A k \in {Total} \union Tool :
       d.limits[k] = IF e = "tool" THEN {} ELSE b.limits[k]

LEMMA DenyParts ==
  ASSUME NEW b, Good(b), NEW e \in Effects, NEW d, d = Deny(b, e)
  PROVE  Denied(b, e, d)
<1> DEFINE none == [t \in Tool |-> {}]
           kept == [k \in Kinds |-> IF k \in {"fs", "net"} THEN b.limits[k] ELSE {}]
<1>0. Good(b) /\ Good(d)
  BY DenyGood
<1>1. /\ d.toolPlain = b.toolPlain /\ d.effects = b.effects \ {e}
      /\ d.fsAny <=> b.fsAny
      /\ d.netAny <=> b.netAny
      /\ d.ffiAny <=> b.ffiAny
      /\ d.toolAny <=> b.toolAny
  BY <1>0 DEF Deny, Good, BudgetType
<1>2. /\ d.fs = IF e = "fs" THEN {} ELSE b.fs
      /\ d.net = IF e = "net" THEN {} ELSE b.net
      /\ d.modules = IF e = "ffi" THEN {} ELSE b.modules
  BY <1>0 DEF Deny, Good, BudgetType
<1>3. /\ d.names = IF e = "tool" THEN {} ELSE b.names
      /\ d.allTools <=> e # "tool" /\ b.allTools
      /\ \A t \in Tool : d.held[t] = IF e = "tool" THEN {} ELSE b.held[t]
  BY <1>0 DEF Deny, Good, BudgetType
<1>4. /\ \A k \in {"fs", "net"} : d.limits[k] = IF e = k THEN {} ELSE b.limits[k]
      /\ \A k \in {Total} \union Tool :
           d.limits[k] = IF e = "tool" THEN {} ELSE b.limits[k]
  <2>1. \A k \in {Total} \union Tool : k \in Kinds /\ k \notin {"fs", "net"}
    BY ToolAssumption DEF Kinds, Total
  <2>2. CASE e = "tool"
    <3>1. d.limits = kept
      BY <1>0, <2>2 DEF Deny, Good, BudgetType
    <3> QED
      BY <2>1, <2>2, <3>1 DEF Kinds
  <2>3. CASE e = "fs" \/ e = "net"
    <3>1. d.limits = [b.limits EXCEPT ![e] = {}]
      BY <1>0, <2>3 DEF Deny, Good, BudgetType
    <3>2. b.limits = [k \in Kinds |-> b.limits[k]]
      BY <1>0 DEF Good, BudgetType
    <3> QED
      BY <2>1, <2>3, <3>1, <3>2 DEF Kinds
  <2>4. CASE e \notin {"fs", "net", "tool"}
    <3>1. d.limits = b.limits
      BY <1>0, <2>4 DEF Deny, Good, BudgetType
    <3> QED
      BY <2>4, <3>1
  <2> QED
    BY <2>2, <2>3, <2>4
<1> QED
  BY <1>1, <1>2, <1>3, <1>4 DEF Denied

\* denying an effect is as if nothing of it had been granted
LEMMA DenyMeans ==
  ASSUME NEW I, NEW m, m = Meaning(I), Good(m), NEW e \in Effects
  PROVE  Deny(m, e) = Meaning({i \in I : i[1] # e})
<1> DEFINE J == {i \in I : i[1] # e}
           d == Deny(m, e)
           n == Meaning(J)
<1>1. Means(I, m) /\ Means(J, n)
  BY MeaningParts
<1>2. Denied(m, e, d) /\ Good(d)
  BY DenyParts, DenyGood
<1>3. \A x : Of(J, x) = IF x = e THEN {} ELSE Of(I, x)
  BY DEF Of
<1>4. {i[1] : i \in J} = {i[1] : i \in I} \ {e}
  OBVIOUS
<1>5. \A k \in Kinds : CountsFor(J, k) =
        IF e = (IF k \in {"fs", "net"} THEN k ELSE "tool") THEN {}
        ELSE CountsFor(I, k)
  <2> SUFFICES ASSUME NEW k \in Kinds
               PROVE  CountsFor(J, k) =
                        IF e = (IF k \in {"fs", "net"} THEN k ELSE "tool") THEN {}
                        ELSE CountsFor(I, k)
    OBVIOUS
  <2>1. CASE k \in {"fs", "net"}
    BY <1>3, <2>1 DEF CountsFor
  <2>2. CASE k \notin {"fs", "net"}
    BY <1>3, <2>2 DEF CountsFor
  <2> QED
    BY <2>1, <2>2
<1> HIDE DEF J, d, n
<1>6. \A k \in Kinds : d.limits[k] = Smallest(CountsFor(J, k))
  <2> SUFFICES ASSUME NEW k \in Kinds
               PROVE  d.limits[k] = Smallest(CountsFor(J, k))
    OBVIOUS
  <2>1. Smallest({}) = {}
    BY DEF Smallest
  <2>2. m.limits[k] = Smallest(CountsFor(I, k))
    BY <1>1 DEF Means
  <2>3. CASE k \in {"fs", "net"}
    BY <1>2, <1>5, <2>1, <2>2, <2>3 DEF Denied
  <2>4. CASE k \notin {"fs", "net"}
    <3>1. k \in {Total} \union Tool
      BY <2>4 DEF Kinds
    <3> QED
      BY <1>2, <1>5, <2>1, <2>2, <2>4, <3>1 DEF Denied
  <2> QED
    BY <2>3, <2>4
<1>7. /\ d.effects = n.effects /\ d.modules = n.modules
      /\ d.fs = n.fs /\ d.net = n.net
  <2>1. /\ ModulesMeant({}) = {} /\ FilesMeant({}) = {} /\ HostsMeant({}) = {}
    BY DEF ModulesMeant, FilesMeant, HostsMeant
  <2>2. d.effects = n.effects
    BY <1>1, <1>2, <1>4 DEF Means, Denied
  <2>3. d.modules = n.modules
    <3>1. /\ m.modules = ModulesMeant(Of(I, "ffi"))
          /\ n.modules = ModulesMeant(Of(J, "ffi"))
          /\ d.modules = IF e = "ffi" THEN {} ELSE m.modules
      BY <1>1, <1>2 DEF Means, Denied
    <3> QED
      BY <1>3, <2>1, <3>1
  <2>4. d.fs = n.fs
    <3>1. /\ m.fs = FilesMeant(Of(I, "fs")) /\ n.fs = FilesMeant(Of(J, "fs"))
          /\ d.fs = IF e = "fs" THEN {} ELSE m.fs
      BY <1>1, <1>2 DEF Means, Denied
    <3> QED
      BY <1>3, <2>1, <3>1
  <2>5. d.net = n.net
    <3>1. /\ m.net = HostsMeant(Of(I, "net")) /\ n.net = HostsMeant(Of(J, "net"))
          /\ d.net = IF e = "net" THEN {} ELSE m.net
      BY <1>1, <1>2 DEF Means, Denied
    <3> QED
      BY <1>3, <2>1, <3>1
  <2> QED
    BY <2>2, <2>3, <2>4, <2>5
<1>8. /\ d.names = n.names
      /\ d.allTools <=> n.allTools
      /\ \A t \in Tool : d.held[t] = n.held[t]
  <2>1. ~EveryTool({}) /\ \A t : HeldMeant({}, t) = {}
    BY DEF EveryTool, HeldMeant
  <2>2. /\ d.names = IF e = "tool" THEN {} ELSE m.names
        /\ d.allTools <=> e # "tool" /\ m.allTools
        /\ \A t \in Tool : d.held[t] = IF e = "tool" THEN {} ELSE m.held[t]
    BY <1>2 DEF Denied
  <2>3. CASE e = "tool"
    <3>1. Of(J, "tool") = {}
      BY <1>3, <2>3
    <3>2. n.names = UNION {i[2] : i \in {}} /\ ~n.allTools
      BY <1>1, <2>1, <3>1 DEF Means
    <3>3. ASSUME NEW t \in Tool PROVE n.held[t] = {}
      <4>1. n.held[t] = IF EveryTool(Of(J, "tool"))
                             \/ <<"tool", {t}, {}, {}>> \in Of(J, "tool")
                          THEN {} ELSE HeldMeant(Of(J, "tool"), t)
        BY <1>1 DEF Means
      <4> QED
        BY <2>1, <3>1, <4>1
    <3> QED
      BY <2>2, <2>3, <3>2, <3>3
  <2>4. CASE e # "tool"
    <3>1. Of(J, "tool") = Of(I, "tool")
      BY <1>3, <2>4
    <3>2. /\ n.names = m.names
          /\ n.allTools <=> m.allTools
          /\ \A t \in Tool : n.held[t] = m.held[t]
      BY <1>1, <3>1 DEF Means
    <3> QED
      BY <2>2, <2>4, <3>2
  <2> QED
    BY <2>3, <2>4
<1> DEFINE T == Of(J, "tool")
           every == EveryTool(T)
           meant == [t \in Tool |->
                       IF every \/ <<"tool", {t}, {}, {}>> \in T THEN {}
                       ELSE HeldMeant(T, t)]
           named == IF every THEN {} ELSE UNION {i[2] : i \in T}
           limits == [k \in Kinds |-> Smallest(CountsFor(J, k))]
<1>9. n = [NoBudget EXCEPT
            !.effects = {i[1] : i \in J}, !.modules = ModulesMeant(Of(J, "ffi")),
            !.fs = FilesMeant(Of(J, "fs")), !.net = HostsMeant(Of(J, "net")),
            !.limits = limits, !.names = named, !.held = meant,
            !.allTools = every]
  BY DEF Meaning, n
<1>10. /\ limits = [k \in Kinds |-> limits[k]] /\ meant = [t \in Tool |-> meant[t]]
       /\ \A k \in Kinds : limits[k] = Smallest(CountsFor(J, k))
       /\ every \in BOOLEAN
  BY DEF EveryTool
<1> HIDE DEF T, every, meant, named, limits
<1>11. n = [effects |-> n.effects, modules |-> n.modules, ffiAny |-> FALSE,
            fs |-> n.fs, fsAny |-> FALSE, net |-> n.net, netAny |-> FALSE,
            limits |-> limits, names |-> n.names, held |-> meant,
            toolAny |-> FALSE, toolPlain |-> {}, allTools |-> every]
  BY <1>9 DEF NoBudget
<1>12. n.held = meant /\ n.allTools = every
  BY <1>11
<1>13. /\ d.limits = [k \in Kinds |-> d.limits[k]]
       /\ d.held = [t \in Tool |-> d.held[t]]
       /\ d = [effects |-> d.effects, modules |-> d.modules, ffiAny |-> d.ffiAny,
               fs |-> d.fs, fsAny |-> d.fsAny, net |-> d.net, netAny |-> d.netAny,
               limits |-> d.limits, names |-> d.names, held |-> d.held,
               toolAny |-> d.toolAny, toolPlain |-> d.toolPlain,
               allTools |-> d.allTools]
       /\ {d.ffiAny, d.fsAny, d.netAny, d.toolAny, d.allTools} \subseteq BOOLEAN
  BY <1>2 DEF Good, BudgetType
<1>14. d.limits = limits
  BY <1>6, <1>10, <1>13
<1>15. d.held = meant
  BY <1>8, <1>10, <1>12, <1>13
<1>16. d.allTools = every
  BY <1>8, <1>10, <1>12, <1>13
<1>17. /\ d.ffiAny = FALSE /\ d.fsAny = FALSE /\ d.netAny = FALSE
       /\ d.toolAny = FALSE /\ d.toolPlain = {}
  BY <1>1, <1>2, <1>13 DEF Means, Denied
<1>18. d = n
  BY <1>7, <1>8, <1>11, <1>13, <1>14, <1>15, <1>16, <1>17
<1> QED
  BY <1>18 DEF d, n, J

Sides == {"ceiling", "asked"}

Meant ==
  /\ DOMAIN written = Sides /\ \A r \in Sides : written[r] \subseteq Items[r]
  /\ stage = "writing" => \A r \in Sides : Writes(budgets[r], written[r])
  /\ stage # "writing" => \A r \in Sides : budgets[r] = Meaning(written[r])

LEMMA AreGrants == \A r \in Sides : \A i \in Items[r] : IsGrant(i)
BY ItemsAssumption DEF IsGrant, Sides

LEMMA MeantInit == Init => Meant
BY WritesNothing DEF Init, Meant, Sides

LEMMA MeantStep == Inv /\ Meant /\ [Next]_vars => Meant'
<1> SUFFICES ASSUME Inv, Meant, [Next]_vars PROVE Meant'
  OBVIOUS
<1>1. budgets = [r \in Sides |-> budgets[r]] /\ \A r \in Sides : Good(budgets[r])
  BY GoodBudgets DEF Inv, Sides
<1>2. \A r \in Sides : \A i \in written[r] : IsGrant(i)
  BY AreGrants DEF Meant
<1>3. ASSUME NEW r \in Sides, NEW i \in Items[r], Write(r, i) PROVE Meant'
  <2>1. stage = "writing" /\ stage' = "writing"
    BY <1>3 DEF Write
  <2>2. budgets' = [budgets EXCEPT ![r] = Add(budgets[r], i)]
        /\ written' = [written EXCEPT ![r] = written[r] \union {i}]
    BY <1>3 DEF Write
  <2>3. Writes(Add(budgets[r], i), written[r] \union {i})
    BY <1>1, <1>2, <2>1, AddWrites, AreGrants DEF Meant
  <2>4. \A q \in Sides : /\ budgets'[q] = IF q = r THEN Add(budgets[r], i)
                                         ELSE budgets[q]
                        /\ written'[q] = IF q = r THEN written[r] \union {i}
                                         ELSE written[q]
    BY <1>1, <2>2 DEF Meant
  <2>5. \A q \in Sides : Writes(budgets'[q], written'[q])
    BY <2>1, <2>3, <2>4 DEF Meant
  <2>6. DOMAIN written' = Sides /\ \A q \in Sides : written'[q] \subseteq Items[q]
    BY <2>2, <2>4 DEF Meant
  <2> QED
    BY <2>1, <2>5, <2>6 DEF Meant
<1>4. CASE ParseBoth
  <2>1. /\ stage = "writing" /\ stage' = "parsed" /\ written' = written
        /\ \A r \in Sides : budgets'[r] = Parsed(budgets[r])
    BY <1>1, <1>4 DEF ParseBoth
  <2>2. \A r \in Sides : Parsed(budgets[r]) = Meaning(written[r])
    BY <1>1, <1>2, <2>1, ParsedMeans DEF Meant
  <2> QED
    BY <2>1, <2>2 DEF Meant
<1>5. ASSUME stage # "writing", stage' # "writing", UNCHANGED <<written, budgets>>
      PROVE  Meant'
  BY <1>5 DEF Meant
<1>6. ASSUME UNCHANGED <<stage, written, budgets>> PROVE Meant'
  BY <1>6 DEF Meant
<1>7. ASSUME NEW e \in Effects, DenyEffect(e) PROVE Meant'
  <2> DEFINE J == {i \in written["asked"] : i[1] # e}
  <2>1. /\ stage # "writing" /\ stage' = "denied"
        /\ budgets' = [budgets EXCEPT !["asked"] = Deny(budgets["asked"], e)]
        /\ written' = [written EXCEPT !["asked"] = J]
    BY <1>7 DEF DenyEffect
  <2>2. "asked" \in Sides
    BY DEF Sides
  <2>3. Deny(budgets["asked"], e) = Meaning(J)
    <3>1. budgets["asked"] = Meaning(written["asked"])
      BY <2>1, <2>2 DEF Meant
    <3> QED
      BY <1>1, <2>2, <3>1, DenyMeans
  <2>4. \A q \in Sides :
          /\ budgets'[q] = IF q = "asked" THEN Deny(budgets["asked"], e)
                                         ELSE budgets[q]
          /\ written'[q] = IF q = "asked" THEN J ELSE written[q]
    BY <1>1, <2>1 DEF Meant
  <2>5. J \subseteq Items["asked"] /\ DOMAIN written' = Sides
    BY <2>1, <2>2 DEF Meant
  <2> HIDE DEF J
  <2>6. \A q \in Sides : budgets'[q] = Meaning(written'[q])
    BY <2>1, <2>3, <2>4 DEF Meant
  <2>7. \A q \in Sides : written'[q] \subseteq Items[q]
    BY <2>4, <2>5 DEF Meant
  <2> QED
    BY <2>1, <2>5, <2>6, <2>7 DEF Meant
<1>8. CASE Hold
  BY <1>5, <1>8 DEF Hold
<1>9. ASSUME NEW op \in Op, Do(op) \/ Refuse(op) PROVE Meant'
  BY <1>5, <1>9 DEF Do, Refuse
<1>10. CASE Break \/ Rest \/ UNCHANGED vars
  BY <1>6, <1>10 DEF Break, Rest, vars
<1> QED
  BY <1>3, <1>4, <1>7, <1>8, <1>9, <1>10 DEF Next, Sides

\* A budget means what the set of its grants says, so the order they are
\* written in, or writing one twice, changes nothing: of files, hosts and modules
\* the wider grant wins, of counts the smallest, and a plain tool over its
\* patterns - whatever grants there are.
THEOREM OrderIsFree == Spec => []OrderFree
<1>1. Inv /\ Meant => OrderFree
  BY GoodBudgets DEF Inv, Meant, OrderFree, Sides
<1> QED
  BY InvInit, InvStep, MeantInit, MeantStep, <1>1, PTL DEF Spec

-----------------------------------------------------------------------------
(* What spec writes, parse reads.  Parse folds Add over the text; the        *)
(* induction over its length is by the least counterexample, a set, because  *)
(* the induction theorems take a predicate.                                  *)

LEMMA NatSet ==
  ASSUME NEW S, 0 \in S, \A n \in Nat : n \in S => n + 1 \in S
  PROVE  Nat \subseteq S
<1> DEFINE T == Nat \ S
<1> SUFFICES ASSUME T # {} PROVE FALSE
  OBVIOUS
<1>1. PICK x \in T : \A y \in T : <<y, x>> \notin OpToRel(<, Nat)
  BY NatLessThanWellFounded, WFMin, Zenon
<1>2. x \in Nat /\ x # 0
  OBVIOUS
<1>3. x - 1 \in Nat /\ x - 1 < x /\ (x - 1) + 1 = x
  BY <1>2
<1>4. <<x - 1, x>> \in OpToRel(<, Nat)
  BY <1>2, <1>3 DEF OpToRel
<1>5. x - 1 \notin T
  BY <1>1, <1>4, Zenon
<1> QED
  BY <1>2, <1>3, <1>5

\* h is what the fold computes for the sets of places in 1..k
Folds(h, seq, k) ==
  /\ h = [s \in SUBSET (1..k) |-> h[s]]
  /\ \A s \in SUBSET (1..k) :
       h[s] = IF s = {} THEN NoBudget ELSE Add(h[s \ {Max(s)}], seq[Max(s)])

LEMMA MaxOfNext ==
  ASSUME NEW k \in Nat, NEW s \in SUBSET (1..(k + 1)), k + 1 \in s
  PROVE  Max(s) = k + 1
<1>1. \A y \in s : k + 1 >= y
  OBVIOUS
<1>2. \A x \in s : (\A y \in s : x >= y) => x = k + 1
  OBVIOUS
<1> QED
  BY <1>1, <1>2 DEF Max

LEMMA FoldGrows ==
  ASSUME NEW seq, NEW k \in Nat, NEW h, Folds(h, seq, k)
  PROVE  \E g : Folds(g, seq, k + 1)
<1> DEFINE g == [s \in SUBSET (1..(k + 1)) |->
                  IF k + 1 \in s THEN Add(h[s \ {k + 1}], seq[k + 1]) ELSE h[s]]
<1>1. g = [s \in SUBSET (1..(k + 1)) |-> g[s]]
  OBVIOUS
<1>2. \A s \in SUBSET (1..(k + 1)) : k + 1 \notin s => s \in SUBSET (1..k)
  OBVIOUS
<1>3. ASSUME NEW s \in SUBSET (1..(k + 1)), k + 1 \notin s
      PROVE  g[s] = IF s = {} THEN NoBudget ELSE Add(g[s \ {Max(s)}], seq[Max(s)])
  <2>1. s \in SUBSET (1..k) /\ s \ {Max(s)} \in SUBSET (1..(k + 1))
        /\ k + 1 \notin s \ {Max(s)}
    BY <1>2, <1>3
  <2>2. g[s] = h[s] /\ g[s \ {Max(s)}] = h[s \ {Max(s)}]
    BY <1>3, <2>1
  <2>3. h[s] = IF s = {} THEN NoBudget ELSE Add(h[s \ {Max(s)}], seq[Max(s)])
    BY <2>1 DEF Folds
  <2> QED
    BY <2>2, <2>3
<1>4. ASSUME NEW s \in SUBSET (1..(k + 1)), k + 1 \in s
      PROVE  g[s] = IF s = {} THEN NoBudget ELSE Add(g[s \ {Max(s)}], seq[Max(s)])
  <2>1. Max(s) = k + 1
    BY <1>4, MaxOfNext
  <2>2. s \ {k + 1} \in SUBSET (1..(k + 1)) /\ k + 1 \notin s \ {k + 1}
    OBVIOUS
  <2>3. g[s] = Add(h[s \ {k + 1}], seq[k + 1]) /\ g[s \ {k + 1}] = h[s \ {k + 1}]
    BY <1>4, <2>2
  <2> QED
    BY <1>4, <2>1, <2>3
<1> HIDE DEF g
<1>5. Folds(g, seq, k + 1)
  BY <1>1, <1>3, <1>4 DEF Folds
<1> QED
  BY <1>5

LEMMA FoldIs ==
  ASSUME NEW seq, NEW n \in Nat, DOMAIN seq = 1..n
  PROVE  \E h : Folds(h, seq, n) /\ FoldLeft(Add, NoBudget, seq) = h[1..n]
<1> DEFINE S == {k \in Nat : \E h : Folds(h, seq, k)}
<1>1. 0 \in S
  <2> DEFINE h == [s \in SUBSET (1..0) |-> NoBudget]
  <2>1. 1..0 = {}
    OBVIOUS
  <2>2. Folds(h, seq, 0)
    BY <2>1 DEF Folds
  <2> QED
    BY <2>2
<1>2. \A k \in Nat : k \in S => k + 1 \in S
  BY FoldGrows
<1>3. n \in S
  <2> HIDE DEF S
  <2> QED
    BY <1>1, <1>2, NatSet
<1> DEFINE it == CHOOSE h : h = [s \in SUBSET (1..n) |->
                 IF s = {} THEN NoBudget ELSE Add(h[s \ {Max(s)}], seq[Max(s)])]
<1>4. FoldLeft(Add, NoBudget, seq) = it[1..n]
  BY DEF FoldLeft, MapThenFoldSet
<1>5. PICK h : Folds(h, seq, n)
  BY <1>3
<1>6. h = [s \in SUBSET (1..n) |->
            IF s = {} THEN NoBudget ELSE Add(h[s \ {Max(s)}], seq[Max(s)])]
  BY <1>5 DEF Folds
<1>7. it = [s \in SUBSET (1..n) |->
             IF s = {} THEN NoBudget ELSE Add(it[s \ {Max(s)}], seq[Max(s)])]
  BY <1>6
<1> HIDE DEF it
<1>8. Folds(it, seq, n)
  BY <1>7 DEF Folds
<1> QED
  BY <1>4, <1>8

LEMMA FoldWrites ==
  ASSUME NEW seq, NEW n \in Nat, DOMAIN seq = 1..n,
         \A k \in 1..n : IsGrant(seq[k])
  PROVE  LET b == FoldLeft(Add, NoBudget, seq)
         IN  Good(b) /\ Writes(b, {seq[k] : k \in 1..n})
<1>1. PICK h : Folds(h, seq, n) /\ FoldLeft(Add, NoBudget, seq) = h[1..n]
  BY FoldIs
<1> DEFINE G(k) == {seq[j] : j \in 1..k}
           S == {k \in Nat : k <= n => Good(h[1..k]) /\ Writes(h[1..k], G(k))}
<1> HIDE DEF G
<1>2. 0 \in S
  <2>1. 1..0 = {} /\ {} \in SUBSET (1..n)
    OBVIOUS
  <2>2. h[{}] = NoBudget
    BY <1>1, <2>1 DEF Folds
  <2>3. G(0) = {}
    BY <2>1 DEF G
  <2> QED
    BY <2>1, <2>2, <2>3, NoBudgetGood, WritesNothing
<1>3. ASSUME NEW k \in Nat, k \in S PROVE k + 1 \in S
  <2> SUFFICES ASSUME k + 1 <= n
               PROVE  Good(h[1..(k + 1)]) /\ Writes(h[1..(k + 1)], G(k + 1))
    OBVIOUS
  <2>1. k <= n /\ k + 1 \in 1..n /\ k + 1 \in 1..(k + 1)
        /\ 1..(k + 1) \in SUBSET (1..n) /\ (1..(k + 1)) \ {k + 1} = 1..k
        /\ 1..(k + 1) = (1..k) \union {k + 1}
    OBVIOUS
  <2>2. Good(h[1..k]) /\ Writes(h[1..k], G(k))
    BY <1>3, <2>1
  <2>3. Max(1..(k + 1)) = k + 1
    BY <2>1, MaxOfNext
  <2>4. h[1..(k + 1)] = Add(h[1..k], seq[k + 1])
    <3>1. 1..(k + 1) # {}
      BY <2>1
    <3>2. h[1..(k + 1)] = Add(h[(1..(k + 1)) \ {Max(1..(k + 1))}],
                              seq[Max(1..(k + 1))])
      BY <1>1, <2>1, <3>1 DEF Folds
    <3> QED
      BY <2>1, <2>3, <3>2
  <2>5. G(k + 1) = G(k) \union {seq[k + 1]}
    BY <2>1 DEF G
  <2>6. \A j \in G(k) : IsGrant(j)
    BY <2>1 DEF G
  <2>7. IsGrant(seq[k + 1])
    BY <2>1
  <2> HIDE DEF S
  <2>8. Writes(Add(h[1..k], seq[k + 1]), G(k) \union {seq[k + 1]})
    BY <2>2, <2>6, <2>7, AddWrites
  <2>9. Good(Add(h[1..k], seq[k + 1]))
    BY <2>2, <2>7, GrantGood
  <2> QED
    BY <2>4, <2>5, <2>8, <2>9
<1>4. n \in S
  <2> HIDE DEF S
  <2> QED
    BY <1>2, <1>3, NatSet
<1> QED
  BY <1>1, <1>4 DEF G

LEMMA TextOf ==
  ASSUME NEW S, IsFiniteSet(S)
  PROVE  LET q == SetToSeq(S)
             n == Cardinality(S)
         IN  n \in Nat /\ DOMAIN q = 1..n /\ {q[k] : k \in 1..n} = S
<1> DEFINE n == Cardinality(S)
           q == SetToSeq(S)
<1>1. n \in Nat /\ ExistsBijection(1..n, S)
  BY FS_CardinalityType
<1>2. q \in [1..n -> S] /\ IsInjective(q)
  BY <1>1 DEF ExistsBijection, Bijection, Injection, SetToSeq
<1>3. IsFiniteSet(1..n) /\ Cardinality(1..n) = n
  BY <1>1, FS_Interval
<1>4. q \in Injection(1..n, S)
  BY <1>2 DEF Injection
<1> HIDE DEF q
<1>5. q \in Surjection(1..n, S)
  BY <1>3, <1>4, FS_Injection
<1>6. {q[k] : k \in 1..n} = S
  BY <1>2, <1>5 DEF Surjection
<1> QED
  BY <1>1, <1>2, <1>6 DEF q

\* the image of a finite set
LEMMA ImageFinite ==
  ASSUME NEW S, IsFiniteSet(S), NEW f, f = [x \in S |-> f[x]]
  PROVE  IsFiniteSet({f[x] : x \in S})
<1> DEFINE R == {f[x] : x \in S}
<1>1. f \in Surjection(S, R)
  BY DEF Surjection
<1> QED
  BY <1>1, FS_Surjection

LEMMA AtMostOneFinite ==
  ASSUME NEW S, AtMostOne(S)
  PROVE  IsFiniteSet(S)
<1>1. CASE S = {}
  BY <1>1, FS_EmptySet
<1>2. CASE S # {}
  <2>1. PICK x \in S : S = {x}
    BY <1>2 DEF AtMostOne
  <2> QED
    BY <2>1, FS_Singleton
<1> QED
  BY <1>1, <1>2

Finite(b) ==
  /\ IsFiniteSet(b.fs) /\ IsFiniteSet(b.net) /\ IsFiniteSet(b.names)
  /\ \A t \in Tool : IsFiniteSet(b.held[t])
  /\ IsFiniteSet({t \in Tool : b.limits[t] # {}})

\* a budget once it is parsed, or narrowed: nothing of what it does not grant
Clean(b) ==
  /\ Good(b) /\ Finite(b)
  /\ ~b.fsAny /\ ~b.netAny /\ ~b.ffiAny /\ ~b.toolAny /\ b.toolPlain = {}
  /\ "fs" \notin b.effects => b.fs = {} /\ b.limits["fs"] = {}
  /\ "net" \notin b.effects => b.net = {} /\ b.limits["net"] = {}
  /\ "ffi" \notin b.effects => b.modules = {}
  /\ "tool" \notin b.effects =>
       ~b.allTools /\ b.names = {} /\ \A k \in {Total} \union Tool : b.limits[k] = {}
  /\ "tool" \in b.effects => (b.allTools <=> b.names = {})
  /\ \A t \in Tool : t \notin b.names =>
       b.held[t] = {} /\ (b.limits[t] # {} => b.allTools)

Text(b) == UNION {Spec1(b, e) : e \in b.effects}

\* what spec writes of each effect
FsItems(b)  == IF b.fs = {} THEN {<<"fs", "any", {}, b.limits["fs"]>>}
               ELSE {<<"fs", g[1], g[2], b.limits["fs"]>> : g \in b.fs}
NetItems(b) == IF b.net = {} THEN {<<"net", {}, {}, b.limits["net"]>>}
               ELSE {<<"net", {g[1]}, g[2], b.limits["net"]>> : g \in b.net}

LEMMA Written ==
  ASSUME NEW b
  PROVE  /\ Spec1(b, "fs") = FsItems(b)
         /\ Spec1(b, "net") = NetItems(b)
         /\ Spec1(b, "ffi") = {<<"ffi", b.modules>>}
         /\ Spec1(b, "tool") = ToolItems(b)
         /\ \A e \in Plain : Spec1(b, e) = {<<e>>}
<1>1. Spec1(b, "fs") = FsItems(b)
  BY DEF Spec1, FsItems
<1>2. Spec1(b, "net") = NetItems(b)
  BY DEF Spec1, NetItems
<1>3. Spec1(b, "ffi") = {<<"ffi", b.modules>>}
  BY DEF Spec1
<1>4. Spec1(b, "tool") = ToolItems(b)
  BY DEF Spec1
<1>5. ASSUME NEW e \in Plain PROVE Spec1(b, e) = {<<e>>}
  <2>1. e \notin {"fs", "net", "ffi", "tool"}
    BY DEF Plain
  <2> QED
    BY <2>1 DEF Spec1
<1> QED
  BY <1>1, <1>2, <1>3, <1>4, <1>5

LEMMA ItemsOfOne ==
  ASSUME NEW b, Clean(b), NEW e \in b.effects
  PROVE  Spec1(b, e) # {} /\ \A i \in Spec1(b, e) : i[1] = e
<1>0. b \in BudgetType /\ e \in Effects
  BY DEF Clean, Good, BudgetType
<1>1. CASE e = "fs"
  <2>1. FsItems(b) # {} /\ \A i \in FsItems(b) : i[1] = "fs"
    <3>1. CASE b.fs = {}
      <4>1. FsItems(b) = {<<"fs", "any", {}, b.limits["fs"]>>}
        BY <3>1 DEF FsItems
      <4> QED
        BY <4>1
    <3>2. CASE b.fs # {}
      <4>1. FsItems(b) = {<<"fs", g[1], g[2], b.limits["fs"]>> : g \in b.fs}
        BY <3>2 DEF FsItems
      <4>2. PICK h \in b.fs : TRUE
        BY <3>2
      <4>3. ASSUME NEW i \in FsItems(b) PROVE i[1] = "fs"
        <5>1. PICK g \in b.fs : i = <<"fs", g[1], g[2], b.limits["fs"]>>
          BY <4>1
        <5> QED
          BY <5>1
      <4>4. FsItems(b) # {}
        BY <4>1, <4>2
      <4> QED
        BY <4>3, <4>4
    <3> QED
      BY <3>1, <3>2
  <2> QED
    BY <1>1, <2>1, Written
<1>2. CASE e = "net"
  <2>1. NetItems(b) # {} /\ \A i \in NetItems(b) : i[1] = "net"
    <3>1. CASE b.net = {}
      <4>1. NetItems(b) = {<<"net", {}, {}, b.limits["net"]>>}
        BY <3>1 DEF NetItems
      <4> QED
        BY <4>1
    <3>2. CASE b.net # {}
      <4>1. NetItems(b) = {<<"net", {g[1]}, g[2], b.limits["net"]>> : g \in b.net}
        BY <3>2 DEF NetItems
      <4>2. PICK h \in b.net : TRUE
        BY <3>2
      <4>3. ASSUME NEW i \in NetItems(b) PROVE i[1] = "net"
        <5>1. PICK g \in b.net : i = <<"net", {g[1]}, g[2], b.limits["net"]>>
          BY <4>1
        <5> QED
          BY <5>1
      <4>4. NetItems(b) # {}
        BY <4>1, <4>2
      <4> QED
        BY <4>3, <4>4
    <3> QED
      BY <3>1, <3>2
  <2> QED
    BY <1>2, <2>1, Written
<1>3. CASE e = "ffi"
  <2>1. Spec1(b, e) = {<<"ffi", b.modules>>}
    BY <1>3, Written
  <2>2. <<"ffi", b.modules>>[1] = "ffi"
    OBVIOUS
  <2>3. \A i \in Spec1(b, e) : i = <<"ffi", b.modules>>
    BY <2>1, Zenon
  <2> QED
    BY <1>3, <2>1, <2>2, <2>3
<1>4. CASE e = "tool"
  <2>1. \A i \in ToolItems(b) : i[1] = "tool"
    BY DEF ToolItems
  <2>2. ToolItems(b) # {}
    <3>1. CASE b.allTools
      BY <3>1 DEF ToolItems
    <3>2. CASE ~b.allTools
      <4>1. PICK t \in b.names : t \in Tool
        BY <1>0, <1>4, <3>2 DEF Clean, BudgetType
      <4>2. CASE b.held[t] # {}
        <5>1. PICK c \in b.held[t] : TRUE
          BY <4>2
        <5>2. <<"tool", {t}, {c}, {}>> \in ToolItems(b)
          BY <4>1, <5>1 DEF ToolItems
        <5> QED
          BY <5>2
      <4>3. CASE b.limits[t] # {}
        BY <4>1, <4>3 DEF ToolItems
      <4>4. CASE b.held[t] = {} /\ b.limits[t] = {}
        BY <4>1, <4>4 DEF ToolItems
      <4> QED
        BY <4>2, <4>3, <4>4
    <3> QED
      BY <3>1, <3>2
  <2> QED
    BY <1>4, <2>1, <2>2, Written
<1>5. CASE e \in Plain
  <2>1. Spec1(b, e) = {<<e>>}
    BY <1>5, Written
  <2> QED
    BY <2>1
<1> QED
  BY <1>0, <1>1, <1>2, <1>3, <1>4, <1>5 DEF Effects

LEMMA OfText ==
  ASSUME NEW b, Clean(b), NEW e
  PROVE  Of(Text(b), e) = IF e \in b.effects THEN Spec1(b, e) ELSE {}
<1>1. \A i : i \in Text(b) <=> \E f \in b.effects : i \in Spec1(b, f)
  BY DEF Text
<1>2. \A f \in b.effects : \A i \in Spec1(b, f) : i[1] = f
  BY ItemsOfOne
<1> QED
  BY <1>1, <1>2 DEF Of

LEMMA EffectsOfText ==
  ASSUME NEW b, Clean(b)
  PROVE  {i[1] : i \in Text(b)} = b.effects
<1>1. \A i : i \in Text(b) <=> \E f \in b.effects : i \in Spec1(b, f)
  BY DEF Text
<1>2. \A f \in b.effects : Spec1(b, f) # {} /\ \A i \in Spec1(b, f) : i[1] = f
  BY ItemsOfOne
<1> QED
  BY <1>1, <1>2

LEMMA FilesOfText ==
  ASSUME NEW b, Clean(b)
  PROVE  FilesMeant(Of(Text(b), "fs")) = b.fs
<1>0. b.fs \subseteq {"read", "write"} \X Optional(Path)
  BY DEF Clean, Good, BudgetType
<1>1. CASE "fs" \notin b.effects
  <2>1. Of(Text(b), "fs") = {} /\ b.fs = {}
    BY <1>1, OfText DEF Clean
  <2> QED
    BY <2>1 DEF FilesMeant
<1>2. CASE "fs" \in b.effects /\ b.fs = {}
  <2>1. Of(Text(b), "fs") = {<<"fs", "any", {}, b.limits["fs"]>>}
    BY <1>2, OfText, Written DEF FsItems
  <2> QED
    BY <1>2, <2>1 DEF FilesMeant
<1>3. CASE "fs" \in b.effects /\ b.fs # {}
  <2> DEFINE F == {<<"fs", g[1], g[2], b.limits["fs"]>> : g \in b.fs}
  <2>1. Of(Text(b), "fs") = F
    BY <1>3, OfText, Written DEF FsItems
  <2>2. \A i \in F : i[2] # "any" /\ <<i[2], i[3]>> \in b.fs
    <3> TAKE i \in F
    <3>1. PICK g \in b.fs : i = <<"fs", g[1], g[2], b.limits["fs"]>>
      OBVIOUS
    <3>2. g[1] \in {"read", "write"} /\ g = <<g[1], g[2]>>
      BY <1>0, <3>1
    <3> QED
      BY <3>1, <3>2
  <2>3. \A g \in b.fs : \E i \in F : g = <<i[2], i[3]>>
    <3> TAKE g \in b.fs
    <3>1. g = <<g[1], g[2]>>
      BY <1>0
    <3>2. <<"fs", g[1], g[2], b.limits["fs"]>> \in F
      OBVIOUS
    <3> QED
      BY <3>1, <3>2
  <2> HIDE DEF F
  <2>4. FilesMeant(F) = {<<i[2], i[3]>> : i \in F}
    BY <2>2 DEF FilesMeant
  <2>5. {<<i[2], i[3]>> : i \in F} = b.fs
    BY <2>2, <2>3
  <2> QED
    BY <2>1, <2>4, <2>5
<1> QED
  BY <1>1, <1>2, <1>3

LEMMA HostsOfText ==
  ASSUME NEW b, Clean(b)
  PROVE  HostsMeant(Of(Text(b), "net")) = b.net
<1>0. b.net \subseteq Pattern \X Optional(Port)
  BY DEF Clean, Good, BudgetType
<1>1. CASE "net" \notin b.effects
  <2>1. Of(Text(b), "net") = {} /\ b.net = {}
    BY <1>1, OfText DEF Clean
  <2> QED
    BY <2>1 DEF HostsMeant
<1>2. CASE "net" \in b.effects /\ b.net = {}
  <2>1. Of(Text(b), "net") = {<<"net", {}, {}, b.limits["net"]>>}
    BY <1>2, OfText, Written DEF NetItems
  <2> QED
    BY <1>2, <2>1 DEF HostsMeant
<1>3. CASE "net" \in b.effects /\ b.net # {}
  <2> DEFINE N == {<<"net", {g[1]}, g[2], b.limits["net"]>> : g \in b.net}
             U == UNION {i[2] \X {i[3]} : i \in N}
  <2>1. Of(Text(b), "net") = N
    BY <1>3, OfText, Written DEF NetItems
  <2>2. \A i \in N : \E g \in b.net : i[2] = {g[1]} /\ i[3] = g[2]
    OBVIOUS
  <2>3. \A g \in b.net : \E i \in N : i[2] = {g[1]} /\ i[3] = g[2]
    <3> TAKE g \in b.net
    <3>1. <<"net", {g[1]}, g[2], b.limits["net"]>> \in N
      OBVIOUS
    <3> QED
      BY <3>1
  <2>4. \A g \in b.net : g = <<g[1], g[2]>>
    BY <1>0
  <2> HIDE DEF N
  <2>5. \A x : x \in U <=> \E i \in N : x \in i[2] \X {i[3]}
    OBVIOUS
  <2>6. \A x \in U : x \in b.net
    <3> TAKE x \in U
    <3>1. PICK i \in N : x \in i[2] \X {i[3]}
      BY <2>5
    <3>2. PICK g \in b.net : i[2] = {g[1]} /\ i[3] = g[2]
      BY <2>2
    <3>3. x = <<g[1], g[2]>>
      BY <3>1, <3>2
    <3> QED
      BY <2>4, <3>3
  <2>7. \A x \in b.net : x \in U
    <3> TAKE x \in b.net
    <3>1. PICK i \in N : i[2] = {x[1]} /\ i[3] = x[2]
      BY <2>3
    <3>2. x \in i[2] \X {i[3]}
      BY <2>4, <3>1
    <3> QED
      BY <2>5, <3>1, <3>2
  <2>8. \A i \in N : i[2] # {}
    BY <2>2
  <2>9. HostsMeant(N) = U
    BY <2>8 DEF HostsMeant
  <2> HIDE DEF U
  <2>10. U = b.net
    BY <2>6, <2>7
  <2> QED
    BY <2>1, <2>9, <2>10
<1> QED
  BY <1>1, <1>2, <1>3

LEMMA ModulesOfText ==
  ASSUME NEW b, Clean(b)
  PROVE  ModulesMeant(Of(Text(b), "ffi")) = b.modules
<1>1. CASE "ffi" \notin b.effects
  <2>1. Of(Text(b), "ffi") = {} /\ b.modules = {}
    BY <1>1, OfText DEF Clean
  <2> QED
    BY <2>1 DEF ModulesMeant
<1>2. CASE "ffi" \in b.effects
  <2> DEFINE i == <<"ffi", b.modules>>
  <2>1. Of(Text(b), "ffi") = {i}
    BY <1>2, OfText, Written
  <2>2. i[2] = b.modules /\ (i = <<"ffi", {}>> <=> b.modules = {})
    OBVIOUS
  <2> HIDE DEF i
  <2>3. ModulesMeant({i}) = IF <<"ffi", {}>> \in {i} THEN {} ELSE UNION {j[2] : j \in {i}}
    BY DEF ModulesMeant
  <2>4. UNION {j[2] : j \in {i}} = b.modules
    BY <2>2
  <2> QED
    BY <2>1, <2>2, <2>3, <2>4
<1> QED
  BY <1>1, <1>2

LEMMA SmallestOfOne ==
  ASSUME NEW S \in SUBSET Nat, AtMostOne(S)
  PROVE  Smallest(S) = S
<1>1. \A n, m \in S : n = m /\ n \in Nat
  BY DEF AtMostOne
<1>2. \A n, m \in S : n <= m
  BY <1>1
<1> QED
  BY <1>2 DEF Smallest

\* the counts of what spec writes
LEMMA SameFourth ==
  ASSUME NEW F, NEW L, \A i \in F : i[4] \in {{}, L}, L # {} => \E i \in F : i[4] = L
  PROVE  UNION {i[4] : i \in F} = L
<1> DEFINE U == UNION {i[4] : i \in F}
<1>1. \A x : x \in U <=> \E i \in F : x \in i[4]
  OBVIOUS
<1> QED
  BY <1>1

LEMMA ToolItem ==
  ASSUME NEW b, NEW i
  PROVE  i \in ToolItems(b) <=>
           \/ /\ b.allTools \/ b.limits[Total] # {}
              /\ i = <<"tool", {}, {}, b.limits[Total]>>
           \/ \E t \in b.names : /\ b.held[t] = {} /\ b.limits[t] = {}
                                /\ i = <<"tool", {t}, {}, {}>>
           \/ \E t \in b.names : \E c \in b.held[t] : i = <<"tool", {t}, {c}, {}>>
           \/ \E t \in Tool : b.limits[t] # {} /\ i = <<"tool", {t}, {}, b.limits[t]>>
<1> DEFINE C == UNION {{<<"tool", {t}, {c}, {}>> : c \in b.held[t]} : t \in b.names}
<1>1. i \in C <=> \E t \in b.names : \E c \in b.held[t] : i = <<"tool", {t}, {c}, {}>>
  OBVIOUS
<1>2. ToolItems(b) =
        (IF b.allTools \/ b.limits[Total] # {}
           THEN {<<"tool", {}, {}, b.limits[Total]>>} ELSE {})
        \union {<<"tool", {t}, {}, {}>> :
                  t \in {u \in b.names : b.held[u] = {} /\ b.limits[u] = {}}}
        \union C
        \union {<<"tool", {t}, {}, b.limits[t]>> :
                  t \in {u \in Tool : b.limits[u] # {}}}
  BY DEF ToolItems
<1> HIDE DEF C
<1>3. i \in {<<"tool", {t}, {}, {}>> :
              t \in {u \in b.names : b.held[u] = {} /\ b.limits[u] = {}}}
      <=> \E t \in b.names : /\ b.held[t] = {} /\ b.limits[t] = {}
                             /\ i = <<"tool", {t}, {}, {}>>
  OBVIOUS
<1>4. i \in {<<"tool", {t}, {}, b.limits[t]>> : t \in {u \in Tool : b.limits[u] # {}}}
      <=> \E t \in Tool : b.limits[t] # {} /\ i = <<"tool", {t}, {}, b.limits[t]>>
  OBVIOUS
<1> QED
  BY <1>1, <1>2, <1>3, <1>4

LEMMA CountsOfText ==
  ASSUME NEW b, Clean(b), NEW k \in Kinds
  PROVE  Smallest(CountsFor(Text(b), k)) = b.limits[k]
<1>0. b.limits[k] \in SUBSET Nat /\ AtMostOne(b.limits[k])
  BY DEF Clean, Good, Single, BudgetType
<1> SUFFICES CountsFor(Text(b), k) = b.limits[k]
  BY <1>0, SmallestOfOne
<1>1. CASE k \in {"fs", "net"}
  <2>1. CountsFor(Text(b), k) = UNION {i[4] : i \in Of(Text(b), k)}
    BY <1>1 DEF CountsFor
  <2>2. CASE k \notin b.effects
    <3>1. Of(Text(b), k) = {} /\ b.limits[k] = {}
      BY <1>1, <2>2, OfText DEF Clean
    <3> QED
      BY <2>1, <3>1
  <2>3. CASE k \in b.effects
    <3> DEFINE F == Of(Text(b), k)
    <3>1. F = Spec1(b, k) /\ F # {}
      BY <2>3, OfText, ItemsOfOne
    <3>2. \A i \in FsItems(b) : i[4] = b.limits["fs"]
      <4>1. CASE b.fs = {}
        BY <4>1 DEF FsItems
      <4>2. CASE b.fs # {}
        BY <4>2 DEF FsItems
      <4> QED
        BY <4>1, <4>2
    <3>3. \A i \in NetItems(b) : i[4] = b.limits["net"]
      <4>1. CASE b.net = {}
        BY <4>1 DEF NetItems
      <4>2. CASE b.net # {}
        BY <4>2 DEF NetItems
      <4> QED
        BY <4>1, <4>2
    <3>4. \A i \in F : i[4] = b.limits[k]
      BY <1>1, <3>1, <3>2, <3>3, Written
    <3> HIDE DEF F
    <3>5. UNION {i[4] : i \in F} = b.limits[k]
      BY <3>1, <3>4, SameFourth
    <3> QED
      BY <2>1, <3>5 DEF F
  <2> QED
    BY <2>2, <2>3
<1>2. CASE k \notin {"fs", "net"}
  <2> DEFINE F == {j \in Of(Text(b), "tool") : j[2] = IF k = Total THEN {} ELSE {k}}
  <2>1. CountsFor(Text(b), k) = UNION {i[4] : i \in F}
    BY <1>2 DEF CountsFor
  <2>2. CASE "tool" \notin b.effects
    <3>1. F = {} /\ b.limits[k] = {}
      BY <1>2, <2>2, OfText DEF Clean, Kinds
    <3> QED
      BY <2>1, <3>1
  <2>3. CASE "tool" \in b.effects
    <3>1. F = {j \in ToolItems(b) : j[2] = IF k = Total THEN {} ELSE {k}}
      BY <2>3, OfText, Written
    <3>2. ASSUME NEW i \in F PROVE i[4] \in {{}, b.limits[k]}
      <4>1. i \in ToolItems(b) /\ i[2] = IF k = Total THEN {} ELSE {k}
        BY <3>1, <3>2
      <4>2. CASE i = <<"tool", {}, {}, b.limits[Total]>>
        BY <4>1, <4>2
      <4>3. ASSUME NEW t \in b.names, i = <<"tool", {t}, {}, {}>> PROVE i[4] = {}
        BY <4>3
      <4>4. ASSUME NEW t \in b.names, NEW c \in b.held[t],
                   i = <<"tool", {t}, {c}, {}>>
            PROVE  i[4] = {}
        BY <4>4
      <4>5. ASSUME NEW t \in Tool, i = <<"tool", {t}, {}, b.limits[t]>>
            PROVE  i[4] = b.limits[k]
        BY <4>1, <4>5
      <4> QED
        BY <4>1, <4>2, <4>3, <4>4, <4>5, ToolItem
    <3>3. ASSUME b.limits[k] # {} PROVE \E i \in F : i[4] = b.limits[k]
      <4>1. CASE k = Total
        <5> DEFINE i == <<"tool", {}, {}, b.limits[Total]>>
        <5>1. i \in ToolItems(b)
          BY <3>3, <4>1, ToolItem
        <5> QED
          BY <3>1, <4>1, <5>1
      <4>2. CASE k # Total
        <5> DEFINE i == <<"tool", {k}, {}, b.limits[k]>>
        <5>1. k \in Tool
          BY <1>2, <4>2 DEF Kinds
        <5>2. i \in ToolItems(b)
          BY <3>3, <5>1, ToolItem
        <5> QED
          BY <3>1, <4>2, <5>2
      <4> QED
        BY <4>1, <4>2
    <3> HIDE DEF F
    <3>4. UNION {i[4] : i \in F} = b.limits[k]
      BY <3>2, <3>3, SameFourth
    <3> QED
      BY <2>1, <3>4
  <2> QED
    BY <2>2, <2>3
<1> QED
  BY <1>1, <1>2

\* the one budget that does not survive: every tool, with a count of them all
Both(b) == b.allTools /\ b.limits[Total] # {}

LEMMA ToolsOfText ==
  ASSUME NEW b, Clean(b), ~Both(b)
  PROVE  LET T == Of(Text(b), "tool")
         IN  /\ EveryTool(T) <=> b.allTools
             /\ ~b.allTools => UNION {i[2] : i \in T} = b.names
             /\ \A t \in Tool : ~b.allTools =>
                  /\ <<"tool", {t}, {}, {}>> \in T => b.held[t] = {}
                  /\ <<"tool", {t}, {}, {}>> \notin T => HeldMeant(T, t) = b.held[t]
<1>0. b.names \subseteq Tool /\ \A t \in Tool : b.held[t] \subseteq Constraint
  BY DEF Clean, Good, BudgetType
<1>1. CASE "tool" \notin b.effects
  <2>1. Of(Text(b), "tool") = {} /\ ~b.allTools /\ b.names = {}
        /\ \A t \in Tool : b.held[t] = {}
    BY <1>1, OfText DEF Clean
  <2> QED
    BY <2>1 DEF EveryTool, HeldMeant
<1>2. CASE "tool" \in b.effects
  <2> DEFINE T == ToolItems(b)
  <2>1. Of(Text(b), "tool") = T
    BY <1>2, OfText, Written
  <2> HIDE DEF T
  <2>2. ASSUME b.allTools PROVE EveryTool(T)
    <3>1. <<"tool", {}, {}, {}>> \in T
      BY <2>2, ToolItem DEF Both, T
    <3> QED
      BY <3>1 DEF EveryTool
  <2>3. ASSUME ~b.allTools, NEW t \in b.names
        PROVE  \E i \in T : i[2] = {t}
    <3>1. t \in Tool
      BY <1>0
    <3>2. CASE b.limits[t] # {}
      <4>1. <<"tool", {t}, {}, b.limits[t]>> \in T
        BY <3>1, <3>2, ToolItem DEF T
      <4> QED
        BY <4>1
    <3>3. CASE b.held[t] # {}
      <4>1. PICK c \in b.held[t] : TRUE
        BY <3>3
      <4>2. <<"tool", {t}, {c}, {}>> \in T
        BY <4>1, ToolItem DEF T
      <4> QED
        BY <4>2
    <3>4. CASE b.limits[t] = {} /\ b.held[t] = {}
      <4>1. <<"tool", {t}, {}, {}>> \in T
        BY <3>4, ToolItem DEF T
      <4> QED
        BY <4>1
    <3> QED
      BY <3>2, <3>3, <3>4
  <2>4. ASSUME ~b.allTools, NEW i \in T PROVE i[2] \subseteq b.names
    <3>1. CASE i = <<"tool", {}, {}, b.limits[Total]>>
      BY <3>1
    <3>2. ASSUME NEW t \in b.names, i = <<"tool", {t}, {}, {}>>
          PROVE  i[2] \subseteq b.names
      BY <3>2
    <3>3. ASSUME NEW t \in b.names, NEW c \in b.held[t], i = <<"tool", {t}, {c}, {}>>
          PROVE  i[2] \subseteq b.names
      BY <3>3
    <3>4. ASSUME NEW t \in Tool, b.limits[t] # {}, i = <<"tool", {t}, {}, b.limits[t]>>
          PROVE  i[2] \subseteq b.names
      <4>1. t \in b.names
        BY <2>4, <3>4 DEF Clean
      <4> QED
        BY <3>4, <4>1
    <3>5. i \in ToolItems(b)
      BY <2>4 DEF T
    <3> QED
      BY <3>1, <3>2, <3>3, <3>4, <3>5, ToolItem
  <2>5. ASSUME ~b.allTools PROVE ~ EveryTool(T)
    <3>1. <<"tool", {}, {}, {}>> \notin T
      <4>1. <<"tool", {}, {}, {}>> # <<"tool", {}, {}, b.limits[Total]>>
            \/ b.limits[Total] = {}
        OBVIOUS
      <4>2. \A t, c, n : <<"tool", {}, {}, {}>> # <<"tool", {t}, c, n>>
        OBVIOUS
      <4> QED
        BY <2>5, <4>1, <4>2, ToolItem DEF T
    <3>2. PICK t \in b.names : TRUE
      BY <1>2, <2>5 DEF Clean
    <3>3. PICK i \in T : i[2] = {t}
      BY <2>3, <2>5
    <3> QED
      BY <3>1, <3>3 DEF EveryTool
  <2>6. ASSUME ~b.allTools PROVE UNION {i[2] : i \in T} = b.names
    <3> DEFINE U == UNION {i[2] : i \in T}
    <3>1. \A x : x \in U <=> \E i \in T : x \in i[2]
      OBVIOUS
    <3> QED
      BY <2>3, <2>4, <2>6, <3>1
  <2>7. ASSUME NEW t \in Tool, ~b.allTools, <<"tool", {t}, {}, {}>> \in T
        PROVE  b.held[t] = {}
    <3> DEFINE p == <<"tool", {t}, {}, {}>>
    <3>1. p # <<"tool", {}, {}, b.limits[Total]>>
      OBVIOUS
    <3>2. \A u, c : p # <<"tool", {u}, {c}, {}>>
      OBVIOUS
    <3>3. \A u : b.limits[u] # {} => p # <<"tool", {u}, {}, b.limits[u]>>
      OBVIOUS
    <3>4. \A u : p = <<"tool", {u}, {}, {}>> => u = t
      OBVIOUS
    <3>5. p \in ToolItems(b)
      BY <2>7 DEF T
    <3> HIDE DEF p
    <3> QED
      BY <3>1, <3>2, <3>3, <3>4, <3>5, ToolItem
  <2>8. ASSUME NEW t \in Tool, ~b.allTools PROVE HeldMeant(T, t) = b.held[t]
    <3> DEFINE H == {j \in T : j[2] = {t}}
               U == UNION {i[3] : i \in H}
    <3>1. \A x : x \in U <=> \E i \in H : x \in i[3]
      OBVIOUS
    <3>2. ASSUME NEW i \in T, i[2] = {t} PROVE i[3] \subseteq b.held[t]
      <4>1. CASE i = <<"tool", {}, {}, b.limits[Total]>>
        BY <4>1
      <4>2. ASSUME NEW u \in b.names, i = <<"tool", {u}, {}, {}>>
            PROVE  i[3] \subseteq b.held[t]
        BY <4>2
      <4>3. ASSUME NEW u \in b.names, NEW c \in b.held[u], i = <<"tool", {u}, {c}, {}>>
            PROVE  i[3] \subseteq b.held[t]
        <5>1. i[2] = {u} /\ i[3] = {c}
          BY <4>3
        <5>2. u = t
          BY <3>2, <5>1
        <5> QED
          BY <5>1, <5>2
      <4>4. ASSUME NEW u \in Tool, i = <<"tool", {u}, {}, b.limits[u]>>
            PROVE  i[3] \subseteq b.held[t]
        BY <4>4
      <4>5. i \in ToolItems(b)
        BY <3>2 DEF T
      <4> QED
        BY <4>1, <4>2, <4>3, <4>4, <4>5, ToolItem
    <3>3. ASSUME NEW c \in b.held[t] PROVE \E i \in H : c \in i[3]
      <4>1. t \in b.names
        BY <3>3 DEF Clean
      <4>2. <<"tool", {t}, {c}, {}>> \in T
        BY <3>3, <4>1, ToolItem DEF T
      <4> QED
        BY <4>2
    <3>4. U = b.held[t]
      BY <3>1, <3>2, <3>3
    <3> QED
      BY <3>4 DEF HeldMeant
  <2> QED
    BY <2>1, <2>2, <2>5, <2>6, <2>7, <2>8
<1> QED
  BY <1>1, <1>2

LEMMA MeaningOfText ==
  ASSUME NEW b, Clean(b), ~Both(b)
  PROVE  Meaning(Text(b)) = b
<1> DEFINE I == Text(b)
           T == Of(I, "tool")
           every == EveryTool(T)
           meant == [t \in Tool |->
                       IF every \/ <<"tool", {t}, {}, {}>> \in T THEN {}
                       ELSE HeldMeant(T, t)]
           named == IF every THEN {} ELSE UNION {i[2] : i \in T}
           limits == [k \in Kinds |-> Smallest(CountsFor(I, k))]
<1>0. b \in BudgetType
  BY DEF Clean, Good
<1>1. limits = b.limits
  <2>1. \A k \in Kinds : Smallest(CountsFor(I, k)) = b.limits[k]
    BY CountsOfText
  <2> QED
    BY <1>0, <2>1 DEF BudgetType
<1>2. /\ every <=> b.allTools
      /\ ~b.allTools => UNION {i[2] : i \in T} = b.names
      /\ \A t \in Tool : ~b.allTools =>
           /\ <<"tool", {t}, {}, {}>> \in T => b.held[t] = {}
           /\ <<"tool", {t}, {}, {}>> \notin T => HeldMeant(T, t) = b.held[t]
  BY ToolsOfText
<1>3. b.allTools => b.names = {} /\ \A t \in Tool : b.held[t] = {}
  BY DEF Clean
<1>4. every = b.allTools
  <2>1. every \in BOOLEAN /\ b.allTools \in BOOLEAN
    BY <1>0 DEF EveryTool, BudgetType
  <2> QED
    BY <1>2, <2>1
<1>5. meant = b.held
  <2> HIDE DEF every, T
  <2>1. \A t \in Tool : meant[t] = b.held[t]
    BY <1>2, <1>3
  <2> QED
    BY <1>0, <2>1 DEF BudgetType
<1>6. named = b.names
  <2> HIDE DEF every
  <2> QED
    BY <1>2, <1>3
<1>7. Meaning(I) =
        [NoBudget EXCEPT
          !.effects = {i[1] : i \in I}, !.modules = ModulesMeant(Of(I, "ffi")),
          !.fs = FilesMeant(Of(I, "fs")), !.net = HostsMeant(Of(I, "net")),
          !.limits = limits, !.names = named, !.held = meant, !.allTools = every]
  BY DEF Meaning
<1> HIDE DEF every, meant, named, limits, I, T
<1>8. Meaning(I) =
        [effects |-> {i[1] : i \in I}, modules |-> ModulesMeant(Of(I, "ffi")),
         ffiAny |-> FALSE, fs |-> FilesMeant(Of(I, "fs")), fsAny |-> FALSE,
         net |-> HostsMeant(Of(I, "net")), netAny |-> FALSE,
         limits |-> limits, names |-> named, held |-> meant,
         toolAny |-> FALSE, toolPlain |-> {}, allTools |-> every]
  BY <1>7 DEF NoBudget
<1>9. /\ {i[1] : i \in I} = b.effects /\ ModulesMeant(Of(I, "ffi")) = b.modules
      /\ FilesMeant(Of(I, "fs")) = b.fs /\ HostsMeant(Of(I, "net")) = b.net
  BY EffectsOfText, ModulesOfText, FilesOfText, HostsOfText DEF I
<1>10. Meaning(I) =
        [effects |-> b.effects, modules |-> b.modules,
         ffiAny |-> FALSE, fs |-> b.fs, fsAny |-> FALSE,
         net |-> b.net, netAny |-> FALSE,
         limits |-> b.limits, names |-> b.names, held |-> b.held,
         toolAny |-> FALSE, toolPlain |-> {}, allTools |-> b.allTools]
  BY <1>1, <1>4, <1>5, <1>6, <1>8, <1>9
<1>11. /\ b.ffiAny = FALSE /\ b.fsAny = FALSE /\ b.netAny = FALSE
       /\ b.toolAny = FALSE /\ b.toolPlain = {}
  BY <1>0 DEF Clean, BudgetType
<1>12. Meaning(I) = b
  BY <1>0, <1>10, <1>11 DEF BudgetType
<1> QED
  BY <1>12 DEF I

LEMMA TextGrants ==
  ASSUME NEW b, Clean(b), NEW i \in Text(b)
  PROVE  IsGrant(i)
<1>0. b \in BudgetType /\ Single(b)
  BY DEF Clean, Good
<1>1. PICK e \in b.effects : i \in Spec1(b, e)
  BY DEF Text
<1>2. e \in Effects
  BY <1>0 DEF BudgetType
<1>3. \A k \in Kinds : b.limits[k] \in SUBSET Nat /\ AtMostOne(b.limits[k])
  BY <1>0 DEF BudgetType, Single
<1>4. CASE e = "fs"
  <2>0. i \in FsItems(b)
    BY <1>1, <1>4, Written
  <2>1. b.limits["fs"] \in SUBSET Nat /\ AtMostOne(b.limits["fs"])
    BY <1>3 DEF Kinds
  <2>2. CASE b.fs = {}
    <3>1. i = <<"fs", "any", {}, b.limits["fs"]>>
      BY <2>0, <2>2 DEF FsItems
    <3>2. {} \in Optional(Path)
      BY DEF Optional, AtMostOne
    <3> QED
      BY <2>1, <3>1, <3>2 DEF IsGrant, IsFs
  <2>3. CASE b.fs # {}
    <3>1. PICK g \in b.fs : i = <<"fs", g[1], g[2], b.limits["fs"]>>
      BY <2>0, <2>3 DEF FsItems
    <3>2. g[1] \in {"read", "write"} /\ g[2] \in Optional(Path)
      BY <1>0 DEF BudgetType
    <3> QED
      BY <2>1, <3>1, <3>2 DEF IsGrant, IsFs
  <2> QED
    BY <2>2, <2>3
<1>5. CASE e = "net"
  <2>0. i \in NetItems(b)
    BY <1>1, <1>5, Written
  <2>1. b.limits["net"] \in SUBSET Nat /\ AtMostOne(b.limits["net"])
    BY <1>3 DEF Kinds
  <2>2. CASE b.net = {}
    <3>1. i = <<"net", {}, {}, b.limits["net"]>>
      BY <2>0, <2>2 DEF NetItems
    <3>2. {} \in Optional(Pattern) /\ {} \in Optional(Port)
      BY DEF Optional, AtMostOne
    <3> QED
      BY <2>1, <3>1, <3>2 DEF IsGrant, IsNet
  <2>3. CASE b.net # {}
    <3>1. PICK g \in b.net : i = <<"net", {g[1]}, g[2], b.limits["net"]>>
      BY <2>0, <2>3 DEF NetItems
    <3>2. g[1] \in Pattern /\ g[2] \in Optional(Port)
      BY <1>0 DEF BudgetType
    <3>3. {g[1]} \in Optional(Pattern)
      BY <3>2 DEF Optional, AtMostOne
    <3> QED
      BY <2>1, <3>1, <3>2, <3>3 DEF IsGrant, IsNet
  <2> QED
    BY <2>2, <2>3
<1>6. CASE e = "ffi"
  <2>1. i = <<"ffi", b.modules>>
    BY <1>1, <1>6, Written
  <2>2. b.modules \in SUBSET Module
    BY <1>0 DEF BudgetType
  <2> QED
    BY <2>1, <2>2 DEF IsGrant, IsFfi
<1>7. CASE e = "tool"
  <2>0. i \in ToolItems(b)
    BY <1>1, <1>7, Written
  <2>1. b.names \subseteq Tool /\ \A t \in Tool : b.held[t] \subseteq Constraint
    BY <1>0 DEF BudgetType
  <2>2. /\ {} \in Optional(Tool) /\ {} \in Optional(Constraint)
        /\ \A t \in Tool : {t} \in Optional(Tool)
        /\ \A c \in Constraint : {c} \in Optional(Constraint)
        /\ AtMostOne({}) /\ {} \in SUBSET Nat
    BY DEF Optional, AtMostOne
  <2>3. CASE i = <<"tool", {}, {}, b.limits[Total]>>
    <3>1. b.limits[Total] \in SUBSET Nat /\ AtMostOne(b.limits[Total])
      BY <1>3 DEF Kinds
    <3> QED
      BY <2>2, <2>3, <3>1 DEF IsGrant, IsTool
  <2>4. ASSUME NEW t \in b.names, i = <<"tool", {t}, {}, {}>> PROVE IsGrant(i)
    BY <2>1, <2>2, <2>4 DEF IsGrant, IsTool
  <2>5. ASSUME NEW t \in b.names, NEW c \in b.held[t], i = <<"tool", {t}, {c}, {}>>
        PROVE  IsGrant(i)
    BY <2>1, <2>2, <2>5 DEF IsGrant, IsTool
  <2>6. ASSUME NEW t \in Tool, i = <<"tool", {t}, {}, b.limits[t]>> PROVE IsGrant(i)
    <3>1. b.limits[t] \in SUBSET Nat /\ AtMostOne(b.limits[t])
      BY <1>3 DEF Kinds
    <3> QED
      BY <2>2, <2>6, <3>1 DEF IsGrant, IsTool
  <2> QED
    BY <2>0, <2>3, <2>4, <2>5, <2>6, ToolItem
<1>8. CASE e \in Plain
  BY <1>1, <1>8, Written DEF IsGrant
<1> QED
  BY <1>2, <1>4, <1>5, <1>6, <1>7, <1>8 DEF Effects

LEMMA TextFinite ==
  ASSUME NEW b, Clean(b)
  PROVE  IsFiniteSet(Text(b))
<1>0. b.effects \subseteq Effects /\ Finite(b) /\ b.names \subseteq Tool
  BY DEF Clean, Good, BudgetType
<1>1. IsFiniteSet(FsItems(b))
  <2> DEFINE f == [g \in b.fs |-> <<"fs", g[1], g[2], b.limits["fs"]>>]
  <2>1. IsFiniteSet({f[g] : g \in b.fs})
    BY <1>0, ImageFinite, ZenonT(40) DEF Finite
  <2>2. CASE b.fs = {}
    BY <2>2, FS_Singleton DEF FsItems
  <2>3. CASE b.fs # {}
    BY <2>1, <2>3 DEF FsItems
  <2> QED
    BY <2>2, <2>3
<1>2. IsFiniteSet(NetItems(b))
  <2> DEFINE f == [g \in b.net |-> <<"net", {g[1]}, g[2], b.limits["net"]>>]
  <2>1. IsFiniteSet({f[g] : g \in b.net})
    <3>1. IsFiniteSet(b.net) /\ f = [g \in b.net |-> f[g]]
      BY <1>0 DEF Finite
    <3> HIDE DEF f
    <3> QED
      BY <3>1, ImageFinite
  <2>2. CASE b.net = {}
    BY <2>2, FS_Singleton DEF NetItems
  <2>3. CASE b.net # {}
    BY <2>1, <2>3 DEF NetItems
  <2> QED
    BY <2>2, <2>3
<1>3. IsFiniteSet(ToolItems(b))
  <2> DEFINE total == <<"tool", {}, {}, b.limits[Total]>>
             plain == [t \in b.names |-> <<"tool", {t}, {}, {}>>]
             one(t) == [c \in b.held[t] |-> <<"tool", {t}, {c}, {}>>]
             each == [t \in b.names |-> {one(t)[c] : c \in b.held[t]}]
             L == {t \in Tool : b.limits[t] # {}}
             counted == [t \in L |-> <<"tool", {t}, {}, b.limits[t]>>]
             A == {plain[t] : t \in b.names}
             B == UNION {each[t] : t \in b.names}
             C == {counted[t] : t \in L}
  <2>1. IsFiniteSet(A) /\ IsFiniteSet({each[t] : t \in b.names})
    <3>1. /\ IsFiniteSet(b.names) /\ plain = [t \in b.names |-> plain[t]]
          /\ each = [t \in b.names |-> each[t]]
      BY <1>0 DEF Finite
    <3> HIDE DEF plain, each
    <3>2. IsFiniteSet({plain[t] : t \in b.names})
      BY <3>1, ImageFinite
    <3>3. IsFiniteSet({each[t] : t \in b.names})
      BY <3>1, ImageFinite
    <3> QED
      BY <3>2, <3>3
  <2>2. \A t \in b.names : IsFiniteSet({one(t)[c] : c \in b.held[t]})
    <3> TAKE t \in b.names
    <3>1. IsFiniteSet(b.held[t]) /\ one(t) = [c \in b.held[t] |-> one(t)[c]]
      BY <1>0 DEF Finite
    <3> HIDE DEF one
    <3> QED
      BY <3>1, ImageFinite
  <2>3. IsFiniteSet(B)
    <3> DEFINE S == {each[t] : t \in b.names}
    <3>1. \A x \in S : IsFiniteSet(x)
      BY <2>2
    <3> HIDE DEF S
    <3>2. IsFiniteSet(UNION S)
      BY <2>1, <3>1, FS_UNION DEF S
    <3> QED
      BY <3>2 DEF S
  <2>4. IsFiniteSet(C)
    <3>1. IsFiniteSet(L) /\ counted = [t \in L |-> counted[t]]
      BY <1>0 DEF Finite
    <3> HIDE DEF counted, L
    <3> QED
      BY <3>1, ImageFinite
  <2>5. \A i \in ToolItems(b) : i = total \/ i \in A \/ i \in B \/ i \in C
    <3> TAKE i \in ToolItems(b)
    <3>1. ASSUME NEW t \in b.names, NEW c \in b.held[t], i = <<"tool", {t}, {c}, {}>>
          PROVE  i \in B
      <4>1. i = one(t)[c] /\ each[t] = {one(t)[d] : d \in b.held[t]}
        BY <3>1
      <4> HIDE DEF one, each
      <4>2. i \in each[t]
        BY <4>1
      <4> QED
        BY <4>2
    <3>2. ASSUME NEW t \in b.names, i = <<"tool", {t}, {}, {}>> PROVE i \in A
      BY <3>2
    <3>3. ASSUME NEW t \in Tool, b.limits[t] # {}, i = <<"tool", {t}, {}, b.limits[t]>>
          PROVE  i \in C
      BY <3>3
    <3> HIDE DEF A, B, C
    <3> QED
      BY <3>1, <3>2, <3>3, ToolItem
  <2> HIDE DEF A, B, C, total
  <2>6. IsFiniteSet({total}) /\ IsFiniteSet(A \union B)
    BY <2>1, <2>3, FS_Singleton, FS_Union
  <2>7. IsFiniteSet((A \union B) \union C)
    BY <2>4, <2>6, FS_Union
  <2>8. IsFiniteSet({total} \union ((A \union B) \union C))
    BY <2>6, <2>7, FS_Union
  <2> QED
    BY <2>5, <2>8, FS_Subset
<1>4. \A e \in b.effects : IsFiniteSet(Spec1(b, e))
  <2> TAKE e \in b.effects
  <2>1. CASE e \in Plain
    <3>1. Spec1(b, e) = {<<e>>}
      BY <2>1, Written
    <3> QED
      BY <3>1, FS_Singleton
  <2>2. Spec1(b, "ffi") = {<<"ffi", b.modules>>}
    BY Written
  <2>3. IsFiniteSet(Spec1(b, "ffi"))
    BY <2>2, FS_Singleton
  <2> QED
    BY <1>0, <1>1, <1>2, <1>3, <2>1, <2>3, Written DEF Effects
<1>5. IsFiniteSet(b.effects)
  <2>1. Effects = {"io"} \union ({"env"} \union ({"clock"} \union ({"rand"} \union
                  ({"declassify"} \union ({"fs"} \union ({"net"} \union
                  ({"ffi"} \union {"tool"})))))))
    BY DEF Effects, Plain
  <2>2. IsFiniteSet(Effects)
    BY <2>1, FS_Singleton, FS_Union
  <2> QED
    BY <1>0, <2>2, FS_Subset
<1> DEFINE f == [e \in b.effects |-> Spec1(b, e)]
<1>6. IsFiniteSet({f[e] : e \in b.effects})
  BY <1>5, ImageFinite
<1>7. {f[e] : e \in b.effects} = {Spec1(b, e) : e \in b.effects}
  OBVIOUS
<1>8. \A x \in {Spec1(b, e) : e \in b.effects} : IsFiniteSet(x)
  BY <1>4
<1> HIDE DEF f
<1>9. IsFiniteSet({Spec1(b, e) : e \in b.effects})
  BY <1>6, <1>7
<1> QED
  BY <1>8, <1>9, FS_UNION DEF Text

\* a budget that is clean, spec and parse give back
LEMMA TextRoundTrips ==
  ASSUME NEW b, Clean(b), ~Both(b)
  PROVE  Parse(SpecText(b)) = b
<1> DEFINE S == Text(b)
           q == SetToSeq(S)
           n == Cardinality(S)
           c == FoldLeft(Add, NoBudget, q)
<1>1. n \in Nat /\ DOMAIN q = 1..n /\ {q[k] : k \in 1..n} = S
  BY TextFinite, TextOf
<1>2. SpecText(b) = q
  BY DEF SpecText, Text
<1> HIDE DEF S, q, n
<1>3. \A k \in 1..n : q[k] \in S
  BY <1>1
<1>4. \A i \in S : IsGrant(i)
  BY TextGrants DEF S
<1>5. \A k \in 1..n : IsGrant(q[k])
  BY <1>3, <1>4
<1>6. Good(c) /\ Writes(c, {q[k] : k \in 1..n})
  BY <1>1, <1>5, FoldWrites
<1> HIDE DEF c
<1>7. Good(c) /\ Writes(c, S)
  BY <1>1, <1>6
<1>8. Parsed(c) = Meaning(S)
  BY <1>4, <1>7, ParsedMeans
<1>9. Meaning(S) = b
  BY MeaningOfText DEF S
<1> QED
  BY <1>2, <1>8, <1>9 DEF Parse, c

\* the union of finitely many sets of at most one
LEMMA UnionFinite ==
  ASSUME NEW S, IsFiniteSet(S), NEW f, f = [x \in S |-> f[x]],
         \A x \in S : IsFiniteSet(f[x])
  PROVE  IsFiniteSet(UNION {f[x] : x \in S})
<1> DEFINE R == {f[x] : x \in S}
<1>1. IsFiniteSet(R)
  BY ImageFinite
<1>2. \A y \in R : IsFiniteSet(y)
  OBVIOUS
<1> HIDE DEF R
<1>3. IsFiniteSet(UNION R)
  BY <1>1, <1>2, FS_UNION
<1> QED
  BY <1>3 DEF R

LEMMA MeaningFinite ==
  ASSUME NEW I, IsFiniteSet(I), \A i \in I : IsGrant(i), NEW m, m = Meaning(I)
  PROVE  Finite(m)
<1> DEFINE T == Of(I, "tool")
           N == UNION {i[2] : i \in T}
<1>p. Means(I, m)
  BY MeaningParts
<1>0. \A e : IsFiniteSet(Of(I, e))
  BY FS_Subset DEF Of
<1>1. /\ \A i \in Of(I, "net") : AtMostOne(i[2])
      /\ \A i \in T : AtMostOne(i[2]) /\ AtMostOne(i[3])
  BY GrantKinds DEF Of, IsNet, IsTool, Optional
<1>2. IsFiniteSet(m.fs)
  <2> DEFINE F == Of(I, "fs")
             f == [i \in F |-> <<i[2], i[3]>>]
  <2>1. IsFiniteSet(F) /\ f = [i \in F |-> f[i]] /\ m.fs = FilesMeant(F)
    BY <1>0, <1>p DEF Means
  <2>2. {f[i] : i \in F} = {<<i[2], i[3]>> : i \in F}
    OBVIOUS
  <2> HIDE DEF F, f
  <2>3. IsFiniteSet({f[i] : i \in F})
    BY <2>1, ImageFinite
  <2> QED
    BY <2>1, <2>2, <2>3, FS_EmptySet DEF FilesMeant
<1>3. IsFiniteSet(m.net)
  <2> DEFINE F == Of(I, "net")
             f == [i \in F |-> i[2] \X {i[3]}]
  <2>1. IsFiniteSet(F) /\ f = [i \in F |-> f[i]] /\ m.net = HostsMeant(F)
    BY <1>0, <1>p DEF Means
  <2>2. {f[i] : i \in F} = {i[2] \X {i[3]} : i \in F}
    OBVIOUS
  <2>3. \A i \in F : IsFiniteSet(f[i])
    <3> TAKE i \in F
    <3>1. IsFiniteSet(i[2]) /\ IsFiniteSet({i[3]})
      BY <1>1, AtMostOneFinite, FS_Singleton
    <3> QED
      BY <3>1, FS_Product
  <2> HIDE DEF F, f
  <2>4. IsFiniteSet(UNION {f[i] : i \in F})
    BY <2>1, <2>3, UnionFinite
  <2> QED
    BY <2>1, <2>2, <2>4, FS_EmptySet DEF HostsMeant
<1>4. IsFiniteSet(N)
  <2> DEFINE f == [i \in T |-> i[2]]
  <2>1. IsFiniteSet(T) /\ f = [i \in T |-> f[i]]
    BY <1>0
  <2>2. {f[i] : i \in T} = {i[2] : i \in T}
    OBVIOUS
  <2>3. \A i \in T : IsFiniteSet(f[i])
    BY <1>1, AtMostOneFinite
  <2> HIDE DEF T, f
  <2>4. IsFiniteSet(UNION {f[i] : i \in T})
    BY <2>1, <2>3, UnionFinite
  <2> QED
    BY <2>2, <2>4
<1>5. IsFiniteSet(m.names)
  BY <1>4, <1>p, FS_EmptySet DEF Means
<1>6. ASSUME NEW t \in Tool PROVE IsFiniteSet(m.held[t])
  <2> DEFINE H == {j \in T : j[2] = {t}}
             f == [i \in H |-> i[3]]
  <2>1. IsFiniteSet(H) /\ f = [i \in H |-> f[i]]
    BY <1>0, FS_Subset
  <2>2. {f[i] : i \in H} = {i[3] : i \in H}
    OBVIOUS
  <2>3. \A i \in H : IsFiniteSet(f[i])
    BY <1>1, AtMostOneFinite
  <2>4. HeldMeant(T, t) = UNION {i[3] : i \in H}
    BY DEF HeldMeant
  <2> HIDE DEF H, f
  <2>5. IsFiniteSet(UNION {f[i] : i \in H})
    BY <2>1, <2>3, UnionFinite
  <2>6. IsFiniteSet(HeldMeant(T, t))
    BY <2>2, <2>4, <2>5
  <2> QED
    BY <2>6, <1>p, FS_EmptySet DEF Means
<1>7. IsFiniteSet({t \in Tool : m.limits[t] # {}})
  <2>1. ASSUME NEW t \in Tool, m.limits[t] # {} PROVE t \in N
    <3>1. t \in Kinds /\ t # Total /\ t \notin {"fs", "net"}
      BY ToolAssumption DEF Kinds, Total
    <3>2. m.limits[t] = Smallest(CountsFor(I, t))
      BY <3>1, <1>p DEF Means
    <3>3. CountsFor(I, t) # {}
      BY <2>1, <3>2 DEF Smallest
    <3>4. PICK i \in T : i[2] = {t}
      BY <3>1, <3>3 DEF CountsFor
    <3> QED
      BY <3>4
  <2> HIDE DEF N
  <2>2. {t \in Tool : m.limits[t] # {}} \in SUBSET N
    BY <2>1
  <2> QED
    BY <1>4, <2>2, FS_Subset
<1> QED
  BY <1>2, <1>3, <1>5, <1>6, <1>7 DEF Finite

LEMMA MeaningClean ==
  ASSUME NEW I, IsFiniteSet(I), \A i \in I : IsGrant(i), NEW m, m = Meaning(I), Good(m)
  PROVE  Clean(m)
<1> DEFINE T == Of(I, "tool")
<1>p. Means(I, m)
  BY MeaningParts
<1>1. Finite(m)
  BY MeaningFinite
<1>2. \A e : e \notin m.effects => Of(I, e) = {}
  BY <1>p DEF Of, Means
<1>3. "fs" \notin m.effects => m.fs = {} /\ m.limits["fs"] = {}
  <2> SUFFICES ASSUME "fs" \notin m.effects PROVE m.fs = {} /\ m.limits["fs"] = {}
    OBVIOUS
  <2>1. Of(I, "fs") = {}
    BY <1>2
  <2>2. CountsFor(I, "fs") = {} /\ FilesMeant({}) = {} /\ "fs" \in Kinds
    BY <2>1 DEF CountsFor, FilesMeant, Kinds
  <2> QED
    BY <2>1, <2>2, <1>p DEF Smallest, Means
<1>4. "net" \notin m.effects => m.net = {} /\ m.limits["net"] = {}
  <2> SUFFICES ASSUME "net" \notin m.effects PROVE m.net = {} /\ m.limits["net"] = {}
    OBVIOUS
  <2>1. Of(I, "net") = {}
    BY <1>2
  <2>2. CountsFor(I, "net") = {} /\ HostsMeant({}) = {} /\ "net" \in Kinds
    BY <2>1 DEF CountsFor, HostsMeant, Kinds
  <2> QED
    BY <2>1, <2>2, <1>p DEF Smallest, Means
<1>5. "ffi" \notin m.effects => m.modules = {}
  BY <1>2, <1>p DEF ModulesMeant, Means
<1>6. "tool" \notin m.effects =>
        ~m.allTools /\ m.names = {} /\ \A k \in {Total} \union Tool : m.limits[k] = {}
  <2> SUFFICES ASSUME "tool" \notin m.effects
               PROVE  /\ ~m.allTools /\ m.names = {}
                      /\ \A k \in {Total} \union Tool : m.limits[k] = {}
    OBVIOUS
  <2>1. T = {}
    BY <1>2
  <2>2. ~ EveryTool({})
    BY DEF EveryTool
  <2>3. ~m.allTools /\ m.names = {}
    BY <2>1, <2>2, <1>p DEF Means
  <2>4. ASSUME NEW k \in {Total} \union Tool PROVE m.limits[k] = {}
    <3>1. k \in Kinds /\ k \notin {"fs", "net"}
      BY ToolAssumption DEF Kinds, Total
    <3>2. CountsFor(I, k) = {}
      BY <2>1, <3>1 DEF CountsFor
    <3> QED
      BY <3>1, <3>2, <1>p DEF Smallest, Means
  <2> QED
    BY <2>3, <2>4
<1>7. "tool" \in m.effects => (m.allTools <=> m.names = {})
  <2> SUFFICES ASSUME "tool" \in m.effects PROVE m.allTools <=> m.names = {}
    OBVIOUS
  <2>1. T # {}
    BY <1>p DEF Of, Means
  <2>2. m.names = IF EveryTool(T) THEN {} ELSE UNION {i[2] : i \in T}
    BY <1>p DEF Means
  <2>3. m.allTools <=> EveryTool(T)
    BY <1>p DEF Means
  <2>4. ASSUME UNION {i[2] : i \in T} = {} PROVE \A i \in T : i[2] = {}
    BY <2>4
  <2> QED
    BY <2>1, <2>2, <2>3, <2>4 DEF EveryTool
<1>8. ASSUME NEW t \in Tool, t \notin m.names
      PROVE  m.held[t] = {} /\ (m.limits[t] # {} => m.allTools)
  <2>0. t \in Kinds /\ t # Total /\ t \notin {"fs", "net"}
    BY ToolAssumption DEF Kinds, Total
  <2>1. m.names = IF EveryTool(T) THEN {} ELSE UNION {i[2] : i \in T}
    BY <1>p DEF Means
  <2>2. m.allTools <=> EveryTool(T)
    BY <1>p DEF Means
  <2>3. m.held[t] = IF EveryTool(T) \/ <<"tool", {t}, {}, {}>> \in T THEN {}
                    ELSE HeldMeant(T, t)
    BY <1>p DEF Means
  <2>4. m.limits[t] = Smallest(CountsFor(I, t))
    BY <2>0, <1>p DEF Means
  <2>5. CASE EveryTool(T)
    BY <2>2, <2>3, <2>5
  <2>6. CASE ~ EveryTool(T)
    <3>1. \A i \in T : i[2] # {t}
      BY <1>8, <2>1, <2>6
    <3>2. HeldMeant(T, t) = {}
      BY <3>1 DEF HeldMeant
    <3>3. CountsFor(I, t) = {}
      BY <2>0, <3>1 DEF CountsFor
    <3> QED
      BY <2>3, <2>4, <3>2, <3>3 DEF Smallest
  <2> QED
    BY <2>5, <2>6
<1>9. ~m.fsAny /\ ~m.netAny /\ ~m.ffiAny /\ ~m.toolAny /\ m.toolPlain = {}
  BY <1>p DEF Means
<1> QED
  BY <1>1, <1>3, <1>4, <1>5, <1>6, <1>7, <1>8, <1>9 DEF Clean

LEMMA DenyClean ==
  ASSUME NEW b, Clean(b), NEW e \in Effects, NEW d, d = Deny(b, e)
  PROVE  Clean(d)
<1>0. Good(b) /\ Finite(b) /\ Good(d)
  BY DenyGood DEF Clean
<1>d. Denied(b, e, d)
  BY <1>0, DenyParts
<1>1. /\ d.toolPlain = b.toolPlain /\ d.effects = b.effects \ {e}
      /\ d.fsAny <=> b.fsAny
      /\ d.netAny <=> b.netAny
      /\ d.ffiAny <=> b.ffiAny
      /\ d.toolAny <=> b.toolAny
  BY <1>d DEF Denied
<1>2. /\ d.fs = IF e = "fs" THEN {} ELSE b.fs
      /\ d.net = IF e = "net" THEN {} ELSE b.net
      /\ d.modules = IF e = "ffi" THEN {} ELSE b.modules
  BY <1>d DEF Denied
<1>3. /\ d.names = IF e = "tool" THEN {} ELSE b.names
      /\ d.allTools <=> e # "tool" /\ b.allTools
      /\ \A t \in Tool : d.held[t] = IF e = "tool" THEN {} ELSE b.held[t]
  BY <1>d DEF Denied
<1>4. /\ \A k \in {"fs", "net"} : d.limits[k] = IF e = k THEN {} ELSE b.limits[k]
      /\ \A k \in {Total} \union Tool :
           d.limits[k] = IF e = "tool" THEN {} ELSE b.limits[k]
  BY <1>d DEF Denied
<1>5. Finite(d)
  <2>1. IsFiniteSet(d.fs) /\ IsFiniteSet(d.net) /\ IsFiniteSet(d.names)
    BY <1>0, <1>2, <1>3, FS_EmptySet DEF Finite
  <2>2. \A t \in Tool : IsFiniteSet(d.held[t])
    BY <1>0, <1>3, FS_EmptySet DEF Finite
  <2>3. {t \in Tool : d.limits[t] # {}} \in SUBSET {t \in Tool : b.limits[t] # {}}
    BY <1>4
  <2>4. IsFiniteSet({t \in Tool : b.limits[t] # {}})
    BY <1>0 DEF Finite
  <2>5. IsFiniteSet({t \in Tool : d.limits[t] # {}})
    BY <2>3, <2>4, FS_Subset
  <2> QED
    BY <2>1, <2>2, <2>5 DEF Finite
<1>6. ~d.fsAny /\ ~d.netAny /\ ~d.ffiAny /\ ~d.toolAny /\ d.toolPlain = {}
  BY <1>1 DEF Clean
<1>7. /\ "fs" \notin d.effects => d.fs = {} /\ d.limits["fs"] = {}
      /\ "net" \notin d.effects => d.net = {} /\ d.limits["net"] = {}
      /\ "ffi" \notin d.effects => d.modules = {}
  BY <1>1, <1>2, <1>4 DEF Clean
<1>8. "tool" \notin d.effects =>
        ~d.allTools /\ d.names = {} /\ \A k \in {Total} \union Tool : d.limits[k] = {}
  BY <1>1, <1>3, <1>4 DEF Clean
<1>9. "tool" \in d.effects => (d.allTools <=> d.names = {})
  BY <1>1, <1>3 DEF Clean
<1>10. ASSUME NEW t \in Tool, t \notin d.names
       PROVE  d.held[t] = {} /\ (d.limits[t] # {} => d.allTools)
  BY <1>3, <1>4, <1>10 DEF Clean
<1> QED
  BY <1>0, <1>5, <1>6, <1>7, <1>8, <1>9, <1>10 DEF Clean

\* what is written is finite, and what is parsed of it is clean
Cleaned ==
  /\ \A r \in Sides : IsFiniteSet(written[r])
  /\ stage \in {"parsed", "denied"} => \A r \in Sides : Clean(budgets[r])

LEMMA CleanedInit == Init => Cleaned
BY FS_EmptySet DEF Init, Cleaned, Sides

LEMMA CleanedStep == Inv /\ Meant /\ Meant' /\ Cleaned /\ [Next]_vars => Cleaned'
<1> SUFFICES ASSUME Inv, Meant, Meant', Cleaned, [Next]_vars PROVE Cleaned'
  OBVIOUS
<1>1. budgets = [r \in Sides |-> budgets[r]] /\ \A r \in Sides : Good(budgets[r])
  BY GoodBudgets DEF Inv, Sides
<1>2. \A r \in Sides : \A i \in written[r] : IsGrant(i)
  BY AreGrants DEF Meant
<1>3. ASSUME NEW r \in Sides, NEW i \in Items[r], Write(r, i) PROVE Cleaned'
  <2>1. stage' = "writing"
    BY <1>3 DEF Write
  <2>2. written' = [written EXCEPT ![r] = written[r] \union {i}]
    BY <1>3 DEF Write
  <2>3. IsFiniteSet(written[r] \union {i})
    BY FS_AddElement DEF Cleaned
  <2>4. \A q \in Sides : written'[q] = IF q = r THEN written[r] \union {i}
                                       ELSE written[q]
    BY <2>2 DEF Meant
  <2> QED
    BY <2>1, <2>3, <2>4 DEF Cleaned
<1>4. CASE ParseBoth
  <2>1. /\ stage = "writing" /\ stage' = "parsed" /\ written' = written
        /\ \A r \in Sides : budgets'[r] = Parsed(budgets[r])
    BY <1>1, <1>4 DEF ParseBoth
  <2>2. ASSUME NEW r \in Sides PROVE Clean(budgets'[r])
    <3>1. budgets'[r] = Meaning(written[r])
      BY <2>1 DEF Meant
    <3>2. Good(budgets'[r])
      BY <1>1, <2>1, ParsedGood
    <3>3. IsFiniteSet(written[r]) /\ \A i \in written[r] : IsGrant(i)
      BY <1>2 DEF Cleaned
    <3> QED
      BY <3>1, <3>2, <3>3, MeaningClean
  <2> QED
    BY <2>1, <2>2 DEF Cleaned
<1>5. ASSUME NEW e \in Effects, DenyEffect(e) PROVE Cleaned'
  <2> DEFINE J == {i \in written["asked"] : i[1] # e}
  <2>1. /\ stage \in {"parsed", "denied"} /\ written' = [written EXCEPT !["asked"] = J]
        /\ budgets' = [budgets EXCEPT !["asked"] = Deny(budgets["asked"], e)]
    BY <1>5 DEF DenyEffect
  <2>2. Clean(Deny(budgets["asked"], e))
    BY <2>1, DenyClean DEF Cleaned, Sides
  <2>3. \A r \in Sides : budgets'[r] = IF r = "asked" THEN Deny(budgets["asked"], e)
                                       ELSE budgets[r]
    BY <1>1, <2>1
  <2>4. IsFiniteSet(J)
    <3>1. J \in SUBSET written["asked"] /\ IsFiniteSet(written["asked"])
      BY DEF Cleaned, Sides
    <3> QED
      BY <3>1, FS_Subset
  <2>5. \A r \in Sides : written'[r] = IF r = "asked" THEN J ELSE written[r]
    BY <2>1 DEF Meant
  <2> HIDE DEF J
  <2> QED
    BY <2>1, <2>2, <2>3, <2>4, <2>5 DEF Cleaned
<1>6. ASSUME UNCHANGED <<stage, written, budgets>> PROVE Cleaned'
  BY <1>6 DEF Cleaned
<1>7. ASSUME stage' \notin {"parsed", "denied"}, UNCHANGED written PROVE Cleaned'
  BY <1>7 DEF Cleaned
<1>8. CASE Hold
  BY <1>7, <1>8 DEF Hold
<1>9. ASSUME NEW op \in Op, Do(op) \/ Refuse(op) PROVE Cleaned'
  BY <1>6, <1>7, <1>9 DEF Do, Refuse
<1>10. CASE Break \/ Rest \/ UNCHANGED vars
  BY <1>6, <1>10 DEF Break, Rest, vars
<1> QED
  BY <1>3, <1>4, <1>5, <1>8, <1>9, <1>10 DEF Next, Sides

\* The budget spec writes as text, one grant after another, is the
\* budget parse reads back - what a worker or a child process is started with -
\* whatever was granted and denied, but for every tool with a count of all.
THEOREM TextSurvives == Spec => []RoundTrips
<1>1. Inv /\ Cleaned => RoundTrips
  <2> SUFFICES ASSUME Inv, Cleaned, stage \in {"parsed", "denied"},
                      NEW r \in DOMAIN budgets,
                      ~ (budgets[r].allTools /\ budgets[r].limits[Total] # {})
               PROVE  Parse(SpecText(budgets[r])) = budgets[r]
    BY DEF RoundTrips
  <2>1. r \in Sides
    BY GoodBudgets DEF Inv, Sides
  <2>2. Clean(budgets[r]) /\ ~Both(budgets[r])
    BY <2>1 DEF Cleaned, Both
  <2> QED
    BY <2>2, TextRoundTrips
<1> QED
  BY InvInit, InvStep, MeantInit, MeantStep, CleanedInit, CleanedStep, <1>1,
     PTL DEF Spec

LEMMA OpKinds ==
  ASSUME NEW op \in Op
  PROVE  \/ \E k \in {"read", "readSecret", "exists", "write"}, p \in Path :
              op = <<"fs", k, p>>
         \/ \E h \in Host, port \in Port : op = <<"net", h, port>>
         \/ \E m \in Module : op = <<"ffi", m>>
         \/ \E t \in Tool, fits \in SUBSET Constraint : op = <<"tool", t, fits>>
         \/ \E e \in Plain : op = <<e>>
<1>1. ASSUME op \in {<<"tool", t, fits>> : t \in Tool, fits \in SUBSET Constraint}
      PROVE  \E t \in Tool, fits \in SUBSET Constraint : op = <<"tool", t, fits>>
  BY <1>1
<1>2. ASSUME op \in {<<"net", h, port>> : h \in Host, port \in Port}
      PROVE  \E h \in Host, port \in Port : op = <<"net", h, port>>
  BY <1>2
<1>3. ASSUME op \in {<<"fs", k, p>> : k \in {"read", "readSecret", "exists", "write"},
                                      p \in Path}
      PROVE  \E k \in {"read", "readSecret", "exists", "write"}, p \in Path :
               op = <<"fs", k, p>>
  BY <1>3
<1>4. ASSUME op \in {<<e>> : e \in Plain} PROVE \E e \in Plain : op = <<e>>
  BY <1>4
<1>5. ASSUME op \in {<<"ffi", m>> : m \in Module}
      PROVE  \E m \in Module : op = <<"ffi", m>>
  BY <1>5
<1>6. \/ op \in {<<"fs", k, p>> : k \in {"read", "readSecret", "exists", "write"},
                                  p \in Path}
      \/ op \in {<<"net", h, port>> : h \in Host, port \in Port}
      \/ op \in {<<"ffi", m>> : m \in Module}
      \/ op \in {<<"tool", t, fits>> : t \in Tool, fits \in SUBSET Constraint}
      \/ op \in {<<e>> : e \in Plain}
  BY DEF Op
<1> QED
  BY <1>1, <1>2, <1>3, <1>4, <1>5, <1>6

\* what a budget's meaning allows, one of its grants covers by itself
LEMMA GrantCovers ==
  ASSUME NEW I, \A i \in I : IsGrant(i), NEW m, Means(I, m),
         NEW op \in Op, Allows(m, op)
  PROVE  \E i \in Of(I, op[1]) : Grants(i, op)
<1>1. op[1] \in m.effects /\ m.effects = {i[1] : i \in I}
  BY DEF Allows, Means
<1>2. PICK j \in Of(I, op[1]) : TRUE
  BY <1>1 DEF Of
<1>3. ASSUME NEW k \in {"read", "readSecret", "exists", "write"}, NEW p \in Path,
             op = <<"fs", k, p>>
      PROVE  \E i \in Of(I, op[1]) : Grants(i, op)
  <2>1. m.fs = FilesMeant(Of(I, "fs")) /\ AllowPath(m, k, p)
    BY <1>3 DEF Means, Allows
  <2>2. \A i \in Of(I, "fs") : i[1] = "fs"
    BY DEF Of
  <2>3. CASE \E i \in Of(I, "fs") : i[2] = "any"
    BY <1>3, <2>2, <2>3 DEF Grants
  <2>4. CASE ~ \E i \in Of(I, "fs") : i[2] = "any"
    <3>1. m.fs = {<<i[2], i[3]>> : i \in Of(I, "fs")}
      BY <2>1, <2>4 DEF FilesMeant
    <3>2. m.fs # {}
      BY <1>2, <1>3, <3>1
    <3>3. PICK g \in m.fs : g[1] \in Wants(k) /\ \A q \in g[2] : <<q, p>> \in Within
      BY <2>1, <3>2 DEF AllowPath
    <3>4. PICK i \in Of(I, "fs") : g = <<i[2], i[3]>>
      BY <3>1, <3>3
    <3>5. i[2] \in Wants(k) /\ i[3] \X {p} \subseteq Within
      BY <3>3, <3>4
    <3> QED
      BY <1>3, <2>2, <3>4, <3>5 DEF Grants
  <2> QED
    BY <2>3, <2>4
<1>4. ASSUME NEW h \in Host, NEW port \in Port, op = <<"net", h, port>>
      PROVE  \E i \in Of(I, op[1]) : Grants(i, op)
  <2>1. m.net = HostsMeant(Of(I, "net")) /\ AllowHost(m, h, port)
    BY <1>4 DEF Means, Allows
  <2>2. \A i \in Of(I, "net") : i[1] = "net" /\ AtMostOne(i[2])
    BY DEF Of, IsGrant, IsFs, IsNet, IsFfi, IsTool, Plain, Optional
  <2>3. CASE \E i \in Of(I, "net") : i[2] = {}
    BY <1>4, <2>2, <2>3 DEF Grants
  <2>4. CASE ~ \E i \in Of(I, "net") : i[2] = {}
    <3>1. m.net = UNION {i[2] \X {i[3]} : i \in Of(I, "net")}
      BY <2>1, <2>4 DEF HostsMeant
    <3>2. m.net # {}
      <4>1. j \in Of(I, "net") /\ j[2] # {}
        BY <1>2, <1>4, <2>4
      <4>2. PICK x \in j[2] : TRUE
        BY <4>1
      <4>3. <<x, j[3]>> \in m.net
        BY <3>1, <4>1, <4>2
      <4> QED
        BY <4>3
    <3>3. PICK g \in m.net : HostMatches(g[1], h) /\ g[2] \subseteq {port}
      BY <2>1, <3>2 DEF AllowHost
    <3>4. PICK i \in Of(I, "net") : g \in i[2] \X {i[3]}
      BY <3>1, <3>3
    <3>5. g[1] \in i[2] /\ g[2] = i[3]
      BY <3>4
    <3>6. \A x \in i[2] : x = g[1]
      BY <2>2, <3>4, <3>5 DEF AtMostOne
    <3> QED
      BY <1>4, <2>2, <3>3, <3>4, <3>5, <3>6 DEF Grants
  <2> QED
    BY <2>3, <2>4
<1>5. ASSUME NEW mod \in Module, op = <<"ffi", mod>>
      PROVE  \E i \in Of(I, op[1]) : Grants(i, op)
  <2>1. m.modules = ModulesMeant(Of(I, "ffi")) /\ AllowModule(m, mod)
    BY <1>5 DEF Means, Allows
  <2>2. \A i \in Of(I, "ffi") : i[1] = "ffi" /\ (i[2] = {} => i = <<"ffi", {}>>)
    BY DEF Of, IsGrant, IsFs, IsNet, IsFfi, IsTool, Plain
  <2>3. CASE <<"ffi", {}>> \in Of(I, "ffi")
    BY <1>5, <2>3 DEF Grants
  <2>4. CASE <<"ffi", {}>> \notin Of(I, "ffi")
    <3>1. m.modules = UNION {i[2] : i \in Of(I, "ffi")}
      BY <2>1, <2>4 DEF ModulesMeant
    <3>2. j \in Of(I, "ffi") /\ j[2] # {}
      BY <1>2, <1>5, <2>2, <2>4
    <3>3. m.modules # {}
      BY <3>1, <3>2
    <3>4. PICK i \in Of(I, "ffi") : mod \in i[2]
      BY <2>1, <3>1, <3>3 DEF AllowModule
    <3> QED
      BY <1>5, <2>2, <3>4 DEF Grants
  <2> QED
    BY <2>3, <2>4
<1>6. ASSUME NEW t \in Tool, NEW fits \in SUBSET Constraint,
             op = <<"tool", t, fits>>
      PROVE  \E i \in Of(I, op[1]) : Grants(i, op)
  <2> DEFINE T == Of(I, "tool")
  <2>1. /\ m.allTools <=> EveryTool(T)
        /\ m.names = IF EveryTool(T) THEN {} ELSE UNION {i[2] : i \in T}
        /\ HeldBy(m, t, fits)
    BY <1>6 DEF Means, Allows
  <2>2. \A i \in T : i[1] = "tool"
    BY DEF Of
  <2>3. CASE EveryTool(T)
    <3>1. \E i \in T : i[2] = {}
      BY <2>3 DEF EveryTool
    <3> QED
      BY <1>6, <2>2, <3>1 DEF Grants
  <2>4. CASE ~EveryTool(T)
    <3>1. \E i \in T : t \in i[2]
      BY <2>1, <2>4 DEF HeldBy
    <3> QED
      BY <1>6, <2>2, <3>1 DEF Grants
  <2> QED
    BY <2>3, <2>4
<1>7. ASSUME NEW e \in Plain, op = <<e>>
      PROVE  \E i \in Of(I, op[1]) : Grants(i, op)
  BY <1>2, <1>7 DEF Of, Grants, Plain
<1>8. \/ \E k \in {"read", "readSecret", "exists", "write"}, p \in Path :
            op = <<"fs", k, p>>
      \/ \E h \in Host, port \in Port : op = <<"net", h, port>>
      \/ \E mod \in Module : op = <<"ffi", mod>>
      \/ \E t \in Tool, fits \in SUBSET Constraint : op = <<"tool", t, fits>>
      \/ \E e \in Plain : op = <<e>>
  BY OpKinds
<1> QED
  BY <1>3, <1>4, <1>5, <1>6, <1>7, <1>8

\* and a tool call it allows meets the patterns its grants are written with
LEMMA PatternsMet ==
  ASSUME NEW I, \A i \in I : IsGrant(i), NEW m, Means(I, m),
         NEW op \in Op, Allows(m, op), op[1] = "tool"
  PROVE  MeetsPatterns(Of(I, "tool"), op)
<1>1. PICK t \in Tool, fits \in SUBSET Constraint : op = <<"tool", t, fits>>
  BY DEF Op, Plain
<1> DEFINE T == Of(I, "tool")
<1>2. /\ m.allTools <=> EveryTool(T)
      /\ m.names = IF EveryTool(T) THEN {} ELSE UNION {i[2] : i \in T}
      /\ m.held[t] = IF EveryTool(T) \/ <<"tool", {t}, {}, {}>> \in T
                       THEN {} ELSE HeldMeant(T, t)
      /\ HeldBy(m, t, fits)
  BY <1>1 DEF Means, Allows
<1>3. \A i \in T : AtMostOne(i[2])
  BY DEF Of, IsGrant, IsFs, IsNet, IsFfi, IsTool, Plain, Optional
<1>4. CASE ~EveryTool(T) /\ <<"tool", {t}, {}, {}>> \notin T
  <2>1. m.held[t] = HeldMeant(T, t) /\ t \in UNION {i[2] : i \in T}
    BY <1>2, <1>4 DEF HeldBy
  <2>2. PICK i \in T : t \in i[2]
    BY <2>1
  <2>3. i[2] = {t}
    BY <1>3, <2>2 DEF AtMostOne
  <2>4. \A c \in HeldMeant(T, t) : \E d \in HeldMeant(T, t) \intersect fits : d[1] = c[1]
    BY <1>2, <1>4, <2>1 DEF HeldBy
  <2> QED
    BY <1>1, <2>3, <2>4 DEF MeetsPatterns
<1> QED
  BY <1>1, <1>4 DEF MeetsPatterns

\* Whatever a run does, the operator wrote for it: one grant that --deny left
\* standing covers the whole operation by itself, and a tool call held to
\* patterns has met one of them for every argument its grants name.
THEOREM OnlyWritten == Spec => []OnlyAsWritten
<1>1. Inv /\ Meant => OnlyAsWritten
  <2> SUFFICES ASSUME Inv, Meant, NEW op \in done
               PROVE  /\ \E i \in Of(written["asked"], op[1]) : Grants(i, op)
                      /\ op[1] = "tool" =>
                           MeetsPatterns(Of(written["asked"], "tool"), op)
    BY DEF OnlyAsWritten
  <2>1. op \in Op /\ Allows(Asked, op) /\ stage # "writing"
    BY DEF Inv, TypeOK, Held, Before
  <2>2. Asked = Meaning(written["asked"]) /\ \A i \in written["asked"] : IsGrant(i)
    BY <2>1, AreGrants DEF Meant, Sides, Asked
  <2>3. Means(written["asked"], Asked)
    BY <2>2, MeaningParts
  <2> QED
    BY <2>1, <2>2, <2>3, GrantCovers, PatternsMet
<1> QED
  BY InvInit, InvStep, MeantInit, MeantStep, <1>1, PTL DEF Spec
=============================================================================
