-------------------------------- MODULE Loops --------------------------------
(***************************************************************************)
(* What is said of a program's loops before it runs, and what they do:     *)
(* which are shown to end (sabline/termination.py), how many operations a  *)
(* function can perform at most (sabline/ratchet.py _operation_bounds) and *)
(* whether that is more than a baseline allows (_count_exceeds); and the   *)
(* run of it (runtime.py run), which what is said must hold of.            *)
(*                                                                         *)
(* A program is its text, the statements numbered from the last to the     *)
(* first, and the block that each function is.  A block is the number of   *)
(* its first statement, or 0 when it is empty; a statement has those of    *)
(* the blocks in it and of what comes after it in its own block, all less  *)
(* than its own number.  So what reads a tree is a function on numbers.    *)
(*                                                                         *)
(* An expression is a tuple: a number, a variable, the length of a list, a *)
(* list of so many items, such a list with one more, a sum or difference   *)
(* of two of these, `false`, or a line that is read.  A condition is a     *)
(* sequence of conjuncts: a comparison, a test of a text for empty or not, *)
(* a flag, an operation whose answer is taken, or anything else.  The      *)
(* operations are those of one effect, fs, which every function declares;  *)
(* names have one kind each, and a name a Let binds again is the name it   *)
(* was (Checker).                                                          *)
(***************************************************************************)
EXTENDS Integers, SequencesExt

CONSTANTS
  Programs,     \* each [text, body]
  Functions,    \* the names of functions, which are in Names too
  Names,        \* of variables
  Start,        \* the function that is called
  Inputs,       \* what a function may be called with: an environment
  MaxLines,     \* bound: lines of input
  DEPTH_LIMIT,  \* calls on the stack
  MaxInt,       \* bound: a run goes no further with a number past it
  MaxOps,       \* bound: nor with more operations
  Baselines,    \* counts a baseline may allow, None among them
  BoundLimit,   \* ratchet._BOUND_LIMIT
  None, Inf, NaN

Texts == {"line", "empty"}

Atoms == ({"num", "list"} \X Int) \union ({"var", "len", "push"} \X Names)
Exprs == Atoms \union ({"+", "-"} \X Atoms \X Atoms)
           \union {<<"read">>, <<"get">>, <<"true">>, <<"false">>}
Conds == ({"cmp"} \X {"<", "<=", ">", ">="} \X Exprs \X Exprs)
           \union ({"some", "empty", "flag"} \X Names) \union {<<"asks">>, <<"any">>}

\* x is what a statement binds, or the function it calls; then is the body of
\* a while
Statements ==
  [is : {"let", "set", "op", "call", "if", "check", "while", "leave"},
   x : Names, e : Exprs, conds : Seq(Conds), then : Nat, else : Nat, next : Nat]

ASSUME LoopsAssumption ==
  /\ MaxLines \in Nat /\ DEPTH_LIMIT \in Nat \ {0} /\ MaxInt \in Nat /\ MaxOps \in Nat
  /\ Baselines \subseteq Nat \union {None} /\ BoundLimit \in Nat
  /\ None \notin Int /\ Inf \notin Int /\ NaN \notin Int
  /\ None # Inf /\ None # NaN /\ Inf # NaN
  /\ IsFiniteSet(Functions) /\ Functions \subseteq Names /\ Start \in Functions

\* a program is a tree, as the parser makes it
ASSUME ProgramsAssumption ==
  \A p \in Programs :
    /\ p.text \in Seq(Statements) /\ p.body \in [Functions -> 0..Len(p.text)]
    /\ \A k \in DOMAIN p.text :
         LET s == p.text[k] IN
         /\ s.then < k /\ s.else < k /\ s.next < k
         /\ s.is = "call" => s.x \in Functions
         /\ s.is = "while" => s.else = 0
         /\ s.is \in {"let", "set", "op", "call", "leave"} => s.then = 0 /\ s.else = 0

-----------------------------------------------------------------------------
(* termination.py, of a text t *)

Binds(s, x) == s.is \in {"let", "set", "check"} /\ s.x = x

\* _bindings_of, how many: of a name, in a block, by statements nested however
\* deep
Bindings(t, x) ==
  LET n[k \in 0..Len(t)] ==
        IF k = 0 THEN 0
        ELSE n[t[k].then] + n[t[k].else] + n[t[k].next] + IF Binds(t[k], x) THEN 1 ELSE 0
  IN  n

\* _names_bound_in
Bound(t, b, x) == Bindings(t, x)[b] > 0

\* _limit_is_invariant
LimitHolds(e, t, b) ==
  /\ e[1] \in {"num", "var", "len", "+", "-"}
  /\ \A a \in {e} \union (IF e[1] \in {"+", "-"} THEN {e[2], e[3]} ELSE {}) :
       /\ a[1] \in {"var", "len"} => ~Bound(t, b, a[2])
       /\ a[1] \notin {"list", "push"}

\* a path with more than one move, or a move that is no step
BAD == {2}

IsStep(e, v, op) ==
  e = <<IF op \in {"<", "<="} THEN "+" ELSE "-", <<"var", v>>, <<"num", 1>>>>

\* for mutation: the second arm is not looked at
MovesThen(s, v, op, then, else, turned) ==
  CASE s.is = "set" /\ s.x = v -> IF IsStep(s.e, v, op) THEN {1} ELSE BAD
    [] s.is # "set" /\ Binds(s, v) -> BAD
    [] s.is \in {"if", "check"} /\ ~Binds(s, v) -> then
    [] s.is = "while" -> IF turned THEN BAD ELSE {0}
    [] OTHER -> {0}

\* how a statement moves v toward its limit, on each path through it, given how
\* its arms do and whether v is bound in its body
Moves(s, v, op, then, else, turned) ==
  CASE s.is = "set" /\ s.x = v -> IF IsStep(s.e, v, op) THEN {1} ELSE BAD
    [] s.is # "set" /\ Binds(s, v) -> BAD
    [] s.is \in {"if", "check"} /\ ~Binds(s, v) -> IF BAD \in {then, else} THEN BAD ELSE then \union else
    [] s.is = "while" -> IF turned THEN BAD ELSE {0}
    [] OTHER -> {0}

\* _steps_along_paths, from counts: a path that leaves the function drops out
Along(t, v, op) ==
  LET a[k \in 0..Len(t)] ==
        [counts \in SUBSET {0, 1} |->
           IF k = 0 THEN counts
           ELSE IF t[k].is = "leave" THEN {}
           ELSE LET moves == Moves(t[k], v, op, a[t[k].then][{0}], a[t[k].else][{0}],
                                   Bound(t, t[k].then, v))
                    after == {c + x : c \in counts, x \in moves}
                IN  IF moves = BAD \/ ~(after \subseteq {0, 1}) THEN BAD
                    ELSE a[t[k].next][after]]
  IN  a

FLIP == [o \in {"<", "<=", ">", ">="} |->
           CASE o = "<" -> ">" [] o = "<=" -> ">=" [] o = ">" -> "<" [] o = ">=" -> "<="]

\* a side of a comparison, which walks toward the other
Side(c, i) == IF i = 1 THEN [v |-> c[3], op |-> c[2], limit |-> c[4]]
                       ELSE [v |-> c[4], op |-> FLIP[c[2]], limit |-> c[3]]

\* where the sides are that are counters, which the body moves
Counters(conds, t, b) ==
  {p \in (DOMAIN conds) \X {1, 2} :
     /\ conds[p[1]][1] = "cmp"
     /\ LET v == Side(conds[p[1]], p[2]).v IN v[1] = "var" /\ Bound(t, b, v[2])}

\* loop_termination: the first counter decides
Terminates(conds, t, b) ==
  \E p \in Counters(conds, t, b) :
    /\ \A q \in Counters(conds, t, b) : p[1] < q[1] \/ (p[1] = q[1] /\ p[2] <= q[2])
    /\ LET c == Side(conds[p[1]], p[2]) IN
       /\ LimitHolds(c.limit, t, b)
       /\ Along(t, c.v[2], c.op)[b][{0}] \subseteq {1}

\* the statements of a block, those nested in them apart
Members(t) ==
  LET m[k \in 0..Len(t)] == IF k = 0 THEN {} ELSE {k} \union m[t[k].next]
  IN  m

\* _tests_empty: the arm of an `if` that is taken when r is empty
EmptyArm(s, r) ==
  CASE s.is = "if" /\ s.conds = << <<"empty", r>> >> -> s.then
    [] s.is = "if" /\ s.conds = << <<"some", r>> >>  -> s.else
    [] OTHER -> 0

\* _reads_a_line
ReadsALine(s) == s.is \in {"let", "set"} /\ s.e = <<"read">>

\* _bounded_by_input: each turn reads a line into r, and the first empty one
\* is what the condition tests, or clears a flag that it tests
BoundedByInput(conds, t, b) ==
  \E i \in Members(t)[b] :
    /\ ReadsALine(t[i])
    /\ LET r == t[i].x IN
       /\ Bindings(t, r)[b] = 1
       /\ \E c \in Range(conds) :
            \/ c = <<"some", r>>
            \/ /\ c[1] = "flag" /\ Bindings(t, c[2])[b] = 1
               /\ \E k \in Members(t)[b] :
                    /\ k < i
                    /\ \E j \in Members(t)[EmptyArm(t[k], r)] :
                         t[j].is = "set" /\ t[j].x = c[2] /\ t[j].e = <<"false">>

\* the verdicts: a counter's, or else the input's
Shown(conds, t, b) == Terminates(conds, t, b) \/ BoundedByInput(conds, t, b)

-----------------------------------------------------------------------------
(* ratchet.py: bounds are Python's numbers, with math.inf, and the nan that  *)
(* math.inf * 0 is, which is neither more nor less than anything.            *)

Costs == Nat \union {Inf, NaN}

More(a, b)  == IF NaN \in {a, b} \/ b = Inf THEN FALSE ELSE a = Inf \/ a > b
Plus(a, b)  == IF NaN \in {a, b} THEN NaN ELSE IF Inf \in {a, b} THEN Inf ELSE a + b
Times(a, n) == IF a = 0 THEN 0
               ELSE IF a = NaN \/ (a = Inf /\ n = 0) THEN NaN
               ELSE IF Inf \in {a, n} THEN Inf ELSE a * n

\* most: max(a, b) is b only when that is more.  With kept, a nan is kept: what
\* the bound would be if the comparison dropped none.
Most(a, b, kept) == IF kept /\ b = NaN THEN NaN ELSE IF More(b, a) THEN b ELSE a

\* what is known of names: the whole number each is, or how many items it has
Known   == [Names -> Int \union {None}]
Nothing == [x \in Names |-> None]

AtomInt(a, known) ==
  CASE a[1] \in {"num", "list"} -> a[2]
    [] a[1] \in {"var", "len"}  -> known[a[2]]
    [] OTHER -> None

\* _const_int: the one number that an expression has, or of how many items, by
\* what is known
ConstInt(e, known) ==
  IF e[1] \in {"+", "-"}
  THEN LET x == AtomInt(e[2], known)
           y == AtomInt(e[3], known)
       IN  IF None \in {x, y} THEN None ELSE IF e[1] = "+" THEN x + y ELSE x - y
  ELSE AtomInt(e, known)

\* forget, of the names bound in a block
Forget(known, t, b) == [x \in Names |-> IF Bound(t, b, x) THEN None ELSE known[x]]

\* the turns from a value to a limit
Apart(op, value, limit) ==
  LET past == IF op \in {"<=", ">="} THEN 1 ELSE 0
  IN  IF op \in {"<", "<="} THEN limit - value + past ELSE value - limit + past

\* the turns one counter allows
TurnsBy(c, t, b, known, unchanged) ==
  LET steps == Along(t, c.v[2], c.op)[b][{0}]
      start == known[c.v[2]]
      limit == ConstInt(c.limit, unchanged)
  IN  CASE steps = {} -> {1}     \* every path leaves the loop
        [] steps = {1} /\ None \notin {start, limit} ->
             {IF Apart(c.op, start, limit) > 0 THEN Apart(c.op, start, limit) ELSE 0}
        [] OTHER -> {}

Fewest(bounds) == IF bounds = {} THEN Inf ELSE Min(bounds)

\* for mutation: the limit is what it was before the loop
TurnsMoving(conds, t, b, known) ==
  Fewest(UNION {TurnsBy(Side(conds[p[1]], p[2]), t, b, known, known) :
                  p \in Counters(conds, t, b)})

\* _turns: each counter bounds the loop on its own, by a limit the body leaves
\* alone
Turns(conds, t, b, known) ==
  Fewest(UNION {TurnsBy(Side(conds[p[1]], p[2]), t, b, known, Forget(known, t, b)) :
                  p \in Counters(conds, t, b)})

Asked(conds) == Cardinality({i \in DOMAIN conds : conds[i][1] = "asks"})

\* st: what is known in the blocks of a statement, and after it
Inner(s, t, known) ==
  CASE s.is = "check" -> [known EXCEPT ![s.x] = None]
    [] s.is = "while" -> Forget(known, t, s.then)
    [] OTHER -> known

After(s, t, known) ==
  CASE s.is \in {"let", "set"} -> [known EXCEPT ![s.x] = ConstInt(s.e, known)]
    [] s.is = "if"    -> Forget(Forget(known, t, s.then), t, s.else)
    [] s.is = "check" -> [Forget(Forget(known, t, s.then), t, s.else) EXCEPT ![s.x] = None]
    [] s.is = "while" -> Forget(known, t, s.then)
    [] OTHER -> known

\* st: what a statement performs, given its turns, what its arms perform and
\* what the function it calls does
Performed(s, turns, then, else, called, kept) ==
  CASE s.is = "op"    -> 1
    [] s.is = "call"  -> called
    [] s.is = "if"    -> Plus(Asked(s.conds), Most(then, else, kept))
    [] s.is = "check" -> Plus(1, Most(then, else, kept))
    [] s.is = "while" -> Plus(Times(Asked(s.conds), Plus(turns, 1)), Times(then, turns))
    [] OTHER -> 0

\* block, given what each function performs
Block(t, calls, kept) ==
  LET b[k \in 0..Len(t)] ==
        [known \in Known |->
           IF k = 0 THEN 0
           ELSE LET s == t[k]
                    inner == Inner(s, t, known)
                IN  Plus(Performed(s, Turns(s.conds, t, s.then, known), b[s.then][inner],
                                   b[s.else][inner], calls[s.x], kept),
                         b[s.next][After(s, t, known)])]
  IN  b

\* of, with these functions active: no bound through recursion.  A function is
\* reckoned with nothing known of what it is called with.
Bounds(p, kept) ==
  LET of[active \in SUBSET Functions] ==
        [f \in Functions |->
           IF f \in active THEN Inf
           ELSE Block(p.text, of[active \union {f}], kept)[p.body[f]][Nothing]]
  IN  of

OperationBound(p, kept) == Bounds(p, kept)[{}][Start]

\* _as_count, of a bound that is a number
AsCount(n) == IF n = Inf \/ n > BoundLimit THEN None ELSE n

\* _count_exceeds: None is no bound
Exceeds(now, allowed) == allowed # None /\ (now = None \/ now > allowed)

-----------------------------------------------------------------------------
(* The run *)

VARIABLES
  program,
  lines,   \* of input that are left
  stack,   \* of calls, the innermost last: [todo, env], todo the blocks to run,
           \* the innermost last
  ops,     \* operations performed
  bound,   \* the most operations it was said to perform
  shown    \* whether every loop was shown to end, and nothing calls itself

vars == <<program, lines, stack, ops, bound, shown>>

\* of what a block and the functions it calls may reach
LoopsShown(t, calls) ==
  LET a[k \in 0..Len(t)] ==
        k = 0 \/ LET s == t[k] IN
                 /\ s.is = "while" => Shown(s.conds, t, s.then)
                 /\ s.is = "call" => calls[s.x]
                 /\ a[s.then] /\ a[s.else] /\ a[s.next]
  IN  a

AllShown(p) ==
  LET of[active \in SUBSET Functions] ==
        [f \in Functions |->
           f \notin active /\ LoopsShown(p.text, of[active \union {f}])[p.body[f]]]
  IN  of[{}][Start]

Init ==
  /\ program \in Programs
  /\ lines \in 0..MaxLines
  /\ \E env \in Inputs : stack = << [todo |-> <<program.body[Start]>>, env |-> env] >>
  /\ ops = 0
  /\ bound = OperationBound(program, FALSE)
  /\ shown = AllShown(program)

TypeOK ==
  /\ program \in Programs /\ lines \in 0..MaxLines /\ Len(stack) <= DEPTH_LIMIT
  /\ ops \in Nat /\ bound \in Costs /\ shown \in BOOLEAN

Numeric == {"num", "list", "var", "len", "push", "+", "-"}

AtomVal(a, env) == CASE a[1] \in {"num", "list"} -> a[2]
                     [] a[1] \in {"var", "len"}  -> env[a[2]]
                     [] a[1] = "push" -> env[a[2]] + 1
Val(e, env) == CASE e[1] = "+" -> AtomVal(e[2], env) + AtomVal(e[3], env)
                 [] e[1] = "-" -> AtomVal(e[2], env) - AtomVal(e[3], env)
                 [] OTHER -> AtomVal(e, env)

\* what an expression may evaluate to: a line that is read may be a blank one,
\* and at the end of input every line is
Values(e, env) ==
  CASE e[1] = "read"  -> IF lines = 0 THEN {"empty"} ELSE Texts
    [] e[1] = "false" -> {FALSE}
    [] e[1] = "true"  -> {TRUE}
    [] e[1] = "get"   -> {"item"}
    [] OTHER -> {Val(e, env)}

Holds(op, x, y) == CASE op = "<" -> x < y [] op = "<=" -> x <= y
                     [] op = ">" -> x > y [] op = ">=" -> x >= y

Answers(c, env) ==
  CASE c[1] = "cmp"   -> {Holds(c[2], Val(c[3], env), Val(c[4], env))}
    [] c[1] = "some"  -> {env[c[2]] # "empty"}
    [] c[1] = "empty" -> {env[c[2]] = "empty"}
    [] c[1] = "flag"  -> {env[c[2]]}
    [] OTHER -> BOOLEAN

\* how a condition may come out, and the operations asked before it did: the
\* first conjunct that is false ends it
Outcomes(conds, env) ==
  LET May(i, answer) == answer \in Answers(conds[i], env)
  IN  (IF \A i \in DOMAIN conds : May(i, TRUE)
       THEN {[yes |-> TRUE, asked |-> Asked(conds)]} ELSE {})
      \union {[yes |-> FALSE, asked |-> Asked(SubSeq(conds, 1, i))] :
                i \in {j \in DOMAIN conds : May(j, FALSE) /\ \A h \in 1..(j - 1) : May(h, TRUE)}}

Depth == Len(stack)
Todo  == stack[Depth].todo
Env   == stack[Depth].env
First == Todo[Len(Todo)]   \* of the statements to run, or 0
S     == program.text[First]

Within(n) == n <= MaxInt /\ -n <= MaxInt

\* the call goes on with these blocks, and perhaps with a name bound
GoesWith(todo, env) == stack' = [stack EXCEPT ![Depth] = [todo |-> todo, env |-> env]]
Goes(todo)          == GoesWith(todo, Env)
Binding(x, v)       == [y \in DOMAIN Env \union {x} |-> IF y = x THEN v ELSE Env[y]]
Rest                == [Todo EXCEPT ![Len(Todo)] = S.next]

Performs(n) == /\ ops' = ops + n
               /\ ops' <= MaxOps

LetOrAssign ==
  /\ S.is \in {"let", "set"}
  /\ \E v \in Values(S.e, Env) :
       /\ S.e[1] \in Numeric => Within(v)
       /\ GoesWith(Rest, Binding(S.x, v))
  /\ lines' = IF S.e = <<"read">> /\ lines > 0 THEN lines - 1 ELSE lines
  /\ UNCHANGED ops

Operate ==
  /\ S.is = "op"
  /\ Goes(Rest) /\ Performs(1) /\ UNCHANGED lines

RunIf ==
  /\ S.is = "if"
  /\ \E o \in Outcomes(S.conds, Env) :
       /\ Goes(Append(Rest, IF o.yes THEN S.then ELSE S.else))
       /\ Performs(o.asked)
  /\ UNCHANGED lines

\* an operation that may fail: with what it gave or why not, its arm runs
RunCheck ==
  /\ S.is = "check"
  /\ \E arm \in {S.then, S.else} : GoesWith(Append(Rest, arm), Binding(S.x, "line"))
  /\ Performs(1)
  /\ UNCHANGED lines

RunWhile ==
  /\ S.is = "while"
  /\ \E o \in Outcomes(S.conds, Env) :
       /\ Goes(IF o.yes THEN Append(Todo, S.then) ELSE Rest)
       /\ Performs(o.asked)
  /\ UNCHANGED lines

\* call_function: E609, at the limit of depth, ends the run
CallFunction ==
  /\ S.is = "call"
  /\ IF Depth = DEPTH_LIMIT
     THEN stack' = <<>>
     ELSE \E env \in Inputs :
            stack' = Append([stack EXCEPT ![Depth] = [todo |-> Rest, env |-> Env]],
                            [todo |-> <<program.body[S.x]>>, env |-> env])
  /\ UNCHANGED <<ops, lines>>

\* the end of an arm, or of a turn
EndBlock ==
  /\ First = 0 /\ Len(Todo) > 1
  /\ Goes(Front(Todo)) /\ UNCHANGED <<ops, lines>>

\* a return, or the end of a body
Leave ==
  /\ IF First = 0 THEN Len(Todo) = 1 ELSE S.is = "leave"
  /\ stack' = Front(stack)
  /\ UNCHANGED <<ops, lines>>

Next ==
  /\ stack # <<>>
  /\ \/ First # 0 /\ (LetOrAssign \/ Operate \/ RunIf \/ RunCheck \/ RunWhile \/ CallFunction)
     \/ EndBlock
     \/ Leave
  /\ UNCHANGED <<program, bound, shown>>

Spec == Init /\ [][Next]_vars

\* a run's thread goes on until the run is over
FairSpec == Spec /\ WF_vars(Next)

-----------------------------------------------------------------------------
(* Properties *)

\* A loop shown to end ends: a program whose loops are all shown to end, by a
\* counter or by its input, and that does not call itself, comes to an end,
\* whatever its operations answer and whatever it is called with.
LoopsEnd == shown ~> stack = <<>>

\* What the ratchet compares is never too low: a run performs no more than "the
\* most fs and net operations one call to it can perform", and so a program
\* whose count is not found to exceed a baseline's keeps to the baseline.
BoundHeld ==
  bound \in Nat \union {Inf} =>
    /\ bound # Inf => ops <= bound
    /\ \A b \in Baselines \ {None} : ~Exceeds(AsCount(bound), b) => ops <= b

=============================================================================
