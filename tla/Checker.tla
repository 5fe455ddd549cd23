------------------------------ MODULE Checker ------------------------------
(***************************************************************************)
(* The effect check (sabline/effects.py) and the part of the type check    *)
(* (sabline/checker.py) that decides what a call reaches, what may be held *)
(* as a function value, which calls can fail and where a Secret may go.    *)
(*                                                                         *)
(* A program is the functions it defines, each with a signature and a body *)
(* of statements in source order.  Branches and loops are jumps: what they *)
(* test is left out, and so are arithmetic, records and lists.  A function *)
(* takes at most one argument; the type of a binding is written in it, and *)
(* the check compares it with what it infers.  An inline function is one   *)
(* of the functions, as the parser lifts it.                               *)
(***************************************************************************)
EXTENDS Naturals, Sequences

CONSTANTS
  Names,        \* the names programs use
  NoName,       \* no name
  BuiltinSig,   \* what each built-in takes, gives, needs and whether it fails
  New,          \* the built-ins a function of the program may hide
  Main          \* the function a run starts with

Builtins == DOMAIN BuiltinSig

ASSUME NameAssumption == NoName \notin Names /\ Main \in Names
ASSUME BuiltinAssumption == Builtins \subseteq Names /\ New \subseteq Builtins

Data   == <<"data">>            \* a type that carries no secret
Secret == <<"secret">>          \* Secret of T
Any    == <<"any">>             \* what a built-in that takes anything takes
Unit   == <<"unit">>            \* what a call that gives nothing gives
Fn(takes, gives) == <<"fn", takes, gives>>
IsFn(t) == t[1] = "fn"

\* what takes a secret (declassify) does not fail
ASSUME SecretAssumption ==
  \A b \in Builtins : BuiltinSig[b].param = Secret => ~BuiltinSig[b].fails

\* a program is [funs : its functions, sig : their signatures, code : their
\* bodies]; a signature [effects, fails, param, type, gives, captures]
Code(p, f) == p.code[f]
Sig(p, f)  == p.sig[f]

\* the name a statement binds: a let, an assignment, a call whose result is
\* held, or the reason a check binds when the call failed
Binds(s) == IF s.do \in {"let", "assign", "call", "caught"} THEN s.name
            ELSE NoName

Reads(e) == IF e[1] = "var" THEN {e[2]} ELSE {}
Taken(s) == CASE s.do \in {"let", "assign", "return", "fail"} -> {s.value}
              [] s.do \in {"call", "promise"}                 -> {s.arg}
              [] OTHER                                        -> {}

\* what the parser makes: names, jumps within the body, the end of a check
\* where its failure goes on, and inline functions that are pure and cannot fail
Parsed(p) ==
  /\ Main \in p.funs /\ p.funs \subseteq Names
  /\ \A f \in p.funs :
       LET code == Code(p, f) IN
       /\ Len(code) \in Nat /\ DOMAIN code = 1..Len(code)
       /\ Sig(p, f).param \in Names \union {NoName}
       /\ \A i \in DOMAIN code :
            /\ Binds(code[i]) \in Names \union {NoName}
            /\ code[i].do = "jump" => code[i].to \subseteq 1..(Len(code) + 1)
            /\ code[i].do = "call" => code[i].mode \in {"plain", "try", "check"}
            /\ code[i].do = "promise" =>
                 code[i].mode \in {"requires", "invariant"}
            /\ code[i].do = "call" /\ code[i].mode = "check" =>
                 /\ code[i].onFail \in DOMAIN code
                 /\ code[code[i].onFail].do = "caught"
            /\ \A e \in Taken(code[i]) :
                 /\ e[1] \in {"data", "var", "closure"}
                 /\ e[1] = "closure" =>
                      /\ e[2] \in p.funs /\ Sig(p, e[2]).effects = {}
                      /\ ~Sig(p, e[2]).fails

-----------------------------------------------------------------------------
(* What a name in a call reaches. *)

\* builtin_reached: a new built-in gives way to a function of the program
Reached(p, n) == n \in Builtins /\ ~(n \in New /\ n \in p.funs)
Callable(p, n) == Reached(p, n) \/ n \in p.funs

Needed(p, n) == IF Reached(p, n) THEN BuiltinSig[n].effects
                                 ELSE Sig(p, n).effects
Fails(p, n) == IF Reached(p, n) THEN BuiltinSig[n].fails
                                ELSE Sig(p, n).fails

-----------------------------------------------------------------------------
(* The effect check. *)

\* local_names_of
LocalNames(p, f) ==
  ({Sig(p, f).param} \union {Binds(Code(p, f)[i]) : i \in DOMAIN Code(p, f)})
    \ {NoName}

\* function_locals_of, which gathers them in source order: a parameter or a
\* let of function type, a function written there, or the name of one
HoldsFn(p, s, soFar) ==
  \/ s.do \in {"let", "call"} /\ s.ann /\ IsFn(s.type)
  \/ s.do = "let" /\ \/ s.value[1] = "closure"
                     \/ Reads(s.value) \intersect (p.funs \union soFar) # {}

ValueLocals(p, f) ==
  LET code == Code(p, f)
      upTo[i \in 0..Len(code)] ==
        IF i = 0
          THEN IF IsFn(Sig(p, f).type) THEN {Sig(p, f).param} ELSE {}
          ELSE upTo[i - 1] \union
               (IF HoldsFn(p, code[i], upTo[i - 1]) THEN {Binds(code[i])}
                                                    ELSE {})
  IN  upTo[Len(code)] \ {NoName}

\* for mutation: through 8.1 every call by the name of a local was passed over
CallsAnyLocal(p, f, n) == n \in LocalNames(p, f)

CallsAValue(p, f, n) ==
  /\ n \in LocalNames(p, f)
  /\ n \in ValueLocals(p, f) \/ ~Callable(p, n)

\* for mutation: a promise may have the effects its function declares
WalkOnly(p, f) ==
  \A i \in DOMAIN Code(p, f) :
    LET s == Code(p, f)[i] IN
    s.do \in {"call", "promise"} /\ ~CallsAValue(p, f, s.callee) =>
      /\ Callable(p, s.callee)
      /\ Needed(p, s.callee) \subseteq Sig(p, f).effects

\* walk and walk_pure: what a function calls needs only what it declares,
\* and what it promises needs nothing (E300, E310)
Walk(p, f) ==
  \A i \in DOMAIN Code(p, f) :
    LET s == Code(p, f)[i] IN
    s.do \in {"call", "promise"} /\ ~CallsAValue(p, f, s.callee) =>
      /\ Callable(p, s.callee)
      /\ Needed(p, s.callee) \subseteq
           IF s.do = "call" THEN Sig(p, f).effects ELSE {}

\* E204: only a new built-in gives its name up
CheckEffects(p) == /\ p.funs \intersect Builtins \subseteq New
                   /\ \A f \in p.funs : Walk(p, f)

-----------------------------------------------------------------------------
(* The type check.  Its environment is one per function, and a binding is   *)
(* in it from its place in the source on, whatever branch it is in.         *)

Start(p, f) ==
  LET g == Sig(p, f) IN
  [n \in ({g.param} \ {NoName}) \union DOMAIN g.captures |->
     IF n = g.param THEN g.type ELSE g.captures[n]]

Before(p, f, i, n) ==
  {j \in DOMAIN Code(p, f) : j < i /\ Binds(Code(p, f)[j]) = n}

InEnv(p, f, i, n) == n \in DOMAIN Start(p, f) \/ Before(p, f, i, n) # {}

\* env[n] at the i-th statement, as a set of at most one type: the last
\* binding in the source before it
TypeOf(p, f, i, n) ==
  LET js == Before(p, f, i, n) IN
  {Code(p, f)[j].type : j \in {k \in js : \A m \in js : m <= k}}
  \union (IF js = {} /\ n \in DOMAIN Start(p, f) THEN {Start(p, f)[n]} ELSE {})

\* the names an inline function reads and has not bound so far; a check binds
\* both its names where it starts
BoundBy(p, g, i) ==
  LET starts(j) == Code(p, g)[j].do = "call" /\ Code(p, g)[j].mode = "check"
  IN  {Binds(Code(p, g)[j]) : j \in 1..i}
      \union {Code(p, g)[Code(p, g)[j].onFail].name :
                j \in {k \in 1..i : starts(k)}}

Free(p, g) ==
  {n \in UNION {UNION {Reads(e) : e \in Taken(Code(p, g)[i])} :
                                            i \in DOMAIN Code(p, g)} :
     /\ n # Sig(p, g).param
     /\ \E i \in DOMAIN Code(p, g) :
          /\ \E e \in Taken(Code(p, g)[i]) : n \in Reads(e)
          /\ n \notin BoundBy(p, g, i)}

\* an inline function carries in what is a local where it is written
Carries(p, f, i, g) ==
  /\ DOMAIN Sig(p, g).captures = {n \in Free(p, g) : InEnv(p, f, i, n)}
  /\ \A n \in DOMAIN Sig(p, g).captures :
       Sig(p, g).captures[n] \in TypeOf(p, f, i, n)

FnType(p, g) == Fn(Sig(p, g).type, Sig(p, g).gives)

\* for mutation: a function that can fail may be held as a value
PurePassable(p, g) == g \in p.funs /\ Sig(p, g).effects = {}

\* E530: only a pure function that cannot fail
Passable(p, g) ==
  g \in p.funs /\ Sig(p, g).effects = {} /\ ~Sig(p, g).fails

\* infer, of what is not a call: at most one type
Infer(p, f, i, e) ==
  CASE e[1] = "data"    -> {Data}
    [] e[1] = "var"     -> IF InEnv(p, f, i, e[2]) THEN TypeOf(p, f, i, e[2])
                           ELSE {FnType(p, g) : g \in {e[2]} \intersect
                                   {h \in p.funs : Passable(p, h)}}
    [] e[1] = "closure" -> IF Carries(p, f, i, e[2]) THEN {FnType(p, e[2])}
                           ELSE {}

\* does a call by this name run a function value, for the type check?
HeldFn(p, f, i, n) == \E t \in TypeOf(p, f, i, n) : IsFn(t)

\* for mutation: the names of locals hide the built-ins from the secret check
AcceptsFromLocal(p, f, i, n, t) ==
  /\ BuiltinSig[n].param \in {Any, IF t = Secret THEN Data ELSE t}
  /\ t = Secret /\ ~InEnv(p, f, i, n) =>
       BuiltinSig[n].effects = {} /\ ~BuiltinSig[n].fails

\* E560: no built-in that has an effect or can fail is given a secret, but
\* the one that takes it (declassify)
Accepts(p, f, i, n, t) ==
  \/ BuiltinSig[n].param = Secret /\ t = Secret
  \/ /\ BuiltinSig[n].param \in {Any, IF t = Secret THEN Data ELSE t}
     /\ t = Secret => BuiltinSig[n].effects = {} /\ ~BuiltinSig[n].fails

\* a built-in over a secret gives a secret
Given(n, t) == IF t = Secret /\ BuiltinSig[n].param # Secret THEN Secret
               ELSE BuiltinSig[n].gives

\* infer, of a call: the types of its result
InferCall(p, f, i, n, arg) ==
  LET args == Infer(p, f, i, arg) IN
  IF HeldFn(p, f, i, n)
    THEN {t[3] : t \in {u \in TypeOf(p, f, i, n) : u[2] \in args}}
  ELSE IF Reached(p, n)
    THEN {Given(n, t) : t \in {u \in args : Accepts(p, f, i, n, u)}}
  ELSE IF n \in p.funs
    THEN IF Sig(p, n).type \in args THEN {Sig(p, n).gives} ELSE {}
  ELSE {}

\* E520, E521, E522: a call that can fail is tried or checked, only such a
\* call is, and only a function that can fail tries
MayIgnore(p, f, i, n) == HeldFn(p, f, i, n) \/ ~Fails(p, n)

CheckFailure(p, f, i, s) ==
  IF s.mode \in {"try", "check"}
    THEN /\ Callable(p, s.callee) /\ Fails(p, s.callee)
         /\ s.mode = "try" => Sig(p, f).fails
    ELSE MayIgnore(p, f, i, s.callee)

\* check_stmt
CheckStmt(p, f, i, s) ==
  CASE s.do = "let"     -> s.type \in Infer(p, f, i, s.value)
    [] s.do = "assign"  -> /\ InEnv(p, f, i, s.name)
                           /\ s.type \in TypeOf(p, f, i, s.name)
                           /\ s.type \in Infer(p, f, i, s.value)
    [] s.do = "call"    -> /\ s.type \in InferCall(p, f, i, s.callee, s.arg)
                           /\ CheckFailure(p, f, i, s)
                           /\ s.name # NoName => s.type # Unit
                           /\ s.mode = "check" /\ s.name = NoName =>
                                s.type = Unit
    [] s.do = "promise" -> /\ InferCall(p, f, i, s.callee, s.arg)
                                \intersect {Data, Secret} # {}
                           /\ CheckFailure(p, f, i, s)
    [] s.do = "return"  -> Sig(p, f).gives \in Infer(p, f, i, s.value)
    [] s.do = "fail"    -> Sig(p, f).fails /\ Data \in Infer(p, f, i, s.value)
    [] OTHER            -> TRUE

\* check_types, and check_main: main takes nothing and cannot fail
CheckTypes(p) ==
  /\ Sig(p, Main).param = NoName /\ ~Sig(p, Main).fails
  /\ \A f \in p.funs : \A i \in DOMAIN Code(p, f) :
       CheckStmt(p, f, i, Code(p, f)[i])

Accepted(p) == CheckEffects(p) /\ CheckTypes(p)

-----------------------------------------------------------------------------
(* What the checks need of a program to be right about it: they look at a   *)
(* function's names all at once or in source order, and a run looks at what *)
(* is bound when it comes to them.                                          *)

\* every type a name has in a function
TypesOf(p, f, n) ==
  {Start(p, f)[m] : m \in {n} \intersect DOMAIN Start(p, f)}
  \union {Code(p, f)[i].type :
            i \in {j \in DOMAIN Code(p, f) : Binds(Code(p, f)[j]) = n}}

Held(p, f) == LocalNames(p, f) \union DOMAIN Sig(p, f).captures

\* what a statement reads, the names an inline function takes with it as well
ReadNames(p, e) == Reads(e) \union IF e[1] = "closure" THEN Free(p, e[2])
                                                       ELSE {}

\* no local that holds a function has the name of anything that is called
OwnFnNames(p, f) ==
  \A n \in Held(p, f) :
    n \in ValueLocals(p, f) \/ (\E t \in TypesOf(p, f, n) : IsFn(t)) =>
      n \notin p.funs \union Builtins

\* no local that is read has the name of a function
OwnReadNames(p, f) ==
  \A i \in DOMAIN Code(p, f) : \A e \in Taken(Code(p, f)[i]) :
    ReadNames(p, e) \intersect p.funs \intersect Held(p, f) = {}

\* a name has one type in a function, however often it is bound
OneType(p, f) ==
  \A n \in Held(p, f) : \A t, u \in TypesOf(p, f, n) : t = u

NamesApart(p) == \A f \in p.funs : OwnFnNames(p, f) /\ OwnReadNames(p, f)
Settled(p)    == NamesApart(p) /\ \A f \in p.funs : OneType(p, f)
=============================================================================
