---------------------------- MODULE InterpProofs ----------------------------
(***************************************************************************)
(* Theorems about the checks and a run, for any programs they accept whose *)
(* names are apart, any built-ins and any depth.  What is said of secrets  *)
(* and types needs each name to have one type in a function: OneTyped.     *)
(***************************************************************************)
EXTENDS Interp, SequenceTheorems, FiniteSetTheorems, TLAPS

-----------------------------------------------------------------------------
(* What the checks say of a statement. *)

Fit(p) == Parsed(p) /\ Accepted(p) /\ NamesApart(p)

\* a statement that takes note of a failure
Minds(s) == s.do = "call" /\ s.mode # "plain"

\* the effects a statement of f may have
MayOf(p, f, s) == IF s.do = "promise" THEN {} ELSE Sig(p, f).effects

LEMMA StmtChecked ==
  ASSUME NEW p, Fit(p), NEW f \in p.funs, NEW i \in DOMAIN Code(p, f)
  PROVE  CheckStmt(p, f, i, Code(p, f)[i])
BY DEF Fit, Accepted, CheckTypes

LEMMA InEnvHeld ==
  ASSUME NEW p, Fit(p), NEW f \in p.funs, NEW i \in DOMAIN Code(p, f),
         NEW n \in Names, InEnv(p, f, i, n)
  PROVE  n \in Held(p, f)
<1>1. n # NoName
  BY NameAssumption
<1>2. CASE n \in DOMAIN Start(p, f)
  BY <1>1, <1>2 DEF Start, Held, LocalNames
<1>3. CASE Before(p, f, i, n) # {}
  BY <1>1, <1>3 DEF Before, Held, LocalNames
<1> QED
  BY <1>2, <1>3 DEF InEnv

\* the last binding of a name is one of its types
LEMMA TypeOfHeld ==
  ASSUME NEW p, Fit(p), NEW f \in p.funs, NEW i \in DOMAIN Code(p, f),
         NEW n \in Names, NEW t \in TypeOf(p, f, i, n)
  PROVE  n \in Held(p, f) /\ t \in TypesOf(p, f, n)
<1>1. InEnv(p, f, i, n)
  BY DEF TypeOf, InEnv
<1>2. \/ \E j \in Before(p, f, i, n) : t = Code(p, f)[j].type
      \/ n \in DOMAIN Start(p, f) /\ t = Start(p, f)[n]
  BY DEF TypeOf
<1>3. t \in TypesOf(p, f, n)
  BY <1>2 DEF Before, TypesOf
<1> QED
  BY <1>1, <1>3, InEnvHeld

\* A name of the program's functions or of a built-in that is called is not
\* that of a function value, so both checks look at what it reaches.
LEMMA CallChecked ==
  ASSUME NEW p, Fit(p), NEW f \in p.funs, NEW i \in DOMAIN Code(p, f),
         NEW s, s = Code(p, f)[i], s.do \in {"call", "promise"},
         Callable(p, s.callee)
  PROVE  /\ ~HeldFn(p, f, i, s.callee)
         /\ Needed(p, s.callee) \subseteq MayOf(p, f, s)
         /\ Fails(p, s.callee) => Minds(s)
<1> DEFINE n == s.callee
<1>1. n \in p.funs \union Builtins /\ n \in Names
  BY BuiltinAssumption DEF Callable, Reached, Fit, Parsed
<1>2. OwnFnNames(p, f)
  BY DEF Fit, NamesApart
<1>3. ~CallsAValue(p, f, n)
  BY <1>1, <1>2 DEF CallsAValue, OwnFnNames, Held
<1>4. ~HeldFn(p, f, i, n)
  BY <1>1, <1>2, TypeOfHeld DEF HeldFn, OwnFnNames
<1>5. Needed(p, n) \subseteq IF s.do = "call" THEN Sig(p, f).effects ELSE {}
  BY <1>3 DEF Fit, Accepted, CheckEffects, Walk
<1>6. Needed(p, n) \subseteq MayOf(p, f, s)
  BY <1>5 DEF MayOf
<1>7. CheckStmt(p, f, i, s)
  BY StmtChecked
<1>8. CheckFailure(p, f, i, s)
  <2>1. CASE s.do = "call"
    BY <1>7, <2>1 DEF CheckStmt
  <2>2. CASE s.do = "promise"
    BY <1>7, <2>2 DEF CheckStmt
  <2> QED
    BY <2>1, <2>2
<1>9. Fails(p, n) => s.mode \in {"try", "check"}
  BY <1>4, <1>8 DEF CheckFailure, MayIgnore
<1>10. s.do = "promise" => s.mode \in {"requires", "invariant"}
  BY DEF Fit, Parsed
<1> QED
  BY <1>4, <1>6, <1>9, <1>10 DEF Minds

\* only a function that can fail tries
LEMMA TryFails ==
  ASSUME NEW p, Fit(p), NEW f \in p.funs, NEW i \in DOMAIN Code(p, f),
         NEW s, s = Code(p, f)[i], Minds(s), s.mode # "check"
  PROVE  Sig(p, f).fails
<1>1. s.mode = "try"
  BY DEF Minds, Fit, Parsed
<1>2. CheckStmt(p, f, i, s)
  BY StmtChecked
<1> QED
  BY <1>1, <1>2 DEF Minds, CheckStmt, CheckFailure

LEMMA FailFails ==
  ASSUME NEW p, Fit(p), NEW f \in p.funs, NEW i \in DOMAIN Code(p, f),
         NEW s, s = Code(p, f)[i], s.do = "fail"
  PROVE  Sig(p, f).fails
<1>1. CheckStmt(p, f, i, s)
  BY StmtChecked
<1> QED
  BY <1>1 DEF CheckStmt

\* what a statement takes has a type
LEMMA TakenTyped ==
  ASSUME NEW p, Fit(p), NEW f \in p.funs, NEW i \in DOMAIN Code(p, f),
         NEW s, s = Code(p, f)[i], NEW e \in Taken(s)
  PROVE  Infer(p, f, i, e) # {}
<1>1. CheckStmt(p, f, i, s)
  BY StmtChecked
<1>2. CASE s.do \in {"let", "assign", "return", "fail"}
  <2>1. e = s.value
    BY <1>2 DEF Taken
  <2> QED
    BY <1>1, <1>2, <2>1 DEF CheckStmt
<1>3. CASE s.do \in {"call", "promise"}
  <2>1. e = s.arg
    BY <1>3 DEF Taken
  <2>2. InferCall(p, f, i, s.callee, s.arg) # {}
    BY <1>1, <1>3 DEF CheckStmt
  <2> QED
    BY <2>1, <2>2 DEF InferCall
<1> QED
  BY <1>2, <1>3 DEF Taken

\* A function of the program that is read is one that may be held.
LEMMA ReadPassable ==
  ASSUME NEW p, Fit(p), NEW f \in p.funs, NEW i \in DOMAIN Code(p, f),
         NEW s, s = Code(p, f)[i], NEW e \in Taken(s), e[1] = "var",
         e[2] \in p.funs
  PROVE  Passable(p, e[2])
<1>1. e[2] \in Reads(e) /\ e[2] \in Names
  BY DEF Reads, Fit, Parsed
<1>2. e[2] \notin Held(p, f)
  BY <1>1 DEF Fit, NamesApart, OwnReadNames, ReadNames
<1>3. ~InEnv(p, f, i, e[2])
  BY <1>1, <1>2, InEnvHeld
<1> QED
  BY <1>3, TakenTyped DEF Infer

-----------------------------------------------------------------------------
(* Values.  S is a set that holds every value of a run so far: a function   *)
(* value in it may be held, and what it carries in is in S too.             *)

Envs(S)     == UNION {[D -> S] : D \in SUBSET Names}
OneTyped(p) == \A f \in p.funs : OneType(p, f)

\* a value may be had under the type: only a Secret is secret, and a function
\* value has the type of its function
Conforms(p, v, t) == /\ v = Hidden => t = Secret
                     /\ IsFnValue(v) => t = FnType(p, v[2])

\* what a function value may carry in
Carried(p, g, caught) ==
  /\ DOMAIN caught \subseteq DOMAIN Sig(p, g).captures
  /\ OneTyped(p) => \A n \in DOMAIN caught :
                      Conforms(p, caught[n], Sig(p, g).captures[n])

\* what a call of f may have bound
Bound(p, f, env) ==
  /\ DOMAIN env \subseteq Held(p, f)
  /\ OneTyped(p) => \A n \in DOMAIN env : \A t \in TypesOf(p, f, n) :
                      Conforms(p, env[n], t)

Calls(p, S) == {frame \in [fn : p.funs, at : Nat, env : Envs(S)] :
                  Bound(p, frame.fn, frame.env)}

Closed(p, S) ==
  /\ Plain \in S /\ Hidden \in S
  /\ \A v \in S :
       \/ v \in {Plain, Hidden}
       \/ /\ IsFnValue(v) /\ Passable(p, v[2]) /\ v[3] \in Envs(S)
          /\ Carried(p, v[2], v[3])

LEMMA PlainConforms ==
  \A p, t : Conforms(p, Plain, t)
BY DEF Conforms, Plain, Hidden, IsFnValue

LEMMA HiddenConforms ==
  \A p : Conforms(p, Hidden, Secret)
BY DEF Conforms, Plain, Hidden, IsFnValue

\* a name of a function has no type but those it is bound with
LEMMA StaticType ==
  ASSUME NEW p, Fit(p), NEW f \in p.funs, NEW i \in DOMAIN Code(p, f),
         NEW n \in Names
  PROVE  TypeOf(p, f, i, n) \subseteq TypesOf(p, f, n)
BY TypeOfHeld

LEMMA EnvsGrow ==
  ASSUME NEW S, NEW T, S \subseteq T
  PROVE  Envs(S) \subseteq Envs(T)
<1> SUFFICES ASSUME NEW D \in SUBSET Names, NEW env \in [D -> S]
             PROVE  env \in [D -> T]
  BY DEF Envs
<1> QED
  OBVIOUS

LEMMA EnvsHold ==
  ASSUME NEW S, NEW env \in Envs(S)
  PROVE  DOMAIN env \subseteq Names /\ \A n \in DOMAIN env : env[n] \in S
BY DEF Envs

LEMMA InEnvs ==
  ASSUME NEW S, NEW D \in SUBSET Names, NEW env \in [D -> S]
  PROVE  env \in Envs(S)
BY DEF Envs

LEMMA EmptyInEnvs ==
  ASSUME NEW S
  PROVE  Empty \in Envs(S) /\ DOMAIN Empty = {}
<1>1. Empty \in [{} -> S] /\ DOMAIN Empty = {}
  BY DEF Empty
<1> QED
  BY <1>1, InEnvs

\* what an inline function finds bound where it is written is what the check
\* carries in: each name it reads first it has, or is a function, and no local
LEMMA FreeCarried ==
  ASSUME NEW p, Fit(p), NEW f \in p.funs, NEW i \in DOMAIN Code(p, f),
         NEW e \in Taken(Code(p, f)[i]), e[1] = "closure",
         NEW n \in Free(p, e[2]), n \in Held(p, f)
  PROVE  n \in DOMAIN Sig(p, e[2]).captures
<1> DEFINE g == e[2]
<1>1. g \in p.funs /\ n \notin p.funs
  BY DEF Fit, Parsed, NamesApart, OwnReadNames, ReadNames
<1> HIDE DEF g
<1>2. n # Sig(p, g).param
  BY DEF Free, g
<1>3. PICK j \in DOMAIN Code(p, g) :
        /\ \E r \in Taken(Code(p, g)[j]) : n \in Reads(r)
        /\ n \notin BoundBy(p, g, j)
  BY DEF Free, g
<1>4. PICK r \in Taken(Code(p, g)[j]) : n \in Reads(r)
  BY <1>3
<1>5. r[1] = "var" /\ r[2] = n
  BY <1>4 DEF Reads
<1>6. Before(p, g, j, n) = {}
  <2>1. ASSUME NEW k \in Before(p, g, j, n)
        PROVE  FALSE
    <3>1. DOMAIN Code(p, g) = 1..Len(Code(p, g)) /\ Len(Code(p, g)) \in Nat
      BY <1>1 DEF Fit, Parsed
    <3>2. k \in 1..j /\ Binds(Code(p, g)[k]) = n
      BY <2>1, <3>1 DEF Before
    <3> QED
      BY <1>3, <3>2 DEF BoundBy
  <2> QED
    BY <2>1
<1>7. InEnv(p, g, j, n)
  BY <1>1, <1>3, <1>4, <1>5, TakenTyped DEF Infer
<1> QED
  BY <1>2, <1>6, <1>7 DEF InEnv, Start, g

\* what a statement takes gives a value of a set that is closed again, and
\* that may be had under the type the check gives it
LEMMA ValueHeld ==
  ASSUME NEW S, Fit(program), Closed(program, S),
         NEW f \in program.funs, NEW i \in DOMAIN Code(program, f),
         NEW e \in Taken(Code(program, f)[i]),
         NEW env \in Envs(S), Readable(env, e), Bound(program, f, env)
  PROVE  /\ \E T : S \subseteq T /\ Closed(program, T) /\ Value(env, e) \in T
         /\ OneTyped(program) => \A t \in Infer(program, f, i, e) :
                                  Conforms(program, Value(env, e), t)
<1> DEFINE v == Value(env, e)
           T == S \union {v}
           Good == \/ v \in S
                   \/ /\ IsFnValue(v) /\ Passable(program, v[2])
                      /\ v[3] \in Envs(S) /\ Carried(program, v[2], v[3])
           Typed == OneTyped(program) => \A t \in Infer(program, f, i, e) :
                                          Conforms(program, v, t)
<1>0. DOMAIN env \subseteq Names /\ \A n \in DOMAIN env : env[n] \in S
  BY EnvsHold
<1>1. Good /\ Typed
  <2>1. CASE e[1] = "data"
    BY <2>1, PlainConforms DEF Value, Closed
  <2>2. CASE e[1] = "var" /\ e[2] \in DOMAIN env
    <3>1. v = env[e[2]] /\ e[2] \in Names /\ e[2] \in Held(program, f)
      BY <2>2, <1>0 DEF Value, Bound
    <3>2. e[2] \notin program.funs
      BY <2>2, <3>1 DEF Fit, NamesApart, OwnReadNames, ReadNames, Reads
    <3>3. InEnv(program, f, i, e[2])
      BY <2>2, <3>2, TakenTyped DEF Infer
    <3>4. Infer(program, f, i, e) = TypeOf(program, f, i, e[2])
      BY <2>2, <3>3 DEF Infer
    <3>5. Infer(program, f, i, e) \subseteq TypesOf(program, f, e[2])
      BY <3>1, <3>4, StaticType
    <3> QED
      BY <2>2, <1>0, <3>1, <3>5 DEF Bound
  <2>3. CASE e[1] = "var" /\ e[2] \notin DOMAIN env
    <3>1. e[2] \in program.funs
      BY <2>3 DEF Readable, Reads
    <3>2. v = FnValue(e[2], Empty)
      BY <2>3 DEF Value
    <3>3. IsFnValue(v) /\ v[2] = e[2] /\ v[3] = Empty /\ v # Hidden
      BY <3>2 DEF FnValue, IsFnValue, Hidden
    <3>4. Carried(program, e[2], Empty)
      BY EmptyInEnvs DEF Carried
    <3>5. e[2] \in Names /\ e[2] \notin Held(program, f)
      BY <2>3, <3>1 DEF Fit, Parsed, NamesApart, OwnReadNames, ReadNames, Reads
    <3>6. ~InEnv(program, f, i, e[2])
      BY <3>5, InEnvHeld
    <3>7. Infer(program, f, i, e) \subseteq {FnType(program, e[2])}
      BY <2>3, <3>6 DEF Infer
    <3>8. Typed
      BY <3>3, <3>7 DEF Conforms
    <3> QED
      BY <2>3, <3>1, <3>3, <3>4, <3>8, ReadPassable, EmptyInEnvs
  <2>4. CASE e[1] = "closure"
    <3> DEFINE c == [n \in Free(program, e[2]) \intersect DOMAIN env |-> env[n]]
    <3>1. v = FnValue(e[2], c)
      BY <2>4 DEF Value
    <3>2. IsFnValue(v) /\ v[2] = e[2] /\ v[3] = c /\ v # Hidden
      BY <3>1 DEF FnValue, IsFnValue, Hidden
    <3>3. c \in [Free(program, e[2]) \intersect DOMAIN env -> S]
      BY <1>0
    <3>4. c \in Envs(S)
      BY <1>0, <3>3, InEnvs
    <3>5. Passable(program, e[2])
      BY <2>4 DEF Fit, Parsed, Passable
    <3>6. /\ Carries(program, f, i, e[2])
          /\ Infer(program, f, i, e) = {FnType(program, e[2])}
      BY <2>4, TakenTyped DEF Infer
    <3>7. ASSUME NEW n \in DOMAIN c
          PROVE  /\ n \in DOMAIN Sig(program, e[2]).captures
                 /\ OneTyped(program) =>
                      Conforms(program, c[n], Sig(program, e[2]).captures[n])
      <4>1. n \in Held(program, f) /\ n \in Names /\ c[n] = env[n]
        BY <1>0 DEF Bound
      <4>2. n \in DOMAIN Sig(program, e[2]).captures
        BY <2>4, <4>1, FreeCarried
      <4>3. Sig(program, e[2]).captures[n] \in TypesOf(program, f, n)
        BY <3>6, <4>1, <4>2, StaticType DEF Carries
      <4> QED
        BY <4>1, <4>2, <4>3 DEF Bound
    <3>8. Carried(program, e[2], c)
      BY <3>7 DEF Carried
    <3>9. Typed
      BY <3>2, <3>6 DEF Conforms
    <3> QED
      BY <3>2, <3>4, <3>5, <3>8, <3>9
  <2>5. e[1] \in {"data", "var", "closure"}
    BY DEF Fit, Parsed
  <2> QED
    BY <2>1, <2>2, <2>3, <2>4, <2>5
<1> HIDE DEF v
<1>2. Envs(S) \subseteq Envs(T)
  BY EnvsGrow
<1>3. Closed(program, T)
  BY <1>1, <1>2 DEF Closed
<1> QED
  BY <1>1, <1>3 DEF v

\* a call begins with values of S, and goes on with them
LEMMA EnteredHeld ==
  ASSUME NEW S, Fit(program), NEW g \in program.funs, NEW v \in S,
         OneTyped(program) => Conforms(program, v, Sig(program, g).type),
         NEW caught \in Envs(S), Carried(program, g, caught)
  PROVE  /\ Entered(g, caught, v) \in Calls(program, S)
         /\ Entered(g, caught, v).fn = g
<1> DEFINE own == {Sig(program, g).param} \ {NoName}
           env == [n \in own \union DOMAIN caught |->
                     IF n \in own THEN v ELSE caught[n]]
<1>1. own \subseteq Names
  BY DEF Fit, Parsed
<1>2. DOMAIN caught \subseteq Names /\ \A n \in DOMAIN caught : caught[n] \in S
  BY EnvsHold
<1>3. env \in [own \union DOMAIN caught -> S]
  BY <1>2
<1>4. env \in Envs(S)
  BY <1>1, <1>2, <1>3, InEnvs
<1>5. Entered(g, caught, v) = [fn |-> g, at |-> 1, env |-> env]
  BY DEF Entered
<1>6. DOMAIN env \subseteq Held(program, g)
  BY DEF Held, LocalNames, Carried
<1>7. ASSUME OneTyped(program), NEW n \in DOMAIN env,
             NEW t \in TypesOf(program, g, n)
      PROVE  Conforms(program, env[n], t)
  <2>1. n \in DOMAIN Start(program, g)
    BY DEF Start, Carried
  <2>2. Start(program, g)[n] \in TypesOf(program, g, n)
    BY <2>1 DEF TypesOf
  <2>3. t = Start(program, g)[n]
    BY <1>6, <1>7, <2>2 DEF OneTyped, OneType
  <2>4. CASE n \in own
    BY <1>7, <2>1, <2>3, <2>4 DEF Start
  <2>5. CASE n \notin own
    <3>1. n \in DOMAIN caught /\ n # Sig(program, g).param /\ env[n] = caught[n]
      BY <1>2, <2>5, NameAssumption
    <3>2. t = Sig(program, g).captures[n]
      BY <2>1, <2>3, <3>1 DEF Start
    <3> QED
      BY <1>7, <3>1, <3>2 DEF Carried
  <2> QED
    BY <2>4, <2>5
<1>8. Bound(program, g, env)
  BY <1>6, <1>7 DEF Bound
<1> HIDE DEF env
<1> QED
  BY <1>4, <1>5, <1>8 DEF Calls

\* a name the function binds, with a type it binds it with
BoundWith(p, f, n, v) ==
  \/ n = NoName
  \/ /\ n \in Names \intersect Held(p, f)
     /\ OneTyped(p) => \E t \in TypesOf(p, f, n) : Conforms(p, v, t)

LEMMA WentHeld ==
  ASSUME NEW S, NEW frame \in Calls(program, S), NEW v \in S, NEW n,
         BoundWith(program, frame.fn, n, v)
  PROVE  /\ Went(frame, n, v) \in Calls(program, S)
         /\ Went(frame, n, v).fn = frame.fn
<1> DEFINE D == DOMAIN frame.env \union ({n} \ {NoName})
           env == [m \in D |-> IF m = n THEN v ELSE frame.env[m]]
<1>1. frame.env \in Envs(S) /\ Bound(program, frame.fn, frame.env)
  BY DEF Calls
<1>2. DOMAIN frame.env \subseteq Names
      /\ \A m \in DOMAIN frame.env : frame.env[m] \in S
  BY <1>1, EnvsHold
<1>3. env \in [D -> S] /\ D \subseteq Names
  BY <1>2 DEF BoundWith
<1>4. env \in Envs(S)
  BY <1>3, InEnvs
<1>5. Went(frame, n, v) = [frame EXCEPT !.at = @ + 1, !.env = env]
  BY DEF Went
<1>6. /\ frame.fn \in program.funs /\ frame.at + 1 \in Nat
      /\ frame = [fn |-> frame.fn, at |-> frame.at, env |-> frame.env]
  BY DEF Calls
<1>7. DOMAIN env \subseteq Held(program, frame.fn)
  BY <1>1 DEF Bound, BoundWith
<1>8. ASSUME OneTyped(program), NEW m \in DOMAIN env,
             NEW t \in TypesOf(program, frame.fn, m)
      PROVE  Conforms(program, env[m], t)
  <2>1. CASE m = n
    <3>1. PICK u \in TypesOf(program, frame.fn, n) : Conforms(program, v, u)
      BY <1>2, <1>8, <2>1, NameAssumption DEF BoundWith
    <3>2. t = u
      BY <1>6, <1>7, <1>8, <2>1, <3>1 DEF OneTyped, OneType
    <3> QED
      BY <2>1, <3>1, <3>2
  <2>2. CASE m # n
    BY <1>1, <1>8, <2>2 DEF Bound
  <2> QED
    BY <2>1, <2>2
<1>9. Bound(program, frame.fn, env)
  BY <1>7, <1>8 DEF Bound
<1> HIDE DEF env
<1>10. Went(frame, n, v) = [fn |-> frame.fn, at |-> frame.at + 1, env |-> env]
  BY <1>5, <1>6
<1> QED
  BY <1>4, <1>6, <1>9, <1>10 DEF Calls

LEMMA CallsGrow ==
  ASSUME NEW p, NEW S, NEW T, S \subseteq T
  PROVE  Calls(p, S) \subseteq Calls(p, T)
BY EnvsGrow DEF Calls

-----------------------------------------------------------------------------
(* The stack.  What a call may do bounds what those above it may, and each  *)
(* but the last is at a call, that takes note of it when it can fail.  What *)
(* is under a call leaves it room in the depth, as what a function requires *)
(* is evaluated before its call counts.  A call has the type its result has. *)

AtStmt(p, frame) == Code(p, frame.fn)[frame.at]
AStmt(p, frame)  == frame.at \in DOMAIN Code(p, frame.fn)

May(p, frame) ==
  IF AStmt(p, frame) THEN MayOf(p, frame.fn, AtStmt(p, frame))
                     ELSE Sig(p, frame.fn).effects
MindsAt(p, frame) == AStmt(p, frame) /\ Minds(AtStmt(p, frame))

Under(p, frame, g) ==
  /\ AStmt(p, frame) /\ AtStmt(p, frame).do \in {"call", "promise"}
  /\ Sig(p, g).fails => Minds(AtStmt(p, frame))
  /\ OneTyped(p) /\ AtStmt(p, frame).do = "call" =>
       AtStmt(p, frame).type = Sig(p, g).gives

Counts(p, frame) ==
  ~(/\ AStmt(p, frame) /\ AtStmt(p, frame).do = "promise"
    /\ AtStmt(p, frame).mode = "requires")
CountUpTo(p, fs, k) == {j \in 1..k : Counts(p, fs[j])}

Stacked(p, fs) ==
  /\ fs # <<>> => fs[1].fn = Main
  /\ \A k, l \in 1..Len(fs) :
       k < l => Sig(p, fs[l].fn).effects \subseteq May(p, fs[k])
  /\ \A k, l \in 1..Len(fs) : l = k + 1 => Under(p, fs[k], fs[l].fn)
  /\ \A k \in 1..Len(fs) : Cardinality(CountUpTo(p, fs, k - 1)) < Depth

LEMMA CountSame ==
  ASSUME NEW p, NEW fs, NEW gs, NEW k, \A j \in 1..k : gs[j] = fs[j]
  PROVE  CountUpTo(p, gs, k) = CountUpTo(p, fs, k)
BY DEF CountUpTo

LEMMA CountNext ==
  ASSUME NEW p, NEW fs, NEW k \in Nat \ {0},
         Cardinality(CountUpTo(p, fs, k - 1)) < Depth
  PROVE  Cardinality(CountUpTo(p, fs, k)) <= Depth
<1> DEFINE less == CountUpTo(p, fs, k - 1)
           all  == CountUpTo(p, fs, k)
<1>1. IsFiniteSet(1..(k - 1)) /\ less \subseteq 1..(k - 1)
  BY FS_Interval DEF CountUpTo
<1>2. IsFiniteSet(less)
  BY <1>1, FS_Subset
<1>3. Cardinality(less) \in Nat
  BY <1>2, FS_CardinalityType
<1>4. Cardinality(less \union {k}) <= Cardinality(less) + 1
  BY <1>2, <1>3, FS_AddElement
<1>5. all \subseteq less \union {k}
  BY DEF CountUpTo
<1>6. IsFiniteSet(less \union {k})
  BY <1>2, FS_AddElement
<1>7. /\ Cardinality(all) <= Cardinality(less \union {k})
      /\ Cardinality(all) \in Nat /\ Cardinality(less \union {k}) \in Nat
  BY <1>5, <1>6, FS_Subset, FS_CardinalityType
<1> HIDE DEF less, all
<1>8. Cardinality(all) <= Depth
  BY <1>3, <1>4, <1>7, DepthAssumption DEF less
<1> QED
  BY <1>8 DEF all

LEMMA MayDeclared ==
  ASSUME NEW p, NEW frame
  PROVE  May(p, frame) \subseteq Sig(p, frame.fn).effects
BY DEF May, MayOf

LEMMA MayUnder ==
  ASSUME NEW p, NEW X, NEW fs \in Seq(X), fs # <<>>, Stacked(p, fs),
         NEW k \in 1..Len(fs)
  PROVE  May(p, fs[Len(fs)]) \subseteq May(p, fs[k])
<1>1. Len(fs) \in Nat \ {0}
  BY EmptySeq
<1>2. CASE k = Len(fs)
  BY <1>2
<1>3. CASE k < Len(fs)
  <2>1. Len(fs) \in 1..Len(fs)
    BY <1>1
  <2>2. Sig(p, fs[Len(fs)].fn).effects \subseteq May(p, fs[k])
    BY <1>3, <2>1 DEF Stacked
  <2> QED
    BY <2>2, MayDeclared
<1> QED
  BY <1>1, <1>2, <1>3

LEMMA Pushed ==
  ASSUME NEW p, NEW X, NEW fs \in Seq(X), fs # <<>>, Stacked(p, fs),
         NEW frame \in X,
         Sig(p, frame.fn).effects \subseteq May(p, fs[Len(fs)]),
         Under(p, fs[Len(fs)], frame.fn),
         Cardinality(CountUpTo(p, fs, Len(fs))) < Depth
  PROVE  /\ Append(fs, frame) \in Seq(X)
         /\ Append(fs, frame) # <<>>
         /\ Stacked(p, Append(fs, frame))
<1> DEFINE gs == Append(fs, frame)
<1>1. Len(fs) \in Nat \ {0}
  BY EmptySeq
<1>2. /\ gs \in Seq(X) /\ gs # <<>> /\ Len(gs) = Len(fs) + 1
      /\ \A i \in 1..Len(fs) : gs[i] = fs[i]
      /\ gs[Len(fs) + 1] = frame
  BY AppendProperties
<1> HIDE DEF gs
<1>3. gs[1].fn = Main
  BY <1>1, <1>2 DEF Stacked
<1>4. ASSUME NEW k \in 1..Len(gs), NEW l \in 1..Len(gs), k < l
      PROVE  Sig(p, gs[l].fn).effects \subseteq May(p, gs[k])
  <2>1. CASE l \in 1..Len(fs)
    <3>1. k \in 1..Len(fs) /\ gs[k] = fs[k] /\ gs[l] = fs[l]
      BY <1>1, <1>2, <1>4, <2>1
    <3> QED
      BY <1>4, <2>1, <3>1 DEF Stacked
  <2>2. CASE l = Len(fs) + 1
    <3>1. k \in 1..Len(fs)
      BY <1>1, <1>2, <1>4, <2>2
    <3> QED
      BY <1>2, <2>2, <3>1, MayUnder
  <2> QED
    BY <1>1, <1>2, <2>1, <2>2
<1>5. ASSUME NEW k \in 1..Len(gs), NEW l \in 1..Len(gs), l = k + 1
      PROVE  Under(p, gs[k], gs[l].fn)
  <2>1. CASE l \in 1..Len(fs)
    BY <1>1, <1>2, <1>5, <2>1 DEF Stacked
  <2>2. CASE l = Len(fs) + 1
    BY <1>1, <1>2, <1>5, <2>2
  <2> QED
    BY <1>1, <1>2, <2>1, <2>2
<1>7. ASSUME NEW k \in 1..Len(gs)
      PROVE  Cardinality(CountUpTo(p, gs, k - 1)) < Depth
  <2>1. \A j \in 1..(k - 1) : gs[j] = fs[j]
    BY <1>1, <1>2
  <2>2. CountUpTo(p, gs, k - 1) = CountUpTo(p, fs, k - 1)
    BY <2>1, CountSame
  <2>3. CASE k \in 1..Len(fs)
    BY <2>2, <2>3 DEF Stacked
  <2>4. CASE k = Len(fs) + 1
    BY <1>1, <2>2, <2>4, k - 1 = Len(fs)
  <2> QED
    BY <1>1, <1>2, <2>3, <2>4
<1>6. Stacked(p, gs)
  BY <1>3, <1>4, <1>5, <1>7 DEF Stacked
<1> QED
  BY <1>2, <1>6 DEF gs

LEMMA Popped ==
  ASSUME NEW p, NEW X, NEW fs \in Seq(X), fs # <<>>, Stacked(p, fs)
  PROVE  LET gs == SubSeq(fs, 1, Len(fs) - 1) IN
         /\ gs \in Seq(X) /\ Stacked(p, gs)
         /\ gs = <<>> => fs[Len(fs)].fn = Main
         /\ gs # <<>> => Under(p, gs[Len(gs)], fs[Len(fs)].fn)
<1> DEFINE gs == SubSeq(fs, 1, Len(fs) - 1)
<1>1. Len(fs) \in Nat \ {0} /\ \A i \in 1..Len(fs) : fs[i] \in X
  BY EmptySeq, ElementOfSeq
<1>2. \A i \in 1..(Len(fs) - 1) : fs[i] \in X
  BY <1>1
<1>3. /\ gs \in Seq(X)
      /\ Len(gs) = IF 1 <= Len(fs) - 1 THEN Len(fs) - 1 - 1 + 1 ELSE 0
      /\ \A i \in 1..(Len(fs) - 1 - 1 + 1) : gs[i] = fs[1 + i - 1]
  BY <1>1, <1>2, SubSeqProperties
<1> HIDE DEF gs
<1>4. Len(gs) = Len(fs) - 1
  <2>1. \A n \in Nat \ {0} :
          (IF 1 <= n - 1 THEN n - 1 - 1 + 1 ELSE 0) = n - 1
    OBVIOUS
  <2> QED
    BY <1>1, <1>3, <2>1
<1>10. ASSUME NEW i \in 1..Len(gs)
       PROVE  gs[i] = fs[i] /\ i \in 1..Len(fs)
  <2>1. i \in 1..(Len(fs) - 1 - 1 + 1) /\ 1 + i - 1 = i
    BY <1>1, <1>4
  <2> QED
    BY <1>1, <1>3, <2>1
<1>5. gs # <<>> => Len(gs) \in Nat \ {0}
  BY <1>3, EmptySeq
<1>6. gs = <<>> => Len(fs) = 1
  <2>1. gs = <<>> => Len(gs) = 0
    BY EmptySeq
  <2> QED
    BY <1>1, <1>4, <2>1
<1>11. gs # <<>> => gs[1].fn = Main
  BY <1>5, <1>10 DEF Stacked
<1>12. \A k, l \in 1..Len(gs) :
         k < l => Sig(p, gs[l].fn).effects \subseteq May(p, gs[k])
  BY <1>10 DEF Stacked
<1>13. \A k, l \in 1..Len(gs) : l = k + 1 => Under(p, gs[k], gs[l].fn)
  BY <1>10 DEF Stacked
<1>14. ASSUME NEW k \in 1..Len(gs)
       PROVE  Cardinality(CountUpTo(p, gs, k - 1)) < Depth
  <2>1. k \in 1..Len(fs) /\ 1..(k - 1) \subseteq 1..Len(gs)
    BY <1>1, <1>4
  <2>2. CountUpTo(p, gs, k - 1) = CountUpTo(p, fs, k - 1)
    BY <1>10, <2>1, CountSame
  <2> QED
    BY <2>1, <2>2 DEF Stacked
<1>7. Stacked(p, gs)
  BY <1>11, <1>12, <1>13, <1>14 DEF Stacked
<1>8. fs[1].fn = Main
  BY DEF Stacked
<1>9. ASSUME gs # <<>>
      PROVE  Under(p, gs[Len(gs)], fs[Len(fs)].fn)
  <2>2. Len(gs) \in 1..Len(gs) /\ Len(fs) \in 1..Len(fs)
        /\ Len(fs) = Len(gs) + 1
    BY <1>1, <1>4, <1>5, <1>9
  <2>3. gs[Len(gs)] = fs[Len(gs)] /\ Len(gs) \in 1..Len(fs)
    BY <1>10, <2>2
  <2> QED
    BY <2>2, <2>3 DEF Stacked
<1> QED
  BY <1>3, <1>6, <1>7, <1>8, <1>9 DEF gs

LEMMA Moved ==
  ASSUME NEW p, NEW X, NEW fs \in Seq(X), fs # <<>>, Stacked(p, fs),
         NEW frame \in X, frame.fn = fs[Len(fs)].fn
  PROVE  LET gs == [fs EXCEPT ![Len(fs)] = frame] IN
         gs \in Seq(X) /\ gs # <<>> /\ Stacked(p, gs)
<1> DEFINE gs == [fs EXCEPT ![Len(fs)] = frame]
<1>1. Len(fs) \in Nat \ {0}
  BY EmptySeq
<1>2. /\ gs \in Seq(X) /\ Len(gs) = Len(fs)
      /\ \A j \in 1..Len(fs) : gs[j] = IF j = Len(fs) THEN frame ELSE fs[j]
  BY <1>1, ExceptSeq
<1> HIDE DEF gs
<1>3. gs # <<>>
  BY <1>1, <1>2, EmptySeq
<1>4. gs[1].fn = Main
  BY <1>1, <1>2 DEF Stacked
<1>5. ASSUME NEW k \in 1..Len(gs), NEW l \in 1..Len(gs), k < l
      PROVE  /\ k \in 1..Len(fs) /\ l \in 1..Len(fs)
             /\ gs[k] = fs[k] /\ gs[l].fn = fs[l].fn
  <2>1. k # Len(fs)
    BY <1>1, <1>2, <1>5
  <2> QED
    BY <1>2, <2>1
<1>7. \A k, l \in 1..Len(gs) :
        k < l => Sig(p, gs[l].fn).effects \subseteq May(p, gs[k])
  BY <1>5 DEF Stacked
<1>8. ASSUME NEW k \in 1..Len(gs), NEW l \in 1..Len(gs), l = k + 1
      PROVE  Under(p, gs[k], gs[l].fn)
  <2>1. k < l
    BY <1>1, <1>2, <1>8
  <2> QED
    BY <1>5, <1>8, <2>1 DEF Stacked
<1>9. ASSUME NEW k \in 1..Len(gs)
      PROVE  Cardinality(CountUpTo(p, gs, k - 1)) < Depth
  <2>1. k \in 1..Len(fs) /\ \A j \in 1..(k - 1) : gs[j] = fs[j]
    BY <1>1, <1>2
  <2>2. CountUpTo(p, gs, k - 1) = CountUpTo(p, fs, k - 1)
    BY <2>1, CountSame
  <2> QED
    BY <2>1, <2>2 DEF Stacked
<1>6. Stacked(p, gs)
  BY <1>4, <1>7, <1>8, <1>9 DEF Stacked
<1> QED
  BY <1>2, <1>3, <1>6 DEF gs

-----------------------------------------------------------------------------
(* The invariant, and that every action keeps it. *)

\* every value of the run is in a closed set
Values(S) ==
  /\ Closed(program, S)
  /\ frames \in Seq(Calls(program, S))
  /\ signal \in {<<>>} \union {<<v>> : v \in S}
  /\ OneTyped(program) => signal \in {<<>>, <<Plain>>}

\* the calls that count, as the model has them
LEMMA CallsCounted ==
  ASSUME NEW X, frames \in Seq(X)
  PROVE  CallsMade = Cardinality(CountUpTo(program, frames, Len(frames)))
<1>1. DOMAIN frames = 1..Len(frames)
  BY LenProperties
<1>2. \A k : Requires(k) <=> ~Counts(program, frames[k])
  BY DEF Requires, Promises, AtIn, Counts, AStmt, AtStmt
<1>3. {k \in DOMAIN frames : ~Requires(k)}
        = CountUpTo(program, frames, Len(frames))
  BY <1>1, <1>2 DEF CountUpTo
<1> QED
  BY <1>3 DEF CallsMade

Sound ==
  /\ Fit(program)
  /\ status \in {"running", "over", "stopped"}
  /\ status = "running" => frames # <<>>
  /\ Rising => MindsAt(program, Top)
  /\ Stacked(program, frames)
  /\ \E S : Values(S)

LEMMA TopHeld ==
  ASSUME Sound, status = "running", NEW S, Values(S)
  PROVE  /\ Top \in Calls(program, S) /\ Len(frames) \in 1..Len(frames)
         /\ Top.fn \in program.funs /\ Top.at \in Nat /\ Env \in Envs(S)
         /\ Bound(program, Top.fn, Env)
<1>1. Len(frames) \in Nat \ {0}
  BY EmptySeq DEF Sound, Values
<1>2. Len(frames) \in 1..Len(frames)
  BY <1>1
<1>3. Top \in Calls(program, S)
  BY <1>2, ElementOfSeq DEF Values, Top
<1> QED
  BY <1>2, <1>3 DEF Calls, Env

\* the statement at hand is one of its function's
LEMMA StmtHeld ==
  ASSUME Sound, Running, ~Ended
  PROVE  /\ Fit(program) /\ Top.fn \in program.funs
         /\ Top.at \in DOMAIN Code(program, Top.fn)
         /\ Stmt = Code(program, Top.fn)[Top.at]
         /\ Stmt = AtStmt(program, Top) /\ AStmt(program, Top)
<1>1. PICK S : Values(S)
  BY DEF Sound
<1>2. Top.fn \in program.funs
  BY <1>1, TopHeld DEF Running
<1> QED
  BY <1>2 DEF Sound, Ended, TopCode, Stmt, AtStmt, AStmt

LEMMA TakenHeld ==
  ASSUME Sound, Running, ~Ended, NEW e \in Taken(Stmt), Readable(Env, e)
  PROVE  /\ \E S : Values(S) /\ Value(Env, e) \in S
         /\ OneTyped(program) => \A t \in Infer(program, Top.fn, Top.at, e) :
                                  Conforms(program, Value(Env, e), t)
<1>1. PICK S : Values(S)
  BY DEF Sound
<1>2. Env \in Envs(S) /\ Bound(program, Top.fn, Env)
  BY <1>1, TopHeld DEF Running
<1>6. OneTyped(program) => \A t \in Infer(program, Top.fn, Top.at, e) :
                            Conforms(program, Value(Env, e), t)
  BY <1>1, <1>2, StmtHeld, ValueHeld DEF Values
<1>3. PICK T : S \subseteq T /\ Closed(program, T) /\ Value(Env, e) \in T
  BY <1>1, <1>2, StmtHeld, ValueHeld DEF Values
<1>4. frames \in Seq(Calls(program, T))
  BY <1>1, <1>3, CallsGrow, SeqMonotonic DEF Values
<1>5. signal \in {<<>>} \union {<<v>> : v \in T}
  BY <1>1, <1>3 DEF Values
<1> QED
  BY <1>1, <1>3, <1>4, <1>5, <1>6 DEF Values

\* a call goes on: the last frame becomes another of the same function
LEMMA FrameMoves ==
  ASSUME Sound, Running, NEW S, Values(S),
         NEW frame \in Calls(program, S), frame.fn = Top.fn,
         frames' = [frames EXCEPT ![Len(frames)] = frame],
         program' = program, signal' = signal,
         status' \in {"running", "stopped"}
  PROVE  Sound'
<1>1. frames \in Seq(Calls(program, S)) /\ frames # <<>>
      /\ Stacked(program, frames) /\ frame.fn = frames[Len(frames)].fn
  BY DEF Sound, Running, Values, Top
<1>2. frames' \in Seq(Calls(program, S)) /\ frames' # <<>>
      /\ Stacked(program, frames')
  BY <1>1, Moved
<1>3. ~Rising'
  BY DEF Running, Rising
<1>4. Values(S)'
  BY <1>2 DEF Values, Running
<1> QED
  BY <1>2, <1>3, <1>4 DEF Sound

LEMMA StoppedSound ==
  ASSUME Sound, Stopped, program' = program
  PROVE  Sound'
<1>1. PICK S : Values(S)
  BY DEF Sound
<1>2. Values(S)'
  BY <1>1 DEF Values, Stopped
<1> QED
  BY <1>2 DEF Sound, Stopped, Rising

\* what a statement binds is a name its function holds, with its type
LEMMA BindsHeld ==
  ASSUME NEW p, Fit(p), NEW f \in p.funs, NEW i \in DOMAIN Code(p, f),
         NEW s, s = Code(p, f)[i], s.do \in {"let", "assign", "call", "caught"},
         NEW v, OneTyped(p) => Conforms(p, v, s.type)
  PROVE  BoundWith(p, f, s.name, v)
<1>1. Binds(s) = s.name
  BY DEF Binds
<1>2. s.name \in Names \union {NoName}
  BY <1>1 DEF Fit, Parsed
<1>3. s.name # NoName => s.name \in Held(p, f)
  BY <1>1 DEF Held, LocalNames
<1>4. s.type \in TypesOf(p, f, s.name)
  BY <1>1 DEF TypesOf
<1> QED
  BY <1>2, <1>3, <1>4 DEF BoundWith

LEMMA LetSound ==
  ASSUME Sound, Let
  PROVE  Sound'
<1>1. Running /\ ~Ended /\ Stmt.do \in {"let", "assign"}
  BY DEF Let, Doing
<1>2. Stmt.value \in Taken(Stmt)
  BY <1>1 DEF Taken
<1>3. PICK S : Values(S) /\ Value(Env, Stmt.value) \in S
  BY <1>1, <1>2, TakenHeld DEF Let, Evaluates
<1>8. Stmt.type \in Infer(program, Top.fn, Top.at, Stmt.value)
  <2>1. CheckStmt(program, Top.fn, Top.at, Stmt)
    BY <1>1, StmtHeld, StmtChecked
  <2>2. CASE Stmt.do = "let"
    BY <2>1, <2>2 DEF CheckStmt
  <2>3. CASE Stmt.do = "assign"
    BY <2>1, <2>3 DEF CheckStmt
  <2> QED
    BY <1>1, <2>2, <2>3
<1>9. OneTyped(program) => Conforms(program, Value(Env, Stmt.value), Stmt.type)
  BY <1>1, <1>2, <1>8, TakenHeld DEF Let, Evaluates
<1>4. BoundWith(program, Top.fn, Stmt.name, Value(Env, Stmt.value))
  BY <1>1, <1>9, StmtHeld, BindsHeld
<1> DEFINE frame == Went(Top, Stmt.name, Value(Env, Stmt.value))
<1>5. frame \in Calls(program, S) /\ frame.fn = Top.fn
  BY <1>1, <1>3, <1>4, TopHeld, StmtHeld, WentHeld DEF Running
<1>6. frames' = [frames EXCEPT ![Len(frames)] = frame]
  BY DEF Let, Top
<1>7. /\ program' = program /\ signal' = signal
      /\ status' \in {"running", "stopped"}
  BY DEF Let, Evaluates, Running, Doing
<1> HIDE DEF frame
<1> QED
  BY <1>1, <1>3, <1>5, <1>6, <1>7, FrameMoves

LEMMA BranchSound ==
  ASSUME Sound, Branch
  PROVE  Sound'
<1>1. Running /\ ~Ended /\ Stmt.do = "jump"
  BY DEF Branch, Doing
<1>2. PICK S : Values(S)
  BY DEF Sound
<1>3. PICK k \in Stmt.to : frames' = [frames EXCEPT ![Len(frames)].at = k]
  BY DEF Branch
<1>4. k \in Nat
  <2>1. k \in 1..(Len(Code(program, Top.fn)) + 1)
    BY <1>1, <1>3, StmtHeld DEF Fit, Parsed
  <2>2. Len(Code(program, Top.fn)) \in Nat
    BY <1>1, StmtHeld DEF Fit, Parsed
  <2> QED
    BY <2>1, <2>2
<1> DEFINE frame == [Top EXCEPT !.at = k]
<1>5. frame \in Calls(program, S) /\ frame.fn = Top.fn
  BY <1>1, <1>2, <1>4, TopHeld DEF Running, Calls
<1>6. frames' = [frames EXCEPT ![Len(frames)] = frame]
  BY <1>3 DEF Top
<1>7. /\ program' = program /\ signal' = signal
      /\ status' \in {"running", "stopped"}
  BY DEF Branch, Running, Doing
<1> HIDE DEF frame
<1> QED
  BY <1>1, <1>2, <1>5, <1>6, <1>7, FrameMoves

\* a call of a function that may do no more than the statement and that the
\* statement takes note of
LEMMA EnterSound ==
  ASSUME Sound, Running, ~Ended, Stmt.do \in {"call", "promise"},
         NEW g \in program.funs, NEW caught,
         NEW S, Values(S), caught \in Envs(S), Value(Env, Stmt.arg) \in S,
         Carried(program, g, caught),
         OneTyped(program) =>
           /\ Conforms(program, Value(Env, Stmt.arg), Sig(program, g).type)
           /\ Stmt.do = "call" => Stmt.type = Sig(program, g).gives,
         Sig(program, g).effects \subseteq MayOf(program, Top.fn, Stmt),
         Sig(program, g).fails => Minds(Stmt),
         Enter(g, caught), program' = program
  PROVE  Sound'
<1> DEFINE frame == Entered(g, caught, Value(Env, Stmt.arg))
<1>1. CASE Stopped
  BY <1>1, StoppedSound
<1>2. CASE /\ CallsMade < Depth /\ frames' = Append(frames, frame)
           /\ UNCHANGED <<signal, status>>
  <2>1. frame \in Calls(program, S) /\ frame.fn = g
    BY StmtHeld, EnteredHeld
  <2> HIDE DEF frame
  <2>2. /\ frames \in Seq(Calls(program, S)) /\ frames # <<>>
        /\ Stacked(program, frames) /\ Top = frames[Len(frames)]
    BY DEF Values, Sound, Running, Top
  <2>3. Sig(program, frame.fn).effects \subseteq May(program, Top)
    BY <2>1, StmtHeld DEF May
  <2>4. Under(program, Top, frame.fn)
    BY <2>1, StmtHeld DEF Under
  <2>8. Cardinality(CountUpTo(program, frames, Len(frames))) < Depth
    BY <1>2, <2>2, CallsCounted
  <2>5. /\ frames' \in Seq(Calls(program, S)) /\ frames' # <<>>
        /\ Stacked(program, frames')
    BY <1>2, <2>1, <2>2, <2>3, <2>4, <2>8, Pushed
  <2>6. Values(S)'
    BY <1>2, <2>5 DEF Values, Running
  <2>7. ~Rising'
    BY <1>2 DEF Rising, Running
  <2> QED
    BY <1>2, <2>5, <2>6, <2>7 DEF Sound, Running
<1> QED
  BY <1>1, <1>2 DEF Enter

\* a call has a type, and one whose result is held has the type it gives
LEMMA CallTyped ==
  ASSUME Sound, Running, ~Ended, Stmt.do \in {"call", "promise"}
  PROVE  LET types == InferCall(program, Top.fn, Top.at, Stmt.callee, Stmt.arg)
         IN  types # {} /\ (Stmt.do = "call" => Stmt.type \in types)
<1>1. CheckStmt(program, Top.fn, Top.at, Stmt)
  BY StmtHeld, StmtChecked
<1>2. CASE Stmt.do = "call"
  BY <1>1, <1>2 DEF CheckStmt
<1>3. CASE Stmt.do = "promise"
  BY <1>1, <1>3 DEF CheckStmt
<1> QED
  BY <1>2, <1>3

\* every name a function holds has a type in it
LEMMA HeldTyped ==
  ASSUME NEW p, Fit(p), NEW f \in p.funs, NEW n \in Held(p, f)
  PROVE  TypesOf(p, f, n) # {}
<1>1. CASE n \in DOMAIN Start(p, f)
  BY <1>1 DEF TypesOf
<1>2. CASE \E i \in DOMAIN Code(p, f) : n = Binds(Code(p, f)[i])
  BY <1>2 DEF TypesOf
<1> QED
  BY <1>1, <1>2 DEF Held, LocalNames, Start

LEMMA CallValueSound ==
  ASSUME Sound, CallValue
  PROVE  Sound'
<1>1. Running /\ ~Ended /\ Stmt.do \in {"call", "promise"} /\ ByValue
  BY DEF CallValue, Calling, Doing
<1>2. Stmt.arg \in Taken(Stmt)
  BY <1>1 DEF Taken
<1>3. PICK S : Values(S) /\ Value(Env, Stmt.arg) \in S
  BY <1>1, <1>2, TakenHeld DEF CallValue, Evaluates
<1> DEFINE v == Env[Stmt.callee]
<1>4. v \in S
  BY <1>1, <1>3, TopHeld, EnvsHold DEF ByValue, Running
<1>5. /\ Passable(program, v[2]) /\ v[3] \in Envs(S)
      /\ Carried(program, v[2], v[3])
  BY <1>1, <1>3, <1>4 DEF ByValue, Values, Closed, IsFnValue, Plain, Hidden
<1>6. /\ v[2] \in program.funs /\ ~Sig(program, v[2]).fails
      /\ Sig(program, v[2]).effects \subseteq MayOf(program, Top.fn, Stmt)
  BY <1>5 DEF Passable
<1>7. Enter(v[2], v[3]) /\ program' = program
  BY DEF CallValue, Evaluates
<1>8. IsFnValue(v) /\ Stmt.callee \in DOMAIN Env
  BY <1>1 DEF ByValue
<1> HIDE DEF v
<1>9. ASSUME OneTyped(program)
      PROVE  /\ Conforms(program, Value(Env, Stmt.arg), Sig(program, v[2]).type)
             /\ Stmt.do = "call" => Stmt.type = Sig(program, v[2]).gives
  <2>1. Bound(program, Top.fn, Env) /\ Stmt.callee \in Names
    BY <1>1, <1>3, <1>8, TopHeld, EnvsHold DEF Running
  <2>2. \A t \in TypesOf(program, Top.fn, Stmt.callee) :
          t = FnType(program, v[2])
    BY <1>8, <1>9, <2>1 DEF Bound, Conforms, v
  <2>3. TypeOf(program, Top.fn, Top.at, Stmt.callee)
          \subseteq {FnType(program, v[2])}
    BY <1>1, <2>1, <2>2, StmtHeld, StaticType
  <2>4. Stmt.callee \notin program.funs \union Builtins
    <3>1. Stmt.callee \in Held(program, Top.fn)
      BY <1>8, <2>1 DEF Bound
    <3>2. PICK t : t \in TypesOf(program, Top.fn, Stmt.callee)
      BY <3>1, HeldTyped, <1>1, StmtHeld, <2>1
    <3>3. IsFn(t)
      BY <2>2, <3>2 DEF IsFn, FnType, Fn
    <3> QED
      BY <1>1, <3>1, <3>2, <3>3, StmtHeld DEF Fit, NamesApart, OwnFnNames
  <2>5. InferCall(program, Top.fn, Top.at, Stmt.callee, Stmt.arg)
          \subseteq {u[3] : u \in {w \in {FnType(program, v[2])} :
                        w[2] \in Infer(program, Top.fn, Top.at, Stmt.arg)}}
    BY <2>3, <2>4 DEF InferCall, Reached
  <2>6. FnType(program, v[2])[2] = Sig(program, v[2]).type
        /\ FnType(program, v[2])[3] = Sig(program, v[2]).gives
    BY DEF FnType, Fn
  <2>7. \A t \in InferCall(program, Top.fn, Top.at, Stmt.callee, Stmt.arg) :
          /\ t = Sig(program, v[2]).gives
          /\ Sig(program, v[2]).type
               \in Infer(program, Top.fn, Top.at, Stmt.arg)
    BY <2>5, <2>6
  <2> QED
    BY <1>1, <1>2, <1>9, <2>7, CallTyped, TakenHeld DEF CallValue, Evaluates
<1> QED
  BY <1>1, <1>3, <1>5, <1>6, <1>7, <1>9, EnterSound

LEMMA CallFunctionSound ==
  ASSUME Sound, CallFunction
  PROVE  Sound'
<1>1. Running /\ ~Ended /\ Stmt.do \in {"call", "promise"}
  BY DEF CallFunction, Calling, Doing
<1>2. Stmt.arg \in Taken(Stmt)
  BY <1>1 DEF Taken
<1>3. PICK S : Values(S) /\ Value(Env, Stmt.arg) \in S
  BY <1>1, <1>2, TakenHeld DEF CallFunction, Evaluates
<1> DEFINE g == Stmt.callee
<1>4. g \in program.funs /\ ~Reached(program, g) /\ Callable(program, g)
  BY DEF CallFunction, Callable
<1>5. /\ Needed(program, g) \subseteq MayOf(program, Top.fn, Stmt)
      /\ Fails(program, g) => Minds(Stmt)
  BY <1>1, <1>4, StmtHeld, CallChecked
<1>6. /\ Sig(program, g).effects \subseteq MayOf(program, Top.fn, Stmt)
      /\ Sig(program, g).fails => Minds(Stmt)
  BY <1>4, <1>5 DEF Needed, Fails
<1>7. Enter(g, Empty) /\ program' = program
  BY DEF CallFunction, Evaluates
<1>8. ~HeldFn(program, Top.fn, Top.at, g)
  BY <1>1, <1>4, StmtHeld, CallChecked
<1>9. \A t \in InferCall(program, Top.fn, Top.at, g, Stmt.arg) :
        /\ t = Sig(program, g).gives
        /\ Sig(program, g).type \in Infer(program, Top.fn, Top.at, Stmt.arg)
  BY <1>4, <1>8 DEF InferCall
<1>10. OneTyped(program) =>
         /\ Conforms(program, Value(Env, Stmt.arg), Sig(program, g).type)
         /\ Stmt.do = "call" => Stmt.type = Sig(program, g).gives
  BY <1>1, <1>2, <1>9, CallTyped, TakenHeld DEF CallFunction, Evaluates
<1>11. Carried(program, g, Empty)
  BY EmptyInEnvs DEF Carried
<1> HIDE DEF g
<1> QED
  BY <1>1, <1>3, <1>4, <1>6, <1>7, <1>10, <1>11, EmptyInEnvs, EnterSound

\* what a call of a built-in may do, and that a failure of it is noted
LEMMA BuiltinChecked ==
  ASSUME Sound, CallBuiltin
  PROVE  /\ Running /\ ~Ended /\ Stmt.do \in {"call", "promise"}
         /\ Stmt.arg \in Taken(Stmt)
         /\ BuiltinSig[Stmt.callee].effects \subseteq May(program, Top)
         /\ BuiltinSig[Stmt.callee].fails => MindsAt(program, Top)
         /\ ~HeldFn(program, Top.fn, Top.at, Stmt.callee)
         /\ Reached(program, Stmt.callee)
<1>1. Running /\ ~Ended /\ Stmt.do \in {"call", "promise"}
  BY DEF CallBuiltin, Calling, Doing
<1>2. Reached(program, Stmt.callee) /\ Callable(program, Stmt.callee)
  BY DEF CallBuiltin, Callable
<1>3. /\ Needed(program, Stmt.callee) \subseteq MayOf(program, Top.fn, Stmt)
      /\ Fails(program, Stmt.callee) => Minds(Stmt)
      /\ ~HeldFn(program, Top.fn, Top.at, Stmt.callee)
  BY <1>1, <1>2, StmtHeld, CallChecked
<1>4. Stmt.arg \in Taken(Stmt)
  BY <1>1 DEF Taken
<1> QED
  BY <1>1, <1>2, <1>3, <1>4, StmtHeld DEF Needed, Fails, May, MindsAt

\* A secret given to a built-in that does not take one has no effect and no
\* failure to be in, and what the built-in gives is secret to the check too.
LEMMA BuiltinSecrets ==
  ASSUME Sound, CallBuiltin, OneTyped(program)
  PROVE  LET b == BuiltinSig[Stmt.callee]
             v == Value(Env, Stmt.arg)
         IN  /\ v = Hidden /\ b.param # Secret => b.effects = {}
             /\ v = Hidden => ~b.fails
             /\ /\ Stmt.do = "call"
                /\ (v = Hidden /\ b.param # Secret) \/ b.gives = Secret
                => Stmt.type = Secret
<1> DEFINE b == BuiltinSig[Stmt.callee]
           v == Value(Env, Stmt.arg)
           args == Infer(program, Top.fn, Top.at, Stmt.arg)
           fine == {t \in args :
                      Accepts(program, Top.fn, Top.at, Stmt.callee, t)}
<1>1. /\ Running /\ ~Ended /\ Stmt.do \in {"call", "promise"}
      /\ Stmt.arg \in Taken(Stmt) /\ Stmt.callee \in Builtins
  BY BuiltinChecked DEF Reached
<1>2. InferCall(program, Top.fn, Top.at, Stmt.callee, Stmt.arg)
        = {Given(Stmt.callee, t) : t \in fine}
  BY BuiltinChecked DEF InferCall
<1>3. PICK t \in fine : Stmt.do = "call" => Stmt.type = Given(Stmt.callee, t)
  BY <1>1, <1>2, CallTyped
<1>4. v = Hidden => t = Secret
  BY <1>1, <1>3, TakenHeld DEF CallBuiltin, Conforms
<1>5. Accepts(program, Top.fn, Top.at, Stmt.callee, t)
  BY <1>3
<1>6. t = Secret /\ b.param # Secret => b.effects = {} /\ ~b.fails
  BY <1>5 DEF Accepts
<1>7. b.param = Secret => ~b.fails
  BY <1>1, SecretAssumption
<1>8. (t = Secret /\ b.param # Secret) \/ b.gives = Secret
        => Given(Stmt.callee, t) = Secret
  BY DEF Given
<1> HIDE DEF v, b, fine
<1> QED
  BY <1>3, <1>4, <1>6, <1>7, <1>8 DEF v, b

\* what a call gives goes into the frame that made it
LEMMA TookHeld ==
  ASSUME Fit(program), NEW S, NEW frame \in Calls(program, S), NEW v \in S,
         AStmt(program, frame),
         AtStmt(program, frame).do \in {"call", "promise"},
         OneTyped(program) /\ AtStmt(program, frame).do = "call" =>
           Conforms(program, v, AtStmt(program, frame).type)
  PROVE  LET w == Took(frame, AtStmt(program, frame), v) IN
         w \in Calls(program, S) /\ w.fn = frame.fn
<1> DEFINE s == AtStmt(program, frame)
<1>1. frame.fn \in program.funs
  BY DEF Calls
<1>3. CASE s.do = "call"
  <2>1. BoundWith(program, frame.fn, s.name, v)
    BY <1>1, <1>3, BindsHeld DEF AStmt, AtStmt
  <2> QED
    BY <1>3, <2>1, WentHeld DEF Took, s
<1>4. CASE s.do = "promise"
  BY <1>4 DEF Took, Calls, s
<1> QED
  BY <1>3, <1>4 DEF s

LEMMA CallBuiltinSound ==
  ASSUME Sound, CallBuiltin
  PROVE  Sound'
<1>1. /\ Running /\ ~Ended /\ Stmt.do \in {"call", "promise"}
      /\ Stmt.arg \in Taken(Stmt)
      /\ BuiltinSig[Stmt.callee].fails => MindsAt(program, Top)
  BY BuiltinChecked
<1>2. PICK S : Values(S)
  BY DEF Sound
<1>3. Plain \in S /\ Hidden \in S
  BY <1>2 DEF Values, Closed
<1>4. program' = program
  BY DEF CallBuiltin
<1>5. CASE Stopped
  BY <1>4, <1>5, StoppedSound
<1>6. ASSUME NEW v \in {Plain, Hidden}, BuiltinSig[Stmt.callee].fails,
             v = Hidden => Value(Env, Stmt.arg) = Hidden,
             signal' = <<v>>, UNCHANGED <<frames, status>>
      PROVE  Sound'
  <2>1. OneTyped(program) => v = Plain
    BY <1>6, BuiltinSecrets
  <2>2. Values(S)'
    BY <1>2, <1>3, <1>4, <1>6, <2>1 DEF Values
  <2>3. MindsAt(program, Top)' 
    BY <1>1, <1>4, <1>6 DEF Top
  <2> QED
    BY <1>4, <1>6, <2>2, <2>3 DEF Sound
<1>7. ASSUME NEW v \in {Plain, Hidden},
             v = Hidden => \/ /\ Value(Env, Stmt.arg) = Hidden
                              /\ BuiltinSig[Stmt.callee].param # Secret
                           \/ BuiltinSig[Stmt.callee].gives = Secret,
             frames' = [frames EXCEPT ![Len(frames)] = Took(@, Stmt, v)],
             status' \in {"running", "stopped"}, UNCHANGED signal
      PROVE  Sound'
  <2> DEFINE frame == Took(Top, Stmt, v)
  <2>1. Top \in Calls(program, S) /\ v \in S
    BY <1>1, <1>2, <1>3, TopHeld DEF Running
  <2>4. OneTyped(program) /\ Stmt.do = "call" => Conforms(program, v, Stmt.type)
    BY <1>7, BuiltinSecrets, PlainConforms, HiddenConforms
  <2>2. frame \in Calls(program, S) /\ frame.fn = Top.fn
    BY <1>1, <2>1, <2>4, StmtHeld, TookHeld
  <2>3. frames' = [frames EXCEPT ![Len(frames)] = frame]
    BY <1>7 DEF Top
  <2> HIDE DEF frame
  <2> QED
    BY <1>1, <1>2, <1>4, <1>7, <2>2, <2>3, FrameMoves
<1> DEFINE secret == \/ /\ Value(Env, Stmt.arg) = Hidden
                        /\ BuiltinSig[Stmt.callee].param # Secret
                    \/ BuiltinSig[Stmt.callee].gives = Secret
<1>8. CASE /\ BuiltinSig[Stmt.callee].fails
           /\ signal' = <<IF Value(Env, Stmt.arg) = Hidden
                            THEN Hidden ELSE Plain>>
           /\ UNCHANGED <<frames, status>>
  <2>1. CASE Value(Env, Stmt.arg) = Hidden
    BY <1>6, <1>8, <2>1
  <2>2. CASE Value(Env, Stmt.arg) # Hidden
    BY <1>6, <1>8, <2>2, Plain # Hidden DEF Plain, Hidden
  <2> QED
    BY <2>1, <2>2
<1>9. CASE /\ frames' = [frames EXCEPT ![Len(frames)] =
                Took(@, Stmt, IF secret THEN Hidden ELSE Plain)]
           /\ status' \in {"running", "stopped"} /\ UNCHANGED signal
  <2>1. CASE secret
    BY <1>7, <1>9, <2>1
  <2>2. CASE ~secret
    BY <1>7, <1>9, <2>2, Plain # Hidden DEF Plain, Hidden
  <2> QED
    BY <2>1, <2>2
<1> QED
  BY <1>5, <1>8, <1>9 DEF CallBuiltin

\* the caller goes on, or main's end is the run's
LEMMA BackSound ==
  ASSUME Sound, Running, NEW S, Values(S), NEW v \in S, Back(v),
         OneTyped(program) => Conforms(program, v, Sig(program, Top.fn).gives),
         program' = program, signal' = signal
  PROVE  Sound'
<1>1. /\ frames \in Seq(Calls(program, S)) /\ frames # <<>>
      /\ Stacked(program, frames) /\ Fit(program)
      /\ Rest = SubSeq(frames, 1, Len(frames) - 1)
  BY DEF Sound, Running, Values, Rest
<1>2. /\ Rest \in Seq(Calls(program, S)) /\ Stacked(program, Rest)
      /\ Rest # <<>> => Under(program, Rest[Len(Rest)], Top.fn)
  BY <1>1, Popped DEF Top
<1>3. ~Rising' /\ signal' = <<>>
  BY DEF Running, Rising
<1>4. CASE Rest = <<>>
  <2>1. frames' = <<>> /\ status' = "over"
    BY <1>4 DEF Back
  <2>2. Values(S)'
    BY <1>2, <1>3, <1>4, <2>1 DEF Values
  <2>3. Stacked(program, frames')
    BY <1>2, <1>4, <2>1
  <2> QED
    BY <1>1, <1>3, <2>1, <2>2, <2>3 DEF Sound
<1>5. CASE Rest # <<>>
  <2> DEFINE caller == Rest[Len(Rest)]
             call   == AtStmt(program, caller)
             frame  == Took(caller, call, v)
  <2>1. caller \in Calls(program, S)
    BY <1>2, <1>5, EmptySeq, ElementOfSeq
  <2>2. AStmt(program, caller) /\ call.do \in {"call", "promise"}
    BY <1>2, <1>5 DEF Under
  <2>7. OneTyped(program) /\ call.do = "call" => Conforms(program, v, call.type)
    BY <1>2, <1>5 DEF Under
  <2>3. frame \in Calls(program, S) /\ frame.fn = caller.fn
    BY <1>1, <2>1, <2>2, <2>7, TookHeld
  <2>4. frames' = [Rest EXCEPT ![Len(Rest)] = frame]
        /\ status' \in {"running", "stopped"}
    BY <1>5 DEF Back, AtStmt, Running
  <2> HIDE DEF frame
  <2>5. /\ frames' \in Seq(Calls(program, S)) /\ frames' # <<>>
        /\ Stacked(program, frames')
    BY <1>2, <1>5, <2>3, <2>4, Moved
  <2>6. Values(S)'
    BY <1>3, <2>5 DEF Values
  <2> QED
    BY <1>1, <1>3, <2>4, <2>5, <2>6 DEF Sound
<1> QED
  BY <1>4, <1>5

LEMMA ReturnSound ==
  ASSUME Sound, Return
  PROVE  Sound'
<1>1. Running /\ ~Ended /\ Stmt.value \in Taken(Stmt)
  BY DEF Return, Doing, Taken
<1>2. PICK S : Values(S) /\ Value(Env, Stmt.value) \in S
  BY <1>1, TakenHeld DEF Return, Evaluates
<1>3. Sig(program, Top.fn).gives \in Infer(program, Top.fn, Top.at, Stmt.value)
  BY <1>1, StmtHeld, StmtChecked DEF CheckStmt, Return, Doing
<1>4. OneTyped(program) =>
        Conforms(program, Value(Env, Stmt.value), Sig(program, Top.fn).gives)
  BY <1>1, <1>3, TakenHeld DEF Return, Evaluates
<1> QED
  BY <1>1, <1>2, <1>4, BackSound DEF Return, Evaluates

LEMMA FallOffSound ==
  ASSUME Sound, FallOff
  PROVE  Sound'
<1>1. PICK S : Values(S)
  BY DEF Sound
<1>2. Plain \in S
  BY <1>1 DEF Values, Closed
<1> QED
  BY <1>1, <1>2, PlainConforms, BackSound DEF FallOff

\* a failure leaves a function that can fail, and so never main
LEMMA LeaveSound ==
  ASSUME Sound, status = "running", Sig(program, Top.fn).fails,
         NEW S, Values(S), Leave, program' = program,
         signal' \in {<<v>> : v \in S},
         OneTyped(program) => signal' = <<Plain>>
  PROVE  Sound'
<1>1. /\ frames \in Seq(Calls(program, S)) /\ frames # <<>>
      /\ Stacked(program, frames) /\ Fit(program)
      /\ Rest = SubSeq(frames, 1, Len(frames) - 1)
  BY DEF Sound, Values, Rest
<1>2. /\ Rest \in Seq(Calls(program, S)) /\ Stacked(program, Rest)
      /\ Rest = <<>> => Top.fn = Main
      /\ Rest # <<>> => Under(program, Rest[Len(Rest)], Top.fn)
  BY <1>1, Popped DEF Top
<1>3. Rest # <<>>
  BY <1>1, <1>2 DEF Fit, Accepted, CheckTypes
<1>4. frames' = Rest /\ status' = "running"
  BY <1>3 DEF Leave
<1>5. MindsAt(program, Top)'
  BY <1>2, <1>3, <1>4 DEF Under, MindsAt, Top
<1>6. Values(S)'
  BY <1>2, <1>4 DEF Values
<1> QED
  BY <1>1, <1>2, <1>3, <1>4, <1>5, <1>6 DEF Sound

LEMMA FailSound ==
  ASSUME Sound, Fail
  PROVE  Sound'
<1>1. Running /\ ~Ended /\ Stmt.do = "fail" /\ Stmt.value \in Taken(Stmt)
  BY DEF Fail, Doing, Taken
<1>2. PICK S : Values(S) /\ Value(Env, Stmt.value) \in S
  BY <1>1, TakenHeld DEF Fail, Evaluates
<1>3. Sig(program, Top.fn).fails
  BY <1>1, StmtHeld, FailFails
<1>4. signal' \in {<<v>> : v \in S}
  BY <1>2 DEF Fail
<1>5. ASSUME OneTyped(program)
      PROVE  signal' = <<Plain>>
  <2>1. Data \in Infer(program, Top.fn, Top.at, Stmt.value)
    BY <1>1, StmtHeld, StmtChecked DEF CheckStmt
  <2>2. Conforms(program, Value(Env, Stmt.value), Data)
    BY <1>1, <1>5, <2>1, TakenHeld DEF Fail, Evaluates
  <2>3. /\ Value(Env, Stmt.value) # Hidden
        /\ ~IsFnValue(Value(Env, Stmt.value))
    BY <2>2 DEF Conforms, Data, Secret, FnType, Fn
  <2> QED
    BY <1>2, <2>3 DEF Values, Closed, Fail
<1> QED
  BY <1>1, <1>2, <1>3, <1>4, <1>5, LeaveSound DEF Fail, Evaluates, Running

\* a failure rises at a statement that minds it
LEMMA RisingHeld ==
  ASSUME Sound, Rising
  PROVE  /\ Fit(program) /\ Top.fn \in program.funs
         /\ Top.at \in DOMAIN Code(program, Top.fn)
         /\ Stmt = Code(program, Top.fn)[Top.at] /\ Minds(Stmt)
<1>1. PICK S : Values(S)
  BY DEF Sound
<1>2. Top.fn \in program.funs
  BY <1>1, TopHeld DEF Rising
<1> QED
  BY <1>2 DEF Sound, MindsAt, AtStmt, AStmt, Stmt, TopCode

LEMMA RiseSound ==
  ASSUME Sound, Rise
  PROVE  Sound'
<1>1. Rising /\ Stmt.mode # "check"
  BY RisingHeld DEF Rise, Minds
<1>2. Sig(program, Top.fn).fails
  BY <1>1, RisingHeld, TryFails
<1>3. PICK S : Values(S)
  BY DEF Sound
<1>4. signal' \in {<<v>> : v \in S}
  BY <1>1, <1>3 DEF Rise, Values, Rising
<1>5. OneTyped(program) => signal' = <<Plain>>
  BY <1>1, <1>3 DEF Rise, Values, Rising
<1> QED
  BY <1>1, <1>2, <1>3, <1>4, <1>5, LeaveSound DEF Rise, Rising

LEMMA CatchSound ==
  ASSUME Sound, Catch
  PROVE  Sound'
<1>1. Rising /\ Stmt.do = "call" /\ Stmt.mode = "check"
  BY DEF Catch
<1>2. PICK S : Values(S)
  BY DEF Sound
<1>3. Top \in Calls(program, S) /\ signal[1] \in S /\ status = "running"
  BY <1>1, <1>2, TopHeld DEF Rising, Values
<1>4. TopCode = Code(program, Top.fn) /\ Fit(program) /\ Top.fn \in program.funs
  BY <1>1, RisingHeld DEF TopCode
<1>5. Stmt.onFail \in DOMAIN TopCode /\ TopCode[Stmt.onFail].do = "caught"
  BY <1>1, <1>4, RisingHeld DEF Fit, Parsed
<1>6. Stmt.onFail \in Nat
  BY <1>4, <1>5 DEF Fit, Parsed
<1>14. OneTyped(program) =>
         Conforms(program, signal[1], TopCode[Stmt.onFail].type)
  BY <1>1, <1>2, PlainConforms DEF Values, Rising
<1>7. BoundWith(program, Top.fn, TopCode[Stmt.onFail].name, signal[1])
  BY <1>4, <1>5, <1>14, BindsHeld
<1> DEFINE there == [Top EXCEPT !.at = Stmt.onFail]
           frame == Went(there, TopCode[Stmt.onFail].name, signal[1])
<1>8. there \in Calls(program, S) /\ there.fn = Top.fn
  BY <1>3, <1>6 DEF Calls
<1>9. frame \in Calls(program, S) /\ frame.fn = Top.fn
  <2> HIDE DEF there
  <2> QED
    BY <1>3, <1>4, <1>7, <1>8, WentHeld
<1>10. frames' = [frames EXCEPT ![Len(frames)] = frame] /\ signal' = <<>>
       /\ status' = status /\ program' = program
  BY DEF Catch, Top
<1> HIDE DEF frame
<1>11. /\ frames \in Seq(Calls(program, S)) /\ frames # <<>>
       /\ Stacked(program, frames) /\ frame.fn = frames[Len(frames)].fn
  BY <1>2, <1>3, <1>9 DEF Sound, Values, Top
<1>12. /\ frames' \in Seq(Calls(program, S)) /\ frames' # <<>>
       /\ Stacked(program, frames')
  BY <1>9, <1>10, <1>11, Moved
<1>13. Values(S)' /\ ~Rising'
  BY <1>2, <1>10, <1>12 DEF Values, Rising
<1> QED
  BY <1>4, <1>3, <1>10, <1>12, <1>13 DEF Sound

-----------------------------------------------------------------------------
(* The theorems. *)

LEMMA InitSound ==
  ASSUME ApartInit
  PROVE  Sound
<1>1. Fit(program)
  BY ProgramsAssumption DEF ApartInit, Init, Fit
<1> DEFINE S == {Plain, Hidden}
           frame == Entered(Main, Empty, Plain)
<1>2. Closed(program, S)
  BY DEF Closed, IsFnValue, Plain, Hidden
<1>3. Main \in program.funs
  BY <1>1 DEF Fit, Parsed
<1>9. Carried(program, Main, Empty)
  BY EmptyInEnvs DEF Carried
<1>4. frame \in Calls(program, S) /\ frame.fn = Main
  BY <1>1, <1>3, <1>9, EmptyInEnvs, PlainConforms, EnteredHeld
<1>5. frames = <<frame>> /\ signal = <<>> /\ status = "running"
  BY DEF ApartInit, Init
<1> HIDE DEF frame
<1>6. /\ frames \in Seq(Calls(program, S)) /\ frames # <<>>
      /\ Len(frames) = 1 /\ frames[1] = frame
  BY <1>4, <1>5
<1>7. Stacked(program, frames)
  <2>1. CountUpTo(program, frames, 0) = {}
    BY DEF CountUpTo
  <2>2. \A k \in 1..Len(frames) :
          Cardinality(CountUpTo(program, frames, k - 1)) < Depth
    <3>1. Cardinality(CountUpTo(program, frames, 0)) < Depth
      BY <2>1, FS_EmptySet, DepthAssumption
    <3>2. \A k \in 1..Len(frames) : k - 1 = 0
      BY <1>6
    <3> QED
      BY <3>1, <3>2
  <2> QED
    BY <1>4, <1>6, <2>2 DEF Stacked
<1>8. Values(S)
  BY <1>2, <1>5, <1>6 DEF Values
<1> QED
  BY <1>1, <1>5, <1>6, <1>7, <1>8 DEF Sound, Rising

LEMMA NextSound ==
  ASSUME Sound, [Next]_vars
  PROVE  Sound'
<1>1. CASE UNCHANGED vars
  <2>1. PICK S : Values(S)
    BY DEF Sound
  <2>2. Values(S)'
    BY <1>1, <2>1 DEF Values, vars
  <2> QED
    BY <1>1, <2>2 DEF vars, Sound, Rising, Top
<1>2. CASE Unknown \/ CallNothing
  BY <1>2, StoppedSound DEF Unknown, CallNothing, Evaluates
<1>3. CASE Finished
  BY <1>1, <1>3 DEF Finished
<1> QED
  BY <1>1, <1>2, <1>3, LetSound, BranchSound, CallValueSound,
     CallFunctionSound, CallBuiltinSound, ReturnSound, FallOffSound,
     FailSound, RiseSound, CatchSound DEF Next

\* A call that is being made may have the effects of the one at hand, which
\* a promise being evaluated may not have at all.
LEMMA DoneAllowed ==
  ASSUME Sound, CallBuiltin, NEW k \in DOMAIN frames
  PROVE  BuiltinSig[Stmt.callee].effects \subseteq May(program, frames[k])
<1>1. PICK S : Values(S)
  BY DEF Sound
<1>2. /\ frames \in Seq(Calls(program, S)) /\ frames # <<>>
      /\ Stacked(program, frames) /\ Top = frames[Len(frames)]
  BY <1>1, BuiltinChecked DEF Values, Sound, Running, Top
<1>3. k \in 1..Len(frames)
  BY <1>2, LenProperties
<1> QED
  BY <1>2, <1>3, BuiltinChecked, MayUnder

\* only a built-in does anything, and the calls stay those of the same functions
LEMMA OnlyBuiltins ==
  ASSUME Next
  PROVE  program' = program /\ (did' = NoDeed \/ CallBuiltin \/ UNCHANGED vars)
<1>1. CASE Unknown \/ Let \/ Branch \/ CallValue \/ CallFunction \/ CallNothing
  BY <1>1 DEF Unknown, Let, Branch, CallValue, CallFunction, CallNothing,
              Evaluates
<1>2. CASE Return \/ FallOff \/ Fail \/ Rise \/ Catch
  BY <1>2 DEF Return, FallOff, Fail, Rise, Catch, Evaluates
<1>3. CASE CallBuiltin
  BY <1>3 DEF CallBuiltin
<1>4. CASE Finished
  BY <1>4 DEF Finished, vars
<1> QED
  BY <1>1, <1>2, <1>3, <1>4 DEF Next

LEMMA SameFunctions ==
  ASSUME Sound, CallBuiltin
  PROVE  /\ DOMAIN frames' = DOMAIN frames
         /\ \A k \in DOMAIN frames : frames'[k].fn = frames[k].fn
<1>1. CASE frames' = frames
  BY <1>1
<1>2. ASSUME NEW v \in {Plain, Hidden},
             frames' = [frames EXCEPT ![Len(frames)] = Took(@, Stmt, v)]
      PROVE  /\ DOMAIN frames' = DOMAIN frames
             /\ \A k \in DOMAIN frames : frames'[k].fn = frames[k].fn
  <2> DEFINE frame == Took(Top, Stmt, v)
  <2>1. PICK S : Values(S)
    BY DEF Sound
  <2>2. v \in S /\ Top \in Calls(program, S)
    BY <2>1, BuiltinChecked, TopHeld DEF Values, Closed, Running
  <2>3. frame.fn = Top.fn
    BY <2>2 DEF Took, Went, Calls
  <2>4. frames' = [frames EXCEPT ![Len(frames)] = frame]
    BY <1>2 DEF Top
  <2> HIDE DEF frame
  <2> QED
    BY <2>3, <2>4 DEF Top
<1> QED
  BY <1>1, <1>2 DEF CallBuiltin, Stopped

\* what a call of a built-in leaves in did
LEMMA DeedDone ==
  ASSUME Sound, CallBuiltin, did' # NoDeed
  PROVE  /\ did'.name = Stmt.callee /\ did'.arg = Value(Env, Stmt.arg)
         /\ did'.promised <=> \E k \in DOMAIN frames : Promises(k)
<1> DEFINE deed == [name |-> Stmt.callee, arg |-> Value(Env, Stmt.arg),
                    promised |-> \E k \in DOMAIN frames : Promises(k)]
<1>1. did' = deed
  BY DEF CallBuiltin
<1>2. deed.name = Stmt.callee /\ deed.arg = Value(Env, Stmt.arg)
  OBVIOUS
<1>3. deed.promised = (\E k \in DOMAIN frames : Promises(k))
  OBVIOUS
<1> QED
  BY <1>1, <1>2, <1>3

\* The invariant: the program is one the checks accept with its names apart;
\* each call may do no more than the statement below it, and a call that can
\* fail has a statement below it that minds; every function value a call holds
\* is pure and cannot fail, and so are those it carries in.
THEOREM SoundAlways == ApartSpec => []Sound
<1>1. ApartInit => Sound
  BY InitSound
<1>2. Sound /\ [Next]_vars => Sound'
  BY NextSound
<1> QED
  BY <1>1, <1>2, PTL DEF ApartSpec

DidKnown == did.name \in Builtins \union {NoName}

\* Never more calls are being made than the depth allows, of the program's
\* functions, and each has bound only names its function binds or carries in.
THEOREM TypeCorrect == ApartSpec => []TypeOK
<1>1. ASSUME Sound
      PROVE  /\ status \in {"running", "over", "failed", "stopped"}
             /\ CallsMade <= Depth
             /\ status = "running" => frames # <<>>
             /\ \A k \in DOMAIN frames :
                  /\ frames[k].fn \in program.funs
                  /\ DOMAIN frames[k].env \subseteq Held(program, frames[k].fn)
             /\ Len(signal) <= 1
  <2>1. PICK S : Values(S)
    BY <1>1 DEF Sound
  <2>2. frames \in Seq(Calls(program, S))
    BY <2>1 DEF Values
  <2>3. CallsMade <= Depth
    <3>1. CallsMade = Cardinality(CountUpTo(program, frames, Len(frames)))
      BY <2>2, CallsCounted
    <3>2. CASE frames = <<>>
      <4>1. Len(frames) = 0
        BY <3>2
      <4>2. CountUpTo(program, frames, Len(frames)) = {}
        BY <4>1 DEF CountUpTo
      <4> QED
        BY <3>1, <4>2, FS_EmptySet, DepthAssumption
    <3>3. CASE frames # <<>>
      <4>1. Len(frames) \in Nat \ {0} /\ Len(frames) \in 1..Len(frames)
        BY <2>2, <3>3, EmptySeq
      <4> QED
        BY <1>1, <3>1, <4>1, CountNext DEF Sound, Stacked
    <3> QED
      BY <3>2, <3>3
  <2>4. ASSUME NEW k \in DOMAIN frames
        PROVE  /\ frames[k].fn \in program.funs
               /\ DOMAIN frames[k].env \subseteq Held(program, frames[k].fn)
    BY <2>2, LenProperties, ElementOfSeq DEF Calls, Bound
  <2>5. Len(signal) <= 1
    <3>1. CASE signal = <<>>
      BY <3>1
    <3>2. ASSUME NEW v, signal = <<v>>
          PROVE  Len(signal) <= 1
      BY <3>2
    <3> QED
      BY <2>1, <3>1, <3>2 DEF Values
  <2> QED
    BY <1>1, <2>3, <2>4, <2>5 DEF Sound
<1>2. ApartInit => DidKnown
  BY DEF ApartInit, Init, NoDeed, DidKnown
<1>3. ASSUME Sound, DidKnown, [Next]_vars
      PROVE  DidKnown'
  <2>1. CASE did' = NoDeed
    BY <2>1 DEF NoDeed, DidKnown
  <2>2. CASE CallBuiltin /\ did' # NoDeed
    BY <1>3, <2>2, DeedDone DEF CallBuiltin, Reached, DidKnown
  <2> QED
    BY <1>3, <2>1, <2>2, OnlyBuiltins DEF vars, DidKnown
<1>4. Sound /\ DidKnown => TypeOK
  BY <1>1 DEF TypeOK, DidKnown
<1> QED
  BY <1>2, <1>3, <1>4, SoundAlways, PTL DEF ApartSpec

\* A built-in that runs has only effects that every call on the stack declares
\* (SPEC.md 7, "however deep"), in any program the checks accept in which no
\* local that holds a function has the name of anything that is called.
THEOREM EffectsAreDeclared == ApartSpec => []EffectsDeclared
<1>1. ApartInit => EffectsDeclared
  BY DEF ApartInit, Init, EffectsDeclared, NoDeed
<1>2. ASSUME Sound, EffectsDeclared, [Next]_vars
      PROVE  EffectsDeclared'
  <2>1. CASE UNCHANGED vars
    BY <1>2, <2>1 DEF vars, EffectsDeclared
  <2>2. CASE did' = NoDeed
    BY <2>2 DEF EffectsDeclared, NoDeed
  <2>3. CASE CallBuiltin /\ did' # NoDeed
    <3>1. program' = program /\ did'.name = Stmt.callee
      BY <1>2, <2>3, DeedDone DEF CallBuiltin
    <3>2. ASSUME NEW k \in DOMAIN frames'
          PROVE  BuiltinSig[did'.name].effects
                   \subseteq Sig(program', frames'[k].fn).effects
      <4>1. k \in DOMAIN frames /\ frames'[k].fn = frames[k].fn
        BY <1>2, <2>3, <3>2, SameFunctions
      <4>2. BuiltinSig[Stmt.callee].effects \subseteq May(program, frames[k])
        BY <1>2, <2>3, <4>1, DoneAllowed
      <4> QED
        BY <3>1, <4>1, <4>2, MayDeclared
    <3> QED
      BY <3>2 DEF EffectsDeclared
  <2> QED
    BY <1>2, <2>1, <2>2, <2>3, OnlyBuiltins
<1> QED
  BY <1>1, <1>2, SoundAlways, PTL DEF ApartSpec

\* No built-in that has an effect runs while a promise is evaluated (E310,
\* "promises must be pure"), whatever the promise calls.
THEOREM PromisesArePure == ApartSpec => []PromisesPure
<1>1. ApartInit => PromisesPure
  BY DEF ApartInit, Init, PromisesPure, Effectful, NoDeed
<1>2. ASSUME Sound, PromisesPure, [Next]_vars
      PROVE  PromisesPure'
  <2>1. CASE UNCHANGED vars
    BY <1>2, <2>1 DEF vars, PromisesPure, Effectful
  <2>2. CASE did' = NoDeed
    BY <2>2 DEF PromisesPure, Effectful, NoDeed
  <2>3. CASE CallBuiltin /\ did' # NoDeed
    <3>1. SUFFICES ASSUME did'.promised
                   PROVE  BuiltinSig[did'.name].effects = {}
      BY DEF PromisesPure, Effectful
    <3>2. PICK k \in DOMAIN frames : Promises(k)
      BY <1>2, <2>3, <3>1, DeedDone
    <3>3. May(program, frames[k]) = {}
      BY <3>2 DEF Promises, AtIn, May, MayOf, AStmt, AtStmt
    <3> QED
      BY <1>2, <2>3, <3>3, DeedDone, DoneAllowed
  <2> QED
    BY <1>2, <2>1, <2>2, <2>3, OnlyBuiltins
<1> QED
  BY <1>1, <1>2, SoundAlways, PTL DEF ApartSpec

\* A failure rises only through calls that try or check, and no run of an
\* accepted program ends by one ("can fail - that cannot be ignored").
THEOREM FailuresAreCaught == ApartSpec => []FailuresCaught
<1>1. Sound => FailuresCaught
  BY RisingHeld DEF Sound, FailuresCaught, Minds
<1> QED
  BY <1>1, SoundAlways, PTL

LEMMA SettledApart == SettledSpec => ApartSpec /\ []OneTyped(program)
<1>1. SettledInit => ApartInit /\ OneTyped(program)
  BY DEF SettledInit, ApartInit, Settled, OneTyped
<1>2. OneTyped(program) /\ [Next]_vars => OneTyped(program)'
  BY OnlyBuiltins DEF vars
<1> QED
  BY <1>1, <1>2, PTL DEF SettledSpec, ApartSpec

\* No built-in that has an effect is given a secret but the one that takes it,
\* and no failure has one as its reason (SPEC.md 3.1), in any program the
\* checks accept whose names are apart and have one type in a function.
THEOREM SecretsAreKept == SettledSpec => []SecretsKept
<1>1. SettledInit => SecretsKept
  <2>1. SettledInit => did = NoDeed /\ signal = <<>>
    BY DEF SettledInit, Init
  <2>2. \A k \in DOMAIN <<>> : FALSE
    OBVIOUS
  <2> QED
    BY <2>1, <2>2 DEF SecretsKept, Effectful, NoDeed
<1>2. ASSUME Sound, Sound', OneTyped(program), OneTyped(program)', SecretsKept,
             [Next]_vars
      PROVE  SecretsKept'
  <2>1. \A k \in DOMAIN signal' : signal'[k] # Hidden
    <3>1. signal' = <<>> \/ signal' = <<Plain>>
      BY <1>2 DEF Sound, Values
    <3>2. CASE signal' = <<>>
      BY <3>2
    <3>3. CASE signal' = <<Plain>>
      BY <3>3 DEF Plain, Hidden
    <3> QED
      BY <3>1, <3>2, <3>3
  <2>2. CASE UNCHANGED vars
    BY <1>2, <2>2 DEF vars, SecretsKept, Effectful
  <2>3. CASE did' = NoDeed
    BY <2>1, <2>3 DEF SecretsKept, Effectful, NoDeed
  <2>4. CASE CallBuiltin /\ did' # NoDeed
    BY <1>2, <2>1, <2>4, DeedDone, BuiltinSecrets DEF SecretsKept, Effectful
  <2> QED
    BY <1>2, <2>2, <2>3, <2>4, OnlyBuiltins
<1> QED
  BY <1>1, <1>2, SoundAlways, SettledApart, PTL DEF SettledSpec

\* All of it of the programs the run interp_sound checks on small instances.
COROLLARY SettledRuns ==
  SettledSpec => [](/\ TypeOK /\ EffectsDeclared /\ PromisesPure
                    /\ FailuresCaught /\ SecretsKept)
BY SettledApart, TypeCorrect, EffectsAreDeclared, PromisesArePure,
   FailuresAreCaught, SecretsAreKept, PTL
=============================================================================
