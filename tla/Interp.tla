------------------------------- MODULE Interp -------------------------------
(***************************************************************************)
(* The interpreter (sabline/runtime.py, build_runtime): a run of a program *)
(* the checks accepted.  call_function's Python frames are a stack, each   *)
(* with the one dictionary that holds the function's names.  A branch goes *)
(* either way; what is computed is left out, but which values are secret,  *)
(* which are functions, and what those carried in.                         *)
(***************************************************************************)
EXTENDS Checker, FiniteSets

CONSTANTS
  Programs,     \* the programs to run
  Depth         \* DEPTH_LIMIT, how deep calls go

ASSUME ProgramsAssumption == \A p \in Programs : Parsed(p)
ASSUME DepthAssumption == Depth \in Nat \ {0}

VARIABLES
  program,      \* the program
  frames,       \* the calls being made, main's first
  signal,       \* the reason of a FailSignal that rises, or nothing
  status,       \* "running", "over", "failed" (by a failure nobody caught)
                \*   or "stopped" (by an error, which nothing catches)
  did           \* the built-in that just ran, and what it was given (history)

vars == <<program, frames, signal, status, did>>

-----------------------------------------------------------------------------
(* Values: a value that is not secret, or nothing; a secret one; a function *)
(* with what it carries in.                                                 *)

Plain  == <<"plain">>
Hidden == <<"hidden">>
Empty  == [n \in {} |-> Plain]
FnValue(g, caught) == <<"fn", g, caught>>
IsFnValue(v) == v[1] = "fn"

NoDeed == [name |-> NoName, arg |-> Plain, promised |-> FALSE]

Top      == frames[Len(frames)]
Rest     == SubSeq(frames, 1, Len(frames) - 1)
TopCode  == Code(program, Top.fn)
Ended    == Top.at \notin DOMAIN TopCode
Stmt     == TopCode[Top.at]
Running  == status = "running" /\ signal = <<>>
Doing(d) == Running /\ ~Ended /\ Stmt.do = d

Env      == Top.env

Readable(env, e) == \A n \in Reads(e) : n \in DOMAIN env \union program.funs

\* eval_, of what is not a call
Value(env, e) ==
  CASE e[1] = "data" -> Plain
    [] e[1] = "var"  -> IF e[2] \in DOMAIN env THEN env[e[2]]
                                               ELSE FnValue(e[2], Empty)
    [] OTHER -> FnValue(e[2], [n \in Free(program, e[2]) \intersect DOMAIN env
                                 |-> env[n]])

\* the frame goes on, with a name bound
Went(frame, n, v) ==
  [frame EXCEPT !.at = @ + 1,
                !.env = [m \in DOMAIN frame.env \union ({n} \ {NoName}) |->
                           IF m = n THEN v ELSE frame.env[m]]]

\* the frame goes on after a call that gave v; what a promise gives is only
\* looked at
Took(frame, call, v) ==
  IF call.do = "promise" THEN [frame EXCEPT !.at = @ + 1]
                         ELSE Went(frame, call.name, v)

\* a call's names: its argument, and what a function value carried in
Entered(g, caught, v) ==
  LET own == {Sig(program, g).param} \ {NoName}
      env == [n \in own \union DOMAIN caught |->
                IF n \in own THEN v ELSE caught[n]]
  IN  [fn |-> g, at |-> 1, env |-> env]

Stopped == status' = "stopped" /\ UNCHANGED <<frames, signal>>

Init ==
  /\ program \in {p \in Programs : Accepted(p)}
  /\ frames = <<Entered(Main, Empty, Plain)>>
  /\ signal = <<>> /\ status = "running" /\ did = NoDeed

-----------------------------------------------------------------------------
(* What the statement at hand does. *)

\* what a statement takes is a name nothing binds: E402
Unknown ==
  /\ Running /\ ~Ended
  /\ \E e \in Taken(Stmt) : ~Readable(Env, e)
  /\ Stopped /\ did' = NoDeed
  /\ UNCHANGED program

Evaluates(e) == Readable(Env, e) /\ did' = NoDeed /\ UNCHANGED program

Let ==
  /\ Doing("let") \/ Doing("assign")
  /\ Evaluates(Stmt.value)
  /\ frames' = [frames EXCEPT ![Len(frames)] =
                  Went(@, Stmt.name, Value(Env, Stmt.value))]
  /\ UNCHANGED <<signal, status>>

Branch ==
  /\ Doing("jump")
  /\ \E k \in Stmt.to : frames' = [frames EXCEPT ![Len(frames)].at = k]
  /\ did' = NoDeed
  /\ UNCHANGED <<program, signal, status>>

\* the statement a call on the stack is at; what it requires is evaluated
\* before the call counts
AtIn(k)      == Code(program, frames[k].fn)[frames[k].at]
Promises(k)  == /\ frames[k].at \in DOMAIN Code(program, frames[k].fn)
                /\ AtIn(k).do = "promise"
Requires(k)  == Promises(k) /\ AtIn(k).mode = "requires"
CallsMade    == Cardinality({k \in DOMAIN frames : ~Requires(k)})

\* call_function, E609 past the limit
Enter(g, caught) ==
  IF CallsMade < Depth
    THEN /\ frames' = Append(frames, Entered(g, caught, Value(Env, Stmt.arg)))
         /\ UNCHANGED <<signal, status>>
    ELSE Stopped

Calling == Doing("call") \/ Doing("promise")

ByValue == Stmt.callee \in DOMAIN Env /\ IsFnValue(Env[Stmt.callee])

\* a local that holds a function value is called before anything else
CallValue ==
  /\ Calling /\ ByValue
  /\ Evaluates(Stmt.arg)
  /\ Enter(Env[Stmt.callee][2], Env[Stmt.callee][3])

CallFunction ==
  /\ Calling /\ ~ByValue
  /\ Stmt.callee \in program.funs /\ ~Reached(program, Stmt.callee)
  /\ Evaluates(Stmt.arg)
  /\ Enter(Stmt.callee, Empty)

\* no function and no built-in
CallNothing ==
  /\ Calling /\ ~ByValue /\ ~Callable(program, Stmt.callee)
  /\ Evaluates(Stmt.arg)
  /\ Stopped

\* the budget may refuse it, it may fail with a reason made of what it was
\* given, or it gives its result
CallBuiltin ==
  /\ Calling /\ ~ByValue /\ Reached(program, Stmt.callee)
  /\ Readable(Env, Stmt.arg)
  /\ LET b == BuiltinSig[Stmt.callee]
         v == Value(Env, Stmt.arg)
         secret == (v = Hidden /\ b.param # Secret) \/ b.gives = Secret
         deed == [name |-> Stmt.callee, arg |-> v, 
                  promised |-> \E k \in DOMAIN frames : Promises(k)]
     IN
     \/ Stopped /\ did' = NoDeed
     \/ /\ did' = deed
        /\ b.fails
        /\ signal' = <<IF v = Hidden THEN Hidden ELSE Plain>>
        /\ UNCHANGED <<frames, status>>
     \/ /\ did' = deed
        /\ frames' = [frames EXCEPT ![Len(frames)] =
             Took(@, Stmt, IF secret THEN Hidden ELSE Plain)]
        /\ status' \in {"running"} \union
                      (IF Stmt.do = "promise" THEN {"stopped"} ELSE {})
        /\ UNCHANGED signal
  /\ UNCHANGED program

\* the caller goes on with what its call gave; a promise may prove broken
Back(v) ==
  LET caller == Rest[Len(Rest)]
      call   == Code(program, caller.fn)[caller.at]
  IN
  IF Rest = <<>>
    THEN frames' = <<>> /\ status' = "over"
    ELSE /\ frames' = [Rest EXCEPT ![Len(Rest)] = Took(@, call, v)]
         /\ status' \in {"running"} \union
                       (IF call.do = "promise" THEN {"stopped"} ELSE {})

Return ==
  /\ Doing("return")
  /\ Evaluates(Stmt.value)
  /\ Back(Value(Env, Stmt.value))
  /\ UNCHANGED signal

\* a body that ends without a return gives nothing
FallOff ==
  /\ Running /\ Ended
  /\ Back(Plain)
  /\ did' = NoDeed
  /\ UNCHANGED <<program, signal>>

\* a failure leaves the function it rises from
Leave == /\ frames' = Rest
         /\ status' = IF Rest = <<>> THEN "failed" ELSE status

Fail ==
  /\ Doing("fail")
  /\ Evaluates(Stmt.value)
  /\ signal' = <<Value(Env, Stmt.value)>>
  /\ Leave

Rising == status = "running" /\ signal # <<>>

Rise ==
  /\ Rising /\ (Stmt.do = "promise" \/ Stmt.mode # "check")
  /\ Leave
  /\ did' = NoDeed
  /\ UNCHANGED <<program, signal>>

\* a check binds the reason, and goes on with what it does then
Catch ==
  /\ Rising /\ Stmt.do = "call" /\ Stmt.mode = "check"
  /\ frames' = [frames EXCEPT ![Len(frames)] =
        Went([@ EXCEPT !.at = Stmt.onFail], TopCode[Stmt.onFail].name,
             signal[1])]
  /\ signal' = <<>> /\ did' = NoDeed
  /\ UNCHANGED <<program, status>>

Finished == status # "running" /\ UNCHANGED vars

Next == \/ Unknown \/ Let \/ Branch \/ CallValue \/ CallFunction \/ CallNothing
        \/ CallBuiltin \/ Return \/ FallOff \/ Fail \/ Rise \/ Catch \/ Finished

Spec == Init /\ [][Next]_vars

\* the programs the checks are right about, whatever they do
SettledInit == Init /\ Settled(program)
SettledSpec == SettledInit /\ [][Next]_vars
ApartInit   == Init /\ NamesApart(program)
ApartSpec   == ApartInit /\ [][Next]_vars

-----------------------------------------------------------------------------
Effectful(n) == n # NoName /\ BuiltinSig[n].effects # {}

\* No more calls are being made than the limit allows, the calls are of the
\* program's functions, and each has bound only names its function binds.
TypeOK ==
  /\ status \in {"running", "over", "failed", "stopped"}
  /\ CallsMade <= Depth
  /\ status = "running" => frames # <<>>
  /\ \A k \in DOMAIN frames :
       /\ frames[k].fn \in program.funs
       /\ DOMAIN frames[k].env \subseteq Held(program, frames[k].fn)
  /\ Len(signal) <= 1
  /\ did.name \in Builtins \union {NoName}

\* SPEC.md 7: "a function may only perform effects it declares", and so may
\* anything it calls, "however deep".
EffectsDeclared ==
  did.name # NoName =>
    \A k \in DOMAIN frames :
      BuiltinSig[did.name].effects \subseteq Sig(program, frames[k].fn).effects

\* E310, "promises must be pure": nothing is done while one is evaluated.
PromisesPure == Effectful(did.name) => ~did.promised

\* "can fail - that cannot be ignored": a failure rises only through calls
\* that try or check, and never out of main.
FailuresCaught ==
  /\ status # "failed"
  /\ Rising => Stmt.do = "call" /\ Stmt.mode # "plain"

\* SPEC.md 3.1: no built-in that has an effect is given a secret, and no
\* failure gives one as its reason.
SecretsKept ==
  /\ Effectful(did.name) /\ BuiltinSig[did.name].param # Secret =>
       did.arg # Hidden
  /\ \A k \in DOMAIN signal : signal[k] # Hidden
=============================================================================
