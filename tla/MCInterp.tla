------------------------------ MODULE MCInterp ------------------------------
(* Small programs: main, a function f with two statements of every kind in  *)
(* every arrangement, and the functions f may call or hold.                 *)
EXTENDS Interp

Word(effects, fails, param, gives) ==
  [effects |-> effects, fails |-> fails, param |-> param, gives |-> gives]

MCBuiltins == [
  print      |-> Word({"io"}, FALSE, Any, Unit),
  env        |-> Word({"env"}, FALSE, Data, Secret),
  to_int     |-> Word({}, TRUE, Data, Data),
  declassify |-> Word({"declassify"}, FALSE, Secret, Data),
  sha256     |-> Word({}, FALSE, Data, Data)]
MCNew == {"declassify", "sha256"}

MCNames == DOMAIN MCBuiltins \union
  {"main", "f", "shout", "id", "risky", "make", "fn1", "v", "w", "g"}

It(n)  == <<"var", n>>
It0    == <<"data">>
Plainly == Fn(Data, Data)

Call(mode, callee, arg, name, type) ==
  [do |-> "call", callee |-> callee, arg |-> arg, mode |-> mode,
   name |-> name, type |-> type, ann |-> FALSE, onFail |-> 0]
Lets(name, value, type) ==
  [do |-> "let", name |-> name, value |-> value, type |-> type, ann |-> FALSE]
Promise(mode, callee, arg) ==
  [do |-> "promise", callee |-> callee, arg |-> arg, mode |-> mode]
Returns(e)  == [do |-> "return", value |-> e]
Jump(to)    == [do |-> "jump", to |-> to]
Caught(n)   == [do |-> "caught", name |-> n, type |-> Data]

\* check callee(arg) { ok name { } fail w { print(w) } }, at the i-th place
Checks(callee, arg, name, type, i) ==
  << [Call("check", callee, arg, name, type) EXCEPT !.onFail = i + 2],
     Jump({i + 3}), Caught("w") >>

Signature(effects, fails, param, type, gives) ==
  [effects |-> effects, fails |-> fails, param |-> param, type |-> type,
   gives |-> gives, captures |-> [n \in {} |-> Data]]

\* what f does in one place
Plain1 ==
  {Lets(n, e, Data) : n \in {"v", "shout", "print"}, e \in {It0, It("v")}}
  \union {Lets(n, It(g), Plainly) : n \in {"print", "shout", "risky", "g"},
                                    g \in {"id", "risky"}}
  \union {Lets("g", <<"closure", "fn1">>, Plainly),
          Lets("w", It("v"), Secret), Lets("v", It("w"), Data),
          [do |-> "assign", name |-> "v", value |-> It0, type |-> Data],
          [do |-> "fail", value |-> It("v")],
          Returns(It("v"))}
  \union {Call("plain", "make", It0, "g", Plainly),
          [Call("plain", "make", It0, "shout", Plainly) EXCEPT !.ann = TRUE],
          Call("plain", "env", It0, "v", Secret),
          Call("plain", "declassify", It("v"), "v", Data),
          Call("plain", "print", It("v"), NoName, Unit),
          Call("plain", "print", It("v"), NoName, Secret),
          Call("plain", "print", It0, "w", Data),
          Call("plain", "f", It("v"), NoName, Data),
          Call("plain", "sha256", It("v"), "w", Secret),
          Call("try", "risky", It("v"), "w", Data),
          Call("try", "to_int", It("v"), "w", Data)}
  \union {Call("plain", n, It("v"), "w", Data) :
            n \in {"shout", "risky", "g", "sha256"}}
  \union {Promise("requires", n, It("v")) : n \in {"env", "id", "sha256"}}
  \union {Promise("invariant", "shout", It("v"))}

Units(i) == {<<s>> : s \in Plain1}
            \union {Checks("to_int", It("v"), "w", Data, i),
                    Checks("risky", It("v"), "w", Data, i)}

\* two of them one after the other, the first under an if, both in a loop
Bodies ==
  UNION {{<<a, b>> : b \in Units(Len(a) + 1)} : a \in Units(1)}
Branches ==
  UNION {{<<<<Jump({2, Len(a) + 2})>> \o a, b>> : b \in Units(Len(a) + 2)} :
            a \in Units(2)}
Loops ==
  UNION {{<<<<Jump({2, Len(a) + Len(b) + 3})>> \o a, b \o <<Jump({1})>>>> :
            b \in Units(Len(a) + 2)} : a \in Units(2)}

\* the functions of the program named like a built-in, what f declares and
\* whether it fails, and what it takes
Signatures ==
  {<<{}, {}, FALSE, Data>>, <<{}, {}, TRUE, Data>>,
   <<{}, {"io"}, FALSE, Data>>, <<{}, {"io"}, FALSE, Secret>>,
   <<{}, {"io", "env", "declassify"}, TRUE, Data>>,
   <<{}, {"io", "env", "declassify"}, FALSE, Secret>>,
   <<{"sha256"}, {}, FALSE, Data>>, <<{"sha256"}, {"io"}, FALSE, Data>>}

MCPrograms ==
  {[funs |-> {"main", "f", "shout", "id", "risky", "make", "fn1"} \union own,
    sig  |->
      [main   |-> Signature({"io", "env", "declassify"}, FALSE, NoName, Unit,
                            Unit),
       f      |-> Signature(effects, fails, "v", takes, Data),
       shout  |-> Signature({"io"}, FALSE, "v", Data, Data),
       id     |-> Signature({}, FALSE, "v", Data, Data),
       risky  |-> Signature({}, TRUE, "v", Data, Data),
       make   |-> Signature({}, FALSE, "v", Data, Plainly),
       sha256 |-> Signature({"io"}, FALSE, "v", Data, Data),
       fn1    |-> [Signature({}, FALSE, "w", Data, Data)
                     EXCEPT !.captures = [n \in {"v"} |-> Data]]],
    code |->
      [main   |-> <<IF takes = Secret
                       THEN Call("plain", "env", It0, "g", Secret)
                       ELSE Lets("g", It0, Data)>>
                  \o IF fails THEN Checks("f", It("g"), "v", Data, 2)
                     ELSE <<Call("plain", "f", It("g"), "v", Data)>>,
       f      |-> body[1] \o body[2],
       shout  |-> <<Call("plain", "print", It("v"), NoName, Unit),
                    Returns(It("v"))>>,
       id     |-> <<Returns(It("v"))>>,
       risky  |-> <<Jump({2, 3}), [do |-> "fail", value |-> It("v")],
                    Returns(It("v"))>>,
       make   |-> <<Jump({2, 3}), Returns(It("id"))>>,
       sha256 |-> <<Call("plain", "print", It("v"), NoName, Unit)>>,
       fn1    |-> <<Returns(It("v"))>>]] :
     <<own, effects, fails, takes>> \in Signatures,
     body \in Bodies \union Branches \union Loops}
=============================================================================
