------------------------------ MODULE MCLoops ------------------------------
(* Loops on families of small programs. *)
EXTENDS Parse

MCFunctions == {"main", "f", "g"}
MCNames == MCFunctions \union {"i", "k", "n", "r", "t", "x", "xs", "for#"}

Num(k) == <<"num", k>>
Var(x) == <<"var", x>>
Up(v)   == Assign(v, <<"+", Var(v), Num(1)>>)
Down(v) == Assign(v, <<"-", Var(v), Num(1)>>)
Main(body) == Parsed([main |-> body, f |-> <<>>, g |-> <<>>])
UpTo(k, Each) == UNION {[1..m -> Each] : m \in 1..k}

MCInputs == {[n |-> k, xs |-> 2] : k \in 0..2}

(* A counter, a limit, and what a body may do to both *)
Limits == {Num(2), Var("n"), <<"len", "xs">>}
Upward == {<<"cmp", op, Var("i"), l>> : op \in {"<", "<="}, l \in Limits}
            \union {<<"cmp", ">", Var("n"), Var("i")>>}
Downward == {<<"cmp", op, Var("i"), l>> : op \in {">", ">="}, l \in {Num(0), Var("n")}}

Moving(Move(_)) ==
  {Move("i"), Op, Up("n"), Return,
   If(<< <<"any">> >>, <<Move("i")>>, <<>>),
   If(<< <<"asks">> >>, <<Op, Move("i")>>, <<Return>>),
   Check("t", <<Op>>, <<Move("i")>>),
   Assign("xs", <<"push", "xs">>),
   While(<< <<"any">> >>, <<Op>>)}

Counted(from, conds, Move(_)) ==
  {Main(<< Let("i", Num(from)), While(more \o <<c>>, b), Op >>) :
     c \in conds, more \in {<<>>, << <<"asks">> >>}, b \in UpTo(2, Moving(Move))}

(* Lines that are read, and a flag *)
Ending == {<< <<"some", "r">> >>, << <<"flag", "f">> >>, << <<"asks">>, <<"some", "r">> >>,
           << <<"empty", "r">> >>, << <<"any">> >>}
Clear == Assign("f", <<"false">>)
ReadTo(x) == Assign(x, <<"read">>)
Reading ==
  {ReadTo("r"), Let("r", <<"read">>), Clear, Op,
   If(<< <<"empty", "r">> >>, <<Clear>>, <<>>), If(<< <<"some", "r">> >>, <<Op>>, <<Clear>>),
   If(<< <<"some", "r">> >>, <<Clear>>, <<Op>>), Assign("f", <<"true">>)}

Read ==
  {Main(<< Let("r", <<"read">>), Let("f", <<"true">>), While(c, b) >>) :
     c \in Ending, b \in UpTo(2, Reading) \union
       {<<a>> \o b : a \in {ReadTo("r"), Op}, b \in [1..2 -> Reading]}}

(* Functions, and loops over lists *)
Below(limit, body) == While(<< <<"cmp", "<", Var("i"), limit>> >>, body)
Called ==
  LET Bodies == {<<Op>>, <<Call("g")>>, <<Call("f")>>, ForTo("i", Num(0), Num(2), <<Call("g")>>),
                 ForIn("x", "xs", <<Op, Call("g")>>),
                 <<Let("xs", <<"list", 3>>)>> \o ForIn("x", "xs", <<Op>>),
                 <<Let("xs", <<"list", 1>>)>>
                   \o ForIn("x", "xs", <<Assign("xs", <<"push", "xs">>), Op>>),
                 <<If(<< <<"any">> >>, <<Call("g"), Op>>, <<Op>>), Op>>,
                 ForTo("i", Num(0), Var("n"), <<Op, Up("i")>>)}
  IN  {Parsed([main |-> m, f |-> f, g |-> g]) :
         m \in {<<Call("f"), Op>>, <<Call("f"), Call("g")>>,
                ForTo("k", Num(1), Num(2), <<Call("f")>>)},
         f \in Bodies, g \in {<<Op>>, <<Op, Op>>, <<Call("f")>>, <<Call("g")>>}}

MCPrograms == Counted(0, Upward, Up) \union Counted(2, Downward, Down) \union Read \union Called

(* A loop that turns no times, around one without a bound, in an arm *)
MCHidden ==
  {Main(<< Let("i", Num(0)),
           If(<< <<"any">> >>, then, <<Below(Num(0), <<While(<< <<"any">> >>, <<Op>>), Up("i")>>), Op>>) >>) :
     then \in {<<>>, <<Op>>}}
=============================================================================
