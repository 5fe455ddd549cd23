-------------------------------- MODULE Parse --------------------------------
(***************************************************************************)
(* The programs of Loops, from how they are written: a block as a sequence *)
(* of statements, each with the blocks in it.  The parser writes a `for`   *)
(* as a `let` and a `while` (sabline/parser.py), so that nothing after it  *)
(* reads one.  Numbered gives a tree the numbers that Loops has for it.    *)
(***************************************************************************)
EXTENDS Loops

\* a statement with this in it, of what a statement may have
Stmt(is, part) ==
  part @@ [is |-> is, x |-> Start, e |-> <<"get">>, conds |-> <<>>, then |-> <<>>, else |-> <<>>]

Let(x, e)    == Stmt("let", [x |-> x, e |-> e])
Assign(x, e) == Stmt("set", [x |-> x, e |-> e])
Op           == Stmt("op", <<>>)
Call(f)      == Stmt("call", [x |-> f])
Return       == Stmt("leave", <<>>)
If(conds, then, else) == Stmt("if", [conds |-> conds, then |-> then, else |-> else])
Check(x, then, else)  == Stmt("check", [x |-> x, then |-> then, else |-> else])
While(conds, body)    == Stmt("while", [conds |-> conds, then |-> body])

\* parse_statement: `for i in from to to`
ForTo(i, from, to, body) ==
  << Let(i, from),
     While(<< <<"cmp", "<", <<"var", i>>, to>> >>,
           Append(body, Assign(i, <<"+", <<"var", i>>, <<"num", 1>>>>))) >>

\* and over a list; nobody can write the name of the index
ForIn(item, xs, body) ==
  ForTo("for#", <<"num", 0>>, <<"len", xs>>, <<Let(item, <<"get">>)>> \o body)

\* a block after a text, and the number of its first statement
RECURSIVE Numbered(_, _)
Numbered(block, text) ==
  IF block = <<>> THEN [text |-> text, first |-> 0]
  ELSE LET s    == Head(block)
           rest == Numbered(Tail(block), text)
           then == Numbered(s.then, rest.text)
           else == Numbered(s.else, then.text)
       IN  [text  |-> Append(else.text, [is |-> s.is, x |-> s.x, e |-> s.e, conds |-> s.conds,
                                         then |-> then.first, else |-> else.first,
                                         next |-> rest.first]),
            first |-> Len(else.text) + 1]

\* a program, of bodies that are trees
Parsed(bodies) ==
  LET fs == SetToSeq(DOMAIN bodies)
      all[n \in 0..Len(fs)] ==
        IF n = 0 THEN [text |-> <<>>, body |-> <<>>]
        ELSE LET b == Numbered(bodies[fs[n]], all[n - 1].text)
             IN  [text |-> b.text, body |-> (fs[n] :> b.first) @@ all[n - 1].body]
  IN  all[Len(fs)]

=============================================================================
