------------------------------ MODULE MCDoor ------------------------------
(* Door with four requests on budgets that compete for the registry, and   *)
(* with callers that compete for the limiter.                              *)
EXTENDS Door, TLC

CONSTANTS r1, r2, r3, r4, b1, b2, b3, b4, a1, a2

Ask(t, a, w, b) == [bearer |-> t, from |-> a, what |-> w, budget |-> b]
Run(b) == Ask(TRUE, a1, "run", b)

Again == r1 :> Run(b1) @@ r2 :> Run(b2) @@ r3 :> Run(b1) @@ r4 :> Run(b3)
Three == r1 :> Run(b1) @@ r2 :> Run(b2) @@ r3 :> Run(b3)
         @@ r4 :> None
Guess == r1 :> Ask(FALSE, a1, "run", b1) @@ r2 :> Ask(TRUE, a1, "check", b1)
         @@ r3 :> Ask(TRUE, a2, "run", b4)
         @@ r4 :> Ask(FALSE, a2, "health", b1)

Late  == r1 :> Ask(FALSE, a1, "health", b1) @@ r2 :> Ask(FALSE, a1, "health", b1)
         @@ r3 :> Ask(FALSE, a1, "run", b1) @@ r4 :> None

Scene(f, n, t, s) == [asks |-> f, rate |-> n, until |-> t, stops |-> s]

\* the first budget is asked for again before the third
Keeping  == Scene(Again, 4, 0, FALSE)
\* three budgets, one more than are kept, and a door that stops
Stopping == Scene(Three, 4, 0, TRUE)
\* two addresses and the token, and room to remember two of the three; one
\* asks for a budget beyond the ceiling
Limiting == Scene(Guess, 1, 5, FALSE)

\* three from one address, far enough apart that one told the time early and
\* let in late is refused before the bucket was spent
Racing   == Scene(Late, 2, 4, FALSE)

Serving == {Keeping, Stopping, Limiting, Racing}
=============================================================================
