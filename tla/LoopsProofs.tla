----------------------------- MODULE LoopsProofs -----------------------------
(***************************************************************************)
(* BoundIsHeld: whatever a program is, no run of it performs more          *)
(* operations than it was said to, when what was said is what it would be  *)
(* with no nan dropped (Kept).                                             *)
(*                                                                         *)
(* The run is a stack of calls, and a call a sequence of blocks, each      *)
(* inside the one before.  A block that is begun has a place (Place): what *)
(* is known where it is, which is so of its environment and is not bound   *)
(* by the blocks above it; what is left of it, which is what it performs   *)
(* at most; and, when it is a loop in a turn, how many turns may follow.   *)
(* The turns are counted by one of the loop's counters (Counted): on every *)
(* path to the end of the turn it makes the move it must (Reach), and so   *)
(* is as near to its limit as there are turns (Near).  What is left of     *)
(* the places of a call (Frame), and of the calls of a stack (Stacked),    *)
(* fits between what has been performed and the bound.                     *)
(*                                                                         *)
(* The functions of Loops are recursive, and that each is what its         *)
(* definition says has to be proved first: Recursion, with no induction    *)
(* theorem, by a least counterexample.                                     *)
(***************************************************************************)
EXTENDS Loops, FiniteSetTheorems, WellFoundedInduction, TLAPS

-----------------------------------------------------------------------------
(* What a recursive function is: the induction is by the least               *)
(* counterexample, a set, because the induction theorems take a predicate.   *)

\* what has 0, and one more than each that it has, has every number
LEMMA NatSet ==
  ASSUME NEW A, 0 \in A, \A n \in Nat : n \in A => n + 1 \in A
  PROVE  Nat \subseteq A
<1> DEFINE T == Nat \ A
<1> SUFFICES ASSUME T # {} PROVE FALSE
  OBVIOUS
<1>1. PICK x \in T : \A y \in T : <<y, x>> \notin OpToRel(<, Nat)
  BY NatLessThanWellFounded, WFMin, Zenon
<1>2. x \in Nat /\ x # 0
  OBVIOUS
<1>3. x - 1 \in Nat /\ x - 1 < x /\ (x - 1) + 1 = x
  BY <1>2
<1>4. <<x - 1, x>> \in OpToRel(<, Nat)
  BY <1>2, <1>3 DEF OpToRel
<1>5. x - 1 \notin T
  BY <1>1, <1>4, Zenon
<1> QED
  BY <1>2, <1>3, <1>5

\* the least of a set of numbers
LEMMA MinIn ==
  ASSUME NEW A \in SUBSET Nat, A # {}
  PROVE  Min(A) \in A
<1>1. PICK x \in A : \A y \in A : <<y, x>> \notin OpToRel(<, Nat)
  BY NatLessThanWellFounded, WFMin, Zenon
<1>2. ASSUME NEW y \in A PROVE x <= y
  <2>1. x \in Nat /\ y \in Nat
    OBVIOUS
  <2>2. y < x => <<y, x>> \in OpToRel(<, Nat)
    BY <2>1 DEF OpToRel
  <2>3. ~(y < x)
    BY <1>1, <2>2, Zenon
  <2> QED
    BY <2>1, <2>3
<1> QED
  BY <1>2 DEF Min

\* what holds of each when it holds of all that come before it
LEMMA StrongSet ==
  ASSUME NEW N \in Nat, NEW A,
         \A k \in 0..N : (\A i \in 0..(k - 1) : i \in A) => k \in A
  PROVE  \A k \in 0..N : k \in A
<1> DEFINE B == {n \in Nat : \A i \in 0..N : i < n => i \in A}
<1>1. 0 \in B
  OBVIOUS
<1>2. ASSUME NEW n \in Nat, n \in B PROVE n + 1 \in B
  <2>1. ASSUME NEW i \in 0..N, i < n + 1 PROVE i \in A
    <3>1. CASE i < n
      BY <1>2, <3>1
    <3>2. CASE i = n
      <4>1. \A j \in 0..(i - 1) : j \in A
        BY <1>2, <3>2
      <4> QED
        BY <4>1
    <3> QED
      BY <2>1, <3>1, <3>2
  <2> QED
    BY <2>1
<1>3. Nat \subseteq B
  <2> HIDE DEF B
  <2> QED
    BY <1>1, <1>2, NatSet
<1>4. N + 1 \in B
  BY <1>3
<1> QED
  BY <1>4

\* G gives the value at a place from those at the places that h puts before it
Recursive(D, V, h, G) ==
  /\ G \in [D \X [D -> V] -> V]
  /\ \A x \in D : \A f, g \in [D -> V] :
       (\A y \in D : h[y] < h[x] => f[y] = g[y]) => G[<<x, f>>] = G[<<x, g>>]

HasFixpoint(D, V, G) == \E f \in [D -> V] : \A x \in D : f[x] = G[<<x, f>>]

\* a definition by what comes before, which is what Recursive says of it, has a function
LEMMA Recursion ==
  ASSUME NEW D, NEW V, V # {}, NEW N \in Nat, NEW h \in [D -> 0..N],
         NEW G, Recursive(D, V, h, G)
  PROVE  HasFixpoint(D, V, G)
<1> DEFINE B == {n \in Nat : \E f \in [D -> V] : \A x \in D : h[x] < n => f[x] = G[<<x, f>>]}
<1>0. /\ G \in [D \X [D -> V] -> V]
      /\ \A x \in D : \A f, g \in [D -> V] :
           (\A y \in D : h[y] < h[x] => f[y] = g[y]) => G[<<x, f>>] = G[<<x, g>>]
  BY DEF Recursive
<1>1. 0 \in B
  <2>1. PICK v \in V : TRUE
    OBVIOUS
  <2>2. [x \in D |-> v] \in [D -> V]
    OBVIOUS
  <2>3. \A x \in D : ~(h[x] < 0)
    OBVIOUS
  <2> QED
    BY <2>2, <2>3
<1>2. ASSUME NEW n \in Nat, n \in B PROVE n + 1 \in B
  <2>1. PICK f \in [D -> V] : \A x \in D : h[x] < n => f[x] = G[<<x, f>>]
    BY <1>2
  <2> DEFINE g == [x \in D |-> G[<<x, f>>]]
  <2>2. g \in [D -> V]
    BY <1>0
  <2>3. ASSUME NEW x \in D, h[x] < n + 1 PROVE g[x] = G[<<x, g>>]
    <3>1. ASSUME NEW y \in D, h[y] < h[x] PROVE f[y] = g[y]
      <4>1. h[y] \in Nat /\ h[x] \in Nat
        OBVIOUS
      <4>2. h[y] < n
        BY <2>3, <3>1, <4>1
      <4> QED
        BY <2>1, <4>2
    <3>2. G[<<x, f>>] = G[<<x, g>>]
      <4> HIDE DEF g
      <4> QED
        BY <1>0, <2>2, <3>1
    <3>3. g[x] = G[<<x, f>>]
      OBVIOUS
    <3> QED
      BY <3>2, <3>3
  <2> HIDE DEF g
  <2> QED
    BY <2>2, <2>3
<1>3. Nat \subseteq B
  <2> HIDE DEF B
  <2> QED
    BY <1>1, <1>2, NatSet
<1>4. PICK f \in [D -> V] : \A x \in D : h[x] < N + 1 => f[x] = G[<<x, f>>]
  <2>1. N + 1 \in B
    <3> HIDE DEF B
    <3> QED
      BY <1>3
  <2> QED
    BY <2>1
<1>5. \A x \in D : h[x] < N + 1
  OBVIOUS
<1> QED
  BY <1>4, <1>5 DEF HasFixpoint

\* the same of the numbers up to N
Counts(N, V, G) ==
  /\ G \in [(0..N) \X [0..N -> V] -> V]
  /\ \A k \in 0..N : \A f, g \in [0..N -> V] :
       (\A i \in 0..(k - 1) : f[i] = g[i]) => G[<<k, f>>] = G[<<k, g>>]

\* a definition by smaller numbers has a function
LEMMA Counting ==
  ASSUME NEW N \in Nat, NEW V, V # {}, NEW G, Counts(N, V, G)
  PROVE  HasFixpoint(0..N, V, G)
<1> DEFINE h == [k \in 0..N |-> k]
<1>1. h \in [0..N -> 0..N]
  OBVIOUS
<1>2. ASSUME NEW k \in 0..N, NEW f \in [0..N -> V], NEW g \in [0..N -> V],
             \A i \in 0..N : h[i] < h[k] => f[i] = g[i]
      PROVE  G[<<k, f>>] = G[<<k, g>>]
  <2>1. \A i \in 0..(k - 1) : i \in 0..N /\ h[i] < h[k]
    OBVIOUS
  <2>2. \A i \in 0..(k - 1) : f[i] = g[i]
    BY <1>2, <2>1
  <2> QED
    BY <2>2 DEF Counts
<1>3. Recursive(0..N, V, h, G)
  <2>1. G \in [(0..N) \X [0..N -> V] -> V]
    BY DEF Counts
  <2> HIDE DEF h
  <2> QED
    BY <1>2, <2>1 DEF Recursive
<1> HIDE DEF h
<1> QED
  BY <1>1, <1>3, Recursion

-----------------------------------------------------------------------------
(* A text *)

TextOK(t) ==
  /\ t \in Seq(Statements)
  /\ \A k \in 1..Len(t) :
       /\ t[k].then \in 0..(k - 1) /\ t[k].else \in 0..(k - 1) /\ t[k].next \in 0..(k - 1)
       /\ t[k].is = "call" => t[k].x \in Functions
       /\ t[k].is = "while" => t[k].else = 0
       /\ t[k].is \in {"let", "set", "op", "call", "leave"} => t[k].then = 0 /\ t[k].else = 0

\* a program is a tree, as ProgramsAssumption has it
LEMMA TextFacts ==
  ASSUME NEW p \in Programs
  PROVE  TextOK(p.text) /\ p.body \in [Functions -> 0..Len(p.text)]
<1>1. p.text \in Seq(Statements) /\ p.body \in [Functions -> 0..Len(p.text)]
  BY ProgramsAssumption
<1>2. ASSUME NEW k \in 1..Len(p.text)
      PROVE  /\ p.text[k].then \in 0..(k - 1) /\ p.text[k].else \in 0..(k - 1)
             /\ p.text[k].next \in 0..(k - 1)
             /\ p.text[k].is = "call" => p.text[k].x \in Functions
             /\ p.text[k].is = "while" => p.text[k].else = 0
             /\ p.text[k].is \in {"let", "set", "op", "call", "leave"} =>
                  p.text[k].then = 0 /\ p.text[k].else = 0
  <2>1. k \in DOMAIN p.text
    BY <1>1
  <2>2. p.text[k].then < k /\ p.text[k].else < k /\ p.text[k].next < k
    BY <2>1, ProgramsAssumption
  <2>3. p.text[k] \in Statements
    BY <1>1
  <2>4. p.text[k].then \in Nat /\ p.text[k].else \in Nat /\ p.text[k].next \in Nat
    BY <2>3 DEF Statements
  <2>5. /\ p.text[k].is = "call" => p.text[k].x \in Functions
        /\ p.text[k].is = "while" => p.text[k].else = 0
        /\ p.text[k].is \in {"let", "set", "op", "call", "leave"} =>
             p.text[k].then = 0 /\ p.text[k].else = 0
    BY <2>1, ProgramsAssumption
  <2> QED
    BY <2>2, <2>4, <2>5
<1> QED
  BY <1>1, <1>2 DEF TextOK

BindingsAt(t, x, n, k) ==
  IF k = 0 THEN 0
  ELSE n[t[k].then] + n[t[k].else] + n[t[k].next] + IF Binds(t[k], x) THEN 1 ELSE 0

\* _bindings_of is the function its definition is of
LEMMA BindingsAre ==
  ASSUME NEW t, TextOK(t), NEW x
  PROVE  /\ Bindings(t, x) \in [0..Len(t) -> Nat]
         /\ \A k \in 0..Len(t) : Bindings(t, x)[k] = BindingsAt(t, x, Bindings(t, x), k)
<1> DEFINE N == Len(t)
           G == [z \in (0..N) \X [0..N -> Nat] |-> BindingsAt(t, x, z[2], z[1])]
<1>1. N \in Nat
  BY DEF TextOK
<1>2. ASSUME NEW n \in [0..N -> Nat], NEW k \in 0..N PROVE BindingsAt(t, x, n, k) \in Nat
  <2>1. k # 0 => t[k].then \in 0..N /\ t[k].else \in 0..N /\ t[k].next \in 0..N
    BY <1>1 DEF TextOK
  <2> QED
    BY <2>1 DEF BindingsAt
<1>3. G \in [(0..N) \X [0..N -> Nat] -> Nat]
  BY <1>2
<1>4. ASSUME NEW k \in 0..N, NEW f \in [0..N -> Nat], NEW g \in [0..N -> Nat],
             \A i \in 0..(k - 1) : f[i] = g[i]
      PROVE  BindingsAt(t, x, f, k) = BindingsAt(t, x, g, k)
  <2>1. k # 0 => t[k].then \in 0..(k - 1) /\ t[k].else \in 0..(k - 1) /\ t[k].next \in 0..(k - 1)
    BY <1>1 DEF TextOK
  <2> QED
    BY <1>4, <2>1 DEF BindingsAt
<1>5. ASSUME NEW k \in 0..N, NEW f \in [0..N -> Nat]
      PROVE  G[<<k, f>>] = BindingsAt(t, x, f, k)
  OBVIOUS
<1> HIDE DEF G, N
<1>6. HasFixpoint(0..N, Nat, G)
  <2>1. ASSUME NEW k \in 0..N, NEW f \in [0..N -> Nat], NEW g \in [0..N -> Nat],
               \A i \in 0..(k - 1) : f[i] = g[i]
        PROVE  G[<<k, f>>] = G[<<k, g>>]
    <3>1. BindingsAt(t, x, f, k) = BindingsAt(t, x, g, k)
      BY <1>4, <2>1
    <3>2. G[<<k, f>>] = BindingsAt(t, x, f, k) /\ G[<<k, g>>] = BindingsAt(t, x, g, k)
      BY <1>5
    <3> QED
      BY <3>1, <3>2
  <2>2. Counts(N, Nat, G)
    BY <1>3, <2>1 DEF Counts
  <2>3. Nat # {}
    OBVIOUS
  <2> QED
    BY <1>1, <2>2, <2>3, Counting
<1>7. PICK f \in [0..N -> Nat] : f = [k \in 0..N |-> BindingsAt(t, x, f, k)]
  BY <1>5, <1>6 DEF HasFixpoint
<1>8. Bindings(t, x) = [k \in 0..N |-> BindingsAt(t, x, Bindings(t, x), k)]
  BY <1>7 DEF Bindings, BindingsAt, N
<1>9. \A k \in 0..N : Bindings(t, x)[k] \in Nat
  <2> DEFINE A == {k \in 0..N : Bindings(t, x)[k] \in Nat}
  <2>1. ASSUME NEW k \in 0..N, \A i \in 0..(k - 1) : i \in A PROVE k \in A
    <3>1. k # 0 => t[k].then \in 0..(k - 1) /\ t[k].else \in 0..(k - 1) /\ t[k].next \in 0..(k - 1)
      BY <1>1 DEF TextOK, N
    <3>2. \A i \in 0..(k - 1) : Bindings(t, x)[i] \in Nat
      BY <2>1
    <3>3. BindingsAt(t, x, Bindings(t, x), k) \in Nat
      BY <3>1, <3>2, SMTT(30) DEF BindingsAt
    <3> QED
      BY <1>8, <3>3
  <2> HIDE DEF A
  <2>2. \A k \in 0..N : k \in A
    BY <1>1, <2>1, StrongSet
  <2> QED
    BY <2>2 DEF A
<1> QED
  BY <1>8, <1>9 DEF N

\* a name is bound in a block by its first statement, in a block of that one, or later
LEMMA BoundFacts ==
  ASSUME NEW t, TextOK(t), NEW x
  PROVE  /\ ~Bound(t, 0, x)
         /\ \A k \in 1..Len(t) :
              Bound(t, k, x) <=> \/ Binds(t[k], x) \/ Bound(t, t[k].then, x)
                                 \/ Bound(t, t[k].else, x) \/ Bound(t, t[k].next, x)
<1>1. Len(t) \in Nat
  BY DEF TextOK
<1>2. ~Bound(t, 0, x)
  <2>1. Bindings(t, x)[0] = 0
    BY <1>1, BindingsAre DEF BindingsAt
  <2> QED
    BY <2>1 DEF Bound
<1>3. ASSUME NEW k \in 1..Len(t)
      PROVE  Bound(t, k, x) <=> \/ Binds(t[k], x) \/ Bound(t, t[k].then, x)
                                \/ Bound(t, t[k].else, x) \/ Bound(t, t[k].next, x)
  <2> DEFINE n == Bindings(t, x)
  <2>1. t[k].then \in 0..Len(t) /\ t[k].else \in 0..Len(t) /\ t[k].next \in 0..Len(t)
    BY <1>1 DEF TextOK
  <2>2. k \in 0..Len(t) /\ k # 0
    OBVIOUS
  <2>3. n[t[k].then] \in Nat /\ n[t[k].else] \in Nat /\ n[t[k].next] \in Nat
    BY <2>1, BindingsAre
  <2>4. n[k] = n[t[k].then] + n[t[k].else] + n[t[k].next] + IF Binds(t[k], x) THEN 1 ELSE 0
    BY <2>2, BindingsAre DEF BindingsAt
  <2> HIDE DEF n
  <2>5. n[k] > 0 <=> \/ Binds(t[k], x) \/ n[t[k].then] > 0
                     \/ n[t[k].else] > 0 \/ n[t[k].next] > 0
    BY <2>3, <2>4
  <2> QED
    BY <2>5 DEF Bound, n
<1> QED
  BY <1>2, <1>3

-----------------------------------------------------------------------------
(* The ways through a block *)

Ways == (SUBSET {0, 1}) \union {BAD}

Later(counts, moves) == {c + x : c \in counts, x \in moves}

AlongAt(t, v, op, a, k) ==
  [counts \in SUBSET {0, 1} |->
     IF k = 0 THEN counts
     ELSE IF t[k].is = "leave" THEN {}
     ELSE LET moves == Moves(t[k], v, op, a[t[k].then][{0}], a[t[k].else][{0}],
                             Bound(t, t[k].then, v))
              after == Later(counts, moves)
          IN  IF moves = BAD \/ ~(after \subseteq {0, 1}) THEN BAD
              ELSE a[t[k].next][after]]

\* what a statement does to a counter is a set of moves, or bad
LEMMA MovesWays ==
  ASSUME NEW s, NEW v, NEW op, NEW then \in Ways, NEW else \in Ways, NEW turned
  PROVE  Moves(s, v, op, then, else, turned) \in Ways
<1>1. {0} \in Ways /\ {1} \in Ways /\ BAD \in Ways
  BY DEF Ways
<1>2. BAD \notin {then, else} => then \union else \in Ways
  BY DEF Ways
<1> QED
  BY <1>1, <1>2 DEF Moves

\* _steps_along_paths is the function its definition is of
LEMMA AlongAre ==
  ASSUME NEW t, TextOK(t), NEW v, NEW op
  PROVE  /\ Along(t, v, op) \in [0..Len(t) -> [SUBSET {0, 1} -> Ways]]
         /\ \A k \in 0..Len(t) : Along(t, v, op)[k] = AlongAt(t, v, op, Along(t, v, op), k)
<1> DEFINE N == Len(t)
           V == [SUBSET {0, 1} -> Ways]
           G == [z \in (0..N) \X [0..N -> V] |-> AlongAt(t, v, op, z[2], z[1])]
<1>1. N \in Nat
  BY DEF TextOK
<1>2. ASSUME NEW k \in 0..N, k # 0
      PROVE  t[k].then \in 0..(k - 1) /\ t[k].else \in 0..(k - 1) /\ t[k].next \in 0..(k - 1)
  BY <1>1, <1>2 DEF TextOK
<1>3. ASSUME NEW a, NEW k \in 0..N, \A i \in 0..(k - 1) : a[i] \in V
      PROVE  AlongAt(t, v, op, a, k) \in V
  <2>1. SUFFICES ASSUME NEW counts \in SUBSET {0, 1}, k # 0
                 PROVE  LET moves == Moves(t[k], v, op, a[t[k].then][{0}], a[t[k].else][{0}],
                                           Bound(t, t[k].then, v))
                            after == Later(counts, moves)
                        IN  (IF moves = BAD \/ ~(after \subseteq {0, 1}) THEN BAD
                             ELSE a[t[k].next][after]) \in Ways
    BY DEF AlongAt, Ways
  <2>2. \A C \in SUBSET {0, 1} : a[t[k].next][C] \in Ways
    BY <1>2, <1>3, <2>1
  <2> QED
    BY <2>2 DEF Ways
<1>4. ASSUME NEW k \in 0..N, NEW f, NEW g, \A i \in 0..(k - 1) : f[i] = g[i]
      PROVE  AlongAt(t, v, op, f, k) = AlongAt(t, v, op, g, k)
  <2>1. CASE k = 0
    BY <2>1 DEF AlongAt
  <2>2. CASE k # 0
    <3>1. f[t[k].then] = g[t[k].then] /\ f[t[k].else] = g[t[k].else] /\ f[t[k].next] = g[t[k].next]
      BY <1>2, <1>4, <2>2
    <3> QED
      BY <3>1 DEF AlongAt
  <2> QED
    BY <2>1, <2>2
<1>5. Counts(N, V, G)
  <2>1. ASSUME NEW k \in 0..N, NEW f \in [0..N -> V]
        PROVE  AlongAt(t, v, op, f, k) \in V /\ G[<<k, f>>] = AlongAt(t, v, op, f, k)
    <3>1. \A i \in 0..(k - 1) : f[i] \in V
      OBVIOUS
    <3>2. AlongAt(t, v, op, f, k) \in V
      <4> HIDE DEF V
      <4> QED
        BY <1>3, <3>1
    <3> HIDE DEF V
    <3> QED
      BY <3>2
  <2>2. G \in [(0..N) \X [0..N -> V] -> V]
    <3> HIDE DEF V
    <3> QED
      BY <2>1
  <2> HIDE DEF G, V, N
  <2>3. ASSUME NEW k \in 0..N, NEW f \in [0..N -> V], NEW g \in [0..N -> V],
               \A i \in 0..(k - 1) : f[i] = g[i]
        PROVE  G[<<k, f>>] = G[<<k, g>>]
    <3>1. AlongAt(t, v, op, f, k) = AlongAt(t, v, op, g, k)
      BY <1>4, <2>3
    <3> QED
      BY <2>1, <3>1
  <2> QED
    BY <2>2, <2>3 DEF Counts
<1>6. V # {}
  <2>1. [C \in SUBSET {0, 1} |-> C] \in V
    BY DEF Ways
  <2> QED
    BY <2>1
<1>7. \E f : f = [k \in 0..N |-> AlongAt(t, v, op, f, k)]
  <2>1. HasFixpoint(0..N, V, G)
    <3> HIDE DEF G, V, N
    <3> QED
      BY <1>1, <1>5, <1>6, Counting
  <2>2. PICK f \in [0..N -> V] : \A k \in 0..N : f[k] = G[<<k, f>>]
    <3> HIDE DEF G, V, N
    <3> QED
      BY <2>1 DEF HasFixpoint
  <2>3. \A k \in 0..N : G[<<k, f>>] = AlongAt(t, v, op, f, k)
    <3> HIDE DEF V
    <3> QED
      OBVIOUS
  <2>4. f = [k \in 0..N |-> AlongAt(t, v, op, f, k)]
    <3> HIDE DEF G, V, N
    <3> QED
      BY <2>2, <2>3
  <2> QED
    BY <2>4
<1> HIDE DEF G, V, N
<1>8. Along(t, v, op) = [k \in 0..N |-> AlongAt(t, v, op, Along(t, v, op), k)]
  <2>1. Along(t, v, op) = CHOOSE f : f = [k \in 0..N |-> AlongAt(t, v, op, f, k)]
    BY DEF Along, AlongAt, Later, N
  <2> QED
    BY <1>7, <2>1
<1>9. \A k \in 0..N : Along(t, v, op)[k] \in V
  <2> DEFINE A == {k \in 0..N : Along(t, v, op)[k] \in V}
  <2>1. ASSUME NEW k \in 0..N, \A i \in 0..(k - 1) : i \in A PROVE k \in A
    <3>1. \A i \in 0..(k - 1) : Along(t, v, op)[i] \in V
      BY <2>1
    <3>2. AlongAt(t, v, op, Along(t, v, op), k) \in V
      BY <1>3, <3>1
    <3> QED
      BY <1>8, <3>2
  <2> HIDE DEF A
  <2>2. \A k \in 0..N : k \in A
    BY <1>1, <2>1, StrongSet
  <2> QED
    BY <2>2 DEF A
<1>10. Along(t, v, op) \in [0..N -> V] /\ \A k \in 0..N : Along(t, v, op)[k] = AlongAt(t, v, op, Along(t, v, op), k)
  BY <1>8, <1>9
<1> QED
  BY <1>10 DEF N, V

MovesAt(t, v, op, k) ==
  LET a == Along(t, v, op)
  IN  Moves(t[k], v, op, a[t[k].then][{0}], a[t[k].else][{0}], Bound(t, t[k].then, v))

\* and what it gives at a statement, by what it gives after it
LEMMA AlongStep ==
  ASSUME NEW t, TextOK(t), NEW v, NEW op, NEW counts \in SUBSET {0, 1}
  PROVE  /\ Along(t, v, op)[0][counts] = counts
         /\ \A k \in 0..Len(t) : Along(t, v, op)[k][counts] \in Ways
         /\ \A k \in 1..Len(t) :
              /\ MovesAt(t, v, op, k) \in Ways
              /\ t[k].is = "leave" => Along(t, v, op)[k][counts] = {}
              /\ t[k].is # "leave" =>
                   Along(t, v, op)[k][counts] =
                     IF MovesAt(t, v, op, k) = BAD
                          \/ ~(Later(counts, MovesAt(t, v, op, k)) \subseteq {0, 1})
                     THEN BAD
                     ELSE Along(t, v, op)[t[k].next][Later(counts, MovesAt(t, v, op, k))]
<1> DEFINE a == Along(t, v, op)
<1>1. Len(t) \in Nat
  BY DEF TextOK
<1>2. a \in [0..Len(t) -> [SUBSET {0, 1} -> Ways]]
  BY AlongAre
<1>3. \A k \in 0..Len(t) : a[k] = AlongAt(t, v, op, a, k)
  BY AlongAre
<1> HIDE DEF a
<1>4. a[0][counts] = counts
  <2>1. 0 \in 0..Len(t)
    BY <1>1
  <2>2. a[0] = AlongAt(t, v, op, a, 0)
    BY <1>3, <2>1
  <2> QED
    BY <2>2 DEF AlongAt
<1>5. \A k \in 0..Len(t) : a[k][counts] \in Ways
  BY <1>2
<1>6. ASSUME NEW k \in 1..Len(t)
      PROVE  /\ MovesAt(t, v, op, k) \in Ways
             /\ t[k].is = "leave" => a[k][counts] = {}
             /\ t[k].is # "leave" =>
                  a[k][counts] =
                    IF MovesAt(t, v, op, k) = BAD
                         \/ ~(Later(counts, MovesAt(t, v, op, k)) \subseteq {0, 1})
                    THEN BAD
                    ELSE a[t[k].next][Later(counts, MovesAt(t, v, op, k))]
  <2>1. t[k].then \in 0..Len(t) /\ t[k].else \in 0..Len(t)
    BY <1>1 DEF TextOK
  <2>2. a[t[k].then][{0}] \in Ways /\ a[t[k].else][{0}] \in Ways
    BY <1>2, <2>1
  <2>3. MovesAt(t, v, op, k) = Moves(t[k], v, op, a[t[k].then][{0}], a[t[k].else][{0}],
                                     Bound(t, t[k].then, v))
    BY DEF MovesAt, a
  <2>4. MovesAt(t, v, op, k) \in Ways
    BY <2>2, <2>3, MovesWays
  <2>5. k # 0 /\ k \in 0..Len(t)
    OBVIOUS
  <2>6. a[k] = AlongAt(t, v, op, a, k)
    BY <1>3, <2>5
  <2> HIDE DEF a
  <2>7. t[k].is = "leave" => a[k][counts] = {}
    BY <2>5, <2>6 DEF AlongAt
  <2>8. t[k].is # "leave" =>
          AlongAt(t, v, op, a, k)[counts] =
            IF MovesAt(t, v, op, k) = BAD
                 \/ ~(Later(counts, MovesAt(t, v, op, k)) \subseteq {0, 1})
            THEN BAD
            ELSE a[t[k].next][Later(counts, MovesAt(t, v, op, k))]
    BY <2>3, <2>5 DEF AlongAt
  <2> QED
    BY <2>4, <2>6, <2>7, <2>8
<1> QED
  BY <1>4, <1>5, <1>6 DEF a

\* fewer counts to begin with, no more at the end
LEMMA Fewer ==
  ASSUME NEW t, TextOK(t), NEW v, NEW op, NEW k \in 0..Len(t)
  PROVE  \A C \in SUBSET {0, 1} : Along(t, v, op)[k][C] # BAD =>
           \A A \in SUBSET C : /\ Along(t, v, op)[k][A] # BAD
                               /\ Along(t, v, op)[k][A] \subseteq Along(t, v, op)[k][C]
<1> DEFINE a == Along(t, v, op)
           Y == {i \in 0..Len(t) : \A C \in SUBSET {0, 1} : a[i][C] # BAD =>
                   \A A \in SUBSET C : a[i][A] # BAD /\ a[i][A] \subseteq a[i][C]}
<1>1. Len(t) \in Nat
  BY DEF TextOK
<1>2. ASSUME NEW i \in 0..Len(t), \A j \in 0..(i - 1) : j \in Y
      PROVE  i \in Y
  <2> SUFFICES ASSUME NEW C \in SUBSET {0, 1}, a[i][C] # BAD, NEW A \in SUBSET C
               PROVE  a[i][A] # BAD /\ a[i][A] \subseteq a[i][C]
    BY Zenon
  <2>0. A \in SUBSET {0, 1}
    OBVIOUS
  <2>1. CASE i = 0
    <3>1. a[i][C] = C /\ a[i][A] = A
      BY <2>0, <2>1, AlongStep
    <3>2. BAD # A
      BY <2>0 DEF BAD
    <3> HIDE DEF a
    <3> QED
      BY <3>1, <3>2
  <2>2. CASE i # 0 /\ t[i].is = "leave"
    <3>1. i \in 1..Len(t)
      BY <2>2
    <3>2. a[i][C] = {} /\ a[i][A] = {}
      BY <2>0, <2>2, <3>1, AlongStep
    <3> HIDE DEF a
    <3> QED
      BY <3>2 DEF BAD
  <2>3. CASE i # 0 /\ t[i].is # "leave"
    <3> DEFINE mv == MovesAt(t, v, op, i)
    <3>1. i \in 1..Len(t)
      BY <2>3
    <3>2. a[i][C] = IF mv = BAD \/ ~(Later(C, mv) \subseteq {0, 1}) THEN BAD ELSE a[t[i].next][Later(C, mv)]
      BY <2>3, <3>1, AlongStep
    <3>3. a[i][A] = IF mv = BAD \/ ~(Later(A, mv) \subseteq {0, 1}) THEN BAD ELSE a[t[i].next][Later(A, mv)]
      BY <2>0, <2>3, <3>1, AlongStep
    <3>4. Later(A, mv) \subseteq Later(C, mv)
      BY DEF Later
    <3>5. t[i].next \in Y
      BY <1>1, <1>2, <3>1 DEF TextOK
    <3>6. \A D \in SUBSET {0, 1} : a[t[i].next][D] # BAD =>
            \A B \in SUBSET D : a[t[i].next][B] # BAD /\ a[t[i].next][B] \subseteq a[t[i].next][D]
      BY <3>5
    <3> HIDE DEF a, mv, Y
    <3>7. mv # BAD /\ Later(C, mv) \subseteq {0, 1} /\ a[i][C] = a[t[i].next][Later(C, mv)]
      BY <3>2
    <3>8. a[i][A] = a[t[i].next][Later(A, mv)]
      BY <3>3, <3>4, <3>7
    <3> QED
      BY <3>4, <3>6, <3>7, <3>8
  <2> QED
    BY <2>1, <2>2, <2>3
<1> HIDE DEF Y
<1>3. \A i \in 0..Len(t) : i \in Y
  BY <1>1, <1>2, StrongSet
<1> QED
  BY <1>3 DEF Y, a

\* a block that does not bind a name moves it on no path
LEMMA Unmoved ==
  ASSUME NEW t, TextOK(t), NEW v, NEW op, NEW k \in 0..Len(t), ~Bound(t, k, v)
  PROVE  \A C \in SUBSET {0, 1} : Along(t, v, op)[k][C] \subseteq C
<1> DEFINE a == Along(t, v, op)
           Y == {i \in 0..Len(t) : ~Bound(t, i, v) => \A C \in SUBSET {0, 1} : a[i][C] \subseteq C}
<1>1. Len(t) \in Nat
  BY DEF TextOK
<1>2. ASSUME NEW i \in 0..Len(t), \A j \in 0..(i - 1) : j \in Y
      PROVE  i \in Y
  <2> SUFFICES ASSUME ~Bound(t, i, v), NEW C \in SUBSET {0, 1}
               PROVE  a[i][C] \subseteq C
    BY Zenon
  <2>1. CASE i = 0
    <3>1. a[i][C] = C
      BY <2>1, AlongStep
    <3> HIDE DEF a
    <3> QED
      BY <3>1
  <2>2. CASE i # 0 /\ t[i].is = "leave"
    <3>1. i \in 1..Len(t)
      BY <2>2
    <3>2. a[i][C] = {}
      BY <2>2, <3>1, AlongStep
    <3> HIDE DEF a
    <3> QED
      BY <3>2
  <2>3. CASE i # 0 /\ t[i].is # "leave"
    <3> DEFINE mv == MovesAt(t, v, op, i)
    <3>1. i \in 1..Len(t)
      BY <2>3
    <3>2. a[i][C] = IF mv = BAD \/ ~(Later(C, mv) \subseteq {0, 1}) THEN BAD ELSE a[t[i].next][Later(C, mv)]
      BY <2>3, <3>1, AlongStep
    <3>3. ~Binds(t[i], v) /\ ~Bound(t, t[i].then, v) /\ ~Bound(t, t[i].else, v) /\ ~Bound(t, t[i].next, v)
      BY <3>1, BoundFacts
    <3>4. t[i].then \in Y /\ t[i].else \in Y /\ t[i].next \in Y
      BY <1>1, <1>2, <3>1 DEF TextOK
    <3>5. a[t[i].then][{0}] \subseteq {0} /\ a[t[i].else][{0}] \subseteq {0}
      BY <3>3, <3>4
    <3>6. \A D \in SUBSET {0, 1} : a[t[i].next][D] \subseteq D
      BY <3>3, <3>4
    <3>7. mv = Moves(t[i], v, op, a[t[i].then][{0}], a[t[i].else][{0}], Bound(t, t[i].then, v))
      BY DEF MovesAt
    <3> HIDE DEF a, mv, Y
    <3>8. ~(t[i].is = "set" /\ t[i].x = v)
      BY <3>3 DEF Binds
    <3>9. mv \subseteq {0}
      <4>1. a[t[i].then][{0}] # BAD /\ a[t[i].else][{0}] # BAD
        BY <3>5 DEF BAD
      <4> QED
        BY <3>3, <3>5, <3>7, <3>8, <4>1 DEF Moves
    <3>10. mv # BAD
      BY <3>9 DEF BAD
    <3>11. Later(C, mv) \subseteq C
      BY <3>9 DEF Later
    <3> QED
      BY <3>2, <3>6, <3>10, <3>11
  <2> QED
    BY <2>1, <2>2, <2>3
<1> HIDE DEF Y
<1>3. \A i \in 0..Len(t) : i \in Y
  BY <1>1, <1>2, StrongSet
<1> QED
  BY <1>3 DEF Y, a

\* from m moves, k leads to some of C: it is gone through from c, when the rest
\* of the m were made before it
Arrives(t, v, op, k, m, C) ==
  \E c \in {0, 1}, d \in Nat :
    /\ m = c + d
    /\ Along(t, v, op)[k][{c}] # BAD
    /\ \A x \in Along(t, v, op)[k][{c}] : d + x \in C

\* a block that is over has made its moves
LEMMA ArrivesEnd ==
  ASSUME NEW t, TextOK(t), NEW v, NEW op, NEW m, NEW C, Arrives(t, v, op, 0, m, C)
  PROVE  m \in C
<1>1. PICK c \in {0, 1}, d \in Nat :
        /\ m = c + d
        /\ \A x \in Along(t, v, op)[0][{c}] : d + x \in C
  BY DEF Arrives
<1>2. Along(t, v, op)[0][{c}] = {c}
  <2>1. {c} \in SUBSET {0, 1}
    OBVIOUS
  <2> QED
    BY <2>1, AlongStep
<1>3. d + c \in C
  BY <1>1, <1>2
<1>4. d + c = m
  BY <1>1
<1> QED
  BY <1>3, <1>4

\* a statement that is gone through hands its moves on to the next
LEMMA ArrivesNext ==
  ASSUME NEW t, TextOK(t), NEW v, NEW op, NEW k \in 1..Len(t), t[k].is # "leave",
         NEW m, NEW C, Arrives(t, v, op, k, m, C)
  PROVE  /\ MovesAt(t, v, op, k) # BAD /\ MovesAt(t, v, op, k) \subseteq {0, 1}
         /\ \A x \in MovesAt(t, v, op, k) : Arrives(t, v, op, t[k].next, m + x, C)
<1> DEFINE a == Along(t, v, op)
           mv == MovesAt(t, v, op, k)
<1>1. PICK c \in {0, 1}, d \in Nat :
        /\ m = c + d
        /\ a[k][{c}] # BAD
        /\ \A x \in a[k][{c}] : d + x \in C
  BY DEF Arrives
<1>0. {c} \in SUBSET {0, 1}
  OBVIOUS
<1>2. a[k][{c}] = IF mv = BAD \/ ~(Later({c}, mv) \subseteq {0, 1}) THEN BAD ELSE a[t[k].next][Later({c}, mv)]
  BY <1>0, AlongStep
<1>3. mv \in Ways
  BY <1>0, AlongStep
<1>4. t[k].next \in 0..Len(t)
  BY DEF TextOK
<1>5. \A D \in SUBSET {0, 1} : a[t[k].next][D] # BAD =>
        \A B \in SUBSET D : a[t[k].next][B] # BAD /\ a[t[k].next][B] \subseteq a[t[k].next][D]
  BY <1>4, Fewer
<1> HIDE DEF a, mv
<1>6. mv # BAD /\ Later({c}, mv) \subseteq {0, 1} /\ a[k][{c}] = a[t[k].next][Later({c}, mv)]
  BY <1>1, <1>2
<1>7. mv \subseteq {0, 1}
  BY <1>3, <1>6 DEF Ways
<1>8. ASSUME NEW x \in mv PROVE Arrives(t, v, op, t[k].next, m + x, C)
  <2>1. c + x \in Later({c}, mv)
    BY DEF Later
  <2>2. c + x \in {0, 1} /\ {c + x} \in SUBSET Later({c}, mv)
    BY <1>6, <2>1
  <2>3. a[t[k].next][{c + x}] # BAD /\ a[t[k].next][{c + x}] \subseteq a[k][{c}]
    BY <1>1, <1>5, <1>6, <2>2
  <2>4. x \in {0, 1}
    BY <1>7
  <2>5. m + x = (c + x) + d
    BY <1>1, <2>4
  <2>6. \A y \in a[t[k].next][{c + x}] : d + y \in C
    BY <1>1, <2>3
  <2> QED
    BY <2>2, <2>3, <2>5, <2>6 DEF Arrives, a
<1> QED
  BY <1>6, <1>7, <1>8 DEF mv

From(m, moves) == {m + x : x \in moves}

\* how each kind of statement moves a name, when no path of it is bad
LEMMA MovesOf ==
  ASSUME NEW t, TextOK(t), NEW v, NEW op, NEW k \in 1..Len(t), MovesAt(t, v, op, k) # BAD
  PROVE  /\ t[k].is \in {"op", "call"} => MovesAt(t, v, op, k) = {0}
         /\ t[k].is = "while" => MovesAt(t, v, op, k) = {0} /\ ~Bound(t, t[k].then, v)
         /\ t[k].is \in {"let", "set"} /\ t[k].x # v => MovesAt(t, v, op, k) = {0}
         /\ t[k].is \in {"let", "set"} /\ t[k].x = v =>
              MovesAt(t, v, op, k) = {1} /\ IsStep(t[k].e, v, op)
         /\ t[k].is \in {"if", "check"} =>
              /\ Along(t, v, op)[t[k].then][{0}] # BAD /\ Along(t, v, op)[t[k].else][{0}] # BAD
              /\ MovesAt(t, v, op, k) = Along(t, v, op)[t[k].then][{0}]
                                          \union Along(t, v, op)[t[k].else][{0}]
         /\ t[k].is = "check" => t[k].x # v
<1> DEFINE mv == MovesAt(t, v, op, k)
           then == Along(t, v, op)[t[k].then][{0}]
           else == Along(t, v, op)[t[k].else][{0}]
           s == t[k]
<1>1. mv = Moves(s, v, op, then, else, Bound(t, s.then, v))
  BY DEF MovesAt
<1> HIDE DEF mv, then, else
<1>2. mv # BAD
  BY DEF mv
<1>3. s.is \in {"op", "call"} => mv = {0}
  BY <1>1 DEF Moves, Binds
<1>4. s.is = "while" => mv = {0} /\ ~Bound(t, s.then, v)
  BY <1>1, <1>2 DEF Moves, Binds
<1>5. s.is \in {"let", "set"} /\ s.x # v => mv = {0}
  BY <1>1 DEF Moves, Binds
<1>6. s.is \in {"let", "set"} /\ s.x = v => mv = {1} /\ IsStep(s.e, v, op)
  BY <1>1, <1>2 DEF Moves, Binds
<1>7. ASSUME s.is = "check", s.x = v PROVE FALSE
  <2>1. Binds(s, v) /\ ~(s.is = "set" /\ s.x = v)
    BY <1>7 DEF Binds
  <2>2. mv = BAD
    BY <1>1, <1>7, <2>1 DEF Moves
  <2> QED
    BY <1>2, <2>2
<1>8. s.is \in {"if", "check"} => then # BAD /\ else # BAD /\ mv = then \union else
  BY <1>1, <1>2, <1>7 DEF Moves, Binds
<1> QED
  BY <1>3, <1>4, <1>5, <1>6, <1>7, <1>8 DEF mv, then, else

\* an arm makes the moves of the statement it is of
LEMMA ArrivesArm ==
  ASSUME NEW t, TextOK(t), NEW v, NEW op, NEW k \in 1..Len(t), t[k].is \in {"if", "check"},
         MovesAt(t, v, op, k) # BAD, NEW m \in Nat, NEW arm \in {t[k].then, t[k].else}
  PROVE  Arrives(t, v, op, arm, m, From(m, MovesAt(t, v, op, k)))
<1> DEFINE mv == MovesAt(t, v, op, k)
           way == Along(t, v, op)[arm][{0}]
           C == From(m, mv)
<1>1. way # BAD /\ way \subseteq mv
  BY MovesOf
<1> HIDE DEF mv, way
<1>2. \A x \in way : m + x \in C
  BY <1>1 DEF From
<1>3. m = 0 + m
  OBVIOUS
<1> HIDE DEF C
<1>4. Arrives(t, v, op, arm, m, C)
  BY <1>1, <1>2, <1>3 DEF Arrives, way
<1> QED
  BY <1>4 DEF C, mv

\* the body of a loop, from its beginning
LEMMA ArrivesBody ==
  ASSUME NEW t, TextOK(t), NEW v, NEW op, NEW b \in 0..Len(t), Along(t, v, op)[b][{0}] # BAD
  PROVE  Arrives(t, v, op, b, 0, Along(t, v, op)[b][{0}])
<1>1. Along(t, v, op)[b][{0}] \in Ways
  <2>1. {0} \in SUBSET {0, 1}
    OBVIOUS
  <2> QED
    BY <2>1, AlongStep
<1>2. \A x \in Along(t, v, op)[b][{0}] : 0 + x \in Along(t, v, op)[b][{0}]
  BY <1>1 DEF Ways
<1>3. 0 = 0 + 0 /\ 0 \in {0, 1} /\ 0 \in Nat
  OBVIOUS
<1> DEFINE way == Along(t, v, op)[b][{0}]
<1> HIDE DEF way
<1>4. Arrives(t, v, op, b, 0, way)
  BY <1>2, <1>3 DEF Arrives, way
<1> QED
  BY <1>4 DEF way

\* a block that does not bind the name makes none
LEMMA ArrivesUnmoved ==
  ASSUME NEW t, TextOK(t), NEW v, NEW op, NEW b \in 0..Len(t), ~Bound(t, b, v),
         NEW m \in Nat, NEW C, m \in C
  PROVE  Arrives(t, v, op, b, m, C)
<1>1. Along(t, v, op)[b][{0}] \subseteq {0}
  <2>1. {0} \in SUBSET {0, 1}
    OBVIOUS
  <2> QED
    BY <2>1, Unmoved
<1>2. Along(t, v, op)[b][{0}] # BAD
  BY <1>1 DEF BAD
<1>3. \A x \in Along(t, v, op)[b][{0}] : m + x \in C
  BY <1>1
<1>4. 0 \in {0, 1} /\ m = 0 + m
  OBVIOUS
<1> QED
  BY <1>2, <1>3, <1>4 DEF Arrives

-----------------------------------------------------------------------------
(* The blocks that a call has still to run, of which the last is run first:  *)
(* i, which is a loop with its body at work, is come back to with one of     *)
(* ends made, when m moves of a name have been made in this turn.            *)

TodoOK(t, todo) == todo \in Seq(0..Len(t)) /\ Len(todo) >= 1

Chain(t, v, op, todo, i, C) ==
  /\ C \in [i..Len(todo) -> SUBSET Nat]
  /\ \A j \in (i + 1)..Len(todo) : \A d \in C[j] : Arrives(t, v, op, todo[j], d, C[j - 1])

Reach(t, v, op, todo, i, m, ends) ==
  \E C : Chain(t, v, op, todo, i, C) /\ m \in C[Len(todo)] /\ C[i] \subseteq ends

\* a turn that is over ends as one of its paths does
LEMMA ReachTop ==
  ASSUME NEW t, NEW v, NEW op, NEW todo, NEW m, NEW ends,
         Reach(t, v, op, todo, Len(todo), m, ends)
  PROVE  m \in ends
BY DEF Reach

\* a block that is over leaves the turn it is in where it was
LEMMA ReachPop ==
  ASSUME NEW t, TextOK(t), NEW v, NEW op, NEW todo, TodoOK(t, todo), NEW i \in 1..(Len(todo) - 1),
         NEW m, NEW ends, Reach(t, v, op, todo, i, m, ends), todo[Len(todo)] = 0
  PROVE  Reach(t, v, op, Front(todo), i, m, ends)
<1> DEFINE n == Len(todo)
           rest == Front(todo)
<1>1. n \in Nat /\ n > 1
  BY DEF TodoOK
<1>2. /\ Len(rest) = n - 1
      /\ \A j \in 1..(n - 1) : rest[j] = todo[j]
  BY <1>1 DEF TodoOK, Front
<1>3. PICK C : Chain(t, v, op, todo, i, C) /\ m \in C[n] /\ C[i] \subseteq ends
  BY DEF Reach
<1>4. Arrives(t, v, op, 0, m, C[n - 1])
  <2>1. n \in (i + 1)..n
    BY <1>1
  <2> QED
    BY <1>3, <2>1 DEF Chain
<1>5. m \in C[n - 1]
  BY <1>4, ArrivesEnd
<1> DEFINE D == [j \in i..(n - 1) |-> C[j]]
<1>6. Chain(t, v, op, rest, i, D)
  <2>1. D \in [i..(n - 1) -> SUBSET Nat]
    BY <1>1, <1>3 DEF Chain
  <2>2. ASSUME NEW j \in (i + 1)..(n - 1), NEW d \in D[j]
        PROVE  Arrives(t, v, op, rest[j], d, D[j - 1])
    <3>1. j \in (i + 1)..n /\ D[j] = C[j] /\ D[j - 1] = C[j - 1] /\ rest[j] = todo[j]
      BY <1>1, <1>2
    <3> HIDE DEF D, rest
    <3> QED
      BY <1>3, <2>2, <3>1 DEF Chain
  <2> HIDE DEF D, rest
  <2> QED
    BY <1>2, <2>1, <2>2 DEF Chain
<1>7. m \in D[n - 1] /\ D[i] \subseteq ends
  BY <1>1, <1>3, <1>5
<1> HIDE DEF D, rest
<1> QED
  BY <1>2, <1>6, <1>7 DEF Reach, rest

\* the last block is gone through to its next statement
LEMMA ReachNext ==
  ASSUME NEW t, TextOK(t), NEW v, NEW op, NEW todo, TodoOK(t, todo), NEW i \in 1..(Len(todo) - 1),
         NEW m, NEW ends, Reach(t, v, op, todo, i, m, ends),
         NEW k \in 1..Len(t), k = todo[Len(todo)], t[k].is # "leave"
  PROVE  /\ MovesAt(t, v, op, k) # BAD /\ m \in Nat
         /\ MovesAt(t, v, op, k) \subseteq {0, 1}
         /\ \A x \in MovesAt(t, v, op, k) :
              Reach(t, v, op, [todo EXCEPT ![Len(todo)] = t[k].next], i, m + x, ends)
<1> DEFINE n == Len(todo)
           rest == [todo EXCEPT ![n] = t[k].next]
<1>1. n \in Nat /\ n > 1
  BY DEF TodoOK
<1>2. /\ Len(rest) = n /\ rest[n] = t[k].next
      /\ \A j \in 1..(n - 1) : rest[j] = todo[j]
  BY <1>1 DEF TodoOK
<1>3. PICK C : Chain(t, v, op, todo, i, C) /\ m \in C[n] /\ C[i] \subseteq ends
  BY DEF Reach
<1>4. Arrives(t, v, op, k, m, C[n - 1])
  <2>1. n \in (i + 1)..n
    BY <1>1
  <2> QED
    BY <1>3, <2>1 DEF Chain
<1>5. m \in Nat
  <2>1. n \in i..n
    BY <1>1
  <2> QED
    BY <1>3, <2>1 DEF Chain
<1>6. /\ MovesAt(t, v, op, k) # BAD
      /\ MovesAt(t, v, op, k) \subseteq {0, 1}
      /\ \A x \in MovesAt(t, v, op, k) : Arrives(t, v, op, t[k].next, m + x, C[n - 1])
  BY <1>4, ArrivesNext
<1>7. ASSUME NEW x \in MovesAt(t, v, op, k) PROVE Reach(t, v, op, rest, i, m + x, ends)
  <2> DEFINE D == [j \in i..n |-> IF j = n THEN {m + x} ELSE C[j]]
  <2>0. m + x \in Nat
    BY <1>5, <1>6
  <2>1. D \in [i..n -> SUBSET Nat]
    BY <1>3, <2>0 DEF Chain
  <2>2. ASSUME NEW j \in (i + 1)..n, NEW d \in D[j]
        PROVE  Arrives(t, v, op, rest[j], d, D[j - 1])
    <3>1. D[j - 1] = C[j - 1]
      BY <1>1
    <3>2. CASE j = n
      <4>1. d = m + x
        BY <2>2, <3>2 DEF From
      <4> HIDE DEF D, rest
      <4> QED
        BY <1>2, <1>6, <3>1, <3>2, <4>1
    <3>3. CASE j # n
      <4>1. D[j] = C[j]
        BY <1>1, <3>3
      <4>2. rest[j] = todo[j]
        <5> HIDE DEF rest, D
        <5> QED
          BY <1>1, <1>2, <3>3
      <4> HIDE DEF D, rest
      <4> QED
        BY <1>3, <2>2, <3>1, <4>1, <4>2 DEF Chain
    <3> QED
      BY <3>2, <3>3
  <2>3. m + x \in D[n] /\ D[i] \subseteq ends
    BY <1>1, <1>3
  <2> HIDE DEF D, rest
  <2> QED
    BY <1>2, <2>1, <2>2, <2>3 DEF Chain, Reach
<1> QED
  BY <1>5, <1>6, <1>7

\* and with a block put after it
LEMMA ReachPush ==
  ASSUME NEW t, NEW v, NEW op, NEW todo \in Seq(Nat), NEW i \in 1..Len(todo),
         NEW C, Chain(t, v, op, todo, i, C), NEW ends, C[i] \subseteq ends,
         NEW b, NEW m \in Nat, Arrives(t, v, op, b, m, C[Len(todo)])
  PROVE  Reach(t, v, op, Append(todo, b), i, m, ends)
<1> DEFINE n == Len(todo)
           more == Append(todo, b)
           D == [j \in i..(n + 1) |-> IF j = n + 1 THEN {m} ELSE C[j]]
<1>1. n \in Nat
  OBVIOUS
<1>2. /\ Len(more) = n + 1 /\ more[n + 1] = b
      /\ \A j \in 1..n : more[j] = todo[j]
  OBVIOUS
<1>3. D \in [i..(n + 1) -> SUBSET Nat]
  BY <1>1 DEF Chain
<1>4. ASSUME NEW j \in (i + 1)..(n + 1), NEW d \in D[j]
      PROVE  Arrives(t, v, op, more[j], d, D[j - 1])
  <2>1. D[j - 1] = C[j - 1]
    BY <1>1
  <2>2. CASE j = n + 1
    <3>1. d = m /\ D[j - 1] = C[n]
      BY <1>1, <1>4, <2>1, <2>2
    <3> HIDE DEF D, more
    <3> QED
      BY <1>2, <2>2, <3>1
  <2>3. CASE j # n + 1
    <3>1. j \in (i + 1)..n /\ D[j] = C[j] /\ more[j] = todo[j]
      BY <1>1, <1>2, <2>3
    <3> HIDE DEF D, more
    <3> QED
      BY <1>4, <2>1, <3>1 DEF Chain
  <2> QED
    BY <2>2, <2>3
<1>5. m \in D[n + 1] /\ D[i] \subseteq ends
  BY <1>1
<1> HIDE DEF D, more
<1> QED
  BY <1>2, <1>3, <1>4, <1>5 DEF Chain, Reach, more

\* an arm is gone into
LEMMA ReachArm ==
  ASSUME NEW t, TextOK(t), NEW v, NEW op, NEW todo, TodoOK(t, todo), NEW i \in 1..(Len(todo) - 1),
         NEW m, NEW ends, Reach(t, v, op, todo, i, m, ends),
         NEW k \in 1..Len(t), k = todo[Len(todo)], t[k].is \in {"if", "check"},
         NEW arm \in {t[k].then, t[k].else}
  PROVE  Reach(t, v, op, Append([todo EXCEPT ![Len(todo)] = t[k].next], arm), i, m, ends)
<1> DEFINE n == Len(todo)
           mv == MovesAt(t, v, op, k)
           rest == [todo EXCEPT ![n] = t[k].next]
<1>1. n \in Nat /\ n > 1
  BY DEF TodoOK
<1>2. /\ rest \in Seq(Nat) /\ Len(rest) = n /\ rest[n] = t[k].next
      /\ \A j \in 1..(n - 1) : rest[j] = todo[j]
  BY <1>1 DEF TodoOK, TextOK
<1>3. PICK C : Chain(t, v, op, todo, i, C) /\ m \in C[n] /\ C[i] \subseteq ends
  BY DEF Reach
<1>4. Arrives(t, v, op, k, m, C[n - 1])
  <2>1. n \in (i + 1)..n
    BY <1>1
  <2> QED
    BY <1>3, <2>1 DEF Chain
<1>5. m \in Nat
  <2>1. n \in i..n
    BY <1>1
  <2> QED
    BY <1>3, <2>1 DEF Chain
<1>6. /\ mv # BAD
      /\ mv \subseteq {0, 1}
      /\ \A x \in mv : Arrives(t, v, op, t[k].next, m + x, C[n - 1])
  BY <1>4, ArrivesNext
<1>7. Arrives(t, v, op, arm, m, From(m, mv))
  BY <1>5, <1>6, ArrivesArm
<1> HIDE DEF mv
<1> DEFINE D == [j \in i..n |-> IF j = n THEN From(m, mv) ELSE C[j]]
<1>8. Chain(t, v, op, rest, i, D)
  <2>1. D \in [i..n -> SUBSET Nat]
    <3>1. From(m, mv) \in SUBSET Nat
      BY <1>5, <1>6 DEF From
    <3> QED
      BY <1>3, <3>1 DEF Chain
  <2>2. ASSUME NEW j \in (i + 1)..n, NEW d \in D[j]
        PROVE  Arrives(t, v, op, rest[j], d, D[j - 1])
    <3>1. D[j - 1] = C[j - 1]
      BY <1>1
    <3>2. CASE j = n
      <4>1. PICK x \in mv : d = m + x
        BY <2>2, <3>2 DEF From
      <4> HIDE DEF D, rest
      <4> QED
        BY <1>2, <1>6, <3>1, <3>2, <4>1
    <3>3. CASE j # n
      <4>1. D[j] = C[j]
        BY <1>1, <3>3
      <4>2. rest[j] = todo[j]
        <5> HIDE DEF rest, D
        <5> QED
          BY <1>1, <1>2, <3>3, SMTT(30)
      <4> HIDE DEF D, rest
      <4> QED
        BY <1>3, <2>2, <3>1, <4>1, <4>2 DEF Chain
    <3> QED
      BY <3>2, <3>3
  <2> HIDE DEF D, rest
  <2> QED
    BY <1>2, <2>1, <2>2 DEF Chain
<1>9. D[n] = From(m, mv) /\ D[i] \subseteq ends
  BY <1>1, <1>3
<1> HIDE DEF D, rest
<1>10. i \in 1..Len(rest) /\ Arrives(t, v, op, arm, m, D[Len(rest)])
  BY <1>2, <1>7, <1>9
<1>11. Reach(t, v, op, Append(rest, arm), i, m, ends)
  BY <1>2, <1>5, <1>8, <1>9, <1>10, ReachPush
<1> QED
  BY <1>11 DEF rest

\* a loop inside, which leaves the name alone
LEMMA ReachBody ==
  ASSUME NEW t, TextOK(t), NEW v, NEW op, NEW todo, TodoOK(t, todo), NEW i \in 1..(Len(todo) - 1),
         NEW m, NEW ends, Reach(t, v, op, todo, i, m, ends),
         NEW k \in 1..Len(t), k = todo[Len(todo)], t[k].is = "while"
  PROVE  Reach(t, v, op, Append(todo, t[k].then), i, m, ends)
<1> DEFINE n == Len(todo)
<1>1. n \in Nat /\ n > 1 /\ todo \in Seq(Nat)
  BY DEF TodoOK
<1>2. PICK C : Chain(t, v, op, todo, i, C) /\ m \in C[n] /\ C[i] \subseteq ends
  BY DEF Reach
<1>3. MovesAt(t, v, op, k) # BAD /\ m \in Nat
  BY ReachNext
<1>4. ~Bound(t, t[k].then, v) /\ t[k].then \in 0..Len(t)
  BY <1>3, MovesOf DEF TextOK
<1>5. Arrives(t, v, op, t[k].then, m, C[n])
  BY <1>2, <1>3, <1>4, ArrivesUnmoved
<1>6. i \in 1..n
  BY <1>1
<1> QED
  BY <1>1, <1>2, <1>3, <1>5, <1>6, ReachPush

\* a loop that begins a turn
LEMMA ReachTurn ==
  ASSUME NEW t, TextOK(t), NEW v, NEW op, NEW todo, TodoOK(t, todo),
         NEW b \in 0..Len(t), Along(t, v, op)[b][{0}] # BAD
  PROVE  Reach(t, v, op, Append(todo, b), Len(todo), 0, Along(t, v, op)[b][{0}])
<1> DEFINE n == Len(todo)
           ends == Along(t, v, op)[b][{0}]
           C == [j \in n..n |-> ends]
<1>1. n \in Nat /\ n >= 1 /\ todo \in Seq(Nat)
  BY DEF TodoOK
<1>2. ends \in SUBSET Nat
  <2>1. {0} \in SUBSET {0, 1}
    OBVIOUS
  <2>2. ends \in Ways
    BY <2>1, AlongStep
  <2> QED
    BY <2>2 DEF Ways, BAD
<1>3. Arrives(t, v, op, b, 0, ends)
  BY ArrivesBody
<1> HIDE DEF ends
<1>4. Chain(t, v, op, todo, n, C) /\ C[n] = ends
  <2>1. C \in [n..n -> SUBSET Nat]
    BY <1>2
  <2>3. n \in n..n
    BY <1>1
  <2>4. C[n] = ends
    BY <2>3
  <2>2. (n + 1)..n = {}
    BY <1>1
  <2> HIDE DEF C
  <2> QED
    BY <2>1, <2>2, <2>4 DEF Chain
<1> HIDE DEF C
<1>5. n \in 1..n /\ 0 \in Nat /\ C[n] \subseteq ends /\ Arrives(t, v, op, b, 0, C[n])
  BY <1>1, <1>3, <1>4
<1>6. Reach(t, v, op, Append(todo, b), n, 0, ends)
  BY <1>1, <1>4, <1>5, ReachPush
<1> QED
  BY <1>6 DEF ends

-----------------------------------------------------------------------------
(* Expressions and conditions *)

Ops == {"<", "<=", ">", ">="}

\* the kinds of atom
LEMMA AtomKinds ==
  ASSUME NEW a \in Atoms
  PROVE  \/ a[1] \in {"num", "list"} /\ a[2] \in Int
         \/ a[1] \in {"var", "len", "push"} /\ a[2] \in Names
BY DEF Atoms

\* the kinds of expression
LEMMA ExprKinds ==
  ASSUME NEW e \in Exprs
  PROVE  \/ e \in Atoms
         \/ e[1] \in {"+", "-"} /\ e[2] \in Atoms /\ e[3] \in Atoms
         \/ e[1] \in {"read", "get", "true", "false"}
BY DEF Exprs

\* what a comparison has
LEMMA CondKinds ==
  ASSUME NEW c \in Conds, c[1] = "cmp"
  PROVE  c[2] \in Ops /\ c[3] \in Exprs /\ c[4] \in Exprs
BY DEF Conds, Ops

\* what a statement has
LEMMA StatementFacts ==
  ASSUME NEW t, TextOK(t), NEW k \in 1..Len(t)
  PROVE  /\ t[k].is \in {"let", "set", "op", "call", "if", "check", "while", "leave"}
         /\ t[k].x \in Names /\ t[k].e \in Exprs /\ t[k].conds \in Seq(Conds)
         /\ t[k].then \in 0..Len(t) /\ t[k].else \in 0..Len(t) /\ t[k].next \in 0..Len(t)
<1>1. t[k] \in Statements
  BY DEF TextOK
<1>2. t[k].then \in 0..Len(t) /\ t[k].else \in 0..Len(t) /\ t[k].next \in 0..Len(t)
  BY DEF TextOK
<1> QED
  BY <1>1, <1>2 DEF Statements

\* _const_int gives a number or nothing
LEMMA ConstIntType ==
  ASSUME NEW e \in Exprs, NEW known \in Known
  PROVE  ConstInt(e, known) \in Int \union {None}
<1>1. ASSUME NEW a \in Atoms PROVE AtomInt(a, known) \in Int \union {None}
  BY AtomKinds DEF AtomInt, Known
<1>2. CASE e \in Atoms
  <2>1. e[1] \notin {"+", "-"}
    BY <1>2, AtomKinds
  <2> QED
    BY <1>1, <1>2, <2>1 DEF ConstInt
<1>3. CASE e[1] \in {"+", "-"} /\ e[2] \in Atoms /\ e[3] \in Atoms
  <2>1. AtomInt(e[2], known) \in Int \union {None} /\ AtomInt(e[3], known) \in Int \union {None}
    BY <1>1, <1>3
  <2> QED
    BY <1>3, <2>1, LoopsAssumption DEF ConstInt
<1>4. CASE e[1] \in {"read", "get", "true", "false"}
  BY <1>4 DEF ConstInt, AtomInt
<1> QED
  BY <1>2, <1>3, <1>4, ExprKinds

\* a counter is a side of a comparison in the condition
LEMMA CounterFacts ==
  ASSUME NEW conds \in Seq(Conds), NEW t, NEW b, NEW p \in Counters(conds, t, b)
  PROVE  /\ p[1] \in 1..Len(conds) /\ p[2] \in {1, 2} /\ conds[p[1]][1] = "cmp"
         /\ Side(conds[p[1]], p[2]).v[1] = "var"
         /\ Side(conds[p[1]], p[2]).v[2] \in Names
         /\ Side(conds[p[1]], p[2]).op \in Ops
         /\ Side(conds[p[1]], p[2]).limit \in Exprs
<1> DEFINE d == conds[p[1]]
           c == Side(d, p[2])
<1>1. /\ p[1] \in 1..Len(conds) /\ p[2] \in {1, 2} /\ d[1] = "cmp" /\ c.v[1] = "var"
  BY DEF Counters
<1>2. d \in Conds
  BY <1>1
<1>3. d[2] \in Ops /\ d[3] \in Exprs /\ d[4] \in Exprs
  BY <1>1, <1>2, CondKinds
<1>4. \A o \in Ops : FLIP[o] \in Ops
  BY DEF FLIP, Ops
<1> HIDE DEF d
<1>5. c.v \in Exprs /\ c.op \in Ops /\ c.limit \in Exprs
  BY <1>1, <1>3, <1>4 DEF Side
<1>6. c.v[2] \in Names
  BY <1>1, <1>5, ExprKinds, AtomKinds
<1> QED
  BY <1>1, <1>5, <1>6 DEF d

\* the turns one counter allows are a number
LEMMA TurnsByType ==
  ASSUME NEW conds \in Seq(Conds), NEW t, NEW b, NEW p \in Counters(conds, t, b),
         NEW known \in Known, NEW unchanged \in Known
  PROVE  TurnsBy(Side(conds[p[1]], p[2]), t, b, known, unchanged) \subseteq Nat
<1> DEFINE c == Side(conds[p[1]], p[2])
           start == known[c.v[2]]
           limit == ConstInt(c.limit, unchanged)
<1>1. c.v[2] \in Names /\ c.limit \in Exprs
  BY CounterFacts
<1>2. start \in Int \union {None} /\ limit \in Int \union {None}
  BY <1>1, ConstIntType DEF Known
<1>3. None \notin {start, limit} => Apart(c.op, start, limit) \in Int
  <2> HIDE DEF start, limit, c
  <2> QED
    BY <1>2 DEF Apart
<1> DEFINE turns == Apart(c.op, start, limit)
<1>4. None \notin {start, limit} => {IF turns > 0 THEN turns ELSE 0} \subseteq Nat
  <2> HIDE DEF turns
  <2>1. turns \in Int => (IF turns > 0 THEN turns ELSE 0) \in Nat
    OBVIOUS
  <2> QED
    BY <1>3, <2>1 DEF turns
<1> DEFINE steps == Along(t, c.v[2], c.op)[b][{0}]
<1>5. TurnsBy(c, t, b, known, unchanged) =
        CASE steps = {} -> {1}
          [] steps = {1} /\ None \notin {start, limit} -> {IF turns > 0 THEN turns ELSE 0}
          [] OTHER -> {}
  BY DEF TurnsBy
<1> HIDE DEF start, limit, c, turns, steps
<1>6. TurnsBy(c, t, b, known, unchanged) \subseteq Nat
  BY <1>4, <1>5
<1> QED
  BY <1>6 DEF c

\* forget gives what is known of names
LEMMA ForgetType ==
  ASSUME NEW known \in Known, NEW t, NEW b
  PROVE  Forget(known, t, b) \in Known
BY DEF Forget, Known

\* _turns is without a bound, or the number one of the counters allows
LEMMA TurnsAre ==
  ASSUME NEW conds \in Seq(Conds), NEW t, NEW b, NEW known \in Known
  PROVE  /\ Turns(conds, t, b, known) \in Nat \union {Inf}
         /\ \/ Turns(conds, t, b, known) = Inf
            \/ \E p \in Counters(conds, t, b) :
                 Turns(conds, t, b, known) \in
                   TurnsBy(Side(conds[p[1]], p[2]), t, b, known, Forget(known, t, b))
<1> DEFINE ps == Counters(conds, t, b)
           By(p) == TurnsBy(Side(conds[p[1]], p[2]), t, b, known, Forget(known, t, b))
           all == UNION {By(p) : p \in ps}
<1>1. Turns(conds, t, b, known) = Fewest(all)
  BY DEF Turns
<1>2. ASSUME NEW p \in ps PROVE By(p) \subseteq Nat
  BY TurnsByType, ForgetType
<1> HIDE DEF By, ps
<1>3. all \in SUBSET Nat
  BY <1>2
<1>4. CASE all = {}
  <2> HIDE DEF all
  <2> QED
    BY <1>1, <1>4 DEF Fewest
<1>5. CASE all # {}
  <2>1. Turns(conds, t, b, known) = Min(all)
    <3> HIDE DEF all
    <3> QED
      BY <1>1, <1>5 DEF Fewest
  <2>2. Min(all) \in all
    <3> HIDE DEF all
    <3> QED
      BY <1>3, <1>5, MinIn
  <2>3. \E p \in ps : Turns(conds, t, b, known) \in By(p)
    BY <2>1, <2>2
  <2> QED
    BY <1>3, <2>1, <2>2, <2>3 DEF By, ps
<1> QED
  BY <1>4, <1>5

-----------------------------------------------------------------------------
(* What a block performs *)

\* the operations a condition asks, of all its conjuncts and of the first few
LEMMA AskedType ==
  ASSUME NEW conds \in Seq(Conds)
  PROVE  /\ Asked(conds) \in Nat
         /\ \A i \in 1..Len(conds) :
              Asked(SubSeq(conds, 1, i)) \in Nat /\ Asked(SubSeq(conds, 1, i)) <= Asked(conds)
<1> DEFINE D == {i \in DOMAIN conds : conds[i][1] = "asks"}
<1>1. Len(conds) \in Nat /\ DOMAIN conds = 1..Len(conds)
  OBVIOUS
<1>2. IsFiniteSet(D)
  <2>1. IsFiniteSet(1..Len(conds))
    BY <1>1, FS_Interval
  <2>2. D \subseteq 1..Len(conds)
    BY <1>1
  <2> QED
    BY <2>1, <2>2, FS_Subset
<1>3. Asked(conds) \in Nat
  BY <1>2, FS_CardinalityType DEF Asked
<1>4. ASSUME NEW i \in 1..Len(conds)
      PROVE  Asked(SubSeq(conds, 1, i)) \in Nat /\ Asked(SubSeq(conds, 1, i)) <= Asked(conds)
  <2> DEFINE s == SubSeq(conds, 1, i)
             B == {j \in DOMAIN s : s[j][1] = "asks"}
  <2>1. DOMAIN s = 1..i /\ \A j \in 1..i : s[j] = conds[j]
    BY <1>1
  <2>2. B \subseteq D
    <3> HIDE DEF s
    <3> QED
      BY <1>1, <2>1
  <2>3. IsFiniteSet(B) /\ Cardinality(B) <= Cardinality(D)
    <3> HIDE DEF B, D
    <3> QED
      BY <1>2, <2>2, FS_Subset
  <2>4. Cardinality(B) \in Nat
    BY <2>3, FS_CardinalityType
  <2> QED
    BY <2>3, <2>4 DEF Asked
<1> QED
  BY <1>3, <1>4

\* a sum of bounds is a number only of numbers, and then their sum
LEMMA PlusType ==
  ASSUME NEW a \in Costs, NEW b \in Costs
  PROVE  /\ Plus(a, b) \in Costs
         /\ Plus(a, b) \in Nat => a \in Nat /\ b \in Nat /\ Plus(a, b) = a + b
BY LoopsAssumption DEF Plus, Costs

\* a product of bounds is a number only of numbers, or of nothing times any number of turns
LEMMA TimesType ==
  ASSUME NEW a \in Costs, NEW n \in Nat \union {Inf}
  PROVE  /\ Times(a, n) \in Costs
         /\ Times(a, n) \in Nat => /\ a \in Nat
                                   /\ n = Inf => a = 0
                                   /\ n \in Nat => Times(a, n) = a * n
                                   /\ n = Inf => Times(a, n) = 0
BY LoopsAssumption DEF Times, Costs

\* the larger of two bounds, no nan dropped, is a number only of numbers, and no less than each
LEMMA MostType ==
  ASSUME NEW a \in Costs, NEW b \in Costs, NEW kept \in BOOLEAN
  PROVE  /\ Most(a, b, kept) \in Costs
         /\ Most(a, b, TRUE) \in Nat => a \in Nat /\ b \in Nat /\ a <= Most(a, b, TRUE)
                                          /\ b <= Most(a, b, TRUE)
BY LoopsAssumption DEF Most, More, Costs

\* what a statement performs is a bound
LEMMA PerformedType ==
  ASSUME NEW s, s.conds \in Seq(Conds), NEW turns \in Nat \union {Inf}, NEW then \in Costs,
         NEW else \in Costs, NEW called, s.is = "call" => called \in Costs, NEW kept \in BOOLEAN
  PROVE  Performed(s, turns, then, else, called, kept) \in Costs
<1>1. Asked(s.conds) \in Costs /\ 0 \in Costs /\ 1 \in Costs
  BY AskedType DEF Costs
<1>2. Most(then, else, kept) \in Costs
  BY MostType
<1>3. Plus(Asked(s.conds), Most(then, else, kept)) \in Costs /\ Plus(1, Most(then, else, kept)) \in Costs
  BY <1>1, <1>2, PlusType
<1>4. Plus(turns, 1) \in Nat \union {Inf}
  BY LoopsAssumption DEF Plus
<1>5. Times(Asked(s.conds), Plus(turns, 1)) \in Costs /\ Times(then, turns) \in Costs
  BY <1>1, <1>4, TimesType
<1>6. Plus(Times(Asked(s.conds), Plus(turns, 1)), Times(then, turns)) \in Costs
  BY <1>5, PlusType
<1> QED
  BY <1>1, <1>3, <1>6 DEF Performed

\* what is known inside a statement and after it is of the same names
LEMMA KnownAfter ==
  ASSUME NEW t, TextOK(t), NEW k \in 1..Len(t), NEW known \in Known
  PROVE  Inner(t[k], t, known) \in Known /\ After(t[k], t, known) \in Known
<1>1. t[k].x \in Names /\ t[k].e \in Exprs
  BY StatementFacts
<1>2. ConstInt(t[k].e, known) \in Int \union {None}
  BY <1>1, ConstIntType
<1>3. \A c \in Int \union {None}, K \in Known : [K EXCEPT ![t[k].x] = c] \in Known
  BY <1>1 DEF Known
<1>4. /\ Forget(known, t, t[k].then) \in Known
      /\ Forget(Forget(known, t, t[k].then), t, t[k].else) \in Known
  BY ForgetType
<1> QED
  BY <1>2, <1>3, <1>4 DEF Inner, After

BlockAt(t, calls, kept, b, k) ==
  [known \in Known |->
     IF k = 0 THEN 0
     ELSE LET s == t[k]
              inner == Inner(s, t, known)
          IN  Plus(Performed(s, Turns(s.conds, t, s.then, known), b[s.then][inner],
                             b[s.else][inner], calls[s.x], kept),
                   b[s.next][After(s, t, known)])]

Calls == [Functions -> Costs]

\* block is the function its definition is of
LEMMA BlockAre ==
  ASSUME NEW t, TextOK(t), NEW calls \in Calls, NEW kept \in BOOLEAN
  PROVE  /\ Block(t, calls, kept) \in [0..Len(t) -> [Known -> Costs]]
         /\ \A k \in 0..Len(t) :
              Block(t, calls, kept)[k] = BlockAt(t, calls, kept, Block(t, calls, kept), k)
<1> DEFINE N == Len(t)
           V == [Known -> Costs]
           G == [z \in (0..N) \X [0..N -> V] |-> BlockAt(t, calls, kept, z[2], z[1])]
<1>1. N \in Nat
  BY DEF TextOK
<1>2. ASSUME NEW k \in 0..N, k # 0
      PROVE  t[k].then \in 0..(k - 1) /\ t[k].else \in 0..(k - 1) /\ t[k].next \in 0..(k - 1)
  BY <1>1, <1>2 DEF TextOK
<1>3. ASSUME NEW a, NEW k \in 0..N, \A i \in 0..(k - 1) : a[i] \in V
      PROVE  BlockAt(t, calls, kept, a, k) \in V
  <2>1. CASE k = 0
    BY <2>1 DEF BlockAt, Costs
  <2>2. CASE k # 0
    <3>0. k \in 1..N
      BY <2>2
    <3> SUFFICES ASSUME NEW known \in Known
                 PROVE  Plus(Performed(t[k], Turns(t[k].conds, t, t[k].then, known),
                                       a[t[k].then][Inner(t[k], t, known)],
                                       a[t[k].else][Inner(t[k], t, known)], calls[t[k].x], kept),
                             a[t[k].next][After(t[k], t, known)]) \in Costs
      BY <2>2 DEF BlockAt
    <3>1. Inner(t[k], t, known) \in Known /\ After(t[k], t, known) \in Known
      BY <3>0, KnownAfter
    <3>2. a[t[k].then] \in V /\ a[t[k].else] \in V /\ a[t[k].next] \in V
      BY <1>2, <1>3, <2>2
    <3>3. /\ a[t[k].then][Inner(t[k], t, known)] \in Costs
          /\ a[t[k].else][Inner(t[k], t, known)] \in Costs
          /\ a[t[k].next][After(t[k], t, known)] \in Costs
      BY <3>1, <3>2
    <3>4. t[k].conds \in Seq(Conds)
      BY <3>0, StatementFacts
    <3>5. Turns(t[k].conds, t, t[k].then, known) \in Nat \union {Inf}
      BY <3>4, TurnsAre
    <3>6. t[k].is = "call" => calls[t[k].x] \in Costs
      BY <3>0 DEF TextOK, Calls
    <3> QED
      BY <3>3, <3>4, <3>5, <3>6, PerformedType, PlusType
  <2> QED
    BY <2>1, <2>2
<1>4. ASSUME NEW k \in 0..N, NEW f, NEW g, \A i \in 0..(k - 1) : f[i] = g[i]
      PROVE  BlockAt(t, calls, kept, f, k) = BlockAt(t, calls, kept, g, k)
  <2>1. CASE k = 0
    BY <2>1 DEF BlockAt
  <2>2. CASE k # 0
    <3>1. f[t[k].then] = g[t[k].then] /\ f[t[k].else] = g[t[k].else] /\ f[t[k].next] = g[t[k].next]
      BY <1>2, <1>4, <2>2
    <3> QED
      BY <3>1 DEF BlockAt
  <2> QED
    BY <2>1, <2>2
<1>5. Counts(N, V, G)
  <2>1. ASSUME NEW k \in 0..N, NEW f \in [0..N -> V]
        PROVE  BlockAt(t, calls, kept, f, k) \in V /\ G[<<k, f>>] = BlockAt(t, calls, kept, f, k)
    <3>1. \A i \in 0..(k - 1) : f[i] \in V
      OBVIOUS
    <3>2. BlockAt(t, calls, kept, f, k) \in V
      <4> HIDE DEF V
      <4> QED
        BY <1>3, <3>1
    <3> HIDE DEF V
    <3> QED
      BY <3>2
  <2>2. G \in [(0..N) \X [0..N -> V] -> V]
    <3> HIDE DEF V
    <3> QED
      BY <2>1
  <2> HIDE DEF G, V, N
  <2>3. ASSUME NEW k \in 0..N, NEW f \in [0..N -> V], NEW g \in [0..N -> V],
               \A i \in 0..(k - 1) : f[i] = g[i]
        PROVE  G[<<k, f>>] = G[<<k, g>>]
    <3>1. BlockAt(t, calls, kept, f, k) = BlockAt(t, calls, kept, g, k)
      BY <1>4, <2>3
    <3> QED
      BY <2>1, <3>1
  <2> QED
    BY <2>2, <2>3 DEF Counts
<1>6. V # {}
  <2>1. [K \in Known |-> 0] \in V
    BY DEF Costs
  <2> QED
    BY <2>1
<1>7. \E f : f = [k \in 0..N |-> BlockAt(t, calls, kept, f, k)]
  <2>1. HasFixpoint(0..N, V, G)
    <3> HIDE DEF G, V, N
    <3> QED
      BY <1>1, <1>5, <1>6, Counting
  <2>2. PICK f \in [0..N -> V] : \A k \in 0..N : f[k] = G[<<k, f>>]
    <3> HIDE DEF G, V, N
    <3> QED
      BY <2>1 DEF HasFixpoint
  <2>3. \A k \in 0..N : G[<<k, f>>] = BlockAt(t, calls, kept, f, k)
    <3> HIDE DEF V
    <3> QED
      OBVIOUS
  <2>4. f = [k \in 0..N |-> BlockAt(t, calls, kept, f, k)]
    <3> HIDE DEF G, V, N
    <3> QED
      BY <2>2, <2>3
  <2> QED
    BY <2>4
<1> HIDE DEF G, V, N
<1>8. Block(t, calls, kept) = [k \in 0..N |-> BlockAt(t, calls, kept, Block(t, calls, kept), k)]
  <2>1. Block(t, calls, kept) = CHOOSE f : f = [k \in 0..N |-> BlockAt(t, calls, kept, f, k)]
    BY DEF Block, BlockAt, N
  <2> QED
    BY <1>7, <2>1
<1>9. \A k \in 0..N : Block(t, calls, kept)[k] \in V
  <2> DEFINE A == {k \in 0..N : Block(t, calls, kept)[k] \in V}
  <2>1. ASSUME NEW k \in 0..N, \A i \in 0..(k - 1) : i \in A PROVE k \in A
    <3>1. \A i \in 0..(k - 1) : Block(t, calls, kept)[i] \in V
      BY <2>1
    <3>2. BlockAt(t, calls, kept, Block(t, calls, kept), k) \in V
      BY <1>3, <3>1
    <3> QED
      BY <1>8, <3>2
  <2> HIDE DEF A
  <2>2. \A k \in 0..N : k \in A
    BY <1>1, <2>1, StrongSet
  <2> QED
    BY <2>2 DEF A
<1>10. /\ Block(t, calls, kept) \in [0..N -> V]
       /\ \A k \in 0..N : Block(t, calls, kept)[k] = BlockAt(t, calls, kept, Block(t, calls, kept), k)
  BY <1>8, <1>9
<1> QED
  BY <1>10 DEF N, V

BoundsAt(p, kept, of, active) ==
  [f \in Functions |->
     IF f \in active THEN Inf
     ELSE Block(p.text, of[active \union {f}], kept)[p.body[f]][Nothing]]

\* a set of active functions has one more when a function is called
LEMMA BoundsAre ==
  ASSUME NEW p \in Programs, NEW kept \in BOOLEAN
  PROVE  \A active \in SUBSET Functions :
           /\ Bounds(p, kept)[active] \in Calls
           /\ Bounds(p, kept)[active] = BoundsAt(p, kept, Bounds(p, kept), active)
<1> DEFINE D == SUBSET Functions
           N == Cardinality(Functions)
           h == [A \in D |-> Cardinality(Functions \ A)]
           G == [z \in D \X [D -> Calls] |-> BoundsAt(p, kept, z[2], z[1])]
<1>1. N \in Nat
  BY LoopsAssumption, FS_CardinalityType
<1>2. h \in [D -> 0..N]
  <2>1. ASSUME NEW A \in D PROVE Cardinality(Functions \ A) \in 0..N
    <3>1. IsFiniteSet(Functions \ A) /\ Cardinality(Functions \ A) <= N
      BY LoopsAssumption, FS_Subset
    <3> QED
      BY <1>1, <3>1, FS_CardinalityType
  <2> QED
    BY <2>1
<1>3. ASSUME NEW A \in D, NEW f \in Functions, f \notin A
      PROVE  A \union {f} \in D /\ h[A \union {f}] < h[A]
  <2>1. (Functions \ (A \union {f})) = (Functions \ A) \ {f} /\ f \in Functions \ A
    BY <1>3
  <2>2. IsFiniteSet(Functions \ A)
    BY LoopsAssumption, FS_Subset
  <2>3. Cardinality((Functions \ A) \ {f}) = Cardinality(Functions \ A) - 1
    BY <2>1, <2>2, FS_RemoveElement
  <2>4. Cardinality(Functions \ A) \in Nat
    BY <2>2, FS_CardinalityType
  <2>5. A \union {f} \in D
    OBVIOUS
  <2>6. h[A \union {f}] = Cardinality(Functions \ (A \union {f})) /\ h[A] = Cardinality(Functions \ A)
    BY <2>5
  <2> HIDE DEF h, D
  <2>7. h[A \union {f}] = h[A] - 1
    BY <2>1, <2>3, <2>6, Zenon
  <2>8. h[A] \in Nat
    BY <2>4, <2>6
  <2> QED
    BY <2>5, <2>7, <2>8
<1>4. Nothing \in Known
  BY DEF Nothing, Known
<1>5. TextOK(p.text) /\ p.body \in [Functions -> 0..Len(p.text)]
  BY TextFacts
<1>6. ASSUME NEW A \in D, NEW of, \A B \in D : h[B] < h[A] => of[B] \in Calls
      PROVE  BoundsAt(p, kept, of, A) \in Calls
  <2>1. ASSUME NEW f \in Functions, f \notin A
        PROVE  Block(p.text, of[A \union {f}], kept)[p.body[f]][Nothing] \in Costs
    <3>1. of[A \union {f}] \in Calls
      <4> HIDE DEF h, D
      <4> QED
        BY <1>3, <1>6, <2>1
    <3>2. Block(p.text, of[A \union {f}], kept) \in [0..Len(p.text) -> [Known -> Costs]]
      BY <1>5, <3>1, BlockAre
    <3> QED
      BY <1>4, <1>5, <3>2
  <2> QED
    BY <2>1 DEF BoundsAt, Calls, Costs
<1>7. ASSUME NEW A \in D, NEW f, NEW g, \A B \in D : h[B] < h[A] => f[B] = g[B]
      PROVE  BoundsAt(p, kept, f, A) = BoundsAt(p, kept, g, A)
  <2>1. ASSUME NEW x \in Functions, x \notin A PROVE f[A \union {x}] = g[A \union {x}]
    <3> HIDE DEF h, D
    <3> QED
      BY <1>3, <1>7, <2>1
  <2> QED
    BY <2>1 DEF BoundsAt
<1>8. Recursive(D, Calls, h, G)
  <2>1. ASSUME NEW A \in D, NEW f \in [D -> Calls]
        PROVE  BoundsAt(p, kept, f, A) \in Calls /\ G[<<A, f>>] = BoundsAt(p, kept, f, A)
    <3>1. \A B \in D : h[B] < h[A] => f[B] \in Calls
      <4> HIDE DEF h
      <4> QED
        OBVIOUS
    <3>2. BoundsAt(p, kept, f, A) \in Calls
      BY <1>6, <3>1
    <3> HIDE DEF D
    <3> QED
      BY <3>2
  <2>2. G \in [D \X [D -> Calls] -> Calls]
    <3> HIDE DEF D
    <3> QED
      BY <2>1
  <2> HIDE DEF G, D, h
  <2>3. ASSUME NEW A \in D, NEW f \in [D -> Calls], NEW g \in [D -> Calls],
               \A B \in D : h[B] < h[A] => f[B] = g[B]
        PROVE  G[<<A, f>>] = G[<<A, g>>]
    <3>1. BoundsAt(p, kept, f, A) = BoundsAt(p, kept, g, A)
      BY <1>7, <2>3
    <3> QED
      BY <2>1, <3>1
  <2> QED
    BY <2>2, <2>3 DEF Recursive
<1>9. Calls # {}
  <2>1. [f \in Functions |-> 0] \in Calls
    BY DEF Calls, Costs
  <2> QED
    BY <2>1
<1>10. PICK of \in [D -> Calls] : \A A \in D : of[A] = G[<<A, of>>]
  <2>1. HasFixpoint(D, Calls, G)
    <3> HIDE DEF G, h, D, N
    <3> QED
      BY <1>1, <1>2, <1>8, <1>9, Recursion
  <2> HIDE DEF G, h, D, N
  <2> QED
    BY <2>1 DEF HasFixpoint
<1>11. of = [A \in D |-> BoundsAt(p, kept, of, A)]
  <2>1. \A A \in D : G[<<A, of>>] = BoundsAt(p, kept, of, A)
    <3> HIDE DEF D
    <3> QED
      OBVIOUS
  <2> HIDE DEF D, G
  <2> QED
    BY <1>10, <2>1
<1>12. Bounds(p, kept) = [A \in D |-> BoundsAt(p, kept, Bounds(p, kept), A)]
  <2>1. Bounds(p, kept) = CHOOSE f : f = [A \in D |-> BoundsAt(p, kept, f, A)]
    BY DEF Bounds, BoundsAt
  <2> HIDE DEF D
  <2> QED
    BY <1>11, <2>1
<1>13. \A n \in 0..N : \A A \in D : h[A] = n => Bounds(p, kept)[A] \in Calls
  <2> DEFINE Y == {n \in 0..N : \A A \in D : h[A] = n => Bounds(p, kept)[A] \in Calls}
  <2> HIDE DEF h, D, N, G
  <2>1. ASSUME NEW n \in 0..N, \A i \in 0..(n - 1) : i \in Y PROVE n \in Y
    <3> SUFFICES ASSUME NEW A \in D, h[A] = n PROVE Bounds(p, kept)[A] \in Calls
      OBVIOUS
    <3>1. ASSUME NEW B \in D, h[B] < h[A] PROVE Bounds(p, kept)[B] \in Calls
      <4>1. h[B] \in 0..(n - 1)
        BY <1>1, <1>2, <3>1
      <4> QED
        BY <2>1, <4>1
    <3>2. BoundsAt(p, kept, Bounds(p, kept), A) \in Calls
      BY <1>6, <3>1
    <3> QED
      BY <1>12, <3>2
  <2> HIDE DEF Y
  <2>2. \A n \in 0..N : n \in Y
    BY <1>1, <2>1, StrongSet
  <2> QED
    BY <2>2 DEF Y
<1>14. \A A \in D : h[A] \in 0..N
  BY <1>2
<1> HIDE DEF h, N, G
<1> QED
  BY <1>12, <1>13, <1>14

-----------------------------------------------------------------------------
(* A call at work: what is known of its names is so, and names that are      *)
(* known after a block are not bound in it                                   *)

KnownOf(known, env) == \A x \in Names : known[x] # None => x \in DOMAIN env /\ env[x] = known[x]

Agrees(t, known, todo, env, i) ==
  /\ KnownOf(known, env)
  /\ \A x \in Names : known[x] # None => \A j \in (i + 1)..Len(todo) : ~Bound(t, todo[j], x)

Bind(env, x, v) == [y \in DOMAIN env \union {x} |-> IF y = x THEN v ELSE env[y]]

\* an expression that is known to be a number is that number
LEMMA Evaluates ==
  ASSUME NEW e \in Exprs, NEW known \in Known, NEW env, KnownOf(known, env),
         ConstInt(e, known) # None
  PROVE  /\ ConstInt(e, known) \in Int /\ Val(e, env) = ConstInt(e, known)
         /\ Values(e, env) = {Val(e, env)}
<1>1. ASSUME NEW a \in Atoms, AtomInt(a, known) # None
      PROVE  AtomInt(a, known) \in Int /\ AtomVal(a, env) = AtomInt(a, known)
  <2>1. CASE a[1] \in {"num", "list"} /\ a[2] \in Int
    BY <2>1 DEF AtomInt, AtomVal
  <2>2. CASE a[1] \in {"var", "len"} /\ a[2] \in Names
    <3>1. AtomInt(a, known) = known[a[2]] /\ AtomVal(a, env) = env[a[2]]
      BY <2>2 DEF AtomInt, AtomVal
    <3> QED
      BY <1>1, <2>2, <3>1 DEF KnownOf, Known
  <2>3. CASE a[1] = "push"
    BY <1>1, <2>3 DEF AtomInt
  <2> QED
    BY <2>1, <2>2, <2>3, AtomKinds
<1>2. CASE e \in Atoms
  <2>1. e[1] \in {"num", "list", "var", "len", "push"}
    BY <1>2, AtomKinds
  <2>2. ConstInt(e, known) = AtomInt(e, known) /\ Val(e, env) = AtomVal(e, env)
    BY <2>1 DEF ConstInt, Val
  <2>3. Values(e, env) = {Val(e, env)}
    BY <2>1 DEF Values
  <2> QED
    BY <1>1, <1>2, <2>2, <2>3
<1>3. CASE e[1] \in {"+", "-"} /\ e[2] \in Atoms /\ e[3] \in Atoms
  <2>1. AtomInt(e[2], known) # None /\ AtomInt(e[3], known) # None
    BY <1>3 DEF ConstInt
  <2>2. /\ AtomInt(e[2], known) \in Int /\ AtomVal(e[2], env) = AtomInt(e[2], known)
        /\ AtomInt(e[3], known) \in Int /\ AtomVal(e[3], env) = AtomInt(e[3], known)
    BY <1>1, <1>3, <2>1
  <2>3. ConstInt(e, known) \in Int /\ Val(e, env) = ConstInt(e, known)
    BY <1>3, <2>1, <2>2 DEF ConstInt, Val
  <2>4. Values(e, env) = {Val(e, env)}
    BY <1>3 DEF Values
  <2> QED
    BY <2>3, <2>4
<1>4. CASE e[1] \in {"read", "get", "true", "false"}
  BY <1>4 DEF ConstInt, AtomInt
<1> QED
  BY <1>2, <1>3, <1>4, ExprKinds

\* a condition that holds has turns left to the limit
LEMMA HoldsApart ==
  ASSUME NEW op \in Ops, NEW value \in Int, NEW limit \in Int
  PROVE  /\ Apart(op, value, limit) \in Int
         /\ Holds(op, value, limit) = TRUE => Apart(op, value, limit) > 0
         /\ Holds(op, limit, value) = TRUE => Apart(FLIP[op], value, limit) > 0
<1>1. /\ FLIP["<"] = ">" /\ FLIP["<="] = ">=" /\ FLIP[">"] = "<" /\ FLIP[">="] = "<="
  BY DEF FLIP
<1>2. CASE op = "<"
  BY <1>1, <1>2 DEF Apart, Holds
<1>3. CASE op = "<="
  BY <1>1, <1>3 DEF Apart, Holds
<1>4. CASE op = ">"
  BY <1>1, <1>4 DEF Apart, Holds
<1>5. CASE op = ">="
  BY <1>1, <1>5 DEF Apart, Holds
<1> QED
  BY <1>2, <1>3, <1>4, <1>5 DEF Ops

\* and a step takes one
LEMMA StepApart ==
  ASSUME NEW op \in Ops, NEW e, NEW v, IsStep(e, v, op), NEW env, env[v] \in Int,
         NEW new \in Values(e, env)
  PROVE  new \in Int /\ \A l \in Int : Apart(op, new, l) + 1 = Apart(op, env[v], l)
<1>1. CASE op \in {"<", "<="}
  <2>1. e = <<"+", <<"var", v>>, <<"num", 1>>>>
    BY <1>1 DEF IsStep
  <2>2. e[1] = "+" /\ e[2][1] = "var" /\ e[2][2] = v /\ e[3][1] = "num" /\ e[3][2] = 1
    BY <2>1
  <2>3. Values(e, env) = {Val(e, env)}
    BY <2>2 DEF Values
  <2>4. Val(e, env) = env[v] + 1
    BY <2>2 DEF Val, AtomVal
  <2>5. new = env[v] + 1
    BY <2>3, <2>4
  <2> QED
    BY <1>1, <2>5 DEF Apart
<1>2. CASE op \in {">", ">="}
  <2>1. e = <<"-", <<"var", v>>, <<"num", 1>>>>
    BY <1>2 DEF IsStep
  <2>2. e[1] = "-" /\ e[2][1] = "var" /\ e[2][2] = v /\ e[3][1] = "num" /\ e[3][2] = 1
    BY <2>1
  <2>3. Values(e, env) = {Val(e, env)}
    BY <2>2 DEF Values
  <2>4. Val(e, env) = env[v] - 1
    BY <2>2 DEF Val, AtomVal
  <2>5. new = env[v] - 1
    BY <2>3, <2>4
  <2> QED
    BY <1>2, <2>5 DEF Apart
<1> QED
  BY <1>1, <1>2 DEF Ops

-----------------------------------------------------------------------------
(* What a step leaves as it was for the blocks below the one that it is of   *)

\* a turn of the loop i goes on, v as far as it was from any limit
TurnKept(t, v, op, todo, env, todo2, env2, i) ==
  \A m, ends : Reach(t, v, op, todo, i, m, ends) =>
    \E m2 \in Nat :
      /\ Reach(t, v, op, todo2, i, m2, ends)
      /\ v \in DOMAIN env /\ env[v] \in Int =>
           /\ v \in DOMAIN env2 /\ env2[v] \in Int
           /\ \A l \in Int : Apart(op, env2[v], l) + m2 = Apart(op, env[v], l) + m

Moved(t, todo, env, todo2, env2) ==
  /\ TodoOK(t, todo2) /\ Len(todo2) >= Len(todo) - 1
  /\ \A i \in 1..(Len(todo) - 1) : todo2[i] = todo[i]
  /\ \A x \in Names : ~Bound(t, todo[Len(todo)], x) =>
       /\ x \in DOMAIN env => x \in DOMAIN env2 /\ env2[x] = env[x]
       /\ \A j \in Len(todo)..Len(todo2) : ~Bound(t, todo2[j], x)
  /\ \A v \in Names, op \in Ops : \A i \in 1..(Len(todo) - 1) :
       TurnKept(t, v, op, todo, env, todo2, env2, i)

\* the moves that were made are a number
LEMMA ReachNat ==
  ASSUME NEW t, NEW v, NEW op, NEW todo, TodoOK(t, todo), NEW i \in 1..Len(todo), NEW m, NEW ends,
         Reach(t, v, op, todo, i, m, ends)
  PROVE  m \in Nat
<1>1. PICK C : Chain(t, v, op, todo, i, C) /\ m \in C[Len(todo)]
  BY DEF Reach
<1>2. Len(todo) \in i..Len(todo)
  BY DEF TodoOK
<1> QED
  BY <1>1, <1>2 DEF Chain

\* the blocks to run, with the last gone on to its next statement or another after it
LEMMA RestOK ==
  ASSUME NEW t, TextOK(t), NEW todo, TodoOK(t, todo), NEW k \in 1..Len(t), k = todo[Len(todo)]
  PROVE  LET n == Len(todo)
             rest == [todo EXCEPT ![n] = t[k].next]
         IN  /\ n \in Nat /\ n >= 1 /\ TodoOK(t, rest) /\ Len(rest) = n
             /\ rest[n] = t[k].next /\ \A i \in 1..(n - 1) : rest[i] = todo[i]
             /\ \A arm \in 0..Len(t) :
                  /\ TodoOK(t, Append(rest, arm)) /\ Len(Append(rest, arm)) = n + 1
                  /\ Append(rest, arm)[n + 1] = arm /\ Append(rest, arm)[n] = t[k].next
                  /\ \A i \in 1..(n - 1) : Append(rest, arm)[i] = todo[i]
                  /\ TodoOK(t, Append(todo, arm)) /\ Len(Append(todo, arm)) = n + 1
                  /\ Append(todo, arm)[n + 1] = arm
                  /\ \A i \in 1..n : Append(todo, arm)[i] = todo[i]
<1> DEFINE n == Len(todo)
           rest == [todo EXCEPT ![n] = t[k].next]
<1>1. n \in Nat /\ n >= 1 /\ todo \in Seq(0..Len(t))
  BY DEF TodoOK
<1>2. t[k].next \in 0..Len(t)
  BY StatementFacts
<1>3. /\ rest \in Seq(0..Len(t)) /\ Len(rest) = n
      /\ rest[n] = t[k].next /\ \A i \in 1..(n - 1) : rest[i] = todo[i]
  BY <1>1, <1>2
<1>4. TodoOK(t, rest)
  BY <1>1, <1>3 DEF TodoOK
<1> HIDE DEF rest
<1>5. ASSUME NEW arm \in 0..Len(t)
      PROVE  /\ TodoOK(t, Append(rest, arm)) /\ Len(Append(rest, arm)) = n + 1
             /\ Append(rest, arm)[n + 1] = arm /\ Append(rest, arm)[n] = t[k].next
             /\ \A i \in 1..(n - 1) : Append(rest, arm)[i] = todo[i]
  <2>1. /\ Append(rest, arm) \in Seq(0..Len(t)) /\ Len(Append(rest, arm)) = n + 1
        /\ Append(rest, arm)[n + 1] = arm
    BY <1>1, <1>3
  <2>2. \A i \in 1..n : Append(rest, arm)[i] = rest[i]
    BY <1>1, <1>3
  <2> QED
    BY <1>1, <1>3, <2>1, <2>2 DEF TodoOK
<1>6. ASSUME NEW arm \in 0..Len(t)
      PROVE  /\ TodoOK(t, Append(todo, arm)) /\ Len(Append(todo, arm)) = n + 1
             /\ Append(todo, arm)[n + 1] = arm
             /\ \A i \in 1..n : Append(todo, arm)[i] = todo[i]
  BY <1>1 DEF TodoOK
<1> QED
  BY <1>1, <1>3, <1>4, <1>5, <1>6 DEF rest

\* a statement without arms moves a call as Moved says
LEMMA MovedRest ==
  ASSUME NEW t, TextOK(t), NEW todo, TodoOK(t, todo), NEW k \in 1..Len(t), k = todo[Len(todo)],
         NEW env, NEW env2,
         \/ t[k].is \in {"op", "call", "while"} /\ env2 = env
         \/ /\ t[k].is \in {"let", "set"}
            /\ \E new \in Values(t[k].e, env) : env2 = Bind(env, t[k].x, new)
  PROVE  Moved(t, todo, env, [todo EXCEPT ![Len(todo)] = t[k].next], env2)
<1> DEFINE n == Len(todo)
           rest == [todo EXCEPT ![n] = t[k].next]
<1>1. /\ n \in Nat /\ n >= 1 /\ TodoOK(t, rest) /\ Len(rest) = n
      /\ rest[n] = t[k].next /\ \A i \in 1..(n - 1) : rest[i] = todo[i]
  BY RestOK
<1>2. ASSUME NEW x \in Names, ~Bound(t, k, x)
      PROVE  /\ x \in DOMAIN env => x \in DOMAIN env2 /\ env2[x] = env[x]
             /\ \A j \in n..n : ~Bound(t, rest[j], x)
  <2>1. ~Binds(t[k], x) /\ ~Bound(t, t[k].next, x)
    BY <1>2, BoundFacts
  <2>2. x \in DOMAIN env => x \in DOMAIN env2 /\ env2[x] = env[x]
    BY <2>1 DEF Binds, Bind
  <2>3. \A j \in n..n : j = n
    <3> HIDE DEF n, rest
    <3> QED
      BY <1>1
  <2> HIDE DEF rest
  <2> QED
    BY <1>1, <2>1, <2>2, <2>3
<1>3. ASSUME NEW v \in Names, NEW op \in Ops, NEW i \in 1..(n - 1)
      PROVE  TurnKept(t, v, op, todo, env, rest, env2, i)
  <2> SUFFICES ASSUME NEW m, NEW ends, Reach(t, v, op, todo, i, m, ends)
               PROVE  \E m2 \in Nat :
                        /\ Reach(t, v, op, rest, i, m2, ends)
                        /\ v \in DOMAIN env /\ env[v] \in Int =>
                             /\ v \in DOMAIN env2 /\ env2[v] \in Int
                             /\ \A l \in Int : Apart(op, env2[v], l) + m2 = Apart(op, env[v], l) + m
    BY DEF TurnKept
  <2>1. /\ MovesAt(t, v, op, k) # BAD /\ m \in Nat
        /\ \A x \in MovesAt(t, v, op, k) : Reach(t, v, op, rest, i, m + x, ends)
    <3>1. t[k].is # "leave"
      OBVIOUS
    <3> QED
      BY <3>1, ReachNext
  <2> HIDE DEF rest
  <2>2. CASE t[k].is \in {"op", "call", "while"} /\ env2 = env
    <3>1. MovesAt(t, v, op, k) = {0}
      BY <2>1, <2>2, MovesOf
    <3>2. Reach(t, v, op, rest, i, m + 0, ends)
      BY <2>1, <3>1
    <3>3. m + 0 = m
      BY <2>1
    <3> QED
      BY <2>1, <2>2, <3>2, <3>3
  <2>3. CASE t[k].is \in {"let", "set"} /\ t[k].x # v
    <3>1. MovesAt(t, v, op, k) = {0}
      BY <2>1, <2>3, MovesOf
    <3>2. Reach(t, v, op, rest, i, m + 0, ends)
      BY <2>1, <3>1
    <3>3. m + 0 = m
      BY <2>1
    <3>4. v \in DOMAIN env => v \in DOMAIN env2 /\ env2[v] = env[v]
      BY <2>3 DEF Bind
    <3> QED
      BY <2>1, <3>2, <3>3, <3>4
  <2>4. CASE t[k].is \in {"let", "set"} /\ t[k].x = v
    <3>1. MovesAt(t, v, op, k) = {1} /\ IsStep(t[k].e, v, op)
      BY <2>1, <2>4, MovesOf
    <3>2. Reach(t, v, op, rest, i, m + 1, ends)
      BY <2>1, <3>1
    <3>3. PICK new \in Values(t[k].e, env) : env2 = Bind(env, v, new)
      BY <2>4
    <3>4. v \in DOMAIN env2 /\ env2[v] = new
      BY <3>3 DEF Bind
    <3>5. env[v] \in Int => new \in Int /\ \A l \in Int : Apart(op, new, l) + 1 = Apart(op, env[v], l)
      BY <3>1, StepApart
    <3>6. env[v] \in Int => \A l \in Int : Apart(op, env2[v], l) + (m + 1) = Apart(op, env[v], l) + m
      <4>1. \A l \in Int : env[v] \in Int => Apart(op, new, l) \in Int
        BY <3>5, HoldsApart
      <4> QED
        BY <2>1, <3>4, <3>5, <4>1
    <3>7. m + 1 \in Nat
      BY <2>1
    <3> QED
      BY <3>2, <3>4, <3>5, <3>6, <3>7
  <2> QED
    BY <2>2, <2>3, <2>4
<1> HIDE DEF rest
<1>4. Moved(t, todo, env, rest, env2)
  BY <1>1, <1>2, <1>3 DEF Moved
<1> QED
  BY <1>4 DEF rest

\* and so does one with arms
LEMMA MovedArm ==
  ASSUME NEW t, TextOK(t), NEW todo, TodoOK(t, todo), NEW k \in 1..Len(t), k = todo[Len(todo)],
         NEW env, NEW env2, NEW arm \in {t[k].then, t[k].else},
         \/ t[k].is = "if" /\ env2 = env
         \/ t[k].is = "check" /\ \E new : env2 = Bind(env, t[k].x, new)
  PROVE  Moved(t, todo, env, Append([todo EXCEPT ![Len(todo)] = t[k].next], arm), env2)
<1> DEFINE n == Len(todo)
           more == Append([todo EXCEPT ![n] = t[k].next], arm)
<1>0. arm \in 0..Len(t)
  BY StatementFacts
<1>1. /\ n \in Nat /\ n >= 1 /\ TodoOK(t, more) /\ Len(more) = n + 1
      /\ more[n + 1] = arm /\ more[n] = t[k].next /\ \A i \in 1..(n - 1) : more[i] = todo[i]
  BY <1>0, RestOK
<1>2. ASSUME NEW x \in Names, ~Bound(t, k, x)
      PROVE  /\ x \in DOMAIN env => x \in DOMAIN env2 /\ env2[x] = env[x]
             /\ \A j \in n..(n + 1) : ~Bound(t, more[j], x)
  <2>0. /\ ~Binds(t[k], x) /\ ~Bound(t, t[k].next, x)
        /\ ~Bound(t, t[k].then, x) /\ ~Bound(t, t[k].else, x)
    BY <1>2, BoundFacts
  <2>1. ~Binds(t[k], x) /\ ~Bound(t, t[k].next, x) /\ ~Bound(t, arm, x)
    BY <2>0
  <2>2. x \in DOMAIN env => x \in DOMAIN env2 /\ env2[x] = env[x]
    BY <2>1 DEF Binds, Bind
  <2>3. \A j \in n..(n + 1) : j = n \/ j = n + 1
    BY <1>1
  <2> HIDE DEF more
  <2> QED
    BY <1>1, <2>1, <2>2, <2>3
<1>3. ASSUME NEW v \in Names, NEW op \in Ops, NEW i \in 1..(n - 1)
      PROVE  TurnKept(t, v, op, todo, env, more, env2, i)
  <2> SUFFICES ASSUME NEW m, NEW ends, Reach(t, v, op, todo, i, m, ends)
               PROVE  \E m2 \in Nat :
                        /\ Reach(t, v, op, more, i, m2, ends)
                        /\ v \in DOMAIN env /\ env[v] \in Int =>
                             /\ v \in DOMAIN env2 /\ env2[v] \in Int
                             /\ \A l \in Int : Apart(op, env2[v], l) + m2 = Apart(op, env[v], l) + m
    BY DEF TurnKept
  <2>1. Reach(t, v, op, more, i, m, ends)
    <3>1. t[k].is \in {"if", "check"}
      OBVIOUS
    <3> QED
      BY <3>1, ReachArm
  <2>2. MovesAt(t, v, op, k) # BAD /\ m \in Nat
    <3>1. t[k].is # "leave"
      OBVIOUS
    <3> QED
      BY <3>1, ReachNext
  <2>3. t[k].is = "check" => t[k].x # v
    BY <2>2, MovesOf
  <2>4. v \in DOMAIN env => v \in DOMAIN env2 /\ env2[v] = env[v]
    BY <2>3 DEF Bind
  <2> HIDE DEF more
  <2> QED
    BY <2>1, <2>2, <2>4
<1> HIDE DEF more
<1>4. Moved(t, todo, env, more, env2)
  BY <1>1, <1>2, <1>3 DEF Moved
<1> QED
  BY <1>4 DEF more

\* and so does a turn of a loop that begins
LEMMA MovedBody ==
  ASSUME NEW t, TextOK(t), NEW todo, TodoOK(t, todo), NEW k \in 1..Len(t), k = todo[Len(todo)],
         NEW env, t[k].is = "while"
  PROVE  Moved(t, todo, env, Append(todo, t[k].then), env)
<1> DEFINE n == Len(todo)
           more == Append(todo, t[k].then)
<1>0. t[k].then \in 0..Len(t)
  BY StatementFacts
<1>1. /\ n \in Nat /\ n >= 1 /\ TodoOK(t, more) /\ Len(more) = n + 1
      /\ more[n + 1] = t[k].then /\ \A i \in 1..n : more[i] = todo[i]
  <2>1. todo \in Seq(0..Len(t)) /\ n \in Nat /\ n >= 1
    BY DEF TodoOK
  <2> QED
    BY <1>0, <2>1 DEF TodoOK
<1>2. ASSUME NEW x \in Names, ~Bound(t, k, x)
      PROVE  \A j \in n..(n + 1) : ~Bound(t, more[j], x)
  <2>1. ~Bound(t, t[k].then, x)
    BY <1>2, BoundFacts
  <2>2. \A j \in n..(n + 1) : j = n \/ j = n + 1
    BY <1>1
  <2>3. more[n] = k
    BY <1>1
  <2> HIDE DEF more
  <2> QED
    BY <1>1, <1>2, <2>1, <2>2, <2>3
<1>3. ASSUME NEW v \in Names, NEW op \in Ops, NEW i \in 1..(n - 1)
      PROVE  TurnKept(t, v, op, todo, env, more, env, i)
  <2> SUFFICES ASSUME NEW m, NEW ends, Reach(t, v, op, todo, i, m, ends)
               PROVE  \E m2 \in Nat :
                        /\ Reach(t, v, op, more, i, m2, ends)
                        /\ v \in DOMAIN env /\ env[v] \in Int =>
                             /\ v \in DOMAIN env /\ env[v] \in Int
                             /\ \A l \in Int : Apart(op, env[v], l) + m2 = Apart(op, env[v], l) + m
    BY DEF TurnKept
  <2>1. Reach(t, v, op, more, i, m, ends)
    BY ReachBody
  <2>2. m \in Nat
    <3>1. i \in 1..n
      BY <1>1
    <3> QED
      BY <3>1, ReachNat
  <2> HIDE DEF more
  <2> QED
    BY <2>1, <2>2
<1>4. /\ Len(more) >= n - 1
      /\ \A i \in 1..(n - 1) : more[i] = todo[i]
  <2> HIDE DEF more
  <2> QED
    BY <1>1
<1> HIDE DEF more
<1>5. Moved(t, todo, env, more, env)
  BY <1>1, <1>2, <1>3, <1>4 DEF Moved
<1> QED
  BY <1>5 DEF more

\* and so does a block that ends
LEMMA MovedPop ==
  ASSUME NEW t, TextOK(t), NEW todo, TodoOK(t, todo), Len(todo) > 1, todo[Len(todo)] = 0, NEW env
  PROVE  Moved(t, todo, env, Front(todo), env)
<1> DEFINE n == Len(todo)
           less == Front(todo)
<1>1. /\ n \in Nat /\ n > 1 /\ TodoOK(t, less) /\ Len(less) = n - 1
      /\ \A i \in 1..(n - 1) : less[i] = todo[i]
  BY DEF TodoOK, Front
<1>2. \A j \in n..(n - 1) : FALSE
  BY <1>1
<1>3. ASSUME NEW v \in Names, NEW op \in Ops, NEW i \in 1..(n - 1)
      PROVE  TurnKept(t, v, op, todo, env, less, env, i)
  <2> SUFFICES ASSUME NEW m, NEW ends, Reach(t, v, op, todo, i, m, ends)
               PROVE  \E m2 \in Nat :
                        /\ Reach(t, v, op, less, i, m2, ends)
                        /\ v \in DOMAIN env /\ env[v] \in Int =>
                             /\ v \in DOMAIN env /\ env[v] \in Int
                             /\ \A l \in Int : Apart(op, env[v], l) + m2 = Apart(op, env[v], l) + m
    BY DEF TurnKept
  <2>1. Reach(t, v, op, less, i, m, ends)
    BY ReachPop
  <2>2. m \in Nat
    <3>1. i \in 1..n
      BY <1>1
    <3> QED
      BY <3>1, ReachNat
  <2> HIDE DEF less
  <2> QED
    BY <2>1, <2>2
<1> HIDE DEF less
<1>4. Moved(t, todo, env, less, env)
  BY <1>1, <1>2, <1>3 DEF Moved
<1> QED
  BY <1>4 DEF less

-----------------------------------------------------------------------------
(* A place among the blocks of a call: what its block, or what is left of    *)
(* its loop, performs at most                                                *)

\* r is the turns that are left to a loop at work, and None of a block whose
\* first statement is not begun
Remains == Nat \union {Inf, None}

Price(t, calls, k, known, r) ==
  IF r = None THEN Block(t, calls, TRUE)[k][known]
  ELSE Plus(Plus(Times(Asked(t[k].conds), Plus(r, 1)),
                 Times(Block(t, calls, TRUE)[t[k].then][known], r)),
            Block(t, calls, TRUE)[t[k].next][known])

\* in a turn with m moves made there are no more than r turns to come: the
\* counter is so far from its limit, or no path comes back to the loop
Near(c, ends, known, r, env, m) ==
  \/ ends = {}
  \/ /\ ends = {1} /\ ConstInt(c.limit, known) # None
     /\ c.v[2] \in DOMAIN env /\ env[c.v[2]] \in Int
     /\ Apart(c.op, env[c.v[2]], ConstInt(c.limit, known)) + m <= r + 1

Ends(c, t, b) == Along(t, c.v[2], c.op)[b][{0}]

Counted(t, s, known, r, todo, env, i) ==
  \/ r = Inf
  \/ \E p \in Counters(s.conds, t, s.then) :
       LET c == Side(s.conds[p[1]], p[2])
       IN  \E m : /\ Reach(t, c.v[2], c.op, todo, i, m, Ends(c, t, s.then))
                  /\ Near(c, Ends(c, t, s.then), known, r, env, m)

Place(t, calls, todo, env, known, r, low, high, i) ==
  /\ Price(t, calls, todo[i], known, r) \in Nat
  /\ low + Price(t, calls, todo[i], known, r) <= high
  /\ Agrees(t, known, todo, env, i)
  /\ r # None =>
       /\ todo[i] # 0 /\ t[todo[i]].is = "while"
       /\ \A x \in Names : known[x] # None => ~Bound(t, t[todo[i]].then, x)
       /\ Counted(t, t[todo[i]], known, r, todo, env, i)

\* a place below the last is as it was when the call has moved
LEMMA PlaceKept ==
  ASSUME NEW t, TextOK(t), NEW calls, NEW todo, TodoOK(t, todo), NEW env, NEW todo2, NEW env2,
         Moved(t, todo, env, todo2, env2), NEW i \in 1..(Len(todo) - 1),
         NEW known \in Known, NEW r \in Remains, NEW low, NEW high,
         Place(t, calls, todo, env, known, r, low, high, i)
  PROVE  Place(t, calls, todo2, env2, known, r, low, high, i)
<1> DEFINE n == Len(todo)
<1>1. n \in Nat /\ n > 1 /\ todo \in Seq(0..Len(t))
  BY DEF TodoOK
<1>2. /\ Len(todo2) \in Nat /\ Len(todo2) >= n - 1
      /\ \A j \in 1..(n - 1) : todo2[j] = todo[j]
  BY DEF Moved, TodoOK
<1>3. todo2[i] = todo[i]
  BY <1>2
<1>4. Agrees(t, known, todo2, env2, i)
  <2>1. ASSUME NEW x \in Names, known[x] # None
        PROVE  /\ x \in DOMAIN env2 /\ env2[x] = known[x]
               /\ \A j \in (i + 1)..Len(todo2) : ~Bound(t, todo2[j], x)
    <3>1. x \in DOMAIN env /\ env[x] = known[x] /\ \A j \in (i + 1)..n : ~Bound(t, todo[j], x)
      BY <2>1 DEF Place, Agrees, KnownOf
    <3>2. ~Bound(t, todo[n], x)
      BY <1>1, <3>1
    <3>3. x \in DOMAIN env2 /\ env2[x] = env[x] /\ \A j \in n..Len(todo2) : ~Bound(t, todo2[j], x)
      BY <3>1, <3>2 DEF Moved
    <3>4. ASSUME NEW j \in (i + 1)..Len(todo2) PROVE ~Bound(t, todo2[j], x)
      <4>1. CASE j < n
        <5>1. j \in 1..(n - 1) /\ j \in (i + 1)..n
          BY <1>1, <4>1
        <5> QED
          BY <1>2, <3>1, <5>1
      <4>2. CASE j >= n
        <5>1. j \in n..Len(todo2)
          BY <1>1, <1>2, <4>2
        <5> QED
          BY <3>3, <5>1
      <4> QED
        BY <1>1, <4>1, <4>2
    <3> QED
      BY <3>1, <3>3, <3>4
  <2> QED
    BY <2>1 DEF Agrees, KnownOf
<1>5. ASSUME r # None
      PROVE  Counted(t, t[todo[i]], known, r, todo2, env2, i)
  <2> DEFINE k == todo[i]
             s == t[k]
  <2>1. k # 0 /\ Counted(t, s, known, r, todo, env, i)
    BY <1>5 DEF Place
  <2>2. CASE r = Inf
    BY <2>2 DEF Counted
  <2>3. CASE r # Inf
    <3>0. k \in 1..Len(t) /\ r \in Nat
      BY <1>1, <1>5, <2>1, <2>3 DEF Remains
    <3>1. PICK p \in Counters(s.conds, t, s.then) :
            LET c == Side(s.conds[p[1]], p[2])
            IN  \E m : /\ Reach(t, c.v[2], c.op, todo, i, m, Ends(c, t, s.then))
                       /\ Near(c, Ends(c, t, s.then), known, r, env, m)
      BY <2>1, <2>3 DEF Counted
    <3> DEFINE c == Side(s.conds[p[1]], p[2])
               ends == Ends(c, t, s.then)
               v == c.v[2]
    <3>2. PICK m : Reach(t, v, c.op, todo, i, m, ends) /\ Near(c, ends, known, r, env, m)
      BY <3>1
    <3>3. v \in Names /\ c.op \in Ops /\ c.limit \in Exprs
      <4>1. s.conds \in Seq(Conds)
        BY <3>0, StatementFacts
      <4> QED
        BY <4>1, CounterFacts
    <3>4. m \in Nat
      <4>1. i \in 1..n
        BY <1>1
      <4> HIDE DEF ends, v, c
      <4> QED
        BY <3>2, <4>1, ReachNat
    <3>5. TurnKept(t, v, c.op, todo, env, todo2, env2, i)
      <4> HIDE DEF v, c
      <4> QED
        BY <3>3 DEF Moved
    <3> HIDE DEF ends, v
    <3>6. PICK m2 \in Nat :
            /\ Reach(t, v, c.op, todo2, i, m2, ends)
            /\ v \in DOMAIN env /\ env[v] \in Int =>
                 /\ v \in DOMAIN env2 /\ env2[v] \in Int
                 /\ \A l \in Int : Apart(c.op, env2[v], l) + m2 = Apart(c.op, env[v], l) + m
      <4> HIDE DEF c
      <4> QED
        BY <3>2, <3>5 DEF TurnKept
    <3>7. Near(c, ends, known, r, env2, m2)
      <4>1. CASE ends = {}
        BY <4>1 DEF Near
      <4>2. CASE ends # {}
        <5> DEFINE l == ConstInt(c.limit, known)
        <5>1. /\ ends = {1} /\ l # None /\ v \in DOMAIN env /\ env[v] \in Int
              /\ Apart(c.op, env[v], l) + m <= r + 1
          BY <3>2, <4>2 DEF Near, v
        <5>2. l \in Int
          BY <3>3, <5>1, ConstIntType
        <5> HIDE DEF l, c
        <5>3. v \in DOMAIN env2 /\ env2[v] \in Int /\ Apart(c.op, env2[v], l) + m2 <= r + 1
          BY <3>6, <5>1, <5>2
        <5> QED
          BY <5>1, <5>3 DEF Near, v, l
      <4> QED
        BY <4>1, <4>2
    <3> QED
      BY <3>6, <3>7 DEF Counted, ends, v
  <2> QED
    BY <2>2, <2>3
<1> QED
  BY <1>3, <1>4, <1>5 DEF Place

-----------------------------------------------------------------------------
(* A loop at its condition *)

Ready(t, s, known, r, env) ==
  \/ r = Inf
  \/ \E p \in Counters(s.conds, t, s.then) :
       LET c == Side(s.conds[p[1]], p[2])
           ends == Ends(c, t, s.then)
       IN  \/ ends = {} /\ r >= 1
           \/ /\ ends = {1} /\ ConstInt(c.limit, known) # None
              /\ c.v[2] \in DOMAIN env /\ env[c.v[2]] \in Int
              /\ Apart(c.op, env[c.v[2]], ConstInt(c.limit, known)) <= r

\* that has come to it for the first time
LEMMA ReadyAtFirst ==
  ASSUME NEW t, TextOK(t), NEW k \in 1..Len(t), t[k].is = "while", NEW known \in Known,
         NEW env, KnownOf(known, env)
  PROVE  LET r == Turns(t[k].conds, t, t[k].then, known)
         IN  /\ r \in Nat \union {Inf}
             /\ Ready(t, t[k], Forget(known, t, t[k].then), r, env)
<1> DEFINE s == t[k]
           r == Turns(s.conds, t, s.then, known)
           left == Forget(known, t, s.then)
<1>0. s.conds \in Seq(Conds)
  BY StatementFacts
<1>1. r \in Nat \union {Inf}
  BY <1>0, TurnsAre
<1>2. ASSUME r = Inf PROVE Ready(t, s, left, r, env)
  BY <1>1, <1>2 DEF Ready
<1>3. ASSUME r # Inf PROVE Ready(t, s, left, r, env)
  <2>1. PICK p \in Counters(s.conds, t, s.then) :
          r \in TurnsBy(Side(s.conds[p[1]], p[2]), t, s.then, known, left)
    BY <1>0, <1>3, TurnsAre
  <2> DEFINE c == Side(s.conds[p[1]], p[2])
             ends == Ends(c, t, s.then)
             v == c.v[2]
             limit == ConstInt(c.limit, left)
  <2>2. v \in Names /\ c.op \in Ops /\ c.limit \in Exprs
    BY <1>0, CounterFacts
  <2>3. known[v] \in Int \union {None} /\ limit \in Int \union {None}
    BY <2>2, ConstIntType, ForgetType DEF Known
  <2> HIDE DEF r, left
  <2>4. r \in CASE ends = {} -> {1}
                [] ends = {1} /\ None \notin {known[v], limit} ->
                     {IF Apart(c.op, known[v], limit) > 0 THEN Apart(c.op, known[v], limit) ELSE 0}
                [] OTHER -> {}
    BY <2>1 DEF TurnsBy, Ends
  <2> HIDE DEF ends, limit, c
  <2>5. CASE ends = {}
    <3>1. r = 1
      BY <2>4, <2>5
    <3> QED
      BY <2>5, <3>1 DEF Ready, ends, limit, c
  <2>6. CASE ends = {1} /\ None \notin {known[v], limit}
    <3> DEFINE far == Apart(c.op, known[v], limit)
    <3>1. r = IF far > 0 THEN far ELSE 0
      BY <2>4, <2>6
    <3>2. v \in DOMAIN env /\ env[v] = known[v]
      BY <2>2, <2>6 DEF KnownOf
    <3>3. far \in Int
      BY <2>2, <2>3, <2>6, HoldsApart
    <3>4. far <= r
      <4> HIDE DEF far
      <4> QED
        BY <3>1, <3>3
    <3>5. limit # None /\ env[v] \in Int /\ Apart(c.op, env[v], limit) <= r
      BY <2>3, <2>6, <3>2, <3>4
    <3> QED
      BY <2>6, <3>2, <3>5 DEF Ready, ends, limit, c
  <2>7. CASE ends # {} /\ ~(ends = {1} /\ None \notin {known[v], limit})
    BY <2>4, <2>7
  <2> QED
    BY <2>5, <2>6, <2>7
<1>4. Ready(t, s, left, r, env)
  BY <1>2, <1>3
<1> QED
  BY <1>1, <1>4

\* or again, at the end of a turn
LEMMA ReadyAgain ==
  ASSUME NEW t, TextOK(t), NEW todo, TodoOK(t, todo), NEW k \in 1..Len(t), t[k].is = "while",
         NEW known \in Known, NEW r \in Nat \union {Inf}, NEW env,
         Counted(t, t[k], known, r, todo, env, Len(todo))
  PROVE  Ready(t, t[k], known, r, env)
<1> DEFINE s == t[k]
<1>1. CASE r = Inf
  BY <1>1 DEF Ready
<1>2. CASE r # Inf
  <2>1. PICK p \in Counters(s.conds, t, s.then) :
          LET c == Side(s.conds[p[1]], p[2])
          IN  \E m : /\ Reach(t, c.v[2], c.op, todo, Len(todo), m, Ends(c, t, s.then))
                     /\ Near(c, Ends(c, t, s.then), known, r, env, m)
    BY <1>2 DEF Counted
  <2> DEFINE c == Side(s.conds[p[1]], p[2])
             ends == Ends(c, t, s.then)
             v == c.v[2]
             l == ConstInt(c.limit, known)
  <2>2. PICK m : Reach(t, v, c.op, todo, Len(todo), m, ends) /\ Near(c, ends, known, r, env, m)
    BY <2>1
  <2>3. m \in ends
    <3> HIDE DEF ends, v, c
    <3> QED
      BY <2>2, ReachTop
  <2>4. v \in Names /\ c.op \in Ops /\ c.limit \in Exprs
    <3>1. s.conds \in Seq(Conds)
      BY StatementFacts
    <3> QED
      BY <3>1, CounterFacts
  <2> HIDE DEF ends
  <2>5. /\ ends = {1} /\ l # None /\ v \in DOMAIN env /\ env[v] \in Int
        /\ Apart(c.op, env[v], l) + m <= r + 1
    BY <2>2, <2>3 DEF Near
  <2>6. l \in Int
    BY <2>4, <2>5, ConstIntType
  <2>7. Apart(c.op, env[v], l) \in Int
    BY <2>4, <2>5, <2>6, HoldsApart
  <2>8. m = 1 /\ r \in Nat
    BY <1>2, <2>3, <2>5
  <2>9. Apart(c.op, env[v], l) <= r
    <3> HIDE DEF l, v, c
    <3> QED
      BY <2>5, <2>7, <2>8
  <2> QED
    BY <2>5, <2>9 DEF Ready, ends
<1> QED
  BY <1>1, <1>2

Less(r) == IF r = Inf THEN Inf ELSE r - 1

\* a turn is begun: there was one to come
LEMMA TurnBegins ==
  ASSUME NEW t, TextOK(t), NEW todo, TodoOK(t, todo), NEW k \in 1..Len(t), t[k].is = "while",
         NEW known \in Known, NEW r \in Nat \union {Inf}, NEW env, KnownOf(known, env),
         Ready(t, t[k], known, r, env),
         \A i \in DOMAIN t[k].conds : TRUE \in Answers(t[k].conds[i], env)
  PROVE  /\ r # Inf => r >= 1
         /\ Counted(t, t[k], known, Less(r), Append(todo, t[k].then), env, Len(todo))
<1> DEFINE s == t[k]
           more == Append(todo, s.then)
<1>1. CASE r = Inf
  BY <1>1 DEF Counted, Less
<1>2. CASE r # Inf
  <2>1. PICK p \in Counters(s.conds, t, s.then) :
          LET c == Side(s.conds[p[1]], p[2])
              ends == Ends(c, t, s.then)
          IN  \/ ends = {} /\ r >= 1
              \/ /\ ends = {1} /\ ConstInt(c.limit, known) # None
                 /\ c.v[2] \in DOMAIN env /\ env[c.v[2]] \in Int
                 /\ Apart(c.op, env[c.v[2]], ConstInt(c.limit, known)) <= r
    BY <1>2 DEF Ready
  <2> DEFINE d == s.conds[p[1]]
             c == Side(d, p[2])
             ends == Ends(c, t, s.then)
             v == c.v[2]
             l == ConstInt(c.limit, known)
  <2>0. s.conds \in Seq(Conds) /\ s.then \in 0..Len(t)
    BY StatementFacts
  <2>2. /\ p[1] \in DOMAIN s.conds /\ p[2] \in {1, 2} /\ d[1] = "cmp" /\ c.v[1] = "var"
        /\ v \in Names /\ c.op \in Ops /\ c.limit \in Exprs
    BY <2>0, CounterFacts
  <2>3. ends # BAD => Reach(t, v, c.op, more, Len(todo), 0, ends)
    <3> HIDE DEF c
    <3> QED
      BY <2>0, ReachTurn DEF Ends
  <2>4. CASE ends = {} /\ r >= 1
    <3>1. ends # BAD
      BY <2>4 DEF BAD
    <3>2. Near(c, ends, known, r - 1, env, 0)
      <4> HIDE DEF ends, c
      <4> QED
        BY <2>4 DEF Near
    <3>3. Counted(t, s, known, r - 1, more, env, Len(todo))
      <4> HIDE DEF more
      <4> QED
        BY <2>3, <3>1, <3>2 DEF Counted
    <3> QED
      BY <1>2, <2>4, <3>3 DEF Less
  <2>5. CASE /\ ends = {1} /\ l # None /\ v \in DOMAIN env /\ env[v] \in Int
             /\ Apart(c.op, env[v], l) <= r
    <3>0. l \in Int
      BY <2>2, <2>5, ConstIntType
    <3>1. Val(c.limit, env) = l
      BY <2>2, <2>5, Evaluates
    <3>2. Val(c.v, env) = env[v]
      BY <2>2 DEF Val, AtomVal
    <3>3. d[2] \in Ops
      <4>1. d \in Conds
        BY <2>0, <2>2
      <4> QED
        BY <2>2, <4>1, CondKinds
    <3>4. Holds(d[2], Val(d[3], env), Val(d[4], env)) = TRUE
      <4>1. TRUE \in Answers(d, env)
        BY <2>2
      <4> HIDE DEF d
      <4>2. Answers(d, env) = {Holds(d[2], Val(d[3], env), Val(d[4], env))}
        BY <2>2 DEF Answers
      <4> QED
        BY <4>1, <4>2
    <3>5. Apart(c.op, env[v], l) > 0
      <4>1. CASE p[2] = 1
        <5>1. c.v = d[3] /\ c.limit = d[4] /\ c.op = d[2]
          BY <4>1 DEF Side
        <5>2. Holds(d[2], env[v], l) = TRUE
          BY <3>1, <3>2, <3>4, <5>1
        <5> HIDE DEF c, d, l, v
        <5> QED
          BY <2>5, <3>0, <3>3, <5>1, <5>2, HoldsApart
      <4>2. CASE p[2] = 2
        <5>1. c.v = d[4] /\ c.limit = d[3] /\ c.op = FLIP[d[2]]
          BY <4>2 DEF Side
        <5>2. Holds(d[2], l, env[v]) = TRUE
          BY <3>1, <3>2, <3>4, <5>1
        <5> HIDE DEF c, d, l, v
        <5> QED
          BY <2>5, <3>0, <3>3, <5>1, <5>2, HoldsApart
      <4> QED
        BY <2>2, <4>1, <4>2
    <3>6. Apart(c.op, env[v], l) \in Int /\ r \in Nat
      <4> HIDE DEF l, v, c
      <4> QED
        BY <1>2, <2>2, <2>5, <3>0, HoldsApart
    <3>7. r >= 1 /\ Apart(c.op, env[v], l) + 0 <= (r - 1) + 1
      <4> HIDE DEF l, v, c
      <4> QED
        BY <2>5, <3>5, <3>6
    <3>8. ends # BAD
      BY <2>5 DEF BAD
    <3>9. Near(c, ends, known, r - 1, env, 0)
      <4> HIDE DEF ends, c
      <4> QED
        BY <2>5, <3>7 DEF Near
    <3>10. Counted(t, s, known, r - 1, more, env, Len(todo))
      <4> HIDE DEF more
      <4> QED
        BY <2>3, <3>8, <3>9 DEF Counted
    <3> QED
      BY <1>2, <3>7, <3>10 DEF Less
  <2> QED
    BY <2>1, <2>4, <2>5
<1> QED
  BY <1>1, <1>2

-----------------------------------------------------------------------------
(* A call: what it performs before each of its blocks begins, and all in all *)

Held(t, calls, todo, env, low, high, K, R, T) ==
  /\ K \in [1..Len(todo) -> Known] /\ R \in [1..Len(todo) -> Remains]
  /\ T \in [0..Len(todo) -> Nat] /\ T[0] = high /\ low <= T[Len(todo)]
  /\ \A i \in 1..Len(todo) :
       T[i] <= high /\ Place(t, calls, todo, env, K[i], R[i], T[i], T[i - 1], i)

Frame(t, calls, todo, env, low, high) ==
  /\ TodoOK(t, todo)
  /\ \E K, R, T : Held(t, calls, todo, env, low, high, K, R, T)

\* the last block goes on
LEMMA FrameSame ==
  ASSUME NEW t, TextOK(t), NEW calls, NEW todo, TodoOK(t, todo), NEW env, NEW todo2, NEW env2,
         Moved(t, todo, env, todo2, env2), Len(todo2) = Len(todo),
         NEW low, NEW low2 \in Nat, NEW high \in Nat, NEW K, NEW R, NEW T,
         Held(t, calls, todo, env, low, high, K, R, T),
         NEW known \in Known, NEW r \in Remains, NEW at \in Nat, low2 <= at, at <= high,
         Place(t, calls, todo2, env2, known, r, at, T[Len(todo) - 1], Len(todo))
  PROVE  Frame(t, calls, todo2, env2, low2, high)
<1> DEFINE n == Len(todo)
           K2 == [i \in 1..n |-> IF i = n THEN known ELSE K[i]]
           R2 == [i \in 1..n |-> IF i = n THEN r ELSE R[i]]
           T2 == [i \in 0..n |-> IF i = n THEN at ELSE T[i]]
<1>1. n \in Nat /\ n >= 1
  BY DEF TodoOK
<1>2. /\ K2 \in [1..n -> Known] /\ R2 \in [1..n -> Remains] /\ T2 \in [0..n -> Nat]
      /\ T2[0] = high /\ low2 <= T2[n]
  BY <1>1 DEF Held
<1>3. ASSUME NEW i \in 1..n
      PROVE  T2[i] <= high /\ Place(t, calls, todo2, env2, K2[i], R2[i], T2[i], T2[i - 1], i)
  <2>1. T2[i - 1] = T[i - 1]
    BY <1>1
  <2>2. CASE i = n
    <3>1. K2[i] = known /\ R2[i] = r /\ T2[i] = at
      BY <2>2
    <3> HIDE DEF K2, R2, T2
    <3> QED
      BY <2>1, <2>2, <3>1
  <2>3. CASE i # n
    <3>1. K2[i] = K[i] /\ R2[i] = R[i] /\ T2[i] = T[i] /\ i \in 1..(n - 1)
      BY <1>1, <2>3
    <3>2. /\ K[i] \in Known /\ R[i] \in Remains /\ T[i] <= high
          /\ Place(t, calls, todo, env, K[i], R[i], T[i], T[i - 1], i)
      BY DEF Held
    <3>3. Place(t, calls, todo2, env2, K[i], R[i], T[i], T[i - 1], i)
      BY <3>1, <3>2, PlaceKept
    <3> HIDE DEF K2, R2, T2
    <3> QED
      BY <2>1, <3>1, <3>2, <3>3
  <2> QED
    BY <2>2, <2>3
<1> HIDE DEF K2, R2, T2
<1>4. Held(t, calls, todo2, env2, low2, high, K2, R2, T2)
  BY <1>2, <1>3 DEF Held
<1>5. TodoOK(t, todo2)
  BY DEF Moved
<1> QED
  BY <1>4, <1>5 DEF Frame

\* with a block put after it
LEMMA FrameMore ==
  ASSUME NEW t, TextOK(t), NEW calls, NEW todo, TodoOK(t, todo), NEW env, NEW todo2, NEW env2,
         Moved(t, todo, env, todo2, env2), Len(todo2) = Len(todo) + 1,
         NEW low, NEW low2 \in Nat, NEW high \in Nat, NEW K, NEW R, NEW T,
         Held(t, calls, todo, env, low, high, K, R, T),
         NEW known \in Known, NEW r \in Remains, NEW at \in Nat, at <= high,
         Place(t, calls, todo2, env2, known, r, at, T[Len(todo) - 1], Len(todo)),
         NEW inner \in Known, NEW start \in Nat, low2 <= start, start <= high,
         Place(t, calls, todo2, env2, inner, None, start, at, Len(todo) + 1)
  PROVE  Frame(t, calls, todo2, env2, low2, high)
<1> DEFINE n == Len(todo)
           K2 == [i \in 1..(n + 1) |-> IF i = n + 1 THEN inner ELSE IF i = n THEN known ELSE K[i]]
           R2 == [i \in 1..(n + 1) |-> IF i = n + 1 THEN None ELSE IF i = n THEN r ELSE R[i]]
           T2 == [i \in 0..(n + 1) |-> IF i = n + 1 THEN start ELSE IF i = n THEN at ELSE T[i]]
<1>1. n \in Nat /\ n >= 1
  BY DEF TodoOK
<1>2. /\ K2 \in [1..(n + 1) -> Known] /\ R2 \in [1..(n + 1) -> Remains] /\ T2 \in [0..(n + 1) -> Nat]
      /\ T2[0] = high /\ low2 <= T2[n + 1]
  BY <1>1 DEF Held, Remains
<1>3. ASSUME NEW i \in 1..(n + 1)
      PROVE  T2[i] <= high /\ Place(t, calls, todo2, env2, K2[i], R2[i], T2[i], T2[i - 1], i)
  <2>2. CASE i = n + 1
    <3>1. K2[i] = inner /\ R2[i] = None /\ T2[i] = start /\ T2[i - 1] = at
      BY <1>1, <2>2
    <3> HIDE DEF K2, R2, T2
    <3> QED
      BY <2>2, <3>1
  <2>3. CASE i = n
    <3>1. K2[i] = known /\ R2[i] = r /\ T2[i] = at /\ T2[i - 1] = T[i - 1]
      BY <1>1, <2>3
    <3> HIDE DEF K2, R2, T2
    <3> QED
      BY <2>3, <3>1
  <2>4. CASE i \in 1..(n - 1)
    <3>1. K2[i] = K[i] /\ R2[i] = R[i] /\ T2[i] = T[i] /\ T2[i - 1] = T[i - 1]
      BY <1>1, <2>4
    <3>2. /\ K[i] \in Known /\ R[i] \in Remains /\ T[i] <= high
          /\ Place(t, calls, todo, env, K[i], R[i], T[i], T[i - 1], i)
      <4>1. i \in 1..n
        BY <1>1, <2>4
      <4> QED
        BY <4>1 DEF Held
    <3>3. Place(t, calls, todo2, env2, K[i], R[i], T[i], T[i - 1], i)
      BY <2>4, <3>2, PlaceKept
    <3> HIDE DEF K2, R2, T2
    <3> QED
      BY <3>1, <3>2, <3>3
  <2> QED
    BY <1>1, <2>2, <2>3, <2>4
<1> HIDE DEF K2, R2, T2
<1>4. Held(t, calls, todo2, env2, low2, high, K2, R2, T2)
  BY <1>2, <1>3 DEF Held
<1>5. TodoOK(t, todo2)
  BY DEF Moved
<1> QED
  BY <1>4, <1>5 DEF Frame

\* that has come to its end
LEMMA FrameLess ==
  ASSUME NEW t, TextOK(t), NEW calls, NEW todo, TodoOK(t, todo), NEW env, NEW todo2,
         Moved(t, todo, env, todo2, env), Len(todo2) = Len(todo) - 1,
         NEW low \in Nat, NEW high \in Nat, Frame(t, calls, todo, env, low, high)
  PROVE  Frame(t, calls, todo2, env, low, high)
<1> DEFINE n == Len(todo)
<1>1. n \in Nat /\ TodoOK(t, todo2) /\ n - 1 >= 1
  BY DEF TodoOK, Moved
<1>2. PICK K, R, T : Held(t, calls, todo, env, low, high, K, R, T)
  BY DEF Frame
<1> DEFINE K2 == [i \in 1..(n - 1) |-> K[i]]
           R2 == [i \in 1..(n - 1) |-> R[i]]
           T2 == [i \in 0..(n - 1) |-> T[i]]
<1>3. low <= T[n - 1]
  <2>1. n \in 1..n /\ n \in 0..n /\ n - 1 \in 0..n
    BY <1>1
  <2>2. T[n] \in Nat /\ T[n - 1] \in Nat /\ low <= T[n]
    BY <1>2, <2>1 DEF Held
  <2> DEFINE price == Price(t, calls, todo[n], K[n], R[n])
  <2>3. price \in Nat /\ T[n] + price <= T[n - 1]
    BY <1>2, <2>1 DEF Held, Place
  <2> HIDE DEF price
  <2> QED
    BY <2>2, <2>3
<1>4. /\ K2 \in [1..(n - 1) -> Known] /\ R2 \in [1..(n - 1) -> Remains] /\ T2 \in [0..(n - 1) -> Nat]
      /\ T2[0] = high /\ low <= T2[n - 1]
  BY <1>1, <1>2, <1>3 DEF Held
<1>5. ASSUME NEW i \in 1..(n - 1)
      PROVE  T2[i] <= high /\ Place(t, calls, todo2, env, K2[i], R2[i], T2[i], T2[i - 1], i)
  <2>1. K2[i] = K[i] /\ R2[i] = R[i] /\ T2[i] = T[i] /\ T2[i - 1] = T[i - 1] /\ i \in 1..n
    BY <1>1
  <2>2. /\ K[i] \in Known /\ R[i] \in Remains /\ T[i] <= high
        /\ Place(t, calls, todo, env, K[i], R[i], T[i], T[i - 1], i)
    BY <1>2, <2>1 DEF Held
  <2>3. Place(t, calls, todo2, env, K[i], R[i], T[i], T[i - 1], i)
    BY <2>2, PlaceKept
  <2> HIDE DEF K2, R2, T2
  <2> QED
    BY <2>1, <2>2, <2>3
<1> HIDE DEF K2, R2, T2
<1>6. Held(t, calls, todo2, env, low, high, K2, R2, T2)
  BY <1>4, <1>5 DEF Held
<1> QED
  BY <1>1, <1>6 DEF Frame

\* the last of its blocks
LEMMA HeldTop ==
  ASSUME NEW t, NEW calls, NEW todo, TodoOK(t, todo), NEW env, NEW low \in Nat, NEW high \in Nat,
         NEW K, NEW R, NEW T, Held(t, calls, todo, env, low, high, K, R, T)
  PROVE  LET n == Len(todo)
             price == Price(t, calls, todo[n], K[n], R[n])
         IN  /\ n \in Nat /\ n >= 1 /\ K[n] \in Known /\ R[n] \in Remains
             /\ T[n] \in Nat /\ T[n - 1] \in Nat /\ low <= T[n] /\ T[n - 1] <= high
             /\ price \in Nat /\ T[n] + price <= T[n - 1]
             /\ KnownOf(K[n], env)
             /\ R[n] # None =>
                  /\ todo[n] # 0 /\ t[todo[n]].is = "while"
                  /\ \A x \in Names : K[n][x] # None => ~Bound(t, t[todo[n]].then, x)
                  /\ Counted(t, t[todo[n]], K[n], R[n], todo, env, n)
<1> DEFINE n == Len(todo)
<1>1. n \in Nat /\ n >= 1
  BY DEF TodoOK
<1>2. n \in 1..n /\ n \in 0..n /\ n - 1 \in 0..n
  BY <1>1
<1>3. T[n - 1] <= high
  <2> HIDE DEF n
  <2>0. T[0] = high /\ \A i \in 1..n : T[i] <= high
    BY DEF Held, n
  <2>1. CASE n = 1
    BY <2>0, <2>1
  <2>2. CASE n > 1
    <3>1. n - 1 \in 1..n
      BY <1>1, <2>2
    <3> QED
      BY <2>0, <3>1
  <2> QED
    BY <1>1, <2>1, <2>2
<1>4. /\ K[n] \in Known /\ R[n] \in Remains /\ T[n] \in Nat /\ T[n - 1] \in Nat /\ low <= T[n]
      /\ Place(t, calls, todo, env, K[n], R[n], T[n], T[n - 1], n)
  BY <1>2 DEF Held
<1> QED
  BY <1>1, <1>3, <1>4 DEF Place, Agrees

\* above the last block there is none to bind a name
LEMMA AgreesLast ==
  ASSUME NEW t, NEW known, NEW todo, NEW env, KnownOf(known, env), Len(todo) \in Nat
  PROVE  Agrees(t, known, todo, env, Len(todo))
<1>1. \A j \in (Len(todo) + 1)..Len(todo) : FALSE
  OBVIOUS
<1> QED
  BY <1>1 DEF Agrees

\* a block that is not begun is in its place when it is the last
LEMMA PlaceLast ==
  ASSUME NEW t, NEW calls, NEW todo, NEW env, NEW known, KnownOf(known, env), Len(todo) \in Nat,
         NEW low, NEW high, NEW k, k = todo[Len(todo)],
         Block(t, calls, TRUE)[k][known] \in Nat, low + Block(t, calls, TRUE)[k][known] <= high
  PROVE  Place(t, calls, todo, env, known, None, low, high, Len(todo))
<1>1. Price(t, calls, k, known, None) = Block(t, calls, TRUE)[k][known]
  BY DEF Price
<1>2. Agrees(t, known, todo, env, Len(todo))
  BY AgreesLast
<1> QED
  BY <1>1, <1>2 DEF Place

\* a block performs what its first statement does and what the rest does
LEMMA BlockStep ==
  ASSUME NEW t, TextOK(t), NEW calls \in Calls, NEW k \in 1..Len(t), NEW known \in Known
  PROVE  LET b == Block(t, calls, TRUE)
             s == t[k]
             inner == Inner(s, t, known)
             then == b[s.then][inner]
             else == b[s.else][inner]
             rest == b[s.next][After(s, t, known)]
             p == Performed(s, Turns(s.conds, t, s.then, known), then, else, calls[s.x], TRUE)
         IN  /\ then \in Costs /\ else \in Costs /\ rest \in Costs /\ p \in Costs
             /\ inner \in Known /\ After(s, t, known) \in Known
             /\ b[k][known] = Plus(p, rest)
             /\ b[k][known] \in Nat => p \in Nat /\ rest \in Nat /\ b[k][known] = p + rest
<1> DEFINE b == Block(t, calls, TRUE)
           s == t[k]
           inner == Inner(s, t, known)
           then == b[s.then][inner]
           else == b[s.else][inner]
           rest == b[s.next][After(s, t, known)]
           p == Performed(s, Turns(s.conds, t, s.then, known), then, else, calls[s.x], TRUE)
<1>1. inner \in Known /\ After(s, t, known) \in Known
  BY KnownAfter
<1>2. b \in [0..Len(t) -> [Known -> Costs]] /\ b[k] = BlockAt(t, calls, TRUE, b, k)
  <2>1. TRUE \in BOOLEAN /\ k \in 0..Len(t)
    OBVIOUS
  <2> QED
    BY <2>1, BlockAre
<1>3. /\ s.then \in 0..Len(t) /\ s.else \in 0..Len(t) /\ s.next \in 0..Len(t)
      /\ s.conds \in Seq(Conds)
  BY StatementFacts
<1>4. then \in Costs /\ else \in Costs /\ rest \in Costs
  <2> HIDE DEF b
  <2> QED
    BY <1>1, <1>2, <1>3
<1>5. p \in Costs
  <2>1. Turns(s.conds, t, s.then, known) \in Nat \union {Inf}
    BY <1>3, TurnsAre
  <2>2. s.is = "call" => calls[s.x] \in Costs
    BY DEF TextOK, Calls
  <2> HIDE DEF then, else
  <2> QED
    BY <1>3, <1>4, <2>1, <2>2, PerformedType
<1>6. b[k][known] = Plus(p, rest)
  <2>1. k # 0
    OBVIOUS
  <2> HIDE DEF b
  <2> QED
    BY <1>2, <2>1 DEF BlockAt
<1> HIDE DEF p, rest, then, else, b
<1>7. b[k][known] \in Nat => p \in Nat /\ rest \in Nat /\ b[k][known] = p + rest
  BY <1>4, <1>5, <1>6, PlusType
<1> QED
  BY <1>1, <1>4, <1>5, <1>6, <1>7 DEF p, rest, then, else, b

\* what is known of a name that is bound is what it is bound to
LEMMA KnownBind ==
  ASSUME NEW known \in Known, NEW env, KnownOf(known, env), NEW x \in Names, NEW new,
         NEW c, c # None => c = new
  PROVE  KnownOf([known EXCEPT ![x] = c], Bind(env, x, new))
BY DEF KnownOf, Known, Bind

\* what is known after forgetting was known, of names that are not bound
LEMMA KnownForget ==
  ASSUME NEW known \in Known, NEW env, KnownOf(known, env), NEW t, NEW b
  PROVE  /\ KnownOf(Forget(known, t, b), env)
         /\ \A x \in Names : Forget(known, t, b)[x] # None => known[x] # None /\ ~Bound(t, b, x)
BY DEF KnownOf, Known, Forget

\* a condition asks no more than it may, and all of it when it holds
LEMMA OutcomeFacts ==
  ASSUME NEW conds \in Seq(Conds), NEW env, NEW o \in Outcomes(conds, env)
  PROVE  /\ o.asked \in Nat /\ o.asked <= Asked(conds)
         /\ o.yes => /\ o.asked = Asked(conds)
                     /\ \A i \in DOMAIN conds : TRUE \in Answers(conds[i], env)
<1>1. Asked(conds) \in Nat
  BY AskedType
<1>2. \/ /\ o = [yes |-> TRUE, asked |-> Asked(conds)]
         /\ \A i \in DOMAIN conds : TRUE \in Answers(conds[i], env)
      \/ \E i \in DOMAIN conds : o = [yes |-> FALSE, asked |-> Asked(SubSeq(conds, 1, i))]
  BY DEF Outcomes
<1>3. CASE /\ o = [yes |-> TRUE, asked |-> Asked(conds)]
           /\ \A i \in DOMAIN conds : TRUE \in Answers(conds[i], env)
  <2>1. o.asked = Asked(conds)
    BY <1>3
  <2>2. \A i \in DOMAIN conds : TRUE \in Answers(conds[i], env)
    BY <1>3
  <2>3. o.asked \in Nat /\ o.asked <= Asked(conds)
    BY <1>1, <2>1
  <2> QED
    BY <2>1, <2>2, <2>3
<1>4. CASE \E i \in DOMAIN conds : o = [yes |-> FALSE, asked |-> Asked(SubSeq(conds, 1, i))]
  <2>1. PICK i \in DOMAIN conds : o = [yes |-> FALSE, asked |-> Asked(SubSeq(conds, 1, i))]
    BY <1>4
  <2>2. ~o.yes
    BY <2>1
  <2>3. o.asked = Asked(SubSeq(conds, 1, i))
    BY <2>1
  <2>4. i \in 1..Len(conds)
    OBVIOUS
  <2>5. o.asked \in Nat /\ o.asked <= Asked(conds)
    BY <2>3, <2>4, AskedType
  <2> QED
    BY <2>2, <2>5
<1> QED
  BY <1>2, <1>3, <1>4

\* what a statement performs before its blocks
AtOnce(s, calls) == IF s.is = "if" THEN Asked(s.conds)
                    ELSE IF s.is = "call" THEN calls[s.x] ELSE 1

\* by what a statement is
LEMMA BlockLet ==
  ASSUME NEW t, TextOK(t), NEW calls \in Calls, NEW k \in 1..Len(t), NEW known \in Known,
         t[k].is \in {"let", "set"}, Block(t, calls, TRUE)[k][known] \in Nat
  PROVE  /\ After(t[k], t, known) \in Known
         /\ Block(t, calls, TRUE)[t[k].next][After(t[k], t, known)] = Block(t, calls, TRUE)[k][known]
<1> DEFINE b == Block(t, calls, TRUE)
           s == t[k]
           inner == Inner(s, t, known)
           then == b[s.then][inner]
           else == b[s.else][inner]
           rest == b[s.next][After(s, t, known)]
           p == Performed(s, Turns(s.conds, t, s.then, known), then, else, calls[s.x], TRUE)
<1>1. After(s, t, known) \in Known /\ p \in Nat /\ rest \in Nat /\ b[k][known] = p + rest
  BY BlockStep
<1>2. p = 0
  <2> HIDE DEF then, else
  <2> QED
    BY DEF Performed
<1>3. b[k][known] = rest
  <2>1. p \in Nat /\ rest \in Nat /\ b[k][known] = p + rest
    BY <1>1, <1>2
  <2> HIDE DEF p, rest, b
  <2> QED
    BY <1>2, <2>1
<1> QED
  BY <1>1, <1>3

\* of an operation, and of a call
LEMMA BlockOp ==
  ASSUME NEW t, TextOK(t), NEW calls \in Calls, NEW k \in 1..Len(t), NEW known \in Known,
         Block(t, calls, TRUE)[k][known] \in Nat,
         t[k].is \in {"op", "call"}
  PROVE  /\ AtOnce(t[k], calls) \in Nat /\ Block(t, calls, TRUE)[t[k].next][known] \in Nat
         /\ Block(t, calls, TRUE)[k][known]
              = AtOnce(t[k], calls) + Block(t, calls, TRUE)[t[k].next][known]
<1> DEFINE b == Block(t, calls, TRUE)
           s == t[k]
           inner == Inner(s, t, known)
           then == b[s.then][inner]
           else == b[s.else][inner]
           rest == b[s.next][After(s, t, known)]
           p == Performed(s, Turns(s.conds, t, s.then, known), then, else, calls[s.x], TRUE)
<1>1. p \in Nat /\ rest \in Nat /\ b[k][known] = p + rest
  BY BlockStep
<1>2. p = AtOnce(s, calls)
  <2> HIDE DEF then, else
  <2> QED
    BY DEF Performed, AtOnce
<1>3. After(s, t, known) = known
  BY DEF After
<1>4. rest = b[s.next][known]
  BY <1>3
<1> HIDE DEF p, rest
<1> QED
  BY <1>1, <1>2, <1>4

\* of a statement with arms, whichever is gone into
LEMMA BlockArm ==
  ASSUME NEW t, TextOK(t), NEW calls \in Calls, NEW k \in 1..Len(t), NEW known \in Known,
         t[k].is \in {"if", "check"}, Block(t, calls, TRUE)[k][known] \in Nat,
         NEW arm \in {t[k].then, t[k].else}, NEW c \in Nat,
         c <= AtOnce(t[k], calls)
  PROVE  LET b == Block(t, calls, TRUE)
             inner == Inner(t[k], t, known)
             after == After(t[k], t, known)
         IN  /\ inner \in Known /\ after \in Known
             /\ b[arm][inner] \in Nat /\ b[t[k].next][after] \in Nat
             /\ c + b[arm][inner] + b[t[k].next][after] <= b[k][known]
<1> DEFINE b == Block(t, calls, TRUE)
           s == t[k]
           inner == Inner(s, t, known)
           then == b[s.then][inner]
           else == b[s.else][inner]
           rest == b[s.next][After(s, t, known)]
           p == Performed(s, Turns(s.conds, t, s.then, known), then, else, calls[s.x], TRUE)
           first == AtOnce(s, calls)
<1>1. /\ inner \in Known /\ After(s, t, known) \in Known /\ then \in Costs /\ else \in Costs
      /\ p \in Nat /\ rest \in Nat /\ b[k][known] = p + rest
  BY BlockStep
<1>2. p = Plus(first, Most(then, else, TRUE))
  <2> HIDE DEF then, else
  <2> QED
    BY DEF Performed, AtOnce
<1>3. first \in Nat
  <2>1. s.conds \in Seq(Conds)
    BY StatementFacts
  <2> QED
    BY <2>1, AskedType DEF AtOnce
<1>4. arm = s.then \/ arm = s.else
  OBVIOUS
<1> DEFINE in == b[arm][inner]
<1>5. in = then \/ in = else
  BY <1>4
<1> HIDE DEF p, rest, then, else, first, in
<1>6. Most(then, else, TRUE) \in Costs
  BY <1>1, MostType
<1>7. Most(then, else, TRUE) \in Nat /\ p = first + Most(then, else, TRUE)
  BY <1>1, <1>2, <1>3, <1>6, PlusType DEF Costs
<1>8. in \in Nat /\ in <= Most(then, else, TRUE)
  BY <1>1, <1>5, <1>7, MostType
<1>9. c + in + rest <= b[k][known]
  <2> DEFINE most == Most(then, else, TRUE)
             all == b[k][known]
  <2>1. c <= first /\ first \in Nat /\ most \in Nat /\ in \in Nat /\ in <= most
    BY <1>3, <1>7, <1>8 DEF first
  <2>2. rest \in Nat /\ all = (first + most) + rest
    BY <1>1, <1>7
  <2> HIDE DEF most, all
  <2>3. c + in + rest <= all
    BY <2>1, <2>2
  <2> QED
    BY <2>3 DEF all
<1> QED
  BY <1>1, <1>8, <1>9 DEF in, rest

\* a loop that is come to for the first time is one that all its turns are left to
LEMMA BlockWhile ==
  ASSUME NEW t, TextOK(t), NEW calls \in Calls, NEW k \in 1..Len(t), NEW known \in Known,
         t[k].is = "while"
  PROVE  LET after == Forget(known, t, t[k].then)
             r == Turns(t[k].conds, t, t[k].then, known)
         IN  Block(t, calls, TRUE)[k][known] = Price(t, calls, k, after, r)
<1> DEFINE b == Block(t, calls, TRUE)
           s == t[k]
           inner == Inner(s, t, known)
           then == b[s.then][inner]
           else == b[s.else][inner]
           rest == b[s.next][After(s, t, known)]
           r == Turns(s.conds, t, s.then, known)
           p == Performed(s, r, then, else, calls[s.x], TRUE)
<1>1. b[k][known] = Plus(p, rest)
  BY BlockStep
<1>2. inner = Forget(known, t, s.then) /\ After(s, t, known) = Forget(known, t, s.then)
  BY DEF Inner, After
<1>3. p = Plus(Times(Asked(s.conds), Plus(r, 1)), Times(then, r))
  <2> HIDE DEF then, else, r
  <2> QED
    BY DEF Performed
<1>4. r # None
  <2>1. s.conds \in Seq(Conds)
    BY StatementFacts
  <2>2. r \in Nat \union {Inf}
    BY <2>1, TurnsAre
  <2> HIDE DEF r
  <2> QED
    BY <2>2, LoopsAssumption
<1> HIDE DEF b, r
<1>5. Price(t, calls, k, Forget(known, t, s.then), r)
        = Plus(Plus(Times(Asked(s.conds), Plus(r, 1)), Times(b[s.then][Forget(known, t, s.then)], r)),
               b[s.next][Forget(known, t, s.then)])
  BY <1>4 DEF Price, b
<1> QED
  BY <1>1, <1>2, <1>3, <1>5 DEF b, r

\* a name is bound
LEMMA FrameLet ==
  ASSUME NEW t, TextOK(t), NEW calls \in Calls, NEW todo, TodoOK(t, todo), NEW env,
         NEW low \in Nat, NEW high \in Nat, Frame(t, calls, todo, env, low, high),
         NEW k \in 1..Len(t), k = todo[Len(todo)], t[k].is \in {"let", "set"},
         NEW new \in Values(t[k].e, env)
  PROVE  Frame(t, calls, [todo EXCEPT ![Len(todo)] = t[k].next], Bind(env, t[k].x, new), low, high)
<1> DEFINE n == Len(todo)
           s == t[k]
           rest == [todo EXCEPT ![n] = s.next]
           env2 == Bind(env, s.x, new)
           b == Block(t, calls, TRUE)
<1>0. n \in 1..Len(todo)
  BY DEF TodoOK
<1>1. PICK K, R, T : Held(t, calls, todo, env, low, high, K, R, T)
  BY DEF Frame
<1>2. /\ n \in Nat /\ K[n] \in Known
      /\ T[n] \in Nat /\ T[n - 1] \in Nat /\ low <= T[n] /\ T[n - 1] <= high
      /\ Price(t, calls, k, K[n], R[n]) \in Nat /\ T[n] + Price(t, calls, k, K[n], R[n]) <= T[n - 1]
      /\ KnownOf(K[n], env) /\ (R[n] # None => s.is = "while")
  BY <1>1, HeldTop
<1> DEFINE known == K[n]
           known2 == After(s, t, known)
<1>3. b[k][known] \in Nat /\ T[n] + b[k][known] <= T[n - 1]
  BY <1>2 DEF Price
<1>4. known2 \in Known /\ b[s.next][known2] \in Nat /\ T[n] + b[s.next][known2] <= T[n - 1]
  <2>1. known2 \in Known /\ b[s.next][known2] = b[k][known]
    BY <1>2, <1>3, BlockLet
  <2> HIDE DEF b, known2, known
  <2> QED
    BY <1>3, <2>1
<1>5. KnownOf(known2, env2)
  <2>1. known2 = [known EXCEPT ![s.x] = ConstInt(s.e, known)]
    BY DEF After
  <2>2. s.x \in Names /\ s.e \in Exprs
    BY StatementFacts
  <2>3. ConstInt(s.e, known) # None => ConstInt(s.e, known) = new
    BY <1>2, <2>2, Evaluates
  <2> HIDE DEF known, known2
  <2> QED
    BY <1>2, <2>1, <2>2, <2>3, KnownBind DEF known
<1>6. Moved(t, todo, env, rest, env2)
  BY MovedRest
<1>7. Len(rest) = n /\ rest[n] = s.next
  BY <1>0 DEF TodoOK
<1> HIDE DEF rest, env2, known2, known, b
<1>8. Place(t, calls, rest, env2, known2, None, T[n], T[n - 1], n)
  BY <1>2, <1>4, <1>5, <1>7, PlaceLast DEF b
<1>9. None \in Remains /\ T[n] <= high
  BY <1>2, <1>4 DEF Remains
<1>10. Frame(t, calls, rest, env2, low, high)
  BY <1>1, <1>2, <1>4, <1>6, <1>7, <1>8, <1>9, FrameSame
<1> QED
  BY <1>10 DEF rest, env2

\* so many operations are performed, or may be by a call, before what follows
LEMMA FrameOp ==
  ASSUME NEW t, TextOK(t), NEW calls \in Calls, NEW todo, TodoOK(t, todo), NEW env,
         NEW low \in Nat, NEW high \in Nat, Frame(t, calls, todo, env, low, high),
         NEW k \in 1..Len(t), k = todo[Len(todo)],
         t[k].is \in {"op", "call"}
  PROVE  /\ AtOnce(t[k], calls) \in Nat
         /\ Frame(t, calls, [todo EXCEPT ![Len(todo)] = t[k].next], env,
                  low + AtOnce(t[k], calls), high)
<1> DEFINE c == AtOnce(t[k], calls)
           n == Len(todo)
           s == t[k]
           rest == [todo EXCEPT ![n] = s.next]
           b == Block(t, calls, TRUE)
<1>0. n \in 1..Len(todo)
  BY DEF TodoOK
<1>1. PICK K, R, T : Held(t, calls, todo, env, low, high, K, R, T)
  BY DEF Frame
<1>2. /\ n \in Nat /\ K[n] \in Known
      /\ T[n] \in Nat /\ T[n - 1] \in Nat /\ low <= T[n] /\ T[n - 1] <= high
      /\ Price(t, calls, k, K[n], R[n]) \in Nat /\ T[n] + Price(t, calls, k, K[n], R[n]) <= T[n - 1]
      /\ KnownOf(K[n], env) /\ (R[n] # None => s.is = "while")
  BY <1>1, HeldTop
<1> DEFINE known == K[n]
<1>3. b[k][known] \in Nat /\ T[n] + b[k][known] <= T[n - 1]
  BY <1>2 DEF Price
<1>4. c \in Nat /\ b[s.next][known] \in Nat /\ T[n] + c + b[s.next][known] <= T[n - 1]
  <2> DEFINE T1 == T[n]
             T0 == T[n - 1]
             all == b[k][known]
             more == b[s.next][known]
  <2>1. c \in Nat /\ more \in Nat /\ all = c + more
    BY <1>2, <1>3, BlockOp
  <2>2. T1 \in Nat /\ T1 + all <= T0 /\ T0 \in Nat
    BY <1>2, <1>3
  <2> HIDE DEF all, more, T1, T0, c
  <2>3. T1 + c + more <= T0
    BY <2>1, <2>2
  <2> QED
    BY <2>1, <2>3 DEF more, T1, T0
<1>5. Moved(t, todo, env, rest, env)
  BY MovedRest
<1>6. Len(rest) = n /\ rest[n] = s.next
  BY <1>0 DEF TodoOK
<1> HIDE DEF rest, known, b, c
<1>7. Place(t, calls, rest, env, known, None, T[n] + c, T[n - 1], n)
  BY <1>2, <1>4, <1>6, PlaceLast DEF b, known
<1>8. /\ None \in Remains /\ T[n] + c <= high /\ T[n] + c \in Nat /\ low + c \in Nat
      /\ low + c <= T[n] + c
  <2> DEFINE T1 == T[n]
             T0 == T[n - 1]
             more == b[s.next][known]
  <2>1. /\ T1 \in Nat /\ T0 \in Nat /\ low <= T1 /\ T0 <= high
        /\ c \in Nat /\ more \in Nat /\ T1 + c + more <= T0
    BY <1>2, <1>4
  <2> HIDE DEF T1, T0, more
  <2>2. T1 + c <= high /\ T1 + c \in Nat /\ low + c \in Nat /\ low + c <= T1 + c
    BY <2>1, SMTT(30)
  <2> QED
    BY <2>2 DEF Remains, T1
<1>9. Frame(t, calls, rest, env, low + c, high)
  BY <1>1, <1>2, <1>5, <1>6, <1>7, <1>8, FrameSame DEF known
<1> QED
  BY <1>4, <1>9 DEF rest, c

\* what is known in an arm is so, and what is known after it is not bound in it
LEMMA KnownArm ==
  ASSUME NEW t, TextOK(t), NEW k \in 1..Len(t), t[k].is \in {"if", "check"},
         NEW known \in Known, NEW env, KnownOf(known, env), NEW env2,
         \/ t[k].is = "if" /\ env2 = env
         \/ t[k].is = "check" /\ \E new : env2 = Bind(env, t[k].x, new)
  PROVE  /\ KnownOf(Inner(t[k], t, known), env2) /\ KnownOf(After(t[k], t, known), env2)
         /\ \A x \in Names : After(t[k], t, known)[x] # None =>
              ~Bound(t, t[k].then, x) /\ ~Bound(t, t[k].else, x)
<1> DEFINE s == t[k]
           once == Forget(known, t, s.then)
           twice == Forget(once, t, s.else)
<1>1. once \in Known /\ twice \in Known
  <2>1. once \in Known
    BY ForgetType
  <2> HIDE DEF once
  <2> QED
    BY <2>1, ForgetType
<1>2. /\ KnownOf(once, env)
      /\ \A x \in Names : once[x] # None => ~Bound(t, s.then, x)
  BY KnownForget
<1>3. /\ KnownOf(twice, env)
      /\ \A x \in Names : twice[x] # None => once[x] # None /\ ~Bound(t, s.else, x)
  <2> HIDE DEF once
  <2> QED
    BY <1>1, <1>2, KnownForget
<1>4. CASE s.is = "if"
  <2>1. Inner(s, t, known) = known /\ After(s, t, known) = twice
    BY <1>4 DEF Inner, After
  <2>2. env2 = env
    BY <1>4
  <2> HIDE DEF once, twice
  <2> QED
    BY <1>2, <1>3, <2>1, <2>2
<1>5. CASE s.is = "check"
  <2>1. Inner(s, t, known) = [known EXCEPT ![s.x] = None]
    BY <1>5 DEF Inner
  <2>2. After(s, t, known) = [twice EXCEPT ![s.x] = None]
    BY <1>5 DEF After
  <2>3. PICK new : env2 = Bind(env, s.x, new)
    BY <1>5
  <2>4. s.x \in Names
    BY StatementFacts
  <2>5. None # None => None = new
    OBVIOUS
  <2> HIDE DEF twice, once
  <2>6. KnownOf(Inner(s, t, known), env2)
    <3>1. KnownOf([known EXCEPT ![s.x] = None], Bind(env, s.x, new))
      BY <2>4, <2>5, KnownBind
    <3> QED
      BY <2>1, <2>3, <3>1
  <2>7. KnownOf(After(s, t, known), env2)
    BY <1>1, <1>3, <2>2, <2>3, <2>4, <2>5, KnownBind
  <2>8. \A x \in Names : After(s, t, known)[x] # None => twice[x] # None
    BY <1>1, <2>2 DEF Known
  <2> QED
    BY <1>2, <1>3, <2>6, <2>7, <2>8
<1> QED
  BY <1>4, <1>5

\* an arm is begun
LEMMA FrameArm ==
  ASSUME NEW t, TextOK(t), NEW calls \in Calls, NEW todo, TodoOK(t, todo), NEW env,
         NEW low \in Nat, NEW high \in Nat, Frame(t, calls, todo, env, low, high),
         NEW k \in 1..Len(t), k = todo[Len(todo)], t[k].is \in {"if", "check"},
         NEW arm \in {t[k].then, t[k].else}, NEW c \in Nat, c <= AtOnce(t[k], calls), NEW env2,
         \/ t[k].is = "if" /\ env2 = env
         \/ t[k].is = "check" /\ \E new : env2 = Bind(env, t[k].x, new)
  PROVE  Frame(t, calls, Append([todo EXCEPT ![Len(todo)] = t[k].next], arm), env2, low + c, high)
<1> DEFINE n == Len(todo)
           s == t[k]
           todo2 == Append([todo EXCEPT ![n] = s.next], arm)
           b == Block(t, calls, TRUE)
<1>0. n \in 1..Len(todo) /\ todo \in Seq(0..Len(t)) /\ arm \in 0..Len(t)
  <2>1. s.then \in 0..Len(t) /\ s.else \in 0..Len(t)
    BY StatementFacts
  <2> QED
    BY <2>1 DEF TodoOK
<1>1. PICK K, R, T : Held(t, calls, todo, env, low, high, K, R, T)
  BY DEF Frame
<1>2. /\ n \in Nat /\ K[n] \in Known
      /\ T[n] \in Nat /\ T[n - 1] \in Nat /\ low <= T[n] /\ T[n - 1] <= high
      /\ Price(t, calls, k, K[n], R[n]) \in Nat /\ T[n] + Price(t, calls, k, K[n], R[n]) <= T[n - 1]
      /\ KnownOf(K[n], env) /\ (R[n] # None => s.is = "while")
  BY <1>1, HeldTop
<1> DEFINE known == K[n]
           inner == Inner(s, t, known)
           after == After(s, t, known)
           start == T[n] + c
           at == start + b[arm][inner]
<1>3. b[k][known] \in Nat /\ T[n] + b[k][known] <= T[n - 1]
  BY <1>2 DEF Price
<1>4. inner \in Known /\ after \in Known /\ b[arm][inner] \in Nat /\ b[s.next][after] \in Nat
      /\ c + b[arm][inner] + b[s.next][after] <= b[k][known]
  BY <1>2, <1>3, BlockArm
<1>5. /\ start \in Nat /\ at \in Nat /\ low + c \in Nat /\ low + c <= start /\ start <= at
      /\ at + b[s.next][after] <= T[n - 1] /\ at <= high
  <2> DEFINE T1 == T[n]
             T0 == T[n - 1]
             all == b[k][known]
             in == b[arm][inner]
             more == b[s.next][after]
  <2>1. /\ T1 \in Nat /\ T0 \in Nat /\ all \in Nat /\ in \in Nat /\ more \in Nat
        /\ low <= T1 /\ T0 <= high /\ T1 + all <= T0 /\ c + in + more <= all
    BY <1>2, <1>3, <1>4
  <2> HIDE DEF T1, T0, all, in, more
  <2>2. /\ T1 + c \in Nat /\ T1 + c + in \in Nat /\ low + c \in Nat /\ low + c <= T1 + c
        /\ T1 + c <= T1 + c + in /\ T1 + c + in + more <= T0 /\ T1 + c + in <= high
    BY <2>1
  <2> QED
    BY <2>2 DEF T1, T0, in, more
<1>6. KnownOf(inner, env2) /\ KnownOf(after, env2) /\ \A x \in Names : after[x] # None => ~Bound(t, arm, x)
  <2>1. /\ KnownOf(inner, env2) /\ KnownOf(after, env2)
        /\ \A x \in Names : after[x] # None => ~Bound(t, s.then, x) /\ ~Bound(t, s.else, x)
    BY <1>2, KnownArm
  <2> HIDE DEF inner, after
  <2> QED
    BY <2>1
<1>7. Moved(t, todo, env, todo2, env2)
  BY MovedArm
<1>8. Len(todo2) = n + 1 /\ todo2[n] = s.next /\ todo2[n + 1] = arm
  <2>1. s.next \in 0..Len(t)
    BY StatementFacts
  <2> QED
    BY <1>0, <2>1
<1> HIDE DEF todo2, at, start, inner, after, known, b
<1>9. Place(t, calls, todo2, env2, inner, None, start, at, n + 1)
  <2>1. start + b[arm][inner] <= at
    BY <1>4, <1>5 DEF at
  <2>2. arm = todo2[Len(todo2)] /\ Len(todo2) \in Nat
    BY <1>2, <1>8
  <2>3. Place(t, calls, todo2, env2, inner, None, start, at, Len(todo2))
    BY <1>4, <1>6, <2>1, <2>2, PlaceLast DEF b
  <2> QED
    BY <1>8, <2>3
<1>10. Place(t, calls, todo2, env2, after, None, at, T[n - 1], n)
  <2>1. Agrees(t, after, todo2, env2, n)
    <3>1. \A j \in (n + 1)..Len(todo2) : j = n + 1
      BY <1>2, <1>8
    <3> QED
      BY <1>6, <1>8, <3>1 DEF Agrees
  <2>2. Price(t, calls, todo2[n], after, None) = b[s.next][after]
    BY <1>8 DEF Price, b
  <2> QED
    BY <1>4, <1>5, <2>1, <2>2 DEF Place
<1>11. None \in Remains /\ start <= high
  BY <1>2, <1>5 DEF Remains
<1>12. Frame(t, calls, todo2, env2, low + c, high)
  BY <1>1, <1>2, <1>4, <1>5, <1>7, <1>8, <1>9, <1>10, <1>11, FrameMore
<1> QED
  BY <1>12 DEF todo2

-----------------------------------------------------------------------------
(* A loop's price, and its turns *)

\* a loop's price pays for its condition and what follows, or for a turn and the price of those left
LEMMA PriceWhile ==
  ASSUME NEW t, TextOK(t), NEW calls \in Calls, NEW k \in 1..Len(t),
         NEW known \in Known, NEW r \in Nat \union {Inf}, Price(t, calls, k, known, r) \in Nat
  PROVE  /\ Asked(t[k].conds) \in Nat
         /\ Block(t, calls, TRUE)[t[k].then][known] \in Nat
         /\ Block(t, calls, TRUE)[t[k].next][known] \in Nat
         /\ Asked(t[k].conds) + Block(t, calls, TRUE)[t[k].next][known] <= Price(t, calls, k, known, r)
         /\ (r # Inf => r >= 1) =>
              /\ Price(t, calls, k, known, Less(r)) \in Nat
              /\ Asked(t[k].conds) + Block(t, calls, TRUE)[t[k].then][known]
                   + Price(t, calls, k, known, Less(r)) <= Price(t, calls, k, known, r)
<1> DEFINE a == Asked(t[k].conds)
           body == Block(t, calls, TRUE)[t[k].then][known]
           rest == Block(t, calls, TRUE)[t[k].next][known]
           price == Price(t, calls, k, known, r)
           less == Price(t, calls, k, known, Less(r))
<1>1. a \in Nat /\ body \in Costs /\ rest \in Costs
  <2>1. /\ t[k].then \in 0..Len(t) /\ t[k].next \in 0..Len(t) /\ t[k].conds \in Seq(Conds)
    BY StatementFacts
  <2>2. TRUE \in BOOLEAN
    OBVIOUS
  <2>3. Block(t, calls, TRUE) \in [0..Len(t) -> [Known -> Costs]]
    BY <2>2, BlockAre
  <2> QED
    BY <2>1, <2>3, AskedType
<1>2. \A q \in Nat \union {Inf} :
        Price(t, calls, k, known, q) = Plus(Plus(Times(a, Plus(q, 1)), Times(body, q)), rest)
  <2>1. \A q \in Nat \union {Inf} : q # None
    BY LoopsAssumption
  <2> QED
    BY <2>1 DEF Price
<1>3. price = Plus(Plus(Times(a, Plus(r, 1)), Times(body, r)), rest)
  BY <1>2
<1>4. r # Inf /\ r >= 1 => less = Plus(Plus(Times(a, r), Times(body, r - 1)), rest)
  <2> SUFFICES ASSUME r # Inf, r >= 1
               PROVE  less = Plus(Plus(Times(a, r), Times(body, r - 1)), rest)
    OBVIOUS
  <2>1. r - 1 \in Nat /\ Less(r) = r - 1
    BY DEF Less
  <2>2. Plus(r - 1, 1) = r
    <3>1. r - 1 # Inf /\ r - 1 # NaN /\ 1 # Inf /\ 1 # NaN
      BY <2>1, LoopsAssumption
    <3>2. r - 1 + 1 = r
      BY <2>1
    <3> QED
      BY <3>1, <3>2 DEF Plus
  <2> HIDE DEF a, body, rest
  <2> QED
    BY <1>2, <2>1, <2>2
<1>5. Less(Inf) = Inf
  BY DEF Less
<1> HIDE DEF a, body, rest, price, less
<1>6. a \in Costs /\ Plus(r, 1) \in Nat \union {Inf} /\ (r = Inf => Plus(r, 1) = Inf)
      /\ (r # Inf => Plus(r, 1) = r + 1)
  <2>1. NaN \notin {r, 1} /\ 1 # Inf
    BY LoopsAssumption
  <2> QED
    BY <1>1, <2>1 DEF Plus, Costs
<1>7. Times(a, Plus(r, 1)) \in Costs /\ Times(body, r) \in Costs
  BY <1>1, <1>6, TimesType
<1> DEFINE asks == Times(a, Plus(r, 1))
           does == Times(body, r)
<1>8. asks \in Nat /\ does \in Nat /\ rest \in Nat /\ price = (asks + does) + rest
  <2> HIDE DEF asks, does
  <2>0. price = Plus(Plus(asks, does), rest) /\ price \in Nat
    BY <1>3 DEF asks, does, price
  <2>1. Plus(asks, does) \in Costs
    BY <1>7, PlusType DEF asks, does
  <2>2. Plus(asks, does) \in Nat /\ rest \in Nat /\ price = Plus(asks, does) + rest
    BY <1>1, <2>0, <2>1, PlusType
  <2>3. asks \in Nat /\ does \in Nat /\ Plus(asks, does) = asks + does
    BY <1>7, <2>2, PlusType DEF asks, does
  <2> QED
    BY <2>2, <2>3
<1>9. body \in Nat
  BY <1>1, <1>8, TimesType
<1>10. CASE r = Inf
  <2>1. a = 0 /\ asks = 0 /\ body = 0 /\ does = 0
    BY <1>1, <1>6, <1>8, <1>10, TimesType
  <2>2. price = rest
    <3> HIDE DEF asks, does
    <3> QED
      BY <1>8, <2>1
  <2>3. less = price
    BY <1>5, <1>10 DEF less, price
  <2>4. a + rest <= price /\ less \in Nat /\ a + body + less <= price
    <3> HIDE DEF asks, does
    <3> QED
      BY <1>8, <2>1, <2>2, <2>3
  <2> QED
    BY <1>8, <1>9, <1>1, <2>4 DEF a, body, rest, price, less
<1>11. CASE r # Inf
  <2>0. r \in Nat
    BY <1>11
  <2>1. asks = a * (r + 1) /\ does = body * r
    <3>1. Plus(r, 1) = r + 1 /\ r + 1 \in Nat /\ r + 1 # Inf
      BY <1>6, <1>11, <2>0, LoopsAssumption
    <3> QED
      BY <1>1, <1>6, <1>8, <2>0, <3>1, TimesType
  <2> HIDE DEF asks, does
  <2>2. a * r \in Nat /\ body * r \in Nat /\ a * (r + 1) = a * r + a
    BY <1>1, <1>9, <2>0, Z3
  <2>3. a + rest <= price
    <3> DEFINE ar == a * r
               br == body * r
    <3>1. ar \in Nat /\ br \in Nat /\ price = ((ar + a) + br) + rest
      BY <1>8, <2>1, <2>2
    <3> HIDE DEF ar, br
    <3> QED
      BY <1>1, <1>8, <3>1
  <2>4. ASSUME r >= 1
        PROVE  less \in Nat /\ a + body + less <= price
    <3>1. less = Plus(Plus(Times(a, r), Times(body, r - 1)), rest)
      BY <1>4, <1>11, <2>4
    <3>2. r - 1 \in Nat /\ Inf \notin {r, r - 1} /\ NaN \notin {r, r - 1, a, body}
      BY <1>1, <1>9, <2>0, <2>4, LoopsAssumption
    <3>3. Times(a, r) = a * r /\ Times(body, r - 1) = body * (r - 1)
      <4>1. a * r = 0 <=> a = 0 \/ r = 0
        BY <1>1, <2>0, Z3
      <4>2. body * (r - 1) = 0 <=> body = 0 \/ r - 1 = 0
        BY <1>9, <3>2, Z3
      <4>3. a # Inf /\ body # Inf
        BY <1>1, <1>9, LoopsAssumption
      <4> QED
        BY <3>2, <4>1, <4>2, <4>3 DEF Times
    <3>4. body * (r - 1) = body * r - body /\ body * (r - 1) \in Nat
      BY <1>9, <2>0, <3>2, Z3
    <3> DEFINE ar == a * r
               br == body * (r - 1)
    <3>5. ar \in Nat /\ br \in Nat /\ price = ((ar + a) + (br + body)) + rest
      <4>1. body * r = br + body /\ br \in Nat
        <5> DEFINE more == body * r
        <5>1. more \in Nat /\ br = more - body /\ br \in Nat
          BY <2>2, <3>4
        <5> HIDE DEF more, br
        <5>2. more = br + body /\ br \in Nat
          BY <1>9, <5>1
        <5> QED
          BY <5>2 DEF more
      <4> HIDE DEF br
      <4> QED
        BY <1>8, <2>1, <2>2, <4>1
    <3>6. less = (ar + br) + rest
      <4>0. ar \notin {Inf, NaN} /\ br \notin {Inf, NaN} /\ rest \notin {Inf, NaN}
        BY <1>8, <3>5, LoopsAssumption
      <4>1. less = Plus(Plus(ar, br), rest)
        BY <3>1, <3>3
      <4> HIDE DEF ar, br
      <4>2. Plus(ar, br) = ar + br
        BY <4>0 DEF Plus
      <4>3. ar + br \notin {Inf, NaN}
        BY <3>5, LoopsAssumption
      <4>4. Plus(ar + br, rest) = (ar + br) + rest
        BY <4>0, <4>3 DEF Plus
      <4> QED
        BY <4>1, <4>2, <4>4
    <3> HIDE DEF ar, br
    <3> QED
      BY <1>1, <1>8, <1>9, <3>5, <3>6
  <2> QED
    BY <1>1, <1>8, <1>9, <1>11, <2>3, <2>4 DEF a, body, rest, price, less
<1> QED
  BY <1>10, <1>11

\* a loop whose condition is to be asked: what is known and the turns to come,
\* by which it costs no more than it was said to
AtHead(t, calls, k, env, price) ==
  \E known \in Known, r \in Nat \union {Inf} :
    /\ KnownOf(known, env) /\ Ready(t, t[k], known, r, env)
    /\ \A x \in Names : known[x] # None => ~Bound(t, t[k].then, x)
    /\ Price(t, calls, k, known, r) = price

\* a loop whose condition is to be asked is at its head, by the first or the last turn
LEMMA Heads ==
  ASSUME NEW t, TextOK(t), NEW calls \in Calls, NEW todo, TodoOK(t, todo), NEW env,
         NEW k \in 1..Len(t), k = todo[Len(todo)], t[k].is = "while",
         NEW known \in Known, NEW r \in Remains, KnownOf(known, env),
         r # None => /\ \A x \in Names : known[x] # None => ~Bound(t, t[k].then, x)
                     /\ Counted(t, t[k], known, r, todo, env, Len(todo))
  PROVE  AtHead(t, calls, k, env, Price(t, calls, k, known, r))
<1>1. CASE r = None
  <2> DEFINE left == Forget(known, t, t[k].then)
             turns == Turns(t[k].conds, t, t[k].then, known)
  <2>1. turns \in Nat \union {Inf} /\ Ready(t, t[k], left, turns, env)
    BY ReadyAtFirst
  <2>2. left \in Known
    BY ForgetType
  <2>3. /\ KnownOf(left, env)
        /\ \A x \in Names : left[x] # None => ~Bound(t, t[k].then, x)
    BY KnownForget
  <2>4. Price(t, calls, k, left, turns) = Price(t, calls, k, known, r)
    <3>1. Price(t, calls, k, known, r) = Block(t, calls, TRUE)[k][known]
      BY <1>1 DEF Price
    <3> QED
      BY <3>1, BlockWhile
  <2> HIDE DEF left, turns
  <2> QED
    BY <2>1, <2>2, <2>3, <2>4 DEF AtHead
<1>2. CASE r # None
  <2>1. r \in Nat \union {Inf}
    BY <1>2 DEF Remains
  <2>2. Ready(t, t[k], known, r, env)
    BY <1>2, <2>1, ReadyAgain
  <2> QED
    BY <1>2, <2>1, <2>2 DEF AtHead
<1> QED
  BY <1>1, <1>2

\* a turn is begun
LEMMA FrameTurn ==
  ASSUME NEW t, TextOK(t), NEW calls \in Calls, NEW todo, TodoOK(t, todo), NEW env,
         NEW low \in Nat, NEW high \in Nat, Frame(t, calls, todo, env, low, high),
         NEW k \in 1..Len(t), k = todo[Len(todo)], t[k].is = "while",
         \A i \in DOMAIN t[k].conds : TRUE \in Answers(t[k].conds[i], env)
  PROVE  /\ Asked(t[k].conds) \in Nat
         /\ Frame(t, calls, Append(todo, t[k].then), env, low + Asked(t[k].conds), high)
<1> DEFINE n == Len(todo)
           s == t[k]
           todo2 == Append(todo, s.then)
           b == Block(t, calls, TRUE)
<1>0. n \in 1..Len(todo) /\ todo \in Seq(0..Len(t)) /\ s.then \in 0..Len(t)
  <2>1. s.then \in 0..Len(t)
    BY StatementFacts
  <2> QED
    BY <2>1 DEF TodoOK
<1>1. PICK K, R, T : Held(t, calls, todo, env, low, high, K, R, T)
  BY DEF Frame
<1>2. /\ n \in Nat /\ K[n] \in Known /\ R[n] \in Remains
      /\ T[n] \in Nat /\ T[n - 1] \in Nat /\ low <= T[n] /\ T[n - 1] <= high
      /\ Price(t, calls, k, K[n], R[n]) \in Nat /\ T[n] + Price(t, calls, k, K[n], R[n]) <= T[n - 1]
      /\ KnownOf(K[n], env)
      /\ R[n] # None => /\ \A x \in Names : K[n][x] # None => ~Bound(t, s.then, x)
                        /\ Counted(t, s, K[n], R[n], todo, env, n)
  <2>1. /\ n \in Nat /\ K[n] \in Known /\ R[n] \in Remains
        /\ T[n] \in Nat /\ T[n - 1] \in Nat /\ low <= T[n] /\ T[n - 1] <= high
        /\ Price(t, calls, todo[n], K[n], R[n]) \in Nat
        /\ T[n] + Price(t, calls, todo[n], K[n], R[n]) <= T[n - 1]
        /\ KnownOf(K[n], env)
    BY <1>1, HeldTop
  <2>2. ASSUME R[n] # None
        PROVE  /\ \A x \in Names : K[n][x] # None => ~Bound(t, t[todo[n]].then, x)
               /\ Counted(t, t[todo[n]], K[n], R[n], todo, env, n)
    <3>1. Place(t, calls, todo, env, K[n], R[n], T[n], T[n - 1], n)
      BY <1>0, <1>1 DEF Held
    <3> QED
      BY <2>2, <3>1 DEF Place
  <2>3. todo[n] = k
    OBVIOUS
  <2> HIDE DEF n
  <2> QED
    BY <2>1, <2>2, <2>3
<1> DEFINE was == Price(t, calls, k, K[n], R[n])
<1>3. AtHead(t, calls, k, env, was)
  BY <1>2, Heads
<1>4. PICK known \in Known, r \in Nat \union {Inf} :
        /\ KnownOf(known, env) /\ Ready(t, s, known, r, env)
        /\ \A x \in Names : known[x] # None => ~Bound(t, s.then, x)
        /\ Price(t, calls, k, known, r) = was
  BY <1>3 DEF AtHead
<1>5. /\ r # Inf => r >= 1
      /\ Counted(t, s, known, Less(r), todo2, env, n)
  BY <1>4, TurnBegins
<1> DEFINE a == Asked(s.conds)
           body == b[s.then][known]
           price == Price(t, calls, k, known, Less(r))
           start == T[n] + a
           at == start + body
<1>6. a \in Nat /\ body \in Nat /\ price \in Nat /\ a + body + price <= was /\ was \in Nat
  BY <1>2, <1>4, <1>5, PriceWhile, ZenonT(40)
<1>7. /\ start \in Nat /\ at \in Nat /\ low + a \in Nat /\ low + a <= start /\ start <= at
      /\ at + price <= T[n - 1] /\ at <= high
  <2> DEFINE T1 == T[n]
             T0 == T[n - 1]
  <2>1. T1 \in Nat /\ T0 \in Nat /\ low <= T1 /\ T0 <= high /\ T1 + was <= T0
    BY <1>2
  <2> HIDE DEF T1, T0, was, a, body, price
  <2>2. a \in Nat /\ body \in Nat /\ price \in Nat /\ was \in Nat /\ a + body + price <= was
    BY <1>6
  <2>3. T1 + a \in Nat /\ T1 + a + body \in Nat /\ low + a \in Nat /\ low + a <= T1 + a
    BY <2>1, <2>2
  <2>4. T1 + a <= T1 + a + body /\ T1 + a + body + price <= T0
    BY <2>1, <2>2
  <2>5. T1 + a + body <= high
    BY <2>1, <2>2, <2>3, <2>4
  <2> QED
    BY <2>3, <2>4, <2>5 DEF T1, T0
<1>8. Less(r) \in Remains /\ Less(r) # None
  BY <1>5, LoopsAssumption DEF Less, Remains
<1>9. Moved(t, todo, env, todo2, env)
  BY MovedBody
<1>10. Len(todo2) = n + 1 /\ todo2[n] = k /\ todo2[n + 1] = s.then
  BY <1>0
<1> HIDE DEF todo2, at, start, price, body, a, was, b
<1>11. Place(t, calls, todo2, env, known, None, start, at, n + 1)
  <2>1. start + body <= at
    BY <1>6, <1>7 DEF at
  <2>2. s.then = todo2[Len(todo2)] /\ Len(todo2) \in Nat
    BY <1>2, <1>10
  <2>3. Place(t, calls, todo2, env, known, None, start, at, Len(todo2))
    BY <1>4, <1>6, <2>1, <2>2, PlaceLast DEF b, body
  <2> QED
    BY <1>10, <2>3
<1>12. Place(t, calls, todo2, env, known, Less(r), at, T[n - 1], n)
  <2>1. Agrees(t, known, todo2, env, n)
    <3>1. \A j \in (n + 1)..Len(todo2) : j = n + 1
      BY <1>2, <1>10
    <3> QED
      BY <1>4, <1>10, <3>1 DEF Agrees
  <2>2. Price(t, calls, todo2[n], known, Less(r)) = price
    BY <1>10 DEF price
  <2>3. todo2[n] # 0 /\ t[todo2[n]] = s
    BY <1>10
  <2> QED
    BY <1>4, <1>5, <1>6, <1>7, <2>1, <2>2, <2>3 DEF Place
<1>13. start <= high /\ at \in Nat
  <2> HIDE DEF s
  <2> QED
    BY <1>7
<1>14. Frame(t, calls, todo2, env, low + a, high)
  BY <1>1, <1>2, <1>4, <1>7, <1>8, <1>9, <1>10, <1>11, <1>12, <1>13, FrameMore
<1> QED
  BY <1>6, <1>14 DEF todo2, a

\* a loop is over
LEMMA FrameOver ==
  ASSUME NEW t, TextOK(t), NEW calls \in Calls, NEW todo, TodoOK(t, todo), NEW env,
         NEW low \in Nat, NEW high \in Nat, Frame(t, calls, todo, env, low, high),
         NEW k \in 1..Len(t), k = todo[Len(todo)], t[k].is = "while",
         NEW c \in Nat, c <= Asked(t[k].conds)
  PROVE  Frame(t, calls, [todo EXCEPT ![Len(todo)] = t[k].next], env, low + c, high)
<1> DEFINE n == Len(todo)
           s == t[k]
           rest == [todo EXCEPT ![n] = s.next]
           b == Block(t, calls, TRUE)
<1>0. n \in 1..Len(todo)
  BY DEF TodoOK
<1>1. PICK K, R, T : Held(t, calls, todo, env, low, high, K, R, T)
  BY DEF Frame
<1>2. /\ n \in Nat /\ K[n] \in Known /\ R[n] \in Remains
      /\ T[n] \in Nat /\ T[n - 1] \in Nat /\ low <= T[n] /\ T[n - 1] <= high
      /\ Price(t, calls, k, K[n], R[n]) \in Nat /\ T[n] + Price(t, calls, k, K[n], R[n]) <= T[n - 1]
      /\ KnownOf(K[n], env)
      /\ R[n] # None => /\ \A x \in Names : K[n][x] # None => ~Bound(t, s.then, x)
                        /\ Counted(t, s, K[n], R[n], todo, env, n)
  <2>1. /\ n \in Nat /\ K[n] \in Known /\ R[n] \in Remains
        /\ T[n] \in Nat /\ T[n - 1] \in Nat /\ low <= T[n] /\ T[n - 1] <= high
        /\ Price(t, calls, todo[n], K[n], R[n]) \in Nat
        /\ T[n] + Price(t, calls, todo[n], K[n], R[n]) <= T[n - 1]
        /\ KnownOf(K[n], env)
    BY <1>1, HeldTop
  <2>2. ASSUME R[n] # None
        PROVE  /\ \A x \in Names : K[n][x] # None => ~Bound(t, t[todo[n]].then, x)
               /\ Counted(t, t[todo[n]], K[n], R[n], todo, env, n)
    <3>1. Place(t, calls, todo, env, K[n], R[n], T[n], T[n - 1], n)
      BY <1>0, <1>1 DEF Held
    <3> QED
      BY <2>2, <3>1 DEF Place
  <2>3. todo[n] = k
    OBVIOUS
  <2> HIDE DEF n
  <2> QED
    BY <2>1, <2>2, <2>3
<1> DEFINE was == Price(t, calls, k, K[n], R[n])
<1>3. AtHead(t, calls, k, env, was)
  BY <1>2, Heads
<1>4. PICK known \in Known, r \in Nat \union {Inf} :
        KnownOf(known, env) /\ Price(t, calls, k, known, r) = was
  BY <1>3 DEF AtHead
<1> DEFINE a == Asked(s.conds)
           more == b[s.next][known]
           at == T[n] + c
<1>5. a \in Nat /\ more \in Nat /\ a + more <= was /\ was \in Nat
  BY <1>2, <1>4, PriceWhile, ZenonT(40)
<1>6. /\ at \in Nat /\ low + c \in Nat /\ low + c <= at /\ at + more <= T[n - 1] /\ at <= high
  <2> DEFINE T1 == T[n]
             T0 == T[n - 1]
  <2>1. T1 \in Nat /\ T0 \in Nat /\ low <= T1 /\ T0 <= high /\ T1 + was <= T0
    BY <1>2
  <2>2. c <= a
    OBVIOUS
  <2> HIDE DEF T1, T0, was, a, more
  <2>3. /\ T1 + c \in Nat /\ low + c \in Nat /\ low + c <= T1 + c
        /\ T1 + c + more <= T0 /\ T1 + c <= high
    BY <1>5, <2>1, <2>2
  <2> QED
    BY <2>3 DEF T1, T0
<1>7. Moved(t, todo, env, rest, env)
  BY MovedRest
<1>8. Len(rest) = n /\ rest[n] = s.next
  BY <1>0 DEF TodoOK
<1> HIDE DEF rest, at, more, a, was, b
<1>9. Place(t, calls, rest, env, known, None, at, T[n - 1], n)
  <2>1. s.next = rest[Len(rest)] /\ Len(rest) \in Nat
    BY <1>2, <1>8
  <2>2. Place(t, calls, rest, env, known, None, at, T[n - 1], Len(rest))
    BY <1>4, <1>5, <1>6, <2>1, PlaceLast DEF b, more
  <2> QED
    BY <1>8, <2>2
<1>10. None \in Remains
  BY DEF Remains
<1>11. Frame(t, calls, rest, env, low + c, high)
  BY <1>1, <1>4, <1>6, <1>7, <1>8, <1>9, <1>10, FrameSame
<1> QED
  BY <1>11 DEF rest

\* a block is over
LEMMA FrameEnd ==
  ASSUME NEW t, TextOK(t), NEW calls, NEW todo, TodoOK(t, todo), NEW env,
         NEW low \in Nat, NEW high \in Nat, Frame(t, calls, todo, env, low, high),
         Len(todo) > 1, todo[Len(todo)] = 0
  PROVE  Frame(t, calls, Front(todo), env, low, high)
<1>1. Moved(t, todo, env, Front(todo), env)
  BY MovedPop
<1>2. Len(Front(todo)) = Len(todo) - 1
  BY DEF TodoOK, Front
<1> QED
  BY <1>1, <1>2, FrameLess

\* what is performed by a call stays under what it may come to
LEMMA FrameUnder ==
  ASSUME NEW t, NEW calls, NEW todo, NEW env,
         NEW low \in Nat, NEW high \in Nat, Frame(t, calls, todo, env, low, high)
  PROVE  low <= high
<1>1. TodoOK(t, todo)
  BY DEF Frame
<1>2. PICK K, R, T : Held(t, calls, todo, env, low, high, K, R, T)
  BY DEF Frame
<1> DEFINE n == Len(todo)
           price == Price(t, calls, todo[n], K[n], R[n])
           T1 == T[n]
           T0 == T[n - 1]
<1>3. T1 \in Nat /\ T0 \in Nat /\ price \in Nat /\ low <= T1 /\ T0 <= high /\ T1 + price <= T0
  BY <1>1, <1>2, HeldTop
<1> HIDE DEF price, T1, T0
<1> QED
  BY <1>3

\* a call is begun, of a body that may perform so much
LEMMA FrameBegin ==
  ASSUME NEW t, TextOK(t), NEW calls \in Calls, NEW k \in 0..Len(t), NEW env,
         NEW low \in Nat, NEW high \in Nat, Block(t, calls, TRUE)[k][Nothing] \in Nat,
         low + Block(t, calls, TRUE)[k][Nothing] <= high
  PROVE  Frame(t, calls, <<k>>, env, low, high)
<1> DEFINE todo == <<k>>
           K == [i \in {1} |-> Nothing]
           R == [i \in {1} |-> None]
           T == [i \in 0..1 |-> IF i = 0 THEN high ELSE low]
<1>1. todo \in Seq(0..Len(t)) /\ Len(todo) = 1 /\ todo[1] = k
  OBVIOUS
<1>2. Nothing \in Known /\ KnownOf(Nothing, env) /\ None \in Remains
  BY DEF Nothing, Known, KnownOf, Remains
<1>3. K[1] = Nothing /\ R[1] = None /\ T[0] = high /\ T[1] = low
  OBVIOUS
<1>4. 1..Len(todo) = {1} /\ 0..Len(todo) = 0..1
  BY <1>1
<1>5. K \in [{1} -> Known] /\ R \in [{1} -> Remains] /\ T \in [0..1 -> Nat]
  BY <1>2
<1> HIDE DEF todo, K, R, T
<1>6. Place(t, calls, todo, env, Nothing, None, low, high, 1)
  <2>1. k = todo[Len(todo)] /\ Len(todo) \in Nat
    BY <1>1
  <2>2. Place(t, calls, todo, env, Nothing, None, low, high, Len(todo))
    BY <1>2, <2>1, PlaceLast
  <2> QED
    BY <1>1, <2>2
<1>7. low <= high
  <2> DEFINE price == Block(t, calls, TRUE)[k][Nothing]
  <2>1. price \in Nat /\ low + price <= high
    OBVIOUS
  <2> HIDE DEF price
  <2> QED
    BY <2>1
<1>8. Held(t, calls, todo, env, low, high, K, R, T)
  <2>1. \A i \in {1} : T[i] <= high /\ Place(t, calls, todo, env, K[i], R[i], T[i], T[i - 1], i)
    BY <1>3, <1>6, <1>7
  <2>2. low <= T[Len(todo)]
    BY <1>1, <1>3
  <2> QED
    BY <1>3, <1>4, <1>5, <2>1, <2>2 DEF Held
<1>9. TodoOK(t, todo)
  BY <1>1 DEF TodoOK
<1>10. Frame(t, calls, todo, env, low, high)
  BY <1>8, <1>9 DEF Frame
<1> QED
  BY <1>10 DEF todo

-----------------------------------------------------------------------------
(* The calls on the stack *)

\* L is what has been performed at most when each call goes on, the next one
\* within it over, and A the functions it is reckoned with as active
Levels(p, st, most, done, L, A) ==
  /\ L \in [0..Len(st) -> Nat] /\ A \in [1..Len(st) -> SUBSET Functions]
  /\ L[0] = most /\ done <= L[Len(st)]
  /\ \A i \in 1..Len(st) :
       /\ L[i] <= most
       /\ Frame(p.text, Bounds(p, TRUE)[A[i]], st[i].todo, st[i].env, L[i], L[i - 1])

Stacked(p, st, most, done) ==
  /\ \E X : st \in Seq(X)
  /\ \E L, A : Levels(p, st, most, done, L, A)

\* a call that goes from f to g performs so many operations
Pays(t, f, g, c) ==
  \A calls \in Calls, low \in Nat, high \in Nat :
    Frame(t, calls, f.todo, f.env, low, high) => Frame(t, calls, g.todo, g.env, low + c, high)

\* where the innermost call stands
LEMMA LevelsTop ==
  ASSUME NEW p \in Programs, NEW st, NEW X, st \in Seq(X), st # <<>>, NEW most \in Nat, NEW done \in Nat,
         NEW L, NEW A, Levels(p, st, most, done, L, A)
  PROVE  LET n == Len(st)
         IN  /\ n \in Nat /\ n >= 1
             /\ A[n] \in SUBSET Functions /\ Bounds(p, TRUE)[A[n]] \in Calls
             /\ L[n] \in Nat /\ L[n - 1] \in Nat /\ done <= L[n] /\ L[n] <= L[n - 1] /\ L[n - 1] <= most
             /\ Frame(p.text, Bounds(p, TRUE)[A[n]], st[n].todo, st[n].env, L[n], L[n - 1])
             /\ TodoOK(p.text, st[n].todo)
<1> DEFINE n == Len(st)
           calls == Bounds(p, TRUE)[A[n]]
<1>1. n \in Nat /\ n >= 1
  OBVIOUS
<1>2. n \in 1..n /\ n \in 0..n /\ n - 1 \in 0..n
  BY <1>1
<1>3. /\ A[n] \in SUBSET Functions /\ L[n] \in Nat /\ L[n - 1] \in Nat /\ done <= L[n]
      /\ Frame(p.text, calls, st[n].todo, st[n].env, L[n], L[n - 1])
  BY <1>2 DEF Levels
<1>4. calls \in Calls
  <2>1. TRUE \in BOOLEAN
    OBVIOUS
  <2> QED
    BY <1>3, <2>1, BoundsAre
<1>5. L[n] <= L[n - 1]
  <2> HIDE DEF calls, n
  <2> QED
    BY <1>3, FrameUnder
<1>6. L[n - 1] <= most
  <2> HIDE DEF n
  <2>0. L[0] = most /\ most <= most /\ \A i \in 1..n : L[i] <= most
    BY SMTT(30) DEF Levels, n
  <2>1. CASE n = 1
    BY <2>0, <2>1
  <2>2. CASE n > 1
    <3>1. n - 1 \in 1..n
      BY <1>1, <2>2
    <3> QED
      BY <2>0, <3>1
  <2> QED
    BY <1>1, <2>1, <2>2
<1>7. TodoOK(p.text, st[n].todo)
  BY <1>3 DEF Frame
<1> QED
  BY <1>1, <1>3, <1>4, <1>5, <1>6, <1>7

\* what has been performed is under the bound
LEMMA StackUnder ==
  ASSUME NEW p \in Programs, NEW st, NEW most \in Nat, NEW done \in Nat, Stacked(p, st, most, done)
  PROVE  done <= most
<1>1. PICK X : st \in Seq(X)
  BY DEF Stacked
<1>2. PICK L, A : Levels(p, st, most, done, L, A)
  BY DEF Stacked
<1>3. CASE st = <<>>
  <2>1. Len(st) = 0
    BY <1>3
  <2> QED
    BY <1>2, <2>1 DEF Levels
<1>4. CASE st # <<>>
  <2> DEFINE L1 == L[Len(st)]
             L0 == L[Len(st) - 1]
  <2>1. L1 \in Nat /\ L0 \in Nat /\ done <= L1 /\ L1 <= L0 /\ L0 <= most
    BY <1>1, <1>2, <1>4, LevelsTop
  <2> HIDE DEF L1, L0
  <2> QED
    BY <2>1
<1> QED
  BY <1>3, <1>4

\* a run that is over keeps to its bound
LEMMA StackNone ==
  ASSUME NEW p, NEW most \in Nat, NEW done \in Nat, done <= most
  PROVE  Stacked(p, <<>>, most, done)
<1> DEFINE st == <<>>
           L == [i \in 0..0 |-> most]
           A == [i \in 1..0 |-> {}]
<1>1. Len(st) = 0 /\ st \in Seq({})
  OBVIOUS
<1>2. L \in [0..0 -> Nat] /\ A \in [1..0 -> SUBSET Functions] /\ L[0] = most
  OBVIOUS
<1>3. \A i \in 1..0 : FALSE
  OBVIOUS
<1> HIDE DEF st, L, A
<1>4. Levels(p, st, most, done, L, A)
  BY <1>1, <1>2, <1>3 DEF Levels
<1>5. Stacked(p, st, most, done)
  BY <1>1, <1>4 DEF Stacked
<1> QED
  BY <1>5 DEF st

\* the innermost call goes on
LEMMA StackGoes ==
  ASSUME NEW p \in Programs, NEW st, st # <<>>, NEW most \in Nat, NEW done \in Nat,
         Stacked(p, st, most, done), NEW g, NEW c \in Nat, Pays(p.text, st[Len(st)], g, c)
  PROVE  Stacked(p, [st EXCEPT ![Len(st)] = g], most, done + c)
<1>1. PICK X : st \in Seq(X)
  BY DEF Stacked
<1>2. PICK L, A : Levels(p, st, most, done, L, A)
  BY DEF Stacked
<1> DEFINE n == Len(st)
           st2 == [st EXCEPT ![n] = g]
           calls == Bounds(p, TRUE)[A[n]]
           L2 == [L EXCEPT ![n] = L[n] + c]
<1>3. /\ n \in Nat /\ n >= 1 /\ calls \in Calls
      /\ L[n] \in Nat /\ L[n - 1] \in Nat /\ done <= L[n] /\ L[n - 1] <= most
      /\ Frame(p.text, calls, st[n].todo, st[n].env, L[n], L[n - 1])
  BY <1>1, <1>2, LevelsTop
<1>4. st2 \in Seq(X \union {g}) /\ Len(st2) = n /\ st2[n] = g /\ \A i \in 1..(n - 1) : st2[i] = st[i]
  BY <1>1, <1>3
<1>5. Frame(p.text, calls, g.todo, g.env, L[n] + c, L[n - 1])
  <2> HIDE DEF calls, n
  <2> QED
    BY <1>3 DEF Pays, n
<1>6. L[n] + c \in Nat /\ L[n] + c <= most /\ done + c <= L[n] + c
  <2> DEFINE L1 == L[n]
             L0 == L[n - 1]
  <2>1. L1 \in Nat /\ L0 \in Nat /\ done <= L1 /\ L0 <= most
    BY <1>3
  <2>2. L1 + c \in Nat
    <3> HIDE DEF L1
    <3> QED
      BY <2>1
  <2>3. L1 + c <= L0
    <3>1. Frame(p.text, calls, g.todo, g.env, L1 + c, L0)
      BY <1>5
    <3> HIDE DEF calls, n, L1, L0
    <3> QED
      BY <2>1, <2>2, <3>1, FrameUnder
  <2> HIDE DEF L1, L0
  <2>4. L1 + c <= most /\ done + c <= L1 + c
    BY <2>1, <2>2, <2>3
  <2> QED
    BY <2>2, <2>4 DEF L1
<1>7. /\ L2 \in [0..n -> Nat] /\ L2[n] = L[n] + c
      /\ \A i \in 0..(n - 1) : L2[i] = L[i]
  <2>1. L \in [0..n -> Nat]
    BY <1>2 DEF Levels
  <2> QED
    BY <1>3, <1>6, <2>1
<1>8. ASSUME NEW i \in 1..n
      PROVE  /\ L2[i] <= most
             /\ Frame(p.text, Bounds(p, TRUE)[A[i]], st2[i].todo, st2[i].env, L2[i], L2[i - 1])
  <2>1. CASE i = n
    <3>0. n - 1 \in 0..(n - 1)
      BY <1>3
    <3> HIDE DEF L2, st2
    <3>1. L2[i] = L[n] + c /\ L2[i - 1] = L[n - 1] /\ st2[i] = g
      BY <1>4, <1>7, <2>1, <3>0
    <3> QED
      BY <1>5, <1>6, <2>1, <3>1
  <2>2. CASE i # n
    <3>1. i \in 1..(n - 1) /\ i \in 0..(n - 1) /\ i - 1 \in 0..(n - 1)
      BY <1>3, <2>2
    <3>2. L2[i] = L[i] /\ L2[i - 1] = L[i - 1] /\ st2[i] = st[i]
      BY <1>4, <1>7, <3>1
    <3>3. /\ L[i] <= most
          /\ Frame(p.text, Bounds(p, TRUE)[A[i]], st[i].todo, st[i].env, L[i], L[i - 1])
      BY <1>2 DEF Levels
    <3> HIDE DEF L2, st2
    <3> QED
      BY <3>2, <3>3
  <2> QED
    BY <2>1, <2>2
<1>9. L2[0] = most
  BY <1>2, <1>3, <1>7 DEF Levels
<1>10. A \in [1..n -> SUBSET Functions]
  BY <1>2 DEF Levels
<1>11. done + c <= L2[n]
  BY <1>6, <1>7
<1> HIDE DEF L2, st2
<1>12. Levels(p, st2, most, done + c, L2, A)
  BY <1>4, <1>7, <1>8, <1>9, <1>10, <1>11 DEF Levels
<1>13. Stacked(p, st2, most, done + c)
  BY <1>4, <1>12 DEF Stacked
<1> QED
  BY <1>13 DEF st2

\* a call is over
LEMMA StackLess ==
  ASSUME NEW p \in Programs, NEW st, st # <<>>, NEW most \in Nat, NEW done \in Nat,
         Stacked(p, st, most, done)
  PROVE  Stacked(p, Front(st), most, done)
<1>1. PICK X : st \in Seq(X)
  BY DEF Stacked
<1>2. PICK L, A : Levels(p, st, most, done, L, A)
  BY DEF Stacked
<1> DEFINE n == Len(st)
           st2 == Front(st)
           L2 == [i \in 0..(n - 1) |-> L[i]]
           A2 == [i \in 1..(n - 1) |-> A[i]]
<1>3. /\ n \in Nat /\ n >= 1
      /\ L[n] \in Nat /\ L[n - 1] \in Nat /\ done <= L[n] /\ L[n] <= L[n - 1]
  BY <1>1, <1>2, LevelsTop
<1>4. st2 \in Seq(X) /\ Len(st2) = n - 1 /\ \A i \in 1..(n - 1) : st2[i] = st[i]
  <2>1. st2 = SubSeq(st, 1, n - 1)
    BY DEF Front
  <2>2. SubSeq(st, 1, n - 1) \in Seq(X) /\ Len(SubSeq(st, 1, n - 1)) = n - 1
    <3> DEFINE less == SubSeq(st, 1, n - 1)
    <3>1. n - 1 \in 0..n /\ n - 1 >= 0
      BY <1>3
    <3>2. Len(less) = n - 1
      <4>1. CASE n = 1
        <5>1. less = SubSeq(st, 1, 0)
          BY <4>1
        <5>2. Len(SubSeq(st, 1, 0)) = 0
          BY <1>1
        <5> QED
          BY <4>1, <5>1, <5>2
      <4>2. CASE n > 1
        BY <1>1, <1>3, <4>2
      <4>3. n = 1 \/ n > 1
        <5>1. n \in Nat /\ n >= 1
          BY <1>3
        <5> HIDE DEF n
        <5> QED
          BY <5>1
      <4> QED
        BY <4>1, <4>2, <4>3
    <3>3. \A i \in 1..(n - 1) : st[i] \in X
      BY <1>1, <1>3
    <3>4. less \in Seq(X)
      BY <1>1, <1>3, <3>1, <3>3
    <3> QED
      BY <3>2, <3>4
  <2>3. \A i \in 1..(n - 1) : SubSeq(st, 1, n - 1)[i] = st[i]
    BY <1>1, <1>3
  <2> HIDE DEF st2
  <2> QED
    BY <2>1, <2>2, <2>3
<1>5. done <= L[n - 1]
  <2> DEFINE L1 == L[n]
             L0 == L[n - 1]
  <2>1. L1 \in Nat /\ L0 \in Nat /\ done <= L1 /\ L1 <= L0
    BY <1>3
  <2> HIDE DEF L1, L0
  <2>2. done <= L0
    BY <2>1
  <2> QED
    BY <2>2 DEF L0
<1>6. /\ L \in [0..n -> Nat] /\ A \in [1..n -> SUBSET Functions] /\ L[0] = most
      /\ \A i \in 1..n :
           /\ L[i] <= most
           /\ Frame(p.text, Bounds(p, TRUE)[A[i]], st[i].todo, st[i].env, L[i], L[i - 1])
  BY <1>2 DEF Levels
<1>7. L2 \in [0..(n - 1) -> Nat] /\ A2 \in [1..(n - 1) -> SUBSET Functions] /\ L2[0] = most
      /\ L2[n - 1] = L[n - 1]
  BY <1>3, <1>6
<1>8. ASSUME NEW i \in 1..(n - 1)
      PROVE  /\ L2[i] <= most
             /\ Frame(p.text, Bounds(p, TRUE)[A2[i]], st2[i].todo, st2[i].env, L2[i], L2[i - 1])
  <2>1. i \in 1..n /\ L2[i] = L[i] /\ L2[i - 1] = L[i - 1] /\ A2[i] = A[i] /\ st2[i] = st[i]
    BY <1>3, <1>4
  <2> HIDE DEF L2, A2, st2, n
  <2> QED
    BY <1>6, <2>1
<1> HIDE DEF L2, A2, st2
<1>9. Levels(p, st2, most, done, L2, A2)
  BY <1>4, <1>5, <1>7, <1>8 DEF Levels
<1>10. Stacked(p, st2, most, done)
  BY <1>4, <1>9 DEF Stacked
<1> QED
  BY <1>10 DEF st2

\* a call goes from e to f, and g is the one it makes
CallMade(p, e, f, g) ==
  \E k \in 1..Len(p.text) :
    /\ k = e.todo[Len(e.todo)] /\ p.text[k].is = "call"
    /\ f.todo = [e.todo EXCEPT ![Len(e.todo)] = p.text[k].next] /\ f.env = e.env
    /\ g.todo = <<p.body[p.text[k].x]>>

\* the innermost call calls another
LEMMA StackCall ==
  ASSUME NEW p \in Programs, NEW st, st # <<>>, NEW most \in Nat, NEW done \in Nat,
         Stacked(p, st, most, done),
         NEW f, NEW g, CallMade(p, st[Len(st)], f, g)
  PROVE  Stacked(p, Append([st EXCEPT ![Len(st)] = f], g), most, done)
<1> DEFINE todo == st[Len(st)].todo
<1>0. PICK k \in 1..Len(p.text) :
        /\ k = todo[Len(todo)] /\ p.text[k].is = "call"
        /\ f.todo = [todo EXCEPT ![Len(todo)] = p.text[k].next] /\ f.env = st[Len(st)].env
        /\ g.todo = <<p.body[p.text[k].x]>>
  BY DEF CallMade
<1>1. PICK X : st \in Seq(X)
  BY DEF Stacked
<1>2. PICK L, A : Levels(p, st, most, done, L, A)
  BY DEF Stacked
<1> DEFINE t == p.text
           x == t[k].x
           n == Len(st)
           st2 == Append([st EXCEPT ![n] = f], g)
           calls == Bounds(p, TRUE)[A[n]]
           inner == A[n] \union {x}
           c == calls[x]
           L2 == [i \in 0..(n + 1) |-> IF i = n + 1 THEN L[n] ELSE IF i = n THEN L[n] + c ELSE L[i]]
           A2 == [i \in 1..(n + 1) |-> IF i = n + 1 THEN inner ELSE A[i]]
<1>3. /\ n \in Nat /\ n >= 1 /\ A[n] \in SUBSET Functions /\ calls \in Calls
      /\ L[n] \in Nat /\ L[n - 1] \in Nat /\ done <= L[n] /\ L[n] <= L[n - 1] /\ L[n - 1] <= most
      /\ Frame(t, calls, st[n].todo, st[n].env, L[n], L[n - 1])
      /\ TodoOK(t, st[n].todo)
  BY <1>1, <1>2, LevelsTop
<1>4. TextOK(t) /\ p.body \in [Functions -> 0..Len(t)]
  BY TextFacts
<1>5. x \in Functions /\ p.body[x] \in 0..Len(t)
  BY <1>0, <1>4 DEF TextOK
<1>6. c \in Nat /\ Frame(t, calls, f.todo, f.env, L[n] + c, L[n - 1])
  <2> DEFINE L1 == L[n]
             L0 == L[n - 1]
             env == st[n].env
  <2>1. /\ L1 \in Nat /\ L0 \in Nat /\ calls \in Calls /\ TodoOK(t, todo)
        /\ Frame(t, calls, todo, env, L1, L0)
    BY <1>3
  <2>2. t[k].is \in {"op", "call"} /\ k = todo[Len(todo)]
    BY <1>0
  <2>3. AtOnce(t[k], calls) = c
    BY <1>0 DEF AtOnce
  <2>4. AtOnce(t[k], calls) \in Nat
    <3> HIDE DEF L1, L0, env, calls, t, todo
    <3> QED
      BY <1>4, <2>1, <2>2, FrameOp DEF t
  <2>5. Frame(t, calls, [todo EXCEPT ![Len(todo)] = t[k].next], env, L1 + AtOnce(t[k], calls), L0)
    <3> HIDE DEF L1, L0, env, calls, t, todo
    <3> QED
      BY <1>4, <2>1, <2>2, FrameOp DEF t
  <2> QED
    BY <1>0, <2>3, <2>4, <2>5
<1>7. L[n] + c \in Nat /\ L[n] + c <= most /\ L[n] <= most
  <2> DEFINE L1 == L[n]
             L0 == L[n - 1]
  <2>1. /\ L1 \in Nat /\ L0 \in Nat /\ c \in Nat /\ L1 <= L0 /\ L0 <= most
        /\ Frame(t, calls, f.todo, f.env, L1 + c, L0)
    BY <1>3, <1>6
  <2> HIDE DEF L1, L0, c, calls, t
  <2>2. L1 + c \in Nat /\ L1 <= most
    BY <2>1
  <2>3. L1 + c <= L0
    BY <2>1, <2>2, FrameUnder
  <2>4. L1 + c <= most
    BY <2>1, <2>2, <2>3
  <2> QED
    BY <2>2, <2>4 DEF L1
<1>8. inner \in SUBSET Functions /\ Bounds(p, TRUE)[inner] \in Calls
  <2>1. TRUE \in BOOLEAN /\ inner \in SUBSET Functions
    BY <1>3, <1>5
  <2> HIDE DEF inner
  <2> QED
    BY <2>1, BoundsAre
<1>9. c = Block(t, Bounds(p, TRUE)[inner], TRUE)[p.body[x]][Nothing]
  <2>1. TRUE \in BOOLEAN
    OBVIOUS
  <2>2. calls = BoundsAt(p, TRUE, Bounds(p, TRUE), A[n])
    BY <1>3, <2>1, BoundsAre
  <2>3. c = IF x \in A[n] THEN Inf
            ELSE Block(t, Bounds(p, TRUE)[inner], TRUE)[p.body[x]][Nothing]
    <3> HIDE DEF calls
    <3> QED
      BY <1>5, <2>2 DEF BoundsAt
  <2>4. c # Inf
    <3> HIDE DEF c
    <3> QED
      BY <1>6, LoopsAssumption
  <2> QED
    BY <2>3, <2>4
<1>10. Frame(t, Bounds(p, TRUE)[inner], g.todo, g.env, L[n], L[n] + c)
  <2> DEFINE calls2 == Bounds(p, TRUE)[inner]
             k2 == p.body[x]
             L1 == L[n]
             high == L[n] + c
             env == g.env
  <2>1. TextOK(t) /\ calls2 \in Calls /\ k2 \in 0..Len(t) /\ L1 \in Nat /\ high \in Nat
    BY <1>3, <1>4, <1>5, <1>7, <1>8
  <2>2. Block(t, calls2, TRUE)[k2][Nothing] \in Nat /\ L1 + Block(t, calls2, TRUE)[k2][Nothing] <= high
    <3>1. Block(t, calls2, TRUE)[k2][Nothing] = c
      BY <1>9
    <3>2. high <= high
      <4>1. high \in Nat
        BY <2>1
      <4>2. \A i \in Nat : i <= i
        OBVIOUS
      <4> HIDE DEF high
      <4> QED
        BY <4>1, <4>2
    <3> HIDE DEF c
    <3> QED
      BY <1>6, <3>1, <3>2
  <2>3. g.todo = <<k2>>
    BY <1>0
  <2> HIDE DEF calls2, k2, L1, high, env, t
  <2>4. Frame(t, calls2, <<k2>>, env, L1, high)
    BY <2>1, <2>2, FrameBegin
  <2> QED
    BY <2>3, <2>4 DEF calls2, L1, high, env
<1>11. /\ st2 \in Seq(X \union {f, g}) /\ Len(st2) = n + 1 /\ st2[n + 1] = g /\ st2[n] = f
       /\ \A i \in 1..(n - 1) : st2[i] = st[i]
  <2> DEFINE half == [st EXCEPT ![n] = f]
  <2>1. half \in Seq(X \union {f, g}) /\ Len(half) = n /\ half[n] = f /\ \A i \in 1..(n - 1) : half[i] = st[i]
    BY <1>1, <1>3
  <2> HIDE DEF half, n
  <2> QED
    BY <1>3, <2>1 DEF half
<1>12. /\ L \in [0..n -> Nat] /\ A \in [1..n -> SUBSET Functions] /\ L[0] = most
       /\ \A i \in 1..n :
            /\ L[i] <= most
            /\ Frame(t, Bounds(p, TRUE)[A[i]], st[i].todo, st[i].env, L[i], L[i - 1])
  BY <1>2 DEF Levels
<1>13. /\ L2[n + 1] = L[n] /\ L2[n] = L[n] + c /\ L2[0] = most /\ \A i \in 0..(n - 1) : L2[i] = L[i]
       /\ A2[n + 1] = inner /\ \A i \in 1..n : A2[i] = A[i]
  <2> HIDE DEF c, inner, n
  <2> QED
    BY <1>3, <1>12
<1>14. L2 \in [0..(n + 1) -> Nat] /\ A2 \in [1..(n + 1) -> SUBSET Functions]
  <2>1. \A i \in 0..(n + 1) : i = n + 1 \/ i = n \/ i \in 0..n
    BY <1>3
  <2>2. \A i \in 1..(n + 1) : i = n + 1 \/ i \in 1..n
    BY <1>3
  <2> HIDE DEF c, inner, n
  <2> QED
    BY <1>3, <1>7, <1>8, <1>12, <2>1, <2>2
<1>15. ASSUME NEW i \in 1..(n + 1)
       PROVE  /\ L2[i] <= most
              /\ Frame(t, Bounds(p, TRUE)[A2[i]], st2[i].todo, st2[i].env, L2[i], L2[i - 1])
  <2> HIDE DEF L2, A2, st2, c, inner, calls, n, t
  <2>1. CASE i = n + 1
    <3>1. i - 1 = n
      BY <1>3, <2>1
    <3>2. L2[i] = L[n] /\ L2[i - 1] = L[n] + c /\ A2[i] = inner /\ st2[i] = g
      BY <1>11, <1>13, <2>1, <3>1
    <3> QED
      BY <1>7, <1>10, <3>2
  <2>2. CASE i = n
    <3>1. n - 1 \in 0..(n - 1) /\ n \in 1..n
      BY <1>3
    <3>2. L2[i] = L[n] + c /\ L2[i - 1] = L[n - 1] /\ A2[i] = A[n] /\ st2[i] = f
      BY <1>11, <1>13, <2>2, <3>1
    <3> QED
      BY <1>6, <1>7, <3>2 DEF calls
  <2>3. CASE i \notin {n, n + 1}
    <3>1. i \in 1..(n - 1) /\ i \in 1..n /\ i \in 0..(n - 1) /\ i - 1 \in 0..(n - 1)
      BY <1>3, <2>3
    <3>2. L2[i] = L[i] /\ L2[i - 1] = L[i - 1] /\ A2[i] = A[i] /\ st2[i] = st[i]
      BY <1>11, <1>13, <3>1
    <3> QED
      BY <1>12, <3>1, <3>2
  <2> QED
    BY <2>1, <2>2, <2>3
<1>16. done <= L2[n + 1]
  BY <1>3, <1>13
<1> HIDE DEF L2, A2, st2
<1>17. Levels(p, st2, most, done, L2, A2)
  BY <1>11, <1>13, <1>14, <1>15, <1>16 DEF Levels
<1>18. Stacked(p, st2, most, done)
  BY <1>11, <1>17 DEF Stacked
<1> QED
  BY <1>18 DEF st2

\* a run begins
LEMMA StackBegins ==
  ASSUME NEW p \in Programs, OperationBound(p, TRUE) \in Nat, NEW f, f.todo = <<p.body[Start]>>
  PROVE  Stacked(p, <<f>>, OperationBound(p, TRUE), 0)
<1> DEFINE t == p.text
           most == OperationBound(p, TRUE)
           calls == Bounds(p, TRUE)[{Start}]
           k == p.body[Start]
           st == <<f>>
           L == [i \in 0..1 |-> IF i = 0 THEN most ELSE 0]
           A == [i \in {1} |-> {Start}]
<1>0. Start \in Functions /\ TRUE \in BOOLEAN
  BY LoopsAssumption
<1>1. TextOK(t) /\ k \in 0..Len(t)
  BY <1>0, TextFacts
<1>2. calls \in Calls
  <2>1. {Start} \in SUBSET Functions
    BY <1>0
  <2> QED
    BY <1>0, <2>1, BoundsAre
<1>3. most = Block(t, calls, TRUE)[k][Nothing]
  <2>1. {} \in SUBSET Functions
    OBVIOUS
  <2>2. Bounds(p, TRUE)[{}] = BoundsAt(p, TRUE, Bounds(p, TRUE), {})
    BY <1>0, <2>1, BoundsAre
  <2>3. {} \union {Start} = {Start}
    OBVIOUS
  <2> QED
    BY <1>0, <2>2, <2>3 DEF OperationBound, BoundsAt
<1>4. most \in Nat
  OBVIOUS
<1> HIDE DEF most, calls, k, t
<1>5. Frame(t, calls, <<k>>, f.env, 0, most)
  <2> DEFINE env == f.env
             price == Block(t, calls, TRUE)[k][Nothing]
  <2>1. price \in Nat /\ 0 + price <= most /\ 0 \in Nat
    <3>1. price = most
      BY <1>3
    <3> HIDE DEF price
    <3> QED
      BY <1>4, <3>1
  <2> HIDE DEF env
  <2>2. Frame(t, calls, <<k>>, env, 0, most)
    BY <1>1, <1>2, <1>4, <2>1, FrameBegin
  <2> QED
    BY <2>2 DEF env
<1>6. st \in Seq({f}) /\ Len(st) = 1 /\ st[1] = f
  OBVIOUS
<1>7. 1..Len(st) = {1} /\ 0..Len(st) = 0..1
  BY <1>6
<1>8. /\ L \in [0..1 -> Nat] /\ A \in [{1} -> SUBSET Functions]
      /\ L[0] = most /\ L[1] = 0 /\ A[1] = {Start}
  BY <1>0, <1>4
<1>9. f.todo = <<k>>
  BY DEF k
<1> HIDE DEF st, L, A
<1>10. \A i \in {1} :
         /\ L[i] <= most
         /\ Frame(p.text, Bounds(p, TRUE)[A[i]], st[i].todo, st[i].env, L[i], L[i - 1])
  <2>1. Frame(p.text, Bounds(p, TRUE)[A[1]], st[1].todo, st[1].env, L[1], L[0])
    BY <1>5, <1>6, <1>8, <1>9 DEF t, calls
  <2>2. L[1] <= most
    BY <1>4, <1>8
  <2>3. ASSUME NEW i \in {1}
        PROVE  /\ L[i] <= most
               /\ Frame(p.text, Bounds(p, TRUE)[A[i]], st[i].todo, st[i].env, L[i], L[i - 1])
    <3>1. i = 1 /\ i - 1 = 0
      OBVIOUS
    <3> QED
      BY <2>1, <2>2, <3>1
  <2> QED
    BY <2>3
<1>11. 0 <= L[Len(st)]
  BY <1>6, <1>8
<1>12. Levels(p, st, most, 0, L, A)
  BY <1>7, <1>8, <1>10, <1>11 DEF Levels
<1>13. Stacked(p, st, most, 0)
  BY <1>6, <1>12 DEF Stacked
<1> QED
  BY <1>13 DEF st, most

-----------------------------------------------------------------------------
(* The run *)

\* no nan was dropped where the bound of a branch was taken
Kept == bound = OperationBound(program, TRUE)

\* the inductive invariant: what is still to be performed, by the places that
\* the calls on the stack have come to, fits in the bound
LoopsInv ==
  /\ program \in Programs
  /\ Kept /\ bound \in Nat => ops \in Nat /\ Stacked(program, stack, bound, ops)

\* what a state of the run gives the lemmas about one call
LEMMA Running ==
  ASSUME program \in Programs, stack # <<>>, ops \in Nat, bound \in Nat,
         Stacked(program, stack, bound, ops)
  PROVE  /\ TextOK(program.text) /\ TodoOK(program.text, Todo)
         /\ Todo = stack[Len(stack)].todo /\ Env = stack[Len(stack)].env
         /\ First = Todo[Len(Todo)] /\ First \in 0..Len(program.text)
         /\ First # 0 => First \in 1..Len(program.text)
         /\ S = program.text[First]
<1>1. PICK X : stack \in Seq(X)
  BY DEF Stacked
<1>2. PICK L, A : Levels(program, stack, bound, ops, L, A)
  BY DEF Stacked
<1>3. TodoOK(program.text, stack[Len(stack)].todo)
  BY <1>1, <1>2, LevelsTop
<1>4. TextOK(program.text)
  BY TextFacts
<1>5. /\ Todo = stack[Len(stack)].todo /\ Env = stack[Len(stack)].env
      /\ First = Todo[Len(Todo)] /\ S = program.text[First]
  BY DEF Todo, Env, First, S, Depth
<1>6. First \in 0..Len(program.text)
  BY <1>3, <1>5 DEF TodoOK
<1>7. First # 0 => First \in 1..Len(program.text)
  BY <1>6
<1> QED
  BY <1>3, <1>4, <1>5, <1>6, <1>7

\* a step of the innermost call that pays for what it performs keeps the stack
LEMMA GoesOn ==
  ASSUME program \in Programs, stack # <<>>, ops \in Nat, bound \in Nat,
         Stacked(program, stack, bound, ops), NEW todo, NEW env, GoesWith(todo, env),
         NEW c \in Nat, ops' = ops + c,
         Pays(program.text, [todo |-> Todo, env |-> Env], [todo |-> todo, env |-> env], c)
  PROVE  ops' \in Nat /\ Stacked(program, stack', bound, ops')
<1> DEFINE g == [todo |-> todo, env |-> env]
           f == stack[Len(stack)]
<1>1. stack' = [stack EXCEPT ![Len(stack)] = g]
  BY DEF GoesWith, Depth
<1>2. Pays(program.text, f, g, c)
  <2> DEFINE fields == [todo |-> Todo, env |-> Env]
  <2>1. fields.todo = f.todo /\ fields.env = f.env
    BY DEF Todo, Env, Depth
  <2>2. Pays(program.text, fields, g, c)
    OBVIOUS
  <2> HIDE DEF fields, f, g
  <2> QED
    BY <2>1, <2>2 DEF Pays
<1> HIDE DEF g, f
<1>3. Stacked(program, [stack EXCEPT ![Len(stack)] = g], bound, ops + c)
  BY <1>2, StackGoes DEF f
<1>4. ops + c \in Nat
  OBVIOUS
<1> QED
  BY <1>1, <1>3, <1>4

\* each way in which the innermost call may go on costs what it performs
LEMMA PaysLet ==
  ASSUME NEW t, TextOK(t), NEW todo, TodoOK(t, todo), NEW env, NEW k \in 1..Len(t),
         k = todo[Len(todo)], t[k].is \in {"let", "set"}, NEW new \in Values(t[k].e, env)
  PROVE  Pays(t, [todo |-> todo, env |-> env],
              [todo |-> [todo EXCEPT ![Len(todo)] = t[k].next], env |-> Bind(env, t[k].x, new)], 0)
<1> DEFINE rest == [todo EXCEPT ![Len(todo)] = t[k].next]
           env2 == Bind(env, t[k].x, new)
<1>1. ASSUME NEW calls \in Calls, NEW low \in Nat, NEW high \in Nat,
             Frame(t, calls, todo, env, low, high)
      PROVE  Frame(t, calls, rest, env2, low + 0, high)
  <2>1. Frame(t, calls, rest, env2, low, high)
    BY <1>1, FrameLet
  <2>2. low + 0 = low
    OBVIOUS
  <2> HIDE DEF rest, env2
  <2> QED
    BY <2>1, <2>2
<1> HIDE DEF rest, env2
<1>2. Pays(t, [todo |-> todo, env |-> env], [todo |-> rest, env |-> env2], 0)
  BY <1>1 DEF Pays
<1> QED
  BY <1>2 DEF rest, env2

\* an operation
LEMMA PaysOp ==
  ASSUME NEW t, TextOK(t), NEW todo, TodoOK(t, todo), NEW env, NEW k \in 1..Len(t),
         k = todo[Len(todo)], t[k].is = "op"
  PROVE  Pays(t, [todo |-> todo, env |-> env],
              [todo |-> [todo EXCEPT ![Len(todo)] = t[k].next], env |-> env], 1)
<1> DEFINE rest == [todo EXCEPT ![Len(todo)] = t[k].next]
<1>1. ASSUME NEW calls \in Calls, NEW low \in Nat, NEW high \in Nat,
             Frame(t, calls, todo, env, low, high)
      PROVE  Frame(t, calls, rest, env, low + 1, high)
  <2>1. AtOnce(t[k], calls) = 1
    BY DEF AtOnce
  <2>2. Frame(t, calls, rest, env, low + AtOnce(t[k], calls), high)
    BY <1>1, FrameOp
  <2> HIDE DEF rest
  <2> QED
    BY <2>1, <2>2
<1> HIDE DEF rest
<1>2. Pays(t, [todo |-> todo, env |-> env], [todo |-> rest, env |-> env], 1)
  BY <1>1 DEF Pays
<1> QED
  BY <1>2 DEF rest

\* an arm that is begun
LEMMA PaysArm ==
  ASSUME NEW t, TextOK(t), NEW todo, TodoOK(t, todo), NEW env, NEW k \in 1..Len(t),
         k = todo[Len(todo)], NEW arm \in {t[k].then, t[k].else}, NEW c \in Nat, NEW env2,
         \/ t[k].is = "if" /\ c <= Asked(t[k].conds) /\ env2 = env
         \/ t[k].is = "check" /\ c = 1 /\ \E new : env2 = Bind(env, t[k].x, new)
  PROVE  Pays(t, [todo |-> todo, env |-> env],
              [todo |-> Append([todo EXCEPT ![Len(todo)] = t[k].next], arm), env |-> env2], c)
<1> DEFINE more == Append([todo EXCEPT ![Len(todo)] = t[k].next], arm)
<1>1. ASSUME NEW calls \in Calls, NEW low \in Nat, NEW high \in Nat,
             Frame(t, calls, todo, env, low, high)
      PROVE  Frame(t, calls, more, env2, low + c, high)
  <2>1. c <= AtOnce(t[k], calls)
    BY DEF AtOnce
  <2>2. \/ t[k].is = "if" /\ env2 = env
        \/ t[k].is = "check" /\ \E new : env2 = Bind(env, t[k].x, new)
    OBVIOUS
  <2>3. t[k].is \in {"if", "check"}
    OBVIOUS
  <2> QED
    BY <1>1, <2>1, <2>2, <2>3, FrameArm
<1> HIDE DEF more
<1>2. Pays(t, [todo |-> todo, env |-> env], [todo |-> more, env |-> env2], c)
  BY <1>1 DEF Pays
<1> QED
  BY <1>2 DEF more

\* a turn that is begun
LEMMA PaysTurn ==
  ASSUME NEW t, TextOK(t), NEW todo, TodoOK(t, todo), NEW env, NEW k \in 1..Len(t),
         k = todo[Len(todo)], t[k].is = "while",
         \A i \in DOMAIN t[k].conds : TRUE \in Answers(t[k].conds[i], env)
  PROVE  Pays(t, [todo |-> todo, env |-> env],
              [todo |-> Append(todo, t[k].then), env |-> env], Asked(t[k].conds))
<1> DEFINE more == Append(todo, t[k].then)
<1>1. ASSUME NEW calls \in Calls, NEW low \in Nat, NEW high \in Nat,
             Frame(t, calls, todo, env, low, high)
      PROVE  Frame(t, calls, more, env, low + Asked(t[k].conds), high)
  BY <1>1, FrameTurn
<1> HIDE DEF more
<1>2. Pays(t, [todo |-> todo, env |-> env], [todo |-> more, env |-> env], Asked(t[k].conds))
  BY <1>1 DEF Pays
<1> QED
  BY <1>2 DEF more

\* a loop that is over
LEMMA PaysOver ==
  ASSUME NEW t, TextOK(t), NEW todo, TodoOK(t, todo), NEW env, NEW k \in 1..Len(t),
         k = todo[Len(todo)], t[k].is = "while", NEW c \in Nat, c <= Asked(t[k].conds)
  PROVE  Pays(t, [todo |-> todo, env |-> env],
              [todo |-> [todo EXCEPT ![Len(todo)] = t[k].next], env |-> env], c)
<1> DEFINE rest == [todo EXCEPT ![Len(todo)] = t[k].next]
<1>1. ASSUME NEW calls \in Calls, NEW low \in Nat, NEW high \in Nat,
             Frame(t, calls, todo, env, low, high)
      PROVE  Frame(t, calls, rest, env, low + c, high)
  BY <1>1, FrameOver
<1> HIDE DEF rest
<1>2. Pays(t, [todo |-> todo, env |-> env], [todo |-> rest, env |-> env], c)
  BY <1>1 DEF Pays
<1> QED
  BY <1>2 DEF rest

\* a block that is over
LEMMA PaysEnd ==
  ASSUME NEW t, TextOK(t), NEW todo, TodoOK(t, todo), NEW env, Len(todo) > 1, todo[Len(todo)] = 0
  PROVE  Pays(t, [todo |-> todo, env |-> env], [todo |-> Front(todo), env |-> env], 0)
<1> DEFINE less == Front(todo)
<1>1. ASSUME NEW calls \in Calls, NEW low \in Nat, NEW high \in Nat,
             Frame(t, calls, todo, env, low, high)
      PROVE  Frame(t, calls, less, env, low + 0, high)
  <2>1. Frame(t, calls, less, env, low, high)
    BY <1>1, FrameEnd
  <2>2. low + 0 = low
    OBVIOUS
  <2> HIDE DEF less
  <2> QED
    BY <2>1, <2>2
<1> HIDE DEF less
<1>2. Pays(t, [todo |-> todo, env |-> env], [todo |-> less, env |-> env], 0)
  BY <1>1 DEF Pays
<1> QED
  BY <1>2 DEF less

\* a run begins with its whole bound to perform
LEMMA LoopsInit ==
  ASSUME Init
  PROVE  LoopsInv
<1>1. PICK env \in Inputs : stack = << [todo |-> <<program.body[Start]>>, env |-> env] >>
  BY DEF Init
<1> DEFINE f == [todo |-> <<program.body[Start]>>, env |-> env]
<1>2. program \in Programs /\ ops = 0 /\ stack = <<f>> /\ f.todo = <<program.body[Start]>>
  BY <1>1 DEF Init
<1>3. ASSUME Kept, bound \in Nat
      PROVE  ops \in Nat /\ Stacked(program, stack, bound, ops)
  <2>1. bound = OperationBound(program, TRUE)
    BY <1>3 DEF Kept
  <2> HIDE DEF f
  <2>2. Stacked(program, <<f>>, OperationBound(program, TRUE), 0)
    BY <1>2, <1>3, <2>1, StackBegins
  <2> QED
    BY <1>2, <2>1, <2>2
<1> QED
  BY <1>2, <1>3 DEF LoopsInv

\* and no step of it performs more than is set aside for it
LEMMA LoopsNext ==
  ASSUME LoopsInv, [Next]_vars
  PROVE  LoopsInv'
<1>1. CASE UNCHANGED vars
  <2>1. /\ program' = program /\ stack' = stack /\ ops' = ops /\ bound' = bound
    BY <1>1 DEF vars
  <2> QED
    BY <2>1 DEF LoopsInv, Kept
<1>2. CASE Next
  <2>1. program' = program /\ bound' = bound /\ stack # <<>> /\ program \in Programs
    BY <1>2 DEF Next, LoopsInv
  <2>2. ASSUME Kept, bound \in Nat
        PROVE  ops' \in Nat /\ Stacked(program, stack', bound, ops')
    <3> DEFINE t == program.text
    <3>1. ops \in Nat /\ Stacked(program, stack, bound, ops)
      BY <2>2 DEF LoopsInv
    <3>2. /\ TextOK(t) /\ TodoOK(t, Todo)
          /\ Todo = stack[Len(stack)].todo /\ Env = stack[Len(stack)].env
          /\ First = Todo[Len(Todo)] /\ (First # 0 => First \in 1..Len(t))
          /\ S = t[First]
      BY <2>1, <2>2, <3>1, Running
    <3>3. ops + 0 = ops
      BY <3>1
    <3> HIDE DEF t
    <3>4. CASE First # 0 /\ LetOrAssign
      <4>1. PICK v \in Values(S.e, Env) : GoesWith(Rest, Binding(S.x, v))
        BY <3>4 DEF LetOrAssign
      <4>2. First \in 1..Len(t) /\ S.is \in {"let", "set"} /\ ops' = ops
        BY <3>2, <3>4 DEF LetOrAssign
      <4>3. Binding(S.x, v) = Bind(Env, S.x, v)
        BY DEF Binding, Bind
      <4>4. Pays(t, [todo |-> Todo, env |-> Env], [todo |-> Rest, env |-> Bind(Env, S.x, v)], 0)
        BY <3>2, <4>2, PaysLet DEF Rest
      <4> QED
        BY <2>1, <2>2, <3>1, <3>3, <4>1, <4>2, <4>3, <4>4, GoesOn DEF t
    <3>5. CASE First # 0 /\ Operate
      <4>1. First \in 1..Len(t) /\ S.is = "op" /\ GoesWith(Rest, Env) /\ ops' = ops + 1
        BY <3>2, <3>5 DEF Operate, Goes, Performs
      <4>2. Pays(t, [todo |-> Todo, env |-> Env], [todo |-> Rest, env |-> Env], 1)
        BY <3>2, <4>1, PaysOp DEF Rest
      <4> QED
        BY <2>1, <2>2, <3>1, <4>1, <4>2, GoesOn DEF t
    <3>6. CASE First # 0 /\ RunIf
      <4>1. First \in 1..Len(t) /\ S.is = "if"
        BY <3>2, <3>6 DEF RunIf
      <4>2. PICK o \in Outcomes(S.conds, Env) :
              /\ GoesWith(Append(Rest, IF o.yes THEN S.then ELSE S.else), Env)
              /\ ops' = ops + o.asked
        BY <3>6 DEF RunIf, Goes, Performs
      <4> DEFINE arm == IF o.yes THEN S.then ELSE S.else
                 c == o.asked
      <4>3. S.conds \in Seq(Conds)
        BY <3>2, <4>1, StatementFacts
      <4>4. c \in Nat /\ c <= Asked(S.conds)
        BY <4>3, OutcomeFacts
      <4>5. arm \in {S.then, S.else}
        OBVIOUS
      <4>6. GoesWith(Append(Rest, arm), Env) /\ ops' = ops + c
        BY <4>2
      <4> HIDE DEF arm, c
      <4>7. Pays(t, [todo |-> Todo, env |-> Env], [todo |-> Append(Rest, arm), env |-> Env], c)
        BY <3>2, <4>1, <4>4, <4>5, PaysArm DEF Rest
      <4> QED
        BY <2>1, <2>2, <3>1, <4>4, <4>6, <4>7, GoesOn DEF t
    <3>7. CASE First # 0 /\ RunCheck
      <4>1. First \in 1..Len(t) /\ S.is = "check" /\ ops' = ops + 1
        BY <3>2, <3>7 DEF RunCheck, Performs
      <4>2. PICK arm \in {S.then, S.else} : GoesWith(Append(Rest, arm), Binding(S.x, "line"))
        BY <3>7 DEF RunCheck
      <4> DEFINE env2 == Bind(Env, S.x, "line")
      <4>3. Binding(S.x, "line") = env2
        BY DEF Binding, Bind
      <4>4. \E new : env2 = Bind(Env, S.x, new)
        OBVIOUS
      <4> HIDE DEF env2
      <4>5. Pays(t, [todo |-> Todo, env |-> Env], [todo |-> Append(Rest, arm), env |-> env2], 1)
        BY <3>2, <4>1, <4>4, PaysArm DEF Rest
      <4> QED
        BY <2>1, <2>2, <3>1, <4>1, <4>2, <4>3, <4>5, GoesOn DEF t
    <3>8. CASE First # 0 /\ RunWhile
      <4>1. First \in 1..Len(t) /\ S.is = "while"
        BY <3>2, <3>8 DEF RunWhile
      <4>2. PICK o \in Outcomes(S.conds, Env) :
              /\ GoesWith(IF o.yes THEN Append(Todo, S.then) ELSE Rest, Env)
              /\ ops' = ops + o.asked
        BY <3>8 DEF RunWhile, Goes, Performs
      <4>3. S.conds \in Seq(Conds)
        BY <3>2, <4>1, StatementFacts
      <4> DEFINE c == o.asked
      <4>4. c \in Nat /\ c <= Asked(S.conds)
        BY <4>3, OutcomeFacts
      <4>5. CASE o.yes
        <5>1. c = Asked(S.conds) /\ \A i \in DOMAIN S.conds : TRUE \in Answers(S.conds[i], Env)
          BY <4>3, <4>5, OutcomeFacts
        <5>2. GoesWith(Append(Todo, S.then), Env) /\ ops' = ops + c
          BY <4>2, <4>5
        <5> HIDE DEF c
        <5>3. Pays(t, [todo |-> Todo, env |-> Env], [todo |-> Append(Todo, S.then), env |-> Env], c)
          BY <3>2, <4>1, <5>1, PaysTurn
        <5> QED
          BY <2>1, <2>2, <3>1, <4>4, <5>2, <5>3, GoesOn DEF t
      <4>6. CASE ~o.yes
        <5>1. GoesWith(Rest, Env) /\ ops' = ops + c
          BY <4>2, <4>6
        <5> HIDE DEF c
        <5>2. Pays(t, [todo |-> Todo, env |-> Env], [todo |-> Rest, env |-> Env], c)
          BY <3>2, <4>1, <4>4, PaysOver DEF Rest
        <5> QED
          BY <2>1, <2>2, <3>1, <4>4, <5>1, <5>2, GoesOn DEF t
      <4> QED
        BY <4>5, <4>6
    <3>9. CASE First # 0 /\ CallFunction
      <4>1. First \in 1..Len(t) /\ S.is = "call" /\ ops' = ops
        BY <3>2, <3>9 DEF CallFunction
      <4>2. CASE Depth = DEPTH_LIMIT
        <5>1. stack' = <<>>
          BY <3>9, <4>2 DEF CallFunction
        <5>2. ops <= bound
          BY <2>1, <2>2, <3>1, StackUnder
        <5>3. Stacked(program, <<>>, bound, ops)
          BY <2>2, <3>1, <5>2, StackNone
        <5> QED
          BY <3>1, <4>1, <5>1, <5>3
      <4>3. CASE Depth # DEPTH_LIMIT
        <5>1. PICK env \in Inputs :
                stack' = Append([stack EXCEPT ![Depth] = [todo |-> Rest, env |-> Env]],
                                [todo |-> <<program.body[S.x]>>, env |-> env])
          BY <3>9, <4>3 DEF CallFunction
        <5> DEFINE f == [todo |-> Rest, env |-> Env]
                   g == [todo |-> <<program.body[S.x]>>, env |-> env]
        <5>2. /\ f.todo = [Todo EXCEPT ![Len(Todo)] = t[First].next] /\ f.env = stack[Len(stack)].env
              /\ g.todo = <<program.body[t[First].x]>>
          BY <3>2 DEF Rest
        <5>3. stack' = Append([stack EXCEPT ![Len(stack)] = f], g)
          BY <5>1 DEF Depth
        <5> HIDE DEF f, g
        <5>4. Stacked(program, Append([stack EXCEPT ![Len(stack)] = f], g), bound, ops)
          <6> DEFINE todo == Todo
                     k == First
          <6>1. /\ todo = stack[Len(stack)].todo /\ k \in 1..Len(program.text)
                /\ k = todo[Len(todo)] /\ program.text[k].is = "call"
            BY <3>2, <4>1 DEF t
          <6>2. /\ f.todo = [todo EXCEPT ![Len(todo)] = program.text[k].next]
                /\ f.env = stack[Len(stack)].env /\ g.todo = <<program.body[program.text[k].x]>>
            BY <5>2 DEF t
          <6>3. CallMade(program, stack[Len(stack)], f, g)
            BY <6>1, <6>2 DEF CallMade
          <6> QED
            BY <2>1, <2>2, <3>1, <6>3, StackCall
        <5> QED
          BY <3>1, <4>1, <5>3, <5>4
      <4> QED
        BY <4>2, <4>3
    <3>10. CASE EndBlock
      <4>1. First = 0 /\ Len(Todo) > 1 /\ GoesWith(Front(Todo), Env) /\ ops' = ops
        BY <3>10 DEF EndBlock, Goes
      <4>2. Pays(t, [todo |-> Todo, env |-> Env], [todo |-> Front(Todo), env |-> Env], 0)
        BY <3>2, <4>1, PaysEnd
      <4> QED
        BY <2>1, <2>2, <3>1, <3>3, <4>1, <4>2, GoesOn DEF t
    <3>11. CASE Leave
      <4>1. stack' = Front(stack) /\ ops' = ops
        BY <3>11 DEF Leave
      <4>2. Stacked(program, Front(stack), bound, ops)
        BY <2>1, <2>2, <3>1, StackLess
      <4> QED
        BY <3>1, <4>1, <4>2
    <3> QED
      BY <1>2, <3>4, <3>5, <3>6, <3>7, <3>8, <3>9, <3>10, <3>11 DEF Next
  <2>3. Kept' <=> Kept
    BY <2>1 DEF Kept
  <2> QED
    BY <2>1, <2>2, <2>3 DEF LoopsInv
<1> QED
  BY <1>1, <1>2 DEF vars

\* so what is performed is under the bound, and under a baseline the bound does not exceed
LEMMA LoopsHolds ==
  ASSUME LoopsInv, Kept
  PROVE  BoundHeld
<1>1. CASE bound = Inf
  <2>1. AsCount(bound) = None
    BY <1>1 DEF AsCount
  <2>2. \A b \in Baselines \ {None} : Exceeds(AsCount(bound), b)
    BY <2>1 DEF Exceeds
  <2> QED
    BY <1>1, <2>2 DEF BoundHeld
<1>2. CASE bound \in Nat
  <2>1. ops \in Nat /\ ops <= bound
    BY <1>2, StackUnder DEF LoopsInv
  <2>2. ASSUME NEW b \in Baselines \ {None}, ~Exceeds(AsCount(bound), b)
        PROVE  ops <= b
    <3>1. b \in Nat /\ None \notin Int /\ bound # Inf
      BY <1>2, LoopsAssumption
    <3>2. AsCount(bound) # None /\ ~(AsCount(bound) > b)
      BY <2>2 DEF Exceeds
    <3>3. AsCount(bound) = bound
      BY <3>2 DEF AsCount
    <3>4. ~(bound > b)
      BY <3>2, <3>3
    <3> QED
      BY <1>2, <2>1, <3>1, <3>4
  <2> QED
    BY <2>1, <2>2 DEF BoundHeld
<1>3. CASE bound \notin Nat \union {Inf}
  BY <1>3 DEF BoundHeld
<1> QED
  BY <1>1, <1>2, <1>3

\* BoundHeld, of every program whose bound the comparison of its branches'
\* bounds takes no nan out of (ratchet.py, most)
THEOREM BoundIsHeld == Spec => [](Kept => BoundHeld)
<1>1. Init => LoopsInv
  BY LoopsInit
<1>2. LoopsInv /\ [Next]_vars => LoopsInv'
  BY LoopsNext
<1>3. LoopsInv => (Kept => BoundHeld)
  BY LoopsHolds
<1> QED
  BY <1>1, <1>2, <1>3, PTL DEF Spec

=============================================================================
